----------------------------- MODULE VoiceProofs -----------------------------
(***************************************************************************)
(* Theorems about Voice and its ring buffer, for any sizes.                *)
(*                                                                         *)
(* The ring.  BufferSize divides SizeT, so the distance CurrentLength      *)
(* computes in the width of size_t is the distance around the ring         *)
(* (DistanceIs).  What Push leaves in every cell follows (PushIs), in any  *)
(* split of the data into mixed and appended pieces.                       *)
(*                                                                         *)
(* The slots.  Open entries and open slots agree in number, and an entry   *)
(* of a closed socket is only there while it waits to be removed, or after *)
(* a failed accept (PollInv): otherwise the poll array is long enough.     *)
(*                                                                         *)
(* The player.  Since a client last sent, its write index has only come    *)
(* closer to the read index (LagInv).  A client that is passed lies almost *)
(* a lap ahead, farther than it ever was, if MaxLead leaves a frame free:  *)
(* so the underrun test notices it.                                        *)
(*                                                                         *)
(* The refinement.  A step of the ring is the step of VoiceStream for what *)
(* is queued (Contents) and each client's place in it: a frame is dropped  *)
(* from its head, data are added to it from the client's place on.         *)
(***************************************************************************)
EXTENDS Voice, TLAPS, FiniteSetTheorems, SequenceTheorems, WellFoundedInduction

(* The sizes. *)
LEMMA Sizes ==
  /\ BufferSize \in Nat /\ BufferSize > 0 /\ SizeT \in Nat /\ SizeT >= BufferSize
  /\ \E k \in Nat : SizeT = BufferSize * k
<1>1. BufferSize \in Nat \ {0} /\ SizeT \in Nat \ {0} /\ SizeT % BufferSize = 0
  BY MixBufferAssumption
<1>2. PICK q \in Nat : SizeT = BufferSize * q
  BY <1>1
<1>3. q >= 1
  BY <1>1, <1>2
<1>4. BufferSize * q >= BufferSize
  BY <1>1, <1>3
<1> QED
  BY <1>1, <1>2, <1>4

(* The indices, and how many there are. *)
LEMMA CellIs ==
  /\ BufferSize \in Nat /\ BufferSize > 0
  /\ \A i : i \in Cells <=> i \in Int /\ 0 <= i /\ i < BufferSize
  BY Sizes DEF Cells

(* The remainder is what is left over of a multiple. *)
LEMMA Remainder ==
  ASSUME NEW b \in Nat \ {0}, NEW q \in Int, NEW r \in 0 .. b - 1
  PROVE  (q * b + r) % b = r
  OBVIOUS

(* The distance of two indices: a difference that wraps around at the end of the buffer, in   *)
(* whatever width it is computed, as long as the buffer's size divides 2^w.                    *)
LEMMA DistanceIs ==
  ASSUME NEW a \in Cells, NEW b \in Cells
  PROVE  Distance(a, b) = IF b <= a THEN a - b ELSE a - b + BufferSize
<1>1. a \in Int /\ b \in Int /\ 0 <= a /\ a < BufferSize /\ 0 <= b /\ b < BufferSize
  BY Sizes DEF Cells
<1>2. CASE b <= a
  <2>1. (a - b) % SizeT = a - b
    BY <1>1, <1>2, Sizes
  <2>2. (a - b) % BufferSize = a - b
    BY <1>1, <1>2, Sizes
  <2> QED
    BY <1>2, <2>1, <2>2 DEF Distance
<1>3. CASE ~ (b <= a)
  <2>1. (a - b) % SizeT = a - b + SizeT
    <3>1. a - b + SizeT \in 0 .. SizeT - 1
      BY <1>1, <1>3, Sizes
    <3>2. SizeT \in Nat \ {0} /\ -1 \in Int
      BY Sizes
    <3> DEFINE r == a - b + SizeT
               q == -1
    <3>3. (q * SizeT + r) % SizeT = r
      <4> HIDE DEF r, q
      <4> QED
        BY <3>1, <3>2, Remainder DEF q, r
    <3>4. q * SizeT + r = a - b
      BY <1>1, <3>2
    <3> QED
      BY <3>3, <3>4
  <2>2. PICK k \in Nat : SizeT = BufferSize * k
    BY Sizes
  <2>3. a - b + BufferSize \in 0 .. BufferSize - 1
    BY <1>1, <1>3, Sizes
  <2>4. a - b + SizeT = (k - 1) * BufferSize + (a - b + BufferSize)
    BY <1>1, <2>2, Sizes
  <2>5. ((k - 1) * BufferSize + (a - b + BufferSize)) % BufferSize = a - b + BufferSize
    BY <2>3, Sizes, Remainder
  <2> QED
    BY <1>3, <2>1, <2>4, <2>5 DEF Distance
<1> QED
  BY <1>2, <1>3

(* Moving an index on. *)
LEMMA AdvanceIs ==
  ASSUME NEW i \in Cells, NEW n \in 0 .. BufferSize
  PROVE  /\ Advance(i, n) = IF i + n >= BufferSize THEN i + n - BufferSize ELSE i + n
         /\ Advance(i, n) \in Cells
  BY Sizes DEF Advance, Cells

Rings == [buf: [Cells -> AllSamples], read: Cells, length: Cells]

(* The two distances around the ring: what a writer is ahead of the reader, and what is left  *)
(* but for the one cell that tells a full ring from an empty one.                             *)
LEMMA LengthIs ==
  ASSUME NEW r, r.read \in Cells, NEW w \in Cells
  PROVE  /\ CurrentLength(r, w) = IF r.read <= w THEN w - r.read ELSE w - r.read + BufferSize
         /\ CurrentLength(r, w) \in Cells
         /\ CurrentFree(r, w) = BufferSize - 1 - CurrentLength(r, w)
         /\ w = Advance(r.read, CurrentLength(r, w))
<1>1. CurrentLength(r, w) = IF r.read <= w THEN w - r.read ELSE w - r.read + BufferSize
  BY DistanceIs DEF CurrentLength
<1>2. CurrentLength(r, w) \in Cells
  BY <1>1, Sizes DEF Cells
<1>3. Distance(r.read, w) = IF w <= r.read THEN r.read - w ELSE r.read - w + BufferSize
  BY DistanceIs
<1>4. CurrentFree(r, w) = BufferSize - 1 - CurrentLength(r, w)
  BY <1>1, <1>3, Sizes DEF CurrentFree, Cells
<1>5. CurrentLength(r, w) \in 0 .. BufferSize
  BY <1>2, Sizes DEF Cells
<1>6. w = Advance(r.read, CurrentLength(r, w))
  <2> DEFINE l == CurrentLength(r, w)
             x == r.read
  <2>1. l \in 0 .. BufferSize /\ l = IF x <= w THEN w - x ELSE w - x + BufferSize
    BY <1>1, <1>5
  <2>2. x \in Cells
    OBVIOUS
  <2> HIDE DEF l, x
  <2>3. Advance(x, l) = IF x + l >= BufferSize THEN x + l - BufferSize ELSE x + l
    BY <2>1, <2>2, AdvanceIs
  <2>4. w = Advance(x, l)
    BY <2>1, <2>2, <2>3, CellIs
  <2> QED
    BY <2>4 DEF l, x
<1> QED
  BY <1>1, <1>2, <1>4, <1>6

(* A pop takes from the front, and brings the reader closer to a writer or past it. *)
LEMMA PopIs ==
  ASSUME NEW r \in Rings, NEW n \in Nat, n <= r.length
  PROVE  /\ Popped(r, n) \in Rings
         /\ Popped(r, n).buf = r.buf
         /\ Popped(r, n).read = Advance(r.read, n)
         /\ Popped(r, n).length = r.length - n
         /\ \A w \in Cells :
              CurrentLength(Popped(r, n), w) =
                IF n <= CurrentLength(r, w) THEN CurrentLength(r, w) - n
                ELSE CurrentLength(r, w) - n + BufferSize
<1> DEFINE p == Popped(r, n)
<1>1. r.length \in Cells /\ r.read \in Cells /\ n \in 0 .. BufferSize
  BY Sizes DEF Rings, Cells
<1>3. r.length - n \in Cells /\ Advance(r.read, n) \in Cells
  <2>1. Advance(r.read, n) \in Cells
    BY <1>1, AdvanceIs
  <2>2. r.length - n \in Cells
    <3>1. r.length \in Int /\ 0 <= r.length /\ r.length < BufferSize
      BY <1>1, CellIs
    <3> QED
      BY <3>1, CellIs
  <2> QED
    BY <2>1, <2>2
<1>4. p = [r EXCEPT !.read = Advance(r.read, n), !.length = r.length - n]
  BY DEF Popped
<1>5. p \in Rings /\ p.buf = r.buf /\ p.read = Advance(r.read, n) /\ p.length = r.length - n
  <2> HIDE DEF p
  <2> QED
    BY <1>3, <1>4 DEF Rings
<1>6. ASSUME NEW w \in Cells
      PROVE  CurrentLength(p, w) =
               IF n <= CurrentLength(r, w) THEN CurrentLength(r, w) - n
               ELSE CurrentLength(r, w) - n + BufferSize
  <2> HIDE DEF p
  <2>1. Advance(r.read, n) = IF r.read + n >= BufferSize THEN r.read + n - BufferSize ELSE r.read + n
    BY <1>1, AdvanceIs
  <2>2. CurrentLength(p, w) = IF p.read <= w THEN w - p.read ELSE w - p.read + BufferSize
    BY <1>3, <1>5, LengthIs
  <2>3. CurrentLength(r, w) = IF r.read <= w THEN w - r.read ELSE w - r.read + BufferSize
    BY <1>1, LengthIs
  <2> QED
    BY <1>1, <1>5, <2>1, <2>2, <2>3, CellIs
<1> QED
  BY <1>5, <1>6

LEMMA MixIs ==
  ASSUME NEW a \in AllSamples, NEW b \in AllSamples
  PROVE  Mix(a, b) \in AllSamples
  BY MixBufferAssumption DEF Mix, AllSamples

(* How a push is split: it mixes with what is stored in front of the writer and appends the   *)
(* rest.                                                                                      *)
LEMMA SplitIs ==
  ASSUME NEW r \in Rings, NEW w \in Cells, NEW n \in Nat, n <= CurrentFree(r, w)
  PROVE  /\ ToMix(r, w, n) \in 0 .. n
         /\ ToMix(r, w, n) = IF r.length <= CurrentLength(r, w) THEN 0
                             ELSE IF CurrentLength(r, w) + n < r.length THEN n
                             ELSE r.length - CurrentLength(r, w)
         /\ r.length + n - ToMix(r, w, n) \in Cells
         /\ CurrentLength(r, w) + n \in Cells
<1>1. r.length \in Cells /\ r.read \in Cells
  BY DEF Rings
<1>2. CurrentLength(r, w) \in Cells /\ CurrentFree(r, w) = BufferSize - 1 - CurrentLength(r, w)
  BY <1>1, LengthIs
<1> QED
  BY <1>1, <1>2, Sizes DEF ToMix, Cells

(* What is stored: a sample per cell. *)
LEMMA StoredType ==
  ASSUME NEW buf \in [Cells -> AllSamples], NEW w \in Cells, NEW data \in Seq(AllSamples), NEW m \in Nat
  PROVE  Stored(buf, w, data, m) \in [Cells -> AllSamples]
<1>1. ASSUME NEW i \in Cells
      PROVE  LET k == Distance(i, w) + 1
             IN  (IF k > Len(data) THEN buf[i] ELSE IF k <= m THEN Mix(buf[i], data[k]) ELSE data[k]) \in AllSamples
  <2> DEFINE k == Distance(i, w) + 1
  <2>1. k \in Nat /\ k >= 1
    <3>1. Distance(i, w) = IF w <= i THEN i - w ELSE i - w + BufferSize
      BY DistanceIs
    <3> QED
      BY <3>1, CellIs
  <2>2. buf[i] \in AllSamples
    OBVIOUS
  <2> HIDE DEF k
  <2>3. k <= Len(data) => data[k] \in AllSamples
    BY <2>1
  <2> QED
    BY <2>1, <2>2, <2>3, MixIs DEF k
<1> QED
  BY <1>1 DEF Stored

(* A push that fits: the reader stays, and the writer ends where its samples do. *)
LEMMA PushIs ==
  ASSUME NEW r \in Rings, NEW w \in Cells, NEW data \in Seq(AllSamples), Len(data) <= CurrentFree(r, w)
  PROVE  /\ Push(r, w, data) \in Rings
         /\ Push(r, w, data).read = r.read
         /\ Push(r, w, data).buf = Stored(r.buf, w, data, ToMix(r, w, Len(data)))
         /\ Push(r, w, data).length = r.length + Len(data) - ToMix(r, w, Len(data))
         /\ WriteEnd(r, w, Len(data)) \in Cells
         /\ CurrentLength(Push(r, w, data), WriteEnd(r, w, Len(data))) = CurrentLength(r, w) + Len(data)
<1> DEFINE n == Len(data)
           m == ToMix(r, w, n)
           b == Stored(r.buf, w, data, m)
           p == Push(r, w, data)
           e == WriteEnd(r, w, n)
<1>1. n \in Nat /\ r.read \in Cells /\ r.length \in Cells /\ r.buf \in [Cells -> AllSamples]
  BY DEF Rings
<1>2. m \in 0 .. n /\ r.length + n - m \in Cells /\ CurrentLength(r, w) + n \in Cells
  BY <1>1, SplitIs
<1>3. b \in [Cells -> AllSamples]
  BY <1>1, <1>2, StoredType
<1>4. p = [r EXCEPT !.buf = b, !.length = r.length + n - m]
  BY DEF Push
<1>5. p \in Rings /\ p.read = r.read /\ p.buf = b /\ p.length = r.length + n - m
  <2> HIDE DEF p, b, m, n
  <2> QED
    BY <1>1, <1>2, <1>3, <1>4 DEF Rings
<1> HIDE DEF m, p
<1>6. n \in 0 .. BufferSize /\ m \in 0 .. BufferSize /\ n - m \in 0 .. BufferSize /\ n <= BufferSize - 1
  <2>1. CurrentLength(r, w) \in Cells
    BY <1>1, LengthIs
  <2>2. /\ CurrentLength(r, w) \in Nat /\ BufferSize \in Nat
        /\ CurrentLength(r, w) + n <= BufferSize - 1 /\ n \in Nat
        /\ m \in Nat /\ m <= n
    BY <1>1, <1>2, <2>1, Sizes DEF Cells
  <2> QED
    BY ONLY <2>2
<1>7. e = Advance(Advance(w, m), n - m)
  BY DEF WriteEnd, m
<1>8. e \in Cells /\ e = (IF w + n >= BufferSize THEN w + n - BufferSize ELSE w + n)
  <2>1. Advance(w, m) = (IF w + m >= BufferSize THEN w + m - BufferSize ELSE w + m) /\ Advance(w, m) \in Cells
    BY <1>6, AdvanceIs
  <2> DEFINE a == Advance(w, m)
  <2> HIDE DEF a
  <2>2. Advance(a, n - m) = (IF a + (n - m) >= BufferSize THEN a + (n - m) - BufferSize ELSE a + (n - m)) /\ Advance(a, n - m) \in Cells
    BY <1>6, <2>1, AdvanceIs DEF a
  <2> HIDE DEF e, n
  <2> QED
    BY <1>6, <1>7, <2>1, <2>2, CellIs DEF a
<1>9. CurrentLength(p, e) = CurrentLength(r, w) + n
  <2> HIDE DEF e, n
  <2>1. CurrentLength(p, e) = IF r.read <= e THEN e - r.read ELSE e - r.read + BufferSize
    BY <1>1, <1>5, <1>8, LengthIs
  <2>2. CurrentLength(r, w) = IF r.read <= w THEN w - r.read ELSE w - r.read + BufferSize
    BY <1>1, LengthIs
  <2> QED
    <3> DEFINE x == r.read
               l == CurrentLength(r, w)
    <3>1. l \in Int /\ l + n < BufferSize /\ l = IF x <= w THEN w - x ELSE w - x + BufferSize
      <4>1. l \in Cells
        BY <1>1, LengthIs
      <4> QED
        BY <1>2, <1>6, <2>2, <4>1, CellIs
    <3>2. x \in Int /\ 0 <= x /\ x < BufferSize /\ w \in Int /\ 0 <= w /\ w < BufferSize
      BY <1>1, CellIs
    <3>3. e = IF w + n >= BufferSize THEN w + n - BufferSize ELSE w + n
      BY <1>8
    <3>4. BufferSize \in Int /\ n \in Int
      BY <1>6, CellIs
    <3> HIDE DEF x, l
    <3>5. (IF x <= e THEN e - x ELSE e - x + BufferSize) = l + n
      BY <1>6, <3>1, <3>2, <3>3, <3>4
    <3> QED
      BY <2>1, <3>5 DEF x, l
<1> QED
  BY <1>5, <1>8, <1>9 DEF p, m
-----------------------------------------------------------------------------
(* Types. *)

Places == {"idle", "read", "compress", "voice", "play", "overrun"}

LEMMA StartType == TypeOK => \A c \in Clients : Start(c) \in Cells
  BY DEF TypeOK, Start

(* What OnDataReceived keeps of what it was given. *)
LEMMA KeptIs ==
  ASSUME NEW n \in Nat, NEW data \in [1 .. n -> Samples], NEW kept \in Kept(data)
  PROVE  kept \in Seq(Samples) /\ kept \in Seq(AllSamples) /\ Len(kept) <= n
<1>1. data \in Seq(Samples) /\ Len(data) = n
  OBVIOUS
<1>2. CASE kept = data
  BY <1>1, <1>2, VoiceAssumption
<1>3. ASSUME NEW i \in DOMAIN data, kept = SubSeq(data, i, Len(data))
      PROVE  kept \in Seq(Samples) /\ Len(kept) <= n
  BY <1>1, <1>3
<1>4. \A s \in Seq(Samples) : s \in Seq(AllSamples)
  BY VoiceAssumption
<1> QED
  BY <1>2, <1>3, <1>4 DEF Kept, Audible

LEMMA DataIs ==
  ASSUME TypeOK, NEW c \in Clients, NEW bytes \in 1 .. RecvSize, BeginRecv(c, bytes),
         NEW data \in Data(c, bytes), NEW kept \in Kept(data)
  PROVE  kept \in Seq(Samples) /\ kept \in Seq(AllSamples) /\ Len(kept) \in 0 .. RecvSize \div 2
<1> DEFINE n == (bytes + IF unEven[c] THEN 1 ELSE 0) \div 2
<1>1. RecvSize \in Nat /\ bytes \in Nat
  BY VoiceAssumption
<1>2. n \in Nat /\ n <= RecvSize \div 2
  <2>1. CASE unEven[c]
    <3>1. bytes + 1 <= RecvSize
      BY <1>1, <2>1 DEF BeginRecv
    <3> QED
      BY <1>1, <2>1, <3>1
  <2>2. CASE ~ unEven[c]
    BY <1>1, <2>2
  <2> QED
    BY <2>1, <2>2
<1>3. data \in [1 .. n -> Samples]
  BY DEF Data
<1> HIDE DEF n
<1>4. kept \in Seq(Samples) /\ kept \in Seq(AllSamples) /\ Len(kept) <= n
  BY <1>2, <1>3, KeptIs
<1>5. RecvSize \div 2 \in Nat
  BY <1>1
<1> QED
  BY <1>2, <1>4, <1>5

(* A client's data in the ring. *)
LEMMA PushedIs ==
  ASSUME TypeOK, NEW c \in Clients, NEW kept \in Seq(AllSamples), PushData(c, kept)
  PROVE  /\ ring' \in Rings /\ ring'.read = ring.read
         /\ writeIndex' \in [Clients -> Cells] /\ lastLength' \in [Clients -> Cells]
         /\ ring' = Push(ring, Start(c), kept)
         /\ CurrentLength(ring, Start(c)) + Len(kept) \in Cells
         /\ CurrentLength(ring', writeIndex'[c]) = CurrentLength(ring, Start(c)) + Len(kept)
         /\ lastLength'[c] = CurrentLength(ring, Start(c)) + Len(kept)
         /\ \A d \in Clients \ {c} : writeIndex'[d] = writeIndex[d] /\ lastLength'[d] = lastLength[d]
<1> DEFINE w == Start(c)
           n == Len(kept)
<1>1. w \in Cells /\ ring \in Rings /\ n \in Nat /\ n <= CurrentFree(ring, w)
  BY StartType DEF TypeOK, Rings, PushData
<1>2. ring' = Push(ring, w, kept) /\ writeIndex' = [writeIndex EXCEPT ![c] = WriteEnd(ring, w, n)]
      /\ lastLength' = [lastLength EXCEPT ![c] = CurrentLength(ring', writeIndex'[c])]
  BY DEF PushData
<1>3. writeIndex \in [Clients -> Cells] /\ lastLength \in [Clients -> Cells]
  BY DEF TypeOK
<1> HIDE DEF w
<1>4. ring' \in Rings /\ ring'.read = ring.read /\ WriteEnd(ring, w, n) \in Cells
      /\ CurrentLength(ring', WriteEnd(ring, w, n)) = CurrentLength(ring, w) + n
  BY <1>1, <1>2, PushIs
<1>5. CurrentLength(ring, w) + n \in Cells
  BY <1>1, SplitIs
<1> HIDE DEF n
<1>6. writeIndex'[c] = WriteEnd(ring, w, n) /\ writeIndex' \in [Clients -> Cells]
  BY <1>2, <1>3, <1>4
<1>7. lastLength'[c] = CurrentLength(ring, w) + n /\ lastLength' \in [Clients -> Cells]
  BY <1>2, <1>3, <1>4, <1>5, <1>6
<1> QED
  BY <1>2, <1>3, <1>4, <1>5, <1>6, <1>7 DEF w, n

LEMMA NothingPushedIs ==
  ASSUME TypeOK, NEW c \in Clients, PushNothing(c)
  PROVE  /\ writeIndex' \in [Clients -> Cells] /\ lastLength' \in [Clients -> Cells] /\ ring' = ring
         /\ writeIndex'[c] = Start(c) /\ lastLength'[c] = CurrentLength(ring, Start(c))
         /\ \A d \in Clients \ {c} : writeIndex'[d] = writeIndex[d] /\ lastLength'[d] = lastLength[d]
<1>1. Start(c) \in Cells /\ ring.read \in Cells
  BY StartType DEF TypeOK
<1>2. CurrentLength(ring, Start(c)) \in Cells
  BY <1>1, LengthIs
<1> QED
  BY <1>1, <1>2 DEF TypeOK, PushNothing

(* The frames. *)
LEMMA PlayTypes ==
  ASSUME TypeOK, PlayInv, phase = "play", left > 0
  PROVE  /\ Popped(ring, FrameSize) \in Rings
         /\ FrameSize \in Nat /\ FrameSize >= 1 /\ FrameSize <= ring.length
         /\ left \in Nat /\ left - 1 \in 0 .. frames
         /\ (left - 1) * FrameSize <= ring.length - FrameSize
<1>1. FrameSize \in Nat /\ FrameSize >= 1
  BY VoiceAssumption
<1>2. left \in Nat /\ frames \in Nat /\ left <= frames /\ ring \in Rings /\ ring.length \in Int
  BY Sizes, VoiceAssumption DEF TypeOK, Rings, Cells
<1>3. left * FrameSize <= ring.length
  BY DEF PlayInv
<1>4. (left - 1) * FrameSize = left * FrameSize - FrameSize
  BY <1>1, <1>2
<1>5. (left - 1) * FrameSize >= 0
  BY <1>1, <1>2
<1>6. FrameSize <= ring.length
  BY <1>1, <1>2, <1>3, <1>4, <1>5
<1>7. Popped(ring, FrameSize) \in Rings
  BY <1>1, <1>2, <1>6, PopIs
<1> QED
  BY <1>1, <1>2, <1>3, <1>4, <1>6, <1>7

(* The type invariant in three parts, and what each depends on. *)
ClientTypes ==
  /\ socket \in [Clients -> Sockets \cup {Closed}]
  /\ new \in [Clients -> BOOLEAN] /\ unEven \in [Clients -> BOOLEAN]
  /\ writeIndex \in [Clients -> Cells] /\ lastLength \in [Clients -> Cells]

PollTypes ==
  /\ polls \in Seq(Sockets \cup {Closed}) /\ Len(polls) <= MAX_CLIENTS
  /\ polled \in 0 .. MAX_CLIENTS /\ entry \in 1 .. MAX_CLIENTS + 1 /\ compress \in BOOLEAN
  /\ refused \in BOOLEAN

PlayTypes_ ==
  /\ frames \in 0 .. MaxFrames /\ left \in 0 .. frames
  /\ ahead \in -1 .. MaxAhead + MaxFrames

LEMMA TypeIs == TypeOK <=> ClientTypes /\ PollTypes /\ PlayTypes_ /\ ring \in Rings /\ phase \in Places
  BY DEF TypeOK, ClientTypes, PollTypes, PlayTypes_, Rings, Places

LEMMA TypeIsNext == TypeOK' <=> ClientTypes' /\ PollTypes' /\ PlayTypes_' /\ ring' \in Rings /\ phase' \in Places
  BY DEF TypeOK, ClientTypes, PollTypes, PlayTypes_, Rings, Places

LEMMA TypesStay ==
  /\ ClientTypes /\ UNCHANGED clientVars => ClientTypes'
  /\ PollTypes /\ UNCHANGED pollVars => PollTypes'
  /\ PlayTypes_ /\ UNCHANGED playVars => PlayTypes_'
  BY DEF ClientTypes, PollTypes, PlayTypes_, clientVars, pollVars, playVars

LEMMA NextEntryTypes ==
  ASSUME PollTypes, entry <= Len(polls), NextEntry,
         \/ polls' = polls /\ compress' = compress
         \/ \E i \in DOMAIN polls : polls' = [polls EXCEPT ![i] = Closed] /\ compress' = TRUE
  PROVE  PollTypes'
<1>1. MAX_CLIENTS \in Nat /\ Len(polls) \in Nat /\ entry \in Nat
  BY VoiceAssumption DEF PollTypes
<1>2. entry' \in 1 .. MAX_CLIENTS + 1 /\ polled' \in 0 .. MAX_CLIENTS /\ refused' \in BOOLEAN /\ compress' \in BOOLEAN
  <2>1. entry' = entry + 1 /\ polled' = polled /\ refused' = refused
    BY DEF NextEntry
  <2>2. entry <= MAX_CLIENTS /\ entry >= 1
    BY <1>1 DEF PollTypes
  <2>3. entry' \in 1 .. MAX_CLIENTS + 1
    BY <1>1, <2>1, <2>2
  <2>4. compress' \in BOOLEAN
    BY DEF PollTypes
  <2> QED
    BY <2>1, <2>3, <2>4 DEF PollTypes
<1>3. polls' \in Seq(Sockets \cup {Closed}) /\ Len(polls') = Len(polls)
  BY DEF PollTypes
<1> QED
  BY <1>2, <1>3 DEF PollTypes

(* The loop over the entries begins, or is over. *)
LEMMA EntryTypes ==
  ASSUME PollTypes
  PROVE  /\ Len(polls) \in 0 .. MAX_CLIENTS /\ 0 \in 0 .. MAX_CLIENTS /\ 1 \in 1 .. MAX_CLIENTS + 1
         /\ FALSE \in BOOLEAN /\ TRUE \in BOOLEAN
         /\ BeginRead => polled' \in 0 .. MAX_CLIENTS /\ entry' \in 1 .. MAX_CLIENTS + 1 /\ compress' \in BOOLEAN
<1>1. MAX_CLIENTS \in Nat /\ MAX_CLIENTS >= 1 /\ Len(polls) \in Nat /\ Len(polls) <= MAX_CLIENTS
  BY VoiceAssumption DEF PollTypes
<1>2. Len(polls) \in 0 .. MAX_CLIENTS /\ 0 \in 0 .. MAX_CLIENTS /\ 1 \in 1 .. MAX_CLIENTS + 1
  BY <1>1
<1> QED
  BY <1>2 DEF BeginRead

(* A set of natural numbers that is not empty has a least one. *)
LEMMA LowestIs ==
  ASSUME NEW T \in SUBSET Nat, T # {}
  PROVE  Lowest(T) \in T /\ \A n \in T : Lowest(T) <= n
<1> DEFINE R == OpToRel(<, Nat)
<1>1. IsWellFoundedOn(R, Nat)
  BY NatLessThanWellFounded
<1>2. ASSUME NEW m \in Nat, NEW n \in Nat, <<m, n>> \notin R
      PROVE  n <= m
  BY <1>2 DEF OpToRel
<1> HIDE DEF R
<1>3. PICK n \in T : \A m \in T : ~ (<<m, n>> \in R)
  BY <1>1, WFMin
<1>4. \A m \in T : n <= m
  BY <1>2, <1>3
<1> QED
  BY <1>4 DEF Lowest

(* There are as many sockets as slots, so one is left for a new client. *)
LEMMA SocketLeft ==
  ASSUME ClientTypes, FreeSlots # {}
  PROVE  /\ Lowest(FreeSlots) \in FreeSlots
         /\ Lowest(Sockets \ {socket[d] : d \in Clients}) \in Sockets \ {socket[d] : d \in Clients}
<1>0. MAX_CLIENTS \in Nat
  BY VoiceAssumption
<1>1. Lowest(FreeSlots) \in FreeSlots
  <2>1. FreeSlots \in SUBSET Nat
    BY <1>0 DEF FreeSlots, Clients
  <2> QED
    BY <2>1, LowestIs
<1>2. PICK c \in Clients : socket[c] = Closed
  BY DEF FreeSlots
<1>3. IsFiniteSet(Clients) /\ Cardinality(Clients) = MAX_CLIENTS
  BY <1>0, FS_Interval DEF Clients
<1>4. IsFiniteSet(Clients \ {c}) /\ Cardinality(Clients \ {c}) = MAX_CLIENTS - 1
  BY <1>3, FS_RemoveElement
<1>5. IsFiniteSet(Sockets) /\ Cardinality(Sockets) = MAX_CLIENTS
  BY <1>3 DEF Sockets, Clients
<1>6. ASSUME \A s \in Sockets : \E d \in Clients : socket[d] = s
      PROVE  FALSE
  <2> DEFINE f == [s \in Sockets |-> CHOOSE d \in Clients : socket[d] = s]
  <2>1. \A s \in Sockets : s # Closed
    BY <1>0 DEF Sockets, Closed
  <2>2. \A s \in Sockets : f[s] \in Clients /\ socket[f[s]] = s
    BY <1>6
  <2>3. f \in [Sockets -> Clients \ {c}]
    BY <1>2, <2>1, <2>2
  <2>4. Cardinality(Clients \ {c}) < Cardinality(Sockets)
    BY <1>0, <1>4, <1>5
  <2> HIDE DEF f
  <2>5. PICK x, y \in Sockets : x # y /\ f[x] = f[y]
    BY <1>4, <1>5, <2>3, <2>4, FS_PigeonHole
  <2> QED
    BY <2>2, <2>5
<1>8. Sockets \ {socket[d] : d \in Clients} # {}
  BY <1>6
<1>9. Sockets \ {socket[d] : d \in Clients} \in SUBSET Nat
  BY <1>0 DEF Sockets
<1> QED
  BY <1>1, <1>8, <1>9, LowestIs

(* The entry looked at is one that poll looked at. *)
LEMMA EntryIs ==
  ASSUME TypeOK, PollInv, NEW c \in Clients, AtEntry(c)
  PROVE  entry \in DOMAIN polls /\ entry <= Len(polls) /\ phase = "read" /\ polls[entry] \in Sockets
<1>1. phase = "read" /\ entry <= polled /\ polled <= Len(polls) /\ polls[entry] # Closed
  BY DEF AtEntry, PollInv
<1>2. polls \in Seq(Sockets \cup {Closed}) /\ entry \in Nat /\ entry >= 1 /\ polled \in Nat
  BY VoiceAssumption DEF TypeOK
<1>3. entry <= Len(polls) /\ entry \in DOMAIN polls
  BY <1>1, <1>2
<1> QED
  BY <1>1, <1>2, <1>3

(* The sequence without an element has one less, the others in their order. *)
LEMMA RemoveIs ==
  ASSUME NEW S, NEW s \in Seq(S), NEW k \in DOMAIN s
  PROVE  /\ RemoveAt(s, k) \in Seq(S) /\ Len(RemoveAt(s, k)) = Len(s) - 1
         /\ \A i \in 1 .. Len(s) - 1 : RemoveAt(s, k)[i] = s[IF i < k THEN i ELSE i + 1]
<1>1. k \in Nat /\ k >= 1 /\ k <= Len(s) /\ Len(s) \in Nat
  OBVIOUS
<1> DEFINE a == SubSeq(s, 1, k - 1)
           b == SubSeq(s, k + 1, Len(s))
<1>2. a \in Seq(S) /\ Len(a) = k - 1 /\ \A i \in 1 .. k - 1 : a[i] = s[i]
  BY <1>1
<1>3. b \in Seq(S) /\ Len(b) = Len(s) - k /\ \A i \in 1 .. Len(s) - k : b[i] = s[k + i]
  BY <1>1
<1>4. RemoveAt(s, k) = a \o b
  BY DEF RemoveAt
<1> HIDE DEF a, b
<1>5. a \o b \in Seq(S) /\ Len(a \o b) = Len(s) - 1
  BY <1>1, <1>2, <1>3
<1>6. ASSUME NEW i \in 1 .. Len(s) - 1
      PROVE  (a \o b)[i] = s[IF i < k THEN i ELSE i + 1]
  <2>1. CASE i < k
    BY <1>1, <1>2, <1>3, <2>1
  <2>2. CASE ~ (i < k)
    <3>1. (a \o b)[i] = b[i - (k - 1)] /\ i - (k - 1) \in 1 .. Len(s) - k
      <4>1. i \in Int /\ i >= 1 /\ i <= Len(s) - 1 /\ i > Len(a) /\ i <= Len(a) + Len(b)
        BY <1>1, <1>2, <1>3, <2>2
      <4>2. (a \o b)[i] = b[i - Len(a)]
        <5>1. a \in Seq(S) /\ b \in Seq(S)
          BY <1>2, <1>3
        <5>2. i \in 1 .. Len(a) + Len(b)
          BY <4>1, <5>1
        <5> QED
          BY ONLY <4>1, <5>1, <5>2
      <4>3. i - (k - 1) \in 1 .. Len(s) - k
        BY <1>1, <2>2, <4>1
      <4> QED
        BY <1>2, <4>2, <4>3
    <3>2. k + (i - (k - 1)) = i + 1
      BY <1>1
    <3> QED
      BY <1>3, <2>2, <3>1, <3>2
  <2> QED
    BY <2>1, <2>2
<1> QED
  BY <1>4, <1>5, <1>6

LEMMA ClosedEntryIs ==
  ASSUME TypeOK, ClosedEntries # {}
  PROVE  /\ Lowest(ClosedEntries) \in ClosedEntries /\ Lowest(ClosedEntries) \in DOMAIN polls
         /\ RemoveAt(polls, Lowest(ClosedEntries)) \in Seq(Sockets \cup {Closed})
         /\ Len(RemoveAt(polls, Lowest(ClosedEntries))) = Len(polls) - 1
<1>1. polls \in Seq(Sockets \cup {Closed})
  BY DEF TypeOK
<1>2. ClosedEntries \in SUBSET Nat /\ ClosedEntries \subseteq DOMAIN polls
  BY <1>1 DEF ClosedEntries
<1>3. Lowest(ClosedEntries) \in ClosedEntries
  BY <1>2, LowestIs
<1> QED
  BY <1>1, <1>2, <1>3, RemoveIs

(* Every step keeps the types. *)
LEMMA TypeStep ==
  ASSUME IndInv, Next
  PROVE  TypeOK'
<1> USE DEF Places
<1>0. /\ ClientTypes /\ PollTypes /\ PlayTypes_ /\ ring \in Rings /\ phase \in Places
      /\ TypeOK /\ PollInv /\ PlayInv /\ Closed \in Sockets \cup {Closed}
      /\ MAX_CLIENTS \in Nat /\ MAX_CLIENTS >= 1 /\ MaxFrames \in Nat /\ MaxAhead \in Nat
  BY TypeIs, VoiceAssumption DEF IndInv
<1>1. CASE Tick
  <2>1. PlayTypes_'
    BY <1>0, <1>1 DEF Tick, PlayTypes_
  <2> QED
    BY <1>0, <1>1, <2>1, TypesStay, TypeIsNext DEF Tick
<1>2. CASE PollNothing
  BY <1>0, <1>2, TypesStay, TypeIsNext DEF PollNothing
<1>3. CASE PollClients
  <2>1. PollTypes'
    BY <1>0, <1>3, EntryTypes DEF PollClients, PollTypes
  <2> QED
    BY <1>0, <1>3, <2>1, TypesStay, TypeIsNext DEF PollClients
<1>4. CASE Accept
  <2> DEFINE c == Lowest(FreeSlots)
  <2>1. c \in Clients
    BY <1>0, <1>4, SocketLeft DEF Accept, FreeSlots
  <2>2. PICK s \in Sockets \cup {Closed} :
          /\ socket' = [socket EXCEPT ![c] = s]
          /\ new' = [new EXCEPT ![c] = TRUE]
          /\ writeIndex' = [writeIndex EXCEPT ![c] = 0]
          /\ lastLength' = [lastLength EXCEPT ![c] = 0]
          /\ unEven' = [unEven EXCEPT ![c] = FALSE]
          /\ IF Len(polls) < MAX_CLIENTS
               THEN /\ polls' = Append(polls, s) /\ refused' = (refused \/ s = Closed)
                    /\ phase' = "read" /\ BeginRead
               ELSE phase' = "overrun" /\ UNCHANGED pollVars
    <3>1. Lowest(Sockets \ {socket[d] : d \in Clients}) \in Sockets
      BY <1>0, <1>4, SocketLeft DEF Accept
    <3> QED
      BY <1>0, <1>4, <3>1 DEF Accept
  <2>3. ClientTypes'
    <3>1. 0 \in Cells
      BY CellIs
    <3> QED
      BY <1>0, <2>1, <2>2, <3>1 DEF ClientTypes
  <2>4. PollTypes' /\ phase' \in Places
    <3>1. CASE Len(polls) < MAX_CLIENTS
      <4>1. polls' \in Seq(Sockets \cup {Closed}) /\ Len(polls') <= MAX_CLIENTS
        <5>1. polls' = Append(polls, s) /\ polls \in Seq(Sockets \cup {Closed}) /\ s \in Sockets \cup {Closed}
          BY <1>0, <2>2, <3>1 DEF PollTypes
        <5>2. polls' \in Seq(Sockets \cup {Closed}) /\ Len(polls') = Len(polls) + 1 /\ Len(polls) \in Nat
          BY <5>1
        <5> QED
          BY <1>0, <3>1, <5>2
      <4>2. BeginRead /\ refused' \in BOOLEAN /\ phase' = "read"
        BY <1>0, <2>2, <3>1 DEF PollTypes
      <4> QED
        BY <1>0, <4>1, <4>2, EntryTypes DEF PollTypes
    <3>2. CASE ~ (Len(polls) < MAX_CLIENTS)
      BY <1>0, <2>2, <3>2, TypesStay
    <3> QED
      BY <3>1, <3>2
  <2> QED
    BY <1>0, <1>4, <2>3, <2>4, TypesStay, TypeIsNext DEF Accept
<1>5. CASE Skip
  <2>1. PollTypes'
    BY <1>0, <1>5, NextEntryTypes DEF Skip
  <2> QED
    BY <1>0, <1>5, <2>1, TypesStay, TypeIsNext DEF Skip, NextEntry
<1>6. CASE EndRead
  <2>1. PollTypes'
    BY <1>0, <1>6, EntryTypes DEF EndRead, PollTypes
  <2> QED
    BY <1>0, <1>6, <2>1, TypesStay, TypeIsNext DEF EndRead
<1>7. CASE CompressPollFds
  <2>1. PollTypes'
    <3>1. /\ RemoveAt(polls, Lowest(ClosedEntries)) \in Seq(Sockets \cup {Closed})
          /\ Len(RemoveAt(polls, Lowest(ClosedEntries))) = Len(polls) - 1
      BY <1>0, <1>7, ClosedEntryIs DEF CompressPollFds
    <3>2. Len(polls) \in Nat /\ Len(polls) <= MAX_CLIENTS
      BY <1>0 DEF PollTypes
    <3> QED
      BY <1>0, <1>7, <3>1, <3>2 DEF CompressPollFds, PollTypes
  <2> QED
    BY <1>0, <1>7, <2>1, TypesStay, TypeIsNext DEF CompressPollFds
<1>8. CASE EndCompress
  <2>1. PollTypes'
    BY <1>0, <1>8 DEF EndCompress, PollTypes
  <2> QED
    BY <1>0, <1>8, <2>1, TypesStay, TypeIsNext DEF EndCompress
<1>9. ASSUME NEW c \in Clients, HangUp(c)
      PROVE  TypeOK'
  <2>1. PollTypes'
    BY <1>0, <1>9, EntryIs, NextEntryTypes DEF HangUp, CloseClient
  <2>2. ClientTypes'
    BY <1>0, <1>9 DEF HangUp, CloseClient, ClientTypes
  <2> QED
    BY <1>0, <1>9, <2>1, <2>2, TypesStay, TypeIsNext DEF HangUp, NextEntry
<1>10. ASSUME NEW c \in Clients, TooFull(c)
       PROVE  TypeOK'
  <2>1. PollTypes'
    BY <1>0, <1>10, EntryIs, NextEntryTypes DEF TooFull, BeginData
  <2>2. ClientTypes'
    BY <1>0, <1>10, StartType DEF TooFull, BeginData, ClientTypes
  <2> QED
    BY <1>0, <1>10, <2>1, <2>2, TypesStay, TypeIsNext DEF TooFull, NextEntry
<1>11. ASSUME NEW c \in Clients, Disconnect(c)
       PROVE  TypeOK'
  <2>1. PollTypes'
    BY <1>0, <1>11, EntryIs, NextEntryTypes DEF Disconnect, BeginData, CloseClient
  <2>2. ClientTypes'
    BY <1>0, <1>11, StartType DEF Disconnect, BeginData, CloseClient, ClientTypes
  <2> QED
    BY <1>0, <1>11, <2>1, <2>2, TypesStay, TypeIsNext DEF Disconnect, NextEntry
<1>12. ASSUME NEW c \in Clients, NEW bytes \in 1 .. RecvSize, BeginRecv(c, bytes),
              writeIndex' \in [Clients -> Cells], lastLength' \in [Clients -> Cells], ring' \in Rings
       PROVE  TypeOK'
  <2>1. PollTypes'
    BY <1>0, <1>12, EntryIs, NextEntryTypes DEF BeginRecv, BeginData
  <2>2. unEven' \in [Clients -> BOOLEAN]
    <3>1. \A b \in BOOLEAN : unEven' = [unEven EXCEPT ![c] = b] => unEven' \in [Clients -> BOOLEAN]
      BY <1>0 DEF ClientTypes
    <3> QED
      BY <1>12, <3>1 DEF BeginRecv
  <2>3. ClientTypes'
    BY <1>0, <1>12, <2>2 DEF BeginRecv, BeginData, ClientTypes
  <2>4. PlayTypes_' /\ phase' \in Places
    BY <1>0, <1>12, TypesStay DEF BeginRecv, NextEntry
  <2> QED
    BY <1>12, <2>1, <2>3, <2>4, TypeIsNext
<1>13. ASSUME NEW c \in Clients, Receive(c) \/ Ignore(c) \/ Drop(c)
       PROVE  TypeOK'
  <2>1. CASE Receive(c)
    <3>1. PICK bytes \in 1 .. RecvSize :
            BeginRecv(c, bytes) /\ \E data \in Data(c, bytes) : \E kept \in Kept(data) : PushData(c, kept)
      BY <2>1 DEF Receive
    <3>2. PICK kept \in Seq(AllSamples) : PushData(c, kept)
      BY <1>0, <3>1, DataIs
    <3>3. writeIndex' \in [Clients -> Cells] /\ lastLength' \in [Clients -> Cells] /\ ring' \in Rings
      BY <1>0, <3>2, PushedIs
    <3> QED
      BY <1>12, <3>1, <3>3
  <2>2. CASE Ignore(c) \/ Drop(c)
    <3>1. PICK bytes \in 1 .. RecvSize : BeginRecv(c, bytes) /\ PushNothing(c)
      BY <2>2 DEF Ignore, Drop
    <3>2. writeIndex' \in [Clients -> Cells] /\ lastLength' \in [Clients -> Cells] /\ ring' \in Rings
      BY <1>0, <3>1, NothingPushedIs
    <3> QED
      BY <1>12, <3>1, <3>2
  <2> QED
    BY <1>13, <2>1, <2>2
<1>14. CASE PlayNothing
  BY <1>0, <1>14, TypesStay, TypeIsNext DEF PlayNothing
<1>15. CASE BeginPlay
  <2>1. FramesAvailable \in Nat
    <3>1. ring.length \in Nat /\ FrameSize \in Nat \ {0}
      BY <1>0, CellIs, VoiceAssumption DEF Rings
    <3> QED
      BY <3>1 DEF FramesAvailable
  <2>2. frames' \in 0 .. MaxFrames /\ left' \in 0 .. frames'
    BY <1>0, <1>15, <2>1 DEF BeginPlay
  <2>3. PlayTypes_'
    BY <1>0, <1>15, <2>2 DEF BeginPlay, PlayTypes_
  <2> QED
    BY <1>0, <1>15, <2>3, TypesStay, TypeIsNext DEF BeginPlay
<1>16. CASE PlayFrame
  <2>1. ring' \in Rings /\ left - 1 \in 0 .. frames
    BY <1>0, <1>16, PlayTypes DEF PlayFrame
  <2>2. ring'.read \in Cells /\ 0 \in Cells
    BY <2>1, CellIs DEF Rings
  <2>3. writeIndex' \in [Clients -> Cells] /\ lastLength' \in [Clients -> Cells]
    BY <1>0, <1>16, <2>2 DEF PlayFrame, ClientTypes
  <2>4. ClientTypes'
    BY <1>0, <1>16, <2>3 DEF PlayFrame, ClientTypes
  <2>5. PlayTypes_'
    BY <1>0, <1>16, <2>1 DEF PlayFrame, PlayTypes_
  <2> QED
    BY <1>0, <1>16, <2>1, <2>4, <2>5, TypesStay, TypeIsNext DEF PlayFrame
<1>17. CASE EncodeFails
  <2>1. ring' \in Rings
    BY <1>0, <1>17, PlayTypes DEF EncodeFails
  <2>2. PlayTypes_'
    BY <1>0, <1>17 DEF EncodeFails, PlayTypes_
  <2> QED
    BY <1>0, <1>17, <2>1, <2>2, TypesStay, TypeIsNext DEF EncodeFails
<1>18. CASE EndPlay
  <2>1. ahead <= MaxAhead
    BY <1>0, <1>18 DEF EndPlay, PlayInv
  <2>2. PlayTypes_'
    BY <1>0, <1>18, <2>1 DEF EndPlay, PlayTypes_
  <2> QED
    BY <1>0, <1>18, <2>2, TypesStay, TypeIsNext DEF EndPlay
<1> QED
  BY <1>1, <1>2, <1>3, <1>4, <1>5, <1>6, <1>7, <1>8, <1>9, <1>10, <1>11, <1>13, <1>14, <1>15, <1>16, <1>17, <1>18
  DEF Next, HandleNetwork, HandleVoiceData
-----------------------------------------------------------------------------
(* The poll array. *)

(* What PollsClients says of the entries and the slots. *)
Matched(ps, sk) ==
  /\ \A i \in DOMAIN ps : ps[i] # Closed => \E c \in Clients : sk[c] = ps[i]
  /\ \A c \in Clients : sk[c] # Closed => \E i \in DOMAIN ps : ps[i] = sk[c]
  /\ \A i, j \in DOMAIN ps : ps[i] # Closed /\ ps[i] = ps[j] => i = j
  /\ \A c, d \in Clients : sk[c] # Closed /\ sk[c] = sk[d] => c = d

LEMMA PollsIs ==
  PollsClients <=> /\ phase # "overrun" => Matched(polls, socket)
                   /\ phase = "overrun" => refused
<1> DEFINE Open == DOMAIN polls \ ClosedEntries
<1>1. \A i : i \in Open <=> i \in DOMAIN polls /\ polls[i] # Closed
  BY DEF ClosedEntries
<1> HIDE DEF Open
<1>2. {polls[i] : i \in Open} = {socket[c] : c \in Clients} \ {Closed}
      <=> /\ \A i \in DOMAIN polls : polls[i] # Closed => \E c \in Clients : socket[c] = polls[i]
          /\ \A c \in Clients : socket[c] # Closed => \E i \in DOMAIN polls : polls[i] = socket[c]
  <2>1. ASSUME {polls[i] : i \in Open} = {socket[c] : c \in Clients} \ {Closed}
        PROVE  /\ \A i \in DOMAIN polls : polls[i] # Closed => \E c \in Clients : socket[c] = polls[i]
               /\ \A c \in Clients : socket[c] # Closed => \E i \in DOMAIN polls : polls[i] = socket[c]
    <3>1. \A i \in Open : polls[i] \in {socket[c] : c \in Clients}
      BY <2>1
    <3>2. \A c \in Clients : socket[c] # Closed => socket[c] \in {polls[i] : i \in Open}
      BY <2>1
    <3> QED
      BY <1>1, <3>1, <3>2
  <2>2. ASSUME \A i \in DOMAIN polls : polls[i] # Closed => \E c \in Clients : socket[c] = polls[i],
               \A c \in Clients : socket[c] # Closed => \E i \in DOMAIN polls : polls[i] = socket[c]
        PROVE  {polls[i] : i \in Open} = {socket[c] : c \in Clients} \ {Closed}
    <3>1. \A x \in {polls[i] : i \in Open} : x \in {socket[c] : c \in Clients} \ {Closed}
      BY <1>1, <2>2
    <3>2. \A x \in {socket[c] : c \in Clients} \ {Closed} : x \in {polls[i] : i \in Open}
      BY <1>1, <2>2
    <3> QED
      BY <3>1, <3>2
  <2> QED
    BY <2>1, <2>2
<1>3. (\A i, j \in Open : polls[i] = polls[j] => i = j)
      <=> \A i, j \in DOMAIN polls : polls[i] # Closed /\ polls[i] = polls[j] => i = j
  BY <1>1
<1>4. PollsClients <=>
        /\ phase # "overrun" =>
             /\ {polls[i] : i \in Open} = {socket[c] : c \in Clients} \ {Closed}
             /\ \A i, j \in Open : polls[i] = polls[j] => i = j
             /\ \A c, d \in Clients : socket[c] = socket[d] /\ socket[c] # Closed => c = d
        /\ phase = "overrun" => refused
  BY DEF PollsClients, Open
<1> QED
  BY <1>2, <1>3, <1>4 DEF Matched

LEMMA PollsIsNext ==
  PollsClients' <=> /\ phase' # "overrun" => Matched(polls', socket')
                    /\ phase' = "overrun" => refused'
<1>1. (PollsClients <=> /\ phase # "overrun" => Matched(polls, socket)
                        /\ phase = "overrun" => refused)'
  BY PollsIs, PTL
<1> QED
  BY <1>1

(* A client with a socket has an entry, and no other client has that entry. *)
LEMMA ClientAtEntry ==
  ASSUME TypeOK, PollsClients, PollInv, NEW c \in Clients, AtEntry(c)
  PROVE  /\ socket[c] = polls[entry] /\ socket[c] # Closed
         /\ entry \in DOMAIN polls /\ entry <= Len(polls) /\ phase = "read" /\ Matched(polls, socket)
<1>1. entry \in DOMAIN polls /\ entry <= Len(polls) /\ phase = "read" /\ polls[entry] # Closed
  BY EntryIs DEF AtEntry
<1>2. Matched(polls, socket)
  BY <1>1, PollsIs
<1> DEFINE T == {d \in Clients : socket[d] = polls[entry]}
<1>3. T \in SUBSET Nat /\ T # {}
  BY <1>1, <1>2, VoiceAssumption DEF Matched, Clients
<1>4. Lowest(T) \in T
  BY <1>3, LowestIs
<1>5. c = Lowest(T)
  BY DEF AtEntry
<1> QED
  BY <1>1, <1>2, <1>4, <1>5

LEMMA CloseStep ==
  ASSUME TypeOK, PollsClients, PollInv, NEW c \in Clients, AtEntry(c), CloseClient(c), NextEntry
  PROVE  PollsClients' /\ PollInv'
<1>1. /\ socket[c] = polls[entry] /\ socket[c] # Closed
      /\ entry \in DOMAIN polls /\ phase = "read" /\ Matched(polls, socket)
  BY ClientAtEntry
<1>2. polls \in Seq(Sockets \cup {Closed}) /\ socket \in [Clients -> Sockets \cup {Closed}]
  BY DEF TypeOK
<1>3. polls' = [polls EXCEPT ![entry] = Closed] /\ socket' = [socket EXCEPT ![c] = Closed] /\ compress'
      /\ polled' = polled /\ phase' = phase
  BY DEF CloseClient, NextEntry
<1>4. DOMAIN polls' = DOMAIN polls /\ Len(polls') = Len(polls)
  BY <1>1, <1>2, <1>3
<1>5. polls'[entry] = Closed /\ \A i \in DOMAIN polls \ {entry} : polls'[i] = polls[i]
  BY <1>1, <1>2, <1>3
<1>6. socket'[c] = Closed /\ \A d \in Clients \ {c} : socket'[d] = socket[d]
  BY <1>2, <1>3
<1>7. Matched(polls', socket')
  <2> SUFFICES /\ \A i \in DOMAIN polls \ {entry} : polls[i] # Closed => \E d \in Clients \ {c} : socket[d] = polls[i]
               /\ \A d \in Clients \ {c} : socket[d] # Closed => \E i \in DOMAIN polls \ {entry} : polls[i] = socket[d]
               /\ \A i, j \in DOMAIN polls \ {entry} : polls[i] # Closed /\ polls[i] = polls[j] => i = j
               /\ \A a, d \in Clients \ {c} : socket[a] # Closed /\ socket[a] = socket[d] => a = d
    BY <1>4, <1>5, <1>6 DEF Matched
  <2> QED
    BY <1>1 DEF Matched
<1>8. PollInv'
  BY <1>1, <1>3, <1>4 DEF PollInv
<1> QED
  BY <1>1, <1>3, <1>7, <1>8, PollsIsNext

(* Steps that leave the sockets and the array alone. *)
LEMMA PollsStay ==
  ASSUME PollsClients, phase # "overrun", phase' # "overrun", socket' = socket, polls' = polls
  PROVE  PollsClients'
  BY PollsIs, PollsIsNext

LEMMA AcceptStep ==
  ASSUME TypeOK, PollsClients, PollInv, Accept
  PROVE  PollsClients' /\ PollInv'
<1> DEFINE c == Lowest(FreeSlots)
           t == Lowest(Sockets \ {socket[d] : d \in Clients})
<1>1. /\ ClientTypes /\ MAX_CLIENTS \in Nat /\ phase = "idle" /\ FreeSlots # {}
      /\ polls \in Seq(Sockets \cup {Closed}) /\ Len(polls) <= MAX_CLIENTS
      /\ socket \in [Clients -> Sockets \cup {Closed}]
  BY TypeIs, VoiceAssumption DEF Accept, ClientTypes, PollTypes
<1>2. c \in Clients /\ socket[c] = Closed
  BY <1>1, SocketLeft DEF FreeSlots
<1>3. t \in Sockets /\ \A d \in Clients : socket[d] # t
  BY <1>1, SocketLeft
<1>4. \A s \in Sockets : s # Closed
  BY <1>1 DEF Sockets, Closed
<1>5. Matched(polls, socket) /\ ~ compress /\ (ClosedEntries # {} => refused)
  BY <1>1, PollsIs DEF PollInv
<1>6. PICK s \in {t, Closed} :
        /\ socket' = [socket EXCEPT ![c] = s]
        /\ IF Len(polls) < MAX_CLIENTS
             THEN /\ polls' = Append(polls, s) /\ refused' = (refused \/ s = Closed)
                  /\ phase' = "read" /\ BeginRead
             ELSE phase' = "overrun" /\ UNCHANGED pollVars
  BY DEF Accept
<1> HIDE DEF c, t
<1>7. socket'[c] = s /\ \A d \in Clients \ {c} : socket'[d] = socket[d]
  BY <1>1, <1>2, <1>6
<1>8. CASE Len(polls) < MAX_CLIENTS
  <2> DEFINE n == Len(polls) + 1
  <2>1. polls' = Append(polls, s) /\ phase' = "read" /\ BeginRead /\ (refused' <=> refused \/ s = Closed)
    BY <1>6, <1>8
  <2>2. /\ DOMAIN polls' = DOMAIN polls \cup {n} /\ n \notin DOMAIN polls
        /\ polls'[n] = s /\ \A i \in DOMAIN polls : polls'[i] = polls[i]
        /\ Len(polls') = n /\ Len(polls) <= n
    BY <1>1, <2>1
  <2> HIDE DEF n
  <2>3. Matched(polls', socket')
    <3>1. \A i \in DOMAIN polls' : polls'[i] # Closed => \E d \in Clients : socket'[d] = polls'[i]
      BY <1>2, <1>5, <1>7, <2>2 DEF Matched
    <3>2. \A d \in Clients : socket'[d] # Closed => \E i \in DOMAIN polls' : polls'[i] = socket'[d]
      BY <1>2, <1>5, <1>7, <2>2 DEF Matched
    <3>3. \A i \in DOMAIN polls : polls[i] # t
      BY <1>3, <1>4, <1>5 DEF Matched
    <3>4. \A i, j \in DOMAIN polls' : polls'[i] # Closed /\ polls'[i] = polls'[j] => i = j
      BY <1>5, <1>6, <2>2, <3>3 DEF Matched
    <3>5. \A a, d \in Clients : socket'[a] # Closed /\ socket'[a] = socket'[d] => a = d
      BY <1>3, <1>5, <1>6, <1>7 DEF Matched
    <3> QED
      BY <3>1, <3>2, <3>4, <3>5 DEF Matched
  <2>4. PollsClients'
    BY <2>1, <2>3, PollsIsNext
  <2>5. PollInv'
    <3>1. polled' <= Len(polls') /\ ~ compress'
      BY <2>1, <2>2 DEF BeginRead
    <3>2. ClosedEntries' # {} => refused'
      <4>1. s # Closed => ClosedEntries' = ClosedEntries
        BY <2>2 DEF ClosedEntries
      <4> QED
        BY <1>5, <2>1, <4>1
    <3> QED
      BY <3>1, <3>2 DEF PollInv
  <2> QED
    BY <2>4, <2>5
<1>9. CASE ~ (Len(polls) < MAX_CLIENTS)
  <2>1. phase' = "overrun" /\ polls' = polls /\ polled' = polled /\ compress' = compress /\ refused' = refused
    BY <1>6, <1>9 DEF pollVars
  <2>2. Len(polls) = MAX_CLIENTS
    BY <1>1, <1>9
  <2>3. refused
    <3> SUFFICES ASSUME ClosedEntries = {}
                 PROVE  FALSE
      BY <1>5
    <3>1. \A i \in Clients : polls[i] # Closed /\ i \in DOMAIN polls
      BY <1>1, <2>2 DEF ClosedEntries, Clients
    <3> DEFINE f == [i \in Clients |-> CHOOSE d \in Clients : socket[d] = polls[i]]
    <3>2. \A i \in Clients : f[i] \in Clients /\ socket[f[i]] = polls[i]
      BY <1>5, <3>1 DEF Matched
    <3>3. f \in [Clients -> Clients \ {c}]
      BY <1>2, <3>1, <3>2
    <3>4. IsFiniteSet(Clients) /\ Cardinality(Clients) = MAX_CLIENTS
      BY <1>1, FS_Interval DEF Clients
    <3>5. IsFiniteSet(Clients \ {c}) /\ Cardinality(Clients \ {c}) < Cardinality(Clients)
      <4>1. IsFiniteSet(Clients \ {c}) /\ Cardinality(Clients \ {c}) = MAX_CLIENTS - 1
        BY <1>2, <3>4, FS_RemoveElement
      <4> QED
        BY <1>1, <3>4, <4>1
    <3> HIDE DEF f
    <3>6. PICK i, j \in Clients : i # j /\ f[i] = f[j]
      BY <3>3, <3>4, <3>5, FS_PigeonHole
    <3> QED
      BY <1>5, <3>1, <3>2, <3>6 DEF Matched
  <2>4. PollsClients'
    BY <2>1, <2>3, PollsIsNext
  <2>5. PollInv'
    BY <1>1, <1>5, <2>1 DEF PollInv
  <2> QED
    BY <2>4, <2>5
<1> QED
  BY <1>8, <1>9

LEMMA CompressStep ==
  ASSUME TypeOK, PollsClients, PollInv, CompressPollFds
  PROVE  PollsClients' /\ PollInv'
<1> DEFINE k == Lowest(ClosedEntries)
           n == Len(polls) - 1
           from(i) == IF i < k THEN i ELSE i + 1
<1>1. /\ phase = "compress" /\ phase' = phase /\ socket' = socket /\ polls' = RemoveAt(polls, k)
      /\ compress' = compress /\ refused' = refused
  BY DEF CompressPollFds, clientVars
<1>2. polls \in Seq(Sockets \cup {Closed}) /\ k \in DOMAIN polls /\ polls[k] = Closed
  BY ClosedEntryIs DEF CompressPollFds, TypeOK, ClosedEntries
<1> HIDE DEF k
<1>3. Len(polls) \in Nat /\ k \in Nat /\ k >= 1 /\ k <= Len(polls) /\ DOMAIN polls = 1 .. Len(polls)
  BY <1>2
<1>4. polls' \in Seq(Sockets \cup {Closed}) /\ Len(polls') = n /\ \A i \in 1 .. n : polls'[i] = polls[from(i)]
  BY <1>1, <1>2, RemoveIs
<1>5. DOMAIN polls' = 1 .. n
  BY <1>4
<1>6. \A i \in 1 .. n : from(i) \in DOMAIN polls \ {k}
  BY <1>3
<1>7. \A i, j \in 1 .. n : from(i) = from(j) => i = j
  BY <1>3
<1>8. \A i \in DOMAIN polls \ {k} : \E j \in 1 .. n : from(j) = i
  <2> SUFFICES ASSUME NEW i \in DOMAIN polls \ {k}
               PROVE  \E j \in 1 .. n : from(j) = i
    OBVIOUS
  <2>1. CASE i < k
    <3>1. i \in 1 .. n /\ from(i) = i
      BY <1>3, <2>1
    <3> QED
      BY <3>1
  <2>2. CASE ~ (i < k)
    <3>1. i - 1 \in 1 .. n /\ from(i - 1) = i
      BY <1>3, <2>2
    <3> QED
      BY <3>1
  <2> QED
    BY <2>1, <2>2
<1> HIDE DEF from, n
<1>9. Matched(polls, socket)
  BY <1>1, PollsIs
<1>10. Matched(polls', socket')
  <2>1. \A i \in DOMAIN polls' : polls'[i] # Closed => \E c \in Clients : socket[c] = polls'[i]
    BY <1>4, <1>5, <1>6, <1>9 DEF Matched
  <2>2. \A c \in Clients : socket[c] # Closed => \E i \in DOMAIN polls' : polls'[i] = socket[c]
    <3> SUFFICES ASSUME NEW c \in Clients, socket[c] # Closed
                 PROVE  \E i \in DOMAIN polls' : polls'[i] = socket[c]
      OBVIOUS
    <3>1. PICK i \in DOMAIN polls : polls[i] = socket[c]
      BY <1>9 DEF Matched
    <3>2. PICK j \in 1 .. n : from(j) = i
      BY <1>2, <1>8, <3>1
    <3> QED
      BY <1>4, <1>5, <3>1, <3>2
  <2>3. \A i, j \in DOMAIN polls' : polls'[i] # Closed /\ polls'[i] = polls'[j] => i = j
    BY <1>4, <1>5, <1>6, <1>7, <1>9 DEF Matched
  <2> QED
    BY <1>1, <1>9, <2>1, <2>2, <2>3 DEF Matched
<1> QED
  BY <1>1, <1>10, PollsIsNext DEF PollInv

(* A step that is no step of the array's. *)
LEMMA PollsLeft ==
  ASSUME PollsClients, PollInv, phase # "overrun", phase' # "overrun",
         socket' = socket, polls' = polls, polled' = polled, compress' = compress, refused' = refused,
         phase' = phase \/ (phase # "compress" /\ phase' # "read" /\ ~ compress)
  PROVE  PollsClients' /\ PollInv'
<1>1. PollsClients'
  BY PollsStay
<1>2. ClosedEntries' = ClosedEntries
  BY DEF ClosedEntries
<1> QED
  BY <1>1, <1>2 DEF PollInv

(* Every step keeps the slots and the poll array in agreement. *)
LEMMA PollStep ==
  ASSUME IndInv, Next
  PROVE  PollsClients' /\ PollInv'
<1>0. TypeOK /\ PollsClients /\ PollInv /\ PlayInv
  BY DEF IndInv
<1>1. ASSUME NEW c \in Clients, HangUp(c) \/ Disconnect(c)
      PROVE  PollsClients' /\ PollInv'
  <2>1. AtEntry(c) /\ CloseClient(c) /\ NextEntry
    BY <1>1 DEF HangUp, Disconnect, BeginData
  <2> QED
    BY <1>0, <2>1, CloseStep
<1>2. CASE Accept
  BY <1>0, <1>2, AcceptStep
<1>3. CASE CompressPollFds
  BY <1>0, <1>3, CompressStep
<1>4. ASSUME NEW c \in Clients, TooFull(c) \/ Receive(c) \/ Ignore(c) \/ Drop(c)
      PROVE  PollsClients' /\ PollInv'
  <2>1. AtEntry(c) /\ NextEntry /\ socket' = socket /\ polls' = polls /\ compress' = compress
    BY <1>4 DEF TooFull, Receive, Ignore, Drop, BeginRecv, BeginData
  <2> QED
    BY <1>0, <2>1, PollsLeft DEF AtEntry, NextEntry
<1>5. CASE Skip
  BY <1>0, <1>5, PollsLeft DEF Skip, NextEntry, clientVars
<1>6. CASE PollNothing \/ Tick
  BY <1>0, <1>6, PollsLeft DEF PollNothing, Tick, clientVars, pollVars, PollInv
<1>7. CASE PlayNothing \/ BeginPlay \/ PlayFrame \/ EncodeFails \/ EndPlay
  BY <1>0, <1>7, PollsLeft DEF PlayNothing, BeginPlay, PlayFrame, EncodeFails, EndPlay, clientVars, pollVars, PollInv
<1>8. CASE PollClients
  <2>1. socket' = socket /\ polls' = polls /\ phase = "idle" /\ phase' = "read" /\ ~ compress' /\ refused' = refused
        /\ polled' = Len(polls)
    BY <1>8 DEF PollClients, BeginRead, clientVars
  <2>2. polls \in Seq(Sockets \cup {Closed}) /\ polled' <= Len(polls')
    BY <1>0, <2>1 DEF TypeOK
  <2>3. ClosedEntries' = ClosedEntries
    BY <2>1 DEF ClosedEntries
  <2>4. PollInv'
    BY <1>0, <2>1, <2>2, <2>3 DEF PollInv
  <2> QED
    BY <1>0, <2>1, <2>4, PollsStay
<1>9. CASE EndRead
  <2>1. socket' = socket /\ polls' = polls /\ phase = "read" /\ ~ compress' /\ refused' = refused
        /\ phase' = (IF compress THEN "compress" ELSE "voice")
    BY <1>9 DEF EndRead, clientVars
  <2>2. ClosedEntries' = ClosedEntries
    BY <2>1 DEF ClosedEntries
  <2>3. PollInv'
    BY <1>0, <2>1, <2>2 DEF PollInv
  <2> QED
    BY <1>0, <2>1, <2>3, PollsStay
<1>10. CASE EndCompress
  <2>1. socket' = socket /\ polls' = polls /\ phase = "compress" /\ phase' = "voice" /\ compress' = compress /\ ClosedEntries = {}
    BY <1>10 DEF EndCompress, clientVars
  <2>2. ClosedEntries' = {}
    BY <2>1 DEF ClosedEntries
  <2>3. PollInv'
    BY <1>0, <2>1, <2>2 DEF PollInv
  <2> QED
    BY <1>0, <2>1, <2>3, PollsStay
<1> QED
  BY <1>1, <1>2, <1>3, <1>4, <1>5, <1>6, <1>7, <1>8, <1>9, <1>10 DEF Next, HandleNetwork, HandleVoiceData

LEMMA Monotone ==
  ASSUME NEW f \in Nat, NEW a \in Nat, NEW b \in Nat, a <= b
  PROVE  f * a <= f * b
<1> DEFINE d == b - a
<1>1. d \in Nat /\ b = a + d
  OBVIOUS
<1> HIDE DEF d
<1>2. f * d >= 0 /\ f * (a + d) = f * a + f * d /\ f * a \in Int /\ f * d \in Int
  BY <1>1
<1> QED
  BY <1>1, <1>2

(* The frames that are to be played are in the ring. *)
LEMMA PlayStep ==
  ASSUME IndInv, Next
  PROVE  PlayInv'
<1>0. TypeOK /\ PlayInv /\ ring \in Rings
  BY TypeIs DEF IndInv
<1>1. CASE BeginPlay
  <2>1. frames' = (IF FramesAvailable < MaxFrames THEN FramesAvailable ELSE MaxFrames) /\ left' = frames'
        /\ ahead' = ahead /\ ring' = ring /\ ahead <= MaxAhead
    BY <1>1 DEF BeginPlay, MayPlay
  <2>2. ring.length \in Int /\ ring.length >= 0 /\ FrameSize \in Nat \ {0} /\ MaxFrames \in Nat
    BY <1>0, CellIs, VoiceAssumption DEF Rings
  <2>3. FrameSize * FramesAvailable <= ring.length /\ FramesAvailable \in Nat
    BY <2>2 DEF FramesAvailable
  <2>4. left' \in Nat /\ left' <= FramesAvailable
    BY <2>1, <2>2, <2>3
  <2> HIDE DEF FramesAvailable
  <2>5. FrameSize * left' <= FrameSize * FramesAvailable
    BY <2>2, <2>3, <2>4, Monotone
  <2>6. left' * FrameSize = FrameSize * left'
    BY <2>2, <2>4
  <2>7. left' * FrameSize <= ring.length
    BY <2>2, <2>3, <2>4, <2>5, <2>6
  <2> QED
    BY <2>1, <2>7 DEF PlayInv
<1>2. CASE PlayFrame
  <2>1. (left - 1) * FrameSize <= ring.length - FrameSize /\ FrameSize <= ring.length /\ FrameSize \in Nat
    BY <1>0, <1>2, PlayTypes DEF PlayFrame
  <2>2. ring'.length = ring.length - FrameSize
    BY <1>0, <1>2, <2>1, PopIs DEF PlayFrame
  <2> QED
    BY <1>0, <1>2, <2>1, <2>2 DEF PlayFrame, PlayInv
<1>3. CASE phase' # "play"
  BY <1>3 DEF PlayInv
<1>4. Next /\ phase' = "play" => BeginPlay \/ PlayFrame
  <2> SUFFICES ASSUME Next, phase' = "play"
               PROVE  BeginPlay \/ PlayFrame
    OBVIOUS
  <2>1. ASSUME NEW c \in Clients, AtEntry(c), NextEntry
        PROVE  FALSE
    BY <2>1 DEF AtEntry, NextEntry
  <2>2. ASSUME NEW c \in Clients, HangUp(c) \/ TooFull(c) \/ Disconnect(c) \/ Receive(c) \/ Ignore(c) \/ Drop(c)
        PROVE  FALSE
    BY <2>1, <2>2 DEF HangUp, TooFull, Disconnect, Receive, Ignore, Drop, BeginRecv, BeginData
  <2>3. ~ (Tick \/ PollNothing \/ PollClients \/ Skip \/ EndRead \/ CompressPollFds \/ EndCompress)
    BY DEF Tick, PollNothing, PollClients, Skip, NextEntry, EndRead, CompressPollFds, EndCompress
  <2>4. ~ Accept
    BY DEF Accept
  <2>5. ~ (PlayNothing \/ EncodeFails \/ EndPlay)
    BY DEF PlayNothing, EncodeFails, EndPlay
  <2> QED
    BY <2>2, <2>3, <2>4, <2>5 DEF Next, HandleNetwork, HandleVoiceData
<1> QED
  BY <1>1, <1>2, <1>3, <1>4
-----------------------------------------------------------------------------
(* The underruns. *)

(* What is known of a client: it has nothing in the ring at first; later at most what it had  *)
(* when it last sent, and nothing that is not in the ring.                                    *)
LagOf(c) ==
  /\ socket[c] # Closed /\ new[c] => lastLength[c] = 0
  /\ Joined(c) => /\ CurrentLength(ring, writeIndex[c]) <= lastLength[c] /\ lastLength[c] <= MaxLead
                  /\ CurrentLength(ring, writeIndex[c]) <= ring.length

LEMMA LagIs == LagInv /\ (LeadFits => UnderrunsNoticed) <=> (LeadFits => \A c \in Clients : LagOf(c))
  BY DEF LagInv, UnderrunsNoticed, LagOf

LEMMA LagIsNext ==
  (LeadFits => \A c \in Clients : LagOf(c)') => LagInv' /\ (LeadFits => UnderrunsNoticed')
<1>1. (LagInv /\ (LeadFits => UnderrunsNoticed) <=> (LeadFits => \A c \in Clients : LagOf(c)))'
  BY LagIs, PTL
<1> QED
  BY <1>1 DEF LeadFits

(* A client that nothing happens to, while others write. *)
LEMMA LagStays ==
  ASSUME TypeOK, NEW c \in Clients, LagOf(c), socket'[c] = socket[c], new'[c] = new[c],
         writeIndex'[c] = writeIndex[c], lastLength'[c] = lastLength[c],
         ring' \in Rings, ring'.read = ring.read, ring'.length >= ring.length
  PROVE  LagOf(c)'
<1>1. CurrentLength(ring', writeIndex[c]) = CurrentLength(ring, writeIndex[c])
  BY DEF CurrentLength
<1>2. CurrentLength(ring, writeIndex[c]) \in Int /\ ring.length \in Int /\ ring'.length \in Int
  <2>1. ring.length \in Cells /\ ring.read \in Cells /\ ring'.length \in Cells /\ writeIndex[c] \in Cells
    BY DEF TypeOK, Rings
  <2>2. CurrentLength(ring, writeIndex[c]) \in Cells
    BY <2>1, LengthIs
  <2> QED
    BY <2>1, <2>2, CellIs
<1>3. Joined(c)' <=> Joined(c)
  BY DEF Joined
<1>4. CurrentLength(ring, writeIndex[c]) <= ring.length => CurrentLength(ring, writeIndex[c]) <= ring'.length
  BY <1>2
<1> QED
  BY <1>1, <1>3, <1>4 DEF LagOf

(* A client that sends first begins at the read index. *)
LEMMA LagStarts ==
  ASSUME TypeOK, LeadFits, NEW c \in Clients, LagOf(c), socket[c] # Closed
  PROVE  /\ CurrentLength(ring, Start(c)) \in Nat
         /\ CurrentLength(ring, Start(c)) <= lastLength[c] /\ lastLength[c] <= MaxLead
         /\ CurrentLength(ring, Start(c)) <= ring.length
<1>1. Start(c) \in Cells /\ ring.read \in Cells /\ ring.length \in Nat /\ MaxLead \in Nat
  BY StartType, CellIs, VoiceAssumption DEF TypeOK
<1>2. CurrentLength(ring, Start(c)) \in Nat
  BY <1>1, LengthIs, CellIs
<1>3. CASE new[c]
  <2>1. CurrentLength(ring, Start(c)) = 0
    <3>1. Start(c) = ring.read
      BY <1>3 DEF Start
    <3> QED
      BY <1>1, <3>1, LengthIs, CellIs
  <2>2. lastLength[c] = 0
    BY <1>3 DEF LagOf
  <2> QED
    BY <1>1, <2>1, <2>2
<1>4. CASE ~ new[c]
  BY <1>2, <1>4 DEF LagOf, Joined, Start
<1> QED
  BY <1>2, <1>3, <1>4

(* The read index passes a write index: the client is noticed, since more than a frame was    *)
(* free when it last sent.                                                                    *)
LEMMA LagPlayed ==
  ASSUME TypeOK, PlayInv, LeadFits, phase = "play", left > 0, NEW c \in Clients, LagOf(c), Joined(c)
  PROVE  LET r == Popped(ring, FrameSize)
         IN  \/ c \in UnderrunBy(r)
             \/ /\ CurrentLength(r, writeIndex[c]) <= lastLength[c] /\ lastLength[c] <= MaxLead
                /\ CurrentLength(r, writeIndex[c]) <= r.length
<1> DEFINE r == Popped(ring, FrameSize)
           l == CurrentLength(ring, writeIndex[c])
           k == CurrentLength(r, writeIndex[c])
<1>1. FrameSize \in Nat /\ FrameSize >= 1 /\ FrameSize <= ring.length /\ ring \in Rings /\ writeIndex[c] \in Cells
  BY PlayTypes, TypeIs DEF ClientTypes
<1>2. ring.length \in Int /\ l \in Nat /\ lastLength[c] \in Nat
  <2>1. ring.length \in Cells /\ ring.read \in Cells /\ lastLength[c] \in Cells
    BY DEF TypeOK
  <2> QED
    BY <1>1, <2>1, LengthIs, CellIs
<1>3. r.length = ring.length - FrameSize /\ k = IF FrameSize <= l THEN l - FrameSize ELSE l - FrameSize + BufferSize
  BY <1>1, PopIs
<1>4. l <= lastLength[c] /\ lastLength[c] <= MaxLead /\ l <= ring.length
  BY DEF LagOf
<1>5. MaxLead + FrameSize < BufferSize /\ MaxLead \in Nat /\ BufferSize \in Nat
  BY VoiceAssumption, CellIs DEF LeadFits
<1> HIDE DEF r, l, k
<1>6. CASE FrameSize <= l
  BY <1>1, <1>2, <1>3, <1>4, <1>5, <1>6 DEF k, r
<1>7. CASE ~ (FrameSize <= l)
  <2>1. k > lastLength[c]
    BY <1>1, <1>2, <1>3, <1>4, <1>5, <1>7
  <2> QED
    BY <2>1 DEF UnderrunBy, k, r
<1> QED
  BY <1>6, <1>7

(* No step leaves a client behind the reader. *)
LEMMA LagStep ==
  ASSUME IndInv, Next, TypeOK'
  PROVE  LagInv' /\ (LeadFits => UnderrunsNoticed')
<1> SUFFICES ASSUME LeadFits, NEW c \in Clients
             PROVE  LagOf(c)'
  BY LagIsNext
<1>0. /\ TypeOK /\ PollsClients /\ PollInv /\ PlayInv /\ LagOf(c) /\ ClientTypes
      /\ ring \in Rings /\ ring' \in Rings /\ ring.length \in Int /\ "unnoticed" \notin Faults
  <2>1. TypeOK /\ PollsClients /\ PollInv /\ PlayInv /\ LagOf(c) /\ "unnoticed" \notin Faults
    BY LagIs DEF IndInv, LeadFits
  <2>2. ring \in Rings /\ ring' \in Rings /\ ClientTypes
    BY <2>1, TypeIs, TypeIsNext
  <2> QED
    BY <2>1, <2>2, CellIs DEF Rings
<1> DEFINE Still == /\ socket'[c] = socket[c] /\ new'[c] = new[c] /\ writeIndex'[c] = writeIndex[c]
                    /\ lastLength'[c] = lastLength[c]
<1>1. ASSUME Still, ring' = ring
      PROVE  LagOf(c)'
  BY <1>0, <1>1, LagStays
<1>2. CASE Tick \/ PollNothing \/ PollClients \/ Skip \/ EndRead \/ CompressPollFds \/ EndCompress
           \/ PlayNothing \/ BeginPlay \/ EndPlay
  BY <1>1, <1>2 DEF Tick, PollNothing, PollClients, Skip, EndRead, CompressPollFds, EndCompress,
                    PlayNothing, BeginPlay, EndPlay, clientVars
<1>3. ASSUME socket'[c] = Closed
      PROVE  LagOf(c)'
  BY <1>3 DEF LagOf, Joined
<1>4. CASE Accept
  <2> DEFINE e == Lowest(FreeSlots)
  <2>1. \E s : socket' = [socket EXCEPT ![e] = s]
    BY <1>4 DEF Accept
  <2>2. new' = [new EXCEPT ![e] = TRUE] /\ writeIndex' = [writeIndex EXCEPT ![e] = 0]
        /\ lastLength' = [lastLength EXCEPT ![e] = 0] /\ ring' = ring
    BY <1>4 DEF Accept
  <2> HIDE DEF e
  <2>3. CASE c = e
    <3>1. new'[c] /\ lastLength'[c] = 0
      BY <1>0, <2>2, <2>3 DEF ClientTypes
    <3> QED
      BY <3>1 DEF LagOf, Joined
  <2>4. CASE c # e
    <3>1. Still
      BY <1>0, <2>1, <2>2, <2>4 DEF ClientTypes
    <3> QED
      BY <1>1, <2>2, <3>1
  <2> QED
    BY <2>3, <2>4
<1>5. ASSUME NEW d \in Clients, HangUp(d) \/ Disconnect(d)
      PROVE  LagOf(c)'
  <2>1. CASE c = d
    <3>1. socket' = [socket EXCEPT ![d] = Closed]
      BY <1>5 DEF HangUp, Disconnect, CloseClient
    <3> QED
      BY <1>0, <1>3, <2>1, <3>1 DEF ClientTypes
  <2>2. CASE c # d
    <3>1. Still /\ ring' = ring
      BY <1>0, <1>5, <2>2 DEF ClientTypes, HangUp, Disconnect, BeginData, CloseClient
    <3> QED
      BY <1>1, <3>1
  <2> QED
    BY <2>1, <2>2
<1>6. ASSUME NEW d \in Clients, TooFull(d)
      PROVE  LagOf(c)'
  <2>0. ring' = ring /\ socket' = socket /\ lastLength' = lastLength /\ new' = [new EXCEPT ![d] = FALSE]
        /\ writeIndex' = [writeIndex EXCEPT ![d] = Start(d)]
    BY <1>6 DEF TooFull, BeginData
  <2>1. CASE c = d
    <3>1. socket[c] # Closed
      BY <1>0, <1>6, <2>1, ClientAtEntry DEF TooFull, BeginData
    <3>2. writeIndex'[c] = Start(c) /\ ~ new'[c] /\ lastLength'[c] = lastLength[c]
      BY <1>0, <2>0, <2>1 DEF ClientTypes
    <3> QED
      BY <1>0, <2>0, <3>1, <3>2, LagStarts DEF LagOf
  <2>2. CASE c # d
    <3>1. Still
      BY <1>0, <2>0, <2>2 DEF ClientTypes
    <3> QED
      BY <1>1, <2>0, <3>1
  <2> QED
    BY <2>1, <2>2
<1>7. ASSUME NEW d \in Clients, NEW bytes \in 1 .. RecvSize, BeginRecv(d, bytes), PushNothing(d)
      PROVE  LagOf(c)'
  <2>0. socket' = socket /\ new' = [new EXCEPT ![d] = FALSE]
    BY <1>7 DEF BeginRecv, BeginData
  <2>1. /\ ring' = ring /\ writeIndex'[d] = Start(d) /\ lastLength'[d] = CurrentLength(ring, Start(d))
        /\ \A e \in Clients \ {d} : writeIndex'[e] = writeIndex[e] /\ lastLength'[e] = lastLength[e]
    BY <1>0, <1>7, NothingPushedIs
  <2>2. CASE c = d
    <3>1. socket[c] # Closed
      BY <1>0, <1>7, <2>2, ClientAtEntry DEF BeginRecv, BeginData
    <3>2. ~ new'[c]
      BY <1>0, <2>0, <2>2 DEF ClientTypes
    <3>3. /\ CurrentLength(ring, Start(c)) \in Nat /\ CurrentLength(ring, Start(c)) <= lastLength[c]
          /\ lastLength[c] <= MaxLead /\ CurrentLength(ring, Start(c)) <= ring.length
      BY <1>0, <3>1, LagStarts
    <3>4. lastLength[c] \in Int /\ MaxLead \in Int
      BY <1>0, CellIs, VoiceAssumption DEF ClientTypes
    <3>5. CurrentLength(ring, Start(c)) <= MaxLead
      BY <3>3, <3>4
    <3> QED
      BY <2>1, <2>2, <3>2, <3>3, <3>5 DEF LagOf
  <2>3. CASE c # d
    <3>1. Still
      BY <1>0, <2>0, <2>1, <2>3 DEF ClientTypes
    <3> QED
      BY <1>1, <2>1, <3>1
  <2> QED
    BY <2>2, <2>3
<1>8. ASSUME NEW d \in Clients, NEW bytes \in 1 .. RecvSize, BeginRecv(d, bytes),
             NEW kept \in Seq(AllSamples), PushData(d, kept), lastLength'[d] <= MaxLead
      PROVE  LagOf(c)'
  <2>0. socket' = socket /\ new' = [new EXCEPT ![d] = FALSE]
    BY <1>8 DEF BeginRecv, BeginData
  <2> DEFINE w == Start(d)
             n == Len(kept)
             l == CurrentLength(ring, w)
  <2>1. /\ ring' = Push(ring, w, kept) /\ ring'.read = ring.read
        /\ CurrentLength(ring', writeIndex'[d]) = l + n /\ lastLength'[d] = l + n
        /\ \A e \in Clients \ {d} : writeIndex'[e] = writeIndex[e] /\ lastLength'[e] = lastLength[e]
    BY <1>0, <1>8, PushedIs
  <2>2. w \in Cells /\ n \in Nat /\ n <= CurrentFree(ring, w)
    BY <1>0, <1>8, StartType DEF PushData
  <2>3. ring'.length = ring.length + n - ToMix(ring, w, n)
    BY <1>0, <2>1, <2>2, PushIs
  <2>4. /\ ToMix(ring, w, n) \in 0 .. n
        /\ ToMix(ring, w, n) = IF ring.length <= l THEN 0 ELSE IF l + n < ring.length THEN n ELSE ring.length - l
    BY <1>0, <2>2, SplitIs
  <2>5. l \in Int
    BY <1>0, <2>2, LengthIs, CellIs DEF Rings
  <2> HIDE DEF w, n, l
  <2>6. ring'.length >= ring.length /\ ring'.length >= l + n
    <3>1. CASE ring.length <= l
      <4>1. ring.length = l
        <5>1. socket[d] # Closed
          BY <1>0, <1>8, ClientAtEntry DEF BeginRecv, BeginData
        <5>2. LagOf(d)
          BY LagIs DEF IndInv
        <5>3. l <= ring.length
          BY <1>0, <5>1, <5>2, LagStarts DEF l, w
        <5> QED
          BY <1>0, <2>5, <3>1, <5>3
      <4> QED
        BY <1>0, <2>2, <2>3, <2>4, <2>5, <3>1, <4>1
    <3>2. CASE ~ (ring.length <= l)
      BY <1>0, <2>2, <2>3, <2>4, <2>5, <3>2
    <3> QED
      BY <3>1, <3>2
  <2>7. CASE c = d
    <3>1. ~ new'[c]
      BY <1>0, <2>0, <2>7 DEF ClientTypes
    <3>2. l + n <= l + n
      BY <2>2, <2>5
    <3> QED
      BY <1>8, <2>1, <2>6, <2>7, <3>1, <3>2 DEF LagOf
  <2>8. CASE c # d
    <3>1. Still
      BY <1>0, <2>0, <2>1, <2>8 DEF ClientTypes
    <3> QED
      BY <1>0, <2>1, <2>6, <3>1, LagStays
  <2> QED
    BY <2>7, <2>8
<1>9. ASSUME NEW d \in Clients, Receive(d) \/ Ignore(d) \/ Drop(d)
      PROVE  LagOf(c)'
  <2>1. CASE Receive(d)
    <3>1. PICK bytes \in 1 .. RecvSize :
            /\ BeginRecv(d, bytes) /\ lastLength'[d] <= MaxLead
            /\ \E data \in Data(d, bytes) : \E kept \in Kept(data) : PushData(d, kept)
      BY <2>1 DEF Receive
    <3>2. PICK kept \in Seq(AllSamples) : PushData(d, kept)
      BY <1>0, <3>1, DataIs
    <3> QED
      BY <1>8, <3>1, <3>2
  <2>2. CASE Ignore(d) \/ Drop(d)
    <3>1. PICK bytes \in 1 .. RecvSize : BeginRecv(d, bytes) /\ PushNothing(d)
      BY <2>2 DEF Ignore, Drop
    <3> QED
      BY <1>7, <3>1
  <2> QED
    BY <1>9, <2>1, <2>2
<1>10. CASE PlayFrame
  <2> DEFINE r == Popped(ring, FrameSize)
  <2>1. /\ phase = "play" /\ left > 0 /\ ring' = r /\ socket' = socket /\ new' = new
        /\ writeIndex' = [d \in Clients |-> IF d \in UnderrunBy(r) THEN r.read ELSE writeIndex[d]]
        /\ lastLength' = [d \in Clients |-> IF d \in UnderrunBy(r) THEN 0 ELSE lastLength[d]]
    BY <1>10 DEF PlayFrame
  <2>2. r \in Rings
    BY <1>0, <2>1
  <2> HIDE DEF r
  <2>3. CASE c \in UnderrunBy(r)
    <3>1. writeIndex'[c] = r.read /\ lastLength'[c] = 0 /\ ~ new'[c]
      BY <2>1, <2>3 DEF UnderrunBy, Joined
    <3>2. CurrentLength(r, r.read) = 0 /\ r.length \in Nat /\ MaxLead \in Nat
      <4>1. r.read \in Cells /\ r.length \in Cells
        BY <2>2 DEF Rings
      <4> QED
        BY <4>1, LengthIs, CellIs, VoiceAssumption
    <3> QED
      BY <2>1, <3>1, <3>2 DEF LagOf
  <2>4. CASE c \notin UnderrunBy(r)
    <3>1. writeIndex'[c] = writeIndex[c] /\ lastLength'[c] = lastLength[c]
      BY <2>1, <2>4
    <3>2. Joined(c) => /\ CurrentLength(r, writeIndex[c]) <= lastLength[c] /\ lastLength[c] <= MaxLead
                       /\ CurrentLength(r, writeIndex[c]) <= r.length
      BY <1>0, <2>1, <2>4, LagPlayed DEF r
    <3> QED
      BY <1>0, <2>1, <3>1, <3>2 DEF LagOf, Joined
  <2> QED
    BY <2>3, <2>4
<1>11. CASE EncodeFails
  <2> DEFINE r == Popped(ring, FrameSize)
  <2>1. /\ phase = "play" /\ left > 0 /\ ring' = r /\ socket' = socket /\ new' = new
        /\ writeIndex' = writeIndex /\ lastLength' = lastLength /\ UnderrunBy(r) = {}
    BY <1>0, <1>11 DEF EncodeFails, clientVars
  <2>2. Joined(c) => /\ CurrentLength(r, writeIndex[c]) <= lastLength[c] /\ lastLength[c] <= MaxLead
                     /\ CurrentLength(r, writeIndex[c]) <= r.length
    BY <1>0, <2>1, LagPlayed
  <2> HIDE DEF r
  <2> QED
    BY <1>0, <2>1, <2>2 DEF LagOf, Joined
<1> QED
  BY <1>2, <1>4, <1>5, <1>6, <1>9, <1>10, <1>11 DEF Next, HandleNetwork, HandleVoiceData
-----------------------------------------------------------------------------
LEMMA InitInv == Init => IndInv
<1> SUFFICES ASSUME Init
             PROVE  IndInv
  OBVIOUS
<1>1. /\ socket = [c \in Clients |-> Closed] /\ new = [c \in Clients |-> FALSE]
      /\ writeIndex = [c \in Clients |-> 0] /\ lastLength = [c \in Clients |-> 0]
      /\ unEven = [c \in Clients |-> FALSE]
      /\ polls = <<>> /\ polled = 0 /\ entry = 1 /\ compress = FALSE /\ refused = FALSE
      /\ phase = "idle" /\ frames = 0 /\ left = 0 /\ ring = EmptyRing /\ ahead = -1
  BY DEF Init
<1>2. 0 \in Cells /\ 0 \in AllSamples /\ MAX_CLIENTS \in Nat /\ MaxFrames \in Nat /\ MaxAhead \in Nat
  BY CellIs, VoiceAssumption
<1>3. ring \in Rings
  BY <1>1, <1>2 DEF EmptyRing, Rings
<1>4. TypeOK
  <2>1. ClientTypes /\ PlayTypes_ /\ phase \in Places
    BY <1>1, <1>2 DEF ClientTypes, PlayTypes_, Places
  <2>2. PollTypes
    <3>1. <<>> \in Seq(Sockets \cup {Closed}) /\ Len(<<>>) <= MAX_CLIENTS
      BY <1>2
    <3>2. 0 \in 0 .. MAX_CLIENTS /\ 1 \in 1 .. MAX_CLIENTS + 1
      BY <1>2
    <3> QED
      BY <1>1, <3>1, <3>2 DEF PollTypes
  <2> QED
    BY <1>3, <2>1, <2>2, TypeIs
<1>5. ClosedEntries = {} /\ Len(polls) = 0 /\ DOMAIN polls = {}
  BY <1>1 DEF ClosedEntries
<1>6. PollsClients
  <2>1. Matched(polls, socket)
    BY <1>1, <1>5 DEF Matched
  <2> QED
    BY <1>1, <2>1, PollsIs
<1>7. PollInv /\ PlayInv
  BY <1>1, <1>5 DEF PollInv, PlayInv
<1>8. \A c \in Clients : LagOf(c)
  BY <1>1 DEF LagOf, Joined
<1> QED
  BY <1>4, <1>6, <1>7, <1>8, LagIs DEF IndInv

LEMMA StepInv == IndInv /\ [Next]_vars => IndInv'
<1> SUFFICES ASSUME IndInv, [Next]_vars
             PROVE  IndInv'
  OBVIOUS
<1>1. CASE Next
  <2>1. TypeOK'
    BY <1>1, TypeStep
  <2>2. PollsClients' /\ PollInv' /\ PlayInv'
    BY <1>1, PollStep, PlayStep
  <2>3. LagInv' /\ (LeadFits => UnderrunsNoticed')
    BY <1>1, <2>1, LagStep
  <2> QED
    BY <2>1, <2>2, <2>3 DEF IndInv, LeadFits
<1>2. CASE UNCHANGED vars
  <2>1. /\ clientVars' = clientVars /\ pollVars' = pollVars /\ playVars' = playVars
        /\ ring' = ring /\ phase' = phase
    BY <1>2 DEF vars, clientVars, pollVars, playVars
  <2>2. TypeOK'
    BY <2>1, TypesStay, TypeIs, TypeIsNext DEF IndInv
  <2>3. PollsClients' /\ PollInv'
    BY <2>1 DEF IndInv, PollsClients, PollInv, ClosedEntries, clientVars, pollVars
  <2>4. PlayInv'
    BY <2>1 DEF IndInv, PlayInv, playVars
  <2>5. LagInv' /\ (LeadFits => UnderrunsNoticed')
    BY <2>1 DEF IndInv, LagInv, UnderrunsNoticed, LeadFits, Joined, CurrentLength, clientVars
  <2> QED
    BY <2>2, <2>3, <2>4, <2>5 DEF IndInv, LeadFits
<1> QED
  BY <1>1, <1>2

(* The inductive invariant holds in every state, whatever the clients send and the system does. *)
THEOREM Invariance == Spec => []IndInv
BY InitInv, StepInv, PTL DEF Spec

(* Every variable keeps its type: the ring's indices and its length stay in the buffer, of     *)
(* any size that divides the range of size_t, and the loops over the poll array stay in it.    *)
THEOREM TypeCorrect == Spec => []TypeOK
<1>1. IndInv => TypeOK
  BY DEF IndInv
<1> QED
  BY Invariance, <1>1, PTL

(* Slots and poll entries agree for any number of clients, and the array is not overrun unless *)
(* an accept failed since it was last compressed.                                              *)
THEOREM PollsAgree == Spec => []PollsClients
<1>1. IndInv => PollsClients
  BY DEF IndInv
<1> QED
  BY Invariance, <1>1, PTL

(* HandleVoiceData notices every client that the player passes, as long as a client never      *)
(* leaves less than a frame free and celt_encode does not fail for the frame in question.      *)
THEOREM AllUnderrunsNoticed ==
  ASSUME MaxLead + FrameSize < BufferSize, "unnoticed" \notin Faults
  PROVE  Spec => []UnderrunsNoticed
<1>1. IndInv => UnderrunsNoticed
  BY DEF IndInv, LeadFits
<1> QED
  BY Invariance, <1>1, PTL
-----------------------------------------------------------------------------
(* Voice implements VoiceStream. *)

Place(c) == IF Joined(c) THEN CurrentLength(ring, writeIndex[c]) ELSE 0
PlaceMap == [c \in Clients |-> Place(c)]

LEMMA Squares ==
  ASSUME NEW u \in Int, NEW v \in Int, u >= 0
  PROVE  /\ u <= v => u * u <= v * v
         /\ u < v => u * u < v * v
<1>1. ASSUME u <= v
      PROVE  u * u <= v * v /\ (u < v => u * u < v * v)
  <2> DEFINE d == v - u
  <2>1. d \in Int /\ d >= 0 /\ v = u + d
    BY <1>1
  <2> HIDE DEF d
  <2>2. (u + d) * (u + d) = u * u + (2 * (u * d) + d * d)
    BY <2>1
  <2>3. u * d \in Int /\ u * d >= 0 /\ d * d \in Int /\ d * d >= 0 /\ u * u \in Int
    BY <2>1
  <2>4. d > 0 => d * d > 0
    BY <2>1
  <2> QED
    BY <2>1, <2>2, <2>3, <2>4
<1> QED
  BY <1>1

(* The saturated sum is the sample closest to the sum. *)
LEMMA SumIs ==
  ASSUME NEW a \in AllSamples, NEW b \in AllSamples
  PROVE  Stream!Sum(a, b) = Mix(a, b)
<1> DEFINE x == a + b
           best == Mix(a, b)
           Far(s) == (s - x) * (s - x)
<1>1. INT16_MIN \in Int /\ INT16_MAX \in Int /\ INT16_MIN <= INT16_MAX /\ x \in Int
      /\ AllSamples = INT16_MIN .. INT16_MAX
  BY MixBufferAssumption DEF AllSamples
<1>2. best = (IF x > INT16_MAX THEN INT16_MAX ELSE IF x < INT16_MIN THEN INT16_MIN ELSE x)
  BY DEF Mix
<1> HIDE DEF x, best
<1>3. best \in INT16_MIN .. INT16_MAX
  BY <1>1, <1>2
<1>4. ASSUME NEW s \in INT16_MIN .. INT16_MAX, s # best
      PROVE  Far(best) < Far(s)
  <2>1. s \in Int /\ s >= INT16_MIN /\ s <= INT16_MAX /\ best \in Int
    BY <1>1, <1>3
  <2>2. ASSUME NEW m \in Int
        PROVE  (m - x) * (m - x) = (x - m) * (x - m)
    <3>1. m - x \in Int /\ x - m = - (m - x)
      BY <1>1, <2>2
    <3> DEFINE y == m - x
    <3> HIDE DEF y
    <3>2. y * y = (- y) * (- y)
      BY <3>1 DEF y
    <3> QED
      BY <3>1, <3>2 DEF y
  <2>3. CASE x > INT16_MAX
    <3>1. x - best >= 0 /\ x - best < x - s /\ x - best \in Int /\ x - s \in Int
      BY <1>1, <1>2, <1>4, <2>1, <2>3
    <3>2. (x - best) * (x - best) < (x - s) * (x - s)
      BY <3>1, Squares
    <3> QED
      BY <2>1, <2>2, <3>2
  <2>4. CASE x < INT16_MIN
    <3>1. best - x >= 0 /\ best - x < s - x /\ best - x \in Int /\ s - x \in Int
      BY <1>1, <1>2, <1>4, <2>1, <2>4
    <3> QED
      BY <3>1, Squares
  <2>5. CASE ~ (x > INT16_MAX) /\ ~ (x < INT16_MIN)
    <3>1. best - x = 0 /\ Far(best) = 0
      BY <1>1, <1>2, <2>5
    <3>2. CASE s > x
      <4>1. 0 < s - x /\ s - x \in Int
        BY <1>1, <2>1, <3>2
      <4>2. 0 * 0 < (s - x) * (s - x)
        BY <4>1, Squares
      <4> QED
        BY <3>1, <4>2
    <3>3. CASE s < x
      <4>1. 0 < x - s /\ x - s \in Int
        BY <1>1, <2>1, <3>3
      <4>2. 0 * 0 < (x - s) * (x - s)
        BY <4>1, Squares
      <4> QED
        BY <2>1, <2>2, <3>1, <4>2
    <3>4. s # x
      BY <1>2, <1>4, <2>5
    <3> QED
      BY <1>1, <2>1, <3>2, <3>3, <3>4
  <2> QED
    BY <2>3, <2>4, <2>5
<1>5. \A s \in INT16_MIN .. INT16_MAX : Far(s) \in Int
  BY <1>1
<1>6. Stream!Sum(a, b) = CHOOSE s \in INT16_MIN .. INT16_MAX : \A t \in INT16_MIN .. INT16_MAX : Far(s) <= Far(t)
  BY DEF Stream!Sum, x
<1> HIDE DEF Far
<1>7. \A t \in INT16_MIN .. INT16_MAX : Far(best) <= Far(t)
  BY <1>3, <1>4, <1>5
<1>8. ASSUME NEW s \in INT16_MIN .. INT16_MAX, \A t \in INT16_MIN .. INT16_MAX : Far(s) <= Far(t)
      PROVE  s = best
  BY <1>3, <1>4, <1>5, <1>8
<1> QED
  BY <1>3, <1>6, <1>7, <1>8 DEF best

(* The stream is a sequence of samples, as long as the ring says. *)
LEMMA ContentsIs ==
  ASSUME TypeOK
  PROVE  /\ Contents \in Seq(AllSamples) /\ Len(Contents) = ring.length /\ ring.length \in Nat
         /\ \A k \in 1 .. ring.length : Contents[k] = ring.buf[Advance(ring.read, k - 1)]
         /\ \A k \in 1 .. ring.length : Contents[k] \in AllSamples
<1>1. ring.length \in Nat /\ ring.length < BufferSize /\ ring.read \in Cells /\ ring.buf \in [Cells -> AllSamples]
      /\ BufferSize \in Nat
  BY CellIs DEF TypeOK
<1>2. ASSUME NEW k \in 1 .. ring.length
      PROVE  ring.buf[Advance(ring.read, k - 1)] \in AllSamples
  <2>1. k - 1 \in 0 .. BufferSize
    BY <1>1
  <2>2. Advance(ring.read, k - 1) \in Cells
    BY <1>1, <2>1, AdvanceIs
  <2> QED
    BY <1>1, <2>2
<1>3. Contents = [k \in 1 .. ring.length |-> ring.buf[Advance(ring.read, k - 1)]]
  BY DEF Contents
<1>4. Contents \in [1 .. ring.length -> AllSamples]
  BY <1>2, <1>3
<1>5. Contents \in Seq(AllSamples) /\ Len(Contents) = ring.length
  BY <1>1, <1>4
<1> QED
  BY <1>1, <1>2, <1>3, <1>5

LEMMA StreamInit == Init => Stream!Init
<1> SUFFICES ASSUME Init
             PROVE  Stream!Init
  OBVIOUS
<1>1. ring.length = 0 /\ \A c \in Clients : ~ Joined(c)
  BY DEF Init, EmptyRing, Joined
<1>2. Contents = <<>>
  <2>1. Contents = [k \in 1 .. 0 |-> ring.buf[Advance(ring.read, k - 1)]]
    BY <1>1 DEF Contents
  <2> QED
    BY <2>1
<1> QED
  BY <1>1, <1>2 DEF Stream!Init

(* What a frame does to the stream. *)
LEMMA PlayedStream ==
  ASSUME TypeOK, TypeOK', PlayInv, phase = "play", left > 0, ring' = Popped(ring, FrameSize)
  PROVE  /\ Len(Contents) >= FrameSize
         /\ Contents' = SubSeq(Contents, FrameSize + 1, Len(Contents))
<1> DEFINE F == FrameSize
           l == ring.length
           x == ring.read
<1>1. F \in Nat /\ F >= 1 /\ F <= l /\ ring \in Rings /\ l \in Nat /\ l < BufferSize /\ BufferSize \in Nat /\ x \in Cells
  <2>1. ring \in Rings
    BY TypeIs
  <2>2. ring.length \in Nat /\ ring.length < BufferSize /\ BufferSize \in Nat /\ ring.read \in Cells
    BY <2>1, CellIs DEF Rings
  <2> QED
    BY <2>1, <2>2, PlayTypes
<1>2. ring'.buf = ring.buf /\ ring'.read = Advance(x, F) /\ ring'.length = l - F
  BY <1>1, PopIs
<1>3. /\ Contents \in Seq(AllSamples) /\ Len(Contents) = l
      /\ \A k \in 1 .. l : Contents[k] = ring.buf[Advance(x, k - 1)]
  BY ContentsIs
<1>4. /\ Contents' \in Seq(AllSamples) /\ Len(Contents') = l - F
      /\ \A k \in 1 .. l - F : Contents'[k] = ring.buf[Advance(Advance(x, F), k - 1)]
  <2>1. (/\ Contents \in Seq(AllSamples) /\ Len(Contents) = ring.length /\ ring.length \in Nat
         /\ \A k \in 1 .. ring.length : Contents[k] = ring.buf[Advance(ring.read, k - 1)])'
    BY ContentsIs, PTL
  <2> QED
    BY <1>2, <2>1
<1> HIDE DEF F, l, x
<1> DEFINE s == SubSeq(Contents, F + 1, Len(Contents))
<1>5. s \in Seq(AllSamples) /\ Len(s) = l - F /\ \A k \in 1 .. l - F : s[k] = Contents[k + F]
  BY <1>1, <1>3
<1>6. ASSUME NEW k \in 1 .. l - F
      PROVE  Advance(Advance(x, F), k - 1) = Advance(x, k + F - 1)
  <2>1. k \in Nat /\ k >= 1 /\ k <= l - F /\ x \in Nat /\ x < BufferSize
    BY <1>1, CellIs
  <2>2. F \in 0 .. BufferSize /\ k - 1 \in 0 .. BufferSize /\ k + F - 1 \in 0 .. BufferSize
    BY <1>1, <2>1
  <2> DEFINE y == Advance(x, F)
  <2>3. y = (IF x + F >= BufferSize THEN x + F - BufferSize ELSE x + F) /\ y \in Cells
    BY <1>1, <2>2, AdvanceIs
  <2> HIDE DEF y
  <2>4. Advance(y, k - 1) = IF y + (k - 1) >= BufferSize THEN y + (k - 1) - BufferSize ELSE y + (k - 1)
    BY <2>2, <2>3, AdvanceIs
  <2>5. Advance(x, k + F - 1) = IF x + (k + F - 1) >= BufferSize THEN x + (k + F - 1) - BufferSize ELSE x + (k + F - 1)
    BY <1>1, <2>2, AdvanceIs
  <2>6. Advance(y, k - 1) = Advance(x, k + F - 1)
    BY <1>1, <2>1, <2>3, <2>4, <2>5
  <2> QED
    BY <2>6 DEF y
<1>7. ASSUME NEW k \in 1 .. l - F
      PROVE  Contents'[k] = s[k]
  <2>1. k + F \in 1 .. l
    BY <1>1
  <2> DEFINE j == k + F
  <2>2. Contents[j] = ring.buf[Advance(x, j - 1)]
    <3> HIDE DEF j
    <3> QED
      BY <1>3, <2>1 DEF j
  <2>3. s[k] = Contents[j]
    BY <1>5
  <2>4. Contents'[k] = ring.buf[Advance(Advance(x, F), k - 1)]
    BY <1>4
  <2> HIDE DEF s
  <2>5. Advance(Advance(x, F), k - 1) = Advance(x, k + F - 1)
    BY <1>6
  <2>6. j - 1 = k + F - 1
    BY <1>1
  <2> HIDE DEF j
  <2> QED
    BY <2>2, <2>3, <2>4, <2>5, <2>6
<1> HIDE DEF s
<1>8. Contents' = s
  BY <1>4, <1>5, <1>7, SeqEqual
<1> QED
  BY <1>1, <1>3, <1>8 DEF F, s

(* Who is passed by the reader: the clients whose data ended with the frame. *)
LEMMA UnderrunIs ==
  ASSUME TypeOK, PlayInv, LeadFits, phase = "play", left > 0, NEW c \in Clients, LagOf(c)
  PROVE  LET r == Popped(ring, FrameSize)
         IN  /\ Place(c) \in Nat
             /\ c \in UnderrunBy(r) => Place(c) < FrameSize
             /\ Joined(c) /\ c \notin UnderrunBy(r) =>
                  FrameSize <= Place(c) /\ CurrentLength(r, writeIndex[c]) = Place(c) - FrameSize
<1> DEFINE r == Popped(ring, FrameSize)
           l == CurrentLength(ring, writeIndex[c])
           k == CurrentLength(r, writeIndex[c])
<1>1. FrameSize \in Nat /\ FrameSize >= 1 /\ FrameSize <= ring.length /\ ring \in Rings /\ writeIndex[c] \in Cells
  BY PlayTypes, TypeIs DEF ClientTypes
<1>2. l \in Nat /\ lastLength[c] \in Nat
  <2>1. ring.read \in Cells /\ lastLength[c] \in Cells
    BY DEF TypeOK
  <2> QED
    BY <1>1, <2>1, LengthIs, CellIs
<1>3. k = IF FrameSize <= l THEN l - FrameSize ELSE l - FrameSize + BufferSize
  BY <1>1, PopIs
<1>4. Joined(c) => l <= lastLength[c] /\ lastLength[c] <= MaxLead
  BY DEF LagOf
<1>5. MaxLead + FrameSize < BufferSize /\ MaxLead \in Nat /\ BufferSize \in Nat
  BY VoiceAssumption, CellIs DEF LeadFits
<1>6. c \in UnderrunBy(r) <=> Joined(c) /\ k > lastLength[c]
  BY DEF UnderrunBy
<1>7. Place(c) = IF Joined(c) THEN l ELSE 0
  BY DEF Place
<1> HIDE DEF r, l, k
<1>8. Joined(c) /\ FrameSize <= l => ~ (k > lastLength[c])
  BY <1>1, <1>2, <1>3, <1>4
<1>9. Joined(c) /\ ~ (FrameSize <= l) => k > lastLength[c]
  BY <1>1, <1>2, <1>3, <1>4, <1>5
<1>10. Place(c) \in Nat
  BY <1>2, <1>7
<1>11. c \in UnderrunBy(r) => Place(c) < FrameSize
  BY <1>1, <1>2, <1>6, <1>7, <1>8
<1>12. Joined(c) /\ c \notin UnderrunBy(r) => FrameSize <= Place(c) /\ k = Place(c) - FrameSize
  BY <1>1, <1>2, <1>3, <1>6, <1>7, <1>9
<1> QED
  BY <1>10, <1>11, <1>12 DEF r, k

LEMMA StreamPlay ==
  ASSUME IndInv, TypeOK', LeadFits, PlayFrame \/ EncodeFails
  PROVE  Stream!Play
<1> DEFINE r == Popped(ring, FrameSize)
<1>0. /\ TypeOK /\ PlayInv /\ \A c \in Clients : LagOf(c)
      /\ "unnoticed" \notin Faults
  BY LagIs DEF IndInv, LeadFits
<1>1. phase = "play" /\ left > 0 /\ ring' = r /\ socket' = socket /\ new' = new
  BY DEF PlayFrame, EncodeFails, clientVars
<1>2. Len(Contents) >= FrameSize /\ Contents' = SubSeq(Contents, FrameSize + 1, Len(Contents))
  BY <1>0, <1>1, PlayedStream
<1>3. CurrentLength(r, r.read) = 0
  <2>1. r.read \in Cells
    <3>1. r \in Rings
      BY <1>0, <1>1, PlayTypes
    <3> HIDE DEF r
    <3> QED
      BY <3>1 DEF Rings
  <2> HIDE DEF r
  <2> QED
    BY <2>1, LengthIs, CellIs
<1>4. ASSUME NEW c \in Clients
      PROVE  Place(c)' = IF Place(c) < FrameSize THEN 0 ELSE Place(c) - FrameSize
  <2>1. /\ Place(c) \in Nat /\ FrameSize \in Nat /\ FrameSize >= 1
        /\ c \in UnderrunBy(r) => Place(c) < FrameSize
        /\ Joined(c) /\ c \notin UnderrunBy(r) =>
             FrameSize <= Place(c) /\ CurrentLength(r, writeIndex[c]) = Place(c) - FrameSize
    BY <1>0, <1>1, UnderrunIs, VoiceAssumption
  <2>2. Joined(c)' <=> Joined(c)
    BY <1>1 DEF Joined
  <2> HIDE DEF r
  <2>3. Place(c)' = IF Joined(c) THEN CurrentLength(r, writeIndex'[c]) ELSE 0
    BY <1>1, <2>2 DEF Place
  <2>4. CASE ~ Joined(c)
    <3>1. Place(c) = 0
      BY <2>4 DEF Place
    <3> QED
      BY <2>1, <2>3, <2>4, <3>1
  <2>5. CASE Joined(c) /\ c \in UnderrunBy(r)
    <3>1. writeIndex'[c] = r.read
      <4>1. ~ EncodeFails
        BY <1>0, <2>5 DEF EncodeFails, r
      <4>2. writeIndex' = [d \in Clients |-> IF d \in UnderrunBy(r) THEN r.read ELSE writeIndex[d]]
        BY <1>1, <4>1 DEF PlayFrame
      <4> QED
        BY <2>5, <4>2
    <3> QED
      BY <1>3, <2>1, <2>3, <2>5, <3>1
  <2>6. CASE Joined(c) /\ c \notin UnderrunBy(r)
    <3>1. writeIndex'[c] = writeIndex[c]
      <4>1. CASE EncodeFails
        BY <4>1 DEF EncodeFails, clientVars
      <4>2. CASE PlayFrame
        <5>1. writeIndex' = [d \in Clients |-> IF d \in UnderrunBy(r) THEN r.read ELSE writeIndex[d]]
          BY <1>1, <4>2 DEF PlayFrame
        <5> QED
          BY <2>6, <5>1
      <4> QED
        BY <4>1, <4>2
    <3>2. Place(c)' = Place(c) - FrameSize /\ ~ (Place(c) < FrameSize)
      BY <2>1, <2>3, <2>6, <3>1
    <3> QED
      BY <3>2
  <2> QED
    BY <2>4, <2>5, <2>6
<1>5. PlaceMap' = [c \in Clients |-> IF PlaceMap[c] < FrameSize THEN 0 ELSE PlaceMap[c] - FrameSize]
  BY <1>4 DEF PlaceMap
<1> QED
  BY <1>2, <1>5 DEF Stream!Play, PlaceMap, Place

(* Where a pushed sample is found: the cells between the write index and the end of the data   *)
(* are those of the stream between the client's place and the end.                             *)
LEMMA CellOf ==
  ASSUME NEW r \in Rings, NEW w \in Cells, NEW k \in 1 .. BufferSize, NEW n \in Nat,
         CurrentLength(r, w) + n < BufferSize
  PROVE  LET i == k - CurrentLength(r, w)
             d == Distance(Advance(r.read, k - 1), w) + 1
         IN  /\ Advance(r.read, k - 1) \in Cells /\ d \in Nat /\ d >= 1
             /\ i \in 1 .. n => d = i
             /\ i \notin 1 .. n => d > n
<1> DEFINE x == r.read
           l == CurrentLength(r, w)
           j == Advance(x, k - 1)
           d == Distance(j, w) + 1
<1>1. x \in Cells /\ k - 1 \in 0 .. BufferSize /\ BufferSize \in Nat
  BY CellIs DEF Rings
<1>2. x \in Nat /\ x < BufferSize /\ w \in Nat /\ w < BufferSize /\ k \in Nat /\ k >= 1 /\ k <= BufferSize
  BY <1>1, CellIs
<1>3. l \in Nat /\ l < BufferSize /\ l = IF x <= w THEN w - x ELSE w - x + BufferSize
  BY <1>1, LengthIs, CellIs
<1>4. j \in Cells /\ j = IF x + (k - 1) >= BufferSize THEN x + (k - 1) - BufferSize ELSE x + (k - 1)
  BY <1>1, AdvanceIs
<1> HIDE DEF j, l, x
<1>5. j \in Nat /\ j < BufferSize /\ Distance(j, w) = IF w <= j THEN j - w ELSE j - w + BufferSize
  BY <1>4, CellIs, DistanceIs
<1>6. d \in Nat /\ d >= 1
  BY <1>1, <1>2, <1>5
<1>7. d = IF k > l THEN k - l ELSE k - l + BufferSize
  BY <1>1, <1>2, <1>3, <1>4, <1>5
<1> HIDE DEF d
<1>8. l + n < BufferSize
  BY DEF l
<1>9. (k - l \in 1 .. n => d = k - l) /\ (k - l \notin 1 .. n => d > n)
  BY <1>1, <1>2, <1>3, <1>7, <1>8
<1> QED
  BY <1>4, <1>6, <1>9 DEF d, j, l, x

LEMMA StreamWrite ==
  ASSUME IndInv, TypeOK', LeadFits, NEW c \in Clients, Receive(c)
  PROVE  \E data \in Stream!Chunks : Stream!Write(c, data)
<1>0. /\ TypeOK /\ PollsClients /\ PollInv /\ LagOf(c) /\ ring \in Rings /\ ring' \in Rings /\ ClientTypes
  <2>1. TypeOK /\ PollsClients /\ PollInv /\ LagOf(c)
    BY LagIs DEF IndInv
  <2> QED
    BY <2>1, TypeIs, TypeIsNext
<1>1. PICK bytes \in 1 .. RecvSize :
        BeginRecv(c, bytes) /\ \E data \in Data(c, bytes) : \E kept \in Kept(data) : PushData(c, kept)
  BY DEF Receive
<1>2. PICK kept \in Seq(Samples) : kept \in Seq(AllSamples) /\ Len(kept) \in 0 .. RecvSize \div 2 /\ PushData(c, kept)
  BY <1>0, <1>1, DataIs
<1> DEFINE w == Start(c)
           n == Len(kept)
           l == CurrentLength(ring, w)
           h == ring.length
           m == ToMix(ring, w, n)
           end == PlaceMap[c] + n
<1>3. kept \in Stream!Chunks
  <2>1. kept \in [1 .. n -> Samples]
    BY <1>2
  <2> QED
    BY <1>2, <2>1 DEF Stream!Chunks
<1>4. socket[c] # Closed /\ socket' = socket /\ new' = [new EXCEPT ![c] = FALSE]
  BY <1>0, <1>1, ClientAtEntry DEF BeginRecv, BeginData
<1>5. w \in Cells /\ n \in Nat /\ n <= CurrentFree(ring, w)
  BY <1>0, <1>2, StartType DEF PushData
<1>6. l \in Nat /\ l <= h /\ h \in Nat /\ BufferSize \in Nat
  BY <1>0, <1>4, LagStarts, CellIs DEF Rings
<1>7. PlaceMap[c] = l
  <2>1. CASE new[c]
    <3>1. w = ring.read /\ ring.read \in Cells
      BY <1>0, <2>1 DEF Start, Rings
    <3>2. l = 0
      <4> HIDE DEF w
      <4> QED
        BY <3>1, LengthIs, CellIs
    <3> QED
      BY <2>1, <3>2 DEF PlaceMap, Place, Joined
  <2>2. CASE ~ new[c]
    BY <1>4, <2>2 DEF PlaceMap, Place, Joined, Start
  <2> QED
    BY <2>1, <2>2
<1>8. /\ ring' = Push(ring, w, kept) /\ ring'.read = ring.read /\ l + n < BufferSize /\ l + n \in Nat
      /\ CurrentLength(ring', writeIndex'[c]) = l + n
      /\ \A d \in Clients \ {c} : writeIndex'[d] = writeIndex[d]
  <2> HIDE DEF w, n, l
  <2>1. l + n \in Cells
    BY <1>0, <1>2, PushedIs DEF w, n, l
  <2> QED
    BY <1>0, <1>2, <2>1, PushedIs, CellIs DEF w, n, l
<1>9. ring'.buf = Stored(ring.buf, w, kept, m) /\ ring'.length = h + n - m
  BY <1>0, <1>2, <1>5, <1>8, PushIs
<1>10. m \in 0 .. n /\ m = IF h <= l THEN 0 ELSE IF l + n < h THEN n ELSE h - l
  BY <1>0, <1>5, SplitIs
<1> HIDE DEF w, n, l, h, m
<1>11. ring'.length = IF l + n > h THEN l + n ELSE h
  BY <1>5, <1>6, <1>9, <1>10
<1>12. PlaceMap' = [PlaceMap EXCEPT ![c] = l + n]
  <2>1. ASSUME NEW d \in Clients
        PROVE  Place(d)' = IF d = c THEN l + n ELSE Place(d)
    <3>1. CASE d = c
      <4>1. Joined(c)'
        BY <1>0, <1>4 DEF Joined, ClientTypes
      <4> QED
        BY <1>8, <3>1, <4>1 DEF Place
    <3>2. CASE d # c
      <4>1. Joined(d)' <=> Joined(d)
        BY <1>0, <1>4, <3>2 DEF Joined, ClientTypes
      <4> QED
        BY <1>8, <3>2, <4>1 DEF Place, CurrentLength
    <3> QED
      BY <3>1, <3>2
  <2> QED
    BY <2>1 DEF PlaceMap
<1>13. /\ Contents \in Seq(AllSamples) /\ Len(Contents) = h
       /\ \A k \in 1 .. h : Contents[k] = ring.buf[Advance(ring.read, k - 1)]
       /\ \A k \in 1 .. h : Contents[k] \in AllSamples
  BY <1>0, ContentsIs DEF h
<1>14. Contents' = [k \in 1 .. ring'.length |-> ring'.buf[Advance(ring.read, k - 1)]]
  BY <1>8 DEF Contents
<1>15. ASSUME NEW k \in 1 .. ring'.length
       PROVE  ring'.buf[Advance(ring.read, k - 1)] =
                IF k - l \notin 1 .. n THEN Contents[k]
                ELSE IF k <= h THEN Stream!Sum(Contents[k], kept[k - l]) ELSE kept[k - l]
  <2> DEFINE j == Advance(ring.read, k - 1)
             d == Distance(j, w) + 1
             i == k - l
  <2>1. k \in 1 .. BufferSize /\ h < BufferSize
    <3>1. h < BufferSize
      BY <1>0, CellIs DEF Rings, h
    <3> QED
      BY <1>5, <1>6, <1>8, <1>11, <3>1
  <2>2. /\ j \in Cells /\ d \in Nat /\ d >= 1
        /\ i \in 1 .. n => d = i
        /\ i \notin 1 .. n => d > n
    BY <1>0, <1>5, <1>8, <2>1, CellOf DEF l
  <2>3. ring'.buf[j] = IF d > n THEN ring.buf[j] ELSE IF d <= m THEN Mix(ring.buf[j], kept[d]) ELSE kept[d]
    BY <1>9, <2>2 DEF Stored, n
  <2>4. k <= h => Contents[k] = ring.buf[j] /\ Contents[k] \in AllSamples
    BY <1>6, <1>13, <2>1
  <2> HIDE DEF d, j
  <2>5. CASE i \notin 1 .. n
    <3>1. k <= h
      BY <1>5, <1>6, <1>11, <2>1, <2>5
    <3> QED
      BY <1>5, <2>2, <2>3, <2>4, <2>5, <3>1 DEF j
  <2>6. CASE i \in 1 .. n
    <3>1. d = i /\ ~ (d > n) /\ kept[i] \in AllSamples
      BY <1>2, <1>5, <2>2, <2>6 DEF n
    <3>2. d <= m <=> k <= h
      BY <1>5, <1>6, <1>10, <2>1, <2>6, <3>1
    <3>3. k <= h => Stream!Sum(Contents[k], kept[i]) = Mix(ring.buf[j], kept[i])
      BY <2>4, <3>1, SumIs
    <3> QED
      BY <2>3, <2>6, <3>1, <3>2, <3>3 DEF j
  <2> QED
    BY <2>5, <2>6
<1>16. Contents' = [k \in 1 .. (IF l + n > h THEN l + n ELSE h) |->
                      IF k - l \notin 1 .. n THEN Contents[k]
                      ELSE IF k <= h THEN Stream!Sum(Contents[k], kept[k - l]) ELSE kept[k - l]]
  BY <1>11, <1>14, <1>15
<1>17. Stream!Write(c, kept)
  <2>1. PlaceMap[c] + Len(kept) <= BufferSize - 1 /\ PlaceMap[c] + Len(kept) = l + n
    BY <1>5, <1>6, <1>7, <1>8 DEF n
  <2>2. Contents' = [k \in 1 .. (IF PlaceMap[c] + Len(kept) > Len(Contents) THEN PlaceMap[c] + Len(kept) ELSE Len(Contents)) |->
                       LET i == k - PlaceMap[c]
                       IN  IF i \notin 1 .. Len(kept) THEN Contents[k]
                           ELSE IF k <= Len(Contents) THEN Stream!Sum(Contents[k], kept[i]) ELSE kept[i]]
    BY <1>7, <1>13, <1>16 DEF n
  <2>3. PlaceMap' = [PlaceMap EXCEPT ![c] = PlaceMap[c] + Len(kept)]
    BY <1>12, <2>1
  <2> QED
    BY <2>1, <2>2, <2>3 DEF Stream!Write, PlaceMap, Place
<1> QED
  BY <1>3, <1>17

(* Steps that neither write nor play. *)
LEMMA StreamStays ==
  ASSUME ring' = ring, \A c \in Clients : Place(c)' = Place(c)
  PROVE  UNCHANGED Stream!vars
<1>1. Contents' = Contents
  BY DEF Contents
<1>2. PlaceMap' = PlaceMap
  BY DEF PlaceMap
<1> QED
  BY <1>1, <1>2 DEF Stream!vars, PlaceMap, Place

LEMMA StreamStep ==
  ASSUME IndInv, TypeOK', LeadFits, Next
  PROVE  Stream!Next \/ UNCHANGED Stream!vars
<1>0. /\ TypeOK /\ PollsClients /\ PollInv /\ \A c \in Clients : LagOf(c)
      /\ ClientTypes /\ ring \in Rings
  <2>1. TypeOK /\ PollsClients /\ PollInv /\ \A c \in Clients : LagOf(c)
    BY LagIs DEF IndInv
  <2> QED
    BY <2>1, TypeIs
<1>1. CASE PlayFrame \/ EncodeFails
  BY <1>1, StreamPlay DEF Stream!Next
<1>2. ASSUME NEW c \in Clients, Receive(c)
      PROVE  Stream!Next
  BY <1>2, StreamWrite DEF Stream!Next
<1>3. ASSUME ring' = ring, UNCHANGED clientVars
      PROVE  UNCHANGED Stream!vars
  BY <1>3, StreamStays DEF Place, Joined, clientVars
<1>4. CASE Tick \/ PollNothing \/ PollClients \/ Skip \/ EndRead \/ CompressPollFds \/ EndCompress
           \/ PlayNothing \/ BeginPlay \/ EndPlay
  BY <1>3, <1>4 DEF Tick, PollNothing, PollClients, Skip, EndRead, CompressPollFds, EndCompress,
                    PlayNothing, BeginPlay, EndPlay
<1>5. CASE Accept
  <2> DEFINE e == Lowest(FreeSlots)
  <2>1. \E s : socket' = [socket EXCEPT ![e] = s]
    BY <1>5 DEF Accept
  <2>2. new' = [new EXCEPT ![e] = TRUE] /\ writeIndex' = [writeIndex EXCEPT ![e] = 0] /\ ring' = ring
    BY <1>5 DEF Accept
  <2>3. e \in Clients /\ socket[e] = Closed
    BY <1>0, <1>5, SocketLeft DEF Accept, FreeSlots
  <2> HIDE DEF e
  <2>4. ASSUME NEW c \in Clients
        PROVE  Place(c)' = Place(c)
    <3>1. CASE c = e
      <4>1. ~ Joined(c) /\ ~ Joined(c)'
        BY <1>0, <2>2, <2>3, <3>1 DEF Joined, ClientTypes
      <4> QED
        BY <4>1 DEF Place
    <3>2. CASE c # e
      <4>1. socket'[c] = socket[c] /\ new'[c] = new[c] /\ writeIndex'[c] = writeIndex[c]
        BY <1>0, <2>1, <2>2, <3>2 DEF ClientTypes
      <4>2. Joined(c)' <=> Joined(c)
        BY <4>1 DEF Joined
      <4>3. CurrentLength(ring', writeIndex'[c]) = CurrentLength(ring, writeIndex[c])
        BY <2>2, <4>1
      <4> QED
        BY <4>2, <4>3 DEF Place
    <3> QED
      BY <3>1, <3>2
  <2> QED
    BY <2>2, <2>4, StreamStays
<1>6. ASSUME NEW d \in Clients, HangUp(d) \/ Disconnect(d)
      PROVE  Stream!Next
  <2>1. ring' = ring /\ socket' = [socket EXCEPT ![d] = Closed]
    BY <1>6 DEF HangUp, Disconnect, CloseClient
  <2>2. ASSUME NEW c \in Clients
        PROVE  Place(c)' = IF c = d THEN 0 ELSE Place(c)
    <3>1. CASE c = d
      <4>1. ~ Joined(c)'
        BY <1>0, <2>1, <3>1 DEF Joined, ClientTypes
      <4> QED
        BY <3>1, <4>1 DEF Place
    <3>2. CASE c # d
      <4>1. socket'[c] = socket[c] /\ new'[c] = new[c] /\ writeIndex'[c] = writeIndex[c]
        BY <1>0, <1>6, <2>1, <3>2 DEF HangUp, Disconnect, BeginData, ClientTypes
      <4> QED
        BY <2>1, <3>2, <4>1 DEF Place, Joined
    <3> QED
      BY <3>1, <3>2
  <2>3. PlaceMap' = [PlaceMap EXCEPT ![d] = 0]
    BY <2>2 DEF PlaceMap
  <2>4. Contents' = Contents
    BY <2>1 DEF Contents
  <2>5. Stream!Leave(d)
    BY <2>3, <2>4 DEF Stream!Leave, PlaceMap, Place
  <2> QED
    BY <2>5 DEF Stream!Next
<1>7. ASSUME NEW d \in Clients, AtEntry(d), ring' = ring, socket' = socket, new' = [new EXCEPT ![d] = FALSE],
             writeIndex'[d] = Start(d), \A c \in Clients \ {d} : writeIndex'[c] = writeIndex[c]
      PROVE  UNCHANGED Stream!vars
  <2>1. ASSUME NEW c \in Clients
        PROVE  Place(c)' = Place(c)
    <3>1. CASE c # d
      <4>1. socket'[c] = socket[c] /\ new'[c] = new[c] /\ writeIndex'[c] = writeIndex[c]
        BY <1>0, <1>7, <3>1 DEF ClientTypes
      <4> QED
        BY <1>7, <4>1 DEF Place, Joined
    <3>2. CASE c = d
      <4>1. socket[c] # Closed
        BY <1>0, <1>7, <3>2, ClientAtEntry
      <4>2. Joined(c)' /\ Place(c)' = CurrentLength(ring, Start(c))
        BY <1>0, <1>7, <3>2, <4>1 DEF Place, Joined, ClientTypes
      <4>3. CASE new[c]
        <5>1. Start(c) = ring.read /\ ring.read \in Cells
          BY <1>0, <4>3 DEF Start, Rings
        <5>2. CurrentLength(ring, Start(c)) = 0
          BY <5>1, LengthIs, CellIs
        <5> QED
          BY <4>2, <4>3, <5>2 DEF Place, Joined
      <4>4. CASE ~ new[c]
        BY <4>1, <4>2, <4>4 DEF Place, Joined, Start
      <4> QED
        BY <4>3, <4>4
    <3> QED
      BY <3>1, <3>2
  <2> QED
    BY <1>7, <2>1, StreamStays
<1>8. ASSUME NEW d \in Clients, TooFull(d)
      PROVE  UNCHANGED Stream!vars
  <2>1. /\ AtEntry(d) /\ ring' = ring /\ socket' = socket /\ new' = [new EXCEPT ![d] = FALSE]
        /\ writeIndex' = [writeIndex EXCEPT ![d] = Start(d)]
    BY <1>8 DEF TooFull, BeginData
  <2>2. writeIndex'[d] = Start(d) /\ \A c \in Clients \ {d} : writeIndex'[c] = writeIndex[c]
    BY <1>0, <2>1 DEF ClientTypes
  <2> QED
    BY <1>7, <2>1, <2>2
<1>9. ASSUME NEW d \in Clients, Ignore(d) \/ Drop(d)
      PROVE  UNCHANGED Stream!vars
  <2>1. PICK bytes \in 1 .. RecvSize : BeginRecv(d, bytes) /\ PushNothing(d)
    BY <1>9 DEF Ignore, Drop
  <2>2. AtEntry(d) /\ socket' = socket /\ new' = [new EXCEPT ![d] = FALSE]
    BY <2>1 DEF BeginRecv, BeginData
  <2>3. /\ ring' = ring /\ writeIndex'[d] = Start(d) /\ \A c \in Clients \ {d} : writeIndex'[c] = writeIndex[c]
    BY <1>0, <2>1, NothingPushedIs
  <2> QED
    BY <1>7, <2>2, <2>3
<1> QED
  BY <1>1, <1>2, <1>4, <1>5, <1>6, <1>8, <1>9 DEF Next, HandleNetwork, HandleVoiceData

(* The extension implements its promise: what the clients send is mixed, sample by sample, in   *)
(* the order each sent it and without a gap, and played once, for every size of the buffer, of  *)
(* a frame and of what recv gives, and any number of clients, under the bounds of the underrun  *)
(* test.                                                                                        *)
THEOREM Refinement ==
  ASSUME MaxLead + FrameSize < BufferSize, "unnoticed" \notin Faults
  PROVE  Spec => StreamSpec
<1>1. IndInv /\ IndInv' /\ [Next]_vars => [Stream!Next]_Stream!vars
  <2> SUFFICES ASSUME IndInv, IndInv', [Next]_vars
               PROVE  Stream!Next \/ UNCHANGED Stream!vars
    OBVIOUS
  <2>1. CASE Next
    <3>1. TypeOK' /\ LeadFits
      BY DEF IndInv, LeadFits
    <3> QED
      BY <2>1, <3>1, StreamStep
  <2>2. CASE UNCHANGED vars
    BY <2>2, StreamStays DEF vars, Place, Joined
  <2> QED
    BY <2>1, <2>2
<1> QED
  BY StreamInit, Invariance, <1>1, PTL DEF Spec, StreamSpec, Stream!Spec
=============================================================================
