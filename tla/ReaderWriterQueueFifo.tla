------------------------ MODULE ReaderWriterQueueFifo ------------------------
(***************************************************************************)
(* ReaderWriterQueue implements SpscQueue, for every block size, every     *)
(* number of blocks and every constructor argument.                        *)
(*                                                                         *)
(*   - numbers and ring positions: a ring has one numbering (UniqueRing);  *)
(*   - the pieces of the history queue in the blocks: one lemma per step   *)
(*     that moves an index or a block, then QueueInv for every step;       *)
(*   - capacity: "full" means all blocks but one are full;                 *)
(*   - what each call owes its caller (EnqueueInv, DequeueInv), the        *)
(*     invariant, and the step simulation.                                 *)
(***************************************************************************)
EXTENDS ReaderWriterQueueProofs, WellFoundedInduction

(* Before place t of n places there is a next place. *)
LEMMA NextPlace ==
  ASSUME NEW n \in Nat, NEW p \in Nat, NEW t \in Nat, p <= t, p # t, t <= n - 1
  PROVE  p < t /\ p # n - 1 /\ p + 1 <= t /\ p + 1 # 0
OBVIOUS

(* A set of numbers that holds 0 and with each number the next holds them all. *)
LEMMA Numbers ==
  ASSUME NEW S \in SUBSET Nat, 0 \in S, \A n \in S : n + 1 \in S
  PROVE  S = Nat
<1>1. SUFFICES ASSUME Nat \ S # {}
               PROVE  FALSE
  OBVIOUS
<1> DEFINE R == OpToRel(<, Nat)
<1>2. IsWellFoundedOn(R, Nat)
  BY NatLessThanWellFounded
<1>3. PICK n \in Nat \ S : \A m \in Nat : <<m, n>> \in R => m \in S
  <2>1. PICK n \in Nat \ S : \A m \in Nat \ S : ~ (<<m, n>> \in R)
    BY <1>1, <1>2, WFMin, Zenon
  <2> QED BY <2>1
<1>4. n \in Nat /\ n \notin S /\ n # 0
  BY <1>3
<1>5. n - 1 \in Nat /\ n - 1 < n
  BY <1>4
<1>6. <<n - 1, n>> \in R
  BY <1>4, <1>5 DEF OpToRel
<1> HIDE DEF R
<1>7. n - 1 \in S
  BY <1>3, <1>5, <1>6
<1>8. n - 1 + 1 = n
  BY <1>4
<1> QED BY <1>4, <1>7, <1>8

(* There is one way to number the blocks of the ring. *)
LEMMA PositionsUnique ==
  TypeOK => \A p, q \in [1 .. RingLength -> 0 .. RingLength - 1] : RingShape(p) /\ RingShape(q) => p = q
<1> SUFFICES ASSUME TypeOK,
                    NEW p \in [1 .. RingLength -> 0 .. RingLength - 1], RingShape(p),
                    NEW q \in [1 .. RingLength -> 0 .. RingLength - 1], RingShape(q)
             PROVE  p = q
  OBVIOUS
<1> DEFINE n == RingLength
           S == {k \in Nat : k < n => \E b \in 1 .. n : p[b] = k /\ q[b] = k}
<1>1. n \in Nat /\ frontBlock \in 1 .. n /\ p[frontBlock] = 0 /\ q[frontBlock] = 0
  BY RingBasics DEF RingShape
<1>2. /\ \A b \in 1 .. n : next[b] \in 1 .. n
      /\ \A b \in 1 .. n : p[next[b]] = IF p[b] = n - 1 THEN 0 ELSE p[b] + 1
      /\ \A b \in 1 .. n : q[next[b]] = IF q[b] = n - 1 THEN 0 ELSE q[b] + 1
      /\ \A b, c \in 1 .. n : p[b] = p[c] => b = c
  BY DEF RingShape
<1> HIDE DEF n
<1>3. 0 \in S
  BY <1>1
<1>4. ASSUME NEW k \in S
      PROVE  k + 1 \in S
  <2> SUFFICES ASSUME k + 1 < n
               PROVE  \E b \in 1 .. n : p[b] = k + 1 /\ q[b] = k + 1
    OBVIOUS
  <2>1. PICK b \in 1 .. n : p[b] = k /\ q[b] = k
    BY <1>1
  <2>2. k # n - 1 /\ next[b] \in 1 .. n
    BY <1>1, <1>2
  <2>3. p[next[b]] = k + 1 /\ q[next[b]] = k + 1
    BY <1>2, <2>1, <2>2
  <2> QED BY <2>2, <2>3
<1>5. S = Nat
  <2> HIDE DEF S
  <2>1. S \in SUBSET Nat
    BY DEF S
  <2> QED BY <1>3, <1>4, <2>1, Numbers
<1>6. ASSUME NEW b \in 1 .. n
      PROVE  p[b] = q[b]
  <2>1. p[b] \in Nat /\ p[b] < n
    BY <1>1 DEF n
  <2>2. PICK c \in 1 .. n : p[c] = p[b] /\ q[c] = p[b]
    BY <1>5, <2>1
  <2> QED BY <1>2, <2>2
<1>7. DOMAIN p = 1 .. n /\ DOMAIN q = 1 .. n /\ p = [b \in 1 .. n |-> p[b]] /\ q = [b \in 1 .. n |-> q[b]]
  BY DEF n
<1> QED BY <1>6, <1>7, Zenon

(* The ring that a step leaves as it is keeps its numbering. *)
LEMMA RingStays ==
  ASSUME TypeOK, TypeOK', RingInv',
         NEW pos \in [1 .. RingLength -> 0 .. RingLength - 1], RingWitness(pos),
         RingLength' = RingLength, \A b \in 1 .. RingLength : next'[b] = next[b],
         frontBlock' = frontBlock
  PROVE  RingWitness(pos)'
<1>1. PICK pos2 \in [1 .. RingLength' -> 0 .. RingLength' - 1] : RingWitness(pos2)'
  BY DEF RingInv
<1>2. RingShape(pos)'
  <2>1. RingShape(pos) /\ RingShape(pos2)'
    BY <1>1 DEF RingWitness
  <2> QED BY <2>1 DEF RingShape
<1>3. (TypeOK => \A p, q \in [1 .. RingLength -> 0 .. RingLength - 1] : RingShape(p) /\ RingShape(q) => p = q)'
  BY PositionsUnique, PTL
<1>4. RingShape(pos2)'
  BY <1>1 DEF RingWitness
<1>5. pos2 = pos
  BY <1>1, <1>2, <1>3, <1>4
<1> QED BY <1>1, <1>5

(* The k-th slot behind front. *)
SlotOf(b, k) ==
  LET i == front[b] + k - 1
  IN  IF i < size[b] THEN i ELSE i - size[b]

(* What is in a block, by its indices. *)
LEMMA BlockIs ==
  ASSUME TypeOK, NEW b \in 1 .. nblocks
  PROVE  /\ Queued(b) \in Nat /\ Queued(b) <= size[b] - 1 /\ size[b] \in Nat
         /\ Queued(b) = 0 <=> front[b] = tail[b]
         /\ Queued(b) = size[b] - 1 <=> Succ(size[b], tail[b]) = front[b]
         /\ Len(InBlock(b)) = Queued(b)
         /\ \A k \in 1 .. Queued(b) :
              /\ InBlock(b)[k] = ElementAt(b, SlotOf(b, k))
              /\ SlotOf(b, k) \in 0 .. size[b] - 1 /\ SlotOf(b, k) # tail[b]
              /\ SlotOf(b, k) = front[b] <=> k = 1
<1>1. /\ size[b] \in Nat /\ size[b] >= 2
      /\ front[b] \in 0 .. size[b] - 1 /\ tail[b] \in 0 .. size[b] - 1
  BY Basics
<1>0. InBlock(b) = [k \in 1 .. Queued(b) |-> ElementAt(b, SlotOf(b, k))]
  BY DEF InBlock, SlotOf
<1> DEFINE s == size[b]
           f == front[b]
           t == tail[b]
           m == Queued(b)
<1>2. m = IF f <= t THEN t - f ELSE s - f + t
  BY DEF Queued
<1>3. \A k : SlotOf(b, k) = IF f + (k - 1) < s THEN f + (k - 1) ELSE (f + (k - 1)) - s
  BY DEF SlotOf
<1>4. ASSUME NEW k \in 1 .. m
      PROVE  InBlock(b)[k] = ElementAt(b, SlotOf(b, k))
  BY <1>0
<1>5. m \in Nat /\ Len(InBlock(b)) = m
  <2>1. m \in Nat
    BY <1>1, <1>2
  <2>2. DOMAIN InBlock(b) = 1 .. m
    BY <1>0
  <2> QED BY <2>1, <2>2, <1>0
<1> HIDE DEF m, s, f, t
<1>6. /\ m <= s - 1 /\ (m = 0 <=> f = t)
      /\ m = s - 1 <=> Succ(s, t) = f
  BY <1>1, <1>2 DEF Succ, s, f, t
<1>7. ASSUME NEW k \in 1 .. m
      PROVE  /\ SlotOf(b, k) \in 0 .. s - 1 /\ SlotOf(b, k) # t
             /\ SlotOf(b, k) = f <=> k = 1
  <2> DEFINE i == SlotOf(b, k)
  <2>1. i = IF f + (k - 1) < s THEN f + (k - 1) ELSE (f + (k - 1)) - s
    BY <1>3
  <2> HIDE DEF i
  <2>2. k \in Nat /\ k >= 1 /\ k <= m /\ s \in Nat /\ f \in Nat /\ t \in Nat /\ f < s /\ t < s
    BY <1>1, <1>5 DEF s, f, t
  <2>3. i = (IF f + k <= s THEN f + k - 1 ELSE f + k - 1 - s) /\ i \in Int
    BY ONLY <2>1, <2>2
  <2>4. m = IF f <= t THEN t - f ELSE s - f + t
    BY <1>2
  <2>5. i >= 0 /\ i < s /\ i # t /\ (i = f <=> k = 1)
    BY ONLY <2>2, <2>3, <2>4
  <2> QED BY <2>2, <2>3, <2>5 DEF i
<1> QED BY <1>1, <1>4, <1>5, <1>6, <1>7 DEF m, s, f, t

(* What a step leaves of a block. *)
Same(b) ==
  /\ front'[b] = front[b] /\ tail'[b] = tail[b] /\ size'[b] = size[b]
  /\ InBlock(b)' = InBlock(b)

(* A step that leaves the used blocks, and their order, leaves the pieces. *)
LEMMA SegmentsStay ==
  ASSUME BlockInv, BlockInv', queue \in Seq(Vals), queue' = queue, maxSize' = maxSize,
         NEW pos \in [1 .. RingLength -> 0 .. RingLength - 1], RingWitness(pos),
         NEW start \in [1 .. RingLength -> 0 .. Len(queue)], Segments(pos, start),
         NEW pos2 \in [1 .. RingLength' -> 0 .. RingLength' - 1], RingWitness(pos2)',
         frontBlock' = frontBlock, tailBlock' = tailBlock, RingLength <= RingLength',
         \A b \in Used(pos) : pos2[b] = pos[b] /\ Same(b) /\ (b # tailBlock => next'[b] = next[b]),
         \A b \in 1 .. RingLength' : pos2[b] <= pos2[tailBlock] => b \in Used(pos)
  PROVE  QueueInv'
<1>1. RingLength \in Nat /\ RingLength' \in Nat /\ Len(queue) \in Nat
  <2>1. TypeOK => RingLength \in Nat
    BY RingBasics
  <2>2. (TypeOK => RingLength \in Nat)'
    BY RingBasics, PTL
  <2> QED BY <2>1, <2>2 DEF BlockInv
<1>2. /\ frontBlock \in Used(pos) /\ tailBlock \in Used(pos)
      /\ \A b \in Used(pos) : b \in 1 .. RingLength /\ b \in 1 .. RingLength'
  <2>1. frontBlock \in 1 .. RingLength /\ tailBlock \in 1 .. RingLength /\ pos[frontBlock] = 0
    BY DEF RingWitness, RingShape
  <2> QED BY <1>1, <2>1 DEF Used
<1>3. Used(pos2)' = Used(pos)
  <2>1. \A b \in Used(pos) : pos2[b] <= pos2[tailBlock]
    BY <1>2 DEF Used
  <2> QED BY <1>2, <2>1 DEF Used
<1>4. PICK start2 \in [1 .. RingLength' -> 0 .. Len(queue')] : \A b \in Used(pos) : start2[b] = start[b]
  <2> DEFINE s == [b \in 1 .. RingLength' |-> IF b \in 1 .. RingLength THEN start[b] ELSE 0]
  <2>1. s \in [1 .. RingLength' -> 0 .. Len(queue')] /\ \A b \in Used(pos) : s[b] = start[b]
    BY <1>1, <1>2
  <2> QED BY <2>1
<1>5. \A b \in Used(pos) : Queued(b)' = Queued(b) /\ Holds(start2, b)' /\ size'[b] = size[b]
  <2> SUFFICES ASSUME NEW b \in Used(pos)
               PROVE  Queued(b)' = Queued(b) /\ Holds(start2, b)' /\ size'[b] = size[b]
    OBVIOUS
  <2>1. Queued(b)' = Queued(b)
    BY DEF Same, Queued
  <2>2. Holds(start, b)
    BY DEF Segments
  <2> QED BY <1>4, <2>1, <2>2 DEF Holds, Same
<1>6. \A b \in Used(pos) : b # tailBlock => next[b] \in Used(pos)
  <2> SUFFICES ASSUME NEW b \in Used(pos), b # tailBlock
               PROVE  next[b] \in Used(pos)
    OBVIOUS
  <2>1. /\ next[b] \in 1 .. RingLength /\ pos[b] <= pos[tailBlock] /\ pos[b] # pos[tailBlock]
        /\ pos[next[b]] = IF pos[b] = RingLength - 1 THEN 0 ELSE pos[b] + 1
    BY <1>2 DEF RingWitness, RingShape, Used
  <2>2. pos[b] \in Nat /\ pos[tailBlock] \in Nat /\ pos[tailBlock] <= RingLength - 1 /\ RingLength \in Nat
    BY <1>1, <1>2
  <2>3. pos[b] # RingLength - 1 /\ pos[b] + 1 <= pos[tailBlock]
    BY ONLY <2>1, <2>2, NextPlace
  <2> QED BY ONLY <2>1, <2>3 DEF Used
<1>7. \A n : Capacity(n)' = Capacity(n)
  BY DEF Capacity, FirstBlockSize
<1>8. Segments(pos2, start2)'
  <2>1. start2[frontBlock'] = 0 /\ start2[tailBlock'] + Queued(tailBlock)' = Len(queue')
    BY <1>2, <1>4, <1>5 DEF Segments
  <2>2. \A b \in Used(pos) :
          /\ b # tailBlock => start2[next'[b]] = start2[b] + Queued(b)'
          /\ b # tailBlock /\ b # frontBlock => Queued(b)' = size'[b] - 1
    BY <1>4, <1>5, <1>6 DEF Segments
  <2>3. \A b, c \in Used(pos) :
          pos2[b] < pos2[c] =>
            /\ start2[b] + Queued(b)' <= start2[c]
            /\ b # frontBlock => start2[c] - start2[b] >= Capacity(pos2[c] - pos2[b])'
    BY <1>4, <1>5, <1>7 DEF Segments
  <2> QED BY <1>3, <1>5, <2>1, <2>2, <2>3 DEF Segments
<1> QED BY <1>4, <1>8 DEF QueueInv

(* What is in a block depends on its indices, its slots and the element being taken out. *)
LEMMA SameIf ==
  ASSUME NEW b \in 1 .. nblocks, front'[b] = front[b], tail'[b] = tail[b], size'[b] = size[b],
         data'[b] = data[b],
         cPC' = "release" /\ cBlk' = b <=> cPC = "release" /\ cBlk = b,
         cPC = "release" /\ cBlk = b => cVal' = cVal
  PROVE  Same(b)
<1>1. Queued(b)' = Queued(b)
  BY DEF Queued
<1>2. ASSUME NEW i
      PROVE  ElementAt(b, i)' = ElementAt(b, i)
  BY DEF ElementAt
<1>3. InBlock(b)' = InBlock(b)
  BY <1>1, <1>2 DEF InBlock
<1> QED BY <1>3 DEF Same

(* Steps that leave the queue, the ring and what is in the used blocks. *)
LEMMA QueueStays ==
  ASSUME BlockInv, BlockInv', QueueInv, queue' = queue, maxSize' = maxSize,
         frontBlock' = frontBlock, tailBlock' = tailBlock, RingLength' = RingLength,
         \A b \in 1 .. RingLength : next'[b] = next[b],
         \A pos \in [1 .. RingLength -> 0 .. RingLength - 1] :
           RingWitness(pos) => \A b \in Used(pos) : Same(b)
  PROVE  QueueInv'
<1>1. PICK pos \in [1 .. RingLength -> 0 .. RingLength - 1] :
        RingWitness(pos) /\ \E start \in [1 .. RingLength -> 0 .. Len(queue)] : Segments(pos, start)
  BY DEF QueueInv
<1>2. PICK start \in [1 .. RingLength -> 0 .. Len(queue)] : Segments(pos, start)
  BY <1>1
<1>3. RingWitness(pos)'
  BY <1>1, RingStays DEF BlockInv
<1>4. queue \in Seq(Vals)
  BY DEF QueueInv
<1>5. RingLength \in Nat
  BY RingBasics DEF BlockInv
<1>6. pos \in [1 .. RingLength' -> 0 .. RingLength' - 1]
  OBVIOUS
<1>7. \A b \in Used(pos) : pos[b] = pos[b] /\ Same(b) /\ (b # tailBlock => next'[b] = next[b])
  BY <1>1 DEF Used
<1>8. \A b \in 1 .. RingLength' : pos[b] <= pos[tailBlock] => b \in Used(pos)
  BY DEF Used
<1>9. RingLength <= RingLength'
  BY <1>5
<1> QED BY <1>1, <1>2, <1>3, <1>4, <1>6, <1>7, <1>8, <1>9, SegmentsStay

(* Steps that touch no block. *)
LEMMA NothingMoves ==
  ASSUME BlockInv, BlockInv', QueueInv,
         UNCHANGED <<queue, maxSize, frontBlock, tailBlock, nblocks, next, front, tail, size, data>>,
         RingLength' = RingLength,
         UNCHANGED <<cPC, cBlk, cVal>> \/ (cPC # "release" /\ cPC' # "release")
  PROVE  QueueInv'
<1>1. ASSUME NEW b \in 1 .. nblocks
      PROVE  Same(b)
  BY SameIf
<1>2. \A pos : \A b \in Used(pos) : b \in 1 .. nblocks
  BY RingBasics DEF Used, BlockInv
<1> QED BY <1>1, <1>2, QueueStays

LEMMA ConstructQueue ==
  ASSUME BlockInv, BlockInv', QueueInv, Construct
  PROVE  QueueInv'
<1>1. /\ UNCHANGED <<queue, maxSize, frontBlock, tailBlock, nblocks, next, front, tail, size, cPC, cBlk, cVal>>
      /\ data' = [data EXCEPT ![pBlk][tail[pBlk]] = pVal]
      /\ pPC # "link" /\ pPC' # "link"
  BY DEF Construct, blockVars, consOwned, prodOwned, consVars, ProdGoto
<1>2. RingLength' = RingLength
  BY <1>1 DEF RingLength
<1>3. TypeOK /\ data \in [Blocks -> [Slots -> Vals \cup {NULL}]]
  BY DEF BlockInv, TypeOK, ListTypeOK
<1>4. ASSUME NEW b \in 1 .. nblocks
      PROVE  Same(b)
  <2>1. b \in Blocks /\ Queued(b)' = Queued(b)
    BY <1>1, <1>3, Basics DEF Queued
  <2>2. ASSUME NEW k \in 1 .. Queued(b)
        PROVE  ElementAt(b, SlotOf(b, k))' = ElementAt(b, SlotOf(b, k))
    <3> DEFINE i == SlotOf(b, k)
    <3>1. i # tail[b] /\ i \in 0 .. size[b] - 1
      BY <1>3, BlockIs
    <3>2. i' = i
      BY <1>1 DEF SlotOf
    <3>3. i \in Slots
      BY <1>3, <3>1, Basics
    <3> HIDE DEF i
    <3>4. data'[b][i] = data[b][i]
      BY <1>1, <1>3, <2>1, <3>1, <3>3
    <3>5. ElementAt(b, i)' = IF cPC = "release" /\ cBlk = b /\ front[b] = i THEN cVal ELSE data'[b][i]
      BY <1>1, <3>2 DEF ElementAt
    <3> QED BY <3>4, <3>5 DEF ElementAt, i
  <2>3. InBlock(b) = [k \in 1 .. Queued(b) |-> ElementAt(b, SlotOf(b, k))]
        /\ InBlock(b)' = [k \in 1 .. Queued(b)' |-> ElementAt(b, SlotOf(b, k))']
    BY DEF InBlock, SlotOf
  <2>4. InBlock(b)' = InBlock(b)
    BY <2>1, <2>2, <2>3, Zenon
  <2> QED BY <1>1, <2>4 DEF Same
<1>5. \A pos : \A b \in Used(pos) : b \in 1 .. nblocks
  BY RingBasics DEF Used, BlockInv
<1> QED BY <1>1, <1>2, <1>4, <1>5, QueueStays

LEMMA TakeElementQueue ==
  ASSUME BlockInv, BlockInv', QueueInv, TakeElement
  PROVE  QueueInv'
<1>1. /\ UNCHANGED <<queue, maxSize, frontBlock, tailBlock, nblocks, next, front, tail, size, cBlk, pPC>>
      /\ data' = [data EXCEPT ![cBlk][front[cBlk]] = NULL]
      /\ cPC = "take" /\ cPC' = "release" /\ cVal' = data[cBlk][front[cBlk]]
  BY DEF TakeElement, blockVars, consOwned, prodOwned, prodVars
<1>2. RingLength' = RingLength
  BY <1>1 DEF RingLength
<1>3. TypeOK /\ data \in [Blocks -> [Slots -> Vals \cup {NULL}]]
  BY DEF BlockInv, TypeOK, ListTypeOK
<1>4. ASSUME NEW b \in 1 .. nblocks
      PROVE  Same(b)
  <2>1. b \in Blocks /\ Queued(b)' = Queued(b)
    BY <1>1, <1>3, Basics DEF Queued
  <2>2. ASSUME NEW k \in 1 .. Queued(b)
        PROVE  ElementAt(b, SlotOf(b, k))' = ElementAt(b, SlotOf(b, k))
    <3> DEFINE i == SlotOf(b, k)
    <3>1. i \in 0 .. size[b] - 1
      BY <1>3, BlockIs
    <3>2. i' = i
      BY <1>1 DEF SlotOf
    <3>3. i \in Slots
      BY <1>3, <3>1, Basics
    <3> HIDE DEF i
    <3>4. ElementAt(b, i) = data[b][i]
      BY <1>1 DEF ElementAt
    <3>5. ElementAt(b, i)' = IF cBlk = b /\ front[b] = i THEN data[cBlk][front[cBlk]] ELSE data'[b][i]
      BY <1>1, <3>2 DEF ElementAt
    <3>6. cBlk # b \/ front[b] # i => data'[b][i] = data[b][i]
      BY <1>1, <1>3, <2>1, <3>3
    <3>7. ElementAt(b, i)' = ElementAt(b, i)
      BY <3>4, <3>5, <3>6
    <3> QED BY <3>7 DEF i
  <2>3. InBlock(b) = [k \in 1 .. Queued(b) |-> ElementAt(b, SlotOf(b, k))]
        /\ InBlock(b)' = [k \in 1 .. Queued(b)' |-> ElementAt(b, SlotOf(b, k))']
    BY DEF InBlock, SlotOf
  <2>4. InBlock(b)' = InBlock(b)
    BY <2>1, <2>2, <2>3, Zenon
  <2> QED BY <1>1, <2>4 DEF Same
<1>5. \A pos : \A b \in Used(pos) : b \in 1 .. nblocks
  BY RingBasics DEF Used, BlockInv
<1> QED BY <1>1, <1>2, <1>4, <1>5, QueueStays

LEMMA PublishNextTailQueue ==
  ASSUME BlockInv, BlockInv', QueueInv, PublishNextTail
  PROVE  QueueInv'
<1>1. /\ UNCHANGED <<queue, maxSize, frontBlock, tailBlock, nblocks, next, front, data, size, cBlk, cPC, cVal>>
      /\ tail' = [tail EXCEPT ![pBlk] = Succ(size[pBlk], @)]
      /\ pPC = "publishNext" /\ pPC' = "advance"
  BY DEF PublishNextTail, blockVars, consOwned, consVars, ProdGoto
<1>2. RingLength' = RingLength /\ RingLength \in Nat
  BY <1>1, RingBasics DEF RingLength, BlockInv
<1>3. ASSUME NEW pos \in [1 .. RingLength -> 0 .. RingLength - 1], RingWitness(pos), NEW b \in Used(pos)
      PROVE  Same(b)
  <2>1. pos[pBlk] = pos[tailBlock] + 1 /\ tailBlock \in 1 .. RingLength
    BY <1>1, <1>3 DEF RingWitness, ProducerPlace, RingShape
  <2>2. b \in 1 .. nblocks /\ b \in Blocks /\ pos[b] <= pos[tailBlock] /\ pos[tailBlock] \in Nat
    BY <1>2, <1>3, <2>1, RingBasics DEF Used, BlockInv
  <2>3. b # pBlk
    BY <2>1, <2>2
  <2>4. tail'[b] = tail[b]
    BY <1>1, <2>2, <2>3 DEF BlockInv, TypeOK, IndexTypeOK
  <2> QED BY <1>1, <2>2, <2>4, SameIf
<1> QED BY <1>1, <1>2, <1>3, QueueStays

LEMMA AllocateBlockQueue ==
  ASSUME BlockInv, BlockInv', QueueInv, AllocateBlock
  PROVE  QueueInv'
<1> DEFINE n == nblocks + 1
<1>1. /\ UNCHANGED <<queue, maxSize, frontBlock, tailBlock, front, cBlk, cPC, cVal>>
      /\ nblocks' = n /\ pPC = "alloc" /\ pPC' = "link"
      /\ \E v : size' = [size EXCEPT ![n] = v]
      /\ \E v : data' = [data EXCEPT ![n] = v]
      /\ \E v : tail' = [tail EXCEPT ![n] = v]
      /\ \E v : next' = [next EXCEPT ![n] = v]
  <2>1. data' = [data EXCEPT ![n] = [data[n] EXCEPT ![0] = pVal]]
    BY DEF AllocateBlock
  <2>2. \E v : data' = [data EXCEPT ![n] = v]
    BY <2>1
  <2>3. /\ \E v : size' = [size EXCEPT ![n] = v]
        /\ \E v : tail' = [tail EXCEPT ![n] = v]
        /\ \E v : next' = [next EXCEPT ![n] = v]
    BY DEF AllocateBlock
  <2> QED BY <2>2, <2>3 DEF AllocateBlock, consVars
<1>2. nblocks \in Nat /\ RingLength = nblocks /\ RingLength' = RingLength
  BY <1>1, Basics DEF RingLength, BlockInv
<1>3. ASSUME NEW b \in 1 .. nblocks
      PROVE  Same(b) /\ next'[b] = next[b]
  <2>1. b \in Blocks /\ b # n
    BY <1>2, Basics DEF BlockInv
  <2>2. size'[b] = size[b] /\ data'[b] = data[b] /\ tail'[b] = tail[b] /\ next'[b] = next[b]
    BY <1>1, <2>1 DEF BlockInv, TypeOK, ListTypeOK, IndexTypeOK
  <2> QED BY <1>1, <2>2, SameIf
<1>4. \A pos : \A b \in Used(pos) : b \in 1 .. nblocks
  BY <1>2 DEF Used
<1> QED BY <1>1, <1>2, <1>3, <1>4, QueueStays

LEMMA LinkBlockQueue ==
  ASSUME BlockInv, BlockInv', QueueInv, LinkBlock
  PROVE  QueueInv'
<1>1. /\ UNCHANGED <<queue, maxSize, frontBlock, tailBlock, nblocks, front, tail, size, data, cBlk, cPC, cVal>>
      /\ next' = [next EXCEPT ![tailBlock] = pBlk]
  BY DEF LinkBlock, consOwned, prodOwned, consVars
<1>2. PICK pos \in [1 .. RingLength -> 0 .. RingLength - 1] :
        RingWitness(pos) /\ \E start \in [1 .. RingLength -> 0 .. Len(queue)] : Segments(pos, start)
  BY DEF QueueInv
<1>3. PICK start \in [1 .. RingLength -> 0 .. Len(queue)] : Segments(pos, start)
  BY <1>2
<1>4. PICK pos2 \in [1 .. RingLength' -> 0 .. RingLength' - 1] :
        /\ RingWitness(pos2)'
        /\ RingLength' = RingLength + 1 /\ pBlk = RingLength + 1
        /\ pos2[pBlk] = pos[tailBlock] + 1
        /\ \A b \in 1 .. RingLength :
             pos2[b] = IF pos[b] <= pos[tailBlock] THEN pos[b] ELSE pos[b] + 1
  BY <1>2, LinkBlockMoves DEF BlockInv
<1>5. RingLength \in Nat /\ RingLength <= nblocks /\ tailBlock \in 1 .. RingLength
      /\ \A b \in 1 .. RingLength : pos[b] \in Nat /\ b \in 1 .. nblocks /\ b \in Blocks
  <2>1. RingLength \in Nat /\ RingLength <= nblocks /\ \A b \in 1 .. RingLength : b \in 1 .. nblocks /\ b \in Blocks
    BY RingBasics DEF BlockInv
  <2>2. tailBlock \in 1 .. RingLength
    BY <1>2 DEF RingWitness, RingShape
  <2> QED BY <2>1, <2>2
<1>6. ASSUME NEW b \in Used(pos)
      PROVE  pos2[b] = pos[b] /\ Same(b) /\ (b # tailBlock => next'[b] = next[b])
  <2>1. b \in 1 .. RingLength /\ pos[b] <= pos[tailBlock]
    BY DEF Used
  <2>2. b # tailBlock => next'[b] = next[b]
    BY <1>1, <1>5, <2>1 DEF BlockInv, TypeOK, ListTypeOK
  <2>3. Same(b)
    BY <1>1, <1>5, <2>1, SameIf
  <2> QED BY <1>4, <2>1, <2>2, <2>3
<1>7. ASSUME NEW b \in 1 .. RingLength', pos2[b] <= pos2[tailBlock]
      PROVE  b \in Used(pos)
  <2>1. pos2[tailBlock] = pos[tailBlock] /\ pos[tailBlock] \in Nat /\ pos2[pBlk] = pos[tailBlock] + 1
    BY <1>4, <1>5
  <2>2. b # pBlk
    BY <1>7, <2>1
  <2>3. b \in 1 .. RingLength
    BY <1>4, <1>5, <2>2
  <2>4. pos[b] <= pos[tailBlock]
    BY <1>4, <1>5, <1>7, <2>1, <2>3
  <2> QED BY <2>3, <2>4 DEF Used
<1>8. queue \in Seq(Vals) /\ RingLength <= RingLength'
  BY <1>4, <1>5 DEF QueueInv
<1> QED BY <1>1, <1>2, <1>3, <1>4, <1>6, <1>7, <1>8, SegmentsStay

(* The pieces keep their places when the front block, empty, is left behind. *)
LEMMA AdvanceFrontBlockQueue ==
  ASSUME BlockInv, BlockInv', QueueInv, AdvanceFrontBlock
  PROVE  QueueInv'
<1>1. /\ UNCHANGED <<queue, maxSize, tailBlock, nblocks, front, tail, size, data, next, cBlk, pPC>>
      /\ cPC = "advance" /\ cPC' = "take" /\ frontBlock' = cBlk
  BY DEF AdvanceFrontBlock, blockVars, prodOwned, prodVars, ConsGoto
<1>2. PICK pos \in [1 .. RingLength -> 0 .. RingLength - 1] :
        RingWitness(pos) /\ \E start \in [1 .. RingLength -> 0 .. Len(queue)] : Segments(pos, start)
  BY DEF QueueInv
<1>3. PICK start \in [1 .. RingLength -> 0 .. Len(queue)] : Segments(pos, start)
  BY <1>2
<1>4. PICK pos2 \in [1 .. RingLength' -> 0 .. RingLength' - 1] :
        /\ RingWitness(pos2)'
        /\ RingLength' = RingLength
        /\ \A b \in 1 .. RingLength : pos2[b] = IF pos[b] = 0 THEN RingLength - 1 ELSE pos[b] - 1
  BY <1>2, AdvanceFrontBlockMoves DEF BlockInv
<1>5. /\ RingLength \in Nat
      /\ \A b \in 1 .. RingLength : pos[b] \in Nat /\ pos[b] < RingLength /\ b \in 1 .. nblocks
  <2>1. RingLength \in Nat /\ \A b \in 1 .. RingLength : b \in 1 .. nblocks
    BY RingBasics DEF BlockInv
  <2> QED BY <2>1
<1>6. /\ cBlk \in 1 .. RingLength /\ pos[cBlk] = 1 /\ pos[tailBlock] >= 1 /\ front[frontBlock] = tail[frontBlock]
      /\ frontBlock \in 1 .. RingLength /\ tailBlock \in 1 .. RingLength /\ pos[frontBlock] = 0
      /\ \A b, c \in 1 .. RingLength : pos[b] = pos[c] => b = c
      /\ next[frontBlock] \in 1 .. RingLength
      /\ pos[next[frontBlock]] = IF pos[frontBlock] = RingLength - 1 THEN 0 ELSE pos[frontBlock] + 1
  BY <1>1, <1>2 DEF RingWitness, RingShape, ConsumerPlace
<1>7. next[frontBlock] = cBlk /\ frontBlock # tailBlock /\ frontBlock # cBlk
  BY <1>5, <1>6
<1>8. start[cBlk] = 0
  <2>1. frontBlock \in Used(pos) /\ start[next[frontBlock]] = start[frontBlock] + Queued(frontBlock)
        /\ start[frontBlock] = 0
    BY <1>3, <1>6, <1>7 DEF Segments, Used
  <2>2. Queued(frontBlock) = 0
    BY <1>5, <1>6, BlockIs DEF BlockInv
  <2> QED BY <1>7, <2>1, <2>2
<1>9. \A b \in Used(pos2)' : b \in Used(pos) /\ b # frontBlock /\ pos2[b] = pos[b] - 1 /\ pos[b] \in Nat
  <2> SUFFICES ASSUME NEW b \in 1 .. RingLength, pos2[b] <= pos2[tailBlock]
               PROVE  b \in Used(pos) /\ b # frontBlock /\ pos2[b] = pos[b] - 1 /\ pos[b] \in Nat
    BY <1>1, <1>4 DEF Used
  <2>1. pos2[tailBlock] = pos[tailBlock] - 1 /\ pos[tailBlock] < RingLength /\ pos[tailBlock] \in Nat
    BY <1>4, <1>5, <1>6
  <2>2. pos[b] # 0
    BY <1>4, <1>5, <2>1
  <2>3. pos2[b] = pos[b] - 1 /\ pos[b] \in Nat
    BY <1>4, <1>5, <2>2
  <2>4. pos[b] <= pos[tailBlock]
    BY <2>1, <2>3
  <2> QED BY <1>6, <2>2, <2>3, <2>4 DEF Used
<1>10. \A b \in 1 .. nblocks : Same(b) /\ Queued(b)' = Queued(b)
  BY <1>1, SameIf DEF Queued
<1>11. \A b \in Used(pos) : Holds(start, b)'
  <2> SUFFICES ASSUME NEW b \in Used(pos)
               PROVE  Holds(start, b)'
    OBVIOUS
  <2>1. Holds(start, b) /\ b \in 1 .. nblocks
    BY <1>3, <1>5 DEF Segments, Used
  <2>2. Queued(b)' = Queued(b) /\ InBlock(b)' = InBlock(b)
    BY <1>10, <2>1 DEF Same
  <2> QED BY <1>1, <2>1, <2>2 DEF Holds
<1>12. \A n : Capacity(n)' = Capacity(n)
  BY <1>1 DEF Capacity, FirstBlockSize
<1>13. \A b, c \in Used(pos2)' :
         /\ pos2[b] < pos2[c] <=> pos[b] < pos[c]
         /\ pos2[c] - pos2[b] = pos[c] - pos[b]
  <2> SUFFICES ASSUME NEW b \in Used(pos2)', NEW c \in Used(pos2)'
               PROVE  /\ pos2[b] < pos2[c] <=> pos[b] < pos[c]
                      /\ pos2[c] - pos2[b] = pos[c] - pos[b]
    OBVIOUS
  <2>1. /\ pos2[b] = pos[b] - 1 /\ pos[b] \in Nat
        /\ pos2[c] = pos[c] - 1 /\ pos[c] \in Nat
    BY <1>9
  <2> QED BY ONLY <2>1
<1>14. Segments(pos, start)
  BY <1>3
<1>15. Segments(pos2, start)'
  <2>1. start[frontBlock'] = 0 /\ start[tailBlock'] + Queued(tailBlock)' = Len(queue')
    BY <1>1, <1>5, <1>6, <1>8, <1>10, <1>14 DEF Segments
  <2>2. \A b \in Used(pos2)' :
          /\ Holds(start, b)'
          /\ b # tailBlock => start[next'[b]] = start[b] + Queued(b)'
          /\ b # tailBlock /\ b # frontBlock' => Queued(b)' = size'[b] - 1
    <3> SUFFICES ASSUME NEW b \in Used(pos2)'
                 PROVE  /\ Holds(start, b)'
                        /\ b # tailBlock => start[next'[b]] = start[b] + Queued(b)'
                        /\ b # tailBlock /\ b # frontBlock' => Queued(b)' = size'[b] - 1
      OBVIOUS
    <3>1. b \in Used(pos) /\ b # frontBlock /\ b \in 1 .. nblocks
      BY <1>5, <1>9 DEF Used
    <3>2. Queued(b)' = Queued(b) /\ size'[b] = size[b] /\ next' = next
      BY <1>1, <1>10, <3>1
    <3> QED BY <1>11, <1>14, <3>1, <3>2 DEF Segments
  <2>3. \A b, c \in Used(pos2)' :
          pos2[b] < pos2[c] =>
            /\ start[b] + Queued(b)' <= start[c]
            /\ start[c] - start[b] >= Capacity(pos2[c] - pos2[b])'
    <3> SUFFICES ASSUME NEW b \in Used(pos2)', NEW c \in Used(pos2)', pos2[b] < pos2[c]
                 PROVE  /\ start[b] + Queued(b)' <= start[c]
                        /\ start[c] - start[b] >= Capacity(pos2[c] - pos2[b])'
      OBVIOUS
    <3>1. b \in Used(pos) /\ c \in Used(pos) /\ b # frontBlock /\ b \in 1 .. nblocks
      BY <1>5, <1>9 DEF Used
    <3>2. pos[b] < pos[c] /\ Capacity(pos2[c] - pos2[b])' = Capacity(pos[c] - pos[b])
      BY <1>12, <1>13
    <3>3. /\ start[b] + Queued(b) <= start[c]
          /\ start[c] - start[b] >= Capacity(pos[c] - pos[b])
      BY <1>14, <3>1, <3>2 DEF Segments
    <3> QED BY <1>10, <3>1, <3>2, <3>3
  <2> QED BY <1>1, <2>1, <2>2, <2>3 DEF Segments
<1>16. start \in [1 .. RingLength' -> 0 .. Len(queue')] /\ queue' \in Seq(Vals)
  BY <1>1, <1>4 DEF QueueInv
<1> QED BY <1>4, <1>15, <1>16 DEF QueueInv

(* What n blocks hold, one by one. *)
LEMMA CapacityGrows ==
  ASSUME TypeOK, NEW n \in Nat
  PROVE  /\ Capacity(n) \in Nat /\ Capacity(1) = FirstBlockSize(maxSize) - 1
         /\ FirstBlockSize(maxSize) \in Nat /\ FirstBlockSize(maxSize) >= 2
         /\ Capacity(n + 1) = Capacity(n) + (FirstBlockSize(maxSize) - 1)
<1> DEFINE c == FirstBlockSize(maxSize) - 1
<1>1. FirstBlockSize(maxSize) \in 2 .. MAX_BLOCK_SIZE * 2
  BY FirstBlockBasics DEF TypeOK, ListTypeOK
<1>2. c \in Nat /\ FirstBlockSize(maxSize) \in Nat /\ FirstBlockSize(maxSize) >= 2
  BY <1>1, QueueAssumption DEF QueueAssumption
<1>3. Capacity(n) = n * c /\ Capacity(n + 1) = (n + 1) * c /\ Capacity(1) = 1 * c
  BY DEF Capacity
<1> HIDE DEF c
<1>4. n * c \in Nat /\ (n + 1) * c = n * c + c /\ 1 * c = c
  BY <1>2
<1> QED BY <1>2, <1>3, <1>4 DEF c

(* The block just filled becomes the last piece, of one element. *)
LEMMA AdvanceTailBlockQueue ==
  ASSUME BlockInv, BlockInv', QueueInv, CapacityInv, EnqueueInv, AdvanceTailBlock
  PROVE  QueueInv'
<1>1. /\ UNCHANGED <<maxSize, frontBlock, nblocks, next, front, tail, size, data, cBlk, cPC, cVal>>
      /\ queue' = Append(queue, pVal)
      /\ pPC = "advance" /\ pPC' = "idle" /\ tailBlock' = pBlk
  BY DEF AdvanceTailBlock, ProdReturn, blockVars, consOwned, consVars
<1>2. PICK pos \in [1 .. RingLength -> 0 .. RingLength - 1] :
        RingWitness(pos) /\ \E start \in [1 .. RingLength -> 0 .. Len(queue)] : Segments(pos, start)
  BY DEF QueueInv
<1>3. PICK start \in [1 .. RingLength -> 0 .. Len(queue)] : Segments(pos, start)
  BY <1>2
<1>4. TypeOK /\ TypeOK' /\ RingInv'
  BY DEF BlockInv
<1>5. /\ RingLength' = RingLength /\ RingLength \in Nat
      /\ \A b \in 1 .. RingLength : pos[b] \in Nat /\ pos[b] <= RingLength - 1 /\ b \in 1 .. nblocks
  <2>1. RingLength' = RingLength
    BY <1>1 DEF RingLength
  <2>2. RingLength \in Nat /\ \A b \in 1 .. RingLength : b \in 1 .. nblocks
    BY <1>4, RingBasics
  <2> QED BY <2>1, <2>2
<1>6. RingWitness(pos)'
  BY <1>1, <1>2, <1>4, <1>5, RingStays
<1>7. /\ pBlk \in 1 .. RingLength /\ tailBlock \in 1 .. RingLength /\ frontBlock \in 1 .. RingLength
      /\ pos[pBlk] = pos[tailBlock] + 1 /\ pos[frontBlock] = 0
      /\ next[tailBlock] = pBlk
      /\ \A b \in 1 .. RingLength : pos[b] # RingLength - 1 => next[b] \in 1 .. RingLength /\ pos[next[b]] = pos[b] + 1
  <2>1. RingShape(pos) /\ pos[pBlk] = pos[tailBlock] + 1
    BY <1>1, <1>2 DEF RingWitness, ProducerPlace
  <2>2. pBlk \in 1 .. RingLength
    BY <1>1, <1>4, RingBasics DEF BlockInv, ProducerInv
  <2>3. pos[tailBlock] < RingLength - 1 /\ tailBlock \in 1 .. RingLength /\ frontBlock \in 1 .. RingLength /\ pos[frontBlock] = 0
    <3>1. tailBlock \in 1 .. RingLength /\ frontBlock \in 1 .. RingLength /\ pos[frontBlock] = 0
      BY <2>1 DEF RingShape
    <3>2. pos[tailBlock] \in Nat /\ pos[pBlk] <= RingLength - 1
      BY <1>5, <2>2, <3>1
    <3> QED BY <1>5, <2>1, <3>1, <3>2
  <2>4. next[tailBlock] \in 1 .. RingLength /\ pos[next[tailBlock]] = pos[tailBlock] + 1
    BY <1>4, <2>1, <2>3, RingEnds
  <2>5. next[tailBlock] = pBlk
    BY <2>1, <2>2, <2>4 DEF RingShape
  <2> QED BY <2>1, <2>2, <2>3, <2>5 DEF RingShape
<1>8. Used(pos)' = Used(pos) \cup {pBlk} /\ tailBlock \in Used(pos) /\ pBlk \notin Used(pos) /\ pBlk # frontBlock
      /\ Used(pos) \subseteq 1 .. RingLength
  <2>1. \A b \in 1 .. RingLength : pos[b] <= pos[pBlk] <=> pos[b] <= pos[tailBlock] \/ b = pBlk
    <3> SUFFICES ASSUME NEW b \in 1 .. RingLength
                 PROVE  pos[b] <= pos[pBlk] <=> pos[b] <= pos[tailBlock] \/ b = pBlk
      OBVIOUS
    <3>1. pos[b] = pos[pBlk] => b = pBlk
      BY <1>2, <1>7 DEF RingWitness, RingShape
    <3>2. pos[b] \in Nat /\ pos[tailBlock] \in Nat /\ pos[pBlk] \in Nat
      BY <1>5, <1>7
    <3> QED BY <1>7, <3>1, <3>2
  <2>2. Used(pos)' = {b \in 1 .. RingLength : pos[b] <= pos[pBlk]}
    BY <1>1, <1>5 DEF Used
  <2>3. Used(pos)' = Used(pos) \cup {pBlk}
    BY <1>7, <2>1, <2>2 DEF Used
  <2>4. /\ tailBlock \in 1 .. RingLength /\ pos[tailBlock] \in Nat
        /\ pos[pBlk] = pos[tailBlock] + 1 /\ pBlk # frontBlock
    BY <1>5, <1>7
  <2>5. pos[tailBlock] <= pos[tailBlock] /\ ~ (pos[pBlk] <= pos[tailBlock])
    BY ONLY <2>4
  <2> QED BY ONLY <2>3, <2>4, <2>5 DEF Used
<1>9. \A b \in 1 .. RingLength : Queued(b)' = Queued(b) /\ InBlock(b)' = InBlock(b) /\ Queued(b) \in Nat /\ Queued(b) <= size[b] - 1
                                 /\ size[b] \in Nat
  <2> SUFFICES ASSUME NEW b \in 1 .. RingLength
               PROVE  Queued(b)' = Queued(b) /\ InBlock(b)' = InBlock(b) /\ Queued(b) \in Nat /\ Queued(b) <= size[b] - 1
                      /\ size[b] \in Nat
    OBVIOUS
  <2>1. Same(b)
    BY <1>1, <1>5, SameIf
  <2>2. Queued(b) \in Nat /\ Queued(b) <= size[b] - 1 /\ size[b] \in Nat
    BY <1>4, <1>5, BlockIs
  <2> QED BY <1>1, <2>1, <2>2 DEF Same, Queued
<1>10. Queued(pBlk) = 1 /\ InBlock(pBlk)[1] = pVal /\ pVal \in Vals
  <2>1. Queued(pBlk) = 1 /\ data[pBlk][front[pBlk]] = pVal
    BY <1>1 DEF EnqueueInv
  <2>2. pVal \in Vals /\ pBlk \in 1 .. nblocks
    BY <1>1 DEF BlockInv, ProducerInv
  <2>3. InBlock(pBlk)[1] = ElementAt(pBlk, SlotOf(pBlk, 1)) /\ SlotOf(pBlk, 1) = front[pBlk]
    BY <1>4, <2>1, <2>2, BlockIs
  <2>4. ~ (cPC = "release" /\ cBlk = pBlk)
    BY <1>8 DEF BlockInv, ConsumerInv
  <2> QED BY <2>1, <2>2, <2>3, <2>4 DEF ElementAt
<1>11. /\ queue \in Seq(Vals) /\ queue' \in Seq(Vals) /\ Len(queue) \in Nat /\ Len(queue') = Len(queue) + 1
       /\ \A i \in 1 .. Len(queue) : queue'[i] = queue[i]
       /\ queue'[Len(queue) + 1] = pVal
  <2>1. queue \in Seq(Vals)
    BY DEF QueueInv
  <2> QED BY <1>1, <1>10, <2>1
<1>12. tailBlock = frontBlock \/ Queued(tailBlock) = size[tailBlock] - 1
  BY <1>1 DEF EnqueueInv
<1>13. PICK s \in [1 .. RingLength -> 0 .. Len(queue) + 1] :
         /\ s[pBlk] = Len(queue)
         /\ \A b \in Used(pos) : s[b] = start[b] /\ start[b] \in Nat
  <2> DEFINE r == [start EXCEPT ![pBlk] = Len(queue)]
  <2>1. /\ r \in [1 .. RingLength -> 0 .. Len(queue) + 1] /\ r[pBlk] = Len(queue)
        /\ \A b \in Used(pos) : r[b] = start[b] /\ start[b] \in Nat
    <3>1. r \in [1 .. RingLength -> 0 .. Len(queue) + 1]
      <4>1. \A b \in 1 .. RingLength : start[b] \in 0 .. Len(queue) + 1
        BY <1>11
      <4>2. Len(queue) \in 0 .. Len(queue) + 1
        BY <1>11
      <4>3. r = [b \in 1 .. RingLength |-> IF b = pBlk THEN Len(queue) ELSE start[b]]
        OBVIOUS
      <4> HIDE DEF r
      <4> QED BY <4>1, <4>2, <4>3, Zenon
    <3>2. r[pBlk] = Len(queue)
      BY <1>7
    <3>3. \A b \in Used(pos) : r[b] = start[b] /\ start[b] \in Nat
      BY <1>8, <1>11
    <3> QED BY <3>1, <3>2, <3>3
  <2> QED BY <2>1
<1>14. Segments(pos, start)
  BY <1>3
<1>15. PICK p : p = pBlk
  OBVIOUS
<1>16. \A b \in Used(pos) \cup {p} : Holds(s, b)'
  <2>1. ASSUME NEW b \in Used(pos)
        PROVE  Holds(s, b)'
    <3>1. Holds(start, b) /\ Queued(b)' = Queued(b) /\ InBlock(b)' = InBlock(b) /\ Queued(b) \in Nat
      BY <1>8, <1>9, <1>14 DEF Segments
    <3>2. s[b] = start[b] /\ start[b] \in Nat
      BY <1>13
    <3>3. s[b] + Queued(b)' <= Len(queue')
      BY <1>11, <3>1, <3>2 DEF Holds
    <3>4. ASSUME NEW k \in 1 .. Queued(b)
          PROVE  queue'[s[b] + k] = InBlock(b)[k]
      <4>1. s[b] + k \in 1 .. Len(queue)
        BY <1>11, <3>1, <3>2 DEF Holds
      <4>2. queue[s[b] + k] = InBlock(b)[k]
        BY <3>1, <3>2 DEF Holds
      <4> QED BY <1>11, <4>1, <4>2
    <3> QED BY <3>1, <3>3, <3>4 DEF Holds
  <2>2. Holds(s, p)'
    <3>1. Queued(p)' = 1 /\ InBlock(p)' = InBlock(p)
      BY <1>7, <1>9, <1>10, <1>15
    <3>2. s[p] + 1 <= Len(queue')
      BY <1>11, <1>13, <1>15
    <3>3. \A k \in 1 .. 1 : queue'[s[p] + k] = InBlock(p)[k]
      <4>1. queue'[s[p] + 1] = InBlock(p)[1]
        BY <1>10, <1>11, <1>13, <1>15
      <4> QED BY <4>1
    <3> QED BY <3>1, <3>2, <3>3 DEF Holds
  <2> QED BY <2>1, <2>2
<1>17. \A b \in Used(pos) : b # tailBlock => next[b] \in Used(pos) /\ pos[b] < pos[tailBlock]
  <2> SUFFICES ASSUME NEW b \in Used(pos), b # tailBlock
               PROVE  next[b] \in Used(pos) /\ pos[b] < pos[tailBlock]
    OBVIOUS
  <2>1. b \in 1 .. RingLength /\ pos[b] <= pos[tailBlock] /\ pos[b] # pos[tailBlock]
    BY <1>2, <1>7 DEF Used, RingWitness, RingShape
  <2>2. pos[b] < pos[tailBlock] /\ pos[b] + 1 <= pos[tailBlock] /\ pos[b] # RingLength - 1
    <3>1. pos[b] \in Nat /\ pos[tailBlock] \in Nat /\ pos[tailBlock] <= RingLength - 1
      BY <1>5, <1>7, <2>1
    <3>2. RingLength \in Nat
      BY <1>5
    <3> QED BY ONLY <2>1, <3>1, <3>2, NextPlace
  <2> QED BY <1>7, <2>1, <2>2 DEF Used
<1>18. \A n \in Nat : Capacity(n)' = Capacity(n) /\ Capacity(n) \in Nat
  BY <1>1, <1>4, CapacityGrows DEF Capacity, FirstBlockSize
<1>19. \A b \in Used(pos) \cup {p} :
         /\ b # p => s[next[b]] = s[b] + Queued(b)
         /\ b # p /\ b # frontBlock => Queued(b) = size[b] - 1
  <2> SUFFICES ASSUME NEW b \in Used(pos)
               PROVE  /\ s[next[b]] = s[b] + Queued(b)
                      /\ b # frontBlock => Queued(b) = size[b] - 1
    BY <1>15
  <2>1. CASE b = tailBlock
    BY <1>7, <1>12, <1>13, <1>14, <2>1 DEF Segments
  <2>2. CASE b # tailBlock
    <3>1. start[next[b]] = start[b] + Queued(b) /\ (b # frontBlock => Queued(b) = size[b] - 1)
      BY <1>14, <2>2 DEF Segments
    <3> QED BY <1>13, <1>17, <2>2, <3>1
  <2> QED BY <2>1, <2>2
<1>20. ASSUME NEW b \in Used(pos), NEW c \in Used(pos) \cup {p}, pos[b] < pos[c]
       PROVE  /\ s[b] + Queued(b) <= s[c]
              /\ b # frontBlock => s[c] - s[b] >= Capacity(pos[c] - pos[b])
  <2>1. CASE c \in Used(pos)
    <3>1. /\ start[b] + Queued(b) <= start[c]
          /\ b # frontBlock => start[c] - start[b] >= Capacity(pos[c] - pos[b])
      BY <1>14, <1>20, <2>1 DEF Segments
    <3> QED BY <1>13, <2>1, <3>1
  <2>2. CASE c = p
    <3>1. s[c] = Len(queue) /\ s[b] = start[b] /\ start[b] \in Nat /\ pos[c] = pos[tailBlock] + 1
      BY <1>7, <1>13, <1>15, <2>2
    <3>2. start[b] + Queued(b) <= Len(queue)
      BY <1>14 DEF Segments, Holds
    <3>3. ASSUME b # frontBlock
          PROVE  Len(queue) - start[b] >= Capacity(pos[c] - pos[b])
      <4>1. Queued(b) = size[b] - 1 /\ size[b] >= FirstBlockSize(maxSize) /\ size[b] \in Nat /\ b \in 1 .. RingLength
        BY <1>5, <1>8, <1>9, <1>15, <1>19, <3>3 DEF CapacityInv
      <4>2. CASE b = tailBlock
        <5>1. pos[c] - pos[b] = 1
          BY <1>5, <1>7, <3>1, <4>2
        <5>2. Capacity(1) = FirstBlockSize(maxSize) - 1 /\ FirstBlockSize(maxSize) \in Nat
          BY <1>4, CapacityGrows
        <5>3. /\ Queued(b) = size[b] - 1 /\ size[b] >= FirstBlockSize(maxSize) /\ size[b] \in Nat
              /\ start[b] \in Nat /\ start[b] + Queued(b) <= Len(queue) /\ Len(queue) \in Nat
          BY <1>11, <3>1, <3>2, <4>1
        <5>4. Len(queue) - start[b] >= FirstBlockSize(maxSize) - 1
          BY ONLY <5>2, <5>3
        <5> QED BY ONLY <5>1, <5>2, <5>4
      <4>3. CASE b # tailBlock
        <5>1. pos[b] < pos[tailBlock] /\ pos[b] \in Nat /\ pos[tailBlock] \in Nat
          BY <1>5, <1>7, <1>17, <4>1, <4>3
        <5>2. PICK n \in Nat : n = pos[tailBlock] - pos[b]
          BY <5>1
        <5>3. pos[c] - pos[b] = n + 1
          BY <3>1, <5>1, <5>2
        <5>4. start[tailBlock] - start[b] >= Capacity(n)
          BY <1>8, <1>14, <3>3, <5>1, <5>2 DEF Segments
        <5>5. tailBlock # frontBlock
          <6>1. pos[frontBlock] = 0
            BY <1>7
          <6> QED BY ONLY <5>1, <6>1
        <5>6. Queued(tailBlock) = size[tailBlock] - 1 /\ size[tailBlock] >= FirstBlockSize(maxSize) /\ size[tailBlock] \in Nat
          BY <1>5, <1>7, <1>9, <1>12, <5>5 DEF CapacityInv
        <5>7. start[tailBlock] + Queued(tailBlock) = Len(queue) /\ start[tailBlock] \in Nat
          BY <1>8, <1>13, <1>14 DEF Segments
        <5>8. Capacity(n + 1) = Capacity(n) + (FirstBlockSize(maxSize) - 1) /\ Capacity(n) \in Nat /\ FirstBlockSize(maxSize) \in Nat
          BY <1>4, CapacityGrows
        <5>9. /\ start[b] \in Nat /\ Len(queue) \in Nat
              /\ Len(queue) = start[tailBlock] + (size[tailBlock] - 1)
              /\ Capacity(pos[c] - pos[b]) = Capacity(n) + (FirstBlockSize(maxSize) - 1)
          BY <1>11, <3>1, <5>3, <5>6, <5>7, <5>8
        <5>10. Len(queue) - start[b] >= Capacity(n) + (FirstBlockSize(maxSize) - 1)
          <6> DEFINE F == FirstBlockSize(maxSize)
                     C == Capacity(n)
          <6>1. /\ F \in Nat /\ C \in Nat /\ size[tailBlock] >= F /\ start[tailBlock] - start[b] >= C
                /\ size[tailBlock] \in Nat /\ start[tailBlock] \in Nat /\ start[b] \in Nat
                /\ Len(queue) = start[tailBlock] + (size[tailBlock] - 1)
            BY <5>4, <5>6, <5>7, <5>8, <5>9
          <6> HIDE DEF F, C
          <6>2. Len(queue) - start[b] >= C + (F - 1)
            BY ONLY <6>1
          <6> QED BY <6>2 DEF F, C
        <5> QED BY <5>9, <5>10
      <4> QED BY <4>2, <4>3
    <3> QED BY <3>1, <3>2, <3>3
  <2> QED BY <2>1, <2>2
<1>21. \A c \in Used(pos) : ~ (pos[p] < pos[c])
  <2> SUFFICES ASSUME NEW c \in Used(pos)
               PROVE  ~ (pos[p] < pos[c])
    OBVIOUS
  <2>1. c \in 1 .. RingLength /\ pos[c] <= pos[tailBlock] /\ pos[c] \in Nat /\ pos[tailBlock] \in Nat
    BY <1>5, <1>7 DEF Used
  <2> QED BY <1>7, <1>15, <2>1
<1>22. Segments(pos, s)'
  <2>1. s[frontBlock'] = 0 /\ s[tailBlock'] + Queued(p)' = Len(queue') /\ tailBlock' = p
    <3>1. frontBlock \in Used(pos)
      BY <1>5, <1>7 DEF Used
    <3> QED BY <1>1, <1>7, <1>9, <1>10, <1>11, <1>13, <1>14, <1>15, <3>1 DEF Segments
  <2>2. \A b \in Used(pos) \cup {p} :
          /\ b # tailBlock' => s[next'[b]] = s[b] + Queued(b)'
          /\ b # tailBlock' /\ b # frontBlock' => Queued(b)' = size'[b] - 1
    BY <1>1, <1>7, <1>8, <1>9, <1>15, <1>19
  <2>3. \A b, c \in Used(pos) \cup {p} :
          pos[b] < pos[c] =>
            /\ s[b] + Queued(b)' <= s[c]
            /\ b # frontBlock' => s[c] - s[b] >= Capacity(pos[c] - pos[b])'
    <3> SUFFICES ASSUME NEW b \in Used(pos) \cup {p}, NEW c \in Used(pos) \cup {p}, pos[b] < pos[c]
                 PROVE  /\ s[b] + Queued(b)' <= s[c]
                        /\ b # frontBlock' => s[c] - s[b] >= Capacity(pos[c] - pos[b])'
      OBVIOUS
    <3>1. b \in Used(pos) /\ b \in 1 .. RingLength /\ c \in 1 .. RingLength
      <4>1. b # p \/ c # p
        <5>1. pos[p] \in Nat
          BY <1>5, <1>7, <1>15
        <5>2. ~ (pos[p] < pos[p])
          BY <5>1
        <5> QED BY <5>2
      <4>2. b \in Used(pos)
        BY <1>21, <4>1
      <4> QED BY <1>7, <1>8, <1>15, <4>2
    <3>2. /\ s[b] + Queued(b) <= s[c]
          /\ b # frontBlock => s[c] - s[b] >= Capacity(pos[c] - pos[b])
      BY <1>20, <3>1
    <3>3. pos[c] - pos[b] \in Nat
      <4>1. pos[b] \in Nat /\ pos[c] \in Nat
        BY <1>5, <3>1
      <4> QED BY <4>1
    <3>4. Capacity(pos[c] - pos[b])' = Capacity(pos[c] - pos[b])
      BY <1>18, <3>3
    <3> QED BY <1>1, <1>9, <3>1, <3>2, <3>4
  <2>4. Used(pos)' = Used(pos) \cup {p}
    BY <1>8, <1>15
  <2> QED BY <1>16, <2>1, <2>2, <2>3, <2>4 DEF Segments
<1>23. s \in [1 .. RingLength' -> 0 .. Len(queue')] /\ pos \in [1 .. RingLength' -> 0 .. RingLength' - 1]
  BY <1>5, <1>11
<1> QED BY <1>6, <1>11, <1>22, <1>23 DEF QueueInv

(* The slot at tail becomes the last of its block. *)
LEMMA OneMore ==
  ASSUME NEW s \in Nat, NEW f \in 0 .. s - 1, NEW t \in 0 .. s - 1, Succ(s, t) # f
  PROVE  /\ Distance(s, f, Succ(s, t)) = Distance(s, f, t) + 1
         /\ (IF f + Distance(s, f, t) < s THEN f + Distance(s, f, t) ELSE f + Distance(s, f, t) - s) = t
BY DEF Distance, Succ

(* The tail block gets one element more, the last of the queue. *)
LEMMA PublishTailQueue ==
  ASSUME BlockInv, BlockInv', QueueInv, EnqueueInv, PublishTail
  PROVE  QueueInv'
<1>1. /\ UNCHANGED <<maxSize, frontBlock, tailBlock, nblocks, next, front, size, data, cBlk, cPC, cVal>>
      /\ queue' = Append(queue, pVal)
      /\ tail' = [tail EXCEPT ![pBlk] = Succ(size[pBlk], @)]
      /\ pPC = "publish" /\ pPC' = "idle"
  BY DEF PublishTail, ProdReturn, blockVars, consOwned, consVars
<1>2. PICK pos \in [1 .. RingLength -> 0 .. RingLength - 1] :
        RingWitness(pos) /\ \E start \in [1 .. RingLength -> 0 .. Len(queue)] : Segments(pos, start)
  BY DEF QueueInv
<1>3. PICK start \in [1 .. RingLength -> 0 .. Len(queue)] : Segments(pos, start)
  BY <1>2
<1>4. TypeOK /\ TypeOK' /\ RingInv' /\ ShadowInv /\ ProducerInv /\ ConsumerInv
  BY DEF BlockInv
<1>5. /\ RingLength' = RingLength /\ RingLength \in Nat
      /\ \A b \in 1 .. RingLength : pos[b] \in Nat /\ pos[b] <= RingLength - 1 /\ b \in 1 .. nblocks /\ b \in Blocks
  <2>1. RingLength' = RingLength
    BY <1>1 DEF RingLength
  <2>2. RingLength \in Nat /\ \A b \in 1 .. RingLength : b \in 1 .. nblocks /\ b \in Blocks
    BY <1>4, RingBasics
  <2> QED BY <2>1, <2>2
<1>6. RingWitness(pos)'
  BY <1>1, <1>2, <1>4, <1>5, RingStays
<1>7. pBlk = tailBlock /\ tailBlock \in 1 .. RingLength /\ pVal \in Vals
  BY <1>1, <1>2, <1>4 DEF ProducerInv, RingWitness, RingShape
<1>8. PICK p \in 1 .. RingLength : p = tailBlock
  BY <1>7
<1>9. Used(pos)' = Used(pos) /\ Used(pos) \subseteq 1 .. RingLength /\ p \in Used(pos)
  BY <1>1, <1>5, <1>8 DEF Used
<1>10. \A b \in 1 .. RingLength : Queued(b) \in Nat
  BY <1>4, <1>5, BlockIs
<1>11. \A b \in 1 .. RingLength : b # p => Queued(b)' = Queued(b) /\ InBlock(b)' = InBlock(b)
  <2> SUFFICES ASSUME NEW b \in 1 .. RingLength, b # p
               PROVE  Queued(b)' = Queued(b) /\ InBlock(b)' = InBlock(b)
    OBVIOUS
  <2>1. tail'[b] = tail[b]
    BY <1>1, <1>5, <1>7, <1>8 DEF TypeOK, IndexTypeOK
  <2>2. Same(b)
    BY <1>1, <1>5, <2>1, SameIf
  <2> QED BY <1>1, <2>1, <2>2 DEF Same, Queued
<1>12. /\ size[p] \in Nat /\ front[p] \in 0 .. size[p] - 1 /\ tail[p] \in 0 .. size[p] - 1
       /\ Succ(size[p], tail[p]) # front[p] /\ tail'[p] = Succ(size[p], tail[p])
       /\ data[p][tail[p]] = pVal
  <2>1. p \in 1 .. nblocks /\ p \in Blocks /\ p = pBlk
    BY <1>5, <1>7, <1>8
  <2>2. Succ(size[p], tail[p]) # front[p]
    BY <1>1, <1>4, <2>1, IndexTests DEF ProducerInv
  <2>3. tail'[p] = Succ(size[p], tail[p])
    BY <1>1, <1>4, <2>1 DEF TypeOK, IndexTypeOK
  <2>4. data[p][tail[p]] = pVal
    BY <1>1, <2>1 DEF EnqueueInv
  <2> QED BY <1>4, <2>1, <2>2, <2>3, <2>4, Basics
<1>13. Queued(p) = Distance(size[p], front[p], tail[p]) /\ Queued(p)' = Distance(size[p], front[p], tail'[p])
  BY <1>1 DEF Queued, Distance
<1>14. Queued(p)' = Queued(p) + 1 /\ SlotOf(p, Queued(p) + 1) = tail[p]
  <2>1. /\ Distance(size[p], front[p], Succ(size[p], tail[p])) = Queued(p) + 1
        /\ (IF front[p] + Queued(p) < size[p] THEN front[p] + Queued(p) ELSE front[p] + Queued(p) - size[p]) = tail[p]
    BY <1>12, <1>13, OneMore
  <2>2. front[p] + (Queued(p) + 1) - 1 = front[p] + Queued(p) /\ front[p] \in Nat
    BY <1>8, <1>10, <1>12
  <2>3. Queued(p)' = Queued(p) + 1
    BY <1>12, <1>13, <2>1
  <2>4. SlotOf(p, Queued(p) + 1) = IF front[p] + Queued(p) < size[p] THEN front[p] + Queued(p) ELSE front[p] + Queued(p) - size[p]
    <3> DEFINE i == front[p] + (Queued(p) + 1) - 1
    <3>1. SlotOf(p, Queued(p) + 1) = IF i < size[p] THEN i ELSE i - size[p]
      BY DEF SlotOf
    <3> HIDE DEF i
    <3>2. i = front[p] + Queued(p) /\ Queued(p) \in Nat /\ front[p] \in Nat
      BY <1>8, <1>10, <2>2 DEF i
    <3>3. (front[p] + Queued(p)) - size[p] = front[p] + Queued(p) - size[p]
      BY <1>12, <3>2
    <3> QED BY <3>1, <3>2, <3>3
  <2> QED BY <2>1, <2>3, <2>4
<1>15. \A k \in 1 .. Queued(p) + 1 : InBlock(p)'[k] = IF k = Queued(p) + 1 THEN pVal ELSE InBlock(p)[k]
  <2> SUFFICES ASSUME NEW k \in 1 .. Queued(p) + 1
               PROVE  InBlock(p)'[k] = IF k = Queued(p) + 1 THEN pVal ELSE InBlock(p)[k]
    OBVIOUS
  <2>1. InBlock(p)'[k] = ElementAt(p, SlotOf(p, k))
    <3>1. InBlock(p)' = [i \in 1 .. Queued(p) + 1 |-> ElementAt(p, SlotOf(p, i))]
      BY <1>1, <1>14 DEF InBlock, SlotOf, ElementAt
    <3> QED BY <3>1
  <2>2. CASE k = Queued(p) + 1
    <3>1. ElementAt(p, tail[p]) = data[p][tail[p]]
      BY <1>4 DEF ElementAt, ConsumerInv
    <3> QED BY <1>12, <1>14, <2>1, <2>2, <3>1
  <2>3. CASE k # Queued(p) + 1
    <3>1. k \in 1 .. Queued(p)
      BY <1>8, <1>10, <2>3
    <3>2. InBlock(p)[k] = ElementAt(p, SlotOf(p, k))
      BY <1>4, <1>5, <1>8, <3>1, BlockIs
    <3> QED BY <2>1, <2>3, <3>2
  <2> QED BY <2>2, <2>3
<1>16. /\ queue \in Seq(Vals) /\ queue' \in Seq(Vals) /\ Len(queue) \in Nat /\ Len(queue') = Len(queue) + 1
       /\ \A i \in 1 .. Len(queue) : queue'[i] = queue[i]
       /\ queue'[Len(queue) + 1] = pVal
  <2>1. queue \in Seq(Vals)
    BY DEF QueueInv
  <2> QED BY <1>1, <1>7, <2>1
<1>17. Segments(pos, start) /\ \A b \in Used(pos) : start[b] \in Nat
  BY <1>3, <1>9, <1>16
<1>18. start[p] + Queued(p) = Len(queue)
  BY <1>8, <1>17 DEF Segments
<1>19. ASSUME NEW b \in Used(pos)
       PROVE  Holds(start, b)'
  <2>1. b \in 1 .. RingLength /\ Holds(start, b) /\ start[b] \in Nat /\ Queued(b) \in Nat
    BY <1>9, <1>10, <1>17 DEF Segments
  <2>2. ASSUME NEW k \in 1 .. Queued(b)
        PROVE  queue'[start[b] + k] = InBlock(b)[k]
    <3>1. start[b] + k \in 1 .. Len(queue)
      BY <1>16, <2>1 DEF Holds
    <3> QED BY <1>16, <2>1, <3>1 DEF Holds
  <2>3. CASE b # p
    <3>1. Queued(b)' = Queued(b) /\ InBlock(b)' = InBlock(b) /\ start[b] + Queued(b) <= Len(queue')
      BY <1>11, <1>16, <2>1, <2>3 DEF Holds
    <3> QED BY <2>2, <3>1 DEF Holds
  <2>4. CASE b = p
    <3>1. start[b] + Queued(b)' <= Len(queue')
      BY <1>14, <1>16, <1>18, <2>1, <2>4
    <3>2. ASSUME NEW k \in 1 .. Queued(b) + 1
          PROVE  queue'[start[b] + k] = InBlock(b)'[k]
      <4>1. CASE k = Queued(b) + 1
        <5>1. start[b] + k = Len(queue) + 1
          <6>1. /\ start[b] + Queued(b) = Len(queue) /\ start[b] \in Nat
                /\ Queued(b) \in Nat /\ Len(queue) \in Nat
            BY <1>16, <1>18, <2>1, <2>4
          <6> QED BY ONLY <4>1, <6>1
        <5> QED BY <1>15, <1>16, <2>4, <4>1, <5>1
      <4>2. CASE k # Queued(b) + 1
        <5>1. k \in 1 .. Queued(b)
          BY <2>1, <4>2
        <5> QED BY <1>15, <2>2, <2>4, <4>2, <5>1
      <4> QED BY <4>1, <4>2
    <3> QED BY <1>14, <2>4, <3>1, <3>2 DEF Holds
  <2> QED BY <2>3, <2>4
<1>20. \A n : Capacity(n)' = Capacity(n)
  BY <1>1 DEF Capacity, FirstBlockSize
<1>21. Segments(pos, start)'
  <2>1. start[frontBlock'] = 0 /\ start[tailBlock'] + Queued(p)' = Len(queue') /\ tailBlock' = p
    <3>1. start[p] \in Nat /\ Queued(p) \in Nat
      BY <1>9, <1>10, <1>17
    <3> QED BY <1>1, <1>8, <1>14, <1>16, <1>17, <1>18, <3>1 DEF Segments
  <2>2. \A b \in Used(pos) :
          /\ b # tailBlock' => start[next'[b]] = start[b] + Queued(b)'
          /\ b # tailBlock' /\ b # frontBlock' => Queued(b)' = size'[b] - 1
    BY <1>1, <1>8, <1>9, <1>11, <1>17 DEF Segments
  <2>3. \A b, c \in Used(pos) :
          pos[b] < pos[c] =>
            /\ start[b] + Queued(b)' <= start[c]
            /\ b # frontBlock' => start[c] - start[b] >= Capacity(pos[c] - pos[b])'
    <3> SUFFICES ASSUME NEW b \in Used(pos), NEW c \in Used(pos), pos[b] < pos[c]
                 PROVE  /\ start[b] + Queued(b)' <= start[c]
                        /\ b # frontBlock' => start[c] - start[b] >= Capacity(pos[c] - pos[b])'
      OBVIOUS
    <3>1. b # p /\ b \in 1 .. RingLength
      <4>1. pos[c] <= pos[p] /\ pos[c] \in Nat /\ pos[p] \in Nat /\ b \in 1 .. RingLength
        BY <1>5, <1>8 DEF Used
      <4> QED BY <4>1
    <3> QED BY <1>1, <1>11, <1>17, <1>20, <3>1 DEF Segments
  <2> QED BY <1>9, <1>19, <2>1, <2>2, <2>3 DEF Segments
<1>22. start \in [1 .. RingLength' -> 0 .. Len(queue')]
  <2>1. \A b \in 1 .. RingLength : start[b] \in 0 .. Len(queue')
    BY <1>16
  <2> QED BY <1>5, <2>1
<1>23. pos \in [1 .. RingLength' -> 0 .. RingLength' - 1]
  BY <1>5
<1> QED BY <1>6, <1>16, <1>21, <1>22, <1>23 DEF QueueInv

(* The slot at front was the first of its block. *)
LEMMA OneLess ==
  ASSUME NEW s \in Nat, NEW f \in 0 .. s - 1, NEW t \in 0 .. s - 1, f # t
  PROVE  /\ Distance(s, Succ(s, f), t) = Distance(s, f, t) - 1
         /\ \A k \in 1 .. Distance(s, f, t) - 1 :
              (IF Succ(s, f) + (k - 1) < s THEN Succ(s, f) + (k - 1) ELSE (Succ(s, f) + (k - 1)) - s)
                = (IF f + k < s THEN f + k ELSE (f + k) - s)
BY DEF Distance, Succ

(* The front block loses its first element, which is the first of the queue. *)
LEMMA ReleaseSlotQueue ==
  ASSUME BlockInv, BlockInv', QueueInv, ReleaseSlot
  PROVE  QueueInv'
<1>1. /\ UNCHANGED <<maxSize, frontBlock, tailBlock, nblocks, next, tail, size, data, pPC>>
      /\ queue' = Tail(queue)
      /\ front' = [front EXCEPT ![cBlk] = Succ(size[cBlk], @)]
      /\ cPC = "release" /\ cPC' = "idle"
  BY DEF ReleaseSlot, ConsReturn, blockVars, prodOwned, prodVars
<1>2. PICK pos \in [1 .. RingLength -> 0 .. RingLength - 1] :
        RingWitness(pos) /\ \E start \in [1 .. RingLength -> 0 .. Len(queue)] : Segments(pos, start)
  BY DEF QueueInv
<1>3. PICK start \in [1 .. RingLength -> 0 .. Len(queue)] : Segments(pos, start)
  BY <1>2
<1>4. TypeOK /\ TypeOK' /\ RingInv' /\ ConsumerInv
  BY DEF BlockInv
<1>5. /\ RingLength' = RingLength /\ RingLength \in Nat
      /\ \A b \in 1 .. RingLength : pos[b] \in Nat /\ pos[b] <= RingLength - 1 /\ b \in 1 .. nblocks /\ b \in Blocks
  <2>1. RingLength' = RingLength
    BY <1>1 DEF RingLength
  <2>2. RingLength \in Nat /\ \A b \in 1 .. RingLength : b \in 1 .. nblocks /\ b \in Blocks
    BY <1>4, RingBasics
  <2> QED BY <2>1, <2>2
<1>6. RingWitness(pos)'
  BY <1>1, <1>2, <1>4, <1>5, RingStays
<1>7. /\ cBlk = frontBlock /\ frontBlock \in 1 .. RingLength /\ tailBlock \in 1 .. RingLength
      /\ pos[frontBlock] = 0 /\ front[frontBlock] # tail[frontBlock]
      /\ \A b, c \in 1 .. RingLength : pos[b] = pos[c] => b = c
      /\ \A b \in 1 .. RingLength : pos[b] # RingLength - 1 => next[b] \in 1 .. RingLength /\ pos[next[b]] = pos[b] + 1
  BY <1>1, <1>2, <1>4 DEF ConsumerInv, RingWitness, RingShape
<1>8. PICK p \in 1 .. RingLength : p = frontBlock
  BY <1>7
<1>9. /\ Used(pos)' = Used(pos) /\ Used(pos) \subseteq 1 .. RingLength /\ p \in Used(pos) /\ tailBlock \in Used(pos)
      /\ \A b \in Used(pos) : b # p => pos[p] < pos[b]
  <2>1. ASSUME NEW b \in 1 .. RingLength, b # p
        PROVE  pos[p] < pos[b]
    <3>1. pos[b] # 0 /\ pos[b] \in Nat /\ pos[p] = 0
      BY <1>5, <1>7, <1>8, <2>1
    <3> QED BY <3>1
  <2>2. pos[p] = 0 /\ pos[tailBlock] \in Nat
    BY <1>5, <1>7, <1>8
  <2> QED BY <1>1, <1>5, <1>7, <1>8, <2>1, <2>2 DEF Used
<1>10. \A b \in 1 .. RingLength : Queued(b) \in Nat
  BY <1>4, <1>5, BlockIs
<1>11. \A b \in 1 .. RingLength : b # p => Queued(b)' = Queued(b) /\ InBlock(b)' = InBlock(b)
  <2> SUFFICES ASSUME NEW b \in 1 .. RingLength, b # p
               PROVE  Queued(b)' = Queued(b) /\ InBlock(b)' = InBlock(b)
    OBVIOUS
  <2>1. front'[b] = front[b] /\ b # cBlk
    BY <1>1, <1>5, <1>7, <1>8 DEF TypeOK, IndexTypeOK
  <2>2. Same(b)
    BY <1>1, <1>5, <2>1, SameIf
  <2> QED BY <1>1, <2>1, <2>2 DEF Same, Queued
<1>12. /\ size[p] \in Nat /\ front[p] \in 0 .. size[p] - 1 /\ tail[p] \in 0 .. size[p] - 1
       /\ front[p] # tail[p] /\ front'[p] = Succ(size[p], front[p])
  <2>1. p \in 1 .. nblocks /\ p \in Blocks /\ p = cBlk
    BY <1>5, <1>7, <1>8
  <2>2. front'[p] = Succ(size[p], front[p])
    BY <1>1, <1>4, <2>1 DEF TypeOK, IndexTypeOK
  <2> QED BY <1>4, <1>7, <1>8, <2>1, <2>2, Basics
<1>13. Queued(p) = Distance(size[p], front[p], tail[p]) /\ Queued(p)' = Distance(size[p], front'[p], tail[p])
  BY <1>1 DEF Queued, Distance
<1>14. PICK m \in Nat : m = Queued(p) /\ m >= 1 /\ Queued(p)' = m - 1 /\ m - 1 \in Nat
  <2>1. Queued(p) # 0
    BY <1>4, <1>5, <1>8, <1>12, BlockIs
  <2>2. Queued(p)' = Queued(p) - 1
    BY <1>12, <1>13, OneLess
  <2>3. Queued(p) \in Nat
    BY <1>8, <1>10
  <2> QED BY <2>1, <2>2, <2>3
<1>15. \A k \in 1 .. m - 1 : InBlock(p)'[k] = InBlock(p)[k + 1]
  <2> SUFFICES ASSUME NEW k \in 1 .. m - 1
               PROVE  InBlock(p)'[k] = InBlock(p)[k + 1]
    OBVIOUS
  <2>1. k + 1 \in 1 .. m /\ k + 1 # 1 /\ k \in Nat
    BY <1>14
  <2>2. InBlock(p)[k + 1] = ElementAt(p, SlotOf(p, k + 1)) /\ SlotOf(p, k + 1) # front[p]
    BY <1>4, <1>5, <1>8, <1>14, <2>1, BlockIs
  <2>3. InBlock(p)[k + 1] = data[p][SlotOf(p, k + 1)]
    BY <2>2 DEF ElementAt
  <2> DEFINE i == Succ(size[p], front[p]) + (k - 1)
             j == IF i < size[p] THEN i ELSE i - size[p]
  <2>4. InBlock(p)'[k] = data[p][j]
    <3>1. InBlock(p)' = [n \in 1 .. m - 1 |->
                           LET x == Succ(size[p], front[p]) + (n - 1)
                           IN  data[p][IF x < size[p] THEN x ELSE x - size[p]]]
      BY <1>1, <1>12, <1>14 DEF InBlock, ElementAt
    <3> QED BY <3>1
  <2>5. j = IF front[p] + k < size[p] THEN front[p] + k ELSE (front[p] + k) - size[p]
    <3>1. k \in 1 .. Distance(size[p], front[p], tail[p]) - 1
      BY <1>13, <1>14
    <3> QED BY ONLY <1>12, <3>1, OneLess
  <2>6. SlotOf(p, k + 1) = IF front[p] + k < size[p] THEN front[p] + k ELSE (front[p] + k) - size[p]
    <3>1. front[p] + (k + 1) - 1 = front[p] + k
      BY <1>12, <2>1
    <3> QED BY <3>1 DEF SlotOf
  <2> QED BY <2>3, <2>4, <2>5, <2>6
<1>17. Segments(pos, start) /\ (\A b \in Used(pos) : start[b] \in Nat) /\ start[p] = 0
  <2>1. Segments(pos, start) /\ Len(queue) \in Nat
    BY <1>3 DEF QueueInv
  <2> QED BY <1>8, <1>9, <2>1 DEF Segments
<1>16. /\ queue \in Seq(Vals) /\ queue' \in Seq(Vals) /\ Len(queue) \in Nat /\ Len(queue') = Len(queue) - 1
       /\ Len(queue) >= 1
       /\ \A i \in 1 .. Len(queue) - 1 : queue'[i] = queue[i + 1]
  <2>1. queue \in Seq(Vals)
    BY DEF QueueInv
  <2>2. start[p] + Queued(p) <= Len(queue)
    BY <1>9, <1>17 DEF Segments, Holds
  <2>3. Len(queue) \in Nat /\ Len(queue) >= 1 /\ queue # <<>>
    BY <1>14, <1>17, <2>1, <2>2
  <2> QED BY <1>1, <2>1, <2>3
<1>18. \A b \in Used(pos) : b # p => start[b] >= 1 /\ m <= start[b]
  BY <1>9, <1>14, <1>17 DEF Segments
<1>19. PICK s \in [1 .. RingLength -> 0 .. Len(queue) - 1] :
         s[p] = 0 /\ \A b \in Used(pos) : b # p => s[b] = start[b] - 1
  <2> DEFINE r == [b \in 1 .. RingLength |-> IF b = p \/ start[b] = 0 THEN 0 ELSE start[b] - 1]
  <2>1. \A b \in 1 .. RingLength : (IF b = p \/ start[b] = 0 THEN 0 ELSE start[b] - 1) \in 0 .. Len(queue) - 1
    <3> SUFFICES ASSUME NEW b \in 1 .. RingLength
                 PROVE  (IF b = p \/ start[b] = 0 THEN 0 ELSE start[b] - 1) \in 0 .. Len(queue) - 1
      OBVIOUS
    <3>1. start[b] \in 0 .. Len(queue)
      BY <1>16
    <3> QED BY <1>16, <3>1
  <2>2. r \in [1 .. RingLength -> 0 .. Len(queue) - 1]
    BY <2>1
  <2>3. r[p] = 0 /\ \A b \in Used(pos) : b # p => r[b] = start[b] - 1
    <3>1. \A b \in Used(pos) : b # p => start[b] # 0
      BY <1>17, <1>18
    <3> QED BY <1>8, <1>9, <3>1
  <2> QED BY <2>2, <2>3
<1>20. ASSUME NEW b \in Used(pos)
       PROVE  Holds(s, b)'
  <2>1. b \in 1 .. RingLength /\ Holds(start, b) /\ start[b] \in Nat /\ Queued(b) \in Nat
    BY <1>9, <1>10, <1>17 DEF Segments
  <2>2. CASE b # p
    <3>1. Queued(b)' = Queued(b) /\ InBlock(b)' = InBlock(b) /\ s[b] = start[b] - 1 /\ start[b] >= 1
      BY <1>11, <1>18, <1>19, <2>1, <2>2
    <3>2. s[b] + Queued(b) <= Len(queue')
      BY <1>16, <2>1, <3>1 DEF Holds
    <3>3. ASSUME NEW k \in 1 .. Queued(b)
          PROVE  queue'[s[b] + k] = InBlock(b)[k]
      <4>1. s[b] + k \in 1 .. Len(queue) - 1 /\ (s[b] + k) + 1 = start[b] + k
        BY <1>16, <2>1, <3>1 DEF Holds
      <4>2. queue'[s[b] + k] = queue[start[b] + k]
        BY <1>16, <4>1
      <4> QED BY <2>1, <4>2 DEF Holds
    <3> QED BY <3>1, <3>2, <3>3 DEF Holds
  <2>3. CASE b = p
    <3>1. s[b] + Queued(b)' <= Len(queue')
      BY <1>14, <1>16, <1>17, <1>19, <2>1, <2>3 DEF Holds
    <3>2. ASSUME NEW k \in 1 .. m - 1
          PROVE  queue'[s[b] + k] = InBlock(b)'[k]
      <4>1. k + 1 \in 1 .. Queued(b) /\ k \in Nat /\ s[b] + k = k /\ start[b] + (k + 1) = k + 1
        BY <1>14, <1>17, <1>19, <2>3
      <4>2. queue[k + 1] = InBlock(b)[k + 1]
        BY <2>1, <4>1 DEF Holds
      <4>3. k \in 1 .. Len(queue) - 1
        BY <1>14, <1>16, <1>17, <2>1, <2>3, <4>1 DEF Holds
      <4>4. queue'[k] = queue[k + 1]
        BY <1>16, <4>3
      <4> QED BY <1>15, <2>3, <4>1, <4>2, <4>4
    <3> QED BY <1>14, <2>3, <3>1, <3>2 DEF Holds
  <2> QED BY <2>2, <2>3
<1>21. \A n : Capacity(n)' = Capacity(n)
  BY <1>1 DEF Capacity, FirstBlockSize
<1>22. \A b \in Used(pos) : b # tailBlock => next[b] \in Used(pos) /\ next[b] # p
  <2> SUFFICES ASSUME NEW b \in Used(pos), b # tailBlock
               PROVE  next[b] \in Used(pos) /\ next[b] # p
    OBVIOUS
  <2>1. b \in 1 .. RingLength /\ pos[b] <= pos[tailBlock] /\ pos[b] # pos[tailBlock]
    BY <1>7, <1>9 DEF Used
  <2>2. pos[b] \in Nat /\ pos[tailBlock] \in Nat /\ pos[tailBlock] <= RingLength - 1 /\ RingLength \in Nat
    BY <1>5, <1>7, <2>1
  <2>3. pos[b] # RingLength - 1 /\ pos[b] + 1 <= pos[tailBlock] /\ pos[b] + 1 # 0
    BY ONLY <2>1, <2>2, NextPlace
  <2> QED BY <1>7, <1>8, <2>1, <2>3 DEF Used
<1>23. Segments(pos, s)'
  <2>1. s[frontBlock'] = 0 /\ s[tailBlock'] + Queued(tailBlock)' = Len(queue')
    <3>1. start[tailBlock] + Queued(tailBlock) = Len(queue) /\ start[tailBlock] \in Nat /\ Queued(tailBlock) \in Nat
      BY <1>9, <1>10, <1>17 DEF Segments
    <3>2. CASE tailBlock = p
      BY <1>1, <1>8, <1>14, <1>16, <1>17, <1>19, <3>1, <3>2
    <3>3. CASE tailBlock # p
      BY <1>1, <1>8, <1>9, <1>11, <1>16, <1>18, <1>19, <3>1, <3>3
    <3> QED BY <3>2, <3>3
  <2>2. \A b \in Used(pos) :
          /\ b # tailBlock' => s[next'[b]] = s[b] + Queued(b)'
          /\ b # tailBlock' /\ b # frontBlock' => Queued(b)' = size'[b] - 1
    <3> SUFFICES ASSUME NEW b \in Used(pos), b # tailBlock
                 PROVE  /\ s[next[b]] = s[b] + Queued(b)'
                        /\ b # frontBlock => Queued(b)' = size[b] - 1
      BY <1>1
    <3>1. s[next[b]] = start[next[b]] - 1 /\ start[next[b]] = start[b] + Queued(b)
      BY <1>17, <1>19, <1>22 DEF Segments
    <3>2. b \in 1 .. RingLength /\ start[b] \in Nat /\ Queued(b) \in Nat
      BY <1>9, <1>10, <1>17
    <3>3. CASE b = p
      BY <1>8, <1>14, <1>17, <1>19, <3>1, <3>2, <3>3
    <3>4. CASE b # p
      <4>1. Queued(b)' = Queued(b) /\ s[b] = start[b] - 1 /\ Queued(b) = size[b] - 1
        BY <1>8, <1>11, <1>17, <1>19, <3>2, <3>4 DEF Segments
      <4>2. start[b] + Queued(b) - 1 = (start[b] - 1) + Queued(b) /\ s[next[b]] = start[b] + Queued(b) - 1
        BY <3>1, <3>2
      <4>3. s[next[b]] = s[b] + Queued(b)
        BY <4>1, <4>2
      <4> QED BY <4>1, <4>3
    <3> QED BY <3>3, <3>4
  <2>3. \A b, c \in Used(pos) :
          pos[b] < pos[c] =>
            /\ s[b] + Queued(b)' <= s[c]
            /\ b # frontBlock' => s[c] - s[b] >= Capacity(pos[c] - pos[b])'
    <3> SUFFICES ASSUME NEW b \in Used(pos), NEW c \in Used(pos), pos[b] < pos[c]
                 PROVE  /\ s[b] + Queued(b)' <= s[c]
                        /\ b # p => s[c] - s[b] >= Capacity(pos[c] - pos[b])
      BY <1>1, <1>8, <1>21
    <3>1. /\ b \in 1 .. RingLength /\ start[b] \in Nat /\ Queued(b) \in Nat /\ start[c] \in Nat
          /\ start[b] + Queued(b) <= start[c]
          /\ b # p => start[c] - start[b] >= Capacity(pos[c] - pos[b])
      BY <1>8, <1>9, <1>10, <1>17 DEF Segments
    <3>2. c # p
      <4>1. pos[p] = 0 /\ pos[b] \in Nat
        BY <1>5, <1>7, <1>8, <3>1
      <4> QED BY <4>1
    <3>3. s[c] = start[c] - 1
      BY <1>19, <3>2
    <3>4. CASE b = p
      BY <1>14, <1>17, <1>19, <3>1, <3>3, <3>4
    <3>5. CASE b # p
      <4>1. Queued(b)' = Queued(b) /\ s[b] = start[b] - 1
        BY <1>11, <1>19, <3>1, <3>5
      <4>2. s[c] - s[b] = start[c] - start[b]
        BY <3>1, <3>3, <4>1
      <4> QED BY <3>1, <3>3, <3>5, <4>1, <4>2
    <3> QED BY <3>4, <3>5
  <2> QED BY <1>1, <1>9, <1>20, <2>1, <2>2, <2>3 DEF Segments
<1>24. s \in [1 .. RingLength' -> 0 .. Len(queue')] /\ pos \in [1 .. RingLength' -> 0 .. RingLength' - 1]
  BY <1>5, <1>16
<1> QED BY <1>6, <1>16, <1>23, <1>24 DEF QueueInv

(* The blocks of the constructor hold maxSize elements: one block, if it is the only *)
(* one, and any but one of them otherwise.                                            *)
LEMMA Enough ==
  ASSUME NEW m \in MaxSizes, NEW n \in Nat, n >= InitialBlockCount(m)
  PROVE  /\ n = 1 => FirstBlockSize(m) - 1 >= m
         /\ n > 1 => (n - 1) * (FirstBlockSize(m) - 1) >= m
<1> DEFINE M == MAX_BLOCK_SIZE
           ceil == CeilToPow2(m + 1)
<1>1. m \in Nat /\ m >= 1 /\ M \in Nat /\ M >= 2
  BY QueueAssumption DEF QueueAssumption
<1>2. ceil \in Nat /\ ceil >= m + 1
  <2>1. \E p \in m + 1 .. 2 * m + 1 : IsPowerOf2(p)
    BY QueueAssumption DEF QueueAssumption
  <2>2. 2 * (m + 1) - 1 = 2 * m + 1
    BY <1>1
  <2>3. ceil \in m + 1 .. 2 * (m + 1) - 1
    BY <2>1, <2>2 DEF CeilToPow2
  <2> QED BY <1>1, <2>2, <2>3
<1>3. CASE ~ (ceil > M * 2)
  <2>1. FirstBlockSize(m) = ceil
    BY <1>3 DEF FirstBlockSize
  <2> HIDE DEF ceil
  <2>2. ceil - 1 >= m /\ ceil - 1 \in Nat
    BY <1>1, <1>2
  <2>3. ASSUME n > 1
        PROVE  (n - 1) * (ceil - 1) >= m
    <3>1. PICK k \in Nat, c \in Nat : k + 1 = n - 1 /\ c = ceil - 1
      BY <2>2, <2>3
    <3>2. (k + 1) * c = k * c + c /\ k * c \in Nat
      OBVIOUS
    <3> QED BY <1>1, <2>2, <3>1, <3>2
  <2> QED BY <2>1, <2>2, <2>3
<1>4. CASE ceil > M * 2
  <2>1. FirstBlockSize(m) = M /\ InitialBlockCount(m) = (m + M * 2 - 3) \div (M - 1)
    BY <1>4 DEF FirstBlockSize, InitialBlockCount
  <2>2. PICK d \in Nat : d = M - 1 /\ d >= 1
    BY <1>1
  <2>3. m + M * 2 - 3 = (m + 2 * d) - 1
    BY <1>1, <2>2
  <2>4. PICK x \in Nat : x = (m + 2 * d) - 1
    BY <1>1, <2>2
  <2> DEFINE i == InitialBlockCount(m)
  <2>5. i = x \div d
    BY <2>1, <2>2, <2>3, <2>4
  <2>6. i \in Nat /\ i >= 2 /\ i * d + d > x
    <3> HIDE DEF i
    <3>1. i \in Nat /\ i * d <= x /\ x < (i + 1) * d
      BY ONLY <2>2, <2>5
    <3>2. (i + 1) * d = i * d + d
      BY <3>1
    <3>3. x >= 2 * d
      BY <1>1, <2>4
    <3>4. i >= 2
      <4>1. i # 0 /\ i # 1
        BY <1>1, <2>4, <3>1
      <4> QED BY <3>1, <4>1
    <3> QED BY <3>1, <3>2, <3>4
  <2>7. n > 1
    BY <2>6
  <2>8. PICK j \in Nat, e \in Nat : j + 1 = i /\ n - 1 = j + e
    <3>1. n >= i
      OBVIOUS
    <3> HIDE DEF i
    <3>2. i - 1 \in Nat /\ n - i \in Nat
      BY <2>6, <3>1
    <3>3. i - 1 + 1 = i /\ n - 1 = (i - 1) + (n - i)
      BY <2>6
    <3> QED BY <3>2, <3>3
  <2>9. j * d + d = i * d /\ (j + e) * d = j * d + e * d /\ e * d \in Nat /\ j * d \in Nat
    <3>1. (j + 1) * d = j * d + d /\ (j + e) * d = j * d + e * d /\ e * d \in Nat /\ j * d \in Nat
      OBVIOUS
    <3> HIDE DEF i
    <3> QED BY <2>8, <3>1
  <2>10. (n - 1) * d >= m
    <3>1. (n - 1) * d = j * d + e * d
      BY <2>8, <2>9
    <3>2. j * d + d + d > x
      BY <2>6, <2>9
    <3> QED BY <1>1, <2>4, <2>9, <3>1, <3>2
  <2> QED BY <2>1, <2>2, <2>7, <2>10
<1> QED BY <1>3, <1>4

(* A full tail block with the front block behind it: all blocks but one are full. *)
LEMMA RingFull ==
  ASSUME BlockInv, QueueInv, CapacityInv,
         Queued(tailBlock) = size[tailBlock] - 1, next[tailBlock] = frontBlock
  PROVE  Len(queue) >= maxSize
<1>1. PICK pos \in [1 .. RingLength -> 0 .. RingLength - 1] :
        RingWitness(pos) /\ \E start \in [1 .. RingLength -> 0 .. Len(queue)] : Segments(pos, start)
  BY DEF QueueInv
<1>2. PICK start \in [1 .. RingLength -> 0 .. Len(queue)] : Segments(pos, start)
  BY <1>1
<1>3. TypeOK /\ Len(queue) \in Nat /\ maxSize \in MaxSizes
  BY DEF BlockInv, QueueInv, TypeOK, ListTypeOK
<1>4. PICK n \in Nat : /\ n = RingLength
                       /\ \A b \in 1 .. n : pos[b] \in Nat /\ start[b] \in Nat /\ b \in 1 .. nblocks
  BY <1>3, RingBasics
<1>5. /\ frontBlock \in 1 .. n /\ tailBlock \in 1 .. n /\ pos[frontBlock] = 0
      /\ \A b \in 1 .. n : next[b] \in 1 .. n /\ pos[next[b]] = IF pos[b] = n - 1 THEN 0 ELSE pos[b] + 1
  BY <1>1, <1>4 DEF RingWitness, RingShape
<1>6. pos[tailBlock] = n - 1
  <2>1. pos[tailBlock] + 1 # 0
    BY <1>4, <1>5
  <2>2. 0 = IF pos[tailBlock] = n - 1 THEN 0 ELSE pos[tailBlock] + 1
    BY <1>5
  <2> QED BY <2>1, <2>2
<1> DEFINE F == FirstBlockSize(maxSize)
<1>7. F \in Nat /\ F >= 2 /\ n >= InitialBlockCount(maxSize) /\ size[tailBlock] >= F /\ size[tailBlock] \in Nat
  <2>1. F \in Nat /\ F >= 2
    BY <1>3, CapacityGrows
  <2>2. n >= InitialBlockCount(maxSize) /\ size[tailBlock] >= F
    BY <1>4, <1>5 DEF CapacityInv
  <2>3. size[tailBlock] \in Nat
    BY <1>3, <1>4, <1>5, Basics
  <2> QED BY <2>1, <2>2, <2>3
<1>8. maxSize \in Nat
  BY <1>3, QueueAssumption DEF QueueAssumption
<1>9. Len(queue) = start[tailBlock] + (size[tailBlock] - 1)
  BY <1>2 DEF Segments
<1>10. CASE n = 1
  <2>1. F - 1 >= maxSize
    BY <1>3, <1>7, <1>10, Enough
  <2>2. start[tailBlock] \in Nat
    BY <1>4, <1>5
  <2> HIDE DEF F
  <2> QED BY ONLY <1>7, <1>8, <1>9, <2>1, <2>2
<1>11. CASE n > 1
  <2>1. PICK k \in Nat : k + 2 = n
    <3>1. n - 2 \in Nat /\ n - 2 + 2 = n
      BY <1>11
    <3> QED BY <3>1
  <2>2. start[tailBlock] >= Capacity(k)
    <3>1. PICK c \in 1 .. n : c = next[frontBlock] /\ pos[c] = 1
      BY <1>5, <1>11
    <3>2. c \in Used(pos) /\ tailBlock \in Used(pos) /\ c # frontBlock
      <4>1. pos[c] <= pos[tailBlock] /\ pos[tailBlock] <= pos[tailBlock]
        BY <1>6, <1>11, <3>1
      <4> QED BY <1>4, <1>5, <3>1, <4>1 DEF Used
    <3>3. CASE c = tailBlock
      <4>1. k = 0
        BY <1>6, <2>1, <3>1, <3>3
      <4>2. Capacity(k) = 0 * (F - 1)
        BY <4>1 DEF Capacity
      <4>3. Capacity(k) = 0
        <5> HIDE DEF F
        <5> QED BY <1>7, <4>2
      <4> QED BY <1>4, <1>5, <4>3
    <3>4. CASE c # tailBlock
      <4>1. pos[c] # pos[tailBlock]
        BY <1>1, <1>4, <1>5, <3>4 DEF RingWitness, RingShape
      <4>2. pos[c] < pos[tailBlock] /\ pos[tailBlock] - pos[c] = k
        BY <1>6, <1>11, <2>1, <3>1, <4>1
      <4>3. start[tailBlock] - start[c] >= Capacity(k)
        BY <1>2, <3>2, <4>2 DEF Segments
      <4>4. Capacity(k) \in Nat
        BY <1>3, CapacityGrows
      <4>5. start[tailBlock] \in Nat /\ start[c] \in Nat
        BY <1>4, <1>5, <3>1
      <4> QED BY ONLY <4>3, <4>4, <4>5
    <3> QED BY <3>3, <3>4
  <2>3. Capacity(k + 1) = Capacity(k) + (F - 1) /\ Capacity(k) \in Nat
    BY <1>3, CapacityGrows
  <2>4. Capacity(k + 1) >= maxSize
    <3>1. n - 1 = k + 1
      BY <2>1
    <3>2. (n - 1) * (F - 1) >= maxSize
      BY <1>3, <1>7, <1>11, Enough
    <3> QED BY <3>1, <3>2 DEF Capacity
  <2>5. start[tailBlock] \in Nat
    BY <1>4, <1>5
  <2> HIDE DEF F
  <2> QED BY ONLY <1>7, <1>8, <1>9, <2>2, <2>3, <2>4, <2>5
<1>12. n >= 1
  BY <1>5
<1> QED BY <1>10, <1>11, <1>12

(* Every step keeps the queue cut into the blocks. *)
LEMMA QueueStep ==
  ASSUME IndInv, BlockInv', [Next]_vars
  PROVE  QueueInv'
<1>1. BlockInv /\ QueueInv /\ CapacityInv /\ EnqueueInv
  BY DEF IndInv, FifoInv
<1> DEFINE same == <<queue, maxSize, frontBlock, tailBlock, nblocks, next, front, tail, size, data>>
<1>2. ASSUME UNCHANGED same, pPC # "link", pPC' # "link", UNCHANGED <<cPC, cBlk, cVal>>
      PROVE  QueueInv'
  <2>1. RingLength' = RingLength
    BY <1>2 DEF RingLength
  <2>2. UNCHANGED <<cPC, cBlk, cVal>> \/ (cPC # "release" /\ cPC' # "release")
    BY <1>2
  <2> QED BY <1>1, <1>2, <2>1, <2>2, NothingMoves
<1>3. ASSUME UNCHANGED same, UNCHANGED pPC, cPC # "release", cPC' # "release"
      PROVE  QueueInv'
  <2>1. RingLength' = RingLength
    BY <1>3 DEF RingLength
  <2> QED BY <1>1, <1>3, <2>1, NothingMoves
<1>4. ASSUME NEW op \in {"try_enqueue", "enqueue"}, NEW v \in Vals, EnqueueCall(op, v)
      PROVE  QueueInv'
  BY <1>2, <1>4 DEF EnqueueCall, blockVars, consOwned, prodOwned, consVars
<1>5. ASSUME NEW op \in {"try_dequeue", "peek"}, DequeueCall(op)
      PROVE  QueueInv'
  BY <1>3, <1>5 DEF DequeueCall, blockVars, consOwned, prodOwned, prodVars
<1>6. CASE RefreshFront
  BY <1>2, <1>6 DEF RefreshFront, ProdGoto, ProdReturn, blockVars, consOwned, prodOwned, consVars
<1>7. CASE CheckNextBlock
  BY <1>2, <1>7 DEF CheckNextBlock, ProdGoto, ProdReturn, blockVars, consOwned, prodOwned, consVars
<1>8. CASE LoadNextBlock
  BY <1>2, <1>8 DEF LoadNextBlock, ProdGoto, ProdReturn, blockVars, consOwned, prodOwned, consVars
<1>9. CASE AllocationFails
  BY <1>2, <1>9 DEF AllocationFails, ProdGoto, ProdReturn, blockVars, consOwned, prodOwned, consVars
<1>10. CASE RefreshTail
  BY <1>3, <1>10 DEF RefreshTail, ConsGoto, ConsReturn, blockVars, consOwned, prodOwned, prodVars
<1>11. CASE CheckTailBlock
  BY <1>3, <1>11 DEF CheckTailBlock, ConsGoto, ConsReturn, blockVars, consOwned, prodOwned, prodVars
<1>12. CASE RecheckFrontBlock
  BY <1>3, <1>12 DEF RecheckFrontBlock, ConsGoto, ConsReturn, blockVars, consOwned, prodOwned, prodVars
<1>13. CASE LoadNext
  BY <1>3, <1>13 DEF LoadNext, ConsGoto, ConsReturn, blockVars, consOwned, prodOwned, prodVars
<1>14. CASE LoadNextTail
  BY <1>3, <1>14 DEF LoadNextTail, ConsGoto, ConsReturn, blockVars, consOwned, prodOwned, prodVars
<1>15. CASE PeekElement
  BY <1>3, <1>15 DEF PeekElement, ConsGoto, ConsReturn, blockVars, consOwned, prodOwned, prodVars
<1>16. CASE Construct
  BY <1>1, <1>16, ConstructQueue
<1>17. CASE PublishTail
  BY <1>1, <1>17, PublishTailQueue
<1>18. CASE PublishNextTail
  BY <1>1, <1>18, PublishNextTailQueue
<1>19. CASE AllocateBlock
  BY <1>1, <1>19, AllocateBlockQueue
<1>20. CASE LinkBlock
  BY <1>1, <1>20, LinkBlockQueue
<1>21. CASE AdvanceTailBlock
  BY <1>1, <1>21, AdvanceTailBlockQueue
<1>22. CASE AdvanceFrontBlock
  BY <1>1, <1>22, AdvanceFrontBlockQueue
<1>23. CASE TakeElement
  BY <1>1, <1>23, TakeElementQueue
<1>24. CASE ReleaseSlot
  BY <1>1, <1>24, ReleaseSlotQueue
<1>25. CASE UNCHANGED vars
  <2>1. UNCHANGED same /\ UNCHANGED <<pPC, cPC, cBlk, cVal>>
    BY <1>25 DEF vars
  <2>2. RingLength' = RingLength
    BY <2>1 DEF RingLength
  <2>3. UNCHANGED <<cPC, cBlk, cVal>> \/ (cPC # "release" /\ cPC' # "release")
    BY <2>1
  <2> QED BY <1>1, <2>1, <2>2, <2>3, NothingMoves
<1> QED
  BY <1>4, <1>5, <1>6, <1>7, <1>8, <1>9, <1>10, <1>11, <1>12, <1>13, <1>14, <1>15, <1>16,
     <1>17, <1>18, <1>19, <1>20, <1>21, <1>22, <1>23, <1>24, <1>25
     DEF Next, Producer, Consumer

(* Blocks only come in, and none smaller than the first. *)
LEMMA CapacityStep ==
  ASSUME IndInv, [Next]_vars
  PROVE  CapacityInv'
<1>1. BlockInv /\ CapacityInv /\ TypeOK
  BY DEF IndInv, FifoInv, BlockInv
<1>2. ASSUME UNCHANGED <<maxSize, nblocks, largestBlockSize, size>>, pPC' = "link" => pPC = "link"
      PROVE  CapacityInv'
  <2>1. RingLength' >= InitialBlockCount(maxSize)
    <3>1. RingLength >= InitialBlockCount(maxSize) /\ nblocks \in Nat /\ InitialBlockCount(maxSize) \in Nat
      BY <1>1, FirstBlockBasics DEF CapacityInv, TypeOK, ListTypeOK, Blocks
    <3> QED BY <1>2, <3>1 DEF RingLength
  <2> QED BY <1>1, <1>2, <2>1 DEF CapacityInv, FirstBlockSize, InitialBlockCount
<1>3. CASE AllocateBlock
  <2>1. /\ UNCHANGED maxSize /\ nblocks' = nblocks + 1 /\ pPC = "alloc" /\ pPC' = "link" /\ nblocks \in Nat
        /\ size' = [size EXCEPT ![nblocks + 1] = largestBlockSize']
        /\ largestBlockSize' = IF largestBlockSize >= MAX_BLOCK_SIZE THEN largestBlockSize ELSE largestBlockSize * 2
    BY <1>1, <1>3, Basics DEF AllocateBlock
  <2>2. largestBlockSize \in Nat /\ FirstBlockSize(maxSize) \in Nat /\ largestBlockSize' >= FirstBlockSize(maxSize)
    <3>1. largestBlockSize \in Nat /\ FirstBlockSize(maxSize) \in Nat /\ largestBlockSize >= FirstBlockSize(maxSize)
      BY <1>1, CapacityGrows, QueueAssumption DEF CapacityInv, TypeOK, ListTypeOK, QueueAssumption
    <3> QED BY <2>1, <3>1
  <2>3. RingLength' = RingLength
    BY <2>1 DEF RingLength
  <2>4. ASSUME NEW b \in 1 .. nblocks + 1
        PROVE  size'[b] >= FirstBlockSize(maxSize)
    <3>1. b \in 1 .. nblocks \/ b = nblocks + 1
      BY <2>1
    <3>2. nblocks + 1 \in Blocks
      BY <1>1, <1>3, <2>1, QueueAssumption DEF AllocateBlock, Blocks, QueueAssumption
    <3>3. b \in 1 .. nblocks => b \in Blocks /\ b # nblocks + 1
      BY <1>1, <2>1, Basics
    <3> QED BY <1>1, <2>1, <2>2, <3>1, <3>2, <3>3 DEF CapacityInv, TypeOK, ListTypeOK
  <2> QED BY <1>1, <2>1, <2>2, <2>3, <2>4 DEF CapacityInv, FirstBlockSize, InitialBlockCount
<1>4. CASE Producer /\ ~ AllocateBlock
  <2>1. UNCHANGED <<maxSize, nblocks, largestBlockSize, size>>
    BY <1>4 DEF Producer, EnqueueCall, RefreshFront, Construct, PublishTail, CheckNextBlock, LoadNextBlock,
       PublishNextTail, AllocationFails, LinkBlock, AdvanceTailBlock, blockVars
  <2>2. pPC' = "link" => pPC = "link"
    BY <1>4 DEF Producer, EnqueueCall, RefreshFront, Construct, PublishTail, CheckNextBlock, LoadNextBlock,
       PublishNextTail, AllocationFails, LinkBlock, AdvanceTailBlock, ProdGoto, ProdReturn
  <2> QED BY <1>2, <2>1, <2>2
<1>5. CASE Consumer
  <2>1. UNCHANGED <<maxSize, nblocks, largestBlockSize, size, pPC>>
    BY <1>5 DEF Consumer, DequeueCall, RefreshTail, CheckTailBlock, RecheckFrontBlock, LoadNext, LoadNextTail,
       AdvanceFrontBlock, TakeElement, ReleaseSlot, PeekElement, blockVars, prodVars
  <2> QED BY <1>2, <2>1
<1>6. CASE UNCHANGED vars
  BY <1>2, <1>6 DEF vars
<1> QED BY <1>3, <1>4, <1>5, <1>6 DEF Next

(* Where the two threads are, in the ring: apart from each other. *)
LEMMA Places ==
  ASSUME BlockInv
  PROVE  /\ tailBlock \in 1 .. RingLength /\ frontBlock \in 1 .. RingLength
         /\ pPC \in {"constructNext", "publishNext", "advance", "link"} =>
              /\ pBlk # frontBlock /\ pBlk # tailBlock
              /\ cPC = "take" => cBlk # pBlk
         /\ pPC \in {"constructNext", "publishNext"} => front[pBlk] = tail[pBlk]
         /\ cPC = "advance" => tailBlock # frontBlock
         /\ cPC = "loadNextTail" => front[frontBlock] = tail[frontBlock]
         /\ cPC = "take" /\ cBlk # frontBlock => tailBlock # frontBlock
<1>1. PICK pos \in [1 .. RingLength -> 0 .. RingLength - 1] : RingWitness(pos)
  BY DEF BlockInv, RingInv
<1>2. PICK n \in Nat : /\ n = RingLength /\ (pPC = "link" => nblocks = n + 1)
                       /\ \A b \in 1 .. n : pos[b] \in Nat
  <2>1. TypeOK
    BY DEF BlockInv
  <2>2. RingLength \in Nat /\ nblocks \in Nat /\ (pPC = "link" => RingLength = nblocks - 1)
    BY <2>1, RingBasics, Basics
  <2>3. pPC = "link" => nblocks = RingLength + 1
    BY <2>2
  <2>4. \A b \in 1 .. RingLength : pos[b] \in Nat
    BY <2>2
  <2> QED BY <2>2, <2>3, <2>4
<1>3. /\ frontBlock \in 1 .. n /\ tailBlock \in 1 .. n /\ pos[frontBlock] = 0
      /\ \A b, c \in 1 .. n : pos[b] = pos[c] => b = c
  BY <1>1, <1>2 DEF RingWitness, RingShape
<1>4. pPC \in {"constructNext", "publishNext", "advance"} => pos[pBlk] = pos[tailBlock] + 1
  BY <1>1 DEF RingWitness, ProducerPlace
<1>5. pPC = "link" => pBlk = n + 1
  BY <1>1, <1>2 DEF RingWitness, ProducerPlace
<1>6. cPC = "take" => cBlk \in 1 .. n /\ pos[cBlk] <= pos[tailBlock]
  BY <1>1, <1>2 DEF RingWitness, ConsumerPlace
<1>7. ASSUME pPC \in {"constructNext", "publishNext", "advance", "link"}
      PROVE  /\ pBlk # frontBlock /\ pBlk # tailBlock
             /\ cPC = "take" => cBlk # pBlk
  <2>1. CASE pPC = "link"
    BY <1>3, <1>5, <1>6, <2>1
  <2>2. CASE pPC # "link"
    <3>1. pos[pBlk] = pos[tailBlock] + 1 /\ pos[tailBlock] \in Nat /\ pos[frontBlock] = 0
      BY <1>2, <1>3, <1>4, <1>7, <2>2
    <3> QED BY <1>2, <1>6, <3>1
  <2> QED BY <2>1, <2>2
<1>8. pPC \in {"constructNext", "publishNext"} => front[pBlk] = tail[pBlk]
  BY <1>1 DEF RingWitness, ProducerPlace
<1>9. (cPC = "advance" => tailBlock # frontBlock)
      /\ (cPC = "loadNextTail" => front[frontBlock] = tail[frontBlock])
  BY <1>1, <1>3 DEF RingWitness, ConsumerPlace
<1>10. ASSUME cPC = "take", cBlk # frontBlock
       PROVE  tailBlock # frontBlock
  <2>1. pos[cBlk] \in Nat /\ pos[cBlk] # 0
    BY <1>2, <1>3, <1>6, <1>10
  <2> QED BY <1>2, <1>3, <1>6, <1>10, <2>1
<1> QED BY <1>2, <1>3, <1>7, <1>8, <1>9, <1>10

(* The element the consumer is at is the first of the queue. *)
LEMMA FrontElement ==
  ASSUME BlockInv, QueueInv, DequeueInv, cPC \in {"take", "release"}
  PROVE  queue # <<>> /\ Head(queue) = ElementAt(cBlk, front[cBlk])
<1>1. PICK pos \in [1 .. RingLength -> 0 .. RingLength - 1] :
        RingWitness(pos) /\ \E start \in [1 .. RingLength -> 0 .. Len(queue)] : Segments(pos, start)
  BY DEF QueueInv
<1>2. PICK start \in [1 .. RingLength -> 0 .. Len(queue)] : Segments(pos, start)
  BY <1>1
<1>3. TypeOK /\ ConsumerInv /\ queue \in Seq(Vals)
  BY DEF BlockInv, QueueInv
<1>4. PICK n \in Nat : n = RingLength /\ \A b \in 1 .. n : pos[b] \in Nat /\ b \in 1 .. nblocks
  BY <1>3, RingBasics
<1>5. /\ frontBlock \in 1 .. n /\ tailBlock \in 1 .. n /\ pos[frontBlock] = 0 /\ next[frontBlock] \in 1 .. n
      /\ pos[next[frontBlock]] = IF pos[frontBlock] = n - 1 THEN 0 ELSE pos[frontBlock] + 1
      /\ \A b, c \in 1 .. n : pos[b] = pos[c] => b = c
  BY <1>1, <1>4 DEF RingWitness, RingShape
<1>6. frontBlock \in Used(pos) /\ start[frontBlock] = 0
  BY <1>2, <1>4, <1>5 DEF Used, Segments
<1>7. front[cBlk] # tail[cBlk]
  BY <1>3 DEF ConsumerInv
<1>8. cBlk \in Used(pos) /\ start[cBlk] = 0
  <2>1. CASE cBlk = frontBlock
    BY <1>6, <2>1
  <2>2. CASE cBlk # frontBlock
    <3>1. cPC = "take" /\ front[frontBlock] = tail[frontBlock]
      BY <1>3, <2>2 DEF ConsumerInv, DequeueInv
    <3>2. cBlk \in 1 .. n /\ pos[cBlk] <= 1 /\ pos[cBlk] <= pos[tailBlock]
      BY <1>1, <1>4, <3>1 DEF RingWitness, ConsumerPlace
    <3>3. pos[cBlk] = 1 /\ pos[cBlk] <= n - 1 /\ tailBlock # frontBlock
      <4>1. pos[cBlk] # 0 /\ pos[cBlk] \in Nat /\ pos[cBlk] \in 0 .. n - 1
        BY <1>4, <1>5, <2>2, <3>2
      <4>2. pos[cBlk] = 1
        BY <3>2, <4>1
      <4> QED BY <1>4, <1>5, <3>2, <4>1, <4>2
    <3>4. next[frontBlock] = cBlk
      <4>1. pos[frontBlock] # n - 1 /\ pos[frontBlock] + 1 = 1
        BY <1>5, <3>3
      <4>2. pos[next[frontBlock]] = pos[cBlk]
        BY <1>5, <3>3, <4>1
      <4> QED BY <1>5, <3>2, <4>2
    <3>5. Queued(frontBlock) = 0
      BY <1>3, <1>4, <1>5, <3>1, BlockIs
    <3>6. start[next[frontBlock]] = start[frontBlock] + Queued(frontBlock)
      BY <1>2, <1>6, <3>3 DEF Segments
    <3> QED BY <1>4, <1>6, <3>2, <3>4, <3>5, <3>6 DEF Used
  <2> QED BY <2>1, <2>2
<1>9. cBlk \in 1 .. nblocks
  BY <1>4, <1>8 DEF Used
<1>10. Queued(cBlk) \in Nat /\ Queued(cBlk) # 0
  BY <1>3, <1>7, <1>9, BlockIs
<1>11. InBlock(cBlk)[1] = ElementAt(cBlk, front[cBlk])
  <2>1. 1 \in 1 .. Queued(cBlk)
    BY <1>10
  <2>2. InBlock(cBlk)[1] = ElementAt(cBlk, SlotOf(cBlk, 1)) /\ SlotOf(cBlk, 1) = front[cBlk]
    BY <1>3, <1>9, <2>1, BlockIs
  <2> QED BY <2>2
<1>12. Len(queue) >= 1 /\ queue[1] = InBlock(cBlk)[1]
  <2>1. Holds(start, cBlk)
    BY <1>2, <1>8 DEF Segments
  <2>2. start[cBlk] + Queued(cBlk) <= Len(queue) /\ \A k \in 1 .. Queued(cBlk) : queue[start[cBlk] + k] = InBlock(cBlk)[k]
    BY <2>1 DEF Holds
  <2>3. Len(queue) \in Nat /\ 1 \in 1 .. Queued(cBlk)
    BY <1>3, <1>10
  <2>4. queue[0 + 1] = InBlock(cBlk)[1]
    BY <1>8, <2>2, <2>3
  <2> QED BY <1>8, <1>10, <2>2, <2>3, <2>4
<1> QED BY <1>3, <1>11, <1>12

(* The consumer does not disturb an enqueue in progress. *)
LEMMA EnqueueUndisturbed ==
  ASSUME IndInv, Consumer
  PROVE  EnqueueInv'
<1>1. /\ BlockInv /\ TypeOK /\ ProducerInv /\ ConsumerInv /\ QueueInv /\ EnqueueInv /\ DequeueInv
      /\ data \in [Blocks -> [Slots -> Vals \cup {NULL}]] /\ front \in [Blocks -> Slots]
      /\ Len(queue) \in Nat /\ maxSize \in Nat
  <2>1. BlockInv /\ QueueInv /\ DequeueInv /\ EnqueueInv
    BY DEF IndInv, FifoInv
  <2>2. TypeOK /\ ProducerInv /\ ConsumerInv
    BY <2>1 DEF BlockInv
  <2>3. Len(queue) \in Nat
    BY <2>1 DEF QueueInv
  <2>4. maxSize \in Nat
    BY <2>2, QueueAssumption DEF TypeOK, ListTypeOK, QueueAssumption
  <2> QED BY <2>1, <2>2, <2>3, <2>4 DEF TypeOK, ListTypeOK, IndexTypeOK
<1>2. UNCHANGED <<maxSize, nblocks, size, next, tailBlock, tail, pOp, pVal, pPC, pBlk, fullAtCall>>
  BY DEF Consumer, DequeueCall, RefreshTail, CheckTailBlock, RecheckFrontBlock, LoadNext, LoadNextTail,
     AdvanceFrontBlock, TakeElement, ReleaseSlot, PeekElement, blockVars, prodOwned, prodVars
<1>3. RingLength' = RingLength
  BY <1>2 DEF RingLength
<1>4. \A b : UNCHANGED front => Queued(b)' = Queued(b)
  BY <1>2 DEF Queued
<1>5. CASE UNCHANGED <<front, data, queue, frontBlock>>
  BY <1>1, <1>2, <1>3, <1>4, <1>5 DEF EnqueueInv
<1>6. CASE AdvanceFrontBlock
  <2>1. UNCHANGED <<front, data, queue>> /\ tailBlock # frontBlock
    BY <1>1, <1>6, Places DEF AdvanceFrontBlock
  <2> QED BY <1>1, <1>2, <1>3, <1>4, <2>1 DEF EnqueueInv
<1>7. CASE TakeElement
  <2>1. UNCHANGED <<front, queue, frontBlock>> /\ data' = [data EXCEPT ![cBlk][front[cBlk]] = NULL] /\ cPC = "take"
    BY <1>7 DEF TakeElement, consOwned
  <2>2. ASSUME pPC \in {"publish", "publishNext"}
        PROVE  data'[pBlk][tail[pBlk]] = data[pBlk][tail[pBlk]]
    <3>1. front[cBlk] # tail[cBlk] /\ pBlk \in Blocks /\ tail[pBlk] \in Slots
      BY <1>1, <2>1, <2>2, Basics DEF ConsumerInv, ProducerInv
    <3> QED BY <1>1, <2>1, <3>1
  <2>3. ASSUME pPC \in {"link", "advance"}
        PROVE  data'[pBlk][front[pBlk]] = data[pBlk][front[pBlk]]
    <3>1. cBlk # pBlk /\ pBlk \in Blocks
      BY <1>1, <2>1, <2>3, Basics, Places DEF ProducerInv
    <3> QED BY <1>1, <2>1, <3>1
  <2> QED BY <1>1, <1>2, <1>3, <1>4, <2>1, <2>2, <2>3 DEF EnqueueInv
<1>8. CASE ReleaseSlot
  <2>1. /\ UNCHANGED <<data, frontBlock>> /\ queue' = Tail(queue) /\ cBlk = frontBlock
        /\ front' = [front EXCEPT ![cBlk] = Succ(size[cBlk], @)]
    BY <1>1, <1>8 DEF ReleaseSlot, ConsumerInv
  <2>2. \A b \in Blocks : b # frontBlock => front'[b] = front[b] /\ Queued(b)' = Queued(b)
    BY <1>1, <1>2, <2>1 DEF Queued
  <2>3. pPC \in {"link", "advance"} => pBlk \in Blocks /\ pBlk # frontBlock
    BY <1>1, Basics, Places DEF ProducerInv
  <2>4. tailBlock \in Blocks
    BY <1>1, Basics, Places, RingBasics
  <2>5. Len(queue') <= Len(queue) /\ Len(queue') \in Nat
    <3>1. queue \in Seq(Vals) /\ queue # <<>>
      BY <1>1, <1>8, FrontElement DEF QueueInv, ReleaseSlot
    <3> QED BY <2>1, <3>1
  <2>6. pPC # "idle" /\ ~ fullAtCall => Len(queue') < maxSize
    BY <1>1, <2>5 DEF EnqueueInv
  <2> QED BY <1>1, <1>2, <1>3, <2>1, <2>2, <2>3, <2>4, <2>6 DEF EnqueueInv
<1> QED
  BY <1>5, <1>6, <1>7, <1>8 DEF Consumer, DequeueCall, RefreshTail, CheckTailBlock, RecheckFrontBlock, LoadNext,
     LoadNextTail, PeekElement, consOwned

(* The tail block is full when its tail is right behind its front. *)
LEMMA TailBlockFull ==
  ASSUME TypeOK, NEW b \in 1 .. nblocks, Succ(size[b], tail[b]) = front[b]
  PROVE  Queued(b) = size[b] - 1
BY BlockIs

(* The producer's own steps. *)
LEMMA EnqueueProgress ==
  ASSUME IndInv, Producer
  PROVE  EnqueueInv'
<1>1. /\ BlockInv /\ TypeOK /\ ProducerInv /\ ConsumerInv /\ QueueInv /\ CapacityInv /\ EnqueueInv
      /\ data \in [Blocks -> [Slots -> Vals \cup {NULL}]] /\ tail \in [Blocks -> Slots] /\ size \in [Blocks -> 0 .. MAX_BLOCK_SIZE * 2]
      /\ Len(queue) \in Nat /\ maxSize \in Nat
  <2>1. BlockInv /\ QueueInv /\ CapacityInv /\ EnqueueInv
    BY DEF IndInv, FifoInv
  <2>2. TypeOK /\ ProducerInv /\ ConsumerInv
    BY <2>1 DEF BlockInv
  <2>3. Len(queue) \in Nat
    BY <2>1 DEF QueueInv
  <2>4. maxSize \in Nat
    BY <2>2, QueueAssumption DEF TypeOK, ListTypeOK, QueueAssumption
  <2> QED BY <2>1, <2>2, <2>3, <2>4 DEF TypeOK, ListTypeOK, IndexTypeOK
<1>2. nblocks \in Nat /\ tailBlock \in 1 .. nblocks /\ tailBlock \in Blocks
  BY <1>1, Basics, Places, RingBasics
<1>3. ASSUME NEW op \in {"try_enqueue", "enqueue"}, NEW v \in Vals, EnqueueCall(op, v)
      PROVE  EnqueueInv'
  <2>1. /\ pPC' \in {"construct", "refresh"} /\ fullAtCall' = (Len(queue) >= maxSize)
        /\ queue' = queue /\ maxSize' = maxSize
    BY <1>3 DEF EnqueueCall, blockVars
  <2>2. ~ fullAtCall' => Len(queue') < maxSize'
    <3>1. CASE Len(queue) >= maxSize
      BY <2>1, <3>1
    <3>2. CASE ~ (Len(queue) >= maxSize)
      BY <1>1, <2>1, <3>2
    <3> QED BY <3>1, <3>2
  <2> QED BY <2>1, <2>2 DEF EnqueueInv
<1>4. CASE RefreshFront
  <2>1. /\ UNCHANGED <<maxSize, nblocks, size, front, frontBlock, tailBlock, tail, data, queue, fullAtCall, pVal, pBlk>>
        /\ pPC = "refresh" /\ pBlk = tailBlock
        /\ pPC' = IF Succ(size[pBlk], tail[pBlk]) # front[pBlk] THEN "construct" ELSE "checkNext"
    BY <1>1, <1>4 DEF RefreshFront, ProdGoto, ProducerInv, blockVars, consOwned
  <2>2. RingLength' = RingLength /\ RingLength = nblocks
    BY <2>1 DEF RingLength
  <2>3. Queued(tailBlock)' = Queued(tailBlock)
    BY <2>1 DEF Queued
  <2>4. CASE Succ(size[pBlk], tail[pBlk]) # front[pBlk]
    BY <1>1, <2>1, <2>4 DEF EnqueueInv
  <2>5. CASE Succ(size[pBlk], tail[pBlk]) = front[pBlk]
    <3>1. Queued(tailBlock) = size[tailBlock] - 1
      BY <1>1, <1>2, <2>1, <2>5, TailBlockFull
    <3>2. fullAtCall \/ RingLength > 1
      <4> SUFFICES ASSUME ~ (nblocks > 1)
                   PROVE  fullAtCall
        BY <2>2
      <4>1. next[tailBlock] = frontBlock
        <5>1. nblocks = 1
          BY <1>2
        <5>2. tailBlock = 1 /\ frontBlock = 1 /\ next[tailBlock] \in 1 .. nblocks
          BY <1>1, <1>2, <5>1, <2>2, Places DEF TypeOK, IndexTypeOK
        <5> QED BY <5>1, <5>2
      <4>2. Len(queue) >= maxSize
        BY <1>1, <3>1, <4>1, RingFull
      <4> QED BY <1>1, <2>1, <4>2 DEF EnqueueInv
    <3> QED BY <1>1, <2>1, <2>2, <2>3, <2>5, <3>1, <3>2 DEF EnqueueInv
  <2> QED BY <2>4, <2>5
<1>5. CASE Construct
  <2>1. /\ UNCHANGED <<maxSize, size, front, frontBlock, tailBlock, tail, queue, fullAtCall, pVal, pBlk>>
        /\ data' = [data EXCEPT ![pBlk][tail[pBlk]] = pVal]
        /\ pPC \in {"construct", "constructNext"}
        /\ pPC' = IF pPC = "construct" THEN "publish" ELSE "publishNext"
    BY <1>5 DEF Construct, ProdGoto, blockVars, consOwned, prodOwned
  <2>2. data'[pBlk][tail[pBlk]] = pVal
    <3>1. pBlk \in Blocks /\ tail[pBlk] \in Slots
      BY <1>1, <2>1, Basics DEF ProducerInv
    <3> QED BY <1>1, <2>1, <3>1
  <2>3. Queued(tailBlock)' = Queued(tailBlock)
    BY <2>1 DEF Queued
  <2> QED BY <1>1, <2>1, <2>2, <2>3 DEF EnqueueInv
<1>6. CASE PublishTail
  BY <1>6 DEF PublishTail, ProdReturn, EnqueueInv
<1>7. CASE CheckNextBlock
  <2>1. /\ UNCHANGED <<maxSize, size, front, frontBlock, tailBlock, tail, data, queue>> /\ pPC = "checkNext"
        /\ \/ pPC' = "loadNext" /\ UNCHANGED <<fullAtCall, pVal, pOp>>
           \/ pPC' = "alloc" /\ pOp = "enqueue" /\ UNCHANGED <<fullAtCall, pVal, pOp>>
           \/ pPC' = "idle" /\ pVal' = NULL /\ fullAtCall' = FALSE
    BY <1>7 DEF CheckNextBlock, ProdGoto, ProdReturn, blockVars, consOwned, prodOwned
  <2>2. Queued(tailBlock)' = Queued(tailBlock)
    BY <2>1 DEF Queued
  <2> QED BY <1>1, <2>1, <2>2 DEF EnqueueInv
<1>8. CASE LoadNextBlock
  <2>1. /\ UNCHANGED <<maxSize, size, front, frontBlock, tailBlock, tail, data, queue, fullAtCall, pVal>>
        /\ pPC = "loadNext" /\ pPC' = "constructNext"
    BY <1>8 DEF LoadNextBlock, blockVars, consOwned
  <2>2. Queued(tailBlock)' = Queued(tailBlock)
    BY <2>1 DEF Queued
  <2> QED BY <1>1, <2>1, <2>2 DEF EnqueueInv
<1>9. CASE PublishNextTail
  <2>1. /\ UNCHANGED <<maxSize, size, front, frontBlock, tailBlock, data, queue, fullAtCall, pVal, pBlk>>
        /\ tail' = [tail EXCEPT ![pBlk] = Succ(size[pBlk], @)]
        /\ pPC = "publishNext" /\ pPC' = "advance"
    BY <1>9 DEF PublishNextTail, ProdGoto, blockVars, consOwned
  <2>2. pBlk \in Blocks /\ pBlk \in 1 .. nblocks /\ pBlk # tailBlock /\ front[pBlk] = tail[pBlk]
    BY <1>1, <2>1, Basics, Places DEF ProducerInv
  <2>3. Queued(tailBlock)' = Queued(tailBlock)
    BY <1>1, <1>2, <2>1, <2>2 DEF Queued
  <2>4. Queued(pBlk)' = 1
    <3>1. size[pBlk] \in Nat /\ size[pBlk] >= 2 /\ front[pBlk] \in 0 .. size[pBlk] - 1
      BY <1>1, <2>2, Basics
    <3>2. tail'[pBlk] = Succ(size[pBlk], front[pBlk])
      BY <1>1, <2>1, <2>2
    <3> QED BY <2>1, <3>1, <3>2 DEF Queued, Succ
  <2>5. data[pBlk][front[pBlk]] = pVal
    BY <1>1, <2>1, <2>2 DEF EnqueueInv
  <2> QED BY <1>1, <2>1, <2>3, <2>4, <2>5 DEF EnqueueInv
<1>10. CASE AllocateBlock
  <2> DEFINE n == nblocks + 1
  <2>1. /\ UNCHANGED <<maxSize, front, frontBlock, tailBlock, queue, fullAtCall, pVal>>
        /\ \E z : size' = [size EXCEPT ![n] = z]
        /\ data' = [data EXCEPT ![n][0] = pVal]
        /\ tail' = [tail EXCEPT ![n] = 1]
        /\ pPC = "alloc" /\ pPC' = "link" /\ pBlk' = n /\ n \in Blocks
    <3>1. n \in Blocks
      BY <1>2, <1>10, QueueAssumption DEF AllocateBlock, Blocks, QueueAssumption
    <3>2. size' = [size EXCEPT ![n] = size'[n]]
      BY <1>1, <1>10, <3>1 DEF AllocateBlock
    <3> QED BY <1>10, <3>1, <3>2 DEF AllocateBlock
  <2>2. Queued(tailBlock)' = Queued(tailBlock) /\ size'[tailBlock] = size[tailBlock]
    BY <1>1, <1>2, <2>1 DEF Queued
  <2>3. front[n] = 0
    BY <1>1, <1>2, <2>1 DEF BlockInv, FreshInv, Blocks
  <2>4. Queued(pBlk)' = 1
    BY <1>1, <2>1, <2>3 DEF Queued
  <2>5. data'[n][0] = pVal
    BY <1>1, <2>1, Basics
  <2> QED BY <1>1, <2>1, <2>2, <2>3, <2>4, <2>5 DEF EnqueueInv
<1>11. CASE AllocationFails
  BY <1>11 DEF AllocationFails, ProdReturn, EnqueueInv
<1>12. CASE LinkBlock
  <2>1. /\ UNCHANGED <<maxSize, size, front, frontBlock, tailBlock, tail, data, queue, fullAtCall, pVal, pBlk>>
        /\ pPC = "link" /\ pPC' = "advance"
    BY <1>12 DEF LinkBlock, ProdGoto, consOwned, prodOwned
  <2>2. \A b : Queued(b)' = Queued(b)
    BY <2>1 DEF Queued
  <2> QED BY <1>1, <2>1, <2>2 DEF EnqueueInv
<1>13. CASE AdvanceTailBlock
  BY <1>13 DEF AdvanceTailBlock, ProdReturn, EnqueueInv
<1> QED BY <1>3, <1>4, <1>5, <1>6, <1>7, <1>8, <1>9, <1>10, <1>11, <1>12, <1>13 DEF Producer

(* The producer does not disturb a dequeue in progress. *)
LEMMA DequeueUndisturbed ==
  ASSUME IndInv, Producer
  PROVE  DequeueInv'
<1>1. /\ BlockInv /\ TypeOK /\ ProducerInv /\ DequeueInv /\ queue \in Seq(Vals)
      /\ tail \in [Blocks -> Slots]
  <2>1. BlockInv /\ QueueInv /\ DequeueInv
    BY DEF IndInv, FifoInv
  <2>2. TypeOK /\ ProducerInv
    BY <2>1 DEF BlockInv
  <2> QED BY <2>1, <2>2 DEF QueueInv, TypeOK, IndexTypeOK
<1>2. UNCHANGED <<front, frontBlock, cPC, cBlk, emptyAtCall>>
  BY DEF Producer, EnqueueCall, RefreshFront, Construct, PublishTail, CheckNextBlock, LoadNextBlock,
     PublishNextTail, AllocateBlock, AllocationFails, LinkBlock, AdvanceTailBlock, consOwned, consVars
<1>3. frontBlock \in Blocks /\ frontBlock \in 1 .. nblocks
  BY <1>1, Places, RingBasics
<1>4. CASE UNCHANGED <<queue, tailBlock, tail>>
  BY <1>1, <1>2, <1>4 DEF DequeueInv
<1>5. CASE PublishTail
  <2>1. UNCHANGED tailBlock /\ tail' = [tail EXCEPT ![pBlk] = Succ(size[pBlk], @)] /\ queue' = Append(queue, pVal)
        /\ pBlk = tailBlock /\ pVal \in Vals
    BY <1>1, <1>5 DEF PublishTail, ProducerInv
  <2>2. queue' # <<>>
    BY <1>1, <2>1
  <2>3. cPC = "take" /\ cBlk # frontBlock => tail'[frontBlock] = tail[frontBlock]
    BY <1>1, <1>3, <2>1, Places
  <2> QED BY <1>1, <1>2, <2>1, <2>2, <2>3 DEF DequeueInv
<1>6. CASE PublishNextTail
  <2>1. UNCHANGED <<queue, tailBlock>> /\ tail' = [tail EXCEPT ![pBlk] = Succ(size[pBlk], @)] /\ pBlk # frontBlock
    BY <1>1, <1>6, Places DEF PublishNextTail
  <2>2. tail'[frontBlock] = tail[frontBlock]
    BY <1>1, <1>3, <2>1
  <2> QED BY <1>1, <1>2, <2>1, <2>2 DEF DequeueInv
<1>7. CASE AllocateBlock
  <2>1. UNCHANGED <<queue, tailBlock>> /\ tail' = [tail EXCEPT ![nblocks + 1] = 1]
    BY <1>7 DEF AllocateBlock
  <2>2. tail'[frontBlock] = tail[frontBlock]
    BY <1>1, <1>3, <2>1, Basics
  <2> QED BY <1>1, <1>2, <2>1, <2>2 DEF DequeueInv
<1>8. CASE AdvanceTailBlock
  <2>1. UNCHANGED tail /\ queue' = Append(queue, pVal) /\ tailBlock' = pBlk /\ pVal \in Vals /\ pBlk # frontBlock
    BY <1>1, <1>8, Places DEF AdvanceTailBlock, ProducerInv
  <2>2. queue' # <<>>
    BY <1>1, <2>1
  <2> QED BY <1>1, <1>2, <2>1, <2>2 DEF DequeueInv
<1> QED BY <1>4, <1>5, <1>6, <1>7, <1>8 DEF Producer, EnqueueCall, RefreshFront, Construct, CheckNextBlock,
     LoadNextBlock, AllocationFails, LinkBlock, prodOwned

(* The consumer's own steps. *)
LEMMA DequeueProgress ==
  ASSUME IndInv, Consumer
  PROVE  DequeueInv'
<1>1. BlockInv /\ TypeOK /\ ConsumerInv /\ QueueInv /\ DequeueInv
  <2>1. BlockInv /\ QueueInv /\ DequeueInv
    BY DEF IndInv, FifoInv
  <2> QED BY <2>1 DEF BlockInv
<1>2. UNCHANGED <<tail, tailBlock>>
  BY DEF Consumer, DequeueCall, RefreshTail, CheckTailBlock, RecheckFrontBlock, LoadNext, LoadNextTail,
     AdvanceFrontBlock, TakeElement, ReleaseSlot, PeekElement, prodOwned
<1>3. ASSUME NEW op \in {"try_dequeue", "peek"}, DequeueCall(op)
      PROVE  DequeueInv'
  <2>1. /\ UNCHANGED <<front, frontBlock, queue>> /\ cBlk' = frontBlock
        /\ cPC' \in {"take", "refresh"} /\ emptyAtCall' = (queue = <<>>)
    BY <1>3 DEF DequeueCall, consOwned
  <2>2. ~ emptyAtCall' => queue' # <<>>
    <3>1. CASE queue = <<>>
      BY <2>1, <3>1
    <3>2. CASE queue # <<>>
      BY <2>1, <3>2
    <3> QED BY <3>1, <3>2
  <2> QED BY <2>1, <2>2 DEF DequeueInv
<1>4. CASE RefreshTail
  <2>1. /\ UNCHANGED <<front, frontBlock, queue, cBlk, emptyAtCall>> /\ cBlk = frontBlock /\ cPC = "refresh"
        /\ cPC' = IF front[cBlk] # tail[cBlk] THEN "take" ELSE "checkTailBlock"
    BY <1>1, <1>4 DEF RefreshTail, ConsGoto, ConsumerInv
  <2>2. CASE front[cBlk] # tail[cBlk]
    BY <1>1, <2>1, <2>2 DEF DequeueInv
  <2>3. CASE front[cBlk] = tail[cBlk]
    <3>1. tailBlock = frontBlock => queue = <<>>
      <4> SUFFICES ASSUME tailBlock = frontBlock
                   PROVE  queue = <<>>
        OBVIOUS
      <4>1. PICK pos \in [1 .. RingLength -> 0 .. RingLength - 1] :
              RingWitness(pos) /\ \E start \in [1 .. RingLength -> 0 .. Len(queue)] : Segments(pos, start)
        BY <1>1 DEF QueueInv
      <4>2. PICK start \in [1 .. RingLength -> 0 .. Len(queue)] : Segments(pos, start)
        BY <4>1
      <4>3. Queued(frontBlock) = 0
        BY <1>1, <2>1, <2>3, BlockIs, Places, RingBasics
      <4>4. Len(queue) = 0
        BY <4>2, <4>3 DEF Segments
      <4> QED BY <1>1, <4>4 DEF QueueInv
    <3> QED BY <1>1, <1>2, <2>1, <2>3, <3>1 DEF DequeueInv
  <2> QED BY <2>2, <2>3
<1>5. CASE CheckTailBlock
  BY <1>1, <1>5 DEF CheckTailBlock, ConsGoto, ConsReturn, DequeueInv
<1>6. CASE RecheckFrontBlock
  BY <1>1, <1>6 DEF RecheckFrontBlock, ConsGoto, ConsumerInv, DequeueInv
<1>7. CASE LoadNext
  BY <1>1, <1>7 DEF LoadNext, consOwned, DequeueInv
<1>8. CASE LoadNextTail
  BY <1>1, <1>2, <1>8, Places DEF LoadNextTail, ConsGoto, consOwned, DequeueInv
<1>9. CASE AdvanceFrontBlock
  BY <1>1, <1>9 DEF AdvanceFrontBlock, ConsGoto, DequeueInv
<1>10. CASE TakeElement
  BY <1>1, <1>10 DEF TakeElement, DequeueInv
<1>11. CASE ReleaseSlot
  BY <1>11 DEF ReleaseSlot, ConsReturn, DequeueInv
<1>12. CASE PeekElement
  BY <1>12 DEF PeekElement, ConsReturn, DequeueInv
<1> QED BY <1>3, <1>4, <1>5, <1>6, <1>7, <1>8, <1>9, <1>10, <1>11, <1>12 DEF Consumer

(* The constructor leaves an empty queue. *)
LEMMA InitIndInv ==
  ASSUME Init
  PROVE  IndInv
<1>1. BlockInv /\ TypeOK
  BY InitBlockInv DEF BlockInv
<1>2. PICK pos \in [1 .. RingLength -> 0 .. RingLength - 1] : RingWitness(pos)
  BY <1>1 DEF BlockInv, RingInv
<1>3. /\ queue = <<>> /\ Len(queue) = 0 /\ frontBlock = tailBlock
      /\ \A b \in 1 .. nblocks : Queued(b) = 0
  <2>1. \A b \in 1 .. nblocks : front[b] = 0 /\ tail[b] = 0
    BY <1>1, Basics DEF Init
  <2> QED BY <2>1 DEF Init, Queued
<1>4. /\ RingLength = nblocks /\ nblocks \in Nat
      /\ frontBlock \in 1 .. RingLength /\ pos[frontBlock] = 0
      /\ \A b \in 1 .. RingLength : pos[b] \in Nat
      /\ \A b, c \in 1 .. RingLength : pos[b] = pos[c] => b = c
  <2>1. RingLength = nblocks /\ nblocks \in Nat
    BY <1>1, Basics DEF Init, RingLength
  <2> QED BY <1>2, <2>1 DEF RingWitness, RingShape
<1>5. Used(pos) = {frontBlock}
  BY <1>3, <1>4 DEF Used
<1>6. PICK start \in [1 .. RingLength -> 0 .. Len(queue)] : start[frontBlock] = 0
  <2> DEFINE s == [b \in 1 .. RingLength |-> 0]
  <2>1. s \in [1 .. RingLength -> 0 .. Len(queue)] /\ s[frontBlock] = 0
    BY <1>3, <1>4
  <2> QED BY <2>1
<1>7. Segments(pos, start)
  <2>1. Holds(start, frontBlock)
    BY <1>3, <1>4, <1>6 DEF Holds
  <2>2. ~ (pos[frontBlock] < pos[frontBlock])
    BY <1>4
  <2> QED BY <1>3, <1>4, <1>5, <1>6, <2>1, <2>2 DEF Segments
<1>8. QueueInv
  BY <1>2, <1>3, <1>7 DEF QueueInv
<1>9. CapacityInv
  <2>1. FirstBlockSize(maxSize) \in Nat
    BY <1>1, CapacityGrows
  <2>2. InitialBlockCount(maxSize) \in Nat
    BY <1>1, FirstBlockBasics DEF TypeOK, ListTypeOK, Blocks
  <2>3. \A b \in 1 .. nblocks : size[b] = FirstBlockSize(maxSize)
    BY <1>1, Basics DEF Init
  <2>4. nblocks = InitialBlockCount(maxSize) /\ largestBlockSize = FirstBlockSize(maxSize)
    BY DEF Init
  <2> QED BY <1>4, <2>1, <2>2, <2>3, <2>4 DEF CapacityInv
<1>10. EnqueueInv /\ DequeueInv
  BY DEF Init, EnqueueInv, DequeueInv
<1> QED BY <1>1, <1>8, <1>9, <1>10 DEF IndInv, FifoInv

(* A step that changes nothing. *)
LEMMA StutterFifo ==
  ASSUME IndInv, UNCHANGED vars
  PROVE  EnqueueInv' /\ DequeueInv'
<1> USE DEF vars
<1>1. EnqueueInv /\ DequeueInv
  BY DEF IndInv, FifoInv
<1>2. RingLength' = RingLength /\ Queued(pBlk)' = Queued(pBlk) /\ Queued(tailBlock)' = Queued(tailBlock)
  BY DEF RingLength, Queued
<1> QED BY <1>1, <1>2 DEF EnqueueInv, DequeueInv

(* IndInv, BlockInv and what ties the blocks to the history queue, is an invariant. *)
THEOREM Invariance == Spec => []IndInv
<1>1. Init => IndInv
  BY InitIndInv
<1>2. IndInv /\ BlockInv' /\ [Next]_vars => IndInv'
  <2> SUFFICES ASSUME IndInv, BlockInv', [Next]_vars
               PROVE  IndInv'
    OBVIOUS
  <2>1. QueueInv' /\ CapacityInv'
    BY QueueStep, CapacityStep
  <2>2. EnqueueInv' /\ DequeueInv'
    BY EnqueueUndisturbed, EnqueueProgress, DequeueUndisturbed, DequeueProgress, StutterFifo DEF Next
  <2> QED BY <2>1, <2>2 DEF IndInv, FifoInv
<1> QED BY <1>1, <1>2, BlockInvariance, PTL DEF Spec

(* A thread is idle in SpscQueue exactly if it is idle here. *)
LEMMA IdleMapped ==
  ASSUME IndInv
  PROVE  /\ pPC = "idle" <=> [op |-> pOp, val |-> pVal, full |-> fullAtCall] = Fifo!IdleProducer
         /\ cPC = "idle" <=> [op |-> cOp, empty |-> emptyAtCall] = Fifo!IdleConsumer
<1>1. ProducerInv /\ ConsumerInv /\ FlagTypeOK /\ EnqueueInv /\ DequeueInv
  BY DEF IndInv, FifoInv, BlockInv, TypeOK
<1>2. pPC = "idle" => pOp = "idle" /\ pVal = NULL /\ fullAtCall = FALSE
  BY <1>1 DEF ProducerInv, EnqueueInv, FlagTypeOK
<1>3. pPC # "idle" => pOp # "idle"
  BY <1>1 DEF ProducerInv
<1>4. cPC = "idle" => cOp = "idle" /\ emptyAtCall = FALSE
  BY <1>1 DEF ConsumerInv, DequeueInv, FlagTypeOK
<1>5. cPC # "idle" => cOp # "idle"
  BY <1>1 DEF ConsumerInv
<1> QED BY <1>2, <1>3, <1>4, <1>5 DEF Fifo!IdleProducer, Fifo!IdleConsumer

(* Each step of the producer is a step of SpscQueue or invisible there. *)
LEMMA ProducerRefines ==
  ASSUME IndInv, Producer
  PROVE  Fifo!Next \/ UNCHANGED Fifo!vars
<1> USE DEF Fifo!vars
<1>1. BlockInv /\ ProducerInv /\ QueueInv /\ CapacityInv /\ EnqueueInv
  <2>1. BlockInv /\ QueueInv /\ CapacityInv /\ EnqueueInv
    BY DEF IndInv, FifoInv
  <2> QED BY <2>1 DEF BlockInv
<1>2. UNCHANGED <<maxSize, cOp, emptyAtCall, out>>
  BY DEF Producer, EnqueueCall, RefreshFront, Construct, PublishTail, CheckNextBlock, LoadNextBlock,
     PublishNextTail, AllocateBlock, AllocationFails, LinkBlock, AdvanceTailBlock, blockVars, consVars
<1>3. ASSUME UNCHANGED <<queue, pOp, pVal, fullAtCall>>
      PROVE  UNCHANGED Fifo!vars
  BY <1>2, <1>3
<1>4. ASSUME pPC # "idle", ProdReturn
      PROVE  /\ [op |-> pOp, val |-> pVal, full |-> fullAtCall] # Fifo!IdleProducer
             /\ [op |-> pOp, val |-> pVal, full |-> fullAtCall]' = Fifo!IdleProducer
  BY <1>4, IdleMapped DEF ProdReturn, Fifo!IdleProducer
<1>5. ASSUME NEW op \in {"try_enqueue", "enqueue"}, NEW v \in Vals, EnqueueCall(op, v)
      PROVE  Fifo!EnqueueCall(op, v)
  BY <1>2, <1>5, IdleMapped DEF EnqueueCall, Fifo!EnqueueCall
<1>6. CASE PublishTail \/ AdvanceTailBlock
  <2>1. Fifo!EnqueueCommit
    BY <1>2, <1>4, <1>6 DEF PublishTail, AdvanceTailBlock, Fifo!EnqueueCommit
  <2> QED BY <2>1 DEF Fifo!Next
<1>7. CASE AllocationFails
  <2>1. Fifo!EnqueueFail
    <3>1. pOp = "enqueue" /\ ProdReturn /\ pPC # "idle" /\ UNCHANGED queue
      BY <1>1, <1>7 DEF AllocationFails, EnqueueInv
    <3> QED BY <1>2, <1>4, <3>1 DEF Fifo!EnqueueFail
  <2> QED BY <2>1 DEF Fifo!Next
<1>8. CASE CheckNextBlock
  <2>1. pPC = "checkNext" /\ UNCHANGED queue
    BY <1>8 DEF CheckNextBlock
  <2>2. CASE next[pBlk] = frontBlock /\ pOp = "try_enqueue" /\ ProdReturn
    <3>1. fullAtCall
      <4> SUFFICES ASSUME ~ fullAtCall
                   PROVE  FALSE
        OBVIOUS
      <4>1. RingLength > 1 /\ pBlk = tailBlock /\ Len(queue) < maxSize /\ Len(queue) \in Nat
        BY <1>1, <2>1 DEF EnqueueInv, ProducerInv, QueueInv
      <4>2. tailBlock # frontBlock
        <5>1. PICK pos \in [1 .. RingLength -> 0 .. RingLength - 1] : RingWitness(pos)
          BY <1>1 DEF QueueInv
        <5>2. tailBlock \in 1 .. RingLength /\ pos[tailBlock] \in Nat /\ next[tailBlock] = frontBlock /\ pos[frontBlock] = 0
              /\ pos[next[tailBlock]] = IF pos[tailBlock] = RingLength - 1 THEN 0 ELSE pos[tailBlock] + 1
          BY <2>2, <4>1, <5>1 DEF RingWitness, RingShape
        <5>3. pos[tailBlock] = RingLength - 1 /\ RingLength \in Nat
          BY <1>1, <5>2, RingBasics DEF BlockInv
        <5> QED BY <4>1, <5>2, <5>3
      <4>3. Queued(tailBlock) = size[tailBlock] - 1
        BY <1>1, <2>1, <4>2 DEF EnqueueInv
      <4>4. Len(queue) >= maxSize
        BY <1>1, <2>2, <4>1, <4>3, RingFull
      <4>5. maxSize \in Nat
        BY <1>1, QueueAssumption DEF BlockInv, TypeOK, ListTypeOK, QueueAssumption
      <4> QED BY <4>1, <4>4, <4>5
    <3>2. Fifo!EnqueueFail
      BY <1>2, <1>4, <2>1, <2>2, <3>1 DEF Fifo!EnqueueFail
    <3> QED BY <3>2 DEF Fifo!Next
  <2>3. CASE UNCHANGED <<pOp, pVal, fullAtCall>>
    BY <1>3, <2>1, <2>3
  <2> QED BY <1>8, <2>2, <2>3 DEF CheckNextBlock, ProdGoto
<1>9. CASE RefreshFront \/ Construct \/ LoadNextBlock \/ PublishNextTail \/ AllocateBlock \/ LinkBlock
  BY <1>3, <1>9 DEF RefreshFront, Construct, LoadNextBlock, PublishNextTail, AllocateBlock, LinkBlock, ProdGoto
<1> QED BY <1>5, <1>6, <1>7, <1>8, <1>9 DEF Producer, Fifo!Next

(* Each step of the consumer is a step of SpscQueue or invisible there. *)
LEMMA ConsumerRefines ==
  ASSUME IndInv, Consumer
  PROVE  Fifo!Next \/ UNCHANGED Fifo!vars
<1> USE DEF Fifo!vars
<1>1. BlockInv /\ ConsumerInv /\ QueueInv /\ DequeueInv
  <2>1. BlockInv /\ QueueInv /\ DequeueInv
    BY DEF IndInv, FifoInv
  <2> QED BY <2>1 DEF BlockInv
<1>2. UNCHANGED <<maxSize, pOp, pVal, fullAtCall>>
  BY DEF Consumer, DequeueCall, RefreshTail, CheckTailBlock, RecheckFrontBlock, LoadNext, LoadNextTail,
     AdvanceFrontBlock, TakeElement, ReleaseSlot, PeekElement, blockVars, prodVars
<1>3. ASSUME UNCHANGED <<queue, cOp, out, emptyAtCall>>
      PROVE  UNCHANGED Fifo!vars
  BY <1>2, <1>3
<1>4. ASSUME NEW v, ConsReturn(v), cPC # "idle"
      PROVE  /\ [op |-> cOp, empty |-> emptyAtCall] # Fifo!IdleConsumer
             /\ [op |-> cOp, empty |-> emptyAtCall]' = Fifo!IdleConsumer
             /\ out' = v
  BY <1>4, IdleMapped DEF ConsReturn, Fifo!IdleConsumer
<1>5. ASSUME NEW op \in {"try_dequeue", "peek"}, DequeueCall(op)
      PROVE  Fifo!DequeueCall(op)
  BY <1>2, <1>5, IdleMapped DEF DequeueCall, Fifo!DequeueCall
<1>6. CASE CheckTailBlock
  <2>1. cPC = "checkTailBlock" /\ UNCHANGED queue
    BY <1>6 DEF CheckTailBlock
  <2>2. CASE cBlk = tailBlock /\ ConsReturn(NULL)
    <3>1. emptyAtCall
      BY <1>1, <2>1, <2>2 DEF ConsumerInv, DequeueInv
    <3>2. Fifo!DequeueEmpty
      BY <1>2, <1>4, <2>1, <2>2, <3>1 DEF Fifo!DequeueEmpty
    <3> QED BY <3>2 DEF Fifo!Next
  <2>3. CASE UNCHANGED <<cOp, out, emptyAtCall>>
    BY <1>3, <2>1, <2>3
  <2> QED BY <1>6, <2>2, <2>3 DEF CheckTailBlock, ConsGoto
<1>7. CASE ReleaseSlot
  <2>1. cPC = "release" /\ cOp = "try_dequeue" /\ ConsReturn(cVal) /\ queue' = Tail(queue)
    BY <1>1, <1>7 DEF ReleaseSlot, ConsumerInv
  <2>2. queue # <<>> /\ Head(queue) = cVal
    BY <1>1, <2>1, FrontElement DEF ElementAt
  <2>3. Fifo!DequeueCommit
    BY <1>2, <1>4, <2>1, <2>2 DEF Fifo!DequeueCommit
  <2> QED BY <2>3 DEF Fifo!Next
<1>8. CASE PeekElement
  <2>1. cPC = "take" /\ cOp = "peek" /\ ConsReturn(data[cBlk][front[cBlk]]) /\ UNCHANGED queue
    BY <1>8 DEF PeekElement
  <2>2. queue # <<>> /\ Head(queue) = data[cBlk][front[cBlk]]
    BY <1>1, <2>1, FrontElement DEF ElementAt
  <2>3. Fifo!PeekCommit
    BY <1>2, <1>4, <2>1, <2>2 DEF Fifo!PeekCommit
  <2> QED BY <2>3 DEF Fifo!Next
<1>9. CASE RefreshTail \/ RecheckFrontBlock \/ LoadNext \/ LoadNextTail \/ AdvanceFrontBlock \/ TakeElement
  BY <1>3, <1>9 DEF RefreshTail, RecheckFrontBlock, LoadNext, LoadNextTail, AdvanceFrontBlock, TakeElement, ConsGoto
<1> QED BY <1>5, <1>6, <1>7, <1>8, <1>9 DEF Consumer, Fifo!Next

(* FifoSpec: the queue is a linearizable FIFO.  Elements come out once and in order; the    *)
(* answer "empty" is given only when it was at the call, "full" only with maxSize elements *)
(* queued.                                                                                 *)
THEOREM Refinement == Spec => FifoSpec
<1>1. Init => Fifo!Init
  <2> SUFFICES ASSUME Init
               PROVE  Fifo!Init
    OBVIOUS
  <2>1. maxSize \in Nat
    BY QueueAssumption DEF Init, QueueAssumption
  <2> QED BY <2>1 DEF Init, Fifo!Init, Fifo!IdleProducer, Fifo!IdleConsumer
<1>2. IndInv /\ [Next]_vars => [Fifo!Next]_Fifo!vars
  <2> SUFFICES ASSUME IndInv, [Next]_vars
               PROVE  Fifo!Next \/ UNCHANGED Fifo!vars
    OBVIOUS
  <2>1. CASE UNCHANGED vars
    BY <2>1 DEF vars, Fifo!vars
  <2> QED BY <2>1, ProducerRefines, ConsumerRefines DEF Next
<1> QED
  BY <1>1, <1>2, Invariance, PTL DEF Spec, FifoSpec, Fifo!Spec
=============================================================================
