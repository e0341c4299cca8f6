------------------------------ MODULE MixBuffer ------------------------------
(***************************************************************************)
(* CRingBuffer (ringbuffer.cpp): a ring of samples with one read index and *)
(* a write index that its user sets before each push, one per client.      *)
(* What a client pushes is mixed with what is there already, then appended.*)
(*                                                                         *)
(* A ring is [buf, read, length]; the write index is an argument, since    *)
(* nothing reads m_WriteIndex before SetWriteIndex.                        *)
(***************************************************************************)
EXTENDS Integers, Sequences

CONSTANTS
  BufferSize,            \* m_BufferSize: 32768
  SizeT,                 \* 2^w, w the width of size_t
  INT16_MIN, INT16_MAX   \* bounds of a sample

ASSUME MixBufferAssumption ==
  /\ BufferSize \in Nat \ {0}
  /\ SizeT \in Nat \ {0} /\ SizeT % BufferSize = 0
  /\ INT16_MIN \in Int /\ INT16_MAX \in Nat /\ INT16_MIN <= 0

Cells      == 0 .. BufferSize - 1
AllSamples == INT16_MIN .. INT16_MAX

EmptyRing == [buf |-> [i \in Cells |-> 0], read |-> 0, length |-> 0]

(* The distance from index b on to index a, in size_t. *)
Distance(a, b) == ((a - b) % SizeT) % BufferSize

CurrentLength(ring, w) == Distance(w, ring.read)

CurrentFree(ring, w) ==
  LET free == Distance(ring.read, w)
  IN  (IF free # 0 THEN free ELSE BufferSize) - 1

(* An index after n samples, in one piece or in two. *)
Advance(i, n) ==
  LET end == IF i + n > BufferSize THEN n - (BufferSize - i) ELSE i + n
  IN  IF end = BufferSize THEN 0 ELSE end

Popped(ring, n) == [ring EXCEPT !.read = Advance(@, n), !.length = @ - n]

MixWrapsAround(old, new) ==
  IF old + new > INT16_MAX THEN INT16_MIN ELSE old + new

Mix(old, new) ==
  IF old + new > INT16_MAX THEN INT16_MAX
  ELSE IF old + new < INT16_MIN THEN INT16_MIN ELSE old + new

(* The cells from w on get the data, the first of it mixed with what they hold. *)
Stored(buf, w, data, mixed) ==
  [i \in Cells |->
    LET k == Distance(i, w) + 1
    IN  IF k > Len(data) THEN buf[i] ELSE IF k <= mixed THEN Mix(buf[i], data[k]) ELSE data[k]]

(* What a push at w has in front of it: samples to mix with. *)
ToMix(ring, w, samples) ==
  LET ahead == ring.length - CurrentLength(ring, w)
  IN  IF ahead <= 0 THEN 0 ELSE IF samples < ahead THEN samples ELSE ahead

PushCountsAll(ring, w, data) ==
  LET mixed == ToMix(ring, w, Len(data))
  IN  [ring EXCEPT !.buf = Stored(@, w, data, mixed), !.length = @ + Len(data)]

(* Push of data that fits, and where it leaves the write index. *)
Push(ring, w, data) ==
  LET mixed == ToMix(ring, w, Len(data))
  IN  [ring EXCEPT !.buf = Stored(@, w, data, mixed), !.length = @ + Len(data) - mixed]

WriteEnd(ring, w, samples) ==
  LET mixed == ToMix(ring, w, samples) IN Advance(Advance(w, mixed), samples - mixed)
=============================================================================
