----------------------- MODULE ReaderWriterQueueProofs -----------------------
(***************************************************************************)
(* Theorems about ReaderWriterQueue, for every block size, every number    *)
(* of blocks and every constructor argument.  The argument: BlockInv holds *)
(* initially and every step preserves it; the invariants follow from it.   *)
(*                                                                         *)
(*   - arithmetic of indices (TailAdvances .. ShadowsRefresh): the four    *)
(*     indices of a block stay in circular order;                          *)
(*   - the ring of blocks (RingBasics .. ReleaseSlotRing): where the front *)
(*     and the tail block are, and which blocks are empty;                 *)
(*   - one lemma <Action>Step per action, one step per part of BlockInv;   *)
(*   - the theorems.                                                       *)
(***************************************************************************)
EXTENDS ReaderWriterQueue, TLAPS

(* What the type invariant gives for an existing block: its indices are within it. *)
LEMMA Basics ==
  ASSUME TypeOK
  PROVE  /\ nblocks \in Nat /\ MaxBlocks \in Nat
         /\ Slots \subseteq Nat /\ 0 \in Slots /\ 1 \in Slots
         /\ \A b \in 1 .. nblocks :
              /\ b \in Blocks
              /\ size[b] \in Nat /\ size[b] >= 2
              /\ \A i \in 0 .. size[b] - 1 : i \in Slots /\ Succ(size[b], i) \in 0 .. size[b] - 1
              /\ front[b] \in 0 .. size[b] - 1 /\ localTail[b] \in 0 .. size[b] - 1
              /\ tail[b] \in 0 .. size[b] - 1 /\ localFront[b] \in 0 .. size[b] - 1
<1>1. nblocks \in Nat /\ MaxBlocks \in Nat /\ \A b \in 1 .. nblocks : b \in Blocks
  BY QueueAssumption DEF QueueAssumption, TypeOK, ListTypeOK, IndexTypeOK, Blocks
<1>2. Slots \subseteq Nat /\ 0 \in Slots /\ 1 \in Slots
  BY QueueAssumption DEF QueueAssumption, Slots
<1>3. ASSUME NEW b \in 1 .. nblocks
      PROVE  size[b] \in 2 .. MAX_BLOCK_SIZE * 2
  BY <1>1, QueueAssumption DEF QueueAssumption, TypeOK, ListTypeOK, IndexTypeOK
<1>4. ASSUME NEW b \in 1 .. nblocks
      PROVE  /\ front[b] \in 0 .. size[b] - 1 /\ localTail[b] \in 0 .. size[b] - 1
             /\ tail[b] \in 0 .. size[b] - 1 /\ localFront[b] \in 0 .. size[b] - 1
  <2>1. /\ front[b] \in Nat /\ front[b] < size[b]
        /\ localTail[b] \in Nat /\ localTail[b] < size[b]
        /\ tail[b] \in Nat /\ tail[b] < size[b]
        /\ localFront[b] \in Nat /\ localFront[b] < size[b]
    BY <1>1, <1>2 DEF TypeOK, IndexTypeOK
  <2> QED
    BY <1>3, <2>1, QueueAssumption DEF QueueAssumption
<1>5. ASSUME NEW b \in 1 .. nblocks, NEW i \in 0 .. size[b] - 1
      PROVE  i \in Slots /\ Succ(size[b], i) \in 0 .. size[b] - 1
  BY <1>3, QueueAssumption DEF QueueAssumption, Succ, Slots
<1> QED
  BY <1>1, <1>2, <1>3, <1>4, <1>5, QueueAssumption DEF QueueAssumption

(* Circular arithmetic in a block of s slots. *)
Indices(s, lf, f, lt, t) ==
  /\ s \in Nat /\ s >= 2
  /\ lf \in 0 .. s - 1 /\ f \in 0 .. s - 1 /\ lt \in 0 .. s - 1 /\ t \in 0 .. s - 1
  /\ InOrder(s, lf, f, lt, t)

(* A test against a shadow index errs only towards "empty" or "full". *)
LEMMA ShadowsAreSafe ==
  ASSUME NEW s, NEW lf, NEW f, NEW lt, NEW t, Indices(s, lf, f, lt, t)
  PROVE  /\ f # lt => f # t
         /\ Succ(s, t) # lf => Succ(s, t) # f
BY DEF Indices, InOrder, Succ, Distance

(* Publishing an element keeps the order, and adds exactly the slot at the old tail. *)
LEMMA TailAdvances ==
  ASSUME NEW s, NEW lf, NEW f, NEW lt, NEW t, Indices(s, lf, f, lt, t), Succ(s, t) # lf
  PROVE  /\ Indices(s, lf, f, lt, Succ(s, t))
         /\ \A i \in 0 .. s - 1 :
              Distance(s, f, i) < Distance(s, f, Succ(s, t))
                <=> Distance(s, f, i) < Distance(s, f, t) \/ i = t
BY DEF Indices, InOrder, Succ, Distance

(* Releasing a slot keeps the order of the indices ... *)
LEMMA FrontAdvances ==
  ASSUME NEW s, NEW lf, NEW f, NEW lt, NEW t, Indices(s, lf, f, lt, t), f # lt
  PROVE  Indices(s, lf, Succ(s, f), lt, t)
BY DEF Indices, InOrder, Succ, Distance

(* ... and removes exactly the slot at the old front from the occupied ones. *)
LEMMA FrontLeavesSlot ==
  ASSUME NEW s, NEW lf, NEW f, NEW lt, NEW t, Indices(s, lf, f, lt, t), f # lt
  PROVE  \A i \in 0 .. s - 1 :
           Distance(s, Succ(s, f), i) < Distance(s, Succ(s, f), t)
             <=> Distance(s, f, i) < Distance(s, f, t) /\ i # f
BY DEF Indices, InOrder, Succ, Distance

(* The indices of every existing block are in order. *)
LEMMA IndicesOfBlocks ==
  ASSUME TypeOK, ShadowInv, NEW b \in 1 .. nblocks
  PROVE  Indices(size[b], localFront[b], front[b], localTail[b], tail[b])
BY Basics DEF ShadowInv, Indices

(* Reloading a shadow keeps the order. *)
LEMMA ShadowsRefresh ==
  ASSUME NEW s, NEW lf, NEW f, NEW lt, NEW t, Indices(s, lf, f, lt, t)
  PROVE  Indices(s, lf, f, t, t) /\ Indices(s, f, f, lt, t)
BY DEF Indices, InOrder, Distance

(* The tests of the two fast paths, for a block of the queue. *)
LEMMA IndexTests ==
  ASSUME TypeOK, ShadowInv, NEW b \in 1 .. nblocks
  PROVE  /\ front[b] # localTail[b] => front[b] # tail[b]
         /\ Succ(size[b], tail[b]) # localFront[b] => Succ(size[b], tail[b]) # front[b]
BY IndicesOfBlocks, ShadowsAreSafe

(* TailAdvances, for a block of the queue. *)
LEMMA LiveAfterPublish ==
  ASSUME TypeOK, ShadowInv, NEW b \in 1 .. nblocks, NEW i \in 0 .. size[b] - 1,
         Succ(size[b], tail[b]) # localFront[b]
  PROVE  Distance(size[b], front[b], i) < Distance(size[b], front[b], Succ(size[b], tail[b]))
           <=> Distance(size[b], front[b], i) < Distance(size[b], front[b], tail[b]) \/ i = tail[b]
BY IndicesOfBlocks, TailAdvances

(* FrontLeavesSlot, for a block of the queue. *)
LEMMA LiveAfterRelease ==
  ASSUME TypeOK, ShadowInv, NEW b \in 1 .. nblocks, NEW i \in 0 .. size[b] - 1,
         front[b] # localTail[b]
  PROVE  Distance(size[b], Succ(size[b], front[b]), i) < Distance(size[b], Succ(size[b], front[b]), tail[b])
           <=> Distance(size[b], front[b], i) < Distance(size[b], front[b], tail[b]) /\ i # front[b]
<1>1. Indices(size[b], localFront[b], front[b], localTail[b], tail[b])
  BY IndicesOfBlocks
<1> QED BY <1>1, FrontLeavesSlot

(* The blocks of the ring are the existing ones, but for one not yet linked. *)
LEMMA RingBasics ==
  ASSUME TypeOK
  PROVE  /\ RingLength \in Nat /\ RingLength <= nblocks
         /\ pPC # "link" => RingLength = nblocks
         /\ pPC = "link" => RingLength = nblocks - 1
         /\ \A b \in 1 .. RingLength : b \in 1 .. nblocks /\ b \in Blocks
BY Basics DEF RingLength, TypeOK, ListTypeOK

(* Where the blocks after the tail block and after the front block are. *)
LEMMA RingEnds ==
  ASSUME TypeOK, NEW pos \in [1 .. RingLength -> 0 .. RingLength - 1], RingShape(pos)
  PROVE  /\ frontBlock \in 1 .. RingLength /\ tailBlock \in 1 .. RingLength
         /\ pos[frontBlock] = 0 /\ pos[tailBlock] \in Nat /\ pos[tailBlock] < RingLength
         /\ pos[tailBlock] = 0 => tailBlock = frontBlock
         /\ next[tailBlock] \in 1 .. RingLength
         /\ next[tailBlock] # frontBlock => pos[tailBlock] < RingLength - 1
         /\ pos[tailBlock] < RingLength - 1 => pos[next[tailBlock]] = pos[tailBlock] + 1
         /\ pos[tailBlock] # 0 => next[frontBlock] \in 1 .. RingLength /\ pos[next[frontBlock]] = 1
<1>1. /\ frontBlock \in 1 .. RingLength /\ tailBlock \in 1 .. RingLength
      /\ pos[frontBlock] = 0 /\ pos[tailBlock] \in Nat /\ pos[tailBlock] < RingLength
  BY RingBasics DEF RingShape
<1>2. pos[tailBlock] = 0 => tailBlock = frontBlock
  BY <1>1 DEF RingShape
<1>3. /\ next[tailBlock] \in 1 .. RingLength
      /\ pos[next[tailBlock]] = IF pos[tailBlock] = RingLength - 1 THEN 0 ELSE pos[tailBlock] + 1
  BY <1>1 DEF RingShape
<1>4. pos[next[tailBlock]] = 0 => next[tailBlock] = frontBlock
  BY <1>1, <1>3 DEF RingShape
<1>5. /\ next[frontBlock] \in 1 .. RingLength
      /\ pos[next[frontBlock]] = IF pos[frontBlock] = RingLength - 1 THEN 0 ELSE pos[frontBlock] + 1
  BY <1>1 DEF RingShape
<1> QED BY <1>1, <1>2, <1>3, <1>4, <1>5, RingBasics

(* The assertions of the code at lines 478 and 270 hold wherever the ring is well *)
(* formed.                                                                        *)
LEMMA RingAsserts ==
  ASSUME TypeOK, ProducerInv, RingInv
  PROVE  BlockAssertions
<1>1. PICK pos \in [1 .. RingLength -> 0 .. RingLength - 1] : RingWitness(pos)
  BY DEF RingInv
<1>2. ASSUME pPC = "loadNext" PROVE front[next[pBlk]] = tail[next[pBlk]]
  <2>1. pBlk = tailBlock /\ next[pBlk] \in 1 .. RingLength /\ pos[next[pBlk]] = pos[tailBlock] + 1
        /\ pos[tailBlock] \in Nat
    BY <1>1, <1>2, RingBasics DEF RingWitness, RingShape, ProducerPlace, ProducerInv
  <2> QED BY <1>1, <1>2, <2>1 DEF RingWitness, RingFill
<1>3. ASSUME cPC = "loadNextTail" PROVE front[cBlk] # tail[cBlk]
  BY <1>1, <1>3, RingBasics DEF RingWitness, RingShape, RingFill, ConsumerPlace
<1> QED BY <1>2, <1>3 DEF BlockAssertions

(* The tail block gets an element: blocks beyond it stay empty. *)
LEMMA PublishTailRing ==
  ASSUME TypeOK, ProducerInv, ShadowInv, RingInv, PublishTail
  PROVE  RingInv'
<1>1. PICK pos \in [1 .. RingLength -> 0 .. RingLength - 1] : RingWitness(pos)
  BY DEF RingInv
<1>2. /\ RingLength' = RingLength /\ pPC = "publish" /\ pPC' = "idle"
      /\ UNCHANGED <<next, front, frontBlock, tailBlock, cPC, cBlk, nblocks>>
  BY DEF PublishTail, ProdReturn, RingLength, blockVars, consOwned, consVars
<1>3. pBlk = tailBlock /\ tailBlock \in Blocks /\ Succ(size[tailBlock], tail[tailBlock]) # front[tailBlock]
  BY <1>2, IndexTests, Basics DEF ProducerInv
<1>4. /\ tail'[tailBlock] # front[tailBlock]
      /\ \A b \in Blocks : b # tailBlock => tail'[b] = tail[b]
  BY <1>3 DEF PublishTail, TypeOK, IndexTypeOK
<1>11. RingShape(pos)'
  BY <1>1, <1>2 DEF RingWitness, RingShape
<1>12. RingFill(pos)'
  BY <1>1, <1>2, <1>4, RingBasics DEF RingWitness, RingFill
<1>13. ProducerPlace(pos)'
  BY <1>2 DEF ProducerPlace
<1>14. ConsumerPlace(pos)'
  BY <1>1, <1>2, <1>4, RingBasics DEF RingWitness, RingShape, ConsumerPlace
<1> QED BY <1>2, <1>11, <1>12, <1>13, <1>14 DEF RingInv, RingWitness

(* The block after the tail block gets its first element. *)
LEMMA PublishNextTailRing ==
  ASSUME TypeOK, ProducerInv, ShadowInv, RingInv, PublishNextTail
  PROVE  RingInv'
<1>1. PICK pos \in [1 .. RingLength -> 0 .. RingLength - 1] : RingWitness(pos)
  BY DEF RingInv
<1>2. /\ RingLength' = RingLength /\ pPC = "publishNext" /\ pPC' = "advance"
      /\ UNCHANGED <<next, front, frontBlock, tailBlock, cPC, cBlk, pBlk, nblocks>>
  BY DEF PublishNextTail, ProdGoto, RingLength, blockVars, consOwned, consVars
<1>3. pBlk \in Blocks /\ pBlk \in 1 .. RingLength /\ Succ(size[pBlk], tail[pBlk]) # front[pBlk]
  BY <1>2, IndexTests, Basics, RingBasics DEF ProducerInv
<1>4. /\ tail'[pBlk] # front[pBlk]
      /\ \A b \in Blocks : b # pBlk => tail'[b] = tail[b]
  BY <1>3 DEF PublishNextTail, TypeOK, IndexTypeOK
<1>5. pos[pBlk] = pos[tailBlock] + 1 /\ pos[tailBlock] \in Nat /\ frontBlock # pBlk /\ frontBlock \in Blocks
  <2>1. pos[pBlk] = pos[tailBlock] + 1
    BY <1>1, <1>2 DEF RingWitness, ProducerPlace
  <2>2. frontBlock \in 1 .. RingLength /\ tailBlock \in 1 .. RingLength /\ pos[frontBlock] = 0
    BY <1>1 DEF RingWitness, RingShape
  <2>3. pos[tailBlock] \in Nat /\ frontBlock \in Blocks
    BY <2>2, RingBasics
  <2> QED BY <2>1, <2>2, <2>3
<1>11. RingShape(pos)'
  BY <1>1, <1>2 DEF RingWitness, RingShape
<1>12. RingFill(pos)'
  BY <1>1, <1>2, <1>4, <1>5, RingBasics DEF RingWitness, RingFill
<1>13. ProducerPlace(pos)'
  BY <1>2, <1>4, <1>5 DEF ProducerPlace
<1>14. ConsumerPlace(pos)'
  BY <1>1, <1>2, <1>4, <1>5 DEF RingWitness, ConsumerPlace
<1> QED BY <1>2, <1>11, <1>12, <1>13, <1>14 DEF RingInv, RingWitness

(* A new block does not disturb the ring it is not in yet. *)
LEMMA AllocateBlockRing ==
  ASSUME TypeOK, ProducerInv, ConsumerInv, FreshInv, RingInv, AllocateBlock
  PROVE  RingInv'
<1>1. PICK pos \in [1 .. RingLength -> 0 .. RingLength - 1] : RingWitness(pos)
  BY DEF RingInv
<1>2. /\ RingLength' = RingLength /\ pPC = "alloc" /\ pPC' = "link" /\ pBlk' = nblocks'
      /\ nblocks' = nblocks + 1 /\ nblocks + 1 \in Blocks /\ RingLength = nblocks
      /\ UNCHANGED <<front, frontBlock, tailBlock, cPC, cBlk>>
  BY Basics DEF AllocateBlock, RingLength, consVars, Blocks, TypeOK, ListTypeOK
<1>3. \A b \in 1 .. RingLength : next'[b] = next[b] /\ tail'[b] = tail[b]
  <2> SUFFICES ASSUME NEW b \in 1 .. nblocks PROVE next'[b] = next[b] /\ tail'[b] = tail[b]
    BY <1>2
  <2>1. b \in Blocks /\ b # nblocks + 1
    BY Basics
  <2> QED BY <2>1 DEF AllocateBlock, TypeOK, ListTypeOK, IndexTypeOK
<1>4. pBlk = tailBlock /\ cBlk # nblocks + 1 /\ tailBlock # nblocks + 1
  BY <1>2, Basics DEF ProducerInv, TypeOK, ListTypeOK, ConsumerTypeOK
<1>5. next'[nblocks + 1] = next[tailBlock]
  BY <1>2, <1>4 DEF AllocateBlock, TypeOK, ListTypeOK
<1>6. front[nblocks + 1] = 0 /\ tail'[nblocks + 1] = 1
  BY <1>2, Basics DEF AllocateBlock, FreshInv, TypeOK, IndexTypeOK, Blocks
<1>7. frontBlock \in 1 .. RingLength /\ tailBlock \in 1 .. RingLength
  BY <1>1 DEF RingWitness, RingShape
<1>11. RingShape(pos)'
  BY <1>1, <1>2, <1>3 DEF RingWitness, RingShape
<1>12. RingFill(pos)'
  BY <1>1, <1>2, <1>3 DEF RingWitness, RingFill
<1>13. ProducerPlace(pos)'
  BY <1>2, <1>3, <1>5, <1>6, <1>7 DEF ProducerPlace
<1>14. ConsumerPlace(pos)'
  BY <1>1, <1>2, <1>3, <1>7 DEF RingWitness, ConsumerPlace
<1> QED BY <1>2, <1>11, <1>12, <1>13, <1>14 DEF RingInv, RingWitness

(* The new block goes in behind the tail block: those further on move up by one. *)
LEMMA LinkBlockMoves ==
  ASSUME TypeOK, ProducerInv, ConsumerInv, LinkBlock,
         NEW pos \in [1 .. RingLength -> 0 .. RingLength - 1], RingWitness(pos)
  PROVE  \E pos2 \in [1 .. RingLength' -> 0 .. RingLength' - 1] :
           /\ RingWitness(pos2)'
           /\ RingLength' = RingLength + 1 /\ pBlk = RingLength + 1
           /\ pos2[pBlk] = pos[tailBlock] + 1
           /\ \A b \in 1 .. RingLength :
                pos2[b] = IF pos[b] <= pos[tailBlock] THEN pos[b] ELSE pos[b] + 1
<1>1. RingWitness(pos)
  OBVIOUS
<1>2. /\ pPC = "link" /\ pPC' = "advance" /\ nblocks \in Nat
      /\ UNCHANGED <<front, tail, frontBlock, tailBlock, cPC, cBlk, pBlk, nblocks>>
  BY Basics DEF LinkBlock, ProdGoto, consOwned, prodOwned, consVars
<1>3. PICK n \in Nat : n = RingLength /\ nblocks = n + 1 /\ RingLength' = n + 1
  BY <1>2, Basics, RingBasics DEF RingLength
<1>4. /\ pBlk = n + 1 /\ next[n + 1] = next[tailBlock] /\ front[n + 1] # tail[n + 1]
      /\ tailBlock \in 1 .. n /\ frontBlock \in 1 .. n /\ pos[frontBlock] = 0
  BY <1>1, <1>2, <1>3 DEF RingWitness, RingShape, ProducerPlace
<1>5. next'[tailBlock] = n + 1 /\ \A b \in 1 .. n + 1 : b # tailBlock => next'[b] = next[b]
  <2>1. tailBlock \in Blocks /\ \A b \in 1 .. n + 1 : b \in Blocks
    BY <1>3, <1>4, Basics
  <2> QED BY <1>4, <2>1 DEF LinkBlock, TypeOK, ListTypeOK
<1>6. \A b \in 1 .. n :
        /\ pos[b] \in Nat /\ pos[b] < n
        /\ next[b] \in 1 .. n /\ pos[next[b]] = IF pos[b] = n - 1 THEN 0 ELSE pos[b] + 1
        /\ \A c \in 1 .. n : pos[b] = pos[c] => b = c
  BY <1>1, <1>3 DEF RingWitness, RingShape
\* The new block goes in behind the tail block, at position k + 1.
<1>7. PICK k \in Nat : k = pos[tailBlock]
  BY <1>4, <1>6
<1> DEFINE p(b) == IF b = n + 1 THEN k + 1 ELSE IF pos[b] <= k THEN pos[b] ELSE pos[b] + 1
<1>8. PICK pos2 \in [1 .. n + 1 -> 0 .. n] : \A b \in 1 .. n + 1 : pos2[b] = p(b)
  <2>1. ASSUME NEW b \in 1 .. n + 1
        PROVE  p(b) \in 0 .. n
    <3>1. k \in Nat /\ k < n
      BY <1>4, <1>6, <1>7
    <3>2. CASE b = n + 1
      BY <3>1, <3>2
    <3>3. CASE b \in 1 .. n
      <4>1. pos[b] \in Nat /\ pos[b] < n /\ b # n + 1
        BY <1>6, <3>3
      <4> QED BY <4>1
    <3> QED BY <3>2, <3>3
  <2>2. [b \in 1 .. n + 1 |-> p(b)] \in [1 .. n + 1 -> 0 .. n]
    BY <2>1
  <2> HIDE DEF p
  <2> QED BY <2>2
<1>9. n + 1 \in 1 .. n + 1 /\ \A b \in 1 .. n : b \in 1 .. n + 1 /\ b # n + 1
  BY <1>3
<1>11. RingShape(pos2)'
  <2>1. \A b, c \in 1 .. n + 1 : pos2[b] = pos2[c] => b = c
    <3> SUFFICES ASSUME NEW b \in 1 .. n + 1, NEW c \in 1 .. n + 1, p(b) = p(c)
                 PROVE  b = c
      BY <1>8
    <3>1. (b = n + 1 \/ b \in 1 .. n) /\ (c = n + 1 \/ c \in 1 .. n)
      BY <1>3
    <3>2. \A a \in 1 .. n : pos[a] \in Nat /\ a # n + 1
      BY <1>6, <1>9
    <3>3. CASE b \in 1 .. n /\ c \in 1 .. n
      <4>1. /\ pos[b] \in Nat /\ pos[c] \in Nat /\ k \in Nat
            /\ (IF pos[b] <= k THEN pos[b] ELSE pos[b] + 1) = IF pos[c] <= k THEN pos[c] ELSE pos[c] + 1
        BY <3>2, <3>3
      <4>2. pos[b] = pos[c]
        BY ONLY <4>1
      <4> QED BY <1>6, <3>3, <4>2
    <3>4. CASE b = n + 1 /\ c \in 1 .. n
      BY <1>7, <3>2, <3>4
    <3>5. CASE b \in 1 .. n /\ c = n + 1
      BY <1>7, <3>2, <3>5
    <3> QED BY <3>1, <3>3, <3>4, <3>5
  <2>2. ASSUME NEW b \in 1 .. n + 1
        PROVE  /\ next'[b] \in 1 .. n + 1
               /\ pos2[next'[b]] = IF pos2[b] = n THEN 0 ELSE pos2[b] + 1
    <3>1. CASE b = tailBlock
      <4>1. next'[b] = n + 1 /\ pos2[n + 1] = k + 1 /\ b \in 1 .. n /\ b \in 1 .. n + 1 /\ b # n + 1
        BY <1>4, <1>5, <1>8, <1>9, <3>1
      <4>2. pos2[b] = k /\ k # n
        <5>1. k < n /\ pos[b] = k
          BY <1>4, <1>6, <1>7, <3>1
        <5> QED BY <1>8, <4>1, <5>1
      <4> QED BY <1>9, <4>1, <4>2
    <3>2. CASE b = n + 1
      <4>1. next'[b] = next[tailBlock] /\ next[tailBlock] \in 1 .. n
        BY <1>4, <1>5, <1>6, <1>9, <3>2
      <4>2. pos[next[tailBlock]] = IF k = n - 1 THEN 0 ELSE k + 1
        BY <1>4, <1>6, <1>7
      <4>3. pos2[b] = k + 1 /\ pos2[next[tailBlock]] = p(next[tailBlock]) /\ next[tailBlock] # n + 1
        BY <1>8, <1>9, <3>2, <4>1
      <4>4. p(next[tailBlock]) = IF k + 1 = n THEN 0 ELSE k + 1 + 1
        BY <1>3, <4>2, <4>3
      <4> QED BY <1>9, <4>1, <4>3, <4>4
    <3>3. CASE b \in 1 .. n /\ b # tailBlock
      <4>1. next'[b] = next[b] /\ next[b] \in 1 .. n /\ pos[b] # k /\ pos[b] \in Nat /\ pos[b] < n
            /\ pos[next[b]] = IF pos[b] = n - 1 THEN 0 ELSE pos[b] + 1
        BY <1>4, <1>5, <1>6, <1>7, <1>9, <3>3
      <4>2. pos2[b] = p(b) /\ pos2[next[b]] = p(next[b]) /\ b # n + 1 /\ next[b] # n + 1 /\ k < n
        BY <1>4, <1>6, <1>7, <1>8, <1>9, <3>3, <4>1
      <4>3. CASE pos[b] = n - 1
        BY <1>3, <1>7, <4>1, <4>2, <4>3
      <4>4. CASE pos[b] # n - 1 /\ pos[b] < k
        <5>1. pos[next[b]] = pos[b] + 1 /\ pos[b] + 1 <= k
          BY <1>7, <4>1, <4>4
        <5>2. pos2[b] = pos[b] /\ pos2[next[b]] = pos[b] + 1
          BY <4>1, <4>2, <4>4, <5>1
        <5> QED BY <1>3, <1>9, <4>1, <5>2
      <4>5. CASE pos[b] # n - 1 /\ pos[b] > k
        <5>1. pos[next[b]] = pos[b] + 1 /\ ~ (pos[b] <= k) /\ ~ (pos[b] + 1 <= k)
          <6>1. k \in Nat /\ pos[b] \in Nat /\ pos[next[b]] = pos[b] + 1 /\ pos[b] > k
            BY <4>1, <4>5
          <6> QED BY ONLY <6>1
        <5>2. pos2[b] = pos[b] + 1 /\ pos2[next[b]] = pos[b] + 1 + 1
          BY <4>1, <4>2, <4>5, <5>1
        <5> QED BY <1>3, <1>9, <4>1, <4>5, <5>2
      <4> QED BY <1>7, <1>9, <4>1, <4>2, <4>3, <4>4, <4>5
    <3> QED BY <1>3, <3>1, <3>2, <3>3
  <2>3. pos2[frontBlock] = 0
    BY <1>4, <1>7, <1>8, <1>9
  <2> QED BY <1>2, <1>3, <1>4, <1>9, <2>1, <2>2, <2>3 DEF RingShape
<1>10. pos2[tailBlock] = k /\ pos2[n + 1] = k + 1 /\ k < n
  BY <1>4, <1>6, <1>7, <1>8, <1>9
<1>12. RingFill(pos2)'
  <2> SUFFICES ASSUME NEW b \in 1 .. n + 1
               PROVE  /\ 0 < pos2[b] /\ pos2[b] <= k => front[b] # tail[b]
                      /\ pos2[b] > k => front[b] = tail[b] \/ b = n + 1
    BY <1>2, <1>3, <1>4, <1>10 DEF RingFill
  <2>3. \A a \in 1 .. n : /\ 0 < pos[a] /\ pos[a] <= k => front[a] # tail[a]
                          /\ pos[a] > k => front[a] = tail[a]
    BY <1>1, <1>2, <1>3, <1>7 DEF RingWitness, RingFill
  <2>1. CASE b = n + 1
    BY <1>4, <1>8, <2>1
  <2>2. CASE b \in 1 .. n
    <3>1. pos2[b] = (IF pos[b] <= k THEN pos[b] ELSE pos[b] + 1) /\ pos[b] \in Nat
      BY <1>6, <1>8, <1>9, <2>2
    <3> QED BY <1>7, <2>2, <2>3, <3>1
  <2> QED BY <1>3, <2>1, <2>2
<1>13. ProducerPlace(pos2)'
  BY <1>2, <1>4, <1>10 DEF ProducerPlace
<1>14. ConsumerPlace(pos2)'
  <2>1. \A b \in 1 .. n : pos[b] <= k => pos2[b] = pos[b]
    BY <1>8, <1>9
  <2>2. cPC \in {"loadNextTail", "advance", "take"} =>
          cBlk \in 1 .. n /\ pos[cBlk] <= 1 /\ pos[cBlk] <= k /\ (cPC # "take" => pos[cBlk] = 1)
    BY <1>1, <1>3, <1>7 DEF RingWitness, ConsumerPlace
  <2>3. cPC \in {"loadNextTail", "advance", "take"} =>
          cBlk \in 1 .. n + 1 /\ pos2[cBlk] = pos[cBlk]
    BY <1>9, <2>1, <2>2
  <2> QED BY <1>1, <1>2, <1>3, <1>7, <1>10, <2>2, <2>3 DEF RingWitness, ConsumerPlace
<1> QED
  <2>1. pos2 \in [1 .. RingLength' -> 0 .. RingLength' - 1]
    BY <1>3
  <2>2. RingWitness(pos2)'
    BY <1>11, <1>12, <1>13, <1>14 DEF RingWitness
  <2>3. /\ RingLength' = RingLength + 1 /\ pBlk = RingLength + 1
        /\ pos2[pBlk] = pos[tailBlock] + 1
        /\ \A b \in 1 .. RingLength :
             pos2[b] = IF pos[b] <= pos[tailBlock] THEN pos[b] ELSE pos[b] + 1
    BY <1>3, <1>4, <1>7, <1>8, <1>9, <1>10
  <2> QED BY <2>1, <2>2, <2>3

LEMMA LinkBlockRing ==
  ASSUME TypeOK, ProducerInv, ConsumerInv, RingInv, LinkBlock
  PROVE  RingInv'
BY LinkBlockMoves DEF RingInv

(* The tail block moves one position on, to a block with an element. *)
LEMMA AdvanceTailBlockRing ==
  ASSUME TypeOK, ProducerInv, RingInv, AdvanceTailBlock
  PROVE  RingInv'
<1>1. PICK pos \in [1 .. RingLength -> 0 .. RingLength - 1] : RingWitness(pos)
  BY DEF RingInv
<1>2. /\ RingLength' = RingLength /\ pPC = "advance" /\ pPC' = "idle" /\ tailBlock' = pBlk
      /\ UNCHANGED <<next, front, tail, frontBlock, cPC, cBlk, nblocks>>
  BY DEF AdvanceTailBlock, ProdReturn, RingLength, blockVars, consOwned, consVars
<1>3. pBlk \in 1 .. RingLength
  BY <1>2, RingBasics DEF ProducerInv
<1>4. /\ pos[pBlk] = pos[tailBlock] + 1 /\ front[pBlk] # tail[pBlk] /\ pos[tailBlock] \in Nat
      /\ \A b \in 1 .. RingLength : pos[b] \in Nat /\ (pos[b] = pos[pBlk] => b = pBlk)
  <2>1. pos[pBlk] = pos[tailBlock] + 1 /\ front[pBlk] # tail[pBlk]
    BY <1>1, <1>2 DEF RingWitness, ProducerPlace
  <2>2. \A b \in 1 .. RingLength : pos[b] \in Nat /\ (pos[b] = pos[pBlk] => b = pBlk)
    <3>1. \A b \in 1 .. RingLength : pos[b] \in Nat
      BY RingBasics
    <3>2. \A b \in 1 .. RingLength : pos[b] = pos[pBlk] => b = pBlk
      BY <1>1, <1>3 DEF RingWitness, RingShape
    <3> QED BY <3>1, <3>2
  <2>3. tailBlock \in 1 .. RingLength
    BY <1>1 DEF RingWitness, RingShape
  <2> QED BY <2>1, <2>2, <2>3
<1>11. RingShape(pos)'
  BY <1>1, <1>2, <1>3 DEF RingWitness, RingShape
<1>12. RingFill(pos)'
  BY <1>1, <1>2, <1>4 DEF RingWitness, RingFill
<1>13. ProducerPlace(pos)'
  BY <1>2 DEF ProducerPlace
<1>14. ConsumerPlace(pos)'
  BY <1>1, <1>2, <1>4 DEF RingWitness, ConsumerPlace
<1> QED BY <1>2, <1>11, <1>12, <1>13, <1>14 DEF RingInv, RingWitness

(* The front block moves on: every position decreases by one, circularly. *)
LEMMA AdvanceFrontBlockMoves ==
  ASSUME TypeOK, ProducerInv, ConsumerInv, AdvanceFrontBlock,
         NEW pos \in [1 .. RingLength -> 0 .. RingLength - 1], RingWitness(pos)
  PROVE  \E pos2 \in [1 .. RingLength' -> 0 .. RingLength' - 1] :
           /\ RingWitness(pos2)'
           /\ RingLength' = RingLength
           /\ \A b \in 1 .. RingLength :
                pos2[b] = IF pos[b] = 0 THEN RingLength - 1 ELSE pos[b] - 1
<1>1. RingWitness(pos)
  OBVIOUS
<1>2. /\ cPC = "advance" /\ cPC' = "take" /\ frontBlock' = cBlk
      /\ UNCHANGED <<next, front, tail, tailBlock, pPC, pBlk, cBlk, nblocks>>
  BY DEF AdvanceFrontBlock, ConsGoto, blockVars, prodOwned, prodVars
<1>3. PICK n \in Nat : n = RingLength /\ RingLength' = n /\ (pPC = "link" => n = nblocks - 1)
                       /\ (pPC # "link" => n = nblocks)
  BY <1>2, RingBasics DEF RingLength
<1>4. /\ cBlk \in 1 .. n /\ pos[cBlk] = 1 /\ pos[tailBlock] >= 1 /\ front[frontBlock] = tail[frontBlock]
      /\ tailBlock \in 1 .. n /\ frontBlock \in 1 .. n /\ pos[frontBlock] = 0
  BY <1>1, <1>2, <1>3 DEF RingWitness, RingShape, ConsumerPlace
<1>5. \A b \in 1 .. n :
        /\ pos[b] \in Nat /\ pos[b] < n
        /\ next[b] \in 1 .. n /\ pos[next[b]] = IF pos[b] = n - 1 THEN 0 ELSE pos[b] + 1
        /\ \A c \in 1 .. n : pos[b] = pos[c] => b = c
  BY <1>1, <1>3 DEF RingWitness, RingShape
\* Every block comes one nearer; the block left behind goes to the far end.
<1> DEFINE p(b) == IF pos[b] = 0 THEN n - 1 ELSE pos[b] - 1
<1>6. PICK pos2 \in [1 .. n -> 0 .. n - 1] : \A b \in 1 .. n : pos2[b] = p(b)
  <2>1. \A b \in 1 .. n : p(b) \in 0 .. n - 1
    BY <1>3, <1>5
  <2>2. [b \in 1 .. n |-> p(b)] \in [1 .. n -> 0 .. n - 1]
    BY <2>1
  <2> HIDE DEF p
  <2> QED BY <2>2
<1>11. RingShape(pos2)'
  <2>1. \A b, c \in 1 .. n : pos2[b] = pos2[c] => b = c
    <3> SUFFICES ASSUME NEW b \in 1 .. n, NEW c \in 1 .. n, p(b) = p(c)
                 PROVE  b = c
      BY <1>6
    <3> QED BY <1>5
  <2>2. ASSUME NEW b \in 1 .. n
        PROVE  pos2[next[b]] = IF pos2[b] = n - 1 THEN 0 ELSE pos2[b] + 1
    <3>1. n > 1
      BY <1>4, <1>5
    <3>2. pos[b] \in Nat /\ pos[b] < n /\ next[b] \in 1 .. n
          /\ pos[next[b]] = IF pos[b] = n - 1 THEN 0 ELSE pos[b] + 1
      BY <1>5
    <3>3. pos2[b] = p(b) /\ pos2[next[b]] = p(next[b])
      BY <1>6, <3>2
    <3>4. CASE pos[b] = 0
      BY <3>1, <3>2, <3>3, <3>4
    <3>5. CASE pos[b] = n - 1
      BY <3>1, <3>2, <3>3, <3>5
    <3>6. CASE pos[b] # 0 /\ pos[b] # n - 1
      <4>1. pos[next[b]] = pos[b] + 1 /\ pos2[b] = pos[b] - 1 /\ pos[b] # 0
        BY <3>2, <3>3, <3>6
      <4>2. pos2[next[b]] = pos[b] + 1 - 1
        BY <3>2, <3>3, <4>1
      <4> QED BY <3>2, <4>1, <4>2
    <3> QED BY <3>4, <3>5, <3>6
  <2>3. pos2[cBlk] = 0
    BY <1>4, <1>6
  <2>4. \A b \in 1 .. n : next[b] \in 1 .. n
    BY <1>5
  <2> HIDE DEF p
  <2> QED BY <1>2, <1>3, <1>4, <2>1, <2>2, <2>3, <2>4 DEF RingShape
<1>12. RingFill(pos2)'
  <2> SUFFICES ASSUME NEW b \in 1 .. n
               PROVE  /\ 0 < pos2[b] /\ pos2[b] <= pos2[tailBlock] => front[b] # tail[b]
                      /\ pos2[b] > pos2[tailBlock] => front[b] = tail[b] \/ (pPC = "advance" /\ pBlk = b)
    BY <1>2, <1>3 DEF RingFill
  <2>1. pos2[tailBlock] = pos[tailBlock] - 1 /\ pos[tailBlock] < n /\ pos[tailBlock] \in Nat
    BY <1>4, <1>5, <1>6
  <2>2. CASE b = frontBlock
    BY <1>4, <1>6, <2>1, <2>2
  <2>3. CASE b # frontBlock
    <3>1. pos[b] > 0 /\ pos[b] \in Nat /\ pos2[b] = pos[b] - 1
      <4>1. pos[b] \in Nat /\ pos[b] # 0 /\ pos2[b] = p(b)
        BY <1>4, <1>5, <1>6, <2>3
      <4> QED BY <4>1
    <3>2. /\ 0 < pos[b] /\ pos[b] <= pos[tailBlock] => front[b] # tail[b]
          /\ pos[b] > pos[tailBlock] => front[b] = tail[b] \/ (pPC = "advance" /\ pBlk = b)
      BY <1>1, <1>3 DEF RingWitness, RingFill
    <3> QED BY ONLY <2>1, <3>1, <3>2
  <2> QED BY <2>2, <2>3
<1>13. ProducerPlace(pos2)'
  <2>1. pos2[tailBlock] = pos[tailBlock] - 1 /\ pos[tailBlock] < n /\ pos[tailBlock] \in Nat
    BY <1>4, <1>5, <1>6
  <2>2. pPC \in {"constructNext", "publishNext", "advance"} => pos2[pBlk] = pos[tailBlock]
    <3>1. pPC \in {"constructNext", "publishNext", "advance"} =>
            pBlk \in 1 .. n /\ pos[pBlk] = pos[tailBlock] + 1
      BY <1>1, <1>3 DEF RingWitness, ProducerPlace, ProducerInv
    <3>2. pPC \in {"constructNext", "publishNext", "advance"} => pos2[pBlk] = p(pBlk)
      BY <1>6, <3>1
    <3> QED BY <2>1, <3>1, <3>2
  <2> QED BY <1>1, <1>2, <1>3, <2>1, <2>2 DEF RingWitness, ProducerPlace
<1>14. ConsumerPlace(pos2)'
  <2>1. pos2[cBlk] = 0 /\ pos2[tailBlock] \in Nat
    <3>1. pos2[cBlk] = p(cBlk) /\ pos2[tailBlock] \in 0 .. n - 1
      BY <1>4, <1>6
    <3> QED BY <1>4, <3>1
  <2> QED BY <1>2, <1>3, <1>4, <2>1 DEF ConsumerPlace
<1>15. RingWitness(pos2)'
  BY <1>11, <1>12, <1>13, <1>14 DEF RingWitness
<1> QED
  <2>1. RingLength' = RingLength /\ pos2 \in [1 .. RingLength' -> 0 .. RingLength' - 1]
    BY <1>3
  <2>2. \A b \in 1 .. RingLength : pos2[b] = IF pos[b] = 0 THEN RingLength - 1 ELSE pos[b] - 1
    BY <1>3, <1>6
  <2> QED BY <1>15, <2>1, <2>2

LEMMA AdvanceFrontBlockRing ==
  ASSUME TypeOK, ProducerInv, ConsumerInv, RingInv, AdvanceFrontBlock
  PROVE  RingInv'
BY AdvanceFrontBlockMoves DEF RingInv

(* The front block loses an element: no block behind it is affected. *)
LEMMA ReleaseSlotRing ==
  ASSUME TypeOK, ProducerInv, ConsumerInv, RingInv, ReleaseSlot
  PROVE  RingInv'
<1>1. PICK pos \in [1 .. RingLength -> 0 .. RingLength - 1] : RingWitness(pos)
  BY DEF RingInv
<1>2. /\ RingLength' = RingLength /\ cPC = "release" /\ cPC' = "idle"
      /\ UNCHANGED <<next, tail, frontBlock, tailBlock, pPC, pBlk, nblocks>>
  BY DEF ReleaseSlot, ConsReturn, RingLength, blockVars, prodOwned, prodVars
<1>3. cBlk = frontBlock /\ frontBlock \in Blocks
  BY <1>2, Basics DEF ConsumerInv, TypeOK, ListTypeOK
<1>4. \A b \in Blocks : b # frontBlock => front'[b] = front[b]
  BY <1>3 DEF ReleaseSlot, TypeOK, IndexTypeOK
<1>5. frontBlock \in 1 .. RingLength /\ tailBlock \in 1 .. RingLength /\ pos[frontBlock] = 0
  BY <1>1 DEF RingWitness, RingShape
<1>11. RingShape(pos)'
  BY <1>1, <1>2 DEF RingWitness, RingShape
<1>12. RingFill(pos)'
  <2>1. pos[tailBlock] \in Nat
    BY <1>5, RingBasics
  <2> QED BY <1>1, <1>2, <1>4, <1>5, <2>1, RingBasics DEF RingWitness, RingFill
<1>13. ProducerPlace(pos)'
  <2>1. pPC \in {"constructNext", "publishNext", "advance", "link"} =>
          pBlk \in 1 .. nblocks /\ pBlk # frontBlock
    BY <1>1, <1>5, RingBasics DEF RingWitness, ProducerPlace, ProducerInv
  <2>2. pPC \in {"constructNext", "publishNext", "advance", "link"} => front'[pBlk] = front[pBlk]
    BY <1>4, <2>1, Basics
  <2> QED BY <1>1, <1>2, <2>2 DEF RingWitness, ProducerPlace
<1>14. ConsumerPlace(pos)'
  BY <1>2 DEF ConsumerPlace
<1> QED BY <1>2, <1>11, <1>12, <1>13, <1>14 DEF RingInv, RingWitness

(* A call begins: only the producer's program counter and history move. *)
LEMMA EnqueueCallStep ==
  ASSUME BlockInv, NEW op \in {"try_enqueue", "enqueue"}, NEW v \in Vals, EnqueueCall(op, v)
  PROVE  BlockInv'
<1> USE Basics DEF EnqueueCall, BlockInv, TypeOK, blockVars, consOwned, prodOwned, consVars, prodVars,
      ProdGoto, ProdReturn, ConsGoto, ConsReturn
<1>1. ListTypeOK' /\ IndexTypeOK'
  BY DEF ListTypeOK, ProducerInv, ConsumerInv, IndexTypeOK
<1>2. ProducerTypeOK' /\ ConsumerTypeOK' /\ FlagTypeOK'
  BY DEF ProducerTypeOK, ListTypeOK, IndexTypeOK, ProducerInv, ProducerPCs,
         ConsumerTypeOK, ConsumerInv, ConsumerPCs, FlagTypeOK
<1>3. ProducerInv' /\ ConsumerInv'
  BY DEF ProducerInv, ProducerTypeOK, ListTypeOK, IndexTypeOK, Succ, ConsumerInv,
         ConsumerTypeOK
<1>4. ShadowInv' /\ FreshInv'
  BY DEF ShadowInv, ListTypeOK, IndexTypeOK, ProducerInv, ConsumerInv, Distance,
         FreshInv
<1>5. SlotInv'
  <2> SUFFICES ASSUME NEW b \in 1 .. nblocks', NEW i \in 0 .. size'[b] - 1
               PROVE  data'[b][i] # NULL <=> LiveSlot(b, i)'
    BY DEF SlotInv
  <2> QED BY DEF SlotInv, LiveSlot, ProducerInv
<1>6. RingInv'
  <2>1. PICK pos \in [1 .. RingLength -> 0 .. RingLength - 1] : RingWitness(pos)
    BY DEF RingInv
  <2>2. RingLength' = RingLength
    BY DEF RingLength
  <2>3. RingWitness(pos)'
    BY <2>1, <2>2, RingBasics DEF RingWitness, RingShape, RingFill, ProducerPlace, ConsumerPlace,
         ListTypeOK, IndexTypeOK, ProducerInv, ConsumerInv
  <2> QED BY <2>2, <2>3 DEF RingInv
<1> QED BY <1>1, <1>2, <1>3, <1>4, <1>5, <1>6

(* A call begins.  The shadow localTail is behind tail, so "not empty" can be believed. *)
LEMMA DequeueCallStep ==
  ASSUME BlockInv, NEW op \in {"try_dequeue", "peek"}, DequeueCall(op)
  PROVE  BlockInv'
<1> USE Basics DEF DequeueCall, BlockInv, TypeOK, blockVars, consOwned, prodOwned, consVars, prodVars,
      ProdGoto, ProdReturn, ConsGoto, ConsReturn
<1>1. ListTypeOK' /\ IndexTypeOK'
  BY DEF ListTypeOK, ProducerInv, ConsumerInv, IndexTypeOK
<1>2. ProducerTypeOK' /\ ConsumerTypeOK' /\ FlagTypeOK'
  BY DEF ProducerTypeOK, ListTypeOK, IndexTypeOK, ProducerInv, ProducerPCs,
         ConsumerTypeOK, ConsumerInv, ConsumerPCs, FlagTypeOK
<1>3. ProducerInv'
  BY DEF ProducerInv, ProducerTypeOK, ListTypeOK, IndexTypeOK, Succ
<1>4. ConsumerInv'
  <2>1. frontBlock \in 1 .. nblocks
    BY DEF ListTypeOK
  <2>2. front[frontBlock] # localTail[frontBlock] => front[frontBlock] # tail[frontBlock]
    BY <2>1, IndexTests
  <2> QED BY <2>1, <2>2 DEF ConsumerInv
<1>5. ShadowInv' /\ FreshInv'
  BY DEF ShadowInv, ListTypeOK, IndexTypeOK, ProducerInv, ConsumerInv, Distance,
         FreshInv
<1>6. SlotInv'
  <2> SUFFICES ASSUME NEW b \in 1 .. nblocks', NEW i \in 0 .. size'[b] - 1
               PROVE  data'[b][i] # NULL <=> LiveSlot(b, i)'
    BY DEF SlotInv
  <2> QED BY DEF SlotInv, LiveSlot
<1>7. RingInv'
  <2>1. PICK pos \in [1 .. RingLength -> 0 .. RingLength - 1] : RingWitness(pos)
    BY DEF RingInv
  <2>2. RingLength' = RingLength
    BY DEF RingLength
  <2>3. /\ frontBlock \in 1 .. RingLength /\ pos[frontBlock] = 0
        /\ pos[tailBlock] \in Nat /\ (pos[tailBlock] = 0 => tailBlock = frontBlock)
    BY <2>1, RingEnds DEF RingWitness
  <2>11. RingShape(pos)'
    BY <2>1, <2>2 DEF RingWitness, RingShape
  <2>12. RingFill(pos)'
    BY <2>1, <2>2 DEF RingWitness, RingFill
  <2>13. ProducerPlace(pos)'
    BY <2>1, <2>2 DEF RingWitness, ProducerPlace
  <2>14. ConsumerPlace(pos)'
    BY <2>1, <2>2, <2>3 DEF RingWitness, ConsumerPlace, ConsumerInv
  <2> QED BY <2>2, <2>11, <2>12, <2>13, <2>14 DEF RingInv, RingWitness
<1> QED BY <1>1, <1>2, <1>3, <1>4, <1>5, <1>6, <1>7

(* The shadow of front catches up with it. *)
LEMMA RefreshFrontStep ==
  ASSUME BlockInv, RefreshFront
  PROVE  BlockInv'
<1> USE Basics DEF RefreshFront, BlockInv, TypeOK, blockVars, consOwned, prodOwned, consVars, prodVars,
      ProdGoto, ProdReturn, ConsGoto, ConsReturn
<1>1. ListTypeOK' /\ IndexTypeOK'
  BY DEF ListTypeOK, ProducerInv, ConsumerInv, IndexTypeOK
<1>2. ProducerTypeOK' /\ ConsumerTypeOK' /\ FlagTypeOK'
  BY DEF ProducerTypeOK, ListTypeOK, IndexTypeOK, ProducerInv, ProducerPCs,
         ConsumerTypeOK, ConsumerInv, ConsumerPCs, FlagTypeOK
<1>3. ProducerInv' /\ ConsumerInv'
  BY DEF ProducerInv, ProducerTypeOK, ListTypeOK, IndexTypeOK, Succ, ConsumerInv,
         ConsumerTypeOK
<1>4. ShadowInv'
  <2> SUFFICES ASSUME NEW b \in 1 .. nblocks'
               PROVE  InOrder(size'[b], localFront'[b], front'[b], localTail'[b], tail'[b])
    BY DEF ShadowInv
  <2>1. Indices(size[b], localFront[b], front[b], localTail[b], tail[b])
    BY IndicesOfBlocks
  <2>2. CASE b = pBlk
    BY <2>1, <2>2, ShadowsRefresh DEF Indices, ProducerInv, ListTypeOK, IndexTypeOK
  <2>3. CASE b # pBlk
    BY <2>1, <2>3 DEF Indices, ProducerInv, ListTypeOK, IndexTypeOK
  <2> QED BY <2>2, <2>3
<1>5. FreshInv'
  BY DEF FreshInv, ListTypeOK, IndexTypeOK, ProducerInv, ConsumerInv
<1>6. SlotInv'
  BY DEF SlotInv, LiveSlot, ListTypeOK, IndexTypeOK, ProducerInv, ConsumerInv, Distance
<1>7. RingInv'
  <2>1. PICK pos \in [1 .. RingLength -> 0 .. RingLength - 1] : RingWitness(pos)
    BY DEF RingInv
  <2>2. RingLength' = RingLength
    BY DEF RingLength
  <2>3. RingWitness(pos)'
    BY <2>1, <2>2, RingBasics DEF RingWitness, RingShape, RingFill, ProducerPlace, ConsumerPlace,
         ListTypeOK, IndexTypeOK, ProducerInv, ConsumerInv
  <2> QED BY <2>2, <2>3 DEF RingInv
<1> QED BY <1>1, <1>2, <1>3, <1>4, <1>5, <1>6, <1>7

(* The slot at tail comes to life; it is outside front .. tail. *)
LEMMA ConstructStep ==
  ASSUME BlockInv, Construct
  PROVE  BlockInv'
<1> USE Basics DEF Construct, BlockInv, TypeOK, blockVars, consOwned, prodOwned, consVars, prodVars,
      ProdGoto, ProdReturn, ConsGoto, ConsReturn
<1>1. ListTypeOK' /\ IndexTypeOK'
  BY DEF ListTypeOK, ProducerInv, ConsumerInv, IndexTypeOK
<1>2. ProducerTypeOK' /\ ConsumerTypeOK' /\ FlagTypeOK'
  BY DEF ProducerTypeOK, ListTypeOK, IndexTypeOK, ProducerInv, ProducerPCs,
         ConsumerTypeOK, ConsumerInv, ConsumerPCs, FlagTypeOK
<1>3. ProducerInv' /\ ConsumerInv'
  BY DEF ProducerInv, ProducerTypeOK, ListTypeOK, IndexTypeOK, Succ, ConsumerInv,
         ConsumerTypeOK
<1>4. ShadowInv' /\ FreshInv'
  BY DEF ShadowInv, ListTypeOK, IndexTypeOK, ProducerInv, ConsumerInv, Distance,
         FreshInv
<1>5. SlotInv'
  <2> SUFFICES ASSUME NEW b \in 1 .. nblocks', NEW i \in 0 .. size'[b] - 1
               PROVE  data'[b][i] # NULL <=> LiveSlot(b, i)'
    BY DEF SlotInv
  <2>1. pBlk \in 1 .. nblocks /\ pVal # NULL /\ tail[pBlk] \in Slots
    BY QueueAssumption DEF QueueAssumption, ProducerInv
  <2>2. CASE b = pBlk /\ i = tail[pBlk]
    BY <2>1, <2>2 DEF LiveSlot, ListTypeOK
  <2>3. CASE ~ (b = pBlk /\ i = tail[pBlk])
    <3>1. data'[b][i] = data[b][i]
      BY <2>1, <2>3 DEF ListTypeOK
    <3>2. LiveSlot(b, i)' <=> LiveSlot(b, i)
      BY <2>1, <2>3 DEF LiveSlot
    <3> QED BY <3>1, <3>2 DEF SlotInv
  <2> QED BY <2>2, <2>3
<1>6. RingInv'
  <2>1. PICK pos \in [1 .. RingLength -> 0 .. RingLength - 1] : RingWitness(pos)
    BY DEF RingInv
  <2>2. RingLength' = RingLength
    BY DEF RingLength
  <2>3. RingWitness(pos)'
    BY <2>1, <2>2, RingBasics DEF RingWitness, RingShape, RingFill, ProducerPlace, ConsumerPlace,
         ListTypeOK, IndexTypeOK, ProducerInv, ConsumerInv
  <2> QED BY <2>2, <2>3 DEF RingInv
<1> QED BY <1>1, <1>2, <1>3, <1>4, <1>5, <1>6

(* tail passes the new element, and does not reach front: it does not reach localFront. *)
LEMMA PublishTailStep ==
  ASSUME BlockInv, PublishTail
  PROVE  BlockInv'
<1> USE Basics DEF PublishTail, BlockInv, TypeOK, blockVars, consOwned, prodOwned, consVars, prodVars,
      ProdGoto, ProdReturn, ConsGoto, ConsReturn
<1>1. ListTypeOK' /\ IndexTypeOK'
  <2>1. /\ tail' = [tail EXCEPT ![pBlk] = Succ(size[pBlk], @)]
        /\ UNCHANGED <<maxSize, nblocks, largestBlockSize, frontBlock, tailBlock, size, next, data,
                       front, localTail, localFront>>
        /\ pBlk \in 1 .. nblocks
    BY DEF ProducerInv
  <2>2. ListTypeOK /\ IndexTypeOK /\ Succ(size[pBlk], tail[pBlk]) \in 0 .. size[pBlk] - 1
        /\ Succ(size[pBlk], tail[pBlk]) \in Slots /\ \A b \in 1 .. nblocks : b \in Blocks
    BY <2>1
  <2>3. ListTypeOK'
    BY ONLY <2>1, <2>2 DEF ListTypeOK
  <2> QED BY ONLY <2>1, <2>2, <2>3 DEF IndexTypeOK, ListTypeOK
<1>2. ProducerTypeOK'
  BY DEF ProducerTypeOK, ListTypeOK, IndexTypeOK, ProducerInv, ProducerPCs
<1>3. ConsumerTypeOK'
  BY DEF ConsumerTypeOK, ListTypeOK, IndexTypeOK, ConsumerInv, ConsumerPCs
<1>4. FlagTypeOK'
  BY DEF FlagTypeOK
<1>5. ProducerInv'
  BY DEF ProducerInv, ProducerTypeOK, ListTypeOK, IndexTypeOK, Succ
<1>6. ConsumerInv'
  <2>1. pBlk \in 1 .. nblocks /\ tail'[pBlk] # front[pBlk]
    BY IndexTests DEF ProducerInv, IndexTypeOK
  <2>2. \A b \in 1 .. nblocks : b # pBlk => tail'[b] = tail[b]
    BY <2>1 DEF IndexTypeOK
  <2> QED BY <2>1, <2>2 DEF ConsumerInv
<1>7. ShadowInv'
  <2> SUFFICES ASSUME NEW b \in 1 .. nblocks'
               PROVE  InOrder(size'[b], localFront'[b], front'[b], localTail'[b], tail'[b])
    BY DEF ShadowInv
  <2>1. Indices(size[b], localFront[b], front[b], localTail[b], tail[b])
    BY IndicesOfBlocks
  <2>2. CASE b = pBlk
    BY <2>1, <2>2, TailAdvances DEF Indices, ProducerInv, ListTypeOK, IndexTypeOK
  <2>3. CASE b # pBlk
    BY <2>1, <2>3 DEF Indices, ProducerInv, ListTypeOK, IndexTypeOK
  <2> QED BY <2>2, <2>3
<1>8. FreshInv'
  BY DEF FreshInv, ListTypeOK, IndexTypeOK, ProducerInv, ConsumerInv
<1>9. SlotInv'
  <2> SUFFICES ASSUME NEW b \in 1 .. nblocks', NEW i \in 0 .. size'[b] - 1
               PROVE  data'[b][i] # NULL <=> LiveSlot(b, i)'
    BY DEF SlotInv
  <2>1. data[b][i] # NULL <=> LiveSlot(b, i)
    BY DEF SlotInv
  <2>2. pBlk \in 1 .. nblocks /\ Succ(size[pBlk], tail[pBlk]) # localFront[pBlk]
    BY DEF ProducerInv
  <2>3. CASE b = pBlk
    <3>1. tail'[b] = Succ(size[b], tail[b])
      BY <2>2, <2>3 DEF IndexTypeOK
    <3>2. Distance(size[b], front[b], i) < Distance(size[b], front[b], tail'[b])
            <=> Distance(size[b], front[b], i) < Distance(size[b], front[b], tail[b]) \/ i = tail[b]
      BY <2>2, <2>3, <3>1, LiveAfterPublish
    <3>3. cPC = "release" /\ cBlk = b => front[b] # tail[b]
      BY <2>3 DEF ConsumerInv
    <3> QED BY <2>1, <2>3, <3>2, <3>3 DEF LiveSlot
  <2>4. CASE b # pBlk
    BY <2>1, <2>2, <2>4 DEF LiveSlot, IndexTypeOK
  <2> QED BY <2>3, <2>4
<1>10. RingInv'
  BY PublishTailRing
<1> QED BY <1>1, <1>2, <1>3, <1>4, <1>5, <1>6, <1>7, <1>8, <1>9, <1>10

(* The next block is not the front block: there is one free behind the tail block. *)
LEMMA CheckNextBlockStep ==
  ASSUME BlockInv, CheckNextBlock
  PROVE  BlockInv'
<1> USE Basics DEF CheckNextBlock, BlockInv, TypeOK, blockVars, consOwned, prodOwned, consVars, prodVars,
      ProdGoto, ProdReturn, ConsGoto, ConsReturn
<1>1. ListTypeOK' /\ IndexTypeOK'
  BY DEF ListTypeOK, ProducerInv, ConsumerInv, IndexTypeOK
<1>2. ProducerTypeOK'
  BY DEF ProducerTypeOK, ListTypeOK, IndexTypeOK, ProducerInv, ProducerPCs
<1>3. ConsumerTypeOK'
  BY DEF ConsumerTypeOK, ListTypeOK, IndexTypeOK, ConsumerInv, ConsumerPCs
<1>4. FlagTypeOK'
  BY DEF FlagTypeOK
<1>5. ProducerInv' /\ ConsumerInv'
  BY DEF ProducerInv, ProducerTypeOK, ListTypeOK, IndexTypeOK, Succ, ConsumerInv,
         ConsumerTypeOK
<1>6. ShadowInv' /\ FreshInv'
  BY DEF ShadowInv, ListTypeOK, IndexTypeOK, ProducerInv, ConsumerInv, Distance,
         FreshInv
<1>7. SlotInv'
  BY DEF SlotInv, LiveSlot, ListTypeOK, IndexTypeOK, ProducerInv, ConsumerInv, Distance
<1>8. RingInv'
  <2>1. PICK pos \in [1 .. RingLength -> 0 .. RingLength - 1] : RingWitness(pos)
    BY DEF RingInv
  <2>2. RingLength' = RingLength
    BY DEF RingLength
  <2>3. pPC' = "loadNext" => pos[tailBlock] < RingLength - 1
    BY <2>1, RingEnds DEF RingWitness, ProducerInv
  <2>11. RingShape(pos)'
    BY <2>1, <2>2, <2>3 DEF RingWitness, RingShape
  <2>12. RingFill(pos)'
    BY <2>1, <2>2, <2>3 DEF RingWitness, RingFill
  <2>13. ProducerPlace(pos)'
    BY <2>1, <2>2, <2>3 DEF RingWitness, ProducerPlace
  <2>14. ConsumerPlace(pos)'
    BY <2>1, <2>2, <2>3 DEF RingWitness, ConsumerPlace
  <2> QED BY <2>2, <2>11, <2>12, <2>13, <2>14 DEF RingInv, RingWitness
<1> QED BY <1>1, <1>2, <1>3, <1>4, <1>5, <1>6, <1>7, <1>8

(* The block after the tail block is empty, so there is room in it. *)
LEMMA LoadNextBlockStep ==
  ASSUME BlockInv, LoadNextBlock
  PROVE  BlockInv'
<1> USE Basics DEF LoadNextBlock, BlockInv, TypeOK, blockVars, consOwned, prodOwned, consVars, prodVars,
      ProdGoto, ProdReturn, ConsGoto, ConsReturn
<1>1. ListTypeOK' /\ IndexTypeOK'
  BY DEF ListTypeOK, ProducerInv, ConsumerInv, IndexTypeOK
<1>2. ProducerTypeOK' /\ ConsumerTypeOK' /\ FlagTypeOK'
  BY DEF ProducerTypeOK, ListTypeOK, IndexTypeOK, ProducerInv, ProducerPCs,
         ConsumerTypeOK, ConsumerInv, ConsumerPCs, FlagTypeOK
<1>3. ProducerInv'
  <2>1. front[next[pBlk]] = tail[next[pBlk]]
    BY RingAsserts DEF BlockAssertions
  <2>2. next[pBlk] \in 1 .. nblocks /\ localFront'[next[pBlk]] = front[next[pBlk]]
    BY DEF ProducerInv, IndexTypeOK
  <2>3. Succ(size[next[pBlk]], tail[next[pBlk]]) # tail[next[pBlk]]
    BY <2>2 DEF Succ
  <2> QED BY <2>1, <2>2, <2>3 DEF ProducerInv
<1>4. ConsumerInv'
  BY DEF ConsumerInv, ConsumerTypeOK, ListTypeOK, IndexTypeOK
<1>5. ShadowInv'
  <2> SUFFICES ASSUME NEW b \in 1 .. nblocks'
               PROVE  InOrder(size'[b], localFront'[b], front'[b], localTail'[b], tail'[b])
    BY DEF ShadowInv
  <2>1. Indices(size[b], localFront[b], front[b], localTail[b], tail[b])
    BY IndicesOfBlocks
  <2>2. CASE b = next[pBlk]
    BY <2>1, <2>2, ShadowsRefresh DEF Indices, ProducerInv, ListTypeOK, IndexTypeOK
  <2>3. CASE b # next[pBlk]
    BY <2>1, <2>3 DEF Indices, ProducerInv, ListTypeOK, IndexTypeOK
  <2> QED BY <2>2, <2>3
<1>6. FreshInv'
  BY DEF FreshInv, ListTypeOK, IndexTypeOK, ProducerInv, ConsumerInv
<1>7. SlotInv'
  BY DEF SlotInv, LiveSlot, ListTypeOK, IndexTypeOK, ProducerInv, ConsumerInv, Distance
<1>8. RingInv'
  <2>1. PICK pos \in [1 .. RingLength -> 0 .. RingLength - 1] : RingWitness(pos)
    BY DEF RingInv
  <2>2. RingLength' = RingLength
    BY DEF RingLength
  <2>3. /\ pBlk = tailBlock /\ next[pBlk] \in 1 .. RingLength
        /\ pos[next[pBlk]] = pos[tailBlock] + 1 /\ pos[tailBlock] \in Nat
    BY <2>1, RingEnds DEF RingWitness, ProducerPlace, ProducerInv
  <2>4. front[next[pBlk]] = tail[next[pBlk]]
    BY RingAsserts DEF BlockAssertions
  <2>11. RingShape(pos)'
    BY <2>1, <2>2, <2>3, <2>4 DEF RingWitness, RingShape
  <2>12. RingFill(pos)'
    BY <2>1, <2>2, <2>3, <2>4 DEF RingWitness, RingFill
  <2>13. ProducerPlace(pos)'
    BY <2>1, <2>2, <2>3, <2>4 DEF RingWitness, ProducerPlace
  <2>14. ConsumerPlace(pos)'
    BY <2>1, <2>2, <2>3, <2>4 DEF RingWitness, ConsumerPlace
  <2> QED BY <2>2, <2>11, <2>12, <2>13, <2>14 DEF RingInv, RingWitness
<1> QED BY <1>1, <1>2, <1>3, <1>4, <1>5, <1>6, <1>7, <1>8

(* The free block gets its first element, while the tail block is still tailBlock. *)
LEMMA PublishNextTailStep ==
  ASSUME BlockInv, PublishNextTail
  PROVE  BlockInv'
<1> USE Basics DEF PublishNextTail, BlockInv, TypeOK, blockVars, consOwned, prodOwned, consVars, prodVars,
      ProdGoto, ProdReturn, ConsGoto, ConsReturn
<1>1. ListTypeOK' /\ IndexTypeOK'
  BY DEF ListTypeOK, ProducerInv, ConsumerInv, IndexTypeOK
<1>2. ProducerTypeOK' /\ ConsumerTypeOK' /\ FlagTypeOK'
  BY DEF ProducerTypeOK, ListTypeOK, IndexTypeOK, ProducerInv, ProducerPCs,
         ConsumerTypeOK, ConsumerInv, ConsumerPCs, FlagTypeOK
<1>3. ProducerInv'
  BY DEF ProducerInv, ProducerTypeOK, ListTypeOK, IndexTypeOK, Succ
<1>4. ConsumerInv'
  <2>1. pBlk \in 1 .. nblocks /\ tail'[pBlk] # front[pBlk]
    BY IndexTests DEF ProducerInv, IndexTypeOK
  <2>2. \A b \in 1 .. nblocks : b # pBlk => tail'[b] = tail[b]
    BY <2>1 DEF IndexTypeOK
  <2> QED BY <2>1, <2>2 DEF ConsumerInv
<1>5. ShadowInv'
  <2> SUFFICES ASSUME NEW b \in 1 .. nblocks'
               PROVE  InOrder(size'[b], localFront'[b], front'[b], localTail'[b], tail'[b])
    BY DEF ShadowInv
  <2>1. Indices(size[b], localFront[b], front[b], localTail[b], tail[b])
    BY IndicesOfBlocks
  <2>2. CASE b = pBlk
    BY <2>1, <2>2, TailAdvances DEF Indices, ProducerInv, ListTypeOK, IndexTypeOK
  <2>3. CASE b # pBlk
    BY <2>1, <2>3 DEF Indices, ProducerInv, ListTypeOK, IndexTypeOK
  <2> QED BY <2>2, <2>3
<1>6. FreshInv'
  BY DEF FreshInv, ListTypeOK, IndexTypeOK, ProducerInv, ConsumerInv
<1>7. SlotInv'
  <2> SUFFICES ASSUME NEW b \in 1 .. nblocks', NEW i \in 0 .. size'[b] - 1
               PROVE  data'[b][i] # NULL <=> LiveSlot(b, i)'
    BY DEF SlotInv
  <2>1. data[b][i] # NULL <=> LiveSlot(b, i)
    BY DEF SlotInv
  <2>2. pBlk \in 1 .. nblocks /\ Succ(size[pBlk], tail[pBlk]) # localFront[pBlk]
    BY DEF ProducerInv
  <2>3. CASE b = pBlk
    <3>1. tail'[b] = Succ(size[b], tail[b])
      BY <2>2, <2>3 DEF IndexTypeOK
    <3>2. Distance(size[b], front[b], i) < Distance(size[b], front[b], tail'[b])
            <=> Distance(size[b], front[b], i) < Distance(size[b], front[b], tail[b]) \/ i = tail[b]
      BY <2>2, <2>3, <3>1, LiveAfterPublish
    <3>3. cPC = "release" /\ cBlk = b => front[b] # tail[b]
      BY <2>3 DEF ConsumerInv
    <3> QED BY <2>1, <2>3, <3>2, <3>3 DEF LiveSlot
  <2>4. CASE b # pBlk
    BY <2>1, <2>2, <2>4 DEF LiveSlot, IndexTypeOK
  <2> QED BY <2>3, <2>4
<1>8. RingInv'
  BY PublishNextTailRing
<1> QED BY <1>1, <1>2, <1>3, <1>4, <1>5, <1>6, <1>7, <1>8

(* The new block is outside the ring, with one live element in slot 0. *)
LEMMA AllocateBlockStep ==
  ASSUME BlockInv, AllocateBlock
  PROVE  BlockInv'
<1> USE Basics DEF AllocateBlock, BlockInv, TypeOK, blockVars, consOwned, prodOwned, consVars, prodVars,
      ProdGoto, ProdReturn, ConsGoto, ConsReturn
<1>1. ListTypeOK'
  <2>1. nblocks + 1 \in Blocks
    BY DEF Blocks, ListTypeOK
  <2>2. largestBlockSize' \in 2 .. MAX_BLOCK_SIZE * 2
    BY QueueAssumption DEF QueueAssumption, ListTypeOK
  <2>3. size' \in [Blocks -> 0 .. MAX_BLOCK_SIZE * 2]
    BY <2>1, <2>2 DEF ListTypeOK
  <2>4. next[pBlk] \in Blocks
    BY DEF ListTypeOK, ProducerInv
  <2>5. data' \in [Blocks -> [Slots -> Vals \cup {NULL}]]
    BY <2>1 DEF ListTypeOK, ProducerTypeOK
  <2> QED BY <2>1, <2>2, <2>3, <2>4, <2>5 DEF ListTypeOK
<1>2. IndexTypeOK'
  <2>1. nblocks + 1 \in Blocks
    BY DEF Blocks, ListTypeOK
  <2>2. /\ front' \in [Blocks -> Slots] /\ localTail' \in [Blocks -> Slots]
        /\ tail' \in [Blocks -> Slots] /\ localFront' \in [Blocks -> Slots]
    BY <2>1 DEF IndexTypeOK
  <2> SUFFICES ASSUME NEW b \in 1 .. nblocks'
               PROVE  /\ size'[b] >= 2 /\ next'[b] \in 1 .. nblocks'
                      /\ front'[b] < size'[b] /\ localTail'[b] < size'[b]
                      /\ tail'[b] < size'[b] /\ localFront'[b] < size'[b]
    BY <2>2 DEF IndexTypeOK
  <2>3. CASE b \in 1 .. nblocks
    BY <2>3, <2>1 DEF IndexTypeOK, ListTypeOK
  <2>4. CASE b = nblocks + 1
    <3>1. size'[b] >= 2
      BY <2>1, <2>4, QueueAssumption DEF QueueAssumption, ListTypeOK
    <3>2. next'[b] \in 1 .. nblocks'
      BY <2>1, <2>4 DEF ListTypeOK, IndexTypeOK, ProducerInv
    <3>3. front'[b] = 0 /\ localTail'[b] = 1 /\ tail'[b] = 1 /\ localFront'[b] = 0
      BY <2>1, <2>4 DEF IndexTypeOK, FreshInv
    <3>4. size'[b] \in Nat
      BY <2>1, <1>1, QueueAssumption DEF QueueAssumption, ListTypeOK
    <3> QED BY <3>1, <3>2, <3>3, <3>4
  <2> QED BY <2>3, <2>4
<1>3. ProducerTypeOK' /\ ConsumerTypeOK' /\ FlagTypeOK'
  BY DEF ProducerTypeOK, ListTypeOK, IndexTypeOK, ProducerInv, ProducerPCs,
         ConsumerTypeOK, ConsumerInv, ConsumerPCs, FlagTypeOK
<1>4. ProducerInv' /\ ConsumerInv'
  BY DEF ProducerInv, ProducerTypeOK, ListTypeOK, IndexTypeOK, Succ, ConsumerInv,
         ConsumerTypeOK
<1>5. ShadowInv'
  <2> SUFFICES ASSUME NEW b \in 1 .. nblocks'
               PROVE  InOrder(size'[b], localFront'[b], front'[b], localTail'[b], tail'[b])
    BY DEF ShadowInv
  <2>1. CASE b \in 1 .. nblocks
    BY <2>1, IndicesOfBlocks DEF Indices, ListTypeOK, IndexTypeOK
  <2>2. CASE b = nblocks + 1
    <3>0. b \in Blocks /\ b \in nblocks + 1 .. MaxBlocks
      BY <2>2 DEF ListTypeOK, Blocks
    <3>1. localFront'[b] = 0 /\ front'[b] = 0 /\ localTail'[b] = 1 /\ tail'[b] = 1
      BY <2>2, <3>0 DEF FreshInv, IndexTypeOK
    <3>2. size'[b] \in Nat
      BY <1>1, <3>0, QueueAssumption DEF QueueAssumption, ListTypeOK
    <3> QED BY <3>1, <3>2 DEF InOrder, Distance
  <2> QED BY <2>1, <2>2
<1>6. FreshInv'
  BY DEF FreshInv, ListTypeOK, IndexTypeOK, ProducerInv, ConsumerInv
<1>7. SlotInv'
  <2> SUFFICES ASSUME NEW b \in 1 .. nblocks', NEW i \in 0 .. size'[b] - 1
               PROVE  data'[b][i] # NULL <=> LiveSlot(b, i)'
    BY DEF SlotInv
  <2>1. CASE b \in 1 .. nblocks
    <3>1. data'[b] = data[b] /\ size'[b] = size[b] /\ tail'[b] = tail[b]
      BY <2>1 DEF ListTypeOK, IndexTypeOK
    <3> QED BY <2>1, <3>1 DEF SlotInv, LiveSlot
  <2>2. CASE b = nblocks + 1
    <3>1. b \in Blocks /\ front[b] = 0 /\ tail'[b] = 1 /\ b # cBlk
      BY <2>2 DEF FreshInv, ListTypeOK, IndexTypeOK, Blocks, ConsumerTypeOK
    <3>2. i \in Slots
      BY <1>1, <3>1, QueueAssumption DEF QueueAssumption, ListTypeOK, Slots
    <3>3. data'[b][i] = IF i = 0 THEN pVal ELSE NULL
      <4>1. data[b][i] = NULL
        BY <2>2, <3>1, <3>2 DEF FreshInv, Blocks
      <4>2. data'[b] = [data[b] EXCEPT ![0] = pVal] /\ data[b] \in [Slots -> Vals \cup {NULL}]
        BY <2>2, <3>1 DEF ListTypeOK
      <4> QED BY <3>2, <4>1, <4>2
    <3>4. pVal # NULL
      BY QueueAssumption DEF QueueAssumption, ProducerInv
    <3>5. size'[b] \in Nat
      BY <1>1, <3>1, QueueAssumption DEF QueueAssumption, ListTypeOK
    <3>6. LiveSlot(b, i)' <=> i = 0
      BY <3>1, <3>5 DEF LiveSlot, Distance
    <3> QED BY <3>3, <3>4, <3>6
  <2> QED BY <2>1, <2>2
<1>8. RingInv'
  BY AllocateBlockRing
<1> QED BY <1>1, <1>2, <1>3, <1>4, <1>5, <1>6, <1>7, <1>8

(* Nothing but the call changes. *)
LEMMA AllocationFailsStep ==
  ASSUME BlockInv, AllocationFails
  PROVE  BlockInv'
<1> USE Basics DEF AllocationFails, BlockInv, TypeOK, blockVars, consOwned, prodOwned, consVars, prodVars,
      ProdGoto, ProdReturn, ConsGoto, ConsReturn
<1>1. ListTypeOK' /\ IndexTypeOK'
  BY DEF ListTypeOK, ProducerInv, ConsumerInv, IndexTypeOK
<1>2. ProducerTypeOK'
  BY DEF ProducerTypeOK, ListTypeOK, IndexTypeOK, ProducerInv, ProducerPCs
<1>3. ConsumerTypeOK'
  BY DEF ConsumerTypeOK, ListTypeOK, IndexTypeOK, ConsumerInv, ConsumerPCs
<1>4. FlagTypeOK'
  BY DEF FlagTypeOK
<1>5. ProducerInv' /\ ConsumerInv'
  BY DEF ProducerInv, ProducerTypeOK, ListTypeOK, IndexTypeOK, Succ, ConsumerInv,
         ConsumerTypeOK
<1>6. ShadowInv' /\ FreshInv'
  BY DEF ShadowInv, ListTypeOK, IndexTypeOK, ProducerInv, ConsumerInv, Distance,
         FreshInv
<1>7. SlotInv'
  BY DEF SlotInv, LiveSlot, ListTypeOK, IndexTypeOK, ProducerInv, ConsumerInv, Distance
<1>8. RingInv'
  <2>1. PICK pos \in [1 .. RingLength -> 0 .. RingLength - 1] : RingWitness(pos)
    BY DEF RingInv
  <2>2. RingLength' = RingLength
    BY DEF RingLength
  <2>3. RingWitness(pos)'
    BY <2>1, <2>2, RingBasics DEF RingWitness, RingShape, RingFill, ProducerPlace, ConsumerPlace,
         ListTypeOK, IndexTypeOK, ProducerInv, ConsumerInv
  <2> QED BY <2>2, <2>3 DEF RingInv
<1> QED BY <1>1, <1>2, <1>3, <1>4, <1>5, <1>6, <1>7, <1>8

(* The new block joins the ring behind the tail block. *)
LEMMA LinkBlockStep ==
  ASSUME BlockInv, LinkBlock
  PROVE  BlockInv'
<1> USE Basics DEF LinkBlock, BlockInv, TypeOK, blockVars, consOwned, prodOwned, consVars, prodVars,
      ProdGoto, ProdReturn, ConsGoto, ConsReturn
<1>1. ListTypeOK' /\ IndexTypeOK'
  BY DEF ListTypeOK, ProducerInv, ConsumerInv, IndexTypeOK
<1>2. ProducerTypeOK' /\ ConsumerTypeOK' /\ FlagTypeOK'
  BY DEF ProducerTypeOK, ListTypeOK, IndexTypeOK, ProducerInv, ProducerPCs,
         ConsumerTypeOK, ConsumerInv, ConsumerPCs, FlagTypeOK
<1>3. ProducerInv' /\ ConsumerInv'
  BY DEF ProducerInv, ProducerTypeOK, ListTypeOK, IndexTypeOK, Succ, ConsumerInv,
         ConsumerTypeOK
<1>4. ShadowInv' /\ FreshInv'
  BY DEF ShadowInv, ListTypeOK, IndexTypeOK, ProducerInv, ConsumerInv, Distance,
         FreshInv
<1>5. SlotInv'
  BY DEF SlotInv, LiveSlot, ListTypeOK, IndexTypeOK, ProducerInv, ConsumerInv, Distance
<1>6. RingInv'
  BY LinkBlockRing
<1> QED BY <1>1, <1>2, <1>3, <1>4, <1>5, <1>6

(* The block with the new element becomes the tail block. *)
LEMMA AdvanceTailBlockStep ==
  ASSUME BlockInv, AdvanceTailBlock
  PROVE  BlockInv'
<1> USE Basics DEF AdvanceTailBlock, BlockInv, TypeOK, blockVars, consOwned, prodOwned, consVars, prodVars,
      ProdGoto, ProdReturn, ConsGoto, ConsReturn
<1>1. ListTypeOK' /\ IndexTypeOK'
  BY DEF ListTypeOK, ProducerInv, ConsumerInv, IndexTypeOK
<1>2. ProducerTypeOK'
  BY DEF ProducerTypeOK, ListTypeOK, IndexTypeOK, ProducerInv, ProducerPCs
<1>3. ConsumerTypeOK'
  BY DEF ConsumerTypeOK, ListTypeOK, IndexTypeOK, ConsumerInv, ConsumerPCs
<1>4. FlagTypeOK'
  BY DEF FlagTypeOK
<1>5. ProducerInv' /\ ConsumerInv'
  BY DEF ProducerInv, ProducerTypeOK, ListTypeOK, IndexTypeOK, Succ, ConsumerInv,
         ConsumerTypeOK
<1>6. ShadowInv' /\ FreshInv'
  BY DEF ShadowInv, ListTypeOK, IndexTypeOK, ProducerInv, ConsumerInv, Distance,
         FreshInv
<1>7. SlotInv'
  <2> SUFFICES ASSUME NEW b \in 1 .. nblocks', NEW i \in 0 .. size'[b] - 1
               PROVE  data'[b][i] # NULL <=> LiveSlot(b, i)'
    BY DEF SlotInv
  <2> QED BY DEF SlotInv, LiveSlot
<1>8. RingInv'
  BY AdvanceTailBlockRing
<1> QED BY <1>1, <1>2, <1>3, <1>4, <1>5, <1>6, <1>7, <1>8

(* The shadow of tail catches up with it. *)
LEMMA RefreshTailStep ==
  ASSUME BlockInv, RefreshTail
  PROVE  BlockInv'
<1> USE Basics DEF RefreshTail, BlockInv, TypeOK, blockVars, consOwned, prodOwned, consVars, prodVars,
      ProdGoto, ProdReturn, ConsGoto, ConsReturn
<1>1. ListTypeOK' /\ IndexTypeOK'
  BY DEF ListTypeOK, ProducerInv, ConsumerInv, IndexTypeOK
<1>2. ProducerTypeOK' /\ ConsumerTypeOK' /\ FlagTypeOK'
  BY DEF ProducerTypeOK, ListTypeOK, IndexTypeOK, ProducerInv, ProducerPCs,
         ConsumerTypeOK, ConsumerInv, ConsumerPCs, FlagTypeOK
<1>3. ProducerInv' /\ ConsumerInv'
  BY DEF ProducerInv, ProducerTypeOK, ListTypeOK, IndexTypeOK, Succ, ConsumerInv,
         ConsumerTypeOK
<1>4. ShadowInv'
  <2> SUFFICES ASSUME NEW b \in 1 .. nblocks'
               PROVE  InOrder(size'[b], localFront'[b], front'[b], localTail'[b], tail'[b])
    BY DEF ShadowInv
  <2>1. Indices(size[b], localFront[b], front[b], localTail[b], tail[b])
    BY IndicesOfBlocks
  <2>2. CASE b = cBlk
    BY <2>1, <2>2, ShadowsRefresh DEF Indices, ConsumerInv, ListTypeOK, IndexTypeOK
  <2>3. CASE b # cBlk
    BY <2>1, <2>3 DEF Indices, ConsumerInv, ListTypeOK, IndexTypeOK
  <2> QED BY <2>2, <2>3
<1>5. FreshInv'
  BY DEF FreshInv, ListTypeOK, IndexTypeOK, ProducerInv, ConsumerInv
<1>6. SlotInv'
  BY DEF SlotInv, LiveSlot, ListTypeOK, IndexTypeOK, ProducerInv, ConsumerInv, Distance
<1>7. RingInv'
  <2>1. PICK pos \in [1 .. RingLength -> 0 .. RingLength - 1] : RingWitness(pos)
    BY DEF RingInv
  <2>2. RingLength' = RingLength
    BY DEF RingLength
  <2>3. /\ frontBlock \in 1 .. RingLength /\ pos[frontBlock] = 0
        /\ pos[tailBlock] \in Nat /\ (pos[tailBlock] = 0 => tailBlock = frontBlock)
    BY <2>1, RingEnds DEF RingWitness
  <2>11. RingShape(pos)'
    BY <2>1, <2>2 DEF RingWitness, RingShape
  <2>12. RingFill(pos)'
    BY <2>1, <2>2 DEF RingWitness, RingFill
  <2>13. ProducerPlace(pos)'
    BY <2>1, <2>2 DEF RingWitness, ProducerPlace
  <2>14. ConsumerPlace(pos)'
    BY <2>1, <2>2, <2>3 DEF RingWitness, ConsumerPlace, ConsumerInv
  <2> QED BY <2>2, <2>11, <2>12, <2>13, <2>14 DEF RingInv, RingWitness
<1> QED BY <1>1, <1>2, <1>3, <1>4, <1>5, <1>6, <1>7

(* Seeing tailBlock elsewhere fixes that the front block is not the last. *)
LEMMA CheckTailBlockStep ==
  ASSUME BlockInv, CheckTailBlock
  PROVE  BlockInv'
<1> USE Basics DEF CheckTailBlock, BlockInv, TypeOK, blockVars, consOwned, prodOwned, consVars, prodVars,
      ProdGoto, ProdReturn, ConsGoto, ConsReturn
<1>1. ListTypeOK' /\ IndexTypeOK'
  BY DEF ListTypeOK, ProducerInv, ConsumerInv, IndexTypeOK
<1>2. ProducerTypeOK'
  BY DEF ProducerTypeOK, ListTypeOK, IndexTypeOK, ProducerInv, ProducerPCs
<1>3. ConsumerTypeOK'
  BY DEF ConsumerTypeOK, ListTypeOK, IndexTypeOK, ConsumerInv, ConsumerPCs
<1>4. FlagTypeOK'
  BY DEF FlagTypeOK
<1>5. ProducerInv' /\ ConsumerInv'
  BY DEF ProducerInv, ProducerTypeOK, ListTypeOK, IndexTypeOK, Succ, ConsumerInv,
         ConsumerTypeOK
<1>6. ShadowInv' /\ FreshInv'
  BY DEF ShadowInv, ListTypeOK, IndexTypeOK, ProducerInv, ConsumerInv, Distance,
         FreshInv
<1>7. SlotInv'
  BY DEF SlotInv, LiveSlot, ListTypeOK, IndexTypeOK, ProducerInv, ConsumerInv, Distance
<1>8. RingInv'
  <2>1. PICK pos \in [1 .. RingLength -> 0 .. RingLength - 1] : RingWitness(pos)
    BY DEF RingInv
  <2>2. RingLength' = RingLength
    BY DEF RingLength
  <2>3. /\ frontBlock \in 1 .. RingLength /\ pos[frontBlock] = 0
        /\ pos[tailBlock] \in Nat /\ (pos[tailBlock] = 0 => tailBlock = frontBlock)
    BY <2>1, RingEnds DEF RingWitness
  <2>11. RingShape(pos)'
    BY <2>1, <2>2 DEF RingWitness, RingShape
  <2>12. RingFill(pos)'
    BY <2>1, <2>2 DEF RingWitness, RingFill
  <2>13. ProducerPlace(pos)'
    BY <2>1, <2>2 DEF RingWitness, ProducerPlace
  <2>14. ConsumerPlace(pos)'
    BY <2>1, <2>2, <2>3 DEF RingWitness, ConsumerPlace, ConsumerInv
  <2> QED BY <2>2, <2>11, <2>12, <2>13, <2>14 DEF RingInv, RingWitness
<1> QED BY <1>1, <1>2, <1>3, <1>4, <1>5, <1>6, <1>7, <1>8

(* Empty at this second look, the front block stays empty: tailBlock has left it. *)
LEMMA RecheckFrontBlockStep ==
  ASSUME BlockInv, RecheckFrontBlock
  PROVE  BlockInv'
<1> USE Basics DEF RecheckFrontBlock, BlockInv, TypeOK, blockVars, consOwned, prodOwned, consVars, prodVars,
      ProdGoto, ProdReturn, ConsGoto, ConsReturn
<1>1. ListTypeOK' /\ IndexTypeOK'
  BY DEF ListTypeOK, ProducerInv, ConsumerInv, IndexTypeOK
<1>2. ProducerTypeOK' /\ ConsumerTypeOK' /\ FlagTypeOK'
  BY DEF ProducerTypeOK, ListTypeOK, IndexTypeOK, ProducerInv, ProducerPCs,
         ConsumerTypeOK, ConsumerInv, ConsumerPCs, FlagTypeOK
<1>3. ProducerInv' /\ ConsumerInv'
  BY DEF ProducerInv, ProducerTypeOK, ListTypeOK, IndexTypeOK, Succ, ConsumerInv,
         ConsumerTypeOK
<1>4. ShadowInv'
  <2> SUFFICES ASSUME NEW b \in 1 .. nblocks'
               PROVE  InOrder(size'[b], localFront'[b], front'[b], localTail'[b], tail'[b])
    BY DEF ShadowInv
  <2>1. Indices(size[b], localFront[b], front[b], localTail[b], tail[b])
    BY IndicesOfBlocks
  <2>2. CASE b = cBlk
    BY <2>1, <2>2, ShadowsRefresh DEF Indices, ConsumerInv, ListTypeOK, IndexTypeOK
  <2>3. CASE b # cBlk
    BY <2>1, <2>3 DEF Indices, ConsumerInv, ListTypeOK, IndexTypeOK
  <2> QED BY <2>2, <2>3
<1>5. FreshInv'
  BY DEF FreshInv, ListTypeOK, IndexTypeOK, ProducerInv, ConsumerInv
<1>6. SlotInv'
  BY DEF SlotInv, LiveSlot, ListTypeOK, IndexTypeOK, ProducerInv, ConsumerInv, Distance
<1>7. RingInv'
  <2>1. PICK pos \in [1 .. RingLength -> 0 .. RingLength - 1] : RingWitness(pos)
    BY DEF RingInv
  <2>2. RingLength' = RingLength
    BY DEF RingLength
  <2>3. /\ frontBlock \in 1 .. RingLength /\ pos[frontBlock] = 0
        /\ pos[tailBlock] \in Nat /\ (pos[tailBlock] = 0 => tailBlock = frontBlock)
    BY <2>1, RingEnds DEF RingWitness
  <2>11. RingShape(pos)'
    BY <2>1, <2>2 DEF RingWitness, RingShape
  <2>12. RingFill(pos)'
    BY <2>1, <2>2 DEF RingWitness, RingFill
  <2>13. ProducerPlace(pos)'
    BY <2>1, <2>2 DEF RingWitness, ProducerPlace
  <2>14. ConsumerPlace(pos)'
    BY <2>1, <2>2, <2>3 DEF RingWitness, ConsumerPlace, ConsumerInv
  <2> QED BY <2>2, <2>11, <2>12, <2>13, <2>14 DEF RingInv, RingWitness
<1> QED BY <1>1, <1>2, <1>3, <1>4, <1>5, <1>6, <1>7

(* The block after the front block is not beyond the tail block. *)
LEMMA LoadNextStep ==
  ASSUME BlockInv, LoadNext
  PROVE  BlockInv'
<1> USE Basics DEF LoadNext, BlockInv, TypeOK, blockVars, consOwned, prodOwned, consVars, prodVars,
      ProdGoto, ProdReturn, ConsGoto, ConsReturn
<1>1. ListTypeOK' /\ IndexTypeOK'
  BY DEF ListTypeOK, ProducerInv, ConsumerInv, IndexTypeOK
<1>2. ProducerTypeOK' /\ ConsumerTypeOK' /\ FlagTypeOK'
  BY DEF ProducerTypeOK, ListTypeOK, IndexTypeOK, ProducerInv, ProducerPCs,
         ConsumerTypeOK, ConsumerInv, ConsumerPCs, FlagTypeOK
<1>3. ProducerInv' /\ ConsumerInv'
  BY DEF ProducerInv, ProducerTypeOK, ListTypeOK, IndexTypeOK, Succ, ConsumerInv,
         ConsumerTypeOK
<1>4. ShadowInv' /\ FreshInv'
  BY DEF ShadowInv, ListTypeOK, IndexTypeOK, ProducerInv, ConsumerInv, Distance,
         FreshInv
<1>5. SlotInv'
  BY DEF SlotInv, LiveSlot, ListTypeOK, IndexTypeOK, ProducerInv, ConsumerInv, Distance
<1>6. RingInv'
  <2>1. PICK pos \in [1 .. RingLength -> 0 .. RingLength - 1] : RingWitness(pos)
    BY DEF RingInv
  <2>2. RingLength' = RingLength
    BY DEF RingLength
  <2>3. next[frontBlock] \in 1 .. RingLength /\ pos[next[frontBlock]] = 1
    <3>1. RingShape(pos) /\ pos[tailBlock] >= 1
      BY <2>1 DEF RingWitness, ConsumerPlace
    <3>2. pos[tailBlock] \in Nat /\ pos[tailBlock] # 0
      BY <3>1, RingEnds
    <3> QED BY <3>1, <3>2, RingEnds
  <2>11. RingShape(pos)'
    BY <2>1, <2>2 DEF RingWitness, RingShape
  <2>12. RingFill(pos)'
    BY <2>1, <2>2 DEF RingWitness, RingFill
  <2>13. ProducerPlace(pos)'
    BY <2>1, <2>2 DEF RingWitness, ProducerPlace
  <2>14. ConsumerPlace(pos)'
    BY <2>1, <2>2, <2>3 DEF RingWitness, ConsumerPlace, ConsumerInv
  <2> QED BY <2>2, <2>11, <2>12, <2>13, <2>14 DEF RingInv, RingWitness
<1> QED BY <1>1, <1>2, <1>3, <1>4, <1>5, <1>6

(* The next block has an element, which the shadow of its tail now shows. *)
LEMMA LoadNextTailStep ==
  ASSUME BlockInv, LoadNextTail
  PROVE  BlockInv'
<1> USE Basics DEF LoadNextTail, BlockInv, TypeOK, blockVars, consOwned, prodOwned, consVars, prodVars,
      ProdGoto, ProdReturn, ConsGoto, ConsReturn
<1>1. ListTypeOK' /\ IndexTypeOK'
  BY DEF ListTypeOK, ProducerInv, ConsumerInv, IndexTypeOK
<1>2. ProducerTypeOK' /\ ConsumerTypeOK' /\ FlagTypeOK'
  BY DEF ProducerTypeOK, ListTypeOK, IndexTypeOK, ProducerInv, ProducerPCs,
         ConsumerTypeOK, ConsumerInv, ConsumerPCs, FlagTypeOK
<1>3. ProducerInv'
  BY DEF ProducerInv, ProducerTypeOK, ListTypeOK, IndexTypeOK, Succ
<1>4. ConsumerInv'
  <2>1. front[cBlk] # tail[cBlk]
    BY RingAsserts DEF BlockAssertions
  <2>2. cBlk \in Blocks
    BY DEF ConsumerInv
  <2> QED BY <2>1, <2>2 DEF ConsumerInv, IndexTypeOK, ConsumerTypeOK
<1>5. ShadowInv'
  <2> SUFFICES ASSUME NEW b \in 1 .. nblocks'
               PROVE  InOrder(size'[b], localFront'[b], front'[b], localTail'[b], tail'[b])
    BY DEF ShadowInv
  <2>1. Indices(size[b], localFront[b], front[b], localTail[b], tail[b])
    BY IndicesOfBlocks
  <2>2. CASE b = cBlk
    BY <2>1, <2>2, ShadowsRefresh DEF Indices, ConsumerInv, ListTypeOK, IndexTypeOK
  <2>3. CASE b # cBlk
    BY <2>1, <2>3 DEF Indices, ConsumerInv, ListTypeOK, IndexTypeOK
  <2> QED BY <2>2, <2>3
<1>6. FreshInv'
  BY DEF FreshInv, ListTypeOK, IndexTypeOK, ProducerInv, ConsumerInv
<1>7. SlotInv'
  BY DEF SlotInv, LiveSlot, ListTypeOK, IndexTypeOK, ProducerInv, ConsumerInv, Distance
<1>8. RingInv'
  <2>1. PICK pos \in [1 .. RingLength -> 0 .. RingLength - 1] : RingWitness(pos)
    BY DEF RingInv
  <2>2. RingLength' = RingLength
    BY DEF RingLength
  <2>3. /\ frontBlock \in 1 .. RingLength /\ pos[frontBlock] = 0
        /\ pos[tailBlock] \in Nat /\ (pos[tailBlock] = 0 => tailBlock = frontBlock)
    BY <2>1, RingEnds DEF RingWitness
  <2>11. RingShape(pos)'
    BY <2>1, <2>2 DEF RingWitness, RingShape
  <2>12. RingFill(pos)'
    BY <2>1, <2>2 DEF RingWitness, RingFill
  <2>13. ProducerPlace(pos)'
    BY <2>1, <2>2 DEF RingWitness, ProducerPlace
  <2>14. ConsumerPlace(pos)'
    BY <2>1, <2>2, <2>3 DEF RingWitness, ConsumerPlace, ConsumerInv
  <2> QED BY <2>2, <2>11, <2>12, <2>13, <2>14 DEF RingInv, RingWitness
<1> QED BY <1>1, <1>2, <1>3, <1>4, <1>5, <1>6, <1>7, <1>8

(* The ring is rotated: the empty front block becomes the last of the free ones. *)
LEMMA AdvanceFrontBlockStep ==
  ASSUME BlockInv, AdvanceFrontBlock
  PROVE  BlockInv'
<1> USE Basics DEF AdvanceFrontBlock, BlockInv, TypeOK, blockVars, consOwned, prodOwned, consVars, prodVars,
      ProdGoto, ProdReturn, ConsGoto, ConsReturn
<1>1. ListTypeOK' /\ IndexTypeOK'
  BY DEF ListTypeOK, ProducerInv, ConsumerInv, IndexTypeOK
<1>2. ProducerTypeOK' /\ ConsumerTypeOK' /\ FlagTypeOK'
  BY DEF ProducerTypeOK, ListTypeOK, IndexTypeOK, ProducerInv, ProducerPCs,
         ConsumerTypeOK, ConsumerInv, ConsumerPCs, FlagTypeOK
<1>3. ProducerInv'
  BY DEF ProducerInv, ProducerTypeOK, ListTypeOK, IndexTypeOK, Succ
<1>4. ConsumerInv'
  <2>1. cBlk \in 1 .. nblocks /\ front[cBlk] # tail[cBlk]
    BY IndexTests DEF ConsumerInv
  <2> QED BY <2>1 DEF ConsumerInv
<1>5. ShadowInv' /\ FreshInv'
  BY DEF ShadowInv, ListTypeOK, IndexTypeOK, ProducerInv, ConsumerInv, Distance,
         FreshInv
<1>6. SlotInv'
  BY DEF SlotInv, LiveSlot, ListTypeOK, IndexTypeOK, ProducerInv, ConsumerInv, Distance
<1>7. RingInv'
  BY AdvanceFrontBlockRing
<1> QED BY <1>1, <1>2, <1>3, <1>4, <1>5, <1>6, <1>7

(* The object at front dies; its slot stays the consumer's until it is released. *)
LEMMA TakeElementStep ==
  ASSUME BlockInv, TakeElement
  PROVE  BlockInv'
<1> USE Basics DEF TakeElement, BlockInv, TypeOK, blockVars, consOwned, prodOwned, consVars, prodVars,
      ProdGoto, ProdReturn, ConsGoto, ConsReturn
<1>1. ListTypeOK' /\ IndexTypeOK'
  BY DEF ListTypeOK, ProducerInv, ConsumerInv, IndexTypeOK
<1>2. ProducerTypeOK' /\ ConsumerTypeOK' /\ FlagTypeOK'
  BY DEF ProducerTypeOK, ListTypeOK, IndexTypeOK, ProducerInv, ProducerPCs,
         ConsumerTypeOK, ConsumerInv, ConsumerPCs, FlagTypeOK
<1>3. ProducerInv'
  BY DEF ProducerInv, ProducerTypeOK, ListTypeOK, IndexTypeOK, Succ
<1>4. ConsumerInv'
  <2>1. cBlk \in 1 .. nblocks /\ front[cBlk] # tail[cBlk] /\ front[cBlk] \in 0 .. size[cBlk] - 1
    BY DEF ConsumerInv
  <2>2. LiveSlot(cBlk, front[cBlk])
    BY <2>1 DEF LiveSlot, Distance
  <2>3. data[cBlk][front[cBlk]] # NULL
    BY <2>1, <2>2 DEF SlotInv
  <2>4. data[cBlk][front[cBlk]] \in Vals
    BY <2>1, <2>3 DEF ListTypeOK
  <2> QED BY <2>1, <2>4 DEF ConsumerInv
<1>5. ShadowInv' /\ FreshInv'
  BY DEF ShadowInv, ListTypeOK, IndexTypeOK, ProducerInv, ConsumerInv, Distance,
         FreshInv
<1>6. SlotInv'
  BY DEF SlotInv, LiveSlot, ListTypeOK, IndexTypeOK, ProducerInv, ConsumerInv, Distance
<1>7. RingInv'
  <2>1. PICK pos \in [1 .. RingLength -> 0 .. RingLength - 1] : RingWitness(pos)
    BY DEF RingInv
  <2>2. RingLength' = RingLength
    BY DEF RingLength
  <2>3. RingWitness(pos)'
    BY <2>1, <2>2, RingBasics DEF RingWitness, RingShape, RingFill, ProducerPlace, ConsumerPlace,
         ListTypeOK, IndexTypeOK, ProducerInv, ConsumerInv
  <2> QED BY <2>2, <2>3 DEF RingInv
<1> QED BY <1>1, <1>2, <1>3, <1>4, <1>5, <1>6, <1>7

(* front passes the dead slot. *)
LEMMA ReleaseSlotStep ==
  ASSUME BlockInv, ReleaseSlot
  PROVE  BlockInv'
<1> USE Basics DEF ReleaseSlot, BlockInv, TypeOK, blockVars, consOwned, prodOwned, consVars, prodVars,
      ProdGoto, ProdReturn, ConsGoto, ConsReturn
<1>1. ListTypeOK' /\ IndexTypeOK'
  <2>1. /\ front' = [front EXCEPT ![cBlk] = Succ(size[cBlk], @)]
        /\ UNCHANGED <<maxSize, nblocks, largestBlockSize, frontBlock, tailBlock, size, next, data,
                       localTail, tail, localFront>>
        /\ cBlk \in 1 .. nblocks
    BY DEF ConsumerInv
  <2>2. ListTypeOK /\ IndexTypeOK /\ Succ(size[cBlk], front[cBlk]) \in 0 .. size[cBlk] - 1
        /\ Succ(size[cBlk], front[cBlk]) \in Slots /\ \A b \in 1 .. nblocks : b \in Blocks
    BY <2>1
  <2>3. ListTypeOK'
    BY ONLY <2>1, <2>2 DEF ListTypeOK
  <2> QED BY ONLY <2>1, <2>2, <2>3 DEF IndexTypeOK, ListTypeOK
<1>2. ProducerTypeOK'
  BY DEF ProducerTypeOK, ListTypeOK, IndexTypeOK, ProducerInv, ProducerPCs
<1>3. ConsumerTypeOK'
  BY DEF ConsumerTypeOK, ListTypeOK, IndexTypeOK, ConsumerInv, ConsumerPCs
<1>4. FlagTypeOK'
  BY DEF FlagTypeOK
<1>5. ProducerInv' /\ ConsumerInv'
  BY DEF ProducerInv, ProducerTypeOK, ListTypeOK, IndexTypeOK, Succ, ConsumerInv,
         ConsumerTypeOK
<1>6. ShadowInv'
  <2> SUFFICES ASSUME NEW b \in 1 .. nblocks'
               PROVE  InOrder(size'[b], localFront'[b], front'[b], localTail'[b], tail'[b])
    BY DEF ShadowInv
  <2>1. Indices(size[b], localFront[b], front[b], localTail[b], tail[b])
    BY IndicesOfBlocks
  <2>2. CASE b = cBlk
    BY <2>1, <2>2, FrontAdvances DEF Indices, ConsumerInv, ListTypeOK, IndexTypeOK
  <2>3. CASE b # cBlk
    BY <2>1, <2>3 DEF Indices, ConsumerInv, ListTypeOK, IndexTypeOK
  <2> QED BY <2>2, <2>3
<1>7. FreshInv'
  <2>1. cBlk \in 1 .. nblocks /\ UNCHANGED <<nblocks, localFront, data>>
    BY DEF ConsumerInv
  <2>2. \A b \in nblocks + 1 .. MaxBlocks : front'[b] = front[b]
    BY <2>1 DEF Blocks, ListTypeOK, IndexTypeOK
  <2>3. FreshInv
    OBVIOUS
  <2> QED BY ONLY <2>1, <2>2, <2>3 DEF FreshInv
<1>8. SlotInv'
  <2> SUFFICES ASSUME NEW b \in 1 .. nblocks', NEW i \in 0 .. size'[b] - 1
               PROVE  data'[b][i] # NULL <=> LiveSlot(b, i)'
    BY DEF SlotInv
  <2>1. data[b][i] # NULL <=> LiveSlot(b, i)
    BY DEF SlotInv
  <2>2. cBlk \in 1 .. nblocks /\ front[cBlk] # localTail[cBlk]
    BY DEF ConsumerInv
  <2>3. CASE b = cBlk
    <3>1. front'[b] = Succ(size[b], front[b])
      BY <2>2, <2>3 DEF IndexTypeOK
    <3>2. Distance(size[b], front'[b], i) < Distance(size[b], front'[b], tail[b])
            <=> Distance(size[b], front[b], i) < Distance(size[b], front[b], tail[b]) /\ i # front[b]
      BY <2>2, <2>3, <3>1, LiveAfterRelease
    <3> QED BY <2>1, <2>3, <3>2 DEF LiveSlot
  <2>4. CASE b # cBlk
    BY <2>1, <2>2, <2>4 DEF LiveSlot, IndexTypeOK
  <2> QED BY <2>3, <2>4
<1>9. RingInv'
  BY ReleaseSlotRing
<1> QED BY <1>1, <1>2, <1>3, <1>4, <1>5, <1>6, <1>7, <1>8, <1>9

(* Nothing but the call changes. *)
LEMMA PeekElementStep ==
  ASSUME BlockInv, PeekElement
  PROVE  BlockInv'
<1> USE Basics DEF PeekElement, BlockInv, TypeOK, blockVars, consOwned, prodOwned, consVars, prodVars,
      ProdGoto, ProdReturn, ConsGoto, ConsReturn
<1>1. ListTypeOK' /\ IndexTypeOK'
  BY DEF ListTypeOK, ProducerInv, ConsumerInv, IndexTypeOK
<1>2. ProducerTypeOK'
  BY DEF ProducerTypeOK, ListTypeOK, IndexTypeOK, ProducerInv, ProducerPCs
<1>3. ConsumerTypeOK'
  BY DEF ConsumerTypeOK, ListTypeOK, IndexTypeOK, ConsumerInv, ConsumerPCs
<1>4. FlagTypeOK'
  BY DEF FlagTypeOK
<1>5. ProducerInv' /\ ConsumerInv'
  BY DEF ProducerInv, ProducerTypeOK, ListTypeOK, IndexTypeOK, Succ, ConsumerInv,
         ConsumerTypeOK
<1>6. ShadowInv' /\ FreshInv'
  BY DEF ShadowInv, ListTypeOK, IndexTypeOK, ProducerInv, ConsumerInv, Distance,
         FreshInv
<1>7. SlotInv'
  BY DEF SlotInv, LiveSlot, ListTypeOK, IndexTypeOK, ProducerInv, ConsumerInv, Distance
<1>8. RingInv'
  <2>1. PICK pos \in [1 .. RingLength -> 0 .. RingLength - 1] : RingWitness(pos)
    BY DEF RingInv
  <2>2. RingLength' = RingLength
    BY DEF RingLength
  <2>3. RingWitness(pos)'
    BY <2>1, <2>2, RingBasics DEF RingWitness, RingShape, RingFill, ProducerPlace, ConsumerPlace,
         ListTypeOK, IndexTypeOK, ProducerInv, ConsumerInv
  <2> QED BY <2>2, <2>3 DEF RingInv
<1> QED BY <1>1, <1>2, <1>3, <1>4, <1>5, <1>6, <1>7, <1>8

(* The constructor makes at least one block, of at least two slots. *)
LEMMA FirstBlockBasics ==
  ASSUME NEW m \in MaxSizes
  PROVE  FirstBlockSize(m) \in 2 .. MAX_BLOCK_SIZE * 2 /\ InitialBlockCount(m) \in Blocks
<1>1. m \in Nat /\ m >= 1 /\ \E p \in m + 1 .. 2 * m + 1 : IsPowerOf2(p)
  BY QueueAssumption DEF QueueAssumption
<1>2. 2 * (m + 1) - 1 = 2 * m + 1
  BY <1>1
<1>3. \E p \in m + 1 .. 2 * (m + 1) - 1 : IsPowerOf2(p)
  BY <1>1, <1>2
<1>4. CeilToPow2(m + 1) \in m + 1 .. 2 * (m + 1) - 1
  BY <1>3 DEF CeilToPow2
<1>5. CeilToPow2(m + 1) \in Nat /\ CeilToPow2(m + 1) >= 2
  BY <1>1, <1>4
<1> QED BY <1>5, QueueAssumption DEF QueueAssumption, FirstBlockSize

(* The constructor establishes the invariant. *)
LEMMA InitBlockInv ==
  ASSUME Init
  PROVE  BlockInv
<1>1. /\ nblocks \in Blocks /\ MaxBlocks \in Nat /\ nblocks \in Nat /\ nblocks >= 1 /\ nblocks <= MaxBlocks
      /\ largestBlockSize \in 2 .. MAX_BLOCK_SIZE * 2
  BY FirstBlockBasics, QueueAssumption DEF QueueAssumption, Init, Blocks
<1>2. 0 \in Slots /\ Slots \subseteq Nat /\ MAX_BLOCK_SIZE \in Nat
  BY QueueAssumption DEF QueueAssumption, Slots
<1>3. \A b \in 1 .. nblocks : b \in Blocks /\ size[b] = largestBlockSize
  BY <1>1 DEF Init, Blocks
<1>4. ListTypeOK
  <2>1. next \in [Blocks -> Blocks]
    <3>1. \A b \in Blocks : (IF b < nblocks THEN b + 1 ELSE 1) \in Blocks
      BY <1>1 DEF Blocks
    <3> QED BY <3>1 DEF Init
  <2>2. size \in [Blocks -> 0 .. MAX_BLOCK_SIZE * 2]
    BY <1>1, <1>2 DEF Init
  <2> QED BY <1>1, <2>1, <2>2 DEF Init, ListTypeOK
<1>5. IndexTypeOK
  <2>1. \A b \in 1 .. nblocks : next[b] \in 1 .. nblocks
    <3>1. \A b \in 1 .. nblocks : next[b] = IF b < nblocks THEN b + 1 ELSE 1
      BY <1>3 DEF Init
    <3> QED BY <1>1, <3>1
  <2> QED BY <1>1, <1>2, <1>3, <2>1 DEF Init, IndexTypeOK
<1>6. ProducerTypeOK /\ ConsumerTypeOK /\ FlagTypeOK
  <2>1. ProducerTypeOK
    BY <1>1 DEF Init, ProducerTypeOK, ProducerPCs
  <2>2. ConsumerTypeOK
    BY <1>1 DEF Init, ConsumerTypeOK, ConsumerPCs
  <2>3. FlagTypeOK
    BY DEF Init, FlagTypeOK
  <2> QED BY <2>1, <2>2, <2>3
<1>7. ProducerInv /\ ConsumerInv
  BY DEF Init, ProducerInv, ConsumerInv
<1>8. ShadowInv
  BY <1>1, <1>3 DEF Init, ShadowInv, InOrder, Distance
<1>9. FreshInv
  BY <1>1 DEF Init, FreshInv, Blocks
<1>10. SlotInv
  <2> SUFFICES ASSUME NEW b \in 1 .. nblocks, NEW i \in 0 .. size[b] - 1
               PROVE  data[b][i] # NULL <=> LiveSlot(b, i)
    BY DEF SlotInv
  <2>1. i \in Slots /\ i \in Nat
    BY <1>1, <1>2, <1>3 DEF Slots
  <2>2. data[b][i] = NULL
    BY <1>3, <2>1 DEF Init
  <2>3. ~ LiveSlot(b, i)
    BY <1>3, <2>1 DEF Init, LiveSlot, Distance
  <2> QED BY <2>2, <2>3
<1>11. RingInv
  <2> DEFINE pos == [b \in 1 .. nblocks |-> b - 1]
  <2>1. RingLength = nblocks
    BY DEF Init, RingLength
  <2>2. pos \in [1 .. nblocks -> 0 .. nblocks - 1]
    BY <1>1
  <2>3. RingShape(pos)
    <3>1. \A b \in 1 .. nblocks :
            /\ pos[b] = b - 1
            /\ next[b] \in 1 .. nblocks /\ next[b] = IF b < nblocks THEN b + 1 ELSE 1
      <4>1. next = [b \in Blocks |-> IF b < nblocks THEN b + 1 ELSE 1]
        BY DEF Init
      <4> QED BY ONLY <1>1, <1>3, <4>1
    <3>2. \A b, c \in 1 .. nblocks : pos[b] = pos[c] => b = c
      BY <1>1, <3>1
    <3>3. ASSUME NEW b \in 1 .. nblocks
          PROVE  pos[next[b]] = IF pos[b] = nblocks - 1 THEN 0 ELSE pos[b] + 1
      BY <1>1, <3>1
    <3>4. 1 \in 1 .. nblocks /\ pos[1] = 0 /\ frontBlock = 1 /\ tailBlock = 1
      BY <1>1, <3>1 DEF Init
    <3> HIDE DEF pos
    <3> QED BY <2>1, <3>1, <3>2, <3>3, <3>4 DEF RingShape
  <2>4. RingFill(pos)
    BY <1>1, <1>3, <2>1 DEF Init, RingFill
  <2>5. ProducerPlace(pos) /\ ConsumerPlace(pos)
    BY DEF Init, ProducerPlace, ConsumerPlace
  <2> HIDE DEF pos
  <2> QED BY <2>1, <2>2, <2>3, <2>4, <2>5 DEF RingInv, RingWitness
<1> QED BY <1>4, <1>5, <1>6, <1>7, <1>8, <1>9, <1>10, <1>11 DEF BlockInv, TypeOK

(* A step that leaves every variable unchanged keeps the invariant. *)
LEMMA StutterStep ==
  ASSUME BlockInv, UNCHANGED vars
  PROVE  BlockInv'
<1> USE DEF vars
<1>1. TypeOK'
  BY DEF BlockInv, TypeOK, ListTypeOK, IndexTypeOK, ProducerTypeOK, ConsumerTypeOK, FlagTypeOK
<1>2. ProducerInv' /\ ConsumerInv' /\ ShadowInv' /\ FreshInv' /\ SlotInv'
  BY DEF BlockInv, ProducerInv, ConsumerInv, ShadowInv, FreshInv, SlotInv, LiveSlot
<1>3. RingLength' = RingLength
  BY DEF RingLength
<1>4. RingInv'
  <2>1. PICK pos \in [1 .. RingLength -> 0 .. RingLength - 1] : RingWitness(pos)
    BY DEF BlockInv, RingInv
  <2>2. RingWitness(pos)'
    BY <1>3, <2>1 DEF RingWitness, RingShape, RingFill, ProducerPlace, ConsumerPlace
  <2> QED BY <1>3, <2>2 DEF RingInv
<1> QED BY <1>1, <1>2, <1>4 DEF BlockInv

(* BlockInv is an invariant: no interleaving of the two threads leaves it. *)
THEOREM BlockInvariance == Spec => []BlockInv
<1>1. Init => BlockInv
  BY InitBlockInv
<1>2. BlockInv /\ [Next]_vars => BlockInv'
  <2> SUFFICES ASSUME BlockInv, [Next]_vars
               PROVE  BlockInv'
    OBVIOUS
  <2>1. ASSUME NEW op \in {"try_enqueue", "enqueue"}, NEW v \in Vals, EnqueueCall(op, v)
        PROVE  BlockInv'
    BY <2>1, EnqueueCallStep
  <2>2. CASE RefreshFront
    BY <2>2, RefreshFrontStep
  <2>3. CASE Construct
    BY <2>3, ConstructStep
  <2>4. CASE PublishTail
    BY <2>4, PublishTailStep
  <2>5. CASE CheckNextBlock
    BY <2>5, CheckNextBlockStep
  <2>6. CASE LoadNextBlock
    BY <2>6, LoadNextBlockStep
  <2>7. CASE PublishNextTail
    BY <2>7, PublishNextTailStep
  <2>8. CASE AllocateBlock
    BY <2>8, AllocateBlockStep
  <2>9. CASE AllocationFails
    BY <2>9, AllocationFailsStep
  <2>10. CASE LinkBlock
    BY <2>10, LinkBlockStep
  <2>11. CASE AdvanceTailBlock
    BY <2>11, AdvanceTailBlockStep
  <2>12. ASSUME NEW op \in {"try_dequeue", "peek"}, DequeueCall(op)
         PROVE  BlockInv'
    BY <2>12, DequeueCallStep
  <2>13. CASE RefreshTail
    BY <2>13, RefreshTailStep
  <2>14. CASE CheckTailBlock
    BY <2>14, CheckTailBlockStep
  <2>15. CASE RecheckFrontBlock
    BY <2>15, RecheckFrontBlockStep
  <2>16. CASE LoadNext
    BY <2>16, LoadNextStep
  <2>17. CASE LoadNextTail
    BY <2>17, LoadNextTailStep
  <2>18. CASE AdvanceFrontBlock
    BY <2>18, AdvanceFrontBlockStep
  <2>19. CASE TakeElement
    BY <2>19, TakeElementStep
  <2>20. CASE ReleaseSlot
    BY <2>20, ReleaseSlotStep
  <2>21. CASE PeekElement
    BY <2>21, PeekElementStep
  <2>22. CASE UNCHANGED vars
    BY <2>22, StutterStep
  <2> QED
    BY <2>1, <2>2, <2>3, <2>4, <2>5, <2>6, <2>7, <2>8, <2>9, <2>10, <2>11, <2>12, <2>13,
       <2>14, <2>15, <2>16, <2>17, <2>18, <2>19, <2>20, <2>21, <2>22
       DEF Next, Producer, Consumer
<1> QED BY <1>1, <1>2, PTL DEF Spec

(* Every variable stays in its domain and every index within its block. *)
THEOREM TypeCorrect == Spec => []TypeOK
<1>1. BlockInv => TypeOK
  BY DEF BlockInv
<1> QED BY <1>1, BlockInvariance, PTL

(* The two threads never touch one slot at a time (the code has no lock). *)
THEOREM NoRace == Spec => []NoSlotRace
<1>1. BlockInv => NoSlotRace
  <2> SUFFICES ASSUME BlockInv, cPC = "take", tail[cBlk] = front[cBlk]
               PROVE  FALSE
    BY DEF NoSlotRace
  <2> QED BY DEF BlockInv, ConsumerInv
<1> QED BY <1>1, BlockInvariance, PTL

(* Objects are constructed on free slots, and moved out of and destroyed on live ones. *)
THEOREM Lifetimes == Spec => []SlotLifetimes
<1>1. BlockInv => SlotLifetimes
  <2> SUFFICES ASSUME BlockInv
               PROVE  SlotLifetimes
    OBVIOUS
  <2>1. ASSUME pPC \in {"construct", "constructNext"}
        PROVE  data[pBlk][tail[pBlk]] = NULL
    <3>1. pBlk \in 1 .. nblocks /\ tail[pBlk] \in 0 .. size[pBlk] - 1
      BY <2>1, Basics DEF BlockInv, ProducerInv
    <3>2. front[pBlk] \in 0 .. size[pBlk] - 1 /\ size[pBlk] \in Nat
      BY <3>1, Basics DEF BlockInv
    <3>3. ~ LiveSlot(pBlk, tail[pBlk])
      BY <2>1, <3>1, <3>2 DEF LiveSlot, Distance
    <3> QED BY <3>1, <3>3 DEF BlockInv, SlotInv
  <2>2. ASSUME cPC = "take"
        PROVE  data[cBlk][front[cBlk]] # NULL
    <3>1. cBlk \in 1 .. nblocks /\ front[cBlk] # tail[cBlk]
      BY <2>2 DEF BlockInv, ConsumerInv
    <3>2. front[cBlk] \in 0 .. size[cBlk] - 1 /\ tail[cBlk] \in 0 .. size[cBlk] - 1 /\ size[cBlk] \in Nat
      BY <3>1, Basics DEF BlockInv
    <3>3. LiveSlot(cBlk, front[cBlk])
      BY <2>2, <3>1, <3>2 DEF LiveSlot, Distance
    <3> QED BY <3>1, <3>2, <3>3 DEF BlockInv, SlotInv
  <2> QED BY <2>1, <2>2 DEF SlotLifetimes
<1> QED BY <1>1, BlockInvariance, PTL

(* The assertions of inner_enqueue and try_dequeue about the next block never fail. *)
THEOREM Assertions == Spec => []BlockAssertions
<1>1. BlockInv => BlockAssertions
  BY RingAsserts DEF BlockInv
<1> QED BY <1>1, BlockInvariance, PTL
=============================================================================
