-------------------------- MODULE ReaderWriterQueue --------------------------
(***************************************************************************)
(* moodycamel::ReaderWriterQueue (extension/readerwriterqueue.h): the      *)
(* lock-free single-producer, single-consumer queue through which the      *)
(* game thread and the libuv thread of the AsyncSocket extension talk.     *)
(*                                                                         *)
(* A circular list of blocks, each a circular buffer with one wasted slot. *)
(* The producer owns tailBlock, every tail, localFront and next; the       *)
(* consumer owns frontBlock, every front and localTail.  One action is one *)
(* access to memory the other thread may touch (a variable the other owns, *)
(* a store the other reads, or a slot), together with the thread's private *)
(* work up to the next such access.  Interleaving is sequentially          *)
(* consistent: the fences of the code are taken to do their job.           *)
(*                                                                         *)
(* Blocks are numbered in the order make_block returned them.  A block     *)
(* past MaxBlocks cannot be allocated, and any allocation may fail.        *)
(***************************************************************************)
EXTENDS Integers, Sequences

CONSTANTS
  Vals,            \* the elements
  NULL,            \* a slot that holds no live object
  MAX_BLOCK_SIZE,  \* template parameter: a power of two
  MaxSizes,        \* the constructor arguments considered
  MaxBlocks        \* bound on the number of blocks

IsPowerOf2(p) == \E k \in 0 .. p : 2^k = p

(* ceilToPow2: the bit smearing of the code is the least power of two >= x. *)
CeilToPow2(x) == CHOOSE p \in x .. 2 * x - 1 : IsPowerOf2(p)

(* largestBlockSize and the number of blocks the constructor makes. *)
FirstBlockSize(maxSize) ==
  LET size == CeilToPow2(maxSize + 1)
  IN  IF size > MAX_BLOCK_SIZE * 2 THEN MAX_BLOCK_SIZE ELSE size

InitialBlockCount(maxSize) ==
  IF CeilToPow2(maxSize + 1) > MAX_BLOCK_SIZE * 2
    THEN (maxSize + MAX_BLOCK_SIZE * 2 - 3) \div (MAX_BLOCK_SIZE - 1)
    ELSE 1

Blocks == 1 .. MaxBlocks
Slots  == 0 .. MAX_BLOCK_SIZE * 2 - 1

ASSUME QueueAssumption ==
  /\ NULL \notin Vals
  /\ MAX_BLOCK_SIZE \in Nat /\ MAX_BLOCK_SIZE >= 2 /\ IsPowerOf2(MAX_BLOCK_SIZE)
  /\ MaxBlocks \in Nat
  /\ MaxSizes \subseteq Nat \ {0}
  /\ \A m \in MaxSizes :
       /\ \E p \in m + 1 .. 2 * m + 1 : IsPowerOf2(p)
       /\ InitialBlockCount(m) \in Blocks

VARIABLES
  maxSize,          \* the constructor argument
  nblocks,          \* blocks 1 .. nblocks exist
  largestBlockSize,
  frontBlock, tailBlock,
  size,             \* size[b]: sizeMask + 1
  front, localTail, \* consumer's indices of each block
  tail, localFront, \* producer's indices of each block
  next,             \* the circular list
  data,             \* data[b][i]: a live element or NULL
  pOp, pVal,        \* the producer's call: operation and element,
  pPC, pBlk,        \*   program counter and the block it works on
  cOp, cVal,        \* the consumer's call: operation and element taken,
  cPC, cBlk,        \*   program counter and the block it works on
  out,              \* result of the consumer's last call
  queue,            \* history: the elements enqueued and not yet dequeued, oldest first
  fullAtCall,       \* history: maxSize elements were queued when the enqueue began
  emptyAtCall       \* history: nothing was queued when the dequeue began

blockVars  == <<maxSize, nblocks, largestBlockSize, size, next>>
consOwned  == <<frontBlock, front, localTail>>
prodOwned  == <<tailBlock, tail, localFront>>
prodVars   == <<pOp, pVal, pPC, pBlk, fullAtCall>>
consVars   == <<cOp, cVal, cPC, cBlk, out, emptyAtCall>>
vars == <<maxSize, nblocks, largestBlockSize, frontBlock, tailBlock, size, front, localTail,
          tail, localFront, next, data, pOp, pVal, pPC, pBlk, cOp, cVal, cPC, cBlk, out,
          queue, fullAtCall, emptyAtCall>>

(* Wrong variants of the definitions, each named for its bug, stand before the definition *)
(* they vary: each breaks one of the properties below.                                   *)
SuccWithoutMask(s, i) == i + 1

(* (i + 1) & sizeMask, in a block of s slots (a power of two): sizeMask is s - 1. *)
Succ(s, i) == IF i + 1 = s THEN 0 ELSE i + 1

(* The slots of b that hold queued elements, and the elements in order. *)
Queued(b) ==
  IF front[b] <= tail[b] THEN tail[b] - front[b] ELSE size[b] - front[b] + tail[b]

(* A slot emptied by a dequeue still counts until it is released. *)
ElementAt(b, i) ==
  IF cPC = "release" /\ cBlk = b /\ front[b] = i THEN cVal ELSE data[b][i]

InBlock(b) ==
  [k \in 1 .. Queued(b) |->
     LET i == front[b] + k - 1
     IN  ElementAt(b, IF i < size[b] THEN i ELSE i - size[b])]

Init ==
  /\ maxSize \in MaxSizes
  /\ nblocks = InitialBlockCount(maxSize)
  /\ largestBlockSize = FirstBlockSize(maxSize)
  /\ frontBlock = 1
  /\ tailBlock = 1
  /\ size = [b \in Blocks |-> IF b <= nblocks THEN largestBlockSize ELSE 0]
  /\ next = [b \in Blocks |-> IF b < nblocks THEN b + 1 ELSE 1]
  /\ front = [b \in Blocks |-> 0]
  /\ localTail = [b \in Blocks |-> 0]
  /\ tail = [b \in Blocks |-> 0]
  /\ localFront = [b \in Blocks |-> 0]
  /\ data = [b \in Blocks |-> [i \in Slots |-> NULL]]
  /\ pOp = "idle" /\ pVal = NULL /\ pPC = "idle" /\ pBlk = 0
  /\ cOp = "idle" /\ cVal = NULL /\ cPC = "idle" /\ cBlk = 0
  /\ out = NULL
  /\ queue = <<>>
  /\ fullAtCall = FALSE
  /\ emptyAtCall = FALSE
-----------------------------------------------------------------------------
(* The producer: inner_enqueue<CanAlloc> (enqueue), inner_enqueue<CannotAlloc> (try_enqueue). *)

ProdGoto(pc) == pPC' = pc /\ UNCHANGED <<pOp, pVal, pBlk>>

ProdReturn ==
  /\ pOp' = "idle" /\ pVal' = NULL /\ pPC' = "idle" /\ pBlk' = 0
  /\ fullAtCall' = FALSE

(* Entry: tailBlock, its localFront and its tail are the producer's own. *)
EnqueueCall(op, v) ==
  /\ pPC = "idle"
  /\ LET room == Succ(size[tailBlock], tail[tailBlock]) # localFront[tailBlock]
     IN  pPC' = IF room THEN "construct" ELSE "refresh"
  /\ pOp' = op /\ pVal' = v /\ pBlk' = tailBlock
  /\ fullAtCall' = (Len(queue) >= maxSize)
  /\ UNCHANGED <<blockVars, consOwned, prodOwned, data, consVars, queue>>

RefreshFrontUsesLastSlot ==
  /\ pPC = "refresh"
  /\ localFront' = [localFront EXCEPT ![pBlk] = front[pBlk]]
  /\ ProdGoto(IF Queued(pBlk) < size[pBlk] THEN "construct" ELSE "checkNext")
  /\ UNCHANGED <<blockVars, consOwned, tailBlock, tail, data, fullAtCall, consVars, queue>>

(* The shadow says "full": reload the consumer's front and look again. *)
RefreshFront ==
  /\ pPC = "refresh"
  /\ localFront' = [localFront EXCEPT ![pBlk] = front[pBlk]]
  /\ ProdGoto(IF Succ(size[pBlk], tail[pBlk]) # front[pBlk]
                THEN "construct" ELSE "checkNext")
  /\ UNCHANGED <<blockVars, consOwned, tailBlock, tail, data, fullAtCall, consVars, queue>>

(* new (location) T(element), in the tail block or in the free block ahead. *)
Construct ==
  /\ pPC \in {"construct", "constructNext"}
  /\ data' = [data EXCEPT ![pBlk][tail[pBlk]] = pVal]
  /\ ProdGoto(IF pPC = "construct" THEN "publish" ELSE "publishNext")
  /\ UNCHANGED <<blockVars, consOwned, prodOwned, fullAtCall, consVars, queue>>

(* Publish the element in the tail block: the end of the common path. *)
PublishTail ==
  /\ pPC = "publish"
  /\ tail' = [tail EXCEPT ![pBlk] = Succ(size[pBlk], @)]
  /\ ProdReturn
  /\ queue' = Append(queue, pVal)
  /\ UNCHANGED <<blockVars, consOwned, tailBlock, localFront, data, consVars>>

CheckNextBlockAgainstTail ==
  /\ pPC = "checkNext"
  /\ IF next[pBlk] # tailBlock THEN ProdGoto("loadNext") ELSE ProdGoto("alloc")
  /\ UNCHANGED <<blockVars, consOwned, prodOwned, data, fullAtCall, consVars, queue>>

(* The tail block is full: is the next block the one being read? *)
CheckNextBlock ==
  /\ pPC = "checkNext"
  /\ \/ /\ next[pBlk] # frontBlock
        /\ ProdGoto("loadNext")
        /\ UNCHANGED fullAtCall
     \/ /\ next[pBlk] = frontBlock
        /\ pOp = "enqueue"
        /\ ProdGoto("alloc")
        /\ UNCHANGED fullAtCall
     \/ /\ next[pBlk] = frontBlock
        /\ pOp = "try_enqueue"
        /\ ProdReturn
  /\ UNCHANGED <<blockVars, consOwned, prodOwned, data, consVars, queue>>

(* A free block is ahead: load its indices (the code asserts that it is empty). *)
LoadNextBlock ==
  /\ pPC = "loadNext"
  /\ LET b == next[pBlk]
     IN  /\ localFront' = [localFront EXCEPT ![b] = front[b]]
         /\ pPC' = "constructNext" /\ pBlk' = b /\ UNCHANGED <<pOp, pVal>>
  /\ UNCHANGED <<blockVars, consOwned, tailBlock, tail, data, fullAtCall, consVars, queue>>

PublishNextTail ==
  /\ pPC = "publishNext"
  /\ tail' = [tail EXCEPT ![pBlk] = Succ(size[pBlk], @)]
  /\ ProdGoto("advance")
  /\ UNCHANGED <<blockVars, consOwned, tailBlock, localFront, data, fullAtCall, consVars, queue>>

(* malloc, and the construction of the new block, still private to the producer. *)
AllocateBlock ==
  /\ pPC = "alloc"
  /\ nblocks < MaxBlocks
  /\ LET b == nblocks + 1
         newBlockSize == IF largestBlockSize >= MAX_BLOCK_SIZE THEN largestBlockSize
                         ELSE largestBlockSize * 2
     IN  /\ nblocks' = b
         /\ largestBlockSize' = newBlockSize
         /\ size' = [size EXCEPT ![b] = newBlockSize]
         /\ data' = [data EXCEPT ![b][0] = pVal]
         /\ tail' = [tail EXCEPT ![b] = 1]
         /\ localTail' = [localTail EXCEPT ![b] = 1]
         /\ next' = [next EXCEPT ![b] = next[pBlk]]
         /\ pPC' = "link" /\ pBlk' = b /\ UNCHANGED <<pOp, pVal>>
  /\ UNCHANGED <<maxSize, frontBlock, front, tailBlock, localFront, fullAtCall, consVars, queue>>

AllocationFails ==
  /\ pPC = "alloc"
  /\ ProdReturn
  /\ UNCHANGED <<blockVars, consOwned, prodOwned, data, consVars, queue>>

(* tailBlock_->next = newBlock *)
LinkBlock ==
  /\ pPC = "link"
  /\ next' = [next EXCEPT ![tailBlock] = pBlk]
  /\ ProdGoto("advance")
  /\ UNCHANGED <<maxSize, nblocks, largestBlockSize, size, consOwned, prodOwned, data,
                 fullAtCall, consVars, queue>>

(* tailBlock = the block just written: the end of the two slow paths. *)
AdvanceTailBlock ==
  /\ pPC = "advance"
  /\ tailBlock' = pBlk
  /\ ProdReturn
  /\ queue' = Append(queue, pVal)
  /\ UNCHANGED <<blockVars, consOwned, tail, localFront, data, consVars>>

Producer ==
  \/ \E op \in {"try_enqueue", "enqueue"}, v \in Vals : EnqueueCall(op, v)
  \/ RefreshFront \/ Construct \/ PublishTail \/ CheckNextBlock \/ LoadNextBlock
  \/ PublishNextTail \/ AllocateBlock \/ AllocationFails \/ LinkBlock \/ AdvanceTailBlock
-----------------------------------------------------------------------------
(* The consumer: try_dequeue, pop (try_dequeue that drops the element) and peek. *)

ConsGoto(pc) == cPC' = pc /\ UNCHANGED <<cOp, cVal, cBlk>>

ConsReturn(v) ==
  /\ out' = v
  /\ cOp' = "idle" /\ cVal' = NULL /\ cPC' = "idle" /\ cBlk' = 0
  /\ emptyAtCall' = FALSE

(* Entry: frontBlock, its localTail and its front are the consumer's own. *)
DequeueCall(op) ==
  /\ cPC = "idle"
  /\ cPC' = IF front[frontBlock] # localTail[frontBlock] THEN "take" ELSE "refresh"
  /\ cOp' = op /\ cBlk' = frontBlock /\ UNCHANGED cVal
  /\ emptyAtCall' = (queue = <<>>)
  /\ UNCHANGED <<blockVars, consOwned, prodOwned, data, prodVars, out, queue>>

(* The shadow says "empty": reload the producer's tail and look again. *)
RefreshTail ==
  /\ cPC = "refresh"
  /\ localTail' = [localTail EXCEPT ![cBlk] = tail[cBlk]]
  /\ ConsGoto(IF front[cBlk] # tail[cBlk] THEN "take" ELSE "checkTailBlock")
  /\ UNCHANGED <<blockVars, frontBlock, front, prodOwned, data, prodVars, out, emptyAtCall, queue>>

CheckTailBlockTrustsFirstLook ==
  /\ cPC = "checkTailBlock"
  /\ \/ /\ cBlk # tailBlock
        /\ ConsGoto("loadNext")
        /\ UNCHANGED <<out, emptyAtCall>>
     \/ /\ cBlk = tailBlock
        /\ ConsReturn(NULL)
  /\ UNCHANGED <<blockVars, consOwned, prodOwned, data, prodVars, queue>>

(* Empty front block: is there another block ahead?  If not, the answer is "empty". *)
CheckTailBlock ==
  /\ cPC = "checkTailBlock"
  /\ \/ /\ cBlk # tailBlock
        /\ ConsGoto("recheck")
        /\ UNCHANGED <<out, emptyAtCall>>
     \/ /\ cBlk = tailBlock
        /\ ConsReturn(NULL)
  /\ UNCHANGED <<blockVars, consOwned, prodOwned, data, prodVars, queue>>

(* The second look at the front block, after tailBlock was seen elsewhere. *)
RecheckFrontBlock ==
  /\ cPC = "recheck"
  /\ localTail' = [localTail EXCEPT ![cBlk] = tail[cBlk]]
  /\ ConsGoto(IF front[cBlk] # tail[cBlk] THEN "take" ELSE "loadNext")
  /\ UNCHANGED <<blockVars, frontBlock, front, prodOwned, data, prodVars, out, emptyAtCall, queue>>

LoadNext ==
  /\ cPC = "loadNext"
  /\ cPC' = "loadNextTail" /\ cBlk' = next[cBlk] /\ UNCHANGED <<cOp, cVal>>
  /\ UNCHANGED <<blockVars, consOwned, prodOwned, data, prodVars, out, emptyAtCall, queue>>

LoadNextTailForPeekToo ==
  /\ cPC = "loadNextTail"
  /\ ConsGoto(IF cOp = "peek" THEN "take" ELSE "advance")
  /\ localTail' = [localTail EXCEPT ![frontBlock] = tail[cBlk]]
  /\ UNCHANGED <<blockVars, frontBlock, front, prodOwned, data, prodVars, out, emptyAtCall, queue>>

(* The code asserts that the next block has an element.  peek reads it from there. *)
LoadNextTail ==
  /\ cPC = "loadNextTail"
  /\ IF cOp = "peek"
       THEN /\ ConsGoto("take")
            /\ UNCHANGED localTail
       ELSE /\ ConsGoto("advance")
            /\ localTail' = [localTail EXCEPT ![cBlk] = tail[cBlk]]
  /\ UNCHANGED <<blockVars, frontBlock, front, prodOwned, data, prodVars, out, emptyAtCall, queue>>

(* frontBlock = nextBlock: the producer may now reuse the block left behind. *)
AdvanceFrontBlock ==
  /\ cPC = "advance"
  /\ frontBlock' = cBlk
  /\ ConsGoto("take")
  /\ UNCHANGED <<blockVars, front, localTail, prodOwned, data, prodVars, out, emptyAtCall, queue>>

TakeElementLeavesIt ==
  /\ cPC = "take"
  /\ cOp = "try_dequeue"
  /\ cPC' = "release" /\ cVal' = data[cBlk][front[cBlk]] /\ UNCHANGED <<cOp, cBlk>>
  /\ UNCHANGED <<blockVars, consOwned, prodOwned, data, prodVars, out, emptyAtCall, queue>>

(* Move the element out and destroy it. *)
TakeElement ==
  /\ cPC = "take"
  /\ cOp = "try_dequeue"
  /\ LET i == front[cBlk]
     IN  /\ cPC' = "release" /\ cVal' = data[cBlk][i] /\ UNCHANGED <<cOp, cBlk>>
         /\ data' = [data EXCEPT ![cBlk][i] = NULL]
  /\ UNCHANGED <<blockVars, consOwned, prodOwned, prodVars, out, emptyAtCall, queue>>

(* Give the slot back to the producer. *)
ReleaseSlot ==
  /\ cPC = "release"
  /\ front' = [front EXCEPT ![cBlk] = Succ(size[cBlk], @)]
  /\ ConsReturn(cVal)
  /\ queue' = Tail(queue)
  /\ UNCHANGED <<blockVars, frontBlock, localTail, prodOwned, data, prodVars>>

PeekElement ==
  /\ cPC = "take"
  /\ cOp = "peek"
  /\ ConsReturn(data[cBlk][front[cBlk]])
  /\ UNCHANGED <<blockVars, consOwned, prodOwned, data, prodVars, queue>>

Consumer ==
  \/ \E op \in {"try_dequeue", "peek"} : DequeueCall(op)
  \/ RefreshTail \/ CheckTailBlock \/ RecheckFrontBlock \/ LoadNext \/ LoadNextTail
  \/ AdvanceFrontBlock \/ TakeElement \/ ReleaseSlot \/ PeekElement

Next == Producer \/ Consumer

Spec == Init /\ [][Next]_vars
-----------------------------------------------------------------------------
ProducerPCs == {"idle", "refresh", "construct", "publish", "checkNext", "loadNext",
                "constructNext", "publishNext", "alloc", "link", "advance"}
ConsumerPCs == {"idle", "refresh", "checkTailBlock", "recheck", "loadNext", "loadNextTail",
                "advance", "take", "release"}

ListTypeOK ==
  /\ maxSize \in MaxSizes
  /\ nblocks \in Blocks
  /\ largestBlockSize \in 2 .. MAX_BLOCK_SIZE * 2
  /\ frontBlock \in 1 .. nblocks /\ tailBlock \in 1 .. nblocks
  /\ size \in [Blocks -> 0 .. MAX_BLOCK_SIZE * 2]
  /\ next \in [Blocks -> Blocks]
  /\ data \in [Blocks -> [Slots -> Vals \cup {NULL}]]

IndexTypeOK ==
  /\ front \in [Blocks -> Slots] /\ localTail \in [Blocks -> Slots]
  /\ tail \in [Blocks -> Slots] /\ localFront \in [Blocks -> Slots]
  /\ \A b \in 1 .. nblocks :
       /\ size[b] >= 2 /\ next[b] \in 1 .. nblocks
       /\ front[b] < size[b] /\ localTail[b] < size[b]
       /\ tail[b] < size[b] /\ localFront[b] < size[b]

ProducerTypeOK ==
  /\ pOp \in {"idle", "try_enqueue", "enqueue"} /\ pVal \in Vals \cup {NULL}
  /\ pPC \in ProducerPCs /\ pBlk \in 0 .. nblocks

ConsumerTypeOK ==
  /\ cOp \in {"idle", "try_dequeue", "peek"} /\ cVal \in Vals \cup {NULL}
  /\ cPC \in ConsumerPCs /\ cBlk \in 0 .. nblocks
  /\ out \in Vals \cup {NULL}

FlagTypeOK == fullAtCall \in BOOLEAN /\ emptyAtCall \in BOOLEAN

(* Every variable in its domain, every index of an existing block within the block. *)
TypeOK == ListTypeOK /\ IndexTypeOK /\ ProducerTypeOK /\ ConsumerTypeOK /\ FlagTypeOK

(* The two threads never touch one slot at a time: while the producer constructs an      *)
(* object in a slot, the consumer is not moving one out of it.                           *)
NoSlotRace ==
  ~ /\ pPC \in {"construct", "constructNext"}
    /\ cPC = "take"
    /\ pBlk = cBlk
    /\ tail[pBlk] = front[cBlk]

(* Objects are constructed only where none lives, and moved out and destroyed only where *)
(* one does: nothing queued is overwritten, nothing is destroyed twice.                  *)
SlotLifetimes ==
  /\ pPC \in {"construct", "constructNext"} => data[pBlk][tail[pBlk]] = NULL
  /\ cPC = "take" => data[cBlk][front[cBlk]] # NULL

(* The assertions of the code: a block the producer moves on to is empty, the block the  *)
(* consumer moves on to is not.                                                          *)
BlockAssertions ==
  /\ pPC = "loadNext" => front[next[pBlk]] = tail[next[pBlk]]
  /\ cPC = "loadNextTail" => front[cBlk] # tail[cBlk]

(* The queue implements the linearizable FIFO.  An enqueue takes effect at its last      *)
(* store (tail or tailBlock), a dequeue when it gives the slot back.                     *)
Fifo ==
  INSTANCE SpscQueue WITH
    q    <- queue,
    prod <- [op |-> pOp, val |-> pVal, full |-> fullAtCall],
    cons <- [op |-> cOp, empty |-> emptyAtCall]

FifoSpec == Fifo!Spec
-----------------------------------------------------------------------------
(* The inductive invariant behind these: an invariant of the program counters, one of   *)
(* the shadow indices, one of the slots and one of the circular list.                    *)

(* Circular distance from index i to index j of a block of s slots. *)
Distance(s, i, j) == IF i <= j THEN j - i ELSE s - i + j

(* What each thread knows at each point of its call. *)
ProducerInv ==
  /\ pPC = "idle" <=> pOp = "idle"
  /\ pPC # "idle" => pVal \in Vals /\ pBlk \in 1 .. nblocks
  /\ pPC \in {"refresh", "construct", "publish", "checkNext", "loadNext", "alloc"}
       => pBlk = tailBlock
  /\ pPC \in {"construct", "publish", "constructNext", "publishNext"}
       => Succ(size[pBlk], tail[pBlk]) # localFront[pBlk]

ConsumerInv ==
  /\ cPC = "idle" <=> cOp = "idle"
  /\ cPC # "idle" => cBlk \in 1 .. nblocks
  /\ cPC \in {"refresh", "checkTailBlock", "recheck", "loadNext"} => cBlk = frontBlock
  /\ cPC \in {"take", "release"} => front[cBlk] # tail[cBlk]
  /\ cPC \in {"advance", "take", "release"} /\ cOp # "peek" => front[cBlk] # localTail[cBlk]
  /\ cPC \in {"take", "release"} /\ cOp # "peek" => cBlk = frontBlock
  /\ cPC \in {"advance", "release"} => cOp = "try_dequeue"
  /\ cPC = "release" => cVal \in Vals

(* Around a block of s slots: localFront, front, localTail, tail, in this order and less *)
(* than a lap apart.  A shadow never overtakes what it shadows, so a test against it errs *)
(* only towards "full" or "empty".                                                       *)
InOrder(s, lf, f, lt, t) ==
  /\ Distance(s, lf, f) + Distance(s, f, t) = Distance(s, lf, t)
  /\ Distance(s, f, lt) + Distance(s, lt, t) = Distance(s, f, t)

ShadowInv ==
  \A b \in 1 .. nblocks : InOrder(size[b], localFront[b], front[b], localTail[b], tail[b])

(* A block number not handed out yet has untouched contents. *)
FreshInv ==
  \A b \in nblocks + 1 .. MaxBlocks :
    /\ front[b] = 0 /\ localFront[b] = 0
    /\ \A i \in Slots : data[b][i] = NULL

(* A slot holds a live object exactly if it is between front and tail and not just       *)
(* emptied by the consumer, or is just filled by the producer.                           *)
LiveSlot(b, i) ==
  \/ /\ Distance(size[b], front[b], i) < Distance(size[b], front[b], tail[b])
     /\ ~ (cPC = "release" /\ cBlk = b /\ front[b] = i)
  \/ pPC \in {"publish", "publishNext"} /\ pBlk = b /\ tail[b] = i

SlotInv ==
  \A b \in 1 .. nblocks : \A i \in 0 .. size[b] - 1 : data[b][i] # NULL <=> LiveSlot(b, i)

(* The circular list, by the position of each block in it: the front block at 0.  A block *)
(* allocated but not yet linked is outside.                                               *)
RingLength == IF pPC = "link" THEN nblocks - 1 ELSE nblocks

RingShape(pos) ==
  /\ \A b, c \in 1 .. RingLength : pos[b] = pos[c] => b = c
  /\ \A b \in 1 .. RingLength :
       /\ next[b] \in 1 .. RingLength
       /\ pos[next[b]] = IF pos[b] = RingLength - 1 THEN 0 ELSE pos[b] + 1
  /\ frontBlock \in 1 .. RingLength /\ tailBlock \in 1 .. RingLength
  /\ pos[frontBlock] = 0

(* Blocks behind the front block, up to the tail block, have elements.  Those beyond have *)
(* none, but for one the producer is about to move on to.                                 *)
RingFill(pos) ==
  \A b \in 1 .. RingLength :
    /\ 0 < pos[b] /\ pos[b] <= pos[tailBlock] => front[b] # tail[b]
    /\ pos[b] > pos[tailBlock] => front[b] = tail[b] \/ (pPC = "advance" /\ pBlk = b)

ProducerPlace(pos) ==
  /\ pPC = "loadNext" => pos[tailBlock] < RingLength - 1
  /\ pPC \in {"constructNext", "publishNext", "advance"} => pos[pBlk] = pos[tailBlock] + 1
  /\ pPC \in {"constructNext", "publishNext"} => front[pBlk] = tail[pBlk]
  /\ pPC \in {"advance", "link"} => front[pBlk] # tail[pBlk]
  /\ pPC = "link" => pBlk = nblocks /\ next[pBlk] = next[tailBlock]

ConsumerPlace(pos) ==
  /\ cPC \in {"recheck", "loadNext", "loadNextTail", "advance"} => pos[tailBlock] >= 1
  /\ cPC \in {"loadNext", "loadNextTail", "advance"} => front[frontBlock] = tail[frontBlock]
  /\ cPC \in {"loadNextTail", "advance"} => cBlk \in 1 .. RingLength /\ pos[cBlk] = 1
  /\ cPC = "take" => cBlk \in 1 .. RingLength /\ pos[cBlk] <= 1 /\ pos[cBlk] <= pos[tailBlock]

RingWitness(pos) ==
  RingShape(pos) /\ RingFill(pos) /\ ProducerPlace(pos) /\ ConsumerPlace(pos)

RingInv == \E pos \in [1 .. RingLength -> 0 .. RingLength - 1] : RingWitness(pos)

BlockInv ==
  TypeOK /\ ProducerInv /\ ConsumerInv /\ ShadowInv /\ FreshInv /\ SlotInv /\ RingInv

(* The history queue, cut into pieces: each block from the front block to the tail block  *)
(* holds the elements behind the first start[b].  The blocks between the two are full.    *)
Used(pos) == {b \in 1 .. RingLength : pos[b] <= pos[tailBlock]}

Holds(start, b) ==
  /\ start[b] + Queued(b) <= Len(queue)
  /\ \A k \in 1 .. Queued(b) : queue[start[b] + k] = InBlock(b)[k]

(* What n blocks hold at least. *)
Capacity(n) == n * (FirstBlockSize(maxSize) - 1)

Segments(pos, start) ==
  /\ start[frontBlock] = 0
  /\ start[tailBlock] + Queued(tailBlock) = Len(queue)
  /\ \A b \in Used(pos) :
       /\ Holds(start, b)
       /\ b # tailBlock => start[next[b]] = start[b] + Queued(b)
       /\ b # tailBlock /\ b # frontBlock => Queued(b) = size[b] - 1
  /\ \A b, c \in Used(pos) :
       pos[b] < pos[c] =>
         /\ start[b] + Queued(b) <= start[c]
         /\ b # frontBlock => start[c] - start[b] >= Capacity(pos[c] - pos[b])

QueueInv ==
  /\ queue \in Seq(Vals)
  /\ \E pos \in [1 .. RingLength -> 0 .. RingLength - 1] :
       /\ RingWitness(pos)
       /\ \E start \in [1 .. RingLength -> 0 .. Len(queue)] : Segments(pos, start)

(* Blocks are never smaller than the first ones, nor fewer. *)
CapacityInv ==
  /\ largestBlockSize >= FirstBlockSize(maxSize)
  /\ \A b \in 1 .. nblocks : size[b] >= FirstBlockSize(maxSize)
  /\ RingLength >= InitialBlockCount(maxSize)

(* The producer: the element on its way, why it looks at the next block, and that only    *)
(* the consumer changes the queue during its call.                                         *)
EnqueueInv ==
  /\ pPC = "idle" => pVal = NULL /\ ~ fullAtCall
  /\ pPC # "idle" /\ ~ fullAtCall => Len(queue) < maxSize
  /\ pPC = "alloc" => pOp = "enqueue"
  /\ pPC \in {"publish", "publishNext"} => data[pBlk][tail[pBlk]] = pVal
  /\ pPC \in {"link", "advance"} => Queued(pBlk) = 1 /\ data[pBlk][front[pBlk]] = pVal
  /\ pPC = "checkNext" => fullAtCall \/ RingLength > 1
  /\ pPC \in {"checkNext", "loadNext", "constructNext", "publishNext", "alloc", "link", "advance"}
       => tailBlock = frontBlock \/ Queued(tailBlock) = size[tailBlock] - 1

(* The consumer: only the producer changes the queue during its call, and elsewhere than   *)
(* where it looks.                                                                         *)
DequeueInv ==
  /\ cPC = "idle" => ~ emptyAtCall
  /\ cPC # "idle" /\ ~ emptyAtCall => queue # <<>>
  /\ cPC = "checkTailBlock" => emptyAtCall \/ tailBlock # frontBlock
  /\ cPC = "take" /\ cBlk # frontBlock => front[frontBlock] = tail[frontBlock]

FifoInv == QueueInv /\ CapacityInv /\ EnqueueInv /\ DequeueInv

IndInv == BlockInv /\ FifoInv
=============================================================================
