------------------------------ MODULE SpscQueue ------------------------------
(***************************************************************************)
(* What moodycamel::ReaderWriterQueue promises to the two threads of the   *)
(* AsyncSocket extension: a linearizable FIFO queue with one producer and  *)
(* one consumer.  An operation is a call, later a commit; in between the   *)
(* other side may run.                                                     *)
(*                                                                         *)
(*   - an element leaves the queue once, in the order it went in;          *)
(*   - try_dequeue and peek answer "empty" only if the queue was empty     *)
(*     when the call began;                                                *)
(*   - try_enqueue gives up only if the queue held at least maxSize        *)
(*     elements when the call began; enqueue only if malloc failed.        *)
(***************************************************************************)
EXTENDS Naturals, Sequences

CONSTANTS Vals,      \* the elements (pointers, in the extension)
          NULL       \* "no element": not one of Vals

VARIABLES
  maxSize,  \* elements held without allocation: chosen by the constructor
  q,     \* the queued elements, oldest first
  prod,  \* the producer's call in progress
  cons,  \* the consumer's call in progress
  out    \* what the consumer's last call returned: an element or NULL

vars == <<maxSize, q, prod, cons, out>>

IdleProducer == [op |-> "idle", val |-> NULL, full |-> FALSE]
IdleConsumer == [op |-> "idle", empty |-> FALSE]

ProducerCalls == [op: {"try_enqueue", "enqueue"}, val: Vals, full: BOOLEAN]
ConsumerCalls == [op: {"try_dequeue", "peek"}, empty: BOOLEAN]

TypeOK ==
  /\ maxSize \in Nat
  /\ q \in Seq(Vals)
  /\ prod \in ProducerCalls \cup {IdleProducer}
  /\ cons \in ConsumerCalls \cup {IdleConsumer}
  /\ out \in Vals \cup {NULL}

Init ==
  /\ maxSize \in Nat
  /\ q = <<>>
  /\ prod = IdleProducer
  /\ cons = IdleConsumer
  /\ out = NULL

EnqueueCall(op, v) ==
  /\ prod = IdleProducer
  /\ prod' = [op |-> op, val |-> v, full |-> Len(q) >= maxSize]
  /\ UNCHANGED <<maxSize, q, cons, out>>

EnqueueCommit ==
  /\ prod # IdleProducer
  /\ q' = Append(q, prod.val)
  /\ prod' = IdleProducer
  /\ UNCHANGED <<maxSize, cons, out>>

EnqueueFail ==
  /\ \/ prod.op = "enqueue"            \* malloc returned NULL
     \/ prod.op = "try_enqueue" /\ prod.full
  /\ prod' = IdleProducer
  /\ UNCHANGED <<maxSize, q, cons, out>>

DequeueCall(op) ==
  /\ cons = IdleConsumer
  /\ cons' = [op |-> op, empty |-> q = <<>>]
  /\ UNCHANGED <<maxSize, q, prod, out>>

DequeueCommit ==
  /\ cons.op = "try_dequeue"
  /\ q # <<>>
  /\ q' = Tail(q)
  /\ out' = Head(q)
  /\ cons' = IdleConsumer
  /\ UNCHANGED <<maxSize, prod>>

PeekCommit ==
  /\ cons.op = "peek"
  /\ q # <<>>
  /\ out' = Head(q)
  /\ cons' = IdleConsumer
  /\ UNCHANGED <<maxSize, q, prod>>

DequeueEmpty ==
  /\ cons # IdleConsumer
  /\ cons.empty
  /\ out' = NULL
  /\ cons' = IdleConsumer
  /\ UNCHANGED <<maxSize, q, prod>>

Next ==
  \/ \E op \in {"try_enqueue", "enqueue"}, v \in Vals : EnqueueCall(op, v)
  \/ EnqueueCommit
  \/ EnqueueFail
  \/ \E op \in {"try_dequeue", "peek"} : DequeueCall(op)
  \/ DequeueCommit
  \/ PeekCommit
  \/ DequeueEmpty

Spec == Init /\ [][Next]_vars
=============================================================================
