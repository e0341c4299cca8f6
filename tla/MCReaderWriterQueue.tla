------------------------- MODULE MCReaderWriterQueue -------------------------
(* Elements are 1 .. N.  The queue never looks at them, so it is enough to enqueue, *)
(* behind a queued element, the one that follows it (cyclically), and any one on an *)
(* empty queue: a lost, repeated, swapped or stale element still shows.             *)
EXTENDS ReaderWriterQueue, FiniteSets

Successive(v) ==
  queue # <<>> => v = 1 + (queue[Len(queue)] % Cardinality(Vals))

EnqueueInOrder == (pOp = "idle" /\ pOp' # "idle") => Successive(pVal')
=============================================================================
