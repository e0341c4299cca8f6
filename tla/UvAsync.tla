------------------------------- MODULE UvAsync -------------------------------
(***************************************************************************)
(* How a job gets from the game thread to the libuv thread of AsyncSocket. *)
(* The game thread puts it in g_AsyncAddQueue and calls uv_async_send on   *)
(* g_UV_AsyncAdded; the libuv thread, woken through an eventfd, walks its  *)
(* uv_async_t handles (libuv/src/unix/async.c); the callback of            *)
(* g_UV_AsyncAdded, UV_OnAsyncAdded (extension/extension.cpp), drains the  *)
(* queue and gives each job a uv_async_t of its own, to be called back in  *)
(* the loop's next walk.                                                   *)
(*                                                                         *)
(* The queue is SpscQueue, which ReaderWriterQueue implements.  One action *)
(* is one access to memory both threads touch: the queue's two halves of a *)
(* call, the pending word of g_UV_AsyncAdded, the eventfd counter (zero or *)
(* not).  The handles of jobs are the libuv thread's own.                  *)
(***************************************************************************)
EXTENDS Integers, Sequences, SequencesExt

CONSTANT MaxJobs  \* bound on the jobs the game thread queues

ASSUME MaxJobsAssumption == MaxJobs \in Nat \ {0}

Jobs       == 1 .. MaxJobs
AsyncAdded == 0              \* g_UV_AsyncAdded; the uv_async_t of a job has its number
Handles    == Jobs \cup {AsyncAdded}

VARIABLES
  jobQueue, adding, taking, taken,  \* g_AsyncAddQueue: contents, calls, last result
  pending,       \* uv_async_t.pending: 0 not pending, 1 being sent, 2 sent
  asyncHandles,  \* loop->async_handles
  walk,          \* the local queue of uv__async_io
  eventfd,       \* the counter of loop->async_io_watcher.fd is not zero
  gPC,           \* the game thread
  uPC, current,  \* the libuv thread, and the handle whose callback it runs
  posted,        \* number of jobs the game thread began to queue
  quit,          \* the job that runs UV_Quit: 0 if not queued yet
  stopped        \* loop->stop_flag

queueVars == <<jobQueue, adding, taking, taken>>
loopVars  == <<asyncHandles, walk, uPC, current, stopped>>
gameVars  == <<gPC, posted, quit>>
vars == <<jobQueue, adding, taking, taken, pending, asyncHandles, walk, eventfd, gPC,
          uPC, current, posted, quit, stopped>>

Queue == INSTANCE SpscQueue WITH
  Vals <- Jobs, NULL <- 0, maxSize <- 15,
  q <- jobQueue, prod <- adding, cons <- taking, out <- taken

(* SDK_OnLoad: the loop's one handle is g_UV_AsyncAdded. *)
Init ==
  /\ jobQueue = <<>> /\ taken = 0
  /\ adding = Queue!IdleProducer /\ taking = Queue!IdleConsumer
  /\ pending = [h \in Handles |-> 0]
  /\ asyncHandles = <<AsyncAdded>> /\ walk = <<>>
  /\ eventfd = FALSE
  /\ gPC = "idle" /\ posted = 0 /\ quit = 0
  /\ uPC = "poll" /\ current = AsyncAdded /\ stopped = FALSE
-----------------------------------------------------------------------------
(* The game thread: g_AsyncAddQueue.enqueue(Job); uv_async_send(&g_UV_AsyncAdded). *)

(* Any native or OnHandleDestroy queues a job; SDK_OnUnload the last one, UV_Quit. *)
Post ==
  /\ gPC = "idle" /\ quit = 0 /\ posted < MaxJobs
  /\ posted' = posted + 1
  /\ quit' \in {0, posted'}
  /\ Queue!EnqueueCall("enqueue", posted')
  /\ gPC' = "enqueue"
  /\ UNCHANGED <<pending, eventfd, loopVars>>

(* The result of enqueue is not looked at. *)
Enqueue ==
  /\ gPC = "enqueue"
  /\ Queue!EnqueueCommit \/ Queue!EnqueueFail
  /\ gPC' = "read"
  /\ UNCHANGED <<pending, eventfd, loopVars, posted, quit>>

(* uv_async_send: the cheap read first. *)
SendRead ==
  /\ gPC = "read"
  /\ gPC' = IF pending[AsyncAdded] # 0 THEN "idle" ELSE "claim"
  /\ UNCHANGED <<queueVars, pending, eventfd, loopVars, posted, quit>>

(* cmpxchgi(&handle->pending, 0, 1) *)
SendClaim ==
  /\ gPC = "claim"
  /\ IF pending[AsyncAdded] # 0
       THEN gPC' = "idle" /\ UNCHANGED pending
       ELSE gPC' = "write" /\ pending' = [pending EXCEPT ![AsyncAdded] = 1]
  /\ UNCHANGED <<queueVars, eventfd, loopVars, posted, quit>>

(* uv__async_send *)
SendWrite ==
  /\ gPC = "write"
  /\ eventfd' = TRUE
  /\ gPC' = "finish"
  /\ UNCHANGED <<queueVars, pending, loopVars, posted, quit>>

(* Wrong variants of the definitions, each named for its bug, stand before the definition *)
(* they vary: each breaks one of the properties below.                                   *)
SendFinishOrsIn ==
  /\ gPC = "finish"
  /\ gPC' = "idle" /\ pending' = [pending EXCEPT ![AsyncAdded] = @ + 2]
  /\ UNCHANGED <<queueVars, eventfd, loopVars, posted, quit>>

(* cmpxchgi(&handle->pending, 1, 2), or abort() *)
SendFinish ==
  /\ gPC = "finish"
  /\ IF pending[AsyncAdded] = 1
       THEN gPC' = "idle" /\ pending' = [pending EXCEPT ![AsyncAdded] = 2]
       ELSE gPC' = "aborted" /\ UNCHANGED pending
  /\ UNCHANGED <<queueVars, eventfd, loopVars, posted, quit>>

Send == SendRead \/ SendClaim \/ SendWrite \/ SendFinish
-----------------------------------------------------------------------------
(* The libuv thread: uv_run, uv__async_io and the callbacks. *)

(* QUEUE_REMOVE: the list without h, which is in it once at most. *)
Unlink(list, h) ==
  LET p == CHOOSE i \in DOMAIN list : list[i] = h
  IN  IF h \in ToSet(list)
        THEN [i \in 1 .. Len(list) - 1 |-> IF i < p THEN list[i] ELSE list[i + 1]]
        ELSE list

(* The eventfd is readable: read it, take all the handles over into the local queue. *)
Wake ==
  /\ uPC = "poll" /\ eventfd
  /\ eventfd' = FALSE
  /\ walk' = asyncHandles /\ asyncHandles' = <<>>
  /\ uPC' = "walk"
  /\ UNCHANGED <<queueVars, pending, gameVars, current, stopped>>

VisitWithoutSpin ==
  /\ uPC = "walk" /\ walk # <<>>
  /\ walk' = Tail(walk) /\ asyncHandles' = Append(asyncHandles, Head(walk))
  /\ IF pending[Head(walk)] = 0
       THEN UNCHANGED <<uPC, current>>
       ELSE uPC' = "callback" /\ current' = Head(walk)
  /\ pending' = [pending EXCEPT ![Head(walk)] = 0]
  /\ UNCHANGED <<queueVars, eventfd, gameVars, stopped>>

(* Move the next handle back to the loop's list and spin while it is being sent; call it *)
(* back if it was pending, which it no longer is.                                        *)
Visit ==
  /\ uPC = "walk" /\ walk # <<>>
  /\ LET h == Head(walk)
     IN  /\ pending[h] # 1
         /\ walk' = Tail(walk) /\ asyncHandles' = Append(asyncHandles, h)
         /\ IF pending[h] = 0
              THEN UNCHANGED <<pending, uPC, current>>
              ELSE /\ pending' = [pending EXCEPT ![h] = 0]
                   /\ uPC' = "callback" /\ current' = h
  /\ UNCHANGED <<queueVars, eventfd, gameVars, stopped>>

EndWalkReadsEventfd ==
  /\ uPC = "walk" /\ walk = <<>>
  /\ eventfd' = FALSE
  /\ uPC' = IF stopped THEN "stopped" ELSE "poll"
  /\ UNCHANGED <<queueVars, pending, gameVars, asyncHandles, walk, current, stopped>>

(* All visited: poll again, or leave uv_run if uv_stop was called. *)
EndWalk ==
  /\ uPC = "walk" /\ walk = <<>>
  /\ uPC' = IF stopped THEN "stopped" ELSE "poll"
  /\ UNCHANGED <<queueVars, pending, eventfd, gameVars, asyncHandles, walk, current, stopped>>

(* UV_OnAsyncAdded: while(g_AsyncAddQueue.try_dequeue(Job)) *)
TryDequeue ==
  /\ uPC = "callback" /\ current = AsyncAdded
  /\ Queue!DequeueCall("try_dequeue")
  /\ uPC' = "dequeue"
  /\ UNCHANGED <<pending, eventfd, gameVars, asyncHandles, walk, current, stopped>>

DequeueOnce ==
  /\ uPC = "dequeue"
  /\ Queue!DequeueCommit \/ Queue!DequeueEmpty
  /\ uPC' = IF taken' = 0 THEN "walk" ELSE "start"
  /\ UNCHANGED <<pending, eventfd, gameVars, asyncHandles, walk, current, stopped>>

StartJobAtHead ==
  /\ uPC = "start"
  /\ asyncHandles' = <<taken>> \o asyncHandles
  /\ pending' = [pending EXCEPT ![taken] = 2]
  /\ eventfd' = TRUE
  /\ uPC' = "callback"
  /\ UNCHANGED <<queueVars, gameVars, walk, current, stopped>>

StartJobUnsent ==
  /\ uPC = "start"
  /\ asyncHandles' = Append(asyncHandles, taken)
  /\ pending' = [pending EXCEPT ![taken] = 2]
  /\ uPC' = "callback"
  /\ UNCHANGED <<queueVars, eventfd, gameVars, walk, current, stopped>>

StartJobQuitsAtOnce ==
  /\ uPC = "start"
  /\ asyncHandles' = Append(asyncHandles, taken)
  /\ pending' = [pending EXCEPT ![taken] = 2]
  /\ eventfd' = TRUE
  /\ stopped' = (taken = quit)
  /\ uPC' = "callback"
  /\ UNCHANGED <<queueVars, gameVars, walk, current>>

(* uv_async_init and uv_async_send of the job's own handle, by the loop's own thread. *)
StartJob ==
  /\ uPC = "start"
  /\ asyncHandles' = Append(asyncHandles, taken)
  /\ pending' = [pending EXCEPT ![taken] = 2]
  /\ eventfd' = TRUE
  /\ uPC' = "callback"
  /\ UNCHANGED <<queueVars, gameVars, walk, current, stopped>>

RunJobLeavesHandle ==
  /\ uPC = "callback" /\ current \in Jobs /\ current # quit
  /\ uPC' = "walk"
  /\ UNCHANGED <<queueVars, pending, eventfd, gameVars, asyncHandles, walk, current, stopped>>

(* The job's callback: every one first closes its own handle. *)
RunJob ==
  /\ uPC = "callback" /\ current \in Jobs /\ current # quit
  /\ asyncHandles' = Unlink(asyncHandles, current)
  /\ uPC' = "walk"
  /\ UNCHANGED <<queueVars, pending, eventfd, gameVars, walk, current, stopped>>

RunQuitWithoutStop ==
  /\ uPC = "callback" /\ current = quit /\ current # AsyncAdded
  /\ pending[AsyncAdded] # 1
  /\ pending' = [pending EXCEPT ![AsyncAdded] = 0]
  /\ asyncHandles' = Unlink(Unlink(asyncHandles, current), AsyncAdded)
  /\ walk' = Unlink(walk, AsyncAdded)
  /\ uPC' = "walk"
  /\ UNCHANGED <<queueVars, eventfd, gameVars, current, stopped>>

(* UV_Quit closes g_UV_AsyncAdded too, spinning if it is being sent, and stops the loop. *)
RunQuit ==
  /\ uPC = "callback" /\ current = quit /\ current # AsyncAdded
  /\ pending[AsyncAdded] # 1
  /\ pending' = [pending EXCEPT ![AsyncAdded] = 0]
  /\ asyncHandles' = Unlink(Unlink(asyncHandles, current), AsyncAdded)
  /\ walk' = Unlink(walk, AsyncAdded)
  /\ stopped' = TRUE
  /\ uPC' = "walk"
  /\ UNCHANGED <<queueVars, eventfd, gameVars, current>>

Loop ==
  \/ Wake \/ Visit \/ EndWalk \/ TryDequeue \/ DequeueOnce \/ StartJob \/ RunJob \/ RunQuit

Next == Post \/ Enqueue \/ Send \/ Loop

(* Both threads are scheduled; the game thread need not queue another job. *)
Fairness == WF_vars(Enqueue \/ Send) /\ WF_vars(Loop)

Spec == Init /\ [][Next]_vars /\ Fairness
-----------------------------------------------------------------------------
QueueTypeOK ==
  /\ jobQueue \in Seq(Jobs) /\ taken \in Jobs \cup {0}
  /\ adding \in Queue!ProducerCalls \cup {Queue!IdleProducer}
  /\ taking \in Queue!ConsumerCalls \cup {Queue!IdleConsumer}

TypeOK ==
  /\ QueueTypeOK
  /\ pending \in [Handles -> 0 .. 2]
  /\ asyncHandles \in Seq(Handles) /\ walk \in Seq(Handles)
  /\ eventfd \in BOOLEAN /\ stopped \in BOOLEAN
  /\ gPC \in {"idle", "enqueue", "read", "claim", "write", "finish", "aborted"}
  /\ uPC \in {"poll", "walk", "callback", "dequeue", "start", "stopped"}
  /\ current \in Handles /\ posted \in 0 .. MaxJobs /\ quit \in 0 .. posted

(* uv_async_send never aborts: nobody takes the pending word from 1, by a callback or by *)
(* closing the handle, while the game thread is between its two compare-and-swaps.       *)
NeverAborts == gPC # "aborted"

(* The jobs accepted and not yet run: in the queue, in UV_OnAsyncAdded, or with a handle. *)
IsJob(h) == h # AsyncAdded

Backlog ==
  {j \in Jobs : j \in ToSet(jobQueue) \cup ToSet(walk) \cup ToSet(asyncHandles)
                 \/ (uPC = "start" /\ j = taken)}

(* While the libuv thread sleeps and a job waits, the eventfd is set or the game thread  *)
(* is on its way to set it: no wake-up is lost, although only the first of several       *)
(* senders writes to the eventfd.                                                        *)
NoLostWakeup ==
  uPC = "poll" /\ Backlog # {}
    => eventfd \/ gPC = "write" \/ (gPC \in {"read", "claim"} /\ pending[AsyncAdded] = 0)

(* Once the loop has stopped no accepted job is left behind, and none can come. *)
StoppedEmpty == uPC = "stopped" => Backlog = {} /\ adding = Queue!IdleProducer

(* Jobs are run once each, in the order they were queued. *)
Relay == INSTANCE JobRelay WITH
  entering <- adding.val, backlog <- Backlog

RelaySpec == Relay!Spec

(* Every job that got into the queue is run; with the quit job among them, the loop ends. *)
JobsRun == \A j \in Jobs : j \in Backlog ~> j \notin Backlog
LoopEnds == quit \in Backlog ~> uPC = "stopped"
-----------------------------------------------------------------------------
(* The inductive invariant behind the safety properties. *)

Running(h) == uPC = "callback" /\ current = h
Started    == ToSet(walk) \cup ToSet(asyncHandles)
Sending    == gPC \in {"read", "claim", "write", "finish"}

(* What each thread knows at each point. *)
GameInv ==
  /\ gPC = "enqueue" <=> adding # Queue!IdleProducer
  /\ gPC = "enqueue" => adding.op = "enqueue" /\ adding.val = posted
  /\ gPC \in {"write", "finish"} <=> pending[AsyncAdded] = 1
  /\ gPC # "aborted"
  /\ quit # 0 => quit = posted

LoopInv ==
  /\ uPC = "dequeue" <=> taking # Queue!IdleConsumer
  /\ uPC = "dequeue" => taking.op = "try_dequeue"
  /\ uPC \in {"dequeue", "start"} => current = AsyncAdded
  /\ uPC \in {"callback", "dequeue", "start"} => current \in ToSet(asyncHandles)
  /\ uPC = "start" => taken \in Jobs
  /\ uPC \in {"poll", "stopped"} => walk = <<>>
  /\ uPC = "poll" => ~ stopped
  /\ ~ stopped => AsyncAdded \in Started /\ uPC # "stopped"
  /\ stopped => /\ jobQueue = <<>> /\ walk = <<>> /\ asyncHandles = <<>>
                /\ uPC \in {"walk", "stopped"} /\ quit # 0 /\ gPC # "enqueue"

(* Jobs are in the backlog in the order of their numbers: first the one that runs, those  *)
(* still in the walk, those for the next walk, the one being started, the queue; the one  *)
(* being queued comes last.                                                               *)
Before(j, k) == IsJob(k) => j < k

OrderInv ==
  /\ \A j \in Backlog : j <= posted /\ (gPC = "enqueue" => j < posted)
  /\ \A i, k \in DOMAIN jobQueue : i < k => jobQueue[i] < jobQueue[k]
  /\ \A k \in ToSet(jobQueue) :
       (\A j \in Started : j < k) /\ (uPC = "start" => taken < k)
  /\ uPC = "start" => \A j \in Started : j < taken
  /\ \A i, k \in DOMAIN walk : i < k => walk[i] # walk[k] /\ Before(walk[i], walk[k])
  /\ \A i, k \in DOMAIN asyncHandles : i < k =>
       /\ asyncHandles[i] # asyncHandles[k]
       /\ Running(asyncHandles[k]) \/ Before(asyncHandles[i], asyncHandles[k])
  /\ \A j \in ToSet(walk), k \in ToSet(asyncHandles) :
       j # k /\ (Running(k) \/ Before(j, k))
  /\ uPC = "callback" /\ IsJob(current) =>
       \A j \in Started : j # current => Before(current, j)

(* A started job will be called back: its handle is pending, and visited in this walk or, *)
(* after a wake-up, in the next.                                                          *)
StartedInv ==
  \A j \in Started : IsJob(j) /\ ~ Running(j) =>
    pending[j] = 2 /\ (j \in ToSet(asyncHandles) => eventfd)

(* A queued job will be started: its sender is on the way, or the handle is pending and   *)
(* will be visited, or the queue is being drained and not found empty yet.                *)
QueuedInv ==
  /\ pending[AsyncAdded] = 2 \/ gPC = "finish" => eventfd \/ AsyncAdded \in ToSet(walk)
  /\ jobQueue # <<>> =>
       \/ Sending \/ pending[AsyncAdded] # 0
       \/ current = AsyncAdded /\ uPC \in {"callback", "dequeue", "start"}
  /\ jobQueue # <<>> /\ uPC = "dequeue" /\ taking.empty =>
       Sending \/ pending[AsyncAdded] # 0

IndInv == TypeOK /\ GameInv /\ LoopInv /\ OrderInv /\ StartedInv /\ QueuedInv
=============================================================================
