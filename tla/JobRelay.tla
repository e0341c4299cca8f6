------------------------------- MODULE JobRelay -------------------------------
(***************************************************************************)
(* What g_AsyncAddQueue, g_UV_AsyncAdded and the uv_async_t of each job    *)
(* promise together to the AsyncSocket extension: the callback of every    *)
(* CAsyncAddJob the game thread has queued runs once, on the libuv thread, *)
(* in the order the jobs were queued, up to the callback of the quit job.  *)
(***************************************************************************)
EXTENDS Naturals

CONSTANT Jobs  \* the jobs, numbered from 1 in the order the game thread queues them

VARIABLES
  posted,   \* the last job the game thread began to queue: 0 before the first
  entering, \* the job it is queueing: 0 if none
  quit,     \* the job that runs UV_Quit: 0 before SDK_OnUnload
  backlog,  \* the jobs queued and not yet run
  stopped   \* UV_Quit has run

vars == <<posted, entering, quit, backlog, stopped>>

Init == posted = 0 /\ entering = 0 /\ quit = 0 /\ backlog = {} /\ stopped = FALSE

(* The game thread starts to queue its next job; the quit job is its last. *)
Post ==
  /\ entering = 0 /\ quit = 0
  /\ posted' = posted + 1 /\ posted' \in Jobs
  /\ entering' = posted'
  /\ quit' \in {0, posted'}
  /\ UNCHANGED <<backlog, stopped>>

(* The job is in, or it is lost: the queue had no memory for it. *)
Accept ==
  /\ entering # 0
  /\ entering' = 0
  /\ backlog' \in {backlog, backlog \cup {entering}}
  /\ UNCHANGED <<posted, quit, stopped>>

(* The oldest job runs. *)
Run ==
  /\ ~ stopped
  /\ \E j \in backlog :
       /\ \A k \in backlog : j <= k
       /\ backlog' = backlog \ {j}
       /\ stopped' = (j = quit)
  /\ UNCHANGED <<posted, entering, quit>>

Next == Post \/ Accept \/ Run

Spec == Init /\ [][Next]_vars
=============================================================================
