---------------------------- MODULE UvAsyncProofs ----------------------------
(***************************************************************************)
(* Theorems about UvAsync, for any number of jobs.  The argument: IndInv   *)
(* holds initially and every step preserves it; the invariants and the     *)
(* refinement of JobRelay follow from it.                                  *)
(*                                                                         *)
(*   - lists (AppendFacts .. UnlinkFacts) and what the parts of UvAsync    *)
(*     say of them (QueueCalls, Types, BacklogParts);                      *)
(*   - one lemma <Action>Step per action, one step per part of IndInv;     *)
(*   - the invariants;                                                     *)
(*   - one lemma per action of JobRelay, and one for the steps that only   *)
(*     move a job along, for the refinement.                               *)
(*                                                                         *)
(* What carries the order of the jobs is OldestRuns: the job whose         *)
(* callback runs is the oldest of the backlog.  The quit job is the last   *)
(* one queued besides, so nothing is left when it runs (RunQuitStep).      *)
(***************************************************************************)
EXTENDS UvAsync, TLAPS

(* Appending to a sequence, and taking its first element away. *)
LEMMA AppendFacts ==
  ASSUME NEW S, NEW s \in Seq(S), NEW e \in S
  PROVE  /\ Append(s, e) \in Seq(S)
         /\ ToSet(Append(s, e)) = ToSet(s) \cup {e}
         /\ DOMAIN s = 1 .. Len(s) /\ Len(s) \in Nat
         /\ DOMAIN Append(s, e) = 1 .. Len(s) + 1
         /\ \A i \in DOMAIN s : Append(s, e)[i] = s[i]
         /\ Append(s, e)[Len(s) + 1] = e
BY DEF ToSet

LEMMA TailFacts ==
  ASSUME NEW S, NEW s \in Seq(S), s # <<>>
  PROVE  /\ Head(s) \in S /\ Tail(s) \in Seq(S)
         /\ ToSet(s) = {Head(s)} \cup ToSet(Tail(s))
         /\ Len(s) \in Nat /\ DOMAIN s = 1 .. Len(s) /\ 1 \in DOMAIN s /\ Head(s) = s[1]
         /\ DOMAIN Tail(s) = 1 .. Len(s) - 1
         /\ \A i \in DOMAIN Tail(s) : i + 1 \in DOMAIN s /\ Tail(s)[i] = s[i + 1]
<1>1. /\ Head(s) \in S /\ Tail(s) \in Seq(S)
      /\ Len(s) \in Nat /\ DOMAIN s = 1 .. Len(s) /\ 1 \in DOMAIN s /\ Head(s) = s[1]
      /\ DOMAIN Tail(s) = 1 .. Len(s) - 1
      /\ \A i \in DOMAIN Tail(s) : i + 1 \in DOMAIN s /\ Tail(s)[i] = s[i + 1]
  OBVIOUS
<1>2. ASSUME NEW i \in DOMAIN s, i # 1
      PROVE  i - 1 \in DOMAIN Tail(s) /\ Tail(s)[i - 1] = s[i]
  <2>1. i \in 1 .. Len(s)
    BY <1>1
  <2>2. i - 1 \in 1 .. Len(s) - 1
    BY <1>1, <1>2, <2>1
  <2>3. i - 1 \in DOMAIN Tail(s)
    BY <1>1, <2>2
  <2> QED
    BY <1>1, <2>1, <2>3
<1>3. ToSet(s) = {Head(s)} \cup ToSet(Tail(s))
  <2>1. ASSUME NEW x \in ToSet(s)
        PROVE  x = Head(s) \/ x \in ToSet(Tail(s))
    <3>1. PICK i \in DOMAIN s : x = s[i]
      BY DEF ToSet
    <3>2. CASE i = 1
      BY <1>1, <3>1, <3>2
    <3>3. CASE i # 1
      BY <1>2, <3>1, <3>3 DEF ToSet
    <3> QED
      BY <3>2, <3>3
  <2>2. ASSUME NEW x \in ToSet(Tail(s))
        PROVE  x \in ToSet(s)
    <3>1. PICK i \in DOMAIN Tail(s) : x = Tail(s)[i]
      BY DEF ToSet
    <3> QED
      BY <1>1, <3>1 DEF ToSet
  <2>3. Head(s) \in ToSet(s)
    BY <1>1 DEF ToSet
  <2> QED
    BY <2>1, <2>2, <2>3
<1> QED
  BY <1>1, <1>3

(* A sequence without elements is empty. *)
LEMMA EmptyFacts ==
  /\ ToSet(<<>>) = {}
  /\ \A S : \A s \in Seq(S) : ToSet(s) = {} => s = <<>>
<1>1. ToSet(<<>>) = {}
  BY DEF ToSet
<1>2. ASSUME NEW S, NEW s \in Seq(S), s # <<>>
      PROVE  ToSet(s) # {}
  <2>1. ToSet(s) = {Head(s)} \cup ToSet(Tail(s))
    BY <1>2, TailFacts
  <2> QED
    BY <2>1
<1> QED
  BY <1>1, <1>2

(* No element stands twice in s. *)
NoDuplicates(s) == \A i, k \in DOMAIN s : i < k => s[i] # s[k]

(* Unlinking takes the element away and keeps the order of the others. *)
LEMMA UnlinkFacts ==
  ASSUME NEW S, NEW s \in Seq(S), NEW e, NoDuplicates(s)
  PROVE  /\ Unlink(s, e) \in Seq(S)
         /\ ToSet(Unlink(s, e)) = ToSet(s) \ {e}
         /\ \A i, k \in DOMAIN Unlink(s, e) : i < k =>
              \E m, n \in DOMAIN s : m < n /\ Unlink(s, e)[i] = s[m] /\ Unlink(s, e)[k] = s[n]
<1>1. CASE e \notin ToSet(s)
  BY <1>1 DEF Unlink
<1>2. CASE e \in ToSet(s)
  <2> DEFINE p == CHOOSE i \in DOMAIN s : s[i] = e
             u == [i \in 1 .. Len(s) - 1 |-> IF i < p THEN s[i] ELSE s[i + 1]]
             from(i) == IF i < p THEN i ELSE i + 1
  <2>1. p \in DOMAIN s /\ s[p] = e /\ DOMAIN s = 1 .. Len(s) /\ Len(s) \in Nat
    BY <1>2 DEF ToSet
  <2>2. Unlink(s, e) = u
    BY <1>2 DEF Unlink
  <2> HIDE DEF p
  <2>3. u \in Seq(S)
    BY <2>1
  <2>4. \A i \in DOMAIN u : from(i) \in DOMAIN s /\ u[i] = s[from(i)] /\ from(i) # p
    BY <2>1
  <2>5. \A i, k \in DOMAIN u : i < k => from(i) < from(k)
    BY <2>1
  <2>6. \A m \in DOMAIN s : m # p => \E i \in DOMAIN u : from(i) = m
    <3> SUFFICES ASSUME NEW m \in DOMAIN s, m # p
                 PROVE  \E i \in DOMAIN u : from(i) = m
      OBVIOUS
    <3>1. CASE m < p
      BY <2>1, <3>1
    <3>2. CASE m > p
      <4>1. m - 1 \in DOMAIN u /\ from(m - 1) = m
        BY <2>1, <3>2
      <4> QED
        BY <4>1
    <3> QED
      BY <2>1, <3>1, <3>2
  <2>7. \A m \in DOMAIN s : s[m] = e => m = p
    BY <2>1 DEF NoDuplicates
  <2> HIDE DEF u, from
  <2>8. ToSet(u) = ToSet(s) \ {e}
    BY <2>1, <2>4, <2>6, <2>7 DEF ToSet
  <2>9. \A i, k \in DOMAIN u : i < k => \E m, n \in DOMAIN s : m < n /\ u[i] = s[m] /\ u[k] = s[n]
    BY <2>4, <2>5
  <2> QED
    BY <2>2, <2>3, <2>8, <2>9
<1> QED
  BY <1>1, <1>2

(* The calls of the queue, in terms of the variables here. *)
LEMMA QueueCalls ==
  ASSUME IndInv
  PROVE  /\ Post => adding' = [op |-> "enqueue", val |-> posted + 1, full |-> Len(jobQueue) >= 15]
                    /\ jobQueue' = jobQueue /\ taking' = taking /\ taken' = taken
                    /\ posted + 1 \in Jobs /\ adding = Queue!IdleProducer
         /\ Enqueue => /\ adding' = Queue!IdleProducer /\ taking' = taking /\ taken' = taken
                       /\ jobQueue' = jobQueue \/ jobQueue' = Append(jobQueue, posted)
                       /\ posted \in Jobs /\ adding.val = posted
         /\ TryDequeue => /\ taking' = [op |-> "try_dequeue", empty |-> jobQueue = <<>>]
                          /\ jobQueue' = jobQueue /\ adding' = adding /\ taken' = taken
         /\ DequeueOnce =>
              /\ taking' = Queue!IdleConsumer /\ adding' = adding
              /\ \/ /\ jobQueue # <<>> /\ jobQueue' = Tail(jobQueue) /\ taken' = Head(jobQueue)
                    /\ taken' \in Jobs /\ uPC' = "start"
                 \/ /\ taking.empty /\ jobQueue' = jobQueue /\ taken' = 0 /\ uPC' = "walk"
<1>0. TypeOK /\ QueueTypeOK /\ GameInv /\ LoopInv
  BY DEF IndInv, TypeOK
<1>1. ASSUME Post
      PROVE  /\ adding' = [op |-> "enqueue", val |-> posted + 1, full |-> Len(jobQueue) >= 15]
             /\ jobQueue' = jobQueue /\ taking' = taking /\ taken' = taken
             /\ posted + 1 \in Jobs /\ adding = Queue!IdleProducer
  BY <1>0, <1>1, MaxJobsAssumption
  DEF Post, Queue!EnqueueCall, TypeOK, Jobs, MaxJobsAssumption
<1>2. ASSUME Enqueue
      PROVE  /\ adding' = Queue!IdleProducer /\ taking' = taking /\ taken' = taken
             /\ jobQueue' = jobQueue \/ jobQueue' = Append(jobQueue, posted)
             /\ posted \in Jobs /\ adding.val = posted
  <2>1. adding # Queue!IdleProducer /\ adding.op = "enqueue" /\ adding.val = posted
    BY <1>0, <1>2 DEF Enqueue, GameInv
  <2>2. posted \in Jobs
    BY <1>0, <2>1 DEF QueueTypeOK, Queue!ProducerCalls
  <2> QED
    BY <1>2, <2>1, <2>2 DEF Enqueue, Queue!EnqueueCommit, Queue!EnqueueFail
<1>3. ASSUME TryDequeue
      PROVE  /\ taking' = [op |-> "try_dequeue", empty |-> jobQueue = <<>>]
             /\ jobQueue' = jobQueue /\ adding' = adding /\ taken' = taken
  BY <1>3 DEF TryDequeue, Queue!DequeueCall
<1>4. ASSUME DequeueOnce
      PROVE  /\ taking' = Queue!IdleConsumer /\ adding' = adding
             /\ \/ /\ jobQueue # <<>> /\ jobQueue' = Tail(jobQueue) /\ taken' = Head(jobQueue)
                   /\ taken' \in Jobs /\ uPC' = "start"
                \/ /\ taking.empty /\ jobQueue' = jobQueue /\ taken' = 0 /\ uPC' = "walk"
  <2>1. CASE Queue!DequeueCommit
    <3>1. jobQueue # <<>> /\ jobQueue' = Tail(jobQueue) /\ taken' = Head(jobQueue)
          /\ taking' = Queue!IdleConsumer /\ adding' = adding
      BY <2>1 DEF Queue!DequeueCommit
    <3>2. Head(jobQueue) \in Jobs
      BY <1>0, <3>1, TailFacts DEF QueueTypeOK
    <3>3. Head(jobQueue) # 0
      BY <3>2 DEF Jobs
    <3> QED
      BY <1>4, <3>1, <3>2, <3>3 DEF DequeueOnce
  <2>2. CASE Queue!DequeueEmpty
    BY <1>4, <2>2 DEF DequeueOnce, Queue!DequeueEmpty
  <2> QED
    BY <1>4, <2>1, <2>2 DEF DequeueOnce
<1> QED
  BY <1>1, <1>2, <1>3, <1>4

(* The loop starts with the handle of g_UV_AsyncAdded, and nothing queued. *)
LEMMA InitInv == Init => IndInv
<1> SUFFICES ASSUME Init
             PROVE  IndInv
  OBVIOUS
<1>1. /\ jobQueue = <<>> /\ walk = <<>> /\ asyncHandles = <<AsyncAdded>>
      /\ ToSet(jobQueue) = {} /\ ToSet(walk) = {} /\ ToSet(asyncHandles) = {AsyncAdded}
      /\ Started = {AsyncAdded}
  BY EmptyFacts DEF Init, ToSet, Started
<1>2. TypeOK
  <2>1. AsyncAdded \in Handles /\ MaxJobs \in Nat
    BY MaxJobsAssumption DEF Handles, MaxJobsAssumption
  <2>2. QueueTypeOK
    BY DEF Init, QueueTypeOK
  <2>3. asyncHandles \in Seq(Handles) /\ walk \in Seq(Handles)
    BY <1>1, <2>1
  <2>4. pending \in [Handles -> 0 .. 2] /\ current \in Handles
    BY <2>1 DEF Init
  <2>6. eventfd \in BOOLEAN /\ stopped \in BOOLEAN
    BY DEF Init
  <2>5. /\ gPC \in {"idle", "enqueue", "read", "claim", "write", "finish", "aborted"}
        /\ uPC \in {"poll", "walk", "callback", "dequeue", "start", "stopped"}
        /\ posted \in 0 .. MaxJobs /\ quit \in 0 .. posted
    BY <2>1 DEF Init
  <2> QED
    BY <2>2, <2>3, <2>4, <2>5, <2>6 DEF TypeOK
<1>3. GameInv
  BY DEF Init, GameInv, AsyncAdded, Handles
<1>4. LoopInv
  BY <1>1 DEF Init, LoopInv
<1>5. Backlog = {}
  BY <1>1 DEF Init, Backlog, Jobs, AsyncAdded
<1>6. OrderInv
  BY <1>1, <1>5 DEF Init, OrderInv, IsJob
<1>7. StartedInv
  BY <1>1 DEF StartedInv, IsJob
<1>8. QueuedInv
  BY <1>1 DEF Init, QueuedInv, AsyncAdded, Handles
<1> QED
  BY <1>2, <1>3, <1>4, <1>6, <1>7, <1>8 DEF IndInv

(* What the type invariant says, in pieces. *)
LEMMA Types ==
  ASSUME TypeOK
  PROVE  /\ MaxJobs \in Nat /\ AsyncAdded \in Handles /\ AsyncAdded \notin Jobs
         /\ Jobs \subseteq Nat /\ Handles \subseteq Nat
         /\ \A h \in Handles : IsJob(h) <=> h \in Jobs
         /\ \A h \in Handles : IsJob(h) <=> h > 0
         /\ jobQueue \in Seq(Jobs) /\ ToSet(jobQueue) \subseteq Jobs
         /\ walk \in Seq(Handles) /\ ToSet(walk) \subseteq Handles
         /\ asyncHandles \in Seq(Handles) /\ ToSet(asyncHandles) \subseteq Handles
         /\ posted \in Nat /\ quit \in Nat /\ current \in Handles
<1>1. /\ MaxJobs \in Nat /\ AsyncAdded \in Handles /\ AsyncAdded \notin Jobs
      /\ Jobs \subseteq Nat /\ Handles \subseteq Nat
      /\ \A h \in Handles : IsJob(h) <=> h \in Jobs
      /\ \A h \in Handles : IsJob(h) <=> h > 0
  BY MaxJobsAssumption DEF MaxJobsAssumption, AsyncAdded, Handles, Jobs, IsJob
<1>2. jobQueue \in Seq(Jobs) /\ walk \in Seq(Handles) /\ asyncHandles \in Seq(Handles)
  BY DEF TypeOK, QueueTypeOK
<1>3. ToSet(jobQueue) \subseteq Jobs
  BY <1>2 DEF ToSet
<1>4. ToSet(walk) \subseteq Handles
  BY <1>2 DEF ToSet
<1>5. ToSet(asyncHandles) \subseteq Handles
  BY <1>2 DEF ToSet
<1>6. posted \in Nat /\ quit \in Nat /\ current \in Handles
  BY <1>1 DEF TypeOK
<1> QED
  BY <1>1, <1>2, <1>3, <1>4, <1>5, <1>6

(* Where a job of the backlog is. *)
LEMMA BacklogParts ==
  ASSUME TypeOK, LoopInv
  PROVE  /\ ToSet(jobQueue) \subseteq Backlog
         /\ \A h \in Started : IsJob(h) => h \in Backlog
         /\ uPC = "start" => taken \in Backlog
         /\ \A j \in Backlog : j \in Jobs /\ j \in Nat /\ IsJob(j)
         /\ \A j \in Backlog : \/ j \in ToSet(jobQueue) \/ j \in Started
                               \/ uPC = "start" /\ j = taken
         /\ Started \subseteq Handles
<1>1. /\ Jobs \subseteq Nat /\ Handles \subseteq Nat /\ ToSet(jobQueue) \subseteq Jobs
      /\ Jobs \subseteq Handles
      /\ Started \subseteq Handles /\ \A h \in Handles : IsJob(h) <=> h \in Jobs
  BY Types DEF Started, Handles
<1>2. uPC = "start" => taken \in Jobs
  BY DEF LoopInv
<1> QED
  BY <1>1, <1>2 DEF Backlog, Started

(* The job being queued is younger than all the others. *)
LEMMA PostStep == IndInv /\ Post => IndInv'
<1> SUFFICES ASSUME IndInv, Post
             PROVE  IndInv'
  OBVIOUS
<1>0. TypeOK /\ GameInv /\ LoopInv /\ OrderInv /\ StartedInv /\ QueuedInv
  BY DEF IndInv
<1>1. /\ adding' = [op |-> "enqueue", val |-> posted + 1, full |-> Len(jobQueue) >= 15]
      /\ jobQueue' = jobQueue /\ taking' = taking /\ taken' = taken
      /\ posted + 1 \in Jobs /\ adding = Queue!IdleProducer
  BY QueueCalls
<1>2. /\ gPC = "idle" /\ gPC' = "enqueue" /\ quit = 0 /\ posted < MaxJobs
      /\ posted' = posted + 1 /\ quit' \in {0, posted'}
      /\ UNCHANGED <<pending, eventfd, asyncHandles, walk, uPC, current, stopped>>
  BY DEF Post, loopVars
<1>3. TypeOK'
  <2>1. adding' \in Queue!ProducerCalls
    BY <1>1 DEF Queue!ProducerCalls
  <2>2. QueueTypeOK'
    BY <1>0, <1>1, <2>1 DEF TypeOK, QueueTypeOK
  <2> QED
    BY <1>0, <1>2, <2>2, Types DEF TypeOK
<1>4. GameInv'
  <2>1. adding' # Queue!IdleProducer
    BY <1>1 DEF Queue!IdleProducer
  <2> QED
    BY <1>0, <1>1, <1>2, <2>1 DEF GameInv
<1>5. LoopInv'
  <2>1. ~ stopped
    BY <1>0, <1>2 DEF LoopInv
  <2> QED
    BY <1>0, <1>1, <1>2, <2>1 DEF LoopInv, Started
<1>6. OrderInv'
  <2>1. Backlog' = Backlog /\ Started' = Started
    BY <1>1, <1>2 DEF Backlog, Started
  <2>2. \A j \in Backlog : j <= posted /\ j \in Nat
    BY <1>0, Types DEF OrderInv, Backlog
  <2>3. \A j \in Backlog' : j <= posted' /\ (gPC' = "enqueue" => j < posted')
    BY <1>0, <1>2, <2>1, <2>2, Types
  <2> QED
    BY <1>0, <1>1, <1>2, <2>1, <2>3 DEF OrderInv, Running
<1>7. StartedInv'
  BY <1>0, <1>1, <1>2 DEF StartedInv, Started, Running
<1>8. QueuedInv'
  BY <1>0, <1>1, <1>2 DEF QueuedInv, Sending
<1> QED
  BY <1>3, <1>4, <1>5, <1>6, <1>7, <1>8 DEF IndInv

(* It goes to the end of the queue, or is lost. *)
LEMMA EnqueueStep == IndInv /\ Enqueue => IndInv'
<1> SUFFICES ASSUME IndInv, Enqueue
             PROVE  IndInv'
  OBVIOUS
<1>0. TypeOK /\ GameInv /\ LoopInv /\ OrderInv /\ StartedInv /\ QueuedInv
  BY DEF IndInv
<1>1. /\ adding' = Queue!IdleProducer /\ taking' = taking /\ taken' = taken
      /\ jobQueue' = jobQueue \/ jobQueue' = Append(jobQueue, posted)
      /\ posted \in Jobs
  BY QueueCalls
<1>2. /\ gPC = "enqueue" /\ gPC' = "read"
      /\ UNCHANGED <<pending, eventfd, asyncHandles, walk, uPC, current, stopped, posted, quit>>
  BY DEF Enqueue, loopVars
<1>3. /\ jobQueue' \in Seq(Jobs) /\ ToSet(jobQueue') \subseteq ToSet(jobQueue) \cup {posted}
      /\ \A k \in DOMAIN jobQueue' :
           \/ k \in DOMAIN jobQueue /\ jobQueue'[k] = jobQueue[k]
           \/ /\ jobQueue'[k] = posted
              /\ \A i \in DOMAIN jobQueue' : i < k => i \in DOMAIN jobQueue
      /\ \A k \in DOMAIN jobQueue : jobQueue'[k] = jobQueue[k]
  <2>1. jobQueue \in Seq(Jobs)
    BY <1>0, Types
  <2>2. CASE jobQueue' = jobQueue
    BY <2>1, <2>2
  <2>3. CASE jobQueue' = Append(jobQueue, posted)
    <3>1. /\ Append(jobQueue, posted) \in Seq(Jobs)
          /\ ToSet(Append(jobQueue, posted)) = ToSet(jobQueue) \cup {posted}
          /\ DOMAIN jobQueue = 1 .. Len(jobQueue) /\ Len(jobQueue) \in Nat
          /\ DOMAIN Append(jobQueue, posted) = 1 .. Len(jobQueue) + 1
          /\ \A i \in DOMAIN jobQueue : Append(jobQueue, posted)[i] = jobQueue[i]
          /\ Append(jobQueue, posted)[Len(jobQueue) + 1] = posted
      BY <1>1, <2>1, AppendFacts
    <3>2. \A k \in DOMAIN jobQueue' : k \in DOMAIN jobQueue \/ k = Len(jobQueue) + 1
      BY <2>3, <3>1
    <3>3. \A i \in DOMAIN jobQueue' : i < Len(jobQueue) + 1 => i \in DOMAIN jobQueue
      BY <2>3, <3>1
    <3> QED
      BY <2>3, <3>1, <3>2, <3>3
  <2> QED
    BY <1>1, <2>2, <2>3
<1>4. TypeOK'
  <2>1. QueueTypeOK'
    BY <1>0, <1>1, <1>3 DEF TypeOK, QueueTypeOK
  <2> QED
    BY <1>0, <1>2, <2>1 DEF TypeOK
<1>5. GameInv'
  BY <1>0, <1>1, <1>2 DEF GameInv
<1>6. LoopInv'
  <2>1. ~ stopped
    BY <1>0, <1>2 DEF LoopInv
  <2> QED
    BY <1>0, <1>1, <1>2, <2>1 DEF LoopInv, Started
<1>7. OrderInv'
  <2>1. Started' = Started /\ Backlog' \subseteq Backlog \cup {posted}
    BY <1>1, <1>2, <1>3 DEF Backlog, Started
  <2>2. \A j \in Backlog : j < posted /\ j \in Nat
    BY <1>0, <1>2, Types DEF OrderInv, Backlog
  <2>3. \A j \in Backlog' : j <= posted' /\ (gPC' = "enqueue" => j < posted')
    <3>1. posted \in Nat /\ posted' = posted /\ gPC' # "enqueue"
      BY <1>0, <1>2, Types
    <3> QED
      BY <2>1, <2>2, <3>1
  <2>4. \A i \in DOMAIN jobQueue : jobQueue[i] \in Backlog
    BY <1>0, BacklogParts DEF ToSet
  <2>5. \A i, k \in DOMAIN jobQueue' : i < k => jobQueue'[i] < jobQueue'[k]
    <3> SUFFICES ASSUME NEW i \in DOMAIN jobQueue', NEW k \in DOMAIN jobQueue', i < k
                 PROVE  jobQueue'[i] < jobQueue'[k]
      OBVIOUS
    <3>1. jobQueue \in Seq(Jobs) /\ jobQueue' \in Seq(Jobs)
      BY <1>0, <1>3, Types
    <3>2. CASE k \in DOMAIN jobQueue /\ jobQueue'[k] = jobQueue[k]
      <4>1. i \in DOMAIN jobQueue
        BY <3>1, <3>2
      <4> QED
        BY <1>0, <1>3, <3>2, <4>1 DEF OrderInv
    <3>3. CASE jobQueue'[k] = posted /\ \A m \in DOMAIN jobQueue' : m < k => m \in DOMAIN jobQueue
      BY <1>3, <2>2, <2>4, <3>3
    <3> QED
      BY <1>3, <3>2, <3>3
  <2>6. \A j \in Started : j < posted
    BY <1>0, <1>1, <2>2, Types DEF Started, Backlog, IsJob, AsyncAdded, Jobs
  <2>7. uPC = "start" => taken < posted
    <3>1. uPC = "start" => taken \in Backlog
      BY <1>0 DEF LoopInv, Backlog
    <3> QED
      BY <2>2, <3>1
  <2>8. \A k \in ToSet(jobQueue') :
          (\A j \in Started' : j < k) /\ (uPC' = "start" => taken' < k)
    BY <1>0, <1>1, <1>2, <1>3, <2>1, <2>6, <2>7 DEF OrderInv
  <2> QED
    BY <1>0, <1>1, <1>2, <2>1, <2>3, <2>5, <2>8 DEF OrderInv, Running
<1>8. StartedInv'
  BY <1>0, <1>1, <1>2 DEF StartedInv, Started, Running
<1>9. QueuedInv'
  BY <1>0, <1>1, <1>2 DEF QueuedInv, Sending
<1> QED
  BY <1>4, <1>5, <1>6, <1>7, <1>8, <1>9 DEF IndInv

(* uv_async_send changes only where the game thread is, the pending word and the eventfd. *)
LEMMA SendStep == IndInv /\ Send => IndInv'
<1> SUFFICES ASSUME IndInv, Send
             PROVE  IndInv'
  OBVIOUS
<1>0. TypeOK /\ GameInv /\ LoopInv /\ OrderInv /\ StartedInv /\ QueuedInv
  BY DEF IndInv
<1>1. /\ UNCHANGED <<jobQueue, adding, taking, taken, asyncHandles, walk, uPC, current, stopped,
                     posted, quit>>
      /\ gPC \in {"read", "claim", "write", "finish"}
      /\ gPC' \in {"idle", "claim", "write", "finish", "aborted"}
  BY DEF Send, SendRead, SendClaim, SendWrite, SendFinish, loopVars, queueVars
<1>2. pending \in [Handles -> 0 .. 2] /\ AsyncAdded \in Handles
  BY <1>0, Types DEF TypeOK
<1>3. /\ \A h \in Handles : h # AsyncAdded => pending'[h] = pending[h]
      /\ pending' \in [Handles -> 0 .. 2]
      /\ eventfd => eventfd'
      /\ eventfd' \in BOOLEAN
      /\ gPC' \in {"write", "finish"} <=> pending'[AsyncAdded] = 1
      /\ gPC' # "aborted"
      /\ pending[AsyncAdded] # 0 => pending'[AsyncAdded] # 0
      /\ gPC' \in {"claim", "write", "finish"} \/ pending'[AsyncAdded] # 0
      /\ pending'[AsyncAdded] = 2 \/ gPC' = "finish" =>
           eventfd' \/ AsyncAdded \in ToSet(walk)
  <2>1. CASE SendRead
    BY <1>0, <1>2, <2>1 DEF SendRead, GameInv, QueuedInv, TypeOK
  <2>2. CASE SendClaim
    BY <1>0, <1>2, <2>2 DEF SendClaim, GameInv, QueuedInv, TypeOK
  <2>3. CASE SendWrite
    BY <1>0, <1>2, <2>3 DEF SendWrite, GameInv, QueuedInv, TypeOK
  <2>4. CASE SendFinish
    BY <1>0, <1>2, <2>4 DEF SendFinish, GameInv, QueuedInv, TypeOK
  <2> QED
    BY <2>1, <2>2, <2>3, <2>4 DEF Send
<1>4. TypeOK'
  <2>1. QueueTypeOK'
    BY <1>0, <1>1 DEF TypeOK, QueueTypeOK
  <2> QED
    BY <1>0, <1>1, <1>3, <2>1 DEF TypeOK
<1>5. GameInv'
  BY <1>0, <1>1, <1>3 DEF GameInv
<1>6. LoopInv'
  BY <1>0, <1>1 DEF LoopInv, Started
<1>7. OrderInv'
  <2>1. Backlog' = Backlog /\ Started' = Started
    BY <1>1 DEF Backlog, Started
  <2> QED
    BY <1>0, <1>1, <2>1 DEF OrderInv, Running
<1>8. StartedInv'
  <2>1. Started' = Started /\ Started \subseteq Handles
    BY <1>0, <1>1, Types DEF Started
  <2> QED
    BY <1>0, <1>1, <1>3, <2>1 DEF StartedInv, Running, IsJob
<1>9. QueuedInv'
  BY <1>0, <1>1, <1>3 DEF QueuedInv, Sending
<1> QED
  BY <1>4, <1>5, <1>6, <1>7, <1>8, <1>9 DEF IndInv

(* All the handles are taken over into the walk. *)
LEMMA WakeStep == IndInv /\ Wake => IndInv'
<1> SUFFICES ASSUME IndInv, Wake
             PROVE  IndInv'
  OBVIOUS
<1>0. TypeOK /\ GameInv /\ LoopInv /\ OrderInv /\ StartedInv /\ QueuedInv
  BY DEF IndInv
<1>1. /\ uPC = "poll" /\ uPC' = "walk" /\ walk' = asyncHandles /\ asyncHandles' = <<>>
      /\ eventfd' = FALSE
      /\ UNCHANGED <<jobQueue, adding, taking, taken, pending, gPC, posted, quit, current, stopped>>
  BY DEF Wake, queueVars, gameVars
<1>2. /\ walk = <<>> /\ ~ stopped /\ AsyncAdded \in Started
      /\ ToSet(walk) = {} /\ ToSet(asyncHandles') = {} /\ DOMAIN asyncHandles' = {}
      /\ ToSet(walk') = ToSet(asyncHandles)
  BY <1>0, <1>1, EmptyFacts DEF LoopInv
<1>3. Started' = Started
  BY <1>2 DEF Started
<1>4. Backlog' = Backlog
  BY <1>1, <1>2 DEF Backlog
<1>5. TypeOK'
  <2>1. QueueTypeOK'
    BY <1>0, <1>1 DEF TypeOK, QueueTypeOK
  <2>2. asyncHandles' \in Seq(Handles) /\ walk' \in Seq(Handles)
    BY <1>0, <1>1 DEF TypeOK
  <2>3. eventfd' \in BOOLEAN
    BY <1>1
  <2> QED
    BY <1>0, <1>1, <2>1, <2>2, <2>3 DEF TypeOK
<1>6. GameInv'
  BY <1>0, <1>1 DEF GameInv
<1>7. LoopInv'
  BY <1>0, <1>1, <1>2, <1>3 DEF LoopInv
<1>8. OrderInv'
  BY <1>0, <1>1, <1>2, <1>3, <1>4 DEF OrderInv, Running
<1>9. StartedInv'
  BY <1>0, <1>1, <1>2, <1>3 DEF StartedInv, Running
<1>10. QueuedInv'
  <2>1. AsyncAdded \in ToSet(walk')
    BY <1>2 DEF Started
  <2> QED
    BY <1>0, <1>1, <2>1 DEF QueuedInv, Sending
<1> QED
  BY <1>5, <1>6, <1>7, <1>8, <1>9, <1>10 DEF IndInv

(* A job's handle is called back when it is visited: it comes last among those for the next *)
(* walk, but it runs first of all.                                                          *)
LEMMA VisitStep == IndInv /\ Visit => IndInv'
<1> SUFFICES ASSUME IndInv, Visit
             PROVE  IndInv'
  OBVIOUS
<1>0. TypeOK /\ GameInv /\ LoopInv /\ OrderInv /\ StartedInv /\ QueuedInv
  BY DEF IndInv
<1> DEFINE h == Head(walk)
<1>1. /\ uPC = "walk" /\ walk # <<>> /\ pending[h] # 1
      /\ walk' = Tail(walk) /\ asyncHandles' = Append(asyncHandles, h)
      /\ \/ pending[h] = 0 /\ pending' = pending /\ uPC' = "walk" /\ current' = current
         \/ /\ pending[h] # 0 /\ pending' = [pending EXCEPT ![h] = 0]
            /\ uPC' = "callback" /\ current' = h
      /\ UNCHANGED <<jobQueue, adding, taking, taken, eventfd, gPC, posted, quit, stopped>>
  BY DEF Visit, queueVars, gameVars
<1>2. walk \in Seq(Handles) /\ asyncHandles \in Seq(Handles)
      /\ AsyncAdded \in Handles /\ pending \in [Handles -> 0 .. 2]
  BY <1>0, Types DEF TypeOK
<1>3. /\ h \in Handles /\ walk' \in Seq(Handles)
      /\ ToSet(walk) = {h} \cup ToSet(walk')
      /\ 1 \in DOMAIN walk /\ h = walk[1]
      /\ Len(walk) \in Nat /\ DOMAIN walk' = 1 .. Len(walk) - 1
      /\ \A i \in DOMAIN walk' : i + 1 \in DOMAIN walk /\ walk'[i] = walk[i + 1]
  BY <1>1, <1>2, TailFacts
<1>4. /\ asyncHandles' \in Seq(Handles)
      /\ ToSet(asyncHandles') = ToSet(asyncHandles) \cup {h}
      /\ DOMAIN asyncHandles = 1 .. Len(asyncHandles) /\ Len(asyncHandles) \in Nat
      /\ DOMAIN asyncHandles' = 1 .. Len(asyncHandles) + 1
      /\ \A i \in DOMAIN asyncHandles : asyncHandles'[i] = asyncHandles[i]
      /\ asyncHandles'[Len(asyncHandles) + 1] = h
  BY <1>1, <1>2, <1>3, AppendFacts
<1> HIDE DEF h
<1>5. Started' = Started /\ h \in ToSet(walk) /\ h \in Started
  BY <1>3, <1>4 DEF Started
<1>6. Backlog' = Backlog
  BY <1>1, <1>3, <1>4 DEF Backlog
<1>7. IsJob(h) => pending[h] = 2
  BY <1>0, <1>1, <1>5 DEF StartedInv, Running
<1>8. IsJob(h) => uPC' = "callback" /\ current' = h
  BY <1>1, <1>7
<1>9. /\ pending' \in [Handles -> 0 .. 2]
      /\ \A g \in Handles : g # h => pending'[g] = pending[g]
      /\ pending'[h] = 0
  <2>1. CASE pending' = pending /\ pending[h] = 0
    BY <1>2, <2>1
  <2>2. CASE pending' = [pending EXCEPT ![h] = 0]
    BY <1>2, <1>3, <2>2
  <2> QED
    BY <1>1, <2>1, <2>2
<1>10. ~ stopped
  BY <1>0, <1>1 DEF LoopInv
<1>11. TypeOK'
  <2>1. QueueTypeOK'
    BY <1>0, <1>1 DEF TypeOK, QueueTypeOK
  <2>2. current' \in Handles /\ uPC' \in {"walk", "callback"}
    BY <1>0, <1>1, <1>3 DEF TypeOK
  <2> QED
    BY <1>0, <1>1, <1>3, <1>4, <1>9, <2>1, <2>2 DEF TypeOK
<1>12. GameInv'
  <2>1. pending'[AsyncAdded] = 1 <=> pending[AsyncAdded] = 1
    BY <1>1, <1>2, <1>9
  <2> QED
    BY <1>0, <1>1, <2>1 DEF GameInv
<1>13. LoopInv'
  BY <1>0, <1>1, <1>4, <1>5, <1>10 DEF LoopInv
<1>14. /\ \A j \in ToSet(walk') : j # h /\ Before(h, j)
       /\ \A k \in ToSet(asyncHandles) : k # h /\ Before(h, k)
  <2>1. ASSUME NEW j \in ToSet(walk')
        PROVE  j # h /\ Before(h, j)
    <3>1. PICK i \in DOMAIN walk' : j = walk'[i]
      BY DEF ToSet
    <3>2. i + 1 \in DOMAIN walk /\ j = walk[i + 1] /\ 1 < i + 1
      BY <1>3, <3>1
    <3> QED
      BY <1>0, <1>3, <3>2 DEF OrderInv
  <2>2. ASSUME NEW k \in ToSet(asyncHandles)
        PROVE  k # h /\ Before(h, k)
    BY <1>0, <1>1, <1>5 DEF OrderInv, Running
  <2> QED
    BY <2>1, <2>2
<1>15. OrderInv'
  <2>1. \A j \in Backlog' : j <= posted' /\ (gPC' = "enqueue" => j < posted')
    BY <1>0, <1>1, <1>6 DEF OrderInv
  <2>2. \A i, k \in DOMAIN jobQueue' : i < k => jobQueue'[i] < jobQueue'[k]
    BY <1>0, <1>1 DEF OrderInv
  <2>3. \A k \in ToSet(jobQueue') :
          (\A j \in Started' : j < k) /\ (uPC' = "start" => taken' < k)
    BY <1>0, <1>1, <1>5 DEF OrderInv
  <2>4. \A i, k \in DOMAIN walk' : i < k => walk'[i] # walk'[k] /\ Before(walk'[i], walk'[k])
    <3> SUFFICES ASSUME NEW i \in DOMAIN walk', NEW k \in DOMAIN walk', i < k
                 PROVE  walk'[i] # walk'[k] /\ Before(walk'[i], walk'[k])
      OBVIOUS
    <3>1. /\ i + 1 \in DOMAIN walk /\ k + 1 \in DOMAIN walk /\ i + 1 < k + 1
          /\ walk'[i] = walk[i + 1] /\ walk'[k] = walk[k + 1]
      BY <1>3
    <3> QED
      BY <1>0, <3>1 DEF OrderInv
  <2>5. \A i, k \in DOMAIN asyncHandles' : i < k =>
          /\ asyncHandles'[i] # asyncHandles'[k]
          /\ Running(asyncHandles[k])' \/ Before(asyncHandles'[i], asyncHandles'[k])
    <3> SUFFICES ASSUME NEW i \in DOMAIN asyncHandles', NEW k \in DOMAIN asyncHandles', i < k
                 PROVE  /\ asyncHandles'[i] # asyncHandles'[k]
                        /\ Running(asyncHandles[k])' \/ Before(asyncHandles'[i], asyncHandles'[k])
      OBVIOUS
    <3>1. i \in DOMAIN asyncHandles /\ asyncHandles'[i] = asyncHandles[i]
      BY <1>4
    <3>2. asyncHandles[i] \in ToSet(asyncHandles)
      BY <3>1 DEF ToSet
    <3>3. CASE k \in DOMAIN asyncHandles
      BY <1>0, <1>1, <1>4, <3>1, <3>3 DEF OrderInv, Running
    <3>4. CASE k = Len(asyncHandles) + 1
      <4>1. asyncHandles'[k] = h
        BY <1>4, <3>4
      <4> QED
        BY <1>8, <1>14, <3>1, <3>2, <4>1 DEF Running, Before
    <3> QED
      BY <1>4, <3>3, <3>4
  <2>6. \A j \in ToSet(walk'), k \in ToSet(asyncHandles') :
          j # k /\ (Running(k)' \/ Before(j, k))
    <3> SUFFICES ASSUME NEW j \in ToSet(walk'), NEW k \in ToSet(asyncHandles')
                 PROVE  j # k /\ ((uPC' = "callback" /\ current' = k) \/ Before(j, k))
      BY DEF Running
    <3>1. CASE k = h
      BY <1>8, <1>14, <3>1 DEF Before
    <3>2. CASE k \in ToSet(asyncHandles)
      BY <1>0, <1>1, <1>3, <3>2 DEF OrderInv, Running
    <3> QED
      BY <1>4, <3>1, <3>2
  <2>7. uPC' = "callback" /\ IsJob(current') =>
          \A j \in Started' : j # current' => Before(current', j)
    BY <1>1, <1>3, <1>5, <1>14 DEF Started
  <2> QED
    BY <1>1, <2>1, <2>2, <2>3, <2>4, <2>5, <2>6, <2>7 DEF OrderInv, Running
<1>16. StartedInv'
  <2> SUFFICES ASSUME NEW j \in Started', IsJob(j), ~ Running(j)'
               PROVE  pending'[j] = 2 /\ (j \in ToSet(asyncHandles') => eventfd')
    BY DEF StartedInv, IsJob
  <2>1. j # h /\ j \in Started /\ j \in Handles
    BY <1>0, <1>5, <1>8, Types DEF Running, Started
  <2> QED
    BY <1>0, <1>1, <1>4, <1>9, <2>1 DEF StartedInv, Running
<1>17. QueuedInv'
  <2>1. CASE h = AsyncAdded
    <3>1. pending'[AsyncAdded] = 0 /\ gPC # "finish"
      BY <1>0, <1>1, <1>9, <2>1 DEF GameInv
    <3>2. jobQueue # <<>> => Sending \/ pending[AsyncAdded] # 0
      BY <1>0, <1>1 DEF QueuedInv
    <3>3. pending[AsyncAdded] # 0 => uPC' = "callback" /\ current' = AsyncAdded
      BY <1>1, <2>1
    <3> QED
      BY <1>1, <3>1, <3>2, <3>3 DEF QueuedInv, Sending
  <2>2. CASE h # AsyncAdded
    <3>1. pending'[AsyncAdded] = pending[AsyncAdded]
      BY <1>2, <1>9, <2>2
    <3>2. AsyncAdded \in ToSet(walk) => AsyncAdded \in ToSet(walk')
      BY <1>3, <2>2
    <3> QED
      BY <1>0, <1>1, <3>1, <3>2 DEF QueuedInv, Sending
  <2> QED
    BY <2>1, <2>2
<1> QED
  BY <1>11, <1>12, <1>13, <1>15, <1>16, <1>17 DEF IndInv

(* The walk is empty: nothing is left behind it. *)
LEMMA EndWalkStep == IndInv /\ EndWalk => IndInv'
<1> SUFFICES ASSUME IndInv, EndWalk
             PROVE  IndInv'
  OBVIOUS
<1>0. TypeOK /\ GameInv /\ LoopInv /\ OrderInv /\ StartedInv /\ QueuedInv
  BY DEF IndInv
<1>1. /\ uPC = "walk" /\ walk = <<>> /\ uPC' = (IF stopped THEN "stopped" ELSE "poll")
      /\ UNCHANGED <<jobQueue, adding, taking, taken, pending, eventfd, gPC, posted, quit,
                     asyncHandles, walk, current, stopped>>
  BY DEF EndWalk, queueVars, gameVars
<1>2. Started' = Started /\ Backlog' = Backlog
  BY <1>1 DEF Started, Backlog
<1>3. TypeOK'
  <2>1. QueueTypeOK'
    BY <1>0, <1>1 DEF TypeOK, QueueTypeOK
  <2> QED
    BY <1>0, <1>1, <2>1 DEF TypeOK
<1>4. GameInv'
  BY <1>0, <1>1 DEF GameInv
<1>5. LoopInv'
  BY <1>0, <1>1, <1>2 DEF LoopInv
<1>6. OrderInv'
  BY <1>0, <1>1, <1>2 DEF OrderInv, Running
<1>7. StartedInv'
  BY <1>0, <1>1, <1>2 DEF StartedInv, Running
<1>8. QueuedInv'
  BY <1>0, <1>1 DEF QueuedInv, Sending
<1> QED
  BY <1>3, <1>4, <1>5, <1>6, <1>7, <1>8 DEF IndInv

(* The drain asks for the next job. *)
LEMMA TryDequeueStep == IndInv /\ TryDequeue => IndInv'
<1> SUFFICES ASSUME IndInv, TryDequeue
             PROVE  IndInv'
  OBVIOUS
<1>0. TypeOK /\ GameInv /\ LoopInv /\ OrderInv /\ StartedInv /\ QueuedInv
  BY DEF IndInv
<1>1. /\ uPC = "callback" /\ current = AsyncAdded /\ uPC' = "dequeue"
      /\ taking' = [op |-> "try_dequeue", empty |-> jobQueue = <<>>]
      /\ jobQueue' = jobQueue /\ adding' = adding /\ taken' = taken
      /\ UNCHANGED <<pending, eventfd, gPC, posted, quit, asyncHandles, walk, current, stopped>>
  BY QueueCalls DEF TryDequeue, gameVars
<1>2. Started' = Started /\ Backlog' = Backlog
  BY <1>1 DEF Started, Backlog
<1>3. TypeOK'
  <2>1. taking' \in Queue!ConsumerCalls
    BY <1>1 DEF Queue!ConsumerCalls
  <2>2. QueueTypeOK'
    BY <1>0, <1>1, <2>1 DEF TypeOK, QueueTypeOK
  <2> QED
    BY <1>0, <1>1, <2>2 DEF TypeOK
<1>4. GameInv'
  BY <1>0, <1>1 DEF GameInv
<1>5. LoopInv'
  <2>1. taking' # Queue!IdleConsumer /\ taking'.op = "try_dequeue"
    BY <1>1 DEF Queue!IdleConsumer
  <2> QED
    BY <1>0, <1>1, <1>2, <2>1 DEF LoopInv
<1>6. OrderInv'
  <2>1. \A k : Running(k) => \A j : Before(j, k)
    BY <1>1 DEF Running, Before, IsJob
  <2> QED
    BY <1>0, <1>1, <1>2, <2>1 DEF OrderInv
<1>7. StartedInv'
  BY <1>0, <1>1, <1>2 DEF StartedInv, Running, IsJob
<1>8. QueuedInv'
  BY <1>0, <1>1 DEF QueuedInv, Sending
<1> QED
  BY <1>3, <1>4, <1>5, <1>6, <1>7, <1>8 DEF IndInv

(* The oldest job of the queue is younger than every started one. *)
LEMMA DequeueOnceStep == IndInv /\ DequeueOnce => IndInv'
<1> SUFFICES ASSUME IndInv, DequeueOnce
             PROVE  IndInv'
  OBVIOUS
<1>0. TypeOK /\ GameInv /\ LoopInv /\ OrderInv /\ StartedInv /\ QueuedInv
  BY DEF IndInv
<1>1. /\ uPC = "dequeue" /\ taking' = Queue!IdleConsumer /\ adding' = adding
      /\ UNCHANGED <<pending, eventfd, gPC, posted, quit, asyncHandles, walk, current, stopped>>
  BY QueueCalls DEF DequeueOnce, gameVars
<1>2. \/ /\ jobQueue # <<>> /\ jobQueue' = Tail(jobQueue) /\ taken' = Head(jobQueue)
         /\ taken' \in Jobs /\ uPC' = "start"
      \/ /\ taking.empty /\ jobQueue' = jobQueue /\ taken' = 0 /\ uPC' = "walk"
  BY QueueCalls
<1>3. Started' = Started
  BY <1>1 DEF Started
<1>4. jobQueue \in Seq(Jobs) /\ current = AsyncAdded /\ ~ stopped
  BY <1>0, <1>1, Types DEF LoopInv
<1>5. GameInv'
  BY <1>0, <1>1 DEF GameInv
<1>6. StartedInv'
  BY <1>0, <1>1, <1>2, <1>3, <1>4 DEF StartedInv, Running
<1>7. CASE jobQueue # <<>> /\ jobQueue' = Tail(jobQueue) /\ taken' = Head(jobQueue)
           /\ taken' \in Jobs /\ uPC' = "start"
  <2>1. /\ jobQueue' \in Seq(Jobs) /\ ToSet(jobQueue) = {taken'} \cup ToSet(jobQueue')
        /\ Len(jobQueue) \in Nat /\ 1 \in DOMAIN jobQueue /\ taken' = jobQueue[1]
        /\ DOMAIN jobQueue' = 1 .. Len(jobQueue) - 1
        /\ \A i \in DOMAIN jobQueue' : i + 1 \in DOMAIN jobQueue /\ jobQueue'[i] = jobQueue[i + 1]
    BY <1>4, <1>7, TailFacts
  <2>2. Backlog' = Backlog
    BY <1>1, <1>7, <2>1 DEF Backlog
  <2>3. \A k \in ToSet(jobQueue') : taken' < k
    <3> SUFFICES ASSUME NEW k \in ToSet(jobQueue')
                 PROVE  taken' < k
      OBVIOUS
    <3>1. PICK i \in DOMAIN jobQueue' : k = jobQueue'[i]
      BY DEF ToSet
    <3>2. i + 1 \in DOMAIN jobQueue /\ k = jobQueue[i + 1] /\ 1 < i + 1
      BY <2>1, <3>1
    <3> QED
      BY <1>0, <2>1, <3>2 DEF OrderInv
  <2>4. TypeOK'
    <3>1. QueueTypeOK'
      BY <1>0, <1>1, <1>7, <2>1 DEF TypeOK, QueueTypeOK
    <3> QED
      BY <1>0, <1>1, <1>7, <3>1 DEF TypeOK
  <2>5. LoopInv'
    BY <1>0, <1>1, <1>3, <1>4, <1>7 DEF LoopInv
  <2>6. OrderInv'
    <3>1. \A j \in Backlog' : j <= posted' /\ (gPC' = "enqueue" => j < posted')
      BY <1>0, <1>1, <2>2 DEF OrderInv
    <3>2. \A i, k \in DOMAIN jobQueue' : i < k => jobQueue'[i] < jobQueue'[k]
      <4> SUFFICES ASSUME NEW i \in DOMAIN jobQueue', NEW k \in DOMAIN jobQueue', i < k
                   PROVE  jobQueue'[i] < jobQueue'[k]
        OBVIOUS
      <4>1. /\ i + 1 \in DOMAIN jobQueue /\ k + 1 \in DOMAIN jobQueue /\ i + 1 < k + 1
            /\ jobQueue'[i] = jobQueue[i + 1] /\ jobQueue'[k] = jobQueue[k + 1]
        BY <2>1
      <4> QED
        BY <1>0, <4>1 DEF OrderInv
    <3>3. \A k \in ToSet(jobQueue') :
            (\A j \in Started' : j < k) /\ (uPC' = "start" => taken' < k)
      BY <1>0, <1>3, <2>1, <2>3 DEF OrderInv
    <3>4. \A j \in Started' : j < taken'
      BY <1>0, <1>3, <2>1 DEF OrderInv
    <3> QED
      BY <1>0, <1>1, <1>3, <1>7, <3>1, <3>2, <3>3, <3>4 DEF OrderInv, Running
  <2>7. QueuedInv'
    <3>1. jobQueue' # <<>> => current' = AsyncAdded /\ uPC' = "start"
      BY <1>1, <1>4, <1>7
    <3> QED
      BY <1>0, <1>1, <1>7, <3>1 DEF QueuedInv, Sending
  <2> QED
    BY <1>5, <1>6, <2>4, <2>5, <2>6, <2>7 DEF IndInv
<1>8. CASE taking.empty /\ jobQueue' = jobQueue /\ taken' = 0 /\ uPC' = "walk"
  <2>1. Backlog' = Backlog
    BY <1>1, <1>8 DEF Backlog
  <2>2. TypeOK'
    <3>1. QueueTypeOK'
      BY <1>0, <1>1, <1>8 DEF TypeOK, QueueTypeOK
    <3> QED
      BY <1>0, <1>1, <1>8, <3>1 DEF TypeOK
  <2>3. LoopInv'
    BY <1>0, <1>1, <1>3, <1>4, <1>8 DEF LoopInv
  <2>4. OrderInv'
    BY <1>0, <1>1, <1>3, <1>8, <2>1 DEF OrderInv, Running
  <2>5. QueuedInv'
    BY <1>0, <1>1, <1>8 DEF QueuedInv, Sending
  <2> QED
    BY <1>5, <1>6, <2>2, <2>3, <2>4, <2>5 DEF IndInv
<1> QED
  BY <1>2, <1>7, <1>8

(* Its handle comes behind all the others, pending, with the eventfd set. *)
LEMMA StartJobStep == IndInv /\ StartJob => IndInv'
<1> SUFFICES ASSUME IndInv, StartJob
             PROVE  IndInv'
  OBVIOUS
<1>0. TypeOK /\ GameInv /\ LoopInv /\ OrderInv /\ StartedInv /\ QueuedInv
  BY DEF IndInv
<1>1. /\ uPC = "start" /\ uPC' = "callback" /\ eventfd' = TRUE
      /\ asyncHandles' = Append(asyncHandles, taken)
      /\ pending' = [pending EXCEPT ![taken] = 2]
      /\ UNCHANGED <<jobQueue, adding, taking, taken, gPC, posted, quit, walk, current, stopped>>
  BY DEF StartJob, queueVars, gameVars
<1>2. /\ walk \in Seq(Handles) /\ asyncHandles \in Seq(Handles)
      /\ AsyncAdded \in Handles /\ pending \in [Handles -> 0 .. 2]
      /\ taken \in Jobs /\ taken \in Handles /\ taken # AsyncAdded /\ IsJob(taken)
      /\ ~ stopped /\ current = AsyncAdded /\ current \in ToSet(asyncHandles)
  <2>1. taken \in Jobs
    BY <1>0, <1>1 DEF LoopInv
  <2>2. taken \in Handles /\ taken # AsyncAdded /\ IsJob(taken)
    BY <1>0, <2>1, Types DEF Handles, IsJob
  <2>3. ~ stopped /\ current = AsyncAdded /\ current \in ToSet(asyncHandles)
    BY <1>0, <1>1 DEF LoopInv
  <2> QED
    BY <1>0, <2>1, <2>2, <2>3, Types DEF TypeOK
<1>3. /\ asyncHandles' \in Seq(Handles)
      /\ ToSet(asyncHandles') = ToSet(asyncHandles) \cup {taken}
      /\ DOMAIN asyncHandles = 1 .. Len(asyncHandles) /\ Len(asyncHandles) \in Nat
      /\ DOMAIN asyncHandles' = 1 .. Len(asyncHandles) + 1
      /\ \A i \in DOMAIN asyncHandles : asyncHandles'[i] = asyncHandles[i]
      /\ asyncHandles'[Len(asyncHandles) + 1] = taken
  BY <1>1, <1>2, AppendFacts
<1>4. Started' = Started \cup {taken}
  BY <1>1, <1>3 DEF Started
<1>5. Backlog' = Backlog
  BY <1>1, <1>2, <1>3 DEF Backlog
<1>6. /\ pending' \in [Handles -> 0 .. 2] /\ pending'[taken] = 2
      /\ \A g \in Handles : g # taken => pending'[g] = pending[g]
      /\ pending'[AsyncAdded] = pending[AsyncAdded]
  BY <1>1, <1>2
<1>7. /\ \A j \in Started : j < taken /\ j # taken
      /\ Started \subseteq Handles
  <2>1. /\ \A j \in Started : j < taken
        /\ Started \subseteq Nat /\ taken \in Nat
        /\ Started \subseteq Handles
    BY <1>0, <1>1, <1>2, Types DEF OrderInv, Started
  <2> QED
    BY <2>1
<1>8. TypeOK'
  <2>1. QueueTypeOK'
    BY <1>0, <1>1 DEF TypeOK, QueueTypeOK
  <2>2. eventfd' \in BOOLEAN
    BY <1>1
  <2> QED
    BY <1>0, <1>1, <1>3, <1>6, <2>1, <2>2 DEF TypeOK
<1>9. GameInv'
  BY <1>0, <1>1, <1>6 DEF GameInv
<1>10. LoopInv'
  BY <1>0, <1>1, <1>2, <1>3, <1>4 DEF LoopInv
<1>11. OrderInv'
  <2>1. \A j \in Backlog' : j <= posted' /\ (gPC' = "enqueue" => j < posted')
    BY <1>0, <1>1, <1>5 DEF OrderInv
  <2>2. \A k \in ToSet(jobQueue') : \A j \in Started' : j < k
    BY <1>0, <1>1, <1>4 DEF OrderInv
  <2>3. \A i, k \in DOMAIN asyncHandles' : i < k =>
          /\ asyncHandles'[i] # asyncHandles'[k]
          /\ Before(asyncHandles'[i], asyncHandles'[k])
    <3> SUFFICES ASSUME NEW i \in DOMAIN asyncHandles', NEW k \in DOMAIN asyncHandles', i < k
                 PROVE  /\ asyncHandles'[i] # asyncHandles'[k]
                        /\ Before(asyncHandles'[i], asyncHandles'[k])
      OBVIOUS
    <3>1. i \in DOMAIN asyncHandles /\ asyncHandles'[i] = asyncHandles[i]
      BY <1>3
    <3>2. asyncHandles[i] \in Started
      BY <3>1 DEF ToSet, Started
    <3>3. CASE k \in DOMAIN asyncHandles
      BY <1>0, <1>1, <1>3, <3>1, <3>3 DEF OrderInv, Running
    <3>4. CASE k = Len(asyncHandles) + 1
      BY <1>3, <1>7, <3>1, <3>2, <3>4 DEF Before
    <3> QED
      BY <1>3, <3>3, <3>4
  <2>4. \A j \in ToSet(walk'), k \in ToSet(asyncHandles') : j # k /\ Before(j, k)
    <3> SUFFICES ASSUME NEW j \in ToSet(walk'), NEW k \in ToSet(asyncHandles')
                 PROVE  j # k /\ Before(j, k)
      OBVIOUS
    <3>1. j \in ToSet(walk) /\ j \in Started
      BY <1>1 DEF Started
    <3>2. CASE k = taken
      BY <1>7, <3>1, <3>2 DEF Before
    <3>3. CASE k \in ToSet(asyncHandles)
      BY <1>0, <1>1, <3>1, <3>3 DEF OrderInv, Running
    <3> QED
      BY <1>3, <3>2, <3>3
  <2>5. ~ IsJob(current')
    BY <1>1, <1>2 DEF IsJob
  <2> QED
    BY <1>0, <1>1, <2>1, <2>2, <2>3, <2>4, <2>5 DEF OrderInv
<1>12. StartedInv'
  <2> SUFFICES ASSUME NEW j \in Started', IsJob(j)
               PROVE  pending'[j] = 2
    BY <1>1 DEF StartedInv, IsJob
  <2>1. CASE j = taken
    BY <1>6, <2>1
  <2>2. CASE j \in Started
    BY <1>0, <1>1, <1>6, <1>7, <2>2 DEF StartedInv, Running
  <2> QED
    BY <1>4, <2>1, <2>2
<1>13. QueuedInv'
  BY <1>1, <1>2 DEF QueuedInv
<1> QED
  BY <1>8, <1>9, <1>10, <1>11, <1>12, <1>13 DEF IndInv

(* The job that runs is the oldest of the backlog. *)
LEMMA OldestRuns ==
  ASSUME IndInv, uPC = "callback", current \in Jobs
  PROVE  /\ current \in Backlog /\ current \in ToSet(asyncHandles)
         /\ current \notin ToSet(walk) /\ current \notin ToSet(jobQueue)
         /\ \A k \in Backlog : current <= k
<1>0. TypeOK /\ LoopInv /\ OrderInv
  BY DEF IndInv
<1>1. current \in ToSet(asyncHandles) /\ current \in Started
  BY <1>0 DEF LoopInv, Started
<1>2. IsJob(current) /\ current \in Nat
  BY <1>0, Types
<1>3. current \in Backlog
  BY <1>0, <1>1, <1>2, BacklogParts
<1>4. current \notin ToSet(walk)
  BY <1>0, <1>1 DEF OrderInv
<1>5. \A k \in ToSet(jobQueue) : current < k
  BY <1>0, <1>1 DEF OrderInv
<1>6. current \notin ToSet(jobQueue)
  BY <1>2, <1>5
<1>7. \A k \in Started : IsJob(k) /\ k # current => current < k
  BY <1>0, <1>2 DEF OrderInv, Before
<1>8. \A k \in Backlog : k \in Nat /\ IsJob(k) /\ (k \in ToSet(jobQueue) \/ k \in Started)
  BY <1>0, BacklogParts
<1>9. \A k \in Backlog : current <= k
  BY <1>2, <1>5, <1>7, <1>8
<1> QED
  BY <1>1, <1>3, <1>4, <1>6, <1>9

(* The oldest job leaves the backlog. *)
LEMMA RunJobStep == IndInv /\ RunJob => IndInv' /\ Backlog' = Backlog \ {current}
<1> SUFFICES ASSUME IndInv, RunJob
             PROVE  IndInv' /\ Backlog' = Backlog \ {current}
  OBVIOUS
<1>0. TypeOK /\ GameInv /\ LoopInv /\ OrderInv /\ StartedInv /\ QueuedInv
  BY DEF IndInv
<1>1. /\ uPC = "callback" /\ current \in Jobs /\ uPC' = "walk"
      /\ asyncHandles' = Unlink(asyncHandles, current)
      /\ UNCHANGED <<jobQueue, adding, taking, taken, pending, eventfd, gPC, posted, quit, walk,
                     current, stopped>>
  BY DEF RunJob, queueVars, gameVars
<1>2. NoDuplicates(asyncHandles) /\ asyncHandles \in Seq(Handles)
  BY <1>0 DEF OrderInv, NoDuplicates, TypeOK
<1>3. /\ asyncHandles' \in Seq(Handles)
      /\ ToSet(asyncHandles') = ToSet(asyncHandles) \ {current}
      /\ \A i, k \in DOMAIN asyncHandles' : i < k =>
           \E m, n \in DOMAIN asyncHandles :
             m < n /\ asyncHandles'[i] = asyncHandles[m] /\ asyncHandles'[k] = asyncHandles[n]
  BY <1>1, <1>2, UnlinkFacts
<1>4. current \notin ToSet(walk) /\ current \notin ToSet(jobQueue)
  BY <1>1, OldestRuns
<1>5. Started' = Started \ {current}
  BY <1>1, <1>3, <1>4 DEF Started
<1>6. Backlog' = Backlog \ {current}
  BY <1>1, <1>3, <1>4 DEF Backlog
<1>7. ~ stopped /\ current # AsyncAdded
  BY <1>0, <1>1, Types DEF LoopInv
<1>8. TypeOK'
  <2>1. QueueTypeOK'
    BY <1>0, <1>1 DEF TypeOK, QueueTypeOK
  <2> QED
    BY <1>0, <1>1, <1>3, <2>1 DEF TypeOK
<1>9. GameInv'
  BY <1>0, <1>1 DEF GameInv
<1>10. LoopInv'
  BY <1>0, <1>1, <1>5, <1>7 DEF LoopInv
<1>11. OrderInv'
  <2>1. \A j \in Backlog' : j <= posted' /\ (gPC' = "enqueue" => j < posted')
    BY <1>0, <1>1, <1>6 DEF OrderInv
  <2>2. \A k \in ToSet(jobQueue') : \A j \in Started' : j < k
    BY <1>0, <1>1, <1>5 DEF OrderInv
  <2>3. \A i, k \in DOMAIN asyncHandles' : i < k =>
          /\ asyncHandles'[i] # asyncHandles'[k]
          /\ Before(asyncHandles'[i], asyncHandles'[k])
    <3> SUFFICES ASSUME NEW i \in DOMAIN asyncHandles', NEW k \in DOMAIN asyncHandles', i < k
                 PROVE  /\ asyncHandles'[i] # asyncHandles'[k]
                        /\ Before(asyncHandles'[i], asyncHandles'[k])
      OBVIOUS
    <3>1. PICK m \in DOMAIN asyncHandles, n \in DOMAIN asyncHandles :
            m < n /\ asyncHandles'[i] = asyncHandles[m] /\ asyncHandles'[k] = asyncHandles[n]
      BY <1>3
    <3>2. asyncHandles'[k] \in ToSet(asyncHandles')
      BY DEF ToSet
    <3>3. asyncHandles[n] # current
      BY <1>3, <3>1, <3>2
    <3> QED
      BY <1>0, <3>1, <3>3 DEF OrderInv, Running
  <2>4. \A j \in ToSet(walk'), k \in ToSet(asyncHandles') : j # k /\ Before(j, k)
    BY <1>0, <1>1, <1>3 DEF OrderInv, Running
  <2> QED
    BY <1>0, <1>1, <2>1, <2>2, <2>3, <2>4 DEF OrderInv
<1>12. StartedInv'
  BY <1>0, <1>1, <1>3, <1>5 DEF StartedInv, Running
<1>13. QueuedInv'
  BY <1>0, <1>1, <1>7 DEF QueuedInv, Sending
<1> QED
  BY <1>6, <1>8, <1>9, <1>10, <1>11, <1>12, <1>13 DEF IndInv

(* The quit job is the last one queued and the oldest one left: it is the only one left. *)
LEMMA RunQuitStep == IndInv /\ RunQuit => IndInv' /\ Backlog' = {} /\ Backlog = {current}
<1> SUFFICES ASSUME IndInv, RunQuit
             PROVE  IndInv' /\ Backlog' = {} /\ Backlog = {current}
  OBVIOUS
<1>0. TypeOK /\ GameInv /\ LoopInv /\ OrderInv /\ StartedInv /\ QueuedInv
  BY DEF IndInv
<1>1. /\ uPC = "callback" /\ current = quit /\ current # AsyncAdded /\ uPC' = "walk"
      /\ pending[AsyncAdded] # 1 /\ pending' = [pending EXCEPT ![AsyncAdded] = 0]
      /\ asyncHandles' = Unlink(Unlink(asyncHandles, current), AsyncAdded)
      /\ walk' = Unlink(walk, AsyncAdded) /\ stopped' = TRUE
      /\ UNCHANGED <<jobQueue, adding, taking, taken, eventfd, gPC, posted, quit, current>>
  BY DEF RunQuit, queueVars, gameVars
<1>2. /\ current \in Jobs /\ current \in Nat /\ current = posted
      /\ AsyncAdded \in Handles /\ pending \in [Handles -> 0 .. 2]
  <2>1. current \in Handles /\ current # 0
    BY <1>0, <1>1, Types DEF AsyncAdded
  <2>2. current \in Jobs /\ current \in Nat
    BY <1>0, <2>1, Types DEF IsJob, AsyncAdded
  <2>3. quit = posted
    BY <1>0, <1>1, <2>1 DEF GameInv
  <2> QED
    BY <1>0, <1>1, <2>2, <2>3, Types DEF TypeOK
<1>3. /\ current \in Backlog /\ current \in ToSet(asyncHandles)
      /\ current \notin ToSet(walk) /\ current \notin ToSet(jobQueue)
      /\ \A k \in Backlog : current <= k
  BY <1>1, <1>2, OldestRuns
<1>4. \A k \in Backlog : k \in Nat /\ k <= posted /\ (gPC = "enqueue" => k < posted)
  BY <1>0, BacklogParts DEF OrderInv
<1>5. Backlog = {current} /\ gPC # "enqueue"
  <2>1. \A k \in Backlog : k = current
    BY <1>2, <1>3, <1>4
  <2>2. ~ (current < posted)
    BY <1>2
  <2> QED
    BY <1>3, <1>4, <2>1, <2>2
<1>6. jobQueue = <<>>
  <2>1. ToSet(jobQueue) = {}
    BY <1>0, <1>3, <1>5, BacklogParts
  <2> QED
    BY <1>0, <2>1, EmptyFacts, Types
<1>7. \A h \in Started : h = current \/ h = AsyncAdded
  BY <1>0, <1>5, BacklogParts DEF IsJob
<1>8. walk' = <<>>
  <2>1. NoDuplicates(walk) /\ walk \in Seq(Handles)
    BY <1>0 DEF OrderInv, NoDuplicates, TypeOK
  <2>2. walk' \in Seq(Handles) /\ ToSet(walk') = ToSet(walk) \ {AsyncAdded}
    BY <1>1, <2>1, UnlinkFacts
  <2>3. ToSet(walk') = {}
    BY <1>3, <1>7, <2>2 DEF Started
  <2> QED
    BY <2>2, <2>3, EmptyFacts
<1>9. asyncHandles' = <<>>
  <2> DEFINE u == Unlink(asyncHandles, current)
  <2>1. NoDuplicates(asyncHandles) /\ asyncHandles \in Seq(Handles)
    BY <1>0 DEF OrderInv, NoDuplicates, TypeOK
  <2>2. /\ u \in Seq(Handles) /\ ToSet(u) = ToSet(asyncHandles) \ {current}
        /\ \A i, k \in DOMAIN u : i < k =>
             \E m, n \in DOMAIN asyncHandles :
               m < n /\ u[i] = asyncHandles[m] /\ u[k] = asyncHandles[n]
    BY <2>1, UnlinkFacts
  <2> HIDE DEF u
  <2>3. NoDuplicates(u)
    BY <2>1, <2>2 DEF NoDuplicates
  <2>4. Unlink(u, AsyncAdded) \in Seq(Handles)
        /\ ToSet(Unlink(u, AsyncAdded)) = ToSet(u) \ {AsyncAdded}
    BY <2>2, <2>3, UnlinkFacts
  <2>5. asyncHandles' = Unlink(u, AsyncAdded)
    BY <1>1 DEF u
  <2>6. ToSet(Unlink(u, AsyncAdded)) = {}
    BY <1>7, <2>2, <2>4 DEF Started
  <2> QED
    BY <2>4, <2>5, <2>6, EmptyFacts
<1>10. /\ ToSet(walk') = {} /\ ToSet(asyncHandles') = {} /\ ToSet(jobQueue') = {}
       /\ DOMAIN walk' = {} /\ DOMAIN asyncHandles' = {} /\ DOMAIN jobQueue' = {}
  BY <1>1, <1>6, <1>8, <1>9, EmptyFacts
<1>11. Started' = {} /\ Backlog' = {}
  BY <1>1, <1>10 DEF Started, Backlog
<1>12. pending' \in [Handles -> 0 .. 2] /\ pending'[AsyncAdded] = 0
  BY <1>1, <1>2
<1>13. TypeOK'
  <2>1. QueueTypeOK'
    BY <1>0, <1>1 DEF TypeOK, QueueTypeOK
  <2>2. asyncHandles' \in Seq(Handles) /\ walk' \in Seq(Handles) /\ stopped' \in BOOLEAN
    BY <1>1, <1>8, <1>9
  <2> QED
    BY <1>0, <1>1, <1>12, <2>1, <2>2 DEF TypeOK
<1>14. GameInv'
  BY <1>0, <1>1, <1>12 DEF GameInv
<1>15. LoopInv'
  BY <1>0, <1>1, <1>5, <1>6, <1>8, <1>9 DEF LoopInv, AsyncAdded
<1>16. OrderInv'
  BY <1>1, <1>10, <1>11 DEF OrderInv
<1>17. StartedInv'
  BY <1>11 DEF StartedInv
<1>18. QueuedInv'
  BY <1>0, <1>1, <1>6, <1>12 DEF QueuedInv, GameInv
<1> QED
  BY <1>5, <1>11, <1>13, <1>14, <1>15, <1>16, <1>17, <1>18 DEF IndInv

(* The invariant is about the variables only. *)
LEMMA StutterStep == IndInv /\ UNCHANGED vars => IndInv'
<1> SUFFICES ASSUME IndInv, UNCHANGED vars
             PROVE  IndInv'
  OBVIOUS
<1>1. TypeOK' /\ GameInv'
  BY DEF vars, IndInv, TypeOK, QueueTypeOK, GameInv
<1>2. Started' = Started /\ Backlog' = Backlog
  BY DEF vars, Started, Backlog
<1>3. LoopInv'
  BY <1>2 DEF vars, IndInv, LoopInv
<1>4. OrderInv'
  BY <1>2 DEF vars, IndInv, OrderInv, Running
<1>5. StartedInv'
  BY <1>2 DEF vars, IndInv, StartedInv, Running
<1>6. QueuedInv'
  BY DEF vars, IndInv, QueuedInv, Sending
<1> QED
  BY <1>1, <1>3, <1>4, <1>5, <1>6 DEF IndInv

(* Every step of either thread preserves the invariant. *)
LEMMA StepInv == IndInv /\ [Next]_vars => IndInv'
BY PostStep, EnqueueStep, SendStep, WakeStep, VisitStep, EndWalkStep, TryDequeueStep,
   DequeueOnceStep, StartJobStep, RunJobStep, RunQuitStep, StutterStep
DEF Next, Loop

(* IndInv is an invariant: no interleaving of the two threads leaves it. *)
THEOREM Invariance == Spec => []IndInv
BY InitInv, StepInv, PTL DEF Spec

(* Every variable stays in its domain; the pending word is 0, 1 or 2. *)
THEOREM TypeCorrect == Spec => []TypeOK
<1>1. IndInv => TypeOK
  BY DEF IndInv
<1> QED
  BY Invariance, <1>1, PTL

(* The second compare-and-swap of uv_async_send finds the 1 that the first one stored. *)
THEOREM SendNeverAborts == Spec => []NeverAborts
<1>1. IndInv => NeverAborts
  BY DEF IndInv, GameInv, NeverAborts
<1> QED
  BY Invariance, <1>1, PTL

(* A job that waits while the loop polls will wake it: eventfd written, or about to be. *)
THEOREM WakeUpsKept == Spec => []NoLostWakeup
<1>1. ASSUME IndInv, uPC = "poll", Backlog # {}
      PROVE  \/ eventfd \/ gPC = "write"
             \/ gPC \in {"read", "claim"} /\ pending[AsyncAdded] = 0
  <2>0. TypeOK /\ GameInv /\ LoopInv /\ StartedInv /\ QueuedInv
    BY <1>1 DEF IndInv
  <2>1. PICK j \in Backlog : TRUE
    BY <1>1
  <2>2. IsJob(j) /\ (j \in ToSet(jobQueue) \/ j \in Started)
    BY <1>1, <2>0, BacklogParts
  <2>3. walk = <<>> /\ ToSet(walk) = {}
    BY <1>1, <2>0, EmptyFacts DEF LoopInv
  <2>4. CASE j \in Started
    BY <1>1, <2>0, <2>2, <2>3, <2>4 DEF StartedInv, Running, Started
  <2>5. CASE j \in ToSet(jobQueue)
    <3>1. jobQueue # <<>>
      BY <2>5, EmptyFacts
    <3>2. Sending \/ pending[AsyncAdded] # 0
      BY <1>1, <2>0, <3>1 DEF QueuedInv
    <3>3. pending[AsyncAdded] \in 0 .. 2
      BY <2>0, Types DEF TypeOK
    <3> QED
      BY <2>0, <2>3, <3>2, <3>3 DEF QueuedInv, GameInv, Sending
  <2> QED
    BY <2>2, <2>4, <2>5
<1>2. IndInv => NoLostWakeup
  BY <1>1 DEF NoLostWakeup
<1> QED
  BY Invariance, <1>2, PTL

(* The loop that UV_Quit stopped leaves no accepted job behind. *)
THEOREM NothingLeftBehind == Spec => []StoppedEmpty
<1>1. ASSUME IndInv, uPC = "stopped"
      PROVE  Backlog = {} /\ adding = Queue!IdleProducer
  <2>0. TypeOK /\ GameInv /\ LoopInv
    BY <1>1 DEF IndInv
  <2>1. jobQueue = <<>> /\ walk = <<>> /\ asyncHandles = <<>> /\ gPC # "enqueue"
    BY <1>1, <2>0 DEF LoopInv
  <2>2. Backlog = {}
    BY <1>1, <2>1, EmptyFacts DEF Backlog
  <2> QED
    BY <2>0, <2>1, <2>2 DEF GameInv
<1>2. IndInv => StoppedEmpty
  BY <1>1 DEF StoppedEmpty
<1> QED
  BY Invariance, <1>2, PTL

-----------------------------------------------------------------------------
(* The refinement: nothing is queued at first. *)
LEMMA RelayInit == Init => Relay!Init
<1> SUFFICES ASSUME Init
             PROVE  Relay!Init
  OBVIOUS
<1>1. ToSet(jobQueue) = {} /\ ToSet(walk) = {} /\ ToSet(asyncHandles) = {AsyncAdded}
  BY EmptyFacts DEF Init, ToSet
<1>2. Backlog = {}
  BY <1>1 DEF Init, Backlog, Jobs, AsyncAdded
<1>3. adding.val = 0
  BY DEF Init, Queue!IdleProducer
<1> QED
  BY <1>2, <1>3 DEF Init, Relay!Init

(* Post begins to queue the next job. *)
LEMMA RelayPost == IndInv /\ Post => Relay!Post
<1> SUFFICES ASSUME IndInv, Post
             PROVE  Relay!Post
  OBVIOUS
<1>1. /\ adding' = [op |-> "enqueue", val |-> posted + 1, full |-> Len(jobQueue) >= 15]
      /\ jobQueue' = jobQueue /\ taken' = taken /\ posted + 1 \in Jobs
      /\ adding = Queue!IdleProducer
  BY QueueCalls
<1>2. /\ quit = 0 /\ posted' = posted + 1 /\ quit' \in {0, posted'}
      /\ UNCHANGED <<asyncHandles, walk, uPC, stopped>>
  BY DEF Post, loopVars
<1>3. Backlog' = Backlog
  BY <1>1, <1>2 DEF Backlog
<1>4. adding.val = 0 /\ adding'.val = posted'
  BY <1>1, <1>2 DEF Queue!IdleProducer
<1> QED
  BY <1>1, <1>2, <1>3, <1>4 DEF Relay!Post

(* Enqueue accepts it, or loses it. *)
LEMMA RelayAccept == IndInv /\ Enqueue => Relay!Accept
<1> SUFFICES ASSUME IndInv, Enqueue
             PROVE  Relay!Accept
  OBVIOUS
<1>1. /\ adding' = Queue!IdleProducer /\ taken' = taken
      /\ jobQueue' = jobQueue \/ jobQueue' = Append(jobQueue, posted)
      /\ posted \in Jobs /\ adding.val = posted
  BY QueueCalls
<1>2. UNCHANGED <<asyncHandles, walk, uPC, stopped, posted, quit>>
  BY DEF Enqueue, loopVars
<1>3. jobQueue \in Seq(Jobs)
  BY Types DEF IndInv
<1>4. Backlog' \in {Backlog, Backlog \cup {posted}}
  <2>1. CASE jobQueue' = jobQueue
    BY <1>1, <1>2, <2>1 DEF Backlog
  <2>2. CASE jobQueue' = Append(jobQueue, posted)
    <3>1. ToSet(jobQueue') = ToSet(jobQueue) \cup {posted}
      BY <1>1, <1>3, <2>2, AppendFacts
    <3>2. Backlog' = Backlog \cup {posted}
      BY <1>1, <1>2, <3>1 DEF Backlog
    <3> QED
      BY <3>2
  <2> QED
    BY <1>1, <2>1, <2>2
<1>5. adding.val # 0 /\ adding'.val = 0
  BY <1>1 DEF Queue!IdleProducer, Jobs
<1> QED
  BY <1>1, <1>2, <1>4, <1>5 DEF Relay!Accept

(* What the loop does between two callbacks of jobs moves them along, in order. *)
LEMMA RelayStutter ==
  IndInv /\ (Send \/ Wake \/ Visit \/ EndWalk \/ TryDequeue \/ DequeueOnce \/ StartJob)
    => UNCHANGED <<posted, adding, quit, Backlog, stopped>>
<1> SUFFICES ASSUME IndInv
             PROVE  Send \/ Wake \/ Visit \/ EndWalk \/ TryDequeue \/ DequeueOnce \/ StartJob
                      => UNCHANGED <<posted, adding, quit, Backlog, stopped>>
  OBVIOUS
<1>0. TypeOK /\ LoopInv
  BY DEF IndInv
<1>1. ASSUME Send
      PROVE  UNCHANGED <<posted, adding, quit, Backlog, stopped>>
  BY <1>1 DEF Send, SendRead, SendClaim, SendWrite, SendFinish, loopVars, queueVars, Backlog
<1>2. ASSUME Wake
      PROVE  UNCHANGED <<posted, adding, quit, Backlog, stopped>>
  <2>1. ToSet(walk) = {} /\ ToSet(asyncHandles') = {} /\ ToSet(walk') = ToSet(asyncHandles)
    BY <1>0, <1>2, EmptyFacts DEF Wake, LoopInv
  <2> QED
    BY <1>2, <2>1 DEF Wake, queueVars, gameVars, Backlog
<1>3. ASSUME Visit
      PROVE  UNCHANGED <<posted, adding, quit, Backlog, stopped>>
  <2>1. /\ Head(walk) \in Handles
        /\ ToSet(walk) = {Head(walk)} \cup ToSet(walk')
    BY <1>0, <1>3, Types, TailFacts DEF Visit
  <2>2. ToSet(asyncHandles') = ToSet(asyncHandles) \cup {Head(walk)}
    BY <1>0, <1>3, <2>1, Types, AppendFacts DEF Visit
  <2>3. uPC = "walk" /\ uPC' \in {"walk", "callback"} /\ UNCHANGED <<queueVars, gameVars, stopped>>
    BY <1>3 DEF Visit
  <2>4. Backlog' = Backlog
    BY <2>1, <2>2, <2>3 DEF queueVars, Backlog
  <2> QED
    BY <2>3, <2>4 DEF queueVars, gameVars
<1>4. ASSUME EndWalk
      PROVE  UNCHANGED <<posted, adding, quit, Backlog, stopped>>
  BY <1>4 DEF EndWalk, queueVars, gameVars, Backlog
<1>5. ASSUME TryDequeue
      PROVE  UNCHANGED <<posted, adding, quit, Backlog, stopped>>
  <2>1. jobQueue' = jobQueue /\ adding' = adding /\ taken' = taken
    BY <1>5, QueueCalls
  <2> QED
    BY <1>5, <2>1 DEF TryDequeue, gameVars, Backlog
<1>6. ASSUME DequeueOnce
      PROVE  UNCHANGED <<posted, adding, quit, Backlog, stopped>>
  <2>1. /\ uPC = "dequeue" /\ adding' = adding
        /\ UNCHANGED <<posted, quit, asyncHandles, walk, stopped>>
    BY <1>6, QueueCalls DEF DequeueOnce, gameVars
  <2>2. CASE jobQueue # <<>> /\ jobQueue' = Tail(jobQueue) /\ taken' = Head(jobQueue)
             /\ taken' \in Jobs /\ uPC' = "start"
    <3>1. ToSet(jobQueue) = {taken'} \cup ToSet(jobQueue')
      BY <1>0, <2>2, Types, TailFacts
    <3>2. Backlog' = Backlog
      BY <2>1, <2>2, <3>1 DEF Backlog
    <3> QED
      BY <2>1, <3>2
  <2>3. CASE jobQueue' = jobQueue /\ uPC' = "walk"
    BY <2>1, <2>3 DEF Backlog
  <2> QED
    BY <1>6, <2>2, <2>3, QueueCalls
<1>7. ASSUME StartJob
      PROVE  UNCHANGED <<posted, adding, quit, Backlog, stopped>>
  <2>1. taken \in Jobs /\ taken \in Handles
    BY <1>0, <1>7 DEF StartJob, LoopInv, Handles
  <2>2. ToSet(asyncHandles') = ToSet(asyncHandles) \cup {taken}
    BY <1>0, <1>7, <2>1, Types, AppendFacts DEF StartJob
  <2>3. Backlog' = Backlog
    BY <1>7, <2>1, <2>2 DEF StartJob, queueVars, Backlog
  <2> QED
    BY <1>7, <2>3 DEF StartJob, queueVars, gameVars
<1> QED
  BY <1>1, <1>2, <1>3, <1>4, <1>5, <1>6, <1>7

(* A callback of a job is the run of the oldest. *)
LEMMA RelayRun == IndInv /\ (RunJob \/ RunQuit) => Relay!Run
<1> SUFFICES ASSUME IndInv, RunJob \/ RunQuit
             PROVE  Relay!Run
  OBVIOUS
<1>0. TypeOK /\ LoopInv
  BY DEF IndInv
<1>1. /\ uPC = "callback" /\ current \in Jobs
      /\ UNCHANGED <<posted, adding, quit>>
      /\ stopped' = (current = quit)
  <2>1. CASE RunJob
    <3>1. ~ stopped
      BY <1>0, <2>1 DEF RunJob, LoopInv
    <3>2. stopped' = stopped /\ stopped \in BOOLEAN /\ current # quit
      BY <1>0, <2>1 DEF RunJob, TypeOK
    <3> QED
      BY <2>1, <3>1, <3>2 DEF RunJob, queueVars, gameVars
  <2>2. CASE RunQuit
    <3>1. current \in Handles /\ current # 0
      BY <1>0, <2>2, Types DEF RunQuit, AsyncAdded
    <3>2. current \in Jobs
      BY <1>0, <3>1, Types DEF IsJob, AsyncAdded
    <3> QED
      BY <2>2, <3>2 DEF RunQuit, queueVars, gameVars
  <2> QED
    BY <2>1, <2>2
<1>2. Backlog' = Backlog \ {current}
  BY RunJobStep, RunQuitStep
<1>3. ~ stopped
  BY <1>0, <1>1 DEF LoopInv
<1>4. current \in Backlog /\ \A k \in Backlog : current <= k
  BY <1>1, OldestRuns
<1> QED
  BY <1>1, <1>2, <1>3, <1>4 DEF Relay!Run

(* The jobs accepted are run once each, in the order they were queued, up to UV_Quit. *)
THEOREM Refinement == Spec => RelaySpec
<1>1. IndInv /\ [Next]_vars => [Relay!Next]_Relay!vars
  <2> SUFFICES ASSUME IndInv, [Next]_vars
               PROVE  [Relay!Next]_Relay!vars
    OBVIOUS
  <2>1. CASE Post \/ Enqueue \/ RunJob \/ RunQuit
    BY <2>1, RelayPost, RelayAccept, RelayRun DEF Relay!Next
  <2>2. CASE Send \/ Wake \/ Visit \/ EndWalk \/ TryDequeue \/ DequeueOnce \/ StartJob
    <3>1. UNCHANGED <<posted, adding, quit, Backlog, stopped>>
      BY <2>2, RelayStutter
    <3> QED
      BY <3>1 DEF Relay!vars
  <2>3. CASE UNCHANGED vars
    BY <2>3 DEF vars, Relay!vars, Backlog
  <2> QED
    BY <2>1, <2>2, <2>3 DEF Next, Loop
<1> QED
  BY RelayInit, Invariance, <1>1, PTL DEF Spec, RelaySpec, Relay!Spec
==============================================================================
