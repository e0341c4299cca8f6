-------------------------- MODULE AsyncSocketProofs --------------------------
(***************************************************************************)
(* Theorems about AsyncSocket, for any contexts, sockets and bounds.       *)
(*                                                                         *)
(* IndInv has nine parts.  Who runs (RunInv), that nothing refers to a     *)
(* context before it is created (BirthInv), what is known of a handle      *)
(* before it is announced (SocketInv), look-ups (ResolveInv), deletions    *)
(* (DeleteIsLast, DeleteInv) and the end (EndInv) hold whatever a plugin   *)
(* does.  OrderInv holds as long as no Connect or Listen slips past the    *)
(* guards of an earlier one, QuietInv as long as no risk is taken at all.  *)
(* AnnounceInv, about the order of announcements and data, is proved       *)
(* beside it: its steps use IndInv in both states, and IndInv needs        *)
(* nothing of it.                                                          *)
(*                                                                         *)
(* Most steps change one thing: a lemma for each kind of step (a place in  *)
(* the code, a step of the loop thread that leaves the handles, one that   *)
(* moves a handle, a connection announced, the end) says what it keeps,    *)
(* and the lemma of an action that it is a step of that kind.  What a      *)
(* freed context or handle leads to is the same for all (TouchStep): by    *)
(* QuietInv a risk was taken before.                                       *)
(***************************************************************************)
EXTENDS AsyncSocket, TLAPS

CtxRecords ==
  [life: {"none", "live", "freed"}, deleted: BOOLEAN, pending: BOOLEAN,
   pendingCallback: BOOLEAN, server: BOOLEAN,
   socket: Sockets \cup {NONE}, stream: Sockets \cup {NONE}, announced: BOOLEAN]
SockRecords ==
  [state: {"none", "open", "closing", "freed"}, data: Contexts \cup {NONE},
   use: {"idle", "connecting", "unreachable", "listening", "reading"},
   reads: 0 .. MaxReads]
Jobs     == [fn: JobFns, c: Contexts] \cup {Job("UV_Quit", NONE)}
Connects_ == [c: Contexts, s: Sockets, late: BOOLEAN]
Calls    == [fn: {"none", "OnConnect", "Connected", "OnData", "OnError"},
             c: Contexts \cup {NONE}, new: Sockets \cup {NONE}]
NativeCalls == [fn: {"none", "Connect", "Listen", "OnHandleDestroy"}, c: Contexts \cup {NONE}]
UvCalls  == [fn: {"none", "uv_getaddrinfo", "UV_PushError", "resolve_failed", "resolved",
                  "socket_set", "not_pending", "UV_OnRead"}, c: Contexts \cup {NONE}]
Modes    == {"running", "unloading", "stopping", "joined", "closing", "unloaded"} \cup Undefinedness

(* The type invariant, a variable at a time. *)
LEMMA TypeIs ==
  TypeOK <=>
    /\ ctx \in [Contexts -> CtxRecords] /\ sock \in [Sockets -> SockRecords] /\ resolver \in [Contexts -> Nat]
    /\ jobs \in Seq(Jobs) /\ connectQueue \in Seq(Connects_) /\ dataQueue \in Seq(Contexts) /\ errorQueue \in Seq(Contexts)
    /\ phase \in {"none", "connect", "data", "error"} /\ call \in Calls /\ native \in NativeCalls /\ uv \in UvCalls
    /\ mode \in Modes /\ hasty \subseteq {"close", "connect", "accept", "unload"}
BY Zenon DEF TypeOK, CtxRecords, SockRecords, Jobs, Connects_, Calls, NativeCalls, UvCalls, Modes

LEMMA TypeIsNext ==
  TypeOK' <=>
    /\ ctx' \in [Contexts -> CtxRecords] /\ sock' \in [Sockets -> SockRecords] /\ resolver' \in [Contexts -> Nat]
    /\ jobs' \in Seq(Jobs) /\ connectQueue' \in Seq(Connects_) /\ dataQueue' \in Seq(Contexts) /\ errorQueue' \in Seq(Contexts)
    /\ phase' \in {"none", "connect", "data", "error"} /\ call' \in Calls /\ native' \in NativeCalls /\ uv' \in UvCalls
    /\ mode' \in Modes /\ hasty' \subseteq {"close", "connect", "accept", "unload"}
BY Zenon DEF TypeOK, CtxRecords, SockRecords, Jobs, Connects_, Calls, NativeCalls, UvCalls, Modes

(* NULL is no context and no socket; each socket may go by a context of its own. *)
LEMMA Names ==
  /\ NONE \notin Contexts /\ NONE \notin Sockets
  /\ \A s \in Sockets : s \in Contexts
  /\ \A c \in Created : c \in Contexts
BY SocketAssumption DEF Contexts

LEMMA JobIs ==
  /\ \A j \in Jobs : \/ j.fn \in JobFns /\ j.c \in Contexts /\ j = Job(j.fn, j.c) /\ j.fn # "UV_Quit"
                     \/ j.fn = "UV_Quit" /\ j.c = NONE /\ j = Job("UV_Quit", NONE)
  /\ \A f \in JobFns, x \in Contexts : Job(f, x) \in Jobs
  /\ Job("UV_Quit", NONE) \in Jobs
  /\ \A f, x : Job(f, x).fn = f /\ Job(f, x).c = x
<1>1. \A j \in [fn: JobFns, c: Contexts] : j.fn \in JobFns /\ j.c \in Contexts /\ j = [fn |-> j.fn, c |-> j.c]
  OBVIOUS
<1>2. \A f \in JobFns : f # "UV_Quit"
  BY DEF JobFns
<1>3. \A f \in JobFns, x \in Contexts : [fn |-> f, c |-> x] \in [fn: JobFns, c: Contexts]
  OBVIOUS
<1> QED
  BY <1>1, <1>2, <1>3 DEF Jobs, Job

(* Adding to a queue, and taking from it. *)
LEMMA Pushed ==
  ASSUME NEW S, NEW q \in Seq(S), NEW x \in S
  PROVE  /\ Append(q, x) \in Seq(S) /\ Len(Append(q, x)) = Len(q) + 1 /\ Append(q, x)[Len(q) + 1] = x /\ Len(q) \in Nat
         /\ \A i \in DOMAIN q : i \in DOMAIN Append(q, x) /\ Append(q, x)[i] = q[i] /\ i <= Len(q) /\ i \in Nat
         /\ \A i \in DOMAIN Append(q, x) : i = Len(q) + 1 \/ (i \in DOMAIN q /\ Append(q, x)[i] = q[i])
         /\ Len(q) + 1 \in DOMAIN Append(q, x)
OBVIOUS

LEMMA Popped ==
  ASSUME NEW S, NEW q \in Seq(S), q # <<>>
  PROVE  /\ Tail(q) \in Seq(S) /\ Len(Tail(q)) = Len(q) - 1 /\ Head(q) \in S /\ Head(q) = q[1] /\ 1 \in DOMAIN q
         /\ \A i \in DOMAIN Tail(q) : i + 1 \in DOMAIN q /\ Tail(q)[i] = q[i + 1] /\ i \in Nat
         /\ \A i \in DOMAIN q : i = 1 \/ (i - 1 \in DOMAIN Tail(q) /\ Tail(q)[i - 1] = q[i])
OBVIOUS

(* What the queues hold. *)
LEMMA Elements ==
  ASSUME TypeOK
  PROVE  /\ \A i \in DOMAIN jobs : jobs[i] \in Jobs /\ i \in Nat
         /\ \A i \in DOMAIN connectQueue :
              connectQueue[i].c \in Contexts /\ connectQueue[i].s \in Sockets /\ i \in Nat
         /\ \A i \in DOMAIN dataQueue : dataQueue[i] \in Contexts /\ i \in Nat
         /\ \A i \in DOMAIN errorQueue : errorQueue[i] \in Contexts /\ i \in Nat
<1>1. \A S : \A q \in Seq(S) : \A i \in DOMAIN q : q[i] \in S /\ i \in Nat
  OBVIOUS
<1>2. \A r \in Connects_ : r.c \in Contexts /\ r.s \in Sockets
  BY DEF Connects_
<1> QED
  BY <1>1, <1>2, TypeIs

(* Who runs has something to run for. *)
LEMMA Running ==
  ASSUME RunInv
  PROVE  /\ uv.fn # "none" => uv.c \in Contexts
         /\ native.fn # "none" => native.c \in Contexts /\ mode = "running"
         /\ uv.fn = "none" => uv = NoUv
         /\ native.fn = "none" => native = NoNative
         /\ call.fn = "none" => call = NoCall
         /\ NoUv.fn = "none" /\ NoUv.c = NONE /\ NoNative.fn = "none" /\ NoNative.c = NONE
         /\ NoCall.fn = "none" /\ NoCall.c = NONE /\ NoCall.new = NONE
BY DEF RunInv, NoUv, NoNative, NoCall

(* A context keeps its state, but for m_PendingCallback, which nothing below is about. *)
Same(x) ==
  /\ ctx'[x].life = ctx[x].life /\ (ctx'[x].deleted <=> ctx[x].deleted)
  /\ (ctx'[x].pending <=> ctx[x].pending) /\ (ctx'[x].server <=> ctx[x].server)
  /\ ctx'[x].socket = ctx[x].socket /\ ctx'[x].stream = ctx[x].stream

SameSock(s) == sock'[s].state = sock[s].state /\ sock'[s].data = sock[s].data /\ sock'[s].use = sock[s].use

(* Where no risk was taken, what is in flight is for a context that is there. *)
LEMMA Alive ==
  ASSUME IndInv, hasty = {}, NEW c \in Contexts
  PROVE  /\ InFlight(c) => ctx[c].life = "live" /\ ~ ctx[c].deleted
         /\ HasJob(c) => ctx[c].life = "live"
<1>1. TypeOK /\ BirthInv /\ QuietInv
  BY DEF IndInv
<1>2. ctx[c].life \in {"none", "live", "freed"}
  BY <1>1, TypeIs DEF CtxRecords
<1> QED
  BY <1>1, <1>2 DEF BirthInv, QuietInv

(* What undefined behaviour leaves. *)
LEMMA UndefinedStep ==
  ASSUME IndInv, NEW what \in Undefinedness, Undefined(what), hasty # {}
  PROVE  IndInv'
<1>1. TypeOK /\ RunInv /\ BirthInv /\ SocketInv /\ ResolveInv /\ DeleteIsLast /\ DeleteInv /\ EndInv
  BY DEF IndInv
<1>2. /\ ctx' = ctx /\ sock' = sock /\ resolver' = resolver /\ jobs' = jobs /\ connectQueue' = connectQueue
      /\ dataQueue' = dataQueue /\ errorQueue' = errorQueue /\ hasty' = hasty
      /\ mode' = what /\ uv' = NoUv /\ native' = NoNative /\ call' = NoCall /\ phase' = "none"
  BY DEF Undefined, queues
<1>3. TypeOK'
  <2>1. NoCall \in Calls /\ NoNative \in NativeCalls /\ NoUv \in UvCalls /\ what \in Modes
    BY DEF NoCall, NoNative, NoUv, Calls, NativeCalls, UvCalls, Modes
  <2> QED
    BY <1>1, <1>2, <2>1, TypeIs, TypeIsNext
<1>4. RunInv'
  BY <1>2 DEF RunInv
<1>5. BirthInv'
  <2>1. \A x \in Contexts : (InFlight(x)' => InFlight(x)) /\ (HasJob(x)' <=> HasJob(x)) /\ NoNative.c # x
    BY <1>2, Names DEF InFlight, HasJob, NoUv, NoCall, NoNative
  <2> QED
    BY <1>1, <1>2, <2>1 DEF BirthInv
<1>6. SocketInv'
  <2>1. ~ Starting' /\ \A s : Fresh(s)' <=> Fresh(s)
    BY <1>2 DEF Starting, NoUv, Fresh
  <2> QED
    BY <1>1, <1>2, <2>1 DEF SocketInv
<1>7. ResolveInv'
  BY <1>1, <1>2, Names DEF ResolveInv, Resolving, NoUv
<1>8. DeleteIsLast'
  BY <1>1, <1>2 DEF DeleteIsLast
<1>9. DeleteInv'
  BY <1>2 DEF DeleteInv, NoNative
<1>10. EndInv'
  BY <1>2 DEF EndInv, Undefinedness, Ended
<1>11. OrderInv => OrderInv'
  <2>1. \A i \in DOMAIN jobs : jobs[i].fn = "UV_StartRead" => jobs[i].c \in Contexts
    BY <1>1, TypeIs DEF Jobs, Job
  <2>2. NoCall.fn # "OnConnect" /\ NoCall.new \notin Contexts
    BY Names DEF NoCall
  <2> QED
    BY <1>2, <2>1, <2>2 DEF OrderInv
<1> QED
  BY <1>2, <1>3, <1>4, <1>5, <1>6, <1>7, <1>8, <1>9, <1>10, <1>11 DEF IndInv

LEMMA InitInv == Init => IndInv
<1> SUFFICES ASSUME Init
             PROVE  IndInv
  OBVIOUS
<1>1. /\ jobs = <<>> /\ connectQueue = <<>> /\ dataQueue = <<>> /\ errorQueue = <<>> /\ DOMAIN <<>> = {}
      /\ phase = "none" /\ mode = "running" /\ hasty = {}
      /\ call.fn = "none" /\ call.new = NONE /\ native.c = NONE /\ uv.fn = "none" /\ uv.c = NONE /\ native.fn = "none"
      /\ call = NoCall /\ native = NoNative /\ uv = NoUv
  BY DEF Init, NoCall, NoNative, NoUv
<1>2. \A c \in Contexts : /\ ctx[c].life = "none" /\ ~ ctx[c].deleted /\ ~ ctx[c].pending
                          /\ ctx[c].socket = NONE /\ ctx[c].stream = NONE /\ resolver[c] = 0
  BY DEF Init, NewContext
<1>3. \A s \in Sockets : sock[s].state = "none" /\ sock[s].data = NONE /\ sock[s].use = "idle"
  BY DEF Init
<1>4. \A c \in Contexts : ~ InFlight(c) /\ ~ HasJob(c)
  BY <1>1, <1>2, <1>3, Names DEF InFlight, HasJob
<1>5. TypeOK
  <2>1. ctx \in [Contexts -> CtxRecords] /\ sock \in [Sockets -> SockRecords] /\ resolver \in [Contexts -> Nat]
    <3>1. [NewContext EXCEPT !.life = "none"] \in CtxRecords
      BY DEF NewContext, CtxRecords
    <3>2. [state |-> "none", data |-> NONE, use |-> "idle", reads |-> 0] \in SockRecords
      BY SocketAssumption DEF SockRecords
    <3> QED
      BY <3>1, <3>2 DEF Init
  <2>2. call \in Calls /\ native \in NativeCalls /\ uv \in UvCalls /\ mode \in Modes
    BY <1>1 DEF NoCall, NoNative, NoUv, Calls, NativeCalls, UvCalls, Modes
  <2> QED
    BY <1>1, <2>1, <2>2, TypeIs
<1>6. RunInv /\ DeleteInv /\ EndInv
  BY <1>1, <1>2 DEF RunInv, DeleteInv, EndInv, Ended, Undefinedness
<1>7. BirthInv
  BY <1>1, <1>2, <1>3, <1>4, Names DEF BirthInv
<1>8. SocketInv
  <2>1. ~ Starting /\ \A s \in Sockets : Fresh(s)
    BY <1>1, <1>2, Names DEF Starting, Fresh
  <2> QED
    BY <1>1, <1>2, <1>3, <2>1, Names DEF SocketInv
<1>9. ResolveInv /\ DeleteIsLast
  BY <1>1, <1>2 DEF ResolveInv, DeleteIsLast, Resolving
<1>10. OrderInv
  BY <1>1, <1>2, <1>3, Names DEF OrderInv
<1>11. QuietInv
  BY <1>1, <1>2, <1>3, <1>4, Names DEF QuietInv, Undefinedness
<1> QED
  BY <1>5, <1>6, <1>7, <1>8, <1>9, <1>10, <1>11 DEF IndInv
-----------------------------------------------------------------------------
(* What is left of a queue: all of it, or what follows its first elements. *)
Remains(new, old) ==
  \E k \in Nat : \A i \in DOMAIN new : i \in Nat /\ i + k \in DOMAIN old /\ new[i] = old[i + k]

LEMMA RemainsIs ==
  ASSUME NEW S, NEW q \in Seq(S)
  PROVE  Remains(q, q) /\ (q # <<>> => Remains(Tail(q), q))
<1>1. Remains(q, q)
  <2>1. \A i \in DOMAIN q : i \in Nat /\ i + 0 \in DOMAIN q /\ q[i] = q[i + 0]
    OBVIOUS
  <2> QED
    BY <2>1 DEF Remains
<1>2. ASSUME q # <<>>
      PROVE  Remains(Tail(q), q)
  BY <1>2, Popped DEF Remains
<1> QED
  BY <1>1, <1>2

(* The first job is taken. *)
LEMMA Tailed ==
  ASSUME TypeOK, jobs # <<>>, jobs' = Tail(jobs)
  PROVE  /\ jobs' \in Seq(Jobs) /\ Remains(jobs', jobs) /\ Head(jobs) \in Jobs /\ 1 \in DOMAIN jobs /\ jobs[1] = Head(jobs)
         /\ \A x : HasJob(x)' => HasJob(x)
         /\ \A x : Deletes(x)' => Deletes(x)
         /\ \A x : Deletes(x) => Deletes(x)' \/ Head(jobs) = Job("UV_DeleteAsyncContext", x)
         /\ \A i \in DOMAIN jobs' : i \in Nat /\ i + 1 \in DOMAIN jobs /\ jobs'[i] = jobs[i + 1]
         /\ \A i \in DOMAIN jobs : i = 1 \/ (i - 1 \in DOMAIN jobs' /\ jobs'[i - 1] = jobs[i])
         /\ Len(jobs') = Len(jobs) - 1
<1>1. jobs \in Seq(Jobs)
  BY TypeIs
<1>2. /\ Tail(jobs) \in Seq(Jobs) /\ Len(Tail(jobs)) = Len(jobs) - 1 /\ Head(jobs) \in Jobs /\ Head(jobs) = jobs[1] /\ 1 \in DOMAIN jobs
      /\ \A i \in DOMAIN Tail(jobs) : i + 1 \in DOMAIN jobs /\ Tail(jobs)[i] = jobs[i + 1] /\ i \in Nat
      /\ \A i \in DOMAIN jobs : i = 1 \/ (i - 1 \in DOMAIN Tail(jobs) /\ Tail(jobs)[i - 1] = jobs[i])
  BY <1>1, Popped
<1>3. Remains(jobs', jobs)
  BY <1>1, RemainsIs
<1>4. \A x : (HasJob(x)' => HasJob(x)) /\ (Deletes(x)' => Deletes(x))
  BY <1>2 DEF HasJob, Deletes
<1>5. \A x : Deletes(x) => Deletes(x)' \/ Head(jobs) = Job("UV_DeleteAsyncContext", x)
  BY <1>2 DEF Deletes
<1> QED
  BY <1>2, <1>3, <1>4, <1>5

(* A job is added. *)
LEMMA Appended ==
  ASSUME TypeOK, NEW j \in Jobs, jobs' = Append(jobs, j)
  PROVE  /\ jobs' \in Seq(Jobs)
         /\ \A x : HasJob(x)' => HasJob(x) \/ j.c = x
         /\ \A x : Deletes(x)' => Deletes(x) \/ j = Job("UV_DeleteAsyncContext", x)
         /\ \A x : Deletes(x) \/ j = Job("UV_DeleteAsyncContext", x) => Deletes(x)'
         /\ \A i \in DOMAIN jobs : i \in Nat /\ i <= Len(jobs) /\ i \in DOMAIN jobs' /\ jobs'[i] = jobs[i]
         /\ \A i \in DOMAIN jobs' : i \in Nat /\ ((i = Len(jobs) + 1 /\ jobs'[i] = j) \/ (i \in DOMAIN jobs /\ jobs'[i] = jobs[i]))
         /\ Len(jobs') = Len(jobs) + 1 /\ Len(jobs) \in Nat /\ Len(jobs) + 1 \in DOMAIN jobs' /\ jobs'[Len(jobs) + 1] = j
<1>1. jobs \in Seq(Jobs)
  BY TypeIs
<1>2. /\ jobs' \in Seq(Jobs) /\ Len(jobs') = Len(jobs) + 1 /\ jobs'[Len(jobs) + 1] = j /\ Len(jobs) \in Nat
      /\ \A i \in DOMAIN jobs : i \in DOMAIN jobs' /\ jobs'[i] = jobs[i] /\ i <= Len(jobs) /\ i \in Nat
      /\ \A i \in DOMAIN jobs' : i = Len(jobs) + 1 \/ (i \in DOMAIN jobs /\ jobs'[i] = jobs[i])
      /\ Len(jobs) + 1 \in DOMAIN jobs'
  BY <1>1, Pushed
<1>3. \A x : HasJob(x)' => HasJob(x) \/ j.c = x
  BY <1>2 DEF HasJob
<1>4. \A x : Deletes(x)' => Deletes(x) \/ j = Job("UV_DeleteAsyncContext", x)
  BY <1>2 DEF Deletes
<1>5. \A x : Deletes(x) \/ j = Job("UV_DeleteAsyncContext", x) => Deletes(x)'
  BY <1>2 DEF Deletes
<1>6. \A i \in DOMAIN jobs' : i \in Nat
  BY <1>2
<1> QED
  BY <1>2, <1>3, <1>4, <1>5, <1>6

(* Who is resolved stays who is resolved, if no such job is added. *)
LEMMA ResolveKept ==
  ASSUME ResolveInv, Remains(jobs', jobs), resolver' = resolver,
         \A x \in Contexts : (InFlight(x) /\ ctx[x].pending => ctx'[x].pending) /\ (Resolving(x)' => Resolving(x))
  PROVE  ResolveInv'
<1>1. PICK k \in Nat : \A i \in DOMAIN jobs' : i \in Nat /\ i + k \in DOMAIN jobs /\ jobs'[i] = jobs[i + k]
  BY DEF Remains
<1>2. \A i, j \in Nat : i + k = j + k => i = j
  OBVIOUS
<1> SUFFICES ASSUME NEW x \in Contexts
             PROVE  /\ \A i, j \in DOMAIN jobs' :
                         jobs'[i] = Job("UV_OnAsyncResolve", x) /\ jobs'[j] = Job("UV_OnAsyncResolve", x) => i = j
                    /\ \A i \in DOMAIN jobs' : jobs'[i] = Job("UV_OnAsyncResolve", x) =>
                         ctx'[x].pending /\ resolver'[x] = 0 /\ ~ Resolving(x)'
                    /\ resolver'[x] > 0 => resolver'[x] = 1 /\ ctx'[x].pending /\ ~ Resolving(x)'
                    /\ Resolving(x)' => ctx'[x].pending
  BY DEF ResolveInv
<1>3. /\ \A i, j \in DOMAIN jobs :
           jobs[i] = Job("UV_OnAsyncResolve", x) /\ jobs[j] = Job("UV_OnAsyncResolve", x) => i = j
      /\ \A i \in DOMAIN jobs : jobs[i] = Job("UV_OnAsyncResolve", x) =>
           ctx[x].pending /\ resolver[x] = 0 /\ ~ Resolving(x)
      /\ resolver[x] > 0 => resolver[x] = 1 /\ ctx[x].pending /\ ~ Resolving(x)
      /\ Resolving(x) => ctx[x].pending
      /\ (\E i \in DOMAIN jobs : jobs[i] = Job("UV_OnAsyncResolve", x)) \/ resolver[x] > 0 \/ Resolving(x) => InFlight(x)
  BY DEF ResolveInv, InFlight, Resolving
<1>4. \A i, j \in DOMAIN jobs' :
        jobs'[i] = Job("UV_OnAsyncResolve", x) /\ jobs'[j] = Job("UV_OnAsyncResolve", x) => i = j
  BY <1>1, <1>2, <1>3
<1>5. \A i \in DOMAIN jobs' : jobs'[i] = Job("UV_OnAsyncResolve", x) => ctx'[x].pending /\ resolver'[x] = 0 /\ ~ Resolving(x)'
  BY <1>1, <1>3
<1> QED
  BY <1>3, <1>4, <1>5

LEMMA ResolveAppend ==
  ASSUME TypeOK, ResolveInv, NEW j \in Jobs, jobs' = Append(jobs, j), j.fn # "UV_OnAsyncResolve", resolver' = resolver,
         \A x \in Contexts : (InFlight(x) /\ ctx[x].pending => ctx'[x].pending) /\ (Resolving(x)' => Resolving(x))
  PROVE  ResolveInv'
<1>1. /\ \A i \in DOMAIN jobs' : (i = Len(jobs) + 1 /\ jobs'[i] = j) \/ (i \in DOMAIN jobs /\ jobs'[i] = jobs[i])
  BY Appended
<1>2. \A x \in Contexts : j # Job("UV_OnAsyncResolve", x)
  BY DEF Job
<1>3. \A x \in Contexts : \A i \in DOMAIN jobs' :
        jobs'[i] = Job("UV_OnAsyncResolve", x) => i \in DOMAIN jobs /\ jobs[i] = Job("UV_OnAsyncResolve", x)
  BY <1>1, <1>2
<1>4. \A x \in Contexts :
        (\E i \in DOMAIN jobs : jobs[i] = Job("UV_OnAsyncResolve", x)) \/ resolver[x] > 0 \/ Resolving(x) => InFlight(x)
  BY DEF InFlight, Resolving
<1> QED
  BY <1>3, <1>4 DEF ResolveInv

(* The deletion of a context stays its last job. *)
LEMMA LastKept ==
  ASSUME TypeOK, jobs' \in Seq(Jobs), DeleteIsLast, Remains(jobs', jobs),
         \A x \in Contexts : ctx[x].life = "live" /\ ctx[x].deleted /\ Deletes(x)' => ctx'[x].life = "live" /\ ctx'[x].deleted
  PROVE  DeleteIsLast'
<1>0. jobs \in Seq(Jobs)
  BY TypeIs
<1>1. PICK k \in Nat : \A i \in DOMAIN jobs' : i \in Nat /\ i + k \in DOMAIN jobs /\ jobs'[i] = jobs[i + k]
  BY DEF Remains
<1> SUFFICES ASSUME NEW i \in DOMAIN jobs', jobs'[i].fn = "UV_DeleteAsyncContext"
             PROVE  /\ ctx'[jobs'[i].c].life = "live" /\ ctx'[jobs'[i].c].deleted
                    /\ \A n \in i + 1 .. Len(jobs') : jobs'[n].c # jobs'[i].c
  BY DEF DeleteIsLast
<1>2. i \in Nat /\ i + k \in DOMAIN jobs /\ jobs'[i] = jobs[i + k] /\ jobs[i + k] \in Jobs
  BY <1>0, <1>1
<1>3. /\ ctx[jobs'[i].c].life = "live" /\ ctx[jobs'[i].c].deleted
      /\ \A n \in i + k + 1 .. Len(jobs) : jobs[n].c # jobs'[i].c
  BY <1>2 DEF DeleteIsLast
<1>4. jobs'[i].c \in Contexts /\ jobs'[i] = Job("UV_DeleteAsyncContext", jobs'[i].c)
  BY <1>2, JobIs
<1>5. \A x \in Contexts : jobs'[i].c = x => Deletes(x)'
  BY <1>4 DEF Deletes
<1>6. ASSUME NEW n \in i + 1 .. Len(jobs')
      PROVE  jobs'[n].c # jobs'[i].c
  <2>1. n \in DOMAIN jobs' /\ n \in Nat
    BY <1>2
  <2>2. n + k \in DOMAIN jobs /\ jobs'[n] = jobs[n + k] /\ n >= i + 1
    BY <1>1, <2>1
  <2>3. n + k \in i + k + 1 .. Len(jobs)
    BY <1>0, <1>2, <2>1, <2>2
  <2> QED
    BY <1>3, <2>2, <2>3
<1> QED
  BY <1>3, <1>4, <1>5, <1>6

LEMMA LastAppend ==
  ASSUME TypeOK, DeleteIsLast, NEW j \in Jobs, jobs' = Append(jobs, j), ~ Deletes(j.c),
         j.fn = "UV_DeleteAsyncContext" => ctx'[j.c].life = "live" /\ ctx'[j.c].deleted,
         \A x \in Contexts : ctx[x].life = "live" /\ ctx[x].deleted /\ Deletes(x) => ctx'[x].life = "live" /\ ctx'[x].deleted
  PROVE  DeleteIsLast'
<1>0. jobs \in Seq(Jobs)
  BY TypeIs
<1>1. /\ \A i \in DOMAIN jobs' : i \in Nat /\ ((i = Len(jobs) + 1 /\ jobs'[i] = j) \/ (i \in DOMAIN jobs /\ jobs'[i] = jobs[i]))
      /\ Len(jobs') = Len(jobs) + 1 /\ Len(jobs) \in Nat /\ jobs' \in Seq(Jobs)
  BY Appended
<1> SUFFICES ASSUME NEW i \in DOMAIN jobs', jobs'[i].fn = "UV_DeleteAsyncContext"
             PROVE  /\ ctx'[jobs'[i].c].life = "live" /\ ctx'[jobs'[i].c].deleted
                    /\ \A n \in i + 1 .. Len(jobs') : jobs'[n].c # jobs'[i].c
  BY DEF DeleteIsLast
<1>2. CASE i = Len(jobs) + 1 /\ jobs'[i] = j
  <2>1. \A n : n \notin i + 1 .. Len(jobs')
    BY <1>1, <1>2
  <2> QED
    BY <1>2, <2>1
<1>3. CASE i \in DOMAIN jobs /\ jobs'[i] = jobs[i]
  <2>1. /\ ctx[jobs'[i].c].life = "live" /\ ctx[jobs'[i].c].deleted
        /\ \A n \in i + 1 .. Len(jobs) : jobs[n].c # jobs'[i].c
    BY <1>3 DEF DeleteIsLast
  <2>2. jobs'[i].c \in Contexts /\ jobs'[i] = Job("UV_DeleteAsyncContext", jobs'[i].c)
    <3>1. jobs[i] \in Jobs
      BY <1>0, <1>3
    <3> QED
      BY <1>3, <3>1, JobIs
  <2>3. Deletes(jobs'[i].c)
    BY <1>3, <2>2 DEF Deletes
  <2>4. j.c # jobs'[i].c
    BY <2>3
  <2>5. ASSUME NEW n \in i + 1 .. Len(jobs')
        PROVE  jobs'[n].c # jobs'[i].c
    <3>1. n \in DOMAIN jobs' /\ (n = Len(jobs) + 1 \/ n \in i + 1 .. Len(jobs))
      BY <1>1
    <3>2. (n = Len(jobs) + 1 /\ jobs'[n] = j) \/ (n \in DOMAIN jobs /\ jobs'[n] = jobs[n])
      BY <1>1, <3>1
    <3>3. n \in DOMAIN jobs => n # Len(jobs) + 1
      BY <1>0, <1>1
    <3> QED
      BY <2>1, <2>4, <3>1, <3>2, <3>3
  <2> QED
    BY <2>1, <2>2, <2>3, <2>5
<1> QED
  BY <1>1, <1>2, <1>3
-----------------------------------------------------------------------------
(* The game thread: steps that change nothing but where it is. *)
LEMMA PlaceStep ==
  ASSUME IndInv, UNCHANGED <<ctx, sock, resolver, jobs, queues, call, uv, mode, hasty>>,
         phase' \in {"none", "connect", "data", "error"}, native' \in NativeCalls, RunInv', DeleteInv',
         \A x \in Contexts : native'.c = x => ctx[x].life # "none"
  PROVE  IndInv'
<1>1. /\ ctx' = ctx /\ sock' = sock /\ resolver' = resolver /\ jobs' = jobs /\ connectQueue' = connectQueue
      /\ dataQueue' = dataQueue /\ errorQueue' = errorQueue /\ call' = call /\ uv' = uv /\ mode' = mode /\ hasty' = hasty
  BY DEF queues
<1>2. TypeOK /\ BirthInv /\ SocketInv /\ ResolveInv /\ DeleteIsLast /\ EndInv
  BY DEF IndInv
<1>3. TypeOK'
  BY <1>1, <1>2, TypeIs, TypeIsNext
<1>4. \A x : (InFlight(x)' <=> InFlight(x)) /\ (HasJob(x)' <=> HasJob(x)) /\ (Resolving(x)' <=> Resolving(x))
  BY <1>1 DEF InFlight, HasJob, Resolving
<1>5. BirthInv'
  BY <1>1, <1>2, <1>4 DEF BirthInv
<1>6. SocketInv' /\ ResolveInv' /\ DeleteIsLast' /\ EndInv'
  <2>1. (Starting' <=> Starting) /\ \A s : Fresh(s)' <=> Fresh(s)
    BY <1>1 DEF Starting, Fresh
  <2>2. SocketInv'
    BY <1>1, <1>2, <2>1 DEF SocketInv
  <2>3. ResolveInv' /\ DeleteIsLast'
    BY <1>1, <1>2, <1>4 DEF ResolveInv, DeleteIsLast
  <2>4. EndInv'
    BY <1>1, <1>2 DEF EndInv, Valid, NoneClosing
  <2> QED
    BY <2>2, <2>3, <2>4
<1>7. "connect" \notin hasty' => OrderInv'
  BY <1>1 DEF OrderInv, IndInv
<1>8. hasty' = {} => QuietInv'
  <2> SUFFICES ASSUME hasty = {}
               PROVE  QuietInv'
    BY <1>1
  <2>1. QuietInv
    BY DEF IndInv
  <2> QED
    BY <1>1, <1>4, <2>1 DEF QuietInv
<1> QED
  BY <1>3, <1>5, <1>6, <1>7, <1>8 DEF IndInv

(* A frame begins, and its loops end. *)
LEMMA FrameStep_ ==
  ASSUME IndInv, BeginFrame \/ EndConnects \/ EndData \/ EndFrame
  PROVE  IndInv'
<1>1. TypeOK /\ RunInv /\ BirthInv /\ DeleteInv
  BY DEF IndInv
<1>2. /\ UNCHANGED <<ctx, sock, resolver, jobs, queues, call, uv, mode, hasty>> /\ native' = native /\ native = NoNative
      /\ phase' \in {"none", "connect", "data", "error"}
      /\ phase' = "none" => call = NoCall
      /\ phase' # "none" => mode = "running"
  BY <1>1 DEF BeginFrame, EndConnects, EndData, EndFrame, InPhase, RunInv
<1>3. ctx' = ctx /\ jobs' = jobs /\ call' = call /\ uv' = uv /\ mode' = mode
  BY <1>2
<1>4. RunInv'
  BY <1>1, <1>2, <1>3 DEF RunInv
<1>5. DeleteInv'
  BY <1>1, <1>2, <1>3 DEF DeleteInv, Valid, Deletes
<1>6. native' \in NativeCalls
  BY <1>1, <1>2, TypeIs
<1> QED
  BY <1>1, <1>2, <1>4, <1>5, <1>6, PlaceStep DEF BirthInv

(* Connect and Listen pass their first test. *)
LEMMA OpenCallStep ==
  ASSUME IndInv, NEW fn \in {"Connect", "Listen"}, NEW c \in Contexts, OpenCall(fn, c)
  PROVE  IndInv'
<1>1. TypeOK /\ RunInv /\ DeleteInv
  BY DEF IndInv
<1>2. /\ UNCHANGED <<ctx, sock, resolver, jobs, queues, call, uv, mode, hasty>>
      /\ ctx' = ctx /\ jobs' = jobs /\ call' = call /\ uv' = uv /\ mode' = mode /\ phase' = phase
      /\ native' = [fn |-> fn, c |-> c] /\ mode = "running" /\ native = NoNative /\ Valid(c)
  BY DEF OpenCall, PluginRuns, queues
<1>3. native' \in NativeCalls /\ native'.fn = fn /\ native'.c = c /\ fn # "none" /\ fn # "OnHandleDestroy" /\ native.fn = "none"
  BY <1>2 DEF NativeCalls, NoNative
<1>4. RunInv'
  BY <1>1, <1>2, <1>3 DEF RunInv
<1>5. DeleteInv'
  <2>1. (Valid(c))' /\ \A x : Deletes(x)' <=> Deletes(x)
    BY <1>2 DEF Valid, Deletes
  <2>2. Valid(native.c)'
    BY <1>2, <1>3, <2>1 DEF Valid
  <2> QED
    BY <1>1, <1>2, <1>3, <2>1, <2>2 DEF DeleteInv
<1>6. \A x \in Contexts : native'.c = x => ctx[x].life # "none"
  BY <1>2, <1>3 DEF Valid
<1>7. phase' \in {"none", "connect", "data", "error"}
  BY <1>1, <1>2, TypeIs
<1> QED
  BY <1>2, <1>3, <1>4, <1>5, <1>6, <1>7, PlaceStep
-----------------------------------------------------------------------------
(* A handle is as it was, but that it may have been closed, or made and closed at once. *)
Stays(s) ==
  /\ sock'[s].data = sock[s].data /\ sock'[s].use = sock[s].use
  /\ sock'[s].state = sock[s].state \/ (sock[s].state \in {"none", "open"} /\ sock'[s].state = "closing")

(* The sockets keep their places, and no more is known of them. *)
LEMMA SocketStays ==
  ASSUME TypeOK, SocketInv, Remains(connectQueue', connectQueue),
         \A s \in Sockets : Stays(s) /\ (ctx[s].life = "none" => ctx'[s].life = "none"),
         \A x \in Contexts : ctx'[x].stream \in {ctx[x].stream, NONE} /\ ctx'[x].socket \in {ctx[x].socket, NONE},
         Starting' => /\ Starting /\ uv'.c = uv.c /\ ctx'[uv.c].socket = ctx[uv.c].socket
                      /\ \A s \in Sockets : sock'[s].state = sock[s].state
  PROVE  SocketInv'
<1>1. PICK k \in Nat : \A i \in DOMAIN connectQueue' :
        i \in Nat /\ i + k \in DOMAIN connectQueue /\ connectQueue'[i] = connectQueue[i + k]
  BY DEF Remains
<1>2. \A i, j \in Nat : i + k = j + k => i = j
  OBVIOUS
<1>3. \A s \in Sockets : Fresh(s) => Fresh(s)'
  BY <1>1, Names DEF Fresh
<1>4. \A s \in Sockets : /\ sock'[s].data = sock[s].data /\ sock'[s].use = sock[s].use
                         /\ sock'[s].state = "none" => sock[s].state = "none"
  BY DEF Stays
<1>5. ASSUME NEW s \in Sockets
      PROVE  /\ sock'[s].use \notin {"idle"} => sock'[s].data \in Contexts
             /\ sock'[s].state = "none" =>
                  /\ sock'[s].data = NONE /\ sock'[s].use = "idle" /\ Fresh(s)'
                  /\ \A c \in Contexts : ctx'[c].socket # s
             /\ sock'[s].use = "connecting" => Fresh(s)'
  BY <1>3, <1>4, Names DEF SocketInv
<1>6. Starting' => \E s \in Sockets :
        ctx'[uv'.c].socket = s /\ sock'[s].state = "open" /\ sock'[s].use = "idle" /\ sock'[s].data = uv'.c /\ Fresh(s)'
  BY <1>3, <1>4 DEF SocketInv
<1>7. \A c \in Contexts : \A s \in Sockets : ctx'[c].stream = s \/ ctx'[c].socket = s => sock'[s].data \in Contexts
  BY <1>4, Names DEF SocketInv
<1>0. \A j \in DOMAIN connectQueue : connectQueue[j].s \in Sockets
  BY Elements
<1>8. ASSUME NEW i \in DOMAIN connectQueue'
      PROVE  /\ ctx'[connectQueue'[i].s].life = "none" /\ sock'[connectQueue'[i].s].state # "none"
             /\ \A j \in DOMAIN connectQueue' : connectQueue'[i].s = connectQueue'[j].s => i = j
  <2>1. i + k \in DOMAIN connectQueue /\ connectQueue'[i] = connectQueue[i + k] /\ i \in Nat
    BY <1>1
  <2>2. ctx[connectQueue[i + k].s].life = "none" /\ sock[connectQueue[i + k].s].state # "none"
    BY <2>1 DEF SocketInv
  <2>3. \A j \in DOMAIN connectQueue : connectQueue[i + k].s = connectQueue[j].s => i + k = j
    BY <2>1 DEF SocketInv
  <2> QED
    BY <1>0, <1>1, <1>2, <1>4, <2>1, <2>2, <2>3
<1> QED
  BY <1>5, <1>6, <1>7, <1>8 DEF SocketInv

LEMMA SocketKept ==
  ASSUME TypeOK, SocketInv, Remains(connectQueue', connectQueue),
         \A s \in Sockets : SameSock(s) /\ (ctx[s].life = "none" => ctx'[s].life = "none"),
         \A x \in Contexts : ctx'[x].stream \in {ctx[x].stream, NONE} /\ ctx'[x].socket \in {ctx[x].socket, NONE},
         Starting' => Starting /\ uv'.c = uv.c /\ ctx'[uv.c].socket = ctx[uv.c].socket
  PROVE  SocketInv'
<1>1. \A s \in Sockets : Stays(s) /\ sock'[s].state = sock[s].state
  BY DEF SameSock, Stays
<1> QED
  BY <1>1, SocketStays

LEMMA EndRunning ==
  ASSUME mode' = "running", \A i \in DOMAIN jobs' : jobs'[i].fn # "UV_Quit"
  PROVE  EndInv'
BY DEF EndInv, Ended

(* A context is created. *)
LEMMA CreateStep ==
  ASSUME IndInv, NEW c \in Created, Create(c)
  PROVE  IndInv'
<1>1. TypeOK /\ RunInv /\ BirthInv /\ SocketInv /\ ResolveInv /\ DeleteIsLast /\ DeleteInv /\ EndInv
  BY DEF IndInv
<1>2. /\ ctx' = [ctx EXCEPT ![c] = NewContext] /\ ctx[c].life = "none" /\ mode = "running" /\ native = NoNative
      /\ sock' = sock /\ resolver' = resolver /\ jobs' = jobs /\ connectQueue' = connectQueue
      /\ dataQueue' = dataQueue /\ errorQueue' = errorQueue /\ call' = call /\ uv' = uv /\ mode' = mode /\ hasty' = hasty
      /\ phase' = phase /\ native' = native /\ c \in Contexts /\ c \notin Sockets
  BY SocketAssumption, Names DEF Create, PluginRuns, queues, game
<1>3. NewContext \in CtxRecords
  BY DEF NewContext, CtxRecords
<1>4. TypeOK'
  BY <1>1, <1>2, <1>3, TypeIs, TypeIsNext
<1>5. /\ ctx'[c].life = "live" /\ ~ ctx'[c].deleted /\ ctx'[c].socket = NONE /\ ctx'[c].stream = NONE
      /\ \A x \in Contexts : x # c => ctx'[x] = ctx[x]
  BY <1>1, <1>2, TypeIs DEF NewContext
<1>6. /\ ~ HasJob(c) /\ ~ InFlight(c) /\ native.c # c /\ \A s \in Sockets : sock[s].data # c
  BY <1>1, <1>2 DEF BirthInv
<1>7. \A x : /\ (InFlight(x)' <=> InFlight(x)) /\ (HasJob(x)' <=> HasJob(x)) /\ (Resolving(x)' <=> Resolving(x))
             /\ (Deletes(x)' <=> Deletes(x))
  BY <1>2 DEF InFlight, HasJob, Resolving, Deletes
<1>8. BirthInv'
  BY <1>1, <1>2, <1>5, <1>6, <1>7 DEF BirthInv
<1>9. SocketInv'
  <2>1. Starting => Starting' /\ uv.c # c
    BY <1>2, <1>6 DEF InFlight, Starting
  <2>2. Remains(connectQueue', connectQueue)
    BY <1>1, <1>2, TypeIs, RemainsIs
  <2>3. \A s \in Sockets : SameSock(s) /\ (ctx[s].life = "none" => ctx'[s].life = "none")
    BY <1>2, <1>5, Names DEF SameSock
  <2>4. Starting' => Starting /\ uv'.c = uv.c /\ ctx'[uv.c].socket = ctx[uv.c].socket
    BY <1>1, <1>2, <1>5, <2>1, Running DEF Starting
  <2> QED
    BY <1>1, <1>5, <2>2, <2>3, <2>4, SocketKept
<1>10. ResolveInv'
  <2>1. Remains(jobs', jobs)
    BY <1>1, <1>2, TypeIs, RemainsIs
  <2> QED
    BY <1>1, <1>2, <1>5, <1>6, <1>7, <2>1, ResolveKept
<1>11. DeleteIsLast'
  <2>1. Remains(jobs', jobs) /\ jobs' \in Seq(Jobs)
    BY <1>1, <1>2, TypeIs, RemainsIs
  <2>2. \A x \in Contexts : ctx[x].life = "live" /\ ctx[x].deleted /\ Deletes(x)' => ctx'[x].life = "live" /\ ctx'[x].deleted
    BY <1>2, <1>5
  <2> QED
    BY <1>1, <2>1, <2>2, LastKept
<1>12. DeleteInv'
  BY <1>1, <1>2, <1>5, <1>7 DEF DeleteInv, NoNative
<1>13. EndInv'
  BY <1>1, <1>2, EndRunning DEF EndInv
<1>14. ASSUME OrderInv
       PROVE  OrderInv'
  <2>1. \A i \in DOMAIN connectQueue : connectQueue[i].c # c
    BY <1>6 DEF InFlight
  <2>2. \A s \in Sockets : sock[s].state = "open" => sock[s].data # c
    BY <1>6
  <2>3. \A i \in DOMAIN connectQueue : connectQueue[i].c \in Contexts
    BY <1>1, Elements
  <2>4. \A x \in Contexts, s \in Sockets : ctx'[x].stream = s \/ ctx'[x].socket = s => sock'[s].data = x
    BY <1>2, <1>5, <1>14, Names DEF OrderInv
  <2>5. \A s \in Sockets : sock'[s].state = "open" =>
           /\ sock'[s].use = "connecting" => ~ ctx'[sock'[s].data].server
           /\ sock'[s].use = "listening" => ctx'[sock'[s].data].server
    BY <1>1, <1>2, <1>5, <1>14, <2>2 DEF OrderInv, SocketInv
  <2>6. \A i \in DOMAIN connectQueue' :
           IF ctx'[connectQueue'[i].c].server
             THEN sock'[connectQueue'[i].s].data = NONE /\ sock'[connectQueue'[i].s].use = "idle"
             ELSE sock'[connectQueue'[i].s].data = connectQueue'[i].c
    BY <1>2, <1>5, <1>14, <2>1, <2>3 DEF OrderInv
  <2> QED
    BY <1>2, <1>14, <2>4, <2>5, <2>6 DEF OrderInv
<1>15. ASSUME QuietInv
       PROVE  QuietInv'
  <2>1. \A i \in DOMAIN jobs : jobs[i].c # c
    BY <1>6 DEF HasJob
  <2>2. \A x \in Contexts :
          /\ ctx'[x].deleted => ~ InFlight(x)'
          /\ HasJob(x)' => ctx'[x].life = "live"
          /\ \A i \in DOMAIN jobs' : jobs'[i].c = x /\ jobs'[i].fn \in {"UV_OnAsyncWrite", "UV_StartRead"} => ctx'[x].stream # NONE
          /\ ctx'[x].life = "live" => \A s \in Sockets : ctx'[x].stream = s \/ ctx'[x].socket = s => sock'[s].state = "open"
    BY <1>2, <1>5, <1>7, <1>15, <2>1, Names DEF QuietInv
  <2>3. \A x \in Contexts : call'.new = x => ctx'[x].stream # NONE
    <3>1. call.new # c
      BY <1>6 DEF InFlight
    <3> QED
      BY <1>2, <1>5, <1>15, <3>1 DEF QuietInv
  <2> QED
    BY <1>2, <1>15, <2>2, <2>3 DEF QuietInv
<1> QED
  BY <1>2, <1>4, <1>1, <1>8, <1>9, <1>10, <1>11, <1>12, <1>13, <1>14, <1>15 DEF IndInv, RunInv

(* What belongs to whom, and was announced, does not change. *)
LEMMA OrderStays ==
  ASSUME TypeOK, RunInv, SocketInv, OrderInv, Remains(connectQueue', connectQueue), \A s \in Sockets : Stays(s),
         \A x \in Contexts : /\ ctx'[x].server <=> ctx[x].server
                             /\ ctx'[x].stream \in {ctx[x].stream, NONE} /\ ctx'[x].socket \in {ctx[x].socket, NONE},
         call' = call \/ (call'.fn # "OnConnect" /\ call'.new = NONE),
         \A i \in DOMAIN jobs' : jobs'[i].fn = "UV_StartRead" => call'.new # jobs'[i].c
  PROVE  OrderInv'
<1>1. PICK k \in Nat : \A i \in DOMAIN connectQueue' :
        i \in Nat /\ i + k \in DOMAIN connectQueue /\ connectQueue'[i] = connectQueue[i + k]
  BY DEF Remains
<1>2. \A i \in DOMAIN connectQueue : connectQueue[i].s \in Sockets /\ connectQueue[i].c \in Contexts
  BY Elements
<1>3. \A s \in Sockets : /\ sock'[s].state = "open" => sock[s].state = "open"
                         /\ sock'[s].data = sock[s].data /\ sock'[s].use = sock[s].use
                         /\ sock[s].use # "idle" => sock[s].data \in Contexts
  BY DEF Stays, SocketInv
<1>4. \A c \in Contexts, s \in Sockets : ctx'[c].stream = s \/ ctx'[c].socket = s => sock'[s].data = c
  BY <1>3, Names DEF OrderInv
<1>5. ASSUME NEW s \in Sockets, sock'[s].state = "open"
      PROVE  /\ sock'[s].use = "connecting" => ~ ctx'[sock'[s].data].server
             /\ sock'[s].use = "listening" => ctx'[sock'[s].data].server
  BY <1>3, <1>5 DEF OrderInv
<1>6. ASSUME NEW i \in DOMAIN connectQueue'
      PROVE  IF ctx'[connectQueue'[i].c].server
               THEN sock'[connectQueue'[i].s].data = NONE /\ sock'[connectQueue'[i].s].use = "idle"
               ELSE sock'[connectQueue'[i].s].data = connectQueue'[i].c
  <2>1. PICK j \in DOMAIN connectQueue : connectQueue'[i] = connectQueue[j]
    BY <1>1
  <2>2. IF ctx[connectQueue[j].c].server
          THEN sock[connectQueue[j].s].data = NONE /\ sock[connectQueue[j].s].use = "idle"
          ELSE sock[connectQueue[j].s].data = connectQueue[j].c
    BY DEF OrderInv
  <2> QED
    BY <1>2, <1>3, <2>1, <2>2
<1>7. call'.fn = "OnConnect" => sock'[call'.new].data = call'.new /\ sock'[call'.new].use = "idle"
  <2> SUFFICES ASSUME call'.fn = "OnConnect"
               PROVE  sock'[call'.new].data = call'.new /\ sock'[call'.new].use = "idle"
    OBVIOUS
  <2>1. call' = call /\ sock[call.new].data = call.new /\ sock[call.new].use = "idle"
    BY DEF OrderInv
  <2>2. call.new \in Sockets
    BY <2>1 DEF RunInv, NoCall
  <2> QED
    BY <1>3, <2>1, <2>2
<1> QED
  BY <1>4, <1>5, <1>6, <1>7 DEF OrderInv

LEMMA OrderKept ==
  ASSUME TypeOK, RunInv, SocketInv, OrderInv, Remains(connectQueue', connectQueue), \A s \in Sockets : SameSock(s),
         \A x \in Contexts : /\ ctx'[x].server <=> ctx[x].server
                             /\ ctx'[x].stream \in {ctx[x].stream, NONE} /\ ctx'[x].socket \in {ctx[x].socket, NONE},
         call' = call \/ (call'.fn # "OnConnect" /\ call'.new = NONE),
         \A i \in DOMAIN jobs' : jobs'[i].fn = "UV_StartRead" => call'.new # jobs'[i].c
  PROVE  OrderInv'
<1>1. \A s \in Sockets : Stays(s)
  BY DEF SameSock, Stays
<1> QED
  BY <1>1, OrderStays

(* The handles stay open, and the jobs about a stream have one. *)
LEMMA QuietKept ==
  ASSUME TypeOK, QuietInv, mode' \notin Undefinedness, mode' = "running" => mode = "running",
         call'.new \in {call.new, NONE}, Remains(connectQueue', connectQueue), \A s \in Sockets : SameSock(s),
         \A x \in Contexts : /\ ctx'[x].life = "live" => ctx[x].life = "live"
                             /\ ctx'[x].stream = ctx[x].stream /\ ctx'[x].socket \in {ctx[x].socket, NONE}
                             /\ ctx'[x].deleted => ~ InFlight(x)'
                             /\ HasJob(x)' => ctx'[x].life = "live",
         \A i \in DOMAIN jobs' : jobs'[i].fn \in {"UV_OnAsyncWrite", "UV_StartRead"} => ctx'[jobs'[i].c].stream # NONE
  PROVE  QuietInv'
<1>1. PICK k \in Nat : \A i \in DOMAIN connectQueue' :
        i \in Nat /\ i + k \in DOMAIN connectQueue /\ connectQueue'[i] = connectQueue[i + k]
  BY DEF Remains
<1>2. \A i \in DOMAIN connectQueue : connectQueue[i].s \in Sockets
  BY Elements
<1>3. \A s \in Sockets : sock'[s].state = sock[s].state /\ sock'[s].data = sock[s].data /\ sock'[s].use = sock[s].use
  BY DEF SameSock
<1>4. \A x \in Contexts : ctx'[x].life = "live" =>
        \A s \in Sockets : ctx'[x].stream = s \/ ctx'[x].socket = s => sock'[s].state = "open"
  BY <1>3, Names DEF QuietInv
<1>5. \A s \in Sockets : sock'[s].use = "connecting" => sock'[s].state # "closing"
  BY <1>3 DEF QuietInv
<1>6. mode' = "running" =>
       \A i \in DOMAIN connectQueue' : sock'[connectQueue'[i].s].data = NONE => sock'[connectQueue'[i].s].state = "open"
  BY <1>1, <1>2, <1>3 DEF QuietInv
<1>7. \A x \in Contexts : call'.new = x => ctx'[x].stream # NONE
  BY Names DEF QuietInv
<1> QED
  BY <1>4, <1>5, <1>6, <1>7 DEF QuietInv

(* The plugin writes. *)
LEMMA WriteStep ==
  ASSUME IndInv, NEW c \in Contexts, Write(c)
  PROVE  IndInv'
<1>1. TypeOK /\ RunInv /\ BirthInv /\ SocketInv /\ ResolveInv /\ DeleteIsLast /\ DeleteInv /\ EndInv
  BY DEF IndInv
<1>2. /\ jobs' = Append(jobs, Job("UV_OnAsyncWrite", c)) /\ mode = "running" /\ native = NoNative
      /\ ctx[c].life = "live" /\ ~ ctx[c].deleted /\ ctx[c].stream # NONE
      /\ ctx' = ctx /\ sock' = sock /\ resolver' = resolver /\ connectQueue' = connectQueue
      /\ dataQueue' = dataQueue /\ errorQueue' = errorQueue /\ call' = call /\ uv' = uv /\ mode' = mode /\ hasty' = hasty
      /\ phase' = phase /\ native' = native
  BY DEF Write, PluginRuns, Valid, queues, game
<1> DEFINE j == Job("UV_OnAsyncWrite", c)
<1>3. j \in Jobs /\ j.fn = "UV_OnAsyncWrite" /\ j.c = c /\ \A x : j # Job("UV_OnAsyncResolve", x) /\ j # Job("UV_DeleteAsyncContext", x)
  BY JobIs DEF JobFns, Job
<1> HIDE DEF j
<1>4. /\ jobs' \in Seq(Jobs)
      /\ \A x : (HasJob(x)' => HasJob(x) \/ x = c) /\ (Deletes(x)' <=> Deletes(x))
      /\ \A i \in DOMAIN jobs' : jobs'[i] = j \/ (i \in DOMAIN jobs /\ jobs'[i] = jobs[i])
  BY <1>1, <1>2, <1>3, Appended DEF j
<1>5. \A x \in Contexts : (InFlight(x)' => InFlight(x)) /\ (Resolving(x)' <=> Resolving(x))
  BY <1>2, <1>3, <1>4 DEF InFlight, Resolving
<1>6. TypeOK'
  BY <1>1, <1>2, <1>4, TypeIs, TypeIsNext
<1>7. BirthInv'
  BY <1>1, <1>2, <1>4, <1>5 DEF BirthInv
<1>8. SocketInv'
  <2>1. (Starting' <=> Starting) /\ \A s : Fresh(s)' <=> Fresh(s)
    BY <1>2 DEF Starting, Fresh
  <2> QED
    BY <1>1, <1>2, <2>1 DEF SocketInv
<1>9. ResolveInv'
  BY <1>1, <1>2, <1>3, <1>5, ResolveAppend DEF j
<1>10. ~ Deletes(c)
  BY <1>1, <1>2 DEF Deletes, DeleteIsLast, Job
<1>11. DeleteIsLast'
  BY <1>1, <1>2, <1>3, <1>10, LastAppend DEF j
<1>12. DeleteInv'
  BY <1>1, <1>2, <1>4 DEF DeleteInv, NoNative
<1>13. EndInv'
  BY <1>1, <1>2, <1>3, <1>4, EndRunning DEF EndInv
<1>14. Remains(connectQueue', connectQueue) /\ \A s \in Sockets : SameSock(s)
  BY <1>1, <1>2, TypeIs, RemainsIs DEF SameSock
<1>15. ASSUME OrderInv
       PROVE  OrderInv'
  <2>1. \A i \in DOMAIN jobs' : jobs'[i].fn = "UV_StartRead" => call'.new # jobs'[i].c
    BY <1>2, <1>3, <1>4, <1>15 DEF OrderInv
  <2> QED
    BY <1>1, <1>2, <1>14, <1>15, <2>1, OrderKept
<1>16. ASSUME QuietInv
       PROVE  QuietInv'
  <2>1. \A x \in Contexts : (ctx'[x].deleted => ~ InFlight(x)') /\ (HasJob(x)' => ctx'[x].life = "live")
    BY <1>2, <1>4, <1>5, <1>16 DEF QuietInv
  <2>2. \A i \in DOMAIN jobs' : jobs'[i].fn \in {"UV_OnAsyncWrite", "UV_StartRead"} => ctx'[jobs'[i].c].stream # NONE
    <3>1. \A i \in DOMAIN jobs : jobs[i].fn \in {"UV_OnAsyncWrite", "UV_StartRead"} => jobs[i].c \in Contexts
      BY <1>1, Elements, JobIs
    <3> QED
      BY <1>2, <1>3, <1>4, <1>16, <3>1 DEF QuietInv
  <2> QED
    BY <1>1, <1>2, <1>14, <1>16, <2>1, <2>2, QuietKept DEF QuietInv
<1> QED
  BY <1>1, <1>2, <1>6, <1>7, <1>8, <1>9, <1>11, <1>12, <1>13, <1>15, <1>16 DEF IndInv, RunInv

(* The plugin closes its handle. *)
LEMMA DestroyCallStep ==
  ASSUME IndInv, NEW c \in Contexts, DestroyCall(c)
  PROVE  IndInv'
<1>1. TypeOK /\ RunInv /\ BirthInv /\ SocketInv /\ ResolveInv /\ DeleteIsLast /\ DeleteInv /\ EndInv
  BY DEF IndInv
<1>2. /\ ctx' = [ctx EXCEPT ![c].deleted = TRUE] /\ mode = "running" /\ native = NoNative
      /\ native' = [fn |-> "OnHandleDestroy", c |-> c]
      /\ hasty' = (IF InFlight(c) THEN hasty \cup {"close"} ELSE hasty)
      /\ ctx[c].life = "live" /\ ~ ctx[c].deleted
      /\ sock' = sock /\ resolver' = resolver /\ connectQueue' = connectQueue /\ jobs' = jobs
      /\ dataQueue' = dataQueue /\ errorQueue' = errorQueue /\ call' = call /\ uv' = uv /\ mode' = mode /\ phase' = phase
  BY DEF DestroyCall, PluginRuns, Valid, queues
<1>3. ctx \in [Contexts -> CtxRecords]
  BY <1>1, TypeIs
<1>4. /\ ctx' \in [Contexts -> CtxRecords] /\ ctx'[c].deleted
      /\ \A x \in Contexts : /\ ctx'[x].life = ctx[x].life /\ (ctx'[x].pending <=> ctx[x].pending)
                             /\ (ctx'[x].server <=> ctx[x].server)
                             /\ ctx'[x].socket = ctx[x].socket /\ ctx'[x].stream = ctx[x].stream
                             /\ x # c => (ctx'[x].deleted <=> ctx[x].deleted)
  BY <1>2, <1>3 DEF CtxRecords
<1>5. native' \in NativeCalls /\ native'.fn = "OnHandleDestroy" /\ native'.c = c
  BY <1>2 DEF NativeCalls
<1>6. \A x : /\ (InFlight(x)' <=> InFlight(x)) /\ (HasJob(x)' <=> HasJob(x)) /\ (Resolving(x)' <=> Resolving(x))
             /\ (Deletes(x)' <=> Deletes(x))
  BY <1>2 DEF InFlight, HasJob, Resolving, Deletes
<1>7. hasty' \subseteq {"close", "connect", "accept", "unload"} /\ ("connect" \in hasty' => "connect" \in hasty)
      /\ ("connect" \in hasty => "connect" \in hasty') /\ (hasty' = {} => hasty = {} /\ ~ InFlight(c))
  BY <1>1, <1>2, TypeIs
<1>8. TypeOK'
  BY <1>1, <1>2, <1>4, <1>5, <1>7, TypeIs, TypeIsNext
<1>9. RunInv'
  BY <1>1, <1>2, <1>5 DEF RunInv
<1>10. BirthInv'
  BY <1>1, <1>2, <1>4, <1>5, <1>6 DEF BirthInv
<1>11. Remains(connectQueue', connectQueue) /\ Remains(jobs', jobs) /\ jobs' \in Seq(Jobs) /\ \A s \in Sockets : SameSock(s)
  BY <1>1, <1>2, TypeIs, RemainsIs DEF SameSock
<1>12. SocketInv'
  <2>1. Starting' => Starting /\ uv'.c = uv.c /\ ctx'[uv.c].socket = ctx[uv.c].socket
    BY <1>1, <1>2, <1>4, Running DEF Starting
  <2> QED
    BY <1>1, <1>4, <1>11, <2>1, Names, SocketKept
<1>13. ResolveInv'
  BY <1>1, <1>2, <1>4, <1>6, <1>11, ResolveKept
<1>14. DeleteIsLast'
  BY <1>1, <1>4, <1>11, LastKept
<1>15. ~ Deletes(c)
  BY <1>1, <1>2 DEF Deletes, DeleteIsLast, Job
<1>16. DeleteInv'
  BY <1>1, <1>2, <1>4, <1>5, <1>6, <1>15 DEF DeleteInv, NoNative
<1>17. EndInv'
  BY <1>1, <1>2, EndRunning DEF EndInv
<1>18. ASSUME OrderInv
       PROVE  OrderInv'
  <2>1. \A i \in DOMAIN jobs' : jobs'[i].fn = "UV_StartRead" => call'.new # jobs'[i].c
    BY <1>2, <1>18 DEF OrderInv
  <2> QED
    BY <1>1, <1>2, <1>4, <1>11, <1>18, <2>1, OrderKept
<1>19. ASSUME QuietInv, ~ InFlight(c)
       PROVE  QuietInv'
  <2>1. \A x \in Contexts : (ctx'[x].deleted => ~ InFlight(x)') /\ (HasJob(x)' => ctx'[x].life = "live")
    BY <1>2, <1>4, <1>6, <1>19 DEF QuietInv
  <2>2. \A i \in DOMAIN jobs' : jobs'[i].fn \in {"UV_OnAsyncWrite", "UV_StartRead"} => ctx'[jobs'[i].c].stream # NONE
    <3>1. \A i \in DOMAIN jobs : jobs[i].fn \in {"UV_OnAsyncWrite", "UV_StartRead"} => jobs[i].c \in Contexts
      BY <1>1, Elements, JobIs
    <3> QED
      BY <1>2, <1>4, <1>19, <3>1 DEF QuietInv
  <2> QED
    BY <1>1, <1>2, <1>4, <1>11, <1>19, <2>1, <2>2, QuietKept DEF QuietInv
<1> QED
  BY <1>1, <1>7, <1>8, <1>9, <1>10, <1>12, <1>13, <1>14, <1>16, <1>17, <1>18, <1>19 DEF IndInv

(* Connect and Listen pass their second test, or do not. *)
LEMMA OpenStep ==
  ASSUME IndInv, Open
  PROVE  IndInv'
<1>1. TypeOK /\ RunInv /\ BirthInv /\ SocketInv /\ ResolveInv /\ DeleteIsLast /\ DeleteInv /\ EndInv
  BY DEF IndInv
<1>2. PICK c \in Contexts : native.c = c
  BY <1>1, Running DEF Open
<1>3. /\ native.fn \in {"Connect", "Listen"} /\ mode = "running" /\ ctx[c].life = "live" /\ ~ ctx[c].deleted
      /\ native.fn # "OnHandleDestroy" /\ native' = NoNative
      /\ sock' = sock /\ resolver' = resolver /\ connectQueue' = connectQueue
      /\ dataQueue' = dataQueue /\ errorQueue' = errorQueue /\ call' = call /\ uv' = uv /\ mode' = mode /\ phase' = phase
  BY <1>1, <1>2, Running DEF Open, DeleteInv, Valid, queues
<1>4. native' \in NativeCalls /\ native'.fn = "none" /\ native'.c = NONE
  BY <1>3 DEF NativeCalls, NoNative
<1>5. RunInv'
  BY <1>1, <1>3 DEF RunInv
<1>6. CASE UNCHANGED <<ctx, jobs, hasty>>
  <2>1. ctx' = ctx /\ jobs' = jobs /\ hasty' = hasty
    BY <1>6
  <2>2. DeleteInv'
    <3>1. \A x : Deletes(x)' <=> Deletes(x)
      BY <2>1 DEF Deletes
    <3> QED
      BY <1>1, <1>3, <1>4, <2>1, <3>1 DEF DeleteInv
  <2>3. UNCHANGED <<ctx, sock, resolver, jobs, queues, call, uv, mode, hasty>>
    BY <1>3, <2>1 DEF queues
  <2>4. phase' \in {"none", "connect", "data", "error"}
    BY <1>1, <1>3, TypeIs
  <2>5. \A x \in Contexts : native'.c # x
    BY <1>4, Names
  <2> QED
    BY <1>4, <1>5, <2>2, <2>3, <2>4, <2>5, PlaceStep
<1>7. CASE /\ ~ ctx[c].pending
           /\ ctx' = [ctx EXCEPT ![c].server = (native.fn = "Listen"), ![c].pending = TRUE]
           /\ jobs' = Append(jobs, Job("UV_OnAsyncResolve", c))
           /\ hasty' = IF InFlight(c) THEN hasty \cup {"connect"} ELSE hasty
  <2> DEFINE j == Job("UV_OnAsyncResolve", c)
  <2>1. j \in Jobs /\ j.fn = "UV_OnAsyncResolve" /\ j.c = c /\ \A x : (j = Job("UV_OnAsyncResolve", x) <=> x = c) /\ j # Job("UV_DeleteAsyncContext", x)
    BY JobIs DEF JobFns, Job
  <2>2. ctx \in [Contexts -> CtxRecords]
    BY <1>1, TypeIs
  <2>3. jobs' = Append(jobs, j)
    BY <1>7
  <2> HIDE DEF j
  <2>4. /\ ctx' \in [Contexts -> CtxRecords] /\ ctx'[c].pending
        /\ \A x \in Contexts : /\ ctx'[x].life = ctx[x].life /\ (ctx'[x].deleted <=> ctx[x].deleted)
                               /\ ctx'[x].socket = ctx[x].socket /\ ctx'[x].stream = ctx[x].stream
                               /\ x # c => (ctx'[x].pending <=> ctx[x].pending) /\ (ctx'[x].server <=> ctx[x].server)
    BY <1>7, <2>2 DEF CtxRecords
  <2>5. /\ jobs' \in Seq(Jobs)
        /\ \A x : (HasJob(x)' => HasJob(x) \/ x = c) /\ (Deletes(x)' <=> Deletes(x))
        /\ \A i \in DOMAIN jobs' : (i = Len(jobs) + 1 /\ jobs'[i] = j) \/ (i \in DOMAIN jobs /\ jobs'[i] = jobs[i])
    BY <1>1, <2>1, <2>3, Appended
  <2>6. \A x \in Contexts : (InFlight(x)' => InFlight(x) \/ x = c) /\ (Resolving(x)' <=> Resolving(x))
    BY <1>3, <2>1, <2>5 DEF InFlight, Resolving
  <2>7. hasty' \subseteq {"close", "connect", "accept", "unload"} /\ ("connect" \notin hasty' => "connect" \notin hasty /\ ~ InFlight(c))
        /\ (hasty' = {} => hasty = {})
    BY <1>1, <1>7, TypeIs
  <2>8. TypeOK'
    BY <1>1, <1>3, <1>4, <2>4, <2>5, <2>7, TypeIs, TypeIsNext
  <2>9. BirthInv'
    BY <1>1, <1>3, <1>4, <2>4, <2>5, <2>6, Names DEF BirthInv
  <2>10. Remains(connectQueue', connectQueue) /\ \A s \in Sockets : SameSock(s)
    BY <1>1, <1>3, TypeIs, RemainsIs DEF SameSock
  <2>11. SocketInv'
    <3>1. Starting' => Starting /\ uv'.c = uv.c /\ ctx'[uv.c].socket = ctx[uv.c].socket
      BY <1>1, <1>3, <2>4, Running DEF Starting
    <3> QED
      BY <1>1, <2>4, <2>10, <3>1, Names, SocketKept
  <2>12. ResolveInv'
    <3>1. /\ \A i \in DOMAIN jobs : jobs[i] # Job("UV_OnAsyncResolve", c)
          /\ ~ (resolver[c] > 0) /\ ~ Resolving(c)
      BY <1>1, <1>7 DEF ResolveInv
    <3>2. resolver'[c] = 0
      BY <1>1, <1>3, <3>1, TypeIs
    <3>3. \A i \in DOMAIN jobs' : jobs'[i] = Job("UV_OnAsyncResolve", c) => i = Len(jobs) + 1
      BY <2>1, <2>5, <3>1
    <3>4. \A x \in Contexts : x # c => \A i \in DOMAIN jobs' :
            jobs'[i] = Job("UV_OnAsyncResolve", x) => i \in DOMAIN jobs /\ jobs[i] = Job("UV_OnAsyncResolve", x)
      BY <2>1, <2>5
    <3> SUFFICES ASSUME NEW x \in Contexts
                 PROVE  /\ \A i, k \in DOMAIN jobs' :
                             jobs'[i] = Job("UV_OnAsyncResolve", x) /\ jobs'[k] = Job("UV_OnAsyncResolve", x) => i = k
                        /\ \A i \in DOMAIN jobs' : jobs'[i] = Job("UV_OnAsyncResolve", x) =>
                             ctx'[x].pending /\ resolver'[x] = 0 /\ ~ Resolving(x)'
                        /\ resolver'[x] > 0 => resolver'[x] = 1 /\ ctx'[x].pending /\ ~ Resolving(x)'
                        /\ Resolving(x)' => ctx'[x].pending
      BY DEF ResolveInv
    <3>5. CASE x = c
      BY <1>3, <2>4, <2>6, <3>1, <3>2, <3>3, <3>5
    <3>6. CASE x # c
      <4>1. ctx'[x].pending <=> ctx[x].pending
        BY <2>4, <3>6
      <4> QED
        BY <1>1, <1>3, <2>6, <3>4, <3>6, <4>1 DEF ResolveInv
    <3> QED
      BY <3>5, <3>6
  <2>13. ~ Deletes(c)
    BY <1>1, <1>3 DEF Deletes, DeleteIsLast, Job
  <2>14. DeleteIsLast'
    BY <1>1, <2>1, <2>3, <2>4, <2>13, LastAppend
  <2>15. DeleteInv'
    BY <1>1, <1>3, <1>4, <2>4, <2>5 DEF DeleteInv
  <2>16. EndInv'
    BY <1>1, <1>3, <2>1, <2>5, EndRunning DEF EndInv
  <2>17. ASSUME OrderInv, ~ InFlight(c)
         PROVE  OrderInv'
    <3>1. \A i \in DOMAIN jobs' : jobs'[i].fn = "UV_StartRead" => call'.new # jobs'[i].c
      BY <1>3, <2>1, <2>5, <2>17 DEF OrderInv
    <3>2. \A s \in Sockets : sock[s].state = "open" /\ sock[s].use \in {"connecting", "listening"} =>
            sock[s].data # c /\ sock[s].data \in Contexts
      BY <1>1, <2>17 DEF InFlight, SocketInv
    <3>3. \A i \in DOMAIN connectQueue : connectQueue[i].c # c /\ connectQueue[i].c \in Contexts
      BY <1>1, <2>17, Elements DEF InFlight
    <3>4. \A x \in Contexts, s \in Sockets : ctx'[x].stream = s \/ ctx'[x].socket = s => sock'[s].data = x
      BY <1>3, <2>4, <2>17 DEF OrderInv
    <3>5. \A s \in Sockets : sock'[s].state = "open" =>
             /\ sock'[s].use = "connecting" => ~ ctx'[sock'[s].data].server
             /\ sock'[s].use = "listening" => ctx'[sock'[s].data].server
      BY <1>3, <2>4, <2>17, <3>2 DEF OrderInv
    <3>6. \A i \in DOMAIN connectQueue' :
             IF ctx'[connectQueue'[i].c].server
               THEN sock'[connectQueue'[i].s].data = NONE /\ sock'[connectQueue'[i].s].use = "idle"
               ELSE sock'[connectQueue'[i].s].data = connectQueue'[i].c
      BY <1>3, <2>4, <2>17, <3>3 DEF OrderInv
    <3> QED
      BY <1>3, <2>17, <3>1, <3>4, <3>5, <3>6 DEF OrderInv
  <2>18. ASSUME QuietInv
         PROVE  QuietInv'
    <3>1. \A x \in Contexts : (ctx'[x].deleted => ~ InFlight(x)') /\ (HasJob(x)' => ctx'[x].life = "live")
      BY <1>3, <2>4, <2>5, <2>6, <2>18 DEF QuietInv
    <3>2. \A i \in DOMAIN jobs' : jobs'[i].fn \in {"UV_OnAsyncWrite", "UV_StartRead"} => ctx'[jobs'[i].c].stream # NONE
      <4>1. \A i \in DOMAIN jobs : jobs[i].fn \in {"UV_OnAsyncWrite", "UV_StartRead"} => jobs[i].c \in Contexts
        BY <1>1, Elements, JobIs
      <4> QED
        BY <2>1, <2>4, <2>5, <2>18, <4>1 DEF QuietInv
    <3> QED
      BY <1>1, <1>3, <2>4, <2>10, <2>18, <3>1, <3>2, QuietKept DEF QuietInv
  <2> QED
    BY <1>1, <1>5, <2>7, <2>8, <2>9, <2>11, <2>12, <2>14, <2>15, <2>16, <2>17, <2>18 DEF IndInv
<1> QED
  BY <1>2, <1>6, <1>7 DEF Open

(* The jobs about a stream, as QuietInv has them. *)
LEMMA StreamJobs ==
  ASSUME TypeOK, QuietInv
  PROVE  \A i \in DOMAIN jobs : jobs[i].fn \in {"UV_OnAsyncWrite", "UV_StartRead"} =>
           jobs[i].c \in Contexts /\ ctx[jobs[i].c].stream # NONE
<1>1. \A i \in DOMAIN jobs : jobs[i].fn \in {"UV_OnAsyncWrite", "UV_StartRead"} => jobs[i].c \in Contexts
  BY Elements, JobIs
<1> QED
  BY <1>1 DEF QuietInv

(* OnHandleDestroy leaves the deletion to the loop thread, or frees the context. *)
LEMMA DestroyStep ==
  ASSUME IndInv, Destroy
  PROVE  IndInv'
<1>1. TypeOK /\ RunInv /\ BirthInv /\ SocketInv /\ ResolveInv /\ DeleteIsLast /\ DeleteInv /\ EndInv
  BY DEF IndInv
<1>2. PICK c \in Contexts : native.c = c
  BY <1>1, Running DEF Destroy
<1>3. /\ native.fn = "OnHandleDestroy" /\ mode = "running" /\ ctx[c].life = "live" /\ ctx[c].deleted /\ ~ Deletes(c)
      /\ native' = NoNative
      /\ sock' = sock /\ resolver' = resolver /\ connectQueue' = connectQueue
      /\ dataQueue' = dataQueue /\ errorQueue' = errorQueue /\ call' = call /\ uv' = uv /\ mode' = mode /\ phase' = phase /\ hasty' = hasty
      /\ \/ jobs' = Append(jobs, Job("UV_DeleteAsyncContext", c)) /\ ctx' = ctx
         \/ ctx' = [ctx EXCEPT ![c].life = "freed"] /\ jobs' = jobs /\ ctx[c].socket = NONE /\ ctx[c].stream = NONE
  BY <1>1, <1>2, Running DEF Destroy, DeleteInv, queues
<1>4. native' \in NativeCalls /\ native'.fn = "none" /\ native'.c = NONE
  BY <1>3 DEF NativeCalls, NoNative
<1>5. RunInv'
  BY <1>1, <1>3 DEF RunInv
<1>6. Remains(connectQueue', connectQueue) /\ \A s \in Sockets : SameSock(s)
  BY <1>1, <1>3, TypeIs, RemainsIs DEF SameSock
<1>7. CASE jobs' = Append(jobs, Job("UV_DeleteAsyncContext", c)) /\ ctx' = ctx
  <2> DEFINE j == Job("UV_DeleteAsyncContext", c)
  <2>1. j \in Jobs /\ j.fn = "UV_DeleteAsyncContext" /\ j.c = c /\ \A x : (j = Job("UV_DeleteAsyncContext", x) <=> x = c) /\ j # Job("UV_OnAsyncResolve", x)
    BY JobIs DEF JobFns, Job
  <2>2. jobs' = Append(jobs, j)
    BY <1>7
  <2> HIDE DEF j
  <2>3. /\ jobs' \in Seq(Jobs)
        /\ \A x : (HasJob(x)' => HasJob(x) \/ x = c) /\ (Deletes(x)' <=> Deletes(x) \/ x = c)
        /\ \A i \in DOMAIN jobs' : jobs'[i] = j \/ (i \in DOMAIN jobs /\ jobs'[i] = jobs[i])
    BY <1>1, <2>1, <2>2, Appended
  <2>4. \A x \in Contexts : (InFlight(x)' => InFlight(x)) /\ (Resolving(x)' <=> Resolving(x))
    BY <1>3, <1>7, <2>1, <2>3 DEF InFlight, Resolving
  <2>5. TypeOK'
    BY <1>1, <1>3, <1>4, <1>7, <2>3, TypeIs, TypeIsNext
  <2>6. BirthInv'
    BY <1>1, <1>3, <1>4, <1>7, <2>3, <2>4, Names DEF BirthInv
  <2>7. SocketInv'
    <3>1. (Starting' <=> Starting) /\ \A s : Fresh(s)' <=> Fresh(s)
      BY <1>3, <1>7 DEF Starting, Fresh
    <3> QED
      BY <1>1, <1>3, <1>7, <3>1 DEF SocketInv
  <2>8. ResolveInv'
    BY <1>1, <1>3, <1>7, <2>1, <2>2, <2>4, ResolveAppend
  <2>9. DeleteIsLast'
    BY <1>1, <1>3, <1>7, <2>1, <2>2, LastAppend
  <2>10. DeleteInv'
    BY <1>1, <1>2, <1>3, <1>4, <1>7, <2>3 DEF DeleteInv
  <2>11. EndInv'
    BY <1>1, <1>3, <2>1, <2>3, EndRunning DEF EndInv
  <2>12. ASSUME OrderInv
         PROVE  OrderInv'
    <3>1. \A i \in DOMAIN jobs' : jobs'[i].fn = "UV_StartRead" => call'.new # jobs'[i].c
      BY <1>3, <2>1, <2>3, <2>12 DEF OrderInv
    <3> QED
      BY <1>1, <1>3, <1>6, <1>7, <2>12, <3>1, OrderKept
  <2>13. ASSUME QuietInv
         PROVE  QuietInv'
    <3>1. \A x \in Contexts : (ctx'[x].deleted => ~ InFlight(x)') /\ (HasJob(x)' => ctx'[x].life = "live")
      BY <1>3, <1>7, <2>3, <2>4, <2>13 DEF QuietInv
    <3>2. \A i \in DOMAIN jobs' : jobs'[i].fn \in {"UV_OnAsyncWrite", "UV_StartRead"} => ctx'[jobs'[i].c].stream # NONE
      BY <1>1, <1>7, <2>1, <2>3, <2>13, StreamJobs
    <3> QED
      BY <1>1, <1>3, <1>6, <1>7, <2>13, <3>1, <3>2, QuietKept DEF QuietInv
  <2> QED
    BY <1>1, <1>3, <1>5, <2>5, <2>6, <2>7, <2>8, <2>9, <2>10, <2>11, <2>12, <2>13 DEF IndInv
<1>8. CASE ctx' = [ctx EXCEPT ![c].life = "freed"] /\ jobs' = jobs /\ ctx[c].socket = NONE /\ ctx[c].stream = NONE
  <2>1. ctx \in [Contexts -> CtxRecords]
    BY <1>1, TypeIs
  <2>2. /\ ctx' \in [Contexts -> CtxRecords] /\ ctx'[c].life = "freed"
        /\ \A x \in Contexts : /\ x # c => ctx'[x].life = ctx[x].life
                               /\ (ctx'[x].deleted <=> ctx[x].deleted) /\ (ctx'[x].pending <=> ctx[x].pending)
                               /\ (ctx'[x].server <=> ctx[x].server)
                               /\ ctx'[x].socket = ctx[x].socket /\ ctx'[x].stream = ctx[x].stream
    BY <1>8, <2>1 DEF CtxRecords
  <2>3. \A x : /\ (InFlight(x)' <=> InFlight(x)) /\ (HasJob(x)' <=> HasJob(x)) /\ (Resolving(x)' <=> Resolving(x))
               /\ (Deletes(x)' <=> Deletes(x))
    BY <1>3, <1>8 DEF InFlight, HasJob, Resolving, Deletes
  <2>4. TypeOK'
    BY <1>1, <1>3, <1>4, <1>8, <2>2, TypeIs, TypeIsNext
  <2>5. BirthInv'
    BY <1>1, <1>3, <1>4, <2>2, <2>3, Names DEF BirthInv
  <2>6. Remains(jobs', jobs) /\ jobs' \in Seq(Jobs)
    BY <1>1, <1>8, TypeIs, RemainsIs
  <2>7. SocketInv'
    <3>1. Starting' => Starting /\ uv'.c = uv.c /\ ctx'[uv.c].socket = ctx[uv.c].socket
      BY <1>1, <1>3, <2>2, Running DEF Starting
    <3>2. \A s \in Sockets : ctx[s].life = "none" => ctx'[s].life = "none"
      BY <1>3, <2>2, Names
    <3> QED
      BY <1>1, <1>6, <2>2, <3>1, <3>2, SocketKept
  <2>8. ResolveInv'
    BY <1>1, <1>3, <2>2, <2>3, <2>6, ResolveKept
  <2>9. DeleteIsLast'
    <3>1. \A x \in Contexts : ctx[x].life = "live" /\ ctx[x].deleted /\ Deletes(x)' => ctx'[x].life = "live" /\ ctx'[x].deleted
      BY <1>3, <2>2, <2>3
    <3> QED
      BY <1>1, <2>6, <3>1, LastKept
  <2>10. DeleteInv'
    BY <1>1, <1>2, <1>3, <1>4, <2>2, <2>3 DEF DeleteInv
  <2>11. EndInv'
    BY <1>1, <1>3, <1>8, EndRunning DEF EndInv
  <2>12. ASSUME OrderInv
         PROVE  OrderInv'
    <3>1. \A i \in DOMAIN jobs' : jobs'[i].fn = "UV_StartRead" => call'.new # jobs'[i].c
      BY <1>3, <1>8, <2>12 DEF OrderInv
    <3> QED
      BY <1>1, <1>3, <1>6, <2>2, <2>12, <3>1, OrderKept
  <2>13. ASSUME QuietInv
         PROVE  QuietInv'
    <3>1. ~ HasJob(c)
      <4> SUFFICES ASSUME NEW i \in DOMAIN jobs, jobs[i].c = c
                   PROVE  FALSE
        BY DEF HasJob
      <4>1. jobs[i] \in Jobs
        BY <1>1, Elements
      <4>2. jobs[i].fn \in JobFns /\ jobs[i] = Job(jobs[i].fn, c)
        BY <4>1, JobIs, Names
      <4>3. jobs[i].fn # "UV_OnAsyncResolve"
        BY <1>3, <2>13, <4>2 DEF QuietInv, InFlight
      <4>4. jobs[i].fn # "UV_DeleteAsyncContext"
        BY <1>3, <4>2 DEF Deletes
      <4>5. jobs[i].fn \notin {"UV_OnAsyncWrite", "UV_StartRead"}
        BY <1>1, <1>8, <2>13, StreamJobs
      <4> QED
        BY <4>2, <4>3, <4>4, <4>5 DEF JobFns
    <3>2. \A x \in Contexts : (ctx'[x].deleted => ~ InFlight(x)') /\ (HasJob(x)' => ctx'[x].life = "live")
      BY <2>2, <2>3, <2>13, <3>1 DEF QuietInv
    <3>3. \A i \in DOMAIN jobs' : jobs'[i].fn \in {"UV_OnAsyncWrite", "UV_StartRead"} => ctx'[jobs'[i].c].stream # NONE
      BY <1>1, <1>8, <2>2, <2>13, StreamJobs
    <3> QED
      BY <1>1, <1>3, <1>6, <2>2, <2>13, <3>2, <3>3, QuietKept DEF QuietInv
  <2> QED
    BY <1>1, <1>3, <1>5, <2>4, <2>5, <2>7, <2>8, <2>9, <2>10, <2>11, <2>12, <2>13 DEF IndInv
<1> QED
  BY <1>3, <1>7, <1>8
-----------------------------------------------------------------------------
(* The game thread: events. *)

(* m_PendingCallback is a field of its own. *)
LEMMA PendingCallback ==
  ASSUME TypeOK, NEW c \in Contexts, NEW b \in BOOLEAN, ctx' = [ctx EXCEPT ![c].pendingCallback = b]
  PROVE  ctx' \in [Contexts -> CtxRecords] /\ \A x \in Contexts : Same(x)
<1>1. ctx \in [Contexts -> CtxRecords]
  BY TypeIs
<1>2. ctx[c] \in CtxRecords
  BY <1>1
<1> DEFINE r == [ctx[c] EXCEPT !.pendingCallback = b]
<1>3. /\ r \in CtxRecords /\ r.life = ctx[c].life /\ (r.deleted <=> ctx[c].deleted) /\ (r.pending <=> ctx[c].pending)
      /\ (r.server <=> ctx[c].server) /\ r.socket = ctx[c].socket /\ r.stream = ctx[c].stream
  BY <1>2 DEF CtxRecords
<1>4. ctx' = [ctx EXCEPT ![c] = r]
  OBVIOUS
<1> HIDE DEF r
<1> QED
  BY <1>1, <1>3, <1>4 DEF Same

LEMMA CalledBack ==
  ASSUME TypeOK, NEW fn, NEW c \in Contexts, Callback(fn, c)
  PROVE  /\ ctx' \in [Contexts -> CtxRecords]
         /\ \A x \in Contexts : /\ Same(x)
                                /\ ctx'[x].announced <=> ctx[x].announced \/ (x = c /\ fn = "Connected")
<1>1. ctx \in [Contexts -> CtxRecords]
  BY TypeIs
<1>2. ctx[c] \in CtxRecords
  BY <1>1
<1> DEFINE r == [[ctx[c] EXCEPT !.pendingCallback = FALSE] EXCEPT !.announced = @ \/ fn = "Connected"]
<1>3. /\ r \in CtxRecords /\ r.life = ctx[c].life /\ (r.deleted <=> ctx[c].deleted) /\ (r.pending <=> ctx[c].pending)
      /\ (r.server <=> ctx[c].server) /\ r.socket = ctx[c].socket /\ r.stream = ctx[c].stream
      /\ (r.announced <=> ctx[c].announced \/ fn = "Connected")
  BY <1>2 DEF CtxRecords
<1>4. ctx' = [ctx EXCEPT ![c] = r]
  BY <1>1 DEF Callback
<1> HIDE DEF r
<1> QED
  BY <1>1, <1>3, <1>4 DEF Same

(* An event is taken, and the plugin is called about it. *)
LEMMA EventStep ==
  ASSUME IndInv, NEW fn \in {"Connected", "OnData", "OnError"}, NEW c \in Contexts, Callback(fn, c), phase # "none", call = NoCall,
         Remains(connectQueue', connectQueue), Remains(dataQueue', dataQueue), Remains(errorQueue', errorQueue),
         connectQueue' \in Seq(Connects_), dataQueue' \in Seq(Contexts), errorQueue' \in Seq(Contexts)
  PROVE  IndInv'
<1>1. TypeOK /\ RunInv /\ BirthInv /\ SocketInv /\ ResolveInv /\ DeleteIsLast /\ DeleteInv /\ EndInv
  BY DEF IndInv
<1>2. /\ call' = [fn |-> fn, c |-> c, new |-> NONE]
      /\ sock' = sock /\ resolver' = resolver /\ jobs' = jobs /\ phase' = phase /\ native' = native
      /\ uv' = uv /\ mode' = mode /\ hasty' = hasty /\ mode = "running"
  BY <1>1 DEF Callback, RunInv
<1>3. ctx' \in [Contexts -> CtxRecords] /\ \A x \in Contexts : Same(x)
  BY <1>1, CalledBack
<1>4. call' \in Calls /\ call'.fn = fn /\ call'.c = c /\ call'.new = NONE /\ fn # "OnConnect" /\ fn # "none"
  BY <1>2 DEF Calls
<1>5. \A x \in Contexts : /\ (InFlight(x)' => InFlight(x)) /\ (HasJob(x)' <=> HasJob(x)) /\ (Resolving(x)' <=> Resolving(x))
                          /\ (Deletes(x)' <=> Deletes(x))
  <2>1. /\ \A x : (\E i \in DOMAIN connectQueue' : connectQueue'[i].c = x) => \E i \in DOMAIN connectQueue : connectQueue[i].c = x
        /\ \A x : (\E i \in DOMAIN dataQueue' : dataQueue'[i] = x) => \E i \in DOMAIN dataQueue : dataQueue[i] = x
        /\ \A x : (\E i \in DOMAIN errorQueue' : errorQueue'[i] = x) => \E i \in DOMAIN errorQueue : errorQueue[i] = x
    BY DEF Remains
  <2>2. \A x \in Contexts : call'.new # x
    BY <1>4, Names
  <2> QED
    BY <1>2, <2>1, <2>2 DEF InFlight, HasJob, Resolving, Deletes
<1>6. TypeOK'
  BY <1>1, <1>2, <1>3, <1>4, TypeIs, TypeIsNext
<1>7. RunInv'
  BY <1>1, <1>2, <1>4, Names DEF RunInv
<1>8. BirthInv'
  BY <1>1, <1>2, <1>3, <1>5 DEF BirthInv, Same
<1>9. Remains(jobs', jobs) /\ jobs' \in Seq(Jobs) /\ \A s \in Sockets : SameSock(s)
  BY <1>1, <1>2, TypeIs, RemainsIs DEF SameSock
<1>10. SocketInv'
  <2>1. Starting' => Starting /\ uv'.c = uv.c /\ ctx'[uv.c].socket = ctx[uv.c].socket
    BY <1>1, <1>2, <1>3, Running DEF Starting, Same
  <2> QED
    BY <1>1, <1>3, <1>9, <2>1, Names, SocketKept DEF Same
<1>11. ResolveInv'
  BY <1>1, <1>2, <1>3, <1>5, <1>9, ResolveKept DEF Same
<1>12. DeleteIsLast'
  BY <1>1, <1>3, <1>9, LastKept DEF Same
<1>13. DeleteInv'
  BY <1>1, <1>2, <1>3, <1>5, Running DEF DeleteInv, Same, Valid
<1>14. EndInv'
  BY <1>1, <1>2, EndRunning DEF EndInv
<1>15. ASSUME OrderInv
       PROVE  OrderInv'
  <2>1. \A i \in DOMAIN jobs' : jobs'[i].fn = "UV_StartRead" => call'.new # jobs'[i].c
    BY <1>1, <1>2, <1>4, Elements, JobIs, Names
  <2> QED
    BY <1>1, <1>3, <1>4, <1>9, <1>15, <2>1, OrderKept DEF Same
<1>16. ASSUME QuietInv
       PROVE  QuietInv'
  <2>1. \A x \in Contexts : (ctx'[x].deleted => ~ InFlight(x)') /\ (HasJob(x)' => ctx'[x].life = "live")
    BY <1>3, <1>5, <1>16 DEF QuietInv, Same
  <2>2. \A i \in DOMAIN jobs' : jobs'[i].fn \in {"UV_OnAsyncWrite", "UV_StartRead"} => ctx'[jobs'[i].c].stream # NONE
    BY <1>1, <1>2, <1>3, <1>16, StreamJobs DEF Same
  <2> QED
    BY <1>1, <1>2, <1>3, <1>4, <1>9, <1>16, <2>1, <2>2, QuietKept DEF QuietInv, Same
<1> QED
  BY <1>2, <1>6, <1>7, <1>8, <1>10, <1>11, <1>12, <1>13, <1>14, <1>15, <1>16 DEF IndInv

(* A context that is used without being there takes a risk. *)
LEMMA TouchStep ==
  ASSUME IndInv, NEW c \in Contexts, InFlight(c) \/ HasJob(c), ctx[c].life # "live", Undefined("freed_context")
  PROVE  IndInv'
<1>1. hasty # {}
  BY Alive
<1> QED
  BY <1>1, UndefinedStep DEF Undefinedness

(* A client's connection was made, data came, or an error. *)
LEMMA ConnectedStep ==
  ASSUME IndInv, Connected \/ OnData \/ OnError
  PROVE  IndInv'
<1>1. TypeOK /\ connectQueue \in Seq(Connects_) /\ dataQueue \in Seq(Contexts) /\ errorQueue \in Seq(Contexts)
  BY TypeIs DEF IndInv
<1>2. /\ Remains(connectQueue, connectQueue) /\ Remains(dataQueue, dataQueue) /\ Remains(errorQueue, errorQueue)
      /\ connectQueue # <<>> => /\ Remains(Tail(connectQueue), connectQueue) /\ Tail(connectQueue) \in Seq(Connects_)
                                /\ Head(connectQueue) = connectQueue[1] /\ 1 \in DOMAIN connectQueue
      /\ dataQueue # <<>> => /\ Remains(Tail(dataQueue), dataQueue) /\ Tail(dataQueue) \in Seq(Contexts)
                             /\ Head(dataQueue) = dataQueue[1] /\ 1 \in DOMAIN dataQueue
      /\ errorQueue # <<>> => /\ Remains(Tail(errorQueue), errorQueue) /\ Tail(errorQueue) \in Seq(Contexts)
                              /\ Head(errorQueue) = errorQueue[1] /\ 1 \in DOMAIN errorQueue
  BY <1>1, RemainsIs, Popped
<1>3. CASE Connected
  <2>1. connectQueue # <<>> /\ phase # "none" /\ call = NoCall
    BY <1>3 DEF Connected, InPhase
  <2>2. PICK c \in Contexts : c = Head(connectQueue).c /\ InFlight(c)
    BY <1>1, <1>2, <2>1, Elements DEF InFlight
  <2>3. CASE ctx[c].life = "live"
    <3>1. connectQueue' = Tail(connectQueue) /\ Callback("Connected", c) /\ dataQueue' = dataQueue /\ errorQueue' = errorQueue
      BY <1>3, <2>2, <2>3 DEF Connected, Touch
    <3> QED
      BY <1>1, <1>2, <2>1, <3>1, EventStep
  <2>4. CASE ctx[c].life # "live"
    BY <1>3, <2>2, <2>4, TouchStep DEF Connected, Touch
  <2> QED
    BY <2>3, <2>4
<1>4. CASE OnData
  <2>1. dataQueue # <<>> /\ phase # "none" /\ call = NoCall
    BY <1>4 DEF OnData, InPhase
  <2>2. PICK c \in Contexts : c = Head(dataQueue) /\ InFlight(c)
    BY <1>1, <1>2, <2>1, Elements DEF InFlight
  <2>3. CASE ctx[c].life = "live"
    <3>1. dataQueue' = Tail(dataQueue) /\ Callback("OnData", c) /\ connectQueue' = connectQueue /\ errorQueue' = errorQueue
      BY <1>4, <2>2, <2>3 DEF OnData, Touch
    <3> QED
      BY <1>1, <1>2, <2>1, <3>1, EventStep
  <2>4. CASE ctx[c].life # "live"
    BY <1>4, <2>2, <2>4, TouchStep DEF OnData, Touch
  <2> QED
    BY <2>3, <2>4
<1>5. CASE OnError
  <2>1. errorQueue # <<>> /\ phase # "none" /\ call = NoCall
    BY <1>5 DEF OnError, InPhase
  <2>2. PICK c \in Contexts : c = Head(errorQueue) /\ InFlight(c)
    BY <1>1, <1>2, <2>1, Elements DEF InFlight
  <2>3. CASE ctx[c].life = "live"
    <3>1. errorQueue' = Tail(errorQueue) /\ Callback("OnError", c) /\ connectQueue' = connectQueue /\ dataQueue' = dataQueue
      BY <1>5, <2>2, <2>3 DEF OnError, Touch
    <3> QED
      BY <1>1, <1>2, <2>1, <3>1, EventStep
  <2>4. CASE ctx[c].life # "live"
    BY <1>5, <2>2, <2>4, TouchStep DEF OnError, Touch
  <2> QED
    BY <2>3, <2>4
<1> QED
  BY <1>3, <1>4, <1>5

(* A callback returns, and may leave a job behind. *)
LEMMA ReturnsStep ==
  ASSUME IndInv, UNCHANGED <<ctx, sock, resolver, queues, phase, native, uv, mode, hasty>>, call' = NoCall, native = NoNative, mode = "running",
         \/ jobs' = jobs
         \/ \E x \in Contexts : /\ jobs' = Append(jobs, Job("UV_StartRead", x))
                                /\ ctx[x].life = "live" /\ ~ ctx[x].deleted /\ call.new = x
  PROVE  IndInv'
<1>1. TypeOK /\ RunInv /\ BirthInv /\ SocketInv /\ ResolveInv /\ DeleteIsLast /\ DeleteInv /\ EndInv
  BY DEF IndInv
<1>2. /\ ctx' = ctx /\ sock' = sock /\ resolver' = resolver /\ connectQueue' = connectQueue /\ dataQueue' = dataQueue
      /\ errorQueue' = errorQueue /\ phase' = phase /\ native' = native /\ uv' = uv /\ mode' = mode /\ hasty' = hasty
      /\ call' = NoCall
  BY DEF queues
<1>3. call' \in Calls /\ call'.fn = "none" /\ call'.new = NONE
  BY <1>2 DEF Calls, NoCall
<1>4. RunInv'
  BY <1>1, <1>2 DEF RunInv
<1>5. /\ jobs' \in Seq(Jobs)
      /\ \A x \in Contexts : (Deletes(x)' <=> Deletes(x)) /\ (HasJob(x)' => HasJob(x) \/ (ctx[x].life = "live" /\ ~ ctx[x].deleted))
      /\ \A i \in DOMAIN jobs' : \/ jobs'[i].fn = "UV_StartRead" /\ jobs'[i].c \in Contexts /\ call.new = jobs'[i].c
                                 \/ i \in DOMAIN jobs /\ jobs'[i] = jobs[i]
      /\ ResolveInv' /\ DeleteIsLast'
  <2>1. \A x : Resolving(x)' <=> Resolving(x)
    BY <1>2 DEF Resolving
  <2>2. CASE jobs' = jobs
    <3>1. Remains(jobs', jobs) /\ jobs' \in Seq(Jobs)
      BY <1>1, <2>2, TypeIs, RemainsIs
    <3>2. ResolveInv' /\ DeleteIsLast'
      BY <1>1, <1>2, <2>1, <3>1, ResolveKept, LastKept
    <3> QED
      BY <2>2, <3>1, <3>2 DEF Deletes, HasJob
  <2>3. ASSUME NEW x \in Contexts, jobs' = Append(jobs, Job("UV_StartRead", x)), ctx[x].life = "live", ~ ctx[x].deleted, call.new = x
        PROVE  /\ jobs' \in Seq(Jobs)
               /\ \A y \in Contexts : (Deletes(y)' <=> Deletes(y)) /\ (HasJob(y)' => HasJob(y) \/ (ctx[y].life = "live" /\ ~ ctx[y].deleted))
               /\ \A i \in DOMAIN jobs' : \/ jobs'[i].fn = "UV_StartRead" /\ jobs'[i].c \in Contexts /\ call.new = jobs'[i].c
                                          \/ i \in DOMAIN jobs /\ jobs'[i] = jobs[i]
               /\ ResolveInv' /\ DeleteIsLast'
    <3> DEFINE j == Job("UV_StartRead", x)
    <3>1. j \in Jobs /\ j.fn = "UV_StartRead" /\ j.c = x /\ \A y : j # Job("UV_OnAsyncResolve", y) /\ j # Job("UV_DeleteAsyncContext", y)
      BY JobIs DEF JobFns, Job
    <3>2. jobs' = Append(jobs, j)
      BY <2>3
    <3> HIDE DEF j
    <3>3. ~ Deletes(x)
      BY <1>1, <2>3 DEF Deletes, DeleteIsLast, Job
    <3>4. ResolveInv' /\ DeleteIsLast'
      BY <1>1, <1>2, <2>1, <3>1, <3>2, <3>3, ResolveAppend, LastAppend
    <3>5. /\ jobs' \in Seq(Jobs)
          /\ \A y : (HasJob(y)' => HasJob(y) \/ y = x) /\ (Deletes(y)' <=> Deletes(y))
          /\ \A i \in DOMAIN jobs' : jobs'[i] = j \/ (i \in DOMAIN jobs /\ jobs'[i] = jobs[i])
      BY <1>1, <3>1, <3>2, Appended
    <3> QED
      BY <2>3, <3>1, <3>4, <3>5
  <2> QED
    BY <2>2, <2>3
<1>6. \A x \in Contexts : InFlight(x)' => InFlight(x)
  <2>1. \A x \in Contexts : (\E i \in DOMAIN jobs' : jobs'[i] = Job("UV_OnAsyncResolve", x)) =>
                              \E i \in DOMAIN jobs : jobs[i] = Job("UV_OnAsyncResolve", x)
    BY <1>5 DEF Job
  <2> QED
    BY <1>2, <1>3, <2>1, Names DEF InFlight
<1>7. TypeOK'
  BY <1>1, <1>2, <1>3, <1>5, TypeIs, TypeIsNext
<1>8. BirthInv'
  BY <1>1, <1>2, <1>5, <1>6 DEF BirthInv
<1>9. SocketInv'
  <2>1. (Starting' <=> Starting) /\ \A s : Fresh(s)' <=> Fresh(s)
    BY <1>2 DEF Starting, Fresh
  <2> QED
    BY <1>1, <1>2, <2>1 DEF SocketInv
<1>10. DeleteInv'
  BY <1>1, <1>2, <1>5, Running DEF DeleteInv, Valid
<1>11. EndInv'
  BY <1>1, <1>2, <1>5, EndRunning DEF EndInv
<1>12. Remains(connectQueue', connectQueue) /\ \A s \in Sockets : SameSock(s)
  BY <1>1, <1>2, TypeIs, RemainsIs DEF SameSock
<1>13. ASSUME OrderInv
       PROVE  OrderInv'
  <2>1. \A i \in DOMAIN jobs' : jobs'[i].fn = "UV_StartRead" => call'.new # jobs'[i].c
    BY <1>1, <1>3, <1>5, Elements, JobIs, Names
  <2> QED
    BY <1>1, <1>2, <1>3, <1>12, <1>13, <2>1, OrderKept
<1>14. ASSUME QuietInv
       PROVE  QuietInv'
  <2>1. \A x \in Contexts : (ctx'[x].deleted => ~ InFlight(x)') /\ (HasJob(x)' => ctx'[x].life = "live")
    BY <1>2, <1>5, <1>6, <1>14 DEF QuietInv
  <2>2. \A i \in DOMAIN jobs' : jobs'[i].fn \in {"UV_OnAsyncWrite", "UV_StartRead"} => ctx'[jobs'[i].c].stream # NONE
    BY <1>1, <1>2, <1>5, <1>14, StreamJobs DEF QuietInv
  <2> QED
    BY <1>1, <1>2, <1>3, <1>12, <1>14, <2>1, <2>2, QuietKept DEF QuietInv
<1> QED
  BY <1>2, <1>4, <1>5, <1>7, <1>8, <1>9, <1>10, <1>11, <1>13, <1>14 DEF IndInv

LEMMA ReturnStep ==
  ASSUME IndInv, Return \/ ReturnOnConnect
  PROVE  IndInv'
<1>1. TypeOK /\ RunInv
  BY DEF IndInv
<1>2. mode = "running" /\ native = NoNative
  BY <1>1, Running DEF Return, ReturnOnConnect, RunInv
<1>3. CASE Return
  BY <1>2, <1>3, ReturnsStep DEF Return
<1>4. CASE ReturnOnConnect
  <2>1. PICK s \in Contexts : call.new = s /\ InFlight(s)
    BY <1>1, <1>4, Names, Running DEF ReturnOnConnect, RunInv, InFlight
  <2>2. CASE ctx[s].life = "live"
    <3>1. /\ jobs' = IF ctx[s].deleted THEN jobs ELSE Append(jobs, Job("UV_StartRead", s))
          /\ UNCHANGED <<ctx, sock, resolver, queues, phase, native, uv, mode, hasty>> /\ call' = NoCall
      BY <1>4, <2>1, <2>2 DEF ReturnOnConnect, Touch
    <3>2. \/ jobs' = jobs
          \/ \E x \in Contexts : /\ jobs' = Append(jobs, Job("UV_StartRead", x))
                                 /\ ctx[x].life = "live" /\ ~ ctx[x].deleted /\ call.new = x
      BY <2>1, <2>2, <3>1
    <3> QED
      BY <1>2, <3>1, <3>2, ReturnsStep
  <2>3. CASE ctx[s].life # "live"
    BY <1>4, <2>1, <2>3, TouchStep DEF ReturnOnConnect, Touch
  <2> QED
    BY <2>2, <2>3
<1> QED
  BY <1>3, <1>4

(* A server's connection gets a context of its own, and the server's callback runs. *)
LEMMA AcceptedStep ==
  ASSUME IndInv, Accepted
  PROVE  IndInv'
<1>1. TypeOK /\ RunInv /\ BirthInv /\ SocketInv /\ ResolveInv /\ DeleteIsLast /\ DeleteInv /\ EndInv
  BY DEF IndInv
<1>2. connectQueue # <<>> /\ phase = "connect" /\ call = NoCall /\ native = NoNative /\ mode = "running"
  BY <1>1 DEF Accepted, InPhase, RunInv
<1>3. connectQueue \in Seq(Connects_)
  BY <1>1, TypeIs
<1>4. /\ Tail(connectQueue) \in Seq(Connects_) /\ Head(connectQueue) = connectQueue[1] /\ 1 \in DOMAIN connectQueue
      /\ \A i \in DOMAIN Tail(connectQueue) : i + 1 \in DOMAIN connectQueue /\ Tail(connectQueue)[i] = connectQueue[i + 1] /\ i \in Nat
  BY <1>2, <1>3, Popped
<1>5. PICK c \in Contexts : c = Head(connectQueue).c /\ InFlight(c)
  BY <1>1, <1>4, Elements DEF InFlight
<1>6. PICK s \in Sockets : s = Head(connectQueue).s /\ connectQueue[1].s = s /\ connectQueue[1].c = c
  BY <1>1, <1>4, <1>5, Elements
<1>7. /\ ctx[s].life = "none" /\ sock[s].state # "none" /\ s \in Contexts
      /\ \A j \in DOMAIN connectQueue : connectQueue[j].s = s => j = 1
  BY <1>1, <1>4, <1>6, Names DEF SocketInv
<1>8. CASE ctx[c].life # "live"
  BY <1>5, <1>8, TouchStep DEF Accepted, Touch
<1>9. CASE ctx[c].life = "live" /\ sock[s].state \notin {"open", "closing"}
  <2>1. ctx[c].server /\ Undefined("freed_handle")
    BY <1>5, <1>6, <1>9 DEF Accepted, Touch, TouchHandle
  <2>2. hasty # {}
    <3> SUFFICES ASSUME hasty = {}
                 PROVE  FALSE
      OBVIOUS
    <3>1. OrderInv /\ QuietInv
      BY DEF IndInv
    <3>2. sock[s].data = NONE
      BY <1>4, <1>6, <2>1, <3>1 DEF OrderInv
    <3>3. sock[s].state = "open"
      BY <1>2, <1>4, <1>6, <3>1, <3>2 DEF QuietInv
    <3> QED
      BY <1>9, <3>3
  <2> QED
    BY <2>1, <2>2, UndefinedStep DEF Undefinedness
<1>10. CASE ctx[c].life = "live" /\ sock[s].state \in {"open", "closing"}
  <2>1. /\ ctx[c].server
        /\ ctx' = [ctx EXCEPT ![s] = [NewContext EXCEPT !.stream = s, !.announced = TRUE], ![c].pendingCallback = FALSE]
        /\ sock' = [sock EXCEPT ![s].data = s] /\ call' = [fn |-> "OnConnect", c |-> c, new |-> s]
        /\ connectQueue' = Tail(connectQueue) /\ resolver' = resolver /\ jobs' = jobs /\ dataQueue' = dataQueue
        /\ errorQueue' = errorQueue /\ phase' = phase /\ native' = native /\ uv' = uv /\ mode' = mode /\ hasty' = hasty
    BY <1>5, <1>6, <1>10 DEF Accepted, Touch, TouchHandle
  <2>2. c # s /\ ctx \in [Contexts -> CtxRecords] /\ sock \in [Sockets -> SockRecords]
    BY <1>1, <1>7, <1>10, TypeIs
  <2> DEFINE n == [NewContext EXCEPT !.stream = s, !.announced = TRUE]
             r == [ctx[c] EXCEPT !.pendingCallback = FALSE]
  <2>3. /\ n \in CtxRecords /\ n.life = "live" /\ ~ n.deleted /\ ~ n.server /\ n.socket = NONE /\ n.stream = s
        /\ r \in CtxRecords /\ r.life = ctx[c].life /\ (r.deleted <=> ctx[c].deleted) /\ (r.pending <=> ctx[c].pending)
        /\ (r.server <=> ctx[c].server) /\ r.socket = ctx[c].socket /\ r.stream = ctx[c].stream
    <3>1. ctx[c] \in CtxRecords
      BY <2>2
    <3> QED
      BY <3>1 DEF CtxRecords, NewContext
  <2>4. ctx' = [ctx EXCEPT ![s] = n, ![c] = r]
    BY <1>7, <2>1, <2>2
  <2> HIDE DEF n, r
  <2>5. /\ ctx' \in [Contexts -> CtxRecords] /\ ctx'[s] = n
        /\ \A x \in Contexts : x # s => Same(x)
    BY <1>7, <2>2, <2>3, <2>4 DEF Same
  <2>6. /\ sock' \in [Sockets -> SockRecords] /\ sock'[s].data = s
        /\ \A t \in Sockets : sock'[t].state = sock[t].state /\ sock'[t].use = sock[t].use /\ (t # s => sock'[t].data = sock[t].data)
    BY <1>7, <2>1, <2>2 DEF SockRecords
  <2>7. call' \in Calls /\ call'.fn = "OnConnect" /\ call'.c = c /\ call'.new = s
    BY <2>1 DEF Calls
  <2>8. ~ HasJob(s) /\ ~ InFlight(s) /\ native.c # s /\ \A t \in Sockets : sock[t].data # s
    BY <1>1, <1>7 DEF BirthInv
  <2>9. \A i \in DOMAIN connectQueue' : /\ i + 1 \in DOMAIN connectQueue /\ connectQueue'[i] = connectQueue[i + 1] /\ i \in Nat
                                        /\ connectQueue'[i].s # s
    <3>1. \A i \in Nat : i + 1 = 1 => i = 0
      OBVIOUS
    <3>2. \A i \in DOMAIN connectQueue' : i # 0
      BY <1>4, <2>1
    <3> QED
      BY <1>4, <1>7, <2>1, <3>1, <3>2
  <2>10. \A x \in Contexts : /\ x # s => (InFlight(x)' => InFlight(x))
                             /\ (HasJob(x)' <=> HasJob(x)) /\ (Resolving(x)' <=> Resolving(x)) /\ (Deletes(x)' <=> Deletes(x))
    <3>1. \A x \in Contexts : (HasJob(x)' <=> HasJob(x)) /\ (Resolving(x)' <=> Resolving(x)) /\ (Deletes(x)' <=> Deletes(x))
      BY <2>1 DEF HasJob, Resolving, Deletes
    <3>2. ASSUME NEW x \in Contexts, x # s, InFlight(x)'
          PROVE  InFlight(x)
      <4>1. (\E i \in DOMAIN connectQueue' : connectQueue'[i].c = x) => \E i \in DOMAIN connectQueue : connectQueue[i].c = x
        BY <2>9
      <4>2. \A t \in Sockets : sock'[t].data = x => sock[t].data = x
        BY <2>6, <3>2
      <4> QED
        BY <2>1, <2>6, <2>7, <3>2, <4>1, <4>2 DEF InFlight
    <3> QED
      BY <3>1, <3>2
  <2>11. TypeOK'
    BY <1>1, <1>4, <2>1, <2>5, <2>6, <2>7, TypeIs, TypeIsNext
  <2>12. RunInv'
    BY <1>1, <1>2, <2>1, <2>7 DEF RunInv
  <2>13. BirthInv'
    <3>1. \A t \in Sockets : \A x \in Contexts : x # s => (sock'[t].data = x => sock[t].data = x)
      BY <2>6
    <3> SUFFICES ASSUME NEW x \in Contexts
                 PROVE  /\ ctx'[x].life = "none" =>
                             /\ ~ ctx'[x].deleted /\ ctx'[x].socket = NONE /\ ctx'[x].stream = NONE
                             /\ ~ HasJob(x)' /\ ~ InFlight(x)' /\ native'.c # x
                             /\ \A t \in Sockets : sock'[t].data # x
                        /\ ctx'[x].life = "freed" => ctx'[x].deleted
      BY DEF BirthInv
    <3>2. CASE x = s
      BY <2>3, <2>5, <3>2
    <3>3. CASE x # s
      <4>1. Same(x)
        BY <2>5, <3>3
      <4> QED
        BY <1>1, <2>1, <2>10, <3>1, <3>3, <4>1 DEF BirthInv, Same
    <3> QED
      BY <3>2, <3>3
  <2>14. SocketInv'
    <3>1. \A t \in Sockets : t # s /\ Fresh(t) => Fresh(t)'
      <4> SUFFICES ASSUME NEW t \in Sockets, t # s, Fresh(t)
                   PROVE  Fresh(t)'
        OBVIOUS
      <4>1. ctx'[t].life = "none"
        BY <2>5, Names DEF Fresh, Same
      <4>2. \A i \in DOMAIN connectQueue' : connectQueue'[i].s # t
        BY <2>9 DEF Fresh
      <4>3. \A x \in Contexts : ctx'[x].stream # t
        BY <2>3, <2>5 DEF Fresh, Same
      <4> QED
        BY <4>1, <4>2, <4>3 DEF Fresh
    <3>2. ~ Fresh(s)
      BY <1>4, <1>6 DEF Fresh
    <3>3. ASSUME NEW t \in Sockets
          PROVE  /\ sock'[t].use \notin {"idle"} => sock'[t].data \in Contexts
                 /\ sock'[t].state = "none" =>
                      /\ sock'[t].data = NONE /\ sock'[t].use = "idle" /\ Fresh(t)'
                      /\ \A x \in Contexts : ctx'[x].socket # t
                 /\ sock'[t].use = "connecting" => Fresh(t)'
      <4>1. \A x \in Contexts : ctx'[x].socket = ctx[x].socket \/ ctx'[x].socket = NONE
        BY <2>3, <2>5 DEF Same
      <4> QED
        BY <1>1, <1>7, <2>6, <3>1, <3>2, <4>1, Names DEF SocketInv
    <3>4. Starting' => \E t \in Sockets :
            ctx'[uv'.c].socket = t /\ sock'[t].state = "open" /\ sock'[t].use = "idle" /\ sock'[t].data = uv'.c /\ Fresh(t)'
      <4> SUFFICES ASSUME Starting
                   PROVE  \E t \in Sockets : ctx'[uv.c].socket = t /\ sock'[t].state = "open" /\ sock'[t].use = "idle"
                                             /\ sock'[t].data = uv.c /\ Fresh(t)'
        BY <2>1 DEF Starting
      <4>1. uv.c \in Contexts /\ uv.c # s
        BY <1>1, <2>8, Running DEF Starting, InFlight
      <4>2. PICK t \in Sockets : ctx[uv.c].socket = t /\ sock[t].state = "open" /\ sock[t].use = "idle" /\ sock[t].data = uv.c /\ Fresh(t)
        BY <1>1 DEF SocketInv
      <4>3. t # s
        BY <3>2, <4>2
      <4> QED
        BY <2>5, <2>6, <3>1, <4>1, <4>2, <4>3 DEF Same
    <3>5. \A x \in Contexts : \A t \in Sockets : ctx'[x].stream = t \/ ctx'[x].socket = t => sock'[t].data \in Contexts
      <4> SUFFICES ASSUME NEW x \in Contexts, NEW t \in Sockets, ctx'[x].stream = t \/ ctx'[x].socket = t, t # s
                   PROVE  sock'[t].data \in Contexts
        BY <1>7, <2>6
      <4>1. x # s
        BY <2>3, <2>5, Names
      <4> QED
        BY <1>1, <2>5, <2>6, <4>1 DEF SocketInv, Same
    <3>6. \A i \in DOMAIN connectQueue' :
            /\ ctx'[connectQueue'[i].s].life = "none" /\ sock'[connectQueue'[i].s].state # "none"
            /\ \A j \in DOMAIN connectQueue' : connectQueue'[i].s = connectQueue'[j].s => i = j
      <4> SUFFICES ASSUME NEW i \in DOMAIN connectQueue'
                   PROVE  /\ ctx'[connectQueue'[i].s].life = "none" /\ sock'[connectQueue'[i].s].state # "none"
                          /\ \A j \in DOMAIN connectQueue' : connectQueue'[i].s = connectQueue'[j].s => i = j
        OBVIOUS
      <4>1. i + 1 \in DOMAIN connectQueue /\ connectQueue'[i] = connectQueue[i + 1] /\ i \in Nat /\ connectQueue'[i].s # s
        BY <2>9
      <4>2. PICK t \in Sockets : connectQueue[i + 1].s = t
        BY <1>1, <4>1, Elements
      <4>3. ctx[t].life = "none" /\ sock[t].state # "none" /\ \A j \in DOMAIN connectQueue : t = connectQueue[j].s => i + 1 = j
        BY <1>1, <4>1, <4>2 DEF SocketInv
      <4>4. ctx'[t].life = "none" /\ sock'[t].state # "none"
        BY <2>5, <2>6, <4>1, <4>2, <4>3, Names DEF Same
      <4>5. ASSUME NEW j \in DOMAIN connectQueue', connectQueue'[i].s = connectQueue'[j].s
            PROVE  i = j
        <5>1. j + 1 \in DOMAIN connectQueue /\ connectQueue'[j] = connectQueue[j + 1] /\ j \in Nat
          BY <2>9
        <5>2. i + 1 = j + 1
          BY <4>1, <4>2, <4>3, <4>5, <5>1
        <5> QED
          BY <4>1, <5>1, <5>2
      <4> QED
        BY <4>1, <4>2, <4>4, <4>5
    <3> QED
      BY <3>3, <3>4, <3>5, <3>6 DEF SocketInv
  <2>15. Remains(jobs', jobs) /\ jobs' \in Seq(Jobs)
    BY <1>1, <2>1, TypeIs, RemainsIs
  <2>16. ResolveInv'
    <3>1. \A x \in Contexts : InFlight(x) /\ ctx[x].pending => ctx'[x].pending
      BY <2>5, <2>8 DEF Same
    <3> QED
      BY <1>1, <2>1, <2>10, <2>15, <3>1, ResolveKept
  <2>17. DeleteIsLast'
    <3>1. \A x \in Contexts : ctx[x].life = "live" /\ ctx[x].deleted /\ Deletes(x)' => ctx'[x].life = "live" /\ ctx'[x].deleted
      BY <1>7, <2>5 DEF Same
    <3> QED
      BY <1>1, <2>15, <3>1, LastKept
  <2>18. DeleteInv'
    <3>1. native'.fn = "none" /\ native.fn = "none"
      BY <1>2, <2>1 DEF NoNative
    <3>2. ASSUME NEW x \in Contexts, ctx'[x].life = "live", ctx'[x].deleted, mode \notin Undefinedness
          PROVE  Deletes(x)'
      <4>1. x # s /\ Same(x)
        BY <2>3, <2>5, <3>2
      <4> QED
        BY <1>1, <2>10, <3>1, <3>2, <4>1 DEF DeleteInv, Same
    <3> QED
      BY <2>1, <3>1, <3>2 DEF DeleteInv
  <2>19. EndInv'
    BY <1>1, <1>2, <2>1, EndRunning DEF EndInv
  <2>20. ASSUME OrderInv
         PROVE  OrderInv'
    <3>1. sock[s].data = NONE /\ sock[s].use = "idle"
      BY <1>4, <1>6, <2>1, <2>20 DEF OrderInv
    <3>2. \A x \in Contexts, t \in Sockets : ctx'[x].stream = t \/ ctx'[x].socket = t => sock'[t].data = x
      <4> SUFFICES ASSUME NEW x \in Contexts, NEW t \in Sockets, ctx'[x].stream = t \/ ctx'[x].socket = t
                   PROVE  sock'[t].data = x
        OBVIOUS
      <4>1. CASE x = s
        BY <2>3, <2>5, <2>6, <4>1, Names
      <4>2. CASE x # s
        <5>1. sock[t].data = x
          BY <2>5, <2>20, <4>2 DEF OrderInv, Same
        <5>2. t # s
          BY <3>1, <5>1, Names
        <5> QED
          BY <2>6, <5>1, <5>2
      <4> QED
        BY <4>1, <4>2
    <3>3. ASSUME NEW t \in Sockets, sock'[t].state = "open"
          PROVE  /\ sock'[t].use = "connecting" => ~ ctx'[sock'[t].data].server
                 /\ sock'[t].use = "listening" => ctx'[sock'[t].data].server
      <4>1. CASE t = s
        BY <2>6, <3>1, <4>1
      <4>2. CASE t # s
        <5>1. sock[t].data # s /\ (sock[t].use # "idle" => sock[t].data \in Contexts)
          BY <1>1, <2>8 DEF SocketInv
        <5> QED
          BY <2>5, <2>6, <2>20, <3>3, <4>2, <5>1 DEF OrderInv, Same
      <4> QED
        BY <4>1, <4>2
    <3>4. ASSUME NEW i \in DOMAIN connectQueue'
          PROVE  IF ctx'[connectQueue'[i].c].server
                   THEN sock'[connectQueue'[i].s].data = NONE /\ sock'[connectQueue'[i].s].use = "idle"
                   ELSE sock'[connectQueue'[i].s].data = connectQueue'[i].c
      <4>1. i + 1 \in DOMAIN connectQueue /\ connectQueue'[i] = connectQueue[i + 1] /\ connectQueue'[i].s # s
        BY <2>9
      <4>2. PICK x \in Contexts, t \in Sockets : connectQueue[i + 1].c = x /\ connectQueue[i + 1].s = t
        BY <1>1, <4>1, Elements
      <4>3. x # s
        BY <2>8, <4>1, <4>2 DEF InFlight
      <4>4. IF ctx[x].server THEN sock[t].data = NONE /\ sock[t].use = "idle" ELSE sock[t].data = x
        BY <2>20, <4>1, <4>2 DEF OrderInv
      <4>5. (ctx'[x].server <=> ctx[x].server) /\ sock'[t].data = sock[t].data /\ sock'[t].use = sock[t].use
        BY <2>5, <2>6, <4>1, <4>2, <4>3 DEF Same
      <4> QED
        BY <4>1, <4>2, <4>4, <4>5
    <3>5. \A i \in DOMAIN jobs' : jobs'[i].fn = "UV_StartRead" => call'.new # jobs'[i].c
      BY <2>1, <2>7, <2>8 DEF HasJob
    <3>6. call'.fn = "OnConnect" => sock'[call'.new].data = call'.new /\ sock'[call'.new].use = "idle"
      BY <2>6, <2>7, <3>1
    <3> QED
      BY <3>2, <3>3, <3>4, <3>5, <3>6 DEF OrderInv
  <2>21. ASSUME OrderInv, QuietInv
         PROVE  QuietInv'
    <3>1. sock[s].data = NONE
      BY <1>4, <1>6, <2>1, <2>21 DEF OrderInv
    <3>2. sock[s].state = "open"
      BY <1>2, <1>4, <1>6, <2>21, <3>1 DEF QuietInv
    <3>3. ASSUME NEW x \in Contexts
          PROVE  /\ ctx'[x].deleted => ~ InFlight(x)'
                 /\ HasJob(x)' => ctx'[x].life = "live"
                 /\ \A i \in DOMAIN jobs' : jobs'[i].c = x /\ jobs'[i].fn \in {"UV_OnAsyncWrite", "UV_StartRead"} => ctx'[x].stream # NONE
                 /\ call'.new = x => ctx'[x].stream # NONE
                 /\ ctx'[x].life = "live" => \A t \in Sockets : ctx'[x].stream = t \/ ctx'[x].socket = t => sock'[t].state = "open"
      <4>1. CASE x = s
        <5>1. \A i \in DOMAIN jobs' : jobs'[i].c # s
          BY <2>1, <2>8 DEF HasJob
        <5> QED
          BY <2>3, <2>5, <2>6, <2>8, <2>10, <3>2, <4>1, <5>1, Names
      <4>2. CASE x # s
        BY <2>1, <2>5, <2>6, <2>7, <2>10, <2>21, <4>2 DEF QuietInv, Same
      <4> QED
        BY <4>1, <4>2
    <3>4. \A t \in Sockets : sock'[t].use = "connecting" => sock'[t].state # "closing"
      BY <2>6, <2>21 DEF QuietInv
    <3>5. \A i \in DOMAIN connectQueue' : sock'[connectQueue'[i].s].data = NONE => sock'[connectQueue'[i].s].state = "open"
      <4> SUFFICES ASSUME NEW i \in DOMAIN connectQueue', sock'[connectQueue'[i].s].data = NONE
                   PROVE  sock'[connectQueue'[i].s].state = "open"
        OBVIOUS
      <4>1. i + 1 \in DOMAIN connectQueue /\ connectQueue'[i] = connectQueue[i + 1] /\ connectQueue'[i].s # s
        BY <2>9
      <4>2. PICK t \in Sockets : connectQueue[i + 1].s = t
        BY <1>1, <4>1, Elements
      <4> QED
        BY <1>2, <2>6, <2>21, <4>1, <4>2 DEF QuietInv
    <3>6. mode' \notin Undefinedness
      BY <2>1, <2>21 DEF QuietInv
    <3> QED
      BY <3>3, <3>4, <3>5, <3>6 DEF QuietInv
  <2> QED
    BY <1>1, <2>1, <2>11, <2>12, <2>13, <2>14, <2>16, <2>17, <2>18, <2>19, <2>20, <2>21 DEF IndInv
<1> QED
  BY <1>8, <1>9, <1>10
-----------------------------------------------------------------------------
(* The loop thread.  Its steps leave the game thread alone, and take at most one job. *)
Takes(fns) == jobs' = jobs \/ (jobs # <<>> /\ Head(jobs).fn \in fns /\ jobs' = Tail(jobs))

Ordinary == {"UV_OnAsyncResolve", "UV_OnAsyncWrite", "UV_StartRead"}

LEMMA TailEnds ==
  ASSUME TypeOK, EndInv, jobs # <<>>, Head(jobs).fn # "UV_Quit", jobs' = Tail(jobs)
  PROVE  /\ mode = "unloading" => jobs' # <<>> /\ \A i \in DOMAIN jobs' : jobs'[i].fn = "UV_Quit" <=> i = Len(jobs')
         /\ mode = "running" => \A i \in DOMAIN jobs' : jobs'[i].fn # "UV_Quit"
         /\ mode \notin Ended \ {"unloading"}
<1>1. /\ jobs' \in Seq(Jobs) /\ 1 \in DOMAIN jobs /\ jobs[1] = Head(jobs)
      /\ \A i \in DOMAIN jobs' : i \in Nat /\ i + 1 \in DOMAIN jobs /\ jobs'[i] = jobs[i + 1]
      /\ Len(jobs') = Len(jobs) - 1
  BY Tailed
<1>2. jobs[1].fn # "UV_Quit" /\ jobs \in Seq(Jobs) /\ Len(jobs) \in Nat
  BY <1>1, TypeIs
<1>3. ASSUME mode = "unloading"
      PROVE  jobs' # <<>> /\ \A i \in DOMAIN jobs' : jobs'[i].fn = "UV_Quit" <=> i = Len(jobs')
  <2>1. \A i \in DOMAIN jobs : jobs[i].fn = "UV_Quit" <=> i = Len(jobs)
    BY <1>3 DEF EndInv
  <2>2. Len(jobs) # 1 /\ Len(jobs) # 0
    BY <1>1, <1>2, <2>1
  <2>3. jobs' # <<>>
    <3>1. Len(jobs') # 0
      BY <1>1, <1>2, <2>2
    <3>2. Len(<<>>) = 0
      OBVIOUS
    <3> QED
      BY <3>1, <3>2
  <2>4. \A i \in DOMAIN jobs' : jobs'[i].fn = "UV_Quit" <=> i = Len(jobs')
    <3> SUFFICES ASSUME NEW i \in DOMAIN jobs'
                 PROVE  jobs'[i].fn = "UV_Quit" <=> i = Len(jobs')
      OBVIOUS
    <3>1. i \in Nat /\ i + 1 \in DOMAIN jobs /\ jobs'[i] = jobs[i + 1]
      BY <1>1
    <3>2. i + 1 = Len(jobs) <=> i = Len(jobs')
      BY <1>1, <1>2, <3>1
    <3> QED
      BY <2>1, <3>1, <3>2
  <2> QED
    BY <2>3, <2>4
<1>4. ASSUME mode = "running"
      PROVE  \A i \in DOMAIN jobs' : jobs'[i].fn # "UV_Quit"
  BY <1>1, <1>4 DEF EndInv
<1> QED
  BY <1>3, <1>4 DEF EndInv

LEMMA Taken ==
  ASSUME TypeOK, Takes(Ordinary)
  PROVE  /\ jobs' \in Seq(Jobs) /\ Remains(jobs', jobs)
         /\ \A x : (HasJob(x)' => HasJob(x)) /\ (Deletes(x)' <=> Deletes(x))
         /\ \A i \in DOMAIN jobs' : \E j \in DOMAIN jobs : jobs'[i] = jobs[j]
         /\ EndInv => /\ mode = "unloading" => jobs' # <<>> /\ \A i \in DOMAIN jobs' : jobs'[i].fn = "UV_Quit" <=> i = Len(jobs')
                      /\ mode = "running" => \A i \in DOMAIN jobs' : jobs'[i].fn # "UV_Quit"
                      /\ mode \in Ended \ {"unloading"} => jobs' = <<>>
<1>1. CASE jobs' = jobs
  <2>1. jobs' \in Seq(Jobs) /\ Remains(jobs', jobs)
    BY <1>1, TypeIs, RemainsIs
  <2> QED
    BY <1>1, <2>1 DEF HasJob, Deletes, EndInv
<1>2. CASE jobs # <<>> /\ Head(jobs).fn \in Ordinary /\ jobs' = Tail(jobs)
  <2>1. /\ jobs' \in Seq(Jobs) /\ Remains(jobs', jobs) /\ 1 \in DOMAIN jobs /\ jobs[1] = Head(jobs)
        /\ \A x : HasJob(x)' => HasJob(x)
        /\ \A x : Deletes(x)' => Deletes(x)
        /\ \A x : Deletes(x) => Deletes(x)' \/ Head(jobs) = Job("UV_DeleteAsyncContext", x)
        /\ \A i \in DOMAIN jobs' : i \in Nat /\ i + 1 \in DOMAIN jobs /\ jobs'[i] = jobs[i + 1]
        /\ Len(jobs') = Len(jobs) - 1
    BY <1>2, Tailed
  <2>2. \A x : Head(jobs) # Job("UV_DeleteAsyncContext", x)
    BY <1>2 DEF Job, Ordinary
  <2>3. EndInv => /\ mode = "unloading" => jobs' # <<>> /\ \A i \in DOMAIN jobs' : jobs'[i].fn = "UV_Quit" <=> i = Len(jobs')
                  /\ mode = "running" => \A i \in DOMAIN jobs' : jobs'[i].fn # "UV_Quit"
                  /\ mode \notin Ended \ {"unloading"}
    BY <1>2, TailEnds DEF Ordinary
  <2>4. \A x : Deletes(x)' <=> Deletes(x)
    BY <2>1, <2>2
  <2>5. \A i \in DOMAIN jobs' : \E j \in DOMAIN jobs : jobs'[i] = jobs[j]
    BY <2>1
  <2> QED
    BY <2>1, <2>3, <2>4, <2>5
<1> QED
  BY <1>1, <1>2 DEF Takes

(* Such a step, for the invariants that are not about handles. *)
LEMMA LoopKept ==
  ASSUME IndInv, phase' = phase, call' = call, native' = native, mode' = mode, Takes(Ordinary),
         uv' = NoUv \/ (uv'.fn # "none" /\ uv'.c \in Contexts),
         \A x \in Contexts :
           /\ ctx'[x].life = ctx[x].life /\ (ctx'[x].deleted <=> ctx[x].deleted)
           /\ ctx[x].life = "none" => /\ ctx'[x].socket = NONE /\ ctx'[x].stream = NONE /\ ~ InFlight(x)'
                                      /\ \A s \in Sockets : sock'[s].data # x,
         mode \notin {"joined", "unloaded"},
         mode = "closing" => uv' = NoUv /\ \A s \in Sockets : sock'[s].state # "open"
  PROVE  RunInv' /\ BirthInv' /\ DeleteIsLast' /\ DeleteInv' /\ EndInv'
<1>1. TypeOK /\ RunInv /\ BirthInv /\ DeleteIsLast /\ DeleteInv /\ EndInv
  BY DEF IndInv
<1>2. /\ jobs' \in Seq(Jobs) /\ Remains(jobs', jobs)
      /\ \A x : (HasJob(x)' => HasJob(x)) /\ (Deletes(x)' <=> Deletes(x))
      /\ mode = "unloading" => jobs' # <<>> /\ \A i \in DOMAIN jobs' : jobs'[i].fn = "UV_Quit" <=> i = Len(jobs')
      /\ mode = "running" => \A i \in DOMAIN jobs' : jobs'[i].fn # "UV_Quit"
      /\ mode \in Ended \ {"unloading"} => jobs' = <<>>
  BY <1>1, Taken
<1>3. RunInv'
  BY <1>1 DEF RunInv
<1>4. BirthInv'
  BY <1>1, <1>2 DEF BirthInv
<1>5. DeleteIsLast'
  BY <1>1, <1>2, LastKept
<1>6. DeleteInv'
  BY <1>1, <1>2, Running DEF DeleteInv, Valid
<1>7. EndInv'
  <2>1. mode \in Ended => \A x \in Contexts : ~ (ctx'[x].life = "live" /\ ~ ctx'[x].deleted)
    BY <1>1 DEF EndInv, Valid
  <2> QED
    BY <1>2, <2>1 DEF EndInv, Valid
<1> QED
  BY <1>3, <1>4, <1>5, <1>6, <1>7

(* A step of the loop thread that leaves the handles as they are. *)
LEMMA LoopStep ==
  ASSUME IndInv, phase' = phase, call' = call, native' = native, mode' = mode, hasty' = hasty, Takes(Ordinary), ResolveInv',
         connectQueue' = connectQueue, dataQueue' \in Seq(Contexts), errorQueue' \in Seq(Contexts),
         ctx' \in [Contexts -> CtxRecords], sock' \in [Sockets -> SockRecords], resolver' \in [Contexts -> Nat],
         uv' \in UvCalls, uv' = NoUv \/ (uv'.fn # "none" /\ uv'.c \in Contexts),
         \A s \in Sockets : SameSock(s),
         \A x \in Contexts :
           /\ ctx'[x].life = ctx[x].life /\ (ctx'[x].deleted <=> ctx[x].deleted) /\ (ctx'[x].server <=> ctx[x].server)
           /\ ctx'[x].stream = ctx[x].stream /\ ctx'[x].socket \in {ctx[x].socket, NONE}
           /\ InFlight(x)' => InFlight(x),
         Starting' => Starting /\ uv'.c = uv.c /\ ctx'[uv.c].socket = ctx[uv.c].socket,
         mode \notin {"joined", "unloaded"}, mode = "closing" => uv' = NoUv
  PROVE  IndInv'
<1>1. TypeOK /\ RunInv /\ BirthInv /\ SocketInv /\ EndInv
  BY DEF IndInv
<1>2. jobs' \in Seq(Jobs) /\ Remains(connectQueue', connectQueue)
  BY <1>1, Taken, TypeIs, RemainsIs
<1>3. TypeOK'
  BY <1>1, <1>2, TypeIs, TypeIsNext
<1>4. RunInv' /\ BirthInv' /\ DeleteIsLast' /\ DeleteInv' /\ EndInv'
  <2>1. \A x \in Contexts : ctx[x].life = "none" =>
          /\ ctx'[x].socket = NONE /\ ctx'[x].stream = NONE /\ ~ InFlight(x)' /\ \A s \in Sockets : sock'[s].data # x
    <3> SUFFICES ASSUME NEW x \in Contexts, ctx[x].life = "none"
                 PROVE  /\ ctx'[x].socket = NONE /\ ctx'[x].stream = NONE /\ ~ InFlight(x)'
                        /\ \A s \in Sockets : sock'[s].data # x
      OBVIOUS
    <3>1. ctx[x].socket = NONE /\ ctx[x].stream = NONE /\ ~ InFlight(x) /\ \A s \in Sockets : sock[s].data # x
      BY <1>1 DEF BirthInv
    <3>2. ~ InFlight(x)'
      BY <3>1
    <3>3. \A s \in Sockets : sock'[s].data = sock[s].data
      BY DEF SameSock
    <3>4. ctx'[x].socket = NONE /\ ctx'[x].stream = NONE
      BY <3>1
    <3> QED
      BY <3>1, <3>2, <3>3, <3>4
  <2>2. mode = "closing" => uv' = NoUv /\ \A s \in Sockets : sock'[s].state # "open"
    BY <1>1 DEF EndInv, SameSock
  <2> QED
    BY <2>1, <2>2, LoopKept
<1>5. SocketInv'
  BY <1>1, <1>2, Names, SocketKept
<1>6. ASSUME OrderInv
      PROVE  OrderInv'
  <2>1. \A i \in DOMAIN jobs' : jobs'[i].fn = "UV_StartRead" => call'.new # jobs'[i].c
    BY <1>1, <1>6, Taken DEF OrderInv
  <2> QED
    BY <1>1, <1>2, <1>6, <2>1, OrderKept
<1>7. ASSUME QuietInv
      PROVE  QuietInv'
  <2>1. \A x \in Contexts : (ctx'[x].deleted => ~ InFlight(x)') /\ (HasJob(x)' => ctx'[x].life = "live")
    BY <1>1, <1>7, Taken DEF QuietInv
  <2>2. \A i \in DOMAIN jobs' : jobs'[i].fn \in {"UV_OnAsyncWrite", "UV_StartRead"} => ctx'[jobs'[i].c].stream # NONE
    <3>1. \A i \in DOMAIN jobs' : \E j \in DOMAIN jobs : jobs'[i] = jobs[j]
      BY <1>1, Taken
    <3>2. \A j \in DOMAIN jobs : jobs[j].fn \in {"UV_OnAsyncWrite", "UV_StartRead"} =>
            jobs[j].c \in Contexts /\ ctx[jobs[j].c].stream # NONE
      BY <1>1, <1>7, StreamJobs
    <3>3. \A x \in Contexts : ctx'[x].stream = ctx[x].stream
      OBVIOUS
    <3> QED
      BY <3>1, <3>2, <3>3
  <2> QED
    BY <1>1, <1>2, <1>7, <2>1, <2>2, QuietKept DEF QuietInv
<1> QED
  BY <1>3, <1>4, <1>5, <1>6, <1>7 DEF IndInv

(* The job that is run next. *)
LEMMA NextIs ==
  ASSUME TypeOK, NEW fn \in JobFns, NextJob(fn)
  PROVE  /\ jobs # <<>> /\ 1 \in DOMAIN jobs /\ jobs[1] = Head(jobs) /\ Head(jobs) = Job(fn, Head(jobs).c)
         /\ Head(jobs).c \in Contexts /\ HasJob(Head(jobs).c) /\ uv = NoUv /\ mode \in {"running", "unloading", "stopping"}
<1>1. Head(jobs) \in Jobs /\ 1 \in DOMAIN jobs /\ jobs[1] = Head(jobs) /\ Head(jobs).fn = fn /\ jobs # <<>>
  BY TypeIs, Popped DEF NextJob
<1>2. Head(jobs).c \in Contexts /\ Head(jobs) = Job(fn, Head(jobs).c)
  BY <1>1, JobIs DEF JobFns
<1> QED
  BY <1>1, <1>2 DEF NextJob, LoopRuns, HasJob

(* UV_OnAsyncResolve asks for the address, or gives up. *)
LEMMA AsyncResolveStep ==
  ASSUME IndInv, AsyncResolve
  PROVE  IndInv'
<1>1. TypeOK /\ ResolveInv
  BY DEF IndInv
<1>2. /\ jobs # <<>> /\ uv = NoUv /\ mode \in {"running", "unloading", "stopping"} /\ Head(jobs).fn = "UV_OnAsyncResolve"
      /\ 1 \in DOMAIN jobs /\ jobs[1] = Head(jobs)
  BY <1>1, NextIs DEF AsyncResolve, JobFns, NextJob
<1>3. PICK c \in Contexts : c = Head(jobs).c /\ HasJob(c) /\ Head(jobs) = Job("UV_OnAsyncResolve", c)
  BY <1>1, NextIs DEF AsyncResolve, JobFns
<1>4. CASE ctx[c].life # "live"
  BY <1>3, <1>4, TouchStep DEF AsyncResolve, Touch
<1>5. CASE ctx[c].life = "live"
  <2>1. /\ uv' = NoUv \/ uv' = [fn |-> "uv_getaddrinfo", c |-> c]
        /\ jobs' = Tail(jobs) /\ ctx' = ctx /\ sock' = sock /\ resolver' = resolver /\ connectQueue' = connectQueue
        /\ dataQueue' = dataQueue /\ errorQueue' = errorQueue /\ phase' = phase /\ call' = call /\ native' = native
        /\ mode' = mode /\ hasty' = hasty
    BY <1>3, <1>5 DEF AsyncResolve, Touch, queues, game
  <2>2. uv' \in UvCalls /\ (uv' = NoUv \/ (uv'.fn # "none" /\ uv'.c \in Contexts)) /\ ~ Starting'
        /\ \A x \in Contexts : uv'.c = x => x = c
    <3>1. CASE uv' = NoUv
      BY <3>1, Names DEF UvCalls, NoUv, Starting
    <3>2. CASE uv' = [fn |-> "uv_getaddrinfo", c |-> c]
      BY <3>2 DEF UvCalls, Starting
    <3> QED
      BY <2>1, <3>1, <3>2
  <2>3. Takes(Ordinary) /\ jobs' \in Seq(Jobs) /\ InFlight(c)
    BY <1>1, <1>2, <1>3, <2>1, Tailed DEF Takes, Ordinary, InFlight
  <2>4. \A i \in DOMAIN jobs' : i \in Nat /\ i + 1 \in DOMAIN jobs /\ jobs'[i] = jobs[i + 1]
    BY <1>1, <1>2, <2>1, Tailed
  <2>5. \A x \in Contexts : InFlight(x)' => InFlight(x)
    <3>1. \A x : (\E i \in DOMAIN jobs' : jobs'[i] = Job("UV_OnAsyncResolve", x)) => \E i \in DOMAIN jobs : jobs[i] = Job("UV_OnAsyncResolve", x)
      BY <2>4
    <3> QED
      BY <2>1, <2>2, <2>3, <3>1 DEF InFlight
  <2>6. ResolveInv'
    <3>1. \A i \in DOMAIN jobs' : jobs'[i] # Job("UV_OnAsyncResolve", c)
      <4> SUFFICES ASSUME NEW i \in DOMAIN jobs', jobs'[i] = Job("UV_OnAsyncResolve", c)
                   PROVE  FALSE
        OBVIOUS
      <4>1. i \in Nat /\ i + 1 \in DOMAIN jobs /\ jobs[i + 1] = Job("UV_OnAsyncResolve", c)
        BY <2>4
      <4>2. i + 1 = 1
        BY <1>1, <1>2, <1>3, <4>1 DEF ResolveInv
      <4>3. i = 0 /\ jobs' \in Seq(Jobs)
        BY <2>3, <4>1, <4>2
      <4> QED
        BY <4>3
    <3>2. ctx[c].pending /\ resolver[c] = 0
      BY <1>1, <1>2, <1>3 DEF ResolveInv
    <3>3. \A x \in Contexts : x # c => ~ Resolving(x)'
      BY <2>2 DEF Resolving
    <3> SUFFICES ASSUME NEW x \in Contexts
                 PROVE  /\ \A i, k \in DOMAIN jobs' :
                             jobs'[i] = Job("UV_OnAsyncResolve", x) /\ jobs'[k] = Job("UV_OnAsyncResolve", x) => i = k
                        /\ \A i \in DOMAIN jobs' : jobs'[i] = Job("UV_OnAsyncResolve", x) =>
                             ctx'[x].pending /\ resolver'[x] = 0 /\ ~ Resolving(x)'
                        /\ resolver'[x] > 0 => resolver'[x] = 1 /\ ctx'[x].pending /\ ~ Resolving(x)'
                        /\ Resolving(x)' => ctx'[x].pending
      BY DEF ResolveInv
    <3>4. CASE x = c
      BY <2>1, <3>1, <3>2, <3>4
    <3>5. CASE x # c
      <4>1. \A i, k \in Nat : i + 1 = k + 1 => i = k
        OBVIOUS
      <4> QED
        BY <1>1, <2>1, <2>4, <3>3, <3>5, <4>1 DEF ResolveInv
    <3> QED
      BY <3>4, <3>5
  <2>7. /\ ctx' \in [Contexts -> CtxRecords] /\ sock' \in [Sockets -> SockRecords] /\ resolver' \in [Contexts -> Nat]
        /\ dataQueue' \in Seq(Contexts) /\ errorQueue' \in Seq(Contexts) /\ \A s \in Sockets : SameSock(s)
    BY <1>1, <2>1, TypeIs DEF SameSock
  <2> QED
    BY <1>2, <2>1, <2>2, <2>3, <2>5, <2>6, <2>7, LoopStep
<1> QED
  BY <1>4, <1>5

(* A write. *)
LEMMA AsyncWriteStep ==
  ASSUME IndInv, AsyncWrite
  PROVE  IndInv'
<1>1. TypeOK /\ ResolveInv
  BY DEF IndInv
<1>2. /\ jobs # <<>> /\ uv = NoUv /\ mode \in {"running", "unloading", "stopping"} /\ Head(jobs).fn = "UV_OnAsyncWrite"
  BY <1>1, NextIs DEF AsyncWrite, JobFns, NextJob
<1>3. PICK c \in Contexts : c = Head(jobs).c /\ HasJob(c)
  BY <1>1, NextIs DEF AsyncWrite, JobFns
<1>4. CASE ctx[c].life # "live"
  BY <1>3, <1>4, TouchStep DEF AsyncWrite, Touch
<1>5. CASE ctx[c].life = "live" /\ ctx[c].stream # NONE /\ sock[ctx[c].stream].state \notin {"open", "closing"}
  <2>1. Undefined("freed_handle")
    BY <1>3, <1>5 DEF AsyncWrite, Touch, TouchHandle
  <2>2. PICK s \in Sockets : ctx[c].stream = s
    BY <1>1, <1>5, TypeIs DEF CtxRecords
  <2>3. hasty # {}
    BY <1>5, <2>2 DEF IndInv, QuietInv
  <2> QED
    BY <2>1, <2>3, UndefinedStep DEF Undefinedness
<1>6. CASE ctx[c].life = "live" /\ (ctx[c].stream = NONE \/ sock[ctx[c].stream].state \in {"open", "closing"})
  <2>1. /\ jobs' = Tail(jobs) /\ ctx' = ctx /\ sock' = sock /\ resolver' = resolver /\ connectQueue' = connectQueue
        /\ dataQueue' = dataQueue /\ errorQueue' = errorQueue /\ phase' = phase /\ call' = call /\ native' = native
        /\ uv' = uv /\ mode' = mode /\ hasty' = hasty
    BY <1>3, <1>6 DEF AsyncWrite, Touch, TouchHandle, queues, game
  <2>2. Takes(Ordinary) /\ ~ Starting'
    BY <1>2, <2>1 DEF Takes, Ordinary, Starting, NoUv
  <2>3. Remains(jobs', jobs) /\ \A i \in DOMAIN jobs' : \E j \in DOMAIN jobs : jobs'[i] = jobs[j]
    BY <1>1, <2>2, Taken
  <2>4. \A x \in Contexts : (InFlight(x)' => InFlight(x)) /\ (Resolving(x)' => Resolving(x))
    <3>1. \A x : (\E i \in DOMAIN jobs' : jobs'[i] = Job("UV_OnAsyncResolve", x)) => \E i \in DOMAIN jobs : jobs[i] = Job("UV_OnAsyncResolve", x)
      BY <2>3
    <3> QED
      BY <2>1, <3>1 DEF InFlight, Resolving
  <2>5. ResolveInv'
    BY <1>1, <2>1, <2>3, <2>4, ResolveKept
  <2>6. /\ ctx' \in [Contexts -> CtxRecords] /\ sock' \in [Sockets -> SockRecords] /\ resolver' \in [Contexts -> Nat]
        /\ dataQueue' \in Seq(Contexts) /\ errorQueue' \in Seq(Contexts) /\ uv' \in UvCalls /\ \A s \in Sockets : SameSock(s)
    BY <1>1, <2>1, TypeIs DEF SameSock
  <2> QED
    BY <1>2, <2>1, <2>2, <2>4, <2>5, <2>6, LoopStep
<1> QED
  BY <1>4, <1>5, <1>6

(* The callback that runs, and the context it is about. *)
LEMMA UvIs ==
  ASSUME IndInv, uv.fn # "none"
  PROVE  uv.c \in Contexts /\ InFlight(uv.c) /\ mode \notin {"joined", "closing", "unloaded"}
<1>1. RunInv /\ EndInv
  BY DEF IndInv
<1>2. uv # NoUv
  BY DEF NoUv
<1> QED
  BY <1>1, <1>2, Running DEF EndInv, InFlight

(* The name of a context was looked up, and nothing else is resolved for it. *)
LEMMA ResolveDone ==
  ASSUME ResolveInv, NEW c \in Contexts, jobs' = jobs, resolver' = resolver, Resolving(c), ~ Resolving(c)',
         \A x \in Contexts : x # c => (ctx'[x].pending <=> ctx[x].pending) /\ (Resolving(x)' => Resolving(x))
  PROVE  ResolveInv'
<1> SUFFICES ASSUME NEW x \in Contexts
             PROVE  /\ \A i, k \in DOMAIN jobs' :
                         jobs'[i] = Job("UV_OnAsyncResolve", x) /\ jobs'[k] = Job("UV_OnAsyncResolve", x) => i = k
                    /\ \A i \in DOMAIN jobs' : jobs'[i] = Job("UV_OnAsyncResolve", x) =>
                         ctx'[x].pending /\ resolver'[x] = 0 /\ ~ Resolving(x)'
                    /\ resolver'[x] > 0 => resolver'[x] = 1 /\ ctx'[x].pending /\ ~ Resolving(x)'
                    /\ Resolving(x)' => ctx'[x].pending
  BY DEF ResolveInv
<1>1. CASE x = c
  BY <1>1 DEF ResolveInv
<1>2. CASE x # c
  BY <1>2 DEF ResolveInv
<1> QED
  BY <1>1, <1>2

(* getaddrinfo is started, or fails at once. *)
LEMMA GetAddrInfoStep ==
  ASSUME IndInv, GetAddrInfo
  PROVE  IndInv'
<1>1. TypeOK /\ ResolveInv
  BY DEF IndInv
<1>2. PICK c \in Contexts : c = uv.c /\ InFlight(c) /\ mode \notin {"joined", "closing", "unloaded"} /\ uv.fn = "uv_getaddrinfo"
  BY UvIs DEF GetAddrInfo
<1>3. CASE ctx[c].life # "live"
  BY <1>2, <1>3, TouchStep DEF GetAddrInfo, Touch
<1>4. CASE ctx[c].life = "live"
  <2>1. /\ \/ resolver' = [resolver EXCEPT ![c] = @ + 1] /\ uv' = NoUv
           \/ uv' = [uv EXCEPT !.fn = "UV_PushError"] /\ resolver' = resolver
        /\ jobs' = jobs /\ ctx' = ctx /\ sock' = sock /\ connectQueue' = connectQueue
        /\ dataQueue' = dataQueue /\ errorQueue' = errorQueue /\ phase' = phase /\ call' = call /\ native' = native
        /\ mode' = mode /\ hasty' = hasty
    BY <1>2, <1>4 DEF GetAddrInfo, Touch, queues, game
  <2>2. uv \in UvCalls /\ Resolving(c) /\ resolver \in [Contexts -> Nat]
    BY <1>1, <1>2, TypeIs DEF Resolving
  <2>3. /\ uv' \in UvCalls /\ (uv' = NoUv \/ (uv'.fn # "none" /\ uv'.c \in Contexts)) /\ ~ Starting'
        /\ \A x \in Contexts : (uv'.c = x => x = c) /\ ~ Resolving(x)'
    <3>1. CASE uv' = NoUv
      BY <3>1, Names DEF UvCalls, NoUv, Starting, Resolving
    <3>2. CASE uv' = [uv EXCEPT !.fn = "UV_PushError"]
      <4>1. uv' = [fn |-> "UV_PushError", c |-> c]
        BY <1>2, <2>2, <3>2 DEF UvCalls
      <4> QED
        BY <4>1 DEF UvCalls, Starting, Resolving
    <3> QED
      BY <2>1, <3>1, <3>2
  <2>4. resolver' \in [Contexts -> Nat] /\ \A x \in Contexts : x # c => resolver'[x] = resolver[x]
    BY <2>1, <2>2
  <2>5. \A x \in Contexts : InFlight(x)' => InFlight(x)
    BY <1>2, <2>1, <2>3, <2>4 DEF InFlight
  <2>6. ResolveInv'
    <3>1. CASE resolver' = resolver
      BY <1>1, <2>1, <2>2, <2>3, <3>1, ResolveDone
    <3>2. CASE resolver' = [resolver EXCEPT ![c] = @ + 1]
      <4>1. /\ ctx[c].pending /\ ~ (resolver[c] > 0) /\ \A i \in DOMAIN jobs : jobs[i] # Job("UV_OnAsyncResolve", c)
        BY <1>1, <2>2 DEF ResolveInv
      <4>2. resolver'[c] = 1
        BY <2>2, <3>2, <4>1
      <4> SUFFICES ASSUME NEW x \in Contexts
                   PROVE  /\ \A i, k \in DOMAIN jobs' :
                               jobs'[i] = Job("UV_OnAsyncResolve", x) /\ jobs'[k] = Job("UV_OnAsyncResolve", x) => i = k
                          /\ \A i \in DOMAIN jobs' : jobs'[i] = Job("UV_OnAsyncResolve", x) =>
                               ctx'[x].pending /\ resolver'[x] = 0 /\ ~ Resolving(x)'
                          /\ resolver'[x] > 0 => resolver'[x] = 1 /\ ctx'[x].pending /\ ~ Resolving(x)'
                          /\ Resolving(x)' => ctx'[x].pending
        BY DEF ResolveInv
      <4>3. CASE x = c
        BY <2>1, <2>3, <4>1, <4>2, <4>3
      <4>4. CASE x # c
        BY <1>1, <2>1, <2>3, <2>4, <4>4 DEF ResolveInv
      <4> QED
        BY <4>3, <4>4
    <3> QED
      BY <2>1, <3>1, <3>2
  <2>7. /\ ctx' \in [Contexts -> CtxRecords] /\ sock' \in [Sockets -> SockRecords]
        /\ dataQueue' \in Seq(Contexts) /\ errorQueue' \in Seq(Contexts) /\ \A s \in Sockets : SameSock(s)
    BY <1>1, <2>1, TypeIs DEF SameSock
  <2>8. Takes(Ordinary)
    BY <2>1 DEF Takes
  <2> QED
    BY <1>2, <2>1, <2>3, <2>4, <2>5, <2>6, <2>7, <2>8, LoopStep
<1> QED
  BY <1>3, <1>4

(* UV_PushError tells the game thread. *)
LEMMA PushErrorStep ==
  ASSUME IndInv, PushError
  PROVE  IndInv'
<1>1. TypeOK /\ ResolveInv
  BY DEF IndInv
<1>2. PICK c \in Contexts : c = uv.c /\ InFlight(c) /\ mode \notin {"joined", "closing", "unloaded"}
  BY UvIs DEF PushError
<1>3. CASE ctx[c].life # "live"
  BY <1>2, <1>3, TouchStep DEF PushError, Touch
<1>4. CASE ctx[c].life = "live"
  <2>1. /\ ctx' = [ctx EXCEPT ![c].pendingCallback = TRUE] /\ errorQueue' = Append(errorQueue, c) /\ uv' = NoUv
        /\ jobs' = jobs /\ sock' = sock /\ resolver' = resolver /\ connectQueue' = connectQueue
        /\ dataQueue' = dataQueue /\ phase' = phase /\ call' = call /\ native' = native /\ mode' = mode /\ hasty' = hasty
    BY <1>2, <1>4 DEF PushError, Touch, game
  <2>2. uv' \in UvCalls /\ ~ Starting' /\ \A x \in Contexts : uv'.c # x /\ ~ Resolving(x)'
    BY <2>1, Names DEF UvCalls, NoUv, Starting, Resolving
  <2>3. ctx' \in [Contexts -> CtxRecords] /\ \A x \in Contexts : Same(x)
    BY <1>1, <2>1, PendingCallback
  <2>4. /\ errorQueue' \in Seq(Contexts)
        /\ \A i \in DOMAIN errorQueue' : errorQueue'[i] = c \/ (i \in DOMAIN errorQueue /\ errorQueue'[i] = errorQueue[i])
    <3>1. errorQueue \in Seq(Contexts)
      BY <1>1, TypeIs
    <3> QED
      BY <2>1, <3>1, Pushed
  <2>5. \A x \in Contexts : InFlight(x)' => InFlight(x)
    <3>1. \A x : (\E i \in DOMAIN errorQueue' : errorQueue'[i] = x) => x = c \/ \E i \in DOMAIN errorQueue : errorQueue[i] = x
      BY <2>4
    <3> QED
      BY <1>2, <2>1, <2>2, <3>1 DEF InFlight
  <2>6. /\ sock' \in [Sockets -> SockRecords] /\ resolver' \in [Contexts -> Nat] /\ Remains(jobs', jobs)
        /\ dataQueue' \in Seq(Contexts) /\ \A s \in Sockets : SameSock(s)
    BY <1>1, <2>1, TypeIs, RemainsIs DEF SameSock
  <2>7. ResolveInv'
    BY <1>1, <2>1, <2>2, <2>3, <2>6, ResolveKept DEF Same
  <2>8. Takes(Ordinary)
    BY <2>1 DEF Takes
  <2> QED
    BY <1>2, <2>1, <2>2, <2>3, <2>4, <2>5, <2>6, <2>7, <2>8, LoopStep DEF Same
<1> QED
  BY <1>3, <1>4

(* A name was looked up. *)
LEMMA AsyncResolvedStep ==
  ASSUME IndInv, NEW c \in Contexts, AsyncResolved(c)
  PROVE  IndInv'
<1>1. TypeOK /\ ResolveInv /\ EndInv
  BY DEF IndInv
<1>2. /\ uv = NoUv /\ resolver[c] > 0 /\ InFlight(c) /\ mode \notin {"joined", "unloaded"}
      /\ resolver \in [Contexts -> Nat]
  BY <1>1, TypeIs DEF AsyncResolved, LoopRuns, InFlight
<1>3. CASE ctx[c].life # "live"
  BY <1>2, <1>3, TouchStep DEF AsyncResolved, Touch
<1>4. CASE ctx[c].life = "live"
  <2>1. /\ \/ uv' = NoUv
           \/ ~ ctx[c].deleted /\ uv' = [fn |-> "resolve_failed", c |-> c]
           \/ ~ ctx[c].deleted /\ uv' = [fn |-> "resolved", c |-> c]
        /\ resolver' = [resolver EXCEPT ![c] = @ - 1]
        /\ jobs' = jobs /\ ctx' = ctx /\ sock' = sock /\ connectQueue' = connectQueue
        /\ dataQueue' = dataQueue /\ errorQueue' = errorQueue /\ phase' = phase /\ call' = call /\ native' = native
        /\ mode' = mode /\ hasty' = hasty
    BY <1>4 DEF AsyncResolved, Touch, queues, game
  <2>2. resolver[c] = 1 /\ ctx[c].pending /\ \A i \in DOMAIN jobs : jobs[i] # Job("UV_OnAsyncResolve", c)
    BY <1>1, <1>2 DEF ResolveInv
  <2>3. resolver' \in [Contexts -> Nat] /\ resolver'[c] = 0 /\ \A x \in Contexts : x # c => resolver'[x] = resolver[x]
    <3>1. resolver' = [resolver EXCEPT ![c] = 0]
      <4>1. resolver' = [resolver EXCEPT ![c] = resolver[c] - 1]
        BY <2>1
      <4> QED
        BY <2>2, <4>1
    <3> QED
      BY <1>2, <3>1
  <2>4. /\ uv' \in UvCalls /\ (uv' = NoUv \/ (uv'.fn # "none" /\ uv'.c \in Contexts)) /\ ~ Starting'
        /\ \A x \in Contexts : (uv'.c = x => x = c) /\ (Resolving(x)' => x = c)
    <3>1. CASE uv' = NoUv
      BY <3>1, Names DEF UvCalls, NoUv, Starting, Resolving
    <3>2. CASE uv' = [fn |-> "resolve_failed", c |-> c]
      BY <3>2 DEF UvCalls, Starting, Resolving
    <3>3. CASE uv' = [fn |-> "resolved", c |-> c]
      BY <3>3 DEF UvCalls, Starting, Resolving
    <3> QED
      BY <2>1, <3>1, <3>2, <3>3
  <2>5. \A x \in Contexts : InFlight(x)' => InFlight(x)
    <3> SUFFICES ASSUME NEW x \in Contexts, x # c, InFlight(x)'
                 PROVE  InFlight(x)
      BY <1>2
    <3> QED
      BY <2>1, <2>3, <2>4 DEF InFlight
  <2>6. ResolveInv'
    <3> SUFFICES ASSUME NEW x \in Contexts
                 PROVE  /\ \A i, k \in DOMAIN jobs' :
                             jobs'[i] = Job("UV_OnAsyncResolve", x) /\ jobs'[k] = Job("UV_OnAsyncResolve", x) => i = k
                        /\ \A i \in DOMAIN jobs' : jobs'[i] = Job("UV_OnAsyncResolve", x) =>
                             ctx'[x].pending /\ resolver'[x] = 0 /\ ~ Resolving(x)'
                        /\ resolver'[x] > 0 => resolver'[x] = 1 /\ ctx'[x].pending /\ ~ Resolving(x)'
                        /\ Resolving(x)' => ctx'[x].pending
      BY DEF ResolveInv
    <3>0. jobs' = jobs /\ ctx' = ctx
      BY <2>1
    <3>1. CASE x = c
      <4>1. ctx'[x].pending /\ resolver'[x] = 0 /\ \A i \in DOMAIN jobs' : jobs'[i] # Job("UV_OnAsyncResolve", x)
        BY <2>2, <2>3, <3>0, <3>1
      <4> QED
        BY <4>1
    <3>2. CASE x # c
      BY <1>1, <2>3, <2>4, <3>0, <3>2 DEF ResolveInv
    <3> QED
      BY <3>1, <3>2
  <2>7. /\ ctx' \in [Contexts -> CtxRecords] /\ sock' \in [Sockets -> SockRecords]
        /\ dataQueue' \in Seq(Contexts) /\ errorQueue' \in Seq(Contexts) /\ \A s \in Sockets : SameSock(s)
    BY <1>1, <2>1, TypeIs DEF SameSock
  <2>8. Takes(Ordinary)
    BY <2>1 DEF Takes
  <2>9. mode = "closing" => uv' = NoUv
    <3>1. mode = "closing" => ctx[c].deleted
      BY <1>1, <1>4 DEF EndInv, Ended, Valid
    <3> QED
      BY <2>1, <3>1
  <2> QED
    BY <1>2, <2>1, <2>3, <2>4, <2>5, <2>6, <2>7, <2>8, <2>9, LoopStep
<1> QED
  BY <1>3, <1>4

(* m_Pending is a field of its own, and so is m_pSocket. *)
LEMMA PendingReset ==
  ASSUME TypeOK, NEW c \in Contexts, ctx' = [ctx EXCEPT ![c].pending = FALSE]
  PROVE  /\ ctx' \in [Contexts -> CtxRecords]
         /\ \A x \in Contexts : /\ ctx'[x].life = ctx[x].life /\ (ctx'[x].deleted <=> ctx[x].deleted)
                                /\ (ctx'[x].server <=> ctx[x].server)
                                /\ ctx'[x].socket = ctx[x].socket /\ ctx'[x].stream = ctx[x].stream
                                /\ x # c => (ctx'[x].pending <=> ctx[x].pending)
<1>1. ctx \in [Contexts -> CtxRecords]
  BY TypeIs
<1> QED
  BY <1>1 DEF CtxRecords

LEMMA SocketAssigned ==
  ASSUME TypeOK, NEW c \in Contexts, NEW s \in Sockets \cup {NONE}, ctx' = [ctx EXCEPT ![c].socket = s]
  PROVE  /\ ctx' \in [Contexts -> CtxRecords] /\ ctx'[c].socket = s
         /\ \A x \in Contexts : /\ ctx'[x].life = ctx[x].life /\ (ctx'[x].deleted <=> ctx[x].deleted)
                                /\ (ctx'[x].pending <=> ctx[x].pending) /\ (ctx'[x].server <=> ctx[x].server)
                                /\ ctx'[x].stream = ctx[x].stream
                                /\ x # c => ctx'[x].socket = ctx[x].socket
<1>1. ctx \in [Contexts -> CtxRecords]
  BY TypeIs
<1> QED
  BY <1>1 DEF CtxRecords

(* The look-up failed, or its result has been stored. *)
LEMMA ResolvedStep ==
  ASSUME IndInv, ResolveFailed \/ ClearPending
  PROVE  IndInv'
<1>1. TypeOK /\ ResolveInv
  BY DEF IndInv
<1>2. PICK c \in Contexts : c = uv.c /\ InFlight(c) /\ mode \notin {"joined", "closing", "unloaded"}
  BY UvIs DEF ResolveFailed, ClearPending
<1>3. CASE ctx[c].life # "live"
  BY <1>2, <1>3, TouchStep DEF ResolveFailed, ClearPending, Touch
<1>4. CASE ctx[c].life = "live"
  <2>1. /\ ctx' = [ctx EXCEPT ![c].pending = FALSE]
        /\ \/ uv.fn = "resolve_failed" /\ uv' = [uv EXCEPT !.fn = "UV_PushError"]
           \/ uv.fn = "socket_set" /\ uv' = [uv EXCEPT !.fn = "not_pending"]
        /\ jobs' = jobs /\ sock' = sock /\ resolver' = resolver /\ connectQueue' = connectQueue
        /\ dataQueue' = dataQueue /\ errorQueue' = errorQueue /\ phase' = phase /\ call' = call /\ native' = native
        /\ mode' = mode /\ hasty' = hasty
    BY <1>2, <1>4 DEF ResolveFailed, ClearPending, Touch, queues, game
  <2>2. /\ uv' \in UvCalls /\ uv'.fn # "none" /\ uv'.c = c /\ Resolving(c) /\ (Starting' => Starting)
        /\ \A x \in Contexts : ~ Resolving(x)'
    <3>1. uv \in UvCalls
      BY <1>1, TypeIs
    <3>2. uv' = [fn |-> "UV_PushError", c |-> c] \/ (uv.fn = "socket_set" /\ uv' = [fn |-> "not_pending", c |-> c])
      BY <1>2, <2>1, <3>1 DEF UvCalls
    <3>3. uv' \in UvCalls /\ uv'.fn # "none" /\ uv'.c = c /\ uv'.fn \in {"UV_PushError", "not_pending"}
      <4>1. CASE uv' = [fn |-> "UV_PushError", c |-> c]
        BY <4>1 DEF UvCalls
      <4>2. CASE uv' = [fn |-> "not_pending", c |-> c]
        BY <4>2 DEF UvCalls
      <4> QED
        BY <3>2, <4>1, <4>2
    <3> QED
      BY <1>2, <2>1, <3>2, <3>3 DEF Resolving, Starting
  <2>3. /\ ctx' \in [Contexts -> CtxRecords]
        /\ \A x \in Contexts : /\ ctx'[x].life = ctx[x].life /\ (ctx'[x].deleted <=> ctx[x].deleted)
                               /\ (ctx'[x].server <=> ctx[x].server)
                               /\ ctx'[x].socket = ctx[x].socket /\ ctx'[x].stream = ctx[x].stream
                               /\ x # c => (ctx'[x].pending <=> ctx[x].pending)
    BY <1>1, <2>1, PendingReset
  <2>4. \A x \in Contexts : InFlight(x)' => InFlight(x)
    BY <1>2, <2>1, <2>2 DEF InFlight
  <2>5. ResolveInv'
    BY <1>1, <2>1, <2>2, <2>3, ResolveDone
  <2>6. /\ sock' \in [Sockets -> SockRecords] /\ resolver' \in [Contexts -> Nat]
        /\ dataQueue' \in Seq(Contexts) /\ errorQueue' \in Seq(Contexts) /\ \A s \in Sockets : SameSock(s)
    BY <1>1, <2>1, TypeIs DEF SameSock
  <2>7. Takes(Ordinary)
    BY <2>1 DEF Takes
  <2>8. \A x \in Contexts : ctx'[x].socket \in {ctx[x].socket, NONE}
    BY <2>3
  <2> QED
    BY <1>2, <2>1, <2>2, <2>3, <2>4, <2>5, <2>6, <2>7, <2>8, LoopStep
<1> QED
  BY <1>3, <1>4

(* UV_OnRead with m_Deleted set forgets the handle. *)
LEMMA ReadForgetsStep ==
  ASSUME IndInv, ReadForgets
  PROVE  IndInv'
<1>1. TypeOK /\ ResolveInv
  BY DEF IndInv
<1>2. PICK c \in Contexts : c = uv.c /\ InFlight(c) /\ mode \notin {"joined", "closing", "unloaded"}
  BY UvIs DEF ReadForgets
<1>3. CASE ctx[c].life # "live"
  BY <1>2, <1>3, TouchStep DEF ReadForgets, Touch
<1>4. CASE ctx[c].life = "live"
  <2>1. /\ ctx' = [ctx EXCEPT ![c].socket = NONE] /\ uv' = NoUv
        /\ jobs' = jobs /\ sock' = sock /\ resolver' = resolver /\ connectQueue' = connectQueue
        /\ dataQueue' = dataQueue /\ errorQueue' = errorQueue /\ phase' = phase /\ call' = call /\ native' = native
        /\ mode' = mode /\ hasty' = hasty
    BY <1>2, <1>4 DEF ReadForgets, Touch, queues, game
  <2>2. uv' \in UvCalls /\ ~ Starting' /\ \A x \in Contexts : uv'.c # x /\ ~ Resolving(x)'
    BY <2>1, Names DEF UvCalls, NoUv, Starting, Resolving
  <2>3. /\ ctx' \in [Contexts -> CtxRecords] /\ ctx'[c].socket = NONE
        /\ \A x \in Contexts : /\ ctx'[x].life = ctx[x].life /\ (ctx'[x].deleted <=> ctx[x].deleted)
                               /\ (ctx'[x].pending <=> ctx[x].pending) /\ (ctx'[x].server <=> ctx[x].server)
                               /\ ctx'[x].stream = ctx[x].stream
                               /\ x # c => ctx'[x].socket = ctx[x].socket
    BY <1>1, <2>1, SocketAssigned
  <2>4. \A x \in Contexts : InFlight(x)' => InFlight(x)
    BY <2>1, <2>2 DEF InFlight
  <2>5. /\ sock' \in [Sockets -> SockRecords] /\ resolver' \in [Contexts -> Nat] /\ Remains(jobs', jobs)
        /\ dataQueue' \in Seq(Contexts) /\ errorQueue' \in Seq(Contexts) /\ \A s \in Sockets : SameSock(s)
    BY <1>1, <2>1, TypeIs, RemainsIs DEF SameSock
  <2>6. ResolveInv'
    BY <1>1, <2>1, <2>2, <2>3, <2>5, ResolveKept
  <2>7. Takes(Ordinary)
    BY <2>1 DEF Takes
  <2>8. \A x \in Contexts : ctx'[x].socket \in {ctx[x].socket, NONE}
    BY <2>3
  <2> QED
    BY <1>2, <2>1, <2>2, <2>3, <2>4, <2>5, <2>6, <2>7, <2>8, LoopStep
<1> QED
  BY <1>3, <1>4

(* The socket in use, and the context it belongs to. *)
LEMMA UseIs ==
  ASSUME IndInv, NEW s \in Sockets, NEW use \in {"connecting", "listening", "reading"}, InUse(s, use)
  PROVE  /\ sock[s].data \in Contexts /\ InFlight(sock[s].data) /\ uv = NoUv /\ mode \in {"running", "unloading", "stopping"}
         /\ sock[s].state = "open" /\ sock[s].use = use
<1>1. SocketInv
  BY DEF IndInv
<1> QED
  BY <1>1 DEF InUse, LoopRuns, SocketInv, InFlight

(* Data is read. *)
LEMMA ReadsStep ==
  ASSUME IndInv, NEW s \in Sockets, Reads(s)
  PROVE  IndInv'
<1>1. TypeOK /\ ResolveInv
  BY DEF IndInv
<1>2. PICK c \in Contexts : /\ c = sock[s].data /\ InFlight(c) /\ uv = NoUv /\ mode \in {"running", "unloading", "stopping"}
                            /\ sock[s].reads < MaxReads
  BY UseIs DEF Reads
<1>3. CASE ctx[c].life # "live"
  BY <1>2, <1>3, TouchStep DEF Reads, Touch
<1>4. CASE ctx[c].life = "live"
  <2>1. /\ ctx' = [ctx EXCEPT ![c].pendingCallback = TRUE] /\ dataQueue' = Append(dataQueue, c)
        /\ sock' = [sock EXCEPT ![s].reads = @ + 1]
        /\ jobs' = jobs /\ uv' = uv /\ resolver' = resolver /\ connectQueue' = connectQueue
        /\ errorQueue' = errorQueue /\ phase' = phase /\ call' = call /\ native' = native /\ mode' = mode /\ hasty' = hasty
    BY <1>2, <1>4 DEF Reads, Touch, game
  <2>2. uv' \in UvCalls /\ uv' = NoUv /\ ~ Starting' /\ \A x \in Contexts : Resolving(x)' <=> Resolving(x)
    BY <1>1, <1>2, <2>1, TypeIs DEF NoUv, Starting, Resolving
  <2>3. ctx' \in [Contexts -> CtxRecords] /\ \A x \in Contexts : Same(x)
    BY <1>1, <2>1, PendingCallback
  <2>4. /\ dataQueue' \in Seq(Contexts)
        /\ \A i \in DOMAIN dataQueue' : dataQueue'[i] = c \/ (i \in DOMAIN dataQueue /\ dataQueue'[i] = dataQueue[i])
    <3>1. dataQueue \in Seq(Contexts)
      BY <1>1, TypeIs
    <3> QED
      BY <2>1, <3>1, Pushed
  <2>5. sock' \in [Sockets -> SockRecords] /\ \A t \in Sockets : SameSock(t)
    <3>1. sock \in [Sockets -> SockRecords] /\ MaxReads \in Nat
      BY <1>1, TypeIs, SocketAssumption
    <3>2. sock[s].reads + 1 \in 0 .. MaxReads
      BY <1>2, <3>1 DEF SockRecords
    <3> DEFINE r == [sock[s] EXCEPT !.reads = @ + 1]
    <3>3. r \in SockRecords /\ r.state = sock[s].state /\ r.data = sock[s].data /\ r.use = sock[s].use
      BY <3>1, <3>2 DEF SockRecords
    <3>4. sock' = [sock EXCEPT ![s] = r]
      BY <2>1
    <3> HIDE DEF r
    <3> QED
      BY <3>1, <3>3, <3>4 DEF SameSock
  <2>6. \A x \in Contexts : InFlight(x)' => InFlight(x)
    <3>1. \A x : (\E i \in DOMAIN dataQueue' : dataQueue'[i] = x) => x = c \/ \E i \in DOMAIN dataQueue : dataQueue[i] = x
      BY <2>4
    <3>2. \A t \in Sockets : sock'[t].state = sock[t].state /\ sock'[t].data = sock[t].data /\ sock'[t].use = sock[t].use
      BY <2>5 DEF SameSock
    <3> QED
      BY <1>2, <2>1, <3>1, <3>2 DEF InFlight
  <2>7. resolver' \in [Contexts -> Nat] /\ Remains(jobs', jobs) /\ errorQueue' \in Seq(Contexts)
    BY <1>1, <2>1, TypeIs, RemainsIs
  <2>8. ResolveInv'
    BY <1>1, <2>1, <2>2, <2>3, <2>7, ResolveKept DEF Same
  <2>9. Takes(Ordinary)
    BY <2>1 DEF Takes
  <2> QED
    BY <1>2, <2>1, <2>2, <2>3, <2>4, <2>5, <2>6, <2>7, <2>8, <2>9, LoopStep DEF Same
<1> QED
  BY <1>3, <1>4

(* A step that changes the state and the use of one handle, and makes no context refer to another. *)
Keeps(x) ==
  /\ ctx'[x].life = ctx[x].life /\ (ctx'[x].deleted <=> ctx[x].deleted)
  /\ (ctx'[x].pending <=> ctx[x].pending) /\ (ctx'[x].server <=> ctx[x].server)
  /\ ctx'[x].stream \in {ctx[x].stream, NONE} /\ ctx'[x].socket \in {ctx[x].socket, NONE}

LEMMA HandleStep ==
  ASSUME IndInv, NEW s \in Sockets, phase' = phase, call' = call, native' = native, mode' = mode, Takes(Ordinary),
         connectQueue' = connectQueue, dataQueue' = dataQueue, errorQueue' = errorQueue, resolver' = resolver,
         ctx' \in [Contexts -> CtxRecords], sock' \in [Sockets -> SockRecords],
         uv' \in UvCalls, uv' = NoUv \/ (uv'.fn # "none" /\ uv'.c \in Contexts), ~ Starting',
         hasty \subseteq hasty', hasty' \subseteq {"close", "connect", "accept", "unload"}, "connect" \in hasty' => "connect" \in hasty,
         \A x \in Contexts : Keeps(x) /\ ~ Resolving(x)',
         \A x \in Contexts : InFlight(x)' => InFlight(x) \/ (ctx[x].life # "none" /\ (OrderInv => ~ ctx[x].deleted)),
         \A t \in Sockets : t # s => SameSock(t),
         sock[s].state # "none", sock'[s].state # "none", sock'[s].data = sock[s].data,
         sock'[s].use # "idle" => sock[s].data \in Contexts,
         sock'[s].use = "connecting" => Fresh(s),
         mode \notin {"joined", "unloaded"}, mode = "closing" => uv' = NoUv /\ sock'[s].state # "open",
         sock'[s].use = sock[s].use \/ sock[s].data \in Contexts,
         OrderInv => /\ sock'[s].state = "open" =>
                          /\ sock'[s].use = "connecting" => ~ ctx[sock[s].data].server
                          /\ sock'[s].use = "listening" => ctx[sock[s].data].server
                     /\ call.fn = "OnConnect" /\ call.new = s => sock'[s].use = "idle",
         OrderInv /\ QuietInv /\ hasty' = {} =>
           /\ \A x \in Contexts :
                /\ ctx'[x].stream = ctx[x].stream
                /\ ctx'[x].life = "live" /\ sock'[s].state # "open" => ctx'[x].stream # s /\ ctx'[x].socket # s
           /\ sock'[s].use = "connecting" => sock'[s].state # "closing"
           /\ sock'[s].state = "open" \/ sock[s].state # "open" \/ sock[s].data \in Contexts
  PROVE  IndInv'
<1>1. TypeOK /\ RunInv /\ BirthInv /\ SocketInv /\ ResolveInv /\ EndInv
  BY DEF IndInv
<1>2. /\ jobs' \in Seq(Jobs) /\ Remains(jobs', jobs)
      /\ \A x : HasJob(x)' => HasJob(x)
      /\ \A i \in DOMAIN jobs' : \E j \in DOMAIN jobs : jobs'[i] = jobs[j]
  BY <1>1, Taken
<1>3. /\ \A t \in Sockets : sock'[t].data = sock[t].data /\ (t # s => sock'[t].state = sock[t].state /\ sock'[t].use = sock[t].use)
      /\ \A i \in DOMAIN connectQueue : connectQueue[i].s \in Sockets /\ connectQueue[i].c \in Contexts
  BY <1>1, Elements DEF SameSock
<1>4. TypeOK'
  BY <1>1, <1>2, TypeIs, TypeIsNext
<1>5. RunInv' /\ BirthInv' /\ DeleteIsLast' /\ DeleteInv' /\ EndInv'
  <2>1. ASSUME NEW x \in Contexts
        PROVE  /\ ctx'[x].life = ctx[x].life /\ (ctx'[x].deleted <=> ctx[x].deleted)
               /\ ctx[x].life = "none" => /\ ctx'[x].socket = NONE /\ ctx'[x].stream = NONE /\ ~ InFlight(x)'
                                          /\ \A t \in Sockets : sock'[t].data # x
    <3>1. Keeps(x)
      OBVIOUS
    <3> QED
      BY <1>1, <1>3, <3>1 DEF BirthInv, Keeps
  <2>2. mode = "closing" => uv' = NoUv /\ \A t \in Sockets : sock'[t].state # "open"
    BY <1>1, <1>3 DEF EndInv
  <2> QED
    BY <2>1, <2>2, LoopKept
<1>6. SocketInv'
  <2>1. \A t \in Sockets : Fresh(t) => Fresh(t)'
    <3> SUFFICES ASSUME NEW t \in Sockets, Fresh(t)
                 PROVE  Fresh(t)'
      OBVIOUS
    <3>1. ctx'[t].life = "none"
      BY Names DEF Fresh, Keeps
    <3>2. \A x \in Contexts : ctx'[x].stream # t
      BY Names DEF Fresh, Keeps
    <3> QED
      BY <3>1, <3>2 DEF Fresh
  <2>2. ASSUME NEW t \in Sockets
        PROVE  /\ sock'[t].use \notin {"idle"} => sock'[t].data \in Contexts
               /\ sock'[t].state = "none" =>
                    /\ sock'[t].data = NONE /\ sock'[t].use = "idle" /\ Fresh(t)'
                    /\ \A x \in Contexts : ctx'[x].socket # t
               /\ sock'[t].use = "connecting" => Fresh(t)'
    <3>1. CASE t = s
      BY <1>3, <2>1, <3>1
    <3>2. CASE t # s
      <4>1. \A x \in Contexts : ctx'[x].socket \in {ctx[x].socket, NONE}
        BY DEF Keeps
      <4>2. sock'[t].state = "none" => \A x \in Contexts : ctx'[x].socket # t
        BY <1>1, <1>3, <3>2, <4>1, Names DEF SocketInv
      <4> QED
        BY <1>1, <1>3, <2>1, <3>2, <4>2 DEF SocketInv
    <3> QED
      BY <3>1, <3>2
  <2>3. \A x \in Contexts : \A t \in Sockets : ctx'[x].stream = t \/ ctx'[x].socket = t => sock'[t].data \in Contexts
    BY <1>1, <1>3, Names DEF SocketInv, Keeps
  <2>4. \A i \in DOMAIN connectQueue' :
          /\ ctx'[connectQueue'[i].s].life = "none" /\ sock'[connectQueue'[i].s].state # "none"
          /\ \A j \in DOMAIN connectQueue' : connectQueue'[i].s = connectQueue'[j].s => i = j
    <3>1. \A t \in Sockets : ctx'[t].life = ctx[t].life /\ (sock[t].state # "none" => sock'[t].state # "none")
      BY <1>3, Names DEF Keeps
    <3> QED
      BY <1>1, <1>3, <3>1 DEF SocketInv
  <2> QED
    BY <2>2, <2>3, <2>4 DEF SocketInv
<1>7. ResolveInv'
  <2>1. \A x \in Contexts : InFlight(x) /\ ctx[x].pending => ctx'[x].pending
    BY DEF Keeps
  <2> QED
    BY <1>1, <1>2, <2>1, ResolveKept
<1>8. ASSUME OrderInv
      PROVE  OrderInv'
  <2>1. \A x \in Contexts, t \in Sockets : ctx'[x].stream = t \/ ctx'[x].socket = t => sock'[t].data = x
    BY <1>3, <1>8, Names DEF OrderInv, Keeps
  <2>2. ASSUME NEW t \in Sockets, sock'[t].state = "open"
        PROVE  /\ sock'[t].use = "connecting" => ~ ctx'[sock'[t].data].server
               /\ sock'[t].use = "listening" => ctx'[sock'[t].data].server
    <3>1. sock'[t].use # "idle" => sock[t].data \in Contexts
      BY <1>1, <1>3 DEF SocketInv
    <3>2. \A x \in Contexts : ctx'[x].server <=> ctx[x].server
      BY DEF Keeps
    <3>3. CASE t = s
      BY <1>8, <2>2, <3>1, <3>2, <3>3
    <3>4. CASE t # s
      BY <1>3, <1>8, <2>2, <3>1, <3>2, <3>4 DEF OrderInv
    <3> QED
      BY <3>3, <3>4
  <2>3. ASSUME NEW i \in DOMAIN connectQueue'
        PROVE  IF ctx'[connectQueue'[i].c].server
                 THEN sock'[connectQueue'[i].s].data = NONE /\ sock'[connectQueue'[i].s].use = "idle"
                 ELSE sock'[connectQueue'[i].s].data = connectQueue'[i].c
    <3>1. PICK x \in Contexts, t \in Sockets : connectQueue[i].c = x /\ connectQueue[i].s = t
      BY <1>3
    <3>2. IF ctx[x].server THEN sock[t].data = NONE /\ sock[t].use = "idle" ELSE sock[t].data = x
      BY <1>8, <3>1 DEF OrderInv
    <3>3. (ctx'[x].server <=> ctx[x].server) /\ sock'[t].data = sock[t].data
      BY <1>3 DEF Keeps
    <3>4. sock'[t].use = sock[t].use \/ sock[t].data \in Contexts
      BY <1>3
    <3> QED
      BY <3>1, <3>2, <3>3, <3>4, Names
  <2>4. \A i \in DOMAIN jobs' : jobs'[i].fn = "UV_StartRead" => call'.new # jobs'[i].c
    BY <1>2, <1>8 DEF OrderInv
  <2>5. call'.fn = "OnConnect" => sock'[call'.new].data = call'.new /\ sock'[call'.new].use = "idle"
    <3> SUFFICES ASSUME call.fn = "OnConnect"
                 PROVE  sock'[call.new].data = call.new /\ sock'[call.new].use = "idle"
      OBVIOUS
    <3>1. call.new \in Sockets /\ sock[call.new].data = call.new /\ sock[call.new].use = "idle"
      BY <1>1, <1>8 DEF OrderInv, RunInv, NoCall
    <3> QED
      BY <1>3, <1>8, <3>1
  <2> QED
    BY <2>1, <2>2, <2>3, <2>4, <2>5 DEF OrderInv
<1>9. ASSUME OrderInv, QuietInv, hasty' = {}
      PROVE  QuietInv'
  <2>1. \A x \in Contexts : (ctx'[x].deleted => ~ InFlight(x)') /\ (HasJob(x)' => ctx'[x].life = "live")
    BY <1>2, <1>9 DEF QuietInv, Keeps
  <2>2. \A x \in Contexts : ctx'[x].life = ctx[x].life /\ ctx'[x].stream = ctx[x].stream
    BY <1>9 DEF Keeps
  <2>3. \A i \in DOMAIN jobs' : \A x \in Contexts :
          jobs'[i].c = x /\ jobs'[i].fn \in {"UV_OnAsyncWrite", "UV_StartRead"} => ctx'[x].stream # NONE
    BY <1>2, <1>9, <2>2 DEF QuietInv
  <2>4. \A x \in Contexts : ctx'[x].life = "live" =>
          \A t \in Sockets : ctx'[x].stream = t \/ ctx'[x].socket = t => sock'[t].state = "open"
    <3> SUFFICES ASSUME NEW x \in Contexts, ctx'[x].life = "live", NEW t \in Sockets, ctx'[x].stream = t \/ ctx'[x].socket = t
                 PROVE  sock'[t].state = "open"
      OBVIOUS
    <3>1. CASE t = s
      BY <1>9, <3>1
    <3>2. CASE t # s
      BY <1>3, <1>9, <3>2, Names DEF QuietInv, Keeps
    <3> QED
      BY <3>1, <3>2
  <2>5. \A t \in Sockets : sock'[t].use = "connecting" => sock'[t].state # "closing"
    BY <1>3, <1>9 DEF QuietInv
  <2>6. mode' = "running" =>
          \A i \in DOMAIN connectQueue' : sock'[connectQueue'[i].s].data = NONE => sock'[connectQueue'[i].s].state = "open"
    BY <1>3, <1>9, Names DEF QuietInv
  <2>7. \A x \in Contexts : call'.new = x => ctx'[x].stream # NONE
    BY <1>9, <2>2 DEF QuietInv
  <2> QED
    BY <1>9, <2>1, <2>3, <2>4, <2>5, <2>6, <2>7 DEF QuietInv
<1>10. ("connect" \notin hasty' => OrderInv) /\ (hasty' = {} => OrderInv /\ QuietInv)
  BY DEF IndInv
<1> QED
  BY <1>4, <1>5, <1>6, <1>7, <1>8, <1>9, <1>10 DEF IndInv

(* The new state and use of a handle. *)
Moves(s, st, u) ==
  \/ sock' = [sock EXCEPT ![s].use = u] /\ st = sock[s].state
  \/ sock' = [sock EXCEPT ![s].state = st] /\ u = sock[s].use
  \/ sock' = [[sock EXCEPT ![s].state = st] EXCEPT ![s].use = u]

LEMMA HandleChanged ==
  ASSUME TypeOK, NEW s \in Sockets, NEW st \in {"none", "open", "closing", "freed"},
         NEW u \in {"idle", "connecting", "unreachable", "listening", "reading"}, Moves(s, st, u)
  PROVE  /\ sock' \in [Sockets -> SockRecords] /\ sock'[s].state = st /\ sock'[s].use = u /\ sock'[s].data = sock[s].data
         /\ \A t \in Sockets : t # s => SameSock(t)
<1>1. sock \in [Sockets -> SockRecords]
  BY TypeIs
<1>2. CASE sock' = [sock EXCEPT ![s].use = u] /\ st = sock[s].state
  BY <1>1, <1>2 DEF SockRecords, SameSock
<1>3. CASE sock' = [sock EXCEPT ![s].state = st] /\ u = sock[s].use
  BY <1>1, <1>3 DEF SockRecords, SameSock
<1>4. CASE sock' = [[sock EXCEPT ![s].state = st] EXCEPT ![s].use = u]
  BY <1>1, <1>4 DEF SockRecords, SameSock
<1> QED
  BY <1>2, <1>3, <1>4 DEF Moves

(* What such a step leaves in flight. *)
LEMMA HandleFlight ==
  ASSUME NEW s \in Sockets, NEW x \in Contexts, InFlight(x)', call' = call,
         \A i \in DOMAIN jobs' : \E j \in DOMAIN jobs : jobs'[i] = jobs[j],
         connectQueue' = connectQueue, dataQueue' = dataQueue, errorQueue' = errorQueue, resolver' = resolver,
         \A t \in Sockets : t # s => SameSock(t),
         uv'.c # x, sock'[s].data # x
  PROVE  InFlight(x)
<1>1. (\E i \in DOMAIN jobs' : jobs'[i] = Job("UV_OnAsyncResolve", x)) => \E i \in DOMAIN jobs : jobs[i] = Job("UV_OnAsyncResolve", x)
  OBVIOUS
<1>2. \A t \in Sockets : t # s => sock'[t].state = sock[t].state /\ sock'[t].data = sock[t].data /\ sock'[t].use = sock[t].use
  BY DEF SameSock
<1> QED
  BY <1>1, <1>2 DEF InFlight

(* The callback of a handle in use: a connection is refused, closed or not accepted. *)
LEMMA CallbackStep ==
  ASSUME IndInv, NEW s \in Sockets,
         ConnectDeleted(s) \/ ConnectFails(s) \/ ListenDeleted(s) \/ ListenFails(s) \/ ReadFails(s)
  PROVE  IndInv'
<1>1. TypeOK /\ SocketInv
  BY DEF IndInv
<1>2. PICK use \in {"connecting", "listening", "reading"} : InUse(s, use)
  BY DEF ConnectDeleted, ConnectFails, ListenDeleted, ListenFails, ReadFails
<1>3. PICK c \in Contexts : /\ c = sock[s].data /\ InFlight(c) /\ uv = NoUv /\ mode \in {"running", "unloading", "stopping"}
                            /\ sock[s].state = "open" /\ sock[s].use = use
  BY <1>2, UseIs
<1>4. CASE ctx[c].life # "live"
  <2>1. Undefined("freed_context")
    BY <1>3, <1>4 DEF ConnectDeleted, ConnectFails, ListenDeleted, ListenFails, ReadFails, Touch
  <2> QED
    BY <1>3, <1>4, <2>1, TouchStep
<1>5. CASE ctx[c].life = "live" /\ Undefined("freed_request")
  <2>1. mode' = "freed_request" /\ "freed_request" \notin {"running", "unloading", "stopping"}
    BY <1>5 DEF Undefined
  <2>2. ctx[c].deleted
    BY <1>3, <1>5, <2>1 DEF ConnectDeleted, ConnectFails, ListenDeleted, ListenFails, ReadFails, Touch
  <2>3. hasty # {}
    BY <1>3, <2>2, Alive
  <2> QED
    BY <1>5, <2>3, UndefinedStep DEF Undefinedness
<1>6. CASE ctx[c].life = "live" /\ ~ Undefined("freed_request")
  <2>1. /\ ctx' = ctx /\ jobs' = jobs /\ resolver' = resolver /\ connectQueue' = connectQueue
        /\ dataQueue' = dataQueue /\ errorQueue' = errorQueue /\ phase' = phase /\ call' = call /\ native' = native
        /\ mode' = mode
    BY <1>3, <1>6 DEF ConnectDeleted, ConnectFails, ListenDeleted, ListenFails, ReadFails, Touch, queues, game
  <2>2. uv' = NoUv \/ uv' = [fn |-> "UV_PushError", c |-> c]
    BY <1>3, <1>6 DEF ConnectDeleted, ConnectFails, ListenDeleted, ListenFails, ReadFails, Touch
  <2>3. hasty' = hasty \/ hasty' = hasty \cup {"accept"}
    BY <1>3, <1>6 DEF ConnectDeleted, ConnectFails, ListenDeleted, ListenFails, ReadFails, Touch
  <2>4. PICK st \in {"open", "closing"}, u \in {"idle", "listening"} :
           /\ Moves(s, st, u)
           /\ u = "listening" => u = sock[s].use
           /\ st = "open" => u = "idle"
           /\ st = "closing" => ctx[c].deleted \/ hasty' # {}
    <3>1. CASE ConnectDeleted(s)
      BY <1>3, <1>6, <3>1 DEF ConnectDeleted, Touch, Closed, Moves
    <3>2. CASE ConnectFails(s) \/ ReadFails(s)
      BY <1>3, <1>6, <3>2 DEF ConnectFails, ReadFails, Touch, Moves
    <3>3. CASE ListenDeleted(s)
      <4>1. sock' = [sock EXCEPT ![s].state = "closing"] /\ ctx[c].deleted /\ sock[s].use = "listening"
        BY <1>3, <1>6, <3>3 DEF ListenDeleted, Touch, Closed, InUse
      <4> QED
        BY <4>1 DEF Moves
    <3>4. CASE ListenFails(s)
      <4>1. sock' = [sock EXCEPT ![s].state = "closing"] /\ hasty' # {} /\ sock[s].use = "listening"
        BY <1>3, <1>6, <3>4 DEF ListenFails, Touch, Closed, InUse
      <4> QED
        BY <4>1 DEF Moves
    <3> QED
      BY <3>1, <3>2, <3>3, <3>4
  <2>5. /\ sock' \in [Sockets -> SockRecords] /\ sock'[s].state = st /\ sock'[s].use = u /\ sock'[s].data = sock[s].data
        /\ \A t \in Sockets : t # s => SameSock(t)
    <3>1. /\ st \in {"none", "open", "closing", "freed"} /\ u \in {"idle", "connecting", "unreachable", "listening", "reading"}
          /\ Moves(s, st, u)
      BY <2>4
    <3> QED
      BY <1>1, <3>1, HandleChanged
  <2>6. /\ uv' \in UvCalls /\ (uv' = NoUv \/ (uv'.fn # "none" /\ uv'.c \in Contexts)) /\ ~ Starting'
        /\ \A x \in Contexts : (uv'.c = x => x = c) /\ ~ Resolving(x)'
    <3>1. CASE uv' = NoUv
      BY <3>1, Names DEF UvCalls, NoUv, Starting, Resolving
    <3>2. CASE uv' = [fn |-> "UV_PushError", c |-> c]
      BY <3>2 DEF UvCalls, Starting, Resolving
    <3> QED
      BY <2>2, <3>1, <3>2
  <2>7. /\ hasty \subseteq hasty' /\ hasty' \subseteq {"close", "connect", "accept", "unload"}
        /\ "connect" \in hasty' => "connect" \in hasty
    BY <1>1, <2>3, TypeIs
  <2>8. \A x \in Contexts : Keeps(x) /\ (InFlight(x)' => InFlight(x)) /\ ~ Resolving(x)'
    <3>1. \A x \in Contexts : InFlight(x)' => InFlight(x)
      <4>1. \A i \in DOMAIN jobs' : \E j \in DOMAIN jobs : jobs'[i] = jobs[j]
        BY <2>1
      <4> SUFFICES ASSUME NEW x \in Contexts, x # c, InFlight(x)'
                   PROVE  InFlight(x)
        BY <1>3
      <4> QED
        BY <1>3, <2>1, <2>5, <2>6, <4>1, HandleFlight
    <3> QED
      BY <2>1, <2>6, <3>1 DEF Keeps
  <2>9. Takes(Ordinary) /\ ctx' \in [Contexts -> CtxRecords]
    BY <1>1, <2>1, TypeIs DEF Takes
  <2>10. OrderInv => /\ sock'[s].state = "open" => sock'[s].use = "idle"
                     /\ call.fn = "OnConnect" /\ call.new = s => sock'[s].use = "idle"
    BY <2>4, <2>5 DEF OrderInv
  <2>11. QuietInv /\ hasty' = {} => sock'[s].state = "open"
    BY <1>3, <2>4, <2>5 DEF QuietInv
  <2> QED
    BY <1>3, <2>1, <2>4, <2>5, <2>6, <2>7, <2>8, <2>9, <2>10, <2>11, HandleStep
<1> QED
  BY <1>4, <1>5, <1>6

(* The socket of UV_OnAsyncResolved is listened on, or connected. *)
LEMMA StartStep ==
  ASSUME IndInv, StartListen \/ StartConnect
  PROVE  IndInv'
<1>1. TypeOK /\ SocketInv /\ BirthInv
  BY DEF IndInv
<1>2. PICK c \in Contexts : c = uv.c /\ InFlight(c) /\ mode \notin {"joined", "closing", "unloaded"}
  BY UvIs DEF StartListen, StartConnect
<1>3. CASE ctx[c].life # "live"
  <2>1. Undefined("freed_context")
    BY <1>2, <1>3 DEF StartListen, StartConnect, Touch
  <2> QED
    BY <1>2, <1>3, <2>1, TouchStep
<1>4. CASE ctx[c].life = "live"
  <2>1. PICK s \in Sockets : ctx[c].socket = s /\ sock[s].state = "open" /\ sock[s].use = "idle" /\ sock[s].data = c /\ Fresh(s)
    BY <1>1, <1>2 DEF SocketInv, Starting, StartListen, StartConnect
  <2>2. /\ jobs' = jobs /\ resolver' = resolver /\ connectQueue' = connectQueue
        /\ dataQueue' = dataQueue /\ errorQueue' = errorQueue /\ phase' = phase /\ call' = call /\ native' = native
        /\ mode' = mode /\ hasty' = hasty
    BY <1>2, <1>4 DEF StartListen, StartConnect, Touch, queues, game
  <2>3. \/ sock' = [sock EXCEPT ![s].use = "listening"] /\ ctx' = ctx /\ uv' = NoUv /\ ctx[c].server
        \/ sock' = [sock EXCEPT ![s].state = "closing"] /\ ctx' = [ctx EXCEPT ![c].socket = NONE] /\ uv' = [uv EXCEPT !.fn = "UV_PushError"]
        \/ sock' = [sock EXCEPT ![s].use = "connecting"] /\ ctx' = ctx /\ uv' = NoUv /\ ~ ctx[c].server
        \/ sock' = [sock EXCEPT ![s].use = "unreachable"] /\ ctx' = ctx /\ uv' = NoUv
    <3>1. CASE StartListen
      BY <1>2, <1>4, <2>1, <3>1 DEF StartListen, Touch, Closed
    <3>2. CASE StartConnect
      BY <1>2, <1>4, <2>1, <3>2 DEF StartConnect, Touch
    <3> QED
      BY <3>1, <3>2
  <2>4. PICK st \in {"none", "open", "closing", "freed"}, u \in {"idle", "connecting", "unreachable", "listening", "reading"} :
          /\ Moves(s, st, u)
          /\ \/ ctx' = ctx /\ uv' = NoUv /\ st = "open"
             \/ ctx' = [ctx EXCEPT ![c].socket = NONE] /\ uv' = [uv EXCEPT !.fn = "UV_PushError"] /\ st = "closing" /\ u = "idle"
          /\ (u = "listening" => ctx[c].server) /\ (u = "connecting" => ~ ctx[c].server)
    BY <2>1, <2>3 DEF Moves
  <2>5. /\ sock' \in [Sockets -> SockRecords] /\ sock'[s].state = st /\ sock'[s].use = u /\ sock'[s].data = sock[s].data
        /\ \A t \in Sockets : t # s => SameSock(t)
    <3>1. /\ st \in {"none", "open", "closing", "freed"} /\ u \in {"idle", "connecting", "unreachable", "listening", "reading"}
          /\ Moves(s, st, u)
      BY <2>4
    <3> QED
      BY <1>1, <3>1, HandleChanged
  <2>6. /\ uv' \in UvCalls /\ (uv' = NoUv \/ (uv'.fn # "none" /\ uv'.c \in Contexts)) /\ ~ Starting'
        /\ \A x \in Contexts : (uv'.c = x => x = c) /\ ~ Resolving(x)'
    <3>1. CASE uv' = NoUv
      BY <3>1, Names DEF UvCalls, NoUv, Starting, Resolving
    <3>2. CASE uv' = [uv EXCEPT !.fn = "UV_PushError"]
      <4>1. uv' = [fn |-> "UV_PushError", c |-> c]
        BY <1>1, <1>2, <3>2, TypeIs DEF UvCalls
      <4> QED
        BY <4>1 DEF UvCalls, Starting, Resolving
    <3> QED
      BY <2>4, <3>1, <3>2
  <2>7. /\ ctx' \in [Contexts -> CtxRecords]
        /\ \A x \in Contexts : /\ ctx'[x].life = ctx[x].life /\ (ctx'[x].deleted <=> ctx[x].deleted)
                               /\ (ctx'[x].pending <=> ctx[x].pending) /\ (ctx'[x].server <=> ctx[x].server)
                               /\ ctx'[x].stream = ctx[x].stream /\ ctx'[x].socket \in {ctx[x].socket, NONE}
        /\ st # "open" => ctx'[c].socket = NONE
    <3>1. CASE ctx' = ctx /\ st = "open"
      BY <1>1, <3>1, TypeIs
    <3>2. CASE ctx' = [ctx EXCEPT ![c].socket = NONE]
      <4>1. /\ ctx' \in [Contexts -> CtxRecords] /\ ctx'[c].socket = NONE
            /\ \A x \in Contexts : /\ ctx'[x].life = ctx[x].life /\ (ctx'[x].deleted <=> ctx[x].deleted)
                                   /\ (ctx'[x].pending <=> ctx[x].pending) /\ (ctx'[x].server <=> ctx[x].server)
                                   /\ ctx'[x].stream = ctx[x].stream
                                   /\ x # c => ctx'[x].socket = ctx[x].socket
        BY <1>1, <3>2, SocketAssigned
      <4> QED
        BY <4>1
    <3> QED
      BY <2>4, <3>1, <3>2
  <2>8. \A x \in Contexts : Keeps(x) /\ (InFlight(x)' => InFlight(x)) /\ ~ Resolving(x)'
    <3>1. \A x \in Contexts : InFlight(x)' => InFlight(x)
      <4>1. \A i \in DOMAIN jobs' : \E j \in DOMAIN jobs : jobs'[i] = jobs[j]
        BY <2>2
      <4> SUFFICES ASSUME NEW x \in Contexts, x # c, InFlight(x)'
                   PROVE  InFlight(x)
        BY <1>2
      <4> QED
        BY <2>1, <2>2, <2>5, <2>6, <4>1, HandleFlight
    <3> QED
      BY <2>6, <2>7, <3>1 DEF Keeps
  <2>9. Takes(Ordinary)
    BY <2>2 DEF Takes
  <2>10. call.new # s
    BY <1>1, <2>1, Names DEF Fresh, BirthInv, InFlight
  <2>11. OrderInv => \A x \in Contexts : sock'[s].state # "open" => ctx'[x].stream # s /\ ctx'[x].socket # s
    <3> SUFFICES ASSUME OrderInv, NEW x \in Contexts, st # "open"
                 PROVE  ctx'[x].stream # s /\ ctx'[x].socket # s
      BY <2>5
    <3>1. ctx'[x].stream # s
      BY <2>1, <2>7 DEF Fresh
    <3>2. CASE x = c
      BY <2>7, <3>1, <3>2, Names
    <3>3. CASE x # c
      BY <2>1, <2>7, <3>1, <3>3, Names DEF OrderInv
    <3> QED
      BY <3>2, <3>3
  <2>12. /\ sock[s].state # "none" /\ sock'[s].state # "none" /\ sock'[s].data = sock[s].data
         /\ sock[s].data \in Contexts /\ (sock'[s].use = "connecting" => sock'[s].state # "closing")
         /\ sock'[s].use = "connecting" => ~ ctx[sock[s].data].server
         /\ sock'[s].use = "listening" => ctx[sock[s].data].server
    BY <2>1, <2>4, <2>5
  <2>13. \A x \in Contexts : ctx'[x].stream = ctx[x].stream
    BY <2>7
  <2>14. "connect" \in hasty' => "connect" \in hasty
    BY <2>2
  <2>15. hasty \subseteq hasty' /\ hasty' \subseteq {"close", "connect", "accept", "unload"}
    BY <1>1, <2>2, TypeIs
  <2>16. ctx' \in [Contexts -> CtxRecords] /\ sock' \in [Sockets -> SockRecords]
    BY <2>5, <2>7
  <2> QED
    BY <1>2, <2>1, <2>2, <2>5, <2>6, <2>8, <2>9, <2>10, <2>11, <2>12, <2>13, <2>14, <2>15, <2>16, HandleStep
<1> QED
  BY <1>3, <1>4

(* UV_OnRead with m_Deleted set closes the handle. *)
LEMMA ReadDeletedStep ==
  ASSUME IndInv, NEW s \in Sockets, ReadDeleted(s)
  PROVE  IndInv'
<1>1. TypeOK /\ SocketInv
  BY DEF IndInv
<1>2. InUse(s, "reading")
  BY DEF ReadDeleted
<1>3. PICK c \in Contexts : /\ c = sock[s].data /\ InFlight(c) /\ uv = NoUv /\ mode \in {"running", "unloading", "stopping"}
                            /\ sock[s].state = "open" /\ sock[s].use = "reading"
  BY <1>2, UseIs
<1>4. CASE ctx[c].life # "live"
  BY <1>3, <1>4, TouchStep DEF ReadDeleted, Touch
<1>5. CASE ctx[c].life = "live"
  <2>1. /\ ctx' = [ctx EXCEPT ![c].stream = NONE] /\ jobs' = jobs /\ resolver' = resolver /\ connectQueue' = connectQueue
        /\ dataQueue' = dataQueue /\ errorQueue' = errorQueue /\ phase' = phase /\ call' = call /\ native' = native
        /\ mode' = mode /\ hasty' = hasty /\ uv' = [fn |-> "UV_OnRead", c |-> c] /\ Moves(s, "closing", "reading") /\ ctx[c].deleted
    BY <1>3, <1>5 DEF ReadDeleted, Touch, queues, game, Moves, Closed
  <2>2. /\ sock' \in [Sockets -> SockRecords] /\ sock'[s].state = "closing" /\ sock'[s].use = "reading" /\ sock'[s].data = sock[s].data
        /\ \A t \in Sockets : t # s => SameSock(t)
    BY <1>1, <2>1, HandleChanged
  <2>3. /\ uv' \in UvCalls /\ uv'.fn # "none" /\ uv'.c = c /\ ~ Starting' /\ \A x \in Contexts : ~ Resolving(x)'
    BY <2>1 DEF UvCalls, Starting, Resolving
  <2>4. ctx' \in [Contexts -> CtxRecords] /\ \A x \in Contexts : Keeps(x)
    <3>1. ctx \in [Contexts -> CtxRecords]
      BY <1>1, TypeIs
    <3> QED
      BY <2>1, <3>1 DEF CtxRecords, Keeps
  <2>5. \A x \in Contexts : InFlight(x)' => InFlight(x)
    <3>1. \A i \in DOMAIN jobs' : \E j \in DOMAIN jobs : jobs'[i] = jobs[j]
      BY <2>1
    <3> SUFFICES ASSUME NEW x \in Contexts, x # c, InFlight(x)'
                 PROVE  InFlight(x)
      BY <1>3
    <3> QED
      BY <1>3, <2>1, <2>2, <2>3, <3>1, HandleFlight
  <2>6. Takes(Ordinary)
    BY <2>1 DEF Takes
  <2>7. ~ (OrderInv /\ call.fn = "OnConnect" /\ call.new = s)
    BY <1>3 DEF OrderInv
  <2>8. ~ QuietInv
    BY <1>3, <2>1 DEF QuietInv
  <2>9. hasty \subseteq hasty' /\ hasty' \subseteq {"close", "connect", "accept", "unload"} /\ ("connect" \in hasty' => "connect" \in hasty)
    BY <1>1, <2>1, TypeIs
  <2> QED
    BY <1>3, <2>1, <2>2, <2>3, <2>4, <2>5, <2>6, <2>7, <2>8, <2>9, HandleStep
<1> QED
  BY <1>4, <1>5

(* A connection that was announced is read from now on. *)
LEMMA StartReadStep ==
  ASSUME IndInv, StartRead
  PROVE  IndInv'
<1>1. TypeOK /\ ResolveInv /\ SocketInv /\ BirthInv
  BY DEF IndInv
<1>2. /\ jobs # <<>> /\ uv = NoUv /\ mode \in {"running", "unloading", "stopping"} /\ Head(jobs).fn = "UV_StartRead"
      /\ 1 \in DOMAIN jobs /\ jobs[1] = Head(jobs)
  BY <1>1, NextIs DEF StartRead, JobFns, NextJob
<1>3. PICK c \in Contexts : c = Head(jobs).c /\ HasJob(c)
  BY <1>1, NextIs DEF StartRead, JobFns
<1>4. CASE ctx[c].life # "live"
  BY <1>3, <1>4, TouchStep DEF StartRead, Touch
<1>5. CASE /\ ctx[c].life = "live" /\ ~ ctx[c].deleted /\ ctx[c].stream # NONE
           /\ sock[ctx[c].stream].state \notin {"open", "closing"}
  <2>1. Undefined("freed_handle")
    BY <1>3, <1>5 DEF StartRead, Touch, TouchHandle
  <2>2. PICK s \in Sockets : ctx[c].stream = s
    BY <1>1, <1>5, TypeIs DEF CtxRecords
  <2>3. hasty # {}
    BY <1>5, <2>2 DEF IndInv, QuietInv
  <2> QED
    BY <2>1, <2>3, UndefinedStep DEF Undefinedness
<1>6. CASE /\ ctx[c].life = "live"
           /\ ctx[c].deleted \/ ctx[c].stream = NONE \/ sock[ctx[c].stream].state \in {"open", "closing"}
  <2>1. /\ jobs' = Tail(jobs) /\ ctx' = ctx /\ resolver' = resolver /\ connectQueue' = connectQueue
        /\ dataQueue' = dataQueue /\ errorQueue' = errorQueue /\ phase' = phase /\ call' = call /\ native' = native
        /\ uv' = uv /\ mode' = mode /\ hasty' = hasty
        /\ \/ sock' = sock
           \/ /\ ~ ctx[c].deleted /\ ctx[c].stream # NONE /\ sock[ctx[c].stream].state = "open"
              /\ sock' = [sock EXCEPT ![ctx[c].stream].use = "reading"]
    <3>1. CASE ctx[c].deleted \/ ctx[c].stream = NONE
      BY <1>3, <1>6, <3>1 DEF StartRead, Touch, queues, game
    <3>2. CASE ~ ctx[c].deleted /\ ctx[c].stream # NONE /\ sock[ctx[c].stream].state = "open"
      BY <1>3, <1>6, <3>2 DEF StartRead, Touch, TouchHandle, queues, game
    <3>3. CASE ~ ctx[c].deleted /\ ctx[c].stream # NONE /\ sock[ctx[c].stream].state = "closing"
      <4>1. /\ sock' = [sock EXCEPT ![ctx[c].stream].use = @] /\ UNCHANGED <<ctx, resolver, queues, game, uv, mode, hasty>>
            /\ jobs' = Tail(jobs)
        BY <1>3, <1>6, <3>3 DEF StartRead, Touch, TouchHandle
      <4>2. sock' = sock
        BY <1>1, <4>1, TypeIs DEF SockRecords
      <4> QED
        BY <4>1, <4>2 DEF queues, game
    <3> QED
      BY <1>6, <3>1, <3>2, <3>3
  <2>2. /\ Takes(Ordinary) /\ ~ Starting' /\ uv' \in UvCalls /\ uv' = NoUv
        /\ \A x \in Contexts : uv'.c # x /\ ~ Resolving(x)'
    BY <1>1, <1>2, <2>1, TypeIs, Names DEF Takes, Ordinary, Starting, Resolving, NoUv
  <2>3. Remains(jobs', jobs) /\ \A i \in DOMAIN jobs' : \E j \in DOMAIN jobs : jobs'[i] = jobs[j]
    BY <1>1, <2>2, Taken
  <2>4. /\ ctx' \in [Contexts -> CtxRecords] /\ resolver' \in [Contexts -> Nat] /\ sock \in [Sockets -> SockRecords]
        /\ dataQueue' \in Seq(Contexts) /\ errorQueue' \in Seq(Contexts)
    BY <1>1, <2>1, TypeIs
  <2>5. CASE sock' = sock
    <3>1. \A x \in Contexts : InFlight(x)' => InFlight(x)
      <4>1. \A x : (\E i \in DOMAIN jobs' : jobs'[i] = Job("UV_OnAsyncResolve", x)) => \E i \in DOMAIN jobs : jobs[i] = Job("UV_OnAsyncResolve", x)
        BY <2>3
      <4> QED
        BY <2>1, <2>5, <4>1 DEF InFlight
    <3>2. ResolveInv'
      BY <1>1, <2>1, <2>2, <2>3, ResolveKept
    <3>3. \A s \in Sockets : SameSock(s)
      BY <2>5 DEF SameSock
    <3> QED
      BY <1>2, <2>1, <2>2, <2>4, <2>5, <3>1, <3>2, <3>3, LoopStep
  <2>6. CASE ~ ctx[c].deleted /\ ctx[c].stream # NONE /\ sock[ctx[c].stream].state = "open" /\ sock' = [sock EXCEPT ![ctx[c].stream].use = "reading"]
    <3>1. PICK s \in Sockets : ctx[c].stream = s
      BY <2>1, <2>4, <2>6 DEF CtxRecords
    <3>2. Moves(s, "open", "reading") /\ sock[s].state = "open" /\ sock[s].data \in Contexts
      BY <1>1, <2>6, <3>1 DEF Moves, SocketInv
    <3>3. /\ sock' \in [Sockets -> SockRecords] /\ sock'[s].state = "open" /\ sock'[s].use = "reading" /\ sock'[s].data = sock[s].data
          /\ \A t \in Sockets : t # s => SameSock(t)
      BY <1>1, <3>2, HandleChanged
    <3>4. \A x \in Contexts : InFlight(x)' => InFlight(x) \/ (ctx[x].life # "none" /\ (OrderInv => ~ ctx[x].deleted))
      <4> SUFFICES ASSUME NEW x \in Contexts, InFlight(x)', ~ InFlight(x)
                   PROVE  ctx[x].life # "none" /\ (OrderInv => ~ ctx[x].deleted)
        OBVIOUS
      <4>1. sock[s].data = x
        BY <2>1, <2>2, <2>3, <3>3, HandleFlight
      <4>2. OrderInv => x = c
        BY <3>1, <4>1 DEF OrderInv
      <4> QED
        BY <1>1, <2>6, <4>1, <4>2 DEF BirthInv
    <3>5. OrderInv => ~ (call.fn = "OnConnect" /\ call.new = s)
      <4> SUFFICES ASSUME OrderInv, call.fn = "OnConnect", call.new = s
                   PROVE  FALSE
        OBVIOUS
      <4>1. sock[s].data = c /\ sock[s].data = s
        BY <3>1 DEF OrderInv
      <4> QED
        BY <1>2, <1>3, <4>1 DEF OrderInv
    <3>6. \A x \in Contexts : Keeps(x)
      BY <2>1 DEF Keeps
    <3>7. hasty \subseteq hasty' /\ hasty' \subseteq {"close", "connect", "accept", "unload"} /\ ("connect" \in hasty' => "connect" \in hasty)
      BY <1>1, <2>1, TypeIs
    <3> QED
      BY <1>2, <2>1, <2>2, <2>4, <3>2, <3>3, <3>4, <3>5, <3>6, <3>7, HandleStep
  <2> QED
    BY <2>1, <2>5, <2>6
<1> QED
  BY <1>4, <1>5, <1>6

(* uv__finish_close frees a handle, or closes it again. *)
LEMMA FinishCloseStep ==
  ASSUME IndInv, NEW s \in Sockets, FinishClose(s)
  PROVE  IndInv'
<1>1. TypeOK /\ SocketInv /\ EndInv
  BY DEF IndInv
<1>2. uv = NoUv /\ sock[s].state = "closing" /\ mode \notin {"joined", "unloaded"}
  BY DEF FinishClose, LoopRuns
<1>3. QuietInv => sock[s].use # "connecting"
  BY <1>2 DEF QuietInv
<1>4. CASE \E what \in Undefinedness : Undefined(what) /\ sock[s].use = "connecting"
  BY <1>3, <1>4, UndefinedStep DEF IndInv
<1>5. CASE /\ sock' = [sock EXCEPT ![s].state = "freed"] /\ UNCHANGED <<ctx, resolver, jobs, queues, game, mode, hasty>>
           /\ \/ uv' = uv /\ sock[s].use # "connecting"
              \/ /\ sock[s].use = "connecting" /\ uv' = [fn |-> "UV_PushError", c |-> sock[s].data]
                 /\ ctx[sock[s].data].life = "live" /\ ~ ctx[sock[s].data].deleted
  <2>1. /\ ctx' = ctx /\ jobs' = jobs /\ resolver' = resolver /\ connectQueue' = connectQueue
        /\ dataQueue' = dataQueue /\ errorQueue' = errorQueue /\ phase' = phase /\ call' = call /\ native' = native
        /\ mode' = mode /\ hasty' = hasty /\ Moves(s, "freed", sock[s].use)
    BY <1>5 DEF queues, game, Moves
  <2>2. /\ sock' \in [Sockets -> SockRecords] /\ sock'[s].state = "freed" /\ sock'[s].use = sock[s].use /\ sock'[s].data = sock[s].data
        /\ \A t \in Sockets : t # s => SameSock(t)
    <3>1. sock[s].use \in {"idle", "connecting", "unreachable", "listening", "reading"}
      BY <1>1, TypeIs DEF SockRecords
    <3> QED
      BY <1>1, <2>1, <3>1, HandleChanged
  <2>3. /\ uv' \in UvCalls /\ (uv' = NoUv \/ (uv'.fn # "none" /\ uv'.c \in Contexts)) /\ ~ Starting'
        /\ \A x \in Contexts : ~ Resolving(x)' /\ (uv'.c = x => sock[s].data = x /\ ctx[x].life = "live" /\ ~ ctx[x].deleted)
    <3>1. CASE uv' = NoUv
      BY <3>1, Names DEF UvCalls, NoUv, Starting, Resolving
    <3>2. CASE sock[s].use = "connecting" /\ uv' = [fn |-> "UV_PushError", c |-> sock[s].data]
      <4>1. sock[s].data \in Contexts
        BY <1>1, <3>2 DEF SocketInv
      <4> QED
        BY <1>5, <3>2, <4>1, Names DEF UvCalls, Starting, Resolving, NoUv
    <3> QED
      BY <1>2, <1>5, <3>1, <3>2
  <2>4. \A x \in Contexts : InFlight(x)' => InFlight(x) \/ (ctx[x].life # "none" /\ (OrderInv => ~ ctx[x].deleted))
    <3> SUFFICES ASSUME NEW x \in Contexts, InFlight(x)', ~ InFlight(x), uv'.c # x
                 PROVE  FALSE
      BY <2>3
    <3>1. (\E i \in DOMAIN jobs' : jobs'[i] = Job("UV_OnAsyncResolve", x)) => \E i \in DOMAIN jobs : jobs[i] = Job("UV_OnAsyncResolve", x)
      BY <2>1
    <3>2. \A t \in Sockets : sock'[t].state = "open" =>
            sock[t].state = "open" /\ sock'[t].data = sock[t].data /\ sock'[t].use = sock[t].use
      BY <2>2 DEF SameSock
    <3> QED
      BY <2>1, <3>1, <3>2 DEF InFlight
  <2>5. Takes(Ordinary) /\ \A x \in Contexts : Keeps(x)
    BY <2>1 DEF Takes, Keeps
  <2>6. hasty \subseteq hasty' /\ hasty' \subseteq {"close", "connect", "accept", "unload"} /\ ("connect" \in hasty' => "connect" \in hasty)
    BY <1>1, <2>1, TypeIs
  <2>7. OrderInv => (call.fn = "OnConnect" /\ call.new = s => sock'[s].use = "idle")
    BY <2>2 DEF OrderInv
  <2>8. QuietInv => \A x \in Contexts : ctx'[x].life = "live" => ctx'[x].stream # s /\ ctx'[x].socket # s
    BY <1>2, <2>1 DEF QuietInv
  <2>9. mode = "closing" => uv' = NoUv
    <3>1. mode = "closing" => \A x \in Contexts : ~ (ctx[x].life = "live" /\ ~ ctx[x].deleted)
      BY <1>1 DEF EndInv, Ended, Valid
    <3> QED
      BY <1>1, <1>2, <1>5, <3>1 DEF SocketInv
  <2>10. ctx' \in [Contexts -> CtxRecords] /\ (sock'[s].use # "idle" => sock[s].data \in Contexts) /\ (sock'[s].use = "connecting" => Fresh(s))
    BY <1>1, <2>1, <2>2, TypeIs DEF SocketInv
  <2> QED
    BY <1>2, <1>3, <2>1, <2>2, <2>3, <2>4, <2>5, <2>6, <2>7, <2>8, <2>9, <2>10, HandleStep
<1>6. \/ \E what \in Undefinedness : Undefined(what) /\ sock[s].use = "connecting"
      \/ /\ sock' = [sock EXCEPT ![s].state = "freed"] /\ UNCHANGED <<ctx, resolver, jobs, queues, game, mode, hasty>>
         /\ \/ uv' = uv /\ sock[s].use # "connecting"
            \/ /\ sock[s].use = "connecting" /\ uv' = [fn |-> "UV_PushError", c |-> sock[s].data]
               /\ ctx[sock[s].data].life = "live" /\ ~ ctx[sock[s].data].deleted
  BY DEF FinishClose, Touch, Undefinedness
<1> QED
  BY <1>4, <1>5, <1>6

(* The result of a look-up is stored: m_pSocket is a new handle. *)
LEMMA SetSocketStep ==
  ASSUME IndInv, SetSocket
  PROVE  IndInv'
<1>1. TypeOK /\ RunInv /\ BirthInv /\ SocketInv /\ ResolveInv
  BY DEF IndInv
<1>2. PICK c \in Contexts : c = uv.c /\ InFlight(c) /\ mode \notin {"joined", "closing", "unloaded"} /\ uv.fn = "resolved"
  BY UvIs DEF SetSocket
<1>3. CASE ctx[c].life # "live"
  BY <1>2, <1>3, TouchStep DEF SetSocket, Touch
<1>4. CASE ctx[c].life = "live"
  <2>1. PICK s \in Sockets :
          /\ sock[s].state = "none" /\ sock' = Opened(s, c) /\ ctx' = [ctx EXCEPT ![c].socket = s]
          /\ uv' = [uv EXCEPT !.fn = "socket_set"] /\ jobs' = jobs /\ resolver' = resolver /\ connectQueue' = connectQueue
          /\ dataQueue' = dataQueue /\ errorQueue' = errorQueue /\ phase' = phase /\ call' = call /\ native' = native
          /\ mode' = mode /\ hasty' = hasty
    BY <1>2, <1>4 DEF SetSocket, Touch, Unused, queues, game
  <2>2. /\ sock' \in [Sockets -> SockRecords] /\ sock'[s].state = "open" /\ sock'[s].data = c /\ sock'[s].use = sock[s].use
        /\ \A t \in Sockets : t # s => SameSock(t)
    <3>1. sock \in [Sockets -> SockRecords]
      BY <1>1, TypeIs
    <3> DEFINE r == [[sock[s] EXCEPT !.state = "open"] EXCEPT !.data = c]
    <3>2. r \in SockRecords /\ r.state = "open" /\ r.data = c /\ r.use = sock[s].use
      BY <3>1 DEF SockRecords
    <3>3. sock' = [sock EXCEPT ![s] = r]
      BY <2>1, <3>1 DEF Opened
    <3> HIDE DEF r
    <3> QED
      BY <3>1, <3>2, <3>3 DEF SameSock
  <2>3. /\ ctx' \in [Contexts -> CtxRecords] /\ ctx'[c].socket = s
        /\ \A x \in Contexts : /\ ctx'[x].life = ctx[x].life /\ (ctx'[x].deleted <=> ctx[x].deleted)
                               /\ (ctx'[x].pending <=> ctx[x].pending) /\ (ctx'[x].server <=> ctx[x].server)
                               /\ ctx'[x].stream = ctx[x].stream
                               /\ x # c => ctx'[x].socket = ctx[x].socket
    BY <1>1, <2>1, SocketAssigned
  <2>4. /\ sock[s].data = NONE /\ sock[s].use = "idle" /\ ctx[s].life = "none" /\ c # s /\ Fresh(s)
        /\ \A i \in DOMAIN connectQueue : connectQueue[i].s # s
        /\ \A x \in Contexts : ctx[x].stream # s /\ ctx[x].socket # s
    <3>1. /\ sock[s].data = NONE /\ sock[s].use = "idle" /\ Fresh(s)
          /\ \A x \in Contexts : ctx[x].socket # s
      BY <1>1, <2>1 DEF SocketInv
    <3>2. ctx[c].life # "none"
      BY <1>4
    <3> QED
      BY <3>1, <3>2 DEF Fresh
  <2>5. uv' \in UvCalls /\ uv'.fn = "socket_set" /\ uv'.c = c /\ uv' # NoUv
    BY <1>1, <1>2, <2>1, TypeIs DEF UvCalls, NoUv
  <2>6. \A t \in Sockets : t # s => sock'[t].state = sock[t].state /\ sock'[t].data = sock[t].data /\ sock'[t].use = sock[t].use
    BY <2>2 DEF SameSock
  <2>7. \A x : InFlight(x)' => InFlight(x)
    <3>1. \A t \in Sockets : sock'[t].use \in {"connecting", "listening", "reading"} => t # s
      BY <2>2, <2>4
    <3>2. \A x : (\E t \in Sockets : sock'[t].state = "open" /\ sock'[t].data = x /\ sock'[t].use \in {"connecting", "listening", "reading"})
            => \E t \in Sockets : sock[t].state = "open" /\ sock[t].data = x /\ sock[t].use \in {"connecting", "listening", "reading"}
      BY <2>6, <3>1
    <3>3. \A x : uv'.c = x => uv.c = x
      BY <1>2, <2>1, <2>5
    <3>4. UNCHANGED <<jobs, resolver, connectQueue, dataQueue, errorQueue, call>>
      BY <1>2, <2>1
    <3> QED
      BY <3>2, <3>3, <3>4 DEF InFlight
  <2>8. Takes(Ordinary)
    BY <2>1 DEF Takes
  <2>9. TypeOK'
    BY <1>1, <2>1, <2>2, <2>3, <2>5, TypeIs, TypeIsNext
  <2>10. RunInv' /\ BirthInv' /\ DeleteIsLast' /\ DeleteInv' /\ EndInv'
    <3>1. ASSUME NEW x \in Contexts, ctx[x].life = "none"
          PROVE  /\ ctx'[x].socket = NONE /\ ctx'[x].stream = NONE /\ ~ InFlight(x)' /\ \A t \in Sockets : sock'[t].data # x
      <4>1. x # c /\ ctx[x].socket = NONE /\ ctx[x].stream = NONE /\ ~ InFlight(x) /\ \A t \in Sockets : sock[t].data # x
        BY <1>1, <1>4, <3>1 DEF BirthInv
      <4> QED
        BY <2>2, <2>3, <2>6, <2>7, <4>1
    <3> QED
      BY <1>2, <2>1, <2>3, <2>5, <2>8, <3>1, LoopKept
  <2>11. SocketInv'
    <3>1. \A t \in Sockets : Fresh(t) => Fresh(t)'
      BY <2>1, <2>3, Names DEF Fresh
    <3>2. ASSUME NEW t \in Sockets
          PROVE  /\ sock'[t].use \notin {"idle"} => sock'[t].data \in Contexts
                 /\ sock'[t].state = "none" =>
                      /\ sock'[t].data = NONE /\ sock'[t].use = "idle" /\ Fresh(t)'
                      /\ \A x \in Contexts : ctx'[x].socket # t
                 /\ sock'[t].use = "connecting" => Fresh(t)'
      <4>1. CASE t = s
        BY <2>2, <2>4, <4>1
      <4>2. CASE t # s
        BY <1>1, <2>3, <2>6, <3>1, <4>2 DEF SocketInv
      <4> QED
        BY <4>1, <4>2
    <3>3. Starting' => \E t \in Sockets :
            ctx'[uv'.c].socket = t /\ sock'[t].state = "open" /\ sock'[t].use = "idle" /\ sock'[t].data = uv'.c /\ Fresh(t)'
      <4>1. Fresh(s)' /\ sock'[s].use = "idle"
        BY <2>2, <2>4, <3>1
      <4> QED
        BY <2>2, <2>3, <2>5, <4>1
    <3>4. ASSUME NEW x \in Contexts, NEW t \in Sockets, ctx'[x].stream = t \/ ctx'[x].socket = t
          PROVE  sock'[t].data \in Contexts
      <4>1. CASE t = s
        BY <2>2, <4>1
      <4>2. CASE t # s
        BY <1>1, <2>3, <2>6, <3>4, <4>2 DEF SocketInv
      <4> QED
        BY <4>1, <4>2
    <3>5. \A i \in DOMAIN connectQueue' :
            /\ ctx'[connectQueue'[i].s].life = "none" /\ sock'[connectQueue'[i].s].state # "none"
            /\ \A j \in DOMAIN connectQueue' : connectQueue'[i].s = connectQueue'[j].s => i = j
      <4>1. \A i \in DOMAIN connectQueue : connectQueue[i].s \in Sockets /\ connectQueue[i].s # s
        BY <1>1, <2>4, Elements
      <4>2. \A t \in Sockets : ctx'[t].life = ctx[t].life /\ (t # s => sock'[t].state = sock[t].state)
        BY <2>3, <2>6, Names
      <4>3. \A i \in DOMAIN connectQueue :
              /\ ctx[connectQueue[i].s].life = "none" /\ sock[connectQueue[i].s].state # "none"
              /\ \A j \in DOMAIN connectQueue : connectQueue[i].s = connectQueue[j].s => i = j
        BY <1>1 DEF SocketInv
      <4> QED
        BY <2>1, <4>1, <4>2, <4>3
    <3> QED
      BY <3>2, <3>3, <3>4, <3>5 DEF SocketInv
  <2>12. ResolveInv'
    <3>1. Remains(jobs', jobs)
      BY <1>1, <2>1, TypeIs, RemainsIs
    <3>2. \A x \in Contexts : Resolving(x)' => Resolving(x)
      BY <1>2, <2>5 DEF Resolving
    <3> QED
      BY <1>1, <2>1, <2>3, <3>1, <3>2, ResolveKept
  <2>13. ASSUME OrderInv
         PROVE  OrderInv'
    <3>1. \A x \in Contexts, t \in Sockets : ctx'[x].stream = t \/ ctx'[x].socket = t => sock'[t].data = x
      <4> SUFFICES ASSUME NEW x \in Contexts, NEW t \in Sockets, ctx'[x].stream = t \/ ctx'[x].socket = t
                   PROVE  sock'[t].data = x
        OBVIOUS
      <4>1. CASE t = s
        BY <2>2, <2>3, <2>4, <4>1
      <4>2. CASE t # s
        BY <2>3, <2>6, <2>13, <4>2 DEF OrderInv
      <4> QED
        BY <4>1, <4>2
    <3>2. ASSUME NEW t \in Sockets, sock'[t].state = "open"
          PROVE  /\ sock'[t].use = "connecting" => ~ ctx'[sock'[t].data].server
                 /\ sock'[t].use = "listening" => ctx'[sock'[t].data].server
      <4>1. CASE t = s
        BY <2>2, <2>4, <4>1
      <4>2. CASE t # s
        <5>1. sock[t].use # "idle" => sock[t].data \in Contexts
          BY <1>1 DEF SocketInv
        <5> QED
          BY <2>3, <2>6, <2>13, <3>2, <4>2, <5>1 DEF OrderInv
      <4> QED
        BY <4>1, <4>2
    <3>3. ASSUME NEW i \in DOMAIN connectQueue'
          PROVE  IF ctx'[connectQueue'[i].c].server
                   THEN sock'[connectQueue'[i].s].data = NONE /\ sock'[connectQueue'[i].s].use = "idle"
                   ELSE sock'[connectQueue'[i].s].data = connectQueue'[i].c
      <4>1. PICK x \in Contexts, t \in Sockets : connectQueue[i].c = x /\ connectQueue[i].s = t /\ t # s /\ i \in DOMAIN connectQueue
        BY <1>1, <2>1, <2>4, Elements
      <4>2. IF ctx[x].server THEN sock[t].data = NONE /\ sock[t].use = "idle" ELSE sock[t].data = x
        BY <2>13, <4>1 DEF OrderInv
      <4>3. (ctx'[x].server <=> ctx[x].server) /\ sock'[t].data = sock[t].data /\ sock'[t].use = sock[t].use
        BY <2>3, <2>6, <4>1
      <4> QED
        BY <2>1, <4>1, <4>2, <4>3
    <3>4. call'.fn = "OnConnect" => sock'[call'.new].data = call'.new /\ sock'[call'.new].use = "idle"
      <4> SUFFICES ASSUME call.fn = "OnConnect"
                   PROVE  sock'[call.new].data = call.new /\ sock'[call.new].use = "idle"
        BY <2>1
      <4>1. call.new \in Sockets /\ sock[call.new].data = call.new /\ sock[call.new].use = "idle"
        BY <1>1, <2>13 DEF OrderInv, RunInv, NoCall
      <4> QED
        BY <2>4, <2>6, <4>1, Names
    <3> QED
      BY <2>1, <2>13, <3>1, <3>2, <3>3, <3>4 DEF OrderInv
  <2>14. ASSUME QuietInv
         PROVE  QuietInv'
    <3>1. ASSUME NEW x \in Contexts
          PROVE  /\ ctx'[x].deleted => ~ InFlight(x)'
                 /\ HasJob(x)' => ctx'[x].life = "live"
                 /\ \A i \in DOMAIN jobs' : jobs'[i].c = x /\ jobs'[i].fn \in {"UV_OnAsyncWrite", "UV_StartRead"} => ctx'[x].stream # NONE
                 /\ call'.new = x => ctx'[x].stream # NONE
      <4>1. /\ ctx[x].deleted => ~ InFlight(x)
            /\ HasJob(x) => ctx[x].life = "live"
            /\ \A i \in DOMAIN jobs : jobs[i].c = x /\ jobs[i].fn \in {"UV_OnAsyncWrite", "UV_StartRead"} => ctx[x].stream # NONE
            /\ call.new = x => ctx[x].stream # NONE
        BY <2>14 DEF QuietInv
      <4>2. HasJob(x)' <=> HasJob(x)
        BY <2>1 DEF HasJob
      <4>3. ctx'[x].stream = ctx[x].stream /\ ctx'[x].life = ctx[x].life /\ (ctx'[x].deleted <=> ctx[x].deleted)
        BY <2>3
      <4> QED
        BY <2>1, <2>7, <4>1, <4>2, <4>3
    <3>2. ASSUME NEW x \in Contexts, ctx'[x].life = "live", NEW t \in Sockets, ctx'[x].stream = t \/ ctx'[x].socket = t
          PROVE  sock'[t].state = "open"
      <4>1. CASE t = s
        BY <2>2, <4>1
      <4>2. CASE t # s
        BY <2>3, <2>6, <2>14, <3>2, <4>2 DEF QuietInv
      <4> QED
        BY <4>1, <4>2
    <3>3. \A t \in Sockets : sock'[t].use = "connecting" => sock'[t].state # "closing"
      BY <2>2, <2>4, <2>6, <2>14 DEF QuietInv
    <3>4. mode' = "running" =>
            \A i \in DOMAIN connectQueue' : sock'[connectQueue'[i].s].data = NONE => sock'[connectQueue'[i].s].state = "open"
      <4>1. \A i \in DOMAIN connectQueue : connectQueue[i].s \in Sockets /\ connectQueue[i].s # s
        BY <1>1, <2>4, Elements
      <4> QED
        BY <2>1, <2>6, <2>14, <4>1 DEF QuietInv
    <3> QED
      BY <2>1, <2>14, <3>1, <3>2, <3>3, <3>4 DEF QuietInv
  <2> QED
    BY <1>1, <2>1, <2>9, <2>10, <2>11, <2>12, <2>13, <2>14 DEF IndInv
<1> QED
  BY <1>3, <1>4

(* A connection is put into the queue: that of a client, or one that a server accepts. *)
LEMMA ConnectionStep ==
  ASSUME IndInv, NEW c \in Contexts, NEW t \in Sockets, ctx[c].life = "live", ~ ctx[c].deleted, InFlight(c), uv = NoUv,
         mode \in {"running", "unloading", "stopping"}, connectQueue' = Append(connectQueue, Connect(c, t)),
         jobs' = jobs, dataQueue' = dataQueue, errorQueue' = errorQueue, resolver' = resolver, uv' = uv,
         phase' = phase, call' = call, native' = native, mode' = mode, hasty' = hasty,
         ctx' \in [Contexts -> CtxRecords], sock' \in [Sockets -> SockRecords],
         \A x \in Contexts : /\ ctx'[x].life = ctx[x].life /\ (ctx'[x].deleted <=> ctx[x].deleted)
                             /\ (ctx'[x].pending <=> ctx[x].pending) /\ (ctx'[x].server <=> ctx[x].server)
                             /\ ctx'[x].socket = ctx[x].socket
                             /\ ctx'[x].stream = ctx[x].stream \/ (x = c /\ ctx'[x].stream = t /\ sock[t].data = c),
         \A u \in Sockets : u # t => SameSock(u),
         Fresh(t), sock'[t].state = "open", sock'[t].data = sock[t].data,
         \/ sock[t].data = NONE /\ sock'[t].use = "idle" /\ \A x \in Contexts : ctx[x].socket # t
         \/ sock[t].data = c /\ sock'[t].use = "reading",
         OrderInv => (ctx[c].server <=> sock[t].data = NONE)
  PROVE  IndInv'
<1>1. TypeOK /\ RunInv /\ BirthInv /\ SocketInv /\ ResolveInv
  BY DEF IndInv
<1>2. /\ ctx[t].life = "none" /\ c # t /\ \A x \in Contexts : ctx[x].stream # t
      /\ \A i \in DOMAIN connectQueue : connectQueue[i].s # t
  BY DEF Fresh
<1>3. \A u \in Sockets : /\ sock'[u].data = sock[u].data
                         /\ u # t => sock'[u].state = sock[u].state /\ sock'[u].use = sock[u].use
  BY DEF SameSock
<1> DEFINE n == Len(connectQueue) + 1
<1>4. /\ connectQueue' \in Seq(Connects_) /\ n \in DOMAIN connectQueue' /\ n \in Nat
      /\ connectQueue'[n].c = c /\ connectQueue'[n].s = t
      /\ \A i \in DOMAIN connectQueue : i \in Nat /\ i # n
      /\ \A i \in DOMAIN connectQueue' : i = n \/ (i \in DOMAIN connectQueue /\ connectQueue'[i] = connectQueue[i])
  <2>1. connectQueue \in Seq(Connects_) /\ Connect(c, t) \in Connects_ /\ Connect(c, t).c = c /\ Connect(c, t).s = t
    BY <1>1, TypeIs DEF Connects_, Connect
  <2>2. /\ connectQueue' \in Seq(Connects_) /\ n \in DOMAIN connectQueue' /\ Len(connectQueue) \in Nat
        /\ connectQueue'[n] = Connect(c, t)
        /\ \A i \in DOMAIN connectQueue : i \in Nat /\ i <= Len(connectQueue)
        /\ \A i \in DOMAIN connectQueue' : i = n \/ (i \in DOMAIN connectQueue /\ connectQueue'[i] = connectQueue[i])
    BY <2>1, Pushed
  <2> QED
    BY <2>1, <2>2
<1> HIDE DEF n
<1>5. \A i \in DOMAIN connectQueue : connectQueue[i].s \in Sockets /\ connectQueue[i].c \in Contexts /\ connectQueue[i].s # t
  BY <1>1, <1>2, Elements
<1>6. TypeOK'
  BY <1>1, <1>4, TypeIs, TypeIsNext
<1>7. uv'.fn = "none" /\ ~ Starting' /\ Takes(Ordinary) /\ \A x : (Resolving(x)' <=> Resolving(x)) /\ (HasJob(x)' <=> HasJob(x))
  BY DEF NoUv, Starting, Takes, Resolving, HasJob
<1>8. \A x : InFlight(x)' => InFlight(x)
  <2> SUFFICES ASSUME NEW x, x # c, InFlight(x)'
               PROVE  InFlight(x)
    OBVIOUS
  <2>1. (\E i \in DOMAIN connectQueue' : connectQueue'[i].c = x) => \E i \in DOMAIN connectQueue : connectQueue[i].c = x
    BY <1>4
  <2>2. (\E u \in Sockets : sock'[u].state = "open" /\ sock'[u].data = x /\ sock'[u].use \in {"connecting", "listening", "reading"})
          => \E u \in Sockets : sock[u].state = "open" /\ sock[u].data = x /\ sock[u].use \in {"connecting", "listening", "reading"}
    BY <1>3
  <2>3. UNCHANGED <<jobs, resolver, uv, dataQueue, errorQueue, call>>
    OBVIOUS
  <2> QED
    BY <2>1, <2>2, <2>3 DEF InFlight
<1>9. RunInv' /\ BirthInv' /\ DeleteIsLast' /\ DeleteInv' /\ EndInv'
  <2>1. ASSUME NEW x \in Contexts, ctx[x].life = "none"
        PROVE  /\ ctx'[x].socket = NONE /\ ctx'[x].stream = NONE /\ ~ InFlight(x)' /\ \A u \in Sockets : sock'[u].data # x
    <3>1. x # c /\ ctx[x].socket = NONE /\ ctx[x].stream = NONE /\ ~ InFlight(x) /\ \A u \in Sockets : sock[u].data # x
      BY <1>1, <2>1 DEF BirthInv
    <3> QED
      BY <1>3, <1>8, <3>1
  <2>2. mode \notin {"joined", "unloaded", "closing"}
    OBVIOUS
  <2> QED
    BY <1>7, <2>1, <2>2, LoopKept
<1>10. SocketInv'
  <2>1. ASSUME NEW u \in Sockets, u # t, Fresh(u)
        PROVE  Fresh(u)'
    <3>1. ctx'[u].life = "none"
      BY <2>1, Names DEF Fresh
    <3>2. \A i \in DOMAIN connectQueue' : connectQueue'[i].s # u
      BY <1>4, <2>1 DEF Fresh
    <3>3. \A x \in Contexts : ctx'[x].stream # u
      BY <2>1 DEF Fresh
    <3> QED
      BY <3>1, <3>2, <3>3 DEF Fresh
  <2>2. ASSUME NEW u \in Sockets
        PROVE  /\ sock'[u].use \notin {"idle"} => sock'[u].data \in Contexts
               /\ sock'[u].state = "none" =>
                    /\ sock'[u].data = NONE /\ sock'[u].use = "idle" /\ Fresh(u)'
                    /\ \A x \in Contexts : ctx'[x].socket # u
               /\ sock'[u].use = "connecting" => Fresh(u)'
    <3>1. CASE u = t
      BY <3>1
    <3>2. CASE u # t
      BY <1>1, <1>3, <2>1, <3>2 DEF SocketInv
    <3> QED
      BY <3>1, <3>2
  <2>3. ASSUME NEW x \in Contexts, NEW u \in Sockets, ctx'[x].stream = u \/ ctx'[x].socket = u
        PROVE  sock'[u].data \in Contexts
    <3>1. CASE ctx[x].stream = u \/ ctx[x].socket = u
      BY <1>1, <1>3, <3>1 DEF SocketInv
    <3>2. CASE ~ (ctx[x].stream = u \/ ctx[x].socket = u)
      BY <1>3, <2>3, <3>2
    <3> QED
      BY <3>1, <3>2
  <2>4. ASSUME NEW i \in DOMAIN connectQueue'
        PROVE  /\ ctx'[connectQueue'[i].s].life = "none" /\ sock'[connectQueue'[i].s].state # "none"
               /\ \A j \in DOMAIN connectQueue' : connectQueue'[i].s = connectQueue'[j].s => i = j
    <3>1. CASE i = n
      BY <1>2, <1>4, <1>5, <3>1, Names
    <3>2. CASE i # n
      <4>1. i \in DOMAIN connectQueue /\ connectQueue'[i] = connectQueue[i]
        BY <1>4, <3>2
      <4>2. /\ ctx[connectQueue[i].s].life = "none" /\ sock[connectQueue[i].s].state # "none"
            /\ \A j \in DOMAIN connectQueue : connectQueue[i].s = connectQueue[j].s => i = j
        BY <1>1, <4>1 DEF SocketInv
      <4> QED
        BY <1>3, <1>4, <1>5, <4>1, <4>2, Names
    <3> QED
      BY <3>1, <3>2
  <2> QED
    BY <1>7, <2>2, <2>3, <2>4 DEF SocketInv
<1>11. ResolveInv'
  <2>1. Remains(jobs', jobs)
    BY <1>1, TypeIs, RemainsIs
  <2> QED
    BY <1>1, <1>7, <2>1, ResolveKept
<1>12. ASSUME OrderInv
       PROVE  OrderInv'
  <2>1. ASSUME NEW x \in Contexts, NEW u \in Sockets, ctx'[x].stream = u \/ ctx'[x].socket = u
        PROVE  sock'[u].data = x
    <3>1. CASE ctx[x].stream = u \/ ctx[x].socket = u
      BY <1>3, <1>12, <3>1 DEF OrderInv
    <3>2. CASE ~ (ctx[x].stream = u \/ ctx[x].socket = u)
      BY <1>3, <2>1, <3>2
    <3> QED
      BY <3>1, <3>2
  <2>2. ASSUME NEW u \in Sockets, sock'[u].state = "open"
        PROVE  /\ sock'[u].use = "connecting" => ~ ctx'[sock'[u].data].server
               /\ sock'[u].use = "listening" => ctx'[sock'[u].data].server
    <3>1. CASE u = t
      BY <3>1
    <3>2. CASE u # t
      <4>1. sock[u].use # "idle" => sock[u].data \in Contexts
        BY <1>1 DEF SocketInv
      <4> QED
        BY <1>3, <1>12, <2>2, <3>2, <4>1 DEF OrderInv
    <3> QED
      BY <3>1, <3>2
  <2>3. ASSUME NEW i \in DOMAIN connectQueue'
        PROVE  IF ctx'[connectQueue'[i].c].server
                 THEN sock'[connectQueue'[i].s].data = NONE /\ sock'[connectQueue'[i].s].use = "idle"
                 ELSE sock'[connectQueue'[i].s].data = connectQueue'[i].c
    <3>1. CASE i = n
      <4>1. ctx'[c].server <=> sock[t].data = NONE
        BY <1>12
      <4>2. IF ctx'[c].server THEN sock'[t].data = NONE /\ sock'[t].use = "idle" ELSE sock'[t].data = c
        BY <4>1, Names
      <4> QED
        BY <1>4, <3>1, <4>2
    <3>2. CASE i # n
      <4>1. PICK x \in Contexts, u \in Sockets : /\ connectQueue[i].c = x /\ connectQueue[i].s = u /\ u # t
                                                 /\ i \in DOMAIN connectQueue /\ connectQueue'[i] = connectQueue[i]
        BY <1>4, <1>5, <3>2
      <4>2. IF ctx[x].server THEN sock[u].data = NONE /\ sock[u].use = "idle" ELSE sock[u].data = x
        BY <1>12, <4>1 DEF OrderInv
      <4>3. (ctx'[x].server <=> ctx[x].server) /\ sock'[u].data = sock[u].data /\ sock'[u].use = sock[u].use
        BY <1>3, <4>1
      <4> QED
        BY <4>1, <4>2, <4>3
    <3> QED
      BY <3>1, <3>2
  <2>4. call'.fn = "OnConnect" => sock'[call'.new].data = call'.new /\ sock'[call'.new].use = "idle"
    <3> SUFFICES ASSUME call.fn = "OnConnect"
                 PROVE  sock'[call.new].data = call.new /\ sock'[call.new].use = "idle"
      OBVIOUS
    <3>1. call.new \in Sockets /\ sock[call.new].data = call.new /\ sock[call.new].use = "idle"
      BY <1>1, <1>12 DEF OrderInv, RunInv, NoCall
    <3>2. call.new # t
      BY <1>2, <3>1, Names
    <3> QED
      BY <1>3, <3>1, <3>2
  <2> QED
    BY <1>12, <2>1, <2>2, <2>3, <2>4 DEF OrderInv
<1>13. ASSUME QuietInv
       PROVE  QuietInv'
  <2>1. ASSUME NEW x \in Contexts
        PROVE  /\ ctx'[x].deleted => ~ InFlight(x)'
               /\ HasJob(x)' => ctx'[x].life = "live"
               /\ \A i \in DOMAIN jobs' : jobs'[i].c = x /\ jobs'[i].fn \in {"UV_OnAsyncWrite", "UV_StartRead"} => ctx'[x].stream # NONE
               /\ call'.new = x => ctx'[x].stream # NONE
    <3>1. /\ ctx[x].deleted => ~ InFlight(x)
          /\ HasJob(x) => ctx[x].life = "live"
          /\ \A i \in DOMAIN jobs : jobs[i].c = x /\ jobs[i].fn \in {"UV_OnAsyncWrite", "UV_StartRead"} => ctx[x].stream # NONE
          /\ call.new = x => ctx[x].stream # NONE
      BY <1>13 DEF QuietInv
    <3>2. ctx'[x].life = ctx[x].life /\ (ctx'[x].deleted <=> ctx[x].deleted) /\ (ctx[x].stream # NONE => ctx'[x].stream # NONE)
      BY Names
    <3> QED
      BY <1>7, <1>8, <3>1, <3>2
  <2>2. ASSUME NEW x \in Contexts, ctx'[x].life = "live", NEW u \in Sockets, ctx'[x].stream = u \/ ctx'[x].socket = u
        PROVE  sock'[u].state = "open"
    <3>1. CASE u = t
      BY <3>1
    <3>2. CASE u # t
      BY <1>3, <1>13, <2>2, <3>2 DEF QuietInv
    <3> QED
      BY <3>1, <3>2
  <2>3. \A u \in Sockets : sock'[u].use = "connecting" => sock'[u].state # "closing"
    BY <1>3, <1>13 DEF QuietInv
  <2>4. mode' = "running" =>
          \A i \in DOMAIN connectQueue' : sock'[connectQueue'[i].s].data = NONE => sock'[connectQueue'[i].s].state = "open"
    <3> SUFFICES ASSUME mode = "running", NEW i \in DOMAIN connectQueue', sock'[connectQueue'[i].s].data = NONE
                 PROVE  sock'[connectQueue'[i].s].state = "open"
      OBVIOUS
    <3>1. CASE i = n
      BY <1>4, <3>1
    <3>2. CASE i # n
      BY <1>3, <1>4, <1>5, <1>13, <3>2 DEF QuietInv
    <3> QED
      BY <3>1, <3>2
  <2> QED
    BY <1>13, <2>1, <2>2, <2>3, <2>4 DEF QuietInv
<1> QED
  BY <1>6, <1>9, <1>10, <1>11, <1>12, <1>13 DEF IndInv

(* A client is connected. *)
LEMMA ConnectsStep ==
  ASSUME IndInv, NEW s \in Sockets, Connects(s)
  PROVE  IndInv'
<1>1. TypeOK /\ SocketInv
  BY DEF IndInv
<1>2. InUse(s, "connecting")
  BY DEF Connects
<1>3. PICK c \in Contexts : /\ c = sock[s].data /\ InFlight(c) /\ uv = NoUv /\ mode \in {"running", "unloading", "stopping"}
                            /\ sock[s].state = "open" /\ sock[s].use = "connecting"
  BY <1>2, UseIs
<1>4. CASE ctx[c].life # "live"
  BY <1>3, <1>4, TouchStep DEF Connects, Touch
<1>5. CASE ctx[c].life = "live"
  <2>1. /\ ctx' = [ctx EXCEPT ![c].pendingCallback = TRUE, ![c].stream = s] /\ ~ ctx[c].deleted
        /\ connectQueue' = Append(connectQueue, Connect(c, s))
        /\ jobs' = jobs /\ resolver' = resolver /\ dataQueue' = dataQueue /\ errorQueue' = errorQueue /\ phase' = phase
        /\ call' = call /\ native' = native /\ mode' = mode /\ hasty' = hasty /\ uv' = uv /\ Moves(s, "open", "reading")
    BY <1>3, <1>5 DEF Connects, Touch, game, Moves
  <2>2. /\ sock' \in [Sockets -> SockRecords] /\ sock'[s].state = "open" /\ sock'[s].use = "reading" /\ sock'[s].data = sock[s].data
        /\ \A t \in Sockets : t # s => SameSock(t)
    BY <1>1, <2>1, HandleChanged
  <2>3. /\ ctx' \in [Contexts -> CtxRecords]
        /\ \A x \in Contexts : /\ ctx'[x].life = ctx[x].life /\ (ctx'[x].deleted <=> ctx[x].deleted)
                               /\ (ctx'[x].pending <=> ctx[x].pending) /\ (ctx'[x].server <=> ctx[x].server)
                               /\ ctx'[x].socket = ctx[x].socket
                               /\ ctx'[x].stream = ctx[x].stream \/ (x = c /\ ctx'[x].stream = s /\ sock[s].data = c)
    <3>1. ctx \in [Contexts -> CtxRecords]
      BY <1>1, TypeIs
    <3> DEFINE r == [[ctx[c] EXCEPT !.pendingCallback = TRUE] EXCEPT !.stream = s]
    <3>2. /\ r \in CtxRecords /\ r.life = ctx[c].life /\ (r.deleted <=> ctx[c].deleted)
          /\ (r.pending <=> ctx[c].pending) /\ (r.server <=> ctx[c].server)
          /\ r.socket = ctx[c].socket /\ r.stream = s
      BY <3>1 DEF CtxRecords
    <3>3. ctx' = [ctx EXCEPT ![c] = r]
      BY <2>1, <3>1
    <3> HIDE DEF r
    <3> QED
      BY <1>3, <3>1, <3>2, <3>3
  <2>4. Fresh(s)
    BY <1>1, <1>3 DEF SocketInv
  <2>5. OrderInv => (ctx[c].server <=> sock[s].data = NONE)
    BY <1>3, Names DEF OrderInv
  <2> QED
    BY <1>3, <1>5, <2>1, <2>2, <2>3, <2>4, <2>5, ConnectionStep
<1> QED
  BY <1>4, <1>5

(* A server accepts a connection, or does not. *)
LEMMA RefusedStep ==
  ASSUME IndInv, NEW t \in Sockets, sock[t].state = "none", sock' = [sock EXCEPT ![t].state = "closing"],
         UNCHANGED <<ctx, connectQueue, resolver, jobs, dataQueue, errorQueue, game, uv, mode, hasty>>,
         mode \in {"running", "unloading", "stopping"}, uv = NoUv
  PROVE  IndInv'
<1>1. TypeOK /\ RunInv /\ BirthInv /\ SocketInv /\ ResolveInv
  BY DEF IndInv
<1>2. /\ ctx' = ctx /\ jobs' = jobs /\ resolver' = resolver /\ connectQueue' = connectQueue
      /\ dataQueue' = dataQueue /\ errorQueue' = errorQueue /\ phase' = phase /\ call' = call /\ native' = native
      /\ mode' = mode /\ hasty' = hasty /\ uv' = uv /\ Moves(t, "closing", sock[t].use)
  BY DEF game, Moves
<1>3. /\ sock' \in [Sockets -> SockRecords] /\ sock'[t].state = "closing" /\ sock'[t].use = sock[t].use /\ sock'[t].data = sock[t].data
      /\ \A u \in Sockets : u # t => SameSock(u)
  <2>1. sock[t].use \in {"idle", "connecting", "unreachable", "listening", "reading"}
    BY <1>1, TypeIs DEF SockRecords
  <2> QED
    BY <1>1, <1>2, <2>1, HandleChanged
<1>4. \A u \in Sockets : Stays(u)
  BY <1>3 DEF Stays, SameSock
<1>5. /\ sock[t].data = NONE /\ sock[t].use = "idle" /\ \A x \in Contexts : ctx[x].socket # t /\ ctx[x].stream # t
      /\ \A i \in DOMAIN connectQueue : connectQueue[i].s # t
  BY <1>1 DEF SocketInv, Fresh
<1>6. /\ Remains(jobs', jobs) /\ Remains(connectQueue', connectQueue) /\ ~ Starting' /\ Takes(Ordinary)
      /\ \A x : (Resolving(x)' <=> Resolving(x)) /\ (HasJob(x)' <=> HasJob(x))
  <2>1. jobs \in Seq(Jobs) /\ connectQueue \in Seq(Connects_)
    BY <1>1, TypeIs
  <2> QED
    BY <1>2, <2>1, RemainsIs DEF NoUv, Starting, Takes, Resolving, HasJob
<1>7. \A u \in Sockets : u # t => sock'[u].state = sock[u].state /\ sock'[u].data = sock[u].data /\ sock'[u].use = sock[u].use
  BY <1>3 DEF SameSock
<1>8. \A x : InFlight(x)' => InFlight(x)
  <2> SUFFICES ASSUME NEW x, InFlight(x)'
               PROVE  InFlight(x)
    OBVIOUS
  <2>1. (\E u \in Sockets : sock'[u].state = "open" /\ sock'[u].data = x /\ sock'[u].use \in {"connecting", "listening", "reading"})
          => \E u \in Sockets : sock[u].state = "open" /\ sock[u].data = x /\ sock[u].use \in {"connecting", "listening", "reading"}
    BY <1>3, <1>7
  <2> QED
    BY <1>2, <2>1 DEF InFlight
<1>9. TypeOK'
  BY <1>1, <1>2, <1>3, TypeIs, TypeIsNext
<1>10. RunInv' /\ BirthInv' /\ DeleteIsLast' /\ DeleteInv' /\ EndInv'
  <2>1. ASSUME NEW x \in Contexts, ctx[x].life = "none"
        PROVE  /\ ctx'[x].socket = NONE /\ ctx'[x].stream = NONE /\ ~ InFlight(x)' /\ \A u \in Sockets : sock'[u].data # x
    BY <1>1, <1>2, <1>3, <1>7, <1>8, <2>1 DEF BirthInv
  <2> QED
    BY <1>2, <1>6, <2>1, LoopKept
<1>11. SocketInv'
  BY <1>1, <1>2, <1>4, <1>6, SocketStays
<1>12. ResolveInv'
  BY <1>1, <1>2, <1>6, ResolveKept
<1>13. ASSUME OrderInv
       PROVE  OrderInv'
  <2>1. \A i \in DOMAIN jobs' : jobs'[i].fn = "UV_StartRead" => call'.new # jobs'[i].c
    BY <1>2, <1>13 DEF OrderInv
  <2> QED
    BY <1>1, <1>2, <1>4, <1>6, <1>13, <2>1, OrderStays
<1>14. ASSUME QuietInv
       PROVE  QuietInv'
  <2>1. ASSUME NEW x \in Contexts
        PROVE  /\ ctx'[x].deleted => ~ InFlight(x)'
               /\ HasJob(x)' => ctx'[x].life = "live"
               /\ \A i \in DOMAIN jobs' : jobs'[i].c = x /\ jobs'[i].fn \in {"UV_OnAsyncWrite", "UV_StartRead"} => ctx'[x].stream # NONE
               /\ call'.new = x => ctx'[x].stream # NONE
               /\ ctx'[x].life = "live" => \A u \in Sockets : ctx'[x].stream = u \/ ctx'[x].socket = u => sock'[u].state = "open"
    BY <1>2, <1>5, <1>6, <1>7, <1>8, <1>14 DEF QuietInv
  <2>2. \A u \in Sockets : sock'[u].use = "connecting" => sock'[u].state # "closing"
    BY <1>3, <1>5, <1>7, <1>14 DEF QuietInv
  <2>3. mode' = "running" =>
          \A i \in DOMAIN connectQueue' : sock'[connectQueue'[i].s].data = NONE => sock'[connectQueue'[i].s].state = "open"
    <3>1. \A i \in DOMAIN connectQueue : connectQueue[i].s \in Sockets /\ connectQueue[i].s # t
      BY <1>1, <1>5, Elements
    <3> QED
      BY <1>2, <1>7, <1>14, <3>1 DEF QuietInv
  <2> QED
    BY <1>2, <1>14, <2>1, <2>2, <2>3 DEF QuietInv
<1> QED
  BY <1>2, <1>9, <1>10, <1>11, <1>12, <1>13, <1>14 DEF IndInv

LEMMA NewConnectionStep ==
  ASSUME IndInv, NEW s \in Sockets, NewConnection(s)
  PROVE  IndInv'
<1>1. TypeOK /\ SocketInv
  BY DEF IndInv
<1>2. InUse(s, "listening")
  BY DEF NewConnection
<1>3. PICK c \in Contexts : /\ c = sock[s].data /\ InFlight(c) /\ uv = NoUv /\ mode \in {"running", "unloading", "stopping"}
                            /\ sock[s].state = "open" /\ sock[s].use = "listening"
  BY <1>2, UseIs
<1>4. CASE ctx[c].life # "live"
  BY <1>3, <1>4, TouchStep DEF NewConnection, Touch
<1>5. CASE ctx[c].life = "live"
  <2>1. /\ UNCHANGED <<resolver, jobs, dataQueue, errorQueue, game, uv, mode, hasty>> /\ ~ ctx[c].deleted
    BY <1>3, <1>5 DEF NewConnection, Touch
  <2>2. PICK t \in Sockets :
          /\ sock[t].state = "none"
          /\ \/ /\ sock' = Opened(t, NONE) /\ ctx' = [ctx EXCEPT ![c].pendingCallback = TRUE]
                /\ connectQueue' = Append(connectQueue, Connect(c, t))
             \/ /\ sock' = [sock EXCEPT ![t].state = "closing"]
                /\ UNCHANGED <<ctx, connectQueue>>
    BY <1>3, <1>5 DEF NewConnection, Touch, Unused
  <2>3. CASE /\ sock' = Opened(t, NONE) /\ ctx' = [ctx EXCEPT ![c].pendingCallback = TRUE]
             /\ connectQueue' = Append(connectQueue, Connect(c, t))
    <3>1. sock[t].data = NONE /\ sock[t].use = "idle" /\ Fresh(t) /\ \A x \in Contexts : ctx[x].socket # t
      BY <1>1, <2>2 DEF SocketInv
    <3>2. /\ sock' \in [Sockets -> SockRecords] /\ sock'[t].state = "open" /\ sock'[t].data = NONE /\ sock'[t].use = sock[t].use
          /\ \A u \in Sockets : u # t => SameSock(u)
      <4>1. sock \in [Sockets -> SockRecords]
        BY <1>1, TypeIs
      <4> DEFINE r == [[sock[t] EXCEPT !.state = "open"] EXCEPT !.data = NONE]
      <4>2. r \in SockRecords /\ r.state = "open" /\ r.data = NONE /\ r.use = sock[t].use
        BY <4>1 DEF SockRecords
      <4>3. sock' = [sock EXCEPT ![t] = r]
        BY <2>3, <4>1 DEF Opened
      <4> HIDE DEF r
      <4> QED
        BY <4>1, <4>2, <4>3 DEF SameSock
    <3>3. ctx' \in [Contexts -> CtxRecords] /\ \A x \in Contexts : Same(x)
      BY <1>1, <2>3, PendingCallback
    <3>4. OrderInv => (ctx[c].server <=> sock[t].data = NONE)
      BY <1>3, <3>1 DEF OrderInv
    <3>5. /\ jobs' = jobs /\ dataQueue' = dataQueue /\ errorQueue' = errorQueue /\ resolver' = resolver /\ uv' = uv
          /\ phase' = phase /\ call' = call /\ native' = native /\ mode' = mode /\ hasty' = hasty
      BY <2>1 DEF game
    <3> QED
      BY <1>3, <1>5, <2>1, <2>3, <3>1, <3>2, <3>3, <3>4, <3>5, ConnectionStep DEF Same
  <2>4. CASE sock' = [sock EXCEPT ![t].state = "closing"] /\ UNCHANGED <<ctx, connectQueue>>
    BY <1>3, <2>1, <2>2, <2>4, RefusedStep
  <2> QED
    BY <2>2, <2>3, <2>4
<1> QED
  BY <1>4, <1>5

(* UV_DeleteAsyncContext frees the context, and closes a handle it goes by. *)
Closes(c) ==
  \/ sock' = sock
  \/ \E s \in Sockets : (ctx[c].stream = s \/ ctx[c].socket = s) /\ sock[s].state = "open" /\ sock' = Closed(s)

LEMMA ClosesIs ==
  ASSUME TypeOK, NEW c \in Contexts, Closes(c)
  PROVE  /\ sock' \in [Sockets -> SockRecords] /\ \A u \in Sockets : Stays(u)
         /\ \A u \in Sockets : \/ sock'[u].state = sock[u].state
                               \/ sock[u].state = "open" /\ (ctx[c].stream = u \/ ctx[c].socket = u)
<1>1. CASE sock' = sock
  BY <1>1, TypeIs DEF Stays
<1>2. CASE \E s \in Sockets : (ctx[c].stream = s \/ ctx[c].socket = s) /\ sock[s].state = "open" /\ sock' = Closed(s)
  <2>1. PICK s \in Sockets : (ctx[c].stream = s \/ ctx[c].socket = s) /\ sock[s].state = "open" /\ sock' = Closed(s)
    BY <1>2
  <2>2. Moves(s, "closing", sock[s].use) /\ sock[s].use \in {"idle", "connecting", "unreachable", "listening", "reading"}
    BY <2>1, TypeIs DEF Moves, Closed, SockRecords
  <2>3. /\ sock' \in [Sockets -> SockRecords] /\ sock'[s].state = "closing" /\ sock'[s].use = sock[s].use /\ sock'[s].data = sock[s].data
        /\ \A u \in Sockets : u # s => SameSock(u)
    BY <2>2, HandleChanged
  <2> QED
    BY <2>1, <2>3 DEF Stays, SameSock
<1> QED
  BY <1>1, <1>2 DEF Closes

LEMMA DeletedStep ==
  ASSUME IndInv, NEW c \in Contexts, jobs # <<>>, Head(jobs) = Job("UV_DeleteAsyncContext", c), uv = NoUv,
         mode \in {"running", "unloading", "stopping"}, jobs' = Tail(jobs),
         ctx' = [ctx EXCEPT ![c].life = "freed", ![c].stream = NONE, ![c].socket = NONE],
         connectQueue' = connectQueue, dataQueue' = dataQueue, errorQueue' = errorQueue, resolver' = resolver, uv' = uv,
         phase' = phase, call' = call, native' = native, mode' = mode, hasty' = hasty, Closes(c)
  PROVE  IndInv'
<1>1. TypeOK /\ RunInv /\ BirthInv /\ SocketInv /\ ResolveInv /\ DeleteIsLast /\ DeleteInv /\ EndInv
  BY DEF IndInv
<1>2. /\ jobs' \in Seq(Jobs) /\ Remains(jobs', jobs) /\ 1 \in DOMAIN jobs /\ jobs[1] = Head(jobs)
      /\ \A x : HasJob(x)' => HasJob(x)
      /\ \A x : Deletes(x)' => Deletes(x)
      /\ \A x : Deletes(x) => Deletes(x)' \/ Head(jobs) = Job("UV_DeleteAsyncContext", x)
      /\ \A i \in DOMAIN jobs' : i \in Nat /\ i + 1 \in DOMAIN jobs /\ jobs'[i] = jobs[i + 1]
  BY <1>1, Tailed
<1>3. Head(jobs).fn = "UV_DeleteAsyncContext" /\ Head(jobs).c = c /\ \A x : x # c => Head(jobs) # Job("UV_DeleteAsyncContext", x)
  BY DEF Job
<1>4. /\ ctx[c].life = "live" /\ ctx[c].deleted /\ HasJob(c) /\ Deletes(c)
      /\ \A k \in 1 + 1 .. Len(jobs) : jobs[k].c # c
  BY <1>1, <1>2, <1>3 DEF DeleteIsLast, HasJob, Deletes
<1>5. \A i \in DOMAIN jobs' : jobs'[i].c # c
  <2> SUFFICES ASSUME NEW i \in DOMAIN jobs'
               PROVE  jobs'[i].c # c
    OBVIOUS
  <2>1. i \in DOMAIN jobs' /\ jobs' \in Seq(Jobs) /\ i + 1 \in DOMAIN jobs /\ jobs'[i] = jobs[i + 1] /\ jobs \in Seq(Jobs)
    BY <1>1, <1>2, TypeIs
  <2>2. i + 1 \in 1 + 1 .. Len(jobs)
    BY <2>1
  <2> QED
    BY <1>4, <2>1, <2>2
<1>6. ~ HasJob(c)' /\ ~ Deletes(c)'
  BY <1>5 DEF HasJob, Deletes, Job
<1>7. /\ ctx' \in [Contexts -> CtxRecords]
      /\ ctx'[c].life = "freed" /\ ctx'[c].deleted /\ ctx'[c].stream = NONE /\ ctx'[c].socket = NONE
      /\ (ctx'[c].pending <=> ctx[c].pending) /\ (ctx'[c].server <=> ctx[c].server)
      /\ \A x \in Contexts : x # c => ctx'[x] = ctx[x]
  <2>1. ctx \in [Contexts -> CtxRecords]
    BY <1>1, TypeIs
  <2> DEFINE r == [[[ctx[c] EXCEPT !.life = "freed"] EXCEPT !.stream = NONE] EXCEPT !.socket = NONE]
  <2>2. /\ r \in CtxRecords /\ r.life = "freed" /\ (r.deleted <=> ctx[c].deleted) /\ r.stream = NONE /\ r.socket = NONE
        /\ (r.pending <=> ctx[c].pending) /\ (r.server <=> ctx[c].server)
    BY <2>1 DEF CtxRecords
  <2>3. ctx' = [ctx EXCEPT ![c] = r]
    BY <2>1
  <2> HIDE DEF r
  <2> QED
    BY <1>4, <2>1, <2>2, <2>3
<1>8. /\ sock' \in [Sockets -> SockRecords] /\ \A u \in Sockets : Stays(u)
      /\ \A u \in Sockets : \/ sock'[u].state = sock[u].state
                            \/ sock[u].state = "open" /\ (ctx[c].stream = u \/ ctx[c].socket = u)
  BY <1>1, ClosesIs
<1>9. \A u \in Sockets : /\ sock'[u].data = sock[u].data /\ sock'[u].use = sock[u].use
                         /\ sock'[u].state = "open" => sock[u].state = "open"
  BY <1>8 DEF Stays
<1>10. Remains(connectQueue', connectQueue) /\ ~ Starting' /\ (\A x : Resolving(x)' <=> Resolving(x))
  <2>1. connectQueue \in Seq(Connects_)
    BY <1>1, TypeIs
  <2> QED
    BY <2>1, RemainsIs DEF NoUv, Starting, Resolving
<1>11. \A x : InFlight(x)' => InFlight(x)
  <2> SUFFICES ASSUME NEW x, InFlight(x)'
               PROVE  InFlight(x)
    OBVIOUS
  <2>1. (\E i \in DOMAIN jobs' : jobs'[i] = Job("UV_OnAsyncResolve", x)) => \E i \in DOMAIN jobs : jobs[i] = Job("UV_OnAsyncResolve", x)
    BY <1>2
  <2>2. (\E u \in Sockets : sock'[u].state = "open" /\ sock'[u].data = x /\ sock'[u].use \in {"connecting", "listening", "reading"})
          => \E u \in Sockets : sock[u].state = "open" /\ sock[u].data = x /\ sock[u].use \in {"connecting", "listening", "reading"}
    BY <1>9
  <2>3. UNCHANGED <<connectQueue, resolver, uv, dataQueue, errorQueue, call>>
    OBVIOUS
  <2> QED
    BY <2>1, <2>2, <2>3 DEF InFlight
<1>12. TypeOK'
  BY <1>1, <1>2, <1>7, <1>8, TypeIs, TypeIsNext
<1>13. RunInv'
  BY <1>1 DEF RunInv
<1>14. BirthInv'
  BY <1>1, <1>2, <1>4, <1>7, <1>9, <1>11 DEF BirthInv
<1>15. SocketInv'
  <2>1. \A u \in Sockets : ctx[u].life = "none" => ctx'[u].life = "none"
    BY <1>4, <1>7, Names
  <2>2. \A x \in Contexts : ctx'[x].stream \in {ctx[x].stream, NONE} /\ ctx'[x].socket \in {ctx[x].socket, NONE}
    BY <1>7
  <2> QED
    BY <1>1, <1>8, <1>10, <2>1, <2>2, SocketStays
<1>16. ResolveInv'
  <2>1. \A x \in Contexts : InFlight(x) /\ ctx[x].pending => ctx'[x].pending
    BY <1>7
  <2> QED
    BY <1>1, <1>2, <1>10, <2>1, ResolveKept
<1>17. DeleteIsLast'
  <2>1. \A x \in Contexts : ctx[x].life = "live" /\ ctx[x].deleted /\ Deletes(x)' => ctx'[x].life = "live" /\ ctx'[x].deleted
    BY <1>6, <1>7
  <2> QED
    BY <1>1, <1>2, <2>1, LastKept
<1>18. DeleteInv'
  <2>1. native.fn \in {"Connect", "Listen", "OnHandleDestroy"} => native.c \in Contexts
    BY <1>1, Running
  <2>2. native.fn \in {"Connect", "Listen"} => native.c # c /\ Valid(native.c)
    BY <1>1, <1>4 DEF DeleteInv, Valid
  <2>3. native.fn = "OnHandleDestroy" => native.c # c /\ ctx[native.c].life = "live" /\ ctx[native.c].deleted /\ ~ Deletes(native.c)
    BY <1>1, <1>4 DEF DeleteInv
  <2>4. native.fn \in {"Connect", "Listen"} => Valid(native.c)'
    BY <1>7, <2>1, <2>2 DEF Valid
  <2>5. native.fn = "OnHandleDestroy" => ctx'[native.c].life = "live" /\ ctx'[native.c].deleted /\ ~ Deletes(native.c)'
    BY <1>2, <1>7, <2>1, <2>3
  <2>6. ASSUME mode \notin Undefinedness, NEW x \in Contexts, ctx'[x].life = "live", ctx'[x].deleted
        PROVE  Deletes(x)' \/ (native.fn = "OnHandleDestroy" /\ native.c = x)
    <3>1. x # c /\ ctx[x].life = "live" /\ ctx[x].deleted
      BY <1>7, <2>6
    <3>2. Deletes(x) \/ (native.fn = "OnHandleDestroy" /\ native.c = x)
      BY <1>1, <2>6, <3>1 DEF DeleteInv
    <3> QED
      BY <1>2, <1>3, <3>1, <3>2
  <2> QED
    BY <2>4, <2>5, <2>6 DEF DeleteInv
<1>19. EndInv'
  <2>1. /\ mode = "unloading" => jobs' # <<>> /\ \A i \in DOMAIN jobs' : jobs'[i].fn = "UV_Quit" <=> i = Len(jobs')
        /\ mode = "running" => \A i \in DOMAIN jobs' : jobs'[i].fn # "UV_Quit"
        /\ mode \notin Ended \ {"unloading"}
    BY <1>1, <1>3, TailEnds
  <2>2. mode \in Ended => \A x \in Contexts : ~ Valid(x)'
    BY <1>1, <1>7 DEF EndInv, Valid
  <2> QED
    BY <2>1, <2>2 DEF EndInv
<1>20. ASSUME OrderInv
       PROVE  OrderInv'
  <2>1. \A i \in DOMAIN jobs' : jobs'[i].fn = "UV_StartRead" => call'.new # jobs'[i].c
    BY <1>2, <1>20 DEF OrderInv
  <2>2. \A x \in Contexts : /\ ctx'[x].server <=> ctx[x].server
                            /\ ctx'[x].stream \in {ctx[x].stream, NONE} /\ ctx'[x].socket \in {ctx[x].socket, NONE}
    BY <1>7
  <2> QED
    BY <1>1, <1>8, <1>10, <1>20, <2>1, <2>2, OrderStays
<1>21. ASSUME OrderInv, QuietInv
       PROVE  QuietInv'
  <2>1. \A u \in Sockets : sock'[u].state = sock[u].state \/ sock[u].data = c
    BY <1>8, <1>21 DEF OrderInv
  <2>2. ~ InFlight(c) /\ ~ InFlight(c)' /\ call.new # c
    BY <1>4, <1>11, <1>21 DEF QuietInv, InFlight
  <2>3. ASSUME NEW x \in Contexts
        PROVE  /\ ctx'[x].deleted => ~ InFlight(x)'
               /\ HasJob(x)' => ctx'[x].life = "live"
               /\ \A i \in DOMAIN jobs' : jobs'[i].c = x /\ jobs'[i].fn \in {"UV_OnAsyncWrite", "UV_StartRead"} => ctx'[x].stream # NONE
               /\ call'.new = x => ctx'[x].stream # NONE
               /\ ctx'[x].life = "live" => \A u \in Sockets : ctx'[x].stream = u \/ ctx'[x].socket = u => sock'[u].state = "open"
    <3>1. CASE x = c
      BY <1>5, <1>6, <1>7, <2>2, <3>1
    <3>2. CASE x # c
      <4>1. ctx'[x] = ctx[x]
        BY <1>7, <3>2
      <4>2. /\ ctx[x].deleted => ~ InFlight(x)
            /\ HasJob(x) => ctx[x].life = "live"
            /\ \A i \in DOMAIN jobs : jobs[i].c = x /\ jobs[i].fn \in {"UV_OnAsyncWrite", "UV_StartRead"} => ctx[x].stream # NONE
            /\ call.new = x => ctx[x].stream # NONE
            /\ ctx[x].life = "live" => \A u \in Sockets : ctx[x].stream = u \/ ctx[x].socket = u => sock[u].state = "open"
        BY <1>21 DEF QuietInv
      <4>3. \A u \in Sockets : ctx[x].stream = u \/ ctx[x].socket = u => sock'[u].state = sock[u].state
        BY <1>21, <2>1, <3>2 DEF OrderInv
      <4> QED
        BY <1>2, <1>11, <4>1, <4>2, <4>3
    <3> QED
      BY <3>1, <3>2
  <2>4. \A u \in Sockets : sock'[u].use = "connecting" => sock'[u].state # "closing"
    <3> SUFFICES ASSUME NEW u \in Sockets, sock'[u].use = "connecting", sock'[u].state = "closing"
                 PROVE  FALSE
      OBVIOUS
    <3>1. sock[u].use = "connecting" /\ sock[u].state # "closing"
      BY <1>9, <1>21 DEF QuietInv
    <3>2. sock[u].data = c /\ sock[u].state = "open"
      BY <1>8, <2>1, <3>1
    <3> QED
      BY <2>2, <3>1, <3>2 DEF InFlight
  <2>5. mode' = "running" =>
          \A i \in DOMAIN connectQueue' : sock'[connectQueue'[i].s].data = NONE => sock'[connectQueue'[i].s].state = "open"
    <3>1. \A i \in DOMAIN connectQueue : connectQueue[i].s \in Sockets
      BY <1>1, Elements
    <3> QED
      BY <1>9, <1>21, <2>1, <3>1, Names DEF QuietInv
  <2> QED
    BY <1>21, <2>3, <2>4, <2>5 DEF QuietInv
<1> QED
  BY <1>12, <1>13, <1>14, <1>15, <1>16, <1>17, <1>18, <1>19, <1>20, <1>21 DEF IndInv

LEMMA DeleteAsyncContextStep ==
  ASSUME IndInv, DeleteAsyncContext
  PROVE  IndInv'
<1>1. TypeOK /\ DeleteIsLast
  BY DEF IndInv
<1>2. /\ jobs # <<>> /\ 1 \in DOMAIN jobs /\ jobs[1] = Head(jobs) /\ uv = NoUv
      /\ mode \in {"running", "unloading", "stopping"}
  BY <1>1, NextIs DEF DeleteAsyncContext, JobFns
<1>3. PICK c \in Contexts : c = Head(jobs).c /\ Head(jobs) = Job("UV_DeleteAsyncContext", c)
  BY <1>1, NextIs DEF DeleteAsyncContext, JobFns
<1>4. ctx[c].life = "live"
  BY <1>1, <1>2, <1>3 DEF DeleteIsLast, Job
<1> DEFINE s == IF ctx[c].stream # NONE THEN ctx[c].stream ELSE ctx[c].socket
<1> DEFINE Frees == /\ ctx' = [ctx EXCEPT ![c].life = "freed", ![c].stream = NONE, ![c].socket = NONE]
                    /\ jobs' = Tail(jobs) /\ UNCHANGED <<resolver, queues, game, uv, mode, hasty>>
<1>5. IF s = NONE THEN Frees /\ sock' = sock ELSE Close(s, Frees /\ sock' = Closed(s))
  BY <1>3, <1>4 DEF DeleteAsyncContext, Touch
<1>6. s = NONE \/ (s \in Sockets /\ (ctx[c].stream = s \/ ctx[c].socket = s))
  BY <1>1, TypeIs DEF CtxRecords
<1>7. CASE Frees /\ (sock' = sock \/ (s \in Sockets /\ sock[s].state = "open" /\ sock' = Closed(s)))
  <2>1. Closes(c)
    BY <1>6, <1>7, Names DEF Closes
  <2>2. /\ jobs' = Tail(jobs) /\ ctx' = [ctx EXCEPT ![c].life = "freed", ![c].stream = NONE, ![c].socket = NONE]
        /\ connectQueue' = connectQueue /\ dataQueue' = dataQueue /\ errorQueue' = errorQueue /\ resolver' = resolver
        /\ phase' = phase /\ call' = call /\ native' = native /\ mode' = mode /\ hasty' = hasty /\ uv' = uv
    BY <1>7 DEF queues, game
  <2> QED
    BY <1>2, <1>3, <2>1, <2>2, DeletedStep
<1>8. CASE s \in Sockets /\ sock[s].state # "open" /\ \E what \in Undefinedness : Undefined(what)
  <2>1. QuietInv => sock[s].state = "open"
    BY <1>4, <1>6, <1>8, Names DEF QuietInv
  <2> QED
    BY <1>8, <2>1, UndefinedStep DEF IndInv
<1> QED
  BY <1>5, <1>6, <1>7, <1>8 DEF Close, TouchHandle, Undefinedness
-----------------------------------------------------------------------------
(* SDK_OnUnload destroys every handle, and has the loop thread quit. *)
LEMMA UnloadStep_ ==
  ASSUME IndInv, Unload
  PROVE  IndInv'
<1>1. TypeOK /\ RunInv /\ BirthInv /\ SocketInv /\ ResolveInv /\ DeleteIsLast /\ DeleteInv /\ EndInv
  BY DEF IndInv
<1>2. /\ mode = "running" /\ mode' = "unloading" /\ phase = "none" /\ native = NoNative
      /\ sock' = sock /\ resolver' = resolver /\ connectQueue' = connectQueue /\ dataQueue' = dataQueue
      /\ errorQueue' = errorQueue /\ phase' = phase /\ call' = call /\ native' = native /\ uv' = uv
      /\ jobs' = Append(jobs, Job("UV_Quit", NONE)) /\ Job("UV_Quit", NONE) \in Jobs
      /\ hasty' \in {hasty, hasty \cup {"unload"}}
  BY JobIs DEF Unload, queues, game
<1>3. /\ ctx' \in [Contexts -> CtxRecords]
      /\ \A x \in Contexts : /\ Valid(x) => ctx'[x].life = "freed" /\ ctx'[x].deleted
                             /\ ~ Valid(x) => ctx'[x].life = ctx[x].life /\ (ctx'[x].deleted <=> ctx[x].deleted)
                             /\ (ctx'[x].pending <=> ctx[x].pending) /\ (ctx'[x].server <=> ctx[x].server)
                             /\ ctx'[x].stream = ctx[x].stream /\ ctx'[x].socket = ctx[x].socket
  <2>1. ctx \in [Contexts -> CtxRecords]
    BY <1>1, TypeIs
  <2> DEFINE r(x) == [ctx[x] EXCEPT !.deleted = TRUE, !.life = "freed"]
  <2>2. \A x \in Contexts : /\ r(x) \in CtxRecords /\ r(x).life = "freed" /\ r(x).deleted
                            /\ (r(x).pending <=> ctx[x].pending) /\ (r(x).server <=> ctx[x].server)
                            /\ r(x).stream = ctx[x].stream /\ r(x).socket = ctx[x].socket
    <3> SUFFICES ASSUME NEW x \in Contexts
                 PROVE  /\ r(x) \in CtxRecords /\ r(x).life = "freed" /\ r(x).deleted
                        /\ (r(x).pending <=> ctx[x].pending) /\ (r(x).server <=> ctx[x].server)
                        /\ r(x).stream = ctx[x].stream /\ r(x).socket = ctx[x].socket
      OBVIOUS
    <3>1. ctx[x] \in CtxRecords
      BY <2>1
    <3> QED
      BY <3>1 DEF CtxRecords
  <2>3. ctx' = [x \in Contexts |-> IF Valid(x) THEN r(x) ELSE ctx[x]]
    BY DEF Unload
  <2> HIDE DEF r
  <2> QED
    BY <2>1, <2>2, <2>3
<1>4. /\ jobs' \in Seq(Jobs)
      /\ \A x : HasJob(x)' => HasJob(x) \/ Job("UV_Quit", NONE).c = x
      /\ \A x : Deletes(x)' => Deletes(x) \/ Job("UV_Quit", NONE) = Job("UV_DeleteAsyncContext", x)
      /\ \A x : Deletes(x) => Deletes(x)'
      /\ \A i \in DOMAIN jobs : i \in Nat /\ i <= Len(jobs)
      /\ \A i \in DOMAIN jobs' : i \in Nat /\ ((i = Len(jobs) + 1 /\ jobs'[i] = Job("UV_Quit", NONE)) \/ (i \in DOMAIN jobs /\ jobs'[i] = jobs[i]))
      /\ Len(jobs') = Len(jobs) + 1 /\ Len(jobs) \in Nat
  BY <1>1, <1>2, Appended
<1>5. \A x \in Contexts : HasJob(x)' => HasJob(x)
  BY <1>4, Names DEF Job
<1>6. ~ Deletes(NONE)
  <2>1. \A i \in DOMAIN jobs : jobs[i].fn = "UV_DeleteAsyncContext" => jobs[i].c \in Contexts
    BY <1>1, Elements, JobIs
  <2> QED
    BY <2>1, Names DEF Deletes, Job
<1>7. \A x : InFlight(x)' => InFlight(x)
  <2> SUFFICES ASSUME NEW x, InFlight(x)'
               PROVE  InFlight(x)
    OBVIOUS
  <2>1. (\E i \in DOMAIN jobs' : jobs'[i] = Job("UV_OnAsyncResolve", x)) => \E i \in DOMAIN jobs : jobs[i] = Job("UV_OnAsyncResolve", x)
    BY <1>4 DEF Job
  <2> QED
    BY <1>2, <2>1 DEF InFlight
<1>8. call = NoCall /\ Remains(connectQueue', connectQueue) /\ \A u \in Sockets : SameSock(u)
  BY <1>1, <1>2, TypeIs, RemainsIs DEF RunInv, SameSock
<1>9. TypeOK'
  <2>1. mode' \in Modes /\ hasty' \subseteq {"close", "connect", "accept", "unload"}
    BY <1>1, <1>2, TypeIs DEF Modes
  <2> QED
    BY <1>1, <1>2, <1>3, <1>4, <2>1, TypeIs, TypeIsNext
<1>10. RunInv'
  BY <1>1, <1>2, <1>8 DEF RunInv
<1>11. BirthInv'
  <2>1. ASSUME NEW x \in Contexts
        PROVE  /\ ctx'[x].life = "none" =>
                    /\ ~ ctx'[x].deleted /\ ctx'[x].socket = NONE /\ ctx'[x].stream = NONE
                    /\ ~ HasJob(x)' /\ ~ InFlight(x)' /\ native'.c # x
                    /\ \A s \in Sockets : sock'[s].data # x
               /\ ctx'[x].life = "freed" => ctx'[x].deleted
    BY <1>1, <1>2, <1>3, <1>5, <1>7 DEF BirthInv
  <2> QED
    BY <2>1 DEF BirthInv
<1>12. SocketInv'
  <2>1. \A u \in Sockets : ctx[u].life = "none" => ctx'[u].life = "none"
    BY <1>3, Names DEF Valid
  <2>2. Starting' => Starting /\ uv'.c = uv.c /\ ctx'[uv.c].socket = ctx[uv.c].socket
    BY <1>1, <1>2, <1>3, Running DEF Starting
  <2> QED
    BY <1>1, <1>3, <1>8, <2>1, <2>2, SocketKept
<1>13. ResolveInv'
  <2>1. Job("UV_Quit", NONE).fn # "UV_OnAsyncResolve"
    BY DEF Job
  <2>2. \A x \in Contexts : (InFlight(x) /\ ctx[x].pending => ctx'[x].pending) /\ (Resolving(x)' => Resolving(x))
    BY <1>2, <1>3 DEF Resolving
  <2> QED
    BY <1>1, <1>2, <2>1, <2>2, ResolveAppend
<1>14. DeleteIsLast'
  <2>1. Job("UV_Quit", NONE).c = NONE /\ Job("UV_Quit", NONE).fn # "UV_DeleteAsyncContext"
    BY DEF Job
  <2>2. \A x \in Contexts : ctx[x].life = "live" /\ ctx[x].deleted /\ Deletes(x) => ctx'[x].life = "live" /\ ctx'[x].deleted
    BY <1>3 DEF Valid
  <2> QED
    BY <1>1, <1>2, <1>6, <2>1, <2>2, LastAppend
<1>15. DeleteInv'
  <2>1. ASSUME NEW x \in Contexts, ctx'[x].life = "live", ctx'[x].deleted
        PROVE  Deletes(x)'
    <3>1. ctx[x].life = "live" /\ ctx[x].deleted
      BY <1>3, <2>1
    <3> QED
      BY <1>1, <1>2, <1>4, <3>1 DEF DeleteInv, NoNative, Undefinedness
  <2> QED
    BY <1>2, <2>1 DEF DeleteInv, NoNative
<1>16. EndInv'
  <2>1. jobs' # <<>>
    BY <1>4
  <2>2. ASSUME NEW i \in DOMAIN jobs'
        PROVE  jobs'[i].fn = "UV_Quit" <=> i = Len(jobs')
    <3>1. CASE i = Len(jobs) + 1 /\ jobs'[i] = Job("UV_Quit", NONE)
      BY <1>4, <3>1 DEF Job
    <3>2. CASE i \in DOMAIN jobs /\ jobs'[i] = jobs[i]
      BY <1>1, <1>2, <1>4, <3>2 DEF EndInv
    <3> QED
      BY <1>4, <3>1, <3>2
  <2>3. \A x \in Contexts : ~ Valid(x)'
    BY <1>3 DEF Valid
  <2> QED
    BY <1>2, <2>1, <2>2, <2>3 DEF EndInv, Ended
<1>17. ASSUME OrderInv
       PROVE  OrderInv'
  <2>1. \A i \in DOMAIN jobs' : jobs'[i].fn = "UV_StartRead" => call'.new # jobs'[i].c
    BY <1>2, <1>4, <1>17 DEF OrderInv, Job
  <2> QED
    BY <1>1, <1>2, <1>3, <1>8, <1>17, <2>1, OrderKept
<1>18. ASSUME QuietInv, hasty' = {}
       PROVE  QuietInv'
  <2>1. \A x \in Contexts : ~ (Valid(x) /\ (InFlight(x) \/ HasJob(x)))
    BY <1>18 DEF Unload
  <2>2. ASSUME NEW x \in Contexts
        PROVE  /\ ctx'[x].life = "live" => ctx[x].life = "live"
               /\ ctx'[x].deleted => ~ InFlight(x)'
               /\ HasJob(x)' => ctx'[x].life = "live"
    <3>1. CASE Valid(x)
      BY <1>3, <1>5, <1>7, <2>1, <3>1 DEF Valid
    <3>2. CASE ~ Valid(x)
      BY <1>3, <1>5, <1>7, <1>18, <3>2 DEF QuietInv
    <3> QED
      BY <3>1, <3>2
  <2>3. \A i \in DOMAIN jobs' : jobs'[i].fn \in {"UV_OnAsyncWrite", "UV_StartRead"} => ctx'[jobs'[i].c].stream # NONE
    <3>1. \A i \in DOMAIN jobs : jobs[i].fn \in {"UV_OnAsyncWrite", "UV_StartRead"} =>
            jobs[i].c \in Contexts /\ ctx[jobs[i].c].stream # NONE
      BY <1>1, <1>18, StreamJobs
    <3>2. \A i \in DOMAIN jobs' : jobs'[i].fn \in {"UV_OnAsyncWrite", "UV_StartRead"} => i \in DOMAIN jobs /\ jobs'[i] = jobs[i]
      BY <1>4 DEF Job
    <3> QED
      BY <1>3, <3>1, <3>2
  <2>4. mode' \notin Undefinedness /\ mode' # "running" /\ call'.new = call.new
    BY <1>2 DEF Undefinedness
  <2> QED
    BY <1>1, <1>3, <1>8, <1>18, <2>2, <2>3, <2>4, QuietKept
<1> QED
  BY <1>2, <1>9, <1>10, <1>11, <1>12, <1>13, <1>14, <1>15, <1>16, <1>17, <1>18 DEF IndInv

(* What follows: no context is left when UV_Quit has run, so nothing is known of the handles but their states. *)
LEMMA EndStep ==
  ASSUME IndInv, mode \in Ended, mode' \in Ended \ {"unloading"}, jobs' = <<>>, \A x : ~ Deletes(x), Remains(jobs', jobs),
         ctx' = ctx, resolver' = resolver, connectQueue' = connectQueue, dataQueue' = dataQueue, errorQueue' = errorQueue,
         phase' = phase, call' = call, native' = native, uv' = uv, hasty' = hasty,
         sock' \in [Sockets -> SockRecords], \A s \in Sockets : Stays(s), sock' = sock \/ uv = NoUv,
         mode' \in {"joined", "closing", "unloaded"} => uv = NoUv,
         mode' \in {"closing", "unloaded"} => \A s \in Sockets : sock'[s].state # "open",
         mode' = "unloaded" => \A s \in Sockets : sock'[s].state # "closing"
  PROVE  IndInv'
<1>1. TypeOK /\ RunInv /\ BirthInv /\ SocketInv /\ ResolveInv /\ DeleteInv /\ EndInv
  BY DEF IndInv
<1>2. mode # "running" /\ mode' # "running" /\ mode \notin Undefinedness /\ mode' \notin Undefinedness /\ mode' \in Modes
  BY DEF Ended, Undefinedness, Modes
<1>3. native = NoNative /\ phase = "none" /\ call = NoCall
  BY <1>1, <1>2 DEF RunInv
<1>4. /\ jobs' \in Seq(Jobs) /\ Remains(connectQueue', connectQueue) /\ DOMAIN jobs' = {}
      /\ \A x : ~ HasJob(x)' /\ ~ Deletes(x)' /\ (Resolving(x)' <=> Resolving(x))
  <2>1. connectQueue \in Seq(Connects_)
    BY <1>1, TypeIs
  <2>2. jobs' \in Seq(Jobs) /\ DOMAIN jobs' = {}
    OBVIOUS
  <2> QED
    BY <2>1, <2>2, RemainsIs DEF HasJob, Deletes, Resolving
<1>5. \A x \in Contexts : ctx[x].life # "live"
  BY <1>1, <1>2, <1>3 DEF EndInv, Valid, DeleteInv, NoNative
<1>6. \A x : InFlight(x)' => InFlight(x)
  <2> SUFFICES ASSUME NEW x, InFlight(x)'
               PROVE  InFlight(x)
    OBVIOUS
  <2>1. (\E u \in Sockets : sock'[u].state = "open" /\ sock'[u].data = x /\ sock'[u].use \in {"connecting", "listening", "reading"})
          => \E u \in Sockets : sock[u].state = "open" /\ sock[u].data = x /\ sock[u].use \in {"connecting", "listening", "reading"}
    BY DEF Stays
  <2>2. UNCHANGED <<connectQueue, resolver, uv, dataQueue, errorQueue, call>>
    OBVIOUS
  <2> QED
    BY <1>4, <2>1, <2>2 DEF InFlight
<1>7. TypeOK'
  BY <1>1, <1>2, <1>4, TypeIs, TypeIsNext
<1>8. RunInv'
  BY <1>1, <1>3 DEF RunInv
<1>9. BirthInv'
  BY <1>1, <1>4, <1>6 DEF BirthInv, Stays
<1>10. SocketInv'
  <2>1. \A u \in Sockets : Stays(u) /\ (ctx[u].life = "none" => ctx'[u].life = "none")
    OBVIOUS
  <2>2. \A x \in Contexts : ctx'[x].stream \in {ctx[x].stream, NONE} /\ ctx'[x].socket \in {ctx[x].socket, NONE}
    OBVIOUS
  <2>3. Starting' => /\ Starting /\ uv'.c = uv.c /\ ctx'[uv.c].socket = ctx[uv.c].socket
                     /\ \A s \in Sockets : sock'[s].state = sock[s].state
    <3>1. CASE sock' = sock
      BY <3>1 DEF Starting
    <3>2. CASE uv = NoUv
      BY <3>2 DEF Starting, NoUv
    <3> QED
      BY <3>1, <3>2
  <2> QED
    BY <1>1, <1>4, <2>1, <2>2, <2>3, SocketStays
<1>11. ResolveInv'
  BY <1>1, <1>4, ResolveKept
<1>12. DeleteIsLast' /\ DeleteInv' /\ EndInv'
  <2>1. DeleteIsLast'
    BY <1>4 DEF DeleteIsLast
  <2>2. DeleteInv'
    BY <1>3, <1>5 DEF DeleteInv, NoNative
  <2>3. EndInv'
    BY <1>2, <1>5 DEF EndInv, Ended, Valid, NoneClosing
  <2> QED
    BY <2>1, <2>2, <2>3
<1>13. ASSUME OrderInv
       PROVE  OrderInv'
  BY <1>1, <1>4, <1>13, OrderStays
<1>14. ASSUME QuietInv
       PROVE  QuietInv'
  <2>1. \A x \in Contexts : /\ ctx'[x].deleted => ~ InFlight(x)'
                            /\ call'.new = x => ctx'[x].stream # NONE
    BY <1>6, <1>14 DEF QuietInv
  <2>2. ASSUME NEW u \in Sockets, sock'[u].use = "connecting", sock'[u].state = "closing"
        PROVE  FALSE
    <3>1. sock[u].use = "connecting" /\ sock[u].state # "closing" /\ sock[u].state \in {"closing", "none", "open"}
      BY <1>14, <2>2 DEF Stays, QuietInv
    <3>2. sock[u].state = "open" /\ sock[u].data \in Contexts
      BY <1>1, <3>1 DEF SocketInv
    <3>3. InFlight(sock[u].data)
      BY <3>1, <3>2 DEF InFlight
    <3>4. ~ ctx[sock[u].data].deleted /\ ctx[sock[u].data].life # "none" /\ ctx[sock[u].data].life # "freed"
      BY <1>1, <1>14, <3>2, <3>3 DEF QuietInv, BirthInv
    <3>5. ctx[sock[u].data].life \in {"none", "live", "freed"}
      BY <1>1, <3>2, TypeIs DEF CtxRecords
    <3> QED
      BY <1>5, <3>2, <3>4, <3>5
  <2> QED
    BY <1>2, <1>4, <1>5, <2>1, <2>2 DEF QuietInv
<1> QED
  BY <1>7, <1>8, <1>9, <1>10, <1>11, <1>12, <1>13, <1>14 DEF IndInv

(* UV_Quit. *)
LEMMA QuitStep ==
  ASSUME IndInv, Quit
  PROVE  IndInv'
<1>1. TypeOK /\ EndInv
  BY DEF IndInv
<1>2. /\ jobs # <<>> /\ Head(jobs).fn = "UV_Quit" /\ jobs' = Tail(jobs) /\ mode \in {"running", "unloading", "stopping"}
      /\ mode' = "stopping" /\ ctx' = ctx /\ resolver' = resolver /\ connectQueue' = connectQueue /\ dataQueue' = dataQueue
      /\ errorQueue' = errorQueue /\ phase' = phase /\ call' = call /\ native' = native /\ uv' = uv /\ hasty' = hasty
      /\ sock' = sock /\ uv = NoUv
  BY DEF Quit, NextJob, LoopRuns, queues, game
<1>3. /\ jobs' \in Seq(Jobs) /\ Remains(jobs', jobs) /\ 1 \in DOMAIN jobs /\ jobs[1] = Head(jobs) /\ Len(jobs') = Len(jobs) - 1
  BY <1>1, <1>2, Tailed
<1>4. mode = "unloading" /\ Len(jobs) = 1
  BY <1>1, <1>2, <1>3 DEF EndInv, Ended
<1>5. jobs' = <<>>
  BY <1>3, <1>4
<1>6. \A i \in DOMAIN jobs : i = 1
  <2>1. jobs \in Seq(Jobs)
    BY <1>1, TypeIs
  <2> QED
    BY <1>4, <2>1
<1>7. \A x : ~ Deletes(x)
  BY <1>2, <1>3, <1>6 DEF Deletes, Job
<1>8. sock' \in [Sockets -> SockRecords] /\ \A s \in Sockets : Stays(s)
  BY <1>1, <1>2, TypeIs DEF Stays
<1>9. mode \in Ended /\ mode' \in Ended \ {"unloading"} /\ mode' \notin {"joined", "closing", "unloaded"}
  BY <1>2, <1>4 DEF Ended
<1> QED
  BY <1>2, <1>3, <1>5, <1>7, <1>8, <1>9, EndStep

(* The loop thread is joined, and the handles that are still there are closed and run down. *)
LEMMA RunDownStep ==
  ASSUME IndInv, UnloadStep
  PROVE  IndInv'
<1>1. TypeOK /\ EndInv
  BY DEF IndInv
<1>2. /\ ctx' = ctx /\ resolver' = resolver /\ connectQueue' = connectQueue /\ dataQueue' = dataQueue /\ jobs' = jobs
      /\ errorQueue' = errorQueue /\ phase' = phase /\ call' = call /\ native' = native /\ uv' = uv /\ hasty' = hasty
  BY DEF UnloadStep, JoinLoop, WalkHandles, Unloaded, queues, game
<1>3. /\ mode \in Ended \ {"unloading"} /\ mode' \in Ended \ {"unloading"} /\ uv = NoUv /\ mode' \in {"joined", "closing", "unloaded"}
  BY <1>1 DEF UnloadStep, JoinLoop, WalkHandles, Unloaded, Ended, EndInv
<1>4. jobs = <<>> /\ jobs' = <<>> /\ Remains(jobs', jobs) /\ \A x : ~ Deletes(x)
  <2>1. jobs = <<>> /\ jobs \in Seq(Jobs)
    BY <1>1, <1>3, TypeIs DEF EndInv
  <2>2. Remains(jobs, jobs)
    BY <2>1, RemainsIs
  <2>3. DOMAIN jobs = {}
    BY <2>1
  <2> QED
    BY <1>2, <2>1, <2>2, <2>3 DEF Deletes
<1>5. sock \in [Sockets -> SockRecords]
  BY <1>1, TypeIs
<1>6. CASE JoinLoop
  BY <1>2, <1>3, <1>4, <1>5, <1>6, EndStep DEF JoinLoop, Stays
<1>7. CASE WalkHandles
  <2>1. /\ sock' \in [Sockets -> SockRecords] /\ \A s \in Sockets : Stays(s) /\ sock'[s].state # "open"
    <3> DEFINE r(s) == [sock[s] EXCEPT !.state = "closing"]
    <3>1. \A s \in Sockets : r(s) \in SockRecords /\ r(s).state = "closing" /\ r(s).data = sock[s].data /\ r(s).use = sock[s].use
      BY <1>5 DEF SockRecords
    <3>2. sock' = [s \in Sockets |-> IF sock[s].state = "open" THEN r(s) ELSE sock[s]]
      BY <1>7 DEF WalkHandles
    <3> HIDE DEF r
    <3> QED
      BY <1>5, <3>1, <3>2 DEF Stays
  <2> QED
    BY <1>2, <1>3, <1>4, <1>7, <2>1, EndStep DEF WalkHandles
<1>8. CASE Unloaded
  <2>1. \A s \in Sockets : sock[s].state # "open" /\ sock[s].state # "closing"
    BY <1>1, <1>8 DEF EndInv, Unloaded, NoneClosing
  <2> QED
    BY <1>2, <1>3, <1>4, <1>5, <1>8, <2>1, EndStep DEF Unloaded, Stays
<1> QED
  BY <1>6, <1>7, <1>8 DEF UnloadStep
-----------------------------------------------------------------------------
(* The inductive invariant is kept by every step. *)
LEMMA NextStep ==
  ASSUME IndInv, [Next]_vars
  PROVE  IndInv'
<1>1. CASE Natives
  BY <1>1, CreateStep, OpenCallStep, WriteStep, DestroyCallStep DEF Natives
<1>2. CASE BeginFrame \/ EndConnects \/ EndData \/ EndFrame
  BY <1>2, FrameStep_
<1>3. CASE Accepted
  BY <1>3, AcceptedStep
<1>4. CASE Connected \/ OnData \/ OnError
  BY <1>4, ConnectedStep
<1>5. CASE Return \/ ReturnOnConnect
  BY <1>5, ReturnStep
<1>6. CASE Open \/ Destroy
  BY <1>6, OpenStep, DestroyStep
<1>7. CASE RunJob
  BY <1>7, AsyncResolveStep, AsyncWriteStep, StartReadStep, DeleteAsyncContextStep, QuitStep DEF RunJob
<1>8. CASE GetAddrInfo \/ PushError \/ ReadForgets
  BY <1>8, GetAddrInfoStep, PushErrorStep, ReadForgetsStep
<1>9. CASE ResolveFailed \/ ClearPending
  BY <1>9, ResolvedStep
<1>10. CASE SetSocket \/ StartListen \/ StartConnect
  BY <1>10, SetSocketStep, StartStep
<1>11. CASE \E s \in Sockets : FinishClose(s)
  BY <1>11, FinishCloseStep
<1>12. CASE \E c \in Contexts : AsyncResolved(c)
  BY <1>12, AsyncResolvedStep
<1>13. CASE \E s \in Sockets : ConnectDeleted(s) \/ ConnectFails(s) \/ ListenDeleted(s) \/ ListenFails(s) \/ ReadFails(s)
  BY <1>13, CallbackStep
<1>14. CASE \E s \in Sockets : Connects(s) \/ NewConnection(s) \/ ReadDeleted(s) \/ Reads(s)
  BY <1>14, ConnectsStep, NewConnectionStep, ReadDeletedStep, ReadsStep
<1>15. CASE Unload
  BY <1>15, UnloadStep_
<1>16. CASE UnloadStep
  BY <1>16, RunDownStep
<1>17. CASE UNCHANGED vars
  <2>1. /\ ctx' = ctx /\ sock' = sock /\ resolver' = resolver /\ jobs' = jobs /\ connectQueue' = connectQueue
        /\ dataQueue' = dataQueue /\ errorQueue' = errorQueue /\ phase' = phase /\ call' = call /\ native' = native
        /\ uv' = uv /\ mode' = mode /\ hasty' = hasty
    BY <1>17 DEF vars
  <2>2. TypeOK /\ RunInv /\ BirthInv /\ DeleteInv
    BY DEF IndInv
  <2>3. phase' \in {"none", "connect", "data", "error"} /\ native' \in NativeCalls
    BY <2>1, <2>2, TypeIs
  <2>4. RunInv' /\ DeleteInv' /\ \A x \in Contexts : native'.c = x => ctx[x].life # "none"
    BY <2>1, <2>2 DEF RunInv, DeleteInv, Valid, Deletes, BirthInv
  <2> QED
    BY <2>1, <2>3, <2>4, PlaceStep DEF queues
<1> QED
  BY <1>1, <1>2, <1>3, <1>4, <1>5, <1>6, <1>7, <1>8, <1>9, <1>10, <1>11, <1>12, <1>13, <1>14, <1>15, <1>16, <1>17
  DEF Next, GameStep, FrameStep, UvStep, Network

-----------------------------------------------------------------------------
(* What a plugin hears about a connection.  AnnounceInv is kept by a step that leaves the  *)
(* plugin's callback or ends it, takes no announcement back, and reads from nobody anew    *)
(* whom the plugin has not heard of; the steps of OnGameFrame's loops follow.              *)
Read(s) == sock[s].state = "open" /\ sock[s].use = "reading"

(* A socket that is read is somebody's, and so is what waits in the queues. *)
LEMMA ReadIs ==
  ASSUME IndInv
  PROVE  /\ \A s \in Sockets : Read(s) => sock[s].data \in Contexts
         /\ \A i \in DOMAIN dataQueue : dataQueue[i] \in Contexts
         /\ \A i \in DOMAIN jobs : jobs[i].fn = "UV_StartRead" => jobs[i].c \in Contexts
         /\ \A s \in Sockets : call.new = s => call.fn = "OnConnect"
         /\ "connect" \notin hasty => \A s \in Sockets : Read(s) => call.new # s
<1>1. TypeOK /\ SocketInv /\ RunInv /\ ("connect" \notin hasty => OrderInv)
  BY DEF IndInv
<1>2. \A s \in Sockets : Read(s) => sock[s].data \in Contexts
  BY <1>1 DEF Read, SocketInv
<1>3. /\ \A i \in DOMAIN dataQueue : dataQueue[i] \in Contexts
      /\ \A i \in DOMAIN jobs : jobs[i].fn = "UV_StartRead" => jobs[i].c \in Contexts
  BY <1>1, Elements, JobIs
<1>4. \A s \in Sockets : call.new = s => call.fn = "OnConnect"
  BY <1>1, Names DEF RunInv, NoCall
<1>5. "connect" \notin hasty => \A s \in Sockets : Read(s) => call.new # s
  BY <1>1, <1>4 DEF OrderInv, Read
<1> QED
  BY <1>2, <1>3, <1>4, <1>5

LEMMA ReadIsNext ==
  ASSUME IndInv'
  PROVE  /\ \A s \in Sockets : Read(s)' => sock'[s].data \in Contexts
         /\ \A i \in DOMAIN dataQueue' : dataQueue'[i] \in Contexts
         /\ \A i \in DOMAIN jobs' : jobs'[i].fn = "UV_StartRead" => jobs'[i].c \in Contexts
         /\ \A s \in Sockets : call'.new = s => call'.fn = "OnConnect"
         /\ "connect" \notin hasty' => \A s \in Sockets : Read(s)' => call'.new # s
<1>1. TypeOK' /\ SocketInv' /\ RunInv' /\ ("connect" \notin hasty' => OrderInv')
  BY DEF IndInv
<1>2. \A s \in Sockets : Read(s)' => sock'[s].data \in Contexts
  BY <1>1 DEF Read, SocketInv
<1>3. /\ \A i \in DOMAIN dataQueue' : dataQueue'[i] \in Contexts
      /\ \A i \in DOMAIN jobs' : jobs'[i].fn = "UV_StartRead" => jobs'[i].c \in Contexts
  <2>1. dataQueue' \in Seq(Contexts) /\ jobs' \in Seq(Jobs)
    BY <1>1, TypeIsNext
  <2>2. \A i \in DOMAIN jobs' : jobs'[i] \in Jobs
    BY <2>1
  <2> QED
    BY <2>1, <2>2, JobIs
<1>4. \A s \in Sockets : call'.new = s => call'.fn = "OnConnect"
  BY <1>1, Names DEF RunInv, NoCall
<1>5. "connect" \notin hasty' => \A s \in Sockets : Read(s)' => call'.new # s
  BY <1>1, <1>4 DEF OrderInv, Read
<1> QED
  BY <1>2, <1>3, <1>4, <1>5

LEMMA AnnounceKept ==
  ASSUME IndInv, IndInv', AnnounceInv, hasty \subseteq hasty',
         \/ call' = call /\ phase' = phase
         \/ call'.fn \notin {"OnConnect", "Connected", "OnData"} /\ call'.new = NONE
         \/ call'.fn \in {"OnConnect", "Connected"} /\ phase' = "connect" /\ \A s \in Sockets : call'.new = s => ctx'[s].announced
         \/ call'.fn = "OnData" /\ phase' = "data" /\ call'.c \in Contexts /\ call'.new = NONE
            /\ ("connect" \notin hasty' => \A x \in Contexts : call'.c = x => Heard(x)'),
         phase' = "data" => \A i \in DOMAIN connectQueue' : connectQueue'[i].late,
         \A x \in Contexts : /\ ctx[x].announced => ctx'[x].announced
                             /\ ctx'[x].life = "none" => ~ ctx'[x].announced,
         \A i \in DOMAIN jobs' : jobs'[i].fn = "UV_StartRead" =>
           (\E j \in DOMAIN jobs : jobs'[i] = jobs[j]) \/ ctx'[jobs'[i].c].announced,
         "connect" \notin hasty' => \A x \in Contexts :
           /\ Heard(x) => Heard(x)'
           /\ \A i \in DOMAIN dataQueue' : dataQueue'[i] = x =>
                (\E j \in DOMAIN dataQueue : dataQueue[j] = x) \/ Heard(x)'
           /\ \A s \in Sockets : Read(s)' /\ sock'[s].data = x =>
                (Read(s) /\ sock[s].data = x) \/ Heard(x)'
  PROVE  AnnounceInv'
<1>1. /\ \A i \in DOMAIN jobs : jobs[i].fn = "UV_StartRead" => ctx[jobs[i].c].announced /\ jobs[i].c \in Contexts
      /\ \A s \in Sockets : call.new = s => ctx[s].announced
      /\ call.fn = "OnData" => phase = "data" /\ call.c \in Contexts
      /\ call.fn \in {"OnConnect", "Connected"} => phase = "connect"
  BY ReadIs DEF AnnounceInv
<1>2. \A i \in DOMAIN jobs' : jobs'[i].fn = "UV_StartRead" => ctx'[jobs'[i].c].announced
  BY <1>1
<1>3. /\ \A s \in Sockets : call'.new = s => ctx'[s].announced
      /\ call'.fn = "OnData" => phase' = "data" /\ call'.c \in Contexts
      /\ call'.fn \in {"OnConnect", "Connected"} => phase' = "connect"
  BY <1>1, Names DEF NoCall
<1>4. ASSUME "connect" \notin hasty'
      PROVE  /\ \A s \in Sockets : Read(s)' => Heard(sock[s].data)' /\ call'.new # s
             /\ \A i \in DOMAIN dataQueue' : Heard(dataQueue[i])'
             /\ call'.fn = "OnData" =>
                  \/ ctx'[call'.c].announced
                  \/ Waits(call.c)' /\ \A i \in DOMAIN connectQueue' : connectQueue'[i].late
  <2>1. /\ \A s \in Sockets : Read(s) => Heard(sock[s].data)
        /\ \A i \in DOMAIN dataQueue : Heard(dataQueue[i])
        /\ call.fn = "OnData" => Heard(call.c)
    BY <1>4 DEF AnnounceInv, AnnouncedFirst, Read, Heard
  <2>2. \A x \in Contexts : Heard(x) => Heard(x)'
    BY <1>4
  <2>3. ASSUME NEW s \in Sockets, Read(s)'
        PROVE  Heard(sock[s].data)' /\ call'.new # s
    <3>1. PICK x \in Contexts : sock'[s].data = x
      BY <2>3, ReadIsNext
    <3>2. Heard(x)'
      BY <1>4, <2>1, <2>2, <2>3, <3>1
    <3> QED
      BY <1>4, <2>3, <3>1, <3>2, ReadIsNext
  <2>4. ASSUME NEW i \in DOMAIN dataQueue'
        PROVE  Heard(dataQueue[i])'
    <3>1. PICK x \in Contexts : dataQueue'[i] = x
      BY ReadIsNext
    <3>2. Heard(x)'
      BY <1>4, <2>1, <2>2, <3>1
    <3> QED
      BY <3>1, <3>2
  <2>5. ASSUME call'.fn = "OnData"
        PROVE  \/ ctx'[call'.c].announced
               \/ Waits(call.c)' /\ \A i \in DOMAIN connectQueue' : connectQueue'[i].late
    <3>1. phase' = "data"
      BY <1>1, <2>5
    <3>2. PICK x \in Contexts : x = call'.c
      BY <1>1, <2>5
    <3>3. Heard(x)'
      BY <1>1, <1>4, <2>1, <2>2, <2>5, <3>2
    <3>4. ctx'[x].announced \/ Waits(x)'
      BY <3>3 DEF Heard
    <3> QED
      BY <3>1, <3>2, <3>4
  <2> QED
    BY <2>3, <2>4, <2>5
<1>5. AnnouncedFirst'
  BY <1>4 DEF AnnouncedFirst, Read
<1> QED
  BY <1>2, <1>3, <1>5 DEF AnnounceInv
(* The plugin's callback goes on or ends, and nothing is heard, read or queued anew. *)
SameNews ==
  \A x \in Contexts : /\ ctx'[x].announced <=> ctx[x].announced
                      /\ "connect" \notin hasty' /\ Waits(x) => ~ ctx'[x].server
                      /\ ctx'[x].life = "none" => ctx[x].life = "none"
NoneRead == \A s \in Sockets : Read(s)' => Read(s) /\ sock'[s].data = sock[s].data
NoStart  == \A i \in DOMAIN jobs' : jobs'[i].fn = "UV_StartRead" => \E j \in DOMAIN jobs : jobs'[i] = jobs[j]

LEMMA AnnounceStays ==
  ASSUME IndInv, IndInv', AnnounceInv, hasty \subseteq hasty', connectQueue' = connectQueue,
         \A x \in Contexts : (\E i \in DOMAIN dataQueue' : dataQueue'[i] = x) => \E i \in DOMAIN dataQueue : dataQueue[i] = x,
         (call' = call /\ phase' = phase) \/ (call'.fn \notin {"OnConnect", "Connected", "OnData"} /\ call'.new = NONE),
         phase' \in {phase, "none", "connect", "error"} \/ connectQueue = <<>>,
         SameNews, NoneRead, NoStart
  PROVE  AnnounceInv'
<1>1. "connect" \notin hasty' => \A x \in Contexts : Heard(x) => Heard(x)'
  BY DEF Heard, Waits, SameNews
<1>2. phase' = "data" => \A i \in DOMAIN connectQueue' : connectQueue'[i].late
  BY DEF AnnounceInv
<1>3. \A x \in Contexts : /\ ctx[x].announced => ctx'[x].announced
                          /\ ctx'[x].life = "none" => ~ ctx'[x].announced
  BY DEF AnnounceInv, SameNews
<1>4. \A i \in DOMAIN jobs' : jobs'[i].fn = "UV_StartRead" => \E j \in DOMAIN jobs : jobs'[i] = jobs[j]
  BY DEF NoStart
<1>5. \A x \in Contexts : \A s \in Sockets : Read(s)' /\ sock'[s].data = x => Read(s) /\ sock[s].data = x
  BY DEF NoneRead
<1> QED
  BY <1>1, <1>2, <1>3, <1>4, <1>5, AnnounceKept

(* What undefined behaviour leaves; and a step that OnGameFrame does not notice. *)
Stopped ==
  /\ ctx' = ctx /\ sock' = sock /\ jobs' = jobs /\ connectQueue' = connectQueue /\ dataQueue' = dataQueue
  /\ hasty' = hasty /\ call' = NoCall /\ phase' = "none"
Unnoticed ==
  connectQueue' = connectQueue /\ dataQueue' = dataQueue /\ phase' = phase /\ call' = call /\ hasty \subseteq hasty'

LEMMA SameCtx ==
  /\ ctx' = ctx => SameNews
  /\ sock' = sock => NoneRead
  /\ jobs' = jobs => NoStart
BY DEF SameNews, Waits, NoneRead, NoStart, Read

LEMMA StoppedNews ==
  ASSUME IndInv, IndInv', AnnounceInv, Stopped
  PROVE  AnnounceInv'
<1>1. /\ ctx' = ctx /\ sock' = sock /\ jobs' = jobs /\ connectQueue' = connectQueue /\ dataQueue' = dataQueue /\ hasty \subseteq hasty'
      /\ call'.fn = "none" /\ call'.new = NONE /\ phase' = "none"
  BY DEF Stopped, NoCall
<1>2. SameNews /\ NoneRead /\ NoStart
  BY <1>1, SameCtx
<1> QED
  BY <1>1, <1>2, AnnounceStays

(* The jobs of a step, and its handles. *)
LEMMA NoStarts ==
  ASSUME TypeOK,
         \/ jobs' = jobs
         \/ jobs # <<>> /\ jobs' = Tail(jobs)
         \/ \E j \in Jobs : j.fn # "UV_StartRead" /\ jobs' = Append(jobs, j)
  PROVE  NoStart
<1>1. CASE jobs' = jobs
  BY <1>1 DEF NoStart
<1>2. CASE jobs # <<>> /\ jobs' = Tail(jobs)
  <2>1. Remains(jobs', jobs)
    BY <1>2, TypeIs, RemainsIs
  <2> QED
    BY <2>1 DEF NoStart, Remains
<1>3. ASSUME NEW j \in Jobs, j.fn # "UV_StartRead", jobs' = Append(jobs, j)
      PROVE  NoStart
  BY <1>3, Appended DEF NoStart
<1> QED
  BY <1>1, <1>2, <1>3

(* Fields of a context are set that are no news. *)
Sets(c) ==
  \/ ctx' = ctx
  \/ ctx' = [ctx EXCEPT ![c].pendingCallback = TRUE] \/ ctx' = [ctx EXCEPT ![c].pending = FALSE]
  \/ ctx' = [ctx EXCEPT ![c].socket = NONE] \/ ctx' = [ctx EXCEPT ![c].stream = NONE]
  \/ \E s \in Sockets : \/ ctx' = [ctx EXCEPT ![c].socket = s]
                      \/ ctx' = [ctx EXCEPT ![c].pendingCallback = TRUE, ![c].stream = s]
  \/ ctx' = [ctx EXCEPT ![c].deleted = TRUE]
  \/ ctx' = [ctx EXCEPT ![c].life = "freed"]
  \/ ctx' = [ctx EXCEPT ![c].life = "freed", ![c].stream = NONE, ![c].socket = NONE]

LEMMA SetsNoNews ==
  ASSUME TypeOK, NEW c \in Contexts, Sets(c)
  PROVE  SameNews
<1>1. ctx \in [Contexts -> CtxRecords]
  BY TypeIs
<1>2. \A x \in Contexts : x # c => ctx'[x] = ctx[x]
  BY <1>1 DEF Sets
<1>3. /\ ctx'[c].announced = ctx[c].announced /\ ctx'[c].server = ctx[c].server
      /\ ctx'[c].life \in {ctx[c].life, "freed"}
  BY <1>1 DEF CtxRecords, Sets
<1> QED
  BY <1>2, <1>3 DEF SameNews, Waits

(* A handle is closed, freed or put to another use. *)
PutAway(s) ==
  \/ sock' = [sock EXCEPT ![s].state = "closing"] \/ sock' = [sock EXCEPT ![s].state = "freed"]
  \/ sock' = [sock EXCEPT ![s].use = "idle"] \/ sock' = [sock EXCEPT ![s].use = "connecting"]
  \/ sock' = [sock EXCEPT ![s].use = "unreachable"] \/ sock' = [sock EXCEPT ![s].use = "listening"]
  \/ sock' = [[sock EXCEPT ![s].state = "closing"] EXCEPT ![s].use = "idle"]

LEMMA PutAwayUnread ==
  ASSUME TypeOK, NEW s \in Sockets, PutAway(s)
  PROVE  NoneRead
<1>1. sock \in [Sockets -> SockRecords]
  BY TypeIs
<1>2. \A t \in Sockets : t # s => sock'[t] = sock[t]
  BY <1>1 DEF PutAway
<1>3. sock'[s].state # "open" \/ sock'[s].use # "reading"
  BY <1>1 DEF SockRecords, PutAway
<1> QED
  BY <1>2, <1>3 DEF NoneRead, Read

(* A handle is opened that was not used yet. *)
LEMMA OpenedUnread ==
  ASSUME TypeOK, NEW s \in Sockets, NEW c \in Contexts \cup {NONE}, sock' = Opened(s, c), sock[s].use # "reading"
  PROVE  NoneRead
<1>1. sock \in [Sockets -> SockRecords]
  BY TypeIs
<1>2. sock' = [sock EXCEPT ![s].state = "open", ![s].data = c]
  BY DEF Opened
<1>3. \A t \in Sockets : t # s => sock'[t] = sock[t]
  BY <1>1, <1>2
<1>4. sock'[s].use # "reading"
  BY <1>1, <1>2 DEF SockRecords
<1> QED
  BY <1>3, <1>4 DEF NoneRead, Read

(* Steps of the two threads that OnGameFrame does not notice. *)
LEMMA UnnoticedNews ==
  ASSUME IndInv, IndInv', AnnounceInv, Unnoticed, SameNews, NoneRead,
         \/ jobs' = jobs
         \/ jobs # <<>> /\ jobs' = Tail(jobs)
         \/ \E j \in Jobs : j.fn # "UV_StartRead" /\ jobs' = Append(jobs, j)
  PROVE  AnnounceInv'
<1>1. TypeOK
  BY DEF IndInv
<1>2. NoStart
  BY <1>1, NoStarts
<1>3. connectQueue' = connectQueue /\ dataQueue' = dataQueue /\ phase' = phase /\ call' = call /\ hasty \subseteq hasty'
  BY DEF Unnoticed
<1> QED
  BY <1>2, <1>3, AnnounceStays

LEMMA NativesNews ==
  ASSUME IndInv, IndInv', AnnounceInv,
         \/ \E c \in Contexts, fn \in {"Connect", "Listen"} : OpenCall(fn, c)
         \/ \E c \in Contexts : Write(c) \/ DestroyCall(c)
         \/ Destroy
  PROVE  AnnounceInv'
<1>1. TypeOK /\ RunInv
  BY DEF IndInv
<1>2. \A c \in Contexts : /\ Job("UV_OnAsyncWrite", c) \in Jobs /\ Job("UV_OnAsyncWrite", c).fn # "UV_StartRead"
                         /\ Job("UV_DeleteAsyncContext", c) \in Jobs /\ Job("UV_DeleteAsyncContext", c).fn # "UV_StartRead"
  BY JobIs DEF JobFns
<1>3. ASSUME NEW c \in Contexts, NEW fn \in {"Connect", "Listen"}, OpenCall(fn, c)
      PROVE  AnnounceInv'
  <2>1. ctx' = ctx /\ jobs' = jobs /\ sock' = sock /\ Unnoticed
    BY <1>3 DEF OpenCall, Unnoticed, queues
  <2> QED
    BY <2>1, SameCtx, UnnoticedNews
<1>4. ASSUME NEW c \in Contexts, Write(c)
      PROVE  AnnounceInv'
  <2>1. ctx' = ctx /\ jobs' = Append(jobs, Job("UV_OnAsyncWrite", c)) /\ sock' = sock /\ Unnoticed
    BY <1>4 DEF Write, Unnoticed, queues, game
  <2> QED
    BY <1>2, <2>1, SameCtx, UnnoticedNews
<1>5. ASSUME NEW c \in Contexts, DestroyCall(c)
      PROVE  AnnounceInv'
  <2>1. Sets(c) /\ jobs' = jobs /\ sock' = sock /\ Unnoticed
    BY <1>5 DEF DestroyCall, Sets, Unnoticed, queues
  <2>2. SameNews /\ NoneRead
    BY <1>1, <2>1, SetsNoNews, SameCtx
  <2> QED
    BY <2>1, <2>2, UnnoticedNews
<1>6. CASE Destroy
  <2>1. PICK c \in Contexts : c = native.c
    BY <1>1, <1>6, Running DEF Destroy
  <2>2. Unnoticed /\ sock' = sock
    BY <1>6 DEF Destroy, Unnoticed, queues
  <2>3. Sets(c) /\ (jobs' = Append(jobs, Job("UV_DeleteAsyncContext", c)) \/ jobs' = jobs)
    BY <1>6, <2>1 DEF Destroy, Sets
  <2>4. SameNews /\ NoneRead
    BY <1>1, <2>2, <2>3, SetsNoNews, SameCtx
  <2> QED
    BY <1>2, <2>2, <2>3, <2>4, UnnoticedNews
<1> QED
  BY <1>3, <1>4, <1>5, <1>6

LEMMA JobNews ==
  ASSUME IndInv, IndInv', AnnounceInv, AsyncResolve \/ AsyncWrite \/ Quit \/ DeleteAsyncContext
  PROVE  AnnounceInv'
<1>1. TypeOK
  BY DEF IndInv
<1>2. jobs # <<>>
  BY DEF AsyncResolve, AsyncWrite, Quit, DeleteAsyncContext, NextJob
<1>3. CASE AsyncResolve \/ AsyncWrite \/ Quit
  <2>1. Stopped \/ (ctx' = ctx /\ jobs' = Tail(jobs) /\ sock' = sock /\ Unnoticed)
    <3>1. CASE AsyncResolve
      BY <3>1 DEF AsyncResolve, Touch, Undefined, Stopped, Unnoticed, queues, game
    <3>2. CASE AsyncWrite
      BY <3>2 DEF AsyncWrite, Touch, TouchHandle, Undefined, Stopped, Unnoticed, queues, game
    <3>3. CASE Quit
      BY <3>3 DEF Quit, Unnoticed, queues, game
    <3> QED
      BY <1>3, <3>1, <3>2, <3>3
  <2> QED
    BY <1>2, <2>1, SameCtx, StoppedNews, UnnoticedNews
<1>4. CASE DeleteAsyncContext
  <2>1. PICK c \in Contexts : c = Head(jobs).c
    BY <1>1, <1>4, NextIs DEF DeleteAsyncContext, JobFns
  <2>2. PICK s \in Sockets \cup {NONE} : s = IF ctx[c].stream # NONE THEN ctx[c].stream ELSE ctx[c].socket
    BY <1>1, <2>1, TypeIs DEF CtxRecords
  <2>3. \/ Stopped
        \/ Sets(c) /\ jobs' = Tail(jobs) /\ Unnoticed /\ (sock' = sock \/ (s # NONE /\ PutAway(s)))
    BY <1>4, <2>1, <2>2, ZenonT(30)
    DEF DeleteAsyncContext, Touch, Close, TouchHandle, Closed, Undefined, Stopped, Sets, PutAway, Unnoticed, queues, game
  <2>4. Stopped \/ (SameNews /\ NoneRead)
    BY <1>1, <2>2, <2>3, SetsNoNews, SameCtx, PutAwayUnread
  <2> QED
    BY <1>2, <2>3, <2>4, StoppedNews, UnnoticedNews
<1> QED
  BY <1>3, <1>4

LEMMA RequestNews ==
  ASSUME IndInv, IndInv', AnnounceInv,
         \/ GetAddrInfo \/ PushError \/ ResolveFailed \/ ClearPending \/ ReadForgets
         \/ \E c \in Contexts : AsyncResolved(c)
  PROVE  AnnounceInv'
<1>1. TypeOK /\ RunInv
  BY DEF IndInv
<1>2. ASSUME NEW c \in Contexts, AsyncResolved(c)
      PROVE  AnnounceInv'
  <2>1. Stopped \/ (ctx' = ctx /\ jobs' = jobs /\ sock' = sock /\ Unnoticed)
    BY <1>2 DEF AsyncResolved, Touch, Undefined, Stopped, Unnoticed, queues, game
  <2> QED
    BY <2>1, SameCtx, StoppedNews, UnnoticedNews
<1>3. CASE GetAddrInfo \/ PushError \/ ResolveFailed \/ ClearPending \/ ReadForgets
  <2>1. PICK c \in Contexts : c = uv.c
    BY <1>1, <1>3, Running DEF GetAddrInfo, PushError, ResolveFailed, ClearPending, ReadForgets
  <2>2. Stopped \/ (jobs' = jobs /\ sock' = sock /\ Unnoticed /\ Sets(c))
    BY <1>3, <2>1 DEF GetAddrInfo, PushError, ResolveFailed, ClearPending, ReadForgets, Touch, Undefined, Stopped, Sets,
                      Unnoticed, queues, game
  <2>3. Stopped \/ (SameNews /\ NoneRead)
    BY <1>1, <2>2, SetsNoNews, SameCtx
  <2> QED
    BY <2>2, <2>3, StoppedNews, UnnoticedNews
<1> QED
  BY <1>2, <1>3

(* Steps that move a handle, but do not read it. *)
LEMMA HandleNews ==
  ASSUME IndInv, IndInv', AnnounceInv, NEW s \in Sockets,
         \/ ConnectDeleted(s) \/ ConnectFails(s) \/ ListenDeleted(s) \/ ListenFails(s) \/ ReadFails(s)
         \/ ReadDeleted(s) \/ FinishClose(s)
  PROVE  AnnounceInv'
<1>1. TypeOK
  BY DEF IndInv
<1> DEFINE c == sock[s].data
<1>2. ReadDeleted(s) => c \in Contexts
  BY UseIs DEF ReadDeleted
<1> HIDE DEF c
<1>3. Stopped \/ (jobs' = jobs /\ Unnoticed /\ PutAway(s) /\ (ctx' = ctx \/ (ReadDeleted(s) /\ Sets(c))))
  <2>1. CASE ConnectDeleted(s)
    BY <2>1 DEF ConnectDeleted, Touch, Closed, Undefined, Stopped, PutAway, Unnoticed, queues, game
  <2>2. CASE ConnectFails(s) \/ ReadFails(s)
    BY <2>2 DEF ConnectFails, ReadFails, Touch, Undefined, Stopped, PutAway, Unnoticed, queues, game
  <2>3. CASE ListenDeleted(s) \/ ListenFails(s)
    BY <2>3 DEF ListenDeleted, ListenFails, Touch, Closed, Undefined, Stopped, PutAway, Unnoticed, queues, game
  <2>4. CASE ReadDeleted(s)
    BY <2>4 DEF c, Sets, ReadDeleted, Touch, Closed, Undefined, Stopped, PutAway, Unnoticed, queues, game
  <2>5. CASE FinishClose(s)
    BY <2>5 DEF FinishClose, Touch, Undefined, Stopped, PutAway, Unnoticed, queues, game
  <2> QED
    BY <2>1, <2>2, <2>3, <2>4, <2>5
<1>4. Stopped \/ (SameNews /\ NoneRead)
  BY <1>1, <1>2, <1>3, SameCtx, SetsNoNews, PutAwayUnread
<1> QED
  BY <1>3, <1>4, StoppedNews, UnnoticedNews


LEMMA StartNews ==
  ASSUME IndInv, IndInv', AnnounceInv, SetSocket \/ StartListen \/ StartConnect
  PROVE  AnnounceInv'
<1>1. TypeOK /\ RunInv /\ SocketInv
  BY DEF IndInv
<1>2. PICK c \in Contexts : c = uv.c
  BY <1>1, Running DEF SetSocket, StartListen, StartConnect
<1>3. CASE SetSocket
  <2>1. Stopped \/ \E s \in Sockets : Unused(s) /\ sock' = Opened(s, c) /\ Sets(c) /\ jobs' = jobs /\ Unnoticed
    BY <1>2, <1>3 DEF SetSocket, Touch, Undefined, Stopped, Sets, Unnoticed, queues, game
  <2>2. ASSUME NEW s \in Sockets, Unused(s), sock' = Opened(s, c), Sets(c), jobs' = jobs, Unnoticed
        PROVE  AnnounceInv'
    <3>1. sock[s].use # "reading"
      BY <1>1, <2>2 DEF Unused, SocketInv
    <3>2. NoneRead /\ SameNews
      BY <1>1, <2>2, <3>1, OpenedUnread, SetsNoNews
    <3> QED
      BY <2>2, <3>2, UnnoticedNews
  <2> QED
    BY <2>1, <2>2, StoppedNews
<1>4. CASE StartListen \/ StartConnect
  <2>1. PICK s \in Sockets : ctx[c].socket = s
    BY <1>1, <1>2, <1>4 DEF StartListen, StartConnect, Starting, SocketInv
  <2>2. Stopped \/ (PutAway(s) /\ Sets(c) /\ jobs' = jobs /\ Unnoticed)
    <3>1. CASE StartListen
      BY <1>2, <2>1, <3>1 DEF StartListen, Touch, Closed, Undefined, Stopped, Sets, PutAway, Unnoticed, queues, game
    <3>2. CASE StartConnect
      BY <1>2, <2>1, <3>2 DEF StartConnect, Touch, Undefined, Stopped, Sets, PutAway, Unnoticed, queues, game
    <3> QED
      BY <1>4, <3>1, <3>2
  <2>3. Stopped \/ (NoneRead /\ SameNews)
    BY <1>1, <2>2, PutAwayUnread, SetsNoNews
  <2> QED
    BY <2>2, <2>3, StoppedNews, UnnoticedNews
<1> QED
  BY <1>3, <1>4

(* A context is created, and one is opened whose connections have all been announced. *)
LEMMA CreateNews ==
  ASSUME IndInv, IndInv', AnnounceInv, NEW c \in Contexts, Create(c)
  PROVE  AnnounceInv'
<1>1. TypeOK
  BY DEF IndInv
<1>2. ctx \in [Contexts -> CtxRecords]
  BY <1>1, TypeIs
<1>3. /\ ctx[c].life = "none" /\ ctx' = [ctx EXCEPT ![c] = NewContext]
      /\ jobs' = jobs /\ sock' = sock /\ Unnoticed
  BY DEF Create, Unnoticed, queues, game
<1>4. ~ ctx[c].announced
  BY <1>3 DEF AnnounceInv
<1>5. \A x \in Contexts : x # c => ctx'[x] = ctx[x]
  BY <1>2, <1>3
<1>6. ~ ctx'[c].announced /\ ~ ctx'[c].server
  BY <1>2, <1>3 DEF NewContext
<1>7. SameNews
  BY <1>3, <1>4, <1>5, <1>6 DEF SameNews, Waits
<1> QED
  BY <1>3, <1>7, SameCtx, UnnoticedNews

LEMMA OpenNews ==
  ASSUME IndInv, IndInv', AnnounceInv, Open
  PROVE  AnnounceInv'
<1>1. TypeOK /\ RunInv
  BY DEF IndInv
<1>2. PICK c \in Contexts : c = native.c
  BY <1>1, Running DEF Open
<1>3. ctx \in [Contexts -> CtxRecords]
  BY <1>1, TypeIs
<1>4. Unnoticed /\ sock' = sock
  BY DEF Open, Unnoticed, queues
<1>5. CASE ctx[c].pending
  <2>1. ctx' = ctx /\ jobs' = jobs
    BY <1>2, <1>5 DEF Open
  <2> QED
    BY <1>4, <2>1, SameCtx, UnnoticedNews
<1>6. CASE ~ ctx[c].pending
  <2>1. /\ ctx' = [ctx EXCEPT ![c].server = (native.fn = "Listen"), ![c].pending = TRUE]
        /\ jobs' = Append(jobs, Job("UV_OnAsyncResolve", c))
        /\ hasty' = IF InFlight(c) THEN hasty \cup {"connect"} ELSE hasty
    BY <1>2, <1>6 DEF Open
  <2>2. "connect" \notin hasty' => ~ Waits(c)
    BY <2>1 DEF Waits, InFlight
  <2>3. \A x \in Contexts : x # c => ctx'[x] = ctx[x]
    BY <1>3, <2>1
  <2>4. ctx'[c].announced = ctx[c].announced /\ ctx'[c].life = ctx[c].life
    BY <1>3, <2>1 DEF CtxRecords
  <2>5. SameNews
    BY <2>2, <2>3, <2>4 DEF SameNews, Waits
  <2>6. Job("UV_OnAsyncResolve", c) \in Jobs /\ Job("UV_OnAsyncResolve", c).fn # "UV_StartRead"
    BY JobIs DEF JobFns
  <2> QED
    BY <1>4, <2>1, <2>5, <2>6, SameCtx, UnnoticedNews
<1> QED
  BY <1>5, <1>6

(* The extension is unloaded. *)
LEMMA EndNews ==
  ASSUME IndInv, IndInv', AnnounceInv, Unload \/ UnloadStep
  PROVE  AnnounceInv'
<1>1. TypeOK
  BY DEF IndInv
<1>2. ctx \in [Contexts -> CtxRecords] /\ sock \in [Sockets -> SockRecords]
  BY <1>1, TypeIs
<1>3. CASE Unload
  <2>1. /\ ctx' = [x \in Contexts |-> IF Valid(x) THEN [ctx[x] EXCEPT !.deleted = TRUE, !.life = "freed"] ELSE ctx[x]]
        /\ jobs' = Append(jobs, Job("UV_Quit", NONE)) /\ sock' = sock /\ Unnoticed
    BY <1>3 DEF Unload, Unnoticed, queues, game
  <2>2. ASSUME NEW x \in Contexts
        PROVE  ctx'[x].announced = ctx[x].announced /\ ctx'[x].server = ctx[x].server /\ ctx'[x].life \in {ctx[x].life, "freed"}
    <3>1. ctx'[x] = IF Valid(x) THEN [ctx[x] EXCEPT !.deleted = TRUE, !.life = "freed"] ELSE ctx[x]
      BY <2>1
    <3> QED
      BY <1>2, <3>1 DEF CtxRecords
  <2>3. SameNews
    BY <2>2 DEF SameNews, Waits
  <2>4. Job("UV_Quit", NONE) \in Jobs /\ Job("UV_Quit", NONE).fn # "UV_StartRead"
    BY JobIs
  <2> QED
    BY <2>1, <2>3, <2>4, SameCtx, UnnoticedNews
<1>4. CASE WalkHandles
  <2>1. /\ sock' = [s \in Sockets |-> IF sock[s].state = "open" THEN [sock[s] EXCEPT !.state = "closing"] ELSE sock[s]]
        /\ ctx' = ctx /\ jobs' = jobs /\ Unnoticed
    BY <1>4 DEF WalkHandles, Unnoticed, queues, game
  <2>2. ASSUME NEW s \in Sockets
        PROVE  sock'[s].state # "open"
    <3>1. sock'[s] = IF sock[s].state = "open" THEN [sock[s] EXCEPT !.state = "closing"] ELSE sock[s]
      BY <2>1
    <3> QED
      BY <1>2, <3>1 DEF SockRecords
  <2>3. NoneRead
    BY <2>2 DEF NoneRead, Read
  <2> QED
    BY <2>1, <2>3, SameCtx, UnnoticedNews
<1>5. CASE JoinLoop \/ Unloaded
  <2>1. ctx' = ctx /\ sock' = sock /\ jobs' = jobs /\ Unnoticed
    BY <1>5 DEF JoinLoop, Unloaded, Unnoticed, queues, game
  <2> QED
    BY <2>1, SameCtx, UnnoticedNews
<1> QED
  BY <1>3, <1>4, <1>5 DEF UnloadStep


(* OnGameFrame goes from loop to loop: it leaves the connect loop with an empty queue. *)
LEMMA LoopNews ==
  ASSUME IndInv, IndInv', AnnounceInv, BeginFrame \/ EndConnects \/ EndData \/ EndFrame \/ Return
  PROVE  AnnounceInv'
<1>1. RunInv
  BY DEF IndInv
<1>2. /\ ctx' = ctx /\ sock' = sock /\ jobs' = jobs /\ connectQueue' = connectQueue /\ dataQueue' = dataQueue /\ hasty' = hasty
      /\ phase' \in {phase, "none", "connect", "error"} \/ connectQueue = <<>>
  BY DEF BeginFrame, EndConnects, EndData, EndFrame, Return, queues
<1>3. call' = NoCall
  BY <1>1 DEF BeginFrame, EndConnects, EndData, EndFrame, Return, InPhase, RunInv
<1>4. call'.fn = "none" /\ call'.new = NONE
  BY <1>3 DEF NoCall
<1>5. SameNews /\ NoneRead /\ NoStart
  BY <1>2, SameCtx
<1> QED
  BY <1>2, <1>4, <1>5, AnnounceStays

(* The callback that announced an accepted connection returns: it is read from now on. *)
LEMMA ReturnOnConnectNews ==
  ASSUME IndInv, IndInv', AnnounceInv, ReturnOnConnect
  PROVE  AnnounceInv'
<1>1. TypeOK /\ RunInv
  BY DEF IndInv
<1>2. PICK s \in Sockets : s = call.new
  BY <1>1 DEF ReturnOnConnect, RunInv, NoCall
<1>3. ctx[s].announced /\ s \in Contexts
  BY <1>2, Names DEF AnnounceInv
<1>4. \/ Stopped
      \/ /\ jobs' = jobs \/ jobs' = Append(jobs, Job("UV_StartRead", s))
         /\ call' = NoCall /\ ctx' = ctx /\ sock' = sock /\ connectQueue' = connectQueue /\ dataQueue' = dataQueue
         /\ phase' = phase /\ hasty' = hasty
  BY <1>2 DEF ReturnOnConnect, Touch, Undefined, Stopped, queues
<1>5. CASE /\ jobs' = jobs \/ jobs' = Append(jobs, Job("UV_StartRead", s))
           /\ call' = NoCall /\ ctx' = ctx /\ sock' = sock /\ connectQueue' = connectQueue /\ dataQueue' = dataQueue
           /\ phase' = phase /\ hasty' = hasty
  <2>1. Job("UV_StartRead", s) \in Jobs /\ Job("UV_StartRead", s).c = s
    BY <1>3, JobIs DEF JobFns
  <2>2. \A i \in DOMAIN jobs' : jobs'[i].fn = "UV_StartRead" => (\E j \in DOMAIN jobs : jobs'[i] = jobs[j]) \/ ctx'[jobs'[i].c].announced
    <3>1. CASE jobs' = jobs
      BY <3>1
    <3>2. CASE jobs' = Append(jobs, Job("UV_StartRead", s))
      <4>1. \A i \in DOMAIN jobs' : jobs'[i] = Job("UV_StartRead", s) \/ (i \in DOMAIN jobs /\ jobs'[i] = jobs[i])
        BY <1>1, <2>1, <3>2, Appended
      <4> QED
        BY <1>3, <1>5, <2>1, <4>1
    <3> QED
      BY <1>5, <3>1, <3>2
  <2>3. call'.fn = "none" /\ call'.new = NONE
    BY <1>5 DEF NoCall
  <2>4. /\ phase' = "data" => \A i \in DOMAIN connectQueue' : connectQueue'[i].late
        /\ \A x \in Contexts : /\ ctx[x].announced => ctx'[x].announced
                               /\ ctx'[x].life = "none" => ~ ctx'[x].announced
    BY <1>5 DEF AnnounceInv
  <2>5. \A x \in Contexts : Heard(x)' <=> Heard(x)
    BY <1>5 DEF Heard, Waits
  <2>6. \A s_1 \in Sockets : Read(s_1)' <=> Read(s_1)
    BY <1>5 DEF Read
  <2> QED
    BY <1>5, <2>2, <2>3, <2>4, <2>5, <2>6, AnnounceKept
<1> QED
  BY <1>4, <1>5, StoppedNews

(* A job starts to read what has been announced. *)
LEMMA StartReadNews ==
  ASSUME IndInv, IndInv', AnnounceInv, StartRead
  PROVE  AnnounceInv'
<1>1. TypeOK /\ ("connect" \notin hasty => OrderInv)
  BY DEF IndInv
<1>2. PICK c \in Contexts : c = Head(jobs).c /\ jobs # <<>> /\ jobs[1].c = c /\ jobs[1].fn = "UV_StartRead" /\ 1 \in DOMAIN jobs
  BY <1>1, NextIs, JobIs DEF StartRead, JobFns
<1>3. ctx[c].announced
  BY <1>2 DEF AnnounceInv
<1>4. sock \in [Sockets -> SockRecords] /\ ctx[c].stream \in Sockets \cup {NONE}
  BY <1>1, TypeIs DEF CtxRecords
<1>5. \/ Stopped
      \/ /\ jobs' = Tail(jobs) /\ ctx' = ctx /\ Unnoticed
         /\ \/ sock' = sock
            \/ \E s \in Sockets : ctx[c].stream = s /\ sock' = [sock EXCEPT ![s].use = IF sock[s].state = "open" THEN "reading" ELSE @]
  BY <1>2, <1>4 DEF StartRead, Touch, TouchHandle, Undefined, Stopped, Unnoticed, queues, game
<1>6. CASE sock' = sock /\ jobs' = Tail(jobs) /\ ctx' = ctx /\ Unnoticed
  BY <1>2, <1>6, SameCtx, UnnoticedNews
<1>7. ASSUME NEW s \in Sockets, ctx[c].stream = s, jobs' = Tail(jobs), ctx' = ctx, Unnoticed,
             sock' = [sock EXCEPT ![s].use = IF sock[s].state = "open" THEN "reading" ELSE @]
      PROVE  AnnounceInv'
  <2>1. connectQueue' = connectQueue /\ dataQueue' = dataQueue /\ phase' = phase /\ call' = call /\ hasty \subseteq hasty'
    BY <1>7 DEF Unnoticed
  <2>2. \A t \in Sockets : t # s => sock'[t] = sock[t]
    BY <1>4, <1>7
  <2>3. sock'[s].data = sock[s].data
    BY <1>4, <1>7 DEF SockRecords
  <2>4. "connect" \notin hasty' => sock[s].data = c
    BY <1>1, <1>7, <2>1 DEF OrderInv
  <2>5. \A x \in Contexts : Heard(x)' <=> Heard(x)
    BY <1>7, <2>1 DEF Heard, Waits
  <2>6. "connect" \notin hasty' => \A x \in Contexts : \A t \in Sockets :
          Read(t)' /\ sock'[t].data = x => (Read(t) /\ sock[t].data = x) \/ Heard(x)'
    <3>1. Heard(c)'
      BY <1>3, <1>7 DEF Heard
    <3> QED
      BY <2>2, <2>3, <2>4, <3>1 DEF Read
  <2>7. NoStart
    BY <1>1, <1>2, <1>7, NoStarts
  <2>8. \A i \in DOMAIN jobs' : jobs'[i].fn = "UV_StartRead" => \E j \in DOMAIN jobs : jobs'[i] = jobs[j]
    BY <2>7 DEF NoStart
  <2>9. /\ phase' = "data" => \A i \in DOMAIN connectQueue' : connectQueue'[i].late
        /\ \A x \in Contexts : /\ ctx[x].announced => ctx'[x].announced
                               /\ ctx'[x].life = "none" => ~ ctx'[x].announced
    BY <1>7, <2>1 DEF AnnounceInv
  <2> QED
    BY <2>1, <2>5, <2>6, <2>8, <2>9, AnnounceKept
<1> QED
  BY <1>5, <1>6, <1>7, StoppedNews


(* What connectQueue holds after a connection is queued, and after one is taken. *)
LEMMA QueuedConnection ==
  ASSUME TypeOK, NEW c \in Contexts, NEW s \in Sockets, connectQueue' = Append(connectQueue, Connect(c, s))
  PROVE  /\ \A i \in DOMAIN connectQueue : i \in DOMAIN connectQueue' /\ connectQueue'[i] = connectQueue[i]
         /\ \A i \in DOMAIN connectQueue' : connectQueue'[i] = Connect(c, s) \/ (i \in DOMAIN connectQueue /\ connectQueue'[i] = connectQueue[i])
         /\ \E i \in DOMAIN connectQueue' : connectQueue'[i] = Connect(c, s)
         /\ Connect(c, s).c = c /\ Connect(c, s).s = s /\ (phase = "data" => Connect(c, s).late)
<1>1. connectQueue \in Seq(Connects_)
  BY TypeIs
<1>2. Connect(c, s) \in Connects_ /\ Connect(c, s).c = c /\ Connect(c, s).s = s /\ (phase = "data" => Connect(c, s).late)
  BY DEF Connect, Connects_
<1> HIDE DEF Connect
<1>3. /\ Len(connectQueue) + 1 \in DOMAIN connectQueue' /\ connectQueue'[Len(connectQueue) + 1] = Connect(c, s)
      /\ \A i \in DOMAIN connectQueue : i \in DOMAIN connectQueue' /\ connectQueue'[i] = connectQueue[i]
      /\ \A i \in DOMAIN connectQueue' : i = Len(connectQueue) + 1 \/ (i \in DOMAIN connectQueue /\ connectQueue'[i] = connectQueue[i])
  BY <1>1, <1>2, Pushed
<1> QED
  BY <1>2, <1>3

(* A connection is queued for the context c, which keeps its other fields. *)
LEMMA QueuedNews ==
  ASSUME IndInv, IndInv', AnnounceInv, NEW c \in Contexts, NEW s \in Sockets, connectQueue' = Append(connectQueue, Connect(c, s)),
         Sets(c), jobs' = jobs, dataQueue' = dataQueue, phase' = phase, call' = call, hasty' = hasty,
         "connect" \notin hasty => \A x \in Contexts : \A t \in Sockets :
           Read(t)' /\ sock'[t].data = x => (Read(t) /\ sock[t].data = x) \/ (x = c /\ ~ ctx[c].server)
  PROVE  AnnounceInv'
<1>1. TypeOK
  BY DEF IndInv
<1>2. /\ \A i \in DOMAIN connectQueue : i \in DOMAIN connectQueue' /\ connectQueue'[i] = connectQueue[i]
      /\ \A i \in DOMAIN connectQueue' : connectQueue'[i] = Connect(c, s) \/ (i \in DOMAIN connectQueue /\ connectQueue'[i] = connectQueue[i])
      /\ \E i \in DOMAIN connectQueue' : connectQueue'[i] = Connect(c, s)
      /\ Connect(c, s).c = c /\ (phase = "data" => Connect(c, s).late)
  BY <1>1, QueuedConnection
<1>3. \A x \in Contexts : /\ ctx'[x].announced = ctx[x].announced /\ ctx'[x].server = ctx[x].server
                          /\ ctx'[x].life \in {ctx[x].life, "freed"}
  <2>1. ctx \in [Contexts -> CtxRecords]
    BY <1>1, TypeIs
  <2>2. \A x \in Contexts : x # c => ctx'[x] = ctx[x]
    BY <2>1 DEF Sets
  <2>3. ctx'[c].announced = ctx[c].announced /\ ctx'[c].server = ctx[c].server /\ ctx'[c].life \in {ctx[c].life, "freed"}
    BY <2>1 DEF CtxRecords, Sets
  <2> QED
    BY <2>2, <2>3
<1>4. \A x \in Contexts : Heard(x) => Heard(x)'
  BY <1>2, <1>3 DEF Heard, Waits
<1>5. ~ ctx[c].server => Heard(c)'
  BY <1>2, <1>3 DEF Heard, Waits
<1>6. phase' = "data" => \A i \in DOMAIN connectQueue' : connectQueue'[i].late
  BY <1>2 DEF AnnounceInv
<1>7. \A x \in Contexts : /\ ctx[x].announced => ctx'[x].announced
                          /\ ctx'[x].life = "none" => ~ ctx'[x].announced
  BY <1>3 DEF AnnounceInv
<1>8. "connect" \notin hasty' => \A x \in Contexts :
        /\ Heard(x) => Heard(x)'
        /\ \A i \in DOMAIN dataQueue' : dataQueue'[i] = x => (\E j \in DOMAIN dataQueue : dataQueue[j] = x) \/ Heard(x)'
        /\ \A t \in Sockets : Read(t)' /\ sock'[t].data = x => (Read(t) /\ sock[t].data = x) \/ Heard(x)'
  BY <1>4, <1>5
<1> QED
  BY <1>6, <1>7, <1>8, AnnounceKept

(* A client has connected, and is read at once. *)
LEMMA ConnectsNews ==
  ASSUME IndInv, IndInv', AnnounceInv, NEW s \in Sockets, Connects(s)
  PROVE  AnnounceInv'
<1>1. TypeOK /\ ("connect" \notin hasty => OrderInv)
  BY DEF IndInv
<1>2. PICK c \in Contexts : c = sock[s].data /\ sock[s].state = "open" /\ sock[s].use = "connecting"
  BY UseIs DEF Connects
<1>3. sock \in [Sockets -> SockRecords]
  BY <1>1, TypeIs
<1>4. \/ Stopped
      \/ /\ Sets(c) /\ connectQueue' = Append(connectQueue, Connect(c, s)) /\ sock' = [sock EXCEPT ![s].use = "reading"]
         /\ jobs' = jobs /\ dataQueue' = dataQueue /\ phase' = phase /\ call' = call /\ hasty' = hasty
  BY <1>2 DEF Connects, Touch, Undefined, Stopped, Sets, queues, game
<1>5. ASSUME Sets(c), connectQueue' = Append(connectQueue, Connect(c, s)), sock' = [sock EXCEPT ![s].use = "reading"],
             jobs' = jobs, dataQueue' = dataQueue, phase' = phase, call' = call, hasty' = hasty
      PROVE  AnnounceInv'
  <2>1. \A t \in Sockets : t # s => sock'[t] = sock[t]
    BY <1>3, <1>5
  <2>2. sock'[s].data = c
    BY <1>2, <1>3, <1>5 DEF SockRecords
  <2>3. "connect" \notin hasty => ~ ctx[c].server
    BY <1>1, <1>2 DEF OrderInv
  <2>4. "connect" \notin hasty => \A x \in Contexts : \A t \in Sockets :
          Read(t)' /\ sock'[t].data = x => (Read(t) /\ sock[t].data = x) \/ (x = c /\ ~ ctx[c].server)
    BY <2>1, <2>2, <2>3 DEF Read
  <2> QED
    BY <1>5, <2>4, QueuedNews
<1> QED
  BY <1>4, <1>5, StoppedNews

(* A connection is accepted: nobody reads it yet. *)
LEMMA NewConnectionNews ==
  ASSUME IndInv, IndInv', AnnounceInv, NEW s \in Sockets, NewConnection(s)
  PROVE  AnnounceInv'
<1>1. TypeOK /\ SocketInv
  BY DEF IndInv
<1>2. PICK c \in Contexts : c = sock[s].data
  BY UseIs DEF NewConnection
<1>3. \/ Stopped
      \/ \E client \in Sockets :
           /\ Unused(client) /\ jobs' = jobs /\ dataQueue' = dataQueue /\ phase' = phase /\ call' = call /\ hasty' = hasty
           /\ \/ Sets(c) /\ connectQueue' = Append(connectQueue, Connect(c, client)) /\ sock' = Opened(client, NONE)
              \/ PutAway(client) /\ ctx' = ctx /\ connectQueue' = connectQueue
  BY <1>2 DEF NewConnection, Touch, Undefined, Stopped, Sets, PutAway, queues, game
<1>4. ASSUME NEW client \in Sockets, Unused(client), jobs' = jobs, dataQueue' = dataQueue, phase' = phase, call' = call, hasty' = hasty,
             Sets(c), connectQueue' = Append(connectQueue, Connect(c, client)), sock' = Opened(client, NONE)
      PROVE  AnnounceInv'
  <2>1. sock[client].use # "reading"
    BY <1>1, <1>4 DEF Unused, SocketInv
  <2>2. NoneRead
    BY <1>1, <1>4, <2>1, OpenedUnread
  <2>3. \A x \in Contexts : \A t \in Sockets : Read(t)' /\ sock'[t].data = x => Read(t) /\ sock[t].data = x
    BY <2>2 DEF NoneRead
  <2> QED
    BY <1>4, <2>3, QueuedNews
<1>5. ASSUME NEW client \in Sockets, jobs' = jobs, dataQueue' = dataQueue, phase' = phase, call' = call, hasty' = hasty,
             PutAway(client), ctx' = ctx, connectQueue' = connectQueue
      PROVE  AnnounceInv'
  <2>1. NoneRead /\ SameNews /\ Unnoticed
    BY <1>1, <1>5, PutAwayUnread, SameCtx DEF Unnoticed
  <2> QED
    BY <1>5, <2>1, UnnoticedNews
<1> QED
  BY <1>3, <1>4, <1>5, StoppedNews

(* Data is read from a connection that was announced or waits for it. *)
LEMMA ReadsNews ==
  ASSUME IndInv, IndInv', AnnounceInv, NEW s \in Sockets, Reads(s)
  PROVE  AnnounceInv'
<1>1. TypeOK
  BY DEF IndInv
<1>2. PICK c \in Contexts : c = sock[s].data /\ Read(s)
  BY UseIs DEF Reads, Read
<1>3. sock \in [Sockets -> SockRecords] /\ dataQueue \in Seq(Contexts)
  BY <1>1, TypeIs
<1>4. \/ Stopped
      \/ /\ Sets(c) /\ dataQueue' = Append(dataQueue, c) /\ sock' = [sock EXCEPT ![s].reads = @ + 1]
         /\ jobs' = jobs /\ connectQueue' = connectQueue /\ phase' = phase /\ call' = call /\ hasty' = hasty
  BY <1>2 DEF Reads, Touch, Undefined, Stopped, Sets, queues, game
<1>5. ASSUME Sets(c), dataQueue' = Append(dataQueue, c), sock' = [sock EXCEPT ![s].reads = @ + 1],
             jobs' = jobs, connectQueue' = connectQueue, phase' = phase, call' = call, hasty' = hasty
      PROVE  AnnounceInv'
  <2>1. SameNews
    BY <1>1, <1>5, SetsNoNews
  <2>2. \A i \in DOMAIN dataQueue' : dataQueue'[i] = c \/ (i \in DOMAIN dataQueue /\ dataQueue'[i] = dataQueue[i])
    BY <1>3, <1>5, Pushed
  <2>3. \A t \in Sockets : t # s => sock'[t] = sock[t]
    BY <1>3, <1>5
  <2>4. sock'[s].data = sock[s].data
    BY <1>3, <1>5 DEF SockRecords
  <2>5. \A x \in Contexts : \A t \in Sockets : Read(t)' /\ sock'[t].data = x => Read(t) /\ sock[t].data = x
    BY <1>2, <2>3, <2>4 DEF Read
  <2>6. "connect" \notin hasty => \A x \in Contexts : Heard(x) => Heard(x)'
    BY <1>5, <2>1 DEF SameNews, Heard, Waits
  <2>7. "connect" \notin hasty => Heard(c)
    BY <1>2 DEF AnnounceInv, AnnouncedFirst, Read
  <2>8. "connect" \notin hasty' => \A x \in Contexts :
          /\ Heard(x) => Heard(x)'
          /\ \A i \in DOMAIN dataQueue' : dataQueue'[i] = x => (\E j \in DOMAIN dataQueue : dataQueue[j] = x) \/ Heard(x)'
          /\ \A t \in Sockets : Read(t)' /\ sock'[t].data = x => (Read(t) /\ sock[t].data = x) \/ Heard(x)'
    BY <1>5, <2>2, <2>5, <2>6, <2>7
  <2>9. /\ phase' = "data" => \A i \in DOMAIN connectQueue' : connectQueue'[i].late
        /\ \A x \in Contexts : /\ ctx[x].announced => ctx'[x].announced
                               /\ ctx'[x].life = "none" => ~ ctx'[x].announced
    BY <1>5, <2>1 DEF AnnounceInv, SameNews
  <2> QED
    BY <1>5, <2>8, <2>9, AnnounceKept
<1> QED
  BY <1>4, <1>5, StoppedNews


(* OnGameFrame delivers what is queued: an announcement reaches the plugin at last. *)
LEMMA DeliveredNews ==
  ASSUME IndInv, IndInv', AnnounceInv, NEW fn \in {"Connected", "OnData", "OnError"}, NEW c \in Contexts, Callback(fn, c),
         fn = "Connected" => phase = "connect", fn = "OnData" => phase = "data" /\ ("connect" \notin hasty => Heard(c)),
         Remains(connectQueue', connectQueue), Remains(dataQueue', dataQueue), ctx[c].life # "none",
         \A i \in DOMAIN connectQueue :
           (\E j \in DOMAIN connectQueue' : connectQueue'[j] = connectQueue[i]) \/ (connectQueue[i].c = c /\ fn = "Connected")
  PROVE  AnnounceInv'
<1>1. TypeOK
  BY DEF IndInv
<1>2. /\ call' = [fn |-> fn, c |-> c, new |-> NONE] /\ sock' = sock /\ jobs' = jobs /\ phase' = phase /\ hasty' = hasty
      /\ call'.fn = fn /\ call'.c = c /\ call'.new = NONE
  BY DEF Callback
<1>3. \A x \in Contexts : /\ ctx'[x].life = ctx[x].life /\ (ctx'[x].server <=> ctx[x].server)
                          /\ ctx'[x].announced <=> ctx[x].announced \/ (x = c /\ fn = "Connected")
  BY <1>1, CalledBack DEF Same
<1>4. \A x \in Contexts : Heard(x) => Heard(x)'
  <2> SUFFICES ASSUME NEW x \in Contexts, Heard(x), ~ ctx'[x].announced
               PROVE  Waits(x)'
    BY DEF Heard
  <2>1. PICK i \in DOMAIN connectQueue : connectQueue[i].c = x /\ ~ ctx[x].server
    BY <1>3 DEF Heard, Waits
  <2>2. PICK j \in DOMAIN connectQueue' : connectQueue'[j] = connectQueue[i]
    BY <1>3, <2>1
  <2> QED
    BY <1>3, <2>1, <2>2 DEF Waits
<1>5. phase' = "data" => \A i \in DOMAIN connectQueue' : connectQueue'[i].late
  BY <1>2 DEF AnnounceInv, Remains
<1>6. \A x \in Contexts : /\ ctx[x].announced => ctx'[x].announced
                          /\ ctx'[x].life = "none" => ~ ctx'[x].announced
  BY <1>3 DEF AnnounceInv
<1>7. \A x \in Contexts : \A i \in DOMAIN dataQueue' : dataQueue'[i] = x => \E j \in DOMAIN dataQueue : dataQueue[j] = x
  BY DEF Remains
<1>8. \A t \in Sockets : Read(t)' <=> Read(t)
  BY <1>2 DEF Read
<1>9. \/ call'.fn \notin {"OnConnect", "Connected", "OnData"} /\ call'.new = NONE
      \/ call'.fn \in {"OnConnect", "Connected"} /\ phase' = "connect" /\ \A s \in Sockets : call'.new = s => ctx'[s].announced
      \/ call'.fn = "OnData" /\ phase' = "data" /\ call'.c \in Contexts /\ call'.new = NONE
         /\ ("connect" \notin hasty' => \A x \in Contexts : call'.c = x => Heard(x)')
  BY <1>2, <1>4, Names
<1> QED
  BY <1>2, <1>4, <1>5, <1>6, <1>7, <1>8, <1>9, AnnounceKept

LEMMA EventNews ==
  ASSUME IndInv, IndInv', AnnounceInv, Connected \/ OnData \/ OnError
  PROVE  AnnounceInv'
<1>1. TypeOK
  BY DEF IndInv
<1>2. connectQueue \in Seq(Connects_) /\ dataQueue \in Seq(Contexts) /\ errorQueue \in Seq(Contexts)
  BY <1>1, TypeIs
<1>3. Remains(connectQueue, connectQueue) /\ Remains(dataQueue, dataQueue)
  BY <1>2, RemainsIs
<1>4. CASE Connected
  <2>1. connectQueue # <<>> /\ phase = "connect"
    BY <1>4 DEF Connected, InPhase
  <2>2. /\ Head(connectQueue) = connectQueue[1] /\ 1 \in DOMAIN connectQueue
        /\ \A i \in DOMAIN connectQueue : i = 1 \/ (i - 1 \in DOMAIN Tail(connectQueue) /\ Tail(connectQueue)[i - 1] = connectQueue[i])
    BY <1>2, <2>1, Popped
  <2>3. PICK c \in Contexts : c = Head(connectQueue).c
    BY <1>1, <2>2, Elements
  <2>4. Stopped \/ (ctx[c].life = "live" /\ connectQueue' = Tail(connectQueue) /\ dataQueue' = dataQueue /\ Callback("Connected", c))
    BY <1>4, <2>3 DEF Connected, Touch, Undefined, Stopped, queues
  <2>5. CASE ctx[c].life = "live" /\ connectQueue' = Tail(connectQueue) /\ dataQueue' = dataQueue /\ Callback("Connected", c)
    <3>1. Remains(connectQueue', connectQueue)
      BY <1>2, <2>1, <2>5, RemainsIs
    <3>2. \A i \in DOMAIN connectQueue : (\E j \in DOMAIN connectQueue' : connectQueue'[j] = connectQueue[i]) \/ connectQueue[i].c = c
      BY <2>2, <2>3, <2>5
    <3> QED
      BY <1>3, <2>1, <2>5, <3>1, <3>2, DeliveredNews
  <2> QED
    BY <2>4, <2>5, StoppedNews
<1>5. CASE OnData
  <2>1. dataQueue # <<>> /\ phase = "data"
    BY <1>5 DEF OnData, InPhase
  <2>2. Head(dataQueue) = dataQueue[1] /\ 1 \in DOMAIN dataQueue
    BY <1>2, <2>1, Popped
  <2>3. PICK c \in Contexts : c = Head(dataQueue)
    BY <1>1, <2>2, Elements
  <2>4. Stopped \/ (ctx[c].life = "live" /\ dataQueue' = Tail(dataQueue) /\ connectQueue' = connectQueue /\ Callback("OnData", c))
    BY <1>5, <2>3 DEF OnData, Touch, Undefined, Stopped, queues
  <2>5. CASE ctx[c].life = "live" /\ dataQueue' = Tail(dataQueue) /\ connectQueue' = connectQueue /\ Callback("OnData", c)
    <3>1. Remains(dataQueue', dataQueue)
      BY <1>2, <2>1, <2>5, RemainsIs
    <3>2. "connect" \notin hasty => Heard(c)
      BY <2>2, <2>3 DEF AnnounceInv, AnnouncedFirst
    <3> QED
      BY <1>3, <2>1, <2>5, <3>1, <3>2, DeliveredNews
  <2> QED
    BY <2>4, <2>5, StoppedNews
<1>6. CASE OnError
  <2>1. errorQueue # <<>>
    BY <1>6 DEF OnError
  <2>2. Head(errorQueue) \in Contexts
    BY <1>2, <2>1, Popped
  <2>3. PICK c \in Contexts : c = Head(errorQueue)
    BY <2>2
  <2>4. Stopped \/ (ctx[c].life = "live" /\ dataQueue' = dataQueue /\ connectQueue' = connectQueue /\ Callback("OnError", c))
    BY <1>6, <2>3 DEF OnError, Touch, Undefined, Stopped, queues
  <2>5. CASE ctx[c].life = "live" /\ dataQueue' = dataQueue /\ connectQueue' = connectQueue /\ Callback("OnError", c)
    BY <1>3, <2>5, DeliveredNews
  <2> QED
    BY <2>4, <2>5, StoppedNews
<1> QED
  BY <1>4, <1>5, <1>6

(* OnGameFrame makes the context of an accepted connection, and announces it. *)
LEMMA AcceptedNews ==
  ASSUME IndInv, IndInv', AnnounceInv, Accepted
  PROVE  AnnounceInv'
<1>1. TypeOK /\ SocketInv
  BY DEF IndInv
<1>2. ctx \in [Contexts -> CtxRecords] /\ sock \in [Sockets -> SockRecords] /\ connectQueue \in Seq(Connects_)
  BY <1>1, TypeIs
<1>3. connectQueue # <<>> /\ phase = "connect"
  BY DEF Accepted, InPhase
<1>4. /\ Head(connectQueue) = connectQueue[1] /\ 1 \in DOMAIN connectQueue
      /\ \A i \in DOMAIN connectQueue : i = 1 \/ (i - 1 \in DOMAIN Tail(connectQueue) /\ Tail(connectQueue)[i - 1] = connectQueue[i])
  BY <1>2, <1>3, Popped
<1>5. PICK c \in Contexts : c = Head(connectQueue).c
  BY <1>1, <1>4, Elements
<1>6. PICK s \in Sockets : s = Head(connectQueue).s /\ s \in Contexts /\ ctx[s].life = "none"
  BY <1>1, <1>4, Elements, Names DEF SocketInv
<1>7. \/ Stopped
      \/ /\ ctx[c].life = "live" /\ ctx[c].server
         /\ ctx' = [ctx EXCEPT ![s] = [NewContext EXCEPT !.stream = s, !.announced = TRUE], ![c].pendingCallback = FALSE]
         /\ sock' = [sock EXCEPT ![s].data = s] /\ call' = [fn |-> "OnConnect", c |-> c, new |-> s]
         /\ connectQueue' = Tail(connectQueue) /\ jobs' = jobs /\ dataQueue' = dataQueue /\ phase' = phase /\ hasty' = hasty
  BY <1>5, <1>6 DEF Accepted, Touch, TouchHandle, Undefined, Stopped, queues
<1>8. ASSUME ctx[c].life = "live", ctx[c].server,
             ctx' = [ctx EXCEPT ![s] = [NewContext EXCEPT !.stream = s, !.announced = TRUE], ![c].pendingCallback = FALSE],
             sock' = [sock EXCEPT ![s].data = s], call' = [fn |-> "OnConnect", c |-> c, new |-> s],
             connectQueue' = Tail(connectQueue), jobs' = jobs, dataQueue' = dataQueue, phase' = phase, hasty' = hasty
      PROVE  AnnounceInv'
  <2>1. s # c
    BY <1>6, <1>8
  <2>2. /\ ctx'[s].announced /\ ~ ctx'[s].server /\ ctx'[s].life = "live"
        /\ ctx'[c].announced = ctx[c].announced /\ ctx'[c].server = ctx[c].server /\ ctx'[c].life = ctx[c].life
        /\ \A x \in Contexts : x # s /\ x # c => ctx'[x] = ctx[x]
    <3> DEFINE new == [NewContext EXCEPT !.stream = s, !.announced = TRUE]
               old == [ctx[c] EXCEPT !.pendingCallback = FALSE]
    <3>1. new.announced /\ ~ new.server /\ new.life = "live"
      BY DEF NewContext
    <3>2. old.announced = ctx[c].announced /\ old.server = ctx[c].server /\ old.life = ctx[c].life
      BY <1>2 DEF CtxRecords
    <3>3. ctx' = [[ctx EXCEPT ![s] = new] EXCEPT ![c] = old]
      BY <1>2, <1>6, <1>8, <2>1
    <3> HIDE DEF new, old
    <3> QED
      BY <1>2, <1>6, <2>1, <3>1, <3>2, <3>3
  <2>3. \A x \in Contexts : Heard(x) => Heard(x)'
    <3> SUFFICES ASSUME NEW x \in Contexts, Heard(x), ~ ctx'[x].announced
                 PROVE  Waits(x)'
      BY DEF Heard
    <3>1. x # s /\ ~ ctx[x].announced
      BY <2>2
    <3>2. PICK i \in DOMAIN connectQueue : connectQueue[i].c = x /\ ~ ctx[x].server
      BY <3>1 DEF Heard, Waits
    <3>3. i # 1
      BY <1>4, <1>5, <1>8, <3>2
    <3>4. i - 1 \in DOMAIN connectQueue' /\ connectQueue'[i - 1].c = x
      BY <1>4, <1>8, <3>2, <3>3
    <3>5. ~ ctx'[x].server
      BY <2>2, <3>1, <3>2
    <3> QED
      BY <3>4, <3>5 DEF Waits
  <2>4. \A x \in Contexts : /\ ctx[x].announced => ctx'[x].announced
                            /\ ctx'[x].life = "none" => ~ ctx'[x].announced
    BY <1>6, <2>2 DEF AnnounceInv
  <2>5. \A t \in Sockets : t # s => sock'[t] = sock[t]
    BY <1>2, <1>8
  <2>6. sock'[s].data = s /\ Heard(s)'
    BY <1>2, <1>8, <2>2 DEF Heard
  <2>7. \A x \in Contexts : \A t \in Sockets : Read(t)' /\ sock'[t].data = x => (Read(t) /\ sock[t].data = x) \/ Heard(x)'
    BY <2>5, <2>6 DEF Read
  <2>8. call'.fn \in {"OnConnect", "Connected"} /\ phase' = "connect" /\ \A t \in Sockets : call'.new = t => ctx'[t].announced
    BY <1>3, <1>8, <2>2
  <2> QED
    BY <1>8, <2>3, <2>4, <2>7, <2>8, AnnounceKept
<1> QED
  BY <1>7, <1>8, StoppedNews


LEMMA NewsStep ==
  ASSUME IndInv, IndInv', AnnounceInv, [Next]_vars
  PROVE  AnnounceInv'
<1>1. CASE Natives \/ Destroy
  <2>1. CASE \E c \in Created : Create(c)
    BY <2>1, Names, CreateNews
  <2>2. ASSUME NEW c \in Contexts, NEW fn \in {"Connect", "Listen"}, OpenCall(fn, c)
        PROVE  AnnounceInv'
    BY <2>2, NativesNews
  <2>3. ASSUME NEW c \in Contexts, Write(c) \/ DestroyCall(c)
        PROVE  AnnounceInv'
    BY <2>3, NativesNews
  <2>4. CASE Destroy
    BY <2>4, NativesNews
  <2> QED
    BY <1>1, <2>1, <2>2, <2>3, <2>4 DEF Natives
<1>2. CASE BeginFrame \/ EndConnects \/ EndData \/ EndFrame \/ Return \/ ReturnOnConnect
  BY <1>2, LoopNews, ReturnOnConnectNews
<1>3. CASE Accepted \/ Connected \/ OnData \/ OnError
  BY <1>3, AcceptedNews, EventNews
<1>4. CASE Open
  BY <1>4, OpenNews
<1>5. CASE RunJob
  BY <1>5, JobNews, StartReadNews DEF RunJob
<1>6. CASE GetAddrInfo \/ PushError \/ ResolveFailed \/ ClearPending \/ ReadForgets
  BY <1>6, RequestNews
<1>7. CASE \E c \in Contexts : AsyncResolved(c)
  BY <1>7, RequestNews
<1>8. CASE SetSocket \/ StartListen \/ StartConnect
  BY <1>8, StartNews
<1>9. CASE \E s \in Sockets : FinishClose(s)
  BY <1>9, HandleNews
<1>10. CASE \E s \in Sockets : \/ ConnectDeleted(s) \/ ConnectFails(s) \/ ListenDeleted(s) \/ ListenFails(s)
                            \/ ReadFails(s) \/ ReadDeleted(s)
  BY <1>10, HandleNews
<1>11. CASE \E s \in Sockets : Connects(s) \/ NewConnection(s) \/ Reads(s)
  BY <1>11, ConnectsNews, NewConnectionNews, ReadsNews
<1>12. CASE Unload \/ UnloadStep
  BY <1>12, EndNews
<1>13. CASE UNCHANGED vars
  <2>1. ctx' = ctx /\ sock' = sock /\ jobs' = jobs /\ Unnoticed
    BY <1>13 DEF vars, Unnoticed
  <2> QED
    BY <2>1, SameCtx, UnnoticedNews
<1> QED
  BY <1>1, <1>2, <1>3, <1>4, <1>5, <1>6, <1>7, <1>8, <1>9, <1>10, <1>11, <1>12, <1>13
  DEF Next, GameStep, FrameStep, UvStep, Network

LEMMA InitNews == Init => AnnounceInv
<1> SUFFICES ASSUME Init
             PROVE  AnnounceInv
  OBVIOUS
<1>1. /\ jobs = <<>> /\ connectQueue = <<>> /\ dataQueue = <<>> /\ DOMAIN <<>> = {}
      /\ phase = "none" /\ call.fn = "none" /\ call.new = NONE
  BY DEF Init, NoCall
<1>2. /\ \A c \in Contexts : ~ ctx[c].announced
      /\ \A s \in Sockets : sock[s].state = "none"
  BY DEF Init, NewContext
<1>3. AnnouncedFirst
  BY <1>1, <1>2 DEF AnnouncedFirst
<1> QED
  BY <1>1, <1>2, <1>3, Names DEF AnnounceInv

-----------------------------------------------------------------------------
(* In every reachable state the inductive invariant holds. *)
THEOREM Invariance == Spec => []IndInv
<1>1. IndInv /\ [Next]_vars => IndInv'
  BY NextStep
<1> QED
  BY <1>1, InitInv, PTL DEF Spec

(* The variables keep their types: the contexts, the handles, the queues and the threads. *)
THEOREM TypeCorrect == Spec => []TypeOK
<1>1. IndInv => TypeOK
  BY DEF IndInv
<1> QED
  BY <1>1, Invariance, PTL

(* m_Resolver serves one getaddrinfo at a time, however many threads test and set m_pSocket and *)
(* m_Pending: a look-up under way keeps m_Pending set, and so does the job that asks for it.    *)
THEOREM OneResolverAtATime == Spec => []OneResolver
<1>1. IndInv => OneResolver
  <2> SUFFICES ASSUME IndInv, NEW c \in Contexts
               PROVE  resolver[c] <= 1
    BY DEF OneResolver
  <2>1. resolver[c] \in Nat /\ (resolver[c] > 0 => resolver[c] = 1)
    BY TypeIs DEF IndInv, ResolveInv
  <2> QED
    BY <2>1
<1> QED
  BY <1>1, Invariance, PTL

(* A context is deleted once and by its last job, whatever the plugin does and whatever risk *)
(* it takes: OnHandleDestroy sets m_Deleted, and no job is queued for the context after it.  *)
THEOREM DeletedByItsLastJob == Spec => []DeleteIsLast
<1>1. IndInv => DeleteIsLast
  BY DEF IndInv
<1> QED
  BY <1>1, Invariance, PTL

(* Beside the inductive invariant: callbacks run in their own loop of the frame, and whatever *)
(* is read, has data waiting, or will be read once a UV_StartRead has run, was announced or   *)
(* has its announcement in connectQueue.                                                      *)
THEOREM Announcement == Spec => []AnnounceInv
<1>1. IndInv /\ IndInv' /\ AnnounceInv /\ [Next]_vars => AnnounceInv'
  BY NewsStep
<1> QED
  BY <1>1, InitNews, Invariance, PTL DEF Spec

(* Data and announcements come to the plugin through two queues, and still in order: nobody is *)
(* read, and nobody's data is queued, whom OnGameFrame has not announced and has no connection *)
(* queued for; an accepted connection is not read before its callback has returned.  Only in  *)
(* the frame whose connect loop had ended before the connection was queued may a client's     *)
(* OnData come before Connected.  All that unless a Connect or Listen slipped past the guards *)
(* of an earlier one.                                                                         *)
THEOREM AnnouncedBeforeRead == Spec => []AnnouncedFirst
<1>1. AnnounceInv => AnnouncedFirst
  BY DEF AnnounceInv
<1> QED
  BY <1>1, Announcement, PTL

(* Once the extension is unloaded every handle is closed and freed, every context freed and *)
(* every job done: SDK_OnUnload, the loop thread's last round and uv_walk leave nothing.    *)
THEOREM UnloadLeavesNothing == Spec => []NothingLeft
<1>1. IndInv => NothingLeft
  <2> SUFFICES ASSUME IndInv, mode = "unloaded"
               PROVE  /\ jobs = <<>>
                      /\ \A s \in Sockets : sock[s].state \in {"none", "freed"}
                      /\ \A c \in Contexts : ctx[c].life \in {"none", "freed"}
    BY DEF NothingLeft
  <2>1. TypeOK /\ RunInv /\ DeleteInv /\ EndInv
    BY DEF IndInv
  <2>2. jobs = <<>> /\ \A x : ~ Deletes(x)
    <3>1. jobs = <<>>
      BY <2>1 DEF EndInv, Ended
    <3>2. DOMAIN jobs = {}
      BY <3>1
    <3> QED
      BY <3>1, <3>2 DEF Deletes
  <2>3. \A s \in Sockets : sock[s].state \in {"none", "freed"}
    <3>1. \A s \in Sockets : sock[s].state \in {"none", "open", "closing", "freed"}
      BY <2>1, TypeIs DEF SockRecords
    <3> QED
      BY <2>1, <3>1 DEF EndInv, NoneClosing
  <2>4. \A c \in Contexts : ctx[c].life \in {"none", "freed"}
    <3>1. \A c \in Contexts : ctx[c].life \in {"none", "live", "freed"}
      BY <2>1, TypeIs DEF CtxRecords
    <3>2. native = NoNative
      BY <2>1 DEF RunInv
    <3> QED
      BY <2>1, <2>2, <3>1, <3>2 DEF EndInv, Ended, Valid, DeleteInv, NoNative, Undefinedness
  <2> QED
    BY <2>2, <2>3, <2>4
<1> QED
  BY <1>1, Invariance, PTL

(* A plugin that closes a handle only when nothing is in flight for its context, that does   *)
(* not slip past the guards of Connect and Listen, and is not unloaded with work under way,  *)
(* on a system where accepting never fails, meets no freed context, no freed handle and no   *)
(* handle closed twice, for any number of contexts, handles and jobs.                        *)
THEOREM QuietPluginsAreSafe == Spec => []QuietIsSafe
<1>1. IndInv => QuietIsSafe
  BY DEF IndInv, QuietInv, QuietIsSafe
<1> QED
  BY <1>1, Invariance, PTL
=============================================================================
