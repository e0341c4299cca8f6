----------------------------- MODULE AsyncSocket -----------------------------
(***************************************************************************)
(* The AsyncSocket extension (extension/extension.cpp, context.cpp): the   *)
(* natives and callbacks a plugin uses on the game thread, the libuv       *)
(* callbacks on the loop thread, and what the two share without a lock:    *)
(* the fields of CAsyncSocketContext, four queues and the handles.         *)
(*                                                                         *)
(* The job queue is JobRelay, which UvAsync implements; the event queues   *)
(* are FIFOs, which ReaderWriterQueue implements: each is a sequence, put  *)
(* and taken atomically.  Two steps of a thread are one action where the   *)
(* other thread cannot tell, and two where it can: the guards of Connect   *)
(* and Listen, the deletion of a context, the steps of UV_OnAsyncResolved. *)
(*                                                                         *)
(* The plugin may call any native on any valid handle whenever it runs, in *)
(* a callback or between frames.  Touching a freed context or closing a    *)
(* handle twice is undefined behaviour: the model notes it and stops.      *)
(***************************************************************************)
EXTENDS Integers, Sequences, FiniteSets

CONSTANTS
  Created,   \* the contexts plugins create
  Sockets,   \* the uv_tcp_t the loop thread allocates, none of them reused
  NONE,      \* NULL
  MaxJobs,   \* bound on the jobs waiting when a native is called
  MaxEvents, \* bound on the events waiting when Connect or Listen is called
  MaxReads   \* bound on the chunks of data a peer sends

ASSUME SocketAssumption ==
  /\ NONE \notin Created \cup Sockets
  /\ Created \cap Sockets = {}
  /\ MaxJobs \in Nat /\ MaxEvents \in Nat /\ MaxReads \in Nat

(* The context OnGameFrame makes for an accepted socket goes by the socket's name. *)
Contexts == Created \cup Sockets

VARIABLES
  ctx,           \* the CAsyncSocketContexts
  sock,          \* the uv_tcp_t handles
  resolver,      \* number of getaddrinfo requests running on m_Resolver
  jobs,          \* g_AsyncAddQueue and what follows it
  connectQueue,  \* g_ConnectQueue
  dataQueue,     \* g_DataQueue
  errorQueue,    \* g_ErrorQueue
  phase,         \* the loop of OnGameFrame the game thread is in
  call,          \* the plugin callback that runs
  native,        \* the native or OnHandleDestroy in its second half
  uv,            \* the libuv callback in its next step
  mode,          \* the life of the extension, or the undefined behaviour that ended it
  hasty          \* history: the risks a plugin, or the system, has taken so far

queues == <<connectQueue, dataQueue, errorQueue>>
game   == <<phase, call, native>>
vars   == <<ctx, sock, resolver, jobs, connectQueue, dataQueue, errorQueue, phase, call,
            native, uv, mode, hasty>>

(* The last field is history: a callback has told the plugin that this context is connected. *)
NewContext ==
  [life |-> "live", deleted |-> FALSE, pending |-> FALSE, pendingCallback |-> FALSE,
   server |-> FALSE, socket |-> NONE, stream |-> NONE, announced |-> FALSE]

NoCall   == [fn |-> "none", c |-> NONE, new |-> NONE]
NoNative == [fn |-> "none", c |-> NONE]
NoUv     == [fn |-> "none", c |-> NONE]

Job(fn, c) == [fn |-> fn, c |-> c]

Init ==
  /\ ctx = [c \in Contexts |-> [NewContext EXCEPT !.life = "none"]]
  /\ sock = [s \in Sockets |-> [state |-> "none", data |-> NONE, use |-> "idle", reads |-> 0]]
  /\ resolver = [c \in Contexts |-> 0]
  /\ jobs = <<>> /\ connectQueue = <<>> /\ dataQueue = <<>> /\ errorQueue = <<>>
  /\ phase = "none" /\ call = NoCall /\ native = NoNative
  /\ uv = NoUv
  /\ mode = "running"
  /\ hasty = {}

(* What is read or written after it was freed, and a handle closed twice, is undefined. *)
Undefined(what) ==
  /\ mode' = what
  /\ uv' = NoUv /\ native' = NoNative /\ call' = NoCall /\ phase' = "none"
  /\ UNCHANGED <<ctx, sock, resolver, jobs, queues, hasty>>

Undefinedness == {"freed_context", "freed_handle", "freed_request", "closed_twice"}

(* A step that uses the context c. *)
Touch(c, Step) == IF ctx[c].life = "live" THEN Step ELSE Undefined("freed_context")

(* A step that uses the handle s. *)
TouchHandle(s, Step) ==
  IF sock[s].state \in {"open", "closing"} THEN Step ELSE Undefined("freed_handle")

(* A step that closes the handle s: uv_close asserts that it is not closing yet. *)
Close(s, Step) ==
  TouchHandle(s, IF sock[s].state = "open" THEN Step ELSE Undefined("closed_twice"))

Closed(s) == [sock EXCEPT ![s].state = "closing"]

(* Something will still happen to c, or is about to. *)
InFlight(c) ==
  \/ \E i \in DOMAIN jobs : jobs[i] = Job("UV_OnAsyncResolve", c)
  \/ resolver[c] > 0
  \/ uv.c = c
  \/ \E s \in Sockets : sock[s].state = "open" /\ sock[s].data = c
                          /\ sock[s].use \in {"connecting", "listening", "reading"}
  \/ \E i \in DOMAIN connectQueue : connectQueue[i].c = c
  \/ \E i \in DOMAIN dataQueue : dataQueue[i] = c
  \/ \E i \in DOMAIN errorQueue : errorQueue[i] = c
  \/ call.new = c
HasJob(c) == \E i \in DOMAIN jobs : jobs[i].c = c
-----------------------------------------------------------------------------
(* The game thread: natives. *)

PluginRuns ==
  mode = "running" /\ native = NoNative /\ (phase = "none" \/ call # NoCall)

(* ReadHandle finds the context until the handle is destroyed. *)
Valid(c) == ctx[c].life = "live" /\ ~ ctx[c].deleted

Create(c) ==
  /\ PluginRuns
  /\ ctx[c].life = "none"
  /\ ctx' = [ctx EXCEPT ![c] = NewContext]
  /\ UNCHANGED <<sock, resolver, jobs, queues, game, uv, mode, hasty>>

(* Connect and Listen: the first test, of m_pSocket. *)
OpenCall(fn, c) ==
  /\ PluginRuns
  /\ Len(jobs) < MaxJobs /\ Len(errorQueue) < MaxEvents
  /\ Valid(c)
  /\ ctx[c].socket = NONE
  /\ native' = [fn |-> fn, c |-> c]
  /\ UNCHANGED <<ctx, sock, resolver, jobs, queues, phase, call, uv, mode, hasty>>

(* Wrong variants of the definitions, each named for its bug, stand before the definition *)
(* they vary: each breaks one of the properties below.                                   *)
OpenWithoutPendingTest ==
  /\ native.fn \in {"Connect", "Listen"}
  /\ LET c == native.c
     IN  /\ ctx' = [ctx EXCEPT ![c].server = (native.fn = "Listen"), ![c].pending = TRUE]
         /\ jobs' = Append(jobs, Job("UV_OnAsyncResolve", c))
  /\ native' = NoNative
  /\ UNCHANGED <<sock, resolver, queues, phase, call, uv, mode, hasty>>

(* The second test, of m_Pending, and the job that resolves the host name.  A plugin that *)
(* passes both while an earlier call is under way has slipped between two stores of       *)
(* UV_OnAsyncResolved.                                                                    *)
Open ==
  /\ native.fn \in {"Connect", "Listen"}
  /\ LET c == native.c
     IN  IF ctx[c].pending
           THEN UNCHANGED <<ctx, jobs, hasty>>
           ELSE /\ ctx' = [ctx EXCEPT ![c].server = (native.fn = "Listen"),
                                      ![c].pending = TRUE]
                /\ jobs' = Append(jobs, Job("UV_OnAsyncResolve", c))
                /\ hasty' = IF InFlight(c) THEN hasty \cup {"connect"} ELSE hasty
  /\ native' = NoNative
  /\ UNCHANGED <<sock, resolver, queues, phase, call, uv, mode>>

Write(c) ==
  /\ PluginRuns
  /\ Len(jobs) < MaxJobs
  /\ Valid(c)
  /\ ctx[c].stream # NONE
  /\ jobs' = Append(jobs, Job("UV_OnAsyncWrite", c))
  /\ UNCHANGED <<ctx, sock, resolver, queues, game, uv, mode, hasty>>

(* The plugin closes its handle.  OnHandleDestroy sets m_Deleted ... *)
DestroyCall(c) ==
  /\ PluginRuns
  /\ Len(jobs) < MaxJobs
  /\ Valid(c)
  /\ ctx' = [ctx EXCEPT ![c].deleted = TRUE]
  /\ native' = [fn |-> "OnHandleDestroy", c |-> c]
  /\ hasty' = IF InFlight(c) THEN hasty \cup {"close"} ELSE hasty
  /\ UNCHANGED <<sock, resolver, jobs, queues, phase, call, uv, mode>>

DestroyAfterCallback ==
  /\ native.fn = "OnHandleDestroy"
  /\ LET c == native.c
     IN  /\ jobs' = IF ctx[c].pendingCallback THEN jobs
                    ELSE Append(jobs, Job("UV_DeleteAsyncContext", c))
         /\ native' = NoNative
  /\ UNCHANGED <<ctx, sock, resolver, queues, phase, call, uv, mode, hasty>>

(* ... and leaves the deletion to the loop thread, or does it in place. *)
Destroy ==
  /\ native.fn = "OnHandleDestroy"
  /\ LET c == native.c
     IN  IF ctx[c].socket # NONE \/ ctx[c].stream # NONE \/ ctx[c].pendingCallback
           THEN /\ jobs' = Append(jobs, Job("UV_DeleteAsyncContext", c))
                /\ UNCHANGED ctx
           ELSE /\ ctx' = [ctx EXCEPT ![c].life = "freed"]
                /\ UNCHANGED jobs
  /\ native' = NoNative
  /\ UNCHANGED <<sock, resolver, queues, phase, call, uv, mode, hasty>>

Natives ==
  \/ \E c \in Created : Create(c)
  \/ \E c \in Contexts, fn \in {"Connect", "Listen"} : OpenCall(fn, c)
  \/ \E c \in Contexts : Write(c) \/ DestroyCall(c)
-----------------------------------------------------------------------------
(* The game thread: OnGameFrame. *)

BeginFrame ==
  /\ mode = "running" /\ phase = "none" /\ native = NoNative
  /\ phase' = "connect"
  /\ UNCHANGED <<ctx, sock, resolver, jobs, queues, call, native, uv, mode, hasty>>

InPhase(p) == phase = p /\ call = NoCall /\ native = NoNative

EndConnectsTooSoon ==
  /\ InPhase("connect")
  /\ phase' = "data"
  /\ UNCHANGED <<ctx, sock, resolver, jobs, queues, call, native, uv, mode, hasty>>

EndConnects ==
  /\ InPhase("connect") /\ connectQueue = <<>>
  /\ phase' = "data"
  /\ UNCHANGED <<ctx, sock, resolver, jobs, queues, call, native, uv, mode, hasty>>

EndData ==
  /\ InPhase("data") /\ dataQueue = <<>>
  /\ phase' = "error"
  /\ UNCHANGED <<ctx, sock, resolver, jobs, queues, call, native, uv, mode, hasty>>

EndFrame ==
  /\ InPhase("error") /\ errorQueue = <<>>
  /\ phase' = "none"
  /\ UNCHANGED <<ctx, sock, resolver, jobs, queues, call, native, uv, mode, hasty>>

AcceptedReadsAtOnce ==
  /\ InPhase("connect") /\ connectQueue # <<>>
  /\ LET c == Head(connectQueue).c
         s == Head(connectQueue).s
     IN  Touch(c, /\ ctx[c].server
                  /\ TouchHandle(s,
                       /\ ctx' = [ctx EXCEPT ![s] = [NewContext EXCEPT !.stream = s,
                                                                       !.announced = TRUE]]
                       /\ sock' = [sock EXCEPT ![s].data = s]
                       /\ jobs' = Append(jobs, Job("UV_StartRead", s))
                       /\ call' = [fn |-> "OnConnect", c |-> c, new |-> s]
                       /\ connectQueue' = Tail(connectQueue)
                       /\ UNCHANGED <<resolver, dataQueue, errorQueue, phase, native, uv,
                                      mode, hasty>>))

(* A connection accepted by a server: a new context for it, and the server's callback. *)
Accepted ==
  /\ InPhase("connect") /\ connectQueue # <<>>
  /\ LET c == Head(connectQueue).c
         s == Head(connectQueue).s
     IN  Touch(c, /\ ctx[c].server
                  /\ TouchHandle(s,
                       /\ ctx' = [ctx EXCEPT ![s] = [NewContext EXCEPT !.stream = s,
                                                                       !.announced = TRUE],
                                             ![c].pendingCallback = FALSE]
                       /\ sock' = [sock EXCEPT ![s].data = s]
                       /\ call' = [fn |-> "OnConnect", c |-> c, new |-> s]
                       /\ connectQueue' = Tail(connectQueue)
                       /\ UNCHANGED <<resolver, jobs, dataQueue, errorQueue, phase, native,
                                      uv, mode, hasty>>))

(* A plugin callback for an event about c: m_PendingCallback is reset first. *)
Callback(fn, c) ==
  /\ ctx' = [ctx EXCEPT ![c].pendingCallback = FALSE, ![c].announced = @ \/ fn = "Connected"]
  /\ call' = [fn |-> fn, c |-> c, new |-> NONE]
  /\ UNCHANGED <<sock, resolver, jobs, phase, native, uv, mode, hasty>>

Connected ==
  /\ InPhase("connect") /\ connectQueue # <<>>
  /\ LET c == Head(connectQueue).c
     IN  Touch(c, /\ ~ ctx[c].server
                  /\ connectQueue' = Tail(connectQueue)
                  /\ Callback("Connected", c)
                  /\ UNCHANGED <<dataQueue, errorQueue>>)

OnData ==
  /\ InPhase("data") /\ dataQueue # <<>>
  /\ Touch(Head(dataQueue), /\ dataQueue' = Tail(dataQueue)
                            /\ Callback("OnData", Head(dataQueue))
                            /\ UNCHANGED <<connectQueue, errorQueue>>)

OnError ==
  /\ InPhase("error") /\ errorQueue # <<>>
  /\ Touch(Head(errorQueue), /\ errorQueue' = Tail(errorQueue)
                             /\ Callback("OnError", Head(errorQueue))
                             /\ UNCHANGED <<connectQueue, dataQueue>>)

Return ==
  /\ call.fn \in {"Connected", "OnData", "OnError"} /\ native = NoNative
  /\ call' = NoCall
  /\ UNCHANGED <<ctx, sock, resolver, jobs, queues, phase, native, uv, mode, hasty>>

ReturnOnConnectUntested ==
  /\ call.fn = "OnConnect" /\ native = NoNative
  /\ jobs' = Append(jobs, Job("UV_StartRead", call.new))
  /\ call' = NoCall
  /\ UNCHANGED <<ctx, sock, resolver, queues, phase, native, uv, mode, hasty>>

(* The callback about an accepted connection returns: if its context was not deleted in *)
(* the callback, the connection is read from now on.                                    *)
ReturnOnConnect ==
  /\ call.fn = "OnConnect" /\ native = NoNative
  /\ Touch(call.new, /\ jobs' = IF ctx[call.new].deleted THEN jobs
                                ELSE Append(jobs, Job("UV_StartRead", call.new))
                     /\ call' = NoCall
                     /\ UNCHANGED <<ctx, sock, resolver, queues, phase, native, uv, mode,
                                    hasty>>)

FrameStep ==
  EndConnects \/ EndData \/ EndFrame \/ Accepted \/ Connected \/ OnData \/ OnError

(* What the game thread has begun, it goes on with, and it ends a frame. *)
GameStep == FrameStep \/ Return \/ ReturnOnConnect \/ Open \/ Destroy
-----------------------------------------------------------------------------
(* The loop thread: the callbacks of jobs. *)

LoopRuns == mode \in {"running", "unloading", "stopping"}

NextJob(fn) == LoopRuns /\ uv = NoUv /\ jobs # <<>> /\ Head(jobs).fn = fn

(* UV_OnAsyncResolve looks at m_Deleted and m_pSocket again ... *)
AsyncResolve ==
  /\ NextJob("UV_OnAsyncResolve")
  /\ LET c == Head(jobs).c
     IN  Touch(c, /\ uv' = IF ctx[c].deleted \/ ctx[c].socket # NONE THEN NoUv
                           ELSE [fn |-> "uv_getaddrinfo", c |-> c]
                  /\ jobs' = Tail(jobs)
                  /\ UNCHANGED <<ctx, sock, resolver, queues, game, mode, hasty>>)

(* ... and asks for the address: m_Pending stays set if that fails at once. *)
GetAddrInfo ==
  /\ uv.fn = "uv_getaddrinfo"
  /\ Touch(uv.c, /\ \/ /\ resolver' = [resolver EXCEPT ![uv.c] = @ + 1]
                       /\ uv' = NoUv
                    \/ /\ uv' = [uv EXCEPT !.fn = "UV_PushError"]
                       /\ UNCHANGED resolver
                 /\ UNCHANGED <<ctx, sock, jobs, queues, game, mode, hasty>>)

PushError ==
  /\ uv.fn = "UV_PushError"
  /\ Touch(uv.c, /\ ctx' = [ctx EXCEPT ![uv.c].pendingCallback = TRUE]
                 /\ errorQueue' = Append(errorQueue, uv.c)
                 /\ uv' = NoUv
                 /\ UNCHANGED <<sock, resolver, jobs, connectQueue, dataQueue, game, mode,
                                hasty>>)

AsyncWrite ==
  /\ NextJob("UV_OnAsyncWrite")
  /\ LET c    == Head(jobs).c
         done == jobs' = Tail(jobs)
                 /\ UNCHANGED <<ctx, sock, resolver, queues, game, uv, mode, hasty>>
     IN  Touch(c, IF ctx[c].stream = NONE THEN done ELSE TouchHandle(ctx[c].stream, done))

(* uv_read_start leaves a handle alone that is closing. *)
StartRead ==
  /\ NextJob("UV_StartRead")
  /\ LET c == Head(jobs).c
         s == ctx[c].stream
         done == jobs' = Tail(jobs) /\ UNCHANGED <<ctx, resolver, queues, game, uv, mode, hasty>>
     IN  Touch(c, IF ctx[c].deleted \/ s = NONE
                    THEN done /\ UNCHANGED sock
                    ELSE TouchHandle(s,
                           done /\ sock' = [sock EXCEPT ![s].use =
                                              IF sock[s].state = "open" THEN "reading" ELSE @]))

(* UV_DeleteAsyncContext: m_pStream is closed, or else m_pSocket, and the context freed. *)
DeleteAsyncContext ==
  /\ NextJob("UV_DeleteAsyncContext")
  /\ LET c == Head(jobs).c
         s == IF ctx[c].stream # NONE THEN ctx[c].stream ELSE ctx[c].socket
         freed == /\ ctx' = [ctx EXCEPT ![c].life = "freed", ![c].stream = NONE,
                                        ![c].socket = NONE]
                  /\ jobs' = Tail(jobs)
                  /\ UNCHANGED <<resolver, queues, game, uv, mode, hasty>>
     IN  Touch(c, IF s = NONE THEN freed /\ UNCHANGED sock
                              ELSE Close(s, freed /\ sock' = Closed(s)))

QuitWithoutStop ==
  /\ NextJob("UV_Quit")
  /\ jobs' = Tail(jobs)
  /\ UNCHANGED <<ctx, sock, resolver, queues, game, uv, mode, hasty>>

(* UV_Quit: uv_stop lets the loop finish its round. *)
Quit ==
  /\ NextJob("UV_Quit")
  /\ jobs' = Tail(jobs)
  /\ mode' = "stopping"
  /\ UNCHANGED <<ctx, sock, resolver, queues, game, uv, hasty>>

RunJob ==
  AsyncResolve \/ AsyncWrite \/ StartRead \/ DeleteAsyncContext \/ Quit
-----------------------------------------------------------------------------
(* The loop thread: the callbacks of requests and handles. *)

Unused(s) == sock[s].state = "none"
Opened(s, c) == [sock EXCEPT ![s].state = "open", ![s].data = c]

(* UV_OnAsyncResolved. *)
AsyncResolved(c) ==
  /\ LoopRuns \/ mode = "closing"
  /\ uv = NoUv
  /\ resolver[c] > 0
  /\ Touch(c, /\ IF ctx[c].deleted \/ ctx[c].socket # NONE THEN uv' = NoUv
                 ELSE \/ uv' = [fn |-> "resolve_failed", c |-> c]
                      \/ (\E s \in Sockets : Unused(s)) /\ uv' = [fn |-> "resolved", c |-> c]
              /\ resolver' = [resolver EXCEPT ![c] = @ - 1]
              /\ UNCHANGED <<ctx, sock, jobs, queues, game, mode, hasty>>)

ResolveFailedSilently ==
  /\ uv.fn = "resolve_failed"
  /\ Touch(uv.c, /\ ctx' = [ctx EXCEPT ![uv.c].pending = FALSE]
                 /\ uv' = NoUv
                 /\ UNCHANGED <<sock, resolver, jobs, queues, game, mode, hasty>>)

ResolveFailed ==
  /\ uv.fn = "resolve_failed"
  /\ Touch(uv.c, /\ ctx' = [ctx EXCEPT ![uv.c].pending = FALSE]
                 /\ uv' = [uv EXCEPT !.fn = "UV_PushError"]
                 /\ UNCHANGED <<sock, resolver, jobs, queues, game, mode, hasty>>)

(* m_pSocket is set before m_Pending is reset: Connect tests them in the same order. *)
SetSocket ==
  /\ uv.fn = "resolved"
  /\ Touch(uv.c, \E s \in Sockets :
                   /\ Unused(s)
                   /\ sock' = Opened(s, uv.c)
                   /\ ctx' = [ctx EXCEPT ![uv.c].socket = s]
                   /\ uv' = [uv EXCEPT !.fn = "socket_set"]
                   /\ UNCHANGED <<resolver, jobs, queues, game, mode, hasty>>)

ClearPending ==
  /\ uv.fn = "socket_set"
  /\ Touch(uv.c, /\ ctx' = [ctx EXCEPT ![uv.c].pending = FALSE]
                 /\ uv' = [uv EXCEPT !.fn = "not_pending"]
                 /\ UNCHANGED <<sock, resolver, jobs, queues, game, mode, hasty>>)

StartListenKeepsSocket ==
  /\ uv.fn = "not_pending"
  /\ LET s == ctx[uv.c].socket
     IN  Touch(uv.c, /\ ctx[uv.c].server
                     /\ \/ /\ sock' = [sock EXCEPT ![s].use = "listening"]
                           /\ uv' = NoUv
                        \/ /\ sock' = Closed(s)
                           /\ uv' = [uv EXCEPT !.fn = "UV_PushError"]
                     /\ UNCHANGED <<ctx, resolver, jobs, queues, game, mode, hasty>>)

(* uv_listen may fail: the handle is closed and forgotten. *)
StartListen ==
  /\ uv.fn = "not_pending"
  /\ LET s == ctx[uv.c].socket
     IN  Touch(uv.c, /\ ctx[uv.c].server
                     /\ \/ /\ sock' = [sock EXCEPT ![s].use = "listening"]
                           /\ uv' = NoUv
                           /\ UNCHANGED ctx
                        \/ /\ sock' = Closed(s)
                           /\ ctx' = [ctx EXCEPT ![uv.c].socket = NONE]
                           /\ uv' = [uv EXCEPT !.fn = "UV_PushError"]
                     /\ UNCHANGED <<resolver, jobs, queues, game, mode, hasty>>)

(* uv_tcp_connect may fail too, but its result is not looked at. *)
StartConnect ==
  /\ uv.fn = "not_pending"
  /\ LET s == ctx[uv.c].socket
     IN  Touch(uv.c, /\ ~ ctx[uv.c].server
                     /\ \E use \in {"connecting", "unreachable"} :
                          sock' = [sock EXCEPT ![s].use = use]
                     /\ uv' = NoUv
                     /\ UNCHANGED <<ctx, resolver, jobs, queues, game, mode, hasty>>)

(* A CSocketConnect.  History: whether this frame's connect loop had ended before. *)
Connect(c, s) == [c |-> c, s |-> s, late |-> phase = "data"]

InUse(s, use) == LoopRuns /\ uv = NoUv /\ sock[s].state = "open" /\ sock[s].use = use

(* UV_OnConnect with m_Deleted set closes the handle, but leaves m_pSocket as it was.  It *)
(* reads the handle from the request it has just freed, where it may or may not still be. *)
ConnectDeleted(s) ==
  /\ InUse(s, "connecting")
  /\ Touch(sock[s].data, /\ ctx[sock[s].data].deleted
                         /\ \/ /\ sock' = [Closed(s) EXCEPT ![s].use = "idle"]
                               /\ UNCHANGED <<ctx, resolver, jobs, queues, game, uv, mode,
                                              hasty>>
                            \/ Undefined("freed_request"))

ConnectFails(s) ==
  /\ InUse(s, "connecting")
  /\ LET c == sock[s].data
     IN  Touch(c, /\ ~ ctx[c].deleted
                  /\ sock' = [sock EXCEPT ![s].use = "idle"]
                  /\ uv' = [fn |-> "UV_PushError", c |-> c]
                  /\ UNCHANGED <<ctx, resolver, jobs, queues, game, mode, hasty>>)

Connects(s) ==
  /\ InUse(s, "connecting")
  /\ LET c == sock[s].data
     IN  Touch(c, /\ ~ ctx[c].deleted
                  /\ ctx' = [ctx EXCEPT ![c].pendingCallback = TRUE, ![c].stream = s]
                  /\ connectQueue' = Append(connectQueue, Connect(c, s))
                  /\ sock' = [sock EXCEPT ![s].use = "reading"]
                  /\ UNCHANGED <<resolver, jobs, dataQueue, errorQueue, game, uv, mode,
                                 hasty>>)

(* UV_OnNewConnection: m_Deleted set, an error, or a connection to accept. *)
ListenDeleted(s) ==
  /\ InUse(s, "listening")
  /\ Touch(sock[s].data, /\ ctx[sock[s].data].deleted
                         /\ sock' = Closed(s)
                         /\ UNCHANGED <<ctx, resolver, jobs, queues, game, uv, mode,
                                        hasty>>)

ListenFails(s) ==
  /\ InUse(s, "listening")
  /\ LET c == sock[s].data
     IN  Touch(c, /\ ~ ctx[c].deleted
                  /\ sock' = Closed(s)
                  /\ uv' = [fn |-> "UV_PushError", c |-> c]
                  /\ hasty' = hasty \cup {"accept"}
                  /\ UNCHANGED <<ctx, resolver, jobs, queues, game, mode>>)

NewConnection(s) ==
  /\ InUse(s, "listening")
  /\ LET c == sock[s].data
     IN  Touch(c, /\ ~ ctx[c].deleted
                  /\ \E client \in Sockets :
                       /\ Unused(client)
                       /\ \/ /\ sock' = Opened(client, NONE)
                             /\ ctx' = [ctx EXCEPT ![c].pendingCallback = TRUE]
                             /\ connectQueue' = Append(connectQueue, Connect(c, client))
                          \/ /\ sock' = [sock EXCEPT ![client].state = "closing"]
                             /\ UNCHANGED <<ctx, connectQueue>>
                  /\ UNCHANGED <<resolver, jobs, dataQueue, errorQueue, game, uv, mode,
                                 hasty>>)

(* UV_OnRead with m_Deleted set closes the handle and forgets it, m_pStream first. *)
ReadDeleted(s) ==
  /\ InUse(s, "reading")
  /\ LET c == sock[s].data
     IN  Touch(c, /\ ctx[c].deleted
                  /\ sock' = Closed(s)
                  /\ ctx' = [ctx EXCEPT ![c].stream = NONE]
                  /\ uv' = [fn |-> "UV_OnRead", c |-> c]
                  /\ UNCHANGED <<resolver, jobs, queues, game, mode, hasty>>)

ReadForgets ==
  /\ uv.fn = "UV_OnRead"
  /\ Touch(uv.c, /\ ctx' = [ctx EXCEPT ![uv.c].socket = NONE]
                 /\ uv' = NoUv
                 /\ UNCHANGED <<sock, resolver, jobs, queues, game, mode, hasty>>)

(* The end of the stream, or an error: libuv stops reading. *)
ReadFails(s) ==
  /\ InUse(s, "reading")
  /\ LET c == sock[s].data
     IN  Touch(c, /\ ~ ctx[c].deleted
                  /\ sock' = [sock EXCEPT ![s].use = "idle"]
                  /\ uv' = [fn |-> "UV_PushError", c |-> c]
                  /\ UNCHANGED <<ctx, resolver, jobs, queues, game, mode, hasty>>)

Reads(s) ==
  /\ InUse(s, "reading")
  /\ sock[s].reads < MaxReads
  /\ LET c == sock[s].data
     IN  Touch(c, /\ ~ ctx[c].deleted
                  /\ sock' = [sock EXCEPT ![s].reads = @ + 1]
                  /\ ctx' = [ctx EXCEPT ![c].pendingCallback = TRUE]
                  /\ dataQueue' = Append(dataQueue, c)
                  /\ UNCHANGED <<resolver, jobs, connectQueue, errorQueue, game, uv, mode,
                                 hasty>>)

(* uv__finish_close: a connect request still open is called back with ECANCELED, and so  *)
(* UV_OnConnect reads the context and, if m_Deleted is set, frees the request and closes  *)
(* the handle again.                                                                     *)
FinishClose(s) ==
  /\ LoopRuns \/ mode = "closing"
  /\ uv = NoUv
  /\ sock[s].state = "closing"
  /\ LET c     == sock[s].data
         freed == /\ sock' = [sock EXCEPT ![s].state = "freed"]
                  /\ UNCHANGED <<ctx, resolver, jobs, queues, game, mode, hasty>>
     IN  IF sock[s].use # "connecting"
           THEN freed /\ UNCHANGED uv
           ELSE Touch(c, IF ctx[c].deleted
                           THEN \E what \in {"closed_twice", "freed_request"} : Undefined(what)
                           ELSE freed /\ uv' = [fn |-> "UV_PushError", c |-> c])

(* What the loop thread has begun, or has been given, it goes on with. *)
UvStep ==
  \/ RunJob \/ GetAddrInfo \/ PushError \/ ResolveFailed \/ SetSocket \/ ClearPending
  \/ StartListen \/ StartConnect \/ ReadForgets
  \/ \E s \in Sockets : FinishClose(s)

(* What the network brings. *)
Network ==
  \/ \E c \in Contexts : AsyncResolved(c)
  \/ \E s \in Sockets : ConnectDeleted(s) \/ ConnectFails(s) \/ Connects(s)
  \/ \E s \in Sockets : ListenDeleted(s) \/ ListenFails(s) \/ NewConnection(s)
  \/ \E s \in Sockets : ReadDeleted(s) \/ ReadFails(s) \/ Reads(s)
-----------------------------------------------------------------------------
UnloadLeavesSockets ==
  /\ mode = "running" /\ phase = "none" /\ native = NoNative
  /\ ctx' = [c \in Contexts |-> IF Valid(c) /\ ctx[c].socket = NONE
                                THEN [ctx[c] EXCEPT !.deleted = TRUE, !.life = "freed"]
                                ELSE ctx[c]]
  /\ jobs' = Append(jobs, Job("UV_Quit", NONE))
  /\ mode' = "unloading"
  /\ UNCHANGED <<sock, resolver, queues, game, uv, hasty>>

(* SDK_OnUnload: every handle is destroyed, and with g_Running reset every context with  *)
(* it, at once; the loop thread is told to quit and joined.                              *)
Unload ==
  /\ mode = "running" /\ phase = "none" /\ native = NoNative
  /\ ctx' = [c \in Contexts |-> IF Valid(c) THEN [ctx[c] EXCEPT !.deleted = TRUE,
                                                               !.life = "freed"]
                                ELSE ctx[c]]
  /\ hasty' = IF \E c \in Contexts : Valid(c) /\ (InFlight(c) \/ HasJob(c))
                THEN hasty \cup {"unload"}
              ELSE hasty
  /\ jobs' = Append(jobs, Job("UV_Quit", NONE))
  /\ mode' = "unloading"
  /\ UNCHANGED <<sock, resolver, queues, game, uv>>

NoneClosing == \A s \in Sockets : sock[s].state # "closing"

(* The loop's last round ends with uv__run_closing_handles. *)
JoinLoop ==
  /\ mode = "stopping" /\ uv = NoUv /\ NoneClosing
  /\ mode' = "joined"
  /\ UNCHANGED <<ctx, sock, resolver, jobs, queues, game, uv, hasty>>

(* uv_walk closes what is still open; the game thread runs the loop until all is closed. *)
WalkHandles ==
  /\ mode = "joined"
  /\ sock' = [s \in Sockets |-> IF sock[s].state = "open"
                                  THEN [sock[s] EXCEPT !.state = "closing"] ELSE sock[s]]
  /\ mode' = "closing"
  /\ UNCHANGED <<ctx, resolver, jobs, queues, game, uv, hasty>>

Unloaded ==
  /\ mode = "closing" /\ uv = NoUv /\ NoneClosing
  /\ \A c \in Contexts : resolver[c] = 0
  /\ mode' = "unloaded"
  /\ UNCHANGED <<ctx, sock, resolver, jobs, queues, game, uv, hasty>>

UnloadStep == JoinLoop \/ WalkHandles \/ Unloaded

Next ==
  Natives \/ BeginFrame \/ GameStep \/ UvStep \/ Network \/ Unload \/ UnloadStep

(* Both threads are scheduled, the server ticks and plugin code returns, however many     *)
(* natives it calls; a name lookup, a connection attempt and the unloading come to an     *)
(* end.  Nothing makes a plugin call a native, or a peer send or close.                   *)
Fairness ==
  /\ SF_vars(BeginFrame) /\ SF_vars(Return \/ ReturnOnConnect)
  /\ WF_vars(FrameStep) /\ WF_vars(Open \/ Destroy)
  /\ WF_vars(UvStep)
  /\ \A c \in Contexts : WF_vars(AsyncResolved(c))
  /\ \A s \in Sockets :
       WF_vars((ConnectDeleted(s) \/ ConnectFails(s) \/ Connects(s)))
  /\ WF_vars(UnloadStep)

Spec == Init /\ [][Next]_vars
FairSpec == Spec /\ Fairness
-----------------------------------------------------------------------------
JobFns == {"UV_OnAsyncResolve", "UV_OnAsyncWrite", "UV_StartRead", "UV_DeleteAsyncContext"}

TypeOK ==
  /\ ctx \in [Contexts ->
       [life: {"none", "live", "freed"}, deleted: BOOLEAN, pending: BOOLEAN,
        pendingCallback: BOOLEAN, server: BOOLEAN,
        socket: Sockets \cup {NONE}, stream: Sockets \cup {NONE}, announced: BOOLEAN]]
  /\ sock \in [Sockets ->
       [state: {"none", "open", "closing", "freed"}, data: Contexts \cup {NONE},
        use: {"idle", "connecting", "unreachable", "listening", "reading"},
        reads: 0 .. MaxReads]]
  /\ resolver \in [Contexts -> Nat]
  /\ jobs \in Seq([fn: JobFns, c: Contexts] \cup {Job("UV_Quit", NONE)})
  /\ connectQueue \in Seq([c: Contexts, s: Sockets, late: BOOLEAN])
  /\ dataQueue \in Seq(Contexts) /\ errorQueue \in Seq(Contexts)
  /\ phase \in {"none", "connect", "data", "error"}
  /\ call \in [fn: {"none", "OnConnect", "Connected", "OnData", "OnError"},
               c: Contexts \cup {NONE}, new: Sockets \cup {NONE}]
  /\ native \in [fn: {"none", "Connect", "Listen", "OnHandleDestroy"},
                 c: Contexts \cup {NONE}]
  /\ uv \in [fn: {"none", "uv_getaddrinfo", "UV_PushError", "resolve_failed", "resolved",
                  "socket_set", "not_pending", "UV_OnRead"}, c: Contexts \cup {NONE}]
  /\ mode \in {"running", "unloading", "stopping", "joined", "closing", "unloaded"}
             \cup Undefinedness
  /\ hasty \subseteq {"close", "connect", "accept", "unload"}

(* A plugin that closes a handle, and a server that is unloaded, only when nothing is in  *)
(* flight for the context, and a Connect or Listen that does not slip past the guards of  *)
(* an earlier one: then, if accepting never fails, no freed context or handle is used and *)
(* no handle is closed twice.                                                             *)
QuietIsSafe == mode \in Undefinedness => hasty # {}

(* m_Resolver serves one getaddrinfo at a time, although Connect and Listen test m_pSocket *)
(* and m_Pending while the loop thread sets the one and resets the other.                 *)
OneResolver == \A c \in Contexts : resolver[c] <= 1

(* A context is deleted once and by its last job: whatever the plugin does, no native and *)
(* no frame queues a job for a context behind its UV_DeleteAsyncContext, and nothing      *)
(* frees the context before that job does.                                                *)
DeleteIsLast ==
  \A i \in DOMAIN jobs : jobs[i].fn = "UV_DeleteAsyncContext" =>
    /\ ctx[jobs[i].c].life = "live" /\ ctx[jobs[i].c].deleted
    /\ \A k \in i + 1 .. Len(jobs) : jobs[k].c # jobs[i].c

(* The client c has connected, and OnGameFrame has not called Connected yet. *)
Waits(c) == \E i \in DOMAIN connectQueue : connectQueue[i].c = c /\ ~ ctx[c].server

(* The plugin has heard of the connection, or will in the next connect loop. *)
Heard(c) == ctx[c].announced \/ Waits(c)

(* What a plugin hears about a connection, it hears in order, although it comes through   *)
(* two queues: whoever is read from, or has data waiting, has been announced, or the       *)
(* announcement waits in connectQueue; an accepted connection is not read before the       *)
(* callback that announces it has returned.  A client is read from at once, and OnGameFrame *)
(* may be past its connect loop: OnData comes before Connected, but only in the frame      *)
(* whose connect loop had ended when the connection was queued.  All this unless a Connect *)
(* or Listen slipped past an earlier one.                                                  *)
AnnouncedFirst ==
  "connect" \notin hasty =>
    /\ \A s \in Sockets : sock[s].state = "open" /\ sock[s].use = "reading" =>
         Heard(sock[s].data) /\ call.new # s
    /\ \A i \in DOMAIN dataQueue : Heard(dataQueue[i])
    /\ call.fn = "OnData" =>
         \/ ctx[call.c].announced
         \/ Waits(call.c) /\ \A i \in DOMAIN connectQueue : connectQueue[i].late

(* Once the extension is unloaded every handle is closed and freed, every context freed  *)
(* and every job done.                                                                   *)
NothingLeft ==
  mode = "unloaded" =>
    /\ jobs = <<>>
    /\ \A s \in Sockets : sock[s].state \in {"none", "freed"}
    /\ \A c \in Contexts : ctx[c].life \in {"none", "freed"}

(* libuv asserts in uv_close that the handle is not closing already. *)
NoDoubleClose == mode # "closed_twice"

(* A context whose handle was destroyed is freed. *)
DestroyedIsFreed ==
  \A c \in Contexts : ctx[c].deleted ~> ctx[c].life = "freed" \/ mode \in Undefinedness

(* A Connect or Listen that was accepted is answered by a callback or by a socket that    *)
(* listens; but not if the handle is closed first, if the address cannot be reached (the  *)
(* result of uv_tcp_connect is ignored), or if the call slipped past an earlier one.      *)
Answered ==
  \A c \in Contexts :
    (\E i \in DOMAIN jobs : jobs[i] = Job("UV_OnAsyncResolve", c))
      ~> \/ call.c = c
         \/ \E s \in Sockets : ctx[c].socket = s /\ sock[s].use \in {"listening", "unreachable"}
         \/ ctx[c].deleted \/ "connect" \in hasty \/ mode \in Undefinedness

(* The extension can always be unloaded: joining the loop thread and running the loop     *)
(* down come to an end.                                                                   *)
UnloadEnds == mode = "unloading" ~> mode = "unloaded" \/ mode \in Undefinedness
-----------------------------------------------------------------------------
(* The inductive invariant. *)

Ended == {"unloading", "stopping", "joined", "closing", "unloaded"}

(* Who runs: natives and callbacks only before the extension is unloaded. *)
RunInv ==
  /\ native = NoNative \/ (native.fn # "none" /\ native.c \in Contexts /\ mode = "running")
  /\ uv = NoUv \/ (uv.fn # "none" /\ uv.c \in Contexts)
  /\ call = NoCall \/ (call.fn # "none" /\ phase # "none" /\ (call.fn = "OnConnect" <=> call.new \in Sockets))
  /\ phase # "none" => mode = "running"

(* Nothing refers to a context before it is created; one that is freed was deleted. *)
BirthInv ==
  \A c \in Contexts :
    /\ ctx[c].life = "none" =>
         /\ ~ ctx[c].deleted /\ ctx[c].socket = NONE /\ ctx[c].stream = NONE
         /\ ~ HasJob(c) /\ ~ InFlight(c) /\ native.c # c
         /\ \A s \in Sockets : sock[s].data # c
    /\ ctx[c].life = "freed" => ctx[c].deleted

(* A socket that is not connected yet has not been announced, and goes by no context. *)
Fresh(s) ==
  /\ ctx[s].life = "none"
  /\ \A i \in DOMAIN connectQueue : connectQueue[i].s # s
  /\ \A c \in Contexts : ctx[c].stream # s

Starting == uv.fn \in {"socket_set", "not_pending"}

SocketInv ==
  /\ \A s \in Sockets :
       /\ sock[s].use \notin {"idle"} => sock[s].data \in Contexts
       /\ sock[s].state = "none" =>
            /\ sock[s].data = NONE /\ sock[s].use = "idle" /\ Fresh(s)
            /\ \A c \in Contexts : ctx[c].socket # s
       /\ sock[s].use = "connecting" => Fresh(s)
  /\ Starting => \E s \in Sockets :
       ctx[uv.c].socket = s /\ sock[s].state = "open" /\ sock[s].use = "idle" /\ sock[s].data = uv.c /\ Fresh(s)
  /\ \A c \in Contexts : \A s \in Sockets :
       ctx[c].stream = s \/ ctx[c].socket = s => sock[s].data \in Contexts
  /\ \A i \in DOMAIN connectQueue :
       /\ ctx[connectQueue[i].s].life = "none" /\ sock[connectQueue[i].s].state # "none"
       /\ \A j \in DOMAIN connectQueue : connectQueue[i].s = connectQueue[j].s => i = j

(* m_Pending is set as long as a name is looked up for the context, which is once at a time. *)
Resolving(c) == uv.c = c /\ uv.fn \in {"uv_getaddrinfo", "resolve_failed", "resolved", "socket_set"}

ResolveInv ==
  \A c \in Contexts :
    /\ \A i, j \in DOMAIN jobs :
         jobs[i] = Job("UV_OnAsyncResolve", c) /\ jobs[j] = Job("UV_OnAsyncResolve", c) => i = j
    /\ \A i \in DOMAIN jobs :
         jobs[i] = Job("UV_OnAsyncResolve", c) => ctx[c].pending /\ resolver[c] = 0 /\ ~ Resolving(c)
    /\ resolver[c] > 0 => resolver[c] = 1 /\ ctx[c].pending /\ ~ Resolving(c)
    /\ Resolving(c) => ctx[c].pending

(* A handle that is destroyed is on its way to be deleted. *)
Deletes(c) == \E i \in DOMAIN jobs : jobs[i] = Job("UV_DeleteAsyncContext", c)

DeleteInv ==
  /\ native.fn \in {"Connect", "Listen"} => Valid(native.c)
  /\ native.fn = "OnHandleDestroy" => ctx[native.c].life = "live" /\ ctx[native.c].deleted /\ ~ Deletes(native.c)
  /\ mode \notin Undefinedness =>
       \A c \in Contexts : ctx[c].life = "live" /\ ctx[c].deleted =>
         Deletes(c) \/ (native.fn = "OnHandleDestroy" /\ native.c = c)

(* UV_Quit is the last job; the loop thread has ended before the handles are closed. *)
EndInv ==
  /\ mode = "running" => \A i \in DOMAIN jobs : jobs[i].fn # "UV_Quit"
  /\ mode = "unloading" => jobs # <<>> /\ \A i \in DOMAIN jobs : jobs[i].fn = "UV_Quit" <=> i = Len(jobs)
  /\ mode \in Ended \ {"unloading"} => jobs = <<>>
  /\ mode \in Ended => \A c \in Contexts : ~ Valid(c)
  /\ mode \in {"joined", "closing", "unloaded"} => uv = NoUv
  /\ mode \in {"closing", "unloaded"} => \A s \in Sockets : sock[s].state # "open"
  /\ mode = "unloaded" => NoneClosing

(* If no Connect or Listen slips past an earlier one, a socket belongs to one context, and a *)
(* connection is accepted by a server, made by a client and read when it has been announced. *)
OrderInv ==
  /\ \A c \in Contexts, s \in Sockets : ctx[c].stream = s \/ ctx[c].socket = s => sock[s].data = c
  /\ \A s \in Sockets : sock[s].state = "open" =>
       /\ sock[s].use = "connecting" => ~ ctx[sock[s].data].server
       /\ sock[s].use = "listening" => ctx[sock[s].data].server
  /\ \A i \in DOMAIN connectQueue :
       LET c == connectQueue[i].c
           s == connectQueue[i].s
       IN  IF ctx[c].server THEN sock[s].data = NONE /\ sock[s].use = "idle" ELSE sock[s].data = c
  /\ \A i \in DOMAIN jobs : jobs[i].fn = "UV_StartRead" => call.new # jobs[i].c
  /\ call.fn = "OnConnect" => sock[call.new].data = call.new /\ sock[call.new].use = "idle"

(* If no risk is taken, what is in flight is for a context that is still there, and so are   *)
(* the handles it goes by.                                                                   *)
QuietInv ==
  /\ mode \notin Undefinedness
  /\ \A c \in Contexts :
       /\ ctx[c].deleted => ~ InFlight(c)
       /\ HasJob(c) => ctx[c].life = "live"
       /\ \A i \in DOMAIN jobs : jobs[i].c = c /\ jobs[i].fn \in {"UV_OnAsyncWrite", "UV_StartRead"} => ctx[c].stream # NONE
       /\ call.new = c => ctx[c].stream # NONE
       /\ ctx[c].life = "live" => \A s \in Sockets : ctx[c].stream = s \/ ctx[c].socket = s => sock[s].state = "open"
  /\ \A s \in Sockets : sock[s].use = "connecting" => sock[s].state # "closing"
  /\ mode = "running" =>
       \A i \in DOMAIN connectQueue : sock[connectQueue[i].s].data = NONE => sock[connectQueue[i].s].state = "open"

(* Beside IndInv: callbacks run in their own loop of the frame, and what is read, or will be *)
(* once the job has run, has been announced or will be before its data is delivered.        *)
AnnounceInv ==
  /\ AnnouncedFirst
  /\ call.fn = "OnData" => phase = "data" /\ call.c \in Contexts
  /\ call.fn \in {"OnConnect", "Connected"} => phase = "connect"
  /\ phase = "data" => \A i \in DOMAIN connectQueue : connectQueue[i].late
  /\ \A i \in DOMAIN jobs : jobs[i].fn = "UV_StartRead" => ctx[jobs[i].c].announced
  /\ \A s \in Sockets : call.new = s => ctx[s].announced
  /\ \A c \in Contexts : ctx[c].life = "none" => ~ ctx[c].announced

IndInv ==
  /\ TypeOK /\ RunInv /\ BirthInv /\ SocketInv /\ ResolveInv /\ DeleteIsLast /\ DeleteInv /\ EndInv
  /\ "connect" \notin hasty => OrderInv
  /\ hasty = {} => QuietInv
=============================================================================
