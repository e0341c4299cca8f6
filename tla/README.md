# CSS-ZE-Starter in TLA+

CSS-ZE-Starter collects the C++ extensions (SourceMod/Metamod plug-ins for the
game server process) that Counter-Strike: Source "Zombie Escape" servers run.
This directory models them in TLA+, checks the models with TLC and proves
theorems about them with TLAPS. The repository's C++ is the reference; every
definition that stands for code names its lines in `PROJECT.json` under `map`.

Contents: [the system](#the-system) · [the plan](#the-plan) · [the
modules](#the-modules) · [the runs](#the-runs) · [fairness](#fairness) · [what
is proved](#what-is-proved) · [what the checks found](#what-the-checks-found) ·
[limits](#limits)

## The system

All extensions live in one process. The *game thread* runs everything: the
engine's frames (`OnGameFrame`), network hooks, game events and the SourcePawn
plugins, whose calls into an extension are *natives* and whose handlers are
*forwards* and *callbacks*. Only AsyncSocket has a second thread. So the hard
behaviours are of three kinds: the two threads of AsyncSocket; callbacks that
come back into the extension that made them (a plugin may close the very object
it is called about); and bookkeeping spread over many events whose order the
engine, the players or Steam decide.

| Component | State | Operations | What makes it hard | What makes it correct |
|---|---|---|---|---|
| **AsyncSocket: ReaderWriterQueue** (`readerwriterqueue.h`, `atomicops.h`) | a circular list of blocks, each a ring with its two indices and two shadow indices | `enqueue`, `try_enqueue` (producer), `try_dequeue`, `peek`, `pop` (consumer) | lock-free; blocks are reused, appended and left while the other side looks on | a linearizable FIFO; a slot never used by both; elements made and destroyed once |
| **AsyncSocket: job hand-over** (`extension.cpp`, `libuv/src/unix/async.c`) | `g_AsyncAddQueue`, `pending` of each `uv_async_t`, the eventfd, the loop's handle list | `enqueue` + `uv_async_send`; `uv__async_io`, `UV_OnAsyncAdded`, `UV_Quit` | wake-ups are coalesced by three unlocked steps on `pending` | no wake-up lost, jobs run once and in order, the loop stops cleanly |
| **AsyncSocket: sockets and contexts** (`extension.cpp`, `context.cpp`) | the contexts' flags and pointers, `uv_tcp_t` handles, three event queues | natives Create, Connect, Listen, Write, handle destruction; `OnGameFrame`; the libuv callbacks; unloading | both threads read and write one context without a lock; either may decide to delete it | memory used only while it lives, handles closed once, every request answered, unloading ends with nothing left |
| **Voice: ring buffer** (`ringbuffer.cpp`) | samples, read and write index, length | `Push` (mix, then append), `Pop`, `Get/SetWriteIndex` | one buffer, one reader, several writers that move one write index about; unsigned modulo arithmetic | samples come out in order, each the saturated sum of what was pushed for that moment |
| **Voice: network** (`Voice/extension.cpp`) | client slots, poll set, per-client write index, pacing | `HandleNetwork`, `OnDataReceived`, `HandleVoiceData` | partial receives, removal while iterating, pacing against real time | one slot per connection, the poll set and slots agree, no client writes behind the reader |
| **A2SQCache** (`A2SQCache/extension.cpp`) | cached info/players replies, client flags, player counts | packet hook, `UpdateQueryCache`, game events, timer | counts kept by events that may be missed or doubled | the cached reply describes the players on the server |
| **connect: query cache** (`connect/extension.cpp`) | the same, extended | the same | the same; both hook the same packets, hence the README's warning | the same |
| **connect: authentication** (`connect/extension.cpp`) | `g_ConnectClientStorage` by SteamID, three globals set around engine calls | `ConnectClient` detour, `ClientPreConnectEx` native, Steam's response, disconnects | an attempt may wait for a plugin's asynchronous answer while the client retries, others connect and Steam answers | an attempt is decided once, on its own data; every Steam session begun is ended |
| **CSSFixes** (`CSSFixes/extension.cpp`) | patched bytes with their originals, detours, flags of nested calls | load, unload, detours | loading may fail at any patch; detours nest | failure or unloading restores every byte; a flag is set exactly inside its call |
| **outputinfo** (`outputinfo/extension.cpp`) | the engine's linked lists of output actions | find, count, delete | deletion while walking | the list without the deleted actions, in order |
| **DHooks2: detours** (`DynamicHooks/`) | per hook: callbacks, stacks of return addresses, pre-call results and saved registers | `HookHandler` before and after the call, add/remove callback | the hooked function recurses, callbacks call it, supersede it or remove the hook | every post-call meets the record of its own pre-call |
| **DHooks2: virtual hooks, natives** (`natives.cpp`, `vhook.cpp`, `dynhooks_sourcepawn.cpp`, `listeners.cpp`) | hook setups, hooks by entity, plugin callbacks | natives, entity and plugin and map life cycle | owners vanish in any order, also during a callback | no hook or callback outlives its owner |
| **sourcetvmanager** | wrappers of SourceTV servers and clients, hooks, forwards | server start/stop, natives, hooks | wrappers follow objects the engine owns | a wrapper exists exactly as long as its server; hooks are balanced |
| **custom-sourcemod** | – | – | only build artefacts, no source | – |

How they interact: the extensions are independent of one another but for
A2SQCache and connect (same packets, see the repository's README). Inside
AsyncSocket, natives and `OnGameFrame` (game thread) send jobs to the loop thread
through one `ReaderWriterQueue` and a `uv_async_t`; the libuv callbacks (loop
thread) send connections, data and errors back through three more queues that
`OnGameFrame` polls. Both write the context's fields directly. Voice feeds the
ring buffer from its TCP clients and drains it into the engine's voice channel,
both from `OnGameFrame`.

## The plan

Ordered by importance and by what later modules need.

1. **Queue** – `SpscQueue` (promise), `ReaderWriterQueue` (code),
   `ReaderWriterQueueProofs`, `ReaderWriterQueueFifo`. *Done*: model, run, and all its
   safety properties, the refinement among them, as theorems.
2. **Job hand-over** – `JobRelay` (promise), `UvAsync` (code, on top of
   `SpscQueue`), `UvAsyncProofs`. *Done*: model, run, and all its safety properties, the
   refinement among them, as theorems.
3. **Sockets** – `AsyncSocket`, on the promises of 1 and 2, `AsyncSocketProofs`.
   *Done*: model, runs, finding, and all its safety properties as theorems.
4. **Voice** – `VoiceStream` (promise), `MixBuffer` (the ring's arithmetic),
   `Voice` (clients, poll set, playing), `VoiceProofs`. *Done*: model, run, and all
   its safety properties, the refinement among them, as theorems, for any sizes.
5. **Connect** – the asynchronous authentication: storage, Steam sessions, globals
   around engine calls; `ConnectProofs`. *Done*: model, runs, finding, and all its
   safety properties as theorems.
6. **DHooks** – the bridge and its stacks under recursion, overriding and
   superseding, with callbacks added and removed meanwhile; `DHooksProofs`. *Done*:
   model, runs, finding, and all its safety properties as theorems, for any depth.
   Left: virtual hooks.
7. **QueryCache** – client bookkeeping of A2SQCache and of connect;
   `QueryCacheProofs`. *Done*: model, runs, finding, and `KnowsClients` as a theorem,
   for any number of slots that a byte can count.
8. **sourcetvmanager** – the hooks and wrappers that follow a SourceTV server.
   Not begun. CSSFixes and outputinfo are not worth a model, see the limits.

## The modules

### SpscQueue and ReaderWriterQueue

`SpscQueue` is the promise: a sequence, calls that begin and commit. A consumer
is told "empty" only if the queue was empty when it called; `try_enqueue` gives
up only if at least `maxSize` elements were queued when it called; `enqueue` only
if memory ran out.

`ReaderWriterQueue` is the code. A variable per field (`frontBlock`,
`tailBlock`, and per block `front`, `localTail`, `tail`, `localFront`, `next`,
`size`, the slots), and a program counter per thread. One action is one access
to something the other thread may touch, with the thread's private work up to
the next one: the load of `front` in the producer's test, the construction in
the slot, the store to `tail`, and so on. `size` holds `sizeMask + 1`. Blocks
are numbered as `make_block` returns them; `MaxBlocks` bounds them, and any
allocation may fail besides. `queue`, `fullAtCall` and `emptyAtCall` are history
variables, which no guard of the code's reads: the elements enqueued and not yet
dequeued, and what the promise needs to remember from a call's beginning.

The refinement mapping takes `queue` for the promise's sequence: an enqueue takes
effect at its last store (of `tail`, or of `tailBlock`), a dequeue when it gives the
slot back. What a dequeue or a peek returns is what the code found in the slot; that
this is the head of `queue` is what there is to show, and follows from `QueueInv`: the
blocks from `frontBlock` to `tailBlock` hold exactly `queue`.

### JobRelay and UvAsync

`JobRelay` is the promise: jobs, numbered as they are queued, are accepted into a
set, and the oldest is taken out and run, up to the quit job. `UvAsync` has the game thread between its queue operation and the
four steps of `uv_async_send` (`gPC`), and the libuv thread between poll, walk,
callback and drain (`uPC`). The queue inside is `SpscQueue` by `INSTANCE`, which
`ReaderWriterQueue` implements. The eventfd is one bit, zero or not. Spinning in
`uv__async_spin` is a guard: the walk cannot pass a handle whose `pending` is 1.
A job has a `uv_async_t` of its own, inserted behind the others and sent at once.

### AsyncSocket

State: `ctx` (the fields of `CAsyncSocketContext` that control anything, and
whether it is allocated), `sock` (each `uv_tcp_t`: its state, its `data` pointer
and what it is in use for), the number of `getaddrinfo` requests on each
`m_Resolver`, the job queue (by `JobRelay`), the three event queues (FIFOs by
`SpscQueue`), where the game thread is (`phase` of `OnGameFrame`, the plugin's
`call`, the `native` in its second half), where the loop thread is (`uv`), and
the life of the extension (`mode`).

Natives are actions enabled whenever plugin code runs: between frames and inside
callbacks. What one thread does is split into two actions exactly where the
other can get in between and tell: `Connect`'s two tests, `OnHandleDestroy`'s
store to `m_Deleted` and its decision, the steps of `UV_OnAsyncResolve` and
`UV_OnAsyncResolved`, the two stores of `UV_OnRead`. A step that would touch a
freed context or handle, or close a handle twice, is undefined behaviour: `mode`
records which and everything stops. `hasty` is a history variable: the risks
taken so far (a close or a connect with something in flight, a failed accept, an
unload with something in flight), which lets a property say when the code is
safe and a run bound what it explores. Two more are history: `announced`, that a
callback has told the plugin that a context is connected, and `late` of an entry of
`connectQueue`, that it was queued when the frame's connect loop had ended. No guard
looks at either; `AnnouncedFirst` does.

### VoiceStream, MixBuffer and Voice

`VoiceStream` is the promise: one stream of samples not yet played and, for each
client, how many of them come before its next one. Writing adds, saturated, to
what is there and appends the rest; playing takes a frame off the front and moves
every client along, at least to the front.

`MixBuffer` is `CRingBuffer` as operators on a record `[buf, read, length]`: `Pop`,
`Push` with its split into mixing and appending, and the two distances, computed in
the width of `size_t`. The write index is an argument: the code sets it before
every use. `Voice` is the extension: the clients' fields, the array that `poll`
looks at (without the listener's entry), the loop variables of `HandleNetwork`
and `HandleVoiceData`, the ring, and how far the voice channel is ahead of the
clock, in frames. All of it runs in `OnGameFrame`; an action is one turn of one
of the loops. What the sockets report and how many bytes `recv` gives are chosen
when the code asks, so data may arrive between FIONREAD and `recv`. Bytes are
counted, and an odd one kept (`unEven`), but samples are chosen whole. Whether
silence counts as old (`m_LastValidData + 1.0 < getTime()`) is a free choice. The entries of
closed sockets are removed from the poll array one per action, as the code's loop
does (`CompressPollFds`), though nothing can come between. A
failed `accept` takes a slot of socket -1 and appends an entry; when the array is
full that is a write behind it, `phase = "overrun"`, where the model stops.

The refinement mapping reads the stream off the ring from the read index, and a
client's place off its write index once it has received something.

### Connect

The connect extension decides who may connect. `ConnectClient`, a detour of the
engine's function, begins a Steam session for the player's ticket, asks a plugin,
and keeps a record per SteamID (`storage`) with which a plugin that answers later
can complete the connection (`ClientPreConnectEx`). Steam's answer about a ticket
arrives at any time, is kept in the record if there is one, and is replayed once
the player is in. Three globals carry what nested detours need: `endAuth` (end the
session if the engine rejects), `lastClient` (the SteamID `CheckChallengeType` is
to set), `suppress` (the attempt was accepted already).

The game thread runs everything, so an action is one detour, native or event with
all it calls: the engine's function with the detours under it, a kick with the
`PlayerDisconnect` it causes. The ways through the detour of ConnectClient are
actions of their own: `Refuse`, `Wait` (an automatic retry while the plugin is
undecided), `GoAsync`, `Accept` and `AcceptRefused` (the engine refuses, before
or after it called `CheckChallengeType`).

The engine and Steam are not in the repository. Assumed of them, from how the code
uses them: Steam takes no ticket for a SteamID that has a session and answers only
for a session, maybe more than once; a client that leaves has its session ended; a
good answer verifies the clients with that SteamID, a bad one disconnects them;
`Disconnect` fires the event before it returns; a proxy may connect at any time and
goes through `CheckChallengeType` too. The three settings that pretend Steam were
there (`sv_nosteam`, `sv_forcesteam`, not being logged on) are one variable,
`noSteam`. `risks` is a history variable: what has happened that is known to void a
promise. It names the exceptions of each property, and a run bounds with it what it
explores.

### DHooks

One function that plugins have detoured. The function jumps to a bridge, which
replaces the return address by that of a post-callback, saves the registers in
`m_pRegisters`, calls `HookHandler`, restores the registers and goes on to the
original, or past it. The post-callback does the same after the original.
`HookHandler` keeps what it needs from one to the other on three stacks;
`HandleDetour` calls the plugins' callbacks and combines their answers.

`frames` is the machine's stack of calls in progress and where each is; a call's
place stands for the value of ESP. `stack` holds one argument per place, the
original may overwrite it (as a compiler may), and data are known by who set them:
the caller, a callback or the original, at which depth. Calls begin wherever code
runs that may call: the game, the original itself, and plugins between and inside
callbacks. Enabling and disabling of callbacks, and unloading of plugins, happen
wherever plugins run. `broken` is undefined behaviour: a list freed under the walk
through it, a hook freed under its calls, a wrapper used after it was deleted, a
call that goes on with another's ESP or without a return address.

History: `due` and `set` in a frame remember who should be called and what was
decided; `risks` whether a callback called the function, or callbacks were removed,
during the calls in progress.

### QueryCache

A2SQCache and connect answer A2S_INFO and A2S_PLAYER from their own count and list
of players, which the events `player_connect` and `player_disconnect`, late
loading and the detour of `InactivateClients` keep up to date; a timer writes the
answers each second. One module for the two, which are alike but for four
definitions; `ext` says which, from the beginning. An action is one event, callback
or timer. `clients` and `slots` are the engine's: who is where, and which of its
client objects have ever been used. Counts are `uint8_t`: `BYTE` values. `apart` is
connect's `sv_count_bots_info`, taken not to change. The texts, scores and times in
the answers, the rate limit and the challenge are left out.

## The runs

| Run | Shows | Instance and bounds |
|---|---|---|
| `queue` | type correctness, no slot race, slot lifetimes, the code's assertions, the inductive invariant, and that the queue implements `SpscQueue` | blocks of two slots (one element each), one initially, up to three: every path between blocks, every wrap |
| `async_jobs` | `uv_async_send` never aborts, no lost wake-up, a stopped loop is empty, `JobRelay` is implemented, jobs run, the loop ends, and the inductive invariant | five jobs, any of them the quit job: enough for jobs in the queue, in the drain, in the current and in the next walk at once |
| `socket` | the inductive invariant (types first), one resolver request per context, deletion is the last job, a plugin hears of a connection before its data (but for a client that connects behind the frame's connect loop), the invariant that rests on, unloading leaves nothing; a plugin that closes handles only when nothing is in flight is safe | two created contexts and two handles (interchangeable), two waiting jobs, one waiting event, one chunk of data; behind a first risk one context and no data |
| `socket_live` | destroyed contexts are freed, requests answered, unloading ends | one context, one handle |
| `socket_double_close` | libuv's assertion in `uv_close` fails | one context, one handle |
| `voice` | the inductive invariant (types first), slots and poll entries agree, the poll array is long enough unless an accept failed, no client is left behind the player unnoticed, `VoiceStream` is implemented | a ring of four one-bit samples, frames of one, up to two at a time, two clients, up to two bytes' worth of samples and an odd byte per `recv`, failing `accept` and `celt_encode`: mixing, saturation, wrap-around, lag, refused pushes |
| `connect` | the inductive invariant (types first), own SteamID, nobody unverified, records match clients, undecided requests keep their record | two SteamIDs, one of them from two addresses, any number of attempts of each; two slots |
| `connect_kick` | a kick disconnects somebody else | the same, one slot |
| `dhooks` | the inductive invariant (types first), the hook holds together, arguments and return values are right | two callbacks, two of them enabled at a time, before, after or both, even the same twice; two calls in progress |
| `dhooks_skip` | a callback is skipped | the same, one call |
| `query_cache` | the inductive invariant (types first), the cache knows the clients, the answer to A2S_INFO catches up | three slots, three user ids, counts of four values: bots, SourceTV and players together, every order of events |
| `a2s_count` | the count in A2SQCache's answer is wrong | two slots, bytes of eight bits |

Bounds. Queue: the queue never looks at its elements, so `EnqueueInOrder` only
lets the producer enqueue the successor of the last queued element: a lost,
repeated, swapped or stale element still shows. AsyncSocket: `MaxJobs` and
`MaxEvents` bound what is waiting when a *native* is called, and only then; what
callbacks and the loop thread queue on their own is never held back.
`MCAsyncSocket` adds one constraint, `OneRisk`: until the plugin, or the system,
takes a risk, everything is explored, which is where `QuietIsSafe` says something;
behind a risk only behaviours with risks of that kind (as often as it likes), with
one context and without data. Behaviours that mix kinds reach undefined behaviour
even sooner, where the model stops and every property is about what came before.
The constructor's case of
several initial blocks needs larger blocks than TLC can explore and is covered
by the proof only.

Voice: `SizeT` is a multiple of the buffer's size, as 2^32 is of 32768, and small.
`MaxLead` bounds how much a client has ahead of the player when it received
something; it is the most that leaves more than a frame free. `Faults` lets
`celt_encode` fail only for a frame with which nobody's data ends. These are the
bounds up to which the underrun test is right (see the findings). Samples of one
bit tell overwritten, mixed and copied apart, and two overlapping ones saturate. A
view leaves the fields of a slot without a socket out of the state, since `Accept`
sets them all before anything reads them.

Connect: requests are three, so that one SteamID is used from one address twice,
from two addresses, and beside another; each may come at any time, so an automatic
retry is the same request again, a manual one is taken by its other challenge.
`OneRisk` stops a behaviour at its second kind of risk: each promise is checked
where nothing, and where one kind of thing, has gone wrong. The exceptions a
property names are thus needed one by one.

DHooks: `MaxDepth` and `MaxListeners` bound the calls in progress and the enabled
callbacks. Two calls are enough for one to disturb the other's registers and
stacks, two callbacks for one to be decided against, skipped or freed by another.
The two play the same part (symmetry).

`UvAsync`, `AsyncSocket`, `Voice` and `DHooks` disable the deadlock check: the
extension is unloaded in the end, or undefined behaviour ends it. Connect never
stops either way but for the bound on risks, so it is off there too; the queue's and
QueryCache's runs check it.

Every property comes with a mutant: a variant of one definition, as a plausible
mistake in that code would make it, under which the property fails. The variants
stand in the modules before the definition they vary.

## Fairness

`UvAsync`: weak fairness for each thread's steps once it has begun something.
Both threads are scheduled by the operating system; nothing makes the game
thread post another job.

`AsyncSocket`: weak fairness for the loop thread's own steps, for the frame's
loops, for the second half of a native, for the answer of a name lookup and the
end of a connection attempt (both end by success or by time-out in the system)
and for the steps of unloading. Strong fairness for beginning a frame and for
the return of a plugin's callback: a plugin may call natives again and again,
but plugin code returns (SourceMod stops a plugin that does not) and the server
goes on with its next tick. A peer need never send, connect or close anything.

`QueryCache`: weak fairness of the timer, which SourceMod repeats each second for
as long as the extension is loaded. Nobody need connect or leave.

Voice, Connect and DHooks state no fairness: their properties are safety properties.

## What is proved

`ReaderWriterQueueProofs`, for every set of elements, every `MAX_BLOCK_SIZE`
(a power of two of at least 2), every constructor argument and every number of
blocks (`QueueAssumption`):

- `BlockInvariance`: `Spec => []BlockInv`; and from it `TypeCorrect` (`TypeOK`),
  `NoRace` (`NoSlotRace`), `Lifetimes` (`SlotLifetimes`) and `Assertions`
  (`BlockAssertions`).

None of these is inductive alone. That the slot the producer constructs in is
not in the consumer's hands follows from the order of the indices around a block
– `localFront`, `front`, `localTail`, `tail`, less than a lap apart – so that a
shadow errs only towards "full" and "empty" (`ShadowInv`); that a slot is live
exactly between `front` and `tail` (`SlotInv`); and, for the moves between
blocks, from the shape of the list: blocks behind the front block up to the tail
block hold elements, those beyond are empty but for the one the producer is
about to move on to (`RingInv`), with what each program counter knows
(`ProducerInv`, `ConsumerInv`). `RingInv` states the shape by the *position* of
each block, an existentially quantified function from blocks to places in the
ring: a step gives the new positions explicitly (the front block moves on: every
position drops by one; a block is linked: those behind it move up). The proof
has a lemma per action; under it one step per conjunct the action can disturb.

`ReaderWriterQueueFifo`, under the same assumption:

- `Invariance`: `Spec => []IndInv`, where `IndInv` is `BlockInv` and `FifoInv`;
- `Refinement`: `Spec => FifoSpec`.

`QueueInv` cuts `queue` into pieces, one per block from the front block to the tail
block in the order of their positions: `start[b]` elements stand before those of block
`b`, and the blocks between the two are full. `BlockInv` and `QueueInv` each provide a
numbering of the ring; a ring has only one (`PositionsUnique`), so they are the same.
What is in a slot counts until the slot is given back (`ElementAt`), so moving the
element out changes nothing; publishing appends to the tail block's piece or opens a
new one; releasing drops the first element and every `start` but the front block's
moves down. The consumer may leave the front block because its piece is empty.

Two answers remain. "Empty": if something was queued at the call, something still is,
as only the consumer takes out, and the first element is in the front block or, when
that is empty, in the next one (`FrontElement`), where the code looks (`DequeueInv`).
"Full": `try_enqueue` gives up after finding the tail block full and the next one in
use; then every block but the front one is full, or the only block is (`RingFull`),
blocks are never smaller or fewer than the constructor made them (`CapacityInv`), and
that many hold `maxSize` elements (`Enough`), so at the call, before which nothing else was enqueued, `maxSize`
were queued too (`EnqueueInv`).

`UvAsyncProofs`, for every number of jobs (`MaxJobsAssumption`):

- `Invariance`: `Spec => []IndInv`; and from it `TypeCorrect` (`TypeOK`),
  `SendNeverAborts` (`NeverAborts`), `WakeUpsKept` (`NoLostWakeup`) and
  `NothingLeftBehind` (`StoppedEmpty`);
- `Refinement`: `Spec => RelaySpec`, the hand-over implements `JobRelay`.

`GameInv` and `LoopInv` say what each thread knows at each program counter, the
pending word of `g_UV_AsyncAdded` among it: 1 exactly while the game thread is
between its two compare-and-swaps. `OrderInv` is the heart: the jobs between
queue and callback stand in the order of their numbers – the one that runs, those
still in the walk, those for the next walk, the one being started, the queue –
although a visited handle moves to the *end* of the loop's list before its
callback runs. So the job that runs is the oldest (`OldestRuns`), and the quit
job, which is the youngest too, is then the only one. `StartedInv` and
`QueuedInv` say why nothing is forgotten: a started job is pending and will be
visited, in this walk or after a wake-up; while the queue holds something its
sender is on the way, or the handle is pending, or the drain has not seen the
queue empty. For the refinement each action maps to one of `JobRelay` or, if it
only moves a job along, to a stutter.

`AsyncSocketProofs`, for any contexts and handles and any bounds
(`SocketAssumption`: the bounds are numbers, NULL is neither context nor handle):

- `Invariance`: `Spec => []IndInv`; and from it `TypeCorrect` (`TypeOK`),
  `OneResolverAtATime` (`OneResolver`), `DeletedByItsLastJob` (`DeleteIsLast`),
  `UnloadLeavesNothing` (`NothingLeft`) and `QuietPluginsAreSafe` (`QuietIsSafe`);
- `Announcement`: `Spec => []AnnounceInv`, by induction beside `IndInv`; and from it
  `AnnouncedBeforeRead` (`AnnouncedFirst`).

`OneRisk` and the bounds on what waits are bounds of the run: the theorems are about
behaviours with any mixture of risks and, `MaxJobs` and `MaxEvents` being any numbers,
with queues of any length. Six parts of `IndInv` hold whatever a plugin does: who runs
where (`RunInv`); nothing refers to a context or handle before it is made (`BirthInv`);
what is true of a connection before it is announced (`SocketInv`); `m_Pending` is set as
long as a look-up, or the job that asks for one, is under way (`ResolveInv`, which gives
`OneResolver`); after `m_Deleted` nothing but the deletion is queued for a context, and
only once (`DeleteIsLast`, `DeleteInv`); what is gone when (`EndInv`). `OrderInv` – a
socket is its own context's, an accepted connection is read after its callback – needs
that no second Connect slipped past the guards of the first. `QuietInv` holds as long as
no risk is taken and is why `QuietIsSafe` is true: every job, event and handle that names a context names one that
is live, and a context about to be deleted is named by nothing else. Freed memory is
touched in some thirty places; that each leads to `mode` saying so, and that `QuietInv`
excludes each, is one lemma (`TouchStep`).

`AnnounceInv` is about what the plugin hears. Announcements and data come through two
queues, so that data follows its announcement rests on `OnGameFrame`: it leaves the
connect loop with `connectQueue` empty. What is read, and whose data waits, was therefore
announced or has its announcement in `connectQueue` (`Heard`); in the data loop what is
in `connectQueue` came after (`late`); a `UV_StartRead` job is for a context whose
callback has returned. The steps need `OrderInv` (whose socket is read) and are proved
with `IndInv` in both states.

`ConnectProofs`, for any SteamIDs, slots and requests (`ConnectAssumption`: the names
for "none" and "a proxy" are not SteamIDs, slots or records):

- `Invariance`; and from it `TypeCorrect`, `OwnIdentity` (`OwnSteamID`), `Validated`
  (`AllValidated`), `RecordsMatch` (`RecordsMatchClients`) and `Recorded`
  (`UndecidedRecorded`).

What is promised of a player depends on records, and those on who leaves. `LastInv`
says whose SteamID `CheckChallengeType` would set, `AsksInv` that a request the plugin
has yet to decide is the only one for its SteamID and has its record, `MatchInv` that a
record with a client is about who is in that slot, `SessionInv` that the session an
abandoned attempt takes along is nobody's who plays and that Steam owes an answer, or
has given one, about every undecided request.
Each names the risks that end it, and they are the exceptions the properties name.
`UndecidedRecorded`, for example, ends with `"again"`: a manual retry replaces the
record of the attempt that the plugin still has before it.

`DHooksProofs`, for any callbacks, any depth and any number of listeners
(`DHooksAssumption`):

- `Invariance`; and from it `TypeCorrect`, `Together` (`HoldsTogether`), `Arguments`
  (`SeesArguments`) and `Decisions` (`ReturnsDecided`).

Each of the hook's stacks is shared by the calls in progress, and no entry says whose it
is. The invariant says it: the n-th entry from the bottom belongs to the n-th call, from
the outermost, that is at a place where it has one (`StackInv`, `AddressInv`,
`ReturnInv`). That each step pushes or takes its own call's entry is then counting: the
call on top is the last of those that have one (lemma `Ranks`). `RegsInv` and `ArgsInv`
say when the registers are the top call's, `DueInv` that a callback which is due stands
further on in the list. A nested call or a removed callback voids parts of them:
`risks` says so before anything breaks.

`QueryCacheProofs`, for any user ids and any number of slots fewer than a byte can
count (`QueryCacheAssumption`):

- `Invariance`; and from it `TypeCorrect` and `KnowsWhoIsThere` (`KnowsClients`).

`EngineInv` is what the engine keeps to: a user id is one client's, clients are in slots
that were used. So a slot found by user id is the right one, and each event changes one
cardinality by one. That the `uint8_t` counters, which wrap, never do follows from the
bound on the slots.

`VoiceProofs`, for any number of clients and any sizes of the buffer, of a frame and
of what `recv` gives (`VoiceAssumption`, and `MixBufferAssumption`: the buffer's size
divides the range of `size_t`):

- `Invariance`; and from it `TypeCorrect` and `PollsAgree` (`PollsClients`);
- `AllUnderrunsNoticed` (`UnderrunsNoticed`) and `Refinement`: `Spec => StreamSpec`,
  if `MaxLead + FrameSize < BufferSize` and `"unnoticed"` is not in `Faults`.

The two conditions are the bounds of the underrun test, beyond which the code is wrong
(see the findings); the run's values meet them. The rest needs no condition. Four ideas
carry the proof. The difference of two indices in the width of `size_t`, modulo the
buffer's size, is their distance around the ring (`DistanceIs`), and each cell after a
push is known whatever the split into mixing and appending and wherever either wraps
(`PushIs`). Open slots and open poll entries are in one-to-one correspondence, and an
entry of a closed socket is there only until the loop is over or after a failed accept
(`PollInv`), so the array suffices by counting. Since a client last sent, the player has
only come closer (`LagInv`): if it passes the client, the distance jumps to almost a
lap, more than it was when the client last sent, which is what the code tests. And for
the refinement: dropping a frame from the ring drops it from the stream, a push changes
the stream from the client's place on, the sum of old and new as far as there is old.

Only model-checked: liveness
(`DestroyedIsFreed`, `Answered`, `UnloadEnds`, `InfoCatchesUp` and those of `UvAsync`),
which is out of the prover's reach, and what the code does not keep: the properties of
the runs that expect a violation.

## What the checks found

`socket_double_close`: libuv asserts, in `uv_close`, that a handle is not closing
yet. A plugin that calls Connect and closes its socket before the attempt is
decided breaks it: `UV_OnConnect`, seeing `m_Deleted`, closes the socket but
leaves `m_pSocket`, and the `UV_DeleteAsyncContext` job closes it again – or, in
the other order, closing a connecting socket makes libuv call `UV_OnConnect` with
`ECANCELED`, which closes it again (and reads a freed context).

`connect_kick`: a player who connects with the SteamID of one who is in, from
another address, kicks that one. The record goes with the kicked player, but the
detour stores its own copy of it, with the kicked player's client, address and
challenge. While the plugin then decides, somebody else may get that client's slot;
the newcomer's next attempt, an automatic retry even, disconnects him with "Same
Steam ID connected.".

`dhooks_skip`: "Call all the plugin functions.." walks a vector by index; a callback
that disables itself moves the next one to the index just done, and it is skipped.

`a2s_count`: the byte that counts the players in A2SQCache's answer to A2S_PLAYER is
increased for each player at each update and never set back. connect, made from
A2SQCache, writes into a fresh array and counts right.

Met while modelling Connect, without a run of their own:

- The comments on retries (lines 475-488) want only a client whose decision is under
  way to wait. The code does not look whether one is: a player accepted at once
  whose reply was lost retries with the same challenge, finds his record, and waits
  for a decision nobody will make.
- A completion sets the SteamID of whoever tried to connect last (`"overtaken"`):
  `ClientPreConnectEx` does not set `g_lastClientSteamID` back.
- `g_bEndAuthSessionOnRejectConnection` stays set while a plugin decides, and the
  next rejection, be it of a player without a cookie, ends the last player's session.
- `g_bSuppressCheckChallengeType` stays set if the engine refuses an accepted player
  before it asks (a wrong password, no slot): a proxy that connects next is let in
  with that player's SteamID (`"proxy"`).
- If Steam comes back between a failed ticket and the decision, the player is let in
  and never verified (`"logon"`): `AllValidated` names this exception with the
  others.
- A kick ends the session of the SteamID, and it was the newcomer's, begun just
  before.

Met while modelling DHooks: the registers of a hook, ESP among them, exist once. If a
callback calls the function itself, the outer call goes on with the inner call's ESP.
Recursion of the original is fine, since the registers are done with by then.

Met while modelling QueryCache: A2SQCache's late loading counts clients of slots that
were used and are empty (connect skips them); they stay in the answers until the slot
is used again, and then the count is one too many for good.

Met while modelling Voice:

- After each frame `HandleVoiceData` checks, says its comment, for buffer underruns: a
  client whose write index was passed by the read index goes on at the read index.
  The test compares the client's distance ahead, modulo the buffer, with what it was
  when the client last sent. A client that filled the buffer to within a frame and
  falls silent while others talk has the same distance again after exactly a lap (64
  frames) and is never noticed. The same happens to one whose data ends with a frame
  that `celt_encode` fails on, since the test is skipped then.
- The comment says not to `recv` what does not fit in the ring. What fits is measured
  with FIONREAD, but `recv` also takes what arrived since; the push then refuses all
  of it and logs an error (`Drop`).
- Nothing tests `m_PollFds` against the array's length: enough failed accepts overrun
  it. A load that fails calls `SDK_OnUnload`, which leaves `m_pCodec` and `m_pMode`
  set, so that unloading after it destroys them again. The loop that closes the gaps in
  the array (lines 598-599) copies into its last entry from the one behind it; the entry
  is beyond `m_PollFds` then, and no property depends on it. Less than a frame, or a tail
  shorter than 100 ms after a pause, waits in the ring for the next talker.

Met while modelling AsyncSocket, without a run of their own: `OnHandleDestroy` does not look
at `m_Pending`, so a close between Connect and its resolution frees a context a
job or resolver still uses; a frame drains connections, data and errors
separately, so an error callback in which the plugin closes its socket can leave
data events that point to it; the error path of `UV_OnNewConnection` closes the
handle but keeps `m_pSocket`; the result of `uv_tcp_connect` is ignored; a
`getaddrinfo` that fails at once leaves `m_Pending` set; unloading frees the
contexts while the loop thread still runs; `UV_OnConnect` with `m_Deleted` set reads
the handle from the request it has just freed (lines 262-263, `"freed_request"`). `QuietIsSafe` says that these and the
race of two Connects are all there is: without them nothing undefined happens.

A client's connection is read from line 285 on, when its `Connected` callback may still
be far off. `OnGameFrame` usually makes up for it, since it drains the connect queue
before the data queue; but if both are filled after its connect loop has ended and before
its data loop has, `OnData` comes in that frame and `Connected` only in the next.
`AnnouncedFirst` states that this is the only way. An accepted
connection is not read before its callback has returned. No document promises either
order to a plugin.

## Limits

- Memory is sequentially consistent in every model. The fences of `atomicops.h`
  are taken to do their job; plain fields shared by the two threads (`m_Deleted`,
  `m_Pending`, `m_pSocket`, `m_pStream`) are read and written one at a time.
- The content of the data, addresses and ports, and the plugin's callbacks
  registered or not, are left out of `AsyncSocket`; handles are not reused. A
  write request changes nothing but the buffers it owns.
- libuv is vendored. Its async wake-ups are modelled from its source (`UvAsync`);
  of streams only what the extension can observe.
- Voice: loading, unloading, `ListenSocket`, the byte budget of
  `OnBroadcastVoiceData` and `IsClientTalking` are left out; time is counted in
  frames.
- Connect: out of memory ("Internal error."), the text of reasons, passwords changed
  by the plugin, and `OnValidateAuthTicketResponse`'s forward, which decides nothing.
  The settings of `sv_auth_session_response_legal` are the reply "illegal" or "legal",
  but it is taken not to list AuthTicketInvalid (8), as its default does not: with 8 in
  it the detour would pass that answer on to a player whose ticket was not taken (lines
  418 and 582-588).
- DHooks: one function, one argument, one return register, the main thread
  (`HandleDetour` ignores others); the calling conventions and the machine code are
  abstracted. A handle that cannot be made ends the walk; it is taken not to happen.
- QueryCache: see its section. The two extensions are never loaded together, as the
  repository's README demands.
- The queue is model-checked on blocks of one size and one element; blocks of several
  elements and of mixed sizes are covered by the proofs.

Not modelled:

- **CSSFixes**: a table of byte patches and detours of single engine functions; what
  they do is to the engine's memory, which is not in the repository. Its two hazards
  (a load that fails halfway, a flag reset by a nested call) are listed.
- **outputinfo**: natives that read, or unlink from, the engine's list in one walk,
  and keep nothing.
- **sourcetvmanager**: mostly one engine call per native. Its hooks that follow a
  SourceTV server are left for later.
- **DHooks2's virtual hooks**: SourceHook does the work, and it is not in the
  repository; parameter and return handles are conversions.
- The celt codec and most of libuv (vendored), SourceMod, Metamod and the engine, the
  build scripts, and custom-sourcemod, whose sources are not in the repository.
