------------------------------- MODULE DHooks -------------------------------
(***************************************************************************)
(* DHooks2: one detoured function, called by the game, by itself and by    *)
(* plugins.  The bridge (hook.cpp) saves the registers in the hook's one   *)
(* set of registers, asks the plugins' callbacks (HandleDetour), goes on   *)
(* to the original or past it, and comes back through a post-callback.     *)
(* What the post-callback needs of its own call is kept on stacks beside   *)
(* the machine's.  Plugins add and remove callbacks at any time they run.  *)
(* A call is known by its place on the machine's stack, which stands for   *)
(* the value of ESP; what it passes and returns by who set it.             *)
(***************************************************************************)
EXTENDS Naturals, Sequences, FiniteSets

CONSTANTS
  Callbacks,     \* functions of plugins, each used before and after the call
  MaxDepth,      \* (bound) calls in progress
  MaxListeners,  \* (bound) callbacks that are enabled
  NONE

VARIABLES
  hooked,        \* the CHook exists and the function jumps to its bridge
  registered,    \* m_hookHandler: HandleDetour is called before, after
  listeners,     \* g_pPreDetours, g_pPostDetours: the plugins' callbacks
  regs,          \* m_pRegisters
  lastPre,       \* m_LastPreReturnAction
  savedRet,      \* m_pSavedReturnBuffers
  savedArgs,     \* m_pSavedCallArguments
  retAddr,       \* m_RetAddr: how many return addresses are stored for an ESP
  stack,         \* (machine) the argument at a place of the stack
  frames,        \* (machine) the calls in progress
  broken,        \* freed memory has been used, or a call went on with another's stack
  risks          \* (history) of the calls in progress; no action reads it:
                 \*   "nested": a callback called the function
                 \*   "removed": callbacks were removed while a call was in progress

vars == <<hooked, registered, listeners, regs, lastPre, savedRet, savedArgs, retAddr, stack, frames, broken, risks>>
saved == <<lastPre, savedRet, savedArgs>>

Types     == {"pre", "post"}
Ignored   == 0
Handled   == 1
Override  == 2
Supercede == 3
Actions   == Ignored .. Supercede
JUNK      == <<0, "junk">>
Data      == ((1 .. MaxDepth) \X (Callbacks \cup {"caller", "original"})) \cup {JUNK}

ASSUME DHooksAssumption ==
  MaxDepth \in Nat \ {0} /\ MaxListeners \in Nat /\ NONE \notin Callbacks /\ NONE \notin Data

Depth    == Len(frames)
Top      == frames[Depth]
Front(s) == SubSeq(s, 1, Len(s) - 1)
Last(s)  == s[Len(s)]

Listening(t) == {listeners[t][i] : i \in 1 .. Len(listeners[t])}

(* A call: where it is, HandleDetour's i, the callback it executes, finalRet and finalRetBuf, *)
(* EAX as the machine has it; and (history) whether the executing callback's wrapper is gone, *)
(* the argument it should have, the callbacks that are due and those that set the return value. *)
Entered(via, d) ==
  [via |-> via, phase |-> IF via THEN "pre" ELSE "original", i |-> 1, callback |-> NONE,
   final |-> Ignored, value |-> JUNK, eax |-> JUNK, gone |-> FALSE,
   args |-> <<d, "caller">>, due |-> IF via THEN Listening("pre") ELSE {}, set |-> <<>>]

Init ==
  /\ hooked = FALSE /\ registered = [t \in Types |-> FALSE] /\ listeners = [t \in Types |-> <<>>]
  /\ regs = [esp |-> 0, eax |-> JUNK]
  /\ lastPre = <<>> /\ savedRet = <<>> /\ savedArgs = <<>>
  /\ retAddr = [d \in 1 .. MaxDepth |-> 0]
  /\ stack = [d \in 1 .. MaxDepth |-> JUNK]
  /\ frames = <<>> /\ broken = FALSE /\ risks = {}

InCallback  == Depth > 0 /\ Top.callback # NONE
PluginsRun  == ~ broken /\ (Depth > 0 => InCallback \/ Top.phase = "original")
At(phase)   == ~ broken /\ Depth > 0 /\ Top.phase = phase /\ Top.callback = NONE
SetTop(f)   == frames' = [frames EXCEPT ![Depth] = f]

-----------------------------------------------------------------------------
(* Plugins enable and disable callbacks. *)

(* DHookEnableDetour. *)
Enable(t, c) ==
  /\ PluginsRun /\ Len(listeners["pre"]) + Len(listeners["post"]) < MaxListeners
  /\ hooked' = TRUE
  /\ registered' = [registered EXCEPT ![t] = TRUE]
  /\ listeners' = [listeners EXCEPT ![t] = Append(@, c)]
  /\ UNCHANGED <<regs, saved, retAddr, stack, frames, broken, risks>>

(* It fails for a custom register that is not supported, after it has made the hook. *)
EnableFails ==
  /\ PluginsRun /\ ~ hooked
  /\ hooked' = TRUE
  /\ UNCHANGED <<registered, listeners, regs, saved, retAddr, stack, frames, broken, risks>>

(* What is left of a list, in its order. *)
Without(t, c) ==
  LET kept == {i \in 1 .. Len(listeners[t]) : listeners[t][i] # c}
  IN  [n \in 1 .. Cardinality(kept) |->
         listeners[t][CHOOSE i \in kept : Cardinality({j \in kept : j <= i}) = n]]

Emptied(ts, c) == {t \in ts : listeners[t] # <<>> /\ Without(t, c) = <<>>}

\* (mutant) the hook goes with the last callback of either type
UnhooksEither(ts, c) == Emptied(ts, c) # {}

(* UnhookFunction: "Only disable the detour if there are no more listeners." *)
Unhooks(ts, c) == Emptied(ts, c) # {} /\ \A t \in Types : registered[t] => t \in Emptied(ts, c)

(* A list that is walked through, or the hook of a call in progress, is freed. *)
Frees(ts, c) ==
  \E k \in 1 .. Depth : frames[k].via /\ (Unhooks(ts, c) \/ frames[k].phase \in Emptied(ts, c))

Remove(ts, c) ==
  /\ listeners' = [t \in Types |-> IF t \in ts THEN Without(t, c) ELSE listeners[t]]
  /\ registered' = [t \in Types |-> registered[t] /\ t \notin Emptied(ts, c)]
  /\ hooked' = (hooked /\ ~ Unhooks(ts, c))
  /\ broken' = Frees(ts, c)
  /\ frames' = [k \in 1 .. Depth |->
       IF frames[k].phase \notin ts THEN frames[k]
       ELSE [frames[k] EXCEPT !.gone = @ \/ frames[k].callback = c, !.due = @ \ {c}]]
  /\ risks' = IF \E k \in 1 .. Depth : frames[k].via THEN risks \cup {"removed"} ELSE risks
  /\ UNCHANGED <<regs, saved, retAddr, stack>>

(* DHookDisableDetour *)
Disable(t, c) ==
  /\ PluginsRun /\ hooked /\ registered[t]
  /\ c \in Listening(t)
  /\ Remove({t}, c)

(* OnPluginUnloaded: the plugin is not running. *)
Unload(c) ==
  /\ PluginsRun
  /\ \A k \in 1 .. Depth : frames[k].callback # c
  /\ \E t \in Types : c \in Listening(t)
  /\ Remove(Types, c)

-----------------------------------------------------------------------------
(* A call, by the game, by the original itself or by a plugin. *)

\* (mutant) m_pRegisters keeps the stack pointer of the first call
EnterOnce(d) == regs' = [esp |-> IF regs.esp = 0 THEN d ELSE regs.esp, eax |-> JUNK]

(* Write_SaveRegisters *)
Enter(d) == regs' = [esp |-> d, eax |-> JUNK]

Call ==
  /\ PluginsRun /\ Depth < MaxDepth
  /\ LET d == Depth + 1
     IN  /\ frames' = Append(frames, Entered(hooked, d))
         /\ stack' = [stack EXCEPT ![d] = <<d, "caller">>]
         /\ IF hooked THEN Enter(d) /\ retAddr' = [retAddr EXCEPT ![d] = @ + 1]
                      ELSE UNCHANGED <<regs, retAddr>>
  /\ risks' = IF InCallback THEN risks \cup {"nested"} ELSE risks
  /\ UNCHANGED <<hooked, registered, listeners, saved, broken>>

(* HandleDetour calls the next plugin. *)
Execute ==
  /\ \E t \in Types : At(t) /\ Top.i <= Len(listeners[t])
  /\ LET c == listeners[Top.phase][Top.i]
     IN  SetTop([Top EXCEPT !.callback = c, !.gone = FALSE, !.due = @ \ {c}])
  /\ UNCHANGED <<hooked, registered, listeners, regs, saved, retAddr, stack, broken, risks>>

\* (mutant) the first of equals decides
DecidesFirst(action) == Top.final < action

(* "Prioritize the actions." *)
Decides(action) == Top.final <= action

(* The plugin's answer, with its arguments changed or not.  An answer that overrides, or changes *)
(* something, is read with the help of the wrapper.  (Nothing tells Ignored from Handled.)         *)
Answer(action, changed) ==
  /\ ~ broken /\ InCallback
  /\ changed => action \in {Handled, Override}
  /\ broken' = (Top.gone /\ (changed \/ action >= Override))
  /\ LET datum == <<Depth, Top.callback>>
     IN  /\ stack' = IF changed THEN [stack EXCEPT ![regs.esp] = datum] ELSE stack
         /\ SetTop([Top EXCEPT
              !.callback = NONE, !.gone = FALSE, !.i = @ + 1,
              !.final = IF Decides(action) THEN action ELSE @,
              !.value = IF Decides(action) /\ action >= Override THEN datum ELSE @,
              !.args  = IF changed THEN datum ELSE @,
              !.set   = IF action >= Override THEN Append(@, <<Top.phase, action, datum>>) ELSE @])
  /\ UNCHANGED <<hooked, registered, listeners, regs, saved, retAddr, risks>>

(* All have answered.  What they return goes to the registers, which are the machine's from here. *)
Answered(t) == At(t) /\ Top.i > Len(listeners[t])
Written     == IF Top.final >= Override THEN Top.value ELSE regs.eax
OwnStack    == regs.esp = Depth

(* HookHandler for the call: it goes on to the original, or returns from here. *)
BeforeDone ==
  /\ Answered("pre")
  /\ lastPre' = Append(lastPre, Top.final)
  /\ savedRet' = IF Top.final = Override THEN Append(savedRet, Written) ELSE savedRet
  /\ savedArgs' = IF Top.final < Supercede THEN Append(savedArgs, stack[regs.esp]) ELSE savedArgs
  /\ broken' = ~ OwnStack
  /\ SetTop([Top EXCEPT !.eax = Written, !.phase = IF Top.final = Supercede THEN "return" ELSE "original",
                        !.i = 1, !.final = Ignored, !.value = JUNK, !.due = {}])
  /\ UNCHANGED <<hooked, registered, listeners, regs, retAddr, stack, risks>>

(* The original returns; it may have used the place of its argument for something else. *)
OriginalReturns(reused) ==
  /\ At("original")
  /\ IF Top.via THEN SetTop([Top EXCEPT !.phase = "return", !.eax = <<Depth, "original">>])
                ELSE frames' = Front(frames)
  /\ stack' = IF reused \/ ~ Top.via THEN [stack EXCEPT ![Depth] = JUNK] ELSE stack
  /\ UNCHANGED <<hooked, registered, listeners, regs, saved, retAddr, broken, risks>>

\* (mutant) a superseded call's post-callback restores too
RestoresAlways(action) == savedArgs # <<>>

Restores(action) == action < Supercede

(* The post-callback's HookHandler. *)
After ==
  /\ At("return")
  /\ LET action == Last(lastPre)
     IN  /\ lastPre' = Front(lastPre)
         /\ regs' = [esp |-> Depth, eax |-> IF action = Override THEN Last(savedRet) ELSE Top.eax]
         /\ savedRet' = IF action = Override THEN Front(savedRet) ELSE savedRet
         /\ stack' = IF Restores(action) THEN [stack EXCEPT ![Depth] = Last(savedArgs)] ELSE stack
         /\ savedArgs' = IF Restores(action) THEN Front(savedArgs) ELSE savedArgs
  /\ SetTop([Top EXCEPT !.phase = "post", !.eax = JUNK, !.due = Listening("post")])
  /\ UNCHANGED <<hooked, registered, listeners, retAddr, broken, risks>>

(* GetReturnAddress finds the way back by ESP. *)
AfterDone ==
  /\ Answered("post")
  /\ broken' = ~ (OwnStack /\ retAddr[Depth] > 0)
  /\ retAddr' = [retAddr EXCEPT ![Depth] = IF @ > 0 THEN @ - 1 ELSE 0]
  /\ SetTop([Top EXCEPT !.phase = "done", !.eax = Written, !.i = 1, !.final = Ignored, !.value = JUNK, !.due = {}])
  /\ UNCHANGED <<hooked, registered, listeners, regs, saved, stack, risks>>

Leave ==
  /\ At("done")
  /\ frames' = Front(frames)
  /\ stack' = [stack EXCEPT ![Depth] = JUNK]
  /\ risks' = IF Depth = 1 THEN {} ELSE risks
  /\ UNCHANGED <<hooked, registered, listeners, regs, saved, retAddr, broken>>

Next ==
  \/ EnableFails \/ Call \/ Execute \/ BeforeDone \/ After \/ AfterDone \/ Leave
  \/ \E c \in Callbacks : Unload(c) \/ \E t \in Types : Enable(t, c) \/ Disable(t, c)
  \/ \E action \in Actions \ {Ignored}, changed \in BOOLEAN : Answer(action, changed)
  \/ \E reused \in BOOLEAN : OriginalReturns(reused)

Spec == Init /\ [][Next]_vars
-----------------------------------------------------------------------------
Frames ==
  [via : BOOLEAN, phase : Types \cup {"original", "return", "done"}, i : Nat \ {0}, callback : Callbacks \cup {NONE},
   final : Actions, value : Data, eax : Data, gone : BOOLEAN, args : Data,
   due : SUBSET Callbacks, set : Seq(Types \X Actions \X Data)]

(* Every variable keeps its type; a callback is in a list only if HandleDetour is registered  *)
(* for it, and that only if the function is hooked (AddCallback, UnhookFunction).             *)
TypeOK ==
  /\ hooked \in BOOLEAN /\ broken \in BOOLEAN /\ risks \subseteq {"nested", "removed"}
  /\ listeners \in [Types -> Seq(Callbacks)]
  /\ registered = [t \in Types |-> listeners[t] # <<>>]
  /\ (\E t \in Types : registered[t]) => hooked
  /\ regs \in [esp : 0 .. MaxDepth, eax : Data]
  /\ lastPre \in Seq(Actions) /\ savedRet \in Seq(Data) /\ savedArgs \in Seq(Data)
  /\ retAddr \in [1 .. MaxDepth -> Nat]
  /\ stack \in [1 .. MaxDepth -> Data]
  /\ frames \in Seq(Frames) /\ Depth <= MaxDepth

(* "Call all the plugin functions..": whoever listens when HandleDetour begins, and does not  *)
(* stop, is called.  The walk goes by index, and a callback that is removed shifts the rest.  *)
CallsAll == ~ broken => \A t \in Types : Answered(t) => Top.due = {}

(* The hook holds together as long as no callback calls the function itself and none is       *)
(* removed while a call is in progress: recursion of the original and callbacks added at any  *)
(* time do no harm, the stacks are popped as often as pushed, each call finds its own return  *)
(* address, no list is freed under HandleDetour, and every listener is called.                *)
HoldsTogether == broken \/ ~ CallsAll => risks # {}

(* Callbacks and the original see the call's own argument, as changed by those before them,   *)
(* although the registers and the stacks are shared by all calls and the original may use the *)
(* place of its argument for something else (SaveCallArguments, RestoreCallArguments).        *)
SeesArguments ==
  ~ broken /\ "nested" \notin risks =>
    /\ InCallback => stack[regs.esp] = Top.args
    /\ \A k \in 1 .. Depth : frames[k].phase = "original" => stack[k] = frames[k].args

(* What the callbacks of a type decide: the last of those that supersede, or else override. *)
Decided(f, t) ==
  LET mine      == {n \in 1 .. Len(f.set) : f.set[n][1] = t}
      top       == {n \in mine : f.set[n][2] = Supercede}
      Latest(I) == f.set[CHOOSE n \in I : \A m \in I : m <= n][3]
  IN  IF top # {} THEN Latest(top) ELSE IF mine # {} THEN Latest(mine) ELSE NONE

(* A call returns what the callbacks after it decided, else those before it, else what the    *)
(* original returned: the registers are saved and restored around calls inside it.            *)
ReturnsDecided ==
  "nested" \notin risks =>
    \A k \in 1 .. Depth : frames[k].phase = "done" =>
      frames[k].eax = IF Decided(frames[k], "post") # NONE THEN Decided(frames[k], "post")
                      ELSE IF Decided(frames[k], "pre") # NONE THEN Decided(frames[k], "pre")
                      ELSE <<k, "original">>

-----------------------------------------------------------------------------
(* The inductive invariant. *)

(* The calls that wait for the original, or for their post-callback; where lastPre has what   *)
(* is said of one, if no callback has called the function; how many of its first say Override. *)
Waiting(k)   == frames[k].via /\ frames[k].phase \in {"original", "return"}
Entry(k)     == IF Waiting(Depth) THEN (Len(lastPre) + k) - Depth ELSE (Len(lastPre) + k + 1) - Depth
Overrides(n) == {m \in 1 .. n : lastPre[m] = Override}

(* A call under another is in its original or in a callback.  A call that goes through the    *)
(* hook keeps the function hooked, so that what it calls goes through the hook too.           *)
FrameInv ==
  \A k \in 1 .. Depth :
    /\ k < Depth /\ frames[k].phase # "original" => frames[k].callback # NONE /\ "nested" \in risks
    /\ frames[k].callback # NONE => frames[k].phase \in Types
    /\ frames[k].via \/ frames[k].phase = "original"
    /\ frames[k].via => hooked /\ \A j \in k .. Depth : frames[j].via
    /\ frames[k].phase \notin Types => frames[k].i = 1 /\ frames[k].final = Ignored /\ frames[k].value = JUNK
    /\ frames[k].gone => "removed" \in risks

(* Each waiting call has its place on the stacks; one that is superceded does not wait long. *)
StackInv ==
  /\ Len(lastPre) = Cardinality({k \in 1 .. Depth : Waiting(k)})
  /\ Len(savedRet) = Cardinality(Overrides(Len(lastPre)))
  /\ \A n \in 1 .. Len(lastPre) : lastPre[n] = Supercede => n = Len(lastPre) /\ Depth > 0 /\ Top.phase = "return"
  /\ IF Depth > 0 /\ Top.phase = "return" /\ Last(lastPre) = Supercede
       THEN Len(savedArgs) = Len(lastPre) - 1
       ELSE Len(savedArgs) = Len(lastPre)

(* A call that goes through the hook has had its registers saved. *)
RegsInv == \A k \in 1 .. Depth : frames[k].via => regs.esp # 0

(* A return address is stored for those that have yet to come back, and for no others. *)
AddressInv ==
  \A d \in 1 .. MaxDepth : retAddr[d] = IF d <= Depth /\ frames[d].via /\ frames[d].phase # "done" THEN 1 ELSE 0

(* Who is still due is further on in the list. *)
DueInv ==
  "removed" \notin risks =>
    \A k \in 1 .. Depth : \A c \in frames[k].due :
      /\ frames[k].phase \in Types
      /\ \E n \in frames[k].i .. Len(listeners[frames[k].phase]) :
           listeners[frames[k].phase][n] = c /\ (frames[k].callback # NONE => n # frames[k].i)

(* The registers are those of the last call; its arguments are on the machine's stack, or saved. *)
ArgsInv ==
  /\ Depth > 0 /\ Top.phase \in Types => regs.esp = Depth
  /\ \A k \in 1 .. Depth :
       /\ frames[k].phase \in Types \cup {"original"} => stack[k] = frames[k].args
       /\ Waiting(k) =>
            /\ Entry(k) >= 1
            /\ frames[k].phase = "original" => lastPre[Entry(k)] < Supercede
            /\ lastPre[Entry(k)] < Supercede => savedArgs[Entry(k)] = frames[k].args
            /\ lastPre[Entry(k)] = Supercede => stack[k] = frames[k].args

(* finalRet and finalRetBuf are what has been decided, and so is what is saved of them. *)
Resolved(f, t) ==
  /\ f.final >= Override => Decided(f, t) = f.value
  /\ f.final < Override => Decided(f, t) = NONE
  /\ f.final = Supercede <=> \E n \in 1 .. Len(f.set) : f.set[n][1] = t /\ f.set[n][2] = Supercede

Passed(k) == IF Decided(frames[k], "pre") # NONE THEN Decided(frames[k], "pre") ELSE <<k, "original">>

Answers(k) ==
  /\ frames[k].phase = "pre" => Resolved(frames[k], "pre")
  /\ frames[k].phase = "post" => Resolved(frames[k], "post") /\ regs.eax = Passed(k)
  /\ frames[k].phase \in {"pre", "original", "return"} => \A n \in 1 .. Len(frames[k].set) : frames[k].set[n][1] = "pre"

Saves(k) ==
  /\ lastPre[Entry(k)] < Override <=> Decided(frames[k], "pre") = NONE
  /\ lastPre[Entry(k)] = Override => savedRet[Cardinality(Overrides(Entry(k)))] = Decided(frames[k], "pre")
  /\ frames[k].phase = "return" =>
       frames[k].eax = IF lastPre[Entry(k)] = Supercede THEN Decided(frames[k], "pre") ELSE <<k, "original">>

ReturnInv == \A k \in 1 .. Depth : Answers(k) /\ (Waiting(k) => Saves(k))

IndInv ==
  /\ TypeOK
  /\ broken => risks # {}
  /\ ReturnsDecided
  /\ ~ broken => FrameInv /\ StackInv /\ RegsInv /\ AddressInv /\ DueInv
               /\ ("nested" \notin risks => ArgsInv /\ ReturnInv)
=============================================================================
