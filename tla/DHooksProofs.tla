---------------------------- MODULE DHooksProofs ----------------------------
(***************************************************************************)
(* Theorems about DHooks, for any callbacks and any bounds.                *)
(*                                                                         *)
(* A frame stands for each call under way.  The invariant says which       *)
(* entry of each of the hook's stacks is whose (StackInv, AddressInv: the  *)
(* calls that wait, counted from the outermost), what the registers are    *)
(* worth at each point (RegsInv, ArgsInv), what is saved of a decision     *)
(* (ReturnInv), and that who is due is further on in the list (DueInv).    *)
(* No call can tell what another saved, as both take and leave the same    *)
(* number of entries.                                                      *)
(***************************************************************************)
EXTENDS DHooks, TLAPS, FiniteSetTheorems, WellFoundedInduction

(* A set of natural numbers that is not empty has a least one. *)
LEMMA Least ==
  ASSUME NEW T \in SUBSET Nat, T # {}
  PROVE  \E n \in T : \A m \in T : n <= m
<1> DEFINE R == OpToRel(<, Nat)
<1>1. IsWellFoundedOn(R, Nat)
  BY NatLessThanWellFounded
<1>2. ASSUME NEW m \in Nat, NEW n \in Nat, <<m, n>> \notin R
      PROVE  n <= m
  BY <1>2 DEF OpToRel
<1> HIDE DEF R
<1>3. PICK n \in T : \A m \in T : ~ (<<m, n>> \in R)
  BY <1>1, WFMin
<1>4. \A m \in T : n <= m
  BY <1>2, <1>3
<1> QED
  BY <1>3, <1>4

(* A finite set of numbers is counted up to each of them, one after the other. *)
LEMMA Ranks ==
  ASSUME NEW l \in Nat, NEW K \in SUBSET (1 .. l), NEW n \in 1 .. Cardinality(K)
  PROVE  \E i \in K : Cardinality({j \in K : j <= i}) = n
<1> DEFINE Upto(i) == {j \in K : j <= i}
           T == {i \in 0 .. l : Cardinality(Upto(i)) >= n}
<1>0. l \in Nat /\ \A j \in K : j \in Nat /\ j >= 1 /\ j <= l
  OBVIOUS
<1>1. IsFiniteSet(K) /\ \A i \in Nat : IsFiniteSet(Upto(i)) /\ Cardinality(Upto(i)) \in Nat
  <2>1. IsFiniteSet(1 .. l)
    BY FS_Interval
  <2>2. IsFiniteSet(K) /\ \A i \in Nat : IsFiniteSet(Upto(i))
    BY <2>1, FS_Subset
  <2> QED
    BY <2>2, FS_CardinalityType
<1>2. Cardinality(K) \in Nat /\ n \in Nat /\ n >= 1
  BY <1>1, FS_CardinalityType
<1>3. l \in T
  <2>1. Upto(l) = K
    BY <1>0
  <2> QED
    BY <1>2, <2>1
<1>4. PICK i \in T : \A m \in T : i <= m
  <2>1. T \in SUBSET Nat
    <3>1. 0 .. l \in SUBSET Nat /\ T \in SUBSET (0 .. l)
      OBVIOUS
    <3> QED
      BY <3>1
  <2> QED
    BY <1>3, <2>1, Least
<1>5. i # 0
  <2>1. Upto(0) = {}
    <3>1. \A j \in K : ~ (j <= 0)
      BY <1>0
    <3> QED
      BY <3>1
  <2>2. Cardinality(Upto(0)) = 0
    BY <2>1, FS_EmptySet
  <2> QED
    BY <1>2, <1>4, <2>2
<1>6. i - 1 \in Nat /\ Cardinality(Upto(i - 1)) < n
  <2>1. i \in Nat /\ i <= l /\ i - 1 \in Nat /\ i - 1 \in 0 .. l
    BY <1>0, <1>4, <1>5
  <2>2. ~ (i <= i - 1)
    BY <2>1
  <2>3. i - 1 \notin T
    BY <1>4, <2>2
  <2>4. ~ (Cardinality(Upto(i - 1)) >= n) /\ Cardinality(Upto(i - 1)) \in Nat
    BY <1>1, <2>1, <2>3
  <2> HIDE DEF Upto
  <2> QED
    BY <1>2, <2>1, <2>4
<1>7. i \in K /\ Upto(i) = Upto(i - 1) \cup {i}
  <2>0. i \in Nat /\ \A j \in Nat : j <= i <=> j <= i - 1 \/ j = i
    BY <1>4, <1>6
  <2>1. i \in K
    <3>1. i \notin K => Upto(i) = Upto(i - 1)
      BY <1>0, <2>0
    <3>2. Cardinality(Upto(i)) >= n
      BY <1>4
    <3> HIDE DEF Upto, T
    <3> QED
      BY <1>1, <1>2, <1>6, <2>0, <3>1, <3>2
  <2> QED
    BY <1>0, <2>0, <2>1
<1>8. Cardinality(Upto(i)) = Cardinality(Upto(i - 1)) + 1
  <2>1. i \notin Upto(i - 1)
    BY <1>6
  <2> QED
    BY <1>1, <1>6, <1>7, <2>1, FS_AddElement
<1>9. Cardinality(Upto(i)) = n
  <2>1. Cardinality(Upto(i)) >= n
    BY <1>4
  <2> HIDE DEF Upto, T
  <2> QED
    BY <1>1, <1>2, <1>6, <1>8, <2>1
<1> QED
  BY <1>7, <1>9

(* What is left of a list is a list. *)
LEMMA WithoutType ==
  ASSUME NEW t \in Types, NEW c, listeners[t] \in Seq(Callbacks)
  PROVE  Without(t, c) \in Seq(Callbacks)
<1> DEFINE l == listeners[t]
           K == {i \in 1 .. Len(l) : l[i] # c}
           Nth(n) == CHOOSE i \in K : Cardinality({j \in K : j <= i}) = n
<1>1. Len(l) \in Nat /\ K \in SUBSET (1 .. Len(l)) /\ \A i \in K : l[i] \in Callbacks
  OBVIOUS
<1>2. Cardinality(K) \in Nat
  <2>1. IsFiniteSet(1 .. Len(l))
    BY <1>1, FS_Interval
  <2>2. IsFiniteSet(K)
    BY <1>1, <2>1, FS_Subset
  <2> QED
    BY <2>2, FS_CardinalityType
<1>3. Without(t, c) = [n \in 1 .. Cardinality(K) |-> l[Nth(n)]]
  BY DEF Without
<1> HIDE DEF l, K
<1>4. \A n \in 1 .. Cardinality(K) : Nth(n) \in K
  BY <1>1, Ranks
<1> HIDE DEF Nth
<1>5. \A n \in 1 .. Cardinality(K) : l[Nth(n)] \in Callbacks
  BY <1>1, <1>4
<1> QED
  BY <1>2, <1>3, <1>5

-----------------------------------------------------------------------------
(* Pushing on a sequence, taking its last element off, and changing that. *)
LEMMA SeqFacts ==
  ASSUME NEW S, NEW s \in Seq(S), NEW x \in S
  PROVE  /\ Append(s, x) \in Seq(S) /\ Len(Append(s, x)) = Len(s) + 1 /\ Append(s, x)[Len(s) + 1] = x
         /\ \A n \in 1 .. Len(s) : Append(s, x)[n] = s[n]
         /\ Last(Append(s, x)) = x /\ Append(s, x) # <<>>
<1>1. Append(s, x) \in Seq(S) /\ Len(Append(s, x)) = Len(s) + 1 /\ Len(s) \in Nat
  OBVIOUS
<1>2. Append(s, x)[Len(s) + 1] = x /\ \A n \in 1 .. Len(s) : Append(s, x)[n] = s[n]
  OBVIOUS
<1>3. Append(s, x) # <<>>
  BY <1>1
<1> QED
  BY <1>1, <1>2, <1>3 DEF Last

LEMMA FrontFacts ==
  ASSUME NEW S, NEW s \in Seq(S), Len(s) > 0
  PROVE  /\ Front(s) \in Seq(S) /\ Len(Front(s)) = Len(s) - 1 /\ Last(s) \in S
         /\ \A n \in 1 .. Len(s) - 1 : Front(s)[n] = s[n]
<1>1. Len(s) \in Nat /\ Len(s) >= 1
  OBVIOUS
<1>2. Front(s) = [n \in 1 .. Len(s) - 1 |-> s[n]]
  BY <1>1 DEF Front
<1>3. \A n \in 1 .. Len(s) : s[n] \in S
  OBVIOUS
<1>4. Len(s) - 1 \in Nat /\ \A n \in 1 .. Len(s) - 1 : n \in 1 .. Len(s)
  BY <1>1
<1>5. Front(s) \in Seq(S) /\ Len(Front(s)) = Len(s) - 1
  BY <1>2, <1>3, <1>4
<1> QED
  BY <1>1, <1>2, <1>3, <1>5 DEF Last

(* The innermost call is changed, has returned, or calls. *)
LEMMA SetTopFacts ==
  ASSUME TypeOK, Depth > 0, NEW f \in Frames, SetTop(f)
  PROVE  /\ frames' \in Seq(Frames) /\ Depth' = Depth /\ Top' = f /\ frames'[Depth] = f
         /\ \A k \in 1 .. Depth : k # Depth => frames'[k] = frames[k]
<1>1. frames \in Seq(Frames) /\ Len(frames) > 0
  BY DEF TypeOK, Depth
<1>2. frames' = [frames EXCEPT ![Len(frames)] = f]
  BY DEF SetTop, Depth
<1>3. frames' \in Seq(Frames) /\ Len(frames') = Len(frames) /\ frames'[Len(frames)] = f
      /\ \A k \in 1 .. Len(frames) : k # Len(frames) => frames'[k] = frames[k]
  BY <1>1, <1>2
<1> QED
  BY <1>3 DEF Depth, Top

LEMMA PopFacts ==
  ASSUME TypeOK, Depth > 0, frames' = Front(frames)
  PROVE  /\ frames' \in Seq(Frames) /\ Depth' = Depth - 1
         /\ \A k \in 1 .. Depth - 1 : frames'[k] = frames[k]
BY FrontFacts DEF TypeOK, Depth

LEMMA PushFacts ==
  ASSUME TypeOK, NEW f \in Frames, frames' = Append(frames, f)
  PROVE  /\ frames' \in Seq(Frames) /\ Depth' = Depth + 1 /\ frames'[Depth + 1] = f
         /\ \A k \in 1 .. Depth : frames'[k] = frames[k]
BY SeqFacts DEF TypeOK, Depth

LEMMA DepthFacts ==
  ASSUME TypeOK
  PROVE  /\ Depth \in Nat /\ Depth <= MaxDepth /\ \A k \in 1 .. Depth : frames[k] \in Frames /\ k \in 1 .. MaxDepth
         /\ Depth > 0 => Top \in Frames /\ Top = frames[Depth] /\ Depth \in 1 .. Depth
BY DHooksAssumption DEF TypeOK, Depth, Top

LEMMA DatumType ==
  ASSUME NEW d \in 1 .. MaxDepth, NEW by \in Callbacks \cup {"caller", "original"}
  PROVE  <<d, by>> \in Data /\ JUNK \in Data /\ <<d, by>> # NONE
BY DHooksAssumption DEF Data

LEMMA ActionsAre == Actions = {0, 1, 2, 3} /\ Ignored = 0 /\ Handled = 1 /\ Override = 2 /\ Supercede = 3
BY DEF Actions, Ignored, Handled, Override, Supercede

(* A call that waits has something on the stack. *)
LEMMA SomeWait ==
  ASSUME TypeOK, StackInv, Depth > 0, Waiting(Depth)
  PROVE  Len(lastPre) > 0
<1> DEFINE W == {k \in 1 .. Depth : Waiting(k)}
<1>0. Depth \in 1 .. Depth /\ Depth \in Nat
  BY DepthFacts
<1>1. IsFiniteSet(1 .. Depth)
  BY <1>0, FS_Interval
<1>2. IsFiniteSet(W) /\ W # {}
  BY <1>0, <1>1, FS_Subset
<1>3. Cardinality(W) \in Nat /\ Cardinality(W) # 0
  BY <1>2, FS_EmptySet, FS_CardinalityType
<1> QED
  BY <1>3 DEF StackInv

(* The stacks have what the post-callback takes from them. *)
LEMMA Enough ==
  ASSUME TypeOK, FrameInv, StackInv, Depth > 0, Top.phase = "return"
  PROVE  /\ Len(lastPre) > 0
         /\ Last(lastPre) = Override => Len(savedRet) > 0
         /\ Last(lastPre) < Supercede => Len(savedArgs) > 0
<1>0. Depth \in 1 .. Depth /\ Depth \in Nat /\ Top = frames[Depth]
  BY DepthFacts
<1>1. Waiting(Depth)
  BY <1>0 DEF FrameInv, Waiting
<1>3. Len(lastPre) > 0
  BY <1>1, SomeWait
<1>4. lastPre \in Seq(Actions) /\ Last(lastPre) = lastPre[Len(lastPre)] /\ Last(lastPre) \in Actions
  BY <1>3 DEF TypeOK, Last
<1>5. ASSUME Last(lastPre) = Override
      PROVE  Len(savedRet) > 0
  <2> DEFINE O == Overrides(Len(lastPre))
  <2>1. IsFiniteSet(1 .. Len(lastPre))
    BY <1>4, FS_Interval
  <2>2. O \subseteq 1 .. Len(lastPre) /\ Len(lastPre) \in O
    <3>1. Len(lastPre) \in 1 .. Len(lastPre) /\ lastPre[Len(lastPre)] = Override
      BY <1>3, <1>4, <1>5
    <3> QED
      BY <3>1 DEF Overrides
  <2>3. IsFiniteSet(O) /\ O # {}
    BY <2>1, <2>2, FS_Subset
  <2>4. Cardinality(O) \in Nat /\ Cardinality(O) # 0
    BY <2>3, FS_EmptySet, FS_CardinalityType
  <2> QED
    BY <2>4 DEF StackInv
<1>6. ASSUME Last(lastPre) < Supercede
      PROVE  Len(savedArgs) > 0
  <2>1. Last(lastPre) # Supercede
    BY <1>4, <1>6, ActionsAre
  <2> QED
    BY <1>3, <2>1 DEF StackInv
<1> QED
  BY <1>3, <1>5, <1>6

-----------------------------------------------------------------------------
(* The types, for a step that leaves the plugins' lists alone. *)
LEMMA TypeRest ==
  ASSUME TypeOK, UNCHANGED <<hooked, registered, listeners>>,
         frames' \in Seq(Frames), Depth' <= MaxDepth,
         regs' \in [esp : 0 .. MaxDepth, eax : Data],
         lastPre' \in Seq(Actions), savedRet' \in Seq(Data), savedArgs' \in Seq(Data),
         retAddr' \in [1 .. MaxDepth -> Nat], stack' \in [1 .. MaxDepth -> Data],
         broken' \in BOOLEAN, risks' \subseteq {"nested", "removed"}
  PROVE  TypeOK'
BY DEF TypeOK

LEMMA CallTypes ==
  ASSUME IndInv, Call
  PROVE  TypeOK'
<1> DEFINE d == Depth + 1
<1>0. TypeOK /\ d \in 1 .. MaxDepth /\ d \in 0 .. MaxDepth /\ Depth \in Nat
  BY DHooksAssumption, DepthFacts DEF IndInv, Call
<1>1. <<d, "caller">> \in Data /\ JUNK \in Data
  BY <1>0, DatumType
<1> HIDE DEF d
<1>2. Listening("pre") \in SUBSET Callbacks
  BY <1>0 DEF TypeOK, Listening, Types
<1>3. Entered(hooked, d) \in Frames
  BY <1>0, <1>1, <1>2, ActionsAre DEF TypeOK, Entered, Frames, Types
<1>4. frames' \in Seq(Frames) /\ Depth' <= MaxDepth
  BY <1>0, <1>3, PushFacts DEF Call, d
<1>5. stack' \in [1 .. MaxDepth -> Data]
  BY <1>0, <1>1 DEF Call, TypeOK, d
<1>6. regs' \in [esp : 0 .. MaxDepth, eax : Data]
  BY <1>0, <1>1 DEF Call, TypeOK, d, Enter
<1>7. retAddr' \in [1 .. MaxDepth -> Nat]
  BY <1>0 DEF Call, TypeOK, d
<1>8. risks' \subseteq {"nested", "removed"} /\ UNCHANGED <<hooked, registered, listeners, saved, broken>>
  BY <1>0 DEF Call, TypeOK
<1> QED
  BY <1>0, <1>4, <1>5, <1>6, <1>7, <1>8, TypeRest DEF TypeOK, saved

-----------------------------------------------------------------------------
(* The registers have been saved, for a step after which no other call goes through the hook. *)
LEMMA RegsKept ==
  ASSUME RegsInv, Depth' \in Nat, Depth \in Nat, Depth' <= Depth, regs'.esp = regs.esp \/ regs'.esp # 0,
         \A k \in 1 .. Depth' : frames'[k].via => frames[k].via
  PROVE  RegsInv'
<1>1. \A k \in 1 .. Depth' : k \in 1 .. Depth
  OBVIOUS
<1> QED
  BY <1>1 DEF RegsInv

(* What a call decided depends on nothing but the list of it. *)
LEMMA DecidedSame ==
  ASSUME NEW f, NEW g, NEW t, f.set = g.set
  PROVE  Decided(f, t) = Decided(g, t)
BY DEF Decided

(* A change of the innermost call that leaves it where it is. *)
LEMMA Unmoved ==
  ASSUME TypeOK, Depth > 0, NEW f \in Frames, SetTop(f), lastPre' = lastPre,
         f.via = Top.via, f.phase \in {"original", "return"} <=> Top.phase \in {"original", "return"}
  PROVE  /\ Depth' = Depth
         /\ \A k \in 1 .. Depth : (Waiting(k)' <=> Waiting(k)) /\ Entry(k)' = Entry(k)
         /\ {k \in 1 .. Depth' : Waiting(k)'} = {k \in 1 .. Depth : Waiting(k)}
         /\ \A n : Overrides(n)' = Overrides(n)
<1>0. Depth \in 1 .. Depth /\ Top = frames[Depth]
  BY DepthFacts
<1>1. Depth' = Depth /\ frames'[Depth] = f /\ \A k \in 1 .. Depth : k # Depth => frames'[k] = frames[k]
  BY SetTopFacts
<1>2. ASSUME NEW k \in 1 .. Depth
      PROVE  Waiting(k)' <=> Waiting(k)
  <2>1. CASE k = Depth
    <3>1. frames'[k].via = frames[k].via
      BY <1>0, <1>1, <2>1
    <3>2. frames'[k].phase \in {"original", "return"} <=> frames[k].phase \in {"original", "return"}
      BY <1>0, <1>1, <2>1
    <3> QED
      BY <3>1, <3>2, Zenon DEF Waiting
  <2>2. CASE k # Depth
    <3>1. frames'[k] = frames[k]
      BY <1>1, <2>2
    <3> QED
      BY <3>1, Zenon DEF Waiting
  <2> QED
    BY <2>1, <2>2
<1>3. \A k \in 1 .. Depth : Entry(k)' = Entry(k)
  <2>1. Waiting(Depth)' <=> Waiting(Depth)
    BY <1>0, <1>1, <1>2, Zenon DEF Waiting
  <2> QED
    BY <1>1, <2>1, Zenon DEF Entry
<1>4. {k \in 1 .. Depth' : Waiting(k)'} = {k \in 1 .. Depth : Waiting(k)}
  BY <1>1, <1>2, Zenon
<1>5. \A n : Overrides(n)' = Overrides(n)
  BY DEF Overrides
<1> QED
  BY <1>1, <1>2, <1>3, <1>4, <1>5

(* HandleDetour calls the next plugin. *)
LEMMA ExecuteStep ==
  ASSUME IndInv, Execute
  PROVE  IndInv'
<1> DEFINE c == listeners[Top.phase][Top.i]
           f == [Top EXCEPT !.callback = c, !.gone = FALSE, !.due = @ \ {c}]
<1>1. TypeOK /\ ~ broken /\ FrameInv /\ StackInv /\ AddressInv /\ DueInv /\ ("nested" \notin risks => ArgsInv /\ ReturnInv)
      /\ ReturnsDecided
  BY DEF IndInv, Execute, At
<1>2. Top \in Frames /\ Depth > 0 /\ Top.callback = NONE /\ Top.phase \in Types /\ Top.i <= Len(listeners[Top.phase])
      /\ Depth \in Nat /\ Depth \in 1 .. Depth /\ Top = frames[Depth]
  BY <1>1, DepthFacts DEF Execute, At
<1>3. c \in Callbacks
  BY <1>1, <1>2 DEF TypeOK, Frames
<1>4. SetTop(f) /\ UNCHANGED <<hooked, registered, listeners, regs, saved, retAddr, stack, broken, risks>>
  BY <1>2 DEF Execute, At
<1>5. f \in Frames
  BY <1>2, <1>3 DEF Frames
<1>6. /\ f.callback = c /\ ~ f.gone /\ f.due = Top.due \ {c}
      /\ f.via = Top.via /\ f.phase = Top.phase /\ f.i = Top.i /\ f.final = Top.final /\ f.value = Top.value
      /\ f.eax = Top.eax /\ f.args = Top.args /\ f.set = Top.set
  BY <1>2 DEF Frames
<1> HIDE DEF f
<1>7. /\ frames' \in Seq(Frames) /\ Depth' = Depth /\ Top' = f /\ frames'[Depth] = f
      /\ \A k \in 1 .. Depth : k # Depth => frames'[k] = frames[k]
  BY <1>1, <1>2, <1>4, <1>5, SetTopFacts
<1>8. /\ \A k \in 1 .. Depth : (Waiting(k)' <=> Waiting(k)) /\ Entry(k)' = Entry(k)
      /\ {k \in 1 .. Depth' : Waiting(k)'} = {k \in 1 .. Depth : Waiting(k)}
      /\ \A n : Overrides(n)' = Overrides(n)
  BY <1>1, <1>2, <1>4, <1>5, <1>6, Unmoved DEF saved
<1>9. TypeOK'
  BY <1>1, <1>2, <1>4, <1>7, DepthFacts, TypeRest DEF TypeOK, saved
<1>10. FrameInv'
  BY <1>1, <1>2, <1>3, <1>4, <1>6, <1>7, DHooksAssumption DEF FrameInv
<1>11. StackInv' /\ AddressInv'
  <2>1. Top'.phase # "return" /\ Top.phase # "return"
    BY <1>2, <1>6, <1>7 DEF Types
  <2>2. Overrides(Len(lastPre))' = Overrides(Len(lastPre)) /\ UNCHANGED <<lastPre, savedRet, savedArgs, retAddr>>
    BY <1>4 DEF saved, Overrides
  <2>3. StackInv'
    BY <1>1, <1>7, <1>8, <2>1, <2>2 DEF StackInv
  <2>4. AddressInv'
    BY <1>1, <1>2, <1>6, <1>7, <2>2 DEF AddressInv
  <2> QED
    BY <2>3, <2>4
<1>12. DueInv'
  BY <1>1, <1>2, <1>4, <1>6, <1>7 DEF DueInv
<1>13. ASSUME "nested" \notin risks
       PROVE  ArgsInv'
  BY <1>1, <1>2, <1>4, <1>6, <1>7, <1>8, <1>13 DEF ArgsInv, saved
<1>14. ASSUME NEW k \in 1 .. Depth
       PROVE  /\ frames'[k].phase = frames[k].phase /\ frames'[k].final = frames[k].final
              /\ frames'[k].value = frames[k].value /\ frames'[k].eax = frames[k].eax
              /\ frames'[k].set = frames[k].set /\ \A t : Decided(frames'[k], t) = Decided(frames[k], t)
  BY <1>2, <1>6, <1>7, DecidedSame
<1>15. ASSUME "nested" \notin risks
       PROVE  ReturnInv'
  <2> SUFFICES ASSUME NEW k \in 1 .. Depth
               PROVE  Answers(k)' /\ (Waiting(k)' => Saves(k)')
    BY <1>7 DEF ReturnInv
  <2>1. Answers(k) /\ (Waiting(k) => Saves(k)) /\ UNCHANGED <<regs, lastPre, savedRet>>
    BY <1>1, <1>4, <1>15 DEF ReturnInv, saved
  <2>2. Answers(k)'
    BY <1>14, <2>1 DEF Answers, Resolved, Passed
  <2>3. Entry(k)' = Entry(k) /\ Overrides(Entry(k))' = Overrides(Entry(k))
    BY <1>8, <2>1 DEF Overrides
  <2>4. Waiting(k)' => Saves(k)'
    BY <1>8, <1>14, <2>1, <2>3 DEF Saves
  <2> QED
    BY <2>2, <2>4
<1>16. ReturnsDecided'
  BY <1>1, <1>4, <1>7, <1>14 DEF ReturnsDecided
<1>r. RegsInv'
  <2>1. RegsInv /\ regs' = regs /\ \A k \in 1 .. Depth : frames'[k].via = frames[k].via
    BY <1>2, <1>4, <1>6, <1>7 DEF IndInv, Execute, At
  <2> QED
    BY <1>2, <1>7, <2>1, RegsKept
<1> QED
  BY <1>r, <1>1, <1>4, <1>9, <1>10, <1>11, <1>12, <1>13, <1>15, <1>16 DEF IndInv

(* What is kept on the stacks stays right when the calls stay where they are. *)
LEMMA Kept ==
  ASSUME TypeOK, Depth' = Depth, UNCHANGED <<regs, lastPre, savedRet, savedArgs, retAddr, stack>>,
         \A k \in 1 .. Depth :
           /\ frames'[k].via = frames[k].via /\ frames'[k].phase = frames[k].phase
           /\ frames'[k].final = frames[k].final /\ frames'[k].value = frames[k].value
           /\ frames'[k].eax = frames[k].eax /\ frames'[k].args = frames[k].args /\ frames'[k].set = frames[k].set
  PROVE  /\ StackInv => StackInv'
         /\ AddressInv => AddressInv'
         /\ ArgsInv => ArgsInv'
         /\ ReturnInv => ReturnInv'
         /\ \A k \in 1 .. Depth, t \in Types : Decided(frames'[k], t) = Decided(frames[k], t)
<1>0. Depth \in Nat /\ (Depth > 0 => Depth \in 1 .. Depth /\ Top = frames[Depth] /\ Top' = frames'[Depth])
  BY DepthFacts DEF Top
<1>1. ASSUME NEW k \in 1 .. Depth
      PROVE  (Waiting(k)' <=> Waiting(k)) /\ \A t \in Types : Decided(frames'[k], t) = Decided(frames[k], t)
  <2>1. frames'[k].via = frames[k].via /\ frames'[k].phase = frames[k].phase /\ frames'[k].set = frames[k].set
    OBVIOUS
  <2>2. Waiting(k)' <=> Waiting(k)
    BY <2>1, Zenon DEF Waiting
  <2>3. \A t \in Types : Decided(frames'[k], t) = Decided(frames[k], t)
    BY <2>1, DecidedSame
  <2> QED
    BY <2>2, <2>3
<1>2. {k \in 1 .. Depth' : Waiting(k)'} = {k \in 1 .. Depth : Waiting(k)}
  BY <1>1, Zenon
<1>3. \A n : Overrides(n)' = Overrides(n)
  BY DEF Overrides
<1>4. ASSUME NEW k \in 1 .. Depth
      PROVE  Entry(k)' = Entry(k) /\ Overrides(Entry(k))' = Overrides(Entry(k))
  <2>0. Depth \in 1 .. Depth
    BY <1>0
  <2>1. Waiting(Depth)' <=> Waiting(Depth)
    BY <1>1, <2>0, Zenon DEF Waiting
  <2>2. Entry(k)' = Entry(k)
    BY <2>1, Zenon DEF Entry
  <2> QED
    BY <2>2 DEF Overrides
<1>5. ASSUME StackInv
      PROVE  StackInv'
  <2>1. Overrides(Len(lastPre))' = Overrides(Len(lastPre)) /\ Last(lastPre)' = Last(lastPre)
    BY DEF Overrides, Last
  <2>2. Depth > 0 => Top'.phase = Top.phase
    BY <1>0
  <2> QED
    BY <1>2, <1>5, <2>1, <2>2 DEF StackInv
<1>6. ASSUME AddressInv
      PROVE  AddressInv'
  <2>1. ASSUME NEW d \in 1 .. MaxDepth, d <= Depth
        PROVE  (frames'[d].via <=> frames[d].via) /\ frames'[d].phase = frames[d].phase
    <3>1. d \in 1 .. Depth
      BY <1>0, <2>1
    <3> QED
      BY <3>1, Zenon
  <2> QED
    BY <1>6, <2>1 DEF AddressInv
<1>7. ASSUME ArgsInv
      PROVE  ArgsInv'
  BY <1>0, <1>1, <1>4, <1>7 DEF ArgsInv
<1>8. ASSUME ReturnInv
      PROVE  ReturnInv'
  <2> SUFFICES ASSUME NEW k \in 1 .. Depth
               PROVE  Answers(k)' /\ (Waiting(k)' => Saves(k)')
    BY DEF ReturnInv
  <2>1. Answers(k) /\ (Waiting(k) => Saves(k))
    BY <1>8 DEF ReturnInv
  <2>2. Answers(k)'
    BY <1>1, <2>1 DEF Answers, Resolved, Passed, Types
  <2>3. Waiting(k)' => Saves(k)'
    BY <1>1, <1>4, <2>1 DEF Saves, Types
  <2> QED
    BY <2>2, <2>3
<1> QED
  BY <1>1, <1>5, <1>6, <1>7, <1>8

(* Callbacks may be added at any time. *)
LEMMA EnableStep ==
  ASSUME IndInv, (\E t \in Types, c \in Callbacks : Enable(t, c)) \/ EnableFails
  PROVE  IndInv'
<1>1. /\ TypeOK /\ ~ broken /\ FrameInv /\ StackInv /\ AddressInv /\ DueInv
      /\ ("nested" \notin risks => ArgsInv /\ ReturnInv) /\ ReturnsDecided
  BY DEF IndInv, Enable, EnableFails, PluginsRun
<1>2. UNCHANGED <<regs, lastPre, savedRet, savedArgs, retAddr, stack, frames, broken, risks>> /\ hooked'
  BY DEF Enable, EnableFails, saved
<1>3. /\ listeners' \in [Types -> Seq(Callbacks)]
      /\ registered' = [t \in Types |-> listeners'[t] # <<>>]
      /\ \A t \in Types : Len(listeners[t]) <= Len(listeners'[t])
                         /\ \A n \in 1 .. Len(listeners[t]) : listeners'[t][n] = listeners[t][n]
  <2>1. CASE EnableFails
    BY <1>1, <2>1 DEF EnableFails, TypeOK
  <2>2. ASSUME NEW t \in Types, NEW c \in Callbacks, Enable(t, c)
        PROVE  <1>3!:
    <3>1. listeners' = [listeners EXCEPT ![t] = Append(@, c)] /\ registered' = [registered EXCEPT ![t] = TRUE]
          /\ listeners \in [Types -> Seq(Callbacks)] /\ registered = [x \in Types |-> listeners[x] # <<>>]
      BY <1>1, <2>2 DEF Enable, TypeOK
    <3>2. listeners' \in [Types -> Seq(Callbacks)]
      BY <3>1
    <3>3. listeners'[t] = Append(listeners[t], c) /\ \A x \in Types : x # t => listeners'[x] = listeners[x]
      BY <3>1
    <3>4. /\ listeners'[t] # <<>> /\ Len(listeners[t]) <= Len(listeners'[t])
          /\ \A n \in 1 .. Len(listeners[t]) : listeners'[t][n] = listeners[t][n]
      BY <3>1, <3>3
    <3>5. registered' = [x \in Types |-> listeners'[x] # <<>>]
      BY <3>1, <3>3, <3>4
    <3>6. ASSUME NEW x \in Types
          PROVE  Len(listeners[x]) <= Len(listeners'[x])
                 /\ \A n \in 1 .. Len(listeners[x]) : listeners'[x][n] = listeners[x][n]
      <4>1. CASE x = t
        BY <3>4, <4>1
      <4>2. CASE x # t
        <5>1. listeners'[x] = listeners[x] /\ Len(listeners[x]) \in Nat
          BY <3>1, <3>3, <4>2
        <5> QED
          BY <5>1
      <4> QED
        BY <4>1, <4>2
    <3> QED
      BY <3>2, <3>5, <3>6
  <2> QED
    BY <2>1, <2>2
<1>4. TypeOK'
  BY <1>1, <1>2, <1>3 DEF TypeOK, Depth
<1>5. Depth' = Depth
  BY <1>2 DEF Depth
<1>6. StackInv' /\ AddressInv' /\ ("nested" \notin risks => ArgsInv' /\ ReturnInv') /\ ReturnsDecided'
  BY <1>1, <1>2, <1>5, Kept DEF ReturnsDecided
<1>7. FrameInv'
  BY <1>1, <1>2, <1>5 DEF FrameInv
<1>8. DueInv'
  <2> SUFFICES ASSUME "removed" \notin risks, NEW k \in 1 .. Depth, NEW c \in frames[k].due
               PROVE  /\ frames[k].phase \in Types
                      /\ \E n \in frames[k].i .. Len(listeners'[frames[k].phase]) :
                           listeners'[frames[k].phase][n] = c /\ (frames[k].callback # NONE => n # frames[k].i)
    BY <1>2, <1>5 DEF DueInv
  <2>1. frames[k].phase \in Types /\ frames[k].i \in Nat /\ frames[k].i >= 1
    BY <1>1, DepthFacts DEF DueInv, Frames
  <2>2. PICK n \in frames[k].i .. Len(listeners[frames[k].phase]) :
          listeners[frames[k].phase][n] = c /\ (frames[k].callback # NONE => n # frames[k].i)
    BY <1>1 DEF DueInv
  <2>3. Len(listeners[frames[k].phase]) \in Nat /\ Len(listeners'[frames[k].phase]) \in Nat
    BY <1>1, <1>3, <2>1 DEF TypeOK
  <2>4. n \in 1 .. Len(listeners[frames[k].phase]) /\ n \in frames[k].i .. Len(listeners'[frames[k].phase])
    BY <1>3, <2>1, <2>3
  <2> QED
    BY <1>3, <2>1, <2>2, <2>4
<1>r. RegsInv'
  BY <1>1, <1>2 DEF IndInv, RegsInv, Depth
<1> QED
  BY <1>r, <1>1, <1>2, <1>4, <1>6, <1>7, <1>8 DEF IndInv

(* Removing callbacks frees what a call needs, or else leaves the calls where they are. *)
LEMMA RemoveStep ==
  ASSUME IndInv, PluginsRun, NEW ts \in SUBSET Types, NEW c \in Callbacks, Remove(ts, c)
  PROVE  IndInv'
<1> DEFINE Left(k) == IF frames[k].phase \notin ts THEN frames[k]
                      ELSE [frames[k] EXCEPT !.gone = @ \/ frames[k].callback = c, !.due = @ \ {c}]
           Through == \E k \in 1 .. Depth : frames[k].via
<1>1. /\ TypeOK /\ ~ broken /\ FrameInv /\ StackInv /\ AddressInv /\ DueInv
      /\ ("nested" \notin risks => ArgsInv /\ ReturnInv) /\ ReturnsDecided
  BY DEF IndInv, PluginsRun
<1>2. /\ UNCHANGED <<regs, lastPre, savedRet, savedArgs, retAddr, stack>>
      /\ frames' = [k \in 1 .. Depth |-> Left(k)] /\ Depth \in Nat
      /\ risks' = IF Through THEN risks \cup {"removed"} ELSE risks
      /\ broken' = Frees(ts, c) /\ hooked' = (hooked /\ ~ Unhooks(ts, c))
      /\ listeners' = [t \in Types |-> IF t \in ts THEN Without(t, c) ELSE listeners[t]]
      /\ registered' = [t \in Types |-> registered[t] /\ t \notin Emptied(ts, c)]
  BY <1>1, DepthFacts DEF Remove, saved
<1>3. ASSUME NEW k \in 1 .. Depth
      PROVE  /\ Left(k) \in Frames
             /\ Left(k).via = frames[k].via /\ Left(k).phase = frames[k].phase /\ Left(k).i = frames[k].i
             /\ Left(k).callback = frames[k].callback
             /\ Left(k).final = frames[k].final /\ Left(k).value = frames[k].value
             /\ Left(k).eax = frames[k].eax /\ Left(k).args = frames[k].args /\ Left(k).set = frames[k].set
             /\ Left(k).due \subseteq frames[k].due
             /\ Left(k).gone => frames[k].gone \/ frames[k].phase \in Types
  <2>1. frames[k] \in Frames
    BY <1>1, DepthFacts
  <2>2. CASE frames[k].phase \notin ts
    BY <2>1, <2>2
  <2>3. CASE frames[k].phase \in ts
    <3>1. (frames[k].gone \/ frames[k].callback = c) \in BOOLEAN /\ frames[k].due \ {c} \in SUBSET Callbacks
      BY <2>1 DEF Frames
    <3> QED
      BY <2>1, <2>3, <3>1 DEF Frames
  <2> QED
    BY <2>2, <2>3
<1> HIDE DEF Left
<1>4. frames' \in Seq(Frames) /\ Len(frames') = Depth /\ Depth' = Depth /\ \A k \in 1 .. Depth : frames'[k] = Left(k)
  BY <1>2, <1>3 DEF Depth
<1>5. TypeOK'
  <2>1. listeners' \in [Types -> Seq(Callbacks)]
    BY <1>1, <1>2, WithoutType DEF TypeOK
  <2>2. registered' = [t \in Types |-> listeners'[t] # <<>>]
    <3>1. ASSUME NEW t \in Types
          PROVE  (registered[t] /\ t \notin Emptied(ts, c)) <=> listeners'[t] # <<>>
      <4>1. registered[t] <=> listeners[t] # <<>>
        BY <1>1 DEF TypeOK
      <4>2. t \in Emptied(ts, c) <=> t \in ts /\ listeners[t] # <<>> /\ Without(t, c) = <<>>
        BY DEF Emptied
      <4>3. t \in ts /\ listeners[t] = <<>> => Without(t, c) = <<>>
        <5> SUFFICES ASSUME listeners[t] = <<>>
                     PROVE  Without(t, c) = <<>>
          OBVIOUS
        <5>1. {i \in 1 .. Len(listeners[t]) : listeners[t][i] # c} = {}
          OBVIOUS
        <5>2. Cardinality({}) = 0
          BY FS_EmptySet
        <5> QED
          BY <5>1, <5>2 DEF Without
      <4> QED
        BY <1>2, <4>1, <4>2, <4>3
    <3> QED
      BY <1>2, <3>1
  <2>3. (\E t \in Types : registered'[t]) => hooked'
    BY <1>1, <1>2 DEF TypeOK, Unhooks
  <2>4. broken' \in BOOLEAN /\ hooked' \in BOOLEAN /\ risks' \subseteq {"nested", "removed"}
    BY <1>1, <1>2 DEF TypeOK, Frees
  <2> QED
    BY <1>1, <1>2, <1>4, <2>1, <2>2, <2>3, <2>4 DEF TypeOK
<1>6. broken' => risks' # {}
  BY <1>2 DEF Frees
<1>7. /\ StackInv' /\ AddressInv' /\ ("nested" \notin risks' => ArgsInv' /\ ReturnInv')
      /\ \A k \in 1 .. Depth, t \in Types : Decided(frames'[k], t) = Decided(frames[k], t)
  <2>1. "nested" \notin risks' => "nested" \notin risks
    BY <1>2
  <2> QED
    BY <1>1, <1>2, <1>3, <1>4, <2>1, Kept
<1>8. ReturnsDecided'
  <2>1. "nested" \notin risks' => "nested" \notin risks
    BY <1>2
  <2> QED
    BY <1>1, <1>3, <1>4, <1>7, <2>1 DEF ReturnsDecided, Types
<1>9. ASSUME ~ broken'
      PROVE  FrameInv'
  <2>1. ASSUME NEW k \in 1 .. Depth, frames[k].via
        PROVE  hooked' /\ "removed" \in risks'
    BY <1>1, <1>2, <1>9, <2>1 DEF FrameInv, Frees
  <2>2. ASSUME NEW k \in 1 .. Depth, Left(k).gone
        PROVE  "removed" \in risks'
    <3>1. frames[k].gone \/ frames[k].phase \in Types
      BY <1>3, <2>2
    <3>2. frames[k].via \/ frames[k].phase = "original"
      BY <1>1 DEF FrameInv
    <3> QED
      BY <1>1, <1>2, <2>1, <3>1, <3>2 DEF FrameInv, Types
  <2>3. ASSUME NEW k \in 1 .. Depth
        PROVE  /\ k < Depth /\ frames'[k].phase # "original" => frames'[k].callback # NONE /\ "nested" \in risks'
               /\ frames'[k].callback # NONE => frames'[k].phase \in Types
               /\ frames'[k].via \/ frames'[k].phase = "original"
               /\ frames'[k].via => hooked' /\ \A j \in k .. Depth : frames'[j].via
               /\ frames'[k].phase \notin Types => frames'[k].i = 1 /\ frames'[k].final = Ignored /\ frames'[k].value = JUNK
               /\ frames'[k].gone => "removed" \in risks'
    <3>1. /\ frames'[k].via = frames[k].via /\ frames'[k].phase = frames[k].phase /\ frames'[k].i = frames[k].i
          /\ frames'[k].callback = frames[k].callback
          /\ frames'[k].final = frames[k].final /\ frames'[k].value = frames[k].value
      BY <1>3, <1>4
    <3>2. \A j \in k .. Depth : j \in 1 .. Depth /\ frames'[j].via = frames[j].via
      BY <1>2, <1>3, <1>4
    <3>3. "nested" \in risks => "nested" \in risks'
      BY <1>2
    <3> QED
      BY <1>1, <1>4, <2>1, <2>2, <3>1, <3>2, <3>3 DEF FrameInv
  <2> QED
    BY <1>4, <2>3 DEF FrameInv
<1>10. DueInv'
  <2> SUFFICES ASSUME "removed" \notin risks', NEW k \in 1 .. Depth, NEW x \in Left(k).due
               PROVE  FALSE
    BY <1>4 DEF DueInv
  <2>1. ~ frames[k].via /\ "removed" \notin risks
    BY <1>2
  <2>2. frames[k].phase \in Types
    BY <1>1, <1>3, <2>1 DEF DueInv
  <2> QED
    BY <1>1, <2>1, <2>2 DEF FrameInv, Types
<1>r. RegsInv'
  <2>1. RegsInv /\ Depth' = Depth
    BY <1>1, <1>2 DEF IndInv, Depth
  <2>2. \A k \in 1 .. Depth : frames'[k].via => frames[k].via
    BY <1>2, <1>3
  <2> QED
    BY <1>2, <2>1, <2>2, RegsKept
<1> QED
  BY <1>r, <1>5, <1>6, <1>7, <1>8, <1>9, <1>10 DEF IndInv

-----------------------------------------------------------------------------
(* If no callback has called the function, those under the innermost call are in the original. *)
LEMMA BelowFacts ==
  ASSUME TypeOK, FrameInv
  PROVE  /\ "nested" \notin risks => \A k \in 1 .. Depth : k # Depth => frames[k].phase = "original"
         /\ \A k \in 1 .. Depth : Waiting(k) => frames[k].via /\ frames[Depth].via
         /\ \A k \in 1 .. Depth : frames[k].callback # NONE => frames[k].phase \in Types /\ frames[k].phase # "original"
         /\ Depth > 0 /\ Top.phase # "original" => Top.via
<1>0. Depth \in Nat /\ (Depth > 0 => Depth \in 1 .. Depth /\ Top = frames[Depth])
  BY DepthFacts
<1>1. \A k \in 1 .. Depth : k # Depth => k < Depth
  BY <1>0
<1>2. \A k \in 1 .. Depth : Depth \in k .. Depth
  BY <1>0
<1> QED
  BY <1>0, <1>1, <1>2 DEF FrameInv, Waiting, Types

(* Nothing has been decided yet. *)
LEMMA DecidedEmpty ==
  ASSUME NEW f, NEW t, f.set = <<>>
  PROVE  Decided(f, t) = NONE
<1>1. {n \in 1 .. Len(f.set) : f.set[n][1] = t} = {}
  OBVIOUS
<1> QED
  BY <1>1 DEF Decided

(* A call begins, through the hook or not. *)
LEMMA CallStep ==
  ASSUME IndInv, Call
  PROVE  IndInv'
<1>0. PICK d \in Nat : d = Depth + 1
  BY DepthFacts DEF IndInv
<1> DEFINE f == Entered(hooked, d)
<1>1. /\ TypeOK /\ ~ broken /\ FrameInv /\ StackInv /\ AddressInv /\ DueInv
      /\ ("nested" \notin risks => ArgsInv /\ ReturnInv) /\ ReturnsDecided
      /\ Depth \in Nat /\ d = Depth + 1 /\ d \in 1 .. MaxDepth /\ (Depth > 0 => Depth \in 1 .. Depth /\ Top = frames[Depth])
      /\ hooked \in BOOLEAN
  <2>1. TypeOK /\ ~ broken /\ Depth < MaxDepth
    BY DEF IndInv, Call, PluginsRun
  <2>2. Depth \in Nat /\ MaxDepth \in Nat
    BY <2>1, DepthFacts, DHooksAssumption
  <2>3. d \in 1 .. MaxDepth
    BY <1>0, <2>1, <2>2
  <2>4. hooked \in BOOLEAN
    BY <2>1 DEF TypeOK
  <2>5. Depth > 0 => Depth \in 1 .. Depth /\ Top = frames[Depth]
    BY <2>1, DepthFacts
  <2> QED
    BY <1>0, <2>1, <2>2, <2>3, <2>4, <2>5 DEF IndInv
<1>2. /\ frames' = Append(frames, f) /\ stack' = [stack EXCEPT ![d] = <<d, "caller">>]
      /\ IF hooked THEN regs' = [esp |-> d, eax |-> JUNK] /\ retAddr' = [retAddr EXCEPT ![d] = @ + 1]
                   ELSE UNCHANGED <<regs, retAddr>>
      /\ risks' = IF InCallback THEN risks \cup {"nested"} ELSE risks
      /\ UNCHANGED <<hooked, registered, listeners, lastPre, savedRet, savedArgs, broken>>
  BY <1>0 DEF Call, Enter, saved
<1>3. /\ f.via = hooked /\ f.phase = (IF hooked THEN "pre" ELSE "original") /\ f.i = 1 /\ f.callback = NONE
      /\ f.final = Ignored /\ f.value = JUNK /\ ~ f.gone /\ f.args = <<d, "caller">> /\ f.set = <<>>
      /\ f.due = IF hooked THEN Listening("pre") ELSE {}
  BY DEF Entered
<1>4. f \in Frames
  <2>1. <<d, "caller">> \in Data /\ JUNK \in Data
    BY <1>1, DatumType
  <2>2. Listening("pre") \in SUBSET Callbacks
    BY <1>1 DEF TypeOK, Listening, Types
  <2> QED
    BY <1>1, <2>1, <2>2, ActionsAre DEF Entered, Frames, Types
<1> HIDE DEF f
<1>5. /\ frames' \in Seq(Frames) /\ Depth' = d /\ frames'[d] = f /\ Top' = f
      /\ \A k \in 1 .. Depth : frames'[k] = frames[k] /\ k # d /\ k < d /\ k \in 1 .. d
      /\ \A k \in 1 .. d : k \in 1 .. Depth \/ k = d
  <2>1. frames' \in Seq(Frames) /\ Depth' = d /\ frames'[d] = f /\ \A k \in 1 .. Depth : frames'[k] = frames[k]
    BY <1>1, <1>2, <1>4, PushFacts
  <2> QED
    BY <1>1, <2>1 DEF Top
<1>6. TypeOK'
  BY CallTypes
<1>7. Depth > 0 => InCallback \/ Top.phase = "original"
  BY DEF Call, PluginsRun
<1>8. "nested" \notin risks' => "nested" \notin risks /\ ~ InCallback
  BY <1>2
<1>9. FrameInv'
  <2> SUFFICES ASSUME NEW k \in 1 .. d
               PROVE  /\ k < d /\ frames'[k].phase # "original" => frames'[k].callback # NONE /\ "nested" \in risks'
                      /\ frames'[k].callback # NONE => frames'[k].phase \in Types
                      /\ frames'[k].via \/ frames'[k].phase = "original"
                      /\ frames'[k].via => hooked' /\ \A j \in k .. d : frames'[j].via
                      /\ frames'[k].phase \notin Types => frames'[k].i = 1 /\ frames'[k].final = Ignored /\ frames'[k].value = JUNK
                      /\ frames'[k].gone => "removed" \in risks'
    BY <1>5 DEF FrameInv
  <2>1. CASE k = d
    <3>1. ~ (k < d) /\ \A j \in k .. d : j = d
      BY <1>1, <2>1
    <3>2. frames'[k] = f /\ frames'[d] = f /\ hooked' = hooked
      BY <1>2, <1>5, <2>1
    <3>3. f.via => hooked
      BY <1>3
    <3>4. frames'[k].via => hooked' /\ \A j \in k .. d : frames'[j].via
      BY <3>1, <3>2, <3>3
    <3>5. f.via \/ f.phase = "original"
      BY <1>3
    <3> QED
      BY <1>3, <3>1, <3>2, <3>4, <3>5
  <2>2. CASE k # d
    <3>1. k \in 1 .. Depth /\ frames'[k] = frames[k]
      BY <1>5, <2>2
    <3>2. \A j \in k .. d : j = d \/ (j \in k .. Depth /\ frames'[j] = frames[j])
      BY <1>1, <1>5, <3>1
    <3>3. frames[k].phase # "original" => frames[k].callback # NONE /\ "nested" \in risks'
      <4>1. CASE k = Depth
        BY <1>1, <1>2, <1>7, <3>1, <4>1 DEF InCallback
      <4>2. CASE k # Depth
        <5>1. k < Depth
          BY <1>1, <3>1, <4>2
        <5> QED
          BY <1>1, <1>2, <3>1, <5>1 DEF FrameInv
      <4> QED
        BY <4>1, <4>2
    <3>4. frames[k].gone => "removed" \in risks'
      BY <1>1, <1>2, <3>1 DEF FrameInv
    <3>5. frames[k].via => hooked /\ \A j \in k .. Depth : frames[j].via
      BY <1>1, <3>1 DEF FrameInv
    <3>6. frames[k].via => hooked' /\ \A j \in k .. d : frames'[j].via
      BY <1>2, <1>3, <1>5, <3>2, <3>5
    <3> QED
      BY <1>1, <3>1, <3>3, <3>4, <3>6 DEF FrameInv
  <2> QED
    BY <2>1, <2>2
<1>10. /\ \A k \in 1 .. Depth : Waiting(k)' <=> Waiting(k)
       /\ ~ Waiting(Depth)'
       /\ {k \in 1 .. d : Waiting(k)'} = {k \in 1 .. Depth : Waiting(k)}
  <2>1. ASSUME NEW k \in 1 .. Depth
        PROVE  Waiting(k)' <=> Waiting(k)
    BY <1>5, Zenon DEF Waiting
  <2>2. ~ Waiting(Depth)'
    BY <1>3, <1>5 DEF Waiting
  <2>3. ~ Waiting(d)'
    <3>1. frames'[d] = f
      BY <1>5
    <3> QED
      BY <1>3, <3>1 DEF Waiting
  <2> QED
    BY <1>5, <2>1, <2>2, <2>3
<1>11. StackInv'
  <2>1. f.phase # "return" /\ (Depth > 0 => Top.phase # "return")
    BY <1>1, <1>3, <1>7, BelowFacts DEF InCallback, Types
  <2>2. Overrides(Len(lastPre))' = Overrides(Len(lastPre))
    BY <1>2 DEF Overrides
  <2> QED
    BY <1>1, <1>2, <1>5, <1>10, <2>1, <2>2 DEF StackInv
<1>12. AddressInv'
  <2> SUFFICES ASSUME NEW x \in 1 .. MaxDepth
               PROVE  retAddr'[x] = IF x <= d /\ frames'[x].via /\ frames'[x].phase # "done" THEN 1 ELSE 0
    BY <1>5 DEF AddressInv
  <2>1. retAddr[x] = IF x <= Depth /\ frames[x].via /\ frames[x].phase # "done" THEN 1 ELSE 0
    BY <1>1 DEF AddressInv
  <2>2. retAddr \in [1 .. MaxDepth -> Nat]
    BY <1>1 DEF TypeOK
  <2>3. CASE x = d
    <3>1. retAddr[x] = 0 /\ x <= d /\ frames'[x] = f
      BY <1>1, <1>5, <2>1, <2>3
    <3>2. retAddr'[x] = IF hooked THEN 1 ELSE 0
      <4>1. CASE hooked
        <5>1. retAddr' = [retAddr EXCEPT ![d] = @ + 1]
          BY <1>2, <4>1
        <5> QED
          BY <2>2, <2>3, <3>1, <4>1, <5>1
      <4>2. CASE ~ hooked
        BY <1>2, <3>1, <4>2
      <4> QED
        BY <4>1, <4>2
    <3>3. (f.via <=> hooked) /\ f.phase # "done"
      BY <1>3
    <3> QED
      BY <3>1, <3>2, <3>3
  <2>4. CASE x # d
    <3>1. retAddr'[x] = retAddr[x]
      BY <1>2, <2>2, <2>4
    <3>2. x <= d <=> x <= Depth
      BY <1>1, <2>4
    <3>3. x <= Depth => x \in 1 .. Depth
      BY <1>1
    <3>4. x <= Depth => frames'[x] = frames[x]
      BY <1>5, <3>3
    <3> QED
      BY <2>1, <3>1, <3>2, <3>4
  <2> QED
    BY <2>3, <2>4
<1>13. DueInv'
  <2>0. Depth' = d /\ listeners' = listeners
    BY <1>2, <1>5
  <2> SUFFICES ASSUME "removed" \notin risks', NEW k \in 1 .. d, NEW c \in frames'[k].due
               PROVE  /\ frames'[k].phase \in Types
                      /\ \E n \in frames'[k].i .. Len(listeners[frames'[k].phase]) :
                           listeners[frames'[k].phase][n] = c /\ (frames'[k].callback # NONE => n # frames'[k].i)
    BY <2>0 DEF DueInv
  <2>1. "removed" \notin risks
    BY <1>2
  <2>2. CASE k = d
    <3>1. c \in f.due /\ frames'[k] = f
      BY <1>5, <2>2
    <3>2. hooked /\ c \in Listening("pre") /\ f.phase = "pre"
      BY <1>3, <3>1
    <3>3. \E n \in 1 .. Len(listeners["pre"]) : listeners["pre"][n] = c
      BY <3>2 DEF Listening
    <3> QED
      BY <1>3, <3>1, <3>2, <3>3 DEF Types
  <2>3. CASE k # d
    <3>1. k \in 1 .. Depth /\ frames'[k] = frames[k]
      BY <1>5, <2>3
    <3> QED
      BY <1>1, <2>1, <3>1 DEF DueInv
  <2> QED
    BY <2>2, <2>3
<1>14. ASSUME "nested" \notin risks', NEW k \in 1 .. Depth
       PROVE  /\ frames'[k] = frames[k] /\ frames[k].phase = "original"
              /\ Waiting(k) => Entry(k)' = Entry(k)
  <2>1. frames'[k] = frames[k] /\ Depth > 0
    BY <1>1, <1>5
  <2>2. frames[k].phase = "original" /\ Top.phase = "original"
    BY <1>1, <1>7, <1>8, <1>14, <2>1, BelowFacts
  <2>3. Waiting(k) => Waiting(Depth)
    BY <1>1, <2>1, <2>2, BelowFacts DEF Waiting
  <2>4. Waiting(k) => Entry(k) = (Len(lastPre) + k) - Depth
    BY <2>3 DEF Entry
  <2>5. Entry(k)' = (Len(lastPre) + k + 1) - d
    BY <1>2, <1>5, <1>10 DEF Entry
  <2>6. Len(lastPre) \in Nat
    BY <1>1 DEF TypeOK
  <2> QED
    BY <1>1, <2>1, <2>2, <2>4, <2>5, <2>6
<1>15. ASSUME "nested" \notin risks'
       PROVE  ArgsInv'
  <2>1. ArgsInv
    BY <1>1, <1>8, <1>15
  <2>2. f.phase \in Types => regs'.esp = d
    BY <1>2, <1>3 DEF Types
  <2>3. stack \in [1 .. MaxDepth -> Data]
    BY <1>1 DEF TypeOK
  <2> SUFFICES ASSUME NEW k \in 1 .. d
               PROVE  /\ frames'[k].phase \in Types \cup {"original"} => stack'[k] = frames'[k].args
                      /\ Waiting(k)' =>
                           /\ Entry(k)' >= 1
                           /\ frames'[k].phase = "original" => lastPre'[Entry(k)'] < Supercede
                           /\ lastPre'[Entry(k)'] < Supercede => savedArgs'[Entry(k)'] = frames'[k].args
                           /\ lastPre'[Entry(k)'] = Supercede => stack'[k] = frames'[k].args
    BY <1>5, <2>2 DEF ArgsInv
  <2>4. CASE k = d
    <3>1. ~ Waiting(k)'
      BY <1>3, <1>5, <2>4 DEF Waiting
    <3>2. frames'[k] = f /\ stack'[k] = <<d, "caller">>
      BY <1>1, <1>2, <1>5, <2>3, <2>4
    <3> QED
      BY <1>3, <3>1, <3>2
  <2>5. CASE k # d
    <3>1. k \in 1 .. Depth /\ frames'[k] = frames[k]
      BY <1>5, <2>5
    <3>2. stack'[k] = stack[k]
      BY <1>2, <2>3, <2>5, <3>1, DepthFacts, <1>1
    <3> QED
      BY <1>2, <1>10, <1>14, <1>15, <2>1, <3>1, <3>2 DEF ArgsInv
  <2> QED
    BY <2>4, <2>5
<1>16. ASSUME "nested" \notin risks'
       PROVE  ReturnInv'
  <2>1. ReturnInv
    BY <1>1, <1>8, <1>16
  <2> SUFFICES ASSUME NEW k \in 1 .. d
               PROVE  Answers(k)' /\ (Waiting(k)' => Saves(k)')
    BY <1>5 DEF ReturnInv
  <2>2. CASE k = d
    <3>1. ~ Waiting(k)'
      BY <1>3, <1>5, <2>2 DEF Waiting
    <3>2. frames'[k] = f /\ Decided(f, "pre") = NONE
      BY <1>3, <1>5, <2>2, DecidedEmpty
    <3>3. Resolved(f, "pre")
      BY <1>3, <3>2, ActionsAre DEF Resolved
    <3>4. Answers(k)'
      BY <1>3, <3>2, <3>3 DEF Answers
    <3> QED
      BY <3>1, <3>4
  <2>3. CASE k # d
    <3>1. k \in 1 .. Depth /\ frames'[k] = frames[k] /\ frames[k].phase = "original"
      BY <1>5, <1>14, <1>16, <2>3
    <3>2. Answers(k) /\ (Waiting(k) => Saves(k))
      BY <2>1, <3>1 DEF ReturnInv
    <3>3. Answers(k)'
      BY <3>1, <3>2 DEF Answers
    <3>4. Waiting(k)' => Saves(k)'
      <4> SUFFICES ASSUME Waiting(k)
                   PROVE  Saves(k)'
        BY <1>10, <3>1
      <4>1. Entry(k)' = Entry(k) /\ Overrides(Entry(k))' = Overrides(Entry(k))
        BY <1>2, <1>14, <1>16, <3>1 DEF Overrides
      <4> QED
        BY <1>2, <3>1, <3>2, <4>1 DEF Saves
    <3> QED
      BY <3>3, <3>4
  <2> QED
    BY <2>2, <2>3
<1>17. ReturnsDecided'
  <2> SUFFICES ASSUME "nested" \notin risks', NEW k \in 1 .. d, frames'[k].phase = "done"
               PROVE  FALSE
    BY <1>5 DEF ReturnsDecided
  <2> QED
    BY <1>3, <1>5, <1>14
<1>r. RegsInv'
  <2> SUFFICES ASSUME NEW k \in 1 .. d, frames'[k].via
               PROVE  regs'.esp # 0
    BY <1>5 DEF RegsInv
  <2>1. RegsInv
    BY <1>1 DEF IndInv
  <2>2. CASE hooked
    BY <1>1, <1>2, <2>2
  <2>3. CASE ~ hooked
    <3>1. k \in 1 .. Depth /\ frames[k].via /\ regs' = regs
      BY <1>2, <1>3, <1>5, <2>3
    <3> QED
      BY <2>1, <3>1 DEF RegsInv
  <2> QED
    BY <1>1, <2>2, <2>3
<1> QED
  BY <1>r, <1>1, <1>2, <1>6, <1>9, <1>11, <1>12, <1>13, <1>15, <1>16, <1>17 DEF IndInv

(* The innermost call is over. *)
LEMMA PopStep ==
  ASSUME IndInv, ~ broken, Depth > 0, ~ Waiting(Depth),
         IF Top.via THEN Top.phase = "done" ELSE Top.phase = "original",
         frames' = Front(frames), stack' = [stack EXCEPT ![Depth] = JUNK],
         risks' = risks \/ (Depth = 1 /\ risks' = {}),
         UNCHANGED <<hooked, registered, listeners, regs, lastPre, savedRet, savedArgs, retAddr, broken>>
  PROVE  IndInv'
<1>0. PICK d \in Nat : d = Depth - 1 /\ Depth = d + 1
  BY DepthFacts DEF IndInv
<1>1. /\ TypeOK /\ FrameInv /\ StackInv /\ AddressInv /\ DueInv
      /\ ("nested" \notin risks => ArgsInv /\ ReturnInv) /\ ReturnsDecided
      /\ Depth \in Nat /\ Depth \in 1 .. Depth /\ Top = frames[Depth]
  BY DepthFacts DEF IndInv
<1>2. /\ frames' \in Seq(Frames) /\ Depth' = d
      /\ \A k \in 1 .. d : frames'[k] = frames[k] /\ k \in 1 .. Depth /\ k < Depth /\ k # Depth
      /\ \A k \in 1 .. Depth : k \in 1 .. d \/ k = Depth
  BY <1>0, <1>1, PopFacts
<1>3. TypeOK'
  <2>1. stack' \in [1 .. MaxDepth -> Data]
    BY <1>1, DatumType, DHooksAssumption DEF TypeOK, Data
  <2>2. Depth' <= MaxDepth /\ risks' \subseteq {"nested", "removed"}
    <3>1. MaxDepth \in Nat /\ Depth <= MaxDepth /\ risks \subseteq {"nested", "removed"}
      BY <1>1, DHooksAssumption DEF TypeOK
    <3>2. d <= MaxDepth
      BY <1>0, <1>1, <3>1
    <3> QED
      BY <1>2, <3>1, <3>2
  <2> QED
    BY <1>1, <1>2, <2>1, <2>2, TypeRest DEF TypeOK
<1>4. risks' = risks \/ (d = 0 /\ risks' = {})
  BY <1>0
<1>5. /\ \A k \in 1 .. d : Waiting(k)' <=> Waiting(k)
      /\ {k \in 1 .. d : Waiting(k)'} = {k \in 1 .. Depth : Waiting(k)}
  <2>1. ASSUME NEW k \in 1 .. d
        PROVE  Waiting(k)' <=> Waiting(k)
    BY <1>2, Zenon DEF Waiting
  <2> QED
    BY <1>2, <2>1
<1>6. FrameInv'
  <2> SUFFICES ASSUME NEW k \in 1 .. d
               PROVE  /\ k < d /\ frames'[k].phase # "original" => frames'[k].callback # NONE /\ "nested" \in risks'
                      /\ frames'[k].callback # NONE => frames'[k].phase \in Types
                      /\ frames'[k].via \/ frames'[k].phase = "original"
                      /\ frames'[k].via => hooked' /\ \A j \in k .. d : frames'[j].via
                      /\ frames'[k].phase \notin Types => frames'[k].i = 1 /\ frames'[k].final = Ignored /\ frames'[k].value = JUNK
                      /\ frames'[k].gone => "removed" \in risks'
    BY <1>2 DEF FrameInv
  <2>1. k \in 1 .. Depth /\ k < Depth /\ frames'[k] = frames[k] /\ risks' = risks /\ hooked' = hooked
    BY <1>2, <1>4
  <2>2. \A j \in k .. d : j \in k .. Depth /\ frames'[j] = frames[j]
    BY <1>0, <1>2
  <2>3. frames[k].via => hooked /\ \A j \in k .. Depth : frames[j].via
    BY <1>1, <2>1 DEF FrameInv
  <2>4. frames'[k].via => hooked' /\ \A j \in k .. d : frames'[j].via
    BY <2>1, <2>2, <2>3
  <2> QED
    BY <1>1, <2>1, <2>4 DEF FrameInv
<1>7. d > 0 => d \in 1 .. d /\ Top' = frames'[d] /\ frames'[d] = frames[d] /\ d \in 1 .. Depth /\ d < Depth
  BY <1>0, <1>2 DEF Top
<1>8. StackInv'
  <2>1. Top.phase # "return" /\ (d > 0 => Top'.phase # "return")
    <3>1. d > 0 => frames[d].phase = "original" \/ frames[d].callback # NONE
      BY <1>1, <1>7 DEF FrameInv
    <3>2. d > 0 /\ frames[d].callback # NONE => frames[d].phase \in Types
      BY <1>1, <1>7 DEF FrameInv
    <3> QED
      BY <1>7, <3>1, <3>2 DEF Types
  <2>2. Overrides(Len(lastPre))' = Overrides(Len(lastPre)) /\ UNCHANGED <<lastPre, savedRet, savedArgs>>
    BY DEF Overrides
  <2>3. \A n \in 1 .. Len(lastPre) : lastPre[n] # Supercede
    BY <1>1, <2>1 DEF StackInv
  <2> QED
    BY <1>1, <1>2, <1>5, <2>1, <2>2, <2>3 DEF StackInv
<1>9. AddressInv'
  <2> SUFFICES ASSUME NEW x \in 1 .. MaxDepth
               PROVE  retAddr[x] = IF x <= d /\ frames'[x].via /\ frames'[x].phase # "done" THEN 1 ELSE 0
    BY <1>2 DEF AddressInv
  <2>1. retAddr[x] = IF x <= Depth /\ frames[x].via /\ frames[x].phase # "done" THEN 1 ELSE 0
    BY <1>1 DEF AddressInv
  <2>2. CASE x = Depth
    <3>1. ~ (x <= d)
      BY <1>0, <2>2
    <3> QED
      BY <1>1, <2>1, <2>2, <3>1
  <2>3. CASE x # Depth
    <3>1. (x <= d <=> x <= Depth) /\ (x <= d => x \in 1 .. d)
      BY <1>0, <2>3
    <3>2. x <= d => frames'[x] = frames[x]
      BY <1>2, <3>1
    <3> QED
      BY <2>1, <3>1, <3>2
  <2> QED
    BY <2>2, <2>3
<1>10. DueInv'
  <2> SUFFICES ASSUME "removed" \notin risks', NEW k \in 1 .. d, NEW c \in frames'[k].due
               PROVE  /\ frames'[k].phase \in Types
                      /\ \E n \in frames'[k].i .. Len(listeners[frames'[k].phase]) :
                           listeners[frames'[k].phase][n] = c /\ (frames'[k].callback # NONE => n # frames'[k].i)
    BY <1>2 DEF DueInv
  <2>1. k \in 1 .. Depth /\ frames'[k] = frames[k] /\ risks' = risks
    BY <1>2, <1>4
  <2> QED
    BY <1>1, <2>1 DEF DueInv
<1>11. ASSUME "nested" \notin risks', NEW k \in 1 .. d
       PROVE  /\ "nested" \notin risks /\ frames'[k] = frames[k] /\ frames[k].phase = "original"
              /\ Waiting(k) => Entry(k)' = Entry(k)
  <2>1. frames'[k] = frames[k] /\ risks' = risks /\ "nested" \notin risks /\ d > 0 /\ k \in 1 .. Depth /\ k # Depth
    BY <1>2, <1>4, <1>11
  <2>2. frames[k].phase = "original" /\ frames[d].phase = "original"
    BY <1>1, <1>2, <1>7, <2>1, BelowFacts
  <2>3. Waiting(k) => Waiting(d)
    <3>1. d \in k .. Depth
      BY <1>0, <1>1
    <3>2. Waiting(k) => frames[d].via
      BY <1>1, <2>1, <3>1 DEF FrameInv, Waiting
    <3> QED
      BY <2>2, <3>2 DEF Waiting
  <2>4. Waiting(k) => Waiting(Depth)'
    <3>1. Waiting(Depth)' <=> frames'[d].via /\ frames'[d].phase \in {"original", "return"}
      BY <1>2 DEF Waiting
    <3> QED
      BY <1>7, <2>1, <2>3, <3>1 DEF Waiting
  <2>5. Entry(k) = (Len(lastPre) + k + 1) - Depth
    BY DEF Entry
  <2>6. Waiting(k) => Entry(k)' = (Len(lastPre) + k) - d
    BY <1>2, <2>4 DEF Entry
  <2>7. Len(lastPre) \in Nat
    BY <1>1 DEF TypeOK
  <2> QED
    BY <1>0, <2>1, <2>2, <2>5, <2>6, <2>7
<1>12. ASSUME "nested" \notin risks'
       PROVE  ArgsInv'
  <2>1. d > 0 => ArgsInv /\ Top'.phase \notin Types
    <3>1. d > 0 => frames[d].phase = "original" /\ "nested" \notin risks
      BY <1>7, <1>11, <1>12
    <3> QED
      BY <1>1, <1>7, <3>1 DEF Types
  <2> SUFFICES ASSUME NEW k \in 1 .. d
               PROVE  /\ frames'[k].phase \in Types \cup {"original"} => stack'[k] = frames'[k].args
                      /\ Waiting(k)' =>
                           /\ Entry(k)' >= 1
                           /\ frames'[k].phase = "original" => lastPre'[Entry(k)'] < Supercede
                           /\ lastPre'[Entry(k)'] < Supercede => savedArgs'[Entry(k)'] = frames'[k].args
                           /\ lastPre'[Entry(k)'] = Supercede => stack'[k] = frames'[k].args
    BY <1>2, <2>1 DEF ArgsInv
  <2>2. d > 0 /\ k \in 1 .. Depth /\ k \in 1 .. MaxDepth /\ stack \in [1 .. MaxDepth -> Data] /\ k # Depth
    BY <1>1, <1>2, DepthFacts DEF TypeOK
  <2>3. stack'[k] = stack[k]
    BY <2>2
  <2> QED
    BY <1>5, <1>11, <1>12, <2>1, <2>2, <2>3 DEF ArgsInv
<1>13. ASSUME "nested" \notin risks'
       PROVE  ReturnInv'
  <2> SUFFICES ASSUME NEW k \in 1 .. d
               PROVE  Answers(k)' /\ (Waiting(k)' => Saves(k)')
    BY <1>2 DEF ReturnInv
  <2>1. frames'[k] = frames[k] /\ frames[k].phase = "original" /\ k \in 1 .. Depth /\ "nested" \notin risks
    BY <1>2, <1>11, <1>13
  <2>2. Answers(k) /\ (Waiting(k) => Saves(k))
    BY <1>1, <2>1 DEF ReturnInv
  <2>3. Answers(k)'
    BY <2>1, <2>2 DEF Answers
  <2>4. Waiting(k)' => Saves(k)'
    <3> SUFFICES ASSUME Waiting(k)
                 PROVE  Saves(k)'
      BY <1>5
    <3>1. Entry(k)' = Entry(k) /\ Overrides(Entry(k))' = Overrides(Entry(k))
      BY <1>11, <1>13 DEF Overrides
    <3> QED
      BY <2>1, <2>2, <3>1 DEF Saves
  <2> QED
    BY <2>3, <2>4
<1>14. ReturnsDecided'
  <2> SUFFICES ASSUME "nested" \notin risks', NEW k \in 1 .. d, frames'[k].phase = "done"
               PROVE  FALSE
    BY <1>2 DEF ReturnsDecided
  <2> QED
    BY <1>11
<1>r. RegsInv'
  <2>1. RegsInv /\ \A k \in 1 .. Depth' : frames'[k].via => frames[k].via
    BY <1>2 DEF IndInv
  <2> QED
    BY <1>0, <1>1, <1>2, <2>1, RegsKept
<1> QED
  BY <1>r, <1>3, <1>6, <1>8, <1>9, <1>10, <1>12, <1>13, <1>14 DEF IndInv

(* It has come back, or was not detoured. *)
LEMMA LeaveStep ==
  ASSUME IndInv, Leave
  PROVE  IndInv'
<1>1. /\ ~ broken /\ Depth > 0 /\ Top.phase = "done" /\ TypeOK /\ FrameInv
      /\ frames' = Front(frames) /\ stack' = [stack EXCEPT ![Depth] = JUNK]
      /\ risks' = risks \/ (Depth = 1 /\ risks' = {})
      /\ UNCHANGED <<hooked, registered, listeners, regs, lastPre, savedRet, savedArgs, retAddr, broken>>
  BY DEF Leave, At, IndInv, saved
<1>2. Top.via /\ ~ Waiting(Depth)
  BY <1>1, BelowFacts, DepthFacts DEF Waiting
<1> QED
  BY <1>1, <1>2, PopStep

-----------------------------------------------------------------------------
(* A set of numbers up to some number that is not empty has a greatest one. *)
LEMMA Greatest ==
  ASSUME NEW l \in Nat, NEW T \in SUBSET (1 .. l), T # {}
  PROVE  \E n \in T : \A m \in T : m <= n
<1> DEFINE U == {n \in Nat : \A m \in T : m <= n}
<1>0. \A m \in T : m \in Nat /\ m >= 1 /\ m <= l
  OBVIOUS
<1>1. l \in U /\ U \in SUBSET Nat
  BY <1>0
<1>2. PICK n \in U : \A m \in U : n <= m
  BY <1>1, Least
<1>3. n \in Nat /\ \A m \in T : m <= n
  BY <1>2
<1>4. n \in T
  <2> SUFFICES ASSUME n \notin T
               PROVE  FALSE
    OBVIOUS
  <2>1. \A m \in T : m # n /\ m <= n - 1
    BY <1>0, <1>3
  <2>2. n - 1 \in Nat
    <3>1. PICK m \in T : m >= 1 /\ m <= n
      BY <1>0, <1>3
    <3> QED
      BY <1>0, <1>3, <3>1
  <2>3. n - 1 \in U
    BY <2>1, <2>2
  <2> QED
    BY <1>2, <1>3, <2>3
<1> QED
  BY <1>3, <1>4

Mine(f, t)  == {n \in 1 .. Len(f.set) : f.set[n][1] = t}
Tops(f, t)  == {n \in Mine(f, t) : f.set[n][2] = Supercede}
Latest(I)   == CHOOSE n \in I : \A m \in I : m <= n

LEMMA DecidedIs ==
  ASSUME NEW f, NEW t
  PROVE  Decided(f, t) = IF Tops(f, t) # {} THEN f.set[Latest(Tops(f, t))][3]
                         ELSE IF Mine(f, t) # {} THEN f.set[Latest(Mine(f, t))][3] ELSE NONE
BY DEF Decided, Tops, Mine, Latest

(* What a further answer decides. *)
LEMMA Decide ==
  ASSUME NEW f, NEW g, NEW t \in Types, NEW a \in Actions, NEW x \in Data,
         f.set \in Seq(Types \X Actions \X Data), g.set = Append(f.set, <<t, a, x>>)
  PROVE  /\ a = Supercede \/ Tops(f, t) = {} => Decided(g, t) = x
         /\ a # Supercede /\ Tops(f, t) # {} => Decided(g, t) = Decided(f, t)
         /\ \A u \in Types : u # t => Decided(g, u) = Decided(f, u)
         /\ Tops(g, t) # {} <=> a = Supercede \/ Tops(f, t) # {}
<1> DEFINE e == <<t, a, x>>
           l == Len(f.set)
<1>1. /\ l \in Nat /\ Len(g.set) = l + 1 /\ g.set[l + 1] = e /\ \A n \in 1 .. l : g.set[n] = f.set[n]
      /\ e[1] = t /\ e[2] = a /\ e[3] = x
  OBVIOUS
<1> HIDE DEF e, l
<1>n. /\ \A n \in 1 .. l + 1 : n \in 1 .. l \/ n = l + 1
      /\ 1 .. l \subseteq 1 .. l + 1 /\ l + 1 \in 1 .. l + 1 /\ l + 1 \notin 1 .. l
  BY <1>1
<1>m. ASSUME NEW u
      PROVE  Mine(f, u) \in SUBSET (1 .. l) /\ l + 1 \notin Mine(f, u) /\ \A n \in Mine(f, u) : g.set[n] = f.set[n]
  BY <1>1, <1>n DEF Mine, l
<1>2. Mine(g, t) = Mine(f, t) \cup {l + 1}
  BY <1>1, <1>n DEF Mine, l
<1>o. ASSUME NEW u, u # t
      PROVE  Mine(g, u) = Mine(f, u)
  BY <1>1, <1>n, <1>o DEF Mine, l
<1>s. ASSUME NEW u
      PROVE  Tops(f, u) \in SUBSET (1 .. l)
  BY <1>m DEF Tops
<1>3. /\ a = Supercede => Tops(g, t) = Tops(f, t) \cup {l + 1}
      /\ a # Supercede => Tops(g, t) = Tops(f, t)
  <2>1. \A n \in Mine(g, t) : g.set[n][2] = Supercede <=> (n \in Mine(f, t) /\ f.set[n][2] = Supercede)
                                                          \/ (n = l + 1 /\ a = Supercede)
    BY <1>1, <1>2, <1>m
  <2>2. a = Supercede => Tops(g, t) = Tops(f, t) \cup {l + 1}
    BY <1>2, <2>1 DEF Tops
  <2>3. a # Supercede => Tops(g, t) = Tops(f, t)
    BY <1>2, <2>1 DEF Tops
  <2> QED
    BY <2>2, <2>3
<1>p. ASSUME NEW u, u # t
      PROVE  Tops(g, u) = Tops(f, u)
  <2>1. Mine(g, u) = Mine(f, u) /\ \A n \in Mine(f, u) : g.set[n] = f.set[n]
    BY <1>m, <1>o, <1>p
  <2> QED
    BY <2>1, Zenon DEF Tops
<1>4. ASSUME NEW I \in SUBSET (1 .. l)
      PROVE  Latest(I \cup {l + 1}) = l + 1
  <2>1. \A m \in I \cup {l + 1} : m <= l + 1 /\ m \in Nat
    BY <1>1
  <2>2. \A n \in I : ~ (l + 1 <= n)
    BY <1>1
  <2> QED
    BY <1>1, <2>1, <2>2 DEF Latest
<1>5. ASSUME NEW I \in SUBSET (1 .. l), I # {}
      PROVE  g.set[Latest(I)] = f.set[Latest(I)]
  <2>1. Latest(I) \in I
    BY <1>1, <1>5, Greatest DEF Latest
  <2> QED
    BY <1>1, <2>1
<1>6. /\ Decided(g, t) = IF Tops(g, t) # {} THEN g.set[Latest(Tops(g, t))][3]
                          ELSE IF Mine(g, t) # {} THEN g.set[Latest(Mine(g, t))][3] ELSE NONE
      /\ \A u : Decided(f, u) = IF Tops(f, u) # {} THEN f.set[Latest(Tops(f, u))][3]
                                ELSE IF Mine(f, u) # {} THEN f.set[Latest(Mine(f, u))][3] ELSE NONE
      /\ \A u : Decided(g, u) = IF Tops(g, u) # {} THEN g.set[Latest(Tops(g, u))][3]
                                ELSE IF Mine(g, u) # {} THEN g.set[Latest(Mine(g, u))][3] ELSE NONE
  BY DecidedIs
<1>7. a = Supercede \/ Tops(f, t) = {} => Decided(g, t) = x
  <2>1. CASE a = Supercede
    <3>0. Tops(f, t) \in SUBSET (1 .. l) /\ Tops(g, t) = Tops(f, t) \cup {l + 1}
      BY <1>3, <1>s, <2>1
    <3>1. Tops(g, t) # {} /\ Latest(Tops(g, t)) = l + 1
      BY <1>4, <3>0
    <3> QED
      BY <1>1, <1>6, <3>1
  <2>2. CASE a # Supercede /\ Tops(f, t) = {}
    <3>0. Mine(f, t) \in SUBSET (1 .. l) /\ Mine(g, t) = Mine(f, t) \cup {l + 1}
      BY <1>2, <1>m
    <3>1. Tops(g, t) = {} /\ Mine(g, t) # {} /\ Latest(Mine(g, t)) = l + 1
      BY <1>3, <1>4, <2>2, <3>0
    <3> QED
      BY <1>1, <1>6, <3>1
  <2> QED
    BY <2>1, <2>2
<1>8. a # Supercede /\ Tops(f, t) # {} => Decided(g, t) = Decided(f, t)
  BY <1>3, <1>5, <1>6, <1>s
<1>9. ASSUME NEW u \in Types, u # t
      PROVE  Decided(g, u) = Decided(f, u)
  <2>1. Tops(g, u) = Tops(f, u) /\ Mine(g, u) = Mine(f, u)
    BY <1>9, <1>o, <1>p
  <2>2. Tops(f, u) # {} => g.set[Latest(Tops(f, u))] = f.set[Latest(Tops(f, u))]
    BY <1>5, <1>s
  <2>3. Mine(f, u) # {} => g.set[Latest(Mine(f, u))] = f.set[Latest(Mine(f, u))]
    BY <1>5, <1>m
  <2> QED
    BY <1>6, <2>1, <2>2, <2>3
<1> QED
  BY <1>3, <1>7, <1>8, <1>9

(* The frame of a call whose callback has answered. *)
LEMMA AnsweredFrame ==
  ASSUME NEW g \in Frames, NEW n \in Nat \ {0}, NEW fin \in Actions, NEW val \in Data, NEW arg \in Data,
         NEW st \in Seq(Types \X Actions \X Data)
  PROVE  [g EXCEPT !.callback = NONE, !.gone = FALSE, !.i = n, !.final = fin, !.value = val,
                   !.args = arg, !.set = st] \in Frames
  BY DEF Frames

(* A plugin has answered. *)
LEMMA AnswerStep ==
  ASSUME IndInv, NEW action \in Actions, action # Ignored, NEW changed \in BOOLEAN, Answer(action, changed)
  PROVE  IndInv'
<1> DEFINE datum == <<Depth, Top.callback>>
           next == Top.i + 1
           fin == IF Decides(action) THEN action ELSE Top.final
           val == IF Decides(action) /\ action >= Override THEN datum ELSE Top.value
           arg == IF changed THEN datum ELSE Top.args
           st == IF action >= Override THEN Append(Top.set, <<Top.phase, action, datum>>) ELSE Top.set
           f == [Top EXCEPT !.callback = NONE, !.gone = FALSE, !.i = next, !.final = fin, !.value = val,
                            !.args = arg, !.set = st]
<1>1. /\ TypeOK /\ ~ broken /\ FrameInv /\ StackInv /\ AddressInv /\ DueInv
      /\ ("nested" \notin risks => ArgsInv /\ ReturnInv) /\ ReturnsDecided
  BY DEF IndInv, Answer
<1>2. /\ Depth > 0 /\ Top.callback # NONE /\ Top \in Frames /\ Depth \in Nat /\ Depth \in 1 .. Depth
      /\ Depth \in 1 .. MaxDepth /\ Top = frames[Depth]
  BY <1>1, DepthFacts DEF Answer, InCallback
<1>3. Top.phase \in Types /\ Top.phase # "return" /\ Top.phase # "original" /\ Top.callback \in Callbacks
  BY <1>1, <1>2 DEF FrameInv, Types, Frames
<1>4. /\ SetTop(f) /\ UNCHANGED <<hooked, registered, listeners, regs, lastPre, savedRet, savedArgs, retAddr, risks>>
      /\ stack' = IF changed THEN [stack EXCEPT ![regs.esp] = datum] ELSE stack
      /\ broken' = (Top.gone /\ (changed \/ action >= Override))
  BY DEF Answer, saved
<1>5. datum \in Data
  BY <1>2, <1>3, DatumType
<1>6. /\ f.callback = NONE /\ ~ f.gone /\ f.i = Top.i + 1 /\ f.due = Top.due
      /\ f.via = Top.via /\ f.phase = Top.phase /\ f.eax = Top.eax
      /\ f.final = IF Decides(action) THEN action ELSE Top.final
      /\ f.value = IF Decides(action) /\ action >= Override THEN datum ELSE Top.value
      /\ f.args = IF changed THEN datum ELSE Top.args
      /\ f.set = IF action >= Override THEN Append(Top.set, <<Top.phase, action, datum>>) ELSE Top.set
  BY <1>2 DEF Frames
<1>7. f \in Frames
  <2>1. st \in Seq(Types \X Actions \X Data)
    <3> HIDE DEF datum
    <3>1. <<Top.phase, action, datum>> \in Types \X Actions \X Data /\ Top.set \in Seq(Types \X Actions \X Data)
      BY <1>2, <1>3, <1>5 DEF Frames
    <3>2. Append(Top.set, <<Top.phase, action, datum>>) \in Seq(Types \X Actions \X Data)
      BY <3>1
    <3> QED
      BY <3>1, <3>2
  <2>2. next \in Nat \ {0} /\ fin \in Actions /\ val \in Data /\ arg \in Data
    <3> HIDE DEF datum
    <3> QED
      BY <1>2, <1>5 DEF Frames
  <2> HIDE DEF next, fin, val, arg, st
  <2> QED
    BY <1>2, <2>1, <2>2, AnsweredFrame
<1> HIDE DEF datum, f
<1>8. /\ frames' \in Seq(Frames) /\ Depth' = Depth /\ Top' = f /\ frames'[Depth] = f
      /\ \A k \in 1 .. Depth : k # Depth => frames'[k] = frames[k]
  BY <1>1, <1>2, <1>4, <1>7, SetTopFacts
<1>9. /\ \A k \in 1 .. Depth : (Waiting(k)' <=> Waiting(k)) /\ Entry(k)' = Entry(k)
      /\ {k \in 1 .. Depth' : Waiting(k)'} = {k \in 1 .. Depth : Waiting(k)}
  BY <1>1, <1>2, <1>4, <1>6, <1>7, Unmoved
<1>10. ~ Waiting(Depth)
  BY <1>2, <1>3 DEF Waiting
<1>11. TypeOK'
  <2>1. stack' \in [1 .. MaxDepth -> Data]
    BY <1>1, <1>4, <1>5 DEF TypeOK
  <2>2. Depth' <= MaxDepth
    BY <1>1, <1>8, DepthFacts
  <2>3. broken' \in BOOLEAN
    BY <1>2, <1>4 DEF Frames
  <2> QED
    BY <1>1, <1>4, <1>8, <2>1, <2>2, <2>3, TypeRest DEF TypeOK
<1>12. broken' => risks' # {}
  <2>1. Top.gone => "removed" \in risks
    BY <1>1, <1>2 DEF FrameInv
  <2> QED
    BY <1>4, <2>1
<1>13. FrameInv'
  <2> SUFFICES ASSUME NEW k \in 1 .. Depth
               PROVE  /\ k < Depth /\ frames'[k].phase # "original" => frames'[k].callback # NONE /\ "nested" \in risks
                      /\ frames'[k].callback # NONE => frames'[k].phase \in Types
                      /\ frames'[k].via \/ frames'[k].phase = "original"
                      /\ frames'[k].via => hooked /\ \A j \in k .. Depth : frames'[j].via
                      /\ frames'[k].phase \notin Types => frames'[k].i = 1 /\ frames'[k].final = Ignored /\ frames'[k].value = JUNK
                      /\ frames'[k].gone => "removed" \in risks
    BY <1>4, <1>8 DEF FrameInv
  <2>1. \A j \in 1 .. Depth : frames'[j].via = frames[j].via
    BY <1>2, <1>6, <1>8
  <2>2. frames'[k].via => hooked /\ \A j \in k .. Depth : frames'[j].via
    <3>1. \A j \in k .. Depth : j \in 1 .. Depth
      BY <1>2
    <3> QED
      BY <1>1, <2>1, <3>1 DEF FrameInv
  <2>3. CASE k = Depth
    <3>1. frames'[k] = f /\ ~ (k < Depth)
      BY <1>2, <1>8, <2>3
    <3>2. f.via \/ f.phase = "original"
      BY <1>1, <1>2, <1>6 DEF FrameInv
    <3> QED
      BY <1>3, <1>6, <2>2, <3>1, <3>2
  <2>4. CASE k # Depth
    <3>1. frames'[k] = frames[k]
      BY <1>8, <2>4
    <3> QED
      BY <1>1, <2>2, <3>1 DEF FrameInv
  <2> QED
    BY <2>3, <2>4
<1>14. StackInv'
  <2>1. Overrides(Len(lastPre))' = Overrides(Len(lastPre)) /\ Top'.phase # "return"
    BY <1>3, <1>4, <1>6, <1>8 DEF Overrides
  <2> QED
    BY <1>1, <1>3, <1>4, <1>8, <1>9, <2>1 DEF StackInv
<1>15. AddressInv'
  <2> SUFFICES ASSUME NEW x \in 1 .. MaxDepth
               PROVE  retAddr[x] = IF x <= Depth /\ frames'[x].via /\ frames'[x].phase # "done" THEN 1 ELSE 0
    BY <1>4, <1>8 DEF AddressInv
  <2>1. x <= Depth => frames'[x].via = frames[x].via /\ frames'[x].phase = frames[x].phase
    BY <1>2, <1>6, <1>8
  <2> QED
    BY <1>1, <2>1 DEF AddressInv
<1>16. DueInv'
  <2> SUFFICES ASSUME "removed" \notin risks, NEW k \in 1 .. Depth, NEW c \in frames'[k].due
               PROVE  /\ frames'[k].phase \in Types
                      /\ \E n \in frames'[k].i .. Len(listeners[frames'[k].phase]) :
                           listeners[frames'[k].phase][n] = c /\ (frames'[k].callback # NONE => n # frames'[k].i)
    BY <1>4, <1>8 DEF DueInv
  <2>1. CASE k = Depth
    <3>1. frames'[k] = f /\ c \in Top.due
      BY <1>6, <1>8, <2>1
    <3>2. PICK n \in Top.i .. Len(listeners[Top.phase]) : listeners[Top.phase][n] = c /\ n # Top.i
      BY <1>1, <1>2, <3>1 DEF DueInv
    <3>3. Top.i \in Nat /\ Len(listeners[Top.phase]) \in Nat
      BY <1>1, <1>2, <1>3 DEF Frames, TypeOK
    <3>4. n \in Top.i + 1 .. Len(listeners[Top.phase])
      BY <3>2, <3>3
    <3> QED
      BY <1>3, <1>6, <3>1, <3>2, <3>4
  <2>2. CASE k # Depth
    <3>1. frames'[k] = frames[k]
      BY <1>8, <2>2
    <3> QED
      BY <1>1, <3>1 DEF DueInv
  <2> QED
    BY <2>1, <2>2
<1>17. ASSUME "nested" \notin risks
       PROVE  ArgsInv'
  <2>1. ArgsInv /\ regs.esp = Depth
    BY <1>1, <1>2, <1>3, <1>17 DEF ArgsInv
  <2>2. stack \in [1 .. MaxDepth -> Data] /\ \A k \in 1 .. Depth : k \in 1 .. MaxDepth
    BY <1>1, DepthFacts DEF TypeOK
  <2> SUFFICES ASSUME NEW k \in 1 .. Depth
               PROVE  /\ frames'[k].phase \in Types \cup {"original"} => stack'[k] = frames'[k].args
                      /\ Waiting(k)' =>
                           /\ Entry(k)' >= 1
                           /\ frames'[k].phase = "original" => lastPre'[Entry(k)'] < Supercede
                           /\ lastPre'[Entry(k)'] < Supercede => savedArgs'[Entry(k)'] = frames'[k].args
                           /\ lastPre'[Entry(k)'] = Supercede => stack'[k] = frames'[k].args
    BY <1>4, <1>8, <2>1 DEF ArgsInv
  <2>3. CASE k = Depth
    <3>1. ~ Waiting(k)'
      BY <1>9, <1>10, <2>3
    <3>2. stack[Depth] = Top.args
      BY <1>2, <1>3, <2>1 DEF ArgsInv
    <3>3. stack'[Depth] = f.args
      BY <1>2, <1>4, <1>6, <2>1, <2>2, <3>2
    <3> QED
      BY <1>8, <2>3, <3>1, <3>3
  <2>4. CASE k # Depth
    <3>1. frames'[k] = frames[k] /\ stack'[k] = stack[k]
      BY <1>4, <1>8, <2>1, <2>2, <2>4
    <3> QED
      BY <1>4, <1>9, <2>1, <3>1 DEF ArgsInv
  <2> QED
    BY <2>3, <2>4
<1>18. ASSUME Resolved(Top, Top.phase)
       PROVE  /\ Resolved(f, Top.phase)
              /\ \A u \in Types : u # Top.phase => Decided(f, u) = Decided(Top, u)
  <2>0. /\ action \in {1, 2, 3} /\ Top.final \in {0, 1, 2, 3} /\ Override = 2 /\ Supercede = 3
        /\ (Decides(action) <=> Top.final <= action)
    BY <1>2, ActionsAre DEF Frames, Decides
  <2>1. \A g : (\E n \in 1 .. Len(g.set) : g.set[n][1] = Top.phase /\ g.set[n][2] = Supercede) <=> Tops(g, Top.phase) # {}
    BY DEF Tops, Mine
  <2>2. /\ Top.final >= Override => Decided(Top, Top.phase) = Top.value
        /\ Top.final < Override => Decided(Top, Top.phase) = NONE
        /\ Top.final = Supercede <=> Tops(Top, Top.phase) # {}
    BY <1>18, <2>1 DEF Resolved
  <2>3. CASE action < Override
    <3>1. f.set = Top.set /\ f.value = Top.value
      BY <1>6, <2>0, <2>3
    <3>2. /\ f.final >= Override <=> Top.final >= Override
          /\ f.final < Override <=> Top.final < Override
          /\ f.final = Supercede <=> Top.final = Supercede
      BY <1>6, <2>0, <2>3
    <3>3. \A u : Decided(f, u) = Decided(Top, u)
      BY <3>1, DecidedSame
    <3> QED
      BY <1>18, <3>1, <3>2, <3>3 DEF Resolved
  <2>4. CASE action >= Override
    <3>1. f.set = Append(Top.set, <<Top.phase, action, datum>>) /\ Top.set \in Seq(Types \X Actions \X Data)
      BY <1>2, <1>6, <2>4 DEF Frames
    <3>2. /\ action = Supercede \/ Tops(Top, Top.phase) = {} => Decided(f, Top.phase) = datum
          /\ action # Supercede /\ Tops(Top, Top.phase) # {} => Decided(f, Top.phase) = Decided(Top, Top.phase)
          /\ \A u \in Types : u # Top.phase => Decided(f, u) = Decided(Top, u)
          /\ Tops(f, Top.phase) # {} <=> action = Supercede \/ Tops(Top, Top.phase) # {}
      BY <1>3, <1>5, <3>1, Decide
    <3>3. /\ f.final = (IF Top.final <= action THEN action ELSE Top.final)
          /\ f.value = (IF Top.final <= action THEN datum ELSE Top.value)
      BY <1>6, <2>0, <2>4
    <3>4. f.final >= Override /\ Decided(f, Top.phase) = f.value /\ (f.final = Supercede <=> Tops(f, Top.phase) # {})
      BY <2>0, <2>2, <2>4, <3>2, <3>3
    <3>5. ~ (f.final < Override)
      BY <2>0, <2>4, <3>3
    <3> QED
      BY <2>1, <3>2, <3>4, <3>5 DEF Resolved
  <2> QED
    BY <2>0, <2>3, <2>4
<1>19. ASSUME "nested" \notin risks
       PROVE  ReturnInv'
  <2>1. ReturnInv
    BY <1>1, <1>19
  <2>2. Answers(Depth) /\ Resolved(Top, Top.phase)
    BY <1>2, <1>3, <2>1 DEF ReturnInv, Answers, Types
  <2> SUFFICES ASSUME NEW k \in 1 .. Depth
               PROVE  Answers(k)' /\ (Waiting(k)' => Saves(k)')
    BY <1>8 DEF ReturnInv
  <2>3. CASE k = Depth
    <3>1. ~ Waiting(k)' /\ frames'[k] = f
      BY <1>8, <1>9, <1>10, <2>3
    <3>2. f.phase = "post" => regs'.eax = Passed(k)'
      <4> SUFFICES ASSUME Top.phase = "post"
                   PROVE  regs.eax = Passed(k)'
        BY <1>4, <1>6
      <4>1. regs.eax = Passed(k)
        BY <1>2, <2>2, <2>3 DEF Answers
      <4>2. Decided(f, "pre") = Decided(Top, "pre")
        BY <1>18, <2>2 DEF Types
      <4> QED
        BY <1>2, <2>3, <3>1, <4>1, <4>2 DEF Passed
    <3>3. f.phase = "pre" => \A n \in 1 .. Len(f.set) : f.set[n][1] = "pre"
      <4> SUFFICES ASSUME Top.phase = "pre"
                   PROVE  \A n \in 1 .. Len(f.set) : f.set[n][1] = "pre"
        BY <1>6
      <4>1. \A n \in 1 .. Len(Top.set) : Top.set[n][1] = "pre"
        BY <1>2, <2>2 DEF Answers
      <4>2. Top.set \in Seq(Types \X Actions \X Data)
        BY <1>2 DEF Frames
      <4>3. <<Top.phase, action, datum>>[1] = "pre" /\ <<Top.phase, action, datum>> \in Types \X Actions \X Data
        BY <1>3, <1>5
      <4>4. CASE f.set = Append(Top.set, <<Top.phase, action, datum>>)
        <5> DEFINE e == <<Top.phase, action, datum>>
        <5> HIDE DEF e
        <5>1. /\ Len(f.set) = Len(Top.set) + 1 /\ f.set[Len(Top.set) + 1] = e /\ Len(Top.set) \in Nat
              /\ \A n \in 1 .. Len(Top.set) : f.set[n] = Top.set[n]
          BY <4>2, <4>3, <4>4, SeqFacts DEF e
        <5>2. e[1] = "pre"
          BY <4>3 DEF e
        <5>3. \A n \in 1 .. Len(Top.set) + 1 : n \in 1 .. Len(Top.set) \/ n = Len(Top.set) + 1
          BY <5>1
        <5> QED
          BY <4>1, <5>1, <5>2, <5>3
      <4> QED
        BY <1>6, <4>1, <4>4
    <3>4. Answers(k)'
      BY <1>3, <1>6, <1>18, <2>2, <3>1, <3>2, <3>3 DEF Answers, Types
    <3> QED
      BY <3>1, <3>4
  <2>4. CASE k # Depth
    <3>1. frames'[k] = frames[k] /\ frames[k].phase = "original"
      BY <1>1, <1>8, <1>19, <2>4, BelowFacts
    <3>2. Answers(k) /\ (Waiting(k) => Saves(k))
      BY <2>1 DEF ReturnInv
    <3>3. Answers(k)'
      BY <3>1, <3>2 DEF Answers
    <3>4. Entry(k)' = Entry(k) /\ Overrides(Entry(k))' = Overrides(Entry(k))
      BY <1>4, <1>9 DEF Overrides
    <3>5. Waiting(k)' => Saves(k)'
      BY <1>4, <1>9, <3>1, <3>2, <3>4 DEF Saves
    <3> QED
      BY <3>3, <3>5
  <2> QED
    BY <2>3, <2>4
<1>20. ReturnsDecided'
  <2> SUFFICES ASSUME "nested" \notin risks, NEW k \in 1 .. Depth, frames'[k].phase = "done"
               PROVE  FALSE
    BY <1>4, <1>8 DEF ReturnsDecided
  <2>1. CASE k = Depth
    BY <1>3, <1>6, <1>8, <2>1 DEF Types
  <2>2. CASE k # Depth
    BY <1>1, <1>8, <2>2, BelowFacts
  <2> QED
    BY <2>1, <2>2
<1>r. RegsInv'
  <2>1. RegsInv /\ regs' = regs /\ \A k \in 1 .. Depth : frames'[k].via = frames[k].via
    BY <1>1, <1>2, <1>4, <1>6, <1>8 DEF IndInv
  <2> QED
    BY <1>2, <1>8, <2>1, RegsKept
<1> QED
  BY <1>r, <1>4, <1>11, <1>12, <1>13, <1>14, <1>15, <1>16, <1>17, <1>19, <1>20 DEF IndInv
-----------------------------------------------------------------------------
(* How many of a stack's first entries say Override. *)
OverridesOf(s, n) == {m \in 1 .. n : s[m] = Override}

LEMMA Counted ==
  ASSUME NEW s, NEW n \in Nat
  PROVE  /\ IsFiniteSet(OverridesOf(s, n)) /\ Cardinality(OverridesOf(s, n)) \in Nat
         /\ \A m \in 0 .. n : Cardinality(OverridesOf(s, m)) <= Cardinality(OverridesOf(s, n))
         /\ s[n + 1] = Override => Cardinality(OverridesOf(s, n + 1)) = Cardinality(OverridesOf(s, n)) + 1
         /\ s[n + 1] # Override => OverridesOf(s, n + 1) = OverridesOf(s, n)
<1>1. \A m \in Nat : IsFiniteSet(OverridesOf(s, m)) /\ Cardinality(OverridesOf(s, m)) \in Nat
  <2> SUFFICES ASSUME NEW m \in Nat
               PROVE  IsFiniteSet(OverridesOf(s, m)) /\ Cardinality(OverridesOf(s, m)) \in Nat
    OBVIOUS
  <2>1. IsFiniteSet(1 .. m) /\ OverridesOf(s, m) \subseteq 1 .. m
    BY FS_Interval DEF OverridesOf
  <2> QED
    BY <2>1, FS_Subset, FS_CardinalityType
<1>2. ASSUME NEW m \in 0 .. n
      PROVE  Cardinality(OverridesOf(s, m)) <= Cardinality(OverridesOf(s, n))
  <2>1. OverridesOf(s, m) \subseteq OverridesOf(s, n)
    BY DEF OverridesOf
  <2> QED
    BY <1>1, <2>1, FS_Subset
<1>3. n + 1 \notin OverridesOf(s, n) /\ \A m \in 1 .. n + 1 : m \in 1 .. n \/ m = n + 1
  BY DEF OverridesOf
<1>4. ASSUME s[n + 1] = Override
      PROVE  Cardinality(OverridesOf(s, n + 1)) = Cardinality(OverridesOf(s, n)) + 1
  <2>1. OverridesOf(s, n + 1) = OverridesOf(s, n) \cup {n + 1}
    BY <1>4 DEF OverridesOf
  <2> QED
    BY <1>1, <1>3, <2>1, FS_AddElement
<1>5. ASSUME s[n + 1] # Override
      PROVE  OverridesOf(s, n + 1) = OverridesOf(s, n)
  BY <1>5 DEF OverridesOf
<1> QED
  BY <1>1, <1>2, <1>4, <1>5

LEMMA CountedSame ==
  ASSUME NEW s, NEW u, NEW n \in Nat, \A m \in 1 .. n : s[m] = u[m]
  PROVE  \A m \in 0 .. n : OverridesOf(s, m) = OverridesOf(u, m)
<1> SUFFICES ASSUME NEW m \in 0 .. n
             PROVE  OverridesOf(s, m) = OverridesOf(u, m)
  OBVIOUS
<1>1. \A j \in 1 .. m : j \in 1 .. n
  OBVIOUS
<1> QED
  BY <1>1 DEF OverridesOf

LEMMA OverridesIs == \A n : Overrides(n) = OverridesOf(lastPre, n) /\ Overrides(n)' = OverridesOf(lastPre', n)
BY DEF Overrides, OverridesOf

(* The frame of a call whose callbacks have all answered. *)
Finished(g, ph, e) == [g EXCEPT !.eax = e, !.phase = ph, !.i = 1, !.final = Ignored, !.value = JUNK, !.due = {}]

LEMMA FinishedFrame ==
  ASSUME NEW g \in Frames, NEW ph \in {"original", "return", "done"}, NEW e \in Data, NEW f,
         f = Finished(g, ph, e)
  PROVE  /\ f \in Frames /\ f.eax = e /\ f.phase = ph /\ f.i = 1 /\ f.final = Ignored /\ f.value = JUNK /\ f.due = {}
         /\ f.via = g.via /\ f.callback = g.callback /\ f.gone = g.gone /\ f.args = g.args /\ f.set = g.set
<1>1. JUNK \in Data /\ Ignored \in Actions /\ 1 \in Nat \ {0} /\ {} \in SUBSET Callbacks
  BY ActionsAre DEF Data
<1>2. ph \in Types \cup {"original", "return", "done"}
  OBVIOUS
<1>3. f \in Frames
  BY <1>1, <1>2 DEF Frames, Finished
<1>4. f.eax = e /\ f.phase = ph /\ f.i = 1 /\ f.final = Ignored /\ f.value = JUNK /\ f.due = {}
  BY DEF Frames, Finished
<1>5. f.via = g.via /\ f.callback = g.callback /\ f.gone = g.gone /\ f.args = g.args /\ f.set = g.set
  BY DEF Frames, Finished
<1> QED
  BY <1>3, <1>4, <1>5

(* What is written to the machine's register is data. *)
LEMMA WrittenType ==
  ASSUME TypeOK, Depth > 0
  PROVE  Written \in Data
<1>1. Top \in Frames
  BY DepthFacts
<1> QED
  BY <1>1 DEF Written, TypeOK, Frames

(* All callbacks before the call have answered. *)
LEMMA BeforeDoneStep ==
  ASSUME IndInv, BeforeDone
  PROVE  IndInv'
<1>1. /\ TypeOK /\ ~ broken /\ FrameInv /\ StackInv /\ AddressInv /\ DueInv
      /\ ("nested" \notin risks => ArgsInv /\ ReturnInv) /\ ReturnsDecided
  BY DEF IndInv, BeforeDone, Answered, At
<1>2. /\ Depth > 0 /\ Top.callback = NONE /\ Top.phase = "pre" /\ Top \in Frames /\ Depth \in Nat /\ Depth \in 1 .. Depth
      /\ Depth \in 1 .. MaxDepth /\ Top = frames[Depth]
  BY <1>1, DepthFacts DEF BeforeDone, Answered, At
<1>3. Top.via /\ Top.final \in Actions /\ ~ Waiting(Depth)
  BY <1>1, <1>2, BelowFacts DEF Frames, Waiting
<1> DEFINE ph == IF Top.final = Supercede THEN "return" ELSE "original"
           f == [Top EXCEPT !.eax = Written, !.phase = ph, !.i = 1, !.final = Ignored, !.value = JUNK, !.due = {}]
<1>4. /\ SetTop(f) /\ UNCHANGED <<hooked, registered, listeners, regs, retAddr, stack, risks>>
      /\ lastPre' = Append(lastPre, Top.final)
      /\ savedRet' = (IF Top.final = Override THEN Append(savedRet, Written) ELSE savedRet)
      /\ savedArgs' = (IF Top.final < Supercede THEN Append(savedArgs, stack[regs.esp]) ELSE savedArgs)
      /\ broken' <=> regs.esp # Depth
  BY DEF BeforeDone, OwnStack
<1>5. ph \in {"original", "return", "done"} /\ (ph = "return" <=> Top.final = Supercede) /\ ph \in {"original", "return"}
  OBVIOUS
<1>6. /\ f \in Frames /\ f.eax = Written /\ f.phase = ph /\ f.i = 1 /\ f.final = Ignored /\ f.value = JUNK /\ f.due = {}
      /\ f.via = Top.via /\ f.callback = NONE /\ f.gone = Top.gone /\ f.args = Top.args /\ f.set = Top.set
  <2>1. Written \in Data
    BY <1>1, <1>2, WrittenType
  <2> HIDE DEF ph
  <2>2. f = Finished(Top, ph, Written)
    BY DEF Finished
  <2>3. Top \in Frames
    BY <1>2
  <2> HIDE DEF f
  <2>4. /\ f \in Frames /\ f.eax = Written /\ f.phase = ph /\ f.i = 1 /\ f.final = Ignored /\ f.value = JUNK /\ f.due = {}
        /\ f.via = Top.via /\ f.callback = Top.callback /\ f.gone = Top.gone /\ f.args = Top.args /\ f.set = Top.set
    BY <1>5, <2>1, <2>2, <2>3, FinishedFrame
  <2> QED
    BY <1>2, <2>4
<1> HIDE DEF f, ph
<1>7. /\ frames' \in Seq(Frames) /\ Depth' = Depth /\ Top' = f /\ frames'[Depth] = f
      /\ \A k \in 1 .. Depth : k # Depth => frames'[k] = frames[k]
  BY <1>1, <1>2, <1>4, <1>6, SetTopFacts
<1>8. PICK l \in Nat : l = Len(lastPre)
  BY <1>1 DEF TypeOK
<1>9. /\ lastPre' \in Seq(Actions) /\ Len(lastPre') = l + 1 /\ lastPre'[l + 1] = Top.final /\ Last(lastPre') = Top.final
      /\ \A n \in 1 .. l : lastPre'[n] = lastPre[n]
  BY <1>1, <1>3, <1>4, <1>8, SeqFacts DEF TypeOK
<1>10. /\ savedRet' \in Seq(Data) /\ \A n \in 1 .. Len(savedRet) : savedRet'[n] = savedRet[n]
       /\ Top.final # Override => Len(savedRet') = Len(savedRet)
       /\ Top.final = Override => Len(savedRet') = Len(savedRet) + 1 /\ savedRet'[Len(savedRet) + 1] = Written
  <2>1. savedRet \in Seq(Data) /\ Written \in Data
    BY <1>1, <1>2, WrittenType DEF TypeOK
  <2> QED
    BY <1>4, <2>1, SeqFacts
<1>11. /\ savedArgs' \in Seq(Data) /\ \A n \in 1 .. Len(savedArgs) : savedArgs'[n] = savedArgs[n]
       /\ ~ (Top.final < Supercede) => Len(savedArgs') = Len(savedArgs)
       /\ Top.final < Supercede => Len(savedArgs') = Len(savedArgs) + 1 /\ (OwnStack => savedArgs'[Len(savedArgs) + 1] = stack[Depth])
  <2>1. savedArgs \in Seq(Data)
    BY <1>1 DEF TypeOK
  <2>2. regs.esp \in 1 .. MaxDepth /\ stack \in [1 .. MaxDepth -> Data]
    <3>1. regs.esp # 0 /\ regs.esp \in 0 .. MaxDepth /\ MaxDepth \in Nat
      BY <1>2, <1>3, <1>1, DHooksAssumption DEF IndInv, RegsInv, TypeOK
    <3> QED
      BY <1>1, <3>1 DEF TypeOK
  <2>3. stack[regs.esp] \in Data
    BY <2>2
  <2> QED
    BY <1>4, <2>1, <2>3, SeqFacts DEF OwnStack
<1>12. TypeOK'
  <2>1. Depth' <= MaxDepth
    BY <1>1, <1>7, DepthFacts
  <2>2. broken' \in BOOLEAN
    BY DEF BeforeDone
  <2> QED
    BY <1>1, <1>4, <1>7, <1>9, <1>10, <1>11, <2>1, <2>2, TypeRest DEF TypeOK
<1>13. broken' => risks' # {}
  <2>1. "nested" \notin risks => regs.esp = Depth
    BY <1>1, <1>2 DEF ArgsInv, Types
  <2> QED
    BY <1>4, <2>1
<1>14. FrameInv'
  <2> SUFFICES ASSUME NEW k \in 1 .. Depth
               PROVE  /\ k < Depth /\ frames'[k].phase # "original" => frames'[k].callback # NONE /\ "nested" \in risks
                      /\ frames'[k].callback # NONE => frames'[k].phase \in Types
                      /\ frames'[k].via \/ frames'[k].phase = "original"
                      /\ frames'[k].via => hooked /\ \A j \in k .. Depth : frames'[j].via
                      /\ frames'[k].phase \notin Types => frames'[k].i = 1 /\ frames'[k].final = Ignored /\ frames'[k].value = JUNK
                      /\ frames'[k].gone => "removed" \in risks
    BY <1>4, <1>7 DEF FrameInv
  <2>1. \A j \in 1 .. Depth : frames'[j].via = frames[j].via
    BY <1>2, <1>6, <1>7
  <2>2. frames'[k].via => hooked /\ \A j \in k .. Depth : frames'[j].via
    <3>1. \A j \in k .. Depth : j \in 1 .. Depth
      BY <1>2
    <3> QED
      BY <1>1, <2>1, <3>1 DEF FrameInv
  <2>3. CASE k = Depth
    <3>1. frames'[k] = f /\ ~ (k < Depth)
      BY <1>2, <1>7, <2>3
    <3>2. f.gone => "removed" \in risks
      BY <1>1, <1>2, <1>6 DEF FrameInv
    <3> QED
      BY <1>3, <1>6, <2>2, <3>1, <3>2
  <2>4. CASE k # Depth
    <3>1. frames'[k] = frames[k]
      BY <1>7, <2>4
    <3> QED
      BY <1>1, <2>2, <3>1 DEF FrameInv
  <2> QED
    BY <2>3, <2>4
<1>15. /\ Waiting(Depth)' /\ \A k \in 1 .. Depth : k # Depth => (Waiting(k)' <=> Waiting(k))
       /\ Cardinality({k \in 1 .. Depth' : Waiting(k)'}) = l + 1
  <2>1. Waiting(Depth)'
    BY <1>3, <1>5, <1>6, <1>7 DEF Waiting
  <2>2. ASSUME NEW k \in 1 .. Depth, k # Depth
        PROVE  Waiting(k)' <=> Waiting(k)
    <3>1. frames'[k] = frames[k]
      BY <1>7, <2>2
    <3> QED
      BY <3>1, Zenon DEF Waiting
  <2> DEFINE W == {k \in 1 .. Depth : Waiting(k)}
             V == {k \in 1 .. Depth' : Waiting(k)'}
  <2>3. V = W \cup {Depth}
    <3>1. \A k \in 1 .. Depth : k \in V <=> k \in W \/ k = Depth
      <4> SUFFICES ASSUME NEW k \in 1 .. Depth
                   PROVE  k \in V <=> k \in W \/ k = Depth
        OBVIOUS
      <4>1. Waiting(k)' <=> Waiting(k) \/ k = Depth
        <5>1. CASE k = Depth
          <6>1. Waiting(k)'
            BY <1>7, <2>1, <5>1 DEF Waiting
          <6> QED
            BY <5>1, <6>1
        <5>2. CASE k # Depth
          BY <2>2, <5>2
        <5> QED
          BY <5>1, <5>2
      <4> QED
        BY <1>7, <4>1, Zenon
    <3>2. V \subseteq 1 .. Depth /\ W \subseteq 1 .. Depth /\ Depth \in 1 .. Depth
      BY <1>2, <1>7
    <3> HIDE DEF V, W
    <3> QED
      BY <3>1, <3>2, Zenon
  <2>4. Depth \notin W
    BY <1>3, Zenon
  <2>5. IsFiniteSet(W) /\ Cardinality(W) = l
    <3>0. Depth \in Nat
      BY <1>2
    <3>1. IsFiniteSet(1 .. Depth)
      BY <3>0, FS_Interval
    <3>2. IsFiniteSet(W)
      BY <3>1, FS_Subset
    <3> QED
      BY <1>1, <1>8, <3>2 DEF StackInv
  <2>6. Cardinality(W \cup {Depth}) = l + 1
    <3> HIDE DEF W
    <3> QED
      BY <2>4, <2>5, FS_AddElement
  <2> QED
    BY <2>1, <2>2, <2>3, <2>6
<1>16. /\ \A n \in 0 .. l : Overrides(n)' = Overrides(n)
       /\ Cardinality(Overrides(l + 1)') = Len(savedRet')
       /\ Top.final = Override => Cardinality(Overrides(l + 1)') = Len(savedRet) + 1
  <2>1. \A n \in 0 .. l : Overrides(n)' = Overrides(n)
    BY <1>9, OverridesIs, CountedSame
  <2>2. Len(savedRet) = Cardinality(Overrides(l)) /\ Overrides(l)' = Overrides(l)
    BY <1>1, <1>8, <2>1 DEF StackInv
  <2>3. /\ Top.final = Override => Cardinality(Overrides(l + 1)') = Len(savedRet) + 1
        /\ Top.final # Override => Cardinality(Overrides(l + 1)') = Len(savedRet)
    BY <1>8, <1>9, <2>2, OverridesIs, Counted
  <2> QED
    BY <1>10, <2>1, <2>3
<1>17. StackInv'
  <2>1. \A n \in 1 .. l : lastPre[n] # Supercede
    BY <1>1, <1>2, <1>8 DEF StackInv
  <2>2. Len(savedArgs) = l /\ Len(lastPre') = l + 1
    BY <1>1, <1>2, <1>8, <1>9 DEF StackInv
  <2>3. \A n \in 1 .. l + 1 : lastPre'[n] = Supercede => n = l + 1 /\ Top.final = Supercede
    <3>1. \A n \in 1 .. l + 1 : n \in 1 .. l \/ n = l + 1
      BY <1>8
    <3> QED
      BY <1>9, <2>1, <3>1
  <2>4. Top'.phase = "return" <=> Top.final = Supercede
    BY <1>5, <1>6, <1>7
  <2>5. \A n \in 1 .. Len(lastPre') : lastPre'[n] = Supercede => n = Len(lastPre') /\ Depth' > 0 /\ Top'.phase = "return"
    BY <1>2, <1>7, <2>2, <2>3, <2>4
  <2>6. IF Depth' > 0 /\ Top'.phase = "return" /\ Last(lastPre') = Supercede
          THEN Len(savedArgs') = Len(lastPre') - 1
          ELSE Len(savedArgs') = Len(lastPre')
    <3>1. Top.final < Supercede <=> Top.final # Supercede
      BY <1>3, ActionsAre
    <3>2. Top.final = Supercede => Len(savedArgs') = l
      BY <1>11, <2>2, <3>1
    <3>3. Top.final # Supercede => Len(savedArgs') = l + 1
      BY <1>11, <2>2, <3>1
    <3> QED
      BY <1>2, <1>7, <1>8, <1>9, <2>2, <2>4, <3>2, <3>3
  <2>7. Len(lastPre') = Cardinality({k \in 1 .. Depth' : Waiting(k)'})
    BY <1>15, <2>2
  <2>8. Len(savedRet') = Cardinality(Overrides(Len(lastPre))')
    BY <1>9, <1>16, OverridesIs
  <2> QED
    BY <2>5, <2>6, <2>7, <2>8 DEF StackInv
<1>18. AddressInv'
  <2> SUFFICES ASSUME NEW x \in 1 .. MaxDepth
               PROVE  retAddr[x] = IF x <= Depth /\ frames'[x].via /\ frames'[x].phase # "done" THEN 1 ELSE 0
    BY <1>4, <1>7 DEF AddressInv
  <2>1. x <= Depth => frames'[x].via = frames[x].via /\ (frames'[x].phase # "done" <=> frames[x].phase # "done")
    BY <1>2, <1>5, <1>6, <1>7
  <2> QED
    BY <1>1, <2>1 DEF AddressInv
<1>19. DueInv'
  <2>0. risks' = risks /\ listeners' = listeners /\ Depth' = Depth
    BY <1>4, <1>7
  <2> SUFFICES ASSUME "removed" \notin risks, NEW k \in 1 .. Depth, NEW c \in frames'[k].due
               PROVE  /\ frames'[k].phase \in Types
                      /\ \E n \in frames'[k].i .. Len(listeners[frames'[k].phase]) :
                           listeners[frames'[k].phase][n] = c /\ (frames'[k].callback # NONE => n # frames'[k].i)
    BY <2>0 DEF DueInv
  <2>1. k # Depth
    BY <1>6, <1>7
  <2>2. frames'[k] = frames[k]
    BY <1>7, <2>1
  <2> QED
    BY <1>1, <2>2 DEF DueInv
<1>20. ASSUME "nested" \notin risks
       PROVE  /\ \A k \in 1 .. Depth : Waiting(k)' => Entry(k)' = (l + 1 + k) - Depth
              /\ \A k \in 1 .. Depth : k # Depth =>
                   /\ frames'[k] = frames[k] /\ frames[k].phase = "original"
                   /\ Waiting(k) => Entry(k)' = Entry(k) /\ Entry(k) \in 1 .. l
  <2>1. \A k : Entry(k)' = (l + 1 + k) - Depth
    <3>1. Waiting(Depth)' <=> frames'[Depth].via /\ frames'[Depth].phase \in {"original", "return"}
      BY <1>7 DEF Waiting
    <3>2. Waiting(Depth)'
      BY <1>15
    <3> QED
      BY <1>7, <1>9, <3>2 DEF Entry
  <2>2. ASSUME NEW k \in 1 .. Depth, k # Depth
        PROVE  /\ frames'[k] = frames[k] /\ frames[k].phase = "original"
               /\ Waiting(k) => Entry(k)' = Entry(k) /\ Entry(k) \in 1 .. l
    <3>1. frames'[k] = frames[k] /\ frames[k].phase = "original"
      BY <1>1, <1>7, <1>20, <2>2, BelowFacts
    <3>2. Entry(k) = (l + k + 1) - Depth
      BY <1>3, <1>8 DEF Entry
    <3>3. Waiting(k) => Entry(k) >= 1
      BY <1>1, <1>20 DEF ArgsInv
    <3>4. k \in Nat /\ k < Depth /\ Depth \in Nat
      BY <1>2, <2>2
    <3> QED
      BY <1>8, <2>1, <3>1, <3>2, <3>3, <3>4
  <2> QED
    BY <2>1, <2>2
<1>21. ASSUME "nested" \notin risks
       PROVE  ArgsInv'
  <2>1. ArgsInv /\ OwnStack /\ Top'.phase \notin Types /\ stack[Depth] = Top.args
    BY <1>1, <1>2, <1>5, <1>6, <1>7, <1>21 DEF ArgsInv, Types, OwnStack
  <2>2. Len(savedArgs) = l
    BY <1>1, <1>2, <1>8 DEF StackInv
  <2> SUFFICES ASSUME NEW k \in 1 .. Depth
               PROVE  /\ frames'[k].phase \in Types \cup {"original"} => stack'[k] = frames'[k].args
                      /\ Waiting(k)' =>
                           /\ Entry(k)' >= 1
                           /\ frames'[k].phase = "original" => lastPre'[Entry(k)'] < Supercede
                           /\ lastPre'[Entry(k)'] < Supercede => savedArgs'[Entry(k)'] = frames'[k].args
                           /\ lastPre'[Entry(k)'] = Supercede => stack'[k] = frames'[k].args
    BY <1>7, <2>1 DEF ArgsInv
  <2>3. CASE k = Depth
    <3>1. frames'[k] = f /\ f.args = Top.args /\ stack'[k] = Top.args
      BY <1>4, <1>6, <1>7, <2>1, <2>3
    <3>2. Waiting(k)' => Entry(k)' = l + 1
      BY <1>2, <1>8, <1>20, <1>21, <2>3
    <3>3. lastPre'[l + 1] = Top.final /\ l + 1 >= 1
      BY <1>8, <1>9
    <3>4. f.phase = "original" => Top.final < Supercede
      BY <1>3, <1>5, <1>6, ActionsAre
    <3>5. Top.final < Supercede => savedArgs'[l + 1] = Top.args
      BY <1>11, <2>1, <2>2
    <3> QED
      BY <3>1, <3>2, <3>3, <3>4, <3>5
  <2>4. CASE k # Depth
    <3>1. frames'[k] = frames[k] /\ stack'[k] = stack[k] /\ (Waiting(k)' <=> Waiting(k))
      BY <1>4, <1>7, <1>15, <2>4
    <3>2. Waiting(k) => /\ Entry(k)' = Entry(k) /\ lastPre'[Entry(k)] = lastPre[Entry(k)]
                        /\ savedArgs'[Entry(k)] = savedArgs[Entry(k)]
      BY <1>9, <1>11, <1>20, <1>21, <2>2, <2>4
    <3> QED
      BY <2>1, <3>1, <3>2 DEF ArgsInv
  <2> QED
    BY <2>3, <2>4
<1>22. ASSUME "nested" \notin risks
       PROVE  ReturnInv'
  <2>1. ReturnInv
    BY <1>1, <1>22
  <2>2. /\ Resolved(Top, "pre") /\ \A n \in 1 .. Len(Top.set) : Top.set[n][1] = "pre"
    BY <1>2, <2>1 DEF ReturnInv, Answers
  <2>3. /\ Top.final >= Override => Decided(Top, "pre") = Top.value /\ Written = Top.value
        /\ Top.final < Override => Decided(Top, "pre") = NONE
        /\ Top.value # NONE /\ Top.final \in {0, 1, 2, 3} /\ Override = 2 /\ Supercede = 3
    BY <1>2, <2>2, ActionsAre, DHooksAssumption DEF Resolved, Written, Frames
  <2> SUFFICES ASSUME NEW k \in 1 .. Depth
               PROVE  Answers(k)' /\ (Waiting(k)' => Saves(k)')
    BY <1>7 DEF ReturnInv
  <2>4. CASE k = Depth
    <3>1. frames'[k] = f /\ (Waiting(k)' => Entry(k)' = l + 1) /\ lastPre'[l + 1] = Top.final
      BY <1>2, <1>7, <1>8, <1>9, <1>20, <1>22, <2>4
    <3>2. Answers(k)'
      BY <1>5, <1>6, <2>2, <3>1 DEF Answers
    <3>3. Decided(f, "pre") = Decided(Top, "pre")
      BY <1>6, DecidedSame
    <3>4. Top.final < Override <=> Decided(f, "pre") = NONE
      BY <2>3, <3>3
    <3>5. Top.final = Override => savedRet'[Cardinality(Overrides(l + 1)')] = Decided(f, "pre")
      BY <1>10, <1>16, <2>3, <3>3
    <3>6. f.phase = "return" => Top.final = Supercede /\ f.eax = Decided(f, "pre")
      BY <1>5, <1>6, <2>3, <3>3
    <3>7. Waiting(k)' => Saves(k)'
      <4> SUFFICES ASSUME Waiting(k)'
                   PROVE  Saves(k)'
        OBVIOUS
      <4>1. Entry(k)' = l + 1 /\ Overrides(Entry(k))' = Overrides(l + 1)'
        BY <3>1 DEF Overrides
      <4> QED
        BY <3>1, <3>4, <3>5, <3>6, <4>1 DEF Saves
    <3> QED
      BY <3>2, <3>7
  <2>5. CASE k # Depth
    <3>1. frames'[k] = frames[k] /\ frames[k].phase = "original" /\ (Waiting(k)' <=> Waiting(k))
      BY <1>15, <1>20, <1>22, <2>5
    <3>2. Answers(k) /\ (Waiting(k) => Saves(k))
      BY <2>1 DEF ReturnInv
    <3>3. Answers(k)'
      BY <3>1, <3>2 DEF Answers
    <3>4. Waiting(k)' => Saves(k)'
      <4> SUFFICES ASSUME Waiting(k)
                   PROVE  Saves(k)'
        BY <3>1
      <4>1. PICK n \in 1 .. l : n = Entry(k) /\ n = Entry(k)'
        BY <1>20, <1>22, <2>5
      <4>2. lastPre'[n] = lastPre[n] /\ Overrides(n)' = Overrides(n)
        BY <1>8, <1>9, <1>16
      <4>3. Overrides(Entry(k))' = Overrides(n) /\ Overrides(Entry(k)) = Overrides(n)
        BY <4>1, <4>2 DEF Overrides
      <4>4. lastPre[n] = Override => Cardinality(Overrides(n)) \in 1 .. Len(savedRet)
        <5> SUFFICES ASSUME lastPre[n] = Override
                     PROVE  Cardinality(Overrides(n)) \in 1 .. Len(savedRet)
          OBVIOUS
        <5>1. PICK m \in 0 .. l : n = m + 1
          BY <1>8
        <5>2. Cardinality(Overrides(n)) = Cardinality(Overrides(m)) + 1 /\ Cardinality(Overrides(m)) \in Nat
          BY <5>1, OverridesIs, Counted
        <5>3. Cardinality(Overrides(n)) <= Cardinality(Overrides(l)) /\ Cardinality(Overrides(l)) = Len(savedRet)
          <6>1. n \in 0 .. l
            BY <1>8
          <6> QED
            BY <1>1, <1>8, <6>1, OverridesIs, Counted DEF StackInv
        <5> QED
          BY <5>2, <5>3
      <4>5. lastPre[n] = Override => savedRet'[Cardinality(Overrides(n))] = savedRet[Cardinality(Overrides(n))]
        BY <1>10, <4>4
      <4> QED
        BY <3>1, <3>2, <4>1, <4>2, <4>3, <4>5 DEF Saves
    <3> QED
      BY <3>3, <3>4
  <2> QED
    BY <2>4, <2>5
<1>23. ReturnsDecided'
  <2> SUFFICES ASSUME "nested" \notin risks, NEW k \in 1 .. Depth, frames'[k].phase = "done"
               PROVE  FALSE
    BY <1>4, <1>7 DEF ReturnsDecided
  <2>1. CASE k = Depth
    BY <1>5, <1>6, <1>7, <2>1
  <2>2. CASE k # Depth
    BY <1>20, <2>2
  <2> QED
    BY <2>1, <2>2
<1>24. RegsInv'
  <2>1. RegsInv /\ regs' = regs /\ \A k \in 1 .. Depth : frames'[k].via = frames[k].via
    BY <1>1, <1>2, <1>4, <1>6, <1>7 DEF IndInv
  <2> QED
    BY <1>2, <1>7, <2>1, RegsKept
<1> QED
  BY <1>4, <1>12, <1>13, <1>14, <1>17, <1>18, <1>19, <1>21, <1>22, <1>23, <1>24 DEF IndInv
(* The original returns. *)
LEMMA OriginalReturnsStep ==
  ASSUME IndInv, NEW reused \in BOOLEAN, OriginalReturns(reused)
  PROVE  IndInv'
<1>1. /\ TypeOK /\ ~ broken /\ FrameInv /\ StackInv /\ AddressInv /\ DueInv
      /\ ("nested" \notin risks => ArgsInv /\ ReturnInv) /\ ReturnsDecided
  BY DEF IndInv, OriginalReturns, At
<1>2. /\ Depth > 0 /\ Top.callback = NONE /\ Top.phase = "original" /\ Top \in Frames /\ Depth \in Nat /\ Depth \in 1 .. Depth
      /\ Depth \in 1 .. MaxDepth /\ Top = frames[Depth]
  BY <1>1, DepthFacts DEF OriginalReturns, At
<1>3. CASE ~ Top.via
  <2>1. ~ Waiting(Depth)
    BY <1>2, <1>3 DEF Waiting
  <2>2. /\ frames' = Front(frames) /\ stack' = [stack EXCEPT ![Depth] = JUNK] /\ risks' = risks
        /\ UNCHANGED <<hooked, registered, listeners, regs, lastPre, savedRet, savedArgs, retAddr, broken>>
    BY <1>3 DEF OriginalReturns, saved
  <2> QED
    BY <1>1, <1>2, <1>3, <2>1, <2>2, PopStep
<1>4. CASE Top.via
  <2> DEFINE f == [Top EXCEPT !.phase = "return", !.eax = <<Depth, "original">>]
  <2>1. /\ SetTop(f)
        /\ UNCHANGED <<hooked, registered, listeners, regs, lastPre, savedRet, savedArgs, retAddr, broken, risks>>
        /\ stack' = stack \/ stack' = [stack EXCEPT ![Depth] = JUNK]
    BY <1>4 DEF OriginalReturns, saved
  <2>2. <<Depth, "original">> \in Data
    BY <1>2, DatumType
  <2>3. f \in Frames
    BY <1>2, <2>2 DEF Frames
  <2>4. /\ f.phase = "return" /\ f.eax = <<Depth, "original">> /\ f.via = Top.via /\ f.callback = NONE /\ f.i = Top.i
        /\ f.final = Top.final /\ f.value = Top.value /\ f.gone = Top.gone /\ f.args = Top.args /\ f.due = Top.due
        /\ f.set = Top.set
    BY <1>2 DEF Frames
  <2> HIDE DEF f
  <2>5. /\ frames' \in Seq(Frames) /\ Depth' = Depth /\ Top' = f /\ frames'[Depth] = f
        /\ \A k \in 1 .. Depth : k # Depth => frames'[k] = frames[k]
    BY <1>1, <1>2, <2>1, <2>3, SetTopFacts
  <2>6. /\ \A k \in 1 .. Depth : (Waiting(k)' <=> Waiting(k)) /\ Entry(k)' = Entry(k)
        /\ {k \in 1 .. Depth' : Waiting(k)'} = {k \in 1 .. Depth : Waiting(k)}
        /\ \A n : Overrides(n)' = Overrides(n)
    BY <1>1, <1>2, <2>1, <2>3, <2>4, Unmoved
  <2>7. /\ stack \in [1 .. MaxDepth -> Data] /\ stack' \in [1 .. MaxDepth -> Data]
        /\ \A k \in 1 .. MaxDepth : k # Depth => stack'[k] = stack[k]
    <3>1. stack \in [1 .. MaxDepth -> Data] /\ JUNK \in Data
      BY <1>1 DEF TypeOK, Data
    <3> QED
      BY <2>1, <3>1
  <2>8. TypeOK'
    <3>1. Depth' <= MaxDepth
      BY <1>1, <2>5, DepthFacts
    <3> QED
      BY <1>1, <2>1, <2>5, <2>7, <3>1, TypeRest DEF TypeOK
  <2>9. FrameInv'
    <3> SUFFICES ASSUME NEW k \in 1 .. Depth
                 PROVE  /\ k < Depth /\ frames'[k].phase # "original" => frames'[k].callback # NONE /\ "nested" \in risks
                        /\ frames'[k].callback # NONE => frames'[k].phase \in Types
                        /\ frames'[k].via \/ frames'[k].phase = "original"
                        /\ frames'[k].via => hooked /\ \A j \in k .. Depth : frames'[j].via
                        /\ frames'[k].phase \notin Types => frames'[k].i = 1 /\ frames'[k].final = Ignored /\ frames'[k].value = JUNK
                        /\ frames'[k].gone => "removed" \in risks
      BY <2>1, <2>5 DEF FrameInv
    <3>1. \A j \in 1 .. Depth : frames'[j].via = frames[j].via
      BY <1>2, <2>4, <2>5
    <3>2. frames'[k].via => hooked /\ \A j \in k .. Depth : frames'[j].via
      <4>1. \A j \in k .. Depth : j \in 1 .. Depth
        BY <1>2
      <4> QED
        BY <1>1, <3>1, <4>1 DEF FrameInv
    <3>3. CASE k = Depth
      <4>1. frames'[k] = f /\ ~ (k < Depth)
        BY <1>2, <2>5, <3>3
      <4>2. (f.gone => "removed" \in risks) /\ f.i = 1 /\ f.final = Ignored /\ f.value = JUNK
        BY <1>1, <1>2, <2>4 DEF FrameInv, Types
      <4> QED
        BY <1>4, <2>4, <3>2, <4>1, <4>2
    <3>4. CASE k # Depth
      <4>1. frames'[k] = frames[k]
        BY <2>5, <3>4
      <4> QED
        BY <1>1, <3>2, <4>1 DEF FrameInv
    <3> QED
      BY <3>3, <3>4
  <2>10. StackInv'
    <3>1. \A n \in 1 .. Len(lastPre) : lastPre[n] # Supercede
      BY <1>1, <1>2 DEF StackInv
    <3>2. Waiting(Depth)
      BY <1>2, <1>4 DEF Waiting
    <3>3. Last(lastPre) # Supercede
      <4>1. Len(lastPre) \in 1 .. Len(lastPre)
        <5>1. Len(lastPre) > 0 /\ Len(lastPre) \in Nat
          BY <1>1, <1>2, <3>2, SomeWait DEF TypeOK
        <5> QED
          BY <5>1
      <4> QED
        BY <3>1, <4>1 DEF Last
    <3>4. Len(savedArgs) = Len(lastPre)
      BY <1>1, <1>2 DEF StackInv
    <3>5. Overrides(Len(lastPre))' = Overrides(Len(lastPre)) /\ Last(lastPre') = Last(lastPre)
      BY <2>1 DEF Overrides
    <3> QED
      BY <1>1, <2>1, <2>6, <3>1, <3>3, <3>4, <3>5 DEF StackInv
  <2>11. AddressInv'
    <3> SUFFICES ASSUME NEW x \in 1 .. MaxDepth
                 PROVE  retAddr[x] = IF x <= Depth /\ frames'[x].via /\ frames'[x].phase # "done" THEN 1 ELSE 0
      BY <2>1, <2>5 DEF AddressInv
    <3>1. x <= Depth => frames'[x].via = frames[x].via /\ (frames'[x].phase # "done" <=> frames[x].phase # "done")
      BY <1>2, <2>4, <2>5
    <3> QED
      BY <1>1, <3>1 DEF AddressInv
  <2>12. DueInv'
    <3>0. risks' = risks /\ listeners' = listeners /\ Depth' = Depth
      BY <2>1, <2>5
    <3> SUFFICES ASSUME "removed" \notin risks, NEW k \in 1 .. Depth, NEW c \in frames'[k].due
                 PROVE  /\ frames'[k].phase \in Types
                        /\ \E n \in frames'[k].i .. Len(listeners[frames'[k].phase]) :
                             listeners[frames'[k].phase][n] = c /\ (frames'[k].callback # NONE => n # frames'[k].i)
      BY <3>0 DEF DueInv
    <3>1. k # Depth
      BY <1>1, <1>2, <2>4, <2>5 DEF DueInv, Types
    <3>2. frames'[k] = frames[k]
      BY <2>5, <3>1
    <3> QED
      BY <1>1, <3>2 DEF DueInv
  <2>13. ASSUME "nested" \notin risks
         PROVE  ArgsInv'
    <3>1. ArgsInv /\ Top'.phase \notin Types
      BY <1>1, <2>4, <2>5, <2>13 DEF Types
    <3> SUFFICES ASSUME NEW k \in 1 .. Depth
                 PROVE  /\ frames'[k].phase \in Types \cup {"original"} => stack'[k] = frames'[k].args
                        /\ Waiting(k)' =>
                             /\ Entry(k)' >= 1
                             /\ frames'[k].phase = "original" => lastPre'[Entry(k)'] < Supercede
                             /\ lastPre'[Entry(k)'] < Supercede => savedArgs'[Entry(k)'] = frames'[k].args
                             /\ lastPre'[Entry(k)'] = Supercede => stack'[k] = frames'[k].args
      BY <2>5, <3>1 DEF ArgsInv
    <3>2. CASE k = Depth
      <4>1. frames'[k] = f /\ frames[k] = Top /\ f.phase = "return" /\ f.args = Top.args /\ Top.phase = "original"
        BY <1>2, <2>4, <2>5, <3>2
      <4>2. lastPre' = lastPre /\ savedArgs' = savedArgs /\ Entry(k)' = Entry(k) /\ (Waiting(k)' <=> Waiting(k))
        BY <2>1, <2>6
      <4>3. Waiting(k) => Entry(k) >= 1 /\ lastPre[Entry(k)] < Supercede /\ savedArgs[Entry(k)] = Top.args
        BY <3>1, <4>1 DEF ArgsInv
      <4>4. lastPre[Entry(k)] < Supercede => lastPre[Entry(k)] # Supercede
        BY DEF Supercede
      <4>5. f.phase \notin Types \cup {"original"}
        BY <4>1 DEF Types
      <4> QED
        BY <4>1, <4>2, <4>3, <4>4, <4>5
    <3>3. CASE k # Depth
      <4>1. frames'[k] = frames[k] /\ stack'[k] = stack[k]
        BY <1>1, <2>5, <2>7, <3>3, DepthFacts
      <4> QED
        BY <2>1, <2>6, <3>1, <4>1 DEF ArgsInv
    <3> QED
      BY <3>2, <3>3
  <2>14. ASSUME "nested" \notin risks
         PROVE  ReturnInv'
    <3>1. ReturnInv /\ ArgsInv
      BY <1>1, <2>14
    <3> SUFFICES ASSUME NEW k \in 1 .. Depth
                 PROVE  Answers(k)' /\ (Waiting(k)' => Saves(k)')
      BY <2>5 DEF ReturnInv
    <3>2. Answers(k) /\ (Waiting(k) => Saves(k))
      BY <3>1 DEF ReturnInv
    <3>3. /\ lastPre' = lastPre /\ savedRet' = savedRet /\ Entry(k)' = Entry(k) /\ (Waiting(k)' <=> Waiting(k))
          /\ Overrides(Entry(k))' = Overrides(Entry(k))
      BY <2>1, <2>6 DEF Overrides
    <3>4. CASE k = Depth
      <4>1. frames'[k] = f /\ frames[k] = Top /\ f.set = Top.set /\ f.phase = "return" /\ Top.phase = "original"
            /\ f.eax = <<k, "original">>
        BY <1>2, <2>4, <2>5, <3>4
      <4>2. Answers(k)'
        BY <3>2, <4>1 DEF Answers
      <4>3. Decided(f, "pre") = Decided(Top, "pre")
        BY <4>1, DecidedSame
      <4>4. Waiting(k) => lastPre[Entry(k)] # Supercede
        BY <3>1, <4>1 DEF ArgsInv, Supercede
      <4>5. Waiting(k)' => Saves(k)'
        BY <3>2, <3>3, <4>1, <4>3, <4>4 DEF Saves
      <4> QED
        BY <4>2, <4>5
    <3>5. CASE k # Depth
      <4>1. frames'[k] = frames[k] /\ frames[k].phase = "original"
        BY <1>1, <2>5, <2>14, <3>5, BelowFacts
      <4>2. Answers(k)'
        BY <3>2, <4>1 DEF Answers
      <4>3. Waiting(k)' => Saves(k)'
        BY <3>2, <3>3, <4>1 DEF Saves
      <4> QED
        BY <4>2, <4>3
    <3> QED
      BY <3>4, <3>5
  <2>15. ReturnsDecided'
    <3> SUFFICES ASSUME "nested" \notin risks, NEW k \in 1 .. Depth, frames'[k].phase = "done"
                 PROVE  FALSE
      BY <2>1, <2>5 DEF ReturnsDecided
    <3>1. CASE k = Depth
      BY <2>4, <2>5, <3>1
    <3>2. CASE k # Depth
      BY <1>1, <2>5, <3>2, BelowFacts
    <3> QED
      BY <3>1, <3>2
  <2>16. RegsInv'
    <3>1. RegsInv /\ regs' = regs /\ \A k \in 1 .. Depth : frames'[k].via = frames[k].via
      BY <1>1, <1>2, <2>1, <2>4, <2>5 DEF IndInv
    <3> QED
      BY <1>2, <2>5, <3>1, RegsKept
  <2> QED
    BY <1>1, <2>1, <2>8, <2>9, <2>10, <2>11, <2>12, <2>13, <2>14, <2>15, <2>16 DEF IndInv
<1> QED
  BY <1>3, <1>4
(* The post-callback begins. *)
LEMMA AfterStep ==
  ASSUME IndInv, After
  PROVE  IndInv'
<1>1. /\ TypeOK /\ ~ broken /\ FrameInv /\ StackInv /\ AddressInv /\ DueInv
      /\ ("nested" \notin risks => ArgsInv /\ ReturnInv) /\ ReturnsDecided
  BY DEF IndInv, After, At
<1>2. /\ Depth > 0 /\ Top.callback = NONE /\ Top.phase = "return" /\ Top \in Frames /\ Depth \in Nat /\ Depth \in 1 .. Depth
      /\ Depth \in 1 .. MaxDepth /\ Top = frames[Depth]
  BY <1>1, DepthFacts DEF After, At
<1>3. Top.via /\ Waiting(Depth) /\ Top.i = 1 /\ Top.final = Ignored /\ Top.value = JUNK
  BY <1>1, <1>2, BelowFacts DEF FrameInv, Waiting, Types
<1>4. PICK l \in Nat : Len(lastPre) = l + 1
  <2>1. Len(lastPre) > 0 /\ Len(lastPre) \in Nat
    BY <1>1, <1>2, Enough DEF TypeOK
  <2>2. Len(lastPre) - 1 \in Nat /\ Len(lastPre) = (Len(lastPre) - 1) + 1
    BY <2>1
  <2> QED
    BY <2>2
<1>5. PICK action \in Actions : action = Last(lastPre) /\ action = lastPre[l + 1]
  <2>1. lastPre \in Seq(Actions) /\ l + 1 \in 1 .. Len(lastPre)
    BY <1>1, <1>4 DEF TypeOK
  <2> QED
    BY <1>4, <2>1 DEF Last
<1>6. action \in {0, 1, 2, 3} /\ Override = 2 /\ Supercede = 3 /\ Ignored = 0
  BY ActionsAre
<1> DEFINE f == [Top EXCEPT !.phase = "post", !.eax = JUNK, !.due = Listening("post")]
<1>7. /\ SetTop(f) /\ UNCHANGED <<hooked, registered, listeners, retAddr, broken, risks>>
      /\ lastPre' = Front(lastPre)
      /\ regs' = [esp |-> Depth, eax |-> IF action = Override THEN Last(savedRet) ELSE Top.eax]
      /\ savedRet' = (IF action = Override THEN Front(savedRet) ELSE savedRet)
      /\ stack' = (IF action < Supercede THEN [stack EXCEPT ![Depth] = Last(savedArgs)] ELSE stack)
      /\ savedArgs' = (IF action < Supercede THEN Front(savedArgs) ELSE savedArgs)
  BY <1>5 DEF After, Restores
<1>8. f \in Frames
  <2>1. Listening("post") \in SUBSET Callbacks
    BY <1>1 DEF TypeOK, Listening, Types
  <2>2. JUNK \in Data
    BY DEF Data
  <2> QED
    BY <1>2, <2>1, <2>2 DEF Frames, Types
<1>9. /\ f.phase = "post" /\ f.eax = JUNK /\ f.via = Top.via /\ f.callback = NONE /\ f.i = 1
      /\ f.final = Ignored /\ f.value = JUNK /\ f.gone = Top.gone /\ f.args = Top.args /\ f.due = Listening("post")
      /\ f.set = Top.set
  BY <1>2, <1>3 DEF Frames
<1> HIDE DEF f
<1>10. /\ frames' \in Seq(Frames) /\ Depth' = Depth /\ Top' = f /\ frames'[Depth] = f
       /\ \A k \in 1 .. Depth : k # Depth => frames'[k] = frames[k]
  BY <1>1, <1>2, <1>7, <1>8, SetTopFacts
<1>11. /\ lastPre' \in Seq(Actions) /\ Len(lastPre') = l /\ \A n \in 1 .. l : lastPre'[n] = lastPre[n]
  <2>1. lastPre \in Seq(Actions) /\ Len(lastPre) > 0
    BY <1>1, <1>4 DEF TypeOK
  <2> QED
    BY <1>4, <1>7, <2>1, FrontFacts
<1>12. /\ savedRet' \in Seq(Data) /\ \A n \in 1 .. Len(savedRet') : savedRet'[n] = savedRet[n]
       /\ action # Override => Len(savedRet') = Len(savedRet)
       /\ action = Override => Len(savedRet') + 1 = Len(savedRet) /\ Last(savedRet) \in Data
  <2>1. savedRet \in Seq(Data) /\ (action = Override => Len(savedRet) > 0)
    BY <1>1, <1>2, <1>5, Enough DEF TypeOK
  <2>2. Len(savedRet) \in Nat
    BY <2>1
  <2>3. CASE action = Override
    <3>1. /\ savedRet' \in Seq(Data) /\ Len(savedRet') = Len(savedRet) - 1 /\ Last(savedRet) \in Data
          /\ \A n \in 1 .. Len(savedRet) - 1 : savedRet'[n] = savedRet[n]
      BY <1>7, <2>1, <2>3, FrontFacts
    <3> QED
      BY <2>2, <2>3, <3>1
  <2>4. CASE action # Override
    BY <1>7, <2>1, <2>4
  <2> QED
    BY <2>3, <2>4
<1>13. /\ savedArgs' \in Seq(Data) /\ \A n \in 1 .. Len(savedArgs') : savedArgs'[n] = savedArgs[n]
       /\ Len(savedArgs') = l /\ (action < Supercede => Last(savedArgs) \in Data /\ Last(savedArgs) = savedArgs[l + 1])
  <2>1. savedArgs \in Seq(Data) /\ (action < Supercede => Len(savedArgs) > 0)
    BY <1>1, <1>2, <1>5, Enough DEF TypeOK
  <2>2. Len(savedArgs) = IF action = Supercede THEN l ELSE l + 1
    BY <1>1, <1>2, <1>4, <1>5 DEF StackInv
  <2>3. CASE action < Supercede
    <3>1. /\ savedArgs' \in Seq(Data) /\ Len(savedArgs') = Len(savedArgs) - 1 /\ Last(savedArgs) \in Data
          /\ \A n \in 1 .. Len(savedArgs) - 1 : savedArgs'[n] = savedArgs[n]
      BY <1>7, <2>1, <2>3, FrontFacts
    <3>2. Len(savedArgs) = l + 1
      BY <1>6, <2>2, <2>3
    <3> QED
      BY <3>1, <3>2 DEF Last
  <2>4. CASE ~ (action < Supercede)
    BY <1>6, <1>7, <2>1, <2>2, <2>4
  <2> QED
    BY <2>3, <2>4
<1>14. /\ regs' \in [esp : 0 .. MaxDepth, eax : Data] /\ regs'.esp = Depth
       /\ regs'.eax = IF action = Override THEN Last(savedRet) ELSE Top.eax
  <2>1. Top.eax \in Data /\ Depth \in 0 .. MaxDepth
    BY <1>2 DEF Frames
  <2>2. (IF action = Override THEN Last(savedRet) ELSE Top.eax) \in Data
    BY <1>12, <2>1
  <2> QED
    BY <1>7, <2>1, <2>2
<1>15. /\ stack \in [1 .. MaxDepth -> Data] /\ stack' \in [1 .. MaxDepth -> Data]
       /\ \A k \in 1 .. MaxDepth : k # Depth => stack'[k] = stack[k]
       /\ stack'[Depth] = IF action < Supercede THEN savedArgs[l + 1] ELSE stack[Depth]
  <2>1. stack \in [1 .. MaxDepth -> Data]
    BY <1>1 DEF TypeOK
  <2> QED
    BY <1>2, <1>7, <1>13, <2>1
<1>16. TypeOK'
  <2>1. Depth' <= MaxDepth
    BY <1>1, <1>10, DepthFacts
  <2> QED
    BY <1>1, <1>7, <1>10, <1>11, <1>12, <1>13, <1>14, <1>15, <2>1, TypeRest DEF TypeOK
<1>17. FrameInv'
  <2> SUFFICES ASSUME NEW k \in 1 .. Depth
               PROVE  /\ k < Depth /\ frames'[k].phase # "original" => frames'[k].callback # NONE /\ "nested" \in risks
                      /\ frames'[k].callback # NONE => frames'[k].phase \in Types
                      /\ frames'[k].via \/ frames'[k].phase = "original"
                      /\ frames'[k].via => hooked /\ \A j \in k .. Depth : frames'[j].via
                      /\ frames'[k].phase \notin Types => frames'[k].i = 1 /\ frames'[k].final = Ignored /\ frames'[k].value = JUNK
                      /\ frames'[k].gone => "removed" \in risks
    BY <1>7, <1>10 DEF FrameInv
  <2>1. \A j \in 1 .. Depth : frames'[j].via = frames[j].via
    BY <1>2, <1>9, <1>10
  <2>2. frames'[k].via => hooked /\ \A j \in k .. Depth : frames'[j].via
    <3>1. \A j \in k .. Depth : j \in 1 .. Depth
      BY <1>2
    <3> QED
      BY <1>1, <2>1, <3>1 DEF FrameInv
  <2>3. CASE k = Depth
    <3>1. frames'[k] = f /\ ~ (k < Depth)
      BY <1>2, <1>10, <2>3
    <3>2. f.gone => "removed" \in risks
      BY <1>1, <1>2, <1>9 DEF FrameInv
    <3> QED
      BY <1>3, <1>9, <2>2, <3>1, <3>2
  <2>4. CASE k # Depth
    <3>1. frames'[k] = frames[k]
      BY <1>10, <2>4
    <3> QED
      BY <1>1, <2>2, <3>1 DEF FrameInv
  <2> QED
    BY <2>3, <2>4
<1>18. /\ ~ Waiting(Depth)' /\ \A k \in 1 .. Depth : k # Depth => (Waiting(k)' <=> Waiting(k))
       /\ Cardinality({k \in 1 .. Depth' : Waiting(k)'}) = l
  <2>1. ~ frames'[Depth].phase \in {"original", "return"} /\ ~ Waiting(Depth)'
    BY <1>9, <1>10 DEF Waiting
  <2>2. ASSUME NEW k \in 1 .. Depth, k # Depth
        PROVE  Waiting(k)' <=> Waiting(k)
    <3>1. frames'[k] = frames[k]
      BY <1>10, <2>2
    <3> QED
      BY <3>1, Zenon DEF Waiting
  <2> DEFINE W == {k \in 1 .. Depth : Waiting(k)}
             V == {k \in 1 .. Depth' : Waiting(k)'}
  <2>3. V = W \ {Depth}
    <3>1. \A k \in 1 .. Depth : k \in V <=> k \in W /\ k # Depth
      <4> SUFFICES ASSUME NEW k \in 1 .. Depth
                   PROVE  k \in V <=> k \in W /\ k # Depth
        OBVIOUS
      <4>1. Waiting(k)' <=> Waiting(k) /\ k # Depth
        <5>1. CASE k = Depth
          <6>1. ~ Waiting(k)'
            BY <2>1, <5>1 DEF Waiting
          <6> QED
            BY <5>1, <6>1
        <5>2. CASE k # Depth
          BY <2>2, <5>2
        <5> QED
          BY <5>1, <5>2
      <4> QED
        BY <1>10, <4>1, Zenon
    <3>2. V \subseteq 1 .. Depth /\ W \subseteq 1 .. Depth
      BY <1>10
    <3> HIDE DEF V, W
    <3> QED
      BY <3>1, <3>2, Zenon
  <2>4. Depth \in W
    BY <1>2, <1>3
  <2>5. IsFiniteSet(W) /\ Cardinality(W) = l + 1
    <3>0. Depth \in Nat
      BY <1>2
    <3>1. IsFiniteSet(1 .. Depth)
      BY <3>0, FS_Interval
    <3>2. IsFiniteSet(W)
      BY <3>1, FS_Subset
    <3> QED
      BY <1>1, <1>4, <3>2 DEF StackInv
  <2>6. Cardinality(W \ {Depth}) = l
    <3> HIDE DEF W
    <3>1. Cardinality(W \ {Depth}) = Cardinality(W) - 1
      BY <2>4, <2>5, FS_RemoveElement
    <3> QED
      BY <1>4, <2>5, <3>1
  <2> QED
    BY <2>1, <2>2, <2>3, <2>6
<1>19. /\ \A n \in 0 .. l : Overrides(n)' = Overrides(n)
       /\ Len(savedRet') = Cardinality(Overrides(l)) /\ Len(savedRet) = Cardinality(Overrides(l + 1))
  <2>1. \A n \in 0 .. l : Overrides(n)' = Overrides(n)
    BY <1>11, OverridesIs, CountedSame
  <2>2. Len(savedRet) = Cardinality(Overrides(l + 1))
    BY <1>1, <1>4 DEF StackInv
  <2>3. /\ action = Override => Cardinality(Overrides(l + 1)) = Cardinality(Overrides(l)) + 1
        /\ action # Override => Overrides(l + 1) = Overrides(l)
        /\ Cardinality(Overrides(l)) \in Nat
    BY <1>5, OverridesIs, Counted
  <2>4. Len(savedRet') \in Nat
    BY <1>12
  <2> QED
    BY <1>12, <2>1, <2>2, <2>3, <2>4
<1>20. StackInv'
  <2>1. \A n \in 1 .. l : lastPre'[n] # Supercede
    <3>1. \A n \in 1 .. l : n \in 1 .. Len(lastPre) /\ n # Len(lastPre)
      BY <1>4
    <3> QED
      BY <1>1, <1>11, <3>1 DEF StackInv
  <2>2. Len(lastPre') = Cardinality({k \in 1 .. Depth' : Waiting(k)'})
    BY <1>11, <1>18
  <2>3. Len(savedRet') = Cardinality(Overrides(Len(lastPre))')
    <3>1. Overrides(Len(lastPre))' = Overrides(l)'
      BY <1>11 DEF Overrides
    <3>2. Overrides(l)' = Overrides(l)
      BY <1>19
    <3> QED
      BY <1>19, <3>1, <3>2
  <2>4. Top'.phase # "return" /\ Len(savedArgs') = Len(lastPre')
    BY <1>9, <1>10, <1>11, <1>13
  <2> QED
    BY <1>11, <2>1, <2>2, <2>3, <2>4 DEF StackInv
<1>21. AddressInv'
  <2> SUFFICES ASSUME NEW x \in 1 .. MaxDepth
               PROVE  retAddr[x] = IF x <= Depth /\ frames'[x].via /\ frames'[x].phase # "done" THEN 1 ELSE 0
    BY <1>7, <1>10 DEF AddressInv
  <2>1. x <= Depth => frames'[x].via = frames[x].via /\ (frames'[x].phase # "done" <=> frames[x].phase # "done")
    BY <1>2, <1>9, <1>10
  <2> QED
    BY <1>1, <2>1 DEF AddressInv
<1>22. DueInv'
  <2>0. risks' = risks /\ listeners' = listeners /\ Depth' = Depth
    BY <1>7, <1>10
  <2> SUFFICES ASSUME "removed" \notin risks, NEW k \in 1 .. Depth, NEW c \in frames'[k].due
               PROVE  /\ frames'[k].phase \in Types
                      /\ \E n \in frames'[k].i .. Len(listeners[frames'[k].phase]) :
                           listeners[frames'[k].phase][n] = c /\ (frames'[k].callback # NONE => n # frames'[k].i)
    BY <2>0 DEF DueInv
  <2>1. CASE k = Depth
    <3>1. frames'[k] = f /\ c \in Listening("post")
      BY <1>9, <1>10, <2>1
    <3>2. PICK n \in 1 .. Len(listeners["post"]) : listeners["post"][n] = c
      BY <3>1 DEF Listening
    <3> QED
      BY <1>9, <3>1, <3>2 DEF Types
  <2>2. CASE k # Depth
    <3>1. frames'[k] = frames[k]
      BY <1>10, <2>2
    <3> QED
      BY <1>1, <3>1 DEF DueInv
  <2> QED
    BY <2>1, <2>2
<1>23. /\ \A k : Entry(k) = (l + 1 + k) - Depth /\ Entry(k)' = (l + k + 1) - Depth
       /\ Entry(Depth) = l + 1
  <2>1. \A k : Entry(k) = (l + 1 + k) - Depth
    BY <1>3, <1>4 DEF Entry
  <2>2. \A k : Entry(k)' = (l + k + 1) - Depth
    <3>1. Waiting(Depth)' <=> frames'[Depth].via /\ frames'[Depth].phase \in {"original", "return"}
      BY <1>10 DEF Waiting
    <3>2. ~ Waiting(Depth)'
      BY <1>18
    <3> QED
      BY <1>10, <1>11, <3>2 DEF Entry
  <2>3. Entry(Depth) = l + 1
    BY <1>2, <1>4, <2>1
  <2> QED
    BY <2>1, <2>2, <2>3
<1>24. ASSUME "nested" \notin risks, NEW k \in 1 .. Depth, k # Depth
       PROVE  /\ frames'[k] = frames[k] /\ frames[k].phase = "original"
              /\ Waiting(k) => Entry(k)' = Entry(k) /\ Entry(k) \in 1 .. l
  <2>1. frames'[k] = frames[k] /\ frames[k].phase = "original"
    BY <1>1, <1>10, <1>24, BelowFacts
  <2>2. Waiting(k) => Entry(k) >= 1
    BY <1>1, <1>24 DEF ArgsInv
  <2>3. k \in Nat /\ k < Depth /\ Depth \in Nat
    BY <1>2, <1>24
  <2> QED
    BY <1>4, <1>23, <2>1, <2>2, <2>3
<1>25. ASSUME "nested" \notin risks
       PROVE  ArgsInv'
  <2>1. ArgsInv /\ regs'.esp = Depth'
    BY <1>1, <1>10, <1>14, <1>25
  <2> SUFFICES ASSUME NEW k \in 1 .. Depth
               PROVE  /\ frames'[k].phase \in Types \cup {"original"} => stack'[k] = frames'[k].args
                      /\ Waiting(k)' =>
                           /\ Entry(k)' >= 1
                           /\ frames'[k].phase = "original" => lastPre'[Entry(k)'] < Supercede
                           /\ lastPre'[Entry(k)'] < Supercede => savedArgs'[Entry(k)'] = frames'[k].args
                           /\ lastPre'[Entry(k)'] = Supercede => stack'[k] = frames'[k].args
    BY <1>10, <2>1 DEF ArgsInv
  <2>2. CASE k = Depth
    <3>1. frames'[k] = f /\ f.args = Top.args /\ ~ Waiting(k)'
      <4>1. ~ (frames'[k].phase \in {"original", "return"})
        BY <1>9, <1>10, <2>2
      <4> QED
        BY <1>9, <1>10, <2>2, <4>1 DEF Waiting
    <3>2. /\ action < Supercede => savedArgs[l + 1] = Top.args
          /\ action = Supercede => stack[Depth] = Top.args
      BY <1>2, <1>3, <1>5, <1>23, <2>1 DEF ArgsInv
    <3>3. action < Supercede \/ action = Supercede
      BY <1>6
    <3>4. stack'[k] = Top.args
      BY <1>15, <2>2, <3>2, <3>3
    <3> QED
      BY <3>1, <3>4
  <2>3. CASE k # Depth
    <3>1. frames'[k] = frames[k] /\ stack'[k] = stack[k] /\ (Waiting(k)' <=> Waiting(k))
      BY <1>1, <1>15, <1>18, <1>24, <1>25, <2>3, DepthFacts
    <3>2. Waiting(k) => /\ Entry(k)' = Entry(k) /\ lastPre'[Entry(k)] = lastPre[Entry(k)]
                        /\ savedArgs'[Entry(k)] = savedArgs[Entry(k)]
      BY <1>11, <1>13, <1>24, <1>25, <2>3
    <3> QED
      BY <2>1, <3>1, <3>2 DEF ArgsInv
  <2> QED
    BY <2>2, <2>3
<1>26. ASSUME "nested" \notin risks
       PROVE  ReturnInv'
  <2>1. ReturnInv
    BY <1>1, <1>26
  <2> SUFFICES ASSUME NEW k \in 1 .. Depth
               PROVE  Answers(k)' /\ (Waiting(k)' => Saves(k)')
    BY <1>10 DEF ReturnInv
  <2>2. Answers(k) /\ (Waiting(k) => Saves(k))
    BY <2>1 DEF ReturnInv
  <2>3. CASE k = Depth
    <3>1. frames'[k] = f /\ ~ Waiting(k)' /\ frames[k] = Top
      <4>1. ~ (frames'[k].phase \in {"original", "return"})
        BY <1>9, <1>10, <2>3
      <4> QED
        BY <1>2, <1>9, <1>10, <2>3, <4>1 DEF Waiting
    <3>2. \A n \in 1 .. Len(f.set) : f.set[n][1] = "pre"
      BY <1>2, <1>9, <2>2, <3>1 DEF Answers
    <3>3. Decided(f, "post") = NONE
      <4>1. Mine(f, "post") = {}
        BY <3>2 DEF Mine
      <4>2. Tops(f, "post") = {}
        BY <4>1 DEF Tops
      <4> QED
        BY <4>1, <4>2, DecidedIs
    <3>4. Resolved(f, "post")
      <4>1. ~ (f.final >= Override) /\ f.final # Supercede
        BY <1>6, <1>9
      <4>2. ~ \E n \in 1 .. Len(f.set) : f.set[n][1] = "post" /\ f.set[n][2] = Supercede
        BY <3>2
      <4> QED
        BY <3>3, <4>1, <4>2 DEF Resolved
    <3>5. Decided(f, "pre") = Decided(Top, "pre")
      BY <1>9, DecidedSame
    <3>6. /\ action < Override <=> Decided(Top, "pre") = NONE
          /\ action = Override => savedRet[Cardinality(Overrides(l + 1))] = Decided(Top, "pre")
          /\ Top.eax = IF action = Supercede THEN Decided(Top, "pre") ELSE <<k, "original">>
      <4>1. Waiting(k) /\ Entry(k) = l + 1 /\ Overrides(Entry(k)) = Overrides(l + 1)
        BY <1>3, <1>23, <2>3
      <4> QED
        BY <1>2, <1>5, <2>2, <3>1, <4>1 DEF Saves
    <3>7. action = Override => Last(savedRet) = savedRet[Cardinality(Overrides(l + 1))]
      BY <1>19 DEF Last
    <3>8. regs'.eax = IF Decided(f, "pre") # NONE THEN Decided(f, "pre") ELSE <<k, "original">>
      BY <1>6, <1>14, <3>5, <3>6, <3>7
    <3>9. Passed(k)' = IF Decided(f, "pre") # NONE THEN Decided(f, "pre") ELSE <<k, "original">>
      BY <3>1 DEF Passed
    <3>10. Answers(k)'
      BY <1>9, <3>1, <3>4, <3>8, <3>9 DEF Answers
    <3> QED
      BY <3>1, <3>10
  <2>4. CASE k # Depth
    <3>1. frames'[k] = frames[k] /\ frames[k].phase = "original" /\ (Waiting(k)' <=> Waiting(k))
      BY <1>18, <1>24, <1>26, <2>4
    <3>2. Answers(k)'
      BY <2>2, <3>1 DEF Answers
    <3>3. Waiting(k)' => Saves(k)'
      <4> SUFFICES ASSUME Waiting(k)
                   PROVE  Saves(k)'
        BY <3>1
      <4>1. PICK n \in 1 .. l : n = Entry(k) /\ n = Entry(k)'
        BY <1>24, <1>26, <2>4
      <4>2. lastPre'[n] = lastPre[n] /\ Overrides(n)' = Overrides(n)
        BY <1>4, <1>11, <1>19
      <4>3. Overrides(Entry(k))' = Overrides(n) /\ Overrides(Entry(k)) = Overrides(n)
        BY <4>1, <4>2 DEF Overrides
      <4>4. lastPre[n] = Override => Cardinality(Overrides(n)) \in 1 .. Len(savedRet')
        <5> SUFFICES ASSUME lastPre[n] = Override
                     PROVE  Cardinality(Overrides(n)) \in 1 .. Len(savedRet')
          OBVIOUS
        <5>1. PICK m \in 0 .. l : n = m + 1
          BY <1>4
        <5>2. Cardinality(Overrides(n)) = Cardinality(Overrides(m)) + 1 /\ Cardinality(Overrides(m)) \in Nat
          BY <5>1, OverridesIs, Counted
        <5>3. Cardinality(Overrides(n)) <= Cardinality(Overrides(l)) /\ Cardinality(Overrides(l)) = Len(savedRet')
          <6>1. n \in 0 .. l
            BY <1>4
          <6> QED
            BY <1>4, <1>19, <6>1, OverridesIs, Counted
        <5> QED
          BY <5>2, <5>3
      <4>5. lastPre[n] = Override => savedRet'[Cardinality(Overrides(n))] = savedRet[Cardinality(Overrides(n))]
        BY <1>12, <4>4
      <4> QED
        BY <2>2, <3>1, <4>1, <4>2, <4>3, <4>5 DEF Saves
    <3> QED
      BY <3>2, <3>3
  <2> QED
    BY <2>3, <2>4
<1>27. ReturnsDecided'
  <2> SUFFICES ASSUME "nested" \notin risks, NEW k \in 1 .. Depth, frames'[k].phase = "done"
               PROVE  FALSE
    BY <1>7, <1>10 DEF ReturnsDecided
  <2>1. CASE k = Depth
    BY <1>9, <1>10, <2>1
  <2>2. CASE k # Depth
    BY <1>24, <2>2
  <2> QED
    BY <2>1, <2>2
<1>28. RegsInv'
  <2>1. regs'.esp # 0
    BY <1>2, <1>14
  <2> QED
    BY <2>1 DEF RegsInv
<1> QED
  BY <1>1, <1>7, <1>16, <1>17, <1>20, <1>21, <1>22, <1>25, <1>26, <1>27, <1>28 DEF IndInv
(* All callbacks after the call have answered. *)
LEMMA AfterDoneStep ==
  ASSUME IndInv, AfterDone
  PROVE  IndInv'
<1>1. /\ TypeOK /\ ~ broken /\ FrameInv /\ StackInv /\ AddressInv /\ DueInv
      /\ ("nested" \notin risks => ArgsInv /\ ReturnInv) /\ ReturnsDecided
  BY DEF IndInv, AfterDone, Answered, At
<1>2. /\ Depth > 0 /\ Top.callback = NONE /\ Top.phase = "post" /\ Top \in Frames /\ Depth \in Nat /\ Depth \in 1 .. Depth
      /\ Depth \in 1 .. MaxDepth /\ Top = frames[Depth]
  BY <1>1, DepthFacts DEF AfterDone, Answered, At
<1>3. Top.via /\ Top.final \in Actions /\ ~ Waiting(Depth)
  BY <1>1, <1>2, BelowFacts DEF Frames, Waiting
<1> DEFINE f == Finished(Top, "done", Written)
<1>4. /\ SetTop(f) /\ UNCHANGED <<hooked, registered, listeners, regs, lastPre, savedRet, savedArgs, stack, risks>>
      /\ retAddr' = [retAddr EXCEPT ![Depth] = IF @ > 0 THEN @ - 1 ELSE 0]
      /\ broken' \in BOOLEAN /\ (broken' <=> ~ (regs.esp = Depth /\ retAddr[Depth] > 0))
  BY DEF AfterDone, OwnStack, saved, Finished
<1>5. /\ f \in Frames /\ f.eax = Written /\ f.phase = "done" /\ f.i = 1 /\ f.final = Ignored /\ f.value = JUNK /\ f.due = {}
      /\ f.via = Top.via /\ f.callback = NONE /\ f.gone = Top.gone /\ f.args = Top.args /\ f.set = Top.set
  <2>1. Written \in Data
    BY <1>1, <1>2, WrittenType
  <2>2. f = Finished(Top, "done", Written) /\ "done" \in {"original", "return", "done"}
    OBVIOUS
  <2>3. Top \in Frames
    BY <1>2
  <2> HIDE DEF f
  <2>4. /\ f \in Frames /\ f.eax = Written /\ f.phase = "done" /\ f.i = 1 /\ f.final = Ignored /\ f.value = JUNK /\ f.due = {}
        /\ f.via = Top.via /\ f.callback = Top.callback /\ f.gone = Top.gone /\ f.args = Top.args /\ f.set = Top.set
    BY <2>1, <2>2, <2>3, FinishedFrame
  <2> QED
    BY <1>2, <2>4
<1> HIDE DEF f
<1>6. /\ frames' \in Seq(Frames) /\ Depth' = Depth /\ Top' = f /\ frames'[Depth] = f
      /\ \A k \in 1 .. Depth : k # Depth => frames'[k] = frames[k]
  BY <1>1, <1>2, <1>4, <1>5, SetTopFacts
<1>7. /\ \A k \in 1 .. Depth : (Waiting(k)' <=> Waiting(k)) /\ Entry(k)' = Entry(k)
      /\ {k \in 1 .. Depth' : Waiting(k)'} = {k \in 1 .. Depth : Waiting(k)}
  <2>1. f.phase \in {"original", "return"} <=> Top.phase \in {"original", "return"}
    BY <1>2, <1>5
  <2> QED
    BY <1>1, <1>2, <1>4, <1>5, <2>1, Unmoved
<1>8. /\ retAddr \in [1 .. MaxDepth -> Nat] /\ retAddr[Depth] = 1 /\ retAddr' \in [1 .. MaxDepth -> Nat] /\ retAddr'[Depth] = 0
      /\ \A d \in 1 .. MaxDepth : d # Depth => retAddr'[d] = retAddr[d]
  <2>1. retAddr \in [1 .. MaxDepth -> Nat] /\ retAddr[Depth] = 1
    BY <1>1, <1>2, <1>3 DEF TypeOK, AddressInv
  <2> QED
    BY <1>2, <1>4, <2>1
<1>9. TypeOK'
  <2>1. Depth' <= MaxDepth
    BY <1>1, <1>6, DepthFacts
  <2> QED
    BY <1>1, <1>4, <1>6, <1>8, <2>1, TypeRest DEF TypeOK
<1>10. broken' => risks' # {}
  <2>1. "nested" \notin risks => regs.esp = Depth
    BY <1>1, <1>2 DEF ArgsInv, Types
  <2> QED
    BY <1>4, <1>8, <2>1
<1>11. FrameInv'
  <2> SUFFICES ASSUME NEW k \in 1 .. Depth
               PROVE  /\ k < Depth /\ frames'[k].phase # "original" => frames'[k].callback # NONE /\ "nested" \in risks
                      /\ frames'[k].callback # NONE => frames'[k].phase \in Types
                      /\ frames'[k].via \/ frames'[k].phase = "original"
                      /\ frames'[k].via => hooked /\ \A j \in k .. Depth : frames'[j].via
                      /\ frames'[k].phase \notin Types => frames'[k].i = 1 /\ frames'[k].final = Ignored /\ frames'[k].value = JUNK
                      /\ frames'[k].gone => "removed" \in risks
    BY <1>4, <1>6 DEF FrameInv
  <2>1. \A j \in 1 .. Depth : frames'[j].via = frames[j].via
    BY <1>2, <1>5, <1>6
  <2>2. frames'[k].via => hooked /\ \A j \in k .. Depth : frames'[j].via
    <3>1. \A j \in k .. Depth : j \in 1 .. Depth
      BY <1>2
    <3> QED
      BY <1>1, <2>1, <3>1 DEF FrameInv
  <2>3. CASE k = Depth
    <3>1. frames'[k] = f /\ ~ (k < Depth)
      BY <1>2, <1>6, <2>3
    <3>2. f.gone => "removed" \in risks
      BY <1>1, <1>2, <1>5 DEF FrameInv
    <3> QED
      BY <1>3, <1>5, <2>2, <3>1, <3>2
  <2>4. CASE k # Depth
    <3>1. frames'[k] = frames[k]
      BY <1>6, <2>4
    <3> QED
      BY <1>1, <2>2, <3>1 DEF FrameInv
  <2> QED
    BY <2>3, <2>4
<1>12. StackInv'
  <2>1. Overrides(Len(lastPre))' = Overrides(Len(lastPre)) /\ Top'.phase # "return"
    BY <1>4, <1>5, <1>6 DEF Overrides
  <2> QED
    BY <1>1, <1>2, <1>4, <1>6, <1>7, <2>1 DEF StackInv
<1>13. AddressInv'
  <2> SUFFICES ASSUME NEW x \in 1 .. MaxDepth
               PROVE  retAddr'[x] = IF x <= Depth /\ frames'[x].via /\ frames'[x].phase # "done" THEN 1 ELSE 0
    BY <1>6 DEF AddressInv
  <2>1. CASE x = Depth
    BY <1>5, <1>6, <1>8, <2>1
  <2>2. CASE x # Depth
    <3>1. x <= Depth => frames'[x] = frames[x]
      BY <1>6, <2>2
    <3> QED
      BY <1>1, <1>8, <2>2, <3>1 DEF AddressInv
  <2> QED
    BY <2>1, <2>2
<1>14. DueInv'
  <2>0. risks' = risks /\ listeners' = listeners /\ Depth' = Depth
    BY <1>4, <1>6
  <2> SUFFICES ASSUME "removed" \notin risks, NEW k \in 1 .. Depth, NEW c \in frames'[k].due
               PROVE  /\ frames'[k].phase \in Types
                      /\ \E n \in frames'[k].i .. Len(listeners[frames'[k].phase]) :
                           listeners[frames'[k].phase][n] = c /\ (frames'[k].callback # NONE => n # frames'[k].i)
    BY <2>0 DEF DueInv
  <2>1. k # Depth
    BY <1>5, <1>6
  <2>2. frames'[k] = frames[k]
    BY <1>6, <2>1
  <2> QED
    BY <1>1, <2>2 DEF DueInv
<1>15. ASSUME "nested" \notin risks
       PROVE  ArgsInv'
  <2>1. ArgsInv /\ Top'.phase \notin Types
    BY <1>1, <1>5, <1>6, <1>15 DEF Types
  <2> SUFFICES ASSUME NEW k \in 1 .. Depth
               PROVE  /\ frames'[k].phase \in Types \cup {"original"} => stack'[k] = frames'[k].args
                      /\ Waiting(k)' =>
                           /\ Entry(k)' >= 1
                           /\ frames'[k].phase = "original" => lastPre'[Entry(k)'] < Supercede
                           /\ lastPre'[Entry(k)'] < Supercede => savedArgs'[Entry(k)'] = frames'[k].args
                           /\ lastPre'[Entry(k)'] = Supercede => stack'[k] = frames'[k].args
    BY <1>6, <2>1 DEF ArgsInv
  <2>2. CASE k = Depth
    <3>1. ~ Waiting(k)' /\ frames'[k].phase \notin Types \cup {"original"}
      BY <1>3, <1>5, <1>6, <1>7, <2>2 DEF Types
    <3> QED
      BY <3>1
  <2>3. CASE k # Depth
    <3>1. frames'[k] = frames[k] /\ stack'[k] = stack[k]
      BY <1>4, <1>6, <2>3
    <3> QED
      BY <1>4, <1>7, <2>1, <3>1 DEF ArgsInv
  <2> QED
    BY <2>2, <2>3
<1>16. ASSUME "nested" \notin risks
       PROVE  ReturnInv'
  <2>1. ReturnInv
    BY <1>1, <1>16
  <2> SUFFICES ASSUME NEW k \in 1 .. Depth
               PROVE  Answers(k)' /\ (Waiting(k)' => Saves(k)')
    BY <1>6 DEF ReturnInv
  <2>2. CASE k = Depth
    <3>1. ~ Waiting(k)' /\ frames'[k].phase = "done"
      BY <1>3, <1>5, <1>6, <1>7, <2>2
    <3> QED
      BY <3>1 DEF Answers
  <2>3. CASE k # Depth
    <3>1. frames'[k] = frames[k] /\ frames[k].phase = "original"
      BY <1>1, <1>6, <1>16, <2>3, BelowFacts
    <3>2. Answers(k) /\ (Waiting(k) => Saves(k))
      BY <2>1 DEF ReturnInv
    <3>3. Answers(k)'
      BY <3>1, <3>2 DEF Answers
    <3>4. Entry(k)' = Entry(k) /\ Overrides(Entry(k))' = Overrides(Entry(k))
      BY <1>4, <1>7 DEF Overrides
    <3>5. Waiting(k)' => Saves(k)'
      BY <1>4, <1>7, <3>1, <3>2, <3>4 DEF Saves
    <3> QED
      BY <3>3, <3>5
  <2> QED
    BY <2>2, <2>3
<1>17. ReturnsDecided'
  <2> SUFFICES ASSUME "nested" \notin risks, NEW k \in 1 .. Depth, frames'[k].phase = "done"
               PROVE  frames'[k].eax = IF Decided(frames'[k], "post") # NONE THEN Decided(frames'[k], "post")
                                       ELSE IF Decided(frames'[k], "pre") # NONE THEN Decided(frames'[k], "pre")
                                       ELSE <<k, "original">>
    BY <1>4, <1>6 DEF ReturnsDecided
  <2>1. CASE k = Depth
    <3>1. frames'[k] = f /\ frames[k] = Top /\ f.eax = Written
      BY <1>2, <1>5, <1>6, <2>1
    <3>2. \A t : Decided(f, t) = Decided(Top, t)
      BY <1>5, DecidedSame
    <3>3. Resolved(Top, "post") /\ regs.eax = Passed(k)
      BY <1>1, <1>2, <3>1 DEF ReturnInv, Answers
    <3>4. Passed(k) = IF Decided(Top, "pre") # NONE THEN Decided(Top, "pre") ELSE <<k, "original">>
      BY <3>1 DEF Passed
    <3>5. Top.final \in {0, 1, 2, 3} /\ Override = 2 /\ Top.value # NONE
      BY <1>2, <1>3, ActionsAre, DHooksAssumption DEF Frames
    <3>6. CASE Top.final >= Override
      <4>1. Written = Top.value /\ Decided(Top, "post") = Top.value
        BY <3>3, <3>6 DEF Written, Resolved
      <4> QED
        BY <3>1, <3>2, <3>5, <4>1
    <3>7. CASE Top.final < Override
      <4>1. Written = regs.eax /\ Decided(Top, "post") = NONE
        BY <3>3, <3>5, <3>7 DEF Written, Resolved
      <4> QED
        BY <3>1, <3>2, <3>3, <3>4, <4>1
    <3> QED
      BY <3>5, <3>6, <3>7
  <2>2. CASE k # Depth
    BY <1>1, <1>6, <2>2, BelowFacts
  <2> QED
    BY <2>1, <2>2
<1>18. RegsInv'
  <2>1. RegsInv /\ regs' = regs /\ \A k \in 1 .. Depth : frames'[k].via = frames[k].via
    BY <1>1, <1>2, <1>4, <1>5, <1>6 DEF IndInv
  <2> QED
    BY <1>2, <1>6, <2>1, RegsKept
<1> QED
  BY <1>4, <1>9, <1>10, <1>11, <1>12, <1>13, <1>14, <1>15, <1>16, <1>17, <1>18 DEF IndInv
(* Nothing is called at first. *)
LEMMA InitInv ==
  ASSUME Init
  PROVE  IndInv
<1>1. /\ Depth = 0 /\ frames = <<>> /\ lastPre = <<>> /\ savedRet = <<>> /\ savedArgs = <<>> /\ ~ broken /\ risks = {}
      /\ retAddr = [d \in 1 .. MaxDepth |-> 0]
  BY DEF Init, Depth
<1>2. TypeOK
  <2>1. MaxDepth \in Nat /\ JUNK \in Data
    BY DHooksAssumption DEF Data
  <2>2. regs \in [esp : 0 .. MaxDepth, eax : Data] /\ stack \in [1 .. MaxDepth -> Data] /\ retAddr \in [1 .. MaxDepth -> Nat]
    BY <2>1 DEF Init
  <2>3. listeners \in [Types -> Seq(Callbacks)] /\ registered = [t \in Types |-> listeners[t] # <<>>]
    <3>1. listeners = [t \in Types |-> <<>>] /\ registered = [t \in Types |-> FALSE] /\ <<>> \in Seq(Callbacks)
      BY DEF Init
    <3>2. \A t \in Types : listeners[t] = <<>>
      BY <3>1
    <3>3. \A t \in Types : FALSE = (listeners[t] # <<>>)
      BY <3>2
    <3>4. registered = [t \in Types |-> listeners[t] # <<>>]
      BY <3>1, <3>3, Zenon
    <3> QED
      BY <3>1, <3>4
  <2>4. hooked \in BOOLEAN /\ broken \in BOOLEAN /\ ~ \E t \in Types : registered[t]
    BY DEF Init
  <2>5. /\ risks \subseteq {"nested", "removed"} /\ lastPre \in Seq(Actions) /\ savedRet \in Seq(Data)
        /\ savedArgs \in Seq(Data) /\ frames \in Seq(Frames) /\ Depth <= MaxDepth
    BY <1>1, <2>1
  <2> QED
    BY <2>2, <2>3, <2>4, <2>5 DEF TypeOK
<1>3. \A k \in 1 .. Depth : FALSE
  BY <1>1
<1>4. StackInv
  <2>1. {k \in 1 .. Depth : Waiting(k)} = {} /\ Overrides(Len(lastPre)) = {}
    BY <1>1, <1>3 DEF Overrides
  <2> QED
    BY <1>1, <2>1, FS_EmptySet DEF StackInv
<1>5. AddressInv
  <2>1. \A d \in 1 .. MaxDepth : retAddr[d] = 0 /\ ~ (d <= Depth)
    BY <1>1, DHooksAssumption
  <2> QED
    BY <2>1 DEF AddressInv
<1>6. FrameInv /\ RegsInv /\ ReturnInv /\ ReturnsDecided
  BY <1>3 DEF FrameInv, RegsInv, ReturnInv, ReturnsDecided
<1>7. DueInv
  BY <1>3 DEF DueInv
<1>8. ArgsInv
  BY <1>1, <1>3 DEF ArgsInv
<1> QED
  BY <1>1, <1>2, <1>4, <1>5, <1>6, <1>7, <1>8 DEF IndInv

(* A step that changes nothing. *)
LEMMA StutterStep ==
  ASSUME IndInv, UNCHANGED vars
  PROVE  IndInv'
<1>1. UNCHANGED <<hooked, registered, listeners, regs, lastPre, savedRet, savedArgs, retAddr, stack, frames, broken, risks>>
  BY DEF vars
<1>2. Depth' = Depth /\ Top' = Top
  BY <1>1 DEF Depth, Top
<1>3. TypeOK => TypeOK'
  BY <1>1, <1>2 DEF TypeOK
<1>4. FrameInv => FrameInv'
  BY <1>1, <1>2 DEF FrameInv
<1>5. /\ \A k : (Waiting(k)' <=> Waiting(k)) /\ (\A n : Overrides(n)' = Overrides(n))
      /\ (Waiting(Depth)' <=> Waiting(Depth))
  BY <1>1, <1>2, Zenon DEF Waiting, Overrides
<1>6. \A k : Entry(k)' = Entry(k)
  BY <1>1, <1>2, <1>5, Zenon DEF Entry
<1>7. StackInv => StackInv'
  <2>1. {k \in 1 .. Depth' : Waiting(k)'} = {k \in 1 .. Depth : Waiting(k)}
    BY <1>2, <1>5, Zenon
  <2>2. Overrides(Len(lastPre))' = Overrides(Len(lastPre))
    BY <1>1 DEF Overrides
  <2> QED
    BY <1>1, <1>2, <2>1, <2>2 DEF StackInv
<1>8. (RegsInv => RegsInv') /\ (AddressInv => AddressInv') /\ (ReturnsDecided => ReturnsDecided')
  BY <1>1, <1>2 DEF RegsInv, AddressInv, ReturnsDecided
<1>9. DueInv => DueInv'
  BY <1>1, <1>2 DEF DueInv
<1>10. ArgsInv => ArgsInv'
  BY <1>1, <1>2, <1>5, <1>6 DEF ArgsInv
<1>11. ReturnInv => ReturnInv'
  <2>1. \A k : Answers(k) => Answers(k)'
    BY <1>1 DEF Answers, Passed
  <2>2. ASSUME NEW k, Saves(k)
        PROVE  Saves(k)'
    <3>1. Overrides(Entry(k))' = Overrides(Entry(k)) /\ Entry(k)' = Entry(k)
      BY <1>1, <1>6 DEF Overrides
    <3> QED
      BY <1>1, <2>2, <3>1 DEF Saves
  <2> QED
    BY <1>2, <1>5, <2>1, <2>2 DEF ReturnInv
<1> QED
  BY <1>1, <1>3, <1>4, <1>7, <1>8, <1>9, <1>10, <1>11 DEF IndInv

(* Every step. *)
LEMMA NextStep ==
  ASSUME IndInv, [Next]_vars
  PROVE  IndInv'
<1>1. CASE UNCHANGED vars
  BY <1>1, StutterStep
<1>2. CASE EnableFails
  BY <1>2, EnableStep
<1>3. CASE Call
  BY <1>3, CallStep
<1>4. CASE Execute
  BY <1>4, ExecuteStep
<1>5. CASE BeforeDone
  BY <1>5, BeforeDoneStep
<1>6. CASE After
  BY <1>6, AfterStep
<1>7. CASE AfterDone
  BY <1>7, AfterDoneStep
<1>8. CASE Leave
  BY <1>8, LeaveStep
<1>9. ASSUME NEW c \in Callbacks, Unload(c)
      PROVE  IndInv'
  BY <1>9, RemoveStep DEF Unload
<1>10. ASSUME NEW c \in Callbacks, NEW t \in Types, Enable(t, c)
       PROVE  IndInv'
  BY <1>10, EnableStep
<1>11. ASSUME NEW c \in Callbacks, NEW t \in Types, Disable(t, c)
       PROVE  IndInv'
  <2>1. {t} \in SUBSET Types /\ PluginsRun /\ Remove({t}, c)
    BY <1>11 DEF Disable
  <2> QED
    BY <2>1, RemoveStep
<1>12. ASSUME NEW action \in Actions \ {Ignored}, NEW changed \in BOOLEAN, Answer(action, changed)
       PROVE  IndInv'
  BY <1>12, AnswerStep
<1>13. ASSUME NEW reused \in BOOLEAN, OriginalReturns(reused)
       PROVE  IndInv'
  BY <1>13, OriginalReturnsStep
<1> QED
  BY <1>1, <1>2, <1>3, <1>4, <1>5, <1>6, <1>7, <1>8, <1>9, <1>10, <1>11, <1>12, <1>13 DEF Next

-----------------------------------------------------------------------------
(* The invariant holds, however deep the calls and whatever the plugins do. *)
THEOREM Invariance == Spec => []IndInv
<1>1. Init => IndInv
  BY InitInv
<1>2. IndInv /\ [Next]_vars => IndInv'
  BY NextStep
<1> QED
  BY <1>1, <1>2, PTL DEF Spec

(* Every variable keeps its type; a function is hooked as long as a callback is registered. *)
THEOREM TypeCorrect == Spec => []TypeOK
<1>1. IndInv => TypeOK
  BY DEF IndInv
<1> QED
  BY <1>1, Invariance, PTL

(* If no callback calls the function and none is removed during a call, no memory is used after  *)
(* it is freed, no call goes on with another's stack, and every callback that listens is called. *)
THEOREM Together == Spec => []HoldsTogether
<1>1. IndInv => HoldsTogether
  <2> SUFFICES ASSUME IndInv, ~ broken, risks = {}
               PROVE  CallsAll
    BY DEF IndInv, HoldsTogether
  <2>1. TypeOK /\ DueInv /\ "removed" \notin risks
    BY DEF IndInv
  <2> SUFFICES ASSUME NEW t \in Types, Answered(t), NEW c \in Top.due
               PROVE  FALSE
    BY DEF CallsAll
  <2>2. Depth > 0 /\ Top.phase = t /\ Top.i > Len(listeners[t]) /\ Top \in Frames /\ Top = frames[Depth] /\ Depth \in 1 .. Depth
    BY <2>1, DepthFacts DEF Answered, At
  <2>3. PICK n \in Top.i .. Len(listeners[t]) : TRUE
    BY <2>1, <2>2 DEF DueInv
  <2>4. Top.i \in Nat /\ Len(listeners[t]) \in Nat
    BY <2>1, <2>2 DEF TypeOK, Frames
  <2> QED
    BY <2>2, <2>3, <2>4
<1> QED
  BY <1>1, Invariance, PTL

(* If no callback calls the function, callbacks and the original see the call's own argument, *)
(* as those before them have left it.                                                          *)
THEOREM Arguments == Spec => []SeesArguments
<1>1. IndInv => SeesArguments
  <2> SUFFICES ASSUME IndInv, ~ broken, "nested" \notin risks
               PROVE  /\ InCallback => stack[regs.esp] = Top.args
                      /\ \A k \in 1 .. Depth : frames[k].phase = "original" => stack[k] = frames[k].args
    BY DEF SeesArguments
  <2>1. TypeOK /\ FrameInv /\ ArgsInv
    BY DEF IndInv
  <2>2. InCallback => Top.phase \in Types /\ Depth > 0 /\ Top = frames[Depth] /\ Depth \in 1 .. Depth
    BY <2>1, DepthFacts DEF InCallback, FrameInv
  <2> QED
    BY <2>1, <2>2 DEF ArgsInv
<1> QED
  BY <1>1, Invariance, PTL

(* If no callback calls the function, each call returns what was decided for it, even though the *)
(* registers, the saved values and the actions of all calls are on stacks that they share.       *)
THEOREM Decisions == Spec => []ReturnsDecided
<1>1. IndInv => ReturnsDecided
  BY DEF IndInv
<1> QED
  BY <1>1, Invariance, PTL
=============================================================================
