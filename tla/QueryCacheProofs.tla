--------------------------- MODULE QueryCacheProofs ---------------------------
(***************************************************************************)
(* Theorems about QueryCache, for any number of slots that a byte can      *)
(* count, and any user ids.                                                *)
(*                                                                         *)
(* KnowsClients is inductive with what the engine keeps to (EngineInv): a  *)
(* user id is one client's, so that a slot found by it is the right one.   *)
(* The counts are cardinalities, and one connection or departure changes   *)
(* them by one; they never pass a byte, as the slots do not.               *)
(***************************************************************************)
EXTENDS QueryCache, TLAPS, FiniteSetTheorems

(* There are finitely many slots, fewer than a byte can count. *)
LEMMA SlotSets ==
  ASSUME NEW S \in SUBSET Slots
  PROVE  IsFiniteSet(S) /\ Cardinality(S) \in 0 .. MaxPlayers /\ Cardinality(S) \in 0 .. BYTE - 1
<1>1. IsFiniteSet(Slots) /\ Cardinality(Slots) = MaxPlayers
  BY FS_Interval, QueryCacheAssumption DEF Slots
<1>2. IsFiniteSet(S) /\ Cardinality(S) <= MaxPlayers
  BY <1>1, FS_Subset
<1>3. Cardinality(S) \in Nat
  BY <1>2, FS_CardinalityType
<1> QED
  BY <1>2, <1>3, QueryCacheAssumption

(* A count that stays within what a byte can hold. *)
LEMMA CountFacts ==
  ASSUME NEW a \in Nat, NEW b \in Nat
  PROVE  /\ Plus(a, b) \in 0 .. BYTE - 1
         /\ a < BYTE /\ b < BYTE => Minus(a, b) \in 0 .. BYTE - 1
         /\ a + b < BYTE => Plus(a, b) = a + b
         /\ b <= a /\ a < BYTE => Minus(a, b) = a - b
<1>1. BYTE \in Nat \ {0}
  BY QueryCacheAssumption
<1>2. Plus(a, b) \in 0 .. BYTE - 1 /\ (a + b < BYTE => Plus(a, b) = a + b)
  BY <1>1 DEF Plus
<1>3. a < BYTE /\ b < BYTE => Minus(a, b) \in 0 .. BYTE - 1
  BY <1>1 DEF Minus
<1>4. ASSUME b <= a, a < BYTE
      PROVE  Minus(a, b) = a - b
  <2>1. a + BYTE - b = (a - b) + BYTE /\ a - b \in 0 .. BYTE - 1
    BY <1>1, <1>4
  <2>2. ((a - b) + BYTE) % BYTE = a - b
    BY <1>1, <2>1
  <2> QED
    BY <2>1, <2>2 DEF Minus
<1> QED
  BY <1>2, <1>3, <1>4

(* Taking a subset, or one element, away from a set of slots, and adding one. *)
LEMMA SlotCounts ==
  ASSUME NEW S \in SUBSET Slots, NEW T \in SUBSET S
  PROVE  /\ Cardinality(S \ T) = Cardinality(S) - Cardinality(T)
         /\ Cardinality(T) <= Cardinality(S)
         /\ \A s \in Slots \ S : Cardinality(S \cup {s}) = Cardinality(S) + 1
         /\ \A s \in S : Cardinality(S \ {s}) = Cardinality(S) - 1 /\ Cardinality(S) >= 1
<1>1. IsFiniteSet(S) /\ IsFiniteSet(T)
  BY SlotSets
<1>2. Cardinality(T) <= Cardinality(S)
  BY <1>1, FS_Subset
<1>3. Cardinality(S \ T) = Cardinality(S) - Cardinality(T)
  <2>1. S \cap T = T
    OBVIOUS
  <2> QED
    BY <1>1, <2>1, FS_Difference
<1>4. \A s \in Slots \ S : Cardinality(S \cup {s}) = Cardinality(S) + 1
  BY <1>1, FS_AddElement
<1>5. \A s \in S : Cardinality(S \ {s}) = Cardinality(S) - 1 /\ Cardinality(S) >= 1
  <2> SUFFICES ASSUME NEW s \in S
               PROVE  Cardinality(S \ {s}) = Cardinality(S) - 1 /\ Cardinality(S) >= 1
    OBVIOUS
  <2>1. Cardinality(S \ {s}) = Cardinality(S) - 1
    BY <1>1, FS_RemoveElement
  <2>2. Cardinality(S \ {s}) \in Nat /\ Cardinality(S) \in Nat
    BY SlotSets
  <2> QED
    BY <2>1, <2>2
<1> QED
  BY <1>2, <1>3, <1>4, <1>5

Counts  == 0 .. BYTE - 1
Players == [active : BOOLEAN, fake : BOOLEAN]
Engine  == [kind : Kinds \cup {"none"}, userid : UserIDs \cup {0}]

(* The fields of a record of a player. *)
LEMMA PlayerFields ==
  ASSUME NEW a \in BOOLEAN, NEW f \in BOOLEAN, NEW p, p = [active |-> a, fake |-> f]
  PROVE  (p.active <=> a) /\ (p.fake <=> f) /\ p.fake = f
OBVIOUS

(* What the timer writes has its type. *)
LEMMA UpdateTypes ==
  ASSUME TypeOK, Update(players, num, fakes)
  PROVE  /\ info' \in [num : Counts, fakes : Counts]
         /\ list' \in [count : Counts, of : SUBSET Slots]
<1>1. Active(players) \in SUBSET Slots
  BY DEF Active
<1>2. Cardinality(Active(players)) \in Nat
  BY <1>1, SlotSets
<1>3. list \in [count : Counts, of : SUBSET Slots] /\ num \in Counts /\ fakes \in Counts /\ 0 \in Counts
  BY QueryCacheAssumption DEF TypeOK, Counts
<1>4. Plus(list.count, Cardinality(Active(players))) \in Counts
  BY <1>2, <1>3, CountFacts DEF Counts
<1>5. info' = [num |-> num, fakes |-> Told(fakes)] /\ Told(fakes) \in Counts
  BY <1>3 DEF Update, Told
<1>6. list' \in [count : Counts, of : SUBSET Slots]
  BY <1>1, <1>3, <1>4 DEF Update
<1> QED
  BY <1>3, <1>5, <1>6

(* No step leaves the types. *)
LEMMA TypeStep == TypeOK /\ [Next]_vars => TypeOK'
<1> SUFFICES ASSUME TypeOK, [Next]_vars
             PROVE  TypeOK'
  OBVIOUS
<1>0. /\ num \in Counts /\ fakes \in Counts /\ 0 \in Counts /\ Counts \subseteq Nat
      /\ players \in [Slots -> Players] /\ clients \in [Slots -> Engine]
      /\ userMap \in [UserIDs -> 0 .. MaxPlayers] /\ slots \in SUBSET Slots
      /\ \A S \in SUBSET Slots : Cardinality(S) \in Counts /\ Cardinality(S) \in Nat
      /\ Nobody \in Players /\ Empty \in Engine
  BY SlotSets, QueryCacheAssumption DEF TypeOK, Counts, Players, Engine, Nobody, Empty
<1>a. ASSUME players' \in [Slots -> Players], clients' \in [Slots -> Engine], slots' \in SUBSET Slots,
             userMap' \in [UserIDs -> 0 .. MaxPlayers], num' \in Counts, fakes' \in Counts,
             info' \in [num : Counts, fakes : Counts], list' \in [count : Counts, of : SUBSET Slots],
             loaded' \in BOOLEAN, ghosts' \in BOOLEAN, UNCHANGED <<ext, apart>>
      PROVE  TypeOK'
  BY <1>a DEF TypeOK, Counts, Players, Engine
<1>b. /\ info \in [num : Counts, fakes : Counts] /\ list \in [count : Counts, of : SUBSET Slots]
      /\ loaded \in BOOLEAN /\ ghosts \in BOOLEAN
  BY DEF TypeOK, Counts
<1>1. CASE Load
  <2>1. Counted \in SUBSET Slots
    BY <1>0 DEF Counted
  <2>2. players' \in [Slots -> Players]
    BY <1>0, <1>1 DEF Load, Players
  <2>3. userMap' \in [UserIDs -> 0 .. MaxPlayers]
    <3> DEFINE Of(u) == CHOOSE s \in Counted : clients[s].userid = u
    <3>1. \A u \in UserIDs : (\E s \in Counted : clients[s].userid = u) => Of(u) \in Counted
      OBVIOUS
    <3>2. userMap' = [u \in UserIDs |-> IF \E s \in Counted : clients[s].userid = u THEN Of(u) ELSE 0]
      BY <1>1 DEF Load
    <3>3. Counted \subseteq 0 .. MaxPlayers /\ 0 \in 0 .. MaxPlayers
      BY <2>1, QueryCacheAssumption DEF Slots
    <3> HIDE DEF Of
    <3> QED
      BY <3>1, <3>2, <3>3
  <2>4. num' \in Counts /\ fakes' \in Counts
    <3>1. {s \in Counted : clients[s].kind = "bot"} \in SUBSET Slots
      BY <2>1
    <3> QED
      BY <1>0, <1>1, <2>1, <3>1 DEF Load
  <2>5. Update(players, num, fakes) /\ loaded' = TRUE /\ ghosts' \in BOOLEAN /\ UNCHANGED <<ext, apart, clients, slots>>
    BY <1>1 DEF Load
  <2> QED
    BY <1>0, <1>a, <2>2, <2>3, <2>4, <2>5, UpdateTypes
<1>2. CASE Unload
  <2>1. players' \in [Slots -> Players] /\ userMap' \in [UserIDs -> 0 .. MaxPlayers]
    BY <1>0, <1>2, QueryCacheAssumption DEF Unload
  <2>2. info' \in [num : Counts, fakes : Counts] /\ list' \in [count : Counts, of : SUBSET Slots]
    BY <1>0, <1>2 DEF Unload
  <2>3. num' \in Counts /\ fakes' \in Counts /\ loaded' \in BOOLEAN /\ ghosts' \in BOOLEAN
        /\ UNCHANGED <<ext, apart, clients, slots>>
    BY <1>0, <1>2 DEF Unload
  <2> QED
    BY <1>0, <1>a, <2>1, <2>2, <2>3
<1>3. ASSUME NEW s \in Slots, NEW kind \in Kinds, NEW u \in UserIDs, PlayerConnect(s, kind, u)
      PROVE  TypeOK'
  <2>1. clients' \in [Slots -> Engine] /\ slots' \in SUBSET Slots
    BY <1>0, <1>3 DEF PlayerConnect, Engine
  <2>2. s \in 0 .. MaxPlayers
    BY QueryCacheAssumption DEF Slots
  <2>3. Plus(num, 1) \in Counts /\ Plus(fakes, 1) \in Counts
    BY <1>0, CountFacts DEF Counts
  <2>4. players' \in [Slots -> Players] /\ userMap' \in [UserIDs -> 0 .. MaxPlayers]
    <3>1. CASE loaded
      <4>1. players' = [players EXCEPT ![s] = [active |-> TRUE, fake |-> kind # "human"]]
            /\ userMap' = [userMap EXCEPT ![u] = s]
        BY <1>3, <3>1 DEF PlayerConnect
      <4>2. [active |-> TRUE, fake |-> kind # "human"] \in Players
        BY DEF Players
      <4> QED
        BY <1>0, <2>2, <4>1, <4>2
    <3>2. CASE ~ loaded
      BY <1>0, <1>3, <3>2 DEF PlayerConnect
    <3> QED
      BY <3>1, <3>2
  <2>5. num' \in Counts /\ fakes' \in Counts
    BY <1>0, <1>3, <2>3 DEF PlayerConnect
  <2> QED
    BY <1>0, <1>3, <1>a, <1>b, <2>1, <2>4, <2>5 DEF PlayerConnect
<1>4. ASSUME NEW s \in Slots, OnClientPutInServer(s)
      PROVE  TypeOK'
  <2>1. 1 \in Nat /\ 1 < BYTE /\ fakes \in Nat /\ fakes < BYTE
    BY <1>0, QueryCacheAssumption DEF Slots, Counts
  <2>2. Minus(fakes, 1) \in Counts
    BY <2>1, CountFacts DEF Counts
  <2>3. players' \in [Slots -> Players] /\ fakes' \in Counts
    <3>1. CASE players' = [players EXCEPT ![s].fake = FALSE] /\ fakes' = Minus(fakes, 1)
      BY <1>0, <2>2, <3>1 DEF Players
    <3>2. CASE UNCHANGED <<players, fakes>>
      BY <1>0, <3>2
    <3> QED
      BY <1>4, <3>1, <3>2 DEF OnClientPutInServer
  <2> QED
    BY <1>0, <1>4, <1>a, <1>b, <2>3 DEF OnClientPutInServer
<1>5. ASSUME NEW S \in SUBSET Slots, Leave(S)
      PROVE  TypeOK'
  <2>1. clients' \in [Slots -> Engine]
    BY <1>0, <1>5 DEF Leave
  <2>2. CASE loaded
    <3>1. PlayersDisconnect(S)
      BY <1>5, <2>2 DEF Leave
    <3>2. players' \in [Slots -> Players]
      BY <1>0, <3>1 DEF PlayersDisconnect, Players
    <3>3. userMap' \in [UserIDs -> 0 .. MaxPlayers]
      BY <1>0, <3>1, QueryCacheAssumption DEF PlayersDisconnect
    <3>4. Gone(S) \cap Active(players) \in SUBSET Slots
      BY DEF Active
    <3>5. {s \in Gone(S) \cap Active(players) : players[s].fake} \in SUBSET Slots
      BY <3>4
    <3>6. num' \in Counts /\ fakes' \in Counts
      BY <1>0, <3>1, <3>4, <3>5, CountFacts, QueryCacheAssumption DEF PlayersDisconnect, Counts
    <3> QED
      BY <1>0, <1>5, <1>a, <1>b, <2>1, <3>2, <3>3, <3>6 DEF Leave
  <2>3. CASE ~ loaded
    BY <1>0, <1>5, <1>a, <1>b, <2>1, <2>3 DEF Leave
  <2> QED
    BY <2>2, <2>3
<1>6. CASE OnTimer
  <2>1. Update(players, num, fakes)
        /\ UNCHANGED <<ext, apart, loaded, players, num, fakes, userMap, clients, slots, ghosts>>
    BY <1>6 DEF OnTimer
  <2> QED
    BY <1>0, <1>a, <1>b, <2>1, UpdateTypes
<1>7. CASE UNCHANGED vars
  BY <1>7 DEF vars, TypeOK
<1> QED
  BY <1>1, <1>2, <1>3, <1>4, <1>5, <1>6, <1>7 DEF Next, PlayerDisconnect, InactivateClients

(* What is known of a slot: whether it is active, who is in it, whether he is taken for a bot. *)
Known ==
  /\ Active(players) = Connected
  /\ \A s \in Connected : userMap[clients[s].userid] = s
  /\ num = Cardinality(Connected)
  /\ fakes = Cardinality({s \in Connected : players[s].fake})
  /\ \A s \in Connected : players[s].fake # (clients[s].kind = "bot") => clients[s].kind = "SourceTV"

(* Late loading counts those who are there, where it does not count empty slots. *)
LEMMA LoadKnows ==
  ASSUME IndInv, Load, ~ ghosts'
  PROVE  Known'
<1>0. /\ clients \in [Slots -> Engine] /\ slots \in SUBSET Slots /\ clients' = clients
      /\ ext \in {"A2SQCache", "connect"}
  BY DEF IndInv, TypeOK, Engine, Load
<1>1. Connected' = Connected /\ Connected \in SUBSET Slots
  BY <1>0 DEF Connected
<1>2. Counted = Connected
  <2>1. Connected \subseteq slots
    BY DEF IndInv, EngineInv
  <2>2. Counted \ Connected = {}
    BY DEF Load
  <2>3. Counted = slots \/ Counted = slots \cap Connected
    BY DEF Counted
  <2> QED
    BY <2>1, <2>2, <2>3
<1>3. \A s \in Slots : players'[s] = IF s \in Connected THEN [active |-> TRUE, fake |-> clients[s].kind = "bot"]
                                     ELSE Nobody
  BY <1>2 DEF Load
<1>4. Active(players') = Connected
  <2>1. ASSUME NEW s \in Slots
        PROVE  s \in Active(players') <=> s \in Connected
    <3>1. CASE s \in Connected
      <4>1. players'[s].active
        BY <1>3, <3>1, PlayerFields
      <4> QED
        BY <3>1, <4>1, Zenon DEF Active
    <3>2. CASE s \notin Connected
      <4>1. ~ players'[s].active
        BY <1>3, <3>2, PlayerFields DEF Nobody
      <4> QED
        BY <3>2, <4>1, Zenon DEF Active
    <3> QED
      BY <3>1, <3>2
  <2>2. Active(players') \subseteq Slots
    BY DEF Active
  <2> QED
    BY <1>1, <2>1, <2>2
<1>5. \A s \in Connected : userMap'[clients[s].userid] = s
  <2> SUFFICES ASSUME NEW s \in Connected
               PROVE  userMap'[clients[s].userid] = s
    OBVIOUS
  <2>1. clients[s].userid \in UserIDs /\ \A t \in Connected : clients[t].userid = clients[s].userid => t = s
    BY DEF IndInv, EngineInv
  <2>2. userMap'[clients[s].userid] = CHOOSE t \in Connected : clients[t].userid = clients[s].userid
    BY <1>2, <2>1 DEF Load
  <2> QED
    BY <2>1, <2>2
<1>6. \A s \in Connected : players'[s].fake = (clients[s].kind = "bot")
  <2> SUFFICES ASSUME NEW s \in Connected
               PROVE  players'[s].fake = (clients[s].kind = "bot")
    OBVIOUS
  <2>1. players'[s] = [active |-> TRUE, fake |-> clients[s].kind = "bot"]
    BY <1>1, <1>3
  <2> QED
    BY <2>1, PlayerFields
<1>7. {s \in Connected : players'[s].fake} = {s \in Connected : clients[s].kind = "bot"}
  <2>1. ASSUME NEW s \in Connected
        PROVE  players'[s].fake <=> clients[s].kind = "bot"
    BY <1>6
  <2> QED
    BY <2>1, Zenon
<1>8. num' = Cardinality(Connected) /\ fakes' = Cardinality({s \in Connected : players'[s].fake})
  BY <1>2, <1>7 DEF Load
<1> QED
  BY <1>0, <1>1, <1>4, <1>5, <1>6, <1>8 DEF Known

(* One who connects takes an empty slot, and is counted in it. *)
LEMMA ConnectKnows ==
  ASSUME IndInv, Known, loaded,
         NEW s \in Slots, NEW kind \in Kinds, NEW u \in UserIDs, PlayerConnect(s, kind, u)
  PROVE  Known'
<1> DEFINE bot == kind # "human"
           Bots == {t \in Connected : players[t].fake}
<1>0. /\ clients \in [Slots -> Engine] /\ players \in [Slots -> Players]
      /\ userMap \in [UserIDs -> 0 .. MaxPlayers]
      /\ s \notin Connected /\ \A t \in Slots : clients[t].userid # u
      /\ Connected \in SUBSET Slots /\ Bots \in SUBSET Connected
  BY DEF IndInv, TypeOK, Engine, Players, PlayerConnect, Connected
<1>1. /\ clients' = [clients EXCEPT ![s] = [kind |-> kind, userid |-> u]]
      /\ players' = [players EXCEPT ![s] = [active |-> TRUE, fake |-> bot]]
      /\ num' = Plus(num, 1) /\ fakes' = IF bot THEN Plus(fakes, 1) ELSE fakes
      /\ userMap' = [userMap EXCEPT ![u] = s]
  BY DEF PlayerConnect
<1>2. \A t \in Slots : t # s => clients'[t] = clients[t] /\ players'[t] = players[t]
  BY <1>0, <1>1
<1>3. clients'[s] = [kind |-> kind, userid |-> u] /\ players'[s] = [active |-> TRUE, fake |-> bot]
  BY <1>0, <1>1
<1>4. Connected' = Connected \cup {s}
  BY <1>0, <1>2, <1>3 DEF Connected, Empty, Kinds
<1>5. Active(players') = Connected'
  BY <1>0, <1>2, <1>3, <1>4 DEF Active, Known
<1>6. \A t \in Connected' : userMap'[clients'[t].userid] = t
  <2> SUFFICES ASSUME NEW t \in Connected'
               PROVE  userMap'[clients'[t].userid] = t
    OBVIOUS
  <2>1. CASE t = s
    BY <1>0, <1>1, <1>3, <2>1
  <2>2. CASE t # s
    <3>1. t \in Connected /\ clients'[t] = clients[t]
      BY <1>0, <1>2, <1>4, <2>2
    <3>2. clients[t].userid # u /\ clients[t].userid \in UserIDs /\ userMap[clients[t].userid] = t
      BY <1>0, <3>1 DEF Known, IndInv, EngineInv
    <3> QED
      BY <1>0, <1>1, <3>1, <3>2
  <2> QED
    BY <2>1, <2>2
<1>7. /\ Cardinality(Connected') = Cardinality(Connected) + 1
      /\ Cardinality(Connected') < BYTE /\ Cardinality(Connected) \in Nat
      /\ Cardinality(Bots \cup {s}) = Cardinality(Bots) + 1
      /\ Cardinality(Bots \cup {s}) < BYTE /\ Cardinality(Bots) \in Nat
  <2>1. Cardinality(Connected') = Cardinality(Connected) + 1 /\ Cardinality(Bots \cup {s}) = Cardinality(Bots) + 1
    BY <1>0, <1>4, SlotCounts
  <2>2. Connected' \in SUBSET Slots /\ Bots \cup {s} \in SUBSET Slots /\ Bots \in SUBSET Slots
    BY <1>0, <1>4
  <2> HIDE DEF Bots
  <2>3. \A S \in SUBSET Slots : Cardinality(S) \in 0 .. BYTE - 1
    BY SlotSets
  <2>4. Cardinality(Connected') \in 0 .. BYTE - 1 /\ Cardinality(Bots \cup {s}) \in 0 .. BYTE - 1
        /\ Cardinality(Bots) \in 0 .. BYTE - 1 /\ Cardinality(Connected) \in 0 .. BYTE - 1
    BY <1>0, <2>2, <2>3
  <2> QED
    BY <2>1, <2>4, QueryCacheAssumption
<1>8. num' = Cardinality(Connected')
  <2>1. Plus(Cardinality(Connected), 1) = Cardinality(Connected) + 1
    BY <1>7, CountFacts
  <2> QED
    BY <1>1, <1>7, <2>1 DEF Known
<1>9. fakes' = Cardinality({t \in Connected' : players'[t].fake})
  <2>0. fakes = Cardinality(Bots)
    BY DEF Known
  <2>1. CASE bot
    <3>1. {t \in Connected' : players'[t].fake} = Bots \cup {s}
      <4>1. players'[s].fake <=> TRUE
        BY <1>3, <2>1, PlayerFields
      <4>2. ASSUME NEW t \in Connected
            PROVE  players'[t].fake <=> t \in Bots
        <5>1. players'[t] = players[t]
          BY <1>0, <1>2
        <5> QED
          BY <5>1, Zenon
      <4> QED
        BY <1>0, <1>4, <4>1, <4>2, <2>1, Zenon
    <3>2. Plus(Cardinality(Bots), 1) = Cardinality(Bots) + 1
      BY <1>7, CountFacts
    <3> QED
      BY <1>1, <1>7, <2>0, <2>1, <3>1, <3>2
  <2>2. CASE ~ bot
    <3>1. {t \in Connected' : players'[t].fake} = Bots
      <4>1. players'[s].fake <=> FALSE
        BY <1>3, <2>2, PlayerFields
      <4>2. ASSUME NEW t \in Connected
            PROVE  players'[t].fake <=> t \in Bots
        <5>1. players'[t] = players[t]
          BY <1>0, <1>2
        <5> QED
          BY <5>1, Zenon
      <4> QED
        BY <1>0, <1>4, <4>1, <4>2, <2>2, Zenon
    <3> QED
      BY <1>1, <2>0, <2>2, <3>1
  <2> QED
    BY <2>1, <2>2
<1>10. \A t \in Connected' : players'[t].fake # (clients'[t].kind = "bot") => clients'[t].kind = "SourceTV"
  <2> SUFFICES ASSUME NEW t \in Connected', clients'[t].kind # "SourceTV"
               PROVE  players'[t].fake = (clients'[t].kind = "bot")
    OBVIOUS
  <2>1. CASE t = s
    BY <1>3, <2>1 DEF Kinds
  <2>2. CASE t # s
    <3>1. t \in Connected /\ clients'[t] = clients[t] /\ players'[t] = players[t]
      BY <1>0, <1>2, <1>4, <2>2
    <3> QED
      BY <3>1 DEF Known
  <2> QED
    BY <2>1, <2>2
<1> QED
  BY <1>5, <1>6, <1>8, <1>9, <1>10 DEF Known

(* One who enters the game is no longer taken for a bot if he is SourceTV. *)
LEMMA PutInServerKnows ==
  ASSUME IndInv, Known, loaded, NEW s \in Slots, OnClientPutInServer(s)
  PROVE  Known'
<1> DEFINE Bots == {t \in Connected : players[t].fake}
<1>0. /\ players \in [Slots -> Players] /\ s \in Connected /\ Connected \in SUBSET Slots
      /\ clients' = clients /\ num' = num /\ userMap' = userMap /\ Connected' = Connected
  BY DEF IndInv, TypeOK, Players, OnClientPutInServer, Connected
<1>1. CASE UNCHANGED <<players, fakes>>
  BY <1>0, <1>1 DEF Known, Active
<1>2. CASE /\ players[s].active /\ players[s].fake /\ clients[s].kind = "SourceTV"
           /\ players' = [players EXCEPT ![s].fake = FALSE] /\ fakes' = Minus(fakes, 1)
  <2>1. players'[s].active = players[s].active /\ ~ players'[s].fake
    BY <1>0, <1>2 DEF Players
  <2>2. \A t \in Slots : t # s => players'[t] = players[t]
    BY <1>0, <1>2
  <2>3. Active(players') = Active(players)
    <3>1. ASSUME NEW t \in Slots
          PROVE  players'[t].active <=> players[t].active
      BY <2>1, <2>2
    <3> QED
      BY <3>1, Zenon DEF Active
  <2>4. {t \in Connected : players'[t].fake} = Bots \ {s}
    <3>1. ASSUME NEW t \in Connected, t # s
          PROVE  players'[t].fake <=> players[t].fake
      BY <1>0, <2>2, <3>1
    <3> QED
      BY <2>1, <3>1, Zenon
  <2>5. s \in Bots /\ Bots \in SUBSET Slots
    BY <1>0, <1>2, Zenon
  <2>6. fakes = Cardinality(Bots)
    BY DEF Known
  <2> HIDE DEF Bots
  <2>7. Cardinality(Bots \ {s}) = Cardinality(Bots) - 1 /\ Cardinality(Bots) >= 1 /\ Cardinality(Bots) \in Nat
        /\ Cardinality(Bots) < BYTE
    <3>1. Cardinality(Bots) \in 0 .. BYTE - 1
      BY <2>5, SlotSets
    <3>2. {} \in SUBSET Bots
      OBVIOUS
    <3>3. Cardinality(Bots \ {s}) = Cardinality(Bots) - 1 /\ Cardinality(Bots) >= 1
      BY <2>5, <3>2, SlotCounts
    <3> QED
      BY <3>1, <3>3, QueryCacheAssumption
  <2>8. Minus(Cardinality(Bots), 1) = Cardinality(Bots) - 1
    BY <2>7, CountFacts
  <2>9. fakes' = Cardinality({t \in Connected' : players'[t].fake})
    BY <1>0, <1>2, <2>4, <2>6, <2>7, <2>8
  <2>10. \A t \in Connected' : players'[t].fake # (clients'[t].kind = "bot") => clients'[t].kind = "SourceTV"
    <3> SUFFICES ASSUME NEW t \in Connected, clients[t].kind # "SourceTV"
                 PROVE  players'[t].fake = (clients[t].kind = "bot")
      BY <1>0
    <3>1. t # s
      BY <1>2
    <3> QED
      BY <1>0, <2>2, <3>1 DEF Known
  <2> QED
    BY <1>0, <2>3, <2>9, <2>10 DEF Known
<1> QED
  BY <1>1, <1>2 DEF OnClientPutInServer

(* Of those who leave each is found by his user id, and no one else. *)
LEMMA GoneFacts ==
  ASSUME IndInv, Known, NEW S \in SUBSET Connected
  PROVE  Gone(S) = S
<1>1. \A s \in S : userMap[clients[s].userid] = s /\ s # 0
  BY QueryCacheAssumption DEF Known, Connected, Slots
<1> QED
  BY <1>1, Zenon DEF Gone

LEMMA LeaveKnows ==
  ASSUME IndInv, Known, loaded, NEW S \in SUBSET Connected, Leave(S)
  PROVE  Known'
<1> DEFINE Bots == {t \in Connected : players[t].fake}
           Off == {t \in S : players[t].fake}
<1>0. /\ players \in [Slots -> Players] /\ clients \in [Slots -> Engine] /\ Connected \in SUBSET Slots
      /\ userMap \in [UserIDs -> 0 .. MaxPlayers]
  BY DEF IndInv, TypeOK, Players, Engine, Connected
<1>1. Gone(S) = S
  BY GoneFacts
<1>2. /\ userMap' = [u \in UserIDs |-> IF \E s \in S : clients[s].userid = u THEN 0 ELSE userMap[u]]
      /\ num' = Minus(num, Cardinality(S \cap Active(players)))
      /\ fakes' = Minus(fakes, Cardinality({s \in S \cap Active(players) : players[s].fake}))
      /\ players' = [s \in Slots |-> IF s \in S THEN [players[s] EXCEPT !.active = FALSE] ELSE players[s]]
      /\ clients' = [s \in Slots |-> IF s \in S THEN Empty ELSE clients[s]]
  BY <1>1, Zenon DEF Leave, PlayersDisconnect
<1>3. S \cap Active(players) = S
  BY DEF Known
<1>4. Connected' = Connected \ S
  BY <1>0, <1>2 DEF Connected
<1>5. \A t \in Connected \ S : clients'[t] = clients[t] /\ players'[t] = players[t]
  BY <1>0, <1>2
<1>6. Active(players') = Connected'
  <2>1. ASSUME NEW t \in S
        PROVE  ~ players'[t].active
    BY <1>0, <1>2 DEF Players
  <2>2. ASSUME NEW t \in Slots, t \notin S
        PROVE  players'[t].active <=> players[t].active
    <3>1. players'[t] = players[t]
      BY <1>2, <2>2
    <3> QED
      BY <3>1, Zenon
  <2>3. ASSUME NEW t \in Slots
        PROVE  t \in Active(players) <=> players[t].active
    BY Zenon DEF Active
  <2>4. ASSUME NEW t \in Slots
        PROVE  t \in Active(players') <=> players'[t].active
    BY Zenon DEF Active
  <2>5. Active(players') \subseteq Slots /\ Active(players) = Connected
    BY DEF Active, Known
  <2> QED
    BY <1>0, <1>4, <2>1, <2>2, <2>3, <2>4, <2>5
<1>7. \A t \in Connected' : userMap'[clients'[t].userid] = t
  <2> SUFFICES ASSUME NEW t \in Connected, t \notin S
               PROVE  userMap'[clients'[t].userid] = t
    BY <1>4
  <2>1. clients'[t] = clients[t] /\ clients[t].userid \in UserIDs /\ userMap[clients[t].userid] = t
    BY <1>5 DEF Known, IndInv, EngineInv
  <2>2. ~ \E s \in S : clients[s].userid = clients[t].userid
    BY DEF IndInv, EngineInv
  <2> QED
    BY <1>2, <2>1, <2>2
<1>8. {t \in Connected' : players'[t].fake} = Bots \ Off
  <2>1. ASSUME NEW t \in Connected \ S
        PROVE  players'[t].fake <=> players[t].fake
    BY <1>5, Zenon
  <2> QED
    BY <1>4, <2>1, Zenon
<1>9. /\ Bots \in SUBSET Slots /\ Off \in SUBSET Bots
      /\ num = Cardinality(Connected) /\ fakes = Cardinality(Bots)
      /\ num' = Minus(num, Cardinality(S)) /\ fakes' = Minus(fakes, Cardinality(Off))
  BY <1>0, <1>2, <1>3, Zenon DEF Known
<1> HIDE DEF Bots, Off
<1>10. num' = Cardinality(Connected') /\ fakes' = Cardinality(Bots \ Off)
  <2>1. \A T \in SUBSET Slots : Cardinality(T) \in Nat /\ Cardinality(T) < BYTE
    BY SlotSets, QueryCacheAssumption
  <2>2. /\ Cardinality(Connected \ S) = Cardinality(Connected) - Cardinality(S)
        /\ Cardinality(S) <= Cardinality(Connected)
        /\ Cardinality(Bots \ Off) = Cardinality(Bots) - Cardinality(Off)
        /\ Cardinality(Off) <= Cardinality(Bots)
    BY <1>0, <1>9, SlotCounts
  <2>3. S \in SUBSET Slots /\ Off \in SUBSET Slots
    BY <1>0, <1>9
  <2>4. Minus(Cardinality(Connected), Cardinality(S)) = Cardinality(Connected) - Cardinality(S)
    BY <1>0, <2>1, <2>2, <2>3, CountFacts
  <2>5. Minus(Cardinality(Bots), Cardinality(Off)) = Cardinality(Bots) - Cardinality(Off)
    BY <1>9, <2>1, <2>2, <2>3, CountFacts
  <2> QED
    BY <1>4, <1>9, <2>2, <2>4, <2>5
<1>11. \A t \in Connected' : players'[t].fake # (clients'[t].kind = "bot") => clients'[t].kind = "SourceTV"
  BY <1>4, <1>5 DEF Known
<1> QED
  BY <1>6, <1>7, <1>8, <1>10, <1>11 DEF Known

(* The engine keeps its rules, whatever the extension does. *)
LEMMA EngineStep == IndInv /\ [Next]_vars => EngineInv'
<1> SUFFICES ASSUME IndInv, [Next]_vars
             PROVE  EngineInv'
  OBVIOUS
<1>0. clients \in [Slots -> Engine] /\ slots \in SUBSET Slots /\ EngineInv
  BY DEF IndInv, TypeOK, Engine
<1>1. CASE UNCHANGED <<clients, slots>>
  BY <1>0, <1>1 DEF EngineInv, Connected
<1>2. ASSUME NEW s \in Slots, NEW kind \in Kinds, NEW u \in UserIDs, PlayerConnect(s, kind, u)
      PROVE  EngineInv'
  <2>1. /\ clients' = [clients EXCEPT ![s] = [kind |-> kind, userid |-> u]] /\ slots' = slots \cup {s}
        /\ \A t \in Slots : clients[t].userid # u
    BY <1>2 DEF PlayerConnect
  <2>2. clients'[s] = [kind |-> kind, userid |-> u] /\ \A t \in Slots : t # s => clients'[t] = clients[t]
    BY <1>0, <2>1
  <2>3. \A t \in Connected' : t \in Slots /\ (t = s \/ (t \in Connected /\ clients'[t] = clients[t]))
    BY <2>2 DEF Connected
  <2> QED
    BY <1>0, <2>1, <2>2, <2>3 DEF EngineInv
<1>3. ASSUME NEW S \in SUBSET Slots, Leave(S)
      PROVE  EngineInv'
  <2>1. \A t \in Connected' : t \in Connected /\ clients'[t] = clients[t]
    BY <1>0, <1>3 DEF Leave, Connected
  <2>2. slots' = slots
    BY <1>3 DEF Leave
  <2> QED
    BY <1>0, <2>1, <2>2 DEF EngineInv
<1>4. CASE OnTimer \/ Load \/ Unload \/ (\E s \in Slots : OnClientPutInServer(s)) \/ UNCHANGED vars
  BY <1>1, <1>4 DEF OnTimer, Load, Unload, OnClientPutInServer, vars
<1> QED
  BY <1>2, <1>3, <1>4 DEF Next, PlayerDisconnect, InactivateClients

(* No step loses track of a client. *)
LEMMA KnowsStep == IndInv /\ [Next]_vars => KnowsClients'
<1> SUFFICES ASSUME IndInv, [Next]_vars, loaded', ~ ghosts'
             PROVE  Known'
  BY DEF KnowsClients, Known
<1>1. CASE Load
  BY <1>1, LoadKnows
<1>2. CASE ~ Load
  <2>1. loaded /\ ~ ghosts
    <3>1. ~ Unload
      BY DEF Unload
    <3>2. \A S \in SUBSET Slots : Leave(S) => loaded' = loaded /\ ghosts' = ghosts
      BY DEF Leave
    <3>3. OnTimer \/ UNCHANGED vars => loaded' = loaded /\ ghosts' = ghosts
      BY DEF OnTimer, vars
    <3>4. \A s \in Slots : /\ OnClientPutInServer(s) => loaded' = loaded /\ ghosts' = ghosts
                         /\ \A kind \in Kinds, u \in UserIDs :
                              PlayerConnect(s, kind, u) => loaded' = loaded /\ ghosts' = ghosts
      BY DEF OnClientPutInServer, PlayerConnect
    <3>5. loaded' = loaded /\ ghosts' = ghosts
      BY <1>2, <3>1, <3>2, <3>3, <3>4 DEF Next, PlayerDisconnect, InactivateClients
    <3> QED
      BY <3>5, Zenon
  <2>2. Known
    BY <2>1 DEF IndInv, KnowsClients, Known
  <2>3. ASSUME NEW s \in Slots
        PROVE  /\ OnClientPutInServer(s) => Known'
               /\ PlayerDisconnect(s) => Known'
               /\ \A kind \in Kinds, u \in UserIDs : PlayerConnect(s, kind, u) => Known'
    BY <2>1, <2>2, PutInServerKnows, LeaveKnows, ConnectKnows DEF PlayerDisconnect
  <2>4. InactivateClients => Known'
    <3>1. {s \in Slots : clients[s].kind = "bot"} \in SUBSET Connected
      BY DEF Connected, Empty
    <3> QED
      BY <2>1, <2>2, <3>1, LeaveKnows DEF InactivateClients
  <2>5. OnTimer \/ UNCHANGED vars => Known'
    BY <2>2 DEF OnTimer, vars, Known, Active, Connected
  <2>6. ~ Unload
    BY DEF Unload
  <2> QED
    BY <1>2, <2>3, <2>4, <2>5, <2>6 DEF Next
<1> QED
  BY <1>1, <1>2

LEMMA InitInv == Init => IndInv
<1> SUFFICES ASSUME Init
             PROVE  IndInv
  OBVIOUS
<1>1. Connected = {}
  BY DEF Init, Connected
<1>2. EngineInv /\ KnowsClients
  BY <1>1 DEF Init, EngineInv, KnowsClients
<1>3. TypeOK
  <2>1. players \in [Slots -> [active : BOOLEAN, fake : BOOLEAN]] /\ apart \in BOOLEAN
    BY DEF Init, FreshCache, Nobody
  <2>2. num \in 0 .. BYTE - 1 /\ fakes \in 0 .. BYTE - 1 /\ userMap \in [UserIDs -> 0 .. MaxPlayers]
        /\ info \in [num : 0 .. BYTE - 1, fakes : 0 .. BYTE - 1]
        /\ list \in [count : 0 .. BYTE - 1, of : SUBSET Slots]
    BY QueryCacheAssumption DEF Init, FreshCache
  <2>3. clients \in [Slots -> [kind : Kinds \cup {"none"}, userid : UserIDs \cup {0}]] /\ slots \subseteq Slots
    BY DEF Init, Empty
  <2> QED
    BY <2>1, <2>2, <2>3 DEF Init, TypeOK
<1> QED
  BY <1>2, <1>3 DEF IndInv

(* In every state the types are kept, the engine's clients have one user id each, and a       *)
(* loaded extension that began with no empty slot knows them all.                             *)
THEOREM Invariance == Spec => []IndInv
<1>1. IndInv /\ [Next]_vars => IndInv'
  BY TypeStep, EngineStep, KnowsStep DEF IndInv
<1> QED
  BY <1>1, InitInv, PTL DEF Spec

(* The counts stay within a byte, the lists within the slots. *)
THEOREM TypeCorrect == Spec => []TypeOK
<1>1. IndInv => TypeOK
  BY DEF IndInv
<1> QED
  BY <1>1, Invariance, PTL

(* Through any series of connections, map changes and late loading the extension knows who    *)
(* the engine has, unless late loading has taken an empty slot for a player.                  *)
THEOREM KnowsWhoIsThere == Spec => []KnowsClients
<1>1. IndInv => KnowsClients
  BY DEF IndInv
<1> QED
  BY <1>1, Invariance, PTL

=============================================================================
