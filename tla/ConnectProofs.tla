---------------------------- MODULE ConnectProofs ----------------------------
(***************************************************************************)
(* Theorems about Connect, for any SteamIDs, slots and requests.           *)
(*                                                                         *)
(* What is promised of a player depends on the records of the requests,    *)
(* and those on who leaves: OwnSteamID and AllValidated are inductive only *)
(* with LastInv, AsksInv, MatchInv and SessionInv, each of which holds as  *)
(* long as certain risks were not taken.  A step is split by what it does  *)
(* to the records, the slots and the undecided requests.                   *)
(***************************************************************************)
EXTENDS Connect, TLAPS

Clients  == [id : SteamIDs \cup {NONE, Relay}, steamID : SteamIDs \cup {NONE}, verified : BOOLEAN]
Sessions == [SteamIDs -> {"none", "waiting", "answered"}]

(* What the calls into the engine and into Steam give has the type of what it replaces. *)
LEMMA CallTypes ==
  ASSUME TypeOK
  PROVE  /\ NoClient \in Clients
         /\ \A S \in SUBSET Slots : Without(S) \in [Slots -> Clients]
         /\ \A S \in SUBSET Slots : StoredAfter(S) \in [SteamIDs -> Records \cup {NONE}]
         /\ \A S \in SUBSET Slots : Forget(S) => slotSteamID' \in [Slots -> SteamIDs \cup {NONE}]
         /\ \A ss \in Sessions : \A ids : Ended(ss, ids) \in Sessions
         /\ \A cs \in [Slots -> Clients] : \A x, answer :
              Told(cs, x, answer) \in [Slots -> Clients] /\ OutBy(cs, x, answer) \in SUBSET Slots
<1>1. /\ NoClient \in Clients
      /\ \A S \in SUBSET Slots : Without(S) \in [Slots -> Clients]
  BY DEF TypeOK, Clients, NoClient, Without
<1>2. \A S \in SUBSET Slots :
        /\ StoredAfter(S) \in [SteamIDs -> Records \cup {NONE}]
        /\ Forget(S) => slotSteamID' \in [Slots -> SteamIDs \cup {NONE}]
  BY DEF TypeOK, StoredAfter, Forget
<1>3. \A ss \in Sessions : \A ids : Ended(ss, ids) \in Sessions
  BY DEF Sessions, Ended
<1>4. ASSUME NEW cs \in [Slots -> Clients], NEW x, NEW answer
      PROVE  Told(cs, x, answer) \in [Slots -> Clients] /\ OutBy(cs, x, answer) \in SUBSET Slots
  <2>1. \A s \in Slots : [cs[s] EXCEPT !.verified = TRUE] \in Clients
    BY DEF Clients
  <2> QED
    BY <1>1, <2>1 DEF Told, OutBy
<1> QED
  BY <1>1, <1>2, <1>3, <1>4

(* What an attempt to connect computes has its type. *)
LEMMA AttemptTypes ==
  ASSUME TypeOK, NEW r \in Requests, NEW ok \in BOOLEAN
  PROVE  /\ r.id \in SteamIDs
         /\ Record(r) \in Records
         /\ Kicked(r, ok) \in SUBSET Slots
         /\ SessionsAfter(r, ok) \in Sessions
         /\ Dropped(r, ok) \in [SteamIDs -> Records \cup {NONE}]
         /\ \A s \in Slots \cup {NONE} : AcceptedRecord(r, ok, s) \in Records
<1>1. r.id \in SteamIDs /\ r.ip \in Ips /\ r.challenge \in Challenges
  BY ConnectAssumption DEF Ips, Challenges
<1>2. Record(r) \in Records
  BY <1>1 DEF TypeOK, Record, Existing, Records
<1>3. Kicked(r, ok) \in SUBSET Slots
  BY <1>2 DEF Kicked, Records
<1>4. SessionsAfter(r, ok) \in Sessions
  <2>1. session \in Sessions
    BY DEF TypeOK, Sessions
  <2>2. EndedFirst(r) \in Sessions
    BY <2>1, CallTypes DEF EndedFirst
  <2>3. [EndedFirst(r) EXCEPT ![r.id] = "waiting"] \in Sessions
    BY <2>2 DEF Sessions
  <2> QED
    BY <2>2, <2>3, CallTypes DEF SessionsAfter
<1>5. Dropped(r, ok) \in [SteamIDs -> Records \cup {NONE}]
  BY <1>3, CallTypes DEF Dropped
<1>6. \A s \in Slots \cup {NONE} : AcceptedRecord(r, ok, s) \in Records
  BY <1>2 DEF AcceptedRecord, Records
<1> QED
  BY <1>1, <1>2, <1>3, <1>4, <1>5, <1>6

(* No step leaves the types. *)
LEMMA TypeStep == TypeOK /\ [Next]_vars => TypeOK'
<1> SUFFICES ASSUME TypeOK, [Next]_vars
             PROVE  TypeOK'
  OBVIOUS
<1> USE DEF Clients, Sessions
<1>1. CASE RejectStranger
  BY <1>1, CallTypes DEF TypeOK, RejectStranger, RejectConnection, Risk, Overtakes, If
<1>2. CASE SteamChanges
  BY <1>2 DEF TypeOK, SteamChanges, Risk, If
<1>3. ASSUME NEW s \in Slots, ConnectRelay(s)
      PROVE  TypeOK'
  BY <1>3 DEF TypeOK, ConnectRelay, Risk, Overtakes, If
<1>4. ASSUME NEW s \in Slots, Leave(s)
      PROVE  TypeOK'
  BY <1>4, CallTypes DEF TypeOK, Leave
<1>5. ASSUME NEW r \in Requests, NEW ok \in BOOLEAN, ConnectClient(r, ok)
      PROVE  TypeOK'
  <2>1. RisksOf(r, ok) \subseteq {"overtaken", "twin", "again", "kick"}
    BY DEF RisksOf, Overtakes, If
  <2>2. CASE Refuse(r, ok)
    BY <2>1, <2>2, CallTypes, AttemptTypes DEF TypeOK, Refuse, Attempt, Risk, If
  <2>3. ASSUME Park(r, ok)
        PROVE  TypeOK' \/ ~ asks' \subseteq Requests
    <3>1. [Record(r) EXCEPT !.failed = ~ ok] \in Records
      BY AttemptTypes DEF Records
    <3> QED
      BY <2>1, <2>3, <3>1, CallTypes, AttemptTypes DEF TypeOK, Park, Goes, Attempt, Risk
  <2>4. CASE Wait(r, ok)
    BY <2>3, <2>4 DEF Wait, TypeOK
  <2>5. CASE GoAsync(r, ok)
    BY <2>3, <2>5 DEF GoAsync, TypeOK
  <2>6. ASSUME NEW early \in BOOLEAN, AcceptRefused(r, ok, early)
        PROVE  TypeOK'
    BY <2>1, <2>6, CallTypes, AttemptTypes DEF TypeOK, AcceptRefused, Accepts, Goes, Attempt, Risk
  <2>7. ASSUME NEW s \in Slots, Accept(r, ok, s)
        PROVE  TypeOK'
    <3> DEFINE in == [Without(Kicked(r, ok)) EXCEPT ![s] =
                       [id |-> r.id, steamID |-> lastClient', verified |-> FALSE]]
    <3>1. lastClient' = r.id /\ UNCHANGED <<noSteam, asks>>
      BY <2>7 DEF Accept, Accepts, Goes, Attempt
    <3>2. in \in [Slots -> Clients]
      BY <3>1, CallTypes, AttemptTypes
    <3>3. clients' \in [Slots -> Clients]
      BY <2>7, <3>2, CallTypes DEF Accept
    <3> HIDE DEF in
    <3>4. slotSteamID' \in [Slots -> SteamIDs \cup {NONE}]
      BY <2>7, AttemptTypes DEF Accept, TypeOK
    <3>5. storage' \in [SteamIDs -> Records \cup {NONE}] /\ session' \in Sessions
      BY <2>7, AttemptTypes DEF Accept
    <3>6. endAuth' = FALSE /\ suppress' = FALSE /\ risks' = risks \cup RisksOf(r, ok)
      BY <2>7 DEF Accept, Risk
    <3> QED
      BY <2>1, <3>1, <3>3, <3>4, <3>5, <3>6, AttemptTypes DEF TypeOK
  <2> QED
    BY <1>5, <2>2, <2>4, <2>5, <2>6, <2>7 DEF ConnectClient
<1>6. ASSUME NEW r \in Requests,
             DecideNothing(r) \/ DecideReject(r) \/ \E early \in BOOLEAN : DecideRefused(r, early)
      PROVE  TypeOK'
  <2>1. CASE DecideNothing(r)
    BY <2>1 DEF TypeOK, DecideNothing, Decide
  <2>2. session \in Sessions /\ (RejectConnection(session) => session' \in Sessions)
    BY CallTypes DEF TypeOK, RejectConnection
  <2>3. CASE DecideReject(r)
    BY <2>2, <2>3 DEF TypeOK, DecideReject, Decide, RejectConnection
  <2>4. ASSUME NEW early \in BOOLEAN, DecideRefused(r, early)
        PROVE  TypeOK'
    <3>1. session' \in Sessions /\ endAuth' = FALSE
      BY <2>2, <2>4 DEF DecideRefused, RejectConnection
    <3> QED
      BY <2>4, <3>1 DEF TypeOK, DecideRefused, Decide
  <2> QED
    BY <1>6, <2>1, <2>3, <2>4
<1>7. ASSUME NEW r \in Requests, NEW s \in Slots, DecideAccept(r, s)
      PROVE  TypeOK'
  <2> DEFINE in     == [clients EXCEPT ![s] = [id |-> r.id, steamID |-> lastClient, verified |-> FALSE]]
             answer == Replayed(storage[r.id])
             out    == OutBy(in, r.id, answer)
  <2>1. in \in [Slots -> Clients]
    BY ConnectAssumption DEF TypeOK
  <2>2. Told(in, r.id, answer) \in [Slots -> Clients] /\ out \in SUBSET Slots
    BY <2>1, CallTypes
  <2>3. /\ clients' = Told(in, r.id, answer)
        /\ session' = Ended(session, If(r.id, out # {}))
        /\ storage' = StoredAfter(out)
        /\ Forget(out)
        /\ endAuth' = FALSE /\ suppress' = FALSE
        /\ UNCHANGED <<risks, lastClient, noSteam>> /\ asks' = asks \ {r}
    BY <1>7 DEF DecideAccept, Decide
  <2> HIDE DEF in, answer, out
  <2> QED
    BY <2>2, <2>3, CallTypes DEF TypeOK
<1>8. ASSUME NEW x \in SteamIDs, NEW reply \in {"ok", "legal", "illegal"}, SteamAnswers(x, reply)
      PROVE  TypeOK'
  <2> DEFINE answer == IF reply = "ok" \/ (reply = "illegal" /\ noSteam) THEN "ok" ELSE "bad"
             out    == OutBy(clients, x, answer)
             kept   == IF storage[x] # NONE /\ storage[x].got = "no"
                         THEN [storage EXCEPT ![x].got = answer] ELSE storage
  <2>1. /\ session' = [session EXCEPT ![x] = IF out = {} THEN "answered" ELSE "none"]
        /\ storage' = [y \in SteamIDs |-> IF y \in ForgottenBy(out) THEN NONE ELSE kept[y]]
        /\ clients' = Told(clients, x, answer)
        /\ Forget(out)
        /\ UNCHANGED <<endAuth, lastClient, suppress, noSteam, asks, risks>>
    BY <1>8 DEF SteamAnswers
  <2>2. kept \in [SteamIDs -> Records \cup {NONE}]
    BY DEF TypeOK, Records
  <2>3. Told(clients, x, answer) \in [Slots -> Clients] /\ out \in SUBSET Slots
    BY CallTypes DEF TypeOK
  <2> HIDE DEF answer, out, kept
  <2> QED
    BY <2>1, <2>2, <2>3, CallTypes DEF TypeOK
<1>9. CASE UNCHANGED vars
  BY <1>9 DEF vars, TypeOK
<1> QED
  BY <1>1, <1>2, <1>3, <1>4, <1>5, <1>6, <1>7, <1>8, <1>9 DEF Next

(* Who is in a slot after some have left, and after Steam's answer was given to the engine. *)
LEMMA ClientFacts ==
  ASSUME TypeOK, NEW s \in Slots
  PROVE  /\ \A S : Without(S)[s] = IF s \in S THEN NoClient ELSE clients[s]
         /\ NoClient.id = NONE /\ NoClient.steamID = NONE
         /\ s \in FreeSlots => clients[s].id = NONE /\ clients[s].steamID = NONE
         /\ \A cs \in [Slots -> Clients] : \A x \in SteamIDs, answer \in {"no", "ok", "bad"} :
              LET c == Told(cs, x, answer)[s]
              IN  IF s \in OutBy(cs, x, answer)
                    THEN c = NoClient /\ answer = "bad" /\ cs[s].steamID = x
                    ELSE /\ c.id = cs[s].id /\ c.steamID = cs[s].steamID
                         /\ c.verified = (cs[s].verified \/ (answer = "ok" /\ cs[s].steamID = x))
                         /\ answer = "bad" => cs[s].steamID # x
<1>1. ASSUME NEW cs \in [Slots -> Clients], NEW x \in SteamIDs, NEW answer \in {"no", "ok", "bad"}
      PROVE  LET c == Told(cs, x, answer)[s]
             IN  IF s \in OutBy(cs, x, answer)
                    THEN c = NoClient /\ answer = "bad" /\ cs[s].steamID = x
                    ELSE /\ c.id = cs[s].id /\ c.steamID = cs[s].steamID
                         /\ c.verified = (cs[s].verified \/ (answer = "ok" /\ cs[s].steamID = x))
                         /\ answer = "bad" => cs[s].steamID # x
  <2>1. cs[s] \in Clients
    OBVIOUS
  <2>2. Told(cs, x, answer)[s] =
          IF s \in OutBy(cs, x, answer) THEN NoClient
          ELSE IF answer = "ok" /\ cs[s].steamID = x THEN [cs[s] EXCEPT !.verified = TRUE]
          ELSE cs[s]
    BY DEF Told
  <2>3. s \in OutBy(cs, x, answer) <=> answer = "bad" /\ cs[s].steamID = x
    BY DEF OutBy
  <2> QED
    BY <2>1, <2>2, <2>3 DEF Clients
<1>2. \A S : Without(S)[s] = IF s \in S THEN NoClient ELSE clients[s]
  BY DEF Without
<1>3. /\ NoClient.id = NONE /\ NoClient.steamID = NONE
      /\ s \in FreeSlots => clients[s].id = NONE /\ clients[s].steamID = NONE
  BY DEF NoClient, FreeSlots
<1> QED
  BY <1>1, <1>2, <1>3

(* What every attempt to connect does, whatever comes of it: a player comes in only if it is *)
(* accepted, and without a kick only its own record and its own session change.              *)
Joins(r, ok, s) ==
  /\ Accept(r, ok, s)
  /\ s \in FreeSlots \cup Kicked(r, ok)
  /\ clients'[s].id = r.id /\ clients'[s].steamID = r.id
  /\ \A t \in Slots \ {s} : t \notin Kicked(r, ok) =>
       /\ clients'[t].id = clients[t].id /\ clients'[t].steamID = clients[t].steamID
       /\ clients[t].verified => clients'[t].verified

LEMMA AttemptFacts ==
  ASSUME TypeOK, NEW r \in Requests, NEW ok \in BOOLEAN, ConnectClient(r, ok)
  PROVE  /\ lastClient' = r.id /\ UNCHANGED noSteam
         /\ risks \cup RisksOf(r, ok) \subseteq risks'
         /\ asks' = asks \/ (GoAsync(r, ok) /\ asks' = asks \cup {r})
         /\ clients' = Without(Kicked(r, ok)) \/ \E s \in Slots : Joins(r, ok, s)
         /\ \A s \in Slots : Accept(r, ok, s) => Joins(r, ok, s)
         /\ Kicked(r, ok) # {} => "kick" \in risks'
         /\ Kicked(r, ok) = {} =>
              \A y \in SteamIDs \ {r.id} : storage'[y] = storage[y] /\ session'[y] = session[y]
<1> USE DEF Attempt, Goes, Accepts, Risk
<1>1. /\ lastClient' = r.id /\ UNCHANGED noSteam
      /\ risks \cup RisksOf(r, ok) \subseteq risks'
      /\ asks' = asks \/ (GoAsync(r, ok) /\ asks' = asks \cup {r})
  BY DEF ConnectClient, Refuse, Wait, GoAsync, Park, AcceptRefused, Accept
<1>2. ASSUME NEW s \in Slots, Accept(r, ok, s)
      PROVE  Joins(r, ok, s)
  <2> DEFINE in == [Without(Kicked(r, ok)) EXCEPT ![s] =
                     [id |-> r.id, steamID |-> lastClient', verified |-> FALSE]]
  <2>1. /\ clients' = IF ok THEN in ELSE Told(in, r.id, "ok")
        /\ s \in FreeSlots \cup Kicked(r, ok)
    BY <1>2 DEF Accept
  <2>2. in \in [Slots -> Clients]
    BY <1>1, CallTypes, AttemptTypes DEF Clients
  <2>3. \A t \in Slots : /\ clients'[t].id = in[t].id /\ clients'[t].steamID = in[t].steamID
                         /\ in[t].verified => clients'[t].verified
    <3>1. CASE ok
      BY <2>1, <3>1
    <3>2. ASSUME ~ ok, NEW t \in Slots
          PROVE  /\ clients'[t].id = in[t].id /\ clients'[t].steamID = in[t].steamID
                 /\ in[t].verified => clients'[t].verified
      <4>1. clients' = Told(in, r.id, "ok") /\ r.id \in SteamIDs
        BY <2>1, <3>2, AttemptTypes
      <4> HIDE DEF in
      <4>2. LET c == Told(in, r.id, "ok")[t]
            IN  IF t \in OutBy(in, r.id, "ok")
                  THEN c = NoClient /\ "ok" = "bad" /\ in[t].steamID = r.id
                  ELSE /\ c.id = in[t].id /\ c.steamID = in[t].steamID
                       /\ c.verified = (in[t].verified \/ ("ok" = "ok" /\ in[t].steamID = r.id))
                       /\ "ok" = "bad" => in[t].steamID # r.id
        BY <2>2, <4>1, ClientFacts
      <4> QED
        BY <4>1, <4>2
    <3> QED
      BY <3>1, <3>2
  <2>4. in[s].id = r.id /\ in[s].steamID = r.id
    BY <1>1, CallTypes, AttemptTypes
  <2>5. ASSUME NEW t \in Slots \ {s}, t \notin Kicked(r, ok)
        PROVE  in[t] = clients[t]
    BY <2>5, CallTypes, AttemptTypes DEF Without
  <2> HIDE DEF in
  <2> QED
    BY <1>2, <2>1, <2>3, <2>4, <2>5 DEF Joins
<1>3. clients' = Without(Kicked(r, ok)) \/ \E s \in Slots : Joins(r, ok, s)
  BY <1>2 DEF ConnectClient, Refuse, Wait, GoAsync, Park, AcceptRefused
<1>4. Kicked(r, ok) # {} => "kick" \in risks'
  BY <1>1 DEF RisksOf
<1>5. ASSUME Kicked(r, ok) = {}, NEW y \in SteamIDs \ {r.id}
      PROVE  storage'[y] = storage[y] /\ session'[y] = session[y]
  <2>1. r.id \in SteamIDs
    BY AttemptTypes
  <2>2. StoredAfter({})[y] = storage[y]
    BY DEF StoredAfter, ForgottenBy
  <2>3. Dropped(r, ok) \in [SteamIDs -> Records \cup {NONE}] /\ Dropped(r, ok)[y] = storage[y]
    BY <1>5, <2>1, <2>2, AttemptTypes, CallTypes DEF Dropped
  <2>4. storage'[y] = storage[y]
    BY <2>1, <2>3 DEF ConnectClient, Refuse, Wait, GoAsync, Park, AcceptRefused, Accept
  <2>5. EndedFirst(r) \in Sessions /\ EndedFirst(r)[y] = session[y]
    BY CallTypes DEF EndedFirst, Ended, TypeOK, Sessions
  <2>6. SessionsAfter(r, ok) \in Sessions /\ SessionsAfter(r, ok)[y] = session[y]
    <3>1. SessionsAfter(r, ok)[y] =
            (IF ok THEN [EndedFirst(r) EXCEPT ![r.id] = "waiting"] ELSE EndedFirst(r))[y]
      BY <1>5 DEF SessionsAfter, Ended, LeftBy
    <3> QED
      BY <2>5, <3>1, AttemptTypes DEF Sessions
  <2>7. Ended(SessionsAfter(r, ok), {r.id})[y] = session[y]
    BY <2>6 DEF Ended
  <2>8. session'[y] = session[y]
    BY <2>6, <2>7 DEF ConnectClient, Refuse, Wait, GoAsync, Park, AcceptRefused, Accept
  <2> QED
    BY <2>4, <2>8
<1> QED
  BY <1>1, <1>2, <1>3, <1>4, <1>5

(* The completion of an asynchronous connection. *)
LEMMA DecideAcceptFacts ==
  ASSUME TypeOK, NEW r \in Requests, NEW s \in Slots, DecideAccept(r, s)
  PROVE  LET in     == [clients EXCEPT ![s] = [id |-> r.id, steamID |-> lastClient, verified |-> FALSE]]
             answer == Replayed(storage[r.id])
             out    == OutBy(in, r.id, answer)
         IN  /\ in \in [Slots -> Clients] /\ answer \in {"no", "ok", "bad"} /\ s \in FreeSlots
             /\ clients' = Told(in, r.id, answer) /\ session' = Ended(session, If(r.id, out # {}))
             /\ storage' = StoredAfter(out) /\ Forget(out)
             /\ UNCHANGED <<risks, lastClient, noSteam>>
             /\ r \in asks /\ asks' = asks \ {r} /\ r.id \in SteamIDs /\ storage[r.id] \in Records
<1>1. r.id \in SteamIDs
  BY ConnectAssumption
<1>2. storage[r.id] \in Records
  BY <1>1 DEF DecideAccept, TypeOK
<1>3. Replayed(storage[r.id]) \in {"no", "ok", "bad"}
  BY <1>2 DEF Replayed, Records
<1>4. [clients EXCEPT ![s] = [id |-> r.id, steamID |-> lastClient, verified |-> FALSE]] \in [Slots -> Clients]
  BY <1>1 DEF TypeOK, Clients
<1> QED
  BY <1>1, <1>2, <1>3, <1>4 DEF DecideAccept, Decide

(* The SteamID of a player is its own as long as the last attempt is that of every request *)
(* the plugin has yet to decide.                                                           *)
LEMMA OwnStep == TypeOK /\ OwnSteamID /\ LastInv /\ [Next]_vars => OwnSteamID' /\ LastInv'
<1> SUFFICES ASSUME TypeOK, OwnSteamID, LastInv, [Next]_vars
             PROVE  OwnSteamID' /\ LastInv'
  OBVIOUS
<1> USE DEF OwnSteamID, LastInv
<1>1. CASE RejectStranger
  BY <1>1 DEF RejectStranger, Risk
<1>2. CASE SteamChanges
  BY <1>2 DEF SteamChanges, Risk
<1>3. ASSUME NEW s \in Slots, ConnectRelay(s)
      PROVE  OwnSteamID' /\ LastInv'
  <2>1. /\ clients' = [clients EXCEPT ![s] =
             [id |-> Relay, steamID |-> IF suppress THEN lastClient ELSE NONE, verified |-> FALSE]]
        /\ risks \subseteq risks' /\ UNCHANGED <<lastClient, asks>>
    BY <1>3 DEF ConnectRelay, Risk
  <2>2. \A t \in Slots \ {s} : clients'[t] = clients[t]
    BY <2>1 DEF TypeOK
  <2>3. clients'[s].id \notin SteamIDs
    BY <2>1, ConnectAssumption DEF TypeOK
  <2> QED
    BY <2>1, <2>2, <2>3
<1>4. ASSUME NEW s \in Slots, Leave(s)
      PROVE  OwnSteamID' /\ LastInv'
  <2>1. clients' = Without({s}) /\ UNCHANGED <<lastClient, asks, risks>>
    BY <1>4 DEF Leave
  <2> QED
    BY <2>1, ClientFacts, ConnectAssumption
<1>5. ASSUME NEW r \in Requests, NEW ok \in BOOLEAN, ConnectClient(r, ok)
      PROVE  OwnSteamID' /\ LastInv'
  <2>1. /\ lastClient' = r.id /\ Overtakes(r.id) \subseteq risks' /\ risks \subseteq risks'
        /\ asks' = asks \/ asks' = asks \cup {r}
    <3>1. Overtakes(r.id) \subseteq RisksOf(r, ok)
      BY DEF RisksOf
    <3>2. /\ lastClient' = r.id /\ risks \cup RisksOf(r, ok) \subseteq risks'
          /\ asks' = asks \/ asks' = asks \cup {r}
      BY <1>5, AttemptFacts
    <3> QED
      BY <3>1, <3>2
  <2>2. LastInv'
    BY <2>1 DEF Overtakes, If
  <2>3. CASE clients' = Without(Kicked(r, ok))
    BY <2>1, <2>2, <2>3, ClientFacts, ConnectAssumption
  <2>4. ASSUME NEW s \in Slots, Joins(r, ok, s)
        PROVE  OwnSteamID'
    <3>1. ASSUME NEW t \in Slots, clients'[t].id \in SteamIDs
          PROVE  clients'[t].steamID = clients'[t].id \/ "overtaken" \in risks'
      <4>1. CASE t = s
        BY <2>4, <4>1 DEF Joins
      <4>2. CASE t # s /\ t \notin Kicked(r, ok)
        BY <2>1, <2>4, <3>1, <4>2 DEF Joins
      <4>3. CASE t # s /\ t \in Kicked(r, ok)
        <5> DEFINE in == [Without(Kicked(r, ok)) EXCEPT ![s] =
                           [id |-> r.id, steamID |-> lastClient', verified |-> FALSE]]
        <5>1. in \in [Slots -> Clients] /\ r.id \in SteamIDs
          BY <2>1, CallTypes, AttemptTypes DEF Clients
        <5>2. clients' = IF ok THEN in ELSE Told(in, r.id, "ok")
          BY <2>4 DEF Joins, Accept
        <5>3. in[t].id = NONE
          BY <4>3, <5>1, ClientFacts, CallTypes, AttemptTypes
        <5> HIDE DEF in
        <5>4. clients'[t].id = NONE
          BY <5>1, <5>2, <5>3, ClientFacts
        <5> QED
          BY <3>1, <5>4, ConnectAssumption
      <4> QED
        BY <4>1, <4>2, <4>3
    <3> QED
      BY <3>1
  <2> QED
    BY <1>5, <2>2, <2>3, <2>4, AttemptFacts
<1>6. ASSUME NEW r \in Requests,
             DecideNothing(r) \/ DecideReject(r) \/ \E early \in BOOLEAN : DecideRefused(r, early)
      PROVE  OwnSteamID' /\ LastInv'
  BY <1>6 DEF DecideNothing, DecideReject, DecideRefused, Decide
<1>7. ASSUME NEW r \in Requests, NEW s \in Slots, DecideAccept(r, s)
      PROVE  OwnSteamID' /\ LastInv'
  <2> DEFINE in     == [clients EXCEPT ![s] = [id |-> r.id, steamID |-> lastClient, verified |-> FALSE]]
             answer == Replayed(storage[r.id])
  <2>1. /\ in \in [Slots -> Clients] /\ answer \in {"no", "ok", "bad"} /\ r.id \in SteamIDs
        /\ clients' = Told(in, r.id, answer)
        /\ UNCHANGED <<risks, lastClient>> /\ r \in asks /\ asks' = asks \ {r}
    BY <1>7, DecideAcceptFacts
  <2>2. in[s].steamID = lastClient /\ in[s].id = r.id /\ \A t \in Slots \ {s} : in[t] = clients[t]
    BY DEF TypeOK
  <2> HIDE DEF in, answer
  <2>3. ASSUME NEW t \in Slots
        PROVE  /\ clients'[t].id \in {in[t].id, NONE}
               /\ clients'[t].id # NONE => clients'[t].steamID = in[t].steamID
    <3>1. CASE t \in OutBy(in, r.id, answer)
      BY <2>1, <3>1, ClientFacts
    <3>2. CASE t \notin OutBy(in, r.id, answer)
      BY <2>1, <3>2, ClientFacts
    <3> QED
      BY <3>1, <3>2
  <2> QED
    BY <2>1, <2>2, <2>3, ConnectAssumption
<1>8. ASSUME NEW x \in SteamIDs, NEW reply \in {"ok", "legal", "illegal"}, SteamAnswers(x, reply)
      PROVE  OwnSteamID' /\ LastInv'
  <2>1. PICK answer \in {"ok", "bad"} :
          clients' = Told(clients, x, answer) /\ UNCHANGED <<risks, lastClient, asks>>
    BY <1>8 DEF SteamAnswers
  <2>2. \A t \in Slots : /\ clients'[t].id \in {clients[t].id, NONE}
                         /\ clients'[t].id # NONE => clients'[t].steamID = clients[t].steamID
    <3> SUFFICES ASSUME NEW t \in Slots
                 PROVE  /\ clients'[t].id \in {clients[t].id, NONE}
                        /\ clients'[t].id # NONE => clients'[t].steamID = clients[t].steamID
      OBVIOUS
    <3>0. clients \in [Slots -> Clients]
      BY DEF TypeOK, Clients
    <3>1. clients \in [Slots -> Clients] /\ clients' = Told(clients, x, answer) /\ answer \in {"no", "ok", "bad"}
      BY <2>1, <3>0
    <3>2. CASE t \in OutBy(clients, x, answer)
      BY <3>1, <3>2, ClientFacts
    <3>3. CASE t \notin OutBy(clients, x, answer)
      BY <3>1, <3>3, ClientFacts
    <3> QED
      BY <3>2, <3>3
  <2> QED
    BY <2>1, <2>2, ConnectAssumption
<1>9. CASE UNCHANGED vars
  BY <1>9 DEF vars
<1> QED
  BY <1>1, <1>2, <1>3, <1>4, <1>5, <1>6, <1>7, <1>8, <1>9 DEF Next

(* Forgetting the SteamIDs of slots together with their records keeps the two in step. *)
LEMMA ForgetKeepsMatch ==
  ASSUME TypeOK, MatchInv, NEW S \in SUBSET Slots, Forget(S), risks \subseteq risks',
         \A x \in SteamIDs : storage'[x] = NONE
           \/ /\ x \notin ForgottenBy(S) /\ storage[x] # NONE
              /\ storage'[x].client = storage[x].client,
         \A s \in Slots \ S : clients'[s].id = clients[s].id \/ slotSteamID[s] = NONE
  PROVE  MatchInv'
<1> SUFFICES ASSUME "kick" \notin risks'
             PROVE  /\ \A s \in Slots : slotSteamID'[s] # NONE => clients'[s].id = slotSteamID'[s]
                    /\ \A x \in SteamIDs : storage'[x] # NONE /\ storage'[x].client # NONE
                         => slotSteamID'[storage'[x].client] = x
  BY DEF MatchInv
<1>1. /\ \A s \in Slots : slotSteamID[s] # NONE => clients[s].id = slotSteamID[s]
      /\ \A x \in SteamIDs :
           storage[x] # NONE /\ storage[x].client # NONE => slotSteamID[storage[x].client] = x
  BY DEF MatchInv
<1>2. \A s \in Slots : slotSteamID'[s] = IF s \in S THEN NONE ELSE slotSteamID[s]
  BY DEF Forget
<1>3. ASSUME NEW s \in Slots, slotSteamID'[s] # NONE
      PROVE  clients'[s].id = slotSteamID'[s]
  BY <1>1, <1>2, <1>3
<1>4. ASSUME NEW x \in SteamIDs, storage'[x] # NONE, storage'[x].client # NONE
      PROVE  slotSteamID'[storage'[x].client] = x
  <2> DEFINE t == storage[x].client
  <2>1. /\ x \notin ForgottenBy(S) /\ storage'[x].client = t
        /\ storage[x] \in Records
    BY <1>4 DEF TypeOK
  <2>2. t \in Slots /\ slotSteamID[t] = x
    BY <1>1, <1>4, <2>1 DEF Records
  <2>3. t \notin S
    BY <2>1, <2>2 DEF ForgottenBy
  <2> QED
    BY <1>2, <2>1, <2>2, <2>3
<1> QED
  BY <1>3, <1>4

(* Nobody leaves: nothing is forgotten. *)
LEMMA NobodyLeaves ==
  ASSUME TypeOK
  PROVE  /\ Without({}) = clients /\ StoredAfter({}) = storage /\ ForgottenBy({}) = {}
         /\ Forget({}) => slotSteamID' = slotSteamID
BY DEF TypeOK, Without, StoredAfter, ForgottenBy, Forget

(* Clients in records and the SteamIDs of slots stay about who is there. *)
LEMMA MatchStep == TypeOK /\ MatchInv /\ [Next]_vars => MatchInv'
<1> SUFFICES ASSUME TypeOK, MatchInv, [Next]_vars
             PROVE  MatchInv'
  OBVIOUS
<1>1. CASE RejectStranger
  BY <1>1 DEF MatchInv, RejectStranger, Risk
<1>2. CASE SteamChanges
  BY <1>2 DEF MatchInv, SteamChanges, Risk
<1>3. ASSUME NEW s \in Slots, ConnectRelay(s)
      PROVE  MatchInv'
  <2>1. \A t \in Slots \ {s} : clients'[t] = clients[t]
    BY <1>3 DEF ConnectRelay, TypeOK
  <2>2. CASE "kick" \in risks
    BY <1>3, <2>2 DEF MatchInv, ConnectRelay, Risk
  <2>3. CASE "kick" \notin risks
    <3>1. slotSteamID[s] = NONE
      BY <1>3, <2>3, ClientFacts DEF MatchInv, ConnectRelay
    <3> QED
      BY <1>3, <2>1, <3>1 DEF MatchInv, ConnectRelay, Risk
  <2> QED
    BY <2>2, <2>3
<1>4. ASSUME NEW s \in Slots, Leave(s)
      PROVE  MatchInv'
  <2>1. /\ Forget({s}) /\ risks' = risks /\ storage' = StoredAfter({s})
        /\ clients' = Without({s})
    BY <1>4 DEF Leave
  <2>2. \A x \in SteamIDs : storage'[x] = NONE \/ (x \notin ForgottenBy({s}) /\ storage'[x] = storage[x])
    BY <2>1 DEF StoredAfter
  <2>3. \A t \in Slots \ {s} : clients'[t] = clients[t]
    BY <2>1, ClientFacts
  <2> QED
    BY <2>1, <2>2, <2>3, ForgetKeepsMatch
<1>5. ASSUME NEW r \in Requests, NEW ok \in BOOLEAN, ConnectClient(r, ok)
      PROVE  MatchInv'
  <2> SUFFICES ASSUME "kick" \notin risks'
               PROVE  MatchInv'
    BY DEF MatchInv
  <2>1. /\ Kicked(r, ok) = {} /\ "kick" \notin risks /\ r.id \in SteamIDs
        /\ \A y \in SteamIDs \ {r.id} : storage'[y] = storage[y]
    BY <1>5, AttemptFacts, AttemptTypes
  <2>2. /\ \A s \in Slots : slotSteamID[s] # NONE => clients[s].id = slotSteamID[s]
        /\ \A x \in SteamIDs :
             storage[x] # NONE /\ storage[x].client # NONE => slotSteamID[storage[x].client] = x
    BY <2>1 DEF MatchInv
  <2>3. Dropped(r, ok) = [storage EXCEPT ![r.id] = NONE]
    BY <2>1, NobodyLeaves DEF Dropped
  <2>4. Record(r).client = NONE \/ (storage[r.id] # NONE /\ Record(r).client = storage[r.id].client)
    BY DEF Record, Existing
  <2>5. ASSUME clients' = clients, slotSteamID' = slotSteamID,
               storage'[r.id] = NONE \/ storage'[r.id].client \in {NONE, Record(r).client}
        PROVE  MatchInv'
    BY <2>1, <2>2, <2>4, <2>5 DEF MatchInv
  <2>6. CASE Refuse(r, ok)
    <3>1. clients' = clients /\ slotSteamID' = slotSteamID /\ storage'[r.id] = NONE
      BY <2>1, <2>3, <2>6, NobodyLeaves DEF Refuse, TypeOK
    <3> QED
      BY <2>5, <3>1
  <2>7. CASE Park(r, ok)
    <3>1. /\ clients' = clients /\ slotSteamID' = slotSteamID
          /\ storage' = [Dropped(r, ok) EXCEPT ![r.id] = [Record(r) EXCEPT !.failed = ~ ok]]
      BY <2>1, <2>7, NobodyLeaves DEF Park
    <3>2. storage'[r.id].client = Record(r).client
      BY <2>1, <3>1, AttemptTypes DEF Records
    <3> QED
      BY <2>5, <3>1, <3>2
  <2>8. ASSUME NEW early \in BOOLEAN, AcceptRefused(r, ok, early)
        PROVE  MatchInv'
    <3>1. /\ clients' = clients /\ slotSteamID' = slotSteamID
          /\ storage' = [Dropped(r, ok) EXCEPT ![r.id] = AcceptedRecord(r, ok, NONE)]
      BY <2>1, <2>8, NobodyLeaves DEF AcceptRefused
    <3>2. AcceptedRecord(r, ok, NONE).client = NONE
      BY AttemptTypes DEF AcceptedRecord, Records
    <3>3. storage'[r.id].client = NONE
      BY <2>1, <3>1, <3>2, AttemptTypes
    <3> QED
      BY <2>5, <3>1, <3>3
  <2>9. ASSUME NEW s \in Slots, Joins(r, ok, s)
        PROVE  MatchInv'
    <3>1. AcceptedRecord(r, ok, s).client = s
      BY AttemptTypes DEF AcceptedRecord, Records
    <3>2. /\ \A t \in Slots : slotSteamID'[t] = IF t = s THEN r.id ELSE slotSteamID[t]
          /\ storage'[r.id] = AcceptedRecord(r, ok, s)
      BY <2>1, <2>9, AttemptTypes DEF Joins, Accept
    <3>3. \A t \in Slots \ {s} : clients'[t].id = clients[t].id
      BY <2>1, <2>9 DEF Joins
    <3>4. clients'[s].id = r.id /\ slotSteamID[s] = NONE
      BY <2>1, <2>2, <2>9, ClientFacts DEF Joins
    <3>5. \A x \in SteamIDs \ {r.id} : storage[x] # NONE => storage[x].client # s
      BY <2>2, <3>4, ConnectAssumption
    <3>6. ASSUME NEW x \in SteamIDs, storage'[x] # NONE, storage'[x].client # NONE
          PROVE  slotSteamID'[storage'[x].client] = x
      <4>1. CASE x = r.id
        BY <3>1, <3>2, <4>1
      <4>2. CASE x # r.id
        <5>1. storage'[x] = storage[x] /\ storage[x] \in Records
          BY <2>1, <3>6, <4>2 DEF TypeOK
        <5>2. storage[x].client \in Slots \ {s}
          BY <3>5, <3>6, <4>2, <5>1 DEF Records
        <5> QED
          BY <2>2, <3>2, <3>6, <5>1, <5>2
      <4> QED
        BY <4>1, <4>2
    <3> QED
      BY <2>2, <3>2, <3>3, <3>4, <3>6 DEF MatchInv
  <2> QED
    BY <1>5, <2>6, <2>7, <2>8, <2>9, AttemptFacts DEF ConnectClient, Wait, GoAsync
<1>6. ASSUME NEW r \in Requests,
             DecideNothing(r) \/ DecideReject(r) \/ \E early \in BOOLEAN : DecideRefused(r, early)
      PROVE  MatchInv'
  BY <1>6 DEF MatchInv, DecideNothing, DecideReject, DecideRefused, Decide
<1>7. ASSUME NEW r \in Requests, NEW s \in Slots, DecideAccept(r, s)
      PROVE  MatchInv'
  <2> DEFINE in     == [clients EXCEPT ![s] = [id |-> r.id, steamID |-> lastClient, verified |-> FALSE]]
             answer == Replayed(storage[r.id])
             out    == OutBy(in, r.id, answer)
  <2>1. /\ in \in [Slots -> Clients] /\ answer \in {"no", "ok", "bad"} /\ s \in FreeSlots
        /\ r.id \in SteamIDs
        /\ clients' = Told(in, r.id, answer) /\ storage' = StoredAfter(out)
        /\ Forget(out) /\ risks' = risks
    BY <1>7, DecideAcceptFacts
  <2>2. \A t \in Slots \ {s} : in[t] = clients[t]
    BY DEF TypeOK
  <2>3. out \in SUBSET Slots
    BY DEF OutBy
  <2> HIDE DEF in, answer
  <2>4. \A t \in Slots \ out : clients'[t].id = in[t].id
    BY <2>1, ClientFacts
  <2> HIDE DEF out
  <2>5. \A x \in SteamIDs : storage'[x] = NONE \/ (x \notin ForgottenBy(out) /\ storage'[x] = storage[x])
    BY <2>1 DEF StoredAfter
  <2>6. CASE "kick" \in risks
    BY <2>1, <2>6 DEF MatchInv
  <2>7. CASE "kick" \notin risks
    <3>1. slotSteamID[s] = NONE
      BY <2>1, <2>7, ClientFacts DEF MatchInv
    <3>2. \A t \in Slots \ out : clients'[t].id = clients[t].id \/ slotSteamID[t] = NONE
      BY <2>2, <2>4, <3>1
    <3> QED
      BY <2>1, <2>3, <2>5, <3>2, ForgetKeepsMatch
  <2> QED
    BY <2>6, <2>7
<1>8. ASSUME NEW x \in SteamIDs, NEW reply \in {"ok", "legal", "illegal"}, SteamAnswers(x, reply)
      PROVE  MatchInv'
  <2> DEFINE answer == IF reply = "ok" \/ (reply = "illegal" /\ noSteam) THEN "ok" ELSE "bad"
             out    == OutBy(clients, x, answer)
             kept   == IF storage[x] # NONE /\ storage[x].got = "no"
                         THEN [storage EXCEPT ![x].got = answer] ELSE storage
  <2>1. /\ storage' = [y \in SteamIDs |-> IF y \in ForgottenBy(out) THEN NONE ELSE kept[y]]
        /\ clients' = Told(clients, x, answer)
        /\ Forget(out) /\ risks' = risks
    BY <1>8 DEF SteamAnswers
  <2>2. out \in SUBSET Slots /\ answer \in {"ok", "bad"}
    BY DEF OutBy
  <2>3. ASSUME NEW y \in SteamIDs
        PROVE  kept[y] = NONE \/ (storage[y] # NONE /\ kept[y].client = storage[y].client)
    <3>1. storage \in [SteamIDs -> Records \cup {NONE}]
      BY DEF TypeOK
    <3>2. CASE y = x /\ storage[x] # NONE /\ storage[x].got = "no"
      BY <3>1, <3>2 DEF Records
    <3>3. CASE ~ (y = x /\ storage[x] # NONE /\ storage[x].got = "no")
      BY <3>1, <3>3
    <3> QED
      BY <3>2, <3>3
  <2> HIDE DEF answer, kept
  <2>4. \A t \in Slots \ out : clients'[t].id = clients[t].id
    BY <2>1, <2>2, ClientFacts DEF TypeOK, Clients
  <2> HIDE DEF out
  <2>5. \A y \in SteamIDs : storage'[y] = NONE
           \/ /\ y \notin ForgottenBy(out) /\ storage[y] # NONE
              /\ storage'[y].client = storage[y].client
    BY <2>1, <2>3
  <2> QED
    BY <2>1, <2>2, <2>4, <2>5, ForgetKeepsMatch
<1>9. CASE UNCHANGED vars
  BY <1>9 DEF vars, MatchInv
<1> QED
  BY <1>1, <1>2, <1>3, <1>4, <1>5, <1>6, <1>7, <1>8, <1>9 DEF Next

(* What has gone wrong stays noted. *)
LEMMA RisksGrow == [Next]_vars => risks \subseteq risks'
<1>1. ASSUME NEW r \in Requests, NEW ok \in BOOLEAN, ConnectClient(r, ok)
      PROVE  risks \subseteq risks'
  BY <1>1 DEF ConnectClient, Refuse, Wait, GoAsync, Park, AcceptRefused, Accept, Risk
<1>2. CASE RejectStranger \/ SteamChanges \/ UNCHANGED vars
  BY <1>2 DEF RejectStranger, SteamChanges, Risk, vars
<1>3. ASSUME NEW s \in Slots, ConnectRelay(s) \/ Leave(s)
      PROVE  risks \subseteq risks'
  BY <1>3 DEF ConnectRelay, Leave, Risk
<1>4. ASSUME NEW r \in Requests,
             \/ DecideNothing(r) \/ DecideReject(r)
             \/ \E early \in BOOLEAN : DecideRefused(r, early)
             \/ \E s \in Slots : DecideAccept(r, s)
      PROVE  risks \subseteq risks'
  BY <1>4 DEF DecideNothing, DecideReject, DecideRefused, DecideAccept, Risk
<1>5. ASSUME NEW x \in SteamIDs, NEW reply \in {"ok", "legal", "illegal"}, SteamAnswers(x, reply)
      PROVE  risks \subseteq risks'
  BY <1>5 DEF SteamAnswers
<1> QED
  BY <1>1, <1>2, <1>3, <1>4, <1>5 DEF Next

Clean == risks \cap {"twin", "again", "kick"} = {}

(* Whoever leaves the game does not take the record of an undecided request along. *)
LEMMA UndecidedKept ==
  ASSUME TypeOK, MatchInv, AsksInv, Clean, NEW r \in asks, NEW S \in SUBSET Slots
  PROVE  r.id \notin ForgottenBy(S) /\ r.id \in SteamIDs
<1>1. r.id \in SteamIDs
  BY ConnectAssumption DEF TypeOK
<1>2. ASSUME NEW s \in S
      PROVE  slotSteamID[s] # r.id
  BY <1>1, <1>2, ConnectAssumption DEF MatchInv, AsksInv, Clean
<1> QED
  BY <1>1, <1>2 DEF ForgottenBy

(* An attempt that leaves no trace among the risks: nobody with its SteamID is in the game, *)
(* and a record that is there is that of the same attempt.                                  *)
LEMMA CleanAttempt ==
  ASSUME TypeOK, NEW r \in Requests, NEW ok \in BOOLEAN, ConnectClient(r, ok), Clean'
  PROVE  /\ Clean /\ Kicked(r, ok) = {} /\ r.id \in SteamIDs
         /\ \A s \in Slots : clients[s].id # r.id
         /\ Existing(r) => AsyncWaiting(r)
         /\ Refuse(r, ok) => \A q \in asks : q.id # r.id
         /\ clients' = clients \/ \E s \in Slots : Joins(r, ok, s)
<1>1. risks \cup RisksOf(r, ok) \subseteq risks' /\ (Kicked(r, ok) # {} => "kick" \in risks')
  BY AttemptFacts
<1>2. Clean /\ Kicked(r, ok) = {} /\ r.id \in SteamIDs
  BY <1>1, AttemptTypes DEF Clean
<1>3. If("twin", \E s \in Slots : clients[s].id = r.id) \subseteq risks'
      /\ If("again", Existing(r) /\ ~ AsyncWaiting(r)) \subseteq risks'
  BY <1>1, <1>2 DEF RisksOf
<1>4. (\A s \in Slots : clients[s].id # r.id) /\ (Existing(r) => AsyncWaiting(r))
  BY <1>3 DEF If, Clean
<1>5. Refuse(r, ok) => \A q \in asks : q.id # r.id
  BY DEF Refuse, Risk, If, Clean
<1>6. clients' = clients \/ \E s \in Slots : Joins(r, ok, s)
  BY <1>2, AttemptFacts, NobodyLeaves
<1> QED
  BY <1>2, <1>4, <1>5, <1>6

(* An undecided request keeps its record, and stays the only one of its SteamID. *)
LEMMA AsksStep == TypeOK /\ MatchInv /\ AsksInv /\ [Next]_vars => AsksInv'
<1> SUFFICES ASSUME TypeOK, MatchInv, AsksInv, [Next]_vars, Clean'
             PROVE  \A r \in asks' : /\ AsyncWaiting(r)'
                                     /\ \A q \in asks' : q.id = r.id => q = r
                                     /\ \A s \in Slots : clients'[s].id # r.id
  BY DEF AsksInv, Clean
<1> DEFINE Kept(r) == /\ AsyncWaiting(r)'
                      /\ \A q \in asks' : q.id = r.id => q = r
                      /\ \A s \in Slots : clients'[s].id # r.id
<1>0. /\ Clean
      /\ \A r \in asks : /\ AsyncWaiting(r)
                         /\ \A q \in asks : q.id = r.id => q = r
                         /\ \A s \in Slots : clients[s].id # r.id
                         /\ r.id \in SteamIDs
  BY RisksGrow, ConnectAssumption DEF AsksInv, Clean, TypeOK
<1>1. CASE RejectStranger
  BY <1>0, <1>1 DEF RejectStranger, AsyncWaiting, Existing
<1>2. CASE SteamChanges
  BY <1>0, <1>2 DEF SteamChanges, AsyncWaiting, Existing
<1>3. ASSUME NEW s \in Slots, ConnectRelay(s), NEW r \in asks'
      PROVE  Kept(r)
  <2>1. UNCHANGED <<asks, storage>> /\ \A t \in Slots : clients'[t].id \in {clients[t].id, Relay}
    BY <1>3 DEF ConnectRelay, TypeOK
  <2> QED
    BY <1>0, <1>3, <2>1, ConnectAssumption DEF AsyncWaiting, Existing
<1>4. ASSUME NEW s \in Slots, Leave(s), NEW r \in asks'
      PROVE  Kept(r)
  <2>1. UNCHANGED asks /\ storage' = StoredAfter({s}) /\ clients' = Without({s})
    BY <1>4 DEF Leave
  <2>2. storage'[r.id] = storage[r.id]
    BY <1>0, <1>4, <2>1, UndecidedKept DEF StoredAfter
  <2>3. \A t \in Slots : clients'[t].id \in {clients[t].id, NONE}
    BY <2>1, ClientFacts
  <2>4. r \in asks /\ r.id # NONE /\ \A q \in asks' : q.id = r.id => q = r
    BY <1>0, <1>4, <2>1, ConnectAssumption
  <2>5. AsyncWaiting(r)
    BY <1>0, <2>4
  <2>6. AsyncWaiting(r)'
    BY <2>2, <2>5 DEF AsyncWaiting, Existing
  <2>7. \A t \in Slots : clients'[t].id # r.id
    BY <1>0, <2>3, <2>4
  <2> QED
    BY <2>4, <2>6, <2>7
<1>5. ASSUME NEW r \in Requests, NEW ok \in BOOLEAN, ConnectClient(r, ok), NEW q \in asks'
      PROVE  Kept(q)
  <2>1. /\ Kicked(r, ok) = {} /\ r.id \in SteamIDs
        /\ \A s \in Slots : clients[s].id # r.id
        /\ Existing(r) => AsyncWaiting(r)
        /\ Refuse(r, ok) => \A p \in asks : p.id # r.id
        /\ clients' = clients \/ \E s \in Slots : Joins(r, ok, s)
    BY <1>5, CleanAttempt
  <2>2. /\ \A y \in SteamIDs \ {r.id} : storage'[y] = storage[y]
        /\ asks' = asks \/ (GoAsync(r, ok) /\ asks' = asks \cup {r})
    BY <1>5, <2>1, AttemptFacts
  <2>3. \A s \in Slots : clients'[s].id \in {clients[s].id, r.id}
    BY <2>1 DEF Joins
  <2>4. Park(r, ok) => storage'[r.id] # NONE /\ storage'[r.id].challenge = Record(r).challenge
    <3> SUFFICES ASSUME Park(r, ok)
                 PROVE  storage'[r.id] # NONE /\ storage'[r.id].challenge = Record(r).challenge
      OBVIOUS
    <3>1. [Record(r) EXCEPT !.failed = ~ ok] \in Records
          /\ [Record(r) EXCEPT !.failed = ~ ok].challenge = Record(r).challenge
      BY AttemptTypes DEF Records
    <3>2. storage'[r.id] = [Record(r) EXCEPT !.failed = ~ ok]
      BY <2>1, AttemptTypes DEF Park
    <3> QED
      BY <3>1, <3>2, ConnectAssumption
  <2>5. CASE q \in asks /\ q.id # r.id
    <3>1. AsyncWaiting(q)' /\ \A s \in Slots : clients'[s].id # q.id
      BY <1>0, <2>2, <2>3, <2>5 DEF AsyncWaiting, Existing
    <3>2. \A p \in asks' : p.id = q.id => p = q
      BY <1>0, <2>2, <2>5
    <3> QED
      BY <3>1, <3>2
  <2>6. CASE q \in asks /\ q.id = r.id
    <3>1. Existing(r) /\ AsyncWaiting(r)
      BY <1>0, <2>1, <2>6 DEF AsyncWaiting, Existing
    <3>2. Wait(r, ok)
      BY <1>5, <2>1, <2>6, <3>1 DEF ConnectClient, GoAsync, AcceptRefused, Accept, Accepts
    <3>3. /\ Park(r, ok) /\ asks' = asks /\ clients' = clients
          /\ Record(r) = storage[r.id]
      BY <2>1, <3>1, <3>2, NobodyLeaves DEF Wait, Park, Record
    <3> QED
      BY <1>0, <2>4, <2>6, <3>3 DEF AsyncWaiting, Existing
  <2>7. CASE q \notin asks
    <3>1. GoAsync(r, ok) /\ q = r /\ asks' = asks \cup {r}
      BY <1>5, <2>2, <2>7
    <3>2. Park(r, ok) /\ ~ Existing(r) /\ clients' = clients
      BY <2>1, <3>1, NobodyLeaves DEF GoAsync, Park
    <3>3. Record(r).challenge = r.challenge
      BY <3>2 DEF Record
    <3>4. \A p \in asks : p.id # r.id
      BY <1>0, <3>2 DEF AsyncWaiting, Existing
    <3> QED
      BY <2>1, <2>4, <3>1, <3>2, <3>3, <3>4 DEF AsyncWaiting, Existing
  <2> QED
    BY <2>5, <2>6, <2>7
<1>6. ASSUME NEW r \in Requests,
             DecideNothing(r) \/ DecideReject(r) \/ \E early \in BOOLEAN : DecideRefused(r, early),
             NEW q \in asks'
      PROVE  Kept(q)
  <2>1. asks' \subseteq asks /\ UNCHANGED <<storage, clients>>
    BY <1>6 DEF DecideNothing, DecideReject, DecideRefused, Decide
  <2> QED
    BY <1>0, <1>6, <2>1 DEF AsyncWaiting, Existing
<1>7. ASSUME NEW r \in Requests, NEW s \in Slots, DecideAccept(r, s), NEW q \in asks'
      PROVE  Kept(q)
  <2> DEFINE in     == [clients EXCEPT ![s] = [id |-> r.id, steamID |-> lastClient, verified |-> FALSE]]
             answer == Replayed(storage[r.id])
             out    == OutBy(in, r.id, answer)
  <2>1. /\ in \in [Slots -> Clients] /\ answer \in {"no", "ok", "bad"}
        /\ r.id \in SteamIDs /\ r \in asks
        /\ clients' = Told(in, r.id, answer) /\ storage' = StoredAfter(out)
        /\ asks' = asks \ {r}
    BY <1>7, DecideAcceptFacts
  <2>2. \A t \in Slots : in[t].id \in {clients[t].id, r.id}
    BY DEF TypeOK
  <2>3. out \in SUBSET Slots
    BY DEF OutBy
  <2> HIDE DEF in, answer
  <2>4. \A t \in Slots : clients'[t].id \in {in[t].id, NONE}
    BY <2>1, ClientFacts
  <2> HIDE DEF out
  <2>5. q \in asks /\ q.id # r.id
    BY <1>0, <1>7, <2>1
  <2>6. storage'[q.id] = storage[q.id]
    BY <1>0, <2>1, <2>3, <2>5, UndecidedKept DEF StoredAfter
  <2> QED
    BY <1>0, <2>1, <2>2, <2>4, <2>5, <2>6, ConnectAssumption DEF AsyncWaiting, Existing
<1>8. ASSUME NEW x \in SteamIDs, NEW reply \in {"ok", "legal", "illegal"}, SteamAnswers(x, reply),
             NEW r \in asks'
      PROVE  Kept(r)
  <2> DEFINE answer == IF reply = "ok" \/ (reply = "illegal" /\ noSteam) THEN "ok" ELSE "bad"
             out    == OutBy(clients, x, answer)
             kept   == IF storage[x] # NONE /\ storage[x].got = "no"
                         THEN [storage EXCEPT ![x].got = answer] ELSE storage
  <2>1. /\ storage' = [y \in SteamIDs |-> IF y \in ForgottenBy(out) THEN NONE ELSE kept[y]]
        /\ clients' = Told(clients, x, answer) /\ UNCHANGED asks
    BY <1>8 DEF SteamAnswers
  <2>2. out \in SUBSET Slots /\ answer \in {"ok", "bad"}
    BY DEF OutBy
  <2>3. storage[r.id] # NONE /\ r.id \in SteamIDs
    BY <1>0, <1>8, <2>1 DEF AsyncWaiting, Existing
  <2>4. kept[r.id] # NONE /\ kept[r.id].challenge = storage[r.id].challenge
    <3>1. storage \in [SteamIDs -> Records \cup {NONE}]
      BY DEF TypeOK
    <3>2. CASE r.id = x /\ storage[x].got = "no"
      <4>1. kept[r.id] = [storage[x] EXCEPT !.got = answer]
        BY <2>3, <3>1, <3>2
      <4>2. [storage[x] EXCEPT !.got = answer] \in Records
        BY <2>3, <3>1, <3>2 DEF Records
      <4> QED
        BY <2>3, <3>1, <3>2, <4>1, <4>2, ConnectAssumption DEF Records
    <3>3. CASE ~ (r.id = x /\ storage[x].got = "no")
      BY <2>3, <3>1, <3>3
    <3> QED
      BY <3>2, <3>3
  <2> HIDE DEF answer, kept
  <2>5. ASSUME NEW t \in Slots
        PROVE  clients'[t].id \in {clients[t].id, NONE}
    <3>1. CASE t \in out
      BY <2>1, <2>2, <3>1, ClientFacts DEF TypeOK, Clients
    <3>2. CASE t \notin out
      BY <2>1, <2>2, <3>2, ClientFacts DEF TypeOK, Clients
    <3> QED
      BY <3>1, <3>2
  <2> HIDE DEF out
  <2>6. storage'[r.id] = kept[r.id]
    BY <1>0, <1>8, <2>1, <2>2, <2>3, UndecidedKept
  <2> QED
    BY <1>0, <1>8, <2>1, <2>3, <2>4, <2>5, <2>6, ConnectAssumption DEF AsyncWaiting, Existing
<1>9. CASE UNCHANGED vars
  BY <1>0, <1>9 DEF vars, AsyncWaiting, Existing
<1> QED
  BY <1>1, <1>2, <1>3, <1>4, <1>5, <1>6, <1>7, <1>8, <1>9 DEF Next

(* The record of an attempt that is parked, and its session: only without Steam is it kept *)
(* although the ticket was not taken.                                                       *)
LEMMA ParkedSession ==
  ASSUME TypeOK, NEW r \in Requests, NEW ok \in BOOLEAN, Kicked(r, ok) = {}, ok \/ noSteam
  PROVE  /\ ok => SessionsAfter(r, ok)[r.id] = "waiting"
         /\ Park(r, ok) => storage'[r.id].failed = ~ ok
<1>1. r.id \in SteamIDs /\ EndedFirst(r) \in Sessions
  BY AttemptTypes, CallTypes DEF EndedFirst, TypeOK, Sessions
<1>2. ok => SessionsAfter(r, ok)[r.id] = "waiting"
  BY <1>1 DEF SessionsAfter, Ended, LeftBy, Sessions
<1>3. Park(r, ok) => storage'[r.id] = [Record(r) EXCEPT !.failed = ~ ok]
  BY <1>1, AttemptTypes DEF Park
<1>4. [Record(r) EXCEPT !.failed = ~ ok].failed = ~ ok
  BY AttemptTypes DEF Records
<1> QED
  BY <1>2, <1>3, <1>4

(* A rejection that ends the session of the last attempt, as it may be left set. *)
LEMMA RejectionSession ==
  ASSUME TypeOK, SessionInv, risks = {}, RejectConnection(session), NEW s \in Slots,
         clients[s].id \in SteamIDs
  PROVE  session'[clients[s].id] = session[clients[s].id]
BY DEF SessionInv, RejectConnection, Ended, TypeOK

(* Nobody in the game loses its session, and no answer of Steam is lost. *)
LEMMA SessionStep == IndInv /\ [Next]_vars => SessionInv' /\ AllValidated'
<1> SUFFICES ASSUME IndInv, [Next]_vars, risks' = {}
             PROVE  SessionInv' /\ AllValidated'
  BY DEF SessionInv, AllValidated
<1> DEFINE Of(c)       == c.steamID # NONE => c.steamID = c.id
           Single(s)   == \A t \in Slots :
                            clients'[s].id \in SteamIDs /\ clients'[s].id = clients'[t].id => s = t
           Apart       == endAuth' => lastClient' # NONE /\ \A s \in Slots : clients'[s].id # lastClient'
           Answered(r) == storage'[r.id].got = "no" =>
                            IF storage'[r.id].failed THEN noSteam' ELSE session'[r.id] = "waiting"
           Valid(s)    == clients'[s].id \in SteamIDs =>
                            clients'[s].verified \/ session'[clients'[s].id] = "waiting"
<1>a. ASSUME \A s \in Slots : Of(clients'[s]) /\ Single(s) /\ Valid(s), Apart, \A r \in asks' : Answered(r)
      PROVE  SessionInv' /\ AllValidated'
  BY <1>a DEF SessionInv, AllValidated
<1>b. /\ TypeOK /\ risks = {} /\ Clean /\ MatchInv /\ AsksInv
      /\ OwnSteamID /\ AllValidated /\ LastInv /\ SessionInv
  BY RisksGrow DEF IndInv, Clean
<1>c. \A r \in asks : /\ lastClient = r.id /\ AsyncWaiting(r) /\ r.id \in SteamIDs
                      /\ \A q \in asks : q.id = r.id => q = r
                      /\ \A s \in Slots : clients[s].id # r.id
                      /\ storage[r.id].got = "no" =>
                           IF storage[r.id].failed THEN noSteam ELSE session[r.id] = "waiting"
  BY <1>b, ConnectAssumption DEF LastInv, AsksInv, Clean, SessionInv, TypeOK
<1>d. \A s \in Slots :
        /\ Of(clients[s])
        /\ clients[s].id \in SteamIDs => /\ clients[s].steamID = clients[s].id
                                         /\ clients[s].verified \/ session[clients[s].id] = "waiting"
        /\ \A t \in Slots : clients[s].id \in SteamIDs /\ clients[s].id = clients[t].id => s = t
  BY <1>b DEF SessionInv, OwnSteamID, AllValidated
<1>e. endAuth => lastClient # NONE /\ \A s \in Slots : clients[s].id # lastClient
  BY <1>b DEF SessionInv
<1>1. CASE RejectStranger
  <2>1. /\ UNCHANGED <<clients, storage, noSteam, lastClient, asks>> /\ endAuth' = FALSE
        /\ RejectConnection(session) /\ Overtakes(NONE) = {}
    BY <1>1 DEF RejectStranger, RejectConnection, Risk
  <2>2. asks = {}
    BY <2>1, <1>c, ConnectAssumption DEF Overtakes, If
  <2>3. \A s \in Slots : Valid(s)
    BY <1>b, <1>d, <2>1, RejectionSession
  <2> QED
    BY <1>a, <1>d, <2>1, <2>2, <2>3
<1>2. CASE SteamChanges
  <2>1. /\ UNCHANGED <<clients, storage, session, lastClient, asks, endAuth>> /\ noSteam' = ~ noSteam
        /\ If("logon", noSteam /\ \E r \in asks : storage[r.id] # NONE /\ storage[r.id].failed) = {}
    BY <1>2 DEF SteamChanges, Risk
  <2>2. \A r \in asks : noSteam => ~ storage[r.id].failed
    BY <1>c, <2>1 DEF If, AsyncWaiting, Existing
  <2>3. \A r \in asks' : Answered(r)
    BY <1>b, <1>c, <2>1, <2>2 DEF TypeOK
  <2> QED
    BY <1>a, <1>d, <1>e, <2>1, <2>3
<1>3. ASSUME NEW s \in Slots, ConnectRelay(s)
      PROVE  SessionInv' /\ AllValidated'
  <2>1. /\ UNCHANGED <<lastClient, asks, session, storage, noSteam>>
        /\ clients' = [clients EXCEPT ![s] =
             [id |-> Relay, steamID |-> IF suppress THEN lastClient ELSE NONE, verified |-> FALSE]]
        /\ ~ suppress /\ endAuth' = (endAuth /\ ~ suppress)
    BY <1>3 DEF ConnectRelay, Risk, If
  <2>2. /\ \A t \in Slots \ {s} : clients'[t] = clients[t]
        /\ clients'[s].id = Relay /\ clients'[s].steamID = NONE
    BY <1>b, <2>1 DEF TypeOK
  <2>3. Apart
    BY <1>b, <1>e, <2>1, <2>2, ConnectAssumption DEF TypeOK
  <2> QED
    BY <1>a, <1>c, <1>d, <2>1, <2>2, <2>3, ConnectAssumption
<1>4. ASSUME NEW s \in Slots, Leave(s)
      PROVE  SessionInv' /\ AllValidated'
  <2>1. /\ UNCHANGED <<endAuth, lastClient, asks, noSteam>> /\ storage' = StoredAfter({s})
        /\ clients' = Without({s}) /\ session' = Ended(session, {clients[s].steamID})
    BY <1>4 DEF Leave, LeftBy
  <2>2. \A t \in Slots : clients'[t] = IF t = s THEN NoClient ELSE clients[t]
    BY <1>b, <2>1, ClientFacts
  <2>3. NoClient.id = NONE /\ NoClient.steamID = NONE
    BY DEF NoClient
  <2>4. \A y \in SteamIDs : y # clients[s].steamID => session'[y] = session[y]
    BY <2>1 DEF Ended
  <2>5. ASSUME NEW r \in asks'
        PROVE  Answered(r)
    <3>1. r \in asks /\ storage'[r.id] = storage[r.id]
      BY <1>b, <1>c, <2>1, UndecidedKept DEF StoredAfter
    <3>2. r.id # clients[s].steamID
      BY <1>c, <1>d, <3>1, ConnectAssumption
    <3> QED
      BY <1>c, <2>1, <2>4, <3>1, <3>2
  <2>6. ASSUME NEW t \in Slots
        PROVE  Valid(t)
    <3>1. CASE t = s
      BY <2>2, <2>3, <3>1, ConnectAssumption
    <3>2. CASE t # s /\ clients[t].id \in SteamIDs
      <4>1. clients[t].id # clients[s].steamID
        BY <1>d, <3>2, ConnectAssumption
      <4> QED
        BY <1>d, <2>2, <2>4, <3>2, <4>1
    <3> QED
      BY <2>2, <3>1, <3>2
  <2>7. Apart
    BY <1>e, <2>1, <2>2, <2>3
  <2>8. \A t \in Slots : Of(clients'[t]) /\ Single(t)
    BY <1>d, <2>2, <2>3, ConnectAssumption
  <2> QED
    BY <1>a, <2>5, <2>6, <2>7, <2>8
<1>5. ASSUME NEW r \in Requests, NEW ok \in BOOLEAN, ConnectClient(r, ok)
      PROVE  SessionInv' /\ AllValidated'
  <2>1. /\ Kicked(r, ok) = {} /\ r.id \in SteamIDs
        /\ \A s \in Slots : clients[s].id # r.id
        /\ Existing(r) => AsyncWaiting(r)
        /\ Refuse(r, ok) => \A q \in asks : q.id # r.id
        /\ clients' = clients \/ \E s \in Slots : Joins(r, ok, s)
    BY <1>5, <1>b, CleanAttempt DEF Clean
  <2>2. /\ \A y \in SteamIDs \ {r.id} : storage'[y] = storage[y] /\ session'[y] = session[y]
        /\ asks' = asks \/ (GoAsync(r, ok) /\ asks' = asks \cup {r})
        /\ lastClient' = r.id /\ noSteam' = noSteam
        /\ \A s \in Slots : Accept(r, ok, s) => Joins(r, ok, s)
    BY <1>5, <1>b, <2>1, AttemptFacts
  <2>3. \A q \in asks : q.id = r.id
    <3>1. Overtakes(r.id) = {}
      <4>1. RisksOf(r, ok) = {}
        BY <1>5, <1>b, AttemptFacts
      <4> QED
        BY <4>1 DEF RisksOf
    <3> QED
      BY <3>1 DEF Overtakes, If
  <2>4. \A q \in asks' : q.id = r.id
    BY <2>2, <2>3
  <2>5. \A q \in asks : Existing(r) /\ AsyncWaiting(r)
    BY <1>c, <2>1, <2>3 DEF AsyncWaiting, Existing
  <2>6. asks' # {} => Park(r, ok)
    <3>1. asks # {} => Wait(r, ok)
      BY <1>5, <2>1, <2>3, <2>5 DEF ConnectClient, GoAsync, AcceptRefused, Accept, Accepts
    <3>2. asks = {} /\ asks' # {} => GoAsync(r, ok)
      BY <2>2
    <3> QED
      BY <3>1, <3>2 DEF Wait, GoAsync
  <2>7. Park(r, ok) => \A q \in asks' : Answered(q)
    <3> SUFFICES ASSUME Park(r, ok), NEW q \in asks'
                 PROVE  Answered(q)
      OBVIOUS
    <3>1. (ok \/ noSteam) /\ session' = SessionsAfter(r, ok)
      BY DEF Park, Goes
    <3> QED
      BY <1>b, <2>1, <2>2, <2>4, <3>1, ParkedSession
  <2>8. CASE clients' = clients
    <3>1. \A s \in Slots : Of(clients'[s]) /\ Single(s)
      BY <1>d, <2>8
    <3>2. \A s \in Slots : Valid(s)
      BY <1>d, <2>1, <2>2, <2>8
    <3>3. Apart
      BY <2>1, <2>2, <2>8, ConnectAssumption
    <3> QED
      BY <1>a, <2>6, <2>7, <3>1, <3>2, <3>3
  <2>9. ASSUME NEW s \in Slots, Joins(r, ok, s)
        PROVE  SessionInv' /\ AllValidated'
    <3>1. /\ clients'[s].id = r.id /\ clients'[s].steamID = r.id
          /\ \A t \in Slots \ {s} :
               /\ clients'[t].id = clients[t].id /\ clients'[t].steamID = clients[t].steamID
               /\ clients[t].verified => clients'[t].verified
          /\ Accept(r, ok, s)
      BY <2>1, <2>9 DEF Joins
    <3>2. endAuth' = FALSE /\ session' = SessionsAfter(r, ok) /\ (ok \/ noSteam)
      BY <3>1 DEF Accept, Accepts, Goes
    <3>3. \A t \in Slots : Of(clients'[t]) /\ Single(t)
      BY <1>d, <2>1, <3>1
    <3>4. Valid(s)
      <4>1. CASE ok
        BY <1>b, <2>1, <3>1, <3>2, <4>1, ParkedSession
      <4>2. CASE ~ ok
        <5> DEFINE in == [Without(Kicked(r, ok)) EXCEPT ![s] =
                           [id |-> r.id, steamID |-> lastClient', verified |-> FALSE]]
        <5>1. in \in [Slots -> Clients] /\ in[s].steamID = r.id
          BY <1>b, <2>1, <2>2, CallTypes DEF Clients
        <5>2. clients' = Told(in, r.id, "ok")
          BY <3>1, <4>2 DEF Accept
        <5> HIDE DEF in
        <5>3. clients'[s].verified
          <6>1. s \in Slots /\ r.id \in SteamIDs /\ TypeOK
            BY <1>b, <2>1
          <6>2. CASE s \in OutBy(in, r.id, "ok")
            BY <5>1, <6>1, <6>2, ClientFacts
          <6>3. CASE s \notin OutBy(in, r.id, "ok")
            <7>1. Told(in, r.id, "ok")[s].verified = (in[s].verified \/ in[s].steamID = r.id)
              BY <5>1, <6>1, <6>3, ClientFacts
            <7> QED
              BY <5>1, <5>2, <7>1
          <6> QED
            BY <6>2, <6>3
        <5> QED
          BY <5>3
      <4> QED
        BY <4>1, <4>2
    <3>5. \A t \in Slots \ {s} : Valid(t)
      BY <1>d, <2>1, <2>2, <3>1
    <3> QED
      BY <1>a, <2>6, <2>7, <3>2, <3>3, <3>4, <3>5
  <2> QED
    BY <2>1, <2>8, <2>9
<1>6. ASSUME NEW r \in Requests,
             DecideNothing(r) \/ DecideReject(r) \/ \E early \in BOOLEAN : DecideRefused(r, early)
      PROVE  SessionInv' /\ AllValidated'
  <2>1. /\ UNCHANGED <<clients, storage, noSteam, lastClient>> /\ r \in asks /\ asks' = asks \ {r}
        /\ \/ UNCHANGED <<session, endAuth>>
           \/ endAuth' = FALSE /\ (UNCHANGED session \/ RejectConnection(session))
    BY <1>6 DEF DecideNothing, DecideReject, DecideRefused, Decide, RejectConnection
  <2>2. asks' = {}
    BY <1>c, <2>1
  <2>3. \A s \in Slots : Valid(s)
    BY <1>b, <1>d, <2>1, RejectionSession
  <2>4. Apart
    BY <1>e, <2>1
  <2> QED
    BY <1>a, <1>d, <2>1, <2>2, <2>3, <2>4
<1>7. ASSUME NEW r \in Requests, NEW s \in Slots, DecideAccept(r, s)
      PROVE  SessionInv' /\ AllValidated'
  <2> DEFINE in     == [clients EXCEPT ![s] = [id |-> r.id, steamID |-> lastClient, verified |-> FALSE]]
             answer == Replayed(storage[r.id])
             out    == OutBy(in, r.id, answer)
  <2>1. /\ in \in [Slots -> Clients] /\ answer \in {"no", "ok", "bad"}
        /\ r.id \in SteamIDs /\ r \in asks
        /\ clients' = Told(in, r.id, answer) /\ session' = Ended(session, If(r.id, out # {}))
        /\ asks' = asks \ {r} /\ endAuth' = FALSE
    BY <1>7, <1>b, DecideAcceptFacts DEF DecideAccept
  <2>2. /\ in[s].id = r.id /\ in[s].steamID = r.id
        /\ \A t \in Slots \ {s} : in[t] = clients[t]
    BY <1>b, <1>c, <2>1 DEF TypeOK
  <2>3. asks' = {}
    BY <1>c, <2>1
  <2>4. answer = "no" => session[r.id] = "waiting"
    BY <1>c, <2>1 DEF Replayed
  <2>5. answer # "bad" => out = {}
    BY DEF OutBy
  <2>6. \A y \in SteamIDs \ {r.id} : session'[y] = session[y]
    BY <2>1 DEF Ended, If
  <2>7. out = {} => session'[r.id] = session[r.id]
    BY <2>1 DEF Ended, If
  <2> HIDE DEF in, answer
  <2>8. ASSUME NEW t \in Slots
        PROVE  IF t \in out THEN clients'[t] = NoClient
               ELSE /\ clients'[t].id = in[t].id /\ clients'[t].steamID = in[t].steamID
                    /\ clients'[t].verified = (in[t].verified \/ (answer = "ok" /\ in[t].steamID = r.id))
                    /\ answer = "bad" => in[t].steamID # r.id
    <3>1. CASE t \in out
      BY <1>b, <2>1, <3>1, ClientFacts
    <3>2. CASE t \notin out
      BY <1>b, <2>1, <3>2, ClientFacts
    <3> QED
      BY <3>1, <3>2
  <2> HIDE DEF out
  <2>9. NoClient.id = NONE /\ NoClient.steamID = NONE
    BY DEF NoClient
  <2>10. \A t \in Slots : Of(clients'[t]) /\ Single(t)
    <3>1. \A t \in Slots : Of(in[t])
      BY <1>d, <2>2
    <3>2. \A t, u \in Slots : in[t].id \in SteamIDs /\ in[t].id = in[u].id => t = u
      BY <1>c, <1>d, <2>1, <2>2
    <3> QED
      BY <2>8, <2>9, <3>1, <3>2, ConnectAssumption
  <2>11. Valid(s)
    BY <2>1, <2>2, <2>4, <2>5, <2>7, <2>8, <2>9, ConnectAssumption
  <2>12. ASSUME NEW t \in Slots \ {s}
         PROVE  Valid(t)
    <3> SUFFICES ASSUME clients'[t].id \in SteamIDs
                 PROVE  clients'[t].verified \/ session'[clients'[t].id] = "waiting"
      OBVIOUS
    <3>1. t \notin out /\ clients'[t].id = clients[t].id
      BY <2>2, <2>8, <2>9, ConnectAssumption
    <3>2. session'[clients[t].id] = session[clients[t].id]
      BY <1>c, <2>1, <2>6, <3>1
    <3>3. clients[t].verified => clients'[t].verified
      BY <2>2, <2>8, <3>1
    <3> QED
      BY <1>d, <3>1, <3>2, <3>3
  <2> QED
    BY <1>a, <2>1, <2>3, <2>10, <2>11, <2>12
<1>8. ASSUME NEW x \in SteamIDs, NEW reply \in {"ok", "legal", "illegal"}, SteamAnswers(x, reply)
      PROVE  SessionInv' /\ AllValidated'
  <2> DEFINE answer == IF reply = "ok" \/ (reply = "illegal" /\ noSteam) THEN "ok" ELSE "bad"
             out    == OutBy(clients, x, answer)
             kept   == IF storage[x] # NONE /\ storage[x].got = "no"
                         THEN [storage EXCEPT ![x].got = answer] ELSE storage
  <2>1. /\ storage' = [y \in SteamIDs |-> IF y \in ForgottenBy(out) THEN NONE ELSE kept[y]]
        /\ session' = [session EXCEPT ![x] = IF out = {} THEN "answered" ELSE "none"]
        /\ clients' = Told(clients, x, answer) /\ UNCHANGED <<asks, endAuth, lastClient, noSteam>>
    BY <1>8 DEF SteamAnswers
  <2>2. out \in SUBSET Slots /\ answer \in {"ok", "bad"}
    BY DEF OutBy
  <2>3. storage \in [SteamIDs -> Records \cup {NONE}] /\ \A y \in SteamIDs \ {x} : session'[y] = session[y]
    BY <1>b, <2>1 DEF TypeOK
  <2>4. ASSUME NEW r \in asks
        PROVE  IF r.id = x THEN kept[x].got # "no" ELSE kept[r.id] = storage[r.id]
    <3>1. storage[r.id] \in Records /\ r.id \in SteamIDs
      BY <1>c, <2>3 DEF AsyncWaiting, Existing
    <3> QED
      BY <2>2, <2>3, <3>1, ConnectAssumption DEF Records
  <2> HIDE DEF answer, kept
  <2>5. ASSUME NEW t \in Slots
        PROVE  IF t \in out THEN clients'[t] = NoClient
               ELSE /\ clients'[t].id = clients[t].id /\ clients'[t].steamID = clients[t].steamID
                    /\ clients'[t].verified = (clients[t].verified \/ (answer = "ok" /\ clients[t].steamID = x))
                    /\ answer = "bad" => clients[t].steamID # x
    <3>1. CASE t \in out
      BY <1>b, <2>1, <2>2, <3>1, ClientFacts DEF TypeOK, Clients
    <3>2. CASE t \notin out
      BY <1>b, <2>1, <2>2, <3>2, ClientFacts DEF TypeOK, Clients
    <3> QED
      BY <3>1, <3>2
  <2> HIDE DEF out
  <2>6. \A r \in asks' : Answered(r)
    <3> SUFFICES ASSUME NEW r \in asks
                 PROVE  Answered(r)
      BY <2>1
    <3>1. storage'[r.id] = kept[r.id]
      BY <1>b, <1>c, <2>1, <2>2, UndecidedKept
    <3>2. CASE r.id = x
      BY <2>4, <3>1, <3>2
    <3>3. CASE r.id # x
      BY <1>c, <2>1, <2>3, <2>4, <3>1, <3>3
    <3> QED
      BY <3>2, <3>3
  <2>7. NoClient.id = NONE /\ NoClient.steamID = NONE
    BY DEF NoClient
  <2>8. \A t \in Slots : Of(clients'[t]) /\ Single(t)
    BY <1>d, <2>5, <2>7, ConnectAssumption
  <2>9. ASSUME NEW t \in Slots
        PROVE  Valid(t)
    <3> SUFFICES ASSUME clients'[t].id \in SteamIDs
                 PROVE  clients'[t].verified \/ session'[clients'[t].id] = "waiting"
      OBVIOUS
    <3>1. t \notin out /\ clients'[t].id = clients[t].id
      BY <2>5, <2>7, ConnectAssumption
    <3>2. CASE clients[t].id = x
      BY <1>d, <2>2, <2>5, <3>1, <3>2
    <3>3. CASE clients[t].id # x
      <4>1. clients[t].verified => clients'[t].verified
        BY <2>5, <3>1
      <4> QED
        BY <1>d, <2>3, <3>1, <3>3, <4>1
    <3> QED
      BY <3>2, <3>3
  <2>10. Apart
    BY <1>e, <2>1, <2>5, <2>7
  <2> QED
    BY <1>a, <2>6, <2>8, <2>9, <2>10
<1>9. CASE UNCHANGED vars
  BY <1>a, <1>c, <1>d, <1>e, <1>9 DEF vars
<1> QED
  BY <1>1, <1>2, <1>3, <1>4, <1>5, <1>6, <1>7, <1>8, <1>9 DEF Next

(* The inductive invariant holds initially, and every step keeps it. *)
LEMMA InitInv == Init => IndInv
<1> SUFFICES ASSUME Init
             PROVE  IndInv
  OBVIOUS
<1>1. TypeOK
  BY DEF Init, TypeOK, NoClient
<1>2. \A s \in Slots : clients[s].id = NONE /\ clients[s].steamID = NONE /\ slotSteamID[s] = NONE
  BY DEF Init, NoClient
<1>3. OwnSteamID /\ AllValidated /\ LastInv /\ AsksInv
  BY <1>2, ConnectAssumption DEF Init, OwnSteamID, AllValidated, LastInv, AsksInv
<1>4. MatchInv /\ SessionInv
  BY <1>2, ConnectAssumption DEF Init, MatchInv, SessionInv
<1> QED
  BY <1>1, <1>3, <1>4 DEF IndInv

LEMMA StepInv == IndInv /\ [Next]_vars => IndInv'
BY TypeStep, OwnStep, MatchStep, AsksStep, SessionStep DEF IndInv

(* IndInv is an invariant: whatever the players, Steam and the plugin do. *)
THEOREM Invariance == Spec => []IndInv
BY InitInv, StepInv, PTL DEF Spec

(* Every variable stays in its domain. *)
THEOREM TypeCorrect == Spec => []TypeOK
<1>1. IndInv => TypeOK
  BY DEF IndInv
<1> QED
  BY Invariance, <1>1, PTL

(* A player plays under the SteamID whose ticket it showed, or another attempt came while   *)
(* the plugin was undecided.                                                                *)
THEOREM OwnIdentity == Spec => []OwnSteamID
<1>1. IndInv => OwnSteamID
  BY DEF IndInv
<1> QED
  BY Invariance, <1>1, PTL

(* Every player in the game was verified or Steam has yet to answer for it, as long as none *)
(* of the risks was taken.                                                                  *)
THEOREM Validated == Spec => []AllValidated
<1>1. IndInv => AllValidated
  BY DEF IndInv
<1> QED
  BY Invariance, <1>1, PTL

(* A record with a client, and the SteamID kept for a slot, are about who is in the slot,   *)
(* if no one was kicked.                                                                    *)
THEOREM RecordsMatch == Spec => []RecordsMatchClients
<1>1. IndInv => RecordsMatchClients
  <2> SUFFICES ASSUME IndInv, "kick" \notin risks, NEW x \in SteamIDs, NEW s \in Slots,
                      slotSteamID[s] = x \/ (storage[x] # NONE /\ storage[x].client = s)
               PROVE  clients[s].id = x
    BY DEF RecordsMatchClients
  <2> QED
    BY ConnectAssumption DEF IndInv, MatchInv
<1> QED
  BY Invariance, <1>1, PTL

(* An undecided request has its record, with its challenge. *)
THEOREM Recorded == Spec => []UndecidedRecorded
<1>1. IndInv => UndecidedRecorded
  BY DEF IndInv, AsksInv, UndecidedRecorded
<1> QED
  BY Invariance, <1>1, PTL
=============================================================================
