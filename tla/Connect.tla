------------------------------- MODULE Connect -------------------------------
(***************************************************************************)
(* The connect extension (extension.cpp): whether a player may connect is  *)
(* decided by a plugin, at once or later (asynchronously).  A detour of    *)
(* the engine's ConnectClient begins the player's Steam session and asks   *)
(* the plugin; what is needed to go on later is kept in a record per       *)
(* SteamID.  Everything runs on the game thread: an action is one detour,  *)
(* native or event with all it calls.  Between the steps of one connection *)
(* those of others happen, which share three global variables.             *)
(***************************************************************************)
EXTENDS Naturals, FiniteSets

CONSTANTS
  SteamIDs,
  Requests,  \* what players send: an ip, a challenge (another at each manual retry), a SteamID
  Slots,
  NONE

VARIABLES
  storage,      \* g_ConnectClientStorage
  endAuth,      \* g_bEndAuthSessionOnRejectConnection
  lastClient,   \* g_lastClientSteamID
  suppress,     \* g_bSuppressCheckChallengeType
  slotSteamID,  \* g_ClientSteamIDMap
  noSteam,      \* sv_nosteam is set, or the server is not logged on to Steam
  clients,      \* (engine) who is in a slot, under which SteamID, and whether it was verified
  session,      \* (Steam) the session of a SteamID: "none", "waiting" for an answer, "answered"
  asks,         \* (plugin) the requests it has yet to decide
  risks         \* (history) what has happened that voids a promise; no action reads it:
                \*   "overtaken": another connection attempt while the plugin was undecided
                \*   "twin":      a player connects while a client with its SteamID is there
                \*   "again":     a manual retry replaced a record, or a refused player's record went
                \*   "kick":      a client was kicked for a newcomer with its SteamID
                \*   "proxy":     a proxy was let in as if it were a player
                \*   "logon":     Steam came back between a failed ticket and the decision

vars == <<storage, endAuth, lastClient, suppress, slotSteamID, noSteam, clients, session, asks, risks>>

Ips        == {r.ip : r \in Requests}
Challenges == {r.challenge : r \in Requests}

Records == [ip : Ips, challenge : Challenges, client : Slots \cup {NONE},
            got : {"no", "ok", "bad"}, failed : BOOLEAN]

Relay     == "SourceTV"  \* a proxy, which does not authenticate with Steam

ASSUME ConnectAssumption ==
  /\ \A r \in Requests : {"ip", "challenge", "id"} = DOMAIN r /\ r.id \in SteamIDs
  /\ NONE \notin SteamIDs /\ NONE \notin Slots /\ NONE \notin Records
  /\ Relay \notin SteamIDs /\ Relay # NONE

NoClient  == [id |-> NONE, steamID |-> NONE, verified |-> FALSE]
FreeSlots == {s \in Slots : clients[s] = NoClient}

Init ==
  /\ storage = [x \in SteamIDs |-> NONE]
  /\ endAuth = FALSE /\ lastClient = NONE /\ suppress = FALSE
  /\ slotSteamID = [s \in Slots |-> NONE]
  /\ noSteam \in BOOLEAN
  /\ clients = [s \in Slots |-> NoClient]
  /\ session = [x \in SteamIDs |-> "none"]
  /\ asks = {} /\ risks = {}

-----------------------------------------------------------------------------
(* The calls into the engine and into Steam. *)

(* EndAuthSession *)
Ended(sessions, ids) == [x \in SteamIDs |-> IF x \in ids THEN "none" ELSE sessions[x]]

(* A client leaves: the engine ends its session, PlayerDisconnect its record. *)
Without(S) == [s \in Slots |-> IF s \in S THEN NoClient ELSE clients[s]]

LeftBy(S) == {clients[s].steamID : s \in S}

\* (mutant) the record of the last attempt is dropped
ForgottenByLast(S) == IF S = {} THEN {} ELSE {lastClient}

ForgottenBy(S) == {slotSteamID[s] : s \in S}

\* (mutant) the SteamID of the slot stays
ForgetNothing(S) == UNCHANGED slotSteamID

Forget(S) == slotSteamID' = [s \in Slots |-> IF s \in S THEN NONE ELSE slotSteamID[s]]

StoredAfter(S) == [x \in SteamIDs |-> IF x \in ForgottenBy(S) THEN NONE ELSE storage[x]]

(* The engine's OnValidateAuthTicketResponse, told of an answer for x, verifies or disconnects. *)
OutBy(cs, x, answer) == IF answer = "bad" THEN {s \in Slots : cs[s].steamID = x} ELSE {}

Told(cs, x, answer) ==
  [s \in Slots |-> IF s \in OutBy(cs, x, answer) THEN NoClient
                   ELSE IF answer = "ok" /\ cs[s].steamID = x THEN [cs[s] EXCEPT !.verified = TRUE]
                   ELSE cs[s]]

(* The detour of RejectConnection, in sessions as they are by then. *)
RejectConnection(sessions) ==
  /\ session' = IF endAuth THEN Ended(sessions, {lastClient}) ELSE sessions
  /\ endAuth' = FALSE

Risk(S)     == risks' = risks \cup S
If(kind, p) == IF p THEN {kind} ELSE {}
Overtakes(x) == If("overtaken", \E r \in asks : r.id # x)

(* A rejection that has nothing to do with what went before: a cookie that is too short, or *)
(* a proxy that is refused.                                                                  *)
RejectStranger ==
  /\ RejectConnection(session)
  /\ Risk(Overtakes(NONE))
  /\ UNCHANGED <<storage, lastClient, suppress, slotSteamID, noSteam, clients, asks>>

(* A proxy connects.  CheckChallengeType takes it for an accepted player if suppress is set. *)
ConnectRelay(s) ==
  /\ s \in FreeSlots
  /\ clients' = [clients EXCEPT ![s] =
       [id |-> Relay, steamID |-> IF suppress THEN lastClient ELSE NONE, verified |-> FALSE]]
  /\ endAuth' = (endAuth /\ ~ suppress)
  /\ suppress' = FALSE
  /\ Risk(Overtakes(NONE) \cup If("proxy", suppress))
  /\ UNCHANGED <<storage, lastClient, slotSteamID, noSteam, session, asks>>

Leave(s) ==
  /\ s \notin FreeSlots
  /\ clients' = Without({s})
  /\ storage' = StoredAfter({s})
  /\ session' = Ended(session, LeftBy({s}))
  /\ Forget({s})
  /\ UNCHANGED <<endAuth, lastClient, suppress, noSteam, asks, risks>>
-----------------------------------------------------------------------------
(* The detour of ConnectClient, for players who authenticate with Steam. *)

Existing(r) == storage[r.id] # NONE

\* (mutant) the constructor leaves a field out
RecordUnset(r) == IF Existing(r) THEN storage[r.id]
                  ELSE [ip |-> r.ip, challenge |-> r.challenge, client |-> NONE, got |-> NONE, failed |-> FALSE]

(* retrieve overwrites the new record with the one that is there. *)
Record(r) == IF Existing(r) THEN storage[r.id]
             ELSE [ip |-> r.ip, challenge |-> r.challenge, client |-> NONE, got |-> "no", failed |-> FALSE]

AsyncWaiting(r) == Existing(r) /\ storage[r.id].challenge = r.challenge

(* Another address uses the same SteamID. *)
Rival(r) == Existing(r) /\ ~ AsyncWaiting(r) /\ storage[r.id].ip # r.ip

(* The player who is kicked: ok if Steam took the ticket. *)
Kicked(r, ok) ==
  IF ok /\ Rival(r) /\ Record(r).client # NONE THEN {Record(r).client} \ FreeSlots ELSE {}

InUse(r, ok) == Rival(r) /\ (~ ok \/ Record(r).client = NONE)

EndedFirst(r) == IF Existing(r) THEN Ended(session, {r.id}) ELSE session

(* BeginAuthSession: never ok while there is a session for the SteamID. *)
Begins(r, ok) == ok => EndedFirst(r)[r.id] = "none"

SessionsAfter(r, ok) ==
  Ended(IF ok THEN [EndedFirst(r) EXCEPT ![r.id] = "waiting"] ELSE EndedFirst(r),
        LeftBy(Kicked(r, ok)))

Dropped(r, ok) == [StoredAfter(Kicked(r, ok)) EXCEPT ![r.id] = NONE]

\* (mutant) the SteamID is noted once Steam has taken the ticket
AttemptNoted(r, ok) ==
  /\ Begins(r, ok)
  /\ lastClient' = IF ok THEN r.id ELSE lastClient
  /\ UNCHANGED noSteam

Attempt(r, ok) ==
  /\ Begins(r, ok)
  /\ lastClient' = r.id
  /\ UNCHANGED noSteam

RisksOf(r, ok) ==
  Overtakes(r.id) \cup
  IF Kicked(r, ok) # {} THEN {"kick"}
  ELSE If("twin", \E s \in Slots : clients[s].id = r.id) \cup If("again", Existing(r) /\ ~ AsyncWaiting(r))

(* Refused by Steam, because the SteamID is in use, or by the plugin: the player is told.  *)
Refuse(r, ok) ==
  /\ Attempt(r, ok)
  /\ (~ ok /\ ~ noSteam) \/ ~ AsyncWaiting(r)
  /\ clients' = Without(Kicked(r, ok))
  /\ storage' = Dropped(r, ok)
  /\ session' = Ended(SessionsAfter(r, ok), {r.id}) /\ endAuth' = FALSE
  /\ Forget(Kicked(r, ok))
  /\ Risk(RisksOf(r, ok) \cup If("again", \E q \in asks : q.id = r.id))
  /\ UNCHANGED <<suppress, asks>>

Goes(r, ok) == Attempt(r, ok) /\ (ok \/ noSteam) /\ ~ InUse(r, ok)

(* The record stays, endAuth is left set. *)
Park(r, ok) ==
  /\ Goes(r, ok)
  /\ clients' = Without(Kicked(r, ok))
  /\ storage' = [Dropped(r, ok) EXCEPT ![r.id] = [Record(r) EXCEPT !.failed = ~ ok]]
  /\ session' = SessionsAfter(r, ok)
  /\ endAuth' = TRUE
  /\ Forget(Kicked(r, ok))
  /\ Risk(RisksOf(r, ok))
  /\ UNCHANGED suppress

(* An automatic retry: the plugin is not asked. *)
Wait(r, ok) == AsyncWaiting(r) /\ Park(r, ok) /\ UNCHANGED asks

(* The plugin will decide later. *)
GoAsync(r, ok) == ~ AsyncWaiting(r) /\ Park(r, ok) /\ asks' = asks \cup {r}

Accepts(r, ok) == Goes(r, ok) /\ ~ AsyncWaiting(r) /\ UNCHANGED asks

AcceptedRecord(r, ok, s) ==
  [Record(r) EXCEPT !.failed = ~ ok, !.client = s,
                    !.got = IF ~ ok /\ s # NONE /\ @ = "no" THEN "ok" ELSE @]

(* Accepted, but the engine refuses: before it calls CheckChallengeType (a wrong password, *)
(* no free slot), or after.                                                                *)
AcceptRefused(r, ok, early) ==
  /\ Accepts(r, ok)
  /\ clients' = Without(Kicked(r, ok))
  /\ storage' = [Dropped(r, ok) EXCEPT ![r.id] = AcceptedRecord(r, ok, NONE)]
  /\ session' = IF early THEN Ended(SessionsAfter(r, ok), {r.id}) ELSE SessionsAfter(r, ok)
  /\ endAuth' = FALSE
  /\ suppress' = early
  /\ Forget(Kicked(r, ok))
  /\ Risk(RisksOf(r, ok))

(* Accepted.  A player whose ticket was not taken is told to be validated: the detour      *)
(* answers AuthTicketInvalid, which sv_auth_session_response_legal does not list unless it *)
(* is changed (its default is 0,1,2,3,4,5,7,9), and so it passes on OK.                    *)
Accept(r, ok, s) ==
  /\ Accepts(r, ok)
  /\ s \in FreeSlots \cup Kicked(r, ok)
  /\ LET in == [Without(Kicked(r, ok)) EXCEPT ![s] = [id |-> r.id, steamID |-> lastClient', verified |-> FALSE]]
     IN  clients' = IF ok THEN in ELSE Told(in, r.id, "ok")
  /\ storage' = [Dropped(r, ok) EXCEPT ![r.id] = AcceptedRecord(r, ok, s)]
  /\ session' = SessionsAfter(r, ok)
  /\ slotSteamID' = [t \in Slots |-> IF t = s THEN r.id ELSE IF t \in Kicked(r, ok) THEN NONE ELSE slotSteamID[t]]
  /\ endAuth' = FALSE /\ suppress' = FALSE
  /\ Risk(RisksOf(r, ok))

-----------------------------------------------------------------------------
(* The plugin's late decision: the native ClientPreConnectEx.  It goes by what is stored  *)
(* by then, and has a copy of it.                                                          *)

Decide(r) == r \in asks /\ asks' = asks \ {r} /\ UNCHANGED <<lastClient, noSteam>>

DecideNothing(r) ==
  /\ Decide(r)
  /\ storage[r.id] = NONE
  /\ UNCHANGED <<storage, endAuth, suppress, slotSteamID, clients, session, risks>>

DecideReject(r) ==
  /\ Decide(r)
  /\ storage[r.id] # NONE
  /\ RejectConnection(session)
  /\ UNCHANGED <<storage, suppress, slotSteamID, clients, risks>>

DecideRefused(r, early) ==
  /\ Decide(r)
  /\ storage[r.id] # NONE
  /\ IF early THEN RejectConnection(session) ELSE endAuth' = FALSE /\ UNCHANGED session
  /\ suppress' = early
  /\ UNCHANGED <<storage, slotSteamID, clients, risks>>

\* (mutant) only the forced answer is given to the engine
ReplayedForced(rec) == IF rec.got = "no" /\ rec.failed /\ noSteam THEN "ok" ELSE "no"

(* What Steam has answered meanwhile is replayed to the engine, or a good answer is forced. *)
Replayed(rec) == IF rec.got = "no" /\ rec.failed /\ noSteam THEN "ok" ELSE rec.got

DecideAccept(r, s) ==
  /\ Decide(r)
  /\ storage[r.id] # NONE /\ s \in FreeSlots
  /\ LET in     == [clients EXCEPT ![s] = [id |-> r.id, steamID |-> lastClient, verified |-> FALSE]]
         answer == Replayed(storage[r.id])
         out    == OutBy(in, r.id, answer)
     IN  /\ clients' = Told(in, r.id, answer)
         /\ session' = Ended(session, If(r.id, out # {}))
         /\ storage' = StoredAfter(out)
         /\ Forget(out)
  /\ endAuth' = FALSE /\ suppress' = FALSE
  /\ UNCHANGED risks
-----------------------------------------------------------------------------
(* Steam's answer, through the detour of OnValidateAuthTicketResponse.  It is kept for a   *)
(* replay.  Without Steam an answer not in sv_auth_session_response_legal is turned into a *)
(* good one.  Steam may answer again (a ticket is cancelled) as long as there is a session.*)
SteamAnswers(x, reply) ==
  LET answer == IF reply = "ok" \/ (reply = "illegal" /\ noSteam) THEN "ok" ELSE "bad"
      out    == OutBy(clients, x, answer)
      kept   == IF storage[x] # NONE /\ storage[x].got = "no"
                  THEN [storage EXCEPT ![x].got = answer] ELSE storage
  IN  /\ session[x] # "none"
      /\ session' = [session EXCEPT ![x] = IF out = {} THEN "answered" ELSE "none"]
      /\ storage' = [y \in SteamIDs |-> IF y \in ForgottenBy(out) THEN NONE ELSE kept[y]]
      /\ clients' = Told(clients, x, answer)
      /\ Forget(out)
      /\ UNCHANGED <<endAuth, lastClient, suppress, noSteam, asks, risks>>

(* The server logs on to Steam or loses it. *)
SteamChanges ==
  /\ noSteam' = ~ noSteam
  /\ Risk(If("logon", noSteam /\ \E r \in asks : storage[r.id] # NONE /\ storage[r.id].failed))
  /\ UNCHANGED <<storage, endAuth, lastClient, suppress, slotSteamID, clients, session, asks>>

ConnectClient(r, ok) ==
  \/ Refuse(r, ok) \/ Wait(r, ok) \/ GoAsync(r, ok)
  \/ \E early \in BOOLEAN : AcceptRefused(r, ok, early)
  \/ \E s \in Slots : Accept(r, ok, s)

Next ==
  \/ RejectStranger \/ SteamChanges
  \/ \E s \in Slots : ConnectRelay(s) \/ Leave(s)
  \/ \E r \in Requests, ok \in BOOLEAN : ConnectClient(r, ok)
  \/ \E r \in Requests :
       \/ DecideNothing(r) \/ DecideReject(r)
       \/ \E early \in BOOLEAN : DecideRefused(r, early)
       \/ \E s \in Slots : DecideAccept(r, s)
  \/ \E x \in SteamIDs, reply \in {"ok", "legal", "illegal"} : SteamAnswers(x, reply)

Spec == Init /\ [][Next]_vars
-----------------------------------------------------------------------------
(* Every variable keeps its type: what the globals of extension.cpp and the two maps hold. *)
TypeOK ==
  /\ storage \in [SteamIDs -> Records \cup {NONE}]
  /\ endAuth \in BOOLEAN /\ suppress \in BOOLEAN /\ noSteam \in BOOLEAN
  /\ lastClient \in SteamIDs \cup {NONE}
  /\ slotSteamID \in [Slots -> SteamIDs \cup {NONE}]
  /\ clients \in [Slots -> [id : SteamIDs \cup {NONE, Relay}, steamID : SteamIDs \cup {NONE}, verified : BOOLEAN]]
  /\ session \in [SteamIDs -> {"none", "waiting", "answered"}]
  /\ asks \subseteq Requests /\ risks \subseteq {"overtaken", "twin", "again", "kick", "proxy", "logon"}

(* A player plays under the SteamID whose ticket it showed: CheckChallengeType sets the    *)
(* global g_lastClientSteamID, and the completion of an asynchronous connection relies on  *)
(* no other attempt having come between.                                                   *)
OwnSteamID ==
  \A s \in Slots : clients[s].id \in SteamIDs =>
    clients[s].steamID = clients[s].id \/ "overtaken" \in risks

(* Every player in the game was verified or Steam has yet to answer for it: an answer that *)
(* came while the plugin was deciding is stored and replayed ("Make sure this is always    *)
(* called in order to verify the client on the server"), a ticket Steam did not take is    *)
(* answered for, and no session is ended under a player who is in.                         *)
AllValidated ==
  \A s \in Slots : clients[s].id \in SteamIDs =>
    \/ clients[s].verified \/ session[clients[s].id] = "waiting"
    \/ risks # {}

(* A record with a client, and the SteamID kept for a slot, are about the player who is in *)
(* that slot: the first is whom "Same Steam ID connected." kicks, the second whose record  *)
(* PlayerDisconnect drops.  A kick may leave a client in the record.                       *)
RecordsMatchClients ==
  "kick" \notin risks =>
    \A x \in SteamIDs, s \in Slots :
      (slotSteamID[s] = x \/ (storage[x] # NONE /\ storage[x].client = s)) => clients[s].id = x

(* While the plugin decides, the request has its record, with the challenge it was made    *)
(* with: without it the decision comes to nothing, and an automatic retry is not told from *)
(* a manual one and asks again.                                                            *)
UndecidedRecorded ==
  \A r \in asks : AsyncWaiting(r) \/ risks \cap {"twin", "again", "kick"} # {}

(* The parts of the inductive invariant.  An undecided request is the last attempt, and the *)
(* only one of its SteamID, in the game or undecided, while nothing contradicts that.       *)
LastInv == "overtaken" \notin risks => \A r \in asks : lastClient = r.id

AsksInv ==
  risks \cap {"twin", "again", "kick"} = {} =>
    \A r \in asks :
      /\ AsyncWaiting(r)
      /\ \A q \in asks : q.id = r.id => q = r
      /\ \A s \in Slots : clients[s].id # r.id

(* A client in a record is noted for its slot, and that note is about who is there. *)
MatchInv ==
  "kick" \notin risks =>
    /\ \A s \in Slots : slotSteamID[s] # NONE => clients[s].id = slotSteamID[s]
    /\ \A x \in SteamIDs :
         storage[x] # NONE /\ storage[x].client # NONE => slotSteamID[storage[x].client] = x

(* Whose session ends: nobody's who is in, unless it leaves, nor one the plugin has to      *)
(* decide about.                                                                            *)
SessionInv ==
  risks = {} =>
    /\ \A s \in Slots : clients[s].steamID # NONE => clients[s].steamID = clients[s].id
    /\ \A s, t \in Slots : clients[s].id \in SteamIDs /\ clients[s].id = clients[t].id => s = t
    /\ endAuth => lastClient # NONE /\ \A s \in Slots : clients[s].id # lastClient
    /\ \A r \in asks : storage[r.id].got = "no" =>
         IF storage[r.id].failed THEN noSteam ELSE session[r.id] = "waiting"

(* Each promise depends on the others: all of them together are inductive. *)
IndInv == TypeOK /\ OwnSteamID /\ AllValidated /\ LastInv /\ AsksInv /\ MatchInv /\ SessionInv

(* Only a client with the newcomer's SteamID is disconnected by an attempt to connect:     *)
(* "Kick existing player", who is told "Same Steam ID connected.".                         *)
KicksSameSteamID ==
  [][\A r \in Requests, ok \in BOOLEAN :
       ConnectClient(r, ok) => \A s \in Slots : clients'[s] # clients[s] => clients[s].id \in {NONE, r.id}]_vars
=============================================================================
