----------------------------- MODULE QueryCache -----------------------------
(***************************************************************************)
(* The query cache of A2SQCache and of connect (both extension.cpp): the   *)
(* answers to A2S_INFO and A2S_PLAYER are made from the extension's own    *)
(* count and list of players, kept up to date by game events, and not by   *)
(* asking the engine.  The two are alike but for what the definitions with *)
(* ext in them say.  Everything runs on the game thread: an action is one  *)
(* event, callback or timer.                                               *)
(***************************************************************************)
EXTENDS Naturals, FiniteSets

CONSTANTS
  MaxPlayers,  \* SM_MAXPLAYERS
  UserIDs,
  BYTE         \* how many values a uint8_t has: 256

ASSUME QueryCacheAssumption == MaxPlayers \in Nat /\ BYTE \in Nat /\ MaxPlayers < BYTE /\ 0 \notin UserIDs

VARIABLES
  ext,      \* which of the two it is
  apart,    \* connect's sv_count_bots_info is 0: bots are told apart in A2S_INFO
  loaded,
  players,  \* g_QueryCache.players
  num,      \* nNumClients
  fakes,    \* nFakeClients
  userMap,  \* g_UserIDtoClientMap
  info,     \* info_cache: the two counts
  list,     \* players_cache: whom it names, and its count
  clients,  \* (engine) who is in a slot
  slots,    \* (engine) the slots that have been used, GetClientCount of them
  ghosts    \* (history) players were counted in empty slots; no action reads it

cache == <<players, num, fakes, userMap, info, list>>
vars  == <<ext, apart, loaded, players, num, fakes, userMap, info, list, clients, slots, ghosts>>

Slots  == 1 .. MaxPlayers
Kinds  == {"human", "bot", "SourceTV"}
Nobody == [active |-> FALSE, fake |-> FALSE]
Empty  == [kind |-> "none", userid |-> 0]

\* (mutant) counts have no end
PlusUnbounded(a, b) == a + b

Plus(a, b) == (a + b) % BYTE

Minus(a, b) == (a + BYTE - b) % BYTE

Active(ps)    == {s \in Slots : ps[s].active}
Connected     == {s \in Slots : clients[s] # Empty}
FreshCache ==
  /\ players = [s \in Slots |-> Nobody] /\ num = 0 /\ fakes = 0
  /\ userMap = [u \in UserIDs |-> 0]
  /\ info = [num |-> 0, fakes |-> 0] /\ list = [count |-> 0, of |-> {}]

Init ==
  /\ ext \in {"A2SQCache", "connect"} /\ apart \in (IF ext = "connect" THEN BOOLEAN ELSE {FALSE})
  /\ loaded = FALSE /\ FreshCache
  /\ clients = [s \in Slots |-> Empty] /\ slots = {} /\ ghosts = FALSE
-----------------------------------------------------------------------------
(* Both count the bots among the players; how many they are is not always told. *)
Told(f) == IF apart THEN f ELSE 0

(* UpdateQueryCache: the answers are written anew; A2SQCache's list has a count in it, which *)
(* is increased by one for each player, connect answers A2S_PLAYER from players.             *)
Update(ps, n, f) ==
  /\ info' = [num |-> n, fakes |-> Told(f)]
  /\ list' = IF ext = "connect" THEN list
             ELSE [count |-> Plus(list.count, Cardinality(Active(ps))), of |-> Active(ps)]

(* Late loading: who is there is counted.  connect skips the slots of those who have left. *)
Counted == IF ext = "connect" THEN slots \cap Connected ELSE slots

(* SDK_OnAllLoaded *)
Load ==
  /\ ~ loaded /\ loaded' = TRUE
  /\ Update(players, num, fakes)
  /\ players' = [s \in Slots |-> IF s \in Counted THEN [active |-> TRUE, fake |-> clients[s].kind = "bot"]
                                 ELSE Nobody]
  /\ num' = Cardinality(Counted)
  /\ fakes' = Cardinality({s \in Counted : clients[s].kind = "bot"})
  /\ userMap' = [u \in UserIDs |-> IF \E s \in Counted : clients[s].userid = u
                                     THEN CHOOSE s \in Counted : clients[s].userid = u ELSE 0]
  /\ ghosts' = (Counted \ Connected # {})
  /\ UNCHANGED <<ext, apart, clients, slots>>

Unload ==
  /\ loaded /\ loaded' = FALSE
  /\ players' = [s \in Slots |-> Nobody] /\ num' = 0 /\ fakes' = 0
  /\ userMap' = [u \in UserIDs |-> 0]
  /\ info' = [num |-> 0, fakes |-> 0] /\ list' = [count |-> 0, of |-> {}]
  /\ ghosts' = FALSE
  /\ UNCHANGED <<ext, apart, clients, slots>>

(* The engine lets a client in: player_connect.  SourceTV is taken for a bot. *)
PlayerConnect(s, kind, u) ==
  /\ s \notin Connected /\ \A t \in Slots : clients[t].userid # u
  /\ kind = "SourceTV" => \A t \in Slots : clients[t].kind # "SourceTV"
  /\ clients' = [clients EXCEPT ![s] = [kind |-> kind, userid |-> u]]
  /\ slots' = slots \cup {s}
  /\ IF loaded
       THEN LET bot == kind # "human"
            IN  /\ players' = [players EXCEPT ![s] = [active |-> TRUE, fake |-> bot]]
                /\ num' = Plus(num, 1)
                /\ fakes' = IF bot THEN Plus(fakes, 1) ELSE fakes
                /\ userMap' = [userMap EXCEPT ![u] = s]
       ELSE UNCHANGED <<players, num, fakes, userMap>>
  /\ UNCHANGED <<ext, apart, loaded, info, list, ghosts>>

(* A client enters the game, again at each map: SourceTV is known now. *)
OnClientPutInServer(s) ==
  /\ s \in Connected
  /\ IF loaded /\ players[s].active /\ players[s].fake /\ clients[s].kind = "SourceTV"
       THEN players' = [players EXCEPT ![s].fake = FALSE] /\ fakes' = Minus(fakes, 1)
       ELSE UNCHANGED <<players, fakes>>
  /\ UNCHANGED <<ext, apart, loaded, num, userMap, info, list, clients, slots, ghosts>>

(* player_disconnect for those in S: the user id leads to the client. *)
Gone(S) == {userMap[clients[s].userid] : s \in S} \ {0}

PlayersDisconnect(S) ==
  /\ userMap' = [u \in UserIDs |-> IF \E s \in S : clients[s].userid = u THEN 0 ELSE userMap[u]]
  /\ num' = Minus(num, Cardinality(Gone(S) \cap Active(players)))
  /\ fakes' = Minus(fakes, Cardinality({s \in Gone(S) \cap Active(players) : players[s].fake}))
  /\ players' = [s \in Slots |-> IF s \in Gone(S) THEN [players[s] EXCEPT !.active = FALSE] ELSE players[s]]

Leave(S) ==
  /\ clients' = [s \in Slots |-> IF s \in S THEN Empty ELSE clients[s]]
  /\ IF loaded THEN PlayersDisconnect(S) ELSE UNCHANGED <<players, num, fakes, userMap>>
  /\ UNCHANGED <<ext, apart, loaded, info, list, slots, ghosts>>

PlayerDisconnect(s) == s \in Connected /\ Leave({s})

\* (mutant) the engine is left to remove the bots, which it does without an event
InactivateClientsSilently ==
  /\ clients' = [s \in Slots |-> IF clients[s].kind = "bot" THEN Empty ELSE clients[s]]
  /\ UNCHANGED <<ext, apart, loaded, cache, slots, ghosts>>

(* The map changes: "Disconnect all fake clients manually before the engine just nukes them." *)
InactivateClients == Leave({s \in Slots : clients[s].kind = "bot"})

\* (mutant) nothing is written while the server is empty
OnTimerUnlessEmpty ==
  /\ loaded /\ num # 0
  /\ Update(players, num, fakes)
  /\ UNCHANGED <<ext, apart, loaded, players, num, fakes, userMap, clients, slots, ghosts>>

(* Each second. *)
OnTimer ==
  /\ loaded
  /\ Update(players, num, fakes)
  /\ UNCHANGED <<ext, apart, loaded, players, num, fakes, userMap, clients, slots, ghosts>>

Next ==
  \/ Load \/ Unload \/ InactivateClients \/ OnTimer
  \/ \E s \in Slots : OnClientPutInServer(s) \/ PlayerDisconnect(s)
                      \/ \E kind \in Kinds, u \in UserIDs : PlayerConnect(s, kind, u)

(* The timer repeats for ever while the extension is loaded. *)
Spec == Init /\ [][Next]_vars /\ WF_vars(OnTimer)
-----------------------------------------------------------------------------
(* Every variable keeps its type, the counts that of a uint8_t. *)
TypeOK ==
  /\ ext \in {"A2SQCache", "connect"} /\ apart \in BOOLEAN /\ loaded \in BOOLEAN /\ ghosts \in BOOLEAN
  /\ players \in [Slots -> [active : BOOLEAN, fake : BOOLEAN]]
  /\ {num, fakes} \subseteq 0 .. BYTE - 1
  /\ userMap \in [UserIDs -> 0 .. MaxPlayers]
  /\ info \in [num : 0 .. BYTE - 1, fakes : 0 .. BYTE - 1]
  /\ list \in [count : 0 .. BYTE - 1, of : SUBSET Slots]
  /\ clients \in [Slots -> [kind : Kinds \cup {"none"}, userid : UserIDs \cup {0}]] /\ slots \subseteq Slots

(* Through any series of connections, map changes and late loading the extension knows who    *)
(* the engine has: the same slots, each by its user id, as many as it counts, and as many     *)
(* bots, once SourceTV is known.  A2SQCache's late loading may take an empty slot for a       *)
(* player.                                                                                    *)
KnowsClients ==
  loaded /\ ~ ghosts =>
    /\ Active(players) = Connected
    /\ \A s \in Connected : userMap[clients[s].userid] = s
    /\ num = Cardinality(Connected)
    /\ fakes = Cardinality({s \in Connected : players[s].fake})
    /\ \A s \in Connected : players[s].fake # (clients[s].kind = "bot") => clients[s].kind = "SourceTV"

(* What the engine keeps to: a user id is one client's, and a slot that is used counts. *)
EngineInv ==
  /\ Connected \subseteq slots
  /\ \A s \in Connected : clients[s].kind \in Kinds /\ clients[s].userid \in UserIDs
  /\ \A s, t \in Connected : clients[s].userid = clients[t].userid => s = t

(* The inductive invariant. *)
IndInv == TypeOK /\ EngineInv /\ KnowsClients

(* If nobody comes or goes any more, what A2S_INFO answers is right from some time on, for    *)
(* as long as the extension stays loaded: the timer writes what the events counted.           *)
InfoCatchesUp ==
  \A n, f \in 0 .. MaxPlayers :
    <>[](loaded /\ num = n /\ fakes = f) => <>[](info = [num |-> n, fakes |-> Told(f)])

(* A2SQCache's answer to A2S_PLAYER says how many it names: "Players | byte | Number of       *)
(* players whose information was gathered."                                                   *)
AnswerCounts == list.count = Cardinality(list.of)
=============================================================================
