------------------------------ MODULE MCConnect ------------------------------
(* Connect for TLC: one player connects, and from elsewhere under the same SteamID; another *)
(* player connects too.  Each of the three may come any number of times.                   *)
EXTENDS Connect

CONSTANTS x1, x2

Request(x, ip, challenge) == [id |-> x, ip |-> ip, challenge |-> challenge]

Attempts == {Request(x1, 1, 1), Request(x1, 2, 2), Request(x2, 3, 3)}

(* Each promise is checked where nothing, and where one kind of thing, has gone wrong. *)
OneRisk == Cardinality(risks') <= 1
=============================================================================
