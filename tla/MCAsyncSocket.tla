---------------------------- MODULE MCAsyncSocket ----------------------------
(* What TLC bounds.  OneRisk goes on behind a first risk only where that is worth the     *)
(* states: with the risks of one kind (taken as often as the plugin likes), with the      *)
(* context c1 as the only one the plugin has, and without data.  The invariants are       *)
(* evaluated on the first state behind the bound, too.                                    *)
EXTENDS AsyncSocket, TLC

CONSTANT c1

OneRisk ==
  hasty' # {} =>
    /\ Cardinality(hasty') = 1
    /\ \A c \in Created \ {c1} : ctx'[c].life = "none"
    /\ \A s \in Sockets : sock'[s].reads = 0

(* Handles are like one another: their names play no part. *)
SocketSymmetry == Permutations(Sockets)
=============================================================================
