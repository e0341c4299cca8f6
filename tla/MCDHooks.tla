------------------------------ MODULE MCDHooks ------------------------------
(* DHooks for TLC: two callbacks, which play the same part. *)
EXTENDS DHooks, TLC

Plugins == Permutations(Callbacks)
=============================================================================
