------------------------------- MODULE MCVoice -------------------------------
(* Voice for TLC: the smallest rings in which samples mix, saturate and wrap around. *)
EXTENDS Voice

Bits == {0, 1}

(* The fields of a client without a socket are not looked at: Accept sets them all. *)
LiveState ==
  <<[c \in Clients |-> IF socket[c] = Closed THEN <<>>
                       ELSE <<socket[c], new[c], writeIndex[c], lastLength[c], unEven[c]>>],
    pollVars, playVars, phase, ring>>
=============================================================================
