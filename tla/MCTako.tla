------------------------------- MODULE MCTako -------------------------------
(* An instance of Tako for TLC: a window opens late or closes early.       *)
EXTENDS Tako

MCWindows == {<<1, 9>>, <<0, 1>>}
==============================================================================
