----------------------------- MODULE MCWrappers -----------------------------
(* Py_sched called with small caches and a few compression factors.        *)
EXTENDS Wrappers

UnitFactors == {<<1, 1>>}
TwoFactors  == {<<1, 1>>, <<2, 1>>}
ManyFactors == {<<1, 1>>, <<2, 1>>, <<1, 2>>, <<0, 2>>}

(* Bound: the caller uses the orbit library or the solar-system library,   *)
(* and has not set up the other.                                           *)
OrbitCalls == {"orbit_init", "satpos", "geodetic", "polar", "saa", "rigidity"}

OneLibrary ==
  IF reply.call \in OrbitCalls
    THEN slot["solar"] = -1 /\ comp = [sun |-> 1, moon |-> 1]
    ELSE els = "null"
=============================================================================
