----------------------------- MODULE MCTargets -----------------------------
(* A target with a window and phases of a period of 4: within the period,  *)
(* over its end, and from an ephemeris after the times asked about.        *)
EXTENDS Targets

MCTypes   == {"Good", "bad", "goo", "ugly"}
MCLower   == [type \in MCTypes |-> IF type = "Good" THEN "good" ELSE type]
MCMjds    == -6 .. 7
MCFuncs   == {Window({<<-5, -3>>, <<1, 4>>}), Phase(4, 1, 1, 2), Phase(4, 9, 3, 0)}
MCWindows == {<<-4, 2>>, <<0, 6>>}

ASSUME MCPhases == PhasesOfAPeriod
=============================================================================
