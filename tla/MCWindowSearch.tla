--------------------------- MODULE MCWindowSearch ---------------------------
(* Searches in years of 60 ticks, over skies with two windows a year, at   *)
(* every place on the grid of steps, and over the sky of a target near the *)
(* pole of the ecliptic.                                                   *)
EXTENDS WindowSearch

MCNames   == {"sun", "moon", "Pluton"}
MCNameMap == [n \in {"sun", "moon"} |-> n]
MCTerms   == [b \in {"sun", "moon"} |-> IF b = "sun" THEN {"L_S", "G_S"} ELSE {"L_M", "G_S"}]

(* Windows open at a and half a year later, and are len long: shorter than *)
(* the nights between them at every other place, longer at the rest.       *)
InWindow(a, len, k) == (k + year - a) % (year \div 2) < len

TwoWindows(a, len) ==
  [k \in 0 .. year - 1 |-> IF InWindow(a, len, k) THEN -1 ELSE 1]

Always == [k \in 0 .. year - 1 |-> -1]

MCSkies ==
  {Always} \union {TwoWindows(a, IF a % 2 = 0 THEN 12 ELSE 18) : a \in 12 .. 17}

(* The instance is one that the theorems about NextWindowFound and          *)
(* DateWithinYear are about.                                               *)
ASSUME MCLongWindows == FineSteps /\ LongWindows /\ WindowsReturn
=============================================================================
