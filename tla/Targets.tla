------------------------------- MODULE Targets -------------------------------
(***************************************************************************)
(* A Target of Target.py with the constraints of Constraint.py.  A target  *)
(* has a list of constraints, and the function that was consolidated of    *)
(* them goes over the list object it was given: what is registered later   *)
(* counts too, unless the target has been given another list since, and    *)
(* there is no function at all if the list was empty.                      *)
(*                                                                         *)
(* Times are integers, phases are counted in ticks of a period.            *)
(***************************************************************************)
EXTENDS Integers, Sequences

CONSTANTS
  Mjds,      \* times asked about
  Types,     \* constraint types that a caller gives
  lower,     \* the lower case of each
  Funcs,     \* Window(ranges) and Phase(period, ephemeris, min, max)
  Windows,   \* what TargetView.target_window() may return
  MaxLists,  \* bound: list objects that a target makes
  MaxLen     \* bound: constraints in a list

ASSUME TargetSizes ==
  /\ Mjds \subseteq Int /\ Windows \subseteq Int \X Int
  /\ Types \subseteq DOMAIN lower /\ MaxLists \in Nat \ {0} /\ MaxLen \in Nat

VARIABLES
  lists,            \* the list objects made
  constraints,      \* that which the target has
  calc_constraint,  \* that which the consolidated function goes over, or None
  targ_window,      \* the sun window found last
  last              \* how the last call ended

tvars == <<lists, constraints, calc_constraint, targ_window, last>>

None == 0

----------------------------------------------------------------------------
(* Constraint functions *)

Window(ranges) == [kind |-> "window", ranges |-> ranges]

Phase(period, ephemeris, min, max) ==
  [kind |-> "phase", period |-> period, ephemeris |-> ephemeris, min |-> min, max |-> max]

(* The remainder of C has the sign of the dividend. *)
fmod(a, period) == IF a >= 0 THEN a % period ELSE -((-a) % period)

(* _phase().  Mutant: what is before the ephemeris keeps its sign. *)
InRangesSigned(f, mjd) ==
  LET ph == fmod(mjd - f.ephemeris, f.period)
  IN  IF f.max < f.min THEN (0 <= ph /\ ph <= f.max) \/ (f.min <= ph /\ ph <= f.period)
      ELSE f.min <= ph /\ ph <= f.max

InRanges(f, mjd) ==
  LET rest == fmod(mjd - f.ephemeris, f.period)
      ph   == IF rest < 0 THEN rest + f.period ELSE rest
  IN  IF f.max < f.min THEN (0 <= ph /\ ph <= f.max) \/ (f.min <= ph /\ ph <= f.period)
      ELSE f.min <= ph /\ ph <= f.max

Holds(f, mjd) ==
  \/ f.kind = "window" /\ \E r \in f.ranges : r[1] <= mjd /\ mjd <= r[2]
  \/ f.kind = "phase" /\ InRanges(f, mjd)

(* The test is `not in "bad"` and `not in "good"`, of strings: every part  *)
(* of the one or of the other passes it.                                   *)
PartsOfBadOrGood ==
  {"", "b", "a", "d", "ba", "ad", "bad", "g", "o", "go", "oo", "od", "goo", "ood", "good"}

Known(name) == name \in PartsOfBadOrGood

Lowered(type) == lower[type]

Constraint(type, f) == [type |-> type, func |-> f]

is_bad_time(c, mjd) == IF c.type = "good" THEN ~Holds(c.func, mjd) ELSE Holds(c.func, mjd)

----------------------------------------------------------------------------
(* The target *)

TargetInit ==
  /\ lists = <<<<>>>>
  /\ constraints = 1
  /\ calc_constraint = None
  /\ targ_window = <<>>
  /\ last = "created"

(* A Constraint is made and registered. *)
register_constraint(type, f) ==
  /\ Len(lists[constraints]) < MaxLen
  /\ IF Known(Lowered(type))
       THEN /\ lists' = [lists EXCEPT ![constraints] = Append(@, Constraint(Lowered(type), f))]
            /\ last' = "registered"
       ELSE last' = "ValueError" /\ UNCHANGED lists
  /\ UNCHANGED <<constraints, calc_constraint, targ_window>>

(* A sun constraint goes first, in a list of its own making, unless it is  *)
(* the only one.  Mutant: it takes the place of the constraint that is     *)
(* first.                                                                  *)
WithSunReplaced(sun) ==
  /\ lists' = [lists EXCEPT ![constraints] = <<sun>> \o Tail(@ \o <<sun>>)]
  /\ UNCHANGED constraints

WithSun(sun) ==
  \/ /\ lists[constraints] = <<>>
     /\ lists' = [lists EXCEPT ![constraints] = <<sun>>]
     /\ UNCHANGED constraints
  \/ /\ lists[constraints] # <<>>
     /\ lists' = Append(lists, <<sun>> \o lists[constraints])
     /\ constraints' = Len(lists')

(* Mutant of SetSun: the window is registered as bad time. *)
SetSunBad ==
  /\ Len(lists) < MaxLists /\ Len(lists[constraints]) < MaxLen
  /\ \E w \in Windows :
       targ_window' = w /\ WithSun(Constraint("bad", Window({w})))

SetSun ==
  /\ Len(lists) < MaxLists /\ Len(lists[constraints]) < MaxLen
  /\ \E w \in Windows :
       targ_window' = w /\ WithSun(Constraint("good", Window({w})))

(* The search for the window has a result or raises. *)
set_sun_constraint ==
  /\ \/ SetSun /\ last' = "set"
     \/ last' = "raised" /\ UNCHANGED <<lists, constraints, targ_window>>
  /\ UNCHANGED calc_constraint

(* target_window is never set: it is None before and after. *)
target_within_window ==
  /\ \/ SetSun /\ last' = "TypeError"
     \/ last' = "raised" /\ UNCHANGED <<lists, constraints, targ_window>>
  /\ UNCHANGED calc_constraint

(* Mutant: the list is the one that the target was made with. *)
ConsolidatedFirst == IF lists[constraints] = <<>> THEN None ELSE 1
Consolidated      == IF lists[constraints] = <<>> THEN None ELSE constraints

consolidate_constraints ==
  /\ calc_constraint' = Consolidated
  /\ last' = "consolidated"
  /\ UNCHANGED <<lists, constraints, targ_window>>

(* _bin_is_bad_time(); without a function the Scheduler takes no time for  *)
(* bad.                                                                    *)
bin_is_bad_time(mjd) ==
  calc_constraint # None /\
  \E i \in DOMAIN lists[calc_constraint] : is_bad_time(lists[calc_constraint][i], mjd)

TargetNext ==
  \/ \E type \in Types, f \in Funcs : register_constraint(type, f)
  \/ set_sun_constraint
  \/ target_within_window
  \/ consolidate_constraints

TargetSpec == TargetInit /\ [][TargetNext]_tvars

----------------------------------------------------------------------------

TypesInUse == {"good"} \union {lower[type] : type \in Types}

TargetTypeOK ==
  /\ constraints \in DOMAIN lists
  /\ calc_constraint \in {None} \union DOMAIN lists
  /\ targ_window \in {<<>>} \union Windows
  /\ \A l \in DOMAIN lists : \A i \in DOMAIN lists[l] :
       LET c == lists[l][i]
       IN  c.type \in TypesInUse /\ (c.func \in Funcs \/ \E w \in Windows : c = Constraint("good", Window({w})))

(* A function that was consolidated is never relaxed: what is registered   *)
(* or found about the sun later may add to its bad times, through the list *)
(* that it shares, and takes nothing away until the next consolidation.    *)
ConstraintsKept ==
  [][calc_constraint' = calc_constraint =>
       \A mjd \in Mjds : bin_is_bad_time(mjd) => bin_is_bad_time(mjd)']_tvars

(* With the constraints just consolidated, no time out of the sun window   *)
(* found last is good, whichever list the window was put in.               *)
SunWindowCounts ==
  last = "consolidated" /\ targ_window # <<>> =>
    \A mjd \in Mjds : ~bin_is_bad_time(mjd) => targ_window[1] <= mjd /\ mjd <= targ_window[2]

(* A phase constraint holds in every period alike, before the ephemeris    *)
(* and after it, and in a range that goes over the end of the period:      *)
(* when a whole number of periods from a time in the range.                *)
InRangeOf(f, mjd) ==
  \E start \in {mjd - offset : offset \in f.min .. f.max + (IF f.max < f.min THEN f.period ELSE 0)} :
    (start - f.ephemeris) % f.period = 0

PhaseEveryPeriod ==
  \A i \in DOMAIN lists[constraints] :
    LET c == lists[constraints][i]
    IN  c.func.kind = "phase" /\ c.type \in {"good", "bad"} =>
          \A mjd \in Mjds : is_bad_time(c, mjd) = (InRangeOf(c.func, mjd) = (c.type = "bad"))

(* What a caller owes for it: a period, a phase that is less than a period *)
(* to end at and one that is at most a period to begin at.                 *)
PhasesOfAPeriod ==
  \A f \in Funcs : f.kind = "phase" =>
    /\ f.period \in Nat \ {0} /\ f.ephemeris \in Int
    /\ f.min \in 0 .. f.period /\ f.max \in 0 .. f.period - 1

----------------------------------------------------------------------------
(* What the comments say and the code does not do.                         *)

(* Constraint.py:50 `constraint_type: "bad"-time or "good"-time`, and the  *)
(* error of line 55 "Only 'good' and 'bad' recognized.": a constraint that *)
(* is registered has one of the two types.                                 *)
TypesRecognised ==
  \A l \in DOMAIN lists : \A i \in DOMAIN lists[l] : lists[l][i].type \in {"good", "bad"}
=============================================================================
