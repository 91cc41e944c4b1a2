---------------------------- MODULE ObservingPlan ----------------------------
(***************************************************************************)
(* What the program new_tako1.py promises to its user: a plan that grows   *)
(* by one observation after the other.  Each target is tried once, and the *)
(* observation of a target that was tried begins where the plan ends, and  *)
(* has the bins that count for its exposure between its start and its end. *)
(* What is saved is the plan as it was.                                    *)
(***************************************************************************)
EXTENDS Integers, Sequences

CONSTANTS
  Rows,         \* targets to try
  NBins,        \* bins of the timeline
  TicksPerBin,  \* the length of a bin
  Nobody        \* no target is being tried

VARIABLES plan, tried, pending, saved

pvars == <<plan, tried, pending, saved>>

EndOf(p) == IF p = <<>> THEN 0 ELSE p[Len(p)].end

Observation(row, start, end, counted) ==
  [row |-> row, start |-> start, end |-> end, counted |-> counted]

PlanInit ==
  /\ plan = <<>>
  /\ tried = {}
  /\ pending = Nobody
  /\ saved = <<>>

Try(r) ==
  /\ pending = Nobody /\ r \notin tried
  /\ tried' = tried \union {r}
  /\ pending' = r
  /\ UNCHANGED <<plan, saved>>

Place(end, counted) ==
  /\ pending # Nobody
  /\ EndOf(plan) <= end
  /\ \A k \in counted : EndOf(plan) <= k * TicksPerBin /\ k * TicksPerBin <= end
  /\ plan' = Append(plan, Observation(pending, EndOf(plan), end, counted))
  /\ pending' = Nobody
  /\ UNCHANGED <<tried, saved>>

GiveUp ==
  /\ pending # Nobody
  /\ pending' = Nobody
  /\ UNCHANGED <<plan, tried, saved>>

SavePlan ==
  /\ pending = Nobody /\ plan # <<>>
  /\ saved' = plan
  /\ UNCHANGED <<plan, tried, pending>>

Answered ==
  \/ \E bin \in 0 .. NBins, counted \in SUBSET (0 .. NBins - 1) :
       Place(bin * TicksPerBin, counted)
  \/ GiveUp

PlanNext ==
  \/ \E r \in Rows : Try(r)
  \/ Answered
  \/ SavePlan

PlanSafe == PlanInit /\ [][PlanNext]_pvars
PlanSpec == PlanSafe /\ WF_pvars(Answered)
==============================================================================
