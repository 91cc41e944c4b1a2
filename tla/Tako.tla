-------------------------------- MODULE Tako --------------------------------
(***************************************************************************)
(* The program new_tako1.py: a list box of targets, a list box of the      *)
(* observations scheduled, and one Scheduler between them.  A click on a   *)
(* target runs _sched() in the one thread of Tk, which goes on to the next *)
(* event when the callback raises, wherever it had got to.                 *)
(***************************************************************************)
EXTENDS Scheduler, Sequences

CONSTANTS
  Rows,     \* rows of the target file
  Windows   \* <<open, close>>, in ticks: what TargetView.target_window() may return

ASSUME TakoSizes ==
  /\ Rows \subseteq Nat
  /\ Windows \subseteq Int \X Int

VARIABLES
  tlist,         \* exposure of each target of the file
  already_done,  \* rows that were clicked
  window,        \* targ_window of the targets whose sun constraint is set
  targ_num,      \* target number that the click of a row got
  click,         \* the callback in progress
  box,           \* the observations in the right list box
  saved          \* out_sched.save

tvars == <<tlist, already_done, window, targ_num, click, box, saved>>

NoClick == [row |-> -1, at |-> "idle"]

Clicks == {NoClick} \union [row : Rows, at : {"constrain", "register", "schedule", "scan", "list"}]

GoOn(at) == click' = [click EXCEPT !.at = at]

Raises == click' = NoClick

----------------------------------------------------------------------------

TakoInit ==
  /\ Init
  /\ tlist \in [Rows -> Exposures]
  /\ already_done = {}
  /\ window = [r \in {} |-> <<0, 0>>]
  /\ targ_num = [r \in {} |-> 0]
  /\ click = NoClick
  /\ box = <<>>
  /\ saved = <<>>

FreshAlways(r) == r \in Rows      \* mutant of Fresh
Fresh(r)       == r \notin already_done

(* The double click: the row is done before anything has been tried. *)
Click(r) ==
  /\ click = NoClick
  /\ Fresh(r)
  /\ already_done' = already_done \union {r}
  /\ click' = [row |-> r, at |-> "constrain"]
  /\ UNCHANGED <<vars, tlist, window, targ_num, box, saved>>

(* set_sun_constraint() and consolidate_constraints(): the search for the  *)
(* window has a result or raises.                                          *)
set_sun_constraint(ok) ==
  /\ click.at = "constrain"
  /\ \/ /\ ok /\ GoOn("register")
        /\ \E w \in Windows :
             window' = [r \in DOMAIN window \union {click.row} |->
                          IF r = click.row THEN w ELSE window[r]]
     \/ ~ok /\ Raises /\ UNCHANGED window
  /\ UNCHANGED <<vars, tlist, already_done, targ_num, box, saved>>

(* The number that register_target() returns is where its pointer stands. *)
Register(c_ok) ==
  /\ click.at = "register"
  /\ register_target(c_ok)
  /\ IF last'.status = "registered"
       THEN /\ targ_num' = [r \in DOMAIN targ_num \union {click.row} |->
                              IF r = click.row THEN current_target_pointer' ELSE targ_num[r]]
            /\ GoOn("schedule")
       ELSE Raises /\ UNCHANGED targ_num
  /\ UNCHANGED <<tlist, already_done, window, box, saved>>

Schedule ==
  /\ click.at = "schedule"
  /\ schedule_target(targ_num[click.row], tlist[click.row])
  /\ IF scan' = Idle THEN Raises ELSE GoOn("scan")
  /\ UNCHANGED <<tlist, already_done, window, targ_num, box, saved>>

(* calc_constraint(), the constraints consolidated: Constraint.window() of  *)
(* the one window, both ends included, made a "good"-time constraint.      *)
(* Mutant: the constraint taken for a "bad"-time one.                      *)
BadTimeInside(w, mjd) == w[1] <= mjd /\ mjd <= w[2]
BadTime(w, mjd)       == ~ (w[1] <= mjd /\ mjd <= w[2])

Scan ==
  /\ click.at = "scan"
  /\ \/ TakeBin(BadTime(window[click.row], scan.mjd))
     \/ \E sky \in BOOLEAN, c_ok \in BOOLEAN : in_saa(sky, c_ok) \/ targ_occulted(sky, c_ok)
     \/ FinishSequential
  /\ IF scan' # Idle THEN UNCHANGED click
     ELSE IF last'.status \in {"done", "short"} THEN GoOn("list") ELSE Raises
  /\ UNCHANGED <<tlist, already_done, window, targ_num, box, saved>>

(* The efficiency divides by the length of the observation before the list *)
(* box gets its line, and an observation of one bin has length 0 - up to   *)
(* the rounding of a time that was added up bin by bin, which that of bin  *)
(* 0 is not.  Mutant: an observation that is short of bins is not listed.  *)
ListsDone(rounding) == last.status = "done" /\ last.end # last.start
Lists(rounding)     == last.end # last.start \/ (rounding /\ last.end > 0)

List(rounding) ==
  /\ click.at = "list"
  /\ box' = IF Lists(rounding)
              THEN Append(box, [row |-> click.row, start |-> last.start, end |-> last.end,
                                counted |-> last.counted])
              ELSE box
  /\ click' = NoClick
  /\ UNCHANGED <<vars, tlist, already_done, window, targ_num, saved>>

(* The Save button writes the whole box, unless it is empty. *)
Save ==
  /\ click = NoClick
  /\ box # <<>>
  /\ saved' = box
  /\ UNCHANGED <<vars, tlist, already_done, window, targ_num, click, box>>

Callback ==
  \/ \E ok \in BOOLEAN : set_sun_constraint(ok)
  \/ \E c_ok \in BOOLEAN : Register(c_ok)
  \/ Schedule
  \/ Scan
  \/ \E rounding \in BOOLEAN : List(rounding)

TakoNext ==
  \/ \E r \in Rows : Click(r)
  \/ Callback
  \/ Save

(* A callback that has begun runs to its end or raises. *)
TakoSpec == TakoInit /\ [][TakoNext]_<<vars, tvars>> /\ WF_<<vars, tvars>>(Callback)

----------------------------------------------------------------------------

TakoTypeOK ==
  /\ TypeOK
  /\ tlist \in [Rows -> Exposures]
  /\ already_done \subseteq Rows
  /\ DOMAIN window \subseteq Rows /\ \A r \in DOMAIN window : window[r] \in Windows
  /\ DOMAIN targ_num \subseteq Rows /\ \A r \in DOMAIN targ_num : targ_num[r] \in Numbers
  /\ click \in Clicks
  /\ box \in Seq([row : Rows, start : Int, end : Int, counted : SUBSET Int])

(* The list box leaves out no time of the schedule, although a callback    *)
(* may raise after the scheduler has moved on: the first observation       *)
(* listed starts with the timeline, each of the others where the one above *)
(* it ends, and the scheduler goes on from the last; one that it has just  *)
(* placed and that is to be listed begins there and ends at its clock.  So *)
(* every observation that moved the clock is listed.  One of a single bin  *)
(* moves nothing and may be missing (new_tako1.py:73).  What is saved was  *)
(* such a list too.                                                        *)
Abuts(list) ==
  \A i \in DOMAIN list : list[i].start = IF i = 1 THEN 0 ELSE list[i - 1].end

BoxIsSchedule ==
  /\ Abuts(box) /\ Abuts(saved)
  /\ LET end == IF box = <<>> THEN 0 ELSE box[Len(box)].end
     IN  IF click.at = "list" THEN last.start = end /\ last.end = current_mjd
         ELSE current_mjd = end

(* No target is listed twice, and each was scheduled under the number it   *)
(* was registered with, which no other target has.                         *)
OneNumberPerTarget ==
  /\ \A i, j \in DOMAIN box : box[i].row = box[j].row => i = j
  /\ \A q, r \in DOMAIN targ_num : targ_num[q] = targ_num[r] => q = r
  /\ scan # Idle => scan.targ \in registered

(* Every bin counted for a target that was listed is in the sun window of  *)
(* that target.                                                            *)
CountedInSunWindow ==
  \A i \in DOMAIN box : \A k \in box[i].counted :
    window[box[i].row][1] <= Mjd(k) /\ Mjd(k) <= window[box[i].row][2]

(* The program keeps its promise: the list box is a plan that grows by     *)
(* observations that abut, of targets tried once, with their bins in them.  *)
(* A callback that is not over is a target pending.                        *)
Plan == INSTANCE ObservingPlan WITH
          plan <- box, tried <- already_done, pending <- click.row, Nobody <- -1

PlanKept == Plan!PlanSafe

(* Every click is answered: the window can always be used again.           *)
ClickEnds == (click # NoClick) ~> (click = NoClick)
==============================================================================
