------------------------------ MODULE Scheduler ------------------------------
(***************************************************************************)
(* The Scheduler and the Timeline of Py_Tako.py.  One thread: a call of    *)
(* schedule_target() or of schedule_targetFirst() is a scan of bins, one   *)
(* question (the constraint, the SAA, the occultation) per step, and       *)
(* nothing else starts before it has ended.                                *)
(*                                                                         *)
(* Time is counted in ticks since mjdStart, TicksPerBin to a bin; an       *)
(* exposure is the number of bins it needs.  What the sky answers is not   *)
(* known: every question may be answered either way, and the answers that  *)
(* the scheduler keeps say at which tick they were computed.               *)
(***************************************************************************)
EXTENDS Integers, FiniteSets

CONSTANTS
  NBins,        \* nbins: the bins of the timeline are 0 .. NBins - 1
  NTargets,     \* ntargets: rows for targets in the attitude library
  TicksPerBin,  \* the resolution of the times a caller can give
  Exposures,    \* bins that a target needs
  FromTicks,    \* times from which schedule_targetFirst() is asked to start
  CallBound     \* bound: register_target() is called at most CallBound times

ASSUME SchedulerSizes ==
  /\ NBins \in Nat \ {0}
  /\ NTargets \in Nat
  /\ TicksPerBin \in Nat \ {0}
  /\ Exposures \subseteq Nat
  /\ FromTicks \subseteq Int
  /\ CallBound \in Nat

VARIABLES
  open_intervals,          \* the sequence of intervals left of the timeline
  current_mjd,             \* where the last target ended
  current_target_pointer,  \* number of the last target registered, or -1
  registered,              \* targets that are in the cache of the C code
  polar,                   \* bins whose polar vector is in the cache of the C code
  saa,                     \* cache["saa"]
  occult,                  \* cache["occult"]
  scan,                    \* the call in progress
  last,                    \* how the last call ended
  spent                    \* bins that exposures of ended calls were counted in

vars == <<open_intervals, current_mjd, current_target_pointer, registered, polar,
          saa, occult, scan, last, spent>>

cvars     == <<registered, polar>>
caches    == <<saa, occult, polar>>
timeline  == <<open_intervals, current_mjd, spent>>

Bins    == 0 .. NBins - 1
Targets == 0 .. NTargets - 1
Numbers == 0 .. CallBound - 1     \* target numbers that register_target() can reach

(* An answer that the scheduler has cached: what it is and when it was     *)
(* computed for; NoTick if from a vector that was never set.               *)
NoAnswer == [at |-> -1, is |-> FALSE]
NoTick   == -2
Answers  == [at : Int, is : BOOLEAN]

Mjd(k) == k * TicksPerBin

BinOfCeil(mjd) == (mjd + TicksPerBin - 1) \div TicksPerBin   \* mutant of BinOf
BinOf(mjd) == mjd \div TicksPerBin

(* Python counts a negative index from the end of a list. *)
PyIndex(k) == IF k < 0 THEN k + NBins ELSE k

Idle == [phase |-> "idle"]

Scans ==
  [phase : {"bin", "saa", "occult"}, mode : {"sequential", "first"},
   targ : Numbers, from : Int, k : Int, mjd : Int, limit : Int, exp : Nat,
   total : Nat, needed : Nat, mjd_end : Int, counted : SUBSET Int, blocked : SUBSET Int]

Begin(mode, t, k, mjd, limit, exp, mjd_end) ==
  [phase |-> "bin", mode |-> mode, targ |-> t, from |-> k, k |-> k, mjd |-> mjd,
   limit |-> limit, exp |-> exp, total |-> 0, needed |-> exp, mjd_end |-> mjd_end,
   counted |-> {}, blocked |-> {}]

(* What the caller gets, with the bins that were counted and those that     *)
(* time_constrained() refused.                                             *)
Ended(status, start, s) ==
  [status |-> status, targ |-> s.targ, start |-> start, end |-> s.mjd_end,
   total |-> s.total, exp |-> s.exp, counted |-> s.counted, blocked |-> s.blocked]

Raised(exception) == Ended(exception, 0, Begin("none", -1, 0, 0, 0, 0, 0))

----------------------------------------------------------------------------

Init ==
  /\ open_intervals = <<<<0, NBins>>>>
  /\ current_mjd = 0
  /\ current_target_pointer = -1
  /\ registered = {}
  /\ polar = {}
  /\ saa = [k \in Bins |-> NoAnswer]
  /\ occult = [t \in Targets |-> [k \in Bins |-> NoAnswer]]
  /\ scan = Idle
  /\ last = Raised("created")
  /\ spent = {}

(* register_target(): the pointer moves before the limit and the C code    *)
(* have their say; c_ok is whether py_addTarget() succeeds.                *)
register_target(c_ok) ==
  LET t == current_target_pointer + 1
  IN  /\ scan = Idle
      /\ t < CallBound
      /\ current_target_pointer' = t
      /\ \/ t >= NTargets /\ last' = Raised("TargetLimitReached") /\ UNCHANGED registered
         \/ t < NTargets /\ ~c_ok /\ last' = Raised("RuntimeError") /\ UNCHANGED registered
         \/ /\ t < NTargets /\ c_ok
            /\ last' = Raised("registered")
            /\ registered' = registered \union {t}
      /\ UNCHANGED <<timeline, caches, scan>>

(* schedule_target(), up to its loop *)
schedule_target(t, exp) ==
  /\ scan = Idle
  /\ \/ /\ t > current_target_pointer
        /\ last' = Raised("RuntimeError") /\ UNCHANGED scan
     \/ /\ t <= current_target_pointer /\ open_intervals = <<>>
        /\ last' = Raised("no_interval") /\ UNCHANGED scan
     \/ /\ t <= current_target_pointer /\ open_intervals # <<>>
        /\ LET start == open_intervals[1][1]
               end   == open_intervals[1][2]
           IN  IF end - start < exp
                 THEN last' = Raised("IntervalTooSmallForTarget") /\ UNCHANGED scan
                 ELSE /\ scan' = Begin("sequential", t, start, Mjd(start), end, exp, current_mjd)
                      /\ UNCHANGED last
  /\ UNCHANGED <<timeline, current_target_pointer, cvars, saa, occult>>

(* schedule_targetFirst(), up to its loop: the bin is that which from_mjd  *)
(* falls in, the times are from_mjd and whole bins after it.               *)
schedule_targetFirst(from, t, exp) ==
  /\ scan = Idle
  /\ IF t > current_target_pointer
       THEN last' = Raised("RuntimeError") /\ UNCHANGED scan
       ELSE /\ scan' = Begin("first", t, BinOf(from), from, NBins - 1, exp, from)
            /\ UNCHANGED last
  /\ UNCHANGED <<timeline, current_target_pointer, cvars, saa, occult>>

(* The generators _next_bin(), which yields its end_bin too, and           *)
(* _next_binFirst()                                                        *)
Advance(s) == [s EXCEPT !.phase = "bin", !.k = @ + 1, !.mjd = @ + TicksPerBin]

ExhaustedLate == scan.k > scan.limit + 1    \* mutant of Exhausted
Exhausted == scan.k > scan.limit

Raise(exception) == scan' = Idle /\ last' = Raised(exception)

(* The next bin is taken, and is blocked by time_constrained() or not. *)
TakeBin(blocked) ==
  /\ scan.phase = "bin" /\ scan.needed > 0 /\ ~Exhausted
  /\ LET taken == [scan EXCEPT !.total = @ + 1, !.mjd_end = scan.mjd]
     IN  scan' = IF blocked THEN Advance([taken EXCEPT !.blocked = @ \union {scan.k}])
                 ELSE [taken EXCEPT !.phase = "saa"]
  /\ UNCHANGED <<timeline, current_target_pointer, registered, caches, last>>

(* The answer stands in the cache when it is there. *)
Known(answer) == answer # NoAnswer

(* On with the loop, given an answer.  Mutants: a bin in the SAA is asked   *)
(* about again, or is not skipped; an occulted bin is counted.             *)
AfterSaaAgain(s, is)  == IF is THEN [s EXCEPT !.phase = "saa"] ELSE [s EXCEPT !.phase = "occult"]
AfterSaaAlways(s, is) == [s EXCEPT !.phase = "occult"]
AfterSaa(s, is)       == IF is THEN Advance(s) ELSE [s EXCEPT !.phase = "occult"]

Count(s) == [s EXCEPT !.needed = @ - 1, !.counted = @ \union {s.k}]

AfterOccultAlways(s, is) == Advance(Count(s))
AfterOccult(s, is)       == Advance(IF is THEN s ELSE Count(s))

(* _in_saa(): sky is what py_atSaa() computes and c_ok whether it succeeds. *)
(* The C code answers from a vector never set when its own cache has the   *)
(* polar vector of the bin already.                                        *)
in_saa(sky, c_ok) ==
  LET k     == scan.k
      fresh == [at |-> IF k \in polar THEN NoTick ELSE scan.mjd, is |-> sky]
      go(is) == scan' = AfterSaa(scan, is)
  IN  /\ scan.phase = "saa"
      /\ \/ /\ PyIndex(k) \notin Bins
            /\ Raise("IndexError") /\ UNCHANGED <<saa, polar>>
         \/ /\ PyIndex(k) \in Bins /\ Known(saa[PyIndex(k)])
            /\ go(saa[PyIndex(k)].is) /\ UNCHANGED <<saa, polar, last>>
         \/ /\ PyIndex(k) \in Bins /\ ~Known(saa[PyIndex(k)]) /\ (k \notin Bins \/ ~c_ok)
            /\ Raise("RuntimeError") /\ UNCHANGED <<saa, polar>>
         \/ /\ k \in Bins /\ ~Known(saa[k]) /\ c_ok
            /\ saa' = [saa EXCEPT ![k] = fresh]
            /\ polar' = polar \union {k}
            /\ go(sky) /\ UNCHANGED last
      /\ UNCHANGED <<timeline, current_target_pointer, registered, occult>>

(* _targ_occulted(): the C code knows only the targets it has cached. *)
targ_occulted(sky, c_ok) ==
  LET k      == scan.k
      t      == scan.targ
      listed == t \in Targets /\ PyIndex(k) \in Bins
      fresh  == [at |-> scan.mjd, is |-> sky]
      go(is) == scan' = AfterOccult(scan, is)
  IN  /\ scan.phase = "occult"
      /\ \/ /\ ~listed
            /\ Raise("IndexError") /\ UNCHANGED occult
         \/ /\ listed /\ Known(occult[t][PyIndex(k)])
            /\ go(occult[t][PyIndex(k)].is) /\ UNCHANGED <<occult, last>>
         \/ /\ listed /\ ~Known(occult[t][PyIndex(k)])
            /\ (t \notin registered \/ k \notin Bins \/ ~c_ok)
            /\ Raise("RuntimeError") /\ UNCHANGED occult
         \/ /\ t \in registered /\ k \in Bins /\ ~Known(occult[t][k]) /\ c_ok
            /\ occult' = [occult EXCEPT ![t][k] = fresh]
            /\ go(sky) /\ UNCHANGED last
      /\ UNCHANGED <<timeline, current_target_pointer, cvars, saa>>

(* update_interval(): the open interval from new_start on *)
NewStartAfter == scan.from + scan.total     \* mutant of NewStart
NewStart      == scan.from + scan.total - 1

RestKept(new_start, end) == <<<<new_start, end>>>>   \* mutant of Rest
Rest(new_start, end) == IF new_start = end THEN <<>> ELSE <<<<new_start, end>>>>

(* Mutant: of a clock that has moved already *)
ReportMoved(start) ==
  last' = Ended(IF scan.needed > 0 THEN "short" ELSE "done", scan.mjd_end, scan)

Report(start) ==
  last' = Ended(IF scan.needed > 0 THEN "short" ELSE "done", start, scan)

(* The end of schedule_target() *)
FinishSequential ==
  /\ scan.phase = "bin" /\ (scan.needed = 0 \/ Exhausted)
  /\ scan.mode = "sequential"
  /\ IF NewStart > scan.limit
       THEN /\ last' = Raised("IntervalLimitExceeded")
            /\ UNCHANGED timeline
       ELSE /\ open_intervals' = Rest(NewStart, scan.limit)
            /\ current_mjd' = scan.mjd_end
            /\ spent' = spent \union scan.counted
            /\ Report(current_mjd)
  /\ scan' = Idle
  /\ UNCHANGED <<current_target_pointer, registered, caches>>

(* The end of schedule_targetFirst(), which leaves the timeline alone; the *)
(* start, from_mjd, is what its caller knows.                              *)
FinishFirst ==
  /\ scan.phase = "bin" /\ (scan.needed = 0 \/ Exhausted)
  /\ scan.mode = "first"
  /\ Report(scan.mjd - scan.total * TicksPerBin)
  /\ scan' = Idle
  /\ UNCHANGED <<timeline, current_target_pointer, registered, caches>>

ScanStep ==
  \/ \E blocked \in BOOLEAN : TakeBin(blocked)
  \/ \E sky \in BOOLEAN, c_ok \in BOOLEAN : in_saa(sky, c_ok) \/ targ_occulted(sky, c_ok)
  \/ FinishSequential
  \/ FinishFirst

Next ==
  \/ \E c_ok \in BOOLEAN : register_target(c_ok)
  \/ \E t \in Numbers, exp \in Exposures : schedule_target(t, exp)
  \/ \E from \in FromTicks, t \in Numbers, exp \in Exposures : schedule_targetFirst(from, t, exp)
  \/ ScanStep

(* A loop that has begun is run: the interpreter has nothing else to do. *)
Spec == Init /\ [][Next]_vars /\ WF_vars(ScanStep)

----------------------------------------------------------------------------

TypeOK ==
  /\ open_intervals \in {<<>>} \union {<<<<k, NBins>>>> : k \in Bins}
  /\ current_mjd \in Int
  /\ current_target_pointer \in -1 .. CallBound - 1
  /\ registered \subseteq Targets
  /\ polar \subseteq Bins
  /\ saa \in [Bins -> Answers]
  /\ occult \in [Targets -> [Bins -> Answers]]
  /\ scan = Idle \/ scan \in Scans
  /\ spent \subseteq Int

(* The timeline and the clock are kept apart (Timeline has "no information *)
(* linking a given bin to its corresponding mjd"), one in bins and one in  *)
(* days, and a call reports its start from the clock and scans from the    *)
(* timeline.  They stay together through every call, finished, short or    *)
(* raised half way.                                                        *)
ClockOnTimeline ==
  /\ open_intervals = <<>> => current_mjd = Mjd(NBins)
  /\ open_intervals # <<>> =>
       /\ current_mjd = Mjd(open_intervals[1][1])
       /\ open_intervals[1][1] \in Bins
       /\ open_intervals[1][2] = NBins
  /\ scan # Idle /\ scan.mode = "sequential" =>
       /\ open_intervals = <<<<scan.from, scan.limit>>>>
       /\ scan.mjd = Mjd(scan.k)

(* A call that says it placed its target has found as many bins as the     *)
(* exposure needs, none of them in the SAA or occulted, ends in the last of *)
(* them, and has passed over a bin only for a reason: no exposure is lost,  *)
(* and the target is placed as early as it can be.                         *)
ExposureDelivered ==
  last.status = "done" /\ last.exp > 0 =>
    /\ Cardinality(last.counted) = last.exp
    /\ \A k \in last.counted :
         /\ Known(saa[k]) /\ ~saa[k].is
         /\ Known(occult[last.targ][k]) /\ ~occult[last.targ][k].is
         /\ last.start <= Mjd(k + 1) - 1 /\ Mjd(k) <= last.end
    /\ \E k \in last.counted : last.end \in Mjd(k) .. Mjd(k + 1) - 1
    /\ \A k \in BinOf(last.start) .. BinOf(last.end) \ (last.counted \union last.blocked) :
         saa[k].is \/ occult[last.targ][k].is

(* Py_Tako.py:91-96: the cache has one answer per bin and is shared by all *)
(* callers.  The answer kept for a bin was computed within the bin, and    *)
(* never from the vector that the C code leaves unset when it is asked     *)
(* about the SAA of a bin twice.                                           *)
AnswersOfTheirBin ==
  \A k \in Bins :
    /\ Known(saa[k]) => saa[k].at \in Mjd(k) .. Mjd(k + 1) - 1
    /\ \A t \in Targets : Known(occult[t][k]) => occult[t][k].at \in Mjd(k) .. Mjd(k + 1) - 1

(* Py_Tako.py:46: the check of update_interval() never fails a target that *)
(* the loop has placed.                                                    *)
LimitNeverExceeded == last.status # "IntervalLimitExceeded"

(* A scan ends, whatever the sky answers: the loop runs out of exposure or *)
(* of bins.                                                                *)
ScanEnds == (scan # Idle) ~> (scan = Idle)

----------------------------------------------------------------------------
(* What the comments say and the code does not do.                         *)

(* Py_Tako.py:24-26 "Once an interval has been 'used', the interval must be  *)
(* updated to reflect the number of bins that were 'used' (scheduled)": no    *)
(* bin counts for the exposures of two targets.                            *)
BinsSpentOnce ==
  scan # Idle /\ scan.mode = "sequential" => scan.counted \intersect spent = {}
==============================================================================
