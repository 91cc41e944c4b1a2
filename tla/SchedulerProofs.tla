--------------------------- MODULE SchedulerProofs ---------------------------
(***************************************************************************)
(* Proofs about Scheduler, for every timeline, number of targets, bin size *)
(* and set of exposures without the exposure 0, which moves the timeline   *)
(* back behind the clock.                                                  *)
(***************************************************************************)
EXTENDS Scheduler, FiniteSetTheorems, TLAPS

(* The clock and the interval left are the same time. *)
Together ==
  /\ open_intervals \in {<<>>} \union {<<<<k, NBins>>>> : k \in Bins}
  /\ current_mjd = IF open_intervals = <<>> THEN Mjd(NBins) ELSE Mjd(open_intervals[1][1])

(* A scan in progress: its time is in its bin, and needs more of it. *)
InItsBin ==
  scan # Idle =>
    /\ Mjd(scan.k) <= scan.mjd
    /\ scan.mjd < Mjd(scan.k + 1)
    /\ scan.phase # "bin" => scan.needed > 0

(* A sequential scan has counted, in total, the bins from the start of the *)
(* interval to the bin before scan.k, or to scan.k when that is taken.     *)
Taken == IF scan.phase = "bin" THEN scan.k - scan.from ELSE scan.k - scan.from + 1

Counting ==
  scan # Idle /\ scan.mode = "sequential" =>
    /\ open_intervals = <<<<scan.from, NBins>>>>
    /\ scan.from \in Bins
    /\ scan.limit = NBins
    /\ scan.k <= (IF scan.phase = "bin" THEN NBins + 1 ELSE NBins)
    /\ scan.mjd = Mjd(scan.k)
    /\ scan.total = Taken
    /\ scan.phase # "bin" => scan.total > 0
    /\ scan.total = 0 => scan.needed > 0
    /\ scan.total > 0 => scan.mjd_end = Mjd(scan.from + scan.total - 1)

(* The C code has the polar vector of a bin only if Python has the answer. *)
AskedOnce == \A k \in polar : Known(saa[k])

SchedulerInv ==
  /\ TypeOK
  /\ Together
  /\ InItsBin
  /\ Counting
  /\ AskedOnce
  /\ AnswersOfTheirBin
  /\ LimitNeverExceeded

----------------------------------------------------------------------------

(* One answer stored in a table of answers. *)
LEMMA AnswerStored ==
  ASSUME NEW A, NEW B, NEW W, NEW t \in [A -> [B -> W]],
         NEW row \in A, NEW col \in B, NEW v \in W
  PROVE  /\ [t EXCEPT ![row][col] = v] \in [A -> [B -> W]]
         /\ \A a \in A, b \in B :
              [t EXCEPT ![row][col] = v][a][b] = IF a = row /\ b = col THEN v ELSE t[a][b]
OBVIOUS

LEMMA MjdType == ASSUME NEW k \in Int PROVE Mjd(k) \in Int
BY SchedulerSizes DEF Mjd

LEMMA MjdStep ==
  ASSUME NEW k \in Int
  PROVE  Mjd(k + 1) = Mjd(k) + TicksPerBin
BY SchedulerSizes, SMT DEF Mjd

LEMMA MjdNat == ASSUME NEW k \in Nat PROVE Mjd(k) \in Nat
BY SchedulerSizes, SMT DEF Mjd

(* The bin of a time holds it. *)
LEMMA BinOfMjd ==
  ASSUME NEW mjd \in Int
  PROVE  /\ BinOf(mjd) \in Int
         /\ Mjd(BinOf(mjd)) <= mjd
         /\ mjd < Mjd(BinOf(mjd)) + TicksPerBin
BY SchedulerSizes, SMT DEF Mjd, BinOf

(* A scan with a phase other than "idle" is a scan. *)
LEMMA ScanTyped ==
  ASSUME TypeOK, scan.phase # "idle"
  PROVE  scan \in Scans /\ scan # Idle
BY DEF TypeOK, Idle

LEMMA RaisedIsNoLimit ==
  ASSUME NEW e, e # "IntervalLimitExceeded"
  PROVE  Raised(e).status # "IntervalLimitExceeded"
BY DEF Raised, Ended, Begin

LEMMA BeginTyped ==
  ASSUME NEW mode \in {"sequential", "first"}, NEW t \in Numbers, NEW k \in Int,
         NEW mjd \in Int, NEW limit \in Int, NEW exp \in Nat, NEW mjd_end \in Int
  PROVE  Begin(mode, t, k, mjd, limit, exp, mjd_end) \in Scans
BY DEF Begin, Scans

(* What a step of the loop changes of a scan.  Same(q, r, F) says what it  *)
(* leaves.                                                                 *)
Same(q, r, F) == \A f \in F : q[f] = r[f]

Given == {"mode", "targ", "from", "limit", "exp"}     \* fields that no step changes

LEMMA AdvanceFields ==
  ASSUME NEW s \in Scans
  PROVE  /\ Advance(s) \in Scans
         /\ Advance(s).phase = "bin"
         /\ Advance(s).k = s.k + 1
         /\ Advance(s).mjd = s.mjd + TicksPerBin
         /\ Same(Advance(s), s, Given \union {"total", "needed", "mjd_end", "counted", "blocked"})
<1> DEFINE a == [s EXCEPT !.phase = "bin"]
           b == [a EXCEPT !.k = s.k + 1]
           c == [b EXCEPT !.mjd = s.mjd + TicksPerBin]
           F == {"mode", "targ", "from", "limit", "exp", "total", "needed", "mjd_end",
                 "counted", "blocked"}
<1>1. Advance(s) = c
  BY Zenon DEF Advance
<1>2. s.mjd + TicksPerBin \in Int /\ s.k + 1 \in Int
  BY SchedulerSizes DEF Scans
<1>3. a \in Scans /\ a.phase = "bin" /\ \A f \in F : a[f] = s[f]
  BY DEF Scans
<1> HIDE DEF a
<1>4. b \in Scans /\ b.phase = "bin" /\ b.k = s.k + 1 /\ \A f \in F : b[f] = s[f]
  BY <1>2, <1>3 DEF Scans
<1> HIDE DEF b
<1>5. /\ c \in Scans /\ c.phase = "bin" /\ c.k = s.k + 1 /\ c.mjd = s.mjd + TicksPerBin
      /\ \A f \in F : c[f] = s[f]
  BY <1>2, <1>4 DEF Scans
<1> QED BY <1>1, <1>5 DEF Same, Given

LEMMA TakeBinFields ==
  ASSUME scan \in Scans, NEW blocked \in BOOLEAN, TakeBin(blocked)
  PROVE  /\ scan' \in Scans
         /\ scan'.total = scan.total + 1
         /\ scan'.mjd_end = scan.mjd
         /\ Same(scan', scan, Given \union {"needed", "counted"})
         /\ blocked => /\ scan'.phase = "bin"
                       /\ scan'.k = scan.k + 1
                       /\ scan'.mjd = scan.mjd + TicksPerBin
                       /\ scan'.blocked = scan.blocked \union {scan.k}
         /\ ~blocked => /\ scan'.phase = "saa"
                        /\ Same(scan', scan, {"k", "mjd", "blocked"})
<1> DEFINE a == [scan EXCEPT !.total = scan.total + 1]
           taken == [a EXCEPT !.mjd_end = scan.mjd]
           b == [taken EXCEPT !.blocked = taken.blocked \union {scan.k}]
           c == [taken EXCEPT !.phase = "saa"]
           F == {"mode", "targ", "from", "limit", "exp", "needed", "counted", "k", "mjd"}
<1>1. scan.total + 1 \in Nat /\ scan.mjd \in Int /\ scan.k \in Int
  BY DEF Scans
<1>2. scan' = IF blocked THEN Advance(b) ELSE c
  BY Zenon DEF TakeBin
<1>3. /\ a \in Scans /\ a.total = scan.total + 1 /\ a.blocked = scan.blocked
      /\ \A f \in F : a[f] = scan[f]
  BY <1>1 DEF Scans
<1> HIDE DEF a
<1>4. /\ taken \in Scans /\ taken.total = scan.total + 1 /\ taken.mjd_end = scan.mjd
      /\ taken.blocked = scan.blocked /\ \A f \in F : taken[f] = scan[f]
  BY <1>1, <1>3 DEF Scans
<1> HIDE DEF taken
<1>5. CASE blocked
  <2>1. /\ b \in Scans /\ b.total = scan.total + 1 /\ b.mjd_end = scan.mjd
        /\ b.blocked = scan.blocked \union {scan.k} /\ \A f \in F : b[f] = scan[f]
    BY <1>1, <1>4 DEF Scans
  <2> HIDE DEF b
  <2>2. scan' = Advance(b)
    BY <1>2, <1>5
  <2> QED BY <1>5, <2>1, <2>2, AdvanceFields DEF Same, Given
<1>6. CASE ~blocked
  <2>1. /\ c \in Scans /\ c.total = scan.total + 1 /\ c.mjd_end = scan.mjd
        /\ c.phase = "saa" /\ c.blocked = scan.blocked /\ \A f \in F : c[f] = scan[f]
    BY <1>1, <1>4 DEF Scans
  <2> QED BY <1>2, <1>6, <2>1 DEF Same, Given
<1> QED BY <1>5, <1>6

LEMMA AfterSaaFields ==
  ASSUME NEW s \in Scans, NEW is \in BOOLEAN
  PROVE  /\ AfterSaa(s, is) \in Scans
         /\ Same(AfterSaa(s, is), s,
                 Given \union {"total", "needed", "mjd_end", "counted", "blocked"})
         /\ is => /\ AfterSaa(s, is).phase = "bin"
                  /\ AfterSaa(s, is).k = s.k + 1
                  /\ AfterSaa(s, is).mjd = s.mjd + TicksPerBin
         /\ ~is => /\ AfterSaa(s, is).phase = "occult"
                   /\ Same(AfterSaa(s, is), s, {"k", "mjd"})
<1>1. CASE is
  BY <1>1, AdvanceFields DEF AfterSaa
<1>2. CASE ~is
  <2> DEFINE c == [s EXCEPT !.phase = "occult"]
  <2>1. /\ c \in Scans /\ c.phase = "occult"
        /\ \A f \in {"mode", "targ", "from", "limit", "exp", "total", "needed", "mjd_end",
                      "counted", "blocked", "k", "mjd"} : c[f] = s[f]
    BY DEF Scans
  <2> QED BY <1>2, <2>1 DEF AfterSaa, Same, Given
<1> QED BY <1>1, <1>2

(* A bin that counts, too. *)
LEMMA AfterOccultFields ==
  ASSUME NEW s \in Scans, s.needed > 0, NEW is \in BOOLEAN
  PROVE  /\ AfterOccult(s, is) \in Scans
         /\ Same(AfterOccult(s, is), s, Given \union {"total", "mjd_end", "blocked"})
         /\ AfterOccult(s, is).phase = "bin"
         /\ AfterOccult(s, is).k = s.k + 1
         /\ AfterOccult(s, is).mjd = s.mjd + TicksPerBin
         /\ is => Same(AfterOccult(s, is), s, {"needed", "counted"})
         /\ ~is => /\ AfterOccult(s, is).needed = s.needed - 1
                   /\ AfterOccult(s, is).counted = s.counted \union {s.k}
<1>1. CASE is
  BY <1>1, AdvanceFields DEF AfterOccult, Same
<1>2. CASE ~is
  <2> DEFINE a == [s EXCEPT !.needed = s.needed - 1]
             c == [a EXCEPT !.counted = a.counted \union {s.k}]
             F == {"mode", "targ", "from", "limit", "exp", "total", "mjd_end", "blocked",
                   "k", "mjd"}
  <2>1. s.needed - 1 \in Nat /\ s.k \in Int
    BY DEF Scans
  <2>2. AfterOccult(s, is) = Advance(c)
    BY <1>2, Zenon DEF AfterOccult, Count
  <2>3. /\ a \in Scans /\ a.needed = s.needed - 1 /\ a.counted = s.counted
        /\ \A f \in F : a[f] = s[f]
    BY <2>1 DEF Scans
  <2> HIDE DEF a
  <2>4. /\ c \in Scans /\ c.needed = s.needed - 1 /\ c.counted = s.counted \union {s.k}
        /\ \A f \in F : c[f] = s[f]
    BY <2>1, <2>3 DEF Scans
  <2> HIDE DEF c
  <2> QED BY <1>2, <2>2, <2>4, AdvanceFields DEF Same, Given
<1> QED BY <1>1, <1>2

(* The time stays in the bin when both move by one. *)
LEMMA BinMoves ==
  ASSUME NEW k \in Int, NEW mjd \in Int, Mjd(k) <= mjd, mjd < Mjd(k + 1)
  PROVE  /\ Mjd(k + 1) <= mjd + TicksPerBin /\ mjd + TicksPerBin < Mjd(k + 1 + 1)
         /\ mjd = Mjd(k) => mjd + TicksPerBin = Mjd(k + 1)
<1>1. Mjd(k + 1) = Mjd(k) + TicksPerBin /\ Mjd(k + 1 + 1) = Mjd(k + 1) + TicksPerBin
  BY MjdStep
<1>2. Mjd(k) \in Int /\ TicksPerBin \in Int
  BY MjdType, SchedulerSizes
<1> QED BY <1>1, <1>2, SMT

(* What the invariant says of a scan in progress, and that it is all that  *)
(* a step that leaves timeline and caches alone has to keep.               *)
ScanHolds(s) ==
  /\ s \in Scans
  /\ Mjd(s.k) <= s.mjd
  /\ s.mjd < Mjd(s.k + 1)
  /\ s.phase # "bin" => s.needed > 0
  /\ s.mode = "sequential" =>
       /\ open_intervals = <<<<s.from, NBins>>>>
       /\ s.from \in Bins
       /\ s.limit = NBins
       /\ s.k <= (IF s.phase = "bin" THEN NBins + 1 ELSE NBins)
       /\ s.mjd = Mjd(s.k)
       /\ s.total = (IF s.phase = "bin" THEN s.k - s.from ELSE s.k - s.from + 1)
       /\ s.phase # "bin" => s.total > 0
       /\ s.total = 0 => s.needed > 0
       /\ s.total > 0 => s.mjd_end = Mjd(s.from + s.total - 1)

LEMMA ScanHoldsNow ==
  ASSUME SchedulerInv, scan.phase # "idle"
  PROVE  ScanHolds(scan)
BY ScanTyped DEF ScanHolds, SchedulerInv, InItsBin, Counting, Taken

LEMMA ScanHoldsNext ==
  ASSUME ScanHolds(scan'), UNCHANGED open_intervals
  PROVE  InItsBin' /\ Counting' /\ scan' \in Scans
BY DEF ScanHolds, InItsBin, Counting, Taken

----------------------------------------------------------------------------

LEMMA RegisterKeeps ==
  ASSUME SchedulerInv, NEW c_ok \in BOOLEAN, register_target(c_ok)
  PROVE  SchedulerInv'
<1> USE DEF SchedulerInv, register_target, timeline, caches
<1>1. scan' = Idle /\ UNCHANGED <<open_intervals, current_mjd, spent, saa, occult, polar>>
  OBVIOUS
<1>2. TypeOK'
  <2>1. current_target_pointer' \in -1 .. CallBound - 1
    BY SchedulerSizes DEF TypeOK
  <2>2. current_target_pointer + 1 < NTargets => current_target_pointer + 1 \in Targets
    BY SchedulerSizes DEF TypeOK, Targets
  <2>3. registered \subseteq Targets
    BY DEF TypeOK
  <2>4. registered' \subseteq registered \union {current_target_pointer + 1}
        /\ (registered' # registered => current_target_pointer + 1 < NTargets)
    OBVIOUS
  <2>5. registered' \subseteq Targets
    BY <2>2, <2>3, <2>4
  <2> QED BY <1>1, <2>1, <2>5 DEF TypeOK
<1>3. LimitNeverExceeded'
  BY RaisedIsNoLimit DEF LimitNeverExceeded
<1>4. Together' /\ AskedOnce' /\ AnswersOfTheirBin'
  BY <1>1 DEF Together, AskedOnce, AnswersOfTheirBin
<1>5. InItsBin' /\ Counting'
  BY <1>1 DEF InItsBin, Counting
<1> QED BY <1>2, <1>3, <1>4, <1>5

LEMMA ScheduleKeeps ==
  ASSUME SchedulerInv, NEW t \in Numbers, NEW exp \in Exposures, 0 \notin Exposures,
         schedule_target(t, exp)
  PROVE  SchedulerInv'
<1> USE DEF SchedulerInv
<1>1. UNCHANGED <<open_intervals, current_mjd, spent, saa, occult, polar,
                  current_target_pointer, registered>>
  BY DEF schedule_target, timeline, cvars
<1>2. Together' /\ AskedOnce' /\ AnswersOfTheirBin'
  BY <1>1 DEF Together, AskedOnce, AnswersOfTheirBin
<1>3. CASE UNCHANGED scan
  <2>1. scan = Idle /\ scan' = Idle
    BY <1>3 DEF schedule_target
  <2>2. LimitNeverExceeded'
    BY RaisedIsNoLimit DEF LimitNeverExceeded, schedule_target
  <2>3. TypeOK'
    BY <1>1, <1>3 DEF TypeOK
  <2>4. InItsBin' /\ Counting'
    BY <2>1 DEF InItsBin, Counting
  <2> QED BY <1>2, <2>2, <2>3, <2>4
<1>4. CASE ~ UNCHANGED scan
  <2>1. open_intervals # <<>> /\ UNCHANGED last
    BY <1>4 DEF schedule_target
  <2>2. PICK k \in Bins : open_intervals = <<<<k, NBins>>>>
    BY <2>1 DEF Together
  <2>3. scan' = Begin("sequential", t, k, Mjd(k), NBins, exp, current_mjd)
    BY <1>4, <2>1, <2>2 DEF schedule_target
  <2>4. k \in Int /\ Mjd(k) \in Int /\ Mjd(k + 1) = Mjd(k) + TicksPerBin
        /\ TicksPerBin \in Nat \ {0} /\ NBins \in Int /\ exp \in Nat /\ exp > 0
    BY SchedulerSizes, MjdType, MjdStep DEF Bins
  <2>5. TypeOK'
    BY <1>1, <2>3, <2>4, BeginTyped DEF TypeOK
  <2>6. InItsBin'
    BY <2>3, <2>4 DEF InItsBin, Begin, Idle
  <2>7. Counting'
    BY <1>1, <2>2, <2>3, <2>4 DEF Counting, Taken, Begin, Idle, Bins
  <2>8. LimitNeverExceeded'
    BY <2>1 DEF LimitNeverExceeded
  <2> QED BY <1>2, <2>5, <2>6, <2>7, <2>8
<1> QED BY <1>3, <1>4

LEMMA ScheduleFirstKeeps ==
  ASSUME SchedulerInv, NEW from \in FromTicks, NEW t \in Numbers, NEW exp \in Exposures,
         schedule_targetFirst(from, t, exp)
  PROVE  SchedulerInv'
<1> USE DEF SchedulerInv
<1>1. UNCHANGED <<open_intervals, current_mjd, spent, saa, occult, polar,
                  current_target_pointer, registered>>
  BY DEF schedule_targetFirst, timeline, cvars
<1>2. Together' /\ AskedOnce' /\ AnswersOfTheirBin'
  BY <1>1 DEF Together, AskedOnce, AnswersOfTheirBin
<1>3. CASE UNCHANGED scan
  <2>1. scan = Idle /\ scan' = Idle
    BY <1>3 DEF schedule_targetFirst
  <2>2. LimitNeverExceeded'
    BY RaisedIsNoLimit DEF LimitNeverExceeded, schedule_targetFirst
  <2>3. TypeOK'
    BY <1>1, <1>3 DEF TypeOK
  <2>4. InItsBin' /\ Counting'
    BY <2>1 DEF InItsBin, Counting
  <2> QED BY <1>2, <2>2, <2>3, <2>4
<1>4. CASE ~ UNCHANGED scan
  <2>1. scan' = Begin("first", t, BinOf(from), from, NBins - 1, exp, from) /\ UNCHANGED last
    BY <1>4 DEF schedule_targetFirst
  <2>2. from \in Int /\ NBins - 1 \in Int /\ exp \in Nat
    BY SchedulerSizes
  <2>3. /\ BinOf(from) \in Int
        /\ Mjd(BinOf(from)) <= from
        /\ from < Mjd(BinOf(from) + 1)
    BY <2>2, BinOfMjd, MjdStep
  <2>4. TypeOK'
    BY <1>1, <2>1, <2>2, <2>3, BeginTyped DEF TypeOK
  <2>5. InItsBin' /\ Counting'
    BY <2>1, <2>3 DEF InItsBin, Counting, Begin, Idle
  <2>6. LimitNeverExceeded'
    BY <2>1 DEF LimitNeverExceeded
  <2> QED BY <1>2, <2>4, <2>5, <2>6
<1> QED BY <1>3, <1>4

----------------------------------------------------------------------------

(* A question of the loop answered without effect on the timeline. *)
LEMMA QuietKeeps ==
  ASSUME SchedulerInv,
         UNCHANGED <<timeline, current_target_pointer, registered, saa, occult, polar, last>>,
         ScanHolds(scan')
  PROVE  SchedulerInv'
<1>1. UNCHANGED <<open_intervals, current_mjd, spent>>
  BY DEF timeline
<1>2. InItsBin' /\ Counting' /\ scan' \in Scans
  BY <1>1, ScanHoldsNext
<1>3. TypeOK'
  BY <1>1, <1>2 DEF TypeOK, SchedulerInv
<1>4. Together' /\ AskedOnce' /\ AnswersOfTheirBin' /\ LimitNeverExceeded'
  BY <1>1 DEF SchedulerInv, Together, AskedOnce, AnswersOfTheirBin, LimitNeverExceeded
<1> QED BY <1>2, <1>3, <1>4 DEF SchedulerInv

LEMMA TakeBinKeeps ==
  ASSUME SchedulerInv, NEW blocked \in BOOLEAN, TakeBin(blocked)
  PROVE  SchedulerInv'
<1>1. /\ scan.phase = "bin" /\ scan.needed > 0 /\ scan.k <= scan.limit
      /\ UNCHANGED <<timeline, current_target_pointer, registered, saa, occult, polar, last>>
  <2>1. ScanHolds(scan)
    BY ScanHoldsNow DEF TakeBin
  <2> QED BY <2>1 DEF TakeBin, Exhausted, caches, ScanHolds, Scans
<1>2. ScanHolds(scan)
  BY <1>1, ScanHoldsNow
<1>3. /\ scan \in Scans /\ scan.total \in Nat /\ scan.from \in Int /\ scan.k \in Int
      /\ scan.mjd \in Int /\ scan.limit \in Int
  BY <1>2 DEF ScanHolds, Scans
<1>4. /\ scan' \in Scans /\ scan'.total = scan.total + 1 /\ scan'.mjd_end = scan.mjd
      /\ scan'.mode = scan.mode /\ scan'.from = scan.from /\ scan'.limit = scan.limit
      /\ scan'.needed = scan.needed
  BY <1>3, TakeBinFields DEF Same, Given
<1>5. \/ scan'.phase = "bin" /\ scan'.k = scan.k + 1 /\ scan'.mjd = scan.mjd + TicksPerBin
      \/ scan'.phase = "saa" /\ scan'.k = scan.k /\ scan'.mjd = scan.mjd
  BY <1>3, TakeBinFields DEF Same
<1>6. /\ Mjd(scan'.k) <= scan'.mjd /\ scan'.mjd < Mjd(scan'.k + 1)
      /\ scan.mjd = Mjd(scan.k) => scan'.mjd = Mjd(scan'.k)
  BY <1>2, <1>3, <1>5, BinMoves DEF ScanHolds
<1>7. scan.mode = "sequential" => scan.from + (scan.total + 1) - 1 = scan.k
  BY <1>1, <1>2, <1>3 DEF ScanHolds
<1>8. ScanHolds(scan')
  BY <1>1, <1>2, <1>3, <1>4, <1>5, <1>6, <1>7, SchedulerSizes DEF ScanHolds
<1> QED BY <1>1, <1>8, QuietKeeps

LEMMA RaiseKeeps ==
  ASSUME SchedulerInv, NEW e, e # "IntervalLimitExceeded", Raise(e),
         UNCHANGED <<timeline, current_target_pointer, registered, saa, occult, polar>>
  PROVE  SchedulerInv'
<1>1. scan' = Idle /\ last' = Raised(e) /\ UNCHANGED <<open_intervals, current_mjd, spent>>
  BY DEF Raise, timeline
<1>2. TypeOK' /\ Together' /\ AskedOnce' /\ AnswersOfTheirBin'
  BY <1>1 DEF SchedulerInv, TypeOK, Together, AskedOnce, AnswersOfTheirBin
<1>3. InItsBin' /\ Counting'
  BY <1>1 DEF InItsBin, Counting
<1>4. LimitNeverExceeded'
  BY <1>1, RaisedIsNoLimit DEF LimitNeverExceeded
<1> QED BY <1>2, <1>3, <1>4 DEF SchedulerInv

(* A bin that was taken is passed over or counted, and the loop goes on;  *)
(* what is left to count may be nothing then.                              *)
LEMMA GoesOnHolds ==
  ASSUME ScanHolds(scan), scan.phase # "bin", NEW n \in Scans,
         n.phase = "bin", n.k = scan.k + 1, n.mjd = scan.mjd + TicksPerBin,
         Same(n, scan, Given \union {"total", "mjd_end"})
  PROVE  ScanHolds(n)
<1>1. /\ scan \in Scans /\ scan.k \in Int /\ scan.mjd \in Int /\ scan.from \in Int
      /\ scan.total \in Nat /\ scan.limit \in Int
  BY DEF ScanHolds, Scans
<1>2. /\ n.mode = scan.mode /\ n.from = scan.from /\ n.limit = scan.limit
      /\ n.total = scan.total /\ n.mjd_end = scan.mjd_end
  BY DEF Same, Given
<1>3. /\ Mjd(n.k) <= n.mjd /\ n.mjd < Mjd(n.k + 1)
      /\ scan.mjd = Mjd(scan.k) => n.mjd = Mjd(n.k)
  BY <1>1, BinMoves DEF ScanHolds
<1> QED BY <1>1, <1>2, <1>3, SchedulerSizes DEF ScanHolds

LEMMA AfterSaaHolds ==
  ASSUME ScanHolds(scan), scan.phase = "saa", NEW is \in BOOLEAN
  PROVE  ScanHolds(AfterSaa(scan, is))
<1> DEFINE n == AfterSaa(scan, is)
<1>1. /\ scan \in Scans /\ n \in Scans
      /\ Same(n, scan, Given \union {"total", "needed", "mjd_end"})
      /\ is => n.phase = "bin" /\ n.k = scan.k + 1 /\ n.mjd = scan.mjd + TicksPerBin
      /\ ~is => n.phase = "occult" /\ n.k = scan.k /\ n.mjd = scan.mjd
  BY AfterSaaFields DEF ScanHolds, Same
<1> HIDE DEF n
<1>2. scan.phase # "bin" /\ Same(n, scan, Given \union {"total", "mjd_end"})
  BY <1>1 DEF Same
<1>3. ASSUME is PROVE ScanHolds(n)
  BY <1>1, <1>2, <1>3, GoesOnHolds
<1>4. ASSUME ~is PROVE ScanHolds(n)
  <2>1. /\ n.mode = scan.mode /\ n.from = scan.from /\ n.limit = scan.limit
        /\ n.total = scan.total /\ n.needed = scan.needed /\ n.mjd_end = scan.mjd_end
    BY <1>1 DEF Same, Given
  <2> QED BY <1>1, <1>4, <2>1 DEF ScanHolds
<1> QED BY <1>3, <1>4 DEF n

LEMMA AfterOccultHolds ==
  ASSUME ScanHolds(scan), scan.phase = "occult", NEW is \in BOOLEAN
  PROVE  ScanHolds(AfterOccult(scan, is))
<1> DEFINE n == AfterOccult(scan, is)
<1>1. scan \in Scans /\ scan.phase # "bin" /\ scan.needed > 0
  BY DEF ScanHolds
<1>2. /\ n \in Scans /\ n.phase = "bin" /\ n.k = scan.k + 1
      /\ n.mjd = scan.mjd + TicksPerBin
      /\ Same(n, scan, Given \union {"total", "mjd_end"})
  BY <1>1, AfterOccultFields DEF Same
<1> HIDE DEF n
<1>3. ScanHolds(n)
  BY <1>1, <1>2, GoesOnHolds
<1> QED BY <1>3 DEF n

(* The time of a scan is an answer's time for its bin, and can be told from *)
(* that of no answer.                                                      *)
LEMMA FreshAnswer ==
  ASSUME ScanHolds(scan), scan.k \in Bins, NEW sky \in BOOLEAN
  PROVE  /\ [at |-> scan.mjd, is |-> sky] \in Answers
         /\ scan.mjd \in Mjd(scan.k) .. Mjd(scan.k + 1) - 1
         /\ Known([at |-> scan.mjd, is |-> sky])
<1>1. scan.mjd \in Int /\ scan.k \in Nat
  BY SchedulerSizes DEF ScanHolds, Scans, Bins
<1>2. Mjd(scan.k) \in Nat /\ Mjd(scan.k + 1) \in Nat
  BY <1>1, MjdNat
<1>3. Mjd(scan.k) <= scan.mjd /\ scan.mjd < Mjd(scan.k + 1)
  BY DEF ScanHolds
<1>4. scan.mjd # -1
  BY <1>1, <1>2, <1>3
<1> QED BY <1>1, <1>2, <1>3, <1>4 DEF Answers, Known, NoAnswer

LEMMA InSaaKeeps ==
  ASSUME SchedulerInv, NEW sky \in BOOLEAN, NEW c_ok \in BOOLEAN, in_saa(sky, c_ok)
  PROVE  SchedulerInv'
<1>1. scan.phase = "saa" /\ UNCHANGED <<timeline, current_target_pointer, registered, occult>>
  BY DEF in_saa
<1>2. ScanHolds(scan)
  BY <1>1, ScanHoldsNow
<1>3. CASE \E e : e # "IntervalLimitExceeded" /\ Raise(e) /\ UNCHANGED <<saa, polar>>
  BY <1>1, <1>3, RaiseKeeps
<1>4. CASE /\ PyIndex(scan.k) \in Bins
           /\ scan' = AfterSaa(scan, saa[PyIndex(scan.k)].is) /\ UNCHANGED <<saa, polar, last>>
  <2>1. saa[PyIndex(scan.k)].is \in BOOLEAN
    BY <1>4 DEF SchedulerInv, TypeOK, Answers
  <2>2. ScanHolds(scan')
    BY <1>1, <1>2, <1>4, <2>1, AfterSaaHolds
  <2> QED BY <1>1, <1>4, <2>2, QuietKeeps
<1>5. CASE /\ scan.k \in Bins /\ ~Known(saa[scan.k])
           /\ saa' = [saa EXCEPT ![scan.k] =
                        [at |-> IF scan.k \in polar THEN NoTick ELSE scan.mjd, is |-> sky]]
           /\ polar' = polar \union {scan.k}
           /\ scan' = AfterSaa(scan, sky) /\ UNCHANGED last
  <2>1. scan.k \notin polar
    BY <1>5 DEF SchedulerInv, AskedOnce
  <2>2. saa' = [saa EXCEPT ![scan.k] = [at |-> scan.mjd, is |-> sky]]
    BY <1>5, <2>1
  <2>3. /\ [at |-> scan.mjd, is |-> sky] \in Answers
        /\ scan.mjd \in Mjd(scan.k) .. Mjd(scan.k + 1) - 1
        /\ Known([at |-> scan.mjd, is |-> sky])
    BY <1>2, <1>5, FreshAnswer
  <2>4. saa \in [Bins -> Answers] /\ polar \subseteq Bins
    BY DEF SchedulerInv, TypeOK
  <2>5. saa' \in [Bins -> Answers] /\ polar' \subseteq Bins
    BY <1>5, <2>2, <2>3, <2>4
  <2>6. \A k \in Bins : saa'[k] = IF k = scan.k THEN [at |-> scan.mjd, is |-> sky] ELSE saa[k]
    BY <1>5, <2>2, <2>4
  <2>7. ScanHolds(scan')
    BY <1>1, <1>2, <1>5, AfterSaaHolds
  <2>8. UNCHANGED <<open_intervals, current_mjd, spent>>
    BY <1>1 DEF timeline
  <2>9. InItsBin' /\ Counting' /\ scan' \in Scans
    BY <2>7, <2>8, ScanHoldsNext
  <2>10. TypeOK'
    BY <1>1, <2>5, <2>8, <2>9 DEF TypeOK, SchedulerInv
  <2>11. AskedOnce'
    BY <1>5, <2>3, <2>4, <2>6 DEF AskedOnce, SchedulerInv
  <2>12. AnswersOfTheirBin'
    BY <1>1, <2>3, <2>6 DEF AnswersOfTheirBin, SchedulerInv
  <2>13. Together' /\ LimitNeverExceeded'
    BY <1>5, <2>8 DEF Together, LimitNeverExceeded, SchedulerInv
  <2> QED BY <2>9, <2>10, <2>11, <2>12, <2>13 DEF SchedulerInv
<1>6. "IndexError" # "IntervalLimitExceeded" /\ "RuntimeError" # "IntervalLimitExceeded"
  OBVIOUS
<1> QED BY <1>3, <1>4, <1>5, <1>6, Zenon DEF in_saa

LEMMA OccultedKeeps ==
  ASSUME SchedulerInv, NEW sky \in BOOLEAN, NEW c_ok \in BOOLEAN, targ_occulted(sky, c_ok)
  PROVE  SchedulerInv'
<1>1. scan.phase = "occult" /\ UNCHANGED <<timeline, current_target_pointer, registered, polar, saa>>
  BY DEF targ_occulted, cvars
<1>2. ScanHolds(scan)
  BY <1>1, ScanHoldsNow
<1>3. CASE \E e : e # "IntervalLimitExceeded" /\ Raise(e) /\ UNCHANGED occult
  BY <1>1, <1>3, RaiseKeeps
<1>4. CASE /\ scan.targ \in Targets /\ PyIndex(scan.k) \in Bins
           /\ scan' = AfterOccult(scan, occult[scan.targ][PyIndex(scan.k)].is)
           /\ UNCHANGED <<occult, last>>
  <2>1. occult[scan.targ][PyIndex(scan.k)].is \in BOOLEAN
    BY <1>4 DEF SchedulerInv, TypeOK, Answers
  <2>2. ScanHolds(scan')
    BY <1>1, <1>2, <1>4, <2>1, AfterOccultHolds
  <2> QED BY <1>1, <1>4, <2>2, QuietKeeps
<1>5. CASE /\ scan.targ \in registered /\ scan.k \in Bins
           /\ occult' = [occult EXCEPT ![scan.targ][scan.k] = [at |-> scan.mjd, is |-> sky]]
           /\ scan' = AfterOccult(scan, sky) /\ UNCHANGED last
  <2> DEFINE answer == [at |-> scan.mjd, is |-> sky]
  <2>1. answer \in Answers /\ scan.mjd \in Mjd(scan.k) .. Mjd(scan.k + 1) - 1
        /\ answer.at = scan.mjd
    BY <1>2, <1>5, FreshAnswer
  <2>2. occult' = [occult EXCEPT ![scan.targ][scan.k] = answer]
    BY <1>5
  <2> HIDE DEF answer
  <2>3. scan.targ \in Targets /\ scan.k \in Bins /\ occult \in [Targets -> [Bins -> Answers]]
    BY <1>5 DEF SchedulerInv, TypeOK
  <2>4. occult' \in [Targets -> [Bins -> Answers]]
    BY ONLY <2>1, <2>2, <2>3, AnswerStored, Zenon
  <2>5. \A t \in Targets, k \in Bins :
          occult'[t][k] = IF t = scan.targ /\ k = scan.k THEN answer ELSE occult[t][k]
    BY <1>5, <2>2, <2>3, AnswerStored
  <2>6. ScanHolds(scan')
    BY <1>1, <1>2, <1>5, AfterOccultHolds
  <2>7. UNCHANGED <<open_intervals, current_mjd, spent>>
    BY <1>1 DEF timeline
  <2>8. InItsBin' /\ Counting' /\ scan' \in Scans
    BY <2>6, <2>7, ScanHoldsNext
  <2>9. TypeOK'
    BY <1>1, <2>4, <2>7, <2>8 DEF TypeOK, SchedulerInv
  <2>10. AnswersOfTheirBin'
    BY <1>1, <2>1, <2>5 DEF AnswersOfTheirBin, SchedulerInv
  <2>11. Together' /\ LimitNeverExceeded' /\ AskedOnce'
    BY <1>1, <1>5, <2>7 DEF Together, LimitNeverExceeded, AskedOnce, SchedulerInv
  <2> QED BY <2>8, <2>9, <2>10, <2>11 DEF SchedulerInv
<1>6. "IndexError" # "IntervalLimitExceeded" /\ "RuntimeError" # "IntervalLimitExceeded"
  OBVIOUS
<1> QED BY <1>3, <1>4, <1>5, <1>6, Zenon DEF targ_occulted

(* The interval that is left starts at the bin that the clock stands at,   *)
(* the last that was taken.                                                *)
LEMMA SequentialEnds ==
  ASSUME SchedulerInv, FinishSequential
  PROVE  /\ scan.phase = "bin" /\ scan.mode = "sequential" /\ scan' = Idle
         /\ UNCHANGED <<current_target_pointer, registered, saa, occult, polar>>
         /\ scan.from \in Bins /\ current_mjd = Mjd(scan.from) /\ scan.counted \subseteq Int
         /\ NewStart \in 0 .. NBins /\ scan.from <= NewStart /\ scan.k = NewStart + 1
         /\ scan.mjd_end = Mjd(NewStart)
         /\ open_intervals' = Rest(NewStart, NBins)
         /\ current_mjd' = Mjd(NewStart)
         /\ spent' = spent \union scan.counted
         /\ Report(current_mjd)
<1>1. /\ scan.phase = "bin" /\ scan.mode = "sequential" /\ scan' = Idle
      /\ scan.needed = 0 \/ scan.k > scan.limit
      /\ UNCHANGED <<current_target_pointer, registered, saa, occult, polar>>
  BY DEF FinishSequential, Exhausted, caches
<1>2. ScanHolds(scan)
  BY <1>1, ScanHoldsNow
<1>3. /\ open_intervals = <<<<scan.from, NBins>>>> /\ scan.from \in Bins /\ scan.limit = NBins
      /\ scan.k \in Int /\ scan.total \in Nat /\ scan.from \in Int /\ scan.k <= NBins + 1
      /\ scan.total = scan.k - scan.from
      /\ scan.total = 0 => scan.needed > 0
      /\ scan.total > 0 => scan.mjd_end = Mjd(scan.from + scan.total - 1)
      /\ scan.counted \subseteq Int
  BY <1>1, <1>2, SchedulerSizes DEF ScanHolds, Bins, Scans
<1>4. scan.total > 0
  BY <1>1, <1>3, SchedulerSizes DEF Bins
<1>5. /\ NewStart \in 0 .. NBins /\ scan.from <= NewStart /\ scan.k = NewStart + 1
      /\ scan.mjd_end = Mjd(NewStart)
  BY <1>3, <1>4, SchedulerSizes DEF NewStart, Bins
<1>6. current_mjd = Mjd(scan.from)
  <2>1. open_intervals # <<>> /\ open_intervals[1][1] = scan.from
    BY <1>3
  <2> QED BY <2>1 DEF SchedulerInv, Together
<1>7. ~ (NewStart > scan.limit)
  BY <1>3, <1>5, SchedulerSizes
<1>8. /\ open_intervals' = Rest(NewStart, NBins)
      /\ current_mjd' = Mjd(NewStart)
      /\ spent' = spent \union scan.counted
      /\ Report(current_mjd)
  BY <1>3, <1>5, <1>7, Zenon DEF FinishSequential
<1> QED BY <1>1, <1>3, <1>5, <1>6, <1>8

LEMMA FinishSequentialKeeps ==
  ASSUME SchedulerInv, FinishSequential
  PROVE  SchedulerInv'
<1>1. /\ scan' = Idle /\ UNCHANGED <<current_target_pointer, registered, saa, occult, polar>>
      /\ scan.counted \subseteq Int
      /\ NewStart \in 0 .. NBins /\ open_intervals' = Rest(NewStart, NBins)
      /\ current_mjd' = Mjd(NewStart) /\ spent' = spent \union scan.counted
      /\ Report(current_mjd)
  BY SequentialEnds
<1>2. LimitNeverExceeded'
  BY <1>1 DEF LimitNeverExceeded, Report, Ended
<1>3. Together'
  <2>1. CASE NewStart = NBins
    BY <1>1, <2>1 DEF Together, Rest
  <2>2. CASE NewStart # NBins
    <3>1. NewStart \in Bins /\ open_intervals' = <<<<NewStart, NBins>>>>
      BY <1>1, <2>2, SchedulerSizes DEF Rest, Bins
    <3> QED BY <1>1, <3>1 DEF Together
  <2> QED BY <2>1, <2>2
<1>4. TypeOK'
  <2>1. current_mjd' \in Int
    BY <1>1, MjdType
  <2>2. open_intervals' \in {<<>>} \union {<<<<k, NBins>>>> : k \in Bins}
    BY <1>3, SchedulerSizes DEF Together, Bins
  <2> QED BY <1>1, <2>1, <2>2 DEF TypeOK, SchedulerInv
<1>5. InItsBin' /\ Counting'
  BY <1>1 DEF InItsBin, Counting
<1>6. AskedOnce' /\ AnswersOfTheirBin'
  BY <1>1 DEF AskedOnce, AnswersOfTheirBin, SchedulerInv
<1> QED BY <1>2, <1>3, <1>4, <1>5, <1>6 DEF SchedulerInv

LEMMA FinishFirstKeeps ==
  ASSUME SchedulerInv, FinishFirst
  PROVE  SchedulerInv'
<1>1. /\ scan' = Idle
      /\ UNCHANGED <<open_intervals, current_mjd, spent, current_target_pointer, registered,
                     saa, occult, polar>>
  BY DEF FinishFirst, timeline, caches
<1>2. LimitNeverExceeded'
  BY DEF FinishFirst, LimitNeverExceeded, Report, Ended
<1>3. TypeOK' /\ Together' /\ AskedOnce' /\ AnswersOfTheirBin'
  BY <1>1 DEF SchedulerInv, TypeOK, Together, AskedOnce, AnswersOfTheirBin
<1>4. InItsBin' /\ Counting'
  BY <1>1 DEF InItsBin, Counting
<1> QED BY <1>2, <1>3, <1>4 DEF SchedulerInv

----------------------------------------------------------------------------

LEMMA SchedulerInit == Init => SchedulerInv
<1> SUFFICES ASSUME Init PROVE SchedulerInv
  OBVIOUS
<1>1. NoAnswer \in Answers
  BY DEF NoAnswer, Answers
<1>2. TypeOK
  BY <1>1, SchedulerSizes DEF Init, TypeOK, Bins
<1>3. Together
  BY SchedulerSizes DEF Init, Together, Bins, Mjd
<1>4. InItsBin /\ Counting
  BY DEF Init, InItsBin, Counting
<1>5. AskedOnce /\ AnswersOfTheirBin
  BY DEF Init, AskedOnce, AnswersOfTheirBin, Known
<1>6. LimitNeverExceeded
  BY RaisedIsNoLimit DEF Init, LimitNeverExceeded
<1> QED BY <1>2, <1>3, <1>4, <1>5, <1>6 DEF SchedulerInv

LEMMA SchedulerNext ==
  ASSUME 0 \notin Exposures
  PROVE  SchedulerInv /\ [Next]_vars => SchedulerInv'
<1> SUFFICES ASSUME SchedulerInv, [Next]_vars PROVE SchedulerInv'
  OBVIOUS
<1>1. ASSUME NEW c_ok \in BOOLEAN, register_target(c_ok) PROVE SchedulerInv'
  BY <1>1, RegisterKeeps
<1>2. ASSUME NEW t \in Numbers, NEW exp \in Exposures, schedule_target(t, exp)
      PROVE  SchedulerInv'
  BY <1>2, ScheduleKeeps
<1>3. ASSUME NEW from \in FromTicks, NEW t \in Numbers, NEW exp \in Exposures,
             schedule_targetFirst(from, t, exp)
      PROVE  SchedulerInv'
  BY <1>3, ScheduleFirstKeeps
<1>4. ASSUME NEW blocked \in BOOLEAN, TakeBin(blocked) PROVE SchedulerInv'
  BY <1>4, TakeBinKeeps
<1>5. ASSUME NEW sky \in BOOLEAN, NEW c_ok \in BOOLEAN,
             in_saa(sky, c_ok) \/ targ_occulted(sky, c_ok)
      PROVE  SchedulerInv'
  BY <1>5, InSaaKeeps, OccultedKeeps
<1>6. CASE FinishSequential
  BY <1>6, FinishSequentialKeeps
<1>7. CASE FinishFirst
  BY <1>7, FinishFirstKeeps
<1>8. CASE UNCHANGED vars
  BY <1>8 DEF vars, SchedulerInv, TypeOK, Together, InItsBin, Counting, Taken, AskedOnce,
              AnswersOfTheirBin, LimitNeverExceeded
<1> QED BY <1>1, <1>2, <1>3, <1>4, <1>5, <1>6, <1>7, <1>8 DEF Next, ScanStep

LEMMA SchedulerInvariant ==
  ASSUME 0 \notin Exposures
  PROVE  Spec => []SchedulerInv
<1>1. SchedulerInv /\ [Next]_vars => SchedulerInv'
  BY SchedulerNext
<1> QED BY <1>1, SchedulerInit, PTL DEF Spec

(* The scheduler's variables keep their types; in particular at most one   *)
(* interval is open, and it ends with the timeline.                        *)
THEOREM SchedulerTypeCorrect ==
  ASSUME 0 \notin Exposures
  PROVE  Spec => []TypeOK
<1>1. SchedulerInv => TypeOK
  BY DEF SchedulerInv
<1> QED BY <1>1, SchedulerInvariant, PTL

(* The clock that observations are reported by and the bins that they are  *)
(* searched in stay together, for timelines of any length, any bin size    *)
(* and whatever the sky answers and the C code raises.                     *)
THEOREM ClockStaysOnTimeline ==
  ASSUME 0 \notin Exposures
  PROVE  Spec => []ClockOnTimeline
<1>1. SchedulerInv => ClockOnTimeline
  <2> SUFFICES ASSUME SchedulerInv PROVE ClockOnTimeline
    OBVIOUS
  <2>1. open_intervals # <<>> => \E k \in Bins : open_intervals = <<<<k, NBins>>>>
    BY DEF SchedulerInv, Together
  <2>2. scan # Idle /\ scan.mode = "sequential" =>
          open_intervals = <<<<scan.from, scan.limit>>>> /\ scan.mjd = Mjd(scan.k)
    BY DEF SchedulerInv, Counting
  <2> QED BY <2>1, <2>2 DEF SchedulerInv, Together, ClockOnTimeline
<1> QED BY <1>1, SchedulerInvariant, PTL

(* update_interval() never refuses what the loop has counted. *)
THEOREM IntervalSuffices ==
  ASSUME 0 \notin Exposures
  PROVE  Spec => []LimitNeverExceeded
<1>1. SchedulerInv => LimitNeverExceeded
  BY DEF SchedulerInv
<1> QED BY <1>1, SchedulerInvariant, PTL

(* Both caches of Py_Tako.py hold for a bin only what was computed in it,   *)
(* and the polar vector that the C code leaves unset is never used.        *)
THEOREM CachesKeepToTheirBin ==
  ASSUME 0 \notin Exposures
  PROVE  Spec => []AnswersOfTheirBin
<1>1. SchedulerInv => AnswersOfTheirBin
  BY DEF SchedulerInv
<1> QED BY <1>1, SchedulerInvariant, PTL

----------------------------------------------------------------------------
(***************************************************************************)
(* The Scheduler delivers exposures, when no time that                     *)
(* schedule_targetFirst() starts from is before mjdStart, as those index   *)
(* the caches from their end.                                              *)
(*                                                                         *)
(* ExposureDelivered speaks of a call that has ended.  What makes it       *)
(* inductive is the account that a scan keeps on its way, and that an      *)
(* answer in a cache never changes: a bin that a past call counted stays   *)
(* free, and one that it passed over stays in the SAA or occulted.         *)
(***************************************************************************)

Free(t, k) ==
  Known(saa[k]) /\ ~saa[k].is /\ Known(occult[t][k]) /\ ~occult[t][k].is

Skipped(t, k) == k \in Bins /\ (saa[k].is \/ (t \in Targets /\ occult[t][k].is))

(* The bins counted are free, and every other bin is accounted for. *)
Counted(s) ==
  /\ IsFiniteSet(s.counted) /\ Cardinality(s.counted) + s.needed = s.exp
  /\ \A k \in s.counted :
       s.from <= k /\ k < s.k /\ k \in Bins /\ s.targ \in Targets /\ Free(s.targ, k)
  /\ \A k \in s.from .. s.k - 1 :
       k \in s.counted \/ k \in s.blocked \/ Skipped(s.targ, k)

(* The scan is that many bins from its start, and ends in the bin before.  *)
Placed(s) ==
  /\ s.from \in Nat /\ s.from <= s.k
  /\ s.total = IF s.phase = "bin" THEN s.k - s.from ELSE s.k - s.from + 1
  /\ s.needed = 0 => s.k - 1 \in s.counted
  /\ s.phase # "bin" => s.mjd_end = s.mjd
  /\ s.phase = "bin" /\ s.k > s.from => Mjd(s.k - 1) <= s.mjd_end /\ s.mjd_end < Mjd(s.k)
  /\ s.phase = "occult" /\ s.k \in Bins => Known(saa[s.k]) /\ ~saa[s.k].is

Accounted == scan # Idle => Counted(scan) /\ Placed(scan)

(* The call that ended last went from one bin to another. *)
Delivered(from, end) ==
  /\ last.start \in Int /\ Mjd(from) <= last.start /\ last.start < Mjd(from + 1)
  /\ last.end \in Int /\ Mjd(end) <= last.end /\ last.end < Mjd(end + 1)
  /\ Cardinality(last.counted) = last.exp
  /\ end \in last.counted /\ last.targ \in Targets
  /\ \A k \in last.counted : from <= k /\ k <= end /\ k \in Bins /\ Free(last.targ, k)
  /\ \A k \in from .. end : k \in last.counted \/ k \in last.blocked \/ Skipped(last.targ, k)

LastDelivered ==
  last.status = "done" /\ last.exp > 0 => \E from, end \in Bins : Delivered(from, end)

ExposureInv == SchedulerInv /\ Accounted /\ LastDelivered

(* An answer that is there stays. *)
CachesGrow ==
  /\ \A k \in Bins : Known(saa[k]) => saa'[k] = saa[k]
  /\ \A t \in Targets, k \in Bins : Known(occult[t][k]) => occult'[t][k] = occult[t][k]

----------------------------------------------------------------------------

LEMMA MjdMono ==
  ASSUME NEW a \in Int, NEW b \in Int, a <= b
  PROVE  Mjd(a) <= Mjd(b)
<1>1. b - a \in Nat /\ TicksPerBin \in Nat
  BY SchedulerSizes
<1>2. (b - a) * TicksPerBin >= 0
  BY <1>1, SMT
<1> QED BY <1>1, <1>2, SchedulerSizes, SMT DEF Mjd

LEMMA MjdMinus ==
  ASSUME NEW a \in Int, NEW b \in Int
  PROVE  Mjd(a) - Mjd(a - b) = Mjd(b)
BY SchedulerSizes, SMT DEF Mjd

(* A time is in one bin. *)
LEMMA BinOfIs ==
  ASSUME NEW b \in Int, NEW mjd \in Int, Mjd(b) <= mjd, mjd < Mjd(b + 1)
  PROVE  BinOf(mjd) = b
<1> DEFINE q == BinOf(mjd)
<1>1. q \in Int /\ Mjd(q) <= mjd /\ mjd < Mjd(q) + TicksPerBin
  BY BinOfMjd
<1>2. Mjd(q + 1) = Mjd(q) + TicksPerBin
  BY <1>1, MjdStep
<1> HIDE DEF q
<1>3. /\ Mjd(q) \in Int /\ Mjd(q + 1) \in Int /\ Mjd(b) \in Int /\ Mjd(b + 1) \in Int
      /\ TicksPerBin \in Int
  BY <1>1, MjdType, SchedulerSizes
<1>4. ~ (b + 1 <= q)
  <2> SUFFICES ASSUME b + 1 <= q PROVE FALSE
    OBVIOUS
  <2>1. Mjd(b + 1) <= Mjd(q)
    BY <1>1, MjdMono
  <2> QED BY <1>1, <1>3, <2>1
<1>5. ~ (q + 1 <= b)
  <2> SUFFICES ASSUME q + 1 <= b PROVE FALSE
    OBVIOUS
  <2>1. Mjd(q + 1) <= Mjd(b)
    BY <1>1, MjdMono
  <2> QED BY <1>1, <1>2, <1>3, <2>1
<1>6. q = b
  BY <1>1, <1>4, <1>5
<1> QED BY <1>6 DEF q

(* The answers that a call relied on stay as they are. *)
LEMMA AnswersStay ==
  ASSUME TypeOK, CachesGrow, NEW t, NEW k \in Bins
  PROVE  /\ t \in Targets /\ Free(t, k) => Free(t, k)'
         /\ Skipped(t, k) => Skipped(t, k)'
<1>1. Known(saa[k]) => saa'[k] = saa[k]
  BY DEF CachesGrow
<1>2. t \in Targets /\ Known(occult[t][k]) => occult'[t][k] = occult[t][k]
  BY DEF CachesGrow
<1>3. saa[k].is => Known(saa[k])
  BY DEF Known, NoAnswer
<1>4. t \in Targets /\ occult[t][k].is => Known(occult[t][k])
  BY DEF Known, NoAnswer
<1>5. ASSUME t \in Targets, Free(t, k) PROVE Free(t, k)'
  BY <1>1, <1>2, <1>5 DEF Free, Known
<1>6. ASSUME Skipped(t, k) PROVE Skipped(t, k)'
  BY <1>1, <1>2, <1>3, <1>4, <1>6 DEF Skipped
<1> QED BY <1>5, <1>6

(* A call that has ended stays delivered. *)
LEMMA DeliveredStays ==
  ASSUME TypeOK, LastDelivered, CachesGrow, UNCHANGED last
  PROVE  LastDelivered'
<1> SUFFICES ASSUME last.status = "done", last.exp > 0
             PROVE  \E from, end \in Bins : Delivered(from, end)'
  BY DEF LastDelivered
<1>1. PICK from \in Bins, end \in Bins : Delivered(from, end)
  BY DEF LastDelivered
<1>2. last.targ \in Targets
  BY <1>1 DEF Delivered
<1>3. \A k \in last.counted : k \in Bins /\ Free(last.targ, k)'
  BY <1>1, <1>2, AnswersStay DEF Delivered
<1>4. \A k \in from .. end : k \in last.counted \/ k \in last.blocked \/ Skipped(last.targ, k)'
  <2> TAKE k \in from .. end
  <2>1. CASE Skipped(last.targ, k)
    <3>1. k \in Bins
      BY <2>1 DEF Skipped
    <3> QED BY <2>1, <3>1, AnswersStay
  <2> QED BY <1>1, <2>1 DEF Delivered
<1>5. Delivered(from, end)'
  BY <1>1, <1>3, <1>4 DEF Delivered
<1> QED BY <1>5

(* What is delivered is what ExposureDelivered asks for. *)
LEMMA DeliveredIsExposure ==
  ASSUME LastDelivered
  PROVE  ExposureDelivered
<1> SUFFICES ASSUME last.status = "done", last.exp > 0
             PROVE  ExposureDelivered
  BY DEF ExposureDelivered
<1>1. PICK from \in Bins, end \in Bins : Delivered(from, end)
  BY DEF LastDelivered
<1>2. /\ from \in Int /\ end \in Int /\ from + 1 \in Int /\ end + 1 \in Int
      /\ last.start \in Int /\ last.end \in Int
  BY <1>1, SchedulerSizes DEF Delivered, Bins
<1>3. BinOf(last.start) = from /\ BinOf(last.end) = end
  BY <1>1, <1>2, BinOfIs DEF Delivered
<1>4. \A k \in last.counted : last.start <= Mjd(k + 1) - 1 /\ Mjd(k) <= last.end
  <2> TAKE k \in last.counted
  <2>1. k \in Int /\ k + 1 \in Int /\ from <= k /\ k <= end
    BY <1>1, SchedulerSizes DEF Delivered, Bins
  <2>2. Mjd(from + 1) <= Mjd(k + 1) /\ Mjd(k) <= Mjd(end)
    BY <1>2, <2>1, MjdMono
  <2>3. /\ Mjd(from + 1) \in Int /\ Mjd(k + 1) \in Int /\ Mjd(k) \in Int /\ Mjd(end) \in Int
    BY <1>2, <2>1, MjdType
  <2>4. last.start < Mjd(from + 1) /\ Mjd(end) <= last.end
    BY <1>1 DEF Delivered
  <2> QED BY <1>2, <2>2, <2>3, <2>4
<1>5. last.end \in Mjd(end) .. Mjd(end + 1) - 1 /\ end \in last.counted
  <2>1. Mjd(end) \in Int /\ Mjd(end + 1) \in Int
    BY <1>2, MjdType
  <2> QED BY <1>1, <1>2, <2>1 DEF Delivered
<1>6. \A k \in from .. end \ (last.counted \union last.blocked) :
        saa[k].is \/ occult[last.targ][k].is
  BY <1>1 DEF Delivered, Skipped
<1>7. \A k \in last.counted : Free(last.targ, k)
  BY <1>1 DEF Delivered
<1>8. Cardinality(last.counted) = last.exp
  BY <1>1 DEF Delivered
<1> QED BY <1>3, <1>4, <1>5, <1>6, <1>7, <1>8 DEF ExposureDelivered, Free

----------------------------------------------------------------------------
(* One lemma for each action.  A call that begins has counted nothing.     *)

LEMMA BeginAccounts ==
  ASSUME NEW mode \in {"sequential", "first"}, NEW t \in Numbers, NEW k \in Nat,
         NEW mjd \in Int, NEW limit \in Int, NEW exp \in Nat, exp > 0, NEW mjd_end \in Int,
         scan' = Begin(mode, t, k, mjd, limit, exp, mjd_end)
  PROVE  Accounted'
<1>1. /\ scan'.counted = {} /\ scan'.needed = exp /\ scan'.exp = exp /\ scan'.from = k
      /\ scan'.k = k /\ scan'.total = 0 /\ scan'.phase = "bin"
  BY DEF Begin
<1>2. IsFiniteSet({}) /\ Cardinality({}) = 0
  BY FS_EmptySet
<1>3. Counted(scan)'
  BY <1>1, <1>2 DEF Counted
<1>4. Placed(scan)'
  BY <1>1 DEF Placed
<1> QED BY <1>3, <1>4 DEF Accounted

(* What a scan in progress has on its account. *)
LEMMA AccountNow ==
  ASSUME SchedulerInv, Accounted, scan.phase # "idle"
  PROVE  /\ ScanHolds(scan) /\ Counted(scan) /\ Placed(scan)
         /\ scan \in Scans /\ scan.k \in Int /\ scan.from \in Nat /\ scan.mjd \in Int
         /\ scan.mjd_end \in Int
         /\ scan.total \in Nat /\ scan.needed \in Nat /\ scan.exp \in Nat
         /\ Mjd(scan.k) <= scan.mjd /\ scan.mjd < Mjd(scan.k + 1)
<1>1. scan \in Scans /\ scan # Idle
  BY ScanTyped DEF SchedulerInv
<1>2. ScanHolds(scan)
  BY ScanHoldsNow
<1>3. Counted(scan) /\ Placed(scan)
  BY <1>1 DEF Accounted
<1> QED BY <1>1, <1>2, <1>3 DEF Scans, ScanHolds, Placed

LEMMA TakeBinAccounts ==
  ASSUME SchedulerInv, Accounted, NEW blocked \in BOOLEAN, TakeBin(blocked)
  PROVE  Accounted'
<1>1. scan.phase = "bin" /\ scan.needed > 0 /\ UNCHANGED <<saa, occult>>
  BY DEF TakeBin, caches
<1>2. /\ Counted(scan) /\ Placed(scan)
      /\ scan \in Scans /\ scan.k \in Int /\ scan.from \in Nat /\ scan.mjd \in Int
      /\ scan.total \in Nat /\ scan.needed \in Nat
      /\ Mjd(scan.k) <= scan.mjd /\ scan.mjd < Mjd(scan.k + 1)
  BY <1>1, AccountNow
<1>3. /\ scan'.total = scan.total + 1 /\ scan'.mjd_end = scan.mjd /\ scan'.from = scan.from
      /\ scan'.targ = scan.targ /\ scan'.exp = scan.exp /\ scan'.needed = scan.needed
      /\ scan'.counted = scan.counted
  BY <1>2, TakeBinFields DEF Same, Given
<1>4. \/ /\ scan'.phase = "bin" /\ scan'.k = scan.k + 1
         /\ scan'.blocked = scan.blocked \union {scan.k}
      \/ /\ scan'.phase = "saa" /\ scan'.k = scan.k /\ scan'.mjd = scan.mjd
         /\ scan'.blocked = scan.blocked
  BY <1>2, TakeBinFields DEF Same
<1>5. \A k : Free(scan.targ, k)' = Free(scan.targ, k) /\ Skipped(scan.targ, k)' = Skipped(scan.targ, k)
  BY <1>1, <1>3 DEF Free, Skipped, Known
<1>6. Counted(scan)'
  <2>1. \A k \in scan'.counted :
          /\ scan'.from <= k /\ k < scan'.k /\ k \in Bins /\ scan'.targ \in Targets
          /\ Free(scan.targ, k)'
    BY <1>2, <1>3, <1>4, <1>5, SchedulerSizes DEF Counted, Bins
  <2>2. \A k \in scan'.from .. scan'.k - 1 :
          k \in scan'.counted \/ k \in scan'.blocked \/ Skipped(scan.targ, k)'
    BY <1>2, <1>3, <1>4, <1>5 DEF Counted
  <2> QED BY <1>2, <1>3, <2>1, <2>2 DEF Counted
<1>7. Placed(scan)'
  BY <1>1, <1>2, <1>3, <1>4 DEF Placed
<1> QED BY <1>6, <1>7 DEF Accounted

(* On to the next bin, from one that is skipped or counted. *)
LEMMA GoesOnAccounts ==
  ASSUME SchedulerInv, Accounted, scan.phase \in {"saa", "occult"}, CachesGrow,
         scan' \in Scans, scan'.phase = "bin", scan'.k = scan.k + 1,
         Same(scan', scan, Given \union {"total", "mjd_end", "blocked"}),
         NEW t, t = scan.targ, NEW bin, bin = scan.k,
         \/ Same(scan', scan, {"needed", "counted"}) /\ Skipped(t, bin)'
         \/ /\ scan'.needed = scan.needed - 1
            /\ scan'.counted = scan.counted \union {bin}
            /\ t \in Targets /\ bin \in Bins /\ Free(t, bin)'
  PROVE  Accounted'
<1>1. /\ ScanHolds(scan) /\ Counted(scan) /\ Placed(scan)
      /\ scan \in Scans /\ scan.k \in Int /\ scan.from \in Nat /\ scan.mjd \in Int
      /\ scan.total \in Nat /\ scan.needed \in Nat /\ scan.exp \in Nat
      /\ Mjd(scan.k) <= scan.mjd /\ scan.mjd < Mjd(scan.k + 1)
  BY AccountNow
<1>2. scan.needed > 0
  BY <1>1 DEF ScanHolds
<1>3. /\ scan'.targ = t /\ scan'.from = scan.from /\ scan'.exp = scan.exp
      /\ scan'.total = scan.total /\ scan'.mjd_end = scan.mjd_end /\ scan'.blocked = scan.blocked
  BY DEF Same, Given
<1>4. TypeOK
  BY DEF SchedulerInv
<1>5. \A k \in scan.counted :
        scan.from <= k /\ k < scan.k /\ k \in Bins /\ t \in Targets /\ Free(t, k)'
  <2> TAKE k \in scan.counted
  <2>1. scan.from <= k /\ k < scan.k /\ k \in Bins /\ t \in Targets /\ Free(t, k)
    BY <1>1 DEF Counted
  <2> QED BY <1>4, <2>1, AnswersStay
<1>6. \A k \in scan.from .. scan.k - 1 :
        k \in scan.counted \/ k \in scan.blocked \/ Skipped(t, k)'
  <2> TAKE k \in scan.from .. scan.k - 1
  <2>1. CASE Skipped(t, k)
    <3>1. k \in Bins
      BY <2>1 DEF Skipped
    <3> QED BY <1>4, <2>1, <3>1, AnswersStay
  <2> QED BY <1>1, <2>1 DEF Counted
<1>7. IsFiniteSet(scan.counted) /\ Cardinality(scan.counted) + scan.needed = scan.exp
  BY <1>1 DEF Counted
<1>8. CASE Same(scan', scan, {"needed", "counted"}) /\ Skipped(t, bin)'
  <2>1. scan'.needed = scan.needed /\ scan'.counted = scan.counted
    BY <1>8 DEF Same
  <2>2. \A k \in scan'.counted :
          scan'.from <= k /\ k < scan'.k /\ k \in Bins /\ t \in Targets /\ Free(t, k)'
    BY <1>1, <1>3, <1>5, <2>1, SchedulerSizes DEF Bins
  <2>3. \A k \in scan'.from .. scan'.k - 1 :
          k \in scan'.counted \/ k \in scan'.blocked \/ Skipped(t, k)'
    BY <1>1, <1>3, <1>6, <1>8, <2>1
  <2>4. Counted(scan)'
    BY <1>3, <1>7, <2>1, <2>2, <2>3 DEF Counted
  <2>5. Placed(scan)'
    BY <1>1, <1>2, <1>3, <2>1 DEF Placed
  <2> QED BY <2>4, <2>5 DEF Accounted
<1>9. CASE /\ scan'.needed = scan.needed - 1
           /\ scan'.counted = scan.counted \union {bin}
           /\ t \in Targets /\ bin \in Bins /\ Free(t, bin)'
  <2>1. bin \notin scan.counted /\ Cardinality(scan.counted) \in Nat
    BY <1>1, <1>5, <1>7, FS_CardinalityType
  <2>2. /\ IsFiniteSet(scan.counted \union {bin})
        /\ Cardinality(scan.counted \union {bin}) = Cardinality(scan.counted) + 1
    BY <1>7, <2>1, FS_AddElement
  <2>3. IsFiniteSet(scan'.counted) /\ Cardinality(scan'.counted) + scan'.needed = scan'.exp
    BY <1>1, <1>3, <1>7, <1>9, <2>1, <2>2
  <2>4. scan.from <= bin
    BY <1>1 DEF Placed
  <2>5. \A k \in scan'.counted :
          scan'.from <= k /\ k < scan'.k /\ k \in Bins /\ t \in Targets /\ Free(t, k)'
    <3> TAKE k \in scan'.counted
    <3>1. CASE k = bin
      BY <1>1, <1>3, <1>9, <2>4, <3>1
    <3>2. CASE k \in scan.counted
      BY <1>1, <1>3, <1>5, <3>2, SchedulerSizes DEF Bins
    <3> QED BY <1>9, <3>1, <3>2
  <2>6. \A k \in scan'.from .. scan'.k - 1 :
          k \in scan'.counted \/ k \in scan'.blocked \/ Skipped(t, k)'
    BY <1>1, <1>3, <1>6, <1>9
  <2>7. Counted(scan)'
    BY <1>3, <2>3, <2>5, <2>6 DEF Counted
  <2>8. Placed(scan)'
    BY <1>1, <1>2, <1>3, <1>9 DEF Placed
  <2> QED BY <2>7, <2>8 DEF Accounted
<1> QED BY <1>8, <1>9

(* An answer about the SAA, old or new, sends the loop on. *)
LEMMA AfterSaaAccounts ==
  ASSUME SchedulerInv, Accounted, scan.phase = "saa", CachesGrow, TypeOK',
         scan.k \in Bins, Known(saa'[scan.k]),
         NEW is \in BOOLEAN, saa'[scan.k].is = is, scan' = AfterSaa(scan, is)
  PROVE  Accounted'
<1>1. /\ ScanHolds(scan) /\ Counted(scan) /\ Placed(scan)
      /\ scan \in Scans /\ scan.k \in Int /\ scan.from \in Nat /\ scan.mjd \in Int
      /\ scan.total \in Nat /\ scan.needed \in Nat
  BY AccountNow
<1>2. TypeOK
  BY DEF SchedulerInv
<1>3. /\ scan' \in Scans
      /\ Same(scan', scan, Given \union {"total", "needed", "mjd_end", "counted", "blocked"})
      /\ is => scan'.phase = "bin" /\ scan'.k = scan.k + 1
      /\ ~is => scan'.phase = "occult" /\ scan'.k = scan.k /\ scan'.mjd = scan.mjd
  BY <1>1, AfterSaaFields DEF Same
<1>4. ASSUME is PROVE Accounted'
  <2> SUFFICES ASSUME NEW t, t = scan.targ, NEW bin, bin = scan.k PROVE Accounted'
    OBVIOUS
  <2>1. Skipped(t, bin)'
    BY <1>4 DEF Skipped
  <2>2. Same(scan', scan, {"needed", "counted"})
        /\ Same(scan', scan, Given \union {"total", "mjd_end", "blocked"})
    BY <1>3 DEF Same
  <2> QED BY <1>3, <1>4, <2>1, <2>2, GoesOnAccounts
<1>5. ASSUME ~is PROVE Accounted'
  <2> SUFFICES ASSUME NEW t, t = scan.targ PROVE Accounted'
    OBVIOUS
  <2>1. /\ scan'.targ = t /\ scan'.from = scan.from /\ scan'.exp = scan.exp
        /\ scan'.total = scan.total /\ scan'.needed = scan.needed
        /\ scan'.mjd_end = scan.mjd_end /\ scan'.counted = scan.counted
        /\ scan'.blocked = scan.blocked /\ scan'.phase = "occult" /\ scan'.k = scan.k
        /\ scan'.mjd = scan.mjd
    BY <1>3, <1>5 DEF Same, Given
  <2>2. \A k \in scan.counted :
          scan.from <= k /\ k < scan.k /\ k \in Bins /\ t \in Targets /\ Free(t, k)'
    BY <1>1, <1>2, AnswersStay DEF Counted
  <2>3. \A k \in scan.from .. scan.k - 1 :
          k \in scan.counted \/ k \in scan.blocked \/ Skipped(t, k)'
    <3> TAKE k \in scan.from .. scan.k - 1
    <3>1. CASE Skipped(t, k)
      <4>1. k \in Bins
        BY <3>1 DEF Skipped
      <4> QED BY <1>2, <3>1, <4>1, AnswersStay
    <3> QED BY <1>1, <3>1 DEF Counted
  <2>4. Counted(scan)'
    BY <1>1, <2>1, <2>2, <2>3 DEF Counted
  <2>5. Known(saa[scan.k])' /\ ~(saa[scan.k].is)'
    BY <1>5, <2>1 DEF Known
  <2>6. Placed(scan)'
    BY <1>1, <2>1, <2>5 DEF Placed
  <2> QED BY <2>4, <2>6 DEF Accounted
<1> QED BY <1>4, <1>5

(* Raising ends the scan and delivers nothing. *)
LEMMA RaiseAccounts ==
  ASSUME NEW e, e # "done", Raise(e)
  PROVE  Accounted' /\ LastDelivered'
<1>1. scan' = Idle /\ last'.status # "done"
  BY DEF Raise, Raised, Ended
<1> QED BY <1>1 DEF Accounted, LastDelivered

LEMMA InSaaAccounts ==
  ASSUME ExposureInv, NEW sky \in BOOLEAN, NEW c_ok \in BOOLEAN, in_saa(sky, c_ok)
  PROVE  Accounted' /\ LastDelivered'
<1>1. scan.phase = "saa" /\ UNCHANGED occult /\ SchedulerInv /\ TypeOK
  BY DEF in_saa, ExposureInv, SchedulerInv
<1>2. /\ ScanHolds(scan) /\ Placed(scan) /\ scan.k \in Int /\ scan.from \in Nat
  BY <1>1, AccountNow DEF ExposureInv
<1>3. scan.k >= 0 /\ PyIndex(scan.k) = scan.k
  BY <1>2 DEF Placed, PyIndex
<1>4. TypeOK'
  BY <1>1, InSaaKeeps DEF SchedulerInv
<1>5. CASE \E e : e # "done" /\ Raise(e)
  BY <1>5, RaiseAccounts
<1>6. CASE /\ scan.k \in Bins /\ Known(saa[scan.k])
           /\ scan' = AfterSaa(scan, saa[scan.k].is) /\ UNCHANGED <<saa, last>>
  <2>1. CachesGrow /\ Known(saa'[scan.k]) /\ saa'[scan.k].is \in BOOLEAN
    BY <1>1, <1>6 DEF CachesGrow, TypeOK, Answers, Known
  <2> QED BY <1>1, <1>4, <1>6, <2>1, AfterSaaAccounts, DeliveredStays DEF ExposureInv
<1>7. CASE /\ scan.k \in Bins /\ ~Known(saa[scan.k])
           /\ saa' = [saa EXCEPT ![scan.k] =
                        [at |-> IF scan.k \in polar THEN NoTick ELSE scan.mjd, is |-> sky]]
           /\ scan' = AfterSaa(scan, sky) /\ UNCHANGED last
  <2>1. scan.k \notin polar
    BY <1>1, <1>7 DEF SchedulerInv, AskedOnce
  <2>2. saa' = [saa EXCEPT ![scan.k] = [at |-> scan.mjd, is |-> sky]]
    BY <1>7, <2>1
  <2>3. saa \in [Bins -> Answers]
    BY <1>1 DEF TypeOK
  <2>4. saa'[scan.k] = [at |-> scan.mjd, is |-> sky]
        /\ \A k \in Bins : k # scan.k => saa'[k] = saa[k]
    BY <1>7, <2>2, <2>3
  <2>5. Known(saa'[scan.k]) /\ saa'[scan.k].is = sky
    BY <1>2, <1>7, <2>4, FreshAnswer
  <2>6. CachesGrow
    BY <1>1, <1>7, <2>4 DEF CachesGrow
  <2> QED BY <1>1, <1>4, <1>7, <2>5, <2>6, AfterSaaAccounts, DeliveredStays DEF ExposureInv
<1>8. "IndexError" # "done" /\ "RuntimeError" # "done"
  OBVIOUS
<1> QED BY <1>3, <1>5, <1>6, <1>7, <1>8, Zenon DEF in_saa

(* An answer about the target counts the bin or passes it over. *)
LEMMA AfterOccultAccounts ==
  ASSUME SchedulerInv, Accounted, scan.phase = "occult", CachesGrow, TypeOK',
         UNCHANGED saa, scan.k \in Bins, scan.targ \in Targets,
         Known(occult'[scan.targ][scan.k]),
         NEW is \in BOOLEAN, occult'[scan.targ][scan.k].is = is,
         scan' = AfterOccult(scan, is)
  PROVE  Accounted'
<1>1. /\ ScanHolds(scan) /\ Placed(scan) /\ scan \in Scans
  BY AccountNow
<1>2. scan.needed > 0
  BY <1>1 DEF ScanHolds
<1>3. /\ scan' \in Scans
      /\ Same(scan', scan, Given \union {"total", "mjd_end", "blocked"})
      /\ scan'.phase = "bin" /\ scan'.k = scan.k + 1
      /\ is => Same(scan', scan, {"needed", "counted"})
      /\ ~is => /\ scan'.needed = scan.needed - 1
                /\ scan'.counted = scan.counted \union {scan.k}
  BY <1>1, <1>2, AfterOccultFields
<1> SUFFICES ASSUME NEW t, t = scan.targ, NEW bin, bin = scan.k PROVE Accounted'
  OBVIOUS
<1>4. ASSUME is PROVE Accounted'
  <2>1. Skipped(t, bin)'
    BY <1>4 DEF Skipped
  <2> QED BY <1>3, <1>4, <2>1, GoesOnAccounts
<1>5. ASSUME ~is PROVE Accounted'
  <2>1. Known(saa'[bin]) /\ ~saa'[bin].is
    BY <1>1 DEF Placed
  <2>2. Free(t, bin)'
    BY <1>5, <2>1 DEF Free, Known
  <2> QED BY <1>3, <1>5, <2>2, GoesOnAccounts
<1> QED BY <1>4, <1>5

LEMMA OccultedAccounts ==
  ASSUME ExposureInv, NEW sky \in BOOLEAN, NEW c_ok \in BOOLEAN, targ_occulted(sky, c_ok)
  PROVE  Accounted' /\ LastDelivered'
<1>1. scan.phase = "occult" /\ UNCHANGED saa /\ SchedulerInv /\ TypeOK
  BY DEF targ_occulted, ExposureInv, SchedulerInv
<1>2. /\ ScanHolds(scan) /\ Placed(scan) /\ scan.k \in Int /\ scan.from \in Nat
  BY <1>1, AccountNow DEF ExposureInv
<1>3. PyIndex(scan.k) = scan.k
  BY <1>2 DEF Placed, PyIndex
<1>4. TypeOK'
  BY <1>1, OccultedKeeps DEF SchedulerInv
<1>5. CASE \E e : e # "done" /\ Raise(e)
  BY <1>5, RaiseAccounts
<1>6. CASE /\ scan.targ \in Targets /\ scan.k \in Bins /\ Known(occult[scan.targ][scan.k])
           /\ scan' = AfterOccult(scan, occult[scan.targ][scan.k].is)
           /\ UNCHANGED <<occult, last>>
  <2>1. /\ CachesGrow /\ Known(occult'[scan.targ][scan.k])
        /\ occult'[scan.targ][scan.k].is \in BOOLEAN
    BY <1>1, <1>6 DEF CachesGrow, TypeOK, Answers, Known
  <2>2. Accounted'
    BY <1>1, <1>4, <1>6, <2>1, AfterOccultAccounts DEF ExposureInv
  <2>3. LastDelivered'
    BY <1>1, <1>6, <2>1, DeliveredStays DEF ExposureInv
  <2> QED BY <2>2, <2>3
<1>7. CASE /\ scan.targ \in registered /\ scan.k \in Bins
           /\ ~Known(occult[scan.targ][scan.k])
           /\ occult' = [occult EXCEPT ![scan.targ][scan.k] = [at |-> scan.mjd, is |-> sky]]
           /\ scan' = AfterOccult(scan, sky) /\ UNCHANGED last
  <2> DEFINE answer == [at |-> scan.mjd, is |-> sky]
  <2>1. answer \in Answers /\ Known(answer) /\ answer.is = sky
    BY <1>2, <1>7, FreshAnswer
  <2>2. occult' = [occult EXCEPT ![scan.targ][scan.k] = answer]
    BY <1>7
  <2> HIDE DEF answer
  <2>3. scan.targ \in Targets /\ occult \in [Targets -> [Bins -> Answers]]
    BY <1>1, <1>7 DEF TypeOK
  <2>4. \A t \in Targets, k \in Bins :
          occult'[t][k] = IF t = scan.targ /\ k = scan.k THEN answer ELSE occult[t][k]
    BY <1>7, <2>2, <2>3, AnswerStored
  <2>5. CachesGrow
    BY <1>1, <1>7, <2>3, <2>4 DEF CachesGrow
  <2>6. Known(occult'[scan.targ][scan.k]) /\ occult'[scan.targ][scan.k].is = sky
    BY <1>7, <2>1, <2>3, <2>4
  <2>7. Accounted'
    BY <1>1, <1>4, <1>7, <2>3, <2>5, <2>6, AfterOccultAccounts DEF ExposureInv
  <2>8. LastDelivered'
    BY <1>1, <1>7, <2>5, DeliveredStays DEF ExposureInv
  <2> QED BY <2>7, <2>8
<1>8. "IndexError" # "done" /\ "RuntimeError" # "done"
  OBVIOUS
<1> QED BY <1>3, <1>5, <1>6, <1>7, <1>8, Zenon DEF targ_occulted

(* A call that has counted all that it needs is delivered, from the bin it *)
(* started in to the bin it counted last.                                  *)
LEMMA EndDelivers ==
  ASSUME ScanHolds(scan), Counted(scan), Placed(scan), scan.phase = "bin", scan.needed = 0,
         scan.exp > 0, NEW start \in Int, Mjd(scan.from) <= start, start < Mjd(scan.from + 1),
         last' = Ended("done", start, scan), UNCHANGED <<saa, occult>>
  PROVE  LastDelivered'
<1> DEFINE end == scan.k - 1
           from == scan.from
<1>1. /\ scan.k \in Int /\ scan.from \in Nat /\ scan.mjd_end \in Int /\ scan.exp \in Nat
  BY DEF ScanHolds, Scans, Placed
<1>2. end \in scan.counted /\ end \in Bins /\ from <= end /\ scan.targ \in Targets
  BY <1>1 DEF Placed, Counted
<1>3. from \in Bins
  BY <1>1, <1>2, SchedulerSizes DEF Bins
<1>4. /\ last'.start = start /\ last'.end = scan.mjd_end /\ last'.exp = scan.exp
      /\ last'.counted = scan.counted /\ last'.blocked = scan.blocked /\ last'.targ = scan.targ
  BY DEF Ended
<1>5. Mjd(end) <= scan.mjd_end /\ scan.mjd_end < Mjd(end + 1)
  <2>1. scan.k > scan.from /\ end + 1 = scan.k
    BY <1>1, <1>2
  <2> QED BY <2>1 DEF Placed
<1>6. Cardinality(scan.counted) = scan.exp
  <2>1. Cardinality(scan.counted) \in Nat
    BY FS_CardinalityType DEF Counted
  <2> QED BY <1>1, <2>1 DEF Counted
<1>7. \A k \in scan.counted : from <= k /\ k <= end /\ k \in Bins /\ Free(scan.targ, k)
  BY <1>1, SchedulerSizes DEF Counted, Bins
<1>8. \A k \in from .. end :
        k \in scan.counted \/ k \in scan.blocked \/ Skipped(scan.targ, k)
  BY DEF Counted
<1> HIDE DEF end, from
<1>9. \A t, k : (t = scan.targ => (Free(t, k)' = Free(t, k) /\ Skipped(t, k)' = Skipped(t, k)))
  BY DEF Free, Skipped, Known
<1>10. \A k : /\ (Free(last.targ, k))' = Free(scan.targ, k)
              /\ (Skipped(last.targ, k))' = Skipped(scan.targ, k)
  BY <1>4 DEF Free, Skipped, Known
<1>11. PICK a \in Bins, b \in Bins : a = from /\ b = end
  BY <1>2, <1>3
<1>12. Delivered(a, b)'
  BY <1>1, <1>2, <1>4, <1>5, <1>6, <1>7, <1>8, <1>10, <1>11 DEF Delivered, from
<1> QED BY <1>11, <1>12 DEF LastDelivered

LEMMA FinishSequentialAccounts ==
  ASSUME ExposureInv, FinishSequential
  PROVE  Accounted' /\ LastDelivered'
<1>1. /\ scan.phase = "bin" /\ scan.mode = "sequential" /\ scan' = Idle
      /\ UNCHANGED <<saa, occult>> /\ SchedulerInv
  BY DEF FinishSequential, caches, ExposureInv
<1>2. /\ ScanHolds(scan) /\ Counted(scan) /\ Placed(scan)
      /\ scan.from \in Nat /\ scan.exp \in Nat /\ scan.needed \in Nat
  BY <1>1, AccountNow DEF ExposureInv
<1>3. CASE last' = Raised("IntervalLimitExceeded")
  <2>1. last'.status # "done"
    BY <1>3 DEF Raised, Ended
  <2> QED BY <1>1, <2>1 DEF Accounted, LastDelivered
<1>4. CASE Report(current_mjd)
  <2>1. current_mjd = Mjd(scan.from) /\ current_mjd \in Int /\ current_mjd < Mjd(scan.from + 1)
    <3>1. current_mjd = Mjd(scan.from)
      <4>1. open_intervals = <<<<scan.from, NBins>>>>
        BY <1>1, <1>2 DEF ScanHolds
      <4>2. open_intervals # <<>> /\ open_intervals[1][1] = scan.from
        BY <4>1
      <4> QED BY <1>1, <4>2 DEF SchedulerInv, Together
    <3> QED BY <1>2, <3>1, MjdType, MjdStep, SchedulerSizes
  <2>2. CASE scan.needed = 0 /\ scan.exp > 0
    <3>1. last' = Ended("done", current_mjd, scan)
      BY <1>4, <2>2 DEF Report
    <3>2. LastDelivered'
      <4> SUFFICES ASSUME NEW start \in Int, start = current_mjd PROVE LastDelivered'
        BY <2>1
      <4>1. /\ Mjd(scan.from) <= start /\ start < Mjd(scan.from + 1)
            /\ last' = Ended("done", start, scan)
        BY <2>1, <3>1
      <4> QED BY <1>1, <1>2, <2>2, <4>1, EndDelivers
    <3> QED BY <1>1, <3>2 DEF Accounted
  <2>3. CASE ~ (scan.needed = 0 /\ scan.exp > 0)
    <3>1. last'.status = (IF scan.needed > 0 THEN "short" ELSE "done") /\ last'.exp = scan.exp
      BY <1>4 DEF Report, Ended
    <3> QED BY <1>1, <1>2, <2>3, <3>1 DEF Accounted, LastDelivered
  <2> QED BY <2>2, <2>3
<1> QED BY <1>3, <1>4 DEF FinishSequential

(* The start that schedule_targetFirst() reports is in the bin it started. *)
LEMMA FinishFirstAccounts ==
  ASSUME ExposureInv, FinishFirst
  PROVE  Accounted' /\ LastDelivered'
<1>1. /\ scan.phase = "bin" /\ scan' = Idle /\ SchedulerInv /\ UNCHANGED <<saa, occult>>
      /\ Report(scan.mjd - scan.total * TicksPerBin)
  BY DEF FinishFirst, caches, ExposureInv
<1>2. /\ ScanHolds(scan) /\ Counted(scan) /\ Placed(scan) /\ scan.k \in Int /\ scan.mjd \in Int
      /\ scan.from \in Nat /\ scan.exp \in Nat /\ scan.needed \in Nat /\ scan.total \in Nat
      /\ Mjd(scan.k) <= scan.mjd /\ scan.mjd < Mjd(scan.k + 1)
  BY <1>1, AccountNow DEF ExposureInv
<1> DEFINE start == scan.mjd - scan.total * TicksPerBin
<1>3. start \in Int /\ Mjd(scan.from) <= start /\ start < Mjd(scan.from + 1)
  <2>1. scan.k - scan.total = scan.from
    BY <1>1, <1>2 DEF Placed
  <2>2. Mjd(scan.k) - Mjd(scan.from) = Mjd(scan.total)
    <3>1. scan.k \in Int /\ scan.total \in Int
      BY <1>2
    <3>2. Mjd(scan.k) - Mjd(scan.k - scan.total) = Mjd(scan.total)
      BY ONLY <3>1, MjdMinus
    <3> QED BY <2>1, <3>2
  <2>3. start = scan.mjd - Mjd(scan.total)
    BY DEF Mjd
  <2> HIDE DEF start
  <2>4. Mjd(scan.k) \in Int /\ Mjd(scan.from) \in Int /\ Mjd(scan.total) \in Int
    BY <1>2, MjdType
  <2>5. /\ Mjd(scan.k + 1) = Mjd(scan.k) + TicksPerBin
        /\ Mjd(scan.from + 1) = Mjd(scan.from) + TicksPerBin
    BY <1>2, MjdStep
  <2> QED BY <1>2, <2>2, <2>3, <2>4, <2>5, SchedulerSizes
<1>4. CASE scan.needed = 0 /\ scan.exp > 0
  <2> SUFFICES ASSUME NEW s \in Int, s = start PROVE Accounted' /\ LastDelivered'
    BY <1>3
  <2>1. last' = Ended("done", s, scan)
    BY <1>1, <1>4 DEF Report
  <2>2. Mjd(scan.from) <= s /\ s < Mjd(scan.from + 1)
    BY <1>3
  <2>3. LastDelivered'
    BY <1>1, <1>2, <1>4, <2>1, <2>2, EndDelivers
  <2> QED BY <1>1, <2>3 DEF Accounted
<1>5. CASE ~ (scan.needed = 0 /\ scan.exp > 0)
  <2>1. last'.status = (IF scan.needed > 0 THEN "short" ELSE "done") /\ last'.exp = scan.exp
    BY <1>1 DEF Report, Ended
  <2> QED BY <1>1, <1>2, <1>5, <2>1 DEF Accounted, LastDelivered
<1> QED BY <1>4, <1>5

(* A call begins in the bin that the clock stands at. *)
LEMMA ScheduleAccounts ==
  ASSUME ExposureInv, 0 \notin Exposures, NEW t \in Numbers, NEW exp \in Exposures,
         schedule_target(t, exp)
  PROVE  Accounted' /\ LastDelivered'
<1>1. UNCHANGED <<saa, occult>> /\ SchedulerInv /\ scan = Idle
  BY DEF schedule_target, ExposureInv
<1>2. CASE UNCHANGED scan
  <2>1. last'.status # "done"
    BY <1>1, <1>2 DEF schedule_target, Raised, Ended, Begin, Idle
  <2> QED BY <1>1, <1>2, <2>1 DEF Accounted, LastDelivered
<1>3. CASE ~ UNCHANGED scan
  <2>1. open_intervals # <<>> /\ UNCHANGED last
    BY <1>3 DEF schedule_target
  <2>2. PICK k \in Bins : open_intervals = <<<<k, NBins>>>>
    BY <1>1, <2>1 DEF SchedulerInv, Together
  <2>3. scan' = Begin("sequential", t, k, Mjd(k), NBins, exp, current_mjd)
    BY <1>3, <2>1, <2>2 DEF schedule_target
  <2>4. k \in Nat /\ NBins \in Int /\ exp \in Nat /\ exp > 0 /\ current_mjd \in Int
    BY <1>1, SchedulerSizes DEF Bins, SchedulerInv, TypeOK
  <2>5. Mjd(k) \in Int
    BY <2>4, MjdType
  <2>6. Accounted'
    BY <2>3, <2>4, <2>5, BeginAccounts
  <2>7. LastDelivered'
    BY <1>1, <2>1, DeliveredStays DEF ExposureInv, SchedulerInv, CachesGrow
  <2> QED BY <2>6, <2>7
<1> QED BY <1>2, <1>3

LEMMA ScheduleFirstAccounts ==
  ASSUME ExposureInv, 0 \notin Exposures, FromTicks \subseteq Nat,
         NEW from \in FromTicks, NEW t \in Numbers, NEW exp \in Exposures,
         schedule_targetFirst(from, t, exp)
  PROVE  Accounted' /\ LastDelivered'
<1>1. UNCHANGED <<saa, occult>> /\ SchedulerInv /\ scan = Idle
  BY DEF schedule_targetFirst, ExposureInv
<1>2. CASE UNCHANGED scan
  <2>1. last'.status # "done"
    BY <1>1, <1>2 DEF schedule_targetFirst, Raised, Ended, Begin, Idle
  <2> QED BY <1>1, <1>2, <2>1 DEF Accounted, LastDelivered
<1>3. CASE ~ UNCHANGED scan
  <2>1. scan' = Begin("first", t, BinOf(from), from, NBins - 1, exp, from) /\ UNCHANGED last
    BY <1>3 DEF schedule_targetFirst
  <2>2. /\ BinOf(from) \in Nat /\ from \in Int /\ NBins - 1 \in Int
        /\ exp \in Nat /\ exp > 0
    BY SchedulerSizes DEF BinOf
  <2>3. Accounted'
    BY <2>1, <2>2, BeginAccounts
  <2>4. LastDelivered'
    BY <1>1, <2>1, DeliveredStays DEF ExposureInv, SchedulerInv, CachesGrow
  <2> QED BY <2>3, <2>4
<1> QED BY <1>2, <1>3

LEMMA ExposureInit == Init => ExposureInv
<1> SUFFICES ASSUME Init PROVE ExposureInv
  OBVIOUS
<1>1. SchedulerInv
  BY SchedulerInit
<1>2. Accounted /\ LastDelivered
  BY DEF Init, Accounted, LastDelivered, Raised, Ended
<1> QED BY <1>1, <1>2 DEF ExposureInv

LEMMA ExposureNext ==
  ASSUME 0 \notin Exposures, FromTicks \subseteq Nat
  PROVE  ExposureInv /\ [Next]_vars => ExposureInv'
<1> SUFFICES ASSUME ExposureInv, [Next]_vars PROVE ExposureInv'
  OBVIOUS
<1>1. SchedulerInv /\ SchedulerInv' /\ TypeOK
  BY SchedulerNext DEF ExposureInv, SchedulerInv
<1>2. ASSUME NEW c_ok \in BOOLEAN, register_target(c_ok)
      PROVE  Accounted' /\ LastDelivered'
  <2>1. scan' = Idle /\ last'.status # "done"
    BY <1>2 DEF register_target, Raised, Ended
  <2> QED BY <2>1 DEF Accounted, LastDelivered
<1>3. ASSUME NEW t \in Numbers, NEW exp \in Exposures, schedule_target(t, exp)
      PROVE  Accounted' /\ LastDelivered'
  BY <1>3, ScheduleAccounts
<1>4. ASSUME NEW from \in FromTicks, NEW t \in Numbers, NEW exp \in Exposures,
             schedule_targetFirst(from, t, exp)
      PROVE  Accounted' /\ LastDelivered'
  BY <1>4, ScheduleFirstAccounts
<1>5. ASSUME NEW blocked \in BOOLEAN, TakeBin(blocked) PROVE Accounted' /\ LastDelivered'
  <2>1. CachesGrow /\ UNCHANGED last
    BY <1>5 DEF TakeBin, caches, CachesGrow
  <2> QED BY <1>1, <1>5, <2>1, TakeBinAccounts, DeliveredStays DEF ExposureInv
<1>6. ASSUME NEW sky \in BOOLEAN, NEW c_ok \in BOOLEAN,
             in_saa(sky, c_ok) \/ targ_occulted(sky, c_ok)
      PROVE  Accounted' /\ LastDelivered'
  BY <1>6, InSaaAccounts, OccultedAccounts
<1>7. ASSUME FinishSequential \/ FinishFirst PROVE Accounted' /\ LastDelivered'
  BY <1>7, FinishSequentialAccounts, FinishFirstAccounts
<1>8. ASSUME UNCHANGED vars PROVE Accounted' /\ LastDelivered'
  <2>1. UNCHANGED <<scan, last, saa, occult>>
    BY <1>8 DEF vars
  <2>2. LastDelivered'
    BY <1>1, <2>1, DeliveredStays DEF ExposureInv, CachesGrow
  <2>3. Accounted'
    BY <2>1 DEF ExposureInv, Accounted, Counted, Placed, Free, Skipped, Known
  <2> QED BY <2>2, <2>3
<1>9. Accounted' /\ LastDelivered'
  BY <1>2, <1>3, <1>4, <1>5, <1>6, <1>7, <1>8 DEF Next, ScanStep
<1> QED BY <1>1, <1>9 DEF ExposureInv

(* A call that says it placed its target delivers the exposure that it was *)
(* asked for: as many bins as it needs, none of them in the SAA or         *)
(* occulted, and no bin passed over without a reason, for timelines and    *)
(* exposures of any length and whatever calls ran before or raised.        *)
THEOREM ExposuresDelivered ==
  ASSUME 0 \notin Exposures, FromTicks \subseteq Nat
  PROVE  Spec => []ExposureDelivered
<1>1. ExposureInv /\ [Next]_vars => ExposureInv'
  BY ExposureNext
<1>2. ExposureInv => ExposureDelivered
  BY DeliveredIsExposure DEF ExposureInv
<1> QED BY <1>1, <1>2, ExposureInit, PTL DEF Spec
==============================================================================
