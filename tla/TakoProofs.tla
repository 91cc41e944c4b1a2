----------------------------- MODULE TakoProofs -----------------------------
(***************************************************************************)
(* Proofs about the program, for every file of targets, timeline, and set  *)
(* of windows: the scheduler keeps what is proved of it when the program   *)
(* drives it, and the list box is the schedule.  As for the Scheduler, no  *)
(* exposure is 0.                                                          *)
(***************************************************************************)
EXTENDS Tako, SchedulerProofs

Between(w, tick) == w[1] <= tick /\ tick <= w[2]

(* Every bin counted is in the sun window, and so is one that is asked for. *)
InSun(w, s) ==
  /\ \A k \in s.counted : Between(w, Mjd(k))
  /\ s.phase # "bin" => Between(w, Mjd(s.k))

BoxEnd == IF box = <<>> THEN 0 ELSE box[Len(box)].end

Lines == [row : Rows, start : Int, end : Int, counted : SUBSET Int]

TypesKept ==
  /\ tlist \in [Rows -> Exposures]
  /\ already_done \subseteq Rows
  /\ DOMAIN window \subseteq Rows /\ \A r \in DOMAIN window : window[r] \in Windows
  /\ DOMAIN targ_num \subseteq Rows /\ \A r \in DOMAIN targ_num : targ_num[r] \in Numbers
  /\ click \in Clicks
  /\ box \in Seq(Lines) /\ saved \in Seq(Lines)

(* Numbers are given out once, in order, to targets that the C code has. *)
Numbered ==
  /\ \A r \in DOMAIN targ_num :
       targ_num[r] \in registered /\ targ_num[r] <= current_target_pointer
  /\ \A q, r \in DOMAIN targ_num : targ_num[q] = targ_num[r] => q = r

(* What a callback has done when it gets to a call. *)
CallbackAt ==
  /\ click # NoClick => click.row \in already_done
  /\ click.at \in {"register", "schedule", "scan", "list"} => click.row \in DOMAIN window
  /\ click.at \in {"schedule", "scan", "list"} => click.row \in DOMAIN targ_num
  /\ click.at = "scan" <=> scan # Idle
  /\ scan # Idle => /\ scan.mode = "sequential" /\ scan.targ = targ_num[click.row]
                    /\ InSun(window[click.row], scan)

(* The observation that the scheduler has placed and the box has not yet. *)
Reported ==
  /\ last.start = BoxEnd /\ last.end = current_mjd /\ last.start <= last.end
  /\ \E bin \in 0 .. NBins : last.end = Mjd(bin)
  /\ \A k \in last.counted :
       /\ k \in Bins /\ last.start <= Mjd(k) /\ Mjd(k) <= last.end
       /\ Between(window[click.row], Mjd(k))

Listed ==
  /\ Abuts(box) /\ Abuts(saved)
  /\ \A i \in DOMAIN box : /\ box[i].row \in already_done \ {click.row}
                           /\ box[i].row \in DOMAIN window
                           /\ \A k \in box[i].counted : Between(window[box[i].row], Mjd(k))
  /\ \A i, j \in DOMAIN box : box[i].row = box[j].row => i = j
  /\ IF click.at = "list" THEN Reported ELSE current_mjd = BoxEnd

TakoInv ==
  /\ ExposureInv
  /\ TypesKept
  /\ Numbered
  /\ CallbackAt
  /\ Listed

----------------------------------------------------------------------------
(* The steps of a scan, as the program sees them *)

LEMMA RaisedStatus == ASSUME NEW e PROVE Raised(e).status = e
BY DEF Raised, Ended

LEMMA StepOfScan ==
  ASSUME SchedulerInv, scan # Idle, scan.mode = "sequential", NEW w, InSun(w, scan),
         \/ TakeBin(BadTime(w, scan.mjd))
         \/ \E sky \in BOOLEAN, c_ok \in BOOLEAN : in_saa(sky, c_ok) \/ targ_occulted(sky, c_ok)
  PROVE  /\ UNCHANGED <<current_mjd, current_target_pointer, registered>>
         /\ \/ scan' = Idle /\ last'.status \in {"IndexError", "RuntimeError"}
            \/ /\ scan' # Idle /\ scan'.mode = "sequential" /\ scan'.targ = scan.targ
               /\ InSun(w, scan') /\ UNCHANGED last
<1>1. scan.phase # "idle" /\ scan \in Scans /\ \A n \in Scans : n # Idle
  <2>1. \A n \in Scans : n # Idle
    BY DEF Scans, Idle
  <2>2. scan \in Scans
    BY DEF SchedulerInv, TypeOK
  <2> QED BY <2>1, <2>2 DEF Scans
<1>2. ScanHolds(scan) /\ TypeOK /\ scan.mjd = Mjd(scan.k) /\ scan.k \in Int
  BY <1>1, ScanHoldsNow DEF ScanHolds, Scans, SchedulerInv
<1>3. CASE TakeBin(BadTime(w, scan.mjd))
  <2>1. UNCHANGED <<current_mjd, current_target_pointer, registered, last>>
    BY <1>3 DEF TakeBin, timeline
  <2> DEFINE blocked == BadTime(w, scan.mjd)
  <2>2. blocked \in BOOLEAN /\ (~blocked => Between(w, Mjd(scan.k)))
    BY <1>2 DEF BadTime, Between
  <2>3. TakeBin(blocked)
    BY <1>3
  <2> HIDE DEF blocked
  <2>4. /\ scan' \in Scans /\ Same(scan', scan, Given \union {"needed", "counted"})
        /\ blocked => scan'.phase = "bin"
        /\ ~blocked => scan'.k = scan.k
    BY <1>1, <2>2, <2>3, TakeBinFields DEF Same
  <2>5. scan'.mode = scan.mode /\ scan'.targ = scan.targ /\ scan'.counted = scan.counted
    BY <2>4 DEF Same, Given
  <2>6. InSun(w, scan')
    BY <2>2, <2>4, <2>5 DEF InSun
  <2> QED BY <1>1, <2>1, <2>4, <2>5, <2>6
<1>4. ASSUME NEW sky \in BOOLEAN, NEW c_ok \in BOOLEAN, in_saa(sky, c_ok)
      PROVE  /\ UNCHANGED <<current_mjd, current_target_pointer, registered>>
             /\ \/ scan' = Idle /\ last'.status \in {"IndexError", "RuntimeError"}
                \/ /\ scan' # Idle /\ scan'.mode = "sequential" /\ scan'.targ = scan.targ
                   /\ InSun(w, scan') /\ UNCHANGED last
  <2>1. UNCHANGED <<current_mjd, current_target_pointer, registered>> /\ scan.phase = "saa"
    BY <1>4 DEF in_saa, timeline
  <2>2. CASE Raise("IndexError") \/ Raise("RuntimeError")
    BY <2>1, <2>2, RaisedStatus DEF Raise
  <2>3. ASSUME NEW is \in BOOLEAN, scan' = AfterSaa(scan, is), UNCHANGED last
        PROVE  /\ scan' # Idle /\ scan'.mode = "sequential" /\ scan'.targ = scan.targ
               /\ InSun(w, scan')
    <3>1. /\ scan' \in Scans /\ Same(scan', scan, Given \union {"counted"})
          /\ is => scan'.phase = "bin"
          /\ ~is => scan'.k = scan.k
      <4>1. /\ scan' \in Scans
            /\ Same(scan', scan, Given \union {"total", "needed", "mjd_end", "counted", "blocked"})
            /\ is => scan'.phase = "bin"
            /\ ~is => Same(scan', scan, {"k", "mjd"})
        BY <1>1, <2>3, AfterSaaFields
      <4> QED BY ONLY <4>1 DEF Same
    <3>2. scan'.mode = scan.mode /\ scan'.targ = scan.targ /\ scan'.counted = scan.counted
      BY <3>1 DEF Same, Given
    <3> QED BY <1>1, <2>1, <3>1, <3>2 DEF InSun
  <2>4. \/ Raise("IndexError") \/ Raise("RuntimeError")
        \/ \E is \in BOOLEAN : scan' = AfterSaa(scan, is) /\ UNCHANGED last
    <3>1. PyIndex(scan.k) \in Bins => saa[PyIndex(scan.k)].is \in BOOLEAN
      BY <1>2 DEF TypeOK, Answers
    <3> QED BY <1>4, <3>1, Zenon DEF in_saa
  <2> QED BY <2>1, <2>2, <2>3, <2>4
<1>5. ASSUME NEW sky \in BOOLEAN, NEW c_ok \in BOOLEAN, targ_occulted(sky, c_ok)
      PROVE  /\ UNCHANGED <<current_mjd, current_target_pointer, registered>>
             /\ \/ scan' = Idle /\ last'.status \in {"IndexError", "RuntimeError"}
                \/ /\ scan' # Idle /\ scan'.mode = "sequential" /\ scan'.targ = scan.targ
                   /\ InSun(w, scan') /\ UNCHANGED last
  <2>1. UNCHANGED <<current_mjd, current_target_pointer, registered>> /\ scan.phase = "occult"
    BY <1>5 DEF targ_occulted, timeline, cvars
  <2>2. CASE Raise("IndexError") \/ Raise("RuntimeError")
    BY <2>1, <2>2, RaisedStatus DEF Raise
  <2>3. ASSUME NEW is \in BOOLEAN, scan' = AfterOccult(scan, is), UNCHANGED last
        PROVE  /\ scan' # Idle /\ scan'.mode = "sequential" /\ scan'.targ = scan.targ
               /\ InSun(w, scan')
    <3>1. scan.needed > 0
      BY <1>2, <2>1 DEF ScanHolds
    <3>2. /\ scan' \in Scans /\ Same(scan', scan, Given) /\ scan'.phase = "bin"
          /\ is => scan'.counted = scan.counted
          /\ ~is => scan'.counted = scan.counted \union {scan.k}
      BY <1>1, <2>3, <3>1, AfterOccultFields DEF Same
    <3>3. scan'.mode = scan.mode /\ scan'.targ = scan.targ
      BY <3>2 DEF Same, Given
    <3> QED BY <1>1, <2>1, <3>2, <3>3 DEF InSun
  <2>4. \/ Raise("IndexError") \/ Raise("RuntimeError")
        \/ \E is \in BOOLEAN : scan' = AfterOccult(scan, is) /\ UNCHANGED last
    <3>1. scan.targ \in Targets /\ PyIndex(scan.k) \in Bins
            => occult[scan.targ][PyIndex(scan.k)].is \in BOOLEAN
      BY <1>2 DEF TypeOK, Answers
    <3> QED BY <1>5, <3>1, Zenon DEF targ_occulted
  <2> QED BY <2>1, <2>2, <2>3, <2>4
<1> QED BY <1>3, <1>4, <1>5

(* A scan that ends reports the observation from where the clock stood to  *)
(* where it stands now.                                                    *)
LEMMA EndOfScan ==
  ASSUME ExposureInv, FinishSequential, NEW w, InSun(w, scan)
  PROVE  /\ UNCHANGED <<current_target_pointer, registered>> /\ scan' = Idle
         /\ last'.status \in {"done", "short"}
         /\ last'.start = current_mjd /\ last'.end = current_mjd' /\ last'.start <= last'.end
         /\ \E bin \in 0 .. NBins : last'.end = Mjd(bin)
         /\ \A k \in last'.counted :
              k \in Bins /\ last'.start <= Mjd(k) /\ Mjd(k) <= last'.end /\ Between(w, Mjd(k))
<1>1. SchedulerInv
  BY DEF ExposureInv
<1>2. /\ scan.phase = "bin" /\ scan' = Idle /\ UNCHANGED <<current_target_pointer, registered>>
      /\ scan.from \in Bins /\ current_mjd = Mjd(scan.from)
      /\ NewStart \in 0 .. NBins /\ scan.from <= NewStart /\ scan.k = NewStart + 1
      /\ scan.mjd_end = Mjd(NewStart) /\ current_mjd' = Mjd(NewStart) /\ Report(current_mjd)
  BY <1>1, SequentialEnds
<1>3. Counted(scan)
  BY <1>1, <1>2, AccountNow DEF ExposureInv
<1>4. /\ last'.status \in {"done", "short"} /\ last'.start = current_mjd
      /\ last'.end = scan.mjd_end /\ last'.counted = scan.counted
  BY <1>2 DEF Report, Ended
<1>5. scan.from \in Int /\ NewStart \in Int
  BY <1>2, SchedulerSizes DEF Bins
<1>6. \A k \in scan.counted : k \in Bins /\ k \in Int /\ scan.from <= k /\ k <= NewStart
  BY <1>2, <1>3, <1>5, SchedulerSizes DEF Counted, Bins
<1>7. \A k \in scan.counted : Mjd(scan.from) <= Mjd(k) /\ Mjd(k) <= Mjd(NewStart)
  BY <1>5, <1>6, MjdMono
<1>8. Mjd(scan.from) <= Mjd(NewStart)
  BY <1>2, <1>5, MjdMono
<1>9. \A k \in scan.counted : Between(w, Mjd(k))
  BY DEF InSun
<1> QED BY <1>2, <1>4, <1>6, <1>7, <1>8, <1>9

----------------------------------------------------------------------------
(* One lemma for each action: what the program keeps of its own.           *)

OwnInv == TypesKept /\ Numbered /\ CallbackAt /\ Listed

Running == [row : Rows, at : {"constrain", "register", "schedule", "scan", "list"}]

LEMMA ClickAt ==
  ASSUME TypesKept
  PROVE  /\ click.at # "idle" => click \in Running /\ click # NoClick
         /\ click.at = "idle" => click = NoClick
         /\ click # NoClick => click.row \in Rows
         /\ \A r \in Rows : r # NoClick.row
<1>1. click = NoClick \/ (click \in Running /\ click.at # "idle")
  BY DEF TypesKept, Clicks, Running
<1>2. NoClick.at = "idle" /\ NoClick.row = -1
  BY DEF NoClick
<1>3. \A r \in Rows : r # -1
  BY TakoSizes
<1> QED BY <1>1, <1>2, <1>3 DEF Running

LEMMA ClickKeeps ==
  ASSUME OwnInv, NEW r \in Rows, Click(r)
  PROVE  OwnInv'
<1> USE DEF OwnInv
<1>1. /\ click = NoClick /\ r \notin already_done /\ already_done' = already_done \union {r}
      /\ click' = [row |-> r, at |-> "constrain"]
      /\ UNCHANGED <<scan, last, current_mjd, current_target_pointer, registered,
                     tlist, window, targ_num, box, saved>>
  BY DEF Click, Fresh, vars
<1>2. TypesKept'
  BY <1>1 DEF TypesKept, Clicks
<1>3. Numbered'
  BY <1>1 DEF Numbered
<1>4. click.at = "idle" /\ scan = Idle
  BY <1>1 DEF NoClick, CallbackAt
<1>5. CallbackAt'
  BY <1>1, <1>4 DEF CallbackAt
<1>6. Listed'
  <2>1. current_mjd = BoxEnd /\ BoxEnd' = BoxEnd
    BY <1>1, <1>4 DEF Listed, BoxEnd
  <2> QED BY <1>1, <2>1 DEF Listed, Abuts
<1> QED BY <1>2, <1>3, <1>5, <1>6

LEMMA SunConstraintKeeps ==
  ASSUME OwnInv, NEW ok \in BOOLEAN, set_sun_constraint(ok)
  PROVE  OwnInv'
<1> USE DEF OwnInv
<1>1. /\ click.at = "constrain"
      /\ UNCHANGED <<scan, last, current_mjd, current_target_pointer, registered,
                     tlist, already_done, targ_num, box, saved>>
  BY DEF set_sun_constraint, vars
<1>2. /\ click \in Running /\ click # NoClick /\ scan = Idle
      /\ click.row \in already_done /\ click.row \in Rows
  BY <1>1, ClickAt DEF CallbackAt
<1>3. current_mjd = BoxEnd /\ BoxEnd' = BoxEnd
  BY <1>1 DEF Listed, BoxEnd
<1>4. Numbered'
  BY <1>1 DEF Numbered
<1>5. CASE ok /\ GoOn("register")
  <2>1. PICK w \in Windows :
          window' = [r \in DOMAIN window \union {click.row} |->
                       IF r = click.row THEN w ELSE window[r]]
    BY <1>1, <1>5 DEF set_sun_constraint
  <2>2. click' = [row |-> click.row, at |-> "register"]
    BY <1>2, <1>5 DEF GoOn, Running
  <2>3. TypesKept'
    BY <1>1, <1>2, <2>1, <2>2 DEF TypesKept, Clicks
  <2>4. CallbackAt'
    BY <1>1, <1>2, <2>1, <2>2 DEF CallbackAt
  <2>5. \A r \in DOMAIN window : r \in DOMAIN window' /\ (r # click.row => window'[r] = window[r])
    BY <2>1
  <2>6. Listed'
    BY <1>1, <1>3, <2>2, <2>5 DEF Listed, Abuts
  <2> QED BY <1>4, <2>3, <2>4, <2>6
<1>6. CASE Raises /\ UNCHANGED window
  <2>1. click' = NoClick
    BY <1>6 DEF Raises
  <2>2. TypesKept' /\ CallbackAt'
    BY <1>1, <1>2, <1>6, <2>1 DEF TypesKept, CallbackAt, Clicks, NoClick
  <2>3. \A r \in already_done : r # NoClick.row
    BY ClickAt DEF TypesKept
  <2>4. Listed'
    BY <1>1, <1>3, <1>6, <2>1, <2>3 DEF Listed, Abuts, NoClick
  <2> QED BY <1>4, <2>2, <2>4
<1> QED BY <1>5, <1>6 DEF set_sun_constraint

(* The callback raises: what was listed is as it was. *)
LEMMA RaisesKeeps ==
  ASSUME OwnInv, Raises, click.at # "list", scan' = Idle,
         registered \subseteq registered', current_target_pointer' \in Int,
         current_target_pointer <= current_target_pointer', current_target_pointer \in Int,
         UNCHANGED <<current_mjd, tlist, already_done, window, targ_num, box, saved>>
  PROVE  OwnInv'
<1> USE DEF OwnInv
<1>1. click' = NoClick
  BY DEF Raises
<1>2. TypesKept' /\ CallbackAt'
  BY <1>1 DEF TypesKept, CallbackAt, Clicks, NoClick
<1>3. \A r \in DOMAIN targ_num : targ_num[r] \in Int
  BY SchedulerSizes DEF TypesKept, Numbers
<1>4. Numbered'
  BY <1>3 DEF Numbered
<1>5. \A r \in already_done : r # NoClick.row
  BY ClickAt DEF TypesKept
<1>6. current_mjd = BoxEnd /\ BoxEnd' = BoxEnd
  BY DEF Listed, BoxEnd
<1>7. Listed'
  BY <1>1, <1>5, <1>6 DEF Listed, Abuts, NoClick
<1> QED BY <1>2, <1>4, <1>7

(* The callback goes on to another call. *)
LEMMA RunsOn ==
  ASSUME TypesKept, click.at # "idle",
         NEW at \in {"register", "schedule", "scan", "list"}, GoOn(at)
  PROVE  /\ click' = [row |-> click.row, at |-> at] /\ click' \in Clicks
         /\ click'.row = click.row /\ click'.at = at
<1>1. click \in Running
  BY ClickAt
<1>2. click' = [row |-> click.row, at |-> at] /\ click.row \in Rows
  BY <1>1 DEF GoOn, Running
<1> QED BY <1>2 DEF Clicks

LEMMA RegisterAct ==
  ASSUME SchedulerInv, OwnInv, NEW c_ok \in BOOLEAN, Register(c_ok)
  PROVE  OwnInv'
<1> USE DEF OwnInv
<1>1. /\ click.at = "register" /\ register_target(c_ok)
      /\ UNCHANGED <<tlist, already_done, window, box, saved>>
  BY DEF Register
<1>2. /\ scan = Idle /\ scan' = Idle /\ UNCHANGED current_mjd
      /\ current_target_pointer' = current_target_pointer + 1
      /\ current_target_pointer \in Int /\ current_target_pointer' \in Numbers
      /\ registered \subseteq registered'
      /\ last'.status = "registered" => current_target_pointer' \in registered'
  <2>1. current_target_pointer \in -1 .. CallBound - 1
    BY DEF SchedulerInv, TypeOK
  <2> QED BY <1>1, <2>1, SchedulerSizes, RaisedStatus DEF register_target, timeline, Numbers
<1>3. /\ click # NoClick /\ click.row \in already_done /\ click.row \in Rows
      /\ click.row \in DOMAIN window
  BY <1>1, ClickAt DEF CallbackAt
<1>4. CASE last'.status = "registered"
  <2>1. /\ targ_num' = [r \in DOMAIN targ_num \union {click.row} |->
                          IF r = click.row THEN current_target_pointer' ELSE targ_num[r]]
        /\ GoOn("schedule")
    BY <1>4 DEF Register
  <2>2. click' \in Clicks /\ click'.row = click.row /\ click'.at = "schedule"
    BY <1>1, <2>1, RunsOn
  <2>3. TypesKept'
    BY <1>1, <1>2, <1>3, <2>1, <2>2 DEF TypesKept
  <2>4. \A r \in DOMAIN targ_num : /\ targ_num[r] \in registered' /\ targ_num[r] \in Int
                                  /\ targ_num[r] <= current_target_pointer
    BY <1>2, SchedulerSizes DEF Numbered, TypesKept, Numbers
  <2>5. \A r \in DOMAIN targ_num : /\ targ_num[r] < current_target_pointer'
                                  /\ targ_num[r] # current_target_pointer'
    BY <1>2, <2>4
  <2>6. current_target_pointer' <= current_target_pointer'
    BY <1>2
  <2>7. Numbered'
    BY <1>2, <1>4, <2>1, <2>4, <2>5, <2>6 DEF Numbered
  <2>8. CallbackAt'
    BY <1>1, <1>2, <1>3, <2>1, <2>2 DEF CallbackAt
  <2>9. current_mjd = BoxEnd /\ BoxEnd' = BoxEnd
    BY <1>1 DEF Listed, BoxEnd
  <2>10. Listed'
    BY <1>1, <1>2, <2>2, <2>9 DEF Listed, Abuts
  <2> QED BY <2>3, <2>7, <2>8, <2>10
<1>5. CASE last'.status # "registered"
  <2>1. Raises /\ UNCHANGED targ_num
    BY <1>5 DEF Register
  <2>2. current_target_pointer' \in Int /\ current_target_pointer <= current_target_pointer'
    BY <1>2
  <2> QED BY <1>1, <1>2, <2>1, <2>2, RaisesKeeps
<1> QED BY <1>4, <1>5

LEMMA ScheduleAct ==
  ASSUME SchedulerInv, OwnInv, Schedule
  PROVE  OwnInv'
<1> USE DEF OwnInv
<1> DEFINE num == targ_num[click.row]
           exp == tlist[click.row]
<1>1. /\ click.at = "schedule" /\ schedule_target(num, exp)
      /\ UNCHANGED <<tlist, already_done, window, targ_num, box, saved>>
      /\ IF scan' = Idle THEN Raises ELSE GoOn("scan")
  BY DEF Schedule
<1>2. /\ click # NoClick /\ click.row \in already_done /\ click.row \in Rows
      /\ click.row \in DOMAIN window /\ click.row \in DOMAIN targ_num
  BY <1>1, ClickAt DEF CallbackAt
<1> HIDE DEF num, exp
<1>3. /\ UNCHANGED <<current_mjd, current_target_pointer, registered>>
      /\ current_target_pointer \in Int
  BY <1>1 DEF schedule_target, timeline, cvars, SchedulerInv, TypeOK
<1>4. CASE scan' = Idle
  <2>1. current_target_pointer <= current_target_pointer'
    BY <1>3
  <2> QED BY <1>1, <1>3, <1>4, <2>1, RaisesKeeps
<1>5. CASE scan' # Idle
  <2>1. /\ scan' # scan /\ scan'.mode = "sequential" /\ scan'.targ = num
        /\ scan'.counted = {} /\ scan'.phase = "bin"
    BY <1>1, <1>5 DEF schedule_target, Begin
  <2>2. click' \in Clicks /\ click'.row = click.row /\ click'.at = "scan"
    BY <1>1, <1>5, RunsOn
  <2>3. TypesKept' /\ Numbered'
    BY <1>1, <1>3, <2>2 DEF TypesKept, Numbered
  <2>4. CallbackAt'
    BY <1>1, <1>2, <1>5, <2>1, <2>2 DEF CallbackAt, InSun, num
  <2>5. current_mjd = BoxEnd /\ BoxEnd' = BoxEnd
    BY <1>1 DEF Listed, BoxEnd
  <2>6. Listed'
    BY <1>1, <1>3, <2>2, <2>5 DEF Listed, Abuts
  <2> QED BY <2>3, <2>4, <2>6
<1> QED BY <1>4, <1>5

LEMMA ScanAct ==
  ASSUME ExposureInv, OwnInv, Scan
  PROVE  OwnInv'
<1> USE DEF OwnInv
<1> DEFINE w == window[click.row]
<1>1. /\ click.at = "scan" /\ UNCHANGED <<tlist, already_done, window, targ_num, box, saved>>
  BY DEF Scan
<1>2. /\ click # NoClick /\ click.row \in already_done /\ click.row \in Rows
      /\ click.row \in DOMAIN window /\ click.row \in DOMAIN targ_num
      /\ scan # Idle /\ scan.mode = "sequential" /\ scan.targ = targ_num[click.row]
      /\ InSun(w, scan)
  BY <1>1, ClickAt DEF CallbackAt
<1>3. SchedulerInv /\ current_target_pointer \in Int /\ current_target_pointer <= current_target_pointer
  BY DEF ExposureInv, SchedulerInv, TypeOK
<1>4. current_mjd = BoxEnd /\ BoxEnd' = BoxEnd
  BY <1>1 DEF Listed, BoxEnd
<1>5. CASE ~ FinishSequential
  <2>1. /\ UNCHANGED <<current_mjd, current_target_pointer, registered>>
        /\ \/ scan' = Idle /\ last'.status \in {"IndexError", "RuntimeError"}
           \/ /\ scan' # Idle /\ scan'.mode = "sequential" /\ scan'.targ = scan.targ
              /\ InSun(w, scan') /\ UNCHANGED last
    BY <1>2, <1>3, <1>5, StepOfScan DEF Scan
  <2>2. CASE scan' = Idle
    <3>1. Raises
      BY <2>1, <2>2 DEF Scan
    <3> QED BY <1>1, <1>3, <2>1, <2>2, <3>1, RaisesKeeps
  <2>3. CASE scan' # Idle
    <3>1. UNCHANGED click
      BY <2>3 DEF Scan
    <3>2. TypesKept' /\ Numbered'
      BY <1>1, <2>1, <3>1 DEF TypesKept, Numbered
    <3>3. CallbackAt'
      BY <1>1, <1>2, <2>1, <2>3, <3>1 DEF CallbackAt
    <3>4. Listed'
      BY <1>1, <1>4, <2>1, <3>1 DEF Listed, Abuts
    <3> QED BY <3>2, <3>3, <3>4
  <2> QED BY <2>2, <2>3
<1>6. CASE FinishSequential
  <2>1. /\ UNCHANGED <<current_target_pointer, registered>> /\ scan' = Idle
        /\ last'.status \in {"done", "short"}
        /\ last'.start = current_mjd /\ last'.end = current_mjd' /\ last'.start <= last'.end
        /\ \E bin \in 0 .. NBins : last'.end = Mjd(bin)
        /\ \A k \in last'.counted :
             k \in Bins /\ last'.start <= Mjd(k) /\ Mjd(k) <= last'.end /\ Between(w, Mjd(k))
    BY <1>2, <1>6, EndOfScan
  <2>2. GoOn("list")
    BY <2>1 DEF Scan
  <2>3. click' \in Clicks /\ click'.row = click.row /\ click'.at = "list"
    BY <1>1, <2>2, RunsOn
  <2>4. TypesKept' /\ Numbered'
    BY <1>1, <2>1, <2>3 DEF TypesKept, Numbered
  <2>5. CallbackAt'
    BY <1>1, <1>2, <2>1, <2>3 DEF CallbackAt
  <2>6. window'[click'.row] = w
    BY <1>1, <2>3
  <2>7. Reported'
    BY <1>4, <2>1, <2>6 DEF Reported
  <2>8. Listed'
    BY <1>1, <2>3, <2>7 DEF Listed, Abuts
  <2> QED BY <2>4, <2>5, <2>8
<1> QED BY <1>5, <1>6

(* The line that the list box gets, or has no need of.                     *)
Line == [row |-> click.row, start |-> last.start, end |-> last.end, counted |-> last.counted]

LEMMA ListAct ==
  ASSUME OwnInv, NEW rounding \in BOOLEAN, List(rounding)
  PROVE  OwnInv'
<1> USE DEF OwnInv
<1>1. /\ click.at = "list" /\ click' = NoClick
      /\ UNCHANGED <<scan, last, current_mjd, current_target_pointer, registered,
                     tlist, already_done, window, targ_num, saved>>
      /\ box' = IF Lists(rounding) THEN Append(box, Line) ELSE box
  BY DEF List, vars, Line
<1>2. /\ click # NoClick /\ click.row \in already_done /\ click.row \in Rows
      /\ click.row \in DOMAIN window /\ scan = Idle
  BY <1>1, ClickAt DEF CallbackAt
<1>3. Reported /\ \A r \in already_done : r # NoClick.row
  BY <1>1, ClickAt DEF Listed, TypesKept
<1>4. /\ box \in Seq(Lines)
      /\ \A i \in DOMAIN box : /\ box[i].row \in already_done \ {click.row}
                               /\ box[i].row \in DOMAIN window
                               /\ \A k \in box[i].counted : Between(window[box[i].row], Mjd(k))
      /\ \A i, j \in DOMAIN box : box[i].row = box[j].row => i = j
      /\ Abuts(box) /\ Abuts(saved)
  BY DEF TypesKept, Listed
<1>5. Numbered' /\ CallbackAt'
  BY <1>1, <1>2 DEF Numbered, CallbackAt, NoClick
<1>6. CASE ~ Lists(rounding)
  <2>1. BoxEnd' = BoxEnd /\ current_mjd' = BoxEnd
    BY <1>1, <1>3, <1>6 DEF BoxEnd, Reported, Lists
  <2>2. Listed' /\ TypesKept'
    BY <1>1, <1>3, <1>4, <1>6, <2>1 DEF Listed, TypesKept, Abuts, Clicks, NoClick
  <2> QED BY <1>5, <2>2
<1>7. CASE Lists(rounding)
  <2>1. Line \in Lines
    <3>1. \A b \in 0 .. NBins : b \in Int
      OBVIOUS
    <3>2. last.end \in Int
      BY <1>3, <3>1, MjdType DEF Reported
    <3>3. BoxEnd \in Int
      <4>1. box # <<>> => Len(box) \in DOMAIN box
        BY <1>4
      <4>2. \A i \in DOMAIN box : box[i] \in Lines
        BY <1>4
      <4> QED BY <4>1, <4>2 DEF BoxEnd, Lines
    <3>4. last.counted \subseteq Int
      BY <1>3, SchedulerSizes DEF Reported, Bins
    <3> QED BY <1>2, <1>3, <3>2, <3>3, <3>4 DEF Reported, Lines, Line
  <2>2. Line.row = click.row /\ Line.start = BoxEnd /\ Line.end = current_mjd
        /\ \A k \in Line.counted : Between(window[click.row], Mjd(k))
    BY <1>3 DEF Line, Reported
  <2> DEFINE n == Len(box)
  <2>3. /\ box' \in Seq(Lines) /\ n \in Nat /\ Len(box') = n + 1
        /\ DOMAIN box' = 1 .. n + 1 /\ DOMAIN box = 1 .. n
        /\ box'[n + 1] = Line /\ \A i \in 1 .. n : box'[i] = box[i]
    BY <1>1, <1>4, <1>7, <2>1
  <2>4. box' # <<>> /\ BoxEnd' = Line.end /\ BoxEnd = (IF n = 0 THEN 0 ELSE box[n].end)
    BY <1>4, <2>3 DEF BoxEnd
  <2> HIDE DEF n
  <2>5. TypesKept'
    BY <1>1, <2>3 DEF TypesKept, Clicks
  <2>6. Abuts(box)'
    <3> SUFFICES ASSUME NEW i \in 1 .. n + 1
                 PROVE  box'[i].start = IF i = 1 THEN 0 ELSE box'[i - 1].end
      BY <2>3 DEF Abuts
    <3>1. CASE i = n + 1
      BY <2>2, <2>3, <2>4, <3>1
    <3>2. CASE i # n + 1
      <4>1. i \in 1 .. n /\ (i # 1 => i - 1 \in 1 .. n)
        BY <2>3, <3>2
      <4> QED BY <1>4, <2>3, <4>1 DEF Abuts
    <3> QED BY <3>1, <3>2
  <2>7. \A i \in 1 .. n + 1 : i \in 1 .. n \/ i = n + 1
    BY <2>3
  <2>8. \A i \in DOMAIN box' : /\ box'[i].row \in already_done
                               /\ box'[i].row \in DOMAIN window
                               /\ \A k \in box'[i].counted : Between(window[box'[i].row], Mjd(k))
    BY <1>2, <1>4, <2>2, <2>3, <2>7
  <2>9. \A i, j \in DOMAIN box' : box'[i].row = box'[j].row => i = j
    BY <1>4, <2>2, <2>3, <2>7
  <2>10. Abuts(saved)'
    BY <1>1, <1>4 DEF Abuts
  <2>11. Listed'
    BY <1>1, <1>3, <2>2, <2>4, <2>6, <2>8, <2>9, <2>10 DEF Listed, NoClick
  <2> QED BY <1>5, <2>5, <2>11
<1> QED BY <1>6, <1>7

LEMMA SaveAct ==
  ASSUME OwnInv, Save
  PROVE  OwnInv'
<1> USE DEF OwnInv
<1>1. /\ saved' = box /\ click = NoClick
      /\ UNCHANGED <<scan, last, current_mjd, current_target_pointer, registered,
                     tlist, already_done, window, targ_num, click, box>>
  BY DEF Save, vars
<1>2. TypesKept' /\ Numbered' /\ CallbackAt'
  BY <1>1 DEF TypesKept, Numbered, CallbackAt
<1>3. current_mjd = BoxEnd /\ BoxEnd' = BoxEnd
  BY <1>1 DEF Listed, BoxEnd, NoClick
<1>4. Listed'
  BY <1>1, <1>3 DEF Listed, Abuts, NoClick
<1> QED BY <1>2, <1>4

----------------------------------------------------------------------------

(* What the program asks of its Scheduler is what a caller may ask.        *)
LEMMA DrivesScheduler ==
  ASSUME OwnInv, [TakoNext]_<<vars, tvars>>
  PROVE  [Next]_vars
<1>1. ASSUME Schedule PROVE Next
  <2>1. click.row \in Rows /\ click.row \in DOMAIN targ_num
    BY <1>1, ClickAt DEF OwnInv, CallbackAt, Schedule, NoClick
  <2>2. targ_num[click.row] \in Numbers /\ tlist[click.row] \in Exposures
    BY <2>1 DEF OwnInv, TypesKept
  <2> QED BY <1>1, <2>2 DEF Schedule, Next
<1>2. ASSUME Scan PROVE Next
  <2>1. BadTime(window[click.row], scan.mjd) \in BOOLEAN
    BY DEF BadTime
  <2> QED BY <1>2, <2>1 DEF Scan, Next, ScanStep
<1>3. ASSUME NEW c_ok \in BOOLEAN, Register(c_ok) PROVE Next
  BY <1>3 DEF Register, Next
<1>4. ASSUME \/ \E r \in Rows : Click(r)
             \/ \E ok \in BOOLEAN : set_sun_constraint(ok)
             \/ \E rounding \in BOOLEAN : List(rounding)
             \/ Save
             \/ UNCHANGED <<vars, tvars>>
      PROVE  UNCHANGED vars
  BY <1>4 DEF Click, set_sun_constraint, List, Save
<1> QED BY <1>1, <1>2, <1>3, <1>4 DEF TakoNext, Callback

LEMMA TakoStarts == TakoInit => TakoInv
<1> SUFFICES ASSUME TakoInit PROVE TakoInv
  OBVIOUS
<1>1. ExposureInv
  BY ExposureInit DEF TakoInit
<1>2. /\ tlist \in [Rows -> Exposures] /\ already_done = {} /\ click = NoClick
      /\ DOMAIN window = {} /\ DOMAIN targ_num = {} /\ box = <<>> /\ saved = <<>>
      /\ scan = Idle /\ current_mjd = 0 /\ NoClick.at = "idle"
  BY DEF TakoInit, Init, NoClick
<1>3. TypesKept /\ Numbered /\ CallbackAt
  BY <1>2 DEF TypesKept, Numbered, CallbackAt, Clicks
<1>4. Listed
  BY <1>2 DEF Listed, Abuts, BoxEnd
<1> QED BY <1>1, <1>3, <1>4 DEF TakoInv

LEMMA TakoStep ==
  ASSUME 0 \notin Exposures, FromTicks \subseteq Nat
  PROVE  TakoInv /\ [TakoNext]_<<vars, tvars>> => TakoInv'
<1> SUFFICES ASSUME TakoInv, [TakoNext]_<<vars, tvars>> PROVE TakoInv'
  OBVIOUS
<1>1. ExposureInv /\ SchedulerInv /\ OwnInv
  BY DEF TakoInv, OwnInv, ExposureInv
<1>2. ExposureInv'
  BY <1>1, DrivesScheduler, ExposureNext
<1>3. ASSUME NEW r \in Rows, Click(r) PROVE OwnInv'
  BY <1>1, <1>3, ClickKeeps
<1>4. ASSUME NEW ok \in BOOLEAN, set_sun_constraint(ok) PROVE OwnInv'
  BY <1>1, <1>4, SunConstraintKeeps
<1>5. ASSUME NEW c_ok \in BOOLEAN, Register(c_ok) PROVE OwnInv'
  BY <1>1, <1>5, RegisterAct
<1>6. ASSUME Schedule PROVE OwnInv'
  BY <1>1, <1>6, ScheduleAct
<1>7. ASSUME Scan PROVE OwnInv'
  BY <1>1, <1>7, ScanAct
<1>8. ASSUME NEW rounding \in BOOLEAN, List(rounding) PROVE OwnInv'
  BY <1>1, <1>8, ListAct
<1>9. ASSUME Save PROVE OwnInv'
  BY <1>1, <1>9, SaveAct
<1>10. ASSUME UNCHANGED <<vars, tvars>> PROVE OwnInv'
  BY <1>1, <1>10 DEF OwnInv, vars, tvars, TypesKept, Numbered, CallbackAt, InSun, Listed,
                     Abuts, BoxEnd, Reported
<1>11. OwnInv'
  BY <1>3, <1>4, <1>5, <1>6, <1>7, <1>8, <1>9, <1>10 DEF TakoNext, Callback
<1> QED BY <1>2, <1>11 DEF TakoInv, OwnInv

LEMMA TakoInvariant ==
  ASSUME 0 \notin Exposures, FromTicks \subseteq Nat
  PROVE  TakoSpec => []TakoInv
<1>1. TakoInv /\ [TakoNext]_<<vars, tvars>> => TakoInv'
  BY TakoStep
<1> QED BY <1>1, TakoStarts, PTL DEF TakoSpec

(* The program's variables keep their types. *)
THEOREM TakoTypeCorrect ==
  ASSUME 0 \notin Exposures, FromTicks \subseteq Nat
  PROVE  TakoSpec => []TakoTypeOK
<1>1. TakoInv => TakoTypeOK
  BY DEF TakoInv, ExposureInv, SchedulerInv, TypesKept, TakoTypeOK, Lines
<1> QED BY <1>1, TakoInvariant, PTL

(* The list box leaves out no time of the schedule: its observations abut, *)
(* from the start of the timeline to where the scheduler goes on or to the *)
(* observation about to be listed, for any number of targets and wherever  *)
(* callbacks raise; so did those saved.  Of observations of one bin, which *)
(* move nothing, it says nothing.                                          *)
THEOREM BoxStaysSchedule ==
  ASSUME 0 \notin Exposures, FromTicks \subseteq Nat
  PROVE  TakoSpec => []BoxIsSchedule
<1>1. TakoInv => BoxIsSchedule
  BY DEF TakoInv, Listed, Reported, BoxEnd, BoxIsSchedule
<1> QED BY <1>1, TakoInvariant, PTL

(* No target is listed twice or scheduled under the number of another.     *)
THEOREM NumbersStayApart ==
  ASSUME 0 \notin Exposures, FromTicks \subseteq Nat
  PROVE  TakoSpec => []OneNumberPerTarget
<1>1. TakoInv => OneNumberPerTarget
  BY DEF TakoInv, Listed, Numbered, CallbackAt, OneNumberPerTarget
<1> QED BY <1>1, TakoInvariant, PTL

(* What was counted for a target in the list is in its sun window.         *)
THEOREM CountedBySun ==
  ASSUME 0 \notin Exposures, FromTicks \subseteq Nat
  PROVE  TakoSpec => []CountedInSunWindow
<1>1. TakoInv => CountedInSunWindow
  BY DEF TakoInv, Listed, Between, CountedInSunWindow
<1> QED BY <1>1, TakoInvariant, PTL

(* The program implements the plan that its user is promised: each step is *)
(* one of the plan, or none that shows.                                    *)
LEMMA PlanStarts == TakoInit => Plan!PlanInit
BY DEF TakoInit, NoClick, Plan!PlanInit

LEMMA PlanSteps ==
  ASSUME TakoInv, [TakoNext]_<<vars, tvars>>
  PROVE  [Plan!PlanNext]_(Plan!pvars)
<1>1. OwnInv /\ TypesKept /\ NoClick.row = -1 /\ \A r \in Rows : r # -1
  BY TakoSizes DEF TakoInv, OwnInv, NoClick
<1>2. ASSUME NEW r \in Rows, Click(r) PROVE Plan!Try(r)
  BY <1>1, <1>2 DEF Click, Fresh, Plan!Try
<1>3. ASSUME click.at # "idle", Raises, UNCHANGED <<box, already_done, saved>>
      PROVE  Plan!GiveUp
  BY <1>1, <1>3, ClickAt DEF Raises, Plan!GiveUp
<1>4. ASSUME NEW at \in {"register", "schedule", "scan", "list"}, click.at # "idle", GoOn(at),
             UNCHANGED <<box, already_done, saved>>
      PROVE  UNCHANGED Plan!pvars
  BY <1>1, <1>4, RunsOn DEF Plan!pvars
<1>5. ASSUME NEW rounding \in BOOLEAN, List(rounding)
      PROVE  (\E bin \in 0 .. NBins, counted \in SUBSET (0 .. NBins - 1) :
                Plan!Place(bin * TicksPerBin, counted)) \/ Plan!GiveUp
  <2>1. /\ click.at = "list" /\ click' = NoClick /\ UNCHANGED <<already_done, saved>>
        /\ box' = IF Lists(rounding) THEN Append(box, Line) ELSE box
    BY <1>5 DEF List, Line
  <2>2. click.row # -1
    BY <1>1, <2>1, ClickAt
  <2>3. CASE ~ Lists(rounding)
    BY <1>1, <2>1, <2>2, <2>3 DEF Plan!GiveUp
  <2>4. CASE Lists(rounding)
    <3>1. Reported
      BY <2>1 DEF TakoInv, Listed
    <3>2. PICK bin \in 0 .. NBins : last.end = Mjd(bin)
      BY <3>1 DEF Reported
    <3>3. Plan!EndOf(box) = BoxEnd
      BY DEF Plan!EndOf, BoxEnd
    <3>4. Line = Plan!Observation(click.row, Plan!EndOf(box), bin * TicksPerBin, last.counted)
      BY <3>1, <3>2, <3>3 DEF Reported, Line, Mjd, Plan!Observation
    <3>5. /\ last.counted \in SUBSET (0 .. NBins - 1)
          /\ Plan!EndOf(box) <= bin * TicksPerBin
          /\ \A k \in last.counted :
               Plan!EndOf(box) <= k * TicksPerBin /\ k * TicksPerBin <= bin * TicksPerBin
      BY <3>1, <3>2, <3>3 DEF Reported, Mjd, Bins
    <3>6. Plan!Place(bin * TicksPerBin, last.counted)
      BY <1>1, <2>1, <2>2, <2>4, <3>4, <3>5 DEF Plan!Place
    <3> QED BY <3>2, <3>5, <3>6
  <2> QED BY <2>3, <2>4
<1>6. ASSUME Save PROVE Plan!SavePlan
  BY <1>1, <1>6 DEF Save, Plan!SavePlan
<1>7. ASSUME NEW ok \in BOOLEAN, set_sun_constraint(ok)
      PROVE  Plan!GiveUp \/ UNCHANGED Plan!pvars
  BY <1>3, <1>4, <1>7 DEF set_sun_constraint
<1>8. ASSUME \/ \E c_ok \in BOOLEAN : Register(c_ok)
             \/ Schedule
             \/ Scan
      PROVE  Plan!GiveUp \/ UNCHANGED Plan!pvars
  <2>1. /\ click.at # "idle" /\ UNCHANGED <<box, already_done, saved>>
        /\ \/ Raises \/ UNCHANGED click
           \/ \E at \in {"register", "schedule", "scan", "list"} : GoOn(at)
    BY <1>8 DEF Register, Schedule, Scan
  <2>2. CASE UNCHANGED click
    BY <2>1, <2>2 DEF Plan!pvars
  <2> QED BY <1>3, <1>4, <2>1, <2>2
<1>9. CASE UNCHANGED <<vars, tvars>>
  BY <1>9 DEF tvars, Plan!pvars
<1> QED BY <1>2, <1>5, <1>6, <1>7, <1>8, <1>9 DEF TakoNext, Callback, Plan!PlanNext, Plan!Answered

(* The promise of ObservingPlan is kept, for every file and timeline.      *)
THEOREM PlanIsKept ==
  ASSUME 0 \notin Exposures, FromTicks \subseteq Nat
  PROVE  TakoSpec => PlanKept
<1>1. TakoInv /\ [TakoNext]_<<vars, tvars>> => [Plan!PlanNext]_(Plan!pvars)
  BY PlanSteps
<1> QED BY <1>1, TakoInvariant, PlanStarts, PTL DEF TakoSpec, PlanKept, Plan!PlanSafe
==============================================================================
