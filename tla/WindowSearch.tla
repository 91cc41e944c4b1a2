---------------------------- MODULE WindowSearch ----------------------------
(***************************************************************************)
(* The searches of TargetView (TargetSun_py3.py): for the next window in   *)
(* which a target can be observed, and for a date on which a roll angle is *)
(* possible.  One question about the sun is one step, and is answered by   *)
(* Ephemeris, which may have an answer for an hour ago or ahead.           *)
(*                                                                         *)
(* Times are ticks; a tick is the finest step the search looks at, and the *)
(* next finer is below a minute.  The sky says how |90 - angle| compares   *)
(* with the limit: below it (-1), at it (0), beyond it (1); it repeats     *)
(* every year, as the sun does.                                            *)
(***************************************************************************)
EXTENDS Ephemeris, Sequences

CONSTANTS
  Skies,     \* skies of a target
  Starts,    \* times from which a window, or a date, is asked for
  Steps,     \* first steps of a search; the last but one is of a tick
  Ratio,     \* how much finer the next step is: 100
  year,      \* 365 days
  day,       \* the step of the search for a date
  later,     \* 20 days
  MjdZero    \* the julian date of mjd 0

ASSUME SearchSizes ==
  /\ Starts \subseteq Int /\ Steps \subseteq Nat \ {0} /\ day \in Steps
  /\ Ratio \in Nat \ {0, 1} /\ year \in Nat \ {0} /\ later \in Nat /\ MjdZero \in Nat
  /\ Skies \subseteq [0 .. year - 1 -> {-1, 0, 1}]
  /\ \A from \in Starts : from + MjdZero > epsilon

VARIABLES
  sky,     \* the target's
  search,  \* the search for a window in progress
  window,  \* the last window found
  roll,    \* the search for a date in progress
  date     \* the last date found

svars == <<sky, search, window, roll, date>>

one_minute == 0     \* a tick is more than a minute, a part of it less

mjd_to_jd(mjd) == mjd + MjdZero

Dphi(mjd) == sky[mjd % year]

NoSearch == [what |-> "nothing"]

(* A search for the opening or for the closing, entered with mjd_start and *)
(* step_size; looping is whether it is in its loop.  The rest is what it   *)
(* is for: the arguments of target_window(), the opening when it is found, *)
(* and whether the first look was of the time asked for.                   *)
Search(what, start, step, for) ==
  [what |-> what, start |-> start, mjd |-> start, step |-> step, looping |-> FALSE,
   for |-> for]

Purpose(from, step, open, fresh) ==
  [from |-> from, step |-> step, open |-> open, fresh |-> fresh]

NoWindow == [for |-> Purpose(0, 0, 0, FALSE), close |-> 0]

NoRoll == [at |-> "nothing"]

NoDate == [from |-> 0, mjd |-> 0, found |-> FALSE]

----------------------------------------------------------------------------

SearchInit ==
  /\ EphemerisInit
  /\ sky \in Skies
  /\ search = NoSearch /\ window = NoWindow
  /\ roll = NoRoll /\ date = NoDate

(* target_sun_angle_calc(): the angle is that of the time the ephemeris    *)
(* answers for.                                                            *)
Look(mjd) == Position("sun", mjd_to_jd(mjd))
Seen      == Dphi(jd' - MjdZero)

(* target_window() *)
BeginSearch(from, step) ==
  search' = Search("open", from, step, Purpose(from, step, from, ~Near(mjd_to_jd(from))))

(* The opening is found: the search for the closing starts there. *)
Opened(mjd) ==
  search' = Search("close", mjd, search.for.step, [search.for EXCEPT !.open = mjd])

Closed(mjd) == search' = NoSearch /\ window' = [for |-> search.for, close |-> mjd]

(* The time looked at is a step too far: back, and on with a finer step.   *)
(* Mutant: on from where it is.                                            *)
RefineOn(mjd) == search' = Search(search.what, mjd, search.step \div Ratio, search.for)
Refine(mjd) ==
  search' = Search(search.what, mjd - search.step, search.step \div Ratio, search.for)

GoOn(mjd) == search' = [search EXCEPT !.mjd = mjd, !.looping = TRUE]

(* mjd += step_size.  Mutant: of the start. *)
AheadOfStart == search.start + search.step
Ahead        == search.mjd + search.step

(* _find_window_open() *)
FindWindowOpen ==
  /\ search.what = "open"
  /\ \/ /\ search.step <= one_minute
        /\ Opened(search.start) /\ UNCHANGED evars
     \/ /\ search.step > one_minute /\ ~search.looping
        /\ Look(search.start)
        /\ IF Seen <= 0 THEN Opened(search.start) ELSE GoOn(search.start)
     \/ /\ search.step > one_minute /\ search.looping
        /\ Look(Ahead)
        /\ IF Seen <= 0 THEN Refine(Ahead) ELSE GoOn(Ahead)
  /\ UNCHANGED <<sky, window, roll, date>>

(* _find_window_close(): a window of a year is closed there, unseen. *)
FindWindowClose ==
  /\ search.what = "close"
  /\ \/ /\ search.step <= one_minute
        /\ Closed(search.start) /\ UNCHANGED evars
     \/ /\ search.step > one_minute /\ ~search.looping
        /\ Look(search.start)
        /\ IF Seen >= 0 THEN Closed(search.start)
           ELSE GoOn(search.start) /\ UNCHANGED window
     \/ /\ search.step > one_minute /\ search.looping
        /\ IF Ahead - search.start >= year
             THEN Closed(Ahead) /\ UNCHANGED evars
             ELSE /\ Look(Ahead)
                  /\ IF Seen >= 0 THEN Refine(Ahead) ELSE GoOn(Ahead)
                  /\ UNCHANGED window
  /\ UNCHANGED <<sky, roll, date>>

----------------------------------------------------------------------------
(* find_date_for_roll(): a window or two, and days in them *)

TargetWindow(from, step) ==
  /\ search = NoSearch /\ roll = NoRoll
  /\ BeginSearch(from, step)
  /\ UNCHANGED <<evars, sky, window, roll, date>>

FindDateForRoll(from) ==
  /\ search = NoSearch /\ roll = NoRoll
  /\ BeginSearch(from, day)
  /\ roll' = [at |-> "windows", from |-> from, windows |-> <<>>, wnum |-> 0, mjd |-> from]
  /\ UNCHANGED <<evars, sky, window, date>>

(* A window is there: the second is looked for unless the first is a year. *)
(* Mutant: the next is.                                                    *)
AnotherAfter(found) == window.close - window.for.open < year
Another(found)      == Len(found) = 1 /\ window.close - window.for.open < year

ListWindow ==
  LET found == Append(roll.windows, <<window.for.open, window.close>>)
  IN  /\ search = NoSearch /\ roll.at = "windows"
      /\ IF Another(found)
           THEN BeginSearch(window.close + later, day) /\ roll' = [roll EXCEPT !.windows = found]
           ELSE UNCHANGED search /\ roll' = [roll EXCEPT !.windows = found, !.at = "next"]
      /\ UNCHANGED <<evars, sky, window, date>>

Finished(mjd, found) ==
  /\ roll' = NoRoll
  /\ date' = [from |-> roll.from, mjd |-> mjd, found |-> found]

None == Finished(0, FALSE)

(* The next window, from its opening and a little, or from from_mjd in it. *)
EnterWindow ==
  /\ roll.at = "next"
  /\ \/ roll.wnum = Len(roll.windows) /\ None
     \/ /\ roll.wnum < Len(roll.windows)
        /\ LET w == roll.windows[roll.wnum + 1]
           IN  roll' = [roll EXCEPT !.at = "limits", !.wnum = @ + 1,
                          !.mjd = IF w[1] < roll.from /\ roll.from < w[2]
                                    THEN roll.from ELSE w[1] + 1]
        /\ UNCHANGED date
  /\ UNCHANGED <<evars, sky, search, window>>

NextDateSame ==    \* mutant of NextDate
  IF roll.mjd - roll.from > year THEN None
  ELSE roll' = [roll EXCEPT !.at = "limits"] /\ UNCHANGED date

NextDateLater ==   \* mutant of NextDate
  roll' = [roll EXCEPT !.at = "limits", !.mjd = @ + day] /\ UNCHANGED date

NextDate ==
  IF roll.mjd - roll.from > year THEN None
  ELSE roll' = [roll EXCEPT !.at = "limits", !.mjd = @ + day] /\ UNCHANGED date

(* target_roll_info() is "none", or has the roll asked for or not, or      *)
(* raises: the rounded argument of an acos() may be out of its domain.     *)
RollInfo(limits) ==
  /\ roll.at = "limits"
  /\ Look(roll.mjd)
  /\ \/ limits = "none" /\ roll.wnum = 2 /\ None
     \/ limits = "none" /\ roll.wnum = 1 /\ roll' = [roll EXCEPT !.at = "next"] /\ UNCHANGED date
     \/ limits = "in" /\ roll' = [roll EXCEPT !.at = "observable"] /\ UNCHANGED date
     \/ limits = "out" /\ NextDate
     \/ limits = "raises" /\ roll' = NoRoll /\ UNCHANGED date
  /\ UNCHANGED <<sky, search, window>>

(* Mutant: the roll angle is enough. *)
BelowLimitAlways(dphi) == TRUE
BelowLimit(dphi)       == dphi < 0

target_observable ==
  /\ roll.at = "observable"
  /\ Look(roll.mjd)
  /\ \/ BelowLimit(Seen) /\ Finished(roll.mjd, TRUE)
     \/ ~BelowLimit(Seen) /\ roll.wnum = 2 /\ None
     \/ ~BelowLimit(Seen) /\ roll.wnum = 1 /\ NextDate
  /\ UNCHANGED <<sky, search, window>>

----------------------------------------------------------------------------

Searching ==
  \/ FindWindowOpen
  \/ FindWindowClose
  \/ ListWindow
  \/ EnterWindow
  \/ \E limits \in {"none", "in", "out", "raises"} : RollInfo(limits)
  \/ target_observable

(* TargetView() asks for the ephemeris of the sun; other bodies may be     *)
(* asked about between two searches.                                       *)
SearchNext ==
  \/ search = NoSearch /\ roll = NoRoll /\ EphemerisNext /\ UNCHANGED svars
  \/ /\ "sun" \in activeSSO
     /\ \E from \in Starts : FindDateForRoll(from) \/ \E step \in Steps : TargetWindow(from, step)
  \/ Searching

(* A search that has begun is run. *)
SearchSpec == SearchInit /\ [][SearchNext]_<<evars, svars>> /\ WF_<<evars, svars>>(Searching)

----------------------------------------------------------------------------

SearchTypeOK ==
  /\ EphemerisTypeOK
  /\ sky \in Skies
  /\ search = NoSearch \/ (search.what \in {"open", "close"} /\ search.for.step \in Steps)
  /\ window.close \in Int
  /\ roll = NoRoll \/ (roll.at \in {"windows", "next", "limits", "observable"}
                        /\ roll.wnum \in 0 .. Len(roll.windows) /\ Len(roll.windows) <= 2)

(* The reference: what is the next window, if one is told in time *)
Observable(mjd) == Dphi(mjd) < 0

Opening(from) ==
  CHOOSE a \in from .. from + year :
    Observable(a) /\ \A k \in from .. a - 1 : ~Observable(k)

Closing(open) ==
  IF \A k \in open .. open + year - 1 : Observable(k) THEN open + year
  ELSE CHOOSE b \in open .. open + year : ~Observable(b) /\ \A k \in open .. b - 1 : Observable(k)

(* The window found is the next one that the sky has, both ends to the     *)
(* hour by which the ephemeris may be out, and it is not empty, although   *)
(* the opening that is returned is a step before the first time at which   *)
(* the target was seen observable.                                         *)
Window(w) ==
  LET open  == Opening(w.for.from)
      close == Closing(open)
  IN  /\ open - epsilon <= w.for.open /\ w.for.open <= open + epsilon
      /\ close - epsilon <= w.close /\ w.close <= close + epsilon
      /\ w.for.open < w.close

NextWindowFound == window # NoWindow /\ window.for.fresh => Window(window)

(* What that rests on: a search goes down to steps of an hour or less, and *)
(* a year is a number of its first steps;                                  *)
Levels == Steps \union {step \div Ratio : step \in Steps} \union {0}

FineSteps ==
  /\ epsilon > 0
  /\ \A step \in Steps : year % step = 0
  /\ \A p \in Levels : p \div Ratio \in Levels /\ (p \in 1 .. Ratio - 1 => p <= epsilon)

(* and times that are both in a window, or both out of one, are in the     *)
(* same one when they are no more than a first step and two hours apart.   *)
LongWindows ==
  \A s \in Skies :
    /\ \A k \in 0 .. year - 1 : s[k] # 0
    /\ \A step \in Steps : \A k \in 0 .. year - 1, j \in 2 .. step + 2 * epsilon :
         s[(k + j) % year] = s[k] => \A i \in 1 .. j - 1 : s[(k + i) % year] = s[k]

(* And a window that closes is followed within the year by another that    *)
(* closes, more than 20 days and four hours later.                         *)
WindowsReturn ==
  /\ later + 4 * epsilon < year
  /\ \A s \in Skies : \A k \in 0 .. year - 1 :
       s[k] = -1 /\ s[(k + 1) % year] = 1 =>
         \E j \in later + 4 * epsilon + 1 .. year - 1 :
           s[(k + j) % year] = -1 /\ s[(k + j + 1) % year] = 1

(* The date for a roll angle is not before the time asked from, and the    *)
(* target can be observed then, to the hour.                               *)
DateObservable ==
  date.found =>
    /\ date.from <= date.mjd
    /\ \E k \in date.mjd - epsilon .. date.mjd + epsilon : Observable(k)

(* The date for a roll angle is within a year and a step of the time asked *)
(* from, although a second window is entered without a look at the year.   *)
DateWithinYear == date.found => date.mjd <= date.from + year + day + 1

(* A search ends, by its refinement or by the year.                        *)
SearchEnds == (search # NoSearch) ~> (search = NoSearch)
DateEnds   == (roll # NoRoll) ~> (roll = NoRoll)
==============================================================================
