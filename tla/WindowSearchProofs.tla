-------------------------- MODULE WindowSearchProofs --------------------------
(***************************************************************************)
(* Proofs about Ephemeris, for all bodies, series and times, and about the *)
(* searches over it, for any sky and any answers about rolls.              *)
(*                                                                         *)
(* That the series of a body are all of one time is not inductive: it      *)
(* rests on the active arguments being up to date, those of the bodies     *)
(* registered being active, and on the three globals agreeing as soon as   *)
(* any time has been computed for.  Until then every time asked is more    *)
(* than an hour away from the 0 that jd starts with: a search must not     *)
(* step back behind the time it is for, which is what its invariant says.  *)
(***************************************************************************)
EXTENDS WindowSearch, TLAPS, WellFoundedInduction

(* Every active argument is of the current time. *)
UpToDate == \A e \in activeArguments : argument[e] = t

ClockAgrees == jd = 0 \/ (T = t /\ t = jd - JD0)

EphemerisInv == EphemerisTypeOK /\ UpToDate /\ ClockAgrees /\ PositionOfOneTime

----------------------------------------------------------------------------

LEMMA TermsOfABody == \A b \in Bodies : TermsOf[b] \subseteq Terms
  BY DEF Terms

(* From a time to the epoch and back *)
LEMMA ThereAndBack == \A a, b \in Int : a - b \in Int /\ (a - b) + b = a
  OBVIOUS

(* Near is symmetric, and is kept when both times are moved. *)
LEMMA WithinBoth ==
  ASSUME NEW a \in Int, NEW b \in Int, NEW e \in Int, a - e <= b, b <= a + e
  PROVE  b - e <= a /\ a <= b + e
  OBVIOUS

LEMMA WithinMoved ==
  ASSUME NEW a \in Int, NEW b \in Int, NEW e \in Int, NEW z \in Int,
         a - e <= b + z, b + z <= a + e
  PROVE  a - z \in b - e .. b + e
  OBVIOUS

LEMMA EphemerisStarts == EphemerisInit => EphemerisInv
  BY EphemerisSizes DEF EphemerisInit, EphemerisInv, EphemerisTypeOK, UpToDate, ClockAgrees,
     PositionOfOneTime, Answer

(* Registration: the arguments of the new body join those that are up to   *)
(* date.                                                                   *)
LEMMA EphemerisKeeps ==
  ASSUME EphemerisInv, NEW name \in Names, Ephemeris(name)
  PROVE  EphemerisInv'
<1> USE EphemerisSizes DEF EphemerisInv, Answer, clock
<1>1. CASE name \notin DOMAIN ssoNameMap
  BY <1>1 DEF Ephemeris, EphemerisTypeOK, UpToDate, ClockAgrees, PositionOfOneTime
<1>2. CASE name \in DOMAIN ssoNameMap /\ ssoNameMap[name] \in activeSSO
  BY <1>2 DEF Ephemeris, EphemerisTypeOK, UpToDate, ClockAgrees, PositionOfOneTime
<1>3. CASE /\ answer' = [call |-> "SystemExit", asked |-> 0, arguments |-> {}, centuries |-> Never]
           /\ UNCHANGED <<clock, activeArguments, argument, activeSSO>>
  BY <1>3 DEF EphemerisTypeOK, UpToDate, ClockAgrees, PositionOfOneTime
<1>4. CASE /\ name \in DOMAIN ssoNameMap /\ ssoNameMap[name] \notin activeSSO
           /\ answer'.call # "SystemExit"
  <2> DEFINE body == ssoNameMap[name]
  <2>1. body \in Bodies
    BY <1>4 DEF Bodies
  <2>2. /\ activeArguments' = activeArguments \union TermsOf[body]
        /\ argument' = [e \in Terms |-> IF e \in activeArguments' THEN t ELSE argument[e]]
        /\ activeSSO' = activeSSO \union {body}
        /\ answer' = [call |-> "registered", asked |-> 0, arguments |-> {}, centuries |-> Never]
        /\ UNCHANGED <<jd, t, T>>
    BY <1>4 DEF Ephemeris, Registered, Updated
  <2> HIDE DEF body
  <2>3. activeArguments' = UNION {TermsOf[b] : b \in activeSSO'}
    BY <2>2 DEF EphemerisTypeOK
  <2>4. activeArguments' \subseteq Terms
    BY <2>1, <2>2, <2>3 DEF EphemerisTypeOK, Terms
  <2>5. EphemerisTypeOK'
    BY <2>1, <2>2, <2>3 DEF EphemerisTypeOK
  <2>6. UpToDate'
    BY <2>2, <2>4 DEF UpToDate
  <2>7. ClockAgrees' /\ PositionOfOneTime'
    BY <2>2 DEF ClockAgrees, PositionOfOneTime
  <2> QED BY <2>5, <2>6, <2>7
<1> QED BY <1>1, <1>2, <1>3, <1>4 DEF Ephemeris

(* A position: near the last time nothing is computed anew, and the last   *)
(* time is in force; otherwise the time asked is.                          *)
LEMMA PositionKeeps ==
  ASSUME EphemerisInv, NEW body \in Bodies, NEW asked \in Int, asked > epsilon,
         Position(body, asked)
  PROVE  EphemerisInv' /\ jd' - epsilon <= asked /\ asked <= jd' + epsilon
<1> USE EphemerisSizes DEF EphemerisInv
<1>1. /\ asked \in Int /\ asked > epsilon /\ body \in activeSSO
      /\ activeSSO' = activeSSO /\ activeArguments' = activeArguments
      /\ answer' = [call |-> "position", asked |-> asked,
                    arguments |-> {argument'[e] : e \in TermsOf[body]}, centuries |-> T']
  BY DEF Position, Answer
<1>2. TermsOf[body] \subseteq activeArguments /\ activeArguments \subseteq Terms
  BY <1>1, TermsOfABody DEF EphemerisTypeOK
<1>3. /\ jd' \in Int /\ t' \in Int /\ T' = t' /\ t' = jd' - JD0
      /\ argument' \in [Terms -> Int \union {Never}]
      /\ \A e \in activeArguments : argument'[e] = t'
      /\ jd' - epsilon <= asked /\ asked <= jd' + epsilon
  <2>1. CASE Near(asked)
    <3>1. jd # 0
      BY <2>1, <1>1 DEF Near
    <3> QED BY <2>1, <3>1, <1>1 DEF Position, Update, Near, clock, EphemerisTypeOK, UpToDate, ClockAgrees
  <2>2. CASE ~Near(asked)
    <3>1. /\ jd' = asked /\ t' = asked - JD0 /\ T' = t'
          /\ argument' = [e \in Terms |-> IF e \in activeArguments THEN t' ELSE argument[e]]
      BY <2>2 DEF Position, Update, Updated
    <3> QED BY <3>1, <1>1, <1>2 DEF EphemerisTypeOK
  <2> QED BY <2>1, <2>2
<1>4. {argument'[e] : e \in TermsOf[body]} \subseteq {T'}
  BY <1>2, <1>3
<1>5. EphemerisTypeOK'
  BY <1>1, <1>3, <1>4 DEF EphemerisTypeOK
<1>6. UpToDate' /\ ClockAgrees'
  BY <1>1, <1>3 DEF UpToDate, ClockAgrees
<1>7. PositionOfOneTime'
  <2>0. JD0 \in Int /\ jd' \in Int /\ T' = jd' - JD0
    BY <1>3
  <2>1. T' \in Int /\ T' + JD0 = jd'
    BY ONLY <2>0, ThereAndBack, Zenon
  <2>2. /\ answer'.asked = asked /\ answer'.centuries = T'
        /\ answer'.arguments \subseteq {T'}
    BY <1>1, <1>4
  <2>3. answer'.centuries + JD0 = jd'
    BY ONLY <2>1, <2>2, Zenon
  <2>4. /\ answer'.asked - epsilon <= answer'.centuries + JD0
        /\ answer'.centuries + JD0 <= answer'.asked + epsilon
    <3>1. jd' - epsilon <= asked /\ asked <= jd' + epsilon
      BY <1>3
    <3>2. asked - epsilon <= jd' /\ jd' <= asked + epsilon
      <4>1. epsilon \in Int /\ asked \in Int /\ jd' \in Int
        BY <2>0
      <4> QED BY ONLY <4>1, <3>1, WithinBoth
    <3> QED BY ONLY <3>2, <2>3, <2>2, Zenon
  <2>5. answer'.centuries \in Int /\ answer'.arguments \subseteq {answer'.centuries}
    BY <2>1, <2>2
  <2> QED BY ONLY <2>4, <2>5 DEF PositionOfOneTime
<1> QED BY <1>3, <1>5, <1>6, <1>7

LEMMA EphemerisSteps == EphemerisInv /\ [EphemerisNext]_evars => EphemerisInv'
<1>1. ASSUME EphemerisInv, UNCHANGED evars PROVE EphemerisInv'
  BY <1>1 DEF evars, EphemerisInv, EphemerisTypeOK, UpToDate, ClockAgrees, PositionOfOneTime
<1>2. \A asked \in Times : asked \in Int /\ asked > epsilon
  BY EphemerisSizes
<1> QED BY <1>1, <1>2, EphemerisKeeps, PositionKeeps DEF EphemerisNext

(* PositionOfOneTime: the positions of solarSystem_py3.py are for one time *)
(* within an hour of that asked, whatever was asked or registered before.  *)
THEOREM OneTimeForAll == EphemerisSpec => []PositionOfOneTime
<1>1. EphemerisInv => PositionOfOneTime
  BY DEF EphemerisInv
<1> QED BY EphemerisStarts, EphemerisSteps, <1>1, PTL DEF EphemerisSpec

----------------------------------------------------------------------------
(* The searches *)

TimeIn(mjd) == mjd \in Int /\ mjd_to_jd(mjd) > epsilon

Searches ==
  [what : {"open", "close"}, start : Int, mjd : Int, step : Nat, looping : BOOLEAN,
   for : [from : Int, step : Steps, open : Int, fresh : BOOLEAN]]

(* A search is never behind the time it is for, nor, once the opening is   *)
(* found, behind the opening.                                              *)
SearchAhead ==
  search # NoSearch =>
    /\ search \in Searches
    /\ TimeIn(search.for.from) /\ search.start <= search.mjd
    /\ search.what = "open" => search.for.from <= search.start
    /\ search.what = "close" =>
         search.for.from <= search.for.open /\ search.for.open <= search.start

WindowAhead ==
  /\ window.for.from \in Int /\ window.for.open \in Int /\ window.close \in Int
  /\ window.for.from <= window.for.open /\ window.for.open <= window.close

(* The windows listed for a roll, and the one that is looked for, are not  *)
(* behind the time asked from.                                             *)
Rolls ==
  [at : {"windows", "next", "limits", "observable"}, from : Int,
   windows : Seq(Int \X Int), wnum : Nat, mjd : Int]

RollAhead ==
  roll # NoRoll =>
    /\ roll \in Rolls /\ TimeIn(roll.from) /\ roll.from <= roll.mjd
    /\ Len(roll.windows) <= 2 /\ roll.wnum <= Len(roll.windows)
    /\ \A i \in 1 .. Len(roll.windows) : roll.from <= roll.windows[i][1]

Awaited ==
  roll # NoRoll /\ roll.at = "windows" =>
    /\ Len(roll.windows) <= 1 /\ roll.wnum = 0
    /\ search # NoSearch => roll.from <= search.for.from
    /\ search = NoSearch => roll.from <= window.for.from

SearchInv ==
  /\ EphemerisInv /\ sky \in Skies
  /\ SearchAhead /\ WindowAhead /\ RollAhead /\ Awaited
  /\ DateObservable

----------------------------------------------------------------------------

LEMMA SearchStarts == SearchInit => SearchInv
  BY EphemerisStarts DEF SearchInit, SearchInv, SearchAhead, WindowAhead, RollAhead, Awaited,
     DateObservable, NoSearch, NoWindow, NoRoll, NoDate, Purpose

(* What is seen is of a time within an hour of the one looked at. *)
LEMMA LookKeeps ==
  ASSUME EphemerisInv, NEW mjd, TimeIn(mjd), Look(mjd)
  PROVE  /\ EphemerisInv'
         /\ jd' - MjdZero \in mjd - epsilon .. mjd + epsilon
<1>1. mjd \in Int /\ MjdZero \in Int /\ epsilon \in Int /\ mjd + MjdZero > epsilon
  BY SearchSizes, EphemerisSizes DEF TimeIn, mjd_to_jd
<1>2. "sun" \in Bodies
  BY DEF Look, Position, EphemerisInv, EphemerisTypeOK
<1>3. EphemerisInv' /\ jd' - epsilon <= mjd + MjdZero /\ mjd + MjdZero <= jd' + epsilon
  BY <1>1, <1>2, PositionKeeps DEF Look, mjd_to_jd
<1>4. jd' \in Int
  BY <1>3 DEF EphemerisInv, EphemerisTypeOK
<1>5. jd' - MjdZero \in mjd - epsilon .. mjd + epsilon
  BY ONLY <1>1, <1>3, <1>4, WithinMoved
<1> QED BY <1>3, <1>5

LEMMA NotLooking == EphemerisInv /\ UNCHANGED evars => EphemerisInv'
  BY EphemerisSteps

LEMMA FinerStep == \A step \in Nat : step \div Ratio \in Nat
  BY SearchSizes

(* What a search that goes on has to be shown to keep *)
GoesOn ==
  /\ search' # NoSearch /\ SearchAhead'
  /\ search'.for.from = search.for.from

LEMMA SearchFields ==
  ASSUME SearchAhead, search # NoSearch
  PROVE  /\ search \in Searches /\ search.what \in {"open", "close"}
         /\ search.start \in Int /\ search.mjd \in Int /\ search.step \in Nat
         /\ search.for \in [from : Int, step : Steps, open : Int, fresh : BOOLEAN]
         /\ search.for.from \in Int /\ search.for.open \in Int
         /\ search.for.step \in Steps /\ search.for.step \in Nat
         /\ search.start <= search.mjd /\ TimeIn(search.for.from)
         /\ search.what = "open" => search.for.from <= search.start
         /\ search.what = "close" =>
              search.for.from <= search.for.open /\ search.for.open <= search.start
  BY SearchSizes DEF SearchAhead, Searches

LEMMA BeginIsAhead ==
  ASSUME NEW from, TimeIn(from), NEW step \in Steps, BeginSearch(from, step)
  PROVE  search' # NoSearch /\ SearchAhead' /\ search'.for.from = from
  BY SearchSizes
  DEF BeginSearch, Search, Purpose, SearchAhead, Searches, NoSearch, TimeIn, Near, mjd_to_jd

LEMMA OpenedGoesOn ==
  ASSUME SearchAhead, search # NoSearch, NEW mjd \in Int, search.for.from <= mjd, Opened(mjd)
  PROVE  GoesOn
<1>1. search' = [what |-> "close", start |-> mjd, mjd |-> mjd, step |-> search.for.step,
                 looping |-> FALSE, for |-> [search.for EXCEPT !.open = mjd]]
  BY DEF Opened, Search
<1>2. /\ [search.for EXCEPT !.open = mjd] \in [from : Int, step : Steps, open : Int, fresh : BOOLEAN]
      /\ [search.for EXCEPT !.open = mjd].from = search.for.from
      /\ [search.for EXCEPT !.open = mjd].open = mjd
  BY SearchFields
<1> QED BY <1>1, <1>2, SearchFields DEF GoesOn, SearchAhead, Searches, NoSearch, TimeIn, mjd_to_jd

LEMMA RefineGoesOn ==
  ASSUME SearchAhead, search # NoSearch, Refine(Ahead)
  PROVE  GoesOn
<1>1. Ahead - search.step = search.mjd /\ search.step \div Ratio \in Nat
  BY SearchFields, FinerStep DEF Ahead
<1>2. search' = [what |-> search.what, start |-> search.mjd, mjd |-> search.mjd,
                 step |-> search.step \div Ratio, looping |-> FALSE, for |-> search.for]
  BY ONLY <1>1, Refine(Ahead) DEF Refine, Search
<1> QED BY <1>1, <1>2, SearchFields DEF GoesOn, SearchAhead, Searches, NoSearch, TimeIn, mjd_to_jd

LEMMA GoOnGoesOn ==
  ASSUME SearchAhead, search # NoSearch, NEW mjd \in Int, search.start <= mjd, GoOn(mjd)
  PROVE  GoesOn
<1>1. search' = [search EXCEPT !.mjd = mjd, !.looping = TRUE]
  BY DEF GoOn
<1>2. /\ search' \in Searches /\ search'.what = search.what /\ search'.start = search.start
      /\ search'.mjd = mjd /\ search'.for = search.for
  BY <1>1, SearchFields DEF Searches
<1> QED BY <1>2, SearchFields DEF GoesOn, SearchAhead, NoSearch, TimeIn, mjd_to_jd

(* Where a search looks is not behind the time it is for. *)
LEMMA LooksAhead ==
  ASSUME SearchAhead, search # NoSearch
  PROVE  /\ TimeIn(search.start) /\ TimeIn(Ahead)
         /\ search.start <= Ahead /\ search.for.from <= search.start
         /\ search.what = "close" => search.for.open <= Ahead
<1>1. search.for.from <= search.start
  BY SearchFields
<1>2. Ahead \in Int /\ search.start <= Ahead /\ search.for.from <= Ahead
  BY <1>1, SearchFields DEF Ahead
<1>3. ASSUME NEW a \in Int, NEW b \in Int, TimeIn(a), a <= b PROVE TimeIn(b)
  BY <1>3, SearchSizes, EphemerisSizes DEF TimeIn, mjd_to_jd
<1>4. search.what = "close" => search.for.open <= Ahead
  BY <1>2, SearchFields
<1> QED BY <1>1, <1>2, <1>3, <1>4, SearchFields

LEMMA GoingOnKeeps ==
  ASSUME SearchInv, search # NoSearch, GoesOn, EphemerisInv',
         UNCHANGED <<sky, window, roll, date>>
  PROVE  SearchInv'
<1>1. (sky \in Skies)' /\ WindowAhead' /\ RollAhead' /\ DateObservable'
  BY DEF SearchInv, WindowAhead, RollAhead, TimeIn, mjd_to_jd, DateObservable, Observable, Dphi
<1>2. Awaited'
  BY DEF SearchInv, GoesOn, Awaited
<1> QED BY <1>1, <1>2 DEF SearchInv, GoesOn

LEMMA FindWindowOpenKeeps ==
  ASSUME SearchInv, FindWindowOpen
  PROVE  SearchInv'
<1>1. /\ search # NoSearch /\ search.what = "open" /\ SearchAhead /\ EphemerisInv
      /\ UNCHANGED <<sky, window, roll, date>>
  BY DEF FindWindowOpen, NoSearch, SearchInv
<1>2. TimeIn(search.start) /\ search.start \in Int /\ TimeIn(Ahead) /\ Ahead \in Int
  BY <1>1, LooksAhead DEF TimeIn
<1>3. CASE Opened(search.start) /\ UNCHANGED evars
  BY <1>1, <1>2, <1>3, LooksAhead, OpenedGoesOn, NotLooking, GoingOnKeeps
<1>4. CASE Look(search.start) /\ (Opened(search.start) \/ GoOn(search.start))
  BY <1>1, <1>2, <1>4, LooksAhead, OpenedGoesOn, GoOnGoesOn, LookKeeps, GoingOnKeeps
<1>5. CASE Look(Ahead) /\ (Refine(Ahead) \/ GoOn(Ahead))
  BY <1>1, <1>2, <1>5, LooksAhead, RefineGoesOn, GoOnGoesOn, LookKeeps, GoingOnKeeps
<1> QED BY <1>3, <1>4, <1>5 DEF FindWindowOpen

(* The window is closed: a search for a roll gets it. *)
LEMMA ClosedKeeps ==
  ASSUME SearchInv, search # NoSearch, search.what = "close", EphemerisInv',
         NEW mjd \in Int, search.for.open <= mjd, Closed(mjd),
         UNCHANGED <<sky, roll, date>>
  PROVE  SearchInv'
<1>1. search' = [what |-> "nothing"] /\ window' = [for |-> search.for, close |-> mjd]
  BY DEF Closed, NoSearch
<1>2. SearchAhead /\ search.for.from <= search.for.open
  BY SearchFields DEF SearchInv
<1>3. WindowAhead' /\ SearchAhead'
  BY <1>1, <1>2, SearchFields DEF WindowAhead, SearchAhead, NoSearch
<1>4. (sky \in Skies)' /\ RollAhead' /\ DateObservable'
  BY DEF SearchInv, RollAhead, TimeIn, mjd_to_jd, DateObservable, Observable, Dphi
<1>5. Awaited'
  BY <1>1 DEF SearchInv, Awaited, NoSearch
<1> QED BY <1>3, <1>4, <1>5 DEF SearchInv

LEMMA FindWindowCloseKeeps ==
  ASSUME SearchInv, FindWindowClose
  PROVE  SearchInv'
<1>1. /\ search # NoSearch /\ search.what = "close" /\ SearchAhead /\ EphemerisInv
      /\ UNCHANGED <<sky, roll, date>>
  BY DEF FindWindowClose, NoSearch, SearchInv
<1>2. TimeIn(search.start) /\ search.start \in Int /\ TimeIn(Ahead) /\ Ahead \in Int
  BY <1>1, LooksAhead DEF TimeIn
<1>3. search.for.open <= search.start /\ search.for.open <= Ahead
  BY <1>1, SearchFields, LooksAhead
<1>4. CASE (Closed(search.start) \/ Closed(Ahead)) /\ UNCHANGED evars
  BY <1>1, <1>2, <1>3, <1>4, NotLooking, ClosedKeeps
<1>5. CASE Look(search.start) /\ (Closed(search.start) \/ (GoOn(search.start) /\ UNCHANGED window))
  BY <1>1, <1>2, <1>3, <1>5, LooksAhead, GoOnGoesOn, LookKeeps, ClosedKeeps, GoingOnKeeps
<1>6. CASE Look(Ahead) /\ (Refine(Ahead) \/ GoOn(Ahead)) /\ UNCHANGED window
  BY <1>1, <1>2, <1>6, LooksAhead, RefineGoesOn, GoOnGoesOn, LookKeeps, GoingOnKeeps
<1> QED BY <1>4, <1>5, <1>6 DEF FindWindowClose

LEMMA TargetWindowKeeps ==
  ASSUME SearchInv, NEW from \in Starts, NEW step \in Steps, TargetWindow(from, step)
  PROVE  SearchInv'
<1>1. TimeIn(from)
  BY SearchSizes DEF TimeIn, mjd_to_jd
<1>2. SearchAhead'
  BY <1>1, BeginIsAhead DEF TargetWindow
<1>3. EphemerisInv'
  BY NotLooking DEF SearchInv, TargetWindow
<1>4. (sky \in Skies)' /\ WindowAhead' /\ RollAhead' /\ DateObservable' /\ Awaited'
  BY DEF TargetWindow, SearchInv, WindowAhead, RollAhead, DateObservable, Observable, Dphi, Awaited
<1> QED BY <1>2, <1>3, <1>4 DEF SearchInv

LEMMA FindDateForRollKeeps ==
  ASSUME SearchInv, NEW from \in Starts, FindDateForRoll(from)
  PROVE  SearchInv'
<1>1. TimeIn(from) /\ from \in Int /\ day \in Steps
  BY SearchSizes DEF TimeIn, mjd_to_jd
<1>2. search' # NoSearch /\ SearchAhead' /\ search'.for.from = from
  BY <1>1, BeginIsAhead DEF FindDateForRoll
<1>3. EphemerisInv'
  BY NotLooking DEF SearchInv, FindDateForRoll
<1>4. (sky \in Skies)' /\ WindowAhead' /\ DateObservable'
  BY DEF FindDateForRoll, SearchInv, WindowAhead, DateObservable, Observable, Dphi
<1>5. roll' = [at |-> "windows", from |-> from, windows |-> <<>>, wnum |-> 0, mjd |-> from]
  BY DEF FindDateForRoll
<1>6. <<>> \in Seq(Int \X Int) /\ Len(<<>>) = 0
  OBVIOUS
<1>7. RollAhead'
  BY <1>1, <1>5, <1>6 DEF RollAhead, Rolls, TimeIn, mjd_to_jd
<1>8. Awaited'
  BY <1>1, <1>2, <1>5, <1>6 DEF Awaited
<1> QED BY <1>2, <1>3, <1>4, <1>7, <1>8 DEF SearchInv

LEMMA RollFields ==
  ASSUME RollAhead, roll # NoRoll
  PROVE  /\ roll \in Rolls /\ roll.from \in Int /\ roll.mjd \in Int /\ roll.wnum \in Nat
         /\ roll.windows \in Seq(Int \X Int) /\ TimeIn(roll.from) /\ TimeIn(roll.mjd)
         /\ roll.from <= roll.mjd
         /\ Len(roll.windows) <= 2 /\ roll.wnum <= Len(roll.windows)
         /\ \A i \in 1 .. Len(roll.windows) : roll.from <= roll.windows[i][1]
<1>1. roll \in Rolls /\ TimeIn(roll.from) /\ roll.from <= roll.mjd
  BY DEF RollAhead
<1>2. roll.from \in Int /\ roll.mjd \in Int
  BY <1>1 DEF Rolls
<1>3. TimeIn(roll.mjd)
  BY <1>1, <1>2, SearchSizes, EphemerisSizes DEF TimeIn, mjd_to_jd
<1> QED BY <1>1, <1>2, <1>3 DEF RollAhead, Rolls

(* The window that is listed is not behind the time asked from, and the    *)
(* second is looked for behind the first.                                  *)
LEMMA ListWindowKeeps ==
  ASSUME SearchInv, ListWindow
  PROVE  SearchInv'
<1> DEFINE w     == <<window.for.open, window.close>>
           found == Append(roll.windows, w)
<1>1. /\ search = NoSearch /\ roll # NoRoll /\ roll.at = "windows"
      /\ UNCHANGED <<evars, sky, window, date>>
  BY DEF ListWindow, NoRoll
<1>2. /\ Len(roll.windows) <= 1 /\ roll.wnum = 0 /\ roll.from <= window.for.from
      /\ SearchAhead /\ RollAhead
  BY <1>1 DEF SearchInv, Awaited
<1>3. /\ w \in Int \X Int /\ roll.from <= w[1] /\ roll.from <= window.close
      /\ window.close \in Int
  BY <1>1, <1>2, RollFields DEF SearchInv, WindowAhead
<1>4. EphemerisInv' /\ (sky \in Skies)' /\ WindowAhead' /\ DateObservable'
  BY <1>1, NotLooking DEF SearchInv, WindowAhead, DateObservable, Observable, Dphi
<1>5. /\ found \in Seq(Int \X Int) /\ Len(found) = Len(roll.windows) + 1 /\ Len(found) <= 2
      /\ \A i \in 1 .. Len(found) : roll.from <= found[i][1]
  <2>1. /\ roll.windows \in Seq(Int \X Int) /\ Len(roll.windows) <= 1
        /\ \A i \in 1 .. Len(roll.windows) : roll.from <= roll.windows[i][1]
    BY <1>1, <1>2, RollFields
  <2> HIDE DEF w
  <2>2. Len(roll.windows) \in Nat
    BY ONLY <2>1
  <2>3. /\ found \in Seq(Int \X Int) /\ Len(found) = Len(roll.windows) + 1
        /\ \A i \in 1 .. Len(roll.windows) : found[i] = roll.windows[i]
        /\ found[Len(roll.windows) + 1] = w
    BY ONLY <1>3, <2>1, <2>2
  <2>4. Len(found) <= 2
    BY ONLY <2>1, <2>2, <2>3
  <2>5. \A i \in 1 .. Len(found) : roll.from <= found[i][1]
    <3> SUFFICES ASSUME NEW i \in 1 .. Len(found) PROVE roll.from <= found[i][1]
      OBVIOUS
    <3> HIDE DEF found
    <3>1. i \in 1 .. Len(roll.windows) \/ i = Len(roll.windows) + 1
      <4>1. i \in 1 .. Len(roll.windows) + 1
        BY <2>3
      <4> QED BY ONLY <2>2, <4>1
    <3> QED BY <1>3, <2>1, <2>3, <3>1, Zenon
  <2> QED BY <2>3, <2>4, <2>5
<1>6. CASE /\ Another(found) /\ BeginSearch(window.close + later, day)
           /\ roll' = [roll EXCEPT !.windows = found]
  <2>1. TimeIn(window.close + later) /\ roll.from <= window.close + later /\ day \in Steps
    <3>1. roll.from \in Int /\ TimeIn(roll.from) /\ later \in Nat /\ day \in Steps
      BY <1>1, <1>2, RollFields, SearchSizes
    <3>2. window.close + later \in Int /\ roll.from <= window.close + later
      BY <1>3, <3>1
    <3> QED BY <3>1, <3>2, SearchSizes, EphemerisSizes DEF TimeIn, mjd_to_jd
  <2>2. SearchAhead' /\ search' # NoSearch /\ roll.from <= search'.for.from
    BY <1>6, <2>1, BeginIsAhead
  <2>3. /\ roll' \in Rolls /\ roll' # NoRoll /\ roll'.windows = found /\ roll'.at = "windows"
        /\ roll'.from = roll.from /\ roll'.wnum = 0 /\ roll'.mjd = roll.mjd
    BY <1>1, <1>2, <1>5, <1>6, RollFields DEF Rolls, NoRoll
  <2>4. Len(found) = 1
    BY <1>6 DEF Another
  <2>5. RollAhead' /\ Awaited'
    <3>1. TimeIn(roll.from) /\ roll.from <= roll.mjd
      BY <1>1, <1>2, RollFields
    <3> HIDE DEF found
    <3>2. RollAhead'
      <4>1. TimeIn(roll.from)'
        BY ONLY <2>3, <3>1 DEF TimeIn, mjd_to_jd
      <4> QED BY <1>5, <2>3, <3>1, <4>1 DEF RollAhead
    <3>3. Awaited'
      BY <2>2, <2>3, <2>4 DEF Awaited
    <3> QED BY <3>2, <3>3
  <2> QED BY <1>4, <2>2, <2>5 DEF SearchInv
<1>7. CASE UNCHANGED search /\ roll' = [roll EXCEPT !.windows = found, !.at = "next"]
  <2>1. /\ roll' \in Rolls /\ roll' # NoRoll /\ roll'.windows = found /\ roll'.at = "next"
        /\ roll'.from = roll.from /\ roll'.wnum = 0 /\ roll'.mjd = roll.mjd
    BY <1>1, <1>2, <1>5, <1>7, RollFields DEF Rolls, NoRoll
  <2>2. TimeIn(roll.from)' /\ roll.from <= roll.mjd
    BY <1>1, <1>2, <2>1, RollFields DEF TimeIn, mjd_to_jd
  <2>3. SearchAhead' /\ Awaited'
    BY <1>1, <1>2, <1>7, <2>1 DEF SearchAhead, Awaited, TimeIn, mjd_to_jd
  <2> HIDE DEF found
  <2>4. RollAhead'
    <3>1. roll'.wnum <= Len(found)
      <4>1. Len(found) \in Nat
        BY ONLY <1>5
      <4> QED BY ONLY <2>1, <4>1
    <3>2. TimeIn(roll'.from) /\ roll'.from <= roll'.mjd
      BY <2>1, <2>2 DEF TimeIn, mjd_to_jd
    <3>3. TimeIn(roll'.from) <=> TimeIn(roll.from)'
      BY DEF TimeIn, mjd_to_jd
    <3> QED BY ONLY <1>5, <2>1, <3>1, <3>2, <3>3, Zenon DEF RollAhead
  <2> QED BY <1>4, <2>3, <2>4 DEF SearchInv
<1> QED BY <1>6, <1>7 DEF ListWindow

(* A roll moves on: where it looks is not behind the time asked from. *)
LEMMA MovedKeeps ==
  ASSUME SearchInv, roll # NoRoll, EphemerisInv', UNCHANGED <<sky, search, window, date>>,
         NEW at \in {"next", "limits", "observable"}, NEW wnum \in 0 .. Len(roll.windows),
         NEW mjd \in Int, roll.from <= mjd,
         roll' = [roll EXCEPT !.at = at, !.wnum = wnum, !.mjd = mjd]
  PROVE  SearchInv'
<1>1. RollAhead
  BY DEF SearchInv
<1>2. wnum \in Nat /\ wnum <= Len(roll.windows)
  <2>1. Len(roll.windows) \in Nat
    BY <1>1, RollFields
  <2> QED BY <2>1
<1>3. /\ roll' \in Rolls /\ roll'.windows = roll.windows /\ roll'.at = at
      /\ roll'.from = roll.from /\ roll'.wnum = wnum /\ roll'.mjd = mjd
  BY <1>1, <1>2, RollFields DEF Rolls
<1>4. RollAhead' /\ Awaited'
  BY <1>1, <1>2, <1>3, RollFields DEF RollAhead, Awaited, TimeIn, mjd_to_jd
<1>5. (sky \in Skies)' /\ SearchAhead' /\ WindowAhead' /\ DateObservable'
  BY DEF SearchInv, SearchAhead, WindowAhead, DateObservable, Observable, Dphi, TimeIn, mjd_to_jd
<1> QED BY <1>4, <1>5 DEF SearchInv

LEMMA FinishedKeeps ==
  ASSUME SearchInv, roll # NoRoll, EphemerisInv', UNCHANGED <<sky, search, window>>,
         roll' = NoRoll, DateObservable'
  PROVE  SearchInv'
  BY DEF SearchInv, SearchAhead, WindowAhead, RollAhead, Awaited, TimeIn, mjd_to_jd

LEMMA NoneKeeps ==
  ASSUME SearchInv, roll # NoRoll, EphemerisInv', UNCHANGED <<sky, search, window>>, None
  PROVE  SearchInv'
  BY FinishedKeeps DEF None, Finished, DateObservable

LEMMA NextDateKeeps ==
  ASSUME SearchInv, roll # NoRoll, EphemerisInv', UNCHANGED <<sky, search, window>>, NextDate
  PROVE  SearchInv'
<1>1. CASE None
  BY <1>1, NoneKeeps
<1>2. CASE roll' = [roll EXCEPT !.at = "limits", !.mjd = @ + day] /\ UNCHANGED date
  <2>1. /\ roll.mjd + day \in Int /\ roll.from <= roll.mjd + day
        /\ roll.wnum \in 0 .. Len(roll.windows) /\ roll \in Rolls
    <3>1. RollAhead /\ day \in Nat
      BY SearchSizes DEF SearchInv
    <3>2. Len(roll.windows) \in Nat
      BY <3>1, RollFields
    <3> QED BY <3>1, <3>2, RollFields
  <2>2. roll' = [roll EXCEPT !.at = "limits", !.wnum = roll.wnum, !.mjd = roll.mjd + day]
    BY <1>2, <2>1 DEF Rolls
  <2> QED BY <1>2, <2>1, <2>2, MovedKeeps
<1> QED BY <1>1, <1>2 DEF NextDate

LEMMA EnterWindowKeeps ==
  ASSUME SearchInv, EnterWindow
  PROVE  SearchInv'
<1>1. roll # NoRoll /\ UNCHANGED <<evars, sky, search, window>> /\ RollAhead /\ EphemerisInv'
  BY NotLooking DEF EnterWindow, NoRoll, SearchInv
<1>2. CASE None
  BY <1>1, <1>2, NoneKeeps
<1>3. CASE /\ roll.wnum < Len(roll.windows) /\ UNCHANGED date
           /\ LET w == roll.windows[roll.wnum + 1]
              IN  roll' = [roll EXCEPT !.at = "limits", !.wnum = @ + 1,
                             !.mjd = IF w[1] < roll.from /\ roll.from < w[2]
                                       THEN roll.from ELSE w[1] + 1]
  <2> DEFINE w   == roll.windows[roll.wnum + 1]
             mjd == IF w[1] < roll.from /\ roll.from < w[2] THEN roll.from ELSE w[1] + 1
  <2>1. roll.wnum + 1 \in 1 .. Len(roll.windows)
    <3>1. roll.wnum \in Nat /\ roll.windows \in Seq(Int \X Int)
      BY <1>1, RollFields
    <3>2. Len(roll.windows) \in Nat
      BY ONLY <3>1
    <3> QED BY ONLY <1>3, <3>1, <3>2
  <2>2. w \in Int \X Int /\ roll.from <= w[1] /\ roll \in Rolls /\ roll.from \in Int
    <3>1. /\ roll.windows \in Seq(Int \X Int) /\ roll \in Rolls /\ roll.from \in Int
          /\ \A i \in 1 .. Len(roll.windows) : roll.from <= roll.windows[i][1]
      BY <1>1, RollFields
    <3> QED BY ONLY <2>1, <3>1
  <2>3. mjd \in Int /\ roll.from <= mjd
    <3>1. w[1] \in Int
      BY <2>2
    <3> HIDE DEF w
    <3> QED BY ONLY <2>2, <3>1
  <2>4. roll' = [roll EXCEPT !.at = "limits", !.wnum = roll.wnum + 1, !.mjd = mjd]
    BY <1>3, <2>2 DEF Rolls
  <2>5. roll.wnum + 1 \in 0 .. Len(roll.windows)
    BY <2>1
  <2> HIDE DEF w, mjd
  <2> QED BY <1>1, <1>3, <2>2, <2>3, <2>4, <2>5, MovedKeeps
<1> QED BY <1>2, <1>3 DEF EnterWindow

LEMMA RollInfoKeeps ==
  ASSUME SearchInv, NEW limits, RollInfo(limits)
  PROVE  SearchInv'
<1>1. /\ roll # NoRoll /\ UNCHANGED <<sky, search, window>> /\ RollAhead /\ EphemerisInv
      /\ Look(roll.mjd)
  BY DEF RollInfo, NoRoll, SearchInv
<1>2. EphemerisInv'
  BY <1>1, RollFields, LookKeeps
<1>3. CASE None \/ NextDate
  BY <1>1, <1>2, <1>3, NoneKeeps, NextDateKeeps
<1>4. ASSUME NEW at \in {"next", "observable"}, roll' = [roll EXCEPT !.at = at], UNCHANGED date
      PROVE  SearchInv'
  <2>0. Len(roll.windows) \in Nat
    BY <1>1, RollFields
  <2>1. roll \in Rolls /\ roll.wnum \in 0 .. Len(roll.windows) /\ roll.mjd \in Int /\ roll.from <= roll.mjd
    BY <2>0, <1>1, RollFields
  <2>2. roll' = [roll EXCEPT !.at = at, !.wnum = roll.wnum, !.mjd = roll.mjd]
    BY <1>4, <2>1 DEF Rolls
  <2> QED BY <1>1, <1>2, <1>4, <2>1, <2>2, MovedKeeps
<1>5. CASE roll' = NoRoll /\ UNCHANGED date
  <2>1. DateObservable'
    BY <1>1, <1>5 DEF SearchInv, DateObservable, Observable, Dphi
  <2> QED BY <1>1, <1>2, <1>5, <2>1, FinishedKeeps
<1> QED BY <1>3, <1>4, <1>5 DEF RollInfo

(* The date that is found was just seen to be observable. *)
LEMMA TargetObservableKeeps ==
  ASSUME SearchInv, target_observable
  PROVE  SearchInv'
<1>1. /\ roll # NoRoll /\ UNCHANGED <<sky, search, window>> /\ RollAhead /\ EphemerisInv
      /\ Look(roll.mjd)
  BY DEF target_observable, NoRoll, SearchInv
<1>2. EphemerisInv' /\ jd' - MjdZero \in roll.mjd - epsilon .. roll.mjd + epsilon
  BY <1>1, RollFields, LookKeeps
<1>3. CASE None \/ NextDate
  BY <1>1, <1>2, <1>3, NoneKeeps, NextDateKeeps
<1>4. CASE BelowLimit(Seen) /\ Finished(roll.mjd, TRUE)
  <2>1. /\ date' = [from |-> roll.from, mjd |-> roll.mjd, found |-> TRUE]
        /\ roll' = NoRoll /\ sky' = sky /\ sky[(jd' - MjdZero) % year] < 0
    BY <1>1, <1>4 DEF Finished, BelowLimit, Seen, Dphi
  <2>2. DateObservable'
    BY <1>1, <1>2, <2>1, RollFields DEF DateObservable, Observable, Dphi
  <2> QED BY <1>1, <1>2, <2>1, <2>2, FinishedKeeps
<1> QED BY <1>3, <1>4 DEF target_observable

LEMMA AskingKeeps ==
  ASSUME SearchInv, [EphemerisNext]_evars, UNCHANGED svars
  PROVE  SearchInv'
<1>1. EphemerisInv'
  BY EphemerisSteps DEF SearchInv
<1> QED BY <1>1 DEF SearchInv, svars, SearchAhead, WindowAhead, RollAhead, Awaited, DateObservable,
           Observable, Dphi, TimeIn, mjd_to_jd

LEMMA SearchSteps == SearchInv /\ [SearchNext]_<<evars, svars>> => SearchInv'
<1> SUFFICES ASSUME SearchInv, [SearchNext]_<<evars, svars>> PROVE SearchInv'
  OBVIOUS
<1>1. CASE UNCHANGED <<evars, svars>> \/ (EphemerisNext /\ UNCHANGED svars)
  BY <1>1, AskingKeeps
<1>2. ASSUME NEW from \in Starts, FindDateForRoll(from) \/ \E step \in Steps : TargetWindow(from, step)
      PROVE  SearchInv'
  BY <1>2, FindDateForRollKeeps, TargetWindowKeeps
<1>3. CASE Searching
  BY <1>3, FindWindowOpenKeeps, FindWindowCloseKeeps, ListWindowKeeps, EnterWindowKeeps,
     RollInfoKeeps, TargetObservableKeeps DEF Searching
<1> QED BY <1>1, <1>2, <1>3 DEF SearchNext

LEMMA SearchInvHolds == SearchSpec => []SearchInv
  BY SearchStarts, SearchSteps, PTL DEF SearchSpec

(* SearchTypeOK: the types, and at most two windows for a roll. *)
THEOREM SearchTypeCorrect == SearchSpec => []SearchTypeOK
<1>1. SearchInv => SearchTypeOK
  <2> SUFFICES ASSUME SearchInv PROVE SearchTypeOK
    OBVIOUS
  <2>1. search = NoSearch \/ (search.what \in {"open", "close"} /\ search.for.step \in Steps)
    BY SearchFields DEF SearchInv
  <2>2. roll = NoRoll \/ (roll.at \in {"windows", "next", "limits", "observable"}
                          /\ roll.wnum \in 0 .. Len(roll.windows) /\ Len(roll.windows) <= 2)
    BY RollFields DEF SearchInv, Rolls
  <2> QED BY <2>1, <2>2 DEF SearchInv, SearchTypeOK, EphemerisInv, WindowAhead
<1> QED BY <1>1, SearchInvHolds, PTL

(* PositionOfOneTime, of the times that the searches ask for *)
THEOREM OneTimeInSearches == SearchSpec => []PositionOfOneTime
<1>1. SearchInv => PositionOfOneTime
  BY DEF SearchInv, EphemerisInv
<1> QED BY <1>1, SearchInvHolds, PTL

(* DateObservable: the date that find_date_for_roll() returns is not       *)
(* before from_mjd, and the target is observable then, to the hour.        *)
THEOREM DateIsObservable == SearchSpec => []DateObservable
<1>1. SearchInv => DateObservable
  BY DEF SearchInv
<1> QED BY <1>1, SearchInvHolds, PTL

(* The window that target_window() returns is in order: not before the     *)
(* time asked from, and not closed before it is opened.                    *)
THEOREM WindowInOrder == SearchSpec => []WindowAhead
<1>1. SearchInv => WindowAhead
  BY DEF SearchInv
<1> QED BY <1>1, SearchInvHolds, PTL

----------------------------------------------------------------------------
(* The window that is found is the next                                    *)

LEMMA BelowIsLess == \A x, y \in Nat : <<y, x>> \in OpToRel(<, Nat) <=> y < x
  BY Zenon DEF OpToRel

LEMMA LeastNumber ==
  ASSUME NEW S \in SUBSET Nat, S # {}
  PROVE  \E n \in S : \A k \in S : n <= k
<1>1. PICK n \in S : \A k \in S : ~(<<k, n>> \in OpToRel(<, Nat))
  BY NatLessThanWellFounded, WFMin, Zenon
<1>2. \A k \in S : ~(k < n)
  BY <1>1, BelowIsLess, Zenon
<1>3. \A k \in S : n <= k
  BY ONLY <1>2, S \in SUBSET Nat, n \in S
<1> QED BY <1>3

LEMMA FirstOf ==
  ASSUME NEW P, NEW a \in Int, NEW b \in P, b \in Int, a <= b
  PROVE  \E m \in a .. b : m \in P /\ \A k \in a .. m - 1 : k \notin P
<1> DEFINE S == {n \in Nat : a + n \in P}
<1>1. S \in SUBSET Nat /\ b - a \in S
  BY a + (b - a) = b
<1>2. PICK n \in S : \A k \in S : n <= k
  BY <1>1, LeastNumber
<1>3. a + n \in a .. b /\ a + n \in P
  BY <1>1, <1>2
<1>4. ASSUME NEW k \in a .. a + n - 1 PROVE k \notin P
  <2>1. a + (k - a) = k /\ k - a \in Nat /\ ~(n <= k - a)
    BY <1>2
  <2>2. k - a \notin S
    BY <1>2, <2>1
  <2> QED BY <2>1, <2>2
<1> QED BY <1>3, <1>4

LEMMA Remainder ==
  ASSUME NEW y \in Nat \ {0}, NEW m \in Int
  PROVE  m % y \in 0 .. y - 1 /\ m \div y \in Int /\ m = y * (m \div y) + (m % y)
  OBVIOUS

LEMMA RemainderIs ==
  ASSUME NEW y \in Nat \ {0}, NEW q \in Int, NEW r \in 0 .. y - 1
  PROVE  (y * q + r) % y = r
<1> DEFINE m == y * q + r
           d == m \div y
           s == m % y
<1>1. m \in Int /\ y * q \in Int
  OBVIOUS
<1>2. s \in 0 .. y - 1 /\ d \in Int /\ m = y * d + s
  BY <1>1, Remainder
<1>3. y * d + s = y * q + r
  BY <1>2
<1> HIDE DEF m, d, s
<1>4. y * (d - q) = r - s
  BY <1>2, <1>3
<1>5. d - q = 0
  <2>1. CASE d - q >= 1
    <3>1. y * (d - q) >= y
      BY <2>1, <1>2
    <3> QED BY <3>1, <1>4, <1>2
  <2>2. CASE d - q <= -1
    <3>1. y * (d - q) <= -y
      BY <2>2, <1>2
    <3> QED BY <3>1, <1>4, <1>2
  <2> QED BY <2>1, <2>2, <1>2
<1>6. s = r
  BY <1>2, <1>3, <1>5
<1> QED BY <1>6 DEF s, m

LEMMA RemainderOfSum ==
  ASSUME NEW y \in Nat \ {0}, NEW m \in Int, NEW i \in Int
  PROVE  ((m % y) + i) % y = (m + i) % y
<1> DEFINE n == (m % y) + i
<1>1. m % y \in 0 .. y - 1 /\ m \div y \in Int /\ m = y * (m \div y) + (m % y)
  BY Remainder
<1>2. n \in Int
  BY <1>1
<1>3. n % y \in 0 .. y - 1 /\ n \div y \in Int /\ n = y * (n \div y) + (n % y)
  BY <1>2, Remainder
<1>4. m + i = (y * (m \div y)) + n
  BY <1>1
<1> HIDE DEF n
<1>5. m + i = y * ((m \div y) + (n \div y)) + (n % y)
  BY <1>1, <1>2, <1>3, <1>4
<1>6. (y * ((m \div y) + (n \div y)) + (n % y)) % y = n % y
  <2>1. (m \div y) + (n \div y) \in Int /\ n % y \in 0 .. y - 1
    BY <1>1, <1>3
  <2> QED BY ONLY <2>1, y \in Nat \ {0}, RemainderIs, Zenon
<1> QED BY <1>5, <1>6 DEF n

Dark(a, b)   == \A k \in a .. b : ~Observable(k)
Bright(a, b) == \A k \in a .. b : Observable(k)
Opens(from, o) == Observable(o) /\ Dark(from, o - 1)
Closes(o, c)   == ~Observable(c) /\ Bright(o, c - 1)
AllBright == \A k \in Int : Observable(k)

LEMMA SkyAt ==
  ASSUME LongWindows, sky \in Skies, NEW k \in Int
  PROVE  /\ k % year \in 0 .. year - 1 /\ Dphi(k) = sky[k % year]
         /\ Dphi(k) \in {-1, 1}
         /\ Observable(k) <=> Dphi(k) = -1
<1>1. year \in Nat \ {0} /\ sky \in [0 .. year - 1 -> {-1, 0, 1}]
  BY SearchSizes
<1>2. k % year \in 0 .. year - 1
  BY <1>1, Remainder
<1> QED BY <1>1, <1>2 DEF LongWindows, Dphi, Observable

(* A year on, the sky is the same. *)
LEMMA EveryYear ==
  ASSUME NEW k \in Int
  PROVE  Dphi(k + year) = Dphi(k) /\ Dphi(k - year) = Dphi(k)
<1>1. year \in Nat \ {0}
  BY SearchSizes
<1>2. ASSUME NEW m \in Int PROVE (m + year) % year = m % year
  <2>1. /\ m % year \in 0 .. year - 1 /\ m \div year \in Int
        /\ m = year * (m \div year) + (m % year)
    BY <1>1, Remainder
  <2>2. m + year = year * ((m \div year) + 1) + (m % year)
    BY <1>1, <2>1
  <2>3. (m \div year) + 1 \in Int
    BY <2>1
  <2>4. (year * ((m \div year) + 1) + (m % year)) % year = m % year
    BY ONLY <1>1, <2>1, <2>3, RemainderIs, Zenon
  <2> QED BY <2>2, <2>4
<1>3. (k + year) % year = k % year
  BY <1>2
<1>4. k - year \in Int /\ (k - year) + year = k
  BY <1>1
<1>5. k % year = (k - year) % year
  BY ONLY <1>2, <1>4
<1> QED BY <1>3, <1>5 DEF Dphi

(* Between two times that are both bright or both dark, a step and two     *)
(* hours apart at most, there is no other.                                 *)
LEMMA Steady ==
  ASSUME LongWindows, sky \in Skies, NEW step \in Steps,
         NEW a \in Int, NEW b \in Int, NEW c \in Int,
         a < b, b < c, c - a <= step + 2 * epsilon,
         Observable(a) <=> Observable(c)
  PROVE  Observable(b) <=> Observable(a)
<1> DEFINE k == a % year
           j == c - a
           i == b - a
<1>1. /\ step \in Nat /\ epsilon \in Nat /\ year \in Nat \ {0}
      /\ k \in 0 .. year - 1 /\ j \in 2 .. step + 2 * epsilon /\ i \in 1 .. j - 1
      /\ a + j = c /\ a + i = b
  BY SearchSizes, EphemerisSizes, SkyAt
<1>2. /\ (k + j) % year = c % year
      /\ (k + i) % year = b % year
  <2>1. /\ (k + j) % year = (a + j) % year
        /\ (k + i) % year = (a + i) % year
    <3>1. j \in Int /\ i \in Int
      OBVIOUS
    <3> QED BY ONLY <1>1, <3>1, a \in Int, RemainderOfSum, Zenon DEF k
  <2> QED BY <2>1, <1>1
<1>3. sky[k] = Dphi(a) /\ sky[c % year] = Dphi(c) /\ sky[b % year] = Dphi(b)
  BY DEF Dphi
<1>4. Dphi(a) = Dphi(c)
  BY SkyAt
<1> HIDE DEF k, j, i
<1>5. Dphi(b) = Dphi(a)
  <2>1. sky[(k + j) % year] = sky[k] => sky[(k + i) % year] = sky[k]
    <3>1. \A h \in 1 .. j - 1 : sky[(k + j) % year] = sky[k] => sky[(k + h) % year] = sky[k]
      BY <1>1, Zenon DEF LongWindows
    <3> QED BY ONLY <3>1, <1>1
  <2> QED BY ONLY <2>1, <1>2, <1>3, <1>4
<1> QED BY <1>5, SkyAt

(* A step further on, and the hours by which both looks may be out. *)
Reach(n, m) == n < m /\ \E step \in Steps : m - n <= step + 2 * epsilon

LEMMA StaysDark ==
  ASSUME LongWindows, sky \in Skies, NEW a \in Int, NEW n \in Int, NEW m \in Int,
         a <= n, Reach(n, m), Dark(a, n), ~Observable(m)
  PROVE  Dark(a, m)
<1> SUFFICES ASSUME NEW k \in a .. m PROVE ~Observable(k)
  BY DEF Dark
<1>1. PICK step \in Steps : m - n <= step + 2 * epsilon
  BY DEF Reach
<1>2. CASE n < k /\ k < m
  <2>1. ~Observable(n) /\ n < m /\ k \in Int
    BY DEF Dark, Reach
  <2> QED BY ONLY LongWindows, sky \in Skies, n \in Int, m \in Int, <1>1, <1>2, <2>1, ~Observable(m), Steady
<1>3. CASE k <= n \/ k = m
  BY <1>3 DEF Dark
<1> QED BY <1>2, <1>3

LEMMA StaysBright ==
  ASSUME LongWindows, sky \in Skies, NEW a \in Int, NEW n \in Int, NEW m \in Int,
         a <= n, Reach(n, m), Bright(a, n), Observable(m)
  PROVE  Bright(a, m)
<1> SUFFICES ASSUME NEW k \in a .. m PROVE Observable(k)
  BY DEF Bright
<1>1. PICK step \in Steps : m - n <= step + 2 * epsilon
  BY DEF Reach
<1>2. CASE n < k /\ k < m
  <2>1. Observable(n) /\ n < m /\ k \in Int
    BY DEF Bright, Reach
  <2> QED BY ONLY LongWindows, sky \in Skies, n \in Int, m \in Int, <1>1, <1>2, <2>1, Observable(m), Steady
<1>3. CASE k <= n \/ k = m
  BY <1>3 DEF Bright
<1> QED BY <1>2, <1>3

(* Dark, then bright: the opening was passed, once. *)
LEMMA OpensBetween ==
  ASSUME LongWindows, sky \in Skies, NEW a \in Int, NEW n \in Int, NEW m \in Int,
         a <= n, Reach(n, m), Dark(a, n), Observable(m)
  PROVE  \E o \in n + 1 .. m : Opens(a, o) /\ Bright(o, m)
<1> DEFINE P == {k \in Int : Observable(k)}
<1>1. m \in P /\ n + 1 \in Int /\ n + 1 <= m
  BY DEF Reach
<1>2. PICK o \in n + 1 .. m : o \in P /\ \A k \in n + 1 .. o - 1 : k \notin P
  BY ONLY <1>1, m \in Int, FirstOf
<1>3. o \in Int /\ Observable(o)
  BY <1>2
<1>4. Dark(a, o - 1)
  <2> SUFFICES ASSUME NEW k \in a .. o - 1 PROVE ~Observable(k)
    BY DEF Dark
  <2> QED BY <1>2 DEF Dark
<1>5. Bright(o, m)
  <2>1. CASE o = m
    BY <2>1, <1>3 DEF Bright
  <2>2. CASE o < m
    <3>1. PICK step \in Steps : m - n <= step + 2 * epsilon
      BY DEF Reach
    <3>2. step \in Nat /\ epsilon \in Nat
      BY SearchSizes, EphemerisSizes
    <3>3. Reach(o, m)
      BY <2>2, <1>2, <3>1, <3>2 DEF Reach
    <3>4. Bright(o, o)
      BY <1>3 DEF Bright
    <3>5. o <= o
      BY <1>3
    <3> QED BY ONLY LongWindows, sky \in Skies, <1>3, <3>3, <3>4, <3>5, m \in Int, Observable(m), StaysBright
  <2> QED BY <2>1, <2>2, <1>2
<1> QED BY <1>2, <1>3, <1>4, <1>5 DEF Opens

LEMMA ClosesBetween ==
  ASSUME LongWindows, sky \in Skies, NEW a \in Int, NEW n \in Int, NEW m \in Int,
         a <= n, Reach(n, m), Bright(a, n), ~Observable(m)
  PROVE  \E c \in n + 1 .. m : Closes(a, c) /\ Dark(c, m)
<1> DEFINE P == {k \in Int : ~Observable(k)}
<1>1. m \in P /\ n + 1 \in Int /\ n + 1 <= m
  BY DEF Reach
<1>2. PICK c \in n + 1 .. m : c \in P /\ \A k \in n + 1 .. c - 1 : k \notin P
  BY ONLY <1>1, m \in Int, FirstOf
<1>3. c \in Int /\ ~Observable(c)
  BY <1>2
<1>4. Bright(a, c - 1)
  <2> SUFFICES ASSUME NEW k \in a .. c - 1 PROVE Observable(k)
    BY DEF Bright
  <2> QED BY <1>2 DEF Bright
<1>5. Dark(c, m)
  <2>1. CASE c = m
    BY <2>1, <1>3 DEF Dark
  <2>2. CASE c < m
    <3>1. PICK step \in Steps : m - n <= step + 2 * epsilon
      BY DEF Reach
    <3>2. step \in Nat /\ epsilon \in Nat
      BY SearchSizes, EphemerisSizes
    <3>3. Reach(c, m)
      BY <2>2, <1>2, <3>1, <3>2 DEF Reach
    <3>4. Dark(c, c)
      BY <1>3 DEF Dark
    <3>5. c <= c
      BY <1>3
    <3> QED BY ONLY LongWindows, sky \in Skies, <1>3, <3>3, <3>4, <3>5, m \in Int, ~Observable(m), StaysDark
  <2> QED BY <2>1, <2>2, <1>2
<1> QED BY <1>2, <1>3, <1>4, <1>5 DEF Closes

(* The reference has the one opening that there is. *)
LEMMA OpeningIs ==
  ASSUME LongWindows, sky \in Skies, NEW from \in Int, NEW o \in Int, from <= o, Opens(from, o)
  PROVE  Opening(from) = o
<1>1. year \in Nat \ {0}
  BY SearchSizes
<1>2. o <= from + year
  <2>1. Observable(o - year)
    BY EveryYear DEF Opens, Observable
  <2>2. SUFFICES ASSUME o > from + year PROVE FALSE
    BY <1>1
  <2>3. o - year \in from .. o - 1
    BY <1>1, <2>2
  <2> QED BY <2>1, <2>3 DEF Opens, Dark
<1> DEFINE First(a) == Observable(a) /\ \A k \in from .. a - 1 : ~Observable(k)
<1>3. o \in from .. from + year /\ First(o)
  BY <1>1, <1>2 DEF Opens, Dark
<1>4. ASSUME NEW a \in from .. from + year, First(a) PROVE a = o
  BY <1>1, <1>3, <1>4
<1>5. Opening(from) = CHOOSE a \in from .. from + year : First(a)
  BY DEF Opening
<1> HIDE DEF First
<1> QED BY ONLY <1>3, <1>4, <1>5

LEMMA ClosingIs ==
  ASSUME LongWindows, sky \in Skies, NEW o \in Int, NEW c \in Int, o < c, Closes(o, c)
  PROVE  Closing(o) = c /\ c < o + year
<1>1. year \in Nat \ {0}
  BY SearchSizes
<1>2. c < o + year
  <2>1. ~Observable(c - year)
    BY EveryYear DEF Closes, Observable
  <2>2. SUFFICES ASSUME c >= o + year PROVE FALSE
    BY <1>1
  <2>3. c - year \in o .. c - 1
    BY <1>1, <2>2
  <2> QED BY <2>1, <2>3 DEF Closes, Bright
<1> DEFINE First(b) == ~Observable(b) /\ \A k \in o .. b - 1 : Observable(k)
<1>3. c \in o .. o + year /\ c \in o .. o + year - 1 /\ First(c)
  BY <1>1, <1>2 DEF Closes, Bright
<1>4. ASSUME NEW b \in o .. o + year, First(b) PROVE b = c
  BY <1>1, <1>3, <1>4
<1>5. Closing(o) = CHOOSE b \in o .. o + year : First(b)
  BY <1>3 DEF Closing
<1> HIDE DEF First
<1> QED BY ONLY <1>2, <1>3, <1>4, <1>5

LEMMA NeverCloses ==
  ASSUME NEW o \in Int, AllBright
  PROVE  Closing(o) = o + year
<1>1. \A k \in o .. o + year - 1 : Observable(k)
  BY SearchSizes DEF AllBright
<1> QED BY <1>1 DEF Closing

(* A window that does close is followed by a night of a step and two hours *)
(* before the year is over.                                                *)
LEMMA ClosesInTime ==
  ASSUME LongWindows, sky \in Skies, NEW o \in Int, Observable(o), ~AllBright, NEW step \in Steps
  PROVE  \E c \in Int : o < c /\ Closes(o, c) /\ c <= o + year - (step + 2 * epsilon)
<1>1. year \in Nat \ {0} /\ step \in Nat /\ epsilon \in Nat
  BY SearchSizes, EphemerisSizes
<1>2. PICK k \in Int : ~Observable(k)
  BY DEF AllBright
<1> DEFINE d == o + ((k - o) % year)
<1>3. (k - o) % year \in 0 .. year - 1
  BY <1>1, Remainder
<1>4. d \in Int /\ o <= d
  BY <1>3
<1>5. ~Observable(d)
  <2>1. (((k - o) % year) + o) % year = ((k - o) + o) % year
    <3>1. k - o \in Int
      OBVIOUS
    <3> QED BY ONLY <1>1, <3>1, o \in Int, RemainderOfSum, Zenon
  <2>2. ((k - o) % year) + o = d /\ (k - o) + o = k
    BY <1>3
  <2>3. d % year = k % year
    BY ONLY <2>1, <2>2
  <2> HIDE DEF d
  <2> QED BY <1>2, <2>3 DEF Observable, Dphi
<1> DEFINE P == {i \in Int : ~Observable(i)}
<1> HIDE DEF d
<1>6. d \in P
  BY <1>4, <1>5
<1>7. PICK c \in o .. d : c \in P /\ \A i \in o .. c - 1 : i \notin P
  BY ONLY <1>4, <1>6, o \in Int, FirstOf
<1>8. c \in Int /\ o < c /\ Closes(o, c)
  <2>1. c \in Int /\ ~Observable(c) /\ o <= c
    BY <1>4, <1>7
  <2>2. Bright(o, c - 1)
    BY <1>7 DEF Bright
  <2> QED BY <2>1, <2>2 DEF Closes
<1>9. c <= o + year - (step + 2 * epsilon)
  <2>1. /\ ~Observable(c) /\ c - 1 \in Int /\ o + year \in Int
        /\ Observable(c - 1) /\ Observable(o + year)
    BY <1>1, <1>8, EveryYear DEF Closes, Bright, Observable
  <2>2. c < o + year
    BY <1>8, ClosingIs
  <2>3. c - 1 < c /\ ((o + year) - (c - 1) <= step + 2 * epsilon => FALSE)
    BY ONLY LongWindows, sky \in Skies, <1>8, <2>1, <2>2, step \in Steps, Steady
  <2> QED BY ONLY <2>3, <1>1, <1>8, o \in Int
<1> QED BY <1>8, <1>9

(* A window that opens after the time asked from is longer than a step and *)
(* two hours.                                                              *)
LEMMA OpensForLong ==
  ASSUME LongWindows, sky \in Skies, NEW from \in Int, NEW o \in Int, NEW c \in Int,
         from < o, Opens(from, o), o < c, Closes(o, c), NEW step \in Steps
  PROVE  o + step + 2 * epsilon <= c
<1>1. step \in Nat /\ epsilon \in Nat /\ o - 1 \in Int
  BY SearchSizes, EphemerisSizes
<1>2. ~Observable(o - 1) /\ Observable(o) /\ ~Observable(c)
  BY DEF Opens, Dark, Closes
<1>3. o - 1 < o /\ ~(c - (o - 1) <= step + 2 * epsilon)
  BY ONLY LongWindows, sky \in Skies, <1>1, <1>2, o \in Int, c \in Int, o < c, step \in Steps, Steady
<1> QED BY ONLY <1>1, <1>3, o \in Int, c \in Int

(* The time that the ephemeris answers for, and a look at a time: within   *)
(* an hour of it the answer is the last one.                               *)
Now == jd - MjdZero

Within(n, mjd) == n - epsilon <= mjd /\ mjd <= n + epsilon

Looks(n, mjd, m) == \/ Within(n, mjd) /\ m = n
                    \/ ~Within(n, mjd) /\ m = mjd

(* The time b from which a search knows the sky: that of its first look,   *)
(* which is the time asked from, or one within an hour of it when the      *)
(* search was not fresh.                                                   *)
Base(w, b) == Within(b, w.for.from) /\ (w.for.fresh => b = w.for.from)

(* What a search s knows when the sky was last seen at n.  It begins with  *)
(* a look, of its own when it is fresh;                                    *)
Asked(s, n) ==
  /\ s.what = "open" /\ ~s.looping
  /\ s.start = s.for.from /\ s.step = s.for.step
  /\ s.for.fresh => ~Within(n, s.start)

Stepping(s) == s.step \in Levels /\ s.step # 0 /\ s.step <= s.for.step

(* all it has passed was dark;                                             *)
SeenDark(s, n, b) ==
  /\ s.what = "open" /\ s.looping /\ Stepping(s)
  /\ b <= n /\ Within(n, s.mjd) /\ Dark(b, n)

(* the step it took was too far, and it is back at the start of it;        *)
SteppedBack(s, n) ==
  \E p \in Levels : /\ p # 0 /\ p <= s.for.step
                    /\ s.step = p \div Ratio /\ n = s.start + p

PassedOpening(s, n, b) ==
  /\ s.what = "open" /\ ~s.looping /\ SteppedBack(s, n)
  /\ \E o \in b + 1 .. n : s.start - epsilon < o /\ Opens(b, o) /\ Bright(o, n)

(* the opening is o, to the hour, and is known if it is the time asked     *)
(* from;                                                                   *)
OpenedAt(w, o, b) ==
  /\ Opens(b, o) /\ Within(w.for.open, o)
  /\ w.for.fresh /\ o = b => w.for.open = o

(* all since the opening was bright, and in a sky that is never dark the   *)
(* times looked at are steps from the opening;                             *)
SeenBright(s, n, b) ==
  /\ s.what = "close" /\ Stepping(s)
  /\ s.mjd - s.start < year /\ Within(n, s.mjd)
  /\ ~s.looping => s.mjd = s.start
  /\ \E o \in b .. n :
       /\ OpenedAt(s, o, b) /\ Bright(o, n)
       /\ s.for.fresh /\ o = b /\ s.mjd = o => n = o
       /\ AllBright => /\ s.step = s.for.step /\ s.start = s.for.open
                       /\ \E q \in Nat : s.mjd = s.start + q * s.step

(* the closing was passed.  The start of a fresh search is the opening     *)
(* only when the next look is a look of its own.                           *)
PassedClosing(s, n, b) ==
  /\ s.what = "close" /\ ~s.looping /\ SteppedBack(s, n)
  /\ \E o \in b .. n, c \in s.start - epsilon + 1 .. n :
       /\ OpenedAt(s, o, b) /\ o < c /\ Closes(o, c) /\ Dark(c, n)
       /\ o <= s.start \/ o = b
       /\ s.for.fresh =>
            \/ s.for.open < s.start
            \/ s.for.open = s.start /\ o = s.start /\ s.step # 0 /\ ~Within(n, s.start)

Known(s, n) ==
  \/ Asked(s, n)
  \/ \E b \in Int :
       Base(s, b) /\ (SeenDark(s, n, b) \/ PassedOpening(s, n, b)
                        \/ SeenBright(s, n, b) \/ PassedClosing(s, n, b))

(* What the window that was found is: the first to open since b.           *)
Found(w) ==
  \E b, o \in Int :
    /\ Base(w, b) /\ b <= o /\ OpenedAt(w, o, b)
    /\ w.for.fresh => w.for.open < w.close
    /\ \/ AllBright /\ w.close = w.for.open + year
       \/ \E c \in Int : o < c /\ Closes(o, c) /\ Within(w.close, c)

WindowInv ==
  /\ search # NoSearch =>
       /\ roll = NoRoll \/ roll.at = "windows"
       /\ Known(search, Now)
  /\ window # NoWindow => Found(window)

----------------------------------------------------------------------------

LEMMA Refines ==
  ASSUME FineSteps, NEW p \in Levels, p # 0
  PROVE  /\ p \in Nat /\ p \div Ratio \in Levels /\ p \div Ratio <= p
         /\ p \div Ratio = 0 => p <= epsilon
<1>1. Ratio \in Nat /\ Ratio > 1 /\ Steps \subseteq Nat
  BY SearchSizes
<1>2. p \in Nat
  BY <1>1 DEF Levels
<1>3. /\ p \div Ratio \in Nat /\ p \div Ratio <= p
      /\ p \div Ratio = 0 => p \in 1 .. Ratio - 1
  <2> DEFINE q == p \div Ratio
             r == p % Ratio
  <2>1. q \in Int /\ r \in 0 .. Ratio - 1 /\ p = Ratio * q + r
    BY <1>1, <1>2, Remainder
  <2> HIDE DEF q, r
  <2>2. q >= 0
    <3>1. q <= -1 => Ratio * q <= -Ratio
      BY ONLY <1>1, <2>1
    <3> QED BY ONLY <1>1, <1>2, <2>1, <3>1
  <2>3. Ratio * q >= q
    BY ONLY <1>1, <2>1, <2>2
  <2>4. q = 0 => Ratio * q = 0
    BY ONLY <1>1
  <2>5. Ratio * q \in Int
    BY ONLY <1>1, <2>1
  <2> QED BY ONLY <1>1, <1>2, <2>1, <2>2, <2>3, <2>4, <2>5, p # 0 DEF q
<1> QED BY <1>2, <1>3 DEF FineSteps

LEMMA StepsAreLevels == Steps \subseteq Levels /\ Levels \subseteq Nat
<1>1. \A step \in Steps : step \in Nat /\ step \div Ratio \in Nat
  <2>1. Ratio \in Nat \ {0, 1} /\ Steps \subseteq Nat
    BY SearchSizes
  <2> QED BY ONLY <2>1
<1>2. 0 \in Nat
  OBVIOUS
<1> QED BY ONLY <1>1, <1>2, Zenon DEF Levels

(* What a search rests on, and its types *)
Hypotheses == FineSteps /\ LongWindows /\ sky \in Skies /\ SearchAhead /\ search # NoSearch

(* A window is entered: with its opening or with the time before it. *)
LEMMA OpenedKnows ==
  ASSUME Hypotheses, NEW n \in Int, Within(n, search.start),
         NEW b \in Int, Base(search, b),
         NEW o \in b .. n, Opens(b, o), Bright(o, n), Within(search.start, o),
         search.for.fresh /\ o = b => n = o /\ search.start = o,
         NEW s, s = Search("close", search.start, search.for.step,
                           [search.for EXCEPT !.open = search.start])
  PROVE  Known(s, n)
<1>1. /\ search.for \in [from : Int, step : Steps, open : Int, fresh : BOOLEAN]
      /\ search.start \in Int
  BY SearchFields DEF Hypotheses
<1>2. /\ s.what = "close" /\ s.start = search.start /\ s.mjd = search.start
      /\ s.step = search.for.step /\ s.for.from = search.for.from
      /\ s.for.step = search.for.step /\ s.for.open = search.start
      /\ s.for.fresh = search.for.fresh
  BY <1>1 DEF Search
<1>3. Stepping(s)
  <2>1. search.for.step \in Levels /\ search.for.step \in Nat \ {0}
    BY <1>1, StepsAreLevels, SearchSizes
  <2> QED BY ONLY <1>2, <2>1 DEF Stepping
<1>4. s.mjd - s.start < year
  <2>1. year \in Nat \ {0}
    BY SearchSizes
  <2> QED BY ONLY <1>1, <1>2, <2>1
<1>5. OpenedAt(s, o, b) /\ Base(s, b)
  BY <1>2 DEF OpenedAt, Base
<1>6. s.mjd = s.start + 0 * s.step
  <2>1. search.for.step \in Int /\ search.start \in Int
    <3>1. search.for.step \in Steps
      BY ONLY <1>1
    <3>2. \A step \in Steps : step \in Int
      BY SearchSizes
    <3> QED BY ONLY <1>1, <3>1, <3>2, Zenon
  <2>2. 0 * search.for.step = 0
    BY ONLY <2>1
  <2>3. search.start = search.start + 0
    BY ONLY <2>1
  <2> QED BY ONLY <1>2, <2>2, <2>3, Zenon
<1>7. s.for.fresh /\ o = b /\ s.mjd = o => n = o
  BY <1>2
<1>8. \E q \in Nat : s.mjd = s.start + q * s.step
  <2>1. 0 \in Nat
    BY ONLY TRUE
  <2> QED BY ONLY <1>6, <2>1, Zenon
<1>9. SeenBright(s, n, b)
  <2>1. s.step = s.for.step /\ s.start = s.for.open
    BY ONLY <1>2, Zenon
  <2>2. \E p \in b .. n :
          /\ OpenedAt(s, p, b) /\ Bright(p, n)
          /\ s.for.fresh /\ p = b /\ s.mjd = p => n = p
          /\ AllBright => /\ s.step = s.for.step /\ s.start = s.for.open
                          /\ \E q \in Nat : s.mjd = s.start + q * s.step
    BY ONLY o \in b .. n, Bright(o, n), <1>5, <1>7, <1>8, <2>1, Zenon
  <2>3. Within(n, s.mjd) /\ (~s.looping => s.mjd = s.start)
    BY <1>2
  <2> QED BY ONLY <1>2, <1>3, <1>4, <2>2, <2>3 DEF SeenBright
<1> QED BY <1>5, <1>9 DEF Known

GoneOn(mjd) == [search EXCEPT !.mjd = mjd, !.looping = TRUE]

LEMMA GoneOnFields ==
  ASSUME SearchAhead, search # NoSearch, NEW mjd \in Int
  PROVE  /\ GoneOn(mjd).what = search.what /\ GoneOn(mjd).start = search.start
         /\ GoneOn(mjd).mjd = mjd /\ GoneOn(mjd).step = search.step
         /\ GoneOn(mjd).looping /\ GoneOn(mjd).for = search.for
  BY SearchFields DEF GoneOn, Searches

(* A search goes on in the dark. *)
LEMMA DarkKnows ==
  ASSUME Hypotheses, NEW m \in Int, NEW b \in Int, Base(search, b), NEW mjd \in Int,
         search.what = "open", Stepping(search), b <= m, Within(m, mjd), Dark(b, m)
  PROVE  Known(GoneOn(mjd), m)
<1>1. SeenDark(GoneOn(mjd), m, b) /\ Base(GoneOn(mjd), b)
  BY GoneOnFields DEF SeenDark, Base, Stepping, Hypotheses
<1> QED BY <1>1 DEF Known

(* The first look, of the time asked from or within an hour of it *)
LEMMA AskedGoesOn ==
  ASSUME Hypotheses, NEW n \in Int, Asked(search, n), NEW m, Looks(n, search.start, m)
  PROVE  /\ search.step # 0
         /\ Observable(m) =>
              Known(Search("close", search.start, search.for.step,
                           [search.for EXCEPT !.open = search.start]), m)
         /\ ~Observable(m) => Known(GoneOn(search.start), m)
<1>1. /\ search.start = search.for.from /\ search.start \in Int
      /\ search.step = search.for.step /\ search.step \in Steps
      /\ search.for.fresh => m = search.start
      /\ search.what = "open"
  BY SearchFields DEF Asked, Looks, Hypotheses
<1>2. epsilon \in Nat /\ search.step # 0 /\ search.step \in Nat
  BY <1>1, SearchSizes, EphemerisSizes
<1>3. Within(m, search.start) /\ Within(search.start, m) /\ m \in Int /\ m \in m .. m
  BY <1>1, <1>2 DEF Within, Looks
<1>4. Base(search, m)
  BY <1>1, <1>3 DEF Base
<1>5. ASSUME Observable(m)
      PROVE  Known(Search("close", search.start, search.for.step,
                          [search.for EXCEPT !.open = search.start]), m)
  <2>1. Opens(m, m) /\ Bright(m, m)
    BY <1>3, <1>5 DEF Opens, Dark, Bright
  <2>2. search.for.fresh /\ m = m => m = m /\ search.start = m
    BY <1>1
  <2> QED BY <1>3, <1>4, <2>1, <2>2, OpenedKnows
<1>6. ASSUME ~Observable(m) PROVE Known(GoneOn(search.start), m)
  <2>1. Dark(m, m) /\ m <= m
    BY <1>3, <1>6 DEF Dark
  <2>2. Stepping(search)
    BY <1>1, <1>2, StepsAreLevels DEF Stepping
  <2> QED BY <1>1, <1>3, <1>4, <2>1, <2>2, DarkKnows
<1> QED BY <1>2, <1>5, <1>6

(* In the dark, ahead by a step *)
LEMMA SeenDarkGoesOn ==
  ASSUME Hypotheses, NEW n \in Int, NEW b \in Int, Base(search, b), SeenDark(search, n, b),
         NEW m, Looks(n, Ahead, m)
  PROVE  /\ ~Observable(m) => Known(GoneOn(Ahead), m)
         /\ Observable(m) =>
              Known(Search("open", search.mjd, search.step \div Ratio, search.for), m)
<1>1. /\ search.mjd \in Int /\ search.step \in Nat \ {0} /\ search.step \in Levels
      /\ search.for.step \in Steps /\ search.for.step \in Nat
      /\ search.step <= search.for.step /\ Ahead = search.mjd + search.step /\ Ahead \in Int
      /\ search.what = "open" /\ b <= n /\ Within(n, search.mjd) /\ Stepping(search)
      /\ Dark(b, n) /\ epsilon \in Nat
  BY SearchFields, EphemerisSizes DEF SeenDark, Stepping, Ahead, Hypotheses
<1>2. CASE Within(n, Ahead) /\ m = n
  <2>1. ~Observable(m)
    BY <1>1, <1>2 DEF Dark
  <2>2. Known(GoneOn(Ahead), m)
    BY <1>1, <1>2, DarkKnows
  <2> QED BY <2>1, <2>2
<1>3. CASE ~Within(n, Ahead) /\ m = Ahead
  <2>1. Reach(n, m) /\ m \in Int /\ search.mjd - epsilon <= n
    <3>1. n < m /\ m - n <= search.for.step + 2 * epsilon /\ search.mjd - epsilon <= n
      BY ONLY <1>1, <1>3, n \in Int DEF Within
    <3> QED BY <1>1, <1>3, <3>1 DEF Reach
  <2>2. ASSUME ~Observable(m) PROVE Known(GoneOn(Ahead), m)
    <3>1. Dark(b, m)
      BY <1>1, <2>1, <2>2, StaysDark DEF Hypotheses
    <3>2. b <= m /\ Within(m, Ahead)
      BY <1>1, <1>3, <2>1 DEF Reach, Within
    <3> QED BY <1>1, <2>1, <3>1, <3>2, DarkKnows
  <2>3. ASSUME Observable(m)
        PROVE  Known(Search("open", search.mjd, search.step \div Ratio, search.for), m)
    <3> DEFINE s == Search("open", search.mjd, search.step \div Ratio, search.for)
    <3>1. PICK o \in n + 1 .. m : Opens(b, o) /\ Bright(o, m)
      BY <1>1, <2>1, <2>3, OpensBetween DEF Hypotheses
    <3>2. o \in b + 1 .. m /\ search.mjd - epsilon < o
      BY <1>1, <2>1, <3>1
    <3>3. SteppedBack(s, m)
      BY <1>1, <1>3 DEF SteppedBack, Search
    <3>4. PassedOpening(s, m, b)
      BY <3>1, <3>2, <3>3 DEF PassedOpening, Search
    <3>5. Base(s, b)
      BY DEF Base, Search
    <3> QED BY <3>4, <3>5 DEF Known
  <2> QED BY <2>2, <2>3
<1> QED BY <1>2, <1>3 DEF Looks

(* Behind the opening: a finer search for it, or the window is entered.    *)
(* When the first look was of a later time than that asked from, this one  *)
(* may be of a time before it: the sky is known from there then.           *)
LEMMA PassedOpeningGoesOn ==
  ASSUME Hypotheses, NEW n \in Int, NEW b \in Int, Base(search, b), PassedOpening(search, n, b)
  PROVE  LET opened == Search("close", search.start, search.for.step,
                              [search.for EXCEPT !.open = search.start])
         IN  /\ search.step = 0 => Known(opened, n)
             /\ search.step # 0 =>
                  \A m : Looks(n, search.start, m) =>
                    /\ Observable(m) => Known(opened, m)
                    /\ ~Observable(m) => Known(GoneOn(search.start), m)
<1> DEFINE opened == Search("close", search.start, search.for.step,
                              [search.for EXCEPT !.open = search.start])
<1>1. PICK p \in Levels : /\ p # 0 /\ p <= search.for.step
                         /\ search.step = p \div Ratio /\ n = search.start + p
  BY DEF PassedOpening, SteppedBack
<1>2. PICK o \in b + 1 .. n :
        search.start - epsilon < o /\ Opens(b, o) /\ Bright(o, n)
  BY DEF PassedOpening
<1>3. /\ search.start \in Int /\ search.step \in Nat /\ search.for.step \in Nat
      /\ search.for.from \in Int /\ search.for.from <= search.start /\ search.what = "open"
      /\ epsilon \in Nat
  BY SearchFields, EphemerisSizes DEF Hypotheses, PassedOpening
<1>4. /\ p \in Nat /\ search.step \in Levels /\ search.step <= p
      /\ search.step = 0 => p <= epsilon
  BY <1>1, Refines DEF Hypotheses
<1>5. o \in Int /\ o \in b .. n /\ o # b
  BY <1>2
<1>6. ASSUME p <= epsilon PROVE Known(opened, n)
  <2>1. Within(n, search.start) /\ Within(search.start, o)
    BY ONLY <1>1, <1>2, <1>3, <1>4, <1>5, <1>6, n \in Int DEF Within
  <2> QED BY <1>2, <1>5, <2>1, OpenedKnows
<1>7. ASSUME NEW m, search.step # 0, Looks(n, search.start, m)
      PROVE  /\ Observable(m) => Known(opened, m)
             /\ ~Observable(m) => Known(GoneOn(search.start), m)
  <2>1. CASE Within(n, search.start) /\ m = n
    <3>1. p <= epsilon
      BY <1>1, <1>3, <1>4, <2>1 DEF Within
    <3>2. Observable(m)
      BY <1>2, <2>1 DEF Bright
    <3> QED BY <1>6, <2>1, <3>1, <3>2
  <2>2. CASE m = search.start
    <3>1. Within(m, search.start) /\ Stepping(search) /\ m \in Int
      BY <1>1, <1>3, <1>4, <1>7, <2>2 DEF Within, Stepping
    <3>2. CASE b <= m
      <4>1. ASSUME Observable(m) PROVE Known(opened, m)
        <5>1. o <= m
          BY <1>2, <1>3, <1>5, <3>2, <2>2, <4>1 DEF Opens, Dark
        <5>2. Bright(o, m) /\ Within(search.start, o) /\ o \in b .. m
          BY <1>1, <1>2, <1>3, <1>4, <1>5, <2>2, <5>1 DEF Bright, Within
        <5> QED BY <1>2, <1>5, <3>1, <5>2, OpenedKnows
      <4>2. ASSUME ~Observable(m) PROVE Known(GoneOn(search.start), m)
        <5>1. m < o
          BY <1>1, <1>2, <1>3, <1>4, <1>5, <2>2, <4>2 DEF Bright
        <5>2. Dark(b, m)
          BY <1>2, <1>5, <3>1, <5>1 DEF Opens, Dark
        <5> QED BY <1>3, <3>1, <3>2, <5>2, DarkKnows
      <4> QED BY <4>1, <4>2
    <3>3. CASE m < b
      <4>1. Base(search, m) /\ ~search.for.fresh
        BY <1>3, <2>2, <3>3 DEF Base, Within
      <4>2. m \in m .. m /\ m <= m /\ Within(search.start, m)
        BY <1>3, <2>2, <3>1 DEF Within
      <4>3. ASSUME Observable(m) PROVE Known(opened, m)
        <5>1. Opens(m, m) /\ Bright(m, m)
          BY <3>1, <4>3 DEF Opens, Dark, Bright
        <5> QED BY <3>1, <4>1, <4>2, <5>1, OpenedKnows
      <4>4. ASSUME ~Observable(m) PROVE Known(GoneOn(search.start), m)
        <5>1. Dark(m, m)
          BY <3>1, <4>4 DEF Dark
        <5> QED BY <1>3, <3>1, <4>1, <4>2, <5>1, DarkKnows
      <4> QED BY <4>3, <4>4
    <3> QED BY <3>1, <3>2, <3>3
  <2> QED BY <1>7, <2>1, <2>2 DEF Looks
<1> QED BY <1>4, <1>6, <1>7

(* A window found by a fresh search is the next.                           *)
LEMMA FoundIsNext ==
  ASSUME LongWindows, sky \in Skies, NEW w, Found(w), w.for.fresh,
         w.for.from \in Int, w.for.open \in Int, w.close \in Int
  PROVE  Window(w)
<1> DEFINE from == w.for.from
<1>1. PICK b, o \in Int :
        /\ Base(w, b) /\ b <= o /\ OpenedAt(w, o, b) /\ w.for.open < w.close
        /\ \/ AllBright /\ w.close = w.for.open + year
           \/ \E c \in Int : o < c /\ Closes(o, c) /\ Within(w.close, c)
  BY DEF Found
<1>2. b = from
  BY <1>1 DEF Base
<1>3. Opening(from) = o
  BY <1>1, <1>2, OpeningIs DEF OpenedAt
<1>4. Within(w.close, Closing(o)) /\ Closing(o) \in Int
  <2>1. CASE AllBright /\ w.close = w.for.open + year
    <3>1. o = from
      BY <1>1, <1>2, <2>1 DEF OpenedAt, Opens, Dark, AllBright
    <3>2. w.for.open = o
      BY <1>1, <1>2, <3>1 DEF OpenedAt
    <3>3. Closing(o) = o + year /\ epsilon \in Nat /\ year \in Nat
      BY <2>1, NeverCloses, EphemerisSizes, SearchSizes
    <3> QED BY ONLY <2>1, <3>2, <3>3, o \in Int DEF Within
  <2>2. ASSUME NEW c \in Int, o < c, Closes(o, c), Within(w.close, c) PROVE Within(w.close, Closing(o)) /\ Closing(o) \in Int
    BY <2>2, ClosingIs
  <2> QED BY <1>1, <2>1, <2>2
<1>5. Within(w.for.open, o) /\ epsilon \in Int
  BY <1>1, EphemerisSizes DEF OpenedAt
<1>6. /\ o - epsilon <= w.for.open /\ w.for.open <= o + epsilon
      /\ Closing(o) - epsilon <= w.close /\ w.close <= Closing(o) + epsilon
  BY ONLY <1>4, <1>5, o \in Int, w.for.open \in Int, w.close \in Int DEF Within
<1> QED BY <1>1, <1>3, <1>6 DEF Window

(* The first steps are whole parts of a year. *)
LEMMA YearInSteps ==
  ASSUME FineSteps, NEW step \in Steps, NEW q \in Nat, q * step < year, year <= q * step + step
  PROVE  q * step + step = year
<1>1. year \in Nat /\ step \in Nat \ {0} /\ year % step = 0
  BY SearchSizes DEF FineSteps
<1> DEFINE k == year \div step
<1>2. k \in Int /\ year = step * k
  BY <1>1, Remainder
<1> HIDE DEF k
<1>3. step * k - step * q > 0 /\ step * k - step * q <= step
  BY <1>1, <1>2
<1>4. step * (k - q) > 0 /\ step * (k - q) <= step
  BY <1>1, <1>2, <1>3
<1>5. k - q = 1
  <2>1. CASE k - q >= 2
    <3>1. step * (k - q) >= step * 2
      BY <2>1, <1>1, <1>2
    <3> QED BY <3>1, <1>4, <1>1, <1>2
  <2>2. CASE k - q <= 0
    <3>1. step * (k - q) <= 0
      BY <2>2, <1>1, <1>2
    <3> QED BY <3>1, <1>4, <1>1, <1>2
  <2> QED BY <2>1, <2>2, <1>2
<1> QED BY <1>1, <1>2, <1>5

LEMMA SeenBrightFields ==
  ASSUME Hypotheses, NEW n \in Int, NEW b \in Int, Base(search, b), SeenBright(search, n, b)
  PROVE  /\ search.what = "close" /\ search.start \in Int /\ search.mjd \in Int
         /\ search.step \in Nat \ {0} /\ search.step \in Levels
         /\ search.for.step \in Steps /\ search.for.step \in Nat /\ search.step <= search.for.step
         /\ search.for.from \in Int /\ search.for.open \in Int
         /\ search.for.from <= search.for.open /\ search.for.open <= search.start
         /\ search.start <= search.mjd /\ search.mjd - search.start < year
         /\ n - epsilon <= search.mjd /\ search.mjd <= n + epsilon
         /\ epsilon \in Nat /\ epsilon > 0 /\ year \in Nat \ {0}
         /\ Ahead = search.mjd + search.step /\ Ahead \in Int
         /\ search.for.fresh => b = search.for.from
<1>1. SearchAhead /\ search # NoSearch /\ epsilon \in Nat /\ epsilon > 0 /\ year \in Nat \ {0}
  BY SearchSizes, EphemerisSizes DEF Hypotheses, FineSteps
<1>2. /\ search.what = "close" /\ search.mjd - search.start < year
      /\ n - epsilon <= search.mjd /\ search.mjd <= n + epsilon
      /\ search.step \in Levels /\ search.step # 0 /\ search.step <= search.for.step
      /\ search.for.fresh => b = search.for.from
  BY DEF SeenBright, Stepping, Within, Base
<1>3. search.step \in Nat /\ search.mjd \in Int
  BY <1>1, SearchFields
<1> QED BY <1>1, <1>2, <1>3, SearchFields DEF Ahead

(* The first look of a search for a closing is of the time of the last. *)
LEMMA WindowEntered ==
  ASSUME Hypotheses, NEW n \in Int, NEW b \in Int, Base(search, b), SeenBright(search, n, b),
         ~search.looping, NEW m, Looks(n, search.start, m)
  PROVE  Observable(m) /\ Known(GoneOn(search.start), m)
<1>1. search.mjd = search.start /\ search.start \in Int
  BY SeenBrightFields DEF SeenBright
<1>2. m = n
  BY <1>1 DEF SeenBright, Looks
<1>3. Observable(n)
  BY SeenBrightFields DEF SeenBright, Bright
<1> DEFINE s == GoneOn(search.start)
<1>4. /\ s.what = search.what /\ s.start = search.start /\ s.mjd = search.mjd
      /\ s.step = search.step /\ s.looping /\ s.for = search.for
  BY <1>1, GoneOnFields DEF Hypotheses
<1> HIDE DEF s
<1>5. SeenBright(s, n, b) /\ Base(s, b)
  BY <1>4 DEF SeenBright, Stepping, OpenedAt, Base
<1> QED BY <1>2, <1>3, <1>5 DEF Known, s

(* A search goes on for a year only in a sky that is never dark, and then  *)
(* for exactly a year.                                                     *)
LEMMA WindowOfAYear ==
  ASSUME Hypotheses, NEW n \in Int, NEW b \in Int, Base(search, b), SeenBright(search, n, b),
         Ahead - search.start >= year
  PROVE  Found([for |-> search.for, close |-> Ahead])
<1> DEFINE step == search.for.step
<1>1. PICK o \in b .. n :
        /\ OpenedAt(search, o, b) /\ Bright(o, n)
        /\ AllBright => /\ search.step = step /\ search.start = search.for.open
                        /\ \E q \in Nat : search.mjd = search.start + q * search.step
  BY DEF SeenBright
<1>2. o \in Int /\ b <= o /\ Opens(b, o)
  BY <1>1 DEF OpenedAt
<1>3. AllBright
  <2> SUFFICES ASSUME ~AllBright PROVE FALSE
    OBVIOUS
  <2>1. PICK c \in Int : o < c /\ Closes(o, c) /\ c <= o + year - (step + 2 * epsilon)
    BY <1>2, ClosesInTime, SeenBrightFields DEF Hypotheses, Opens
  <2>2. n < c
    BY <1>1, <1>2, <2>1 DEF Closes, Bright
  <2>3. o <= search.for.open + epsilon
    BY <1>1 DEF OpenedAt, Within
  <2> QED BY <1>2, <2>1, <2>2, <2>3, SeenBrightFields
<1>4. PICK q \in Nat : search.mjd = search.for.open + q * step
  BY <1>1, <1>3
<1>5. q * step + step = year /\ q * step \in Int
  <2>1. q * step \in Int /\ step \in Steps
    BY <1>4, SeenBrightFields
  <2>2. q * step < year /\ year <= q * step + step
    BY <1>1, <1>3, <1>4, <2>1, SeenBrightFields
  <2> QED BY <2>1, <2>2, YearInSteps DEF Hypotheses
<1>6. Ahead = search.for.open + year /\ search.for.open < Ahead
  <2>1. search.step = step /\ Ahead = search.mjd + step
    BY <1>1, <1>3, SeenBrightFields
  <2>2. /\ search.mjd \in Int /\ search.for.open \in Int /\ step \in Nat
        /\ year \in Nat \ {0}
    BY SeenBrightFields
  <2> HIDE DEF step
  <2> QED BY ONLY <1>4, <1>5, <2>1, <2>2
<1> DEFINE w == [for |-> search.for, close |-> Ahead]
<1>7. w.close = Ahead /\ w.for = search.for
  OBVIOUS
<1> HIDE DEF w
<1>8. OpenedAt(w, o, b) /\ Base(w, b)
  BY <1>1, <1>7 DEF OpenedAt, Base
<1>9. Found(w)
  BY <1>2, <1>3, <1>6, <1>7, <1>8 DEF Found
<1> QED BY <1>9 DEF w

(* In the window, ahead by a step *)
LEMMA SeenBrightGoesOn ==
  ASSUME Hypotheses, NEW n \in Int, NEW b \in Int, Base(search, b), SeenBright(search, n, b),
         Ahead - search.start < year, NEW m, Looks(n, Ahead, m)
  PROVE  /\ Observable(m) => Known(GoneOn(Ahead), m)
         /\ ~Observable(m) =>
              Known(Search("close", search.mjd, search.step \div Ratio, search.for), m)
<1> DEFINE step == search.for.step
<1>1. PICK o \in b .. n :
        /\ OpenedAt(search, o, b) /\ Bright(o, n)
        /\ search.for.fresh /\ o = b /\ search.mjd = o => n = o
        /\ AllBright => /\ search.step = step /\ search.start = search.for.open
                        /\ \E q \in Nat : search.mjd = search.start + q * search.step
  BY DEF SeenBright
<1>2. o \in Int /\ b <= o /\ o <= n /\ Opens(b, o)
  BY <1>1 DEF OpenedAt
<1>3. n <= m /\ m \in Int /\ Within(m, Ahead) /\ (m # n => Reach(n, m) /\ m = Ahead)
  BY SeenBrightFields DEF Looks, Within, Reach
<1>4. ASSUME Observable(m) PROVE Known(GoneOn(Ahead), m)
  <2>1. Bright(o, m) /\ o \in b .. m
    <3>1. CASE m = n
      BY <1>1, <3>1
    <3>2. CASE m # n
      BY <1>1, <1>2, <1>3, <1>4, <3>2, SeenBrightFields, StaysBright DEF Hypotheses
    <3> QED BY <3>1, <3>2
  <2>2. ~(search.for.fresh /\ o = b /\ Ahead = o)
    BY SeenBrightFields
  <2>3. AllBright => /\ search.step = step /\ search.start = search.for.open
                     /\ \E q \in Nat : Ahead = search.start + q * search.step
    <3> SUFFICES ASSUME AllBright PROVE \E q \in Nat : Ahead = search.start + q * search.step
      BY <1>1
    <3>1. PICK q \in Nat : search.mjd = search.start + q * search.step
      BY <1>1
    <3>2. q + 1 \in Nat /\ Ahead = search.start + (q + 1) * search.step
      <4>1. Ahead = search.mjd + search.step /\ search.step \in Nat /\ search.start \in Int
        BY SeenBrightFields
      <4>2. (q + 1) * search.step = q * search.step + search.step /\ q * search.step \in Int
        BY ONLY <4>1, q \in Nat
      <4> QED BY ONLY <3>1, <4>1, <4>2, q \in Nat
    <3> QED BY <3>2
  <2> DEFINE s == GoneOn(Ahead)
  <2>4. /\ s.what = search.what /\ s.start = search.start /\ s.mjd = Ahead
        /\ s.step = search.step /\ s.looping /\ s.for = search.for
    BY SeenBrightFields, GoneOnFields DEF Hypotheses
  <2> HIDE DEF s
  <2>5. /\ s.what = "close" /\ Stepping(s) /\ s.mjd - s.start < year
        /\ OpenedAt(s, o, b) /\ Base(s, b)
    BY <1>1, <2>4 DEF SeenBright, Stepping, OpenedAt, Base
  <2>6. SeenBright(s, m, b)
    BY <1>3, <2>1, <2>2, <2>3, <2>4, <2>5 DEF SeenBright
  <2> QED BY <2>5, <2>6 DEF Known, s
<1>5. ASSUME ~Observable(m)
      PROVE  Known(Search("close", search.mjd, search.step \div Ratio, search.for), m)
  <2> DEFINE s == Search("close", search.mjd, search.step \div Ratio, search.for)
  <2>1. m # n /\ Reach(n, m) /\ m = search.mjd + search.step /\ ~Within(n, m)
    <3>1. m # n
      BY <1>1, <1>2, <1>5 DEF Bright
    <3> QED BY <1>3, <3>1, SeenBrightFields DEF Looks
  <2>2. PICK c \in n + 1 .. m : Closes(o, c) /\ Dark(c, m)
    BY <1>1, <1>2, <1>3, <1>5, <2>1, ClosesBetween DEF Hypotheses
  <2>3. c \in Int /\ o < c /\ c \in search.mjd - epsilon + 1 .. m
    BY <1>2, <1>3, <2>2, SeenBrightFields
  <2>4. /\ o <= search.mjd \/ o = b
        /\ search.for.fresh =>
             \/ search.for.open < search.mjd
             \/ /\ search.for.open = search.mjd /\ o = search.mjd
                /\ search.step \div Ratio # 0 /\ ~Within(m, search.mjd)
    <3>1. CASE o # b
      <4>1. o + step + 2 * epsilon <= c
        BY <1>2, <2>2, <2>3, <3>1, OpensForLong, SeenBrightFields DEF Hypotheses
      <4>2. search.for.open <= o + epsilon
        BY <1>1, <1>2, SeenBrightFields DEF OpenedAt, Within
      <4>3. /\ c <= search.mjd + search.step /\ search.step <= step /\ epsilon > 0
            /\ search.mjd \in Int /\ search.step \in Int /\ step \in Int /\ epsilon \in Int
            /\ search.for.open \in Int
        BY <2>1, <2>3, SeenBrightFields
      <4>4. o <= search.mjd /\ search.for.open < search.mjd
        <5> HIDE DEF step
        <5> QED BY ONLY <4>1, <4>2, <4>3, o \in Int, c \in Int, <1>2, <2>3
      <4> QED BY <4>4
    <3>2. CASE o = b /\ (~search.for.fresh \/ search.for.open < search.mjd)
      BY <3>2
    <3>3. CASE o = b /\ search.for.fresh /\ ~(search.for.open < search.mjd)
      <4>1. search.for.open = o /\ search.mjd = o /\ n = o
        <5>1. search.for.open = o
          BY <1>1, <3>3 DEF OpenedAt
        <5>2. search.for.open <= search.mjd /\ search.for.open \in Int /\ search.mjd \in Int
          BY SeenBrightFields
        <5>3. search.mjd = o
          BY ONLY <3>3, <5>1, <5>2
        <5> QED BY <1>1, <3>3, <5>1, <5>3
      <4>2. search.step > epsilon
        BY <1>2, <2>1, <4>1, SeenBrightFields DEF Within
      <4>3. search.step \div Ratio # 0
        BY <4>2, SeenBrightFields, Refines DEF Hypotheses
      <4>4. ~Within(m, search.mjd)
        BY <1>2, <2>1, <4>1, <4>2, SeenBrightFields DEF Within
      <4> QED BY <3>3, <4>1, <4>3, <4>4
    <3> QED BY <3>1, <3>2, <3>3
  <2>5. /\ s.what = "close" /\ ~s.looping /\ s.start = search.mjd
        /\ s.step = search.step \div Ratio /\ s.for = search.for
    BY DEF Search
  <2> HIDE DEF s, step
  <2>6. SteppedBack(s, m)
    BY <2>1, <2>5, SeenBrightFields DEF SteppedBack
  <2>7. OpenedAt(s, o, b) /\ o \in b .. m /\ Base(s, b)
    BY <1>1, <1>2, <1>3, <2>5 DEF OpenedAt, Base
  <2>8. PassedClosing(s, m, b)
    BY <2>2, <2>3, <2>4, <2>5, <2>6, <2>7 DEF PassedClosing
  <2> QED BY <2>7, <2>8 DEF s, Known
<1> QED BY <1>4, <1>5

(* Behind the closing: a finer search for it, or it is found.  As with the *)
(* opening, the sky may be known from an earlier time then.                *)
LEMMA PassedClosingGoesOn ==
  ASSUME Hypotheses, NEW n \in Int, NEW b \in Int, Base(search, b), PassedClosing(search, n, b)
  PROVE  LET found == [for |-> search.for, close |-> search.start]
         IN  /\ search.step = 0 => Found(found)
             /\ search.step # 0 =>
                  \A m : Looks(n, search.start, m) =>
                    /\ ~Observable(m) => Found(found)
                    /\ Observable(m) => Known(GoneOn(search.start), m)
<1> DEFINE found == [for |-> search.for, close |-> search.start]
<1>1. PICK p \in Levels : /\ p # 0 /\ p <= search.for.step
                         /\ search.step = p \div Ratio /\ n = search.start + p
  BY DEF PassedClosing, SteppedBack
<1>2. PICK o \in b .. n, c \in search.start - epsilon + 1 .. n :
        /\ OpenedAt(search, o, b) /\ o < c /\ Closes(o, c) /\ Dark(c, n)
        /\ o <= search.start \/ o = b
        /\ search.for.fresh =>
             \/ search.for.open < search.start
             \/ search.for.open = search.start /\ o = search.start /\ search.step # 0
                  /\ ~Within(n, search.start)
  BY DEF PassedClosing
<1>3. /\ search.start \in Int /\ search.step \in Nat /\ search.for.step \in Nat
      /\ search.for.step \in Steps /\ search.for.from \in Int /\ search.what = "close"
      /\ search.for.open \in Int /\ search.for.from <= search.for.open
      /\ search.for.open <= search.start
      /\ epsilon \in Nat /\ year \in Nat \ {0}
  BY SearchFields, EphemerisSizes, SearchSizes DEF Hypotheses, PassedClosing
<1>4. /\ p \in Nat /\ search.step \in Levels /\ search.step <= p
      /\ search.step = 0 => p <= epsilon
  BY <1>1, Refines DEF Hypotheses
<1>5. o \in Int /\ c \in Int /\ b <= o /\ search.start - epsilon < c /\ c <= n
  BY <1>2, <1>3
<1>6. ASSUME c <= search.start + epsilon, search.for.fresh => search.for.open < search.start
      PROVE  Found(found)
  <2>1. found.close = search.start /\ found.for = search.for
    OBVIOUS
  <2>2. Within(found.close, c)
    BY ONLY <1>3, <1>5, <1>6, <2>1 DEF Within
  <2> HIDE DEF found
  <2>3. OpenedAt(found, o, b) /\ Base(found, b)
    BY <1>2, <2>1 DEF OpenedAt, Base
  <2> QED BY <1>2, <1>5, <1>6, <2>1, <2>2, <2>3 DEF Found
<1>7. ASSUME p <= epsilon PROVE Found(found)
  <2>1. c <= search.start + epsilon
    BY ONLY <1>1, <1>3, <1>4, <1>5, <1>7
  <2>2. Within(n, search.start)
    BY ONLY <1>1, <1>3, <1>4, <1>7 DEF Within
  <2> QED BY <1>2, <1>6, <2>1, <2>2
<1>8. ASSUME NEW m, search.step # 0, Looks(n, search.start, m)
      PROVE  /\ ~Observable(m) => Found(found)
             /\ Observable(m) => Known(GoneOn(search.start), m)
  <2>1. CASE Within(n, search.start) /\ m = n
    <3>1. p <= epsilon
      BY <1>1, <1>3, <1>4, <2>1 DEF Within
    <3>2. ~Observable(m)
      BY <1>2, <1>5, <2>1 DEF Dark
    <3> QED BY <1>7, <3>1, <3>2
  <2>2. CASE m = search.start
    <3>1. ASSUME ~Observable(m) PROVE Found(found)
      <4>1. o <= search.start
        <5> SUFFICES ASSUME search.start < o PROVE FALSE
          BY <1>3, <1>5
        <5>1. ~Observable(search.start) /\ ~Observable(c) /\ Observable(o)
          BY <1>2, <2>2, <3>1 DEF OpenedAt, Opens, Closes
        <5>2. search.start < o /\ o < c /\ c - search.start <= search.for.step + 2 * epsilon
          BY <1>1, <1>2, <1>3, <1>4, <1>5
        <5> QED BY <1>3, <1>5, <5>1, <5>2, Steady DEF Hypotheses
      <4>2. c <= search.start
        BY <1>2, <1>3, <1>5, <2>2, <3>1, <4>1 DEF Closes, Bright
      <4>3. search.for.fresh => search.for.open < search.start
        BY <1>2, <2>2, <3>1 DEF OpenedAt, Opens
      <4> QED BY <1>3, <1>5, <1>6, <4>2, <4>3
    <3>2. ASSUME Observable(m) PROVE Known(GoneOn(search.start), m)
      <4> DEFINE s == GoneOn(search.start)
      <4>1. /\ s.what = "close" /\ s.start = search.start /\ s.mjd = m
            /\ s.step = search.step /\ s.looping /\ s.for = search.for
        BY <1>3, <2>2, GoneOnFields DEF Hypotheses
      <4> HIDE DEF s
      <4>2. Stepping(s)
        BY <1>1, <1>3, <1>4, <1>8, <4>1 DEF Stepping
      <4>3. s.mjd - s.start < year /\ Within(m, s.mjd)
        BY <1>3, <2>2, <4>1 DEF Within
      <4>4. ~AllBright
        BY <1>2, <1>5 DEF Closes, AllBright
      <4>5. CASE o <= search.start
        <5>1. search.start < c
          BY <1>1, <1>2, <1>3, <1>4, <1>5, <2>2, <3>2 DEF Dark
        <5>2. Bright(o, m)
          BY <1>2, <1>3, <1>5, <2>2, <5>1 DEF Closes, Bright
        <5>3. OpenedAt(s, o, b) /\ o \in b .. m /\ Base(s, b)
          BY <1>2, <1>3, <1>5, <2>2, <4>1, <4>5 DEF OpenedAt, Base
        <5>4. SeenBright(s, m, b)
          <6>1. s.for.fresh /\ o = b /\ s.mjd = o => m = o
            BY <4>1
          <6> QED BY <4>1, <4>2, <4>3, <4>4, <5>2, <5>3, <6>1 DEF SeenBright
        <5> QED BY <5>3, <5>4 DEF s, Known
      <4>6. CASE search.start < o
        <5>1. o = b /\ m < b /\ m \in Int
          BY <1>2, <1>3, <1>5, <2>2, <4>6
        <5>2. Base(search, m) /\ ~search.for.fresh
          BY <1>3, <2>2, <5>1 DEF Base, Within
        <5>3. Within(search.for.open, m)
          <6>1. o <= search.for.open + epsilon
            BY <1>2 DEF OpenedAt, Within
          <6> QED BY <1>3, <1>5, <2>2, <4>6, <6>1 DEF Within
        <5>4. OpenedAt(s, m, m) /\ Bright(m, m) /\ m \in m .. m
          BY <3>2, <4>1, <5>1, <5>2, <5>3 DEF OpenedAt, Opens, Dark, Bright
        <5>5. Base(s, m) /\ ~s.for.fresh
          BY <4>1, <5>2 DEF Base
        <5>6. SeenBright(s, m, m)
          BY <4>1, <4>2, <4>3, <4>4, <5>4, <5>5 DEF SeenBright
        <5> QED BY <5>1, <5>5, <5>6 DEF s, Known
      <4> QED BY <1>3, <1>5, <4>5, <4>6
    <3> QED BY <3>1, <3>2
  <2> QED BY <1>8, <2>1, <2>2 DEF Looks
<1> QED BY <1>4, <1>7, <1>8

----------------------------------------------------------------------------

(* The sky does not change, nor what is said of it. *)
LEMMA SkyStill ==
  ASSUME sky' = sky
  PROVE  /\ \A k : Observable(k)' <=> Observable(k)
         /\ \A a, b : /\ Bright(a, b)' <=> Bright(a, b)
                      /\ Dark(a, b)' <=> Dark(a, b)
         /\ AllBright' <=> AllBright
         /\ \A a : Opening(a)' = Opening(a)
         /\ \A o : Closing(o)' = Closing(o)
<1>1. \A k : Observable(k)' <=> Observable(k)
  BY DEF Observable, Dphi
<1>2. \A a, b : /\ Bright(a, b)' <=> Bright(a, b)
                /\ Dark(a, b)' <=> Dark(a, b)
  BY <1>1 DEF Bright, Dark
<1>3. AllBright' <=> AllBright
  BY <1>1 DEF AllBright
<1>4. \A a : Opening(a)' = Opening(a)
  BY DEF Opening, Observable, Dphi
<1>5. \A o : Closing(o)' = Closing(o)
  BY DEF Closing, Observable, Dphi
<1> QED BY <1>1, <1>2, <1>3, <1>4, <1>5

(* What a search knows, it knows when only the clock has moved. *)
LEMMA KnowsStill ==
  ASSUME sky' = sky, Known(search', Now')
  PROVE  Known(search, Now)'
  BY SkyStill DEF Known, Base, Asked, SeenDark, PassedOpening, SeenBright, PassedClosing, Stepping,
     SteppedBack, OpenedAt, Opens, Closes, Within

LEMMA FoundStill ==
  ASSUME sky' = sky, Found(window')
  PROVE  Found(window)'
  BY SkyStill DEF Found, Base, OpenedAt, Opens, Closes, Within

LEMMA NothingFound ==
  ASSUME sky' = sky, window' = window, WindowInv
  PROVE  (window # NoWindow => Found(window))'
<1> SUFFICES ASSUME window' # NoWindow PROVE Found(window)'
  BY DEF NoWindow, Purpose
<1>1. Found(window')
  BY DEF WindowInv
<1> QED BY <1>1, FoundStill

LEMMA LookIsALook ==
  ASSUME EphemerisTypeOK, NEW mjd \in Int, Look(mjd)
  PROVE  /\ Now \in Int /\ Looks(Now, mjd, Now')
         /\ Seen = Dphi(Now')
<1>1. jd \in Int /\ epsilon \in Int /\ MjdZero \in Int
  BY SearchSizes, EphemerisSizes DEF EphemerisTypeOK
<1>2. Near(mjd + MjdZero) <=> Within(Now, mjd)
  BY <1>1 DEF Near, Within, Now
<1>3. Near(mjd + MjdZero) => jd' = jd
  BY DEF Look, Position, Update, clock, mjd_to_jd
<1>4. ~Near(mjd + MjdZero) => jd' = mjd + MjdZero
  BY DEF Look, Position, Update, mjd_to_jd
<1> QED BY <1>1, <1>2, <1>3, <1>4 DEF Looks, Now, Seen

(* What a step of a search has to be shown to keep *)
LEMMA KeepsWindowInv ==
  ASSUME WindowInv, search # NoSearch, UNCHANGED <<sky, window, roll>>, Known(search', Now')
  PROVE  WindowInv'
<1>1. (window # NoWindow => Found(window))'
  BY NothingFound
<1>2. Known(search, Now)'
  BY KnowsStill
<1>3. (roll = NoRoll \/ roll.at = "windows")'
  BY DEF WindowInv, NoRoll
<1> QED BY <1>1, <1>2, <1>3 DEF WindowInv

LEMMA SearchingFields ==
  ASSUME Hypotheses, EphemerisTypeOK
  PROVE  /\ search.start \in Int /\ search.mjd \in Int /\ search.step \in Nat
         /\ Ahead \in Int /\ Ahead - search.step = search.mjd /\ Now \in Int
         /\ search.for \in [from : Int, step : Steps, open : Int, fresh : BOOLEAN]
         /\ \A mjd \in Int : GoneOn(mjd) # NoSearch /\ GoneOn(mjd).for = search.for
<1>1. /\ search.start \in Int /\ search.mjd \in Int /\ search.step \in Nat
      /\ search.for \in [from : Int, step : Steps, open : Int, fresh : BOOLEAN]
      /\ search.what # "nothing"
  BY SearchFields DEF Hypotheses
<1>2. Now \in Int
  BY SearchSizes DEF Now, EphemerisTypeOK
<1>3. \A mjd \in Int : GoneOn(mjd) # NoSearch /\ GoneOn(mjd).for = search.for
  <2> TAKE mjd \in Int
  <2>1. GoneOn(mjd).what = search.what /\ GoneOn(mjd).for = search.for
    BY GoneOnFields DEF Hypotheses
  <2> QED BY <1>1, <2>1 DEF NoSearch
<1> QED BY <1>1, <1>2, <1>3 DEF Ahead

LEMMA WindowOpenKnows ==
  ASSUME FineSteps, LongWindows, SearchInv, WindowInv, FindWindowOpen
  PROVE  WindowInv'
<1>1. /\ search # NoSearch /\ search.what = "open" /\ UNCHANGED <<sky, window, roll>>
      /\ Hypotheses /\ EphemerisTypeOK
  BY DEF FindWindowOpen, NoSearch, SearchInv, Hypotheses, EphemerisInv
<1>2. /\ search.start \in Int /\ search.mjd \in Int /\ search.step \in Nat
      /\ Ahead \in Int /\ Ahead - search.step = search.mjd /\ Now \in Int
      /\ search.for \in [from : Int, step : Steps, open : Int, fresh : BOOLEAN]
  BY <1>1, SearchingFields
<1> DEFINE opened == Search("close", search.start, search.for.step,
                            [search.for EXCEPT !.open = search.start])
           back   == Search("open", search.mjd, search.step \div Ratio, search.for)
<1>3. \/ search' = opened \/ search' = back
      \/ search' = GoneOn(search.start) \/ search' = GoneOn(Ahead)
  BY <1>1, <1>2 DEF FindWindowOpen, Opened, GoOn, GoneOn, Refine
<1>4. \/ Asked(search, Now)
      \/ \E b \in Int : Base(search, b) /\ (SeenDark(search, Now, b) \/ PassedOpening(search, Now, b))
  BY <1>1 DEF WindowInv, Known, SeenBright, PassedClosing
<1>5. Known(search', Now')
  <2>1. CASE search.step <= one_minute /\ Opened(search.start) /\ UNCHANGED evars
    <3>1. search.step = 0 /\ search' = opened /\ Now' = Now
      BY <1>2, <2>1 DEF one_minute, Opened, evars, Now
    <3>2. ~Asked(search, Now) /\ \A b : ~SeenDark(search, Now, b)
      BY <1>1, <1>2, <3>1, SearchFields, SearchSizes DEF Asked, SeenDark, Stepping
    <3>3. PICK b \in Int : Base(search, b) /\ PassedOpening(search, Now, b)
      BY <1>4, <3>2
    <3> HIDE DEF opened
    <3>4. Known(opened, Now)
      BY <1>1, <1>2, <3>1, <3>3, PassedOpeningGoesOn DEF opened
    <3> QED BY <3>1, <3>4
  <2>2. CASE /\ search.step > one_minute /\ ~search.looping /\ Look(search.start)
             /\ IF Seen <= 0 THEN Opened(search.start) ELSE GoOn(search.start)
    <3>1. Looks(Now, search.start, Now') /\ Seen = Dphi(Now') /\ Now' \in Int /\ search.step # 0
      BY <1>1, <1>2, <2>2, LookIsALook DEF Looks, one_minute
    <3>2. IF Observable(Now') THEN search' = opened ELSE search' = GoneOn(search.start)
      <4>1. Dphi(Now') \in {-1, 1} /\ (Observable(Now') <=> Dphi(Now') = -1)
        BY <3>1, SkyAt DEF SearchInv
      <4> QED BY <2>2, <3>1, <4>1 DEF Opened, GoOn, GoneOn
    <3>3. \/ Asked(search, Now)
          \/ \E b \in Int : Base(search, b) /\ PassedOpening(search, Now, b)
      BY <1>4, <2>2 DEF SeenDark
    <3> DEFINE m == Now'
    <3> HIDE DEF opened
    <3>4. /\ Observable(m) => Known(opened, m)
          /\ ~Observable(m) => Known(GoneOn(search.start), m)
      <4>0. Looks(Now, search.start, m)
        BY <3>1
      <4> HIDE DEF m
      <4>1. CASE Asked(search, Now)
        BY <1>1, <1>2, <4>0, <4>1, AskedGoesOn DEF opened
      <4>2. ASSUME NEW b \in Int, Base(search, b), PassedOpening(search, Now, b)
            PROVE  /\ Observable(m) => Known(opened, m)
                   /\ ~Observable(m) => Known(GoneOn(search.start), m)
        BY <1>1, <1>2, <3>1, <4>0, <4>2, PassedOpeningGoesOn DEF opened
      <4> QED BY <3>3, <4>1, <4>2
    <3> QED BY <3>2, <3>4
  <2>3. CASE /\ search.step > one_minute /\ search.looping /\ Look(Ahead)
             /\ IF Seen <= 0 THEN Refine(Ahead) ELSE GoOn(Ahead)
    <3>1. Looks(Now, Ahead, Now') /\ Seen = Dphi(Now') /\ Now' \in Int
      BY <1>1, <1>2, <2>3, LookIsALook DEF Looks
    <3>2. IF Observable(Now') THEN search' = back ELSE search' = GoneOn(Ahead)
      <4>1. Dphi(Now') \in {-1, 1} /\ (Observable(Now') <=> Dphi(Now') = -1)
        BY <3>1, SkyAt DEF SearchInv
      <4> QED BY <1>1, <1>2, <2>3, <3>1, <4>1 DEF Refine, GoOn, GoneOn
    <3>3. PICK b \in Int : Base(search, b) /\ SeenDark(search, Now, b)
      BY <1>4, <2>3 DEF Asked, PassedOpening
    <3> DEFINE m == Now'
    <3>4. Looks(Now, Ahead, m)
      BY <3>1
    <3> HIDE DEF back, m
    <3>5. /\ ~Observable(m) => Known(GoneOn(Ahead), m)
          /\ Observable(m) => Known(back, m)
      BY <1>1, <1>2, <3>3, <3>4, SeenDarkGoesOn DEF back
    <3> QED BY <3>2, <3>5 DEF m
  <2> QED BY <1>1, <2>1, <2>2, <2>3 DEF FindWindowOpen
<1> QED BY <1>1, <1>5, KeepsWindowInv

LEMMA WindowCloseKnows ==
  ASSUME FineSteps, LongWindows, SearchInv, WindowInv, FindWindowClose
  PROVE  WindowInv'
<1>1. /\ search # NoSearch /\ search.what = "close" /\ UNCHANGED <<sky, roll>>
      /\ Hypotheses /\ EphemerisTypeOK
  BY DEF FindWindowClose, NoSearch, SearchInv, Hypotheses, EphemerisInv
<1>2. /\ search.start \in Int /\ search.mjd \in Int /\ search.step \in Nat
      /\ Ahead \in Int /\ Ahead - search.step = search.mjd /\ Now \in Int
      /\ search.for \in [from : Int, step : Steps, open : Int, fresh : BOOLEAN]
  BY <1>1, SearchingFields
<1> DEFINE back     == Search("close", search.mjd, search.step \div Ratio, search.for)
           at(mjd)  == [for |-> search.for, close |-> mjd]
<1>3. ASSUME NEW mjd, Closed(mjd), Found(at(mjd)) PROVE WindowInv'
  <2>1. search' = NoSearch /\ window' = at(mjd)
    BY <1>3 DEF Closed
  <2>2. Found(window')
    BY <1>3, <2>1
  <2>3. Found(window)'
    BY <1>1, <2>2, FoundStill
  <2>4. (search = NoSearch)'
    BY <2>1 DEF NoSearch
  <2> QED BY <2>3, <2>4 DEF WindowInv
<1>4. PICK b \in Int : /\ Base(search, b)
                       /\ SeenBright(search, Now, b) \/ PassedClosing(search, Now, b)
  BY <1>1 DEF WindowInv, Known, Asked, SeenDark, PassedOpening
<1>5. CASE search.step <= one_minute /\ Closed(search.start) /\ UNCHANGED evars
  <2>1. search.step = 0
    BY <1>2, <1>5 DEF one_minute
  <2>2. PassedClosing(search, Now, b)
    BY <1>4, <2>1 DEF SeenBright, Stepping
  <2>3. Found(at(search.start))
    BY <1>1, <1>2, <1>4, <2>1, <2>2, PassedClosingGoesOn
  <2> QED BY <1>3, <1>5, <2>3
<1>6. CASE /\ search.step > one_minute /\ ~search.looping /\ Look(search.start)
           /\ IF Seen >= 0 THEN Closed(search.start) ELSE GoOn(search.start) /\ UNCHANGED window
  <2>1. Looks(Now, search.start, Now') /\ Seen = Dphi(Now') /\ Now' \in Int /\ search.step # 0
    BY <1>1, <1>2, <1>6, LookIsALook DEF Looks, one_minute
  <2>2. IF Observable(Now') THEN search' = GoneOn(search.start) /\ UNCHANGED window
        ELSE Closed(search.start)
    <3>1. Dphi(Now') \in {-1, 1} /\ (Observable(Now') <=> Dphi(Now') = -1)
      BY <2>1, SkyAt DEF SearchInv
    <3> QED BY <1>6, <2>1, <3>1 DEF GoOn, GoneOn
  <2> DEFINE m == Now'
  <2>3. Looks(Now, search.start, m) /\ search.step # 0 /\ Now \in Int
    BY <1>2, <2>1
  <2> HIDE DEF m
  <2>4. /\ ~Observable(m) => Found(at(search.start))
        /\ Observable(m) => Known(GoneOn(search.start), m)
    <3>1. CASE SeenBright(search, Now, b)
      BY <1>1, <1>4, <1>6, <2>3, <3>1, WindowEntered
    <3>2. CASE PassedClosing(search, Now, b)
      BY <1>1, <1>4, <2>3, <3>2, PassedClosingGoesOn
    <3> QED BY <1>4, <3>1, <3>2
  <2> USE DEF m
  <2>5. CASE Observable(Now')
    <3>1. Known(search', Now') /\ UNCHANGED window
      BY <2>2, <2>4, <2>5
    <3> QED BY <1>1, <3>1, KeepsWindowInv
  <2>6. CASE ~Observable(Now')
    BY <1>3, <2>2, <2>4, <2>6
  <2> QED BY <2>5, <2>6
<1>7. CASE /\ search.step > one_minute /\ search.looping
           /\ IF Ahead - search.start >= year
                THEN Closed(Ahead) /\ UNCHANGED evars
                ELSE /\ Look(Ahead)
                     /\ IF Seen >= 0 THEN Refine(Ahead) ELSE GoOn(Ahead)
                     /\ UNCHANGED window
  <2>1. SeenBright(search, Now, b)
    BY <1>4, <1>7 DEF PassedClosing
  <2>2. CASE Ahead - search.start >= year /\ Closed(Ahead)
    BY <1>1, <1>2, <1>3, <1>4, <2>1, <2>2, WindowOfAYear
  <2>3. CASE /\ ~(Ahead - search.start >= year) /\ Look(Ahead)
             /\ IF Seen >= 0 THEN Refine(Ahead) ELSE GoOn(Ahead)
             /\ UNCHANGED window
    <3>1. Looks(Now, Ahead, Now') /\ Seen = Dphi(Now') /\ Now' \in Int
      BY <1>1, <1>2, <2>3, LookIsALook DEF Looks
    <3>2. IF Observable(Now') THEN search' = GoneOn(Ahead) ELSE search' = back
      <4>1. Dphi(Now') \in {-1, 1} /\ (Observable(Now') <=> Dphi(Now') = -1)
        BY <3>1, SkyAt DEF SearchInv
      <4> QED BY <1>1, <1>2, <2>3, <3>1, <4>1 DEF Refine, GoOn, GoneOn
    <3>3. Ahead - search.start < year
      BY <1>2, <2>3, SearchSizes
    <3> DEFINE m == Now'
    <3>4. Looks(Now, Ahead, m)
      BY <3>1
    <3> HIDE DEF back, m
    <3>5. /\ Observable(m) => Known(GoneOn(Ahead), m)
          /\ ~Observable(m) => Known(back, m)
      BY <1>1, <1>2, <1>4, <2>1, <3>3, <3>4, SeenBrightGoesOn DEF back
    <3>6. Known(search', Now')
      BY <3>2, <3>5 DEF m
    <3> QED BY <1>1, <2>3, <3>6, KeepsWindowInv
  <2> QED BY <1>7, <2>2, <2>3
<1> QED BY <1>1, <1>5, <1>6, <1>7 DEF FindWindowClose

(* A search begins with a look of its own, if it is fresh. *)
LEMMA BeginKnows ==
  ASSUME SearchInv, WindowInv, NEW from \in Int, NEW step \in Steps, BeginSearch(from, step),
         UNCHANGED <<evars, sky, window>>, (roll = NoRoll \/ roll.at = "windows")'
  PROVE  WindowInv'
<1>1. jd \in Int /\ MjdZero \in Int /\ epsilon \in Int /\ Now' = Now /\ sky' = sky
  BY SearchSizes, EphemerisSizes DEF SearchInv, EphemerisInv, EphemerisTypeOK, evars, Now
<1>2. /\ search'.what = "open" /\ ~search'.looping /\ search'.start = from /\ search'.step = step
      /\ search'.for.from = from /\ search'.for.step = step
      /\ search'.for.fresh = ~Near(from + MjdZero)
  BY DEF BeginSearch, Search, Purpose, mjd_to_jd
<1>3. Near(from + MjdZero) <=> Within(Now, from)
  BY <1>1 DEF Near, Within, Now
<1>4. Known(search', Now')
  BY <1>1, <1>2, <1>3 DEF Known, Asked
<1>5. Known(search, Now)'
  BY <1>1, <1>4, KnowsStill
<1> QED BY <1>1, <1>5, NothingFound DEF WindowInv

(* No window is searched for while a roll is looked at. *)
LEMMA NoSearchKnows ==
  ASSUME WindowInv, search = NoSearch, UNCHANGED <<sky, search, window>>
  PROVE  WindowInv'
<1>1. (window # NoWindow => Found(window))'
  BY NothingFound
<1> QED BY <1>1 DEF WindowInv, NoSearch

LEMMA ListWindowKnows ==
  ASSUME SearchInv, WindowInv, ListWindow
  PROVE  WindowInv'
<1> DEFINE found == Append(roll.windows, <<window.for.open, window.close>>)
<1>1. search = NoSearch /\ roll # NoRoll /\ roll.at = "windows" /\ UNCHANGED <<evars, sky, window>>
  BY DEF ListWindow, NoRoll
<1>2. CASE UNCHANGED search
  BY <1>1, <1>2, NoSearchKnows
<1>3. CASE /\ BeginSearch(window.close + later, day)
           /\ roll' = [roll EXCEPT !.windows = found]
  <2>1. window.close + later \in Int /\ day \in Steps
    BY SearchSizes DEF SearchInv, WindowAhead
  <2>2. roll \in Rolls
    BY <1>1, RollFields DEF SearchInv
  <2> HIDE DEF found
  <2>3. roll'.at = "windows"
    BY <1>1, <1>3, <2>2 DEF Rolls
  <2> QED BY <1>1, <1>3, <2>1, <2>3, BeginKnows
<1> QED BY <1>2, <1>3 DEF ListWindow

LEMMA WindowSteps ==
  ASSUME FineSteps, LongWindows, SearchInv, WindowInv, [SearchNext]_<<evars, svars>>
  PROVE  WindowInv'
<1>1. CASE UNCHANGED <<evars, svars>>
  <2>1. UNCHANGED <<sky, search, window, roll>> /\ Now' = Now
    BY <1>1 DEF evars, svars, Now
  <2>2. CASE search = NoSearch
    BY <2>1, <2>2, NoSearchKnows
  <2>3. CASE search # NoSearch
    <3>1. Known(search', Now')
      BY <2>1, <2>3 DEF WindowInv
    <3> QED BY <2>1, <2>3, <3>1, KeepsWindowInv
  <2> QED BY <2>2, <2>3
<1>2. CASE search = NoSearch /\ UNCHANGED svars
  BY <1>2, NoSearchKnows DEF svars
<1>3. ASSUME NEW from \in Starts, NEW step \in Steps, TargetWindow(from, step) PROVE WindowInv'
  BY <1>3, SearchSizes, BeginKnows DEF TargetWindow, NoRoll
<1>4. ASSUME NEW from \in Starts, FindDateForRoll(from) PROVE WindowInv'
  <2>1. (roll = NoRoll \/ roll.at = "windows")'
    BY <1>4 DEF FindDateForRoll
  <2> QED BY <1>4, <2>1, SearchSizes, BeginKnows DEF FindDateForRoll
<1>5. CASE EnterWindow \/ target_observable \/ \E limits \in {"none", "in", "out", "raises"} : RollInfo(limits)
  <2>1. /\ roll.at \in {"next", "limits", "observable"} /\ UNCHANGED <<sky, search, window>>
    <3>1. EnterWindow => roll.at = "next" /\ UNCHANGED <<sky, search, window>>
      BY Zenon DEF EnterWindow
    <3>2. target_observable => roll.at = "observable" /\ UNCHANGED <<sky, search, window>>
      BY Zenon DEF target_observable
    <3>3. ASSUME NEW limits, RollInfo(limits)
          PROVE  roll.at = "limits" /\ UNCHANGED <<sky, search, window>>
      BY <3>3, Zenon DEF RollInfo
    <3> QED BY <1>5, <3>1, <3>2, <3>3
  <2>2. search = NoSearch
    BY <2>1 DEF WindowInv, NoRoll
  <2> QED BY <2>1, <2>2, NoSearchKnows
<1> QED BY <1>1, <1>2, <1>3, <1>4, <1>5, WindowOpenKnows, WindowCloseKnows, ListWindowKnows
        DEF SearchNext, Searching

(* NextWindowFound: when the sky has no window or night of less than a     *)
(* step and two hours, and the steps are refined down to an hour, the      *)
(* window that target_window() returns is the next that the sky has, from  *)
(* whatever time it is asked for and whatever was asked of the ephemeris   *)
(* before.                                                                 *)
THEOREM WindowIsTheNext ==
  ASSUME FineSteps, LongWindows
  PROVE  SearchSpec => []NextWindowFound
<1>1. SearchInit => WindowInv
  BY DEF SearchInit, WindowInv, NoSearch
<1>2. SearchInv /\ WindowInv /\ [SearchNext]_<<evars, svars>> => WindowInv'
  BY WindowSteps
<1>3. SearchInv /\ WindowInv => NextWindowFound
  BY FoundIsNext DEF SearchInv, WindowAhead, WindowInv, NextWindowFound
<1> QED BY <1>1, <1>2, <1>3, SearchInvHolds, PTL DEF SearchSpec

----------------------------------------------------------------------------
(* The date for a roll angle, within a year and a step                     *)

(* A window for which the first look was within an hour of from opens in   *)
(* time for a date asked from asked on.                                    *)
Soon(from, asked) ==
  \A b, o \in Int :
    Within(b, from) /\ b <= o /\ Opens(b, o) => o + epsilon <= asked + year + day

(* What the roll waits for, when it waits for a window *)
LookedFor == IF search # NoSearch THEN search.for ELSE window.for

RollSoon ==
  roll # NoRoll =>
    /\ \A i \in 1 .. Len(roll.windows) : roll.windows[i][1] <= roll.from + year + day
    /\ roll.at \in {"limits", "observable"} => roll.mjd <= roll.from + year + day + 1
    /\ roll.at = "windows" =>
         /\ Soon(LookedFor.from, roll.from)
         /\ roll.windows = <<>> => LookedFor.from = roll.from
         /\ search = NoSearch => window # NoWindow

DateInv == RollSoon /\ DateWithinYear

LEMMA Sizes ==
  /\ epsilon \in Nat /\ year \in Nat \ {0} /\ day \in Nat \ {0} /\ day \in Steps
  /\ later \in Nat
  BY SearchSizes, EphemerisSizes

(* An opening that is looked forward to from b is more than a step before  *)
(* the same time next year.                                                *)
LEMMA FirstSoon ==
  ASSUME LongWindows, WindowsReturn, sky \in Skies, NEW from \in Int
  PROVE  Soon(from, from)
<1> SUFFICES ASSUME NEW b \in Int, NEW o \in Int, Within(b, from), b <= o, Opens(b, o)
             PROVE  o + epsilon <= from + year + day
  BY DEF Soon
<1>1. 4 * epsilon < year /\ b <= from + epsilon
  BY Sizes DEF WindowsReturn, Within
<1>2. CASE o = b
  BY <1>1, <1>2, Sizes
<1>3. CASE o # b
  <2>1. /\ Observable(o - year) /\ ~Observable(o - 1 - year) /\ ~Observable(b)
        /\ \A k \in b .. o - 1 : ~Observable(k)
    <3>1. Observable(o) /\ \A k \in b .. o - 1 : ~Observable(k)
      BY DEF Opens, Dark
    <3>2. b \in b .. o - 1 /\ o - 1 \in b .. o - 1
      BY <1>3
    <3>3. Dphi(o - year) = Dphi(o) /\ Dphi(o - 1 - year) = Dphi(o - 1)
      BY EveryYear
    <3> QED BY <3>1, <3>2, <3>3 DEF Observable
  <2>2. o - year < b
    BY <2>1, Sizes
  <2>3. ~(b - (o - 1 - year) <= day + 2 * epsilon)
    <3> SUFFICES ASSUME b - (o - 1 - year) <= day + 2 * epsilon PROVE FALSE
      OBVIOUS
    <3>1. o - 1 - year \in Int /\ o - year \in Int /\ o - 1 - year < o - year /\ day \in Steps
      BY Sizes
    <3>2. Observable(o - year) <=> Observable(o - 1 - year)
      BY <2>1, <2>2, <3>1, Steady
    <3> QED BY <2>1, <3>2
  <2> QED BY <1>1, <2>3, Sizes
<1> QED BY <1>2, <1>3

LEMMA NextClosing ==
  ASSUME LongWindows, WindowsReturn, sky \in Skies, NEW c \in Int,
         Observable(c - 1), ~Observable(c)
  PROVE  \E e \in Int : /\ c + later + 4 * epsilon < e /\ e < c + year
                        /\ Observable(e - 1) /\ ~Observable(e)
<1> DEFINE k == (c - 1) % year
<1>1. year \in Nat \ {0} /\ c - 1 \in Int /\ k \in 0 .. year - 1 /\ k \in Int
  BY Sizes, SkyAt
<1>2. \A j \in Int : (k + j) % year = (c - 1 + j) % year
  BY ONLY <1>1, RemainderOfSum, Zenon
<1>3. \A j \in Int : sky[(k + j) % year] = Dphi(c - 1 + j)
  BY <1>2 DEF Dphi
<1> HIDE DEF k
<1>4. sky[k] = -1 /\ sky[(k + 1) % year] = 1
  <2>1. sky[k] = Dphi(c - 1)
    BY DEF Dphi, k
  <2>2. Dphi(c - 1) = -1 /\ Dphi(c) = 1
    BY <1>1, SkyAt
  <2>3. sky[(k + 1) % year] = Dphi(c - 1 + 1) /\ c - 1 + 1 = c
    BY <1>3
  <2> QED BY <2>1, <2>2, <2>3
<1>5. PICK j \in later + 4 * epsilon + 1 .. year - 1 :
        sky[(k + j) % year] = -1 /\ sky[(k + j + 1) % year] = 1
  BY <1>1, <1>4 DEF WindowsReturn
<1>6. j \in Int /\ later + 4 * epsilon + 1 <= j /\ j <= year - 1
  BY Sizes
<1>7. Dphi(c + j - 1) = -1 /\ Dphi(c + j) = 1
  <2>1. (k + j) + 1 = k + (j + 1) /\ c - 1 + j = c + j - 1 /\ c - 1 + (j + 1) = c + j /\ j + 1 \in Int
    BY <1>1, <1>6
  <2>2. sky[(k + j) % year] = Dphi(c - 1 + j) /\ sky[(k + (j + 1)) % year] = Dphi(c - 1 + (j + 1))
    BY <1>3, <1>6, <2>1
  <2> QED BY <1>5, <2>1, <2>2
<1>8. /\ c + j \in Int /\ c + later + 4 * epsilon < c + j /\ c + j < c + year
      /\ Observable(c + j - 1) /\ ~Observable(c + j)
  BY <1>6, <1>7, Sizes DEF Observable
<1> QED BY <1>8

(* The window after one that opened first since b: another closes before   *)
(* the year is over, and it opens before that.                             *)
LEMMA SecondSoon ==
  ASSUME LongWindows, WindowsReturn, sky \in Skies, NEW from \in Int, NEW close \in Int,
         NEW b \in Int, NEW o \in Int, NEW c \in Int,
         Within(b, from), b <= o, Opens(b, o), o < c, Closes(o, c), Within(close, c)
  PROVE  Soon(close + later, from)
<1>1. ~Observable(c) /\ \A k \in o .. c - 1 : Observable(k)
  BY DEF Closes, Bright
<1>2. PICK e \in Int : /\ c + later + 4 * epsilon < e /\ e < c + year
                      /\ Observable(e - 1) /\ ~Observable(e)
  BY <1>1, NextClosing
<1>3. e <= b + year
  <2> SUFFICES ASSUME b + year < e PROVE FALSE
    BY Sizes
  <2>1. Observable(e - 1 - year) /\ ~Observable(e - year)
    <3>1. Dphi(e - 1 - year) = Dphi(e - 1) /\ Dphi(e - year) = Dphi(e)
      BY EveryYear
    <3> QED BY <1>2, <3>1 DEF Observable
  <2>2. e - 1 - year >= o
    <3>1. \A k \in b .. o - 1 : ~Observable(k)
      BY DEF Opens, Dark
    <3> QED BY <2>1, <3>1, Sizes
  <2> QED BY <1>1, <1>2, <2>1, <2>2, Sizes
<1> SUFFICES ASSUME NEW b2 \in Int, NEW o2 \in Int, Within(b2, close + later), b2 <= o2, Opens(b2, o2)
             PROVE  o2 + epsilon <= from + year + day
  BY DEF Soon
<1>4. /\ b <= from + epsilon /\ close <= c + epsilon /\ b2 <= close + later + epsilon
  BY Sizes DEF Within
<1>5. b2 + 2 * epsilon < e
  BY <1>2, <1>4, Sizes
<1>6. CASE o2 = b2
  BY <1>2, <1>3, <1>4, <1>6, Sizes
<1>7. CASE o2 # b2
  <2>1. Observable(o2) /\ ~Observable(o2 - 1) /\ \A k \in b2 .. o2 - 1 : ~Observable(k)
    BY <1>7 DEF Opens, Dark
  <2>2. o2 <= e - 1
    BY <1>2, <1>5, <2>1, Sizes
  <2>3. ~(e - (o2 - 1) <= day + 2 * epsilon)
    <3> SUFFICES ASSUME e - (o2 - 1) <= day + 2 * epsilon PROVE FALSE
      OBVIOUS
    <3>1. o2 - 1 \in Int /\ o2 - 1 < o2 /\ o2 < e /\ day \in Steps
      BY <2>2, Sizes
    <3>2. Observable(o2) <=> Observable(o2 - 1)
      BY <1>2, <2>1, <3>1, Steady
    <3> QED BY <2>1, <3>2
  <2> QED BY <1>3, <1>4, <2>2, <2>3, Sizes
<1> QED BY <1>6, <1>7

----------------------------------------------------------------------------

LEMMA SoonStill ==
  ASSUME sky' = sky
  PROVE  \A from, asked : Soon(from, asked)' <=> Soon(from, asked)
  BY SkyStill DEF Soon, Opens, Within

(* A search that goes on, or ends, is for the same. *)
LEMMA SameLookedFor ==
  ASSUME DateInv, search # NoSearch, UNCHANGED <<sky, roll, date>>,
         \/ search' # NoSearch /\ search'.for.from = search.for.from
         \/ search' = NoSearch /\ window'.for = search.for /\ window' # NoWindow
  PROVE  DateInv'
<1>1. LookedFor'.from = LookedFor.from /\ (search' = NoSearch => window' # NoWindow)
  BY DEF LookedFor, NoSearch
<1>2. DateWithinYear'
  BY DEF DateInv, DateWithinYear
<1>3. RollSoon'
  BY <1>1, SoonStill DEF DateInv, RollSoon, NoRoll, NoSearch, NoWindow, Purpose
<1> QED BY <1>2, <1>3 DEF DateInv

LEMMA SearchingKeepsDate ==
  ASSUME SearchInv, DateInv, FindWindowOpen \/ FindWindowClose
  PROVE  DateInv'
<1>1. search # NoSearch /\ UNCHANGED <<sky, roll, date>>
  BY DEF FindWindowOpen, FindWindowClose, NoSearch
<1>2. search \in Searches /\ search.for \in [from : Int, step : Steps, open : Int, fresh : BOOLEAN]
  BY <1>1 DEF SearchInv, SearchAhead, Searches
<1>3. \A mjd : Opened(mjd) => search' # NoSearch /\ search'.for.from = search.for.from
  BY <1>2 DEF Opened, Search, NoSearch
<1>4. \A mjd : Refine(mjd) => search' # NoSearch /\ search'.for.from = search.for.from
  BY <1>2 DEF Refine, Search, NoSearch
<1>5. \A mjd : GoOn(mjd) => search' # NoSearch /\ search'.for.from = search.for.from
  <2> SUFFICES ASSUME NEW mjd, GoOn(mjd)
               PROVE  search' # NoSearch /\ search'.for.from = search.for.from
    OBVIOUS
  <2>1. search'.what = search.what /\ search'.for = search.for /\ search.what # "nothing"
    BY <1>2 DEF GoOn, Searches
  <2> QED BY <2>1 DEF NoSearch
<1>6. \A mjd : Closed(mjd) => search' = NoSearch /\ window'.for = search.for /\ window' # NoWindow
  <2> SUFFICES ASSUME NEW mjd, Closed(mjd)
               PROVE  search' = NoSearch /\ window'.for = search.for /\ window' # NoWindow
    OBVIOUS
  <2>1. search' = NoSearch /\ window'.for = search.for
    BY DEF Closed
  <2>2. search.for.step # 0
    BY <1>2, SearchSizes
  <2> QED BY <2>1, <2>2 DEF NoWindow, Purpose
<1>7. \/ search' # NoSearch /\ search'.for.from = search.for.from
      \/ search' = NoSearch /\ window'.for = search.for /\ window' # NoWindow
  BY <1>3, <1>4, <1>5, <1>6 DEF FindWindowOpen, FindWindowClose
<1> QED BY <1>1, <1>7, SameLookedFor

(* The window that is listed opens in time, and so does the second that is *)
(* looked for.                                                             *)
LEMMA ListWindowKeepsDate ==
  ASSUME LongWindows, WindowsReturn, SearchInv, WindowInv, DateInv, ListWindow
  PROVE  DateInv'
<1> DEFINE w     == <<window.for.open, window.close>>
           found == Append(roll.windows, w)
<1>1. /\ search = NoSearch /\ roll # NoRoll /\ roll.at = "windows"
      /\ UNCHANGED <<evars, sky, window, date>>
  BY DEF ListWindow, NoRoll
<1>2. /\ Soon(window.for.from, roll.from) /\ window # NoWindow
      /\ roll.windows = <<>> => window.for.from = roll.from
      /\ \A i \in 1 .. Len(roll.windows) : roll.windows[i][1] <= roll.from + year + day
  BY <1>1 DEF DateInv, RollSoon, LookedFor
<1>3. /\ roll \in Rolls /\ roll.windows \in Seq(Int \X Int) /\ roll.from \in Int
      /\ window.for.open \in Int /\ window.close \in Int /\ sky \in Skies
  BY <1>1, RollFields DEF SearchInv, WindowAhead
<1>4. PICK b, o \in Int :
        /\ Base(window, b) /\ b <= o /\ OpenedAt(window, o, b)
        /\ \/ AllBright /\ window.close = window.for.open + year
           \/ \E c \in Int : o < c /\ Closes(o, c) /\ Within(window.close, c)
  BY <1>2 DEF WindowInv, Found
<1>5. Within(b, window.for.from) /\ Opens(b, o) /\ Within(window.for.open, o)
  BY <1>4 DEF Base, OpenedAt
<1>6. w \in Int \X Int /\ w[1] <= roll.from + year + day
  <2>1. o + epsilon <= roll.from + year + day
    BY <1>2, <1>4, <1>5 DEF Soon
  <2>2. window.for.open <= o + epsilon
    BY <1>3, <1>5, Sizes DEF Within
  <2>3. window.for.open <= roll.from + year + day
    BY <1>3, <2>1, <2>2, Sizes
  <2>4. w[1] = window.for.open
    OBVIOUS
  <2> HIDE DEF w
  <2> QED BY <1>3, <2>3, <2>4 DEF w
<1>7. /\ found \in Seq(Int \X Int) /\ found # <<>> /\ Len(found) = Len(roll.windows) + 1
      /\ \A i \in 1 .. Len(found) : found[i][1] <= roll.from + year + day
  <2> HIDE DEF w
  <2>1. Len(roll.windows) \in Nat
    BY ONLY <1>3
  <2>2. /\ found \in Seq(Int \X Int) /\ Len(found) = Len(roll.windows) + 1
        /\ \A i \in 1 .. Len(roll.windows) : found[i] = roll.windows[i]
        /\ found[Len(roll.windows) + 1] = w
    BY ONLY <1>3, <1>6, <2>1
  <2>3. found # <<>>
    <3> HIDE DEF found
    <3>1. Len(found) # 0
      BY ONLY <2>1, <2>2
    <3> QED BY ONLY <3>1
  <2>4. \A i \in 1 .. Len(found) : found[i][1] <= roll.from + year + day
    <3> SUFFICES ASSUME NEW i \in 1 .. Len(found) PROVE found[i][1] <= roll.from + year + day
      OBVIOUS
    <3> HIDE DEF found
    <3>1. i \in 1 .. Len(roll.windows) \/ i = Len(roll.windows) + 1
      <4>1. i \in 1 .. Len(roll.windows) + 1
        BY <2>2
      <4> QED BY ONLY <2>1, <4>1
    <3> QED BY <1>2, <1>6, <2>2, <3>1, Zenon
  <2> QED BY <2>2, <2>3, <2>4
<1>8. DateWithinYear'
  BY <1>1 DEF DateInv, DateWithinYear
<1>9. CASE /\ Another(found) /\ BeginSearch(window.close + later, day)
           /\ roll' = [roll EXCEPT !.windows = found]
  <2>1. Soon(window.close + later, roll.from)
    <3>0. Len(found) = 1
      BY <1>9 DEF Another
    <3>1. window.close - window.for.open < year
      BY <1>9 DEF Another
    <3>2. window.for.from = roll.from
      <4>1. Len(roll.windows) = 0
        <5> HIDE DEF w
        <5> DEFINE len == Len(roll.windows)
        <5>1. len \in Nat
          BY ONLY <1>3
        <5> HIDE DEF found
        <5>2. 1 = len + 1
          BY <1>7, <3>0
        <5> HIDE DEF len
        <5>3. len = 0
          BY ONLY <5>1, <5>2
        <5> QED BY <5>3 DEF len
      <4>2. roll.windows = <<>>
        BY ONLY <1>3, <4>1
      <4> QED BY <1>2, <4>2
    <3>3. PICK c \in Int : o < c /\ Closes(o, c) /\ Within(window.close, c)
      <4>1. ~(window.close = window.for.open + year)
        BY ONLY <1>3, <3>1, Sizes
      <4> QED BY ONLY <1>4, <4>1, Zenon
    <3> QED BY <1>3, <1>4, <1>5, <3>2, <3>3, SecondSoon
  <2>2. search' # NoSearch /\ search'.for.from = window.close + later
    BY <1>9 DEF BeginSearch, Search, Purpose, NoSearch
  <2>3. /\ roll'.windows = found /\ roll'.at = "windows" /\ roll'.from = roll.from
    BY <1>1, <1>3, <1>9 DEF Rolls
  <2>4. Soon(window.close + later, roll.from)'
    <3>1. (window.close + later)' = window.close + later /\ roll'.from = roll.from
      BY <1>1, <2>3
    <3> QED BY <1>1, <2>1, <3>1, SoonStill
  <2> HIDE DEF found
  <2>5. LookedFor'.from = window.close + later
    BY <2>2 DEF LookedFor, NoSearch
  <2>6. RollSoon'
    <3>1. Soon(LookedFor.from, roll.from)'
      BY <1>1, <2>4, <2>5
    <3>2. (search # NoSearch)'
      BY <2>2 DEF NoSearch
    <3> QED BY <1>7, <2>3, <3>1, <3>2 DEF RollSoon
  <2> QED BY <1>8, <2>6 DEF DateInv
<1>10. CASE UNCHANGED search /\ roll' = [roll EXCEPT !.windows = found, !.at = "next"]
  <2>1. /\ roll'.windows = found /\ roll'.at = "next" /\ roll'.from = roll.from
    BY <1>1, <1>3, <1>10 DEF Rolls
  <2> HIDE DEF found
  <2>2. RollSoon'
    BY <1>7, <2>1 DEF RollSoon
  <2> QED BY <1>8, <2>2 DEF DateInv
<1> QED BY <1>9, <1>10 DEF ListWindow

(* A day that is looked at is the last one or one in a window. *)
LEMMA NextDateInTime ==
  ASSUME SearchInv, DateInv, roll # NoRoll, roll.at # "windows", NextDate, UNCHANGED <<sky, search, window>>
  PROVE  DateInv'
<1>1. /\ roll \in Rolls /\ roll.from \in Int /\ roll.mjd \in Int
  BY RollFields DEF SearchInv
<1>2. CASE None
  BY <1>2 DEF None, Finished, DateInv, RollSoon, DateWithinYear, NoRoll
<1>3. CASE /\ ~(roll.mjd - roll.from > year) /\ UNCHANGED date
           /\ roll' = [roll EXCEPT !.at = "limits", !.mjd = @ + day]
  <2>1. /\ roll'.windows = roll.windows /\ roll'.at = "limits" /\ roll'.from = roll.from
        /\ roll'.mjd = roll.mjd + day
    BY <1>1, <1>3 DEF Rolls
  <2>2. roll.mjd + day <= roll.from + year + day + 1
    BY <1>1, <1>3, Sizes
  <2>3. RollSoon'
    BY <2>1, <2>2 DEF DateInv, RollSoon
  <2> QED BY <1>3, <2>3 DEF DateInv, DateWithinYear
<1> QED BY <1>2, <1>3 DEF NextDate

LEMMA RollKeepsDate ==
  ASSUME SearchInv, DateInv,
         EnterWindow \/ target_observable \/ \E limits \in {"none", "in", "out", "raises"} : RollInfo(limits)
  PROVE  DateInv'
<1>1. roll # NoRoll /\ roll.at # "windows" /\ UNCHANGED <<sky, search, window>>
  <2>1. EnterWindow => roll.at = "next" /\ UNCHANGED <<sky, search, window>>
    BY Zenon DEF EnterWindow
  <2>2. target_observable => roll.at = "observable" /\ UNCHANGED <<sky, search, window>>
    BY Zenon DEF target_observable
  <2>3. ASSUME NEW limits, RollInfo(limits)
        PROVE  roll.at = "limits" /\ UNCHANGED <<sky, search, window>>
    BY <2>3, Zenon DEF RollInfo
  <2> QED BY <2>1, <2>2, <2>3 DEF NoRoll
<1>2. /\ roll \in Rolls /\ roll.from \in Int /\ roll.mjd \in Int
      /\ roll.wnum \in Nat /\ roll.windows \in Seq(Int \X Int)
  BY <1>1, RollFields DEF SearchInv
<1>3. /\ \A i \in 1 .. Len(roll.windows) : roll.windows[i][1] <= roll.from + year + day
      /\ roll.at \in {"limits", "observable"} => roll.mjd <= roll.from + year + day + 1
  BY <1>1 DEF DateInv, RollSoon
<1>4. CASE None
  BY <1>4 DEF None, Finished, DateInv, RollSoon, DateWithinYear, NoRoll
<1>5. CASE NextDate
  BY <1>1, <1>5, NextDateInTime
<1>6. CASE /\ roll.wnum < Len(roll.windows) /\ UNCHANGED date
           /\ LET w == roll.windows[roll.wnum + 1]
              IN  roll' = [roll EXCEPT !.at = "limits", !.wnum = @ + 1,
                             !.mjd = IF w[1] < roll.from /\ roll.from < w[2]
                                       THEN roll.from ELSE w[1] + 1]
  <2> DEFINE w   == roll.windows[roll.wnum + 1]
             mjd == IF w[1] < roll.from /\ roll.from < w[2] THEN roll.from ELSE w[1] + 1
  <2>1. roll.wnum + 1 \in 1 .. Len(roll.windows)
    <3>1. Len(roll.windows) \in Nat /\ roll.wnum \in Nat
      BY ONLY <1>2
    <3>2. roll.wnum < Len(roll.windows)
      BY <1>6
    <3> QED BY ONLY <3>1, <3>2
  <2>2. w[1] \in Int /\ w[1] <= roll.from + year + day
    <3>1. w \in Int \X Int
      BY ONLY <1>2, <2>1
    <3> QED BY <1>3, <2>1, <3>1
  <2>3. mjd <= roll.from + year + day + 1
    <3> HIDE DEF w
    <3> QED BY <1>2, <2>2, Sizes
  <2>4. roll' = [roll EXCEPT !.at = "limits", !.wnum = @ + 1, !.mjd = mjd]
    BY <1>6
  <2> HIDE DEF w, mjd
  <2>5. /\ roll'.windows = roll.windows /\ roll'.at = "limits" /\ roll'.from = roll.from
        /\ roll'.mjd = mjd
    BY <1>2, <2>4 DEF Rolls
  <2>6. RollSoon'
    BY <1>3, <2>3, <2>5 DEF RollSoon
  <2> QED BY <1>6, <2>6 DEF DateInv, DateWithinYear
<1>7. ASSUME NEW at \in {"next", "observable"}, roll' = [roll EXCEPT !.at = at], UNCHANGED date,
             roll.at \in {"limits", "observable"}
      PROVE  DateInv'
  <2>1. /\ roll'.windows = roll.windows /\ roll'.at = at /\ roll'.from = roll.from
        /\ roll'.mjd = roll.mjd
    BY <1>2, <1>7 DEF Rolls
  <2>2. RollSoon'
    BY <1>3, <1>7, <2>1 DEF RollSoon
  <2> QED BY <1>7, <2>2 DEF DateInv, DateWithinYear
<1>8. CASE Finished(roll.mjd, TRUE) /\ roll.at = "observable"
  <2>1. date' = [from |-> roll.from, mjd |-> roll.mjd, found |-> TRUE] /\ roll' = NoRoll
    BY <1>8 DEF Finished
  <2>2. DateWithinYear'
    BY <1>3, <1>8, <2>1 DEF DateWithinYear
  <2> QED BY <2>1, <2>2 DEF DateInv, RollSoon, NoRoll
<1>9. CASE roll' = NoRoll /\ UNCHANGED date
  BY <1>9 DEF DateInv, RollSoon, DateWithinYear, NoRoll
<1> QED BY <1>4, <1>5, <1>6, <1>7, <1>8, <1>9 DEF EnterWindow, RollInfo, target_observable

LEMMA DateSteps ==
  ASSUME LongWindows, WindowsReturn, SearchInv, WindowInv, DateInv, [SearchNext]_<<evars, svars>>
  PROVE  DateInv'
<1>1. CASE UNCHANGED svars
  <2>1. UNCHANGED <<sky, search, window, roll, date>>
    BY <1>1 DEF svars
  <2>2. LookedFor' = LookedFor
    BY <2>1 DEF LookedFor, NoSearch
  <2>3. RollSoon'
    BY <2>1, <2>2, SoonStill DEF DateInv, RollSoon, NoRoll, NoSearch, NoWindow, Purpose
  <2> QED BY <2>1, <2>3 DEF DateInv, DateWithinYear
<1>2. ASSUME NEW from \in Starts, NEW step \in Steps, TargetWindow(from, step) PROVE DateInv'
  BY <1>2 DEF TargetWindow, DateInv, RollSoon, DateWithinYear, NoRoll
<1>3. ASSUME NEW from \in Starts, FindDateForRoll(from) PROVE DateInv'
  <2>1. from \in Int /\ sky \in Skies /\ sky' = sky /\ date' = date
    BY <1>3, SearchSizes DEF SearchInv, FindDateForRoll
  <2>2. search' # NoSearch /\ search'.for.from = from
    BY <1>3 DEF FindDateForRoll, BeginSearch, Search, Purpose, NoSearch
  <2>3. roll'.at = "windows" /\ roll'.from = from /\ roll'.windows = <<>>
    BY <1>3 DEF FindDateForRoll
  <2>4. LookedFor'.from = from
    BY <2>2 DEF LookedFor, NoSearch
  <2>5. Soon(from, from)'
    BY <2>1, FirstSoon, SoonStill
  <2>6. Soon(LookedFor.from, roll.from)'
    BY <2>3, <2>4, <2>5
  <2>7. RollSoon'
    BY <2>2, <2>3, <2>4, <2>6 DEF RollSoon, NoSearch
  <2> QED BY <2>1, <2>7 DEF DateInv, DateWithinYear
<1>4. CASE Searching
  BY <1>4, SearchingKeepsDate, ListWindowKeepsDate, RollKeepsDate DEF Searching
<1> QED BY <1>1, <1>2, <1>3, <1>4 DEF SearchNext, svars

(* DateWithinYear: when moreover a window that closes is followed by       *)
(* another within the year, the date that find_date_for_roll() finds is    *)
(* within a year and a step of the time asked from, also in the second     *)
(* window, which it enters without a look at the year.                     *)
THEOREM DateIsWithinYear ==
  ASSUME FineSteps, LongWindows, WindowsReturn
  PROVE  SearchSpec => []DateWithinYear
<1>1. SearchInit => WindowInv /\ DateInv
  BY DEF SearchInit, WindowInv, NoSearch, DateInv, RollSoon, DateWithinYear, NoDate
<1>2. SearchInv /\ WindowInv /\ DateInv /\ [SearchNext]_<<evars, svars>> => WindowInv' /\ DateInv'
  BY WindowSteps, DateSteps
<1>3. DateInv => DateWithinYear
  BY DEF DateInv
<1> QED BY <1>1, <1>2, <1>3, SearchInvHolds, PTL DEF SearchSpec
=============================================================================
