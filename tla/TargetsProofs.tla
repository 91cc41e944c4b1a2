--------------------------- MODULE TargetsProofs ---------------------------
(***************************************************************************)
(* Proofs about Targets, for all constraint functions, times and lists.    *)
(*                                                                         *)
(* The sun window found last may be in the list that is consolidated or in *)
(* one that took its place: that it counts rests on it being in the list   *)
(* that the target has, whichever that is, and on a function that was just *)
(* consolidated going over that list.                                      *)
(***************************************************************************)
EXTENDS Targets, TLAPS

Sun(w) == Constraint("good", Window({w}))

Constraints ==
  {Constraint(type, f) : type \in TypesInUse, f \in Funcs} \union {Sun(w) : w \in Windows}

ListsTyped ==
  /\ lists \in Seq(Seq(Constraints))
  /\ constraints \in 1 .. Len(lists)
  /\ calc_constraint \in 0 .. Len(lists)
  /\ targ_window \in {<<>>} \union Windows

(* The sun window is among the constraints that the target has. *)
Listed(w) == \E i \in DOMAIN lists[constraints] : lists[constraints][i] = Sun(w)

SunListed == targ_window # <<>> => Listed(targ_window)

GoesOverOwn == last = "consolidated" => calc_constraint = Consolidated

TargetInv == ListsTyped /\ SunListed /\ GoesOverOwn

----------------------------------------------------------------------------
(* Lists *)

LEMMA AppendToAList ==
  ASSUME NEW S, NEW s \in Seq(S), NEW x \in S
  PROVE  /\ Append(s, x) \in Seq(S) /\ Len(Append(s, x)) = Len(s) + 1
         /\ \A i \in DOMAIN s : i \in DOMAIN Append(s, x) /\ Append(s, x)[i] = s[i]
         /\ Append(s, x)[Len(s) + 1] = x
  OBVIOUS

LEMMA FirstOfAList ==
  ASSUME NEW S, NEW s \in Seq(S), NEW x \in S
  PROVE  /\ <<x>> \o s \in Seq(S)
         /\ 1 \in DOMAIN (<<x>> \o s) /\ (<<x>> \o s)[1] = x
  OBVIOUS

LEMMA ReplacedList ==
  ASSUME NEW S, NEW s \in Seq(S), NEW i \in 1 .. Len(s), NEW x \in S
  PROVE  /\ [s EXCEPT ![i] = x] \in Seq(S) /\ Len([s EXCEPT ![i] = x]) = Len(s)
         /\ [s EXCEPT ![i] = x][i] = x
         /\ \A j \in 1 .. Len(s) : j # i => [s EXCEPT ![i] = x][j] = s[j]
  OBVIOUS

----------------------------------------------------------------------------
(* Phases                                                                  *)

LEMMA Remainder ==
  ASSUME NEW y \in Nat \ {0}, NEW m \in Int
  PROVE  m % y \in 0 .. y - 1 /\ m \div y \in Int /\ m = y * (m \div y) + (m % y)
  OBVIOUS

LEMMA RemainderIs ==
  ASSUME NEW y \in Nat \ {0}, NEW q \in Int, NEW r \in 0 .. y - 1
  PROVE  (y * q + r) % y = r
<1> DEFINE m == y * q + r
           d == m \div y
           s == m % y
<1>1. m \in Int /\ y * q \in Int
  OBVIOUS
<1>2. s \in 0 .. y - 1 /\ d \in Int /\ m = y * d + s
  BY <1>1, Remainder
<1>3. y * d + s = y * q + r
  BY <1>2
<1> HIDE DEF m, d, s
<1>4. y * (d - q) = r - s
  BY <1>2, <1>3
<1>5. d - q = 0
  <2>1. CASE d - q >= 1
    <3>1. y * (d - q) >= y
      BY <2>1, <1>2
    <3> QED BY <3>1, <1>4, <1>2
  <2>2. CASE d - q <= -1
    <3>1. y * (d - q) <= -y
      BY <2>2, <1>2
    <3> QED BY <3>1, <1>4, <1>2
  <2> QED BY <2>1, <2>2, <1>2
<1>6. s = r
  BY <1>2, <1>3, <1>5
<1> QED BY <1>6 DEF s, m

(* The phase, in ticks: the remainder of C made positive.                  *)
LEMMA PhaseIs ==
  ASSUME NEW period \in Nat \ {0}, NEW a \in Int
  PROVE  a % period = IF fmod(a, period) < 0 THEN fmod(a, period) + period ELSE fmod(a, period)
<1>1. CASE a >= 0
  <2>1. fmod(a, period) = a % period /\ a % period \in 0 .. period - 1
    BY <1>1, Remainder DEF fmod
  <2> QED
    BY <2>1
<1>2. CASE a < 0
  <2> DEFINE r == (-a) % period
             q == (-a) \div period
  <2>1. fmod(a, period) = -r
    BY <1>2 DEF fmod
  <2>2. r \in 0 .. period - 1 /\ q \in Int /\ -a = period * q + r
    BY Remainder
  <2> HIDE DEF r, q
  <2>3. CASE r = 0
    <3>1. a = period * (-q) + 0 /\ -q \in Int /\ 0 \in 0 .. period - 1
      BY <2>2, <2>3
    <3>2. (period * (-q) + 0) % period = 0
      BY ONLY <3>1, RemainderIs, period \in Nat \ {0}, Zenon
    <3> QED
      BY <2>1, <2>3, <3>1, <3>2
  <2>4. CASE r # 0
    <3>1. a = period * (-q - 1) + (period - r) /\ -q - 1 \in Int /\ period - r \in 0 .. period - 1
      BY <2>2, <2>4
    <3>2. (period * (-q - 1) + (period - r)) % period = period - r
      BY ONLY <3>1, RemainderIs, period \in Nat \ {0}, Zenon
    <3>3. a % period = period - r /\ -r < 0 /\ -r + period = period - r
      BY <2>2, <2>4, <3>1, <3>2
    <3> QED
      BY <2>1, <3>3
  <2> QED
    BY <2>3, <2>4
<1> QED
  BY <1>1, <1>2

(* A time is a whole number of periods and the rest from the ephemeris: it *)
(* is o ticks after a whole number of periods when the rest is o, or o is  *)
(* the rest and a period.                                                  *)
LEMMA TicksAfter ==
  ASSUME NEW period \in Nat \ {0}, NEW a \in Int, NEW o \in 0 .. 2 * period - 1
  PROVE  (a - o) % period = 0 <=> o = a % period \/ o = (a % period) + period
<1> DEFINE ph == a % period
           q  == a \div period
           d  == (a - o) \div period
<1>1. ph \in 0 .. period - 1 /\ q \in Int /\ a = period * q + ph
  BY Remainder
<1>2. ASSUME (a - o) % period = 0 PROVE o = ph \/ o = ph + period
  <2>1. a - o \in Int
    OBVIOUS
  <2>2. d \in Int /\ a - o = period * d + 0
    BY <1>2, <2>1, Remainder
  <2> HIDE DEF ph, q, d
  <2>3. period * (q - d) = o - ph /\ q - d \in Int
    BY <1>1, <2>2
  <2>4. q - d < 2
    <3>1. CASE q - d >= 2
      <4>1. period * (q - d) >= 2 * period
        BY <2>3, <3>1
      <4> QED
        BY <1>1, <2>3, <4>1
    <3> QED
      BY <2>3, <3>1
  <2>5. q - d > -1
    <3>1. CASE q - d <= -1
      <4>1. period * (q - d) <= -period
        BY <2>3, <3>1
      <4> QED
        BY <1>1, <2>3, <4>1
    <3> QED
      BY <2>3, <3>1
  <2>6. q - d = 0 \/ q - d = 1
    BY <2>3, <2>4, <2>5
  <2>7. period * 0 = 0 /\ period * 1 = period
    OBVIOUS
  <2> QED
    BY <1>1, <2>3, <2>6, <2>7
<1>3. ASSUME o = ph \/ o = ph + period PROVE (a - o) % period = 0
  <2> HIDE DEF ph, q
  <2>1. /\ a - o = period * q + 0 \/ a - o = period * (q - 1) + 0
        /\ q \in Int /\ q - 1 \in Int /\ 0 \in 0 .. period - 1
    BY <1>1, <1>3
  <2>2. (period * q + 0) % period = 0 /\ (period * (q - 1) + 0) % period = 0
    BY ONLY <2>1, RemainderIs, period \in Nat \ {0}, Zenon
  <2> QED
    BY <2>1, <2>2
<1> QED
  BY <1>2, <1>3

(* The ranges that _phase() compares with are the times of the range. *)
LEMMA PhaseInRange ==
  ASSUME NEW f, NEW mjd \in Int, f.period \in Nat \ {0}, f.ephemeris \in Int,
         f.min \in 0 .. f.period, f.max \in 0 .. f.period - 1
  PROVE  InRanges(f, mjd) <=> InRangeOf(f, mjd)
<1> DEFINE a  == mjd - f.ephemeris
           ph == a % f.period
           to == f.max + (IF f.max < f.min THEN f.period ELSE 0)
<1>1. a \in Int /\ ph \in 0 .. f.period - 1
  <2>1. a \in Int
    OBVIOUS
  <2> QED
    BY ONLY <2>1, f.period \in Nat \ {0}, Remainder, Zenon
<1>2. ph = IF fmod(a, f.period) < 0 THEN fmod(a, f.period) + f.period ELSE fmod(a, f.period)
  BY <1>1, PhaseIs
<1>3. InRanges(f, mjd) <=> IF f.max < f.min THEN (0 <= ph /\ ph <= f.max) \/ (f.min <= ph /\ ph <= f.period)
                           ELSE f.min <= ph /\ ph <= f.max
  BY <1>2 DEF InRanges
<1>4. InRangeOf(f, mjd) <=> \E o \in f.min .. to : ((mjd - o) - f.ephemeris) % f.period = 0
  BY DEF InRangeOf
<1>5. ASSUME NEW o \in f.min .. to
      PROVE  ((mjd - o) - f.ephemeris) % f.period = 0 <=> o = ph \/ o = ph + f.period
  <2>1. (mjd - o) - f.ephemeris = a - o /\ o \in 0 .. 2 * f.period - 1
    OBVIOUS
  <2>2. (a - o) % f.period = 0 <=> o = ph \/ o = ph + f.period
    BY ONLY <1>1, <2>1, f.period \in Nat \ {0}, TicksAfter, Zenon
  <2> QED
    BY <2>1, <2>2
<1> HIDE DEF ph
<1>6. InRangeOf(f, mjd) <=> ph \in f.min .. to \/ ph + f.period \in f.min .. to
  BY <1>1, <1>4, <1>5
<1> QED
  BY <1>1, <1>3, <1>6

----------------------------------------------------------------------------

LEMMA TargetStarts == TargetInit => TargetInv
<1> SUFFICES ASSUME TargetInit PROVE TargetInv
  OBVIOUS
<1>1. lists \in Seq(Seq(Constraints)) /\ Len(lists) = 1
  <2>1. <<>> \in Seq(Constraints)
    OBVIOUS
  <2> QED BY <2>1 DEF TargetInit
<1> QED BY <1>1 DEF TargetInit, TargetInv, ListsTyped, SunListed, GoesOverOwn, None

(* What a step does to the lists: those there were have their constraints  *)
(* still, each at its place.                                               *)
ListsKept ==
  /\ Len(lists) <= Len(lists')
  /\ \A l \in 1 .. Len(lists) : \A i \in DOMAIN lists[l] :
       i \in DOMAIN lists'[l] /\ lists'[l][i] = lists[l][i]

LEMMA RegisterKeeps ==
  ASSUME TargetInv, NEW type \in Types, NEW f \in Funcs, register_constraint(type, f)
  PROVE  TargetInv' /\ ListsKept
<1>1. ListsTyped /\ UNCHANGED <<constraints, calc_constraint, targ_window>>
      /\ last' \in {"registered", "ValueError"}
  BY DEF TargetInv, register_constraint
<1>2. CASE UNCHANGED lists
  BY <1>1, <1>2 DEF TargetInv, ListsTyped, SunListed, Listed, GoesOverOwn, ListsKept
<1>3. CASE /\ Known(Lowered(type))
           /\ lists' = [lists EXCEPT ![constraints] = Append(@, Constraint(Lowered(type), f))]
  <2> DEFINE c   == Constraint(Lowered(type), f)
             own == lists[constraints]
  <2>1. c \in Constraints
    <3>1. Lowered(type) \in TypesInUse
      BY DEF TypesInUse, Lowered
    <3> QED BY <3>1 DEF Constraints
  <2>2. own \in Seq(Constraints) /\ constraints \in 1 .. Len(lists) /\ lists \in Seq(Seq(Constraints))
    BY <1>1 DEF ListsTyped
  <2> HIDE DEF c
  <2>3. /\ Append(own, c) \in Seq(Constraints)
        /\ \A i \in DOMAIN own : i \in DOMAIN Append(own, c) /\ Append(own, c)[i] = own[i]
    BY <2>1, <2>2, AppendToAList
  <2>4. lists' = [lists EXCEPT ![constraints] = Append(own, c)]
    BY <1>3 DEF c
  <2>5. /\ lists' \in Seq(Seq(Constraints)) /\ Len(lists') = Len(lists)
        /\ lists'[constraints] = Append(own, c)
        /\ \A l \in 1 .. Len(lists) : l # constraints => lists'[l] = lists[l]
    BY <2>2, <2>3, <2>4, ReplacedList
  <2>6. ListsKept
    <3>1. ASSUME NEW l \in 1 .. Len(lists), NEW i \in DOMAIN lists[l]
          PROVE  i \in DOMAIN lists'[l] /\ lists'[l][i] = lists[l][i]
      <4>1. CASE l = constraints
        BY <2>3, <2>5, <3>1, <4>1
      <4>2. CASE l # constraints
        BY <2>5, <3>1, <4>2
      <4> QED BY <4>1, <4>2
    <3> QED BY <2>2, <2>5, <3>1 DEF ListsKept
  <2>7. ListsTyped'
    BY <1>1, <2>5 DEF ListsTyped
  <2>8. SunListed'
    BY <1>1, <2>3, <2>5 DEF TargetInv, SunListed, Listed
  <2> QED BY <1>1, <2>6, <2>7, <2>8 DEF TargetInv, GoesOverOwn
<1> QED BY <1>2, <1>3 DEF register_constraint

(* A sun window goes into a list of its own, or takes the place of the     *)
(* empty one.                                                              *)
LEMMA SetSunKeeps ==
  ASSUME TargetInv, SetSun, calc_constraint' = calc_constraint, last' # "consolidated"
  PROVE  TargetInv' /\ ListsKept
<1>1. PICK w \in Windows : targ_window' = w /\ WithSun(Sun(w))
  BY DEF SetSun, Sun
<1>2. Sun(w) \in Constraints
  BY DEF Constraints
<1>3. /\ lists \in Seq(Seq(Constraints)) /\ constraints \in 1 .. Len(lists)
      /\ lists[constraints] \in Seq(Constraints) /\ calc_constraint \in 0 .. Len(lists)
  BY DEF TargetInv, ListsTyped
<1>4. CASE /\ lists[constraints] = <<>> /\ UNCHANGED constraints
           /\ lists' = [lists EXCEPT ![constraints] = <<Sun(w)>>]
  <2>1. <<Sun(w)>> \in Seq(Constraints) /\ 1 \in DOMAIN <<Sun(w)>> /\ <<Sun(w)>>[1] = Sun(w)
    BY <1>2
  <2>2. /\ lists' \in Seq(Seq(Constraints)) /\ Len(lists') = Len(lists)
        /\ lists'[constraints] = <<Sun(w)>>
        /\ \A l \in 1 .. Len(lists) : l # constraints => lists'[l] = lists[l]
    BY <1>3, <1>4, <2>1, ReplacedList
  <2>3. ListsKept
    BY <1>3, <1>4, <2>2 DEF ListsKept
  <2>4. Listed(w)'
    BY <1>4, <2>1, <2>2 DEF Listed
  <2>5. ListsTyped'
    BY <1>1, <1>3, <1>4, <2>2 DEF ListsTyped
  <2> QED BY <1>1, <2>3, <2>4, <2>5 DEF TargetInv, SunListed, GoesOverOwn
<1>5. CASE lists' = Append(lists, <<Sun(w)>> \o lists[constraints]) /\ constraints' = Len(lists')
  <2> DEFINE new == <<Sun(w)>> \o lists[constraints]
  <2>1. new \in Seq(Constraints) /\ 1 \in DOMAIN new /\ new[1] = Sun(w)
    BY <1>2, <1>3, FirstOfAList
  <2> HIDE DEF new
  <2>2. lists' = Append(lists, new)
    BY <1>5 DEF new
  <2>3. /\ lists' \in Seq(Seq(Constraints)) /\ Len(lists') = Len(lists) + 1
        /\ \A l \in 1 .. Len(lists) : lists'[l] = lists[l]
        /\ lists'[Len(lists) + 1] = new
    BY <1>3, <2>1, <2>2, AppendToAList
  <2>4. ListsKept
    <3>1. Len(lists) \in Nat /\ Len(lists) <= Len(lists')
      BY <1>3, <2>3
    <3> QED BY <2>3, <3>1 DEF ListsKept
  <2>5. Listed(w)'
    BY <1>5, <2>1, <2>3 DEF Listed
  <2>6. ListsTyped'
    BY <1>1, <1>3, <1>5, <2>3 DEF ListsTyped
  <2> QED BY <1>1, <2>4, <2>5, <2>6 DEF TargetInv, SunListed, GoesOverOwn
<1> QED BY <1>1, <1>4, <1>5 DEF WithSun

LEMMA NothingSetKeeps ==
  ASSUME TargetInv, UNCHANGED <<lists, constraints, targ_window, calc_constraint>>,
         last' # "consolidated" \/ last' = last
  PROVE  TargetInv' /\ ListsKept
  BY DEF TargetInv, ListsTyped, SunListed, Listed, GoesOverOwn, Consolidated, ListsKept

LEMMA ConsolidateKeeps ==
  ASSUME TargetInv, consolidate_constraints
  PROVE  TargetInv' /\ ListsKept
  BY DEF consolidate_constraints, TargetInv, ListsTyped, SunListed, Listed, GoesOverOwn,
     Consolidated, None, ListsKept

LEMMA TargetSteps ==
  ASSUME TargetInv, [TargetNext]_tvars
  PROVE  TargetInv' /\ ListsKept
<1>1. CASE UNCHANGED tvars
  BY <1>1, NothingSetKeeps DEF tvars
<1>2. CASE set_sun_constraint
  BY <1>2, SetSunKeeps, NothingSetKeeps DEF set_sun_constraint
<1>3. CASE target_within_window
  BY <1>3, SetSunKeeps, NothingSetKeeps DEF target_within_window
<1> QED BY <1>1, <1>2, <1>3, RegisterKeeps, ConsolidateKeeps DEF TargetNext

LEMMA TargetInvHolds == TargetSpec => []TargetInv
  BY TargetStarts, TargetSteps, PTL DEF TargetSpec

(* The lists that a target has made hold Constraint objects, each of a     *)
(* type in lower case, and the function goes over one of them.             *)
THEOREM TargetTypeCorrect == TargetSpec => []TargetTypeOK
<1>1. TargetInv => TargetTypeOK
  <2> SUFFICES ASSUME TargetInv PROVE TargetTypeOK
    OBVIOUS
  <2>1. ListsTyped
    BY DEF TargetInv
  <2>2. DOMAIN lists = 1 .. Len(lists)
    BY <2>1 DEF ListsTyped
  <2>3. ASSUME NEW l \in DOMAIN lists, NEW i \in DOMAIN lists[l]
        PROVE  lists[l][i] \in Constraints
    BY <2>1, <2>3 DEF ListsTyped
  <2>4. ASSUME NEW c \in Constraints
        PROVE  /\ c.type \in TypesInUse
               /\ c.func \in Funcs \/ \E w \in Windows : c = Sun(w)
    <3>1. "good" \in TypesInUse
      BY DEF TypesInUse
    <3>2. CASE c \in {Constraint(type, f) : type \in TypesInUse, f \in Funcs}
      BY <3>2 DEF Constraint
    <3>3. CASE \E w \in Windows : c = Sun(w)
      BY <3>1, <3>3 DEF Constraint, Sun
    <3> QED BY <3>2, <3>3 DEF Constraints
  <2>5. constraints \in DOMAIN lists /\ calc_constraint \in {None} \union DOMAIN lists
    BY <2>1, <2>2 DEF ListsTyped, None
  <2>6. targ_window \in {<<>>} \union Windows
    BY <2>1 DEF ListsTyped
  <2> QED BY <2>3, <2>4, <2>5, <2>6 DEF TargetTypeOK, Sun
<1> QED BY <1>1, TargetInvHolds, PTL

(* SunWindowCounts: once consolidated, the sun window that Target.py found *)
(* last is kept by the function that the Scheduler is given.               *)
THEOREM SunAlwaysCounts == TargetSpec => []SunWindowCounts
<1>1. TargetInv => SunWindowCounts
  <2> SUFFICES ASSUME TargetInv, last = "consolidated", targ_window # <<>>,
                      NEW mjd \in Mjds, ~bin_is_bad_time(mjd)
               PROVE  targ_window[1] <= mjd /\ mjd <= targ_window[2]
    BY DEF SunWindowCounts
  <2>1. PICK i \in DOMAIN lists[constraints] : lists[constraints][i] = Sun(targ_window)
    BY DEF TargetInv, SunListed, Listed
  <2>2. constraints # None /\ calc_constraint = constraints
    <3>1. constraints \in 1 .. Len(lists) /\ lists \in Seq(Seq(Constraints))
      BY DEF TargetInv, ListsTyped
    <3>2. lists[constraints] # <<>>
      <4>1. SUFFICES ASSUME lists[constraints] = <<>> PROVE FALSE
        OBVIOUS
      <4>2. i \in DOMAIN <<>>
        BY ONLY <2>1, <4>1, Zenon
      <4> QED BY ONLY <4>2
    <3>3. calc_constraint = Consolidated
      BY DEF TargetInv, GoesOverOwn
    <3> QED BY <3>1, <3>2, <3>3 DEF Consolidated, None
  <2>3. ~is_bad_time(Sun(targ_window), mjd)
    BY <2>1, <2>2 DEF bin_is_bad_time
  <2>4. Sun(targ_window).type = "good" /\ Sun(targ_window).func = Window({targ_window})
    BY DEF Sun, Constraint
  <2>5. Holds(Window({targ_window}), mjd)
    BY <2>3, <2>4 DEF is_bad_time
  <2> QED BY <2>5 DEF Holds, Window
<1> QED BY <1>1, TargetInvHolds, PTL

(* ConstraintsKept: a time that a consolidated function calls bad it calls *)
(* bad until the next consolidation, whatever becomes of the lists.        *)
THEOREM NeverRelaxed == TargetSpec => ConstraintsKept
<1>1. ASSUME TargetInv, [TargetNext]_tvars, calc_constraint' = calc_constraint,
             NEW mjd \in Mjds, bin_is_bad_time(mjd)
      PROVE  bin_is_bad_time(mjd)'
  <2>1. ListsKept
    BY <1>1, TargetSteps
  <2>2. PICK i \in DOMAIN lists[calc_constraint] : is_bad_time(lists[calc_constraint][i], mjd)
    BY <1>1 DEF bin_is_bad_time
  <2>3. calc_constraint \in 1 .. Len(lists)
    BY <1>1 DEF TargetInv, ListsTyped, bin_is_bad_time, None
  <2>4. i \in DOMAIN lists'[calc_constraint] /\ lists'[calc_constraint][i] = lists[calc_constraint][i]
    BY <2>1, <2>3 DEF ListsKept
  <2>5. is_bad_time(lists'[calc_constraint][i], mjd)
    BY ONLY <2>2, <2>4, Zenon
  <2>6. is_bad_time(lists'[calc_constraint'][i], mjd) /\ i \in DOMAIN lists'[calc_constraint']
        /\ calc_constraint' # None
    BY <1>1, <2>3, <2>4, <2>5 DEF None
  <2> QED BY ONLY <2>6, Zenon DEF bin_is_bad_time, is_bad_time, Holds, InRanges, fmod, None
<1>2. TargetInv /\ [TargetNext]_tvars =>
        [calc_constraint' = calc_constraint =>
           \A mjd \in Mjds : bin_is_bad_time(mjd) => bin_is_bad_time(mjd)']_tvars
  BY <1>1
<1> QED BY <1>2, TargetInvHolds, PTL DEF TargetSpec, ConstraintsKept

(* PhaseEveryPeriod: a phase constraint of Constraint.py is the same in    *)
(* every period, on both sides of the ephemeris and over the end of a      *)
(* period, for every period and range of phases.                           *)
THEOREM PhasesAlike ==
  ASSUME PhasesOfAPeriod
  PROVE  TargetSpec => []PhaseEveryPeriod
<1>1. TargetInv => PhaseEveryPeriod
  <2> SUFFICES ASSUME TargetInv, NEW i \in DOMAIN lists[constraints],
                      NEW c, c = lists[constraints][i],
                      c.func.kind = "phase", c.type \in {"good", "bad"}, NEW mjd \in Mjds
               PROVE  is_bad_time(c, mjd) = (InRangeOf(c.func, mjd) = (c.type = "bad"))
    BY DEF PhaseEveryPeriod
  <2>1. c \in Constraints
    BY DEF TargetInv, ListsTyped
  <2>2. c.func \in Funcs
    <3>1. CASE c \in {Constraint(type, f) : type \in TypesInUse, f \in Funcs}
      BY <3>1 DEF Constraint
    <3>2. ASSUME NEW w \in Windows, c = Sun(w) PROVE FALSE
      <4>1. c.func.kind = "window"
        BY <3>2 DEF Sun, Constraint, Window
      <4> QED
        BY <4>1
    <3> QED
      BY <2>1, <3>1, <3>2 DEF Constraints
  <2> DEFINE f == c.func
  <2>3. /\ f.period \in Nat \ {0} /\ f.ephemeris \in Int
        /\ f.min \in 0 .. f.period /\ f.max \in 0 .. f.period - 1 /\ mjd \in Int
    BY <2>2, TargetSizes DEF PhasesOfAPeriod
  <2>4. Holds(f, mjd) <=> InRanges(f, mjd)
    BY DEF Holds
  <2>5. InRanges(f, mjd) <=> InRangeOf(f, mjd)
    BY <2>3, PhaseInRange
  <2>6. InRangeOf(f, mjd) \in BOOLEAN /\ Holds(f, mjd) \in BOOLEAN
    BY Zenon DEF InRangeOf, Holds
  <2>7. CASE c.type = "good"
    BY <2>4, <2>5, <2>6, <2>7 DEF is_bad_time
  <2>8. CASE c.type = "bad"
    BY <2>4, <2>5, <2>6, <2>8 DEF is_bad_time
  <2> QED
    BY <2>7, <2>8
<1> QED
  BY <1>1, TargetInvHolds, PTL
=============================================================================
