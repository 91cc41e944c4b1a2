------------------------------ MODULE Wrappers ------------------------------
(***************************************************************************)
(* The extension module Py_sched (C/Py_Sched.c): the orbit, solar-system   *)
(* and attitude libraries that it wraps, each with a read-through cache of *)
(* its own in the one cache manager of CacheOps.  One action is one call   *)
(* from Python, which holds the interpreter for all of it.                 *)
(*                                                                         *)
(* What the astronomy computes is not modelled.  A value is a stamp that   *)
(* says what it is, for which bin of the timeline it was computed, and on  *)
(* which grid; an answer names the stamps it was computed from.  oom names *)
(* the allocation of a call that fails, if one does.                       *)
(***************************************************************************)
EXTENDS CacheOps

CONSTANTS
  Used,          \* the libraries that the caller uses
  Bins,          \* bins for which a caller asks a position; bin b is at mjd b
  Targets,       \* targets that a caller adds
  RowCounts,     \* cache sizes that a caller asks for
  Compressions,  \* <<sun, moon>> factors that a caller gives
  RowRange,      \* 2^32: the values of an unsigned int
  InitBound      \* bound: the slot counter is advanced to InitBound - 1 at most

ASSUME WrapperSizes ==
  /\ Used \subseteq {"orbit", "solar", "attitude"}
  /\ Bins \subseteq Nat
  /\ RowCounts \subseteq 0 .. RowRange - 1
  /\ Compressions \subseteq Nat \X Nat
  /\ RowRange \in Nat /\ \A b \in Bins : b < RowRange - 1
  /\ InitBound \in Nat /\ InitBound < ShortRange

VARIABLES
  cm,      \* the cache manager
  els,     \* _els: "null", "set", or "freed" and still pointed at
  slot,    \* cache_slot of each library
  comp,    \* sun_compression and moon_compression
  fault,   \* "none", or how the process died
  reply    \* the last call and what Python got from it

vars == <<cm, els, slot, comp, fault, reply>>

Libraries == {"orbit", "solar", "attitude"}

NoRow == RowRange - 1     \* -1 as an unsigned int

Stamps ==
  [kind : {"satpos", "polar", "sun", "raw_sun", "moon", "target"},
   of : Bins \union Targets, grid : {1} \union UNION {{c[1], c[2]} : c \in Compressions}]

Stamp(kind, of, grid) == [kind |-> kind, of |-> of, grid |-> grid]

(* A pointer to a table is not the null pointer. *)
ASSUME NullIsNoTable ==
  \A n \in RowCounts, m \in {1, 2} :
    NULL \notin [0 .. n - 1 -> [0 .. m - 1 -> Stamps \union {NULL}]]

(* What an uninitialised AtPolarVect holds *)
Junk == Stamp("junk", 0, 1)

(* Columns of the caches *)
NCols == [orbit |-> 2, solar |-> 2, attitude |-> 1]
SatposCol  == 0
PolarColShared == 0   \* mutant of PolarCol
PolarCol   == 1
SunCol     == 0
MoonCol    == 1
TargetsCol == 0

----------------------------------------------------------------------------
(* A C function called with the manager m yields its status, the stamps    *)
(* that its result is made of, the manager after it, and how it died.      *)

Outcome(status, used, m, died) ==
  [status |-> status, used |-> used, m |-> m, died |-> died]

Refused(m) == Outcome(-1, {}, m, "none")
Served(used, m) == Outcome(0, used, m, "none")

CellOf(m, lib, row, col) == CacheRetrieve(m, AsUShort(slot[lib]), row, col)

Store(m, lib, row, col, stamp) == CachePut(m, AsUShort(slot[lib]), row, col, stamp)

(* Mutants of SatPos: an error of the cache is taken for a miss; the row   *)
(* is not passed on.                                                       *)
SatPosAnyStatus(m, b, row, oom) ==
  LET found == CellOf(m, "orbit", row, SatposCol)
      fresh == Stamp("satpos", b, 1)
  IN  IF els = "null"          THEN Refused(m)
      ELSE IF found.val # NULL THEN Served({found.val}, m)
      ELSE IF els = "freed"    THEN Outcome(-1, {}, m, "use_after_free")
      ELSE IF oom = "satpos"   THEN Refused(m)
      ELSE Served({fresh}, Store(m, "orbit", row, SatposCol, fresh))

SatPosRowZero(m, b, row, oom) ==
  LET found == CellOf(m, "orbit", row, SatposCol)
      fresh == Stamp("satpos", b, 1)
  IN  IF els = "null" \/ found.status = -1 THEN Refused(m)
      ELSE IF found.val # NULL             THEN Served({found.val}, m)
      ELSE Served({fresh}, Store(m, "orbit", 0, SatposCol, fresh))

(* _atSatPos3() *)
SatPos(m, b, row, oom) ==
  LET found == CellOf(m, "orbit", row, SatposCol)
      fresh == Stamp("satpos", b, 1)
  IN  IF els = "null" \/ found.status = -1 THEN Refused(m)
      ELSE IF found.val # NULL             THEN Served({found.val}, m)
      ELSE IF els = "freed"                THEN Outcome(-1, {}, m, "use_after_free")
      ELSE IF oom = "satpos"               THEN Refused(m)
      ELSE Served({fresh}, Store(m, "orbit", row, SatposCol, fresh))

(* _atGeodetic() and _atGeodcr(): what they do to the position is not modelled. *)
Geodetic(m, b, row, oom) == SatPos(m, b, row, oom)

(* Mutant of Polar: the vector is cached again after a hit.                *)
PolarRecached(m, b, row, oom) ==
  LET found == CellOf(m, "orbit", row, PolarCol)
      geod  == Geodetic(m, b, row, oom)
  IN  IF found.status = -1     THEN Refused(m)
      ELSE IF found.val # NULL THEN Served({Junk}, Store(m, "orbit", row, PolarCol, Junk))
      ELSE IF geod.status = -1 THEN geod
      ELSE Served(geod.used, Store(geod.m, "orbit", row, PolarCol,
                                   CHOOSE s \in geod.used : TRUE))

(* _pvGeodetic(): a hit copies into an argument passed by value, so the    *)
(* caller's vector keeps what was on the stack.  A vector that cannot be   *)
(* allocated is stored as NULL, and the answer is good.                    *)
Polar(m, b, row, oom) ==
  LET found == CellOf(m, "orbit", row, PolarCol)
      geod  == Geodetic(m, b, row, oom)
      fresh == Stamp("polar", (CHOOSE s \in geod.used : TRUE).of, 1)
  IN  IF found.status = -1     THEN Refused(m)
      ELSE IF found.val # NULL THEN Served({Junk}, m)
      ELSE IF geod.status = -1 THEN geod
      ELSE Served({fresh}, Store(geod.m, "orbit", row, PolarCol,
                                 IF oom = "polar" THEN NULL ELSE fresh))

(* _atMoon() *)
Moon(m, b, row, oom) ==
  LET r     == row \div comp.moon
      found == CellOf(m, "solar", r, MoonCol)
      fresh == Stamp("moon", b, comp.moon)
  IN  IF comp.moon = 0             THEN Outcome(-1, {}, m, "div_by_zero")
      ELSE IF found.status = -1    THEN Refused(m)
      ELSE IF found.val # NULL     THEN Served({found.val}, m)
      ELSE IF oom = "moon"         THEN Refused(m)
      ELSE Served({fresh}, Store(m, "solar", r, MoonCol, fresh))

(* Mutants of Sun: a hit is not looked for; the factor is the moon's.      *)
SunRecomputed(m, b, row, oom) ==
  LET r     == row \div comp.sun
      fresh == Stamp("sun", b, comp.sun)
  IN  IF row = NoRow \/ comp.sun = 0 \/ CellOf(m, "solar", r, SunCol).status = -1
        THEN Refused(m)
        ELSE Served({fresh}, Store(m, "solar", r, SunCol, fresh))

SunByMoonFactor(m, b, row, oom) ==
  LET r     == row \div comp.moon
      found == CellOf(m, "solar", r, SunCol)
      fresh == Stamp("sun", b, comp.sun)
  IN  IF row = NoRow \/ comp.sun = 0 \/ comp.moon = 0 \/ found.status = -1
        THEN Refused(m)
      ELSE IF found.val # NULL THEN Served({found.val}, m)
      ELSE Served({fresh}, Store(m, "solar", r, SunCol, fresh))

(* _atSun() and _atSun_withCache(): row -1 bypasses the cache, and leaves  *)
(* the vector un-normalised.                                               *)
Sun(m, b, row, oom) ==
  LET r     == row \div comp.sun
      found == CellOf(m, "solar", r, SunCol)
      fresh == Stamp("sun", b, comp.sun)
  IN  IF row = NoRow               THEN Served({Stamp("raw_sun", b, 1)}, m)
      ELSE IF comp.sun = 0         THEN Outcome(-1, {}, m, "div_by_zero")
      ELSE IF found.status = -1    THEN Refused(m)
      ELSE IF found.val # NULL     THEN Served({found.val}, m)
      ELSE IF oom = "sun"          THEN Refused(m)
      ELSE Served({fresh}, Store(m, "solar", r, SunCol, fresh))

(* Mutant of Elevation: the sun is asked for past its cache.               *)
ElevationSunUncached(m, b, row, trow, oom) ==
  LET sat  == SatPos(m, b, row, oom)
      sun  == Sun(sat.m, b, NoRow, oom)
      targ == CellOf(sun.m, "attitude", trow, TargetsCol)
  IN  IF sat.status = -1       THEN sat
      ELSE IF sun.status = -1  THEN sun
      ELSE IF targ.val = NULL  THEN Refused(sun.m)
      ELSE Served(sat.used \union sun.used \union {targ.val}, sun.m)

(* _atEarthOccult() and _atEarthElev(): satellite, then sun, then target;  *)
(* a failure keeps what the earlier calls have cached.                     *)
Elevation(m, b, row, trow, oom) ==
  LET sat  == SatPos(m, b, row, oom)
      sun  == Sun(sat.m, b, row, oom)
      targ == CellOf(sun.m, "attitude", trow, TargetsCol)
  IN  IF sat.status = -1       THEN sat
      ELSE IF sun.status = -1  THEN sun
      ELSE IF targ.val = NULL  THEN Refused(sun.m)
      ELSE Served(sat.used \union sun.used \union {targ.val}, sun.m)

(* targ_init() *)
AddTarget(m, t, trow, oom) ==
  LET found == CellOf(m, "attitude", trow, TargetsCol)
      fresh == Stamp("target", t, 1)
  IN  IF found.status = -1 \/ found.val # NULL \/ oom = "target"
        THEN Refused(m)
        ELSE Served({fresh}, Store(m, "attitude", trow, TargetsCol, fresh))

----------------------------------------------------------------------------

Init ==
  /\ cm = EmptyManager
  /\ els = "null"
  /\ slot = [l \in Libraries |-> -1]
  /\ comp = [sun |-> 1, moon |-> 1]
  /\ fault = "none"
  /\ reply = [call |-> "import", of |-> 0, row |-> 0, status |-> 0, used |-> {}]

Reply(call, of, row, status, used) ==
  reply' = [call |-> call, of |-> of, row |-> row, status |-> status, used |-> used]

(* cache_slot of a library takes whatever cache_init() returns; the caller *)
(* of the library is told that all is well.                                *)
MakeCache(call, lib, rows, oom) ==
  /\ NextSlot(cm) < InitBound
  /\ cm' = CacheInit(cm, rows, NCols[lib], oom # "cache")
  /\ slot' = [slot EXCEPT ![lib] = CacheInitResult(cm, rows, NCols[lib], oom # "cache")]
  /\ fault' = IF CacheInitOutcome(cm, rows, NCols[lib], oom # "cache") = "overrun"
                THEN "oob_write" ELSE "none"
  /\ Reply(call, 0, 0, 0, {})

InitRefused(call) ==
  /\ Reply(call, 0, 0, -1, {})
  /\ UNCHANGED <<cm, slot, fault>>

(* _orbit_wrappers_init(): atSetElement3() succeeds if elements, and       *)
(* atRigSet(), called when a table is given, if rigidity.                  *)
py_atOrbInit(rows, elements, rigidity, oom) ==
  /\ fault = "none"
  /\ UNCHANGED comp
  /\ \/ els # "null" /\ InitRefused("orbit_init") /\ UNCHANGED els
     \/ els = "null" /\ oom = "els" /\ InitRefused("orbit_init") /\ UNCHANGED els
     \/ /\ els = "null" /\ oom # "els"
        /\ \/ ~elements /\ els' = "freed" /\ InitRefused("orbit_init")
           \/ elements /\ ~rigidity /\ els' = "set" /\ InitRefused("orbit_init")
           \/ elements /\ rigidity /\ els' = "set" /\ MakeCache("orbit_init", "orbit", rows, oom)

(* _solar_system_wrappers_init(): the factors are set first of all.        *)
py_atSSInit(c, rows, oom) ==
  /\ fault = "none"
  /\ comp' = [sun |-> c[1], moon |-> c[2]]
  /\ UNCHANGED els
  /\ IF slot["solar"] # -1
       THEN InitRefused("solar_init")
       ELSE MakeCache("solar_init", "solar", rows, oom)

(* attitude_wrappers_init() *)
py_atAttInit(rows, oom) ==
  /\ fault = "none"
  /\ UNCHANGED <<els, comp>>
  /\ IF slot["attitude"] # -1
       THEN InitRefused("attitude_init")
       ELSE MakeCache("attitude_init", "attitude", rows, oom)

(* A call that asks for something: it raises if the C function failed or,  *)
(* after it, the library function that works on its result did.            *)
Ask(call, of, row, o, at_ok) ==
  /\ fault = "none"
  /\ cm' = o.m
  /\ fault' = o.died
  /\ IF o.status = 0 /\ at_ok
       THEN Reply(call, of, row, 0, o.used)
       ELSE Reply(call, of, row, -1, {})
  /\ UNCHANGED <<els, slot, comp>>

py_atSatPos3(b, row, oom)  == Ask("satpos", b, row, SatPos(cm, b, row, oom), TRUE)
py_atGeodetic(b, row, oom) == Ask("geodetic", b, row, Geodetic(cm, b, row, oom), TRUE)
py_atGeodcr(b, row, oom)   == Ask("geodetic", b, row, Geodetic(cm, b, row, oom), TRUE)
py_pvGeodetic(b, row, oom) == Ask("polar", b, row, Polar(cm, b, row, oom), TRUE)
py_atSaa(b, row, oom)      == Ask("saa", b, row, Polar(cm, b, row, oom), TRUE)
py_atRigidity(b, row, oom, at_ok) ==
  Ask("rigidity", b, row, Polar(cm, b, row, oom), at_ok)
py_sun_ra_dec(b, row, oom)  == Ask("sun", b, row, Sun(cm, b, row, oom), TRUE)
py_moon_ra_dec(b, row, oom) == Ask("moon", b, row, Moon(cm, b, row, oom), TRUE)
py_atEarthOccult(b, row, trow, oom) ==
  Ask("elevation", b, trow, Elevation(cm, b, row, trow, oom), TRUE)
py_atEarthElev(b, row, trow, oom, at_ok) ==
  Ask("elevation", b, trow, Elevation(cm, b, row, trow, oom), at_ok)
py_addTarget(t, trow, oom) == Ask("add_target", t, trow, AddTarget(cm, t, trow, oom), TRUE)

TargetRows == UNION {0 .. n : n \in RowCounts}

(* A caller asks for bin b in the row of bin b, or past the cache.         *)
OrbitCall ==
  \/ \E rows \in RowCounts, elements \in BOOLEAN, rigidity \in BOOLEAN,
        oom \in {"none", "els", "cache"} : py_atOrbInit(rows, elements, rigidity, oom)
  \/ \E b \in Bins : \E row \in {b, NoRow} :
       \/ \E oom \in {"none", "satpos"} : \/ py_atSatPos3(b, row, oom)
                                          \/ py_atGeodetic(b, row, oom)
                                          \/ py_atGeodcr(b, row, oom)
       \/ \E oom \in {"none", "satpos", "polar"} :
            \/ py_pvGeodetic(b, row, oom)
            \/ py_atSaa(b, row, oom)
            \/ \E at_ok \in BOOLEAN : py_atRigidity(b, row, oom, at_ok)

SolarCall ==
  \/ \E c \in Compressions, rows \in RowCounts, oom \in {"none", "cache"} :
       py_atSSInit(c, rows, oom)
  \/ \E b \in Bins : \E row \in {b, NoRow} :
       \/ \E oom \in {"none", "sun"} : py_sun_ra_dec(b, row, oom)
       \/ \E oom \in {"none", "moon"} : py_moon_ra_dec(b, row, oom)

AttitudeCall ==
  \/ \E rows \in RowCounts, oom \in {"none", "cache"} : py_atAttInit(rows, oom)
  \/ \E t \in Targets, trow \in TargetRows, oom \in {"none", "target"} :
       py_addTarget(t, trow, oom)
  \/ \E b \in Bins : \E row \in {b, NoRow}, trow \in TargetRows,
        oom \in {"none", "satpos", "sun"} :
       \/ py_atEarthOccult(b, row, trow, oom)
       \/ \E at_ok \in BOOLEAN : py_atEarthElev(b, row, trow, oom, at_ok)

Next ==
  \/ "orbit"    \in Used /\ OrbitCall
  \/ "solar"    \in Used /\ SolarCall
  \/ "attitude" \in Used /\ AttitudeCall

Spec == Init /\ [][Next]_vars

----------------------------------------------------------------------------

TypeOK ==
  /\ IsManager(cm, RowCounts \ {0}, {1, 2}, Stamps)
  /\ els \in {"null", "set", "freed"}
  /\ slot \in [Libraries -> Slots \union {-1}]
  /\ comp \in [sun : Nat, moon : Nat]
  /\ fault \in {"none", "oob_write", "use_after_free", "div_by_zero"}
  /\ reply.status \in {0, -1} /\ reply.used \subseteq Stamps \union {Junk}

Cell(lib, row, col) == CellOf(cm, lib, row, col).val
CacheRows == UNION {0 .. n - 1 : n \in RowCounts}

(* The three libraries take their caches from one manager and name the     *)
(* columns themselves: no library ever finds in a cell what it did not put *)
(* there itself, though any of the cache_init() calls may have failed.     *)
LibrariesApart ==
  \A row \in CacheRows : \A col \in {0, 1} :
    \A lib \in Libraries :
      Cell(lib, row, col) # NULL =>
        Cell(lib, row, col).kind =
          CASE lib = "orbit"    -> (IF col = SatposCol THEN "satpos" ELSE "polar")
            [] lib = "solar"    -> (IF col = SunCol THEN "sun" ELSE "moon")
            [] lib = "attitude" -> "target"

(* A failed atSetElement3() frees the elements and leaves _els pointing at *)
(* them (C/orbit_wrappers.c:47-50).  Nobody ever reads them, in whatever   *)
(* order initialisations fail and are retried, since the library has no    *)
(* cache then and every call looks in the cache first.                     *)
FreedElementsUnused ==
  /\ fault # "use_after_free"
  /\ els = "freed" => slot["orbit"] = -1

(* Once cached, a value stays: no call overwrites it, whose memory nobody  *)
(* would free, and no failed or repeated initialisation takes it away.     *)
CachedValuesStay ==
  [][\A lib \in Libraries, row \in CacheRows, col \in {0, 1} :
       Cell(lib, row, col) # NULL => Cell(lib, row, col)' = Cell(lib, row, col)]_vars

(* An answer about the satellite is computed for the bin that was asked,   *)
(* hit or miss, unless it comes from a hit on the polar vectors.           *)
SatelliteOfItsBin ==
  reply.call \in {"satpos", "geodetic", "polar", "saa", "rigidity", "elevation"} =>
    \A s \in reply.used : s.kind \in {"satpos", "polar"} => s.of = reply.of

(* The sun that an answer is made of is that of the group of bins asked    *)
(* for, as the sun factor of now groups them: on a hit too, and however    *)
(* often the factor was changed and changed back.  The exception is a row  *)
(* filled under another factor, which a refused initialisation leaves      *)
(* filled (C/solar_system_wrappers.c:42-49): its sun is on the grid of     *)
(* then, and may be of a group that was not asked for.  A sun computed     *)
(* past the cache is that of the bin itself.                               *)
SunOfItsGroup ==
  \A s \in reply.used :
    /\ s.kind = "sun" /\ s.grid = comp.sun =>
         s.of \div comp.sun = reply.of \div comp.sun
    /\ s.kind = "raw_sun" => s.of = reply.of

(* An occultation is computed from three vectors: one of the satellite,    *)
(* one of the sun, and one of the target.  The sun is never the vector of  *)
(* row -1, which nobody normalises: the satellite is asked for first, and  *)
(* its cache has no such row (C/attitude_wrappers.c:103-110).              *)
OccultationInputs ==
  reply.call = "elevation" /\ reply.status = 0 =>
    {s.kind : s \in reply.used} = {"satpos", "sun", "target"}

----------------------------------------------------------------------------
(* What the comments say and the code does not do.                         *)

(* C/orbit_wrappers.c:181 "The calculated saa flag is returned via the     *)
(* (input) pointer *saa_flag": the flag is calculated from the position.   *)
SaaFlagCalculated ==
  reply.call = "saa" /\ reply.status = 0 => Junk \notin reply.used
============================================================================
