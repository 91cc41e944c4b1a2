# pytako: models, checks and proofs

pytako schedules observations of a low-earth-orbit satellite. It has three
layers: C libraries that compute positions and cache them bin by bin
(`C/*.c`), Python classes that scan a timeline for the bins in which a target
can be observed (`Py_Tako.py`, with `Target.py` and `Constraint.py`), and a
small Tk program (`new_tako1.py`). This directory holds TLA+ modules of the
parts that keep state, the TLC configurations that check them, and proofs
about them. Source paths are relative to the root of the repository; the
astronomy itself is never modelled.

## 1. Inventory

| Component | State it keeps | Operations | Called by |
|---|---|---|---|
| Cache manager, `C/cache.c` | `full_cache`, `nrows`, `ncols`, `next_cache` (static, one per process) | `cache_init`, `cache_put`, `cache_retrieve`, `cache_destroy`, `cache_full_cache_destroy` | the three libraries |
| Orbit library, `C/orbit_wrappers.c` | `_els`, `cache_slot` | `_orbit_wrappers_init`, `_atSatPos3`, `_atGeodetic`, `_pvGeodetic`, `_atSaa`, `_atRigidity`, `_atGeodcr` | `C/Py_Sched.c`, attitude library |
| Solar-system library, `C/solar_system_wrappers.c` | compression factors, `cache_slot` | `_solar_system_wrappers_init`, `_atSun`, `_atMoon` | `C/Py_Sched.c`, attitude library |
| Attitude library, `C/attitude_wrappers.c` | `cache_slot` | `attitude_wrappers_init`, `targ_init`, `_atEarthOccult`, `_atEarthElev` | `C/Py_Sched.c` |
| Extension module, `C/Py_Sched.c` | none | one Python function per library function | `Py_Tako.py` |
| Older extension modules, `C/_Py_*.c` | none | the same functions, a module per library | nothing in the repository |
| Scheduler and Timeline, `Py_Tako.py` | `open_intervals`, `current_mjd`, `current_target_pointer`, `cache["saa"]`, `cache["occult"]` | `register_target`, `schedule_target`, `schedule_targetFirst` | `new_tako1.py` |
| Constraints, `Constraint.py`, `Target.py` | a target's constraints, its sun window, its consolidated constraint function | `set_sun_constraint`, `consolidate_constraints`, `register_constraint`, `target_within_window` | `new_tako1.py`; called back by the Scheduler |
| Target view, `TargetSun_py3.py` | the last angles computed | window, roll and date searches | `Target.py` |
| Ephemeris, `solarSystem_py3.py`, `SSOtable_py3.py` | module globals `jd`, `t`, `T`, registered bodies | positions of bodies | `TargetSun_py3.py` |
| Date tools, `dateTools_py3.py` | none | mjd to date and back | `new_tako1.py` |
| Vector algebra and formatting, `CoordinateTransforms_py3.py`, `generic_py3.py` | none | matrices, angles to text | target view |
| Program, `new_tako1.py`, `list_boxes.py` | `already_done`, the two list boxes, `out_sched.save` | double click, Save | the user |
| `atFunctions/`, `cfitsio/`, `SolarSystemVanFlandern/` | - | vendored libraries and data | the C libraries, ephemeris |

What each has to get right:

* **Cache manager**: a pointer is in at most one cell and stays alive while it
  is there; a slot is handed to one client; a client gets back what it put.
  Hard: an allocation that fails half way, destroying twice, the limit.
* **Libraries**: a value answered for a bin was computed for that bin, hit or
  miss; a failed initialisation leaves no pointer that is used later; no
  library reads the cell of another. Hard: hits and misses take different
  paths, values flow from one library to another, factors change under a
  filled cache.
* **Scheduler**: the clock (in days) and the timeline (in bins) are one
  position; the exposure of a target is found in bins that are free, as early
  as possible; cached answers belong to their bin. Hard: exceptions in the
  middle of a scan, caches shared by all scans, the ends of the timeline.
* **Program**: the list box is the schedule, whatever a callback did before it
  raised; a target is tried once, under a number of its own.
* **Constraints**: no bin outside the sun window counts for a target; a
  constraint function that was consolidated is never relaxed; a phase
  constraint holds in every period alike. Hard: the function shares the list
  object of the target, or not; types are matched as substrings.
* **Target view**: a window that is found is the next window of the sky, and a
  date that is found is in one. Hard: a search refines itself by steps back,
  over an ephemeris that answers for a time near the one asked.
* **Ephemeris**: everything in a position is computed for one time, that asked
  to within an hour. Hard: bodies share the arguments and the time, and are
  registered at any moment.
* **Date tools**: a date converts to a day and back. Hard: ends of years,
  centuries and Februaries.

Concurrency is little: there is one thread, C code holds the interpreter, Tk
runs one callback at a time. The hazards are sequences of calls, partial
failure and stale caches, which is where the properties are aimed. The list,
with the line where each bites, is in `PROJECT.json` under `hazards`.

## 2. Modules

| Module | Models | Built on |
|---|---|---|
| `CacheOps` | `cache.c` as operators on a record: `full`, `nrows`, `ncols`, `next` | - |
| `CacheStore` | what `cache.h` promises: handles, cells, last value put | - |
| `Cache` | `cache.c` as a library with a client: heap, ownership, faults; the refinement mapping to `CacheStore` | `CacheOps`, `CacheStore` |
| `CacheOpsProofs` | what each operator of `CacheOps` keeps, changes and returns | `CacheOps`, TLAPS |
| `CacheProofs` | proofs about `Cache`: types, slots, ownership, faults, refinement | `Cache`, `CacheOpsProofs` |
| `Wrappers` | the three libraries and `Py_Sched.c` over one cache manager | `CacheOps` |
| `MCWrappers` | TLC instances of `Wrappers` | `Wrappers` |
| `WrappersProofs` | proofs of all safety properties of `Wrappers` | `Wrappers`, `CacheOpsProofs` |
| `Scheduler` | `Scheduler` and `Timeline` of `Py_Tako.py` | - |
| `SchedulerProofs` | proofs about `Scheduler`: types, clock, caches, exposures | `Scheduler`, TLAPS |
| `Tako` | `new_tako1.py` with the sun window of `Target.py` and `Constraint.py`, over the Scheduler | `Scheduler` |
| `ObservingPlan` | what the program promises to its user: a plan of abutting observations | - |
| `MCTako` | TLC instance of `Tako` | `Tako` |
| `TakoProofs` | proofs about `Tako`, its refinement of `ObservingPlan` included | `Tako`, `SchedulerProofs` |
| `Targets` | `Target.py` and `Constraint.py`: lists of constraints, the consolidated function | - |
| `MCTargets` | TLC instance of `Targets` | `Targets` |
| `TargetsProofs` | proofs about `Targets`: types, the sun window, constraints kept, phases | `Targets`, TLAPS |
| `Ephemeris` | `solarSystem_py3.py`: bodies, arguments and the time they share | - |
| `WindowSearch` | the searches of `TargetSun_py3.py`, over the ephemeris | `Ephemeris` |
| `MCWindowSearch` | TLC instance of `WindowSearch`: names and skies | `WindowSearch` |
| `WindowSearchProofs` | proofs about the ephemeris and about what the searches over it find | `WindowSearch`, TLAPS |
| `Dates` | `atMJulian()` and `atMJDate()`, against a calendar that counts days | - |
| `DatesProofs` | proofs about `atMJulian()` and `atMJDate()` | `Dates`, TLAPS |

### Cache

`cm.full[s]` is a function from rows to functions from columns to pointers, or
NULL. The slots are `0 .. MaxCaches - 1`. `next_cache` is an unsigned short whose -1 means that none exists,
which is why `NoCache == ShortRange - 1` and the counter wraps. `cache_init`
takes an argument `memory` that says whether all of its allocations succeed;
when one fails the slot number stays consumed, as in the code. A client
allocates pointers, puts them, may free what it still owns, and destroys slots
by number; it does not free what is cached, and none of the three libraries
does (`targ_init()` alone frees anything, the target that could not be put). Undefined behaviour ends the process: `fault` says how, every action
requires `fault = "none"`, and the properties say which faults can happen.

`CacheStore` knows neither a counter nor tables. `StoreOfPointers` maps the
slots handed out to its handles and the contents of the tables to its set of
stored cells, so that every call of `cache.c` is a step of the promise.

### Wrappers

One action is one call from Python. A C function is an operator that takes the
manager and yields status, the *stamps* its result is made of, the manager
after it, and how the process died if it did. A stamp replaces a vector: its
kind, the bin it was computed for, and the compression it was computed with.
`Junk` is the content of a polar vector that was never assigned. The parameter
`oom` names the one allocation of a call that fails. Mathematical library
calls that can fail do so nondeterministically (`at_ok`, `elements`,
`rigidity`); those that always return success have no such choice.

A caller asks for bin b in row b, as the Scheduler does, or in row -1. What a
caller gets who asks for one bin in the row of another is not modelled.

`SunOfItsGroup` compares the sun of an answer with the bin that was asked for,
under the factor of now, so it is about hits and about factors that were changed
and changed back too. It has one exception, which its comment names: a second
initialisation sets the factors before it is refused, and the rows filled until
then keep the suns of their old groups. Such a row answers with the sun of
another group of bins, and nothing in the code says what it should answer.

### Scheduler

Time is counted in ticks since `mjdStart`. A call of `schedule_target()` or
`schedule_targetFirst()` is a start action, one step per question of the loop
(`TakeBin`: the constraint; `in_saa`; `targ_occulted`), and an end action. The
C code's answers are nondeterministic (`sky`), so is its failure (`c_ok`); what
it remembers is modelled where the Python code depends on it: the targets in
its cache (`registered`) and the bins whose polar vector it has (`polar`),
because a second SAA question for such a bin is answered from garbage. Python
indexing is modelled as it works: from the end for a negative index, an
IndexError past either end. The generator `_next_bin()` yields its end bin too.

The field `at` of a cached answer, `spent`, `last`, and `counted` and `blocked`
of a scan are records of what happened: no guard reads them.

Left out: float rounding of times (except where it decides, in `Tako`),
`Timeline.unordered_access()` and `Scheduler.bin_to_mjd()`, which nothing
calls, and a second Scheduler in the same process (its initialisation is
refused by the C libraries, which `Wrappers` models).

### Tako

A double click runs `_sched()` in steps, each of which may raise and so end the
callback: the search for the sun window, registration, the scan, the line for
the list box. The constraint of the scan is the window test of `Constraint.py`.
An observation of one bin has the same start and end; the efficiency then
divides by zero and the line is not inserted, unless rounding makes the two
times differ, which for bin 0 it cannot: `List(rounding)`. `BoxIsSchedule` says
that the list box leaves out no time of the schedule, and so no observation that
moved the scheduler's clock. An observation of one bin moves nothing: it is
placed, may never be listed, and `BoxIsSchedule` does not speak of it.

`ObservingPlan` knows no scheduler: targets are tried once, an observation of
the target being tried begins where the plan ends and has the bins that count
for it inside, or the target is given up. `Plan` maps it to the list box
(`plan`), `already_done` (`tried`) and the row of the callback in progress
(`pending`, -1 for none).

### Targets

The Python list objects are kept apart: `lists` are those made, `constraints`
says which one the target has, `calc_constraint` which one the consolidated
function goes over. A sun constraint is put into the list when it is empty and
otherwise in front of a new one (`WithSun`), so what is registered after a
consolidation counts or does not count by where the target's list came from.
`target_within_window()` tests and reads an attribute that nothing sets, so it
searches for the window each time, adds a constraint and then raises, which is
its action. The type of a constraint is put in lower case (`Lowered`) and tested
as a part of one of two words (`Known`), so that "goo" passes the test: the run
`constraint_types` shows it. Times are integers and phases are ticks of a period; `fmod` keeps
the sign of the dividend, as C has it. The reference for a phase
(`InRangeOf`) is stated without remainders of signed numbers and without
splitting a range.

### Ephemeris

A number is replaced by the time it was computed for: `argument` is a function
from the fundamental arguments to times, `T` and `t` are the centuries and days
of the module. A body is the set of arguments in its series; what is computed
from them is left out. A table that cannot be opened is a SystemExit, before
anything is registered.

### WindowSearch

One look at the sun is one step, and goes through `Position`, so that it may be
answered for a time up to `epsilon` away. The target's sky is a function of the
time of the year, that says whether |90 - angle| is below, at or beyond the
limit: the three results of the comparisons in the code. The finest step the
code looks with is a tick, and `one_minute` is less than that. The searches for
a date go over the one or two windows found, day by day; the roll angle and its
limits are a nondeterministic answer (`RollInfo`), which may also be the
exception of an `acos()` whose argument is out of its domain.

Two facts that the module makes visible. The opening returned is one finest
step before the first time at which the target was seen observable, and the
search for the closing starts there: it is not over at once only because the
ephemeris answers that first look with the time it was last asked for. And when
another body was asked about at a time just before, the first look is
answered for that time; `fresh` records that the first look was of the time
asked, and `NextWindowFound` speaks of those searches.

### Dates

The functions have no state, so the machine of the module is the calendar: it
goes from a day to the next by the names of the months, and the properties hold
the functions against it. `YearOf` is the first loop of `atMJDate()`, as a
recursive function of the year that is tried. `DateInYear` is the second: `DayLeft` is
what is left of the day of the year when the loop looks at a month, and the month
is the first that is longer than that.

## 3. Runs

| Run | Question | Instance |
|---|---|---|
| `cache` | types; pointers cached once and alive; only explained faults; what shutdown leaves; slots handed out once; refinement of `CacheStore` | 2 slots, 2 pointers, rows 0-2, columns 0-1 |
| `positions` | types; freed elements unused; satellite of the bin that was asked; sun of the group of bins that was asked; cached values stay | 3 bins, row counts 0 and 2, factors 0, 1, 2 changing between calls; the orbit or the solar-system library |
| `libraries` | no library finds the value of another; an occultation has its three vectors | all three libraries, 1 bin, 2 targets |
| `scheduler` | types; clock on timeline; exposures delivered; no interval overrun; answers of their bin; every scan ends | 2 bins of 2 ticks, 1 row for targets, exposures 1-2, calls of both kinds, from times off the bins too |
| `tako` | types; the box leaves out no time of the schedule; one number per target; bins counted in the sun window; the plan is kept; exposures when the program drives the scheduler; every click ends | 3 targets, 2 rows for targets, 3 bins, windows that open late or close early |
| `targets` | types; a sun window that was found counts; phases of every period; consolidated functions never relaxed | 14 times, windows and phases, 3 list objects of up to 4 constraints |
| `search` | types; positions of one time; the next window found; dates observable and within the year; searches end | years of 60 ticks, steps of 6 and 1, two windows a year at each place on the grid of steps, and a sky that is always observable |
| `dates` | `atMJulian()` and `atMJDate()` agree with the calendar | every day from 17 November 1858 to mid 2072 |
| `cache_overrun` | *violation*: more caches than MAX_CACHES are written | |
| `saa_flag` | *violation*: the SAA flag is calculated from an unset vector | |
| `bins_spent` | *violation*: a bin counts for two targets | |
| `constraint_types` | *violation*: a constraint of another type than good and bad is registered | |

The four violations are described in `PROJECT.json` under `findings`, each with
the line of the repository that says otherwise.

**Bounds.** Two slots are one that a shutdown frees and one that it leaves; the
third call is refused and the fourth overruns the arrays. The libraries have
three slots between them, one each. `OneLibrary` keeps `positions` to one of the
two libraries at a time: what they do to each other is the question of
`libraries`. Two pointers are enough for two owners and a cell overwritten.
`InitBound` caps the slot counter above the limit, so that the overrun happens,
and below its wrap, so that the wrap, which takes 65535 failed calls, does not.
Two bins of two ticks (`scheduler`) give a first bin, a last bin that two
observations share, a time inside each bin, and the bin behind the last, which
is reached too; three bins (`tako`) let a target of two bins skip one.
`CallBound` caps the calls of `register_target()` at one more than the
library has room for, so that one registration is refused.
Row 0 and a row count of 0 are included wherever a caller can give them.
`MaxLists` 3 is the list of the target and two that replace it; `MaxLen` 4 is
room for two constraints under two sun constraints. The sky of the search has
windows of 12 ticks or 18, by turns, that open at each of six successive ticks,
which is every place relative to a step of 6, and `Ratio` 6 makes the finer step a tick.
`epsilon` is 2 ticks, so that the answer for a neighbouring time happens and a
window is longer than it. The calendar of `dates` has every kind of February
except that of a century that is no leap year twice over: 1900 is in it, and
2000.
Deadlock checking is off where the program really may stop: a process that has
died (`cache`, `positions`, `libraries`), a user who has clicked
everything (`tako`), the end of the calendar (`dates`).

**Fairness.** `Spec` of `Scheduler` has weak fairness of the steps of a scan,
`TakoSpec` of the steps of a callback, `SearchSpec` of the steps of a search: a
loop or callback that has begun is run by the one thread there is. No fairness
is assumed of calls, clicks or Save. `ScanEnds`, `ClickEnds`, `SearchEnds` and
`DateEnds` then hold whatever the sky answers. The safety properties assume no
fairness.

**Mutants.** Beside the definitions they change, the modules hold mutated forms
(`Exhausted`/`ExhaustedLate`, `Lists`/`ListsDone`, ...), each a plausible slip
in that line of the code; every property is shown to fail for one of them.

Behaviour the models include, that no run reports:

* initialisation of the orbit library returns success without a cache
  (`C/orbit_wrappers.c:67`) and refuses a retry after a failure (`:39`); a
  refused second initialisation of the solar-system library changes its factors,
  after which the rows that are filled answer for other bins
  (`C/solar_system_wrappers.c:42`);
* `cache_full_cache_destroy()` walks a null table when a slot was destroyed
  before (`C/cache.c:170`, the fault `null_destroy`);
* an exposure of 0 moves the open interval to bin -1 (`Py_Tako.py:180`), which
  is why the runs and theorems of the Scheduler exclude it;
* a target for which the timeline has too few bins left may end in an
  IndexError of the SAA cache, for the bin behind the last is asked about too
  (`Py_Tako.py:194`);
* `register_target()` moves its pointer before it can fail, so the number of a
  target that was refused passes the test of `schedule_target()`, which scans
  for it until the C code refuses it (`Py_Tako.py:106`);
* every call of `target_within_window()` adds a sun constraint and raises a
  TypeError (`Target.py:45-48`);
* a search for a window within an hour of a time that another body was just
  asked about may end with an empty window (`TargetSun_py3.py:200` with
  `solarSystem_py3.py:102`);
* `Ephemeris()` of a name it does not know is a NameError
  (`solarSystem_py3.py:279`).

## 4. Proofs

`CacheOpsProofs` has no theorem of a specification, but the lemmas that two
specifications rest on: what a manager is after each operation, and what is
retrieved from a cell after a put (`RetrieveAfterPut`) or a new cache
(`RetrieveAfterInit`).

`CacheProofs` proves, for every number of slots, of pointers and of sizes under
the assumptions `CacheSizes`, `CacheClients` and `NullIsNoTable` (a pointer to a
table is not the null pointer; untyped, TLA+ would allow it):

* `CacheTypeCorrect`: `Spec => []TypeOK`;
* `SlotsNeverShared`: `Spec => HandedOnce`. By itself `HandedOnce` is not
  inductive: the invariant `CacheInv` adds that the dimensions of a slot are
  those of its table (`TablesSized`) and that every slot handed out is at or
  below the counter, which has not wrapped (`IssuedBelow`);
* `PointersOwned`: `Spec => []CachedOnceAndLive`;
* `FaultsHaveCause`: `Spec => []FaultsExplained`;
* `NewestLeft`: `Spec => []ShutdownLeavesOnlyNewest`. These three are from
  `OwnInv`, which adds to `CacheInv` that a pointer in a cell is alive, not the
  client's, and in no other cell (`Owned`), and that a slot with dimensions was
  handed out (`SizedHanded`), without which a destruction that dies could not be
  blamed on a client who was given the cache;
* `StoreRefined`: `Spec => StoreOfPointers`, the refinement of `CacheStore`:
  each function of `cache.c` is taken to a step of the store or a stutter.

`WrappersProofs` proves every safety property of `Wrappers`, for any bins,
targets, sizes and compression factors, under `WrapperSizes` (a number of rows
is an unsigned int) and its own `NullIsNoTable`: `WrappersType` (`TypeOK`),
`ApartAlways` (`LibrariesApart`), `FreedNeverRead` (`FreedElementsUnused`),
`PositionOfItsBin` (`SatelliteOfItsBin`), `SunOfGroup` (`SunOfItsGroup`),
`ElevationInputs` (`OccultationInputs`) and `ValuesStay` (`CachedValuesStay`).
The invariant `WrapInv` says that no two libraries have the same slot
(`SlotsApart`), nor one that `cache_init()` has still to hand out
(`SlotsGiven`); that what a library finds behind its slot is of the kind of the
column and the bins of the row (`Filled`); and that without elements that were
set there is no orbit cache (`Ready`). What `SunOfItsGroup` needs of it is that a
sun in a row is of a bin that its own factor takes to that row; a hit under that
factor is then of the group asked for (`SunsOf`). A C function that goes through several
caches is proved as an operator on any sound manager (`SatPosGood`, ...,
`ElevationGood`), since the second cache it consults is the manager that the
first call has left. That a row of -1 never reaches a cache of positions is
`NoRowRefused`; that a put stays in its library is `SlotOfOne`.

`SchedulerProofs` proves, for every timeline, number of targets, bin size, set
of times and set of exposures without 0, under the assumption `SchedulerSizes`:

* `SchedulerTypeCorrect`: `Spec => []TypeOK`;
* `ClockStaysOnTimeline`: `Spec => []ClockOnTimeline`;
* `IntervalSuffices`: `Spec => []LimitNeverExceeded`;
* `CachesKeepToTheirBin`: `Spec => []AnswersOfTheirBin`.

All four follow from the inductive invariant `SchedulerInv`. The clock is moved
once, at the end of a scan, to the time of the last bin taken, and the interval
to a bin computed from a count of bins; that the two agree needs the relation of
that count to the bin, at every point of the loop (`Counting`). That the count
is positive at the end, without which the clock stands still while the interval
moves back, is where exposures of 0 have to be excluded. An answer belongs to its
bin because the time of a scan is always in its bin (`InItsBin`; for times off
the grid this is a fact about integer division, `BinOfMjd`), and because the C
code has a polar vector only for bins whose answer Python has (`AskedOnce`): the
Python cache keeps the C code from ever answering from the vector it leaves
unset.

The second part of the module proves `ExposuresDelivered`, `Spec => []ExposureDelivered`, with
the further hypothesis that no call starts before `mjdStart`. `ExposureInv` adds
to `SchedulerInv` the account that a scan keeps: the bins counted are free and
as many as are no longer needed, every other bin so far has a reason to be
passed over (`Counted`), and the scan is as many bins from its start as it has
taken (`Placed`). The property speaks of the last call, through caches that go
on changing; `CachesGrow`, that an answer that is there stays, carries it over
the steps of later calls.

`TakoProofs` proves, for every file of targets and every set of windows, with
the two hypotheses above:

* `TakoTypeCorrect`: `TakoSpec => []TakoTypeOK`;
* `BoxStaysSchedule`: `TakoSpec => []BoxIsSchedule`;
* `NumbersStayApart`: `TakoSpec => []OneNumberPerTarget`;
* `CountedBySun`: `TakoSpec => []CountedInSunWindow`;
* `PlanIsKept`: `TakoSpec => PlanKept`, the refinement of `ObservingPlan`.

The program makes no steps of the scheduler but the scheduler's own
(`DrivesScheduler`), so `ExposureInv` is an invariant of it, and `TakoInv` adds
what its own variables have to do with the scheduler's: numbers are below the
pointer and of targets that the C code has (`Numbered`), a callback has done
what precedes the call it is at (`CallbackAt`), and the scheduler is at the end
of the list box, or one observation ahead of it that the callback is about to
list (`Listed`, `Reported`), from which `BoxStaysSchedule` follows. `PlanSteps` then takes each action of the program
to a step of the plan or to a stutter.

`WindowSearchProofs` proves `OneTimeForAll`, `EphemerisSpec => []PositionOfOneTime`,
for any bodies, series and times: every active argument is of the current time,
also those that a late registration adds. Over it, for any sky, steps and
answers about rolls, it proves

* `SearchTypeCorrect`: `SearchSpec => []SearchTypeOK`;
* `OneTimeInSearches`: `SearchSpec => []PositionOfOneTime`;
* `DateIsObservable`: `SearchSpec => []DateObservable`;
* `WindowInOrder`: `SearchSpec => []WindowAhead`, that a window is not before the
  time asked from nor closed before it is opened.

The inductive invariant `SearchInv` says that nothing falls behind the time asked
from, although a search steps back: `SearchAhead` of a search, `RollAhead` of the
windows listed and of the day looked at, `Awaited` of the window that is still
looked for when a date is. It is also what keeps every time asked of the
ephemeris more than an hour from the 0 that its clock starts with, on which
`PositionOfOneTime` depends; `SearchSizes` assumes it of the times asked from.

What the searches find depends on the sky, and is proved under hypotheses on it
and on the steps, which stand in `WindowSearch` and which `MCWindowSearch` asserts
of the skies and steps of the run, so that TLC evaluates them:

* `FineSteps`: a search is refined down to steps of an hour or less, and a year
  is a number of its first steps (the code's steps of 1 and 0.1 days, divided by
  100 down to 0.01 and 0.001, and its 365 days are such);
* `LongWindows`: the angle is never exactly the limit, and two times that are both
  observable, or both not, and no more than a first step and two hours apart,
  have nothing else between them: no window and no gap is shorter than what a
  search steps over;
* `WindowsReturn`: a window that closes is followed by another that closes, less
  than a year and more than 20 days and four hours later. The sun passes 90
  degrees from a target twice a year, half a year apart, unless always near it.

Under the first two, `WindowIsTheNext` proves `SearchSpec => []NextWindowFound`. The
invariant `WindowInv` says what a search knows of the sky at each point of its
two loops, from the time `b` of its first look to the time of its last:
nothing yet (`Asked`); that all is dark so far (`SeenDark`); that the opening was
passed by the step just taken (`PassedOpening`); where it is and that all is
bright since (`SeenBright`); that the closing was passed (`PassedClosing`); and,
of a window that was found, that it is the first to open since `b` (`Found`). The
steps forward are `Steady`, by which a look cannot miss a window, and the steps
back are those of the refinement. A look that the ephemeris answers with its last
time is where the cases are: a search that steps back may see a time later than
where it looks, or, if its first look was answered so, one before `b`, and the sky
is known from that time then.

Under all three, `DateIsWithinYear` proves `SearchSpec => []DateWithinYear`. The
date in a first window is held to the year by a comparison in the code; a second
window is entered without one. `RollSoon` says that every window listed, and
the one still looked for (`Soon`), opens no more than a year and a step after the
time asked from. For the first window it is that an opening more than a year away
would make the sky a step from now what it was before (`FirstSoon`); for the second,
that between 20 days after the first one's closing and the year's end there is
another closing, with an opening before it (`SecondSoon`). That a first window may
be found from a look an hour off is why `WindowInv` speaks of `b`.

`TargetsProofs` proves, for any constraint functions, types, times and lists,

* `TargetTypeCorrect`: `TargetSpec => []TargetTypeOK`;
* `SunAlwaysCounts`: `TargetSpec => []SunWindowCounts`;
* `NeverRelaxed`: `TargetSpec => ConstraintsKept`;
* `PhasesAlike`: `TargetSpec => []PhaseEveryPeriod`, under the hypothesis
  `PhasesOfAPeriod`, which `MCTargets` asserts of its functions: a period, a phase
  in 0 to 1 to begin at and one below 1 to end at. A range that ends at 1 is not the
  same to the code as to the reference, for which phase 1 is phase 0: the code
  leaves that one instant out.

The sun window may be put in the list that a function goes over or in one that
takes its place. `TargetInv` says that the window found last is in the list that
the target has, and that a function just consolidated goes over that list; that
constraints are kept is a fact about every step (`ListsKept`): a list may grow
at its end, and no other changes. The
phases are arithmetic of remainders by a period that is not a constant, of the
sign of the dividend in the code and never negative in the reference
(`PhaseInRange`).

`DatesProofs` proves, of a calendar that is counted however far,

* `CalendarNumbered`: `Spec => []DayOfDate`: `atMJulian()` numbers its days;
* `YearBracketed`: the days of a year go from its January 1 to the next by
  `atMJulian()`, so that there is one year for the loop of `atMJDate()` to stop at;
* `DateFollowsDay`: `Spec => []DateOfDay`: `atMJDate()` gives every day its date. The
  loop that corrects the guessed year is a recursion that goes up or down; that it
  arrives is a least-number argument on the distance from the year that is right
  (`YearFound`), for which the library's theorem on well-founded sets is enough,
  without an induction scheme. `MonthsAddUp` and `MonthFound` do the same for the
  months.

Only model-checked: the liveness properties (`SearchEnds`, `DateEnds` and those of
the Scheduler and the program), and `ENABLED`, which are out of the proof system's
reach; and that the instances of the runs satisfy the hypotheses above.

## 5. Not modelled, and the plan

Not modelled:

* the numerical content of the astronomy (`atFunctions/`, the series of
  `SSOtable_py3.py`, `CoordinateTransforms_py3.py`) and the geometry of roll
  angles: their results are nondeterministic answers or times;
* fractions of a day and the parsing and formatting of dates and angles;
* widgets and text; reference counts of Python objects;
* the older extension modules `C/_Py_*.c`, which no build makes and which repeat
  the functions of `C/Py_Sched.c`, and functions that nothing calls
  (`Timeline.unordered_access()`, `Scheduler.bin_to_mjd()`), or that tabulate
  answers of modelled ones (`show_bad()`, `targ_sun_vs_mjd()`, `best_roll()`);
* the vendored libraries `cfitsio/`, `atFunctions/` and
  `SolarSystemVanFlandern/`: they are nearly all of the lines of the repository,
  and cfitsio is there for three functions of atFunctions that read files. The
  modules cover the code of pytako itself.

What is left to do: the skies that the theorems about the searches are about are
described by when the angle is at its limit (`LongWindows`, `WindowsReturn`). That the
positions of the sun and of a target give such skies is astronomy that is not modelled.
