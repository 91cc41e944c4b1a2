------------------------------ MODULE CacheOps ------------------------------
(***************************************************************************)
(* The cache manager of C/cache.c as operators on one record, cm, that     *)
(* holds its static variables:                                             *)
(*                                                                         *)
(*   cm.next       next_cache, an unsigned short that starts at -1         *)
(*   cm.full[s]    full_cache[s]: NULL, or the table of rows of columns    *)
(*   cm.nrows[s]   the dimensions, which cache_destroy() leaves as they    *)
(*   cm.ncols[s]   were                                                    *)
(*                                                                         *)
(* The operators are pure, so that a caller that makes several cache calls *)
(* in one function can chain them within one step.  A row pointer is never *)
(* NULL outside cache_destroy(), so a table is a function of functions.    *)
(* __full_cache_initialized__ only guards the clearing of an array that is *)
(* already clear, and is left out.                                         *)
(***************************************************************************)
EXTENDS Integers

CONSTANTS
  MaxCaches,   \* MAX_CACHES
  ShortRange,  \* 2^16: the values of an unsigned short
  NULL         \* the null pointer

ASSUME CacheSizes ==
  /\ MaxCaches \in Nat \ {0}
  /\ ShortRange \in Nat
  /\ MaxCaches + 1 < ShortRange

Slots == 0 .. MaxCaches - 1

EmptyManager ==
  [next  |-> ShortRange - 1,
   full  |-> [s \in Slots |-> NULL],
   nrows |-> [s \in Slots |-> 0],
   ncols |-> [s \in Slots |-> 0]]

(* The tables that a cache may hold, of a size in R x C over the pointers V *)
IsTable(t, R, C, V) ==
  \E n \in R, m \in C : t \in [0 .. n - 1 -> [0 .. m - 1 -> V \union {NULL}]]

IsManager(mgr, R, C, V) ==
  /\ mgr = [next  |-> mgr.next,  full  |-> mgr.full,
            nrows |-> mgr.nrows, ncols |-> mgr.ncols]
  /\ mgr.next \in 0 .. ShortRange - 1
  /\ mgr.full = [s \in Slots |-> mgr.full[s]]
  /\ \A s \in Slots : mgr.full[s] = NULL \/ IsTable(mgr.full[s], R, C, V)
  /\ mgr.nrows \in [Slots -> {0} \union R]
  /\ mgr.ncols \in [Slots -> {0} \union C]

(* A short passed as an unsigned short: -1, "no slot", becomes 65535. *)
AsUShort(slot) == slot % ShortRange

(* _full_cache_bounds_check() and _bounds_check() *)
InBounds(cm, s, row, col) ==
  /\ s \in Slots
  /\ row < cm.nrows[s]
  /\ col < cm.ncols[s]

(* Mutant of Accessible: the dimensions are taken for the table.           *)
AccessibleByDims(cm, s, row, col) == InBounds(cm, s, row, col)

(* The checks of cache_put() and of cache_retrieve() before they index the *)
(* table.  A dimension that outlives its table passes the first two.       *)
Accessible(cm, s, row, col) ==
  /\ InBounds(cm, s, row, col)
  /\ cm.full[s] # NULL

(* What an access then does: it is refused, or served, or it indexes a     *)
(* null table.                                                             *)
AccessOutcome(cm, s, row, col) ==
  IF ~Accessible(cm, s, row, col) THEN "refused"
  ELSE IF cm.full[s] = NULL       THEN "null_deref"
  ELSE                                 "served"

(* Mutant of CachePut: a value that is there already is kept.              *)
CachePutOnce(cm, s, row, col, val) ==
  IF AccessOutcome(cm, s, row, col) = "served" /\ cm.full[s][row][col] = NULL
    THEN [cm EXCEPT !.full[s][row][col] = val]
    ELSE cm

CachePut(cm, s, row, col, val) ==
  IF AccessOutcome(cm, s, row, col) = "served"
    THEN [cm EXCEPT !.full[s][row][col] = val]
    ELSE cm

(* *status and the value that cache_retrieve() returns *)
CacheRetrieve(cm, s, row, col) ==
  IF AccessOutcome(cm, s, row, col) = "served"
    THEN [status |-> 0, val |-> cm.full[s][row][col]]
    ELSE [status |-> -1, val |-> NULL]

(* next_cache++ *)
NextSlot(cm) == (cm.next + 1) % ShortRange

ZeroTable(nrows, ncols) ==
  [r \in 0 .. nrows - 1 |-> [c \in 0 .. ncols - 1 |-> NULL]]

(***************************************************************************)
(* cache_init(): what is returned, and the manager after it.  memory says  *)
(* whether every allocation the call makes succeeds.  The slot counter has *)
(* moved on before the limit and the memory are known, and only equality   *)
(* with the limit is tested: "overrun" is the write past the arrays that   *)
(* the call after the refused one makes.                                   *)
(***************************************************************************)
CacheInitOutcome(cm, nrows, ncols, memory) ==
  IF nrows = 0 \/ ncols = 0               THEN "zero_size"
  ELSE IF NextSlot(cm) = MaxCaches        THEN "no_slot"
  ELSE IF ~memory                         THEN "no_memory"
  ELSE IF NextSlot(cm) \notin Slots       THEN "overrun"
  ELSE                                         "created"

CacheInit(cm, nrows, ncols, memory) ==
  LET outcome == CacheInitOutcome(cm, nrows, ncols, memory)
      s       == NextSlot(cm)
  IN  IF outcome = "zero_size" THEN cm
      ELSE IF outcome = "created"
        THEN [next  |-> s,
              full  |-> [cm.full  EXCEPT ![s] = ZeroTable(nrows, ncols)],
              nrows |-> [cm.nrows EXCEPT ![s] = nrows],
              ncols |-> [cm.ncols EXCEPT ![s] = ncols]]
      ELSE [cm EXCEPT !.next = s]

(* Mutant of CacheInitResult: the slot is returned at the limit too.        *)
CacheInitResultPastLimit(cm, nrows, ncols, memory) ==
  IF CacheInitOutcome(cm, nrows, ncols, memory) \in {"created", "no_slot"}
    THEN NextSlot(cm)
    ELSE -1

CacheInitResult(cm, nrows, ncols, memory) ==
  IF CacheInitOutcome(cm, nrows, ncols, memory) = "created"
    THEN NextSlot(cm)
    ELSE -1

(***************************************************************************)
(* cache_destroy() walks nrows[s] lines without a look at full_cache[s]: a *)
(* slot that was destroyed keeps its dimensions, so destroying it again    *)
(* goes through the null table.  A slot never created has no lines.        *)
(***************************************************************************)
Destroyed(cm, s) == cm.nrows[s] > 0 /\ cm.full[s] = NULL

(* The pointers that cache_removeline() frees, over all lines of the slots *)
(* of S.                                                                   *)
Cached(cm, S) ==
  {v \in UNION {UNION {{cm.full[s][r][c] : c \in 0 .. cm.ncols[s] - 1} :
                         r \in 0 .. cm.nrows[s] - 1} :
                  s \in {t \in S : cm.full[t] # NULL}} : v # NULL}

(* Mutants of CacheDestroy: the table pointer is left dangling; the slot   *)
(* is given back.                                                          *)
CacheDestroyDangling(cm, S) == cm

CacheDestroyReuse(cm, S) ==
  [cm EXCEPT !.full = [s \in Slots |-> IF s \in S THEN NULL ELSE cm.full[s]],
             !.next = IF cm.next \in S THEN AsUShort(cm.next - 1) ELSE cm.next]

CacheDestroy(cm, S) ==
  [cm EXCEPT !.full = [s \in Slots |-> IF s \in S THEN NULL ELSE cm.full[s]]]

(* Mutant of ShutdownSlots: the slot before the newest is missed too.      *)
ShutdownSlotsShort(cm) == {s \in Slots : s + 1 < cm.next}

(* cache_full_cache_destroy() runs k over 0 .. next_cache - 1.  Before the *)
(* first cache_init() that is every unsigned short.                        *)
ShutdownSlots(cm) == {s \in Slots : s < cm.next}
=============================================================================
