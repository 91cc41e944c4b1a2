------------------------------- MODULE Cache -------------------------------
(***************************************************************************)
(* The cache manager of C/cache.c as a library: one action for each        *)
(* function of cache.h, and the client that cache.h asks for, who puts     *)
(* pointers it got from malloc() and does not free what it has put.        *)
(*                                                                         *)
(* A call that writes past the arrays or goes through a null pointer ends  *)
(* the process: fault says which, and nothing happens after it.            *)
(***************************************************************************)
EXTENDS CacheOps

CONSTANTS
  Ptr,          \* the pointers that malloc() can return
  RowCounts,    \* the dimensions that clients ask for,
  ColCounts,    \*   zero among them
  InitBound     \* bound: the slot counter is advanced to InitBound - 1 at most

ASSUME CacheClients ==
  /\ NULL \notin Ptr
  /\ RowCounts \subseteq Nat
  /\ ColCounts \subseteq Nat
  /\ InitBound \in Nat
  /\ MaxCaches + 1 < InitBound
  /\ InitBound < ShortRange

(* A pointer to a table is not the null pointer. *)
ASSUME NullIsNoTable ==
  \A n \in RowCounts, m \in ColCounts :
    NULL \notin [0 .. n - 1 -> [0 .. m - 1 -> Ptr \union {NULL}]]

VARIABLES
  cm,      \* the static variables of cache.c
  live,    \* the pointers malloc() has returned and nobody has freed
  held,    \* those of them that the client still owns
  handed,  \* the slots that cache_init() has returned
  fault,   \* "none", or how the process died
  ret      \* the last call and what it returned, if it did

vars == <<cm, live, held, handed, fault, ret>>

NoCache  == ShortRange - 1              \* -1 as an unsigned short
SlotArgs == 0 .. MaxCaches \union {NoCache}
RowArgs  == UNION {0 .. n : n \in RowCounts}
ColArgs  == UNION {0 .. n : n \in ColCounts}

Results ==
  [op : {"start", "heap", "cache_init", "cache_put", "cache_retrieve",
         "cache_destroy", "cache_full_cache_destroy"},
   slot : SlotArgs \union {-1}, row : RowArgs \union {0}, col : ColArgs \union {0},
   status : {0, -1}, val : Ptr \union {NULL}]

Answer(op, slot, row, col, status, val) ==
  [op |-> op, slot |-> slot, row |-> row, col |-> col,
   status |-> status, val |-> val]

----------------------------------------------------------------------------

Init ==
  /\ cm = EmptyManager
  /\ live = {}
  /\ held = {}
  /\ handed = {}
  /\ fault = "none"
  /\ ret = Answer("start", -1, 0, 0, 0, NULL)

(* The clients are the three libraries.  They allocate what they put, and  *)
(* targ_init() frees it when the put is refused; none frees what is cached.*)
ClientAlloc(p) ==
  /\ fault = "none"
  /\ p \notin live
  /\ live' = live \union {p}
  /\ held' = held \union {p}
  /\ ret' = Answer("heap", -1, 0, 0, 0, NULL)
  /\ UNCHANGED <<cm, handed, fault>>

ClientFree(p) ==
  /\ fault = "none"
  /\ p \in held
  /\ live' = live \ {p}
  /\ held' = held \ {p}
  /\ ret' = Answer("heap", -1, 0, 0, 0, NULL)
  /\ UNCHANGED <<cm, handed, fault>>

cache_init(nrows, ncols, memory) ==
  LET outcome == CacheInitOutcome(cm, nrows, ncols, memory)
      slot    == CacheInitResult(cm, nrows, ncols, memory)
  IN  /\ fault = "none"
      /\ NextSlot(cm) < InitBound
      /\ cm' = CacheInit(cm, nrows, ncols, memory)
      /\ handed' = IF slot = -1 THEN handed ELSE handed \union {slot}
      /\ fault'  = IF outcome = "overrun" THEN "oob_write" ELSE fault
      /\ ret'    = Answer("cache_init", slot, 0, 0,
                          IF slot = -1 THEN -1 ELSE 0, NULL)
      /\ UNCHANGED <<live, held>>

(* A pointer that is put belongs to the cache; whatever the cell held      *)
(* before is overwritten and not freed.                                    *)
cache_put(s, row, col, p) ==
  LET outcome == AccessOutcome(cm, s, row, col)
  IN  /\ fault = "none"
      /\ p \in held
      /\ cm' = CachePut(cm, s, row, col, p)
      /\ held'  = IF outcome = "served" THEN held \ {p} ELSE held
      /\ fault' = IF outcome = "null_deref" THEN "null_access" ELSE fault
      /\ ret'   = Answer("cache_put", s, row, col,
                         IF outcome = "served" THEN 0 ELSE -1, p)
      /\ UNCHANGED <<live, handed>>

cache_retrieve(s, row, col) ==
  LET found == CacheRetrieve(cm, s, row, col)
  IN  /\ fault = "none"
      /\ fault' = IF AccessOutcome(cm, s, row, col) = "null_deref"
                    THEN "null_access" ELSE fault
      /\ ret'   = Answer("cache_retrieve", s, row, col, found.status, found.val)
      /\ UNCHANGED <<cm, live, held, handed>>

(* The slots of S are destroyed in turn; the first that was destroyed      *)
(* before is fatal.                                                        *)
Destroy(S, answer) ==
  /\ fault = "none"
  /\ IF \E s \in S : Destroyed(cm, s)
       THEN fault' = "null_destroy" /\ UNCHANGED <<cm, live>>
       ELSE /\ cm' = CacheDestroy(cm, S)
            /\ live' = live \ Cached(cm, S)
            /\ UNCHANGED fault
  /\ ret' = answer
  /\ UNCHANGED <<held, handed>>

cache_destroy(s) ==
  Destroy({s} \intersect Slots,
          Answer("cache_destroy", s, 0, 0, IF s \in Slots THEN 0 ELSE -1, NULL))

cache_full_cache_destroy ==
  Destroy(ShutdownSlots(cm),
          Answer("cache_full_cache_destroy", -1, 0, 0, 0, NULL))

Next ==
  \/ \E p \in Ptr : ClientAlloc(p) \/ ClientFree(p)
  \/ \E nrows \in RowCounts, ncols \in ColCounts, memory \in BOOLEAN :
       cache_init(nrows, ncols, memory)
  \/ \E s \in SlotArgs, row \in RowArgs, col \in ColArgs :
       \/ \E p \in Ptr : cache_put(s, row, col, p)
       \/ cache_retrieve(s, row, col)
  \/ \E s \in SlotArgs : cache_destroy(s)
  \/ cache_full_cache_destroy

Spec == Init /\ [][Next]_vars

----------------------------------------------------------------------------

TypeOK ==
  /\ IsManager(cm, RowCounts \ {0}, ColCounts \ {0}, Ptr)
  /\ live \subseteq Ptr
  /\ held \subseteq Ptr
  /\ handed \subseteq Slots
  /\ fault \in {"none", "oob_write", "null_access", "null_destroy"}
  /\ ret \in Results

(* A table has the dimensions that the bounds checks compare with, and     *)
(* exists only for a slot that was handed out.                             *)
TablesSized ==
  \A s \in Slots : cm.full[s] # NULL =>
    /\ s \in handed
    /\ cm.nrows[s] > 0 /\ cm.ncols[s] > 0
    /\ cm.full[s] \in [0 .. cm.nrows[s] - 1 ->
                         [0 .. cm.ncols[s] - 1 -> Ptr \union {NULL}]]

CellOf(s, row, col) ==
  IF cm.full[s] = NULL THEN NULL ELSE cm.full[s][row][col]

Cells ==
  UNION {{s} \X (0 .. cm.nrows[s] - 1) \X (0 .. cm.ncols[s] - 1) : s \in Slots}

(* The cache frees a pointer when its table goes (C/cache.c:134-139), so   *)
(* each pointer it stores must be allocated, not also the client's to      *)
(* free, and in one cell only: no double free and no dangling value,       *)
(* whatever the order of puts, failed puts, destroys and re-inits.         *)
CachedOnceAndLive ==
  /\ TablesSized
  /\ held \subseteq live
  /\ \A a \in Cells : LET v == CellOf(a[1], a[2], a[3]) IN
       v # NULL => /\ v \in live \ held
                   /\ \A b \in Cells : CellOf(b[1], b[2], b[3]) = v => a = b

(* cache_init() never returns a slot twice, not even one destroyed or      *)
(* refused since: two libraries never share a cache (C/cache.c:88-110).    *)
HandedOnce ==
  [][cm'.next # cm.next /\ ret'.op = "cache_init" /\ ret'.status = 0
       => ret'.slot \notin handed]_vars

(* A put to or a retrieve from a destroyed slot is refused, though the     *)
(* slot keeps its dimensions (C/cache.c:189,225); the process dies of a    *)
(* null table only when a cache the client was given has been destroyed    *)
(* and is destroyed again, and of a write past the arrays only after every *)
(* slot was used up.                                                       *)
FaultsExplained ==
  /\ fault # "null_access"
  /\ fault = "null_destroy" => \E s \in handed : Destroyed(cm, s)
  /\ fault = "oob_write"    => cm.next \in MaxCaches + 1 .. InitBound

(* cache_full_cache_destroy() stops one short of the slot counter: what it *)
(* leaves behind is at most the newest cache (C/cache.c:170).              *)
ShutdownLeavesOnlyNewest ==
  ret.op = "cache_full_cache_destroy" /\ fault = "none" =>
    \A s \in Slots : cm.full[s] # NULL => s = cm.next

(* C/cache.c:9 "The full cache consists of MAX_CACHES individual caches":  *)
(* nothing is ever written to another one.                                 *)
OnlyMaxCaches == fault # "oob_write"

----------------------------------------------------------------------------
OpenSlots == {s \in Slots : cm.full[s] # NULL}

OpenDims == {<<s, cm.nrows[s], cm.ncols[s]>> : s \in OpenSlots}

StoredCells ==
  {<<a[1], a[2], a[3], CellOf(a[1], a[2], a[3])>> :
     a \in {b \in Cells : CellOf(b[1], b[2], b[3]) # NULL}}

(* What a client sees of the manager *)
Store == INSTANCE CacheStore WITH
  Handles <- Slots,
  Values  <- Ptr,
  NoValue <- NULL,
  Dims    <- RowCounts \X ColCounts,
  Args    <- SlotArgs \X RowArgs \X ColArgs,
  given   <- handed,
  open    <- OpenSlots,
  dims    <- OpenDims,
  stored  <- StoredCells,
  answer  <- ret

(* C/cache.h:6-24: the manager hands out fresh caches, returns what was    *)
(* last put, and forgets what is destroyed, through every order of calls,  *)
(* refusals, destroys and failed allocations.                              *)
StoreOfPointers == Store!StoreSpec
============================================================================
