----------------------------- MODULE CacheProofs -----------------------------
(***************************************************************************)
(* Proofs about the cache manager, for every number of slots, of pointers  *)
(* and of sizes that clients ask for: it keeps its type and never hands    *)
(* out a slot twice, what it stores is its own, its faults have a cause,   *)
(* and to its clients it is the store that C/cache.h promises.             *)
(***************************************************************************)
EXTENDS Cache, CacheOpsProofs

----------------------------------------------------------------------------

(* What makes the slots unique: the counter is past every slot that was    *)
(* handed out, and has not come round.                                     *)
IssuedBelow ==
  /\ cm.next # NoCache => cm.next < InitBound
  /\ \A s \in handed : cm.next # NoCache /\ s <= cm.next

CacheInv == TypeOK /\ TablesSized /\ IssuedBelow

LEMMA CacheInvInit == Init => CacheInv
<1> SUFFICES ASSUME Init PROVE CacheInv
  OBVIOUS
<1>1. IsManager(cm, RowCounts \ {0}, ColCounts \ {0}, Ptr)
  BY CacheSizes DEF Init, EmptyManager, IsManager
<1>2. ret \in Results
  BY DEF Init, Answer, Results
<1>3. TypeOK
  BY <1>1, <1>2 DEF Init, TypeOK
<1>4. TablesSized
  BY DEF Init, EmptyManager, TablesSized
<1>5. IssuedBelow
  BY DEF Init, EmptyManager, IssuedBelow, NoCache
<1> QED BY <1>3, <1>4, <1>5 DEF CacheInv

LEMMA ArgTypes == RowArgs \subseteq Nat /\ ColArgs \subseteq Nat /\ Slots \subseteq SlotArgs
<1>1. \A n \in RowCounts \union ColCounts : 0 .. n \subseteq Nat
  BY CacheClients
<1>2. RowArgs \subseteq Nat
  BY <1>1 DEF RowArgs
<1>3. ColArgs \subseteq Nat
  BY <1>1 DEF ColArgs
<1>4. Slots \subseteq SlotArgs
  BY CacheSizes DEF Slots, SlotArgs
<1> QED BY <1>2, <1>3, <1>4

LEMMA CacheSized ==
  ASSUME CacheInv
  PROVE  Sized(cm, Ptr)
<1>1. IsManager(cm, RowCounts \ {0}, ColCounts \ {0}, Ptr)
  BY DEF CacheInv, TypeOK
<1> QED BY <1>1, CacheClients DEF IsManager, Sized, CacheInv, TablesSized

LEMMA InitStep ==
  ASSUME CacheInv, NEW n \in RowCounts, NEW m \in ColCounts,
         NEW memory \in BOOLEAN, cache_init(n, m, memory)
  PROVE  CacheInv' /\ (ret'.op = "cache_init" /\ ret'.status = 0 /\ cm'.next # cm.next
                         => ret'.slot \notin handed)
<1> DEFINE outcome == CacheInitOutcome(cm, n, m, memory)
           slot    == CacheInitResult(cm, n, m, memory)
<1>1. /\ IsManager(cm, RowCounts \ {0}, ColCounts \ {0}, Ptr)
      /\ RowCounts \subseteq Nat /\ ColCounts \subseteq Nat
  BY CacheClients DEF CacheInv, TypeOK
<1>2. /\ NextSlot(cm) \in 0 .. ShortRange - 1
      /\ cm.next = NoCache => NextSlot(cm) = 0
      /\ cm.next # NoCache => NextSlot(cm) = cm.next + 1
  BY <1>1, NextSlotType DEF NoCache
<1>3. /\ IsManager(cm', RowCounts \ {0}, ColCounts \ {0}, Ptr)
      /\ outcome \in {"zero_size", "no_slot", "no_memory", "overrun", "created"}
      /\ outcome = "created" => NextSlot(cm) \in Slots
  <2>1. cm' = CacheInit(cm, n, m, memory)
    BY DEF cache_init
  <2>2. n \in RowCounts /\ m \in ColCounts /\ memory \in BOOLEAN
    OBVIOUS
  <2>3. IsManager(CacheInit(cm, n, m, memory), RowCounts \ {0}, ColCounts \ {0}, Ptr)
    BY ONLY <1>1, <2>2, CacheInitType, Zenon
  <2>4. outcome \in {"zero_size", "no_slot", "no_memory", "overrun", "created"}
    BY ONLY <1>1, <2>2, CacheInitType, Zenon
  <2>5. outcome = "created" => NextSlot(cm) \in Slots
    BY CreatedInSlots
  <2> QED BY <2>1, <2>3, <2>4, <2>5
<1>4. /\ slot \in Slots \union {-1}
      /\ slot # -1 => slot = NextSlot(cm) /\ outcome = "created"
      /\ outcome = "created" => slot = NextSlot(cm) /\ slot # -1
      /\ outcome # "created" => slot = -1
  BY <1>3 DEF CacheInitResult, Slots
<1>5. cm.next \in 0 .. ShortRange - 1 /\ NextSlot(cm) < InitBound /\ InitBound \in Nat
      /\ ShortRange \in Nat /\ InitBound < ShortRange
  BY <1>1, CacheSizes, CacheClients DEF IsManager, cache_init
<1>6. cm'.next = cm.next \/ cm'.next = NextSlot(cm)
  BY <1>3 DEF cache_init, CacheInit
<1>7. /\ handed' \subseteq Slots
      /\ handed \subseteq Slots
      /\ outcome = "created" => handed' = handed \union {NextSlot(cm)}
      /\ outcome # "created" => handed' = handed
  BY <1>4, <1>3 DEF cache_init, CacheInv, TypeOK
<1>8. TypeOK'
  <2>1. ret' \in Results
    BY <1>4, ArgTypes DEF cache_init, Results, Answer, CacheInv, TypeOK
  <2>2. fault' \in {"none", "oob_write", "null_access", "null_destroy"}
    BY DEF cache_init, CacheInv, TypeOK
  <2> QED BY <1>3, <1>7, <2>1, <2>2 DEF cache_init, CacheInv, TypeOK
<1>9. TablesSized'
  <2>1. CASE outcome = "created"
    <3>1. /\ n \in Nat \ {0} /\ m \in Nat \ {0} /\ NextSlot(cm) \in Slots
          /\ cm' = CacheInit(cm, n, m, memory)
          /\ outcome # "zero_size"
      BY <2>1, <1>1, <1>3 DEF CacheInitOutcome, cache_init
    <3>2. ZeroTable(n, m) \in [0 .. n - 1 -> [0 .. m - 1 -> Ptr \union {NULL}]]
      BY DEF ZeroTable
    <3>3. /\ cm'.full  = [cm.full EXCEPT ![NextSlot(cm)] = ZeroTable(n, m)]
          /\ cm'.nrows = [cm.nrows EXCEPT ![NextSlot(cm)] = n]
          /\ cm'.ncols = [cm.ncols EXCEPT ![NextSlot(cm)] = m]
      BY <2>1, <3>1 DEF CacheInit
    <3>4. /\ cm.full = [s \in Slots |-> cm.full[s]]
          /\ cm.nrows \in [Slots -> {0} \union (RowCounts \ {0})]
          /\ cm.ncols \in [Slots -> {0} \union (ColCounts \ {0})]
      BY <1>1 DEF IsManager
    <3>5. ASSUME NEW s \in Slots, cm'.full[s] # NULL
          PROVE  /\ s \in handed'
                 /\ cm'.nrows[s] > 0 /\ cm'.ncols[s] > 0
                 /\ cm'.full[s] \in [0 .. cm'.nrows[s] - 1 ->
                         [0 .. cm'.ncols[s] - 1 -> Ptr \union {NULL}]]
      <4>1. CASE s = NextSlot(cm)
        <5>1. cm'.full[s] = ZeroTable(n, m) /\ cm'.nrows[s] = n /\ cm'.ncols[s] = m
          BY <4>1, <3>1, <3>3, <3>4
        <5> QED BY <5>1, <4>1, <3>1, <3>2, <1>7, <2>1
      <4>2. CASE s # NextSlot(cm)
        <5>1. /\ cm'.full[s] = cm.full[s] /\ cm'.nrows[s] = cm.nrows[s]
              /\ cm'.ncols[s] = cm.ncols[s]
          BY <4>2, <3>3, <3>4
        <5> QED BY <5>1, <3>5, <1>7, <2>1 DEF CacheInv, TablesSized
      <4> QED BY <4>1, <4>2
    <3> QED BY <3>5 DEF TablesSized
  <2>2. CASE outcome # "created"
    <3>1. cm'.full = cm.full /\ cm'.nrows = cm.nrows /\ cm'.ncols = cm.ncols
      BY <2>2, <1>3, <1>1 DEF cache_init, CacheInit, IsManager
    <3> QED BY <3>1, <2>2, <1>7 DEF CacheInv, TablesSized
  <2> QED BY <2>1, <2>2
<1>10. outcome = "created" => NextSlot(cm) \notin handed /\ cm'.next = NextSlot(cm)
  BY <1>2, <1>3, <1>5, <1>7 DEF CacheInv, IssuedBelow, NoCache, Slots, cache_init, CacheInit
<1>11. IssuedBelow'
  BY <1>2, <1>3, <1>5, <1>6, <1>7, <1>10 DEF CacheInv, IssuedBelow, NoCache, Slots
<1>12. ret'.op = "cache_init" /\ ret'.status = 0 /\ cm'.next # cm.next
                         => ret'.slot \notin handed
  BY <1>4, <1>10, <1>2 DEF cache_init, Answer
<1> QED BY <1>8, <1>9, <1>11, <1>12 DEF CacheInv

LEMMA PutStep ==
  ASSUME CacheInv, NEW s \in SlotArgs, NEW row \in RowArgs, NEW col \in ColArgs,
         NEW p \in Ptr, cache_put(s, row, col, p)
  PROVE  CacheInv'
<1>1. IsManager(cm, RowCounts \ {0}, ColCounts \ {0}, Ptr)
  BY DEF CacheInv, TypeOK
<1>2. IsManager(cm', RowCounts \ {0}, ColCounts \ {0}, Ptr)
  BY <1>1, CachePutType DEF cache_put
<1>3. TypeOK'
  <2>1. ret' \in Results
    BY DEF cache_put, Answer, Results
  <2> QED BY <1>2, <2>1 DEF cache_put, CacheInv, TypeOK
<1>4. cm'.next = cm.next /\ cm'.nrows = cm.nrows /\ cm'.ncols = cm.ncols
  BY <1>1 DEF cache_put, CachePut, IsManager
<1>5. TablesSized'
  <2> SUFFICES ASSUME NEW t \in Slots, cm'.full[t] # NULL
               PROVE  /\ t \in handed
                      /\ cm.nrows[t] > 0 /\ cm.ncols[t] > 0
                      /\ cm'.full[t] \in [0 .. cm.nrows[t] - 1 ->
                              [0 .. cm.ncols[t] - 1 -> Ptr \union {NULL}]]
    BY <1>4 DEF TablesSized, cache_put
  <2>1. CASE AccessOutcome(cm, s, row, col) = "served" /\ t = s
    <3>1. cm.full[s] # NULL /\ s \in Slots
      BY <2>1 DEF AccessOutcome, Accessible
    <3>2. cm'.full[s] = [cm.full[s] EXCEPT ![row][col] = p]
      BY <2>1, <3>1, <1>1 DEF cache_put, CachePut, IsManager
    <3> DEFINE A == 0 .. cm.nrows[s] - 1
               B == 0 .. cm.ncols[s] - 1
               W == Ptr \union {NULL}
    <3>3. cm.full[s] \in [A -> [B -> W]] /\ p \in W
      BY <3>1 DEF CacheInv, TablesSized
    <3> HIDE DEF A, B, W
    <3>5. [cm.full[s] EXCEPT ![row][col] = p] \in [A -> [B -> W]]
      BY <3>3, StoreInCell
    <3>4. cm'.full[s] \in [A -> [B -> W]]
      BY <3>2, <3>5
    <3> USE DEF A, B, W
    <3> QED BY <3>1, <3>4, <2>1 DEF CacheInv, TablesSized
  <2>2. CASE ~(AccessOutcome(cm, s, row, col) = "served" /\ t = s)
    <3>1. cm'.full[t] = cm.full[t]
      BY <2>2, <1>1 DEF cache_put, CachePut, IsManager
    <3> QED BY <3>1 DEF CacheInv, TablesSized
  <2> QED BY <2>1, <2>2
<1>6. IssuedBelow'
  BY <1>4 DEF cache_put, CacheInv, IssuedBelow
<1> QED BY <1>3, <1>5, <1>6 DEF CacheInv

LEMMA RetrieveStep ==
  ASSUME CacheInv, NEW s \in SlotArgs, NEW row \in RowArgs, NEW col \in ColArgs,
         cache_retrieve(s, row, col)
  PROVE  CacheInv'
<1>1. IsManager(cm, RowCounts \ {0}, ColCounts \ {0}, Ptr) /\ row \in Nat /\ col \in Nat
  BY ArgTypes DEF CacheInv, TypeOK
<1>2. Sized(cm, Ptr)
  BY CacheSized
<1>3. /\ CacheRetrieve(cm, s, row, col).status \in {0, -1}
      /\ CacheRetrieve(cm, s, row, col).val \in Ptr \union {NULL}
  BY <1>1, <1>2, CacheClients, RetrieveType
<1>4. ret' \in Results
  BY <1>3 DEF cache_retrieve, Answer, Results
<1>5. TypeOK'
  BY <1>4 DEF cache_retrieve, CacheInv, TypeOK
<1> QED BY <1>5 DEF cache_retrieve, CacheInv, TablesSized, IssuedBelow

LEMMA DestroyStep ==
  ASSUME CacheInv, NEW S, NEW answer \in Results, Destroy(S, answer)
  PROVE  CacheInv'
<1>1. IsManager(cm, RowCounts \ {0}, ColCounts \ {0}, Ptr)
  BY DEF CacheInv, TypeOK
<1>2. IsManager(cm', RowCounts \ {0}, ColCounts \ {0}, Ptr)
  BY <1>1, CacheDestroyType DEF Destroy
<1>3. TypeOK'
  BY <1>2 DEF Destroy, CacheInv, TypeOK
<1>4. /\ cm'.next = cm.next /\ cm'.nrows = cm.nrows /\ cm'.ncols = cm.ncols
      /\ \A s \in Slots : cm'.full[s] # NULL => cm'.full[s] = cm.full[s]
      /\ handed' = handed
  BY <1>1 DEF Destroy, CacheDestroy, IsManager
<1>5. TablesSized'
  BY <1>4 DEF CacheInv, TablesSized
<1>6. IssuedBelow'
  BY <1>4 DEF CacheInv, IssuedBelow
<1> QED BY <1>3, <1>5, <1>6 DEF CacheInv

LEMMA HeapStep ==
  ASSUME CacheInv, NEW p \in Ptr, ClientAlloc(p) \/ ClientFree(p)
  PROVE  CacheInv'
<1>1. ret' \in Results
  BY DEF ClientAlloc, ClientFree, Answer, Results
<1>2. TypeOK'
  BY <1>1 DEF ClientAlloc, ClientFree, CacheInv, TypeOK
<1> QED BY <1>2 DEF ClientAlloc, ClientFree, CacheInv, TablesSized, IssuedBelow

LEMMA DestroyAnswers ==
  /\ \A s \in SlotArgs :
       Answer("cache_destroy", s, 0, 0, IF s \in Slots THEN 0 ELSE -1, NULL) \in Results
  /\ Answer("cache_full_cache_destroy", -1, 0, 0, 0, NULL) \in Results
BY DEF Answer, Results

(* Only cache_init() moves the slot counter.                               *)
LEMMA CounterStep ==
  ASSUME CacheInv, Next
  PROVE  CacheInv' /\ (cm'.next # cm.next /\ ret'.op = "cache_init" /\ ret'.status = 0
                         => ret'.slot \notin handed)
<1>1. CASE \E p \in Ptr : ClientAlloc(p) \/ ClientFree(p)
  BY <1>1, HeapStep DEF ClientAlloc, ClientFree
<1>2. CASE \E n \in RowCounts, m \in ColCounts, memory \in BOOLEAN :
             cache_init(n, m, memory)
  BY <1>2, InitStep
<1>3. ASSUME NEW s \in SlotArgs, NEW row \in RowArgs, NEW col \in ColArgs,
             \/ \E p \in Ptr : cache_put(s, row, col, p)
             \/ cache_retrieve(s, row, col)
      PROVE  CacheInv' /\ ret'.op # "cache_init"
  <2>1. CASE \E p \in Ptr : cache_put(s, row, col, p)
    BY <2>1, PutStep DEF cache_put, Answer
  <2>2. CASE cache_retrieve(s, row, col)
    BY <2>2, RetrieveStep DEF cache_retrieve, Answer
  <2> QED BY <1>3, <2>1, <2>2
<1>4. ASSUME NEW s \in SlotArgs, cache_destroy(s)
      PROVE  CacheInv' /\ ret'.op # "cache_init"
  BY <1>4, DestroyStep, DestroyAnswers DEF cache_destroy, Destroy, Answer
<1>5. CASE cache_full_cache_destroy
  BY <1>5, DestroyStep, DestroyAnswers DEF cache_full_cache_destroy, Destroy, Answer
<1> QED BY <1>1, <1>2, <1>3, <1>4, <1>5 DEF Next

LEMMA CacheInvStutter == CacheInv /\ UNCHANGED vars => CacheInv'
BY DEF CacheInv, TypeOK, TablesSized, IssuedBelow, vars

----------------------------------------------------------------------------

(* The static variables of cache.c, the heap and the results keep their    *)
(* types: in particular the slot counter stays an unsigned short, and a    *)
(* slot returned is a slot.                                                *)
THEOREM CacheTypeCorrect == Spec => []TypeOK
<1>1. CacheInv /\ [Next]_vars => CacheInv'
  BY CounterStep, CacheInvStutter
<1>2. CacheInv => TypeOK
  BY DEF CacheInv
<1> QED BY CacheInvInit, <1>1, <1>2, PTL DEF Spec

(* No two calls of cache_init() return the same slot, whatever is refused, *)
(* fails for memory or is destroyed in between, and however many slots     *)
(* there are: the libraries of the wrappers never share a cache.         *)
THEOREM SlotsNeverShared == Spec => HandedOnce
<1>1. CacheInv /\ [Next]_vars => CacheInv'
  BY CounterStep, CacheInvStutter
<1>2. CacheInv /\ [Next]_vars =>
        [cm'.next # cm.next /\ ret'.op = "cache_init" /\ ret'.status = 0
           => ret'.slot \notin handed]_vars
  BY CounterStep
<1> QED BY CacheInvInit, <1>1, <1>2, PTL DEF Spec, HandedOnce

----------------------------------------------------------------------------
(* Ownership: what is in a cell *)

(* v is in a cell of the manager *)
InCell(m, s, r, c, v) ==
  /\ s \in Slots /\ m.full[s] # NULL
  /\ r \in 0 .. m.nrows[s] - 1 /\ c \in 0 .. m.ncols[s] - 1
  /\ m.full[s][r][c] = v

(* What is cached is the cache's alone, and in one cell. *)
Owned ==
  /\ held \subseteq live
  /\ \A s, r, c, v : InCell(cm, s, r, c, v) /\ v # NULL =>
       /\ v \in live \ held
       /\ \A t, q, d : InCell(cm, t, q, d, v) => t = s /\ q = r /\ d = c

(* A slot has dimensions from the day it was handed out. *)
SizedHanded == \A s \in Slots : cm.nrows[s] > 0 => s \in handed

OwnInv == CacheInv /\ Owned /\ SizedHanded /\ FaultsExplained /\ ShutdownLeavesOnlyNewest

----------------------------------------------------------------------------

LEMMA CellTable ==
  ASSUME CacheInv, NEW s \in Slots, cm.full[s] # NULL
  PROVE  /\ cm.nrows[s] \in Nat /\ cm.ncols[s] \in Nat
         /\ cm.full[s] \in [0 .. cm.nrows[s] - 1 -> [0 .. cm.ncols[s] - 1 -> Ptr \union {NULL}]]
<1>1. IsManager(cm, RowCounts \ {0}, ColCounts \ {0}, Ptr)
  BY DEF CacheInv, TypeOK
<1>2. cm.nrows[s] \in Nat /\ cm.ncols[s] \in Nat
  BY <1>1, CacheClients DEF IsManager
<1> QED BY <1>2 DEF CacheInv, TablesSized

(* Nothing is in two cells, by the cells of CachedOnceAndLive.             *)
LEMMA CellIs ==
  ASSUME CacheInv, NEW a \in Cells
  PROVE  /\ a = <<a[1], a[2], a[3]>> /\ a[1] \in Slots
         /\ CellOf(a[1], a[2], a[3]) # NULL =>
              InCell(cm, a[1], a[2], a[3], CellOf(a[1], a[2], a[3]))
<1>1. PICK s \in Slots : a \in {s} \X (0 .. cm.nrows[s] - 1) \X (0 .. cm.ncols[s] - 1)
  BY DEF Cells
<1>2. /\ a = <<a[1], a[2], a[3]>> /\ a[1] = s
      /\ a[2] \in 0 .. cm.nrows[s] - 1 /\ a[3] \in 0 .. cm.ncols[s] - 1
  BY <1>1
<1> QED BY <1>1, <1>2 DEF CellOf, InCell

LEMMA OwnedOnce == CacheInv /\ Owned => CachedOnceAndLive
<1> SUFFICES ASSUME CacheInv, Owned, NEW a \in Cells, CellOf(a[1], a[2], a[3]) # NULL
             PROVE  /\ CellOf(a[1], a[2], a[3]) \in live \ held
                    /\ \A b \in Cells :
                         CellOf(b[1], b[2], b[3]) = CellOf(a[1], a[2], a[3]) => a = b
  BY DEF CachedOnceAndLive, CacheInv, Owned
<1>1. InCell(cm, a[1], a[2], a[3], CellOf(a[1], a[2], a[3])) /\ a = <<a[1], a[2], a[3]>>
  BY CellIs
<1>2. CellOf(a[1], a[2], a[3]) \in live \ held
  BY <1>1 DEF Owned
<1>3. ASSUME NEW b \in Cells, CellOf(b[1], b[2], b[3]) = CellOf(a[1], a[2], a[3])
      PROVE  a = b
  <2>1. InCell(cm, b[1], b[2], b[3], CellOf(a[1], a[2], a[3])) /\ b = <<b[1], b[2], b[3]>>
    BY <1>3, CellIs
  <2>2. b[1] = a[1] /\ b[2] = a[2] /\ b[3] = a[3]
    BY <1>1, <2>1 DEF Owned
  <2> QED BY <1>1, <2>1, <2>2
<1> QED BY <1>2, <1>3

----------------------------------------------------------------------------
(* The steps *)

LEMMA OwnInvInit == Init => OwnInv
<1> SUFFICES ASSUME Init PROVE OwnInv
  OBVIOUS
<1>1. CacheInv
  BY CacheInvInit
<1>2. Owned /\ SizedHanded
  BY DEF Init, EmptyManager, Owned, InCell, SizedHanded
<1>3. FaultsExplained /\ ShutdownLeavesOnlyNewest
  BY DEF Init, FaultsExplained, ShutdownLeavesOnlyNewest, Answer
<1> QED BY <1>1, <1>2, <1>3 DEF OwnInv

LEMMA OwnHeapStep ==
  ASSUME OwnInv, NEW p \in Ptr, ClientAlloc(p) \/ ClientFree(p)
  PROVE  OwnInv'
<1>1. /\ CacheInv' /\ UNCHANGED <<cm, handed, fault>> /\ ret'.op = "heap"
      /\ fault = "none"
  BY HeapStep DEF OwnInv, ClientAlloc, ClientFree, Answer
<1>2. held' \subseteq live' /\ live \ held \subseteq live' \ held'
  BY DEF OwnInv, Owned, ClientAlloc, ClientFree
<1>3. Owned' /\ SizedHanded'
  BY <1>1, <1>2 DEF OwnInv, Owned, InCell, SizedHanded
<1>4. FaultsExplained' /\ ShutdownLeavesOnlyNewest'
  BY <1>1 DEF FaultsExplained, ShutdownLeavesOnlyNewest
<1> QED BY <1>1, <1>3, <1>4 DEF OwnInv

(* A slot that cache_init() returns had no table, and the new one is empty. *)
LEMMA NewTable ==
  ASSUME CacheInv, NEW n \in RowCounts, NEW m \in ColCounts, NEW memory \in BOOLEAN,
         cache_init(n, m, memory), CacheInitOutcome(cm, n, m, memory) = "created"
  PROVE  LET new == NextSlot(cm) IN
         /\ new \in Slots /\ new \notin handed /\ cm.full[new] = NULL
         /\ n \in Nat \ {0} /\ m \in Nat \ {0}
         /\ handed' = handed \union {new}
         /\ cm'.full[new] # NULL /\ cm'.nrows[new] = n /\ cm'.ncols[new] = m
         /\ \A r \in 0 .. n - 1, c \in 0 .. m - 1 : cm'.full[new][r][c] = NULL
         /\ \A s \in Slots \ {new} : /\ cm'.full[s] = cm.full[s]
                                     /\ cm'.nrows[s] = cm.nrows[s]
                                     /\ cm'.ncols[s] = cm.ncols[s]
         /\ fault' = "none" /\ ret' = Answer("cache_init", new, 0, 0, 0, NULL)
<1> DEFINE new == NextSlot(cm)
<1>1. IsManager(cm, RowCounts \ {0}, ColCounts \ {0}, Ptr)
  BY DEF CacheInv, TypeOK
<1>2. new \in Slots
  BY DEF CacheInitOutcome
<1>3. CacheInv' /\ new \notin handed
  <2>1. ret'.slot = new /\ ret'.op = "cache_init" /\ ret'.status = 0
    <3>1. CacheInitResult(cm, n, m, memory) = new /\ new # -1
      BY <1>2, CacheSizes DEF CacheInitResult, Slots
    <3> QED BY <3>1 DEF cache_init, Answer
  <2>2. cm'.next = new
    BY DEF cache_init, CacheInit
  <2>3. cm'.next # cm.next
    BY <1>1, <2>2, NextSlotType, CacheSizes DEF NoCache, IsManager
  <2> QED BY <2>1, <2>3, InitStep
<1>4. n \in Nat \ {0} /\ m \in Nat \ {0}
  BY CacheClients DEF CacheInitOutcome
<1>5. /\ cm'.full  = [cm.full EXCEPT ![new] = ZeroTable(n, m)]
      /\ cm'.nrows = [cm.nrows EXCEPT ![new] = n]
      /\ cm'.ncols = [cm.ncols EXCEPT ![new] = m]
  BY DEF cache_init, CacheInit
<1>6. /\ cm.full = [s \in Slots |-> cm.full[s]]
      /\ DOMAIN cm.nrows = Slots /\ DOMAIN cm.ncols = Slots
  BY <1>1 DEF IsManager
<1>7. /\ cm'.full[new] = ZeroTable(n, m) /\ cm'.nrows[new] = n /\ cm'.ncols[new] = m
      /\ \A s \in Slots \ {new} : /\ cm'.full[s] = cm.full[s]
                                  /\ cm'.nrows[s] = cm.nrows[s]
                                  /\ cm'.ncols[s] = cm.ncols[s]
  BY <1>2, <1>5, <1>6
<1>8. cm.full[new] = NULL
  BY <1>2, <1>3 DEF CacheInv, TablesSized
<1>9. handed' = handed \union {new} /\ fault' = "none"
      /\ ret' = Answer("cache_init", new, 0, 0, 0, NULL)
  BY <1>2 DEF cache_init, CacheInitResult, Slots
<1>10. \A r \in 0 .. n - 1, c \in 0 .. m - 1 : cm'.full[new][r][c] = NULL
  BY <1>7 DEF ZeroTable
<1>11. cm'.full[new] # NULL
  <2>1. ZeroTable(n, m) \in [0 .. n - 1 -> [0 .. m - 1 -> Ptr \union {NULL}]]
    BY DEF ZeroTable
  <2> QED BY <2>1, <1>7, NullIsNoTable
<1> QED BY <1>2, <1>3, <1>4, <1>7, <1>8, <1>9, <1>10, <1>11

(* Every other call of cache_init() leaves the tables as they are. *)
LEMMA NoNewTable ==
  ASSUME CacheInv, NEW n \in RowCounts, NEW m \in ColCounts, NEW memory \in BOOLEAN,
         cache_init(n, m, memory), CacheInitOutcome(cm, n, m, memory) # "created"
  PROVE  /\ cm'.full = cm.full /\ cm'.nrows = cm.nrows /\ cm'.ncols = cm.ncols
         /\ handed' = handed /\ ret' = Answer("cache_init", -1, 0, 0, -1, NULL)
         /\ fault' = "none" \/ (fault' = "oob_write" /\ cm'.next \in MaxCaches + 1 .. InitBound)
<1>1. IsManager(cm, RowCounts \ {0}, ColCounts \ {0}, Ptr)
  BY DEF CacheInv, TypeOK
<1>2. cm'.full = cm.full /\ cm'.nrows = cm.nrows /\ cm'.ncols = cm.ncols
  BY <1>1 DEF cache_init, CacheInit, IsManager
<1>3. CacheInitResult(cm, n, m, memory) = -1
  BY DEF CacheInitResult
<1>4. handed' = handed /\ ret' = Answer("cache_init", -1, 0, 0, -1, NULL)
  BY <1>3 DEF cache_init
<1>5. CASE CacheInitOutcome(cm, n, m, memory) # "overrun"
  BY <1>2, <1>4, <1>5 DEF cache_init
<1>6. CASE CacheInitOutcome(cm, n, m, memory) = "overrun"
  <2>1. cm'.next = NextSlot(cm) /\ fault' = "oob_write"
    BY <1>1, <1>6 DEF cache_init, CacheInit, IsManager
  <2>2. NextSlot(cm) \in 0 .. ShortRange - 1 /\ NextSlot(cm) \notin Slots
        /\ NextSlot(cm) # MaxCaches /\ NextSlot(cm) < InitBound
    BY <1>1, <1>6, NextSlotType DEF CacheInitOutcome, cache_init
  <2>3. NextSlot(cm) \in MaxCaches + 1 .. InitBound
    BY <2>2, CacheSizes, CacheClients DEF Slots
  <2> QED BY <1>2, <1>4, <2>1, <2>3
<1> QED BY <1>5, <1>6

LEMMA OwnInitStep ==
  ASSUME OwnInv, NEW n \in RowCounts, NEW m \in ColCounts, NEW memory \in BOOLEAN,
         cache_init(n, m, memory)
  PROVE  OwnInv'
<1>1. CacheInv /\ CacheInv' /\ fault = "none" /\ UNCHANGED <<live, held>>
  BY InitStep DEF OwnInv, cache_init
<1>2. CASE CacheInitOutcome(cm, n, m, memory) = "created"
  <2> DEFINE new == NextSlot(cm)
  <2>1. /\ new \in Slots /\ cm.full[new] = NULL
        /\ handed' = handed \union {new}
        /\ cm'.nrows[new] = n /\ cm'.ncols[new] = m
        /\ \A r \in 0 .. n - 1, c \in 0 .. m - 1 : cm'.full[new][r][c] = NULL
        /\ \A s \in Slots \ {new} : /\ cm'.full[s] = cm.full[s]
                                    /\ cm'.nrows[s] = cm.nrows[s]
                                    /\ cm'.ncols[s] = cm.ncols[s]
        /\ fault' = "none" /\ ret'.op = "cache_init"
    BY <1>1, <1>2, NewTable DEF Answer
  <2> HIDE DEF new
  <2>2. \A s, r, c, v : InCell(cm, s, r, c, v)' /\ v # NULL => InCell(cm, s, r, c, v)
    BY <2>1 DEF InCell
  <2>3. Owned'
    BY <1>1, <2>2 DEF OwnInv, Owned
  <2>4. SizedHanded'
    BY <2>1 DEF OwnInv, SizedHanded
  <2> QED BY <1>1, <2>1, <2>3, <2>4 DEF OwnInv, FaultsExplained, ShutdownLeavesOnlyNewest
<1>3. CASE CacheInitOutcome(cm, n, m, memory) # "created"
  <2>1. /\ cm'.full = cm.full /\ cm'.nrows = cm.nrows /\ cm'.ncols = cm.ncols
        /\ handed' = handed /\ ret'.op = "cache_init"
        /\ fault' = "none" \/ (fault' = "oob_write" /\ cm'.next \in MaxCaches + 1 .. InitBound)
    BY <1>1, <1>3, NoNewTable DEF Answer
  <2>2. Owned' /\ SizedHanded'
    BY <1>1, <2>1 DEF OwnInv, Owned, InCell, SizedHanded
  <2> QED BY <1>1, <2>1, <2>2 DEF OwnInv, FaultsExplained, ShutdownLeavesOnlyNewest
<1> QED BY <1>2, <1>3

(* A put changes one cell, which the pointer is in from then on. *)
LEMMA PutCell ==
  ASSUME CacheInv, NEW s, NEW row, NEW col, NEW p \in Ptr, row \in Nat, col \in Nat,
         cm' = CachePut(cm, s, row, col, p)
  PROVE  /\ cm'.next = cm.next /\ cm'.nrows = cm.nrows /\ cm'.ncols = cm.ncols
         /\ \A t \in Slots : cm'.full[t] = NULL <=> cm.full[t] = NULL
         /\ AccessOutcome(cm, s, row, col) # "served" => cm' = cm
         /\ AccessOutcome(cm, s, row, col) = "served" =>
              /\ s \in Slots /\ cm.full[s] # NULL
              /\ row \in 0 .. cm.nrows[s] - 1 /\ col \in 0 .. cm.ncols[s] - 1
              /\ cm'.full[s][row][col] = p
              /\ \A t \in Slots : t # s => cm'.full[t] = cm.full[t]
              /\ \A r \in 0 .. cm.nrows[s] - 1, c \in 0 .. cm.ncols[s] - 1 :
                   r # row \/ c # col => cm'.full[s][r][c] = cm.full[s][r][c]
<1>1. IsManager(cm, RowCounts \ {0}, ColCounts \ {0}, Ptr)
  BY DEF CacheInv, TypeOK
<1>2. Sized(cm, Ptr)
  BY <1>1, CacheClients, CacheSized
<1>3. NoNullTable(RowCounts \ {0}, ColCounts \ {0}, Ptr)
  BY NullIsNoTable DEF NoNullTable
<1>4. p \in Ptr \union {NULL}
  OBVIOUS
<1> QED BY <1>1, <1>2, <1>3, <1>4, PutCells

LEMMA OwnPutStep ==
  ASSUME OwnInv, NEW s \in SlotArgs, NEW row \in RowArgs, NEW col \in ColArgs,
         NEW p \in Ptr, cache_put(s, row, col, p)
  PROVE  OwnInv'
<1>1. /\ CacheInv /\ CacheInv' /\ fault = "none" /\ p \in held /\ UNCHANGED <<live, handed>>
      /\ cm' = CachePut(cm, s, row, col, p) /\ ret'.op = "cache_put"
  BY PutStep DEF OwnInv, cache_put, Answer
<1>2. row \in Nat /\ col \in Nat
  BY ArgTypes
<1>3. fault' = "none"
  BY DEF cache_put, AccessOutcome, Accessible
<1>4. cm'.nrows = cm.nrows
  BY <1>1, <1>2, PutCell
<1>5. SizedHanded' /\ FaultsExplained' /\ ShutdownLeavesOnlyNewest'
  BY <1>1, <1>3, <1>4 DEF OwnInv, SizedHanded, FaultsExplained, ShutdownLeavesOnlyNewest
<1>6. CASE AccessOutcome(cm, s, row, col) = "served"
  <2>1. held' = held \ {p}
    BY <1>6 DEF cache_put
  <2>2. \A t, q, d, v : InCell(cm, t, q, d, v)' /\ v # NULL =>
          IF t = s /\ q = row /\ d = col THEN v = p ELSE InCell(cm, t, q, d, v)
    BY <1>1, <1>2, <1>6, PutCell DEF InCell
  <2>3. \A t, q, d : ~InCell(cm, t, q, d, p) /\ p # NULL /\ p \in live
    BY <1>1, CacheClients DEF OwnInv, Owned
  <2>4. ASSUME NEW t, NEW q, NEW d, NEW v, InCell(cm, t, q, d, v)', v # NULL
        PROVE  v \in live' \ held'
    BY <1>1, <2>1, <2>2, <2>3, <2>4 DEF OwnInv, Owned
  <2>5. ASSUME NEW t, NEW q, NEW d, NEW v, InCell(cm, t, q, d, v)', v # NULL,
               NEW t2, NEW q2, NEW d2, InCell(cm, t2, q2, d2, v)'
        PROVE  t2 = t /\ q2 = q /\ d2 = d
    BY <2>2, <2>3, <2>5 DEF OwnInv, Owned
  <2>6. Owned'
    BY <1>1, <2>1, <2>4, <2>5 DEF OwnInv, Owned
  <2> QED BY <1>1, <1>5, <2>6 DEF OwnInv
<1>7. CASE AccessOutcome(cm, s, row, col) # "served"
  <2>1. cm' = cm /\ held' = held
    BY <1>1, <1>7 DEF cache_put, CachePut
  <2>2. Owned'
    BY <1>1, <2>1 DEF OwnInv, Owned, InCell
  <2> QED BY <1>1, <1>5, <2>2 DEF OwnInv
<1> QED BY <1>6, <1>7

LEMMA OwnRetrieveStep ==
  ASSUME OwnInv, NEW s \in SlotArgs, NEW row \in RowArgs, NEW col \in ColArgs,
         cache_retrieve(s, row, col)
  PROVE  OwnInv'
<1>1. /\ CacheInv' /\ fault = "none" /\ UNCHANGED <<cm, live, held, handed>>
      /\ ret'.op = "cache_retrieve"
  BY RetrieveStep DEF OwnInv, cache_retrieve, Answer
<1>2. fault' = "none"
  BY DEF cache_retrieve, AccessOutcome, Accessible
<1>3. Owned' /\ SizedHanded'
  BY <1>1 DEF OwnInv, Owned, InCell, SizedHanded
<1>4. FaultsExplained' /\ ShutdownLeavesOnlyNewest'
  BY <1>1, <1>2 DEF FaultsExplained, ShutdownLeavesOnlyNewest
<1> QED BY <1>1, <1>3, <1>4 DEF OwnInv

(* What goes with the tables of some slots is in no other slot. *)
LEMMA OwnDestroyStep ==
  ASSUME OwnInv, NEW S \in SUBSET Slots, NEW answer \in Results, Destroy(S, answer)
  PROVE  CacheInv' /\ Owned' /\ SizedHanded' /\ FaultsExplained'
<1>1. CacheInv /\ CacheInv' /\ fault = "none" /\ UNCHANGED <<held, handed>>
  BY DestroyStep DEF OwnInv, Destroy
<1>2. CASE \E s \in S : Destroyed(cm, s)
  <2>1. fault' = "null_destroy" /\ UNCHANGED <<cm, live>>
    BY <1>2 DEF Destroy
  <2>2. \E s \in handed : Destroyed(cm, s)
    BY <1>2 DEF Destroyed, OwnInv, SizedHanded
  <2>3. FaultsExplained'
    BY <1>1, <2>1, <2>2 DEF FaultsExplained, Destroyed
  <2>4. Owned' /\ SizedHanded'
    BY <1>1, <2>1 DEF OwnInv, Owned, InCell, SizedHanded
  <2> QED BY <1>1, <2>3, <2>4
<1>3. CASE ~ \E s \in S : Destroyed(cm, s)
  <2>1. cm' = CacheDestroy(cm, S) /\ live' = live \ Cached(cm, S) /\ fault' = "none"
    BY <1>1, <1>3 DEF Destroy
  <2>2. IsManager(cm, RowCounts \ {0}, ColCounts \ {0}, Ptr)
    BY <1>1 DEF CacheInv, TypeOK
  <2>3. /\ cm'.nrows = cm.nrows /\ cm'.ncols = cm.ncols
        /\ \A s \in Slots : cm'.full[s] = IF s \in S THEN NULL ELSE cm.full[s]
    BY <2>1, <2>2 DEF CacheDestroy, IsManager
  <2>4. \A s, r, c, v : InCell(cm, s, r, c, v)' => InCell(cm, s, r, c, v) /\ s \notin S
    BY <2>3 DEF InCell
  <2>5. \A v \in Cached(cm, S) : v # NULL /\ \E s \in S : \E r, c : InCell(cm, s, r, c, v)
    BY DEF Cached, InCell
  <2>6. held' \subseteq live'
    BY <1>1, <2>1, <2>5 DEF OwnInv, Owned
  <2>7. ASSUME NEW s, NEW r, NEW c, NEW v, InCell(cm, s, r, c, v)', v # NULL
        PROVE  v \in live' \ held'
    <3>1. v \in live \ held
      BY <2>4, <2>7 DEF OwnInv, Owned
    <3>2. v \notin Cached(cm, S)
      BY <2>4, <2>5, <2>7 DEF OwnInv, Owned
    <3> QED BY <1>1, <2>1, <3>1, <3>2
  <2>8. Owned'
    BY <2>4, <2>6, <2>7 DEF OwnInv, Owned
  <2>9. SizedHanded' /\ FaultsExplained'
    BY <1>1, <2>1, <2>3 DEF OwnInv, SizedHanded, FaultsExplained
  <2> QED BY <1>1, <2>8, <2>9
<1> QED BY <1>2, <1>3

LEMMA OwnStep == OwnInv /\ [Next]_vars => OwnInv'
<1> SUFFICES ASSUME OwnInv, [Next]_vars PROVE OwnInv'
  OBVIOUS
<1>1. CASE \E p \in Ptr : ClientAlloc(p) \/ ClientFree(p)
  BY <1>1, OwnHeapStep
<1>2. CASE \E n \in RowCounts, m \in ColCounts, memory \in BOOLEAN :
             cache_init(n, m, memory)
  BY <1>2, OwnInitStep
<1>3. ASSUME NEW s \in SlotArgs, NEW row \in RowArgs, NEW col \in ColArgs,
             \/ \E p \in Ptr : cache_put(s, row, col, p)
             \/ cache_retrieve(s, row, col)
      PROVE  OwnInv'
  BY <1>3, OwnPutStep, OwnRetrieveStep
<1>4. ASSUME NEW s \in SlotArgs, cache_destroy(s) PROVE OwnInv'
  <2>1. ret'.op = "cache_destroy"
    BY <1>4 DEF cache_destroy, Destroy, Answer
  <2>2. CacheInv' /\ Owned' /\ SizedHanded' /\ FaultsExplained'
    BY <1>4, OwnDestroyStep, DestroyAnswers DEF cache_destroy
  <2> QED BY <2>1, <2>2 DEF OwnInv, ShutdownLeavesOnlyNewest
<1>5. CASE cache_full_cache_destroy
  <2>1. ShutdownSlots(cm) \subseteq Slots
    BY DEF ShutdownSlots
  <2>2. CacheInv' /\ Owned' /\ SizedHanded' /\ FaultsExplained'
    BY <1>5, <2>1, OwnDestroyStep, DestroyAnswers DEF cache_full_cache_destroy
  <2>3. ASSUME fault' = "none", NEW s \in Slots, cm'.full[s] # NULL
        PROVE  s = cm'.next
    <3>1. IsManager(cm, RowCounts \ {0}, ColCounts \ {0}, Ptr)
      BY DEF OwnInv, CacheInv, TypeOK
    <3>2. cm' = CacheDestroy(cm, ShutdownSlots(cm))
      BY <1>5, <2>3 DEF cache_full_cache_destroy, Destroy
    <3>3. cm'.next = cm.next /\ s \notin ShutdownSlots(cm) /\ cm.full[s] # NULL
      BY <2>3, <3>1, <3>2 DEF CacheDestroy, IsManager
    <3>4. s <= cm.next /\ s \in Int /\ cm.next \in Int
      BY <3>1, <3>3 DEF OwnInv, CacheInv, TablesSized, IssuedBelow, IsManager, Slots
    <3> QED BY <3>3, <3>4 DEF ShutdownSlots
  <2> QED BY <2>2, <2>3 DEF OwnInv, ShutdownLeavesOnlyNewest
<1>6. CASE UNCHANGED vars
  BY <1>6, CacheInvStutter DEF vars, OwnInv, Owned, InCell, SizedHanded, FaultsExplained,
       Destroyed, ShutdownLeavesOnlyNewest
<1> QED BY <1>1, <1>2, <1>3, <1>4, <1>5, <1>6 DEF Next

(* The cache frees what it stores, so a pointer that it stores must be     *)
(* allocated, in one cell, and not the client's to free: so it is, for any *)
(* order of puts, refusals, destructions and clients' frees.               *)
THEOREM PointersOwned == Spec => []CachedOnceAndLive
<1>1. OwnInv => CachedOnceAndLive
  BY OwnedOnce DEF OwnInv
<1> QED BY OwnInvInit, OwnStep, <1>1, PTL DEF Spec

(* The process dies of a null table only by destroying twice, never by an  *)
(* access, and of a write past the arrays only after every slot was used.  *)
THEOREM FaultsHaveCause == Spec => []FaultsExplained
<1>1. OwnInv => FaultsExplained
  BY DEF OwnInv
<1> QED BY OwnInvInit, OwnStep, <1>1, PTL DEF Spec

(* The shutdown leaves the newest cache at most. *)
THEOREM NewestLeft == Spec => []ShutdownLeavesOnlyNewest
<1>1. OwnInv => ShutdownLeavesOnlyNewest
  BY DEF OwnInv
<1> QED BY OwnInvInit, OwnStep, <1>1, PTL DEF Spec

----------------------------------------------------------------------------
(* What the manager is to a client: the steps of C/cache.h *)

StoredInCells ==
  \A s, r, c, v : <<s, r, c, v>> \in StoredCells <=> InCell(cm, s, r, c, v) /\ v # NULL

LEMMA StoredIs == CacheInv => StoredInCells
<1> SUFFICES ASSUME CacheInv, NEW s, NEW r, NEW c, NEW v
             PROVE  <<s, r, c, v>> \in StoredCells <=> InCell(cm, s, r, c, v) /\ v # NULL
  BY DEF StoredInCells
<1>1. ASSUME <<s, r, c, v>> \in StoredCells PROVE InCell(cm, s, r, c, v) /\ v # NULL
  <2>1. PICK a \in Cells : /\ CellOf(a[1], a[2], a[3]) # NULL
                           /\ <<s, r, c, v>> = <<a[1], a[2], a[3], CellOf(a[1], a[2], a[3])>>
    BY <1>1 DEF StoredCells
  <2> QED BY <2>1, CellIs
<1>2. ASSUME InCell(cm, s, r, c, v), v # NULL PROVE <<s, r, c, v>> \in StoredCells
  <2>1. <<s, r, c>> \in {s} \X (0 .. cm.nrows[s] - 1) \X (0 .. cm.ncols[s] - 1) /\ s \in Slots
    BY <1>2 DEF InCell
  <2>2. <<s, r, c>> \in Cells
    BY <2>1 DEF Cells
  <2>3. CellOf(s, r, c) = v
    BY <1>2 DEF InCell, CellOf
  <2> DEFINE a == <<s, r, c>>
  <2>4. a[1] = s /\ a[2] = r /\ a[3] = c
    OBVIOUS
  <2>5. a \in {b \in Cells : CellOf(b[1], b[2], b[3]) # NULL}
    BY <1>2, <2>2, <2>3, <2>4
  <2> QED BY <2>3, <2>4, <2>5 DEF StoredCells
<1> QED BY <1>1, <1>2

LEMMA StoredTuples == \A e \in StoredCells : e = <<e[1], e[2], e[3], e[4]>>
BY DEF StoredCells

LEMMA SameTuples ==
  ASSUME NEW X, NEW Y, \A e \in X : e = <<e[1], e[2], e[3], e[4]>>,
         \A e \in Y : e = <<e[1], e[2], e[3], e[4]>>,
         \A s, r, c, v : <<s, r, c, v>> \in X <=> <<s, r, c, v>> \in Y
  PROVE  X = Y
OBVIOUS

(* The tables as a client sees them do not depend on the slot counter. *)
LEMMA SameTables ==
  ASSUME cm'.full = cm.full, cm'.nrows = cm.nrows, cm'.ncols = cm.ncols
  PROVE  UNCHANGED <<OpenSlots, OpenDims, StoredCells>>
BY DEF OpenSlots, OpenDims, StoredCells, Cells, CellOf

LEMMA StoreStarts == Init => Store!StoreInit
<1> SUFFICES ASSUME Init PROVE Store!StoreInit
  OBVIOUS
<1>1. OpenSlots = {}
  BY DEF Init, EmptyManager, OpenSlots
<1>2. OpenDims = {}
  BY <1>1 DEF OpenDims
<1>3. \A s, r, c : CellOf(s, r, c) = NULL \/ s \notin Slots
  BY DEF Init, EmptyManager, CellOf
<1>4. \A a \in Cells : a[1] \in Slots
  BY DEF Cells
<1>5. StoredCells = {}
  BY <1>3, <1>4 DEF StoredCells
<1> QED BY <1>1, <1>2, <1>5 DEF Init, Store!StoreInit, Answer

LEMMA CreateIsStoreStep ==
  ASSUME CacheInv, CacheInv', NEW n \in RowCounts, NEW m \in ColCounts, NEW memory \in BOOLEAN,
         cache_init(n, m, memory)
  PROVE  Store!StoreNext
<1>1. CASE CacheInitOutcome(cm, n, m, memory) = "created"
  <2> DEFINE new == NextSlot(cm)
  <2>1. /\ new \in Slots /\ new \notin handed /\ cm.full[new] = NULL
        /\ n \in Nat \ {0} /\ m \in Nat \ {0}
        /\ handed' = handed \union {new}
        /\ cm'.full[new] # NULL /\ cm'.nrows[new] = n /\ cm'.ncols[new] = m
        /\ \A r \in 0 .. n - 1, c \in 0 .. m - 1 : cm'.full[new][r][c] = NULL
        /\ \A s \in Slots \ {new} : /\ cm'.full[s] = cm.full[s]
                                    /\ cm'.nrows[s] = cm.nrows[s]
                                    /\ cm'.ncols[s] = cm.ncols[s]
        /\ ret' = Answer("cache_init", new, 0, 0, 0, NULL)
    BY <1>1, NewTable
  <2> HIDE DEF new
  <2>2. OpenSlots' = OpenSlots \union {new} /\ new \notin OpenSlots
    BY <2>1 DEF OpenSlots
  <2>3. \A s \in OpenSlots : s # new /\ cm'.nrows[s] = cm.nrows[s] /\ cm'.ncols[s] = cm.ncols[s]
    BY <2>1 DEF OpenSlots
  <2>4. OpenDims' = OpenDims \union {<<new, n, m>>}
    BY <2>1, <2>2, <2>3 DEF OpenDims
  <2>5. \A s, r, c, v : v # NULL => (InCell(cm, s, r, c, v)' <=> InCell(cm, s, r, c, v))
    BY <2>1 DEF InCell
  <2>6. StoredInCells'
    BY StoredIs, PTL
  <2>7. \A s, r, c, v : <<s, r, c, v>> \in StoredCells' <=> <<s, r, c, v>> \in StoredCells
    BY <2>5, <2>6, StoredIs DEF StoredInCells
  <2>8. (\A e \in StoredCells : e = <<e[1], e[2], e[3], e[4]>>)'
    BY StoredTuples, PTL
  <2>9. StoredCells' = StoredCells
    BY <2>7, <2>8, StoredTuples, SameTuples
  <2>10. /\ ret'.op = "cache_init" /\ ret'.slot = new /\ ret'.row = 0 /\ ret'.col = 0
         /\ ret'.status = 0 /\ ret'.val = NULL
    BY <2>1 DEF Answer
  <2>11. Store!Create(new, n, m)
    BY <2>1, <2>2, <2>4, <2>9, <2>10 DEF Store!Create, Store!Say
  <2>12. <<n, m>> \in RowCounts \X ColCounts /\ <<n, m>>[1] = n /\ <<n, m>>[2] = m
    OBVIOUS
  <2> QED BY <2>1, <2>10, <2>11, <2>12 DEF Store!StoreNext
<1>2. CASE CacheInitOutcome(cm, n, m, memory) # "created"
  <2>1. /\ cm'.full = cm.full /\ cm'.nrows = cm.nrows /\ cm'.ncols = cm.ncols
        /\ handed' = handed /\ ret' = Answer("cache_init", -1, 0, 0, -1, NULL)
    BY <1>2, NoNewTable
  <2>2. UNCHANGED <<OpenSlots, OpenDims, StoredCells>>
    BY <2>1, SameTables
  <2>3. Store!RefuseCreate
    BY <2>1, <2>2 DEF Store!RefuseCreate, Store!Say, Answer
  <2> QED BY <2>3 DEF Store!StoreNext
<1> QED BY <1>1, <1>2

(* A client's cell is one that the checks of an access let pass. *)
LEMMA CellsServed ==
  ASSUME CacheInv, NEW s, NEW row \in Nat, NEW col \in Nat
  PROVE  /\ Store!IsCell(<<s, row, col>>) <=> AccessOutcome(cm, s, row, col) = "served"
         /\ Store!IsCell(<<s, row, col>>) <=>
              /\ s \in Slots /\ cm.full[s] # NULL
              /\ row \in 0 .. cm.nrows[s] - 1 /\ col \in 0 .. cm.ncols[s] - 1
<1> DEFINE a == <<s, row, col>>
<1>1. a[1] = s /\ a[2] = row /\ a[3] = col
  OBVIOUS
<1>2. Store!IsCell(a) <=> s \in OpenSlots /\ \E d \in OpenDims : d[1] = s /\ row < d[2] /\ col < d[3]
  BY <1>1 DEF Store!IsCell
<1>3. (\E d \in OpenDims : d[1] = s /\ row < d[2] /\ col < d[3]) <=>
        s \in OpenSlots /\ row < cm.nrows[s] /\ col < cm.ncols[s]
  <2>1. ASSUME NEW d \in OpenDims, d[1] = s, row < d[2], col < d[3]
        PROVE  s \in OpenSlots /\ row < cm.nrows[s] /\ col < cm.ncols[s]
    BY <2>1 DEF OpenDims
  <2>2. ASSUME s \in OpenSlots, row < cm.nrows[s], col < cm.ncols[s]
        PROVE  \E d \in OpenDims : d[1] = s /\ row < d[2] /\ col < d[3]
    <3>1. <<s, cm.nrows[s], cm.ncols[s]>> \in OpenDims
      BY <2>2 DEF OpenDims
    <3> QED BY <2>2, <3>1
  <2> QED BY <2>1, <2>2
<1>4. s \in OpenSlots <=> s \in Slots /\ cm.full[s] # NULL
  BY DEF OpenSlots
<1>5. s \in OpenSlots => /\ row < cm.nrows[s] <=> row \in 0 .. cm.nrows[s] - 1
                         /\ col < cm.ncols[s] <=> col \in 0 .. cm.ncols[s] - 1
  BY <1>4, CellTable
<1> HIDE DEF a
<1>6. Store!IsCell(a) <=> AccessOutcome(cm, s, row, col) = "served"
  BY <1>2, <1>3, <1>4 DEF AccessOutcome, Accessible, InBounds
<1> QED BY <1>2, <1>3, <1>4, <1>5, <1>6 DEF a

LEMMA PutIsStoreStep ==
  ASSUME CacheInv, CacheInv', NEW s \in SlotArgs, NEW row \in RowArgs, NEW col \in ColArgs,
         NEW p \in Ptr, cache_put(s, row, col, p)
  PROVE  Store!StoreNext
<1> DEFINE a == <<s, row, col>>
           kept == {e \in StoredCells : <<e[1], e[2], e[3]>> # a}
           new == <<s, row, col, p>>
<1>1. row \in Nat /\ col \in Nat
  BY ArgTypes
<1>2. cm' = CachePut(cm, s, row, col, p) /\ handed' = handed
  BY DEF cache_put
<1>3. cm'.nrows = cm.nrows /\ cm'.ncols = cm.ncols /\ OpenSlots' = OpenSlots
  BY <1>1, <1>2, PutCell DEF OpenSlots
<1>4. OpenDims' = OpenDims
  BY <1>3 DEF OpenDims
<1>5. Store!IsCell(a) <=> AccessOutcome(cm, s, row, col) = "served"
  BY <1>1, CellsServed
<1>6. StoredCells' = IF Store!IsCell(a) THEN kept \union {new} ELSE StoredCells
  <2>1. CASE AccessOutcome(cm, s, row, col) = "served"
    <3>1. /\ s \in Slots /\ cm.full[s] # NULL /\ cm'.full[s] # NULL
          /\ row \in 0 .. cm.nrows[s] - 1 /\ col \in 0 .. cm.ncols[s] - 1
          /\ cm'.full[s][row][col] = p
          /\ \A t \in Slots : t # s => cm'.full[t] = cm.full[t]
          /\ \A r \in 0 .. cm.nrows[s] - 1, c \in 0 .. cm.ncols[s] - 1 :
               r # row \/ c # col => cm'.full[s][r][c] = cm.full[s][r][c]
      BY <1>1, <1>2, <2>1, PutCell
    <3>2. \A t, r, c, v : InCell(cm, t, r, c, v)' <=>
            IF t = s /\ r = row /\ c = col THEN v = p ELSE InCell(cm, t, r, c, v)
      BY <1>3, <3>1 DEF InCell
    <3>3. StoredInCells'
      BY StoredIs, PTL
    <3>4. StoredInCells
      BY StoredIs
    <3>5. ASSUME NEW t, NEW r, NEW c, NEW v
          PROVE  <<t, r, c, v>> \in StoredCells' <=> <<t, r, c, v>> \in kept \union {new}
      <4>1. <<t, r, c, v>> \in kept <=>
              <<t, r, c, v>> \in StoredCells /\ ~(t = s /\ r = row /\ c = col)
        OBVIOUS
      <4>2. <<t, r, c, v>> \in {new} <=> t = s /\ r = row /\ c = col /\ v = p
        OBVIOUS
      <4>3. p # NULL
        BY CacheClients
      <4> HIDE DEF kept, new
      <4> QED BY <3>2, <3>3, <3>4, <4>1, <4>2, <4>3 DEF StoredInCells
    <3>6. (\A e \in StoredCells : e = <<e[1], e[2], e[3], e[4]>>)'
      BY StoredTuples, PTL
    <3>7. \A e \in kept \union {new} : e = <<e[1], e[2], e[3], e[4]>>
      BY StoredTuples
    <3> HIDE DEF kept, new
    <3>8. StoredCells' = kept \union {new}
      BY <3>5, <3>6, <3>7, SameTuples
    <3> QED BY <1>5, <2>1, <3>8
  <2>2. CASE AccessOutcome(cm, s, row, col) # "served"
    <3>1. cm' = cm
      BY <1>2, <2>2 DEF CachePut
    <3>2. StoredCells' = StoredCells
      BY <3>1, SameTables
    <3> QED BY <1>5, <2>2, <3>2
  <2> QED BY <2>1, <2>2
<1>7. /\ ret'.op = "cache_put" /\ ret'.slot = s /\ ret'.row = row /\ ret'.col = col
      /\ ret'.status = (IF Store!IsCell(a) THEN 0 ELSE -1) /\ ret'.val = p
  BY <1>5 DEF cache_put, Answer
<1>8. Store!Put(a, p)
  BY <1>2, <1>3, <1>4, <1>6, <1>7 DEF Store!Put, Store!Say
<1>9. a \in SlotArgs \X RowArgs \X ColArgs
  OBVIOUS
<1> HIDE DEF a
<1>10. <<ret'.slot, ret'.row, ret'.col>> = a
  BY <1>7 DEF a
<1> QED BY <1>7, <1>8, <1>9, <1>10 DEF Store!StoreNext

LEMMA GetIsStoreStep ==
  ASSUME CacheInv, NEW s \in SlotArgs, NEW row \in RowArgs, NEW col \in ColArgs,
         cache_retrieve(s, row, col)
  PROVE  Store!StoreNext
<1> DEFINE a == <<s, row, col>>
<1>1. row \in Nat /\ col \in Nat /\ a \in SlotArgs \X RowArgs \X ColArgs
  BY ArgTypes
<1>2. UNCHANGED <<handed, OpenSlots, OpenDims, StoredCells>>
  BY SameTables DEF cache_retrieve
<1>3. Store!IsCell(a) <=> AccessOutcome(cm, s, row, col) = "served"
  BY <1>1, CellsServed
<1>4. /\ ret'.op = "cache_retrieve" /\ ret'.slot = s /\ ret'.row = row /\ ret'.col = col
      /\ <<ret'.slot, ret'.row, ret'.col>> = a
      /\ ret'.status = CacheRetrieve(cm, s, row, col).status
      /\ ret'.val = CacheRetrieve(cm, s, row, col).val
  BY DEF cache_retrieve, Answer
<1>5. CASE ~Store!IsCell(a)
  <2>1. ret'.status = -1 /\ ret'.val = NULL
    BY <1>3, <1>4, <1>5 DEF CacheRetrieve
  <2> QED BY <1>1, <1>2, <1>4, <1>5, <2>1 DEF Store!StoreNext, Store!Get, Store!Say
<1>6. CASE Store!IsCell(a)
  <2>1. ret'.status = 0 /\ ret'.val = cm.full[s][row][col]
    BY <1>3, <1>4, <1>6 DEF CacheRetrieve
  <2>2. InCell(cm, s, row, col, cm.full[s][row][col])
    BY <1>1, <1>6, CellsServed DEF InCell
  <2>3. \A v : <<s, row, col, v>> \in StoredCells <=> v = ret'.val /\ v # NULL
    BY <2>1, <2>2, StoredIs DEF InCell, StoredInCells
  <2>4. a[1] = s /\ a[2] = row /\ a[3] = col
    OBVIOUS
  <2>5. CASE ret'.val # NULL
    <3>1. <<a[1], a[2], a[3], ret'.val>> \in StoredCells
      BY <2>3, <2>4, <2>5
    <3> HIDE DEF a
    <3> QED BY <1>1, <1>2, <1>4, <1>6, <2>1, <3>1 DEF Store!StoreNext, Store!Get, Store!Say
  <2>6. CASE ret'.val = NULL
    <3>1. ASSUME NEW e \in StoredCells, <<e[1], e[2], e[3]>> = a PROVE FALSE
      <4>1. e = <<s, row, col, e[4]>>
        BY <3>1, StoredTuples
      <4> QED BY <2>3, <2>6, <3>1, <4>1
    <3> HIDE DEF a
    <3> QED BY <1>1, <1>2, <1>4, <1>6, <2>1, <2>6, <3>1 DEF Store!StoreNext, Store!Get, Store!Say
  <2> QED BY <2>5, <2>6
<1> QED BY <1>5, <1>6

(* A destruction closes the caches that were open, or dies and closes none. *)
LEMMA DestroyCloses ==
  ASSUME CacheInv, CacheInv', NEW S \in SUBSET Slots, NEW answer, Destroy(S, answer)
  PROVE  LET H == OpenSlots \ OpenSlots' IN
         /\ handed' = handed /\ OpenSlots' = OpenSlots \ H
         /\ OpenDims' = {d \in OpenDims : d[1] \notin H}
         /\ StoredCells' = {e \in StoredCells : e[1] \notin H}
         /\ H = S \intersect OpenSlots \/ (H = {} /\ \E s \in S : Destroyed(cm, s))
<1> DEFINE H == OpenSlots \ OpenSlots'
           left == {e \in StoredCells : e[1] \notin H}
<1>1. CASE \E s \in S : Destroyed(cm, s)
  <2>1. UNCHANGED <<cm, handed>>
    BY <1>1 DEF Destroy
  <2>2. UNCHANGED <<OpenSlots, OpenDims, StoredCells>>
    BY <2>1, SameTables
  <2>3. H = {}
    BY <2>2
  <2> QED BY <1>1, <2>1, <2>2, <2>3
<1>2. CASE ~ \E s \in S : Destroyed(cm, s)
  <2>1. IsManager(cm, RowCounts \ {0}, ColCounts \ {0}, Ptr)
    BY DEF CacheInv, TypeOK
  <2>2. cm' = CacheDestroy(cm, S) /\ handed' = handed
    BY <1>2 DEF Destroy
  <2>3. /\ cm'.nrows = cm.nrows /\ cm'.ncols = cm.ncols
        /\ \A s \in Slots : cm'.full[s] = IF s \in S THEN NULL ELSE cm.full[s]
    BY <2>1, <2>2 DEF CacheDestroy, IsManager
  <2>4. OpenSlots' = OpenSlots \ S
    BY <2>3 DEF OpenSlots
  <2>5. H = S \intersect OpenSlots /\ OpenSlots' = OpenSlots \ H
    BY <2>4
  <2>6. OpenDims' = {d \in OpenDims : d[1] \notin H}
    BY <2>3, <2>4, <2>5 DEF OpenDims
  <2>7. \A t, r, c, v : InCell(cm, t, r, c, v)' <=> InCell(cm, t, r, c, v) /\ t \notin H
    BY <2>3, <2>5 DEF InCell, OpenSlots
  <2>8. StoredInCells'
    BY StoredIs, PTL
  <2>9. StoredInCells
    BY StoredIs
  <2>10. ASSUME NEW t, NEW r, NEW c, NEW v
         PROVE  <<t, r, c, v>> \in StoredCells' <=> <<t, r, c, v>> \in left
    BY <2>7, <2>8, <2>9 DEF StoredInCells
  <2>11. (\A e \in StoredCells : e = <<e[1], e[2], e[3], e[4]>>)'
    BY StoredTuples, PTL
  <2>12. \A e \in left : e = <<e[1], e[2], e[3], e[4]>>
    BY StoredTuples
  <2>13. StoredCells' = left
    <3> HIDE DEF left
    <3> QED BY <2>10, <2>11, <2>12, SameTuples
  <2> QED BY <2>2, <2>5, <2>6, <2>13
<1> QED BY <1>1, <1>2

(* cache.h: the manager hands out fresh caches, gives back what was put in *)
(* a cell last, and forgets what is destroyed; every call of cache.c is a  *)
(* step of that, for every number of slots, sizes and pointers.            *)
THEOREM StoreRefined == Spec => StoreOfPointers
<1>1. CacheInv /\ [Next]_vars => CacheInv'
  BY CounterStep, CacheInvStutter
<1>2. ASSUME CacheInv, CacheInv', [Next]_vars
      PROVE  [Store!StoreNext]_(Store!storeVars)
  <2>1. CASE \E p \in Ptr : ClientAlloc(p) \/ ClientFree(p)
    <3>1. ret'.op = "heap" /\ cm' = cm /\ handed' = handed
      BY <2>1 DEF ClientAlloc, ClientFree, Answer
    <3>2. Store!Elsewhere
      BY <3>1, SameTables DEF Store!Elsewhere
    <3> QED BY <3>2 DEF Store!StoreNext
  <2>2. CASE \E n \in RowCounts, m \in ColCounts, memory \in BOOLEAN :
               cache_init(n, m, memory)
    BY <1>2, <2>2, CreateIsStoreStep
  <2>3. ASSUME NEW s \in SlotArgs, NEW row \in RowArgs, NEW col \in ColArgs,
               \/ \E p \in Ptr : cache_put(s, row, col, p)
               \/ cache_retrieve(s, row, col)
        PROVE  Store!StoreNext
    BY <1>2, <2>3, PutIsStoreStep, GetIsStoreStep
  <2>4. ASSUME NEW s \in SlotArgs, cache_destroy(s) PROVE Store!StoreNext
    <3> DEFINE H == OpenSlots \ OpenSlots'
               S == {s} \intersect Slots
    <3>1. /\ handed' = handed /\ OpenSlots' = OpenSlots \ H
          /\ OpenDims' = {d \in OpenDims : d[1] \notin H}
          /\ StoredCells' = {e \in StoredCells : e[1] \notin H}
          /\ H = S \intersect OpenSlots \/ (H = {} /\ \E t \in S : Destroyed(cm, t))
      BY <1>2, <2>4, DestroyCloses DEF cache_destroy
    <3>2. H = {s} \intersect OpenSlots
      <4>1. S \intersect OpenSlots = {s} \intersect OpenSlots
        BY DEF OpenSlots
      <4>2. (\E t \in S : Destroyed(cm, t)) => {s} \intersect OpenSlots = {}
        BY DEF OpenSlots, Destroyed
      <4> HIDE DEF H
      <4> QED BY <3>1, <4>1, <4>2
    <3>3. ret'.op = "cache_destroy" /\ ret'.slot = s
      BY <2>4 DEF cache_destroy, Destroy, Answer
    <3>4. Store!Close(H)
      BY <3>1, <3>2, <3>3 DEF Store!Close
    <3> QED BY <3>4 DEF Store!StoreNext
  <2>5. CASE cache_full_cache_destroy
    <3>1. ShutdownSlots(cm) \subseteq Slots
      BY DEF ShutdownSlots
    <3> DEFINE H == OpenSlots \ OpenSlots'
    <3>2. /\ handed' = handed /\ OpenSlots' = OpenSlots \ H
          /\ OpenDims' = {d \in OpenDims : d[1] \notin H}
          /\ StoredCells' = {e \in StoredCells : e[1] \notin H}
      BY <1>2, <2>5, <3>1, DestroyCloses DEF cache_full_cache_destroy
    <3>3. ret'.op = "cache_full_cache_destroy"
      BY <2>5 DEF cache_full_cache_destroy, Destroy, Answer
    <3>4. Store!Close(H)
      BY <3>2, <3>3 DEF Store!Close
    <3> QED BY <3>4 DEF Store!StoreNext
  <2>6. CASE UNCHANGED vars
    BY <2>6, SameTables DEF vars, Store!storeVars
  <2> QED BY <1>2, <2>1, <2>2, <2>3, <2>4, <2>5, <2>6 DEF Next
<1> QED BY CacheInvInit, StoreStarts, <1>1, <1>2, PTL DEF Spec, StoreOfPointers, Store!StoreSpec

============================================================================
