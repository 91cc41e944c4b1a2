--------------------------- MODULE CacheOpsProofs ---------------------------
(***************************************************************************)
(* What the operators of CacheOps keep and return, for managers of tables  *)
(* of any sizes R x C over any values V.                                   *)
(***************************************************************************)
EXTENDS CacheOps, TLAPS

(* Tables have the dimensions that the bounds checks compare with. *)
Sized(mgr, V) ==
  \A s \in Slots : mgr.full[s] # NULL =>
    /\ mgr.nrows[s] \in Nat \ {0} /\ mgr.ncols[s] \in Nat \ {0}
    /\ mgr.full[s] \in [0 .. mgr.nrows[s] - 1 -> [0 .. mgr.ncols[s] - 1 -> V \union {NULL}]]

(* A pointer to a table is not the null pointer. *)
NoNullTable(R, C, V) ==
  \A n \in R, m \in C : NULL \notin [0 .. n - 1 -> [0 .. m - 1 -> V \union {NULL}]]

----------------------------------------------------------------------------

LEMMA StoreInCell ==
  ASSUME NEW A, NEW B, NEW W, NEW t \in [A -> [B -> W]],
         NEW row, NEW col, NEW v \in W
  PROVE  [t EXCEPT ![row][col] = v] \in [A -> [B -> W]]
OBVIOUS

(* A table that is stored in still fits: what cache_put() does to it.      *)
LEMMA StoreInTable ==
  ASSUME NEW R, NEW C, NEW V, NEW t, IsTable(t, R, C, V),
         NEW row, NEW col, NEW v \in V \union {NULL}
  PROVE  IsTable([t EXCEPT ![row][col] = v], R, C, V)
<1>1. PICK n \in R, m \in C :
        t \in [0 .. n - 1 -> [0 .. m - 1 -> V \union {NULL}]]
  BY DEF IsTable
<1>2. [t EXCEPT ![row][col] = v] \in [0 .. n - 1 -> [0 .. m - 1 -> V \union {NULL}]]
  BY <1>1, StoreInCell
<1> QED BY <1>2 DEF IsTable

LEMMA NextSlotType ==
  ASSUME NEW R, NEW C, NEW V, NEW mgr, IsManager(mgr, R, C, V)
  PROVE  /\ NextSlot(mgr) \in 0 .. ShortRange - 1
         /\ mgr.next = ShortRange - 1 => NextSlot(mgr) = 0
         /\ mgr.next # ShortRange - 1 => NextSlot(mgr) = mgr.next + 1
<1>1. mgr.next \in 0 .. ShortRange - 1 /\ ShortRange \in Nat \ {0}
  BY CacheSizes DEF IsManager
<1> QED BY <1>1, SMT DEF NextSlot

(* cache_init() keeps the manager a manager, and returns -1 or a slot.     *)
LEMMA CreatedInSlots ==
  ASSUME NEW mgr, NEW n, NEW m, NEW memory, CacheInitOutcome(mgr, n, m, memory) = "created"
  PROVE  NextSlot(mgr) \in Slots
  BY DEF CacheInitOutcome

LEMMA CacheInitType ==
  ASSUME NEW R, NEW C, NEW V, R \subseteq Nat, C \subseteq Nat,
         NEW mgr, IsManager(mgr, R \ {0}, C \ {0}, V),
         NEW n \in R, NEW m \in C, NEW memory \in BOOLEAN
  PROVE  /\ IsManager(CacheInit(mgr, n, m, memory), R \ {0}, C \ {0}, V)
         /\ CacheInitOutcome(mgr, n, m, memory) \in
              {"zero_size", "no_slot", "no_memory", "overrun", "created"}
         /\ CacheInitOutcome(mgr, n, m, memory) = "created" => NextSlot(mgr) \in Slots
<1>1. NextSlot(mgr) \in 0 .. ShortRange - 1
  BY NextSlotType
<1>2. CASE CacheInitOutcome(mgr, n, m, memory) = "zero_size"
  BY <1>2 DEF CacheInit
<1>3. CASE CacheInitOutcome(mgr, n, m, memory) = "created"
  <2>1. n # 0 /\ m # 0 /\ NextSlot(mgr) \in Slots
    BY <1>3 DEF CacheInitOutcome
  <2>2. ZeroTable(n, m) \in [0 .. n - 1 -> [0 .. m - 1 -> V \union {NULL}]]
    BY DEF ZeroTable
  <2>3. IsTable(ZeroTable(n, m), R \ {0}, C \ {0}, V)
    BY <2>1, <2>2 DEF IsTable
  <2> QED BY <1>1, <1>3, <2>1, <2>3 DEF CacheInit, IsManager
<1>4. CASE CacheInitOutcome(mgr, n, m, memory) \in {"no_slot", "no_memory", "overrun"}
  BY <1>1, <1>4 DEF CacheInit, IsManager
<1>5. CacheInitOutcome(mgr, n, m, memory) \in
              {"zero_size", "no_slot", "no_memory", "overrun", "created"}
  BY DEF CacheInitOutcome
<1> QED BY <1>2, <1>3, <1>4, <1>5 DEF CacheInitOutcome

LEMMA CachePutType ==
  ASSUME NEW R, NEW C, NEW V, NEW mgr, IsManager(mgr, R, C, V),
         NEW s, NEW row, NEW col, NEW v \in V \union {NULL}
  PROVE  IsManager(CachePut(mgr, s, row, col, v), R, C, V)
<1>1. CASE AccessOutcome(mgr, s, row, col) = "served"
  <2>1. s \in Slots /\ IsTable(mgr.full[s], R, C, V)
    BY <1>1 DEF AccessOutcome, Accessible, InBounds, IsManager
  <2>2. IsTable([mgr.full[s] EXCEPT ![row][col] = v], R, C, V)
    BY <2>1, StoreInTable
  <2> QED BY <1>1, <2>1, <2>2 DEF CachePut, IsManager
<1> QED BY <1>1 DEF CachePut

LEMMA CacheDestroyType ==
  ASSUME NEW R, NEW C, NEW V, NEW mgr, IsManager(mgr, R, C, V), NEW S
  PROVE  IsManager(CacheDestroy(mgr, S), R, C, V)
BY DEF CacheDestroy, IsManager

LEMMA RetrieveType ==
  ASSUME NEW R, NEW C, NEW V, R \subseteq Nat, C \subseteq Nat,
         NEW mgr, IsManager(mgr, R, C, V), NEW s, NEW row \in Nat, NEW col \in Nat,
         Sized(mgr, V)
  PROVE  /\ CacheRetrieve(mgr, s, row, col).status \in {0, -1}
         /\ CacheRetrieve(mgr, s, row, col).val \in V \union {NULL}
<1>1. CASE AccessOutcome(mgr, s, row, col) = "served"
  <2>1. /\ s \in Slots /\ mgr.full[s] # NULL
        /\ row < mgr.nrows[s] /\ col < mgr.ncols[s]
    BY <1>1 DEF AccessOutcome, Accessible, InBounds
  <2>2. mgr.nrows[s] \in Nat /\ mgr.ncols[s] \in Nat
    BY <2>1 DEF IsManager
  <2>3. row \in 0 .. mgr.nrows[s] - 1 /\ col \in 0 .. mgr.ncols[s] - 1
    BY <2>1, <2>2
  <2>5. mgr.full[s] \in [0 .. mgr.nrows[s] - 1 ->
                             [0 .. mgr.ncols[s] - 1 -> V \union {NULL}]]
    BY <2>1 DEF Sized
  <2>6. mgr.full[s][row] \in [0 .. mgr.ncols[s] - 1 -> V \union {NULL}]
    BY <2>3, <2>5
  <2>4. mgr.full[s][row][col] \in V \union {NULL}
    BY <2>3, <2>6
  <2> QED BY <1>1, <2>4 DEF CacheRetrieve
<1> QED BY <1>1 DEF CacheRetrieve

(* A put leaves tables of the same dimensions. *)
LEMMA PutSized ==
  ASSUME NEW R, NEW C, NEW V, NEW mgr, IsManager(mgr, R, C, V), Sized(mgr, V),
         NEW s, NEW row, NEW col, NEW v \in V \union {NULL}
  PROVE  /\ Sized(CachePut(mgr, s, row, col, v), V)
         /\ CachePut(mgr, s, row, col, v).next = mgr.next
<1> DEFINE new == CachePut(mgr, s, row, col, v)
<1>1. CASE AccessOutcome(mgr, s, row, col) # "served"
  BY <1>1 DEF CachePut
<1>2. CASE AccessOutcome(mgr, s, row, col) = "served"
  <2>1. s \in Slots /\ mgr.full[s] # NULL
    BY <1>2 DEF AccessOutcome, Accessible, InBounds
  <2>2. /\ new.next = mgr.next /\ new.nrows = mgr.nrows /\ new.ncols = mgr.ncols
        /\ new.full[s] = [mgr.full[s] EXCEPT ![row][col] = v]
        /\ \A t \in Slots : t # s => new.full[t] = mgr.full[t]
    BY <1>2, <2>1 DEF CachePut, IsManager
  <2> HIDE DEF new
  <2> DEFINE A == 0 .. mgr.nrows[s] - 1
             B == 0 .. mgr.ncols[s] - 1
             W == V \union {NULL}
  <2>3. mgr.full[s] \in [A -> [B -> W]] /\ v \in W
    BY <2>1 DEF Sized
  <2> HIDE DEF A, B, W
  <2>4. new.full[s] \in [A -> [B -> W]]
    <3>1. [mgr.full[s] EXCEPT ![row][col] = v] \in [A -> [B -> W]]
      BY <2>3, StoreInCell
    <3> QED BY <2>2, <3>1
  <2> USE DEF A, B, W
  <2>5. Sized(new, V)
    BY <2>1, <2>2, <2>4 DEF Sized
  <2> QED BY <2>2, <2>5 DEF new
<1> QED BY <1>1, <1>2

(* cache_put() changes the cell that it is asked to, or none. *)
LEMMA PutCells ==
  ASSUME NEW R, NEW C, NEW V, NoNullTable(R, C, V),
         NEW mgr, IsManager(mgr, R, C, V), Sized(mgr, V),
         NEW s, NEW row \in Nat, NEW col \in Nat, NEW v \in V \union {NULL},
         NEW new, new = CachePut(mgr, s, row, col, v)
  PROVE  /\ new.next = mgr.next /\ new.nrows = mgr.nrows /\ new.ncols = mgr.ncols
         /\ \A t \in Slots : new.full[t] = NULL <=> mgr.full[t] = NULL
         /\ AccessOutcome(mgr, s, row, col) # "served" => new = mgr
         /\ AccessOutcome(mgr, s, row, col) = "served" =>
              /\ s \in Slots /\ mgr.full[s] # NULL
              /\ row \in 0 .. mgr.nrows[s] - 1 /\ col \in 0 .. mgr.ncols[s] - 1
              /\ new.full[s][row][col] = v
              /\ \A t \in Slots : t # s => new.full[t] = mgr.full[t]
              /\ \A r \in 0 .. mgr.nrows[s] - 1, c \in 0 .. mgr.ncols[s] - 1 :
                   r # row \/ c # col => new.full[s][r][c] = mgr.full[s][r][c]
<1>1. CASE AccessOutcome(mgr, s, row, col) # "served"
  BY <1>1 DEF CachePut
<1>2. CASE AccessOutcome(mgr, s, row, col) = "served"
  <2>1. s \in Slots /\ mgr.full[s] # NULL /\ row < mgr.nrows[s] /\ col < mgr.ncols[s]
    BY <1>2 DEF AccessOutcome, Accessible, InBounds
  <2>2. /\ mgr.nrows[s] \in Nat \ {0} /\ mgr.ncols[s] \in Nat \ {0}
        /\ mgr.nrows[s] \in R /\ mgr.ncols[s] \in C
    BY <2>1 DEF IsManager, Sized
  <2>3. row \in 0 .. mgr.nrows[s] - 1 /\ col \in 0 .. mgr.ncols[s] - 1
    BY <2>1, <2>2
  <2>4. /\ new.next = mgr.next /\ new.nrows = mgr.nrows /\ new.ncols = mgr.ncols
        /\ new.full[s] = [mgr.full[s] EXCEPT ![row][col] = v]
        /\ \A t \in Slots : t # s => new.full[t] = mgr.full[t]
    BY <1>2, <2>1 DEF CachePut, IsManager
  <2> DEFINE A == 0 .. mgr.nrows[s] - 1
             B == 0 .. mgr.ncols[s] - 1
             W == V \union {NULL}
  <2>5. mgr.full[s] \in [A -> [B -> W]] /\ v \in W
    BY <2>1 DEF Sized
  <2>6. NULL \notin [A -> [B -> W]]
    BY <2>2 DEF NoNullTable
  <2>7. row \in A /\ col \in B
    BY <2>3
  <2> HIDE DEF A, B, W
  <2>8. new.full[s] \in [A -> [B -> W]]
    <3>1. [mgr.full[s] EXCEPT ![row][col] = v] \in [A -> [B -> W]]
      BY <2>5, StoreInCell
    <3> QED BY <2>4, <3>1
  <2>9. /\ new.full[s][row][col] = v
        /\ \A r \in A, c \in B : r # row \/ c # col => new.full[s][r][c] = mgr.full[s][r][c]
    BY <2>4, <2>5, <2>7
  <2>10. \A t \in Slots : new.full[t] = NULL <=> mgr.full[t] = NULL
    BY <2>1, <2>4, <2>6, <2>8
  <2> USE DEF A, B, W
  <2> QED BY <1>2, <2>1, <2>3, <2>4, <2>9, <2>10
<1> QED BY <1>1, <1>2

(* cache_init() makes one empty table, in the next slot, ... *)
LEMMA InitCreates ==
  ASSUME NEW R, NEW C, NEW V, NEW mgr, IsManager(mgr, R, C, V),
         NEW n \in Nat, NEW m \in Nat, NEW memory \in BOOLEAN,
         CacheInitOutcome(mgr, n, m, memory) = "created",
         NEW new, new = CacheInit(mgr, n, m, memory), NEW s, s = NextSlot(mgr)
  PROVE  /\ CacheInitResult(mgr, n, m, memory) = s
         /\ s \in Slots /\ new.next = s
         /\ n \in Nat \ {0} /\ m \in Nat \ {0}
         /\ new.full[s] = ZeroTable(n, m)
         /\ new.nrows[s] = n /\ new.ncols[s] = m
         /\ \A t \in Slots \ {s} : /\ new.full[t] = mgr.full[t]
                                   /\ new.nrows[t] = mgr.nrows[t]
                                   /\ new.ncols[t] = mgr.ncols[t]
<1>1. s \in Slots /\ n \in Nat \ {0} /\ m \in Nat \ {0}
  BY DEF CacheInitOutcome
<1>2. /\ new.next = s
      /\ new.full  = [mgr.full EXCEPT ![s] = ZeroTable(n, m)]
      /\ new.nrows = [mgr.nrows EXCEPT ![s] = n]
      /\ new.ncols = [mgr.ncols EXCEPT ![s] = m]
  BY DEF CacheInit
<1>3. /\ mgr.full = [t \in Slots |-> mgr.full[t]]
      /\ DOMAIN mgr.nrows = Slots /\ DOMAIN mgr.ncols = Slots
  BY DEF IsManager
<1>4. /\ new.full[s] = ZeroTable(n, m) /\ new.nrows[s] = n /\ new.ncols[s] = m
      /\ \A t \in Slots \ {s} : /\ new.full[t] = mgr.full[t]
                                /\ new.nrows[t] = mgr.nrows[t]
                                /\ new.ncols[t] = mgr.ncols[t]
  BY <1>1, <1>2, <1>3
<1> QED BY <1>1, <1>2, <1>4 DEF CacheInitResult

(* ... or none; *)
LEMMA InitRefuses ==
  ASSUME NEW R, NEW C, NEW V, NEW mgr, IsManager(mgr, R, C, V),
         NEW n, NEW m, NEW memory \in BOOLEAN,
         CacheInitOutcome(mgr, n, m, memory) # "created",
         NEW new, new = CacheInit(mgr, n, m, memory)
  PROVE  /\ CacheInitResult(mgr, n, m, memory) = -1
         /\ new.next \in {mgr.next, NextSlot(mgr)}
         /\ new.full = mgr.full /\ new.nrows = mgr.nrows /\ new.ncols = mgr.ncols
BY DEF CacheInit, CacheInitResult, IsManager

(* in either case tables keep the dimensions that accesses compare with.   *)
LEMMA InitSized ==
  ASSUME NEW R, NEW C, NEW V, R \subseteq Nat, C \subseteq Nat,
         NEW mgr, IsManager(mgr, R \ {0}, C \ {0}, V), Sized(mgr, V),
         NEW n \in R, NEW m \in C, NEW memory \in BOOLEAN
  PROVE  Sized(CacheInit(mgr, n, m, memory), V)
<1> DEFINE new == CacheInit(mgr, n, m, memory)
           s   == NextSlot(mgr)
<1>1. new = CacheInit(mgr, n, m, memory) /\ s = NextSlot(mgr)
  OBVIOUS
<1> HIDE DEF new, s
<1>4. n \in Nat /\ m \in Nat
  OBVIOUS
<1>2. CASE CacheInitOutcome(mgr, n, m, memory) = "created"
  <2>1. /\ n \in Nat \ {0} /\ m \in Nat \ {0}
        /\ new.full[s] = ZeroTable(n, m) /\ new.nrows[s] = n /\ new.ncols[s] = m
        /\ \A t \in Slots \ {s} : /\ new.full[t] = mgr.full[t]
                                  /\ new.nrows[t] = mgr.nrows[t]
                                  /\ new.ncols[t] = mgr.ncols[t]
    BY <1>1, <1>2, <1>4, InitCreates
  <2>2. ZeroTable(n, m) \in [0 .. n - 1 -> [0 .. m - 1 -> V \union {NULL}]]
    BY DEF ZeroTable
  <2>3. ASSUME NEW t \in Slots, new.full[t] # NULL
        PROVE  /\ new.nrows[t] \in Nat \ {0} /\ new.ncols[t] \in Nat \ {0}
               /\ new.full[t] \in [0 .. new.nrows[t] - 1 ->
                                     [0 .. new.ncols[t] - 1 -> V \union {NULL}]]
    <3>1. CASE t = s
      BY <2>1, <2>2, <3>1
    <3>2. CASE t # s
      BY <2>1, <2>3, <3>2 DEF Sized
    <3> QED BY <3>1, <3>2
  <2> QED BY <1>1, <2>3 DEF Sized
<1>3. CASE CacheInitOutcome(mgr, n, m, memory) # "created"
  <2>1. new.full = mgr.full /\ new.nrows = mgr.nrows /\ new.ncols = mgr.ncols
    BY <1>1, <1>3, InitRefuses
  <2> QED BY <1>1, <2>1 DEF Sized
<1> QED BY <1>2, <1>3

(* What a client retrieves after a put: the value, from that cell, and     *)
(* from every other cell what it retrieved before.                         *)
LEMMA RetrieveAfterPut ==
  ASSUME NEW R, NEW C, NEW V, NoNullTable(R, C, V),
         NEW mgr, IsManager(mgr, R, C, V), Sized(mgr, V),
         NEW s, NEW row \in Nat, NEW col \in Nat, NEW v \in V \union {NULL},
         NEW t, NEW r \in Nat, NEW c \in Nat
  PROVE  CacheRetrieve(CachePut(mgr, s, row, col, v), t, r, c) =
           IF CacheRetrieve(mgr, s, row, col).status = 0 /\ t = s /\ r = row /\ c = col
             THEN [status |-> 0, val |-> v]
             ELSE CacheRetrieve(mgr, t, r, c)
<1> DEFINE new == CachePut(mgr, s, row, col, v)
<1>4. new = CachePut(mgr, s, row, col, v)
  OBVIOUS
<1> HIDE DEF new
<1>1. CacheRetrieve(mgr, s, row, col).status = 0
        <=> AccessOutcome(mgr, s, row, col) = "served"
  BY DEF CacheRetrieve
<1>2. CASE AccessOutcome(mgr, s, row, col) # "served"
  BY <1>1, <1>2, <1>4 DEF CachePut
<1>3. CASE AccessOutcome(mgr, s, row, col) = "served"
  <2>1. /\ new.nrows = mgr.nrows /\ new.ncols = mgr.ncols
        /\ \A q \in Slots : new.full[q] = NULL <=> mgr.full[q] = NULL
        /\ s \in Slots /\ mgr.full[s] # NULL
        /\ new.full[s][row][col] = v
        /\ \A q \in Slots : q # s => new.full[q] = mgr.full[q]
        /\ \A q \in 0 .. mgr.nrows[s] - 1, d \in 0 .. mgr.ncols[s] - 1 :
             q # row \/ d # col => new.full[s][q][d] = mgr.full[s][q][d]
    BY <1>3, <1>4, PutCells
  <2>2. AccessOutcome(new, t, r, c) = AccessOutcome(mgr, t, r, c)
    BY <2>1 DEF AccessOutcome, Accessible, InBounds
  <2>3. CASE AccessOutcome(mgr, t, r, c) # "served"
    <3>1. ~(t = s /\ r = row /\ c = col)
      BY <1>3, <2>3
    <3> QED BY <1>4, <2>2, <2>3, <3>1 DEF CacheRetrieve
  <2>4. CASE AccessOutcome(mgr, t, r, c) = "served"
    <3>1. t \in Slots /\ mgr.full[t] # NULL /\ r < mgr.nrows[t] /\ c < mgr.ncols[t]
      BY <2>4 DEF AccessOutcome, Accessible, InBounds
    <3>2. mgr.nrows[t] \in Nat /\ mgr.ncols[t] \in Nat
      BY <3>1 DEF Sized
    <3>3. r \in 0 .. mgr.nrows[t] - 1 /\ c \in 0 .. mgr.ncols[t] - 1
      BY <3>1, <3>2
    <3>4. new.full[t][r][c] = IF t = s /\ r = row /\ c = col THEN v ELSE mgr.full[t][r][c]
      BY <2>1, <3>1, <3>3
    <3> QED BY <1>1, <1>3, <1>4, <2>2, <2>4, <3>4 DEF CacheRetrieve
  <2> QED BY <2>3, <2>4
<1> QED BY <1>2, <1>3

(* What a client retrieves after cache_init(): nothing from the new table, *)
(* and from the others what it retrieved before.                           *)
LEMMA RetrieveAfterInit ==
  ASSUME NEW R, NEW C, NEW V, NEW mgr, IsManager(mgr, R, C, V),
         NEW n \in Nat, NEW m \in Nat, NEW memory \in BOOLEAN,
         NEW t, NEW r \in Nat, NEW c \in Nat
  PROVE  /\ CacheInitOutcome(mgr, n, m, memory) = "created" /\ t = NextSlot(mgr) =>
              CacheRetrieve(CacheInit(mgr, n, m, memory), t, r, c).val = NULL
         /\ CacheInitOutcome(mgr, n, m, memory) # "created" \/ t # NextSlot(mgr) =>
              CacheRetrieve(CacheInit(mgr, n, m, memory), t, r, c) = CacheRetrieve(mgr, t, r, c)
<1> DEFINE new == CacheInit(mgr, n, m, memory)
           s   == NextSlot(mgr)
<1>1. new = CacheInit(mgr, n, m, memory) /\ s = NextSlot(mgr)
  OBVIOUS
<1> HIDE DEF new, s
<1>2. CASE CacheInitOutcome(mgr, n, m, memory) = "created"
  <2>1. /\ s \in Slots /\ n \in Nat \ {0} /\ m \in Nat \ {0}
        /\ new.full[s] = ZeroTable(n, m) /\ new.nrows[s] = n /\ new.ncols[s] = m
        /\ \A q \in Slots \ {s} : /\ new.full[q] = mgr.full[q]
                                  /\ new.nrows[q] = mgr.nrows[q]
                                  /\ new.ncols[q] = mgr.ncols[q]
    BY <1>1, <1>2, InitCreates
  <2>2. CASE t = s
    <3>1. CASE AccessOutcome(new, t, r, c) = "served"
      <4>1. r < n /\ c < m
        BY <2>1, <2>2, <3>1 DEF AccessOutcome, Accessible, InBounds
      <4>2. r \in 0 .. n - 1 /\ c \in 0 .. m - 1
        BY <2>1, <4>1
      <4>3. new.full[s][r][c] = NULL
        BY <2>1, <4>2 DEF ZeroTable
      <4> QED BY <1>1, <1>2, <2>2, <3>1, <4>3 DEF CacheRetrieve
    <3>2. CASE AccessOutcome(new, t, r, c) # "served"
      BY <1>1, <1>2, <2>2, <3>2 DEF CacheRetrieve
    <3> QED BY <3>1, <3>2
  <2>3. CASE t # s
    <3>1. AccessOutcome(new, t, r, c) = AccessOutcome(mgr, t, r, c)
      BY <2>1, <2>3 DEF AccessOutcome, Accessible, InBounds
    <3>2. AccessOutcome(mgr, t, r, c) = "served" => new.full[t] = mgr.full[t]
      BY <2>1, <2>3 DEF AccessOutcome, Accessible, InBounds
    <3> QED BY <1>1, <2>3, <3>1, <3>2 DEF CacheRetrieve
  <2> QED BY <2>2, <2>3
<1>3. CASE CacheInitOutcome(mgr, n, m, memory) # "created"
  <2>1. new.full = mgr.full /\ new.nrows = mgr.nrows /\ new.ncols = mgr.ncols
    BY <1>1, <1>3, InitRefuses
  <2> QED BY <1>1, <1>3, <2>1 DEF CacheRetrieve, AccessOutcome, Accessible, InBounds
<1> QED BY <1>2, <1>3

LEMMA ShortSlot ==
  ASSUME NEW s \in Slots \union {-1}
  PROVE  IF s = -1 THEN AsUShort(s) \notin Slots ELSE AsUShort(s) = s
<1>1. ShortRange \in Nat /\ MaxCaches \in Nat /\ MaxCaches + 1 < ShortRange
  BY CacheSizes
<1>2. CASE s = -1
  <2>1. (-1) % ShortRange = ShortRange - 1
    BY <1>1
  <2> QED BY <1>1, <1>2, <2>1 DEF AsUShort, Slots
<1>3. CASE s # -1
  <2>1. s \in 0 .. ShortRange - 1
    BY <1>1, <1>3 DEF Slots
  <2>2. s % ShortRange = s
    BY <1>1, <2>1
  <2> QED BY <1>3, <2>2 DEF AsUShort
<1> QED BY <1>2, <1>3

============================================================================
