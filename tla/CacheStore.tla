----------------------------- MODULE CacheStore -----------------------------
(***************************************************************************)
(* What C/cache.h promises of the cache manager, with no slot counter and  *)
(* no tables: a client asks for a cache and is given a handle that nobody  *)
(* was given before; it puts pointers in the cells of the cache and gets   *)
(* back the last one put there; a destroyed cache holds nothing and serves *)
(* nothing.                                                                *)
(***************************************************************************)
EXTENDS Integers

CONSTANTS Handles, Values, NoValue, Dims, Args

VARIABLES
  given,    \* handles given to clients
  open,     \* those of them whose cache is not destroyed
  dims,     \* their dimensions
  stored,   \* what is in their cells: a set of <<handle, row, col, value>>
  answer    \* the last call and what it returned

storeVars == <<given, open, dims, stored, answer>>

StoreInit ==
  /\ given = {}
  /\ open = {}
  /\ dims = {}
  /\ stored = {}
  /\ answer.op = "start"

IsCell(a) ==
  /\ a[1] \in open
  /\ \E d \in dims : d[1] = a[1] /\ a[2] < d[2] /\ a[3] < d[3]

Say(op, a, status, v) ==
  /\ answer'.op = op
  /\ <<answer'.slot, answer'.row, answer'.col>> = a
  /\ answer'.status = status
  /\ answer'.val = v

Create(h, nrows, ncols) ==
  /\ h \notin given
  /\ given' = given \union {h}
  /\ open' = open \union {h}
  /\ dims' = dims \union {<<h, nrows, ncols>>}
  /\ Say("cache_init", <<h, 0, 0>>, 0, NoValue)
  /\ UNCHANGED stored

RefuseCreate ==
  /\ Say("cache_init", <<-1, 0, 0>>, -1, NoValue)
  /\ UNCHANGED <<given, open, dims, stored>>

Put(a, v) ==
  /\ stored' = IF IsCell(a)
                 THEN {e \in stored : <<e[1], e[2], e[3]>> # a}
                        \union {<<a[1], a[2], a[3], v>>}
                 ELSE stored
  /\ Say("cache_put", a, IF IsCell(a) THEN 0 ELSE -1, v)
  /\ UNCHANGED <<given, open, dims>>

Get(a) ==
  /\ \/ ~IsCell(a) /\ Say("cache_retrieve", a, -1, NoValue)
     \/ /\ IsCell(a)
        /\ <<a[1], a[2], a[3], answer'.val>> \in stored
        /\ Say("cache_retrieve", a, 0, answer'.val)
     \/ /\ IsCell(a)
        /\ \A e \in stored : <<e[1], e[2], e[3]>> # a
        /\ Say("cache_retrieve", a, 0, NoValue)
  /\ UNCHANGED <<given, open, dims, stored>>

(* The shutdown of the whole library closes some of the caches: C/cache.h  *)
(* does not say which.                                                     *)
Close(H) ==
  /\ open' = open \ H
  /\ dims' = {d \in dims : d[1] \notin H}
  /\ stored' = {e \in stored : e[1] \notin H}
  /\ \/ answer'.op = "cache_full_cache_destroy"
     \/ answer'.op = "cache_destroy" /\ H = {answer'.slot} \intersect open
  /\ UNCHANGED given

(* The heap is not the store's. *)
Elsewhere ==
  /\ answer'.op = "heap"
  /\ UNCHANGED <<given, open, dims, stored>>

(* The arguments of a call are those its answer names. *)
StoreNext ==
  LET a == <<answer'.slot, answer'.row, answer'.col>> IN
  \/ \E d \in Dims : a[1] \in Handles /\ Create(a[1], d[1], d[2])
  \/ RefuseCreate
  \/ a \in Args /\ Get(a)
  \/ a \in Args /\ answer'.val \in Values /\ Put(a, answer'.val)
  \/ Close(open \ open')
  \/ Elsewhere

StoreSpec == StoreInit /\ [][StoreNext]_storeVars
=============================================================================
