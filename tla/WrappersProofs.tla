--------------------------- MODULE WrappersProofs ---------------------------
(***************************************************************************)
(* The safety properties of Wrappers, for every use of the libraries, all  *)
(* sizes of cache and all compression factors.  The invariant says what    *)
(* each library finds behind its own slot: values of its own, of the kind  *)
(* of the column and of the bins of the row.                               *)
(***************************************************************************)
EXTENDS Wrappers, CacheOpsProofs

Rows == RowCounts \ {0}
Cols == {1, 2}

Grids == {1} \union UNION {{c[1], c[2]} : c \in Compressions}

KindOf(lib, col) ==
  CASE lib = "orbit"    -> (IF col = SatposCol THEN "satpos" ELSE "polar")
    [] lib = "solar"    -> (IF col = SunCol THEN "sun" ELSE "moon")
    [] lib = "attitude" -> "target"

Belongs(v, lib, row, col) ==
  /\ v \in Stamps
  /\ v.kind = KindOf(lib, col)
  /\ lib = "orbit" => v.of = row
  /\ lib = "solar" /\ col = SunCol => v.of \div v.grid = row

Found(m, lib, row, col) == CellOf(m, lib, row, col).val

(* What every library finds in the manager m belongs where it is. *)
Filled(m) ==
  \A lib \in Libraries, row \in Nat, col \in Nat :
    Found(m, lib, row, col) # NULL => Belongs(Found(m, lib, row, col), lib, row, col)

Sound(m) ==
  /\ IsManager(m, Rows, Cols, Stamps)
  /\ Sized(m, Stamps)
  /\ Filled(m)

(* No two libraries have the same slot, *)
SlotsApart ==
  /\ slot \in [Libraries -> Slots \union {-1}]
  /\ \A k, l \in Libraries : k # l /\ slot[k] # -1 => slot[k] # slot[l]

(* nor one that is still to be handed out. *)
SlotsGiven ==
  \A l \in Libraries : slot[l] # -1 => slot[l] <= cm.next /\ cm.next < ShortRange - 1

Factors == comp \in [sun : Grids, moon : Grids]

Ready == SlotsApart /\ Factors /\ (els # "set" => slot["orbit"] = -1)

WrapInv ==
  /\ Ready /\ SlotsGiven /\ Sound(cm)
  /\ els \in {"null", "set", "freed"}
  /\ fault \in {"none", "oob_write", "div_by_zero"}
  /\ reply.status \in {0, -1} /\ reply.used \subseteq Stamps \union {Junk}
  /\ SatelliteOfItsBin /\ SunOfItsGroup /\ OccultationInputs

(* What a call finds, later calls find too. *)
Keeps(m, n) ==
  \A lib \in Libraries, row \in Nat, col \in Nat :
    Found(m, lib, row, col) # NULL => Found(n, lib, row, col) = Found(m, lib, row, col)

(* A C function that is called with the manager m and yields o leaves one  *)
(* in which values belong where they are, and what was there.              *)
Good(m, o) ==
  /\ Sound(o.m) /\ o.m.next = m.next /\ Keeps(m, o.m)
  /\ o.status \in {0, -1} /\ o.died \in {"none", "div_by_zero"}
  /\ o.used \subseteq Stamps \union {Junk}

(* What SunOfItsGroup says of an answer about bin b *)
SunsOf(used, b) ==
  \A s \in used :
    /\ s.kind = "sun" /\ s.grid = comp.sun => s.of \div comp.sun = b \div comp.sun
    /\ s.kind = "raw_sun" => s.of = b

----------------------------------------------------------------------------
(* Sizes and rows                                                          *)

LEMMA Sizes ==
  /\ RowCounts \subseteq Nat /\ Bins \subseteq Nat /\ Grids \subseteq Nat
  /\ \A b \in Bins : NoRow \in Nat /\ b # NoRow
  /\ \A n \in RowCounts : n <= NoRow
  /\ NoNullTable(Rows, Cols, Stamps)
<1>1. \A c \in Compressions : c[1] \in Nat /\ c[2] \in Nat
  BY WrapperSizes
<1>2. Grids \subseteq Nat
  BY <1>1 DEF Grids
<1>3. NoNullTable(Rows, Cols, Stamps)
  BY NullIsNoTable DEF NoNullTable, Rows, Cols
<1> QED BY <1>2, <1>3, WrapperSizes DEF NoRow

LEMMA StampType ==
  ASSUME NEW kind \in {"satpos", "polar", "sun", "raw_sun", "moon", "target"},
         NEW of \in Bins \union Targets, NEW grid \in Grids
  PROVE  /\ Stamp(kind, of, grid) \in Stamps
         /\ Stamp(kind, of, grid).kind = kind
         /\ Stamp(kind, of, grid).of = of
         /\ Stamp(kind, of, grid).grid = grid
BY DEF Stamp, Stamps, Grids

LEMMA DivNat ==
  ASSUME NEW a \in Nat, NEW d \in Nat, d # 0
  PROVE  a \div d \in Nat
OBVIOUS

(* Row -1 is past the end of every cache. *)
LEMMA NoRowRefused ==
  ASSUME NEW m, IsManager(m, Rows, Cols, Stamps),
         NEW lib, NEW col, NEW b \in Bins
  PROVE  CellOf(m, lib, NoRow, col).status = -1
<1> DEFINE s == AsUShort(slot[lib])
<1>1. CASE s \in Slots
  <2>1. m.nrows[s] \in {0} \union Rows
    BY <1>1 DEF IsManager
  <2>2. NoRow \in Nat
    BY Sizes
  <2>3. m.nrows[s] \in Nat /\ m.nrows[s] <= NoRow
    <3>1. CASE m.nrows[s] = 0
      BY <2>2, <3>1
    <3>2. CASE m.nrows[s] \in RowCounts
      BY <3>2, Sizes
    <3> QED BY <2>1, <3>1, <3>2 DEF Rows
  <2>4. ~(NoRow < m.nrows[s])
    BY <2>2, <2>3
  <2> QED BY <2>4 DEF CellOf, CacheRetrieve, AccessOutcome, Accessible, InBounds
<1>2. CASE s \notin Slots
  BY <1>2 DEF CellOf, CacheRetrieve, AccessOutcome, Accessible, InBounds
<1> QED BY <1>1, <1>2

LEMMA FoundType ==
  ASSUME NEW m, Sound(m), NEW lib, NEW row \in Nat, NEW col \in Nat
  PROVE  /\ CellOf(m, lib, row, col).status \in {0, -1}
         /\ Found(m, lib, row, col) \in Stamps \union {NULL}
         /\ CellOf(m, lib, row, col).status = -1 => Found(m, lib, row, col) = NULL
<1>1. Rows \subseteq Nat /\ Cols \subseteq Nat
  BY Sizes DEF Rows, Cols
<1>2. /\ CellOf(m, lib, row, col).status \in {0, -1}
      /\ Found(m, lib, row, col) \in Stamps \union {NULL}
  BY <1>1, RetrieveType DEF Sound, Found, CellOf
<1> QED BY <1>2 DEF Found, CellOf, CacheRetrieve

(* A library without a cache finds nothing. *)
LEMMA NoSlotRefused ==
  ASSUME SlotsApart, NEW m, NEW lib \in Libraries, slot[lib] = -1, NEW row, NEW col
  PROVE  CellOf(m, lib, row, col) = [status |-> -1, val |-> NULL]
<1>1. AsUShort(slot[lib]) \notin Slots
  BY ShortSlot
<1> QED BY <1>1 DEF CellOf, CacheRetrieve, AccessOutcome, Accessible, InBounds

LEMMA SlotOfOne ==
  ASSUME SlotsApart, NEW k \in Libraries, NEW l \in Libraries,
         AsUShort(slot[k]) = AsUShort(slot[l]), AsUShort(slot[l]) \in Slots
  PROVE  k = l
<1>1. slot[k] \in Slots \union {-1} /\ slot[l] \in Slots \union {-1}
  BY DEF SlotsApart
<1>2. slot[k] # -1 /\ slot[l] # -1 /\ slot[k] = slot[l]
  BY <1>1, ShortSlot
<1> QED BY <1>2 DEF SlotsApart

(* A value stored where the library found none is found there by that      *)
(* library, and changes what nobody else finds.                            *)
LEMMA StoreCells ==
  ASSUME SlotsApart, NEW m, Sound(m), NEW lib \in Libraries, NEW row \in Nat,
         NEW col \in Nat, NEW v \in Stamps \union {NULL},
         v # NULL => Belongs(v, lib, row, col), Found(m, lib, row, col) = NULL
  PROVE  /\ Sound(Store(m, lib, row, col, v))
         /\ Store(m, lib, row, col, v).next = m.next
         /\ Keeps(m, Store(m, lib, row, col, v))
         /\ \A l \in Libraries, r \in Nat, c \in Nat :
              l # lib \/ r # row \/ c # col =>
                CellOf(Store(m, lib, row, col, v), l, r, c) = CellOf(m, l, r, c)
<1> DEFINE new == Store(m, lib, row, col, v)
           s   == AsUShort(slot[lib])
<1>1. /\ IsManager(m, Rows, Cols, Stamps) /\ Sized(m, Stamps) /\ Filled(m)
      /\ NoNullTable(Rows, Cols, Stamps)
  BY Sizes DEF Sound
<1>2. new = CachePut(m, s, row, col, v)
  BY DEF Store
<1> HIDE DEF new, s
<1>3. Sized(new, Stamps) /\ new.next = m.next
  BY <1>1, <1>2, PutSized
<1>4. IsManager(new, Rows, Cols, Stamps)
  BY <1>1, <1>2, CachePutType
<1>5. ASSUME NEW l \in Libraries, NEW r \in Nat, NEW c \in Nat
      PROVE  CellOf(new, l, r, c) =
               IF l = lib /\ r = row /\ c = col /\ CellOf(m, lib, row, col).status = 0
                 THEN [status |-> 0, val |-> v]
                 ELSE CellOf(m, l, r, c)
  <2> USE DEF s
  <2>1. CacheRetrieve(new, AsUShort(slot[l]), r, c) =
          IF CacheRetrieve(m, s, row, col).status = 0 /\ AsUShort(slot[l]) = s /\ r = row /\ c = col
            THEN [status |-> 0, val |-> v]
            ELSE CacheRetrieve(m, AsUShort(slot[l]), r, c)
    BY <1>1, <1>2, RetrieveAfterPut
  <2>2. CacheRetrieve(m, s, row, col).status = 0 => s \in Slots
    BY DEF CacheRetrieve, AccessOutcome, Accessible, InBounds
  <2>3. CacheRetrieve(m, s, row, col).status = 0 /\ AsUShort(slot[l]) = s => l = lib
    BY <2>2, SlotOfOne
  <2> QED BY <2>1, <2>3 DEF CellOf
<1>6. Filled(new)
  BY <1>1, <1>5 DEF Filled, Found
<1>7. Keeps(m, new)
  BY <1>5 DEF Keeps, Found
<1>8. Sound(new)
  BY <1>3, <1>4, <1>6 DEF Sound
<1> QED BY <1>3, <1>5, <1>7, <1>8 DEF new

(* A call that stores nothing *)
LEMMA KeepsSame ==
  ASSUME NEW m
  PROVE  Keeps(m, m)
BY DEF Keeps

LEMMA KeepsChain ==
  ASSUME NEW k, NEW m, NEW n, Keeps(k, m), Keeps(m, n)
  PROVE  Keeps(k, n)
BY DEF Keeps

----------------------------------------------------------------------------
(* The C functions: m is any sound manager, b a bin and row its row, or -1 *)

LEMMA SatPosGood ==
  ASSUME Ready, NEW m, Sound(m), NEW b \in Bins, NEW row \in {b, NoRow}, NEW oom
  PROVE  LET o == SatPos(m, b, row, oom)
         IN  /\ Good(m, o)
             /\ o.status = 0 => \E s \in Stamps : s.kind = "satpos" /\ s.of = b /\ o.used = {s}
             /\ CellOf(o.m, "orbit", row, PolarCol) = CellOf(m, "orbit", row, PolarCol)
             /\ o.status = 0 => row = b
<1> DEFINE o     == SatPos(m, b, row, oom)
           found == CellOf(m, "orbit", row, SatposCol)
           fresh == Stamp("satpos", b, 1)
<1>1. /\ SlotsApart /\ IsManager(m, Rows, Cols, Stamps) /\ row \in Nat
      /\ "orbit" \in Libraries /\ SatposCol \in Nat /\ PolarCol \in Nat /\ SatposCol # PolarCol
  BY Sizes DEF Ready, Sound, Libraries, SatposCol, PolarCol
<1>2. found.status \in {0, -1} /\ found.val \in Stamps \union {NULL}
  BY <1>1, FoundType DEF Found
<1>3. found.status # -1 => row = b
  BY <1>1, NoRowRefused
<1>4. /\ fresh \in Stamps /\ fresh.kind = "satpos" /\ fresh.of = b
  BY StampType DEF Grids
<1>5. CASE els = "null" \/ found.status = -1
  <2>1. o = Refused(m)
    BY <1>5 DEF SatPos
  <2> QED BY <2>1, KeepsSame DEF Refused, Outcome, Good
<1>6. CASE ~(els = "null" \/ found.status = -1) /\ found.val # NULL
  <2>1. o = Served({found.val}, m)
    BY <1>6 DEF SatPos
  <2>2. Belongs(found.val, "orbit", row, SatposCol)
    BY <1>1, <1>6 DEF Sound, Filled, Found
  <2>3. found.val \in Stamps /\ found.val.kind = "satpos" /\ found.val.of = b
    BY <1>3, <1>6, <2>2 DEF Belongs, KindOf
  <2> HIDE DEF found
  <2> QED BY <1>3, <1>6, <2>1, <2>3, KeepsSame DEF Served, Outcome, Good
<1>7. CASE ~(els = "null" \/ found.status = -1) /\ found.val = NULL
  <2>1. els # "freed"
    <3>1. slot["orbit"] # -1
      BY <1>1, <1>7, NoSlotRefused
    <3> QED BY <3>1 DEF Ready
  <2>2. CASE oom = "satpos"
    <3>1. o = Refused(m)
      BY <1>7, <2>1, <2>2 DEF SatPos
    <3> QED BY <3>1, KeepsSame DEF Refused, Outcome, Good
  <2>3. CASE oom # "satpos"
    <3> DEFINE new == Store(m, "orbit", row, SatposCol, fresh)
    <3>1. o = Served({fresh}, new)
      BY <1>7, <2>1, <2>3 DEF SatPos
    <3>2. Belongs(fresh, "orbit", row, SatposCol)
      BY <1>3, <1>4, <1>7 DEF Belongs, KindOf
    <3>3. /\ Sound(new) /\ new.next = m.next /\ Keeps(m, new)
          /\ CellOf(new, "orbit", row, PolarCol) = CellOf(m, "orbit", row, PolarCol)
      BY <1>1, <1>4, <1>7, <3>2, StoreCells DEF Found
    <3> HIDE DEF new, fresh
    <3> QED BY <1>3, <1>4, <1>7, <3>1, <3>3 DEF Served, Outcome, Good
  <2> QED BY <2>2, <2>3
<1> QED BY <1>5, <1>6, <1>7

LEMMA PolarGood ==
  ASSUME Ready, NEW m, Sound(m), NEW b \in Bins, NEW row \in {b, NoRow}, NEW oom
  PROVE  LET o == Polar(m, b, row, oom)
         IN  /\ Good(m, o)
             /\ o.status = 0 => \A s \in o.used : s.kind = "polar" => s.of = b
             /\ o.status = 0 => \A s \in o.used : s.kind \in {"polar", "junk"}
<1> DEFINE o     == Polar(m, b, row, oom)
           found == CellOf(m, "orbit", row, PolarCol)
           geod  == Geodetic(m, b, row, oom)
           fresh == Stamp("polar", (CHOOSE s \in geod.used : TRUE).of, 1)
           kept  == IF oom = "polar" THEN NULL ELSE fresh
           new   == Store(geod.m, "orbit", row, PolarCol, kept)
<1>1. /\ SlotsApart /\ row \in Nat /\ "orbit" \in Libraries /\ PolarCol \in Nat
      /\ PolarCol # SatposCol
  BY Sizes DEF Ready, Libraries, PolarCol, SatposCol
<1>2. found.status \in {0, -1}
  BY <1>1, FoundType DEF Found
<1>3. /\ Good(m, geod)
      /\ geod.status = 0 => \E s \in Stamps : s.kind = "satpos" /\ s.of = b /\ geod.used = {s}
      /\ CellOf(geod.m, "orbit", row, PolarCol) = found
      /\ geod.status = 0 => row = b
  BY SatPosGood DEF Geodetic
<1>4. CASE found.status = -1
  <2>1. o = Refused(m)
    BY <1>4 DEF Polar
  <2> QED BY <2>1, KeepsSame DEF Refused, Outcome, Good
<1>5. CASE found.status # -1 /\ found.val # NULL
  <2>1. o = Served({Junk}, m)
    BY <1>5 DEF Polar
  <2>2. Junk.kind = "junk"
    BY DEF Junk, Stamp
  <2> QED BY <2>1, <2>2, KeepsSame DEF Served, Outcome, Good
<1>6. CASE found.status # -1 /\ found.val = NULL /\ geod.status = -1
  <2>1. o = geod
    BY <1>6 DEF Polar
  <2> HIDE DEF geod
  <2> QED BY <1>3, <1>6, <2>1
<1>7. CASE found.status # -1 /\ found.val = NULL /\ geod.status # -1
  <2>1. o = Served({fresh}, new)
    BY <1>7 DEF Polar
  <2>2. geod.status = 0
    BY <1>3, <1>7 DEF Good
  <2> HIDE DEF geod
  <2>3. (CHOOSE s \in geod.used : TRUE).of = b
    BY <1>3, <2>2
  <2>4. fresh \in Stamps /\ fresh.kind = "polar" /\ fresh.of = b
    BY <2>3, StampType DEF Grids
  <2> HIDE DEF fresh, found
  <2>5. kept \in Stamps \union {NULL}
    BY <2>4
  <2>6. kept # NULL => Belongs(kept, "orbit", row, PolarCol)
    BY <1>1, <1>3, <2>2, <2>4 DEF Belongs, KindOf, SunCol
  <2> HIDE DEF kept
  <2>7. Found(geod.m, "orbit", row, PolarCol) = NULL /\ Sound(geod.m)
    BY <1>3, <1>7 DEF Found, Good
  <2>8. Sound(new) /\ new.next = geod.m.next /\ Keeps(geod.m, new)
    BY <1>1, <2>5, <2>6, <2>7, StoreCells
  <2>9. new.next = m.next /\ Keeps(m, new)
    BY <1>3, <2>8, KeepsChain DEF Good
  <2> HIDE DEF new
  <2> QED BY <2>1, <2>4, <2>8, <2>9 DEF Served, Outcome, Good
<1> QED BY <1>2, <1>4, <1>5, <1>6, <1>7

LEMMA SunGood ==
  ASSUME Ready, NEW m, Sound(m), NEW b \in Bins, NEW row \in {b, NoRow}, NEW oom
  PROVE  LET o == Sun(m, b, row, oom)
         IN  /\ Good(m, o)
             /\ o.status = 0 => \E s \in Stamps :
                  /\ o.used = {s} /\ s.kind = IF row = NoRow THEN "raw_sun" ELSE "sun"
                  /\ SunsOf(o.used, b)
<1> DEFINE o     == Sun(m, b, row, oom)
           r     == row \div comp.sun
           found == CellOf(m, "solar", r, SunCol)
           fresh == Stamp("sun", b, comp.sun)
           raw   == Stamp("raw_sun", b, 1)
<1>1. /\ SlotsApart /\ row \in Nat /\ "solar" \in Libraries /\ SunCol \in Nat
      /\ comp.sun \in Grids /\ comp.sun \in Nat
  BY Sizes DEF Ready, Libraries, SunCol, Factors
<1>2. CASE row = NoRow
  <2>1. o = Served({raw}, m)
    BY <1>2 DEF Sun
  <2>2. raw \in Stamps /\ raw.kind = "raw_sun" /\ raw.of = b
    BY StampType DEF Grids
  <2>3. SunsOf({raw}, b)
    BY <2>2 DEF SunsOf
  <2> HIDE DEF raw
  <2> QED BY <1>2, <2>1, <2>2, <2>3, KeepsSame DEF Served, Outcome, Good
<1>3. CASE row # NoRow /\ comp.sun = 0
  <2>1. o = Outcome(-1, {}, m, "div_by_zero")
    BY <1>3 DEF Sun
  <2> QED BY <2>1, KeepsSame DEF Outcome, Good
<1>4. CASE row # NoRow /\ comp.sun # 0
  <2>1. r \in Nat /\ row = b
    BY <1>1, <1>4, DivNat
  <2>2. /\ fresh \in Stamps /\ fresh.kind = "sun" /\ fresh.of = b /\ fresh.grid = comp.sun
    BY <1>1, StampType
  <2>3. found.status \in {0, -1} /\ found.val \in Stamps \union {NULL}
    BY <1>1, <2>1, FoundType DEF Found
  <2>4. fresh.of \div fresh.grid = r
    BY <2>1, <2>2
  <2> HIDE DEF r, fresh
  <2>5. CASE found.status = -1
    <3>1. o = Refused(m)
      BY <1>4, <2>5 DEF Sun, r
    <3> QED BY <3>1, KeepsSame DEF Refused, Outcome, Good
  <2>6. CASE found.status # -1 /\ found.val # NULL
    <3>1. o = Served({found.val}, m)
      BY <1>4, <2>6 DEF Sun, r
    <3>2. Belongs(found.val, "solar", r, SunCol)
      BY <1>1, <2>1, <2>6 DEF Sound, Filled, Found
    <3>3. /\ found.val \in Stamps /\ found.val.kind = "sun"
          /\ found.val.of \div found.val.grid = b \div comp.sun
      BY <2>1, <3>2 DEF Belongs, KindOf, r
    <3>4. SunsOf({found.val}, b)
      BY <3>3 DEF SunsOf
    <3> HIDE DEF found
    <3> QED BY <1>4, <3>1, <3>3, <3>4, KeepsSame DEF Served, Outcome, Good
  <2>7. CASE found.status # -1 /\ found.val = NULL /\ oom = "sun"
    <3>1. o = Refused(m)
      BY <1>4, <2>7 DEF Sun, r
    <3> QED BY <3>1, KeepsSame DEF Refused, Outcome, Good
  <2>8. CASE found.status # -1 /\ found.val = NULL /\ oom # "sun"
    <3> DEFINE new == Store(m, "solar", r, SunCol, fresh)
    <3>1. o = Served({fresh}, new)
      BY <1>4, <2>8 DEF Sun, r, fresh
    <3>2. Belongs(fresh, "solar", r, SunCol)
      BY <2>2, <2>4 DEF Belongs, KindOf
    <3>3. Sound(new) /\ new.next = m.next /\ Keeps(m, new)
      BY <1>1, <2>1, <2>2, <2>8, <3>2, StoreCells DEF Found
    <3>4. SunsOf({fresh}, b)
      BY <2>2 DEF SunsOf
    <3> HIDE DEF new
    <3> QED BY <1>4, <2>2, <3>1, <3>3, <3>4 DEF Served, Outcome, Good
  <2> QED BY <2>3, <2>5, <2>6, <2>7, <2>8
<1> QED BY <1>2, <1>3, <1>4

LEMMA MoonGood ==
  ASSUME Ready, NEW m, Sound(m), NEW b \in Bins, NEW row \in {b, NoRow}, NEW oom
  PROVE  LET o == Moon(m, b, row, oom)
         IN  Good(m, o) /\ \A s \in o.used : s.kind = "moon"
<1> DEFINE o     == Moon(m, b, row, oom)
           r     == row \div comp.moon
           found == CellOf(m, "solar", r, MoonCol)
           fresh == Stamp("moon", b, comp.moon)
<1>1. /\ SlotsApart /\ row \in Nat /\ "solar" \in Libraries /\ MoonCol \in Nat
      /\ comp.moon \in Grids /\ comp.moon \in Nat
  BY Sizes DEF Ready, Libraries, MoonCol, Factors
<1>2. CASE comp.moon = 0
  <2>1. o = Outcome(-1, {}, m, "div_by_zero")
    BY <1>2 DEF Moon
  <2> QED BY <2>1, KeepsSame DEF Outcome, Good
<1>3. CASE comp.moon # 0
  <2>1. r \in Nat
    BY <1>1, <1>3, DivNat
  <2>2. fresh \in Stamps /\ fresh.kind = "moon"
    BY <1>1, StampType
  <2>3. found.status \in {0, -1} /\ found.val \in Stamps \union {NULL}
    BY <1>1, <2>1, FoundType DEF Found
  <2> HIDE DEF r, fresh
  <2>4. CASE found.status = -1 \/ (found.val = NULL /\ oom = "moon")
    <3>1. o = Refused(m)
      BY <1>3, <2>4 DEF Moon, r
    <3> QED BY <3>1, KeepsSame DEF Refused, Outcome, Good
  <2>5. CASE found.status # -1 /\ found.val # NULL
    <3>1. o = Served({found.val}, m)
      BY <1>3, <2>5 DEF Moon, r
    <3>2. Belongs(found.val, "solar", r, MoonCol)
      BY <1>1, <2>1, <2>5 DEF Sound, Filled, Found
    <3>3. found.val.kind = "moon"
      BY <3>2 DEF Belongs, KindOf, SunCol, MoonCol
    <3> HIDE DEF found
    <3> QED BY <2>3, <2>5, <3>1, <3>3, KeepsSame DEF Served, Outcome, Good
  <2>6. CASE found.status # -1 /\ found.val = NULL /\ oom # "moon"
    <3> DEFINE new == Store(m, "solar", r, MoonCol, fresh)
    <3>1. o = Served({fresh}, new)
      BY <1>3, <2>6 DEF Moon, r, fresh
    <3>2. Belongs(fresh, "solar", r, MoonCol)
      BY <2>2 DEF Belongs, KindOf, SunCol, MoonCol
    <3>3. Sound(new) /\ new.next = m.next /\ Keeps(m, new)
      BY <1>1, <2>1, <2>2, <2>6, <3>2, StoreCells DEF Found
    <3> HIDE DEF new
    <3> QED BY <2>2, <3>1, <3>3 DEF Served, Outcome, Good
  <2> QED BY <2>3, <2>4, <2>5, <2>6
<1> QED BY <1>2, <1>3

LEMMA AddTargetGood ==
  ASSUME Ready, NEW m, Sound(m), NEW t \in Targets, NEW trow \in Nat, NEW oom
  PROVE  LET o == AddTarget(m, t, trow, oom)
         IN  Good(m, o) /\ \A s \in o.used : s.kind = "target"
<1> DEFINE o     == AddTarget(m, t, trow, oom)
           found == CellOf(m, "attitude", trow, TargetsCol)
           fresh == Stamp("target", t, 1)
<1>1. SlotsApart /\ "attitude" \in Libraries /\ TargetsCol \in Nat
  BY DEF Ready, Libraries, TargetsCol
<1>2. fresh \in Stamps /\ fresh.kind = "target"
  BY StampType DEF Grids
<1> HIDE DEF fresh
<1>3. CASE found.status = -1 \/ found.val # NULL \/ oom = "target"
  <2>1. o = Refused(m)
    BY <1>3 DEF AddTarget
  <2> QED BY <2>1, KeepsSame DEF Refused, Outcome, Good
<1>4. CASE ~(found.status = -1 \/ found.val # NULL \/ oom = "target")
  <2> DEFINE new == Store(m, "attitude", trow, TargetsCol, fresh)
  <2>1. o = Served({fresh}, new)
    BY <1>4 DEF AddTarget, fresh
  <2>2. Belongs(fresh, "attitude", trow, TargetsCol)
    BY <1>2 DEF Belongs, KindOf
  <2>3. Sound(new) /\ new.next = m.next /\ Keeps(m, new)
    BY <1>1, <1>2, <1>4, <2>2, StoreCells DEF Found
  <2> HIDE DEF new
  <2> QED BY <1>2, <2>1, <2>3 DEF Served, Outcome, Good
<1> QED BY <1>3, <1>4

LEMMA ElevationGood ==
  ASSUME Ready, NEW m, Sound(m), NEW b \in Bins, NEW row \in {b, NoRow},
         NEW trow \in Nat, NEW oom
  PROVE  LET o == Elevation(m, b, row, trow, oom)
         IN  /\ Good(m, o)
             /\ o.status = 0 =>
                  /\ {s.kind : s \in o.used} = {"satpos", "sun", "target"}
                  /\ \A s \in o.used : s.kind \in {"satpos", "polar"} => s.of = b
                  /\ SunsOf(o.used, b)
<1> DEFINE o    == Elevation(m, b, row, trow, oom)
           sat  == SatPos(m, b, row, oom)
           sun  == Sun(sat.m, b, row, oom)
           targ == CellOf(sun.m, "attitude", trow, TargetsCol)
<1>1. /\ Good(m, sat)
      /\ sat.status = 0 => \E s \in Stamps : s.kind = "satpos" /\ s.of = b /\ sat.used = {s}
      /\ sat.status = 0 => row = b
  BY SatPosGood
<1>2. Sound(sat.m)
  BY <1>1 DEF Good
<1>3. /\ Good(sat.m, sun)
      /\ sun.status = 0 => \E s \in Stamps :
           /\ sun.used = {s} /\ s.kind = IF row = NoRow THEN "raw_sun" ELSE "sun"
           /\ SunsOf(sun.used, b)
  BY <1>2, SunGood
<1>4. sun.m.next = m.next /\ Keeps(m, sun.m) /\ Sound(sun.m)
  BY <1>1, <1>3, KeepsChain DEF Good
<1>5. CASE sat.status = -1
  <2>1. o = sat
    BY <1>5 DEF Elevation
  <2> HIDE DEF sat
  <2> QED BY <1>1, <1>5, <2>1
<1>6. CASE sat.status # -1 /\ sun.status = -1
  <2>1. o = sun
    BY <1>6 DEF Elevation
  <2> HIDE DEF sun
  <2> QED BY <1>3, <1>4, <1>6, <2>1 DEF Good
<1>7. CASE sat.status # -1 /\ sun.status # -1 /\ targ.val = NULL
  <2>1. o = Refused(sun.m)
    BY <1>7 DEF Elevation
  <2> HIDE DEF sun
  <2> QED BY <1>4, <2>1 DEF Refused, Outcome, Good
<1>8. CASE sat.status # -1 /\ sun.status # -1 /\ targ.val # NULL
  <2>1. o = Served(sat.used \union sun.used \union {targ.val}, sun.m)
    BY <1>8 DEF Elevation
  <2>2. sat.status = 0 /\ sun.status = 0
    BY <1>1, <1>3, <1>8 DEF Good
  <2>3. row # NoRow
    BY <1>1, <2>2, Sizes
  <2>4. PICK p \in Stamps : p.kind = "satpos" /\ p.of = b /\ sat.used = {p}
    BY <1>1, <2>2
  <2>5. PICK q \in Stamps : q.kind = "sun" /\ sun.used = {q} /\ SunsOf({q}, b)
    BY <1>3, <2>2, <2>3
  <2>6. Belongs(targ.val, "attitude", trow, TargetsCol)
    BY <1>4, <1>8 DEF Sound, Filled, Found, Libraries, TargetsCol
  <2>7. targ.val \in Stamps /\ targ.val.kind = "target"
    BY <2>6 DEF Belongs, KindOf
  <2> HIDE DEF targ, sat, sun
  <2>8. /\ o.used = {p, q, targ.val} /\ o.status = 0 /\ o.m = sun.m /\ o.died = "none"
    BY <2>1, <2>4, <2>5 DEF Served, Outcome
  <2> HIDE DEF o
  <2>9. SunsOf(o.used, b)
    BY <2>4, <2>5, <2>7, <2>8 DEF SunsOf
  <2>10. {s.kind : s \in o.used} = {"satpos", "sun", "target"}
    BY <2>4, <2>5, <2>7, <2>8
  <2> QED BY <1>4, <2>4, <2>5, <2>7, <2>8, <2>9, <2>10 DEF Good, o
<1> QED BY <1>5, <1>6, <1>7, <1>8

----------------------------------------------------------------------------
(* The steps                                                               *)

(* What Keeps says of a step, whose call may also set the slot of a cache. *)
CachesKept ==
  \A lib \in Libraries, row \in Nat, col \in Nat :
    Found(cm, lib, row, col) # NULL =>
      Found(cm, lib, row, col)' = Found(cm, lib, row, col)

LEMMA InitInv ==
  ASSUME Init
  PROVE  WrapInv
<1>1. IsManager(cm, Rows, Cols, Stamps) /\ Sized(cm, Stamps)
  BY CacheSizes DEF Init, EmptyManager, IsManager, Sized, Slots
<1>2. SlotsApart /\ SlotsGiven /\ \A l \in Libraries : slot[l] = -1
  BY DEF Init, SlotsApart, SlotsGiven
<1>3. Filled(cm)
  BY <1>2, NoSlotRefused DEF Filled, Found
<1>4. Factors
  BY DEF Init, Factors, Grids
<1> QED BY <1>1, <1>2, <1>3, <1>4
     DEF Init, WrapInv, Ready, Sound, SatelliteOfItsBin, SunOfItsGroup, OccultationInputs, Libraries

(* A call that sets the slot of a library that had none *)
LEMMA MakeCacheStep ==
  ASSUME WrapInv, NEW call \in {"orbit_init", "solar_init", "attitude_init"},
         NEW lib \in Libraries, slot[lib] = -1, NEW rows \in RowCounts, NEW oom,
         MakeCache(call, lib, rows, oom)
  PROVE  /\ SlotsApart' /\ SlotsGiven' /\ Sound(cm)' /\ CachesKept
         /\ fault' \in {"none", "oob_write"}
         /\ reply'.call = call /\ reply'.status = 0 /\ reply'.used = {}
         /\ \A l \in Libraries : l # lib => slot'[l] = slot[l]
<1> DEFINE memory  == oom # "cache"
           n       == NCols[lib]
<1>1. /\ SlotsApart /\ SlotsGiven /\ IsManager(cm, Rows, Cols, Stamps)
      /\ Sized(cm, Stamps) /\ Filled(cm)
  BY DEF WrapInv, Ready, Sound
<1>2. /\ RowCounts \subseteq Nat /\ Cols \subseteq Nat /\ Cols \ {0} = Cols
      /\ Rows = RowCounts \ {0} /\ n \in Cols /\ memory \in BOOLEAN
  BY Sizes DEF Cols, Rows, NCols, Libraries
<1>3. /\ cm' = CacheInit(cm, rows, n, memory)
      /\ slot' = [slot EXCEPT ![lib] = CacheInitResult(cm, rows, n, memory)]
      /\ NextSlot(cm) < InitBound
      /\ reply'.call = call /\ reply'.status = 0 /\ reply'.used = {}
      /\ fault' \in {"none", "oob_write"}
  BY DEF MakeCache, Reply
<1>4. IsManager(cm, RowCounts \ {0}, Cols \ {0}, Stamps)
  BY <1>1, <1>2
<1> HIDE DEF memory, n
<1> DEFINE outcome == CacheInitOutcome(cm, rows, n, memory)
           given   == CacheInitResult(cm, rows, n, memory)
<1>5. /\ IsManager(CacheInit(cm, rows, n, memory), RowCounts \ {0}, Cols \ {0}, Stamps)
      /\ outcome = "created" => NextSlot(cm) \in Slots
  <2>1. IsManager(CacheInit(cm, rows, n, memory), RowCounts \ {0}, Cols \ {0}, Stamps)
    BY ONLY <1>2, <1>4, rows \in RowCounts, CacheInitType, Zenon
  <2>2. outcome = "created" => NextSlot(cm) \in Slots
    BY CreatedInSlots
  <2> QED BY <2>1, <2>2
<1>6. Sized(CacheInit(cm, rows, n, memory), Stamps)
  BY <1>1, <1>2, <1>4, InitSized
<1>7. /\ given = IF outcome = "created" THEN NextSlot(cm) ELSE -1
      /\ cm'.next \in {cm.next, NextSlot(cm)}
      /\ outcome = "created" => cm'.next = NextSlot(cm)
  <2>1. CASE outcome = "created"
    BY <1>3, <2>1 DEF CacheInit, CacheInitResult
  <2>2. CASE outcome # "created"
    BY <1>1, <1>2, <1>3, <2>2, InitRefuses
  <2> QED BY <2>1, <2>2
<1>8. ASSUME NEW r \in Nat, NEW c \in Nat, NEW t
      PROVE  /\ outcome = "created" /\ t = NextSlot(cm) => CacheRetrieve(cm', t, r, c).val = NULL
             /\ outcome # "created" \/ t # NextSlot(cm) =>
                  CacheRetrieve(cm', t, r, c) = CacheRetrieve(cm, t, r, c)
  <2> DEFINE new == CacheInit(cm, rows, n, memory)
  <2>1. rows \in Nat /\ n \in Nat
    BY <1>2 DEF Cols
  <2>2. outcome = "created" /\ t = NextSlot(cm) => CacheRetrieve(new, t, r, c).val = NULL
    BY <1>2, <1>4, <2>1, RetrieveAfterInit
  <2>3. outcome # "created" \/ t # NextSlot(cm) =>
          CacheRetrieve(new, t, r, c) = CacheRetrieve(cm, t, r, c)
    BY <1>2, <1>4, <2>1, RetrieveAfterInit
  <2> QED BY <1>3, <2>2, <2>3
<1> HIDE DEF outcome, given
<1>9. /\ \A l \in Libraries : slot[l] \in Slots \union {-1}
      /\ slot'[lib] = given /\ \A l \in Libraries : l # lib => slot'[l] = slot[l]
      /\ DOMAIN slot' = Libraries /\ slot' = [l \in Libraries |-> slot'[l]]
  BY <1>1, <1>3 DEF SlotsApart, given
<1>10. /\ NextSlot(cm) \in 0 .. ShortRange - 1 /\ cm.next \in 0 .. ShortRange - 1
       /\ NextSlot(cm) < ShortRange - 1 /\ ShortRange \in Nat
       /\ cm.next # ShortRange - 1 => NextSlot(cm) = cm.next + 1
  <2>1. NextSlot(cm) \in 0 .. ShortRange - 1 /\ cm.next \in 0 .. ShortRange - 1
        /\ (cm.next # ShortRange - 1 => NextSlot(cm) = cm.next + 1)
    BY <1>1, NextSlotType DEF IsManager
  <2> QED BY <1>3, <2>1, WrapperSizes, CacheSizes
<1>11. \A l \in Libraries : slot[l] # -1 =>
         slot[l] \in Nat /\ slot[l] <= cm.next /\ cm.next < ShortRange - 1
         /\ slot[l] # NextSlot(cm) /\ slot[l] <= cm'.next /\ cm'.next < ShortRange - 1
  BY <1>1, <1>7, <1>9, <1>10, CacheSizes DEF SlotsGiven, Slots
<1>12. given \in Slots \union {-1}
  BY <1>5, <1>7
<1>13. SlotsApart'
  BY <1>1, <1>7, <1>9, <1>11, <1>12 DEF SlotsApart
<1>14. SlotsGiven'
  BY <1>7, <1>9, <1>10, <1>11 DEF SlotsGiven
<1>15. ASSUME NEW l \in Libraries, NEW r \in Nat, NEW c \in Nat
       PROVE  /\ Found(cm, l, r, c)' # NULL => Found(cm, l, r, c)' = Found(cm, l, r, c)
              /\ Found(cm, l, r, c) # NULL => Found(cm, l, r, c)' = Found(cm, l, r, c)
  <2>1. Found(cm, l, r, c)' = CacheRetrieve(cm', AsUShort(slot'[l]), r, c).val
    BY DEF Found, CellOf
  <2>2. CASE l = lib
    <3>1. Found(cm, l, r, c) = NULL
      BY <1>1, <2>2, NoSlotRefused DEF Found
    <3>2. CASE outcome = "created"
      <4>1. slot'[l] = NextSlot(cm) /\ NextSlot(cm) \in Slots /\ NextSlot(cm) # -1
        BY <1>5, <1>7, <1>9, <2>2, <3>2, CacheSizes DEF Slots, outcome
      <4>2. AsUShort(slot'[l]) = NextSlot(cm)
        BY <4>1, ShortSlot
      <4> QED BY <1>8, <2>1, <3>1, <3>2, <4>2
    <3>3. CASE outcome # "created"
      <4>1. slot'[l] = -1
        BY <1>7, <1>9, <2>2, <3>3
      <4>2. AsUShort(slot'[l]) \notin Slots
        BY <4>1, ShortSlot
      <4> QED BY <2>1, <3>1, <4>2 DEF CacheRetrieve, AccessOutcome, Accessible, InBounds
    <3> QED BY <3>2, <3>3
  <2>3. CASE l # lib
    <3>1. slot'[l] = slot[l] /\ slot[l] \in Slots \union {-1}
      BY <1>9, <2>3
    <3>2. ~(outcome = "created" /\ AsUShort(slot[l]) = NextSlot(cm))
      BY <1>5, <1>11, <3>1, ShortSlot DEF outcome
    <3> QED BY <1>8, <2>1, <3>1, <3>2 DEF Found, CellOf
  <2> QED BY <2>2, <2>3
<1>16. Filled(cm)'
  <2>1. ASSUME NEW l \in Libraries, NEW r \in Nat, NEW c \in Nat, (Found(cm, l, r, c) # NULL)'
        PROVE  Belongs(Found(cm, l, r, c), l, r, c)'
    <3>1. Found(cm, l, r, c)' = Found(cm, l, r, c) /\ Found(cm, l, r, c) # NULL
      BY <1>15, <2>1
    <3>2. Belongs(Found(cm, l, r, c), l, r, c)
      BY <1>1, <3>1 DEF Filled
    <3> QED BY <3>1, <3>2 DEF Belongs, KindOf
  <2> QED BY <2>1 DEF Filled
<1>17. CachesKept
  BY <1>15 DEF CachesKept
<1>18. Sound(cm)'
  BY <1>2, <1>3, <1>5, <1>6, <1>16 DEF Sound
<1> QED BY <1>3, <1>9, <1>13, <1>14, <1>17, <1>18

(* A call that is refused before it touches the manager *)
LEMMA InitRefusedStep ==
  ASSUME WrapInv, NEW call \in {"orbit_init", "solar_init", "attitude_init"},
         InitRefused(call)
  PROVE  /\ SlotsApart' /\ SlotsGiven' /\ Sound(cm)' /\ CachesKept
         /\ fault' = fault /\ slot' = slot
         /\ reply'.call = call /\ reply'.status = -1 /\ reply'.used = {}
<1>1. /\ cm' = cm /\ slot' = slot /\ fault' = fault
      /\ reply'.call = call /\ reply'.status = -1 /\ reply'.used = {}
  BY DEF InitRefused, Reply
<1>2. SlotsApart' /\ SlotsGiven'
  BY <1>1 DEF WrapInv, Ready, SlotsApart, SlotsGiven
<1>3. Sound(cm)' /\ CachesKept
  BY <1>1 DEF WrapInv, Sound, Filled, Found, CellOf, CachesKept
<1> QED BY <1>1, <1>2, <1>3

LEMMA OrbInitStep ==
  ASSUME WrapInv, NEW rows \in RowCounts, NEW elements \in BOOLEAN,
         NEW rigidity \in BOOLEAN, NEW oom, py_atOrbInit(rows, elements, rigidity, oom)
  PROVE  WrapInv' /\ CachesKept
<1>1. "orbit" \in Libraries /\ comp' = comp /\ fault = "none"
  BY DEF py_atOrbInit, Libraries
<1>2. Factors'
  BY <1>1 DEF WrapInv, Ready, Factors
<1>3. CASE InitRefused("orbit_init") /\ els' \in {els, "freed", "set"}
           /\ (els' = "freed" => els = "null" \/ els = "freed")
           /\ (els' = "null" => els = "null")
  <2>1. /\ SlotsApart' /\ SlotsGiven' /\ Sound(cm)' /\ CachesKept
        /\ fault' = fault /\ slot' = slot
        /\ reply'.call = "orbit_init" /\ reply'.status = -1 /\ reply'.used = {}
    BY <1>3, InitRefusedStep
  <2>2. SatelliteOfItsBin' /\ SunOfItsGroup' /\ OccultationInputs'
    BY <2>1 DEF SatelliteOfItsBin, SunOfItsGroup, OccultationInputs
  <2>3. els' # "set" => slot'["orbit"] = -1
    BY <1>3, <2>1 DEF WrapInv, Ready
  <2>4. els' \in {"null", "set", "freed"}
    BY <1>3 DEF WrapInv
  <2> QED BY <1>1, <1>2, <2>1, <2>2, <2>3, <2>4 DEF WrapInv, Ready
<1>4. CASE els = "null" /\ els' = "set" /\ MakeCache("orbit_init", "orbit", rows, oom)
  <2>1. slot["orbit"] = -1
    BY <1>4 DEF WrapInv, Ready
  <2>2. /\ SlotsApart' /\ SlotsGiven' /\ Sound(cm)' /\ CachesKept
        /\ fault' \in {"none", "oob_write"}
        /\ reply'.call = "orbit_init" /\ reply'.status = 0 /\ reply'.used = {}
    BY <1>1, <1>4, <2>1, MakeCacheStep
  <2>3. SatelliteOfItsBin' /\ SunOfItsGroup' /\ OccultationInputs'
    BY <2>2 DEF SatelliteOfItsBin, SunOfItsGroup, OccultationInputs
  <2> QED BY <1>2, <1>4, <2>2, <2>3 DEF WrapInv, Ready
<1>5. els \in {"null", "set", "freed"}
  BY DEF WrapInv
<1> QED BY <1>3, <1>4, <1>5 DEF py_atOrbInit

(* The other two libraries, whose slot says whether they have a cache *)
LEMMA LibInitStep ==
  ASSUME WrapInv, NEW call \in {"solar_init", "attitude_init"},
         NEW lib \in {"solar", "attitude"}, NEW rows \in RowCounts, NEW oom,
         fault = "none", els' = els, Factors',
         IF slot[lib] # -1 THEN InitRefused(call) ELSE MakeCache(call, lib, rows, oom)
  PROVE  WrapInv' /\ CachesKept
<1>1. lib \in Libraries /\ "orbit" \in Libraries /\ lib # "orbit"
  BY DEF Libraries
<1>2. /\ SlotsApart' /\ SlotsGiven' /\ Sound(cm)' /\ CachesKept
      /\ fault' \in {"none", "oob_write"} /\ slot'["orbit"] = slot["orbit"]
      /\ reply'.call = call /\ reply'.status \in {0, -1} /\ reply'.used = {}
  <2>1. CASE slot[lib] # -1
    BY <2>1, InitRefusedStep
  <2>2. CASE slot[lib] = -1
    BY <1>1, <2>2, MakeCacheStep
  <2> QED BY <2>1, <2>2
<1>3. SatelliteOfItsBin' /\ SunOfItsGroup' /\ OccultationInputs'
  BY <1>2 DEF SatelliteOfItsBin, SunOfItsGroup, OccultationInputs
<1> QED BY <1>2, <1>3 DEF WrapInv, Ready

(* A call that asks for something *)
LEMMA AskStep ==
  ASSUME WrapInv, NEW call, NEW of, NEW row, NEW o, NEW at_ok \in BOOLEAN,
         Good(cm, o), Ask(call, of, row, o, at_ok),
         call \in {"satpos", "geodetic", "polar", "saa", "rigidity", "elevation"}
           /\ o.status = 0 =>
             \A s \in o.used : s.kind \in {"satpos", "polar"} => s.of = of,
         call = "elevation" /\ o.status = 0 =>
           {s.kind : s \in o.used} = {"satpos", "sun", "target"},
         o.status = 0 => SunsOf(o.used, of)
  PROVE  WrapInv' /\ CachesKept
<1>1. /\ cm' = o.m /\ fault' = o.died
      /\ els' = els /\ slot' = slot /\ comp' = comp /\ fault = "none"
      /\ reply'.call = call /\ reply'.of = of
      /\ \/ o.status = 0 /\ reply'.status = 0 /\ reply'.used = o.used
         \/ reply'.status = -1 /\ reply'.used = {}
  BY DEF Ask, Reply
<1>2. Sound(o.m) /\ o.m.next = cm.next /\ Keeps(cm, o.m)
  BY DEF Good
<1>3. Sound(cm)'
  BY <1>1, <1>2 DEF Sound, Filled, Found, CellOf
<1>4. CachesKept
  BY <1>1, <1>2 DEF Keeps, CachesKept, Found, CellOf
<1>5. Ready' /\ SlotsGiven'
  BY <1>1, <1>2 DEF WrapInv, Ready, SlotsApart, SlotsGiven, Factors
<1>6. SatelliteOfItsBin'
  BY <1>1 DEF SatelliteOfItsBin
<1>7. OccultationInputs' /\ SunOfItsGroup'
  BY <1>1 DEF OccultationInputs, SunOfItsGroup, SunsOf
<1>8. /\ fault' \in {"none", "oob_write", "div_by_zero"}
      /\ reply'.status \in {0, -1} /\ reply'.used \subseteq Stamps \union {Junk}
  BY <1>1 DEF Good
<1>9. els' \in {"null", "set", "freed"}
  BY <1>1 DEF WrapInv
<1> QED BY <1>3, <1>4, <1>5, <1>6, <1>7, <1>8, <1>9 DEF WrapInv

LEMMA OrbitStep ==
  ASSUME WrapInv, OrbitCall
  PROVE  WrapInv' /\ CachesKept
<1>1. Ready /\ Sound(cm)
  BY DEF WrapInv
<1>2. CASE \E rows \in RowCounts, elements \in BOOLEAN, rigidity \in BOOLEAN,
              oom \in {"none", "els", "cache"} : py_atOrbInit(rows, elements, rigidity, oom)
  BY <1>2, OrbInitStep
<1>3. ASSUME NEW b \in Bins, NEW row \in {b, NoRow}, NEW oom, NEW call,
             call \in {"satpos", "geodetic"}, Ask(call, b, row, SatPos(cm, b, row, oom), TRUE)
      PROVE  WrapInv' /\ CachesKept
  <2> DEFINE o == SatPos(cm, b, row, oom)
  <2>1. Good(cm, o) /\ (o.status = 0 => \A s \in o.used : s.of = b /\ s.kind = "satpos")
    BY <1>1, SatPosGood
  <2> HIDE DEF o
  <2>2. Ask(call, b, row, o, TRUE) /\ call # "elevation"
    BY <1>3 DEF o
  <2>3. o.status = 0 => SunsOf(o.used, b)
    BY <2>1 DEF SunsOf
  <2> QED BY <2>1, <2>2, <2>3, AskStep
<1>4. ASSUME NEW b \in Bins, NEW row \in {b, NoRow}, NEW oom, NEW at_ok \in BOOLEAN, NEW call,
             call \in {"polar", "saa", "rigidity"}, Ask(call, b, row, Polar(cm, b, row, oom), at_ok)
      PROVE  WrapInv' /\ CachesKept
  <2> DEFINE o == Polar(cm, b, row, oom)
  <2>1. /\ Good(cm, o)
        /\ o.status = 0 => \A s \in o.used : /\ s.kind \in {"satpos", "polar"} => s.of = b
                                            /\ s.kind \in {"polar", "junk"}
    BY <1>1, PolarGood
  <2> HIDE DEF o
  <2>2. Ask(call, b, row, o, at_ok) /\ call # "elevation"
    BY <1>4 DEF o
  <2>3. o.status = 0 => SunsOf(o.used, b)
    BY <2>1 DEF SunsOf
  <2> QED BY <2>1, <2>2, <2>3, AskStep
<1>5. ASSUME NEW b \in Bins, NEW row \in {b, NoRow}, NEW oom,
             py_atSatPos3(b, row, oom) \/ py_atGeodetic(b, row, oom) \/ py_atGeodcr(b, row, oom)
      PROVE  WrapInv' /\ CachesKept
  BY <1>3, <1>5 DEF py_atSatPos3, py_atGeodetic, py_atGeodcr, Geodetic
<1>6. ASSUME NEW b \in Bins, NEW row \in {b, NoRow}, NEW oom,
             \/ py_pvGeodetic(b, row, oom)
             \/ py_atSaa(b, row, oom)
             \/ \E at_ok \in BOOLEAN : py_atRigidity(b, row, oom, at_ok)
      PROVE  WrapInv' /\ CachesKept
  <2>1. CASE py_pvGeodetic(b, row, oom)
    BY <1>4, <2>1 DEF py_pvGeodetic
  <2>2. CASE py_atSaa(b, row, oom)
    BY <1>4, <2>2 DEF py_atSaa
  <2>3. ASSUME NEW at_ok \in BOOLEAN, py_atRigidity(b, row, oom, at_ok)
        PROVE  WrapInv' /\ CachesKept
    BY <1>4, <2>3 DEF py_atRigidity
  <2> QED BY <1>6, <2>1, <2>2, <2>3
<1> QED BY <1>2, <1>5, <1>6 DEF OrbitCall

LEMMA SolarStep ==
  ASSUME WrapInv, SolarCall
  PROVE  WrapInv' /\ CachesKept
<1>1. Ready /\ Sound(cm)
  BY DEF WrapInv
<1>2. ASSUME NEW c \in Compressions, NEW rows \in RowCounts, NEW oom, py_atSSInit(c, rows, oom)
      PROVE  WrapInv' /\ CachesKept
  <2>1. Factors'
    BY <1>2 DEF py_atSSInit, Factors, Grids
  <2> QED BY <1>2, <2>1, LibInitStep DEF py_atSSInit
<1>3. ASSUME NEW b \in Bins, NEW row \in {b, NoRow}, NEW oom, py_sun_ra_dec(b, row, oom)
      PROVE  WrapInv' /\ CachesKept
  <2> DEFINE o == Sun(cm, b, row, oom)
  <2>1. Good(cm, o) /\ (o.status = 0 => SunsOf(o.used, b))
    BY <1>1, SunGood
  <2> HIDE DEF o
  <2>2. Ask("sun", b, row, o, TRUE)
    BY <1>3 DEF py_sun_ra_dec, o
  <2> QED BY <2>1, <2>2, AskStep
<1>4. ASSUME NEW b \in Bins, NEW row \in {b, NoRow}, NEW oom, py_moon_ra_dec(b, row, oom)
      PROVE  WrapInv' /\ CachesKept
  <2> DEFINE o == Moon(cm, b, row, oom)
  <2>1. Good(cm, o) /\ \A s \in o.used : s.kind = "moon"
    BY <1>1, MoonGood
  <2> HIDE DEF o
  <2>2. Ask("moon", b, row, o, TRUE)
    BY <1>4 DEF py_moon_ra_dec, o
  <2>3. SunsOf(o.used, b)
    BY <2>1 DEF SunsOf
  <2> QED BY <2>1, <2>2, <2>3, AskStep
<1> QED BY <1>2, <1>3, <1>4 DEF SolarCall

LEMMA AttitudeStep ==
  ASSUME WrapInv, AttitudeCall
  PROVE  WrapInv' /\ CachesKept
<1>1. Ready /\ Sound(cm)
  BY DEF WrapInv
<1>2. TargetRows \subseteq Nat
  BY Sizes DEF TargetRows
<1>3. ASSUME NEW rows \in RowCounts, NEW oom, py_atAttInit(rows, oom)
      PROVE  WrapInv' /\ CachesKept
  <2>1. Factors'
    BY <1>1, <1>3 DEF py_atAttInit, Ready, Factors
  <2> QED BY <1>3, <2>1, LibInitStep DEF py_atAttInit
<1>4. ASSUME NEW t \in Targets, NEW trow \in TargetRows, NEW oom, py_addTarget(t, trow, oom)
      PROVE  WrapInv' /\ CachesKept
  <2> DEFINE o == AddTarget(cm, t, trow, oom)
  <2>1. Good(cm, o) /\ \A s \in o.used : s.kind = "target"
    BY <1>1, <1>2, AddTargetGood
  <2> HIDE DEF o
  <2>2. Ask("add_target", t, trow, o, TRUE)
    BY <1>4 DEF py_addTarget, o
  <2>3. SunsOf(o.used, t)
    BY <2>1 DEF SunsOf
  <2> QED BY <2>1, <2>2, <2>3, AskStep
<1>5. ASSUME NEW b \in Bins, NEW row \in {b, NoRow}, NEW trow \in TargetRows, NEW oom,
             NEW at_ok \in BOOLEAN,
             Ask("elevation", b, trow, Elevation(cm, b, row, trow, oom), at_ok)
      PROVE  WrapInv' /\ CachesKept
  <2> DEFINE o == Elevation(cm, b, row, trow, oom)
  <2>1. /\ Good(cm, o)
        /\ o.status = 0 => /\ {s.kind : s \in o.used} = {"satpos", "sun", "target"}
                           /\ \A s \in o.used : s.kind \in {"satpos", "polar"} => s.of = b
                           /\ SunsOf(o.used, b)
    BY <1>1, <1>2, ElevationGood
  <2> HIDE DEF o
  <2>2. Ask("elevation", b, trow, o, at_ok)
    BY <1>5 DEF o
  <2> QED BY <2>1, <2>2, AskStep
<1>6. ASSUME NEW b \in Bins, NEW row \in {b, NoRow}, NEW trow \in TargetRows, NEW oom,
             \/ py_atEarthOccult(b, row, trow, oom)
             \/ \E at_ok \in BOOLEAN : py_atEarthElev(b, row, trow, oom, at_ok)
      PROVE  WrapInv' /\ CachesKept
  <2>1. CASE py_atEarthOccult(b, row, trow, oom)
    BY <1>5, <2>1 DEF py_atEarthOccult
  <2>2. ASSUME NEW at_ok \in BOOLEAN, py_atEarthElev(b, row, trow, oom, at_ok)
        PROVE  WrapInv' /\ CachesKept
    BY <1>5, <2>2 DEF py_atEarthElev
  <2> QED BY <1>6, <2>1, <2>2
<1> QED BY <1>3, <1>4, <1>6 DEF AttitudeCall

LEMMA StepInv ==
  ASSUME WrapInv, [Next]_vars
  PROVE  WrapInv'
<1>1. CASE Next
  BY <1>1, OrbitStep, SolarStep, AttitudeStep DEF Next
<1>2. CASE UNCHANGED vars
  <2>1. Ready' /\ SlotsGiven'
    BY <1>2 DEF vars, WrapInv, Ready, SlotsApart, SlotsGiven, Factors
  <2>2. Sound(cm)'
    BY <1>2 DEF vars, WrapInv, Sound, Filled, Found, CellOf
  <2> QED BY <1>2, <2>1, <2>2 DEF vars, WrapInv, SatelliteOfItsBin, SunOfItsGroup, OccultationInputs
<1> QED BY <1>1, <1>2

THEOREM WrappersInv == Spec => []WrapInv
<1>1. Init => WrapInv
  BY InitInv
<1>2. WrapInv /\ [Next]_vars => WrapInv'
  BY StepInv
<1> QED BY <1>1, <1>2, PTL DEF Spec

----------------------------------------------------------------------------
(* The properties                                                          *)

LEMMA RowsAndCols ==
  /\ CacheRows \subseteq Nat
  /\ {0, 1} \subseteq Nat
BY Sizes DEF CacheRows

(* The state of Py_sched is always one that its C variables can hold: of   *)
(* the cache, the slots, the compression factors and the last answer.      *)
THEOREM WrappersType == Spec => []TypeOK
<1>1. WrapInv => TypeOK
  BY Sizes DEF WrapInv, Ready, SlotsApart, Factors, Sound, TypeOK, Rows, Cols
<1> QED BY <1>1, WrappersInv, PTL

(* No library ever finds in its cache what another put there, or what it   *)
(* put in another column itself, whichever cache_init() calls have failed. *)
THEOREM ApartAlways == Spec => []LibrariesApart
<1>1. ASSUME WrapInv PROVE LibrariesApart
  <2>1. Filled(cm)
    BY <1>1 DEF WrapInv, Sound
  <2>2. ASSUME NEW row \in CacheRows, NEW col \in {0, 1}, NEW lib \in Libraries,
               Cell(lib, row, col) # NULL
        PROVE  Cell(lib, row, col).kind = KindOf(lib, col)
    BY <2>1, <2>2, RowsAndCols DEF Filled, Found, Belongs, Cell
  <2> QED BY <2>2 DEF LibrariesApart, KindOf
<1> QED BY <1>1, WrappersInv, PTL

(* The elements that a failed initialisation has freed are never read.     *)
THEOREM FreedNeverRead == Spec => []FreedElementsUnused
<1>1. WrapInv => FreedElementsUnused
  BY DEF WrapInv, Ready, FreedElementsUnused
<1> QED BY <1>1, WrappersInv, PTL

(* A position is that of the bin that was asked for, hit or miss.          *)
THEOREM PositionOfItsBin == Spec => []SatelliteOfItsBin
<1>1. WrapInv => SatelliteOfItsBin
  BY DEF WrapInv
<1> QED BY <1>1, WrappersInv, PTL

(* The sun of an answer is that of the group of bins asked for under the   *)
(* factor of now, hit or miss, if it is on the grid of that factor.        *)
THEOREM SunOfGroup == Spec => []SunOfItsGroup
<1>1. WrapInv => SunOfItsGroup
  BY DEF WrapInv
<1> QED BY <1>1, WrappersInv, PTL

(* An occultation has a position, a normalised sun and a target to go by.  *)
THEOREM ElevationInputs == Spec => []OccultationInputs
<1>1. WrapInv => OccultationInputs
  BY DEF WrapInv
<1> QED BY <1>1, WrappersInv, PTL

(* What is cached is not overwritten, nor lost to a later initialisation.  *)
THEOREM ValuesStay == Spec => CachedValuesStay
<1>1. ASSUME WrapInv, [Next]_vars
      PROVE  [\A lib \in Libraries, row \in CacheRows, col \in {0, 1} :
                Cell(lib, row, col) # NULL => Cell(lib, row, col)' = Cell(lib, row, col)]_vars
  <2>1. CASE Next
    <3>1. CachesKept
      BY <1>1, <2>1, OrbitStep, SolarStep, AttitudeStep DEF Next
    <3> QED BY <3>1, RowsAndCols DEF CachesKept, Found, Cell
  <2>2. CASE UNCHANGED vars
    BY <2>2
  <2> QED BY <1>1, <2>1, <2>2
<1> QED BY <1>1, WrappersInv, PTL DEF Spec, CachedValuesStay

=============================================================================
