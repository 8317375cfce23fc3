-------------------------- MODULE PageSchema_proof --------------------------
(***************************************************************************)
(* Proofs about PageSchema for any columns, slots, records and requests.   *)
(***************************************************************************)
EXTENDS PageSchema, TLAPS

-----------------------------------------------------------------------------
(* Slots *)

Injective(m) == \A c, d \in Columns : m[c] = m[d] /\ c # d => m[c] = None

\* A slot taken for a column is a free one.
LEMMA NewSlotFact ==
    ASSUME NEW t, NEW m, FreeSlots(t, m) # {}
    PROVE  /\ NewSlot(t, m) \in Slots
           /\ \A c \in Columns : m[c] # NewSlot(t, m)
<1>1. NewSlot(t, m) \in FreeSlots(t, m)
  BY DEF NewSlot
<1> QED
  BY <1>1 DEF FreeSlots, SlotsFor, Slots

\* A column moved to a slot no column has, or to none, shares with nobody.
LEMMA AssignFact ==
    ASSUME NEW m \in Maps, Injective(m), NEW c \in Columns, NEW s \in Slots \union {None},
           s = None \/ \A d \in Columns : m[d] # s
    PROVE  [m EXCEPT ![c] = s] \in Maps /\ Injective([m EXCEPT ![c] = s])
BY DEF Maps, Injective

\* What a slot keeps of a cell: an absent key is NULL, as an empty one.
SlotOf(v) == IF v = Absent THEN Null ELSE InSlot(v)

LEMMA SlotOfFact ==
    ASSUME PageSchemaAssumption, NEW v \in Cells
    PROVE  SlotOf(v) \in Wire \union {Null} /\ (v = Null => SlotOf(v) = Null)
BY DEF SlotOf, InSlot, Cells, Wire, PageSchemaAssumption

\* What the slots of a row say of its document, under the map of its writer.
Mirrors(row) ==
    \A c \in Columns :
        row.under[c] # None => row.slots[row.under[c]] = SlotOf(row.data[c])

LEMMA PopulateFact ==
    ASSUME PageSchemaAssumption, NEW m \in Maps, Injective(m), NEW d \in [Columns -> Cells],
           NEW slots \in [Slots -> Wire \union {Null}]
    PROVE  /\ PopulateProjections(m, d, slots) \in [Slots -> Wire \union {Null}]
           /\ \A c \in Columns : m[c] # None =>
                PopulateProjections(m, d, slots)[m[c]] = SlotOf(d[c])
<1> DEFINE p == PopulateProjections(m, d, slots)
<1>1. ASSUME NEW s \in Slots, ~(\A c \in Columns : m[c] # s)
      PROVE  ColumnOf(m, s) \in Columns /\ m[ColumnOf(m, s)] = s
  BY <1>1 DEF ColumnOf
<1>2. ASSUME NEW s \in Slots PROVE p[s] \in Wire \union {Null}
  <2>1. CASE \A c \in Columns : m[c] # s
    BY <2>1 DEF PopulateProjections
  <2>2. CASE ~(\A c \in Columns : m[c] # s)
    <3>1. d[ColumnOf(m, s)] \in Cells
      BY <1>1, <2>2
    <3>2. p[s] = SlotOf(d[ColumnOf(m, s)])
      BY <2>2 DEF PopulateProjections, SlotOf
    <3> QED
      BY <3>1, <3>2, SlotOfFact
  <2> QED
    BY <2>1, <2>2
<1>3. p \in [Slots -> Wire \union {Null}]
  <2>1. p = [s \in Slots |-> p[s]]
    BY DEF PopulateProjections
  <2> HIDE DEF p
  <2> QED
    BY <1>2, <2>1
<1>4. ASSUME NEW c \in Columns, m[c] # None
      PROVE  p[m[c]] = SlotOf(d[c])
  <2>1. m[c] \in Slots
    BY <1>4 DEF Maps
  <2>2. ~(\A e \in Columns : m[e] # m[c])
    OBVIOUS
  <2>3. ColumnOf(m, m[c]) = c
    BY <1>1, <1>4, <2>1, <2>2 DEF Injective
  <2> QED
    BY <2>1, <2>2, <2>3 DEF PopulateProjections, SlotOf
<1> QED
  BY <1>3, <1>4

-----------------------------------------------------------------------------
(* The invariant *)

\* Every map read or prepared is free of shared slots, as the stored one is.
MapsInjective ==
    /\ Injective(page.map)
    /\ \A r \in Requests : /\ Injective(seen[r].page.map)
                           /\ seen[r].map # None => Injective(seen[r].map)

\* A handler that runs has its operation, and If-Match is of page edits only.
Started ==
    \A r \in Requests :
        /\ pc[r] # "idle" => call[r] \in Calls
        /\ pc[r] = "bump" => call[r].op \in {"add", "column"}
        /\ pc[r] = "idle" => match[r] = None
        /\ match[r] # None => call[r].op = "page"

\* A page edit keeps the row it changes locked until it commits.
HoldsPage(r) == call[r].op = "archive" \/ (call[r].op = "page" /\ Touches(r))
PageHeld ==
    \A r \in Requests :
        /\ (pc[r] = "audit" /\ HoldsPage(r)) => pageLock = r
        /\ (pc[r] = "audit" /\ match[r] # None) => match[r] = page.version
        /\ (pc[r] = "ok" /\ match[r] # None) => match[r] < page.version

\* What a transaction has read of the page is not newer than the page, and
\* at the same version has its special key.
PageRead ==
    /\ page.version >= 1
    /\ \A r \in Requests :
         /\ seen[r].page.version <= page.version
         /\ seen[r].page.version = page.version => seen[r].page.dateKey = page.dateKey

RowsMirror ==
    /\ \A q \in Records : Mirrors(rows[q])
    /\ \A r \in Requests : Mirrors(seen[r].row)

IInv ==
    TypeOK /\ MapsInjective /\ Started /\ PageHeld /\ PageRead /\ CachedSchemaCurrent
           /\ RowsMirror /\ OneWinnerPerVersion

USE DEF Goto, Data, Locks, Client

\* What AllCalls says of each operation.
LEMMA CallFact ==
    ASSUME PageSchemaAssumption, NEW o \in Calls
    PROVE  /\ o.op \in {"add", "column"} => o.col \in Columns
           /\ o.op = "add" => o.type \in Types
           /\ o.op = "column" => o.type \in Types \union {"same"}
           /\ o.op = "column" => o.indexed \in {"on", "off", "same"}
           /\ o.op = "column" => o.archived \in {"on", "off", "same"}
           /\ o.op = "page" => o.dateKey \in Columns \union {None}
           /\ o.op \in {"create", "edit"} => o.data \in [Columns -> Cells]
           /\ o.op \in {"edit", "delete"} => o.rec \in Records
<1>1. o \in AllCalls
  BY DEF PageSchemaAssumption
<1> QED
  BY <1>1 DEF AllCalls

LEMMA UnreadFact ==
    ASSUME PageSchemaAssumption
    PROVE  /\ Unread \in SeenRow
           /\ Unread.page.version = 0
           /\ Injective(Unread.page.map)
           /\ Unread.map = None
           /\ Mirrors(Unread.row)
           /\ NoRecord \in RecordRow /\ Mirrors(NoRecord)
<1>1. NoMap \in Maps /\ Injective(NoMap)
  BY DEF NoMap, Maps, Injective
<1>2. NoRecord \in RecordRow /\ Mirrors(NoRecord)
  BY <1>1 DEF NoRecord, Record, RecordRow, NoData, EmptySlots, Cells, Mirrors, NoMap
<1>3. PageRow(0, NoMap, None, FALSE) \in PageRows
  BY <1>1 DEF PageRow, PageRows
<1>4. NoColumn \in ColumnRow
  BY DEF NoColumn, Column, ColumnRow, Types
<1> QED
  BY <1>1, <1>2, <1>3, <1>4 DEF Unread, Handle, SeenRow, PageRow

-----------------------------------------------------------------------------
(* The invariant at the start and at the end of a transaction *)

LEMMA InitInv ==
    ASSUME PageSchemaAssumption, Init
    PROVE  IInv
<1>1. NoMap \in Maps /\ Injective(NoMap) /\ NoMap = [c \in Columns |-> None]
  BY DEF NoMap, Maps, Injective
<1>2. PICK ix \in BOOLEAN :
         /\ cols = [c \in Columns |-> IF c = FirstColumn THEN Column(TRUE, FirstType, ix, FALSE)
                                                         ELSE NoColumn]
         /\ page = PageRow(1, IF ix /\ FirstType \in Indexable
                              THEN [NoMap EXCEPT ![FirstColumn] = NewSlot(FirstType, NoMap)]
                              ELSE NoMap, None, FALSE)
  BY DEF Init
<1>3. page.map \in Maps /\ Injective(page.map)
  <2>1. CASE ix /\ FirstType \in Indexable
    <3>1. FreeSlots(FirstType, NoMap) # {}
      BY <1>1 DEF FreeSlots, SlotsFor, PageSchemaAssumption, Slots
    <3>2. [NoMap EXCEPT ![FirstColumn] = NewSlot(FirstType, NoMap)] \in Maps
             /\ Injective([NoMap EXCEPT ![FirstColumn] = NewSlot(FirstType, NoMap)])
      BY <1>1, <3>1, NewSlotFact, AssignFact DEF PageSchemaAssumption
    <3> QED
      BY <1>2, <2>1, <3>2 DEF PageRow
  <2>2. CASE ~(ix /\ FirstType \in Indexable)
    BY <1>1, <1>2, <2>2 DEF PageRow
  <2> QED
    BY <2>1, <2>2
<1>4. page \in PageRows /\ page.version = 1
  BY <1>2, <1>3 DEF PageRow, PageRows
<1>5. cols \in [Columns -> ColumnRow]
  BY <1>2 DEF Column, NoColumn, ColumnRow, Types, PageSchemaAssumption
<1>6. TypeOK
  BY <1>4, <1>5, UnreadFact DEF Init, TypeOK, Places
<1>7. MapsInjective /\ RowsMirror
  BY <1>3, UnreadFact DEF Init, MapsInjective, RowsMirror
<1>8. Started /\ PageHeld /\ CachedSchemaCurrent /\ OneWinnerPerVersion
  BY DEF Init, Started, PageHeld, CachedSchemaCurrent, OneWinnerPerVersion
<1>9. PageRead
  <2>1. seen = [r \in Requests |-> Unread]
    BY DEF Init
  <2> QED
    BY <1>4, <2>1, UnreadFact DEF PageRead
<1> QED
  BY <1>6, <1>7, <1>8, <1>9 DEF IInv

\* A transaction that ends without having written.
LEMMA RefuseInv ==
    ASSUME PageSchemaAssumption, IInv, NEW r \in Requests, pc[r] # "idle", Refuse(r)
    PROVE  IInv'
<1> USE DEF Refuse, End
<1>0. /\ pc' = [pc EXCEPT ![r] = "refused"] /\ pc \in [Requests -> Places]
      /\ seen' = [seen EXCEPT ![r] = Unread] /\ seen \in [Requests -> SeenRow]
  BY DEF IInv, TypeOK
<1>1. TypeOK'
  BY UnreadFact DEF IInv, TypeOK, Release, Places, Done
<1>2. MapsInjective'
  BY <1>0, UnreadFact DEF IInv, MapsInjective
<1>3. Started'
  BY <1>0 DEF IInv, Started
<1>4. PageHeld'
  BY <1>0 DEF IInv, PageHeld, HoldsPage, Touches, Release
<1>5. PageRead'
  BY <1>0, UnreadFact DEF IInv, TypeOK, PageRead, PageRows
<1>6. CachedSchemaCurrent'
  BY <1>0 DEF IInv, CachedSchemaCurrent
<1>7. RowsMirror'
  BY <1>0, UnreadFact DEF IInv, RowsMirror
<1>8. OneWinnerPerVersion'
  BY <1>0 DEF IInv, OneWinnerPerVersion
<1> QED
  BY <1>1, <1>2, <1>3, <1>4, <1>5, <1>6, <1>7, <1>8 DEF IInv

-----------------------------------------------------------------------------
(* Steps that prepare a write, and commit nothing *)

\* Such a step of r goes to l, and leaves h of what r has read and prepared.
Prepares(r, l, h) ==
    /\ pc[r] \in {"read", "write", "audit"}
    /\ l \in {"write", "audit", "bump"}
    /\ h \in SeenRow /\ h.page = seen[r].page
    /\ h.map # None => Injective(h.map)
    /\ Mirrors(h.row)
    /\ Goto(r, l)
    /\ seen' = [seen EXCEPT ![r] = h]
    /\ UNCHANGED <<Data, Client>>
    /\ pageLock' \in Requests \union {None}
    /\ chain' \in Requests \union {None}
    /\ colLock' \in [Columns -> Requests \union {None}]
    /\ pageLock' # pageLock => pageLock = None
    /\ l = "bump" => call[r].op \in {"add", "column"}
    /\ (l = "audit" /\ HoldsPage(r)) => pageLock' = r
    /\ (l = "audit" /\ match[r] # None) => match[r] = page.version

LEMMA PreparesInv ==
    ASSUME PageSchemaAssumption, IInv, NEW r \in Requests, NEW l, NEW h, Prepares(r, l, h)
    PROVE  IInv'
<1>0. /\ pc' = [pc EXCEPT ![r] = l] /\ pc \in [Requests -> Places]
      /\ pc[r] \in {"read", "write", "audit"} /\ l \in {"write", "audit", "bump"}
      /\ seen' = [seen EXCEPT ![r] = h] /\ seen \in [Requests -> SeenRow] /\ h \in SeenRow
      /\ page' = page /\ cols' = cols /\ rows' = rows /\ call' = call /\ match' = match
  BY DEF IInv, TypeOK, Prepares
<1>1. TypeOK'
  <2>1. l \in Places
    BY <1>0 DEF Places
  <2> QED
    BY <1>0, <2>1 DEF IInv, TypeOK, Prepares
<1>2. MapsInjective'
  BY <1>0 DEF IInv, MapsInjective, Prepares
<1>3. Started'
  BY <1>0 DEF IInv, Started, Prepares
<1>4. PageHeld'
  <2> SUFFICES ASSUME NEW o \in Requests
               PROVE  /\ (pc'[o] = "audit" /\ HoldsPage(o)) => pageLock' = o
                      /\ (pc'[o] = "audit" /\ match[o] # None) => match[o] = page.version
                      /\ (pc'[o] = "ok" /\ match[o] # None) => match[o] < page.version
    BY <1>0 DEF PageHeld, HoldsPage, Touches
  <2>1. CASE o = r
    BY <1>0, <2>1 DEF Prepares
  <2>2. CASE o # r
    BY <1>0, <2>2 DEF IInv, PageHeld, Prepares, PageSchemaAssumption
  <2> QED
    BY <2>1, <2>2
<1>5. PageRead'
  BY <1>0 DEF IInv, PageRead, Prepares
<1>6. CachedSchemaCurrent'
  BY <1>0 DEF IInv, CachedSchemaCurrent
<1>7. RowsMirror'
  BY <1>0 DEF IInv, RowsMirror, Prepares
<1>8. OneWinnerPerVersion'
  BY <1>0 DEF IInv, OneWinnerPerVersion
<1> QED
  BY <1>1, <1>2, <1>3, <1>4, <1>5, <1>6, <1>7, <1>8 DEF IInv

LEMMA SeenFact ==
    ASSUME IInv, NEW r \in Requests
    PROVE  /\ seen[r] \in SeenRow /\ seen[r].page \in PageRows /\ seen[r].page.map \in Maps
           /\ seen = [seen EXCEPT ![r] = seen[r]]
           /\ Injective(seen[r].page.map)
           /\ seen[r].map # None => Injective(seen[r].map)
           /\ Mirrors(seen[r].row)
BY DEF IInv, TypeOK, SeenRow, PageRows, MapsInjective, RowsMirror

LEMMA LocksFact ==
    ASSUME IInv
    PROVE  /\ pageLock \in Requests \union {None}
           /\ chain \in Requests \union {None}
           /\ colLock \in [Columns -> Requests \union {None}]
BY DEF IInv, TypeOK

LEMMA PlanAddInv ==
    ASSUME PageSchemaAssumption, IInv, NEW r \in Requests, PlanAdd(r)
    PROVE  IInv'
<1> DEFINE o == call[r]
           m == seen[r].page.map
           slotted == o.indexed = "on" /\ o.type \in Indexable
           new == IF slotted THEN [m EXCEPT ![o.col] = NewSlot(o.type, m)] ELSE None
           h == [seen[r] EXCEPT !.map = new]
<1>1. pc[r] = "read" /\ o.op = "add" /\ o \in Calls /\ match[r] = None
  BY DEF PlanAdd, Reading, IInv, Started
<1>2. CASE Refuse(r)
  BY <1>1, <1>2, RefuseInv
<1>3. CASE ~Refuse(r)
  <2>1. /\ ~(slotted /\ FreeSlots(o.type, m) = {})
        /\ seen' = [seen EXCEPT ![r].map = new]
        /\ Goto(r, "write")
        /\ UNCHANGED <<Data, Locks, Client>>
    BY <1>3 DEF PlanAdd
  <2>2. new # None => new \in Maps /\ Injective(new)
    <3>1. CASE slotted
      <4>1. /\ NewSlot(o.type, m) \in Slots
            /\ \A c \in Columns : m[c] # NewSlot(o.type, m)
        BY <2>1, <3>1, NewSlotFact
      <4>2. o.col \in Columns
        BY <1>1, CallFact
      <4> QED
        BY <3>1, <4>1, <4>2, SeenFact, AssignFact
    <3> QED
      BY <3>1
  <2>3. h \in SeenRow /\ h.page = seen[r].page /\ h.map = new /\ h.row = seen[r].row
    BY <2>2, SeenFact DEF SeenRow
  <2>4. seen' = [seen EXCEPT ![r] = h]
    BY <2>1
  <2> HIDE DEF new, h
  <2>5. Prepares(r, "write", h)
    BY <1>1, <2>1, <2>2, <2>3, <2>4, SeenFact, LocksFact DEF Prepares
  <2> QED
    BY <2>5, PreparesInv
<1> QED
  BY <1>2, <1>3

LEMMA InsertColumnInv ==
    ASSUME PageSchemaAssumption, IInv, NEW r \in Requests, InsertColumn(r)
    PROVE  IInv'
<1>1. pc[r] = "write" /\ call[r].op = "add" /\ match[r] = None
  BY DEF InsertColumn, IInv, Started
<1>2. CASE Refuse(r)
  BY <1>1, <1>2, RefuseInv
<1>3. CASE ~Refuse(r)
  <2>1. Prepares(r, "audit", seen[r])
    BY <1>1, <1>3, SeenFact, LocksFact DEF InsertColumn, Prepares, HoldsPage
  <2> QED
    BY <2>1, PreparesInv
<1> QED
  BY <1>2, <1>3

LEMMA PlanColumnInv ==
    ASSUME PageSchemaAssumption, IInv, NEW r \in Requests, PlanColumn(r)
    PROVE  IInv'
<1> DEFINE o == call[r]
           m == seen[r].page.map
           t == IF Retyped(r) THEN o.type ELSE Known(r).type
           on == Reindexed(r) /\ o.indexed = "on"
           s == IF on THEN NewSlot(t, m) ELSE None
           new == [m EXCEPT ![o.col] = s]
           kept == IF Reindexed(r) /\ new # m THEN new ELSE None
           h == [seen[r] EXCEPT !.map = kept]
<1>1. pc[r] = "read" /\ o.op = "column" /\ o \in Calls /\ match[r] = None
  BY DEF PlanColumn, Reading, IInv, Started
<1>2. CASE Refuse(r)
  BY <1>1, <1>2, RefuseInv
<1>3. CASE ~Refuse(r)
  <2>1. /\ ~(on /\ FreeSlots(t, m) = {})
        /\ seen' = [seen EXCEPT ![r].map = kept]
        /\ Goto(r, "write")
        /\ UNCHANGED <<Data, Locks, Client>>
    BY <1>3 DEF PlanColumn
  <2>2. new \in Maps /\ Injective(new)
    <3>1. s \in Slots \union {None} /\ (s = None \/ \A c \in Columns : m[c] # s)
      BY <2>1, NewSlotFact
    <3>2. o.col \in Columns
      BY <1>1, CallFact
    <3> HIDE DEF s
    <3> QED
      BY <3>1, <3>2, SeenFact, AssignFact
  <2> HIDE DEF new
  <2>3. h \in SeenRow /\ h.page = seen[r].page /\ h.map = kept /\ h.row = seen[r].row
    BY <2>2, SeenFact DEF SeenRow
  <2>4. seen' = [seen EXCEPT ![r] = h]
    BY <2>1
  <2>5. kept # None => Injective(kept)
    BY <2>2
  <2> HIDE DEF kept, h
  <2>6. Prepares(r, "write", h)
    BY <1>1, <2>1, <2>3, <2>4, <2>5, SeenFact, LocksFact DEF Prepares
  <2> QED
    BY <2>6, PreparesInv
<1> QED
  BY <1>2, <1>3

LEMMA UpdateColumnInv ==
    ASSUME PageSchemaAssumption, IInv, NEW r \in Requests, UpdateColumn(r)
    PROVE  IInv'
<1>1. pc[r] = "write" /\ call[r].op = "column" /\ match[r] = None
  BY DEF UpdateColumn, IInv, Started
<1>2. colLock' \in [Columns -> Requests \union {None}]
  BY LocksFact DEF UpdateColumn
<1>3. Prepares(r, "audit", seen[r])
  BY <1>1, <1>2, SeenFact, LocksFact DEF UpdateColumn, Prepares, HoldsPage
<1> QED
  BY <1>3, PreparesInv

LEMMA AuditColumnInv ==
    ASSUME PageSchemaAssumption, IInv, NEW r \in Requests, AuditColumn(r)
    PROVE  IInv'
<1>1. Prepares(r, "bump", seen[r])
  BY SeenFact, LocksFact DEF AuditColumn, Prepares
<1> QED
  BY <1>1, PreparesInv

LEMMA PlanPageInv ==
    ASSUME PageSchemaAssumption, IInv, NEW r \in Requests, PlanPage(r)
    PROVE  IInv'
<1>1. pc[r] = "read"
  BY DEF PlanPage, Reading
<1>2. CASE Refuse(r)
  BY <1>1, <1>2, RefuseInv
<1>3. CASE ~Refuse(r)
  <2>1. Prepares(r, "write", seen[r])
    BY <1>1, <1>3, SeenFact, LocksFact DEF PlanPage, Prepares
  <2> QED
    BY <2>1, PreparesInv
<1> QED
  BY <1>2, <1>3

LEMMA UpdatePageInv ==
    ASSUME PageSchemaAssumption, IInv, NEW r \in Requests, UpdatePage(r)
    PROVE  IInv'
<1>1. pc[r] = "write" /\ call[r].op = "page"
  BY DEF UpdatePage
<1>2. CASE Refuse(r)
  BY <1>1, <1>2, RefuseInv
<1>3. CASE ~Refuse(r)
  <2>1. /\ Goto(r, "audit") /\ UNCHANGED <<Data, colLock, chain, Client, seen>>
        /\ Touches(r) => pageLock = None /\ pageLock' = r /\ ~Stale(r)
        /\ ~Touches(r) => pageLock' = pageLock /\ match[r] = None
    BY <1>3 DEF UpdatePage, Touches
  <2>2. Prepares(r, "audit", seen[r])
    BY <1>1, <2>1, SeenFact, LocksFact DEF Prepares, HoldsPage, Stale
  <2> QED
    BY <2>2, PreparesInv
<1> QED
  BY <1>2, <1>3

LEMMA ArchivePageInv ==
    ASSUME PageSchemaAssumption, IInv, NEW r \in Requests, ArchivePage(r)
    PROVE  IInv'
<1>1. pc[r] = "read" /\ call[r].op = "archive" /\ match[r] = None
  BY DEF ArchivePage, Reading, IInv, Started
<1>2. Prepares(r, "audit", seen[r])
  BY <1>1, SeenFact, LocksFact DEF ArchivePage, Prepares
<1> QED
  BY <1>2, PreparesInv

\* A row prepared from the columns and the map as read mirrors its document.
LEMMA WrittenFact ==
    ASSUME PageSchemaAssumption, IInv, NEW r \in Requests,
           NEW old \in RecordRow, NEW d \in [Columns -> Cells]
    PROVE  Written(r, old, d) \in RecordRow /\ Mirrors(Written(r, old, d))
<1> DEFINE m == seen[r].page.map
           f == Filled(cols, d)
           p == PopulateProjections(m, f, old.slots)
<1>1. f \in [Columns -> Cells]
  BY DEF Filled, Cells
<1>2. old.slots \in [Slots -> Wire \union {Null}] /\ old.version + 1 \in Nat
  BY DEF RecordRow
<1>3. m \in Maps /\ Injective(m)
  BY SeenFact
<1> HIDE DEF f, m
<1>4. /\ p \in [Slots -> Wire \union {Null}]
      /\ \A c \in Columns : m[c] # None => p[m[c]] = SlotOf(f[c])
  BY <1>1, <1>2, <1>3, PopulateFact
<1> HIDE DEF p
<1>5. Written(r, old, d) = [version |-> old.version + 1, deleted |-> FALSE, data |-> f,
                            slots |-> p, under |-> m]
  BY DEF Written, Record, f, m, p
<1> QED
  BY <1>1, <1>2, <1>3, <1>4, <1>5 DEF RecordRow, Mirrors

\* A step that prepares a row of a record.
LEMMA PrepareInv ==
    ASSUME PageSchemaAssumption, IInv, NEW r \in Requests, NEW q \in Records,
           NEW row \in RecordRow, Mirrors(row),
           pc[r] = "read", call[r].op \in {"create", "edit", "delete"},
           Prepare(r, q, row), Goto(r, "audit"), UNCHANGED <<Data, Locks, Client>>
    PROVE  IInv'
<1> DEFINE h == [seen[r] EXCEPT !.rec = q, !.row = row]
<1>1. h \in SeenRow /\ h.page = seen[r].page /\ h.map = seen[r].map /\ h.row = row
  BY SeenFact DEF SeenRow
<1>2. seen' = [seen EXCEPT ![r] = h]
  BY DEF Prepare
<1>3. match[r] = None
  BY DEF IInv, Started
<1> HIDE DEF h
<1>4. Prepares(r, "audit", h)
  BY <1>1, <1>2, <1>3, SeenFact, LocksFact DEF Prepares, HoldsPage
<1> QED
  BY <1>4, PreparesInv

LEMMA PlanCreateInv ==
    ASSUME PageSchemaAssumption, IInv, NEW r \in Requests, PlanCreate(r)
    PROVE  IInv'
<1>1. pc[r] = "read" /\ call[r].op = "create" /\ call[r] \in Calls
  BY DEF PlanCreate, Reading, IInv, Started
<1>2. CASE Refuse(r)
  BY <1>1, <1>2, RefuseInv
<1>3. CASE ~Refuse(r)
  <2>1. PICK q \in Records : Prepare(r, q, Written(r, NoRecord, call[r].data))
    BY <1>3 DEF PlanCreate
  <2>2. Written(r, NoRecord, call[r].data) \in RecordRow
           /\ Mirrors(Written(r, NoRecord, call[r].data))
    BY <1>1, CallFact, UnreadFact, WrittenFact
  <2>3. Goto(r, "audit") /\ UNCHANGED <<Data, Locks, Client>>
    BY <1>3 DEF PlanCreate
  <2> QED
    BY <1>1, <2>1, <2>2, <2>3, PrepareInv
<1> QED
  BY <1>2, <1>3

LEMMA PlanEditInv ==
    ASSUME PageSchemaAssumption, IInv, NEW r \in Requests, PlanEdit(r)
    PROVE  IInv'
<1> DEFINE q == call[r].rec
           d == Merge(rows[q].data, call[r].data)
<1>1. pc[r] = "read" /\ call[r].op = "edit" /\ call[r] \in Calls
  BY DEF PlanEdit, Reading, IInv, Started
<1>2. CASE Refuse(r)
  BY <1>1, <1>2, RefuseInv
<1>3. CASE ~Refuse(r)
  <2>1. /\ Prepare(r, q, Written(r, rows[q], d))
        /\ Goto(r, "audit") /\ UNCHANGED <<Data, Locks, Client>>
    BY <1>3 DEF PlanEdit
  <2>2. q \in Records /\ rows[q] \in RecordRow
    BY <1>1, CallFact DEF IInv, TypeOK
  <2>3. d \in [Columns -> Cells]
    BY <1>1, <2>2, CallFact DEF Merge, RecordRow
  <2> HIDE DEF d, q
  <2> QED
    BY <1>1, <2>1, <2>2, <2>3, WrittenFact, PrepareInv
<1> QED
  BY <1>2, <1>3

LEMMA RemovedFact ==
    ASSUME NEW old \in RecordRow, Mirrors(old)
    PROVE  Removed(old) \in RecordRow /\ Mirrors(Removed(old))
BY DEF Removed, Record, RecordRow, Mirrors

LEMMA PlanDeleteInv ==
    ASSUME PageSchemaAssumption, IInv, NEW r \in Requests, PlanDelete(r)
    PROVE  IInv'
<1> DEFINE q == call[r].rec
<1>1. pc[r] = "read" /\ call[r].op = "delete" /\ call[r] \in Calls
  BY DEF PlanDelete, Reading, IInv, Started
<1>2. CASE Refuse(r)
  BY <1>1, <1>2, RefuseInv
<1>3. CASE ~Refuse(r)
  <2>1. Prepare(r, q, Removed(rows[q])) /\ Goto(r, "audit") /\ UNCHANGED <<Data, Locks, Client>>
    BY <1>3 DEF PlanDelete
  <2>2. q \in Records /\ rows[q] \in RecordRow /\ Mirrors(rows[q])
    BY <1>1, CallFact DEF IInv, TypeOK, RowsMirror
  <2> HIDE DEF q
  <2> QED
    BY <1>1, <2>1, <2>2, RemovedFact, PrepareInv
<1> QED
  BY <1>2, <1>3

-----------------------------------------------------------------------------
(* The first read, and the commits *)

LEMMA BeginInv ==
    ASSUME PageSchemaAssumption, IInv, NEW r \in Requests, Begin(r)
    PROVE  IInv'
<1>0. PICK o \in Calls :
         /\ call' = [call EXCEPT ![r] = o]
         /\ \E v \in {None} \union (IF o.op = "page" THEN 1 .. page.version ELSE {}) :
              match' = [match EXCEPT ![r] = v]
         /\ seen' = [seen EXCEPT ![r] =
                        Handle(page, IF o.op = "column" THEN cols ELSE Unread.cols)]
  BY DEF Begin
<1>1. PICK v \in {None} \union (IF o.op = "page" THEN 1 .. page.version ELSE {}) :
         match' = [match EXCEPT ![r] = v]
  BY <1>0
<1> DEFINE h == Handle(page, IF o.op = "column" THEN cols ELSE Unread.cols)
<1>2. page \in PageRows /\ page.version \in Nat /\ Injective(page.map)
  BY DEF IInv, TypeOK, PageRows, MapsInjective
<1>3. /\ h \in SeenRow /\ h.page = page /\ h.map = None /\ Mirrors(h.row)
  <2>1. (IF o.op = "column" THEN cols ELSE Unread.cols) \in [Columns -> ColumnRow]
    BY UnreadFact DEF IInv, TypeOK, SeenRow
  <2> QED
    BY <1>2, <2>1, UnreadFact DEF Handle, SeenRow
<1> HIDE DEF h
<1>4. /\ pc' = [pc EXCEPT ![r] = "read"] /\ pc \in [Requests -> Places] /\ pc[r] = "idle"
      /\ seen' = [seen EXCEPT ![r] = h] /\ seen \in [Requests -> SeenRow]
      /\ call' = [call EXCEPT ![r] = o] /\ call \in [Requests -> Calls \union {NoCall}]
      /\ match' = [match EXCEPT ![r] = v] /\ match \in [Requests -> Nat \union {None}]
      /\ UNCHANGED <<page, cols, rows, pageLock, colLock, chain>>
  BY <1>0, <1>1 DEF Begin, IInv, TypeOK, h
<1>5. v \in Nat \union {None} /\ (v # None => o.op = "page")
  BY <1>2
<1>6. TypeOK'
  BY <1>3, <1>4, <1>5 DEF IInv, TypeOK, Places
<1>7. MapsInjective'
  BY <1>2, <1>3, <1>4 DEF IInv, MapsInjective
<1>8. Started'
  BY <1>4, <1>5 DEF IInv, Started
<1>9. PageHeld'
  BY <1>4 DEF IInv, PageHeld, HoldsPage, Touches
<1>10. PageRead'
  <2>1. page.version >= 1
    BY DEF IInv, PageRead
  <2> SUFFICES ASSUME NEW q \in Requests
               PROVE  /\ seen'[q].page.version <= page.version
                      /\ seen'[q].page.version = page.version =>
                           seen'[q].page.dateKey = page.dateKey
    BY <1>4, <2>1 DEF PageRead
  <2>2. CASE q = r
    <3>1. seen'[q].page = page
      BY <1>3, <1>4, <2>2
    <3> QED
      BY <1>2, <3>1
  <2>3. CASE q # r
    <3>1. seen'[q] = seen[q]
      BY <1>4, <2>3
    <3> QED
      BY <3>1 DEF IInv, PageRead
  <2> QED
    BY <2>2, <2>3
<1>11. CachedSchemaCurrent'
  BY <1>4 DEF IInv, CachedSchemaCurrent
<1>12. RowsMirror'
  BY <1>3, <1>4 DEF IInv, RowsMirror
<1>13. OneWinnerPerVersion'
  BY <1>4 DEF IInv, OneWinnerPerVersion
<1> QED
  BY <1>6, <1>7, <1>8, <1>9, <1>10, <1>11, <1>12, <1>13 DEF IInv

LEMMA EndFact ==
    ASSUME PageSchemaAssumption, IInv, NEW r \in Requests, End(r, "ok")
    PROVE  /\ pc' = [pc EXCEPT ![r] = "ok"] /\ pc \in [Requests -> Places]
           /\ pc' \in [Requests -> Places]
           /\ seen' = [seen EXCEPT ![r] = Unread] /\ seen \in [Requests -> SeenRow]
           /\ seen' \in [Requests -> SeenRow]
           /\ pageLock' = IF pageLock = r THEN None ELSE pageLock
           /\ pageLock' \in Requests \union {None}
           /\ chain' \in Requests \union {None}
           /\ colLock' \in [Columns -> Requests \union {None}]
BY UnreadFact DEF IInv, TypeOK, End, Release, Places, Done

\* A committed change of the page to version n and map m, and of its columns.
LEMMA PageChangeInv ==
    ASSUME PageSchemaAssumption, IInv, NEW r \in Requests, End(r, "ok"),
           pc[r] # "idle", call[r].op # "schema",
           page' \in PageRows, Injective(page'.map), cols' \in [Columns -> ColumnRow],
           UNCHANGED <<rows, Client>>,
           \/ page'.version = page.version /\ page'.dateKey = page.dateKey
              /\ cols' = cols /\ match[r] = None
           \/ /\ page'.version = page.version + 1
              /\ pageLock \in {None, r}
              /\ match[r] # None => match[r] = page.version
    PROVE  IInv'
<1>1. /\ page.version \in Nat /\ page'.version \in Nat
      /\ match \in [Requests -> Nat \union {None}]
      /\ \A o \in Requests : seen[o].page.version \in Nat
  BY DEF IInv, TypeOK, PageRows, SeenRow
<1>2. call' = call /\ match' = match /\ rows' = rows
  OBVIOUS
<1>3. TypeOK'
  BY <1>2, EndFact DEF IInv, TypeOK
<1>4. MapsInjective'
  BY EndFact, UnreadFact DEF IInv, MapsInjective
<1>5. Started'
  <2>1. pc' = [pc EXCEPT ![r] = "ok"] /\ pc \in [Requests -> Places]
    BY EndFact
  <2>2. call[r] \in Calls
    BY DEF IInv, Started
  <2> QED
    BY <1>2, <2>1, <2>2 DEF IInv, Started
<1>6. PageHeld'
  <2> SUFFICES ASSUME NEW o \in Requests
               PROVE  /\ (pc'[o] = "audit" /\ HoldsPage(o)) => pageLock' = o
                      /\ (pc'[o] = "audit" /\ match[o] # None) => match[o] = page'.version
                      /\ (pc'[o] = "ok" /\ match[o] # None) => match[o] < page'.version
    BY <1>2 DEF PageHeld, HoldsPage, Touches
  <2>1. CASE o = r
    <3>1. pc'[o] = "ok"
      BY <2>1, EndFact
    <3>2. match[o] # None => match[o] = page.version /\ page'.version = page.version + 1
      BY <2>1
    <3> QED
      BY <1>1, <3>1, <3>2
  <2>2. CASE o # r
    <3>1. pc'[o] = pc[o]
      BY <2>2, EndFact
    <3>2. (pc[o] = "audit" /\ HoldsPage(o)) => pageLock = o
      BY DEF IInv, PageHeld
    <3>3. (pc[o] = "audit" /\ match[o] # None) => HoldsPage(o) /\ match[o] = page.version
      BY DEF IInv, PageHeld, Started, HoldsPage, Touches
    <3>4. o # None
      BY DEF PageSchemaAssumption
    <3>5. (pc[o] = "ok" /\ match[o] # None) => match[o] < page.version
      BY DEF IInv, PageHeld
    <3>6. pc'[o] = "audit" /\ HoldsPage(o) => pageLock' = o
      BY <2>2, <3>1, <3>2, EndFact
    <3>7. pc'[o] = "audit" /\ match[o] # None => match[o] = page'.version
      BY <2>2, <3>1, <3>2, <3>3, <3>4
    <3>8. page.version <= page'.version
      BY <1>1
    <3>9. pc'[o] = "ok" /\ match[o] # None => match[o] < page'.version
      BY <1>1, <3>1, <3>5, <3>8
    <3> QED
      BY <3>6, <3>7, <3>9
  <2> QED
    BY <2>1, <2>2
<1>7. PageRead'
  <2>1. page.version >= 1
    BY DEF IInv, PageRead
  <2> SUFFICES ASSUME NEW o \in Requests
               PROVE  /\ seen'[o].page.version <= page'.version
                      /\ seen'[o].page.version = page'.version =>
                           seen'[o].page.dateKey = page'.dateKey
    BY <1>1, <2>1 DEF PageRead
  <2>2. CASE o = r
    <3>1. seen'[o].page.version = 0
      <4>1. seen'[o] = Unread
        BY <2>2, EndFact
      <4> QED
        BY <4>1, UnreadFact
    <3>2. page'.version >= 1
      BY <1>1, <2>1
    <3> QED
      BY <1>1, <3>1, <3>2
  <2>3. CASE o # r
    <3>1. seen'[o] = seen[o]
      BY <2>3, EndFact
    <3>2. /\ seen[o].page.version <= page.version
          /\ seen[o].page.version = page.version => seen[o].page.dateKey = page.dateKey
      BY DEF IInv, PageRead
    <3>3. page'.version = page.version + 1 => seen[o].page.version < page'.version
      BY <1>1, <3>2
    <3>4. CASE page'.version = page.version /\ page'.dateKey = page.dateKey
      BY <3>1, <3>2, <3>4
    <3>5. CASE page'.version = page.version + 1
      BY <1>1, <3>1, <3>3, <3>5
    <3> QED
      BY <3>4, <3>5
  <2> QED
    BY <2>2, <2>3
<1>8. CachedSchemaCurrent'
  <2> SUFFICES ASSUME NEW o \in Requests, pc'[o] = "ok", call[o].op = "schema",
                      seen'[o].page.version = page'.version
               PROVE  seen'[o].cols = cols' /\ seen'[o].page.dateKey = page'.dateKey
    BY <1>2 DEF CachedSchemaCurrent
  <2>1. o # r /\ pc[o] = "ok" /\ seen'[o] = seen[o]
    BY EndFact
  <2>2. seen[o].page.version <= page.version
    BY DEF IInv, PageRead
  <2> QED
    BY <1>1, <2>1, <2>2 DEF IInv, CachedSchemaCurrent
<1>9. RowsMirror'
  BY <1>2, EndFact, UnreadFact DEF IInv, RowsMirror
<1>10. OneWinnerPerVersion'
  <2> SUFFICES ASSUME NEW p \in Requests, NEW o \in Requests,
                      p # o, pc'[p] = "ok", pc'[o] = "ok", match[p] # None
               PROVE  match[p] # match[o]
    BY <1>2 DEF OneWinnerPerVersion
  <2>1. \A k \in Requests : k # r => pc'[k] = pc[k]
    BY EndFact
  <2>2. match[r] # None => match[r] = page.version
    OBVIOUS
  <2>3. \A k \in Requests : (pc[k] = "ok" /\ match[k] # None) => match[k] < page.version
    BY DEF IInv, PageHeld
  <2>4. CASE p = r
    BY <1>1, <2>1, <2>2, <2>3, <2>4
  <2>5. CASE o = r
    BY <1>1, <2>1, <2>2, <2>3, <2>5
  <2>6. CASE p # r /\ o # r
    BY <2>1, <2>6 DEF IInv, OneWinnerPerVersion
  <2> QED
    BY <2>4, <2>5, <2>6
<1> QED
  BY <1>3, <1>4, <1>5, <1>6, <1>7, <1>8, <1>9, <1>10 DEF IInv

LEMMA ColumnAfterFact ==
    ASSUME PageSchemaAssumption, IInv, NEW r \in Requests,
           call[r] \in Calls, call[r].op \in {"add", "column"}
    PROVE  ColumnAfter(r) \in ColumnRow
<1> DEFINE o == call[r]
           k == cols[o.col]
<1>1. /\ o.col \in Columns /\ k \in ColumnRow
      /\ k.type \in Types /\ k.indexed \in BOOLEAN /\ k.archived \in BOOLEAN
  BY CallFact DEF IInv, TypeOK, ColumnRow
<1>2. CASE o.op = "add"
  <2>1. o.type \in Types
    BY <1>2, CallFact
  <2> QED
    BY <1>2, <2>1 DEF ColumnAfter, Column, ColumnRow
<1>3. CASE o.op = "column"
  <2> DEFINE t == IF Retyped(r) THEN o.type ELSE k.type
             i == IF Reindexed(r) THEN ~Known(r).indexed ELSE k.indexed
             a == Switch(k.archived, o.archived)
  <2>1. t \in Types
    BY <1>1, <1>3, CallFact DEF Retyped
  <2>2. i \in BOOLEAN
    <3>1. (~Known(r).indexed) \in BOOLEAN
      BY Zenon
    <3> QED
      BY <1>1, <3>1
  <2>3. a \in BOOLEAN
    <3>1. (o.archived = "on") \in BOOLEAN
      BY Zenon
    <3> QED
      BY <1>1, <3>1, Zenon DEF Switch
  <2>4. ColumnAfter(r) = Column(TRUE, t, i, a)
    BY <1>3 DEF ColumnAfter
  <2> HIDE DEF t, i, a
  <2> QED
    BY <2>1, <2>2, <2>3, <2>4 DEF Column, ColumnRow
<1> QED
  BY <1>2, <1>3

LEMMA BumpAndCommitInv ==
    ASSUME PageSchemaAssumption, IInv, NEW r \in Requests, BumpAndCommit(r)
    PROVE  IInv'
<1>1. /\ pc[r] = "bump" /\ call[r] \in Calls /\ call[r].op \in {"add", "column"}
      /\ match[r] = None
  BY DEF BumpAndCommit, IInv, Started
<1>2. cols' \in [Columns -> ColumnRow]
  <2>1. cols' = [cols EXCEPT ![call[r].col] = ColumnAfter(r)]
    BY DEF BumpAndCommit
  <2> QED
    BY <1>1, <2>1, ColumnAfterFact DEF IInv, TypeOK
<1>3. page \in PageRows /\ MapAfter(r) \in Maps /\ Injective(MapAfter(r))
  BY SeenFact DEF MapAfter, IInv, TypeOK, MapsInjective, SeenRow, PageRows
<1>4. page' = [page EXCEPT !.version = page.version + 1, !.map = MapAfter(r)]
  BY DEF BumpAndCommit, NextVersion
<1>5. page' \in PageRows /\ page'.version = page.version + 1 /\ page'.map = MapAfter(r)
  <2>1. page.version + 1 \in Nat
    BY <1>3 DEF PageRows
  <2>2. \A v \in Nat, m \in Maps : page' = [page EXCEPT !.version = v, !.map = m] =>
          page' \in PageRows /\ page'.version = v /\ page'.map = m
    BY <1>3 DEF PageRows
  <2> QED
    BY <1>3, <1>4, <2>1, <2>2
<1>6. End(r, "ok") /\ UNCHANGED <<rows, Client>> /\ pageLock = None
  BY DEF BumpAndCommit
<1> QED
  BY <1>1, <1>2, <1>3, <1>5, <1>6, PageChangeInv

LEMMA AuditAndCommitPageInv ==
    ASSUME PageSchemaAssumption, IInv, NEW r \in Requests, AuditAndCommitPage(r)
    PROVE  IInv'
<1>1. /\ pc[r] = "audit" /\ call[r] \in Calls /\ call[r].op \in {"page", "archive"}
      /\ match[r] # None => call[r].op = "page" /\ Touches(r) /\ match[r] = page.version
      /\ HoldsPage(r) => pageLock = r
  BY DEF AuditAndCommitPage, IInv, Started, PageHeld, Touches
<1>2. /\ page \in PageRows /\ Injective(page.map) /\ cols \in [Columns -> ColumnRow]
      /\ page.version \in Nat
  BY DEF IInv, TypeOK, MapsInjective, PageRows
<1>3. End(r, "ok") /\ cols' = cols /\ UNCHANGED <<rows, Client>>
  BY DEF AuditAndCommitPage
<1>4. CASE call[r].op = "archive"
  <2>1. page' = [page EXCEPT !.archived = TRUE]
    BY <1>4 DEF AuditAndCommitPage
  <2>2. page' \in PageRows
    BY <1>2, <2>1 DEF PageRows
  <2>3. page'.map = page.map /\ page'.version = page.version /\ page'.dateKey = page.dateKey
    BY <1>2, <2>1 DEF PageRows
  <2> QED
    BY <1>1, <1>2, <1>3, <1>4, <2>2, <2>3, PageChangeInv
<1>5. CASE call[r].op = "page" /\ Touches(r)
  <2> DEFINE k == IF call[r].dateKey # None THEN call[r].dateKey ELSE page.dateKey
  <2>1. page' = [page EXCEPT !.version = page.version + 1, !.dateKey = k]
    BY <1>5 DEF AuditAndCommitPage, NextVersion
  <2>2. k \in Columns \union {None}
    BY <1>1, <1>2, <1>5, CallFact DEF PageRows
  <2> HIDE DEF k
  <2>3. page' \in PageRows /\ page'.map = page.map /\ page'.version = page.version + 1
    <3>1. page.version + 1 \in Nat
      BY <1>2
    <3>2. \A v \in Nat, d \in Columns \union {None} :
            page' = [page EXCEPT !.version = v, !.dateKey = d] =>
              page' \in PageRows /\ page'.map = page.map /\ page'.version = v
      BY <1>2 DEF PageRows
    <3> QED
      BY <2>1, <2>2, <3>1, <3>2
  <2>4. pageLock = r
    BY <1>1, <1>5 DEF HoldsPage
  <2> QED
    BY <1>1, <1>2, <1>3, <1>5, <2>3, <2>4, PageChangeInv
<1>6. CASE call[r].op = "page" /\ ~Touches(r)
  <2>1. page' = page
    BY <1>6 DEF AuditAndCommitPage
  <2> QED
    BY <1>1, <1>2, <1>3, <1>6, <2>1, PageChangeInv
<1> QED
  BY <1>1, <1>4, <1>5, <1>6

LEMMA CommitRecordInv ==
    ASSUME PageSchemaAssumption, IInv, NEW r \in Requests, CommitRecord(r)
    PROVE  IInv'
<1>1. pc[r] = "audit" /\ call[r].op \in {"create", "edit", "delete"} /\ match[r] = None
  BY DEF CommitRecord, IInv, Started
<1>2. CASE Refuse(r)
  BY <1>1, <1>2, RefuseInv
<1>3. CASE ~Refuse(r)
  <2>1. /\ rows' = [rows EXCEPT ![seen[r].rec] = seen[r].row]
        /\ End(r, "ok")
        /\ page' = page /\ cols' = cols /\ call' = call /\ match' = match
    BY <1>3 DEF CommitRecord
  <2>2. seen[r].row \in RecordRow /\ Mirrors(seen[r].row)
    BY SeenFact DEF SeenRow
  <2>3. TypeOK'
    BY <2>1, <2>2, EndFact DEF IInv, TypeOK
  <2>4. MapsInjective'
    BY <2>1, EndFact, UnreadFact DEF IInv, MapsInjective
  <2>5. Started'
    BY <1>1, <2>1, EndFact DEF IInv, Started
  <2> DEFINE NewLock == IF pageLock = r THEN None ELSE pageLock
  <2>10. /\ pc' = [pc EXCEPT ![r] = "ok"] /\ pc \in [Requests -> Places]
         /\ seen' = [seen EXCEPT ![r] = Unread] /\ seen \in [Requests -> SeenRow]
         /\ pageLock' = NewLock
    BY <2>1, EndFact
  <2>6. PageHeld'
    <3> SUFFICES ASSUME NEW o \in Requests
                 PROVE  /\ (pc'[o] = "audit" /\ HoldsPage(o)) => pageLock' = o
                        /\ (pc'[o] = "audit" /\ match[o] # None) => match[o] = page.version
                        /\ (pc'[o] = "ok" /\ match[o] # None) => match[o] < page.version
      BY <2>1 DEF PageHeld, HoldsPage, Touches
    <3>1. CASE o = r
      BY <1>1, <2>10, <3>1
    <3>2. CASE o # r
      BY <2>10, <3>2 DEF IInv, PageHeld
    <3> QED
      BY <3>1, <3>2
  <2>7. PageRead'
    <3>1. page.version \in Nat /\ page.version >= 1
      BY DEF IInv, TypeOK, PageRows, PageRead
    <3>2. Unread.page.version = 0
      BY UnreadFact
    <3> QED
      BY <2>1, <2>10, <3>1, <3>2 DEF IInv, PageRead
  <2>8. CachedSchemaCurrent'
    BY <1>1, <2>1, <2>10 DEF IInv, CachedSchemaCurrent
  <2>9. RowsMirror'
    BY <2>1, <2>2, EndFact, UnreadFact DEF IInv, TypeOK, RowsMirror
  <2>11. OneWinnerPerVersion'
    BY <1>1, <2>1, <2>10 DEF IInv, OneWinnerPerVersion
  <2> QED
    BY <2>3, <2>4, <2>5, <2>6, <2>7, <2>8, <2>9, <2>11 DEF IInv
<1> QED
  BY <1>2, <1>3

LEMMA ReadSchemaInv ==
    ASSUME PageSchemaAssumption, IInv, NEW r \in Requests, ReadSchema(r)
    PROVE  IInv'
<1> DEFINE h == [seen[r] EXCEPT !.cols = cols]
<1>1. /\ pc[r] = "read" /\ call[r].op = "schema" /\ call[r] \in Calls /\ match[r] = None
      /\ pc' = [pc EXCEPT ![r] = "ok"] /\ pc \in [Requests -> Places]
      /\ UNCHANGED <<page, cols, rows, pageLock, colLock, chain, call, match>>
  BY DEF ReadSchema, Reading, IInv, Started, TypeOK
<1>2. h \in SeenRow /\ h.page = seen[r].page /\ h.map = seen[r].map /\ h.row = seen[r].row
         /\ h.cols = cols
  <2>1. seen[r] \in SeenRow /\ cols \in [Columns -> ColumnRow]
    BY SeenFact DEF IInv, TypeOK
  <2> QED
    BY <2>1 DEF SeenRow
<1>3. seen' = [seen EXCEPT ![r] = h] /\ seen \in [Requests -> SeenRow]
  BY DEF ReadSchema, IInv, TypeOK
<1> HIDE DEF h
<1>4. TypeOK'
  BY <1>1, <1>2, <1>3 DEF IInv, TypeOK, Places, Done
<1>5. MapsInjective'
  BY <1>1, <1>2, <1>3 DEF IInv, MapsInjective
<1>6. Started'
  BY <1>1 DEF IInv, Started
<1>7. PageHeld'
  BY <1>1 DEF IInv, PageHeld, HoldsPage, Touches
<1>8. PageRead'
  BY <1>1, <1>2, <1>3 DEF IInv, PageRead
<1>9. CachedSchemaCurrent'
  <2> SUFFICES ASSUME NEW o \in Requests, pc'[o] = "ok", call[o].op = "schema",
                      seen'[o].page.version = page.version
               PROVE  seen'[o].cols = cols /\ seen'[o].page.dateKey = page.dateKey
    BY <1>1 DEF CachedSchemaCurrent
  <2>1. CASE o = r
    BY <1>2, <1>3, <2>1 DEF IInv, PageRead
  <2>2. CASE o # r
    BY <1>1, <1>3, <2>2 DEF IInv, CachedSchemaCurrent
  <2> QED
    BY <2>1, <2>2
<1>10. RowsMirror'
  BY <1>1, <1>2, <1>3 DEF IInv, RowsMirror
<1>11. OneWinnerPerVersion'
  BY <1>1 DEF IInv, OneWinnerPerVersion
<1> QED
  BY <1>4, <1>5, <1>6, <1>7, <1>8, <1>9, <1>10, <1>11 DEF IInv

-----------------------------------------------------------------------------
(* Every step, and the theorems *)

LEMMA StepInv ==
    ASSUME PageSchemaAssumption, IInv, [Next]_vars
    PROVE  IInv'
<1>1. CASE UNCHANGED vars
  BY <1>1 DEF vars, IInv, TypeOK, MapsInjective, Started, PageHeld, HoldsPage, Touches,
              PageRead, CachedSchemaCurrent, RowsMirror, OneWinnerPerVersion
<1>2. ASSUME NEW r \in Requests, Begin(r) \/ Step(r) \/ Fail(r) \/ BreakDeadlock(r)
      PROVE  IInv'
  <2>1. CASE Begin(r)
    BY <2>1, BeginInv
  <2>2. CASE PlanAdd(r) \/ InsertColumn(r) \/ PlanColumn(r) \/ UpdateColumn(r)
    BY <2>2, PlanAddInv, InsertColumnInv, PlanColumnInv, UpdateColumnInv
  <2>3. CASE AuditColumn(r) \/ BumpAndCommit(r) \/ PlanPage(r) \/ UpdatePage(r)
    BY <2>3, AuditColumnInv, BumpAndCommitInv, PlanPageInv, UpdatePageInv
  <2>4. CASE ArchivePage(r) \/ AuditAndCommitPage(r) \/ ReadSchema(r)
    BY <2>4, ArchivePageInv, AuditAndCommitPageInv, ReadSchemaInv
  <2>5. CASE PlanCreate(r) \/ PlanEdit(r) \/ PlanDelete(r) \/ CommitRecord(r)
    BY <2>5, PlanCreateInv, PlanEditInv, PlanDeleteInv, CommitRecordInv
  <2>6. CASE Fail(r) \/ BreakDeadlock(r)
    <3>1. pc[r] # "idle" /\ Refuse(r)
      BY <2>6 DEF Fail, BreakDeadlock
    <3> QED
      BY <3>1, RefuseInv
  <2> QED
    BY <1>2, <2>1, <2>2, <2>3, <2>4, <2>5, <2>6 DEF Step
<1> QED
  BY <1>1, <1>2 DEF Next

LEMMA Invariant == Spec => []IInv
<1>1. Init => IInv
  BY PageSchemaAssumption, InitInv
<1>2. IInv /\ [Next]_vars => IInv'
  BY PageSchemaAssumption, StepInv
<1> QED
  BY <1>1, <1>2, PTL DEF Spec

\* The page, its columns and its records keep to the values of their tables.
THEOREM TypeCorrect == Spec => []TypeOK
<1>1. IInv => TypeOK
  BY DEF IInv
<1> QED
  BY <1>1, Invariant, PTL

\* No interleaving of index changes, each of which writes back a map computed
\* from the page it read, gives two columns one slot (allocate_projection_slot).
THEOREM SlotsUnshared == Spec => []SlotsNotShared
<1>1. IInv => SlotsNotShared
  BY DEF IInv, MapsInjective, Injective, SlotsNotShared
<1> QED
  BY <1>1, Invariant, PTL

\* A cached schema at the version of the page is the schema of the page
\* (get_page_schema, bump_schema_version).
THEOREM CacheIsCurrent == Spec => []CachedSchemaCurrent
<1>1. IInv => CachedSchemaCurrent
  BY DEF IInv
<1> QED
  BY <1>1, Invariant, PTL

\* A committed edit left a newer version behind than the one it asserted, so
\* no two that assert one version both succeed.
THEOREM OneWinner == Spec => []OneWinnerPerVersion
<1>1. IInv => OneWinnerPerVersion
  BY DEF IInv
<1> QED
  BY <1>1, Invariant, PTL

\* What a statement reads of a column, from the slot its last writer filled or
\* from the document, is the value cut as a slot cuts it, whatever was added,
\* moved, retyped or archived meanwhile: for every way slots round and cut
\* (_populate_projections, resolve_column).
THEOREM FreshRows == Spec => []FreshRowsAgree
<1>1. IInv => FreshRowsAgree
  <2> SUFFICES ASSUME IInv, NEW q \in Records, NEW c \in Columns,
                      page.map[c] # None => rows[q].under[c] = page.map[c],
                      rows[q].data[c] \in Wire => rows[q].data[c] \in Readable(cols[c].type)
               PROVE  Resolve(page, cols, rows[q], c) =
                          IF page.map[c] = None THEN TryCast(rows[q].data[c], cols[c].type)
                          ELSE InSlot(TryCast(rows[q].data[c], cols[c].type))
    BY DEF FreshRowsAgree
  <2> DEFINE v == rows[q].data[c]
             t == cols[c].type
  <2>1. Mirrors(rows[q]) /\ v \in Cells /\ t \in Types
    BY DEF IInv, TypeOK, RowsMirror, RecordRow, ColumnRow
  <2>2. CASE page.map[c] = None
    BY <2>2 DEF Resolve
  <2>3. CASE page.map[c] # None
    <3>1. Resolve(page, cols, rows[q], c) = SlotOf(v)
      BY <2>1, <2>3 DEF Resolve, Mirrors
    <3> HIDE DEF v, t
    <3>2. CASE v \in Wire
      <4>1. InSlot(InSlot(v)) = InSlot(v) /\ SlotOf(v) = InSlot(v)
        BY <3>2, PageSchemaAssumption DEF InSlot, SlotOf, PageSchemaAssumption
      <4>2. TryCast(v, t) \in {v, InSlot(v)}
        BY <3>2 DEF TryCast, v, t
      <4> QED
        BY <2>3, <3>1, <4>1, <4>2 DEF v, t
    <3>3. CASE v \in {Null, Absent}
      <4>1. Readable(t) \subseteq Wire
        BY <2>1 DEF Readable, Accepts, Types, Wire, Indexable
      <4>2. TryCast(v, t) = Null /\ InSlot(Null) = Null /\ SlotOf(v) = Null
        BY <3>3, <4>1, PageSchemaAssumption
           DEF TryCast, InSlot, SlotOf, PageSchemaAssumption, Wire
      <4> QED
        BY <2>3, <3>1, <4>2 DEF v, t
    <3> QED
      BY <2>1, <3>2, <3>3 DEF Cells
  <2> QED
    BY <2>2, <2>3
<1> QED
  BY <1>1, Invariant, PTL
=============================================================================
