----------------------------- MODULE PageSchema -----------------------------
(***************************************************************************)
(* One page of a company, its columns and its records, while an owner      *)
(* restructures it (services/page_service.py, services/schema_service.py,  *)
(* services/reference_service.py, repositories/records.py).                *)
(*                                                                         *)
(* A column is data, not DDL: a record keeps its values in a JSON document *)
(* under the column's key, and an indexed column is copied into one of a   *)
(* few typed slots (num_1 .. num_4, date_1, date_2) as pages.projection_map*)
(* says.  Filters, sorts and totals read the slot and never the document.  *)
(*                                                                         *)
(* A request is one transaction at READ COMMITTED.  It reads the page and  *)
(* then the columns, decides, and writes: the row lock of the column, the  *)
(* row lock of the page and the one lock of the audit chain are taken in   *)
(* the order of the statements of each handler and kept until it ends.     *)
(* projection_map is an attribute of the page as it was read, and is       *)
(* written back whole when the transaction commits.                        *)
(***************************************************************************)
EXTENDS Naturals, FiniteSets

CONSTANTS
    Columns,      \* column keys
    FirstColumn,  \* the column the page is created with
    FirstType,    \* and its type
    NumSlots,     \* num_1 .. num_4
    DateSlots,    \* date_1, date_2
    Records,      \* record ids
    Numbers,      \* wire values that read as a number
    Dates,        \* wire values that read as a date or a moment
    Kept,         \* value -> what a slot keeps of it, if it has room for it
    Words,        \* the other texts
    Null,         \* a key present without a value
    Absent,       \* a key that is not in the document
    None,
    Requests,     \* HTTP calls, each made once, numbered as they arrive
    Calls         \* the operations asked for

VARIABLES
    page,      \* the committed row of pages
    cols,      \* column key -> the committed row of page_columns
    rows,      \* record id -> the committed row of records
    pageLock,  \* the request whose uncommitted UPDATE holds the page
    colLock,   \* column key -> the request that inserted or updated it
    chain,     \* the request that holds the audit chain
    pc,        \* request -> where its handler stands
    call,      \* request -> its operation
    match,     \* request -> the version of its If-Match, if it sent one
    seen       \* request -> what its transaction has read and prepared

vars == <<page, cols, rows, pageLock, colLock, chain, pc, call, match, seen>>

-----------------------------------------------------------------------------
(* NUMBER stands for CURRENCY and PERCENT too, DATE for DATETIME, TEXT for  *)
(* the types read as plain text.  RECORD_REF points into this same page.   *)
Types == {"NUMBER", "DATE", "TEXT", "RECORD_REF"}
Indexable == {"NUMBER", "DATE"}
Slots == NumSlots \union DateSlots
Wire == Numbers \union Dates \union Words \union Records
Cells == Wire \union {Null, Absent}

\* What the generated Pydantic model of a column takes.
Accepts == [t \in Types |-> CASE t = "NUMBER" -> Numbers
                              [] t = "DATE" -> Dates
                              [] t = "RECORD_REF" -> Records
                              [] OTHER -> Wire]

PageRow(v, m, k, a) == [version |-> v, map |-> m, dateKey |-> k, archived |-> a]
NoMap == [c \in Columns |-> None]
Maps == [Columns -> Slots \union {None}]

Column(there, t, ix, a) ==
    [there |-> there, type |-> t, indexed |-> ix, archived |-> a]
NoColumn == Column(FALSE, "TEXT", FALSE, FALSE)
LiveColumns(cs) == {c \in Columns : cs[c].there /\ ~cs[c].archived}

\* under is history: the projection_map its last writer had read.
Record(v, del, d, sl, m) ==
    [version |-> v, deleted |-> del, data |-> d, slots |-> sl, under |-> m]
NoData == [c \in Columns |-> Absent]
EmptySlots == [s \in Slots |-> Null]
NoRecord == Record(0, FALSE, NoData, EmptySlots, NoMap)
Live(q) == rows[q].version > 0 /\ ~rows[q].deleted

\* The operations.  A patch of a column or of a page names only what it sends.
AllCalls ==
    [op : {"add"}, col : Columns, type : Types, indexed : {"on", "off"}]
      \union
    [op : {"column"}, col : Columns, type : Types \union {"same"}, confirm : BOOLEAN,
     indexed : {"on", "off", "same"}, archived : {"on", "off", "same"}]
      \union
    [op : {"page"}, dateKey : Columns \union {None}, named : BOOLEAN]
      \union
    [op : {"archive"}] \union [op : {"schema"}]
      \union
    [op : {"create"}, data : [Columns -> Cells]]
      \union
    [op : {"edit"}, rec : Records, data : [Columns -> Cells]]
      \union
    [op : {"delete"}, rec : Records]
NoCall == [op |-> "none"]

Handle(p, cs) == [page |-> p, cols |-> cs, map |-> None, rec |-> None, row |-> NoRecord]
Unread == Handle(PageRow(0, NoMap, None, FALSE), [c \in Columns |-> NoColumn])

ASSUME PageSchemaAssumption ==
    /\ FirstColumn \in Columns
    /\ FirstType \in Types
    /\ NumSlots # {} /\ DateSlots # {}
    /\ NumSlots \intersect DateSlots = {}
    /\ None \notin Slots \union Columns \union Requests \union Records \union Nat
    /\ {Null, Absent} \intersect Wire = {}
    /\ DOMAIN Kept \subseteq Numbers \union Dates
    /\ \A v \in DOMAIN Kept :
          /\ v \in Numbers => Kept[v] \in Numbers
          /\ v \in Dates => Kept[v] \in Dates
          /\ Kept[v] \in DOMAIN Kept /\ Kept[Kept[v]] = Kept[v]
    /\ Null # Absent
    /\ Requests \subseteq Nat
    /\ Calls \subseteq AllCalls

-----------------------------------------------------------------------------
(* Slots and the two ways to read a cell.                                  *)

Switch(old, s) == IF s = "same" THEN old ELSE s = "on"

SlotsFor(t) == IF t = "NUMBER" THEN NumSlots ELSE DateSlots
FreeSlots(t, m) == {s \in SlotsFor(t) : \A c \in Columns : m[c] # s}
\* The next free one: which of them it is makes no difference.
NewSlot(t, m) == CHOOSE s \in FreeSlots(t, m) : TRUE

IsFreeWiden(old, new) == old = new \/ new = "TEXT"

\* A num slot is NUMERIC(14, 2) and rounds to it, a date slot drops the time
\* of day.
InSlot(v) == IF v \in DOMAIN Kept THEN Kept[v] ELSE v

\* A text that is no number or no date reads as NULL instead of failing, and
\* one that is a moment as its date.
Readable(t) == IF t \in Indexable THEN Accepts[t] ELSE Wire
TryCast(v, t) ==
    IF v \notin Readable(t) THEN Null ELSE IF t = "DATE" THEN InSlot(v) ELSE v
Resolve(p, cs, row, c) ==
    IF p.map[c] # None THEN row.slots[p.map[c]] ELSE TryCast(row.data[c], cs[c].type)

\* Each mapped slot is written, an empty value included.
ColumnOf(m, s) == CHOOSE c \in Columns : m[c] = s
\* Mutant: an empty value leaves its slot alone.
MutantSkipsEmpty(m, d, slots) ==
    [s \in Slots |-> IF (\A c \in Columns : m[c] # s) \/ d[ColumnOf(m, s)] \notin Wire
                     THEN slots[s] ELSE InSlot(d[ColumnOf(m, s)])]
PopulateProjections(m, d, slots) ==
    [s \in Slots |-> IF \A c \in Columns : m[c] # s THEN slots[s]
                     ELSE LET v == d[ColumnOf(m, s)] IN IF v = Absent THEN Null ELSE InSlot(v)]
\* A num slot takes a number it has room for, a date slot only a date value.
SlotsFit(m, cs, d) ==
    \A c \in Columns : (m[c] # None /\ d[c] \in Wire) =>
        IF m[c] \in NumSlots THEN d[c] \in Numbers \intersect DOMAIN Kept
                             ELSE cs[c].type = "DATE"

\* Keys outside the live columns are refused, missing ones become null.
Given(d) == {c \in Columns : d[c] # Absent}
Valid(cs, d) ==
    /\ Given(d) \subseteq LiveColumns(cs)
    /\ \A c \in Given(d) : d[c] \in Accepts[cs[c].type] \union {Null}
Filled(cs, d) ==
    [c \in Columns |-> IF c \in LiveColumns(cs) /\ d[c] = Absent THEN Null ELSE d[c]]
Merge(old, d) == [c \in Columns |-> IF d[c] = Absent THEN old[c] ELSE d[c]]

\* validate_record_refs and check_no_inbound_references.
RefColumns(cs) == {c \in LiveColumns(cs) : cs[c].type = "RECORD_REF"}
RefsExist(cs, d) == \A c \in RefColumns(cs) : d[c] \in Records => Live(d[c])
Referenced(q) ==
    \E c \in RefColumns(cols), o \in Records : Live(o) /\ Resolve(page, cols, rows[o], c) = q

-----------------------------------------------------------------------------
\* create_page with its first column, indexed or not.
Init ==
    /\ \E ix \in BOOLEAN :
         /\ cols = [c \in Columns |-> IF c = FirstColumn THEN Column(TRUE, FirstType, ix, FALSE)
                                                         ELSE NoColumn]
         /\ page = PageRow(1, IF ix /\ FirstType \in Indexable
                              THEN [NoMap EXCEPT ![FirstColumn] = NewSlot(FirstType, NoMap)]
                              ELSE NoMap, None, FALSE)
    /\ rows = [q \in Records |-> NoRecord]
    /\ pageLock = None
    /\ colLock = [c \in Columns |-> None]
    /\ chain = None
    /\ pc = [r \in Requests |-> "idle"]
    /\ call = [r \in Requests |-> NoCall]
    /\ match = [r \in Requests |-> None]
    /\ seen = [r \in Requests |-> Unread]

Goto(r, l) == pc' = [pc EXCEPT ![r] = l]
Data == <<page, cols, rows>>
Locks == <<pageLock, colLock, chain>>
Client == <<call, match>>

\* Mutant: the lock of the page belongs to the session, not to its transaction.
MutantKeepsPage(r) ==
    /\ colLock' = [c \in Columns |-> IF colLock[c] = r THEN None ELSE colLock[c]]
    /\ chain' = IF chain = r THEN None ELSE chain
    /\ UNCHANGED pageLock

\* The transaction ends and its locks are released.
Release(r) ==
    /\ pageLock' = IF pageLock = r THEN None ELSE pageLock
    /\ colLock' = [c \in Columns |-> IF colLock[c] = r THEN None ELSE colLock[c]]
    /\ chain' = IF chain = r THEN None ELSE chain
End(r, l) == Goto(r, l) /\ Release(r) /\ seen' = [seen EXCEPT ![r] = Unread]
Refuse(r) == End(r, "refused") /\ UNCHANGED <<Data, Client>>
Done == {"ok", "refused"}

\* Bound: an INSERT draws a new id, and there are as many as Records.
IdsLeft == Cardinality({r \in Requests : call[r].op = "create"}) < Cardinality(Records)

\* A client edits and deletes records it knows.
\* The first statement of every handler reads the page.  update_column reads
\* the column with it, in one join.
Begin(r) ==
    /\ pc[r] = "idle"
    /\ \A o \in Requests : o < r => pc[o] # "idle"
    /\ \E o \in Calls :
         /\ o.op = "create" => IdsLeft
         /\ o.op \in {"edit", "delete"} => rows[o.rec].version > 0
         /\ call' = [call EXCEPT ![r] = o]
         /\ \E v \in {None} \union (IF o.op = "page" THEN 1 .. page.version ELSE {}) :
              match' = [match EXCEPT ![r] = v]
         /\ seen' = [seen EXCEPT ![r] =
                        Handle(page, IF o.op = "column" THEN cols ELSE Unread.cols)]
    /\ Goto(r, "read")
    /\ UNCHANGED <<Data, Locks>>

Reading(r, op) == pc[r] = "read" /\ call[r].op = op

(* add_column.  The map it prepares is the one it read plus the new slot.  *)
PlanAdd(r) ==
    /\ Reading(r, "add")
    /\ LET o == call[r]
           m == seen[r].page.map
           slotted == o.indexed = "on" /\ o.type \in Indexable
       IN  IF cols[o.col].there \/ (slotted /\ FreeSlots(o.type, m) = {})
           THEN Refuse(r)
           ELSE /\ seen' = [seen EXCEPT ![r].map =
                              IF slotted THEN [m EXCEPT ![o.col] = NewSlot(o.type, m)] ELSE None]
                /\ Goto(r, "write")
                /\ UNCHANGED <<Data, Locks, Client>>

\* The INSERT waits for an uncommitted one with its key, and fails on a
\* committed one.
InsertColumn(r) ==
    /\ pc[r] = "write" /\ call[r].op = "add"
    /\ colLock[call[r].col] = None
    /\ IF cols[call[r].col].there
       THEN Refuse(r)
       ELSE /\ colLock' = [colLock EXCEPT ![call[r].col] = r]
            /\ Goto(r, "audit")
            /\ UNCHANGED <<Data, pageLock, chain, Client, seen>>

(* update_column.  A type change keeps the slot, an index switched on takes *)
(* a free one, and an equal map is not written back.                       *)
Known(r) == seen[r].cols[call[r].col]
Retyped(r) == call[r].type \notin {"same", Known(r).type}
Reindexed(r) == Switch(Known(r).indexed, call[r].indexed) # Known(r).indexed
PlanColumn(r) ==
    /\ Reading(r, "column")
    /\ LET o == call[r]
           m == seen[r].page.map
           t == IF Retyped(r) THEN o.type ELSE Known(r).type
           on == Reindexed(r) /\ o.indexed = "on"
           new == [m EXCEPT ![o.col] = IF on THEN NewSlot(t, m) ELSE None]
       IN  IF \/ ~Known(r).there
              \/ ~IsFreeWiden(Known(r).type, t) /\ ~o.confirm
              \/ on /\ (t \notin Indexable \/ FreeSlots(t, m) = {})
           THEN Refuse(r)
           ELSE /\ seen' = [seen EXCEPT ![r].map = IF Reindexed(r) /\ new # m THEN new ELSE None]
                /\ Goto(r, "write")
                /\ UNCHANGED <<Data, Locks, Client>>

\* Without a change there is no UPDATE, and the request still audits and bumps.
UpdateColumn(r) ==
    /\ pc[r] = "write" /\ call[r].op = "column"
    /\ IF Retyped(r) \/ Reindexed(r) \/ call[r].archived # "same"
       THEN colLock[call[r].col] = None /\ colLock' = [colLock EXCEPT ![call[r].col] = r]
       ELSE UNCHANGED colLock
    /\ Goto(r, "audit")
    /\ UNCHANGED <<Data, pageLock, chain, Client, seen>>

\* The audit INSERT of both.
AuditColumn(r) ==
    /\ pc[r] = "audit" /\ call[r].op \in {"add", "column"}
    /\ chain = None
    /\ chain' = r
    /\ Goto(r, "bump")
    /\ UNCHANGED <<Data, pageLock, colLock, Client, seen>>

\* bump_schema_version waits for the row of the page, then the transaction
\* commits: the column, the version and the map prepared from the page read.
MutantNeverWritten == page.version      \* mutant: as before bump_schema_version
NextVersion == page.version + 1
ColumnAfter(r) ==
    LET o == call[r]
        k == cols[o.col]
    IN  IF o.op = "add" THEN Column(TRUE, o.type, o.indexed = "on", FALSE)
        ELSE Column(TRUE, IF Retyped(r) THEN o.type ELSE k.type,
                    IF Reindexed(r) THEN ~Known(r).indexed ELSE k.indexed,
                    Switch(k.archived, o.archived))
\* Mutant: the one key is merged into the map as it is now.
MutantMergesKey(r) ==
    IF seen[r].map = None THEN page.map
    ELSE [page.map EXCEPT ![call[r].col] = seen[r].map[call[r].col]]
MapAfter(r) == IF seen[r].map = None THEN page.map ELSE seen[r].map
BumpAndCommit(r) ==
    /\ pc[r] = "bump"
    /\ pageLock = None
    /\ cols' = [cols EXCEPT ![call[r].col] = ColumnAfter(r)]
    /\ page' = [page EXCEPT !.version = NextVersion, !.map = MapAfter(r)]
    /\ End(r, "ok")
    /\ UNCHANGED <<rows, Client>>

(* update_page: the special key is checked against the columns as they are *)
(* now, the version under If-Match against the row it has locked.          *)
PlanPage(r) ==
    /\ Reading(r, "page")
    /\ LET k == call[r].dateKey
       IN  IF k # None /\ ~(k \in LiveColumns(cols) /\ cols[k].type = "DATE")
           THEN Refuse(r)
           ELSE /\ Goto(r, "write")
                /\ UNCHANGED <<Data, Locks, Client, seen>>

\* Mutant: the version is compared with the page as it was read.
MutantCheckThenAct(r) == match[r] # None /\ match[r] # seen[r].page.version
Stale(r) == match[r] # None /\ match[r] # page.version
Touches(r) == call[r].named \/ call[r].dateKey # None \/ match[r] # None
UpdatePage(r) ==
    /\ pc[r] = "write" /\ call[r].op = "page"
    /\ IF ~Touches(r) THEN Goto(r, "audit") /\ UNCHANGED <<Data, Locks, Client, seen>>
       ELSE /\ pageLock = None
            /\ IF Stale(r)
               THEN Refuse(r)
               ELSE /\ pageLock' = r
                    /\ Goto(r, "audit")
                    /\ UNCHANGED <<Data, colLock, chain, Client, seen>>

\* archive_page leaves the version alone.
ArchivePage(r) ==
    /\ Reading(r, "archive")
    /\ pageLock = None
    /\ pageLock' = r
    /\ Goto(r, "audit")
    /\ UNCHANGED <<Data, colLock, chain, Client, seen>>

\* Their audit INSERT is the last statement before the commit.
AuditAndCommitPage(r) ==
    /\ pc[r] = "audit" /\ call[r].op \in {"page", "archive"}
    /\ chain = None
    /\ page' = IF call[r].op = "archive" THEN [page EXCEPT !.archived = TRUE]
               ELSE IF Touches(r)
               THEN [page EXCEPT !.version = NextVersion,
                                 !.dateKey = IF call[r].dateKey # None THEN call[r].dateKey ELSE @]
               ELSE page
    /\ End(r, "ok")
    /\ UNCHANGED <<cols, rows, Client>>

(* Records of the page.  An edit re-validates the whole merged document    *)
(* against the live columns; what the statement writes is prepared here.   *)
Writable(r, d) ==
    Valid(cols, d) /\ SlotsFit(seen[r].page.map, cols, d)
Prepare(r, q, row) == seen' = [seen EXCEPT ![r].rec = q, ![r].row = row]
Written(r, old, d) ==
    LET m == seen[r].page.map
        f == Filled(cols, d)
    IN  Record(old.version + 1, FALSE, f, PopulateProjections(m, f, old.slots), m)

PlanCreate(r) ==
    /\ Reading(r, "create")
    /\ IF Writable(r, call[r].data) /\ RefsExist(cols, call[r].data)
       THEN /\ \E q \in Records :
                 /\ rows[q].version = 0
                 /\ \A o \in Requests : seen[o].rec # q
                 /\ Prepare(r, q, Written(r, NoRecord, call[r].data))
            /\ Goto(r, "audit")
            /\ UNCHANGED <<Data, Locks, Client>>
       ELSE Refuse(r)

PlanEdit(r) ==
    /\ Reading(r, "edit")
    /\ LET q == call[r].rec
           d == Merge(rows[q].data, call[r].data)
       IN  IF Live(q) /\ Valid(cols, call[r].data) /\ RefsExist(cols, call[r].data)
                      /\ Writable(r, d)
           THEN /\ Prepare(r, q, Written(r, rows[q], d))
                /\ Goto(r, "audit")
                /\ UNCHANGED <<Data, Locks, Client>>
           ELSE Refuse(r)

Removed(old) == Record(old.version + 1, TRUE, old.data, old.slots, old.under)
PlanDelete(r) ==
    /\ Reading(r, "delete")
    /\ LET q == call[r].rec
       IN  IF Live(q) /\ ~Referenced(q)
           THEN /\ Prepare(r, q, Removed(rows[q]))
                /\ Goto(r, "audit")
                /\ UNCHANGED <<Data, Locks, Client>>
           ELSE Refuse(r)

\* The INSERT, or the UPDATE that names the version it read, and the audit
\* row.  A row at another version than the one read is refused.
CommitRecord(r) ==
    /\ pc[r] = "audit" /\ call[r].op \in {"create", "edit", "delete"}
    /\ chain = None
    /\ IF rows[seen[r].rec].version + 1 # seen[r].row.version
       THEN Refuse(r)
       ELSE /\ rows' = [rows EXCEPT ![seen[r].rec] = seen[r].row]
            /\ End(r, "ok")
            /\ UNCHANGED <<page, cols, Client>>

\* GET /pages/{id}/schema: the page first (Begin), the columns after it.
ReadSchema(r) ==
    /\ Reading(r, "schema")
    /\ seen' = [seen EXCEPT ![r].cols = cols]
    /\ Goto(r, "ok")
    /\ UNCHANGED <<Data, Locks, Client>>

\* An exception or a crash rolls back what the transaction has prepared.
Fail(r) == pc[r] \in {"write", "audit", "bump"} /\ Refuse(r)

\* PostgreSQL fails a transaction of a cycle of lock waits.
BreakDeadlock(r) ==
    /\ \E o \in Requests :
         /\ pc[r] = "bump" /\ pageLock = o
         /\ pc[o] = "audit" /\ chain = r
    /\ Refuse(r)

Step(r) ==
    \/ PlanAdd(r) \/ InsertColumn(r)
    \/ PlanColumn(r) \/ UpdateColumn(r)
    \/ AuditColumn(r) \/ BumpAndCommit(r)
    \/ PlanPage(r) \/ UpdatePage(r) \/ ArchivePage(r) \/ AuditAndCommitPage(r)
    \/ PlanCreate(r) \/ PlanEdit(r) \/ PlanDelete(r) \/ CommitRecord(r)
    \/ ReadSchema(r)

Next == \E r \in Requests : Begin(r) \/ Step(r) \/ Fail(r) \/ BreakDeadlock(r)

Spec == Init /\ [][Next]_vars
\* A server runs what it has started, and a lock is handed to its waiters.
FairSpec ==
    Spec /\ \A r \in Requests : WF_vars(Step(r)) /\ WF_vars(BreakDeadlock(r))

-----------------------------------------------------------------------------
\* Every variable keeps to the values the tables and the handlers give it.
ColumnRow == [there : BOOLEAN, type : Types, indexed : BOOLEAN, archived : BOOLEAN]
PageRows == [version : Nat, map : Maps, dateKey : Columns \union {None}, archived : BOOLEAN]
RecordRow == [version : Nat, deleted : BOOLEAN, data : [Columns -> Cells],
              slots : [Slots -> Wire \union {Null}], under : Maps]
SeenRow == [page : PageRows, cols : [Columns -> ColumnRow], map : Maps \union {None},
            rec : Records \union {None}, row : RecordRow]
Places == {"idle", "read", "write", "audit", "bump"} \union Done
TypeOK ==
    /\ page \in PageRows
    /\ cols \in [Columns -> ColumnRow]
    /\ rows \in [Records -> RecordRow]
    /\ pageLock \in Requests \union {None}
    /\ colLock \in [Columns -> Requests \union {None}]
    /\ chain \in Requests \union {None}
    /\ pc \in [Requests -> Places]
    /\ call \in [Requests -> Calls \union {NoCall}]
    /\ match \in [Requests -> Nat \union {None}]
    /\ seen \in [Requests -> SeenRow]

\* Two columns of a page never share a slot, although every index change
\* writes back a whole map computed from a page that others have changed
\* since (allocate_projection_slot).
SlotsNotShared ==
    \A c, d \in Columns : page.map[c] = page.map[d] /\ c # d => page.map[c] = None

\* A client whose cached schema has the version of the page has its columns
\* and its special key: the endpoint reads the page before the columns, and
\* no change of a column commits without a new version.
CachedSchemaCurrent ==
    \A r \in Requests :
        (pc[r] = "ok" /\ call[r].op = "schema" /\ seen[r].page.version = page.version) =>
            seen[r].cols = cols /\ seen[r].page.dateKey = page.dateKey

\* Of the edits of a page that assert the same version one succeeds.
OneWinnerPerVersion ==
    \A r, o \in Requests :
        (r # o /\ pc[r] = "ok" /\ pc[o] = "ok" /\ match[r] # None) => match[r] # match[o]

\* What a statement reads of a column is the value in the document, cut as the
\* slot cuts it where there is one: for every record whose last writer, whatever
\* else was in the map it had read, found the column in the slot it has now, or
\* whose column has none; and as long as the text still reads under the type
\* of the column (_populate_projections, resolve_column).
FreshRowsAgree ==
    \A q \in Records, c \in Columns :
        LET slot == page.map[c]
            v == rows[q].data[c]
            read == TryCast(v, cols[c].type)
        IN  (/\ slot # None => rows[q].under[c] = slot
             /\ v \in Wire => v \in Readable(cols[c].type))
                => Resolve(page, cols, rows[q], c) = IF slot = None THEN read ELSE InSlot(read)

\* A request that has started is answered, although a page edit takes the
\* page and then the chain and a column edit the chain and then the page.
EveryRequestEnds ==
    \A r \in Requests : pc[r] = "read" ~> pc[r] \in Done

(* What the documentation says, and concurrent or later schema changes     *)
(* make false: no run checks these, TLC refutes each in a few steps.       *)

\* Totals over a projection column match totals over the raw document
\* (docs/PROJECT_PLAN.md:2516).  Does not hold: update_column gives an indexed
\* column a slot and writes no record.
ProjectionsMatchData ==
    \A q \in Records, c \in LiveColumns(cols) :
        Live(q) => Resolve(page, cols, rows[q], c) = TryCast(rows[q].data[c], cols[c].type)

\* A record that another one refers to is not deleted (docs/PROJECT_PLAN.md:1213).
\* Does not hold: validation reads the target, and deletion the references,
\* without a lock.
NoDanglingReference ==
    \A q \in Records, c \in RefColumns(cols) :
        (Live(q) /\ rows[q].data[c] \in Records) => Live(rows[q].data[c])
=============================================================================
