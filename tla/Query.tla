------------------------------- MODULE Query -------------------------------
(***************************************************************************)
(* Reading one page while its records change (services/query_service.py    *)
(* and the conditions of repositories/records.py): the list with its       *)
(* filters, its search, its sort and its keyset pages, the totals, the     *)
(* running balance and the values offered for a filter.                    *)
(*                                                                         *)
(* Each page of the list is one statement of a request of its own, so that *)
(* between two of them other requests create, edit, delete and reverse     *)
(* records.                                                                *)
(*                                                                         *)
(* A statement does not filter, order and add up the values that are       *)
(* shown.  It reads an indexed column from its slot, which a row written   *)
(* before the column was indexed leaves NULL, which rounds a number to two *)
(* decimals and keeps of a moment its day; it reads a moment that is not   *)
(* indexed as its day too; and it computes a formula of what it reads, in  *)
(* the digits of NUMERIC (InDatabase).  What is shown, and what the cursor *)
(* of the next page is made of, is the document, and the formulas that the *)
(* Python evaluator computes of it (InPython).                             *)
(*                                                                         *)
(* business_date is a function of occurred_at and stands with it as the    *)
(* one moment of a record.  The columns of a system page have no slots:    *)
(* none of its keys is Indexed.                                            *)
(*                                                                         *)
(* Whether a request is answered at all is PageAccess's: every action here *)
(* takes one of its steps, or leaves its variables alone.                  *)
(*                                                                         *)
(* What the two backends compute of a formula are parameters, which        *)
(* Formulas gives their values.                                            *)
(***************************************************************************)
EXTENDS Values, PageAccess, FiniteSetsExt, SequencesExt

CONSTANTS
    Ids,          \* record ids, in their order in the database
    Amounts,      \* keys of the numeric columns
    Moments,      \* keys of the DATETIME columns
    Texts,        \* keys of the text columns
    Indexed,      \* the keys that have a slot now
    Options,      \* key of a SELECT column -> its options
    Plans,        \* the FORMULA columns the page may have: by_key, and their order
    InDatabase(_, _, _), \* plan, key, what a statement reads -> the FORMULA column
    InPython(_, _),      \* plan, cells -> the cells that are shown, formulas included
    Rows,         \* the records there may be
    NewRows,      \* the ones a request may write
    Absent,       \* no record has this id
    QueryRequests,
    FilterLists,  \* the filters of the totals
    GroupBy,      \* the column the totals are grouped by
    Periods,      \* <<from, to>>, each a moment or Null
    MaxPage,      \* MAX_PAGE_LIMIT, the length of the running balance
    MaxWrites     \* bound on the writes beside the scan

Plain == Amounts \union Moments \union Texts
Cells == {r.cells : r \in Rows \union NewRows}

-----------------------------------------------------------------------------
(* What the database has of the plain columns of a record.                 *)

\* A num slot is NUMERIC(14, 2), a date slot a DATE.
Conversion(k, v) ==
    CASE v = Null \/ k \in Texts -> v
      [] k \in Moments -> DayOf(v)
      [] k \in Amounts -> RoundTo(Cent, v)

\* Every write of a record writes all the slots of the page.
PopulateProjections(cells) == [k \in Indexed |-> Conversion(k, cells[k])]

\* A column without a slot is the document, cast to numeric, text or date.
Read(cells, slots) ==
    [k \in Plain |-> IF k \in Indexed THEN slots[k]
                     ELSE IF k \in Moments THEN Conversion(k, cells[k]) ELSE cells[k]]

Slots == {r.slots : r \in Rows} \union {PopulateProjections(c) : c \in Cells}
Record == [cells : Cells, slots : Slots, at : Int, status : {"ACTIVE", "REVERSED"},
           deleted : BOOLEAN, store : {r.store : r \in Rows \union NewRows}]

\* Keys are unique on a page, and what is sorted by and added up has an order:
\* its values are numbers in a statement and in what is shown.
Numeric(p, k) ==
    \A c \in Cells :
        /\ (IF k \in DOMAIN p.by_key THEN InPython(p, c)[k] ELSE c[k]) \in Int \union {Null}
        /\ \A s \in Slots :
              (IF k \in DOMAIN p.by_key THEN InDatabase(p, k, Read(c, s)) ELSE Read(c, s)[k])
                  \in Int \union {Null}

ASSUME QueryAssumption ==
    /\ IsFiniteSet(Ids) /\ Ids \subseteq Int /\ Null \notin Int /\ MaxWrites \in Nat
    /\ {One, Cent} \subseteq Nat \ {0}
    /\ Rows \union NewRows \subseteq Record /\ Absent \notin Record
    /\ \A new \in NewRows : new.slots = PopulateProjections(new.cells)
    /\ \A q \in QueryRequests : q.limit \in Nat \ {0} /\ q.reader \in Users
    /\ MaxPage \in Nat \ {0}
    /\ Indexed \subseteq Amounts \union Moments /\ DOMAIN Options \subseteq Texts
    /\ {"id", "occurred_at", "status"} \intersect Plain = {}
    /\ \A p \in Plans :
          LET keys == Plain \union DOMAIN p.by_key
          IN  /\ {"id", "occurred_at", "status"} \intersect DOMAIN p.by_key = {}
              /\ Plain \intersect DOMAIN p.by_key = {}
              /\ \A k \in Amounts \union DOMAIN p.by_key : Numeric(p, k)
              /\ \A f \in FilterLists : \A n \in DOMAIN f : f[n].column \in keys \union {"status"}
              /\ \A q \in QueryRequests :
                    /\ \A n \in DOMAIN q.filters : q.filters[n].column \in keys \union {"status"}
                    /\ q.sort \in Seq([column : keys \union {"occurred_at"},
                                      direction : {"asc", "desc"}])
                    /\ \A n \in DOMAIN q.sort : q.sort[n].column \in keys => Numeric(p, q.sort[n].column)

VARIABLES
    rows,      \* id -> the committed record
    plan,      \* the FORMULA columns of the page, and the order to compute them in
    scan,      \* a client that asks for one page of the list after another
    writes     \* how many writes were made

queryVars == <<rows, plan, scan, writes, accessVars>>

Idle == [returned |-> {}]
Scan == [request : QueryRequests, cursor : Seq(Int \union {Null}), exact : BOOLEAN,
         returned : SUBSET Ids, before : SUBSET (Ids \X Ids), stable : SUBSET Ids]

QueryTypeOK ==
    /\ rows \in [Ids -> Record \union {Absent}]
    /\ plan \in Plans
    /\ scan \in Scan \union {Idle}
    /\ writes \in 0 .. MaxWrites

-----------------------------------------------------------------------------
(* The value of a column in a statement, and the one that is shown.        *)
ResolveColumn(k, r) ==
    CASE k = "status" -> r.status
      [] k \in DOMAIN plan.by_key -> InDatabase(plan, k, Read(r.cells, r.slots))
      [] OTHER -> Read(r.cells, r.slots)[k]

ShownCells(r) == InPython(plan, r.cells)

RowValue(k, i) ==
    CASE k = "id" -> i
      [] k = "occurred_at" -> rows[i].at
      [] k = "status" -> rows[i].status
      [] k \in DOMAIN plan.by_key -> ShownCells(rows[i])[k]
      [] OTHER -> rows[i].cells[k]

SortValue(k, i) ==
    CASE k = "id" -> i
      [] k = "occurred_at" -> rows[i].at
      [] OTHER -> ResolveColumn(k, rows[i])

Stored == {i \in Ids : rows[i] # Absent}
BaseConditions == {i \in Stored : ~rows[i].deleted}
\* Mutant: the figures are of the rows that are listed, reversed ones included.
MutantCountsReversed == BaseConditions

ActiveConditions == {i \in BaseConditions : rows[i].status = "ACTIVE"}

-----------------------------------------------------------------------------
(* Filters.  A comparison with NULL is not true, and SQLAlchemy writes      *)
(* = None as IS NULL.                                                      *)
Holds(f, v) ==
    CASE f.op = "is_null" \/ (f.op = "eq" /\ f.value = Null) -> v = Null
      [] f.op = "neq" /\ f.value = Null -> v # Null
      [] v = Null -> FALSE
      [] f.op = "between" -> f.value[1] <= v /\ v <= f.value[2]
      [] f.op = "in" -> v \in ToSet(f.value)
      [] f.op = "contains" -> v = f.value
      [] OTHER -> Compare(f.op, v, f.value)

AllFilters(filters, i) ==
    \A n \in DOMAIN filters : Holds(filters[n], ResolveColumn(filters[n].column, rows[i]))

Search(word, i) == word # Null => \E k \in Texts : rows[i].cells[k] = word

Matching(q) ==
    {i \in BaseConditions : /\ Visible(q.reader, rows[i].store)
                            /\ AllFilters(q.filters, i) /\ Search(q.search, i)}

-----------------------------------------------------------------------------
(* Keyset pages.                                                           *)
SortKeys(q) ==
    (IF q.sort = <<>> THEN <<[column |-> "occurred_at", direction |-> "desc"]>> ELSE q.sort)
        \o <<[column |-> "id", direction |-> "desc"]>>

SortValues(keys, i) == [n \in DOMAIN keys |-> SortValue(keys[n].column, i)]
EncodeCursor(keys, i) == [n \in DOMAIN keys |-> RowValue(keys[n].column, i)]

After(key, v, w) == IF key.direction = "desc" THEN v < w ELSE v > w

AtCursor(v, c) == IF c = Null THEN v = Null ELSE v # Null /\ v = c

\* Mutant: NULL > x is not true, and the rows without a value are cut off.
MutantLosesEmpty(key, v, c) == c # Null /\ v # Null /\ After(key, v, c)

PastCursor(key, v, c) == c # Null /\ (v = Null \/ After(key, v, c))

KeysetPredicate(keys, values, cursor) ==
    \E n \in DOMAIN keys :
        /\ \A m \in 1 .. n - 1 : AtCursor(values[m], cursor[m])
        /\ PastCursor(keys[n], values[n], cursor[n])

\* NULLS LAST in both directions.
Ordered(keys, v, w) ==
    \E n \in DOMAIN keys :
        /\ \A m \in 1 .. n - 1 : v[m] = w[m]
        /\ v[n] # Null /\ (w[n] = Null \/ After(keys[n], w[n], v[n]))

\* ORDER BY, of rows no two of which are tied.
Sorted(ids, before(_, _)) ==
    [n \in 1 .. Cardinality(ids) |->
        CHOOSE i \in ids : Cardinality({j \in ids : before(j, i)}) = n - 1]

QueryRecords(q, cursor) ==
    LET keys == SortKeys(q)
        values == [i \in Matching(q) |-> SortValues(keys, i)]
        rest == {i \in DOMAIN values :
                    cursor # <<>> => KeysetPredicate(keys, values[i], cursor)}
        all == Sorted(rest, LAMBDA i, j : Ordered(keys, values[i], values[j]))
        more == Len(all) > q.limit
        items == SubSeq(all, 1, IF more THEN q.limit ELSE Len(all))
    IN  [items |-> items, more |-> more,
         cursor |-> IF more THEN EncodeCursor(keys, Last(items)) ELSE <<>>]

-----------------------------------------------------------------------------
(* Figures, over the ACTIVE rows alone.  SUM skips NULL and is NULL, shown  *)
(* as 0, where there is nothing to add.                                    *)
Value(v) == IF v = Null THEN 0 ELSE v

SumOf(k, ids) == SumFunction([i \in ids |-> Value(ResolveColumn(k, rows[i]))])

InPeriod(p, i) ==
    /\ p[1] # Null => rows[i].at >= p[1]
    /\ p[2] # Null => rows[i].at <= p[2]

Aggregate(k, group, filters, p) ==
    LET ids == {i \in ActiveConditions : InPeriod(p, i) /\ AllFilters(filters, i)}
        keys == {ResolveColumn(group, rows[i]) : i \in ids}
    IN  [value |-> SumOf(k, ids), count |-> Cardinality(ids),
         groups |-> [g \in keys |->
            LET those == {i \in ids : ResolveColumn(group, rows[i]) = g}
            IN  [value |-> SumOf(k, those), count |-> Cardinality(those)]]]

RunningBalance(k) ==
    LET earlier(i, j) == rows[i].at < rows[j].at \/ (rows[i].at = rows[j].at /\ i < j)
        all == Sorted(ActiveConditions, earlier)
        entry(i) == [id |-> i, amount |-> Value(ResolveColumn(k, rows[i])),
                     balance |-> SumOf(k, {j \in ActiveConditions : j = i \/ earlier(j, i)})]
        first == IF Len(all) > MaxPage THEN Len(all) - MaxPage + 1 ELSE 1
    IN  [n \in 1 .. Len(all) - first + 1 |-> entry(all[first + n - 1])]

\* The lists that a filter may be offered: the options of a SELECT column, and
\* as many distinct values of another one as the limit allows.
ColumnValues(k, limit) ==
    LET values == {ResolveColumn(k, rows[i]) : i \in ActiveConditions} \ {Null}
    IN  IF k \in DOMAIN Options THEN {Options[k]}
        ELSE {offered \in SUBSET values :
                 Cardinality(offered) = Min({limit, Cardinality(values)})}

-----------------------------------------------------------------------------
QueryInit ==
    /\ rows \in [Ids -> Rows \union {Absent}]
    /\ plan \in Plans
    /\ scan = Idle
    /\ writes = 0
    /\ AccessInit

\* The rows that will have been in the list all along: those that are in it
\* when the client asks for the first page, until somebody writes them.
Matches(q) == {i \in BaseConditions : AllFilters(q.filters, i) /\ Search(q.search, i)}

\* POST /pages/{id}/records/query without a cursor, and then with the one the
\* last answer carried, by a reader who has just logged in.
StartScan ==
    \E q \in QueryRequests :
        /\ FirstRequest(q.reader)
        /\ scan' = [request |-> q, cursor |-> <<>>, exact |-> TRUE,
                    returned |-> {}, before |-> {}, stable |-> Matches(q)]
        /\ UNCHANGED <<rows, plan, writes>>

NextPage == NextRequest /\ UNCHANGED <<rows, plan, scan, writes>>

\* get_rls_session and get_page_for_ctx, before the statement.
Admit == (Authenticate \/ CheckAccess) /\ UNCHANGED <<rows, plan, scan, writes>>

\* What comes before what in a sequence.
InOrder(s) == UNION {{<<s[m], s[n]>> : m \in 1 .. n - 1} : n \in DOMAIN s}

\* The one statement of a request.  before has what was returned before what,
\* and exact says that every cursor so far had the very values by which the
\* statement put the last row where it was.
Answer ==
    /\ reading.state = "granted"
    /\ LET answer == QueryRecords(scan.request, scan.cursor)
           keys == SortKeys(scan.request)
       IN  /\ Reply(answer.more)
           /\ scan' = [scan EXCEPT
                !.before = @ \union InOrder(answer.items)
                             \union (scan.returned \X ToSet(answer.items)),
                !.returned = @ \union ToSet(answer.items),
                !.cursor = answer.cursor,
                !.exact = @ /\ (answer.more =>
                                   answer.cursor = SortValues(keys, Last(answer.items)))]
    /\ UNCHANGED <<rows, plan, writes>>

-----------------------------------------------------------------------------
(* The writes of others between two pages, as they commit.  What was        *)
(* written before the first page is in the initial state.                  *)
Writes(ids) ==
    /\ writes < MaxWrites
    /\ writes' = writes + 1
    /\ reading.state = "asking" /\ scan.cursor # <<>>
    /\ scan' = [scan EXCEPT !.stable = @ \ ids]
    /\ UNCHANGED <<plan, accessVars>>

CreateRecord(i, new) ==
    /\ rows[i] = Absent
    /\ rows' = [rows EXCEPT ![i] = new]
    /\ Writes({i})

UpdateRecord(i, new) ==
    /\ i \in BaseConditions
    /\ new.cells # rows[i].cells
    /\ rows' = [rows EXCEPT ![i].cells = new.cells, ![i].slots = new.slots]
    /\ Writes({i})

DeleteRecord(i) ==
    /\ i \in BaseConditions
    /\ rows' = [rows EXCEPT ![i].deleted = TRUE]
    /\ Writes({i})

\* With or without a record that replaces the reversed one.
ReverseRecord(i, j, new) ==
    /\ i \in ActiveConditions
    /\ j = i \/ rows[j] = Absent
    /\ rows' = [n \in Ids |-> IF n = i THEN [rows[i] EXCEPT !.status = "REVERSED"]
                              ELSE IF n = j THEN new ELSE rows[n]]
    /\ Writes({i, j})

\* What owners do to a manager whose request is under way.
Asking == reading.state \in {"asking", "authenticated", "granted"}

ChangeAccess ==
    /\ Asking /\ reading.reader \in Managers /\ writes < MaxWrites
    /\ ChangeUser(reading.reader) \/ \E list \in GrantLists : BeginPut(list)
    /\ writes' = writes + 1
    /\ UNCHANGED <<rows, plan, scan>>

EndPut(p) ==
    /\ Asking
    /\ CommitPut(p) \/ FailPut(p)
    /\ UNCHANGED <<rows, plan, scan, writes>>

QueryNext ==
    \/ StartScan
    \/ NextPage
    \/ Admit
    \/ Answer
    \/ ChangeAccess
    \/ \E p \in DOMAIN puts : EndPut(p)
    \/ \E i \in Ids : \E new \in NewRows :
          CreateRecord(i, new) \/ UpdateRecord(i, new)
    \/ \E i \in Ids : DeleteRecord(i)
    \/ \E i, j \in Ids : \E new \in NewRows : ReverseRecord(i, j, new)

QuerySpec == QueryInit /\ [][QueryNext]_queryVars

\* A client that goes on asking for the next page, and a server that answers:
\* weak fairness of Answer, which is enabled in just the states granted.
FairSpec ==
    /\ QuerySpec
    /\ WF_queryVars(NextPage) /\ WF_queryVars(Admit)
    /\ []<>(reading.state # "granted") \/ []<><<Answer>>_queryVars

-----------------------------------------------------------------------------
(* Properties.                                                             *)

\* A scan returns every record nobody wrote meanwhile, once, in the order of
\* the database, whatever was inserted, moved or taken away around it and
\* however many rows tie or have no value: as long as its cursors were exact,
\* no page ends so that the rest is cut off or served again, and the cursors of
\* the default order are (query_service.py, _keyset_predicate, _past_cursor,
\* _at_cursor, _ordered).
StableRowsInOrder ==
    scan # Idle =>
        LET keys == SortKeys(scan.request)
        IN  /\ (\A n \in DOMAIN keys : keys[n].column \in {"occurred_at", "id"}) => scan.exact
            /\ scan.exact =>
                 /\ reading.state = "done" => scan.stable \subseteq scan.returned
                 /\ \A i, j \in scan.stable : <<i, j>> \in scan.before =>
                       i # j /\ Ordered(keys, SortValues(keys, i), SortValues(keys, j))

Always == <<Null, Null>>

\* The ACTIVE rows of a period are shown as a statement reads them in these columns.
ShownAsRead(columns, p) ==
    \A i \in ActiveConditions : InPeriod(p, i) =>
        \A k \in columns : ResolveColumn(k, rows[i]) = RowValue(k, i)

ShowsMatch(filters, i) == \A n \in DOMAIN filters : Holds(filters[n], RowValue(filters[n].column, i))

\* The figures of a page agree with each other: for each column and formula,
\* the groups of a total add up to it in value and in number, the balance runs
\* by the amounts beside it and ends at the total of all time, whatever part of
\* it is listed.  They agree with the rows that are listed, too, where these
\* are shown as a statement reads them: a total is the sum of the shown values
\* of the ACTIVE rows under the same filters, and each value offered is shown
\* by one of them, save for options (query_service.py, aggregate,
\* running_balance, column_values).
FiguresAgree ==
    scan = Idle =>
    /\ \A k \in Amounts \union DOMAIN plan.by_key :
        LET balances == RunningBalance(k)
            ends == IF balances = <<>> THEN 0 ELSE Last(balances).balance
        IN  /\ \A f \in FilterLists, p \in Periods :
                  LET answer == Aggregate(k, GroupBy, f, p)
                      groups == answer.groups
                      listed == {i \in BaseConditions :
                                    rows[i].status = "ACTIVE" /\ InPeriod(p, i) /\ ShowsMatch(f, i)}
                      columns == {k} \union {f[n].column : n \in DOMAIN f}
                  IN  /\ answer.value = SumFunction([g \in DOMAIN groups |-> groups[g].value])
                      /\ answer.count = SumFunction([g \in DOMAIN groups |-> groups[g].count])
                      /\ ShownAsRead(columns, p) =>
                           /\ answer.value = SumFunction([i \in listed |-> Value(RowValue(k, i))])
                           /\ answer.count = Cardinality(listed)
            /\ ends = Aggregate(k, GroupBy, <<>>, Always).value
            /\ \A n \in 2 .. Len(balances) :
                  balances[n].balance = balances[n - 1].balance + balances[n].amount
    /\ \A k \in (Plain \union DOMAIN plan.by_key) \ DOMAIN Options :
        ShownAsRead({k}, Always) =>
            \A offered \in ColumnValues(k, MaxPage) : \A v \in offered :
                \E i \in ActiveConditions : RowValue(k, i) = v

\* A client that goes on asking for pages reaches the last one or is refused, as
\* long as its cursors are exact: every page lies strictly past the one before.
EveryScanEnds ==
    reading.state = "asking" ~>
        \/ reading.state \in {"done", "refused"}
        \/ scan # Idle /\ ~scan.exact

(* What a comment says and cursors that are not exact make false: no run   *)
(* checks it, TLC refutes it in a few steps.                               *)

\* The cursor carries the same computed value the SQL-compiled sort expression
\* just ordered by (services/query_service.py:300), and no row comes again.
\* Does not hold: the statement orders by the slot and in the digits of
\* NUMERIC, the cursor has the document and the digits of Decimal.
NoRowComesAgain == scan # Idle => \A i \in scan.stable : <<i, i>> \notin scan.before

=============================================================================
