--------------------------- MODULE AuditedRecords ---------------------------
(***************************************************************************)
(* What the record endpoints promise their callers, with every request     *)
(* taken as one atomic step: a record is a register whose version grows by *)
(* one with every change, each change is made to the record as it stands   *)
(* and leaves one audit entry that says what it replaced, a ledger record  *)
(* is never rewritten by an edit, and it is reversed at most once, with at *)
(* most one replacement.  RecordStore implements this with transactions    *)
(* that read, wait, write and commit at different moments.                 *)
(***************************************************************************)
EXTENDS Naturals, Sequences

CONSTANTS
    Records,        \* record ids
    LedgerRecords,  \* the ids whose page has kind = LEDGER
    Seeds,          \* records that exist at the start
    Bodies,         \* values of a record's ordinary columns, taken together
    Flags,          \* values of its protected column
    Blank,          \* a part of the data that a payload does not carry
    None

VARIABLES
    rows,           \* record id -> its committed row
    trail           \* record id -> its committed audit entries, oldest first

Data == [body : Bodies, flag : Flags]
NoData == [body |-> Blank, flag |-> Blank]

Row(v, d, s, del, rev) ==
    [version |-> v, data |-> d, status |-> s, deleted |-> del, reverses |-> rev]
NoRow == Row(0, NoData, "ACTIVE", FALSE, None)
NewRow(d, rev) == Row(1, d, "ACTIVE", FALSE, rev)
Entry(a, old, new) == [action |-> a, old |-> old, new |-> new]
Live(r) == rows[r].version > 0 /\ ~rows[r].deleted

Log(r, e) == trail' = [trail EXCEPT ![r] = Append(@, e)]

Create(r, d) ==
    /\ rows[r] = NoRow
    /\ rows' = [rows EXCEPT ![r] = NewRow(d, None)]
    /\ Log(r, Entry("RECORD_CREATE", NoData, d))

\* Every change is one version.
Changed(row, d) == [row EXCEPT !.version = @ + 1, !.data = d]
Deleted(row) == [row EXCEPT !.version = @ + 1, !.deleted = TRUE]
Reversed(row) == [row EXCEPT !.version = @ + 1, !.status = "REVERSED"]

Edit(r, b) ==
    /\ Live(r)
    /\ r \notin LedgerRecords
    /\ LET d == [rows[r].data EXCEPT !.body = b]
       IN  /\ rows' = [rows EXCEPT ![r] = Changed(@, d)]
           /\ Log(r, Entry("RECORD_UPDATE", rows[r].data, d))

SetProtected(r, f) ==
    /\ Live(r)
    /\ LET d == [rows[r].data EXCEPT !.flag = f]
       IN  /\ rows' = [rows EXCEPT ![r] = Changed(@, d)]
           /\ Log(r, Entry("PROTECTED_FIELD_CHANGE",
                           [body |-> Blank, flag |-> rows[r].data.flag],
                           [body |-> Blank, flag |-> f]))

Delete(r) ==
    /\ Live(r)
    /\ rows' = [rows EXCEPT ![r] = Deleted(@)]
    /\ Log(r, Entry("RECORD_DELETE", NoData, NoData))

Reversible(r) == Live(r) /\ r \in LedgerRecords /\ rows[r].status = "ACTIVE"

Reverse(r) ==
    /\ Reversible(r)
    /\ rows' = [rows EXCEPT ![r] = Reversed(@)]
    /\ Log(r, Entry("RECORD_REVERSE", rows[r].data, NoData))

ReverseAndReplace(r, n, d) ==
    /\ Reversible(r)
    /\ n \in LedgerRecords
    /\ rows[n] = NoRow
    /\ rows' = [rows EXCEPT ![r] = Reversed(@), ![n] = NewRow(d, r)]
    /\ trail' = [trail EXCEPT
                   ![r] = Append(@, Entry("RECORD_REVERSE", rows[r].data, NoData)),
                   ![n] = Append(@, Entry("RECORD_CREATE", NoData, d))]

Init ==
    \E d \in Data :
        /\ rows = [r \in Records |-> IF r \in Seeds THEN NewRow(d, None) ELSE NoRow]
        /\ trail = [r \in Records |->
                      IF r \in Seeds THEN <<Entry("RECORD_CREATE", NoData, d)>> ELSE <<>>]

Next ==
    \E r \in Records :
        \/ \E d \in Data : Create(r, d)
        \/ \E b \in Bodies : Edit(r, b)
        \/ \E f \in Flags : SetProtected(r, f)
        \/ Delete(r)
        \/ Reverse(r)
        \/ \E n \in Records, d \in Data : ReverseAndReplace(r, n, d)

Spec == Init /\ [][Next]_<<rows, trail>>
=============================================================================
