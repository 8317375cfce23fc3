---------------------------- MODULE RecordStore ----------------------------
(***************************************************************************)
(* Records written by concurrent requests (services/record_service.py,     *)
(* services/protected_field_service.py, repositories/records.py).          *)
(*                                                                         *)
(* A request is one database transaction at READ COMMITTED: it reads the   *)
(* record into a handle, decides on what it read, and writes with an       *)
(* UPDATE ... WHERE id AND version = handle.version.  That statement waits *)
(* for the row lock of an uncommitted writer and is then re-evaluated on   *)
(* the committed row.  The audit INSERT takes the one chain lock, and both *)
(* locks are kept until the transaction ends.  Any exception, and a crash  *)
(* of the process, rolls the whole transaction back.                       *)
(*                                                                         *)
(* A member of Requests is one HTTP call, made once: how many there are is *)
(* the only bound on versions and audit trails.                            *)
(***************************************************************************)
EXTENDS Naturals, Sequences

CONSTANTS
    Records,        \* record ids (primary keys drawn by the INSERT)
    LedgerRecords,  \* the ids whose page has kind = LEDGER
    Seeds,          \* records committed before the first request
    Bodies,         \* values of a record's ordinary columns, taken together
    Flags,          \* values of its protected column
    Blank,          \* a part of the data that a payload does not carry
    Requests,
    None

ASSUME RecordStoreAssumption ==
    /\ LedgerRecords \subseteq Records
    /\ Seeds \subseteq Records
    /\ None \notin Records
    /\ None \notin Requests
    /\ Blank \notin Bodies
    /\ Blank \notin Flags

VARIABLES
    rows,      \* record id -> committed row; version 0 is a row not there
    trail,     \* record id -> its committed audit entries, oldest first
    lock,      \* record id -> the request whose uncommitted write holds it
    chain,     \* the request that holds the audit chain's lock
    pc,        \* request -> where its handler stands
    call,      \* request -> the operation asked for
    ifMatch,   \* request -> the version its client saw (If-Match)
    seen,      \* request -> the handle: the row as its transaction read it
    fresh      \* request -> the id it inserted

vars == <<rows, trail, lock, chain, pc, call, ifMatch, seen, fresh>>

-----------------------------------------------------------------------------
Data == [body : Bodies, flag : Flags]
NoData == [body |-> Blank, flag |-> Blank]
PartialData == [body : Bodies \union {Blank}, flag : Flags \union {Blank}]

Row(v, d, s, del, rev) ==
    [version |-> v, data |-> d, status |-> s, deleted |-> del, reverses |-> rev]
RowType ==
    [version : Nat, data : PartialData, status : {"ACTIVE", "REVERSED"},
     deleted : BOOLEAN, reverses : Records \union {None}]
NoRow == Row(0, NoData, "ACTIVE", FALSE, None)
NewRow(d, rev) == Row(1, d, "ACTIVE", FALSE, rev)

Ops == {"create", "update", "flag", "delete", "reverse"}
Calls ==
    [op : {"create"}, rec : {None}, data : Data, replace : {FALSE}]
      \union
    [op : {"update"}, rec : Records, data : [body : Bodies, flag : Flags \union {Blank}],
     replace : {FALSE}]
      \union
    [op : {"flag"}, rec : Records, data : [body : {Blank}, flag : Flags], replace : {FALSE}]
      \union
    [op : {"delete"}, rec : Records, data : {NoData}, replace : {FALSE}]
      \union
    [op : {"reverse"}, rec : Records, data : {NoData}, replace : {FALSE}]
      \union
    [op : {"reverse"}, rec : Records, data : Data, replace : {TRUE}]
NoCall == [op |-> "none", rec |-> None, data |-> NoData, replace |-> FALSE]

Entry(a, old, new) == [action |-> a, old |-> old, new |-> new]
EntryType == [action : {"RECORD_CREATE", "RECORD_UPDATE", "PROTECTED_FIELD_CHANGE",
                        "RECORD_DELETE", "RECORD_REVERSE"},
              old : PartialData, new : PartialData]

Holding == {"written", "replacing", "ready"}
InFlight == {"submitted", "located"} \union Holding
Answered == {"committed", "rejected", "conflict", "failed"}

TypeOK ==
    /\ rows \in [Records -> RowType]
    /\ trail \in [Records -> Seq(EntryType)]
    /\ lock \in [Records -> Requests \union {None}]
    /\ chain \in Requests \union {None}
    /\ pc \in [Requests -> {"idle"} \union InFlight \union Answered]
    /\ call \in [Requests -> Calls \union {NoCall}]
    /\ \A t \in Requests : call[t] = NoCall => pc[t] = "idle"
    /\ ifMatch \in [Requests -> Nat]
    /\ seen \in [Requests -> RowType]
    /\ fresh \in [Requests -> Records \union {None}]

-----------------------------------------------------------------------------
\* Which calls check the version their client saw: a DELETE does not.
IfMatchOps == {"update", "flag", "reverse"}

\* Mutant: an edit may set the protected column.
MutantProtectedIgnored(c, row) == TRUE

\* A client may send back the protected column with the value the record has.
ProtectedKept(c, row) == c.data.flag \in {Blank, row.data.flag}

\* Mutant: reverse_record forgets that only an ACTIVE record can be reversed.
AdmissibleInAnyStatus(c, row, v) ==
    /\ ~row.deleted
    /\ c.op \in IfMatchOps => v = row.version
    /\ c.op = "update" => c.rec \notin LedgerRecords /\ ProtectedKept(c, row)
    /\ c.op = "reverse" => c.rec \in LedgerRecords

\* What a handler checks on the handle before it writes.  An absent or deleted
\* record is a 404, a stale If-Match a 409, and neither a ledger record nor a
\* protected value is edited.
Admissible(c, row, v) ==
    /\ ~row.deleted
    /\ c.op \in IfMatchOps => v = row.version
    /\ c.op = "update" => c.rec \notin LedgerRecords /\ ProtectedKept(c, row)
    /\ c.op = "reverse" => c.rec \in LedgerRecords /\ row.status = "ACTIVE"

\* merged = dict(handle.data); merged.update(changes)
Merged(d, old) ==
    [body |-> IF d.body = Blank THEN old.body ELSE d.body,
     flag |-> IF d.flag = Blank THEN old.flag ELSE d.flag]

\* Mutant: soft_delete_row leaves the version alone, so a handle read before
\* the delete still matches.
RewrittenWithSilentDelete(c, old, cur) ==
    LET bumped == [cur EXCEPT !.version = old.version + 1]
    IN  CASE c.op \in {"update", "flag"} -> [bumped EXCEPT !.data = Merged(c.data, old.data)]
          [] c.op = "delete" -> [cur EXCEPT !.deleted = TRUE]
          [] OTHER -> [bumped EXCEPT !.status = "REVERSED"]

\* The columns each kind of write sets on the row cur that the UPDATE hits,
\* computed from the handle old.
Rewritten(c, old, cur) ==
    LET bumped == [cur EXCEPT !.version = old.version + 1]
    IN  CASE c.op \in {"update", "flag"} -> [bumped EXCEPT !.data = Merged(c.data, old.data)]
          [] c.op = "delete" -> [bumped EXCEPT !.deleted = TRUE]
          [] OTHER -> [bumped EXCEPT !.status = "REVERSED"]

\* The audit entry of a write, from the handle and the payload.
AuditEntry(c, old) ==
    CASE c.op = "update" -> Entry("RECORD_UPDATE", old.data, Merged(c.data, old.data))
      [] c.op = "flag"   -> Entry("PROTECTED_FIELD_CHANGE",
                                  [body |-> Blank, flag |-> old.data.flag], c.data)
      [] c.op = "delete" -> Entry("RECORD_DELETE", NoData, NoData)
      [] OTHER           -> Entry("RECORD_REVERSE", old.data, NoData)
Creation(d) == Entry("RECORD_CREATE", NoData, d)

\* Mutant: the version is compared in Python only, not in the WHERE clause.
MatchesAnyVersion(row, old) == TRUE

\* UPDATE ... WHERE version = handle.version, on the committed row.
VersionMatches(row, old) == row.version = old.version

-----------------------------------------------------------------------------
Init ==
    /\ \E d \in Data :
         /\ rows = [r \in Records |-> IF r \in Seeds THEN NewRow(d, None) ELSE NoRow]
         /\ trail = [r \in Records |-> IF r \in Seeds THEN <<Creation(d)>> ELSE <<>>]
    /\ lock = [r \in Records |-> None]
    /\ chain = None
    /\ pc = [t \in Requests |-> "idle"]
    /\ call = [t \in Requests |-> NoCall]
    /\ ifMatch = [t \in Requests |-> 0]
    /\ seen = [t \in Requests |-> NoRow]
    /\ fresh = [t \in Requests |-> None]

\* A client sends a request about a record it has on its screen, with the
\* version it has there.
Submit(t, c) ==
    /\ pc[t] = "idle"
    /\ c.rec # None => rows[c.rec].version > 0
    /\ pc' = [pc EXCEPT ![t] = "submitted"]
    /\ call' = [call EXCEPT ![t] = c]
    /\ ifMatch' = [ifMatch EXCEPT ![t] = IF c.rec = None THEN 0 ELSE rows[c.rec].version]
    /\ UNCHANGED <<rows, trail, lock, chain, seen, fresh>>

\* _locate, and the checks made on the handle it returns.
Locate(t) ==
    /\ pc[t] = "submitted"
    /\ call[t].op # "create"
    /\ LET row == rows[call[t].rec]
       IN  /\ seen' = [seen EXCEPT ![t] = row]
           /\ pc' = [pc EXCEPT ![t] =
                       IF Admissible(call[t], row, ifMatch[t]) THEN "located" ELSE "rejected"]
    /\ UNCHANGED <<rows, trail, lock, chain, call, ifMatch, fresh>>

\* _guarded_update finds the row at the handle's version and takes its lock.
GuardedUpdate(t) ==
    /\ pc[t] = "located"
    /\ VersionMatches(rows[call[t].rec], seen[t])
    /\ lock[call[t].rec] = None
    /\ lock' = [lock EXCEPT ![call[t].rec] = t]
    /\ pc' = [pc EXCEPT ![t] = "written"]
    /\ UNCHANGED <<rows, trail, chain, call, ifMatch, seen, fresh>>

\* _guarded_update matches no row: VersionConflictError.
GuardedUpdateMisses(t) ==
    /\ pc[t] = "located"
    /\ ~VersionMatches(rows[call[t].rec], seen[t])
    /\ pc' = [pc EXCEPT ![t] = "conflict"]
    /\ UNCHANGED <<rows, trail, lock, chain, call, ifMatch, seen, fresh>>

Insert(t, n) ==
    /\ rows[n] = NoRow
    /\ lock[n] = None
    /\ lock' = [lock EXCEPT ![n] = t]
    /\ fresh' = [fresh EXCEPT ![t] = n]

\* create_record inserts its row: nobody else sees it before the commit.
InsertRow(t) ==
    /\ pc[t] = "submitted"
    /\ call[t].op = "create"
    /\ \E n \in Records : Insert(t, n)
    /\ pc' = [pc EXCEPT ![t] = "written"]
    /\ UNCHANGED <<rows, trail, chain, call, ifMatch, seen>>

\* write_audit_log: the INSERT's trigger takes the advisory lock of the chain.
WriteAudit(t) ==
    /\ pc[t] = "written"
    /\ chain = None
    /\ chain' = t
    /\ pc' = [pc EXCEPT ![t] = IF call[t].replace THEN "replacing" ELSE "ready"]
    /\ UNCHANGED <<rows, trail, lock, call, ifMatch, seen, fresh>>

\* reverse_record creates the correcting record on the same page and links it.
InsertReplacement(t) ==
    /\ pc[t] = "replacing"
    /\ \E n \in LedgerRecords : Insert(t, n)
    /\ pc' = [pc EXCEPT ![t] = "ready"]
    /\ UNCHANGED <<rows, trail, chain, call, ifMatch, seen>>

\* Mutant: the chain lock is a session lock, kept when the transaction ends.
ReleaseRowLocksOnly(t) ==
    /\ lock' = [r \in Records |-> IF lock[r] = t THEN None ELSE lock[r]]
    /\ UNCHANGED chain

ReleaseLocks(t) ==
    /\ lock' = [r \in Records |-> IF lock[r] = t THEN None ELSE lock[r]]
    /\ chain' = IF chain = t THEN None ELSE chain

\* get_rls_session leaves its block normally: every write of the request, and
\* its audit entries, become visible at once.
Commit(t) ==
    /\ pc[t] = "ready"
    /\ rows' = [r \in Records |->
                  IF lock[r] # t THEN rows[r]
                  ELSE IF r = fresh[t] THEN NewRow(call[t].data, call[t].rec)
                  ELSE Rewritten(call[t], seen[t], rows[r])]
    /\ trail' = [r \in Records |->
                  IF lock[r] # t THEN trail[r]
                  ELSE IF r = fresh[t] THEN Append(trail[r], Creation(call[t].data))
                  ELSE Append(trail[r], AuditEntry(call[t], seen[t]))]
    /\ ReleaseLocks(t)
    /\ pc' = [pc EXCEPT ![t] = "committed"]
    /\ UNCHANGED <<call, ifMatch, seen, fresh>>

\* Any exception in the handler, a lost connection or a crash of the process.
Rollback(t) ==
    /\ pc[t] \in InFlight
    /\ ReleaseLocks(t)
    /\ pc' = [pc EXCEPT ![t] = "failed"]
    /\ UNCHANGED <<rows, trail, call, ifMatch, seen, fresh>>

\* What the server does for a request once it has it.
Handle(t) ==
    \/ Locate(t)
    \/ GuardedUpdate(t)
    \/ GuardedUpdateMisses(t)
    \/ InsertRow(t)
    \/ WriteAudit(t)
    \/ InsertReplacement(t)
    \/ Commit(t)

Next ==
    \E t \in Requests :
        \/ \E c \in Calls : Submit(t, c)
        \/ Handle(t)
        \/ Rollback(t)

Spec == Init /\ [][Next]_vars

\* The event loop runs every handler on, and the database grants a lock that
\* stays free; nothing is assumed of clients, errors or crashes.
Fairness == \A t \in Requests : WF_vars(Handle(t))
FairSpec == Spec /\ Fairness

-----------------------------------------------------------------------------
(* Properties *)

\* A committed record changes only by a commit that read exactly the row it
\* replaces and, where the call carries If-Match, whose client saw that very
\* version; the version then grows by one.  Of two writers that read the same
\* version one loses, whatever they wait for (_guarded_update).
ReplacesWhatItRead(r) ==
    \E t \in Requests :
        /\ pc[t] = "ready" /\ pc'[t] = "committed"
        /\ call[t].rec = r
        /\ seen[t] = rows[r]
        /\ call[t].op \in IfMatchOps => ifMatch[t] = rows[r].version
        /\ rows'[r].version = rows[r].version + 1
NoLostUpdate ==
    [][\A r \in Records :
         0 < rows[r].version /\ rows'[r] # rows[r] => ReplacesWhatItRead(r)]_vars

\* A ledger record is corrected at most once: two replacements never name the
\* same reversed record, and a record that has one is REVERSED.
CorrectedOnce ==
    \A n, m \in Records :
        rows[n].reverses # None =>
            /\ rows[rows[n].reverses].status = "REVERSED"
            /\ rows[m].reverses = rows[n].reverses => m = n

\* The parts of the inductive invariant behind the proofs.  A lock belongs to
\* a transaction that has written and not ended, on the record it changes or
\* the one it inserts.
LocksHeld ==
    \A r \in Records, t \in Requests :
        lock[r] = t => pc[t] \in Holding /\ r \in {call[t].rec, fresh[t]}

\* A call names a row that is there: rows are never removed.
NamesRow(t) == call[t].rec # None => 0 < rows[call[t].rec].version

\* A handle that waits to be written is no newer than the committed row, and
\* equal versions mean equal rows.
HandleOrdered(t) ==
    pc[t] = "located" =>
        LET row == rows[call[t].rec]
        IN  /\ call[t].op # "create"
            /\ 0 < seen[t].version
            /\ seen[t].version <= row.version
            /\ seen[t].version = row.version => seen[t] = row
            /\ Admissible(call[t], seen[t], ifMatch[t])

\* From the guarded write to the end of the transaction the handle is exactly
\* the committed row.
HandleCurrent(t) ==
    pc[t] \in Holding /\ call[t].op # "create" =>
        /\ lock[call[t].rec] = t
        /\ 0 < seen[t].version
        /\ seen[t] = rows[call[t].rec]
        /\ Admissible(call[t], seen[t], ifMatch[t])

\* An id is drawn once, for a row that is not there until the commit, and by
\* the calls that insert one.
FreshOwned(t) ==
    /\ pc[t] \in {"idle", "submitted", "located", "replacing"} => fresh[t] = None
    /\ pc[t] = "written" => (fresh[t] # None <=> call[t].op = "create")
    /\ pc[t] = "replacing" => call[t].replace
    /\ pc[t] = "ready" => (fresh[t] # None <=> call[t].op = "create" \/ call[t].replace)
    /\ pc[t] \in Holding /\ fresh[t] # None =>
         /\ lock[fresh[t]] = t
         /\ rows[fresh[t]] = NoRow
         /\ call[t].replace => fresh[t] \in LedgerRecords

HandlesSound ==
    /\ LocksHeld
    /\ \A t \in Requests :
         NamesRow(t) /\ HandleOrdered(t) /\ HandleCurrent(t) /\ FreshOwned(t)

\* The data a record has after the first i entries of a trail, in order.
DataAfter(entries) ==
    LET after[i \in 0 .. Len(entries)] ==
          IF i = 0 THEN NoData ELSE Merged(entries[i].new, after[i - 1])
    IN  after

\* The audit trail explains the books: replayed from the first entry it gives
\* the committed data, every entry's old value is what the entries before it
\* left, and the record has exactly one version per entry (write_audit_log is
\* called with old_data taken from the handle and new_data from the write).
Explains(entries, row) ==
    LET n == Len(entries)
        after == DataAfter(entries)
    IN  /\ row.version = n
        /\ row.data = after[n]
        /\ \A i \in 1 .. n : Merged(entries[i].old, after[i - 1]) = after[i - 1]
TrailExplainsRow == \A r \in Records : Explains(trail[r], rows[r])

\* The requests implement the atomic operations of AuditedRecords on the
\* committed rows and their audit trail.
Atomic == INSTANCE AuditedRecords WITH
    Records <- Records, LedgerRecords <- LedgerRecords, Seeds <- Seeds, Bodies <- Bodies,
    Flags <- Flags, Blank <- Blank, None <- None, rows <- rows, trail <- trail
ImplementsAtomicRecords == Atomic!Spec

\* Every request the server takes is answered: nobody waits for ever on a row
\* lock or on the chain lock.
EveryRequestAnswered ==
    \A t \in Requests : pc[t] = "submitted" ~> pc[t] \in Answered
=============================================================================
