------------------------- MODULE RecordStore_proof -------------------------
(***************************************************************************)
(* Proofs about RecordStore for any sets of records and requests.          *)
(***************************************************************************)
EXTENDS RecordStore, WellFoundedInduction, TLAPS

-----------------------------------------------------------------------------
(* The operators *)

\* What the shape of a call says: only a create names no record, and only a
\* reversal asks for a replacement.
LEMMA CallFacts ==
    ASSUME NEW c \in Calls
    PROVE  /\ c.op \in Ops
           /\ c.rec \in Records \union {None}
           /\ c.data \in PartialData
           /\ c.replace \in BOOLEAN
           /\ c.op = "create" <=> c.rec = None
           /\ c.replace => c.op = "reverse"
           /\ c.replace => c.data \in Data
           /\ c.op = "create" => c.data \in Data
           /\ c.op = "update" => c.data.body \in Bodies
           /\ c.op = "flag" => c.data.body = Blank /\ c.data.flag \in Flags
<1>1. CASE c \in [op : {"create"}, rec : {None}, data : Data, replace : {FALSE}]
  BY <1>1, RecordStoreAssumption DEF Ops, Data, PartialData, RecordStoreAssumption
<1>2. CASE c \in [op : {"update"}, rec : Records,
                  data : [body : Bodies, flag : Flags \union {Blank}], replace : {FALSE}]
  BY <1>2, RecordStoreAssumption DEF Ops, Data, PartialData, RecordStoreAssumption
<1>3. CASE c \in [op : {"flag"}, rec : Records,
                  data : [body : {Blank}, flag : Flags], replace : {FALSE}]
  BY <1>3, RecordStoreAssumption DEF Ops, Data, PartialData, RecordStoreAssumption
<1>4. CASE c \in [op : {"delete", "reverse"}, rec : Records,
                  data : {NoData}, replace : {FALSE}]
  <2>1. NoData \in PartialData
    BY DEF NoData, PartialData
  <2>2. c.op \in {"delete", "reverse"} /\ c.rec \in Records /\ c.data = NoData /\ c.replace = FALSE
    BY <1>4
  <2> QED
    BY <2>1, <2>2, RecordStoreAssumption DEF Ops, RecordStoreAssumption
<1>5. CASE c \in [op : {"reverse"}, rec : Records, data : Data, replace : {TRUE}]
  BY <1>5, RecordStoreAssumption DEF Ops, Data, PartialData, RecordStoreAssumption
<1> QED
  BY <1>1, <1>2, <1>3, <1>4, <1>5 DEF Calls

\* No call is NoCall.
LEMMA NoCallFacts == NoCall \notin Calls
BY CallFacts DEF NoCall, Ops

\* Also of a request that has made no call yet.
LEMMA CallTypes ==
    ASSUME NEW c \in Calls \union {NoCall}
    PROVE  c.data \in PartialData /\ c.rec \in Records \union {None}
<1>1. CASE c \in Calls
  BY <1>1, CallFacts
<1>2. CASE c = NoCall
  BY <1>2 DEF NoCall, NoData, PartialData
<1> QED
  BY <1>1, <1>2

\* A merge of partial data is partial data.
LEMMA MergedType ==
    ASSUME NEW d \in PartialData, NEW old \in PartialData
    PROVE  Merged(d, old) \in PartialData
BY DEF Merged, PartialData

\* A write yields a row one version above the handle's, that reverses what the
\* row did before, and whose status never returns to ACTIVE.
LEMMA RewrittenFacts ==
    ASSUME NEW c \in Calls \union {NoCall},
           NEW old \in RowType, NEW cur \in RowType
    PROVE  /\ Rewritten(c, old, cur) \in RowType
           /\ Rewritten(c, old, cur).version = old.version + 1
           /\ Rewritten(c, old, cur).reverses = cur.reverses
           /\ cur.status = "REVERSED" => Rewritten(c, old, cur).status = "REVERSED"
           /\ c.op = "reverse" => Rewritten(c, old, cur).status = "REVERSED"
<1>1. c.data \in PartialData
  BY CallTypes
<1>2. Merged(c.data, old.data) \in PartialData
  BY <1>1, MergedType DEF RowType
<1> DEFINE bumped == [cur EXCEPT !.version = old.version + 1]
<1>3. /\ bumped \in RowType
      /\ bumped.version = old.version + 1
      /\ bumped.reverses = cur.reverses
      /\ bumped.status = cur.status
  BY DEF RowType
<1>4. /\ c.op \in {"update", "flag"} =>
           Rewritten(c, old, cur) = [bumped EXCEPT !.data = Merged(c.data, old.data)]
      /\ c.op = "delete" => Rewritten(c, old, cur) = [bumped EXCEPT !.deleted = TRUE]
      /\ c.op \notin {"update", "flag", "delete"} =>
           Rewritten(c, old, cur) = [bumped EXCEPT !.status = "REVERSED"]
  BY DEF Rewritten
<1> HIDE DEF bumped
<1>5. CASE c.op \in {"update", "flag"}
  BY <1>2, <1>3, <1>4, <1>5 DEF RowType
<1>6. CASE c.op = "delete"
  BY <1>3, <1>4, <1>6 DEF RowType
<1>7. CASE c.op \notin {"update", "flag", "delete"}
  BY <1>3, <1>4, <1>7 DEF RowType
<1> QED
  BY <1>5, <1>6, <1>7

\* An audit entry is an entry.
LEMMA EntryFacts ==
    ASSUME NEW c \in Calls \union {NoCall}, NEW old \in RowType
    PROVE  AuditEntry(c, old) \in EntryType
<1>1. c.data \in PartialData
  BY CallTypes
<1>2. Merged(c.data, old.data) \in PartialData
  BY <1>1, MergedType DEF RowType
<1> QED
  BY <1>1, <1>2 DEF AuditEntry, Entry, EntryType, RowType, PartialData, NoData

\* New rows and creation entries are typed, and the empty row is a row.
LEMMA NewRowFacts ==
    /\ NoRow \in RowType
    /\ \A d \in PartialData, rev \in Records \union {None} :
         NewRow(d, rev) \in RowType /\ Creation(d) \in EntryType
    /\ Data \subseteq PartialData
BY DEF NoRow, NewRow, Row, RowType, NoData, PartialData, Data, Creation, Entry, EntryType

-----------------------------------------------------------------------------
(* Type correctness *)

LEMMA InitTypeOK == Init => TypeOK
<1> SUFFICES ASSUME Init PROVE TypeOK
  OBVIOUS
<1>1. PICK d \in Data :
        /\ rows = [r \in Records |-> IF r \in Seeds THEN NewRow(d, None) ELSE NoRow]
        /\ trail = [r \in Records |-> IF r \in Seeds THEN <<Creation(d)>> ELSE <<>>]
  BY DEF Init
<1>2. /\ NewRow(d, None) \in RowType
      /\ Creation(d) \in EntryType
      /\ NoRow \in RowType
  BY NewRowFacts
<1>3. trail \in [Records -> Seq(EntryType)]
  BY <1>1, <1>2
<1>4. rows \in [Records -> RowType]
  BY <1>1, <1>2
<1>5. /\ lock \in [Records -> Requests \union {None}]
      /\ chain \in Requests \union {None}
      /\ pc \in [Requests -> {"idle"} \union InFlight \union Answered]
      /\ call \in [Requests -> Calls \union {NoCall}]
      /\ \A t \in Requests : call[t] = NoCall => pc[t] = "idle"
      /\ ifMatch \in [Requests -> Nat]
      /\ seen \in [Requests -> RowType]
      /\ fresh \in [Requests -> Records \union {None}]
  BY <1>2 DEF Init
<1> QED
  BY <1>3, <1>4, <1>5 DEF TypeOK

LEMMA NextTypeOK == TypeOK /\ [Next]_vars => TypeOK'
<1> SUFFICES ASSUME TypeOK, [Next]_vars PROVE TypeOK'
  OBVIOUS
<1> USE DEF TypeOK
<1> USE DEF InFlight, Holding, Answered
<1>1. ASSUME NEW t \in Requests, NEW c \in Calls, Submit(t, c) PROVE TypeOK'
  BY <1>1, CallTypes, NoCallFacts DEF Submit, RowType
<1>2. ASSUME NEW t \in Requests, Locate(t) PROVE TypeOK'
  <2>1. call[t] \in Calls /\ call[t].op # "create" /\ call[t].rec \in Records
    BY <1>2, CallFacts DEF Locate
  <2> QED
    BY <1>2, <2>1 DEF Locate
<1>3. ASSUME NEW t \in Requests, GuardedUpdate(t) PROVE TypeOK'
  BY <1>3 DEF GuardedUpdate
<1>4. ASSUME NEW t \in Requests, GuardedUpdateMisses(t) PROVE TypeOK'
  BY <1>4 DEF GuardedUpdateMisses
<1>5. ASSUME NEW t \in Requests, InsertRow(t) PROVE TypeOK'
  BY <1>5 DEF InsertRow, Insert
<1>6. ASSUME NEW t \in Requests, WriteAudit(t) PROVE TypeOK'
  BY <1>6 DEF WriteAudit
<1>7. ASSUME NEW t \in Requests, InsertReplacement(t) PROVE TypeOK'
  BY <1>7, RecordStoreAssumption DEF InsertReplacement, Insert, RecordStoreAssumption
<1>8. ASSUME NEW t \in Requests, Commit(t) PROVE TypeOK'
  <2>1. ASSUME NEW r \in Records
        PROVE  /\ NewRow(call[t].data, call[t].rec) \in RowType
               /\ Creation(call[t].data) \in EntryType
               /\ Rewritten(call[t], seen[t], rows[r]) \in RowType
               /\ AuditEntry(call[t], seen[t]) \in EntryType
    BY CallTypes, NewRowFacts, RewrittenFacts, EntryFacts
  <2>2. rows' \in [Records -> RowType]
    BY <1>8, <2>1 DEF Commit
  <2>3. trail' \in [Records -> Seq(EntryType)]
    BY <1>8, <2>1 DEF Commit
  <2> QED
    BY <1>8, <2>2, <2>3 DEF Commit, ReleaseLocks
<1>9. ASSUME NEW t \in Requests, Rollback(t) PROVE TypeOK'
  BY <1>9 DEF Rollback, ReleaseLocks
<1>10. CASE UNCHANGED vars
  BY <1>10 DEF vars
<1> QED
  BY <1>1, <1>2, <1>3, <1>4, <1>5, <1>6, <1>7, <1>8, <1>9, <1>10 DEF Next, Handle

\* Rows, audit trails, locks and requests keep their types in every run.
THEOREM TypeCorrect == Spec => []TypeOK
BY InitTypeOK, NextTypeOK, PTL DEF Spec

-----------------------------------------------------------------------------
(* Handles and locks *)

LEMMA InitHandles == Init => HandlesSound
<1> SUFFICES ASSUME Init PROVE HandlesSound
  OBVIOUS
<1>1. \A r \in Records, t \in Requests : lock[r] # t
  BY RecordStoreAssumption DEF Init, RecordStoreAssumption
<1> QED
  BY <1>1 DEF Init, HandlesSound, LocksHeld, NamesRow, HandleOrdered, HandleCurrent,
            FreshOwned, Holding, NoCall

\* A commit replaces the row of its record by one a version above the row it
\* read, adds the row it inserted, and touches no other.
LEMMA CommitRows ==
    ASSUME TypeOK, HandlesSound, NEW t \in Requests, Commit(t)
    PROVE  /\ call[t] \in Calls
           /\ \A r \in Records : lock[r] # t => rows'[r] = rows[r] /\ trail'[r] = trail[r]
           /\ fresh[t] # None =>
                /\ fresh[t] \in Records
                /\ rows[fresh[t]] = NoRow
                /\ rows'[fresh[t]] = NewRow(call[t].data, call[t].rec)
                /\ trail'[fresh[t]] = Append(trail[fresh[t]], Creation(call[t].data))
           /\ call[t].op # "create" =>
                /\ call[t].rec \in Records
                /\ call[t].rec # fresh[t]
                /\ seen[t] = rows[call[t].rec]
                /\ rows'[call[t].rec] = Rewritten(call[t], seen[t], seen[t])
                /\ trail'[call[t].rec] =
                     Append(trail[call[t].rec], AuditEntry(call[t], seen[t]))
           /\ \A r \in Records : lock[r] = t => r \in {call[t].rec, fresh[t]}
<1>1. pc[t] = "ready" /\ call[t] \in Calls
  BY DEF Commit, TypeOK
<1>2. /\ LocksHeld
      /\ HandleCurrent(t)
      /\ FreshOwned(t)
  BY DEF HandlesSound
<1>3. call[t].rec \in Records \union {None} /\ (call[t].op = "create" <=> call[t].rec = None)
  BY <1>1, CallFacts
<1>4. \A r \in Records : lock[r] # t => rows'[r] = rows[r] /\ trail'[r] = trail[r]
  BY DEF Commit
<1>5. ASSUME fresh[t] # None
      PROVE  /\ fresh[t] \in Records
             /\ rows[fresh[t]] = NoRow
             /\ rows'[fresh[t]] = NewRow(call[t].data, call[t].rec)
             /\ trail'[fresh[t]] = Append(trail[fresh[t]], Creation(call[t].data))
  <2>1. fresh[t] \in Records /\ lock[fresh[t]] = t /\ rows[fresh[t]] = NoRow
    BY <1>1, <1>2, <1>5 DEF FreshOwned, Holding, TypeOK
  <2> QED
    BY <2>1 DEF Commit
<1>6. ASSUME call[t].op # "create"
      PROVE  /\ call[t].rec \in Records
             /\ call[t].rec # fresh[t]
             /\ seen[t] = rows[call[t].rec]
             /\ rows'[call[t].rec] = Rewritten(call[t], seen[t], seen[t])
             /\ trail'[call[t].rec] =
                  Append(trail[call[t].rec], AuditEntry(call[t], seen[t]))
  <2>1. call[t].rec \in Records
    BY <1>3, <1>6
  <2>2. /\ lock[call[t].rec] = t
        /\ 0 < seen[t].version
        /\ seen[t] = rows[call[t].rec]
    BY <1>1, <1>2, <1>6 DEF HandleCurrent, Holding
  <2>3. call[t].rec # fresh[t]
    BY <1>5, <2>1, <2>2, RecordStoreAssumption
       DEF NoRow, Row, RecordStoreAssumption
  <2> QED
    BY <2>1, <2>2, <2>3 DEF Commit
<1>7. \A r \in Records : lock[r] = t => r \in {call[t].rec, fresh[t]}
  BY <1>2 DEF LocksHeld
<1> QED
  BY <1>1, <1>4, <1>5, <1>6, <1>7

LEMMA NextHandles == TypeOK /\ HandlesSound /\ [Next]_vars => HandlesSound'
<1> SUFFICES ASSUME TypeOK, HandlesSound, [Next]_vars PROVE HandlesSound'
  OBVIOUS
<1>0. /\ LocksHeld
      /\ \A u \in Requests :
           NamesRow(u) /\ HandleOrdered(u) /\ HandleCurrent(u) /\ FreshOwned(u)
  BY DEF HandlesSound
<1>a. None \notin Records /\ None \notin Requests /\ LedgerRecords \subseteq Records
  BY RecordStoreAssumption DEF RecordStoreAssumption
<1>b. \A u \in Requests :
        /\ call[u].rec \in Records \union {None}
        /\ pc[u] # "idle" => (call[u].op # "create" <=> call[u].rec \in Records)
  BY <1>a, CallTypes, CallFacts DEF TypeOK
<1> USE DEF LocksHeld, NamesRow, HandleOrdered, HandleCurrent, FreshOwned, Holding, TypeOK
<1>1. ASSUME NEW t \in Requests, NEW c \in Calls, Submit(t, c) PROVE HandlesSound'
  <2>1. LocksHeld'
    BY <1>1, <1>0, <1>a, <1>b, CallFacts DEF Submit
  <2>2. ASSUME NEW u \in Requests
        PROVE  (NamesRow(u) /\ HandleOrdered(u) /\ HandleCurrent(u) /\ FreshOwned(u))'
    <3>1. NamesRow(u)'
      BY <1>1, <1>0, <1>a, <1>b, CallFacts DEF Submit
    <3>2. HandleOrdered(u)'
      BY <1>1, <1>0, <1>a, <1>b, CallFacts DEF Submit
    <3>3. HandleCurrent(u)'
      BY <1>1, <1>0, <1>a, <1>b, CallFacts DEF Submit
    <3>4. FreshOwned(u)'
      BY <1>1, <1>0, <1>a, <1>b, CallFacts DEF Submit
    <3> QED
      BY <3>1, <3>2, <3>3, <3>4
  <2> QED
    BY <2>1, <2>2 DEF HandlesSound
<1>2. ASSUME NEW t \in Requests, Locate(t) PROVE HandlesSound'
  <2>1. LocksHeld'
    BY <1>2, <1>0, <1>a, <1>b DEF Locate
  <2>2. ASSUME NEW u \in Requests
        PROVE  (NamesRow(u) /\ HandleOrdered(u) /\ HandleCurrent(u) /\ FreshOwned(u))'
    <3>1. NamesRow(u)'
      BY <1>2, <1>0, <1>a, <1>b DEF Locate
    <3>2. HandleOrdered(u)'
      <4>1. CASE u = t
        <5>1. pc[t] = "submitted" /\ call[t].rec \in Records /\ call[t].op # "create"
          BY <1>2, <1>b DEF Locate
        <5>2. rows[call[t].rec].version \in Nat /\ 0 < rows[call[t].rec].version
          BY <1>0, <1>a, <5>1 DEF RowType
        <5> QED
          BY <1>2, <4>1, <5>1, <5>2 DEF Locate
      <4>2. CASE u # t
        BY <1>2, <1>0, <4>2 DEF Locate
      <4> QED
        BY <4>1, <4>2
    <3>3. HandleCurrent(u)'
      BY <1>2, <1>0, <1>a, <1>b DEF Locate
    <3>4. FreshOwned(u)'
      BY <1>2, <1>0, <1>a, <1>b DEF Locate
    <3> QED
      BY <3>1, <3>2, <3>3, <3>4
  <2> QED
    BY <2>1, <2>2 DEF HandlesSound
<1>3. ASSUME NEW t \in Requests, GuardedUpdate(t) PROVE HandlesSound'
  <2>1. LocksHeld'
    BY <1>3, <1>0, <1>a, <1>b DEF GuardedUpdate, VersionMatches
  <2>2. ASSUME NEW u \in Requests
        PROVE  (NamesRow(u) /\ HandleOrdered(u) /\ HandleCurrent(u) /\ FreshOwned(u))'
    <3>1. NamesRow(u)'
      BY <1>3, <1>0, <1>a, <1>b DEF GuardedUpdate, VersionMatches
    <3>2. HandleOrdered(u)'
      BY <1>3, <1>0, <1>a, <1>b DEF GuardedUpdate, VersionMatches
    <3>3. HandleCurrent(u)'
      BY <1>3, <1>0, <1>a, <1>b DEF GuardedUpdate, VersionMatches
    <3>4. FreshOwned(u)'
      BY <1>3, <1>0, <1>a, <1>b DEF GuardedUpdate, VersionMatches
    <3> QED
      BY <3>1, <3>2, <3>3, <3>4
  <2> QED
    BY <2>1, <2>2 DEF HandlesSound
<1>4. ASSUME NEW t \in Requests, GuardedUpdateMisses(t) PROVE HandlesSound'
  <2>1. LocksHeld'
    BY <1>4, <1>0, <1>a, <1>b DEF GuardedUpdateMisses
  <2>2. ASSUME NEW u \in Requests
        PROVE  (NamesRow(u) /\ HandleOrdered(u) /\ HandleCurrent(u) /\ FreshOwned(u))'
    <3>1. NamesRow(u)'
      BY <1>4, <1>0, <1>a, <1>b DEF GuardedUpdateMisses
    <3>2. HandleOrdered(u)'
      BY <1>4, <1>0, <1>a, <1>b DEF GuardedUpdateMisses
    <3>3. HandleCurrent(u)'
      BY <1>4, <1>0, <1>a, <1>b DEF GuardedUpdateMisses
    <3>4. FreshOwned(u)'
      BY <1>4, <1>0, <1>a, <1>b DEF GuardedUpdateMisses
    <3> QED
      BY <3>1, <3>2, <3>3, <3>4
  <2> QED
    BY <2>1, <2>2 DEF HandlesSound
<1>5. ASSUME NEW t \in Requests, InsertRow(t) PROVE HandlesSound'
  <2>1. LocksHeld'
    BY <1>5, <1>0, <1>a, <1>b, CallFacts DEF InsertRow, Insert
  <2>2. ASSUME NEW u \in Requests
        PROVE  (NamesRow(u) /\ HandleOrdered(u) /\ HandleCurrent(u) /\ FreshOwned(u))'
    <3>1. NamesRow(u)'
      BY <1>5, <1>0, <1>a, <1>b, CallFacts DEF InsertRow, Insert
    <3>2. HandleOrdered(u)'
      BY <1>5, <1>0, <1>a, <1>b, CallFacts DEF InsertRow, Insert
    <3>3. HandleCurrent(u)'
      BY <1>5, <1>0, <1>a, <1>b, CallFacts DEF InsertRow, Insert
    <3>4. FreshOwned(u)'
      BY <1>5, <1>0, <1>a, <1>b, CallFacts DEF InsertRow, Insert
    <3> QED
      BY <3>1, <3>2, <3>3, <3>4
  <2> QED
    BY <2>1, <2>2 DEF HandlesSound
<1>6. ASSUME NEW t \in Requests, WriteAudit(t) PROVE HandlesSound'
  <2>1. LocksHeld'
    BY <1>6, <1>0, <1>a, <1>b, CallFacts DEF WriteAudit
  <2>2. ASSUME NEW u \in Requests
        PROVE  (NamesRow(u) /\ HandleOrdered(u) /\ HandleCurrent(u) /\ FreshOwned(u))'
    <3>1. NamesRow(u)'
      BY <1>6, <1>0, <1>a, <1>b, CallFacts DEF WriteAudit
    <3>2. HandleOrdered(u)'
      BY <1>6, <1>0, <1>a, <1>b, CallFacts DEF WriteAudit
    <3>3. HandleCurrent(u)'
      BY <1>6, <1>0, <1>a, <1>b, CallFacts DEF WriteAudit
    <3>4. FreshOwned(u)'
      BY <1>6, <1>0, <1>a, <1>b, CallFacts DEF WriteAudit
    <3> QED
      BY <3>1, <3>2, <3>3, <3>4
  <2> QED
    BY <2>1, <2>2 DEF HandlesSound
<1>7. ASSUME NEW t \in Requests, InsertReplacement(t) PROVE HandlesSound'
  <2>1. LocksHeld'
    BY <1>7, <1>0, <1>a, <1>b, CallFacts DEF InsertReplacement, Insert
  <2>2. ASSUME NEW u \in Requests
        PROVE  (NamesRow(u) /\ HandleOrdered(u) /\ HandleCurrent(u) /\ FreshOwned(u))'
    <3>1. NamesRow(u)'
      BY <1>7, <1>0, <1>a, <1>b, CallFacts DEF InsertReplacement, Insert
    <3>2. HandleOrdered(u)'
      BY <1>7, <1>0, <1>a, <1>b, CallFacts DEF InsertReplacement, Insert
    <3>3. HandleCurrent(u)'
      BY <1>7, <1>0, <1>a, <1>b, CallFacts DEF InsertReplacement, Insert
    <3>4. FreshOwned(u)'
      BY <1>7, <1>0, <1>a, <1>b, CallFacts DEF InsertReplacement, Insert
    <3> QED
      BY <3>1, <3>2, <3>3, <3>4
  <2> QED
    BY <2>1, <2>2 DEF HandlesSound
<1>8. ASSUME NEW t \in Requests, Commit(t) PROVE HandlesSound'
  <2>1. LocksHeld'
    BY <1>8, <1>0, <1>a DEF Commit, ReleaseLocks
  <2>2. pc' = [pc EXCEPT ![t] = "committed"] /\ UNCHANGED <<call, ifMatch, seen, fresh>>
    BY <1>8 DEF Commit
  <2>3. ASSUME NEW r \in Records
        PROVE  /\ lock[r] # t => rows'[r] = rows[r] /\ lock'[r] = lock[r]
               /\ lock[r] = t /\ 0 < rows[r].version =>
                    rows'[r].version = rows[r].version + 1
    <3>1. lock[r] # t => rows'[r] = rows[r] /\ lock'[r] = lock[r]
      BY <1>8, CommitRows DEF Commit, ReleaseLocks
    <3>2. ASSUME lock[r] = t, 0 < rows[r].version
          PROVE  rows'[r].version = rows[r].version + 1
      <4>1. r # fresh[t]
        BY <1>8, <1>0, <1>a, <3>2 DEF Commit, NoRow, Row
      <4>2. call[t].op # "create" /\ r = call[t].rec
        BY <1>8, <1>0, <1>a, <1>b, <3>2, <4>1 DEF Commit
      <4>3. rows'[r] = Rewritten(call[t], rows[r], rows[r])
        BY <1>8, <4>2, CommitRows
      <4>4. call[t] \in Calls /\ rows[r] \in RowType
        BY <1>8, CommitRows
      <4> QED
        BY <4>3, <4>4, RewrittenFacts
    <3> QED
      BY <3>1, <3>2
  <2>4. ASSUME NEW u \in Requests
        PROVE  (NamesRow(u) /\ HandleOrdered(u) /\ HandleCurrent(u) /\ FreshOwned(u))'
    <3>1. NamesRow(u)'
      <4> SUFFICES ASSUME call[u].rec # None PROVE 0 < rows'[call[u].rec].version
        BY <2>2
      <4>1. /\ call[u].rec \in Records
            /\ 0 < rows[call[u].rec].version
            /\ rows[call[u].rec].version \in Nat
        BY <1>0, <1>b DEF RowType
      <4>2. \/ rows'[call[u].rec] = rows[call[u].rec]
            \/ rows'[call[u].rec].version = rows[call[u].rec].version + 1
        BY <2>3, <4>1
      <4> QED
        BY <4>1, <4>2
    <3>2. HandleOrdered(u)'
      <4> SUFFICES ASSUME pc'[u] = "located" PROVE HandleOrdered(u)'
        OBVIOUS
      <4>1. pc[u] = "located" /\ call[u].rec \in Records
        BY <1>0, <1>b, <2>2
      <4>2. /\ rows[call[u].rec].version \in Nat
            /\ seen[u].version \in Nat
        BY <4>1 DEF RowType
      <4>3. /\ 0 < seen[u].version
            /\ seen[u].version <= rows[call[u].rec].version
            /\ seen[u].version = rows[call[u].rec].version => seen[u] = rows[call[u].rec]
            /\ call[u].op # "create"
            /\ Admissible(call[u], seen[u], ifMatch[u])
        BY <1>0, <4>1
      <4>4. \/ rows'[call[u].rec] = rows[call[u].rec]
            \/ rows'[call[u].rec].version = rows[call[u].rec].version + 1
        <5>1. 0 < rows[call[u].rec].version
          BY <4>2, <4>3
        <5> QED
          BY <2>3, <4>1, <5>1
      <4> QED
        BY <2>2, <4>2, <4>3, <4>4
    <3>3. HandleCurrent(u)'
      BY <1>0, <1>b, <2>2, <2>3
    <3>4. FreshOwned(u)'
      BY <1>0, <1>b, <2>2, <2>3
    <3> QED
      BY <3>1, <3>2, <3>3, <3>4
  <2> QED
    BY <2>1, <2>4 DEF HandlesSound
<1>9. ASSUME NEW t \in Requests, Rollback(t) PROVE HandlesSound'
  <2>1. LocksHeld'
    BY <1>9, <1>0, <1>a, <1>b DEF Rollback, ReleaseLocks
  <2>2. ASSUME NEW u \in Requests
        PROVE  (NamesRow(u) /\ HandleOrdered(u) /\ HandleCurrent(u) /\ FreshOwned(u))'
    <3>1. NamesRow(u)'
      BY <1>9, <1>0, <1>a, <1>b DEF Rollback, ReleaseLocks
    <3>2. HandleOrdered(u)'
      BY <1>9, <1>0, <1>a, <1>b DEF Rollback, ReleaseLocks
    <3>3. HandleCurrent(u)'
      BY <1>9, <1>0, <1>a, <1>b DEF Rollback, ReleaseLocks
    <3>4. FreshOwned(u)'
      BY <1>9, <1>0, <1>a, <1>b DEF Rollback, ReleaseLocks
    <3> QED
      BY <3>1, <3>2, <3>3, <3>4
  <2> QED
    BY <2>1, <2>2 DEF HandlesSound
<1>10. CASE UNCHANGED vars
  BY <1>10, <1>0 DEF vars, HandlesSound
<1> QED
  BY <1>1, <1>2, <1>3, <1>4, <1>5, <1>6, <1>7, <1>8, <1>9, <1>10 DEF Next, Handle

\* Every handle that will be written is ordered with, and from the guarded
\* write on equal to, the committed row it replaces.
THEOREM HandlesCorrect == Spec => []HandlesSound
BY InitTypeOK, NextTypeOK, InitHandles, NextHandles, PTL DEF Spec

-----------------------------------------------------------------------------
(* No lost update *)

LEMMA OnlyCommitWrites ==
    ASSUME [Next]_vars, UNCHANGED rows => FALSE
    PROVE  \E t \in Requests : Commit(t)
BY DEF Next, Handle, vars, Submit, Locate, GuardedUpdate, GuardedUpdateMisses, InsertRow,
       WriteAudit, InsertReplacement, Rollback

LEMMA StepReplacesWhatItRead ==
    ASSUME TypeOK, HandlesSound, [Next]_vars,
           NEW r \in Records, 0 < rows[r].version, rows'[r] # rows[r]
    PROVE  ReplacesWhatItRead(r)
<1>1. PICK t \in Requests : Commit(t)
  BY OnlyCommitWrites
<1>2. /\ lock[r] = t
      /\ r \in {call[t].rec, fresh[t]}
      /\ call[t] \in Calls
  BY <1>1, CommitRows
<1>3. r # fresh[t]
  <2>1. None \notin Records
    BY RecordStoreAssumption DEF RecordStoreAssumption
  <2>2. NoRow.version = 0
    BY DEF NoRow, Row
  <2> QED
    BY <1>1, <2>1, <2>2, CommitRows
<1>4. call[t].rec = r /\ call[t].op # "create"
  <2>1. None \notin Records
    BY RecordStoreAssumption DEF RecordStoreAssumption
  <2> QED
    BY <1>2, <1>3, <2>1, CallFacts
<1>5. seen[t] = rows[r] /\ rows'[r] = Rewritten(call[t], rows[r], rows[r])
  BY <1>1, <1>4, CommitRows
<1>6. rows'[r].version = rows[r].version + 1
  BY <1>2, <1>5, RewrittenFacts DEF TypeOK
<1>7. pc[t] = "ready" /\ pc'[t] = "committed"
  BY <1>1 DEF Commit, TypeOK
<1>8. call[t].op \in IfMatchOps => ifMatch[t] = rows[r].version
  BY <1>4, <1>5, <1>7 DEF HandlesSound, HandleCurrent, Admissible, Holding
<1> QED
  BY <1>4, <1>5, <1>6, <1>7, <1>8 DEF ReplacesWhatItRead

\* A committed record is only ever replaced by a request that read exactly that
\* row, at the version its client saw: no update is lost, whatever the requests
\* and however their transactions interleave.
THEOREM NoUpdateIsLost == Spec => NoLostUpdate
<1>1. TypeOK /\ HandlesSound /\ [Next]_vars =>
        [\A r \in Records :
           0 < rows[r].version /\ rows'[r] # rows[r] => ReplacesWhatItRead(r)]_vars
  BY StepReplacesWhatItRead
<1> QED
  BY <1>1, TypeCorrect, HandlesCorrect, PTL DEF Spec, NoLostUpdate

-----------------------------------------------------------------------------
(* A ledger record is corrected once *)

LEMMA InitCorrectedOnce == Init => CorrectedOnce
BY DEF Init, CorrectedOnce, NewRow, NoRow, Row

LEMMA NextCorrectedOnce ==
    TypeOK /\ HandlesSound /\ CorrectedOnce /\ [Next]_vars => CorrectedOnce'
<1> SUFFICES ASSUME TypeOK, HandlesSound, CorrectedOnce, [Next]_vars
             PROVE  CorrectedOnce'
  OBVIOUS
<1>1. CASE UNCHANGED rows
  BY <1>1 DEF CorrectedOnce
<1>2. ASSUME NEW t \in Requests, Commit(t) PROVE CorrectedOnce'
  <2>1. None \notin Records
    BY RecordStoreAssumption DEF RecordStoreAssumption
  <2>2. call[t] \in Calls /\ (call[t].op = "create" <=> call[t].rec = None)
    BY <1>2, CommitRows, CallFacts
  <2>3. ASSUME NEW r \in Records
        PROVE  /\ r # fresh[t] => rows'[r].reverses = rows[r].reverses
               /\ r = fresh[t] => rows'[r].reverses = call[t].rec
               /\ rows[r].status = "REVERSED" => rows'[r].status = "REVERSED"
    <3>1. CASE lock[r] # t /\ r # fresh[t]
      BY <1>2, <3>1, CommitRows
    <3>2. CASE r = fresh[t]
      <4>1. rows[r] = NoRow /\ rows'[r] = NewRow(call[t].data, call[t].rec)
        BY <1>2, <2>1, <3>2, CommitRows
      <4>2. NoRow.status = "ACTIVE" /\ NewRow(call[t].data, call[t].rec).reverses = call[t].rec
        BY DEF NewRow, NoRow, Row
      <4> QED
        BY <3>2, <4>1, <4>2
    <3>3. CASE lock[r] = t /\ r # fresh[t]
      <4>1. r = call[t].rec /\ call[t].op # "create"
        BY <1>2, <2>1, <2>2, <3>3, CommitRows
      <4>2. rows'[r] = Rewritten(call[t], rows[r], rows[r])
        BY <1>2, <4>1, CommitRows
      <4> QED
        BY <2>2, <3>3, <4>2, RewrittenFacts DEF TypeOK
    <3> QED
      BY <3>1, <3>2, <3>3
  <2>4. ASSUME fresh[t] # None, call[t].rec # None
        PROVE  /\ call[t].rec \in Records
               /\ rows[call[t].rec].status = "ACTIVE"
               /\ rows'[call[t].rec].status = "REVERSED"
    <3>1. call[t].op # "create"
      BY <2>2, <2>4
    <3>2. pc[t] = "ready" /\ call[t].replace
      BY <1>2, <2>4, <3>1 DEF Commit, HandlesSound, FreshOwned
    <3>3. call[t].op = "reverse"
      BY <2>2, <3>2, CallFacts
    <3>4. /\ call[t].rec \in Records
          /\ seen[t] = rows[call[t].rec]
          /\ rows'[call[t].rec] = Rewritten(call[t], seen[t], seen[t])
      BY <1>2, <3>1, CommitRows
    <3>5. rows[call[t].rec].status = "ACTIVE"
      BY <3>1, <3>2, <3>3, <3>4 DEF HandlesSound, HandleCurrent, Admissible, Holding
    <3>6. rows'[call[t].rec].status = "REVERSED"
      BY <2>2, <3>3, <3>4, RewrittenFacts DEF TypeOK
    <3> QED
      BY <3>4, <3>5, <3>6
  <2>5. ASSUME NEW n \in Records, NEW m \in Records, rows'[n].reverses # None
        PROVE  /\ rows'[rows'[n].reverses].status = "REVERSED"
               /\ rows'[m].reverses = rows'[n].reverses => m = n
    <3>1. \A r \in Records :
            rows[r].reverses # None =>
              /\ rows[r].reverses \in Records
              /\ rows[rows[r].reverses].status = "REVERSED"
      BY DEF TypeOK, RowType, CorrectedOnce
    <3>2. CASE n = fresh[t]
      BY <2>1, <2>3, <2>4, <2>5, <3>1, <3>2
    <3>3. CASE n # fresh[t] /\ m = fresh[t]
      BY <2>1, <2>3, <2>4, <2>5, <3>1, <3>3
    <3>4. CASE n # fresh[t] /\ m # fresh[t]
      BY <2>3, <2>5, <3>1, <3>4 DEF CorrectedOnce
    <3> QED
      BY <3>2, <3>3, <3>4
  <2> QED
    BY <2>5 DEF CorrectedOnce
<1> QED
  BY <1>1, <1>2, OnlyCommitWrites

\* A ledger record has at most one replacement, and is REVERSED when it has one.
THEOREM LedgerCorrectedOnce == Spec => []CorrectedOnce
BY TypeCorrect, HandlesCorrect, InitCorrectedOnce, NextCorrectedOnce, PTL DEF Spec

-----------------------------------------------------------------------------
(* The audit trail explains the books *)

\* The equation that DataAfter solves.
IsReplay(e, f) ==
    f = [i \in 0 .. Len(e) |-> IF i = 0 THEN NoData ELSE Merged(e[i].new, f[i - 1])]

\* A trail has one replay: two would differ first somewhere.
LEMMA OneReplay ==
    ASSUME NEW e \in Seq(EntryType), NEW f, IsReplay(e, f), NEW g, IsReplay(e, g)
    PROVE  f = g
<1> DEFINE D == {i \in 0 .. Len(e) : f[i] # g[i]}
           R == {p \in Nat \X Nat : p[1] < p[2]}
<1>1. SUFFICES ASSUME D # {} PROVE FALSE
  BY DEF IsReplay
<1>2. PICK m \in D : \A k \in D : <<k, m>> \notin R
  <2>1. IsWellFoundedOn(R, Nat) /\ D \subseteq Nat
    BY NatLessThanWellFounded DEF OpToRel
  <2> HIDE DEF D, R
  <2> QED
    BY <1>1, <2>1, WFMin
<1>3. m \in Nat /\ Len(e) \in Nat /\ m <= Len(e) /\ m # 0
  BY <1>2 DEF IsReplay
<1>4. m - 1 \in 0 .. Len(e) /\ <<m - 1, m>> \in R
  BY <1>3
<1>5. f[m - 1] = g[m - 1]
  BY <1>2, <1>4
<1>6. f[m] = Merged(e[m].new, f[m - 1]) /\ g[m] = Merged(e[m].new, g[m - 1])
  BY <1>3 DEF IsReplay
<1> QED
  BY <1>2, <1>5, <1>6

\* The empty trail has a replay.
LEMMA ReplayEmpty == IsReplay(<<>>, DataAfter(<<>>)) /\ DataAfter(<<>>)[0] = NoData
<1> DEFINE f == [i \in {0} |-> NoData]
<1>1. 0 .. Len(<<>>) = {0}
  OBVIOUS
<1>2. f = [i \in {0} |-> IF i = 0 THEN NoData ELSE Merged(<<>>[i].new, f[i - 1])]
  OBVIOUS
<1>3. IsReplay(<<>>, f)
  BY <1>1, <1>2 DEF IsReplay
<1> HIDE DEF f
<1>4. IsReplay(<<>>, DataAfter(<<>>))
  BY <1>3 DEF IsReplay, DataAfter
<1> QED
  BY <1>1, <1>4 DEF IsReplay

\* One more entry continues the replay and leaves what it has given so far.
LEMMA ReplayAppend ==
    ASSUME NEW e \in Seq(EntryType), NEW x \in EntryType, IsReplay(e, DataAfter(e))
    PROVE  LET n == Len(e)
               after == DataAfter(Append(e, x))
           IN  /\ IsReplay(Append(e, x), after)
               /\ \A i \in 0 .. n : after[i] = DataAfter(e)[i]
               /\ after[n + 1] = Merged(x.new, DataAfter(e)[n])
<1> DEFINE n == Len(e)
           s == Append(e, x)
           f == DataAfter(e)
           g == [i \in 0 .. n + 1 |-> IF i <= n THEN f[i] ELSE Merged(x.new, f[n])]
<1>1. /\ n \in Nat /\ Len(s) = n + 1 /\ s[n + 1] = x
      /\ \A i \in 1 .. n : s[i] = e[i]
      /\ s \in Seq(EntryType)
  OBVIOUS
<1>2. /\ f[0] = NoData
      /\ \A i \in 1 .. n : f[i] = Merged(e[i].new, f[i - 1])
  BY DEF IsReplay
<1> HIDE DEF f
<1>3. /\ \A i \in 0 .. n : g[i] = f[i]
      /\ g[n + 1] = Merged(x.new, f[n])
  BY <1>1
<1>4. ASSUME NEW i \in 0 .. n + 1
      PROVE  g[i] = IF i = 0 THEN NoData ELSE Merged(s[i].new, g[i - 1])
  <2>1. CASE i = 0
    BY <1>1, <1>2, <1>3, <2>1
  <2>2. CASE i \in 1 .. n
    BY <1>1, <1>2, <1>3, <2>2
  <2>3. CASE i = n + 1
    BY <1>1, <1>3, <2>3
  <2> QED
    BY <1>1, <2>1, <2>2, <2>3
<1>5. g = [i \in 0 .. n + 1 |-> g[i]]
  OBVIOUS
<1> HIDE DEF g
<1>6. IsReplay(s, g)
  BY <1>1, <1>4, <1>5 DEF IsReplay
<1>7. IsReplay(s, DataAfter(s))
  <2> HIDE DEF s
  <2> QED
    BY <1>6 DEF IsReplay, DataAfter
<1>8. DataAfter(s) = g
  BY <1>1, <1>6, <1>7, OneReplay
<1> QED
  BY <1>3, <1>7, <1>8 DEF f

\* The invariant: what TrailExplainsRow says, of trails that have a replay.
Explained(e, row) == IsReplay(e, DataAfter(e)) /\ Explains(e, row)
TrailsExplain == \A r \in Records : Explained(trail[r], rows[r])

\* An entry that says what the row was and what it becomes keeps it explained.
LEMMA ExplainedStep ==
    ASSUME NEW e \in Seq(EntryType), NEW x \in EntryType, NEW row \in RowType, NEW row2 \in RowType,
           Explained(e, row),
           row2.version = row.version + 1,
           row2.data = Merged(x.new, row.data),
           Merged(x.old, row.data) = row.data
    PROVE  Explained(Append(e, x), row2)
<1> DEFINE n == Len(e)
           s == Append(e, x)
           after == DataAfter(s)
<1>1. /\ n \in Nat /\ Len(s) = n + 1 /\ s[n + 1] = x
      /\ \A i \in 1 .. n : s[i] = e[i]
  OBVIOUS
<1>2. /\ IsReplay(s, after)
      /\ \A i \in 0 .. n : after[i] = DataAfter(e)[i]
      /\ after[n + 1] = Merged(x.new, DataAfter(e)[n])
  BY ReplayAppend DEF Explained
<1>3. /\ row.version = n /\ row.data = DataAfter(e)[n]
      /\ \A i \in 1 .. n : Merged(e[i].old, DataAfter(e)[i - 1]) = DataAfter(e)[i - 1]
  BY DEF Explained, Explains
<1> HIDE DEF after
<1>4. ASSUME NEW i \in 1 .. n + 1
      PROVE  Merged(s[i].old, after[i - 1]) = after[i - 1]
  <2>1. CASE i \in 1 .. n
    BY <1>1, <1>2, <1>3, <2>1
  <2>2. CASE i = n + 1
    BY <1>1, <1>2, <1>3, <2>2
  <2> QED
    BY <1>1, <2>1, <2>2
<1>5. row2.version = n + 1 /\ row2.data = after[n + 1]
  BY <1>2, <1>3
<1> HIDE DEF n, s
<1>6. /\ row2.version = Len(s) /\ row2.data = after[Len(s)]
      /\ \A i \in 1 .. Len(s) : Merged(s[i].old, after[i - 1]) = after[i - 1]
  BY <1>1, <1>4, <1>5
<1>7. Explains(s, row2)
  BY <1>6 DEF Explains, after
<1> QED
  BY <1>2, <1>7 DEF Explained, after, s

\* The first entry of a record explains its first version.
LEMMA ExplainedCreation ==
    ASSUME NEW e \in Seq(EntryType), Explained(e, NoRow), NEW d \in PartialData,
           NEW rev \in Records \union {None}
    PROVE  Explained(Append(e, Creation(d)), NewRow(d, rev))
<1>1. /\ NoRow \in RowType /\ NewRow(d, rev) \in RowType /\ Creation(d) \in EntryType
  BY NewRowFacts
<1>2. /\ NoRow.version = 0 /\ NoRow.data = NoData
      /\ NewRow(d, rev).version = 1 /\ NewRow(d, rev).data = d
      /\ Creation(d).new = d /\ Creation(d).old = NoData
  BY DEF NoRow, NewRow, Row, Creation, Entry
<1>3. Merged(d, NoData) = d /\ Merged(NoData, NoData) = NoData
  BY DEF Merged, NoData, PartialData
<1> QED
  BY <1>1, <1>2, <1>3, ExplainedStep

\* What a write of a handle's record does to the data is what its entry says.
LEMMA EntryIsTrue ==
    ASSUME NEW c \in Calls, NEW row \in RowType, c.op # "create"
    PROVE  LET x == AuditEntry(c, row)
           IN  /\ Rewritten(c, row, row).data = Merged(x.new, row.data)
               /\ Merged(x.old, row.data) = row.data
<1>1. /\ row.data \in PartialData /\ c.data \in PartialData
      /\ row.data = [body |-> row.data.body, flag |-> row.data.flag]
      /\ c.op \in {"update", "flag", "delete", "reverse"}
  BY CallFacts DEF RowType, PartialData, Ops
<1>2. /\ Merged(row.data, row.data) = row.data
      /\ Merged(NoData, row.data) = row.data
      /\ Merged([body |-> Blank, flag |-> row.data.flag], row.data) = row.data
      /\ Merged(Merged(c.data, row.data), row.data) = Merged(c.data, row.data)
  BY <1>1 DEF Merged, NoData
<1>3. CASE c.op \in {"update", "flag"}
  <2>1. Rewritten(c, row, row).data = Merged(c.data, row.data)
    BY <1>3 DEF Rewritten, RowType
  <2> QED
    BY <1>2, <1>3, <2>1 DEF AuditEntry, Entry
<1>4. CASE c.op \in {"delete", "reverse"}
  <2>1. Rewritten(c, row, row).data = row.data
    BY <1>4 DEF Rewritten, RowType
  <2> QED
    BY <1>2, <1>4, <2>1 DEF AuditEntry, Entry
<1> QED
  BY <1>1, <1>3, <1>4

LEMMA InitTrailsExplain == Init => TrailsExplain
<1> SUFFICES ASSUME Init, NEW r \in Records PROVE Explained(trail[r], rows[r])
  BY DEF TrailsExplain
<1>1. PICK d \in Data :
        /\ rows = [q \in Records |-> IF q \in Seeds THEN NewRow(d, None) ELSE NoRow]
        /\ trail = [q \in Records |-> IF q \in Seeds THEN <<Creation(d)>> ELSE <<>>]
  BY DEF Init
<1>2. Explained(<<>>, NoRow)
  BY ReplayEmpty DEF Explained, Explains, NoRow, Row
<1>3. Explained(<<Creation(d)>>, NewRow(d, None))
  <2>1. d \in PartialData
    BY NewRowFacts
  <2>2. <<>> \in Seq(EntryType) /\ Append(<<>>, Creation(d)) = <<Creation(d)>>
    OBVIOUS
  <2>3. Explained(Append(<<>>, Creation(d)), NewRow(d, None))
    BY <1>2, <2>1, <2>2, ExplainedCreation
  <2> QED
    BY <2>2, <2>3
<1> QED
  BY <1>1, <1>2, <1>3

LEMMA NextTrailsExplain == TypeOK /\ HandlesSound /\ TrailsExplain /\ [Next]_vars => TrailsExplain'
<1> SUFFICES ASSUME TypeOK, HandlesSound, TrailsExplain, [Next]_vars, NEW r \in Records
             PROVE  Explained(trail[r], rows[r])'
  BY DEF TrailsExplain
<1>1. Explained(trail[r], rows[r]) /\ trail[r] \in Seq(EntryType) /\ rows[r] \in RowType
  BY DEF TrailsExplain, TypeOK
<1>2. CASE UNCHANGED <<rows, trail>>
  BY <1>1, <1>2 DEF Explained, Explains
<1>3. ASSUME NEW t \in Requests, Commit(t) PROVE Explained(trail'[r], rows'[r])
  <2>1. call[t] \in Calls /\ call[t].rec \in Records \union {None} /\ call[t].data \in PartialData
    BY <1>3, CommitRows, CallFacts
  <2>2. CASE lock[r] # t
    BY <1>1, <1>3, <2>2, CommitRows
  <2>3. CASE lock[r] = t /\ r = fresh[t]
    <3>1. /\ rows[r] = NoRow /\ rows'[r] = NewRow(call[t].data, call[t].rec)
          /\ trail'[r] = Append(trail[r], Creation(call[t].data))
      BY <1>3, <2>3, CommitRows, RecordStoreAssumption DEF RecordStoreAssumption
    <3> QED
      BY <1>1, <2>1, <3>1, ExplainedCreation
  <2>4. CASE lock[r] = t /\ r # fresh[t]
    <3>1. r = call[t].rec /\ call[t].op # "create"
      BY <1>3, <2>4, CommitRows, CallFacts, RecordStoreAssumption DEF RecordStoreAssumption
    <3>2. /\ rows'[r] = Rewritten(call[t], rows[r], rows[r])
          /\ trail'[r] = Append(trail[r], AuditEntry(call[t], rows[r]))
      BY <1>3, <3>1, CommitRows
    <3>3. /\ Rewritten(call[t], rows[r], rows[r]) \in RowType
          /\ Rewritten(call[t], rows[r], rows[r]).version = rows[r].version + 1
          /\ AuditEntry(call[t], rows[r]) \in EntryType
      BY <1>1, <2>1, RewrittenFacts, EntryFacts
    <3>4. LET x == AuditEntry(call[t], rows[r])
          IN  /\ Rewritten(call[t], rows[r], rows[r]).data = Merged(x.new, rows[r].data)
              /\ Merged(x.old, rows[r].data) = rows[r].data
      BY <1>1, <2>1, <3>1, EntryIsTrue
    <3> QED
      BY <1>1, <3>2, <3>3, <3>4, ExplainedStep
  <2> QED
    BY <2>2, <2>3, <2>4
<1> QED
  BY <1>2, <1>3 DEF Next, Handle, vars, Submit, Locate, GuardedUpdate, GuardedUpdateMisses,
     InsertRow, WriteAudit, InsertReplacement, Rollback, Explained, Explains

\* Replayed from its first entry, the audit trail of every record gives the
\* committed data, each old value is the one replaced, and the version counts
\* the entries (write_audit_log in the handlers of record_service).
THEOREM TrailExplainsBooks == Spec => []TrailExplainsRow
<1>1. TrailsExplain => TrailExplainsRow
  BY DEF TrailsExplain, Explained, TrailExplainsRow
<1> QED
  BY <1>1, TypeCorrect, HandlesCorrect, InitTrailsExplain, NextTrailsExplain, PTL DEF Spec

-----------------------------------------------------------------------------
(* The requests implement AuditedRecords *)

\* The two modules write the same rows and entries.
LEMMA SameShapes ==
    /\ Atomic!NoRow = NoRow
    /\ Atomic!NoData = NoData
    /\ Atomic!Data = Data
    /\ \A d, rev : Atomic!NewRow(d, rev) = NewRow(d, rev)
    /\ \A a, old, new : Atomic!Entry(a, old, new) = Entry(a, old, new)
    /\ \A d : Atomic!Entry("RECORD_CREATE", NoData, d) = Creation(d)
BY DEF Atomic!NoRow, Atomic!NoData, Atomic!Data, Atomic!NewRow, Atomic!Row, Atomic!Entry,
       NoRow, NoData, Data, NewRow, Row, Entry, Creation

LEMMA InitIsAtomic == Init => Atomic!Init
BY SameShapes DEF Init, Atomic!Init

\* What a commit of a call that changes a record says, as function updates.
LEMMA CommitWrites ==
    ASSUME TypeOK, HandlesSound, NEW t \in Requests, Commit(t), call[t].op # "create"
    PROVE  LET r == call[t].rec
               n == fresh[t]
               row == Rewritten(call[t], rows[r], rows[r])
               entry == AuditEntry(call[t], rows[r])
           IN  /\ r \in Records
               /\ 0 < rows[r].version
               /\ Admissible(call[t], rows[r], ifMatch[t])
               /\ call[t].replace => n # None
               /\ ~call[t].replace =>
                    /\ rows' = [rows EXCEPT ![r] = row]
                    /\ trail' = [trail EXCEPT ![r] = Append(@, entry)]
               /\ call[t].replace =>
                    /\ n \in LedgerRecords
                    /\ n \in Records
                    /\ n # r
                    /\ rows[n] = NoRow
                    /\ rows' = [rows EXCEPT ![r] = row, ![n] = NewRow(call[t].data, r)]
                    /\ trail' = [trail EXCEPT ![r] = Append(@, entry),
                                             ![n] = Append(@, Creation(call[t].data))]
<1> DEFINE r == call[t].rec
           n == fresh[t]
<1>1. /\ pc[t] = "ready"
      /\ rows \in [Records -> RowType]
      /\ trail \in [Records -> Seq(EntryType)]
      /\ rows' = [x \in Records |-> rows'[x]]
      /\ trail' = [x \in Records |-> trail'[x]]
  BY DEF Commit, TypeOK
<1>2. /\ HandleCurrent(t)
      /\ FreshOwned(t)
  BY DEF HandlesSound
<1>3. /\ r \in Records
      /\ r # n
      /\ rows'[r] = Rewritten(call[t], rows[r], rows[r])
      /\ trail'[r] = Append(trail[r], AuditEntry(call[t], rows[r]))
      /\ seen[t] = rows[r]
  BY CommitRows
<1>4. /\ 0 < rows[r].version
      /\ Admissible(call[t], rows[r], ifMatch[t])
  BY <1>1, <1>2, <1>3 DEF HandleCurrent, Holding
<1>5. n # None <=> call[t].replace
  BY <1>1, <1>2 DEF FreshOwned
<1>6. \A x \in Records \ {r, n} : rows'[x] = rows[x] /\ trail'[x] = trail[x]
  BY CommitRows
<1>7. ASSUME ~call[t].replace
      PROVE  /\ rows' = [rows EXCEPT ![r] = Rewritten(call[t], rows[r], rows[r])]
             /\ trail' = [trail EXCEPT ![r] = Append(@, AuditEntry(call[t], rows[r]))]
  <2>1. \A x \in Records \ {r} : rows'[x] = rows[x] /\ trail'[x] = trail[x]
    BY <1>5, <1>6, <1>7, RecordStoreAssumption DEF RecordStoreAssumption
  <2> HIDE DEF r, n
  <2> QED
    BY <1>1, <1>3, <2>1
<1>8. ASSUME call[t].replace
      PROVE  /\ n \in LedgerRecords
             /\ n \in Records
             /\ rows[n] = NoRow
             /\ rows' = [rows EXCEPT ![r] = Rewritten(call[t], rows[r], rows[r]),
                                    ![n] = NewRow(call[t].data, r)]
             /\ trail' = [trail EXCEPT ![r] = Append(@, AuditEntry(call[t], rows[r])),
                                      ![n] = Append(@, Creation(call[t].data))]
  <2>1. /\ n \in Records
        /\ rows[n] = NoRow
        /\ rows'[n] = NewRow(call[t].data, r)
        /\ trail'[n] = Append(trail[n], Creation(call[t].data))
    BY <1>5, <1>8, CommitRows
  <2>2. n \in LedgerRecords
    BY <1>1, <1>2, <1>5, <1>8 DEF FreshOwned, Holding
  <2>3. /\ rows' = [rows EXCEPT ![r] = Rewritten(call[t], rows[r], rows[r]),
                               ![n] = NewRow(call[t].data, r)]
        /\ trail' = [trail EXCEPT ![r] = Append(@, AuditEntry(call[t], rows[r])),
                                 ![n] = Append(@, Creation(call[t].data))]
    <3> HIDE DEF r, n
    <3> QED
      BY <1>1, <1>3, <1>6, <2>1
  <2> QED
    BY <2>1, <2>2, <2>3
<1> HIDE DEF r, n
<1> QED
  BY <1>3, <1>4, <1>5, <1>7, <1>8 DEF r, n

LEMMA CommitIsAtomic ==
    ASSUME TypeOK, HandlesSound, NEW t \in Requests, Commit(t)
    PROVE  Atomic!Next
<1> DEFINE c == call[t]
           r == c.rec
           row == rows[r]
<1>1. /\ c \in Calls
      /\ rows \in [Records -> RowType]
      /\ trail \in [Records -> Seq(EntryType)]
      /\ rows' = [x \in Records |-> rows'[x]]
      /\ trail' = [x \in Records |-> trail'[x]]
  <2>1. rows' = [x \in Records |-> rows'[x]] /\ trail' = [x \in Records |-> trail'[x]]
    BY DEF Commit
  <2> QED
    BY <2>1, CommitRows DEF TypeOK
<1>2. /\ Blank \notin Bodies
      /\ Blank \notin Flags
      /\ None \notin Records
  BY RecordStoreAssumption DEF RecordStoreAssumption
<1>3. CASE c.op = "create"
  <2> DEFINE n == fresh[t]
  <2>1. /\ n # None
        /\ c.rec = None
        /\ c.data \in Data
    BY <1>1, <1>3, CallFacts DEF HandlesSound, FreshOwned, Commit
  <2>2. /\ n \in Records
        /\ rows[n] = NoRow
        /\ rows'[n] = NewRow(c.data, None)
        /\ trail'[n] = Append(trail[n], Creation(c.data))
        /\ \A x \in Records \ {n} : rows'[x] = rows[x] /\ trail'[x] = trail[x]
    BY <1>2, <2>1, CommitRows
  <2>3. /\ rows' = [rows EXCEPT ![n] = NewRow(c.data, None)]
        /\ trail' = [trail EXCEPT ![n] = Append(@, Creation(c.data))]
    <3> HIDE DEF c, n
    <3> QED
      BY <1>1, <2>2
  <2>4. Atomic!Create(n, c.data)
    BY <2>2, <2>3, SameShapes DEF Atomic!Create, Atomic!Log
  <2> QED
    BY <2>1, <2>2, <2>4, SameShapes DEF Atomic!Next
<1>4. ASSUME c.op # "create"
      PROVE  /\ r \in Records
             /\ row \in RowType
             /\ row.data \in PartialData
             /\ Admissible(c, row, ifMatch[t])
             /\ Atomic!Live(r)
             /\ ~c.replace =>
                  /\ rows' = [rows EXCEPT ![r] = Rewritten(c, row, row)]
                  /\ trail' = [trail EXCEPT ![r] = Append(@, AuditEntry(c, row))]
  <2>1. /\ r \in Records
        /\ 0 < row.version
        /\ Admissible(c, row, ifMatch[t])
        /\ ~c.replace =>
             /\ rows' = [rows EXCEPT ![r] = Rewritten(c, row, row)]
             /\ trail' = [trail EXCEPT ![r] = Append(@, AuditEntry(c, row))]
    BY <1>4, CommitWrites
  <2>2. row \in RowType /\ row.version \in Nat /\ row.data \in PartialData
    BY <1>1, <2>1 DEF RowType
  <2>3. Atomic!Live(r)
    BY <2>1, <2>2 DEF Atomic!Live, Admissible
  <2> QED
    BY <2>1, <2>2, <2>3
<1>5. CASE c.op = "update"
  <2>1. /\ c.data.body \in Bodies /\ ~c.replace /\ r \notin LedgerRecords
        /\ c.data.flag = Blank \/ c.data.flag = row.data.flag
    BY <1>1, <1>4, <1>5, CallFacts DEF Admissible, ProtectedKept
  <2>2. Merged(c.data, row.data) = [row.data EXCEPT !.body = c.data.body]
    BY <1>2, <1>4, <1>5, <2>1 DEF Merged, PartialData
  <2>3. Rewritten(c, row, row) = Atomic!Changed(row, [row.data EXCEPT !.body = c.data.body])
    BY <1>4, <1>5, <2>2 DEF Rewritten, RowType, Atomic!Changed
  <2>4. AuditEntry(c, row) =
          Entry("RECORD_UPDATE", row.data, [row.data EXCEPT !.body = c.data.body])
    BY <1>5, <2>2 DEF AuditEntry
  <2>5. Atomic!Edit(r, c.data.body)
    <3> DEFINE d == [row.data EXCEPT !.body = c.data.body]
    <3>1. rows' = [rows EXCEPT ![r] = Atomic!Changed(@, d)]
      BY <1>4, <1>5, <2>1, <2>3
    <3>2. trail' = [trail EXCEPT ![r] = Append(@, Atomic!Entry("RECORD_UPDATE", row.data, d))]
      BY <1>4, <1>5, <2>1, <2>4, SameShapes
    <3> HIDE DEF c
    <3> QED
      BY <1>4, <1>5, <2>1, <3>1, <3>2 DEF Atomic!Edit, Atomic!Log
  <2> QED
    BY <1>4, <1>5, <2>1, <2>5 DEF Atomic!Next
<1>6. CASE c.op = "flag"
  <2>1. c.data.body = Blank /\ c.data.flag \in Flags /\ ~c.replace /\ c.data \in PartialData
    BY <1>1, <1>6, CallFacts
  <2>2. Merged(c.data, row.data) = [row.data EXCEPT !.flag = c.data.flag]
    BY <1>2, <1>4, <1>6, <2>1 DEF Merged, PartialData
  <2>3. Rewritten(c, row, row) = Atomic!Changed(row, [row.data EXCEPT !.flag = c.data.flag])
    BY <1>4, <1>6, <2>2 DEF Rewritten, RowType, Atomic!Changed
  <2>4. AuditEntry(c, row) =
          Entry("PROTECTED_FIELD_CHANGE",
                [body |-> Blank, flag |-> row.data.flag],
                [body |-> Blank, flag |-> c.data.flag])
    <3>1. c.data = [body |-> Blank, flag |-> c.data.flag]
      BY <2>1 DEF PartialData
    <3> QED
      BY <1>6, <3>1 DEF AuditEntry
  <2>5. Atomic!SetProtected(r, c.data.flag)
    <3>1. rows' = [rows EXCEPT ![r] =
                     Atomic!Changed(@, [row.data EXCEPT !.flag = c.data.flag])]
      BY <1>4, <1>6, <2>1, <2>3
    <3>2. trail' = [trail EXCEPT ![r] =
                      Append(@, Atomic!Entry("PROTECTED_FIELD_CHANGE",
                                             [body |-> Blank, flag |-> row.data.flag],
                                             [body |-> Blank, flag |-> c.data.flag]))]
      BY <1>4, <1>6, <2>1, <2>4, SameShapes
    <3> HIDE DEF c
    <3> QED
      BY <1>4, <1>6, <3>1, <3>2 DEF Atomic!SetProtected, Atomic!Log
  <2> QED
    BY <1>4, <1>6, <2>1, <2>5 DEF Atomic!Next
<1>7. CASE c.op = "delete"
  <2>1. ~c.replace
    BY <1>1, <1>7, CallFacts
  <2>2. Rewritten(c, row, row) = Atomic!Deleted(row)
    BY <1>4, <1>7 DEF Rewritten, RowType, Atomic!Deleted
  <2>3. AuditEntry(c, row) = Entry("RECORD_DELETE", NoData, NoData)
    BY <1>7 DEF AuditEntry
  <2>4. Atomic!Delete(r)
    <3>1. rows' = [rows EXCEPT ![r] = Atomic!Deleted(@)]
      BY <1>4, <1>7, <2>1, <2>2
    <3>2. trail' = [trail EXCEPT ![r] =
                      Append(@, Atomic!Entry("RECORD_DELETE", Atomic!NoData, Atomic!NoData))]
      BY <1>4, <1>7, <2>1, <2>3, SameShapes
    <3> HIDE DEF c
    <3> QED
      BY <1>4, <1>7, <3>1, <3>2 DEF Atomic!Delete, Atomic!Log
  <2> QED
    BY <1>4, <1>7, <2>4 DEF Atomic!Next
<1>8. CASE c.op = "reverse"
  <2>1. Rewritten(c, row, row) = Atomic!Reversed(row)
    BY <1>4, <1>8 DEF Rewritten, RowType, Atomic!Reversed
  <2>2. AuditEntry(c, row) = Entry("RECORD_REVERSE", row.data, NoData)
    BY <1>8 DEF AuditEntry
  <2>3. Atomic!Reversible(r)
    BY <1>4, <1>8 DEF Atomic!Reversible, Admissible
  <2>4. CASE ~c.replace
    <3>1. Atomic!Reverse(r)
      BY <1>4, <1>8, <2>1, <2>2, <2>3, <2>4, SameShapes DEF Atomic!Reverse, Atomic!Log
    <3> QED
      BY <1>4, <1>8, <3>1 DEF Atomic!Next
  <2>5. CASE c.replace
    <3> DEFINE n == fresh[t]
    <3>1. /\ n \in LedgerRecords
          /\ n \in Records
          /\ rows[n] = NoRow
          /\ rows' = [rows EXCEPT ![r] = Rewritten(c, row, row), ![n] = NewRow(c.data, r)]
          /\ trail' = [trail EXCEPT ![r] = Append(@, AuditEntry(c, row)),
                                   ![n] = Append(@, Creation(c.data))]
      BY <1>8, <2>5, CommitWrites
    <3>2. c.data \in Data
      BY <1>1, <2>5, CallFacts
    <3>3. Atomic!ReverseAndReplace(r, n, c.data)
      BY <2>1, <2>2, <2>3, <3>1, SameShapes DEF Atomic!ReverseAndReplace
    <3> QED
      BY <1>4, <1>8, <3>1, <3>2, <3>3, SameShapes DEF Atomic!Next
  <2> QED
    BY <2>4, <2>5
<1> QED
  BY <1>1, <1>3, <1>5, <1>6, <1>7, <1>8, CallFacts DEF Ops

\* Requests that interleave, wait, conflict and roll back still leave committed
\* rows and audit trails that a sequence of atomic operations would leave.
THEOREM RequestsImplementAtomicRecords == Spec => ImplementsAtomicRecords
<1>1. TypeOK /\ HandlesSound /\ [Next]_vars => [Atomic!Next]_<<rows, trail>>
  <2> SUFFICES ASSUME TypeOK, HandlesSound, [Next]_vars, <<rows, trail>>' # <<rows, trail>>
               PROVE  Atomic!Next
    OBVIOUS
  <2>1. PICK t \in Requests : Commit(t)
    BY DEF Next, Handle, vars, Submit, Locate, GuardedUpdate, GuardedUpdateMisses,
           InsertRow, WriteAudit, InsertReplacement, Rollback
  <2> QED
    BY <2>1, CommitIsAtomic
<1> QED
  BY <1>1, InitIsAtomic, TypeCorrect, HandlesCorrect, PTL
     DEF Spec, ImplementsAtomicRecords, Atomic!Spec
=============================================================================
