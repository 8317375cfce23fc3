-------------------------- MODULE Proposals_proof --------------------------
(***************************************************************************)
(* Proofs about Proposals for any records, proposals, calls and editors.   *)
(***************************************************************************)
EXTENDS Proposals, TLAPS

\* A call is about a proposal that its owner has been shown.
CallsShown ==
    \A t \in Requests : pc[t] # "idle" => prop[call[t].p].status \notin {"NONE", "DRAFT"}

\* A record is never older than the drafts of it, and while it has the version
\* of a draft it has all that the draft was made from.
RecordAsDrafted(row, item) ==
    /\ item.expected <= row.version
    /\ item.expected = row.version => row.value = item.before /\ ~row.deleted
DraftsTrue == \A p \in Props : prop[p].status # "NONE" => RecordAsDrafted(rec[prop[p].rec], prop[p])

\* From its guarded write to its commit an apply has the record locked, at the
\* version of the draft.
Writing(t) == pc[t] = "written" \/ (pc[t] = "ready" /\ call[t].op = "apply")
ItemLocked(t) ==
    LET item == prop[call[t].p]
    IN  lock[item.rec] = t /\ rec[item.rec].version = item.expected
WritesLocked ==
    \A t \in Requests :
        /\ pc[t] \in {"located", "written"} => call[t].op = "apply"
        /\ Writing(t) => ItemLocked(t)

\* A change that has been committed has taken the record past its draft.
EffectsPast ==
    \A p \in Props :
        effects[p] # 0 => /\ prop[p].status # "NONE"
                          /\ prop[p].expected < rec[prop[p].rec].version

IInv == TypeOK /\ CallsShown /\ DraftsTrue /\ WritesLocked /\ EffectsPast /\ AppliedOnce

-----------------------------------------------------------------------------
LEMMA InitIInv == Init => IInv
<1> SUFFICES ASSUME Init PROVE IInv
  OBVIOUS
<1>1. TypeOK
  BY DEF Init, TypeOK, Row, Status, Operations
<1>2. CallsShown /\ DraftsTrue /\ WritesLocked /\ EffectsPast /\ AppliedOnce
  BY <1>1 DEF Init, TypeOK, CallsShown, DraftsTrue, WritesLocked, Writing, EffectsPast, AppliedOnce
<1> QED
  BY <1>1, <1>2 DEF IInv

LEMMA Facts ==
    ASSUME TypeOK
    PROVE  /\ \A r \in Records : rec[r] \in Row /\ rec[r].version \in Nat
           /\ \A p \in Props : /\ prop[p].rec \in Records /\ prop[p].expected \in Nat
                               /\ effects[p] \in Nat /\ prop[p].after \in Values
           /\ \A t \in Requests : call[t].p \in Props /\ call[t].op \in {"apply", "cancel"}
BY DEF TypeOK, Row

-----------------------------------------------------------------------------
(* Steps that change no row and no status that is shown *)

\* The assistant and the clock.
LEMMA DraftStep ==
    ASSUME IInv, NEW p \in Props, NEW o \in Operations, NEW r \in Records, NEW v \in Values,
           Draft(p, o, r, v)
    PROVE  IInv'
<1> DEFINE item == [status |-> "DRAFT", operation |-> o, rec |-> r,
                    expected |-> rec[r].version, before |-> rec[r].value, after |-> v]
<1>1. /\ prop' = [prop EXCEPT ![p] = item] /\ prop[p].status = "NONE" /\ ~rec[r].deleted
      /\ UNCHANGED <<rec, lock, chain, late, effects, pc, call>>
  BY DEF Draft
<1>2. /\ rec[r].version \in Nat /\ rec[r].value \in Values
      /\ \A q \in Props : effects[q] \in Nat
      /\ \A t \in Requests : call[t].p \in Props
  BY DEF IInv, TypeOK, Row
<1>3. /\ item.status = "DRAFT" /\ item.rec = r /\ item.expected = rec[r].version
      /\ item.before = rec[r].value
      /\ item \in [status : Status, operation : Operations, rec : Records, expected : Nat,
                   before : Values, after : Values]
  BY <1>2 DEF Status
<1> HIDE DEF item
<1>4. TypeOK'
  BY <1>1, <1>3 DEF IInv, TypeOK
<1>5. /\ prop'[p] = item /\ \A q \in Props \ {p} : prop'[q] = prop[q]
      /\ \A t \in Requests : pc[t] # "idle" => call[t].p # p
      /\ effects[p] = 0
  BY <1>1, <1>2 DEF IInv, TypeOK, CallsShown, EffectsPast
<1>6. CallsShown'
  BY <1>1, <1>2, <1>5 DEF IInv, CallsShown
<1>7. DraftsTrue'
  BY <1>1, <1>2, <1>3, <1>5 DEF IInv, DraftsTrue, RecordAsDrafted
<1>8. WritesLocked'
  BY <1>1, <1>2, <1>5 DEF IInv, WritesLocked, Writing, ItemLocked
<1>9. EffectsPast'
  BY <1>1, <1>5 DEF IInv, EffectsPast
<1>10. AppliedOnce'
  BY <1>1, <1>3, <1>5 DEF IInv, AppliedOnce
<1> QED
  BY <1>4, <1>6, <1>7, <1>8, <1>9, <1>10 DEF IInv

\* A proposal keeps its item whatever becomes of its status.
LEMMA StatusStep ==
    ASSUME IInv, NEW p \in Props, NEW s \in Status, s \notin {"NONE", "DRAFT"},
           prop[p].status # "NONE",
           prop' = [prop EXCEPT ![p].status = s]
    PROVE  /\ prop'[p].status = s
           /\ \A q \in Props :
                /\ q # p => prop'[q].status = prop[q].status
                /\ prop'[q].rec = prop[q].rec /\ prop'[q].expected = prop[q].expected
                /\ prop'[q].before = prop[q].before /\ prop'[q].after = prop[q].after
                /\ prop'[q].status # "NONE" <=> prop[q].status # "NONE"
                /\ prop[q].status \notin {"NONE", "DRAFT"} => prop'[q].status \notin {"NONE", "DRAFT"}
           /\ prop' \in [Props -> [status : Status, operation : Operations, rec : Records,
                                   expected : Nat, before : Values, after : Values]]
BY DEF IInv, TypeOK

LEMMA PublishStep ==
    ASSUME IInv, NEW p \in Props, Publish(p)
    PROVE  IInv'
<1>1. /\ prop' = [prop EXCEPT ![p].status = "PENDING"] /\ prop[p].status = "DRAFT"
      /\ UNCHANGED <<rec, lock, chain, late, effects, pc, call>>
  BY DEF Publish
<1>2. "PENDING" \in Status
  BY DEF Status
<1>3. /\ prop'[p].status = "PENDING"
      /\ \A q \in Props :
           /\ q # p => prop'[q].status = prop[q].status
           /\ prop'[q].rec = prop[q].rec /\ prop'[q].expected = prop[q].expected
           /\ prop'[q].before = prop[q].before /\ prop'[q].after = prop[q].after
           /\ prop'[q].status # "NONE" <=> prop[q].status # "NONE"
           /\ prop[q].status \notin {"NONE", "DRAFT"} => prop'[q].status \notin {"NONE", "DRAFT"}
  BY <1>1, <1>2, StatusStep
<1>4. TypeOK'
  <2>1. prop' \in [Props -> [status : Status, operation : Operations, rec : Records,
                            expected : Nat, before : Values, after : Values]]
    BY <1>1, <1>2, StatusStep
  <2> QED
    BY <1>1, <2>1 DEF IInv, TypeOK
<1>5. \A t \in Requests : call[t].p \in Props
  BY DEF IInv, TypeOK
<1>6. CallsShown'
  BY <1>1, <1>3, <1>5 DEF IInv, CallsShown
<1>7. DraftsTrue'
  BY <1>1, <1>3 DEF IInv, DraftsTrue, RecordAsDrafted
<1>8. WritesLocked'
  BY <1>1, <1>3, <1>5 DEF IInv, WritesLocked, Writing, ItemLocked
<1>9. EffectsPast'
  BY <1>1, <1>3 DEF IInv, EffectsPast
<1>10. AppliedOnce'
  BY <1>1, <1>3 DEF IInv, AppliedOnce
<1> QED
  BY <1>4, <1>6, <1>7, <1>8, <1>9, <1>10 DEF IInv

\* Handlers that have not written leave the tables as they are.
LEMMA HandlerStep ==
    ASSUME IInv, NEW t \in Requests, NEW l, TypeOK',
           pc' = [pc EXCEPT ![t] = l], UNCHANGED <<rec, prop, effects>>,
           \A u \in Requests \ {t} : call'[u] = call[u],
           prop[call'[t].p].status \notin {"NONE", "DRAFT"},
           \A u \in Requests \ {t}, r \in Records : lock[r] = u => lock'[r] = u,
           l \in {"located", "written"} => call'[t].op = "apply",
           Writing(t)' => ItemLocked(t)'
    PROVE  IInv'
<1>1. pc \in [Requests -> {"idle", "submitted", "loaded", "located"} \union Holding \union Answers]
  BY DEF IInv, TypeOK
<1>2. \A u \in Requests \ {t} : pc'[u] = pc[u] /\ call'[u] = call[u]
  BY <1>1
<1>3. pc'[t] = l
  BY <1>1
<1>4. \A u \in Requests : call[u].p \in Props /\ \A p \in Props : prop[p].rec \in Records
  BY DEF IInv, TypeOK
<1>5. CallsShown'
  BY <1>2 DEF IInv, CallsShown
<1>6. WritesLocked'
  <2> SUFFICES ASSUME NEW u \in Requests
               PROVE  /\ pc'[u] \in {"located", "written"} => call'[u].op = "apply"
                      /\ Writing(u)' => ItemLocked(u)'
    BY DEF WritesLocked
  <2>1. CASE u = t
    BY <1>3, <2>1
  <2>2. CASE u # t
    BY <1>2, <1>4, <2>2 DEF IInv, WritesLocked, Writing, ItemLocked
  <2> QED
    BY <2>1, <2>2
<1>7. DraftsTrue' /\ EffectsPast' /\ AppliedOnce'
  BY DEF IInv, DraftsTrue, EffectsPast, AppliedOnce
<1> QED
  BY <1>5, <1>6, <1>7 DEF IInv
LEMMA LapseStep ==
    ASSUME IInv, NEW p \in Props, Lapse(p)
    PROVE  IInv'
<1>1. late' = late \union {p} /\ UNCHANGED <<rec, lock, chain, prop, effects, pc, call>>
  BY DEF Lapse
<1>2. TypeOK'
  BY <1>1 DEF IInv, TypeOK
<1>3. CallsShown' /\ DraftsTrue' /\ WritesLocked' /\ EffectsPast' /\ AppliedOnce'
  BY <1>1 DEF IInv, CallsShown, DraftsTrue, RecordAsDrafted, WritesLocked, Writing, ItemLocked,
              EffectsPast, AppliedOnce
<1> QED
  BY <1>2, <1>3 DEF IInv

-----------------------------------------------------------------------------
(* The handlers until they commit *)

LEMMA SubmitStep ==
    ASSUME IInv, NEW t \in Requests, NEW p \in Props, NEW op \in {"apply", "cancel"},
           Submit(t, op, p)
    PROVE  IInv'
<1>1. /\ pc' = [pc EXCEPT ![t] = "submitted"] /\ call' = [call EXCEPT ![t] = [op |-> op, p |-> p]]
      /\ prop[p].status \notin {"NONE", "DRAFT"}
      /\ UNCHANGED <<rec, lock, chain, prop, late, effects>>
  BY DEF Submit
<1>2. TypeOK'
  BY <1>1 DEF IInv, TypeOK
<1>3. call'[t].p = p /\ pc'[t] = "submitted" /\ \A u \in Requests \ {t} : call'[u] = call[u]
  BY <1>1 DEF IInv, TypeOK
<1>4. ~Writing(t)'
  BY <1>3 DEF Writing
<1> QED
  BY <1>1, <1>2, <1>3, <1>4, HandlerStep

LEMMA LoadStep ==
    ASSUME IInv, NEW t \in Requests, Load(t)
    PROVE  IInv'
<1> DEFINE l == Verdict(call[t].op, prop[call[t].p].status, call[t].p \in late)
<1>1. /\ pc' = [pc EXCEPT ![t] = l] /\ pc[t] = "submitted"
      /\ UNCHANGED <<rec, lock, chain, prop, late, effects, call>>
  BY DEF Load
<1>2. l \in {"ok", "conflict", "expired", "loaded"}
  BY DEF Verdict
<1> HIDE DEF l
<1>3. TypeOK' /\ pc'[t] = l
  BY <1>1, <1>2 DEF IInv, TypeOK, Answers
<1>4. ~Writing(t)'
  BY <1>2, <1>3 DEF Writing
<1>5. prop[call[t].p].status \notin {"NONE", "DRAFT"}
  BY <1>1 DEF IInv, CallsShown
<1> QED
  BY <1>1, <1>2, <1>3, <1>4, <1>5, HandlerStep

LEMMA LocateItemStep ==
    ASSUME IInv, NEW t \in Requests, LocateItem(t)
    PROVE  IInv'
<1> DEFINE item == prop[call[t].p]
           l == StillAsDrafted(rec[item.rec], item)
<1>1. /\ pc' = [pc EXCEPT ![t] = l] /\ pc[t] = "loaded" /\ call[t].op = "apply"
      /\ UNCHANGED <<rec, lock, chain, prop, late, effects, call>>
  BY DEF LocateItem
<1>2. l \in {"gone", "stale", "invalid", "located"}
  BY DEF StillAsDrafted
<1> HIDE DEF l, item
<1>3. TypeOK' /\ pc'[t] = l
  BY <1>1, <1>2 DEF IInv, TypeOK, Answers
<1>4. ~Writing(t)'
  BY <1>2, <1>3 DEF Writing
<1>5. prop[call[t].p].status \notin {"NONE", "DRAFT"}
  BY <1>1 DEF IInv, CallsShown
<1> QED
  BY <1>1, <1>2, <1>3, <1>4, <1>5, HandlerStep

\* The guarded write takes the row lock at the version of the draft.
LEMMA GuardedUpdateStep ==
    ASSUME IInv, NEW t \in Requests, GuardedUpdate(t)
    PROVE  IInv'
<1> DEFINE item == prop[call[t].p]
<1>1. /\ pc' = [pc EXCEPT ![t] = "written"] /\ pc[t] = "located"
      /\ rec[item.rec].version = item.expected
      /\ lock[item.rec] = None /\ lock' = [lock EXCEPT ![item.rec] = t]
      /\ UNCHANGED <<rec, chain, prop, late, effects, call>>
  BY DEF GuardedUpdate, VersionMatches
<1>2. call[t].op = "apply" /\ prop[call[t].p].status \notin {"NONE", "DRAFT"}
  BY <1>1 DEF IInv, CallsShown, WritesLocked
<1>3. item.rec \in Records
  BY DEF IInv, TypeOK
<1>4. TypeOK'
  BY <1>1, <1>3 DEF IInv, TypeOK, Holding
<1>5. lock'[item.rec] = t /\ \A u \in Requests, r \in Records : lock[r] = u => lock'[r] = u
  BY <1>1, <1>3, ProposalsAssumption DEF IInv, TypeOK, ProposalsAssumption
<1>6. ItemLocked(t)'
  BY <1>1, <1>5 DEF ItemLocked
<1> QED
  BY <1>1, <1>2, <1>4, <1>5, <1>6, HandlerStep

LEMMA GuardedUpdateMissesStep ==
    ASSUME IInv, NEW t \in Requests, GuardedUpdateMisses(t)
    PROVE  IInv'
<1>1. /\ pc' = [pc EXCEPT ![t] = "conflict"] /\ pc[t] = "located"
      /\ UNCHANGED <<rec, lock, chain, prop, late, effects, call>>
  BY DEF GuardedUpdateMisses
<1>2. TypeOK' /\ pc'[t] = "conflict"
  BY <1>1 DEF IInv, TypeOK, Answers
<1>3. ~Writing(t)' /\ prop[call[t].p].status \notin {"NONE", "DRAFT"}
  BY <1>1, <1>2 DEF IInv, CallsShown, Writing
<1> QED
  BY <1>1, <1>2, <1>3, HandlerStep

LEMMA WriteAuditStep ==
    ASSUME IInv, NEW t \in Requests, WriteAudit(t)
    PROVE  IInv'
<1>1. /\ pc' = [pc EXCEPT ![t] = "ready"]
      /\ pc[t] = IF call[t].op = "apply" THEN "written" ELSE "loaded"
      /\ chain' = t /\ UNCHANGED <<rec, lock, prop, late, effects, call>>
  BY DEF WriteAudit
<1>2. TypeOK' /\ pc'[t] = "ready"
  BY <1>1 DEF IInv, TypeOK, Holding
<1>3. Writing(t)' => Writing(t)
  BY <1>1, <1>2 DEF Writing
<1>4. Writing(t)' => ItemLocked(t)'
  BY <1>1, <1>3 DEF IInv, WritesLocked, ItemLocked
<1>5. prop[call[t].p].status \notin {"NONE", "DRAFT"}
  BY <1>1 DEF IInv, CallsShown
<1> QED
  BY <1>1, <1>2, <1>4, <1>5, HandlerStep

LEMMA RollbackStep ==
    ASSUME IInv, NEW t \in Requests, Rollback(t)
    PROVE  IInv'
<1>1. /\ pc' = [pc EXCEPT ![t] = "failed"] /\ pc[t] # "idle"
      /\ lock' = [r \in Records |-> IF lock[r] = t THEN None ELSE lock[r]]
      /\ chain' = IF chain = t THEN None ELSE chain
      /\ UNCHANGED <<rec, prop, late, effects, call>>
  BY DEF Rollback, ReleaseLocks, Holding
<1>2. TypeOK' /\ pc'[t] = "failed"
  BY <1>1 DEF IInv, TypeOK, Answers
<1>3. ~Writing(t)'
  BY <1>2 DEF Writing
<1>4. \A u \in Requests \ {t}, r \in Records : lock[r] = u => lock'[r] = u
  BY <1>1
<1>5. prop[call[t].p].status \notin {"NONE", "DRAFT"}
  BY <1>1 DEF IInv, CallsShown
<1> QED
  BY <1>1, <1>2, <1>3, <1>4, <1>5, HandlerStep

-----------------------------------------------------------------------------
(* The steps that change a record *)

\* An edit needs the row lock, so no apply is between its write and its commit.
LEMMA ChangeStep ==
    ASSUME IInv, NEW r \in Records, NEW row \in Row,
           lock[r] = None, row.version = rec[r].version + 1,
           rec' = [rec EXCEPT ![r] = row],
           UNCHANGED <<lock, chain, prop, late, effects, pc, call>>
    PROVE  IInv'
<1>1. TypeOK'
  BY DEF IInv, TypeOK
<1>2. /\ \A s \in Records : rec[s].version \in Nat
      /\ \A p \in Props : prop[p].rec \in Records /\ prop[p].expected \in Nat
      /\ \A t \in Requests : call[t].p \in Props
      /\ rec \in [Records -> Row]
  BY DEF IInv, TypeOK, Row
<1>3. rec'[r] = row /\ \A s \in Records \ {r} : rec'[s] = rec[s]
  BY <1>2
<1>4. DraftsTrue'
  BY <1>2, <1>3 DEF IInv, DraftsTrue, RecordAsDrafted
<1>5. WritesLocked'
  BY <1>2, <1>3, ProposalsAssumption
     DEF IInv, WritesLocked, Writing, ItemLocked, ProposalsAssumption
<1>6. EffectsPast'
  BY <1>2, <1>3 DEF IInv, EffectsPast
<1>7. CallsShown' /\ AppliedOnce'
  BY DEF IInv, CallsShown, AppliedOnce
<1> QED
  BY <1>1, <1>4, <1>5, <1>6, <1>7 DEF IInv

\* The row after a write of its value, and after its deletion.
Edited(old, n, v) == [old EXCEPT !.version = n, !.value = v]
Deleted(old, n) == [old EXCEPT !.version = n, !.deleted = TRUE]

LEMMA RowChange ==
    ASSUME NEW old \in Row, NEW n \in Nat, NEW v \in Values
    PROVE  /\ Edited(old, n, v) \in Row
           /\ Edited(old, n, v).version = n /\ Edited(old, n, v).value = v
           /\ Deleted(old, n) \in Row /\ Deleted(old, n).version = n
BY DEF Row, Edited, Deleted

LEMMA EditStep ==
    ASSUME IInv, NEW r \in Records, NEW v \in Values, Edit(r, v) \/ Delete(r)
    PROVE  IInv'
<1>1. rec[r] \in Row /\ rec[r].version \in Nat
  BY DEF IInv, TypeOK, Row
<1>2. CASE Edit(r, v)
  <2> DEFINE row == Edited(rec[r], rec[r].version + 1, v)
  <2>1. row \in Row /\ row.version = rec[r].version + 1
    <3>1. rec[r].version + 1 \in Nat
      BY <1>1
    <3> QED
      BY <1>1, <3>1, RowChange
  <2>2. /\ lock[r] = None /\ rec' = [rec EXCEPT ![r] = row]
        /\ UNCHANGED <<lock, chain, prop, late, effects, pc, call>>
    BY <1>2 DEF Edit, Edited
  <2> HIDE DEF row
  <2> QED
    BY <2>1, <2>2, ChangeStep
<1>3. CASE Delete(r)
  <2> DEFINE row == Deleted(rec[r], rec[r].version + 1)
  <2>1. row \in Row /\ row.version = rec[r].version + 1
    <3>1. rec[r].version + 1 \in Nat
      BY <1>1
    <3> QED
      BY <1>1, <3>1, RowChange
  <2>2. /\ lock[r] = None /\ rec' = [rec EXCEPT ![r] = row]
        /\ UNCHANGED <<lock, chain, prop, late, effects, pc, call>>
    BY <1>3 DEF Delete, Deleted
  <2> HIDE DEF row
  <2> QED
    BY <2>1, <2>2, ChangeStep
<1> QED
  BY <1>2, <1>3

\* What a commit finds: its own lock, and for an apply a change not yet made.
LEMMA CommitSees ==
    ASSUME IInv, NEW t \in Requests, pc[t] = "ready", call[t].op = "apply"
    PROVE  LET p == call[t].p
               r == prop[p].rec
           IN  /\ lock[r] = t /\ effects[p] = 0 /\ prop[p].status # "NONE"
               /\ rec[r].version = prop[p].expected
               /\ rec[r].value = prop[p].before /\ ~rec[r].deleted
<1>1. call[t].p \in Props /\ prop[call[t].p].rec \in Records
  BY DEF IInv, TypeOK
<1>2. ItemLocked(t) /\ prop[call[t].p].status # "NONE"
  BY DEF IInv, WritesLocked, Writing, CallsShown
<1>3. /\ rec[prop[call[t].p].rec].version \in Nat /\ effects[call[t].p] \in Nat
      /\ prop[call[t].p].expected \in Nat
  BY <1>1 DEF IInv, TypeOK, Row
<1> QED
  BY <1>1, <1>2, <1>3 DEF IInv, ItemLocked, DraftsTrue, RecordAsDrafted, EffectsPast

LEMMA CommitStep ==
    ASSUME IInv, NEW t \in Requests, Commit(t)
    PROVE  IInv'
<1> DEFINE p == call[t].p
           r == prop[p].rec
           s == IF call[t].op = "apply" THEN "APPLIED" ELSE "CANCELLED"
           row == Edited(rec[r], prop[p].expected + 1, prop[p].after)
<1>1. /\ pc[t] = "ready" /\ pc' = [pc EXCEPT ![t] = "ok"]
      /\ prop' = [prop EXCEPT ![p].status = s]
      /\ lock' = [q \in Records |-> IF lock[q] = t THEN None ELSE lock[q]]
      /\ chain' = IF chain = t THEN None ELSE chain
      /\ UNCHANGED <<late, call>>
  BY DEF Commit, ReleaseLocks
<1>2. /\ p \in Props /\ r \in Records /\ prop[p].status \notin {"NONE", "DRAFT"}
      /\ s \in Status /\ s \notin {"NONE", "DRAFT"} /\ prop[p].expected \in Nat
      /\ prop[p].after \in Values /\ rec[r] \in Row
      /\ rec \in [Records -> Row] /\ effects \in [Props -> Nat]
  BY <1>1 DEF IInv, TypeOK, CallsShown, Status
<1> HIDE DEF s
<1>3. /\ prop'[p].status = s
      /\ \A q \in Props :
           /\ q # p => prop'[q].status = prop[q].status
           /\ prop'[q].rec = prop[q].rec /\ prop'[q].expected = prop[q].expected
           /\ prop'[q].before = prop[q].before /\ prop'[q].after = prop[q].after
           /\ prop'[q].status # "NONE" <=> prop[q].status # "NONE"
           /\ prop[q].status \notin {"NONE", "DRAFT"} => prop'[q].status \notin {"NONE", "DRAFT"}
      /\ prop' \in [Props -> [status : Status, operation : Operations, rec : Records,
                              expected : Nat, before : Values, after : Values]]
  BY <1>1, <1>2, StatusStep
<1>4. row \in Row /\ row.version = prop[p].expected + 1
  <2>1. rec[r] \in Row /\ prop[p].after \in Values /\ prop[p].expected + 1 \in Nat
    BY <1>2
  <2> QED
    BY <2>1, RowChange
<1> DEFINE changed == call[t].op = "apply"
<1>5. \/ /\ changed /\ rec' = [rec EXCEPT ![r] = row] /\ effects' = [effects EXCEPT ![p] = @ + 1]
         /\ s = "APPLIED"
      \/ ~changed /\ rec' = rec /\ effects' = effects /\ s = "CANCELLED"
  BY DEF Commit, s, Edited
<1> HIDE DEF row
<1>6. changed => /\ lock[r] = t /\ effects[p] = 0 /\ rec[r].version = prop[p].expected
                 /\ rec'[r] = row /\ effects'[p] = 1
  <2>1. changed => lock[r] = t /\ effects[p] = 0 /\ rec[r].version = prop[p].expected
    BY <1>1, CommitSees
  <2> HIDE DEF p, r, changed
  <2>2. changed => rec'[r] = row /\ effects'[p] = effects[p] + 1
    BY <1>2, <1>5
  <2> QED
    BY <2>1, <2>2
<1> HIDE DEF p, r, changed
\* What the step does to the tables, whichever handler it is of.
<1>7. /\ \A q \in Records : /\ rec'[q] = rec[q] \/ (q = r /\ changed)
                            /\ rec[q].version \in Nat /\ rec'[q].version \in Nat
                            /\ rec'[q] # rec[q] => rec'[q].version = rec[q].version + 1
      /\ \A q \in Props : /\ effects'[q] = effects[q] \/ (q = p /\ changed)
                          /\ prop[q].rec \in Records /\ prop[q].expected \in Nat
  BY <1>2, <1>4, <1>5, <1>6 DEF IInv, TypeOK, Row
<1>8. TypeOK'
  <2>1. rec' \in [Records -> Row] /\ effects' \in [Props -> Nat]
    BY <1>2, <1>4, <1>5
  <2> QED
    BY <1>1, <1>3, <2>1 DEF IInv, TypeOK, Answers
<1>9. CallsShown'
  BY <1>1, <1>2, <1>3 DEF IInv, TypeOK, CallsShown, p
<1>10. DraftsTrue'
  BY <1>3, <1>7 DEF IInv, DraftsTrue, RecordAsDrafted
<1>11. WritesLocked'
  <2> SUFFICES ASSUME NEW u \in Requests
               PROVE  /\ pc'[u] \in {"located", "written"} => call'[u].op = "apply"
                      /\ Writing(u)' => ItemLocked(u)'
    BY DEF WritesLocked
  <2>1. CASE u = t
    BY <1>1, <2>1 DEF IInv, TypeOK, Writing
  <2>2. CASE u # t
    <3>1. pc'[u] = pc[u] /\ call'[u] = call[u] /\ call[u].p \in Props
      BY <1>1, <2>2 DEF IInv, TypeOK
    <3>2. Writing(u) => ItemLocked(u)
      BY DEF IInv, WritesLocked
    <3>3. ItemLocked(u) => ItemLocked(u)'
      BY <1>1, <1>3, <1>6, <1>7, <2>2, <3>1 DEF ItemLocked
    <3> QED
      BY <1>1, <3>1, <3>2, <3>3 DEF IInv, WritesLocked, Writing
  <2> QED
    BY <2>1, <2>2
<1>12. EffectsPast'
  <2> SUFFICES ASSUME NEW q \in Props, effects'[q] # 0
               PROVE  prop'[q].status # "NONE" /\ prop'[q].expected < rec'[prop'[q].rec].version
    BY DEF EffectsPast
  <2>1. CASE effects[q] # 0
    BY <1>3, <1>7, <2>1 DEF IInv, EffectsPast
  <2>2. CASE effects[q] = 0
    BY <1>2, <1>3, <1>4, <1>6, <1>7, <2>2 DEF r
  <2> QED
    BY <2>1, <2>2
<1>13. AppliedOnce'
  <2> SUFFICES ASSUME NEW q \in Props
               PROVE  /\ effects'[q] <= 1
                      /\ prop'[q].status = "APPLIED" => effects'[q] = 1
                      /\ prop'[q].status \in {"DRAFT", "PENDING"} => effects'[q] = 0
    BY DEF AppliedOnce
  <2>1. CASE q = p /\ changed
    BY <1>3, <1>5, <1>6, <2>1
  <2>2. CASE q = p /\ ~changed
    BY <1>2, <1>3, <1>5, <2>2 DEF IInv, AppliedOnce
  <2>3. CASE q # p
    BY <1>3, <1>7, <2>3 DEF IInv, AppliedOnce
  <2> QED
    BY <2>1, <2>2, <2>3
<1> QED
  BY <1>8, <1>9, <1>10, <1>11, <1>12, <1>13 DEF IInv

-----------------------------------------------------------------------------
LEMMA NextIInv == IInv /\ [Next]_vars => IInv'
<1> SUFFICES ASSUME IInv, [Next]_vars PROVE IInv'
  OBVIOUS
<1>1. CASE \E p \in Props, o \in Operations, r \in Records, v \in Values : Draft(p, o, r, v)
  BY <1>1, DraftStep
<1>2. CASE \E p \in Props : Publish(p) \/ Lapse(p)
  BY <1>2, PublishStep, LapseStep
<1>3. CASE \E r \in Records : Delete(r) \/ \E v \in Values : Edit(r, v)
  <2>1. PICK r \in Records : Delete(r) \/ \E v \in Values : Edit(r, v)
    BY <1>3
  <2>2. rec[r].value \in Values
    BY DEF IInv, TypeOK, Row
  <2> QED
    BY <2>1, <2>2, EditStep
<1>4. CASE \E t \in Requests, p \in Props, op \in {"apply", "cancel"} : Submit(t, op, p)
  BY <1>4, SubmitStep
<1>5. CASE \E t \in Requests : Handle(t) \/ Rollback(t)
  BY <1>5, LoadStep, LocateItemStep, GuardedUpdateStep, GuardedUpdateMissesStep, WriteAuditStep,
     CommitStep, RollbackStep DEF Handle
<1>6. CASE UNCHANGED vars
  BY <1>6 DEF vars, IInv, TypeOK, CallsShown, DraftsTrue, RecordAsDrafted, WritesLocked, Writing,
              ItemLocked, EffectsPast, AppliedOnce
<1> QED
  BY <1>1, <1>2, <1>3, <1>4, <1>5, <1>6 DEF Next

LEMMA AlwaysIInv == Spec => []IInv
BY InitIInv, NextIInv, PTL DEF Spec

\* The tables and the handlers keep their types.
THEOREM TypeCorrect == Spec => []TypeOK
<1>1. IInv => TypeOK
  BY DEF IInv
<1> QED
  BY <1>1, AlwaysIInv, PTL

\* However many calls race, the change of a proposal is committed at most once,
\* and an APPLIED proposal's change has been committed (apply_proposal).
THEOREM AppliedAtMostOnce == Spec => []AppliedOnce
<1>1. IInv => AppliedOnce
  BY DEF IInv
<1> QED
  BY <1>1, AlwaysIInv, PTL

\* A commit finds the record as the card showed it, whatever happened to it and
\* to the proposal since either was read (_apply_one_item, _guarded_update).
THEOREM AppliesAsShown == Spec => AppliesWhatWasShown
<1> DEFINE Shown(p) ==
      effects'[p] # effects[p] =>
        LET r == prop[p].rec
        IN  /\ rec[r].version = prop[p].expected
            /\ rec[r].value = prop[p].before
            /\ ~rec[r].deleted
            /\ rec'[r].value = prop[p].after
            /\ rec'[r].version = rec[r].version + 1
<1>1. IInv /\ [Next]_vars => [\A p \in Props : Shown(p)]_vars
  <2> SUFFICES ASSUME IInv, [Next]_vars, NEW p \in Props, effects'[p] # effects[p]
               PROVE  Shown(p)
    OBVIOUS
  <2>1. PICK t \in Requests : Commit(t)
    BY DEF Next, Draft, Publish, Edit, Delete, Lapse, Submit, Handle, Load, LocateItem,
           GuardedUpdate, GuardedUpdateMisses, WriteAudit, Rollback, vars
  <2> DEFINE r == prop[p].rec
             row == Edited(rec[r], prop[p].expected + 1, prop[p].after)
  <2>2. /\ pc[t] = "ready" /\ call[t].op = "apply" /\ call[t].p = p
        /\ rec' = [rec EXCEPT ![r] = row]
    BY <2>1 DEF Commit, IInv, TypeOK, Edited
  <2>3. /\ r \in Records /\ rec[r] \in Row /\ prop[p].expected \in Nat /\ prop[p].after \in Values
        /\ rec \in [Records -> Row]
    BY DEF IInv, TypeOK
  <2>4. row.version = prop[p].expected + 1 /\ row.value = prop[p].after
    <3> SUFFICES ASSUME NEW old \in Row, NEW n \in Nat, NEW v \in Values
                 PROVE  Edited(old, n, v).version = n /\ Edited(old, n, v).value = v
      BY <2>3
    <3> QED
      BY RowChange
  <2> HIDE DEF row
  <2>5. rec'[r] = row
    BY <2>2, <2>3
  <2>6. /\ rec[r].version = prop[p].expected
        /\ rec[r].value = prop[p].before /\ ~rec[r].deleted
    BY <2>2, CommitSees
  <2> QED
    BY <2>4, <2>5, <2>6
<1> QED
  BY <1>1, AlwaysIInv, PTL DEF Spec, AppliesWhatWasShown
=============================================================================
