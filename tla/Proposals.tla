----------------------------- MODULE Proposals -----------------------------
(***************************************************************************)
(* The life of an AI proposal (ai/tools/propose_tools.py, ai/proposals.py):*)
(* the assistant drafts a change to one record, the owner applies or       *)
(* cancels it within ten minutes.  Apply and cancel load the proposal      *)
(* without a lock, decide on the status they loaded and write their own    *)
(* status when they commit.  An apply's change goes through the guarded    *)
(* write of RecordStore, here the steps from Locate to Commit; an edit by  *)
(* anybody else is the one atomic step that RecordStore implements.        *)
(*                                                                         *)
(* Every propose tool drafts exactly one item.  A member of Requests is    *)
(* one call of apply or cancel; MaxVersion bounds the edits of others.     *)
(***************************************************************************)
EXTENDS Naturals

CONSTANTS Records, Values, Props, Requests, None, MaxVersion

ASSUME ProposalsAssumption == None \notin Records /\ None \notin Requests /\ MaxVersion \in Nat

VARIABLES
    rec,      \* record id -> its committed row
    lock,     \* record id -> the request whose uncommitted write holds it
    chain,    \* the request that holds the audit chain's lock
    prop,     \* proposal id -> its row and item; NONE and DRAFT are not visible
    late,     \* the proposals whose expires_at has passed
    effects,  \* proposal id -> how often its change has been committed
    pc,       \* request -> where its handler stands, or its answer
    call      \* request -> [op, p]

vars == <<rec, lock, chain, prop, late, effects, pc, call>>

Row == [version : Nat, value : Values, deleted : BOOLEAN]
Status == {"NONE", "DRAFT", "PENDING", "APPLIED", "CANCELLED", "EXPIRED"}
Operations == {"UPDATE", "STATUS_CHANGE"}
Answers == {"ok", "conflict", "stale", "expired", "gone", "invalid", "failed"}
Holding == {"written", "ready"}

TypeOK ==
    /\ rec \in [Records -> Row]
    /\ lock \in [Records -> Requests \union {None}]
    /\ chain \in Requests \union {None}
    /\ prop \in [Props -> [status : Status, operation : Operations, rec : Records,
                           expected : Nat, before : Values, after : Values]]
    /\ late \subseteq Props
    /\ effects \in [Props -> Nat]
    /\ pc \in [Requests -> {"idle", "submitted", "loaded", "located"} \union Holding \union Answers]
    /\ call \in [Requests -> [op : {"apply", "cancel"}, p : Props]]

Init ==
    /\ \E v \in Values : rec = [r \in Records |-> [version |-> 1, value |-> v, deleted |-> FALSE]]
    /\ lock = [r \in Records |-> None]
    /\ chain = None
    /\ \E r \in Records, v \in Values :
         prop = [p \in Props |-> [status |-> "NONE", operation |-> "UPDATE", rec |-> r,
                                  expected |-> 0, before |-> v, after |-> v]]
    /\ late = {}
    /\ effects = [p \in Props |-> 0]
    /\ pc = [t \in Requests |-> "idle"]
    /\ \E p \in Props : call = [t \in Requests |-> [op |-> "apply", p |-> p]]

-----------------------------------------------------------------------------
(* The assistant, other editors, and the clock *)

\* propose_update, propose_status_change: the handle gives the version and the
\* before value.  Neither asks that the after value be another one.
Draft(p, o, r, v) ==
    /\ prop[p].status = "NONE"
    /\ ~rec[r].deleted
    /\ prop' = [prop EXCEPT ![p] = [status |-> "DRAFT", operation |-> o, rec |-> r,
                                    expected |-> rec[r].version,
                                    before |-> rec[r].value, after |-> v]]
    /\ UNCHANGED <<rec, lock, chain, late, effects, pc, call>>

\* The chat request commits, and the card reaches the owner.
Publish(p) ==
    /\ prop[p].status = "DRAFT"
    /\ prop' = [prop EXCEPT ![p].status = "PENDING"]
    /\ UNCHANGED <<rec, lock, chain, late, effects, pc, call>>

Edit(r, v) ==
    /\ lock[r] = None /\ chain = None
    /\ ~rec[r].deleted
    /\ rec[r].version < MaxVersion
    /\ rec' = [rec EXCEPT ![r] = [@ EXCEPT !.version = rec[r].version + 1, !.value = v]]
    /\ UNCHANGED <<lock, chain, prop, late, effects, pc, call>>

Delete(r) ==
    /\ lock[r] = None /\ chain = None
    /\ ~rec[r].deleted
    /\ rec[r].version < MaxVersion
    /\ rec' = [rec EXCEPT ![r] = [@ EXCEPT !.version = rec[r].version + 1, !.deleted = TRUE]]
    /\ UNCHANGED <<lock, chain, prop, late, effects, pc, call>>

\* PROPOSAL_TTL_MINUTES pass.
Lapse(p) ==
    /\ prop[p].status # "NONE"
    /\ p \notin late
    /\ late' = late \union {p}
    /\ UNCHANGED <<rec, lock, chain, prop, effects, pc, call>>

-----------------------------------------------------------------------------
(* Apply and cancel *)

Submit(t, op, p) ==
    /\ pc[t] = "idle"
    /\ prop[p].status \notin {"NONE", "DRAFT"}
    /\ pc' = [pc EXCEPT ![t] = "submitted"]
    /\ call' = [call EXCEPT ![t] = [op |-> op, p |-> p]]
    /\ UNCHANGED <<rec, lock, chain, prop, late, effects>>

\* What both handlers decide on the proposal they load.  For an expired one they
\* set EXPIRED on the object and raise, and the exception rolls that back.
Verdict(op, status, isLate) ==
    CASE op = "cancel" /\ status = "CANCELLED" -> "ok"
      [] ~(op = "cancel" /\ status = "CANCELLED") /\ status # "PENDING" -> "conflict"
      [] status = "PENDING" /\ isLate -> "expired"
      [] OTHER -> "loaded"

Load(t) ==
    /\ pc[t] = "submitted"
    /\ pc' = [pc EXCEPT ![t] = Verdict(call[t].op, prop[call[t].p].status, call[t].p \in late)]
    /\ UNCHANGED <<rec, lock, chain, prop, late, effects, call>>

\* _apply_one_item reads the record and compares it with the version the
\* proposal was drafted from.  A status change must change exactly one field.
StillAsDrafted(row, item) ==
    IF row.deleted THEN "gone"
    ELSE IF row.version # item.expected THEN "stale"
    ELSE IF item.operation = "STATUS_CHANGE" /\ item.before = item.after THEN "invalid"
    ELSE "located"

LocateItem(t) ==
    /\ pc[t] = "loaded"
    /\ call[t].op = "apply"
    /\ LET item == prop[call[t].p]
       IN  pc' = [pc EXCEPT ![t] = StillAsDrafted(rec[item.rec], item)]
    /\ UNCHANGED <<rec, lock, chain, prop, late, effects, call>>

\* The UPDATE's WHERE clause, with the version the handle had.
MutantUnguarded(row, item) == TRUE      \* mutant
VersionMatches(row, item) == row.version = item.expected

GuardedUpdate(t) ==
    /\ pc[t] = "located"
    /\ LET item == prop[call[t].p]
       IN  /\ VersionMatches(rec[item.rec], item)
           /\ lock[item.rec] = None
           /\ lock' = [lock EXCEPT ![item.rec] = t]
    /\ pc' = [pc EXCEPT ![t] = "written"]
    /\ UNCHANGED <<rec, chain, prop, late, effects, call>>

GuardedUpdateMisses(t) ==
    /\ pc[t] = "located"
    /\ LET item == prop[call[t].p] IN ~VersionMatches(rec[item.rec], item)
    /\ pc' = [pc EXCEPT ![t] = "conflict"]
    /\ UNCHANGED <<rec, lock, chain, prop, late, effects, call>>

\* The audit entry of the change, or of the cancellation.
WriteAudit(t) ==
    /\ pc[t] = IF call[t].op = "apply" THEN "written" ELSE "loaded"
    /\ chain = None
    /\ chain' = t
    /\ pc' = [pc EXCEPT ![t] = "ready"]
    /\ UNCHANGED <<rec, lock, prop, late, effects, call>>

ReleaseLocks(t) ==
    /\ lock' = [r \in Records |-> IF lock[r] = t THEN None ELSE lock[r]]
    /\ chain' = IF chain = t THEN None ELSE chain

\* Mutant: the status is committed, the record's change is lost with its session.
CommitStatusOnly(t) ==
    /\ pc[t] = "ready"
    /\ prop' = [prop EXCEPT ![call[t].p].status =
                  IF call[t].op = "apply" THEN "APPLIED" ELSE "CANCELLED"]
    /\ ReleaseLocks(t)
    /\ pc' = [pc EXCEPT ![t] = "ok"]
    /\ UNCHANGED <<rec, effects, late, call>>

\* The flush at commit writes the status by primary key, whatever it is by now.
Commit(t) ==
    /\ pc[t] = "ready"
    /\ LET p == call[t].p
           item == prop[p]
           row == rec[item.rec]
       IN  IF call[t].op = "apply"
           THEN /\ rec' = [rec EXCEPT ![item.rec] =
                             [row EXCEPT !.version = item.expected + 1, !.value = item.after]]
                /\ effects' = [effects EXCEPT ![p] = @ + 1]
                /\ prop' = [prop EXCEPT ![p].status = "APPLIED"]
           ELSE /\ prop' = [prop EXCEPT ![p].status = "CANCELLED"]
                /\ UNCHANGED <<rec, effects>>
    /\ ReleaseLocks(t)
    /\ pc' = [pc EXCEPT ![t] = "ok"]
    /\ UNCHANGED <<late, call>>

Rollback(t) ==
    /\ pc[t] \in {"submitted", "loaded", "located"} \union Holding
    /\ ReleaseLocks(t)
    /\ pc' = [pc EXCEPT ![t] = "failed"]
    /\ UNCHANGED <<rec, prop, late, effects, call>>

Handle(t) ==
    \/ Load(t)
    \/ LocateItem(t)
    \/ GuardedUpdate(t)
    \/ GuardedUpdateMisses(t)
    \/ WriteAudit(t)
    \/ Commit(t)

Next ==
    \/ \E p \in Props, o \in Operations, r \in Records, v \in Values : Draft(p, o, r, v)
    \/ \E p \in Props : Publish(p) \/ Lapse(p)
    \/ \E r \in Records : Delete(r) \/ \E v \in Values : Edit(r, v)
    \/ \E t \in Requests, p \in Props, op \in {"apply", "cancel"} : Submit(t, op, p)
    \/ \E t \in Requests : Handle(t) \/ Rollback(t)

Spec == Init /\ [][Next]_vars

-----------------------------------------------------------------------------
(* Properties *)

\* The change of a proposal is committed at most once, whatever the number of
\* concurrent calls, and the status APPLIED is never there without it
\* (apply_proposal: "No partial apply, ever").
AppliedOnce ==
    \A p \in Props :
        /\ effects[p] <= 1
        /\ prop[p].status = "APPLIED" => effects[p] = 1
        /\ prop[p].status \in {"DRAFT", "PENDING"} => effects[p] = 0

\* The owner's approval changes exactly what the card showed: when the change
\* is committed the record still holds the before value, at the version it was
\* drafted from, and then holds the after value, one version up.
AppliesWhatWasShown ==
    [][\A p \in Props :
         effects'[p] # effects[p] =>
           LET r == prop[p].rec
           IN  /\ rec[r].version = prop[p].expected
               /\ rec[r].value = prop[p].before
               /\ ~rec[r].deleted
               /\ rec'[r].value = prop[p].after
               /\ rec'[r].version = rec[r].version + 1]_vars

\* A cancelled proposal has left its record untouched (docs/API.md on cancel).
\* Does not hold: an apply and a cancel that both load PENDING both commit.
CancelledIsUntouched ==
    \A p \in Props : prop[p].status = "CANCELLED" => effects[p] = 0
=============================================================================
