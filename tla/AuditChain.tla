----------------------------- MODULE AuditChain -----------------------------
(***************************************************************************)
(* The hash chain of audit_logs: the trigger that links a new row          *)
(* (alembic/versions 0020, 0021, 0023) and the nightly job that verifies   *)
(* the chain and anchors its end (tasks/audit_chain_verify.py).            *)
(*                                                                         *)
(* A writer is a connection that runs one transaction after another, each  *)
(* with any number of audit rows.  An INSERT draws the id first, and then  *)
(* its trigger waits for the chain lock, which is kept to the end of the   *)
(* transaction.  The verifier reads under READ COMMITTED: each of its      *)
(* statements sees what is committed when it begins.  There is one         *)
(* verifier at a time, run as often as one likes.                          *)
(*                                                                         *)
(* From outside, the newest rows may get lost, and so may the one row of   *)
(* audit_chain_head.  A hash is collision free: it is modelled by the      *)
(* sequence of all it depends on, where the id stands for the content of   *)
(* its row.  The trigger function is VOLATILE, so that each statement in   *)
(* it has a snapshot of its own.  MaxId bounds the ids drawn.              *)
(***************************************************************************)
EXTENDS Naturals, Sequences, FiniteSets

CONSTANTS Writers, None, MaxId

ASSUME AuditChainAssumption == None \notin Writers /\ MaxId \in Nat

VARIABLES
    log,       \* the committed rows
    head,      \* the committed row of audit_chain_head: a set of at most one
    lock,      \* the writer whose transaction holds the chain lock
    nextId,    \* the sequence behind audit_logs.id
    pc,        \* writer -> where its transaction stands
    drawn,     \* writer -> the id its INSERT has drawn
    pending,   \* writer -> the rows its transaction has inserted
    tip,       \* writer -> audit_chain_head as its transaction has updated it
    anchor,    \* the row of audit_chain_anchor: a set of at most one
    verify,    \* where the verifier stands, what it counted, if all matched, and
               \* (history) what had been lost when it began
    loss       \* history: whether rows have been lost, and if an anchor covered them

vars == <<log, head, lock, nextId, pc, drawn, pending, tip, anchor, verify, loss>>

writerVars == <<lock, nextId, pc, drawn, pending, tip>>

-----------------------------------------------------------------------------
Hash == Seq(Nat)
NoHash == <<>>
RowType == [seq : Nat \ {0}, id : Nat, prev : Hash, hash : Hash]
Tip == [seq : Nat, hash : Hash]
Start == [seq |-> 0, hash |-> NoHash]
Loss == {"none", "tail", "anchored"}

TypeOK ==
    /\ log \subseteq RowType /\ IsFiniteSet(log)
    /\ head \subseteq Tip
    /\ lock \in Writers \union {None}
    /\ nextId \in Nat
    /\ pc \in [Writers -> {"idle", "waiting", "open", "refused"}]
    /\ drawn \in [Writers -> Nat]
    /\ pending \in [Writers -> SUBSET RowType] /\ \A w \in Writers : IsFiniteSet(pending[w])
    /\ tip \in [Writers -> Tip]
    /\ anchor \subseteq [last : Nat \ {0}, hash : Hash, count : Nat]
    /\ verify \in [pc : {"idle", "streamed", "passed", "clean", "alarm"},
                   count : Nat, ok : BOOLEAN, loss : Loss]
    /\ loss \in Loss

Init ==
    /\ log = {} /\ head = {Start} /\ lock = None /\ nextId = 1
    /\ pc = [w \in Writers |-> "idle"]
    /\ drawn = [w \in Writers |-> 0]
    /\ pending = [w \in Writers |-> {}]
    /\ tip = [w \in Writers |-> Start]
    /\ anchor = {}
    /\ verify = [pc |-> "idle", count |-> 0, ok |-> TRUE, loss |-> "none"]
    /\ loss = "none"

-----------------------------------------------------------------------------
(* Appending *)

\* ORDER BY chain_seq DESC LIMIT 1
LastRow == CHOOSE r \in log : \A s \in log : s.seq <= r.seq

\* What the trigger puts in place of a missing head row.
MutantSeedFromZero == Start               \* mutant: as before migration 0023
SeedFromLog == IF log = {} THEN Start ELSE [seq |-> LastRow.seq, hash |-> LastRow.hash]

CommittedTip == IF head = {} THEN SeedFromLog ELSE CHOOSE t \in head : TRUE

MutantNoLock(w) == TRUE                   \* mutant: the trigger takes no lock
Grantable(w) == lock \in {None, w}

\* The head row as SELECT ... FOR UPDATE returns it to w.
HeadFor(w) == IF lock = w THEN tip[w] ELSE CommittedTip

NextSeq(t) == t.seq + 1

Linked(t, i) ==
    [seq |-> NextSeq(t), id |-> i, prev |-> t.hash, hash |-> Append(t.hash, i)]

\* The default of id is evaluated before the trigger runs.
DrawId(w) ==
    /\ pc[w] \in {"idle", "open"}
    /\ nextId <= MaxId
    /\ drawn' = [drawn EXCEPT ![w] = nextId]
    /\ nextId' = nextId + 1
    /\ pc' = [pc EXCEPT ![w] = "waiting"]
    /\ UNCHANGED <<log, head, lock, pending, tip, anchor, verify, loss>>

\* ux_audit_logs_chain_seq
SeqTaken(n) == \E r \in log : r.seq = n

\* An exception ends the transaction with ROLLBACK.
RollBack(w, outcome) ==
    /\ lock' = IF lock = w THEN None ELSE lock
    /\ pending' = [pending EXCEPT ![w] = {}]
    /\ pc' = [pc EXCEPT ![w] = outcome]
    /\ UNCHANGED <<log, head, nextId, drawn, tip, anchor, verify, loss>>

\* The trigger, and the index check after it: a number that is taken refuses the
\* row, and with it the change that has to be audited.
Insert(w) ==
    /\ pc[w] = "waiting"
    /\ Grantable(w)
    /\ LET row == Linked(HeadFor(w), drawn[w])
       IN  IF SeqTaken(row.seq) THEN RollBack(w, "refused")
           ELSE /\ pending' = [pending EXCEPT ![w] = @ \union {row}]
                /\ tip' = [tip EXCEPT ![w] = [seq |-> row.seq, hash |-> row.hash]]
                /\ lock' = w
                /\ pc' = [pc EXCEPT ![w] = "open"]
                /\ UNCHANGED <<log, head, nextId, drawn, anchor, verify, loss>>

Commit(w) ==
    /\ pc[w] = "open"
    /\ log' = log \union pending[w]
    /\ head' = {tip[w]}
    /\ lock' = None
    /\ pending' = [pending EXCEPT ![w] = {}]
    /\ pc' = [pc EXCEPT ![w] = "idle"]
    /\ UNCHANGED <<nextId, drawn, tip, anchor, verify, loss>>

\* Anything else in the request, the connection or the process fails.
Fail(w) ==
    /\ pc[w] \in {"waiting", "open"}
    /\ RollBack(w, "idle")

-----------------------------------------------------------------------------
(* Verifying *)

\* LAG(row_hash) OVER (ORDER BY chain_seq)
MutantOrder(r, s) == r.id < s.id          \* mutant: as before migration 0021
Before(r, s) == r.seq < s.seq

Lag(r) ==
    LET earlier == {s \in log : Before(s, r)}
    IN  IF earlier = {} THEN NoHash
        ELSE (CHOOSE s \in earlier : \A t \in earlier : t = s \/ Before(t, s)).hash

HashMatches(r) == r.hash = Append(Lag(r), r.id)
LinkMatches(r) == r.prev = Lag(r)

\* The streamed query: one snapshot for all rows.
Stream ==
    /\ verify.pc \in {"idle", "clean", "alarm"}
    /\ verify' = [pc |-> "streamed", count |-> Cardinality(log),
                  ok |-> \A r \in log : HashMatches(r) /\ LinkMatches(r), loss |-> loss]
    /\ UNCHANGED <<log, head, writerVars, anchor, loss>>

\* _check_anchor, in statements of their own.
MutantCountOnly(a) == verify.count < a.count       \* mutant
Truncated(a) ==
    \/ verify.count < a.count
    \/ ~\E r \in log : r.seq = a.last /\ r.hash = a.hash

CheckAnchor ==
    /\ verify.pc = "streamed"
    /\ verify' = [verify EXCEPT !.pc =
                    IF verify.ok /\ \A a \in anchor : ~Truncated(a) THEN "passed" ELSE "alarm"]
    /\ UNCHANGED <<log, head, writerVars, anchor, loss>>

\* _record_anchor: the end of the log as it is now, the count as it was streamed.
RecordAnchor ==
    /\ verify.pc = "passed"
    /\ anchor' = IF log = {} THEN anchor
                 ELSE {[last |-> LastRow.seq, hash |-> LastRow.hash, count |-> verify.count]}
    /\ verify' = [verify EXCEPT !.pc = "clean"]
    /\ UNCHANGED <<log, head, writerVars, loss>>

\* The job dies: nothing was written before its commit.
Abort ==
    /\ verify.pc \in {"streamed", "passed"}
    /\ verify' = [verify EXCEPT !.pc = "idle"]
    /\ UNCHANGED <<log, head, writerVars, anchor, loss>>

-----------------------------------------------------------------------------
(* Losses *)

\* The rows after the n-th are removed; the head row stays.  A loss between the
\* check of the old anchor and the write of the new one is not counted as of
\* anchored rows, because the new anchor is of the log as it is then.
Truncate(n) ==
    /\ \E r \in log : r.seq = n + 1
    /\ log' = {r \in log : r.seq <= n}
    /\ loss' = IF loss = "anchored" \/ (verify.pc # "passed" /\ \E a \in anchor : n < a.last)
               THEN "anchored" ELSE "tail"
    /\ UNCHANGED <<head, writerVars, anchor, verify>>

\* The head row is removed; that waits for the transaction that has updated it.
LoseHead ==
    /\ lock = None
    /\ head # {}
    /\ head' = {}
    /\ UNCHANGED <<log, writerVars, anchor, verify, loss>>

Next ==
    \/ \E w \in Writers : DrawId(w) \/ Insert(w) \/ Commit(w) \/ Fail(w)
    \/ Stream \/ CheckAnchor \/ RecordAnchor \/ Abort
    \/ LoseHead
    \/ \E n \in 0..MaxId : Truncate(n)

Spec == Init /\ [][Next]_vars

-----------------------------------------------------------------------------
(* Properties *)

\* The rows of L are numbered 1 to t.seq without a gap or a repetition, each is
\* linked to the one before it, and t is the last.
Chain(L, t) ==
    /\ \A r \in L : r.seq <= t.seq /\ r.hash = Append(r.prev, r.id)
    /\ \A k \in 1..t.seq : \E r \in L : r.seq = k
    /\ \A r, s \in L : r.seq = s.seq => r = s
    /\ \A r \in L : r.seq = 1 => r.prev = NoHash
    /\ \A r, s \in L : s.seq = r.seq + 1 => s.prev = r.hash
    /\ IF L = {} THEN t = Start
       ELSE \E r \in L : r.seq = t.seq /\ r.hash = t.hash

\* However many transactions append at once, roll back, or find the head row
\* gone, the committed log is one chain that ends at the head (migrations 0020,
\* 0021 and 0023).
ChainLinked == loss = "none" => Chain(log, CommittedTip)

\* No transaction is ever refused its audit row for a number already taken, not
\* even when the head row was lost (migration 0023).
NeverRefused == \A w \in Writers : pc[w] # "refused"

\* A log that has lost nothing is never reported, whatever is appended between
\* the statements of the verifier (tests/test_audit_chain.py, a verifiable chain).
NoFalseAlarm == verify.pc = "alarm" => loss # "none"

\* Once a row that an anchor covers is gone, no verification that begins
\* afterwards is clean, whatever has been appended since (_check_anchor).
TruncationIsCaught == verify.pc = "clean" => verify.loss # "anchored"
=============================================================================
