-------------------------- MODULE AuditChain_proof --------------------------
(***************************************************************************)
(* Proofs about AuditChain for any set of writers and any number of rows.  *)
(***************************************************************************)
EXTENDS AuditChain, FiniteSetTheorems, WellFoundedInduction, TLAPS

UpTo(L, n) == \A r \in L : r.seq <= n

-----------------------------------------------------------------------------
(* The last row *)

\* A bounded log has a last row.
LEMMA LastExists ==
    ASSUME NEW L \in SUBSET RowType, L # {}, NEW n \in Nat, UpTo(L, n)
    PROVE  \E r \in L : \A s \in L : s.seq <= r.seq
<1> DEFINE B == {m \in Nat : UpTo(L, m)}
<1>1. B \subseteq Nat /\ B # {}
  OBVIOUS
<1> DEFINE R == {p \in Nat \X Nat : p[1] < p[2]}
<1>2. PICK m \in B : \A k \in B : <<k, m>> \notin R
  <2>1. IsWellFoundedOn(R, Nat)
    BY NatLessThanWellFounded DEF OpToRel
  <2> HIDE DEF B, R
  <2> QED
    BY <1>1, <2>1, WFMin
<1>3. \A k \in B : ~ (k < m)
  BY <1>1, <1>2
<1>4. m \in Nat /\ \A r \in L : r.seq \in Nat \ {0} /\ r.seq <= m
  BY DEF UpTo, RowType
<1>5. m # 0
  BY <1>4
<1>6. \E r \in L : r.seq = m
  <2> SUFFICES ASSUME \A r \in L : r.seq # m PROVE FALSE
    OBVIOUS
  <2>1. m - 1 \in B
    BY <1>4, <1>5 DEF UpTo
  <2> QED
    BY <2>1, <1>3, <1>4
<1> QED
  BY <1>4, <1>6

LEMMA LastRowFact ==
    ASSUME log \in SUBSET RowType, log # {}, NEW n \in Nat, UpTo(log, n)
    PROVE  LastRow \in log /\ UpTo(log, LastRow.seq)
BY LastExists DEF LastRow, UpTo

LEMMA SeedFact ==
    ASSUME log \in SUBSET RowType, NEW n \in Nat, UpTo(log, n)
    PROVE  SeedFromLog \in Tip /\ UpTo(log, SeedFromLog.seq)
<1>1. CASE log = {}
  BY <1>1 DEF SeedFromLog, Start, Tip, NoHash, Hash, UpTo
<1>2. CASE log # {}
  <2>1. LastRow \in log /\ LastRow \in RowType /\ UpTo(log, LastRow.seq)
    BY <1>2, LastRowFact
  <2>2. LastRow.seq \in Nat /\ LastRow.hash \in Hash
    BY <2>1 DEF RowType
  <2> QED
    BY <1>2, <2>1, <2>2 DEF SeedFromLog, Tip
<1> QED
  BY <1>1, <1>2

\* A chain that ends in t is resumed from t even when the head row is lost.
LEMMA SeedResumesChain ==
    ASSUME log \in SUBSET RowType, NEW t \in Tip, Chain(log, t)
    PROVE  SeedFromLog = t
<1>0. t.seq \in Nat /\ t = [seq |-> t.seq, hash |-> t.hash]
  BY DEF Tip
<1>1. CASE log = {}
  BY <1>1 DEF SeedFromLog, Chain
<1>2. CASE log # {}
  <2>1. UpTo(log, t.seq)
    BY DEF Chain, UpTo
  <2>2. LastRow \in log /\ UpTo(log, LastRow.seq)
    BY <1>0, <1>2, <2>1, LastRowFact
  <2>3. PICK r \in log : r.seq = t.seq /\ r.hash = t.hash
    BY <1>2 DEF Chain
  <2>4. LastRow.seq = t.seq
    <3>1. LastRow.seq \in Nat
      BY <2>2 DEF RowType
    <3> QED
      BY <1>0, <2>1, <2>2, <2>3, <3>1 DEF UpTo
  <2>5. LastRow = r
    BY <2>2, <2>3, <2>4 DEF Chain
  <2> QED
    BY <1>0, <1>2, <2>3, <2>5 DEF SeedFromLog
<1> QED
  BY <1>1, <1>2

-----------------------------------------------------------------------------
(* The chain grows at its end *)

LEMMA LinkedFact ==
    ASSUME NEW t \in Tip, NEW i \in Nat
    PROVE  /\ Linked(t, i) \in RowType
           /\ Linked(t, i).seq = t.seq + 1
           /\ Linked(t, i).id = i
           /\ Linked(t, i).prev = t.hash
           /\ Linked(t, i).hash = Append(t.hash, i)
           /\ [seq |-> Linked(t, i).seq, hash |-> Linked(t, i).hash] \in Tip
<1>1. t.seq \in Nat /\ t.hash \in Hash
  BY DEF Tip
<1>2. Append(t.hash, i) \in Hash
  BY <1>1 DEF Hash
<1> QED
  BY <1>1, <1>2 DEF Linked, NextSeq, RowType, Tip

LEMMA ChainExtends ==
    ASSUME NEW L \in SUBSET RowType, NEW t \in Tip, NEW i \in Nat, Chain(L, t)
    PROVE  Chain(L \union {Linked(t, i)},
                 [seq |-> Linked(t, i).seq, hash |-> Linked(t, i).hash])
<1> DEFINE x == Linked(t, i)
           M == L \union {x}
           u == [seq |-> x.seq, hash |-> x.hash]
<1>1. /\ x.seq = t.seq + 1 /\ x.id = i /\ x.prev = t.hash /\ x.hash = Append(t.hash, i)
      /\ t.seq \in Nat
  BY LinkedFact DEF Tip
<1>2. \A r \in L : r.seq \in Nat \ {0} /\ r.seq <= t.seq /\ r.seq # x.seq
  BY <1>1 DEF Chain, RowType
<1> HIDE DEF x
<1>3. \A r \in M : r.seq <= u.seq /\ r.hash = Append(r.prev, r.id)
  <2>1. \A r \in L : r.seq <= u.seq
    BY <1>1, <1>2
  <2>2. \A r \in L : r.hash = Append(r.prev, r.id)
    BY DEF Chain
  <2>3. x.seq <= u.seq /\ x.hash = Append(x.prev, x.id)
    BY <1>1
  <2> QED
    BY <2>1, <2>2, <2>3
<1>4. \A k \in 1..u.seq : \E r \in M : r.seq = k
  <2> SUFFICES ASSUME NEW k \in 1..u.seq PROVE \E r \in M : r.seq = k
    OBVIOUS
  <2>1. k = x.seq \/ k \in 1..t.seq
    BY <1>1
  <2> QED
    BY <2>1 DEF Chain
<1>5. \A r, s \in M : r.seq = s.seq => r = s
  BY <1>2 DEF Chain
<1>6. L = {} => t = Start
  BY DEF Chain
<1>7. \A r \in M : r.seq = 1 => r.prev = NoHash
  <2>1. x.seq = 1 => L = {}
    BY <1>1, <1>2
  <2> QED
    BY <1>1, <1>6, <2>1 DEF Chain, Start
<1>8. \A r, s \in M : s.seq = r.seq + 1 => s.prev = r.hash
  <2> SUFFICES ASSUME NEW r \in M, NEW s \in M, s.seq = r.seq + 1 PROVE s.prev = r.hash
    OBVIOUS
  <2>1. r \in L
    BY <1>1, <1>2
  <2>2. CASE s \in L
    BY <2>1, <2>2 DEF Chain
  <2>3. CASE s = x
    <3>1. r.seq = t.seq
      BY <1>1, <1>2, <2>1, <2>3
    <3>2. PICK q \in L : q.seq = t.seq /\ q.hash = t.hash
      BY <2>1 DEF Chain
    <3> QED
      BY <1>1, <2>1, <2>3, <3>1, <3>2 DEF Chain
  <2> QED
    BY <2>2, <2>3
<1> QED
  BY <1>3, <1>4, <1>5, <1>7, <1>8 DEF Chain, x

-----------------------------------------------------------------------------
(* Nobody's number is taken *)

LogBounded == \E n \in Nat : UpTo(log, n)

\* Uncommitted rows are those of the holder of the chain lock.
Held ==
    \A w \in Writers : (pc[w] = "open" => lock = w) /\ (lock # w => pending[w] = {})

\* No row has a number above the one the next row is linked to, whatever is lost.
HeadIsLast ==
    /\ head = {} \/ \E t \in Tip : head = {t} /\ UpTo(log, t.seq)
    /\ \A w \in Writers : lock = w => UpTo(log \union pending[w], tip[w].seq)

BInv == TypeOK /\ LogBounded /\ Held /\ HeadIsLast /\ NeverRefused

LEMMA CommittedTipFact ==
    ASSUME BInv
    PROVE  CommittedTip \in Tip /\ UpTo(log, CommittedTip.seq)
<1>1. CASE head = {}
  <2>1. PICK n \in Nat : UpTo(log, n)
    BY DEF BInv, LogBounded
  <2> QED
    BY <1>1, <2>1, SeedFact DEF CommittedTip, BInv, TypeOK
<1>2. CASE head # {}
  BY <1>2 DEF CommittedTip, BInv, HeadIsLast
<1> QED
  BY <1>1, <1>2

LEMMA HeadForFact ==
    ASSUME BInv, NEW w \in Writers, Grantable(w)
    PROVE  /\ HeadFor(w) \in Tip
           /\ UpTo(log \union pending[w], HeadFor(w).seq)
<1>1. CASE lock = w
  BY <1>1 DEF HeadFor, BInv, HeadIsLast, TypeOK
<1>2. CASE lock # w
  BY <1>2, CommittedTipFact DEF HeadFor, BInv, Held
<1> QED
  BY <1>1, <1>2

LEMMA SeqIsFree ==
    ASSUME BInv, NEW w \in Writers, Grantable(w)
    PROVE  /\ Linked(HeadFor(w), drawn[w]) \in RowType
           /\ ~SeqTaken(Linked(HeadFor(w), drawn[w]).seq)
<1>1. HeadFor(w) \in Tip /\ HeadFor(w).seq \in Nat /\ UpTo(log, HeadFor(w).seq)
  BY HeadForFact DEF Tip, UpTo
<1>2. drawn[w] \in Nat /\ \A r \in log : r.seq \in Nat
  BY DEF BInv, TypeOK, RowType
<1>3. /\ Linked(HeadFor(w), drawn[w]) \in RowType
      /\ Linked(HeadFor(w), drawn[w]).seq = HeadFor(w).seq + 1
  BY <1>1, <1>2, LinkedFact
<1>4. \A r \in log : r.seq # HeadFor(w).seq + 1
  BY <1>1, <1>2 DEF UpTo
<1> QED
  BY <1>3, <1>4 DEF SeqTaken

\* What Insert does, now that a number is never taken.
LEMMA InsertFact ==
    ASSUME BInv, NEW w \in Writers, Insert(w)
    PROVE  LET x == Linked(HeadFor(w), drawn[w])
           IN  /\ pc[w] = "waiting"
               /\ x \in RowType /\ x.id = drawn[w] /\ x.hash = Append(x.prev, x.id)
               /\ pending' = [pending EXCEPT ![w] = @ \union {x}]
               /\ tip' = [tip EXCEPT ![w] = [seq |-> x.seq, hash |-> x.hash]]
               /\ lock' = w
               /\ pc' = [pc EXCEPT ![w] = "open"]
               /\ UNCHANGED <<log, head, nextId, drawn, anchor, verify, loss>>
<1> DEFINE x == Linked(HeadFor(w), drawn[w])
<1>1. HeadFor(w) \in Tip /\ drawn[w] \in Nat
  BY HeadForFact DEF Insert, BInv, TypeOK
<1>2. /\ x.id = drawn[w] /\ x.prev = HeadFor(w).hash
      /\ x.hash = Append(HeadFor(w).hash, drawn[w])
  BY <1>1, LinkedFact, Zenon
<1>3. x.hash = Append(x.prev, x.id)
  <2> HIDE DEF x
  <2> QED
    BY <1>2
<1> QED
  BY <1>2, <1>3, SeqIsFree DEF Insert

LEMMA InitBInv == Init => BInv
<1> SUFFICES ASSUME Init PROVE BInv
  OBVIOUS
<1>1. Start \in Tip /\ Start.seq = 0
  BY DEF Start, Tip, NoHash, Hash
<1>2. IsFiniteSet({})
  BY FS_EmptySet
<1>3. TypeOK
  BY <1>1, <1>2 DEF Init, TypeOK, Loss
<1>4. LogBounded
  BY DEF Init, LogBounded, UpTo
<1>5. Held
  BY DEF Init, Held
<1>6. HeadIsLast
  BY <1>1, AuditChainAssumption DEF AuditChainAssumption, Init, HeadIsLast, UpTo
<1>7. NeverRefused
  BY DEF Init, NeverRefused
<1> QED
  BY <1>3, <1>4, <1>5, <1>6, <1>7 DEF BInv

LEMMA NextBInv == BInv /\ [Next]_vars => BInv'
<1> SUFFICES ASSUME BInv, [Next]_vars PROVE BInv'
  OBVIOUS
<1> USE DEF BInv
<1>1. ASSUME NEW w \in Writers, DrawId(w) PROVE BInv'
  <2>1. TypeOK'
    BY <1>1 DEF DrawId, TypeOK
  <2>2. LogBounded' /\ HeadIsLast'
    BY <1>1 DEF DrawId, LogBounded, HeadIsLast
  <2>3. Held' /\ NeverRefused'
    BY <1>1 DEF DrawId, Held, NeverRefused, TypeOK
  <2> QED
    BY <2>1, <2>2, <2>3
<1>2. ASSUME NEW w \in Writers, Insert(w) PROVE BInv'
  <2> DEFINE x == Linked(HeadFor(w), drawn[w])
             u == [seq |-> x.seq, hash |-> x.hash]
  <2>1. /\ x \in RowType
        /\ pending' = [pending EXCEPT ![w] = @ \union {x}]
        /\ tip' = [tip EXCEPT ![w] = u]
        /\ lock' = w
        /\ pc' = [pc EXCEPT ![w] = "open"]
        /\ UNCHANGED <<log, head, nextId, drawn, anchor, verify, loss>>
    BY <1>2, InsertFact
  <2>2. HeadFor(w) \in Tip /\ UpTo(log \union pending[w], HeadFor(w).seq) /\ lock \in {None, w}
    BY <1>2, HeadForFact DEF Insert, Grantable
  <2>3. u \in Tip /\ x.seq = HeadFor(w).seq + 1 /\ HeadFor(w).seq \in Nat
    BY <2>2, LinkedFact DEF TypeOK, Tip
  <2> HIDE DEF x
  <2>4. TypeOK'
    <3>1. IsFiniteSet(pending[w] \union {x})
      BY FS_AddElement DEF TypeOK
    <3> QED
      BY <2>1, <2>3, <3>1 DEF TypeOK
  <2>5. LogBounded'
    BY <2>1 DEF LogBounded
  <2>6. Held'
    BY <2>1, <2>2, AuditChainAssumption DEF AuditChainAssumption, Held, TypeOK
  <2>7. HeadIsLast'
    <3>1. UpTo(log \union (pending[w] \union {x}), u.seq)
      BY <2>2, <2>3 DEF UpTo, TypeOK, RowType
    <3> QED
      BY <2>1, <3>1 DEF HeadIsLast, TypeOK
  <2>8. NeverRefused'
    BY <2>1 DEF NeverRefused, TypeOK
  <2> QED
    BY <2>4, <2>5, <2>6, <2>7, <2>8
<1>3. ASSUME NEW w \in Writers, Commit(w) PROVE BInv'
  <2>1. lock = w /\ UpTo(log \union pending[w], tip[w].seq) /\ tip[w] \in Tip
    BY <1>3 DEF Commit, Held, HeadIsLast, TypeOK
  <2>2. TypeOK'
    <3>1. IsFiniteSet(log \union pending[w]) /\ IsFiniteSet({})
      BY FS_Union, FS_EmptySet DEF TypeOK
    <3> QED
      BY <1>3, <2>1, <3>1 DEF Commit, TypeOK
  <2>3. LogBounded'
    BY <1>3, <2>1 DEF Commit, LogBounded, Tip
  <2>4. Held' /\ NeverRefused'
    BY <1>3, <2>1 DEF Commit, Held, NeverRefused, TypeOK
  <2>5. HeadIsLast'
    BY <1>3, <2>1, AuditChainAssumption DEF AuditChainAssumption, Commit, HeadIsLast
  <2> QED
    BY <2>2, <2>3, <2>4, <2>5
<1>4. ASSUME NEW w \in Writers, Fail(w) PROVE BInv'
  <2>1. TypeOK'
    <3>1. IsFiniteSet({})
      BY FS_EmptySet
    <3> QED
      BY <1>4, <3>1 DEF Fail, RollBack, TypeOK
  <2>2. LogBounded'
    BY <1>4 DEF Fail, RollBack, LogBounded
  <2>3. Held' /\ NeverRefused'
    BY <1>4 DEF Fail, RollBack, Held, NeverRefused, TypeOK
  <2>4. HeadIsLast'
    BY <1>4, AuditChainAssumption
       DEF AuditChainAssumption, Fail, RollBack, HeadIsLast, Held, TypeOK
  <2> QED
    BY <2>1, <2>2, <2>3, <2>4
<1>5. CASE Stream \/ CheckAnchor \/ RecordAnchor \/ Abort
  <2>1. UNCHANGED <<log, head, writerVars, loss>>
    BY <1>5 DEF Stream, CheckAnchor, RecordAnchor, Abort
  <2>2. verify' \in [pc : {"idle", "streamed", "passed", "clean", "alarm"},
                     count : Nat, ok : BOOLEAN, loss : Loss]
    <3>1. Cardinality(log) \in Nat
      BY FS_CardinalityType DEF TypeOK
    <3>2. CASE Stream
      <4>1. (\A r \in log : HashMatches(r) /\ LinkMatches(r)) \in BOOLEAN
        OBVIOUS
      <4> QED
        BY <3>1, <3>2, <4>1 DEF Stream, TypeOK
    <3>3. CASE CheckAnchor
      BY <3>3 DEF CheckAnchor, TypeOK
    <3>4. CASE RecordAnchor \/ Abort
      BY <3>4 DEF RecordAnchor, Abort, TypeOK
    <3> QED
      BY <1>5, <3>2, <3>3, <3>4
  <2>3. anchor' \subseteq [last : Nat \ {0}, hash : Hash, count : Nat]
    <3>1. CASE RecordAnchor /\ log # {}
      <4>1. LastRow \in RowType
        BY <3>1, LastRowFact DEF LogBounded, TypeOK
      <4>2. LastRow.seq \in Nat \ {0} /\ LastRow.hash \in Hash /\ verify.count \in Nat
        BY <4>1 DEF RowType, TypeOK
      <4> QED
        BY <3>1, <4>2 DEF RecordAnchor
    <3>2. CASE anchor' = anchor
      BY <3>2 DEF TypeOK
    <3> QED
      BY <1>5, <3>1, <3>2 DEF Stream, CheckAnchor, RecordAnchor, Abort
  <2>4. TypeOK'
    BY <2>1, <2>2, <2>3 DEF TypeOK, writerVars
  <2>5. (LogBounded /\ Held /\ HeadIsLast /\ NeverRefused)'
    BY <2>1 DEF writerVars, LogBounded, Held, HeadIsLast, NeverRefused
  <2> QED
    BY <2>4, <2>5
<1>6. CASE LoseHead
  <2>1. TypeOK'
    BY <1>6 DEF LoseHead, writerVars, TypeOK
  <2>2. (LogBounded /\ Held /\ HeadIsLast /\ NeverRefused)'
    BY <1>6 DEF LoseHead, writerVars, LogBounded, Held, HeadIsLast, NeverRefused
  <2> QED
    BY <2>1, <2>2
<1>7. ASSUME NEW n \in 0..MaxId, Truncate(n) PROVE BInv'
  <2>1. log' \subseteq log /\ UNCHANGED <<head, writerVars, anchor, verify>>
    BY <1>7 DEF Truncate
  <2>2. TypeOK'
    <3>1. IsFiniteSet(log')
      BY <2>1, FS_Subset DEF TypeOK
    <3>2. loss' \in Loss
      BY <1>7 DEF Truncate, Loss
    <3> QED
      BY <2>1, <3>1, <3>2 DEF TypeOK, writerVars
  <2>3. (LogBounded /\ Held /\ HeadIsLast /\ NeverRefused)'
    BY <2>1 DEF writerVars, LogBounded, Held, HeadIsLast, NeverRefused, UpTo
  <2> QED
    BY <2>2, <2>3
<1>8. CASE UNCHANGED vars
  BY <1>8 DEF vars, TypeOK, LogBounded, Held, HeadIsLast, NeverRefused
<1> QED
  BY <1>1, <1>2, <1>3, <1>4, <1>5, <1>6, <1>7, <1>8 DEF Next

-----------------------------------------------------------------------------
(* One chain *)

\* The committed log is a chain, and so is what the holder of the lock will make
\* of it.
Linear ==
    loss = "none" =>
        /\ Chain(log, CommittedTip)
        /\ \A w \in Writers : lock = w => Chain(log \union pending[w], tip[w])

LEMMA InitLinear == Init => Linear
<1> SUFFICES ASSUME Init PROVE Linear
  OBVIOUS
<1>1. CommittedTip = Start
  BY DEF Init, CommittedTip
<1>2. Chain({}, Start)
  BY DEF Chain, Start
<1>3. log = {} /\ \A w \in Writers : lock # w
  BY AuditChainAssumption DEF AuditChainAssumption, Init
<1> QED
  BY <1>1, <1>2, <1>3 DEF Linear

LEMMA HeadForChain ==
    ASSUME BInv, Linear, loss = "none", NEW w \in Writers, Grantable(w)
    PROVE  Chain(log \union pending[w], HeadFor(w))
<1>1. CASE lock = w
  BY <1>1 DEF HeadFor, Linear
<1>2. CASE lock # w
  <2>1. log \union pending[w] = log
    BY <1>2 DEF BInv, Held
  <2> QED
    BY <1>2, <2>1 DEF HeadFor, Linear
<1> QED
  BY <1>1, <1>2

LEMMA NextLinear == BInv /\ Linear /\ [Next]_vars => Linear'
<1> SUFFICES ASSUME BInv, Linear, [Next]_vars, loss' = "none" PROVE Linear'
  BY DEF Linear
<1>1. ASSUME NEW w \in Writers, DrawId(w) PROVE Linear'
  BY <1>1 DEF DrawId, Linear, CommittedTip, SeedFromLog, LastRow
<1>2. ASSUME NEW w \in Writers, Insert(w) PROVE Linear'
  <2> DEFINE x == Linked(HeadFor(w), drawn[w])
             u == [seq |-> x.seq, hash |-> x.hash]
  <2>1. /\ x \in RowType
        /\ pending' = [pending EXCEPT ![w] = @ \union {x}]
        /\ tip' = [tip EXCEPT ![w] = u]
        /\ lock' = w
        /\ UNCHANGED <<log, head, loss>>
    BY <1>2, InsertFact
  <2>2. loss = "none"
    BY <2>1
  <2>3. Grantable(w) /\ HeadFor(w) \in Tip /\ Chain(log \union pending[w], HeadFor(w))
    BY <1>2, <2>2, HeadForFact, HeadForChain DEF Insert
  <2>4. log \union pending[w] \in SUBSET RowType /\ drawn[w] \in Nat
    BY DEF BInv, TypeOK
  <2>5. Chain((log \union pending[w]) \union {x}, u)
    BY <2>3, <2>4, ChainExtends
  <2>6. pending'[w] = pending[w] \union {x} /\ tip'[w] = u
    BY <2>1 DEF BInv, TypeOK
  <2>7. Chain(log \union pending'[w], tip'[w])
    <3>1. log \union pending'[w] = (log \union pending[w]) \union {x}
      BY <2>6
    <3> QED
      BY <2>5, <2>6, <3>1
  <2>8. CommittedTip' = CommittedTip
    BY <2>1 DEF CommittedTip, SeedFromLog, LastRow
  <2> QED
    BY <2>1, <2>2, <2>7, <2>8 DEF Linear, Chain
<1>3. ASSUME NEW w \in Writers, Commit(w) PROVE Linear'
  <2>1. lock = w /\ loss = "none" /\ loss' = loss
    BY <1>3 DEF Commit, BInv, Held
  <2>2. Chain(log \union pending[w], tip[w])
    BY <2>1 DEF Linear
  <2>3. CommittedTip' = tip[w] /\ log' = log \union pending[w] /\ lock' = None
    BY <1>3 DEF Commit, CommittedTip
  <2> QED
    BY <2>2, <2>3, AuditChainAssumption DEF AuditChainAssumption, Linear, Chain
<1>4. ASSUME NEW w \in Writers, Fail(w) PROVE Linear'
  <2>1. UNCHANGED <<log, head, tip, loss>> /\ lock' = (IF lock = w THEN None ELSE lock)
        /\ pending' = [pending EXCEPT ![w] = {}]
    BY <1>4 DEF Fail, RollBack
  <2>2. CommittedTip' = CommittedTip
    BY <2>1 DEF CommittedTip, SeedFromLog, LastRow
  <2>3. \A v \in Writers : lock' = v => lock = v /\ v # w /\ pending'[v] = pending[v]
    BY <2>1, AuditChainAssumption DEF AuditChainAssumption, BInv, TypeOK
  <2> QED
    BY <2>1, <2>2, <2>3 DEF Linear, Chain
<1>5. CASE Stream \/ CheckAnchor \/ RecordAnchor \/ Abort
  <2>1. UNCHANGED <<log, head, lock, pending, tip, loss>>
    BY <1>5 DEF Stream, CheckAnchor, RecordAnchor, Abort, writerVars
  <2>2. CommittedTip' = CommittedTip
    BY <2>1 DEF CommittedTip, SeedFromLog, LastRow
  <2> QED
    BY <2>1, <2>2 DEF Linear, Chain
<1>6. CASE LoseHead
  <2>1. lock' = None /\ log' = log /\ head' = {} /\ loss = "none"
    BY <1>6 DEF LoseHead, writerVars
  <2>2. SeedFromLog = CommittedTip
    BY <2>1, CommittedTipFact, SeedResumesChain DEF Linear, BInv, TypeOK
  <2>3. CommittedTip' = CommittedTip
    BY <2>1, <2>2 DEF CommittedTip, SeedFromLog, LastRow
  <2> QED
    BY <2>1, <2>3, AuditChainAssumption DEF AuditChainAssumption, Linear, Chain
<1>7. ASSUME NEW n \in 0..MaxId, Truncate(n) PROVE Linear'
  BY <1>7 DEF Truncate
<1>8. CASE UNCHANGED vars
  <2>1. UNCHANGED <<log, head, lock, pending, tip, loss>>
    BY <1>8 DEF vars
  <2>2. CommittedTip' = CommittedTip
    BY <2>1 DEF CommittedTip, SeedFromLog, LastRow
  <2> QED
    BY <2>1, <2>2 DEF Linear, Chain
<1> QED
  BY <1>1, <1>2, <1>3, <1>4, <1>5, <1>6, <1>7, <1>8 DEF Next

-----------------------------------------------------------------------------
(* The verifier *)

\* In a chain the row before r is the one r was linked to.
LEMMA ChainVerifies ==
    ASSUME log \in SUBSET RowType, NEW t \in Tip, Chain(log, t), NEW r \in log
    PROVE  HashMatches(r) /\ LinkMatches(r)
<1> DEFINE earlier == {s \in log : Before(s, r)}
<1>1. \A s \in log : s.seq \in Nat \ {0}
  BY DEF RowType
<1>2. Lag(r) = r.prev
  <2>1. CASE r.seq = 1
    <3>1. earlier = {}
      BY <1>1, <2>1 DEF Before
    <3> QED
      BY <2>1, <3>1 DEF Lag, Chain
  <2>2. CASE r.seq # 1
    <3>1. r.seq - 1 \in 1..t.seq /\ t.seq \in Nat
      BY <1>1, <2>2 DEF Chain, Tip
    <3>2. PICK p \in log : p.seq = r.seq - 1
      BY <3>1 DEF Chain
    <3>3. p \in earlier /\ r.prev = p.hash
      BY <1>1, <3>2 DEF Before, Chain
    <3>4. \A s \in earlier : s = p \/ Before(s, p)
      BY <1>1, <3>2 DEF Before, Chain
    <3>5. \A q \in earlier : (\A s \in earlier : s = q \/ Before(s, q)) => q = p
      <4> SUFFICES ASSUME NEW q \in earlier, \A s \in earlier : s = q \/ Before(s, q), q # p
                   PROVE  FALSE
        OBVIOUS
      <4>1. p.seq < q.seq /\ q.seq < p.seq
        BY <3>3, <3>4 DEF Before
      <4> QED
        BY <1>1, <4>1
    <3> HIDE DEF earlier
    <3>6. (CHOOSE q \in earlier : \A s \in earlier : s = q \/ Before(s, q)) = p
      BY <3>3, <3>4, <3>5
    <3>7. Lag(r) = p.hash
      BY <3>3, <3>6 DEF Lag, earlier
    <3> QED
      BY <3>3, <3>7
  <2> QED
    BY <2>1, <2>2
<1> QED
  BY <1>2 DEF HashMatches, LinkMatches, Chain

\* As long as nothing is lost the anchor is a row of the log, no count exceeds
\* the log's, and whatever was verified matched.
Verified ==
    loss = "none" =>
        /\ \A a \in anchor : /\ a.count <= Cardinality(log)
                             /\ \E r \in log : r.seq = a.last /\ r.hash = a.hash
        /\ verify.pc \in {"streamed", "passed"} =>
             verify.ok /\ verify.count <= Cardinality(log)
        /\ verify.pc = "streamed" => \A a \in anchor : a.count <= verify.count
        /\ verify.pc # "alarm"

LEMMA CountGrows ==
    ASSUME TypeOK, IsFiniteSet(log'), log \subseteq log'
    PROVE  /\ Cardinality(log) \in Nat /\ Cardinality(log') \in Nat
           /\ Cardinality(log) <= Cardinality(log')
BY FS_CardinalityType, FS_Subset DEF TypeOK

\* A step that only appends leaves the verifier's findings true.
LEMMA AppendVerified ==
    ASSUME BInv, Verified, IsFiniteSet(log'), log \subseteq log', UNCHANGED <<anchor, verify, loss>>
    PROVE  Verified'
<1>1. /\ Cardinality(log) \in Nat /\ Cardinality(log') \in Nat
      /\ Cardinality(log) <= Cardinality(log')
  BY CountGrows DEF BInv
<1>2. (\A a \in anchor : a.count \in Nat) /\ verify.count \in Nat
  BY DEF BInv, TypeOK
<1>3. \A k \in Nat : k <= Cardinality(log) => k <= Cardinality(log')
  BY <1>1
<1> QED
  BY <1>2, <1>3 DEF Verified

LEMMA InitVerified == Init => Verified
BY DEF Init, Verified

LEMMA NextVerified == BInv /\ Linear /\ Verified /\ [Next]_vars => Verified'
<1> SUFFICES ASSUME BInv, Linear, Verified, [Next]_vars, loss' = "none" PROVE Verified'
  BY DEF Verified
<1>0. IsFiniteSet(log) /\ Cardinality(log) \in Nat
  BY FS_CardinalityType DEF BInv, TypeOK
<1>1. ASSUME NEW w \in Writers, DrawId(w) \/ Insert(w) \/ Fail(w) PROVE Verified'
  BY <1>0, <1>1, InsertFact, AppendVerified DEF DrawId, Fail, RollBack
<1>2. ASSUME NEW w \in Writers, Commit(w) PROVE Verified'
  <2>1. IsFiniteSet(log \union pending[w])
    BY FS_Union DEF BInv, TypeOK
  <2> QED
    BY <1>2, <2>1, AppendVerified DEF Commit
<1>3. CASE Stream
  <2>1. log' = log /\ anchor' = anchor /\ loss = "none" /\ loss' = loss
    BY <1>3 DEF Stream
  <2>2. CommittedTip \in Tip /\ Chain(log, CommittedTip)
    BY <2>1, CommittedTipFact DEF Linear
  <2>3. \A r \in log : HashMatches(r) /\ LinkMatches(r)
    BY <2>2, ChainVerifies DEF BInv, TypeOK
  <2>4. verify'.pc = "streamed" /\ verify'.ok /\ verify'.count = Cardinality(log)
    BY <1>3, <2>3 DEF Stream
  <2> QED
    BY <1>0, <2>1, <2>4 DEF Verified
<1>4. CASE CheckAnchor
  <2>1. log' = log /\ anchor' = anchor /\ loss = "none" /\ loss' = loss
    BY <1>4 DEF CheckAnchor
  <2>2. verify.pc = "streamed" /\ verify.ok
    BY <1>4, <2>1 DEF CheckAnchor, Verified
  <2>3. \A a \in anchor : ~Truncated(a)
    <3> SUFFICES ASSUME NEW a \in anchor PROVE ~Truncated(a)
      OBVIOUS
    <3>1. a.count \in Nat /\ verify.count \in Nat /\ a.count <= verify.count
      BY <2>1, <2>2 DEF Verified, BInv, TypeOK
    <3>2. \E r \in log : r.seq = a.last /\ r.hash = a.hash
      BY <2>1 DEF Verified
    <3> QED
      BY <3>1, <3>2 DEF Truncated
  <2>4. /\ verify' = [verify EXCEPT !.pc = "passed"]
        /\ verify \in [pc : {"idle", "streamed", "passed", "clean", "alarm"},
                       count : Nat, ok : BOOLEAN, loss : Loss]
    BY <1>4, <2>2, <2>3, Zenon DEF CheckAnchor, BInv, TypeOK
  <2>5. verify'.pc = "passed" /\ verify'.ok = verify.ok /\ verify'.count = verify.count
    BY <2>4
  <2> QED
    BY <2>1, <2>2, <2>5 DEF Verified
<1>5. CASE RecordAnchor
  <2>1. log' = log /\ loss = "none" /\ loss' = loss /\ verify.pc = "passed"
    BY <1>5 DEF RecordAnchor
  <2>2. verify'.pc = "clean"
    BY <1>5 DEF RecordAnchor, BInv, TypeOK
  <2>3. \A a \in anchor' : /\ a.count <= Cardinality(log)
                           /\ \E r \in log : r.seq = a.last /\ r.hash = a.hash
    <3>1. CASE log = {}
      BY <1>5, <2>1, <3>1 DEF RecordAnchor, Verified
    <3>2. CASE log # {}
      <4>1. LastRow \in log
        BY <3>2, LastRowFact DEF BInv, LogBounded, TypeOK
      <4>2. anchor' = {[last |-> LastRow.seq, hash |-> LastRow.hash, count |-> verify.count]}
        BY <1>5, <3>2 DEF RecordAnchor
      <4>3. verify.count <= Cardinality(log)
        BY <2>1 DEF Verified
      <4> QED
        BY <4>1, <4>2, <4>3
    <3> QED
      BY <3>1, <3>2
  <2> QED
    BY <2>1, <2>2, <2>3 DEF Verified
<1>6. CASE Abort
  <2>1. log' = log /\ anchor' = anchor /\ loss = "none" /\ loss' = loss
    BY <1>6 DEF Abort
  <2>2. verify'.pc = "idle"
    BY <1>6 DEF Abort, BInv, TypeOK
  <2> QED
    BY <2>1, <2>2 DEF Verified
<1>7. CASE LoseHead
  BY <1>0, <1>7, AppendVerified DEF LoseHead
<1>8. ASSUME NEW n \in 0..MaxId, Truncate(n) PROVE Verified'
  BY <1>8 DEF Truncate
<1>9. CASE UNCHANGED vars
  BY <1>0, <1>9, AppendVerified DEF vars
<1> QED
  BY <1>1, <1>2, <1>3, <1>4, <1>5, <1>6, <1>7, <1>8, <1>9 DEF Next

-----------------------------------------------------------------------------
(* What is lost stays lost *)

\* An id that no row to come will have.
Spent(i) ==
    /\ i < nextId
    /\ \A w \in Writers : /\ pc[w] = "waiting" => drawn[w] # i
                          /\ \A r \in pending[w] : r.id # i

\* An id is in one row, or about to be.
IdsUnique ==
    /\ \A w \in Writers : pc[w] = "waiting" => drawn[w] < nextId
    /\ \A v, w \in Writers :
         /\ pc[v] = "waiting" /\ pc[w] = "waiting" /\ v # w => drawn[v] # drawn[w]
         /\ pc[v] = "waiting" => \A r \in pending[w] : r.id # drawn[v]
    /\ \A w \in Writers : \A r \in pending[w] : r.id < nextId /\ r.hash = Append(r.prev, r.id)
    /\ \A r \in log : Spent(r.id) /\ r.hash = Append(r.prev, r.id)

\* The anchor is of a row that was once committed.
AnchorSpent ==
    /\ anchor = {} \/ \E a : anchor = {a}
    /\ \A a \in anchor : \E p \in Hash, i \in Nat : a.hash = Append(p, i) /\ Spent(i)

LossKept ==
    /\ loss = "anchored" =>
         /\ anchor # {}
         /\ \A a \in anchor : \A r \in log : ~(r.seq = a.last /\ r.hash = a.hash)
         /\ verify.pc # "passed"
    /\ verify.loss = "anchored" => loss = "anchored"

DInv == IdsUnique /\ AnchorSpent /\ LossKept /\ TruncationIsCaught

LEMMA InitDInv == Init => DInv
BY DEF Init, DInv, IdsUnique, AnchorSpent, LossKept, TruncationIsCaught

\* Spent ids stay so.
LEMMA SpentStays ==
    ASSUME BInv, IdsUnique, [Next]_vars, NEW i \in Nat, Spent(i)
    PROVE  Spent(i)'
<1> USE DEF BInv, TypeOK
<1>1. ASSUME NEW w \in Writers, DrawId(w) PROVE Spent(i)'
  BY <1>1 DEF DrawId, Spent
<1>2. ASSUME NEW w \in Writers, Insert(w) PROVE Spent(i)'
  <2> DEFINE x == Linked(HeadFor(w), drawn[w])
  <2>1. /\ pc[w] = "waiting" /\ x.id = drawn[w]
        /\ pending' = [pending EXCEPT ![w] = @ \union {x}]
        /\ pc' = [pc EXCEPT ![w] = "open"]
        /\ UNCHANGED <<nextId, drawn>>
    BY <1>2, InsertFact
  <2> HIDE DEF x
  <2> QED
    BY <2>1 DEF Spent
<1>3. ASSUME NEW w \in Writers, Commit(w) \/ Fail(w) PROVE Spent(i)'
  BY <1>3 DEF Commit, Fail, RollBack, Spent
<1>4. ASSUME UNCHANGED <<nextId, pc, drawn, pending>> PROVE Spent(i)'
  BY <1>4 DEF Spent
<1>5. CASE Stream \/ CheckAnchor \/ RecordAnchor \/ Abort \/ LoseHead
  BY <1>4, <1>5 DEF Stream, CheckAnchor, RecordAnchor, Abort, LoseHead, writerVars
<1>6. ASSUME NEW n \in 0..MaxId, Truncate(n) PROVE Spent(i)'
  BY <1>4, <1>6 DEF Truncate, writerVars
<1> QED
  BY <1>1, <1>2, <1>3, <1>4, <1>5, <1>6 DEF Next, vars

LEMMA NextIdsUnique == BInv /\ IdsUnique /\ [Next]_vars => IdsUnique'
<1> SUFFICES ASSUME BInv, IdsUnique, [Next]_vars PROVE IdsUnique'
  OBVIOUS
<1>0. \A r \in log : Spent(r.id)' /\ r.hash = Append(r.prev, r.id)
  <2> SUFFICES ASSUME NEW r \in log PROVE Spent(r.id)'
    BY DEF IdsUnique
  <2>1. r.id \in Nat
    BY DEF BInv, TypeOK, RowType
  <2> QED
    BY <2>1, SpentStays DEF IdsUnique
<1>a. /\ nextId \in Nat /\ \A w \in Writers : drawn[w] \in Nat
      /\ \A w \in Writers : \A r \in pending[w] : r.id \in Nat
  BY DEF BInv, TypeOK, RowType
<1>1. ASSUME NEW w \in Writers, DrawId(w) PROVE IdsUnique'
  BY <1>0, <1>a, <1>1 DEF DrawId, IdsUnique, BInv, TypeOK
<1>2. ASSUME NEW w \in Writers, Insert(w) PROVE IdsUnique'
  <2> DEFINE x == Linked(HeadFor(w), drawn[w])
  <2>1. /\ pc[w] = "waiting" /\ x.id = drawn[w] /\ x.hash = Append(x.prev, x.id)
        /\ pending' = [pending EXCEPT ![w] = @ \union {x}]
        /\ pc' = [pc EXCEPT ![w] = "open"]
        /\ UNCHANGED <<log, nextId, drawn>>
    BY <1>2, InsertFact
  <2> HIDE DEF x
  <2> QED
    BY <1>0, <1>a, <2>1 DEF IdsUnique, BInv, TypeOK
<1>3. ASSUME NEW w \in Writers, Commit(w) PROVE IdsUnique'
  <2>1. /\ lock = w /\ pc' = [pc EXCEPT ![w] = "idle"]
        /\ pending' = [pending EXCEPT ![w] = {}] /\ log' = log \union pending[w]
        /\ UNCHANGED <<nextId, drawn>>
    BY <1>3 DEF Commit, BInv, Held
  <2>2. \A v \in Writers : pending'[v] = {} /\ (pc'[v] = "waiting" => pc[v] = "waiting")
    BY <2>1 DEF BInv, Held, TypeOK
  <2>3. \A r \in pending[w] : Spent(r.id)'
    BY <2>1, <2>2 DEF IdsUnique, Spent
  <2> QED
    BY <1>0, <2>1, <2>2, <2>3 DEF IdsUnique
<1>4. ASSUME NEW w \in Writers, Fail(w) PROVE IdsUnique'
  BY <1>0, <1>4 DEF Fail, RollBack, IdsUnique, BInv, TypeOK
<1>5. ASSUME log' \subseteq log, UNCHANGED <<nextId, pc, drawn, pending>> PROVE IdsUnique'
  BY <1>0, <1>5 DEF IdsUnique
<1>6. CASE Stream \/ CheckAnchor \/ RecordAnchor \/ Abort \/ LoseHead
  BY <1>5, <1>6 DEF Stream, CheckAnchor, RecordAnchor, Abort, LoseHead, writerVars
<1>7. ASSUME NEW n \in 0..MaxId, Truncate(n) PROVE IdsUnique'
  BY <1>5, <1>7 DEF Truncate, writerVars
<1> QED
  BY <1>1, <1>2, <1>3, <1>4, <1>5, <1>6, <1>7 DEF Next, vars

LEMMA NextAnchorSpent == BInv /\ IdsUnique /\ AnchorSpent /\ [Next]_vars => AnchorSpent'
<1> SUFFICES ASSUME BInv, IdsUnique, AnchorSpent, [Next]_vars PROVE AnchorSpent'
  OBVIOUS
<1>1. \A i \in Nat : Spent(i) => Spent(i)'
  BY SpentStays
<1>2. CASE anchor' = anchor
  BY <1>1, <1>2 DEF AnchorSpent
<1>3. CASE RecordAnchor /\ log # {}
  <2>1. PICK q \in log : q = LastRow
    BY <1>3, LastRowFact DEF BInv, LogBounded, TypeOK
  <2>2. q.id \in Nat /\ q.prev \in Hash
    BY DEF BInv, TypeOK, RowType
  <2>3. q.hash = Append(q.prev, q.id) /\ Spent(q.id)'
    BY <1>1, <2>2 DEF IdsUnique
  <2>4. anchor' = {[last |-> q.seq, hash |-> q.hash, count |-> verify.count]}
    BY <1>3, <2>1 DEF RecordAnchor
  <2>5. \A a \in anchor' : a.hash = q.hash
    BY <2>4
  <2>6. \A a \in anchor' : \E p \in Hash, i \in Nat : a.hash = Append(p, i) /\ Spent(i)'
    BY <2>2, <2>3, <2>5
  <2> QED
    BY <2>4, <2>6, Zenon DEF AnchorSpent
<1>4. anchor' = anchor \/ (RecordAnchor /\ log # {})
  BY InsertFact DEF Next, vars, DrawId, Commit, Fail, RollBack, Stream, CheckAnchor,
                    RecordAnchor, Abort, LoseHead, Truncate
<1> QED
  BY <1>2, <1>3, <1>4

LEMMA NextLossKept ==
    BInv /\ DInv /\ [Next]_vars => LossKept' /\ TruncationIsCaught'
<1> SUFFICES ASSUME BInv, DInv, [Next]_vars PROVE LossKept' /\ TruncationIsCaught'
  OBVIOUS
<1> USE DEF DInv
<1>1. ASSUME log' \subseteq log, UNCHANGED <<anchor, verify, loss>>
      PROVE  LossKept' /\ TruncationIsCaught'
  BY <1>1 DEF LossKept, TruncationIsCaught
<1>2. ASSUME NEW w \in Writers, DrawId(w) \/ Insert(w) \/ Fail(w)
      PROVE  LossKept' /\ TruncationIsCaught'
  BY <1>1, <1>2, InsertFact DEF DrawId, Fail, RollBack
<1>3. ASSUME NEW w \in Writers, Commit(w) PROVE LossKept' /\ TruncationIsCaught'
  <2>1. log' = log \union pending[w] /\ UNCHANGED <<anchor, verify, loss>>
    BY <1>3 DEF Commit
  <2>2. \A a \in anchor : \A r \in pending[w] : r.hash # a.hash
    <3> SUFFICES ASSUME NEW a \in anchor, NEW r \in pending[w], r.hash = a.hash PROVE FALSE
      OBVIOUS
    <3>1. PICK p \in Hash, i \in Nat : a.hash = Append(p, i) /\ Spent(i)
      BY DEF AnchorSpent
    <3>2. r.hash = Append(r.prev, r.id) /\ r.id # i /\ r.prev \in Hash /\ r.id \in Nat
      BY <3>1 DEF IdsUnique, Spent, BInv, TypeOK, RowType
    <3>3. Append(p, i) = Append(r.prev, r.id)
      BY <3>1, <3>2
    <3>4. /\ p \in Seq(Nat) /\ r.prev \in Seq(Nat)
          /\ Append(p, i)[Len(p) + 1] = i /\ Len(Append(p, i)) = Len(p) + 1
          /\ Append(r.prev, r.id)[Len(r.prev) + 1] = r.id
          /\ Len(Append(r.prev, r.id)) = Len(r.prev) + 1
      BY <3>2 DEF Hash
    <3>5. Len(p) = Len(r.prev)
      BY <3>3, <3>4
    <3> QED
      BY <3>2, <3>3, <3>4, <3>5
  <2> QED
    BY <2>1, <2>2 DEF LossKept, TruncationIsCaught
<1>4. CASE Stream
  BY <1>4 DEF Stream, LossKept, TruncationIsCaught
<1>5. CASE CheckAnchor
  <2>1. log' = log /\ anchor' = anchor /\ loss' = loss
    BY <1>5 DEF CheckAnchor
  <2>2. verify'.loss = verify.loss /\ verify'.pc \in {"passed", "alarm"}
    BY <1>5 DEF CheckAnchor, BInv, TypeOK
  <2>3. loss = "anchored" => \E a \in anchor : Truncated(a)
    BY DEF LossKept, Truncated
  <2>4. loss = "anchored" => verify'.pc # "passed"
    <3> SUFFICES ASSUME loss = "anchored" PROVE verify'.pc = "alarm"
      OBVIOUS
    <3>1. verify' = [verify EXCEPT !.pc = "alarm"]
      BY <1>5, <2>3, Zenon DEF CheckAnchor
    <3> QED
      BY <3>1 DEF BInv, TypeOK
  <2> QED
    BY <2>1, <2>2, <2>4 DEF LossKept, TruncationIsCaught
<1>6. CASE RecordAnchor
  <2>1. log' = log /\ loss' = loss /\ verify.pc = "passed"
    BY <1>6 DEF RecordAnchor
  <2>2. verify'.pc = "clean" /\ verify'.loss = verify.loss
    BY <1>6 DEF RecordAnchor, BInv, TypeOK
  <2> QED
    BY <2>1, <2>2 DEF LossKept, TruncationIsCaught
<1>7. CASE Abort
  <2>1. verify'.pc = "idle" /\ verify'.loss = verify.loss
    BY <1>7 DEF Abort, BInv, TypeOK
  <2> QED
    BY <1>7, <2>1 DEF Abort, LossKept, TruncationIsCaught
<1>8. CASE LoseHead
  BY <1>1, <1>8 DEF LoseHead
<1>9. ASSUME NEW n \in 0..MaxId, Truncate(n) PROVE LossKept' /\ TruncationIsCaught'
  <2>1. log' = {r \in log : r.seq <= n} /\ UNCHANGED <<anchor, verify>>
    BY <1>9 DEF Truncate
  <2>2. CASE loss = "anchored"
    BY <1>9, <2>1, <2>2 DEF Truncate, LossKept, TruncationIsCaught
  <2>3. CASE loss # "anchored" /\ loss' = "anchored"
    <3>1. PICK a \in anchor : n < a.last /\ verify.pc # "passed"
      BY <1>9, <2>3 DEF Truncate
    <3>2. anchor = {a} /\ a.last \in Nat /\ n \in Nat
      BY <3>1 DEF AnchorSpent, BInv, TypeOK
    <3>3. \A r \in log' : r.seq # a.last
      BY <2>1, <3>1, <3>2 DEF BInv, TypeOK, RowType
    <3> QED
      BY <2>1, <2>3, <3>1, <3>2, <3>3 DEF LossKept, TruncationIsCaught
  <2>4. CASE loss # "anchored" /\ loss' # "anchored"
    BY <2>1, <2>4 DEF LossKept, TruncationIsCaught
  <2> QED
    BY <2>2, <2>3, <2>4
<1>10. CASE UNCHANGED vars
  BY <1>1, <1>10 DEF vars
<1> QED
  BY <1>2, <1>3, <1>4, <1>5, <1>6, <1>7, <1>8, <1>9, <1>10 DEF Next

-----------------------------------------------------------------------------
(* Theorems *)

IInv == BInv /\ Linear /\ Verified /\ DInv

LEMMA Invariance == Spec => []IInv
<1>1. Init => IInv
  BY InitBInv, InitLinear, InitVerified, InitDInv DEF IInv
<1>2. IInv /\ [Next]_vars => IInv'
  BY NextBInv, NextLinear, NextVerified, NextIdsUnique, NextAnchorSpent, NextLossKept
     DEF IInv, DInv
<1> QED
  BY <1>1, <1>2, PTL DEF Spec

\* The tables, the transactions and the verifier keep their types, for any number
\* of connections and rows.
THEOREM TypeCorrect == Spec => []TypeOK
<1>1. IInv => TypeOK
  BY DEF IInv, BInv
<1> QED
  BY <1>1, Invariance, PTL

\* The trigger never allocates a number that is taken, so that no change is refused
\* for its audit row, even after rows or the head row were lost.
THEOREM InsertsSucceed == Spec => []NeverRefused
<1>1. IInv => NeverRefused
  BY DEF IInv, BInv
<1> QED
  BY <1>1, Invariance, PTL

\* The committed log is one chain that ends at the head row, or where the trigger
\* will resume it.
THEOREM ChainCorrect == Spec => []ChainLinked
<1>1. IInv => ChainLinked
  BY DEF IInv, Linear, ChainLinked
<1> QED
  BY <1>1, Invariance, PTL

\* A verification of a log that has lost nothing never reports it, whatever is
\* appended while it runs.
THEOREM VerifierIsSound == Spec => []NoFalseAlarm
<1>1. IInv => NoFalseAlarm
  BY DEF IInv, Verified, NoFalseAlarm
<1> QED
  BY <1>1, Invariance, PTL

\* Once a row that the anchor covers is lost, no verification that begins later is
\* clean, whatever is appended in its place.
THEOREM LossIsCaught == Spec => []TruncationIsCaught
<1>1. IInv => TruncationIsCaught
  BY DEF IInv, DInv
<1> QED
  BY <1>1, Invariance, PTL
=============================================================================
