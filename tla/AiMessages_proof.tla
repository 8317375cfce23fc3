-------------------------- MODULE AiMessages_proof --------------------------
(***************************************************************************)
(* Proofs about AiMessages for any messages, owners, budgets and limits.   *)
(***************************************************************************)
EXTENDS AiMessages, FiniteSetTheorems, WellFoundedInduction, TLAPS

-----------------------------------------------------------------------------
(* The invariant *)

\* Where a message stands bounds what it has done.
Progress ==
    \A m \in Messages :
        /\ pc[m] # "idle" => seen[m].session \in Sessions
        /\ pc[m] \in {"idle", "connect", "reader", "gate", "meter"} => seen[m].window = None
        /\ pc[m] # "answer" => seen[m].rows <= MaxRows
        /\ pc[m] = "tools" => seen[m].todo > 0

IInv == TypeOK /\ Progress /\ MeterCountsEveryMessage /\ BudgetsHold /\ ProposalsOfAnswers

\* The messages counted in a window, and those of them let through.
CountedIn(u, w) == {m \in Messages : Sender[m] = u /\ seen[m].window = w}
AdmittedIn(u, w) == {m \in CountedIn(u, w) : seen[m].admitted}

\* A message that leaves handler h for k stays counted, and let through, as it was.
CountedAlike(h, k) == k.window = h.window /\ (h.window # None => k.admitted = h.admitted)

\* A step of m that leaves the meter and how m was counted alone.
Proceeds(m, l, h) ==
    /\ pc' = [pc EXCEPT ![m] = l] /\ pc[m] \notin Done
    /\ seen' = [seen EXCEPT ![m] = h]
    /\ l \in Places /\ h \in SeenRow
    /\ CountedAlike(seen[m], h)
    /\ meter' = meter /\ now' = now
    /\ sessions' \in [Sessions -> [day : Nat \union {None}, cost : Nat]]
    /\ chain' \in Messages \union {None}
    /\ stored' = [stored EXCEPT ![m] = IF l = "answered" THEN h.proposed ELSE 0]
    /\ l # "idle" /\ h.session \in Sessions
    /\ l \in {"connect", "reader", "gate", "meter"} => h.window = None
    /\ l # "answer" => h.rows <= MaxRows
    /\ l = "tools" => h.todo > 0
    /\ h.made <= MaxToolCalls
    /\ \E last \in ResultRows : h.rows <= MaxRows + last

LEMMA ProceedsInv ==
    ASSUME AiMessagesAssumption, IInv, NEW m \in Messages, NEW l, NEW h, Proceeds(m, l, h)
    PROVE  IInv'
<1>0. /\ pc' = [pc EXCEPT ![m] = l] /\ pc \in [Messages -> Places] /\ l \in Places
      /\ seen' = [seen EXCEPT ![m] = h] /\ seen \in [Messages -> SeenRow] /\ h \in SeenRow
      /\ meter' = meter /\ now' = now
      /\ stored \in [Messages -> Nat]
  BY DEF IInv, TypeOK, Proceeds
<1>1. TypeOK'
  <2>1. stored' \in [Messages -> Nat]
    BY <1>0 DEF Proceeds, SeenRow
  <2> QED
    BY <1>0, <2>1 DEF IInv, TypeOK, Proceeds
<1>2. Progress'
  BY <1>0 DEF IInv, Progress, Proceeds
<1>3. MeterCountsEveryMessage'
  <2>1. \A o \in Messages : CountedAlike(seen[o], seen'[o])
    BY <1>0 DEF Proceeds, CountedAlike
  <2> SUFFICES ASSUME NEW u \in Users, NEW w \in Windows
               PROVE  /\ meter[u][w] = Cardinality(CountedIn(u, w)')
                      /\ Cardinality(AdmittedIn(u, w)') <= WindowLimit
    BY <1>0 DEF MeterCountsEveryMessage, CountedIn, AdmittedIn
  <2>2. CountedIn(u, w)' = CountedIn(u, w)
    BY <2>1 DEF CountedIn, CountedAlike
  <2>3. AdmittedIn(u, w)' = AdmittedIn(u, w)
    <3>1. \A o \in CountedIn(u, w) : seen'[o].admitted = seen[o].admitted
      <4>1. None \notin Windows
        BY DEF AiMessagesAssumption, Windows
      <4> QED
        BY <2>1, <4>1 DEF CountedIn, CountedAlike
    <3> QED
      BY <2>2, <3>1, Zenon DEF AdmittedIn
  <2>4. meter[u][w] = Cardinality(CountedIn(u, w)) /\ Cardinality(AdmittedIn(u, w)) <= WindowLimit
    BY DEF IInv, MeterCountsEveryMessage, CountedIn, AdmittedIn
  <2> QED
    BY <2>2, <2>3, <2>4
<1>4. BudgetsHold'
  BY <1>0 DEF IInv, BudgetsHold, Proceeds
<1>5. ProposalsOfAnswers'
  BY <1>0 DEF IInv, ProposalsOfAnswers, Proceeds
<1> QED
  BY <1>1, <1>2, <1>3, <1>4, <1>5 DEF IInv

-----------------------------------------------------------------------------
(* The steps of a message *)

USE DEF Goto, Note, Database

\* What is used of the invariant and of the constants in every step.
LEMMA Facts ==
    ASSUME AiMessagesAssumption, IInv, NEW m \in Messages
    PROVE  /\ seen[m] \in SeenRow /\ seen = [seen EXCEPT ![m] = seen[m]]
           /\ stored = [stored EXCEPT ![m] = stored[m]]
           /\ pc[m] # "answered" => stored[m] = 0
           /\ sessions \in [Sessions -> [day : Nat \union {None}, cost : Nat]]
           /\ chain \in Messages \union {None}
           /\ seen[m].made <= MaxToolCalls
           /\ \E last \in ResultRows : seen[m].rows <= MaxRows + last
           /\ pc[m] # "idle" => seen[m].session \in Sessions
           /\ pc[m] \in {"idle", "connect", "reader", "gate", "meter"} => seen[m].window = None
           /\ pc[m] # "answer" => seen[m].rows <= MaxRows
           /\ pc[m] = "tools" => seen[m].todo > 0
           /\ MaxToolCalls \in Nat /\ MaxRows \in Nat
BY DEF IInv, TypeOK, Progress, BudgetsHold, ProposalsOfAnswers, AiMessagesAssumption

\* A new handler, or what is left of one, is within every budget.
LEMMA EmptyFact ==
    ASSUME AiMessagesAssumption
    PROVE  0 <= MaxToolCalls /\ 0 <= MaxRows /\ \E last \in ResultRows : 0 <= MaxRows + last
<1>1. MaxToolCalls \in Nat /\ MaxRows \in Nat
  BY DEF AiMessagesAssumption
<1>2. PICK last \in ResultRows : last \in Nat
  BY DEF AiMessagesAssumption
<1> QED
  BY <1>1, <1>2

LEMMA ArriveInv ==
    ASSUME AiMessagesAssumption, IInv, NEW m \in Messages, Arrive(m)
    PROVE  IInv'
<1>1. PICK s \in Sessions : Note(m, Handler(s))
  BY DEF Arrive
<1>2. /\ Handler(s) \in SeenRow /\ Handler(s).session \in Sessions /\ Handler(s).window = None
      /\ Handler(s).made = 0 /\ Handler(s).rows = 0
  BY DEF Handler, SeenRow
<1>3. /\ pc[m] = "idle" /\ Goto(m, "connect")
      /\ UNCHANGED <<now, Database, chain>>
  BY DEF Arrive
<1>4. Proceeds(m, "connect", Handler(s))
  BY <1>1, <1>2, <1>3, Facts, EmptyFact DEF Proceeds, CountedAlike, Places, Done
<1> QED
  BY <1>4, ProceedsInv

LEMMA LeftFact ==
    ASSUME IInv, NEW m \in Messages
    PROVE  /\ Left(m) \in SeenRow
           /\ [Left(m) EXCEPT !.cost = 0, !.proposed = 0] \in SeenRow
           /\ \A h \in {Left(m), [Left(m) EXCEPT !.cost = 0, !.proposed = 0]} :
                /\ h.session = seen[m].session
                /\ CountedAlike(seen[m], h)
                /\ h.made = 0 /\ h.rows = 0
BY DEF IInv, TypeOK, Left, SeenRow, CountedAlike

LEMMA ReleaseFact ==
    ASSUME IInv, NEW m \in Messages, Release(m)
    PROVE  chain' \in Messages \union {None}
BY DEF IInv, TypeOK, Release

LEMMA RefuseInv ==
    ASSUME AiMessagesAssumption, IInv, NEW m \in Messages,
           pc[m] \notin Done, pc[m] # "idle", Refuse(m)
    PROVE  IInv'
<1> DEFINE h == [Left(m) EXCEPT !.cost = 0, !.proposed = 0]
<1>1. /\ h \in SeenRow /\ h.session = seen[m].session /\ CountedAlike(seen[m], h)
      /\ h.made = 0 /\ h.rows = 0
  BY LeftFact
<1>2. /\ Goto(m, "refused") /\ Note(m, h) /\ meter' = meter /\ UNCHANGED <<now, sessions, stored>>
  BY DEF Refuse, MeterAfterRollback
<1> HIDE DEF h
<1>3. stored' = [stored EXCEPT ![m] = 0]
  BY <1>2, Facts DEF Done
<1>4. chain' \in Messages \union {None}
  BY ReleaseFact DEF Refuse
<1>5. \E last \in ResultRows : h.rows <= MaxRows + last
  BY <1>1, EmptyFact
<1>6. 0 <= MaxRows /\ 0 <= MaxToolCalls /\ h.session \in Sessions
  BY <1>1, Facts
<1>7. sessions' \in [Sessions -> [day : Nat \union {None}, cost : Nat]]
  BY <1>2, Facts
<1>8. /\ pc' = [pc EXCEPT ![m] = "refused"] /\ seen' = [seen EXCEPT ![m] = h]
      /\ meter' = meter /\ now' = now
  BY <1>2 DEF Goto, Note
<1>9. "refused" \in Places
  BY DEF Places, Done
<1>10. h.rows <= MaxRows /\ h.made <= MaxToolCalls
  BY <1>1, <1>6
<1>11. Proceeds(m, "refused", h)
  BY <1>1, <1>3, <1>4, <1>5, <1>6, <1>7, <1>8, <1>9, <1>10 DEF Proceeds
<1> QED
  BY <1>11, ProceedsInv

\* A step on of a message that is under way, which leaves h of its handler.
Runs(m, l, h) ==
    /\ pc[m] \in InMain \union {"connect"}
    /\ l \in InMain
    /\ l \in {"connect", "reader", "gate", "meter"} =>
         pc[m] \in {"connect", "reader", "gate", "meter"}
    /\ l # "answer" => h.rows <= MaxRows
    /\ l = "tools" => h.todo > 0
    /\ h \in SeenRow
    /\ h.session = seen[m].session /\ CountedAlike(seen[m], h)
    /\ h.made <= MaxToolCalls
    /\ \E last \in ResultRows : h.rows <= MaxRows + last
    /\ Goto(m, l) /\ Note(m, h)
    /\ UNCHANGED <<now, Database>>
    /\ chain' \in {chain, m}

LEMMA RunsInv ==
    ASSUME AiMessagesAssumption, IInv, NEW m \in Messages, NEW l, NEW h, Runs(m, l, h)
    PROVE  IInv'
<1>1. pc[m] \notin Done /\ pc[m] # "idle" /\ l \in Places /\ l \notin {"idle", "answered"}
  BY DEF Runs, InMain, InReader, Done, Places
<1>2. stored' = [stored EXCEPT ![m] = 0]
  BY <1>1, Facts DEF Runs, Done
<1>3. l \in {"connect", "reader", "gate", "meter"} => h.window = None
  BY Facts DEF Runs, CountedAlike
<1>4. Proceeds(m, l, h)
  BY <1>1, <1>2, <1>3, Facts DEF Runs, Proceeds
<1> QED
  BY <1>4, ProceedsInv

\* The steps up to the model calls.
LEMMA GatesInv ==
    ASSUME AiMessagesAssumption, IInv, NEW m \in Messages,
           \/ Connect(m) \/ ConnectReader(m) \/ PoolTimeout(m) \/ Fail(m)
           \/ Gate(m) \/ CheckDailyCap(m) \/ ClassifyIntent(m) \/ StopCalling(m)
    PROVE  IInv'
<1> USE DEF InMain, InReader
<1>0. CountedAlike(seen[m], seen[m])
  BY DEF CountedAlike
<1>1. CASE Connect(m)
  <2>1. Runs(m, "reader", seen[m])
    BY <1>0, <1>1, Facts DEF Connect, Runs
  <2> QED
    BY <2>1, RunsInv
<1>2. CASE ConnectReader(m)
  <2>1. Runs(m, "gate", seen[m])
    BY <1>0, <1>2, Facts DEF ConnectReader, Runs
  <2> QED
    BY <2>1, RunsInv
<1>3. CASE PoolTimeout(m) \/ Fail(m)
  <2>1. pc[m] \notin Done /\ pc[m] # "idle" /\ Refuse(m)
    BY <1>3 DEF PoolTimeout, NoConnection, Fail, Done
  <2> QED
    BY <2>1, RefuseInv
<1>4. CASE Gate(m)
  <2>1. CASE Refuse(m)
    BY <1>4, <2>1, RefuseInv DEF Gate, Done
  <2>2. CASE ~Refuse(m)
    <3> DEFINE h == [seen[m] EXCEPT !.read = sessions[seen[m].session].cost]
    <3>1. /\ pc[m] = "gate" /\ Goto(m, "meter") /\ Note(m, h)
          /\ UNCHANGED <<now, Database, chain>>
      BY <1>4, <2>2 DEF Gate
    <3>2. sessions[seen[m].session].cost \in Nat
      BY <3>1, Facts
    <3>3. /\ h \in SeenRow /\ h.session = seen[m].session /\ CountedAlike(seen[m], h)
          /\ h.made = seen[m].made /\ h.rows = seen[m].rows
      <4>1. seen[m] \in SeenRow
        BY Facts
      <4>2. h \in SeenRow
        BY <3>2, <4>1 DEF SeenRow
      <4> QED
        BY <4>1, <4>2 DEF SeenRow, CountedAlike
    <3> HIDE DEF h
    <3>4. Runs(m, "meter", h)
      BY <3>1, <3>3, Facts DEF Runs
    <3> QED
      BY <3>4, RunsInv
  <2> QED
    BY <2>1, <2>2
<1>5. CASE CheckDailyCap(m)
  <2>1. CASE Refuse(m)
    BY <1>5, <2>1, RefuseInv DEF CheckDailyCap, Done
  <2>2. CASE ~Refuse(m)
    <3>1. Runs(m, "route", seen[m])
      BY <1>0, <1>5, <2>2, Facts DEF CheckDailyCap, Runs
    <3> QED
      BY <3>1, RunsInv
  <2> QED
    BY <2>1, <2>2
<1>6. CASE ClassifyIntent(m)
  <2>1. Runs(m, "ask", seen[m]) \/ Runs(m, "answer", seen[m])
    BY <1>0, <1>6, Facts DEF ClassifyIntent, Runs
  <2> QED
    BY <2>1, RunsInv
<1>7. CASE StopCalling(m)
  <2>1. Runs(m, "answer", seen[m])
    BY <1>0, <1>7, Facts DEF StopCalling, Runs
  <2> QED
    BY <2>1, RunsInv
<1> QED
  BY <1>1, <1>2, <1>3, <1>4, <1>5, <1>6, <1>7

LEMMA CallModelInv ==
    ASSUME AiMessagesAssumption, IInv, NEW m \in Messages, CallModel(m)
    PROVE  IInv'
<1> USE DEF InMain, InReader
<1>1. pc[m] = "ask" /\ UNCHANGED <<now, Database, chain>>
  BY DEF CallModel
<1>2. CASE Goto(m, "answer") /\ seen' = seen
  <2>1. Runs(m, "answer", seen[m])
    BY <1>1, <1>2, Facts DEF Runs, CountedAlike
  <2> QED
    BY <2>1, RunsInv
<1>3. ASSUME NEW c \in CallCosts, NEW n \in Nat, NEW l,
             Note(m, [seen[m] EXCEPT !.cost = @ + c, !.todo = n]), Goto(m, l),
             l = "answer" \/ (l = "tools" /\ n > 0)
      PROVE  IInv'
  <2> DEFINE h == [seen[m] EXCEPT !.cost = @ + c, !.todo = n]
  <2>1. c \in Nat
    BY DEF AiMessagesAssumption
  <2>2. /\ h \in SeenRow /\ h.session = seen[m].session /\ CountedAlike(seen[m], h)
        /\ h.made = seen[m].made /\ h.rows = seen[m].rows /\ h.todo = n
    <3>1. seen[m] \in SeenRow
      BY Facts
    <3>5. seen[m].cost \in Nat /\ seen[m].cost + c \in Nat
      BY <2>1, <3>1 DEF SeenRow
    <3>2. h \in SeenRow
      BY <3>1, <3>5 DEF SeenRow
    <3>3. /\ h.session = seen[m].session /\ h.made = seen[m].made /\ h.rows = seen[m].rows
          /\ h.todo = n
      BY <3>1 DEF SeenRow
    <3>4. h.window = seen[m].window /\ h.admitted = seen[m].admitted
      BY <3>1 DEF SeenRow
    <3> HIDE DEF h
    <3> QED
      BY <3>2, <3>3, <3>4 DEF CountedAlike
  <2>3. Note(m, h)
    BY <1>3
  <2> HIDE DEF h
  <2>4. Runs(m, l, h)
    BY <1>1, <1>3, <2>2, <2>3, Facts DEF Runs
  <2> QED
    BY <2>4, RunsInv
<1>4. CASE ~(Goto(m, "answer") /\ seen' = seen)
  <2>1. PICK c \in CallCosts :
          \/ Note(m, [seen[m] EXCEPT !.cost = @ + c]) /\ Goto(m, "answer")
          \/ \E n \in Batches : Note(m, [[seen[m] EXCEPT !.cost = @ + c] EXCEPT !.todo = n])
                                  /\ Goto(m, "tools")
    BY <1>4 DEF CallModel
  <2>2. seen[m].todo \in Nat
    BY Facts DEF SeenRow
  <2>3. CASE Note(m, [seen[m] EXCEPT !.cost = @ + c]) /\ Goto(m, "answer")
    <3>1. [seen[m] EXCEPT !.cost = @ + c] = [seen[m] EXCEPT !.cost = @ + c, !.todo = seen[m].todo]
      BY Facts DEF SeenRow
    <3> QED
      BY <1>3, <2>2, <2>3, <3>1
  <2>4. CASE \E n \in Batches : Note(m, [[seen[m] EXCEPT !.cost = @ + c] EXCEPT !.todo = n])
                                  /\ Goto(m, "tools")
    <3>1. PICK n \in Batches : Note(m, [[seen[m] EXCEPT !.cost = @ + c] EXCEPT !.todo = n])
                                 /\ Goto(m, "tools")
      BY <2>4
    <3>2. n \in Nat /\ n > 0
      BY DEF AiMessagesAssumption
    <3>3. [[seen[m] EXCEPT !.cost = @ + c] EXCEPT !.todo = n]
            = [seen[m] EXCEPT !.cost = @ + c, !.todo = n]
      OBVIOUS
    <3> QED
      BY <1>3, <3>1, <3>2, <3>3
  <2> QED
    BY <2>1, <2>3, <2>4
<1> QED
  BY <1>2, <1>4

-----------------------------------------------------------------------------
(* The tools *)

\* One result counted: where the message goes, and what is left of its budgets.
LEMMA ToolResultFact ==
    ASSUME AiMessagesAssumption, IInv, NEW m \in Messages, CanCall(m),
           NEW n \in ResultRows \union {0}, NEW p \in {0, 1}, RecordToolResult(m, n, p),
           UNCHANGED <<now, Database>>, chain' \in {chain, m}
    PROVE  IInv'
<1> USE DEF InMain, InReader
<1> DEFINE h == [seen[m] EXCEPT !.made = @ + 1, !.rows = @ + n, !.todo = @ - 1, !.proposed = @ + p]
           l == IF h.rows > MaxRows THEN "answer" ELSE IF h.todo = 0 THEN "ask" ELSE "tools"
<1>1. pc[m] = "tools" /\ seen[m] \in SeenRow /\ seen[m].todo > 0 /\ n \in Nat
  BY Facts DEF CanCall, AiMessagesAssumption
<1>2. /\ seen[m].made \in Nat /\ seen[m].rows \in Nat /\ seen[m].todo \in Nat
      /\ seen[m].proposed \in Nat
  BY <1>1 DEF SeenRow
<1>3. /\ seen[m].made + 1 \in Nat /\ seen[m].rows + n \in Nat /\ seen[m].todo - 1 \in Nat
      /\ seen[m].proposed + p \in Nat
  BY <1>1, <1>2
<1>4. h \in SeenRow
  BY <1>1, <1>3 DEF SeenRow
<1>5. /\ h.session = seen[m].session /\ h.made = seen[m].made + 1 /\ h.rows = seen[m].rows + n
      /\ h.todo = seen[m].todo - 1
  BY <1>1 DEF SeenRow
<1>6. h.window = seen[m].window /\ h.admitted = seen[m].admitted
  BY <1>1 DEF SeenRow
<1>7. Note(m, h) /\ Goto(m, l)
  BY DEF RecordToolResult
<1> HIDE DEF h
<1>8. h.made <= MaxToolCalls
  BY <1>2, <1>5, Facts DEF CanCall, ToolCallsExhausted
<1>9. \E last \in ResultRows : h.rows <= MaxRows + last
  <2>1. seen[m].rows <= MaxRows /\ MaxRows \in Nat
    BY <1>1, Facts
  <2>2. \A k \in ResultRows : k \in Nat
    BY DEF AiMessagesAssumption
  <2>3. ResultRows # {}
    BY DEF AiMessagesAssumption
  <2>4. PICK k \in ResultRows : n <= k
    <3>1. CASE n \in ResultRows
      BY <1>1, <3>1
    <3>2. CASE n = 0
      <4>1. PICK k \in ResultRows : TRUE
        BY <2>3
      <4>2. 0 <= k
        BY <2>2, <4>1
      <4> QED
        BY <3>2, <4>1, <4>2
    <3> QED
      BY <3>1, <3>2
  <2>5. k \in ResultRows /\ k \in Nat /\ n <= k
    BY <2>2, <2>4
  <2>6. h.rows <= MaxRows + k
    BY <1>1, <1>2, <1>5, <2>1, <2>5
  <2> QED
    BY <2>5, <2>6
<1>10. /\ l # "answer" => h.rows <= MaxRows
       /\ l = "tools" => h.todo > 0
  <2>1. MaxRows \in Nat /\ h.rows \in Nat /\ h.todo \in Nat
    BY <1>3, <1>5, Facts
  <2> QED
    BY <2>1
<1>11. l \in {"answer", "ask", "tools"}
  OBVIOUS
<1> HIDE DEF l
<1>12. Runs(m, l, h)
  BY <1>1, <1>4, <1>5, <1>6, <1>7, <1>8, <1>9, <1>10, <1>11 DEF Runs, CountedAlike
<1> QED
  BY <1>12, RunsInv

LEMMA ToolsInv ==
    ASSUME AiMessagesAssumption, IInv, NEW m \in Messages, ReadTool(m) \/ ProposeTool(m)
    PROVE  IInv'
<1>1. CASE ReadTool(m)
  <2>1. PICK n \in ResultRows : RecordToolResult(m, n, 0)
    BY <1>1 DEF ReadTool
  <2> QED
    BY <1>1, <2>1, ToolResultFact DEF ReadTool
<1>2. CASE ProposeTool(m)
  <2>1. /\ CanCall(m) /\ RecordToolResult(m, 0, 1) /\ chain' = m
        /\ UNCHANGED <<now, Database>>
    BY <1>2 DEF ProposeTool, StoredAfterTool
  <2> QED
    BY <2>1, ToolResultFact
<1> QED
  BY <1>1, <1>2

LEMMA AnswerInv ==
    ASSUME AiMessagesAssumption, IInv, NEW m \in Messages, Answer(m)
    PROVE  IInv'
<1>1. /\ pc[m] = "answer" /\ Goto(m, "answered") /\ Note(m, Left(m))
      /\ sessions' = [sessions EXCEPT ![seen[m].session].cost = CostAfter(m)]
      /\ stored' = [stored EXCEPT ![m] = seen[m].proposed]
      /\ meter' = meter /\ now' = now
  BY DEF Answer
<1>2. Left(m).proposed = seen[m].proposed
  BY Facts DEF Left, SeenRow
<1>3. CostAfter(m) \in Nat
  <2>1. /\ seen[m].session \in Sessions /\ seen[m].read \in Nat /\ seen[m].cost \in Nat
    BY <1>1, Facts DEF SeenRow
  <2> QED
    BY <2>1, Facts DEF CostAfter
<1>4. sessions' \in [Sessions -> [day : Nat \union {None}, cost : Nat]]
  BY <1>1, <1>3, Facts
<1>5. chain' \in Messages \union {None}
  BY ReleaseFact DEF Answer
<1>6. /\ Left(m) \in SeenRow /\ Left(m).session = seen[m].session
      /\ CountedAlike(seen[m], Left(m)) /\ Left(m).made = 0 /\ Left(m).rows = 0
  BY LeftFact
<1>7. Proceeds(m, "answered", Left(m))
  BY <1>1, <1>2, <1>4, <1>5, <1>6, Facts, EmptyFact DEF Proceeds, Places, Done
<1> QED
  BY <1>7, ProceedsInv

-----------------------------------------------------------------------------
(* The meter *)

LEMMA MeterInv ==
    ASSUME AiMessagesAssumption, IInv, NEW m \in Messages, Meter(m)
    PROVE  IInv'
<1> DEFINE u == Sender[m]
           in == Hit(m) <= WindowLimit
           h == [seen[m] EXCEPT !.window = now, !.admitted = in]
           l == IF in THEN "cap" ELSE "refused"
<1>1. /\ u \in Users /\ now \in Windows /\ meter \in [Users -> [Windows -> Nat]]
      /\ None \notin Windows /\ WindowLimit \in Nat
  BY DEF IInv, TypeOK, AiMessagesAssumption, Windows
<1>2. /\ pc[m] = "meter" /\ seen[m] \in SeenRow /\ seen \in [Messages -> SeenRow]
      /\ seen[m].window = None /\ pc \in [Messages -> Places]
  BY Facts DEF Meter, IInv, TypeOK
<1>3. /\ meter' = [meter EXCEPT ![u][now] = Hit(m)]
      /\ seen' = [seen EXCEPT ![m] = h] /\ pc' = [pc EXCEPT ![m] = l]
      /\ UNCHANGED <<now, sessions, stored, chain>>
  BY DEF Meter
<1>5. Hit(m) = meter[u][now] + 1 /\ meter[u][now] \in Nat /\ Hit(m) \in Nat
  BY <1>1 DEF Hit
<1>4. in \in BOOLEAN
  BY <1>1, <1>5
<1> HIDE DEF in, l
<1>6. h \in SeenRow
  BY <1>1, <1>2, <1>4 DEF SeenRow
<1>7. /\ h.session = seen[m].session /\ h.made = seen[m].made /\ h.rows = seen[m].rows
      /\ h.todo = seen[m].todo /\ h.proposed = seen[m].proposed
      /\ h.window = now /\ h.admitted = in
  BY <1>2 DEF SeenRow
<1>8. l \in {"cap", "refused"} /\ l \in Places
  BY DEF l, Places, InMain, InReader, Done
<1> HIDE DEF h
<1>9. TypeOK'
  <2>1. meter' \in [Users -> [Windows -> Nat]]
    BY <1>1, <1>3, <1>5
  <2>2. pc' \in [Messages -> Places] /\ seen' \in [Messages -> SeenRow]
    BY <1>2, <1>3, <1>6, <1>8
  <2> QED
    BY <1>3, <2>1, <2>2 DEF IInv, TypeOK
<1>10. Progress'
  <2> SUFFICES ASSUME NEW o \in Messages
               PROVE  /\ pc'[o] # "idle" => seen'[o].session \in Sessions
                      /\ pc'[o] \in {"idle", "connect", "reader", "gate", "meter"} =>
                           seen'[o].window = None
                      /\ pc'[o] # "answer" => seen'[o].rows <= MaxRows
                      /\ pc'[o] = "tools" => seen'[o].todo > 0
    BY DEF Progress
  <2>1. CASE o = m
    BY <1>2, <1>3, <1>7, <1>8, <2>1, Facts
  <2>2. CASE o # m
    BY <1>2, <1>3, <2>2 DEF IInv, Progress
  <2> QED
    BY <2>1, <2>2
<1>11. BudgetsHold'
  <2>1. \A o \in Messages : seen'[o].made = seen[o].made /\ seen'[o].rows = seen[o].rows
    BY <1>2, <1>3, <1>7
  <2> QED
    BY <2>1 DEF IInv, BudgetsHold
<1>12. ProposalsOfAnswers'
  <2>1. \A o \in Messages : /\ seen'[o].proposed = seen[o].proposed
                            /\ pc'[o] = "answered" <=> pc[o] = "answered"
    BY <1>2, <1>3, <1>7, <1>8
  <2> QED
    BY <1>3, <2>1 DEF IInv, ProposalsOfAnswers
<1>13. MeterCountsEveryMessage'
  <2> SUFFICES ASSUME NEW v \in Users, NEW w \in Windows
               PROVE  /\ meter'[v][w] = Cardinality(CountedIn(v, w)')
                      /\ Cardinality(AdmittedIn(v, w)') <= WindowLimit
    BY DEF MeterCountsEveryMessage, CountedIn, AdmittedIn
  <2>1. /\ meter[v][w] = Cardinality(CountedIn(v, w))
        /\ Cardinality(AdmittedIn(v, w)) <= WindowLimit
    BY DEF IInv, MeterCountsEveryMessage, CountedIn, AdmittedIn
  <2>2. \A o \in Messages : o # m => seen'[o] = seen[o]
    BY <1>2, <1>3
  <2>3. seen'[m].window = now /\ seen'[m].admitted = in
    BY <1>2, <1>3, <1>7
  <2>4. IsFiniteSet(Messages)
    BY DEF AiMessagesAssumption
  <2>5. CASE v = u /\ w = now
    <3>1. m \notin CountedIn(v, w)
      BY <1>1, <1>2, <2>5 DEF CountedIn
    <3>2. CountedIn(v, w)' = CountedIn(v, w) \union {m}
      BY <2>2, <2>3, <2>5 DEF CountedIn
    <3>3. IsFiniteSet(CountedIn(v, w)) /\ IsFiniteSet(AdmittedIn(v, w))
      <4>1. CountedIn(v, w) \subseteq Messages /\ AdmittedIn(v, w) \subseteq Messages
        BY DEF CountedIn, AdmittedIn
      <4> QED
        BY <2>4, <4>1, FS_Subset
    <3>4. Cardinality(CountedIn(v, w)') = Cardinality(CountedIn(v, w)) + 1
      BY <3>1, <3>2, <3>3, FS_AddElement
    <3>5. meter'[v][w] = Cardinality(CountedIn(v, w)')
      BY <1>1, <1>3, <1>5, <2>1, <2>5, <3>4
    <3>6. CASE in
      <4>1. AdmittedIn(v, w)' \subseteq CountedIn(v, w)'
        BY DEF AdmittedIn
      <4>2. IsFiniteSet(CountedIn(v, w)')
        <5>1. IsFiniteSet(CountedIn(v, w) \union {m})
          BY <3>3, FS_AddElement
        <5> QED
          BY <3>2, <5>1, Zenon
      <4>3. Cardinality(CountedIn(v, w)') = Hit(m)
        BY <1>5, <2>1, <2>5, <3>4
      <4>4. /\ Cardinality(AdmittedIn(v, w)') \in Nat
            /\ Cardinality(AdmittedIn(v, w)') <= Cardinality(CountedIn(v, w)')
        BY <4>1, <4>2, FS_Subset, FS_CardinalityType
      <4>5. Hit(m) <= WindowLimit
        BY <3>6 DEF in
      <4>6. Cardinality(AdmittedIn(v, w)') <= WindowLimit
        <5> DEFINE a == Cardinality(AdmittedIn(v, w)')
                   b == Hit(m)
        <5>1. a \in Nat /\ b \in Nat /\ WindowLimit \in Nat /\ a <= b /\ b <= WindowLimit
          BY <1>1, <1>5, <4>3, <4>4, <4>5
        <5> HIDE DEF a, b
        <5>2. a <= WindowLimit
          BY <5>1
        <5> QED
          BY <5>2 DEF a
      <4> HIDE DEF in, h
      <4> QED
        BY <3>5, <4>6, Zenon
    <3>7. CASE ~in
      <4>1. AdmittedIn(v, w)' = AdmittedIn(v, w)
        <5>1. \A o \in CountedIn(v, w) : seen'[o] = seen[o]
          BY <2>2, <3>1 DEF CountedIn
        <5>2. ~seen'[m].admitted
          BY <2>3, <3>7, Zenon
        <5> QED
          BY <3>1, <3>2, <5>1, <5>2, Zenon DEF AdmittedIn
      <4> QED
        BY <2>1, <3>5, <4>1
    <3> QED
      BY <3>6, <3>7
  <2>6. CASE ~(v = u /\ w = now)
    <3>1. meter'[v][w] = meter[v][w]
      BY <1>1, <1>3, <2>6
    <3>2. CountedIn(v, w)' = CountedIn(v, w)
      <4>1. m \notin CountedIn(v, w) /\ m \notin CountedIn(v, w)'
        BY <1>1, <1>2, <2>3, <2>6 DEF CountedIn
      <4>2. \A o \in Messages : o \in CountedIn(v, w)' <=> o \in CountedIn(v, w)
        BY <2>2, <4>1 DEF CountedIn
      <4>3. CountedIn(v, w) \subseteq Messages /\ CountedIn(v, w)' \subseteq Messages
        BY DEF CountedIn
      <4> QED
        BY <4>2, <4>3
    <3>3. AdmittedIn(v, w)' = AdmittedIn(v, w)
      <4>1. m \notin CountedIn(v, w)
        BY <1>1, <1>2 DEF CountedIn
      <4>2. \A o \in CountedIn(v, w) : seen'[o] = seen[o]
        BY <2>2, <4>1 DEF CountedIn
      <4> QED
        BY <3>2, <4>2, Zenon DEF AdmittedIn
    <3> QED
      BY <2>1, <3>1, <3>2, <3>3
  <2> QED
    BY <2>5, <2>6
<1> QED
  BY <1>9, <1>10, <1>11, <1>12, <1>13 DEF IInv

-----------------------------------------------------------------------------
(* The start, every step, and the theorems *)

LEMMA InitInv ==
    ASSUME AiMessagesAssumption, Init
    PROVE  IInv
<1>1. /\ 0 \in Windows /\ None \notin Windows /\ WindowLimit \in Nat /\ MaxRows \in Nat
  BY DEF AiMessagesAssumption, Windows
<1>2. /\ Unread \in SeenRow /\ Unread.window = None /\ Unread.rows = 0 /\ Unread.made = 0
  BY DEF Unread, Handler, SeenRow
<1>3. NoSession \in [day : Nat \union {None}, cost : Nat]
  BY DEF NoSession, SessionRow
<1>4. TypeOK
  BY <1>1, <1>2, <1>3 DEF Init, TypeOK, Places
<1>5. Progress
  BY <1>1, <1>2 DEF Init, Progress
<1>6. BudgetsHold
  BY <1>2, EmptyFact DEF Init, BudgetsHold
<1>7. ProposalsOfAnswers
  BY DEF Init, ProposalsOfAnswers
<1>8. MeterCountsEveryMessage
  <2> SUFFICES ASSUME NEW u \in Users, NEW w \in Windows
               PROVE  /\ meter[u][w] = Cardinality(CountedIn(u, w))
                      /\ Cardinality(AdmittedIn(u, w)) <= WindowLimit
    BY DEF MeterCountsEveryMessage, CountedIn, AdmittedIn
  <2>1. CountedIn(u, w) = {}
    BY <1>1, <1>2 DEF Init, CountedIn
  <2>2. AdmittedIn(u, w) = {}
    BY <2>1 DEF AdmittedIn
  <2> QED
    BY <1>1, <2>1, <2>2, FS_EmptySet DEF Init
<1> QED
  BY <1>4, <1>5, <1>6, <1>7, <1>8 DEF IInv

\* What the clock and the sessions do not touch.
LEMMA SameMessagesInv ==
    ASSUME IInv, UNCHANGED <<meter, stored, pc, seen>>, TypeOK'
    PROVE  IInv'
<1>1. Progress'
  BY DEF IInv, Progress
<1>2. MeterCountsEveryMessage'
  BY DEF IInv, MeterCountsEveryMessage
<1>3. BudgetsHold' /\ ProposalsOfAnswers'
  BY DEF IInv, BudgetsHold, ProposalsOfAnswers
<1> QED
  BY <1>1, <1>2, <1>3 DEF IInv

\* The clock, and a new session.
LEMMA OutsideInv ==
    ASSUME AiMessagesAssumption, IInv, Tick \/ \E s \in Sessions : StartSession(s)
    PROVE  IInv'
<1>1. UNCHANGED <<meter, stored, chain, pc, seen>>
  BY DEF Tick, StartSession
<1>2. now' \in Windows
  BY DEF IInv, TypeOK, Tick, StartSession, Windows, AiMessagesAssumption
<1>3. sessions' \in [Sessions -> [day : Nat \union {None}, cost : Nat]]
  <2>1. Today \in Nat
    <3>1. now \in Nat /\ DayLength \in Nat /\ DayLength > 0
      BY DEF IInv, TypeOK, Windows, AiMessagesAssumption
    <3> QED
      BY <3>1 DEF Today, Day
  <2> QED
    BY <2>1 DEF IInv, TypeOK, Tick, StartSession, SessionRow
<1>4. TypeOK'
  BY <1>1, <1>2, <1>3 DEF IInv, TypeOK
<1> QED
  BY <1>1, <1>4, SameMessagesInv

LEMMA StepInv ==
    ASSUME AiMessagesAssumption, IInv, [Next]_vars
    PROVE  IInv'
<1>1. CASE UNCHANGED vars
  <2>1. TypeOK'
    BY <1>1 DEF vars, IInv, TypeOK
  <2> QED
    BY <1>1, <2>1, SameMessagesInv DEF vars
<1>2. CASE Tick \/ \E s \in Sessions : StartSession(s)
  BY <1>2, OutsideInv
<1>3. ASSUME NEW m \in Messages, Arrive(m) \/ Step(m) \/ Fail(m)
      PROVE  IInv'
  BY <1>3, ArriveInv, GatesInv, MeterInv, CallModelInv, ToolsInv, AnswerInv DEF Step
<1> QED
  BY <1>1, <1>2, <1>3 DEF Next

LEMMA Invariant == Spec => []IInv
<1>1. Init => IInv
  BY AiMessagesAssumption, InitInv
<1>2. IInv /\ [Next]_vars => IInv'
  BY AiMessagesAssumption, StepInv
<1> QED
  BY <1>1, <1>2, PTL DEF Spec

\* The tables and the handlers keep to their values.
THEOREM TypeCorrect == Spec => []TypeOK
<1>1. IInv => TypeOK
  BY DEF IInv
<1> QED
  BY <1>1, Invariant, PTL

\* The meter of an owner's window is the number of messages that have asked
\* in it, answered, refused or rolled back, and no more are let through than
\* the limit (_meter_ai_request, ratelimit.hit).
THEOREM MeterCounts == Spec => []MeterCountsEveryMessage
<1>1. IInv => MeterCountsEveryMessage
  BY DEF IInv
<1> QED
  BY <1>1, Invariant, PTL

\* No batch of tools a model asks for exceeds the budgets of its message
\* (record_tool_result, tool_calls_exhausted).
THEOREM WithinBudgets == Spec => []BudgetsHold
<1>1. IInv => BudgetsHold
  BY DEF IInv
<1> QED
  BY <1>1, Invariant, PTL

\* A proposal is stored exactly when the message that made it is answered.
THEOREM ProposalsFollowAnswers == Spec => []ProposalsOfAnswers
<1>1. IInv => ProposalsOfAnswers
  BY DEF IInv
<1> QED
  BY <1>1, Invariant, PTL
-----------------------------------------------------------------------------
(* Sums over finite sets *)

LEMMA Least ==
    ASSUME NEW B, B \subseteq Nat, B # {}
    PROVE  \E m \in B : \A k \in B : m <= k
<1> DEFINE R == {p \in Nat \X Nat : p[1] < p[2]}
<1>1. IsWellFoundedOn(R, Nat)
  BY NatLessThanWellFounded DEF OpToRel
<1>2. PICK m \in B : \A k \in B : <<k, m>> \notin R
  <2> HIDE DEF R
  <2> QED
    BY <1>1, WFMin
<1>3. ASSUME NEW k \in B PROVE m <= k
  <2>1. <<k, m>> \in Nat \X Nat /\ ~ (k < m)
    BY <1>2
  <2> QED
    BY <2>1
<1> QED
  BY <1>3

\* The element that a fold takes next, and the equation that its sum solves.
PickIn(s) == CHOOSE x \in s : TRUE
IsSum(w, S, f) ==
    f = [s \in SUBSET S |-> IF s = {} THEN 0 ELSE w[PickIn(s)] + f[s \ {PickIn(s)}]]

LEMMA PickFact ==
    ASSUME NEW S, IsFiniteSet(S), NEW s \in SUBSET S, s # {}
    PROVE  /\ PickIn(s) \in s /\ s \ {PickIn(s)} \in SUBSET S
           /\ IsFiniteSet(s) /\ Cardinality(s) \in Nat
           /\ \A x \in s : /\ Cardinality(s \ {x}) = Cardinality(s) - 1
                           /\ Cardinality(s \ {x}) \in Nat
<1>1. PickIn(s) \in s
  BY DEF PickIn
<1>2. IsFiniteSet(s)
  BY FS_Subset
<1>3. Cardinality(s) \in Nat
  BY <1>2, FS_CardinalityType
<1>4. ASSUME NEW x \in s
      PROVE  Cardinality(s \ {x}) = Cardinality(s) - 1 /\ Cardinality(s \ {x}) \in Nat
  BY <1>2, FS_RemoveElement, FS_CardinalityType
<1> QED
  BY <1>1, <1>2, <1>3, <1>4

LEMMA SmallestSet ==
    ASSUME NEW S, IsFiniteSet(S), NEW D, D \subseteq SUBSET S, D # {}
    PROVE  \E s \in D : \A t \in D : Cardinality(s) <= Cardinality(t)
<1> DEFINE B == {Cardinality(t) : t \in D}
<1>1. B \subseteq Nat /\ B # {}
  BY FS_Subset, FS_CardinalityType
<1>2. PICK n \in B : \A k \in B : n <= k
  <2> HIDE DEF B
  <2> QED
    BY <1>1, Least
<1> QED
  BY <1>2

LEMMA SumUnique ==
    ASSUME NEW S, IsFiniteSet(S), NEW w, NEW f, IsSum(w, S, f), NEW g, IsSum(w, S, g)
    PROVE  f = g
<1> DEFINE D == {s \in SUBSET S : f[s] # g[s]}
<1>1. SUFFICES ASSUME D # {} PROVE FALSE
  BY DEF IsSum
<1>2. PICK s \in D : \A t \in D : Cardinality(s) <= Cardinality(t)
  <2>1. D \subseteq SUBSET S
    OBVIOUS
  <2> HIDE DEF D
  <2> QED
    BY <1>1, <2>1, SmallestSet
<1>3. s \in SUBSET S /\ s # {}
  BY DEF IsSum
<1>4. /\ s \ {PickIn(s)} \in SUBSET S
      /\ Cardinality(s \ {PickIn(s)}) = Cardinality(s) - 1 /\ Cardinality(s) \in Nat
  BY <1>3, PickFact
<1>5. s \ {PickIn(s)} \notin D
  BY <1>2, <1>4
<1>6. f[s \ {PickIn(s)}] = g[s \ {PickIn(s)}]
  BY <1>4, <1>5
<1> QED
  BY <1>3, <1>6 DEF IsSum

\* Sums of sets of up to n elements.
SumsTo(w, S, n, f) ==
    \A s \in SUBSET S : Cardinality(s) <= n =>
        f[s] = IF s = {} THEN 0 ELSE w[PickIn(s)] + f[s \ {PickIn(s)}]

LEMMA SumExists ==
    ASSUME NEW S, IsFiniteSet(S), NEW w, \A x \in S : w[x] \in Nat
    PROVE  \E f \in [SUBSET S -> Nat] : IsSum(w, S, f)
<1> DEFINE B == {n \in Nat : ~ \E f \in [SUBSET S -> Nat] : SumsTo(w, S, n, f)}
<1>0. \A s \in SUBSET S : Cardinality(s) \in Nat /\ Cardinality(s) <= Cardinality(S)
                          /\ (Cardinality(s) = 0 <=> s = {})
  BY FS_Subset, FS_CardinalityType, FS_EmptySet
<1>1. B = {}
  <2> SUFFICES ASSUME B # {} PROVE FALSE
    OBVIOUS
  <2>1. PICK n \in B : \A k \in B : n <= k
    <3>1. B \subseteq Nat
      OBVIOUS
    <3> HIDE DEF B
    <3> QED
      BY <3>1, Least
  <2>2. n # 0
    <3>1. SumsTo(w, S, 0, [s \in SUBSET S |-> 0])
      BY <1>0 DEF SumsTo
    <3>2. [s \in SUBSET S |-> 0] \in [SUBSET S -> Nat]
      OBVIOUS
    <3> QED
      BY <2>1, <3>1, <3>2
  <2>3. PICK g \in [SUBSET S -> Nat] : SumsTo(w, S, n - 1, g)
    <3>1. n \in Nat /\ n - 1 \in Nat
      BY <2>1, <2>2
    <3>2. n - 1 \notin B
      <4> HIDE DEF B
      <4> QED
        BY <2>1, <3>1
    <3> QED
      BY <3>1, <3>2
  <2> DEFINE f == [s \in SUBSET S |->
                     IF Cardinality(s) < n THEN g[s] ELSE w[PickIn(s)] + g[s \ {PickIn(s)}]]
  <2>4. ASSUME NEW s \in SUBSET S, s # {}
        PROVE  /\ PickIn(s) \in S /\ s \ {PickIn(s)} \in SUBSET S
               /\ Cardinality(s \ {PickIn(s)}) = Cardinality(s) - 1
    BY <2>4, PickFact
  <2>5. f \in [SUBSET S -> Nat]
    <3> SUFFICES ASSUME NEW s \in SUBSET S
                 PROVE  (IF Cardinality(s) < n THEN g[s]
                         ELSE w[PickIn(s)] + g[s \ {PickIn(s)}]) \in Nat
      OBVIOUS
    <3>1. CASE s = {}
      BY <1>0, <2>1, <2>2, <3>1
    <3>2. CASE s # {}
      BY <2>4, <3>2
    <3> QED
      BY <3>1, <3>2
  <2>6. SumsTo(w, S, n, f)
    <3> SUFFICES ASSUME NEW s \in SUBSET S, Cardinality(s) <= n
                 PROVE  f[s] = IF s = {} THEN 0 ELSE w[PickIn(s)] + f[s \ {PickIn(s)}]
      BY DEF SumsTo
    <3>1. CASE s = {}
      BY <1>0, <2>1, <2>2, <2>3, <3>1 DEF SumsTo
    <3>2. CASE s # {}
      <4>1. Cardinality(s) \in Nat /\ f[s \ {PickIn(s)}] = g[s \ {PickIn(s)}]
        BY <1>0, <2>1, <2>4, <3>2
      <4>2. Cardinality(s) < n => g[s] = w[PickIn(s)] + g[s \ {PickIn(s)}]
        BY <1>0, <2>1, <2>3, <3>2 DEF SumsTo
      <4> QED
        BY <3>2, <4>1, <4>2
    <3> QED
      BY <3>1, <3>2
  <2> QED
    BY <2>1, <2>5, <2>6
<1>2. PICK f \in [SUBSET S -> Nat] : SumsTo(w, S, Cardinality(S), f)
  BY <1>1, FS_CardinalityType
<1>3. IsSum(w, S, f)
  BY <1>0, <1>2 DEF SumsTo, IsSum
<1> QED
  BY <1>3

\* The order in which the fold takes the elements does not matter.
LEMMA SumRemoves ==
    ASSUME NEW S, IsFiniteSet(S), NEW w, \A x \in S : w[x] \in Nat,
           NEW f \in [SUBSET S -> Nat], IsSum(w, S, f),
           NEW s \in SUBSET S, NEW x \in s
    PROVE  f[s] = w[x] + f[s \ {x}]
<1> DEFINE D == {t \in SUBSET S : \E y \in t : f[t] # w[y] + f[t \ {y}]}
<1>1. SUFFICES ASSUME D # {} PROVE FALSE
  OBVIOUS
<1>2. PICK t \in D : \A u \in D : Cardinality(t) <= Cardinality(u)
  <2>1. D \subseteq SUBSET S
    OBVIOUS
  <2> HIDE DEF D
  <2> QED
    BY <1>1, <2>1, SmallestSet
<1>3. PICK y \in t : f[t] # w[y] + f[t \ {y}]
  BY <1>2
<1> DEFINE c == PickIn(t)
<1>4. /\ c \in t /\ t \in SUBSET S /\ t \ {c} \in SUBSET S /\ t \ {y} \in SUBSET S
      /\ Cardinality(t) \in Nat
      /\ Cardinality(t \ {c}) = Cardinality(t) - 1
      /\ Cardinality(t \ {y}) = Cardinality(t) - 1
  BY <1>3, PickFact
<1>5. f[t] = w[c] + f[t \ {c}]
  BY <1>3, <1>4 DEF IsSum
<1> HIDE DEF c
<1>6. y # c
  BY <1>3, <1>5
<1>7. t \ {c} \notin D /\ t \ {y} \notin D
  <2> HIDE DEF D
  <2> QED
    BY <1>2, <1>4
<1>8. f[t \ {c}] = w[y] + f[(t \ {c}) \ {y}]
  BY <1>4, <1>6, <1>7
<1>9. f[t \ {y}] = w[c] + f[(t \ {y}) \ {c}]
  BY <1>4, <1>6, <1>7
<1>10. (t \ {c}) \ {y} = (t \ {y}) \ {c} /\ (t \ {c}) \ {y} \in SUBSET S
  BY <1>4
<1>11. w[c] \in Nat /\ w[y] \in Nat /\ f[(t \ {c}) \ {y}] \in Nat
  BY <1>4, <1>10
<1>12. f[t] = w[c] + (w[y] + f[(t \ {c}) \ {y}])
  BY <1>5, <1>8
<1>13. f[t \ {y}] = w[c] + f[(t \ {c}) \ {y}]
  BY <1>9, <1>10
<1> QED
  BY <1>3, <1>11, <1>12, <1>13

Total(w, S) == (CHOOSE f : IsSum(w, S, f))[S]

LEMMA TotalFact ==
    ASSUME NEW S, IsFiniteSet(S), NEW w, \A x \in S : w[x] \in Nat,
           NEW f, IsSum(w, S, f)
    PROVE  Total(w, S) = f[S] /\ Total(w, S) \in Nat /\ f \in [SUBSET S -> Nat]
<1>1. PICK g \in [SUBSET S -> Nat] : IsSum(w, S, g)
  BY SumExists
<1>2. g = f
  BY <1>1, SumUnique
<1>3. IsSum(w, S, CHOOSE h : IsSum(w, S, h))
  OBVIOUS
<1>4. (CHOOSE h : IsSum(w, S, h)) = f
  <2> DEFINE k == CHOOSE h : IsSum(w, S, h)
  <2> HIDE DEF k
  <2> QED
    BY <1>3, SumUnique DEF k
<1> QED
  BY <1>1, <1>2, <1>4 DEF Total

\* A new element adds its weight.
LEMMA TotalAdds ==
    ASSUME NEW S, IsFiniteSet(S), NEW x, x \notin S, NEW w, \A y \in S \union {x} : w[y] \in Nat
    PROVE  Total(w, S \union {x}) = Total(w, S) + w[x]
<1> DEFINE T == S \union {x}
<1>1. IsFiniteSet(T)
  BY FS_AddElement
<1>2. PICK f \in [SUBSET T -> Nat] : IsSum(w, T, f)
  BY <1>1, SumExists
<1>3. f[T] = w[x] + f[S]
  <2>1. T \in SUBSET T /\ x \in T /\ T \ {x} = S
    OBVIOUS
  <2> HIDE DEF T
  <2> QED
    BY <1>1, <1>2, <2>1, SumRemoves DEF T
<1> DEFINE g == [s \in SUBSET S |-> f[s]]
<1>4. IsSum(w, S, g)
  <2>1. ASSUME NEW s \in SUBSET S
        PROVE  g[s] = IF s = {} THEN 0 ELSE w[PickIn(s)] + g[s \ {PickIn(s)}]
    <3>1. s \ {PickIn(s)} \in SUBSET S /\ s \in SUBSET T
      OBVIOUS
    <3> QED
      BY <1>2, <3>1 DEF IsSum
  <2>2. g = [s \in SUBSET S |-> g[s]]
    OBVIOUS
  <2> HIDE DEF g
  <2> QED
    BY <2>1, <2>2 DEF IsSum
<1>5. Total(w, T) = f[T] /\ Total(w, S) = f[S] /\ f[S] \in Nat
  <2>1. g[S] = f[S] /\ f[S] \in Nat
    BY <1>2
  <2> HIDE DEF g, T
  <2> QED
    BY <1>1, <1>2, <1>4, <2>1, TotalFact DEF T
<1> QED
  BY <1>3, <1>5

LEMMA TotalEmpty ==
    ASSUME NEW w
    PROVE  Total(w, {}) = 0
<1>1. IsFiniteSet({}) /\ \A x \in {} : w[x] \in Nat
  BY FS_EmptySet
<1>2. PICK f : IsSum(w, {}, f)
  BY <1>1, SumExists
<1>3. f[{}] = 0
  BY <1>2 DEF IsSum
<1> QED
  BY <1>1, <1>2, <1>3, TotalFact

\* The sum of what handlers have cost, as the community module computes it.
CostSum(h, T) == MapThenSumSet(LAMBDA m : h[m].cost, T)

LEMMA CostSumIsTotal ==
    ASSUME NEW T, IsFiniteSet(T), NEW h, NEW w, \A m \in T : w[m] = h[m].cost /\ w[m] \in Nat
    PROVE  CostSum(h, T) = Total(w, T)
<1> DEFINE Solves(f) == f = [s \in SUBSET T |->
                               IF s = {} THEN 0 ELSE h[PickIn(s)].cost + f[s \ {PickIn(s)}]]
<1>1. CostSum(h, T) = (CHOOSE f : Solves(f))[T]
  BY DEF CostSum, MapThenSumSet, MapThenFoldSet, PickIn
<1>2. \A s \in SUBSET T : s # {} => PickIn(s) \in T
  BY DEF PickIn
<1>3. ASSUME NEW f PROVE Solves(f) <=> IsSum(w, T, f)
  BY <1>2 DEF IsSum
<1>4. PICK f \in [SUBSET T -> Nat] : IsSum(w, T, f)
  BY SumExists
<1> DEFINE k == CHOOSE g : Solves(g)
<1>5. Solves(k)
  <2>1. Solves(f)
    BY <1>3, <1>4
  <2> HIDE DEF Solves
  <2> QED
    BY <2>1
<1> HIDE DEF Solves, k
<1>6. IsSum(w, T, k)
  BY <1>3, <1>5
<1> QED
  BY <1>1, <1>6, TotalFact DEF k

\* What handlers have cost: the sum depends on nothing but its terms, and is
\* larger by the cost of one more handler.
LEMMA CostSumSame ==
    ASSUME NEW T, IsFiniteSet(T), NEW h, NEW k,
           \A m \in T : h[m].cost \in Nat /\ k[m].cost = h[m].cost
    PROVE  CostSum(h, T) = CostSum(k, T) /\ CostSum(h, T) \in Nat
<1> DEFINE w == [m \in T |-> h[m].cost]
<1>1. \A m \in T : w[m] = h[m].cost /\ w[m] = k[m].cost /\ w[m] \in Nat
  OBVIOUS
<1> HIDE DEF w
<1>2. PICK f : IsSum(w, T, f)
  BY <1>1, SumExists
<1>3. CostSum(h, T) = Total(w, T)
  BY <1>1, CostSumIsTotal
<1>4. CostSum(k, T) = Total(w, T)
  BY <1>1, CostSumIsTotal
<1>5. Total(w, T) \in Nat
  <2>1. \A m \in T : w[m] \in Nat
    BY <1>1
  <2> QED
    BY <1>2, <2>1, TotalFact
<1> QED
  BY <1>3, <1>4, <1>5

LEMMA CostSumAdds ==
    ASSUME NEW T, IsFiniteSet(T), NEW x, x \notin T, NEW h, \A m \in T \union {x} : h[m].cost \in Nat
    PROVE  CostSum(h, T \union {x}) = CostSum(h, T) + h[x].cost
<1> DEFINE w == [m \in T \union {x} |-> h[m].cost]
<1>1. \A m \in T \union {x} : w[m] = h[m].cost /\ w[m] \in Nat
  OBVIOUS
<1>2. IsFiniteSet(T \union {x})
  BY FS_AddElement
<1> HIDE DEF w
<1>3. CostSum(h, T) = Total(w, T)
  BY <1>1, CostSumIsTotal
<1>4. CostSum(h, T \union {x}) = Total(w, T \union {x})
  BY <1>1, <1>2, CostSumIsTotal
<1>5. Total(w, T \union {x}) = Total(w, T) + w[x]
  <2>1. \A m \in T \union {x} : w[m] \in Nat
    BY <1>1
  <2> QED
    BY <2>1, TotalAdds
<1> QED
  BY <1>1, <1>3, <1>4, <1>5

-----------------------------------------------------------------------------
(* The charges of a session *)

\* The answers given in a session, and what they have cost.
Answered(h, l, s) == {m \in Messages : h[m].session = s /\ l[m] = "answered"}
Paid(h, l, s) == CostSum(h, Answered(h, l, s))

\* What a handler has read of its session has been paid for: answers are only
\* added to those whose cost the session had when it was read.
ReadsBacked == \A m \in Messages : seen[m].read <= Paid(seen, pc, seen[m].session)
ChargesBacked == \A s \in Sessions : sessions[s].cost <= Paid(seen, pc, s)
Charges == ReadsBacked /\ ChargesBacked

LEMMA ChargesAreCosts == Charges => NeverOvercharged
<1> SUFFICES ASSUME Charges, NEW s \in Sessions
             PROVE  sessions[s].cost <= CostOf({m \in Messages : seen[m].session = s})
  BY DEF NeverOvercharged
<1> DEFINE T == {m \in {n \in Messages : seen[n].session = s} : pc[m] = "answered"}
<1>1. T = Answered(seen, pc, s)
  BY DEF Answered
<1>2. CostOf({m \in Messages : seen[m].session = s}) = CostSum(seen, T)
  BY DEF CostOf, CostSum
<1> HIDE DEF T
<1> QED
  BY <1>1, <1>2 DEF Charges, ChargesBacked, Paid

\* The answers of a session are finitely many, each of some cost.
LEMMA AnsweredFact ==
    ASSUME AiMessagesAssumption, NEW M \in SUBSET Messages, NEW h \in [Messages -> SeenRow]
    PROVE  IsFiniteSet(M) /\ (\A m \in M : h[m].cost \in Nat) /\ CostSum(h, M) \in Nat
<1>1. IsFiniteSet(M) /\ \A m \in M : h[m].cost \in Nat
  BY FS_Subset DEF AiMessagesAssumption, SeenRow
<1> QED
  BY <1>1, CostSumSame

\* A step that answers no message.
QuietStep ==
    /\ \A o \in Messages :
         /\ pc'[o] = "answered" <=> pc[o] = "answered"
         /\ pc[o] = "answered" => seen'[o] = seen[o]
         /\ \/ seen'[o].read = 0
            \/ seen'[o].read = seen[o].read /\ seen'[o].session = seen[o].session
            \/ /\ seen'[o].session \in Sessions
               /\ seen'[o].read = sessions[seen'[o].session].cost
    /\ \A s \in Sessions : sessions'[s].cost \in {0, sessions[s].cost}

LEMMA QuietCharges ==
    ASSUME AiMessagesAssumption, TypeOK, TypeOK', Charges, QuietStep
    PROVE  Charges'
<1>1. ASSUME NEW s
      PROVE  /\ Answered(seen', pc', s) = Answered(seen, pc, s)
             /\ Paid(seen', pc', s) = Paid(seen, pc, s)
             /\ Paid(seen, pc, s) \in Nat
  <2>1. \A o \in Answered(seen', pc', s) : o \in Answered(seen, pc, s)
    BY DEF QuietStep, Answered
  <2>2. \A o \in Answered(seen, pc, s) : o \in Answered(seen', pc', s) /\ seen'[o] = seen[o]
    BY DEF QuietStep, Answered
  <2>3. Answered(seen, pc, s) \in SUBSET Messages /\ seen \in [Messages -> SeenRow]
    BY DEF Answered, TypeOK
  <2>4. /\ IsFiniteSet(Answered(seen, pc, s)) /\ Paid(seen, pc, s) \in Nat
        /\ \A o \in Answered(seen, pc, s) : seen[o].cost \in Nat /\ seen'[o].cost = seen[o].cost
    BY <2>2, <2>3, AnsweredFact DEF Paid
  <2>5. Answered(seen', pc', s) = Answered(seen, pc, s)
    BY <2>1, <2>2
  <2>6. CostSum(seen', Answered(seen, pc, s)) = CostSum(seen, Answered(seen, pc, s))
    BY <2>4, CostSumSame
  <2> QED
    BY <2>4, <2>5, <2>6 DEF Paid
<1>2. ChargesBacked'
  <2> SUFFICES ASSUME NEW s \in Sessions
               PROVE  sessions'[s].cost <= Paid(seen', pc', s)
    BY DEF ChargesBacked
  <2>1. sessions[s].cost <= Paid(seen, pc, s) /\ sessions'[s].cost \in {0, sessions[s].cost}
    BY DEF Charges, ChargesBacked, QuietStep
  <2>2. 0 <= Paid(seen, pc, s)
    BY <1>1
  <2> QED
    BY <1>1, <2>1, <2>2
<1>3. ReadsBacked'
  <2> SUFFICES ASSUME NEW o \in Messages
               PROVE  seen'[o].read <= Paid(seen', pc', seen'[o].session)
    BY DEF ReadsBacked
  <2> DEFINE s == seen'[o].session
  <2>1. Paid(seen', pc', s) = Paid(seen, pc, s) /\ 0 <= Paid(seen, pc, s)
    BY <1>1
  <2>2. \/ seen'[o].read = 0
        \/ seen'[o].read = seen[o].read /\ s = seen[o].session
        \/ s \in Sessions /\ seen'[o].read = sessions[s].cost
    BY DEF QuietStep
  <2>3. seen[o].read <= Paid(seen, pc, seen[o].session)
    BY DEF Charges, ReadsBacked
  <2>4. s \in Sessions => sessions[s].cost <= Paid(seen, pc, s)
    BY DEF Charges, ChargesBacked
  <2> HIDE DEF s
  <2> QED
    BY <2>1, <2>2, <2>3, <2>4 DEF s
<1> QED
  BY <1>2, <1>3 DEF Charges

\* A handler that goes on: it keeps what it has read, or reads its session.
QuietMove(m, l, h) ==
    /\ pc' = [pc EXCEPT ![m] = l] /\ seen' = [seen EXCEPT ![m] = h]
    /\ l # "answered" /\ pc[m] # "answered"
    /\ \/ h.read = 0
       \/ h.read = seen[m].read /\ h.session = seen[m].session
       \/ h.session \in Sessions /\ h.read = sessions[h.session].cost
    /\ sessions' = sessions

LEMMA QuietMoveIsQuiet ==
    ASSUME TypeOK, NEW m \in Messages, NEW l, NEW h, QuietMove(m, l, h)
    PROVE  QuietStep
BY DEF TypeOK, QuietMove, QuietStep

LEMMA RefuseIsQuiet ==
    ASSUME TypeOK, NEW m \in Messages, Refuse(m), pc[m] # "answered"
    PROVE  QuietStep
<1>1. /\ Left(m).read = 0 /\ [Left(m) EXCEPT !.cost = 0, !.proposed = 0].read = 0
  BY DEF TypeOK, SeenRow, Left
<1>2. QuietMove(m, "refused", [Left(m) EXCEPT !.cost = 0, !.proposed = 0])
  BY <1>1 DEF Refuse, QuietMove
<1> QED
  BY <1>2, QuietMoveIsQuiet

LEMMA GatesAreQuiet ==
    ASSUME TypeOK, Progress, NEW m \in Messages,
           \/ Arrive(m) \/ Connect(m) \/ ConnectReader(m) \/ PoolTimeout(m) \/ Fail(m)
           \/ Gate(m) \/ Meter(m) \/ CheckDailyCap(m)
    PROVE  QuietStep
<1>0. seen[m] \in SeenRow /\ seen = [seen EXCEPT ![m] = seen[m]]
  BY DEF TypeOK
<1>1. CASE Arrive(m)
  <2>1. PICK s \in Sessions : Note(m, Handler(s))
    BY <1>1 DEF Arrive
  <2>2. QuietMove(m, "connect", Handler(s))
    BY <1>1, <2>1 DEF Arrive, QuietMove, Handler
  <2> QED
    BY <2>2, QuietMoveIsQuiet
<1>2. CASE Connect(m) \/ ConnectReader(m)
  <2>1. QuietMove(m, "reader", seen[m]) \/ QuietMove(m, "gate", seen[m])
    BY <1>0, <1>2 DEF Connect, ConnectReader, QuietMove
  <2> QED
    BY <2>1, QuietMoveIsQuiet
<1>3. CASE PoolTimeout(m) \/ Fail(m)
  BY <1>3, RefuseIsQuiet DEF PoolTimeout, NoConnection, Fail, InMain, InReader
<1>4. CASE Gate(m)
  <2>1. pc[m] = "gate" /\ seen[m].session \in Sessions
    BY <1>4 DEF Gate, Progress
  <2> DEFINE h == [seen[m] EXCEPT !.read = sessions[seen[m].session].cost]
  <2>2. h.session = seen[m].session /\ h.read = sessions[seen[m].session].cost
    BY <1>0 DEF SeenRow
  <2>3. Refuse(m) \/ (Note(m, h) /\ Goto(m, "meter") /\ UNCHANGED <<now, Database, chain>>)
    BY <1>4 DEF Gate
  <2> HIDE DEF h
  <2>4. Refuse(m) \/ QuietMove(m, "meter", h)
    BY <2>1, <2>2, <2>3 DEF QuietMove
  <2> QED
    BY <2>1, <2>4, RefuseIsQuiet, QuietMoveIsQuiet
<1>5. CASE Meter(m)
  <2> DEFINE h == [seen[m] EXCEPT !.window = now, !.admitted = Hit(m) <= WindowLimit]
             l == IF Hit(m) <= WindowLimit THEN "cap" ELSE "refused"
  <2>1. h.session = seen[m].session /\ h.read = seen[m].read
    BY <1>0 DEF SeenRow
  <2>2. pc[m] = "meter" /\ Note(m, h) /\ Goto(m, l) /\ UNCHANGED <<now, sessions, stored, chain>>
    BY <1>5 DEF Meter
  <2>3. l # "answered"
    OBVIOUS
  <2> HIDE DEF h, l
  <2>4. QuietMove(m, l, h)
    BY <2>1, <2>2, <2>3 DEF QuietMove
  <2> QED
    BY <2>4, QuietMoveIsQuiet
<1>6. CASE CheckDailyCap(m)
  <2>1. Refuse(m) \/ QuietMove(m, "route", seen[m])
    BY <1>0, <1>6 DEF CheckDailyCap, QuietMove
  <2> QED
    BY <1>6, <2>1, RefuseIsQuiet, QuietMoveIsQuiet DEF CheckDailyCap
<1> QED
  BY <1>1, <1>2, <1>3, <1>4, <1>5, <1>6

LEMMA PipelineIsQuiet ==
    ASSUME TypeOK, NEW m \in Messages,
           ClassifyIntent(m) \/ CallModel(m) \/ StopCalling(m) \/ ReadTool(m) \/ ProposeTool(m)
    PROVE  QuietStep
<1>0. seen[m] \in SeenRow /\ seen = [seen EXCEPT ![m] = seen[m]]
  BY DEF TypeOK
<1>1. CASE ClassifyIntent(m) \/ StopCalling(m)
  <2>1. QuietMove(m, "ask", seen[m]) \/ QuietMove(m, "answer", seen[m])
    BY <1>0, <1>1 DEF ClassifyIntent, StopCalling, QuietMove
  <2> QED
    BY <2>1, QuietMoveIsQuiet
<1>2. CASE CallModel(m)
  <2>1. pc[m] = "ask" /\ sessions' = sessions
    BY <1>2 DEF CallModel
  <2>2. CASE Goto(m, "answer") /\ UNCHANGED seen
    <3>1. QuietMove(m, "answer", seen[m])
      BY <1>0, <2>1, <2>2 DEF QuietMove
    <3> QED
      BY <3>1, QuietMoveIsQuiet
  <2>3. ASSUME NEW c \in CallCosts,
               LET h == [seen[m] EXCEPT !.cost = @ + c]
               IN  \/ Note(m, h) /\ Goto(m, "answer")
                   \/ \E n \in Batches : Note(m, [h EXCEPT !.todo = n]) /\ Goto(m, "tools")
        PROVE  QuietStep
    <3> DEFINE h == [seen[m] EXCEPT !.cost = @ + c]
    <3>1. /\ h.session = seen[m].session /\ h.read = seen[m].read
          /\ \A n : /\ [h EXCEPT !.todo = n].session = seen[m].session
                    /\ [h EXCEPT !.todo = n].read = seen[m].read
      BY <1>0 DEF SeenRow
    <3>2. \/ Note(m, h) /\ Goto(m, "answer")
          \/ \E n \in Batches : Note(m, [h EXCEPT !.todo = n]) /\ Goto(m, "tools")
      BY <2>3
    <3> HIDE DEF h
    <3>3. QuietMove(m, "answer", h) \/ \E n \in Batches : QuietMove(m, "tools", [h EXCEPT !.todo = n])
      BY <2>1, <3>1, <3>2 DEF QuietMove
    <3> QED
      BY <3>3, QuietMoveIsQuiet
  <2> QED
    BY <1>2, <2>2, <2>3 DEF CallModel
<1>3. ASSUME NEW rows, NEW p, RecordToolResult(m, rows, p), CanCall(m), sessions' = sessions
      PROVE  QuietStep
  <2> DEFINE h == [seen[m] EXCEPT !.made = @ + 1, !.rows = @ + rows, !.todo = @ - 1, !.proposed = @ + p]
             l == IF h.rows > MaxRows THEN "answer" ELSE IF h.todo = 0 THEN "ask" ELSE "tools"
  <2>1. h.session = seen[m].session /\ h.read = seen[m].read
    BY <1>0 DEF SeenRow
  <2>2. Note(m, h) /\ Goto(m, l)
    BY <1>3 DEF RecordToolResult
  <2>3. l # "answered" /\ pc[m] = "tools"
    BY <1>3 DEF CanCall
  <2> HIDE DEF h, l
  <2>4. QuietMove(m, l, h)
    BY <1>3, <2>1, <2>2, <2>3 DEF QuietMove
  <2> QED
    BY <2>4, QuietMoveIsQuiet
<1>4. CASE ReadTool(m) \/ ProposeTool(m)
  BY <1>3, <1>4 DEF ReadTool, ProposeTool
<1> QED
  BY <1>1, <1>2, <1>4

\* An answer adds its cost to what it read, or leaves the session as it is.
LEMMA AnswerCharges ==
    ASSUME AiMessagesAssumption, TypeOK, TypeOK', Progress, Charges, NEW m \in Messages, Answer(m)
    PROVE  Charges'
<1> DEFINE s0 == seen[m].session
           given(s) == Answered(seen, pc, s)
           paid(s) == Paid(seen, pc, s)
<1>1. /\ pc[m] = "answer" /\ pc' = [pc EXCEPT ![m] = "answered"]
      /\ seen' = [seen EXCEPT ![m] = Left(m)]
      /\ sessions' = [sessions EXCEPT ![s0].cost = CostAfter(m)]
  BY DEF Answer
<1>2. /\ Left(m).cost = seen[m].cost /\ Left(m).session = s0 /\ Left(m).read = 0
      /\ seen[m].cost \in Nat /\ seen[m].read \in Nat /\ s0 \in Sessions
  BY <1>1 DEF TypeOK, SeenRow, Left, Progress
<1>3. \A o \in Messages : /\ seen'[o].cost = seen[o].cost /\ seen'[o].session = seen[o].session
                          /\ seen'[o].read \in {0, seen[o].read}
                          /\ o # m => pc'[o] = pc[o]
  BY <1>1, <1>2 DEF TypeOK
<1>4. pc'[m] = "answered"
  BY <1>1 DEF TypeOK
<1>5. ASSUME NEW s
      PROVE  /\ IsFiniteSet(given(s)) /\ given(s) \in SUBSET Messages /\ paid(s) \in Nat
             /\ CostSum(seen', given(s)) = paid(s)
  <2>1. given(s) \in SUBSET Messages /\ seen \in [Messages -> SeenRow]
    BY DEF Answered, TypeOK
  <2>2. /\ IsFiniteSet(given(s)) /\ paid(s) \in Nat
        /\ \A o \in given(s) : seen[o].cost \in Nat /\ seen'[o].cost = seen[o].cost
    BY <1>3, <2>1, AnsweredFact DEF Paid
  <2>3. CostSum(seen', given(s)) = CostSum(seen, given(s))
    BY <2>2, CostSumSame
  <2> QED
    BY <2>1, <2>2, <2>3 DEF Paid
<1>6. ASSUME NEW s, s # s0
      PROVE  Paid(seen', pc', s) = paid(s)
  <2>1. Answered(seen', pc', s) = given(s)
    BY <1>1, <1>3, <1>4, <1>6 DEF Answered
  <2> QED
    BY <1>5, <2>1 DEF Paid
<1>7. Paid(seen', pc', s0) = paid(s0) + seen[m].cost
  <2>1. Answered(seen', pc', s0) = given(s0) \union {m}
    BY <1>3, <1>4 DEF Answered
  <2>2. m \notin given(s0)
    BY <1>1 DEF Answered
  <2>3. \A o \in given(s0) \union {m} : seen'[o].cost \in Nat
    <3>1. \A o \in Messages : seen'[o].cost \in Nat
      BY DEF TypeOK, SeenRow
    <3> QED
      BY <1>5, <3>1
  <2> HIDE DEF s0, given
  <2>4. CostSum(seen', given(s0) \union {m}) = CostSum(seen', given(s0)) + seen'[m].cost
    BY <1>5, <2>2, <2>3, CostSumAdds
  <2>5. CostSum(seen', given(s0)) = paid(s0) /\ seen'[m].cost = seen[m].cost
    BY <1>3, <1>5
  <2> QED
    BY <2>1, <2>4, <2>5 DEF Paid
<1>8. ASSUME NEW s PROVE paid(s) <= Paid(seen', pc', s)
  <2>1. paid(s) \in Nat /\ paid(s0) \in Nat
    BY <1>5
  <2> HIDE DEF paid
  <2>2. CASE s = s0
    BY <1>2, <1>7, <2>1, <2>2
  <2>3. CASE s # s0
    BY <1>6, <2>1, <2>3
  <2> QED
    BY <2>2, <2>3
<1>9. ChargesBacked'
  <2> SUFFICES ASSUME NEW s \in Sessions PROVE sessions'[s].cost <= Paid(seen', pc', s)
    BY DEF ChargesBacked
  <2>1. sessions[s].cost <= paid(s) /\ seen[m].read <= paid(s0)
    BY DEF Charges, ChargesBacked, ReadsBacked
  <2>2. CASE s = s0
    <3>1. sessions'[s].cost = CostAfter(m)
      BY <1>1, <1>2, <2>2 DEF TypeOK
    <3>2. paid(s0) \in Nat
      BY <1>5
    <3> HIDE DEF paid
    <3> QED
      BY <1>2, <1>7, <2>1, <2>2, <3>1, <3>2 DEF CostAfter
  <2>3. CASE s # s0
    BY <1>1, <1>6, <2>1, <2>3 DEF TypeOK
  <2> QED
    BY <2>2, <2>3
<1>10. ReadsBacked'
  <2> SUFFICES ASSUME NEW o \in Messages
               PROVE  seen'[o].read <= Paid(seen', pc', seen'[o].session)
    BY DEF ReadsBacked
  <2>1. seen[o].read <= paid(seen[o].session)
    BY DEF Charges, ReadsBacked
  <2>2. seen[o].read \in Nat /\ paid(seen[o].session) \in Nat
    BY <1>5 DEF TypeOK, SeenRow
  <2> HIDE DEF paid
  <2>3. paid(seen[o].session) <= Paid(seen', pc', seen'[o].session)
    BY <1>3, <1>8
  <2>4. seen'[o].read \in {0, seen[o].read} /\ seen'[o].session = seen[o].session
    BY <1>3
  <2>5. CASE seen'[o].read = 0
    <3>1. Paid(seen', pc', seen[o].session) \in Nat
      BY <1>2, <1>5, <1>6, <1>7 DEF paid
    <3> QED
      BY <2>4, <2>5, <3>1
  <2>6. CASE seen'[o].read = seen[o].read
    <3>1. Paid(seen', pc', seen[o].session) \in Nat
      BY <1>2, <1>5, <1>6, <1>7 DEF paid
    <3> QED
      BY <2>1, <2>2, <2>3, <2>4, <2>6, <3>1
  <2> QED
    BY <2>4, <2>5, <2>6
<1> QED
  BY <1>9, <1>10 DEF Charges

LEMMA InitCharges == Init => Charges
<1> SUFFICES ASSUME Init PROVE Charges
  OBVIOUS
<1>1. \A s : Answered(seen, pc, s) \in SUBSET Messages
  BY DEF Answered
<1>2. seen \in [Messages -> SeenRow]
  BY AiMessagesAssumption, InitInv DEF IInv, TypeOK
<1>3. \A s : Paid(seen, pc, s) \in Nat
  BY <1>1, <1>2, AnsweredFact, AiMessagesAssumption DEF Paid
<1>4. /\ \A m \in Messages : seen[m].read = 0
      /\ \A s \in Sessions : sessions[s].cost = 0
  BY DEF Init, Unread, Handler, NoSession, SessionRow
<1> QED
  BY <1>3, <1>4 DEF Charges, ReadsBacked, ChargesBacked

LEMMA NextCharges == IInv /\ Charges /\ [Next]_vars => Charges'
<1> SUFFICES ASSUME IInv, Charges, [Next]_vars PROVE Charges'
  OBVIOUS
<1>1. TypeOK /\ Progress /\ TypeOK'
  BY StepInv, AiMessagesAssumption DEF IInv
<1>2. CASE UNCHANGED vars \/ Tick \/ \E s \in Sessions : StartSession(s)
  <2>1. QuietStep
    BY <1>1, <1>2 DEF vars, Tick, StartSession, QuietStep, SessionRow, TypeOK
  <2> QED
    BY <1>1, <2>1, QuietCharges, AiMessagesAssumption
<1>3. ASSUME NEW m \in Messages, Arrive(m) \/ Step(m) \/ Fail(m) PROVE Charges'
  <2>1. QuietStep \/ Answer(m)
    BY <1>1, <1>3, GatesAreQuiet, PipelineIsQuiet DEF Step
  <2> QED
    BY <1>1, <2>1, QuietCharges, AnswerCharges, AiMessagesAssumption
<1> QED
  BY <1>2, <1>3 DEF Next

\* However the answers of a session race, it is never charged more than they
\* have cost (accumulate_cost, the last of two writes).
THEOREM SessionsNotOvercharged == Spec => []NeverOvercharged
BY Invariant, InitCharges, NextCharges, ChargesAreCosts, PTL DEF Spec
=============================================================================
