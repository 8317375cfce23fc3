----------------------------- MODULE AiMessages -----------------------------
(***************************************************************************)
(* The messages an owner sends to the AI assistant (ai/orchestrator.py,    *)
(* ai/costs.py, core/ratelimit.py, dependencies/db.py).                    *)
(*                                                                         *)
(* A message is one HTTP request with one transaction: it takes a          *)
(* connection of the main pool, one of the reader pool, and, while it      *)
(* holds both, a second one of the main pool for the rate limit, which is  *)
(* counted and committed apart.  After the gates a small model classifies  *)
(* the message, then a model asks for tools, in batches, until it answers  *)
(* or a budget is used up.  A tool that proposes a change inserts the      *)
(* proposal and its audit row in the transaction of the message, and so    *)
(* keeps the audit chain locked during the model calls that follow.  The   *)
(* answer, its cost and the proposals are committed together at the end.   *)
(***************************************************************************)
EXTENDS Naturals, FiniteSets, FiniteSetsExt

CONSTANTS
    Messages,      \* HTTP requests, each made once, numbered as they arrive
    Users,         \* the owners
    Sender,        \* message -> its owner
    Sessions,      \* ids of ai_sessions
    None,
    MainPool,      \* DB_POOL_SIZE + DB_MAX_OVERFLOW
    ReaderPool,    \* the same of the ai_reader engine
    WindowLimit,   \* AI_MESSAGES_PER_5_MIN
    DailyCap,      \* ai_daily_usd_cap
    MaxToolCalls,  \* AI_MAX_TOOL_CALLS
    MaxRows,       \* MAX_TOTAL_ROWS; the output tokens are bounded alike
    ResultRows,    \* how many rows a tool returns
    Batches,       \* how many tools a model asks for at once
    CallCosts,     \* what a model call may cost, in units of the session's column
    DayLength,     \* rate limit windows in a day
    MaxTime        \* bound: windows the clock goes through

VARIABLES
    now,        \* the current window of the rate limit
    meter,      \* owner -> window -> request_count
    sessions,   \* session -> the committed row of ai_sessions
    stored,     \* message -> how many proposals it has committed
    chain,      \* the message whose transaction holds the audit chain
    pc,         \* message -> where its handler stands
    seen        \* message -> what its request has read, spent and prepared

vars == <<now, meter, sessions, stored, chain, pc, seen>>

-----------------------------------------------------------------------------
Windows == 0 .. MaxTime
Day(w) == w \div DayLength
Today == Day(now)

SessionRow(d, c) == [day |-> d, cost |-> c]
NoSession == SessionRow(None, 0)

\* window: the one it was counted in.  read: the cost of the session as
\* loaded.  made, rows, todo: the budgets, and the tools still asked for.
Handler(s) == [session |-> s, window |-> None, admitted |-> FALSE, read |-> 0, cost |-> 0,
               made |-> 0, rows |-> 0, todo |-> 0, proposed |-> 0]
Unread == Handler(None)

Done == {"answered", "refused"}
InReader == {"gate", "meter", "cap", "route", "ask", "tools", "answer"}
InMain == InReader \union {"reader"}
At(ls) == {m \in Messages : pc[m] \in ls}
MainFree == Cardinality(At(InMain)) < MainPool
ReaderFree == Cardinality(At(InReader)) < ReaderPool

ASSUME AiMessagesAssumption ==
    /\ Messages \subseteq Nat /\ IsFiniteSet(Messages)
    /\ Sender \in [Messages -> Users]
    /\ IsFiniteSet(Sessions)
    /\ None \notin Sessions \union Messages \union Nat
    /\ {MainPool, ReaderPool, WindowLimit, DailyCap, DayLength} \subseteq Nat \ {0}
    /\ {MaxToolCalls, MaxRows, MaxTime} \subseteq Nat
    /\ ResultRows \subseteq Nat /\ ResultRows # {} /\ IsFiniteSet(ResultRows)
    /\ CallCosts \subseteq Nat /\ CallCosts # {} /\ IsFiniteSet(CallCosts)
    /\ Batches \subseteq Nat \ {0}

-----------------------------------------------------------------------------
Init ==
    /\ now = 0
    /\ meter = [u \in Users |-> [w \in Windows |-> 0]]
    /\ sessions = [s \in Sessions |-> NoSession]
    /\ stored = [m \in Messages |-> 0]
    /\ chain = None
    /\ pc = [m \in Messages |-> "idle"]
    /\ seen = [m \in Messages |-> Unread]

Goto(m, l) == pc' = [pc EXCEPT ![m] = l]
Note(m, h) == seen' = [seen EXCEPT ![m] = h]
Database == <<meter, sessions, stored>>

\* Bound: the clock stops after MaxTime.
Tick ==
    /\ now < MaxTime
    /\ now' = now + 1
    /\ UNCHANGED <<Database, chain, pc, seen>>

StartSession(s) ==
    /\ sessions[s].day = None
    /\ sessions' = [sessions EXCEPT ![s] = SessionRow(Today, 0)]
    /\ UNCHANGED <<now, meter, stored, chain, pc, seen>>

\* A message may name a session that does not exist.
Arrive(m) ==
    /\ pc[m] = "idle"
    /\ \A o \in Messages : o < m => pc[o] # "idle"
    /\ \E s \in Sessions : Note(m, Handler(s))
    /\ Goto(m, "connect")
    /\ UNCHANGED <<now, Database, chain>>

(* The two connections of a request, in the order its dependencies ask for *)
(* them, and the end of its transaction, which gives them back.            *)
Connect(m) ==
    /\ pc[m] = "connect" /\ MainFree
    /\ Goto(m, "reader")
    /\ UNCHANGED <<now, Database, chain, seen>>

ConnectReader(m) ==
    /\ pc[m] = "reader" /\ ReaderFree
    /\ Goto(m, "gate")
    /\ UNCHANGED <<now, Database, chain, seen>>

Release(m) == chain' = IF chain = m THEN None ELSE chain
\* What is left of it when it ends; after a rollback, where it was counted.
Left(m) == [seen[m] EXCEPT !.read = 0, !.made = 0, !.rows = 0, !.todo = 0]

\* The count is committed on a connection of its own.
\* Mutant: it is taken back with the transaction of the message.
MutantInRequest(m) ==
    IF seen[m].window = None THEN meter
    ELSE [meter EXCEPT ![Sender[m]][seen[m].window] = @ - 1]
MeterAfterRollback(m) == meter

\* Every exception but a provider's rolls back all that the message has done.
Refuse(m) ==
    /\ Goto(m, "refused")
    /\ Release(m)
    /\ meter' = MeterAfterRollback(m)
    /\ Note(m, [Left(m) EXCEPT !.cost = 0, !.proposed = 0])
    /\ UNCHANGED <<now, sessions, stored>>
Fail(m) == pc[m] \in InMain /\ Refuse(m)

\* A pool waits for a connection no longer than its timeout.
MutantWaitsForever(m) == FALSE    \* mutant: a pool without a timeout
NoConnection(m) ==
    \/ pc[m] \in {"connect", "meter"} /\ ~MainFree
    \/ pc[m] = "reader" /\ ~ReaderFree
PoolTimeout(m) == NoConnection(m) /\ Refuse(m)

-----------------------------------------------------------------------------
(* The gates.  No route writes the settings: what is read of the kill       *)
(* switch is a choice.                                                     *)
Gate(m) ==
    /\ pc[m] = "gate"
    /\ IF sessions[seen[m].session].day = None
       THEN Refuse(m)
       ELSE \E aiEnabled \in BOOLEAN :
              IF ~aiEnabled THEN Refuse(m)
              ELSE /\ Note(m, [seen[m] EXCEPT !.read = sessions[seen[m].session].cost])
                   /\ Goto(m, "meter")
                   /\ UNCHANGED <<now, Database, chain>>

\* The upsert counts and returns the count in one statement.
Hit(m) == meter[Sender[m]][now] + 1
Meter(m) ==
    /\ pc[m] = "meter" /\ MainFree
    /\ meter' = [meter EXCEPT ![Sender[m]][now] = Hit(m)]
    /\ Note(m, [seen[m] EXCEPT !.window = now, !.admitted = Hit(m) <= WindowLimit])
    /\ Goto(m, IF Hit(m) <= WindowLimit THEN "cap" ELSE "refused")
    /\ UNCHANGED <<now, sessions, stored, chain>>

\* The spend of a day is that of the sessions started on it.
TodaySpend ==
    MapThenSumSet(LAMBDA s : sessions[s].cost, {s \in Sessions : sessions[s].day = Today})
OverCap == TodaySpend >= DailyCap
CheckDailyCap(m) ==
    /\ pc[m] = "cap"
    /\ IF OverCap THEN Refuse(m)
       ELSE Goto(m, "route") /\ UNCHANGED <<now, Database, chain, seen>>

(* The pipeline.  A provider error becomes a partial answer; the cost of    *)
(* classify_intent is not recorded, and it may be that no model is set up.  *)
ClassifyIntent(m) ==
    /\ pc[m] = "route"
    /\ \E intent \in {"question", "out_of_scope", "unavailable"} :
         Goto(m, IF intent = "question" THEN "ask" ELSE "answer")
    /\ UNCHANGED <<now, Database, chain, seen>>

\* The time is looked at between the model calls only.
CallModel(m) ==
    /\ pc[m] = "ask"
    /\ \/ Goto(m, "answer") /\ UNCHANGED seen      \* timed out, or no response
       \/ \E c \in CallCosts :
            LET h == [seen[m] EXCEPT !.cost = @ + c]
            IN  \/ Note(m, h) /\ Goto(m, "answer")
                \/ \E n \in Batches : Note(m, [h EXCEPT !.todo = n]) /\ Goto(m, "tools")
    /\ UNCHANGED <<now, Database, chain>>

\* Mutant: > instead of >=.
MutantOffByOne(m) == seen[m].made > MaxToolCalls
ToolCallsExhausted(m) == seen[m].made >= MaxToolCalls
StopCalling(m) ==
    /\ pc[m] = "tools" /\ ToolCallsExhausted(m)
    /\ Goto(m, "answer")
    /\ UNCHANGED <<now, Database, chain, seen>>

\* record_tool_result counts a call that failed too.
RecordToolResult(m, rows, p) ==
    LET h == [seen[m] EXCEPT !.made = @ + 1, !.rows = @ + rows, !.todo = @ - 1, !.proposed = @ + p]
    IN  /\ Note(m, h)
        /\ Goto(m, IF h.rows > MaxRows THEN "answer" ELSE IF h.todo = 0 THEN "ask" ELSE "tools")
CanCall(m) == pc[m] = "tools" /\ ~ToolCallsExhausted(m)

\* A tool that reads, is unknown, or is refused with an AppError.
ReadTool(m) ==
    /\ CanCall(m)
    /\ \E rows \in ResultRows : RecordToolResult(m, rows, 0)
    /\ UNCHANGED <<now, Database, chain>>

\* A proposal is inserted with its audit row, which waits for the chain.
MutantCommitsProposal(m) == [stored EXCEPT ![m] = @ + 1]    \* mutant: commits at once
StoredAfterTool(m) == stored
ProposeTool(m) ==
    /\ CanCall(m)
    /\ chain \in {None, m}
    /\ chain' = m
    /\ stored' = StoredAfterTool(m)
    /\ RecordToolResult(m, 0, 1)
    /\ UNCHANGED <<now, meter, sessions>>

\* The commit.  A cost of zero is no change of the session, and is not written.
\* Mutant: the total was already added to call by call.
MutantChargesTwice(m) == seen[m].read + 2 * seen[m].cost
CostAfter(m) ==
    IF seen[m].cost = 0 THEN sessions[seen[m].session].cost ELSE seen[m].read + seen[m].cost
Answer(m) ==
    /\ pc[m] = "answer"
    /\ sessions' = [sessions EXCEPT ![seen[m].session].cost = CostAfter(m)]
    /\ stored' = [stored EXCEPT ![m] = seen[m].proposed]
    /\ Goto(m, "answered")
    /\ Release(m)
    /\ Note(m, Left(m))
    /\ UNCHANGED <<now, meter>>

Step(m) ==
    \/ Connect(m) \/ ConnectReader(m) \/ PoolTimeout(m)
    \/ Gate(m) \/ Meter(m) \/ CheckDailyCap(m)
    \/ ClassifyIntent(m) \/ CallModel(m) \/ StopCalling(m)
    \/ ReadTool(m) \/ ProposeTool(m) \/ Answer(m)

Next ==
    \/ Tick
    \/ \E s \in Sessions : StartSession(s)
    \/ \E m \in Messages : Arrive(m) \/ Step(m) \/ Fail(m)

Spec == Init /\ [][Next]_vars
\* A server runs what it has started: a model call and a wait for a
\* connection have timeouts.
FairSpec == Spec /\ \A m \in Messages : WF_vars(Step(m))

-----------------------------------------------------------------------------
\* Every variable keeps to the values the tables and the handlers give it.
Places == {"idle", "connect"} \union InMain \union Done
SeenRow == [session : Sessions \union {None}, window : Windows \union {None}, admitted : BOOLEAN,
            read : Nat, cost : Nat, made : Nat, rows : Nat, todo : Nat, proposed : Nat]
TypeOK ==
    /\ now \in Windows
    /\ meter \in [Users -> [Windows -> Nat]]
    /\ sessions \in [Sessions -> [day : Nat \union {None}, cost : Nat]]
    /\ stored \in [Messages -> Nat]
    /\ chain \in Messages \union {None}
    /\ pc \in [Messages -> Places]
    /\ seen \in [Messages -> SeenRow]

\* The limit counts every message that has asked, also one whose transaction
\* was rolled back, and no window lets more than the limit through however
\* many messages ask at once (_meter_ai_request, ratelimit.hit).
MeterCountsEveryMessage ==
    \A u \in Users, w \in Windows :
        LET counted == {m \in Messages : Sender[m] = u /\ seen[m].window = w}
        IN  /\ meter[u][w] = Cardinality(counted)
            /\ Cardinality({m \in counted : seen[m].admitted}) <= WindowLimit

\* A session is never charged more than its answers have cost, whichever of
\* them overwrites the sum of the other (accumulate_cost).
CostOf(ms) == MapThenSumSet(LAMBDA m : seen[m].cost, {m \in ms : pc[m] = "answered"})
NeverOvercharged ==
    \A s \in Sessions : sessions[s].cost <= CostOf({m \in Messages : seen[m].session = s})

\* A message runs no more tools than allowed, however many a model asks for
\* at once, and reads at most one result more than the rows allowed.
BudgetsHold ==
    \A m \in Messages :
        /\ seen[m].made <= MaxToolCalls
        /\ \E last \in ResultRows : seen[m].rows <= MaxRows + last

\* The proposals in the database are those of the messages that were
\* answered, whole or in part: a message that failed leaves none behind, and
\* the answer of one that a budget stopped still finds its proposals.
ProposalsOfAnswers ==
    \A m \in Messages : stored[m] = IF pc[m] = "answered" THEN seen[m].proposed ELSE 0

\* Every message is answered or refused, although messages that hold
\* connections wait for more of them and for the audit chain, and a model
\* may never stop asking for tools.
EveryMessageEnds ==
    \A m \in Messages : pc[m] = "connect" ~> pc[m] \in Done

(* What the documentation says of the cap, and a session of the day before *)
(* makes false: no run checks it, TLC refutes it.                          *)

\* A day lets no message through once the answers given on it have cost as
\* much as the cap.
CostOn(d) == CostOf({m \in Messages : seen[m].window # None /\ Day(seen[m].window) = d})
DailyCapHolds ==
    [][\A m \in Messages :
          (pc[m] = "cap" /\ pc'[m] = "route") => CostOn(Today) < DailyCap]_vars
=============================================================================
