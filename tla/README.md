# Velmart in TLA+

Velmart is an accounting system for a small chain of supermarkets: a FastAPI and
PostgreSQL server (`src/apps/api`) and a Flutter client (`src/apps/mobile`). Owners define
*pages* (tables whose columns they choose), owners and managers book *records* on them,
an assistant drafts changes that an owner approves, and every change leaves a row in an
audit log.

What is hard about it is not what one request does but what several do at once. Every
request is one PostgreSQL transaction at READ COMMITTED that reads rows, decides in Python
on what it read, writes, and commits. Between the read and the write other transactions
commit. The modules here take each handler apart at exactly these points, and say what the
tables and the clients may rely on whatever the interleaving, the failures and the crashes.

Paths below are relative to `src/apps/api/app` unless they start with `src/`.

## 1. The system

### 1.1 How a request runs

* `dependencies/auth.py` verifies the access token and loads the user in a short transaction
  of its own; `dependencies/db.py get_rls_session` then opens the transaction the handler
  works in. It commits when the handler's session dependency is left normally and rolls
  back on any exception. The installed FastAPI leaves it **after** the response is sent.
  Login, refresh and logout (`services/auth_service.py`) commit themselves, before they answer.
* There is no SELECT FOR UPDATE in the handlers. An UPDATE takes the row lock, waits for an
  uncommitted writer, and re-evaluates its WHERE on the row that writer committed
  (READ COMMITTED). The session neither flushes by itself nor expires what it has loaded.
* `write_audit_log` inserts a row whose trigger takes one lock for the whole chain and keeps
  it to the end of the transaction: from its first audit row on, a transaction is alone
  among the writers.

### 1.2 Components, their state and what makes them correct

| Component | State | Operations | Hard part | What must hold | Where |
|---|---|---|---|---|---|
| Record store | `records` and six native tables, `audit_logs` | create, update, set protected field, delete, reverse | two requests on one record; failure between the writes of a reversal | no lost update; the trail explains the row; a ledger record is corrected once | `RecordStore`, `AuditedRecords` |
| AI proposals | `ai_proposals` and items | propose, apply, cancel, expire | apply twice, apply against cancel, the record edited meanwhile | applied at most once, and only what was shown | `Proposals` |
| Idempotent creation | `idempotency_keys` | lookup, reserve, store the reply, purge | repeated calls overlapping the first; commit after the answer | one record per key; a replay is the original answer | `Idempotency` |
| Refresh tokens | `refresh_tokens` | login, rotate, detect reuse, log out | one token presented twice at once; replay against rotation | one live token per login; what was revoked stays revoked | `RefreshTokens` |
| Login lockout | `users.failed_attempts`, `locked_until` | login | the counter is read, the password verified, the counter written back | lock and counter agree; guesses per lock period are bounded | `LoginLockout` |
| Users and access tokens | `users`, `user_stores`, tokens in clients' hands | update a user, assign stores, issue, accept | overlapping updates write `token_version` as read plus one | an accepted token says the user's role; the trail says what the user is | `UserAccess` |
| Audit hash chain | `audit_logs.chain_seq`, head row, anchor | append (trigger), verify, anchor | order of concurrent appends; verifier against appender; lost rows | one unbroken chain; no false alarm; the loss of anchored rows is seen | `AuditChain` |
| Page engine | `pages`, `page_columns`, `projection_map`, `page_access` | add, retype, index, archive columns; rename and archive a page; read its schema; grant | schema edited while records are written; two lock orders; projection slots | one column per slot; the version tells a client its schema is stale; new rows read alike from slot and document | `PageSchema`, grants in `PageAccess` |
| References | `RECORD_REF` values | validate, block deletion | reference written while its target is deleted | no reference to a deleted record (does not hold, section 3) | `PageSchema` |
| Formulas | none | parse, order, evaluate, compile to SQL | two evaluators of one language | both give the same value of the same operands, in cents | `Formulas`, run in `Query` |
| Queries | none | filter, search, sort, keyset pages, totals, balance | pages read while rows are written; blanks; a statement reads slots and computes in SQL, the cursor has the document and Python's formulas | every row that stays is seen once as long as cursors are exact; figures agree with each other and with rows shown as they are read | `Query` |
| Access to a page | token, `users`, `page_access`, policies | authenticate, check the grant, replace the grants | a grant withdrawn between two pages, two replacements at once | answers only on a current grant | `PageAccess`, composed in `Query` |
| AI pipeline | `ai_sessions`, `ai_messages`, cost, connections | send a message, call tools, propose | two pools of connections, money spent before anything commits, failures in the middle | counted even when rolled back; within its budgets; never charged twice; answered | `AiMessages` |
| Rate limits | `rate_limits` | hit | messages at once, and after a rollback | no window admits more than its limit | `AiMessages` |
| Mobile client | token store, lists, forms | retry, refresh once, save | timeouts, repeated saves, single-flight refresh | no double booking, no needless logout | section 8 |
| Permissions, stores, nightly jobs, dashboard, CSV, logging, migrations, screens | - | - | - | - | section 8 |

Components interact through tables (one database, no message queue), through calls in one
process (apply calls the record services; every service calls the audit service), and with
clients that may repeat, overlap or abandon any call.

## 2. The modules

Each component has a module with its state, `Init`, one action per step between which other
transactions can run, and its properties; an `MC` module that adds what only model checking
needs (symmetry, requests and payloads, a bound with a binomial coefficient); and, where something
is proved, a `_proof` module. `UserAccess`, `LoginLockout`, `PageAccess` and `Query` share `Access_proof`. Operators named `Mutant...`, or marked "mutant" in their comment, are
variants of an operator with a plausible bug: no specification uses them. They record, for
every property, a change of the code that the property detects.

### RecordStore

A request goes `submitted`, `located` (`_locate`, and every check made on the handle),
`written` (the guarded UPDATE, or the INSERT of a new row), for a reversal with a correction
`replacing`, `ready`, and `committed`; or it ends `rejected`, in `conflict`, or `failed`.

| Code | Model |
|---|---|
| `record_service._locate`, `_check_version`, checks on kind and status | `Locate`, `Admissible` |
| `_check_protected_on_update` | `ProtectedKept` |
| `records._guarded_update` with its WHERE on the version | `GuardedUpdate`, `GuardedUpdateMisses`, `VersionMatches` |
| `update_row`, `mark_reversed`, `soft_delete_row` | `Rewritten` |
| `create_row` | `InsertRow`, `NewRow` |
| the second half of `reverse_record` | `InsertReplacement` |
| `write_audit_log` and the trigger's lock | `WriteAudit`, `AuditEntry`, `Creation` |
| `get_rls_session`: end of the block, or an exception | `Commit`, `Rollback` |

Uncommitted writes live in `lock`, `seen` and `fresh` and reach `rows` and `trail` in
`Commit`, as READ COMMITTED shows them. A record's data is a pair: its ordinary columns taken
together, and a protected column, so that a partial update, one that sends the protected value
back, a change of the protected field and a merge differ. The version in If-Match is that of a row
the client had on its screen.

`AuditedRecords` is what the endpoints promise: each operation as one atomic step on a row and
its trail. `RecordStore` implements it (`ImplementsAtomicRecords`): the refinement mapping
is the identity on `rows` and `trail`, and every step but `Commit` is a stutter.

### Proposals

The assistant drafts an update or a status change with the version and the before value it
read (`Draft`), the chat request commits (`Publish`), calls of apply and cancel load the
proposal (`Load`, `Verdict`), apply goes through the guarded write (`LocateItem` to `Commit`).
The edits of others are one atomic step, which is what `RecordStore` implements. A late
proposal is refused by the clock; that the code also assigns EXPIRED has no effect, because
the exception rolls it back. The other tool, for creations, has no before value to go stale.

### Idempotency

`LookupFindsNothing`, `LookupRefuses`, `LookupReplays`, `Reserve` (which waits while another
transaction holds an uncommitted reservation), `ReserveLoses`, `CreateRecord`,
`CreateViolatesUuid` (unique index on `client_uuid`), `StoreResponse`, `Respond`, `Commit`,
`Fail`, and `Purge` of the nightly job. `Respond` comes before `Commit`: that is the order of
the framework. The purge may strike at any time, that is, clocks are left out.

### RefreshTokens

`refresh` is `ReadToken`, `ReadUser`, `Claim` (`UPDATE ... WHERE revoked_at IS NULL`) or
`ClaimLost`, `IssueTokens`, `Commit`; a token read revoked is a replay and goes `FindFamily`,
`RevokeFamily`, `Commit`; `logout` is the same two steps for one token. `FindFamily` is the
snapshot of the UPDATE and `RevokeFamily` the moment it has all its locks, because rows that
another transaction inserts in between are not found. Anyone may present any token that was
ever handed out. Devices, logins and `origin`/`parent` (history) tell families apart.

### LoginLockout

`LookUp` reads the user and answers at once when it is locked; verifying the password takes
long; `CountFailure` or `LogIn` then writes what it computed from the values read. `Tick`
moves the clock. `guesses` is history: wrong passwords answered as such since the clock moved
or somebody logged in.

### UserAccess

`update_user` is `ReadUser`, `WriteUser` (or `WriteNothing`), `FindStores` and
`ReplaceStores` (DELETE with its snapshot, then INSERT), `Commit` with the audit row. A
session reads the user (`FindUser`) and mints a token from what it read (`IssueTokens`).
`Accepted` is the check of `_authenticate`. `stale` is history: some update wrote a
`token_version` computed from a version that was no longer current.

### AuditChain

A writer's INSERT draws its id (`DrawId`), then its trigger waits for the chain lock and
links the row (`Insert`, with `HeadFor`, `SeedFromLog`, `Linked`); an index refuses a number
that is taken (`SeqTaken`). Uncommitted rows and the updated head row are in `pending` and
`tip` until `Commit`. The nightly verifier is `Stream` (one snapshot), `CheckAnchor`,
`RecordAnchor`, each a statement that sees what is committed by then, or `Abort`. `Truncate`
and `LoseHead` stand for what a restore or a superuser does to the two tables. A hash is the
sequence of all that went into it. `verify.loss` and `loss` are history: whether rows have
been lost, and rows that an anchor covered.

The trigger function is VOLATILE, so each of its statements has a snapshot of its own (the
docstring of migration 0020 has it otherwise; the head row it introduces is right either
way). One verifier runs at a time. A loss that falls between the check of an anchor and the
writing of the next is not counted as a loss of anchored rows: the new anchor is of the log
as it is then.

### PageSchema

One page, restructured by its owners while its records are written. A request reads the page
first (`Begin`; `update_column` reads the column in the same join), plans (`PlanAdd`,
`PlanColumn`, `PlanPage`, `PlanCreate`, `PlanEdit`, `PlanDelete`), takes its locks one by one in
the order of its statements, and commits:

| Code | Model |
|---|---|
| `schema_service.add_column` | `PlanAdd`, `InsertColumn`, `AuditColumn`, `BumpAndCommit` |
| `schema_service.update_column`, also for archiving | `PlanColumn`, `UpdateColumn`, `AuditColumn`, `BumpAndCommit` |
| `page_service.update_page`, `archive_page` | `PlanPage`, `UpdatePage`, `ArchivePage`, `AuditAndCommitPage` |
| `page_service.allocate_projection_slot`, `projection_map` written back whole | `NewSlot`, `MapAfter` |
| `bump_schema_version` with its If-Match | `NextVersion`, `Stale` |
| `schemas/dynamic.py`, `validate_payload` | `Valid`, `Filled`, `Merge` |
| `records._populate_projections`, `resolve_column`, `_guarded_cast` | `PopulateProjections`, `Resolve`, `TryCast`, `Readable` |
| the types of the slots, NUMERIC(14, 2) and DATE | `InSlot`, `Kept`, `SlotsFit` |
| `reference_service` | `RefsExist`, `Referenced` |
| `GET /pages/{id}/schema` | `ReadSchema` |
| the deadlock detector | `BreakDeadlock` |

A cell is a member of one of four classes of text (number, date, other word, record id), which
is what types and slots tell apart. A slot does not keep every value: `Kept` has, of each number and date
there is room for, the number of two decimals it is rounded to or the day it is cut to, and a
number without an entry overflows the slot and fails the write. `under`, of a record, is history: the
map its last writer had read. `FreshRowsAgree` is of each column by itself: if the slot the column has now
was its slot in that map, whatever else the map had, the slot reads as the document does, cut to the slot.

### AiMessages

A message is `Connect`, `ConnectReader`, `Gate`, `Meter`, `CheckDailyCap`, `ClassifyIntent`, then
`CallModel` and its tools (`ReadTool`, `ProposeTool`, `StopCalling`) until `Answer`. `Refuse` ends
every other way, with the rollback. `Meter` needs a second connection of the main pool while it
holds the first, and commits apart (`_meter_ai_request`); a full pool is `PoolTimeout`.
`ProposeTool` writes an audit row and from then on keeps the chain of `AuditChain` locked through
the model calls that follow. The model and its provider are outside: any answer, any number
of tools, any error.

### Values, Formulas, PageAccess and Query

`Values` has the comparison of cells and their precision: a number is a whole number of units, and
`RoundTo` and `DayOf` are what a slot, `round` and a cast do to it. `Formulas` has operators only: the
limits of the parser, dependencies, the search for cycles and the order it yields (checked over every graph
of three formulas by an assumption TLC evaluates in `MCQuery`), the Python evaluator (`Evaluate`,
`ApplyPrepared`) and what PostgreSQL computes of the compiled expression (`Compile`). Each rounds a quotient
to a last digit of its own (`Quotient`, with `SqlDigit` for PostgreSQL), so that 10/3 has two values.
`PageAccess` has the accounts, the grants of a page, their replacement (`BeginPut`, `CommitPut`, `FailPut`),
the row policies, and the requests of one reader: each begins (`FirstRequest`, `NextRequest`), authenticates
(`Authenticate`), checks the grant (`CheckAccess`, `Deny`) and is answered (`Reply`).

`Query` composes them: each of its actions takes a step of `PageAccess` or leaves its variables
alone. A client starts a scan with filters, a search word, a sort and a limit, and asks for page after
page; each page is admitted (`Admit`) and runs one statement (`Answer`), while other requests create, edit,
delete and reverse rows, and owners change grants and accounts. `Aggregate`, `RunningBalance` and
`ColumnValues` are the figures; a SELECT column offers its options, another one its values up to a limit.

| What the database filters, orders and adds up | What is shown, and the cursor is made of |
|---|---|
| `ResolveColumn`: the slot of an indexed column (`Read`), NULL in rows written before it was indexed, rounded or cut by `Conversion` when written (`PopulateProjections`); the cast document of another | `RowValue`: the document |
| a formula of these, in the digits of PostgreSQL (`InDatabase`) | the formula of the document, by the evaluator (`InPython`) |

`InDatabase` and `InPython` are parameters: `Query.cfg` gives them `CompiledFormula` and `ApplyPrepared` of
`Formulas`, while what is proved of `Query` holds for any two backends, whether they agree or not. Where
the two sides of the table differ, the cursor of a page is not the place of its last row. `scan.exact` is
history and says that every cursor of a scan so far was: it is a condition of what is claimed of scans,
and always true of the default order, by time and id.

### How the modules fit

`RecordStore` implements `AuditedRecords`, through an explicit `INSTANCE ... WITH`. `Proposals`,
`PageSchema` and `Query` use the one atomic step per write that this refinement yields. `Query`
extends `Values` and `PageAccess`, and `MCQuery` adds `Formulas`. The audit chain, which every writing module takes as a lock, is
the one whose contents `AuditChain` has.

## 3. What the runs check

Passing runs, every one exhaustive:

| Run | Instance | Properties | Shows |
|---|---|---|---|
| `record_store` | 4 ids (2 present at the start, 3 on a ledger page), 1 body, 2 flags, 3 requests; 484 thousand states | `HandlesSound` `CorrectedOnce` `TrailExplainsRow` `NoLostUpdate` `ImplementsAtomicRecords` | whatever three calls overlap, commit, fail or crash, each one that commits has replaced exactly the row it read, and the trail replays to the row |
| `record_store_live` | 4 ids, 1 body, 1 flag, 3 requests, with fairness | `EveryRequestAnswered` | nobody waits for ever on a row or on the chain |
| `proposals` | 1 record, 2 values, 2 proposals, 3 calls, versions up to 2; 1.3 million states | `AppliedOnce` `AppliesWhatWasShown` | approval books what the card showed, once, or nothing |
| `idempotency` | 2 keys (1 sent as `client_uuid`), 2 bodies, 3 ids, 3 attempts, with fairness; 353 thousand states | `ReservationsSound` `OnePerKey` `ReceiptsBacked` `ReplaysTheOriginal` `EveryAttemptAnswered` | overlapping repeats create one record and get its answer |
| `refresh_tokens` | 3 tokens, 2 devices, 3 calls; 43 thousand states | `ClaimsSound` `OneLivePerLogin` `AnsweredIsRevoked` `IssuedInExchange` | a token presented by several at once yields one successor; an answered logout or replay is final |
| `login_lockout` | 3 connections, limit 2, lock of 1 tick, counter up to 3, clock up to 2; 401 thousand states | `LockMatchesCounter` `GuessesBounded` `FloorNeverFalls` | parallel guessing loses counts but only so many |
| `audit_chain` | 2 connections, 4 ids; 1.2 million states | `ChainLinked` `NeverRefused` `NoFalseAlarm` `TruncationIsCaught` | concurrent appends make one chain, a lost head row is resumed from the log, an untouched log is never reported and the loss of an anchored row always is |
| `user_access` | 2 updates, 1 session, 1 store; 1.15 million states | `AcceptedUnlessStale` `TrailTellsUser` | tokens issued around updates are refused unless two updates overlapped; the trail ends at the truth |
| `page_schema` | 2 columns, 3 slots, 1 record, 3 numbers, 2 dates, 3 requests of any of 12 calls, with fairness; 179 thousand states | `SlotsNotShared` `CachedSchemaCurrent` `OneWinnerPerVersion` `FreshRowsAgree` `EveryRequestEnds` | slots, cached schemas and fresh rows stay right although maps are written back whole and locks are taken in two orders |
| `ai_messages` | 3 messages of one owner on one session, pools of 3 and 2, a limit of 2, a cap of 1, one tool call, batches of 1 and 2, two windows, with fairness; 262 thousand states | `MeterCountsEveryMessage` `NeverOvercharged` `BudgetsHold` `ProposalsOfAnswers` `EveryMessageEnds` | messages that fail anywhere are still counted and leave nothing else behind, and full pools delay but never hang one |
| `query` | 3 ids, 2 numeric columns of which 1 is indexed, a DATETIME and a SELECT column, 6 formulas, 6 requests, 2 writes or changes of access, with fairness; 229 thousand states | `StableRowsInOrder` `FiguresAgree` `AnsweredOnCurrentGrant` `EveryScanEnds` | as long as cursors are exact, keyset pages neither lose nor repeat an untouched row and come to an end; groups, balances and totals agree, and agree with rows that are shown as a statement reads them; every page asks anew whether it may be read |

The type invariants have no run of their own: they are proved (section 6) and every proof uses
them. TLC checked each while it was written.

The run that ends in a violation, `proposal_cancelled`, checks a sentence of the API document
(`CancelledIsUntouched`): apply and cancel both load PENDING, both commit, the proposal says
cancelled and the record is changed.

Further sentences of the documentation that the models refute. Each is a definition of its module,
checked by no run here, and TLC finds the behaviour in seconds when it is added to the
cfg of the module (for references, with `FirstType = "RECORD_REF"`, two records and `Calls <- RefCalls`):

* `Idempotency!AcknowledgedIsDurable`: `src/docs/ARCHITECTURE.md:122-123` draws COMMIT before the
  201; the session dependency commits after the answer has been sent (`dependencies/db.py:43-47`,
  with the FastAPI release of `src/apps/api/pyproject.toml:8`), so a client may hold a 201 for a
  record that was rolled back.
* `RefreshTokens!FamilyIsRevoked`: `auth_service.py:9-10` and `src/docs/API.md:228-229` say that the
  whole family is revoked on a replay; the UPDATE (`auth_service.py:289`) does not see the token that a
  concurrent rotation inserts, and it lives on.
* `LoginLockout!LockLasts`: `src/docs/API.md:219-220` says that five failures lock the account for
  15 minutes; a failure that read the counter earlier writes it back and sets `locked_until` to
  NULL (`auth_service.py:194-202`).
* `PageSchema!ProjectionsMatchData`: `src/docs/PROJECT_PLAN.md:2516` says that aggregations over
  projection columns match those over the documents; `update_column` gives a column a slot
  and writes no record (`schema_service.py:264`), so older records count as blank, or with the
  values a former owner of the slot left there.
* `PageSchema!NoDanglingReference`: `src/docs/PROJECT_PLAN.md:1213` says that deleting a referenced
  record is blocked; neither the check of the target nor the count of the references
  (`record_service.py:424`) takes a lock, and both transactions commit.
* `Query!NoRowComesAgain`: `services/query_service.py:298-301` says that the cursor carries the same computed
  value the compiled sort expression just ordered by. It carries the document and the quotient of
  Python, while the statement orders by the slot and the quotient of PostgreSQL
  (`repositories/records.py:282-290`): a row whose column was indexed after it was written, or whose value is
  rounded in the slot or in the last digits of a quotient, may lie past its own cursor and come
  again, with a limit of 1 for ever, and rows that tie with it may be cut off.
* `AiMessages!DailyCapHolds`: `ai/costs.py:4-6` says that the cap is checked against the spend of the
  day; `costs.py:58` sums the sessions *started* on the day, so a session of the day before spends
  without limit.

Other differences between text and code that were met while modelling. They are visible in
the code or in one sequential request, so no run is spent on them:

* `ai/proposals.py:5-8` and `src/docs/API.md:552` speak of a proposal that becomes EXPIRED.
  `apply_proposal` (line 172) and `cancel_proposal` (line 60) assign it and raise; the
  transaction rolls back, and the stored status stays PENDING.
* `routers/records.py:43` stores a constant endpoint with the key, and the page is not in the
  hashed body: the same key and body on another page replays the first page's record.
* `src/docs/API.md:233-234` and `src/docs/RUNBOOK.md:36` say that raising `token_version` ends
  all sessions; `refresh` (`auth_service.py:321`) asks only for `is_active` and exchanges any
  live refresh token for a pair with the new version.
* `record_service.py:14-16` says that a ledger record is not edited;
  `protected_field_service.py:86` edits its protected field. `RecordStore` and
  `AuditedRecords` allow it, as the code does.
* `user_service.py:47` says that the stores of a user are replaced wholesale; two concurrent
  replacements can leave the union of both, since a DELETE does not see rows inserted after
  its snapshot (reachable in `UserAccess`).
* `dependencies/auth.py:93-95` says that any bump of `token_version` leaves every outstanding
  token stale. Two updates that read version 1 both write 2 (`user_service.py:156`), so a token
  minted between their commits is accepted after the second, with the role of the first:
  `AcceptedRoleIsCurrent` does not hold in `UserAccess`, `AcceptedUnlessStale` says when it does.
* Access. The policies `tenant_isolation` and `store_scope` are both permissive and PostgreSQL
  ORs them, so within a company `store_scope` hides nothing, although
  `src/docs/PROJECT_PLAN.md:312` says that a manager sees only assigned stores. Two PUTs of grants
  at once can leave the union of both, or fail on the key. `store_ids` of a token and the grants
  of a page are independent: a change of stores does not make a token stale.
* The audit id is drawn before the chain lock is taken, so `repositories/audit.py:8-12` ("written in
  strict insertion order") is not exactly so; the chain goes by `chain_seq`.
* Columns. `is_indexed` on a type without slots is stored and has no effect
  (`page_service.py:59-62`); a retyped column keeps its slot; archiving a column makes the records
  that have a value in it uneditable (`dynamic.py:189-193` with `record_service.py:362-376`) and taking
  a RECORD_REF column out of the archive brings its references back, deleted targets included; a
  numeric slot rounds to two decimals; `archive_page` does not bump the version, and writing to an
  archived page is not refused.
* Assistant. Of two messages at once on a session one cost is lost (`NeverOvercharged` is an upper
  bound, and no lower one holds); what `classify_intent` costs is not recorded; an error that is not
  the provider's rolls back messages, cost and proposals; the time is looked at between model
  calls only; nothing writes the settings of the kill switch and the cap; `search_entities` of kind
  user reads a table the reader role may not see, which loses the message; the gates come in
  another order than in `src/docs/PROJECT_PLAN.md`, section 16.4.
* Formulas. `src/apps/api/tests/test_formula_backend_parity.py:1` says that the two backends must
  agree. They do where `BackendsAgree` in `MCQuery` says so, and differ on: the digits of a quotient (as
  lines 162-169 of that file say themselves: what agrees is the rounded value), which decide orders, filters
  and cursors; a column that is read from its slot, empty or rounded, or a DATETIME, which a statement
  takes for its day; `coalesce` or `if` around a division by zero (an error blanks the whole formula in Python, the division alone is NULL in SQL), `and`,
  `or`, `not` of a missing value, `safe_div` with a missing numerator and a zero denominator,
  and chained comparisons.
* Totals and offered values are of slots. They differ from the documents listed beside them where these have more
  than two decimals or are older than the index, against `src/docs/PROJECT_PLAN.md:2516` once more, so
  `FiguresAgree` compares the two where rows are shown as they are read.
* Queries. A filter `gt` or `lt` with the value null is an error of the ORM; the CSV export leaves
  formula columns empty although `src/docs/API.md:438` says that they are computed; total and groups
  of one answer are two statements, so a write between them shows in one only (`FiguresAgree`
  takes both of one state).
* Fixed windows: twice the limit passes around the boundary of two (`core/ratelimit.py:37`).
* The docstring of `purge_expired` in `core/ratelimit.py` says that the nightly job calls it;
  `tasks/nightly.py` does not.

## 4. Bounds, and why they suffice

* Three concurrent requests: every hazard of section 1 needs two, and the third lets a
  waiter, an overwriter and a bystander meet. There is one request per member: what bounds
  versions and trails is the number of requests, not a bound in a guard, except
  `Proposals!MaxVersion` (the edits of others; one is enough to make a card stale, and the
  version an apply writes is not bounded by it).
* Four ids in `record_store`: two to contend for, one on each kind of page, and two to be
  inserted, so that two reversals can draw a replacement each. Two protected values, so that an
  edit can carry the current one and another; the ordinary columns have one value there, since a
  lost or invented write of them also shows in the version and in the trail.
* `idempotency`: a key with and one without `client_uuid`, two bodies so that a key can come
  with another body, and as many ids as attempts.
* `login_lockout`: `MaxSmallInt` stands for 32767 and is reached, so that the range error is
  met; `MaxTime` lets a lock run out and another begin. `GuessesBounded` is the exact bound of
  the instance, binomial(limit + connections, connections) - 1, not a generous one.
* `audit_chain`: four ids allow a log of two rows, an anchor on it, a loss, and two rows in
  their place: counts agree again and only the hash tells. A third connection changes nothing
  in what is checked (4 million states, also without an error) and is left to the proof.
* `page_schema`: two columns and two number slots let two columns compete for one slot while a third
  request frees, reads or writes; one record is enough, since nothing in the properties relates
  two. Three requests make every cycle of the two lock orders. A number fits its slot,
  is rounded by it or overflows it, a date is a day or a moment. With the four types of text and
  twelve calls the run covers widening, narrowing with confirmation, index on and off, a special
  key, archiving, and edits under an old map.
* `ai_messages`: a main pool of three under three messages leaves no connection for the meter when
  all are in, and a reader pool of two makes the third wait; a batch of two exceeds the one tool call allowed; the second
  window lets the limit start anew and is another day for the cap (`DayLength`).
* `query`: three rows and limits of 1 and 2 give scans of one to three pages; two writes move one
  row past the cursor and another before it. Blanks occur in every column. `One` is 10000 units, so that
  two decimals (`Cent`, 100 units) are fewer digits than PostgreSQL's quotient has (`SqlDigit`, 10), and these
  fewer than Python's (1). Of the rows one is older than the index (a value and an empty slot), one has
  a third decimal, one a moment within a day. The orders are by time, by an indexed column, by a DATETIME and
  by formulas, one of them a quotient that does not end: with and without an exact cursor.
  `MCQuery` compares the two backends over expressions of two levels and rows of all pairs of four values. Access changes while a
  manager's request is under way only: at any other time they make another initial state.
  The search for cycles is checked over all 512 graphs of three formulas.
* Symmetry is used only in runs of safety properties, over sets whose members no property and
  no constant distinguishes.
* Deadlock is checked in `login_lockout`, `refresh_tokens` and `audit_chain`, whose clients never
  stop. In the others every call is made once and the system may come to rest.

## 5. Fairness

`RecordStore` and `Idempotency` assume weak fairness of `Handle` for every request: the event
loop runs each handler on, and PostgreSQL grants a lock that stays free. Nothing is assumed
of clients (`Submit`, `Send`), of failures or of the nightly job. Weak fairness is enough,
although several wait on one lock, since there are finitely many requests and each asks once.
In both, a request that fails is answered with an error.

`PageSchema` assumes the same of `Step`, and of the deadlock detector (`BreakDeadlock`): PostgreSQL runs
it after `deadlock_timeout`. `AiMessages` assumes weak fairness of `Step`, in which a full pool and
a slow provider end in a timeout (`PoolTimeout`, a partial answer): SQLAlchemy and the HTTP client
have one each. `Query` assumes that a client goes on asking (the property is about one that does)
and that the server answers; the fairness of `Answer` is written out as `[]<>` of its two cases, since it
is enabled in just the states granted and evaluating ENABLED of a page of rows is slow. Nothing is assumed of
failures, clocks, writers or other owners. The other modules are checked for safety only.

## 6. What is proved

The proofs hold for every value of the constants under the assumptions named in each module:
any number of requests, records, keys, tokens. The assumptions say only that the
constants are of their kind (a set of ledger records is one of records, `None` is none of
the others, a limit is a positive number, the connections of a login are finitely many); what a theorem
assumes beyond them stands in front of it in the table.

| Theorem | Statement |
|---|---|
| `RecordStore_proof!TypeCorrect` | `Spec => []TypeOK` |
| `RecordStore_proof!HandlesCorrect` | `Spec => []HandlesSound` |
| `RecordStore_proof!NoUpdateIsLost` | `Spec => NoLostUpdate` |
| `RecordStore_proof!LedgerCorrectedOnce` | `Spec => []CorrectedOnce` |
| `RecordStore_proof!RequestsImplementAtomicRecords` | `Spec => ImplementsAtomicRecords` |
| `RecordStore_proof!TrailExplainsBooks` | `Spec => []TrailExplainsRow` |
| `Proposals_proof!TypeCorrect`, `AppliedAtMostOnce`, `AppliesAsShown` | `[]TypeOK`, `[]AppliedOnce`, `AppliesWhatWasShown` |
| `Idempotency_proof!TypeCorrect`, `ReservationsCorrect`, `CreatedOncePerKey`, `ReceiptsCorrect`, `ReplaysCorrect` | `[]TypeOK`, `[]ReservationsSound`, `[]OnePerKey`, `[]ReceiptsBacked`, `[]ReplaysTheOriginal` |
| `RefreshTokens_proof!TypeCorrect`, `ClaimsCorrect`, `OneFamilyPerLogin`, `ExchangeCorrect`, `AnswersAreFinal` | `[]TypeOK`, `[]ClaimsSound`, `[]OneLivePerLogin`, `IssuedInExchange`, `[]AnsweredIsRevoked` |
| `Access_proof!LoginTypeCorrect`, `LockCorrect`, `FloorRises` | `[]LoginTypeOK`, `[]LockMatchesCounter`, `FloorNeverFalls` |
| `Access_proof!GuessesCorrect` | if `MaxFailed >= 2`: `LoginSpec => []GuessesBounded` |
| `AuditChain_proof!TypeCorrect`, `InsertsSucceed`, `ChainCorrect`, `VerifierIsSound`, `LossIsCaught` | `[]TypeOK`, `[]NeverRefused`, `[]ChainLinked`, `[]NoFalseAlarm`, `[]TruncationIsCaught` |
| `Access_proof!TypeCorrect`, `AcceptedCorrect`, `TrailCorrect` | `[]TypeOK`, `[]AcceptedUnlessStale`, `[]TrailTellsUser` |
| `Access_proof!AccessTypeCorrect`, `AnswersCorrect` | `AccessSpec => []AccessTypeOK`, `AccessSpec => []AnsweredOnCurrentGrant` |
| `Access_proof!ScansAskForAccess`, `ScansAreAdmitted` | `QuerySpec => AccessSpec`, `QuerySpec => []AnsweredOnCurrentGrant` |
| `Access_proof!QueryTypeCorrect`, `ScansAreStable`, `FiguresCorrect` | `QuerySpec => []QueryTypeOK`, `QuerySpec => []StableRowsInOrder`, `QuerySpec => []FiguresAgree` |
| `PageSchema_proof!TypeCorrect`, `SlotsUnshared`, `CacheIsCurrent`, `OneWinner`, `FreshRows` | `[]TypeOK`, `[]SlotsNotShared`, `[]CachedSchemaCurrent`, `[]OneWinnerPerVersion`, `[]FreshRowsAgree` |
| `AiMessages_proof!TypeCorrect`, `MeterCounts`, `WithinBudgets`, `ProposalsFollowAnswers`, `SessionsNotOvercharged` | `[]TypeOK`, `[]MeterCountsEveryMessage`, `[]BudgetsHold`, `[]ProposalsOfAnswers`, `[]NeverOvercharged` |

The arguments:

* **RecordStore.** Optimistic locking is right because of `HandlesSound`. A handle that waits
  to be written is no newer than the row, and if its version is the row's, then so is
  everything else (`HandleOrdered`): versions only grow, so equal versions mean that nothing
  was written in between. Hence the guarded UPDATE, which compares versions only, hits
  exactly the row that was read; from then to the end of the transaction the row lock keeps it
  so (`HandleCurrent`). Without the first part the second is not inductive, and `NoLostUpdate`
  is a statement about one step of `Commit` that needs the second. `CorrectedOnce` follows
  because a reversal commits on a handle that was ACTIVE and is still the row. The
  refinement maps `Commit` to the one atomic operation its call names.
* **The trail of a record.** `TrailExplainsRow` replays a trail with a recursive function. A replay is
  characterised by its first value and its steps, and two that agree on these are equal: otherwise there
  is a least place where they differ (`OneReplay`, from the well-foundedness of the naturals, since an
  induction theorem cannot be instantiated here). So appending an entry extends the replay by one
  step (`ReplayAppend`), and as an entry's old data is the row its handle read and its new data the row
  its transaction wrote (`EntryIsTrue`, from `HandlesSound`), a commit extends the replay to the new row.
* **Proposals.** While the version a card was drafted from is the record's, the record is what the card
  shows (`DraftsTrue`); from the guarded write to the commit the row lock keeps every other writer out
  (`WritesLocked`), and a version lies past every draft that has had its effect (`EffectsPast`). So a
  second apply of the same card, and any apply of a card gone stale, finds another version and misses.
* **Idempotency.** `ReservationsSound`: whoever holds a key found nothing committed under it
  and is the only one at work on it; until a key is purged, its record has its receipt.
  `OnePerKey` is then preserved by `Commit`, as a second record would have a receipt that the
  holder would have found; after a purge the unique index takes over where it applies.
* **RefreshTokens.** `ClaimsSound`: a locked token is live and its lock is its claim, an heir
  belongs to one request. So the commit of a rotation makes one token live and kills the one
  it replaces, and `OneLivePerLogin` and `IssuedInExchange` are kept. For `AnsweredIsRevoked`: rows stay
  and a revoked one stays revoked, and what a revocation found is in the table and locked by its
  finder from `RevokeFamily` to `Commit` (`Found`), so that no rotation can have claimed it meanwhile.
* **LoginLockout.** `LockMatchesCounter` is inductive, since counter and lock are always
  written together from one value. `FloorNeverFalls` is proved from the type invariant.
* **Guesses.** Every connection stands at a level (`Level`): where its next failure takes the account, less
  one. A connection at work is held at what it read, one that is idle moves with the counter; a failure
  of one takes it, and whoever is idle, one above that level, and nobody below it (`GuessStep`), while
  lookups and aborts only let connections rise (`LevelsRise`). So a guess at level v can be repeated only by
  connections that are above v or will get there, and `Told` counts what can have been told by the time
  all stand where they do: for each level, the multisets of the connections above it, of as many members
  as the level lies below the limit. The invariant is `guesses <= Told(Levels)` (`GuessesCounted`). That a
  guess raises `Told` by one at least (`ToldOneMore`) and that `Told` stays below the binomial bound
  (`ToldBounded`) both come from Pascal's rule, which is proved of the subsets of a set
  (`ChooseLastOrNot`). The limit is two at least (the code's is five): with a limit of one, a
  password whose verification outlasts the lock it ends in leaves the account with a full counter
  and no lock in force, and TLC finds a guess too many.
* **AuditChain.** No row has a number above that of the tip the next one is linked to,
  whatever is lost (`HeadIsLast`, with the existence of a last row from the well-foundedness of
  the naturals), so numbers are never taken. Without a loss, both the committed log and the log
  with the rows of the lock's holder are chains (`Linear`); a chain extended by a linked row is
  one, and a head row rebuilt from a chain is the one that was lost. In a chain LAG returns the
  row each was linked to, hence no alarm (`Verified`). For losses: the id in the last place of
  the anchored hash belongs to a row once committed, ids are never drawn again (`Spent`), so no
  later row has that hash (`LossKept`).
* **UserAccess.** The invariant says that while no bump was computed from an overtaken version,
  a token or a session with the current version has the current role, and that the update
  holding the row has in `row` what it will commit, computed from the row it locked.
* **PageAccess.** A PUT removes what was committed when it began. So of the PUTs it knew to be complete
  a complete PUT leaves no grant, and one under way has found every grant they left
  (`PutsFindTheirPast`); what a PUT inserts, no PUT that began before its commit counts among its
  past. A grant names the PUT that wrote it (`GrantsAreNamed`), and whoever all complete PUTs let in has
  one (`NamedAreGranted`), hence a refusal has a reason. A token that is not good never is again
  (`TokenAges`), so one that passes was good when the request began. `Query` takes the steps of
  `PageAccess` and no others (`ScansAskForAccess`), so this holds of every page of a scan.
* **Query.** The order of a list is lexicographic with blanks last, and strict and total on the places of
  rows, since the last key is the id (`OrderedIsStrictOrder`, which needs the least key on which two
  places differ); and the condition that continues after a cursor says just that the cursor is ordered
  before the row (`KeysetIsOrdered`). A strict order of a finite set numbers its members from zero
  (`Ranks`), which makes the page the first of the rows that are left, in their order, and its cursor
  what parts them from the others (`PageFacts`). The place of a row is what the database orders it by (`PlaceFacts`). The invariant: a row
  nobody wrote still matches what was asked for (`StableMatch`); as long as the cursors are exact, each the
  place of the last row of its page, it was returned if and only if it does not come after the cursor
  (`CursorDivides`), and in order (`ReturnedInOrder`); and the cursors of an order by time are exact, since a
  row is shown with the time it is ordered by (`ExactByTime`). Nothing is asked of the two backends but
  that their values have an order; that they differ is what `exact` may become false by.
  That the reader sees the rows at all comes from the invariant of `PageAccess`.
* **Figures.** The sums are folds in an order the definition does not fix. A sum over a finite set is shown
  to be the one that starts at nothing and takes any element out (`SumFact`, `SumTakesOut`), so it depends on the
  values alone (`SumAgrees`) and adds up over the groups of a set, and so do the numbers of their rows
  (`SumOfGroups`, `SumOfOnes`, `GroupsAddUp`): each time by a least set, or number, at which it would not, since
  there is no induction to cite. The balance at the n-th row sums the amounts of the first n in their strict
  order, and the set of the first n + 1 is that of the first n and one row more (`UpToNext`,
  `BalancesAgree`). All this is of slots, whatever they hold. Where the rows are shown as a statement reads them
  in the columns concerned, those a total is over are those listed under the same filters
  (`TotalsAgree`), and a value offered is one shown (`OfferedIsShown`).
* **PageSchema.** Slots are unshared because a map is written back whole: every map anywhere, the
  page's, the one a request read, the one it prepared, gives each slot to one column
  (`MapsInjective`), a new slot being free in the very map it is added to. Merging the one key into
  the map of the moment would break it (the mutant of `SlotsNotShared`). A client's schema is current
  because what a request has read of the page is never newer than the page (`PageRead`), and
  every change of a column comes with a new version. Of edits that assert one version one wins, since
  If-Match is compared under the row lock that is kept to the commit (`PageHeld`). Rows mirror
  their documents, cut to the slots, under the map of their writer (`RowsMirror`), and a slot belongs to one
  column of a map, which gives `FreshRowsAgree` for each column that kept its slot.
* **AiMessages.** A message has no window until it is counted, and its count is committed in the step
  that gives it one (`Progress`), so meter and messages are in step, by cardinalities of the set that
  grows by one. Budgets hold since a tool starts only below them; proposals, since only `Answer`
  commits and every other end takes back. For `NeverOvercharged`, what the session's cost is, and what a message
  under way has read of it, was paid for by messages that count it (`ChargesBacked`, `ReadsBacked`). The
  sum over a set of messages is the community modules' `MapThenSumSet`, a choice of an order and a fold:
  it is shown to be the one function on finite subsets that starts at zero and adds an element's cost
  with each (`CostSumIsTotal`), by a least set on which two such functions differ (`SumUnique`).

## 7. What is only model-checked

* Liveness (`EveryRequestAnswered`, `EveryAttemptAnswered`, `EveryRequestEnds`, `EveryMessageEnds`,
  `EveryScanEnds`): fairness is out of the prover's reach.
* What `Formulas` computes, and where the two backends agree (`BackendsAgree`, an assumption of `MCQuery` over all
  small expressions): it is recursive over expressions, and no induction over them can be stated here.
  No theorem assumes it.

## 8. What is not modelled

* The mobile client. Its refresh is single-flight within one event loop and its retries are calls the
  server modules admit anyway (`Idempotency`, `RefreshTokens` let anybody repeat anything). Two of its
  habits are hazards the server cannot see: a refresh that fails on the network clears the tokens
  (`auth_interceptor.dart:107`), and a user who saves again after a timeout sends a fresh key
  (`page_repository.dart:197`).
* The connection on which a refusal is audited (`dependencies/guards.py:47`): it has the shape of the
  meter's in `AiMessages`, with a timeout of its own. `PageAccess!Deny` has its two outcomes and not its pool.
* Dashboard and CSV: fixed sums and the text of queries that `Query` has. `narrow_dry_run`: reads only.
* System pages, the validation of options, positions of columns, strings in formulas: data the properties do not tell apart, or single inserts.
* Tenancy, except for a stranger in `Query`: a predicate of the database on each row.
* Business dates, money and the wording of errors: a payload is a member of a small set; where it is
  about validity (`PageSchema`) the set has members that are not valid, elsewhere a request that fails
  validation is a `Rollback`.
* What the assistant's reading tools query, its prompts and its router: a tool returns some rows.
* `create_user`, `store_service`: single inserts and updates of rows nobody competes for.
* Migrations that re-hash an existing log, the endpoints that read the audit log, nightly jobs but the
  purge and the verifier, logging, screens, deployment.
* Not a model of PostgreSQL: isolation is READ COMMITTED as described in section 1.1, and a
  deadlock the database breaks is a failure of one request (`Rollback`, `Fail`).

## 9. Where it could go on

The plan this project was begun with (record writes, proposals, repeated creation, tokens, lockout,
users, the audit chain, then page schemas with references and lock order, the assistant, formulas and
pagination) is carried out except for the client. What would add most to it:

* the client's interceptors composed with `Idempotency` and `RefreshTokens`;
* an abstract specification of a page (one atomic step per edit of its schema) that `PageSchema`
  implements where no map is overwritten;
* the pool of `AiMessages` shared with ordinary requests and their refusals.
