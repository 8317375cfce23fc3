---------------------------- MODULE Idempotency ----------------------------
(***************************************************************************)
(* POST /pages/{id}/records with an Idempotency-Key (routers/records.py,   *)
(* core/idempotency.py).  A request is one transaction: it looks the key   *)
(* up, reserves it, creates the record, stores the response under the key  *)
(* and commits, and the framework has sent the response before the         *)
(* commit.  Reserving a key waits while another transaction holds an       *)
(* uncommitted reservation of it.  The nightly job removes old keys.       *)
(*                                                                         *)
(* A client may repeat a key as often as it likes, with any body.  The     *)
(* page is no part of what a key is compared with and is left out.  A      *)
(* member of Attempts is one HTTP request, so there are as many requests   *)
(* as there are Attempts.  Creating the record is one step here: module    *)
(* RecordStore takes it apart.                                             *)
(***************************************************************************)
EXTENDS Naturals

CONSTANTS
    Keys,       \* idempotency keys of one company
    UuidKeys,   \* the keys whose client sends them as client_uuid as well
    Bodies,     \* request bodies, as far as their hash tells them apart
    Ids,        \* record ids
    Attempts,
    None

ASSUME IdempotencyAssumption ==
    /\ UuidKeys \subseteq Keys
    /\ None \notin Attempts \union Ids \union Keys

VARIABLES
    records,    \* record id -> the committed record
    receipts,   \* key -> its committed row in idempotency_keys
    holder,     \* key -> the request with an uncommitted reservation of it
    purged,     \* the keys the nightly job has removed at least once
    pc,         \* request -> where its handler stands
    request,    \* request -> what it asks for
    mine,       \* request -> the id it has inserted
    reply       \* request -> the response its client was sent

vars == <<records, receipts, holder, purged, pc, request, mine, reply>>

-----------------------------------------------------------------------------
Request == [key : Keys, body : Bodies]
NoRecord == [key |-> None]
Receipt == [body : Bodies, record : Ids]
NoReceipt == [record |-> None]
Reply == [status : {"created", "replayed"}, record : Ids]
           \union [status : {"none", "conflict", "error"}, record : {None}]
Answer(s) == [status |-> s, record |-> None]

Working == {"sent", "missing", "reserved", "inserted", "stored", "answered"}
Ended == {"committed", "rolledback"}

TypeOK ==
    /\ records \in [Ids -> Request \union {NoRecord}]
    /\ receipts \in [Keys -> Receipt \union {NoReceipt}]
    /\ holder \in [Keys -> Attempts \union {None}]
    /\ purged \subseteq Keys
    /\ pc \in [Attempts -> {"idle"} \union Working \union Ended]
    /\ request \in [Attempts -> Request]
    /\ mine \in [Attempts -> Ids \union {None}]
    /\ reply \in [Attempts -> Reply]

Init ==
    /\ records = [i \in Ids |-> NoRecord]
    /\ receipts = [k \in Keys |-> NoReceipt]
    /\ holder = [k \in Keys |-> None]
    /\ purged = {}
    /\ pc = [a \in Attempts |-> "idle"]
    /\ request \in [Attempts -> Request]
    /\ mine = [a \in Attempts |-> None]
    /\ reply = [a \in Attempts |-> Answer("none")]

-----------------------------------------------------------------------------
Send(a) ==
    /\ pc[a] = "idle"
    /\ pc' = [pc EXCEPT ![a] = "sent"]
    /\ UNCHANGED <<records, receipts, holder, purged, request, mine, reply>>

ReleaseNothing(a) == UNCHANGED holder     \* mutant: a reservation outlives its request
ReleaseKeys(a) == holder' = [k \in Keys |-> IF holder[k] = a THEN None ELSE holder[k]]

\* An exception ends the transaction with ROLLBACK.
RollBack(a, answer) ==
    /\ ReleaseKeys(a)
    /\ pc' = [pc EXCEPT ![a] = "rolledback"]
    /\ mine' = [mine EXCEPT ![a] = None]
    /\ reply' = [reply EXCEPT ![a] = answer]
    /\ UNCHANGED <<records, receipts, purged, request>>

MutantSameKey(a, receipt) == TRUE         \* mutant: lookup ignores the request hash
SameRequest(a, receipt) == receipt.body = request[a].body

LookupFindsNothing(a) ==
    /\ pc[a] = "sent"
    /\ receipts[request[a].key] = NoReceipt
    /\ pc' = [pc EXCEPT ![a] = "missing"]
    /\ UNCHANGED <<records, receipts, holder, purged, request, mine, reply>>

LookupRefuses(a) ==
    /\ pc[a] = "sent"
    /\ LET receipt == receipts[request[a].key]
       IN  receipt # NoReceipt /\ ~SameRequest(a, receipt)
    /\ RollBack(a, Answer("conflict"))

LookupReplays(a) ==
    /\ pc[a] = "sent"
    /\ LET receipt == receipts[request[a].key]
       IN  /\ receipt # NoReceipt /\ SameRequest(a, receipt)
           /\ pc' = [pc EXCEPT ![a] = "committed"]
           /\ reply' = [reply EXCEPT ![a] = [status |-> "replayed", record |-> receipt.record]]
    /\ UNCHANGED <<records, receipts, holder, purged, request, mine>>

\* INSERT ... ON CONFLICT DO NOTHING waits for the uncommitted holder, then
\* inserts, or finds the row that the holder committed.
MutantNeverTaken(k) == TRUE               \* mutant: reserve does not see the key taken
Reservable(k) == receipts[k] = NoReceipt

Reserve(a) ==
    /\ pc[a] = "missing"
    /\ LET k == request[a].key
       IN  /\ holder[k] = None
           /\ Reservable(k)
           /\ holder' = [holder EXCEPT ![k] = a]
    /\ pc' = [pc EXCEPT ![a] = "reserved"]
    /\ UNCHANGED <<records, receipts, purged, request, mine, reply>>

ReserveLoses(a) ==
    /\ pc[a] = "missing"
    /\ holder[request[a].key] = None
    /\ ~Reservable(request[a].key)
    /\ RollBack(a, Answer("conflict"))

\* ux_records_client_uuid
UuidTaken(k) == k \in UuidKeys /\ \E i \in Ids : records[i].key = k

CreateRecord(a, i) ==
    /\ pc[a] = "reserved"
    /\ ~UuidTaken(request[a].key)
    /\ records[i] = NoRecord
    /\ \A b \in Attempts : mine[b] # i
    /\ mine' = [mine EXCEPT ![a] = i]
    /\ pc' = [pc EXCEPT ![a] = "inserted"]
    /\ UNCHANGED <<records, receipts, holder, purged, request, reply>>

\* Nothing catches the IntegrityError.
CreateViolatesUuid(a) ==
    /\ pc[a] = "reserved"
    /\ UuidTaken(request[a].key)
    /\ RollBack(a, Answer("error"))

StoreResponse(a) ==
    /\ pc[a] = "inserted"
    /\ pc' = [pc EXCEPT ![a] = "stored"]
    /\ UNCHANGED <<records, receipts, holder, purged, request, mine, reply>>

\* The response goes out before the session dependency is left.
Respond(a) ==
    /\ pc[a] = "stored"
    /\ pc' = [pc EXCEPT ![a] = "answered"]
    /\ reply' = [reply EXCEPT ![a] = [status |-> "created", record |-> mine[a]]]
    /\ UNCHANGED <<records, receipts, holder, purged, request, mine>>

\* Mutant: what is committed is the key, with the record in a session of its own.
CommitReceiptOnly(a) ==
    /\ pc[a] = "answered"
    /\ receipts' = [receipts EXCEPT ![request[a].key] =
                      [body |-> request[a].body, record |-> mine[a]]]
    /\ ReleaseKeys(a)
    /\ pc' = [pc EXCEPT ![a] = "committed"]
    /\ mine' = [mine EXCEPT ![a] = None]
    /\ UNCHANGED <<records, purged, request, reply>>

Commit(a) ==
    /\ pc[a] = "answered"
    /\ records' = [records EXCEPT ![mine[a]] = request[a]]
    /\ receipts' = [receipts EXCEPT ![request[a].key] =
                      [body |-> request[a].body, record |-> mine[a]]]
    /\ ReleaseKeys(a)
    /\ pc' = [pc EXCEPT ![a] = "committed"]
    /\ mine' = [mine EXCEPT ![a] = None]
    /\ UNCHANGED <<purged, request, reply>>

\* Validation, the database or the process fails.  A response already sent stays sent.
Fail(a) ==
    /\ pc[a] \in Working
    /\ RollBack(a, IF pc[a] = "answered" THEN reply[a] ELSE Answer("error"))

\* purge_expired: the key is older than 48 hours.
Purge(k) ==
    /\ receipts[k] # NoReceipt
    /\ receipts' = [receipts EXCEPT ![k] = NoReceipt]
    /\ purged' = purged \union {k}
    /\ UNCHANGED <<records, holder, pc, request, mine, reply>>

Handle(a) ==
    \/ LookupFindsNothing(a)
    \/ LookupRefuses(a)
    \/ LookupReplays(a)
    \/ Reserve(a)
    \/ ReserveLoses(a)
    \/ \E i \in Ids : CreateRecord(a, i)
    \/ CreateViolatesUuid(a)
    \/ StoreResponse(a)
    \/ Respond(a)
    \/ Commit(a)

Next ==
    \/ \E a \in Attempts : Send(a) \/ Handle(a) \/ Fail(a)
    \/ \E k \in Keys : Purge(k)

Spec == Init /\ [][Next]_vars
FairSpec == Spec /\ \A a \in Attempts : WF_vars(Handle(a))

-----------------------------------------------------------------------------
(* Properties *)

\* Repeating a key never makes a second record, however the requests overlap
\* and fail (docs/API.md, 1.1 Idempotency); where the client sends its key as
\* client_uuid, not even after the key is purged.
OnePerKey ==
    \A k \in Keys : k \in UuidKeys \/ k \notin purged =>
        \A i, j \in Ids : records[i].key = k /\ records[j].key = k => i = j

\* A stored response is the committed outcome of the very request that is under
\* the key: never half-made, never of another body.
ReceiptsBacked ==
    \A k \in Keys : receipts[k] # NoReceipt =>
        LET made == records[receipts[k].record]
        IN  made.key = k /\ made.body = receipts[k].body

\* A replayed answer names a committed record created by a request with the
\* same key and the same body.
ReplaysTheOriginal ==
    \A a \in Attempts : reply[a].status = "replayed" =>
        LET made == records[reply[a].record]
        IN  made.key = request[a].key /\ made.body = request[a].body

\* The request that works on a record is the one holder of its key, under which
\* nothing is committed, and the id it inserted is its own.
Holding == {"reserved", "inserted", "stored", "answered"}
HolderWorks ==
    \A k \in Keys, a \in Attempts : holder[k] = a => pc[a] \in Holding /\ request[a].key = k
HolderAlone ==
    \A a \in Attempts : pc[a] \in Holding =>
        holder[request[a].key] = a /\ receipts[request[a].key] = NoReceipt
InsertedIsFresh ==
    \A a \in Attempts :
        IF pc[a] \in Holding \ {"reserved"}
        THEN /\ mine[a] \in Ids /\ records[mine[a]] = NoRecord
             /\ ~UuidTaken(request[a].key)
        ELSE mine[a] = None
InsertedIsOwned ==
    \A a, b \in Attempts : mine[a] # None /\ mine[a] = mine[b] => a = b

\* Until it is purged, a key's receipt names the record made under it.
RecordsHaveReceipts ==
    \A i \in Ids : LET k == records[i].key
                   IN  records[i] # NoRecord /\ k \notin purged =>
                         receipts[k] # NoReceipt /\ receipts[k].record = i

\* Between reserve and commit a request has its key and its record to itself:
\* the ON CONFLICT insert of reserve is what every other request waits at.
ReservationsSound ==
    HolderWorks /\ HolderAlone /\ InsertedIsFresh /\ InsertedIsOwned /\ RecordsHaveReceipts

\* A request that waits for a key is answered in the end: whoever holds it
\* commits or rolls back, and either frees it.
EveryAttemptAnswered ==
    \A a \in Attempts : pc[a] = "sent" ~> reply[a].status # "none"

\* A client that was answered 201 has a record (docs/ARCHITECTURE.md, Request
\* lifecycle: COMMIT, then 201).  Does not hold: the answer goes out first.
AcknowledgedIsDurable ==
    \A a \in Attempts : reply[a].status = "created" /\ pc[a] \in Ended =>
        records[reply[a].record] # NoRecord
=============================================================================
