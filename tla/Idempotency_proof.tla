------------------------- MODULE Idempotency_proof -------------------------
(***************************************************************************)
(* Proofs about Idempotency for any sets of keys, requests, bodies and    *)
(* record ids.                                                             *)
(***************************************************************************)
EXTENDS Idempotency, TLAPS

\* The inductive invariant: a record can only be committed by the one holder of
\* its key, who found nothing committed under it.
IInv ==
    /\ TypeOK
    /\ ReservationsSound
    /\ ReceiptsBacked
    /\ ReplaysTheOriginal
    /\ OnePerKey

-----------------------------------------------------------------------------
(* The data *)

\* Absent records and receipts are told apart from present ones by their fields.
LEMMA Absent ==
    /\ \A r \in Request : r # NoRecord /\ r.key # NoRecord.key
    /\ \A r \in Receipt : r # NoReceipt /\ r.record # NoReceipt.record
    /\ NoRecord.key \notin Keys
    /\ NoReceipt.record \notin Ids
<1>1. /\ NoRecord.key = None /\ None \notin Keys
      /\ NoReceipt.record = None /\ None \notin Ids
  BY IdempotencyAssumption DEF IdempotencyAssumption, NoRecord, NoReceipt
<1>2. (\A r \in Request : r.key \in Keys) /\ (\A r \in Receipt : r.record \in Ids)
  BY DEF Request, Receipt
<1> QED
  BY <1>1, <1>2

\* Answers that name no record, and those that name one, are replies.
LEMMA AnswerTypes ==
    /\ \A s \in {"none", "conflict", "error"} : Answer(s) \in Reply /\ Answer(s).status = s
    /\ \A s \in {"created", "replayed"}, i \in Ids : [status |-> s, record |-> i] \in Reply
BY DEF Answer, Reply

-----------------------------------------------------------------------------
(* Type correctness *)

LEMMA InitTypeOK == Init => TypeOK
<1> SUFFICES ASSUME Init PROVE TypeOK
  OBVIOUS
<1>1. reply \in [Attempts -> Reply]
  BY AnswerTypes DEF Init
<1> QED
  BY <1>1 DEF Init, TypeOK

LEMMA RollBackTypeOK ==
    ASSUME TypeOK, NEW a \in Attempts, NEW answer \in Reply, RollBack(a, answer)
    PROVE  TypeOK'
<1>1. holder' \in [Keys -> Attempts \union {None}]
  BY DEF RollBack, ReleaseKeys, TypeOK
<1>2. /\ pc' \in [Attempts -> {"idle"} \union Working \union Ended]
      /\ mine' \in [Attempts -> Ids \union {None}]
      /\ reply' \in [Attempts -> Reply]
  BY DEF RollBack, TypeOK, Ended
<1> QED
  BY <1>1, <1>2 DEF RollBack, TypeOK

LEMMA NextTypeOK ==
    ASSUME TypeOK, ReservationsSound, [Next]_vars
    PROVE  TypeOK'
<1>1. ASSUME NEW a \in Attempts, Send(a)
      PROVE  TypeOK'
  BY <1>1 DEF Send, TypeOK, Working
<1>2. ASSUME NEW a \in Attempts, Handle(a)
      PROVE  TypeOK'
  <2>1. CASE LookupFindsNothing(a)
    BY <2>1 DEF LookupFindsNothing, TypeOK, Working
  <2>2. CASE LookupRefuses(a)
    BY <2>2, RollBackTypeOK, AnswerTypes DEF LookupRefuses
  <2>3. CASE LookupReplays(a)
    <3>1. receipts[request[a].key].record \in Ids
      BY <2>3 DEF LookupReplays, TypeOK, Request, Receipt
    <3>2. reply' \in [Attempts -> Reply]
      BY <2>3, <3>1, AnswerTypes DEF LookupReplays, TypeOK
    <3> QED
      BY <2>3, <3>2 DEF LookupReplays, TypeOK, Ended
  <2>4. CASE Reserve(a)
    BY <2>4 DEF Reserve, TypeOK, Working
  <2>5. CASE ReserveLoses(a)
    BY <2>5, RollBackTypeOK, AnswerTypes DEF ReserveLoses
  <2>6. ASSUME NEW i \in Ids, CreateRecord(a, i)
        PROVE  TypeOK'
    BY <2>6 DEF CreateRecord, TypeOK, Working
  <2>7. CASE CreateViolatesUuid(a)
    BY <2>7, RollBackTypeOK, AnswerTypes DEF CreateViolatesUuid
  <2>8. CASE StoreResponse(a)
    BY <2>8 DEF StoreResponse, TypeOK, Working
  <2>9. CASE Respond(a)
    <3>1. mine[a] \in Ids
      BY <2>9 DEF Respond, ReservationsSound, InsertedIsFresh, Holding
    <3>2. reply' \in [Attempts -> Reply]
      BY <2>9, <3>1, AnswerTypes DEF Respond, TypeOK
    <3> QED
      BY <2>9, <3>2 DEF Respond, TypeOK, Working
  <2>10. CASE Commit(a)
    <3>1. mine[a] \in Ids /\ request[a] \in Request /\ request[a].body \in Bodies
      BY <2>10 DEF Commit, ReservationsSound, InsertedIsFresh, Holding, TypeOK, Request
    <3>2. [body |-> request[a].body, record |-> mine[a]] \in Receipt
      BY <3>1 DEF Receipt
    <3>3. /\ records' \in [Ids -> Request \union {NoRecord}]
          /\ receipts' \in [Keys -> Receipt \union {NoReceipt}]
      BY <2>10, <3>1, <3>2 DEF Commit, TypeOK
    <3>4. holder' \in [Keys -> Attempts \union {None}]
      BY <2>10 DEF Commit, ReleaseKeys, TypeOK
    <3> QED
      BY <2>10, <3>3, <3>4 DEF Commit, TypeOK, Ended
  <2> QED
    BY <1>2, <2>1, <2>2, <2>3, <2>4, <2>5, <2>6, <2>7, <2>8, <2>9, <2>10 DEF Handle
<1>3. ASSUME NEW a \in Attempts, Fail(a)
      PROVE  TypeOK'
  <2>1. reply[a] \in Reply
    BY DEF TypeOK
  <2>2. RollBack(a, reply[a]) \/ RollBack(a, Answer("error"))
    BY <1>3 DEF Fail
  <2> QED
    BY <2>1, <2>2, RollBackTypeOK, AnswerTypes
<1>4. ASSUME NEW k \in Keys, Purge(k)
      PROVE  TypeOK'
  BY <1>4 DEF Purge, TypeOK
<1>5. CASE UNCHANGED vars
  BY <1>5 DEF vars, TypeOK
<1> QED
  BY <1>1, <1>2, <1>3, <1>4, <1>5 DEF Next

-----------------------------------------------------------------------------
(* The inductive invariant *)

LEMMA InitIInv == Init => IInv
<1> SUFFICES ASSUME Init PROVE IInv
  OBVIOUS
<1>1. TypeOK
  BY InitTypeOK
<1>2. ReservationsSound
  BY IdempotencyAssumption
     DEF Init, ReservationsSound, HolderWorks, HolderAlone, InsertedIsFresh, InsertedIsOwned,
         RecordsHaveReceipts, Holding, IdempotencyAssumption
<1>3. ReceiptsBacked /\ OnePerKey
  BY Absent DEF Init, ReceiptsBacked, OnePerKey
<1>4. ReplaysTheOriginal
  BY DEF Init, ReplaysTheOriginal, Answer
<1> QED
  BY <1>1, <1>2, <1>3, <1>4 DEF IInv

\* A step that changes no committed row and sends no replay keeps what is said
\* of committed rows.
LEMMA CommittedUnchanged ==
    ASSUME IInv, UNCHANGED <<records, receipts, purged, request>>,
           \A a \in Attempts : reply'[a].status = "replayed" => reply'[a] = reply[a]
    PROVE  ReceiptsBacked' /\ OnePerKey' /\ RecordsHaveReceipts' /\ ReplaysTheOriginal'
<1>1. ReceiptsBacked' /\ OnePerKey' /\ RecordsHaveReceipts'
  BY DEF IInv, ReservationsSound, ReceiptsBacked, OnePerKey, RecordsHaveReceipts
<1>2. ReplaysTheOriginal'
  BY DEF IInv, ReplaysTheOriginal
<1> QED
  BY <1>1, <1>2

\* A rollback frees the key and the id of its own request only.
LEMMA RollBackIInv ==
    ASSUME IInv, TypeOK', NEW a \in Attempts, NEW answer \in Reply, RollBack(a, answer),
           answer.status = "replayed" => answer = reply[a]
    PROVE  IInv'
<1>1. ReceiptsBacked' /\ OnePerKey' /\ RecordsHaveReceipts' /\ ReplaysTheOriginal'
  BY CommittedUnchanged DEF RollBack, IInv, TypeOK
<1>2. pc'[a] = "rolledback" /\ \A b \in Attempts \ {a} : pc'[b] = pc[b]
  BY DEF RollBack, IInv, TypeOK
<1>3. mine'[a] = None /\ \A b \in Attempts \ {a} : mine'[b] = mine[b]
  BY DEF RollBack, IInv, TypeOK
<1>4. \A k \in Keys : holder'[k] = IF holder[k] = a THEN None ELSE holder[k]
  BY DEF RollBack, ReleaseKeys
<1>5. HolderWorks'
  BY <1>2, <1>4, IdempotencyAssumption
     DEF IInv, ReservationsSound, HolderWorks, RollBack, IdempotencyAssumption
<1>6. HolderAlone'
  BY <1>2, <1>4 DEF IInv, ReservationsSound, HolderAlone, RollBack, Holding, TypeOK, Request
<1>7. InsertedIsFresh'
  BY <1>2, <1>3 DEF IInv, ReservationsSound, InsertedIsFresh, RollBack, Holding, UuidTaken
<1>8. InsertedIsOwned'
  BY <1>3 DEF IInv, ReservationsSound, InsertedIsOwned
<1> QED
  BY <1>1, <1>5, <1>6, <1>7, <1>8 DEF IInv, ReservationsSound

\* The step that creates both the record and its receipt.
LEMMA CommitIInv ==
    ASSUME IInv, TypeOK', NEW a \in Attempts, Commit(a)
    PROVE  IInv'
<1> DEFINE K == request[a].key
           I == mine[a]
<1>1. /\ pc[a] = "answered" /\ K \in Keys /\ I \in Ids
      /\ records[I] = NoRecord /\ ~UuidTaken(K)
      /\ holder[K] = a /\ receipts[K] = NoReceipt
      /\ request[a] \in Request /\ request[a].key = K
  BY DEF Commit, IInv, ReservationsSound, HolderAlone, InsertedIsFresh, Holding, TypeOK, Request
<1>2. /\ records'[I] = request[a]
      /\ \A i \in Ids \ {I} : records'[i] = records[i]
  BY <1>1 DEF Commit, IInv, TypeOK
<1>3. /\ receipts'[K] = [body |-> request[a].body, record |-> I]
      /\ \A k \in Keys \ {K} : receipts'[k] = receipts[k]
  BY <1>1 DEF Commit, IInv, TypeOK
<1>4. pc'[a] = "committed" /\ \A b \in Attempts \ {a} : pc'[b] = pc[b]
  BY DEF Commit, IInv, TypeOK
<1>5. mine'[a] = None /\ \A b \in Attempts \ {a} : mine'[b] = mine[b]
  BY DEF Commit, IInv, TypeOK
<1>6. \A k \in Keys : holder'[k] = IF holder[k] = a THEN None ELSE holder[k]
  BY DEF Commit, ReleaseKeys
<1>7. UNCHANGED <<purged, request, reply>>
  BY DEF Commit
<1>8. \A b \in Attempts \ {a} : pc[b] \in Holding => request[b].key # K /\ mine[b] # I
  BY <1>1, IdempotencyAssumption
     DEF IInv, ReservationsSound, HolderAlone, InsertedIsOwned, IdempotencyAssumption
<1> HIDE DEF K, I
<1>9. HolderWorks'
  BY <1>4, <1>6, <1>7, IdempotencyAssumption
     DEF IInv, ReservationsSound, HolderWorks, IdempotencyAssumption
<1>10. HolderAlone'
  BY <1>3, <1>4, <1>6, <1>7, <1>8
     DEF IInv, ReservationsSound, HolderAlone, Holding, TypeOK, Request
<1>11. InsertedIsFresh'
  <2> SUFFICES ASSUME NEW b \in Attempts
               PROVE  IF pc'[b] \in Holding \ {"reserved"}
                      THEN /\ mine'[b] \in Ids /\ records'[mine'[b]] = NoRecord
                           /\ ~UuidTaken(request[b].key)'
                      ELSE mine'[b] = None
    BY DEF InsertedIsFresh
  <2>1. CASE b = a
    BY <2>1, <1>4, <1>5 DEF Holding
  <2>2. CASE b # a /\ pc[b] \in Holding \ {"reserved"}
    <3>1. mine[b] \in Ids /\ records[mine[b]] = NoRecord /\ ~UuidTaken(request[b].key)
      BY <2>2 DEF IInv, ReservationsSound, InsertedIsFresh
    <3>2. request[b].key # K /\ mine[b] # I
      BY <1>8, <2>2
    <3>3. ~UuidTaken(request[b].key)'
      BY <1>1, <1>2, <1>7, <3>1, <3>2 DEF UuidTaken
    <3> QED
      BY <1>2, <1>4, <1>5, <2>2, <3>1, <3>2, <3>3
  <2>3. CASE b # a /\ pc[b] \notin Holding \ {"reserved"}
    BY <1>4, <1>5, <2>3 DEF IInv, ReservationsSound, InsertedIsFresh
  <2> QED
    BY <2>1, <2>2, <2>3
<1>12. InsertedIsOwned'
  BY <1>5 DEF IInv, ReservationsSound, InsertedIsOwned
<1>13. [body |-> request[a].body, record |-> I] # NoReceipt
  BY <1>1, Absent DEF Receipt, Request
<1>14. RecordsHaveReceipts'
  <2> SUFFICES ASSUME NEW i \in Ids, records'[i] # NoRecord, records'[i].key \notin purged
               PROVE  /\ receipts'[records'[i].key] # NoReceipt
                      /\ receipts'[records'[i].key].record = i
    BY <1>7 DEF RecordsHaveReceipts
  <2>1. CASE i = I
    BY <1>1, <1>2, <1>3, <1>13, <2>1
  <2>2. CASE i # I
    <3>1. records[i] # NoRecord /\ records[i].key \in Keys /\ records'[i] = records[i]
      BY <1>2, <2>2 DEF IInv, TypeOK, Request
    <3>2. receipts[records[i].key] # NoReceipt /\ receipts[records[i].key].record = i
      BY <3>1 DEF IInv, ReservationsSound, RecordsHaveReceipts
    <3> QED
      BY <1>1, <1>3, <3>1, <3>2
  <2> QED
    BY <2>1, <2>2
<1>15. ReceiptsBacked'
  <2> SUFFICES ASSUME NEW k \in Keys, receipts'[k] # NoReceipt
               PROVE  /\ records'[receipts'[k].record].key = k
                      /\ records'[receipts'[k].record].body = receipts'[k].body
    BY DEF ReceiptsBacked
  <2>1. CASE k = K
    BY <1>1, <1>2, <1>3, <2>1
  <2>2. CASE k # K
    <3>1. /\ receipts'[k] = receipts[k] /\ receipts[k].record \in Ids
          /\ records[receipts[k].record].key = k
          /\ records[receipts[k].record].body = receipts[k].body
      BY <1>3, <2>2 DEF IInv, ReceiptsBacked, TypeOK, Receipt
    <3>2. receipts[k].record # I
      BY <1>1, <3>1, Absent
    <3> QED
      BY <1>2, <3>1, <3>2
  <2> QED
    BY <2>1, <2>2
<1>16. ReplaysTheOriginal'
  <2> SUFFICES ASSUME NEW b \in Attempts, reply[b].status = "replayed"
               PROVE  /\ records'[reply[b].record].key = request[b].key
                      /\ records'[reply[b].record].body = request[b].body
    BY <1>7 DEF ReplaysTheOriginal
  <2>1. /\ reply[b].record \in Ids /\ request[b].key \in Keys
        /\ records[reply[b].record].key = request[b].key
        /\ records[reply[b].record].body = request[b].body
    BY DEF IInv, ReplaysTheOriginal, TypeOK, Reply, Request
  <2>2. reply[b].record # I
    BY <1>1, <2>1, Absent
  <2> QED
    BY <1>2, <2>1, <2>2
<1>17. OnePerKey'
  <2> SUFFICES ASSUME NEW k \in Keys, k \in UuidKeys \/ k \notin purged,
                      NEW i \in Ids, NEW j \in Ids,
                      records'[i].key = k, records'[j].key = k
               PROVE  i = j
    BY <1>7 DEF OnePerKey
  <2>1. CASE i # I /\ j # I
    BY <1>2, <2>1 DEF IInv, OnePerKey
  <2>2. ASSUME NEW h \in Ids \ {I}, records'[h].key = K, k = K
        PROVE  FALSE
    <3>1. records[h].key = K /\ records[h] # NoRecord
      BY <1>1, <1>2, <2>2, Absent
    <3>2. K \notin UuidKeys
      BY <1>1, <3>1 DEF UuidTaken
    <3>3. receipts[K] # NoReceipt
      BY <2>2, <3>1, <3>2 DEF IInv, ReservationsSound, RecordsHaveReceipts
    <3> QED
      BY <1>1, <3>3
  <2> QED
    BY <1>1, <1>2, <2>1, <2>2
<1> QED
  BY <1>9, <1>10, <1>11, <1>12, <1>14, <1>15, <1>16, <1>17 DEF IInv, ReservationsSound

\* A step of one request that touches neither locks nor committed rows and whose
\* pc stays on its side of reserve and of the insert.
LEMMA QuietIInv ==
    ASSUME IInv, TypeOK', NEW a \in Attempts,
           UNCHANGED <<records, receipts, holder, purged, request, mine>>,
           \A b \in Attempts : b # a => pc'[b] = pc[b],
           pc'[a] \in Holding <=> pc[a] \in Holding,
           pc'[a] = "reserved" <=> pc[a] = "reserved",
           \A b \in Attempts : reply'[b].status = "replayed" => reply'[b] = reply[b]
    PROVE  IInv'
<1>1. ReceiptsBacked' /\ OnePerKey' /\ RecordsHaveReceipts' /\ ReplaysTheOriginal'
  BY CommittedUnchanged
<1>2. HolderWorks' /\ HolderAlone' /\ InsertedIsOwned'
  BY DEF IInv, ReservationsSound, HolderWorks, HolderAlone, InsertedIsOwned
<1>3. InsertedIsFresh'
  BY DEF IInv, ReservationsSound, InsertedIsFresh, UuidTaken
<1> QED
  BY <1>1, <1>2, <1>3 DEF IInv, ReservationsSound

LEMMA NextIInv ==
    ASSUME IInv, [Next]_vars
    PROVE  IInv'
<1>0. TypeOK /\ TypeOK'
  BY NextTypeOK DEF IInv
<1>1. ASSUME NEW a \in Attempts, Send(a)
      PROVE  IInv'
  BY <1>0, <1>1, QuietIInv DEF Send, TypeOK, Holding
<1>2. ASSUME NEW a \in Attempts, Handle(a)
      PROVE  IInv'
  <2>1. CASE LookupFindsNothing(a)
    BY <1>0, <2>1, QuietIInv DEF LookupFindsNothing, TypeOK, Holding
  <2>2. CASE LookupRefuses(a)
    BY <1>0, <2>2, RollBackIInv, AnswerTypes DEF LookupRefuses
  <2>3. CASE LookupReplays(a)
    <3> DEFINE receipt == receipts[request[a].key]
    <3>1. /\ receipt # NoReceipt /\ receipt.body = request[a].body
          /\ reply'[a] = [status |-> "replayed", record |-> receipt.record]
          /\ request[a].key \in Keys
      BY <1>0, <2>3 DEF LookupReplays, SameRequest, TypeOK, Request
    <3>2. \A b \in Attempts \ {a} : pc'[b] = pc[b] /\ reply'[b] = reply[b]
      BY <1>0, <2>3 DEF LookupReplays, TypeOK
    <3>3. pc[a] = "sent" /\ pc'[a] = "committed"
      BY <1>0, <2>3 DEF LookupReplays, TypeOK
    <3>4. UNCHANGED <<records, receipts, holder, purged, request, mine>>
      BY <2>3 DEF LookupReplays
    <3>4a. /\ records[receipt.record].key = request[a].key
          /\ records[receipt.record].body = request[a].body
      BY <3>1 DEF IInv, ReceiptsBacked
    <3>5. ReplaysTheOriginal'
      BY <3>1, <3>2, <3>4, <3>4a DEF IInv, ReplaysTheOriginal
    <3>6. ReceiptsBacked' /\ OnePerKey' /\ RecordsHaveReceipts'
      BY <3>4 DEF IInv, ReservationsSound, ReceiptsBacked, OnePerKey, RecordsHaveReceipts
    <3>7. HolderWorks' /\ HolderAlone' /\ InsertedIsOwned'
      BY <3>2, <3>3, <3>4
         DEF IInv, ReservationsSound, HolderWorks, HolderAlone, InsertedIsOwned, Holding
    <3>8. InsertedIsFresh'
      BY <3>2, <3>3, <3>4 DEF IInv, ReservationsSound, InsertedIsFresh, Holding, UuidTaken
    <3> QED
      BY <1>0, <3>5, <3>6, <3>7, <3>8 DEF IInv, ReservationsSound
  <2>4. CASE Reserve(a)
    <3> DEFINE K == request[a].key
    <3>1. /\ K \in Keys /\ holder[K] = None /\ receipts[K] = NoReceipt
          /\ pc[a] = "missing" /\ pc'[a] = "reserved" /\ holder'[K] = a
          /\ \A b \in Attempts \ {a} : pc'[b] = pc[b]
          /\ \A k \in Keys \ {K} : holder'[k] = holder[k]
          /\ UNCHANGED <<records, receipts, purged, request, mine, reply>>
      BY <1>0, <2>4 DEF Reserve, Reservable, TypeOK, Request
    <3>2. ReceiptsBacked' /\ OnePerKey' /\ RecordsHaveReceipts' /\ ReplaysTheOriginal'
      BY <3>1, CommittedUnchanged
    <3>3. HolderWorks'
      BY <3>1 DEF IInv, ReservationsSound, HolderWorks, Holding
    <3>4. HolderAlone'
      BY <1>0, <3>1, IdempotencyAssumption
         DEF IInv, ReservationsSound, HolderAlone, Holding, TypeOK, Request, IdempotencyAssumption
    <3>5. InsertedIsFresh' /\ InsertedIsOwned'
      BY <3>1 DEF IInv, ReservationsSound, InsertedIsFresh, InsertedIsOwned, Holding, UuidTaken
    <3> QED
      BY <1>0, <3>2, <3>3, <3>4, <3>5 DEF IInv, ReservationsSound
  <2>5. CASE ReserveLoses(a)
    BY <1>0, <2>5, RollBackIInv, AnswerTypes DEF ReserveLoses
  <2>6. ASSUME NEW i \in Ids, CreateRecord(a, i)
        PROVE  IInv'
    <3>1. /\ pc[a] = "reserved" /\ pc'[a] = "inserted" /\ mine'[a] = i
          /\ ~UuidTaken(request[a].key) /\ records[i] = NoRecord
          /\ \A b \in Attempts \ {a} : pc'[b] = pc[b] /\ mine'[b] = mine[b] /\ mine[b] # i
          /\ UNCHANGED <<records, receipts, holder, purged, request, reply>>
      BY <1>0, <2>6 DEF CreateRecord, TypeOK
    <3>2. ReceiptsBacked' /\ OnePerKey' /\ RecordsHaveReceipts' /\ ReplaysTheOriginal'
      BY <3>1, CommittedUnchanged
    <3>3. HolderWorks' /\ HolderAlone'
      BY <3>1 DEF IInv, ReservationsSound, HolderWorks, HolderAlone, Holding
    <3>4. InsertedIsFresh'
      BY <3>1 DEF IInv, ReservationsSound, InsertedIsFresh, Holding, UuidTaken
    <3>5. InsertedIsOwned'
      BY <3>1 DEF IInv, ReservationsSound, InsertedIsOwned
    <3> QED
      BY <1>0, <3>2, <3>3, <3>4, <3>5 DEF IInv, ReservationsSound
  <2>7. CASE CreateViolatesUuid(a)
    BY <1>0, <2>7, RollBackIInv, AnswerTypes DEF CreateViolatesUuid
  <2>8. CASE StoreResponse(a)
    BY <1>0, <2>8, QuietIInv DEF StoreResponse, TypeOK, Holding
  <2>9. CASE Respond(a)
    BY <1>0, <2>9, QuietIInv DEF Respond, TypeOK, Holding
  <2>10. CASE Commit(a)
    BY <1>0, <2>10, CommitIInv
  <2> QED
    BY <1>2, <2>1, <2>2, <2>3, <2>4, <2>5, <2>6, <2>7, <2>8, <2>9, <2>10 DEF Handle
<1>3. ASSUME NEW a \in Attempts, Fail(a)
      PROVE  IInv'
  <2>1. reply[a] \in Reply
    BY <1>0 DEF TypeOK
  <2>2. RollBack(a, reply[a]) \/ RollBack(a, Answer("error"))
    BY <1>3 DEF Fail
  <2> QED
    BY <1>0, <2>1, <2>2, RollBackIInv, AnswerTypes
<1>4. ASSUME NEW k \in Keys, Purge(k)
      PROVE  IInv'
  <2>1. /\ receipts[k] # NoReceipt /\ receipts'[k] = NoReceipt /\ purged' = purged \union {k}
        /\ \A h \in Keys \ {k} : receipts'[h] = receipts[h]
        /\ UNCHANGED <<records, holder, pc, request, mine, reply>>
    BY <1>0, <1>4 DEF Purge, TypeOK
  <2>2. ReceiptsBacked' /\ OnePerKey' /\ ReplaysTheOriginal'
    BY <2>1 DEF IInv, ReceiptsBacked, OnePerKey, ReplaysTheOriginal
  <2>3. RecordsHaveReceipts'
    BY <1>0, <2>1 DEF IInv, ReservationsSound, RecordsHaveReceipts, TypeOK, Request
  <2>4. HolderWorks' /\ InsertedIsFresh' /\ InsertedIsOwned'
    BY <2>1 DEF IInv, ReservationsSound, HolderWorks, InsertedIsFresh, InsertedIsOwned, UuidTaken
  <2>5. HolderAlone'
    BY <1>0, <2>1 DEF IInv, ReservationsSound, HolderAlone, TypeOK, Request
  <2> QED
    BY <1>0, <2>2, <2>3, <2>4, <2>5 DEF IInv, ReservationsSound
<1>5. CASE UNCHANGED vars
  BY <1>5
     DEF vars, IInv, TypeOK, ReservationsSound, HolderWorks, HolderAlone, InsertedIsFresh,
         InsertedIsOwned, RecordsHaveReceipts, ReceiptsBacked, ReplaysTheOriginal, OnePerKey,
         UuidTaken
<1> QED
  BY <1>1, <1>2, <1>3, <1>4, <1>5 DEF Next

-----------------------------------------------------------------------------
(* The theorems *)

\* The invariant holds however many requests overlap.
LEMMA AlwaysIInv == Spec => []IInv
<1> QED
  BY InitIInv, NextIInv, PTL DEF Spec

\* The tables and the requests keep their types.
THEOREM TypeCorrect == Spec => []TypeOK
<1>1. IInv => TypeOK
  BY DEF IInv
<1> QED
  BY <1>1, AlwaysIInv, PTL

\* Between reserve and commit a request has its key to itself.
THEOREM ReservationsCorrect == Spec => []ReservationsSound
<1>1. IInv => ReservationsSound
  BY DEF IInv
<1> QED
  BY <1>1, AlwaysIInv, PTL

\* Repeating a key makes no second record before the key is purged, nor after
\* it where the client sends the key as client_uuid.
THEOREM CreatedOncePerKey == Spec => []OnePerKey
<1>1. IInv => OnePerKey
  BY DEF IInv
<1> QED
  BY <1>1, AlwaysIInv, PTL

\* What is stored under a key is the committed record of a request with that
\* key and that body.
THEOREM ReceiptsCorrect == Spec => []ReceiptsBacked
<1>1. IInv => ReceiptsBacked
  BY DEF IInv
<1> QED
  BY <1>1, AlwaysIInv, PTL

\* A replay is the outcome of a request with that key and that body, never
\* an answer to something else.
THEOREM ReplaysCorrect == Spec => []ReplaysTheOriginal
<1>1. IInv => ReplaysTheOriginal
  BY DEF IInv
<1> QED
  BY <1>1, AlwaysIInv, PTL
=============================================================================
