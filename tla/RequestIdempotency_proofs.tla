---------------------- MODULE RequestIdempotency_proofs ----------------------
(* Proofs about RequestIdempotency, for any attempts, actors, keys, payloads. *)
EXTENDS RequestIdempotency, TLAPS

-----------------------------------------------------------------------------
(* The inductive invariant.                                                *)

\* An attempt inside its transaction holds the lock of its domain key.
HoldsKeyLock ==
  \A a \in Attempts : pc[a] \in InTransaction => keyLock[request[a].key] = a

\* After replayOrMismatch found nothing, nothing is posted behind the lock.
NothingPostedYet ==
  \A a \in Attempts : pc[a] = "work" => DocumentsOf(request[a].key) = {}

\* The record of an attempt in the handler, or settling, carries its request
\* id; markCompleted may have settled it already when its answer was lost.
OwnsItsRecord ==
  \A a \in Attempts :
    pc[a] \in InHandler \union Finalizing =>
      /\ records[Scope(a)].owner = a
      /\ records[Scope(a)].payload = request[a].payload
      /\ records[Scope(a)].status \in {"processing", "completed"}

\* Wherever a success is kept, the document it speaks of exists.
Posted(k, p) == \E d \in documents : d.key = k /\ d.payload = p

SuccessIsPosted ==
  /\ \A a \in Attempts :
       outcome[a] = "success" =>
         pc[a] # "idle" /\ Posted(request[a].key, request[a].payload)
  /\ \A a \in Attempts :
       seen[a].response = "success" =>
         pc[a] # "idle" /\ Posted(request[a].key, seen[a].payload)
  /\ \A s \in Scopes :
       records[s].response = "success" => Posted(s[2], records[s].payload)

IInv == /\ TypeOK
        /\ HoldsKeyLock
        /\ NothingPostedYet
        /\ AppliedOnce
        /\ OwnsItsRecord
        /\ SuccessIsPosted

-----------------------------------------------------------------------------
(* Helpers.                                                                *)

\* The row of a request that was sent is a row of the table.
LEMMA ScopeType ==
  ASSUME TypeOK, NEW a \in Attempts, pc[a] # "idle"
  PROVE  /\ request[a] \in Requests
         /\ Scope(a) \in Scopes
         /\ Scope(a)[2] = request[a].key
         /\ request[a].key \in Keys
  BY DEF TypeOK, Scope, Scopes, Requests

\* The row a request writes when it takes the key is a row of the table.
LEMMA ProcessingType ==
  ASSUME TypeOK, NEW a \in Attempts, pc[a] # "idle"
  PROVE  Processing(a) \in Records
  BY ScopeType DEF Processing, Records, Requests

\* The empty tables have their types.
LEMMA TypeInit == Init => TypeOK
  BY NoneAssumption DEF Init, TypeOK, Live, InHandler, Finalizing, Absent, Records, Scopes

\* One step per action; the operators that build a state are expanded.
LEMMA TypeStep == TypeOK /\ [Next]_vars => TypeOK'
<1> SUFFICES ASSUME TypeOK, [Next]_vars
             PROVE  TypeOK'
  OBVIOUS
<1> USE NoneAssumption DEF TypeOK, Live, InHandler, InTransaction, Finalizing, Goto
<1>1. CASE UNCHANGED vars
  BY <1>1 DEF vars
<1>2. ASSUME NEW a \in Attempts, Submit(a)
      PROVE  TypeOK'
  BY <1>2 DEF Submit
<1>3. ASSUME NEW a \in Attempts, Reserve(a)
      PROVE  TypeOK'
  BY <1>3, ScopeType, ProcessingType DEF Reserve
<1>4. ASSUME NEW a \in Attempts, ReadExisting(a)
      PROVE  TypeOK'
  BY <1>4, ScopeType DEF ReadExisting
<1>5. ASSUME NEW a \in Attempts, ReserveError(a)
      PROVE  TypeOK'
  BY <1>5, ScopeType, ProcessingType DEF ReserveError, Answer, Build, Responses
<1>6. ASSUME NEW a \in Attempts, Decide(a)
      PROVE  TypeOK'
  <2>1. pc[a] = "decide" /\ request[a] \in Requests
    BY <1>6, ScopeType DEF Decide
  <2>2. seen[a] \in Records
    OBVIOUS
  <2>3. ExistingResponse(a) \in Responses \union {None}
    BY <2>2 DEF ExistingResponse, Records, Responses
  <2>4. QED
    BY <1>6, <2>1, <2>3 DEF Decide, Answer, Build
<1>7. ASSUME NEW a \in Attempts, ReclaimFailed(a)
      PROVE  TypeOK'
  BY <1>7, ScopeType, ProcessingType DEF ReclaimFailed, Answer, Build, Responses
<1>8. ASSUME NEW a \in Attempts, ReclaimError(a)
      PROVE  TypeOK'
  BY <1>8, ScopeType, ProcessingType DEF ReclaimError, Answer, Build, Responses
<1>9. ASSUME NEW a \in Attempts, LockKey(a)
      PROVE  TypeOK'
  BY <1>9, ScopeType DEF LockKey
<1>10. ASSUME NEW a \in Attempts, ReplayOrMismatch(a)
       PROVE  TypeOK'
  BY <1>10, ScopeType DEF ReplayOrMismatch, Build, ReleaseKeyLock, Responses, StoredResponses
<1>11. ASSUME NEW a \in Attempts, Commit(a)
       PROVE  TypeOK'
  <2>1. Document(a) \in [key : Keys, payload : Payloads, by : Attempts]
    BY <1>11, ScopeType DEF Commit, Document, Requests
  <2>2. QED
    BY <1>11, <2>1, ScopeType DEF Commit, Build, ReleaseKeyLock, Responses, StoredResponses
<1>12. ASSUME NEW a \in Attempts, Rollback(a)
       PROVE  TypeOK'
  BY <1>12, ScopeType DEF Rollback, Build, ReleaseKeyLock, Responses, StoredResponses
<1>13. ASSUME NEW a \in Attempts, HandlerError(a)
       PROVE  TypeOK'
  BY <1>13, ScopeType DEF HandlerError, Build, ReleaseKeyLock, Responses, StoredResponses
<1>14. ASSUME NEW a \in Attempts, NEW status \in {"completed", "failed"},
              pc[a] \in Finalizing, MarkFinal(a, status)
       PROVE  records' \in [Scopes -> Records]
  <2>1. records[Scope(a)] \in Records /\ outcome[a] \in StoredResponses
    BY <1>14, ScopeType
  <2>2. [records[Scope(a)] EXCEPT !.status = status, !.response = outcome[a]] \in Records
    BY <2>1 DEF Records
  <2>3. QED
    BY <1>14, <2>2, ScopeType DEF MarkFinal
<1>15. ASSUME NEW a \in Attempts, MarkCompleted(a)
       PROVE  TypeOK'
  BY <1>15, <1>14 DEF MarkCompleted
<1>16. ASSUME NEW a \in Attempts, MarkCompletedError(a)
       PROVE  TypeOK'
  <2>1. records' \in [Scopes -> Records]
    BY <1>16, <1>14 DEF MarkCompletedError
  <2>2. QED
    BY <1>16, <2>1 DEF MarkCompletedError, Build, Responses, StoredResponses
<1>17. ASSUME NEW a \in Attempts, MarkFailed(a)
       PROVE  TypeOK'
  BY <1>17, <1>14 DEF MarkFailed
<1>18. ASSUME NEW a \in Attempts, MarkFailedError(a)
       PROVE  TypeOK'
  BY <1>18 DEF MarkFailedError, Answer, Build, Responses
<1>19. ASSUME NEW a \in Attempts, Crash(a)
       PROVE  TypeOK'
  BY <1>19, ScopeType DEF Crash, ReleaseKeyLock
<1>20. QED
  BY <1>1, <1>2, <1>3, <1>4, <1>5, <1>6, <1>7, <1>8, <1>9, <1>10, <1>11, <1>12,
     <1>13, <1>15, <1>16, <1>17, <1>18, <1>19
     DEF Next, Step

\* Type correctness of every reachable state.
THEOREM TypeCorrect == Spec => []TypeOK
  BY TypeInit, TypeStep, PTL DEF Spec

-----------------------------------------------------------------------------
(* Each part of the invariant is preserved.                                *)

\* A transaction keeps its lock until it ends, and nobody takes a held lock.
LEMMA HoldsKeyLockStep ==
  TypeOK /\ HoldsKeyLock /\ [Next]_vars => HoldsKeyLock'
<1> SUFFICES ASSUME TypeOK, HoldsKeyLock, [Next]_vars
             PROVE  HoldsKeyLock'
  OBVIOUS
<1> USE NoneAssumption DEF TypeOK, HoldsKeyLock, InTransaction, InHandler, Goto
<1>1. CASE UNCHANGED vars
  BY <1>1 DEF vars
<1>2. ASSUME NEW a \in Attempts, Submit(a)
      PROVE  HoldsKeyLock'
  BY <1>2 DEF Submit
<1>3. ASSUME NEW a \in Attempts,
             \/ Reserve(a) \/ ReadExisting(a) \/ ReserveError(a) \/ Decide(a)
             \/ ReclaimFailed(a) \/ ReclaimError(a)
      PROVE  HoldsKeyLock'
  BY <1>3 DEF Reserve, ReadExisting, ReserveError, Decide, ReclaimFailed, ReclaimError, Answer
<1>4. ASSUME NEW a \in Attempts, LockKey(a)
      PROVE  HoldsKeyLock'
  BY <1>4, ScopeType DEF LockKey
<1>5. ASSUME NEW a \in Attempts,
             \/ ReplayOrMismatch(a) \/ Commit(a) \/ Rollback(a)
             \/ HandlerError(a) \/ Crash(a)
      PROVE  HoldsKeyLock'
  BY <1>5, ScopeType
     DEF ReplayOrMismatch, Commit, Rollback, HandlerError, Crash, ReleaseKeyLock
<1>6. ASSUME NEW a \in Attempts,
             \/ MarkCompleted(a) \/ MarkCompletedError(a)
             \/ MarkFailed(a) \/ MarkFailedError(a)
      PROVE  HoldsKeyLock'
  BY <1>6 DEF MarkCompleted, MarkCompletedError, MarkFailed, MarkFailedError, Answer
<1>7. QED
  BY <1>1, <1>2, <1>3, <1>4, <1>5, <1>6 DEF Next, Step

\* While an attempt holds the lock nobody else posts under its key.
LEMMA PostingStep ==
  TypeOK /\ HoldsKeyLock /\ NothingPostedYet /\ AppliedOnce /\ [Next]_vars
    => NothingPostedYet' /\ AppliedOnce'
<1> SUFFICES ASSUME TypeOK, HoldsKeyLock, NothingPostedYet, AppliedOnce, [Next]_vars
             PROVE  NothingPostedYet' /\ AppliedOnce'
  OBVIOUS
<1> USE DEF TypeOK, NothingPostedYet, AppliedOnce, DocumentsOf, Goto
<1>1. CASE UNCHANGED vars
  BY <1>1 DEF vars
<1>2. ASSUME NEW a \in Attempts, Submit(a)
      PROVE  NothingPostedYet' /\ AppliedOnce'
  BY <1>2 DEF Submit
<1>3. ASSUME NEW a \in Attempts,
             \/ Reserve(a) \/ ReadExisting(a) \/ ReserveError(a) \/ Decide(a)
             \/ ReclaimFailed(a) \/ ReclaimError(a)
      PROVE  NothingPostedYet' /\ AppliedOnce'
  BY <1>3 DEF Reserve, ReadExisting, ReserveError, Decide, ReclaimFailed, ReclaimError, Answer
<1>4. ASSUME NEW a \in Attempts,
             \/ LockKey(a) \/ ReplayOrMismatch(a) \/ Rollback(a)
             \/ HandlerError(a) \/ Crash(a)
      PROVE  NothingPostedYet' /\ AppliedOnce'
  BY <1>4 DEF LockKey, ReplayOrMismatch, Rollback, HandlerError, Crash
<1>5. ASSUME NEW a \in Attempts, Commit(a)
      PROVE  NothingPostedYet' /\ AppliedOnce'
  <2>1. /\ pc[a] = "work" /\ pc'[a] \in Finalizing
        /\ \A b \in Attempts \ {a} : pc'[b] = pc[b]
        /\ request' = request
        /\ documents' = documents \union {Document(a)}
        /\ Document(a).key = request[a].key
    BY <1>5 DEF Commit, Document, Finalizing
  <2>2. \A d \in documents : d.key # request[a].key
    BY <2>1
  <2>3. AppliedOnce'
    BY <2>1, <2>2
  <2>4. ASSUME NEW b \in Attempts, pc'[b] = "work"
        PROVE  DocumentsOf(request[b].key)' = {}
    <3>1. b # a /\ pc[b] = "work"
      BY <2>1, <2>4 DEF Finalizing
    <3>2. request[b].key # request[a].key
      BY <2>1, <3>1 DEF HoldsKeyLock, InTransaction
    <3>3. QED
      BY <2>1, <3>1, <3>2
  <2>5. QED
    BY <2>3, <2>4
<1>6. ASSUME NEW a \in Attempts,
             \/ MarkCompleted(a) \/ MarkCompletedError(a)
             \/ MarkFailed(a) \/ MarkFailedError(a)
      PROVE  NothingPostedYet' /\ AppliedOnce'
  BY <1>6 DEF MarkCompleted, MarkCompletedError, MarkFailed, MarkFailedError, Answer
<1>7. QED
  BY <1>1, <1>2, <1>3, <1>4, <1>5, <1>6 DEF Next, Step

\* A row in use changes hands only when it has failed, and its owner is then
\* no longer in the handler.
LEMMA OwnsItsRecordStep ==
  TypeOK /\ OwnsItsRecord /\ [Next]_vars => OwnsItsRecord'
<1> SUFFICES ASSUME TypeOK, OwnsItsRecord, [Next]_vars
             PROVE  OwnsItsRecord'
  OBVIOUS
<1> USE NoneAssumption DEF TypeOK, OwnsItsRecord, InHandler, Finalizing, Goto
<1>1. CASE UNCHANGED vars
  BY <1>1 DEF vars, Scope
<1>2. ASSUME NEW a \in Attempts, Submit(a)
      PROVE  OwnsItsRecord'
  BY <1>2 DEF Submit, Scope
<1>4. ASSUME NEW a \in Attempts,
             \/ Reserve(a) \/ ReserveError(a) \/ ReclaimFailed(a) \/ ReclaimError(a)
      PROVE  OwnsItsRecord'
  BY <1>4, ScopeType
     DEF Reserve, ReserveError, ReclaimFailed, ReclaimError, Answer, Processing,
         Reclaimable, RetryableFailure, Scope
<1>5. ASSUME NEW a \in Attempts, ReadExisting(a) \/ Decide(a)
      PROVE  OwnsItsRecord'
  BY <1>5 DEF ReadExisting, Decide, Answer, Scope
<1>6. ASSUME NEW a \in Attempts,
             \/ LockKey(a) \/ ReplayOrMismatch(a) \/ Commit(a) \/ Rollback(a)
             \/ HandlerError(a) \/ Crash(a)
      PROVE  OwnsItsRecord'
  BY <1>6 DEF LockKey, ReplayOrMismatch, Commit, Rollback, HandlerError, Crash, Scope
<1>7. ASSUME NEW a \in Attempts, NEW status, MarkFinal(a, status)
      PROVE  /\ \A t \in Scopes \ {Scope(a)} : records'[t] = records[t]
             /\ Scope(a) \in Scopes => records'[Scope(a)] =
                  [records[Scope(a)] EXCEPT !.status = status, !.response = outcome[a]]
  BY <1>7 DEF MarkFinal
<1>8. ASSUME NEW a \in Attempts, NEW b \in Attempts, a # b,
             pc[a] \in Finalizing, pc[b] \in InHandler \union Finalizing
      PROVE  Scope(a) # Scope(b)
  BY <1>8
<1>9. ASSUME NEW a \in Attempts,
             pc[a] \in Finalizing, request' = request,
             \/ UNCHANGED records
             \/ MarkFinal(a, "completed")
             \/ MarkFinal(a, "failed") /\ pc'[a] = "done",
             pc'[a] \in {"done", "fail"},
             \A b \in Attempts \ {a} : pc'[b] = pc[b]
      PROVE  OwnsItsRecord'
  <2> SUFFICES ASSUME NEW b \in Attempts, pc'[b] \in InHandler \union Finalizing
               PROVE  /\ records'[Scope(b)].owner = b
                      /\ records'[Scope(b)].payload = request[b].payload
                      /\ records'[Scope(b)].status \in {"processing", "completed"}
    BY <1>9 DEF Scope
  <2>1. CASE b # a
    <3>1. pc[b] \in InHandler \union Finalizing /\ Scope(a) # Scope(b) /\ Scope(b) \in Scopes
      BY <1>9, <1>8, <2>1, ScopeType
    <3>2. records'[Scope(b)] = records[Scope(b)]
      BY <1>9, <1>7, <3>1
    <3>3. QED
      BY <3>1, <3>2
  <2>2. CASE b = a
    <3>1. pc'[a] = "fail" /\ (records' = records \/ MarkFinal(a, "completed"))
      BY <1>9, <2>2
    <3>2. Scope(a) \in Scopes /\ records[Scope(a)] \in Records
      BY <1>9, ScopeType
    <3>3. CASE records' = records
      BY <1>9, <3>3, <2>2
    <3>4. CASE MarkFinal(a, "completed")
      <4>1. records'[Scope(a)] =
              [records[Scope(a)] EXCEPT !.status = "completed", !.response = outcome[a]]
        BY <1>7, <3>2, <3>4
      <4>2. /\ records'[Scope(a)].owner = records[Scope(a)].owner
            /\ records'[Scope(a)].payload = records[Scope(a)].payload
            /\ records'[Scope(a)].status = "completed"
        BY <3>2, <4>1 DEF Records
      <4>3. QED
        BY <1>9, <4>2, <2>2
    <3>5. QED
      BY <3>1, <3>3, <3>4
  <2>3. QED
    BY <2>1, <2>2
<1>10. ASSUME NEW a \in Attempts,
              \/ MarkCompleted(a) \/ MarkCompletedError(a)
              \/ MarkFailed(a) \/ MarkFailedError(a)
       PROVE  OwnsItsRecord'
  BY <1>10, <1>9
     DEF MarkCompleted, MarkCompletedError, MarkFailed, MarkFailedError, Answer
<1>11. QED
  BY <1>1, <1>2, <1>4, <1>5, <1>6, <1>10 DEF Next, Step

\* A success is built from a document, stored under its own payload, and read
\* back with it; documents are never removed.
LEMMA SuccessIsPostedStep ==
  TypeOK /\ OwnsItsRecord /\ SuccessIsPosted /\ [Next]_vars => SuccessIsPosted'
<1> SUFFICES ASSUME TypeOK, OwnsItsRecord, SuccessIsPosted, [Next]_vars
             PROVE  SuccessIsPosted'
  OBVIOUS
<1> USE NoneAssumption DEF TypeOK, SuccessIsPosted, Posted, Goto
<1>1. CASE UNCHANGED vars
  BY <1>1 DEF vars
<1>2. ASSUME NEW a \in Attempts, Submit(a)
      PROVE  SuccessIsPosted'
  BY <1>2 DEF Submit
<1>3. ASSUME NEW a \in Attempts, Reserve(a) \/ ReserveError(a)
      PROVE  SuccessIsPosted'
  <2>1. Processing(a).response # "success"
    BY DEF Processing, Responses, StoredResponses
  <2>2. \A s \in Scopes : records'[s] \in {records[s], Processing(a)}
    BY <1>3, ScopeType DEF Reserve, ReserveError
  <2>3. outcome'[a] = "success" => outcome[a] = "success"
    BY <1>3 DEF Reserve, ReserveError, Answer, Build
  <2>4. QED
    BY <1>3, <2>1, <2>2, <2>3 DEF Reserve, ReserveError, Answer, Build
<1>4. ASSUME NEW a \in Attempts, ReadExisting(a)
      PROVE  SuccessIsPosted'
  BY <1>4, ScopeType DEF ReadExisting
<1>5. ASSUME NEW a \in Attempts, Decide(a)
      PROVE  SuccessIsPosted'
  BY <1>5 DEF Decide, Answer, Build, ExistingResponse
<1>6. ASSUME NEW a \in Attempts, ReclaimFailed(a) \/ ReclaimError(a)
      PROVE  SuccessIsPosted'
  <2>1. Processing(a).response # "success"
    BY DEF Processing, Responses, StoredResponses
  <2>2. \A s \in Scopes : records'[s] \in {records[s], Processing(a)}
    BY <1>6, ScopeType DEF ReclaimFailed, ReclaimError
  <2>3. outcome'[a] = "success" => outcome[a] = "success"
    BY <1>6 DEF ReclaimFailed, ReclaimError, Answer, Build
  <2>4. QED
    BY <1>6, <2>1, <2>2, <2>3 DEF ReclaimFailed, ReclaimError, Answer, Build
<1>7. ASSUME NEW a \in Attempts, LockKey(a) \/ Rollback(a) \/ HandlerError(a) \/ Crash(a)
      PROVE  SuccessIsPosted'
  BY <1>7 DEF LockKey, Rollback, HandlerError, Crash, Build
<1>8. ASSUME NEW a \in Attempts, ReplayOrMismatch(a)
      PROVE  SuccessIsPosted'
  BY <1>8 DEF ReplayOrMismatch, Build, DocumentsOf
<1>9. ASSUME NEW a \in Attempts, Commit(a)
      PROVE  SuccessIsPosted'
  <2>1. Document(a).key = request[a].key /\ Document(a).payload = request[a].payload
    BY DEF Document
  <2>2. documents' = documents \union {Document(a)} /\ pc[a] = "work"
    BY <1>9 DEF Commit
  <2>3. QED
    BY <1>9, <2>1, <2>2 DEF Commit, Build
<1>10. ASSUME NEW a \in Attempts, NEW status, pc[a] \in Finalizing, MarkFinal(a, status)
       PROVE  \A s \in Scopes :
                records'[s].response = "success" => Posted(s[2], records'[s].payload)
  <2>1. /\ Scope(a) \in Scopes /\ Scope(a)[2] = request[a].key
        /\ records[Scope(a)] \in Records
    BY <1>10, ScopeType DEF Finalizing
  <2>2. /\ \A s \in Scopes \ {Scope(a)} : records'[s] = records[s]
        /\ records'[Scope(a)] =
             [records[Scope(a)] EXCEPT !.status = status, !.response = outcome[a]]
    BY <1>10, <2>1 DEF MarkFinal
  <2>3. /\ records'[Scope(a)].payload = request[a].payload
        /\ records'[Scope(a)].response = outcome[a]
    BY <1>10, <2>1, <2>2 DEF Records, OwnsItsRecord
  <2>4. ASSUME NEW s \in Scopes, records'[s].response = "success"
        PROVE  Posted(s[2], records'[s].payload)
    <3>1. CASE s = Scope(a)
      <4>1. outcome[a] = "success"
        BY <2>3, <2>4, <3>1
      <4>2. Posted(request[a].key, request[a].payload)
        BY <4>1
      <4>3. QED
        BY <2>1, <2>3, <3>1, <4>2
    <3>2. CASE s # Scope(a)
      BY <2>2, <2>4, <3>2
    <3>3. QED
      BY <3>1, <3>2
  <2>5. QED
    BY <2>4
<1>11. ASSUME NEW a \in Attempts, MarkCompleted(a) \/ MarkFailed(a)
       PROVE  SuccessIsPosted'
  <2>1. PICK status : pc[a] \in Finalizing /\ MarkFinal(a, status)
    BY <1>11 DEF MarkCompleted, MarkFailed, Finalizing
  <2>2. \A s \in Scopes : records'[s].response = "success" => Posted(s[2], records'[s].payload)
    BY <2>1, <1>10
  <2>3. UNCHANGED <<request, outcome, documents, seen>>
    BY <1>11 DEF MarkCompleted, MarkFailed
  <2>4. pc'[a] = "done" /\ \A b \in Attempts \ {a} : pc'[b] = pc[b]
    BY <1>11 DEF MarkCompleted, MarkFailed
  <2>5. QED
    BY <2>2, <2>3, <2>4
<1>12. ASSUME NEW a \in Attempts, MarkCompletedError(a)
       PROVE  SuccessIsPosted'
  BY <1>12, <1>10 DEF MarkCompletedError, Build, Finalizing
<1>13. ASSUME NEW a \in Attempts, MarkFailedError(a)
       PROVE  SuccessIsPosted'
  BY <1>13 DEF MarkFailedError, Answer, Build
<1>14. QED
  BY <1>1, <1>2, <1>3, <1>4, <1>5, <1>6, <1>7, <1>8, <1>9, <1>11, <1>12, <1>13
     DEF Next, Step

-----------------------------------------------------------------------------
(* The theorems.                                                           *)

\* With no request sent, no row is used and no lock is held.
LEMMA InvariantInit == Init => IInv
<1> SUFFICES ASSUME Init
             PROVE  IInv
  OBVIOUS
<1>1. SuccessIsPosted
  BY NoneAssumption DEF Init, SuccessIsPosted, Absent, Responses, StoredResponses
<1>2. HoldsKeyLock /\ NothingPostedYet /\ AppliedOnce /\ OwnsItsRecord
  BY DEF Init, HoldsKeyLock, NothingPostedYet, AppliedOnce, OwnsItsRecord,
         InTransaction, InHandler, Finalizing
<1>3. QED
  BY <1>1, <1>2, TypeInit DEF IInv

\* Every step of a request keeps the five parts of the invariant together.
LEMMA InvariantStep == IInv /\ [Next]_vars => IInv'
  BY TypeStep, HoldsKeyLockStep, PostingStep, OwnsItsRecordStep, SuccessIsPostedStep DEF IInv

\* The inductive invariant holds in every reachable state.
THEOREM Invariant == Spec => []IInv
  BY InvariantInit, InvariantStep, PTL DEF Spec

\* One domain key posts at most one document, for any number of requests,
\* retries, crashes and lost acknowledgements.
THEOREM AtMostOnce == Spec => []AppliedOnce
<1>1. IInv => AppliedOnce
  BY DEF IInv
<1>2. QED
  BY <1>1, Invariant, PTL

\* One idempotency record is worked on by one request at a time.
THEOREM OneAtATime == Spec => []SingleFlight
<1>1. IInv => SingleFlight
  BY DEF IInv, OwnsItsRecord, SingleFlight
<1>2. QED
  BY <1>1, Invariant, PTL

\* A success is never answered for a document that does not exist.
THEOREM NoFalseSuccess == Spec => []SuccessIsTruthful
<1>1. IInv => SuccessIsTruthful
  BY DEF IInv, SuccessIsPosted, SuccessIsTruthful, Posted
<1>2. QED
  BY <1>1, Invariant, PTL

-----------------------------------------------------------------------------
(* What else the rows say: needed for refusals and for the contract.       *)

\* Nobody has asked for anything on behalf of an attempt that was not sent.
IdleAsksNothing == \A a \in Attempts : pc[a] = "idle" => request[a] = None

\* A row is settled only by its owner, in the last step of the handler.
InHandlerIsProcessing ==
  \A a \in Attempts :
    pc[a] \in InHandler \union {"complete"} => records[Scope(a)].status = "processing"

\* A row that was never taken names no payload; a settled one has an answer.
WholeRow(r) == /\ r.status = "absent" => r.payload = None
               /\ r.status \in {"completed", "failed"} => r.response \in StoredResponses

RowsAreWhole == /\ \A s \in Scopes : WholeRow(records[s])
                /\ \A a \in Attempts : WholeRow(seen[a])

\* The documents posted on behalf of the requests of one record.
PostedFor(s) == \E d \in documents : Scope(d.by) = s

\* A document is what its request asked for, and the record it was posted
\* under still carries that request's payload.
DocumentsAreRequested ==
  \A d \in documents :
    /\ pc[d.by] # "idle"
    /\ d.key = request[d.by].key
    /\ d.payload = records[Scope(d.by)].payload

\* Who is about to store a refusal has posted nothing under its record.
RefusalsAreSafe ==
  \A a \in Attempts :
    pc[a] \in Finalizing /\ outcome[a] = "rejected" => ~PostedFor(Scope(a))

RInv == /\ IdleAsksNothing
        /\ InHandlerIsProcessing
        /\ RowsAreWhole
        /\ DocumentsAreRequested
        /\ RefusalsAreSafe
        /\ RefusalHasNoEffect

\* A request keeps its record once it is sent, and so does each document.
LEMMA ScopesStay ==
  ASSUME TypeOK, [Next]_vars
  PROVE  /\ \A a \in Attempts : pc[a] # "idle" =>
              pc'[a] # "idle" /\ request'[a] = request[a] /\ Scope(a)' = Scope(a)
         /\ documents \subseteq documents'
<1> USE DEF TypeOK, Goto
<1>1. CASE UNCHANGED vars
  BY <1>1 DEF vars, Scope
<1>2. ASSUME NEW a \in Attempts, Submit(a)
      PROVE  /\ \A b \in Attempts : pc[b] # "idle" =>
                  pc'[b] # "idle" /\ request'[b] = request[b] /\ Scope(b)' = Scope(b)
             /\ documents' = documents
  BY <1>2 DEF Submit, Scope
<1>3. ASSUME NEW a \in Attempts, Step(a) \/ HandlerError(a) \/ Crash(a)
      PROVE  request' = request /\ documents \subseteq documents' /\ pc'[a] # "idle"
             /\ \A b \in Attempts \ {a} : pc'[b] = pc[b]
  BY <1>3 DEF Step, HandlerError, Crash, Reserve, ReadExisting, ReserveError, Decide,
       ReclaimFailed, ReclaimError, LockKey, ReplayOrMismatch, Commit, Rollback,
       MarkCompleted, MarkCompletedError, MarkFailed, MarkFailedError, Answer
<1>4. QED
  BY <1>1, <1>2, <1>3 DEF Next, Scope

\* An attempt that has not been sent has no request, whoever else moves.
LEMMA IdleStep == TypeOK /\ IdleAsksNothing /\ [Next]_vars => IdleAsksNothing'
<1> SUFFICES ASSUME TypeOK, IdleAsksNothing, [Next]_vars
             PROVE  IdleAsksNothing'
  OBVIOUS
<1> USE DEF TypeOK, IdleAsksNothing, Goto
<1>1. CASE UNCHANGED vars
  BY <1>1 DEF vars
<1>2. ASSUME NEW a \in Attempts, Submit(a)
      PROVE  IdleAsksNothing'
  BY <1>2 DEF Submit
<1>3. ASSUME NEW a \in Attempts, Step(a) \/ HandlerError(a) \/ Crash(a)
      PROVE  request' = request /\ pc'[a] # "idle"
             /\ \A b \in Attempts \ {a} : pc'[b] = pc[b]
  BY <1>3 DEF Step, HandlerError, Crash, Reserve, ReadExisting, ReserveError, Decide,
       ReclaimFailed, ReclaimError, LockKey, ReplayOrMismatch, Commit, Rollback,
       MarkCompleted, MarkCompletedError, MarkFailed, MarkFailedError, Answer
<1>4. QED
  BY <1>1, <1>2, <1>3 DEF Next

\* What a step does to the rows: it takes an absent or retryable one for its
\* request, or settles the one its request is working on.
LEMMA RowsStep ==
  ASSUME TypeOK, [Next]_vars, NEW s \in Scopes
  PROVE  \/ records'[s] = records[s]
         \/ \E a \in Attempts :
              /\ s = Scope(a)
              /\ \/ /\ pc[a] \in {"reserve", "reclaim"}
                    /\ \/ records[s].status = "absent"
                       \/ RetryableFailure(records[s]) /\ records[s].payload = request[a].payload
                    /\ records'[s] = Processing(a)
                    /\ pc'[a] \in {"lock", "done"}
                 \/ /\ pc[a] \in Finalizing
                    /\ records[s].status = "processing"
                    /\ records[s].owner = a
                    /\ outcome[a] \in StoredResponses
                    /\ \E status \in {"completed", "failed"} :
                         records'[s] = [records[s] EXCEPT !.status = status, !.response = outcome[a]]
                    /\ pc'[a] \notin InHandler \union {"complete"}
<1> USE DEF TypeOK, Goto
<1>1. CASE UNCHANGED vars
  BY <1>1 DEF vars
<1>2. ASSUME NEW a \in Attempts, Reserve(a) \/ ReserveError(a)
      PROVE  \/ records'[s] = records[s]
             \/ /\ s = Scope(a) /\ pc[a] = "reserve" /\ pc'[a] \in {"lock", "done"}
                /\ records[s].status = "absent" /\ records'[s] = Processing(a)
  BY <1>2 DEF Reserve, ReserveError, Answer
<1>3. ASSUME NEW a \in Attempts, ReclaimFailed(a) \/ ReclaimError(a)
      PROVE  \/ records'[s] = records[s]
             \/ /\ s = Scope(a) /\ pc[a] = "reclaim" /\ pc'[a] \in {"lock", "done"}
                /\ RetryableFailure(records[s]) /\ records[s].payload = request[a].payload
                /\ records'[s] = Processing(a)
  BY <1>3 DEF ReclaimFailed, ReclaimError, Answer, Reclaimable
<1>4. ASSUME NEW a \in Attempts, NEW status \in {"completed", "failed"}, MarkFinal(a, status)
      PROVE  \/ records'[s] = records[s]
             \/ /\ s = Scope(a) /\ records[s].status = "processing" /\ records[s].owner = a
                /\ records'[s] = [records[s] EXCEPT !.status = status, !.response = outcome[a]]
  <2>1. records \in [Scopes -> Records]
    OBVIOUS
  <2>2. CASE s = Scope(a)
    <3>1. records[s].status = "processing" /\ records[s].owner = a
      BY <1>4, <2>2 DEF MarkFinal, Owns
    <3>2. records' = [records EXCEPT ![s].status = status, ![s].response = outcome[a]]
      BY <1>4, <2>2 DEF MarkFinal
    <3>3. records'[s] = [records[s] EXCEPT !.status = status, !.response = outcome[a]]
      BY <2>1, <3>2
    <3>4. QED
      BY <2>2, <3>1, <3>3
  <2>3. CASE s # Scope(a)
    BY <1>4, <2>1, <2>3 DEF MarkFinal
  <2>4. QED
    BY <2>2, <2>3
<1>5. ASSUME NEW a \in Attempts,
             MarkCompleted(a) \/ MarkCompletedError(a) \/ MarkFailed(a) \/ MarkFailedError(a)
      PROVE  /\ pc[a] \in Finalizing /\ pc'[a] \in {"done", "fail"}
             /\ \/ records' = records
                \/ \E status \in {"completed", "failed"} : MarkFinal(a, status)
  <2>1. CASE MarkCompleted(a)
    BY <2>1 DEF MarkCompleted, Finalizing
  <2>2. CASE MarkCompletedError(a)
    BY <2>2 DEF MarkCompletedError, Finalizing
  <2>3. CASE MarkFailed(a)
    BY <2>3 DEF MarkFailed, Finalizing
  <2>4. CASE MarkFailedError(a)
    BY <2>4 DEF MarkFailedError, Answer, Finalizing
  <2>5. QED
    BY <1>5, <2>1, <2>2, <2>3, <2>4
<1>6. ASSUME NEW a \in Attempts,
             MarkCompleted(a) \/ MarkCompletedError(a) \/ MarkFailed(a) \/ MarkFailedError(a),
             records'[s] # records[s]
      PROVE  /\ s = Scope(a) /\ records[s].status = "processing" /\ records[s].owner = a
             /\ pc[a] \in Finalizing /\ outcome[a] \in StoredResponses
             /\ pc'[a] \notin InHandler \union {"complete"}
             /\ \E status \in {"completed", "failed"} :
                  records'[s] = [records[s] EXCEPT !.status = status, !.response = outcome[a]]
  <2>1. /\ pc[a] \in Finalizing /\ pc'[a] \in {"done", "fail"}
        /\ \E status \in {"completed", "failed"} : MarkFinal(a, status)
    BY <1>5, <1>6
  <2>2. PICK status \in {"completed", "failed"} : MarkFinal(a, status)
    BY <2>1
  <2>3. /\ s = Scope(a) /\ records[s].status = "processing" /\ records[s].owner = a
        /\ records'[s] = [records[s] EXCEPT !.status = status, !.response = outcome[a]]
    BY <1>4, <1>6, <2>2
  <2>4. outcome[a] \in StoredResponses
    BY <1>6, <2>1 DEF Finalizing
  <2>5. pc'[a] \notin InHandler \union {"complete"}
    BY <2>1 DEF InHandler
  <2>6. QED
    BY <2>1, <2>3, <2>4, <2>5
<1>7. ASSUME NEW a \in Attempts,
             \/ Submit(a) \/ ReadExisting(a) \/ Decide(a) \/ LockKey(a) \/ ReplayOrMismatch(a)
             \/ Commit(a) \/ Rollback(a) \/ HandlerError(a) \/ Crash(a)
      PROVE  records' = records
  BY <1>7 DEF Submit, ReadExisting, Decide, LockKey, ReplayOrMismatch, Commit, Rollback,
              HandlerError, Crash
<1> HIDE DEF TypeOK, Goto
<1>8. QED
  BY <1>1, <1>2, <1>3, <1>6, <1>7 DEF Next, Step

\* A settled row that may not be retried is never taken again, so it keeps
\* its answer.
LEMMA SettledStep ==
  ASSUME TypeOK, [Next]_vars, NEW s \in Scopes,
         \/ records[s].status = "completed"
         \/ records[s].status = "failed" /\ ~RetryableFailure(records[s])
  PROVE  records'[s] = records[s]
  BY RowsStep DEF RetryableFailure

\* Rows stay whole: taken with a payload, settled with an answer.
LEMMA RowsAreWholeStep == TypeOK /\ RowsAreWhole /\ [Next]_vars => RowsAreWhole'
<1> SUFFICES ASSUME TypeOK, RowsAreWhole, [Next]_vars
             PROVE  RowsAreWhole'
  OBVIOUS
<1>1. ASSUME NEW s \in Scopes
      PROVE  WholeRow(records'[s])
  <2>1. CASE records'[s] = records[s]
    BY <2>1 DEF RowsAreWhole
  <2>2. ASSUME NEW a \in Attempts, records'[s] = Processing(a)
        PROVE  WholeRow(records'[s])
    BY <2>2 DEF Processing, WholeRow
  <2>3. ASSUME NEW status \in {"completed", "failed"}, NEW answer \in StoredResponses,
               records'[s] = [records[s] EXCEPT !.status = status, !.response = answer]
        PROVE  WholeRow(records'[s])
    <3>1. records[s] \in Records
      BY DEF TypeOK
    <3>2. records'[s].status = status /\ records'[s].response = answer
      BY <2>3, <3>1 DEF Records
    <3>3. QED
      BY <3>2 DEF WholeRow
  <2>4. QED
    BY <2>1, <2>2, <2>3, RowsStep
<1>2. ASSUME NEW a \in Attempts
      PROVE  WholeRow(seen'[a])
  <2>1. ASSUME NEW b \in Attempts, ReadExisting(b)
        PROVE  WholeRow(seen'[a])
    <3>1. Scope(b) \in Scopes
      BY <2>1, ScopeType DEF ReadExisting
    <3>2. seen'[a] = seen[a] \/ seen'[a] = records[Scope(b)]
      BY <2>1 DEF ReadExisting, TypeOK
    <3>3. QED
      BY <3>1, <3>2 DEF RowsAreWhole
  <2>2. CASE ~ \E b \in Attempts : ReadExisting(b)
    <3>1. seen' = seen
      BY <2>2 DEF Next, vars, Step, Submit, Reserve, ReserveError, Decide, ReclaimFailed,
           ReclaimError, LockKey, ReplayOrMismatch, Commit, Rollback, MarkCompleted,
           MarkCompletedError, MarkFailed, MarkFailedError, HandlerError, Crash
    <3>2. QED
      BY <3>1 DEF RowsAreWhole
  <2>3. QED
    BY <2>1, <2>2
<1>3. QED
  BY <1>1, <1>2 DEF RowsAreWhole

\* Only the attempt that owns the row settles it, and it leaves the handler.
LEMMA InHandlerStep ==
  ASSUME TypeOK, OwnsItsRecord, InHandlerIsProcessing, [Next]_vars
  PROVE  InHandlerIsProcessing'
<1> SUFFICES ASSUME NEW b \in Attempts, pc'[b] \in InHandler \union {"complete"}
             PROVE  records'[Scope(b)'].status = "processing"
  BY DEF InHandlerIsProcessing
<1>1. /\ pc[b] # "idle"
      /\ \/ pc[b] \in InHandler \union {"complete"}
         \/ records'[Scope(b)].status = "processing"
  <2> USE DEF TypeOK, Goto, InHandler
  <2>1. CASE UNCHANGED vars
    BY <2>1 DEF vars
  <2>2. ASSUME NEW a \in Attempts, Reserve(a) \/ ReclaimFailed(a)
        PROVE  <1>1
    BY <2>2, ScopeType DEF Reserve, ReclaimFailed, Answer, Processing
  <2>3. ASSUME NEW a \in Attempts,
               \/ LockKey(a) \/ ReplayOrMismatch(a) \/ Commit(a) \/ Rollback(a)
               \/ HandlerError(a) \/ Crash(a)
        PROVE  <1>1
    BY <2>3 DEF LockKey, ReplayOrMismatch, Commit, Rollback, HandlerError, Crash
  <2>4. ASSUME NEW a \in Attempts,
               \/ Submit(a) \/ ReadExisting(a) \/ ReserveError(a) \/ Decide(a) \/ ReclaimError(a)
               \/ MarkCompleted(a) \/ MarkCompletedError(a)
               \/ MarkFailed(a) \/ MarkFailedError(a)
        PROVE  <1>1
    BY <2>4 DEF Submit, ReadExisting, ReserveError, Decide, ReclaimError, MarkCompleted,
         MarkCompletedError, MarkFailed, MarkFailedError, Answer
  <2>5. QED
    BY <2>1, <2>2, <2>3, <2>4 DEF Next, Step
<1>2. Scope(b)' = Scope(b) /\ Scope(b) \in Scopes
  BY <1>1, ScopesStay, ScopeType
<1>3. CASE pc[b] \in InHandler \union {"complete"}
  <2>1. records[Scope(b)].status = "processing" /\ records[Scope(b)].owner = b
    BY <1>3 DEF InHandlerIsProcessing, OwnsItsRecord, Finalizing
  <2>2. CASE records'[Scope(b)] = records[Scope(b)]
    BY <2>1, <2>2, <1>2
  <2>3. CASE records'[Scope(b)] # records[Scope(b)]
    BY <1>2, <2>1, <2>3, RowsStep DEF RetryableFailure
  <2>4. QED
    BY <2>2, <2>3
<1>4. QED
  BY <1>1, <1>2, <1>3

\* The payload of a row that was taken never changes.
LEMMA PayloadStays ==
  ASSUME TypeOK, OwnsItsRecord, [Next]_vars, NEW s \in Scopes, records[s].status # "absent"
  PROVE  records'[s].status # "absent" /\ records'[s].payload = records[s].payload
<1>1. CASE records'[s] = records[s]
  BY <1>1
<1>2. ASSUME NEW a \in Attempts, records[s].payload = request[a].payload,
             records'[s] = Processing(a)
      PROVE  records'[s].status # "absent" /\ records'[s].payload = records[s].payload
  BY <1>2 DEF Processing
<1>3. ASSUME NEW status \in {"completed", "failed"}, NEW answer,
             records'[s] = [records[s] EXCEPT !.status = status, !.response = answer]
      PROVE  records'[s].status # "absent" /\ records'[s].payload = records[s].payload
  <2>1. records[s] \in Records
    BY DEF TypeOK
  <2>2. QED
    BY <1>3, <2>1 DEF Records
<1>4. CASE records'[s] # records[s]
  <2>1. PICK a \in Attempts :
          \/ /\ records[s].payload = request[a].payload
             /\ records'[s] = Processing(a)
          \/ \E status \in {"completed", "failed"} :
               records'[s] = [records[s] EXCEPT !.status = status, !.response = outcome[a]]
    BY <1>4, RowsStep
  <2>2. CASE records[s].payload = request[a].payload /\ records'[s] = Processing(a)
    BY <2>2, <1>2
  <2>3. CASE \E status \in {"completed", "failed"} :
               records'[s] = [records[s] EXCEPT !.status = status, !.response = outcome[a]]
    BY <2>3, <1>3
  <2>4. QED
    BY <2>1, <2>2, <2>3
<1>5. QED
  BY <1>1, <1>4

\* Posting takes the key and the payload of the request that owns the row.
LEMMA DocumentsStep ==
  ASSUME TypeOK, OwnsItsRecord, RowsAreWhole, DocumentsAreRequested, [Next]_vars
  PROVE  DocumentsAreRequested'
<1> SUFFICES ASSUME NEW d \in documents'
             PROVE  /\ pc'[d.by] # "idle"
                    /\ d.key = request'[d.by].key
                    /\ d.payload = records'[Scope(d.by)'].payload
  BY DEF DocumentsAreRequested
<1>1. CASE d \in documents
  <2>1. /\ pc[d.by] # "idle" /\ d.by \in Attempts
        /\ d.key = request[d.by].key
        /\ d.payload = records[Scope(d.by)].payload
        /\ d.payload \in Payloads
    BY <1>1 DEF DocumentsAreRequested, TypeOK
  <2>2. Scope(d.by) \in Scopes
    BY <2>1, ScopeType
  <2>3. records[Scope(d.by)].status # "absent"
    BY <2>1, <2>2, NoneAssumption DEF RowsAreWhole, WholeRow
  <2>4. QED
    BY <2>1, <2>2, <2>3, ScopesStay, PayloadStays
<1>2. CASE d \notin documents
  <2>1. PICK a \in Attempts : Commit(a)
    BY <1>2 DEF Next, vars, Step, Submit, Reserve, ReadExisting, ReserveError, Decide,
         ReclaimFailed, ReclaimError, LockKey, ReplayOrMismatch, Rollback, MarkCompleted,
         MarkCompletedError, MarkFailed, MarkFailedError, HandlerError, Crash
  <2>2. /\ d = Document(a) /\ pc[a] = "work" /\ pc'[a] # "idle"
        /\ records' = records /\ request' = request /\ Scope(a)' = Scope(a)
    BY <1>2, <2>1 DEF Commit, Goto, TypeOK, Scope
  <2>3. records[Scope(a)].payload = request[a].payload
    BY <2>2 DEF OwnsItsRecord, InHandler
  <2>4. d.by = a /\ d.key = request[a].key /\ d.payload = request[a].payload
    BY <2>2 DEF Document
  <2>5. QED
    BY <2>2, <2>3, <2>4
<1>3. QED
  BY <1>1, <1>2

\* A step posts for a record only through the attempt that is working on it.
LEMMA PostedForStep ==
  ASSUME TypeOK, DocumentsAreRequested, [Next]_vars, NEW s, PostedFor(s)'
  PROVE  \/ PostedFor(s)
         \/ \E a \in Attempts : Commit(a) /\ s = Scope(a) /\ pc[a] = "work"
<1>1. PICK d \in documents' : Scope(d.by)' = s
  BY DEF PostedFor
<1>2. CASE d \in documents
  <2>1. d.by \in Attempts /\ pc[d.by] # "idle"
    BY <1>2 DEF TypeOK, DocumentsAreRequested
  <2>2. Scope(d.by) = s
    BY <1>1, <2>1, ScopesStay
  <2>3. QED
    BY <1>2, <2>2 DEF PostedFor
<1>3. CASE d \notin documents
  <2>1. PICK a \in Attempts : Commit(a)
    BY <1>3 DEF Next, vars, Step, Submit, Reserve, ReadExisting, ReserveError, Decide,
         ReclaimFailed, ReclaimError, LockKey, ReplayOrMismatch, Rollback, MarkCompleted,
         MarkCompletedError, MarkFailed, MarkFailedError, HandlerError, Crash
  <2>2. d = Document(a) /\ pc[a] = "work" /\ request' = request
    BY <1>3, <2>1 DEF Commit
  <2>3. d.by = a
    BY <2>2 DEF Document
  <2>4. QED
    BY <1>1, <2>1, <2>2, <2>3 DEF Scope
<1>4. QED
  BY <1>2, <1>3

\* A refusal is decided behind the lock of the key, when nothing is posted for
\* the record; the attempt that decided it is the only one that could post.
LEMMA RefusalsStep ==
  ASSUME TypeOK, NothingPostedYet, OwnsItsRecord, InHandlerIsProcessing,
         DocumentsAreRequested, RefusalsAreSafe, [Next]_vars
  PROVE  RefusalsAreSafe'
<1> SUFFICES ASSUME NEW a \in Attempts, pc'[a] \in Finalizing, outcome'[a] = "rejected",
                    NEW s, s = Scope(a)'
             PROVE  ~PostedFor(s)'
  BY DEF RefusalsAreSafe, PostedFor
<1>1. \/ pc[a] \in Finalizing /\ outcome[a] = "rejected"
      \/ ReplayOrMismatch(a) \/ Rollback(a)
  <2> USE DEF TypeOK, Goto, Build, Answer, Finalizing
  <2>1. CASE UNCHANGED vars
    BY <2>1 DEF vars
  <2>2. ASSUME NEW b \in Attempts,
               \/ Submit(b) \/ Reserve(b) \/ ReadExisting(b) \/ ReserveError(b) \/ Decide(b)
               \/ ReclaimFailed(b) \/ ReclaimError(b)
        PROVE  <1>1
    BY <2>2 DEF Submit, Reserve, ReadExisting, ReserveError, Decide, ReclaimFailed, ReclaimError
  <2>3. ASSUME NEW b \in Attempts, b # a \/ ~(ReplayOrMismatch(b) \/ Rollback(b)),
               \/ LockKey(b) \/ ReplayOrMismatch(b) \/ Commit(b) \/ Rollback(b)
               \/ HandlerError(b) \/ Crash(b)
        PROVE  <1>1
    BY <2>3 DEF LockKey, ReplayOrMismatch, Commit, Rollback, HandlerError, Crash
  <2>4. ASSUME NEW b \in Attempts,
               \/ MarkCompleted(b) \/ MarkCompletedError(b)
               \/ MarkFailed(b) \/ MarkFailedError(b)
        PROVE  <1>1
    BY <2>4 DEF MarkCompleted, MarkCompletedError, MarkFailed, MarkFailedError
  <2>5. QED
    BY <2>1, <2>2, <2>3, <2>4 DEF Next, Step
<1>2. pc[a] \in InHandler \union Finalizing /\ pc[a] # "idle"
  BY <1>1 DEF ReplayOrMismatch, Rollback, InHandler, Finalizing
<1>3. Scope(a)' = Scope(a) /\ Scope(a) \in Scopes
  BY <1>2, ScopesStay, ScopeType
<1>4. ASSUME NEW b \in Attempts, Commit(b), Scope(b) = Scope(a), pc[b] = "work"
      PROVE  FALSE
  <2>1. b = a
    BY <1>2, <1>4 DEF OwnsItsRecord, InHandler
  <2>2. pc'[a] \in Finalizing /\ outcome'[a] # "rejected"
    BY <1>4, <2>1 DEF Commit, Build, Goto, TypeOK, Finalizing
  <2>3. QED
    BY <2>2
<1>5. ~PostedFor(Scope(a))
  <2>1. CASE pc[a] \in Finalizing /\ outcome[a] = "rejected"
    BY <2>1 DEF RefusalsAreSafe
  <2>2. ASSUME NEW d \in documents, Scope(d.by) = Scope(a)
        PROVE  d \in DocumentsOf(request[a].key) /\ d.payload = records[Scope(a)].payload
    BY <2>2 DEF DocumentsAreRequested, DocumentsOf, Scope
  <2>3. CASE Rollback(a)
    <3>1. pc[a] = "work"
      BY <2>3 DEF Rollback
    <3>2. QED
      BY <2>2, <3>1 DEF NothingPostedYet, PostedFor
  <2>4. CASE ReplayOrMismatch(a)
    <3>1. pc[a] = "check" /\ records[Scope(a)].payload = request[a].payload
      BY <2>4 DEF ReplayOrMismatch, OwnsItsRecord, InHandler
    <3>2. /\ DocumentsOf(request[a].key) # {}
          /\ ~ \E d \in DocumentsOf(request[a].key) : d.payload = request[a].payload
      BY <2>4 DEF ReplayOrMismatch, Goto, Build, TypeOK, Finalizing
    <3>3. QED
      BY <2>2, <3>1, <3>2 DEF PostedFor
  <2>5. QED
    BY <1>1, <2>1, <2>3, <2>4
<1>6. QED
  BY <1>3, <1>4, <1>5, PostedForStep

\* A stored refusal stays one of a record that has posted nothing: only the
\* owner of a row that is being processed posts under it.
LEMMA RefusalHasNoEffectStep ==
  ASSUME TypeOK, InHandlerIsProcessing, DocumentsAreRequested, RefusalsAreSafe,
         RefusalHasNoEffect, [Next]_vars
  PROVE  RefusalHasNoEffect'
<1> SUFFICES ASSUME NEW s \in Scopes, records'[s].status \in {"completed", "failed"},
                    records'[s].response = "rejected"
             PROVE  ~PostedFor(s)'
  BY DEF RefusalHasNoEffect, PostedFor
<1>1. ~PostedFor(s)
  <2>1. CASE records'[s] = records[s]
    BY <2>1 DEF RefusalHasNoEffect, PostedFor
  <2>2. ASSUME NEW a \in Attempts, records'[s] = Processing(a)
        PROVE  FALSE
    BY <2>2 DEF Processing
  <2>3. ASSUME NEW a \in Attempts, s = Scope(a), pc[a] \in Finalizing,
               NEW status \in {"completed", "failed"},
               records'[s] = [records[s] EXCEPT !.status = status, !.response = outcome[a]]
        PROVE  ~PostedFor(s)
    <3>1. records[s] \in Records
      BY DEF TypeOK
    <3>2. outcome[a] = "rejected"
      BY <2>3, <3>1 DEF Records
    <3>3. QED
      BY <2>3, <3>2 DEF RefusalsAreSafe
  <2>4. CASE records'[s] # records[s]
    <3>1. PICK a \in Attempts :
            /\ s = Scope(a)
            /\ \/ records'[s] = Processing(a)
               \/ /\ pc[a] \in Finalizing
                  /\ \E status \in {"completed", "failed"} :
                       records'[s] = [records[s] EXCEPT !.status = status, !.response = outcome[a]]
      BY <2>4, RowsStep
    <3>2. QED
      BY <3>1, <2>2, <2>3
  <2>5. QED
    BY <2>1, <2>4
<1>2. ASSUME NEW a \in Attempts, Commit(a), s = Scope(a), pc[a] = "work"
      PROVE  FALSE
  <2>1. records' = records /\ records[s].status = "processing"
    BY <1>2 DEF Commit, InHandlerIsProcessing, InHandler
  <2>2. QED
    BY <2>1
<1>3. QED
  BY <1>1, <1>2, PostedForStep

\* Before any request is sent no row is taken and nothing is posted.
LEMMA RowsInit == Init => RInv
<1> SUFFICES ASSUME Init
             PROVE  RInv
  OBVIOUS
<1>1. RowsAreWhole
  BY DEF Init, RowsAreWhole, WholeRow, Absent
<1>2. QED
  BY <1>1 DEF Init, RInv, IdleAsksNothing, InHandlerIsProcessing, InHandler,
       DocumentsAreRequested, RefusalsAreSafe, Finalizing, RefusalHasNoEffect, Absent

\* Every step keeps what the rows say.
LEMMA RowsInvariantStep == IInv /\ RInv /\ [Next]_vars => RInv'
  BY IdleStep, InHandlerStep, RowsAreWholeStep, DocumentsStep, RefusalsStep,
     RefusalHasNoEffectStep DEF IInv, RInv

\* Both parts of the invariant hold in every reachable state.
THEOREM RowsInvariant == Spec => [](IInv /\ RInv)
<1>1. Init => IInv /\ RInv
  BY InvariantInit, RowsInit
<1>2. (IInv /\ RInv) /\ [Next]_vars => (IInv /\ RInv)'
  BY InvariantStep, RowsInvariantStep
<1>3. QED
  BY <1>1, <1>2, PTL DEF Spec

\* A record that answers every retry with a final refusal is one for which
\* nothing was posted, for any number of lost acknowledgements before it.
THEOREM RefusedInVain == Spec => []RefusalHasNoEffect
<1>1. IInv /\ RInv => RefusalHasNoEffect
  BY DEF RInv
<1>2. QED
  BY <1>1, RowsInvariant, PTL

\* A completed record, and a failed one that may not be retried, is final.
THEOREM SettledForGood == Spec => SettledRecordsStay
<1>1. TypeOK /\ [Next]_vars =>
        [\A s \in Scopes :
           \/ records[s].status = "completed"
           \/ records[s].status = "failed" /\ ~RetryableFailure(records[s])
           => records'[s] = records[s]]_vars
  BY SettledStep
<1>2. QED
  BY <1>1, TypeCorrect, PTL DEF Spec, SettledRecordsStay

-----------------------------------------------------------------------------
(* The refinement: requests and their rows implement OnceOnlyEffect, whose  *)
(* effect is the document of each key and whose reply is what an attempt    *)
(* that is done has built.                                                  *)

CommitStep == \E a \in Attempts : Commit(a)

\* Under a key the effect is the payload of the one document posted there.
LEMMA EffectOfDocument ==
  ASSUME TypeOK, AppliedOnce, NEW k \in Keys, NEW p, Posted(k, p)
  PROVE  Effect[k] = p
<1>1. PICK d \in documents : d.key = k /\ d.payload = p
  BY DEF Posted
<1>2. DocumentsOf(k) = {d}
  BY <1>1 DEF AppliedOnce, DocumentsOf
<1>3. QED
  BY <1>1, <1>2 DEF Effect

\* Only a COMMIT posts a document, so only it changes the effect.
LEMMA EffectStays ==
  ASSUME [Next]_vars, ~CommitStep
  PROVE  Effect' = Effect
<1>1. documents' = documents
  BY DEF CommitStep, Next, vars, Step, Submit, Reserve, ReadExisting, ReserveError, Decide,
       ReclaimFailed, ReclaimError, LockKey, ReplayOrMismatch, Rollback, MarkCompleted,
       MarkCompletedError, MarkFailed, MarkFailedError, HandlerError, Crash
<1>2. QED
  BY <1>1 DEF Effect, DocumentsOf

\* What a step does to the answers: an attempt that is done stays done with
\* the answer it has built.
LEMMA ReplyOf ==
  ASSUME NEW a \in Attempts
  PROVE  /\ Reply[a] = IF pc[a] = "done" THEN outcome[a] ELSE None
         /\ Reply'[a] = IF pc'[a] = "done" THEN outcome'[a] ELSE None
  BY DEF Reply

\* An attempt moves on before it has answered, and it answers for itself.
LEMMA OnlyOneReplies ==
  ASSUME TypeOK, NEW a \in Attempts, pc[a] # "done",
         \A b \in Attempts \ {a} : pc'[b] = pc[b] /\ outcome'[b] = outcome[b]
  PROVE  /\ Reply[a] = None
         /\ pc'[a] # "done" => Reply' = Reply
         /\ pc'[a] = "done" => Reply' = [Reply EXCEPT ![a] = outcome'[a]]
<1>1. Reply = [b \in Attempts |-> Reply[b]] /\ Reply' = [b \in Attempts |-> Reply'[b]]
  BY DEF Reply
<1>2. \A b \in Attempts \ {a} : Reply'[b] = Reply[b]
  BY ReplyOf
<1>3. Reply[a] = None /\ (pc'[a] # "done" => Reply'[a] = None)
      /\ (pc'[a] = "done" => Reply'[a] = outcome'[a])
  BY ReplyOf
<1>4. QED
  BY <1>1, <1>2, <1>3

\* Before any request is sent nothing has taken effect and nobody is answered.
LEMMA ContractInit == Init => Contract!Init
<1> SUFFICES ASSUME Init
             PROVE  Contract!Init
  OBVIOUS
<1>1. Effect = [k \in Keys |-> None]
  BY DEF Init, Effect, DocumentsOf
<1>2. Reply = [a \in Attempts |-> None]
  BY DEF Init, Reply
<1>3. QED
  BY <1>1, <1>2 DEF Init, Contract!Init

\* Sending a request asks for it.
LEMMA SubmitAsks ==
  ASSUME TypeOK, IdleAsksNothing, NEW a \in Attempts, Submit(a)
  PROVE  \E r \in Requests : Contract!Ask(a, r)
<1>1. pc[a] = "idle" /\ request[a] = None
  BY DEF Submit, IdleAsksNothing
<1>2. PICK r \in Requests : request' = [request EXCEPT ![a] = r]
  BY DEF Submit
<1>3. pc' = [pc EXCEPT ![a] = "reserve"] /\ outcome' = outcome /\ documents' = documents
  BY DEF Submit, Goto
<1>4. Effect' = Effect
  BY <1>3 DEF Effect, DocumentsOf
<1>5. Reply' = Reply
  BY <1>1, <1>3, OnlyOneReplies DEF TypeOK
<1>6. QED
  BY <1>1, <1>2, <1>4, <1>5 DEF Contract!Ask

\* The COMMIT of the domain transaction is where the request takes effect.
LEMMA CommitApplies ==
  ASSUME IInv, RInv, IInv', NEW a \in Attempts, Commit(a)
  PROVE  Contract!Apply(a)
<1> USE DEF IInv
<1>1. /\ pc[a] = "work" /\ request' = request /\ documents' = documents \union {Document(a)}
      /\ pc'[a] \in Finalizing
      /\ \A b \in Attempts \ {a} : pc'[b] = pc[b] /\ outcome'[b] = outcome[b]
  BY DEF Commit, Goto, Build, TypeOK, Finalizing
<1>2. request[a] \in Requests /\ request[a].key \in Keys
  BY <1>1, ScopeType
<1>3. request[a] # None
  BY <1>2, NoneAssumption
<1>4. Effect[request[a].key] = None
  BY <1>1, <1>2 DEF NothingPostedYet, Effect
<1>5. Effect' = [Effect EXCEPT ![request[a].key] = request[a].payload]
  <2>1. Document(a).key = request[a].key /\ Document(a).payload = request[a].payload
    BY DEF Document
  <2>2. Effect'[request[a].key] = request[a].payload
    <3>1. DocumentsOf(request[a].key)' = {Document(a)}
      BY <1>1, <2>1 DEF NothingPostedYet, DocumentsOf
    <3>2. QED
      BY <1>1, <1>2, <2>1, <3>1 DEF Effect
  <2>3. \A k \in Keys \ {request[a].key} : DocumentsOf(k)' = DocumentsOf(k)
    BY <1>1, <2>1 DEF DocumentsOf
  <2>4. ASSUME NEW k \in Keys \ {request[a].key}
        PROVE  Effect'[k] = Effect[k]
    <3>1. DocumentsOf(k)' = DocumentsOf(k)
      BY <2>3
    <3>2. /\ Effect[k] = IF DocumentsOf(k) = {} THEN None
                        ELSE (CHOOSE d \in DocumentsOf(k) : TRUE).payload
          /\ Effect'[k] = IF DocumentsOf(k)' = {} THEN None
                         ELSE (CHOOSE d \in DocumentsOf(k)' : TRUE).payload
      BY DEF Effect
    <3>3. QED
      BY <3>1, <3>2
  <2>5. Effect = [k \in Keys |-> Effect[k]] /\ Effect' = [k \in Keys |-> Effect'[k]]
    BY DEF Effect
  <2>6. QED
    BY <2>2, <2>4, <2>5
<1>6. Reply[a] = None /\ Reply' = Reply
  BY <1>1, OnlyOneReplies DEF Finalizing
<1>7. QED
  BY <1>1, <1>3, <1>4, <1>5, <1>6 DEF Contract!Apply

\* An answer is given once, and a success only for the payload in effect.
LEMMA AnswerGives ==
  ASSUME IInv, NEW a \in Attempts, pc[a] \notin {"idle", "done"}, pc'[a] = "done",
         outcome'[a] \in Responses,
         outcome'[a] = "success" => Posted(request[a].key, request[a].payload),
         UNCHANGED <<request, documents>>,
         \A b \in Attempts \ {a} : pc'[b] = pc[b] /\ outcome'[b] = outcome[b]
  PROVE  \E answer \in Contract!Replies : Contract!Give(a, answer)
<1>1. request[a] \in Requests /\ request[a].key \in Keys /\ request[a] # None
  BY ScopeType, NoneAssumption DEF IInv
<1>2. Reply[a] = None /\ Reply' = [Reply EXCEPT ![a] = outcome'[a]]
  BY OnlyOneReplies DEF IInv
<1>3. outcome'[a] = "success" => Effect[request[a].key] = request[a].payload
  BY <1>1, EffectOfDocument DEF IInv
<1>4. Effect' = Effect
  BY DEF Effect, DocumentsOf
<1>5. outcome'[a] \in Contract!Replies
  BY DEF Responses, StoredResponses, Contract!Replies
<1>6. Contract!Give(a, outcome'[a])
  BY <1>1, <1>2, <1>3, <1>4 DEF Contract!Give
<1>7. QED
  BY <1>5, <1>6

\* A row that was read has a payload, so it does not answer with nothing.
LEMMA ExistingAnswers ==
  ASSUME IInv, RInv, NEW a \in Attempts, pc[a] = "decide"
  PROVE  /\ ExistingResponse(a) \in Responses
         /\ ExistingResponse(a) = "success" => Posted(request[a].key, request[a].payload)
<1>1. /\ seen[a] \in Records /\ WholeRow(seen[a])
      /\ request[a] \in Requests /\ request[a].payload # None
  BY ScopeType, NoneAssumption DEF IInv, RInv, TypeOK, RowsAreWhole, Requests
<1>2. CASE seen[a].payload # request[a].payload \/ seen[a].status = "processing"
  BY <1>2 DEF ExistingResponse, Responses
<1>3. CASE seen[a].payload = request[a].payload /\ seen[a].status # "processing"
  <2>1. ExistingResponse(a) = seen[a].response /\ seen[a].status \in {"completed", "failed"}
    BY <1>1, <1>3 DEF ExistingResponse, Records, WholeRow
  <2>2. seen[a].response \in StoredResponses
    BY <1>1, <2>1 DEF WholeRow
  <2>3. seen[a].response = "success" => Posted(request[a].key, request[a].payload)
    BY <1>3 DEF IInv, SuccessIsPosted
  <2>4. QED
    BY <2>1, <2>2, <2>3 DEF Responses
<1>4. QED
  BY <1>2, <1>3

\* Every step that is not a COMMIT, of a request that was sent, either leaves
\* it without an answer or answers it.
LEMMA StepAnswers ==
  ASSUME IInv, RInv, NEW a \in Attempts,
         Step(a) \/ HandlerError(a) \/ Crash(a), ~CommitStep
  PROVE  /\ pc[a] \notin {"idle", "done"}
         /\ UNCHANGED <<request, documents>>
         /\ \A b \in Attempts \ {a} : pc'[b] = pc[b] /\ outcome'[b] = outcome[b]
         /\ pc'[a] = "done" =>
              /\ outcome'[a] \in Responses
              /\ outcome'[a] = "success" => Posted(request[a].key, request[a].payload)
<1> USE DEF Goto, Build, Answer
<1>0. /\ pc \in [Attempts -> Live \union {"idle", "done", "crashed"}]
      /\ outcome \in [Attempts -> Responses \union {None}]
      /\ pc[a] \in Finalizing => outcome[a] \in Responses
      /\ outcome[a] = "success" => Posted(request[a].key, request[a].payload)
  BY DEF IInv, TypeOK, SuccessIsPosted, Responses
<1>1. CASE \/ Reserve(a) \/ ReadExisting(a) \/ ReserveError(a)
           \/ ReclaimFailed(a) \/ ReclaimError(a)
  BY <1>0, <1>1
     DEF Reserve, ReadExisting, ReserveError, ReclaimFailed, ReclaimError, Responses
<1>2. CASE Decide(a)
  <2>1. pc[a] = "decide"
    BY <1>2 DEF Decide
  <2>2. pc'[a] = "done" => outcome'[a] = ExistingResponse(a)
    BY <1>0, <1>2 DEF Decide
  <2>3. QED
    BY <1>0, <1>2, <2>1, <2>2, ExistingAnswers DEF Decide
<1>3. CASE LockKey(a) \/ ReplayOrMismatch(a) \/ Rollback(a) \/ HandlerError(a) \/ Crash(a)
  BY <1>0, <1>3
     DEF LockKey, ReplayOrMismatch, Rollback, HandlerError, Crash, Live, InHandler, Finalizing
<1>4. CASE MarkCompleted(a) \/ MarkCompletedError(a) \/ MarkFailed(a) \/ MarkFailedError(a)
  BY <1>0, <1>4
     DEF MarkCompleted, MarkCompletedError, MarkFailed, MarkFailedError, Finalizing, Responses
<1>5. QED
  BY <1>1, <1>2, <1>3, <1>4 DEF Step, CommitStep

\* Every step of a request is a step of the contract, or invisible to it.
LEMMA ContractStep ==
  ASSUME IInv, RInv, IInv', [Next]_vars
  PROVE  [Contract!Next]_<<request, Effect, Reply>>
<1>1. CASE UNCHANGED vars
  <2>1. Effect' = Effect /\ Reply' = Reply /\ request' = request
    BY <1>1 DEF vars, Effect, DocumentsOf, Reply
  <2>2. QED
    BY <2>1
<1>2. ASSUME NEW a \in Attempts, Submit(a)
      PROVE  Contract!Next
  <2>1. Requests = Contract!Requests
    BY DEF Requests, Contract!Requests
  <2>2. QED
    BY <1>2, <2>1, SubmitAsks DEF IInv, RInv, Contract!Next
<1>3. ASSUME NEW a \in Attempts, Commit(a)
      PROVE  Contract!Next
  BY <1>3, CommitApplies DEF Contract!Next
<1>4. ASSUME NEW a \in Attempts, Step(a) \/ HandlerError(a) \/ Crash(a), ~CommitStep
      PROVE  [Contract!Next]_<<request, Effect, Reply>>
  <2>1. CASE pc'[a] = "done"
    BY <1>4, <2>1, StepAnswers, AnswerGives DEF Contract!Next
  <2>2. CASE pc'[a] # "done"
    <3>1. Reply' = Reply
      BY <1>4, <2>2, StepAnswers, OnlyOneReplies DEF IInv
    <3>2. request' = request /\ Effect' = Effect
      BY <1>4, StepAnswers, EffectStays
    <3>3. QED
      BY <3>1, <3>2
  <2>3. QED
    BY <2>1, <2>2
<1>5. QED
  BY <1>1, <1>2, <1>3, <1>4 DEF Next, CommitStep

\* The idempotency layer and the domain lock together give every client the
\* contract of OnceOnlyEffect: at most one effect per key, for good, and a
\* success only for the payload that took effect.
THEOREM RefinesContract == Spec => ImplementsContract
<1>1. (IInv /\ RInv) /\ (IInv /\ RInv)' /\ [Next]_vars => [Contract!Next]_<<request, Effect, Reply>>
  BY ContractStep
<1>2. QED
  BY <1>1, RowsInvariant, ContractInit, PTL DEF Spec, ImplementsContract, Contract!Spec
=============================================================================
