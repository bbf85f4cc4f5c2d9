------------------------- MODULE RequestIdempotency -------------------------
(***************************************************************************)
(* How one HTTP mutation is executed at most once.                         *)
(*                                                                         *)
(* Two layers protect a mutation.  executeRequestWithIdempotency           *)
(* (npp-core/api/src/idempotency.js) keeps one record per (actor, key) and *)
(* answers repeated requests from it.  Inside the handler the domain       *)
(* service (postInventoryMovement and its siblings) takes an advisory lock *)
(* on the key, looks for a document already posted with it and posts one   *)
(* only when there is none; the installation, not the actor, scopes that   *)
(* second key.  The record and the document are written by different       *)
(* transactions, so every step between them can fail.                      *)
(*                                                                         *)
(* An attempt is one HTTP request; its name is the request id that owns    *)
(* the record.  A client that retries sends another attempt.               *)
(***************************************************************************)
CONSTANTS Attempts,   \* HTTP requests, by request id
          Actors,     \* authenticated actors
          Keys,       \* Idempotency-Key values
          Payloads,   \* canonical payload fingerprints
          None        \* no attempt, no payload, no response

VARIABLES
  pc,         \* where each attempt is in executeRequestWithIdempotency
  request,    \* what each attempt asks for
  records,    \* shared.core_idempotency_records, one row per scope
  seen,       \* the row an attempt read when it did not create it
  outcome,    \* the response an attempt has built
  documents,  \* documents posted by the domain services
  keyLock     \* holder of the advisory lock of each domain key

vars == <<pc, request, records, seen, outcome, documents, keyLock>>

Scopes == Actors \X Keys

\* A stored response: 2xx, a final 4xx, or one that may be retried.
StoredResponses == {"success", "rejected", "unavailable"}
\* Answers built without a stored response.
Responses == StoredResponses \union {"mismatch", "inProgress", "error"}

Requests == [actor : Actors, key : Keys, payload : Payloads]

\* None stands for SQL's NULL: it is none of the values a column can hold, and
\* it is no request.
ASSUME NoneAssumption ==
  /\ None \notin Attempts \union Actors \union Keys \union Payloads \union Responses
  /\ None \notin Requests

Absent == [status |-> "absent", payload |-> None, owner |-> None, response |-> None]

Records == [status   : {"absent", "processing", "completed", "failed"},
            payload  : Payloads \union {None},
            owner    : Attempts \union {None},
            response : StoredResponses \union {None}]

InHandler == {"lock", "check", "work"}             \* inside onProcess
InTransaction == {"check", "work"}                 \* holding the key lock
Finalizing == {"complete", "fail"}                 \* markCompleted, markFailed
Live == {"reserve", "decide", "reclaim"} \union InHandler \union Finalizing

Scope(a) == <<request[a].actor, request[a].key>>

DocumentsOf(k) == {d \in documents : d.key = k}

\* responseIsRetryableFailure, failedRecordIsRetryable
RetryableFailure(r) == r.status = "failed" /\ r.response = "unavailable"

-----------------------------------------------------------------------------
Init ==
  /\ pc = [a \in Attempts |-> "idle"]
  /\ request = [a \in Attempts |-> None]
  /\ records = [s \in Scopes |-> Absent]
  /\ seen = [a \in Attempts |-> Absent]
  /\ outcome = [a \in Attempts |-> None]
  /\ documents = {}
  /\ keyLock = [k \in Keys |-> None]

Goto(a, label) == pc' = [pc EXCEPT ![a] = label]
Build(a, response) == outcome' = [outcome EXCEPT ![a] = response]
Answer(a, response) == Goto(a, "done") /\ Build(a, response)
ReleaseKeyLock(a) == keyLock' = [keyLock EXCEPT ![request[a].key] = None]

\* A request arrives: a first try, a retry, or a reuse of the key.
Submit(a) ==
  /\ pc[a] = "idle"
  /\ \E r \in Requests : request' = [request EXCEPT ![a] = r]
  /\ Goto(a, "reserve")
  /\ UNCHANGED <<records, seen, outcome, documents, keyLock>>

Processing(a) == [status |-> "processing", payload |-> request[a].payload,
                  owner |-> a, response |-> None]

\* store.reserve inserts the row and the attempt owns it.
Reserve(a) ==
  /\ pc[a] = "reserve"
  /\ records[Scope(a)].status = "absent"
  /\ records' = [records EXCEPT ![Scope(a)] = Processing(a)]
  /\ Goto(a, "lock")
  /\ UNCHANGED <<request, seen, outcome, documents, keyLock>>

\* The INSERT conflicts: reserve returns the row it finds.
ReadExisting(a) ==
  /\ pc[a] = "reserve"
  /\ records[Scope(a)].status # "absent"
  /\ seen' = [seen EXCEPT ![a] = records[Scope(a)]]
  /\ Goto(a, "decide")
  /\ UNCHANGED <<request, records, outcome, documents, keyLock>>

\* reserve fails: its connection is lost before the INSERT is committed, or
\* after it, when the row stays behind with nobody working on it.
ReserveError(a) ==
  /\ pc[a] = "reserve"
  /\ \/ UNCHANGED records
     \/ /\ records[Scope(a)].status = "absent"
        /\ records' = [records EXCEPT ![Scope(a)] = Processing(a)]
  /\ Answer(a, "error")
  /\ UNCHANGED <<request, seen, documents, keyLock>>

\* MUTANT: the fingerprint of the stored request is not compared.
ExistingResponseAnyPayload(a) ==
  IF seen[a].status = "processing" THEN "inProgress" ELSE seen[a].response

\* responseForExistingRecord, on the row as it was when it was read.
ExistingResponse(a) ==
  LET r == seen[a] IN
  CASE r.payload # request[a].payload -> "mismatch"
    [] r.status = "processing"        -> "inProgress"
    [] OTHER                          -> r.response

Decide(a) ==
  /\ pc[a] = "decide"
  /\ IF seen[a].payload = request[a].payload /\ RetryableFailure(seen[a])
       THEN Goto(a, "reclaim") /\ UNCHANGED outcome
       ELSE Answer(a, ExistingResponse(a))
  /\ UNCHANGED <<request, records, seen, documents, keyLock>>

\* MUTANT: the UPDATE does not test the status again.
ReclaimableUnchecked(a) == records[Scope(a)].payload = request[a].payload

\* store.reclaimFailed: a conditional UPDATE, so the row is tested again.
Reclaimable(a) ==
  /\ RetryableFailure(records[Scope(a)])
  /\ records[Scope(a)].payload = request[a].payload

ReclaimFailed(a) ==
  /\ pc[a] = "reclaim"
  /\ IF Reclaimable(a)
       THEN /\ records' = [records EXCEPT ![Scope(a)] = Processing(a)]
            /\ Goto(a, "lock")
            /\ UNCHANGED outcome
       ELSE Answer(a, "inProgress") /\ UNCHANGED records
  /\ UNCHANGED <<request, seen, documents, keyLock>>

\* reclaimFailed throws, before its UPDATE or after it.
ReclaimError(a) ==
  /\ pc[a] = "reclaim"
  /\ \/ UNCHANGED records
     \/ /\ Reclaimable(a)
        /\ records' = [records EXCEPT ![Scope(a)] = Processing(a)]
  /\ Answer(a, "error")
  /\ UNCHANGED <<request, seen, documents, keyLock>>

-----------------------------------------------------------------------------
(* The handler: one transaction of withAuditOutboxTransaction.             *)

\* MUTANT: the advisory lock is not taken.
LockKeyShared(a) ==
  /\ pc[a] = "lock"
  /\ Goto(a, "check")
  /\ UNCHANGED <<request, records, seen, outcome, documents, keyLock>>

\* BEGIN and lockIdempotencyKey.
LockKey(a) ==
  /\ pc[a] = "lock"
  /\ keyLock[request[a].key] = None
  /\ keyLock' = [keyLock EXCEPT ![request[a].key] = a]
  /\ Goto(a, "check")
  /\ UNCHANGED <<request, records, seen, outcome, documents>>

\* MUTANT: a document posted with another payload is replayed as a success.
ReplayWithoutHash(a) ==
  /\ pc[a] = "check"
  /\ IF DocumentsOf(request[a].key) = {}
       THEN Goto(a, "work") /\ UNCHANGED <<outcome, keyLock>>
       ELSE Build(a, "success") /\ Goto(a, "complete") /\ ReleaseKeyLock(a)
  /\ UNCHANGED <<request, records, seen, documents>>

\* MUTANT: the domain mismatch is stored under the executor's own error code.
ReplayStoringMismatch(a) ==
  /\ pc[a] = "check"
  /\ IF DocumentsOf(request[a].key) = {}
       THEN Goto(a, "work") /\ UNCHANGED <<outcome, keyLock>>
       ELSE Build(a, "mismatch") /\ Goto(a, "complete") /\ ReleaseKeyLock(a)
  /\ UNCHANGED <<request, records, seen, documents>>

\* replayOrMismatch: the document posted with this key, whoever posted it.
ReplayOrMismatch(a) ==
  /\ pc[a] = "check"
  /\ IF DocumentsOf(request[a].key) = {}
       THEN Goto(a, "work") /\ UNCHANGED <<outcome, keyLock>>
       ELSE /\ Build(a, IF \E d \in DocumentsOf(request[a].key) :
                              d.payload = request[a].payload
                          THEN "success" ELSE "rejected")
            /\ Goto(a, "complete")
            /\ ReleaseKeyLock(a)
  /\ UNCHANGED <<request, records, seen, documents>>

Document(a) == [key |-> request[a].key, payload |-> request[a].payload, by |-> a]

\* MUTANT: a COMMIT whose acknowledgement is lost is classified as a final 4xx.
CommitErrorIsFinal(a) ==
  /\ pc[a] = "work"
  /\ documents' = documents \union {Document(a)}
  /\ ReleaseKeyLock(a)
  /\ \/ Build(a, "success") /\ Goto(a, "complete")
     \/ Build(a, "rejected") /\ Goto(a, "fail")
  /\ UNCHANGED <<request, records, seen>>

\* COMMIT.  When its acknowledgement is lost the document is posted all the
\* same, and the handler throws a retryable error.
Commit(a) ==
  /\ pc[a] = "work"
  /\ documents' = documents \union {Document(a)}
  /\ ReleaseKeyLock(a)
  /\ \/ Build(a, "success") /\ Goto(a, "complete")
     \/ Build(a, "unavailable") /\ Goto(a, "fail")
  /\ UNCHANGED <<request, records, seen>>

\* ROLLBACK: a business rule refuses (a returned 4xx) or a database constraint
\* does (thrown, classified 422).
Rollback(a) ==
  /\ pc[a] = "work"
  /\ ReleaseKeyLock(a)
  /\ Build(a, "rejected")
  /\ \/ Goto(a, "complete")
     \/ Goto(a, "fail")
  /\ UNCHANGED <<request, records, seen, documents>>

\* The database fails anywhere in the handler: a 503 that may be retried.
HandlerError(a) ==
  /\ pc[a] \in InHandler
  /\ IF pc[a] \in InTransaction THEN ReleaseKeyLock(a) ELSE UNCHANGED keyLock
  /\ Build(a, "unavailable")
  /\ Goto(a, "fail")
  /\ UNCHANGED <<request, records, seen, documents>>

-----------------------------------------------------------------------------
(* Settling the record.                                                    *)

\* MUTANT: markFinal does not ask for status = 'processing'.
OwnsByRequestId(a) == records[Scope(a)].owner = a

Owns(a) == records[Scope(a)].status = "processing" /\ records[Scope(a)].owner = a

MarkFinal(a, status) ==
  /\ Owns(a)
  /\ records' = [records EXCEPT ![Scope(a)].status = status,
                                ![Scope(a)].response = outcome[a]]

MarkCompleted(a) ==
  /\ pc[a] = "complete"
  /\ MarkFinal(a, "completed")
  /\ Goto(a, "done")
  /\ UNCHANGED <<request, seen, outcome, documents, keyLock>>

\* markCompleted throws: the row is unchanged, or it is settled and the
\* acknowledgement is lost.  The catch block builds a 503 and marks failed.
MarkCompletedError(a) ==
  /\ pc[a] = "complete"
  /\ \/ UNCHANGED records
     \/ MarkFinal(a, "completed")
  /\ Build(a, "unavailable")
  /\ Goto(a, "fail")
  /\ UNCHANGED <<request, seen, documents, keyLock>>

MarkFailed(a) ==
  /\ pc[a] = "fail"
  /\ MarkFinal(a, "failed")
  /\ Goto(a, "done")
  /\ UNCHANGED <<request, seen, outcome, documents, keyLock>>

\* markFailed throws: the row is no longer owned, or the store is down.  The
\* error leaves executeRequestWithIdempotency and the row stays as it is.
MarkFailedError(a) ==
  /\ pc[a] = "fail"
  /\ Answer(a, "error")
  /\ UNCHANGED <<request, records, seen, documents, keyLock>>

\* MUTANT: the lock is held by the session, not by the transaction.
CrashKeepingLock(a) ==
  /\ pc[a] \in Live
  /\ Goto(a, "crashed")
  /\ UNCHANGED <<request, records, seen, outcome, documents, keyLock>>

\* The API process dies: its transaction rolls back, the row stays.
Crash(a) ==
  /\ pc[a] \in Live
  /\ Goto(a, "crashed")
  /\ IF pc[a] \in InTransaction THEN ReleaseKeyLock(a) ELSE UNCHANGED keyLock
  /\ UNCHANGED <<request, records, seen, outcome, documents>>

-----------------------------------------------------------------------------
\* What a running process does by itself: every call returns or throws.
Step(a) ==
  \/ Reserve(a) \/ ReadExisting(a) \/ ReserveError(a)
  \/ Decide(a) \/ ReclaimFailed(a) \/ ReclaimError(a)
  \/ LockKey(a) \/ ReplayOrMismatch(a) \/ Commit(a) \/ Rollback(a)
  \/ MarkCompleted(a) \/ MarkCompletedError(a)
  \/ MarkFailed(a) \/ MarkFailedError(a)

Next == \E a \in Attempts : Submit(a) \/ Step(a) \/ HandlerError(a) \/ Crash(a)

Spec == Init /\ [][Next]_vars

\* Node runs every callback that is ready and PostgreSQL queues the waiters of
\* an advisory lock, so an attempt that is not crashed is served in the end.  No
\* failure rescues one that waits for the lock: HandlerError is not fair.
Fairness == \A a \in Attempts : SF_vars(Step(a))

FairSpec == Spec /\ Fairness

-----------------------------------------------------------------------------
(* Properties.                                                             *)

\* Every variable has its type; what is about to be stored can be stored.
TypeOK ==
  /\ pc \in [Attempts -> Live \union {"idle", "done", "crashed"}]
  /\ request \in [Attempts -> Requests \union {None}]
  /\ \A a \in Attempts : pc[a] # "idle" => request[a] \in Requests
  /\ records \in [Scopes -> Records]
  /\ seen \in [Attempts -> Records]
  /\ outcome \in [Attempts -> Responses \union {None}]
  /\ \A a \in Attempts : pc[a] \in Finalizing => outcome[a] \in StoredResponses
  /\ documents \subseteq [key : Keys, payload : Payloads, by : Attempts]
  /\ keyLock \in [Keys -> Attempts \union {None}]

\* However requests are retried, duplicated, interrupted or sent by two actors,
\* one domain key posts at most one document.
AppliedOnce ==
  \A d1, d2 \in documents : d1.key = d2.key => d1 = d2

\* Two requests never run the handler of one idempotency record together.
SingleFlight ==
  \A a, b \in Attempts :
    /\ pc[a] \in InHandler \union Finalizing
    /\ pc[b] \in InHandler \union Finalizing
    /\ Scope(a) = Scope(b)
    => a = b

\* A 2xx answer, first or replayed, is given only when the document the client
\* asked for has been posted.
SuccessIsTruthful ==
  \A a \in Attempts :
    pc[a] = "done" /\ outcome[a] = "success"
      => \E d \in documents : d.key = request[a].key /\ d.payload = request[a].payload

\* A record that will answer every retry with a final refusal belongs to a scope
\* that has posted nothing, even when earlier tries lost their acknowledgements.
RefusalHasNoEffect ==
  \A s \in Scopes :
    /\ records[s].status \in {"completed", "failed"}
    /\ records[s].response = "rejected"
    => ~ \E d \in documents : Scope(d.by) = s

\* A settled record never changes its mind: a completed one is final, and so is
\* a failed one whose failure cannot be retried.
SettledRecordsStay ==
  [][\A s \in Scopes :
       \/ records[s].status = "completed"
       \/ records[s].status = "failed" /\ ~RetryableFailure(records[s])
       => records'[s] = records[s]]_vars

\* Every request that a running process has accepted is answered, whatever
\* happens to the requests it waits for.
EveryRequestAnswered ==
  \A a \in Attempts : pc[a] \in Live ~> pc[a] \in {"done", "crashed"}

\* A retry of a document that is already posted, arriving when no other request
\* is in flight, is answered with the original result, unless that retry itself
\* fails on the way.
RetryReplaysOriginal ==
  \A a \in Attempts :
    (/\ pc[a] = "reserve"
     /\ \E d \in documents : d.key = request[a].key /\ d.payload = request[a].payload
     /\ \A b \in Attempts \ {a} : pc[b] \notin Live)
    ~> (\/ pc[a] = "crashed"
        \/ pc[a] = "done" /\ outcome[a] \in {"success", "unavailable", "error"})

-----------------------------------------------------------------------------
(* What a client may rely on.                                              *)

Effect == [k \in Keys |->
             IF DocumentsOf(k) = {} THEN None
             ELSE (CHOOSE d \in DocumentsOf(k) : TRUE).payload]

Reply == [a \in Attempts |-> IF pc[a] = "done" THEN outcome[a] ELSE None]

Contract == INSTANCE OnceOnlyEffect WITH effect <- Effect, reply <- Reply

\* The two layers together implement the once-only contract.
ImplementsContract == Contract!Spec
=============================================================================
