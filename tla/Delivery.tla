------------------------------ MODULE Delivery ------------------------------
(***************************************************************************)
(* Transactional delivery of paid orders: the outbox job of an order, the  *)
(* worker processes that claim it, send the credentials over Telegram and  *)
(* record the outcome, the stale-lease scan, and the operator's manual     *)
(* resolutions (internal/app/delivery_service.go,                          *)
(* internal/postgres/delivery_store.go, delivery_admin_store.go).          *)
(*                                                                         *)
(* Every PostgreSQL transaction is one action.  Everything a worker does   *)
(* between two transactions, the Telegram request included, interleaves    *)
(* with the other workers, the stale scan and the operators.               *)
(*                                                                         *)
(* Abstractions.  An order has at most one job (deduplication_key), so a   *)
(* job is named by its order.  status merges outbox_events.status and      *)
(* processing_stage, which the CHECK outbox_events_lock_consistent ties    *)
(* together: "claimed" and "sending" are processing.  A row version is     *)
(* only ever compared with the version an operator read, so it is replaced *)
(* by what the comparison yields: review[a] holds the resolution whose     *)
(* recorded version still matches, and every update of the job's row drops *)
(* the resolutions recorded against it.  Due times and lease ages are not  *)
(* measured: any backoff may have elapsed, and a paused worker may overrun *)
(* any lease.                                                              *)
(***************************************************************************)
EXTENDS Naturals, FiniteSets

CONSTANTS
    Orders,         \* orders whose payment was accepted
    Items,          \* encrypted inventory items
    OwnerOf,        \* the order an item is actively mapped to
    Workers,        \* worker processes (locked_by)
    Admins,         \* operators allowed to resolve deliveries
    NoOrder, NoWorker, NoReview,
    JobMaxAttempts,    \* max_attempts written when the job is created
    PolicyMaxAttempts, \* DeliveryRetryPolicy.MaxAttempts of the workers
    BatchSize,         \* DELIVERY_BATCH_SIZE
    ManualRetryBound   \* model bound: manual retries per order

ASSUME WorkersFinite == IsFiniteSet(Workers)
ASSUME SentinelsAreNew == /\ NoOrder \notin Orders
                          /\ NoWorker \notin Workers
                          /\ NoReview \notin {"retry", "complete"} \X Orders
ASSUME OwnersAreOrders == OwnerOf \in [Items -> Orders]
ASSUME AttemptLimits == /\ JobMaxAttempts \in Nat \ {0}
                        /\ PolicyMaxAttempts \in Nat \ {0}
                        /\ BatchSize \in Nat \ {0}
                        /\ ManualRetryBound \in Nat

VARIABLES
    order,       \* orders.status
    inv,         \* inventory_items.status of the items mapped to the orders
    status,      \* job status and stage ("none" before the job exists)
    lockedBy,    \* outbox_events.locked_by
    attempts,    \* outbox_events.attempts
    maxAttempts, \* outbox_events.max_attempts
    resolution,  \* outbox_events.manual_resolution
    rows,        \* delivery_attempts: (attempt_number, status) pairs of the job
    wpc,         \* where the worker's RunOnce stands
    wtodo,       \* jobs of its claimed batch it has not processed yet
    wjob,        \* the job it is processing
    wresult,     \* the class of the outcome it holds for that job
    wattempt,    \* the attempt number BeginDeliveryAttempt gave it
    review,      \* per operator, the resolution that still passes the version check
    sends,       \* history: messages with the credentials that reached the customer
    retries      \* history: manual retries an operator committed

jobVars == <<order, inv, status, lockedBy, attempts, maxAttempts, resolution, rows>>
workerVars == <<wpc, wtodo, wjob, wresult, wattempt>>
vars == <<order, inv, status, lockedBy, attempts, maxAttempts, resolution, rows,
          wpc, wtodo, wjob, wresult, wattempt, review, sends, retries>>

OrderStatus == {"reserving", "delivering", "delivered", "delivery_failed"}
JobStatus == {"none", "pending", "claimed", "sending", "retryable_failed",
              "ambiguous", "permanent_failed", "completed"}
RowStatus == {"started", "succeeded", "retryable_failed", "ambiguous",
              "permanent_failed", "manual_resolution"}
Results == {"none", "success", "retryable", "permanent", "ambiguous"}
WorkerPc == {"idle", "batch", "loaded", "failing", "begun", "answered", "preserving"}
Resolutions == {"retry", "complete"} \X Orders

TypeOK ==
    /\ order \in [Orders -> OrderStatus]
    /\ inv \in [Items -> {"reserved", "sold"}]
    /\ status \in [Orders -> JobStatus]
    /\ lockedBy \in [Orders -> Workers \cup {NoWorker}]
    /\ attempts \in [Orders -> Nat]
    /\ maxAttempts \in [Orders -> Nat]
    /\ resolution \in [Orders -> {"none", "retry", "mark_delivered"}]
    /\ rows \in [Orders -> SUBSET (Nat \X RowStatus)]
    /\ wpc \in [Workers -> WorkerPc]
    /\ wtodo \in [Workers -> SUBSET Orders]
    /\ wjob \in [Workers -> Orders \cup {NoOrder}]
    /\ wresult \in [Workers -> Results]
    /\ wattempt \in [Workers -> Nat]
    /\ review \in [Admins -> Resolutions \cup {NoReview}]
    /\ sends \in [Orders -> Nat]
    /\ retries \in [Orders -> Nat]
    /\ \A w \in Workers : wjob[w] = NoOrder <=> wpc[w] \in {"idle", "batch"}

Init ==
    /\ order = [o \in Orders |-> "reserving"]
    /\ inv = [i \in Items |-> "reserved"]
    /\ status = [o \in Orders |-> "none"]
    /\ lockedBy = [o \in Orders |-> NoWorker]
    /\ attempts = [o \in Orders |-> 0]
    /\ maxAttempts = [o \in Orders |-> 0]
    /\ resolution = [o \in Orders |-> "none"]
    /\ rows = [o \in Orders |-> {}]
    /\ wpc = [w \in Workers |-> "idle"]
    /\ wtodo = [w \in Workers |-> {}]
    /\ wjob = [w \in Workers |-> NoOrder]
    /\ wresult = [w \in Workers |-> "none"]
    /\ wattempt = [w \in Workers |-> 0]
    /\ review = [a \in Admins |-> NoReview]
    /\ sends = [o \in Orders |-> 0]
    /\ retries = [o \in Orders |-> 0]

-----------------------------------------------------------------------------
(* Rows and queries *)

ItemsOf(o) == {i \in Items : OwnerOf[i] = o}

\* The mapping rows of an order are its ordered quantity, so "the count of
\* active reserved mappings equals the quantity" is: every mapped item is reserved.
ExactlyReserved(o) == \A i \in ItemsOf(o) : inv[i] = "reserved"

\* Mutant: the sale is left out.
MarkSoldMissing(o) == inv' = inv

\* MarkExactReservedInventorySold: all of the order's items, or none.
MarkSold(o) == inv' = [i \in Items |-> IF OwnerOf[i] = o THEN "sold" ELSE inv[i]]

\* An update of the rows in S bumps their versions: the resolutions recorded
\* against them no longer match.
DropReviews(S) ==
    review' = [a \in Admins |-> IF review[a] # NoReview /\ review[a][2] \in S
                                  THEN NoReview ELSE review[a]]

\* delivery_attempts is append-only and UNIQUE (job, attempt_number, status):
\* a transaction that would repeat a row fails as a whole.
RowFree(o, n, s) == <<n, s>> \notin rows[o]
AddRow(o, n, s) == rows' = [rows EXCEPT ![o] = @ \cup {<<n, s>>}]

\* outbox_events_lock_consistent: a job that leaves processing gives up its lease.
Unlock(o, s) ==
    /\ status' = [status EXCEPT ![o] = s]
    /\ lockedBy' = [lockedBy EXCEPT ![o] = NoWorker]

\* Mutant: ambiguous jobs are claimed like retryable ones.
ClaimableAmbiguous(o) == /\ status[o] \in {"pending", "retryable_failed", "ambiguous"}
                         /\ attempts[o] < maxAttempts[o]

\* The WHERE clause of ClaimDeliveryJobs.
Claimable(o) == /\ status[o] \in {"pending", "retryable_failed"}
                /\ attempts[o] < maxAttempts[o]

\* ListDeliveryBackfillOrderIDs: funded orders with exact stock and no job.
ListDeliveryBackfillOrderIDs ==
    {o \in Orders : order[o] = "reserving" /\ status[o] = "none" /\ ExactlyReserved(o)}

\* InsertDeliveryJob, for the orders in S.
InsertDeliveryJob(S) ==
    /\ status' = [o \in Orders |-> IF o \in S THEN "pending" ELSE status[o]]
    /\ maxAttempts' = [o \in Orders |-> IF o \in S THEN JobMaxAttempts ELSE maxAttempts[o]]

MarkOrderDeliveringGuarded(S) ==
    order' = [o \in Orders |-> IF o \in S THEN "delivering" ELSE order[o]]

\* LockStaleDeliveryJobs: leases older than the processing lease.  How old a lease
\* is is not modelled, so any job being processed may be stale.
LockStaleDeliveryJobs == {o \in Orders : status[o] \in {"claimed", "sending"}}

\* MarkStaleDeliveryClaimRetryable and MarkStaleDeliverySendAmbiguous: a claim that
\* never reached the network may be retried; a send may not.
MarkStaleDelivery(S) ==
    /\ status' = [o \in Orders |->
                    IF o \notin S THEN status[o]
                    ELSE IF status[o] = "claimed" THEN "retryable_failed" ELSE "ambiguous"]
    /\ lockedBy' = [o \in Orders |-> IF o \in S THEN NoWorker ELSE lockedBy[o]]

\* The lease of the locked row (LockDeliveryJob), as the guarded updates check it.
HoldsClaim(w, o) == status[o] = "claimed" /\ lockedBy[o] = w
HoldsSend(w, o) == status[o] = "sending" /\ lockedBy[o] = w

BeginDeliverySend(w, o) ==
    /\ HoldsClaim(w, o) /\ attempts[o] < maxAttempts[o]
    /\ status' = [status EXCEPT ![o] = "sending"]
    /\ attempts' = [attempts EXCEPT ![o] = @ + 1]

\* Mutant: the failed preparation is logged but not counted.
MarkClaimedUncounted(w, o, s) ==
    /\ HoldsClaim(w, o)
    /\ Unlock(o, s)
    /\ attempts' = attempts

\* MarkClaimedDeliveryFailure counts an attempt although nothing was sent.
MarkClaimedDeliveryFailure(w, o, s) ==
    /\ HoldsClaim(w, o)
    /\ Unlock(o, s)
    /\ attempts' = [attempts EXCEPT ![o] = @ + 1]

MarkDeliveryRetryable(w, o) == HoldsSend(w, o) /\ Unlock(o, "retryable_failed")
MarkDeliveryPermanentFailed(w, o) == HoldsSend(w, o) /\ Unlock(o, "permanent_failed")
MarkDeliveryCompleted(w, o) == HoldsSend(w, o) /\ Unlock(o, "completed")

\* MarkDeliveryAmbiguous does not check who holds the lease.
MarkDeliveryAmbiguous(o) == status[o] = "sending" /\ Unlock(o, "ambiguous")

\* Mutant: the order is not moved.
MarkOrderDeliveryFailedMissing(o) == order' = order

MarkOrderDeliveryFailedGuarded(o) ==
    /\ order[o] = "delivering"
    /\ order' = [order EXCEPT ![o] = "delivery_failed"]

\* Mutant: the order is marked before the items are checked, and stays as it is.
MarkOrderDeliveredMissing(o) == order' = order

MarkOrderDeliveredGuarded(o) ==
    /\ order[o] = "delivering"
    /\ order' = [order EXCEPT ![o] = "delivered"]

\* The queue an operator sees, and the buttons the card of a job offers.
ListDeliveryReviewJobs == {o \in Orders : status[o] \notin {"none", "completed"}}
Offers(k, o) == status[o] \in (IF k = "retry" THEN {"retryable_failed", "permanent_failed", "ambiguous"}
                                              ELSE {"ambiguous"})

ManualRetryDeliveryJob(o) ==
    /\ status[o] \in {"ambiguous", "permanent_failed", "retryable_failed"}
    /\ status' = [status EXCEPT ![o] = "pending"]
    /\ maxAttempts' = [maxAttempts EXCEPT ![o] = IF @ > attempts[o] THEN @ ELSE attempts[o] + 1]
    /\ resolution' = [resolution EXCEPT ![o] = "retry"]

\* Mutant: the resolution is not recorded on the job.
ManualCompleteUnrecorded(o) ==
    /\ status[o] = "ambiguous"
    /\ status' = [status EXCEPT ![o] = "completed"]
    /\ resolution' = resolution

ManualCompleteDeliveryJob(o) ==
    /\ status[o] = "ambiguous"
    /\ status' = [status EXCEPT ![o] = "completed"]
    /\ resolution' = [resolution EXCEPT ![o] = "mark_delivered"]

-----------------------------------------------------------------------------
(* Creation, claim and stale recovery *)

\* One transaction creating the jobs of the orders in S: the acceptance of a
\* payment (one order) or the worker's bounded backfill.
CreateDeliveryHandoff(S) ==
    /\ S # {} /\ Cardinality(S) <= BatchSize
    /\ S \subseteq ListDeliveryBackfillOrderIDs
    /\ InsertDeliveryJob(S)
    /\ MarkOrderDeliveringGuarded(S)
    /\ UNCHANGED <<inv, lockedBy, attempts, resolution, rows, workerVars, review, sends, retries>>

\* Mutant: an interrupted send is queued again, like an interrupted claim.
RecoverStaleResends(S) ==
    /\ S # {} /\ Cardinality(S) <= BatchSize
    /\ \A o \in S : status[o] \in {"claimed", "sending"}
    /\ status' = [o \in Orders |-> IF o \in S THEN "retryable_failed" ELSE status[o]]
    /\ lockedBy' = [o \in Orders |-> IF o \in S THEN NoWorker ELSE lockedBy[o]]
    /\ DropReviews(S)
    /\ UNCHANGED <<order, inv, attempts, maxAttempts, resolution, rows, workerVars, sends, retries>>

\* Mutant: only interrupted sends are recovered.
RecoverStaleSendsOnly(S) ==
    /\ S # {} /\ Cardinality(S) <= BatchSize
    /\ \A o \in S : status[o] = "sending" /\ RowFree(o, attempts[o], "ambiguous")
    /\ status' = [o \in Orders |-> IF o \in S THEN "ambiguous" ELSE status[o]]
    /\ lockedBy' = [o \in Orders |-> IF o \in S THEN NoWorker ELSE lockedBy[o]]
    /\ rows' = [o \in Orders |-> IF o \in S THEN rows[o] \cup {<<attempts[o], "ambiguous">>} ELSE rows[o]]
    /\ DropReviews(S)
    /\ UNCHANGED <<order, inv, attempts, maxAttempts, resolution, workerVars, sends, retries>>

\* RecoverStaleDeliveryJobs: one transaction over a batch of stale leases.
RecoverStaleDeliveryJobs(S) ==
    /\ S # {} /\ Cardinality(S) <= BatchSize
    /\ S \subseteq LockStaleDeliveryJobs
    /\ \A o \in S : status[o] = "sending" => RowFree(o, attempts[o], "ambiguous")
    /\ MarkStaleDelivery(S)
    /\ rows' = [o \in Orders |->
                    IF o \in S /\ status[o] = "sending"
                      THEN rows[o] \cup {<<attempts[o], "ambiguous">>} ELSE rows[o]]
    /\ DropReviews(S)
    /\ UNCHANGED <<order, inv, attempts, maxAttempts, resolution, workerVars, sends, retries>>

\* ClaimDeliveryJobs: a worker between runs leases a batch of due jobs.
ClaimDeliveryJobs(w, S) ==
    /\ wpc[w] = "idle"
    /\ S # {} /\ Cardinality(S) <= BatchSize
    /\ \A o \in S : Claimable(o)
    /\ status' = [o \in Orders |-> IF o \in S THEN "claimed" ELSE status[o]]
    /\ lockedBy' = [o \in Orders |-> IF o \in S THEN w ELSE lockedBy[o]]
    /\ wpc' = [wpc EXCEPT ![w] = "batch"]
    /\ wtodo' = [wtodo EXCEPT ![w] = S]
    /\ DropReviews(S)
    /\ UNCHANGED <<order, inv, attempts, maxAttempts, resolution, rows,
                   wjob, wresult, wattempt, sends, retries>>

-----------------------------------------------------------------------------
(* DeliveryJob.process: one job of the batch *)

\* The run ends: an error of process() abandons the rest of the batch, whose
\* jobs stay claimed until their lease is stale.
EndRun(w) ==
    /\ wpc' = [wpc EXCEPT ![w] = "idle"]
    /\ wtodo' = [wtodo EXCEPT ![w] = {}]
    /\ wjob' = [wjob EXCEPT ![w] = NoOrder]
    /\ wresult' = [wresult EXCEPT ![w] = "none"]
    /\ wattempt' = [wattempt EXCEPT ![w] = 0]

\* process() returned nil: on to the next job of the batch, or the run is over.
NextJob(w) ==
    /\ wpc' = [wpc EXCEPT ![w] = IF wtodo[w] = {} THEN "idle" ELSE "batch"]
    /\ wjob' = [wjob EXCEPT ![w] = NoOrder]
    /\ wresult' = [wresult EXCEPT ![w] = "none"]
    /\ wattempt' = [wattempt EXCEPT ![w] = 0]
    /\ UNCHANGED wtodo

\* The job and its order as LoadDeliveryEnvelope reads them, without a lock.
LoadDeliveryEnvelope(o) == [job |-> status[o], lockedBy |-> lockedBy[o], order |-> order[o]]

LoadValid(w, o) ==
    /\ LoadDeliveryEnvelope(o) = [job |-> "claimed", lockedBy |-> w, order |-> "delivering"]
    /\ ExactlyReserved(o)

LoadClaimedDelivery(w, o) ==
    /\ wpc[w] = "batch" /\ o \in wtodo[w]
    /\ wtodo' = [wtodo EXCEPT ![w] = @ \ {o}]
    /\ wjob' = [wjob EXCEPT ![w] = o]
    /\ wpc' = [wpc EXCEPT ![w] = IF LoadValid(w, o) THEN "loaded" ELSE "failing"]
    /\ wresult' = [wresult EXCEPT ![w] = IF LoadValid(w, o) THEN "none" ELSE "permanent"]
    /\ UNCHANGED <<jobVars, wattempt, review, sends, retries>>

\* A query, decryption or BuildDeliveryMessage fails: permanent, unless the
\* cause is a context error (with the run's own context gone, recording it fails
\* too, which is AbortRun).
PrepareFails(w) ==
    /\ wpc[w] = "loaded"
    /\ wpc' = [wpc EXCEPT ![w] = "failing"]
    /\ \E r \in {"permanent", "retryable"} : wresult' = [wresult EXCEPT ![w] = r]
    /\ UNCHANGED <<jobVars, wtodo, wjob, wattempt, review, sends, retries>>

FailureStatus(class) ==
    CASE class = "retryable" -> "retryable_failed"
      [] class = "permanent" -> "permanent_failed"
      [] OTHER -> "ambiguous"

FinalizeClaimedDeliveryFailure(w) ==
    LET o == wjob[w]
        s == FailureStatus(wresult[w])
    IN  /\ wpc[w] = "failing"
        /\ MarkClaimedDeliveryFailure(w, o, s)
        /\ RowFree(o, attempts[o] + 1, s) /\ AddRow(o, attempts[o] + 1, s)
        /\ IF wresult[w] = "permanent" THEN MarkOrderDeliveryFailedGuarded(o) ELSE UNCHANGED order
        /\ DropReviews({o})
        /\ NextJob(w)
        /\ UNCHANGED <<inv, maxAttempts, resolution, sends, retries>>

\* BeginDeliveryAttempt: "sending" is durable before the request is written.
BeginDeliveryAttempt(w) ==
    LET o == wjob[w]
        n == attempts[o] + 1
    IN  /\ wpc[w] = "loaded"
        /\ BeginDeliverySend(w, o)
        /\ RowFree(o, n, "started") /\ AddRow(o, n, "started")
        /\ DropReviews({o})
        /\ wpc' = [wpc EXCEPT ![w] = "begun"]
        /\ wattempt' = [wattempt EXCEPT ![w] = n]
        /\ UNCHANGED <<order, inv, lockedBy, maxAttempts, resolution,
                       wtodo, wjob, wresult, sends, retries>>

\* What SendDelivery can return, and whether the customer got the message.
\* Telegram is external: 429, 5xx, a rejected request and a connection that
\* failed before the request was written are taken as not delivered; a lost or
\* unusable answer may be either.
SendOutcomes == {<<"success", "reached">>, <<"ambiguous", "reached">>, <<"ambiguous", "lost">>,
                 <<"retryable", "lost">>, <<"permanent", "lost">>}

SendDelivery(w) ==
    LET o == wjob[w]
    IN  /\ wpc[w] = "begun"
        /\ \E r \in SendOutcomes :
              /\ wresult' = [wresult EXCEPT ![w] = r[1]]
              /\ sends' = [sends EXCEPT ![o] = IF r[2] = "reached" THEN @ + 1 ELSE @]
        /\ wpc' = [wpc EXCEPT ![w] = "answered"]
        /\ UNCHANGED <<jobVars, wtodo, wjob, wattempt, review, retries>>

\* Mutant: the last attempt is counted one too late.
ClassifyFailureLate(class, attempt) ==
    IF class = "retryable" /\ attempt > PolicyMaxAttempts THEN "permanent" ELSE class

\* classifyDeliveryFailure: a retryable outcome of the policy's last attempt is
\* permanent.
ClassifyFailure(class, attempt) ==
    IF class = "retryable" /\ attempt >= PolicyMaxAttempts THEN "permanent" ELSE class

FinalizeDeliveryFailure(w) ==
    LET o == wjob[w]
        class == ClassifyFailure(wresult[w], wattempt[w])
        s == FailureStatus(class)
    IN  /\ wpc[w] = "answered" /\ wresult[w] # "success"
        /\ HoldsSend(w, o)
        /\ RowFree(o, attempts[o], s) /\ AddRow(o, attempts[o], s)
        /\ \/ class = "retryable" /\ MarkDeliveryRetryable(w, o) /\ UNCHANGED order
           \/ class = "permanent" /\ MarkDeliveryPermanentFailed(w, o) /\ MarkOrderDeliveryFailedGuarded(o)
           \/ class = "ambiguous" /\ MarkDeliveryAmbiguous(o) /\ UNCHANGED order
        /\ DropReviews({o})
        /\ NextJob(w)
        /\ UNCHANGED <<inv, attempts, maxAttempts, resolution, sends, retries>>

\* FinalizeDeliverySuccess commits; the worker may still see an error (a lost
\* commit acknowledgement), and then goes on to preserve its evidence.
FinalizeDeliverySuccess(w) ==
    LET o == wjob[w]
    IN  /\ wpc[w] = "answered" /\ wresult[w] = "success"
        /\ ExactlyReserved(o) /\ MarkSold(o)
        /\ MarkOrderDeliveredGuarded(o)
        /\ MarkDeliveryCompleted(w, o)
        /\ RowFree(o, attempts[o], "succeeded") /\ AddRow(o, attempts[o], "succeeded")
        /\ DropReviews({o})
        /\ \/ NextJob(w)
           \/ /\ wpc' = [wpc EXCEPT ![w] = "preserving"]
              /\ UNCHANGED <<wtodo, wjob, wresult, wattempt>>
        /\ UNCHANGED <<attempts, maxAttempts, resolution, sends, retries>>

\* The job was already completed (by an operator): nothing to do.
SuccessAlreadyCompleted(w) ==
    /\ wpc[w] = "answered" /\ wresult[w] = "success"
    /\ status[wjob[w]] = "completed"
    /\ NextJob(w)
    /\ UNCHANGED <<jobVars, review, sends, retries>>

\* The success transaction failed: lease lost, or a database error.
FinalizeSuccessFails(w) ==
    /\ wpc[w] = "answered" /\ wresult[w] = "success"
    /\ wpc' = [wpc EXCEPT ![w] = "preserving"]
    /\ UNCHANGED <<jobVars, wtodo, wjob, wresult, wattempt, review, sends, retries>>

\* PreserveAmbiguousSuccess: does not check who holds the lease, so it also
\* stops an attempt that another worker has begun since.
PreserveAmbiguousSuccess(w) ==
    LET o == wjob[w]
    IN  /\ wpc[w] = "preserving"
        /\ MarkDeliveryAmbiguous(o)
        /\ RowFree(o, attempts[o], "ambiguous") /\ AddRow(o, attempts[o], "ambiguous")
        /\ DropReviews({o})
        /\ EndRun(w)
        /\ UNCHANGED <<order, inv, attempts, maxAttempts, resolution, sends, retries>>

\* process() returns an error, the run is cancelled or the process dies: a
\* failed guard, constraint or query rolls its transaction back, and the rest
\* of the batch is abandoned.
AbortRun(w) ==
    /\ wpc[w] # "idle"
    /\ EndRun(w)
    /\ UNCHANGED <<jobVars, review, sends, retries>>

-----------------------------------------------------------------------------
(* Operators *)

\* The operator opens a resolution with a button the job's card offers, at the
\* version the card shows (an outdated card matches no version); a new session
\* replaces the operator's previous one.
OpenReview(a, k, o) ==
    /\ o \in ListDeliveryReviewJobs /\ Offers(k, o)
    /\ review' = [review EXCEPT ![a] = <<k, o>>]
    /\ UNCHANGED <<jobVars, workerVars, sends, retries>>

\* The session is cancelled or expires.
CloseReview(a) ==
    /\ review[a] # NoReview
    /\ review' = [review EXCEPT ![a] = NoReview]
    /\ UNCHANGED <<jobVars, workerVars, sends, retries>>

\* RetryDelivery: the same job is queued again, with room for one more attempt.
\* A second retry before an attempt was counted repeats the row of the first one:
\* the transaction is rolled back, and the job stays as it is.
RetryDelivery(a, o) ==
    /\ review[a] = <<"retry", o>>
    /\ order[o] \in {"delivery_failed", "delivering"}
    /\ retries[o] < ManualRetryBound
    /\ order' = [order EXCEPT ![o] = "delivering"]
    /\ ManualRetryDeliveryJob(o)
    /\ RowFree(o, attempts[o] + 1, "manual_resolution") /\ AddRow(o, attempts[o] + 1, "manual_resolution")
    /\ DropReviews({o})
    /\ retries' = [retries EXCEPT ![o] = @ + 1]
    /\ UNCHANGED <<inv, lockedBy, attempts, workerVars, sends>>

\* CompleteDelivery: the operator vouches for a message; nothing is sent.
CompleteDelivery(a, o) ==
    /\ review[a] = <<"complete", o>>
    /\ ExactlyReserved(o) /\ MarkSold(o)
    /\ MarkOrderDeliveredGuarded(o)
    /\ ManualCompleteDeliveryJob(o)
    /\ RowFree(o, attempts[o] + 1, "manual_resolution") /\ AddRow(o, attempts[o] + 1, "manual_resolution")
    /\ DropReviews({o})
    /\ UNCHANGED <<lockedBy, attempts, maxAttempts, workerVars, sends, retries>>

-----------------------------------------------------------------------------
WorkerStep(w) ==
    \/ \E S \in SUBSET Orders : ClaimDeliveryJobs(w, S)
    \/ \E o \in Orders : LoadClaimedDelivery(w, o)
    \/ PrepareFails(w)
    \/ FinalizeClaimedDeliveryFailure(w)
    \/ BeginDeliveryAttempt(w)
    \/ SendDelivery(w)
    \/ FinalizeDeliveryFailure(w)
    \/ FinalizeDeliverySuccess(w)
    \/ SuccessAlreadyCompleted(w)
    \/ FinalizeSuccessFails(w)
    \/ PreserveAmbiguousSuccess(w)
    \/ AbortRun(w)

OperatorStep(a) ==
    \/ \E k \in {"retry", "complete"}, o \in Orders : OpenReview(a, k, o)
    \/ CloseReview(a)
    \/ \E o \in Orders : RetryDelivery(a, o)
    \/ \E o \in Orders : CompleteDelivery(a, o)

Next ==
    \/ \E S \in SUBSET Orders : CreateDeliveryHandoff(S)
    \/ \E S \in SUBSET Orders : RecoverStaleDeliveryJobs(S)
    \/ \E w \in Workers : WorkerStep(w)
    \/ \E a \in Admins : OperatorStep(a)

Spec == Init /\ [][Next]_vars

\* What a worker deployment guarantees: processes are restarted and RunOnce is
\* polled, so due jobs keep being claimed, every run ends, and the scan reaches
\* every stale lease (oldest first).  Leases outlast the job timeout
\* (config.go), so a worker is not overtaken or killed every single time between
\* its claim and its send: strong fairness for the two steps in between.
\* Operators and payments owe nothing.
Fairness ==
    /\ \A o \in Orders :
          WF_vars(\E S \in SUBSET Orders : o \in S /\ RecoverStaleDeliveryJobs(S))
    /\ \A w \in Workers :
          /\ WF_vars(\E S \in SUBSET Orders : ClaimDeliveryJobs(w, S))
          /\ \A o \in Orders : SF_vars(LoadClaimedDelivery(w, o) /\ LoadValid(w, o))
          /\ SF_vars(BeginDeliveryAttempt(w))
          /\ WF_vars(FinalizeClaimedDeliveryFailure(w))
          /\ WF_vars(SendDelivery(w))
          /\ WF_vars(FinalizeDeliveryFailure(w))
          /\ WF_vars(FinalizeDeliverySuccess(w))
          /\ WF_vars(AbortRun(w))

FairSpec == Spec /\ Fairness

-----------------------------------------------------------------------------
(* The operator's reconciliation report *)

\* CountDeliveryReconciliationAnomalies: what each of its counters counts.
\* (multiple_active_jobs is left out: a job is named by its order here.)
CountDeliveryReconciliationAnomalies ==
    [delivering_without_job |-> {o \in Orders : order[o] = "delivering" /\ status[o] = "none"},
     active_job_wrong_order_state |->
        {o \in Orders : /\ status[o] \in {"pending", "claimed", "sending", "retryable_failed"}
                        /\ order[o] # "delivering"},
     completed_job_order_not_delivered |->
        {o \in Orders : status[o] = "completed" /\ order[o] # "delivered"},
     delivered_inventory_mismatch |->
        {o \in Orders : order[o] = "delivered" /\ \E i \in ItemsOf(o) : inv[i] # "sold"},
     sold_without_completed_job |->
        {i \in Items : inv[i] = "sold" /\ status[OwnerOf[i]] # "completed"},
     delivered_order_reserved_inventory |->
        {i \in Items : inv[i] = "reserved" /\ order[OwnerOf[i]] = "delivered"},
     stale_processing |-> LockStaleDeliveryJobs,
     ambiguous_without_review |-> {o \in Orders : status[o] = "ambiguous" /\ resolution[o] = "none"},
     success_evidence_not_completed |->
        {o \in Orders : status[o] # "completed" /\ \E r \in rows[o] : r[2] = "succeeded"}]

-----------------------------------------------------------------------------
(* Properties *)

\* Worker w still may cause, or may have caused, one more authorised message: it
\* has begun an attempt whose outcome is open or safely failed.
Holds(w, o) == /\ wjob[w] = o
               /\ \/ wpc[w] = "begun"
                  \/ wpc[w] = "answered" /\ wresult[w] = "retryable"
Holders(o) == {w \in Workers : Holds(w, o)}

\* The job itself still entitles the workers to one attempt.
Entitled(o) == IF status[o] \in {"none", "pending", "claimed", "retryable_failed"} THEN 1 ELSE 0

\* The right to send is a token: the payment and every manual retry create one,
\* a message consumes one, an interrupted or ambiguous attempt destroys one.  The
\* messages sent and the tokens still around never exceed the authorisations.
SendTokens ==
    \A o \in Orders : sends[o] + Cardinality(Holders(o)) + Entitled(o) <= 1 + retries[o]

\* The customer is sent the credentials at most once per authorisation: the
\* payment authorises one delivery, every committed manual retry one more.
\* Crashes, stale leases, lost answers and late workers never add a message.
NoUnauthorisedResend == \A o \in Orders : sends[o] <= 1 + retries[o]

\* An order is only marked delivered when a message with its credentials reached
\* the customer, or an operator vouched for one (mark_delivered).
DeliveredHasEvidence ==
    \A o \in Orders : order[o] = "delivered" => sends[o] >= 1 \/ resolution[o] = "mark_delivered"

\* A job and its order agree, whatever worker, scan or operator moved them last.
JobMatchesOrder ==
    \A o \in Orders :
        /\ status[o] = "none" <=> order[o] = "reserving"
        /\ status[o] \in {"pending", "claimed", "sending", "retryable_failed", "ambiguous"}
              <=> order[o] = "delivering"
        /\ status[o] = "permanent_failed" <=> order[o] = "delivery_failed"
        /\ status[o] = "completed" <=> order[o] = "delivered"

\* The items of an order are sold together, exactly when its job completes, and
\* stay reserved through every retry, ambiguity and failure before that.
SoldWithDelivery ==
    \A i \in Items : inv[i] = "sold" <=> status[OwnerOf[i]] = "completed"

\* The UNIQUE constraint of the attempt log never fails a worker's transaction:
\* the rows the next worker or scan step inserts are free; nothing is said of the
\* row of a manual retry.  (A collision in the
\* stale scan would roll back the recovery of its whole batch, on every scan.)
AttemptRowsFree ==
    \A o \in Orders :
        /\ status[o] = "sending" =>
              \A s \in {"succeeded", "retryable_failed", "ambiguous", "permanent_failed"} :
                  RowFree(o, attempts[o], s)
        /\ status[o] \in {"none", "pending", "claimed", "retryable_failed"} =>
              \A s \in {"started", "retryable_failed", "permanent_failed"} :
                  RowFree(o, attempts[o] + 1, s)

\* The CHECK attempts <= max_attempts is never the reason a transaction fails,
\* and a lease is held exactly while the job is processing.
LeaseConsistent ==
    \A o \in Orders :
        /\ attempts[o] <= maxAttempts[o]
        /\ status[o] = "claimed" => attempts[o] < maxAttempts[o]
        /\ lockedBy[o] # NoWorker <=> status[o] \in {"claimed", "sending"}

\* Once a message may have been delivered, only an operator moves the job on:
\* an ambiguous job is left by a committed retry or mark_delivered, nothing else.
AmbiguousNeedsOperator ==
    [][\A o \in Orders : status[o] = "ambiguous" /\ status'[o] # "ambiguous" =>
          \/ status'[o] = "pending" /\ retries'[o] = retries[o] + 1
          \/ status'[o] = "completed" /\ resolution'[o] = "mark_delivered"]_vars

\* Between two commits of any process the reconciliation report shows stale leases
\* and ambiguous jobs at most: the counters that would mean lost or duplicated
\* goods stay zero.
ReconciliationClean ==
    LET report == CountDeliveryReconciliationAnomalies
    IN  \A c \in DOMAIN report \ {"stale_processing", "ambiguous_without_review"} : report[c] = {}

\* A queued job ends delivered, failed or in front of an operator, unless its
\* attempts run out while it is still marked retryable (failed preparations).
QueueDrains ==
    \A o \in Orders : Claimable(o) ~>
        \/ status[o] \in {"ambiguous", "permanent_failed", "completed"}
        \/ status[o] = "retryable_failed" /\ ~Claimable(o)

\* A send that failed with the job's last attempt does not leave the job retryable,
\* where no worker claims it again: the order is failed and an operator sees it.
\* (While the limit of the job is the limit of the worker's policy.)
ExhaustedJobFails ==
    JobMaxAttempts = PolicyMaxAttempts =>
        \A o \in Orders :
            status[o] = "retryable_failed" /\ <<attempts[o], "started">> \in rows[o] =>
                attempts[o] < maxAttempts[o]
=============================================================================
