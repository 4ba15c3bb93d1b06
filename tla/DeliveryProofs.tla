--------------------------- MODULE DeliveryProofs ---------------------------
(* Proofs about Delivery, for every set of orders, items, workers and       *)
(* operators and every attempt limit.                                       *)
EXTENDS Delivery, TLAPS, FiniteSetTheorems

USE DEF OrderStatus, JobStatus, RowStatus, Results, WorkerPc, Resolutions

\* The empty outbox is well typed.
LEMMA InitTyped == Init => TypeOK
  BY OwnersAreOrders, AttemptLimits DEF Init, TypeOK

\* failureAttemptStatus yields a job status.
LEMMA FailureStatusTyped ==
  ASSUME NEW c \in Results
  PROVE  FailureStatus(c) \in {"retryable_failed", "permanent_failed", "ambiguous"}
  BY DEF FailureStatus

\* classifyDeliveryFailure yields one of the delivery result classes.
LEMMA ClassifyTyped ==
  ASSUME NEW c \in Results, NEW n \in Nat
  PROVE  ClassifyFailure(c, n) \in Results
  BY DEF ClassifyFailure

\* A worker past LoadClaimedDelivery has a job.
LEMMA JobTyped ==
  ASSUME TypeOK, NEW w \in Workers, wpc[w] \notin {"idle", "batch"}
  PROVE  wjob[w] \in Orders
  BY DEF TypeOK

\* A failed send moves job, lease and order together, whatever the class.
LEMMA FailureStep ==
  ASSUME TypeOK, NEW w \in Workers, FinalizeDeliveryFailure(w)
  PROVE  LET o == wjob[w]
             class == ClassifyFailure(wresult[w], wattempt[w])
         IN  /\ o \in Orders
             /\ status' = [status EXCEPT ![o] = FailureStatus(class)]
             /\ lockedBy' = [lockedBy EXCEPT ![o] = NoWorker]
             /\ order' = [order EXCEPT ![o] = IF class = "permanent" THEN "delivery_failed" ELSE @]
<1> DEFINE o == wjob[w]
           class == ClassifyFailure(wresult[w], wattempt[w])
<1>1. o \in Orders
  BY JobTyped DEF FinalizeDeliveryFailure
<1>2. /\ status' = [status EXCEPT ![o] = FailureStatus(class)]
      /\ lockedBy' = [lockedBy EXCEPT ![o] = NoWorker]
  BY DEF FinalizeDeliveryFailure, MarkDeliveryRetryable, MarkDeliveryPermanentFailed,
         MarkDeliveryAmbiguous, Unlock, FailureStatus
<1>3. order' = [order EXCEPT ![o] = IF class = "permanent" THEN "delivery_failed" ELSE @]
  <2> HIDE DEF class
  <2>1. \/ class # "permanent" /\ order' = order
        \/ class = "permanent" /\ order' = [order EXCEPT ![o] = "delivery_failed"]
    BY DEF FinalizeDeliveryFailure, MarkOrderDeliveryFailedGuarded, class
  <2> QED BY <1>1, <2>1 DEF TypeOK
<1> QED BY <1>1, <1>2, <1>3

\* Every step of workers, scan and operators keeps the types.
LEMMA NextTyped == ASSUME TypeOK, [Next]_vars PROVE TypeOK'
<1>1. CASE \E S \in SUBSET Orders : CreateDeliveryHandoff(S)
  BY <1>1, AttemptLimits DEF TypeOK, CreateDeliveryHandoff, ListDeliveryBackfillOrderIDs, InsertDeliveryJob,
            MarkOrderDeliveringGuarded, workerVars
<1>2. CASE \E S \in SUBSET Orders : RecoverStaleDeliveryJobs(S)
  BY <1>2 DEF TypeOK, RecoverStaleDeliveryJobs, LockStaleDeliveryJobs, MarkStaleDelivery,
            DropReviews, workerVars
<1>3. ASSUME NEW w \in Workers, WorkerStep(w) PROVE TypeOK'
  <2>1. CASE \E S \in SUBSET Orders : ClaimDeliveryJobs(w, S)
    BY <2>1 DEF TypeOK, ClaimDeliveryJobs, DropReviews
  <2>2. CASE \E o \in Orders : LoadClaimedDelivery(w, o)
    BY <2>2, SentinelsAreNew DEF TypeOK, LoadClaimedDelivery, jobVars
  <2>3. CASE PrepareFails(w)
    BY <2>3 DEF TypeOK, PrepareFails, jobVars
  <2>4. CASE FinalizeClaimedDeliveryFailure(w)
    <3>1. wjob[w] \in Orders
      BY <2>4, JobTyped DEF FinalizeClaimedDeliveryFailure
    <3>2. FailureStatus(wresult[w]) \in {"retryable_failed", "permanent_failed", "ambiguous"}
      BY FailureStatusTyped DEF TypeOK
    <3> QED BY <2>4, <3>1, <3>2 DEF TypeOK, FinalizeClaimedDeliveryFailure, MarkClaimedDeliveryFailure,
            MarkOrderDeliveryFailedGuarded, Unlock, AddRow, DropReviews, NextJob
  <2>5. CASE BeginDeliveryAttempt(w)
    BY <2>5, JobTyped DEF TypeOK, BeginDeliveryAttempt, BeginDeliverySend, AddRow, DropReviews
  <2>6. CASE SendDelivery(w)
    <3>1. wjob[w] \in Orders
      BY <2>6, JobTyped DEF SendDelivery
    <3>2. PICK r \in SendOutcomes :
              /\ wresult' = [wresult EXCEPT ![w] = r[1]]
              /\ sends' = [sends EXCEPT ![wjob[w]] = IF r[2] = "reached" THEN @ + 1 ELSE @]
      BY <2>6 DEF SendDelivery
    <3>3. r[1] \in Results
      BY DEF SendOutcomes
    <3>4. sends' \in [Orders -> Nat]
      BY <3>1, <3>2 DEF TypeOK
    <3> QED BY <2>6, <3>2, <3>3, <3>4 DEF TypeOK, SendDelivery, jobVars
  <2>7. CASE FinalizeDeliveryFailure(w)
    <3>1. wjob[w] \in Orders
      BY <2>7, JobTyped DEF FinalizeDeliveryFailure
    <3>2. FailureStatus(ClassifyFailure(wresult[w], wattempt[w]))
              \in {"retryable_failed", "permanent_failed", "ambiguous"}
      BY FailureStatusTyped, ClassifyTyped DEF TypeOK
    <3>3. /\ status' \in [Orders -> JobStatus] /\ lockedBy' \in [Orders -> Workers \cup {NoWorker}]
          /\ order' \in [Orders -> OrderStatus]
      BY <2>7, <3>2, FailureStep DEF TypeOK
    <3>4. /\ rows' \in [Orders -> SUBSET (Nat \X RowStatus)]
          /\ review' \in [Admins -> Resolutions \cup {NoReview}]
      BY <2>7, <3>1, <3>2 DEF TypeOK, FinalizeDeliveryFailure, AddRow, DropReviews
    <3> QED BY <2>7, <3>3, <3>4 DEF TypeOK, FinalizeDeliveryFailure, NextJob
  <2>8. CASE FinalizeDeliverySuccess(w)
    <3>1. wjob[w] \in Orders /\ wpc[w] = "answered"
      BY <2>8, JobTyped DEF FinalizeDeliverySuccess
    <3>2. CASE NextJob(w)
      BY <2>8, <3>1, <3>2 DEF TypeOK, FinalizeDeliverySuccess, MarkOrderDeliveredGuarded,
            MarkDeliveryCompleted, MarkSold, Unlock, AddRow, DropReviews, NextJob
    <3>3. CASE /\ wpc' = [wpc EXCEPT ![w] = "preserving"]
               /\ UNCHANGED <<wtodo, wjob, wresult, wattempt>>
      BY <2>8, <3>1, <3>3 DEF TypeOK, FinalizeDeliverySuccess, MarkOrderDeliveredGuarded,
            MarkDeliveryCompleted, MarkSold, Unlock, AddRow, DropReviews
    <3> QED BY <2>8, <3>2, <3>3 DEF FinalizeDeliverySuccess
  <2>9. CASE SuccessAlreadyCompleted(w)
    BY <2>9 DEF TypeOK, SuccessAlreadyCompleted, NextJob, jobVars
  <2>10. CASE FinalizeSuccessFails(w)
    BY <2>10 DEF TypeOK, FinalizeSuccessFails, jobVars
  <2>11. CASE PreserveAmbiguousSuccess(w)
    BY <2>11, JobTyped, SMTT(30) DEF TypeOK, PreserveAmbiguousSuccess, MarkDeliveryAmbiguous, Unlock, AddRow,
            DropReviews, EndRun
  <2>12. CASE AbortRun(w)
    BY <2>12 DEF TypeOK, AbortRun, EndRun, jobVars
  <2> QED BY <1>3, <2>1, <2>2, <2>3, <2>4, <2>5, <2>6, <2>7, <2>8, <2>9, <2>10, <2>11, <2>12
          DEF WorkerStep
<1>4. ASSUME NEW a \in Admins, OperatorStep(a) PROVE TypeOK'
  <2>1. CASE \E k \in {"retry", "complete"}, o \in Orders : OpenReview(a, k, o)
    BY <2>1 DEF TypeOK, OpenReview, jobVars, workerVars
  <2>2. CASE CloseReview(a)
    BY <2>2 DEF TypeOK, CloseReview, jobVars, workerVars
  <2>3. CASE \E o \in Orders : RetryDelivery(a, o)
    BY <2>3 DEF TypeOK, RetryDelivery, ManualRetryDeliveryJob, AddRow, DropReviews, workerVars
  <2>4. CASE \E o \in Orders : CompleteDelivery(a, o)
    BY <2>4 DEF TypeOK, CompleteDelivery, MarkOrderDeliveredGuarded, ManualCompleteDeliveryJob,
            MarkSold, AddRow, DropReviews, workerVars
  <2> QED BY <1>4, <2>1, <2>2, <2>3, <2>4 DEF OperatorStep
<1>5. CASE UNCHANGED vars
  BY <1>5 DEF TypeOK, vars
<1> QED BY <1>1, <1>2, <1>3, <1>4, <1>5 DEF Next

\* Every reachable state of the delivery model is well typed.
THEOREM TypeCorrect == Spec => []TypeOK
  BY InitTyped, NextTyped, PTL DEF Spec

-----------------------------------------------------------------------------
(* Jobs, orders, items and leases agree.  The three invariants are proved    *)
(* together: an item is sold exactly when its order's job is completed needs *)
(* the agreement of job and order, and the attempt limit needs the fact that *)
(* a job that does not exist yet has used no attempt.                        *)

FreshJobs == \A o \in Orders : status[o] = "none" => attempts[o] = 0

CoreInv == TypeOK /\ JobMatchesOrder /\ SoldWithDelivery /\ LeaseConsistent /\ FreshJobs

\* The core invariant holds before any order is handed over.
LEMMA InitCore == Init => CoreInv
  BY InitTyped, OwnersAreOrders
  DEF Init, CoreInv, JobMatchesOrder, SoldWithDelivery, LeaseConsistent, FreshJobs

\* Every step keeps job, order, items and lease consistent.
LEMMA NextCore == ASSUME CoreInv, [Next]_vars PROVE CoreInv'
<1> USE OwnersAreOrders, SentinelsAreNew
    DEF JobMatchesOrder, SoldWithDelivery, LeaseConsistent, FreshJobs
<1>0. TypeOK /\ TypeOK'
  BY NextTyped DEF CoreInv
<1>1. CASE \E S \in SUBSET Orders : CreateDeliveryHandoff(S)
  <2> PICK S \in SUBSET Orders : CreateDeliveryHandoff(S)
    BY <1>1
  <2>1. JobMatchesOrder' /\ SoldWithDelivery'
    BY <1>0 DEF CoreInv, TypeOK, CreateDeliveryHandoff, ListDeliveryBackfillOrderIDs,
            InsertDeliveryJob, MarkOrderDeliveringGuarded
  <2>2. LeaseConsistent' /\ FreshJobs'
    BY <1>0, AttemptLimits DEF CoreInv, TypeOK, CreateDeliveryHandoff, ListDeliveryBackfillOrderIDs,
            InsertDeliveryJob, MarkOrderDeliveringGuarded
  <2> QED BY <1>0, <2>1, <2>2 DEF CoreInv
<1>2. CASE \E S \in SUBSET Orders : RecoverStaleDeliveryJobs(S)
  <2> PICK S \in SUBSET Orders : RecoverStaleDeliveryJobs(S)
    BY <1>2
  <2>1. JobMatchesOrder' /\ SoldWithDelivery'
    BY <1>0 DEF CoreInv, TypeOK, RecoverStaleDeliveryJobs, LockStaleDeliveryJobs, MarkStaleDelivery
  <2>2. LeaseConsistent' /\ FreshJobs'
    BY <1>0 DEF CoreInv, TypeOK, RecoverStaleDeliveryJobs, LockStaleDeliveryJobs, MarkStaleDelivery
  <2> QED BY <1>0, <2>1, <2>2 DEF CoreInv
<1>3. ASSUME NEW w \in Workers, WorkerStep(w) PROVE CoreInv'
  <2>1. CASE \E S \in SUBSET Orders : ClaimDeliveryJobs(w, S)
    BY <1>0, <2>1 DEF CoreInv, TypeOK, ClaimDeliveryJobs, Claimable
  <2>2. CASE UNCHANGED jobVars
    BY <1>0, <2>2 DEF CoreInv, TypeOK, jobVars
  <2>4. CASE FinalizeClaimedDeliveryFailure(w)
    <3>1. wjob[w] \in Orders
      BY <2>4, <1>0, JobTyped DEF FinalizeClaimedDeliveryFailure
    <3> QED BY <1>0, <2>4, <3>1 DEF CoreInv, TypeOK, FinalizeClaimedDeliveryFailure, MarkClaimedDeliveryFailure,
            MarkOrderDeliveryFailedGuarded, FailureStatus, HoldsClaim, Unlock
  <2>5. CASE BeginDeliveryAttempt(w)
    <3>1. wjob[w] \in Orders
      BY <2>5, <1>0, JobTyped DEF BeginDeliveryAttempt
    <3> QED BY <1>0, <2>5, <3>1 DEF CoreInv, TypeOK, BeginDeliveryAttempt, BeginDeliverySend, HoldsClaim
  <2>7. CASE FinalizeDeliveryFailure(w)
    <3>1. wjob[w] \in Orders
      BY <2>7, <1>0, JobTyped DEF FinalizeDeliveryFailure
    <3> QED BY <1>0, <2>7, <3>1, SMTT(30) DEF CoreInv, TypeOK, FinalizeDeliveryFailure, MarkDeliveryRetryable,
            MarkDeliveryPermanentFailed, MarkDeliveryAmbiguous,
            MarkOrderDeliveryFailedGuarded, ClassifyFailure, FailureStatus, HoldsSend,
            Unlock
  <2>8. CASE FinalizeDeliverySuccess(w)
    <3>1. wjob[w] \in Orders
      BY <2>8, <1>0, JobTyped DEF FinalizeDeliverySuccess
    <3> QED BY <1>0, <2>8, <3>1 DEF CoreInv, TypeOK, FinalizeDeliverySuccess, MarkOrderDeliveredGuarded,
            MarkDeliveryCompleted, HoldsSend, Unlock, MarkSold
  <2>11. CASE PreserveAmbiguousSuccess(w)
    <3>1. wjob[w] \in Orders
      BY <2>11, <1>0, JobTyped DEF PreserveAmbiguousSuccess
    <3> QED BY <1>0, <2>11, <3>1 DEF CoreInv, TypeOK, PreserveAmbiguousSuccess, MarkDeliveryAmbiguous, Unlock
  <2> QED BY <1>3, <2>1, <2>2, <2>4, <2>5, <2>7, <2>8, <2>11
          DEF WorkerStep, LoadClaimedDelivery, PrepareFails, SendDelivery,
            SuccessAlreadyCompleted, FinalizeSuccessFails, AbortRun
<1>4. ASSUME NEW a \in Admins, OperatorStep(a) PROVE CoreInv'
  <2>1. CASE UNCHANGED jobVars
    BY <1>0, <2>1 DEF CoreInv, TypeOK, jobVars
  <2>3. CASE \E o \in Orders : RetryDelivery(a, o)
    BY <1>0, <2>3 DEF CoreInv, TypeOK, RetryDelivery, ManualRetryDeliveryJob
  <2>4. CASE \E o \in Orders : CompleteDelivery(a, o)
    BY <1>0, <2>4 DEF CoreInv, TypeOK, CompleteDelivery, MarkOrderDeliveredGuarded,
            ManualCompleteDeliveryJob, MarkSold
  <2> QED BY <1>4, <2>1, <2>3, <2>4 DEF OperatorStep, OpenReview, CloseReview
<1>5. CASE UNCHANGED vars
  BY <1>0, <1>5 DEF CoreInv, TypeOK, vars
<1> QED BY <1>1, <1>2, <1>3, <1>4, <1>5 DEF Next

\* The core invariant holds in every reachable state.
LEMMA CoreAlways == Spec => []CoreInv
  BY InitCore, NextCore, PTL DEF Spec

\* No worker, scan or operator ever leaves a job whose order is in another
\* state (the first half of the delivery reconciliation report stays empty).
THEOREM JobsMatchOrders == Spec => []JobMatchesOrder
  BY CoreAlways, PTL DEF CoreInv

\* The items of an order are sold exactly when its job is completed.
THEOREM ItemsSoldWithDelivery == Spec => []SoldWithDelivery
  BY CoreAlways, PTL DEF CoreInv

\* The attempt limit of the row is respected and a lease is held exactly while
\* the job is processing.
THEOREM LeasesConsistent == Spec => []LeaseConsistent
  BY CoreAlways, PTL DEF CoreInv

-----------------------------------------------------------------------------
(* Tokens.  NoUnauthorisedResend is not inductive: it says nothing of the    *)
(* messages still on their way.  SendTokens counts them, as the workers that *)
(* hold an open attempt and the jobs that entitle somebody to begin one.     *)

\* The workers that hold the right to send form a finite set.
LEMMA HoldersFinite ==
  ASSUME NEW o \in Orders
  PROVE  /\ IsFiniteSet(Holders(o)) /\ Cardinality(Holders(o)) \in Nat
         /\ IsFiniteSet(Holders(o)') /\ Cardinality(Holders(o)') \in Nat
  BY WorkersFinite, FS_Subset, FS_CardinalityType DEF Holders

\* Only worker w moved: the number of holders changes by at most w itself.
LEMMA HoldersChange ==
  ASSUME NEW w \in Workers, NEW o \in Orders,
         \A v \in Workers \ {w} : wpc'[v] = wpc[v] /\ wjob'[v] = wjob[v] /\ wresult'[v] = wresult[v]
  PROVE  /\ Holds(w, o)' /\ ~Holds(w, o) => Cardinality(Holders(o)') = Cardinality(Holders(o)) + 1
         /\ ~Holds(w, o)' /\ Holds(w, o) => Cardinality(Holders(o)') = Cardinality(Holders(o)) - 1
         /\ (Holds(w, o)' <=> Holds(w, o)) => Cardinality(Holders(o)') = Cardinality(Holders(o))
<1>1. \A v \in Workers \ {w} : v \in Holders(o)' <=> v \in Holders(o)
  BY DEF Holders, Holds
<1>2. /\ w \in Holders(o) <=> Holds(w, o)
      /\ w \in Holders(o)' <=> Holds(w, o)'
  BY DEF Holders
<1>3. Holders(o) \subseteq Workers /\ Holders(o)' \subseteq Workers
  BY DEF Holders
<1>4. CASE Holds(w, o)' /\ ~Holds(w, o)
  <2>1. Holders(o)' = Holders(o) \cup {w}
    BY <1>1, <1>2, <1>3, <1>4
  <2> QED BY <1>2, <1>4, <2>1, HoldersFinite, FS_AddElement
<1>5. CASE ~Holds(w, o)' /\ Holds(w, o)
  <2>1. Holders(o)' = Holders(o) \ {w}
    BY <1>1, <1>2, <1>3, <1>5
  <2> QED BY <1>2, <1>5, <2>1, HoldersFinite, FS_RemoveElement
<1>6. CASE Holds(w, o)' <=> Holds(w, o)
  <2>1. Holders(o)' = Holders(o)
    BY <1>1, <1>2, <1>3, <1>6
  <2> QED BY <1>6, <2>1
<1> QED BY <1>4, <1>5, <1>6

\* A step that moves no worker leaves the holders of an order alone.
LEMMA HoldersSame ==
  ASSUME NEW o \in Orders, wpc' = wpc, wjob' = wjob, wresult' = wresult
  PROVE  Cardinality(Holders(o)') = Cardinality(Holders(o))
  BY DEF Holders, Holds

\* Before the handover the payment is the only authorisation.
LEMMA InitTokens == Init => SendTokens
<1> SUFFICES ASSUME Init, NEW o \in Orders
             PROVE  sends[o] + Cardinality(Holders(o)) + Entitled(o) <= 1 + retries[o]
  BY DEF SendTokens
<1>1. Holders(o) = {}
  BY DEF Init, Holders, Holds
<1> QED BY <1>1, FS_EmptySet DEF Init, Entitled

\* Every step conserves the tokens: none is created except by the handover and a manual retry.
LEMMA NextTokens == ASSUME TypeOK, SendTokens, [Next]_vars PROVE SendTokens'
<1>0. TypeOK'
  BY NextTyped
<1> SUFFICES ASSUME NEW o \in Orders
             PROVE  (sends[o] + Cardinality(Holders(o)) + Entitled(o) <= 1 + retries[o])'
  BY DEF SendTokens
<1> DEFINE c == Cardinality(Holders(o))
           d == Cardinality(Holders(o)')
<1>a. /\ c \in Nat /\ d \in Nat
      /\ sends[o] \in Nat /\ retries[o] \in Nat
      /\ sends'[o] \in Nat /\ retries'[o] \in Nat
      /\ sends[o] + c + Entitled(o) <= 1 + retries[o]
  BY <1>0, HoldersFinite DEF TypeOK, SendTokens
<1>1. CASE \E S \in SUBSET Orders : CreateDeliveryHandoff(S)
  <2>1. d = c
    BY <1>1, HoldersSame DEF CreateDeliveryHandoff, ListDeliveryBackfillOrderIDs, InsertDeliveryJob,
            MarkOrderDeliveringGuarded, workerVars
  <2> QED BY <1>1, <1>a, <2>1 DEF CreateDeliveryHandoff, ListDeliveryBackfillOrderIDs, InsertDeliveryJob,
            MarkOrderDeliveringGuarded, Entitled, TypeOK
<1>2. CASE \E S \in SUBSET Orders : RecoverStaleDeliveryJobs(S)
  <2>1. d = c
    BY <1>2, HoldersSame DEF RecoverStaleDeliveryJobs, LockStaleDeliveryJobs, MarkStaleDelivery, workerVars
  <2> QED BY <1>2, <1>a, <2>1 DEF RecoverStaleDeliveryJobs, LockStaleDeliveryJobs, MarkStaleDelivery, Entitled, TypeOK
<1>3. ASSUME NEW w \in Workers, WorkerStep(w)
      PROVE  (sends[o] + Cardinality(Holders(o)) + Entitled(o) <= 1 + retries[o])'
  <2>1. CASE \E S \in SUBSET Orders : ClaimDeliveryJobs(w, S)
    <3>1. d = c
      BY <2>1, HoldersChange DEF ClaimDeliveryJobs, Holds, TypeOK
    <3> QED BY <2>1, <1>a, <3>1 DEF ClaimDeliveryJobs, Claimable, Entitled, TypeOK
  <2>2. CASE \E p \in Orders : LoadClaimedDelivery(w, p)
    <3>0. ~Holds(w, o) /\ ~Holds(w, o)'
      BY <2>2 DEF LoadClaimedDelivery, Holds, TypeOK
    <3>1. d = c
      BY <2>2, <3>0, HoldersChange DEF LoadClaimedDelivery, TypeOK
    <3> QED BY <2>2, <1>a, <3>1 DEF LoadClaimedDelivery, jobVars, Entitled
  <2>3. CASE PrepareFails(w)
    <3>1. d = c
      BY <2>3, HoldersChange DEF PrepareFails, Holds, TypeOK
    <3> QED BY <2>3, <1>a, <3>1 DEF PrepareFails, jobVars, Entitled
  <2>4. CASE FinalizeClaimedDeliveryFailure(w)
    <3>0. wjob[w] \in Orders
      BY <2>4, JobTyped DEF FinalizeClaimedDeliveryFailure
    <3>1. d = c
      BY <2>4, HoldersChange DEF FinalizeClaimedDeliveryFailure, MarkClaimedDeliveryFailure,
            MarkOrderDeliveryFailedGuarded, NextJob, Holds, TypeOK
    <3> QED BY <2>4, <1>a, <3>0, <3>1 DEF FinalizeClaimedDeliveryFailure, MarkClaimedDeliveryFailure,
            MarkOrderDeliveryFailedGuarded, HoldsClaim, Unlock, Entitled, TypeOK
  <2>5. CASE BeginDeliveryAttempt(w)
    <3>0. wjob[w] \in Orders
      BY <2>5, JobTyped DEF BeginDeliveryAttempt
    <3>1. d <= IF wjob[w] = o THEN c + 1 ELSE c
      BY <1>a, <2>5, HoldersChange DEF BeginDeliveryAttempt, BeginDeliverySend, Holds, TypeOK
    <3> QED BY <2>5, <1>a, <3>0, <3>1 DEF BeginDeliveryAttempt, BeginDeliverySend, HoldsClaim, Entitled, TypeOK
  <2>6. CASE SendDelivery(w)
    <3>0. wjob[w] \in Orders
      BY <2>6, JobTyped DEF SendDelivery
    <3>2. PICK r \in SendOutcomes :
              /\ wresult' = [wresult EXCEPT ![w] = r[1]]
              /\ sends' = [sends EXCEPT ![wjob[w]] = IF r[2] = "reached" THEN @ + 1 ELSE @]
      BY <2>6 DEF SendDelivery
    <3>3. r[2] = "reached" => r[1] # "retryable"
      BY DEF SendOutcomes
    <3>4. d <= IF wjob[w] = o /\ r[1] # "retryable" THEN c - 1 ELSE c
      BY <1>a, <2>6, <3>2, HoldersChange DEF SendDelivery, Holds, TypeOK
    <3>5. Entitled(o)' = Entitled(o) /\ retries' = retries
      BY <2>6 DEF SendDelivery, jobVars, Entitled
    <3>6. sends'[o] <= IF wjob[w] = o /\ r[1] # "retryable" THEN sends[o] + 1 ELSE sends[o]
      BY <1>a, <3>0, <3>2, <3>3 DEF TypeOK
    <3>7. Entitled(o) \in Nat
      BY DEF Entitled
    <3> QED BY <1>a, <3>4, <3>5, <3>6, <3>7
  <2>7. CASE FinalizeDeliveryFailure(w)
    <3>0. wjob[w] \in Orders
      BY <2>7, JobTyped DEF FinalizeDeliveryFailure
    <3>1. d <= IF wjob[w] = o /\ wresult[w] = "retryable" THEN c - 1 ELSE c
      BY <1>a, <2>7, HoldersChange DEF FinalizeDeliveryFailure, NextJob, Holds, TypeOK
    <3>2. status' = [status EXCEPT ![wjob[w]] = FailureStatus(ClassifyFailure(wresult[w], wattempt[w]))]
      BY <2>7, FailureStep
    <3>3. FailureStatus(ClassifyFailure(wresult[w], wattempt[w])) = "retryable_failed"
            => wresult[w] = "retryable"
      BY DEF FailureStatus, ClassifyFailure
    <3>4. FailureStatus(ClassifyFailure(wresult[w], wattempt[w])) \in
             {"retryable_failed", "permanent_failed", "ambiguous"}
      BY FailureStatusTyped, ClassifyTyped DEF TypeOK
    <3> HIDE DEF c, d
    <3> QED BY <2>7, <1>a, <3>0, <3>1, <3>2, <3>3, <3>4
            DEF FinalizeDeliveryFailure, HoldsSend, Entitled, TypeOK, d
  <2>8. CASE FinalizeDeliverySuccess(w)
    <3>0. wjob[w] \in Orders
      BY <2>8, JobTyped DEF FinalizeDeliverySuccess
    <3>1. d = c
      BY <2>8, HoldersChange, SMTT(30) DEF FinalizeDeliverySuccess, MarkOrderDeliveredGuarded, MarkDeliveryCompleted,
            NextJob, Holds, TypeOK
    <3> QED BY <2>8, <1>a, <3>0, <3>1 DEF FinalizeDeliverySuccess, MarkOrderDeliveredGuarded, MarkDeliveryCompleted,
            HoldsSend, Unlock, Entitled, TypeOK
  <2>9. CASE SuccessAlreadyCompleted(w)
    <3>1. d = c
      BY <2>9, HoldersChange, SMTT(30) DEF SuccessAlreadyCompleted, NextJob, Holds, TypeOK
    <3> QED BY <2>9, <1>a, <3>1 DEF SuccessAlreadyCompleted, jobVars, Entitled
  <2>10. CASE FinalizeSuccessFails(w)
    <3>1. d = c
      BY <2>10, HoldersChange DEF FinalizeSuccessFails, Holds, TypeOK
    <3> QED BY <2>10, <1>a, <3>1 DEF FinalizeSuccessFails, jobVars, Entitled
  <2>11. CASE PreserveAmbiguousSuccess(w)
    <3>0. wjob[w] \in Orders
      BY <2>11, JobTyped DEF PreserveAmbiguousSuccess
    <3>1. d = c
      BY <2>11, HoldersChange DEF PreserveAmbiguousSuccess, MarkDeliveryAmbiguous, EndRun, Holds, TypeOK
    <3> QED BY <2>11, <1>a, <3>0, <3>1 DEF PreserveAmbiguousSuccess, MarkDeliveryAmbiguous, Unlock, Entitled, TypeOK
  <2>12. CASE AbortRun(w)
    <3>1. d <= c
      BY <1>a, <2>12, HoldersChange DEF AbortRun, EndRun, Holds, TypeOK
    <3> QED BY <2>12, <1>a, <3>1 DEF AbortRun, jobVars, Entitled
  <2> QED BY <1>3, <2>1, <2>2, <2>3, <2>4, <2>5, <2>6, <2>7, <2>8, <2>9, <2>10, <2>11, <2>12
          DEF WorkerStep
<1>4. ASSUME NEW a \in Admins, OperatorStep(a)
      PROVE  (sends[o] + Cardinality(Holders(o)) + Entitled(o) <= 1 + retries[o])'
  <2>0. d = c
    BY <1>4, HoldersSame DEF OperatorStep, OpenReview, CloseReview, RetryDelivery, ManualRetryDeliveryJob,
            CompleteDelivery, MarkOrderDeliveredGuarded, ManualCompleteDeliveryJob,
            workerVars
  <2>1. CASE \E k \in {"retry", "complete"}, p \in Orders : OpenReview(a, k, p)
    BY <1>a, <2>0, <2>1 DEF OpenReview, jobVars, Entitled
  <2>2. CASE CloseReview(a)
    BY <1>a, <2>0, <2>2 DEF CloseReview, jobVars, Entitled
  <2>3. CASE \E p \in Orders : RetryDelivery(a, p)
    BY <1>a, <2>0, <2>3 DEF RetryDelivery, ManualRetryDeliveryJob, Entitled, TypeOK
  <2>4. CASE \E p \in Orders : CompleteDelivery(a, p)
    BY <1>a, <2>0, <2>4 DEF CompleteDelivery, MarkOrderDeliveredGuarded, ManualCompleteDeliveryJob, Entitled, TypeOK
  <2> QED BY <1>4, <2>1, <2>2, <2>3, <2>4 DEF OperatorStep
<1>5. CASE UNCHANGED vars
  <2>1. d = c
    BY <1>5, HoldersSame DEF vars
  <2> QED BY <1>5, <1>a, <2>1 DEF vars, Entitled
<1> QED BY <1>1, <1>2, <1>3, <1>4, <1>5 DEF Next

\* The messages sent and the rights to send still around never exceed the
\* authorisations: one for the payment, one for every committed manual retry.
THEOREM TokensAlways == Spec => []SendTokens
<1>1. TypeOK /\ SendTokens /\ [Next]_vars => SendTokens'
  BY NextTokens
<1> QED BY InitTokens, TypeCorrect, <1>1, PTL DEF Spec

\* The messages sent are at most the tokens ever created.
LEMMA TokensBoundSends == TypeOK /\ SendTokens => NoUnauthorisedResend
<1> SUFFICES ASSUME TypeOK, SendTokens, NEW o \in Orders PROVE sends[o] <= 1 + retries[o]
  BY DEF NoUnauthorisedResend
<1>1. Cardinality(Holders(o)) \in Nat
  BY HoldersFinite
<1>2. sends[o] + Cardinality(Holders(o)) + Entitled(o) <= 1 + retries[o]
  BY DEF SendTokens
<1> QED BY <1>1, <1>2 DEF TypeOK, Entitled

\* The customer never gets the credentials more often than authorised: once for
\* the payment and once for every manual retry, whatever crashes, stale leases,
\* lost answers and late workers do, for any number of workers and operators.
THEOREM NoResendWithoutAuthority == Spec => []NoUnauthorisedResend
  BY TypeCorrect, TokensAlways, TokensBoundSends, PTL

-----------------------------------------------------------------------------
(* Evidence.  A worker that holds a confirmed send has really sent.          *)

SuccessIsSent ==
    \A w \in Workers : wpc[w] = "answered" /\ wresult[w] = "success" => sends[wjob[w]] >= 1

EvidenceInv == CoreInv /\ SuccessIsSent /\ DeliveredHasEvidence

\* No order is delivered at the start.
LEMMA InitEvidence == Init => EvidenceInv
  BY InitCore DEF Init, EvidenceInv, SuccessIsSent, DeliveredHasEvidence

\* Every step that marks an order delivered has a message or an operator behind it.
LEMMA NextEvidence == ASSUME EvidenceInv, [Next]_vars PROVE EvidenceInv'
<1>0. CoreInv /\ CoreInv' /\ TypeOK /\ TypeOK'
  BY NextCore, NextTyped DEF EvidenceInv, CoreInv
<1> USE DEF SuccessIsSent, DeliveredHasEvidence
<1>1. CASE \E S \in SUBSET Orders : CreateDeliveryHandoff(S)
  BY <1>0, <1>1 DEF EvidenceInv, TypeOK, CreateDeliveryHandoff, ListDeliveryBackfillOrderIDs,
            InsertDeliveryJob, MarkOrderDeliveringGuarded, workerVars
<1>2. CASE \E S \in SUBSET Orders : RecoverStaleDeliveryJobs(S)
  BY <1>0, <1>2 DEF EvidenceInv, TypeOK, RecoverStaleDeliveryJobs, LockStaleDeliveryJobs,
            MarkStaleDelivery, workerVars
<1>3. ASSUME NEW w \in Workers, WorkerStep(w) PROVE EvidenceInv'
  <2>1. CASE \E S \in SUBSET Orders : ClaimDeliveryJobs(w, S)
    BY <1>0, <2>1 DEF EvidenceInv, TypeOK, ClaimDeliveryJobs
  <2>2. CASE \E o \in Orders : LoadClaimedDelivery(w, o)
    <3> PICK o \in Orders : LoadClaimedDelivery(w, o)
      BY <2>2
    <3>1. /\ UNCHANGED <<jobVars, sends>>
          /\ \A v \in Workers \ {w} : wpc'[v] = wpc[v] /\ wjob'[v] = wjob[v] /\ wresult'[v] = wresult[v]
      BY <1>0 DEF LoadClaimedDelivery, TypeOK
    <3>2. wpc'[w] \in {"loaded", "failing"}
      BY <1>0 DEF LoadClaimedDelivery, TypeOK
    <3> QED BY <1>0, <3>1, <3>2 DEF EvidenceInv, jobVars
  <2>3. CASE PrepareFails(w)
    BY <1>0, <2>3 DEF EvidenceInv, TypeOK, PrepareFails, jobVars
  <2>4. CASE FinalizeClaimedDeliveryFailure(w)
    BY <1>0, <2>4, JobTyped DEF EvidenceInv, TypeOK, FinalizeClaimedDeliveryFailure,
            MarkClaimedDeliveryFailure, MarkOrderDeliveryFailedGuarded, NextJob
  <2>5. CASE BeginDeliveryAttempt(w)
    BY <1>0, <2>5 DEF EvidenceInv, TypeOK, BeginDeliveryAttempt, BeginDeliverySend
  <2>6. CASE SendDelivery(w)
    <3>0. wjob[w] \in Orders
      BY <1>0, <2>6, JobTyped DEF SendDelivery
    <3>1. PICK r \in SendOutcomes :
              /\ wresult' = [wresult EXCEPT ![w] = r[1]]
              /\ sends' = [sends EXCEPT ![wjob[w]] = IF r[2] = "reached" THEN @ + 1 ELSE @]
      BY <2>6 DEF SendDelivery
    <3>2. r[1] = "success" => r[2] = "reached"
      BY DEF SendOutcomes
    <3>3. \A o \in Orders : sends'[o] >= sends[o]
      BY <1>0, <3>0, <3>1 DEF TypeOK
    <3>4. wresult'[w] = "success" => sends'[wjob[w]] >= 1
      BY <1>0, <3>0, <3>1, <3>2 DEF TypeOK
    <3>5. DeliveredHasEvidence'
      BY <1>0, <2>6, <3>3 DEF EvidenceInv, TypeOK, SendDelivery, jobVars
    <3>6. ASSUME NEW v \in Workers, wpc'[v] = "answered", wresult'[v] = "success"
          PROVE  sends'[wjob'[v]] >= 1
      <4>1. CASE v = w
        BY <2>6, <3>4, <3>6, <4>1 DEF SendDelivery
      <4>2. CASE v # w
        <5>1. wpc[v] = "answered" /\ wresult[v] = "success" /\ wjob'[v] = wjob[v]
          BY <1>0, <2>6, <3>1, <3>6, <4>2 DEF SendDelivery, TypeOK
        <5>2. wjob[v] \in Orders /\ sends[wjob[v]] >= 1
          BY <1>0, <5>1, JobTyped DEF EvidenceInv
        <5> QED BY <1>0, <5>1, <5>2, <3>3 DEF TypeOK
      <4> QED BY <4>1, <4>2
    <3> QED BY <1>0, <3>5, <3>6 DEF EvidenceInv
  <2>7. CASE FinalizeDeliveryFailure(w)
    BY <1>0, <2>7, JobTyped DEF EvidenceInv, TypeOK, FinalizeDeliveryFailure, MarkDeliveryRetryable,
            MarkDeliveryPermanentFailed, MarkDeliveryAmbiguous,
            MarkOrderDeliveryFailedGuarded, NextJob
  <2>8. CASE FinalizeDeliverySuccess(w)
    <3>0. wjob[w] \in Orders /\ sends[wjob[w]] >= 1 /\ UNCHANGED <<sends, resolution>>
      BY <1>0, <2>8, JobTyped DEF FinalizeDeliverySuccess, MarkOrderDeliveredGuarded, MarkDeliveryCompleted, EvidenceInv
    <3>1. DeliveredHasEvidence'
      BY <1>0, <2>8, <3>0 DEF EvidenceInv, TypeOK, FinalizeDeliverySuccess, MarkOrderDeliveredGuarded,
            MarkDeliveryCompleted
    <3>2. /\ wpc'[w] # "answered"
          /\ \A v \in Workers \ {w} : wpc'[v] = wpc[v] /\ wjob'[v] = wjob[v] /\ wresult'[v] = wresult[v]
      BY <1>0, <2>8 DEF TypeOK, FinalizeDeliverySuccess, MarkOrderDeliveredGuarded,
            MarkDeliveryCompleted, NextJob
    <3> QED BY <1>0, <3>0, <3>1, <3>2 DEF EvidenceInv
  <2>9. CASE SuccessAlreadyCompleted(w)
    BY <1>0, <2>9 DEF EvidenceInv, TypeOK, SuccessAlreadyCompleted, NextJob, jobVars
  <2>10. CASE FinalizeSuccessFails(w)
    BY <1>0, <2>10 DEF EvidenceInv, TypeOK, FinalizeSuccessFails, jobVars
  <2>11. CASE PreserveAmbiguousSuccess(w)
    BY <1>0, <2>11 DEF EvidenceInv, TypeOK, PreserveAmbiguousSuccess, MarkDeliveryAmbiguous, EndRun
  <2>12. CASE AbortRun(w)
    BY <1>0, <2>12 DEF EvidenceInv, TypeOK, AbortRun, EndRun, jobVars
  <2> QED BY <1>3, <2>1, <2>2, <2>3, <2>4, <2>5, <2>6, <2>7, <2>8, <2>9, <2>10, <2>11, <2>12
          DEF WorkerStep
<1>4. ASSUME NEW a \in Admins, OperatorStep(a) PROVE EvidenceInv'
  <2>1. CASE UNCHANGED <<jobVars, workerVars, sends>>
    BY <1>0, <2>1 DEF EvidenceInv, jobVars, workerVars
  <2>2. CASE \E o \in Orders : RetryDelivery(a, o)
    BY <1>0, <2>2 DEF EvidenceInv, TypeOK, RetryDelivery, ManualRetryDeliveryJob, CoreInv,
            JobMatchesOrder, workerVars
  <2>3. CASE \E o \in Orders : CompleteDelivery(a, o)
    BY <1>0, <2>3 DEF EvidenceInv, TypeOK, CompleteDelivery, MarkOrderDeliveredGuarded,
            ManualCompleteDeliveryJob, workerVars
  <2> QED BY <1>4, <2>1, <2>2, <2>3 DEF OperatorStep, OpenReview, CloseReview
<1>5. CASE UNCHANGED vars
  BY <1>0, <1>5 DEF EvidenceInv, vars
<1> QED BY <1>1, <1>2, <1>3, <1>4, <1>5 DEF Next

\* An order is marked delivered only after a message reached the customer or an
\* operator vouched for one.
THEOREM DeliveredOnEvidence == Spec => []DeliveredHasEvidence
<1>1. EvidenceInv /\ [Next]_vars => EvidenceInv'
  BY NextEvidence
<1>2. EvidenceInv => DeliveredHasEvidence
  BY DEF EvidenceInv
<1> QED BY InitEvidence, <1>1, <1>2, PTL DEF Spec

-----------------------------------------------------------------------------
(* The reconciliation report.  The counters follow from the agreement of job,  *)
(* order and items, except the evidence counter: a confirmed attempt is logged *)
(* in the transaction that completes the job, which stays completed.           *)

SuccessLogged == \A o \in Orders : \A r \in rows[o] : r[2] = "succeeded" => status[o] = "completed"

\* Every step keeps the log of confirmed attempts with the completed jobs.
LEMMA NextLogged == ASSUME CoreInv, SuccessLogged, [Next]_vars PROVE SuccessLogged'
<1>0. TypeOK
  BY DEF CoreInv
<1> USE DEF SuccessLogged
<1>1. CASE \E S \in SUBSET Orders : CreateDeliveryHandoff(S)
  BY <1>0, <1>1 DEF TypeOK, CreateDeliveryHandoff, ListDeliveryBackfillOrderIDs, InsertDeliveryJob
<1>2. CASE \E S \in SUBSET Orders : RecoverStaleDeliveryJobs(S)
  BY <1>0, <1>2 DEF TypeOK, RecoverStaleDeliveryJobs, LockStaleDeliveryJobs, MarkStaleDelivery
<1>3. ASSUME NEW w \in Workers, WorkerStep(w) PROVE SuccessLogged'
  <2>1. CASE \E S \in SUBSET Orders : ClaimDeliveryJobs(w, S)
    BY <1>0, <2>1 DEF TypeOK, ClaimDeliveryJobs, Claimable
  <2>2. CASE UNCHANGED jobVars
    BY <2>2 DEF jobVars
  <2>4. CASE FinalizeClaimedDeliveryFailure(w)
    <3>1. wjob[w] \in Orders
      BY <1>0, <2>4, JobTyped DEF FinalizeClaimedDeliveryFailure
    <3>2. FailureStatus(wresult[w]) # "succeeded"
      BY <1>0, FailureStatusTyped DEF TypeOK
    <3> QED BY <1>0, <2>4, <3>1, <3>2 DEF TypeOK, FinalizeClaimedDeliveryFailure,
               MarkClaimedDeliveryFailure, HoldsClaim, Unlock, AddRow
  <2>5. CASE BeginDeliveryAttempt(w)
    <3>1. wjob[w] \in Orders
      BY <1>0, <2>5, JobTyped DEF BeginDeliveryAttempt
    <3> QED BY <1>0, <2>5, <3>1 DEF TypeOK, BeginDeliveryAttempt, BeginDeliverySend, HoldsClaim, AddRow
  <2>7. CASE FinalizeDeliveryFailure(w)
    <3>1. FailureStatus(ClassifyFailure(wresult[w], wattempt[w])) # "succeeded"
      BY <1>0, FailureStatusTyped, ClassifyTyped DEF TypeOK
    <3>2. status[wjob[w]] = "sending"
      BY <2>7 DEF FinalizeDeliveryFailure, HoldsSend
    <3>3. \A r \in rows[wjob[w]] : r[2] # "succeeded"
      BY <1>0, <2>7, <3>2, FailureStep
    <3>4. rows' = [rows EXCEPT ![wjob[w]] = @ \cup {<<attempts[wjob[w]],
                       FailureStatus(ClassifyFailure(wresult[w], wattempt[w]))>>}]
      BY <2>7 DEF FinalizeDeliveryFailure, AddRow
    <3> QED BY <1>0, <2>7, <3>1, <3>3, <3>4, FailureStep DEF TypeOK
  <2>8. CASE FinalizeDeliverySuccess(w)
    <3>1. wjob[w] \in Orders
      BY <1>0, <2>8, JobTyped DEF FinalizeDeliverySuccess
    <3> QED BY <1>0, <2>8, <3>1 DEF TypeOK, FinalizeDeliverySuccess, MarkDeliveryCompleted, Unlock, AddRow
  <2>11. CASE PreserveAmbiguousSuccess(w)
    <3>1. wjob[w] \in Orders
      BY <1>0, <2>11, JobTyped DEF PreserveAmbiguousSuccess
    <3> QED BY <1>0, <2>11, <3>1 DEF TypeOK, PreserveAmbiguousSuccess, MarkDeliveryAmbiguous, Unlock, AddRow
  <2> QED BY <1>3, <2>1, <2>2, <2>4, <2>5, <2>7, <2>8, <2>11
          DEF WorkerStep, LoadClaimedDelivery, PrepareFails, SendDelivery, SuccessAlreadyCompleted,
              FinalizeSuccessFails, AbortRun
<1>4. ASSUME NEW a \in Admins, OperatorStep(a) PROVE SuccessLogged'
  <2>1. CASE UNCHANGED jobVars
    BY <2>1 DEF jobVars
  <2>2. CASE \E o \in Orders : RetryDelivery(a, o)
    BY <1>0, <2>2 DEF TypeOK, RetryDelivery, ManualRetryDeliveryJob, AddRow
  <2>3. CASE \E o \in Orders : CompleteDelivery(a, o)
    BY <1>0, <2>3 DEF TypeOK, CompleteDelivery, ManualCompleteDeliveryJob, AddRow
  <2> QED BY <1>4, <2>1, <2>2, <2>3 DEF OperatorStep, OpenReview, CloseReview
<1>5. CASE UNCHANGED vars
  BY <1>5 DEF vars
<1> QED BY <1>1, <1>2, <1>3, <1>4, <1>5 DEF Next

\* The counters of lost or duplicated goods are empty in a consistent state.
LEMMA CleanReport == CoreInv /\ SuccessLogged => ReconciliationClean
  BY OwnersAreOrders
  DEF CoreInv, TypeOK, JobMatchesOrder, SoldWithDelivery, SuccessLogged, ReconciliationClean,
      CountDeliveryReconciliationAnomalies, ItemsOf

\* An operator who opens the reconciliation report at any moment sees stale
\* leases and ambiguous jobs at most.
THEOREM ReportStaysClean == Spec => []ReconciliationClean
<1>1. Init => SuccessLogged
  BY DEF Init, SuccessLogged
<1>2. CoreInv /\ SuccessLogged /\ [Next]_vars => SuccessLogged'
  BY NextLogged
<1> QED BY CoreAlways, CleanReport, <1>1, <1>2, PTL DEF Spec

-----------------------------------------------------------------------------
(* An ambiguous job is moved by an operator only.                            *)

\* A step that moves an ambiguous job is a retry or a mark_delivered of an operator.
LEMMA AmbiguousStep ==
  ASSUME CoreInv, [Next]_vars, NEW o \in Orders, status[o] = "ambiguous", status'[o] # "ambiguous"
  PROVE  \/ status'[o] = "pending" /\ retries'[o] = retries[o] + 1
         \/ status'[o] = "completed" /\ resolution'[o] = "mark_delivered"
<1>0. TypeOK
  BY DEF CoreInv
<1>1. CASE \E S \in SUBSET Orders : CreateDeliveryHandoff(S) \/ RecoverStaleDeliveryJobs(S)
  BY <1>0, <1>1 DEF TypeOK, CreateDeliveryHandoff, ListDeliveryBackfillOrderIDs, InsertDeliveryJob,
            MarkOrderDeliveringGuarded, RecoverStaleDeliveryJobs, LockStaleDeliveryJobs,
            MarkStaleDelivery
<1>2. ASSUME NEW w \in Workers, WorkerStep(w) PROVE FALSE
  <2>1. CASE \E S \in SUBSET Orders : ClaimDeliveryJobs(w, S)
    BY <1>0, <2>1 DEF TypeOK, ClaimDeliveryJobs, Claimable
  <2>2. CASE UNCHANGED jobVars
    BY <2>2 DEF jobVars
  <2>3. CASE \/ FinalizeClaimedDeliveryFailure(w) \/ BeginDeliveryAttempt(w) \/ FinalizeDeliveryFailure(w)
             \/ FinalizeDeliverySuccess(w) \/ PreserveAmbiguousSuccess(w)
    <3>1. /\ status[wjob[w]] \in {"claimed", "sending"}
          /\ \E s : status' = [status EXCEPT ![wjob[w]] = s]
      BY <2>3 DEF FinalizeClaimedDeliveryFailure, MarkClaimedDeliveryFailure,
            MarkOrderDeliveryFailedGuarded, BeginDeliveryAttempt, BeginDeliverySend,
            FinalizeDeliveryFailure, MarkDeliveryRetryable, MarkDeliveryPermanentFailed,
            MarkDeliveryAmbiguous, FinalizeDeliverySuccess, MarkOrderDeliveredGuarded,
            MarkDeliveryCompleted, PreserveAmbiguousSuccess, HoldsClaim, HoldsSend, Unlock
    <3> QED BY <1>0, <3>1 DEF TypeOK
  <2> QED BY <1>2, <2>1, <2>2, <2>3
          DEF WorkerStep, LoadClaimedDelivery, PrepareFails, SendDelivery,
            SuccessAlreadyCompleted, FinalizeSuccessFails, AbortRun
<1>3. CASE \E a \in Admins : OperatorStep(a)
  <2>1. CASE UNCHANGED jobVars
    BY <2>1 DEF jobVars
  <2>2. CASE \E a \in Admins, p \in Orders : RetryDelivery(a, p)
    BY <1>0, <2>2 DEF TypeOK, RetryDelivery, ManualRetryDeliveryJob
  <2>3. CASE \E a \in Admins, p \in Orders : CompleteDelivery(a, p)
    BY <1>0, <2>3 DEF TypeOK, CompleteDelivery, MarkOrderDeliveredGuarded, ManualCompleteDeliveryJob
  <2> QED BY <1>3, <2>1, <2>2, <2>3 DEF OperatorStep, OpenReview, CloseReview
<1>4. CASE UNCHANGED vars
  BY <1>4 DEF vars
<1> QED BY <1>1, <1>2, <1>3, <1>4 DEF Next

\* Once a message may have been delivered, only a committed manual retry or
\* mark_delivered moves the job on.
THEOREM AmbiguityIsResolvedByOperators == Spec => AmbiguousNeedsOperator
<1>1. CoreInv /\ [Next]_vars =>
        [\A o \in Orders : status[o] = "ambiguous" /\ status'[o] # "ambiguous" =>
              \/ status'[o] = "pending" /\ retries'[o] = retries[o] + 1
              \/ status'[o] = "completed" /\ resolution'[o] = "mark_delivered"]_vars
  BY AmbiguousStep
<1> QED BY CoreAlways, <1>1, PTL DEF Spec, AmbiguousNeedsOperator

-----------------------------------------------------------------------------
(* The attempt log.  That the next rows are free is not inductive: beginning   *)
(* an attempt makes the next number the current one.  LogOrdered says where    *)
(* every row may be: nothing is logged beyond the attempts counted so far but  *)
(* an operator's resolution, which takes the next number, and an attempt that  *)
(* is being sent has no outcome yet.                                           *)

InOrder(R, n, st) ==
    \A r \in R : /\ r[1] <= n \/ (r[1] = n + 1 /\ r[2] = "manual_resolution")
                 /\ st = "sending" /\ r[1] = n => r[2] \in {"started", "manual_resolution"}

LogOrdered == \A o \in Orders : InOrder(rows[o], attempts[o], status[o])

\* What the transactions do to a log: leave it, log at the current attempt and stop
\* sending, count a further attempt and log it, or log an operator's resolution.
LEMMA LogSteps ==
  ASSUME NEW R \in SUBSET (Nat \X RowStatus), NEW n \in Nat, NEW st, InOrder(R, n, st),
         NEW s \in RowStatus, NEW new, new # "sending"
  PROVE  /\ InOrder(R, n, new)
         /\ InOrder(R \cup {<<n, s>>}, n, new)
         /\ InOrder(R \cup {<<n + 1, s>>}, n + 1, new)
         /\ InOrder(R \cup {<<n + 1, "manual_resolution">>}, n, new)
         /\ InOrder(R \cup {<<n + 1, "started">>}, n + 1, "sending")
<1>1. \A r \in R : r[1] \in Nat
  OBVIOUS
<1>2. <<n, s>>[1] = n /\ <<n + 1, s>>[1] = n + 1 /\ <<n + 1, "manual_resolution">>[1] = n + 1
      /\ <<n + 1, "manual_resolution">>[2] = "manual_resolution"
      /\ <<n + 1, "started">>[1] = n + 1 /\ <<n + 1, "started">>[2] = "started"
  OBVIOUS
<1>3. InOrder(R, n, new)
  BY <1>1 DEF InOrder
<1>4. InOrder(R \cup {<<n, s>>}, n, new)
  BY <1>1, <1>2 DEF InOrder
<1>5. InOrder(R \cup {<<n + 1, s>>}, n + 1, new)
  BY <1>1, <1>2 DEF InOrder
<1>6. InOrder(R \cup {<<n + 1, "manual_resolution">>}, n, new)
  BY <1>1, <1>2 DEF InOrder
<1>7. InOrder(R \cup {<<n + 1, "started">>}, n + 1, "sending")
  BY <1>1, <1>2 DEF InOrder
<1> QED BY <1>3, <1>4, <1>5, <1>6, <1>7

\* Every step logs an outcome at the number of its attempt.
LEMMA NextOrdered == ASSUME CoreInv, LogOrdered, [Next]_vars PROVE LogOrdered'
<1>0. TypeOK
  BY DEF CoreInv
<1> SUFFICES ASSUME NEW o \in Orders PROVE InOrder(rows'[o], attempts'[o], status'[o])
  BY DEF LogOrdered, InOrder
<1>t. /\ rows[o] \in SUBSET (Nat \X RowStatus) /\ attempts[o] \in Nat
      /\ InOrder(rows[o], attempts[o], status[o])
  BY <1>0 DEF TypeOK, LogOrdered
<1> DEFINE L(s, new) ==
             /\ InOrder(rows[o], attempts[o], new)
             /\ InOrder(rows[o] \cup {<<attempts[o], s>>}, attempts[o], new)
             /\ InOrder(rows[o] \cup {<<attempts[o] + 1, s>>}, attempts[o] + 1, new)
             /\ InOrder(rows[o] \cup {<<attempts[o] + 1, "manual_resolution">>}, attempts[o], new)
             /\ InOrder(rows[o] \cup {<<attempts[o] + 1, "started">>}, attempts[o] + 1, "sending")
<1>l. ASSUME NEW s \in RowStatus, NEW new \in JobStatus \ {"sending"} PROVE L(s, new)
  BY <1>t, LogSteps
<1>s. CASE rows'[o] = rows[o] /\ attempts'[o] = attempts[o] /\ status'[o] = status[o]
  BY <1>s, <1>t
<1>1. CASE \E S \in SUBSET Orders : CreateDeliveryHandoff(S)
  <2>1. rows'[o] = rows[o] /\ attempts'[o] = attempts[o] /\ status'[o] \in {status[o], "pending"}
    BY <1>0, <1>1 DEF TypeOK, CreateDeliveryHandoff, InsertDeliveryJob
  <2> QED BY <1>t, <2>1, <1>l
<1>2. CASE \E S \in SUBSET Orders : RecoverStaleDeliveryJobs(S)
  <2>1. /\ attempts'[o] = attempts[o]
        /\ \/ rows'[o] = rows[o] /\ status'[o] \in {status[o], "retryable_failed"}
           \/ rows'[o] = rows[o] \cup {<<attempts[o], "ambiguous">>} /\ status'[o] = "ambiguous"
    BY <1>0, <1>2 DEF TypeOK, RecoverStaleDeliveryJobs, LockStaleDeliveryJobs, MarkStaleDelivery
  <2> QED BY <1>t, <2>1, <1>l
<1>3. ASSUME NEW w \in Workers, WorkerStep(w)
      PROVE  InOrder(rows'[o], attempts'[o], status'[o])
  <2>1. CASE \E S \in SUBSET Orders : ClaimDeliveryJobs(w, S)
    <3>1. rows'[o] = rows[o] /\ attempts'[o] = attempts[o] /\ status'[o] \in {status[o], "claimed"}
      BY <1>0, <2>1 DEF TypeOK, ClaimDeliveryJobs
    <3> QED BY <1>t, <3>1, <1>l
  <2>2. CASE UNCHANGED jobVars
    BY <1>s, <2>2 DEF jobVars
  <2>4. CASE FinalizeClaimedDeliveryFailure(w)
    <3> DEFINE s == FailureStatus(wresult[w])
    <3>1. s \in {"retryable_failed", "permanent_failed", "ambiguous"}
      BY <1>0, FailureStatusTyped DEF TypeOK
    <3> HIDE DEF s
    <3>2. CASE o = wjob[w]
      <4>1. rows'[o] = rows[o] \cup {<<attempts[o] + 1, s>>} /\ attempts'[o] = attempts[o] + 1 /\ status'[o] = s
        BY <1>0, <2>4, <3>2 DEF TypeOK, FinalizeClaimedDeliveryFailure, MarkClaimedDeliveryFailure,
           Unlock, AddRow, s
      <4> QED BY <1>t, <3>1, <4>1, <1>l
    <3>3. CASE o # wjob[w]
      BY <1>0, <1>s, <2>4, <3>3 DEF TypeOK, FinalizeClaimedDeliveryFailure, MarkClaimedDeliveryFailure,
         Unlock, AddRow
    <3> QED BY <3>2, <3>3
  <2>5. CASE BeginDeliveryAttempt(w)
    <3>2. CASE o = wjob[w]
      <4>1. /\ rows'[o] = rows[o] \cup {<<attempts[o] + 1, "started">>}
            /\ attempts'[o] = attempts[o] + 1 /\ status'[o] = "sending"
        BY <1>0, <2>5, <3>2 DEF TypeOK, BeginDeliveryAttempt, BeginDeliverySend, AddRow
      <4>2. L("started", "pending")
        <5> HIDE DEF L
        <5> QED BY <1>l
      <4> QED BY <4>1, <4>2
    <3>3. CASE o # wjob[w]
      BY <1>0, <1>s, <2>5, <3>3 DEF TypeOK, BeginDeliveryAttempt, BeginDeliverySend, AddRow
    <3> QED BY <3>2, <3>3
  <2>7. CASE FinalizeDeliveryFailure(w)
    <3> DEFINE s == FailureStatus(ClassifyFailure(wresult[w], wattempt[w]))
    <3>1. s \in {"retryable_failed", "permanent_failed", "ambiguous"}
      BY <1>0, FailureStatusTyped, ClassifyTyped DEF TypeOK
    <3>0. /\ status' = [status EXCEPT ![wjob[w]] = s]
          /\ rows' = [rows EXCEPT ![wjob[w]] = @ \cup {<<attempts[wjob[w]], s>>}]
          /\ UNCHANGED attempts
      BY <1>0, <2>7, FailureStep DEF FinalizeDeliveryFailure, AddRow
    <3> HIDE DEF s
    <3>2. CASE o = wjob[w]
      <4>1. rows'[o] = rows[o] \cup {<<attempts[o], s>>} /\ attempts'[o] = attempts[o] /\ status'[o] = s
        BY <1>0, <3>0, <3>2 DEF TypeOK
      <4> QED BY <1>t, <3>1, <4>1, <1>l
    <3>3. CASE o # wjob[w]
      BY <1>0, <1>s, <3>0, <3>3 DEF TypeOK
    <3> QED BY <3>2, <3>3
  <2>8. CASE FinalizeDeliverySuccess(w)
    <3>2. CASE o = wjob[w]
      <4>1. /\ rows'[o] = rows[o] \cup {<<attempts[o], "succeeded">>}
            /\ attempts'[o] = attempts[o] /\ status'[o] = "completed"
        BY <1>0, <2>8, <3>2 DEF TypeOK, FinalizeDeliverySuccess, MarkDeliveryCompleted, Unlock, AddRow
      <4> QED BY <1>t, <4>1, <1>l
    <3>3. CASE o # wjob[w]
      BY <1>0, <1>s, <2>8, <3>3 DEF TypeOK, FinalizeDeliverySuccess, MarkDeliveryCompleted, Unlock, AddRow
    <3> QED BY <3>2, <3>3
  <2>11. CASE PreserveAmbiguousSuccess(w)
    <3>2. CASE o = wjob[w]
      <4>1. /\ rows'[o] = rows[o] \cup {<<attempts[o], "ambiguous">>}
            /\ attempts'[o] = attempts[o] /\ status'[o] = "ambiguous"
        BY <1>0, <2>11, <3>2 DEF TypeOK, PreserveAmbiguousSuccess, MarkDeliveryAmbiguous, Unlock, AddRow
      <4> QED BY <1>t, <4>1, <1>l
    <3>3. CASE o # wjob[w]
      BY <1>0, <1>s, <2>11, <3>3 DEF TypeOK, PreserveAmbiguousSuccess, MarkDeliveryAmbiguous, Unlock, AddRow
    <3> QED BY <3>2, <3>3
  <2> QED BY <1>3, <2>1, <2>2, <2>4, <2>5, <2>7, <2>8, <2>11
          DEF WorkerStep, LoadClaimedDelivery, PrepareFails, SendDelivery, SuccessAlreadyCompleted,
              FinalizeSuccessFails, AbortRun
<1>4. ASSUME NEW a \in Admins, OperatorStep(a)
      PROVE  InOrder(rows'[o], attempts'[o], status'[o])
  <2>1. CASE UNCHANGED jobVars
    BY <1>s, <2>1 DEF jobVars
  <2>2. CASE \E p \in Orders : RetryDelivery(a, p) \/ CompleteDelivery(a, p)
    <3>1. /\ attempts'[o] = attempts[o]
          /\ \/ rows'[o] = rows[o] /\ status'[o] = status[o]
             \/ /\ rows'[o] = rows[o] \cup {<<attempts[o] + 1, "manual_resolution">>}
                /\ status'[o] \in {"pending", "completed"}
      BY <1>0, <2>2 DEF TypeOK, RetryDelivery, ManualRetryDeliveryJob, CompleteDelivery,
         ManualCompleteDeliveryJob, AddRow
    <3> QED BY <1>t, <1>s, <3>1, <1>l
  <2> QED BY <1>4, <2>1, <2>2 DEF OperatorStep, OpenReview, CloseReview
<1>5. CASE UNCHANGED vars
  BY <1>s, <1>5 DEF vars
<1> QED BY <1>1, <1>2, <1>3, <1>4, <1>5 DEF Next

\* The order of the log holds in every reachable state.
LEMMA OrderedAlways == Spec => []LogOrdered
<1>1. Init => LogOrdered
  BY DEF Init, LogOrdered, InOrder
<1>2. CoreInv /\ LogOrdered /\ [Next]_vars => LogOrdered'
  BY NextOrdered
<1> QED BY CoreAlways, <1>1, <1>2, PTL DEF Spec

\* Rows in that order leave the next worker or scan step its rows.
LEMMA OrderedIsFree == TypeOK /\ LogOrdered => AttemptRowsFree
<1> SUFFICES ASSUME TypeOK, LogOrdered, NEW o \in Orders
             PROVE  /\ status[o] = "sending" =>
                          \A s \in {"succeeded", "retryable_failed", "ambiguous", "permanent_failed"} :
                              RowFree(o, attempts[o], s)
                    /\ \A s \in {"started", "retryable_failed", "permanent_failed"} :
                              RowFree(o, attempts[o] + 1, s)
  BY DEF AttemptRowsFree
<1>1. attempts[o] \in Nat
  BY DEF TypeOK
<1>2. ASSUME NEW n, NEW s, <<n, s>> \in rows[o]
      PROVE  /\ n <= attempts[o] \/ (n = attempts[o] + 1 /\ s = "manual_resolution")
             /\ status[o] = "sending" /\ n = attempts[o] => s \in {"started", "manual_resolution"}
  <2>1. <<n, s>>[1] = n /\ <<n, s>>[2] = s
    OBVIOUS
  <2> QED BY <1>2, <2>1 DEF LogOrdered, InOrder
<1> QED BY <1>1, <1>2 DEF RowFree

\* The rows a worker's transaction or the stale scan is about to insert are free in
\* the unique index of the attempt log, however often a job is retried by hand.  The
\* row of a manual retry is not: RetryDelivery may find its own row of an earlier
\* retry and is then rolled back.
THEOREM WorkerRowsAreFree == Spec => []AttemptRowsFree
  BY TypeCorrect, OrderedAlways, OrderedIsFree, PTL

-----------------------------------------------------------------------------
(* Exhausted jobs.  A worker judges "the last attempt" by the number it was    *)
(* given when it began; the job counts its own.  The two agree as long as the  *)
(* worker holds the lease, and the limit of the job is never lowered.          *)

LeaseAttempt ==
    \A w \in Workers : wpc[w] \in {"begun", "answered"} /\ HoldsSend(w, wjob[w]) =>
        wattempt[w] = attempts[wjob[w]]

LimitKept == \A o \in Orders : status[o] # "none" => maxAttempts[o] >= JobMaxAttempts

\* A job that is being sent was so before, under the same lease and number, unless
\* its worker begins the attempt in this step.
LEMMA SendBegins ==
  ASSUME TypeOK, [Next]_vars, NEW o \in Orders, status'[o] = "sending"
  PROVE  \/ status[o] = "sending" /\ lockedBy'[o] = lockedBy[o] /\ attempts'[o] = attempts[o]
         \/ \E v \in Workers : BeginDeliveryAttempt(v) /\ wjob[v] = o
<1> DEFINE Same == status[o] = "sending" /\ lockedBy'[o] = lockedBy[o] /\ attempts'[o] = attempts[o]
<1>1. CASE \E S \in SUBSET Orders : CreateDeliveryHandoff(S)
  BY <1>1 DEF TypeOK, CreateDeliveryHandoff, InsertDeliveryJob
<1>2. CASE \E S \in SUBSET Orders : RecoverStaleDeliveryJobs(S)
  BY <1>2 DEF TypeOK, RecoverStaleDeliveryJobs, MarkStaleDelivery
<1>3. ASSUME NEW w \in Workers, WorkerStep(w)
      PROVE  Same \/ (BeginDeliveryAttempt(w) /\ wjob[w] = o)
  <2>1. CASE \E S \in SUBSET Orders : ClaimDeliveryJobs(w, S)
    BY <2>1 DEF TypeOK, ClaimDeliveryJobs
  <2>2. CASE UNCHANGED jobVars
    BY <2>2 DEF jobVars
  <2>4. CASE FinalizeClaimedDeliveryFailure(w)
    <3>1. FailureStatus(wresult[w]) # "sending"
      BY FailureStatusTyped DEF TypeOK
    <3> QED BY <2>4, <3>1 DEF TypeOK, FinalizeClaimedDeliveryFailure, MarkClaimedDeliveryFailure, Unlock
  <2>5. CASE BeginDeliveryAttempt(w)
    <3>1. CASE wjob[w] # o
      BY <2>5, <3>1 DEF TypeOK, BeginDeliveryAttempt, BeginDeliverySend
    <3> QED BY <2>5, <3>1
  <2>7. CASE FinalizeDeliveryFailure(w)
    <3>1. FailureStatus(ClassifyFailure(wresult[w], wattempt[w])) # "sending"
      BY FailureStatusTyped, ClassifyTyped DEF TypeOK
    <3>2. UNCHANGED attempts
      BY <2>7 DEF FinalizeDeliveryFailure
    <3> QED BY <2>7, <3>1, <3>2, FailureStep DEF TypeOK
  <2>8. CASE FinalizeDeliverySuccess(w)
    BY <2>8 DEF TypeOK, FinalizeDeliverySuccess, MarkDeliveryCompleted, Unlock
  <2>11. CASE PreserveAmbiguousSuccess(w)
    BY <2>11 DEF TypeOK, PreserveAmbiguousSuccess, MarkDeliveryAmbiguous, Unlock
  <2> QED BY <1>3, <2>1, <2>2, <2>4, <2>5, <2>7, <2>8, <2>11
          DEF WorkerStep, LoadClaimedDelivery, PrepareFails, SendDelivery, SuccessAlreadyCompleted,
              FinalizeSuccessFails, AbortRun
<1>4. ASSUME NEW a \in Admins, OperatorStep(a) PROVE Same
  <2>1. CASE UNCHANGED jobVars
    BY <2>1 DEF jobVars
  <2>2. CASE \E p \in Orders : RetryDelivery(a, p)
    BY <2>2 DEF TypeOK, RetryDelivery, ManualRetryDeliveryJob
  <2>3. CASE \E p \in Orders : CompleteDelivery(a, p)
    BY <2>3 DEF TypeOK, CompleteDelivery, ManualCompleteDeliveryJob
  <2> QED BY <1>4, <2>1, <2>2, <2>3 DEF OperatorStep, OpenReview, CloseReview
<1>5. CASE UNCHANGED vars
  BY <1>5 DEF vars
<1> QED BY <1>1, <1>2, <1>3, <1>4, <1>5 DEF Next

\* A worker with an open attempt had it before, unless it begins it in this step.
LEMMA AttemptBegins ==
  ASSUME TypeOK, [Next]_vars, NEW w \in Workers, wpc'[w] \in {"begun", "answered"}
  PROVE  \/ BeginDeliveryAttempt(w)
         \/ wpc[w] \in {"begun", "answered"} /\ wjob'[w] = wjob[w] /\ wattempt'[w] = wattempt[w]
<1> DEFINE Same == wpc[w] \in {"begun", "answered"} /\ wjob'[w] = wjob[w] /\ wattempt'[w] = wattempt[w]
<1>1. CASE UNCHANGED workerVars
  BY <1>1 DEF workerVars
<1>2. ASSUME NEW v \in Workers, v # w, WorkerStep(v) PROVE Same
  <2>1. wpc'[w] = wpc[w] /\ wjob'[w] = wjob[w] /\ wattempt'[w] = wattempt[w]
    BY <1>2 DEF TypeOK, WorkerStep, ClaimDeliveryJobs, LoadClaimedDelivery, PrepareFails,
       FinalizeClaimedDeliveryFailure, BeginDeliveryAttempt, SendDelivery, FinalizeDeliveryFailure,
       FinalizeDeliverySuccess, SuccessAlreadyCompleted, FinalizeSuccessFails,
       PreserveAmbiguousSuccess, AbortRun, NextJob, EndRun
  <2> QED BY <2>1
<1>3. CASE WorkerStep(w)
  <2>1. CASE SendDelivery(w)
    BY <2>1 DEF TypeOK, SendDelivery
  <2>2. CASE BeginDeliveryAttempt(w)
    BY <2>2
  <2>3. CASE (\E S \in SUBSET Orders : ClaimDeliveryJobs(w, S)) \/ (\E o \in Orders : LoadClaimedDelivery(w, o))
    BY <2>3 DEF TypeOK, ClaimDeliveryJobs, LoadClaimedDelivery
  <2>4. CASE PrepareFails(w) \/ FinalizeSuccessFails(w)
    BY <2>4 DEF TypeOK, PrepareFails, FinalizeSuccessFails
  <2>5. CASE NextJob(w) \/ EndRun(w)
    BY <2>5 DEF TypeOK, NextJob, EndRun
  <2>6. CASE FinalizeDeliverySuccess(w)
    BY <2>5, <2>6 DEF TypeOK, FinalizeDeliverySuccess
  <2> QED BY <1>3, <2>1, <2>2, <2>3, <2>4, <2>5, <2>6
          DEF WorkerStep, FinalizeClaimedDeliveryFailure, FinalizeDeliveryFailure,
              SuccessAlreadyCompleted, PreserveAmbiguousSuccess, AbortRun
<1>4. CASE UNCHANGED vars
  BY <1>1, <1>4 DEF vars, workerVars
<1>5. CASE \E S \in SUBSET Orders : CreateDeliveryHandoff(S) \/ RecoverStaleDeliveryJobs(S)
  BY <1>1, <1>5 DEF CreateDeliveryHandoff, RecoverStaleDeliveryJobs
<1>6. CASE \E a \in Admins : OperatorStep(a)
  BY <1>1, <1>6 DEF OperatorStep, OpenReview, CloseReview, RetryDelivery, CompleteDelivery
<1> QED BY <1>2, <1>3, <1>4, <1>5, <1>6 DEF Next

\* No step makes a worker with a lease count differently from its job.
LEMMA NextLease == ASSUME TypeOK, LeaseAttempt, [Next]_vars PROVE LeaseAttempt'
<1>0. TypeOK'
  BY NextTyped
<1> SUFFICES ASSUME NEW w \in Workers, wpc'[w] \in {"begun", "answered"},
                    status'[wjob'[w]] = "sending", lockedBy'[wjob'[w]] = w
             PROVE  wattempt'[w] = attempts'[wjob'[w]]
  BY DEF LeaseAttempt, HoldsSend
<1>1. CASE BeginDeliveryAttempt(w)
  <2>1. wjob[w] \in Orders
    BY <1>1, JobTyped DEF BeginDeliveryAttempt
  <2> QED BY <1>1, <2>1 DEF TypeOK, BeginDeliveryAttempt, BeginDeliverySend
<1>2. CASE wpc[w] \in {"begun", "answered"} /\ wjob'[w] = wjob[w] /\ wattempt'[w] = wattempt[w]
  <2> DEFINE o == wjob[w]
  <2>1. o \in Orders
    BY <1>2, JobTyped
  <2>2. CASE status[o] = "sending" /\ lockedBy'[o] = lockedBy[o] /\ attempts'[o] = attempts[o]
    BY <1>2, <2>2 DEF LeaseAttempt, HoldsSend
  <2>3. ASSUME NEW v \in Workers, BeginDeliveryAttempt(v), wjob[v] = o PROVE FALSE
    <3>1. lockedBy'[o] = v /\ wpc[v] = "loaded"
      BY <2>3 DEF BeginDeliveryAttempt, BeginDeliverySend, HoldsClaim
    <3> QED BY <1>2, <3>1
  <2> QED BY <1>2, <2>1, <2>2, <2>3, SendBegins
<1> QED BY <1>1, <1>2, AttemptBegins

\* The limit of a job is written when it is created and only ever raised.
LEMMA NextLimit == ASSUME TypeOK, LimitKept, [Next]_vars PROVE LimitKept'
<1> USE AttemptLimits
<1>1. CASE \E S \in SUBSET Orders : CreateDeliveryHandoff(S)
  BY <1>1 DEF LimitKept, TypeOK, CreateDeliveryHandoff, InsertDeliveryJob
<1>2. CASE \E S \in SUBSET Orders : RecoverStaleDeliveryJobs(S)
  BY <1>2 DEF LimitKept, TypeOK, RecoverStaleDeliveryJobs, LockStaleDeliveryJobs, MarkStaleDelivery
<1>3. ASSUME NEW w \in Workers, WorkerStep(w) PROVE LimitKept'
  <2>1. CASE \E S \in SUBSET Orders : ClaimDeliveryJobs(w, S)
    BY <2>1 DEF LimitKept, TypeOK, ClaimDeliveryJobs, Claimable
  <2>2. CASE UNCHANGED jobVars
    BY <2>2 DEF LimitKept, jobVars
  <2>3. CASE \/ FinalizeClaimedDeliveryFailure(w) \/ BeginDeliveryAttempt(w) \/ FinalizeDeliveryFailure(w)
             \/ FinalizeDeliverySuccess(w) \/ PreserveAmbiguousSuccess(w)
    <3>1. /\ status[wjob[w]] \in {"claimed", "sending"} /\ UNCHANGED maxAttempts
          /\ \E s : status' = [status EXCEPT ![wjob[w]] = s]
      BY <2>3 DEF FinalizeClaimedDeliveryFailure, MarkClaimedDeliveryFailure,
            BeginDeliveryAttempt, BeginDeliverySend, FinalizeDeliveryFailure, MarkDeliveryRetryable,
            MarkDeliveryPermanentFailed, MarkDeliveryAmbiguous, FinalizeDeliverySuccess,
            MarkDeliveryCompleted, PreserveAmbiguousSuccess, HoldsClaim, HoldsSend, Unlock
    <3> QED BY <3>1 DEF LimitKept, TypeOK
  <2> QED BY <1>3, <2>1, <2>2, <2>3
          DEF WorkerStep, LoadClaimedDelivery, PrepareFails, SendDelivery, SuccessAlreadyCompleted,
              FinalizeSuccessFails, AbortRun
<1>4. ASSUME NEW a \in Admins, OperatorStep(a) PROVE LimitKept'
  <2>1. CASE UNCHANGED jobVars
    BY <2>1 DEF LimitKept, jobVars
  <2>2. CASE \E p \in Orders : RetryDelivery(a, p)
    BY <2>2 DEF LimitKept, TypeOK, RetryDelivery, ManualRetryDeliveryJob
  <2>3. CASE \E p \in Orders : CompleteDelivery(a, p)
    BY <2>3 DEF LimitKept, TypeOK, CompleteDelivery, ManualCompleteDeliveryJob
  <2> QED BY <1>4, <2>1, <2>2, <2>3 DEF OperatorStep, OpenReview, CloseReview
<1>5. CASE UNCHANGED vars
  BY <1>5 DEF LimitKept, vars
<1> QED BY <1>1, <1>2, <1>3, <1>4, <1>5 DEF Next

ExhaustInv == CoreInv /\ LogOrdered /\ LeaseAttempt /\ LimitKept /\ ExhaustedJobFails

\* A step leaves a job retryable after a send only if an attempt is left.
LEMMA NextExhausted == ASSUME ExhaustInv, [Next]_vars PROVE ExhaustedJobFails'
<1>0. TypeOK /\ LeaseConsistent
  BY DEF ExhaustInv, CoreInv
<1> SUFFICES ASSUME JobMaxAttempts = PolicyMaxAttempts, NEW o \in Orders,
                    status'[o] = "retryable_failed", <<attempts'[o], "started">> \in rows'[o]
             PROVE  attempts'[o] < maxAttempts'[o]
  BY DEF ExhaustedJobFails
<1>t. attempts[o] \in Nat /\ maxAttempts[o] \in Nat /\ wattempt \in [Workers -> Nat]
  BY <1>0 DEF TypeOK
<1>s. CASE status'[o] = status[o] /\ rows'[o] = rows[o] /\ attempts'[o] = attempts[o] /\ maxAttempts'[o] = maxAttempts[o]
  BY <1>s DEF ExhaustInv, ExhaustedJobFails
<1>1. CASE \E S \in SUBSET Orders : CreateDeliveryHandoff(S)
  <2>1. status'[o] = status[o] /\ rows'[o] = rows[o] /\ attempts'[o] = attempts[o] /\ maxAttempts'[o] = maxAttempts[o]
    BY <1>0, <1>1 DEF TypeOK, CreateDeliveryHandoff, InsertDeliveryJob
  <2> QED BY <1>s, <2>1
<1>2. CASE \E S \in SUBSET Orders : RecoverStaleDeliveryJobs(S)
  <2>1. /\ attempts'[o] = attempts[o] /\ maxAttempts'[o] = maxAttempts[o]
        /\ \/ rows'[o] = rows[o] /\ status'[o] = status[o]
           \/ status[o] = "claimed"
    BY <1>0, <1>2 DEF TypeOK, RecoverStaleDeliveryJobs, LockStaleDeliveryJobs, MarkStaleDelivery
  <2> QED BY <1>0, <1>s, <2>1 DEF LeaseConsistent
<1>3. ASSUME NEW w \in Workers, WorkerStep(w) PROVE attempts'[o] < maxAttempts'[o]
  <2>1. CASE \E S \in SUBSET Orders : ClaimDeliveryJobs(w, S)
    BY <1>0, <1>s, <2>1 DEF TypeOK, ClaimDeliveryJobs
  <2>2. CASE UNCHANGED jobVars
    BY <1>s, <2>2 DEF jobVars
  <2>4. CASE FinalizeClaimedDeliveryFailure(w)
    <3>1. CASE o # wjob[w]
      BY <1>0, <1>s, <2>4, <3>1 DEF TypeOK, FinalizeClaimedDeliveryFailure, MarkClaimedDeliveryFailure,
         Unlock, AddRow
    <3>2. CASE o = wjob[w]
      <4>1. FailureStatus(wresult[w]) # "started"
        BY <1>0, FailureStatusTyped DEF TypeOK
      <4>2. /\ rows'[o] = rows[o] \cup {<<attempts[o] + 1, FailureStatus(wresult[w])>>}
            /\ attempts'[o] = attempts[o] + 1
        BY <1>0, <2>4, <3>2 DEF TypeOK, FinalizeClaimedDeliveryFailure, MarkClaimedDeliveryFailure,
           Unlock, AddRow
      <4>3. <<attempts[o] + 1, "started">> \in rows[o]
        BY <4>1, <4>2
      <4>4. InOrder(rows[o], attempts[o], status[o])
        BY DEF ExhaustInv, LogOrdered
      <4>5. <<attempts[o] + 1, "started">>[1] = attempts[o] + 1 /\ <<attempts[o] + 1, "started">>[2] = "started"
        OBVIOUS
      <4> QED BY <1>t, <4>3, <4>4, <4>5 DEF InOrder
    <3> QED BY <3>1, <3>2
  <2>5. CASE BeginDeliveryAttempt(w)
    BY <1>0, <1>s, <2>5 DEF TypeOK, BeginDeliveryAttempt, BeginDeliverySend, AddRow
  <2>7. CASE FinalizeDeliveryFailure(w)
    <3> DEFINE class == ClassifyFailure(wresult[w], wattempt[w])
    <3>0. /\ status' = [status EXCEPT ![wjob[w]] = FailureStatus(class)]
          /\ rows' = [rows EXCEPT ![wjob[w]] = @ \cup {<<attempts[wjob[w]], FailureStatus(class)>>}]
          /\ UNCHANGED <<attempts, maxAttempts>>
      BY <1>0, <2>7, FailureStep DEF FinalizeDeliveryFailure, AddRow
    <3>1. CASE o # wjob[w]
      BY <1>0, <1>s, <3>0, <3>1 DEF TypeOK
    <3>2. CASE o = wjob[w]
      <4>1. class = "retryable"
        BY <1>0, <3>0, <3>2 DEF TypeOK, FailureStatus
      <4>2. wattempt[w] < PolicyMaxAttempts
        BY <1>t, <4>1, AttemptLimits DEF ClassifyFailure
      <4>3. wattempt[w] = attempts[o]
        BY <2>7, <3>2 DEF ExhaustInv, LeaseAttempt, FinalizeDeliveryFailure
      <4>4. maxAttempts[o] >= JobMaxAttempts
        BY <2>7, <3>2 DEF ExhaustInv, LimitKept, FinalizeDeliveryFailure, HoldsSend
      <4> QED BY <1>t, <3>0, <4>2, <4>3, <4>4, AttemptLimits
    <3> QED BY <3>1, <3>2
  <2>8. CASE FinalizeDeliverySuccess(w)
    BY <1>0, <1>s, <2>8 DEF TypeOK, FinalizeDeliverySuccess, MarkDeliveryCompleted, Unlock, AddRow
  <2>11. CASE PreserveAmbiguousSuccess(w)
    BY <1>0, <1>s, <2>11 DEF TypeOK, PreserveAmbiguousSuccess, MarkDeliveryAmbiguous, Unlock, AddRow
  <2> QED BY <1>3, <2>1, <2>2, <2>4, <2>5, <2>7, <2>8, <2>11
          DEF WorkerStep, LoadClaimedDelivery, PrepareFails, SendDelivery, SuccessAlreadyCompleted,
              FinalizeSuccessFails, AbortRun
<1>4. ASSUME NEW a \in Admins, OperatorStep(a) PROVE attempts'[o] < maxAttempts'[o]
  <2>1. CASE UNCHANGED jobVars
    BY <1>s, <2>1 DEF jobVars
  <2>2. CASE \E p \in Orders : RetryDelivery(a, p)
    BY <1>0, <1>s, <2>2 DEF TypeOK, RetryDelivery, ManualRetryDeliveryJob, AddRow
  <2>3. CASE \E p \in Orders : CompleteDelivery(a, p)
    BY <1>0, <1>s, <2>3 DEF TypeOK, CompleteDelivery, ManualCompleteDeliveryJob, AddRow
  <2> QED BY <1>4, <2>1, <2>2, <2>3 DEF OperatorStep, OpenReview, CloseReview
<1>5. CASE UNCHANGED vars
  BY <1>s, <1>5 DEF vars
<1> QED BY <1>1, <1>2, <1>3, <1>4, <1>5 DEF Next

\* Where the worker's policy and the job have one limit, a job is never left retryable
\* by a send that used its last attempt, where no claim would reach it again: not by a
\* late worker, a stale lease or a limit raised by manual retries.
THEOREM ExhaustedJobsFail == Spec => []ExhaustedJobFails
<1>1. Init => ExhaustInv
  BY InitCore DEF Init, ExhaustInv, LogOrdered, InOrder, LeaseAttempt, LimitKept, ExhaustedJobFails
<1>2. ExhaustInv /\ [Next]_vars => ExhaustInv'
  <2> SUFFICES ASSUME ExhaustInv, [Next]_vars PROVE ExhaustInv'
    OBVIOUS
  <2>1. CoreInv /\ TypeOK /\ LogOrdered /\ LeaseAttempt /\ LimitKept
    BY DEF ExhaustInv, CoreInv
  <2> QED BY <2>1, NextCore, NextOrdered, NextLease, NextLimit, NextExhausted DEF ExhaustInv
<1>3. ExhaustInv => ExhaustedJobFails
  BY DEF ExhaustInv
<1> QED BY <1>1, <1>2, <1>3, PTL DEF Spec
=============================================================================
