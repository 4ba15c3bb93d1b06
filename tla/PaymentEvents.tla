---------------------------- MODULE PaymentEvents ----------------------------
(***************************************************************************)
(* The durable queue of provider payment events: ingestion from webhooks   *)
(* and the provider API, claims by payment workers, the routing of an      *)
(* event through the mapping of its destination account, the decision on   *)
(* each event, retries with a limit, and the review cases of events.       *)
(*                                                                         *)
(* A claimed event carries no owner: a worker that overran the stale       *)
(* timeout and the worker that reclaimed its event both go on.  What the   *)
(* acceptance of an event does to orders and wallets is module Settlement; *)
(* here it is the choice between a settlement, a review and an error.      *)
(***************************************************************************)
EXTENDS Naturals, FiniteSets

CONSTANTS Events, Workers, NoEvent,
          Outbound,       \* events whose transfer direction is outbound
          Destination,    \* the destination account identity of an event, or NoIdentity
          Identities, NoIdentity,
          Banks, NoBank,
          TargetBank,     \* the bank account of the order or top-up an event pays
          MaxAttempts,    \* max_attempts, stored with the event at ingestion
          BatchSize,
          ConflictBound   \* bound on the conflicting notifications per event

ASSUME PaymentEventsAssumption ==
  /\ Outbound \subseteq Events
  /\ NoEvent \notin Events
  /\ NoIdentity \notin Identities /\ NoBank \notin Banks
  /\ Destination \in [Events -> Identities \cup {NoIdentity}]
  /\ TargetBank \in [Events -> Banks]
  /\ MaxAttempts \in Nat \ {0}
  /\ BatchSize \in Nat \ {0}
  /\ ConflictBound \in Nat

VARIABLES
  status,     \* payment_events.processing_status; "none" before ingestion
  attempts,
  ripe,       \* next_attempt_at (received) or the stale timeout (processing) has passed
  case,       \* the review case of the event: "none", "open" (or held) or "resolved"
  conflicts,  \* conflicting notifications so far
  settled,    \* settlements committed for the event
  bankOf,     \* payment_provider_accounts: the bank account an identity is mapped to
  active,     \* the identities whose mapping is active
  attached,   \* events with a provider_account_mapping_id
  batch,      \* claimed events a worker has still to process
  unrouted,   \* those whose mapping the worker has still to resolve
  route,      \* the bank account the worker resolved for an event, or NoBank
  failing     \* the event whose acceptance failed and is to be rescheduled

mappings == <<bankOf, active>>
queue == <<status, attempts, ripe, case, conflicts, settled>>
run == <<batch, unrouted, route, failing>>
vars == <<queue, mappings, attached, run>>

Decided == {"completed", "review", "failed"}
Status == {"none", "received", "processing"} \cup Decided

Init ==
  /\ status = [e \in Events |-> "none"]
  /\ attempts = [e \in Events |-> 0]
  /\ ripe = [e \in Events |-> FALSE]
  /\ case = [e \in Events |-> "none"]
  /\ conflicts = [e \in Events |-> 0]
  /\ settled = [e \in Events |-> 0]
  /\ bankOf = [d \in Identities |-> NoBank]
  /\ active = {}
  /\ attached = {}
  /\ batch = [w \in Workers |-> {}]
  /\ unrouted = [w \in Workers |-> {}]
  /\ route = [w \in Workers |-> [e \in Events |-> NoBank]]
  /\ failing = [w \in Workers |-> NoEvent]

\* InsertPaymentReviewCase: one case per event; on a conflict only its reason changes.
InsertPaymentReviewCase(e) ==
  case' = [case EXCEPT ![e] = IF @ = "none" THEN "open" ELSE @]

\* Undecided events only: a decided one keeps its decision.
MarkPaymentEventReviewedBeforeAcceptance(e) ==
  status' = [status EXCEPT ![e] = IF @ \in {"received", "processing"} THEN "review" ELSE @]
-----------------------------------------------------------------------------
(* Ingestion.  An exact duplicate changes nothing; changed evidence for a stored   *)
(* event or transaction is a conflict.                                             *)

InsertPaymentEvent(e) ==
  /\ status[e] = "none"
  /\ status' = [status EXCEPT ![e] = "received"]
  /\ ripe' = [ripe EXCEPT ![e] = TRUE]

Ingest(e) ==
  /\ InsertPaymentEvent(e)
  /\ UNCHANGED <<attempts, case, conflicts, settled, mappings, attached, run>>

RecordConflictReceivedOnly(e) ==
  /\ status[e] # "none" /\ conflicts[e] < ConflictBound
  /\ conflicts' = [conflicts EXCEPT ![e] = @ + 1]
  /\ InsertPaymentReviewCase(e)
  /\ status' = [status EXCEPT ![e] = IF @ = "received" THEN "review" ELSE @]
  /\ UNCHANGED <<attempts, ripe, settled, mappings, attached, run>>

RecordPaymentEventConflict(e) ==
  /\ status[e] # "none" /\ conflicts[e] < ConflictBound
  /\ conflicts' = [conflicts EXCEPT ![e] = @ + 1]
  /\ InsertPaymentReviewCase(e)
  /\ MarkPaymentEventReviewedBeforeAcceptance(e)
  /\ UNCHANGED <<attempts, ripe, settled, mappings, attached, run>>

\* The retry delay or the stale timeout of an event ends.
Ripen(e) ==
  /\ status[e] \in {"received", "processing"} /\ ~ripe[e]
  /\ ripe' = [ripe EXCEPT ![e] = TRUE]
  /\ UNCHANGED <<status, attempts, case, conflicts, settled, mappings, attached, run>>
-----------------------------------------------------------------------------
(* Administration of the mapping of destination accounts to bank accounts. *)

\* At most one active mapping per bank account (a partial unique index).
BankIsFree(b) == \A d \in active : bankOf[d] # b

CreateOrMovePaymentProviderAccount(d, b) ==
  /\ BankIsFree(b)
  /\ bankOf' = [bankOf EXCEPT ![d] = b]
  /\ active' = active \cup {d}
  /\ UNCHANGED <<queue, attached, run>>
\* An identity is mapped once: the insert of a second mapping does nothing and the
\* dialog answers with a conflict.
CreatePaymentProviderAccount(d, b) ==
  /\ bankOf[d] = NoBank /\ BankIsFree(b)
  /\ bankOf' = [bankOf EXCEPT ![d] = b]
  /\ active' = active \cup {d}
  /\ UNCHANGED <<queue, attached, run>>

\* Under the lock of the mapping, with the version the dialog has shown.
SetPaymentProviderAccountStatus(d) ==
  /\ bankOf[d] # NoBank
  /\ \/ d \in active /\ active' = active \ {d}
     \/ d \notin active /\ BankIsFree(bankOf[d]) /\ active' = active \cup {d}
  /\ UNCHANGED <<queue, bankOf, attached, run>>
-----------------------------------------------------------------------------
(* The payment event worker. *)

ClaimableReceived == {e \in Events : status[e] = "received" /\ ripe[e] /\ attempts[e] < MaxAttempts}
Claimable == {e \in Events : /\ status[e] \in {"received", "processing"} /\ ripe[e]
                             /\ attempts[e] < MaxAttempts}

ClaimPaymentEvents(w) ==
  /\ batch[w] = {}
  /\ \E S \in SUBSET Claimable :
       /\ S # {} /\ Cardinality(S) <= BatchSize
       /\ status' = [e \in Events |-> IF e \in S THEN "processing" ELSE status[e]]
       /\ attempts' = [e \in Events |-> IF e \in S THEN attempts[e] + 1 ELSE attempts[e]]
       /\ ripe' = [e \in Events |-> IF e \in S THEN FALSE ELSE ripe[e]]
       /\ batch' = [batch EXCEPT ![w] = S]
       /\ unrouted' = [unrouted EXCEPT ![w] = {e \in S : Destination[e] # NoIdentity}]
  /\ UNCHANGED <<case, conflicts, settled, mappings, attached, route, failing>>

ResolveActivePaymentProviderAccount(d) == IF d \in active THEN bankOf[d] ELSE NoBank

\* Nothing is attached to an event that was decided meanwhile, and an event that
\* carries its mapping keeps it.
AttachPaymentEventProviderAccount(e) ==
  attached' = IF status[e] = "processing" THEN attached \cup {e} ELSE attached

\* After the claim has committed, in statements of their own.
RouteEvent(w, e) ==
  LET bank == ResolveActivePaymentProviderAccount(Destination[e]) IN
  /\ e \in unrouted[w]
  /\ unrouted' = [unrouted EXCEPT ![w] = @ \ {e}]
  /\ route' = [route EXCEPT ![w] = [@ EXCEPT ![e] = bank]]
  /\ IF bank = NoBank THEN UNCHANGED attached ELSE AttachPaymentEventProviderAccount(e)
  /\ UNCHANGED <<queue, mappings, batch, failing>>

\* The worker is done with e and goes on with its batch.
Advance(w, e) ==
  /\ batch' = [batch EXCEPT ![w] = @ \ {e}]
  /\ route' = [route EXCEPT ![w] = [@ EXCEPT ![e] = NoBank]]
  /\ failing' = [failing EXCEPT ![w] = NoEvent]
  /\ UNCHANGED unrouted

\* The run returns an error: the rest of the batch stays in processing.
Abort(w) ==
  /\ batch' = [batch EXCEPT ![w] = {}]
  /\ unrouted' = [unrouted EXCEPT ![w] = {}]
  /\ route' = [route EXCEPT ![w] = [e \in Events |-> NoBank]]
  /\ failing' = [failing EXCEPT ![w] = NoEvent]

\* The destination account is named and has no active mapping.
Unmapped(w, e) == Destination[e] # NoIdentity /\ route[w][e] = NoBank

\* The event paid into the bank account of its target, as far as the worker knows.
RightBank(w, e) == Destination[e] = NoIdentity \/ route[w][e] = TargetBank[e]

CompleteIgnoredPaymentEvent(w, e) ==
  /\ e \in Outbound
  /\ \/ /\ status[e] = "processing"
        /\ status' = [status EXCEPT ![e] = "completed"]
        /\ Advance(w, e)
     \/ status[e] # "processing" /\ UNCHANGED status /\ Abort(w)
  /\ UNCHANGED <<attempts, ripe, case, conflicts, settled, mappings, attached>>

ReviewWithoutCase(w, e) ==
  /\ e \notin Outbound
  /\ status[e] \in {"received", "processing"}
  /\ status' = [status EXCEPT ![e] = "review"]
  /\ Advance(w, e)
  /\ UNCHANGED <<attempts, ripe, conflicts, settled, case, mappings, attached>>

\* No reference, several references or no mapping of the destination account.
ReviewPaymentEvent(w, e) ==
  /\ e \notin Outbound
  /\ \/ status[e] \in {"review", "completed"} /\ UNCHANGED <<status, case>> /\ Advance(w, e)
     \/ /\ status[e] \in {"received", "processing"}
        /\ InsertPaymentReviewCase(e)
        /\ MarkPaymentEventReviewedBeforeAcceptance(e)
        /\ Advance(w, e)
     \/ status[e] = "failed" /\ UNCHANGED <<status, case>> /\ Abort(w)
  /\ UNCHANGED <<attempts, ripe, conflicts, settled, mappings, attached>>

\* After the acceptance transaction: the worker goes on, or it saw an error although
\* the transaction was committed.
Answered(w, e) ==
  \/ Advance(w, e)
  \/ failing' = [failing EXCEPT ![w] = e] /\ UNCHANGED <<batch, unrouted, route>>

\* The acceptance transaction, under the lock of the event row: the event is decided
\* already, its payment funds a target, or its payment needs a review.
AcceptUnlocked(w, e) ==
  /\ e \notin Outbound
  /\ status' = [status EXCEPT ![e] = "completed"]
  /\ settled' = [settled EXCEPT ![e] = @ + 1]
  /\ UNCHANGED case /\ Answered(w, e)
  /\ UNCHANGED <<attempts, ripe, conflicts, mappings, attached>>

AcceptPayment(w, e) ==
  /\ e \notin Outbound /\ ~Unmapped(w, e)
  /\ \/ status[e] \in {"completed", "review"} /\ UNCHANGED <<status, settled, case>>
     \/ /\ status[e] = "processing" /\ RightBank(w, e)
        /\ status' = [status EXCEPT ![e] = "completed"]
        /\ settled' = [settled EXCEPT ![e] = @ + 1]
        /\ UNCHANGED case
     \/ /\ status[e] = "processing"
        /\ InsertPaymentReviewCase(e)
        /\ status' = [status EXCEPT ![e] = "review"]
        /\ UNCHANGED settled
  /\ Answered(w, e)
  /\ UNCHANGED <<attempts, ripe, conflicts, mappings, attached>>

\* The transaction is rolled back, or finds the event neither processing nor decided.
AcceptFails(w, e) ==
  /\ e \notin Outbound /\ ~Unmapped(w, e)
  /\ failing' = [failing EXCEPT ![w] = e]
  /\ UNCHANGED <<queue, mappings, attached, batch, unrouted, route>>

ScheduleRetryUnguarded(w) ==
  LET e == failing[w] IN
  /\ e # NoEvent
  /\ status' = [status EXCEPT ![e] = IF attempts[e] >= MaxAttempts THEN "failed" ELSE "received"]
  /\ ripe' = [ripe EXCEPT ![e] = FALSE]
  /\ Advance(w, e)
  /\ UNCHANGED <<attempts, case, conflicts, settled, mappings, attached>>

SchedulePaymentEventRetry(w) ==
  LET e == failing[w] IN
  /\ e # NoEvent
  /\ \/ /\ status[e] = "processing"
        /\ status' = [status EXCEPT ![e] = IF attempts[e] >= MaxAttempts THEN "failed" ELSE "received"]
        /\ ripe' = [ripe EXCEPT ![e] = FALSE]
        /\ Advance(w, e)
     \/ status[e] # "processing" /\ UNCHANGED <<status, ripe>> /\ Abort(w)
  /\ UNCHANGED <<attempts, case, conflicts, settled, mappings, attached>>

\* The process dies, the run times out, or the claim's own follow-up queries fail.
RunEnds(w) ==
  /\ batch[w] # {}
  /\ Abort(w)
  /\ UNCHANGED <<queue, mappings, attached>>

Process(w, e) ==
  /\ e \in batch[w] /\ unrouted[w] = {} /\ failing[w] = NoEvent
  /\ \/ CompleteIgnoredPaymentEvent(w, e) \/ ReviewPaymentEvent(w, e)
     \/ AcceptPayment(w, e) \/ AcceptFails(w, e)

ResolvePaymentReview(e) ==
  /\ case[e] = "open"
  /\ case' = [case EXCEPT ![e] = "resolved"]
  /\ UNCHANGED <<status, attempts, ripe, conflicts, settled, mappings, attached, run>>

Next ==
  \/ \E e \in Events : Ingest(e) \/ RecordPaymentEventConflict(e) \/ Ripen(e) \/ ResolvePaymentReview(e)
  \/ \E w \in Workers : \/ ClaimPaymentEvents(w) \/ SchedulePaymentEventRetry(w) \/ RunEnds(w)
                        \/ \E e \in batch[w] : RouteEvent(w, e) \/ Process(w, e)
  \/ \E d \in Identities : \/ SetPaymentProviderAccountStatus(d)
                           \/ \E b \in Banks : CreatePaymentProviderAccount(d, b)

Spec == Init /\ [][Next]_vars

\* Time passes, workers poll, and a run ends: by itself, by its timeout or because
\* its process died.
Fairness ==
  /\ \A e \in Events : WF_vars(Ripen(e))
  /\ \A w \in Workers :
       /\ WF_vars(ClaimPaymentEvents(w))
       /\ WF_vars(SchedulePaymentEventRetry(w))
       /\ WF_vars(\E e \in batch[w] : RouteEvent(w, e) \/ Process(w, e))

FairSpec == Spec /\ Fairness
-----------------------------------------------------------------------------
(* Properties *)

\* Every variable has the values its column may hold; the column check
\* attempts <= max_attempts is never what fails a claim.
TypeOK ==
  /\ status \in [Events -> Status]
  /\ attempts \in [Events -> 0..MaxAttempts]
  /\ ripe \in [Events -> BOOLEAN]
  /\ case \in [Events -> {"none", "open", "resolved"}]
  /\ conflicts \in [Events -> 0..ConflictBound]
  /\ settled \in [Events -> Nat]
  /\ bankOf \in [Identities -> Banks \cup {NoBank}]
  /\ active \subseteq Identities
  /\ attached \subseteq Events
  /\ batch \in [Workers -> SUBSET Events]
  /\ unrouted \in [Workers -> SUBSET Events]
  /\ route \in [Workers -> [Events -> Banks \cup {NoBank}]]
  /\ failing \in [Workers -> Events \cup {NoEvent}]

\* An event settles a target at most once, whatever workers share it, and a settled
\* event is completed; outbound transfers never settle anything.
SettledOnce ==
  \A e \in Events : /\ settled[e] <= 1
                    /\ settled[e] = 1 => status[e] = "completed"
                    /\ e \in Outbound => settled[e] = 0

\* Doubtful evidence reaches the list administrators work from
\* (ListOpenPaymentReviews): however workers, reclaims and conflicts race, an event
\* enters review only with an open case, a conflicting notification leaves an open
\* case unless an administrator has resolved the event's case before, and only a
\* resolution takes a case off the list.  The exception is the code's: a conflict
\* after the resolution just changes the reason of the resolved case
\* (sqlc/queries/payments.sql:164).
DoubtIsListed ==
  [][\A e \in Events :
       /\ status[e] # "review" /\ status'[e] = "review" => case'[e] = "open"
       /\ conflicts'[e] # conflicts[e] => case'[e] = "open" \/ case[e] = "resolved"
       /\ case[e] = "open" => case'[e] = "open" \/ ResolvePaymentReview(e)]_vars

\* Disputed evidence moves no money: once a conflicting notification was recorded,
\* a worker that claimed the event before does not settle it any more.
DisputedNeverSettles ==
  [][\A e \in Events : settled'[e] # settled[e] => conflicts[e] = 0]_vars

\* A decision is final: no late worker, retry or reclaim moves a decided event.
DecisionIsFinal ==
  [][\A e \in Events : status[e] \in Decided => status'[e] = status[e]]_vars

\* An ingested event is decided, or its attempts are used up.
EventsProgress ==
  \A e \in Events :
    status[e] = "received" ~> (status[e] \in Decided \/ attempts[e] = MaxAttempts)

\* "... attempts, exponential backoff, and a max-attempt terminal state"
\* (docs/design/payment-ingestion.md:45): every ingested event reaches a terminal
\* state.  The code does not keep this: a run that ends during the last attempt
\* leaves the event in processing, where no claim takes it again.
EventsDecided == \A e \in Events : status[e] = "received" ~> status[e] \in Decided

\* Money counts where it arrived: an event with a destination account only settles
\* a target of the bank account that destination is mapped to, and carries its
\* mapping, although administrators switch mappings between the claim, the routing
\* and the acceptance, and a reclaim routes the event again.
SettledWhereItArrived ==
  \A e \in Events :
    settled[e] > 0 /\ Destination[e] # NoIdentity =>
      bankOf[Destination[e]] = TargetBank[e] /\ e \in attached
=============================================================================
