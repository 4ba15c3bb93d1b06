------------------------- MODULE PaymentEventsProofs -------------------------
(***************************************************************************)
(* Proofs about PaymentEvents, for any number of events and workers.       *)
(*                                                                         *)
(* SettledOnce is not inductive by itself: a worker may hold an event that *)
(* another worker has decided.  What protects it is that every write of a  *)
(* status is guarded by the stored status, never by what the worker        *)
(* remembers; the induction therefore carries, with the types, that a      *)
(* disputed event is decided (DisputedIsDecided).                          *)
(*                                                                         *)
(* SettledWhereItArrived needs what a worker knows of the mapping to be    *)
(* true for as long as it may use it (RouteInv): an identity is mapped     *)
(* once, and an event that returned to the queue has been attached by the  *)
(* worker that returned it.                                                *)
(***************************************************************************)
EXTENDS PaymentEvents, TLAPS

\* A conflicting notification leaves no event undecided.
DisputedIsDecided == \A e \in Events : conflicts[e] > 0 => status[e] \in Decided

\* Nobody works on an event that has a review case, open or resolved.
CaseIsDecided == \A e \in Events : case[e] # "none" => status[e] \in Decided

\* The inductive invariant.
EventsInv == TypeOK /\ SettledOnce /\ CaseIsDecided /\ DisputedIsDecided

\* Before ingestion every event is absent, without case and without settlement.
LEMMA InitEventsInv == Init => EventsInv
BY PaymentEventsAssumption
   DEF Init, EventsInv, TypeOK, SettledOnce, CaseIsDecided, DisputedIsDecided, Status, Decided

\* Ingestion, the clock and the resolution of cases keep the invariant.
LEMMA IngestionKeepsInv ==
  ASSUME EventsInv, NEW e \in Events,
         Ingest(e) \/ RecordPaymentEventConflict(e) \/ Ripen(e) \/ ResolvePaymentReview(e)
  PROVE  EventsInv'
<1> USE PaymentEventsAssumption
        DEF EventsInv, TypeOK, SettledOnce, CaseIsDecided, DisputedIsDecided, Status, Decided
<1>1. CASE Ingest(e)
  BY <1>1 DEF Ingest, InsertPaymentEvent, mappings, run
<1>2. CASE RecordPaymentEventConflict(e)
  BY <1>2 DEF RecordPaymentEventConflict, InsertPaymentReviewCase,
              MarkPaymentEventReviewedBeforeAcceptance, mappings, run
<1>3. CASE Ripen(e)
  BY <1>3 DEF Ripen, mappings, run
<1>4. CASE ResolvePaymentReview(e)
  BY <1>4 DEF ResolvePaymentReview, mappings, run
<1> QED BY <1>1, <1>2, <1>3, <1>4

\* The administration of mappings does not touch the queue.
LEMMA MappingKeepsInv ==
  ASSUME EventsInv, NEW d \in Identities,
         \/ SetPaymentProviderAccountStatus(d)
         \/ \E b \in Banks : CreatePaymentProviderAccount(d, b)
  PROVE  EventsInv'
<1> USE DEF EventsInv, TypeOK, SettledOnce, CaseIsDecided, DisputedIsDecided
<1>1. UNCHANGED <<queue, attached, run>>
  BY DEF SetPaymentProviderAccountStatus, CreatePaymentProviderAccount
<1>2. bankOf' \in [Identities -> Banks \cup {NoBank}] /\ active' \subseteq Identities
  BY DEF SetPaymentProviderAccountStatus, CreatePaymentProviderAccount
<1> QED BY <1>1, <1>2 DEF queue, run

\* What a worker does to its own run keeps the types of the run.
LEMMA RunTypes ==
  ASSUME TypeOK, NEW w \in Workers, NEW e \in Events, Advance(w, e) \/ Abort(w)
  PROVE  /\ batch' \in [Workers -> SUBSET Events]
         /\ unrouted' \in [Workers -> SUBSET Events]
         /\ route' \in [Workers -> [Events -> Banks \cup {NoBank}]]
         /\ failing' \in [Workers -> Events \cup {NoEvent}]
<1>1. CASE Advance(w, e)
  BY <1>1 DEF TypeOK, Advance
<1>2. CASE Abort(w)
  BY <1>2 DEF TypeOK, Abort
<1> QED BY <1>1, <1>2

\* Routing an event changes the run and what the event is attached to.
LEMMA RoutingKeepsInv ==
  ASSUME EventsInv, NEW w \in Workers, NEW e \in batch[w], RouteEvent(w, e)
  PROVE  EventsInv'
<1> USE DEF EventsInv
<1>0. e \in Events
  BY DEF TypeOK
<1>1. UNCHANGED <<queue, mappings, batch, failing>>
  BY DEF RouteEvent
<1>2. unrouted' \in [Workers -> SUBSET Events] /\ attached' \subseteq Events
  BY <1>0 DEF RouteEvent, TypeOK, AttachPaymentEventProviderAccount
<1>3. route' \in [Workers -> [Events -> Banks \cup {NoBank}]]
  <2> DEFINE bank == ResolveActivePaymentProviderAccount(Destination[e])
  <2>1. bank \in Banks \cup {NoBank}
    BY DEF ResolveActivePaymentProviderAccount, TypeOK
  <2>2. route' = [route EXCEPT ![w] = [@ EXCEPT ![e] = bank]]
    BY DEF RouteEvent
  <2> QED BY <1>0, <2>1, <2>2 DEF TypeOK
<1>4. TypeOK'
  BY <1>1, <1>2, <1>3 DEF TypeOK, queue, mappings
<1>5. SettledOnce' /\ CaseIsDecided' /\ DisputedIsDecided'
  BY <1>1 DEF SettledOnce, CaseIsDecided, DisputedIsDecided, queue
<1> QED BY <1>4, <1>5

\* A claim takes undecided events with attempts left.
LEMMA ClaimKeepsInv ==
  ASSUME EventsInv, NEW w \in Workers, ClaimPaymentEvents(w)
  PROVE  EventsInv'
<1> USE PaymentEventsAssumption
        DEF EventsInv, TypeOK, SettledOnce, CaseIsDecided, DisputedIsDecided, Status, Decided
<1>1. PICK S \in SUBSET Claimable :
         /\ status' = [e \in Events |-> IF e \in S THEN "processing" ELSE status[e]]
         /\ attempts' = [e \in Events |-> IF e \in S THEN attempts[e] + 1 ELSE attempts[e]]
         /\ ripe' = [e \in Events |-> IF e \in S THEN FALSE ELSE ripe[e]]
         /\ batch' = [batch EXCEPT ![w] = S]
         /\ unrouted' = [unrouted EXCEPT ![w] = {e \in S : Destination[e] # NoIdentity}]
  BY DEF ClaimPaymentEvents
<1>2. \A e \in S : e \in Events /\ status[e] \in {"received", "processing"} /\ attempts[e] < MaxAttempts
  BY DEF Claimable
<1>3. UNCHANGED <<case, conflicts, settled, bankOf, active, attached, route, failing>>
  BY DEF ClaimPaymentEvents, mappings
<1>4. TypeOK'
  <2>1. status' \in [Events -> Status] /\ ripe' \in [Events -> BOOLEAN]
    BY <1>1
  <2>2. attempts' \in [Events -> 0..MaxAttempts]
    BY <1>1, <1>2
  <2>3. batch' \in [Workers -> SUBSET Events] /\ unrouted' \in [Workers -> SUBSET Events]
    BY <1>1, <1>2
  <2> QED BY <1>3, <2>1, <2>2, <2>3
<1>5. SettledOnce' /\ CaseIsDecided' /\ DisputedIsDecided'
  BY <1>1, <1>2, <1>3
<1> QED BY <1>4, <1>5

\* A worker's decision on an event of its batch keeps the invariant, also when
\* another worker has decided the event before.
LEMMA ProcessKeepsInv ==
  ASSUME EventsInv, NEW w \in Workers, NEW e \in batch[w], Process(w, e)
  PROVE  EventsInv'
<1> USE PaymentEventsAssumption DEF EventsInv
<1>0. e \in Events
  BY DEF TypeOK
<1>1. UNCHANGED <<attempts, ripe, conflicts, bankOf, active, attached>>
  BY DEF Process, CompleteIgnoredPaymentEvent, ReviewPaymentEvent, AcceptPayment, AcceptFails,
         queue, mappings
<1>2. /\ batch' \in [Workers -> SUBSET Events]
      /\ unrouted' \in [Workers -> SUBSET Events]
      /\ route' \in [Workers -> [Events -> Banks \cup {NoBank}]]
      /\ failing' \in [Workers -> Events \cup {NoEvent}]
  <2>1. CASE Advance(w, e) \/ Abort(w)
    BY <1>0, <2>1, RunTypes
  <2>2. CASE failing' = [failing EXCEPT ![w] = e] /\ UNCHANGED <<batch, unrouted, route>>
    BY <1>0, <2>2 DEF TypeOK
  <2> QED BY <2>1, <2>2 DEF Process, CompleteIgnoredPaymentEvent, ReviewPaymentEvent,
                            AcceptPayment, AcceptFails, Answered
<1>3. \/ UNCHANGED <<status, settled, case>>
      \/ /\ status[e] = "processing" /\ e \in Outbound
         /\ status' = [status EXCEPT ![e] = "completed"]
         /\ UNCHANGED <<settled, case>>
      \/ /\ status[e] = "processing" /\ e \notin Outbound
         /\ status' = [status EXCEPT ![e] = "completed"]
         /\ settled' = [settled EXCEPT ![e] = @ + 1]
         /\ UNCHANGED case
      \/ /\ status[e] \in {"received", "processing"}
         /\ case' = [case EXCEPT ![e] = IF @ = "none" THEN "open" ELSE @]
         /\ status' = [status EXCEPT ![e] = "review"]
         /\ UNCHANGED settled
  BY <1>0 DEF Process, CompleteIgnoredPaymentEvent, ReviewPaymentEvent, AcceptPayment, AcceptFails,
              InsertPaymentReviewCase, MarkPaymentEventReviewedBeforeAcceptance, queue, TypeOK
<1>4. status[e] = "processing" => settled[e] = 0
  <2>1. settled[e] \in Nat /\ settled[e] <= 1 /\ (settled[e] = 1 => status[e] = "completed")
    <3>1. settled[e] \in Nat
      BY <1>0 DEF TypeOK
    <3> QED BY <1>0, <3>1 DEF SettledOnce
  <2> QED BY <2>1
<1>5. TypeOK'
  <2>0. /\ status \in [Events -> Status] /\ settled \in [Events -> Nat]
        /\ case \in [Events -> {"none", "open", "resolved"}]
    BY DEF TypeOK
  <2>1. status' \in [Events -> Status]
    BY <1>0, <1>3, <2>0 DEF Status, Decided
  <2>2. case' \in [Events -> {"none", "open", "resolved"}]
    BY <1>0, <1>3, <2>0
  <2>3. settled' \in [Events -> Nat]
    BY <1>0, <1>3, <2>0
  <2> QED BY <1>1, <1>2, <2>1, <2>2, <2>3 DEF TypeOK
<1>6. SettledOnce'
  BY <1>0, <1>3, <1>4 DEF SettledOnce, TypeOK
<1>7. CaseIsDecided' /\ DisputedIsDecided'
  <2>1. \/ UNCHANGED <<status, case>>
        \/ /\ status'[e] \in Decided
           /\ \A d \in Events \ {e} : status'[d] = status[d] /\ case'[d] = case[d]
    BY <1>0, <1>3 DEF TypeOK, Decided
  <2> QED BY <1>0, <1>1, <2>1 DEF CaseIsDecided, DisputedIsDecided
<1> QED BY <1>5, <1>6, <1>7

\* Rescheduling and the end of a run keep the invariant.
LEMMA RetryKeepsInv ==
  ASSUME EventsInv, NEW w \in Workers, SchedulePaymentEventRetry(w) \/ RunEnds(w)
  PROVE  EventsInv'
<1> USE PaymentEventsAssumption
        DEF EventsInv, TypeOK, SettledOnce, CaseIsDecided, DisputedIsDecided, Status, Decided
<1>1. CASE SchedulePaymentEventRetry(w)
  <2> DEFINE e == failing[w]
  <2>0. /\ e \in Events
        /\ UNCHANGED <<attempts, case, conflicts, settled, bankOf, active, attached>>
    BY <1>1 DEF SchedulePaymentEventRetry, mappings
  <2>1. /\ batch' \in [Workers -> SUBSET Events]
        /\ unrouted' \in [Workers -> SUBSET Events]
        /\ route' \in [Workers -> [Events -> Banks \cup {NoBank}]]
        /\ failing' \in [Workers -> Events \cup {NoEvent}]
    <3>1. Advance(w, e) \/ Abort(w)
      BY <1>1 DEF SchedulePaymentEventRetry
    <3> QED BY <2>0, <3>1, RunTypes
  <2>2. \/ UNCHANGED <<status, ripe>>
        \/ /\ status[e] = "processing"
           /\ status' = [status EXCEPT ![e] = IF attempts[e] >= MaxAttempts THEN "failed" ELSE "received"]
           /\ ripe' = [ripe EXCEPT ![e] = FALSE]
    BY <1>1 DEF SchedulePaymentEventRetry
  <2> HIDE DEF e
  <2>3. TypeOK'
    <3>1. status' \in [Events -> Status]
      BY <2>0, <2>2, SMTT(30)
    <3>2. ripe' \in [Events -> BOOLEAN]
      BY <2>0, <2>2
    <3> QED BY <2>0, <2>1, <3>1, <3>2
  <2>4. SettledOnce' /\ CaseIsDecided' /\ DisputedIsDecided'
    BY <2>0, <2>2, ZenonT(40)
  <2> QED BY <2>3, <2>4
<1>2. CASE RunEnds(w)
  <2>1. UNCHANGED <<queue, mappings, attached>> /\ Abort(w)
    BY <1>2 DEF RunEnds
  <2> QED BY <2>1 DEF Abort, queue, mappings
<1> QED BY <1>1, <1>2

\* Every step of the queue, stuttering included, keeps the invariant.
LEMMA NextKeepsInv == EventsInv /\ [Next]_vars => EventsInv'
<1> SUFFICES ASSUME EventsInv, [Next]_vars PROVE EventsInv'
  OBVIOUS
<1>1. CASE UNCHANGED vars
  BY <1>1 DEF vars, queue, mappings, run, EventsInv, TypeOK, SettledOnce, CaseIsDecided,
              DisputedIsDecided
<1>2. CASE Next
  BY <1>2, IngestionKeepsInv, MappingKeepsInv, ClaimKeepsInv, RoutingKeepsInv, ProcessKeepsInv,
     RetryKeepsInv DEF Next
<1> QED BY <1>1, <1>2

\* The columns keep their values and attempts never pass max_attempts.
THEOREM TypeCorrect == Spec => []TypeOK
<1>1. EventsInv => TypeOK
  BY DEF EventsInv
<1> QED BY <1>1, InitEventsInv, NextKeepsInv, PTL DEF Spec

\* However many workers hold an event, it settles a target at most once
\* (acceptPaymentWithinTransaction under LockPaymentEvent).
THEOREM SettledOnceCorrect == Spec => []SettledOnce
<1>1. EventsInv => SettledOnce
  BY DEF EventsInv
<1> QED BY <1>1, InitEventsInv, NextKeepsInv, PTL DEF Spec

\* No step changes the status of a decided event.
LEMMA StepKeepsDecision ==
  ASSUME TypeOK, [Next]_vars, NEW d \in Events, status[d] \in Decided
  PROVE  status'[d] = status[d]
<1> USE DEF Decided
<1>0. status \in [Events -> Status] /\ \A w \in Workers : batch[w] \subseteq Events
  BY DEF TypeOK
<1>1. CASE UNCHANGED vars
  BY <1>1 DEF vars, queue
<1>2. ASSUME NEW e \in Events,
             Ingest(e) \/ RecordPaymentEventConflict(e) \/ Ripen(e) \/ ResolvePaymentReview(e)
      PROVE  status'[d] = status[d]
  BY <1>0, <1>2 DEF Ingest, InsertPaymentEvent, RecordPaymentEventConflict, Ripen,
                    ResolvePaymentReview, MarkPaymentEventReviewedBeforeAcceptance
<1>3. ASSUME NEW w \in Workers, ClaimPaymentEvents(w)
      PROVE  status'[d] = status[d]
  BY <1>0, <1>3 DEF ClaimPaymentEvents, Claimable
<1>4. ASSUME NEW w \in Workers, SchedulePaymentEventRetry(w) \/ RunEnds(w)
      PROVE  status'[d] = status[d]
  BY <1>0, <1>4 DEF SchedulePaymentEventRetry, RunEnds, queue
<1>5. ASSUME NEW w \in Workers, NEW e \in batch[w], Process(w, e)
      PROVE  status'[d] = status[d]
  BY <1>0, <1>5 DEF Process, CompleteIgnoredPaymentEvent, ReviewPaymentEvent, AcceptPayment,
                    AcceptFails, MarkPaymentEventReviewedBeforeAcceptance, queue
<1>6. ASSUME NEW w \in Workers, NEW e \in batch[w], RouteEvent(w, e)
      PROVE  status'[d] = status[d]
  BY <1>6 DEF RouteEvent, queue
<1>7. ASSUME NEW i \in Identities,
             \/ SetPaymentProviderAccountStatus(i)
             \/ \E b \in Banks : CreatePaymentProviderAccount(i, b)
      PROVE  status'[d] = status[d]
  BY <1>7 DEF SetPaymentProviderAccountStatus, CreatePaymentProviderAccount, queue
<1> QED BY <1>1, <1>2, <1>3, <1>4, <1>5, <1>6, <1>7 DEF Next

\* A completed, reviewed or failed event keeps its status for ever: the guards of
\* CompletePaymentEvent, SchedulePaymentEventRetry and ClaimPaymentEvents.
THEOREM DecisionIsFinalCorrect == Spec => DecisionIsFinal
<1>1. TypeOK /\ [Next]_vars => [\A e \in Events : status[e] \in Decided => status'[e] = status[e]]_vars
  BY StepKeepsDecision
<1> QED BY <1>1, TypeCorrect, PTL DEF Spec, DecisionIsFinal

\* Only the acceptance of an event that is still processing settles anything.
LEMMA SettledOnlyUndecided ==
  ASSUME TypeOK, Next, NEW d \in Events, settled'[d] # settled[d]
  PROVE  status[d] = "processing"
<1>0. settled \in [Events -> Nat] /\ \A w \in Workers : batch[w] \subseteq Events
  BY DEF TypeOK
<1>1. PICK w \in Workers : \E e \in batch[w] : Process(w, e)
  BY DEF Next, Ingest, RecordPaymentEventConflict, Ripen, ResolvePaymentReview, ClaimPaymentEvents,
         SchedulePaymentEventRetry, RunEnds, RouteEvent, SetPaymentProviderAccountStatus,
         CreatePaymentProviderAccount, queue
<1>2. PICK e \in batch[w] : Process(w, e)
  BY <1>1
<1>3. AcceptPayment(w, e) /\ status[e] = "processing" /\ settled' = [settled EXCEPT ![e] = @ + 1]
  BY <1>0, <1>2 DEF Process, CompleteIgnoredPaymentEvent, ReviewPaymentEvent, AcceptPayment,
                    AcceptFails, queue
<1> QED BY <1>0, <1>3

\* Money never moves on disputed evidence: RecordPaymentEventConflict takes the event
\* away from the worker that has claimed it.
THEOREM DisputedNeverSettlesCorrect == Spec => DisputedNeverSettles
<1>1. EventsInv /\ [Next]_vars => [\A e \in Events : settled'[e] # settled[e] => conflicts[e] = 0]_vars
  <2> SUFFICES ASSUME EventsInv, Next, NEW e \in Events, settled'[e] # settled[e]
               PROVE  conflicts[e] = 0
    OBVIOUS
  <2>1. status[e] = "processing"
    BY SettledOnlyUndecided DEF EventsInv
  <2>2. conflicts[e] \in Nat /\ ~(conflicts[e] > 0)
    BY <2>1, PaymentEventsAssumption DEF EventsInv, TypeOK, DisputedIsDecided, Decided
  <2> QED BY <2>2
<1> QED BY <1>1, InitEventsInv, NextKeepsInv, PTL DEF Spec, DisputedNeverSettles

\* What one step does to the case of an event.
LEMMA StepListsDoubt ==
  ASSUME EventsInv, Next, NEW d \in Events
  PROVE  /\ status[d] # "review" /\ status'[d] = "review" => case'[d] = "open"
         /\ conflicts'[d] # conflicts[d] => case'[d] = "open" \/ case[d] = "resolved"
         /\ case[d] = "open" => case'[d] = "open" \/ ResolvePaymentReview(d)
<1> DEFINE Listed == /\ status[d] # "review" /\ status'[d] = "review" => case'[d] = "open"
                     /\ conflicts'[d] # conflicts[d] => case'[d] = "open" \/ case[d] = "resolved"
                     /\ case[d] = "open" => case'[d] = "open" \/ ResolvePaymentReview(d)
<1>0. /\ status \in [Events -> Status]
      /\ case \in [Events -> {"none", "open", "resolved"}]
      /\ \A e \in Events : status[e] \in {"received", "processing"} => case[e] = "none"
      /\ \A w \in Workers : batch[w] \subseteq Events
  BY DEF EventsInv, TypeOK, CaseIsDecided, Decided
<1>1. ASSUME NEW e \in Events, RecordPaymentEventConflict(e) PROVE Listed
  BY <1>0, <1>1 DEF RecordPaymentEventConflict, InsertPaymentReviewCase,
                    MarkPaymentEventReviewedBeforeAcceptance
<1>2. ASSUME NEW e \in Events, Ingest(e) \/ Ripen(e) PROVE Listed
  BY <1>0, <1>2 DEF Ingest, InsertPaymentEvent, Ripen
<1>3. ASSUME NEW e \in Events, ResolvePaymentReview(e) PROVE Listed
  <2>1. UNCHANGED <<status, conflicts>> /\ case' = [case EXCEPT ![e] = "resolved"]
    BY <1>3 DEF ResolvePaymentReview
  <2>2. CASE e = d
    BY <1>3, <2>1, <2>2
  <2>3. CASE e # d
    BY <1>0, <2>1, <2>3
  <2> QED BY <2>2, <2>3
<1>4. ASSUME NEW w \in Workers,
             ClaimPaymentEvents(w) \/ SchedulePaymentEventRetry(w) \/ RunEnds(w)
      PROVE  Listed
  BY <1>0, <1>4 DEF ClaimPaymentEvents, SchedulePaymentEventRetry, RunEnds, queue
<1>5. ASSUME NEW w \in Workers, NEW e \in batch[w], Process(w, e) PROVE Listed
  BY <1>0, <1>5 DEF Process, CompleteIgnoredPaymentEvent, ReviewPaymentEvent, AcceptPayment,
                    AcceptFails, InsertPaymentReviewCase,
                    MarkPaymentEventReviewedBeforeAcceptance, queue
<1>6. ASSUME NEW w \in Workers, NEW e \in batch[w], RouteEvent(w, e) PROVE Listed
  BY <1>6 DEF RouteEvent, queue
<1>7. ASSUME NEW i \in Identities,
             \/ SetPaymentProviderAccountStatus(i)
             \/ \E b \in Banks : CreatePaymentProviderAccount(i, b)
      PROVE  Listed
  BY <1>7 DEF SetPaymentProviderAccountStatus, CreatePaymentProviderAccount, queue
<1> QED BY <1>1, <1>2, <1>3, <1>4, <1>5, <1>6, <1>7 DEF Next

\* Doubtful evidence reaches the administrators: an event enters review with an open
\* case, because no event that is still being worked on has an old one, and only a
\* resolution takes it off the list (RecordPaymentEventConflict, ReviewPaymentEvent).
THEOREM DoubtIsListedCorrect == Spec => DoubtIsListed
<1>1. EventsInv /\ [Next]_vars =>
        [\A e \in Events :
           /\ status[e] # "review" /\ status'[e] = "review" => case'[e] = "open"
           /\ conflicts'[e] # conflicts[e] => case'[e] = "open" \/ case[e] = "resolved"
           /\ case[e] = "open" => case'[e] = "open" \/ ResolvePaymentReview(e)]_vars
  BY StepListsDoubt
<1> QED BY <1>1, InitEventsInv, NextKeepsInv, PTL DEF Spec, DoubtIsListed
-----------------------------------------------------------------------------
(* Routing *)

\* A resolved route is the destination's mapping, and the event carries it unless
\* it was decided meanwhile.
RouteIsMapping ==
  \A w \in Workers, e \in Events :
    route[w][e] # NoBank => /\ Destination[e] # NoIdentity
                            /\ route[w][e] = bankOf[Destination[e]]
                            /\ e \in attached \/ status[e] \in Decided

\* An event some worker still holds was ingested, and is attached if it went back
\* to the queue.
HeldIsKnown ==
  \A w \in Workers, e \in Events :
    e \in batch[w] => /\ status[e] # "none"
                      /\ status[e] = "received" /\ Destination[e] # NoIdentity => e \in attached

\* The event a worker is about to reschedule was routed, with all of its batch.
FailingIsRouted ==
  \A w \in Workers :
    failing[w] # NoEvent => /\ failing[w] \in batch[w]
                            /\ unrouted[w] = {}
                            /\ ~Unmapped(w, failing[w])

RouteInv ==
  /\ RouteIsMapping /\ HeldIsKnown /\ FailingIsRouted /\ SettledWhereItArrived
  /\ \A w \in Workers : unrouted[w] \subseteq batch[w]

\* At the start nothing is routed, claimed or settled.
LEMMA InitRouteInv == Init => RouteInv
BY PaymentEventsAssumption
   DEF Init, RouteInv, RouteIsMapping, HeldIsKnown, FailingIsRouted, SettledWhereItArrived

\* Ingestion and the clock leave routes alone, and nobody holds an event before it
\* is ingested.
LEMMA IngestionKeepsRoutes ==
  ASSUME TypeOK, RouteInv, NEW e \in Events,
         Ingest(e) \/ RecordPaymentEventConflict(e) \/ Ripen(e) \/ ResolvePaymentReview(e)
  PROVE  RouteInv'
<1>0. status \in [Events -> Status]
  BY DEF TypeOK
<1>1. UNCHANGED <<mappings, attached, run, settled>>
  BY DEF Ingest, InsertPaymentEvent, RecordPaymentEventConflict, Ripen, ResolvePaymentReview
<1>2. \/ UNCHANGED status
      \/ status[e] = "none" /\ status' = [status EXCEPT ![e] = "received"]
      \/ status[e] \in {"received", "processing"} /\ status' = [status EXCEPT ![e] = "review"]
  BY <1>0 DEF Ingest, InsertPaymentEvent, RecordPaymentEventConflict, Ripen, ResolvePaymentReview,
              MarkPaymentEventReviewedBeforeAcceptance
<1>3. RouteIsMapping'
  BY <1>0, <1>1, <1>2 DEF RouteInv, RouteIsMapping, mappings, run, Decided
<1>4. HeldIsKnown'
  BY <1>0, <1>1, <1>2 DEF RouteInv, HeldIsKnown, run
<1>5. FailingIsRouted' /\ SettledWhereItArrived'
  BY <1>1 DEF RouteInv, FailingIsRouted, Unmapped, SettledWhereItArrived, mappings, run
<1> QED BY <1>1, <1>3, <1>4, <1>5 DEF RouteInv, run

\* A mapping is created once and never moved, so that no route goes stale.
LEMMA MappingKeepsRoutes ==
  ASSUME TypeOK, RouteInv, NEW d \in Identities,
         \/ SetPaymentProviderAccountStatus(d)
         \/ \E b \in Banks : CreatePaymentProviderAccount(d, b)
  PROVE  RouteInv'
<1>1. UNCHANGED <<queue, attached, run>>
  BY DEF SetPaymentProviderAccountStatus, CreatePaymentProviderAccount
<1>2. \A i \in Identities : bankOf[i] # NoBank => bankOf'[i] = bankOf[i]
  BY DEF SetPaymentProviderAccountStatus, CreatePaymentProviderAccount, TypeOK
<1>3. \A e \in Events : Destination[e] # NoIdentity => Destination[e] \in Identities
  BY PaymentEventsAssumption
<1>4. RouteIsMapping'
  BY <1>1, <1>2, <1>3 DEF RouteInv, RouteIsMapping, queue, run
<1>5. SettledWhereItArrived'
  BY <1>1, <1>2, <1>3, PaymentEventsAssumption DEF RouteInv, SettledWhereItArrived, queue
<1>6. HeldIsKnown' /\ FailingIsRouted'
  BY <1>1 DEF RouteInv, HeldIsKnown, FailingIsRouted, Unmapped, queue, run
<1> QED BY <1>1, <1>4, <1>5, <1>6 DEF RouteInv, run

\* A claim takes undecided events into processing.
LEMMA ClaimKeepsRoutes ==
  ASSUME TypeOK, RouteInv, NEW w \in Workers, ClaimPaymentEvents(w)
  PROVE  RouteInv'
<1>0. /\ status \in [Events -> Status] /\ batch \in [Workers -> SUBSET Events]
      /\ unrouted \in [Workers -> SUBSET Events]
  BY DEF TypeOK
<1>1. PICK S \in SUBSET Claimable :
         /\ status' = [e \in Events |-> IF e \in S THEN "processing" ELSE status[e]]
         /\ batch' = [batch EXCEPT ![w] = S]
         /\ unrouted' = [unrouted EXCEPT ![w] = {e \in S : Destination[e] # NoIdentity}]
  BY DEF ClaimPaymentEvents
<1>2. \A e \in S : e \in Events /\ status[e] \in {"received", "processing"}
  BY DEF Claimable
<1>3. UNCHANGED <<settled, bankOf, active, attached, route, failing>> /\ batch[w] = {}
  BY DEF ClaimPaymentEvents, mappings
<1>4. RouteIsMapping'
  BY <1>0, <1>1, <1>2, <1>3 DEF RouteInv, RouteIsMapping, Decided
<1>5. HeldIsKnown'
  BY <1>0, <1>1, <1>2, <1>3 DEF RouteInv, HeldIsKnown
<1>6. FailingIsRouted'
  BY <1>0, <1>1, <1>3 DEF RouteInv, FailingIsRouted, Unmapped
<1>7. SettledWhereItArrived'
  BY <1>3 DEF RouteInv, SettledWhereItArrived
<1>8. \A v \in Workers : unrouted'[v] \subseteq batch'[v]
  BY <1>0, <1>1 DEF RouteInv
<1> QED BY <1>4, <1>5, <1>6, <1>7, <1>8 DEF RouteInv

\* Resolving the mapping of a claimed event: the event is attached now, was attached
\* before, or is decided.
LEMMA RoutingKeepsRoutes ==
  ASSUME TypeOK, RouteInv, NEW w \in Workers, NEW e \in batch[w], RouteEvent(w, e)
  PROVE  RouteInv'
<1> DEFINE bank == ResolveActivePaymentProviderAccount(Destination[e])
<1>0. /\ status \in [Events -> Status] /\ e \in Events
      /\ route \in [Workers -> [Events -> Banks \cup {NoBank}]]
      /\ unrouted \in [Workers -> SUBSET Events] /\ batch \in [Workers -> SUBSET Events]
      /\ active \subseteq Identities
  BY DEF TypeOK
<1>1. UNCHANGED <<queue, mappings, batch, failing>>
  BY DEF RouteEvent
<1>2. route' = [route EXCEPT ![w] = [@ EXCEPT ![e] = bank]]
  BY DEF RouteEvent
<1>3. bank # NoBank => Destination[e] # NoIdentity /\ bank = bankOf[Destination[e]]
  BY <1>0, PaymentEventsAssumption DEF ResolveActivePaymentProviderAccount
<1>4. attached \subseteq attached'
  BY DEF RouteEvent, AttachPaymentEventProviderAccount
<1>5. bank # NoBank => e \in attached' \/ status[e] \in Decided
  <2>1. status[e] = "processing" /\ bank # NoBank => e \in attached'
    BY DEF RouteEvent, AttachPaymentEventProviderAccount
  <2>2. /\ status[e] # "none"
        /\ status[e] = "received" /\ Destination[e] # NoIdentity => e \in attached
    BY <1>0 DEF RouteInv, HeldIsKnown
  <2> QED BY <1>0, <1>3, <1>4, <2>1, <2>2 DEF Status, Decided
<1>6. unrouted' = [unrouted EXCEPT ![w] = @ \ {e}] /\ unrouted[w] # {} /\ e \in unrouted[w]
  BY DEF RouteEvent
<1> HIDE DEF bank
<1>7. RouteIsMapping'
  <2> SUFFICES ASSUME NEW v \in Workers, NEW f \in Events, route'[v][f] # NoBank
               PROVE  /\ Destination[f] # NoIdentity
                      /\ route'[v][f] = bankOf[Destination[f]]
                      /\ f \in attached' \/ status[f] \in Decided
    BY <1>1 DEF RouteIsMapping, queue, mappings
  <2>1. CASE v = w /\ f = e
    BY <1>0, <1>2, <1>3, <1>5, <2>1
  <2>2. CASE ~(v = w /\ f = e)
    <3>1. route'[v][f] = route[v][f]
      BY <1>0, <1>2, <2>2
    <3> QED BY <1>4, <3>1 DEF RouteInv, RouteIsMapping
  <2> QED BY <2>1, <2>2
<1>8. HeldIsKnown' /\ SettledWhereItArrived'
  BY <1>1, <1>4 DEF RouteInv, HeldIsKnown, SettledWhereItArrived, queue, mappings
<1>9. FailingIsRouted'
  <2> SUFFICES ASSUME NEW v \in Workers, failing[v] # NoEvent
               PROVE  /\ failing[v] \in batch[v]
                      /\ unrouted'[v] = {}
                      /\ ~(Destination[failing[v]] # NoIdentity /\ route'[v][failing[v]] = NoBank)
    BY <1>1 DEF FailingIsRouted, Unmapped
  <2>1. failing[v] \in batch[v] /\ failing[v] \in Events /\ unrouted[v] = {}
    BY <1>0 DEF RouteInv, FailingIsRouted
  <2>2. Destination[failing[v]] # NoIdentity => route[v][failing[v]] # NoBank
    BY DEF RouteInv, FailingIsRouted, Unmapped
  <2>3. v # w /\ unrouted'[v] = {}
    BY <1>0, <1>6, <2>1
  <2>4. route'[v] = route[v]
    BY <1>0, <1>2, <2>3
  <2> QED BY <2>1, <2>2, <2>3, <2>4
<1>10. \A v \in Workers : unrouted'[v] \subseteq batch'[v]
  BY <1>0, <1>1, <1>6 DEF RouteInv
<1> QED BY <1>7, <1>8, <1>9, <1>10 DEF RouteInv

\* Going on with the batch, or giving it up, forgets routes and keeps the rest.
LEMMA RunKeepsRoutes ==
  ASSUME TypeOK, RouteInv, NEW w \in Workers, NEW e \in Events,
         Advance(w, e) \/ Abort(w),
         unrouted[w] = {} \/ Abort(w)
  PROVE  /\ \A v \in Workers, f \in Events : route'[v][f] = route[v][f] \/ route'[v][f] = NoBank
         /\ \A v \in Workers : batch'[v] \subseteq batch[v] /\ unrouted'[v] \subseteq batch'[v]
         /\ failing'[w] = NoEvent
         /\ \A v \in Workers \ {w} : /\ failing'[v] = failing[v] /\ batch'[v] = batch[v]
                                      /\ unrouted'[v] = unrouted[v] /\ route'[v] = route[v]
<1>0. /\ route \in [Workers -> [Events -> Banks \cup {NoBank}]]
      /\ unrouted \in [Workers -> SUBSET Events] /\ batch \in [Workers -> SUBSET Events]
      /\ failing \in [Workers -> Events \cup {NoEvent}]
      /\ \A v \in Workers : unrouted[v] \subseteq batch[v]
  BY DEF TypeOK, RouteInv
<1>1. CASE Advance(w, e) /\ unrouted[w] = {}
  BY <1>0, <1>1 DEF Advance
<1>2. CASE Abort(w)
  BY <1>0, <1>2 DEF Abort
<1> QED BY <1>1, <1>2

\* A step that ends a worker's business with an event, whatever it decides.
LEMMA LeavingKeepsRoutes ==
  ASSUME TypeOK, RouteInv, NEW w \in Workers, NEW e \in Events,
         Advance(w, e) \/ Abort(w),
         unrouted[w] = {} \/ Abort(w),
         UNCHANGED <<mappings, attached>>,
         \A f \in Events :
           /\ status[f] # "none" => status'[f] # "none"
           /\ status[f] \in Decided => status'[f] \in Decided
           /\ status'[f] = "received" =>
                status[f] = "received" \/ (Destination[f] # NoIdentity => f \in attached),
         SettledWhereItArrived'
  PROVE  RouteInv'
<1>0. /\ \A v \in Workers, f \in Events : route'[v][f] = route[v][f] \/ route'[v][f] = NoBank
      /\ \A v \in Workers : batch'[v] \subseteq batch[v] /\ unrouted'[v] \subseteq batch'[v]
      /\ failing'[w] = NoEvent
      /\ \A v \in Workers \ {w} : /\ failing'[v] = failing[v] /\ batch'[v] = batch[v]
                                   /\ unrouted'[v] = unrouted[v] /\ route'[v] = route[v]
  BY RunKeepsRoutes
<1>1. UNCHANGED <<bankOf, attached>>
  BY DEF mappings
<1>2. RouteIsMapping'
  BY <1>0, <1>1 DEF RouteInv, RouteIsMapping
<1>3. HeldIsKnown'
  BY <1>0, <1>1 DEF RouteInv, HeldIsKnown
<1>4. FailingIsRouted'
  BY <1>0 DEF RouteInv, FailingIsRouted, Unmapped
<1> QED BY <1>0, <1>2, <1>3, <1>4 DEF RouteInv

\* A decision of a worker: it settles an event only through its own route, which is
\* the mapping of the destination.
LEMMA ProcessKeepsRoutes ==
  ASSUME TypeOK, RouteInv, NEW w \in Workers, NEW e \in batch[w], Process(w, e)
  PROVE  RouteInv'
<1>0. /\ e \in Events /\ status \in [Events -> Status] /\ settled \in [Events -> Nat]
      /\ failing \in [Workers -> Events \cup {NoEvent}]
      /\ unrouted[w] = {}
  BY DEF TypeOK, Process
<1>1. UNCHANGED <<mappings, attached>>
  BY DEF Process, CompleteIgnoredPaymentEvent, ReviewPaymentEvent, AcceptPayment, AcceptFails
<1>2. \/ UNCHANGED <<status, settled>>
      \/ /\ status[e] = "processing" /\ ~Unmapped(w, e) /\ RightBank(w, e)
         /\ status' = [status EXCEPT ![e] = "completed"]
         /\ settled' = [settled EXCEPT ![e] = @ + 1]
      \/ /\ \E d \in {"completed", "review"} : status' = [status EXCEPT ![e] = d]
         /\ UNCHANGED settled
  BY <1>0 DEF Process, CompleteIgnoredPaymentEvent, ReviewPaymentEvent, AcceptPayment, AcceptFails,
              MarkPaymentEventReviewedBeforeAcceptance, queue
<1>3. \A f \in Events :
        /\ status[f] # "none" => status'[f] # "none"
        /\ status[f] \in Decided => status'[f] \in Decided
        /\ status'[f] = "received" => status[f] = "received"
  BY <1>0, <1>2 DEF Decided
<1>4. SettledWhereItArrived'
  <2>1. CASE UNCHANGED settled
    BY <1>1, <2>1 DEF RouteInv, SettledWhereItArrived, mappings
  <2>2. CASE /\ status[e] = "processing" /\ ~Unmapped(w, e) /\ RightBank(w, e)
             /\ settled' = [settled EXCEPT ![e] = @ + 1]
    <3>1. Destination[e] # NoIdentity => bankOf[Destination[e]] = TargetBank[e] /\ e \in attached
      BY <1>0, <2>2 DEF RouteInv, RouteIsMapping, Unmapped, RightBank, Decided
    <3> QED BY <1>0, <1>1, <2>2, <3>1 DEF RouteInv, SettledWhereItArrived, mappings
  <2> QED BY <1>2, <2>1, <2>2
<1>5. CASE Advance(w, e) \/ Abort(w)
  BY <1>0, <1>1, <1>3, <1>4, <1>5, LeavingKeepsRoutes
<1>6. CASE failing' = [failing EXCEPT ![w] = e] /\ UNCHANGED <<batch, unrouted, route>> /\ ~Unmapped(w, e)
  <2>1. RouteIsMapping'
    BY <1>1, <1>3, <1>6 DEF RouteInv, RouteIsMapping, mappings
  <2>2. HeldIsKnown'
    BY <1>1, <1>3, <1>6 DEF RouteInv, HeldIsKnown
  <2>3. FailingIsRouted'
    BY <1>0, <1>6 DEF RouteInv, FailingIsRouted, Unmapped
  <2> QED BY <1>4, <1>6, <2>1, <2>2, <2>3 DEF RouteInv
<1> QED BY <1>5, <1>6 DEF Process, CompleteIgnoredPaymentEvent, ReviewPaymentEvent,
                          AcceptPayment, AcceptFails, Answered

\* A rescheduled event was routed by its worker and is attached; a run that ends
\* forgets its routes.
LEMMA RetryKeepsRoutes ==
  ASSUME TypeOK, RouteInv, NEW w \in Workers, SchedulePaymentEventRetry(w) \/ RunEnds(w)
  PROVE  RouteInv'
<1>0. status \in [Events -> Status] /\ failing \in [Workers -> Events \cup {NoEvent}]
      /\ batch \in [Workers -> SUBSET Events]
  BY DEF TypeOK
<1>1. CASE SchedulePaymentEventRetry(w)
  <2> DEFINE e == failing[w]
  <2>1. e \in Events /\ e # NoEvent /\ unrouted[w] = {} /\ ~Unmapped(w, e)
    BY <1>0, <1>1 DEF SchedulePaymentEventRetry, RouteInv, FailingIsRouted
  <2>2. UNCHANGED <<mappings, attached, settled>> /\ (Advance(w, e) \/ Abort(w))
    BY <1>1 DEF SchedulePaymentEventRetry
  <2>3. \/ UNCHANGED status
        \/ /\ status[e] = "processing"
           /\ \E s \in {"failed", "received"} : status' = [status EXCEPT ![e] = s]
    BY <1>1 DEF SchedulePaymentEventRetry
  <2>4. status[e] = "processing" /\ Destination[e] # NoIdentity => e \in attached
    BY <2>1 DEF RouteInv, RouteIsMapping, Unmapped, Decided
  <2> HIDE DEF e
  <2>5. \A f \in Events :
          /\ status[f] # "none" => status'[f] # "none"
          /\ status[f] \in Decided => status'[f] \in Decided
          /\ status'[f] = "received" =>
               status[f] = "received" \/ (Destination[f] # NoIdentity => f \in attached)
    BY <1>0, <2>1, <2>3, <2>4 DEF Decided
  <2>6. SettledWhereItArrived'
    BY <2>2 DEF RouteInv, SettledWhereItArrived, mappings
  <2> QED BY <2>1, <2>2, <2>5, <2>6, LeavingKeepsRoutes
<1>2. CASE RunEnds(w)
  <2>1. PICK e \in Events : e \in batch[w]
    BY <1>0, <1>2 DEF RunEnds
  <2>2. UNCHANGED <<queue, mappings, attached>> /\ Abort(w)
    BY <1>2 DEF RunEnds
  <2>3. UNCHANGED <<status, settled>>
    BY <2>2 DEF queue
  <2>4. SettledWhereItArrived'
    BY <2>2, <2>3 DEF RouteInv, SettledWhereItArrived, mappings
  <2> QED BY <2>1, <2>2, <2>3, <2>4, LeavingKeepsRoutes
<1> QED BY <1>1, <1>2

\* Every step keeps what is known of the routes.
LEMMA NextKeepsRoutes == TypeOK /\ RouteInv /\ [Next]_vars => RouteInv'
<1> SUFFICES ASSUME TypeOK, RouteInv, [Next]_vars PROVE RouteInv'
  OBVIOUS
<1>1. CASE UNCHANGED vars
  BY <1>1 DEF vars, queue, mappings, run, RouteInv, RouteIsMapping, HeldIsKnown, FailingIsRouted,
              SettledWhereItArrived, Unmapped
<1>2. CASE Next
  BY <1>2, IngestionKeepsRoutes, MappingKeepsRoutes, ClaimKeepsRoutes, RoutingKeepsRoutes,
     ProcessKeepsRoutes, RetryKeepsRoutes DEF Next
<1> QED BY <1>1, <1>2

\* Money counts where it arrived, for any number of workers, events, identities and
\* bank accounts: an event only settles a target of the bank account its destination
\* is mapped to (ClaimPaymentEvents, AttachPaymentEventProviderAccount).
THEOREM SettledWhereItArrivedCorrect == Spec => []SettledWhereItArrived
<1>1. RouteInv => SettledWhereItArrived
  BY DEF RouteInv
<1> QED BY <1>1, TypeCorrect, InitRouteInv, NextKeepsRoutes, PTL DEF Spec
=============================================================================
