---------------------------- MODULE ProviderSync ----------------------------
(***************************************************************************)
(* Recovery of missed payments: workers read the transaction history of    *)
(* one provider account page by page, ingest every transaction and advance *)
(* a durable, leased cursor (internal/payment/reconciliation.go).          *)
(*                                                                         *)
(* Transactions are numbered in the order of the provider's history, and a *)
(* cursor is the number of the last transaction it stands for: cursors are *)
(* opaque to the code.  The version of the checkpoint is only compared     *)
(* with the stored one and only grows, so the model keeps the workers      *)
(* whose copy is still the stored version (fresh).                         *)
(***************************************************************************)
EXTENDS Naturals, FiniteSets

CONSTANTS Workers, NoWorker,
          HistoryBound,   \* bound on the provider's history
          PageSize, MaxPages,
          FaultBound      \* bound on failed calls, crashes and overrun leases

ASSUME ProviderSyncAssumption ==
  /\ NoWorker \notin Workers
  /\ HistoryBound \in Nat
  /\ PageSize \in Nat \ {0}
  /\ MaxPages \in Nat \ {0}
  /\ FaultBound \in Nat

VARIABLES
  published,  \* length of the provider's history
  seen,       \* transactions stored in payment_events
  disputed,   \* transactions whose API evidence differs from what is stored
  cursor,     \* payment_provider_checkpoints.cursor_value
  lease,      \* lease_owner
  expired,    \* lease_expires_at has passed
  fresh,      \* workers whose copy of the checkpoint has the stored version
  pc,         \* "idle", "fetch", "ingest", "complete" or "fail"
  cur,        \* cursor of a worker's run
  page,       \* its page: next transaction to ingest, last one, cursor after it, HasMore
  pages,      \* pages read in the run
  faults

checkpoint == <<cursor, lease, expired, fresh>>
vars == <<published, seen, disputed, checkpoint, pc, cur, page, pages, faults>>

History == 0..HistoryBound
Pages == [next : 1..(HistoryBound + 1), end : History, to : History, more : BOOLEAN]
NoPage == [next |-> 1, end |-> 0, to |-> 0, more |-> FALSE]

Init ==
  /\ published = 0 /\ seen = {} /\ disputed = {}
  /\ cursor = 0 /\ lease = NoWorker /\ expired = FALSE /\ fresh = {}
  /\ pc = [w \in Workers |-> "idle"]
  /\ cur = [w \in Workers |-> 0]
  /\ page = [w \in Workers |-> NoPage]
  /\ pages = [w \in Workers |-> 0]
  /\ faults = 0

Fault == faults < FaultBound /\ faults' = faults + 1
GoTo(w, l) == pc' = [pc EXCEPT ![w] = l]

\* The run is over and its local variables are gone.
RunEnds(w) ==
  /\ GoTo(w, "idle")
  /\ cur' = [cur EXCEPT ![w] = 0]
  /\ page' = [page EXCEPT ![w] = NoPage]
  /\ pages' = [pages EXCEPT ![w] = 0]

\* The guard of every write of the checkpoint: expected version and lease owner.
Holds(w) == w \in fresh /\ lease = w
-----------------------------------------------------------------------------
(* The provider, its webhook and time. *)

Publish ==
  /\ published < HistoryBound
  /\ published' = published + 1
  /\ UNCHANGED <<seen, disputed, checkpoint, pc, cur, page, pages, faults>>

Webhook(t) ==
  /\ t \in 1..published /\ t \notin seen
  /\ seen' = seen \cup {t}
  /\ UNCHANGED <<published, disputed, checkpoint, pc, cur, page, pages, faults>>

\* The API reports a stored transaction differently from now on.
Dispute(t) ==
  /\ t \in seen \ disputed
  /\ disputed' = disputed \cup {t}
  /\ UNCHANGED <<published, seen, checkpoint, pc, cur, page, pages, faults>>

\* The lease is longer than a run: only one whose run has ended expires by itself,
\* an overrun of a live run is a fault.
LeaseExpires ==
  /\ lease # NoWorker /\ ~expired
  /\ \/ pc[lease] = "idle" /\ UNCHANGED faults
     \/ pc[lease] # "idle" /\ Fault
  /\ expired' = TRUE
  /\ UNCHANGED <<published, seen, disputed, cursor, lease, fresh, pc, cur, page, pages>>
-----------------------------------------------------------------------------
(* A worker's run over the account. *)

ClaimIgnoringExpiry(w) ==
  /\ pc[w] = "idle" /\ lease = NoWorker
  /\ lease' = w /\ expired' = FALSE /\ fresh' = {w}
  /\ GoTo(w, "fetch")
  /\ cur' = [cur EXCEPT ![w] = cursor]
  /\ UNCHANGED <<published, seen, disputed, cursor, page, pages, faults>>

ClaimProviderCheckpoint(w) ==
  /\ pc[w] = "idle" /\ (lease = NoWorker \/ expired)
  /\ lease' = w /\ expired' = FALSE /\ fresh' = {w}
  /\ GoTo(w, "fetch")
  /\ cur' = [cur EXCEPT ![w] = cursor]
  /\ UNCHANGED <<published, seen, disputed, cursor, page, pages, faults>>

\* The last page may come without a next cursor: the cursor then stays.
ListTransactions(w) ==
  /\ pc[w] = "fetch"
  /\ LET last == IF cur[w] + PageSize < published THEN cur[w] + PageSize ELSE published
         more == last < published
     IN \E to \in IF more THEN {last} ELSE {last, cur[w]} :
          page' = [page EXCEPT ![w] = [next |-> cur[w] + 1, end |-> last, to |-> to, more |-> more]]
  /\ GoTo(w, "ingest")
  /\ UNCHANGED <<published, seen, disputed, checkpoint, cur, pages, faults>>

\* Ingest of the next transaction of the page: an exact duplicate changes nothing,
\* a conflict with the stored evidence ends the run.
Ingest(w) ==
  LET t == page[w].next IN
  /\ pc[w] = "ingest" /\ t <= page[w].end
  /\ \/ /\ t \in disputed
        /\ GoTo(w, "fail") /\ UNCHANGED <<seen, page>>
     \/ /\ t \notin disputed
        /\ seen' = seen \cup {t}
        /\ page' = [page EXCEPT ![w].next = t + 1]
        /\ UNCHANGED pc
  /\ UNCHANGED <<published, disputed, checkpoint, cur, pages, faults>>

\* Fetching, ingesting or completing fails: the run ends and releases the lease.
CallFails(w) ==
  /\ pc[w] \in {"fetch", "ingest", "complete"}
  /\ Fault
  /\ GoTo(w, "fail")
  /\ UNCHANGED <<published, seen, disputed, checkpoint, cur, page, pages>>

\* The guarded write of the cursor and what the run does after it.
Advance(w) ==
  /\ cursor' = page[w].to
  /\ fresh' = {w}
  /\ cur' = [cur EXCEPT ![w] = page[w].to]
  /\ page' = [page EXCEPT ![w] = NoPage]
  /\ pages' = [pages EXCEPT ![w] = @ + 1]
  /\ GoTo(w, IF page[w].more /\ pages[w] + 1 < MaxPages THEN "fetch" ELSE "complete")

AdvanceEarly(w) ==
  /\ pc[w] = "ingest"
  /\ \/ Holds(w) /\ Advance(w)
     \/ ~Holds(w) /\ RunEnds(w) /\ UNCHANGED <<cursor, fresh>>
  /\ UNCHANGED <<published, seen, disputed, lease, expired, faults>>

AdvanceUnguarded(w) ==
  /\ pc[w] = "ingest" /\ page[w].next > page[w].end
  /\ Advance(w)
  /\ UNCHANGED <<published, seen, disputed, lease, expired, faults>>

AdvanceProviderCheckpoint(w) ==
  /\ pc[w] = "ingest" /\ page[w].next > page[w].end
  /\ \/ Holds(w) /\ Advance(w)
     \/ ~Holds(w) /\ RunEnds(w) /\ UNCHANGED <<cursor, fresh>>
  /\ UNCHANGED <<published, seen, disputed, lease, expired, faults>>

\* The advance is not answered, committed or not.  The failed call has replaced the
\* worker's copy of the checkpoint by an empty one: the lease is not released.
AdvanceFails(w) ==
  /\ pc[w] = "ingest" /\ page[w].next > page[w].end
  /\ Fault
  /\ \/ UNCHANGED <<cursor, fresh>>
     \/ Holds(w) /\ cursor' = page[w].to /\ fresh' = {}
  /\ RunEnds(w)
  /\ UNCHANGED <<published, seen, disputed, lease, expired>>

Release(w) ==
  /\ IF Holds(w) THEN lease' = NoWorker /\ expired' = FALSE /\ fresh' = {}
                 ELSE UNCHANGED <<lease, expired, fresh>>
  /\ RunEnds(w)
  /\ UNCHANGED <<published, seen, disputed, cursor, faults>>

CompleteProviderCheckpoint(w) == pc[w] = "complete" /\ Release(w)
FailProviderCheckpoint(w) == pc[w] = "fail" /\ Release(w)

\* The process dies, or the last write of a failing run fails too.
Crash(w) ==
  /\ pc[w] # "idle"
  /\ Fault
  /\ RunEnds(w)
  /\ UNCHANGED <<published, seen, disputed, checkpoint>>

Run(w) ==
  \/ ClaimProviderCheckpoint(w) \/ ListTransactions(w) \/ Ingest(w)
  \/ AdvanceProviderCheckpoint(w) \/ CompleteProviderCheckpoint(w) \/ FailProviderCheckpoint(w)

Next ==
  \/ Publish \/ LeaseExpires
  \/ \E t \in 1..published : Webhook(t) \/ Dispute(t)
  \/ \E w \in Workers : Run(w) \/ CallFails(w) \/ AdvanceFails(w) \/ Crash(w)

Spec == Init /\ [][Next]_vars

\* The periodic job runs on every worker, the steps of a run return, and the lease
\* of a run that has ended expires.
Fairness ==
  /\ WF_vars(LeaseExpires /\ pc[lease] = "idle")
  /\ \A w \in Workers : WF_vars(Run(w))

FairSpec == Spec /\ Fairness
-----------------------------------------------------------------------------
(* Properties *)

\* The checkpoint and the runs keep their types, and no write breaks the column check
\* payment_provider_checkpoints_lease_consistent (no expiry without an owner).
TypeOK ==
  /\ published \in History /\ cursor \in History
  /\ seen \subseteq 1..published /\ disputed \subseteq seen
  /\ lease \in Workers \cup {NoWorker} /\ (expired => lease # NoWorker) /\ fresh \subseteq Workers
  /\ expired \in BOOLEAN
  /\ pc \in [Workers -> {"idle", "fetch", "ingest", "complete", "fail"}]
  /\ cur \in [Workers -> History]
  /\ page \in [Workers -> Pages]
  /\ pages \in [Workers -> Nat]
  /\ faults \in 0..FaultBound

\* The cursor never stands behind a transaction that is not stored: whatever crashes,
\* overruns and lost answers happened, no missed payment is skipped.
NoGap == 1..cursor \subseteq seen

\* No late run moves the cursor of a newer one back.
CursorNeverBack == [][cursor' >= cursor]_vars

\* Every transaction of the provider is stored in the end, with webhooks or without,
\* unless an earlier one is disputed and keeps its page from being read.
AllReconciled ==
  \A t \in 1..HistoryBound :
    t <= published ~> (t \in seen \/ \E d \in disputed : d < t)
=============================================================================
