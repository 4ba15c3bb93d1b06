# Verification of the Telegram shop bot

TLA+ models of the shop's back end: customers order digital goods through a Telegram bot, pay by bank
transfer or from a wallet, and receive credentials as a Telegram message. The database is PostgreSQL; one
`api` process answers webhooks, one or more `worker` processes run periodic jobs. What makes the program
hard is not any single transaction but what happens between them: workers that overrun leases, answers that
are lost, evidence that arrives twice or changed, operators who act on old screens.

Paths below are relative to the repository root.

## 1. Inventory

| Component | State | Operations | Interacts with | Hard behaviour | What makes it correct |
|---|---|---|---|---|---|
| Delivery (`internal/app/delivery_service.go`, `internal/postgres/delivery_store.go`, `delivery_admin_store.go`) | `outbox_events`, `delivery_attempts`, order and item status | claim, load, begin, send, finalise, stale scan, operator retry and mark-delivered | payment acceptance creates its jobs; Telegram | crash around the send, lost answers, stale leases, late workers, stale operator screens | credentials are not sent again without authority; delivered only on evidence; order, job, items agree |
| Orders (`order_service.go`, `order_expiry_service.go`, `order_store.go`) | `orders`, `order_items` | create, cancel, expire | acceptance, wallet, expiry job | payment races expiry and cancellation | a closed order is not revived; it is funded once |
| Payment acceptance (`payment_acceptance_store.go`, `payment_admin_store.go`) | `payments`, `payment_allocations`, `payment_review_cases` | accept evidence, review, manual confirmation, resolution | event worker, operators, orders, wallet, inventory | lookups before locks, competing payments, short stock | money is accounted for; one payment, one target, one effect |
| Wallet (`wallet_service.go`, `wallet_store.go`) | `wallet_accounts`, `wallet_ledger_entries`, `wallet_topup_intents` | top-up, credit, pay, adjust | acceptance, orders | concurrent debits and credits, repeated credits | the ledger explains the balance; one credit per top-up |
| Inventory (`inventory_admin_store.go`, `inventory.sql`) | `inventory_items`, `order_inventory_items` | import, enable, disable, exact claim | orders, acceptance, delivery | `SKIP LOCKED` claims competing for stock | an order holds exactly its quantity or nothing |
| Payment events (`payment_event_job.go`, `payment_event_service.go`, `payment_event_store.go`, `payment_event_worker_store.go`) | `payment_events` | ingest, conflict, claim, decide, retry | webhooks, provider reconciliation, acceptance | claims without owner, aborted batches, lost commits, changed evidence | an event settles once; decisions are final; nothing waits for ever |
| Provider reconciliation (`internal/payment/reconciliation.go`, `provider_reconciliation_store.go`) | `payment_provider_checkpoints` | claim, list pages, ingest, advance, complete, fail | provider API, event ingestion | overrun leases, crashes inside a page, conflicts | the cursor passes nothing that is not stored |
| Telegram updates (`router.go`, `update_service.go`) | `telegram_update_receipts` | claim, dispatch, complete, fail | every command of users and administrators | redelivery, stale reclaim, crash before completion | an update takes effect once |
| Admin sessions and catalog (`admin_service.go`, `admin_store.go`) | `admin_sessions`, categories, products | start, advance, cancel, guarded changes | updates | old buttons, concurrent administrators | a change applies to the version that was shown |
| Bank accounts, provider accounts | `bank_accounts`, `payment_provider_accounts` | list, create, edit, toggle; map, enable | sessions, orders, event worker | edits from old lists, a change during an order | no change overwrites one nobody saw; orders keep their snapshot |
| Catalog (`catalog_service.go`, `admin_store.go`) | `categories`, `products` | create, edit, activate, deactivate | sessions, order creation | lists of different age, changes while an order is placed | no change overwrites one nobody saw; an order is true to the catalog at its commit |
| Worker runner (`internal/worker/runner.go`, `cmd/worker/main.go`) | tickers, process | runs each job with a timeout, recovers some panics, restarts | all jobs | panics, timeouts, cancellation, one loop for all jobs | every job runs again; a worker told to stop ends |
| Transactions (`internal/postgres/transaction.go`) | row locks, entries of unique indexes | begin, lock, commit, roll back | every store | lock orders that differ between stores or follow the input, foreign keys, `SKIP LOCKED` | transactions deadlock only at known waits; a payment that is the victim is repeated |

The rest is stateless or input/output: message views and parsing, HTTP routing, signature checks, encryption,
VietQR formatting, configuration, metrics, generated queries. `PROJECT.json` lists every component with its
status and reason, and the hazards with the line where each one bites.

## 2. Modules

| Module | Models | Proofs | Instance |
|---|---|---|---|
| `Delivery` | the delivery outbox, workers, the stale scan, operators, the reconciliation report | `DeliveryProofs` | `MCDelivery` |
| `Settlement` | orders, payments, allocations, reviews, wallets, stock, the financial report | `SettlementProofs` | `MCSettlement` |
| `Sales` | what the shop promises about money and goods; implemented by `Settlement` | `SettlementRefinement` | `MCSettlement` |
| `PaymentEvents` | the queue of provider events, its workers, the mappings of provider accounts | `PaymentEventsProofs` | `MCPaymentEvents` |
| `ProviderSync` | recovery of missed transactions from the provider's API | `ProviderSyncProofs` | `MCProviderSync` |
| `AdminUpdates` | receipts of Telegram updates, administrators' sessions, guarded changes of a bank account | `AdminUpdatesProofs` | `MCAdminUpdates` |
| `Catalog` | categories, products and the dialogs that change them | `StorefrontProofs` | through `Storefront` |
| `Storefront` | extends `Catalog`: orders placed while catalog and bank account change | `StorefrontProofs` | `MCStorefront` |
| `Runner` | the worker process: loop, tickers, panics, restart | | `MCRunner` |
| `Locks` | the row locks of all transactions and the deadlocks between them | `LocksProofs` | `MCLocks` |

They meet at the state they share: `ProviderSync.Ingest` and the webhook insert the rows of `PaymentEvents`;
`PaymentEvents.AcceptPayment` is the outcome of the acceptance that `Settlement` has in detail; an order that
`Storefront` places is one that `Settlement` opens; an order that `Settlement` leaves in `delivering` has the job
with which `Delivery` starts (`CreateDeliveryHandoff`); `Runner` schedules the runs whose steps are in the modules
of the jobs, and `Locks` has the locks inside the steps that the other modules take as atomic.

Operators defined just before the definition they resemble (`ClaimWithinTransaction`, `AdvanceUnverified`,
`ClaimUpToQuantity`, ...) are faulty variants: each is a plausible bug that the property named in `PROJECT.json`
must notice. No specification uses them.

### Delivery

Every PostgreSQL transaction is one action; what a worker does between two of them interleaves with
everything else. `status` merges the job's status and stage (`claimed` and `sending` are `processing`), which
a CHECK ties together. Row versions appear as the operator's review that is still valid. The Telegram request
(`SendDelivery`) ends as success, a definite failure, or an ambiguous outcome in which the message was or was
not delivered; `sends` counts what really reached the customer. As in `internal/telegram/delivery_client.go`,
429, 5xx and a connection that failed before the request was written are taken as not delivered: that is an
assumption about Telegram. A failure before the send is retryable only for a context error while the run
itself is alive. The statuses `manual_review` and `cancelled` are never set by the code and not modelled.

### Settlement

A transaction that locks before it reads is one action. Acceptance is two: `LookupPayment` reads the payment
of the transaction and the acceptance time before the target is locked (`payment_acceptance_store.go:40`), so
both may be stale in the second step; a transaction whose insert then meets a payment is rolled back and
retried (`AcceptRaced`, `Rollback`). The time of a wallet payment request is read early in the same way. A
lost answer of a commit is the commit followed by a repeated command. `SKIP LOCKED` may hide any available
item, so a short claim is always possible (`ClaimComesShort`). A command is a provider event or a manual
confirmation; `routed` says that its environment and mapped bank account agree with the target. `paid` and
`reserving` exist only inside the transaction. The wallet payment of an order has the order as its
transaction. Top-ups lapse but no code expires them. `delivered` and `sold` belong to `Delivery`.

`Sales` is the abstract specification: the goods of an order change hands in one step, all of them, for one
transfer or for the money of the owner's wallet; a wallet moves only by a top-up, once, by a purchase or by an
administrator, and is never overdrawn; what was sold or given up stays so. `KeepsThePromise` is `Sales!Spec` under
the mapping of `Settlement` (an order in `delivering` is sold, a payment with an allocation is a used transfer, a
reserved item belongs to its order). Cancellation, expiry and running out of stock are all `GiveUp`, the review of
a payment is a stutter.

### PaymentEvents

A claim writes no owner. Between the claim and the decision a worker resolves the mapping of the event's
destination account (`RouteEvent`), while an administrator creates mappings and switches them; `route` is what
the worker found and may be stale when the event is decided. A target belongs to a bank account (`TargetBank`), and
the acceptance compares it with the route. `ripe` stands for both timers: the retry delay of a received event and the stale
timeout of a processing one; any run may outlive it. Acceptance chooses between a settlement and a review
under the lock of the event row, and its answer may be lost (`Answered`). A call that finds no row aborts the
run (`Abort`), and the rest of its batch stays in processing. `RunEnds` is a crash, a run timeout or an error
in the queries after the claim. A case is `open` (or held) or `resolved`.

### ProviderSync

One provider account; accounts share nothing. Transactions are numbered in the provider's order and a cursor
is the number of the last transaction it covers, because cursors are opaque to the code. The checkpoint's
version is only compared for equality and only grows, so the model keeps the set `fresh` of workers whose copy
is still current. A failed advance ends the run without releasing the lease: the failed call has replaced the
checkpoint by an empty one before the deferred failure record uses it. The provider is external: its history
grows at the end, and it may come to report a stored transaction differently (`Dispute`).

### AdminUpdates

A handler is one webhook request; an update that is not answered with 200 is delivered again, so several
handlers may run one update. A handler claims the receipt (`pc` = `dispatch`), for a text loads the session
(`act`), commits, and replies; a plan whose effect did not complete the receipt is completed first
(`complete`), an error goes through `FailUpdate` (`fail`). Each of these is one transaction or one call, and all
interleave. `stale` are the receipts older than the stale window: a dead handler's always gets there, a running
one's only by a fault: by default the request timeout (5 s, `config.go:22`) is far below the window (2 min), but
nothing validates their order. Neither `CompleteReceipt` nor `FailUpdate` knows
who claimed the receipt. The record is one bank account, the record whose dialogs the router can start from a
list: the `AdminCategories` and `AdminProducts` callbacks authorise and show nothing. `chat` are all buttons ever
shown, since old messages keep theirs and a press may be under way. A text answers the question the session
asks, rightly or not: `DispatchFails`, always possible, stands for wrong input, missing authority, stale
versions and a failing database, which all roll back. No property speaks of revoked administrators or of what
is typed. `Steps` is the number of texts a dialog asks for (six in the code, for both dialogs); a session keeps
how many were given instead of the values. `effects` and `origin` are history: how often an update committed,
which update began the dialog.

### Catalog and Storefront

A dialog is about a row as some list showed it and ends in one transaction that locks the row, compares the version
and writes; the session and the receipt around it are those of `AdminUpdates`. The transaction that places an order
is three steps, because under READ COMMITTED every statement sees what is committed by then: the reads, which leave
shares of the rows of product, category and bank account; the insert, where the unique indexes of the idempotency
key and of the payment reference decide and a second insert of the same key waits; the commit. Requests with one
key are repetitions of one press. Names and slugs are model values; stock is counted without a lock and may refuse
any request. The router as it stands shows the product list only after the wallet adjustment callback and the
category list nowhere (`router.go:445`, `router.go:548`); the dialogs are those of the parser, the services and the
store, for which any list may have shown the row.

### Runner

`at` is the job that runs. A ticker channel holds one tick. The initial runs come before the loop, payments before
deliveries. Delivery and reconciliation recover their panics; the others end the process, which the container
runtime restarts unless it was told to stop. A poisonous event panics whenever it is processed: what ends the
restarts is only that the claim, with its attempt, is committed before the processing. Healthy events of the same
batch lose attempts with it, which is the matter of `EventsProgress` and `EventsDecided`.

### Locks

A transaction is the sequence of its lock requests, in the code's order: `FOR UPDATE`, `FOR SHARE`, the lock of an
update, the `FOR KEY SHARE` of a foreign key, `SKIP LOCKED`, and the waits of inserts in unique indexes. All meet on
one customer, one order with one item, one bank account, and a second row or entry where one kind of transaction
takes two of them: the lines of an import, account numbers, names of products, orders of a manual confirmation. An
entry of a unique index is a row like any other: who writes it waits for an equal entry that is not committed, or for
a change of the row that has it. A transaction may end between two requests (early return,
error, death). PostgreSQL ends a member of a cycle; nothing is repeated except a payment event, whose retry delay
lets the transactions it met end. An acceptance that loses its last attempt is `failed`; the stale reclaim of events
in processing belongs to a run that died and is in `PaymentEvents`. Left out are locks through which no cycle can go,
each named with its reason in the module: sessions, receipts, review cases, index entries written only under a lock
that is already held, and random payment references, which are taken as distinct. `Conflicts` is PostgreSQL's conflict table of the four modes. A transaction that
waits for its first lock holds nothing, so it starts with that lock.

## 3. Runs

| Run | Instance | Shows |
|---|---|---|
| `delivery` | 1 order of 2 items, 2 workers, 1 operator, 2 attempts, 2 manual retries | no resend without authority, delivery on evidence, agreement of job, order and items, free attempt rows, a clean report, a last attempt that fails is final, only operators resolve ambiguity, the queue drains |
| `settlement` | 2 orders, 2 items, a transfer, two manual confirmations of another, an outgoing transfer, an adjustment of 3 | funded once, money accounted for, the financial report is explained, final evidence, refinement of `Sales` |
| `settlement_wallet` | 1 order, 2 top-ups with a colliding reference, 4 commands, adjustments | the ledger explains the balance, entries belong to one payment, money accounted for, refinement of `Sales` |
| `settlement_outcome` (violation) | as `settlement` | a resolved out-of-stock review leaves a confirmed payment without outcome |
| `payment_events` | 1 inbound and 1 outbound event, 2 workers, 1 account identity and 2 banks, 3 attempts, 1 conflict each | settled once and where the money arrived, a doubt is listed for the administrators, final decisions, disputed events move no money, progress |
| `payment_events_stuck` (violation) | 1 event, 1 worker, 2 attempts | a run that ends in the last attempt strands the event in processing |
| `provider_sync` | 2 workers, history 3, pages of 2, 2 pages a run, 2 faults | no gap, no step back, everything is stored unless an earlier transaction is disputed |
| `admin_updates` | 2 administrators, 3 updates, 2 handlers, dialogs of 1 and 2 texts, 1 fault | an update takes effect once, completed receipts are final, buttons match sessions, the account changes as asked, no dialog is revived |
| `updates_lost` (violation) | 1 update, 2 handlers, 1 fault | an acknowledged duplicate of an update whose first copy fails or dies |
| `storefront` | 2 administrators, 1 category and product, 3 requests with 2 keys, 2 references and 2 tries, versions up to 3 | one order per key and reference, no lost update, orders true to catalog and bank account at their commit |
| `runner` | all 5 jobs, 2 events, 1 poisonous, 2 attempts, 1 crash | every job runs again and again, a worker told to stop ends |
| `locks` | 24 kinds of transactions, 3 connections, 2 transactions besides the acceptances, 2 attempts | every deadlock goes through one of nine known waits; the payment fails only when a wallet payment or a switching of mappings met it in each attempt |

Why these bounds are enough. Two workers are the least for a stale and a new holder of one lease, and no
definition compares more than two. Two attempts (three in `payment_events`) give a first, a last and a middle
one. Two manual retries let a retry follow a retried attempt. Two orders for two items of different quantity
make stock short for either. Two confirmations of one transaction race in the lookup; the second differs in
the amount, or not, in the two settlement runs. A history of three in pages of two has a full, a partial and a
second page; two faults let an overrun follow a crash or a lost answer. Three updates are a start, an answer and
a cancellation, a second start or another administrator's change; a fourth change is replaced by the first
state, in which the account was changed once and the list from before is still on the screen. The reclaim of a
dead handler's receipt needs no second fault. Three requests are two copies of one press and a competitor for the
reference; version 3 lets a row change twice after its creation, once unseen. The batch of `runner` holds the
poisonous event and a healthy one, and both may use up their attempts. In `locks` any two
transactions meet, with or without the acceptance of the event; each of the nine known waits is reached (without any
one of them `DeadlocksAreKnown` is violated), and longer cycles are left to the theorem of section 4. The two
transactions can take both attempts of the event, so it also fails; a second attempt after one rival must succeed (the
code's default is five attempts). The theorems of section 4 hold for
every value of these constants. Deadlock (in TLC's sense) is not checked where the system may come to rest (all
orders closed, all events decided); in `provider_sync` it is, since the periodic job never stops.

Symmetry over items, updates, handlers, administrators, references or copies of a request is used in safety runs
only, and no definition names a single one.

### Fairness

- `delivery`: workers are polled and restarted, each step of a run returns (every call has a timeout),
  the stale scan reaches every stale lease, oldest first. Strong fairness for loading and beginning: the lease
  is validated to exceed the job timeout (`config.go:468`), so a worker is not overtaken every time between
  claim and begin. Operators owe nothing.
- `payment_events`, `payment_events_stuck`: time passes, idle workers claim, runs go on. Crashes are unfair:
  they may happen at any time or never. Attempts bound how often an event is claimed.
- `provider_sync`: the job runs periodically, steps of a run return, the lease of a run that has ended
  expires. An expiry under a live run counts as a fault (the lease exceeds the run timeout,
  `cmd/worker/main.go:106`), and faults are bounded: with endless faults no page is ever read to its end.
- `runner`: the restart policy, tickers and deadlines make the steps they are for. `select` chooses at random
  among its ready cases, so a case that is ready again and again is taken (strong fairness). Signals, crashes
  and panics are unfair.
- `locks`: the worker polls, statements return, PostgreSQL looks for cycles. That the retry delay (seconds)
  outlasts the transactions running at the deadlock is part of `BeginAcceptance` (`met`).
- `updates_lost`: a request goes on (it has a timeout), time passes, and Telegram repeats an update as long as it
  is not answered with 200; strong fairness because a handler is free again and again, not for ever.

### Divergences between code and documentation

The three violation runs are `findings` in `PROJECT.json`. More were met while modelling and have no run:

- `RetryDelivery` moves a `retryable_failed` job to `pending` (`delivery_admin_store.go:117`), which
  `domain.CanTransitionDelivery` does not list (`internal/domain/delivery.go:53`).
- An ignored outbound transfer is `completed` and has no payment, so `completed_events_without_payment`
  (`sqlc/queries/reconciliation.sql:3`) counts it, while `docs/design/payment-reconciliation.md:42` expects zero.
- `ambiguous_without_review` counts only jobs without a manual resolution, so a job that is ambiguous again after
  a manual retry is not reported (`docs/phase-7-report.md:138-140`). `ReconciliationClean` is about the query.
- A failure is classified with the worker's configured limit (`delivery_service.go:349`), not with the job's stored
  `max_attempts` (`docs/design/delivery-state-machine.md:22`): if the limit is raised after a job was created, its
  last failure leaves it retryable and unclaimable. `ExhaustedJobFails` holds where the limits agree.
- A second conflict of an event whose review case is resolved changes only the reason of that case
  (`sqlc/queries/payments.sql:164`), so it opens no review (`docs/design/payment-acceptance.md:17-18`).
- A second manual retry of a job that was not attempted in between, because its claim went stale before the sending,
  inserts the row of the first one again (`delivery_admin_store.go:153-157`) and fails on the unique constraint of the
  attempt log, so the operator's command ends with an error. `RetryDelivery` is disabled there.
- The deadlocks of `DeadlocksAreKnown`: a wallet payment with an acceptance; the switching of a mapping with the
  creation of one, or with the placing of an order and whatever that order's transaction waits for; imports with common
  lines in different order (`inventory_admin_store.go:115`); bank accounts that exchange their numbers
  (`bank_accounts.sql:57`); products of one slug that exchange their categories; manual confirmations typed with each
  other's transaction numbers. Only payment events are repeated; the others end with an error, and it is left to
  Telegram to deliver the update again.

## 4. Proofs

Checked by TLAPS for every value of the constants that meets the named assumptions: sentinels such as `NoRow`,
`NoOrder`, `NoTarget` or `None` are no members of the sets they stand beside, limits are naturals, `WorkersFinite` for
the counting argument of `Delivery`, and what a CHECK or a foreign key of the schema says (positive amounts and
quantities, one owner per target, one event per provider transaction). Each strengthening named below was
model-checked on the instance of its component before it was proved. Every invariant and every action property of
the passing runs is the subject of a theorem; what is left to TLC is named at the end.

`DeliveryProofs`
- `TypeCorrect`: types, action by action.
- `JobsMatchOrders`, `ItemsSoldWithDelivery`, `LeasesConsistent`: from `CoreInv`, the conjunction of these
  three with the types and the fact that a job not created yet is untouched. They are inductive only together:
  selling relies on the order's status, the order's status on the lease of the writer.
- `NoResendWithoutAuthority`: counting messages is not inductive, because a worker may hold the right to send
  when its lease is gone. `SendTokens` counts messages, workers that may still send (`Holders`) and the job's own
  entitlement (`Entitled`) as tokens; only a payment or a committed manual retry creates one. The lemmas on
  `Holders` say how the cardinality changes when one worker moves.
- `DeliveredOnEvidence`: from `EvidenceInv`; a worker that reports success has sent.
- `ReportStaysClean`: every counter of the reconciliation report but stale leases and ambiguous jobs is empty.
- `AmbiguityIsResolvedByOperators`: an action property from the types.
- `WorkerRowsAreFree`: that the row a worker or the stale scan is to write is free is not inductive, because attempts grow and manual
  decisions write rows of their own. `LogOrdered` says where rows can be: only up to the attempts counted so far, a
  manual resolution one further, and no outcome yet for the attempt that is being sent. Rows of operators are not
  covered: a second manual retry can meet its own row (section 3).
- `ExhaustedJobsFail` from `ExhaustInv`: the worker classifies a failure with what it loaded, so the proof also needs
  that a worker with a live lease has the attempt of the job (`LeaseAttempt`) and that the stored limit of a job is
  never lowered (`LimitKept`).

`SettlementProofs`
- `SettlementTypes`: types, action by action. `StepCases` unfolds the two steps of an acceptance once for all proofs.
- `OrdersAreFundedOnce`, `EvidenceNeverLost`, `LedgersExplainBalances`, `EntriesAndPaymentsAgree` from `SettlementInv`, the
  conjunction of the four with the types. They need each other: that a new payment funds an order once rests on the
  order being unfunded, which rests on its status; that a ledger entry is posted once rests on its payment being new;
  that the transfer of a payment without target may be recorded rests on its case. The steps are sorted by their
  effect (quiet, review, existing payment, order payment, top-up payment, wallet payment, administration), one lemma
  for each, and the parts of `EntriesMatchPayments` (`EntryMatches`, `CreditMatches`) are carried one entry at a time.
- `EvidenceNeverRewritten`: an action property from the same lemmas: inserts meet no row.
- `ReportsAreExplained`: the report sums the ledger, so what `SumWalletLedger` computes is followed step by step
  (`SumsAreBalances`): an appended entry adds its amount to the sum. The rest follows from `SettlementInv`. Only operators raise a counter, with one exception: ignored outgoing transfers are
  counted as completed without a payment (section 3).

`SettlementRefinement`
- `SettlementKeepsThePromise`: `Settlement` implements `Sales`. The first states map to first states, and each group of
  steps maps to a step of `Sales` or a stutter. `SettlementInv` is needed where `Sales` demands what the code does not
  check in that step: that the transfer of a new payment has not bought anything before.

`PaymentEventsProofs`
- `TypeCorrect`, `SettledOnceCorrect`, `DoubtIsListedCorrect` from `EventsInv`; `DecisionIsFinalCorrect` from the types;
  `DisputedNeverSettlesCorrect` from `DisputedIsDecided`, the strengthening that a conflict leaves no event
  undecided. The argument is the code's: every write is guarded by the stored status.
- `SettledWhereItArrivedCorrect`: a route read earlier may be stale, so the invariant says of every route held by a
  worker that the mapping it was read from still names that bank account: mappings are switched, never changed.

`ProviderSyncProofs`
- `SyncTypeCorrect`, `NoGapCorrect`, `CursorNeverBackCorrect` from `SyncInv`. `NoGap` is not inductive, since the
  cursor takes the end of a page read earlier: `Ingested` says that a run has stored everything before the next
  transaction of its page, `HolderIsCurrent` that a run which holds the checkpoint started at the stored cursor.

`AdminUpdatesProofs`
- `AdminTypeCorrect`: types, action by action, for dialogs of any length.
- `UpdateTakesEffectOnce` from `Once` (only a completed update has an effect) and `ReceiptCompletedIsFinal`, both from
  `ReceiptStep`: what any step may do to one receipt.
- `ButtonsAlwaysMatch`, `ChangesAreAsked`, `DialogsAreNotRevived` from `SessionInv`. A handler acts on what it loaded and
  a confirmation on what its button says, so the properties are not inductive: `Snapshots` says that a loaded
  session of the current version is the session, `ButtonsCurrent` that the same holds for every button on a
  screen, in a reply not yet sent or in a press not yet handled, and that none is ahead of its session.
  `StepFrame` reduces every action to four facts (a session changes only with a new version or by expiry), from
  which both invariants follow without looking at the actions again.

`StorefrontProofs`
- `NoUpdateIsLost`: an action property of `CatalogInv`. The version alone says nothing of the contents, so `DialogsFresh`
  says that a dialog that has the version of a row has seen the row as it is; versions only grow.
- `StorefrontTypes`, `OneOrderPerConfirmation`, `OrdersAreAsListed` from `StorefrontInv`. An order is true to the catalog at
  its commit only because its transaction kept its shares since the read: `DraftsListed` says that what an open
  transaction has read is still so and that it holds the shares of all three rows. `InsertsAlone` says that two
  transactions with one key or one reference are never both past the unique index.

`LocksProofs`
- `OnlyKnownDeadlocks`: any number of connections and of transactions, so cycles of any length. Rows and index entries
  have ranks (`Rank`), and the lemmas on the programs (`Good`) go through all kinds of transactions: each asks in
  ascending rank, or holds only shared locks that are in nobody's way (`Harmless`), except for the seven requests of
  `Against`. `LocksInv` carries this to the states: what a transaction holds fits everything it has still to ask for
  (`Fits`), and whoever asks holds something. In a cycle not every wait can lead to a higher rank (`CycleDescends`),
  so some member makes a request of `Against`, and `AgainstIsKnown` finds the known wait: it is that request itself or
  the wait just before or after it in the cycle.

Only model-checked: liveness (`QueueDrains`, `EventsProgress`, `AllReconciled`, `PaymentSurvivesDeadlocks` and the
properties of `Runner`, which are all liveness), because fairness is out of the prover's reach, and the three
violation runs.

## 5. Plan

1. Proofs: a shorter `LocksProofs` and `SettlementProofs` where lemmas can be shared, and that no two connections of
   `Locks` hold conflicting modes of a row.
2. Receipts of the customers' commands, with `AdminUpdates` as the frame: each completes its receipt in the
   transaction of its effect, as the guarded changes there do.
3. Pure algorithms against reference definitions: extraction of payment references, retry delays, money at its
   integer width.

## 6. Not modelled

- The inventory reservation service (`inventory_reservation_service.go`): no command of `cmd/` builds it. If it is
  put to use, a released mapping whose row is claimed again by the same order and a recovery that races an
  acceptance deserve a model first.
- A text whose transaction failed is sent again by Telegram and answers the question its session asks by then
  (`router.go:186`): texts are abstracted, and neither code nor docs tie a text to the question it was typed for.
- Views, parsing, HTTP routing, signatures, encryption, VietQR formatting, configuration, metrics and migrations, for
  the reasons in `PROJECT.json`.
