---------------------------- MODULE AdminUpdates ----------------------------
(***************************************************************************)
(* Telegram updates of administrators, from the webhook to the reply: the  *)
(* durable receipt of an update (internal/telegram/router.go, Process; the *)
(* update service), the one session row of an administrator                *)
(* (internal/postgres/admin_store.go) and the guarded changes of a record. *)
(* The record is a bank account, the one record whose list, edit, toggle   *)
(* and create dialogs all start from a menu the router shows.              *)
(*                                                                         *)
(* A webhook request is run by a handler.  Telegram sends an update again  *)
(* until a request for it is answered with 200, so an update may have      *)
(* several handlers.  A transaction is one step.  Texts are abstracted: a  *)
(* text answers the question the session asks, validly or not.             *)
(***************************************************************************)
EXTENDS Naturals

CONSTANTS Updates, Handlers, Admins, None,
          Steps,        \* texts a dialog asks for: "edit" and "create" of the record
          FaultBound    \* bound on crashes, lost answers, failed calls, overrun handlers, expired sessions

ASSUME AdminUpdatesAssumption ==
  /\ None \notin Updates /\ None \notin Admins
  /\ Steps \in [{"edit", "create"} -> Nat \ {0}]
  /\ FaultBound \in Nat

VARIABLES
  inbox,    \* what an update asks for
  acked,    \* updates Telegram delivers no more
  receipt,  \* telegram_update_receipts.status
  stale,    \* receipts whose processing_started_at is before the stale window
  session,  \* admin_sessions, one row for every administrator
  record,   \* version and is_active of the bank account
  created,  \* updates that inserted a bank account
  chat,     \* buttons ever shown
  pc,       \* where the handler is
  upd,      \* its update
  snap,     \* the session it loaded
  plan,     \* the buttons of its reply
  effects,  \* number of transactions committed for an update
  faults

store == <<session, record, created, effects>>
handlers == <<pc, upd, snap, plan>>
vars == <<inbox, acked, receipt, stale, store, chat, handlers, faults>>
-----------------------------------------------------------------------------
(* Buttons, requests and sessions. *)

Flows == {"edit", "create", "toggle"}

\* A button: sv is the version of the owner's session in its data, rv and active are
\* the version and the wanted state of the record.
ListButton == [kind |-> "list", flow |-> None, owner |-> None, sv |-> 0, rv |-> 0, active |-> FALSE]
StartButtons == [kind : {"start"}, flow : Flows, owner : {None}, sv : {0}, rv : Nat, active : BOOLEAN]
ConfirmButtons == [kind : {"confirm"}, flow : {"toggle"}, owner : Admins, sv : Nat, rv : Nat, active : BOOLEAN]
CancelButtons == [kind : {"cancel"}, flow : {None}, owner : Admins, sv : Nat, rv : {0}, active : {FALSE}]
Buttons == {ListButton} \cup StartButtons \cup ConfirmButtons \cup CancelButtons
StartButton(f, v, act) ==
  [kind |-> "start", flow |-> f, owner |-> None, sv |-> 0, rv |-> v, active |-> act]
\* The list of bank accounts: create, edit this version, toggle this version.
Card(r) ==
  {StartButton("create", 0, FALSE), StartButton("edit", r.version, FALSE),
   StartButton("toggle", r.version, ~r.active)}

TextMessage == [kind |-> "text", flow |-> None, owner |-> None, sv |-> 0, rv |-> 0, active |-> FALSE]
Requests == [by : Admins, ask : Buttons \cup {TextMessage}]

Closed == {"completed", "cancelled"}
Sessions == [version : Nat, state : Flows \cup Closed \cup {None}, live : BOOLEAN,
             step : Nat, rv : Nat, active : BOOLEAN, origin : Updates \cup {None}]
\* A row without a dialog.
EmptySession(v, st) == [version |-> v, state |-> st, live |-> FALSE, step |-> 0,
                        rv |-> 0, active |-> FALSE, origin |-> None]
NoSession == EmptySession(0, None)
Expired(s) == [version |-> s.version, state |-> s.state, live |-> FALSE, step |-> s.step,
               rv |-> s.rv, active |-> s.active, origin |-> s.origin]

\* cancelKeyboard, or the confirmation of a toggle with what the session asks.
Keyboard(a, s) ==
  IF s.state = "toggle"
  THEN {[kind |-> "confirm", flow |-> "toggle", owner |-> a, sv |-> s.version,
         rv |-> s.rv, active |-> s.active]}
  ELSE {[kind |-> "cancel", flow |-> None, owner |-> a, sv |-> s.version,
         rv |-> 0, active |-> FALSE]}

\* The record was changed once; the list from before the change is still on the screen.
Init ==
  /\ inbox = [u \in Updates |-> None] /\ acked = {}
  /\ receipt = [u \in Updates |-> "none"] /\ stale = {}
  /\ session = [a \in Admins |-> NoSession]
  /\ record = [version |-> 2, active |-> TRUE] /\ created = {}
  /\ chat = {ListButton} \cup Card([version |-> 1, active |-> FALSE])
                         \cup Card([version |-> 2, active |-> TRUE])
  /\ pc = [h \in Handlers |-> "idle"] /\ upd = [h \in Handlers |-> None]
  /\ snap = [h \in Handlers |-> NoSession] /\ plan = [h \in Handlers |-> {}]
  /\ effects = [u \in Updates |-> 0] /\ faults = 0

Fault == faults < FaultBound /\ faults' = faults + 1
-----------------------------------------------------------------------------
(* Administrators, Telegram and time. *)

Asks(u, a, b) ==
  /\ inbox[u] = None
  /\ inbox' = [inbox EXCEPT ![u] = [by |-> a, ask |-> b]]
  /\ UNCHANGED <<acked, receipt, stale, store, chat, handlers, faults>>

\* Old messages keep their buttons, and a group shows them to other administrators.
Press(u, a, b) == b \in chat /\ Asks(u, a, b)
Type(u, a) == Asks(u, a, TextMessage)

\* Nobody runs the update any more, or its handler is slower than the stale window.
BecomeStale(u) ==
  /\ receipt[u] = "processing" /\ u \notin stale
  /\ stale' = stale \cup {u}
  /\ IF \E h \in Handlers : upd[h] = u THEN Fault ELSE UNCHANGED faults
  /\ UNCHANGED <<inbox, acked, receipt, store, chat, handlers>>

SessionExpires(a) ==
  /\ session[a].live
  /\ session' = [session EXCEPT ![a] = Expired(@)] /\ Fault
  /\ UNCHANGED <<inbox, acked, receipt, stale, record, created, effects, chat, handlers>>
-----------------------------------------------------------------------------
(* The receipt. *)

Claimable(u) ==
  \/ receipt[u] \in {"none", "failed"}
  \/ receipt[u] = "processing" /\ u \in stale

Idle(h) == pc[h] = "idle"
Returns(h) ==
  /\ pc' = [pc EXCEPT ![h] = "idle"] /\ upd' = [upd EXCEPT ![h] = None]
  /\ snap' = [snap EXCEPT ![h] = NoSession] /\ plan' = [plan EXCEPT ![h] = {}]
\* The handler goes on with a reply, or with an error and none.
GoTo(h, l, buttons) ==
  /\ pc' = [pc EXCEPT ![h] = l] /\ plan' = [plan EXCEPT ![h] = buttons]
  /\ snap' = [snap EXCEPT ![h] = NoSession] /\ UNCHANGED upd

ClaimUpdate(h, u) ==
  /\ Idle(h) /\ inbox[u] # None /\ u \notin acked /\ Claimable(u)
  /\ receipt' = [receipt EXCEPT ![u] = "processing"]
  /\ stale' = stale \ {u}
  /\ pc' = [pc EXCEPT ![h] = "dispatch"] /\ upd' = [upd EXCEPT ![h] = u]
  /\ UNCHANGED <<inbox, acked, store, chat, snap, plan, faults>>

\* A duplicate is answered with 200, whatever becomes of the first copy.
Duplicate(h, u) ==
  /\ Idle(h) /\ inbox[u] # None /\ u \notin acked /\ ~Claimable(u)
  /\ acked' = acked \cup {u}
  /\ UNCHANGED <<inbox, receipt, stale, store, chat, handlers, faults>>

\* Mutant: the status is not compared.
CompleteUnguarded(u) ==
  /\ receipt' = [receipt EXCEPT ![u] = "completed"]
  /\ stale' = stale \ {u}
\* completeReceipt: only a receipt in processing, whoever claimed it.
CompleteReceipt(u) ==
  /\ receipt[u] = "processing"
  /\ receipt' = [receipt EXCEPT ![u] = "completed"]
  /\ stale' = stale \ {u}

\* Plans the application did not complete: the router does it before the reply.
CompleteUpdate(h) ==
  /\ pc[h] = "complete"
  /\ \/ CompleteReceipt(upd[h]) /\ GoTo(h, "reply", plan[h]) /\ UNCHANGED faults
     \/ CompleteReceipt(upd[h]) /\ Fault /\ GoTo(h, "fail", {})   \* the answer is lost
     \/ /\ receipt[upd[h]] # "processing" /\ GoTo(h, "fail", {})
        /\ UNCHANGED <<receipt, stale, faults>>
     \/ Fault /\ GoTo(h, "fail", {}) /\ UNCHANGED <<receipt, stale>>
  /\ UNCHANGED <<inbox, acked, store, chat>>

\* Mutant: the status is not compared.
FailUpdateUnguarded(h) ==
  /\ pc[h] = "fail"
  /\ receipt' = [receipt EXCEPT ![upd[h]] = "failed"]
  /\ stale' = stale \ {upd[h]}
  /\ Returns(h)
  /\ UNCHANGED <<inbox, acked, store, chat, faults>>
\* FailUpdate also fails the receipt of a later handler of the same update.
FailUpdate(h) ==
  /\ pc[h] = "fail"
  /\ receipt' = [receipt EXCEPT ![upd[h]] = IF @ = "processing" THEN "failed" ELSE @]
  /\ stale' = stale \ {upd[h]}
  /\ Returns(h)
  /\ UNCHANGED <<inbox, acked, store, chat, faults>>

\* The error of FailUpdate is ignored: the request context may be over.
FailUpdateFails(h) ==
  /\ pc[h] = "fail" /\ Fault /\ Returns(h)
  /\ UNCHANGED <<inbox, acked, receipt, stale, store, chat>>

\* executePlan after the commit; a failed send is only logged.
ExecutePlan(h) ==
  /\ pc[h] = "reply"
  /\ \/ chat' = chat \cup plan[h] /\ UNCHANGED faults
     \/ Fault /\ UNCHANGED chat
  /\ acked' = acked \cup {upd[h]}
  /\ Returns(h)
  /\ UNCHANGED <<inbox, receipt, stale, store>>

\* The process dies, or its answer to Telegram is lost.
Crash(h) ==
  /\ ~Idle(h) /\ Fault /\ Returns(h)
  /\ UNCHANGED <<inbox, acked, receipt, stale, store, chat>>
-----------------------------------------------------------------------------
(* Dispatch. *)

Ask(h) == inbox[upd[h]].ask
By(h) == inbox[upd[h]].by
Dispatches(h, kind) == pc[h] = "dispatch" /\ Ask(h).kind = kind

\* The transaction commits with the receipt; its answer may be lost.
Commits(h, buttons) ==
  /\ CompleteReceipt(upd[h])
  /\ effects' = [effects EXCEPT ![upd[h]] = @ + 1]
  /\ \/ GoTo(h, "reply", buttons) /\ UNCHANGED faults
     \/ Fault /\ GoTo(h, "fail", {})
  /\ UNCHANGED <<inbox, acked, chat>>

\* Invalid input, no authorisation, a stale or expired session, a stale record, a
\* receipt another handler completed, a failing database: all roll back.
DispatchFails(h) ==
  /\ pc[h] \in {"dispatch", "act"} /\ GoTo(h, "fail", {})
  /\ UNCHANGED <<inbox, acked, receipt, stale, store, chat, faults>>

ListAdminBankAccounts(h) ==
  /\ Dispatches(h, "list")
  /\ GoTo(h, "complete", Card(record))
  /\ UNCHANGED <<inbox, acked, receipt, stale, store, chat, faults>>

\* Mutant: the conflict clause keeps the version.
StartedSessionSameVersion(h) ==
  [version |-> IF session[By(h)].version = 0 THEN 1 ELSE session[By(h)].version,
   state |-> Ask(h).flow, live |-> TRUE, step |-> 0,
   rv |-> Ask(h).rv, active |-> Ask(h).active, origin |-> upd[h]]
\* One row for an administrator: a new dialog replaces the old one.
StartedSession(h) ==
  [version |-> session[By(h)].version + 1, state |-> Ask(h).flow, live |-> TRUE, step |-> 0,
   rv |-> Ask(h).rv, active |-> Ask(h).active, origin |-> upd[h]]
StartSession(h) ==
  /\ Dispatches(h, "start")
  /\ session' = [session EXCEPT ![By(h)] = StartedSession(h)]
  /\ Commits(h, Keyboard(By(h), StartedSession(h)))
  /\ UNCHANGED <<record, created>>

\* A text is an answer if a session can be loaded; any error of the load makes it an
\* unsupported command, and the update is completed without effect.
LoadSession(h) ==
  /\ Dispatches(h, "text")
  /\ \/ /\ session[By(h)].live /\ UNCHANGED faults
        /\ snap' = [snap EXCEPT ![h] = session[By(h)]]
        /\ pc' = [pc EXCEPT ![h] = "act"] /\ UNCHANGED <<upd, plan>>
     \/ ~session[By(h)].live /\ GoTo(h, "complete", {}) /\ UNCHANGED faults
     \/ session[By(h)].live /\ Fault /\ GoTo(h, "complete", {})
  /\ UNCHANGED <<inbox, acked, receipt, stale, store, chat>>

\* lockAndVerifySession: the row of this administrator, unexpired, at this version.
Verified(a, owner, version) ==
  /\ owner = a /\ session[a].live /\ session[a].version = version

\* The payload of the next question replaces the one the handler loaded.
NextQuestion(s, version) ==
  [version |-> version + 1, state |-> s.state, live |-> TRUE, step |-> s.step + 1,
   rv |-> s.rv, active |-> s.active, origin |-> s.origin]
\* A text that is not the last one of its dialog.
EarlierText(h) ==
  /\ pc[h] = "act" /\ snap[h].state \in {"edit", "create"}
  /\ snap[h].step + 1 < Steps[snap[h].state]

\* Mutant: neither the check nor the guarded update.
AdvanceUnverified(h) ==
  LET next == NextQuestion(snap[h], session[By(h)].version)
  IN /\ EarlierText(h)
     /\ session' = [session EXCEPT ![By(h)] = next]
     /\ Commits(h, Keyboard(By(h), next))
     /\ UNCHANGED <<record, created>>
AdvanceSession(h) ==
  LET next == NextQuestion(snap[h], snap[h].version)
  IN /\ EarlierText(h)
     /\ Verified(By(h), By(h), snap[h].version)
     /\ session' = [session EXCEPT ![By(h)] = next]
     /\ Commits(h, Keyboard(By(h), next))
     /\ UNCHANGED <<record, created>>

\* The payload is emptied and the row expires; it stays for the next dialog.
FinishSession(a, state) ==
  session' = [session EXCEPT ![a] = EmptySession(session[a].version + 1, state)]

CancelSession(h) ==
  /\ Dispatches(h, "cancel")
  /\ Verified(By(h), Ask(h).owner, Ask(h).sv)
  /\ FinishSession(By(h), "cancelled")
  /\ Commits(h, {})
  /\ UNCHANGED <<record, created>>

\* The last text of a dialog.
LastText(h, flow) ==
  /\ pc[h] = "act" /\ snap[h].state = flow /\ snap[h].step + 1 >= Steps[flow]
  /\ Verified(By(h), By(h), snap[h].version) /\ session[By(h)].state = flow

CreateBankAccount(h) ==
  /\ LastText(h, "create")
  /\ created' = created \cup {upd[h]}
  /\ FinishSession(By(h), "completed")
  /\ Commits(h, {})
  /\ UNCHANGED record

\* Mutant: the expected version of the record is not compared.
UpdateUnguarded(h) ==
  /\ LastText(h, "edit")
  /\ record' = [record EXCEPT !.version = @ + 1]
  /\ FinishSession(By(h), "completed")
  /\ Commits(h, {})
  /\ UNCHANGED created
UpdateBankAccount(h) ==
  /\ LastText(h, "edit")
  /\ record.version = snap[h].rv
  /\ record' = [record EXCEPT !.version = @ + 1]
  /\ FinishSession(By(h), "completed")
  /\ Commits(h, {})
  /\ UNCHANGED created

\* The confirmation is taken from the button; the payload of the session is not read.
SetBankAccountActive(h) ==
  /\ Dispatches(h, "confirm")
  /\ Verified(By(h), Ask(h).owner, Ask(h).sv) /\ session[By(h)].state = "toggle"
  /\ record.version = Ask(h).rv /\ record.active # Ask(h).active
  /\ record' = [version |-> record.version + 1, active |-> Ask(h).active]
  /\ FinishSession(By(h), "completed")
  /\ Commits(h, {})
  /\ UNCHANGED created
-----------------------------------------------------------------------------
Handler(h) ==
  \/ CompleteUpdate(h) \/ FailUpdate(h) \/ ExecutePlan(h)
  \/ DispatchFails(h) \/ ListAdminBankAccounts(h) \/ StartSession(h) \/ LoadSession(h)
  \/ AdvanceSession(h) \/ CancelSession(h)
  \/ CreateBankAccount(h) \/ UpdateBankAccount(h) \/ SetBankAccountActive(h)

Deliver(u) == \E h \in Handlers : ClaimUpdate(h, u) \/ Duplicate(h, u)

Next ==
  \/ \E u \in Updates, a \in Admins : Type(u, a) \/ \E b \in chat : Press(u, a, b)
  \/ \E u \in Updates : BecomeStale(u) \/ Deliver(u)
  \/ \E a \in Admins : SessionExpires(a)
  \/ \E h \in Handlers : Handler(h) \/ FailUpdateFails(h) \/ Crash(h)

Spec == Init /\ [][Next]_vars

\* A request that runs goes on, time passes, and Telegram repeats an update that is not
\* answered.
FairSpec ==
  /\ Spec
  /\ \A h \in Handlers : WF_vars(Handler(h))
  /\ \A u \in Updates : WF_vars(BecomeStale(u)) /\ SF_vars(Deliver(u))
-----------------------------------------------------------------------------
(* Properties. *)

\* Types; a receipt is stale only while it is processed, a handler that runs has an
\* update, and a session that is not expired holds a dialog (FinishAdminSessionGuarded).
TypeOK ==
  /\ inbox \in [Updates -> Requests \cup {None}]
  /\ acked \subseteq Updates /\ created \subseteq Updates
  /\ receipt \in [Updates -> {"none", "processing", "completed", "failed"}]
  /\ stale \subseteq {u \in Updates : receipt[u] = "processing"}
  /\ session \in [Admins -> Sessions]
  /\ \A a \in Admins : session[a].live => session[a].state \in Flows
  /\ record \in [version : Nat, active : BOOLEAN]
  /\ chat \subseteq Buttons
  /\ pc \in [Handlers -> {"idle", "dispatch", "act", "complete", "reply", "fail"}]
  /\ upd \in [Handlers -> Updates \cup {None}]
  /\ \A h \in Handlers : pc[h] # "idle" => upd[h] \in Updates /\ inbox[upd[h]] # None
  /\ snap \in [Handlers -> Sessions]
  /\ plan \in [Handlers -> SUBSET Buttons]
  /\ effects \in [Updates -> Nat]
  /\ faults \in 0..FaultBound

\* At most one transaction commits for an update, and its receipt is completed, although
\* a slow handler, the one that reclaimed its receipt and a redelivery may all run.
EffectOnce ==
  \A u \in Updates : effects[u] <= 1 /\ (effects[u] = 1 => receipt[u] = "completed")

\* A late handler never reopens the receipt of an update that was completed
\* (FailTelegramUpdateReceipt compares the status).
CompletedIsFinal ==
  [][\A u \in Updates : receipt[u] = "completed" => receipt'[u] = "completed"]_vars

\* A confirmation button that still matches the session asks for what the session holds:
\* SetBankAccountActive trusts the button and never reads the payload.
ButtonsMatchSession ==
  \A b \in chat : b.kind = "confirm" =>
    LET s == session[b.owner] IN
      (s.live /\ s.version = b.sv) => s.state = b.flow /\ s.rv = b.rv /\ s.active = b.active

\* The record changes only when a live dialog ends that began at the version it
\* replaces, and a toggle sets what the dialog asked (UpdateBankAccount,
\* SetBankAccountActive): no change overwrites another that the administrator did not see.
ChangeAsAsked ==
  [][record' # record => \E a \in Admins :
       /\ session[a].live /\ session'[a].state = "completed"
       /\ session[a].state \in {"edit", "toggle"} /\ session[a].rv = record.version
       /\ session[a].state = "toggle" => record'.active = session[a].active]_vars

\* A session holds a dialog only since the update that started it: a handler that loaded
\* an older dialog cannot bring it back over a cancelled, finished or newer one.
DialogNotRevived ==
  [][\A a \in Admins : session'[a].origin # session[a].origin =>
       \/ session'[a].origin = None
       \/ LET u == session'[a].origin IN
            effects'[u] > effects[u] /\ inbox[u].by = a /\ inbox[u].ask.kind = "start"]_vars

\* "This is at-least-once delivery": an update Telegram stops repeating is completed.
AckedIsCompleted == \A u \in Updates : u \in acked ~> receipt[u] = "completed"
=============================================================================
