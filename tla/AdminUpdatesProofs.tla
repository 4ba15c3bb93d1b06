------------------------- MODULE AdminUpdatesProofs -------------------------
(***************************************************************************)
(* Proofs about AdminUpdates, for every number of updates, handlers and    *)
(* administrators, every length of the dialogs and every bound on faults.  *)
(***************************************************************************)
EXTENDS AdminUpdates, TLAPS

USE AdminUpdatesAssumption DEF Flows, Closed

\* A handler that runs has a request in its inbox.
LEMMA RunningHandler ==
  ASSUME TypeOK, NEW h \in Handlers, pc[h] # "idle"
  PROVE  /\ upd[h] \in Updates
         /\ inbox[upd[h]] \in Requests
         /\ By(h) \in Admins
         /\ Ask(h) \in Buttons \cup {TextMessage}
BY DEF TypeOK, By, Ask, Requests

\* The kind of a request says which buttons it can be.
LEMMA KindOfButton ==
  ASSUME NEW b \in Buttons \cup {TextMessage}
  PROVE  /\ b.kind = "start" => b \in StartButtons
         /\ b.kind = "confirm" => b \in ConfirmButtons
<1>1. TextMessage.kind = "text" /\ ListButton.kind = "list"
  BY DEF TextMessage, ListButton
<1>2. \A c \in StartButtons : c.kind = "start"
  BY DEF StartButtons
<1>3. \A c \in ConfirmButtons : c.kind = "confirm"
  BY DEF ConfirmButtons
<1>4. \A c \in CancelButtons : c.kind = "cancel"
  BY DEF CancelButtons
<1> QED
  BY <1>1, <1>2, <1>3, <1>4 DEF Buttons

\* A press of a start button names a dialog and a version.
LEMMA StartRequest ==
  ASSUME TypeOK, NEW h \in Handlers, Dispatches(h, "start")
  PROVE  Ask(h) \in StartButtons
<1>1. Ask(h) \in Buttons \cup {TextMessage}
  BY RunningHandler DEF Dispatches
<1>2. Ask(h).kind = "start"
  BY DEF Dispatches
<1> QED
  BY <1>1, <1>2, KindOfButton

\* A press of a confirmation button names the toggle of an administrator's session.
LEMMA ConfirmRequest ==
  ASSUME TypeOK, NEW h \in Handlers, Dispatches(h, "confirm")
  PROVE  Ask(h) \in ConfirmButtons
<1>1. Ask(h) \in Buttons \cup {TextMessage}
  BY RunningHandler DEF Dispatches
<1>2. Ask(h).kind = "confirm"
  BY DEF Dispatches
<1> QED
  BY <1>1, <1>2, KindOfButton

\* The buttons of a card are buttons.
LEMMA CardType == ASSUME NEW r \in [version : Nat, active : BOOLEAN] PROVE Card(r) \subseteq Buttons
BY DEF Card, StartButton, Buttons, StartButtons

\* So are those of a question.
LEMMA KeyboardType ==
  ASSUME NEW a \in Admins, NEW s \in Sessions PROVE Keyboard(a, s) \subseteq Buttons
<1>1. s.version \in Nat /\ s.rv \in Nat /\ s.active \in BOOLEAN
  BY DEF Sessions
<1>2. [kind |-> "confirm", flow |-> "toggle", owner |-> a, sv |-> s.version,
       rv |-> s.rv, active |-> s.active] \in ConfirmButtons
  BY <1>1 DEF ConfirmButtons
<1>3. [kind |-> "cancel", flow |-> None, owner |-> a, sv |-> s.version,
       rv |-> 0, active |-> FALSE] \in CancelButtons
  BY <1>1 DEF CancelButtons
<1> QED
  BY <1>2, <1>3 DEF Keyboard, Buttons

\* The session of an administrator who has none is one.
LEMMA NoSessionType == NoSession \in Sessions
BY DEF NoSession, EmptySession, Sessions

\* A session that expires or goes on to its next question stays a session.
LEMMA SessionChange ==
  ASSUME NEW s \in Sessions
  PROVE  Expired(s) \in Sessions /\ NextQuestion(s, s.version) \in Sessions
BY DEF Sessions, Expired, NextQuestion

\* What a commit does to the receipt, the effects and the handler keeps the types.
LEMMA CommitType ==
  ASSUME TypeOK, NEW h \in Handlers, pc[h] # "idle",
         NEW buttons \in SUBSET Buttons, Commits(h, buttons)
  PROVE  /\ inbox' \in [Updates -> Requests \cup {None}]
         /\ acked' \subseteq Updates
         /\ receipt' \in [Updates -> {"none", "processing", "completed", "failed"}]
         /\ stale' \subseteq {u \in Updates : receipt'[u] = "processing"}
         /\ chat' \subseteq Buttons
         /\ pc' \in [Handlers -> {"idle", "dispatch", "act", "complete", "reply", "fail"}]
         /\ upd' \in [Handlers -> Updates \cup {None}]
         /\ \A g \in Handlers : pc'[g] # "idle" => upd'[g] \in Updates /\ inbox'[upd'[g]] # None
         /\ snap' \in [Handlers -> Sessions]
         /\ plan' \in [Handlers -> SUBSET Buttons]
         /\ effects' \in [Updates -> Nat]
         /\ faults' \in 0..FaultBound
<1> upd[h] \in Updates
  BY RunningHandler
<1>1. CASE GoTo(h, "reply", buttons) /\ UNCHANGED faults
  BY <1>1, NoSessionType DEF Commits, CompleteReceipt, GoTo, TypeOK
<1>2. CASE Fault /\ GoTo(h, "fail", {})
  BY <1>2, NoSessionType DEF Commits, CompleteReceipt, GoTo, TypeOK, Fault
<1> QED
  BY <1>1, <1>2 DEF Commits

\* Ending a session keeps the types.
LEMMA FinishType ==
  ASSUME TypeOK, NEW a \in Admins, NEW state \in Closed, FinishSession(a, state)
  PROVE  /\ session' \in [Admins -> Sessions]
         /\ \A b \in Admins : session'[b].live => session'[b].state \in Flows
<1> DEFINE ended == EmptySession(session[a].version + 1, state)
<1>1. session[a].version + 1 \in Nat
  BY DEF TypeOK, Sessions
<1>2. ended \in Sessions /\ ~ended.live
  BY <1>1 DEF Sessions, EmptySession
<1>3. session' = [session EXCEPT ![a] = ended]
  BY DEF FinishSession
<1> HIDE DEF ended
<1> QED
  BY <1>2, <1>3 DEF TypeOK

\* Every step keeps the types.
LEMMA TypeStep == TypeOK /\ [Next]_vars => TypeOK'
<1> SUFFICES ASSUME TypeOK, [Next]_vars PROVE TypeOK'
  OBVIOUS
<1> USE NoSessionType
<1>1. ASSUME NEW u \in Updates, NEW a \in Admins, Type(u, a) \/ \E b \in chat : Press(u, a, b)
      PROVE  TypeOK'
  <2>1. PICK b \in Buttons \cup {TextMessage} : Asks(u, a, b)
    BY <1>1 DEF Type, Press, TypeOK
  <2>2. [by |-> a, ask |-> b] \in Requests
    BY DEF Requests
  <2> QED
    BY <2>1, <2>2 DEF Asks, TypeOK, store, handlers
<1>2. ASSUME NEW u \in Updates, BecomeStale(u) PROVE TypeOK'
  BY <1>2 DEF BecomeStale, Fault, TypeOK, store, handlers
<1>3. ASSUME NEW u \in Updates, NEW h \in Handlers, ClaimUpdate(h, u) PROVE TypeOK'
  BY <1>3 DEF ClaimUpdate, TypeOK, store
<1>4. ASSUME NEW u \in Updates, NEW h \in Handlers, Duplicate(h, u) PROVE TypeOK'
  BY <1>4 DEF Duplicate, TypeOK, store, handlers
<1>5. ASSUME NEW a \in Admins, SessionExpires(a) PROVE TypeOK'
  <2>1. Expired(session[a]) \in Sessions /\ ~Expired(session[a]).live
    BY SessionChange DEF TypeOK, Expired
  <2> QED
    BY <1>5, <2>1 DEF SessionExpires, Fault, TypeOK, handlers
<1>6. ASSUME NEW h \in Handlers, CompleteUpdate(h) PROVE TypeOK'
  BY <1>6, RunningHandler DEF CompleteUpdate, CompleteReceipt, GoTo, Fault, TypeOK, store
<1>7. ASSUME NEW h \in Handlers, FailUpdate(h) PROVE TypeOK'
  BY <1>7, RunningHandler DEF FailUpdate, Returns, TypeOK, store
<1>8. ASSUME NEW h \in Handlers, FailUpdateFails(h) \/ Crash(h) PROVE TypeOK'
  BY <1>8 DEF FailUpdateFails, Crash, Returns, Fault, TypeOK, store
<1>9. ASSUME NEW h \in Handlers, ExecutePlan(h) PROVE TypeOK'
  BY <1>9, RunningHandler DEF ExecutePlan, Returns, Fault, TypeOK, store
<1>10. ASSUME NEW h \in Handlers, DispatchFails(h) PROVE TypeOK'
  BY <1>10 DEF DispatchFails, GoTo, TypeOK, store
<1>11. ASSUME NEW h \in Handlers, ListAdminBankAccounts(h) PROVE TypeOK'
  <2>1. Card(record) \subseteq Buttons
    BY CardType DEF TypeOK
  <2> QED
    BY <1>11, <2>1 DEF ListAdminBankAccounts, Dispatches, GoTo, TypeOK, store
<1>12. ASSUME NEW h \in Handlers, StartSession(h) PROVE TypeOK'
  <2>1. By(h) \in Admins /\ upd[h] \in Updates
    BY <1>12, RunningHandler DEF StartSession, Dispatches
  <2>2. StartedSession(h) \in Sessions /\ StartedSession(h).state \in Flows
    BY <1>12, <2>1, StartRequest DEF StartSession, StartedSession, StartButtons, Sessions, TypeOK
  <2>3. Keyboard(By(h), StartedSession(h)) \subseteq Buttons
    BY <2>1, <2>2, KeyboardType
  <2>4. /\ session' \in [Admins -> Sessions]
        /\ \A a \in Admins : session'[a].live => session'[a].state \in Flows
    BY <1>12, <2>1, <2>2 DEF StartSession, TypeOK
  <2> QED
    BY <1>12, <2>3, <2>4, CommitType DEF StartSession, Dispatches, TypeOK
<1>13. ASSUME NEW h \in Handlers, LoadSession(h) PROVE TypeOK'
  <2>1. By(h) \in Admins
    BY <1>13, RunningHandler DEF LoadSession, Dispatches
  <2> QED
    BY <1>13, <2>1 DEF LoadSession, Dispatches, GoTo, Fault, TypeOK, store
<1>14. ASSUME NEW h \in Handlers, AdvanceSession(h) PROVE TypeOK'
  <2> DEFINE next == NextQuestion(snap[h], snap[h].version)
  <2>1. By(h) \in Admins /\ pc[h] # "idle"
    BY <1>14, RunningHandler DEF AdvanceSession, EarlierText
  <2>2. next \in Sessions /\ next.state \in Flows
    BY <1>14, SessionChange DEF AdvanceSession, EarlierText, TypeOK, NextQuestion
  <2>3. Keyboard(By(h), next) \subseteq Buttons
    BY <2>1, <2>2, KeyboardType
  <2>4. /\ session' = [session EXCEPT ![By(h)] = next]
        /\ Commits(h, Keyboard(By(h), next))
        /\ UNCHANGED <<record, created>>
    BY <1>14 DEF AdvanceSession
  <2> HIDE DEF next
  <2>5. /\ session' \in [Admins -> Sessions]
        /\ \A a \in Admins : session'[a].live => session'[a].state \in Flows
    BY <2>1, <2>2, <2>4 DEF TypeOK
  <2> QED
    BY <2>1, <2>3, <2>4, <2>5, CommitType DEF TypeOK
<1>15. ASSUME NEW h \in Handlers, CancelSession(h) PROVE TypeOK'
  <2>1. By(h) \in Admins
    BY <1>15, RunningHandler DEF CancelSession, Dispatches
  <2> QED
    BY <1>15, <2>1, FinishType, CommitType DEF CancelSession, Dispatches, TypeOK
<1>16. ASSUME NEW h \in Handlers, CreateBankAccount(h) PROVE TypeOK'
  <2>1. By(h) \in Admins /\ upd[h] \in Updates
    BY <1>16, RunningHandler DEF CreateBankAccount, LastText
  <2> QED
    BY <1>16, <2>1, FinishType, CommitType DEF CreateBankAccount, LastText, TypeOK
<1>17. ASSUME NEW h \in Handlers, UpdateBankAccount(h) PROVE TypeOK'
  <2>1. By(h) \in Admins
    BY <1>17, RunningHandler DEF UpdateBankAccount, LastText
  <2> QED
    BY <1>17, <2>1, FinishType, CommitType DEF UpdateBankAccount, LastText, TypeOK
<1>18. ASSUME NEW h \in Handlers, SetBankAccountActive(h) PROVE TypeOK'
  <2>1. By(h) \in Admins
    BY <1>18, RunningHandler DEF SetBankAccountActive, Dispatches
  <2>2. Ask(h).active \in BOOLEAN
    BY <1>18, ConfirmRequest DEF SetBankAccountActive, ConfirmButtons
  <2> QED
    BY <1>18, <2>1, <2>2, FinishType, CommitType DEF SetBankAccountActive, Dispatches, TypeOK
<1>19. CASE UNCHANGED vars
  BY <1>19 DEF vars, store, handlers, TypeOK
<1> QED
  BY <1>1, <1>2, <1>3, <1>4, <1>5, <1>6, <1>7, <1>8, <1>9, <1>10, <1>11, <1>12, <1>13, <1>14,
     <1>15, <1>16, <1>17, <1>18, <1>19 DEF Next, Handler, Deliver

\* The first states are well typed.
LEMMA TypeInit == Init => TypeOK
<1> SUFFICES ASSUME Init PROVE TypeOK
  OBVIOUS
<1>1. chat \subseteq Buttons
  BY CardType DEF Init, Buttons
<1>2. \A a \in Admins : ~session[a].live
  BY DEF Init, NoSession, EmptySession
<1> QED
  BY <1>1, <1>2, NoSessionType DEF Init, TypeOK

(* The receipts, the sessions of the handlers and the screens keep their types, a handler *)
(* that runs has a request, and a session that is not expired holds a dialog.             *)
THEOREM AdminTypeCorrect == Spec => []TypeOK
<1>1. TypeOK /\ [Next]_vars => TypeOK'
  BY TypeStep
<1> QED
  BY TypeInit, <1>1, PTL DEF Spec
-----------------------------------------------------------------------------
(* Receipts. *)

\* The inductive form of EffectOnce: only a completed update has taken effect.
Once == \A u \in Updates : effects[u] = 0 \/ (effects[u] = 1 /\ receipt[u] = "completed")

\* A step leaves the receipt and the effects of a completed update alone, and an update
\* takes effect together with the completion of its receipt.
LEMMA ReceiptStep ==
  ASSUME TypeOK, [Next]_vars, NEW u \in Updates
  PROVE  /\ receipt[u] = "completed" => receipt'[u] = "completed" /\ effects'[u] = effects[u]
         /\ \/ effects'[u] = effects[u]
            \/ effects'[u] = effects[u] + 1 /\ receipt'[u] = "completed"
<1> DEFINE P == /\ receipt[u] = "completed" => receipt'[u] = "completed" /\ effects'[u] = effects[u]
                /\ \/ effects'[u] = effects[u]
                   \/ effects'[u] = effects[u] + 1 /\ receipt'[u] = "completed"
<1>1. ASSUME UNCHANGED <<receipt, effects>> PROVE P
  BY <1>1
<1>2. ASSUME NEW v \in Updates, BecomeStale(v) PROVE P
  BY <1>2 DEF BecomeStale, store
<1>3. ASSUME NEW v \in Updates, NEW h \in Handlers, ClaimUpdate(h, v) PROVE P
  BY <1>3 DEF ClaimUpdate, Claimable, store, TypeOK
<1>4. ASSUME NEW h \in Handlers, NEW buttons, pc[h] # "idle", Commits(h, buttons) PROVE P
  <2>1. upd[h] \in Updates
    BY <1>4, RunningHandler
  <2> QED
    BY <1>4, <2>1 DEF Commits, CompleteReceipt, TypeOK
<1>5. ASSUME NEW h \in Handlers, CompleteUpdate(h) \/ FailUpdate(h) PROVE P
  <2>1. upd[h] \in Updates
    BY <1>5, RunningHandler DEF CompleteUpdate, FailUpdate
  <2> QED
    BY <1>5, <2>1 DEF CompleteUpdate, CompleteReceipt, FailUpdate, TypeOK, store
<1>6. ASSUME NEW h \in Handlers,
             StartSession(h) \/ AdvanceSession(h) \/ CancelSession(h) \/ CreateBankAccount(h)
               \/ UpdateBankAccount(h) \/ SetBankAccountActive(h)
      PROVE  P
  <2>1. \E buttons : Commits(h, buttons) /\ pc[h] # "idle"
    BY <1>6 DEF StartSession, AdvanceSession, CancelSession, CreateBankAccount, UpdateBankAccount,
                SetBankAccountActive, Dispatches, EarlierText, LastText
  <2> HIDE DEF P
  <2> QED
    BY <2>1, <1>4
<1>7. ASSUME NEW h \in Handlers,
             ExecutePlan(h) \/ DispatchFails(h) \/ ListAdminBankAccounts(h) \/ LoadSession(h)
               \/ FailUpdateFails(h) \/ Crash(h)
      PROVE  UNCHANGED <<receipt, effects>>
  BY <1>7 DEF ExecutePlan, DispatchFails, ListAdminBankAccounts, LoadSession, FailUpdateFails,
              Crash, store
<1>8. ASSUME NEW v \in Updates, NEW a \in Admins,
             Type(v, a) \/ \E b \in chat : Press(v, a, b)
      PROVE  UNCHANGED <<receipt, effects>>
  BY <1>8 DEF Type, Press, Asks, store
<1>9. ASSUME NEW v \in Updates, NEW h \in Handlers, Duplicate(h, v)
      PROVE  UNCHANGED <<receipt, effects>>
  BY <1>9 DEF Duplicate, store
<1>10. ASSUME NEW a \in Admins, SessionExpires(a) PROVE UNCHANGED <<receipt, effects>>
  BY <1>10 DEF SessionExpires
<1>11. ASSUME UNCHANGED vars PROVE UNCHANGED <<receipt, effects>>
  BY <1>11 DEF vars, store
<1> HIDE DEF P
<1>12. P
  BY <1>1, <1>2, <1>3, <1>5, <1>6, <1>7, <1>8, <1>9, <1>10, <1>11 DEF Next, Handler, Deliver
<1> QED
  BY <1>12 DEF P

\* Every step keeps Once.
LEMMA OnceStep == TypeOK /\ Once /\ [Next]_vars => Once'
<1> SUFFICES ASSUME TypeOK, Once, [Next]_vars, NEW u \in Updates
             PROVE  effects'[u] = 0 \/ (effects'[u] = 1 /\ receipt'[u] = "completed")
  BY DEF Once
<1>1. effects[u] \in Nat
  BY DEF TypeOK
<1> QED
  BY <1>1, ReceiptStep DEF Once

(* However many handlers and redeliveries an update has, at most one transaction commits  *)
(* for it, together with its receipt.                                                      *)
THEOREM UpdateTakesEffectOnce == Spec => []EffectOnce
<1>1. Init => Once
  BY DEF Init, Once
<1>2. Once => EffectOnce
  <2> SUFFICES ASSUME Once, NEW u \in Updates
               PROVE  effects[u] <= 1 /\ (effects[u] = 1 => receipt[u] = "completed")
    BY DEF EffectOnce
  <2>1. CASE effects[u] = 0
    BY <2>1
  <2>2. CASE effects[u] = 1 /\ receipt[u] = "completed"
    BY <2>2
  <2> QED
    BY <2>1, <2>2 DEF Once
<1> QED
  BY AdminTypeCorrect, OnceStep, <1>1, <1>2, PTL DEF Spec

(* No handler, late or not, reopens the receipt of a completed update. *)
THEOREM ReceiptCompletedIsFinal == Spec => CompletedIsFinal
<1>1. TypeOK /\ [Next]_vars =>
        [\A u \in Updates : receipt[u] = "completed" => receipt'[u] = "completed"]_vars
  BY ReceiptStep
<1> QED
  BY AdminTypeCorrect, <1>1, PTL DEF Spec, CompletedIsFinal
-----------------------------------------------------------------------------
(* Sessions. *)

Transaction(h) ==
  \/ StartSession(h) \/ AdvanceSession(h) \/ CancelSession(h)
  \/ CreateBankAccount(h) \/ UpdateBankAccount(h) \/ SetBankAccountActive(h)

\* A transaction gives the session of the administrator a new version and shows at most
\* the keyboard of that session.
LEMMA TransactionStep ==
  ASSUME TypeOK, NEW h \in Handlers, Transaction(h)
  PROVE  /\ pc[h] # "idle" /\ By(h) \in Admins
         /\ \E buttons : /\ Commits(h, buttons)
                         /\ buttons = {} \/ buttons = Keyboard(By(h), session'[By(h)])
         /\ session'[By(h)].version = session[By(h)].version + 1
         /\ \A a \in Admins \ {By(h)} : session'[a] = session[a]
<1>1. pc[h] # "idle"
  BY DEF Transaction, StartSession, AdvanceSession, CancelSession, CreateBankAccount,
         UpdateBankAccount, SetBankAccountActive, Dispatches, EarlierText, LastText
<1>2. By(h) \in Admins
  BY <1>1, RunningHandler
<1>3. session \in [Admins -> Sessions]
  BY DEF TypeOK
<1>4. CASE StartSession(h)
  <2>1. session'[By(h)] = StartedSession(h)
    BY <1>2, <1>3, <1>4 DEF StartSession
  <2>2. StartedSession(h).version = session[By(h)].version + 1
    BY DEF StartedSession
  <2> QED
    BY <1>1, <1>2, <1>3, <1>4, <2>1, <2>2 DEF StartSession
<1>5. CASE AdvanceSession(h)
  <2>1. session'[By(h)] = NextQuestion(snap[h], snap[h].version)
    BY <1>2, <1>3, <1>5 DEF AdvanceSession
  <2>2. NextQuestion(snap[h], snap[h].version).version = session[By(h)].version + 1
    BY <1>5 DEF AdvanceSession, NextQuestion, Verified
  <2> QED
    BY <1>1, <1>2, <1>3, <1>5, <2>1, <2>2 DEF AdvanceSession
<1>6. ASSUME NEW state, FinishSession(By(h), state), Commits(h, {}) 
      PROVE  /\ \E buttons : /\ Commits(h, buttons)
                             /\ buttons = {} \/ buttons = Keyboard(By(h), session'[By(h)])
             /\ session'[By(h)].version = session[By(h)].version + 1
             /\ \A a \in Admins \ {By(h)} : session'[a] = session[a]
  <2>1. EmptySession(session[By(h)].version + 1, state).version = session[By(h)].version + 1
    BY DEF EmptySession
  <2>2. session' = [session EXCEPT ![By(h)] = EmptySession(session[By(h)].version + 1, state)]
    BY <1>6 DEF FinishSession
  <2> QED
    BY <1>2, <1>3, <1>6, <2>1, <2>2
<1>7. CASE CancelSession(h)
  BY <1>1, <1>2, <1>6, <1>7 DEF CancelSession
<1>8. CASE CreateBankAccount(h)
  BY <1>1, <1>2, <1>6, <1>8 DEF CreateBankAccount
<1>9. CASE UpdateBankAccount(h)
  BY <1>1, <1>2, <1>6, <1>9 DEF UpdateBankAccount
<1>10. CASE SetBankAccountActive(h)
  BY <1>1, <1>2, <1>6, <1>10 DEF SetBankAccountActive
<1> QED
  BY <1>4, <1>5, <1>7, <1>8, <1>9, <1>10 DEF Transaction

\* What a step may do to a session, an update, a handler's snapshot and the screens.
SessionMoves(a) ==
  \/ session'[a] = session[a] \/ session'[a] = Expired(session[a])
  \/ session'[a].version = session[a].version + 1
InboxKeeps(u) ==
  \/ inbox'[u] = inbox[u]
  \/ inbox[u] = None /\ inbox'[u].ask \in chat \cup {TextMessage}
SnapshotMoves(h) ==
  pc'[h] = "act" =>
    /\ upd'[h] = upd[h] /\ pc[h] # "idle"
    /\ \/ pc[h] = "act" /\ snap'[h] = snap[h]
       \/ snap'[h] = session[By(h)] /\ session' = session
Shown(b) == b \in chat \/ \E h \in Handlers : b \in plan[h]
ScreenMoves ==
  /\ \A b \in chat' : Shown(b)
  /\ \A h \in Handlers : \A b \in plan'[h] :
       Shown(b) \/ b \in Card(record) \/ \E a \in Admins : b \in Keyboard(a, session'[a])
Frame ==
  /\ \A a \in Admins : SessionMoves(a)
  /\ \A u \in Updates : InboxKeeps(u)
  /\ \A h \in Handlers : SnapshotMoves(h)
  /\ ScreenMoves

\* A handler that returns or goes on with a reply shows only what it says.
LEMMA HandlerMoves ==
  ASSUME TypeOK, NEW h \in Handlers, NEW buttons, NEW l \in {"complete", "reply", "fail"},
         Returns(h) \/ GoTo(h, l, buttons)
  PROVE  /\ \A g \in Handlers : SnapshotMoves(g)
         /\ \A g \in Handlers : \A b \in plan'[g] : Shown(b) \/ b \in buttons
BY DEF TypeOK, Returns, GoTo, SnapshotMoves, Shown

\* Every step of the specification stays within the frame.
LEMMA StepFrame == ASSUME TypeOK, [Next]_vars PROVE Frame
<1> USE DEF Frame
<1>1. ASSUME NEW u \in Updates, NEW a \in Admins, Type(u, a) \/ \E b \in chat : Press(u, a, b)
      PROVE  Frame
  <2>1. PICK b \in chat \cup {TextMessage} : Asks(u, a, b)
    BY <1>1 DEF Type, Press
  <2>2. \A v \in Updates : InboxKeeps(v)
    BY <2>1 DEF Asks, TypeOK, InboxKeeps
  <2> QED
    BY <2>1, <2>2 DEF Asks, store, handlers, SessionMoves, SnapshotMoves, ScreenMoves, Shown, TypeOK
<1>2. ASSUME NEW u \in Updates, BecomeStale(u) \/ \E h \in Handlers : Duplicate(h, u) PROVE Frame
  BY <1>2 DEF BecomeStale, Duplicate, store, handlers, SessionMoves, InboxKeeps, SnapshotMoves,
              ScreenMoves, Shown, TypeOK
<1>3. ASSUME NEW u \in Updates, NEW h \in Handlers, ClaimUpdate(h, u) PROVE Frame
  BY <1>3 DEF ClaimUpdate, Idle, store, SessionMoves, InboxKeeps, SnapshotMoves, ScreenMoves,
              Shown, TypeOK
<1>4. ASSUME NEW a \in Admins, SessionExpires(a) PROVE Frame
  BY <1>4 DEF SessionExpires, handlers, SessionMoves, InboxKeeps, SnapshotMoves, ScreenMoves,
              Shown, TypeOK
<1>5. ASSUME NEW h \in Handlers,
             CompleteUpdate(h) \/ FailUpdate(h) \/ DispatchFails(h) \/ FailUpdateFails(h) \/ Crash(h)
      PROVE  Frame
  <2>1. UNCHANGED <<inbox, session, chat>>
    BY <1>5 DEF CompleteUpdate, FailUpdate, DispatchFails, FailUpdateFails, Crash, store
  <2>2. \/ Returns(h) \/ GoTo(h, "fail", {}) \/ GoTo(h, "reply", plan[h])
    BY <1>5 DEF CompleteUpdate, FailUpdate, DispatchFails, FailUpdateFails, Crash
  <2>3. /\ \A g \in Handlers : SnapshotMoves(g)
        /\ \A g \in Handlers : \A b \in plan'[g] : Shown(b)
    BY <2>2, HandlerMoves DEF Shown
  <2> QED
    BY <2>1, <2>3 DEF SessionMoves, InboxKeeps, ScreenMoves, Shown
<1>6. ASSUME NEW h \in Handlers, ExecutePlan(h) PROVE Frame
  <2>1. /\ \A g \in Handlers : SnapshotMoves(g)
        /\ \A g \in Handlers : \A b \in plan'[g] : Shown(b)
    BY <1>6, HandlerMoves DEF ExecutePlan, Shown
  <2>2. \A b \in chat' : Shown(b)
    BY <1>6 DEF ExecutePlan, Shown
  <2> QED
    BY <1>6, <2>1, <2>2 DEF ExecutePlan, store, SessionMoves, InboxKeeps, ScreenMoves
<1>7. ASSUME NEW h \in Handlers, ListAdminBankAccounts(h) PROVE Frame
  <2>1. /\ \A g \in Handlers : SnapshotMoves(g)
        /\ \A g \in Handlers : \A b \in plan'[g] : Shown(b) \/ b \in Card(record)
    BY <1>7, HandlerMoves DEF ListAdminBankAccounts
  <2> QED
    BY <1>7, <2>1 DEF ListAdminBankAccounts, store, SessionMoves, InboxKeeps, ScreenMoves, Shown
<1>8. ASSUME NEW h \in Handlers, LoadSession(h) PROVE Frame
  <2>1. UNCHANGED <<inbox, session, chat>>
    BY <1>8 DEF LoadSession, store
  <2>2. CASE GoTo(h, "complete", {})
    <3>1. /\ \A g \in Handlers : SnapshotMoves(g)
          /\ \A g \in Handlers : \A b \in plan'[g] : Shown(b)
      BY <2>2, HandlerMoves
    <3> QED
      BY <2>1, <3>1 DEF SessionMoves, InboxKeeps, ScreenMoves, Shown
  <2>3. CASE /\ snap' = [snap EXCEPT ![h] = session[By(h)]]
             /\ pc' = [pc EXCEPT ![h] = "act"] /\ UNCHANGED <<upd, plan>>
    BY <1>8, <2>1, <2>3 DEF LoadSession, Dispatches, SessionMoves, InboxKeeps, SnapshotMoves,
                            ScreenMoves, Shown, TypeOK
  <2> QED
    BY <1>8, <2>2, <2>3 DEF LoadSession
<1>9. ASSUME NEW h \in Handlers, Transaction(h) PROVE Frame
  <2>1. PICK buttons : /\ Commits(h, buttons)
                       /\ buttons = {} \/ buttons = Keyboard(By(h), session'[By(h)])
    BY <1>9, TransactionStep
  <2>2. By(h) \in Admins /\ \A a \in Admins : SessionMoves(a)
    BY <1>9, TransactionStep DEF SessionMoves
  <2>3. /\ \A g \in Handlers : SnapshotMoves(g)
        /\ \A g \in Handlers : \A b \in plan'[g] : Shown(b) \/ b \in buttons
    BY <2>1, HandlerMoves DEF Commits
  <2>4. UNCHANGED <<inbox, chat>>
    BY <2>1 DEF Commits
  <2> QED
    BY <2>1, <2>2, <2>3, <2>4 DEF InboxKeeps, ScreenMoves, Shown
<1>10. ASSUME UNCHANGED vars PROVE Frame
  BY <1>10 DEF vars, store, handlers, SessionMoves, InboxKeeps, SnapshotMoves, ScreenMoves,
               Shown, TypeOK
<1> HIDE DEF Frame
<1> QED
  BY <1>1, <1>2, <1>3, <1>4, <1>5, <1>6, <1>7, <1>8, <1>9, <1>10
  DEF Next, Handler, Deliver, Transaction

\* What a handler loaded is the session itself, as long as the version is the same and
\* the session has not expired.
Snapshots ==
  \A h \in Handlers : pc[h] = "act" =>
    /\ snap[h].version <= session[By(h)].version
    /\ (session[By(h)].live /\ session[By(h)].version = snap[h].version) =>
         snap[h] = session[By(h)]

\* Every step keeps the loaded sessions current.
LEMMA SnapshotsStep == TypeOK /\ Snapshots /\ [Next]_vars => Snapshots'
<1> SUFFICES ASSUME TypeOK, Snapshots, [Next]_vars, NEW h \in Handlers, pc'[h] = "act"
             PROVE  /\ snap'[h].version <= session'[By(h)'].version
                    /\ (session'[By(h)'].live /\ session'[By(h)'].version = snap'[h].version) =>
                         snap'[h] = session'[By(h)']
  BY DEF Snapshots
<1>1. /\ upd'[h] = upd[h] /\ pc[h] # "idle"
      /\ \/ pc[h] = "act" /\ snap'[h] = snap[h]
         \/ snap'[h] = session[By(h)] /\ session' = session
  BY StepFrame DEF Frame, SnapshotMoves
<1>2. upd[h] \in Updates /\ inbox[upd[h]] # None /\ By(h) \in Admins
  BY <1>1, RunningHandler DEF TypeOK
<1>3. By(h)' = By(h)
  BY <1>1, <1>2, StepFrame DEF Frame, InboxKeeps, By
<1>4. SessionMoves(By(h))
  BY <1>2, StepFrame DEF Frame
<1>5. /\ session[By(h)].version \in Nat /\ snap[h].version \in Nat
  BY <1>2 DEF TypeOK, Sessions
<1>6. CASE snap'[h] = session[By(h)] /\ session' = session
  BY <1>3, <1>5, <1>6
<1>7. CASE pc[h] = "act" /\ snap'[h] = snap[h]
  BY <1>3, <1>4, <1>5, <1>7 DEF Snapshots, SessionMoves, Expired
<1> QED
  BY <1>1, <1>6, <1>7

\* The inductive form of ButtonsMatchSession: also the buttons of replies that are not
\* sent yet and of presses that are not handled yet, and none is ahead of its session.
Matches(b) ==
  b.kind = "confirm" =>
    /\ b.owner \in Admins /\ b.sv \in Nat /\ b.sv <= session[b.owner].version
    /\ (session[b.owner].live /\ session[b.owner].version = b.sv) =>
         /\ session[b.owner].state = b.flow /\ session[b.owner].rv = b.rv
         /\ session[b.owner].active = b.active
ButtonsCurrent ==
  /\ \A b : Shown(b) => Matches(b)
  /\ \A u \in Updates : inbox[u] # None => Matches(inbox[u].ask)

\* A button that matches goes on to match.
LEMMA MatchesStep ==
  ASSUME TypeOK, [Next]_vars, NEW b, Matches(b)
  PROVE  Matches(b)'
<1> SUFFICES ASSUME b.kind = "confirm"
             PROVE  /\ b.owner \in Admins /\ b.sv \in Nat /\ b.sv <= session'[b.owner].version
                    /\ (session'[b.owner].live /\ session'[b.owner].version = b.sv) =>
                         /\ session'[b.owner].state = b.flow /\ session'[b.owner].rv = b.rv
                         /\ session'[b.owner].active = b.active
  BY DEF Matches
<1>1. b.owner \in Admins /\ b.sv \in Nat
  BY DEF Matches
<1>2. SessionMoves(b.owner) /\ session[b.owner].version \in Nat
  BY <1>1, StepFrame DEF Frame, TypeOK, Sessions
<1> QED
  BY <1>1, <1>2 DEF Matches, SessionMoves, Expired

\* A new keyboard matches the session it is made from; a list has no confirmation.
LEMMA NewButtonsMatch ==
  ASSUME TypeOK'
  PROVE  /\ \A a \in Admins : \A b \in Keyboard(a, session'[a]) : Matches(b)'
         /\ \A b \in Card(record) : Matches(b)'
<1>1. ASSUME NEW a \in Admins, NEW b \in Keyboard(a, session'[a]) PROVE Matches(b)'
  <2>1. session'[a].version \in Nat
    BY DEF TypeOK, Sessions
  <2>2. CASE session'[a].state = "toggle"
    BY <1>1, <2>1, <2>2 DEF Keyboard, Matches
  <2>3. CASE session'[a].state # "toggle"
    BY <1>1, <2>3 DEF Keyboard, Matches
  <2> QED
    BY <2>2, <2>3
<1>2. \A b \in Card(record) : b.kind = "start"
  BY DEF Card, StartButton
<1> QED
  BY <1>1, <1>2 DEF Matches

\* Every step keeps the buttons current.
LEMMA ButtonsStep == TypeOK /\ TypeOK' /\ ButtonsCurrent /\ [Next]_vars => ButtonsCurrent'
<1> SUFFICES ASSUME TypeOK, TypeOK', ButtonsCurrent, [Next]_vars PROVE ButtonsCurrent'
  OBVIOUS
<1>1. \A b : Shown(b) => Matches(b)'
  BY MatchesStep DEF ButtonsCurrent
<1>2. ASSUME NEW b, Shown(b)' PROVE Matches(b)'
  <2>1. b \in chat' \/ \E h \in Handlers : b \in plan'[h]
    BY <1>2 DEF Shown
  <2>2. Shown(b) \/ b \in Card(record) \/ \E a \in Admins : b \in Keyboard(a, session'[a])
    BY <2>1, StepFrame DEF Frame, ScreenMoves
  <2> QED
    BY <1>1, <2>2, NewButtonsMatch
<1>3. ASSUME NEW u \in Updates, inbox'[u] # None, NEW b, b = inbox'[u].ask PROVE Matches(b)'
  <2>1. CASE inbox'[u] = inbox[u]
    <3>1. Matches(inbox[u].ask)
      BY <1>3, <2>1 DEF ButtonsCurrent
    <3>2. Matches(b)
      BY <1>3, <2>1, <3>1 DEF Matches
    <3> QED
      BY <3>2, MatchesStep
  <2>2. CASE inbox'[u].ask \in chat \cup {TextMessage}
    <3>1. TextMessage.kind = "text"
      BY DEF TextMessage
    <3>2. CASE b \in chat
      BY <1>1, <3>2 DEF Shown
    <3>3. CASE b = TextMessage
      BY <3>1, <3>3 DEF Matches
    <3> QED
      BY <1>3, <2>2, <3>2, <3>3
  <2> QED
    BY <2>1, <2>2, StepFrame DEF Frame, InboxKeeps
<1>4. \A u \in Updates : inbox'[u] # None => \A b : b = inbox'[u].ask => Matches(b)'
  BY <1>3
<1>5. (\A u \in Updates : inbox[u] # None => Matches(inbox[u].ask))'
  BY <1>4 DEF Matches
<1>6. (\A b : Shown(b) => Matches(b))'
  BY <1>2
<1> QED
  BY <1>5, <1>6 DEF ButtonsCurrent

SessionInv == TypeOK /\ Snapshots /\ ButtonsCurrent

\* The invariant of sessions, buttons and loaded sessions always holds.
LEMMA SessionInvariant == Spec => []SessionInv
<1>1. Init => Snapshots
  BY DEF Init, Snapshots
<1>2. Init => ButtonsCurrent
  <2> SUFFICES ASSUME Init PROVE ButtonsCurrent
    OBVIOUS
  <2>1. \A r : \A b \in Card(r) : b.kind = "start"
    BY DEF Card, StartButton
  <2>2. \A b : Shown(b) => b.kind \in {"start", "list"}
    BY <2>1 DEF Init, Shown, ListButton
  <2> QED
    BY <2>2 DEF ButtonsCurrent, Matches, Init
<1> QED
  BY AdminTypeCorrect, SnapshotsStep, ButtonsStep, <1>1, <1>2, PTL DEF Spec, SessionInv

(* A confirmation button that still fits the session asks for what the session holds, so   *)
(* SetBankAccountActive may trust the button.                                               *)
THEOREM ButtonsAlwaysMatch == Spec => []ButtonsMatchSession
<1>1. SessionInv => ButtonsMatchSession
  BY DEF SessionInv, ButtonsCurrent, Shown, Matches, ButtonsMatchSession
<1> QED
  BY SessionInvariant, <1>1, PTL

\* The session and the record move only in a transaction, and a session also by expiry.
LEMMA OnlyTransactions ==
  ASSUME [Next]_vars
  PROVE  \/ UNCHANGED <<session, record>>
         \/ UNCHANGED record /\ \E a \in Admins : session' = [session EXCEPT ![a] = Expired(@)]
         \/ \E h \in Handlers : Transaction(h)
<1>1. ASSUME NEW h \in Handlers,
             CompleteUpdate(h) \/ FailUpdate(h) \/ ExecutePlan(h) \/ DispatchFails(h)
               \/ ListAdminBankAccounts(h) \/ LoadSession(h) \/ FailUpdateFails(h) \/ Crash(h)
      PROVE  UNCHANGED <<session, record>>
  BY <1>1 DEF CompleteUpdate, FailUpdate, ExecutePlan, DispatchFails, ListAdminBankAccounts,
              LoadSession, FailUpdateFails, Crash, store
<1>2. ASSUME NEW u \in Updates,
             \/ \E a \in Admins : Type(u, a) \/ \E b \in chat : Press(u, a, b)
             \/ BecomeStale(u) \/ Deliver(u)
      PROVE  UNCHANGED <<session, record>>
  BY <1>2 DEF Type, Press, Asks, BecomeStale, Deliver, ClaimUpdate, Duplicate, store
<1>3. ASSUME NEW a \in Admins, SessionExpires(a)
      PROVE  UNCHANGED record /\ session' = [session EXCEPT ![a] = Expired(@)]
  BY <1>3 DEF SessionExpires
<1>4. ASSUME UNCHANGED vars PROVE UNCHANGED <<session, record>>
  BY <1>4 DEF vars, store
<1> QED
  BY <1>1, <1>2, <1>3, <1>4 DEF Next, Handler, Transaction

\* The end of a dialog leaves a completed session without a dialog.
LEMMA FinishStep ==
  ASSUME TypeOK, NEW a \in Admins, NEW state, FinishSession(a, state)
  PROVE  session'[a].state = state /\ session'[a].origin = None
<1>1. session' = [session EXCEPT ![a] = EmptySession(session[a].version + 1, state)]
  BY DEF FinishSession
<1>2. session'[a] = EmptySession(session[a].version + 1, state)
  BY <1>1 DEF TypeOK
<1> QED
  BY <1>2 DEF EmptySession

Asked(a) ==
  /\ session[a].live /\ session'[a].state = "completed"
  /\ session[a].state \in {"edit", "toggle"} /\ session[a].rv = record.version
  /\ session[a].state = "toggle" => record'.active = session[a].active

\* A step that changes the record is the end of a dialog that asked for it.
LEMMA ChangeStep ==
  ASSUME SessionInv, [Next]_vars, record' # record
  PROVE  \E a \in Admins : Asked(a)
<1> USE DEF SessionInv
<1>1. PICK h \in Handlers : Transaction(h)
  BY OnlyTransactions
<1>2. By(h) \in Admins /\ upd[h] \in Updates /\ inbox[upd[h]] # None /\ pc[h] # "idle"
  BY <1>1, TransactionStep, RunningHandler DEF TypeOK
<1>3. UpdateBankAccount(h) \/ SetBankAccountActive(h)
  BY <1>1 DEF Transaction, StartSession, AdvanceSession, CancelSession, CreateBankAccount
<1>4. CASE UpdateBankAccount(h)
  <2>1. /\ session[By(h)].live /\ session[By(h)].state = "edit"
        /\ record.version = snap[h].rv /\ snap[h] = session[By(h)]
        /\ FinishSession(By(h), "completed")
    BY <1>4 DEF UpdateBankAccount, LastText, Verified, Snapshots
  <2>2. session'[By(h)].state = "completed"
    BY <1>2, <2>1, FinishStep
  <2> QED
    BY <1>2, <2>1, <2>2 DEF Asked
<1>5. CASE SetBankAccountActive(h)
  <2>1. /\ Ask(h).kind = "confirm" /\ Ask(h).owner = By(h)
        /\ session[By(h)].live /\ session[By(h)].version = Ask(h).sv
        /\ session[By(h)].state = "toggle" /\ record.version = Ask(h).rv
        /\ FinishSession(By(h), "completed")
    BY <1>5 DEF SetBankAccountActive, Dispatches, Verified
  <2>2. record'.active = Ask(h).active
    BY <1>5 DEF SetBankAccountActive
  <2>3. Matches(Ask(h))
    BY <1>2 DEF ButtonsCurrent, Ask
  <2>4. session[By(h)].rv = Ask(h).rv /\ session[By(h)].active = Ask(h).active
    BY <2>1, <2>3 DEF Matches
  <2>5. session'[By(h)].state = "completed"
    BY <1>2, <2>1, FinishStep
  <2> QED
    BY <1>2, <2>1, <2>2, <2>4, <2>5 DEF Asked
<1> QED
  BY <1>3, <1>4, <1>5

(* The bank account changes only at the end of a live dialog that began at the version it  *)
(* replaces, to what that dialog asked: no change overwrites one nobody has seen.           *)
THEOREM ChangesAreAsked == Spec => ChangeAsAsked
<1>1. SessionInv /\ [Next]_vars =>
        [record' # record => \E a \in Admins :
           /\ session[a].live /\ session'[a].state = "completed"
           /\ session[a].state \in {"edit", "toggle"} /\ session[a].rv = record.version
           /\ session[a].state = "toggle" => record'.active = session[a].active]_vars
  BY ChangeStep DEF Asked
<1> QED
  BY SessionInvariant, <1>1, PTL DEF Spec, ChangeAsAsked

\* A step that changes the dialog of a session ends it, or is the effect of its start.
LEMMA DialogStep ==
  ASSUME SessionInv, [Next]_vars, NEW a \in Admins, session'[a].origin # session[a].origin
  PROVE  \/ session'[a].origin = None
         \/ LET u == session'[a].origin IN
              effects'[u] > effects[u] /\ inbox[u].by = a /\ inbox[u].ask.kind = "start"
<1> USE DEF SessionInv
<1>1. session \in [Admins -> Sessions]
  BY DEF TypeOK
<1>2. ASSUME NEW b \in Admins, session' = [session EXCEPT ![b] = Expired(@)] PROVE FALSE
  BY <1>1, <1>2 DEF Expired
<1>3. PICK h \in Handlers : Transaction(h)
  BY <1>2, OnlyTransactions
<1>4. a = By(h)
  BY <1>3, TransactionStep
<1>5. upd[h] \in Updates
  BY <1>3, TransactionStep, RunningHandler
<1>6. CASE StartSession(h)
  <2>1. session'[a] = StartedSession(h)
    BY <1>1, <1>4, <1>6 DEF StartSession
  <2>2. session'[a].origin = upd[h]
    BY <2>1 DEF StartedSession
  <2>3. effects' = [effects EXCEPT ![upd[h]] = @ + 1]
    BY <1>6 DEF StartSession, Commits
  <2>4. effects'[upd[h]] > effects[upd[h]]
    BY <1>5, <2>3 DEF TypeOK
  <2> QED
    BY <1>4, <1>6, <2>2, <2>4 DEF StartSession, Dispatches, Ask, By
<1>7. CASE AdvanceSession(h)
  <2>1. snap[h] = session[a]
    BY <1>4, <1>7 DEF AdvanceSession, EarlierText, Verified, Snapshots
  <2>2. session'[a] = NextQuestion(snap[h], snap[h].version)
    BY <1>1, <1>4, <1>7 DEF AdvanceSession
  <2>3. session'[a].origin = session[a].origin
    BY <2>1, <2>2 DEF NextQuestion
  <2> QED
    BY <2>3
<1>8. CASE \E state : FinishSession(By(h), state)
  BY <1>4, <1>8, FinishStep
<1> QED
  BY <1>3, <1>6, <1>7, <1>8
  DEF Transaction, CancelSession, CreateBankAccount, UpdateBankAccount, SetBankAccountActive

(* An administrator's session holds a dialog only since the update that started it: a      *)
(* handler that loaded an older dialog never brings it back.                                *)
THEOREM DialogsAreNotRevived == Spec => DialogNotRevived
<1>1. SessionInv /\ [Next]_vars =>
        [\A a \in Admins : session'[a].origin # session[a].origin =>
           \/ session'[a].origin = None
           \/ LET u == session'[a].origin IN
                effects'[u] > effects[u] /\ inbox[u].by = a /\ inbox[u].ask.kind = "start"]_vars
  BY DialogStep
<1> QED
  BY SessionInvariant, <1>1, PTL DEF Spec, DialogNotRevived
=============================================================================
