------------------------------- MODULE Runner -------------------------------
(***************************************************************************)
(* The worker process: one loop that serves order expiry, payment events,  *)
(* delivery, provider reconciliation and the health check in turn, from    *)
(* tickers whose channels hold one tick.  Runs have a deadline; a panic is *)
(* recovered in delivery and reconciliation and ends the process in the    *)
(* other jobs; the container is restarted unless it was told to stop.      *)
(*                                                                         *)
(* A poisonous event is one whose processing panics, however often it is   *)
(* tried.  What a run does besides is in the modules of the jobs.          *)
(***************************************************************************)
EXTENDS Naturals, Sequences, FiniteSets

CONSTANTS Events,        \* payment events
          Poison,        \* those whose processing panics
          MaxAttempts,   \* max_attempts of an event
          BatchSize,     \* PAYMENT_EVENT_BATCH_SIZE
          Reconciling,   \* PAYMENT_RECONCILIATION_ENABLED
          CrashBound     \* bound on the deaths of the process for other reasons

ASSUME RunnerAssumption ==
  /\ Poison \subseteq Events
  /\ MaxAttempts \in Nat \ {0} /\ BatchSize \in Nat \ {0} /\ CrashBound \in Nat
  /\ Reconciling \in BOOLEAN

VARIABLES
  at,         \* the job that runs, "select", "down" or "stopped"
  startup,    \* the runs still to make before the loop is entered
  ticks,      \* the jobs whose ticker channel holds a tick
  signalled,  \* SIGTERM arrived: the context of the process is cancelled
  batch,      \* events the payment run has claimed and not yet processed
  claimed,    \* the payment run has claimed its batch
  status,     \* of an event; "stale" is processing for longer than the stale timeout
  attempts,
  crashes

process == <<at, startup, ticks, signalled>>
memory == <<batch, claimed>>
events == <<status, attempts>>
vars == <<process, memory, events, crashes>>

\* The jobs that are configured, in the order of their first runs.
Startup == <<"expiry", "payment", "delivery">>
             \o IF Reconciling THEN <<"reconciliation">> ELSE <<>>
Jobs == {Startup[i] : i \in DOMAIN Startup} \cup {"health"}
Recovering == {"delivery", "reconciliation"}

Init ==
  /\ at = "down" /\ startup = <<>> /\ ticks = {} /\ signalled = FALSE
  /\ batch = {} /\ claimed = FALSE
  /\ status = [e \in Events |-> "received"]
  /\ attempts = [e \in Events |-> 0]
  /\ crashes = 0
-----------------------------------------------------------------------------
(* The process. *)

\* The container starts: the tickers are made, and the first of the initial runs.
Run ==
  /\ at = "down" /\ ~signalled
  /\ at' = Head(Startup) /\ startup' = Tail(Startup) /\ ticks' = {}
  /\ UNCHANGED <<signalled, memory, events, crashes>>

Up == at \notin {"down", "stopped"}

\* A ticker fires; a tick that finds its channel full is dropped.
Tick(j) ==
  /\ Up /\ j \notin ticks
  /\ ticks' = ticks \cup {j}
  /\ UNCHANGED <<at, startup, signalled, memory, events, crashes>>

\* The job returns, with or without an error, at the latest soon after its deadline:
\* the next initial run follows, or the loop.
Continue ==
  /\ at' = IF startup = <<>> THEN "select" ELSE Head(startup)
  /\ startup' = IF startup = <<>> THEN startup ELSE Tail(startup)
  /\ batch' = {} /\ claimed' = FALSE
  /\ UNCHANGED <<ticks, signalled>>

Return(j) == at = j /\ Continue /\ UNCHANGED <<events, crashes>>

\* The process is gone, its memory with it.
Die == /\ at' = "down" /\ startup' = <<>> /\ ticks' = {} /\ UNCHANGED signalled
       /\ batch' = {} /\ claimed' = FALSE

\* The process is killed, or a job without a recover panics for a passing reason.
Crash ==
  /\ Up /\ crashes < CrashBound
  /\ Die
  /\ crashes' = crashes + 1
  /\ UNCHANGED events

\* A panic of a job that does not recover ends the process.
PanicUnrecovered(j) ==
  /\ j \in Recovering /\ at = j
  /\ Die
  /\ UNCHANGED <<events, crashes>>

Panic(j) ==
  /\ j \in Recovering /\ at = j
  /\ Continue
  /\ UNCHANGED <<events, crashes>>

\* One of the ready cases of the select statement.
Select(j) ==
  /\ at = "select" /\ j \in ticks
  /\ at' = j /\ ticks' = ticks \ {j}
  /\ UNCHANGED <<startup, signalled, memory, events, crashes>>

\* The loop looks at its context only when no job is due.
DoneWhenIdle ==
  /\ at = "select" /\ signalled /\ ticks = {}
  /\ at' = "stopped"
  /\ UNCHANGED <<startup, ticks, signalled, memory, events, crashes>>

Done ==
  /\ at = "select" /\ signalled
  /\ at' = "stopped"
  /\ UNCHANGED <<startup, ticks, signalled, memory, events, crashes>>

Signal ==
  /\ ~signalled /\ signalled' = TRUE
  /\ UNCHANGED <<at, startup, ticks, memory, events, crashes>>

\* A container told to stop is not started again.
NotRestarted ==
  /\ at = "down" /\ signalled /\ at' = "stopped"
  /\ UNCHANGED <<startup, ticks, signalled, memory, events, crashes>>
-----------------------------------------------------------------------------
(* The payment run, which claims events before it processes them. *)

GoStale(e) ==
  /\ status[e] = "processing"
  /\ status' = [status EXCEPT ![e] = "stale"]
  /\ UNCHANGED <<process, memory, attempts, crashes>>

Claimable == {e \in Events : status[e] \in {"received", "stale"} /\ attempts[e] < MaxAttempts}

\* The claim is only committed together with the decisions on the batch.
ClaimWithinTransaction ==
  /\ at = "payment" /\ ~claimed /\ ~signalled
  /\ \E S \in SUBSET Claimable : /\ Cardinality(S) <= BatchSize
                                 /\ S # Claimable => Cardinality(S) = BatchSize
                                 /\ batch' = S
  /\ claimed' = TRUE
  /\ UNCHANGED <<process, events, crashes>>

\* In a statement of its own, so that it outlives the run; a cancelled context claims
\* nothing.
ClaimPaymentEvents ==
  /\ at = "payment" /\ ~claimed /\ ~signalled
  /\ \E S \in SUBSET Claimable :
       /\ Cardinality(S) <= BatchSize
       /\ S # Claimable => Cardinality(S) = BatchSize
       /\ batch' = S
       /\ status' = [e \in Events |-> IF e \in S THEN "processing" ELSE status[e]]
       /\ attempts' = [e \in Events |-> IF e \in S THEN attempts[e] + 1 ELSE attempts[e]]
  /\ claimed' = TRUE
  /\ UNCHANGED <<process, crashes>>

Process(e) ==
  /\ e \in batch
  /\ \/ /\ e \notin Poison
        /\ status' = [status EXCEPT ![e] = "decided"]
        /\ batch' = batch \ {e}
        /\ UNCHANGED <<process, claimed, attempts, crashes>>
     \/ e \in Poison /\ Die /\ UNCHANGED <<events, crashes>>
-----------------------------------------------------------------------------
Next ==
  \/ Run \/ Crash \/ Done \/ Signal \/ NotRestarted \/ ClaimPaymentEvents
  \/ \E j \in Jobs : Tick(j) \/ Return(j) \/ Panic(j) \/ Select(j)
  \/ \E e \in Events : GoStale(e) \/ Process(e)

\* The container's restart policy, tickers and deadlines make the steps they are for;
\* select chooses at random between its ready cases, so a case that is ready again
\* and again is taken.  No fairness for signals, crashes or panics.
Fairness ==
  /\ WF_vars(Run) /\ WF_vars(NotRestarted) /\ SF_vars(Done)
  /\ \A j \in Jobs : WF_vars(Tick(j)) /\ WF_vars(Return(j)) /\ SF_vars(Select(j))

Spec == Init /\ [][Next]_vars /\ Fairness
-----------------------------------------------------------------------------
(* Properties *)

\* As long as the worker is not told to stop, every configured job runs again and
\* again: neither an event that panics whenever it is processed, nor a delivery that
\* always panics, nor a job that always uses up its time starves the others.
JobsKeepRunning == (\A j \in Jobs : []<>(at = j)) \/ <>signalled

\* A worker told to stop ends, whatever it was doing and however many ticks wait.
StopsWhenTold == signalled ~> at = "stopped"
=============================================================================
