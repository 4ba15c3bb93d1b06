------------------------- MODULE ProviderSyncProofs -------------------------
(***************************************************************************)
(* Proofs about ProviderSync, for any number of workers, any page size and *)
(* any length of the provider's history.                                   *)
(*                                                                         *)
(* NoGap is not inductive: the cursor takes the end of a page that some    *)
(* worker read earlier.  The strengthening says what a run knows.  All of  *)
(* its history up to the next transaction of its page is stored (Ingested) *)
(* and, while it holds the checkpoint, it started its page at the stored   *)
(* cursor (HolderIsCurrent).                                               *)
(***************************************************************************)
EXTENDS ProviderSync, TLAPS

\* What a run in progress has stored, and the bounds of its page.
Ingested ==
  \A w \in Workers :
    /\ pc[w] = "fetch" => 1..cur[w] \subseteq seen /\ cur[w] <= published
    /\ pc[w] = "ingest" => /\ 1..(page[w].next - 1) \subseteq seen
                           /\ page[w].next <= page[w].end + 1
                           /\ cur[w] <= page[w].to /\ page[w].to <= page[w].end
                           /\ page[w].end <= published

\* The run that holds the checkpoint works from the stored cursor.
HolderIsCurrent ==
  \A w \in Workers : Holds(w) /\ pc[w] \in {"fetch", "ingest"} => cur[w] = cursor

\* The inductive invariant.
SyncInv == TypeOK /\ NoGap /\ cursor <= published /\ Ingested /\ HolderIsCurrent

\* The checkpoint starts empty, without runs.
LEMMA InitSyncInv == Init => SyncInv
<1> SUFFICES ASSUME Init PROVE SyncInv
  OBVIOUS
<1>1. NoPage \in Pages /\ 0 \in History
  BY ProviderSyncAssumption DEF NoPage, Pages, History
<1>2. TypeOK
  <2>1. published \in History /\ cursor \in History /\ seen = {} /\ disputed = {}
    BY <1>1 DEF Init
  <2>2. lease = NoWorker /\ expired = FALSE /\ fresh = {} /\ faults \in 0..FaultBound
    BY ProviderSyncAssumption DEF Init
  <2>3. /\ pc \in [Workers -> {"idle", "fetch", "ingest", "complete", "fail"}]
        /\ cur \in [Workers -> History] /\ page \in [Workers -> Pages] /\ pages \in [Workers -> Nat]
    BY <1>1 DEF Init
  <2> QED BY <2>1, <2>2, <2>3 DEF TypeOK
<1>3. NoGap /\ cursor <= published /\ Ingested /\ HolderIsCurrent
  BY DEF Init, NoGap, Ingested, HolderIsCurrent
<1> QED BY <1>2, <1>3 DEF SyncInv

\* The provider, the webhook and the clock touch neither cursor nor runs.
LEMMA WorldKeepsInv ==
  ASSUME SyncInv, Publish \/ LeaseExpires \/ (\E t \in 1..published : Webhook(t) \/ Dispute(t))
  PROVE  SyncInv' /\ cursor' = cursor
<1> USE ProviderSyncAssumption
        DEF SyncInv, TypeOK, NoGap, Ingested, HolderIsCurrent, Holds, History, checkpoint
<1>1. CASE Publish
  <2>1. published' = published + 1 /\ published' \in History
        /\ UNCHANGED <<seen, disputed, cursor, lease, expired, fresh, pc, cur, page, pages, faults>>
    BY <1>1 DEF Publish
  <2>2. TypeOK' BY <2>1
  <2>3. Ingested' BY <2>1 DEF Pages
  <2> QED BY <2>1, <2>2, <2>3
<1>2. CASE LeaseExpires
  BY <1>2 DEF LeaseExpires, Fault
<1>3. ASSUME NEW t \in 1..published, Webhook(t)
      PROVE  SyncInv' /\ cursor' = cursor
  BY <1>3 DEF Webhook
<1>4. ASSUME NEW t \in 1..published, Dispute(t)
      PROVE  SyncInv' /\ cursor' = cursor
  BY <1>4 DEF Dispute
<1> QED BY <1>1, <1>2, <1>3, <1>4

\* A claim starts a run at the stored cursor.
LEMMA ClaimKeepsInv ==
  ASSUME SyncInv, NEW w \in Workers, ClaimProviderCheckpoint(w)
  PROVE  SyncInv' /\ cursor' = cursor
BY ProviderSyncAssumption
   DEF SyncInv, TypeOK, NoGap, Ingested, HolderIsCurrent, Holds, History, ClaimProviderCheckpoint, GoTo

\* A fetched page starts after the run's cursor and ends within the history.
LEMMA ListKeepsInv ==
  ASSUME SyncInv, NEW w \in Workers, ListTransactions(w)
  PROVE  SyncInv' /\ cursor' = cursor
<1> USE ProviderSyncAssumption
<1> DEFINE last == IF cur[w] + PageSize < published THEN cur[w] + PageSize ELSE published
<1>1. PICK to \in {last, cur[w]} :
         page' = [page EXCEPT ![w] = [next |-> cur[w] + 1, end |-> last, to |-> to, more |-> last < published]]
  BY DEF ListTransactions
<1>2. /\ pc[w] = "fetch" /\ pc' = [pc EXCEPT ![w] = "ingest"]
      /\ UNCHANGED <<published, seen, disputed, cursor, lease, expired, fresh, cur, pages, faults>>
  BY DEF ListTransactions, GoTo, checkpoint
<1>3. /\ cur[w] \in Nat /\ published \in Nat /\ cur[w] <= published /\ published <= HistoryBound
      /\ 1..cur[w] \subseteq seen
  BY <1>2 DEF SyncInv, TypeOK, Ingested, History
<1>4. last \in Nat /\ cur[w] <= last /\ last <= published
  BY <1>3
<1>5. to \in Nat /\ cur[w] <= to /\ to <= last
  BY <1>3, <1>4
<1> HIDE DEF last
<1>6. [next |-> cur[w] + 1, end |-> last, to |-> to, more |-> last < published] \in Pages
  BY <1>3, <1>4, <1>5 DEF Pages, History
<1>7. TypeOK'
  BY <1>1, <1>2, <1>6 DEF SyncInv, TypeOK
<1>8. Ingested'
  BY <1>1, <1>2, <1>3, <1>4, <1>5 DEF SyncInv, TypeOK, Ingested
<1>9. HolderIsCurrent'
  BY <1>2 DEF SyncInv, TypeOK, HolderIsCurrent, Holds
<1> QED BY <1>2, <1>7, <1>8, <1>9 DEF SyncInv, NoGap

\* One more transaction of the page is stored, or the run fails on it.
LEMMA IngestKeepsInv ==
  ASSUME SyncInv, NEW w \in Workers, Ingest(w)
  PROVE  SyncInv' /\ cursor' = cursor
<1> USE ProviderSyncAssumption
<1> DEFINE t == page[w].next
<1>1. /\ pc[w] = "ingest" /\ t <= page[w].end
      /\ UNCHANGED <<published, disputed, cursor, lease, expired, fresh, cur, pages, faults>>
  BY DEF Ingest, checkpoint
<1>2. /\ page \in [Workers -> Pages] /\ page[w] \in Pages /\ t \in Nat \ {0} /\ page[w].end \in Nat
      /\ page[w].end <= published /\ published \in Nat /\ published <= HistoryBound
      /\ 1..(t - 1) \subseteq seen
  BY <1>1 DEF SyncInv, TypeOK, Ingested, Pages, History
<1>3. CASE pc' = [pc EXCEPT ![w] = "fail"] /\ UNCHANGED <<seen, page>>
  BY <1>1, <1>3 DEF SyncInv, TypeOK, NoGap, Ingested, HolderIsCurrent, Holds
<1>4. CASE seen' = seen \cup {t} /\ page' = [page EXCEPT ![w].next = t + 1] /\ UNCHANGED pc
  <2>1. /\ page'[w].next = t + 1 /\ page'[w].end = page[w].end /\ page'[w].to = page[w].to
        /\ page' \in [Workers -> Pages]
        /\ \A v \in Workers \ {w} : page'[v] = page[v]
    BY <1>1, <1>2, <1>4 DEF Pages, History
  <2>2. TypeOK'
    BY <1>1, <1>2, <1>4, <2>1 DEF SyncInv, TypeOK
  <2>3. 1..((t + 1) - 1) \subseteq seen'
    BY <1>2, <1>4
  <2>4. \A v \in Workers \ {w} : Ingested => (
            /\ pc[v] = "fetch" => 1..cur[v] \subseteq seen'
            /\ pc[v] = "ingest" => 1..(page[v].next - 1) \subseteq seen')
    BY <1>4 DEF Ingested
  <2>5. Ingested'
    BY <1>1, <1>2, <1>4, <2>1, <2>3, <2>4 DEF SyncInv, Ingested
  <2>6. HolderIsCurrent'
    BY <1>1, <1>4 DEF SyncInv, HolderIsCurrent, Holds
  <2> QED BY <1>1, <1>4, <2>2, <2>5, <2>6 DEF SyncInv, NoGap
<1> QED BY <1>3, <1>4 DEF Ingest, GoTo

\* What a complete page allows: the cursor after it is not before the stored one, and
\* everything up to it is stored.
LEMMA PageIsStored ==
  ASSUME SyncInv, NEW w \in Workers, pc[w] = "ingest", page[w].next > page[w].end
  PROVE  /\ page[w].to \in History /\ page[w].to <= published
         /\ 1..page[w].to \subseteq seen
         /\ Holds(w) => page[w].to >= cursor
<1>1. /\ page[w] \in Pages /\ cur[w] \in Nat /\ cursor \in Nat /\ published \in Nat
      /\ 1..(page[w].next - 1) \subseteq seen
      /\ cur[w] <= page[w].to /\ page[w].to <= page[w].end /\ page[w].end <= published
      /\ Holds(w) => cur[w] = cursor
  BY ProviderSyncAssumption DEF SyncInv, TypeOK, Ingested, HolderIsCurrent, History
<1>2. page[w].to \in History /\ page[w].to \in Nat /\ page[w].end \in Nat /\ page[w].next \in Nat
  BY <1>1, ProviderSyncAssumption DEF Pages, History
<1>3. page[w].to <= page[w].next - 1
  BY <1>1, <1>2
<1>4. 1..page[w].to \subseteq 1..(page[w].next - 1)
  BY <1>2, <1>3
<1> QED BY <1>1, <1>2, <1>4

\* The end of a run, whatever it leaves in the checkpoint, keeps what the others know.
LEMMA RunEndsKeepsRuns ==
  ASSUME TypeOK, Ingested, NEW w \in Workers, RunEnds(w),
         UNCHANGED <<published, seen, disputed>>
  PROVE  /\ Ingested'
         /\ pc' \in [Workers -> {"idle", "fetch", "ingest", "complete", "fail"}]
         /\ cur' \in [Workers -> History] /\ page' \in [Workers -> Pages] /\ pages' \in [Workers -> Nat]
<1>1. NoPage \in Pages /\ 0 \in History
  BY ProviderSyncAssumption DEF NoPage, Pages, History
<1> QED BY <1>1 DEF TypeOK, Ingested, RunEnds, GoTo

\* The guarded advance moves the cursor forward over stored transactions.
LEMMA AdvanceKeepsInv ==
  ASSUME SyncInv, NEW w \in Workers, AdvanceProviderCheckpoint(w)
  PROVE  SyncInv' /\ cursor' >= cursor
<1> USE ProviderSyncAssumption
<1>1. /\ pc[w] = "ingest" /\ page[w].next > page[w].end
      /\ UNCHANGED <<published, seen, disputed, lease, expired, faults>>
  BY DEF AdvanceProviderCheckpoint
<1>2. /\ page[w].to \in History /\ page[w].to <= published /\ 1..page[w].to \subseteq seen
      /\ Holds(w) => page[w].to >= cursor
  BY <1>1, PageIsStored
<1>3. CASE Holds(w) /\ Advance(w)
  <2>1. /\ cursor' = page[w].to /\ fresh' = {w}
        /\ cur' = [cur EXCEPT ![w] = page[w].to]
        /\ page' = [page EXCEPT ![w] = NoPage]
        /\ pages' = [pages EXCEPT ![w] = @ + 1]
        /\ pc' \in {[pc EXCEPT ![w] = "fetch"], [pc EXCEPT ![w] = "complete"]}
    BY <1>3 DEF Advance, GoTo
  <2>2. NoPage \in Pages
    BY DEF NoPage, Pages, History
  <2>3. TypeOK'
    BY <1>1, <1>2, <2>1, <2>2 DEF SyncInv, TypeOK
  <2>4. Ingested'
    BY <1>1, <1>2, <2>1 DEF SyncInv, TypeOK, Ingested
  <2>5. HolderIsCurrent'
    BY <1>1, <2>1 DEF SyncInv, TypeOK, HolderIsCurrent, Holds
  <2> QED BY <1>1, <1>2, <1>3, <2>1, <2>3, <2>4, <2>5 DEF SyncInv, NoGap
<1>4. CASE RunEnds(w) /\ UNCHANGED <<cursor, fresh>>
  <2>1. Ingested' /\ TypeOK'
    BY <1>1, <1>4, RunEndsKeepsRuns DEF SyncInv, TypeOK
  <2>2. HolderIsCurrent'
    BY <1>1, <1>4 DEF SyncInv, TypeOK, HolderIsCurrent, Holds, RunEnds, GoTo
  <2>3. cursor \in Nat
    BY DEF SyncInv, TypeOK, History
  <2> QED BY <1>1, <1>4, <2>1, <2>2, <2>3 DEF SyncInv, NoGap
<1> QED BY <1>3, <1>4 DEF AdvanceProviderCheckpoint

\* An advance without an answer is an advance or nothing, and ends the run.
LEMMA AdvanceFailsKeepsInv ==
  ASSUME SyncInv, NEW w \in Workers, AdvanceFails(w)
  PROVE  SyncInv' /\ cursor' >= cursor
<1> USE ProviderSyncAssumption
<1>1. /\ pc[w] = "ingest" /\ page[w].next > page[w].end
      /\ RunEnds(w) /\ UNCHANGED <<published, seen, disputed, lease, expired>>
      /\ faults' \in 0..FaultBound
      /\ \/ UNCHANGED <<cursor, fresh>>
         \/ Holds(w) /\ cursor' = page[w].to /\ fresh' = {}
  BY DEF AdvanceFails, Fault, SyncInv, TypeOK
<1>2. /\ page[w].to \in History /\ page[w].to <= published /\ 1..page[w].to \subseteq seen
      /\ Holds(w) => page[w].to >= cursor
  BY <1>1, PageIsStored
<1>3. cursor \in Nat /\ cursor' \in History /\ cursor' >= cursor /\ cursor' <= published'
      /\ 1..cursor' \subseteq seen'
  BY <1>1, <1>2 DEF SyncInv, TypeOK, NoGap, History
<1>4. Ingested' /\ TypeOK'
  BY <1>1, <1>3, RunEndsKeepsRuns DEF SyncInv, TypeOK
<1>5. HolderIsCurrent'
  BY <1>1 DEF SyncInv, TypeOK, HolderIsCurrent, Holds, RunEnds, GoTo
<1> QED BY <1>3, <1>4, <1>5 DEF SyncInv, NoGap

\* Completing, failing and crashing leave the cursor alone.
LEMMA EndKeepsInv ==
  ASSUME SyncInv, NEW w \in Workers,
         CompleteProviderCheckpoint(w) \/ FailProviderCheckpoint(w) \/ CallFails(w) \/ Crash(w)
  PROVE  SyncInv' /\ cursor' = cursor
<1> USE ProviderSyncAssumption
<1>1. CASE Release(w)
  <2>1. Ingested' /\ TypeOK'
    BY <1>1, RunEndsKeepsRuns DEF SyncInv, TypeOK, Release
  <2>2. HolderIsCurrent'
    BY <1>1 DEF SyncInv, TypeOK, HolderIsCurrent, Holds, Release, RunEnds, GoTo
  <2> QED BY <1>1, <2>1, <2>2 DEF SyncInv, NoGap, Release
<1>2. CASE CallFails(w)
  BY <1>2 DEF SyncInv, TypeOK, NoGap, Ingested, HolderIsCurrent, Holds, CallFails, GoTo, Fault, checkpoint
<1>3. CASE Crash(w)
  <2>1. Ingested' /\ TypeOK'
    BY <1>3, RunEndsKeepsRuns DEF SyncInv, TypeOK, Crash, Fault, checkpoint
  <2>2. HolderIsCurrent'
    BY <1>3 DEF SyncInv, TypeOK, HolderIsCurrent, Holds, Crash, RunEnds, GoTo, checkpoint
  <2> QED BY <1>3, <2>1, <2>2 DEF SyncInv, NoGap, Crash, checkpoint
<1> QED BY <1>1, <1>2, <1>3 DEF CompleteProviderCheckpoint, FailProviderCheckpoint

\* Every step keeps the invariant and moves the cursor forward or not at all.
LEMMA NextKeepsInv == SyncInv /\ [Next]_vars => SyncInv' /\ cursor' >= cursor
<1> SUFFICES ASSUME SyncInv, [Next]_vars PROVE SyncInv' /\ cursor' >= cursor
  OBVIOUS
<1>0. cursor \in Nat
  BY ProviderSyncAssumption DEF SyncInv, TypeOK, History
<1>1. CASE UNCHANGED vars
  BY <1>0, <1>1 DEF vars, checkpoint, SyncInv, TypeOK, NoGap, Ingested, HolderIsCurrent, Holds
<1>2. CASE Publish \/ LeaseExpires \/ (\E t \in 1..published : Webhook(t) \/ Dispute(t))
  BY <1>0, <1>2, WorldKeepsInv
<1>3. ASSUME NEW w \in Workers, Run(w) \/ CallFails(w) \/ AdvanceFails(w) \/ Crash(w)
      PROVE  SyncInv' /\ cursor' >= cursor
  BY <1>0, <1>3, ClaimKeepsInv, ListKeepsInv, IngestKeepsInv, AdvanceKeepsInv, AdvanceFailsKeepsInv,
     EndKeepsInv DEF Run
<1> QED BY <1>1, <1>2, <1>3 DEF Next

\* The checkpoint and the runs keep their types, the lease columns included.
THEOREM SyncTypeCorrect == Spec => []TypeOK
<1>1. SyncInv => TypeOK
  BY DEF SyncInv
<1> QED BY <1>1, InitSyncInv, NextKeepsInv, PTL DEF Spec

\* The cursor passes no transaction that is not stored (the advance after the loop over
\* the page in reconcileAccount).
THEOREM NoGapCorrect == Spec => []NoGap
<1>1. SyncInv => NoGap
  BY DEF SyncInv
<1> QED BY <1>1, InitSyncInv, NextKeepsInv, PTL DEF Spec

\* The cursor never moves back (the version and owner guard of
\* AdvancePaymentProviderCheckpoint).
THEOREM CursorNeverBackCorrect == Spec => CursorNeverBack
<1>1. SyncInv /\ [Next]_vars => [cursor' >= cursor]_vars
  BY NextKeepsInv
<1> QED BY <1>1, InitSyncInv, NextKeepsInv, PTL DEF Spec, CursorNeverBack
=============================================================================
