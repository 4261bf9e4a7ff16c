--------------------------- MODULE DispatchProofs ---------------------------
(* Theorems about Dispatch, for any number of rows, publishers, workers,
   attempts, turns and faults. *)
EXTENDS Dispatch, FiniteSetTheorems, TLAPS

\* A call past its first step handles a row, and an outcome was chosen.
CallsHaveRows ==
    /\ \A p \in Publishers : publisher[p].phase \in {"read", "create", "sent", "unsent"}
                             => publisher[p].event \in Events
    /\ \A w \in Workers : worker[w].phase # "idle" => worker[w].event \in Events
    /\ \A w \in Workers : worker[w].phase \notin {"idle", "missed"}
                          => work[worker[w].event] # "none"
    /\ \A w \in Workers : worker[w].phase = "finish"
                          => worker[w].result \in {"done", "busy", "raise", "exhausted"}

\* A worker about to report an end has ended the work.
ReportedWorkClosed ==
    \A w \in Workers :
        worker[w].phase = "finish" /\ worker[w].result \in {"done", "exhausted"}
        => work[worker[w].event] = "closed"

\* A row exists exactly when its domain work does.
RowHasWork == \A e \in Events : outbox[e].status = "absent" <=> work[e] = "none"

\* A running row has an attempt to give back.
RunningCharged == \A e \in Events : outbox[e].status = "running" => outbox[e].execs # 0

\* The invariant in three parts: the rows and the work behind them, the calls
\* in progress, and everything else.
RowInv ==
    /\ outbox \in [Events -> Row]
    /\ work \in [Events -> {"none", "open", "closed"}]
    /\ RowHasWork /\ RunningCharged /\ TerminalWorkClosed

CallInv ==
    /\ publisher \in [Publishers -> PublisherState]
    /\ worker \in [Workers -> WorkerState]
    /\ CallsHaveRows /\ ReportedWorkClosed

RestInv ==
    /\ turns \in [Events -> Nat]
    /\ live \subseteq used /\ used \subseteq Events \X Nat
    /\ faults \in Nat /\ failures \in [Events -> Nat]
    /\ claimed \subseteq Events /\ overdue \subseteq Events /\ exhausted \subseteq Events

IInv == RowInv /\ CallInv /\ RestInv

LEMMA InitInv == Init => IInv
  BY ConstantsOK DEF Init, IInv, RowInv, CallInv, RestInv, CallsHaveRows, ReportedWorkClosed, RowHasWork,
     RunningCharged, TerminalWorkClosed, BlankRow, Row, RowStatus, Terminal, Markers,
     IdlePublisher, IdleWorker, PublisherState, WorkerState
-----------------------------------------------------------------------------
(* Steps that write one row, or one call. *)

WorkAdvances == \A e \in Events : /\ work[e] = "closed" => work'[e] = "closed"
                                  /\ work[e] # "none" => work'[e] # "none"

LEMMA RowWrite ==
    ASSUME RowInv, NEW e \in Events,
           outbox' \in [Events -> Row],
           work' \in [Events -> {"none", "open", "closed"}],
           \A d \in Events \ {e} : outbox'[d] = outbox[d] /\ work'[d] = work[d],
           outbox'[e].status = "absent" <=> work'[e] = "none",
           outbox'[e].status \in Terminal => work'[e] = "closed",
           outbox'[e].status = "running" => outbox'[e].execs # 0
    PROVE  RowInv'
  BY DEF RowInv, RowHasWork, RunningCharged, TerminalWorkClosed

LEMMA RowsKept == RowInv /\ UNCHANGED <<outbox, work>> => RowInv'
  BY DEF RowInv, RowHasWork, RunningCharged, TerminalWorkClosed

LEMMA CallsKept ==
    ASSUME CallInv, UNCHANGED <<publisher, worker>>, WorkAdvances PROVE CallInv'
  BY DEF CallInv, CallsHaveRows, ReportedWorkClosed, WorkAdvances

LEMMA PublisherWrite ==
    ASSUME CallInv, NEW p \in Publishers, UNCHANGED worker, WorkAdvances,
           publisher' \in [Publishers -> PublisherState],
           \A q \in Publishers \ {p} : publisher'[q] = publisher[q],
           publisher'[p].phase \in {"idle", "claim"} \/ publisher'[p].event \in Events
    PROVE  CallInv'
  BY DEF CallInv, CallsHaveRows, ReportedWorkClosed, WorkAdvances

LEMMA WorkerWrite ==
    ASSUME CallInv, NEW w \in Workers, UNCHANGED publisher, WorkAdvances,
           worker' \in [Workers -> WorkerState],
           \A v \in Workers \ {w} : worker'[v] = worker[v],
           worker'[w].phase = "idle" \/ worker'[w].event \in Events,
           worker'[w].phase \in {"idle", "missed"} \/ work'[worker'[w].event] # "none",
           worker'[w].phase = "finish" =>
               \/ worker'[w].result \in {"busy", "raise"}
               \/ /\ worker'[w].result \in {"done", "exhausted"}
                  /\ work'[worker'[w].event] = "closed"
    PROVE  CallInv'
  BY DEF CallInv, CallsHaveRows, ReportedWorkClosed, WorkAdvances

-----------------------------------------------------------------------------
(* What the writes make of a row. *)

LEMMA RelabelType == \A m, to \in Markers : Relabel(m, to) \in Markers
  BY DEF Relabel, Markers

LEMMA PublishedRow == \A row \in Row :
    Published(row) \in Row /\ Published(row).status = "dispatched"
  BY DEF Published, Row, RowStatus

LEMMA UnpublishedRow == \A row \in Row :
    Unpublished(row) \in Row /\ Unpublished(row).status = "pending"
  BY RelabelType DEF Unpublished, Row, RowStatus, Markers

LEMMA CompletedRow == \A row \in Row :
    Completed(row) \in Row /\ Completed(row).status = "completed"
  BY DEF Completed, Retry, Row, RowStatus, Terminal, Markers

LEMMA FailedRow == \A row \in Row :
    Failed(row) \in Row /\ Failed(row).status = "failed"
  BY DEF Failed, Retry, Row, RowStatus, Terminal, Markers

LEMMA DeferredRow == \A row \in Row :
    Deferred(row) \in Row /\ Deferred(row).status = "retry"
  BY ZenonT(60), RelabelType DEF Deferred, Retry, Row, RowStatus, Terminal, Markers

LEMMA RefundedRow == ASSUME NEW row \in Row, row.execs # 0
                     PROVE  Refunded(row) \in Row /\ Refunded(row).status = "retry"
<1>1. PICK n \in Nat : n = row.execs - 1
  BY DEF Row
<1>2. PICK m \in Markers : m = Relabel(row.marker, "in_progress")
  BY RelabelType DEF Row, Markers
<1>3. Refunded(row) = [Retry(row) EXCEPT !.execs = n, !.marker = m]
  BY <1>1, <1>2 DEF Refunded
<1> QED
  BY <1>3 DEF Retry, Row, RowStatus

LEMMA ContinuedRow == ASSUME NEW row \in Row, row.execs # 0
                      PROVE  Continued(row) \in Row /\ Continued(row).status = "retry"
<1>1. PICK n \in Nat, g \in Nat : n = row.execs - 1 /\ g = row.gens + 1
  BY DEF Row
<1>2. Continued(row) = [Retry(row) EXCEPT !.execs = n, !.gens = g, !.name = g,
                                          !.marker = "advanced"]
  BY <1>1 DEF Continued
<1> QED
  BY ZenonT(60), <1>2 DEF Retry, Row, RowStatus, Markers

LEMMA ExecClaimRow == ASSUME NEW row \in Row, NEW w \in Workers
                      PROVE  /\ ExecClaim(row, w) \in Row
                             /\ ExecClaim(row, w).status = "running"
                             /\ ExecClaim(row, w).execs # 0
<1>1. PICK n \in Nat : n = row.execs + 1 /\ n # 0
  BY DEF Row
<1>2. ExecClaim(row, w) = [row EXCEPT !.status = "running", !.token = w, !.leased = TRUE,
                                      !.execs = n]
  BY <1>1 DEF ExecClaim
<1> QED
  BY <1>1, <1>2 DEF Row, RowStatus

LEMMA PublishNameType == \A e \in Events : outbox[e] \in Row => PublishName(e) \in Nat
  BY DEF PublishName, Row

LEMMA PublishClaimRow == ASSUME NEW e \in Events, NEW p \in Publishers, outbox[e] \in Row
                         PROVE  /\ PublishClaim(e, p) \in Row
                                /\ PublishClaim(e, p).status = "publishing"
<1>1. PICK n \in Nat, g \in Nat : n = PublishName(e) /\ g = outbox[e].gens + 1
  BY PublishNameType DEF Row
<1>2. PublishClaim(e, p) = [outbox[e] EXCEPT !.status = "publishing", !.token = p,
                                             !.leased = TRUE, !.gens = g, !.name = n]
  BY <1>1 DEF PublishClaim
<1> QED
  BY <1>2 DEF Row, RowStatus

LEMMA SettledRow == \A row \in Row, result \in {"done", "busy", "raise", "exhausted"} :
    row.execs # 0 =>
    /\ Settled(row, result) \in Row
    /\ Settled(row, result).status \in {"completed", "failed", "retry"}
    /\ Settled(row, result).status \in Terminal => result \in {"done", "exhausted"}
  BY CompletedRow, FailedRow, DeferredRow, RefundedRow DEF Settled, Terminal

LEMMA RecordedRow == \A row \in Row :
    /\ Redispatched(row) \in Row /\ Redispatched(row).status = "dispatched"
    /\ PublishDeferred(row) \in Row /\ PublishDeferred(row).status = row.status
    /\ PublishDeferred(row).execs = row.execs
  BY DEF Redispatched, PublishDeferred, Row, RowStatus, Markers

LEMMA NextInBatchState == \A p \in Publishers :
    publisher[p] \in PublisherState =>
    NextInBatch(p) \in PublisherState /\ NextInBatch(p).phase \in {"idle", "claim"}
  BY DEF NextInBatch, PublisherState

LEMMA ErasedRow == [BlankRow EXCEPT !.status = "erased"] \in Row
                   /\ [BlankRow EXCEPT !.status = "erased"].status = "erased"
  BY DEF BlankRow, Row, RowStatus, Markers

-----------------------------------------------------------------------------
(* Every action preserves the invariant. *)

LEMMA EnqueueInv == ASSUME IInv, NEW e \in Events, Enqueue(e) PROVE IInv'
<1>1. RowInv'
  <2>1. /\ outbox \in [Events -> Row] /\ outbox' \in [Events -> Row]
        /\ outbox'[e].status = "pending"
        /\ \A d \in Events \ {e} : outbox'[d] = outbox[d]
    BY ZenonT(60) DEF Enqueue, IInv, RowInv, Row, RowStatus
  <2> QED
    BY <2>1, RowWrite DEF Enqueue, IInv, RowInv, Terminal
<1>2. CallInv'
  BY CallsKept DEF Enqueue, WorkAdvances, domain, IInv, RowInv, RowHasWork
<1>3. RestInv'
  BY DEF Enqueue, domain, cloud, history, IInv, RestInv, CallInv, CallsHaveRows
<1> QED
  BY <1>1, <1>2, <1>3 DEF IInv

LEMMA CancelWorkInv == ASSUME IInv, NEW e \in Events, CancelWork(e) PROVE IInv'
<1>1. RowInv'
  BY RowWrite, CompletedRow DEF CancelWork, domain, Terminal, IInv, RowInv, RowHasWork,
     RunningCharged, TerminalWorkClosed
<1>2. CallInv'
  BY CallsKept DEF CancelWork, WorkAdvances, domain, IInv, RowInv
<1>3. RestInv'
  BY DEF CancelWork, domain, cloud, history, IInv, RestInv, CallInv, CallsHaveRows
<1> QED
  BY <1>1, <1>2, <1>3 DEF IInv

LEMMA EraseWorkInv == ASSUME IInv, NEW e \in Events, EraseWork(e) PROVE IInv'
<1>1. RowInv'
  BY RowWrite, ErasedRow DEF EraseWork, domain, Terminal, IInv, RowInv, RowHasWork,
     RunningCharged, TerminalWorkClosed
<1>2. CallInv'
  BY CallsKept DEF EraseWork, WorkAdvances, domain, IInv, RowInv
<1>3. RestInv'
  BY DEF EraseWork, domain, cloud, history, IInv, RestInv, CallInv, CallsHaveRows
<1> QED
  BY <1>1, <1>2, <1>3 DEF IInv

LEMMA SelectBatchInv == ASSUME IInv, NEW p \in Publishers, SelectBatch(p) PROVE IInv'
<1>1. RowInv'
  BY RowsKept DEF SelectBatch, domain, IInv
<1>2. CallInv'
  BY PublisherWrite DEF SelectBatch, WorkAdvances, PublisherState, domain, IInv, RowInv,
     CallInv, CallsHaveRows
<1>3. RestInv'
  BY DEF SelectBatch, domain, cloud, history, IInv, RestInv, CallInv, CallsHaveRows
<1> QED
  BY <1>1, <1>2, <1>3 DEF IInv

LEMMA ClaimForPublishInv == ASSUME IInv, NEW p \in Publishers, NEW e \in Events, ClaimForPublish(p, e) PROVE IInv'
<1>1. RowInv'
  BY RowWrite, PublishClaimRow DEF ClaimForPublish, domain, PublishClaimable, Recoverable,
     Terminal, IInv, RowInv, RowHasWork, RunningCharged, TerminalWorkClosed
<1>2. CallInv'
  BY PublisherWrite DEF ClaimForPublish, WorkAdvances, PublisherState, domain, IInv, RowInv,
     CallInv, CallsHaveRows
<1>3. RestInv'
  BY DEF ClaimForPublish, domain, cloud, history, IInv, RestInv, CallInv, CallsHaveRows
<1> QED
  BY <1>1, <1>2, <1>3 DEF IInv

LEMMA ReadSnapshotInv == ASSUME IInv, NEW p \in Publishers, ReadSnapshot(p) PROVE IInv'
<1>1. RowInv'
  BY RowsKept DEF ReadSnapshot, domain, IInv
<1>2. CallInv'
  BY ZenonT(60), PublisherWrite DEF ReadSnapshot, NextInBatch, Row, WorkAdvances, PublisherState,
     domain, IInv, RowInv, CallInv, CallsHaveRows
<1>3. RestInv'
  BY DEF ReadSnapshot, domain, cloud, history, IInv, RestInv, CallInv, CallsHaveRows
<1> QED
  BY <1>1, <1>2, <1>3 DEF IInv

LEMMA CreateTaskInv == ASSUME IInv, NEW p \in Publishers, CreateTask(p) PROVE IInv'
<1>1. RowInv'
  BY RowsKept DEF CreateTask, domain, IInv
<1>2. CallInv'
  BY PublisherWrite DEF CreateTask, WorkAdvances, PublisherState, domain, IInv, RowInv,
     CallInv, CallsHaveRows
<1>3. RestInv'
  BY DEF CreateTask, CreateSucceeds, CreateErrs, Created, AlreadyExists, Fault,
     PublisherState, domain, cloud, history, IInv, RestInv, CallInv, CallsHaveRows
<1> QED
  BY <1>1, <1>2, <1>3 DEF IInv

LEMMA FinishPublishInv == ASSUME IInv, NEW p \in Publishers, FinishPublish(p) PROVE IInv'
<1>1. RowInv'
  <2> DEFINE e == publisher[p].event
  <2>1. e \in Events /\ outbox \in [Events -> Row] /\ outbox[e] \in Row
    BY DEF FinishPublish, IInv, RowInv, CallInv, CallsHaveRows
  <2> QED
    BY <2>1, RowWrite, RowsKept, PublishedRow, UnpublishedRow DEF FinishPublish,
       HoldsPublish, Terminal, domain, IInv, RowInv, RowHasWork, RunningCharged,
       TerminalWorkClosed
<1>2. CallInv'
  BY PublisherWrite, NextInBatchState DEF FinishPublish, WorkAdvances, PublisherState,
     domain, IInv, RowInv, CallInv, CallsHaveRows
<1>3. RestInv'
  BY DEF FinishPublish, domain, cloud, history, IInv, RestInv, CallInv, CallsHaveRows
<1> QED
  BY <1>1, <1>2, <1>3 DEF IInv

LEMMA CrashPublisherInv == ASSUME IInv, NEW p \in Publishers, CrashPublisher(p) PROVE IInv'
<1>1. RowInv'
  BY RowsKept DEF CrashPublisher, domain, IInv
<1>2. CallInv'
  BY PublisherWrite DEF CrashPublisher, IdlePublisher, WorkAdvances, PublisherState, domain,
     IInv, RowInv, CallInv, CallsHaveRows
<1>3. RestInv'
  BY DEF CrashPublisher, Fault, domain, cloud, history, IInv, RestInv, CallInv, CallsHaveRows
<1> QED
  BY <1>1, <1>2, <1>3 DEF IInv

LEMMA ClaimWorkInv == ASSUME IInv, NEW w \in Workers, NEW e \in Events, NEW n \in Nat, ClaimWork(w, e, n) PROVE IInv'
<1>1. RowInv'
  BY RowWrite, ExecClaimRow DEF ClaimWork, domain, ExecClaimable, Terminal, IInv, RowInv,
     RowHasWork, RunningCharged, TerminalWorkClosed
<1>2. CallInv'
  BY WorkerWrite, ConstantsOK DEF ClaimWork, ExecClaimable, RowHasWork, WorkAdvances,
     WorkerState, domain, IInv, RowInv, CallInv, CallsHaveRows
<1>3. RestInv'
  BY DEF ClaimWork, domain, cloud, history, IInv, RestInv, CallInv, CallsHaveRows
<1> QED
  BY <1>1, <1>2, <1>3 DEF IInv

LEMMA MissClaimInv == ASSUME IInv, NEW w \in Workers, NEW e \in Events, NEW n \in Nat, MissClaim(w, e, n) PROVE IInv'
<1>1. RowInv'
  BY RowsKept DEF MissClaim, domain, IInv
<1>2. CallInv'
  BY WorkerWrite, ConstantsOK DEF MissClaim, IdleWorker, WorkAdvances, WorkerState, domain,
     IInv, RowInv, CallInv, CallsHaveRows
<1>3. RestInv'
  BY DEF MissClaim, domain, cloud, history, IInv, RestInv, CallInv, CallsHaveRows
<1> QED
  BY <1>1, <1>2, <1>3 DEF IInv

LEMMA AnswerMissedInv == ASSUME IInv, NEW w \in Workers, AnswerMissed(w) PROVE IInv'
<1>1. RowInv'
  BY RowsKept DEF AnswerMissed, domain, IInv
<1>2. CallInv'
  BY WorkerWrite, ConstantsOK DEF AnswerMissed, Return, IdleWorker, WorkAdvances,
     WorkerState, domain, IInv, RowInv, CallInv, CallsHaveRows
<1>3. RestInv'
  BY DEF AnswerMissed, Acknowledge, domain, cloud, history, IInv, RestInv, CallInv,
     CallsHaveRows
<1> QED
  BY <1>1, <1>2, <1>3 DEF IInv

LEMMA ExecuteInv == ASSUME IInv, NEW w \in Workers, Execute(w) PROVE IInv'
<1>1. RowInv'
  <2> DEFINE e == worker[w].event
  <2>1. e \in Events /\ outbox \in [Events -> Row] /\ outbox[e] \in Row
        /\ work[e] # "none"
    BY DEF Execute, IInv, RowInv, CallInv, CallsHaveRows
  <2> QED
    BY <2>1, RowWrite, RowsKept DEF Execute, domain, IInv, RowInv, RowHasWork,
       RunningCharged, TerminalWorkClosed
<1>2. CallInv'
  BY WorkerWrite, ConstantsOK DEF Execute, Outcome, WorkAdvances, WorkerState, domain, IInv,
     RowInv, CallInv, CallsHaveRows
<1>3. RestInv'
  BY DEF Execute, Fault, domain, cloud, history, IInv, RestInv, CallInv, CallsHaveRows
<1> QED
  BY <1>1, <1>2, <1>3 DEF IInv

LEMMA SettleExhaustedInv == ASSUME IInv, NEW w \in Workers, SettleExhausted(w) PROVE IInv'
<1>1. RowInv'
  <2> DEFINE e == worker[w].event
  <2>1. e \in Events /\ outbox \in [Events -> Row] /\ outbox[e] \in Row
        /\ work[e] # "none"
    BY DEF SettleExhausted, IInv, RowInv, CallInv, CallsHaveRows
  <2> QED
    BY <2>1, RowWrite, RowsKept, CompletedRow DEF SettleExhausted, Terminal, domain, IInv,
       RowInv, RowHasWork, RunningCharged, TerminalWorkClosed
<1>2. CallInv'
  BY WorkerWrite, ConstantsOK DEF SettleExhausted, Outcome, WorkAdvances, WorkerState,
     domain, IInv, RowInv, CallInv, CallsHaveRows
<1>3. RestInv'
  BY DEF SettleExhausted, Fault, domain, cloud, history, IInv, RestInv, CallInv, CallsHaveRows
<1> QED
  BY <1>1, <1>2, <1>3 DEF IInv

LEMMA FinishWorkInv == ASSUME IInv, NEW w \in Workers, FinishWork(w) PROVE IInv'
<1>1. RowInv'
  <2> DEFINE e == worker[w].event
  <2>1. e \in Events /\ outbox \in [Events -> Row] /\ outbox[e] \in Row
        /\ work[e] # "none"
    BY DEF FinishWork, IInv, RowInv, CallInv, CallsHaveRows
  <2> QED
    BY ZenonT(60), <2>1, RowWrite, RowsKept, SettledRow DEF FinishWork, HoldsExec,
       Terminal, CallInv, CallsHaveRows, ReportedWorkClosed, domain, IInv, RowInv, RowHasWork,
       RunningCharged, TerminalWorkClosed
<1>2. CallInv'
  BY WorkerWrite, ConstantsOK DEF FinishWork, Return, IdleWorker, WorkAdvances, WorkerState,
     domain, IInv, RowInv, CallInv, CallsHaveRows
<1>3. RestInv'
  BY DEF FinishWork, Acknowledge, domain, cloud, history, IInv, RestInv, CallInv, CallsHaveRows
<1> QED
  BY <1>1, <1>2, <1>3 DEF IInv

LEMMA ContinueSearchInv == ASSUME IInv, NEW w \in Workers, ContinueSearch(w) PROVE IInv'
<1>1. RowInv'
  <2> DEFINE e == worker[w].event
  <2>1. e \in Events /\ outbox \in [Events -> Row] /\ outbox[e] \in Row
        /\ work[e] # "none"
    BY DEF ContinueSearch, IInv, RowInv, CallInv, CallsHaveRows
  <2> QED
    BY <2>1, RowWrite, RowsKept, ContinuedRow, CompletedRow DEF ContinueSearch, HoldsExec,
       Terminal, domain, IInv, RowInv, RowHasWork, RunningCharged, TerminalWorkClosed
<1>2. CallInv'
  <2> DEFINE e == worker[w].event
  <2>1. e \in Events /\ work[e] # "none" /\ outbox[e] \in Row /\ worker[w] \in WorkerState
    BY DEF ContinueSearch, IInv, RowInv, CallInv, CallsHaveRows
  <2>2. CASE HoldsExec(w, e) /\ work[e] = "open"
    <3>1. PICK n \in Nat : n = outbox[e].gens + 1
      BY <2>1 DEF Row
    <3>2. /\ worker' \in [Workers -> WorkerState]
          /\ worker'[w].phase = "fresh" /\ worker'[w].event = e
          /\ \A v \in Workers \ {w} : worker'[v] = worker[v]
      BY <2>1, <2>2, <3>1 DEF ContinueSearch, IInv, CallInv, WorkerState
    <3> QED
      BY <2>1, <2>2, <3>2, WorkerWrite DEF ContinueSearch, WorkAdvances, domain, IInv
  <2>3. CASE ~(HoldsExec(w, e) /\ work[e] = "open")
    BY <2>1, <2>3, WorkerWrite, ConstantsOK DEF ContinueSearch, Return, IdleWorker,
       WorkAdvances,
       WorkerState, domain, IInv, CallInv
  <2> QED
    BY <2>2, <2>3
<1>3. RestInv'
  BY DEF ContinueSearch, Acknowledge, domain, cloud, history, IInv, RestInv, CallInv,
     CallsHaveRows
<1> QED
  BY <1>1, <1>2, <1>3 DEF IInv

LEMMA CheckFreshInv == ASSUME IInv, NEW w \in Workers, CheckFresh(w) PROVE IInv'
<1>1. RowInv'
  BY RowsKept DEF CheckFresh, domain, IInv
<1>2. CallInv'
  BY WorkerWrite, ConstantsOK DEF CheckFresh, Acknowledge, Return, IdleWorker, WorkAdvances,
     WorkerState, domain, IInv, RowInv, CallInv, CallsHaveRows
<1>3. RestInv'
  BY DEF CheckFresh, Acknowledge, domain, cloud, history, IInv, RestInv, CallInv, CallsHaveRows
<1> QED
  BY <1>1, <1>2, <1>3 DEF IInv

LEMMA PublishContinuationInv == ASSUME IInv, NEW w \in Workers, PublishContinuation(w) PROVE IInv'
<1>1. RowInv'
  BY RowsKept DEF PublishContinuation, domain, IInv
<1>2. CallInv'
  BY WorkerWrite, ConstantsOK DEF PublishContinuation, WorkAdvances, WorkerState, domain,
     IInv, RowInv, CallInv, CallsHaveRows
<1>3. RestInv'
  BY DEF PublishContinuation, CreateSucceeds, CreateErrs, Created, AlreadyExists, Fault,
     WorkerState, domain, cloud, history, IInv, RestInv, CallInv, CallsHaveRows
<1> QED
  BY <1>1, <1>2, <1>3 DEF IInv

LEMMA RecordContinuationInv == ASSUME IInv, NEW w \in Workers, RecordContinuation(w) PROVE IInv'
<1>1. RowInv'
  <2> DEFINE e == worker[w].event
  <2>1. e \in Events /\ outbox \in [Events -> Row] /\ outbox[e] \in Row
        /\ work[e] # "none"
    BY DEF RecordContinuation, IInv, RowInv, CallInv, CallsHaveRows
  <2> QED
    BY <2>1, RowWrite, RowsKept, RecordedRow DEF RecordContinuation, AwaitsContinuation,
       Terminal, domain, IInv, RowInv, RowHasWork, RunningCharged, TerminalWorkClosed
<1>2. CallInv'
  BY WorkerWrite, ConstantsOK DEF RecordContinuation, Return, IdleWorker, WorkAdvances,
     WorkerState, domain, IInv, RowInv, CallInv, CallsHaveRows
<1>3. RestInv'
  BY DEF RecordContinuation, Acknowledge, domain, cloud, history, IInv, RestInv, CallInv,
     CallsHaveRows
<1> QED
  BY <1>1, <1>2, <1>3 DEF IInv

LEMMA CrashWorkerInv == ASSUME IInv, NEW w \in Workers, CrashWorker(w) PROVE IInv'
<1>1. RowInv'
  BY RowsKept DEF CrashWorker, domain, IInv
<1>2. CallInv'
  BY WorkerWrite, ConstantsOK DEF CrashWorker, Return, IdleWorker, WorkAdvances,
     WorkerState, domain, IInv, RowInv, CallInv, CallsHaveRows
<1>3. RestInv'
  BY DEF CrashWorker, Fault, domain, cloud, history, IInv, RestInv, CallInv, CallsHaveRows
<1> QED
  BY <1>1, <1>2, <1>3 DEF IInv

LEMMA LeaseExpiresInv == ASSUME IInv, NEW e \in Events, LeaseExpires(e) PROVE IInv'
<1>1. RowInv'
  <2>1. /\ outbox \in [Events -> Row] /\ outbox' \in [Events -> Row]
        /\ outbox'[e].status = outbox[e].status /\ outbox'[e].execs = outbox[e].execs
        /\ \A d \in Events \ {e} : outbox'[d] = outbox[d]
    BY ZenonT(60) DEF LeaseExpires, IInv, RowInv, Row
  <2> QED
    BY <2>1, RowWrite DEF LeaseExpires, domain, IInv, RowInv, RowHasWork, RunningCharged,
       TerminalWorkClosed
<1>2. CallInv'
  BY CallsKept DEF LeaseExpires, WorkAdvances, domain, IInv, RowInv
<1>3. RestInv'
  BY DEF LeaseExpires, Fault, domain, cloud, history, IInv, RestInv, CallInv, CallsHaveRows
<1> QED
  BY <1>1, <1>2, <1>3 DEF IInv

LEMMA BecomesDueInv == ASSUME IInv, NEW e \in Events, BecomesDue(e) PROVE IInv'
<1>1. RowInv'
  <2>1. /\ outbox \in [Events -> Row] /\ outbox' \in [Events -> Row]
        /\ outbox'[e].status = outbox[e].status /\ outbox'[e].execs = outbox[e].execs
        /\ \A d \in Events \ {e} : outbox'[d] = outbox[d]
    BY ZenonT(60) DEF BecomesDue, IInv, RowInv, Row
  <2> QED
    BY <2>1, RowWrite DEF BecomesDue, domain, IInv, RowInv, RowHasWork, RunningCharged,
       TerminalWorkClosed
<1>2. CallInv'
  BY CallsKept DEF BecomesDue, WorkAdvances, domain, IInv, RowInv
<1>3. RestInv'
  BY DEF BecomesDue, domain, cloud, history, IInv, RestInv, CallInv, CallsHaveRows
<1> QED
  BY <1>1, <1>2, <1>3 DEF IInv

LEMMA AgesInv == ASSUME IInv, NEW e \in Events, Ages(e) PROVE IInv'
<1>1. RowInv'
  <2>1. /\ outbox \in [Events -> Row] /\ outbox' \in [Events -> Row]
        /\ outbox'[e].status = outbox[e].status /\ outbox'[e].execs = outbox[e].execs
        /\ \A d \in Events \ {e} : outbox'[d] = outbox[d]
    BY ZenonT(60) DEF Ages, IInv, RowInv, Row
  <2> QED
    BY <2>1, RowWrite DEF Ages, domain, IInv, RowInv, RowHasWork, RunningCharged,
       TerminalWorkClosed
<1>2. CallInv'
  BY CallsKept DEF Ages, WorkAdvances, domain, IInv, RowInv
<1>3. RestInv'
  BY DEF Ages, Fault, domain, cloud, history, IInv, RestInv, CallInv, CallsHaveRows
<1> QED
  BY <1>1, <1>2, <1>3 DEF IInv

LEMMA DropTaskInv == ASSUME IInv, NEW t \in live, DropTask(t) PROVE IInv'
<1>1. RowInv'
  BY RowsKept DEF DropTask, domain, IInv
<1>2. CallInv'
  BY CallsKept DEF DropTask, WorkAdvances, domain, IInv, RowInv
<1>3. RestInv'
  BY DEF DropTask, Fault, domain, cloud, history, IInv, RestInv, CallInv, CallsHaveRows
<1> QED
  BY <1>1, <1>2, <1>3 DEF IInv

-----------------------------------------------------------------------------
(* The theorems. *)

LEMMA LiveTasks == ASSUME IInv, NEW t \in live PROVE t[1] \in Events /\ t[2] \in Nat
  BY DEF IInv, RestInv

LEMMA StutterInv == IInv /\ UNCHANGED vars => IInv'
  BY DEF IInv, RowInv, CallInv, RestInv, CallsHaveRows, ReportedWorkClosed, RowHasWork,
     RunningCharged, TerminalWorkClosed, vars, domain, cloud, history

LEMMA NextInv == ASSUME IInv, [Next]_vars PROVE IInv'
<1>1. ASSUME NEW d \in Events, Enqueue(d) PROVE IInv'
  BY <1>1, EnqueueInv
<1>2. ASSUME NEW d \in Events, CancelWork(d) PROVE IInv'
  BY <1>2, CancelWorkInv
<1>3. ASSUME NEW d \in Events, EraseWork(d) PROVE IInv'
  BY <1>3, EraseWorkInv
<1>4. ASSUME NEW d \in Events, LeaseExpires(d) PROVE IInv'
  BY <1>4, LeaseExpiresInv
<1>5. ASSUME NEW d \in Events, BecomesDue(d) PROVE IInv'
  BY <1>5, BecomesDueInv
<1>6. ASSUME NEW d \in Events, Ages(d) PROVE IInv'
  BY <1>6, AgesInv
<1>7. ASSUME NEW p \in Publishers, SelectBatch(p) PROVE IInv'
  BY <1>7, SelectBatchInv
<1>8. ASSUME NEW p \in Publishers, ReadSnapshot(p) PROVE IInv'
  BY <1>8, ReadSnapshotInv
<1>9. ASSUME NEW p \in Publishers, CreateTask(p) PROVE IInv'
  BY <1>9, CreateTaskInv
<1>10. ASSUME NEW p \in Publishers, FinishPublish(p) PROVE IInv'
  BY <1>10, FinishPublishInv
<1>11. ASSUME NEW p \in Publishers, CrashPublisher(p) PROVE IInv'
  BY <1>11, CrashPublisherInv
<1>12. ASSUME NEW p \in Publishers, NEW d \in Events, ClaimForPublish(p, d) PROVE IInv'
  BY <1>12, ClaimForPublishInv
<1>13. ASSUME NEW w \in Workers, AnswerMissed(w) PROVE IInv'
  BY <1>13, AnswerMissedInv
<1>14. ASSUME NEW w \in Workers, Execute(w) PROVE IInv'
  BY <1>14, ExecuteInv
<1>15. ASSUME NEW w \in Workers, SettleExhausted(w) PROVE IInv'
  BY <1>15, SettleExhaustedInv
<1>16. ASSUME NEW w \in Workers, FinishWork(w) PROVE IInv'
  BY <1>16, FinishWorkInv
<1>17. ASSUME NEW w \in Workers, ContinueSearch(w) PROVE IInv'
  BY <1>17, ContinueSearchInv
<1>18. ASSUME NEW w \in Workers, CheckFresh(w) PROVE IInv'
  BY <1>18, CheckFreshInv
<1>19. ASSUME NEW w \in Workers, PublishContinuation(w) PROVE IInv'
  BY <1>19, PublishContinuationInv
<1>20. ASSUME NEW w \in Workers, RecordContinuation(w) PROVE IInv'
  BY <1>20, RecordContinuationInv
<1>21. ASSUME NEW w \in Workers, CrashWorker(w) PROVE IInv'
  BY <1>21, CrashWorkerInv
<1>22. ASSUME NEW w \in Workers, NEW d \in Events, NEW n \in Nat, ClaimWork(w, d, n) PROVE IInv'
  BY <1>22, ClaimWorkInv
<1>23. ASSUME NEW w \in Workers, NEW d \in Events, NEW n \in Nat, MissClaim(w, d, n) PROVE IInv'
  BY <1>23, MissClaimInv
<1>24. ASSUME NEW t \in live, DropTask(t) PROVE IInv'
  BY <1>24, DropTaskInv
<1>25. CASE UNCHANGED vars
  BY <1>25, StutterInv
<1> QED
  BY <1>1, <1>2, <1>3, <1>4, <1>5, <1>6, <1>7, <1>8, <1>9, <1>10, <1>11, <1>12, <1>13,
     <1>14, <1>15, <1>16, <1>17, <1>18, <1>19, <1>20, <1>21, <1>22, <1>23, <1>24, <1>25,
     LiveTasks DEF Next, PublisherStep, WorkerStep, Deliver, Time

LEMMA InvImplies == IInv => TypeOK /\ TerminalWorkClosed
  BY DEF IInv, RowInv, CallInv, RestInv, TypeOK

\* The invariant holds in every reachable state, for all constants.
THEOREM Invariance == Spec => []IInv
<1> QED
  BY InitInv, NextInv, PTL DEF Spec

\* Every variable keeps its type; in particular giving attempts back never
\* takes a counter below zero.
THEOREM TypeCorrect == Spec => []TypeOK
  BY Invariance, InvImplies, PTL

\* A completed or failed row has no work left: no interleaving of publishers,
\* workers, cancellations and erasure retires an intent whose work is open.
THEOREM RetiredWorkEnded == Spec => []TerminalWorkClosed
  BY Invariance, InvImplies, PTL

LEMMA TerminalStep ==
    ASSUME IInv, [Next]_vars, NEW e \in Events, outbox[e].status \in Terminal
    PROVE  outbox'[e].status \in {outbox[e].status, "erased"}
<1>1. ASSUME NEW d \in Events, Enqueue(d) PROVE outbox'[e].status \in {outbox[e].status, "erased"}
  BY <1>1 DEF Enqueue, IInv, RowInv, Terminal
<1>2. ASSUME NEW d \in Events, CancelWork(d) PROVE outbox'[e].status \in {outbox[e].status, "erased"}
  BY <1>2, CompletedRow DEF CancelWork, IInv, RowInv, Terminal
<1>3. ASSUME NEW d \in Events, EraseWork(d) PROVE outbox'[e].status \in {outbox[e].status, "erased"}
  BY <1>3, ErasedRow DEF EraseWork, IInv, RowInv, Terminal
<1>4. ASSUME NEW d \in Events, LeaseExpires(d) PROVE outbox'[e].status \in {outbox[e].status, "erased"}
  BY <1>4 DEF LeaseExpires, Row, IInv, RowInv, Terminal
<1>5. ASSUME NEW d \in Events, BecomesDue(d) PROVE outbox'[e].status \in {outbox[e].status, "erased"}
  BY <1>5 DEF BecomesDue, Row, IInv, RowInv, Terminal
<1>6. ASSUME NEW d \in Events, Ages(d) PROVE outbox'[e].status \in {outbox[e].status, "erased"}
  BY <1>6 DEF Ages, Row, IInv, RowInv, Terminal
<1>7. ASSUME NEW p \in Publishers, SelectBatch(p) PROVE outbox'[e].status \in {outbox[e].status, "erased"}
  BY <1>7 DEF SelectBatch
<1>8. ASSUME NEW p \in Publishers, ReadSnapshot(p) PROVE outbox'[e].status \in {outbox[e].status, "erased"}
  BY <1>8 DEF ReadSnapshot
<1>9. ASSUME NEW p \in Publishers, CreateTask(p) PROVE outbox'[e].status \in {outbox[e].status, "erased"}
  BY <1>9 DEF CreateTask
<1>10. ASSUME NEW p \in Publishers, FinishPublish(p) PROVE outbox'[e].status \in {outbox[e].status, "erased"}
  BY <1>10 DEF FinishPublish, HoldsPublish, CallInv, CallsHaveRows, IInv, RowInv, Terminal
<1>11. ASSUME NEW p \in Publishers, CrashPublisher(p) PROVE outbox'[e].status \in {outbox[e].status, "erased"}
  BY <1>11 DEF CrashPublisher
<1>12. ASSUME NEW p \in Publishers, NEW d \in Events, ClaimForPublish(p, d) PROVE outbox'[e].status \in {outbox[e].status, "erased"}
  BY <1>12 DEF ClaimForPublish, PublishClaimable, Recoverable, IInv, RowInv, Terminal
<1>13. ASSUME NEW w \in Workers, AnswerMissed(w) PROVE outbox'[e].status \in {outbox[e].status, "erased"}
  BY <1>13 DEF AnswerMissed
<1>14. ASSUME NEW w \in Workers, Execute(w) PROVE outbox'[e].status \in {outbox[e].status, "erased"}
  BY <1>14 DEF Execute
<1>15. ASSUME NEW w \in Workers, SettleExhausted(w) PROVE outbox'[e].status \in {outbox[e].status, "erased"}
  BY <1>15 DEF SettleExhausted, CallInv, CallsHaveRows, IInv, RowInv, Terminal
<1>16. ASSUME NEW w \in Workers, FinishWork(w) PROVE outbox'[e].status \in {outbox[e].status, "erased"}
  BY <1>16 DEF FinishWork, HoldsExec, CallInv, CallsHaveRows, IInv, RowInv, Terminal
<1>17. ASSUME NEW w \in Workers, ContinueSearch(w) PROVE outbox'[e].status \in {outbox[e].status, "erased"}
  BY <1>17 DEF ContinueSearch, HoldsExec, CallInv, CallsHaveRows, IInv, RowInv, Terminal
<1>18. ASSUME NEW w \in Workers, CheckFresh(w) PROVE outbox'[e].status \in {outbox[e].status, "erased"}
  BY <1>18 DEF CheckFresh
<1>19. ASSUME NEW w \in Workers, PublishContinuation(w) PROVE outbox'[e].status \in {outbox[e].status, "erased"}
  BY <1>19 DEF PublishContinuation
<1>20. ASSUME NEW w \in Workers, RecordContinuation(w) PROVE outbox'[e].status \in {outbox[e].status, "erased"}
  BY <1>20 DEF RecordContinuation, AwaitsContinuation, CallInv, CallsHaveRows, IInv, RowInv,
     Terminal
<1>21. ASSUME NEW w \in Workers, CrashWorker(w) PROVE outbox'[e].status \in {outbox[e].status, "erased"}
  BY <1>21 DEF CrashWorker
<1>22. ASSUME NEW w \in Workers, NEW d \in Events, NEW n \in Nat, ClaimWork(w, d, n) PROVE outbox'[e].status \in {outbox[e].status, "erased"}
  BY <1>22 DEF ClaimWork, ExecClaimable, IInv, RowInv, Terminal
<1>23. ASSUME NEW w \in Workers, NEW d \in Events, NEW n \in Nat, MissClaim(w, d, n) PROVE outbox'[e].status \in {outbox[e].status, "erased"}
  BY <1>23 DEF MissClaim
<1>24. ASSUME NEW t \in live, DropTask(t) PROVE outbox'[e].status \in {outbox[e].status, "erased"}
  BY <1>24 DEF DropTask
<1>25. CASE UNCHANGED vars
  BY <1>25 DEF vars
<1> QED
  BY <1>1, <1>2, <1>3, <1>4, <1>5, <1>6, <1>7, <1>8, <1>9, <1>10, <1>11, <1>12, <1>13,
     <1>14, <1>15, <1>16, <1>17, <1>18, <1>19, <1>20, <1>21, <1>22, <1>23, <1>24, <1>25,
     LiveTasks DEF Next, PublisherStep, WorkerStep, Deliver, Time

\* A retired row is never re-opened, whoever still writes late.
THEOREM RetiredIsFinal == Spec => TerminalIsFinal
<1>1. IInv /\ [Next]_vars => [\A e \in Events : outbox[e].status \in Terminal =>
                                outbox'[e].status \in {outbox[e].status, "erased"}]_vars
  BY TerminalStep
<1> QED
  BY <1>1, Invariance, PTL DEF Spec, TerminalIsFinal

LEMMA LeaseStep ==
    ASSUME IInv, [Next]_vars, NEW e \in Events, NEW w \in Workers,
           HoldsExec(w, e), outbox[e].leased, Claims(outbox'[e]) # Claims(outbox[e])
    PROVE  LeaseGivenUp(w, e)
<1>1. ASSUME NEW d \in Events, Enqueue(d) PROVE LeaseGivenUp(w, e)
  BY <1>1 DEF LeaseGivenUp, Enqueue, HoldsExec, IInv, RowInv
<1>2. ASSUME NEW d \in Events, CancelWork(d) PROVE LeaseGivenUp(w, e)
  BY <1>2, CompletedRow DEF LeaseGivenUp, CancelWork, HoldsExec, IInv, RowInv
<1>3. ASSUME NEW d \in Events, EraseWork(d) PROVE LeaseGivenUp(w, e)
  BY <1>3, ErasedRow DEF LeaseGivenUp, EraseWork, HoldsExec, IInv, RowInv
<1>4. ASSUME NEW d \in Events, LeaseExpires(d) PROVE LeaseGivenUp(w, e)
  BY <1>4 DEF LeaseGivenUp, LeaseExpires, Claims, Row, HoldsExec, IInv, RowInv
<1>5. ASSUME NEW d \in Events, BecomesDue(d) PROVE LeaseGivenUp(w, e)
  BY <1>5 DEF LeaseGivenUp, BecomesDue, Claims, Row, HoldsExec, IInv, RowInv
<1>6. ASSUME NEW d \in Events, Ages(d) PROVE LeaseGivenUp(w, e)
  BY <1>6 DEF LeaseGivenUp, Ages, Claims, Row, HoldsExec, IInv, RowInv
<1>7. ASSUME NEW p \in Publishers, SelectBatch(p) PROVE LeaseGivenUp(w, e)
  BY <1>7 DEF LeaseGivenUp, SelectBatch
<1>8. ASSUME NEW p \in Publishers, ReadSnapshot(p) PROVE LeaseGivenUp(w, e)
  BY <1>8 DEF LeaseGivenUp, ReadSnapshot
<1>9. ASSUME NEW p \in Publishers, CreateTask(p) PROVE LeaseGivenUp(w, e)
  BY <1>9 DEF LeaseGivenUp, CreateTask
<1>10. ASSUME NEW p \in Publishers, FinishPublish(p) PROVE LeaseGivenUp(w, e)
  BY <1>10 DEF LeaseGivenUp, FinishPublish, HoldsPublish, CallInv, CallsHaveRows, HoldsExec,
     IInv, RowInv
<1>11. ASSUME NEW p \in Publishers, CrashPublisher(p) PROVE LeaseGivenUp(w, e)
  BY <1>11 DEF LeaseGivenUp, CrashPublisher
<1>12. ASSUME NEW p \in Publishers, NEW d \in Events, ClaimForPublish(p, d) PROVE LeaseGivenUp(w, e)
  BY <1>12 DEF LeaseGivenUp, ClaimForPublish, PublishClaimable, Recoverable, HoldsExec,
     IInv, RowInv
<1>13. ASSUME NEW v \in Workers, AnswerMissed(v) PROVE LeaseGivenUp(w, e)
  BY <1>13 DEF LeaseGivenUp, AnswerMissed
<1>14. ASSUME NEW v \in Workers, Execute(v) PROVE LeaseGivenUp(w, e)
  BY <1>14 DEF LeaseGivenUp, Execute
<1>15. ASSUME NEW v \in Workers, SettleExhausted(v) PROVE LeaseGivenUp(w, e)
  BY <1>15, CompletedRow DEF LeaseGivenUp, SettleExhausted, CallInv, CallsHaveRows,
     HoldsExec, IInv, RowInv
<1>16. ASSUME NEW v \in Workers, FinishWork(v) PROVE LeaseGivenUp(w, e)
  BY <1>16 DEF LeaseGivenUp, FinishWork, Return, IdleWorker, CallInv, CallsHaveRows,
     HoldsExec, IInv, RowInv
<1>17. ASSUME NEW v \in Workers, ContinueSearch(v) PROVE LeaseGivenUp(w, e)
  BY <1>17 DEF LeaseGivenUp, ContinueSearch, Return, IdleWorker, WorkerState, CallInv,
     CallsHaveRows, HoldsExec, IInv, RowInv
<1>18. ASSUME NEW v \in Workers, CheckFresh(v) PROVE LeaseGivenUp(w, e)
  BY <1>18 DEF LeaseGivenUp, CheckFresh
<1>19. ASSUME NEW v \in Workers, PublishContinuation(v) PROVE LeaseGivenUp(w, e)
  BY <1>19 DEF LeaseGivenUp, PublishContinuation
<1>20. ASSUME NEW v \in Workers, RecordContinuation(v) PROVE LeaseGivenUp(w, e)
  BY <1>20 DEF LeaseGivenUp, RecordContinuation, AwaitsContinuation, CallInv, CallsHaveRows,
     HoldsExec, IInv, RowInv
<1>21. ASSUME NEW v \in Workers, CrashWorker(v) PROVE LeaseGivenUp(w, e)
  BY <1>21 DEF LeaseGivenUp, CrashWorker
<1>22. ASSUME NEW v \in Workers, NEW d \in Events, NEW n \in Nat, ClaimWork(v, d, n) PROVE LeaseGivenUp(w, e)
  BY <1>22 DEF LeaseGivenUp, ClaimWork, ExecClaimable, HoldsExec, IInv, RowInv
<1>23. ASSUME NEW v \in Workers, NEW d \in Events, NEW n \in Nat, MissClaim(v, d, n) PROVE LeaseGivenUp(w, e)
  BY <1>23 DEF LeaseGivenUp, MissClaim
<1>24. ASSUME NEW t \in live, DropTask(t) PROVE LeaseGivenUp(w, e)
  BY <1>24 DEF LeaseGivenUp, DropTask
<1>25. CASE UNCHANGED vars
  BY <1>25 DEF LeaseGivenUp, vars
<1> QED
  BY <1>1, <1>2, <1>3, <1>4, <1>5, <1>6, <1>7, <1>8, <1>9, <1>10, <1>11, <1>12, <1>13,
     <1>14, <1>15, <1>16, <1>17, <1>18, <1>19, <1>20, <1>21, <1>22, <1>23, <1>24, <1>25,
     LiveTasks DEF Next, PublisherStep, WorkerStep, Deliver, Time

\* While a worker's lease runs, nobody else rewrites what its row says about the
\* execution, unless the work itself has ended.
THEOREM LeaseFenced == Spec => LeaseExclusive
<1>1. IInv /\ [Next]_vars => [\A e \in Events, w \in Workers :
          HoldsExec(w, e) /\ outbox[e].leased /\ Claims(outbox'[e]) # Claims(outbox[e])
          => LeaseGivenUp(w, e)]_vars
  BY LeaseStep
<1> QED
  BY <1>1, Invariance, PTL DEF Spec, LeaseExclusive

-----------------------------------------------------------------------------
(* The outbox implements Intent. *)

LEMMA IntentOfRow ==
    ASSUME NEW row \in Row
    PROVE  /\ row.status = "absent" => IntentOf(row) = "none"
           /\ row.status = "running" => IntentOf(row) = "held" /\ HolderOf(row) = row.token
           /\ row.status # "running" => HolderOf(row) = NoToken
           /\ row.status \in Terminal \cup {"erased"} => IntentOf(row) = "closed"
           /\ row.status \in {"pending", "publishing", "dispatched", "retry"}
              => IntentOf(row) = "open"
  BY DEF IntentOf, HolderOf, Row, RowStatus, Terminal

\* What a step of Intent may do to one event and its work.
Kept(e) == /\ IntentOf(outbox'[e]) = IntentOf(outbox[e])
           /\ HolderOf(outbox'[e]) = HolderOf(outbox[e])
Written(e) == /\ IntentOf(outbox[e]) = "none" /\ IntentOf(outbox'[e]) = "open"
              /\ HolderOf(outbox'[e]) = HolderOf(outbox[e]) /\ work'[e] = "open"
Withdrawn(e) == /\ IntentOf(outbox[e]) # "none" /\ IntentOf(outbox'[e]) = "closed"
                /\ HolderOf(outbox'[e]) = NoToken /\ work'[e] = "closed"
Taken(e) == /\ IntentOf(outbox[e]) \in {"open", "held"} /\ IntentOf(outbox'[e]) = "held"
            /\ HolderOf(outbox'[e]) \in Workers /\ work'[e] = work[e]
GivenBack(e) == /\ IntentOf(outbox[e]) = "held" /\ IntentOf(outbox'[e]) = "open"
                /\ HolderOf(outbox'[e]) = NoToken /\ work'[e] = work[e]

LEMMA OneEvent ==
    ASSUME IInv, IInv', NEW e \in Events,
           \A d \in Events \ {e} : outbox'[d] = outbox[d] /\ work'[d] = work[d],
           \/ Kept(e) /\ work'[e] = work[e]
           \/ Kept(e) /\ work[e] = "open" /\ work'[e] = "closed"
           \/ Written(e) \/ Withdrawn(e) \/ Taken(e) \/ GivenBack(e)
    PROVE  I!Next \/ UNCHANGED I!vars
<1> DEFINE intent == [d \in Events |-> IntentOf(outbox[d])]
           holder == [d \in Events |-> HolderOf(outbox[d])]
<1>0. /\ work \in [Events -> {"none", "open", "closed"}]
      /\ work' \in [Events -> {"none", "open", "closed"}]
  BY DEF IInv, RowInv
<1>1. /\ intent' = [intent EXCEPT ![e] = IntentOf(outbox'[e])]
      /\ holder' = [holder EXCEPT ![e] = HolderOf(outbox'[e])]
      /\ intent[e] = IntentOf(outbox[e]) /\ holder[e] = HolderOf(outbox[e])
  OBVIOUS
<1>2. work' = [work EXCEPT ![e] = work'[e]]
  BY <1>0
<1>3. CASE Kept(e) /\ work'[e] = work[e]
  <2>1. UNCHANGED <<intent, holder, work>>
    BY <1>0, <1>1, <1>2, <1>3 DEF Kept
  <2> QED BY <2>1 DEF I!vars
<1>4. CASE Kept(e) /\ work[e] = "open" /\ work'[e] = "closed"
  <2>1. UNCHANGED <<intent, holder>>
    BY <1>1, <1>4 DEF Kept
  <2>2. I!EndWork(e)
    BY <1>2, <1>4, <2>1 DEF I!EndWork
  <2> QED BY <2>2 DEF I!Next
<1>5. CASE Written(e)
  <2>1. UNCHANGED holder
    BY <1>1, <1>5 DEF Written
  <2>2. I!Write(e)
    BY <1>1, <1>2, <1>5, <2>1 DEF Written, I!Write
  <2> QED BY <2>2 DEF I!Next
<1>6. CASE Withdrawn(e)
  <2>1. /\ \A d \in {e} : intent[d] # "none"
        /\ intent' = [d \in Events |-> IF d \in {e} THEN "closed" ELSE intent[d]]
        /\ holder' = [d \in Events |-> IF d \in {e} THEN NoToken ELSE holder[d]]
    BY <1>6 DEF Withdrawn
  <2>2. work' = [d \in Events |-> IF d \in {e} THEN "closed" ELSE work[d]]
    BY <1>0, <1>6 DEF Withdrawn
  <2>3. I!Withdraw({e})
    BY <2>1, <2>2 DEF I!Withdraw
  <2> QED BY <2>3 DEF I!Next
<1>7. CASE Taken(e)
  <2>1. UNCHANGED work
    BY <1>0, <1>2, <1>7 DEF Taken
  <2>2. I!Take(e, HolderOf(outbox'[e]))
    BY <1>1, <1>7, <2>1 DEF Taken, I!Take
  <2> QED BY <1>7, <2>2 DEF I!Next, Taken
<1>8. CASE GivenBack(e)
  <2>1. UNCHANGED work
    BY <1>0, <1>2, <1>8 DEF GivenBack
  <2>2. I!GiveBack(e)
    BY <1>1, <1>8, <2>1 DEF GivenBack, I!GiveBack
  <2> QED BY <2>2 DEF I!Next
<1> QED BY <1>3, <1>4, <1>5, <1>6, <1>7, <1>8

LEMMA IntentKept ==
    ASSUME UNCHANGED <<outbox, work>> PROVE UNCHANGED I!vars
  BY DEF I!vars

\* Every step is a step of Intent or changes nothing that Intent speaks of.
LEMMA IntentStep ==
    ASSUME IInv, [Next]_vars PROVE I!Next \/ UNCHANGED I!vars
<1> DEFINE Maps == I!Next \/ UNCHANGED I!vars
<1>0. /\ IInv' /\ outbox \in [Events -> Row] /\ outbox' \in [Events -> Row]
      /\ work \in [Events -> {"none", "open", "closed"}] /\ CallsHaveRows
      /\ RowHasWork /\ RunningCharged /\ TerminalWorkClosed
  BY NextInv DEF IInv, RowInv, CallInv
<1> HIDE DEF Maps
<1>a. UNCHANGED <<outbox, work>> => Maps
  BY IntentKept DEF Maps
<1>1. ASSUME NEW e \in Events, Enqueue(e) PROVE Maps
  <2>1. outbox'[e].status = "pending" /\ work'[e] = "open" /\ outbox[e].status = "absent"
    BY <1>0, <1>1 DEF Enqueue, Row
  <2>2. Written(e)
    BY <1>0, <2>1, IntentOfRow DEF Written
  <2> QED BY <1>0, <1>1, <2>2, OneEvent DEF Enqueue, Maps
<1>2. ASSUME NEW e \in Events, CancelWork(e) PROVE Maps
  <2>1. /\ work[e] = "open" /\ work'[e] = "closed" /\ outbox[e].status # "absent"
        /\ \A d \in Events \ {e} : outbox'[d] = outbox[d] /\ work'[d] = work[d]
    BY <1>0, <1>2 DEF CancelWork, RowHasWork
  <2>2. CASE UNCHANGED outbox
    BY <1>0, <2>1, <2>2, OneEvent DEF Kept, Maps
  <2>3. CASE outbox[e].status \notin Terminal /\ outbox'[e] = Completed(outbox[e])
    <3>1. outbox'[e].status = "completed"
      BY <1>0, <2>3, CompletedRow
    <3>2. Withdrawn(e)
      BY <1>0, <2>1, <3>1, IntentOfRow DEF Withdrawn, Terminal, Row, RowStatus
    <3> QED BY <1>0, <2>1, <3>2, OneEvent DEF Maps
  <2> QED BY <1>0, <1>2, <2>2, <2>3 DEF CancelWork
<1>3. ASSUME NEW e \in Events, EraseWork(e) PROVE Maps
  <2>1. /\ work'[e] = "closed" /\ outbox[e].status # "absent" /\ outbox'[e].status = "erased"
        /\ \A d \in Events \ {e} : outbox'[d] = outbox[d] /\ work'[d] = work[d]
    BY <1>0, <1>3, ErasedRow DEF EraseWork, RowHasWork
  <2>2. Withdrawn(e)
    BY <1>0, <2>1, IntentOfRow DEF Withdrawn, Terminal, Row, RowStatus
  <2> QED BY <1>0, <2>1, <2>2, OneEvent DEF Maps
<1>4. ASSUME NEW e \in Events, Time(e) PROVE Maps
  <2>1. /\ outbox'[e].status = outbox[e].status /\ outbox'[e].token = outbox[e].token
        /\ UNCHANGED work /\ \A d \in Events \ {e} : outbox'[d] = outbox[d]
    BY <1>0, <1>4 DEF Time, LeaseExpires, BecomesDue, Ages, Row, domain
  <2>2. Kept(e)
    BY <2>1 DEF Kept, IntentOf, HolderOf
  <2> QED BY <1>0, <2>1, <2>2, OneEvent DEF Maps
<1>5. ASSUME NEW p \in Publishers, NEW e \in Events, ClaimForPublish(p, e) PROVE Maps
  <2>1. CASE UNCHANGED outbox
    BY <1>5, <1>a, <2>1 DEF ClaimForPublish, domain
  <2>2. CASE PublishClaimable(outbox[e]) /\ outbox' = [outbox EXCEPT ![e] = PublishClaim(e, p)]
    <3>1. /\ outbox'[e].status = "publishing" /\ UNCHANGED work
          /\ \A d \in Events \ {e} : outbox'[d] = outbox[d]
      BY <1>0, <1>5, <2>2, PublishClaimRow DEF ClaimForPublish, domain
    <3>2. outbox[e].status \in {"pending", "publishing", "retry", "running", "dispatched"}
      BY <2>2 DEF PublishClaimable, Recoverable
    <3>3. Kept(e) \/ GivenBack(e)
      BY <1>0, <3>1, <3>2, IntentOfRow DEF Kept, GivenBack
    <3> QED BY <1>0, <3>1, <3>3, OneEvent DEF Maps
  <2> QED BY <1>5, <2>1, <2>2 DEF ClaimForPublish
<1>6. ASSUME NEW p \in Publishers, SelectBatch(p) \/ ReadSnapshot(p) \/ CreateTask(p)
                                   \/ CrashPublisher(p) PROVE Maps
  BY <1>6, <1>a DEF SelectBatch, ReadSnapshot, CreateTask, CrashPublisher, domain
<1>7. ASSUME NEW p \in Publishers, FinishPublish(p) PROVE Maps
  <2> DEFINE e == publisher[p].event
  <2>1. e \in Events /\ UNCHANGED work
    BY <1>0, <1>7 DEF FinishPublish, CallsHaveRows, domain
  <2>2. CASE ~HoldsPublish(p, e)
    BY <1>7, <1>a, <2>1, <2>2 DEF FinishPublish
  <2>3. CASE HoldsPublish(p, e)
    <3>1. /\ outbox[e].status = "publishing" /\ outbox'[e].status \in {"dispatched", "pending"}
          /\ \A d \in Events \ {e} : outbox'[d] = outbox[d]
      BY <1>0, <1>7, <2>1, <2>3, PublishedRow, UnpublishedRow DEF FinishPublish, HoldsPublish
    <3>2. Kept(e)
      BY <1>0, <2>1, <3>1, IntentOfRow DEF Kept
    <3> QED BY <1>0, <2>1, <3>1, <3>2, OneEvent DEF Maps
  <2> QED BY <2>2, <2>3
<1>8. ASSUME NEW w \in Workers, NEW e \in Events, NEW n \in Nat, ClaimWork(w, e, n) PROVE Maps
  <2>1. /\ outbox'[e] = ExecClaim(outbox[e], w) /\ UNCHANGED work
        /\ \A d \in Events \ {e} : outbox'[d] = outbox[d]
    BY <1>0, <1>8 DEF ClaimWork, domain
  <2>2. outbox[e].status \in {"pending", "publishing", "dispatched", "retry", "running"}
    BY <1>8 DEF ClaimWork, ExecClaimable
  <2>3. outbox'[e].status = "running" /\ outbox'[e].token = w
    BY <1>0, <2>1 DEF ExecClaim, Row
  <2>4. Taken(e)
    BY <1>0, <2>1, <2>2, <2>3, IntentOfRow DEF Taken
  <2> QED BY <1>0, <2>1, <2>4, OneEvent DEF Maps
<1>9. ASSUME NEW w \in Workers, Execute(w) PROVE Maps
  <2> DEFINE e == worker[w].event
  <2>1. /\ e \in Events /\ UNCHANGED outbox /\ work[e] # "none"
        /\ work' = work \/ work' = [work EXCEPT ![e] = "closed"]
    BY <1>0, <1>9 DEF Execute, CallsHaveRows, domain
  <2>2. CASE UNCHANGED work
    BY <1>a, <2>1, <2>2
  <2>3. CASE work' = [work EXCEPT ![e] = "closed"] /\ work[e] = "open"
    BY <1>0, <2>1, <2>3, OneEvent DEF Kept, Maps
  <2>4. CASE work' = [work EXCEPT ![e] = "closed"] /\ work[e] = "closed"
    <3>1. UNCHANGED work  BY <1>0, <2>1, <2>4
    <3> QED BY <1>a, <2>1, <3>1
  <2> QED BY <1>0, <2>1, <2>2, <2>3, <2>4
<1>10. ASSUME NEW w \in Workers, SettleExhausted(w) PROVE Maps
  <2> DEFINE e == worker[w].event
  <2>1. e \in Events /\ work[e] # "none" /\ outbox[e].status # "absent"
    BY <1>0, <1>10 DEF SettleExhausted, CallsHaveRows, RowHasWork
  <2>2. CASE UNCHANGED <<outbox, work>>
    BY <1>a, <2>2
  <2>3. CASE work' = [work EXCEPT ![e] = "closed"] /\ UNCHANGED outbox
    <3>1. CASE work[e] = "open"
      BY <1>0, <2>1, <2>3, <3>1, OneEvent DEF Kept, Maps
    <3>2. CASE work[e] = "closed"
      <4>1. UNCHANGED work  BY <1>0, <2>1, <2>3, <3>2
      <4> QED BY <1>a, <2>3, <4>1
    <3> QED BY <1>0, <2>1, <3>1, <3>2
  <2>4. CASE /\ work' = [work EXCEPT ![e] = "closed"]
             /\ outbox' = [outbox EXCEPT ![e] = Completed(@)]
    <3>1. /\ outbox'[e].status = "completed" /\ work'[e] = "closed"
          /\ \A d \in Events \ {e} : outbox'[d] = outbox[d] /\ work'[d] = work[d]
      BY <1>0, <2>1, <2>4, CompletedRow
    <3>2. Withdrawn(e)
      BY <1>0, <2>1, <3>1, IntentOfRow DEF Withdrawn, Terminal, Row, RowStatus
    <3> QED BY <1>0, <2>1, <3>1, <3>2, OneEvent DEF Maps
  <2> QED BY <1>10, <2>2, <2>3, <2>4 DEF SettleExhausted
<1>11. ASSUME NEW w \in Workers, FinishWork(w) PROVE Maps
  <2> DEFINE e == worker[w].event
  <2>1. e \in Events /\ UNCHANGED work /\ outbox[e] \in Row
    BY <1>0, <1>11 DEF FinishWork, CallsHaveRows, domain
  <2>2. CASE ~HoldsExec(w, e)
    BY <1>11, <1>a, <2>1, <2>2 DEF FinishWork
  <2>3. CASE HoldsExec(w, e)
    <3>1. /\ outbox[e].status = "running" /\ outbox[e].execs # 0
          /\ worker[w].result \in {"done", "busy", "raise", "exhausted"}
      BY <1>0, <1>11, <2>1, <2>3 DEF FinishWork, HoldsExec, CallsHaveRows, RunningCharged
    <3>2. /\ outbox'[e].status \in {"completed", "failed", "retry"}
          /\ outbox'[e].status \in Terminal => work[e] = "closed"
          /\ \A d \in Events \ {e} : outbox'[d] = outbox[d]
      BY <1>0, <1>11, <2>1, <2>3, <3>1, SettledRow
         DEF FinishWork, IInv, CallInv, ReportedWorkClosed
    <3>3. Withdrawn(e) \/ GivenBack(e)
      BY <1>0, <2>1, <3>1, <3>2, IntentOfRow DEF Withdrawn, GivenBack, Terminal
    <3> QED BY <1>0, <2>1, <3>2, <3>3, OneEvent DEF Maps
  <2> QED BY <2>2, <2>3
<1>12. ASSUME NEW w \in Workers, ContinueSearch(w) PROVE Maps
  <2> DEFINE e == worker[w].event
  <2>1. e \in Events /\ UNCHANGED work /\ outbox[e] \in Row /\ work[e] # "none"
    BY <1>0, <1>12 DEF ContinueSearch, CallsHaveRows, domain
  <2>2. CASE ~HoldsExec(w, e)
    BY <1>12, <1>a, <2>1, <2>2 DEF ContinueSearch
  <2>3. CASE HoldsExec(w, e)
    <3>1. outbox[e].status = "running" /\ outbox[e].execs # 0
      BY <1>0, <2>1, <2>3 DEF HoldsExec, RunningCharged
    <3>2. /\ outbox'[e].status = "retry" \/ (outbox'[e].status = "completed" /\ work[e] = "closed")
          /\ \A d \in Events \ {e} : outbox'[d] = outbox[d]
      BY <1>0, <1>12, <2>1, <2>3, <3>1, ContinuedRow, CompletedRow DEF ContinueSearch
    <3>3. Withdrawn(e) \/ GivenBack(e)
      BY <1>0, <2>1, <3>1, <3>2, IntentOfRow DEF Withdrawn, GivenBack, Terminal
    <3> QED BY <1>0, <2>1, <3>2, <3>3, OneEvent DEF Maps
  <2> QED BY <2>2, <2>3
<1>13. ASSUME NEW w \in Workers, RecordContinuation(w) PROVE Maps
  <2> DEFINE e == worker[w].event
  <2>1. e \in Events /\ UNCHANGED work /\ outbox[e] \in Row
    BY <1>0, <1>13 DEF RecordContinuation, CallsHaveRows, domain
  <2>2. CASE UNCHANGED outbox
    BY <1>a, <2>1, <2>2
  <2>3. CASE outbox' # outbox
    <3>1. /\ outbox[e].status = "retry" /\ outbox'[e].status \in {"dispatched", "retry"}
          /\ \A d \in Events \ {e} : outbox'[d] = outbox[d]
      BY <1>0, <1>13, <2>1, <2>3, RecordedRow DEF RecordContinuation, AwaitsContinuation
    <3>2. Kept(e)
      BY <1>0, <2>1, <3>1, IntentOfRow DEF Kept
    <3> QED BY <1>0, <2>1, <3>1, <3>2, OneEvent DEF Maps
  <2> QED BY <2>2, <2>3
<1>14. ASSUME NEW w \in Workers, AnswerMissed(w) \/ CheckFresh(w) \/ PublishContinuation(w)
                                 \/ CrashWorker(w) PROVE Maps
  BY <1>14, <1>a DEF AnswerMissed, CheckFresh, PublishContinuation, CrashWorker, domain
<1>15. ASSUME NEW t \in live, NEW w \in Workers, Deliver(w, t) PROVE Maps
  <2>1. CASE ClaimWork(w, t[1], t[2])  BY <1>8, <2>1, LiveTasks
  <2>2. CASE MissClaim(w, t[1], t[2])  BY <1>a, <2>2 DEF MissClaim, domain
  <2> QED BY <1>15, <2>1, <2>2 DEF Deliver
<1>16. ASSUME NEW t \in live, DropTask(t) PROVE Maps
  BY <1>16, <1>a DEF DropTask, domain
<1>17. ASSUME UNCHANGED vars PROVE Maps
  BY <1>17, <1>a DEF vars, domain
<1> QED
  <2>1. Maps
    BY <1>1, <1>2, <1>3, <1>4, <1>5, <1>6, <1>7, <1>9, <1>10, <1>11, <1>12, <1>13, <1>14,
       <1>15, <1>16, <1>17 DEF Next, PublisherStep, WorkerStep
  <2> QED BY <2>1 DEF Maps

\* Publishers, workers, leases, retries and continuations together do what Intent
\* promises of dispatch/service.py: an event is open, held by one worker, or closed
\* with its work.
THEOREM DispatchImplementsIntent == Spec => ImplementsIntent
<1>1. Init => I!Init
  BY DEF Init, I!Init, BlankRow, IntentOf, HolderOf
<1>2. IInv /\ [Next]_vars => [I!Next]_(I!vars)
  BY IntentStep
<1> QED BY <1>1, <1>2, Invariance, PTL DEF Spec, ImplementsIntent, I!Spec

\* What Intent promises, seen from the outbox: a row that was retired or deleted has no
\* work left.
ClosedEnded == \A e \in Events : IntentOf(outbox[e]) = "closed" => work[e] = "closed"

LEMMA ClosedStep ==
    ASSUME IInv, ClosedEnded, [Next]_vars PROVE ClosedEnded'
<1> DEFINE intent == [d \in Events |-> IntentOf(outbox[d])]
<1>0. \A e \in Events : intent[e] = "closed" => work[e] = "closed"
  BY DEF ClosedEnded
<1>1. work \in [Events -> {"none", "open", "closed"}]
  BY DEF IInv, RowInv
<1>2. \A e \in Events : intent'[e] = "closed" => work'[e] = "closed"
  <2> HIDE DEF intent
  <2>1. intent = [d \in Events |-> IntentOf(outbox[d])]
    BY DEF intent
  <2>2. CASE UNCHANGED I!vars
    BY <1>0, <1>1, <2>2 DEF I!vars, intent
  <2>3. CASE I!Next
    BY <1>0, <1>1, <2>3 DEF I!Next, I!Write, I!EndWork, I!Withdraw, I!Take, I!GiveBack,
       I!Close, intent
  <2> QED BY <2>2, <2>3, IntentStep
<1> QED BY <1>2 DEF ClosedEnded

\* A row that was retired or deleted has no work left: what Intent demands of every step
\* is enough to show it.
THEOREM ClosedRowsEnded == Spec => []ClosedEnded
<1>1. Init => ClosedEnded
  BY DEF Init, ClosedEnded, BlankRow, IntentOf
<1> QED BY <1>1, ClosedStep, Invariance, PTL DEF Spec
-----------------------------------------------------------------------------
(* Physical tasks and their names. *)

\* Nobody claimed the row of e, nor did it wait for an hour.
Quiet(e) == e \notin claimed \cup overdue

\* The publisher is at the row of e; it has read the name for its task.
At(p, e) == publisher[p].event = e /\ publisher[p].phase \in {"read", "create", "sent", "unsent"}
HasName(p, e) == publisher[p].event = e /\ publisher[p].phase \in {"create", "sent", "unsent"}

\* As long as nothing happens to the row of e but publication, its tasks and those that
\* are about to be created have the name n, and so has the row unless it was deleted.
NamedBy(e, n) ==
    /\ \A t \in used : t[1] = e => t[2] = n
    /\ \A p \in Publishers : HasName(p, e) => publisher[p].name = n
    /\ outbox[e].status # "erased" /\ outbox[e].name # 0 => outbox[e].name = n
    /\ outbox[e].status # "erased" /\ outbox[e].name = 0 =>
          /\ \A t \in used : t[1] # e
          /\ \A p \in Publishers : ~At(p, e)

NameRight(e) ==
    Quiet(e) => /\ outbox[e].status \notin {"running", "retry"} /\ ~outbox[e].aged
                /\ \E n \in Nat : NamedBy(e, n)

WorkersClaimed ==
    \A w \in Workers : worker[w].phase \notin {"idle", "missed"} => worker[w].event \in claimed

Names == WorkersClaimed /\ \A e \in Events : NameRight(e)

\* A step after which nothing has a name, or a task, that it did not have before,
\* except for events somebody has claimed.
LEMMA NamesKept ==
    ASSUME Names, WorkersClaimed', claimed \subseteq claimed', overdue \subseteq overdue',
           \A t \in used' : t \in used \/ t[1] \in claimed',
           \A e \in Events, p \in Publishers :
              /\ At(p, e)' => At(p, e)
              /\ HasName(p, e)' => HasName(p, e) /\ publisher'[p].name = publisher[p].name,
           \A e \in Events : Quiet(e)' =>
              \/ outbox'[e] = outbox[e]
              \/ outbox'[e].status = "erased" /\ ~outbox'[e].aged
              \/ /\ outbox[e].status # "erased" /\ outbox'[e].name = outbox[e].name
                 /\ outbox'[e].status \notin {"running", "retry"} /\ ~outbox'[e].aged
    PROVE  Names'
<1>1. ASSUME NEW e \in Events, Quiet(e)' PROVE NameRight(e)'
  <2>1. Quiet(e)
    BY <1>1 DEF Quiet
  <2>2. PICK n \in Nat : NamedBy(e, n)
    BY <2>1 DEF Names, NameRight
  <2>3. \A t \in used' : t[1] = e => t \in used
    BY <1>1 DEF Quiet
  <2>4. NamedBy(e, n)'
    BY <1>1, <2>2, <2>3 DEF NamedBy
  <2>5. outbox'[e].status \notin {"running", "retry"} /\ ~outbox'[e].aged
    BY <1>1, <2>1 DEF Names, NameRight
  <2> QED BY <2>4, <2>5 DEF NameRight
<1> QED BY <1>1 DEF Names, NameRight

\* A claim makes up a name only when nothing has one.
LEMMA PublishNamed ==
    ASSUME IInv, Names, NEW p \in Publishers, NEW e \in Events, ClaimForPublish(p, e)
    PROVE  Names'
<1>0. /\ outbox \in [Events -> Row] /\ publisher \in [Publishers -> PublisherState]
      /\ publisher' \in [Publishers -> PublisherState]
  BY ClaimForPublishInv DEF IInv, RowInv, CallInv
<1>1. CASE PublishClaimable(outbox[e])
  <2>1. /\ publisher'[p].phase = "read" /\ publisher'[p].event = e
        /\ \A q \in Publishers \ {p} : publisher'[q] = publisher[q]
        /\ outbox'[e] = PublishClaim(e, p) /\ \A d \in Events \ {e} : outbox'[d] = outbox[d]
        /\ UNCHANGED <<used, worker, claimed, overdue>>
    BY <1>0, <1>1 DEF ClaimForPublish, domain, cloud, history
  <2>2. ASSUME NEW d \in Events, d # e PROVE NameRight(d)'
    <3>1. \A q \in Publishers :
             /\ At(q, d)' => At(q, d)
             /\ HasName(q, d)' => HasName(q, d) /\ publisher'[q] = publisher[q]
      BY <2>1, <2>2 DEF At, HasName
    <3>2. ASSUME NEW n \in Nat, NamedBy(d, n) PROVE NamedBy(d, n)'
      BY <2>1, <2>2, <3>1, <3>2 DEF NamedBy
    <3> QED BY <2>1, <2>2, <3>2 DEF Names, NameRight, Quiet
  <2>3. ASSUME Quiet(e) PROVE NameRight(e)'
    <3>1. PICK n \in Nat : NamedBy(e, n)
      BY <2>3 DEF Names, NameRight
    <3>2. outbox[e].status \in {"pending", "publishing"} /\ ~outbox[e].aged
      BY <1>1, <2>3 DEF Names, NameRight, PublishClaimable, Recoverable
    <3>3. /\ outbox'[e].status = "publishing" /\ ~outbox'[e].aged
          /\ outbox'[e].name = PublishName(e)
      BY <1>0, <2>1, <3>2 DEF PublishClaim, Row
    <3>4. \A q \in Publishers : HasName(q, e)' => HasName(q, e) /\ publisher'[q] = publisher[q]
      BY <2>1 DEF HasName
    <3>5. CASE outbox[e].name # 0
      <4>1. PublishName(e) = outbox[e].name
        BY <3>2, <3>5 DEF PublishName, ReusesName
      <4>2. NamedBy(e, n)'
        BY <2>1, <3>1, <3>2, <3>3, <3>4, <3>5, <4>1 DEF NamedBy
      <4> QED BY <3>3, <4>2 DEF NameRight
    <3>6. CASE outbox[e].name = 0
      <4>1. PICK m \in Nat : m = outbox[e].gens + 1 /\ m # 0
        BY <1>0 DEF Row
      <4>2. outbox'[e].name = m
        BY <3>3, <3>6, <4>1 DEF PublishName, ReusesName
      <4>3. NamedBy(e, m)'
        BY <2>1, <3>1, <3>2, <3>3, <3>4, <3>6, <4>1, <4>2 DEF NamedBy, At, HasName
      <4> QED BY <3>3, <4>3 DEF NameRight
    <3> QED BY <3>5, <3>6
  <2> QED BY <2>1, <2>2, <2>3 DEF Names, NameRight, Quiet, WorkersClaimed
<1>2. CASE ~PublishClaimable(outbox[e])
  <2>1. /\ publisher'[p].phase \in {"idle", "claim"}
        /\ \A q \in Publishers \ {p} : publisher'[q] = publisher[q]
        /\ UNCHANGED <<outbox, used, worker, claimed, overdue>>
    BY <1>0, <1>2 DEF ClaimForPublish, domain, cloud, history, PublisherState
  <2> QED BY <2>1, NamesKept DEF Names, WorkersClaimed, At, HasName
<1> QED BY <1>1, <1>2

LEMMA ReadName ==
    ASSUME IInv, Names, NEW p \in Publishers, ReadSnapshot(p) PROVE Names'
<1> DEFINE e == publisher[p].event
<1>0. /\ outbox \in [Events -> Row] /\ publisher \in [Publishers -> PublisherState]
      /\ e \in Events
  BY DEF IInv, RowInv, CallInv, CallsHaveRows, ReadSnapshot
<1>1. /\ \A q \in Publishers \ {p} : publisher'[q] = publisher[q]
      /\ UNCHANGED <<outbox, used, worker, claimed, overdue>> /\ At(p, e)
  BY <1>0 DEF ReadSnapshot, domain, cloud, history, At
<1>2. CASE outbox[e].status = "erased"
  <2>1. publisher'[p].phase \in {"idle", "claim"}
    BY <1>0, <1>2, NextInBatchState DEF ReadSnapshot
  <2> QED BY <1>1, <2>1, NamesKept DEF Names, WorkersClaimed, At, HasName
<1>3. CASE outbox[e].status # "erased"
  <2>1. publisher'[p].event = e /\ publisher'[p].name = outbox[e].name
    BY <1>0, <1>3 DEF ReadSnapshot, PublisherState
  <2>2. ASSUME NEW d \in Events, NEW n \in Nat, NamedBy(d, n) PROVE NamedBy(d, n)'
    <3>1. CASE d = e
      <4>1. outbox[e].name = n
        BY <1>1, <1>3, <2>2, <3>1 DEF NamedBy
      <4> QED BY <1>1, <1>3, <2>1, <2>2, <3>1, <4>1 DEF NamedBy, HasName, At
    <3>2. CASE d # e
      BY <1>1, <2>1, <2>2, <3>2 DEF NamedBy, HasName, At
    <3> QED BY <3>1, <3>2
  <2> QED BY <1>1, <2>2 DEF Names, NameRight, Quiet, WorkersClaimed
<1> QED BY <1>2, <1>3

LEMMA CreateName ==
    ASSUME IInv, Names, NEW p \in Publishers, CreateTask(p) PROVE Names'
<1> DEFINE e == publisher[p].event
<1>0. /\ publisher \in [Publishers -> PublisherState] /\ e \in Events
  BY DEF IInv, CallInv, CallsHaveRows, CreateTask
<1>1. /\ \A q \in Publishers \ {p} : publisher'[q] = publisher[q]
      /\ publisher'[p].event = e /\ publisher'[p].name = publisher[p].name
      /\ HasName(p, e) /\ At(p, e)
      /\ UNCHANGED <<outbox, worker, claimed, overdue>>
  BY <1>0 DEF CreateTask, domain, history, HasName, At, PublisherState
<1>2. \A t \in used' : t \in used \/ t = <<e, publisher[p].name>>
  BY DEF CreateTask, CreateSucceeds, CreateErrs, Created, AlreadyExists, cloud
<1>3. ASSUME NEW d \in Events, NEW n \in Nat, NamedBy(d, n) PROVE NamedBy(d, n)'
  <2>1. \A q \in Publishers : /\ At(q, d)' => At(q, d)
                              /\ HasName(q, d)' => HasName(q, d) /\ publisher'[q].name = publisher[q].name
    BY <1>1 DEF At, HasName
  <2>2. \A t \in used' : t[1] = d => t \in used \/ (d = e /\ t[2] = publisher[p].name)
    BY <1>2
  <2> QED BY <1>1, <1>3, <2>1, <2>2 DEF NamedBy
<1> QED BY <1>1, <1>3 DEF Names, NameRight, Quiet, WorkersClaimed

\* Every step keeps the names right.
LEMMA NamesStep ==
    ASSUME IInv, ClosedEnded, Names, [Next]_vars PROVE Names'
<1>0. /\ IInv' /\ outbox \in [Events -> Row] /\ outbox' \in [Events -> Row]
      /\ publisher \in [Publishers -> PublisherState] /\ worker \in [Workers -> WorkerState]
      /\ CallsHaveRows /\ WorkersClaimed
  BY NextInv DEF IInv, RowInv, CallInv, Names
<1> DEFINE Still(e) ==
      \/ outbox'[e] = outbox[e]
      \/ outbox'[e].status = "erased" /\ ~outbox'[e].aged
      \/ /\ outbox[e].status # "erased" /\ outbox'[e].name = outbox[e].name
         /\ outbox'[e].status \notin {"running", "retry"} /\ ~outbox'[e].aged
<1>a. ASSUME UNCHANGED <<used, publisher, worker, claimed>>, overdue \subseteq overdue',
             \A e \in Events : Quiet(e)' => Still(e)
      PROVE  Names'
  BY <1>0, <1>a, NamesKept DEF WorkersClaimed, At, HasName
<1>1. ASSUME NEW e \in Events, Enqueue(e) PROVE Names'
  <2>1. Names => (Quiet(e) => ~outbox[e].aged)
    BY DEF Names, NameRight
  <2>2. /\ outbox'[e].status = "pending" /\ outbox'[e].name = outbox[e].name
        /\ outbox'[e].aged = outbox[e].aged /\ outbox[e].status = "absent"
        /\ \A d \in Events \ {e} : outbox'[d] = outbox[d]
    BY <1>0, <1>1 DEF Enqueue, Row
  <2> QED BY <1>1, <1>a, <2>1, <2>2 DEF Enqueue, cloud, history, Quiet
<1>2. ASSUME NEW e \in Events, CancelWork(e) PROVE Names'
  <2>1. Names => (Quiet(e) => ~outbox[e].aged)
    BY DEF Names, NameRight
  <2>2. \/ outbox'[e] = outbox[e]
        \/ /\ outbox'[e].status = "completed" /\ outbox'[e].name = outbox[e].name
           /\ outbox'[e].aged = outbox[e].aged
    BY <1>0, <1>2 DEF CancelWork, Completed, Row
  <2>3. outbox[e].status # "erased" \/ outbox'[e] = outbox[e]
    BY <1>2 DEF CancelWork, ClosedEnded, IntentOf
  <2>4. \A d \in Events \ {e} : outbox'[d] = outbox[d]
    BY <1>0, <1>2 DEF CancelWork
  <2> QED BY <1>2, <1>a, <2>1, <2>2, <2>3, <2>4 DEF CancelWork, cloud, history, Quiet
<1>3. ASSUME NEW e \in Events, EraseWork(e) PROVE Names'
  <2>1. /\ outbox'[e].status = "erased" /\ ~outbox'[e].aged
        /\ \A d \in Events \ {e} : outbox'[d] = outbox[d]
    BY <1>0, <1>3 DEF EraseWork, BlankRow
  <2> QED BY <1>3, <1>a, <2>1 DEF EraseWork, cloud, history
<1>4. ASSUME NEW e \in Events, LeaseExpires(e) \/ BecomesDue(e) PROVE Names'
  <2>1. /\ outbox'[e].status = outbox[e].status /\ outbox'[e].name = outbox[e].name
        /\ outbox'[e].aged = outbox[e].aged
        /\ \A d \in Events \ {e} : outbox'[d] = outbox[d]
    BY <1>0, <1>4 DEF LeaseExpires, BecomesDue, Row
  <2>2. Quiet(e) => outbox[e].status \notin {"running", "retry"} /\ ~outbox[e].aged
    BY DEF Names, NameRight
  <2> QED BY <1>4, <1>a, <2>1, <2>2 DEF LeaseExpires, BecomesDue, cloud, history, Quiet
<1>5. ASSUME NEW e \in Events, Ages(e) PROVE Names'
  <2>1. e \in overdue' /\ \A d \in Events \ {e} : outbox'[d] = outbox[d]
    BY <1>0, <1>5 DEF Ages
  <2> QED BY <1>5, <1>a, <2>1 DEF Ages, cloud, Quiet
<1>6. ASSUME NEW p \in Publishers, FinishPublish(p) \/ SelectBatch(p) \/ CrashPublisher(p)
      PROVE  Names'
  <2> DEFINE e == publisher[p].event
  <2>1. /\ publisher'[p].phase \in {"idle", "claim"}
        /\ \A q \in Publishers \ {p} : publisher'[q] = publisher[q]
        /\ UNCHANGED <<used, worker, claimed, overdue>>
    BY <1>0, <1>6, NextInBatchState DEF FinishPublish, SelectBatch, CrashPublisher,
       IdlePublisher, cloud, history, PublisherState
  <2>2. ASSUME NEW d \in Events, Quiet(d)' PROVE Still(d)
    <3>1. CASE outbox'[d] = outbox[d]
      BY <3>1
    <3>2. CASE outbox'[d] # outbox[d]
      <4>1. /\ d = e /\ outbox[e].status = "publishing"
            /\ outbox'[e] \in {Published(outbox[e]), Unpublished(outbox[e])}
        BY <1>0, <1>6, <3>2 DEF FinishPublish, SelectBatch, CrashPublisher, HoldsPublish
      <4>2. ~outbox[e].aged
        BY <2>1, <2>2, <4>1 DEF Names, NameRight, Quiet
      <4>3. /\ outbox'[e].status \in {"dispatched", "pending"} /\ ~outbox'[e].aged
            /\ outbox'[e].name = outbox[e].name
        BY ZenonT(60), <1>0, <4>1, <4>2 DEF Published, Unpublished, Row
      <4> QED BY <4>1, <4>3
    <3> QED BY <3>1, <3>2
  <2> QED BY <1>0, <2>1, <2>2, NamesKept DEF WorkersClaimed, At, HasName
<1>7. ASSUME NEW w \in Workers, WorkerStep(w) \/ CrashWorker(w) PROVE Names'
  <2> DEFINE e == worker[w].event
  <2>1. worker[w].phase \notin {"idle", "missed"} => e \in claimed
    BY <1>0 DEF WorkersClaimed
  <2>2. /\ UNCHANGED <<publisher, claimed, overdue>>
        /\ \A v \in Workers \ {w} : worker'[v] = worker[v]
        /\ worker'[w].phase # "idle" => worker[w].phase \notin {"idle", "missed"} /\ worker'[w].event = e
    BY <1>0, <1>7 DEF WorkerStep, CrashWorker, AnswerMissed, Execute, SettleExhausted, FinishWork,
       ContinueSearch, CheckFresh, PublishContinuation, RecordContinuation, Return, Outcome,
       IdleWorker, history, WorkerState
  <2>3. WorkersClaimed'
    BY <1>0, <2>1, <2>2 DEF WorkersClaimed
  <2>4. \A t \in used' : t \in used \/ t[1] \in claimed
    BY <1>7, <2>1 DEF WorkerStep, CrashWorker, AnswerMissed, Execute, SettleExhausted, FinishWork,
       ContinueSearch, CheckFresh, PublishContinuation, RecordContinuation, CreateSucceeds,
       CreateErrs, Created, AlreadyExists, cloud
  <2>5. \A d \in Events \ {e} : outbox'[d] = outbox[d]
    BY <1>0, <1>7 DEF WorkerStep, CrashWorker, AnswerMissed, Execute, SettleExhausted, FinishWork,
       ContinueSearch, CheckFresh, PublishContinuation, RecordContinuation
  <2>6. worker[w].phase \in {"idle", "missed"} => UNCHANGED outbox
    BY <1>7 DEF WorkerStep, CrashWorker, AnswerMissed, Execute, SettleExhausted, FinishWork,
       ContinueSearch, CheckFresh, PublishContinuation, RecordContinuation
  <2>7. \A d \in Events : Quiet(d)' => outbox'[d] = outbox[d]
    BY <2>1, <2>2, <2>5, <2>6 DEF Quiet
  <2> QED BY <2>2, <2>3, <2>4, <2>7, NamesKept DEF At, HasName
<1>8. ASSUME NEW t \in live, NEW w \in Workers, Deliver(w, t) PROVE Names'
  <2> DEFINE e == t[1]
  <2>1. /\ UNCHANGED <<used, publisher, overdue>> /\ claimed \subseteq claimed'
        /\ \A v \in Workers \ {w} : worker'[v] = worker[v]
        /\ worker'[w].phase = "missed" \/ (worker'[w].event = e /\ e \in claimed')
        /\ \A d \in Events \ {e} : outbox'[d] = outbox[d]
        /\ UNCHANGED outbox \/ e \in claimed'
    BY <1>0, <1>8, LiveTasks DEF Deliver, ClaimWork, MissClaim, cloud, history
  <2>2. WorkersClaimed'
    BY <1>0, <2>1 DEF WorkersClaimed
  <2> QED BY <2>1, <2>2, NamesKept DEF At, HasName, Quiet
<1>9. ASSUME NEW t \in live, DropTask(t) PROVE Names'
  BY <1>9, <1>a DEF DropTask, history
<1>10. CASE UNCHANGED vars
  BY <1>10, <1>a DEF vars, cloud, history
<1> QED
  BY <1>1, <1>2, <1>3, <1>4, <1>5, <1>6, <1>7, <1>8, <1>9, <1>10, PublishNamed, ReadName,
     CreateName DEF Next, Time, PublisherStep

LEMMA InitNames == ASSUME Init PROVE Names
<1>1. \A e \in Events : NamedBy(e, 0)
  BY DEF Init, NamedBy, At, HasName, IdlePublisher, BlankRow
<1>2. \A e \in Events : outbox[e].status = "absent" /\ ~outbox[e].aged
  BY DEF Init, BlankRow
<1> QED BY <1>1, <1>2 DEF Init, Names, WorkersClaimed, NameRight, IdleWorker

LEMMA NamesOne == ASSUME IInv, Names PROVE OnePhysicalTask
<1>1. ASSUME NEW e \in Events, Quiet(e)
      PROVE  Cardinality({t \in used : t[1] = e}) <= 1
  <2> DEFINE T == {t \in used : t[1] = e}
  <2>1. PICK n \in Nat : NamedBy(e, n)
    BY <1>1 DEF Names, NameRight
  <2>2. T \subseteq {<<e, n>>}
    BY <2>1 DEF NamedBy, IInv, RestInv
  <2>3. IsFiniteSet({<<e, n>>}) /\ Cardinality({<<e, n>>}) = 1
    BY FS_Singleton
  <2>4. Cardinality(T) <= 1
    BY <2>2, <2>3, FS_Subset
  <2> QED BY <2>4
<1> QED BY <1>1 DEF OnePhysicalTask, Quiet

\* Publisher crashes and ambiguous errors of _create_task never make a second physical
\* task: until a worker claims the row, or it sits dispatched for an hour, every claim
\* of a publisher reuses the name that was stored first.
THEOREM OneTaskPerRow == Spec => []OnePhysicalTask
<1>1. Spec => []Names
  BY InitNames, NamesStep, ClosedRowsEnded, Invariance, PTL DEF Spec
<1> QED BY <1>1, Invariance, NamesOne, PTL
-----------------------------------------------------------------------------
(* Attempts and failures. *)

\* A call that may still raise, or give its attempt back.
Chargeable(w, e) ==
    /\ worker[w].event = e
    /\ worker[w].phase \in {"execute", "continue"}
       \/ (worker[w].phase = "finish" /\ worker[w].result = "busy")
Open(e) == {w \in Workers : Chargeable(w, e)}

\* A call that runs the handler, or has run it and not raised.
Ran(w, e) ==
    /\ worker[w].event = e
    /\ worker[w].phase \in {"execute", "continue"}
       \/ (worker[w].phase = "finish" /\ worker[w].result \in {"done", "busy"})

Settles(w, e) == worker[w].event = e /\ worker[w].phase = "settle"

\* Failures and the calls that may add to them are covered by attempts.
Covered(e) ==
    /\ IsFiniteSet(Open(e))
    /\ failures[e] + Cardinality(Open(e)) <= MaxAttempts
    /\ outbox[e].status # "erased" => failures[e] + Cardinality(Open(e)) <= outbox[e].execs

\* Beyond the limit nobody runs the handler any more, so nothing gives attempts back
\* and nothing reports work as done.
BeyondLimit(e) ==
    /\ \A w \in Workers : HoldsExec(w, e) /\ Ran(w, e) => outbox[e].execs <= MaxAttempts
    /\ \A w \in Workers : Settles(w, e) =>
          outbox[e].execs > MaxAttempts \/ outbox[e].status \in Terminal \cup {"erased"}
    /\ e \in exhausted \ SearchEvents =>
          \/ outbox[e].status \in {"failed", "erased"}
          \/ outbox[e].execs > MaxAttempts /\ outbox[e].status # "completed"

Bounds == \A e \in Events : Covered(e) /\ BeyondLimit(e)

\* A step that makes nobody run the handler, and that neither counts attempts of the
\* row of e nor retires it as completed.
LEMMA CoveredKept ==
    ASSUME IInv, IInv', NEW e \in Events, Covered(e),
           failures'[e] = failures[e], Open(e)' \subseteq Open(e),
           \/ outbox'[e].status = "erased"
           \/ outbox[e].status # "erased" /\ outbox'[e].execs >= outbox[e].execs
    PROVE  Covered(e)'
<1>1. /\ IsFiniteSet(Open(e)') /\ Cardinality(Open(e)') <= Cardinality(Open(e))
      /\ Cardinality(Open(e)') \in Nat /\ Cardinality(Open(e)) \in Nat
  BY FS_Subset, FS_CardinalityType DEF Covered
<1>2. /\ failures[e] \in Nat /\ outbox[e].execs \in Nat /\ outbox'[e].execs \in Nat
      /\ MaxAttempts \in Nat
  BY ConstantsOK DEF IInv, RestInv, RowInv, Row
<1> QED
  <2>1. failures'[e] + Cardinality(Open(e)') <= MaxAttempts
    BY <1>1, <1>2 DEF Covered
  <2>2. outbox'[e].status # "erased" => failures'[e] + Cardinality(Open(e)') <= outbox'[e].execs
    BY <1>1, <1>2 DEF Covered
  <2> QED BY <1>1, <2>1, <2>2 DEF Covered

\* One call stops being able to fail or to give its attempt back: it fails, gives it
\* back, or neither.
LEMMA CoveredSpent ==
    ASSUME IInv, IInv', NEW e \in Events, Covered(e), NEW w \in Workers, w \in Open(e),
           Open(e)' = Open(e) \ {w},
           \/ failures'[e] = failures[e] + 1 /\ UNCHANGED outbox
           \/ failures'[e] = failures[e] /\ outbox'[e].execs >= outbox[e].execs - 1
              /\ outbox[e].status # "erased"
    PROVE  Covered(e)'
<1>1. /\ IsFiniteSet(Open(e)') /\ Cardinality(Open(e)') = Cardinality(Open(e)) - 1
      /\ Cardinality(Open(e)') \in Nat /\ Cardinality(Open(e)) \in Nat
  BY FS_RemoveElement, FS_CardinalityType DEF Covered
<1>2. /\ failures[e] \in Nat /\ outbox[e].execs \in Nat /\ outbox'[e].execs \in Nat
      /\ MaxAttempts \in Nat
  BY ConstantsOK DEF IInv, RestInv, RowInv, Row
<1> QED
  <2>1. failures'[e] + Cardinality(Open(e)') <= MaxAttempts
    BY <1>1, <1>2 DEF Covered
  <2>2. outbox'[e].status # "erased" => failures'[e] + Cardinality(Open(e)') <= outbox'[e].execs
    BY <1>1, <1>2 DEF Covered
  <2> QED BY <1>1, <2>1, <2>2 DEF Covered

LEMMA CoveredClaimed ==
    ASSUME IInv, IInv', NEW e \in Events, Covered(e), NEW w \in Workers, w \notin Open(e),
           failures'[e] = failures[e], outbox'[e].execs = outbox[e].execs + 1,
           outbox[e].status # "erased",
           Open(e)' = Open(e) \/ (Open(e)' = Open(e) \cup {w} /\ outbox'[e].execs <= MaxAttempts)
    PROVE  Covered(e)'
<1>1. /\ IsFiniteSet(Open(e)') /\ Cardinality(Open(e)') \in Nat /\ Cardinality(Open(e)) \in Nat
      /\ \/ Cardinality(Open(e)') = Cardinality(Open(e))
         \/ /\ Cardinality(Open(e)') = Cardinality(Open(e)) + 1
            /\ outbox'[e].execs <= MaxAttempts
  BY FS_AddElement, FS_CardinalityType DEF Covered
<1>2. /\ failures[e] \in Nat /\ outbox[e].execs \in Nat /\ outbox'[e].execs \in Nat
      /\ MaxAttempts \in Nat
  BY ConstantsOK DEF IInv, RestInv, RowInv, Row
<1> QED
  <2>1. failures'[e] + Cardinality(Open(e)') <= outbox'[e].execs
    BY <1>1, <1>2 DEF Covered
  <2>2. failures'[e] + Cardinality(Open(e)') <= MaxAttempts
    BY <1>1, <1>2, <2>1 DEF Covered
  <2> QED BY <1>1, <2>1, <2>2 DEF Covered

\* A step after which nobody runs the handler or settles who did not before.
LEMMA BeyondKept ==
    ASSUME IInv, IInv', NEW e \in Events, BeyondLimit(e), e \in exhausted' => e \in exhausted,
           \A w \in Workers : Settles(w, e)' => Settles(w, e),
           \A w \in Workers : HoldsExec(w, e)' /\ Ran(w, e)' =>
              HoldsExec(w, e) /\ Ran(w, e) /\ outbox'[e].execs = outbox[e].execs,
           outbox[e].status \in Terminal => outbox'[e].status \in {outbox[e].status, "erased"},
           \/ outbox'[e].status \in {"failed", "erased"}
           \/ outbox'[e].status = "completed" /\ e \notin exhausted \ SearchEvents
           \/ outbox'[e].execs = outbox[e].execs /\ outbox[e].status # "erased"
              /\ (outbox'[e].status = "completed" => outbox[e].status = "completed")
    PROVE  BeyondLimit(e)'
  BY DEF BeyondLimit, Terminal

\* Nobody runs the handler when one of the calls settles the work.
LEMMA RanBelow ==
    ASSUME IInv, NEW e \in Events, BeyondLimit(e), NEW w \in Workers, HoldsExec(w, e), Ran(w, e)
    PROVE  /\ outbox[e].status = "running" /\ outbox[e].execs <= MaxAttempts
           /\ \A v \in Workers : ~Settles(v, e)
           /\ e \notin exhausted \ SearchEvents
<1>1. /\ outbox[e].execs \in Nat /\ MaxAttempts \in Nat
      /\ outbox[e].status = "running" /\ outbox[e].execs <= MaxAttempts
  BY ConstantsOK DEF IInv, RowInv, Row, HoldsExec, BeyondLimit
<1>2. ~(outbox[e].execs > MaxAttempts) /\ outbox[e].status \notin Terminal \cup {"failed", "erased"}
  BY <1>1 DEF Terminal
<1> QED BY <1>1, <1>2 DEF BeyondLimit

\* What a step does to one row when calls go on as before or are through with it.
LEMMA BoundsKept ==
    ASSUME IInv, IInv', [Next]_vars, Bounds, NEW e \in Events,
           failures'[e] = failures[e], e \in exhausted' => e \in exhausted,
           \A w \in Workers : \/ worker'[w] = worker[w]
                              \/ ~Chargeable(w, e)' /\ ~Ran(w, e)' /\ ~Settles(w, e)',
           \/ outbox'[e].status = "erased"
           \/ /\ outbox[e].status # "erased" /\ outbox'[e].execs = outbox[e].execs
              /\ outbox'[e].status = "running" =>
                    outbox[e].status = "running" /\ outbox'[e].token = outbox[e].token
              /\ outbox'[e].status = "completed" =>
                    outbox[e].status = "completed" \/ e \notin exhausted \ SearchEvents
    PROVE  Covered(e)' /\ BeyondLimit(e)'
<1>1. /\ outbox[e].execs \in Nat /\ outbox'[e].execs \in Nat
      /\ Covered(e) /\ BeyondLimit(e)
  BY DEF IInv, RowInv, Row, Bounds
<1>2. Open(e)' \subseteq Open(e)
  BY DEF Open, Chargeable
<1>3. Covered(e)'
  BY <1>1, <1>2, CoveredKept
<1>4. /\ \A w \in Workers : Settles(w, e)' => Settles(w, e)
      /\ \A w \in Workers : HoldsExec(w, e)' /\ Ran(w, e)' =>
            HoldsExec(w, e) /\ Ran(w, e) /\ outbox'[e].execs = outbox[e].execs
  BY DEF Settles, HoldsExec, Ran
<1>5. outbox[e].status \in Terminal => outbox'[e].status \in {outbox[e].status, "erased"}
  BY TerminalStep
<1>6. BeyondLimit(e)'
  BY <1>1, <1>4, <1>5, BeyondKept
<1> QED BY <1>3, <1>6

\* Steps of no worker.
LEMMA BoundsRows ==
    ASSUME IInv, [Next]_vars, Bounds, UNCHANGED <<worker, failures, exhausted>>,
           \A e \in Events :
           \/ outbox'[e] = outbox[e] \/ outbox'[e].status = "erased"
           \/ /\ outbox[e].status # "erased" /\ outbox'[e].execs = outbox[e].execs
              /\ outbox'[e].status = "running" =>
                    outbox[e].status = "running" /\ outbox'[e].token = outbox[e].token
              /\ outbox'[e].status = "completed" => e \in SearchEvents \/ outbox[e].status = "completed"
    PROVE  Bounds'
<1>1. IInv'  BY NextInv
<1> QED BY <1>1, BoundsKept DEF Bounds

\* Steps of a worker leave the other events alone.
LEMMA BoundsElsewhere ==
    ASSUME IInv, [Next]_vars, Bounds, NEW w \in Workers, NEW e, NEW d \in Events, d # e,
           \A v \in Workers \ {w} : worker'[v] = worker[v],
           worker'[w].event \in {e, NoEvent},
           outbox'[d] = outbox[d], failures'[d] = failures[d], d \in exhausted' => d \in exhausted
    PROVE  Covered(d)' /\ BeyondLimit(d)'
<1>1. IInv' /\ worker'[w].event # d
  BY NextInv, ConstantsOK
<1> QED BY <1>1, BoundsKept DEF Chargeable, Ran, Settles

LEMMA BoundsClaim ==
    ASSUME IInv, Bounds, NEW w \in Workers, NEW e \in Events, NEW n \in Nat, ClaimWork(w, e, n),
           [Next]_vars
    PROVE  Bounds'
<1>0. /\ IInv' /\ outbox \in [Events -> Row] /\ worker \in [Workers -> WorkerState]
      /\ MaxAttempts \in Nat /\ outbox[e].execs \in Nat /\ outbox[e] \in Row
      /\ Covered(e) /\ BeyondLimit(e)
  BY NextInv, ConstantsOK DEF IInv, RowInv, CallInv, Bounds, Row
<1>1. /\ \A v \in Workers \ {w} : worker'[v] = worker[v]
      /\ worker'[w].event = e /\ worker'[w].result = "none"
      /\ worker'[w].phase = IF outbox[e].execs + 1 > MaxAttempts THEN "settle" ELSE "execute"
      /\ worker[w].phase = "idle" /\ UNCHANGED <<failures, exhausted>>
      /\ outbox'[e] = ExecClaim(outbox[e], w)
      /\ \A d \in Events \ {e} : outbox'[d] = outbox[d]
  BY <1>0 DEF ClaimWork
<1>2. outbox[e].status \in {"pending", "publishing", "dispatched", "retry", "running"}
  BY DEF ClaimWork, ExecClaimable
<1>3. /\ outbox'[e].status = "running" /\ outbox'[e].token = w
      /\ outbox'[e].execs = outbox[e].execs + 1
  BY <1>0, <1>1 DEF ExecClaim, Row
<1>4. w \notin Open(e)
  BY <1>1 DEF Open, Chargeable
<1>5. CASE outbox[e].execs + 1 > MaxAttempts
  <2>1. Open(e)' = Open(e)
    BY <1>1, <1>5 DEF Open, Chargeable
  <2>2. Covered(e)'
    BY <1>0, <1>1, <1>2, <1>3, <1>4, <2>1, CoveredClaimed
  <2>3. BeyondLimit(e)'
    BY <1>1, <1>3, <1>5 DEF BeyondLimit, HoldsExec, Ran
  <2> QED BY <1>1, <2>2, <2>3, BoundsElsewhere DEF Bounds
<1>6. CASE outbox[e].execs + 1 <= MaxAttempts
  <2>1. worker'[w].phase = "execute"
    BY <1>0, <1>1, <1>6
  <2>2. Open(e)' = Open(e) \cup {w}
    BY <1>1, <2>1 DEF Open, Chargeable
  <2>3. Covered(e)'
    BY <1>0, <1>1, <1>2, <1>3, <1>4, <1>6, <2>2, CoveredClaimed
  <2>4. ~(outbox[e].execs > MaxAttempts) /\ outbox[e].status \notin Terminal \cup {"failed", "erased"}
    BY <1>0, <1>2, <1>6 DEF Terminal
  <2>5. (\A v \in Workers : ~Settles(v, e)') /\ e \notin exhausted' \ SearchEvents
    BY <1>0, <1>1, <2>1, <2>4 DEF BeyondLimit, Settles
  <2>6. BeyondLimit(e)'
    BY <1>3, <1>6, <2>5 DEF BeyondLimit
  <2> QED BY <1>1, <2>3, <2>6, BoundsElsewhere DEF Bounds
<1> QED BY <1>0, <1>5, <1>6

LEMMA BoundsExecute ==
    ASSUME IInv, Bounds, NEW w \in Workers, Execute(w), [Next]_vars PROVE Bounds'
<1>e. PICK e \in Events : e = worker[w].event
  BY DEF IInv, CallInv, CallsHaveRows, Execute
<1>0. /\ IInv' /\ e = worker[w].event /\ worker \in [Workers -> WorkerState]
      /\ failures \in [Events -> Nat] /\ Covered(e) /\ BeyondLimit(e)
      /\ outbox[e].execs \in Nat
  BY <1>e, NextInv DEF IInv, RowInv, Row, CallInv, RestInv, Bounds
<1>1. /\ \A v \in Workers \ {w} : worker'[v] = worker[v]
      /\ worker'[w].event = e /\ worker'[w].phase \in {"finish", "continue"}
      /\ \A d \in Events \ {e} : failures'[d] = failures[d]
      /\ UNCHANGED <<outbox, exhausted>> /\ w \in Open(e) /\ Ran(w, e)
  BY <1>0 DEF Execute, Outcome, WorkerState, Open, Chargeable, Ran
<1>2. /\ \A v \in Workers : Settles(v, e)' => Settles(v, e)
      /\ \A v \in Workers : HoldsExec(v, e)' /\ Ran(v, e)' => HoldsExec(v, e) /\ Ran(v, e)
  BY <1>1 DEF Settles, HoldsExec, Ran
<1>3. BeyondLimit(e)'
  BY <1>0, <1>1, <1>2 DEF BeyondLimit
<1>4. CASE failures'[e] = failures[e] + 1 /\ worker'[w].phase = "finish" /\ worker'[w].result = "raise"
  <2>1. Open(e)' = Open(e) \ {w}
    BY <1>1, <1>4 DEF Open, Chargeable
  <2>2. Covered(e)'
    BY <1>0, <1>1, <1>4, <2>1, CoveredSpent
  <2> QED BY <1>1, <1>3, <2>2, BoundsElsewhere DEF Bounds
<1>5. CASE failures'[e] = failures[e]
  <2>1. Open(e)' \subseteq Open(e)
    BY <1>1 DEF Open, Chargeable
  <2>2. Covered(e)'
    BY <1>0, <1>1, <1>5, <2>1, CoveredKept
  <2> QED BY <1>1, <1>3, <2>2, BoundsElsewhere DEF Bounds
<1> QED BY <1>0, <1>4, <1>5 DEF Execute, Outcome, WorkerState

LEMMA BoundsSettle ==
    ASSUME IInv, ClosedEnded, Bounds, NEW w \in Workers, SettleExhausted(w), [Next]_vars
    PROVE  Bounds'
<1>e. PICK e \in Events : e = worker[w].event
  BY DEF IInv, CallInv, CallsHaveRows, SettleExhausted
<1>0. /\ IInv' /\ e = worker[w].event /\ worker \in [Workers -> WorkerState]
      /\ outbox \in [Events -> Row] /\ outbox[e] \in Row
      /\ Covered(e) /\ BeyondLimit(e) /\ outbox[e].execs \in Nat /\ TerminalWorkClosed
  BY <1>e, NextInv DEF IInv, RowInv, Row, CallInv, Bounds
<1>1. /\ \A v \in Workers \ {w} : worker'[v] = worker[v]
      /\ worker'[w].event = e /\ worker'[w].phase = "finish"
      /\ worker'[w].result \in {"raise", "exhausted"}
      /\ UNCHANGED failures /\ Settles(w, e)
      /\ \A d \in Events \ {e} : outbox'[d] = outbox[d] /\ (d \in exhausted' => d \in exhausted)
      /\ e \in exhausted' => e \in exhausted \/ work[e] = "open"
  BY <1>0 DEF SettleExhausted, Outcome, WorkerState, Settles
<1>2. Open(e)' = Open(e)
  BY <1>1 DEF Open, Chargeable, Settles
<1>3. \/ outbox'[e] = outbox[e]
      \/ /\ outbox'[e].status = "completed" /\ outbox'[e].execs = outbox[e].execs
         /\ e \in SearchEvents /\ outbox[e].status # "erased"
  <2>1. \/ outbox'[e] = outbox[e]
        \/ outbox'[e] = Completed(outbox[e]) /\ e \in SearchEvents /\ work[e] = "open"
           /\ outbox[e].status \notin Terminal
    BY <1>0 DEF SettleExhausted
  <2>2. outbox[e].status = "erased" => work[e] = "closed"
    BY DEF ClosedEnded, IntentOf
  <2> QED BY <1>0, <2>1, <2>2 DEF Completed, Row
<1>4. Covered(e)'
  BY <1>0, <1>1, <1>2, <1>3, CoveredKept
<1>5. outbox[e].execs > MaxAttempts \/ outbox[e].status \in Terminal \cup {"erased"}
  BY <1>0, <1>1 DEF BeyondLimit
<1>6. outbox[e].status \in Terminal => work[e] = "closed"
  BY <1>0 DEF TerminalWorkClosed
<1>7. /\ \A v \in Workers : Settles(v, e)' => Settles(v, e)
      /\ \A v \in Workers : HoldsExec(v, e)' /\ Ran(v, e)' =>
            HoldsExec(v, e) /\ Ran(v, e) /\ outbox'[e] = outbox[e]
  BY <1>1, <1>3 DEF Settles, HoldsExec, Ran
<1>8. BeyondLimit(e)'
  BY <1>0, <1>1, <1>3, <1>5, <1>6, <1>7 DEF BeyondLimit, Terminal
<1> QED BY <1>1, <1>4, <1>8, BoundsElsewhere DEF Bounds

\* The attempt of a call that holds its row is given back.
LEMMA BoundsReturned ==
    ASSUME IInv, IInv', Bounds, NEW e \in Events, NEW w \in Workers, w \in Open(e),
           HoldsExec(w, e), outbox'[e].status = "retry", outbox'[e].execs = outbox[e].execs - 1,
           \A v \in Workers \ {w} : worker'[v] = worker[v],
           ~Chargeable(w, e)', ~Settles(w, e)', UNCHANGED <<failures, exhausted>>
    PROVE  Covered(e)' /\ BeyondLimit(e)'
<1>1. Ran(w, e) /\ Covered(e) /\ BeyondLimit(e) /\ outbox[e].execs \in Nat
  BY DEF Open, Chargeable, Ran, Bounds, IInv, RowInv, Row
<1>2. /\ outbox[e].status = "running" /\ outbox[e].execs <= MaxAttempts
      /\ \A v \in Workers : ~Settles(v, e)
      /\ e \notin exhausted \ SearchEvents
  BY <1>1, RanBelow
<1>3. Open(e)' = Open(e) \ {w}
  BY DEF Open, Chargeable
<1>4. Covered(e)'
  BY <1>1, <1>2, <1>3, CoveredSpent
<1>5. /\ \A v \in Workers : ~Settles(v, e)'
      /\ \A v \in Workers : ~HoldsExec(v, e)'
  BY <1>2 DEF Settles, HoldsExec
<1>6. BeyondLimit(e)'
  BY <1>2, <1>5 DEF BeyondLimit
<1> QED BY <1>4, <1>6

LEMMA BoundsFinish ==
    ASSUME IInv, Bounds, NEW w \in Workers, FinishWork(w), [Next]_vars PROVE Bounds'
<1>e. PICK e \in Events : e = worker[w].event
  BY DEF IInv, CallInv, CallsHaveRows, FinishWork
<1>0. /\ IInv' /\ e = worker[w].event /\ outbox \in [Events -> Row] /\ outbox[e] \in Row
      /\ worker[w].result \in {"done", "busy", "raise", "exhausted"} /\ BeyondLimit(e)
      /\ RunningCharged /\ outbox[e].execs \in Nat
  BY <1>e, NextInv DEF IInv, RowInv, CallInv, CallsHaveRows, Bounds, FinishWork, Row
<1>1. /\ \A v \in Workers \ {w} : worker'[v] = worker[v]
      /\ worker'[w] = IdleWorker /\ worker[w].phase = "finish"
      /\ UNCHANGED <<failures, exhausted>>
      /\ \A d \in Events \ {e} : outbox'[d] = outbox[d]
  BY <1>0 DEF FinishWork, Return, history, IInv, CallInv
<1>2. ~Chargeable(w, e)' /\ ~Ran(w, e)' /\ ~Settles(w, e)' /\ worker'[w].event = NoEvent
  BY <1>1 DEF Chargeable, Ran, Settles, IdleWorker
<1>3. Covered(e)' /\ BeyondLimit(e)'
  <2>1. CASE ~HoldsExec(w, e)
    <3>1. outbox'[e] = outbox[e]
      BY <1>0, <2>1 DEF FinishWork
    <3> QED BY <1>0, <1>1, <1>2, <3>1, BoundsKept
  <2>2. CASE HoldsExec(w, e) /\ worker[w].result = "busy"
    <3>1. /\ w \in Open(e) /\ outbox[e].status = "running" /\ outbox[e].execs # 0
      BY <1>0, <1>1, <2>2 DEF Open, Chargeable, HoldsExec, RunningCharged
    <3>2. outbox'[e] = Refunded(outbox[e])
      BY <1>0, <2>2 DEF FinishWork, Settled
    <3>3. outbox'[e].status = "retry" /\ outbox'[e].execs = outbox[e].execs - 1
      BY <1>0, <3>2 DEF Refunded, Retry, Row
    <3> QED BY <1>0, <1>1, <1>2, <2>2, <3>1, <3>3, BoundsReturned
  <2>3. CASE HoldsExec(w, e) /\ worker[w].result # "busy"
    <3>1. /\ outbox[e].status = "running"
          /\ outbox'[e] = Settled(outbox[e], worker[w].result)
      BY <1>0, <2>3 DEF FinishWork, HoldsExec
    <3>2. /\ outbox'[e].execs = outbox[e].execs
          /\ outbox'[e].status \in {"completed", "failed", "retry"}
          /\ outbox'[e].status = "completed" => worker[w].result = "done"
      BY <1>0, <2>3, <3>1 DEF Settled, Completed, Failed, Deferred, Retry, Row
    <3>3. worker[w].result = "done" => e \notin exhausted \ SearchEvents
      BY <1>0, <1>1, <2>3, RanBelow DEF Ran
    <3> QED BY <1>0, <1>1, <1>2, <3>1, <3>2, <3>3, BoundsKept
  <2> QED BY <2>1, <2>2, <2>3
<1> QED BY <1>1, <1>2, <1>3, BoundsElsewhere DEF Bounds

LEMMA BoundsContinue ==
    ASSUME IInv, Bounds, NEW w \in Workers, ContinueSearch(w), [Next]_vars PROVE Bounds'
<1>e. PICK e \in Events : e = worker[w].event
  BY DEF IInv, CallInv, CallsHaveRows, ContinueSearch
<1>0. /\ IInv' /\ e = worker[w].event /\ outbox \in [Events -> Row] /\ outbox[e] \in Row
      /\ BeyondLimit(e) /\ RunningCharged /\ outbox[e].execs \in Nat
      /\ worker \in [Workers -> WorkerState]
  BY <1>e, NextInv DEF IInv, RowInv, CallInv, Bounds, Row
<1>1. /\ \A v \in Workers \ {w} : worker'[v] = worker[v]
      /\ worker'[w] = IdleWorker \/ (worker'[w].event = e /\ worker'[w].phase = "fresh")
      /\ UNCHANGED <<failures, exhausted>>
      /\ \A d \in Events \ {e} : outbox'[d] = outbox[d]
      /\ w \in Open(e) /\ Ran(w, e)
  BY <1>0 DEF ContinueSearch, Return, history, WorkerState, Open, Chargeable, Ran
<1>2. ~Chargeable(w, e)' /\ ~Ran(w, e)' /\ ~Settles(w, e)' /\ worker'[w].event \in {e, NoEvent}
  BY <1>1 DEF Chargeable, Ran, Settles, IdleWorker
<1>3. Covered(e)' /\ BeyondLimit(e)'
  <2>1. CASE ~HoldsExec(w, e)
    <3>1. outbox'[e] = outbox[e]
      BY <1>0, <2>1 DEF ContinueSearch
    <3> QED BY <1>0, <1>1, <1>2, <3>1, BoundsKept
  <2>2. CASE HoldsExec(w, e) /\ work[e] = "open"
    <3>1. outbox'[e] = Continued(outbox[e])
      BY <1>0, <2>2 DEF ContinueSearch
    <3>2. outbox'[e].status = "retry" /\ outbox'[e].execs = outbox[e].execs - 1
      BY <1>0, <3>1 DEF Continued, Retry, Row
    <3> QED BY <1>0, <1>1, <1>2, <2>2, <3>2, BoundsReturned
  <2>3. CASE HoldsExec(w, e) /\ work[e] # "open"
    <3>1. outbox'[e] = Completed(outbox[e])
      BY <1>0, <2>3 DEF ContinueSearch
    <3>2. /\ outbox'[e].status = "completed" /\ outbox'[e].execs = outbox[e].execs
          /\ outbox[e].status = "running"
      BY <1>0, <2>3, <3>1 DEF Completed, Row, HoldsExec
    <3>3. e \notin exhausted \ SearchEvents
      BY <1>0, <1>1, <2>3, RanBelow
    <3> QED BY <1>0, <1>1, <1>2, <3>2, <3>3, BoundsKept
  <2> QED BY <2>1, <2>2, <2>3
<1> QED BY <1>1, <1>2, <1>3, BoundsElsewhere DEF Bounds

\* Every step keeps failures within attempts, and what is beyond the limit there.
LEMMA BoundsStep ==
    ASSUME IInv, ClosedEnded, Bounds, [Next]_vars PROVE Bounds'
<1>0. /\ IInv' /\ outbox \in [Events -> Row] /\ outbox' \in [Events -> Row]
      /\ worker \in [Workers -> WorkerState] /\ CallsHaveRows
  BY NextInv DEF IInv, RowInv, CallInv
<1>1. ASSUME NEW e \in Events, Enqueue(e) PROVE Bounds'
  <2>1. /\ outbox'[e].status = "pending" /\ outbox'[e].execs = outbox[e].execs
        /\ outbox[e].status = "absent" /\ \A d \in Events \ {e} : outbox'[d] = outbox[d]
    BY <1>0, <1>1 DEF Enqueue, Row
  <2> QED BY <1>1, <2>1, BoundsRows DEF Enqueue, history
<1>2. ASSUME NEW e \in Events, CancelWork(e) PROVE Bounds'
  <2>2. \/ outbox'[e] = outbox[e]
        \/ /\ outbox'[e].status = "completed" /\ outbox'[e].execs = outbox[e].execs
           /\ e \in SearchEvents /\ outbox'[e] = Completed(outbox[e])
    BY <1>0, <1>2 DEF CancelWork, Completed, Row
  <2>3. \A d \in Events \ {e} : outbox'[d] = outbox[d]
    BY <1>0, <1>2 DEF CancelWork
  <2>4. ASSUME outbox[e].status = "erased" PROVE outbox'[e] = outbox[e]
    BY <1>2, <2>4 DEF CancelWork, ClosedEnded, IntentOf
  <2> QED BY <1>2, <2>2, <2>3, <2>4, BoundsRows DEF CancelWork, history
<1>3. ASSUME NEW e \in Events, EraseWork(e) PROVE Bounds'
  <2>1. /\ outbox'[e].status = "erased" /\ \A d \in Events \ {e} : outbox'[d] = outbox[d]
    BY <1>0, <1>3 DEF EraseWork, BlankRow
  <2> QED BY <1>3, <2>1, BoundsRows DEF EraseWork, history
<1>4. ASSUME NEW e \in Events, Time(e) PROVE Bounds'
  <2>1. /\ outbox'[e].status = outbox[e].status /\ outbox'[e].execs = outbox[e].execs
        /\ outbox'[e].token = outbox[e].token
        /\ \A d \in Events \ {e} : outbox'[d] = outbox[d]
    BY <1>0, <1>4 DEF Time, LeaseExpires, BecomesDue, Ages, Row
  <2> QED BY <1>4, <2>1, BoundsRows DEF Time, LeaseExpires, BecomesDue, Ages, history
<1>5. ASSUME NEW p \in Publishers, PublisherStep(p) \/ CrashPublisher(p) PROVE Bounds'
  <2>1. UNCHANGED <<worker, failures, exhausted>>
    BY <1>5 DEF PublisherStep, SelectBatch, ClaimForPublish, ReadSnapshot, CreateTask, FinishPublish,
       CrashPublisher, history
  <2>2. ASSUME NEW d \in Events, outbox'[d] # outbox[d]
        PROVE  \/ outbox'[d] = PublishClaim(d, p) /\ PublishClaimable(outbox[d])
               \/ /\ outbox'[d] \in {Published(outbox[d]), Unpublished(outbox[d])}
                  /\ outbox[d].status = "publishing"
    BY <1>0, <1>5, <2>2 DEF PublisherStep, SelectBatch, ClaimForPublish, ReadSnapshot, CreateTask,
       FinishPublish, CrashPublisher, HoldsPublish
  <2>3. ASSUME NEW d \in Events, outbox'[d] # outbox[d]
        PROVE  /\ outbox[d].status # "erased" /\ outbox'[d].execs = outbox[d].execs
               /\ outbox'[d].status \in {"publishing", "dispatched", "pending"}
    <3>1. outbox[d] \in Row
      BY <1>0
    <3>2. CASE outbox'[d] = PublishClaim(d, p) /\ PublishClaimable(outbox[d])
      BY <3>1, <3>2 DEF PublishClaim, PublishClaimable, Recoverable, Row
    <3>3. CASE /\ outbox'[d] \in {Published(outbox[d]), Unpublished(outbox[d])}
               /\ outbox[d].status = "publishing"
      BY <3>1, <3>3 DEF Published, Unpublished, Row
    <3> QED BY <2>2, <2>3, <3>2, <3>3
  <2> QED BY <2>1, <2>3, BoundsRows
<1>6. ASSUME NEW w \in Workers, AnswerMissed(w) \/ CheckFresh(w) \/ PublishContinuation(w)
                                \/ RecordContinuation(w) \/ CrashWorker(w) PROVE Bounds'
  <2>e. PICK e \in Events : e = worker[w].event
    BY <1>0, <1>6 DEF AnswerMissed, CheckFresh, PublishContinuation, RecordContinuation, CrashWorker,
       CallsHaveRows
  <2>1. /\ \A v \in Workers \ {w} : worker'[v] = worker[v]
        /\ \/ worker'[w] = IdleWorker
           \/ worker'[w].event = e /\ worker'[w].phase \in {"publish", "published", "unpublished"}
        /\ UNCHANGED <<failures, exhausted>> /\ e = worker[w].event
        /\ \A d \in Events \ {e} : outbox'[d] = outbox[d]
    BY <1>0, <1>6, <2>e DEF AnswerMissed, CheckFresh, PublishContinuation, RecordContinuation,
       CrashWorker, Return, history, WorkerState
  <2>2. ~Chargeable(w, e)' /\ ~Ran(w, e)' /\ ~Settles(w, e)' /\ worker'[w].event \in {e, NoEvent}
    BY <2>1 DEF Chargeable, Ran, Settles, IdleWorker
  <2>3. \/ outbox'[e] = outbox[e]
        \/ /\ outbox'[e] \in {Redispatched(outbox[e]), PublishDeferred(outbox[e])}
           /\ outbox[e].status = "retry"
    BY <1>0, <1>6, <2>1 DEF AnswerMissed, CheckFresh, PublishContinuation, RecordContinuation,
       CrashWorker, AwaitsContinuation
  <2>4. \/ outbox'[e] = outbox[e]
        \/ /\ outbox'[e].status \in {"dispatched", "retry"} /\ outbox'[e].execs = outbox[e].execs
           /\ outbox[e].status # "erased"
    BY ZenonT(60), <1>0, <2>1, <2>3 DEF Redispatched, PublishDeferred, Row
  <2>5. Covered(e)' /\ BeyondLimit(e)'
    BY <1>0, <2>1, <2>2, <2>4, BoundsKept
  <2> QED BY <2>1, <2>2, <2>5, BoundsElsewhere DEF Bounds
<1>7. ASSUME NEW t \in live, NEW w \in Workers, Deliver(w, t) PROVE Bounds'
  <2>1. CASE ClaimWork(w, t[1], t[2])
    BY <2>1, LiveTasks, BoundsClaim
  <2>2. CASE MissClaim(w, t[1], t[2])
    <3>1. /\ \A v \in Workers \ {w} : worker'[v] = worker[v]
          /\ worker'[w].phase = "missed" /\ UNCHANGED <<outbox, failures, exhausted>>
      BY <1>0, <2>2 DEF MissClaim, history
    <3>2. \A e \in Events : ~Chargeable(w, e)' /\ ~Ran(w, e)' /\ ~Settles(w, e)'
      BY <3>1 DEF Chargeable, Ran, Settles
    <3> QED BY <1>0, <3>1, <3>2, BoundsKept DEF Bounds
  <2> QED BY <1>7, <2>1, <2>2 DEF Deliver
<1>8. ASSUME NEW t \in live, DropTask(t) PROVE Bounds'
  BY <1>8, BoundsRows DEF DropTask, history
<1>9. CASE UNCHANGED vars
  BY <1>9, BoundsRows DEF vars, history
<1> QED
  BY <1>1, <1>2, <1>3, <1>4, <1>5, <1>6, <1>7, <1>8, <1>9, BoundsExecute, BoundsSettle,
     BoundsFinish, BoundsContinue DEF Next, WorkerStep

LEMMA InitBounds == ASSUME Init PROVE Bounds
<1>1. ASSUME NEW e \in Events PROVE Covered(e)
  <2>1. Open(e) = {}
    BY DEF Init, Open, Chargeable, IdleWorker
  <2>2. IsFiniteSet(Open(e)) /\ Cardinality(Open(e)) = 0
    BY <2>1, FS_EmptySet
  <2> QED BY <2>2, ConstantsOK DEF Init, Covered, BlankRow
<1>2. ASSUME NEW e \in Events PROVE BeyondLimit(e)
  BY DEF Init, BeyondLimit, HoldsExec, Settles, BlankRow, IdleWorker
<1> QED BY <1>1, <1>2 DEF Bounds

\* Observing busy work and advancing a search give attempts back, leases lapse under
\* calls that still work, and yet a handler that keeps raising runs a bounded number of
\* times; what the exhaustion path ended never shows as completed.
THEOREM FailuresBounded == Spec => []BoundedFailures
<1>1. Spec => []Bounds
  BY InitBounds, BoundsStep, ClosedRowsEnded, Invariance, PTL DEF Spec
<1>2. ASSUME IInv, Bounds PROVE BoundedFailures
  <2>1. ASSUME NEW e \in Events PROVE failures[e] <= MaxAttempts
    <3>1. Cardinality(Open(e)) \in Nat
      BY <1>2, FS_CardinalityType DEF Bounds, Covered
    <3> QED BY <1>2, <3>1, ConstantsOK DEF Bounds, Covered, IInv, RestInv
  <2>2. \A e \in exhausted \ SearchEvents : e \in Events
    BY <1>2 DEF IInv, RestInv
  <2> QED BY <1>2, <2>1, <2>2 DEF BoundedFailures, Bounds, BeyondLimit
<1> QED BY <1>1, <1>2, Invariance, PTL
=============================================================================
