------------------------------ MODULE Dispatch ------------------------------
(* The transactional dispatch outbox, backend/app/domains/dispatch/service.py:
   rows written with the domain change, publishers that sweep due rows into
   Cloud Tasks, and workers that claim a row, run its handler and record what
   happened.

   Time appears as three flags of a row rather than as a clock: "leased" (its
   lease_until is still ahead), "due" (its available_at has passed) and "aged"
   (dispatched, and not touched for an hour).  The flags change at any moment,
   so every clock the code could read is covered, the stale "now" of a long
   publisher batch included.  A lease token is the identity of the call that
   took it: a call slot is reused only after its former call has ended. *)
EXTENDS Naturals, FiniteSets

CONSTANTS
    Events,        \* outbox rows
    SearchEvents,  \* the rows of topic employer.search
    Publishers,    \* concurrent dispatch_pending calls
    Workers,       \* concurrent process_event calls
    NoToken,       \* lease_token IS NULL
    NoEvent,       \* a call that handles no row
    MaxAttempts,   \* executions before a row is settled as exhausted (6)
    MaxTurns,      \* advancing turns a search may report before it ends
    MaxFaults      \* how often the environment misbehaves

ASSUME ConstantsOK ==
    /\ SearchEvents \subseteq Events
    /\ Publishers \cap Workers = {}
    /\ NoToken \notin Publishers \cup Workers
    /\ NoEvent \notin Events
    /\ MaxAttempts \in Nat /\ MaxTurns \in Nat /\ MaxFaults \in Nat

VARIABLES
    outbox,     \* dispatch_outbox
    work,       \* whether an event's domain row still needs deliveries
    turns,      \* advancing turns a search has reported
    live,       \* physical Cloud Tasks <<event, name>> not yet acknowledged
    used,       \* task names ever created (Cloud Tasks keeps tombstones)
    publisher,  \* local state of every dispatch_pending call
    worker,     \* local state of every process_event call
    faults,     \* faults so far
    failures,   \* history: handler executions that raised, per event
    claimed,    \* history: events some worker has claimed
    overdue,    \* history: events whose dispatched row aged
    exhausted   \* history: events whose work the exhaustion path ended

domain == <<work, turns>>
cloud == <<live, used>>
history == <<failures, claimed, overdue, exhausted>>
vars == <<outbox, domain, cloud, publisher, worker, faults, history>>

Markers == {"none", "advanced", "publish_deferred", "in_progress", "retry_deferred"}
Terminal == {"completed", "failed"}
RowStatus == {"absent", "pending", "publishing", "dispatched", "running", "retry",
              "erased"} \cup Terminal
Row == [status: RowStatus, token: Publishers \cup Workers \cup {NoToken},
        leased: BOOLEAN, due: BOOLEAN, aged: BOOLEAN,
        execs: Nat, gens: Nat, name: Nat, marker: Markers]
BlankRow == [status |-> "absent", token |-> NoToken, leased |-> FALSE, due |-> FALSE,
             aged |-> FALSE, execs |-> 0, gens |-> 0, name |-> 0, marker |-> "none"]

IdlePublisher == [phase |-> "idle", batch |-> {}, event |-> NoEvent, name |-> 0]
IdleWorker == [phase |-> "idle", event |-> NoEvent, task |-> 0, result |-> "none", name |-> 0]

Init ==
    /\ outbox = [e \in Events |-> BlankRow]
    /\ work = [e \in Events |-> "none"]
    /\ turns = [e \in Events |-> 0]
    /\ live = {} /\ used = {}
    /\ publisher = [p \in Publishers |-> IdlePublisher]
    /\ worker = [w \in Workers |-> IdleWorker]
    /\ faults = 0
    /\ failures = [e \in Events |-> 0]
    /\ claimed = {} /\ overdue = {} /\ exhausted = {}

Fault == faults < MaxFaults /\ faults' = faults + 1

\* The closing writes of a row all drop its lease.
Completed(row) == [row EXCEPT !.status = "completed", !.token = NoToken, !.leased = FALSE,
                              !.marker = "none"]
Failed(row) == [row EXCEPT !.status = "failed", !.token = NoToken, !.leased = FALSE,
                           !.marker = "none"]
Retry(row) == [row EXCEPT !.status = "retry", !.token = NoToken, !.leased = FALSE, !.due = FALSE]

-----------------------------------------------------------------------------
(* Writing intent, and the domain transactions that end it from outside. *)

\* Append intent in the transaction that creates the domain row; a repeated
\* key returns the existing row.
Enqueue(e) ==
    /\ outbox[e].status = "absent"
    /\ outbox' = [outbox EXCEPT ![e].status = "pending", ![e].due = TRUE]
    /\ work' = [work EXCEPT ![e] = "open"]
    /\ UNCHANGED <<turns, cloud, publisher, worker, faults, history>>

\* The owner cancels.  A search completes its own row in the same commit; an
\* analysis run leaves the row to the next delivery.
CancelWork(e) ==
    /\ work[e] = "open"
    /\ work' = [work EXCEPT ![e] = "closed"]
    /\ outbox' = IF e \in SearchEvents /\ outbox[e].status \notin Terminal
                 THEN [outbox EXCEPT ![e] = Completed(@)]
                 ELSE outbox
    /\ UNCHANGED <<turns, cloud, publisher, worker, faults, history>>

\* Account erasure deletes the rows of analysis runs.
EraseWork(e) ==
    /\ e \notin SearchEvents /\ work[e] # "none"
    /\ outbox[e].status # "erased"
    /\ work' = [work EXCEPT ![e] = "closed"]
    /\ outbox' = [outbox EXCEPT ![e] = [BlankRow EXCEPT !.status = "erased"]]
    /\ UNCHANGED <<turns, cloud, publisher, worker, faults, history>>

-----------------------------------------------------------------------------
(* Publishers: dispatch_pending. *)

\* Slip for the mutation tests: no sweep of rows whose task vanished.
RecoverableNoAge(row) ==
    \/ row.status \in {"publishing", "running"} /\ ~row.leased
    \/ row.status = "retry" /\ row.due

Recoverable(row) ==
    \/ row.status = "publishing" /\ ~row.leased
    \/ row.status = "retry" /\ row.due
    \/ row.status = "running" /\ ~row.leased
    \/ row.status = "dispatched" /\ row.aged

Selectable(row) == row.due /\ (row.status = "pending" \/ Recoverable(row))

\* The claim repeats the status conditions of the selection, but for a pending
\* row not its available_at.
PublishClaimable(row) == row.status = "pending" \/ Recoverable(row)

\* Slip: a publisher taking over an expired claim makes up a new name.
ReusesNamePendingOnly(e) == outbox[e].name # 0 /\ outbox[e].status = "pending"

\* A publisher crash or an uncertain publication reuses the stored name; every
\* other recovery is a new physical generation.
ReusesName(e) ==
    /\ outbox[e].name # 0
    /\ \/ outbox[e].status \in {"pending", "publishing"}
       \/ /\ outbox[e].status = "retry" /\ e \in SearchEvents
          /\ outbox[e].marker \in {"advanced", "publish_deferred"}

PublishName(e) == IF ReusesName(e) THEN outbox[e].name ELSE outbox[e].gens + 1

PublishClaim(e, p) ==
    [outbox[e] EXCEPT !.status = "publishing", !.token = p, !.leased = TRUE,
                      !.gens = outbox[e].gens + 1, !.name = PublishName(e)]

SelectBatch(p) ==
    LET due == {e \in Events : Selectable(outbox[e])}
    IN  /\ publisher[p].phase = "idle" /\ due # {}
        /\ publisher' = [publisher EXCEPT ![p].phase = "claim", ![p].batch = due]
        /\ UNCHANGED <<outbox, domain, cloud, worker, faults, history>>

NextInBatch(p) == [publisher[p] EXCEPT
    !.phase = IF publisher[p].batch = {} THEN "idle" ELSE "claim",
    !.event = NoEvent, !.name = 0]

\* Claim one row of the batch, or find that it no longer needs publishing.
ClaimForPublish(p, e) ==
    /\ publisher[p].phase = "claim" /\ e \in publisher[p].batch
    /\ IF PublishClaimable(outbox[e])
       THEN /\ outbox' = [outbox EXCEPT ![e] = PublishClaim(e, p)]
            /\ publisher' = [publisher EXCEPT ![p] =
                 [phase |-> "read", batch |-> @.batch \ {e}, event |-> e, name |-> 0]]
       ELSE /\ publisher' = [publisher EXCEPT
                 ![p].batch = @ \ {e},
                 ![p].phase = IF publisher[p].batch = {e} THEN "idle" ELSE "claim"]
            /\ UNCHANGED outbox
    /\ UNCHANGED <<domain, cloud, worker, faults, history>>

\* The row is read back after the claim has committed.
ReadSnapshot(p) ==
    LET e == publisher[p].event
    IN  /\ publisher[p].phase = "read"
        /\ publisher' = [publisher EXCEPT ![p] =
             IF outbox[e].status = "erased" THEN NextInBatch(p)
             ELSE [@ EXCEPT !.phase = "create", !.name = outbox[e].name]]
        /\ UNCHANGED <<outbox, domain, cloud, worker, faults, history>>

\* Creating a named task: created, refused as AlreadyExists (which the code
\* takes for success), or an error before or after the task came to exist.
Created(e, n) ==
    /\ live' = live \cup {<<e, n>>}
    /\ used' = used \cup {<<e, n>>}
AlreadyExists(e, n) == <<e, n>> \in used /\ UNCHANGED cloud
CreateSucceeds(e, n) == Created(e, n) \/ AlreadyExists(e, n)
CreateErrs(e, n) == Created(e, n) \/ UNCHANGED cloud

CreateTask(p) ==
    LET e == publisher[p].event  n == publisher[p].name
    IN  /\ publisher[p].phase = "create"
        /\ \/ /\ CreateSucceeds(e, n) /\ UNCHANGED faults
              /\ publisher' = [publisher EXCEPT ![p].phase = "sent"]
           \/ /\ Fault /\ CreateErrs(e, n)
              /\ publisher' = [publisher EXCEPT ![p].phase = "unsent"]
        /\ UNCHANGED <<outbox, domain, worker, history>>

Relabel(marker, to) == IF marker = "none" THEN "none" ELSE to

Published(row) == [row EXCEPT !.status = "dispatched", !.token = NoToken, !.leased = FALSE,
                              !.aged = FALSE]
Unpublished(row) == [row EXCEPT !.status = "pending", !.token = NoToken, !.leased = FALSE,
                                !.due = FALSE,
                                !.marker = Relabel(row.marker, "publish_deferred")]

\* Slip: the outcome is recorded by row id alone.
HoldsPublishById(p, e) == outbox[e].status # "erased"

HoldsPublish(p, e) == outbox[e].token = p /\ outbox[e].status = "publishing"

\* Record the outcome, unless a worker or another publisher has the row by now.
FinishPublish(p) ==
    LET e == publisher[p].event
    IN  /\ publisher[p].phase \in {"sent", "unsent"}
        /\ outbox' = IF ~HoldsPublish(p, e) THEN outbox
                     ELSE [outbox EXCEPT ![e] = IF publisher[p].phase = "sent"
                                                THEN Published(@) ELSE Unpublished(@)]
        /\ publisher' = [publisher EXCEPT ![p] = NextInBatch(p)]
        /\ UNCHANGED <<domain, cloud, worker, faults, history>>

CrashPublisher(p) ==
    /\ publisher[p].phase # "idle" /\ Fault
    /\ publisher' = [publisher EXCEPT ![p] = IdlePublisher]
    /\ UNCHANGED <<outbox, domain, cloud, worker, history>>

-----------------------------------------------------------------------------
(* Workers: process_event. *)

\* A search continuation may not be claimed before it is due.
Fenced(e) == e \in SearchEvents /\ outbox[e].marker # "none" /\ ~outbox[e].due

ExecClaimable(e) ==
    /\ ~Fenced(e)
    /\ \/ outbox[e].status \in {"pending", "publishing", "dispatched", "retry"}
       \/ outbox[e].status = "running" /\ ~outbox[e].leased

ExecClaim(row, w) == [row EXCEPT !.status = "running", !.token = w, !.leased = TRUE,
                                 !.execs = row.execs + 1]

\* Cloud Tasks delivers a live task and the call claims the row; beyond the
\* attempt limit it settles the work instead of running its handler.
ClaimWork(w, e, n) ==
    /\ worker[w].phase = "idle" /\ <<e, n>> \in live /\ ExecClaimable(e)
    /\ outbox' = [outbox EXCEPT ![e] = ExecClaim(@, w)]
    /\ worker' = [worker EXCEPT ![w] =
         [phase |-> IF outbox[e].execs + 1 > MaxAttempts THEN "settle" ELSE "execute",
          event |-> e, task |-> n, result |-> "none", name |-> 0]]
    /\ claimed' = claimed \cup {e}
    /\ UNCHANGED <<domain, cloud, publisher, faults, failures, overdue, exhausted>>

\* The claim matches no row; the status is read afterwards.
MissClaim(w, e, n) ==
    /\ worker[w].phase = "idle" /\ <<e, n>> \in live /\ ~ExecClaimable(e)
    /\ worker' = [worker EXCEPT ![w] =
         [phase |-> "missed", event |-> e, task |-> n, result |-> "none", name |-> 0]]
    /\ UNCHANGED <<outbox, domain, cloud, publisher, faults, history>>

Acknowledge(w) == live' = live \ {<<worker[w].event, worker[w].task>>}
Return(w) == worker' = [worker EXCEPT ![w] = IdleWorker]

\* A running or deleted row answers with an error, which keeps the task; any
\* other status read here is a success answer, which deletes it.
AnswerMissed(w) ==
    /\ worker[w].phase = "missed"
    /\ IF outbox[worker[w].event].status \in {"running", "erased"}
       THEN UNCHANGED live ELSE Acknowledge(w)
    /\ Return(w)
    /\ UNCHANGED <<outbox, domain, used, publisher, faults, history>>

Outcome(w, result) ==
    worker' = [worker EXCEPT ![w].result = result,
                             ![w].phase = IF result = "continue" THEN "continue" ELSE "finish"]

\* What a handler may do in its own transactions before it returns: end the
\* work or find it ended; see other work in progress; raise, with the work
\* ended or not; or report one advancing turn of a search.
Execute(w) ==
    LET e == worker[w].event
    IN  /\ worker[w].phase = "execute"
        /\ \/ /\ work' = [work EXCEPT ![e] = "closed"]
              /\ Outcome(w, "done")
              /\ UNCHANGED <<turns, faults, failures>>
           \/ /\ work[e] = "open" /\ Fault
              /\ Outcome(w, "busy")
              /\ UNCHANGED <<work, turns, failures>>
           \/ /\ work' \in {work, [work EXCEPT ![e] = "closed"]}
              /\ Outcome(w, "raise")
              /\ failures' = [failures EXCEPT ![e] = @ + 1]
              /\ UNCHANGED <<turns, faults>>
           \/ /\ e \in SearchEvents /\ work[e] = "open" /\ turns[e] < MaxTurns
              /\ turns' = [turns EXCEPT ![e] = @ + 1]
              /\ Outcome(w, "continue")
              /\ UNCHANGED <<work, faults, failures>>
        /\ UNCHANGED <<outbox, cloud, publisher, claimed, overdue, exhausted>>

\* Settle exhausted work in a transaction of its own.  Ending a search also
\* completes its row, through the same cancel its owner uses.
SettleExhausted(w) ==
    LET e == worker[w].event
    IN  /\ worker[w].phase = "settle"
        /\ \/ /\ work' = [work EXCEPT ![e] = "closed"]
              /\ outbox' = IF e \in SearchEvents /\ work[e] = "open"
                              /\ outbox[e].status \notin Terminal
                           THEN [outbox EXCEPT ![e] = Completed(@)]
                           ELSE outbox
              /\ exhausted' = IF work[e] = "open" THEN exhausted \cup {e} ELSE exhausted
              /\ Outcome(w, "exhausted")
              /\ UNCHANGED faults
           \/ /\ Fault /\ Outcome(w, "raise")
              /\ UNCHANGED <<outbox, work, exhausted>>
        /\ UNCHANGED <<turns, cloud, publisher, failures, claimed, overdue>>

Deferred(row) == [Retry(row) EXCEPT !.marker = Relabel(row.marker, "retry_deferred")]

\* Observing work in progress gives the execution attempt back.
Refunded(row) == [Retry(row) EXCEPT !.execs = row.execs - 1,
                                    !.marker = Relabel(row.marker, "in_progress")]

\* Slip: seeing busy work completes the row.
SettledBusyCompletes(row, result) == CASE result \in {"done", "busy"} -> Completed(row)
                                       [] result = "exhausted" -> Failed(row)
                                       [] result = "raise" -> Deferred(row)
Settled(row, result) == CASE result = "done" -> Completed(row)
                          [] result = "exhausted" -> Failed(row)
                          [] result = "raise" -> Deferred(row)
                          [] result = "busy" -> Refunded(row)

HoldsExecAnyToken(w, e) == outbox[e].status = "running" \* slip: no fencing token
HoldsExec(w, e) == outbox[e].token = w /\ outbox[e].status = "running"

\* The last write of a call, and its answer to Cloud Tasks.
FinishWork(w) ==
    LET e == worker[w].event
    IN  /\ worker[w].phase = "finish"
        /\ outbox' = IF HoldsExec(w, e)
                     THEN [outbox EXCEPT ![e] = Settled(@, worker[w].result)]
                     ELSE outbox
        /\ IF worker[w].result \in {"done", "exhausted"} THEN Acknowledge(w) ELSE UNCHANGED live
        /\ Return(w)
        /\ UNCHANGED <<domain, used, publisher, faults, history>>

-----------------------------------------------------------------------------
(* _continue_search: the next physical generation of the same search row. *)

Continued(row) == [Retry(row) EXCEPT !.execs = row.execs - 1, !.gens = row.gens + 1,
                                     !.name = row.gens + 1, !.marker = "advanced"]

ContinueSearch(w) ==
    LET e == worker[w].event
    IN  /\ worker[w].phase = "continue"
        /\ IF HoldsExec(w, e) /\ work[e] = "open"
           THEN /\ outbox' = [outbox EXCEPT ![e] = Continued(@)]
                /\ worker' = [worker EXCEPT ![w].phase = "fresh", ![w].name = outbox[e].gens + 1]
                /\ UNCHANGED live
           ELSE /\ outbox' = IF HoldsExec(w, e)
                             THEN [outbox EXCEPT ![e] = Completed(@)]
                             ELSE outbox
                /\ Acknowledge(w) /\ Return(w)
        /\ UNCHANGED <<domain, used, publisher, faults, history>>

\* Cancellation seen here suppresses the task.
CheckFresh(w) ==
    LET e == worker[w].event
    IN  /\ worker[w].phase = "fresh"
        /\ IF /\ outbox[e].status = "retry" /\ outbox[e].name = worker[w].name
              /\ outbox[e].marker = "advanced" /\ work[e] = "open"
           THEN worker' = [worker EXCEPT ![w].phase = "publish"] /\ UNCHANGED live
           ELSE Acknowledge(w) /\ Return(w)
        /\ UNCHANGED <<outbox, domain, used, publisher, faults, history>>

PublishContinuation(w) ==
    LET e == worker[w].event  n == worker[w].name
    IN  /\ worker[w].phase = "publish"
        /\ \/ /\ CreateSucceeds(e, n) /\ UNCHANGED faults
              /\ worker' = [worker EXCEPT ![w].phase = "published"]
           \/ /\ Fault /\ CreateErrs(e, n)
              /\ worker' = [worker EXCEPT ![w].phase = "unpublished"]
        /\ UNCHANGED <<outbox, domain, publisher, history>>

Redispatched(row) == [row EXCEPT !.status = "dispatched", !.aged = FALSE, !.marker = "advanced"]
PublishDeferred(row) == [row EXCEPT !.due = FALSE, !.marker = "publish_deferred"]

AwaitsContinuationById(w, e) == outbox[e].status # "erased" \* slip: by row id alone
AwaitsContinuation(w, e) == outbox[e].status = "retry" /\ outbox[e].name = worker[w].name

RecordContinuation(w) ==
    LET e == worker[w].event
    IN  /\ worker[w].phase \in {"published", "unpublished"}
        /\ outbox' = IF ~AwaitsContinuation(w, e) THEN outbox
                     ELSE IF worker[w].phase = "published"
                     THEN [outbox EXCEPT ![e] = Redispatched(@)]
                     ELSE [outbox EXCEPT ![e] = PublishDeferred(@)]
        /\ Acknowledge(w) /\ Return(w)
        /\ UNCHANGED <<domain, used, publisher, faults, history>>

CrashWorker(w) ==
    /\ worker[w].phase # "idle" /\ Fault
    /\ Return(w)
    /\ UNCHANGED <<outbox, domain, cloud, publisher, history>>

-----------------------------------------------------------------------------
(* Time and the queue. *)

PublisherAt(e) == \E p \in Publishers : publisher[p].event = e /\ outbox[e].token = p
WorkerAt(e) == \E w \in Workers : worker[w].event = e /\ outbox[e].token = w
                                  /\ worker[w].phase # "missed"

\* A lease runs out; while its holder still works that is a slow call.
LeaseExpires(e) ==
    /\ outbox[e].leased
    /\ outbox' = [outbox EXCEPT ![e].leased = FALSE]
    /\ IF PublisherAt(e) \/ WorkerAt(e) THEN Fault ELSE UNCHANGED faults
    /\ UNCHANGED <<domain, cloud, publisher, worker, history>>

BecomesDue(e) ==
    /\ outbox[e].status \notin {"absent", "erased"} /\ ~outbox[e].due
    /\ outbox' = [outbox EXCEPT ![e].due = TRUE]
    /\ UNCHANGED <<domain, cloud, publisher, worker, faults, history>>

\* A dispatched row waits an hour; while its task is live that is a slow queue.
Ages(e) ==
    /\ outbox[e].status = "dispatched" /\ ~outbox[e].aged
    /\ outbox' = [outbox EXCEPT ![e].aged = TRUE]
    /\ overdue' = overdue \cup {e}
    /\ IF \E t \in live : t[1] = e THEN Fault ELSE UNCHANGED faults
    /\ UNCHANGED <<domain, cloud, publisher, worker, failures, claimed, exhausted>>

\* The queue gives up on a task after its own retry limit.
DropTask(t) ==
    /\ t \in live /\ Fault
    /\ live' = live \ {t}
    /\ UNCHANGED <<outbox, domain, used, publisher, worker, history>>

-----------------------------------------------------------------------------
PublisherStep(p) ==
    \/ SelectBatch(p) \/ \E e \in Events : ClaimForPublish(p, e)
    \/ ReadSnapshot(p) \/ CreateTask(p) \/ FinishPublish(p)

WorkerStep(w) ==
    \/ AnswerMissed(w) \/ Execute(w) \/ SettleExhausted(w) \/ FinishWork(w)
    \/ ContinueSearch(w) \/ CheckFresh(w) \/ PublishContinuation(w) \/ RecordContinuation(w)

Deliver(w, t) == ClaimWork(w, t[1], t[2]) \/ MissClaim(w, t[1], t[2])

Time(e) == LeaseExpires(e) \/ BecomesDue(e) \/ Ages(e)

Next ==
    \/ \E e \in Events : Enqueue(e) \/ CancelWork(e) \/ EraseWork(e) \/ Time(e)
    \/ \E p \in Publishers : PublisherStep(p) \/ CrashPublisher(p)
    \/ \E w \in Workers : WorkerStep(w) \/ CrashWorker(w) \/ \E t \in live : Deliver(w, t)
    \/ \E t \in live : DropTask(t)

\* Fairness the deployment gives: the scheduler keeps sweeping, started calls
\* go on, and time passes.  Cloud Tasks keeps retrying a task it still has, and
\* backs off the tasks that fail, so a task that can be claimed again and again
\* gets a free worker (strong fairness: the worker slots come and go).
Fairness ==
    /\ \A p \in Publishers : WF_vars(PublisherStep(p))
    /\ \A w \in Workers : WF_vars(WorkerStep(w))
    /\ \A e \in Events : /\ WF_vars(LeaseExpires(e)) /\ WF_vars(BecomesDue(e)) /\ WF_vars(Ages(e))
                         /\ SF_vars(\E w \in Workers, t \in live : t[1] = e /\ ClaimWork(w, e, t[2]))

Spec == Init /\ [][Next]_vars
FairSpec == Spec /\ Fairness

-----------------------------------------------------------------------------
(* The promise of the outbox, module Intent. *)

IntentOf(row) ==
    IF row.status = "absent" THEN "none"
    ELSE IF row.status = "running" THEN "held"
    ELSE IF row.status \in Terminal \cup {"erased"} THEN "closed" ELSE "open"

HolderOf(row) == IF row.status = "running" THEN row.token ELSE NoToken

I == INSTANCE Intent WITH
        Holders <- Workers, Nobody <- NoToken,
        intent <- [e \in Events |-> IntentOf(outbox[e])],
        holder <- [e \in Events |-> HolderOf(outbox[e])]

-----------------------------------------------------------------------------
(* Properties. *)

PublisherState == [phase: {"idle", "claim", "read", "create", "sent", "unsent"},
                   batch: SUBSET Events, event: Events \cup {NoEvent}, name: Nat]
WorkerState == [phase: {"idle", "missed", "execute", "settle", "finish", "continue", "fresh",
                        "publish", "published", "unpublished"},
                event: Events \cup {NoEvent}, task: Nat,
                result: {"none", "done", "busy", "raise", "continue", "exhausted"}, name: Nat]

\* The type of every variable.
TypeOK ==
    /\ outbox \in [Events -> Row]
    /\ work \in [Events -> {"none", "open", "closed"}]
    /\ turns \in [Events -> Nat]
    /\ live \subseteq used /\ used \subseteq Events \X Nat
    /\ publisher \in [Publishers -> PublisherState]
    /\ worker \in [Workers -> WorkerState]
    /\ faults \in Nat
    /\ failures \in [Events -> Nat]
    /\ claimed \subseteq Events /\ overdue \subseteq Events /\ exhausted \subseteq Events

\* A row that is completed or failed never needed another delivery: its domain
\* work has ended.  No interleaving of stale workers, refunds, continuations,
\* cancellations and exhaustion may retire an intent whose work is still open.
TerminalWorkClosed ==
    \A e \in Events : outbox[e].status \in Terminal => work[e] = "closed"

\* A retired row is never re-opened, whatever late publishers, late workers and
\* late continuations still write; only account erasure may delete it.
TerminalIsFinal ==
    [][\A e \in Events : outbox[e].status \in Terminal =>
          outbox'[e].status \in {outbox[e].status, "erased"}]_vars

Claims(row) == [status |-> row.status, token |-> row.token, execs |-> row.execs,
                name |-> row.name, marker |-> row.marker]

LeaseGivenUp(w, e) ==
    \/ /\ worker[w].event = e /\ worker[w].phase \in {"finish", "continue"}
       /\ worker'[w] # worker[w]
    \/ outbox'[e].status \in {"completed", "erased"} /\ work'[e] = "closed"

\* While a worker's lease runs, nobody else changes what the row says about its
\* execution: the holder's own last write does, or a commit that ends the work.
LeaseExclusive ==
    [][\A e \in Events, w \in Workers :
          HoldsExec(w, e) /\ outbox[e].leased /\ Claims(outbox'[e]) # Claims(outbox[e])
          => LeaseGivenUp(w, e)]_vars

\* Publisher crashes and ambiguous create errors reuse the stored name: until a
\* worker claims the row or it sits dispatched for an hour, at most one physical
\* task exists for it.
OnePhysicalTask ==
    \A e \in Events : e \notin claimed \cup overdue =>
        Cardinality({t \in used : t[1] = e}) <= 1

\* A handler that keeps raising is run a bounded number of times, although
\* observing busy work and advancing a search give attempts back; and what the
\* exhaustion path ended is never shown as completed: "the failed dispatch table
\* retains exhausted work for support" (ADR 003).  The cancel that ends an
\* exhausted search completes its row itself; searches are left out of this part.
BoundedFailures ==
    /\ \A e \in Events : failures[e] <= MaxAttempts
    /\ \A e \in exhausted \ SearchEvents : outbox[e].status # "completed"

\* Publishers, workers, leases, retries and continuations together implement the
\* abstract outbox: an event is open, held by one worker, or closed with its work.
ImplementsIntent == I!Spec

\* Committed intent is never stranded: every enqueued row is retired.
EventuallyRetired ==
    \A e \in Events : outbox[e].status = "pending" ~> outbox[e].status \in Terminal \cup {"erased"}
=============================================================================
