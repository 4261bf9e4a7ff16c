----------------------------- MODULE AnalysisRuns -----------------------------
(* Analysis runs and the units they cost: admission and cancellation
   (analysis/service.py), the worker (analysis/tasks.py), the usage ledger
   (usage/service.py) and the synchronous wrapper (services/guardrails.py).

   Runs reach a worker through the outbox, which appears here as what module
   Intent promises of it.  A call is the whole of process_event for a run, or a
   request that runs a synchronous operation; transactions that lock the run's
   row, or update it in one statement, are one step. *)
EXTENDS Integers, Sums

CONSTANTS
    Runs,           \* runs that are queued for a worker
    SyncRuns,       \* runs of synchronous operations
    Calls,          \* concurrent calls
    Nobody,         \* no call holds the event of a run
    NoRun,          \* a call that is idle
    Price,          \* units of a run
    Wallet,         \* units the owner starts with
    MaxTries,       \* tries a retryable failure may use (3)
    MaxDeliveries,  \* executions before the outbox settles a run (6)
    MaxFaults       \* how often the environment misbehaves

ASSUME ConstantsOK ==
    /\ Runs \cap SyncRuns = {} /\ NoRun \notin Runs \cup SyncRuns
    /\ IsFiniteSet(Runs) /\ IsFiniteSet(SyncRuns)
    /\ Nobody \notin Calls /\ IsFiniteSet(Calls)
    /\ Price \in [Runs \cup SyncRuns -> Nat \ {0}] /\ Wallet \in Nat
    /\ MaxTries \in Nat \ {0} /\ MaxDeliveries \in Nat /\ MaxFaults \in Nat

VARIABLES
    run,       \* analysis_runs
    units,     \* users.ai_credits
    journal,   \* usage_events, by run and kind: their idempotency key
    owner,     \* whether the account exists
    intent,    \* state of a run's event, see Intent
    holder,    \* the call that holds the event
    execs,     \* executions counted on the event
    call,      \* local state of every call
    faults,    \* faults so far
    requeues   \* history: how often a failed try queued a run again

ledger == <<units, journal>>
outbox == <<intent, holder, execs>>
vars == <<run, ledger, owner, outbox, call, faults, requeues>>

AllRuns == Runs \cup SyncRuns
Terminal == {"succeeded", "failed", "cancelled"}
Active == {"queued", "running"}

NoRow == [status |-> "absent", usage |-> "none", cancel |-> FALSE, stale |-> FALSE, tries |-> 0]
Idle == [phase |-> "idle", run |-> NoRun, result |-> "none"]

Init ==
    /\ run = [r \in AllRuns |-> NoRow]
    /\ units = Wallet /\ journal = {}
    /\ owner = TRUE
    /\ intent = [r \in Runs |-> "none"]
    /\ holder = [r \in Runs |-> Nobody]
    /\ execs = [r \in Runs |-> 0]
    /\ call = [c \in Calls |-> Idle]
    /\ faults = 0
    /\ requeues = [r \in Runs |-> 0]

Fault == faults < MaxFaults /\ faults' = faults + 1

-----------------------------------------------------------------------------
(* The usage ledger. *)

Affords(r) == Price[r] <= units

\* reserve_run_usage: Premium access waives the units.
Reserve(r, status, tries) ==
    \/ /\ run' = [run EXCEPT ![r] = [NoRow EXCEPT !.status = status, !.usage = "waived",
                                                  !.tries = tries]]
       /\ journal' = journal \cup {<<r, "waive">>}
       /\ UNCHANGED units
    \/ /\ Affords(r)
       /\ run' = [run EXCEPT ![r] = [NoRow EXCEPT !.status = status, !.usage = "reserved",
                                                  !.tries = tries]]
       /\ journal' = journal \cup {<<r, "reserve">>}
       /\ units' = units - Price[r]

ReleasableWaived(row) == row.usage \in {"reserved", "waived"} \* slip
Releasable(row) == row.usage = "reserved"

\* release_run_usage: an event that exists already is not booked twice.
GiveBackUnits(r) ==
    IF Releasable(run[r])
    THEN /\ units' = IF <<r, "release">> \in journal THEN units ELSE units + Price[r]
         /\ journal' = journal \cup {<<r, "release">>}
    ELSE UNCHANGED ledger

\* The run as the transaction leaves it that ends it and releases its units.
ReleasedAs(row, status) ==
    [row EXCEPT !.status = status, !.usage = IF Releasable(row) THEN "released" ELSE @]

EndReleased(r, status) ==
    run' = [run EXCEPT ![r] = ReleasedAs(@, status)] /\ GiveBackUnits(r)

\* commit_run_usage, in the transaction that ends the run.
EndCommitted(r) ==
    IF run[r].usage = "reserved"
    THEN /\ run' = [run EXCEPT ![r].status = "succeeded", ![r].usage = "committed"]
         /\ journal' = journal \cup {<<r, "commit">>}
         /\ UNCHANGED units
    ELSE run' = [run EXCEPT ![r].status = "succeeded"] /\ UNCHANGED ledger

-----------------------------------------------------------------------------
(* The owner. *)

\* create_run: run, reservation and event in one commit.  A repeated request
\* finds the run and changes nothing.
Create(r) ==
    /\ owner /\ run[r].status = "absent"
    /\ Reserve(r, "queued", 0)
    /\ intent' = [intent EXCEPT ![r] = "open"]
    /\ UNCHANGED <<owner, holder, execs, call, faults, requeues>>

\* cancel_run: at once while queued, else a request to the worker.
Cancel(r) ==
    /\ owner /\ run[r].status \in Active
    /\ IF run[r].status = "queued"
       THEN /\ run' = [run EXCEPT ![r] = [ReleasedAs(@, "cancelled") EXCEPT !.cancel = TRUE]]
            /\ GiveBackUnits(r)
       ELSE run' = [run EXCEPT ![r].cancel = TRUE] /\ UNCHANGED ledger
    /\ UNCHANGED <<owner, outbox, call, faults, requeues>>

\* Account erasure deletes the runs, their usage events and their outbox rows.
Erase ==
    /\ owner /\ owner' = FALSE
    /\ run' = [r \in AllRuns |-> IF run[r].status = "absent" THEN run[r]
                                 ELSE [NoRow EXCEPT !.status = "erased"]]
    /\ intent' = [r \in Runs |-> IF intent[r] = "none" THEN "none" ELSE "closed"]
    /\ holder' = [r \in Runs |-> Nobody]
    /\ journal' = {}
    /\ UNCHANGED <<units, execs, call, faults, requeues>>

-----------------------------------------------------------------------------
(* The worker: process_event around process_analysis_run. *)

Step(c, phase) == call' = [call EXCEPT ![c].phase = phase]
Answer(c, result) == call' = [call EXCEPT ![c].phase = "return", ![c].result = result]

Deliver(c, r) ==
    /\ call[c].phase = "idle" /\ intent[r] = "open"
    /\ intent' = [intent EXCEPT ![r] = "held"]
    /\ holder' = [holder EXCEPT ![r] = c]
    /\ execs' = [execs EXCEPT ![r] = @ + 1]
    /\ call' = [call EXCEPT ![c] =
         [phase |-> IF execs[r] + 1 > MaxDeliveries THEN "settle" ELSE "claim",
          run |-> r, result |-> "none"]]
    /\ UNCHANGED <<run, ledger, owner, faults, requeues>>

\* A run whose last delivery was too many fails, unless it ended before.
SettleExhausted(c) ==
    LET r == call[c].run
    IN  /\ call[c].phase = "settle"
        /\ IF run[r].status \in Active THEN EndReleased(r, "failed") ELSE UNCHANGED <<run, ledger>>
        /\ Answer(c, "exhausted")
        /\ UNCHANGED <<owner, outbox, faults, requeues>>

ClaimableQueued(row) == row.status = "queued" \* slip: stale runs are not taken over
Claimable(row) == row.status = "queued" \/ (row.status = "running" /\ row.stale)

ClaimRun(c) ==
    LET r == call[c].run
    IN  /\ call[c].phase = "claim"
        /\ IF Claimable(run[r])
           THEN /\ run' = [run EXCEPT ![r].status = "running", ![r].stale = FALSE,
                                      ![r].tries = @ + 1]
                /\ Step(c, "read")
           ELSE Step(c, "missed") /\ UNCHANGED run
        /\ UNCHANGED <<ledger, owner, outbox, faults, requeues>>

BusyRunning(status) == status = "running" \* slip: a queued run counts as done
Busy(status) == status \in Active

\* The claim matched nothing; the status is read in a later statement.
AnswerStatus(c) ==
    /\ call[c].phase = "missed"
    /\ Answer(c, IF Busy(run[call[c].run].status) THEN "busy" ELSE "done")
    /\ UNCHANGED <<run, ledger, owner, outbox, faults, requeues>>

\* The claimed run is read back; a cancelled one is not executed.
ReadRun(c) ==
    LET row == run[call[c].run]
    IN  /\ call[c].phase = "read"
        /\ IF row.status = "erased" THEN Answer(c, "done")
           ELSE Step(c, IF row.cancel THEN "cancel" ELSE "execute")
        /\ UNCHANGED <<run, ledger, owner, outbox, faults, requeues>>

\* No look at the status the run has by now.
CancelClaimed(c) ==
    LET r == call[c].run
    IN  /\ call[c].phase = "cancel"
        /\ IF run[r].status = "erased" THEN UNCHANGED <<run, ledger>>
           ELSE EndReleased(r, "cancelled")
        /\ Answer(c, "done")
        /\ UNCHANGED <<owner, outbox, faults, requeues>>

Execute(c) ==
    /\ call[c].phase = "execute"
    /\ \E next \in {"commit", "retryable", "fatal"} : Step(c, next)
    /\ UNCHANGED <<run, ledger, owner, outbox, faults, requeues>>

EndedNever(r) == run[r].status = "erased" \* slip: whoever comes last wins
Ended(r) == run[r].status \in Terminal \cup {"erased"}

AcceptsAlways(r) == TRUE \* slip: the request to cancel is not looked at again
Accepts(r) == ~run[r].cancel

CommitResult(c) ==
    LET r == call[c].run
    IN  /\ call[c].phase = "commit"
        /\ CASE Ended(r) -> UNCHANGED <<run, ledger>>
             [] ~Ended(r) /\ Accepts(r) -> EndCommitted(r)
             [] ~Ended(r) /\ ~Accepts(r) -> EndReleased(r, "cancelled")
        /\ Answer(c, "done")
        /\ UNCHANGED <<owner, outbox, faults, requeues>>

TriesLeft(r) == run[r].tries < MaxTries

\* A retryable failure queues the run again and raises; others end it.
RecordError(c) ==
    LET r == call[c].run
        again == call[c].phase = "retryable" /\ ~Ended(r) /\ Accepts(r) /\ TriesLeft(r)
    IN  /\ call[c].phase \in {"retryable", "fatal"}
        /\ CASE Ended(r) -> UNCHANGED <<run, ledger>>
             [] again -> run' = [run EXCEPT ![r].status = "queued"] /\ UNCHANGED ledger
             [] ~Ended(r) /\ ~again -> EndReleased(r, IF run[r].cancel THEN "cancelled" ELSE "failed")
        /\ requeues' = IF again THEN [requeues EXCEPT ![r] = @ + 1] ELSE requeues
        /\ Answer(c, IF again THEN "raise" ELSE "done")
        /\ UNCHANGED <<owner, outbox, faults>>

Holds(c, r) == intent[r] = "held" /\ holder[r] = c

\* The last write of process_event, if the call still holds the event.
Return(c) ==
    LET r == call[c].run  result == call[c].result
    IN  /\ call[c].phase = "return"
        /\ IF Holds(c, r)
           THEN /\ intent' = [intent EXCEPT ![r] =
                                 IF result \in {"done", "exhausted"} THEN "closed" ELSE "open"]
                /\ holder' = [holder EXCEPT ![r] = Nobody]
                /\ execs' = IF result = "busy" THEN [execs EXCEPT ![r] = @ - 1] ELSE execs
           ELSE UNCHANGED outbox
        /\ call' = [call EXCEPT ![c] = Idle]
        /\ UNCHANGED <<run, ledger, owner, faults, requeues>>

-----------------------------------------------------------------------------
(* Synchronous operations: billable_operation. *)

StartSync(c, r) ==
    /\ call[c].phase = "idle" /\ owner /\ run[r].status = "absent"
    /\ Reserve(r, "running", 1)
    /\ call' = [call EXCEPT ![c] = [phase |-> "sync", run |-> r, result |-> "none"]]
    /\ UNCHANGED <<owner, outbox, faults, requeues>>

\* The body returned.
FinishSync(c) ==
    LET r == call[c].run
    IN  /\ call[c].phase = "sync"
        /\ CASE run[r].status = "erased" -> UNCHANGED <<run, ledger>>
             [] run[r].status # "erased" /\ Accepts(r) -> EndCommitted(r)
             [] run[r].status # "erased" /\ ~Accepts(r) -> EndReleased(r, "cancelled")
        /\ call' = [call EXCEPT ![c] = Idle]
        /\ UNCHANGED <<owner, outbox, faults, requeues>>

\* The body raised.
FailSync(c) ==
    LET r == call[c].run
    IN  /\ call[c].phase = "sync"
        /\ IF run[r].status = "erased" THEN UNCHANGED <<run, ledger>> ELSE EndReleased(r, "failed")
        /\ call' = [call EXCEPT ![c] = Idle]
        /\ UNCHANGED <<owner, outbox, faults, requeues>>

-----------------------------------------------------------------------------
(* Crashes and time. *)

Crash(c) ==
    /\ call[c].phase # "idle" /\ Fault
    /\ call' = [call EXCEPT ![c] = Idle]
    /\ UNCHANGED <<run, ledger, owner, outbox, requeues>>

\* The outbox gives the event to somebody else; a fault if the holder is at work.
Lapse(r) ==
    /\ intent[r] = "held"
    /\ intent' = [intent EXCEPT ![r] = "open"]
    /\ holder' = [holder EXCEPT ![r] = Nobody]
    /\ IF call[holder[r]].run = r THEN Fault ELSE UNCHANGED faults
    /\ UNCHANGED <<run, ledger, owner, execs, call, requeues>>

\* A run started twenty minutes ago; a fault if somebody still works on it.
BecomesStale(r) ==
    /\ run[r].status = "running" /\ ~run[r].stale
    /\ run' = [run EXCEPT ![r].stale = TRUE]
    /\ IF \E c \in Calls : call[c].run = r /\ call[c].phase \notin {"claim", "missed", "settle", "return"}
       THEN Fault ELSE UNCHANGED faults
    /\ UNCHANGED <<ledger, owner, outbox, call, requeues>>

CallStep(c) ==
    \/ SettleExhausted(c) \/ ClaimRun(c) \/ AnswerStatus(c) \/ ReadRun(c) \/ CancelClaimed(c)
    \/ Execute(c) \/ CommitResult(c) \/ RecordError(c) \/ Return(c) \/ FinishSync(c) \/ FailSync(c)

Next ==
    \/ \E r \in Runs : Create(r) \/ Lapse(r) \/ BecomesStale(r)
    \/ \E r \in AllRuns : Cancel(r)
    \/ Erase
    \/ \E c \in Calls : CallStep(c) \/ Crash(c)
    \/ \E c \in Calls : \E r \in Runs : Deliver(c, r)
    \/ \E c \in Calls : \E r \in SyncRuns : StartSync(c, r)

\* Started calls go on, leases run out and runs grow old; the outbox keeps
\* delivering what is open (Dispatch, EventuallyRetired) when a call is free.
Fairness ==
    /\ \A c \in Calls : WF_vars(CallStep(c))
    /\ \A r \in Runs : /\ WF_vars(Lapse(r)) /\ WF_vars(BecomesStale(r))
                       /\ SF_vars(\E c \in Calls : Deliver(c, r))

Spec == Init /\ [][Next]_vars
FairSpec == Spec /\ Fairness

-----------------------------------------------------------------------------
(* Properties. *)

WorkOf(row) == IF row.status = "absent" THEN "none"
               ELSE IF row.status \in Active THEN "open" ELSE "closed"

I == INSTANCE Intent WITH Events <- Runs, Holders <- Calls,
                          work <- [r \in Runs |-> WorkOf(run[r])]

RunRow == [status: {"absent", "queued", "running", "erased"} \cup Terminal,
           usage: {"none", "waived", "reserved", "committed", "released"},
           cancel: BOOLEAN, stale: BOOLEAN, tries: Nat]
Phase == {"idle", "claim", "settle", "missed", "read", "cancel", "execute", "commit", "retryable",
          "fatal", "return", "sync"}
Result == {"none", "done", "busy", "raise", "exhausted"}
CallState == [phase: Phase, run: AllRuns \cup {NoRun}, result: Result]

\* The type of every variable; an owner's units never go below zero, and a run is
\* queued again fewer than MaxTries times ("at most three attempts", ADR 003),
\* also when stale calls fail late and count tries that others made.
TypeOK ==
    /\ run \in [AllRuns -> RunRow]
    /\ units \in Nat
    /\ journal \subseteq AllRuns \X {"waive", "reserve", "commit", "release"}
    /\ owner \in BOOLEAN
    /\ intent \in [Runs -> {"none", "open", "held", "closed"}]
    /\ holder \in [Runs -> Calls \cup {Nobody}]
    /\ execs \in [Runs -> Nat]
    /\ call \in [Calls -> CallState]
    /\ faults \in Nat /\ requeues \in [Runs -> 0 .. MaxTries - 1]

\* What a run holds or has cost.
Charged(r) == IF run[r].usage \in {"reserved", "committed"} THEN Price[r] ELSE 0

\* The units of all events of a kind.
Booked(kind) == Sum([r \in AllRuns |-> IF <<r, kind>> \in journal THEN Price[r] ELSE 0])

\* "A balance alone cannot explain a charge" (ADR 004): what an owner lacks is
\* exactly what unfinished runs hold and succeeded runs cost, and the events of
\* the ledger say the same; and it is never overdrawn.
BalanceExplained ==
    owner => /\ units >= 0
             /\ Wallet - units = Sum([r \in AllRuns |-> Charged(r)])
             /\ Wallet - units = Booked("reserve") - Booked("release")

\* "Operations reserve before provider work and commit only on success;
\* failures release" (ADR 004), whoever ends a run and however often.
OutcomeMatchesUsage ==
    \A r \in AllRuns :
        /\ run[r].status \in Active => run[r].usage \in {"reserved", "waived"}
        /\ run[r].status = "succeeded" => run[r].usage \in {"committed", "waived"}
        /\ run[r].status \in {"failed", "cancelled"} => run[r].usage \in {"released", "waived"}

\* A request to cancel that was accepted wins over every result still on its way.
CancelWins == \A r \in AllRuns : run[r].cancel => run[r].status # "succeeded"

\* The worker keeps the contract of the outbox: no delivery of a run is retired
\* while the run still waits or runs.
ImplementsIntent == I!Spec

\* The units of a queued run are eventually charged or given back.
EveryRunEnds ==
    \A r \in Runs : run[r].status = "queued" ~> run[r].status \in Terminal \cup {"erased"}
=============================================================================
