---------------------------- MODULE ExecutionHolds ----------------------------
(* Prefunded execution: an operation that is paid in credits is admitted with a
   hold on the money it may cost (credits/admission.py), sends its requests to a
   model provider as attempts of that hold (credits/execution.py), and delivers its
   result or fails (analysis/tasks.py, credits/analysis.py, credits/synchronous.py).
   Operations paid in units (Legacy) account for each request of their own
   (services/generation_budget.py) and share the budget.

   The provider charges for what it received, whatever the process learns of it:
   a request's outcome may be lost, known without its usage, or come when the run
   has been cancelled, given to another worker, failed, or erased.  The owner's and
   the hold's row are locked from the first read of a transaction, so each is one
   step.  A run is offered to workers while it is active, which AnalysisRuns shows
   of the outbox.  Every run is of another owner, and all are of one route.

   Left out: the credits themselves, which settle_reservation charges or returns
   with the delivery (CreditLedger); quotes, canary admission and expiry of routes,
   which may refuse anything (Enter); the rolling windows and the separate
   ceilings of the budget; services and free operations, which take from it too;
   the pause after failed deliveries; when an operation in units runs and ends
   (AnalysisRuns), but for its erasure. *)
EXTENDS Integers, FiniteSets, Sums

CONSTANTS
    Runs,         \* runs that are paid in credits
    Inline,       \* those that are executed within the request
    Legacy,       \* operations that are paid in units
    Calls,        \* concurrent calls
    NoRun,        \* a call that is idle
    Attempts,     \* requests an operation may send
    Quote,        \* most that the route says a request costs
    Native,       \* what the route says the own processing costs
    Reserve,      \* money held for an operation
    LegacyLimit,  \* money an operation of Legacy may cost
    Ceiling,      \* budget for all operations
    Costs,        \* what the provider may charge for a request it received
    NativeCosts,  \* what the own processing may really cost
    MaxFaults     \* how often the environment misbehaves

ASSUME ConstantsOK ==
    /\ Inline \subseteq Runs /\ Runs \cap Legacy = {} /\ NoRun \notin Runs \cup Legacy
    /\ IsFiniteSet(Runs) /\ IsFiniteSet(Legacy)
    /\ Attempts \in [Runs \cup Legacy -> Nat \ {0}] /\ Quote \in Nat \ {0} /\ Native \in Nat
    /\ Reserve \in [Runs -> Nat]
    /\ \A r \in Runs : Reserve[r] >= Native + Attempts[r] * Quote
    /\ LegacyLimit \in Nat /\ Ceiling \in Nat /\ MaxFaults \in Nat
    /\ Costs \subseteq Nat \ {0} /\ NativeCosts \subseteq Nat \ {0}

VARIABLES
    run,      \* analysis_runs
    hold,     \* credit_execution_holds
    legacy,   \* analysis_runs paid in units: the totals of their requests
    attempt,  \* model_cost_liabilities, with credit_execution_attempts
    bill,     \* provider: what it charges for each request
    spent,    \* what the own processing of a run really cost
    call,     \* local state of every call
    faults    \* faults so far

money == <<hold, attempt>>
world == <<bill, spent>>
vars == <<run, money, legacy, world, call, faults>>

Operations == Runs \cup Legacy

Ordinals(r) == 1..Attempts[r]
Active == {"queued", "running"}
Terminal == {"succeeded", "failed", "cancelled"}
Unmeasured == -1

NoRow == [status |-> "absent", cancel |-> FALSE, stale |-> FALSE]
NoHold == [state |-> "none", delivery |-> "pending", native |-> Unmeasured, amount |-> 0]
NoTotals == [erased |-> FALSE, reserved |-> 0, settled |-> 0, overrun |-> FALSE]
Planned == [state |-> "planned", cost |-> 0]
Idle == [phase |-> "idle", run |-> NoRun, ordinal |-> 0]

Init ==
    /\ run = [r \in Runs |-> NoRow]
    /\ hold = [r \in Runs |-> NoHold]
    /\ legacy = [l \in Legacy |-> NoTotals]
    /\ attempt = [r \in Operations |-> [n \in Ordinals(r) |-> Planned]]
    /\ bill = [r \in Operations |-> [n \in Ordinals(r) |-> 0]]
    /\ spent = [r \in Runs |-> 0]
    /\ call = [c \in Calls |-> Idle]
    /\ faults = 0

Fault == faults < MaxFaults /\ faults' = faults + 1

-----------------------------------------------------------------------------
(* The hold: the operators take and give its row h and the rows at of its attempts. *)

Final(a) == a.state \in {"settled", "overrun", "cancelled"}
Used(a) == IF Final(a) THEN a.cost ELSE Quote

Own(h) == IF h.native = Unmeasured THEN Native ELSE h.native
Total(r, h, at) == Own(h) + Sum([n \in Ordinals(r) |-> Used(at[n])])

\* refresh_hold
Refreshed(r, h, at) ==
    LET overrun == \/ Own(h) > Native \/ Total(r, h, at) > Reserve[r]
                   \/ \E n \in Ordinals(r) : at[n].state = "overrun"
        unresolved == h.native = Unmeasured \/ \E n \in Ordinals(r) : ~Final(at[n])
        unknown == \/ h.delivery # "pending"
                   \/ \E n \in Ordinals(r) : at[n].state \in {"outcome_unknown", "usage_unavailable"}
    IN  [h EXCEPT !.amount = Total(r, h, at),
                  !.state = CASE overrun -> "overrun"
                              [] ~overrun /\ unresolved /\ unknown -> "outcome_unknown"
                              [] ~overrun /\ unresolved /\ ~unknown -> "running"
                              [] ~overrun /\ ~unresolved /\ h.delivery # "pending" -> "settled"
                              [] ~overrun /\ ~unresolved /\ h.delivery = "pending" -> @]

\* _hold_amount: what a hold takes from the budget.
HoldAmountSpent(r) == hold[r].amount \* slip: only what is accounted for counts
HoldAmount(r) ==
    LET h == hold[r]
    IN  CASE h.state = "none" -> 0
          [] h.state = "settled" -> h.amount
          [] h.state \notin {"none", "settled"} -> IF h.amount > Reserve[r] THEN h.amount ELSE Reserve[r]

\* settle_delivery with a usable result.
MayDeliver(r) ==
    /\ hold[r].delivery = "pending"
    /\ \A n \in Ordinals(r) : attempt[r][n].state \notin {"started", "outcome_unknown", "overrun"}
    /\ \E n \in Ordinals(r) : attempt[r][n].state \in {"settled", "usage_unavailable"}

DropsUnanswered(a) == a.state \in {"planned", "started"} \* slip
Drops(a) == a.state = "planned"

ContradictsNever(r, outcome) == FALSE \* slip: any second decision is accepted
Contradicts(r, outcome) == hold[r].delivery \notin {"pending", outcome}

\* settle_delivery: it raises if the delivery was decided otherwise, and changes
\* nothing if it was decided so.
Decide(r, outcome) ==
    LET at == [n \in Ordinals(r) |-> IF Drops(attempt[r][n])
                                  THEN [state |-> "cancelled", cost |-> 0] ELSE attempt[r][n]]
    IN  /\ ~Contradicts(r, outcome)
        /\ IF hold[r].delivery # "pending" THEN UNCHANGED money
           ELSE /\ outcome = "delivered" => MayDeliver(r)
                /\ attempt' = [attempt EXCEPT ![r] = at]
                /\ hold' = [hold EXCEPT ![r] = Refreshed(r, [@ EXCEPT !.delivery = outcome], at)]

\* settle_analysis, in the transaction that ends the run.
End(r, status) ==
    /\ run' = [run EXCEPT ![r].status = status]
    /\ Decide(r, IF status = "succeeded" THEN "delivered" ELSE "failed")

-----------------------------------------------------------------------------
(* Admission, the owner and the operator. *)

\* _legacy_usage: a request that was sent, until its outcome is known.
LegacyAmount(l) ==
    Sum([n \in Ordinals(l) |-> IF attempt[l][n].state = "planned" THEN 0 ELSE Used(attempt[l][n])])

Budget == Sum([r \in Runs |-> HoldAmount(r)]) + Sum([l \in Legacy |-> LegacyAmount(l)])

\* admit and assert_headroom, in the transaction that creates the run.
Admit(r, status) ==
    /\ run[r].status = "absent"
    /\ \A q \in Runs : hold[q].state # "overrun"
    /\ Budget + Reserve[r] <= Ceiling
    /\ run' = [run EXCEPT ![r].status = status]
    /\ hold' = [hold EXCEPT ![r].state = IF status = "queued" THEN "reserved" ELSE "running"]
    /\ UNCHANGED attempt

\* maybe_create_paid_run
Create(r) ==
    /\ r \notin Inline /\ Admit(r, "queued")
    /\ UNCHANGED <<world, call, faults, legacy>>

\* execute of synchronous.py, up to its first commit
StartInline(c, r) ==
    /\ r \in Inline /\ call[c].phase = "idle" /\ Admit(r, "running")
    /\ call' = [call EXCEPT ![c] = [phase |-> "work", run |-> r, ordinal |-> 0]]
    /\ \E k \in NativeCosts : spent' = [spent EXCEPT ![r] = k]
    /\ UNCHANGED <<bill, faults, legacy>>

\* cancel_run: at once while queued, else a request to the worker.
Cancel(r) ==
    /\ run[r].status \in Active
    /\ IF run[r].status = "queued"
       THEN /\ run' = [run EXCEPT ![r].status = "cancelled", ![r].cancel = TRUE]
            /\ Decide(r, "failed")
       ELSE run' = [run EXCEPT ![r].cancel = TRUE] /\ UNCHANGED money
    /\ UNCHANGED <<world, call, faults, legacy>>

\* Account erasure deletes the run; its hold loses its owner and stays.
Erase(r) ==
    /\ run[r].status \notin {"absent", "erased"}
    /\ run' = [run EXCEPT ![r] = [NoRow EXCEPT !.status = "erased"]]
    /\ UNCHANGED <<money, world, call, faults, legacy>>

\* _settle_exhausted: the outbox gives up.
SettleExhausted(r) ==
    /\ r \notin Inline /\ run[r].status \in Active /\ Fault
    /\ End(r, "failed")
    /\ UNCHANGED <<world, call, legacy>>

EraseLegacy(l) ==
    /\ ~legacy[l].erased
    /\ legacy' = [legacy EXCEPT ![l].erased = TRUE]
    /\ UNCHANGED <<run, money, world, call, faults>>

AtWork(r) == \E c \in Calls : call[c].run = r /\ call[c].phase \in {"work", "send", "answer"}

\* apply of reconciliation.py: measured expense, of work that has ended for good.
Reconcile(r) ==
    /\ hold[r].delivery # "pending" /\ hold[r].native = Unmeasured
    /\ spent[r] > 0 /\ ~AtWork(r)
    /\ hold' = [hold EXCEPT ![r] = Refreshed(r, [@ EXCEPT !.native = spent[r]], attempt[r])]
    /\ UNCHANGED <<run, attempt, world, call, faults, legacy>>

-----------------------------------------------------------------------------
(* The worker: process_analysis_run. *)

Step(c, phase) == call' = [call EXCEPT ![c].phase = phase]
Leave(c) == call' = [call EXCEPT ![c] = Idle]

ClaimableQueued(row) == row.status = "queued" \* slip: stale runs are not taken over
Claimable(row) == row.status = "queued" \/ (row.status = "running" /\ row.stale)

ClaimRun(c, r) ==
    /\ r \notin Inline /\ call[c].phase = "idle" /\ Claimable(run[r])
    /\ run' = [run EXCEPT ![r].status = "running", ![r].stale = FALSE]
    /\ call' = [call EXCEPT ![c] = [phase |-> "read", run |-> r, ordinal |-> 0]]
    /\ UNCHANGED <<money, world, faults, legacy>>

ReadRun(c) ==
    LET row == run[call[c].run]
    IN  /\ call[c].phase = "read"
        /\ IF row.status = "erased" THEN Leave(c)
           ELSE Step(c, IF row.cancel THEN "cancel" ELSE "enter")
        /\ UNCHANGED <<run, money, world, faults, legacy>>

\* No look at the status the run has by now.
CancelClaimed(c) ==
    LET r == call[c].run
    IN  /\ call[c].phase = "cancel"
        /\ IF run[r].status = "erased" THEN UNCHANGED <<run, money>> ELSE End(r, "cancelled")
        /\ Leave(c)
        /\ UNCHANGED <<world, faults, legacy>>

EnterableAnew(r) == hold[r].state \in {"reserved", "running"} \* slip: work is repeated
Enterable(r) == hold[r].state = "reserved"

\* analysis_budget: who executes a hold, once; inputs or route may have changed.
Enter(c) ==
    LET r == call[c].run
        found == run[r].status # "erased" /\ Enterable(r) /\ hold[r].delivery = "pending"
    IN  /\ call[c].phase = "enter"
        /\ \/ /\ found
              /\ hold' = [hold EXCEPT ![r].state = "running"]
              /\ \E k \in NativeCosts : spent' = [spent EXCEPT ![r] = k]
              /\ Step(c, "work")
           \/ Step(c, "error") /\ UNCHANGED <<hold, spent>>
        /\ UNCHANGED <<run, attempt, bill, faults, legacy>>

Blocks(a) == a.state \in {"started", "outcome_unknown", "usage_unavailable", "overrun"}

\* claim_attempt, committed before the request is sent.
ClaimAttempt(c, n) ==
    LET r == call[c].run
    IN  /\ call[c].phase = "work" /\ r \in Runs /\ run[r].status # "erased"
        /\ hold[r].delivery = "pending"
        /\ hold[r].state \notin {"overrun", "outcome_unknown", "settled"}
        /\ \A m \in Ordinals(r) : ~Blocks(attempt[r][m])
        /\ attempt[r][n].state = "planned" /\ \A m \in 1..(n - 1) : attempt[r][m].state # "planned"
        /\ attempt' = [attempt EXCEPT ![r][n].state = "started"]
        /\ hold' = [hold EXCEPT ![r].state = "running"]
        /\ call' = [call EXCEPT ![c].phase = "send", ![c].ordinal = n]
        /\ UNCHANGED <<run, world, faults, legacy>>

\* The request goes out; the provider may not receive it.
Send(c) ==
    LET r == call[c].run
    IN  /\ call[c].phase = "send"
        /\ \E k \in Costs \cup {0} : bill' = [bill EXCEPT ![r][call[c].ordinal] = k]
        /\ Step(c, "answer")
        /\ UNCHANGED <<run, money, legacy, spent, faults>>

\* What the provider's answer says of a request: its usage, none, or an error.  More
\* tokens than the quote allows are an overrun at any cost.
Answers(cost) ==
    IF cost = 0 THEN {[state |-> "outcome_unknown", cost |-> 0]}
    ELSE [state : IF cost > Quote THEN {"overrun"} ELSE {"settled", "overrun"}, cost : {cost}]
         \cup [state : {"outcome_unknown", "usage_unavailable"}, cost : {0}]

Answered(c) == call' = [call EXCEPT ![c].phase = "work", ![c].ordinal = 0]

\* finish_attempt: the hold is found without its owner.
FinishAttempt(c) ==
    LET r == call[c].run  n == call[c].ordinal
    IN  /\ call[c].phase = "answer" /\ r \in Runs
        /\ \E a \in Answers(bill[r][n]) :
              LET at == [attempt[r] EXCEPT ![n] = a]
              IN  IF Final(attempt[r][n]) THEN UNCHANGED money
                  ELSE /\ attempt' = [attempt EXCEPT ![r] = at]
                       /\ hold' = [hold EXCEPT ![r] = Refreshed(r, @, at)]
        /\ Answered(c)
        /\ UNCHANGED <<run, world, faults, legacy>>

\* The transaction of the callback fails: the operation raises.
FailCallback(c) ==
    /\ call[c].phase = "answer" /\ call[c].run \in Runs /\ Fault
    /\ call' = [call EXCEPT ![c].phase = "error", ![c].ordinal = 0]
    /\ UNCHANGED <<run, money, world, legacy>>

\* The operation returns a result or raises.
Finish(c) ==
    /\ call[c].phase = "work"
    /\ \E next \in {"commit", "error"} : Step(c, next)
    /\ UNCHANGED <<run, money, world, faults, legacy>>

Ended(r) == run[r].status \in Terminal \cup {"erased"}

\* The transaction of a result; TRUE if it goes through.
ResultOf(c) ==
    LET r == call[c].run
    IN  IF Ended(r) THEN UNCHANGED <<run, money>>
        ELSE IF ~run[r].cancel THEN End(r, "succeeded")
        ELSE r \notin Inline /\ End(r, "cancelled")

CommitResult(c) ==
    /\ call[c].phase = "commit"
    /\ ResultOf(c) /\ Leave(c)
    /\ UNCHANGED <<world, faults, legacy>>

\* begin_result_commit refuses a cancelled inline run, settle_delivery a result
\* that no request can have given.
RefuseResult(c) ==
    LET r == call[c].run
    IN  /\ call[c].phase = "commit" /\ ~Ended(r)
        /\ IF run[r].cancel THEN r \in Inline ELSE ~MayDeliver(r)
        /\ Step(c, "error")
        /\ UNCHANGED <<run, money, world, faults, legacy>>

\* The commit fails (the database aborts it, or its answer is lost).
FailCommit(c) ==
    /\ call[c].phase = "commit" /\ Fault
    /\ ResultOf(c) \/ UNCHANGED <<run, money>>
    /\ Step(c, "error")
    /\ UNCHANGED <<world, legacy>>

\* The except branch.  A paid run is not queued again.  An inline one fails without
\* a look at its status, unless settle_delivery raises.
RecordError(c) ==
    LET r == call[c].run
        kept == IF r \in Inline THEN run[r].status = "erased" \/ Contradicts(r, "failed") ELSE Ended(r)
    IN  /\ call[c].phase = "error"
        /\ IF kept THEN UNCHANGED <<run, money>>
           ELSE End(r, IF run[r].cancel /\ r \notin Inline THEN "cancelled" ELSE "failed")
        /\ Leave(c)
        /\ UNCHANGED <<world, faults, legacy>>

-----------------------------------------------------------------------------
(* Operations in units: persistent_run_budget of services/generation_budget.py.  How
   their runs are claimed and end is in AnalysisRuns. *)

\* before: an unknown outcome keeps its money, and does not block another request.
ClaimRequest(c, l, n) ==
    /\ call[c].phase = "idle"
    /\ ~legacy[l].erased /\ ~legacy[l].overrun
    /\ attempt[l][n].state = "planned" /\ \A m \in 1..(n - 1) : attempt[l][m].state # "planned"
    /\ legacy[l].reserved + legacy[l].settled + Quote <= LegacyLimit
    /\ Budget + Quote <= Ceiling
    /\ attempt' = [attempt EXCEPT ![l][n].state = "started"]
    /\ legacy' = [legacy EXCEPT ![l].reserved = @ + Quote]
    /\ call' = [call EXCEPT ![c] = [phase |-> "send", run |-> l, ordinal |-> n]]
    /\ UNCHANGED <<run, hold, world, faults>>

\* after: the liability is settled also when the run is gone.
FinishRequest(c) ==
    LET l == call[c].run  n == call[c].ordinal
        totals(a) == [legacy[l] EXCEPT !.reserved = @ - Quote, !.settled = @ + a.cost]
        over(a) == a.state = "overrun" \/ totals(a).reserved + totals(a).settled > LegacyLimit
    IN  /\ call[c].phase = "answer" /\ l \in Legacy
        /\ \E a \in Answers(bill[l][n]) :
              IF Final(a) /\ ~legacy[l].erased
              THEN /\ attempt' = [attempt EXCEPT ![l][n] = [a EXCEPT !.state = IF over(a) THEN "overrun" ELSE @]]
                   /\ legacy' = [legacy EXCEPT ![l] = [totals(a) EXCEPT !.overrun = @ \/ over(a)]]
              ELSE attempt' = [attempt EXCEPT ![l][n] = a] /\ UNCHANGED legacy
        /\ Leave(c)
        /\ UNCHANGED <<run, hold, world, faults>>

-----------------------------------------------------------------------------
(* Crashes and time. *)

Crash(c) ==
    /\ call[c].phase # "idle" /\ Fault /\ Leave(c)
    /\ UNCHANGED <<run, money, world, legacy>>

\* A run started twenty minutes ago; a fault if somebody still works on it.
BecomesStale(r) ==
    /\ r \notin Inline /\ run[r].status = "running" /\ ~run[r].stale
    /\ run' = [run EXCEPT ![r].stale = TRUE]
    /\ IF \E c \in Calls : call[c].run = r THEN Fault ELSE UNCHANGED faults
    /\ UNCHANGED <<money, world, call, legacy>>

CallStep(c) ==
    \/ ReadRun(c) \/ CancelClaimed(c) \/ Enter(c) \/ Send(c) \/ FinishAttempt(c) \/ Finish(c)
    \/ CommitResult(c) \/ RefuseResult(c) \/ RecordError(c)
    \/ FinishRequest(c)
    \/ call[c].phase = "work" /\ \E n \in Ordinals(call[c].run) : ClaimAttempt(c, n)

Next ==
    \/ \E r \in Runs : \/ Create(r) \/ Cancel(r) \/ Erase(r) \/ SettleExhausted(r)
                       \/ Reconcile(r) \/ BecomesStale(r)
    \/ \E c \in Calls : CallStep(c) \/ FailCallback(c) \/ FailCommit(c) \/ Crash(c)
    \/ \E c \in Calls, r \in Runs : ClaimRun(c, r) \/ StartInline(c, r)
    \/ \E l \in Legacy : \/ EraseLegacy(l)
                         \/ \E c \in Calls, n \in Ordinals(l) : ClaimRequest(c, l, n)

\* Started calls go on, runs grow old, and the outbox keeps delivering a run that
\* is active when a call is free.
Fairness ==
    /\ \A c \in Calls : WF_vars(CallStep(c))
    /\ \A r \in Runs : WF_vars(BecomesStale(r)) /\ SF_vars(\E c \in Calls : ClaimRun(c, r))

Spec == Init /\ [][Next]_vars
FairSpec == Spec /\ Fairness

-----------------------------------------------------------------------------
(* Properties. *)

RealCost(r) == Sum(bill[r]) + IF r \in Runs THEN spent[r] ELSE 0

Over(cost, estimate) == IF cost > estimate THEN cost - estimate ELSE 0
Excess(r) == Sum([n \in Ordinals(r) |-> Over(bill[r][n], Quote)])
             + IF r \in Runs THEN Over(spent[r], Native) ELSE 0

\* What the provider and the own processing really cost stays within the budget,
\* but for what they charge beyond their quotes: a hold gives money back for the
\* next admission only when nothing of it can still be charged.
RealCostWithinBudget ==
    Sum([r \in Operations |-> RealCost(r)]) <= Ceiling + Sum([r \in Operations |-> Excess(r)])

\* A settled hold states exactly what was spent, also on requests that answered
\* after their run was cancelled, taken over or erased.
SettledIsExact ==
    /\ \A r \in Runs : hold[r].state = "settled" => hold[r].amount = RealCost(r)
    /\ \A l \in Legacy : ~legacy[l].erased /\ legacy[l].reserved = 0
                         => legacy[l].settled = RealCost(l)

InDoubt(r) ==
    {n \in Ordinals(r) :
        /\ ~Final(attempt[r][n])
        /\ bill[r][n] > 0 \/ \E c \in Calls : call[c].run = r /\ call[c].ordinal = n}

\* At most one call executes an operation, and at most one request of it is at the
\* provider without its cost being known, however often the work is delivered.
OneInDoubt ==
    \A r \in Runs :
       /\ \A c, d \in Calls : call[c].run = r /\ call[d].run = r /\ {call[c].phase, call[d].phase}
              \subseteq {"work", "send", "answer"} => c = d
       /\ \A m, n \in InDoubt(r) : m = n

\* The customer is charged exactly for what is shown as done: the run and the
\* delivery of its hold have the same outcome.
OutcomeMatchesDelivery ==
    \A r \in Runs : run[r].status \notin {"absent", "erased"} =>
       /\ run[r].status = "succeeded" <=> hold[r].delivery = "delivered"
       /\ run[r].status \in {"failed", "cancelled"} <=> hold[r].delivery = "failed"

\* The delivery of a queued run is decided in the end (credits charged or given
\* back), unless its account is deleted.
EveryDeliveryDecided ==
    \A r \in Runs \ Inline :
       run[r].status \in Active ~> hold[r].delivery # "pending" \/ run[r].status = "erased"
=============================================================================
