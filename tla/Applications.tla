---------------------------- MODULE Applications ----------------------------
(* Applications that are sent to employers through their interface: the
   candidate's requests and the reconciliation (employer/service.py), the worker
   (employer/tasks.py), the admissions that count against the limits
   (employer/admissions.py) and the erasure of the account (employer/privacy.py).

   One candidate, and applications of the mode "api".  Whatever can make a check
   fail - an approval or a quote that ran out, a form, a job, a permission or a
   limit that changed, a credential that is missing - is a choice of the
   environment at the check.  A transaction is one step; the outbox appears as
   what module Intent says of it. *)
EXTENDS Integers, FiniteSets

CONSTANTS
    Apps,           \* applications
    Openings,       \* canonical openings (opening_identity)
    NoOpening,      \* an application that is not there yet
    Workers,        \* concurrent calls of process_event
    NoApp,          \* a worker that is idle
    Nobody,         \* nobody holds the event of an application
    Wallet,         \* credits the candidate starts with; an application costs one
    PendingLimit,   \* attempts that may be queued, sending or uncertain
    WindowLimit,    \* attempts within the window (a day or thirty)
    MaxDeliveries,  \* executions before the outbox settles the event (6)
    MaxFaults       \* how often the environment misbehaves

ASSUME ConstantsOK ==
    /\ IsFiniteSet(Apps) /\ NoApp \notin Apps /\ NoOpening \notin Openings /\ Nobody \notin Workers
    /\ Wallet \in Nat /\ PendingLimit \in Nat /\ WindowLimit \in Nat
    /\ MaxDeliveries \in Nat /\ MaxFaults \in Nat

VARIABLES
    app,        \* employer_applications
    admission,  \* employer_admissions
    money,      \* service_credit_reservations
    credits,    \* users.job_service_credits
    attempt,    \* employer_application_attempts
    owner,      \* whether the account exists
    event,      \* state of the event of an application, see Intent
    holder,     \* the worker that holds it
    execs,      \* executions counted on it
    worker,     \* local state of every worker
    arrived,    \* the employer's side: complete applications it received
    verified,   \* history: reconciled as not submitted
    faults      \* faults so far

outbox == <<event, holder, execs>>
ledger == <<money, credits>>
rows == <<app, admission, ledger, attempt, owner>>
vars == <<rows, outbox, worker, arrived, verified, faults>>

Pending == {"reserved", "submitting", "unknown"}

NoAdmission == [state |-> "none", claims |-> FALSE, sent |-> FALSE, recent |-> FALSE]
Idle == [phase |-> "idle", app |-> NoApp, outcome |-> "none"]

Init ==
    /\ app = [a \in Apps |-> [status |-> "none", opening |-> NoOpening, claims |-> FALSE]]
    /\ admission = [a \in Apps |-> NoAdmission]
    /\ money = [a \in Apps |-> "none"] /\ credits = Wallet
    /\ attempt = [a \in Apps |-> "none"]
    /\ owner = TRUE
    /\ event = [a \in Apps |-> "none"]
    /\ holder = [a \in Apps |-> Nobody]
    /\ execs = [a \in Apps |-> 0]
    /\ worker = [w \in Workers |-> Idle]
    /\ arrived = [a \in Apps |-> 0]
    /\ verified = {} /\ faults = 0

Fault == faults < MaxFaults /\ faults' = faults + 1

-----------------------------------------------------------------------------
(* Admissions and credits. *)

\* _check_policy: pending attempts count whatever their age.
Counted == {a \in Apps : admission[a].state \in Pending
                            \/ (admission[a].state = "consumed" /\ admission[a].recent)}
WithinLimits ==
    /\ Cardinality(Counted) < WindowLimit
    /\ Cardinality({a \in Apps : admission[a].state \in Pending}) < PendingLimit

Unclaimed(opening) == \A a \in Apps : admission[a].claims => app[a].opening # opening

FreesRefunded(adm, proven) == TRUE \* slip: money back is a slot back
Frees(adm, proven) == proven \/ ~adm.sent

\* finish, but for its outcome "unknown".
Finished(adm, outcome, proven) ==
    CASE adm.state = "none" -> adm
      [] adm.state # "none" /\ Frees(adm, proven) ->
            [adm EXCEPT !.state = "released", !.claims = FALSE]
      [] adm.state # "none" /\ ~Frees(adm, proven) ->
            [adm EXCEPT !.state = "consumed", !.claims = @ /\ outcome = "confirmed"]

Unsettled(a) == money[a] = "reserved"

\* credits.settle
Settle(a, how) ==
    IF Unsettled(a)
    THEN /\ money' = [money EXCEPT ![a] = how]
         /\ credits' = IF how = "returned" THEN credits + 1 ELSE credits
    ELSE UNCHANGED ledger

\* _settle_failure
Failed(a) ==
    /\ app' = [app EXCEPT ![a] = [@ EXCEPT !.status = "failed", !.claims = FALSE]]
    /\ admission' = [admission EXCEPT ![a] = Finished(@, "failed", FALSE)]
    /\ Settle(a, "returned")

\* _mark_unknown
Uncertain(a) ==
    /\ app' = [app EXCEPT ![a].status = "unknown"]
    /\ admission' = [admission EXCEPT ![a].state = "unknown"]
    /\ UNCHANGED ledger

Confirmed(a) ==
    /\ app' = [app EXCEPT ![a].status = "confirmed"]
    /\ admission' = [admission EXCEPT ![a] = Finished(@, "confirmed", FALSE)]
    /\ Settle(a, "charged")

-----------------------------------------------------------------------------
(* The candidate. *)

\* create_application: no other application for the opening is alive.
Create(a, opening) ==
    /\ owner /\ app[a].status = "none"
    /\ \A b \in Apps : app[b].claims => app[b].opening # opening
    /\ app' = [app EXCEPT ![a] = [status |-> "ready", opening |-> opening, claims |-> TRUE]]
    /\ UNCHANGED <<admission, ledger, attempt, owner, outbox, worker, arrived, verified, faults>>

\* update_package: a changed package has to be approved again.
Edit(a) ==
    /\ app[a].status = "approved"
    /\ app' = [app EXCEPT ![a].status = "ready"]
    /\ UNCHANGED <<admission, ledger, attempt, owner, outbox, worker, arrived, verified, faults>>

Approve(a) ==
    /\ app[a].status = "ready"
    /\ app' = [app EXCEPT ![a].status = "approved"]
    /\ UNCHANGED <<admission, ledger, attempt, owner, outbox, worker, arrived, verified, faults>>

\* request_execution: the slot, the credits, the state and the event in one commit.
Request(a) ==
    /\ app[a].status = "approved"
    /\ admission[a].state = "none" /\ Unclaimed(app[a].opening) /\ WithinLimits
    /\ admission' = [admission EXCEPT ![a] = [NoAdmission EXCEPT !.state = "reserved", !.claims = TRUE]]
    /\ credits > 0 /\ credits' = credits - 1
    /\ money' = [money EXCEPT ![a] = "reserved"]
    /\ app' = [app EXCEPT ![a].status = "queued"]
    /\ event' = [event EXCEPT ![a] = "open"]
    /\ UNCHANGED <<attempt, owner, holder, execs, worker, arrived, verified, faults>>

InDoubtUnknown == {"unknown"} \* slip: a send in flight is called back
InDoubt == {"submitting", "unknown"}

\* cancel_application: what may have been sent cannot be called back.
Cancel(a) ==
    /\ app[a].status \notin {"none", "erased", "confirmed"}
    /\ IF app[a].status \in InDoubt
       THEN /\ admission' = [admission EXCEPT ![a].state = "unknown"]
            /\ UNCHANGED <<app, ledger>>
       ELSE /\ app' = [app EXCEPT ![a] = [@ EXCEPT !.status = "cancelled", !.claims = FALSE]]
            /\ admission' = [admission EXCEPT ![a] = Finished(@, "cancelled", FALSE)]
            /\ Settle(a, "returned")
    /\ UNCHANGED <<attempt, owner, outbox, worker, arrived, verified, faults>>

\* delete_account_data: what was not launched is stopped and paid back, the
\* possible sends keep their reservations, and no row of the candidate is left.
Erase ==
    LET stopped == {a \in Apps : app[a].status \notin InDoubt \cup {"confirmed", "none"}}
    IN  /\ owner /\ owner' = FALSE
        /\ app' = [a \in Apps |-> IF app[a].status = "none" THEN app[a]
                                  ELSE [app[a] EXCEPT !.status = "erased", !.claims = FALSE]]
        /\ admission' = [a \in Apps |->
              [(IF a \in stopped THEN Finished(admission[a], "account_deleted", FALSE) ELSE admission[a])
                 EXCEPT !.claims = FALSE]]
        /\ money' = [a \in Apps |-> IF a \in stopped /\ Unsettled(a) THEN "returned" ELSE money[a]]
        /\ attempt' = [a \in Apps |-> "none"]
        /\ credits' = 0
        /\ UNCHANGED <<outbox, worker, arrived, verified, faults>>

-----------------------------------------------------------------------------
(* The worker: process_event around execute_application. *)

Goto(w, phase) == worker' = [worker EXCEPT ![w].phase = phase]

Deliver(w, a) ==
    /\ worker[w].phase = "idle" /\ event[a] = "open"
    /\ event' = [event EXCEPT ![a] = "held"]
    /\ holder' = [holder EXCEPT ![a] = w]
    /\ execs' = [execs EXCEPT ![a] = @ + 1]
    /\ worker' = [worker EXCEPT ![w] =
          [phase |-> IF execs[a] + 1 > MaxDeliveries THEN "settle" ELSE "begin",
           app |-> a, outcome |-> "none"]]
    /\ UNCHANGED <<rows, arrived, verified, faults>>

\* fail_dispatched_work
SettleExhausted(w) ==
    LET a == worker[w].app
    IN  /\ worker[w].phase = "settle"
        /\ CASE app[a].status \notin {"queued", "submitting"} -> UNCHANGED <<app, admission, ledger>>
             [] app[a].status \in {"queued", "submitting"} /\ attempt[a] # "none" -> Uncertain(a)
             [] app[a].status \in {"queued", "submitting"} /\ attempt[a] = "none" -> Failed(a)
        /\ Goto(w, "return")
        /\ UNCHANGED <<attempt, owner, outbox, arrived, verified, faults>>

\* The first transaction.
Begin(w) ==
    LET a == worker[w].app
    IN  /\ worker[w].phase = "begin"
        /\ \/ /\ app[a].status = "submitting"
              /\ Uncertain(a) /\ Goto(w, "return")
           \/ /\ app[a].status = "queued"
              /\ UNCHANGED <<app, admission, ledger>> /\ Goto(w, "preflight")
           \/ /\ app[a].status = "queued"
              /\ Failed(a) /\ Goto(w, "return")
           \/ /\ app[a].status \notin {"submitting", "queued"}
              /\ UNCHANGED <<app, admission, ledger>> /\ Goto(w, "return")
        /\ UNCHANGED <<attempt, owner, outbox, arrived, verified, faults>>

\* The form and the artifact are loaded.
Preflight(w) ==
    /\ worker[w].phase = "preflight"
    /\ \E next \in {"launch", "giveup"} : Goto(w, next)
    /\ UNCHANGED <<rows, outbox, arrived, verified, faults>>

StopsNever(a) == FALSE \* slip: a failed preflight is only reported
Stops(a) == app[a].status = "queued"

GiveUp(w) ==
    LET a == worker[w].app
    IN  /\ worker[w].phase = "giveup"
        /\ IF Stops(a) THEN Failed(a) ELSE UNCHANGED <<app, admission, ledger>>
        /\ Goto(w, "return")
        /\ UNCHANGED <<attempt, owner, outbox, arrived, verified, faults>>

MayLaunchClaimed(a) == app[a].status \in {"queued", "submitting"} /\ admission[a].claims \* slip
MayLaunch(a) == app[a].status = "queued" /\ admission[a].state = "reserved" /\ admission[a].claims

\* The second transaction: every check again, then the permit for the one POST.
Launch(w) ==
    LET a == worker[w].app
    IN  /\ worker[w].phase = "launch"
        /\ \/ /\ MayLaunch(a)
              /\ app' = [app EXCEPT ![a].status = "submitting"]
              /\ admission' = [admission EXCEPT ![a] = [@ EXCEPT !.state = "submitting",
                                                                 !.sent = TRUE, !.recent = TRUE]]
              /\ attempt' = [attempt EXCEPT ![a] = "submitting"]
              /\ Goto(w, "send") /\ UNCHANGED ledger
           \/ /\ app[a].status = "queued"
              /\ Failed(a) /\ Goto(w, "return") /\ UNCHANGED attempt
           \/ /\ app[a].status # "queued"
              /\ Goto(w, "return") /\ UNCHANGED <<app, admission, ledger, attempt>>
        /\ UNCHANGED <<owner, outbox, arrived, verified, faults>>

\* The POST: a receipt and a rejection are reliable, any other answer is not.
Send(w) ==
    LET a == worker[w].app
        Arrivals(outcome) == CASE outcome = "receipt" -> {1} [] outcome = "rejected" -> {0}
                               [] outcome = "unclear" -> {0, 1}
    IN  /\ worker[w].phase = "send"
        /\ \E outcome \in {"receipt", "rejected", "unclear"} :
              /\ worker' = [worker EXCEPT ![w] = [@ EXCEPT !.phase = "record", !.outcome = outcome]]
              /\ \E n \in Arrivals(outcome) : arrived' = [arrived EXCEPT ![a] = @ + n]
        /\ UNCHANGED <<rows, outbox, verified, faults>>

SettledElsewhere(a) == app[a].status = "confirmed"

\* The third transaction: a reconciliation may have been first.
Record(w) ==
    LET a == worker[w].app  outcome == worker[w].outcome
    IN  /\ worker[w].phase = "record"
        /\ IF app[a].status = "erased"
           THEN UNCHANGED <<app, admission, ledger, attempt>>
           ELSE /\ attempt' = [attempt EXCEPT ![a] = CASE outcome = "receipt" -> "confirmed"
                                                       [] outcome = "rejected" -> "failed"
                                                       [] outcome = "unclear" -> "unknown"]
                /\ CASE SettledElsewhere(a) -> UNCHANGED <<app, admission, ledger>>
                     [] ~SettledElsewhere(a) /\ outcome = "receipt" -> Confirmed(a)
                     [] ~SettledElsewhere(a) /\ outcome = "rejected" -> Failed(a)
                     [] ~SettledElsewhere(a) /\ outcome = "unclear" -> Uncertain(a)
        /\ Goto(w, "return")
        /\ UNCHANGED <<owner, outbox, arrived, verified, faults>>

\* Whatever the handler answers, the event is done for whoever still holds it.
Return(w) ==
    LET a == worker[w].app
    IN  /\ worker[w].phase = "return"
        /\ IF event[a] = "held" /\ holder[a] = w
           THEN /\ event' = [event EXCEPT ![a] = "closed"]
                /\ holder' = [holder EXCEPT ![a] = Nobody]
           ELSE UNCHANGED <<event, holder>>
        /\ worker' = [worker EXCEPT ![w] = Idle]
        /\ UNCHANGED <<rows, execs, arrived, verified, faults>>

-----------------------------------------------------------------------------
(* Reconciliation: an administrator asks the employer. *)

ReconcileConfirmed(a) ==
    /\ app[a].status = "unknown" /\ arrived[a] > 0
    /\ Confirmed(a)
    /\ UNCHANGED <<attempt, owner, outbox, worker, arrived, verified, faults>>

ResolvedAlways(a) == attempt[a] # "none" \* slip: the sender may still be at it
Resolved(a) == attempt[a] = "unknown"

ReconcileNotSubmitted(a) ==
    /\ app[a].status = "unknown" /\ arrived[a] = 0
    /\ Resolved(a)
    /\ app' = [app EXCEPT ![a] = [@ EXCEPT !.status = "failed", !.claims = FALSE]]
    /\ admission' = [admission EXCEPT ![a] = Finished(@, "verified_not_submitted", TRUE)]
    /\ Settle(a, "returned")
    /\ verified' = verified \cup {a}
    /\ UNCHANGED <<attempt, owner, outbox, worker, arrived, faults>>

-----------------------------------------------------------------------------
(* Crashes and time. *)

\* A request that was on its way has arrived or not.
Crash(w) ==
    LET a == worker[w].app
    IN  /\ worker[w].phase # "idle" /\ Fault
        /\ worker' = [worker EXCEPT ![w] = Idle]
        /\ \E n \in IF worker[w].phase = "send" THEN {0, 1} ELSE {0} :
              arrived' = [arrived EXCEPT ![a] = @ + n]
        /\ UNCHANGED <<rows, outbox, verified>>

\* The outbox gives the event to somebody else; a fault if the holder is at work.
Lapse(a) ==
    /\ event[a] = "held"
    /\ event' = [event EXCEPT ![a] = "open"]
    /\ holder' = [holder EXCEPT ![a] = Nobody]
    /\ IF worker[holder[a]].app = a THEN Fault ELSE UNCHANGED faults
    /\ UNCHANGED <<rows, execs, worker, arrived, verified>>

\* The window of the limits moves on.
Age(a) ==
    /\ admission[a].recent
    /\ admission' = [admission EXCEPT ![a].recent = FALSE]
    /\ UNCHANGED <<app, ledger, attempt, owner, outbox, worker, arrived, verified, faults>>

WorkerStep(w) ==
    \/ SettleExhausted(w) \/ Begin(w) \/ Preflight(w) \/ GiveUp(w) \/ Launch(w)
    \/ Send(w) \/ Record(w) \/ Return(w)

Next ==
    \/ \E a \in Apps, o \in Openings : Create(a, o)
    \/ \E a \in Apps : Edit(a) \/ Approve(a) \/ Request(a) \/ Cancel(a)
    \/ Erase
    \/ \E a \in Apps, w \in Workers : Deliver(w, a)
    \/ \E w \in Workers : WorkerStep(w) \/ Crash(w)
    \/ \E a \in Apps : ReconcileConfirmed(a) \/ ReconcileNotSubmitted(a)
    \/ \E a \in Apps : Lapse(a) \/ Age(a)

Spec == Init /\ [][Next]_vars

-----------------------------------------------------------------------------
(* Properties. *)

\* "No automatic retry will send it again", and no second application for the
\* opening either: whatever is repeated, cancelled, refused or reconciled, an
\* employer receives at most one application for one opening.
OneApplicationPerOpening ==
    \A a, b \in Apps :
        arrived[a] > 0 /\ arrived[b] > 0 /\ app[a].opening = app[b].opening
        => a = b /\ arrived[a] = 1

\* The candidate gets the credits back only for what no employer has or will
\* have, and pays only for what an employer has.
PaidIffReceived ==
    \A a \in Apps :
        /\ money[a] = "returned" =>
              arrived[a] = 0 /\ \A w \in Workers : ~(worker[w].app = a /\ worker[w].phase = "send")
        /\ money[a] = "charged" => arrived[a] > 0

\* Credits and slot are held together, for exactly as long as the outcome is open.
HeldWhileOpen ==
    owner => /\ \A a \in Apps :
                   /\ app[a].status \in {"queued", "submitting", "unknown"} <=> money[a] = "reserved"
                   /\ money[a] = "reserved" <=> admission[a].state \in Pending
                   /\ app[a].status = "confirmed" <=> money[a] = "charged"
             /\ Wallet - credits = Cardinality({a \in Apps : money[a] \in {"reserved", "charged"}})

\* "Every reserved, submitting or unknown attempt counts regardless of age", and a
\* possible send keeps counting in its window although its credits are returned.
\* What the employer said never came is left out: a reconciliation frees its slot.
SlotsWithinLimit ==
    LET uncertain == {a \in Apps : admission[a].state \in {"reserved", "submitting", "unknown"}}
        sent == {a \in Apps : admission[a].sent /\ admission[a].recent}
    IN  /\ Cardinality(uncertain) <= PendingLimit
        /\ Cardinality((uncertain \cup sent) \ verified) <= WindowLimit

\* Queued work, and the credits it holds, are not left lying: no answer of a
\* worker closes the event before the application is sent or given up.
QueuedIsAttended == \A a \in Apps : app[a].status = "queued" => event[a] \in {"open", "held"}
=============================================================================
