-------------------------- MODULE AnalysisRunsProofs --------------------------
(* Theorems about AnalysisRuns, for any number of runs, calls, tries, deliveries
   and faults and any prices: the units of a run follow its end, a cancelled run
   never succeeds, retries are bounded, and the worker keeps what Intent says. *)
EXTENDS AnalysisRuns, FiniteSetTheorems, TLAPS

\* The phases of a call between its claim of a run and the outcome it records.
Live == {"read", "cancel", "execute", "commit", "retryable", "fatal"}

\* The calls that claimed a try of a run and have not yet recorded its outcome.
InFlight(r) == {c \in Calls : call[c].run = r /\ call[c].phase \in Live}

\* A run is queued together with its event, a held event was counted, and only a
\* held event has a holder.
RowsRight ==
    /\ \A r \in AllRuns : run[r].status = "absent" => run[r].tries = 0
    /\ \A r \in Runs : run[r].status = "absent" <=> intent[r] = "none"
    /\ \A r \in Runs : /\ intent[r] = "held" => execs[r] > 0
                       /\ intent[r] # "held" => holder[r] = Nobody

\* What a call knows of its run in each phase: a run it works on exists, a run it
\* found cancelled stays so, and a run it reports as ended has ended.
CallRight(c) ==
    /\ call[c].phase = "sync" =>
          call[c].run \in SyncRuns /\ run[call[c].run].status \in {"running", "erased"}
    /\ call[c].phase \notin {"idle", "sync"} =>
          call[c].run \in Runs /\ run[call[c].run].status # "absent"
    /\ call[c].phase = "cancel" => run[call[c].run].cancel \/ run[call[c].run].status = "erased"
    /\ call[c].phase = "return" /\ call[c].result \in {"done", "exhausted"} => Ended(call[c].run)

\* No two requests run the same synchronous operation.
SyncAlone ==
    \A c, d \in Calls :
        call[c].phase = "sync" /\ call[d].phase = "sync" /\ call[c].run = call[d].run => c = d

CallsRight == SyncAlone /\ \A c \in Calls : CallRight(c)

\* Every return to the queue and every call in flight has used up a try of its
\* own: why retries stay bounded although stale calls fail late.
TriesCounted ==
    \A r \in Runs :
        run[r].status # "erased" => requeues[r] + Cardinality(InFlight(r)) <= run[r].tries

\* OutcomeMatchesUsage and CancelWins, of one row, and no usage before it exists.
UsageRight(row) ==
    /\ row.status = "absent" => row.usage = "none"
    /\ row.status \in Active => row.usage \in {"reserved", "waived"}
    /\ row.status = "succeeded" => row.usage \in {"committed", "waived"}
    /\ row.status \in {"failed", "cancelled"} => row.usage \in {"released", "waived"}
    /\ row.cancel => row.status # "succeeded"

UsagesRight == \A q \in AllRuns : UsageRight(run[q])

IInv == TypeOK /\ RowsRight /\ CallsRight /\ TriesCounted /\ UsagesRight

-----------------------------------------------------------------------------
(* The three transactions of the usage ledger. *)

\* The part of TypeOK that the ledger writes.
LedgerType ==
    /\ run \in [AllRuns -> RunRow] /\ units \in Nat
    /\ journal \subseteq AllRuns \X {"waive", "reserve", "commit", "release"}

\* A reservation writes the new row and takes no more units than there are.
LEMMA ReservedRow ==
    ASSUME LedgerType, NEW r \in AllRuns, NEW status \in {"queued", "running"}, NEW tries \in Nat,
           Reserve(r, status, tries)
    PROVE  /\ LedgerType'
           /\ \A q \in AllRuns \ {r} : run'[q] = run[q]
           /\ run'[r].status = status /\ run'[r].usage \in {"reserved", "waived"}
           /\ ~run'[r].cancel /\ run'[r].tries = tries
<1>1. Price[r] \in Nat
  BY ConstantsOK DEF AllRuns
<1> DEFINE row(usage) == [NoRow EXCEPT !.status = status, !.usage = usage, !.tries = tries]
<1>2. PICK usage \in {"reserved", "waived"} :
        /\ run' = [run EXCEPT ![r] = row(usage)]
        /\ usage = "reserved" => Affords(r) /\ units' = units - Price[r]
        /\ usage # "reserved" => units' = units
        /\ journal' \subseteq journal \cup {<<r, "waive">>, <<r, "reserve">>}
  BY DEF Reserve
<1>3. units' \in Nat
  BY <1>1, <1>2 DEF LedgerType, Affords
<1>4. row(usage) \in RunRow
  BY DEF NoRow, RunRow, Terminal
<1> QED BY <1>2, <1>3, <1>4 DEF LedgerType, NoRow

\* A release ends the run, gives its units back and keeps a request to cancel.
LEMMA ReleasedRow ==
    ASSUME LedgerType, NEW r \in AllRuns, NEW status \in Terminal, EndReleased(r, status)
    PROVE  /\ LedgerType'
           /\ \A q \in AllRuns \ {r} : run'[q] = run[q]
           /\ run'[r].status = status /\ run'[r].cancel = run[r].cancel
           /\ run'[r].tries = run[r].tries
           /\ run'[r].usage = IF run[r].usage = "reserved" THEN "released" ELSE run[r].usage
<1>1. Price[r] \in Nat
  BY ConstantsOK DEF AllRuns
<1> DEFINE row == ReleasedAs(run[r], status)
<1>2. run' = [run EXCEPT ![r] = row] /\ row \in RunRow
  BY DEF EndReleased, LedgerType, ReleasedAs, Releasable, RunRow, Terminal
<1>3. units' \in Nat /\ journal' \subseteq journal \cup {<<r, "release">>}
  BY <1>1 DEF EndReleased, GiveBackUnits, LedgerType, ledger
<1>4. /\ row.status = status /\ row.cancel = run[r].cancel /\ row.tries = run[r].tries
      /\ row.usage = IF run[r].usage = "reserved" THEN "released" ELSE run[r].usage
  BY DEF LedgerType, ReleasedAs, Releasable, RunRow
<1> QED BY <1>2, <1>3, <1>4 DEF LedgerType

\* A commit ends the run and keeps a request to cancel.
LEMMA CommittedRow ==
    ASSUME LedgerType, NEW r \in AllRuns, EndCommitted(r)
    PROVE  /\ LedgerType'
           /\ \A q \in AllRuns \ {r} : run'[q] = run[q]
           /\ run'[r].status = "succeeded" /\ run'[r].cancel = run[r].cancel
           /\ run'[r].tries = run[r].tries
           /\ run'[r].usage = IF run[r].usage = "reserved" THEN "committed" ELSE run[r].usage
<1> DEFINE row == [run[r] EXCEPT !.status = "succeeded",
                                 !.usage = IF run[r].usage = "reserved" THEN "committed" ELSE @]
<1>1. run' = [run EXCEPT ![r] = row]
  BY DEF EndCommitted, LedgerType, RunRow
<1>2. row \in RunRow
  BY DEF LedgerType, RunRow, Terminal
<1>3. units' = units /\ journal' \subseteq journal \cup {<<r, "commit">>}
  BY DEF EndCommitted, ledger
<1> QED BY <1>1, <1>2, <1>3 DEF LedgerType, RunRow

-----------------------------------------------------------------------------
(* How a call goes on. *)

\* A call that goes on keeps its run.
LEMMA Stepped ==
    ASSUME call \in [Calls -> CallState], NEW c \in Calls, NEW phase \in Phase, Step(c, phase)
    PROVE  /\ call' \in [Calls -> CallState]
           /\ \A d \in Calls \ {c} : call'[d] = call[d]
           /\ call'[c].phase = phase
           /\ call'[c].run = call[c].run /\ call'[c].result = call[c].result
<1> DEFINE state == [call[c] EXCEPT !.phase = phase]
<1>1. call' = [call EXCEPT ![c] = state]
  BY DEF Step
<1>2. /\ state \in CallState
      /\ state.phase = phase /\ state.run = call[c].run /\ state.result = call[c].result
  BY DEF CallState
<1> QED BY <1>1, <1>2

\* A call that has an answer keeps its run.
LEMMA Answered ==
    ASSUME call \in [Calls -> CallState], NEW c \in Calls, NEW result \in Result, Answer(c, result)
    PROVE  /\ call' \in [Calls -> CallState]
           /\ \A d \in Calls \ {c} : call'[d] = call[d]
           /\ call'[c].phase = "return" /\ call'[c].run = call[c].run /\ call'[c].result = result
<1> DEFINE state == [call[c] EXCEPT !.phase = "return", !.result = result]
<1>1. call' = [call EXCEPT ![c] = state]
  BY DEF Answer
<1>2. /\ state \in CallState
      /\ state.phase = "return" /\ state.run = call[c].run /\ state.result = result
  BY DEF CallState, Phase
<1> QED BY <1>1, <1>2

\* Cancelling ends a queued run and marks a running one.
LEMMA CancelledRow ==
    ASSUME LedgerType, NEW r \in AllRuns, Cancel(r)
    PROVE  /\ LedgerType'
           /\ \A q \in AllRuns \ {r} : run'[q] = run[q]
           /\ run'[r].cancel /\ run'[r].tries = run[r].tries
           /\ \/ /\ run[r].status = "queued" /\ run'[r].status = "cancelled"
                 /\ run'[r].usage = IF run[r].usage = "reserved" THEN "released" ELSE run[r].usage
              \/ /\ run[r].status = "running" /\ run'[r].status = "running"
                 /\ run'[r].usage = run[r].usage
<1>1. Price[r] \in Nat
  BY ConstantsOK DEF AllRuns
<1> DEFINE row == [ReleasedAs(run[r], "cancelled") EXCEPT !.cancel = TRUE]
<1>2. CASE run[r].status = "queued"
  <2>1. run' = [run EXCEPT ![r] = row]
    BY <1>2 DEF Cancel, LedgerType
  <2>2. /\ row \in RunRow /\ row.status = "cancelled" /\ row.cancel /\ row.tries = run[r].tries
        /\ row.usage = IF run[r].usage = "reserved" THEN "released" ELSE run[r].usage
    BY DEF LedgerType, ReleasedAs, Releasable, RunRow, Terminal
  <2>3. units' \in Nat /\ journal' \subseteq journal \cup {<<r, "release">>}
    BY <1>1, <1>2 DEF Cancel, GiveBackUnits, LedgerType, ledger
  <2> QED BY <1>2, <2>1, <2>2, <2>3 DEF LedgerType
<1>3. CASE run[r].status # "queued"
  <2>1. run[r].status = "running" /\ run' = [run EXCEPT ![r].cancel = TRUE] /\ UNCHANGED ledger
    BY <1>3 DEF Cancel, Active
  <2> QED BY <2>1 DEF LedgerType, RunRow, ledger
<1> QED BY <1>2, <1>3

\* The steps of a call that record the outcome of its run.
Records(c) ==
    \/ SettleExhausted(c) \/ CancelClaimed(c) \/ CommitResult(c) \/ RecordError(c)
    \/ FinishSync(c) \/ FailSync(c)

\* What a call may do to its run when it records an outcome: release its units and
\* end it, commit them and end it, queue it again, or nothing.
Outcome(c) ==
    LET r == call[c].run
    IN  \/ Ended(r) /\ UNCHANGED <<run, ledger>>
        \/ /\ run[r].status \notin {"absent", "erased"}
           /\ run[r].status = "succeeded" => run[r].cancel
           /\ \E status \in {"failed", "cancelled"} : EndReleased(r, status)
        \/ run[r].status \in Active /\ ~run[r].cancel /\ EndCommitted(r)
        \/ /\ run[r].status \in Active /\ ~run[r].cancel /\ run[r].tries < MaxTries
           /\ call[c].phase = "retryable" /\ call'[c].result = "raise"
           /\ run' = [run EXCEPT ![r].status = "queued"] /\ UNCHANGED ledger

\* Every way of recording an outcome is one of the four, on a run that exists, by a
\* call that is then done with it.
LEMMA Outcomes ==
    ASSUME TypeOK, CallsRight, NEW c \in Calls, Records(c)
    PROVE  /\ call[c].run \in AllRuns
           /\ call[c].phase # "sync" => call[c].run \in Runs
           /\ call[c].phase # "idle" /\ \A d \in Calls \ {c} : call'[d] = call[d]
           /\ \/ call[c].phase = "sync" /\ call'[c] = Idle
              \/ /\ call[c].phase # "sync" /\ call'[c].phase = "return"
                 /\ call'[c].run = call[c].run
           /\ call' \in [Calls -> CallState] /\ Outcome(c)
<1> DEFINE r == call[c].run
<1>1. /\ call[c].phase \notin {"idle", "sync"} => r \in Runs
      /\ call[c].phase = "sync" => r \in SyncRuns /\ run[r].status \in {"running", "erased"}
  BY DEF CallsRight, CallRight
<1>2. call[c].phase \notin {"idle", "sync"} => run[r].status # "absent"
  BY DEF CallsRight, CallRight
<1>3. r \in AllRuns /\ (call[c].phase # "sync" => r \in Runs)
  BY <1>1 DEF AllRuns, Records, SettleExhausted, CancelClaimed, CommitResult, RecordError,
     FinishSync, FailSync
<1>4. run[r].status \in {"absent", "queued", "running", "erased"} \cup Terminal
  BY <1>3 DEF TypeOK, RunRow
<1>5. \A result \in {"done", "raise", "exhausted"} : Answer(c, result) =>
        /\ \A d \in Calls \ {c} : call'[d] = call[d]
        /\ call'[c].phase = "return" /\ call'[c].run = call[c].run /\ call'[c].result = result
        /\ call' \in [Calls -> CallState]
  BY Answered DEF TypeOK, Result
<1>6. CASE SettleExhausted(c)
  BY <1>2, <1>3, <1>4, <1>5, <1>6 DEF SettleExhausted, Outcome, Active, Ended
<1>7. CASE CancelClaimed(c)
  BY <1>2, <1>3, <1>5, <1>7 DEF CancelClaimed, Outcome, Ended, CallsRight, CallRight
<1>8. CASE CommitResult(c)
  BY <1>2, <1>3, <1>4, <1>5, <1>8 DEF CommitResult, Outcome, Active, Ended, Accepts, Terminal
<1>9. CASE RecordError(c)
  BY <1>2, <1>3, <1>4, <1>5, <1>9 DEF RecordError, Outcome, Active, Ended, Accepts,
     Terminal, TriesLeft
<1>10. CASE FinishSync(c)
  BY <1>1, <1>3, <1>10 DEF FinishSync, Outcome, Active, Accepts, Ended, TypeOK, CallState,
     Phase, Result, Idle
<1>11. CASE FailSync(c)
  BY <1>1, <1>3, <1>11 DEF FailSync, Outcome, Ended, TypeOK, CallState, Phase, Result, Idle
<1> QED BY <1>6, <1>7, <1>8, <1>9, <1>10, <1>11 DEF Records

-----------------------------------------------------------------------------
(* What no step does to a run. *)

\* How a row may change.
Moves(old, new) ==
    /\ old.status # "absent" => new.status # "absent"
    /\ old.status \in Terminal \cup {"erased"} => new.status \in Terminal \cup {"erased"}
    /\ old.status = "erased" => new.status = "erased"
    /\ old.status # "absent" /\ old.cancel => new.cancel \/ new.status = "erased"

\* No row is lost, reopened or uncancelled.
RunsMove == \A q \in AllRuns : Moves(run[q], run'[q])

\* Rows are not deleted except by erasure, an end is final and a request to cancel stays.
LEMMA RowMoves ==
    ASSUME TypeOK, CallsRight, [Next]_vars
    PROVE  RunsMove
<1> USE DEF RunsMove, Moves, TypeOK, LedgerType, RunRow, Terminal, Active, ledger, outbox
<1>1. ASSUME NEW r \in Runs, Create(r) PROVE RunsMove
  BY <1>1 DEF Create, Reserve, NoRow
<1>2. ASSUME NEW r \in Runs, Lapse(r) PROVE RunsMove
  BY <1>2 DEF Lapse, Fault
<1>3. ASSUME NEW r \in Runs, BecomesStale(r) PROVE RunsMove
  BY <1>3 DEF BecomesStale, Fault
<1>4. ASSUME NEW r \in AllRuns, Cancel(r) PROVE RunsMove
  BY ZenonT(60), <1>4 DEF Cancel, ReleasedAs, Releasable, GiveBackUnits
<1>5. CASE Erase
  BY <1>5 DEF Erase, NoRow
<1>6. ASSUME NEW c \in Calls, Records(c) PROVE RunsMove
  <2> DEFINE r == call[c].run
  <2>1. r \in AllRuns /\ Outcome(c)
    BY <1>6, Outcomes
  <2>2. CASE UNCHANGED <<run, ledger>>
    BY <2>2
  <2>3. ASSUME NEW status \in {"failed", "cancelled"}, EndReleased(r, status),
               run[r].status \notin {"absent", "erased"},
               run[r].status = "succeeded" => run[r].cancel
        PROVE  RunsMove
    BY <2>1, <2>3, ReleasedRow
  <2>4. CASE run[r].status \in Active /\ ~run[r].cancel /\ EndCommitted(r)
    BY <2>1, <2>4, CommittedRow
  <2>5. CASE /\ run[r].status \in Active
             /\ run' = [run EXCEPT ![r].status = "queued"] /\ UNCHANGED ledger
    BY <2>1, <2>5
  <2> QED BY <2>1, <2>2, <2>3, <2>4, <2>5 DEF Outcome
<1>7. ASSUME NEW c \in Calls, ClaimRun(c) PROVE RunsMove
  BY <1>7 DEF ClaimRun, Claimable, Step
<1>8. ASSUME NEW c \in Calls, AnswerStatus(c) PROVE RunsMove
  BY <1>8 DEF AnswerStatus, Answer, Busy
<1>9. ASSUME NEW c \in Calls, ReadRun(c) PROVE RunsMove
  BY <1>9 DEF ReadRun, Answer, Step
<1>10. ASSUME NEW c \in Calls, Execute(c) PROVE RunsMove
  BY <1>10 DEF Execute, Step
<1>11. ASSUME NEW c \in Calls, Return(c) PROVE RunsMove
  BY <1>11 DEF Return, Holds, Idle
<1>12. ASSUME NEW c \in Calls, Crash(c) PROVE RunsMove
  BY <1>12 DEF Crash, Fault, Idle
<1>13. ASSUME NEW c \in Calls, NEW r \in Runs, Deliver(c, r) PROVE RunsMove
  BY <1>13 DEF Deliver
<1>14. ASSUME NEW c \in Calls, NEW r \in SyncRuns, StartSync(c, r) PROVE RunsMove
  BY <1>14 DEF StartSync, Reserve, NoRow
<1>15. CASE UNCHANGED vars
  BY <1>15 DEF vars
<1> QED
  BY <1>1, <1>2, <1>3, <1>4, <1>5, <1>6, <1>7, <1>8, <1>9, <1>10, <1>11, <1>12, <1>13, <1>14,
     <1>15 DEF Next, CallStep, Records

\* Units never go below zero: what is taken was there.
LEMMA RowTypes ==
    ASSUME TypeOK, CallsRight, [Next]_vars
    PROVE  LedgerType'
<1> USE DEF TypeOK, LedgerType, RunRow, Terminal, Active, ledger, outbox
<1>1. ASSUME NEW r \in Runs, Create(r) PROVE LedgerType'
  BY <1>1, ReservedRow DEF Create, AllRuns
<1>2. ASSUME NEW r \in Runs, Lapse(r) PROVE LedgerType'
  BY <1>2 DEF Lapse, Fault
<1>3. ASSUME NEW r \in Runs, BecomesStale(r) PROVE LedgerType'
  BY ZenonT(60), <1>3 DEF BecomesStale, Fault
<1>4. ASSUME NEW r \in AllRuns, Cancel(r) PROVE LedgerType'
  BY <1>4, CancelledRow
<1>5. CASE Erase
  BY <1>5 DEF Erase, NoRow
<1>6. ASSUME NEW c \in Calls, Records(c) PROVE LedgerType'
  <2> DEFINE r == call[c].run
  <2>1. r \in AllRuns /\ Outcome(c)
    BY <1>6, Outcomes
  <2>2. CASE UNCHANGED <<run, ledger>>
    BY <2>2
  <2>3. ASSUME NEW status \in {"failed", "cancelled"}, EndReleased(r, status),
               run[r].status \notin {"absent", "erased"},
               run[r].status = "succeeded" => run[r].cancel
        PROVE  LedgerType'
    BY <2>1, <2>3, ReleasedRow
  <2>4. CASE run[r].status \in Active /\ ~run[r].cancel /\ EndCommitted(r)
    BY <2>1, <2>4, CommittedRow
  <2>5. CASE /\ run[r].status \in Active
             /\ run' = [run EXCEPT ![r].status = "queued"] /\ UNCHANGED ledger
    BY <2>1, <2>5
  <2> QED BY <2>1, <2>2, <2>3, <2>4, <2>5 DEF Outcome
<1>7. ASSUME NEW c \in Calls, ClaimRun(c) PROVE LedgerType'
  BY <1>7 DEF ClaimRun, Claimable, Step
<1>8. ASSUME NEW c \in Calls, AnswerStatus(c) PROVE LedgerType'
  BY <1>8 DEF AnswerStatus, Answer, Busy
<1>9. ASSUME NEW c \in Calls, ReadRun(c) PROVE LedgerType'
  BY <1>9 DEF ReadRun, Answer, Step
<1>10. ASSUME NEW c \in Calls, Execute(c) PROVE LedgerType'
  BY <1>10 DEF Execute, Step
<1>11. ASSUME NEW c \in Calls, Return(c) PROVE LedgerType'
  BY <1>11 DEF Return, Holds, Idle
<1>12. ASSUME NEW c \in Calls, Crash(c) PROVE LedgerType'
  BY <1>12 DEF Crash, Fault, Idle
<1>13. ASSUME NEW c \in Calls, NEW r \in Runs, Deliver(c, r) PROVE LedgerType'
  BY <1>13 DEF Deliver
<1>14. ASSUME NEW c \in Calls, NEW r \in SyncRuns, StartSync(c, r) PROVE LedgerType'
  BY <1>14, ReservedRow DEF StartSync, AllRuns
<1>15. CASE UNCHANGED vars
  BY <1>15 DEF vars
<1> QED
  BY <1>1, <1>2, <1>3, <1>4, <1>5, <1>6, <1>7, <1>8, <1>9, <1>10, <1>11, <1>12, <1>13, <1>14,
     <1>15 DEF Next, CallStep, Records

\* Each step settles the units of a run in the transaction that ends it.
LEMMA UsageStep ==
    ASSUME TypeOK, CallsRight, UsagesRight, [Next]_vars
    PROVE  UsagesRight'
<1> USE DEF UsagesRight, UsageRight, TypeOK, LedgerType, RunRow, Terminal, Active, ledger, outbox
<1>1. ASSUME NEW r \in Runs, Create(r) PROVE UsagesRight'
  <2>1. /\ r \in AllRuns /\ \A q \in AllRuns \ {r} : run'[q] = run[q]
        /\ run'[r].status \in {"queued", "running"} /\ ~run'[r].cancel
        /\ run'[r].usage \in {"reserved", "waived"}
    BY <1>1, ReservedRow DEF Create, AllRuns
  <2>2. UsageRight(run'[r])
    BY <2>1
  <2> HIDE DEF UsageRight
  <2> QED BY <2>1, <2>2
<1>2. ASSUME NEW r \in Runs, Lapse(r) PROVE UsagesRight'
  BY <1>2 DEF Lapse, Fault
<1>3. ASSUME NEW r \in Runs, BecomesStale(r) PROVE UsagesRight'
  BY <1>3 DEF BecomesStale, Fault
<1>4. ASSUME NEW r \in AllRuns, Cancel(r) PROVE UsagesRight'
  BY <1>4, CancelledRow
<1>5. CASE Erase
  BY <1>5 DEF Erase, NoRow
<1>6. ASSUME NEW c \in Calls, Records(c) PROVE UsagesRight'
  <2> DEFINE r == call[c].run
  <2>1. r \in AllRuns /\ Outcome(c)
    BY <1>6, Outcomes
  <2>2. CASE UNCHANGED <<run, ledger>>
    BY <2>2
  <2>3. ASSUME NEW status \in {"failed", "cancelled"}, EndReleased(r, status),
               run[r].status \notin {"absent", "erased"},
               run[r].status = "succeeded" => run[r].cancel
        PROVE  UsagesRight'
    BY <2>1, <2>3, ReleasedRow
  <2>4. CASE run[r].status \in Active /\ ~run[r].cancel /\ EndCommitted(r)
    BY <2>1, <2>4, CommittedRow
  <2>5. CASE /\ run[r].status \in Active
             /\ run' = [run EXCEPT ![r].status = "queued"] /\ UNCHANGED ledger
    BY <2>1, <2>5
  <2> QED BY <2>1, <2>2, <2>3, <2>4, <2>5 DEF Outcome
<1>7. ASSUME NEW c \in Calls, ClaimRun(c) PROVE UsagesRight'
  BY <1>7 DEF ClaimRun, Claimable, Step
<1>8. ASSUME NEW c \in Calls, AnswerStatus(c) PROVE UsagesRight'
  BY <1>8 DEF AnswerStatus, Answer, Busy
<1>9. ASSUME NEW c \in Calls, ReadRun(c) PROVE UsagesRight'
  BY <1>9 DEF ReadRun, Answer, Step
<1>10. ASSUME NEW c \in Calls, Execute(c) PROVE UsagesRight'
  BY <1>10 DEF Execute, Step
<1>11. ASSUME NEW c \in Calls, Return(c) PROVE UsagesRight'
  BY <1>11 DEF Return, Holds, Idle
<1>12. ASSUME NEW c \in Calls, Crash(c) PROVE UsagesRight'
  BY <1>12 DEF Crash, Fault, Idle
<1>13. ASSUME NEW c \in Calls, NEW r \in Runs, Deliver(c, r) PROVE UsagesRight'
  BY <1>13 DEF Deliver
<1>14. ASSUME NEW c \in Calls, NEW r \in SyncRuns, StartSync(c, r) PROVE UsagesRight'
  <2>1. /\ r \in AllRuns /\ \A q \in AllRuns \ {r} : run'[q] = run[q]
        /\ run'[r].status \in {"queued", "running"} /\ ~run'[r].cancel
        /\ run'[r].usage \in {"reserved", "waived"}
    BY <1>14, ReservedRow DEF StartSync, AllRuns
  <2>2. UsageRight(run'[r])
    BY <2>1
  <2> HIDE DEF UsageRight
  <2> QED BY <2>1, <2>2
<1>15. CASE UNCHANGED vars
  BY <1>15 DEF vars
<1> QED
  BY <1>1, <1>2, <1>3, <1>4, <1>5, <1>6, <1>7, <1>8, <1>9, <1>10, <1>11, <1>12, <1>13, <1>14,
     <1>15 DEF Next, CallStep, Records

-----------------------------------------------------------------------------
(* Calls. *)

\* While a synchronous operation is at work nobody else ends its run.
LEMMA SyncKept ==
    ASSUME TypeOK, CallsRight, [Next]_vars, NEW d \in Calls,
           call[d].phase = "sync", call'[d] = call[d]
    PROVE  run'[call[d].run].status \in {"running", "erased"}
<1> DEFINE s == call[d].run
<1>0. s \in SyncRuns /\ s \in AllRuns /\ s \notin Runs /\ run[s].status \in {"running", "erased"}
  BY ConstantsOK DEF CallsRight, CallRight, AllRuns
<1> HIDE DEF s
<1> DEFINE Open == run'[s].status \in {"running", "erased"}
<1> SUFFICES Open
  BY DEF s
<1> USE <1>0 DEF TypeOK, LedgerType, RunRow, AllRuns
<1>1. ASSUME NEW r \in Runs, Create(r) PROVE Open
  BY SMTT(30), <1>1, ReservedRow DEF Create
<1>2. ASSUME NEW r \in Runs, Lapse(r) PROVE Open
  BY <1>2 DEF Lapse, Fault
<1>3. ASSUME NEW r \in Runs, BecomesStale(r) PROVE Open
  BY <1>3 DEF BecomesStale, Fault
<1>4. ASSUME NEW r \in AllRuns, Cancel(r) PROVE Open
  BY <1>4, CancelledRow
<1>5. CASE Erase
  BY <1>5 DEF Erase, NoRow
<1>6. ASSUME NEW c \in Calls, Records(c) PROVE Open
  <2> DEFINE r == call[c].run
  <2>1. r \in AllRuns /\ Outcome(c) /\ (call[c].phase # "sync" => r \in Runs)
    BY <1>6, Outcomes
  <2>2. c # d /\ r # s
    BY <1>6, <2>1, Outcomes DEF CallsRight, SyncAlone, s, Idle
  <2>3. ASSUME NEW status \in Terminal, EndReleased(r, status) PROVE run'[s] = run[s]
    BY <2>1, <2>2, <2>3, ReleasedRow
  <2>4. EndCommitted(r) => run'[s] = run[s]
    BY <2>1, <2>2, CommittedRow
  <2>5. run'[s] = run[s]
    BY <2>1, <2>2, <2>3, <2>4 DEF Outcome, Terminal
  <2> QED BY <2>5
<1>7. ASSUME NEW c \in Calls, ClaimRun(c) PROVE Open
  BY <1>7 DEF ClaimRun, Claimable, Step
<1>8. ASSUME NEW c \in Calls, AnswerStatus(c) PROVE Open
  BY <1>8 DEF AnswerStatus, Answer, Busy
<1>9. ASSUME NEW c \in Calls, ReadRun(c) PROVE Open
  BY <1>9 DEF ReadRun, Answer, Step
<1>10. ASSUME NEW c \in Calls, Execute(c) PROVE Open
  BY <1>10 DEF Execute, Step
<1>11. ASSUME NEW c \in Calls, Return(c) PROVE Open
  BY <1>11 DEF Return, Holds, Idle
<1>12. ASSUME NEW c \in Calls, Crash(c) PROVE Open
  BY <1>12 DEF Crash, Fault, Idle
<1>13. ASSUME NEW c \in Calls, NEW r \in Runs, Deliver(c, r) PROVE Open
  BY <1>13 DEF Deliver
<1>14. ASSUME NEW c \in Calls, NEW r \in SyncRuns, StartSync(c, r) PROVE Open
  BY <1>14, ReservedRow DEF StartSync
<1>15. CASE UNCHANGED vars
  BY <1>15 DEF vars
<1> QED
  BY <1>1, <1>2, <1>3, <1>4, <1>5, <1>6, <1>7, <1>8, <1>9, <1>10, <1>11, <1>12, <1>13, <1>14,
     <1>15 DEF Next, CallStep, Records

\* Only StartSync begins a synchronous operation.
LEMMA NothingElseSyncs ==
    ASSUME TypeOK, CallsRight, [Next]_vars, ~\E c \in Calls, r \in SyncRuns : StartSync(c, r),
           NEW e \in Calls, call'[e].phase = "sync"
    PROVE  call'[e] = call[e]
<1> USE DEF TypeOK
<1>1. ASSUME NEW r \in Runs, Create(r) PROVE call'[e] = call[e]
  BY <1>1 DEF Create, Reserve, NoRow
<1>2. ASSUME NEW r \in Runs, Lapse(r) PROVE call'[e] = call[e]
  BY <1>2 DEF Lapse, Fault
<1>3. ASSUME NEW r \in Runs, BecomesStale(r) PROVE call'[e] = call[e]
  BY <1>3 DEF BecomesStale, Fault
<1>4. ASSUME NEW r \in AllRuns, Cancel(r) PROVE call'[e] = call[e]
  BY <1>4 DEF Cancel, ReleasedAs, Releasable, GiveBackUnits
<1>5. CASE Erase
  BY <1>5 DEF Erase, NoRow
<1>6. ASSUME NEW c \in Calls, Records(c) PROVE call'[e] = call[e]
  BY <1>6, Outcomes DEF Idle
<1>7. ASSUME NEW c \in Calls, ClaimRun(c) PROVE call'[e] = call[e]
  BY <1>7, Stepped DEF ClaimRun, Phase
<1>8. ASSUME NEW c \in Calls, AnswerStatus(c) PROVE call'[e] = call[e]
  BY <1>8, Answered DEF AnswerStatus, Result
<1>9. ASSUME NEW c \in Calls, ReadRun(c) PROVE call'[e] = call[e]
  BY <1>9, Stepped, Answered DEF ReadRun, Phase, Result
<1>10. ASSUME NEW c \in Calls, Execute(c) PROVE call'[e] = call[e]
  BY <1>10, Stepped DEF Execute, Phase
<1>11. ASSUME NEW c \in Calls, Return(c) PROVE call'[e] = call[e]
  BY <1>11 DEF Return, Holds, Idle
<1>12. ASSUME NEW c \in Calls, Crash(c) PROVE call'[e] = call[e]
  BY <1>12 DEF Crash, Fault, Idle
<1>13. ASSUME NEW c \in Calls, NEW r \in Runs, Deliver(c, r) PROVE call'[e] = call[e]
  BY <1>13 DEF Deliver
<1>14. ASSUME NEW c \in Calls, NEW r \in SyncRuns, StartSync(c, r) PROVE call'[e] = call[e]
  BY <1>14
<1>15. CASE UNCHANGED vars
  BY <1>15 DEF vars
<1> QED
  BY <1>1, <1>2, <1>3, <1>4, <1>5, <1>6, <1>7, <1>8, <1>9, <1>10, <1>11, <1>12, <1>13, <1>14,
     <1>15 DEF Next, CallStep, Records

\* Every call stands still or is right after the step.
CallsGoOn == \A k \in Calls : call'[k] = call[k] \/ CallRight(k)'

\* What calls know of their runs stays true while others write the rows.
LEMMA CallsStep ==
    ASSUME TypeOK, RowsRight, CallsRight, [Next]_vars
    PROVE  CallsRight'
<1>0. \A k \in Calls : call'[k] = call[k] => CallRight(k)'
  <2> SUFFICES ASSUME NEW k \in Calls, call'[k] = call[k] PROVE CallRight(k)'
    OBVIOUS
  <2>1. call[k].run \in AllRuns => Moves(run[call[k].run], run'[call[k].run])
    BY RowMoves DEF RunsMove
  <2>2. call[k].phase = "sync" => run'[call[k].run].status \in {"running", "erased"}
    BY SyncKept
  <2> QED BY <2>1, <2>2 DEF CallsRight, CallRight, Moves, AllRuns, Ended
<1> USE DEF CallsGoOn, TypeOK, LedgerType
<1>1. ASSUME NEW r \in Runs, Create(r) PROVE CallsGoOn
  BY <1>1 DEF Create, Reserve, NoRow
<1>2. ASSUME NEW r \in Runs, Lapse(r) PROVE CallsGoOn
  BY <1>2 DEF Lapse, Fault
<1>3. ASSUME NEW r \in Runs, BecomesStale(r) PROVE CallsGoOn
  BY <1>3 DEF BecomesStale, Fault
<1>4. ASSUME NEW r \in AllRuns, Cancel(r) PROVE CallsGoOn
  BY <1>4 DEF Cancel, ReleasedAs, Releasable, GiveBackUnits
<1>5. ASSUME Erase PROVE CallsGoOn
  BY <1>5 DEF Erase
<1>6. ASSUME NEW c \in Calls, Records(c) PROVE CallsGoOn
  <2> DEFINE r == call[c].run
  <2>1. /\ r \in AllRuns /\ Outcome(c)
        /\ call[c].phase # "idle" /\ (call[c].phase # "sync" => r \in Runs)
    BY <1>6, Outcomes
  <2>2. /\ \A d \in Calls \ {c} : call'[d] = call[d]
        /\ \/ call[c].phase = "sync" /\ call'[c] = Idle
           \/ /\ call[c].phase # "sync" /\ call'[c].phase = "return"
              /\ call'[c].run = r
    BY <1>6, Outcomes
  <2>3. Moves(run[r], run'[r])
    BY <2>1, RowMoves DEF RunsMove
  <2>4. call[c].phase # "sync" => run[r].status # "absent"
    BY <2>1 DEF CallsRight, CallRight
  <2>5. run'[r].status \in Terminal \cup {"erased"} \/ call'[c].result = "raise"
    <3>1. ASSUME NEW status \in {"failed", "cancelled"}, EndReleased(r, status)
          PROVE  run'[r].status \in Terminal \cup {"erased"}
      BY <2>1, <3>1, ReleasedRow DEF Ended, Terminal
    <3>2. EndCommitted(r) => run'[r].status \in Terminal \cup {"erased"}
      BY <2>1, CommittedRow DEF Ended, Terminal
    <3>3. Ended(r) => run'[r].status \in Terminal \cup {"erased"}
      BY <2>3 DEF Moves, Ended
    <3> QED BY <2>1, <3>1, <3>2, <3>3 DEF Outcome
  <2> QED BY <2>1, <2>2, <2>3, <2>4, <2>5 DEF CallRight, Idle, Moves, Ended
<1>7. ASSUME NEW c \in Calls, ClaimRun(c) PROVE CallsGoOn
  <2>1. Step(c, "read") \/ Step(c, "missed")
    BY <1>7 DEF ClaimRun
  <2>2. /\ \A d \in Calls \ {c} : call'[d] = call[d]
        /\ call'[c].phase \in {"read", "missed"} /\ call'[c].run = call[c].run
    BY <2>1, Stepped DEF Phase
  <2>3. call[c].run \in Runs /\ run[call[c].run].status # "absent"
    BY <1>7 DEF ClaimRun, CallsRight, CallRight
  <2> QED BY <2>2, <2>3, RowMoves DEF RunsMove, CallRight, Moves, AllRuns
<1>8. ASSUME NEW c \in Calls, AnswerStatus(c) PROVE CallsGoOn
  <2>1. PICK result \in Result : /\ Answer(c, result) /\ result # "exhausted"
                                 /\ result = "done" => ~Busy(run[call[c].run].status)
    BY <1>8 DEF AnswerStatus, Result
  <2>2. call[c].run \in Runs /\ run[call[c].run].status # "absent"
    BY <1>8 DEF AnswerStatus, CallsRight, CallRight
  <2>3. result = "done" => Ended(call[c].run)
    BY <2>1, <2>2 DEF Busy, Active, Ended, RunRow, AllRuns
  <2>4. UNCHANGED run
    BY <1>8 DEF AnswerStatus
  <2> QED BY <2>1, <2>2, <2>3, <2>4, Answered DEF CallRight, Ended
<1>9. ASSUME NEW c \in Calls, ReadRun(c) PROVE CallsGoOn
  <2>1. call[c].run \in Runs /\ run[call[c].run].status # "absent" /\ UNCHANGED run
    BY <1>9 DEF ReadRun, CallsRight, CallRight
  <2>2. CASE Answer(c, "done") /\ run[call[c].run].status = "erased"
    BY <2>1, <2>2, Answered DEF CallRight, Ended, Result
  <2>3. CASE Step(c, "cancel") /\ run[call[c].run].cancel
    BY <2>1, <2>3, Stepped DEF CallRight, Phase
  <2>4. CASE Step(c, "execute")
    BY <2>1, <2>4, Stepped DEF CallRight, Phase
  <2> QED BY <1>9, <2>2, <2>3, <2>4 DEF ReadRun
<1>10. ASSUME NEW c \in Calls, Execute(c) PROVE CallsGoOn
  <2>1. call[c].run \in Runs /\ run[call[c].run].status # "absent" /\ UNCHANGED run
    BY <1>10 DEF Execute, CallsRight, CallRight
  <2>2. PICK phase \in {"commit", "retryable", "fatal"} : Step(c, phase)
    BY <1>10 DEF Execute
  <2> QED BY <2>1, <2>2, Stepped DEF CallRight, Phase
<1>11. ASSUME NEW c \in Calls, Return(c) PROVE CallsGoOn
  BY <1>11 DEF Return, CallRight, Idle
<1>12. ASSUME NEW c \in Calls, Crash(c) PROVE CallsGoOn
  BY <1>12 DEF Crash, CallRight, Idle
<1>13. ASSUME NEW c \in Calls, NEW r \in Runs, Deliver(c, r) PROVE CallsGoOn
  BY <1>13 DEF Deliver, CallRight, RowsRight
<1>14. ASSUME NEW c \in Calls, NEW r \in SyncRuns, StartSync(c, r) PROVE CallsGoOn
  <2>1. r \in AllRuns /\ run'[r].status = "running"
    BY <1>14, ReservedRow DEF StartSync, AllRuns
  <2> QED BY <1>14, <2>1 DEF StartSync, CallRight
<1>15. ASSUME UNCHANGED vars PROVE CallsGoOn
  BY <1>15 DEF vars
<1> HIDE DEF CallsGoOn, TypeOK, LedgerType
<1>16. CallsGoOn
  BY <1>1, <1>2, <1>3, <1>4, <1>5, <1>6, <1>7, <1>8, <1>9, <1>10, <1>11, <1>12, <1>13, <1>14,
     <1>15 DEF Next, CallStep, Records
<1>17. SyncAlone'
  <2> SUFFICES ASSUME NEW k \in Calls, NEW d \in Calls, k # d, call'[k].phase = "sync",
                      call'[d].phase = "sync", call'[k].run = call'[d].run
               PROVE  FALSE
    BY DEF SyncAlone
  <2>1. CASE \E c \in Calls, r \in SyncRuns : StartSync(c, r)
    <3>1. PICK c \in Calls, r \in SyncRuns : StartSync(c, r)
      BY <2>1
    <3>2. \A e \in Calls : call[e].phase = "sync" => call[e].run # r
      BY <3>1 DEF StartSync, CallsRight, CallRight
    <3> QED BY <3>1, <3>2 DEF StartSync, CallsRight, SyncAlone
  <2>2. CASE ~\E c \in Calls, r \in SyncRuns : StartSync(c, r)
    <3>1. \A e \in Calls : call'[e].phase = "sync" => call'[e] = call[e]
      BY <2>2, NothingElseSyncs
    <3> QED BY <3>1 DEF CallsRight, SyncAlone
  <2> QED BY <2>1, <2>2
<1> QED BY <1>0, <1>16, <1>17 DEF CallsRight, CallsGoOn

-----------------------------------------------------------------------------
(* Events, tries and the types. *)

\* Runs and their events stay in step.
LEMMA RowsStep ==
    ASSUME TypeOK, RowsRight, CallsRight, [Next]_vars
    PROVE  RowsRight'
<1> USE DEF RowsRight, TypeOK, LedgerType, RunRow, Active, AllRuns, outbox, ledger
<1>1. ASSUME NEW r \in Runs, Create(r) PROVE RowsRight'
  <2>1. /\ \A q \in AllRuns \ {r} : run'[q] = run[q]
        /\ run'[r].status = "queued" /\ run[r].status = "absent"
    BY <1>1, ReservedRow DEF Create
  <2>2. UNCHANGED <<holder, execs>> /\ intent' = [intent EXCEPT ![r] = "open"]
    BY <1>1 DEF Create
  <2> QED BY <2>1, <2>2
<1>2. ASSUME NEW r \in Runs, Lapse(r) PROVE RowsRight'
  BY <1>2 DEF Lapse, Fault
<1>3. ASSUME NEW r \in Runs, BecomesStale(r) PROVE RowsRight'
  BY <1>3 DEF BecomesStale, Fault
<1>4. ASSUME NEW r \in AllRuns, Cancel(r) PROVE RowsRight'
  <2>1. /\ \A q \in AllRuns \ {r} : run'[q] = run[q]
        /\ run[r].status # "absent" /\ run'[r].status # "absent"
    BY <1>4, CancelledRow DEF Cancel
  <2> QED BY <1>4, <2>1 DEF Cancel
<1>5. CASE Erase
  BY <1>5 DEF Erase, NoRow
<1>6. ASSUME NEW c \in Calls, Records(c) PROVE RowsRight'
  <2> DEFINE r == call[c].run
  <2>1. /\ r \in AllRuns /\ Outcome(c) /\ run[r].status # "absent"
    BY <1>6, Outcomes DEF CallsRight, CallRight
  <2>2. UNCHANGED outbox
    BY <1>6 DEF Records, SettleExhausted, CancelClaimed, CommitResult, RecordError,
     FinishSync, FailSync
  <2>3. \A q \in AllRuns \ {r} : run'[q] = run[q]
    <3>1. ASSUME NEW status \in Terminal, EndReleased(r, status)
          PROVE  \A q \in AllRuns \ {r} : run'[q] = run[q]
      BY <2>1, <3>1, ReleasedRow
    <3>2. EndCommitted(r) => \A q \in AllRuns \ {r} : run'[q] = run[q]
      BY <2>1, CommittedRow
    <3> QED BY <2>1, <3>1, <3>2 DEF Outcome, Terminal
  <2>4. run'[r].status # "absent"
    BY <2>1, RowMoves DEF RunsMove, Moves
  <2> QED BY <2>1, <2>2, <2>3, <2>4
<1>7. ASSUME NEW c \in Calls, ClaimRun(c) PROVE RowsRight'
  <2>1. CASE UNCHANGED run
    BY <1>7, <2>1 DEF ClaimRun
  <2>2. CASE run[call[c].run].status \in Active
    <3>1. \A q \in AllRuns : run[q].status = "absent" => run'[q] = run[q]
      BY <1>7, <2>2 DEF ClaimRun
    <3>2. \A q \in AllRuns : run[q].status # "absent" => run'[q].status # "absent"
      BY RowMoves DEF RunsMove, Moves
    <3> QED BY <1>7, <3>1, <3>2 DEF ClaimRun
  <2> QED BY <1>7, <2>1, <2>2 DEF ClaimRun, Claimable
<1>8. ASSUME NEW c \in Calls, AnswerStatus(c) PROVE RowsRight'
  BY <1>8 DEF AnswerStatus, Answer, Busy
<1>9. ASSUME NEW c \in Calls, ReadRun(c) PROVE RowsRight'
  BY <1>9 DEF ReadRun, Answer, Step
<1>10. ASSUME NEW c \in Calls, Execute(c) PROVE RowsRight'
  BY <1>10 DEF Execute, Step
<1>11. ASSUME NEW c \in Calls, Return(c) PROVE RowsRight'
  BY <1>11 DEF Return, Holds, Idle
<1>12. ASSUME NEW c \in Calls, Crash(c) PROVE RowsRight'
  BY <1>12 DEF Crash, Fault, Idle
<1>13. ASSUME NEW c \in Calls, NEW r \in Runs, Deliver(c, r) PROVE RowsRight'
  BY <1>13 DEF Deliver
<1>14. ASSUME NEW c \in Calls, NEW r \in SyncRuns, StartSync(c, r) PROVE RowsRight'
  <2>1. /\ \A q \in AllRuns \ {r} : run'[q] = run[q]
        /\ run'[r].status = "running" /\ r \notin Runs
    BY <1>14, ConstantsOK, ReservedRow DEF StartSync
  <2> QED BY <1>14, <2>1 DEF StartSync
<1>15. CASE UNCHANGED vars
  BY <1>15 DEF vars
<1> QED
  BY <1>1, <1>2, <1>3, <1>4, <1>5, <1>6, <1>7, <1>8, <1>9, <1>10, <1>11, <1>12, <1>13, <1>14,
     <1>15 DEF Next, CallStep, Records

\* TriesCounted after a step, of one run.
TriesOf(q) == run'[q].status # "erased" =>
                  requeues'[q] + Cardinality(InFlight(q)') <= run'[q].tries

\* The calls in flight can be counted.
LEMMA Finite ==
    \A r : IsFiniteSet(InFlight(r)) /\ Cardinality(InFlight(r)) \in Nat
BY ConstantsOK, FS_Subset, FS_CardinalityType DEF InFlight

\* No call comes to a run.
LEMMA TriesKept ==
    ASSUME TypeOK, TriesCounted, NEW q \in Runs, InFlight(q)' \subseteq InFlight(q),
           requeues' = requeues, run[q].status = "erased" => run'[q].status = "erased",
           run'[q].status # "erased" => run'[q].tries >= run[q].tries, LedgerType'
    PROVE  TriesOf(q)
<1>1. Cardinality(InFlight(q)') <= Cardinality(InFlight(q)) /\ Cardinality(InFlight(q)') \in Nat
  BY Finite, FS_Subset, FS_CardinalityType
<1>2. requeues[q] \in Nat /\ run[q].tries \in Nat /\ run'[q].tries \in Nat
  BY DEF TypeOK, LedgerType, RunRow, AllRuns
<1> QED BY <1>1, <1>2, Finite DEF TriesOf, TriesCounted

\* A claim uses a try and puts one call in flight; a return to the queue ends one.
LEMMA TriesStep ==
    ASSUME TypeOK, RowsRight, CallsRight, TriesCounted, [Next]_vars, NEW q \in Runs
    PROVE  TriesOf(q)
<1>0. /\ LedgerType' /\ q \in AllRuns
      /\ run[q].status = "erased" => run'[q].status = "erased"
  BY RowTypes, RowMoves DEF RunsMove, Moves, AllRuns
<1> DEFINE Tried == run'[q].status # "erased" => run'[q].tries >= run[q].tries
<1>a. /\ run[q].tries \in Nat /\ run'[q].tries \in Nat
      /\ TypeOK => call \in [Calls -> CallState] /\ run \in [AllRuns -> RunRow]
  BY <1>0 DEF TypeOK, LedgerType, RunRow
<1>b. InFlight(q)' \subseteq InFlight(q) /\ requeues' = requeues /\ Tried => TriesOf(q)
  BY <1>0, TriesKept
<1> HIDE DEF Tried
<1>1. ASSUME NEW r \in Runs, Create(r) PROVE TriesOf(q)
  <2>1. InFlight(q)' \subseteq InFlight(q)
    BY <1>1 DEF Create, InFlight
  <2>2. run[r].status = "absent" /\ run[r].tries = 0 /\ r \in AllRuns /\ requeues' = requeues
    BY <1>1 DEF Create, RowsRight, AllRuns
  <2>3. run'[q].tries >= run[q].tries
    BY <1>1, <1>a, <1>0, <2>2, ReservedRow DEF Create, TypeOK, LedgerType
  <2> QED BY <2>1, <2>2, <2>3, <1>b DEF Tried
<1>2. ASSUME NEW r \in Runs, Lapse(r) PROVE TriesOf(q)
  <2>1. InFlight(q)' \subseteq InFlight(q)
    BY <1>2 DEF Lapse, InFlight
  <2>2. Tried /\ requeues' = requeues
    BY <1>2, <1>a DEF Lapse, Tried
  <2> QED BY <2>1, <2>2, <1>b
<1>3. ASSUME NEW r \in Runs, BecomesStale(r) PROVE TriesOf(q)
  <2>1. InFlight(q)' \subseteq InFlight(q)
    BY <1>3 DEF BecomesStale, InFlight
  <2>2. Tried /\ requeues' = requeues
    BY <1>3, <1>a DEF BecomesStale, Tried, TypeOK, RunRow, AllRuns
  <2> QED BY <2>1, <2>2, <1>b
<1>4. ASSUME NEW r \in AllRuns, Cancel(r) PROVE TriesOf(q)
  <2>1. InFlight(q)' \subseteq InFlight(q)
    BY <1>4 DEF Cancel, InFlight
  <2>2. Tried /\ requeues' = requeues
    BY <1>4, <1>a, <1>0, CancelledRow DEF Cancel, Tried, TypeOK, LedgerType
  <2> QED BY <2>1, <2>2, <1>b
<1>5. CASE Erase
  <2>1. InFlight(q)' \subseteq InFlight(q)
    BY <1>5 DEF Erase, InFlight
  <2>2. Tried /\ requeues' = requeues
    BY <1>5, <1>a, <1>0 DEF Erase, NoRow, Tried
  <2> QED BY <2>1, <2>2, <1>b
<1>6. ASSUME NEW c \in Calls, Records(c) PROVE TriesOf(q)
  <2> DEFINE r == call[c].run
  <2>1. /\ r \in AllRuns /\ Outcome(c) /\ c \notin InFlight(q)'
        /\ \A d \in Calls \ {c} : call'[d] = call[d]
    BY <1>6, Outcomes DEF InFlight, Live, Idle
  <2>2. InFlight(q)' \subseteq InFlight(q)
    BY <2>1 DEF InFlight
  <2>3. CASE requeues' = requeues
    <3>1. Tried
      <4>1. ASSUME NEW status \in Terminal, EndReleased(r, status) PROVE Tried
        BY <1>a, <1>0, <2>1, <4>1, ReleasedRow DEF Tried, TypeOK, LedgerType
      <4>2. EndCommitted(r) => Tried
        BY <1>a, <1>0, <2>1, CommittedRow DEF Tried, TypeOK, LedgerType
      <4>3. UNCHANGED run => Tried
        BY <1>a DEF Tried
      <4>4. run' = [run EXCEPT ![r].status = "queued"] => Tried
        BY <1>a, <1>0 DEF Tried, TypeOK, RunRow
      <4> QED BY <2>1, <4>1, <4>2, <4>3, <4>4 DEF Outcome, Terminal
    <3> QED BY <2>2, <2>3, <3>1, <1>b
  <2>4. CASE requeues' # requeues
    <3>1. /\ r \in Runs /\ requeues' = [requeues EXCEPT ![r] = @ + 1] /\ run[r].status # "erased"
          /\ UNCHANGED ledger /\ run' = [run EXCEPT ![r].status = "queued"] /\ c \in InFlight(r)
      BY <1>6, <2>1, <2>4, Outcomes
         DEF Records, SettleExhausted, CancelClaimed, CommitResult, RecordError, FinishSync,
             FailSync, InFlight, Live, Ended
    <3>2. CASE q = r
      <4>1. InFlight(q)' = InFlight(q) \ {c}
        BY <2>1, <3>2 DEF InFlight
      <4>2. Cardinality(InFlight(q)') = Cardinality(InFlight(q)) - 1
        BY <3>1, <3>2, <4>1, Finite, FS_RemoveElement
      <4>3. requeues[q] \in Nat /\ requeues'[q] = requeues[q] + 1 /\ run'[q].tries = run[q].tries
        BY <3>1, <3>2, <1>0 DEF TypeOK, RunRow
      <4> QED BY <4>2, <4>3, <3>1, <3>2, <1>a, Finite DEF TriesOf, TriesCounted
    <3>3. CASE q # r
      <4>1. requeues'[q] = requeues[q] /\ run'[q] = run[q]
        BY <3>1, <3>3, <1>0 DEF TypeOK
      <4>2. /\ Cardinality(InFlight(q)') <= Cardinality(InFlight(q))
            /\ Cardinality(InFlight(q)') \in Nat
        BY <2>2, Finite, FS_Subset, FS_CardinalityType
      <4> QED BY <4>1, <4>2, <1>a, Finite DEF TriesOf, TriesCounted, TypeOK
    <3> QED BY <3>2, <3>3
  <2> QED BY <2>3, <2>4
<1>7. ASSUME NEW c \in Calls, ClaimRun(c) PROVE TriesOf(q)
  <2> DEFINE r == call[c].run
  <2>1. CASE ~Claimable(run[r])
    <3>1. Step(c, "missed") /\ UNCHANGED <<run, requeues>>
      BY <1>7, <2>1 DEF ClaimRun
    <3>2. InFlight(q)' \subseteq InFlight(q)
      BY <3>1, <1>a, Stepped DEF InFlight, Live, Phase
    <3> QED BY <3>1, <3>2, <1>a, <1>b DEF Tried
  <2>2. CASE Claimable(run[r])
    <3>1. /\ run' = [run EXCEPT ![r].status = "running", ![r].stale = FALSE, ![r].tries = @ + 1]
          /\ Step(c, "read") /\ c \notin InFlight(q)
          /\ requeues' = requeues /\ run[r].status # "erased"
      BY <1>7, <2>2 DEF ClaimRun, InFlight, Live, Claimable
    <3>2. \A d \in Calls \ {c} : call'[d] = call[d]
      BY <3>1, <1>a, Stepped DEF Phase
    <3>3. call'[c].run = r
      BY <3>1, <1>a, Stepped DEF Phase
    <3>4. CASE q = r
      <4>1. InFlight(q)' \subseteq InFlight(q) \cup {c}
        BY <3>2 DEF InFlight
      <4>2. /\ Cardinality(InFlight(q) \cup {c}) = Cardinality(InFlight(q)) + 1
            /\ IsFiniteSet(InFlight(q) \cup {c})
        BY <3>1, Finite, FS_AddElement
      <4>3. /\ Cardinality(InFlight(q)') <= Cardinality(InFlight(q)) + 1
            /\ Cardinality(InFlight(q)') \in Nat
        BY <4>1, <4>2, FS_Subset, FS_CardinalityType
      <4>4. run'[q].tries = run[q].tries + 1
        BY <3>1, <3>4, <1>0 DEF TypeOK, RunRow
      <4>5. requeues[q] \in Nat
        BY DEF TypeOK
      <4> QED BY <3>1, <3>4, <4>3, <4>4, <4>5, <1>a, Finite DEF TriesOf, TriesCounted
    <3>5. CASE q # r
      <4>1. InFlight(q)' \subseteq InFlight(q) /\ run'[q] = run[q]
        BY <3>1, <3>2, <3>3, <3>5, <1>0 DEF InFlight, TypeOK
      <4> QED BY <3>1, <4>1, <1>a, <1>b DEF Tried
    <3> QED BY <3>4, <3>5
  <2> QED BY <2>1, <2>2
<1>8. ASSUME NEW c \in Calls, AnswerStatus(c) PROVE TriesOf(q)
  <2>1. InFlight(q)' \subseteq InFlight(q)
    BY <1>8, <1>a, Answered DEF AnswerStatus, InFlight, Live, Result
  <2>2. Tried /\ requeues' = requeues
    BY <1>8, <1>a DEF AnswerStatus, Tried
  <2> QED BY <2>1, <2>2, <1>b
<1>9. ASSUME NEW c \in Calls, ReadRun(c) PROVE TriesOf(q)
  <2>1. InFlight(q)' \subseteq InFlight(q)
    BY <1>9, <1>a, Answered, Stepped DEF ReadRun, InFlight, Live, Result, Phase
  <2>2. Tried /\ requeues' = requeues
    BY <1>9, <1>a DEF ReadRun, Tried
  <2> QED BY <2>1, <2>2, <1>b
<1>10. ASSUME NEW c \in Calls, Execute(c) PROVE TriesOf(q)
  <2>1. InFlight(q)' \subseteq InFlight(q)
    BY <1>10, <1>a, Stepped DEF Execute, InFlight, Live, Phase
  <2>2. Tried /\ requeues' = requeues
    BY <1>10, <1>a DEF Execute, Tried
  <2> QED BY <2>1, <2>2, <1>b
<1>11. ASSUME NEW c \in Calls, Return(c) PROVE TriesOf(q)
  <2>1. InFlight(q)' \subseteq InFlight(q)
    BY <1>11 DEF Return, InFlight, Idle, Live, TypeOK
  <2>2. Tried /\ requeues' = requeues
    BY <1>11, <1>a DEF Return, Tried
  <2> QED BY <2>1, <2>2, <1>b
<1>12. ASSUME NEW c \in Calls, Crash(c) PROVE TriesOf(q)
  <2>1. InFlight(q)' \subseteq InFlight(q)
    BY <1>12 DEF Crash, InFlight, Idle, Live, TypeOK
  <2>2. Tried /\ requeues' = requeues
    BY <1>12, <1>a DEF Crash, Tried
  <2> QED BY <2>1, <2>2, <1>b
<1>13. ASSUME NEW c \in Calls, NEW r \in Runs, Deliver(c, r) PROVE TriesOf(q)
  <2>1. InFlight(q)' \subseteq InFlight(q)
    BY <1>13 DEF Deliver, InFlight, Idle, Live, TypeOK
  <2>2. Tried /\ requeues' = requeues
    BY <1>13, <1>a DEF Deliver, Tried
  <2> QED BY <2>1, <2>2, <1>b
<1>14. ASSUME NEW c \in Calls, NEW r \in SyncRuns, StartSync(c, r) PROVE TriesOf(q)
  <2>1. InFlight(q)' \subseteq InFlight(q) /\ requeues' = requeues
    BY <1>14 DEF StartSync, InFlight, Live, TypeOK
  <2>2. run'[q] = run[q]
    BY <1>14, <1>0, ConstantsOK, ReservedRow DEF StartSync, TypeOK, LedgerType, AllRuns
  <2> QED BY <2>1, <2>2, <1>a, <1>b DEF Tried
<1>15. CASE UNCHANGED vars
  BY <1>15, <1>a, <1>b DEF vars, InFlight, Tried
<1> QED
  BY <1>1, <1>2, <1>3, <1>4, <1>5, <1>6, <1>7, <1>8, <1>9, <1>10, <1>11, <1>12, <1>13, <1>14,
     <1>15 DEF Next, CallStep, Records

\* Only a recorded failure queues a run again.
LEMMA OnlyErrorsRequeue ==
    ASSUME [Next]_vars, requeues' # requeues
    PROVE  \E c \in Calls : RecordError(c)
BY DEF Next, vars, CallStep, Create, Lapse, BecomesStale, Cancel, Erase, SettleExhausted, ClaimRun,
       AnswerStatus, ReadRun, CancelClaimed, Execute, CommitResult, Return, FinishSync, FailSync,
       Crash, Deliver, StartSync

\* The types, and with them the bound on retries: a call that queues a run again was
\* in flight, so the returns before it are fewer than the tries used.
LEMMA TypeStep ==
    ASSUME TypeOK, RowsRight, CallsRight, TriesCounted, [Next]_vars
    PROVE  TypeOK'
<1> DEFINE OutboxType == /\ intent \in [Runs -> {"none", "open", "held", "closed"}]
                         /\ holder \in [Runs -> Calls \cup {Nobody}] /\ execs \in [Runs -> Nat]
           OtherType == owner \in BOOLEAN /\ call \in [Calls -> CallState] /\ faults \in Nat
<1>a. LedgerType'
  BY RowTypes
<1>b. requeues' \in [Runs -> 0 .. MaxTries - 1]
  <2>1. CASE requeues' = requeues
    BY <2>1 DEF TypeOK
  <2>2. CASE requeues' # requeues
    <3>1. PICK c \in Calls : RecordError(c) /\ requeues' # requeues
      BY <2>2, OnlyErrorsRequeue
    <3> DEFINE r == call[c].run
    <3>2. /\ r \in Runs /\ requeues' = [requeues EXCEPT ![r] = @ + 1]
          /\ run[r].tries < MaxTries /\ run[r].status # "erased" /\ c \in InFlight(r)
      BY <3>1, Outcomes DEF Records, RecordError, TriesLeft, Ended, InFlight, Live
    <3>3. Cardinality(InFlight(r)) # 0
      BY <3>2, Finite, FS_EmptySet
    <3>4. /\ requeues[r] \in Nat /\ run[r].tries \in Nat
          /\ requeues[r] + Cardinality(InFlight(r)) <= run[r].tries
      BY <3>2 DEF TypeOK, TriesCounted, RunRow, AllRuns
    <3>5. requeues[r] + 1 \in 0 .. MaxTries - 1
      BY <3>2, <3>3, <3>4, Finite, ConstantsOK
    <3> QED BY <3>2, <3>5 DEF TypeOK
  <2> QED BY <2>1, <2>2
<1>c. OutboxType' /\ OtherType'
  <2> USE DEF TypeOK, outbox, ledger
  <2>1. ASSUME NEW r \in Runs, Create(r) PROVE OutboxType' /\ OtherType'
    BY <2>1 DEF Create
  <2>2. ASSUME NEW r \in Runs, Lapse(r) PROVE OutboxType' /\ OtherType'
    BY <2>2 DEF Lapse, Fault
  <2>3. ASSUME NEW r \in Runs, BecomesStale(r) PROVE OutboxType' /\ OtherType'
    BY <2>3 DEF BecomesStale, Fault
  <2>4. ASSUME NEW r \in AllRuns, Cancel(r) PROVE OutboxType' /\ OtherType'
    BY <2>4 DEF Cancel
  <2>5. ASSUME Erase PROVE OutboxType' /\ OtherType'
    BY <2>5 DEF Erase
  <2>6. ASSUME NEW c \in Calls, Records(c) PROVE OutboxType' /\ OtherType'
    <3>1. call' \in [Calls -> CallState]
      BY <2>6, Outcomes
    <3> QED BY <2>6, <3>1 DEF Records, SettleExhausted, CancelClaimed, CommitResult, RecordError,
     FinishSync, FailSync
  <2>7. ASSUME NEW c \in Calls, ClaimRun(c) PROVE OutboxType' /\ OtherType'
    BY <2>7, Stepped DEF ClaimRun, Phase
  <2>8. ASSUME NEW c \in Calls, AnswerStatus(c) PROVE OutboxType' /\ OtherType'
    BY <2>8, Answered DEF AnswerStatus, Result
  <2>9. ASSUME NEW c \in Calls, ReadRun(c) PROVE OutboxType' /\ OtherType'
    BY <2>9, Stepped, Answered DEF ReadRun, Phase, Result
  <2>10. ASSUME NEW c \in Calls, Execute(c) PROVE OutboxType' /\ OtherType'
    BY <2>10, Stepped DEF Execute, Phase
  <2>11. ASSUME NEW c \in Calls, Return(c) PROVE OutboxType' /\ OtherType'
    BY <2>11 DEF Return, Holds, Idle, RowsRight, CallState, Phase, Result
  <2>12. ASSUME NEW c \in Calls, Crash(c) PROVE OutboxType' /\ OtherType'
    BY <2>12 DEF Crash, Fault, Idle, CallState, Phase, Result
  <2>13. ASSUME NEW c \in Calls, NEW r \in Runs, Deliver(c, r) PROVE OutboxType' /\ OtherType'
    BY <2>13 DEF Deliver, CallState, Phase, Result, AllRuns
  <2>14. ASSUME NEW c \in Calls, NEW r \in SyncRuns, StartSync(c, r) PROVE OutboxType' /\ OtherType'
    BY <2>14 DEF StartSync, CallState, Phase, Result, AllRuns
  <2>15. ASSUME UNCHANGED vars PROVE OutboxType' /\ OtherType'
    BY <2>15 DEF vars
  <2> QED
    BY <2>1, <2>2, <2>3, <2>4, <2>5, <2>6, <2>7, <2>8, <2>9, <2>10, <2>11, <2>12, <2>13, <2>14,
       <2>15 DEF Next, CallStep, Records
<1> QED BY <1>a, <1>b, <1>c DEF LedgerType, TypeOK

-----------------------------------------------------------------------------
(* The theorems. *)

\* The invariant holds at first.
LEMMA InitRight == Init => IInv
<1> SUFFICES ASSUME Init PROVE IInv
  OBVIOUS
<1>1. TypeOK
  BY ConstantsOK DEF Init, TypeOK, RunRow, NoRow, CallState, Phase, Result, Idle, AllRuns
<1>2. RowsRight /\ CallsRight
  BY DEF Init, RowsRight, CallsRight, SyncAlone, CallRight, NoRow, Idle, AllRuns
<1>3. \A r \in Runs : InFlight(r) = {}
  BY DEF Init, InFlight, Live, Idle
<1>4. TriesCounted
  <2> SUFFICES ASSUME NEW r \in Runs PROVE requeues[r] + Cardinality(InFlight(r)) <= run[r].tries
    BY DEF TriesCounted
  <2>1. Cardinality(InFlight(r)) = 0
    BY <1>3, FS_EmptySet
  <2>2. requeues[r] = 0 /\ run[r].tries = 0
    BY DEF Init, NoRow, AllRuns
  <2> QED BY <2>1, <2>2
<1>5. UsagesRight
  BY DEF Init, NoRow, UsagesRight, UsageRight, Active, Terminal
<1> QED BY <1>1, <1>2, <1>4, <1>5 DEF IInv

\* Every step preserves the invariant.
LEMMA StepRight == IInv /\ [Next]_vars => IInv'
<1> SUFFICES ASSUME IInv, [Next]_vars PROVE IInv'
  OBVIOUS
<1>1. TypeOK' /\ RowsRight' /\ CallsRight'
  BY TypeStep, RowsStep, CallsStep DEF IInv
<1>2. TriesCounted'
  BY TriesStep DEF IInv, TriesOf, TriesCounted
<1>3. UsagesRight'
  BY UsageStep DEF IInv
<1> QED BY <1>1, <1>2, <1>3 DEF IInv

\* The inductive invariant of create_run, cancel_run, process_analysis_run, the usage
\* ledger and billable_operation, in every interleaving with crashes and lapsed leases.
THEOREM RunsInvariance == Spec => []IInv
BY InitRight, StepRight, PTL DEF Spec

\* An owner's units never go below zero, and a run is queued again fewer than MaxTries
\* times, however late a stale call of process_analysis_run records its failure.
THEOREM RunsTypeCorrect == Spec => []TypeOK
<1>1. IInv => TypeOK
  BY DEF IInv
<1> QED BY <1>1, RunsInvariance, PTL

\* Units are reserved while a run waits or runs, committed or waived once it has
\* succeeded and given back once it failed or was cancelled, whoever ended it.
THEOREM RunsOutcomeMatchesUsage == Spec => []OutcomeMatchesUsage
<1>1. IInv => OutcomeMatchesUsage
  BY DEF IInv, OutcomeMatchesUsage, UsagesRight, UsageRight
<1> QED BY <1>1, RunsInvariance, PTL

\* A run whose cancellation cancel_run accepted never ends as succeeded.
THEOREM RunsCancelWins == Spec => []CancelWins
<1>1. IInv => CancelWins
  BY DEF IInv, CancelWins, UsagesRight, UsageRight
<1> QED BY <1>1, RunsInvariance, PTL

-----------------------------------------------------------------------------
(* The refinement. *)

\* A step that leaves the outbox alone ends the work of one run at most.
LEMMA OneEnds ==
    ASSUME UNCHANGED outbox, NEW r \in AllRuns, \A q \in AllRuns \ {r} : run'[q] = run[q],
           \/ WorkOf(run'[r]) = WorkOf(run[r])
           \/ WorkOf(run[r]) = "open" /\ WorkOf(run'[r]) = "closed"
    PROVE  I!Next \/ UNCHANGED I!vars
<1> DEFINE work == [q \in Runs |-> WorkOf(run[q])]
           next == [q \in Runs |-> WorkOf(run'[q])]
<1>1. intent' = intent /\ holder' = holder
  BY DEF outbox
<1>2. CASE r \in Runs /\ WorkOf(run'[r]) # WorkOf(run[r])
  <2>a. r \in Runs /\ WorkOf(run[r]) = "open" /\ WorkOf(run'[r]) = "closed"
    BY <1>2
  <2>b. \A q \in Runs \ {r} : WorkOf(run'[q]) = WorkOf(run[q])
    <3> SUFFICES ASSUME NEW q \in Runs, q # r PROVE WorkOf(run'[q]) = WorkOf(run[q])
      OBVIOUS
    <3>1. run'[q] = run[q]
      BY DEF AllRuns
    <3> QED BY <3>1
  <2>1. next = [work EXCEPT ![r] = "closed"] /\ work[r] = "open"
    BY <2>a, <2>b
  <2>2. I!EndWork(r)
    BY <1>1, <2>1 DEF I!EndWork
  <2> QED BY <1>2, <2>2 DEF I!Next
<1>3. CASE r \notin Runs \/ WorkOf(run'[r]) = WorkOf(run[r])
  <2>1. next = work
    BY <1>3 DEF AllRuns
  <2> QED BY <1>1, <2>1 DEF I!vars
<1> QED BY <1>2, <1>3

\* Every step is a step of Intent or changes nothing that Intent speaks of.
LEMMA IntentStep ==
    ASSUME IInv, [Next]_vars
    PROVE  I!Next \/ UNCHANGED I!vars
<1>a. TypeOK /\ RowsRight /\ CallsRight /\ LedgerType'
  BY RowTypes DEF IInv
<1>b. Runs \subseteq AllRuns
  BY DEF AllRuns
<1>c. UNCHANGED <<run, outbox>> => UNCHANGED I!vars
  BY DEF I!vars, outbox
<1>1. ASSUME NEW r \in Runs, Create(r) PROVE I!Next \/ UNCHANGED I!vars
  <2>1. /\ r \in AllRuns /\ \A q \in AllRuns \ {r} : run'[q] = run[q]
        /\ run'[r].status = "queued"
    BY <1>1, <1>a, <1>b, ReservedRow DEF Create, TypeOK, LedgerType
  <2>2. [q \in Runs |-> WorkOf(run'[q])] = [[q \in Runs |-> WorkOf(run[q])] EXCEPT ![r] = "open"]
    BY <2>1, <1>b DEF WorkOf, Active
  <2>3. I!Write(r)
    BY <1>1, <2>2, <1>a DEF Create, RowsRight, I!Write
  <2> QED BY <2>3 DEF I!Next
<1>2. ASSUME NEW r \in Runs, Lapse(r) PROVE I!Next \/ UNCHANGED I!vars
  <2>1. I!GiveBack(r)
    BY <1>2 DEF Lapse, I!GiveBack
  <2> QED BY <2>1 DEF I!Next
<1>3. ASSUME NEW r \in Runs, BecomesStale(r) PROVE I!Next \/ UNCHANGED I!vars
  <2>1. r \in AllRuns /\ run' = [run EXCEPT ![r].stale = TRUE] /\ UNCHANGED outbox
    BY <1>3, <1>b DEF BecomesStale
  <2>2. run'[r].status = run[r].status /\ \A q \in AllRuns \ {r} : run'[q] = run[q]
    BY <2>1, <1>a DEF TypeOK, RunRow
  <2> QED BY <2>1, <2>2, OneEnds DEF WorkOf
<1>4. ASSUME NEW r \in AllRuns, Cancel(r) PROVE I!Next \/ UNCHANGED I!vars
  <2>1. UNCHANGED outbox /\ \A q \in AllRuns \ {r} : run'[q] = run[q]
    BY <1>4, <1>a, CancelledRow DEF Cancel, TypeOK, LedgerType
  <2>2. \/ run[r].status = "queued" /\ run'[r].status = "cancelled"
        \/ run[r].status = "running" /\ run'[r].status = "running"
    BY <1>4, <1>a, CancelledRow DEF TypeOK, LedgerType
  <2>3. \/ WorkOf(run'[r]) = WorkOf(run[r])
        \/ WorkOf(run[r]) = "open" /\ WorkOf(run'[r]) = "closed"
    BY <2>2 DEF WorkOf, Active
  <2> QED BY <2>1, <2>3, OneEnds
<1>5. CASE Erase
  <2> DEFINE S == {q \in Runs : intent[q] # "none"}
  <2>1. /\ intent' = [q \in Runs |-> IF q \in S THEN "closed" ELSE intent[q]]
        /\ holder' = [q \in Runs |-> IF q \in S THEN Nobody ELSE holder[q]]
    BY <1>5, <1>a DEF Erase, RowsRight
  <2>2. [q \in Runs |-> WorkOf(run'[q])]
          = [q \in Runs |-> IF q \in S THEN "closed" ELSE [p \in Runs |-> WorkOf(run[p])][q]]
    BY <1>5, <1>a, <1>b DEF Erase, RowsRight, WorkOf, Active, NoRow
  <2>3. I!Withdraw(S)
    BY <2>1, <2>2 DEF I!Withdraw
  <2> QED BY <2>3 DEF I!Next
<1>6. ASSUME NEW c \in Calls, Records(c) PROVE I!Next \/ UNCHANGED I!vars
  <2> DEFINE r == call[c].run
  <2>1. UNCHANGED outbox
    BY <1>6 DEF Records, SettleExhausted, CancelClaimed, CommitResult, RecordError,
     FinishSync, FailSync
  <2>2. r \in AllRuns /\ Outcome(c) /\ run[r].status # "absent"
    BY <1>6, <1>a, Outcomes DEF CallsRight, CallRight
  <2>3. CASE UNCHANGED run
    BY <2>1, <2>3, <1>c
  <2>4. ASSUME NEW status \in {"failed", "cancelled"}, EndReleased(r, status)
        PROVE  I!Next \/ UNCHANGED I!vars
    <3>1. run'[r].status = status /\ \A q \in AllRuns \ {r} : run'[q] = run[q]
      BY <2>2, <2>4, <1>a, ReleasedRow DEF TypeOK, LedgerType, Terminal
    <3>2. \/ WorkOf(run'[r]) = WorkOf(run[r])
          \/ WorkOf(run[r]) = "open" /\ WorkOf(run'[r]) = "closed"
      BY <2>2, <3>1 DEF WorkOf, Active
    <3> QED BY <2>1, <2>2, <3>1, <3>2, OneEnds
  <2>5. CASE run[r].status \in Active /\ EndCommitted(r)
    <3>1. run'[r].status = "succeeded" /\ \A q \in AllRuns \ {r} : run'[q] = run[q]
      BY <2>2, <2>5, <1>a, CommittedRow DEF TypeOK, LedgerType
    <3>2. WorkOf(run[r]) = "open" /\ WorkOf(run'[r]) = "closed"
      BY <2>5, <3>1 DEF WorkOf, Active
    <3> QED BY <2>1, <2>2, <3>1, <3>2, OneEnds
  <2>6. CASE run[r].status \in Active /\ run' = [run EXCEPT ![r].status = "queued"]
    <3>1. run'[r].status = "queued" /\ \A q \in AllRuns \ {r} : run'[q] = run[q]
      BY <2>2, <2>6, <1>a DEF TypeOK, RunRow
    <3>2. WorkOf(run'[r]) = WorkOf(run[r])
      BY <2>6, <3>1 DEF WorkOf, Active
    <3> QED BY <2>1, <2>2, <3>1, <3>2, OneEnds
  <2> QED BY <2>2, <2>3, <2>4, <2>5, <2>6 DEF Outcome
<1>7. ASSUME NEW c \in Calls, ClaimRun(c) PROVE I!Next \/ UNCHANGED I!vars
  <2> DEFINE r == call[c].run
  <2>1. UNCHANGED outbox /\ r \in AllRuns
    BY <1>7, <1>a, <1>b DEF ClaimRun, CallsRight, CallRight
  <2>2. CASE UNCHANGED run
    BY <2>1, <2>2, <1>c
  <2>3. CASE /\ Claimable(run[r])
             /\ run' = [run EXCEPT ![r].status = "running", ![r].stale = FALSE, ![r].tries = @ + 1]
    <3>1. \A q \in AllRuns \ {r} : run'[q] = run[q]
      BY <2>1, <2>3, <1>a DEF TypeOK
    <3>2. run'[r].status = "running" /\ run[r].status \in Active
      BY <2>1, <2>3, <1>a DEF TypeOK, RunRow, Claimable, Active
    <3>3. WorkOf(run'[r]) = WorkOf(run[r])
      BY <3>2 DEF WorkOf, Active
    <3> QED BY <2>1, <3>1, <3>3, OneEnds
  <2> QED BY <1>7, <2>2, <2>3 DEF ClaimRun
<1>8. ASSUME NEW c \in Calls, AnswerStatus(c) PROVE I!Next \/ UNCHANGED I!vars
  BY <1>8, <1>c DEF AnswerStatus
<1>9. ASSUME NEW c \in Calls, ReadRun(c) PROVE I!Next \/ UNCHANGED I!vars
  BY <1>9, <1>c DEF ReadRun
<1>10. ASSUME NEW c \in Calls, Execute(c) PROVE I!Next \/ UNCHANGED I!vars
  BY <1>10, <1>c DEF Execute
<1>11. ASSUME NEW c \in Calls, Return(c) PROVE I!Next \/ UNCHANGED I!vars
  <2> DEFINE r == call[c].run
  <2>1. r \in Runs /\ UNCHANGED run
    BY <1>11, <1>a DEF Return, CallsRight, CallRight
  <2>2. CASE ~Holds(c, r)
    BY <1>11, <2>1, <2>2, <1>c DEF Return
  <2>3. CASE Holds(c, r) /\ call[c].result \in {"done", "exhausted"}
    <3>1. Ended(r)
      BY <1>11, <2>3, <1>a DEF Return, CallsRight, CallRight
    <3>2. [q \in Runs |-> WorkOf(run[q])][r] = "closed"
      BY <2>1, <3>1 DEF Ended, WorkOf, Active, Terminal
    <3>3. I!Close(r)
      BY <1>11, <2>1, <2>3, <3>2 DEF Return, Holds, I!Close
    <3> QED BY <2>1, <3>3 DEF I!Next
  <2>4. CASE Holds(c, r) /\ call[c].result \notin {"done", "exhausted"}
    <3>1. I!GiveBack(r)
      BY <1>11, <2>1, <2>4 DEF Return, Holds, I!GiveBack
    <3> QED BY <2>1, <3>1 DEF I!Next
  <2> QED BY <2>2, <2>3, <2>4
<1>12. ASSUME NEW c \in Calls, Crash(c) PROVE I!Next \/ UNCHANGED I!vars
  BY <1>12, <1>c DEF Crash
<1>13. ASSUME NEW c \in Calls, NEW r \in Runs, Deliver(c, r) PROVE I!Next \/ UNCHANGED I!vars
  <2>1. I!Take(r, c)
    BY <1>13 DEF Deliver, I!Take
  <2> QED BY <2>1 DEF I!Next
<1>14. ASSUME NEW c \in Calls, NEW r \in SyncRuns, StartSync(c, r) PROVE I!Next \/ UNCHANGED I!vars
  <2>1. r \in AllRuns /\ r \notin Runs /\ UNCHANGED outbox
    BY <1>14, ConstantsOK DEF StartSync, AllRuns
  <2>2. \A q \in AllRuns \ {r} : run'[q] = run[q]
    BY <1>14, <2>1, <1>a, ReservedRow DEF StartSync, TypeOK, LedgerType
  <2>3. [q \in Runs |-> WorkOf(run'[q])] = [q \in Runs |-> WorkOf(run[q])]
    BY <2>1, <2>2, <1>b
  <2> QED BY <2>1, <2>3 DEF I!vars, outbox
<1>15. CASE UNCHANGED vars
  BY <1>15, <1>c DEF vars
<1> QED
  BY <1>1, <1>2, <1>3, <1>4, <1>5, <1>6, <1>7, <1>8, <1>9, <1>10, <1>11, <1>12, <1>13, <1>14,
     <1>15 DEF Next, CallStep, Records

\* The worker keeps its side of the outbox: what process_event retires for
\* process_analysis_run and settle_exhausted_analysis_run has ended.
THEOREM RunsImplementIntent == Spec => ImplementsIntent
<1>1. Init => I!Init
  BY DEF Init, I!Init, WorkOf, NoRow, AllRuns
<1>2. IInv /\ [Next]_vars => [I!Next]_(I!vars)
  BY IntentStep
<1> QED BY <1>1, <1>2, RunsInvariance, PTL DEF Spec, ImplementsIntent, I!Spec

-----------------------------------------------------------------------------
(* Sums of numbers, from the theorems on finite sets. *)

LEMMA Disjoint ==
    ASSUME NEW A, NEW B, IsFiniteSet(A), IsFiniteSet(B), A \cap B = {}
    PROVE  /\ IsFiniteSet(A \cup B)
           /\ Cardinality(A \cup B) = Cardinality(A) + Cardinality(B)
<1>1. Cardinality(A \cap B) = 0 /\ Cardinality(A) \in Nat /\ Cardinality(B) \in Nat
  BY FS_EmptySet, FS_CardinalityType
<1>2. IsFiniteSet(A \cup B)
      /\ Cardinality(A \cup B) = Cardinality(A) + Cardinality(B) - Cardinality(A \cap B)
  BY FS_Union
<1> QED BY <1>1, <1>2

\* A sum over a finite set is a number.
LEMMA SumIsNat ==
    ASSUME NEW D, IsFiniteSet(D), NEW f \in [D -> Nat]
    PROVE  IsFiniteSet(Points(f)) /\ Sum(f) \in Nat
<1> DEFINE part == [x \in D |-> {x} \X (1..f[x])]
           parts == {part[x] : x \in D}
<1>1. IsFiniteSet(parts)
  <2>0. part \in [D -> parts] /\ \A t \in parts : \E x \in D : part[x] = t
    <3> HIDE DEF part
    <3>1. DOMAIN part = D /\ part = [x \in D |-> part[x]]
      BY DEF part
    <3> QED BY <3>1
  <2>1. part \in Surjection(D, parts)
    <3> HIDE DEF parts, part
    <3> QED BY <2>0 DEF Surjection
  <2> QED BY <2>1, FS_Surjection
<1>2. ASSUME NEW x \in D PROVE IsFiniteSet(part[x])
  <2>0. 1 \in Int /\ f[x] \in Int
    OBVIOUS
  <2>1. IsFiniteSet({x}) /\ IsFiniteSet(1..f[x])
    BY <2>0, FS_Singleton, FS_Interval
  <2> QED BY <2>1, FS_Product
<1>3. Points(f) = UNION parts
  BY DEF Points
<1>4. IsFiniteSet(Points(f))
  <2> HIDE DEF part
  <2> QED BY <1>1, <1>2, <1>3, FS_UNION
<1> QED BY <1>4, FS_CardinalityType DEF Sum

LEMMA SumOfZeros ==
    ASSUME NEW D, NEW f \in [D -> Nat], \A x \in D : f[x] = 0
    PROVE  Sum(f) = 0
<1>1. Points(f) = {}
  BY DEF Points
<1> QED BY <1>1, FS_EmptySet DEF Sum

LEMMA SumOfOne == ASSUME NEW x, NEW f \in [{x} -> Nat] PROVE Sum(f) = f[x]
<1>1. Points(f) = {x} \X (1..f[x])
  BY DEF Points
<1>2. IsFiniteSet({x}) /\ Cardinality({x}) = 1
  BY FS_Singleton
<1>3. IsFiniteSet(1..f[x]) /\ Cardinality(1..f[x]) = f[x]
  BY FS_Interval
<1>4. Cardinality({x} \X (1..f[x])) = Cardinality({x}) * Cardinality(1..f[x])
  BY <1>2, <1>3, FS_Product
<1> QED BY <1>1, <1>2, <1>3, <1>4 DEF Sum

\* The sum over two sets that have nothing in common.
LEMMA SumOfUnion ==
    ASSUME NEW A, NEW B, IsFiniteSet(A), IsFiniteSet(B), A \cap B = {},
           NEW D, D = A \cup B, NEW f \in [D -> Nat], NEW g \in [A -> Nat], NEW h \in [B -> Nat],
           \A x \in A : f[x] = g[x], \A x \in B : f[x] = h[x]
    PROVE  Sum(f) = Sum(g) + Sum(h)
<1>1. IsFiniteSet(Points(g)) /\ IsFiniteSet(Points(h))
  BY SumIsNat
<1>2. Points(f) = Points(g) \cup Points(h) /\ Points(g) \cap Points(h) = {}
  BY DEF Points
<1> QED BY <1>1, <1>2, Disjoint DEF Sum

\* The sum after a change of one summand.
LEMMA SumOfChange ==
    ASSUME NEW D, IsFiniteSet(D), NEW f \in [D -> Nat], NEW g \in [D -> Nat], NEW x \in D,
           \A y \in D \ {x} : g[y] = f[y]
    PROVE  Sum(g) = Sum(f) - f[x] + g[x]
<1> DEFINE rest == [y \in D \ {x} |-> f[y]]
           old == [y \in {x} |-> f[y]]
           new == [y \in {x} |-> g[y]]
<1>1. IsFiniteSet({x}) /\ IsFiniteSet(D \ {x}) /\ D = {x} \cup (D \ {x})
  BY FS_Singleton, FS_Subset
<1>2. old \in [{x} -> Nat] /\ new \in [{x} -> Nat] /\ rest \in [D \ {x} -> Nat]
  OBVIOUS
<1>3. Sum(f) = Sum(old) + Sum(rest) /\ Sum(g) = Sum(new) + Sum(rest)
  <2>1. /\ \A y \in {x} : f[y] = old[y] /\ g[y] = new[y]
        /\ \A y \in D \ {x} : f[y] = rest[y] /\ g[y] = rest[y]
    OBVIOUS
  <2> HIDE DEF old, new, rest
  <2>2. Sum(f) = Sum(old) + Sum(rest)
    BY <1>1, <1>2, <2>1, SumOfUnion
  <2>3. Sum(g) = Sum(new) + Sum(rest)
    BY <1>1, <1>2, <2>1, SumOfUnion
  <2> QED BY <2>2, <2>3
<1>4. Sum(old) = f[x] /\ Sum(new) = g[x] /\ Sum(rest) \in Nat
  BY <1>1, <1>2, SumOfOne, SumIsNat
<1> QED BY <1>3, <1>4

-----------------------------------------------------------------------------
(* The balance: how a step changes the ledger. *)

UsageOf(r) == run[r].usage

\* A step that touches the ledger does so for one run, and how the run's usage
\* moves says what is booked.
Effect(r) ==
    /\ \A q \in AllRuns \ {r} : UsageOf(q)' = UsageOf(q)
    /\ \/ UsageOf(r)' = UsageOf(r) /\ UNCHANGED ledger
       \/ /\ UsageOf(r) = "none" /\ UsageOf(r)' = "waived"
          /\ units' = units /\ journal' = journal \cup {<<r, "waive">>}
       \/ /\ UsageOf(r) = "none" /\ UsageOf(r)' = "reserved"
          /\ units' = units - Price[r] /\ journal' = journal \cup {<<r, "reserve">>}
       \/ /\ UsageOf(r) = "reserved" /\ UsageOf(r)' = "released"
          /\ units' = IF <<r, "release">> \in journal THEN units ELSE units + Price[r]
          /\ journal' = journal \cup {<<r, "release">>}
       \/ /\ UsageOf(r) = "reserved" /\ UsageOf(r)' = "committed"
          /\ units' = units /\ journal' = journal \cup {<<r, "commit">>}

\* The journal has what the usages say.
JournalRight ==
    \A r \in AllRuns :
        /\ <<r, "reserve">> \in journal <=> UsageOf(r) \in {"reserved", "committed", "released"}
        /\ <<r, "release">> \in journal <=> UsageOf(r) = "released"

LEMMA EffectBalances ==
    ASSUME TypeOK, TypeOK', JournalRight, BalanceExplained, owner, NEW r \in AllRuns, Effect(r)
    PROVE  JournalRight' /\ BalanceExplained'
<1> DEFINE reserves == [q \in AllRuns |-> IF <<q, "reserve">> \in journal THEN Price[q] ELSE 0]
           releases == [q \in AllRuns |-> IF <<q, "release">> \in journal THEN Price[q] ELSE 0]
           charges == [q \in AllRuns |-> Charged(q)]
           reserves2 == [q \in AllRuns |-> IF <<q, "reserve">> \in journal' THEN Price[q] ELSE 0]
           releases2 == [q \in AllRuns |-> IF <<q, "release">> \in journal' THEN Price[q] ELSE 0]
           charges2 == [q \in AllRuns |-> Charged(q)']
<1>1. /\ \A q \in AllRuns : Price[q] \in Nat
      /\ IsFiniteSet(AllRuns) /\ Wallet \in Nat /\ units \in Nat /\ units' \in Nat
  BY ConstantsOK, FS_Union DEF AllRuns, TypeOK
<1>2. /\ reserves \in [AllRuns -> Nat] /\ reserves2 \in [AllRuns -> Nat]
      /\ releases \in [AllRuns -> Nat] /\ releases2 \in [AllRuns -> Nat]
      /\ charges \in [AllRuns -> Nat] /\ charges2 \in [AllRuns -> Nat]
  BY <1>1 DEF Charged
<1>3. \A q \in AllRuns \ {r} :
        reserves2[q] = reserves[q] /\ releases2[q] = releases[q] /\ charges2[q] = charges[q]
  BY DEF Effect, Charged, UsageOf, ledger
<1>4. /\ Wallet - units = Sum(charges) /\ Wallet - units = Sum(reserves) - Sum(releases)
      /\ Booked("reserve")' = Sum(reserves2) /\ Booked("release")' = Sum(releases2)
  BY DEF BalanceExplained, Booked
<1>5. /\ Sum(charges2) = Sum(charges) - charges[r] + charges2[r]
      /\ Sum(reserves2) = Sum(reserves) - reserves[r] + reserves2[r]
      /\ Sum(releases2) = Sum(releases) - releases[r] + releases2[r]
      /\ Sum(charges) \in Nat /\ Sum(reserves) \in Nat /\ Sum(releases) \in Nat
  <2> HIDE DEF reserves, releases, charges, reserves2, releases2, charges2
  <2> QED BY <1>1, <1>2, <1>3, SumOfChange, SumIsNat
<1>6. JournalRight'
  <2>1. \A q \in AllRuns \ {r} : \A kind \in {"reserve", "release"} :
          <<q, kind>> \in journal' <=> <<q, kind>> \in journal
    BY DEF Effect, ledger
  <2>2. /\ <<r, "reserve">> \in journal' <=> UsageOf(r)' \in {"reserved", "committed", "released"}
        /\ <<r, "release">> \in journal' <=> UsageOf(r)' = "released"
    BY DEF Effect, JournalRight, ledger
  <2>3. \A q \in AllRuns \ {r} : UsageOf(q)' = UsageOf(q)
    BY DEF Effect
  <2> QED BY <2>1, <2>2, <2>3 DEF JournalRight
<1>7. /\ units - units' = charges2[r] - charges[r]
      /\ units - units' = (reserves2[r] - reserves[r]) - (releases2[r] - releases[r])
  BY <1>1 DEF Effect, JournalRight, UsageOf, Charged, ledger
<1>8. /\ charges[r] \in Nat /\ charges2[r] \in Nat /\ reserves[r] \in Nat /\ reserves2[r] \in Nat
      /\ releases[r] \in Nat /\ releases2[r] \in Nat
  <2> HIDE DEF reserves, releases, charges, reserves2, releases2, charges2
  <2> QED BY <1>2
<1>9. Sum(charges2) = Sum([q \in AllRuns |-> Charged(q)'])
  OBVIOUS
<1> HIDE DEF reserves, releases, charges, reserves2, releases2, charges2
<1>10. units' >= 0 /\ Wallet - units' = Sum(charges2)
  BY ONLY <1>1, <1>4, <1>5, <1>7, <1>8
<1>11. Wallet - units' = Sum(reserves2) - Sum(releases2)
  BY ONLY <1>1, <1>4, <1>5, <1>7, <1>8
<1> QED BY <1>4, <1>6, <1>9, <1>10, <1>11 DEF BalanceExplained

LEMMA ReserveEffect ==
    ASSUME LedgerType, NEW r \in AllRuns, NEW status, NEW tries, UsageOf(r) = "none",
           Reserve(r, status, tries)
    PROVE  Effect(r)
<1> DEFINE row(usage) == [NoRow EXCEPT !.status = status, !.usage = usage, !.tries = tries]
<1>1. \A usage : row(usage).usage = usage
  BY DEF NoRow
<1>2. ASSUME NEW usage, run' = [run EXCEPT ![r] = row(usage)]
      PROVE  UsageOf(r)' = usage /\ \A q \in AllRuns \ {r} : UsageOf(q)' = UsageOf(q)
  BY <1>1, <1>2 DEF LedgerType, UsageOf
<1>3. CASE /\ run' = [run EXCEPT ![r] = row("waived")] /\ units' = units
           /\ journal' = journal \cup {<<r, "waive">>}
  BY <1>2, <1>3 DEF Effect
<1>4. CASE /\ run' = [run EXCEPT ![r] = row("reserved")] /\ units' = units - Price[r]
           /\ journal' = journal \cup {<<r, "reserve">>}
  BY <1>2, <1>4 DEF Effect
<1> QED BY <1>3, <1>4 DEF Reserve

LEMMA ReleaseEffect ==
    ASSUME LedgerType, NEW r \in AllRuns, NEW status \in Terminal, EndReleased(r, status)
    PROVE  Effect(r)
<1>1. /\ \A q \in AllRuns \ {r} : UsageOf(q)' = UsageOf(q)
      /\ UsageOf(r)' = IF UsageOf(r) = "reserved" THEN "released" ELSE UsageOf(r)
  BY ReleasedRow DEF UsageOf
<1>2. GiveBackUnits(r)
  BY DEF EndReleased
<1> QED BY <1>1, <1>2 DEF Effect, GiveBackUnits, Releasable, UsageOf

LEMMA CommitEffect ==
    ASSUME LedgerType, NEW r \in AllRuns, EndCommitted(r)
    PROVE  Effect(r)
<1>1. /\ \A q \in AllRuns \ {r} : UsageOf(q)' = UsageOf(q)
      /\ UsageOf(r)' = IF UsageOf(r) = "reserved" THEN "committed" ELSE UsageOf(r)
  BY CommittedRow DEF UsageOf
<1>2. IF UsageOf(r) = "reserved" THEN units' = units /\ journal' = journal \cup {<<r, "commit">>}
      ELSE UNCHANGED ledger
  BY DEF EndCommitted, UsageOf
<1> QED BY <1>1, <1>2 DEF Effect

LEMMA CancelEffect ==
    ASSUME LedgerType, NEW r \in AllRuns, Cancel(r)
    PROVE  Effect(r)
<1>1. /\ \A q \in AllRuns \ {r} : UsageOf(q)' = UsageOf(q)
      /\ IF run[r].status = "queued"
         THEN /\ UsageOf(r)' = IF UsageOf(r) = "reserved" THEN "released" ELSE UsageOf(r)
              /\ GiveBackUnits(r)
         ELSE UsageOf(r)' = UsageOf(r) /\ UNCHANGED ledger
  BY CancelledRow DEF UsageOf, Cancel
<1> QED BY <1>1 DEF Effect, GiveBackUnits, Releasable, UsageOf

\* A step leaves the ledger alone, books one run or erases the account.
Quiet == UNCHANGED ledger /\ \A q \in AllRuns : UsageOf(q)' = UsageOf(q)
Effects == owner' => owner /\ (Quiet \/ \E r \in AllRuns : Effect(r))

LEMMA EffectsStep ==
    ASSUME TypeOK, CallsRight, UsagesRight, [Next]_vars
    PROVE  Effects
<1>0. LedgerType /\ Runs \subseteq AllRuns /\ SyncRuns \subseteq AllRuns
  BY DEF TypeOK, LedgerType, AllRuns
<1>a. CASE UNCHANGED <<run, ledger, owner>>
  BY <1>a DEF Effects, Quiet, UsageOf
<1>1. ASSUME NEW r \in Runs, Create(r) PROVE Effects
  BY <1>0, <1>1, ReserveEffect DEF Create, UsagesRight, UsageRight, UsageOf, Effects
<1>2. ASSUME NEW r \in Runs, Lapse(r) PROVE Effects
  BY <1>2, <1>a DEF Lapse
<1>3. ASSUME NEW r \in Runs, BecomesStale(r) PROVE Effects
  <2>1. \A q \in AllRuns : UsageOf(q)' = UsageOf(q)
    BY <1>3 DEF BecomesStale, TypeOK, RunRow, UsageOf
  <2> QED BY <1>3, <2>1 DEF BecomesStale, Effects, Quiet
<1>4. ASSUME NEW r \in AllRuns, Cancel(r) PROVE Effects
  BY <1>0, <1>4, CancelEffect DEF Cancel, Effects
<1>5. CASE Erase
  BY <1>5 DEF Erase, Effects
<1>6. ASSUME NEW c \in Calls, Records(c) PROVE Effects
  <2> DEFINE r == call[c].run
  <2>1. r \in AllRuns /\ Outcome(c)
    BY <1>6, Outcomes
  <2>2. owner' = owner
    BY <1>6 DEF Records, SettleExhausted, CancelClaimed, CommitResult, RecordError, FinishSync,
                FailSync
  <2>3. CASE UNCHANGED <<run, ledger>>
    BY <2>2, <2>3, <1>a
  <2>4. ASSUME NEW status \in {"failed", "cancelled"}, EndReleased(r, status) PROVE Effects
    BY <1>0, <2>1, <2>2, <2>4, ReleaseEffect DEF Effects, Terminal
  <2>5. CASE EndCommitted(r)
    BY <1>0, <2>1, <2>2, <2>5, CommitEffect DEF Effects
  <2>6. CASE run' = [run EXCEPT ![r].status = "queued"] /\ UNCHANGED ledger
    <3>1. \A q \in AllRuns : UsageOf(q)' = UsageOf(q)
      BY <2>1, <2>6 DEF TypeOK, RunRow, UsageOf
    <3> QED BY <2>2, <2>6, <3>1 DEF Effects, Quiet
  <2> QED BY <2>1, <2>3, <2>4, <2>5, <2>6 DEF Outcome
<1>7. ASSUME NEW c \in Calls, ClaimRun(c) PROVE Effects
  <2>1. \A q \in AllRuns : UsageOf(q)' = UsageOf(q)
    BY <1>7 DEF ClaimRun, TypeOK, RunRow, UsageOf
  <2> QED BY <1>7, <2>1 DEF ClaimRun, Effects, Quiet
<1>8. ASSUME NEW c \in Calls, AnswerStatus(c) PROVE Effects
  BY <1>8, <1>a DEF AnswerStatus
<1>9. ASSUME NEW c \in Calls, ReadRun(c) PROVE Effects
  BY <1>9, <1>a DEF ReadRun
<1>10. ASSUME NEW c \in Calls, Execute(c) PROVE Effects
  BY <1>10, <1>a DEF Execute
<1>11. ASSUME NEW c \in Calls, Return(c) PROVE Effects
  BY <1>11, <1>a DEF Return
<1>12. ASSUME NEW c \in Calls, Crash(c) PROVE Effects
  BY <1>12, <1>a DEF Crash
<1>13. ASSUME NEW c \in Calls, NEW r \in Runs, Deliver(c, r) PROVE Effects
  BY <1>13, <1>a DEF Deliver
<1>14. ASSUME NEW c \in Calls, NEW r \in SyncRuns, StartSync(c, r) PROVE Effects
  BY <1>0, <1>14, ReserveEffect DEF StartSync, UsagesRight, UsageRight, UsageOf, Effects
<1>15. CASE UNCHANGED vars
  BY <1>15, <1>a DEF vars
<1> QED
  BY <1>1, <1>2, <1>3, <1>4, <1>5, <1>6, <1>7, <1>8, <1>9, <1>10, <1>11, <1>12, <1>13, <1>14,
     <1>15 DEF Next, CallStep, Records

\* The inductive invariant of the balance.
Balanced == owner => JournalRight /\ BalanceExplained

LEMMA BalanceStep ==
    ASSUME IInv, IInv', Balanced, [Next]_vars
    PROVE  Balanced'
<1>1. Effects
  BY EffectsStep DEF IInv
<1>2. CASE ~owner'
  BY <1>2 DEF Balanced
<1>3. CASE owner' /\ Quiet
  <2>1. JournalRight /\ BalanceExplained
    BY <1>1, <1>3 DEF Effects, Balanced
  <2>2. \A q \in AllRuns : Charged(q)' = Charged(q)
    BY <1>3 DEF Quiet, Charged, UsageOf
  <2>3. [q \in AllRuns |-> Charged(q)'] = [q \in AllRuns |-> Charged(q)]
    BY <2>2
  <2>4. units' = units /\ journal' = journal
    BY <1>3 DEF Quiet, ledger
  <2>5. BalanceExplained'
    BY <1>1, <1>3, <2>1, <2>3, <2>4 DEF BalanceExplained, Booked, Effects
  <2>6. JournalRight'
    BY <1>3, <2>1, <2>4 DEF JournalRight, Quiet
  <2> QED BY <2>5, <2>6 DEF Balanced
<1>4. ASSUME owner', NEW r \in AllRuns, Effect(r) PROVE Balanced'
  <2>1. owner /\ JournalRight /\ BalanceExplained
    BY <1>1, <1>4 DEF Effects, Balanced
  <2> QED BY <1>4, <2>1, EffectBalances DEF Balanced, IInv
<1> QED BY <1>1, <1>2, <1>3, <1>4 DEF Effects

LEMMA BalanceInit == ASSUME Init PROVE Balanced
<1>1. \A q \in AllRuns : run[q].usage = "none"
  BY DEF Init, NoRow
<1>2. JournalRight
  BY <1>1 DEF Init, JournalRight, UsageOf
<1> DEFINE charges == [q \in AllRuns |-> Charged(q)]
           events(kind) == [q \in AllRuns |-> IF <<q, kind>> \in journal THEN Price[q] ELSE 0]
<1>3. charges \in [AllRuns -> Nat] /\ \A q \in AllRuns : charges[q] = 0
  BY <1>1 DEF Charged
<1>4. \A kind : events(kind) \in [AllRuns -> Nat] /\ \A q \in AllRuns : events(kind)[q] = 0
  BY DEF Init
<1>5. \A kind : Booked(kind) = Sum(events(kind))
  BY DEF Booked
<1> HIDE DEF charges, events
<1>6. Sum(charges) = 0 /\ \A kind : Sum(events(kind)) = 0
  BY <1>3, <1>4, SumOfZeros
<1>7. /\ Wallet - units = 0 /\ units >= 0
      /\ Sum([q \in AllRuns |-> Charged(q)]) = 0
      /\ Booked("reserve") = 0 /\ Booked("release") = 0
  BY <1>5, <1>6, ConstantsOK DEF Init, charges
<1> QED BY <1>2, <1>7 DEF Balanced, BalanceExplained

\* What an owner lacks is what unfinished runs hold and succeeded runs cost, and the
\* journal of usage_events says the same, whoever ends a run and however often.
THEOREM RunsExplainBalance == Spec => []BalanceExplained
<1>1. Init => Balanced
  BY BalanceInit
<1>2. IInv /\ IInv' /\ Balanced /\ [Next]_vars => Balanced'
  BY BalanceStep
<1>3. Balanced => BalanceExplained
  BY DEF Balanced, BalanceExplained
<1> QED BY <1>1, <1>2, <1>3, RunsInvariance, PTL DEF Spec
=============================================================================
