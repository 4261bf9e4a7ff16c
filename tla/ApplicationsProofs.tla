-------------------------- MODULE ApplicationsProofs --------------------------
(* Theorems about Applications, for any number of applications, openings, workers,
   credits, deliveries and faults and any limits: every safety property of the
   module. *)
EXTENDS Applications, FiniteSetTheorems, TLAPS

\* The rows of the tables and the local state of a worker.
AppRow == [status: {"none", "ready", "approved", "queued", "submitting", "unknown",
                    "confirmed", "failed", "cancelled", "erased"},
           opening: Openings \cup {NoOpening}, claims: BOOLEAN]
AdmissionRow == [state: {"none", "consumed", "released"} \cup Pending,
                 claims: BOOLEAN, sent: BOOLEAN, recent: BOOLEAN]
WorkerState == [phase: {"idle", "settle", "begin", "preflight", "giveup", "launch", "send",
                        "record", "return"},
                app: Apps \cup {NoApp}, outcome: {"none", "receipt", "rejected", "unclear"}]

\* The rows that the transactions of an application write.
RowsType ==
    /\ app \in [Apps -> AppRow] /\ admission \in [Apps -> AdmissionRow]
    /\ money \in [Apps -> {"none", "reserved", "returned", "charged"}] /\ credits \in Nat

\* Everything else.
RestType ==
    /\ attempt \in [Apps -> {"none", "submitting", "confirmed", "failed", "unknown"}]
    /\ owner \in BOOLEAN
    /\ event \in [Apps -> {"none", "open", "held", "closed"}]
    /\ holder \in [Apps -> Workers \cup {Nobody}] /\ execs \in [Apps -> Nat]
    /\ worker \in [Workers -> WorkerState]
    /\ arrived \in [Apps -> Nat] /\ faults \in Nat

TypeOK == RowsType /\ RestType

\* What the rows of one application and the employer's side say of each other.
AppRight(a) ==
    /\ app[a].status \in {"none", "ready", "approved"} =>
          /\ admission[a] = NoAdmission /\ money[a] = "none" /\ attempt[a] = "none"
          /\ event[a] = "none" /\ arrived[a] = 0
    /\ app[a].status \in {"ready", "approved", "queued", "confirmed"} \cup InDoubt => app[a].claims
    /\ app[a].status = "none" => ~app[a].claims
    /\ app[a].status = "queued" =>
          /\ admission[a].state = "reserved" /\ ~admission[a].sent
          /\ money[a] = "reserved" /\ attempt[a] = "none"
          /\ event[a] \in {"open", "held"} /\ arrived[a] = 0
    /\ app[a].status \in InDoubt =>
          /\ admission[a].state \in {"submitting", "unknown"} /\ admission[a].sent
          /\ money[a] = "reserved" /\ attempt[a] \in {"submitting", "unknown"}
    /\ app[a].status = "confirmed" => admission[a].state = "consumed" /\ money[a] = "charged"
    /\ app[a].status \in {"failed", "cancelled"} =>
          admission[a].state \notin Pending /\ money[a] \in {"none", "returned"} /\ arrived[a] = 0
    /\ app[a].status = "erased" => ~owner /\ ~app[a].claims
    /\ ~owner => app[a].status \in {"none", "erased"}
    /\ money[a] = "returned" => arrived[a] = 0
    /\ money[a] = "charged" => arrived[a] # 0
    /\ arrived[a] \in {0, 1}
    /\ admission[a].sent /\ admission[a].state \notin Pending \cup {"consumed"} => a \in verified

\* A worker that has the permit to send and has not recorded the answer yet.
Sends(w, a) == worker[w].phase \in {"send", "record"} /\ worker[w].app = a

\* What a worker knows of its application in each phase.
WorkerRight(w) ==
    LET a == worker[w].app
    IN  /\ worker[w].phase # "idle" => a \in Apps /\ event[a] # "none"
        /\ worker[w].phase = "send" => money[a] = "reserved" /\ arrived[a] = 0
        /\ worker[w].phase \in {"send", "record"} =>
              /\ app[a].status \in InDoubt \cup {"confirmed", "erased"}
              /\ app[a].status \in InDoubt => attempt[a] = "submitting"
        /\ worker[w].phase = "record" =>
              /\ worker[w].outcome \in {"receipt", "rejected", "unclear"}
              /\ worker[w].outcome = "receipt" => arrived[a] # 0
              /\ worker[w].outcome = "rejected" => arrived[a] = 0
        /\ worker[w].phase = "return" => app[a].status # "queued"

\* There is one permit to send.
SenderAlone == \A a \in Apps : \A v, w \in Workers : Sends(v, a) /\ Sends(w, a) => v = w

\* An application that may have reached the employer, or still may.
Alive(a) == app[a].claims \/ arrived[a] # 0 \/ \E w \in Workers : Sends(w, a)

\* No two of those are for one opening.
OpeningsApart ==
    \A a, b \in Apps : Alive(a) /\ Alive(b) /\ app[a].opening = app[b].opening => a = b

\* The credits that are reserved or spent are those that are missing.
Held == {a \in Apps : money[a] \in {"reserved", "charged"}}
CreditsCounted == owner => Wallet - credits = Cardinality(Held)

\* The inductive invariant.
RowsRight == \A a \in Apps : AppRight(a)
WorkersRight == SenderAlone /\ \A w \in Workers : WorkerRight(w)

IInv == TypeOK /\ RowsRight /\ WorkersRight /\ OpeningsApart /\ CreditsCounted /\ SlotsWithinLimit

-----------------------------------------------------------------------------
(* What a transaction leaves in the rows of one application. *)

\* Only the rows of one application are written.
OthersKept(a) ==
    \A b \in Apps \ {a} : app'[b] = app[b] /\ admission'[b] = admission[b] /\ money'[b] = money[b]

\* finish turns an admission into "released" or, after a send nobody disproved,
\* "consumed", and never touches what the limits count it by.
LEMMA FinishedRow ==
    ASSUME NEW adm \in AdmissionRow, NEW outcome, NEW proven \in BOOLEAN
    PROVE  /\ Finished(adm, outcome, proven) \in AdmissionRow
           /\ Finished(adm, outcome, proven).state =
                 IF adm.state = "none" THEN "none"
                 ELSE IF proven \/ ~adm.sent THEN "released" ELSE "consumed"
           /\ Finished(adm, outcome, proven).sent = adm.sent
           /\ Finished(adm, outcome, proven).recent = adm.recent
<1> DEFINE claims == adm.claims /\ outcome = "confirmed"
<1>1. claims \in BOOLEAN
  BY DEF AdmissionRow
<1>2. CASE adm.state = "none"
  BY <1>2 DEF Finished
<1>3. CASE adm.state # "none" /\ Frees(adm, proven)
  BY <1>3 DEF Finished, Frees, AdmissionRow
<1>4. CASE adm.state # "none" /\ ~Frees(adm, proven)
  <2>1. Finished(adm, outcome, proven) = [adm EXCEPT !.state = "consumed", !.claims = claims]
    BY <1>4 DEF Finished, AdmissionRow
  <2> HIDE DEF claims
  <2> QED BY <1>1, <1>4, <2>1 DEF Frees, AdmissionRow
<1> QED BY <1>2, <1>3, <1>4

\* Credits are settled at most once, and never below zero.
LEMMA SettledMoney ==
    ASSUME RowsType, NEW a \in Apps, NEW how \in {"returned", "charged"}, Settle(a, how)
    PROVE  /\ money' \in [Apps -> {"none", "reserved", "returned", "charged"}] /\ credits' \in Nat
           /\ \A b \in Apps \ {a} : money'[b] = money[b]
           /\ money'[a] = IF money[a] = "reserved" THEN how ELSE money[a]
BY DEF RowsType, Settle, Unsettled, ledger

\* An application that ends keeps its opening but no claim to it.
LEMMA EndedRow ==
    ASSUME RowsType, NEW a \in Apps, NEW status \in {"failed", "cancelled"}, NEW outcome,
           NEW proven \in BOOLEAN,
           app' = [app EXCEPT ![a] = [@ EXCEPT !.status = status, !.claims = FALSE]],
           admission' = [admission EXCEPT ![a] = Finished(@, outcome, proven)],
           Settle(a, "returned")
    PROVE  /\ RowsType' /\ OthersKept(a)
           /\ app'[a].status = status /\ ~app'[a].claims /\ app'[a].opening = app[a].opening
           /\ admission'[a] = Finished(admission[a], outcome, proven)
           /\ money'[a] = IF money[a] = "reserved" THEN "returned" ELSE money[a]
<1> DEFINE row == [app[a] EXCEPT !.status = status, !.claims = FALSE]
           adm == Finished(admission[a], outcome, proven)
<1>1. app' = [app EXCEPT ![a] = row] /\ admission' = [admission EXCEPT ![a] = adm]
  OBVIOUS
<1>2. /\ row \in AppRow
      /\ row.status = status /\ ~row.claims /\ row.opening = app[a].opening
  BY DEF RowsType, AppRow
<1>3. adm \in AdmissionRow
  BY FinishedRow DEF RowsType
<1> HIDE DEF row, adm
<1> QED BY <1>1, <1>2, <1>3, SettledMoney DEF RowsType, OthersKept, adm

\* A failure ends the application.
LEMMA FailedRow ==
    ASSUME RowsType, NEW a \in Apps, Failed(a)
    PROVE  /\ RowsType' /\ OthersKept(a)
           /\ app'[a].status = "failed" /\ ~app'[a].claims /\ app'[a].opening = app[a].opening
           /\ admission'[a] = Finished(admission[a], "failed", FALSE)
           /\ money'[a] = IF money[a] = "reserved" THEN "returned" ELSE money[a]
BY EndedRow DEF Failed

\* A receipt charges the credits and keeps the claim.
LEMMA ConfirmedRow ==
    ASSUME RowsType, NEW a \in Apps, Confirmed(a)
    PROVE  /\ RowsType' /\ OthersKept(a)
           /\ app'[a].status = "confirmed" /\ app'[a].claims = app[a].claims
           /\ app'[a].opening = app[a].opening
           /\ admission'[a] = Finished(admission[a], "confirmed", FALSE)
           /\ money'[a] = IF money[a] = "reserved" THEN "charged" ELSE money[a]
<1> DEFINE row == [app[a] EXCEPT !.status = "confirmed"]
           adm == Finished(admission[a], "confirmed", FALSE)
<1>1. /\ app' = [app EXCEPT ![a] = row] /\ admission' = [admission EXCEPT ![a] = adm]
      /\ Settle(a, "charged")
  BY DEF Confirmed, RowsType
<1>2. /\ row \in AppRow
      /\ row.status = "confirmed" /\ row.claims = app[a].claims /\ row.opening = app[a].opening
  BY DEF RowsType, AppRow
<1>3. adm \in AdmissionRow
  BY FinishedRow DEF RowsType
<1> HIDE DEF row, adm
<1> QED BY <1>1, <1>2, <1>3, SettledMoney DEF RowsType, OthersKept, adm

\* An unknown outcome settles nothing.
LEMMA UncertainRow ==
    ASSUME RowsType, NEW a \in Apps, Uncertain(a)
    PROVE  /\ RowsType' /\ OthersKept(a) /\ UNCHANGED ledger
           /\ app'[a].status = "unknown" /\ app'[a].claims = app[a].claims
           /\ app'[a].opening = app[a].opening
           /\ admission'[a].state = "unknown" /\ admission'[a].sent = admission[a].sent
           /\ admission'[a].recent = admission[a].recent
<1> DEFINE row == [app[a] EXCEPT !.status = "unknown"]
           adm == [admission[a] EXCEPT !.state = "unknown"]
<1>1. app' = [app EXCEPT ![a] = row] /\ admission' = [admission EXCEPT ![a] = adm]
  BY DEF Uncertain, RowsType
<1>2. row \in AppRow /\ adm \in AdmissionRow
  BY DEF RowsType, AppRow, AdmissionRow, Pending
<1>3. /\ row.status = "unknown" /\ row.claims = app[a].claims /\ row.opening = app[a].opening
      /\ adm.state = "unknown" /\ adm.sent = admission[a].sent /\ adm.recent = admission[a].recent
  BY DEF RowsType, AppRow, AdmissionRow
<1> HIDE DEF row, adm
<1> QED BY <1>1, <1>2, <1>3 DEF RowsType, OthersKept, Uncertain, ledger

-----------------------------------------------------------------------------
(* The rows of an application. *)

\* An application that no row changes of stays right.
LEMMA AppKept ==
    ASSUME NEW b \in Apps, AppRight(b),
           app'[b] = app[b] /\ admission'[b] = admission[b] /\ money'[b] = money[b],
           attempt'[b] = attempt[b] /\ arrived'[b] = arrived[b],
           event[b] = "none" => event'[b] = "none",
           app[b].status = "queued" => event'[b] \in {"open", "held"},
           owner' = owner, verified \subseteq verified'
    PROVE  AppRight(b)'
BY DEF AppRight, InDoubt

\* An application ends: it was not in doubt, or its outcome is known.
LEMMA AppEnds ==
    ASSUME TypeOK, RowsRight, NEW a \in Apps, NEW status \in {"failed", "cancelled"}, NEW outcome,
           NEW proven \in BOOLEAN,
           app[a].status \notin {"none", "erased", "confirmed"}, arrived[a] = 0,
           OthersKept(a), app'[a].status = status, ~app'[a].claims,
           admission'[a] = Finished(admission[a], outcome, proven),
           money'[a] = (IF money[a] = "reserved" THEN "returned" ELSE money[a]),
           UNCHANGED <<owner, outbox, arrived>>, verified \subseteq verified',
           \A b \in Apps \ {a} : attempt'[b] = attempt[b],
           proven => a \in verified'
    PROVE  RowsRight'
<1>1. /\ app[a] \in AppRow /\ admission[a] \in AdmissionRow
      /\ money[a] \in {"none", "reserved", "returned", "charged"}
  BY DEF TypeOK, RowsType
<1>2. AppRight(a)
  BY DEF RowsRight
<1>3. AppRight(a)'
  BY <1>1, <1>2, FinishedRow DEF AppRight, AppRow, AdmissionRow, InDoubt, Pending, outbox
<1>4. \A b \in Apps \ {a} : AppRight(b)'
  BY AppKept DEF RowsRight, OthersKept, outbox, AppRight
<1> QED BY <1>3, <1>4 DEF RowsRight

\* An application whose outcome stays open.
LEMMA AppUncertain ==
    ASSUME TypeOK, RowsRight, NEW a \in Apps, app[a].status \in InDoubt, Uncertain(a),
           UNCHANGED <<owner, outbox, arrived, verified>>,
           attempt'[a] \in {"submitting", "unknown"},
           \A b \in Apps \ {a} : attempt'[b] = attempt[b]
    PROVE  RowsRight'
<1>1. AppRight(a)'
  BY UncertainRow DEF RowsRight, AppRight, InDoubt, Pending, outbox, ledger, TypeOK, RowsType
<1>2. \A b \in Apps \ {a} : AppRight(b)'
  BY UncertainRow, AppKept DEF RowsRight, OthersKept, outbox, AppRight, TypeOK
<1> QED BY <1>1, <1>2 DEF RowsRight

\* An application the employer has.
LEMMA AppConfirmed ==
    ASSUME TypeOK, RowsRight, NEW a \in Apps, app[a].status \in InDoubt, arrived[a] # 0,
           Confirmed(a), UNCHANGED <<owner, outbox, arrived, verified>>,
           \A b \in Apps \ {a} : attempt'[b] = attempt[b]
    PROVE  RowsRight'
<1>1. AppRight(a)
  BY DEF RowsRight
<1>2. admission[a] \in AdmissionRow
  BY DEF TypeOK, RowsType
<1>3. /\ OthersKept(a) /\ app'[a].status = "confirmed" /\ app'[a].claims = app[a].claims
      /\ admission'[a] = Finished(admission[a], "confirmed", FALSE)
      /\ money'[a] = IF money[a] = "reserved" THEN "charged" ELSE money[a]
  BY ConfirmedRow DEF TypeOK
<1>4. AppRight(a)'
  <2>1. admission'[a].state = "consumed"
    <3>1. admission[a].state # "none" /\ admission[a].sent
      BY <1>1 DEF AppRight
    <3>2. Finished(admission[a], "confirmed", FALSE).state = "consumed"
      BY <1>2, <3>1, FinishedRow
    <3> QED BY <1>3, <3>2
  <2> QED BY <1>1, <1>3, <2>1 DEF AppRight, InDoubt, outbox
<1>5. \A b \in Apps \ {a} : AppRight(b)'
  BY <1>3, AppKept DEF RowsRight, OthersKept, outbox, AppRight
<1> QED BY <1>4, <1>5 DEF RowsRight

\* Every step leaves the rows of every application consistent.
LEMMA RowsStep ==
    ASSUME TypeOK, RowsRight, WorkersRight, [Next]_vars
    PROVE  RowsRight'
<1> DEFINE Rest(a) == \A b \in Apps \ {a} : AppRight(b)'
<1>0. \A a \in Apps : AppRight(a)' /\ Rest(a) => RowsRight'
  BY DEF RowsRight
<1>a. ASSUME NEW a \in Apps
      PROVE  /\ AppRight(a) /\ app[a] \in AppRow /\ admission[a] \in AdmissionRow
  BY DEF RowsRight, TypeOK, RowsType
<1>1. ASSUME NEW a \in Apps, NEW o \in Openings, Create(a, o) PROVE RowsRight'
  <2>1. AppRight(a)'
    BY <1>1, <1>a DEF Create, AppRight, InDoubt, outbox, ledger, TypeOK, RowsType
  <2>2. Rest(a)
    BY <1>1, AppKept DEF Create, outbox, ledger, TypeOK, RowsType, RowsRight, AppRight
  <2> QED BY <2>1, <2>2, <1>0
<1>2. ASSUME NEW a \in Apps, Edit(a) PROVE RowsRight'
  <2>1. AppRight(a)'
    BY <1>2, <1>a DEF Edit, AppRight, AppRow, InDoubt, outbox, ledger, TypeOK, RowsType
  <2>2. Rest(a)
    BY <1>2, AppKept DEF Edit, outbox, ledger, TypeOK, RowsType, RowsRight, AppRight
  <2> QED BY <2>1, <2>2, <1>0
<1>3. ASSUME NEW a \in Apps, Approve(a) PROVE RowsRight'
  <2>1. AppRight(a)'
    BY <1>3, <1>a DEF Approve, AppRight, AppRow, InDoubt, outbox, ledger, TypeOK, RowsType
  <2>2. Rest(a)
    BY <1>3, AppKept DEF Approve, outbox, ledger, TypeOK, RowsType, RowsRight, AppRight
  <2> QED BY <2>1, <2>2, <1>0
<1>4. ASSUME NEW a \in Apps, Request(a) PROVE RowsRight'
  <2>1. /\ app'[a].status = "queued" /\ app'[a].claims = app[a].claims
        /\ admission'[a].state = "reserved" /\ ~admission'[a].sent
        /\ money'[a] = "reserved" /\ event'[a] = "open"
        /\ UNCHANGED <<attempt, owner, arrived, verified>>
    BY <1>4, <1>a DEF Request, AppRow, NoAdmission, TypeOK, RowsType, RestType
  <2>2. AppRight(a)'
    BY <1>4, <1>a, <2>1 DEF Request, AppRight, InDoubt, Pending
  <2>3. Rest(a)
    BY <1>4, AppKept DEF Request, TypeOK, RowsType, RestType, RowsRight, AppRight
  <2> QED BY <2>2, <2>3, <1>0
<1>5. ASSUME NEW a \in Apps, Cancel(a) PROVE RowsRight'
  <2>1. CASE app[a].status \in InDoubt
    <3>1. AppRight(a)'
      BY <1>5, <1>a, <2>1
         DEF Cancel, AppRight, AdmissionRow, InDoubt, Pending, outbox, ledger, TypeOK, RowsType
    <3>2. Rest(a)
      BY <1>5, <2>1, AppKept DEF Cancel, outbox, ledger, TypeOK, RowsType, RowsRight, AppRight
    <3> QED BY <3>1, <3>2, <1>0
  <2>2. CASE app[a].status \notin InDoubt
    <3>1. /\ OthersKept(a) /\ app'[a].status = "cancelled" /\ ~app'[a].claims
          /\ admission'[a] = Finished(admission[a], "cancelled", FALSE)
          /\ money'[a] = (IF money[a] = "reserved" THEN "returned" ELSE money[a])
      BY <1>5, <2>2, EndedRow DEF Cancel, TypeOK
    <3>2. app[a].status \notin {"none", "erased", "confirmed"} /\ arrived[a] = 0
      BY <1>5, <1>a, <2>2 DEF Cancel, AppRight, AppRow, InDoubt
    <3> QED BY <1>5, <3>1, <3>2, AppEnds DEF Cancel
  <2> QED BY <2>1, <2>2
<1>6. CASE Erase
  <2> SUFFICES ASSUME NEW a \in Apps PROVE AppRight(a)'
    BY DEF RowsRight
  <2> DEFINE stopped == app[a].status \notin InDoubt \cup {"confirmed", "none"}
             kept == IF stopped THEN Finished(admission[a], "account_deleted", FALSE)
                     ELSE admission[a]
  <2>1. /\ owner' = FALSE /\ UNCHANGED <<event, arrived, verified>> /\ attempt'[a] = "none"
        /\ app[a].status = "none" => app'[a] = app[a]
        /\ app[a].status # "none" => app'[a].status = "erased" /\ ~app'[a].claims
        /\ admission'[a] = [kept EXCEPT !.claims = FALSE]
        /\ money'[a] = IF stopped /\ money[a] = "reserved" THEN "returned" ELSE money[a]
    BY <1>6, <1>a DEF Erase, Unsettled, AppRow, outbox
  <2>2. kept \in AdmissionRow
    BY <1>a, FinishedRow
  <2>3. admission'[a].sent = kept.sent /\ admission'[a].state = kept.state
    BY <2>1, <2>2 DEF AdmissionRow
  <2>4. admission'[a].sent /\ admission'[a].state \notin Pending \cup {"consumed"} => a \in verified'
    <3>1. CASE stopped
      <4>1. /\ kept.sent = admission[a].sent
            /\ kept.state = IF admission[a].state = "none" THEN "none"
                            ELSE IF ~admission[a].sent THEN "released" ELSE "consumed"
        BY ZenonT(60), <1>a, <3>1, FinishedRow
      <4> QED BY <1>a, <2>1, <2>3, <4>1 DEF AppRight, Pending
    <3>2. CASE ~stopped
      BY <1>a, <2>1, <2>3, <3>2 DEF AppRight
    <3> QED BY <3>1, <3>2
  <2>5. app[a].status = "none" => admission'[a] = NoAdmission
    <3> SUFFICES ASSUME app[a].status = "none" PROVE admission'[a] = NoAdmission
      OBVIOUS
    <3>1. admission[a] = NoAdmission /\ kept = admission[a]
      BY <1>a DEF AppRight
    <3>2. admission'[a] = [NoAdmission EXCEPT !.claims = FALSE]
      BY <2>1, <3>1
    <3> QED BY <3>2 DEF NoAdmission
  <2> HIDE DEF kept
  <2>6. money[a] = "reserved" /\ stopped => arrived[a] = 0
    BY <1>6, <1>a DEF Erase, AppRight, AppRow, InDoubt
  <2> QED BY <1>a, <2>1, <2>4, <2>5, <2>6 DEF AppRight, InDoubt
<1>b. ASSUME NEW w \in Workers, worker[w].phase # "idle" PROVE worker[w].app \in Apps
  BY <1>b DEF WorkersRight, WorkerRight
<1>c. UNCHANGED <<rows, outbox, arrived, verified>> => RowsRight'
  BY DEF RowsRight, AppRight, rows, outbox, ledger
<1>7. ASSUME NEW a \in Apps, NEW w \in Workers, Deliver(w, a) PROVE RowsRight'
  BY <1>7, AppKept DEF Deliver, RowsRight, AppRight, rows, ledger, TypeOK, RestType
<1>8. ASSUME NEW w \in Workers, SettleExhausted(w) PROVE RowsRight'
  <2> DEFINE a == worker[w].app
  <2>1. a \in Apps /\ UNCHANGED <<owner, outbox, arrived, verified, attempt>>
    BY <1>8, <1>b DEF SettleExhausted
  <2>2. CASE Uncertain(a) /\ app[a].status \in {"queued", "submitting"} /\ attempt[a] # "none"
    BY <1>a, <2>1, <2>2, AppUncertain DEF AppRight, InDoubt
  <2>3. CASE Failed(a) /\ app[a].status \in {"queued", "submitting"} /\ attempt[a] = "none"
    <3>1. app[a].status = "queued" /\ arrived[a] = 0
      BY <1>a, <2>1, <2>3 DEF AppRight, InDoubt
    <3> QED BY <2>1, <2>3, <3>1, FailedRow, AppEnds DEF TypeOK
  <2>4. CASE UNCHANGED <<app, admission, ledger>>
    BY <2>1, <2>4, <1>c DEF rows
  <2> QED BY <1>8, <2>2, <2>3, <2>4 DEF SettleExhausted
<1>9. ASSUME NEW w \in Workers, Begin(w) PROVE RowsRight'
  <2> DEFINE a == worker[w].app
  <2>1. a \in Apps /\ UNCHANGED <<owner, outbox, arrived, verified, attempt>>
    BY <1>9, <1>b DEF Begin
  <2>2. CASE Uncertain(a) /\ app[a].status = "submitting"
    BY <1>a, <2>1, <2>2, AppUncertain DEF AppRight, InDoubt
  <2>3. CASE Failed(a) /\ app[a].status = "queued"
    <3>1. arrived[a] = 0
      BY <1>a, <2>1, <2>3 DEF AppRight
    <3> QED BY ZenonT(60), <2>1, <2>3, <3>1, FailedRow, AppEnds DEF TypeOK
  <2>4. CASE UNCHANGED <<app, admission, ledger>>
    BY <2>1, <2>4, <1>c DEF rows
  <2> QED BY <1>9, <2>2, <2>3, <2>4 DEF Begin
<1>10. ASSUME NEW w \in Workers, Preflight(w) PROVE RowsRight'
  BY <1>10, <1>c DEF Preflight
<1>11. ASSUME NEW w \in Workers, GiveUp(w) PROVE RowsRight'
  <2> DEFINE a == worker[w].app
  <2>1. a \in Apps /\ UNCHANGED <<owner, outbox, arrived, verified, attempt>>
    BY <1>11, <1>b DEF GiveUp
  <2>2. CASE Failed(a) /\ app[a].status = "queued"
    <3>1. arrived[a] = 0
      BY <1>a, <2>1, <2>2 DEF AppRight
    <3> QED BY ZenonT(60), <2>1, <2>2, <3>1, FailedRow, AppEnds DEF TypeOK
  <2>3. CASE UNCHANGED <<app, admission, ledger>>
    BY <2>1, <2>3, <1>c DEF rows
  <2> QED BY <1>11, <2>2, <2>3 DEF GiveUp, Stops
<1>12. ASSUME NEW w \in Workers, Launch(w) PROVE RowsRight'
  <2>0. PICK a \in Apps : a = worker[w].app
    BY <1>12, <1>b DEF Launch
  <2>1. a \in Apps /\ UNCHANGED <<owner, outbox, arrived, verified>>
    BY <1>12 DEF Launch
  <2>2. CASE /\ MayLaunch(a)
             /\ app' = [app EXCEPT ![a].status = "submitting"]
             /\ admission' = [admission EXCEPT ![a] = [@ EXCEPT !.state = "submitting",
                                                                !.sent = TRUE, !.recent = TRUE]]
             /\ attempt' = [attempt EXCEPT ![a] = "submitting"] /\ UNCHANGED ledger
    <3>1. /\ app'[a].status = "submitting" /\ app'[a].claims = app[a].claims
          /\ admission'[a].state = "submitting" /\ admission'[a].sent
          /\ attempt'[a] = "submitting" /\ money'[a] = money[a]
      BY <1>a, <2>1, <2>2 DEF AppRow, AdmissionRow, TypeOK, RowsType, RestType, ledger
    <3>2. AppRight(a)'
      BY <1>a, <2>1, <2>2, <3>1 DEF MayLaunch, AppRight, InDoubt, Pending, outbox
    <3>3. Rest(a)
      BY <2>1, <2>2, AppKept DEF outbox, ledger, TypeOK, RowsType, RestType, RowsRight, AppRight
    <3> QED BY <2>1, <3>2, <3>3, <1>0
  <2>3. CASE Failed(a) /\ app[a].status = "queued" /\ UNCHANGED attempt
    <3>1. arrived[a] = 0
      BY <1>a, <2>1, <2>3 DEF AppRight
    <3> QED BY <2>1, <2>3, <3>1, FailedRow, AppEnds DEF TypeOK
  <2>4. CASE UNCHANGED <<app, admission, ledger, attempt>>
    BY <2>1, <2>4, <1>c DEF rows
  <2> QED BY <1>12, <2>0, <2>2, <2>3, <2>4 DEF Launch
<1>13. ASSUME NEW w \in Workers, Send(w) \/ Crash(w) PROVE RowsRight'
  <2>0. PICK a \in Apps : a = worker[w].app
    BY <1>13, <1>b DEF Send, Crash
  <2>1. a \in Apps /\ UNCHANGED <<rows, outbox, verified>>
    BY <1>13 DEF Send, Crash
  <2>2. PICK n \in {0, 1} : /\ arrived' = [arrived EXCEPT ![a] = @ + n]
                            /\ n # 0 => worker[w].phase = "send"
    BY <1>13, <2>0 DEF Send, Crash
  <2>3. n # 0 => /\ app[a].status \in InDoubt \cup {"confirmed", "erased"}
                 /\ money[a] = "reserved" /\ arrived[a] = 0
    BY <2>0, <2>2 DEF WorkersRight, WorkerRight
  <2>4. arrived'[a] = arrived[a] + n /\ arrived[a] \in {0, 1}
    BY <1>a, <2>1, <2>2 DEF TypeOK, RestType, AppRight
  <2>5. AppRight(a)'
    <3>1. CASE n = 0
      BY <1>a, <2>1, <2>4, <3>1, AppKept DEF rows, outbox, ledger, AppRight
    <3>2. CASE n = 1
      BY <1>a, <2>1, <2>3, <2>4, <3>2 DEF rows, outbox, ledger, AppRight, InDoubt
    <3> QED BY <3>1, <3>2
  <2>6. Rest(a)
    BY <2>1, <2>2, AppKept DEF rows, outbox, ledger, RowsRight, AppRight, TypeOK, RestType
  <2> QED BY <2>1, <2>5, <2>6, <1>0
<1>14. ASSUME NEW w \in Workers, Record(w) PROVE RowsRight'
  <2>0. PICK a \in Apps : a = worker[w].app
    BY <1>14, <1>b DEF Record
  <2>1. a \in Apps /\ UNCHANGED <<owner, outbox, arrived, verified>>
    BY <1>14 DEF Record
  <2>2. /\ app[a].status \in InDoubt \cup {"confirmed", "erased"}
        /\ worker[w].outcome \in {"receipt", "rejected", "unclear"}
        /\ worker[w].outcome = "receipt" => arrived[a] # 0
        /\ worker[w].outcome = "rejected" => arrived[a] = 0
    BY <1>14, <2>0 DEF Record, WorkersRight, WorkerRight
  <2>3. CASE UNCHANGED <<app, admission, ledger, attempt>>
    BY <2>1, <2>3, <1>c DEF rows
  <2> DEFINE written == CASE worker[w].outcome = "receipt" -> "confirmed"
                          [] worker[w].outcome = "rejected" -> "failed"
                          [] worker[w].outcome = "unclear" -> "unknown"
  <2>4. CASE app[a].status # "erased" /\ attempt' = [attempt EXCEPT ![a] = written]
    <3>1. \A b \in Apps \ {a} : attempt'[b] = attempt[b]
      BY <2>4 DEF TypeOK, RestType
    <3>2. CASE app[a].status = "confirmed" /\ UNCHANGED <<app, admission, ledger>>
      <4>1. AppRight(a)'
        BY <1>a, <2>1, <3>2 DEF AppRight, InDoubt, outbox, ledger
      <4>2. Rest(a)
        BY <2>1, <3>1, <3>2, AppKept DEF outbox, ledger, RowsRight, AppRight
      <4> QED BY <2>1, <4>1, <4>2, <1>0
    <3>3. CASE worker[w].outcome = "receipt" /\ app[a].status \in InDoubt /\ Confirmed(a)
      BY <2>1, <2>2, <3>1, <3>3, AppConfirmed
    <3>4. CASE worker[w].outcome = "rejected" /\ app[a].status \in InDoubt /\ Failed(a)
      BY <2>1, <2>2, <3>1, <3>4, FailedRow, AppEnds DEF TypeOK, InDoubt
    <3>5. CASE worker[w].outcome = "unclear" /\ app[a].status \in InDoubt /\ Uncertain(a)
      <4>1. attempt'[a] = "unknown"
        BY <2>1, <2>4, <3>5 DEF TypeOK, RestType
      <4> QED BY <2>1, <3>1, <3>5, <4>1, AppUncertain
    <3> QED BY <1>14, <2>0, <2>2, <2>4, <3>2, <3>3, <3>4, <3>5 DEF Record, SettledElsewhere
  <2> QED BY <1>14, <2>0, <2>3, <2>4 DEF Record
<1>15. ASSUME NEW w \in Workers, Return(w) PROVE RowsRight'
  <2> DEFINE a == worker[w].app
  <2>1. a \in Apps /\ app[a].status # "queued" /\ event[a] # "none"
    BY <1>15, <1>b DEF Return, WorkersRight, WorkerRight
  <2> QED BY <1>15, <2>1, AppKept DEF Return, RowsRight, AppRight, rows, ledger, TypeOK, RestType
<1>16. ASSUME NEW a \in Apps, ReconcileConfirmed(a) PROVE RowsRight'
  BY <1>16, AppConfirmed DEF ReconcileConfirmed, InDoubt, TypeOK, RestType
<1>17. ASSUME NEW a \in Apps, ReconcileNotSubmitted(a) PROVE RowsRight'
  <2>1. /\ OthersKept(a) /\ app'[a].status = "failed" /\ ~app'[a].claims
        /\ admission'[a] = Finished(admission[a], "verified_not_submitted", TRUE)
        /\ money'[a] = (IF money[a] = "reserved" THEN "returned" ELSE money[a])
    BY ZenonT(60), <1>17, EndedRow DEF ReconcileNotSubmitted, TypeOK
  <2> QED BY <1>17, <2>1, AppEnds DEF ReconcileNotSubmitted
<1>18. ASSUME NEW a \in Apps, Lapse(a) PROVE RowsRight'
  BY <1>18, AppKept DEF Lapse, RowsRight, AppRight, rows, ledger, TypeOK, RestType
<1>19. ASSUME NEW a \in Apps, Age(a) PROVE RowsRight'
  <2>1. AppRight(a)'
    BY <1>19, <1>a
       DEF Age, AppRight, AdmissionRow, NoAdmission, InDoubt, outbox, ledger, TypeOK, RowsType
  <2>2. Rest(a)
    BY <1>19, AppKept DEF Age, outbox, ledger, TypeOK, RowsType, RowsRight, AppRight
  <2> QED BY <2>1, <2>2, <1>0
<1>20. CASE UNCHANGED vars
  BY <1>20, <1>c DEF vars
<1> QED
  BY <1>1, <1>2, <1>3, <1>4, <1>5, <1>6, <1>7, <1>8, <1>9, <1>10, <1>11, <1>12, <1>13, <1>14,
     <1>15, <1>16, <1>17, <1>18, <1>19, <1>20 DEF Next, WorkerStep

-----------------------------------------------------------------------------
(* Types. *)

\* Every step keeps the types; credits stay natural numbers.
LEMMA TypeStep ==
    ASSUME TypeOK, WorkersRight, [Next]_vars
    PROVE  TypeOK'
<1>b. ASSUME NEW w \in Workers, worker[w].phase # "idle" PROVE worker[w].app \in Apps
  BY <1>b DEF WorkersRight, WorkerRight
<1>c. UNCHANGED <<app, admission, ledger>> => RowsType'
  BY DEF TypeOK, RowsType, ledger
<1>d. RowsType /\ RestType
  BY DEF TypeOK
<1>e. ASSUME NEW w \in Workers, NEW phase \in {"preflight", "giveup", "launch", "send", "return"},
             Goto(w, phase)
      PROVE  worker' \in [Workers -> WorkerState]
  BY <1>d, <1>e DEF Goto, RestType, WorkerState
<1>f. Idle \in WorkerState
  BY DEF Idle, WorkerState
<1>1. ASSUME NEW a \in Apps, NEW o \in Openings, Create(a, o) PROVE TypeOK'
  BY <1>1, <1>d DEF Create, TypeOK, RowsType, RestType, AppRow, ledger, outbox
<1>2. ASSUME NEW a \in Apps, Edit(a) \/ Approve(a) PROVE TypeOK'
  BY ZenonT(60), <1>2, <1>d DEF Edit, Approve, TypeOK, RowsType, RestType, AppRow, ledger, outbox
<1>4. ASSUME NEW a \in Apps, Request(a) PROVE TypeOK'
  <2>1. [NoAdmission EXCEPT !.state = "reserved", !.claims = TRUE] \in AdmissionRow
    BY DEF NoAdmission, AdmissionRow, Pending
  <2> QED BY <1>4, <1>d, <2>1 DEF Request, TypeOK, RowsType, RestType, AppRow, outbox
<1>5. ASSUME NEW a \in Apps, Cancel(a) PROVE TypeOK'
  <2>1. CASE app[a].status \in InDoubt
    <3>1. [admission[a] EXCEPT !.state = "unknown"] \in AdmissionRow
      BY <1>d DEF RowsType, AdmissionRow, Pending
    <3>2. admission' = [admission EXCEPT ![a] = [admission[a] EXCEPT !.state = "unknown"]]
      BY <1>5, <1>d, <2>1 DEF Cancel, RowsType
    <3> QED BY <1>5, <1>d, <2>1, <3>1, <3>2 DEF Cancel, TypeOK, RowsType, RestType, ledger, outbox
  <2>2. CASE app[a].status \notin InDoubt
    BY <1>5, <1>d, <2>2, EndedRow DEF Cancel, TypeOK, RestType, outbox
  <2> QED BY <2>1, <2>2
<1>6. CASE Erase
  <2>1. app' \in [Apps -> AppRow]
    BY <1>6, <1>d DEF Erase, RowsType, AppRow
  <2>2. admission' \in [Apps -> AdmissionRow]
    <3> DEFINE kept(a) == IF a \in {q \in Apps : app[q].status \notin InDoubt \cup {"confirmed", "none"}}
                          THEN Finished(admission[a], "account_deleted", FALSE) ELSE admission[a]
    <3>1. \A a \in Apps : kept(a) \in AdmissionRow
      BY <1>d, FinishedRow DEF RowsType
    <3>2. \A a \in Apps : [kept(a) EXCEPT !.claims = FALSE] \in AdmissionRow
      BY <3>1 DEF AdmissionRow
    <3>3. admission' = [a \in Apps |-> [kept(a) EXCEPT !.claims = FALSE]]
      BY <1>6 DEF Erase
    <3> HIDE DEF kept
    <3> QED BY <3>2, <3>3
  <2> QED BY <1>6, <1>d, <2>1, <2>2 DEF Erase, TypeOK, RowsType, RestType, Unsettled, outbox
<1>7. ASSUME NEW a \in Apps, NEW w \in Workers, Deliver(w, a) PROVE TypeOK'
  BY <1>7, <1>d DEF Deliver, TypeOK, RowsType, RestType, WorkerState, rows, ledger
<1>8. ASSUME NEW w \in Workers, SettleExhausted(w) PROVE TypeOK'
  <2>1. RowsType'
    BY <1>8, <1>b, <1>c, <1>d, FailedRow, UncertainRow DEF SettleExhausted
  <2> QED BY <1>8, <1>d, <1>e, <2>1 DEF SettleExhausted, TypeOK, RestType, outbox
<1>9. ASSUME NEW w \in Workers, Begin(w) PROVE TypeOK'
  <2>1. RowsType'
    BY <1>9, <1>b, <1>c, <1>d, FailedRow, UncertainRow DEF Begin
  <2> QED BY <1>9, <1>d, <1>e, <2>1 DEF Begin, TypeOK, RestType, outbox
<1>10. ASSUME NEW w \in Workers, Preflight(w) PROVE TypeOK'
  BY <1>10, <1>c, <1>d, <1>e DEF Preflight, TypeOK, RestType, rows, outbox
<1>11. ASSUME NEW w \in Workers, GiveUp(w) PROVE TypeOK'
  <2>1. RowsType'
    BY <1>11, <1>b, <1>c, <1>d, FailedRow DEF GiveUp
  <2> QED BY <1>11, <1>d, <1>e, <2>1 DEF GiveUp, TypeOK, RestType, outbox
<1>12. ASSUME NEW w \in Workers, Launch(w) PROVE TypeOK'
  <2>1. RowsType'
    <3>0. PICK a \in Apps : a = worker[w].app
      BY <1>12, <1>b DEF Launch
    <3>1. CASE /\ app' = [app EXCEPT ![a].status = "submitting"]
               /\ admission' = [admission EXCEPT ![a] = [@ EXCEPT !.state = "submitting",
                                                                  !.sent = TRUE, !.recent = TRUE]]
               /\ UNCHANGED ledger
      <4>1. [admission[a] EXCEPT !.state = "submitting", !.sent = TRUE, !.recent = TRUE] \in AdmissionRow
        BY <1>d DEF RowsType, AdmissionRow, Pending
      <4> QED BY <1>d, <3>1, <4>1 DEF RowsType, AppRow, ledger
    <3> QED BY <1>12, <1>c, <1>d, <3>0, <3>1, FailedRow DEF Launch
  <2> QED BY <1>12, <1>d, <1>e, <2>1 DEF Launch, TypeOK, RestType, outbox
<1>13. ASSUME NEW w \in Workers, Send(w) PROVE TypeOK'
  <2>1. arrived' \in [Apps -> Nat]
    <3>1. PICK n \in {0, 1} : arrived' = [arrived EXCEPT ![worker[w].app] = @ + n]
      BY <1>13 DEF Send
    <3>2. worker[w].app \in Apps
      BY <1>13, <1>b DEF Send
    <3>3. arrived[worker[w].app] + n \in Nat
      BY <1>d, <3>2 DEF RestType
    <3> QED BY <1>d, <3>1, <3>2, <3>3 DEF RestType
  <2>2. worker' \in [Workers -> WorkerState]
    <3>1. PICK outcome \in {"receipt", "rejected", "unclear"} :
            worker' = [worker EXCEPT ![w] = [@ EXCEPT !.phase = "record", !.outcome = outcome]]
      BY <1>13 DEF Send
    <3>2. [worker[w] EXCEPT !.phase = "record", !.outcome = outcome] \in WorkerState
      BY <1>d DEF RestType, WorkerState
    <3> QED BY <1>d, <3>1, <3>2 DEF RestType
  <2> QED BY <1>13, <1>c, <1>d, <2>1, <2>2 DEF Send, TypeOK, RestType, rows, outbox
<1>14. ASSUME NEW w \in Workers, Crash(w) PROVE TypeOK'
  <2>1. arrived' \in [Apps -> Nat]
    <3>1. PICK n \in {0, 1} : arrived' = [arrived EXCEPT ![worker[w].app] = @ + n]
      BY <1>14 DEF Crash
    <3>2. worker[w].app \in Apps
      BY <1>14, <1>b DEF Crash
    <3>3. arrived[worker[w].app] + n \in Nat
      BY <1>d, <3>2 DEF RestType
    <3> QED BY <1>d, <3>1, <3>2, <3>3 DEF RestType
  <2> QED BY <1>14, <1>c, <1>d, <1>f, <2>1 DEF Crash, Fault, TypeOK, RestType, rows, outbox
<1>15. ASSUME NEW w \in Workers, Record(w) PROVE TypeOK'
  <2>1. RowsType'
    BY <1>15, <1>b, <1>c, <1>d, FailedRow, UncertainRow, ConfirmedRow
       DEF Record, WorkersRight, WorkerRight
  <2>2. attempt' \in [Apps -> {"none", "submitting", "confirmed", "failed", "unknown"}]
    <3>1. worker[w].outcome \in {"receipt", "rejected", "unclear"}
      BY <1>15 DEF Record, WorkersRight, WorkerRight
    <3> QED BY <1>15, <1>d, <3>1 DEF Record, RestType
  <2> QED BY <1>15, <1>d, <1>e, <2>1, <2>2 DEF Record, TypeOK, RestType, outbox
<1>16. ASSUME NEW w \in Workers, Return(w) PROVE TypeOK'
  BY <1>16, <1>c, <1>d, <1>f DEF Return, TypeOK, RestType, rows
<1>17. ASSUME NEW a \in Apps, ReconcileConfirmed(a) PROVE TypeOK'
  BY <1>17, <1>d, ConfirmedRow DEF ReconcileConfirmed, TypeOK, RestType, outbox
<1>18. ASSUME NEW a \in Apps, ReconcileNotSubmitted(a) PROVE TypeOK'
  BY <1>18, <1>d, EndedRow DEF ReconcileNotSubmitted, TypeOK, RestType, outbox
<1>19. ASSUME NEW a \in Apps, Lapse(a) PROVE TypeOK'
  BY <1>19, <1>c, <1>d DEF Lapse, Fault, TypeOK, RestType, rows
<1>20. ASSUME NEW a \in Apps, Age(a) PROVE TypeOK'
  BY ZenonT(60), <1>20, <1>d DEF Age, TypeOK, RowsType, RestType, AdmissionRow, ledger, outbox
<1>21. CASE UNCHANGED vars
  BY <1>21, <1>c, <1>d DEF vars, rows, outbox, TypeOK, RestType
<1> QED
  BY <1>1, <1>2, <1>4, <1>5, <1>6, <1>7, <1>8, <1>9, <1>10, <1>11, <1>12, <1>13, <1>14, <1>15,
     <1>16, <1>17, <1>18, <1>19, <1>20, <1>21 DEF Next, WorkerStep

-----------------------------------------------------------------------------
(* The workers. *)

\* What a step may not do to an application while a worker is at it.
Safe(b) ==
    /\ event[b] # "none" => event'[b] # "none"
    /\ app'[b].status = "queued" => app[b].status = "queued" \/ event[b] = "none"
    /\ \A v \in Workers : Sends(v, b) /\ worker'[v] = worker[v] =>
          /\ arrived'[b] = arrived[b]
          /\ app'[b].status \in InDoubt \cup {"confirmed", "erased"}
          /\ app'[b].status \in InDoubt => attempt'[b] = "submitting"
          /\ worker[v].phase = "send" => money'[b] = money[b]

\* A worker that does nothing still knows what it knew.
LEMMA WorkerKept ==
    ASSUME WorkersRight, NEW v \in Workers, worker'[v] = worker[v],
           \A b \in Apps : Safe(b)
    PROVE  WorkerRight(v)'
<1>1. WorkerRight(v)
  BY DEF WorkersRight
<1>2. CASE worker[v].phase = "idle"
  BY <1>2 DEF WorkerRight
<1>3. CASE worker[v].phase # "idle"
  <2>1. PICK b \in Apps : b = worker[v].app
    BY <1>1, <1>3 DEF WorkerRight
  <2> QED BY <1>1, <1>3, <2>1 DEF WorkerRight, Safe, Sends
<1> QED BY <1>2, <1>3

\* An untouched application is one no worker can be surprised by.
LEMMA SafeSame ==
    ASSUME WorkersRight, NEW b \in Apps, app'[b] = app[b], attempt'[b] = attempt[b],
           money'[b] = money[b], arrived'[b] = arrived[b],
           event[b] # "none" => event'[b] # "none"
    PROVE  Safe(b)
BY DEF Safe, WorkersRight, WorkerRight, Sends

\* Nobody sends an application that is not in doubt, confirmed or erased.
LEMMA SafeUnsent ==
    ASSUME WorkersRight, NEW b \in Apps,
           app[b].status \notin InDoubt \cup {"confirmed", "erased"},
           event[b] # "none" => event'[b] # "none",
           app'[b].status = "queued" => app[b].status = "queued" \/ event[b] = "none"
    PROVE  Safe(b)
BY DEF Safe, WorkersRight, WorkerRight, Sends

\* What follows for the workers when no worker gets a permit to send.
LEMMA WorkersGoOn ==
    ASSUME WorkersRight, \A b \in Apps : Safe(b), NEW S \in SUBSET Workers,
           \A v \in Workers \ S : worker'[v] = worker[v],
           \A v \in S : WorkerRight(v)' /\ \A b \in Apps : Sends(v, b)' => Sends(v, b)
    PROVE  WorkersRight'
<1>1. \A v \in Workers : WorkerRight(v)'
  BY WorkerKept
<1>2. \A v \in Workers : \A b \in Apps : Sends(v, b)' => Sends(v, b)
  BY DEF Sends
<1>3. SenderAlone'
  BY <1>2 DEF WorkersRight, SenderAlone
<1> QED BY <1>1, <1>3 DEF WorkersRight

\* What a worker learned in one transaction still holds in its next one.
LEMMA WorkersStep ==
    ASSUME TypeOK, RowsRight, WorkersRight, [Next]_vars
    PROVE  WorkersRight'
<1>a. ASSUME NEW a \in Apps PROVE AppRight(a) /\ app[a] \in AppRow /\ admission[a] \in AdmissionRow
  BY DEF RowsRight, TypeOK, RowsType
<1>b. ASSUME NEW w \in Workers, worker[w].phase # "idle"
      PROVE  worker[w].app \in Apps /\ event[worker[w].app] # "none"
  BY <1>b DEF WorkersRight, WorkerRight
<1>c. ASSUME UNCHANGED worker, \A b \in Apps : Safe(b) PROVE WorkersRight'
  <2>1. {} \in SUBSET Workers
    OBVIOUS
  <2> QED BY <1>c, <2>1, WorkersGoOn
<1>d. RowsType /\ RestType
  BY DEF TypeOK
\* One worker takes a step that is not a launch.
<1>e. ASSUME NEW w \in Workers, \A b \in Apps : Safe(b), NEW state,
             worker' = [worker EXCEPT ![w] = state],
             WorkerRight(w)', \A b \in Apps : Sends(w, b)' => Sends(w, b)
      PROVE  WorkersRight'
  <2>1. \A v \in Workers \ {w} : worker'[v] = worker[v]
    BY <1>d, <1>e DEF RestType
  <2>2. {w} \in SUBSET Workers /\ \A v \in Workers \ {w} : worker'[v] = worker[v]
    BY <2>1
  <2>3. \A v \in {w} : WorkerRight(v)' /\ \A b \in Apps : Sends(v, b)' => Sends(v, b)
    BY <1>e
  <2> HIDE DEF WorkersRight
  <2> QED BY <1>e, <2>2, <2>3, WorkersGoOn
<1>f. ASSUME NEW w \in Workers, NEW phase, Goto(w, phase)
      PROVE  /\ \E state : worker' = [worker EXCEPT ![w] = state]
             /\ worker'[w].phase = phase /\ worker'[w].app = worker[w].app
             /\ worker'[w].outcome = worker[w].outcome
             /\ phase \notin {"send", "record"} => \A b \in Apps : ~Sends(w, b)'
  <2>1. worker' = [worker EXCEPT ![w] = [worker[w] EXCEPT !.phase = phase]]
    BY <1>d, <1>f DEF Goto, RestType
  <2>2. [worker[w] EXCEPT !.phase = phase].phase = phase
    BY <1>d DEF RestType, WorkerState
  <2>3. [worker[w] EXCEPT !.phase = phase].app = worker[w].app
    BY <1>d DEF RestType, WorkerState
  <2>4. [worker[w] EXCEPT !.phase = phase].outcome = worker[w].outcome
    BY <1>d DEF RestType, WorkerState
  <2>5. worker'[w] = [worker[w] EXCEPT !.phase = phase]
    BY <1>d, <2>1 DEF RestType
  <2> QED BY <2>1, <2>2, <2>3, <2>4, <2>5 DEF Sends
\* A worker comes back from its application.
<1>g. ASSUME NEW w \in Workers, Goto(w, "return"), worker[w].phase # "idle",
             NEW a \in Apps, a = worker[w].app, app'[a].status # "queued", event' = event,
             \A b \in Apps : Safe(b)
      PROVE  WorkersRight'
  <2>1. WorkerRight(w)'
    BY <1>b, <1>f, <1>g DEF WorkerRight
  <2> QED BY <1>e, <1>f, <1>g, <2>1
\* It leaves it failed, unsent; or uncertain; or as it was.
<1>h. ASSUME NEW w \in Workers, Goto(w, "return"), worker[w].phase # "idle",
             NEW a \in Apps, a = worker[w].app, UNCHANGED <<outbox, arrived>>,
             \A b \in Apps \ {a} : attempt'[b] = attempt[b],
             \/ Failed(a) /\ app[a].status = "queued"
             \/ Uncertain(a) /\ app[a].status = "submitting" /\ UNCHANGED attempt
             \/ UNCHANGED <<app, admission, ledger, attempt>> /\ app[a].status # "queued"
      PROVE  WorkersRight'
  <2>1. CASE Failed(a) /\ app[a].status = "queued"
    <3>1. OthersKept(a) /\ app'[a].status = "failed"
      BY <1>d, <2>1, FailedRow
    <3>2. Safe(a)
      BY <1>h, <2>1, <3>1, SafeUnsent DEF outbox, InDoubt
    <3>3. \A b \in Apps \ {a} : Safe(b)
      BY <1>h, <3>1, SafeSame DEF OthersKept, outbox
    <3> QED BY <1>h, <3>1, <3>2, <3>3, <1>g DEF outbox
  <2>2. CASE Uncertain(a) /\ app[a].status = "submitting" /\ UNCHANGED attempt
    <3>1. OthersKept(a) /\ app'[a].status = "unknown" /\ UNCHANGED money
      BY <1>d, <2>2, UncertainRow DEF ledger
    <3>2. Safe(a)
      BY <1>h, <2>2, <3>1 DEF Safe, WorkersRight, WorkerRight, Sends, InDoubt, outbox
    <3>3. \A b \in Apps \ {a} : Safe(b)
      BY <1>h, <3>1, SafeSame DEF OthersKept, outbox
    <3> QED BY <1>h, <3>1, <3>2, <3>3, <1>g DEF outbox
  <2>3. CASE UNCHANGED <<app, admission, ledger, attempt>> /\ app[a].status # "queued"
    <3>1. \A b \in Apps : Safe(b)
      BY <1>h, <2>3, SafeSame DEF outbox, ledger
    <3> QED BY <1>h, <2>3, <3>1, <1>g DEF outbox
  <2> QED BY <1>h, <2>1, <2>2, <2>3
<1>1. ASSUME NEW a \in Apps, NEW o \in Openings, Create(a, o) PROVE WorkersRight'
  <2>1. Safe(a)
    BY <1>1, <1>a, SafeUnsent DEF Create, AppRight, InDoubt, RowsType, outbox, TypeOK
  <2>2. \A b \in Apps \ {a} : Safe(b)
    BY <1>1, SafeSame DEF Create, outbox, ledger
  <2> QED BY <1>1, <1>c, <2>1, <2>2 DEF Create
<1>2. ASSUME NEW a \in Apps, Edit(a) \/ Approve(a) PROVE WorkersRight'
  <2>1. Safe(a)
    BY <1>2, <1>a, <1>d, SafeUnsent DEF Edit, Approve, AppRow, InDoubt, RowsType, outbox
  <2>2. \A b \in Apps \ {a} : Safe(b)
    BY <1>2, <1>d, SafeSame DEF Edit, Approve, RowsType, outbox, ledger
  <2> QED BY <1>2, <1>c, <2>1, <2>2 DEF Edit, Approve
<1>3. ASSUME NEW a \in Apps, Request(a) PROVE WorkersRight'
  <2>1. Safe(a)
    BY <1>3, <1>a, <1>d, SafeUnsent DEF Request, AppRight, InDoubt, RestType
  <2>2. \A b \in Apps \ {a} : Safe(b)
    BY <1>3, <1>d, SafeSame DEF Request, RestType, RowsType
  <2> QED BY <1>3, <1>c, <2>1, <2>2 DEF Request
<1>4. ASSUME NEW a \in Apps, Cancel(a) PROVE WorkersRight'
  <2>1. CASE app[a].status \in InDoubt
    <3>1. \A b \in Apps : Safe(b)
      BY <1>4, <2>1, SafeSame DEF Cancel, outbox, ledger
    <3> QED BY <1>4, <1>c, <3>1 DEF Cancel
  <2>2. CASE app[a].status \notin InDoubt
    <3>1. OthersKept(a) /\ app'[a].status = "cancelled"
      BY <1>4, <2>2, <1>d, EndedRow DEF Cancel
    <3>2. Safe(a)
      BY <1>4, <2>2, <3>1, SafeUnsent DEF Cancel, outbox
    <3>3. \A b \in Apps \ {a} : Safe(b)
      BY <1>4, <3>1, SafeSame DEF Cancel, OthersKept, outbox
    <3> QED BY <1>4, <1>c, <3>2, <3>3 DEF Cancel
  <2> QED BY <2>1, <2>2
<1>5. CASE Erase
  <2> SUFFICES ASSUME NEW b \in Apps PROVE Safe(b)
    BY <1>5, <1>c DEF Erase
  <2>1. /\ UNCHANGED <<event, arrived, worker>>
        /\ app'[b].status = IF app[b].status = "none" THEN "none" ELSE "erased"
        /\ app[b].status \in InDoubt \cup {"confirmed"} => money'[b] = money[b]
    BY <1>5, <1>a DEF Erase, AppRow, outbox
  <2>2. CASE app[b].status \in InDoubt \cup {"confirmed"}
    BY <2>1, <2>2 DEF Safe, InDoubt
  <2>3. CASE app[b].status \notin InDoubt \cup {"confirmed"}
    <3>1. app[b].status # "erased"
      BY <1>5, <1>a DEF Erase, AppRight
    <3> QED BY <2>1, <2>3, <3>1, SafeUnsent
  <2> QED BY <2>2, <2>3
<1>6. ASSUME NEW a \in Apps, NEW w \in Workers, Deliver(w, a) PROVE WorkersRight'
  <2>1. \A b \in Apps : Safe(b)
    BY <1>6, <1>d, SafeSame DEF Deliver, RestType, rows, ledger
  <2>2. worker'[w].phase \in {"settle", "begin"} /\ worker'[w].app = a /\ event'[a] = "held"
    BY <1>6, <1>d DEF Deliver, RestType
  <2> QED BY <1>6, <1>e, <2>1, <2>2 DEF Deliver, WorkerRight, Sends
<1>7. ASSUME NEW w \in Workers, SettleExhausted(w) PROVE WorkersRight'
  <2>0. PICK a \in Apps : a = worker[w].app
    BY <1>7, <1>b DEF SettleExhausted
  <2>1. app[a].status = "queued" <=> app[a].status \in {"queued", "submitting"} /\ attempt[a] = "none"
    BY <1>a DEF AppRight, InDoubt
  <2> QED BY <1>7, <1>h, <2>0, <2>1 DEF SettleExhausted
<1>8. ASSUME NEW w \in Workers, Begin(w) PROVE WorkersRight'
  <2>0. PICK a \in Apps : a = worker[w].app
    BY <1>8, <1>b DEF Begin
  <2>1. CASE /\ Goto(w, "return")
             /\ \/ Failed(a) /\ app[a].status = "queued"
                \/ Uncertain(a) /\ app[a].status = "submitting"
                \/ UNCHANGED <<app, admission, ledger>> /\ app[a].status # "queued"
    BY <1>8, <1>h, <2>0, <2>1 DEF Begin
  <2>2. CASE UNCHANGED <<app, admission, ledger>> /\ Goto(w, "preflight")
    <3>1. \A b \in Apps : Safe(b)
      BY <1>8, <2>2, SafeSame DEF Begin, outbox, ledger
    <3>2. WorkerRight(w)'
      BY <1>8, <2>2, <1>b, <1>f DEF Begin, WorkerRight, outbox
    <3> QED BY <2>2, <3>1, <3>2, <1>e, <1>f
  <2> QED BY <1>8, <2>0, <2>1, <2>2 DEF Begin
<1>9. ASSUME NEW w \in Workers, Preflight(w) PROVE WorkersRight'
  <2>1. PICK next \in {"launch", "giveup"} : Goto(w, next)
    BY <1>9 DEF Preflight
  <2>2. \A b \in Apps : Safe(b)
    BY <1>9, SafeSame DEF Preflight, rows, outbox, ledger
  <2>3. WorkerRight(w)'
    BY <1>9, <2>1, <1>b, <1>f DEF Preflight, WorkerRight, rows, outbox
  <2> QED BY <2>1, <2>2, <2>3, <1>e, <1>f
<1>10. ASSUME NEW w \in Workers, GiveUp(w) PROVE WorkersRight'
  <2>0. PICK a \in Apps : a = worker[w].app
    BY <1>10, <1>b DEF GiveUp
  <2> QED BY <1>10, <1>h, <2>0 DEF GiveUp, Stops
<1>11. ASSUME NEW w \in Workers, Launch(w) PROVE WorkersRight'
  <2>0. PICK a \in Apps : a = worker[w].app
    BY <1>11, <1>b DEF Launch
  <2>1. CASE /\ Goto(w, "return") /\ UNCHANGED attempt
             /\ \/ Failed(a) /\ app[a].status = "queued"
                \/ UNCHANGED <<app, admission, ledger>> /\ app[a].status # "queued"
    BY <1>11, <1>h, <2>0, <2>1 DEF Launch
  <2>2. CASE /\ MayLaunch(a) /\ Goto(w, "send")
             /\ app' = [app EXCEPT ![a].status = "submitting"]
             /\ attempt' = [attempt EXCEPT ![a] = "submitting"] /\ UNCHANGED ledger
    <3>1. /\ app'[a].status = "submitting" /\ attempt'[a] = "submitting"
          /\ UNCHANGED <<event, arrived, money>>
      BY <1>11, <1>a, <1>d, <2>2 DEF Launch, AppRow, RowsType, RestType, outbox, ledger
    <3>2. \A b \in Apps : Safe(b)
      <4>1. Safe(a)
        BY <2>2, <3>1, SafeUnsent DEF MayLaunch, InDoubt
      <4>2. \A b \in Apps \ {a} : Safe(b)
        BY <1>d, <2>2, <3>1, SafeSame DEF RowsType, RestType
      <4> QED BY <4>1, <4>2
    <3>3. WorkerRight(w)'
      <4>1. money[a] = "reserved" /\ arrived[a] = 0
        BY <1>a, <2>2 DEF MayLaunch, AppRight
      <4>2. /\ worker'[w].phase = "send" /\ worker'[w].app = a /\ event'[a] # "none"
        BY <1>11, <1>b, <1>f, <2>0, <2>2, <3>1 DEF Launch
      <4> QED BY <3>1, <4>1, <4>2 DEF WorkerRight, InDoubt
    <3>4. \A v \in Workers \ {w} : worker'[v] = worker[v]
      BY <1>d, <2>2 DEF Goto, RestType
    <3>5. SenderAlone'
      <4>1. \A v \in Workers : ~Sends(v, a)
        BY <2>2 DEF MayLaunch, WorkersRight, WorkerRight, Sends, InDoubt
      <4>2. worker'[w].app = a
        BY <1>f, <2>0, <2>2
      <4> QED BY <3>4, <4>1, <4>2 DEF SenderAlone, Sends, WorkersRight
    <3>6. \A v \in Workers : WorkerRight(v)'
      BY <3>2, <3>3, <3>4, WorkerKept
    <3> QED BY <3>5, <3>6 DEF WorkersRight
  <2> QED BY <1>11, <2>0, <2>1, <2>2 DEF Launch
<1>12. ASSUME NEW w \in Workers, Send(w) PROVE WorkersRight'
  <2>0. PICK a \in Apps : a = worker[w].app /\ Sends(w, a)
    BY <1>12, <1>b DEF Send, Sends
  <2>1. PICK outcome \in {"receipt", "rejected", "unclear"} :
          /\ worker' = [worker EXCEPT ![w] = [@ EXCEPT !.phase = "record", !.outcome = outcome]]
          /\ \E n \in {0, 1} : /\ arrived' = [arrived EXCEPT ![a] = @ + n]
                               /\ outcome = "receipt" => n = 1
                               /\ outcome = "rejected" => n = 0
    BY <1>12, <2>0 DEF Send
  <2>2. /\ worker'[w].phase = "record" /\ worker'[w].app = a /\ worker'[w].outcome = outcome
        /\ \A v \in Workers \ {w} : worker'[v] = worker[v]
    BY <1>d, <2>0, <2>1 DEF RestType, WorkerState
  <2>3. /\ arrived[a] = 0 /\ \A b \in Apps \ {a} : arrived'[b] = arrived[b]
        /\ outcome = "receipt" => arrived'[a] # 0
        /\ outcome = "rejected" => arrived'[a] = 0
    <3>1. arrived[a] = 0
      BY <1>12, <2>0 DEF Send, WorkersRight, WorkerRight
    <3> QED BY <1>d, <2>1, <3>1 DEF RestType
  <2>4. \A b \in Apps \ {a} : Safe(b)
    BY <1>12, <2>3, SafeSame DEF Send, rows, outbox, ledger
  <2>5. Safe(a)
    BY ZenonT(60), <1>12, <2>0, <2>2, SafeSame
       DEF Send, Safe, WorkersRight, SenderAlone, rows, outbox, ledger, Sends
  <2>6. WorkerRight(w)'
    BY <1>12, <1>b, <2>0, <2>2, <2>3 DEF Send, WorkersRight, WorkerRight, rows, outbox, ledger
  <2> QED BY <1>e, <2>0, <2>1, <2>2, <2>4, <2>5, <2>6 DEF Sends
<1>13. ASSUME NEW w \in Workers, Crash(w) PROVE WorkersRight'
  <2>0. PICK a \in Apps : a = worker[w].app
    BY <1>13, <1>b DEF Crash
  <2>1. /\ worker' = [worker EXCEPT ![w] = Idle] /\ worker'[w] = Idle
        /\ \A v \in Workers \ {w} : worker'[v] = worker[v]
    BY <1>13, <1>d DEF Crash, RestType
  <2>2. /\ \A b \in Apps \ {a} : arrived'[b] = arrived[b]
        /\ arrived'[a] # arrived[a] => Sends(w, a)
    <3>1. PICK n \in {0, 1} : arrived' = [arrived EXCEPT ![a] = @ + n] /\ (n # 0 => Sends(w, a))
      BY <1>13, <2>0 DEF Crash, Sends
    <3> QED BY <1>d, <3>1 DEF RestType
  <2>3. \A b \in Apps \ {a} : Safe(b)
    BY <1>13, <2>2, SafeSame DEF Crash, rows, outbox, ledger
  <2>4. Safe(a)
    <3>1. CASE arrived'[a] = arrived[a]
      BY <1>13, <3>1, SafeSame DEF Crash, rows, outbox, ledger
    <3>2. CASE Sends(w, a)
      <4>1. \A v \in Workers : ~(Sends(v, a) /\ worker'[v] = worker[v])
        BY <2>1, <3>2 DEF WorkersRight, SenderAlone, Sends, Idle
      <4> QED BY <1>13, <4>1 DEF Crash, Safe, rows, outbox
    <3> QED BY <2>2, <3>1, <3>2
  <2>5. WorkerRight(w)' /\ \A b \in Apps : ~Sends(w, b)'
    BY <2>1 DEF WorkerRight, Sends, Idle
  <2> QED BY <1>e, <2>1, <2>3, <2>4, <2>5
<1>14. ASSUME NEW w \in Workers, Record(w) PROVE WorkersRight'
  <2>0. PICK a \in Apps : a = worker[w].app /\ Sends(w, a)
    BY <1>14, <1>b DEF Record, Sends
  <2>1. UNCHANGED <<outbox, arrived>> /\ Goto(w, "return") /\ worker[w].phase # "idle"
    BY <1>14 DEF Record
  <2>2. /\ app[a].status \in InDoubt \cup {"confirmed", "erased"}
        /\ worker[w].outcome \in {"receipt", "rejected", "unclear"}
    BY <1>14, <2>0 DEF Record, WorkersRight, WorkerRight
  <2>3. /\ app'[a].status # "queued"
        /\ \A b \in Apps \ {a} : /\ app'[b] = app[b] /\ money'[b] = money[b]
                                 /\ attempt'[b] = attempt[b]
    <3>1. \A b \in Apps \ {a} : attempt'[b] = attempt[b]
      BY <1>14, <1>d, <2>0 DEF Record, RestType
    <3>2. CASE UNCHANGED <<app, admission, ledger>>
      BY <2>2, <3>1, <3>2 DEF InDoubt, ledger
    <3>3. CASE Confirmed(a) \/ Failed(a) \/ Uncertain(a)
      BY <1>d, <3>1, <3>3, ConfirmedRow, FailedRow, UncertainRow DEF OthersKept, ledger
    <3> QED BY <1>14, <2>0, <2>2, <3>2, <3>3 DEF Record
  <2>4. \A b \in Apps \ {a} : Safe(b)
    BY <2>1, <2>3, SafeSame DEF outbox
  <2>5. Safe(a)
    <3>1. worker'[w] # worker[w]
      BY <1>14, <1>f, <2>1 DEF Record
    <3>2. \A v \in Workers : ~(Sends(v, a) /\ worker'[v] = worker[v])
      BY <2>0, <3>1 DEF WorkersRight, SenderAlone
    <3> QED BY <2>1, <2>3, <3>2 DEF Safe, outbox
  <2> QED BY <1>g, <2>0, <2>1, <2>3, <2>4, <2>5 DEF outbox
<1>15. ASSUME NEW w \in Workers, Return(w) PROVE WorkersRight'
  <2>1. worker' = [worker EXCEPT ![w] = Idle] /\ worker'[w] = Idle
    BY <1>15, <1>d DEF Return, RestType
  <2>2. \A b \in Apps : Safe(b)
    BY <1>15, <1>d, SafeSame DEF Return, RestType, rows, ledger
  <2>3. WorkerRight(w)' /\ \A b \in Apps : ~Sends(w, b)'
    BY <2>1 DEF WorkerRight, Sends, Idle
  <2> QED BY <1>e, <2>1, <2>2, <2>3
<1>16. ASSUME NEW a \in Apps, ReconcileConfirmed(a) PROVE WorkersRight'
  <2>1. /\ UNCHANGED <<outbox, worker, arrived, attempt>> /\ Confirmed(a) /\ arrived[a] # 0
    BY <1>16, <1>d DEF ReconcileConfirmed, RestType
  <2>2. OthersKept(a) /\ app'[a].status = "confirmed"
    BY <1>d, <2>1, ConfirmedRow
  <2>3. Safe(a)
    BY <2>1, <2>2 DEF Safe, WorkersRight, WorkerRight, Sends, InDoubt, outbox
  <2>4. \A b \in Apps \ {a} : Safe(b)
    BY <2>1, <2>2, SafeSame DEF OthersKept, outbox
  <2> QED BY <1>c, <2>1, <2>3, <2>4
<1>17. ASSUME NEW a \in Apps, ReconcileNotSubmitted(a) PROVE WorkersRight'
  <2>1. /\ UNCHANGED <<outbox, worker, arrived, attempt>>
        /\ app[a].status = "unknown" /\ attempt[a] = "unknown"
    BY <1>17 DEF ReconcileNotSubmitted, Resolved
  <2>2. OthersKept(a) /\ app'[a].status = "failed"
    BY <1>17, <1>d, EndedRow DEF ReconcileNotSubmitted
  <2>3. Safe(a)
    BY <2>1, <2>2 DEF Safe, WorkersRight, WorkerRight, Sends, InDoubt, outbox
  <2>4. \A b \in Apps \ {a} : Safe(b)
    BY <2>1, <2>2, SafeSame DEF OthersKept, outbox
  <2> QED BY <1>c, <2>1, <2>3, <2>4
<1>18. ASSUME NEW a \in Apps, Lapse(a) PROVE WorkersRight'
  <2>1. \A b \in Apps : Safe(b)
    BY <1>18, <1>d, SafeSame DEF Lapse, RestType, rows, ledger
  <2> QED BY <1>18, <1>c, <2>1 DEF Lapse
<1>19. ASSUME NEW a \in Apps, Age(a) PROVE WorkersRight'
  <2>1. \A b \in Apps : Safe(b)
    BY <1>19, SafeSame DEF Age, outbox, ledger
  <2> QED BY <1>19, <1>c, <2>1 DEF Age
<1>20. CASE UNCHANGED vars
  <2>1. \A b \in Apps : Safe(b)
    BY <1>20, SafeSame DEF vars, rows, outbox, ledger
  <2> QED BY <1>20, <1>c, <2>1 DEF vars
<1> QED
  BY <1>1, <1>2, <1>3, <1>4, <1>5, <1>6, <1>7, <1>8, <1>9, <1>10, <1>11, <1>12, <1>13, <1>14,
     <1>15, <1>16, <1>17, <1>18, <1>19, <1>20 DEF Next, WorkerStep

-----------------------------------------------------------------------------
(* One application for an opening. *)

\* While the account exists, what may reach an employer claims its opening.
LEMMA AliveClaims ==
    ASSUME RowsRight, WorkersRight, TypeOK, owner, NEW a \in Apps, Alive(a)
    PROVE  app[a].claims
BY DEF RowsRight, AppRight, WorkersRight, WorkerRight, Sends, Alive, InDoubt, TypeOK, RowsType, AppRow

\* Only a new application claims an opening, and an application never changes its own.
LEMMA ClaimsStep ==
    ASSUME TypeOK, WorkersRight, [Next]_vars, ~\E a \in Apps, o \in Openings : Create(a, o)
    PROVE  \A b \in Apps : /\ app'[b].claims => app[b].claims
                           /\ app'[b].opening = app[b].opening
<1> DEFINE Goal == \A b \in Apps : /\ app'[b].claims => app[b].claims
                                   /\ app'[b].opening = app[b].opening
<1>b. ASSUME NEW w \in Workers, worker[w].phase # "idle" PROVE worker[w].app \in Apps
  BY <1>b DEF WorkersRight, WorkerRight
<1>c. UNCHANGED app => Goal
  OBVIOUS
<1>d. RowsType
  BY DEF TypeOK
<1>e. ASSUME NEW a \in Apps, Failed(a) \/ Uncertain(a) \/ Confirmed(a) PROVE Goal
  BY ZenonT(60), <1>d, <1>e, FailedRow, UncertainRow, ConfirmedRow DEF OthersKept
<1> HIDE DEF Goal
<1>1. ASSUME NEW a \in Apps, Edit(a) \/ Approve(a) \/ Request(a) PROVE Goal
  BY <1>1, <1>d DEF Edit, Approve, Request, RowsType, AppRow, Goal
<1>2. ASSUME NEW a \in Apps, Cancel(a) PROVE Goal
  BY <1>2, <1>c, <1>d, EndedRow DEF Cancel, OthersKept, Goal
<1>3. CASE Erase
  BY <1>3, <1>d DEF Erase, RowsType, AppRow, Goal
<1>4. ASSUME NEW a \in Apps, NEW w \in Workers, Deliver(w, a) PROVE Goal
  BY <1>4, <1>c DEF Deliver, rows
<1>5. ASSUME NEW w \in Workers, SettleExhausted(w) \/ Begin(w) \/ GiveUp(w) PROVE Goal
  BY <1>5, <1>b, <1>c, <1>e DEF SettleExhausted, Begin, GiveUp
<1>6. ASSUME NEW w \in Workers, Launch(w) PROVE Goal
  <2>1. ASSUME app' = [app EXCEPT ![worker[w].app].status = "submitting"] PROVE Goal
    BY <1>d, <2>1 DEF RowsType, AppRow, Goal
  <2> QED BY <1>6, <1>b, <1>c, <1>e, <2>1 DEF Launch
<1>7. ASSUME NEW w \in Workers, Record(w) PROVE Goal
  BY <1>7, <1>b, <1>c, <1>e DEF Record, WorkersRight, WorkerRight
<1>8. ASSUME NEW w \in Workers, Preflight(w) \/ Send(w) \/ Return(w) \/ Crash(w) PROVE Goal
  BY <1>8, <1>c DEF Preflight, Send, Return, Crash, rows
<1>9. ASSUME NEW a \in Apps, ReconcileConfirmed(a) PROVE Goal
  BY <1>9, <1>e DEF ReconcileConfirmed
<1>10. ASSUME NEW a \in Apps, ReconcileNotSubmitted(a) PROVE Goal
  BY <1>10, <1>d, EndedRow DEF ReconcileNotSubmitted, OthersKept, Goal
<1>11. ASSUME NEW a \in Apps, Lapse(a) \/ Age(a) PROVE Goal
  BY <1>11, <1>c DEF Lapse, Age, rows
<1>12. CASE UNCHANGED vars
  BY <1>12, <1>c DEF vars, rows
<1> QED
  BY <1>1, <1>2, <1>3, <1>4, <1>5, <1>6, <1>7, <1>8, <1>9, <1>10, <1>11, <1>12
     DEF Next, WorkerStep, Goal

\* Nothing arrives but what a worker sends.
LEMMA ArrivedStep ==
    ASSUME TypeOK, [Next]_vars, NEW b \in Apps, arrived'[b] # arrived[b]
    PROVE  \E w \in Workers : Sends(w, b)
<1>1. PICK w \in Workers : Send(w) \/ Crash(w)
  BY DEF Next, vars, rows, WorkerStep, Create, Edit, Approve, Request, Cancel, Erase, Deliver,
     SettleExhausted, Begin, Preflight, GiveUp, Launch, Record, Return, ReconcileConfirmed,
     ReconcileNotSubmitted, Lapse, Age
<1>2. PICK n \in {0, 1} : /\ arrived' = [arrived EXCEPT ![worker[w].app] = @ + n]
                          /\ n # 0 => worker[w].phase = "send"
  BY <1>1 DEF Send, Crash
<1> QED BY <1>2 DEF TypeOK, RestType, Sends

\* The permit to send comes from the second transaction, for a queued application.
LEMMA SendsStep ==
    ASSUME TypeOK, [Next]_vars, NEW w \in Workers, NEW b \in Apps, Sends(w, b)', ~Sends(w, b)
    PROVE  Launch(w) /\ app[b].status = "queued"
<1>1. worker'[w] # worker[w]
  BY DEF Sends
<1>2. worker \in [Workers -> WorkerState]
  BY DEF TypeOK, RestType
<1>3. ASSUME NEW v \in Workers, NEW state, worker' = [worker EXCEPT ![v] = state]
      PROVE  v = w /\ worker'[w] = state
  BY <1>1, <1>2, <1>3
<1>4. ASSUME NEW v \in Workers, NEW phase, Goto(v, phase)
      PROVE  v = w /\ worker'[w].phase = phase /\ worker'[w].app = worker[w].app
  BY <1>1, <1>2, <1>4 DEF Goto, WorkerState
<1>5. ASSUME NEW v \in Workers, NEW phase \in {"preflight", "giveup", "launch", "return"},
             Goto(v, phase)
      PROVE  FALSE
  BY <1>4, <1>5 DEF Sends
<1>6. ASSUME NEW v \in Workers, worker' = [worker EXCEPT ![v] = Idle] PROVE FALSE
  BY <1>3, <1>6 DEF Sends, Idle
<1>7. ASSUME NEW v \in Workers, NEW a \in Apps, Deliver(v, a) PROVE FALSE
  <2>1. PICK phase \in {"settle", "begin"} :
          worker' = [worker EXCEPT ![v] = [phase |-> phase, app |-> a, outcome |-> "none"]]
    BY <1>7 DEF Deliver
  <2> QED BY <1>3, <2>1 DEF Sends
<1>8. ASSUME NEW v \in Workers, Send(v) PROVE FALSE
  <2>1. PICK outcome \in {"receipt", "rejected", "unclear"} :
          worker' = [worker EXCEPT ![v] = [worker[v] EXCEPT !.phase = "record", !.outcome = outcome]]
    BY <1>8, <1>2 DEF Send
  <2>2. v = w /\ worker'[w].app = worker[w].app
    <3> DEFINE state == [worker[v] EXCEPT !.phase = "record", !.outcome = outcome]
    <3>1. state.app = worker[v].app
      BY <1>2 DEF WorkerState
    <3> HIDE DEF state
    <3> QED BY <1>3, <2>1, <3>1 DEF state
  <2> QED BY <1>8, <2>2 DEF Send, Sends
<1>9. ASSUME NEW v \in Workers, Launch(v) PROVE Launch(w) /\ app[b].status = "queued"
  <2>1. Goto(v, "send") /\ MayLaunch(worker[v].app)
    BY <1>5, <1>9 DEF Launch
  <2> QED BY <1>4, <1>9, <2>1 DEF Sends, MayLaunch
<1>10. ASSUME NEW v \in Workers,
              \/ SettleExhausted(v) \/ Begin(v) \/ Preflight(v) \/ GiveUp(v)
              \/ Record(v) \/ Return(v) \/ Crash(v)
       PROVE  FALSE
  BY <1>5, <1>6, <1>10 DEF SettleExhausted, Begin, Preflight, GiveUp, Record, Return, Crash
<1>11. \E v \in Workers : WorkerStep(v) \/ Crash(v) \/ \E a \in Apps : Deliver(v, a)
  BY <1>1 DEF Next, vars, Create, Edit, Approve, Request, Cancel, Erase, ReconcileConfirmed,
     ReconcileNotSubmitted, Lapse, Age
<1> QED BY <1>7, <1>8, <1>9, <1>10, <1>11 DEF WorkerStep

\* Every step keeps the applications for one opening apart.
LEMMA OpeningsStep ==
    ASSUME TypeOK, RowsRight, WorkersRight, OpeningsApart, [Next]_vars
    PROVE  OpeningsApart'
<1>1. CASE \E a \in Apps, o \in Openings : Create(a, o)
  <2>1. PICK a \in Apps, o \in Openings : Create(a, o)
    BY <1>1
  <2>2. /\ app'[a].opening = o /\ UNCHANGED <<worker, arrived>>
        /\ \A b \in Apps \ {a} : app'[b] = app[b]
        /\ \A b \in Apps : app[b].claims => app[b].opening # o
    BY <2>1 DEF Create, TypeOK, RowsType
  <2>3. \A b \in Apps \ {a} : (Alive(b)' => Alive(b)) /\ app'[b].opening = app[b].opening
    BY <2>2 DEF Alive, Sends
  <2>4. \A b \in Apps \ {a} : Alive(b)' => app'[b].opening # o
    BY <2>1, <2>2, <2>3, AliveClaims DEF Create
  <2> QED BY <2>2, <2>3, <2>4 DEF OpeningsApart
<1>2. CASE ~\E a \in Apps, o \in Openings : Create(a, o)
  <2>1. \A b \in Apps : app'[b].opening = app[b].opening
    BY <1>2, ClaimsStep
  <2>2. ASSUME NEW b \in Apps, Alive(b)' PROVE Alive(b)
    <3>1. CASE app'[b].claims
      BY <1>2, <3>1, ClaimsStep DEF Alive
    <3>2. CASE arrived'[b] # 0
      BY <3>2, ArrivedStep DEF Alive
    <3>3. ASSUME NEW w \in Workers, Sends(w, b)' PROVE Alive(b)
      BY <3>3, SendsStep DEF Alive, RowsRight, AppRight
    <3> QED BY <2>2, <3>1, <3>2, <3>3 DEF Alive
  <2> QED BY <2>1, <2>2 DEF OpeningsApart
<1> QED BY <1>1, <1>2

-----------------------------------------------------------------------------
(* Credits and slots. *)

\* A settlement gives back what it no longer holds.
LEMMA CreditsSettled ==
    ASSUME TypeOK, CreditsCounted, owner' = owner, NEW a \in Apps,
           NEW how \in {"returned", "charged"}, Settle(a, how)
    PROVE  CreditsCounted'
<1> SUFFICES ASSUME owner PROVE Wallet - credits' = Cardinality(Held')
  BY DEF CreditsCounted
<1>1. Wallet - credits = Cardinality(Held) /\ Wallet \in Nat /\ credits \in Nat
  BY ConstantsOK DEF CreditsCounted, TypeOK, RowsType
<1>2. CASE money[a] = "reserved"
  <2>1. money' = [money EXCEPT ![a] = how] /\ a \in Held
    BY <1>2 DEF Settle, Unsettled, Held
  <2>2. CASE how = "charged"
    <3>1. Held' = Held /\ credits' = credits
      BY <1>2, <2>1, <2>2 DEF Held, Settle, Unsettled, TypeOK, RowsType
    <3> QED BY <1>1, <3>1
  <2>3. CASE how = "returned"
    <3>1. Held' = Held \ {a} /\ credits' = credits + 1
      BY <1>2, <2>1, <2>3 DEF Held, Settle, Unsettled, TypeOK, RowsType
    <3>2. IsFiniteSet(Held)
      BY ConstantsOK, FS_Subset DEF Held
    <3>3. Cardinality(Held \ {a}) = Cardinality(Held) - 1
      BY <2>1, <3>2, FS_RemoveElement
    <3> QED BY <1>1, <3>1, <3>3
  <2> QED BY <2>2, <2>3
<1>3. CASE money[a] # "reserved"
  BY <1>1, <1>3 DEF Settle, Unsettled, ledger, Held
<1> QED BY <1>2, <1>3

\* Every step accounts for the credits it takes or gives.
LEMMA CreditsStep ==
    ASSUME TypeOK, RowsRight, WorkersRight, CreditsCounted, [Next]_vars
    PROVE  CreditsCounted'
<1>a. UNCHANGED <<ledger, owner>> => CreditsCounted'
  BY DEF CreditsCounted, Held, ledger
<1>b. ASSUME NEW w \in Workers, worker[w].phase # "idle" PROVE worker[w].app \in Apps
  BY <1>b DEF WorkersRight, WorkerRight
<1>c. ASSUME NEW a \in Apps, Failed(a) \/ Uncertain(a) \/ Confirmed(a), owner' = owner
      PROVE  CreditsCounted'
  BY <1>a, <1>c, CreditsSettled DEF Failed, Uncertain, Confirmed
<1>1. ASSUME NEW a \in Apps, Request(a) PROVE CreditsCounted'
  <2>1. money[a] = "none"
    BY <1>1 DEF Request, RowsRight, AppRight
  <2>2. Held' = Held \cup {a} /\ a \notin Held
    BY <1>1, <2>1 DEF Request, Held, TypeOK, RowsType
  <2>3. IsFiniteSet(Held)
    BY ConstantsOK, FS_Subset DEF Held
  <2>4. Cardinality(Held') = Cardinality(Held) + 1
    BY <2>2, <2>3, FS_AddElement
  <2> QED BY <1>1, <2>4, ConstantsOK DEF Request, CreditsCounted, TypeOK, RowsType
<1>2. ASSUME NEW a \in Apps, Cancel(a) PROVE CreditsCounted'
  BY <1>2, <1>a, CreditsSettled DEF Cancel
<1>3. ASSUME NEW w \in Workers,
             SettleExhausted(w) \/ Begin(w) \/ GiveUp(w) \/ Launch(w)
      PROVE  CreditsCounted'
  BY <1>3, <1>a, <1>b, <1>c DEF SettleExhausted, Begin, GiveUp, Launch
<1>4. ASSUME NEW w \in Workers, Record(w) PROVE CreditsCounted'
  BY <1>4, <1>a, <1>b, <1>c DEF Record, WorkersRight, WorkerRight
<1>5. ASSUME NEW a \in Apps, ReconcileConfirmed(a) \/ ReconcileNotSubmitted(a) PROVE CreditsCounted'
  BY <1>5, <1>c, CreditsSettled DEF ReconcileConfirmed, ReconcileNotSubmitted
<1>6. CASE Erase
  BY <1>6 DEF Erase, CreditsCounted
<1>7. ASSUME NEW a \in Apps, \/ \E o \in Openings : Create(a, o)
                             \/ Edit(a) \/ Approve(a) \/ Lapse(a) \/ Age(a)
      PROVE  CreditsCounted'
  BY <1>7, <1>a DEF Create, Edit, Approve, Lapse, Age, rows
<1>8. ASSUME NEW w \in Workers, \/ \E a \in Apps : Deliver(w, a)
                                \/ Preflight(w) \/ Send(w) \/ Return(w) \/ Crash(w)
      PROVE  CreditsCounted'
  BY <1>8, <1>a DEF Deliver, Preflight, Send, Return, Crash, rows
<1>9. CASE UNCHANGED vars
  BY <1>9, <1>a DEF vars, rows
<1> QED
  BY <1>1, <1>2, <1>3, <1>4, <1>5, <1>6, <1>7, <1>8, <1>9 DEF Next, WorkerStep

\* What the two limits count.
Takes(a) == admission[a].state \in Pending
InWindow(a) == a \notin verified /\ (Takes(a) \/ (admission[a].sent /\ admission[a].recent))

Taken == {a \in Apps : Takes(a)}
Window == {a \in Apps : InWindow(a)}

\* The limits, in these terms.
LEMMA SlotsRead ==
    SlotsWithinLimit <=> Cardinality(Taken) <= PendingLimit /\ Cardinality(Window) <= WindowLimit
<1>1. Taken = {a \in Apps : admission[a].state \in {"reserved", "submitting", "unknown"}}
  BY DEF Taken, Takes, Pending
<1>2. Window = (Taken \cup {a \in Apps : admission[a].sent /\ admission[a].recent}) \ verified
  BY DEF Window, InWindow, Taken
<1> QED BY <1>1, <1>2 DEF SlotsWithinLimit

\* The same after a step.
LEMMA SlotsReadNext ==
    SlotsWithinLimit' <=> Cardinality(Taken') <= PendingLimit /\ Cardinality(Window') <= WindowLimit
<1>1. Taken' = {a \in Apps : admission'[a].state \in {"reserved", "submitting", "unknown"}}
  BY DEF Taken, Takes, Pending
<1>2. Window' = (Taken' \cup {a \in Apps : admission'[a].sent /\ admission'[a].recent}) \ verified'
  BY DEF Window, InWindow, Taken
<1> QED BY <1>1, <1>2 DEF SlotsWithinLimit

\* Both sets have a cardinality.
LEMMA SlotsFinite == /\ IsFiniteSet(Taken) /\ Cardinality(Taken) \in Nat
                     /\ IsFiniteSet(Window) /\ Cardinality(Window) \in Nat
BY ConstantsOK, FS_Subset, FS_CardinalityType DEF Taken, Window

\* An application that counts for no more than before.
Eased(a) == (Takes(a)' => Takes(a)) /\ (InWindow(a)' => InWindow(a))

\* A step that makes no application count for more keeps the limits.
LEMMA SlotsEase ==
    ASSUME SlotsWithinLimit, \A a \in Apps : Eased(a)
    PROVE  SlotsWithinLimit'
<1>1. Taken' \subseteq Taken /\ Window' \subseteq Window
  BY DEF Eased, Taken, Window
<1>2. /\ Cardinality(Taken') <= Cardinality(Taken) /\ Cardinality(Taken') \in Nat
      /\ Cardinality(Window') <= Cardinality(Window) /\ Cardinality(Window') \in Nat
  BY <1>1, SlotsFinite, FS_Subset, FS_CardinalityType
<1> QED BY <1>2, SlotsFinite, SlotsRead, SlotsReadNext, ConstantsOK

\* An untouched admission.
LEMMA EasedSame ==
    ASSUME NEW a, admission'[a] = admission[a], verified \subseteq verified'
    PROVE  Eased(a)
BY DEF Eased, Takes, InWindow

\* A finished admission.
LEMMA EasedFinished ==
    ASSUME NEW a, admission[a] \in AdmissionRow, NEW outcome, NEW proven \in BOOLEAN,
           \/ admission'[a] = Finished(admission[a], outcome, proven)
           \/ admission'[a] = [Finished(admission[a], outcome, proven) EXCEPT !.claims = FALSE],
           verified \subseteq verified'
    PROVE  Eased(a)
<1> DEFINE adm == Finished(admission[a], outcome, proven)
<1>1. /\ adm \in AdmissionRow /\ adm.state \notin Pending
      /\ adm.sent = admission[a].sent /\ adm.recent = admission[a].recent
  BY FinishedRow DEF Pending
<1> HIDE DEF adm
<1>2. /\ admission'[a].state = adm.state /\ admission'[a].sent = adm.sent
      /\ admission'[a].recent = adm.recent
  BY <1>1 DEF AdmissionRow, adm
<1> QED BY <1>1, <1>2 DEF Eased, Takes, InWindow

\* Only a request takes a slot, and it has counted the taken ones.
LEMMA SlotsStep ==
    ASSUME TypeOK, RowsRight, WorkersRight, SlotsWithinLimit, [Next]_vars
    PROVE  SlotsWithinLimit'
<1>a. UNCHANGED <<admission, verified>> => SlotsWithinLimit'
  BY DEF SlotsWithinLimit
<1>b. ASSUME NEW w \in Workers, worker[w].phase # "idle" PROVE worker[w].app \in Apps
  BY <1>b DEF WorkersRight, WorkerRight
<1>c. admission \in [Apps -> AdmissionRow] /\ RowsType
  BY DEF TypeOK, RowsType
<1>d. ASSUME NEW a \in Apps, OthersKept(a), verified \subseteq verified', Eased(a)
      PROVE  SlotsWithinLimit'
  BY <1>d, EasedSame, SlotsEase DEF OthersKept
<1>e. ASSUME NEW a \in Apps, Failed(a) \/ Confirmed(a), verified' = verified PROVE SlotsWithinLimit'
  <2>1. PICK outcome \in {"failed", "confirmed"} :
          OthersKept(a) /\ admission'[a] = Finished(admission[a], outcome, FALSE)
    BY <1>c, <1>e, FailedRow, ConfirmedRow
  <2>2. Eased(a)
    BY <1>c, <1>e, <2>1, EasedFinished
  <2> QED BY <1>d, <1>e, <2>1, <2>2
<1>f. ASSUME NEW a \in Apps, Uncertain(a), app[a].status \in {"queued"} \cup InDoubt,
             verified' = verified
      PROVE  SlotsWithinLimit'
  <2>1. /\ OthersKept(a) /\ admission'[a].sent = admission[a].sent
        /\ admission'[a].recent = admission[a].recent
    BY <1>c, <1>f, UncertainRow
  <2>2. Takes(a)
    BY <1>f DEF Takes, RowsRight, AppRight, Pending
  <2>3. Eased(a)
    BY <1>f, <2>1, <2>2 DEF Eased, InWindow
  <2> QED BY <1>d, <1>f, <2>1, <2>3
<1>1. ASSUME NEW a \in Apps, Request(a) PROVE SlotsWithinLimit'
  <2>1. /\ verified' = verified /\ ~Takes(a) /\ WithinLimits
        /\ \A b \in Apps \ {a} : admission'[b] = admission[b]
    BY <1>1, <1>c DEF Request, Takes, Pending
  <2>2. Taken' \subseteq Taken \cup {a}
    BY <2>1 DEF Taken, Takes
  <2>3. Window' \subseteq Counted \cup {a}
    <3> SUFFICES ASSUME NEW b \in Window', b # a PROVE b \in Counted
      OBVIOUS
    <3>1. b \in Apps /\ InWindow(b)
      BY <2>1 DEF Window, InWindow, Takes
    <3> QED BY <3>1 DEF InWindow, Takes, Counted, RowsRight, AppRight
  <2>4. Taken = {b \in Apps : admission[b].state \in Pending}
    BY DEF Taken, Takes
  <2>5. IsFiniteSet(Counted) /\ IsFiniteSet(Taken) /\ IsFiniteSet({a})
    BY ConstantsOK, FS_Subset, FS_Singleton DEF Counted, Taken
  <2>6. /\ Cardinality(Counted) \in Nat /\ Cardinality(Counted) < WindowLimit
        /\ Cardinality(Taken) \in Nat /\ Cardinality(Taken) < PendingLimit
    BY <2>1, <2>4, <2>5, FS_CardinalityType DEF WithinLimits
  <2>7. /\ IsFiniteSet(Counted \cup {a}) /\ Cardinality(Counted \cup {a}) <= Cardinality(Counted) + 1
        /\ IsFiniteSet(Taken \cup {a}) /\ Cardinality(Taken \cup {a}) <= Cardinality(Taken) + 1
        /\ Cardinality(Counted \cup {a}) \in Nat /\ Cardinality(Taken \cup {a}) \in Nat
    <3>1. IsFiniteSet(Counted \cup {a}) /\ IsFiniteSet(Taken \cup {a})
      BY <2>5, FS_AddElement
    <3>2. ASSUME NEW S, IsFiniteSet(S) PROVE Cardinality(S \cup {a}) <= Cardinality(S) + 1
      <4>1. Cardinality(S) \in Nat
        BY <3>2, FS_CardinalityType
      <4>2. Cardinality(S \cup {a}) = IF a \in S THEN Cardinality(S) ELSE Cardinality(S) + 1
        BY <3>2, FS_AddElement
      <4> QED BY <4>1, <4>2
    <3> QED BY <2>5, <3>1, <3>2, FS_CardinalityType
  <2>8. /\ Cardinality(Taken') <= Cardinality(Taken \cup {a}) /\ Cardinality(Taken') \in Nat
        /\ Cardinality(Window') <= Cardinality(Counted \cup {a}) /\ Cardinality(Window') \in Nat
    BY <2>2, <2>3, <2>7, FS_Subset, FS_CardinalityType
  <2> QED BY <2>6, <2>7, <2>8, SlotsReadNext, ConstantsOK
<1>2. ASSUME NEW a \in Apps, Cancel(a) PROVE SlotsWithinLimit'
  <2>1. CASE app[a].status \in InDoubt
    <3>1. /\ Takes(a) /\ admission'[a].sent = admission[a].sent
          /\ admission'[a].recent = admission[a].recent
      BY <1>2, <1>c, <2>1 DEF Cancel, Takes, RowsRight, AppRight, Pending, AdmissionRow
    <3>2. Eased(a) /\ verified' = verified
      BY <1>2, <3>1 DEF Cancel, Eased, InWindow
    <3>3. \A b \in Apps \ {a} : Eased(b)
      BY <1>2, <1>c, <2>1, EasedSame DEF Cancel
    <3> QED BY <3>2, <3>3, SlotsEase
  <2>2. CASE app[a].status \notin InDoubt
    <3>1. OthersKept(a) /\ admission'[a] = Finished(admission[a], "cancelled", FALSE)
      BY <1>2, <1>c, <2>2, EndedRow DEF Cancel
    <3>2. Eased(a)
      BY <1>2, <1>c, <3>1, EasedFinished DEF Cancel
    <3> QED BY <1>2, <1>d, <3>1, <3>2 DEF Cancel
  <2> QED BY <2>1, <2>2
<1>3. ASSUME NEW w \in Workers, SettleExhausted(w) \/ Begin(w) \/ GiveUp(w) PROVE SlotsWithinLimit'
  BY <1>3, <1>a, <1>b, <1>e, <1>f DEF SettleExhausted, Begin, GiveUp, InDoubt
<1>4. ASSUME NEW w \in Workers, Launch(w) PROVE SlotsWithinLimit'
  <2>0. PICK a \in Apps : a = worker[w].app
    BY <1>4, <1>b DEF Launch
  <2>1. CASE /\ MayLaunch(a)
             /\ admission' = [admission EXCEPT ![a] = [@ EXCEPT !.state = "submitting",
                                                                !.sent = TRUE, !.recent = TRUE]]
    <3>1. Eased(a)
      BY <1>4, <1>c, <2>1 DEF Launch, MayLaunch, Eased, InWindow, Takes, Pending
    <3>2. \A b \in Apps \ {a} : Eased(b)
      BY <1>4, <1>c, <2>1, EasedSame DEF Launch
    <3> QED BY <3>1, <3>2, SlotsEase
  <2> QED BY <1>4, <1>a, <1>e, <2>0, <2>1 DEF Launch
<1>5. ASSUME NEW w \in Workers, Record(w) PROVE SlotsWithinLimit'
  <2>1. PICK a \in Apps : a = worker[w].app
    BY <1>5, <1>b DEF Record
  <2>2. app[a].status \in InDoubt \cup {"confirmed", "erased"} /\ verified' = verified
        /\ worker[w].outcome \in {"receipt", "rejected", "unclear"}
    BY <1>5, <2>1 DEF Record, WorkersRight, WorkerRight
  <2>3. \/ UNCHANGED admission \/ Confirmed(a) \/ Failed(a)
        \/ Uncertain(a) /\ app[a].status \in InDoubt
    BY <1>5, <2>1, <2>2 DEF Record, SettledElsewhere
  <2> QED BY <1>a, <1>e, <1>f, <2>2, <2>3
<1>6. ASSUME NEW a \in Apps, ReconcileConfirmed(a) PROVE SlotsWithinLimit'
  BY <1>6, <1>e DEF ReconcileConfirmed
<1>7. ASSUME NEW a \in Apps, ReconcileNotSubmitted(a) PROVE SlotsWithinLimit'
  <2>1. OthersKept(a) /\ admission'[a] = Finished(admission[a], "verified_not_submitted", TRUE)
    BY <1>7, <1>c, EndedRow DEF ReconcileNotSubmitted
  <2>2. Eased(a) /\ verified \subseteq verified'
    BY <1>7, <1>c, <2>1, EasedFinished DEF ReconcileNotSubmitted
  <2> QED BY <1>d, <2>1, <2>2
<1>8. CASE Erase
  <2> SUFFICES ASSUME NEW a \in Apps PROVE Eased(a)
    BY SlotsEase
  <2>1. verified' = verified
    BY <1>8 DEF Erase
  <2>2. \/ admission'[a] = [Finished(admission[a], "account_deleted", FALSE) EXCEPT !.claims = FALSE]
        \/ admission'[a] = [admission[a] EXCEPT !.claims = FALSE]
    BY <1>8 DEF Erase
  <2>3. CASE admission'[a] = [Finished(admission[a], "account_deleted", FALSE) EXCEPT !.claims = FALSE]
    BY <1>c, <2>1, <2>3, EasedFinished
  <2>4. CASE admission'[a] = [admission[a] EXCEPT !.claims = FALSE]
    BY <1>c, <2>1, <2>4 DEF Eased, Takes, InWindow, AdmissionRow
  <2> QED BY <2>2, <2>3, <2>4
<1>9. ASSUME NEW a \in Apps, Age(a) PROVE SlotsWithinLimit'
  <2>1. Eased(a)
    BY <1>9, <1>c DEF Age, Eased, Takes, InWindow, AdmissionRow
  <2>2. \A b \in Apps \ {a} : Eased(b)
    BY <1>9, <1>c, EasedSame DEF Age
  <2> QED BY <2>1, <2>2, SlotsEase
<1>10. ASSUME NEW a \in Apps, \/ \E o \in Openings : Create(a, o)
                              \/ Edit(a) \/ Approve(a) \/ Lapse(a)
       PROVE  SlotsWithinLimit'
  BY <1>10, <1>a DEF Create, Edit, Approve, Lapse, rows
<1>11. ASSUME NEW w \in Workers, \/ \E a \in Apps : Deliver(w, a)
                                 \/ Preflight(w) \/ Send(w) \/ Return(w) \/ Crash(w)
       PROVE  SlotsWithinLimit'
  BY <1>11, <1>a DEF Deliver, Preflight, Send, Return, Crash, rows
<1>12. CASE UNCHANGED vars
  BY <1>12, <1>a DEF vars, rows
<1> QED
  BY <1>1, <1>2, <1>3, <1>4, <1>5, <1>6, <1>7, <1>8, <1>9, <1>10, <1>11, <1>12 DEF Next, WorkerStep

-----------------------------------------------------------------------------
(* The theorems. *)

\* Before the first application.
LEMMA InitRight ==
    ASSUME Init
    PROVE  IInv
<1>1. RowsType
  BY ConstantsOK DEF Init, RowsType, AppRow, AdmissionRow, NoAdmission
<1>2. RestType
  BY DEF Init, RestType, WorkerState, Idle
<1>3. RowsRight
  BY DEF Init, RowsRight, AppRight, NoAdmission, InDoubt, Pending
<1>4. WorkersRight
  BY DEF Init, WorkersRight, SenderAlone, WorkerRight, Sends, Idle
<1>5. OpeningsApart
  BY DEF Init, OpeningsApart, Alive, Sends, Idle
<1>6. CreditsCounted
  <2>1. Held = {}
    BY DEF Init, Held
  <2> QED BY <2>1, FS_EmptySet, ConstantsOK DEF Init, CreditsCounted
<1>7. SlotsWithinLimit
  <2>1. Taken = {} /\ Window = {}
    BY DEF Init, Taken, Window, InWindow, Takes, NoAdmission, Pending
  <2> QED BY <2>1, FS_EmptySet, ConstantsOK, SlotsRead
<1> QED BY <1>1, <1>2, <1>3, <1>4, <1>5, <1>6, <1>7 DEF IInv, TypeOK

\* The invariant is inductive.
LEMMA StepRight ==
    ASSUME IInv, [Next]_vars
    PROVE  IInv'
BY TypeStep, RowsStep, WorkersStep, OpeningsStep, CreditsStep, SlotsStep DEF IInv

\* The rows of an application, its worker, the credits and the slots agree after every
\* transaction of the candidate, the worker, the reconciliation and the erasure.
THEOREM ApplicationsInvariance == Spec => []IInv
<1>1. Init => IInv
  BY InitRight
<1>2. IInv /\ [Next]_vars => IInv'
  BY StepRight
<1> QED BY <1>1, <1>2, PTL DEF Spec

\* The candidate's credits never go below zero (credits.settle, request_execution).
THEOREM ApplicationsTypeCorrect == Spec => []TypeOK
<1>1. IInv => TypeOK
  BY DEF IInv
<1> QED BY <1>1, ApplicationsInvariance, PTL

\* An employer receives at most one application for an opening, however often
\* process_event is repeated and whatever was cancelled or reconciled meanwhile.
THEOREM ApplicationsOnePerOpening == Spec => []OneApplicationPerOpening
<1>1. IInv => OneApplicationPerOpening
  <2> SUFFICES ASSUME IInv, NEW a \in Apps, NEW b \in Apps, arrived[a] > 0, arrived[b] > 0,
                      app[a].opening = app[b].opening
               PROVE  a = b /\ arrived[a] = 1
    BY DEF OneApplicationPerOpening
  <2>1. arrived[a] \in {0, 1} /\ arrived[b] \in {0, 1}
    BY DEF IInv, RowsRight, AppRight
  <2>2. Alive(a) /\ Alive(b)
    BY <2>1 DEF Alive
  <2> QED BY <2>1, <2>2 DEF IInv, OpeningsApart
<1> QED BY <1>1, ApplicationsInvariance, PTL

\* settle returns credits only when nothing was or will be received, and charges them
\* only for what was.
THEOREM ApplicationsPaidIffReceived == Spec => []PaidIffReceived
<1>1. IInv => PaidIffReceived
  <2> SUFFICES ASSUME IInv, NEW a \in Apps
               PROVE  /\ money[a] = "returned" =>
                            /\ arrived[a] = 0
                            /\ \A w \in Workers : ~(worker[w].app = a /\ worker[w].phase = "send")
                      /\ money[a] = "charged" => arrived[a] > 0
    BY DEF PaidIffReceived
  <2>1. AppRight(a) /\ arrived[a] \in {0, 1}
    BY DEF IInv, RowsRight, AppRight
  <2>2. \A w \in Workers : worker[w].app = a /\ worker[w].phase = "send" => money[a] = "reserved"
    BY DEF IInv, WorkersRight, WorkerRight
  <2> QED BY <2>1, <2>2 DEF AppRight
<1> QED BY <1>1, ApplicationsInvariance, PTL

\* request_execution, finish and settle keep the application, its admission and its
\* credits in step.
THEOREM ApplicationsHeldWhileOpen == Spec => []HeldWhileOpen
<1>1. IInv => HeldWhileOpen
  <2> SUFFICES ASSUME IInv, owner PROVE HeldWhileOpen
    BY DEF HeldWhileOpen
  <2>1. ASSUME NEW a \in Apps
        PROVE  /\ app[a].status \in {"queued", "submitting", "unknown"} <=> money[a] = "reserved"
               /\ money[a] = "reserved" <=> admission[a].state \in Pending
               /\ app[a].status = "confirmed" <=> money[a] = "charged"
    <3>1. app[a] \in AppRow /\ AppRight(a)
      BY DEF IInv, TypeOK, RowsType, RowsRight
    <3> QED BY <3>1 DEF AppRow, AppRight, InDoubt, Pending, NoAdmission
  <2>2. Wallet - credits = Cardinality({a \in Apps : money[a] \in {"reserved", "charged"}})
    BY DEF IInv, CreditsCounted, Held
  <2> QED BY <2>1, <2>2 DEF HeldWhileOpen
<1> QED BY <1>1, ApplicationsInvariance, PTL

\* _check_policy keeps both limits although finish, the passing of time and an erasure
\* change what it counts.
THEOREM ApplicationsSlotsWithinLimit == Spec => []SlotsWithinLimit
<1>1. IInv => SlotsWithinLimit
  BY DEF IInv
<1> QED BY <1>1, ApplicationsInvariance, PTL

\* process_event never closes the event of an application that is still queued.
THEOREM ApplicationsQueuedIsAttended == Spec => []QueuedIsAttended
<1>1. IInv => QueuedIsAttended
  BY DEF IInv, RowsRight, AppRight, QueuedIsAttended
<1> QED BY <1>1, ApplicationsInvariance, PTL
=============================================================================
