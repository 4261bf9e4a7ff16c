------------------------- MODULE ExecutionHoldsProofs -------------------------
(* Theorems about ExecutionHolds, for any operations, calls, attempts, prices, costs
   and faults: who executes an operation, what may be in doubt at the provider, and
   that the outcome of a run is the outcome of its delivery; and, with the accounts of
   the operations, what was really charged and that it stays within the ceiling. *)
EXTENDS ExecutionHolds, FiniteSetTheorems, TLAPS

RunRow ==
    [status: Active \cup Terminal \cup {"absent", "erased"}, cancel: BOOLEAN, stale: BOOLEAN]
AttemptRow ==
    [state: {"planned", "started", "outcome_unknown", "usage_unavailable", "settled",
             "overrun", "cancelled"}, cost: Nat]
CallRow ==
    [phase: {"idle", "read", "cancel", "enter", "work", "send", "answer", "commit", "error"},
     run: Operations \cup {NoRun}, ordinal: Nat]

HoldRow(h) ==
    h \in [state: {"none", "reserved", "running", "outcome_unknown", "overrun", "settled"},
          delivery: {"pending", "delivered", "failed"}, native: {h.native}, amount: {h.amount}]

RowTypes ==
    /\ run \in [Runs -> RunRow]
    /\ hold = [r \in Runs |-> hold[r]] /\ \A r \in Runs : HoldRow(hold[r])
    /\ attempt = [o \in Operations |-> attempt[o]]
    /\ \A o \in Operations : attempt[o] \in [Ordinals(o) -> AttemptRow]
    /\ bill = [o \in Operations |-> bill[o]]
    /\ \A o \in Operations : bill[o] \in [Ordinals(o) -> Nat]

TypeOK == RowTypes /\ call \in [Calls -> CallRow]

\* The outcome of one run w and of the delivery of its hold h.
Matches(w, h) ==
    w.status \notin {"absent", "erased"} =>
       /\ w.status = "succeeded" <=> h.delivery = "delivered"
       /\ w.status \in {"failed", "cancelled"} <=> h.delivery = "failed"

\* An attempt whose request may cost what is not known.
Open(a) == a.state \in {"started", "outcome_unknown", "usage_unavailable"}

\* Of the attempts at, one at most is open, and only claimed requests have a bill b.
OneOpen(at, b) ==
    /\ \A m, n \in DOMAIN at : Open(at[m]) /\ Open(at[n]) => m = n
    /\ \A n \in DOMAIN at : b[n] # 0 => at[n].state # "planned"

RowsRight ==
    /\ RowTypes
    /\ \A r \in Runs : Matches(run[r], hold[r]) /\ OneOpen(attempt[r], bill[r])
    /\ \A r \in Runs : run[r].status = "absent" => hold[r] = NoHold

\* Phases in which a call executes an operation.
Working(c, r) == call[c].run = r /\ call[c].phase \in {"work", "send", "answer"}

\* The local state of a call: it has a request exactly from its claim to its callback,
\* and that request is not planned any longer.
CallRight(c) ==
    /\ call[c].phase = "idle" => call[c].run = NoRun
    /\ call[c].phase \notin {"idle", "send", "answer"} => call[c].run \in Runs
    /\ call[c].phase \in {"send", "answer"} =>
          /\ call[c].run \in Operations /\ call[c].ordinal \in Ordinals(call[c].run)
          /\ attempt[call[c].run][call[c].ordinal].state # "planned"
    /\ call[c].phase \notin {"send", "answer"} => call[c].ordinal = 0

\* Nobody knows of a run that was not created; an operation is executed once, by one
\* call, and never while its hold waits for it.
RunRight(r) ==
    /\ \A c \in Calls : call[c].run = r => run[r].status # "absent"
    /\ \A c \in Calls : Working(c, r) => hold[r].state # "reserved"
    /\ \A c, d \in Calls : Working(c, r) /\ Working(d, r) => c = d

CallsRight ==
    /\ call \in [Calls -> CallRow]
    /\ \A c \in Calls : CallRight(c)
    /\ \A r \in Runs : RunRight(r)

IInv == RowsRight /\ CallsRight

-----------------------------------------------------------------------------
(* How any step may change the rows: a hold is never put back to wait, no run and no
   request becomes unknown again. *)

RowsMove ==
    /\ RowsRight'
    /\ \A r \in Runs : run[r].status # "absent" => run'[r].status # "absent"
    /\ \A r \in Runs : run[r].status # "absent" /\ hold'[r].state = "reserved"
                       => hold[r].state = "reserved"
    /\ \A o \in Operations : \A n \in Ordinals(o) :
          attempt'[o][n].state = "planned" => attempt[o][n].state = "planned"

LEMMA RowsKept ==
  ASSUME RowsRight, UNCHANGED <<run, hold, attempt, bill>>
  PROVE  RowsMove
BY ZenonT(60) DEF RowsMove, RowsRight, RowTypes, Matches, OneOpen, Open, HoldRow

\* One run changes its rows to w, h and at.
LEMMA RunMoves ==
  ASSUME ConstantsOK, RowsRight, NEW r \in Runs, NEW w \in RunRow, NEW h, HoldRow(h),
         NEW at \in [Ordinals(r) -> AttemptRow],
         run' = [run EXCEPT ![r] = w], hold' = [hold EXCEPT ![r] = h],
         attempt' = [attempt EXCEPT ![r] = at], bill' = bill,
         w.status # "absent", Matches(w, h), OneOpen(at, bill[r]),
         run[r].status # "absent" /\ h.state = "reserved" => hold[r].state = "reserved",
         \A n \in Ordinals(r) : at[n].state = "planned" => attempt[r][n].state = "planned"
  PROVE  RowsMove
<1>1. r \in Operations  BY DEF Operations
<1>2. RowTypes'
  <2>1. run' \in [Runs -> RunRow]  BY DEF RowsRight, RowTypes
  <2>2. (hold = [q \in Runs |-> hold[q]])' /\ \A q \in Runs : HoldRow(hold'[q])
    <3>1. \A q \in Runs : hold'[q] = IF q = r THEN h ELSE hold[q]  BY DEF RowsRight, RowTypes
    <3>2. hold' = [q \in Runs |-> hold'[q]]  BY DEF RowsRight, RowTypes
    <3>3. \A q \in Runs : HoldRow(hold'[q])  BY <3>1 DEF RowsRight, RowTypes
    <3> QED  BY <3>2, <3>3
  <2>3. /\ (attempt = [o \in Operations |-> attempt[o]])'
        /\ \A o \in Operations : attempt'[o] \in [Ordinals(o) -> AttemptRow]
    BY <1>1 DEF RowsRight, RowTypes
  <2>4. /\ (bill = [o \in Operations |-> bill[o]])'
        /\ \A o \in Operations : bill'[o] \in [Ordinals(o) -> Nat]
    BY DEF RowsRight, RowTypes
  <2> QED  BY <2>1, <2>2, <2>3, <2>4 DEF RowTypes, HoldRow
<1>3. \A q \in Runs : /\ run'[q] = IF q = r THEN w ELSE run[q]
                      /\ hold'[q] = IF q = r THEN h ELSE hold[q]
  BY DEF RowsRight, RowTypes
<1>4. \A o \in Operations : attempt'[o] = IF o = r THEN at ELSE attempt[o]
  BY <1>1 DEF RowsRight, RowTypes
<1>5. \A q \in Runs : Matches(run'[q], hold'[q])
  BY <1>3 DEF RowsRight
<1>6. \A q \in Runs : OneOpen(attempt'[q], bill'[q])
  BY <1>1, <1>4 DEF RowsRight, Operations
<1>7. \A q \in Runs : run'[q].status = "absent" => hold'[q] = NoHold
  BY <1>3 DEF RowsRight
<1>8. RowsRight'
  <2>1. (\A q \in Runs : Matches(run[q], hold[q]))'  BY <1>5 DEF Matches
  <2>2. (\A q \in Runs : OneOpen(attempt[q], bill[q]))'  BY <1>6 DEF OneOpen, Open
  <2>3. (\A q \in Runs : run[q].status = "absent" => hold[q] = NoHold)'  BY <1>7 DEF NoHold
  <2> QED  BY <1>2, <2>1, <2>2, <2>3 DEF RowsRight
<1>9. \A o \in Operations : \A n \in Ordinals(o) :
         attempt'[o][n].state = "planned" => attempt[o][n].state = "planned"
  BY <1>4
<1> QED  BY <1>3, <1>8, <1>9 DEF RowsMove

\* An operation in units changes its requests.
LEMMA RequestMoves ==
  ASSUME ConstantsOK, RowsRight, NEW l \in Legacy, NEW at \in [Ordinals(l) -> AttemptRow],
         attempt' = [attempt EXCEPT ![l] = at], UNCHANGED <<run, hold, bill>>,
         \A n \in Ordinals(l) : at[n].state = "planned" => attempt[l][n].state = "planned"
  PROVE  RowsMove
<1>1. l \in Operations /\ l \notin Runs  BY DEF Operations, ConstantsOK
<1>2. \A o \in Operations : attempt'[o] = IF o = l THEN at ELSE attempt[o]
  BY <1>1 DEF RowsRight, RowTypes
<1>3. RowTypes'
  <2>1. /\ (attempt = [o \in Operations |-> attempt[o]])'
        /\ \A o \in Operations : attempt'[o] \in [Ordinals(o) -> AttemptRow]
    BY <1>1 DEF RowsRight, RowTypes
  <2> QED  BY <2>1 DEF RowsRight, RowTypes, HoldRow
<1>4. \A q \in Runs : attempt'[q] = attempt[q]  BY <1>1, <1>2 DEF Operations
<1>5. (\A q \in Runs : Matches(run[q], hold[q]) /\ OneOpen(attempt[q], bill[q]))'
  BY <1>4 DEF RowsRight, Matches, OneOpen, Open
<1>6. RowsRight'  BY <1>3, <1>5 DEF RowsRight, NoHold
<1>7. \A o \in Operations : \A n \in Ordinals(o) :
         attempt'[o][n].state = "planned" => attempt[o][n].state = "planned"
  BY <1>2
<1> QED  BY <1>6, <1>7 DEF RowsMove

-----------------------------------------------------------------------------
(* The calls follow. *)

LEMMA CallsKept ==
  ASSUME ConstantsOK, IInv, RowsMove, UNCHANGED call
  PROVE  IInv'
<1>1. \A c \in Calls : CallRight(c)'
  BY DEF IInv, CallsRight, CallRight, RowsMove, Operations
<1>2. \A r \in Runs : RunRight(r)'
  BY DEF IInv, CallsRight, RunRight, Working, RowsMove
<1> QED  BY <1>1, <1>2 DEF IInv, CallsRight, RowsMove

\* A call takes the local state x, which is not the start of an execution.
LEMMA CallMoves ==
  ASSUME ConstantsOK, IInv, RowsMove, NEW c \in Calls, NEW x \in CallRow,
         call' = [call EXCEPT ![c] = x], CallRight(c)',
         \A r \in Runs : x.run = r => run[r].status # "absent",
         \A r \in Runs : x.run = r /\ x.phase \in {"work", "send", "answer"} => Working(c, r)
  PROVE  IInv'
<1>1. \A d \in Calls : call'[d] = IF d = c THEN x ELSE call[d]
  BY DEF IInv, CallsRight
<1>2. call' \in [Calls -> CallRow]  BY DEF IInv, CallsRight
<1>3. \A d \in Calls : CallRight(d)'
  BY <1>1 DEF IInv, CallsRight, CallRight, RowsMove, Operations
<1>4. ASSUME NEW r \in Runs PROVE RunRight(r)'
  <2>1. \A d \in Calls : Working(d, r)' => Working(d, r)
    BY <1>1 DEF Working
  <2>2. \A d \in Calls : call'[d].run = r => run[r].status # "absent"
    BY <1>1 DEF IInv, CallsRight, RunRight
  <2> QED  BY <2>1, <2>2 DEF IInv, CallsRight, RunRight, RowsMove, Working
<1> QED  BY <1>2, <1>3, <1>4 DEF IInv, CallsRight, RowsMove

\* A call starts the execution of r, which nobody executes.
LEMMA WorkStarts ==
  ASSUME ConstantsOK, IInv, RowsMove, NEW c \in Calls, NEW r \in Runs,
         call' = [call EXCEPT ![c] = [phase |-> "work", run |-> r, ordinal |-> 0]],
         \A d \in Calls : ~Working(d, r),
         run'[r].status # "absent", hold'[r].state # "reserved"
  PROVE  IInv'
<1> DEFINE x == [phase |-> "work", run |-> r, ordinal |-> 0]
<1>1. \A d \in Calls : call'[d] = IF d = c THEN x ELSE call[d]
  BY DEF IInv, CallsRight
<1>2. call' \in [Calls -> CallRow]  BY DEF IInv, CallsRight, CallRow, Operations
<1>3. \A d \in Calls : CallRight(d)'
  BY <1>1 DEF IInv, CallsRight, CallRight, RowsMove, Operations
<1>4. ASSUME NEW q \in Runs PROVE RunRight(q)'
  <2>1. \A d \in Calls : Working(d, q)' => (d = c /\ q = r) \/ Working(d, q)
    BY <1>1 DEF Working
  <2>2. \A d \in Calls : call'[d].run = q => q = r \/ run[q].status # "absent"
    BY <1>1 DEF IInv, CallsRight, RunRight
  <2> QED  BY <2>1, <2>2 DEF IInv, CallsRight, RunRight, RowsMove, Working
<1> QED  BY <1>2, <1>3, <1>4 DEF IInv, CallsRight, RowsMove

-----------------------------------------------------------------------------
(* What the operators of the hold do to the rows of a run. *)

LEMMA RunRows ==
  ASSUME ConstantsOK, RowsRight, NEW r \in Runs
  PROVE  /\ run[r] \in RunRow /\ HoldRow(hold[r]) /\ attempt[r] \in [Ordinals(r) -> AttemptRow]
         /\ Matches(run[r], hold[r]) /\ OneOpen(attempt[r], bill[r])
         /\ run[r].status = "absent" => hold[r] = NoHold
         /\ run = [run EXCEPT ![r] = run[r]] /\ hold = [hold EXCEPT ![r] = hold[r]]
         /\ attempt = [attempt EXCEPT ![r] = attempt[r]]
<1>1. r \in Operations  BY DEF Operations
<1>2. attempt = [attempt EXCEPT ![r] = attempt[r]]  BY <1>1 DEF RowsRight, RowTypes
<1>3. hold = [hold EXCEPT ![r] = hold[r]]  BY DEF RowsRight, RowTypes
<1>4. run = [run EXCEPT ![r] = run[r]]  BY DEF RowsRight, RowTypes
<1> QED  BY <1>1, <1>2, <1>3, <1>4 DEF RowsRight, RowTypes

\* Only the row of the run changes.
LEMMA StatusMoves ==
  ASSUME ConstantsOK, RowsRight, NEW r \in Runs, NEW w \in RunRow, w.status # "absent",
         run[r].status # "absent", run' = [run EXCEPT ![r] = w], Matches(w, hold[r]),
         UNCHANGED <<hold, attempt, bill>>
  PROVE  RowsMove
<1>1. /\ HoldRow(hold[r]) /\ attempt[r] \in [Ordinals(r) -> AttemptRow]
      /\ OneOpen(attempt[r], bill[r])
      /\ hold = [hold EXCEPT ![r] = hold[r]] /\ attempt = [attempt EXCEPT ![r] = attempt[r]]
  BY RunRows
<1> DEFINE h == hold[r]
           at == attempt[r]
<1>3. bill' = bill /\ hold' = [hold EXCEPT ![r] = h] /\ attempt' = [attempt EXCEPT ![r] = at]
  BY <1>1
<1>4. run[r].status # "absent" /\ h.state = "reserved" => hold[r].state = "reserved"
  OBVIOUS
<1>5. HoldRow(h) /\ at \in [Ordinals(r) -> AttemptRow] /\ OneOpen(at, bill[r]) /\ Matches(w, h)
  BY <1>1
<1> HIDE DEF h, at
<1>6. \A n \in Ordinals(r) : at[n].state = "planned" => attempt[r][n].state = "planned"
  BY DEF at
<1> QED  BY <1>3, <1>4, <1>5, <1>6, RunMoves

\* The hold and the attempts change, and the delivery stays.
LEMMA HoldMoves ==
  ASSUME ConstantsOK, RowsRight, NEW r \in Runs, NEW h, HoldRow(h),
         NEW at \in [Ordinals(r) -> AttemptRow], run[r].status # "absent",
         hold' = [hold EXCEPT ![r] = h], attempt' = [attempt EXCEPT ![r] = at],
         UNCHANGED <<run, bill>>, OneOpen(at, bill[r]), h.delivery = hold[r].delivery,
         h.state = "reserved" => hold[r].state = "reserved",
         \A n \in Ordinals(r) : at[n].state = "planned" => attempt[r][n].state = "planned"
  PROVE  RowsMove
<1>1. Matches(run[r], h)  BY RunRows DEF Matches
<1>2. run[r] \in RunRow /\ run' = [run EXCEPT ![r] = run[r]] /\ bill' = bill  BY RunRows
<1> QED  BY <1>1, <1>2, RunMoves

\* refresh_hold decides nothing, and never puts a hold back to wait.
LEMMA RefreshedRow ==
  ASSUME NEW r, NEW h, HoldRow(h), NEW at
  PROVE  /\ HoldRow(Refreshed(r, h, at))
         /\ Refreshed(r, h, at).delivery = h.delivery
         /\ Refreshed(r, h, at).state = "reserved" => h.state = "reserved"
<1> DEFINE overrun == \/ Own(h) > Native \/ Total(r, h, at) > Reserve[r]
                      \/ \E n \in Ordinals(r) : at[n].state = "overrun"
           unresolved == h.native = Unmeasured \/ \E n \in Ordinals(r) : ~Final(at[n])
           unknown == \/ h.delivery # "pending"
                      \/ \E n \in Ordinals(r) : at[n].state \in {"outcome_unknown", "usage_unavailable"}
           s == CASE overrun -> "overrun"
                  [] ~overrun /\ unresolved /\ unknown -> "outcome_unknown"
                  [] ~overrun /\ unresolved /\ ~unknown -> "running"
                  [] ~overrun /\ ~unresolved /\ h.delivery # "pending" -> "settled"
                  [] ~overrun /\ ~unresolved /\ h.delivery = "pending" -> h.state
<1>1. Refreshed(r, h, at) = [h EXCEPT !.amount = Total(r, h, at), !.state = s]
  BY DEF Refreshed, HoldRow
<1>2. s \in {"overrun", "outcome_unknown", "running", "settled"} \/ s = h.state
  <2> HIDE DEF overrun, unresolved, unknown
  <2> QED  OBVIOUS
<1> HIDE DEF s
<1> QED  BY <1>1, <1>2 DEF HoldRow

\* settle_delivery decides the delivery, or finds it decided the same way.
LEMMA Decides ==
  ASSUME ConstantsOK, RowsRight, NEW r \in Runs, NEW outcome \in {"delivered", "failed"},
         Decide(r, outcome)
  PROVE  \E h : \E at \in [Ordinals(r) -> AttemptRow] :
            /\ hold' = [hold EXCEPT ![r] = h] /\ attempt' = [attempt EXCEPT ![r] = at]
            /\ HoldRow(h) /\ h.delivery = outcome /\ OneOpen(at, bill[r])
            /\ h.state = "reserved" => hold[r].state = "reserved"
            /\ \A n \in Ordinals(r) : at[n].state = "planned" => attempt[r][n].state = "planned"
<1>1. CASE hold[r].delivery # "pending"
  <2>1. hold[r].delivery = outcome /\ UNCHANGED <<hold, attempt>>
    BY <1>1 DEF Decide, Contradicts, money
  <2> QED  BY <2>1, RunRows
<1>2. CASE hold[r].delivery = "pending"
  <2> DEFINE at == [n \in Ordinals(r) |-> IF Drops(attempt[r][n])
                       THEN [state |-> "cancelled", cost |-> 0] ELSE attempt[r][n]]
             g == [hold[r] EXCEPT !.delivery = outcome]
             h == Refreshed(r, g, at)
  <2>1. hold' = [hold EXCEPT ![r] = h] /\ attempt' = [attempt EXCEPT ![r] = at]
    BY <1>2 DEF Decide, Contradicts
  <2>2. HoldRow(g) /\ g.delivery = outcome /\ g.state = hold[r].state
    <3>1. HoldRow(hold[r])  BY RunRows
    <3> QED  BY <3>1 DEF HoldRow
  <2>3. HoldRow(h) /\ h.delivery = outcome /\ (h.state = "reserved" => hold[r].state = "reserved")
    <3> HIDE DEF g, at
    <3> QED  BY <2>2, RefreshedRow
  <2>4. at \in [Ordinals(r) -> AttemptRow]  BY RunRows DEF AttemptRow
  <2>5. \A n \in Ordinals(r) : at[n] = attempt[r][n] \/ at[n].state = "cancelled"
    OBVIOUS
  <2>6. \A n \in Ordinals(r) : at[n].state = "planned" => attempt[r][n].state = "planned"
    BY <2>5
  <2>7. OneOpen(at, bill[r])
    <3>1. OneOpen(attempt[r], bill[r]) /\ DOMAIN attempt[r] = Ordinals(r) /\ DOMAIN at = Ordinals(r)
      BY RunRows
    <3> HIDE DEF at
    <3> QED  BY <3>1, <2>5 DEF OneOpen, Open
  <2> HIDE DEF at, h
  <2> QED  BY <2>1, <2>3, <2>4, <2>6, <2>7
<1> QED  BY <1>1, <1>2

\* A run and the delivery of its hold end together.
LEMMA EndMoves ==
  ASSUME ConstantsOK, RowsRight, NEW r \in Runs, NEW status \in Terminal, End(r, status),
         UNCHANGED bill
  PROVE  RowsMove
<1> DEFINE outcome == IF status = "succeeded" THEN "delivered" ELSE "failed"
           w == [run[r] EXCEPT !.status = status]
<1>1. Decide(r, outcome) /\ run' = [run EXCEPT ![r] = w]  BY DEF End
<1>2. PICK h : \E at \in [Ordinals(r) -> AttemptRow] :
            /\ hold' = [hold EXCEPT ![r] = h] /\ attempt' = [attempt EXCEPT ![r] = at]
            /\ HoldRow(h) /\ h.delivery = outcome /\ OneOpen(at, bill[r])
            /\ h.state = "reserved" => hold[r].state = "reserved"
            /\ \A n \in Ordinals(r) : at[n].state = "planned" => attempt[r][n].state = "planned"
  BY <1>1, Decides
<1>3. w \in RunRow /\ w.status = status  BY RunRows DEF RunRow, Terminal
<1>4. Matches(w, h)  BY <1>2, <1>3 DEF Matches, Terminal
<1>5. w.status # "absent"  BY <1>3 DEF Terminal
<1> HIDE DEF w, outcome
<1> QED  BY <1>1, <1>2, <1>3, <1>4, <1>5, RunMoves

-----------------------------------------------------------------------------
(* One lemma per action: admission, the owner and the operator. *)

LEMMA AdmitMoves ==
  ASSUME ConstantsOK, RowsRight, NEW r \in Runs, NEW status \in Active, Admit(r, status),
         UNCHANGED bill
  PROVE  RowsMove /\ run[r].status = "absent" /\ run'[r].status = status
         /\ hold'[r].state = IF status = "queued" THEN "reserved" ELSE "running"
<1> DEFINE w == [run[r] EXCEPT !.status = status]
           s == IF status = "queued" THEN "reserved" ELSE "running"
           h == [hold[r] EXCEPT !.state = s]
<1>1. run[r].status = "absent" /\ hold[r] = NoHold  BY RunRows DEF Admit
<1>2. run' = [run EXCEPT ![r] = w] /\ hold' = [hold EXCEPT ![r] = h] /\ attempt' = attempt
  BY DEF Admit
<1>3. w \in RunRow /\ w.status = status  BY RunRows DEF RunRow, Active
<1>4. HoldRow(h) /\ h.delivery = "pending" /\ h.state = s  BY <1>1 DEF HoldRow, NoHold
<1>5. Matches(w, h) /\ w.status # "absent"  BY <1>3, <1>4 DEF Matches, Active
<1>6. run'[r] = w /\ hold'[r] = h  BY <1>2 DEF RowsRight, RowTypes
<1> HIDE DEF w, h, s
<1>7. RowsMove  BY <1>1, <1>2, <1>3, <1>4, <1>5, RunRows, RunMoves
<1> QED  BY <1>1, <1>3, <1>4, <1>6, <1>7 DEF s

LEMMA CreateStep ==
  ASSUME ConstantsOK, IInv, NEW r \in Runs, Create(r)
  PROVE  IInv'
<1>1. RowsMove  BY AdmitMoves DEF Create, Active, world, IInv
<1> QED  BY <1>1, CallsKept DEF Create

LEMMA StartInlineStep ==
  ASSUME ConstantsOK, IInv, NEW c \in Calls, NEW r \in Runs, StartInline(c, r)
  PROVE  IInv'
<1>1. RowsMove /\ run[r].status = "absent" /\ run'[r].status = "running"
      /\ hold'[r].state = "running"
  BY AdmitMoves DEF StartInline, Active, IInv
<1>2. \A d \in Calls : ~Working(d, r)  BY <1>1 DEF IInv, CallsRight, RunRight, Working
<1>3. call' = [call EXCEPT ![c] = [phase |-> "work", run |-> r, ordinal |-> 0]]
  BY DEF StartInline
<1> QED  BY <1>1, <1>2, <1>3, WorkStarts

LEMMA CancelStep ==
  ASSUME ConstantsOK, IInv, NEW r \in Runs, Cancel(r)
  PROVE  IInv'
<1> DEFINE w == [run[r] EXCEPT !.cancel = TRUE]
           v == [run[r] EXCEPT !.status = "cancelled", !.cancel = TRUE]
<1>1. CASE run[r].status = "queued"
  <2>1. Decide(r, "failed") /\ run' = [run EXCEPT ![r] = v]
    BY <1>1 DEF Cancel, IInv, RowsRight, RowTypes
  <2>2. PICK h : \E at \in [Ordinals(r) -> AttemptRow] :
            /\ hold' = [hold EXCEPT ![r] = h] /\ attempt' = [attempt EXCEPT ![r] = at]
            /\ HoldRow(h) /\ h.delivery = "failed" /\ OneOpen(at, bill[r])
            /\ h.state = "reserved" => hold[r].state = "reserved"
            /\ \A n \in Ordinals(r) : at[n].state = "planned" => attempt[r][n].state = "planned"
    BY <2>1, Decides DEF IInv
  <2>3. v \in RunRow /\ v.status = "cancelled"  BY RunRows DEF RunRow, Terminal, IInv
  <2>4. Matches(v, h)  BY <2>2, <2>3 DEF Matches
  <2>5. UNCHANGED <<bill, call>>  BY DEF Cancel, world
  <2> HIDE DEF v
  <2>6. RowsMove  BY <2>1, <2>2, <2>3, <2>4, <2>5, RunMoves DEF IInv
  <2> QED  BY <2>5, <2>6, CallsKept
<1>2. CASE run[r].status # "queued"
  <2>1. run' = [run EXCEPT ![r] = w] /\ UNCHANGED <<hold, attempt, bill, call>>
        /\ run[r].status # "absent"
    BY <1>2 DEF Cancel, Active, IInv, RowsRight, RowTypes, money, world
  <2>2. w \in RunRow /\ w.status = run[r].status  BY RunRows DEF RunRow, IInv
  <2>3. Matches(w, hold[r])  BY <2>2, RunRows DEF Matches, IInv
  <2> HIDE DEF w
  <2>4. RowsMove  BY <2>1, <2>2, <2>3, StatusMoves DEF IInv
  <2> QED  BY <2>1, <2>4, CallsKept
<1> QED  BY <1>1, <1>2

LEMMA EraseStep ==
  ASSUME ConstantsOK, IInv, NEW r \in Runs, Erase(r)
  PROVE  IInv'
<1> DEFINE w == [NoRow EXCEPT !.status = "erased"]
<1>1. run' = [run EXCEPT ![r] = w] /\ UNCHANGED <<hold, attempt, bill, call>>
      /\ run[r].status # "absent"
  BY DEF Erase, money, world
<1>2. w \in RunRow /\ w.status = "erased"  BY DEF NoRow, RunRow
<1>3. Matches(w, hold[r])  BY <1>2 DEF Matches
<1> HIDE DEF w
<1>4. RowsMove  BY <1>1, <1>2, <1>3, StatusMoves DEF IInv
<1> QED  BY <1>1, <1>4, CallsKept

LEMMA SettleExhaustedStep ==
  ASSUME ConstantsOK, IInv, NEW r \in Runs, SettleExhausted(r)
  PROVE  IInv'
<1>1. End(r, "failed") /\ UNCHANGED <<bill, call>>  BY DEF SettleExhausted, world
<1>2. RowsMove  BY <1>1, EndMoves DEF IInv, Terminal
<1> QED  BY <1>1, <1>2, CallsKept

LEMMA ReconcileStep ==
  ASSUME ConstantsOK, IInv, NEW r \in Runs, Reconcile(r)
  PROVE  IInv'
<1> DEFINE g == [hold[r] EXCEPT !.native = spent[r]]
           h == Refreshed(r, g, attempt[r])
<1>1. hold' = [hold EXCEPT ![r] = h] /\ UNCHANGED <<run, attempt, bill, call>>
      /\ hold[r].delivery # "pending"
  BY DEF Reconcile, world
<1>2. run[r].status # "absent"  BY <1>1, RunRows DEF NoHold, IInv
<1>3. HoldRow(g) /\ g.delivery = hold[r].delivery /\ g.state = hold[r].state
  <2>1. HoldRow(hold[r])  BY RunRows DEF IInv
  <2> QED  BY <2>1 DEF HoldRow
<1>4. HoldRow(h) /\ h.delivery = hold[r].delivery
      /\ (h.state = "reserved" => hold[r].state = "reserved")
  <2> HIDE DEF g
  <2> QED  BY <1>3, RefreshedRow
<1> HIDE DEF h
<1>5. RowsMove  BY <1>1, <1>2, <1>4, RunRows, HoldMoves DEF IInv
<1> QED  BY <1>1, <1>5, CallsKept

LEMMA BecomesStaleStep ==
  ASSUME ConstantsOK, IInv, NEW r \in Runs, BecomesStale(r)
  PROVE  IInv'
<1> DEFINE w == [run[r] EXCEPT !.stale = TRUE]
<1>1. run' = [run EXCEPT ![r] = w] /\ UNCHANGED <<hold, attempt, bill, call>>
      /\ run[r].status # "absent"
  BY DEF BecomesStale, money, world
<1>2. w \in RunRow /\ w.status = run[r].status  BY RunRows DEF RunRow, IInv
<1>3. Matches(w, hold[r])  BY <1>2, RunRows DEF Matches, IInv
<1> HIDE DEF w
<1>4. RowsMove  BY <1>1, <1>2, <1>3, StatusMoves DEF IInv
<1> QED  BY <1>1, <1>4, CallsKept

LEMMA EraseLegacyStep ==
  ASSUME ConstantsOK, IInv, NEW l \in Legacy, EraseLegacy(l)
  PROVE  IInv'
<1>1. UNCHANGED <<run, hold, attempt, bill, call>>  BY DEF EraseLegacy, money, world
<1> QED  BY <1>1, RowsKept, CallsKept DEF IInv

-----------------------------------------------------------------------------
(* One lemma per action: the worker. *)

LEMMA CallFacts ==
  ASSUME IInv, NEW c \in Calls
  PROVE  /\ call[c] \in CallRow /\ CallRight(c)
         /\ \A r \in Runs : call[c].run = r => run[r].status # "absent"
BY DEF IInv, CallsRight, RunRight

LEMMA LeaveStep ==
  ASSUME ConstantsOK, IInv, RowsMove, NEW c \in Calls, Leave(c)
  PROVE  IInv'
<1>1. call' = [call EXCEPT ![c] = Idle]  BY DEF Leave
<1>2. Idle \in CallRow  BY DEF Idle, CallRow
<1>3. call'[c] = Idle  BY <1>1 DEF IInv, CallsRight
<1>4. CallRight(c)'  BY <1>3 DEF CallRight, Idle
<1>5. Idle.run \notin Runs  BY DEF Idle, ConstantsOK
<1> QED  BY <1>1, <1>2, <1>4, <1>5, CallMoves

\* A call that has no request goes on, without executing.
LEMMA PhaseStep ==
  ASSUME ConstantsOK, IInv, RowsMove, NEW c \in Calls,
         NEW p \in {"cancel", "enter", "commit", "error"},
         call[c].phase \notin {"idle", "send", "answer"}, Step(c, p)
  PROVE  IInv'
<1> DEFINE x == [call[c] EXCEPT !.phase = p]
<1>1. call' = [call EXCEPT ![c] = x]  BY DEF Step
<1>2. x \in CallRow /\ x.phase = p /\ x.run = call[c].run /\ x.ordinal = 0 /\ x.run \in Runs
  BY CallFacts DEF CallRow, CallRight
<1>3. call'[c] = x  BY <1>1 DEF IInv, CallsRight
<1> HIDE DEF x
<1>4. CallRight(c)'  BY <1>2, <1>3 DEF CallRight
<1>5. \A r \in Runs : x.run = r => run[r].status # "absent"  BY <1>2, CallFacts
<1> QED  BY <1>1, <1>2, <1>4, <1>5, CallMoves

LEMMA ClaimRunStep ==
  ASSUME ConstantsOK, IInv, NEW c \in Calls, NEW r \in Runs, ClaimRun(c, r)
  PROVE  IInv'
<1> DEFINE w == [run[r] EXCEPT !.status = "running", !.stale = FALSE]
           x == [phase |-> "read", run |-> r, ordinal |-> 0]
<1>1. /\ run' = [run EXCEPT ![r] = w] /\ UNCHANGED <<hold, attempt, bill>>
      /\ run[r].status \in Active /\ call' = [call EXCEPT ![c] = x]
  BY DEF ClaimRun, Claimable, Active, money, world, IInv, RowsRight, RowTypes
<1>2. w \in RunRow /\ w.status = "running"  BY RunRows DEF RunRow, Active, IInv
<1>3. Matches(w, hold[r])  BY <1>1, <1>2, RunRows DEF Matches, Active, IInv
<1>4. run[r].status # "absent"  BY <1>1 DEF Active
<1> HIDE DEF w
<1>5. RowsMove  BY <1>1, <1>2, <1>3, <1>4, StatusMoves DEF IInv
<1>6. x \in CallRow  BY DEF CallRow, Operations
<1>7. call'[c] = x  BY <1>1 DEF IInv, CallsRight
<1>8. CallRight(c)'  BY <1>7 DEF CallRight
<1> QED  BY <1>1, <1>4, <1>5, <1>6, <1>8, CallMoves

LEMMA ReadRunStep ==
  ASSUME ConstantsOK, IInv, NEW c \in Calls, ReadRun(c)
  PROVE  IInv'
<1>1. UNCHANGED <<run, hold, attempt, bill>> /\ call[c].phase = "read"
  BY DEF ReadRun, money, world
<1>2. RowsMove  BY <1>1, RowsKept DEF IInv
<1>3. Leave(c) \/ Step(c, "cancel") \/ Step(c, "enter")  BY DEF ReadRun
<1> QED  BY <1>1, <1>2, <1>3, LeaveStep, PhaseStep

LEMMA CancelClaimedStep ==
  ASSUME ConstantsOK, IInv, NEW c \in Calls, CancelClaimed(c)
  PROVE  IInv'
<1> DEFINE r == call[c].run
<1>1. /\ Leave(c) /\ bill' = bill /\ r \in Runs
      /\ UNCHANGED <<run, hold, attempt>> \/ End(r, "cancelled")
  BY CallFacts DEF CancelClaimed, CallRight, money, world
<1> HIDE DEF r
<1>2. RowsMove  BY <1>1, RowsKept, EndMoves DEF IInv, Terminal
<1> QED  BY <1>1, <1>2, LeaveStep

LEMMA EnterStep ==
  ASSUME ConstantsOK, IInv, NEW c \in Calls, Enter(c)
  PROVE  IInv'
<1> DEFINE r == call[c].run
           h == [hold[r] EXCEPT !.state = "running"]
<1>1. r \in Runs /\ call[c].phase = "enter" /\ call[c].ordinal = 0 /\ run[r].status # "absent"
  BY CallFacts DEF Enter, CallRight
<1>2. UNCHANGED <<run, attempt, bill>>  BY DEF Enter
<1>3. CASE hold' = [hold EXCEPT ![r] = h] /\ hold[r].state = "reserved" /\ Step(c, "work")
  <2>1. HoldRow(h) /\ h.delivery = hold[r].delivery /\ h.state = "running"
    <3>1. HoldRow(hold[r])  BY <1>1, RunRows DEF IInv
    <3> HIDE DEF r
    <3> QED  BY <3>1 DEF HoldRow
  <2>2. hold'[r] = h  BY <1>1, <1>3 DEF IInv, RowsRight, RowTypes
  <2>3. call' = [call EXCEPT ![c] = [phase |-> "work", run |-> r, ordinal |-> 0]]
    <3>1. call[c] \in CallRow  BY CallFacts
    <3>2. [call[c] EXCEPT !.phase = "work"] = [phase |-> "work", run |-> r, ordinal |-> 0]
      BY <1>1, <3>1 DEF CallRow
    <3> QED  BY <1>3, <3>2 DEF Step
  <2>4. \A d \in Calls : ~Working(d, r)  BY <1>1, <1>3 DEF IInv, CallsRight, RunRight
  <2> HIDE DEF h, r
  <2>5. RowsMove  BY <1>1, <1>2, <1>3, <2>1, RunRows, HoldMoves DEF IInv
  <2> QED  BY <1>1, <1>2, <2>1, <2>2, <2>3, <2>4, <2>5, WorkStarts
<1>4. CASE Step(c, "error") /\ UNCHANGED hold
  <2>1. RowsMove  BY <1>2, <1>4, RowsKept DEF IInv
  <2> QED  BY <1>1, <1>4, <2>1, PhaseStep
<1> QED  BY <1>3, <1>4 DEF Enter, Enterable

LEMMA ClaimAttemptStep ==
  ASSUME ConstantsOK, IInv, NEW c \in Calls, NEW n \in Ordinals(call[c].run), ClaimAttempt(c, n)
  PROVE  IInv'
<1> DEFINE r == call[c].run
           a == [attempt[r][n] EXCEPT !.state = "started"]
           at == [attempt[r] EXCEPT ![n] = a]
           h == [hold[r] EXCEPT !.state = "running"]
           x == [call[c] EXCEPT !.phase = "send", !.ordinal = n]
<1>1. /\ r \in Runs /\ r \in Operations /\ n \in Ordinals(r) /\ n \in Nat
      /\ call[c].phase = "work" /\ run[r].status # "absent"
  BY CallFacts DEF ClaimAttempt, Operations, Ordinals, ConstantsOK
<1>2. /\ attempt' = [attempt EXCEPT ![r] = at] /\ hold' = [hold EXCEPT ![r] = h]
      /\ call' = [call EXCEPT ![c] = x] /\ UNCHANGED <<run, bill>>
  BY DEF ClaimAttempt, world
<1>3. \A m \in Ordinals(r) : ~Open(attempt[r][m])  BY DEF ClaimAttempt, Blocks, Open
<1>4. HoldRow(h) /\ h.delivery = hold[r].delivery /\ h.state = "running"
  <2>1. HoldRow(hold[r])  BY <1>1, RunRows DEF IInv
  <2> HIDE DEF r
  <2> QED  BY <2>1 DEF HoldRow
<1>5. a \in AttemptRow /\ a.state = "started"  BY <1>1, RunRows DEF AttemptRow, IInv
<1>6. at \in [Ordinals(r) -> AttemptRow] /\ \A m \in Ordinals(r) : at[m] = IF m = n THEN a ELSE attempt[r][m]
  BY <1>1, <1>5, RunRows DEF IInv
<1>7. x \in CallRow /\ x.phase = "send" /\ x.run = r /\ x.ordinal = n
  BY <1>1, CallFacts DEF CallRow
<1>8. call'[c] = x /\ attempt'[r] = at
  BY <1>1, <1>2 DEF IInv, CallsRight, RowsRight, RowTypes
<1> HIDE DEF a, at, h, x, r
<1>9. OneOpen(at, bill[r])
  <2>1. OneOpen(attempt[r], bill[r]) /\ DOMAIN at = Ordinals(r) /\ DOMAIN attempt[r] = Ordinals(r)
    BY <1>1, <1>6, RunRows DEF IInv
  <2> QED  BY <2>1, <1>3, <1>5, <1>6 DEF OneOpen
<1>10. \A m \in Ordinals(r) : at[m].state = "planned" => attempt[r][m].state = "planned"
  BY <1>5, <1>6
<1>11. RowsMove  BY <1>1, <1>2, <1>4, <1>6, <1>9, <1>10, HoldMoves DEF IInv
<1>12. CallRight(c)'  BY <1>1, <1>5, <1>6, <1>7, <1>8 DEF CallRight
<1>13. Working(c, r)  BY <1>1 DEF Working, r
<1> QED  BY <1>1, <1>2, <1>7, <1>11, <1>12, <1>13, CallMoves

LEMMA SendStep ==
  ASSUME ConstantsOK, IInv, NEW c \in Calls, Send(c)
  PROVE  IInv'
<1> DEFINE r == call[c].run
           n == call[c].ordinal
           x == [call[c] EXCEPT !.phase = "answer"]
<1>1. /\ r \in Operations /\ n \in Ordinals(r) /\ attempt[r][n].state # "planned"
      /\ call[c].phase = "send"
  BY CallFacts DEF Send, CallRight
<1>2. PICK k \in Costs \cup {0} : bill' = [bill EXCEPT ![r][n] = k]  BY DEF Send
<1>3. UNCHANGED <<run, hold, attempt>> /\ call' = [call EXCEPT ![c] = x]
  BY DEF Send, Step, money
<1>4. k \in Nat  BY <1>2 DEF ConstantsOK
<1>5. x \in CallRow /\ x.phase = "answer" /\ x.run = r /\ x.ordinal = n
  BY CallFacts DEF CallRow
<1> HIDE DEF x, r, n
<1>6. \A o \in Operations : bill'[o] = IF o = r THEN [bill[r] EXCEPT ![n] = k] ELSE bill[o]
  BY <1>1, <1>2 DEF IInv, RowsRight, RowTypes
<1>7. \A o \in Operations : bill'[o] \in [Ordinals(o) -> Nat]
  BY <1>1, <1>4, <1>6 DEF IInv, RowsRight, RowTypes
<1>8. (bill = [o \in Operations |-> bill[o]])'
  BY <1>1, <1>2 DEF IInv, RowsRight, RowTypes
<1>9. \A o \in Operations : \A m \in Ordinals(o) :
         bill'[o][m] = bill[o][m] \/ attempt[o][m].state # "planned"
  BY <1>1, <1>6 DEF IInv, RowsRight, RowTypes
<1>10. \A q \in Runs : OneOpen(attempt[q], bill'[q])
  <2>1. ASSUME NEW q \in Runs PROVE OneOpen(attempt[q], bill'[q])
    <3>1. q \in Operations /\ DOMAIN attempt[q] = Ordinals(q) /\ OneOpen(attempt[q], bill[q])
      BY RunRows DEF Operations, IInv
    <3> QED  BY <3>1, <1>9 DEF OneOpen
  <2> QED  BY <2>1
<1>11. RowTypes'  BY <1>3, <1>7, <1>8 DEF RowTypes, IInv, RowsRight, HoldRow
<1>12. (\A q \in Runs : Matches(run[q], hold[q]) /\ OneOpen(attempt[q], bill[q]))'
  BY <1>3, <1>10 DEF IInv, RowsRight, Matches, OneOpen, Open
<1>13. RowsRight'  BY <1>3, <1>11, <1>12 DEF IInv, RowsRight, NoHold
<1>14. RowsMove  BY <1>3, <1>13 DEF RowsMove
<1>15. call'[c] = x  BY <1>3 DEF IInv, CallsRight
<1>16. CallRight(c)'  BY <1>1, <1>3, <1>5, <1>15 DEF CallRight
<1>17. \A q \in Runs : x.run = q => run[q].status # "absent" /\ Working(c, q)
  BY <1>1, <1>5, CallFacts DEF Working, r
<1> QED  BY <1>3, <1>14, <1>5, <1>16, <1>17, CallMoves

LEMMA AnswersRow ==
  ASSUME ConstantsOK, NEW cost \in Nat, NEW a \in Answers(cost)
  PROVE  a \in AttemptRow /\ a.state # "planned"
BY DEF Answers, AttemptRow

LEMMA AnsweredStep ==
  ASSUME ConstantsOK, IInv, RowsMove, NEW c \in Calls, call[c].phase = "answer",
         call[c].run \in Runs, NEW p \in {"work", "error"},
         call' = [call EXCEPT ![c].phase = p, ![c].ordinal = 0]
  PROVE  IInv'
<1> DEFINE x == [call[c] EXCEPT !.phase = p, !.ordinal = 0]
<1>1. call' = [call EXCEPT ![c] = x]  BY DEF IInv, CallsRight
<1>2. x \in CallRow /\ x.phase = p /\ x.run = call[c].run /\ x.ordinal = 0
  BY CallFacts DEF CallRow
<1>3. call'[c] = x  BY <1>1 DEF IInv, CallsRight
<1> HIDE DEF x
<1>4. CallRight(c)'  BY <1>2, <1>3 DEF CallRight
<1>5. \A r \in Runs : x.run = r => run[r].status # "absent" /\ Working(c, r)
  BY <1>2, CallFacts DEF Working
<1> QED  BY <1>1, <1>2, <1>4, <1>5, CallMoves

LEMMA FinishAttemptStep ==
  ASSUME ConstantsOK, IInv, NEW c \in Calls, FinishAttempt(c)
  PROVE  IInv'
<1> DEFINE r == call[c].run
           n == call[c].ordinal
<1>1. /\ r \in Runs /\ r \in Operations /\ n \in Ordinals(r) /\ attempt[r][n].state # "planned"
      /\ call[c].phase = "answer" /\ run[r].status # "absent"
  BY CallFacts DEF FinishAttempt, CallRight
<1>2. UNCHANGED <<run, bill>> /\ call' = [call EXCEPT ![c].phase = "work", ![c].ordinal = 0]
  BY DEF FinishAttempt, Answered, world
<1>3. PICK a \in Answers(bill[r][n]) :
         LET at == [attempt[r] EXCEPT ![n] = a]
         IN  IF Final(attempt[r][n]) THEN UNCHANGED money
             ELSE /\ attempt' = [attempt EXCEPT ![r] = at]
                  /\ hold' = [hold EXCEPT ![r] = Refreshed(r, @, at)]
  BY DEF FinishAttempt
<1>4. CASE Final(attempt[r][n])
  <2>1. RowsMove  BY <1>2, <1>3, <1>4, RowsKept DEF IInv, money
  <2> QED  BY <1>1, <1>2, <2>1, AnsweredStep
<1>5. CASE ~Final(attempt[r][n])
  <2> DEFINE at == [attempt[r] EXCEPT ![n] = a]
             h == Refreshed(r, hold[r], at)
  <2>1. attempt' = [attempt EXCEPT ![r] = at] /\ hold' = [hold EXCEPT ![r] = h]
    BY <1>3, <1>5
  <2>2. HoldRow(h) /\ h.delivery = hold[r].delivery
        /\ (h.state = "reserved" => hold[r].state = "reserved")
    BY <1>1, RunRows, RefreshedRow DEF IInv
  <2>3. bill[r][n] \in Nat  BY <1>1 DEF IInv, RowsRight, RowTypes
  <2>4. a \in AttemptRow /\ a.state # "planned"  BY <2>3, AnswersRow
  <2>5. /\ at \in [Ordinals(r) -> AttemptRow]
        /\ \A m \in Ordinals(r) : at[m] = IF m = n THEN a ELSE attempt[r][m]
    BY <1>1, <2>4, RunRows DEF IInv
  <2>6. Open(attempt[r][n])
    <3>1. attempt[r][n] \in AttemptRow  BY <1>1, RunRows DEF IInv
    <3> QED  BY <1>1, <1>5, <3>1 DEF Open, Final, AttemptRow
  <2> HIDE DEF at, h, r, n
  <2>7. OneOpen(at, bill[r])
    <3>1. OneOpen(attempt[r], bill[r]) /\ DOMAIN at = Ordinals(r) /\ DOMAIN attempt[r] = Ordinals(r)
      BY <1>1, <2>5, RunRows DEF IInv
    <3> QED  BY <1>1, <3>1, <2>4, <2>5, <2>6 DEF OneOpen
  <2>8. \A m \in Ordinals(r) : at[m].state = "planned" => attempt[r][m].state = "planned"
    BY <2>4, <2>5
  <2>9. RowsMove  BY <1>1, <1>2, <2>1, <2>2, <2>5, <2>7, <2>8, HoldMoves DEF IInv
  <2> QED  BY <1>1, <1>2, <2>9, AnsweredStep DEF r
<1> QED  BY <1>4, <1>5

LEMMA FailCallbackStep ==
  ASSUME ConstantsOK, IInv, NEW c \in Calls, FailCallback(c)
  PROVE  IInv'
<1>1. RowsMove  BY RowsKept DEF FailCallback, IInv, money, world
<1> QED  BY <1>1, AnsweredStep DEF FailCallback

LEMMA FinishStep ==
  ASSUME ConstantsOK, IInv, NEW c \in Calls, Finish(c)
  PROVE  IInv'
<1>1. RowsMove  BY RowsKept DEF Finish, IInv, money, world
<1> QED  BY <1>1, PhaseStep DEF Finish

LEMMA ResultMoves ==
  ASSUME ConstantsOK, IInv, NEW c \in Calls, call[c].run \in Runs, ResultOf(c), UNCHANGED bill
  PROVE  RowsMove
<1> DEFINE r == call[c].run
<1>1. UNCHANGED <<run, hold, attempt>> \/ End(r, "succeeded") \/ End(r, "cancelled")
  BY DEF ResultOf, money
<1> HIDE DEF r
<1> QED  BY <1>1, RowsKept, EndMoves DEF IInv, Terminal, r

LEMMA CommitResultStep ==
  ASSUME ConstantsOK, IInv, NEW c \in Calls, CommitResult(c)
  PROVE  IInv'
<1>1. call[c].run \in Runs /\ UNCHANGED bill /\ ResultOf(c) /\ Leave(c)
  BY CallFacts DEF CommitResult, CallRight, world
<1> QED  BY <1>1, ResultMoves, LeaveStep

LEMMA RefuseResultStep ==
  ASSUME ConstantsOK, IInv, NEW c \in Calls, RefuseResult(c)
  PROVE  IInv'
<1>1. RowsMove  BY RowsKept DEF RefuseResult, IInv, money, world
<1> QED  BY <1>1, PhaseStep DEF RefuseResult

LEMMA FailCommitStep ==
  ASSUME ConstantsOK, IInv, NEW c \in Calls, FailCommit(c)
  PROVE  IInv'
<1>1. /\ call[c].run \in Runs /\ UNCHANGED bill /\ call[c].phase = "commit" /\ Step(c, "error")
      /\ ResultOf(c) \/ UNCHANGED <<run, hold, attempt>>
  BY CallFacts DEF FailCommit, CallRight, world, money
<1>2. RowsMove  BY <1>1, ResultMoves, RowsKept DEF IInv
<1> QED  BY <1>1, <1>2, PhaseStep

LEMMA RecordErrorStep ==
  ASSUME ConstantsOK, IInv, NEW c \in Calls, RecordError(c)
  PROVE  IInv'
<1> DEFINE r == call[c].run
<1>1. /\ r \in Runs /\ UNCHANGED bill /\ Leave(c)
      /\ UNCHANGED <<run, hold, attempt>> \/ End(r, "cancelled") \/ End(r, "failed")
  BY CallFacts DEF RecordError, CallRight, world, money
<1> HIDE DEF r
<1>2. RowsMove  BY <1>1, RowsKept, EndMoves DEF IInv, Terminal
<1> QED  BY <1>1, <1>2, LeaveStep

-----------------------------------------------------------------------------
(* One lemma per action: operations in units, and crashes. *)

LEMMA ClaimRequestStep ==
  ASSUME ConstantsOK, IInv, NEW c \in Calls, NEW l \in Legacy, NEW n \in Ordinals(l),
         ClaimRequest(c, l, n)
  PROVE  IInv'
<1> DEFINE a == [attempt[l][n] EXCEPT !.state = "started"]
           at == [attempt[l] EXCEPT ![n] = a]
           x == [phase |-> "send", run |-> l, ordinal |-> n]
<1>1. l \in Operations /\ l \notin Runs /\ n \in Nat
  BY DEF Operations, Ordinals, ConstantsOK
<1>2. /\ attempt' = [attempt EXCEPT ![l] = at] /\ UNCHANGED <<run, hold, bill>>
      /\ call' = [call EXCEPT ![c] = x]
  BY DEF ClaimRequest, world
<1>3. attempt[l] \in [Ordinals(l) -> AttemptRow]  BY <1>1 DEF IInv, RowsRight, RowTypes
<1>4. a \in AttemptRow /\ a.state = "started"  BY <1>3 DEF AttemptRow
<1>5. /\ at \in [Ordinals(l) -> AttemptRow]
      /\ \A m \in Ordinals(l) : at[m] = IF m = n THEN a ELSE attempt[l][m]
  BY <1>3, <1>4
<1>6. call'[c] = x /\ attempt'[l] = at
  BY <1>1, <1>2 DEF IInv, CallsRight, RowsRight, RowTypes
<1> HIDE DEF a, at
<1>7. \A m \in Ordinals(l) : at[m].state = "planned" => attempt[l][m].state = "planned"
  BY <1>4, <1>5
<1>8. RowsMove  BY <1>2, <1>5, <1>7, RequestMoves DEF IInv
<1>9. x \in CallRow  BY <1>1 DEF CallRow
<1>10. CallRight(c)'  BY <1>1, <1>4, <1>5, <1>6 DEF CallRight
<1> QED  BY <1>1, <1>2, <1>8, <1>9, <1>10, CallMoves

LEMMA FinishRequestStep ==
  ASSUME ConstantsOK, IInv, NEW c \in Calls, FinishRequest(c)
  PROVE  IInv'
<1> DEFINE l == call[c].run
           n == call[c].ordinal
<1>1. l \in Legacy /\ l \in Operations /\ n \in Ordinals(l)
  BY CallFacts DEF FinishRequest, CallRight
<1>2. Leave(c) /\ UNCHANGED <<run, hold, bill>>  BY DEF FinishRequest, world
<1>3. bill[l][n] \in Nat  BY <1>1 DEF IInv, RowsRight, RowTypes
<1>4. \E a \in Answers(bill[l][n]) : \E s \in {a.state, "overrun"} :
         attempt' = [attempt EXCEPT ![l][n] = [a EXCEPT !.state = s]]
  <2>1. \A a \in Answers(bill[l][n]) : a = [a EXCEPT !.state = a.state]
    BY DEF Answers
  <2> QED  BY <2>1 DEF FinishRequest
<1>5. PICK b \in AttemptRow : b.state # "planned" /\ attempt' = [attempt EXCEPT ![l][n] = b]
  <2>0. PICK a \in Answers(bill[l][n]) : \E s \in {a.state, "overrun"} :
           attempt' = [attempt EXCEPT ![l][n] = [a EXCEPT !.state = s]]
    BY <1>4
  <2>1. PICK s \in {a.state, "overrun"} :
           attempt' = [attempt EXCEPT ![l][n] = [a EXCEPT !.state = s]]
    BY <2>0
  <2>2. a \in AttemptRow /\ a.state # "planned"  BY <1>3, AnswersRow
  <2>3. [a EXCEPT !.state = s] \in AttemptRow /\ [a EXCEPT !.state = s].state # "planned"
    BY <2>2 DEF AttemptRow
  <2> QED  BY <2>1, <2>3
<1> DEFINE at == [attempt[l] EXCEPT ![n] = b]
<1>6. attempt' = [attempt EXCEPT ![l] = at]  BY <1>5
<1>7. attempt[l] \in [Ordinals(l) -> AttemptRow]  BY <1>1 DEF IInv, RowsRight, RowTypes
<1>8. /\ at \in [Ordinals(l) -> AttemptRow]
      /\ \A m \in Ordinals(l) : at[m] = IF m = n THEN b ELSE attempt[l][m]
  BY <1>5, <1>7
<1> HIDE DEF at
<1>9. \A m \in Ordinals(l) : at[m].state = "planned" => attempt[l][m].state = "planned"
  BY <1>5, <1>8
<1>10. RowsMove  BY ZenonT(60), <1>1, <1>2, <1>6, <1>8, <1>9, RequestMoves DEF IInv
<1> QED  BY <1>2, <1>10, LeaveStep

LEMMA CrashStep ==
  ASSUME ConstantsOK, IInv, NEW c \in Calls, Crash(c)
  PROVE  IInv'
<1>1. RowsMove  BY RowsKept DEF Crash, IInv, money, world
<1> QED  BY <1>1, LeaveStep DEF Crash

-----------------------------------------------------------------------------
(* The theorems. *)

LEMMA InitRight ==
  ASSUME ConstantsOK, Init
  PROVE  IInv
<1>1. RowTypes
  BY DEF Init, RowTypes, RunRow, NoRow, HoldRow, NoHold, AttemptRow, Planned
<1>2. \A r \in Runs : Matches(run[r], hold[r])  BY DEF Init, Matches, NoRow
<1>3. ASSUME NEW r \in Runs PROVE OneOpen(attempt[r], bill[r])
  <2>1. /\ attempt[r] = [n \in Ordinals(r) |-> Planned] /\ bill[r] = [n \in Ordinals(r) |-> 0]
    BY DEF Init, Operations
  <2> QED  BY <2>1 DEF OneOpen, Open, Planned
<1>4. \A r \in Runs : hold[r] = NoHold  BY DEF Init
<1>5. \A c \in Calls : call[c] = Idle  BY DEF Init
<1>6. call \in [Calls -> CallRow]  BY DEF Init, Idle, CallRow
<1>7. \A c \in Calls : CallRight(c)  BY <1>5 DEF CallRight, Idle
<1>8. \A r \in Runs : RunRight(r)
  BY <1>5 DEF RunRight, Working, Idle, ConstantsOK
<1> QED  BY <1>1, <1>2, <1>3, <1>4, <1>6, <1>7, <1>8 DEF IInv, RowsRight, CallsRight

LEMMA StepRight ==
  ASSUME ConstantsOK, IInv, [Next]_vars
  PROVE  IInv'
<1>1. CASE UNCHANGED vars
  <2>1. UNCHANGED <<run, hold, attempt, bill, call>>  BY <1>1 DEF vars, money, world
  <2> QED  BY <2>1, RowsKept, CallsKept DEF IInv
<1>2. ASSUME NEW r \in Runs,
             Create(r) \/ Cancel(r) \/ Erase(r) \/ SettleExhausted(r) \/ Reconcile(r) \/ BecomesStale(r)
      PROVE  IInv'
  BY <1>2, CreateStep, CancelStep, EraseStep, SettleExhaustedStep, ReconcileStep, BecomesStaleStep
<1>3. ASSUME NEW c \in Calls, CallStep(c)
      PROVE  IInv'
  BY <1>3, ReadRunStep, CancelClaimedStep, EnterStep, SendStep, FinishAttemptStep, FinishStep,
     CommitResultStep, RefuseResultStep, RecordErrorStep, FinishRequestStep, ClaimAttemptStep
     DEF CallStep
<1>4. ASSUME NEW c \in Calls, FailCallback(c) \/ FailCommit(c) \/ Crash(c)
      PROVE  IInv'
  BY <1>4, FailCallbackStep, FailCommitStep, CrashStep
<1>5. ASSUME NEW c \in Calls, NEW r \in Runs, ClaimRun(c, r) \/ StartInline(c, r)
      PROVE  IInv'
  BY <1>5, ClaimRunStep, StartInlineStep
<1>6. ASSUME NEW l \in Legacy,
             EraseLegacy(l) \/ \E c \in Calls, n \in Ordinals(l) : ClaimRequest(c, l, n)
      PROVE  IInv'
  BY <1>6, EraseLegacyStep, ClaimRequestStep
<1> QED  BY <1>1, <1>2, <1>3, <1>4, <1>5, <1>6 DEF Next

\* The rows and the calls always fit together.
THEOREM HoldsInvariance == Spec => []IInv
<1>1. Init => IInv  BY InitRight, ConstantsOK
<1>2. IInv /\ [Next]_vars => IInv'  BY StepRight, ConstantsOK
<1> QED  BY <1>1, <1>2, PTL DEF Spec

\* Every row and every call has one of the states the code knows.
THEOREM HoldsTypeCorrect == Spec => []TypeOK
<1>1. IInv => TypeOK  BY DEF IInv, RowsRight, CallsRight, TypeOK
<1> QED  BY <1>1, HoldsInvariance, PTL

\* A run and the delivery of its hold have the same outcome, whoever ends the run:
\* its owner, its worker, a late worker or the outbox.
THEOREM HoldsOutcomeMatchesDelivery == Spec => []OutcomeMatchesDelivery
<1>1. IInv => OutcomeMatchesDelivery
  BY DEF IInv, RowsRight, Matches, OutcomeMatchesDelivery
<1> QED  BY <1>1, HoldsInvariance, PTL

\* An operation paid in credits is executed by one call at most, and one request of
\* it at most is at the provider without its cost being known.
THEOREM HoldsOneInDoubt == Spec => []OneInDoubt
<1>1. ASSUME IInv PROVE OneInDoubt
  <2>1. ASSUME NEW r \in Runs, NEW c \in Calls, NEW d \in Calls, call[c].run = r, call[d].run = r,
               {call[c].phase, call[d].phase} \subseteq {"work", "send", "answer"}
        PROVE  c = d
    BY <1>1, <2>1 DEF IInv, CallsRight, RunRight, Working
  <2>2. ASSUME NEW r \in Runs, NEW n \in InDoubt(r)
        PROVE  n \in Ordinals(r) /\ Open(attempt[r][n])
    <3>1. n \in Ordinals(r) /\ n # 0 /\ attempt[r] \in [Ordinals(r) -> AttemptRow]
          /\ bill[r] \in [Ordinals(r) -> Nat]
      <4>1. n \in Ordinals(r)  BY <2>2 DEF InDoubt
      <4>2. n # 0  BY <4>1, ConstantsOK DEF Ordinals, Operations
      <4> QED  BY <1>1, <4>1, <4>2 DEF IInv, RowsRight, RowTypes, Operations
    <3>2. attempt[r][n].state # "planned"
      <4>1. CASE bill[r][n] > 0
        BY <1>1, <3>1, <4>1 DEF IInv, RowsRight, OneOpen
      <4>2. CASE \E c \in Calls : call[c].run = r /\ call[c].ordinal = n
        BY <1>1, <3>1, <4>2 DEF IInv, CallsRight, CallRight
      <4> QED  BY <2>2, <4>1, <4>2 DEF InDoubt
    <3>3. ~Final(attempt[r][n]) /\ attempt[r][n] \in AttemptRow  BY <2>2, <3>1 DEF InDoubt
    <3> QED  BY <3>1, <3>2, <3>3 DEF Open, Final, AttemptRow
  <2>3. ASSUME NEW r \in Runs, NEW m \in InDoubt(r), NEW n \in InDoubt(r)
        PROVE  m = n
    <3>1. OneOpen(attempt[r], bill[r]) /\ DOMAIN attempt[r] = Ordinals(r)
      BY <1>1 DEF IInv, RowsRight, RowTypes, Operations
    <3> QED  BY <2>2, <3>1 DEF OneOpen
  <2> QED  BY <2>1, <2>3 DEF OneInDoubt
<1> QED  BY <1>1, HoldsInvariance, PTL

-----------------------------------------------------------------------------
(* Sums of numbers, from the theorems on finite sets. *)

LEMMA Disjoint ==
    ASSUME NEW A, NEW B, IsFiniteSet(A), IsFiniteSet(B), A \cap B = {}
    PROVE  /\ IsFiniteSet(A \cup B)
           /\ Cardinality(A \cup B) = Cardinality(A) + Cardinality(B)
<1>1. Cardinality(A \cap B) = 0 /\ Cardinality(A) \in Nat /\ Cardinality(B) \in Nat
  BY FS_EmptySet, FS_CardinalityType
<1>2. IsFiniteSet(A \cup B)
      /\ Cardinality(A \cup B) = Cardinality(A) + Cardinality(B) - Cardinality(A \cap B)
  BY FS_Union
<1> QED BY <1>1, <1>2

LEMMA SameSize ==
    ASSUME NEW A, NEW B, IsFiniteSet(A), NEW m \in [A -> B],
           \A a, c \in A : m[a] = m[c] => a = c,
           \A b \in B : \E a \in A : m[a] = b
    PROVE  IsFiniteSet(B) /\ Cardinality(B) = Cardinality(A)
<1>1. m \in Bijection(A, B)
  BY DEF Bijection, Injection, Surjection, IsInjective
<1> QED BY <1>1, FS_Bijection DEF ExistsBijection

LEMMA PointsAre ==
    ASSUME NEW f, NEW x, NEW n
    PROVE  <<x, n>> \in Points(f) <=> x \in DOMAIN f /\ n \in 1..f[x]
BY DEF Points

LEMMA PointsPairs ==
    ASSUME NEW f, NEW u \in Points(f)
    PROVE  /\ u = <<u[1], u[2]>> /\ u[1] \in DOMAIN f /\ u[2] \in 1..f[u[1]]
BY DEF Points

\* A sum over a finite set is a number.
LEMMA SumIsNat ==
    ASSUME NEW D, IsFiniteSet(D), NEW f \in [D -> Nat]
    PROVE  IsFiniteSet(Points(f)) /\ Sum(f) \in Nat
<1> DEFINE part == [x \in D |-> {x} \X (1..f[x])]
           parts == {part[x] : x \in D}
<1>1. IsFiniteSet(parts)
  <2>0. part \in [D -> parts] /\ \A t \in parts : \E x \in D : part[x] = t
    <3> HIDE DEF part
    <3>1. DOMAIN part = D /\ part = [x \in D |-> part[x]]
      BY DEF part
    <3> QED BY <3>1
  <2>1. part \in Surjection(D, parts)
    <3> HIDE DEF parts, part
    <3> QED BY <2>0 DEF Surjection
  <2> QED BY <2>1, FS_Surjection
<1>2. ASSUME NEW x \in D PROVE IsFiniteSet(part[x])
  <2>0. 1 \in Int /\ f[x] \in Int
    OBVIOUS
  <2>1. IsFiniteSet({x}) /\ IsFiniteSet(1..f[x])
    BY <2>0, FS_Singleton, FS_Interval
  <2> QED BY <2>1, FS_Product
<1>3. Points(f) = UNION parts
  BY DEF Points
<1>4. IsFiniteSet(Points(f))
  <2> HIDE DEF part
  <2> QED BY <1>1, <1>2, <1>3, FS_UNION
<1> QED BY <1>4, FS_CardinalityType DEF Sum

LEMMA SumOfOne == ASSUME NEW x, NEW f \in [{x} -> Nat] PROVE Sum(f) = f[x]
<1>1. Points(f) = {x} \X (1..f[x])
  BY DEF Points
<1>2. IsFiniteSet({x}) /\ Cardinality({x}) = 1
  BY FS_Singleton
<1>3. IsFiniteSet(1..f[x]) /\ Cardinality(1..f[x]) = f[x]
  BY FS_Interval
<1>4. Cardinality({x} \X (1..f[x])) = Cardinality({x}) * Cardinality(1..f[x])
  BY <1>2, <1>3, FS_Product
<1> QED BY <1>1, <1>2, <1>3, <1>4 DEF Sum

\* The sum over two sets that have nothing in common.
LEMMA SumOfUnion ==
    ASSUME NEW A, NEW B, IsFiniteSet(A), IsFiniteSet(B), A \cap B = {},
           NEW D, D = A \cup B, NEW f \in [D -> Nat], NEW g \in [A -> Nat], NEW h \in [B -> Nat],
           \A x \in A : f[x] = g[x], \A x \in B : f[x] = h[x]
    PROVE  Sum(f) = Sum(g) + Sum(h)
<1>1. IsFiniteSet(Points(g)) /\ IsFiniteSet(Points(h))
  BY SumIsNat
<1>2. Points(f) = Points(g) \cup Points(h) /\ Points(g) \cap Points(h) = {}
  BY DEF Points
<1> QED BY <1>1, <1>2, Disjoint DEF Sum

\* The sum of sums.
LEMMA SumOfSums ==
    ASSUME NEW D, IsFiniteSet(D), NEW f \in [D -> Nat], NEW g \in [D -> Nat],
           NEW h \in [D -> Nat], \A x \in D : f[x] = g[x] + h[x]
    PROVE  Sum(f) = Sum(g) + Sum(h)
<1> DEFINE above == {u \in Points(f) : u[2] > g[u[1]]}
           lift == [u \in Points(h) |-> <<u[1], u[2] + g[u[1]]>>]
<1>1. IsFiniteSet(Points(f)) /\ IsFiniteSet(Points(g)) /\ IsFiniteSet(Points(h))
  BY SumIsNat
<1>2. lift \in [Points(h) -> above]
  <2>1. ASSUME NEW u \in Points(h) PROVE <<u[1], u[2] + g[u[1]]>> \in above
    <3>1. u[1] \in D /\ u[2] \in 1..h[u[1]]
      BY PointsPairs
    <3>2. u[2] + g[u[1]] \in 1..f[u[1]] /\ u[2] + g[u[1]] > g[u[1]]
      BY <3>1
    <3> QED BY <3>1, <3>2, PointsAre
  <2> QED BY <2>1
<1>3. ASSUME NEW u \in Points(h), NEW v \in Points(h), lift[u] = lift[v] PROVE u = v
  <2>1. /\ u = <<u[1], u[2]>> /\ v = <<v[1], v[2]>> /\ u[1] \in D
        /\ u[2] \in Int /\ v[2] \in Int
    BY PointsPairs
  <2>2. u[1] = v[1] /\ u[2] + g[u[1]] = v[2] + g[v[1]]
    BY <1>3
  <2>3. g[u[1]] \in Int
    BY <2>1
  <2> QED BY <2>1, <2>2, <2>3
<1>4. ASSUME NEW v \in above PROVE \E u \in Points(h) : lift[u] = v
  <2>1. v = <<v[1], v[2]>> /\ v[1] \in D /\ v[2] \in 1..f[v[1]] /\ v[2] > g[v[1]]
    BY <1>4, PointsPairs
  <2>2. v[2] - g[v[1]] \in 1..h[v[1]] /\ v[2] = (v[2] - g[v[1]]) + g[v[1]]
    BY <2>1
  <2>3. <<v[1], v[2] - g[v[1]]>> \in Points(h)
    BY <2>1, <2>2, PointsAre
  <2> QED BY <2>1, <2>2, <2>3
<1>5. IsFiniteSet(above) /\ Cardinality(above) = Sum(h)
  <2> HIDE DEF lift, above
  <2> QED BY <1>1, <1>2, <1>3, <1>4, SameSize DEF Sum
<1>6. Points(f) = Points(g) \cup above /\ Points(g) \cap above = {}
  <2>1. ASSUME NEW u \in Points(f) PROVE u \in Points(g) \/ u \in above
    <3>1. u = <<u[1], u[2]>> /\ u[1] \in D /\ u[2] \in 1..f[u[1]] /\ g[u[1]] \in Nat
      BY PointsPairs
    <3> QED BY <3>1, PointsAre
  <2>2. ASSUME NEW u \in Points(g) PROVE u \in Points(f) /\ u \notin above
    <3>1. u = <<u[1], u[2]>> /\ u[1] \in D /\ u[2] \in 1..g[u[1]]
      BY PointsPairs
    <3>2. u[2] \in 1..f[u[1]] /\ ~(u[2] > g[u[1]])
      BY <3>1
    <3> QED BY <3>1, <3>2, PointsAre
  <2> QED BY <2>1, <2>2
<1> QED
  <2> HIDE DEF above
  <2> QED BY <1>1, <1>5, <1>6, Disjoint DEF Sum

\* Nothing but zeros sums to zero, and a sum that reaches its bound reaches it everywhere.
LEMMA SumOfLess ==
    ASSUME NEW D, IsFiniteSet(D), NEW f \in [D -> Nat], NEW g \in [D -> Nat],
           \A x \in D : g[x] <= f[x]
    PROVE  Sum(g) <= Sum(f) /\ (Sum(g) = Sum(f) => \A x \in D : g[x] = f[x])
<1>1. Points(g) \subseteq Points(f)
  <2>1. ASSUME NEW u \in Points(g) PROVE u \in Points(f)
    <3>1. u = <<u[1], u[2]>> /\ u[1] \in D /\ u[2] \in 1..g[u[1]]
      BY PointsPairs
    <3>2. u[2] \in 1..f[u[1]]
      BY <3>1
    <3> QED BY <3>1, <3>2, PointsAre
  <2> QED BY <2>1
<1>2. Sum(g) <= Sum(f) /\ (Sum(f) = Sum(g) => Points(f) = Points(g))
  BY <1>1, SumIsNat, FS_Subset DEF Sum
<1>3. ASSUME Points(f) = Points(g), NEW x \in D PROVE g[x] = f[x]
  <2>1. CASE f[x] = 0
    BY <2>1
  <2>2. CASE f[x] # 0
    <3>1. <<x, f[x]>> \in Points(f)
      BY <2>2, PointsAre
    <3>2. f[x] \in 1..g[x]
      BY <1>3, <3>1, PointsAre
    <3> QED BY <3>2
  <2> QED BY <2>1, <2>2
<1> QED BY <1>2, <1>3

LEMMA SumOfZeros ==
    ASSUME NEW D, IsFiniteSet(D), NEW f \in [D -> Nat], \A x \in D : f[x] = 0
    PROVE  Sum(f) = 0
<1>1. \A x \in D : f[x] = f[x] + f[x]
  OBVIOUS
<1>2. Sum(f) = Sum(f) + Sum(f) /\ Sum(f) \in Nat
  BY <1>1, SumOfSums, SumIsNat
<1>3. \A n \in Nat : n = n + n => n = 0
  OBVIOUS
<1> QED BY <1>2, <1>3

\* The sum after a change of one summand.
LEMMA SumOfChange ==
    ASSUME NEW D, IsFiniteSet(D), NEW f \in [D -> Nat], NEW g \in [D -> Nat], NEW x \in D,
           \A y \in D \ {x} : g[y] = f[y]
    PROVE  Sum(g) = Sum(f) - f[x] + g[x]
<1> DEFINE rest == [y \in D \ {x} |-> f[y]]
           old == [y \in {x} |-> f[y]]
           new == [y \in {x} |-> g[y]]
<1>1. IsFiniteSet({x}) /\ IsFiniteSet(D \ {x}) /\ D = {x} \cup (D \ {x})
  BY FS_Singleton, FS_Subset
<1>2. old \in [{x} -> Nat] /\ new \in [{x} -> Nat] /\ rest \in [D \ {x} -> Nat]
  OBVIOUS
<1>3. Sum(f) = Sum(old) + Sum(rest) /\ Sum(g) = Sum(new) + Sum(rest)
  <2>1. /\ \A y \in {x} : f[y] = old[y] /\ g[y] = new[y]
        /\ \A y \in D \ {x} : f[y] = rest[y] /\ g[y] = rest[y]
    OBVIOUS
  <2> HIDE DEF old, new, rest
  <2>2. Sum(f) = Sum(old) + Sum(rest)
    BY <1>1, <1>2, <2>1, SumOfUnion
  <2>3. Sum(g) = Sum(new) + Sum(rest)
    BY <1>1, <1>2, <2>1, SumOfUnion
  <2> QED BY <2>2, <2>3
<1>4. Sum(old) = f[x] /\ Sum(new) = g[x] /\ Sum(rest) \in Nat
  BY <1>1, <1>2, SumOfOne, SumIsNat
<1> QED BY <1>3, <1>4

\* A sum of numbers that are bounded.
LEMMA SumBounded ==
  ASSUME NEW D, IsFiniteSet(D), NEW f \in [D -> Nat], NEW k \in Nat, \A x \in D : f[x] <= k
  PROVE  Sum(f) <= Cardinality(D) * k /\ Sum(f) \in Nat
<1>1. IsFiniteSet(1..k) /\ Cardinality(1..k) = k
  BY FS_Interval
<1>2. IsFiniteSet(D \X (1..k)) /\ Cardinality(D \X (1..k)) = Cardinality(D) * k
  BY <1>1, FS_Product
<1>3. Points(f) \subseteq D \X (1..k)
  BY DEF Points
<1> QED  BY <1>2, <1>3, FS_Subset, FS_CardinalityType DEF Sum
-----------------------------------------------------------------------------
(* What is accounted for: the invariant. *)

TotalsRow == [erased: BOOLEAN, reserved: Int, settled: Int, overrun: BOOLEAN]

\* The hold h of r and its attempts at against b, what the provider charges for each
\* request, and s, what the own processing really cost.  A hold settles once, when
\* nothing of it can be charged any more.
Account(r, h, at, b, s) ==
    /\ s \in Nat /\ h.amount \in Nat
    /\ \A n \in Ordinals(r) : Final(at[n]) => at[n].cost = b[n]
    /\ h.native = Unmeasured \/ (h.native = s /\ h.delivery # "pending")
    /\ h.state = "settled" =>
          /\ h.native = s /\ h.delivery # "pending"
          /\ \A n \in Ordinals(r) : Final(at[n])
          /\ h.amount = Sum(b) + s /\ h.amount <= Reserve[r]
    /\ h.state = "none" => s = 0 /\ \A n \in Ordinals(r) : b[n] = 0

\* A request whose money is still reserved, what it holds, and what a final one paid.
Pending(a) == a.state # "planned" /\ ~Final(a)
Held(a) == IF Pending(a) THEN Quote ELSE 0
Paid(a) == IF Final(a) THEN a.cost ELSE 0

\* The totals t of l against its attempts.
LegacyAccount(l, t, at, b) ==
    /\ \A n \in Ordinals(l) : /\ Final(at[n]) => at[n].cost = b[n]
                              /\ at[n].state = "planned" => b[n] = 0
    /\ ~t.erased =>
          /\ t.reserved = Sum([n \in Ordinals(l) |-> Held(at[n])])
          /\ t.settled = Sum([n \in Ordinals(l) |-> Paid(at[n])])

\* What may have to be paid within the quotes: it only shrinks once it is admitted,
\* unlike the amount of a hold or of an operation, which may exceed the quotes.
Pledge(r, h) == IF h.state = "none" THEN 0 ELSE IF h.state = "settled" THEN h.amount ELSE Reserve[r]
Portion(a) == IF a.state = "planned" THEN 0 ELSE IF ~Final(a) \/ a.cost > Quote THEN Quote ELSE a.cost
LegacyPledge(l, at) == Sum([n \in Ordinals(l) |-> Portion(at[n])])
Pledged(o) == IF o \in Runs THEN Pledge(o, hold[o]) ELSE LegacyPledge(o, attempt[o])

\* A call that is at the provider does so for a started attempt of its own.
InFlight(c) == call[c].phase \in {"send", "answer"}
SendingRight ==
    /\ \A c \in Calls : InFlight(c) => attempt[call[c].run][call[c].ordinal].state = "started"
    /\ \A c, d \in Calls : /\ InFlight(c) /\ InFlight(d)
                           /\ call[c].run = call[d].run /\ call[c].ordinal = call[d].ordinal
                           => c = d

Books ==
    /\ spent \in [Runs -> Nat] /\ legacy \in [Legacy -> TotalsRow]
    /\ SendingRight
    /\ \A r \in Runs : /\ Account(r, hold[r], attempt[r], bill[r], spent[r])
                       /\ run[r].status # "absent" => hold[r].state # "none"
    /\ \A l \in Legacy : LegacyAccount(l, legacy[l], attempt[l], bill[l])
    /\ Sum([o \in Operations |-> Pledged(o)]) <= Ceiling

LEMMA OrdinalsFinite ==
  ASSUME ConstantsOK, NEW o \in Operations
  PROVE  IsFiniteSet(Ordinals(o)) /\ Cardinality(Ordinals(o)) = Attempts[o] /\ Attempts[o] \in Nat
<1>1. Attempts[o] \in Nat  BY DEF ConstantsOK, Operations
<1>2. IsFiniteSet(1..Attempts[o]) /\ Cardinality(1..Attempts[o]) = Attempts[o]
  BY ONLY <1>1, FS_Interval
<1> QED  BY <1>1, <1>2 DEF Ordinals

LEMMA OperationsFinite ==
  ASSUME ConstantsOK
  PROVE  /\ IsFiniteSet(Runs) /\ IsFiniteSet(Legacy) /\ IsFiniteSet(Operations)
         /\ Runs \cap Legacy = {} /\ Operations = Runs \cup Legacy
BY FS_Union DEF ConstantsOK, Operations

LEMMA UsedIsNat ==
  ASSUME ConstantsOK, NEW a \in AttemptRow
  PROVE  /\ Used(a) \in Nat /\ Portion(a) \in Nat /\ a.cost \in Nat
         /\ Held(a) \in Nat /\ Paid(a) \in Nat
BY DEF Used, Portion, AttemptRow, ConstantsOK, Held, Paid

LEMMA PledgeIsNat ==
  ASSUME ConstantsOK, NEW r \in Runs, NEW h, HoldRow(h), h.amount \in Nat
  PROVE  Pledge(r, h) \in Nat
BY DEF Pledge, ConstantsOK

LEMMA LegacyPledgeIsNat ==
  ASSUME ConstantsOK, NEW l \in Legacy, NEW at \in [Ordinals(l) -> AttemptRow]
  PROVE  LegacyPledge(l, at) \in Nat
<1> DEFINE f == [n \in Ordinals(l) |-> Portion(at[n])]
<1>1. IsFiniteSet(Ordinals(l))  BY OrdinalsFinite DEF Operations
<1>2. f \in [Ordinals(l) -> Nat]  BY UsedIsNat
<1> HIDE DEF f
<1>3. Sum(f) \in Nat  BY <1>1, <1>2, SumIsNat
<1> QED  BY <1>3 DEF f, LegacyPledge

LEMMA Types ==
  ASSUME IInv
  PROVE  /\ run \in [Runs -> RunRow] /\ hold = [r \in Runs |-> hold[r]]
         /\ attempt = [o \in Operations |-> attempt[o]] /\ bill = [o \in Operations |-> bill[o]]
         /\ \A r \in Runs : HoldRow(hold[r])
         /\ \A o \in Operations : /\ attempt[o] \in [Ordinals(o) -> AttemptRow]
                                  /\ bill[o] \in [Ordinals(o) -> Nat]
         /\ call \in [Calls -> CallRow]
BY DEF IInv, RowsRight, RowTypes, CallsRight

LEMMA PledgesAreNat ==
  ASSUME ConstantsOK, IInv, \A r \in Runs : hold[r].amount \in Nat
  PROVE  \A o \in Operations : Pledged(o) \in Nat
<1> SUFFICES ASSUME NEW o \in Operations PROVE Pledged(o) \in Nat
  OBVIOUS
<1>1. CASE o \in Runs  BY <1>1, Types, PledgeIsNat DEF Pledged
<1>2. CASE o \notin Runs
  <2>1. o \in Legacy /\ attempt[o] \in [Ordinals(o) -> AttemptRow]  BY <1>2, Types DEF Operations
  <2> QED  BY <1>2, <2>1, LegacyPledgeIsNat DEF Pledged
<1> QED  BY <1>1, <1>2

\* What the budget counts covers what may have to be paid.
LEMMA BudgetCovers ==
  ASSUME ConstantsOK, IInv, Books
  PROVE  /\ Sum([o \in Operations |-> Pledged(o)]) <= Budget
         /\ Sum([o \in Operations |-> Pledged(o)]) \in Nat /\ Budget \in Nat
<1> DEFINE p == [o \in Operations |-> Pledged(o)]
           pr == [r \in Runs |-> Pledge(r, hold[r])]
           pl == [l \in Legacy |-> LegacyPledge(l, attempt[l])]
           hr == [r \in Runs |-> HoldAmount(r)]
           hl == [l \in Legacy |-> LegacyAmount(l)]
<1>1. \A o \in Operations : Pledged(o) \in Nat  BY PledgesAreNat DEF Books, Account
<1>2. /\ p \in [Operations -> Nat] /\ pr \in [Runs -> Nat] /\ pl \in [Legacy -> Nat]
      /\ \A r \in Runs : p[r] = pr[r]
      /\ \A l \in Legacy : p[l] = pl[l]
  BY <1>1, OperationsFinite DEF Pledged
<1>3. \A r \in Runs : HoldAmount(r) \in Nat /\ pr[r] <= HoldAmount(r)
  <2> SUFFICES ASSUME NEW r \in Runs PROVE HoldAmount(r) \in Nat /\ Pledge(r, hold[r]) <= HoldAmount(r)
    OBVIOUS
  <2>1. hold[r].amount \in Nat /\ Reserve[r] \in Nat  BY DEF Books, Account, ConstantsOK
  <2> QED  BY <2>1 DEF HoldAmount, Pledge
<1>4. \A l \in Legacy : LegacyAmount(l) \in Nat /\ pl[l] <= LegacyAmount(l)
  <2> SUFFICES ASSUME NEW l \in Legacy
               PROVE  LegacyAmount(l) \in Nat /\ LegacyPledge(l, attempt[l]) <= LegacyAmount(l)
    OBVIOUS
  <2> DEFINE f == [n \in Ordinals(l) |-> IF attempt[l][n].state = "planned" THEN 0 ELSE Used(attempt[l][n])]
             g == [n \in Ordinals(l) |-> Portion(attempt[l][n])]
  <2>1. l \in Operations /\ IsFiniteSet(Ordinals(l)) /\ \A n \in Ordinals(l) : attempt[l][n] \in AttemptRow
    BY OrdinalsFinite, Types DEF Operations
  <2>2. f \in [Ordinals(l) -> Nat] /\ g \in [Ordinals(l) -> Nat]  BY <2>1, UsedIsNat
  <2>3. \A n \in Ordinals(l) : g[n] <= f[n]
    BY <2>1 DEF Portion, Used, AttemptRow, ConstantsOK
  <2> HIDE DEF f, g
  <2>4. Sum(g) <= Sum(f) /\ Sum(f) \in Nat  BY <2>1, <2>2, <2>3, SumOfLess, SumIsNat
  <2> QED  BY <2>4 DEF f, g, LegacyAmount, LegacyPledge
<1>5. hr \in [Runs -> Nat] /\ hl \in [Legacy -> Nat]
      /\ (\A r \in Runs : pr[r] <= hr[r]) /\ (\A l \in Legacy : pl[l] <= hl[l])
  BY <1>3, <1>4
<1>6. Budget = Sum(hr) + Sum(hl)  BY DEF Budget
<1> HIDE DEF p, pr, pl, hr, hl
<1>7. Sum(p) = Sum(pr) + Sum(pl)
  <2>1. p \in [Operations -> Nat] /\ pr \in [Runs -> Nat] /\ pl \in [Legacy -> Nat]  BY <1>2
  <2>2. \A x \in Runs : p[x] = pr[x]  BY <1>2
  <2>3. \A x \in Legacy : p[x] = pl[x]  BY <1>2
  <2>4. IsFiniteSet(Runs) /\ IsFiniteSet(Legacy) /\ Runs \cap Legacy = {} /\ Operations = Runs \cup Legacy
    BY OperationsFinite
  <2>5. p \in [Runs \cup Legacy -> Nat]  BY <2>1, <2>4
  <2> QED  BY ONLY <2>1, <2>2, <2>3, <2>4, <2>5, SumOfUnion
<1>8. Sum(pr) <= Sum(hr) /\ Sum(pl) <= Sum(hl)  BY <1>2, <1>5, OperationsFinite, SumOfLess
<1>9. Sum(pr) \in Nat /\ Sum(pl) \in Nat /\ Sum(hr) \in Nat /\ Sum(hl) \in Nat
  BY <1>2, <1>5, OperationsFinite, SumIsNat
<1> QED  BY <1>6, <1>7, <1>8, <1>9 DEF p

\* A pledge that shrinks stays within the budget, and one that grows was checked.
LEMMA PledgesStep ==
  ASSUME ConstantsOK, IInv, Books, NEW o \in Operations, NEW q \in [Operations -> Nat],
         \A p \in Operations \ {o} : q[p] = Pledged(p),
         \/ q[o] <= Pledged(o)
         \/ \E k \in Nat : q[o] = Pledged(o) + k /\ Budget + k <= Ceiling
  PROVE  Sum(q) <= Ceiling
<1> DEFINE p == [x \in Operations |-> Pledged(x)]
<1>1. \A x \in Operations : Pledged(x) \in Nat  BY PledgesAreNat DEF Books, Account
<1>2. Sum(p) <= Budget /\ Sum(p) \in Nat /\ Budget \in Nat  BY BudgetCovers
<1>3. Sum(p) <= Ceiling /\ Ceiling \in Nat  BY DEF Books, ConstantsOK
<1>4. p \in [Operations -> Nat] /\ p[o] = Pledged(o) /\ \A x \in Operations \ {o} : q[x] = p[x]
  BY <1>1
<1> HIDE DEF p
<1>5. Sum(q) = Sum(p) - p[o] + q[o]  BY <1>4, OperationsFinite, SumOfChange
<1>6. q[o] \in Nat /\ p[o] \in Nat  BY <1>4
<1> QED  BY <1>2, <1>3, <1>4, <1>5, <1>6

-----------------------------------------------------------------------------
(* The books follow when one operation changes. *)

\* What of the others stays.
Others(o) ==
    /\ \A p \in Operations \ {o} : attempt'[p] = attempt[p] /\ bill'[p] = bill[p]
    /\ \A r \in Runs \ {o} : /\ hold'[r] = hold[r] /\ spent'[r] = spent[r]
                             /\ run'[r].status # "absent" => run[r].status # "absent"
    /\ \A l \in Legacy \ {o} : legacy'[l] = legacy[l]

LEMMA RunBooks ==
  ASSUME ConstantsOK, IInv, IInv', Books, SendingRight', NEW r \in Runs, Others(r),
         spent' \in [Runs -> Nat], legacy' \in [Legacy -> TotalsRow],
         Account(r, hold'[r], attempt'[r], bill'[r], spent'[r]), hold'[r].state # "none",
         \/ Pledge(r, hold'[r]) <= Pledge(r, hold[r])
         \/ hold[r].state = "none" /\ Pledge(r, hold'[r]) = Reserve[r] /\ Budget + Reserve[r] <= Ceiling
  PROVE  Books'
<1> DEFINE q == [o \in Operations |-> IF o \in Runs THEN Pledge(o, hold'[o]) ELSE LegacyPledge(o, attempt'[o])]
<1>1. r \in Operations /\ \A l \in Legacy : l \in Operations /\ l # r /\ l \notin Runs
  BY OperationsFinite DEF Operations
<1>2. \A x \in Runs : Account(x, hold'[x], attempt'[x], bill'[x], spent'[x])
  BY OperationsFinite DEF Books, Others, Operations
<1>3. \A x \in Runs : run'[x].status # "absent" => hold'[x].state # "none"
  BY DEF Books, Others
<1>4. \A l \in Legacy : LegacyAccount(l, legacy'[l], attempt'[l], bill'[l])
  BY <1>1 DEF Books, Others
<1>5. ASSUME NEW o \in Operations PROVE q[o] \in Nat
  <2>1. CASE o \in Runs
    <3>1. HoldRow(hold[o])'  BY <2>1, Types DEF IInv, RowsRight, RowTypes
    <3>2. HoldRow(hold'[o]) /\ hold'[o].amount \in Nat  BY <2>1, <3>1, <1>2 DEF HoldRow, Account
    <3> QED  BY <2>1, <3>2, PledgeIsNat
  <2>2. CASE o \notin Runs
    <3>1. o \in Legacy  BY <2>2 DEF Operations
    <3>2. attempt'[o] \in [Ordinals(o) -> AttemptRow]  BY DEF IInv, RowsRight, RowTypes
    <3> QED  BY <2>2, <3>1, <3>2, LegacyPledgeIsNat
  <2> QED  BY <2>1, <2>2
<1>6. \A p \in Operations \ {r} : q[p] = Pledged(p)
  BY <1>1 DEF Others, Pledged
<1>7. \/ q[r] <= Pledged(r)
      \/ \E k \in Nat : q[r] = Pledged(r) + k /\ Budget + k <= Ceiling
  <2>1. q[r] = Pledge(r, hold'[r]) /\ Pledged(r) = Pledge(r, hold[r])  BY <1>1 DEF Pledged
  <2>2. hold[r].state = "none" => Pledge(r, hold[r]) = 0  BY DEF Pledge
  <2>3. Reserve[r] \in Nat  BY DEF ConstantsOK
  <2> HIDE DEF q
  <2> QED  BY <2>1, <2>2, <2>3
<1>8. q \in [Operations -> Nat]  BY <1>5
<1>9. [o \in Operations |-> Pledged(o)]' = q  BY DEF Pledged
<1> HIDE DEF q
<1>10. Sum(q) <= Ceiling  BY ONLY <1>1, <1>6, <1>7, <1>8, PledgesStep, ConstantsOK, IInv, Books
<1>11. Sum([o \in Operations |-> Pledged(o)])' <= Ceiling  BY <1>9, <1>10
<1>12. (\A x \in Runs : /\ Account(x, hold[x], attempt[x], bill[x], spent[x])
                        /\ run[x].status # "absent" => hold[x].state # "none")'
  BY <1>2, <1>3
<1>13. (\A l \in Legacy : LegacyAccount(l, legacy[l], attempt[l], bill[l]))'  BY <1>4
<1> QED  BY <1>11, <1>12, <1>13 DEF Books

LEMMA LegacyBooks ==
  ASSUME ConstantsOK, IInv, IInv', Books, SendingRight', NEW l \in Legacy, Others(l),
         spent' \in [Runs -> Nat], legacy' \in [Legacy -> TotalsRow],
         LegacyAccount(l, legacy'[l], attempt'[l], bill'[l]),
         \/ LegacyPledge(l, attempt'[l]) <= LegacyPledge(l, attempt[l])
         \/ /\ LegacyPledge(l, attempt'[l]) = LegacyPledge(l, attempt[l]) + Quote
            /\ Budget + Quote <= Ceiling
  PROVE  Books'
<1> DEFINE q == [o \in Operations |-> IF o \in Runs THEN Pledge(o, hold'[o]) ELSE LegacyPledge(o, attempt'[o])]
<1>1. l \in Operations /\ l \notin Runs /\ \A x \in Runs : x \in Operations /\ x # l
  BY OperationsFinite DEF Operations
<1>2. \A x \in Runs : Account(x, hold'[x], attempt'[x], bill'[x], spent'[x])
  BY <1>1 DEF Books, Others
<1>3. \A x \in Runs : run'[x].status # "absent" => hold'[x].state # "none"
  BY <1>1 DEF Books, Others
<1>4. \A x \in Legacy : LegacyAccount(x, legacy'[x], attempt'[x], bill'[x])
  BY DEF Books, Others, Operations
<1>5. ASSUME NEW o \in Operations PROVE q[o] \in Nat
  <2>1. CASE o \in Runs
    <3>1. HoldRow(hold[o])'  BY <2>1 DEF IInv, RowsRight, RowTypes
    <3>2. HoldRow(hold'[o]) /\ hold'[o].amount \in Nat  BY <2>1, <3>1, <1>2 DEF HoldRow, Account
    <3> QED  BY <2>1, <3>2, PledgeIsNat
  <2>2. CASE o \notin Runs
    <3>1. o \in Legacy  BY <2>2 DEF Operations
    <3>2. attempt'[o] \in [Ordinals(o) -> AttemptRow]  BY DEF IInv, RowsRight, RowTypes
    <3> QED  BY <2>2, <3>1, <3>2, LegacyPledgeIsNat
  <2> QED  BY <2>1, <2>2
<1>6. \A p \in Operations \ {l} : q[p] = Pledged(p)
  BY <1>1 DEF Others, Pledged
<1>7. \/ q[l] <= Pledged(l)
      \/ \E k \in Nat : q[l] = Pledged(l) + k /\ Budget + k <= Ceiling
  <2>1. q[l] = LegacyPledge(l, attempt'[l]) /\ Pledged(l) = LegacyPledge(l, attempt[l])
    BY <1>1 DEF Pledged
  <2>2. Quote \in Nat  BY DEF ConstantsOK
  <2> HIDE DEF q
  <2> QED  BY <2>1, <2>2
<1>8. q \in [Operations -> Nat]  BY <1>5
<1>9. [o \in Operations |-> Pledged(o)]' = q  BY DEF Pledged
<1> HIDE DEF q
<1>10. Sum(q) <= Ceiling  BY ONLY <1>1, <1>6, <1>7, <1>8, PledgesStep, ConstantsOK, IInv, Books
<1>11. Sum([o \in Operations |-> Pledged(o)])' <= Ceiling  BY <1>9, <1>10
<1>12. (\A x \in Runs : /\ Account(x, hold[x], attempt[x], bill[x], spent[x])
                        /\ run[x].status # "absent" => hold[x].state # "none")'
  BY <1>2, <1>3
<1>13. (\A x \in Legacy : LegacyAccount(x, legacy[x], attempt[x], bill[x]))'  BY <1>4
<1> QED  BY <1>11, <1>12, <1>13 DEF Books

\* No money moves.
LEMMA BooksKept ==
  ASSUME Books, SendingRight', UNCHANGED <<hold, attempt, bill, spent, legacy>>,
         \A r \in Runs : run'[r].status # "absent" => run[r].status # "absent"
  PROVE  Books'
<1>1. [o \in Operations |-> Pledged(o)]' = [o \in Operations |-> Pledged(o)]
  BY DEF Pledged
<1>2. Sum([o \in Operations |-> Pledged(o)])' <= Ceiling
  BY <1>1 DEF Books
<1>3. (\A x \in Runs : /\ Account(x, hold[x], attempt[x], bill[x], spent[x])
                       /\ run[x].status # "absent" => hold[x].state # "none")'
  BY DEF Books
<1>4. (\A x \in Legacy : LegacyAccount(x, legacy[x], attempt[x], bill[x]))'
  BY DEF Books
<1> QED  BY <1>2, <1>3, <1>4 DEF Books

-----------------------------------------------------------------------------
(* Calls at the provider. *)

\* Calls only come back, and the attempts of those that do not stay as they are.
LEMMA SendingKept ==
  ASSUME SendingRight,
         \A c \in Calls : InFlight(c)' =>
            /\ InFlight(c) /\ call'[c].run = call[c].run /\ call'[c].ordinal = call[c].ordinal
            /\ attempt'[call[c].run][call[c].ordinal].state = "started"
  PROVE  SendingRight'
BY DEF SendingRight

\* Calls go on, and no attempt that is started changes.
LEMMA NobodySends ==
  ASSUME IInv, SendingRight,
         \A c \in Calls : InFlight(c)' =>
            InFlight(c) /\ call'[c].run = call[c].run /\ call'[c].ordinal = call[c].ordinal,
         \A o \in Operations : \A n \in Ordinals(o) :
            attempt[o][n].state = "started" => attempt'[o][n].state = "started"
  PROVE  SendingRight'
<1>1. \A c \in Calls : InFlight(c) => /\ call[c].run \in Operations
                                      /\ call[c].ordinal \in Ordinals(call[c].run)
  BY DEF IInv, CallsRight, CallRight, InFlight
<1> QED  BY <1>1 DEF SendingRight

\* A call that takes the state x is not at the provider, or was there already.
LEMMA CallGoesOn ==
  ASSUME IInv, NEW c \in Calls, NEW x, call' = [call EXCEPT ![c] = x],
         x.phase \in {"send", "answer"} =>
            InFlight(c) /\ x.run = call[c].run /\ x.ordinal = call[c].ordinal
  PROVE  \A d \in Calls : InFlight(d)' =>
            InFlight(d) /\ call'[d].run = call[d].run /\ call'[d].ordinal = call[d].ordinal
<1>1. \A d \in Calls : call'[d] = IF d = c THEN x ELSE call[d]  BY Types
<1> QED  BY <1>1 DEF InFlight

\* A call claims attempt n of o and goes to the provider with it.
LEMMA SendingStarts ==
  ASSUME IInv, SendingRight, NEW c \in Calls, NEW o \in Operations, NEW n \in Ordinals(o),
         NEW x, x.run = o, x.ordinal = n, call' = [call EXCEPT ![c] = x],
         attempt[o][n].state = "planned", attempt'[o][n].state = "started",
         \A p \in Operations : \A m \in Ordinals(p) :
            attempt[p][m].state = "started" => attempt'[p][m].state = "started"
  PROVE  SendingRight'
<1>1. \A d \in Calls : call'[d] = IF d = c THEN x ELSE call[d]  BY Types
<1>2. \A d \in Calls : InFlight(d) => /\ call[d].run \in Operations
                                      /\ call[d].ordinal \in Ordinals(call[d].run)
                                      /\ attempt[call[d].run][call[d].ordinal].state = "started"
  BY DEF IInv, CallsRight, CallRight, InFlight, SendingRight
<1>3. \A d \in Calls \ {c} : InFlight(d)' => InFlight(d) /\ call'[d] = call[d]
  BY <1>1 DEF InFlight
<1>4. call'[c] = x  BY <1>1
<1>5. ASSUME NEW d \in Calls, InFlight(d)'
      PROVE  attempt'[call'[d].run][call'[d].ordinal].state = "started"
  BY <1>2, <1>3, <1>4, <1>5
<1>6. ASSUME NEW d \in Calls, NEW e \in Calls, InFlight(d)', InFlight(e)',
             call'[d].run = call'[e].run, call'[d].ordinal = call'[e].ordinal
      PROVE  d = e
  <2>1. CASE d # c /\ e # c  BY <2>1, <1>3, <1>6 DEF SendingRight
  <2>2. CASE d = c /\ e # c  BY <2>2, <1>2, <1>3, <1>4, <1>6
  <2>3. CASE d # c /\ e = c  BY <2>3, <1>2, <1>3, <1>4, <1>6
  <2> QED  BY <2>1, <2>2, <2>3
<1> QED  BY <1>5, <1>6 DEF SendingRight

-----------------------------------------------------------------------------
(* What the operators of the hold do to its account. *)

\* refresh_hold settles a hold at what it really cost.
LEMMA RefreshedAccount ==
  ASSUME ConstantsOK, NEW r \in Runs, NEW g, HoldRow(g), g.state \notin {"none", "settled"},
         NEW at \in [Ordinals(r) -> AttemptRow], NEW b \in [Ordinals(r) -> Nat], NEW s \in Nat,
         \A n \in Ordinals(r) : Final(at[n]) => at[n].cost = b[n],
         g.native = Unmeasured \/ (g.native = s /\ g.delivery # "pending"),
         NEW h, h = Refreshed(r, g, at)
  PROVE  Account(r, h, at, b, s) /\ h.state # "none" /\ Pledge(r, h) <= Reserve[r]
<1> DEFINE overrun == \/ Own(g) > Native \/ Total(r, g, at) > Reserve[r]
                      \/ \E n \in Ordinals(r) : at[n].state = "overrun"
           unresolved == g.native = Unmeasured \/ \E n \in Ordinals(r) : ~Final(at[n])
           unknown == \/ g.delivery # "pending"
                      \/ \E n \in Ordinals(r) : at[n].state \in {"outcome_unknown", "usage_unavailable"}
           x == CASE overrun -> "overrun"
                  [] ~overrun /\ unresolved /\ unknown -> "outcome_unknown"
                  [] ~overrun /\ unresolved /\ ~unknown -> "running"
                  [] ~overrun /\ ~unresolved /\ g.delivery # "pending" -> "settled"
                  [] ~overrun /\ ~unresolved /\ g.delivery = "pending" -> g.state
           used == [n \in Ordinals(r) |-> Used(at[n])]
<1>1. h = [g EXCEPT !.amount = Total(r, g, at), !.state = x]
  BY DEF Refreshed, HoldRow
<1>2. h.amount = Total(r, g, at) /\ h.state = x /\ h.native = g.native /\ h.delivery = g.delivery
  <2> HIDE DEF x
  <2> QED  BY <1>1 DEF HoldRow
<1>3. x \in {"overrun", "outcome_unknown", "running", "settled"} \/ x = g.state
  <2> HIDE DEF overrun, unresolved, unknown
  <2> QED  OBVIOUS
<1>4. x = "settled" => ~overrun /\ ~unresolved /\ g.delivery # "pending"
  <2> HIDE DEF overrun, unresolved, unknown
  <2> QED  OBVIOUS
<1>5. IsFiniteSet(Ordinals(r)) /\ used \in [Ordinals(r) -> Nat] /\ Total(r, g, at) = Own(g) + Sum(used)
  BY OrdinalsFinite, UsedIsNat DEF Operations, Total
<1>6. Own(g) \in Nat
  BY DEF Own, ConstantsOK, Unmeasured
<1>7. Total(r, g, at) \in Nat
  <2> HIDE DEF used
  <2> QED  BY <1>5, <1>6, SumIsNat
<1>8. Reserve[r] \in Nat  BY DEF ConstantsOK
<1>9. ~overrun => Total(r, g, at) <= Reserve[r]  BY <1>7, <1>8
<1>10. ~unresolved => /\ g.native = s /\ \A n \in Ordinals(r) : Final(at[n])
                      /\ Total(r, g, at) = Sum(b) + s
  <2> SUFFICES ASSUME ~unresolved
               PROVE  /\ g.native = s /\ \A n \in Ordinals(r) : Final(at[n])
                      /\ Total(r, g, at) = Sum(b) + s
    OBVIOUS
  <2>1. g.native = s /\ (\A n \in Ordinals(r) : Final(at[n])) /\ Own(g) = s
    BY DEF Own
  <2>2. \A n \in Ordinals(r) : used[n] = b[n]  BY <2>1 DEF Used
  <2>3. used = b  BY <2>2
  <2>4. Sum(b) \in Nat  BY <1>5, SumIsNat
  <2> HIDE DEF used
  <2> QED  BY <1>5, <2>1, <2>3, <2>4
<1> HIDE DEF overrun, unresolved, unknown, x
<1>11. Account(r, h, at, b, s) /\ h.state # "none"
  BY <1>2, <1>3, <1>4, <1>7, <1>9, <1>10 DEF Account
<1>12. Pledge(r, h) <= Reserve[r]
  BY <1>2, <1>4, <1>8, <1>9 DEF Pledge
<1> QED  BY <1>11, <1>12

\* A hold that neither waits to be created nor is settled goes on without settling.
LEMMA RunningAccount ==
  ASSUME ConstantsOK, NEW r \in Runs, NEW g, NEW h, HoldRow(h),
         NEW at, NEW bt, NEW b, NEW s, NEW t \in Nat, Account(r, g, at, b, s),
         h.state \notin {"none", "settled"}, h.amount = g.amount,
         h.native = g.native, h.delivery = g.delivery, g.delivery = "pending",
         \A n \in Ordinals(r) : bt[n] = at[n] \/ ~Final(bt[n])
  PROVE  Account(r, h, bt, b, t) /\ Pledge(r, h) = Reserve[r]
BY DEF Account, Pledge

LEMMA AccountFacts ==
  ASSUME ConstantsOK, IInv, Books, NEW r \in Runs
  PROVE  /\ HoldRow(hold[r]) /\ Account(r, hold[r], attempt[r], bill[r], spent[r])
         /\ r \in Operations /\ attempt[r] \in [Ordinals(r) -> AttemptRow]
         /\ bill[r] \in [Ordinals(r) -> Nat] /\ spent[r] \in Nat /\ Reserve[r] \in Nat
         /\ run[r].status # "absent" => hold[r].state # "none"
         /\ run[r].status = "absent" => hold[r] = NoHold
BY Types, RunRows DEF Books, Operations, ConstantsOK, IInv

\* One run changes its hold to h and its attempts to at.
LEMMA HoldBooks ==
  ASSUME ConstantsOK, IInv, IInv', Books, SendingRight', NEW r \in Runs, NEW h, NEW at,
         hold' = [hold EXCEPT ![r] = h], attempt' = [attempt EXCEPT ![r] = at],
         UNCHANGED <<bill, spent, legacy>>,
         \A q \in Runs : run'[q].status # "absent" => run[q].status # "absent",
         Account(r, h, at, bill[r], spent[r]), h.state # "none",
         Pledge(r, h) <= Pledge(r, hold[r])
  PROVE  Books'
<1>1. r \in Operations /\ (\A q \in Runs : hold'[q] = IF q = r THEN h ELSE hold[q])
      /\ \A o \in Operations : attempt'[o] = IF o = r THEN at ELSE attempt[o]
  BY Types DEF Operations
<1>2. Others(r)  BY <1>1 DEF Others
<1>3. hold'[r] = h /\ attempt'[r] = at /\ bill'[r] = bill[r] /\ spent'[r] = spent[r]
  BY <1>1
<1>4. spent' \in [Runs -> Nat] /\ legacy' \in [Legacy -> TotalsRow]  BY DEF Books
<1>5. Account(r, hold'[r], attempt'[r], bill'[r], spent'[r]) /\ hold'[r].state # "none"
      /\ Pledge(r, hold'[r]) <= Pledge(r, hold[r])
  BY <1>3
<1> QED  BY ONLY <1>2, <1>4, <1>5, RunBooks, ConstantsOK, IInv, IInv', Books, SendingRight', r \in Runs

\* settle_delivery: the delivery is decided, and requests that were not sent are dropped.
LEMMA DecideBooks ==
  ASSUME ConstantsOK, IInv, IInv', Books, NEW r \in Runs,
         NEW outcome \in {"delivered", "failed"}, Decide(r, outcome), run[r].status # "absent",
         UNCHANGED <<bill, spent, legacy>>,
         \A q \in Runs : run'[q].status # "absent" => run[q].status # "absent",
         \A c \in Calls : InFlight(c)' =>
            InFlight(c) /\ call'[c].run = call[c].run /\ call'[c].ordinal = call[c].ordinal
  PROVE  Books'
<1>1. CASE hold[r].delivery # "pending"
  <2>1. UNCHANGED <<hold, attempt>>  BY <1>1 DEF Decide, money
  <2>2. SendingRight'  BY <2>1, NobodySends DEF Books
  <2> QED  BY <2>1, <2>2, BooksKept
<1>2. CASE hold[r].delivery = "pending"
  <2> DEFINE at == [n \in Ordinals(r) |-> IF Drops(attempt[r][n])
                       THEN [state |-> "cancelled", cost |-> 0] ELSE attempt[r][n]]
             g == [hold[r] EXCEPT !.delivery = outcome]
             h == Refreshed(r, g, at)
  <2>1. hold' = [hold EXCEPT ![r] = h] /\ attempt' = [attempt EXCEPT ![r] = at]
    BY <1>2 DEF Decide, Contradicts
  <2>2. /\ r \in Operations /\ HoldRow(hold[r]) /\ Account(r, hold[r], attempt[r], bill[r], spent[r])
        /\ attempt[r] \in [Ordinals(r) -> AttemptRow] /\ bill[r] \in [Ordinals(r) -> Nat]
        /\ spent[r] \in Nat /\ Reserve[r] \in Nat /\ hold[r].state # "none"
    BY AccountFacts
  <2>3. HoldRow(g) /\ g.delivery = outcome /\ g.state = hold[r].state /\ g.native = hold[r].native
    BY <2>2 DEF HoldRow
  <2>4. hold[r].state # "settled" /\ g.native = Unmeasured
    BY <1>2, <2>2, <2>3 DEF Account
  <2>5. at \in [Ordinals(r) -> AttemptRow]
    BY <2>2 DEF AttemptRow
  <2>6. \A n \in Ordinals(r) : Final(at[n]) => at[n].cost = bill[r][n]
    <3> SUFFICES ASSUME NEW n \in Ordinals(r), Final(at[n]) PROVE at[n].cost = bill[r][n]
      OBVIOUS
    <3>1. CASE attempt[r][n].state = "planned"
      <4>1. OneOpen(attempt[r], bill[r]) /\ DOMAIN attempt[r] = Ordinals(r)
        BY <2>2 DEF IInv, RowsRight
      <4>2. bill[r][n] = 0  BY <3>1, <4>1 DEF OneOpen
      <4> QED  BY <3>1, <4>2 DEF Drops
    <3>2. CASE attempt[r][n].state # "planned"
      <4>1. at[n] = attempt[r][n]  BY <3>2 DEF Drops
      <4> QED  BY <2>2, <4>1 DEF Account
    <3> QED  BY <3>1, <3>2
  <2>7. \A o \in Operations : \A n \in Ordinals(o) :
           attempt[o][n].state = "started" => attempt'[o][n].state = "started"
    <3>1. \A o \in Operations : attempt'[o] = IF o = r THEN at ELSE attempt[o]
      BY <2>1, Types
    <3>2. \A n \in Ordinals(r) : attempt[r][n].state = "started" => at[n] = attempt[r][n]
      BY DEF Drops
    <3> HIDE DEF at
    <3> QED  BY <3>1, <3>2
  <2>8. SendingRight'  BY <2>7, NobodySends DEF Books
  <2> HIDE DEF at, g
  <2>9. Account(r, h, at, bill[r], spent[r]) /\ h.state # "none" /\ Pledge(r, h) <= Reserve[r]
    BY <2>2, <2>3, <2>4, <2>5, <2>6, RefreshedAccount
  <2>10. Pledge(r, hold[r]) = Reserve[r]  BY <2>2, <2>4 DEF Pledge
  <2> HIDE DEF h
  <2> QED  BY <2>1, <2>8, <2>9, <2>10, HoldBooks
<1> QED  BY <1>1, <1>2

\* A run ends, or nothing of it changes, while its call leaves.
LEMMA EndBooks ==
  ASSUME ConstantsOK, IInv, IInv', Books, NEW r \in Runs, run[r].status # "absent",
         \/ UNCHANGED <<run, hold, attempt>> \/ \E status \in Terminal : End(r, status),
         UNCHANGED <<bill, spent, legacy>>,
         \A c \in Calls : InFlight(c)' =>
            InFlight(c) /\ call'[c].run = call[c].run /\ call'[c].ordinal = call[c].ordinal
  PROVE  Books'
<1>1. CASE UNCHANGED <<run, hold, attempt>>
  <2>1. SendingRight'  BY <1>1, NobodySends DEF Books
  <2> QED  BY <1>1, <2>1, BooksKept
<1>2. ASSUME NEW status \in Terminal, End(r, status) PROVE Books'
  <2> DEFINE outcome == IF status = "succeeded" THEN "delivered" ELSE "failed"
  <2>1. Decide(r, outcome) /\ run' = [run EXCEPT ![r].status = status]  BY <1>2 DEF End
  <2>2. \A q \in Runs : run'[q].status # "absent" => run[q].status # "absent"
    BY <2>1, Types
  <2>3. outcome \in {"delivered", "failed"}  OBVIOUS
  <2> HIDE DEF outcome
  <2> QED  BY <2>1, <2>2, <2>3, DecideBooks
<1> QED  BY <1>1, <1>2

-----------------------------------------------------------------------------
(* The books, action by action. *)

LEMMA AdmitBooks ==
  ASSUME ConstantsOK, IInv, IInv', Books, SendingRight', NEW r \in Runs, NEW status \in Active,
         Admit(r, status), UNCHANGED <<bill, legacy>>, NEW s \in Nat,
         spent' = [spent EXCEPT ![r] = s], status = "queued" => s = spent[r]
  PROVE  Books'
<1> DEFINE x == IF status = "queued" THEN "reserved" ELSE "running"
           h == [hold[r] EXCEPT !.state = x]
<1>1. /\ HoldRow(hold[r]) /\ Account(r, hold[r], attempt[r], bill[r], spent[r])
      /\ r \in Operations /\ hold[r] = NoHold /\ Reserve[r] \in Nat
  BY AccountFacts DEF Admit
<1>2. hold' = [hold EXCEPT ![r] = h] /\ attempt' = attempt /\ Budget + Reserve[r] <= Ceiling
      /\ run' = [run EXCEPT ![r].status = status]
  BY DEF Admit
<1>3. /\ h.state = x /\ h.native = Unmeasured /\ h.amount = 0
      /\ h.delivery = "pending"
  BY <1>1 DEF NoHold
<1>4. Account(r, h, attempt[r], bill[r], s) /\ h.state # "none" /\ Pledge(r, h) = Reserve[r]
  BY <1>1, <1>3 DEF Account, Pledge
<1> HIDE DEF h
<1>5. /\ \A q \in Runs : hold'[q] = IF q = r THEN h ELSE hold[q]
      /\ \A q \in Runs : spent'[q] = IF q = r THEN s ELSE spent[q]
      /\ \A q \in Runs \ {r} : run'[q] = run[q]
      /\ spent' \in [Runs -> Nat] /\ legacy' \in [Legacy -> TotalsRow]
  BY <1>2, Types DEF Books
<1>6. Others(r)  BY <1>2, <1>5 DEF Others
<1>7. Account(r, hold'[r], attempt'[r], bill'[r], spent'[r]) /\ hold'[r].state # "none"
      /\ Pledge(r, hold'[r]) = Reserve[r]
  BY <1>2, <1>4, <1>5
<1>8. hold[r].state = "none"  BY <1>1 DEF NoHold
<1> QED  BY ONLY <1>2, <1>5, <1>6, <1>7, <1>8, RunBooks, ConstantsOK, IInv, IInv', Books, SendingRight',
            r \in Runs

LEMMA CreateBooks ==
  ASSUME ConstantsOK, IInv, IInv', Books, NEW r \in Runs, Create(r)
  PROVE  Books'
<1>1. Admit(r, "queued") /\ UNCHANGED <<bill, spent, legacy, call, attempt>>
  BY DEF Create, Admit, world
<1>2. SendingRight'  BY <1>1, SendingKept DEF Books, InFlight, SendingRight
<1>3. spent[r] \in Nat /\ spent' = [spent EXCEPT ![r] = spent[r]]  BY <1>1 DEF Books
<1> QED  BY <1>1, <1>2, <1>3, AdmitBooks DEF Active

LEMMA StartInlineBooks ==
  ASSUME ConstantsOK, IInv, IInv', Books, NEW c \in Calls, NEW r \in Runs, StartInline(c, r)
  PROVE  Books'
<1>1. Admit(r, "running") /\ UNCHANGED <<bill, legacy, attempt>>
      /\ call' = [call EXCEPT ![c] = [phase |-> "work", run |-> r, ordinal |-> 0]]
  BY DEF StartInline, Admit
<1>2. SendingRight'  BY <1>1, CallGoesOn, NobodySends DEF Books
<1>3. PICK s \in NativeCosts : spent' = [spent EXCEPT ![r] = s]  BY DEF StartInline
<1>4. s \in Nat  BY <1>3 DEF ConstantsOK
<1> QED  BY <1>1, <1>2, <1>3, <1>4, AdmitBooks DEF Active

LEMMA CancelBooks ==
  ASSUME ConstantsOK, IInv, IInv', Books, NEW r \in Runs, Cancel(r)
  PROVE  Books'
<1>1. UNCHANGED <<bill, spent, legacy, call>> /\ run[r].status # "absent"
  BY DEF Cancel, world, Active
<1>2. \A c \in Calls : InFlight(c)' =>
         InFlight(c) /\ call'[c].run = call[c].run /\ call'[c].ordinal = call[c].ordinal
  BY <1>1 DEF InFlight
<1>3. \A q \in Runs : run'[q].status # "absent" => run[q].status # "absent"
  <2>1. \A q \in Runs : q # r => run'[q] = run[q]  BY Types DEF Cancel
  <2> QED  BY <1>1, <2>1
<1>4. CASE Decide(r, "failed")  BY <1>1, <1>2, <1>3, <1>4, DecideBooks
<1>5. CASE UNCHANGED money
  <2>1. UNCHANGED <<hold, attempt>>  BY <1>5 DEF money
  <2>2. SendingRight'  BY <1>2, <2>1, NobodySends DEF Books
  <2> QED  BY <1>1, <1>3, <2>1, <2>2, BooksKept
<1> QED  BY <1>4, <1>5 DEF Cancel

LEMMA SettleExhaustedBooks ==
  ASSUME ConstantsOK, IInv, IInv', Books, NEW r \in Runs, SettleExhausted(r)
  PROVE  Books'
<1>1. UNCHANGED <<bill, spent, legacy, call>> /\ run[r].status # "absent" /\ End(r, "failed")
  BY DEF SettleExhausted, world, Active
<1>2. \A c \in Calls : InFlight(c)' =>
         InFlight(c) /\ call'[c].run = call[c].run /\ call'[c].ordinal = call[c].ordinal
  BY <1>1 DEF InFlight
<1>3. \E status \in Terminal : End(r, status)  BY <1>1 DEF Terminal
<1> QED  BY <1>1, <1>2, <1>3, EndBooks

\* Only runs, or calls that are not at the provider afterwards, change.
LEMMA QuietBooks ==
  ASSUME ConstantsOK, IInv, Books, UNCHANGED <<hold, attempt, bill, spent, legacy>>,
         \A r \in Runs : run'[r].status # "absent" => run[r].status # "absent",
         \A c \in Calls : InFlight(c)' =>
            InFlight(c) /\ call'[c].run = call[c].run /\ call'[c].ordinal = call[c].ordinal
  PROVE  Books'
<1>1. SendingRight'  BY NobodySends DEF Books
<1> QED  BY <1>1, BooksKept

LEMMA RunOnlyBooks ==
  ASSUME ConstantsOK, IInv, Books, NEW r \in Runs, Erase(r) \/ BecomesStale(r)
  PROVE  Books'
<1>1. UNCHANGED <<hold, attempt, bill, spent, legacy, call>> /\ run[r].status # "absent"
  BY DEF Erase, BecomesStale, money, world
<1>2. \A q \in Runs : q # r => run'[q] = run[q]  BY Types DEF Erase, BecomesStale
<1>3. \A c \in Calls : InFlight(c)' =>
         InFlight(c) /\ call'[c].run = call[c].run /\ call'[c].ordinal = call[c].ordinal
  BY <1>1 DEF InFlight
<1> QED  BY <1>1, <1>2, <1>3, QuietBooks

LEMMA ReconcileBooks ==
  ASSUME ConstantsOK, IInv, IInv', Books, NEW r \in Runs, Reconcile(r)
  PROVE  Books'
<1> DEFINE g == [hold[r] EXCEPT !.native = spent[r]]
           h == Refreshed(r, g, attempt[r])
<1>1. /\ hold' = [hold EXCEPT ![r] = h] /\ UNCHANGED <<run, attempt, bill, spent, legacy, call>>
      /\ hold[r].delivery # "pending" /\ hold[r].native = Unmeasured
  BY DEF Reconcile, world
<1>2. /\ r \in Operations /\ HoldRow(hold[r]) /\ Account(r, hold[r], attempt[r], bill[r], spent[r])
      /\ attempt[r] \in [Ordinals(r) -> AttemptRow] /\ bill[r] \in [Ordinals(r) -> Nat]
      /\ spent[r] \in Nat /\ Reserve[r] \in Nat
      /\ run[r].status = "absent" => hold[r] = NoHold
      /\ run[r].status # "absent" => hold[r].state # "none"
  BY AccountFacts
<1>3. hold[r].state # "none"  BY <1>1, <1>2 DEF NoHold
<1>4. hold[r].state # "settled"  BY <1>1, <1>2 DEF Account, Unmeasured
<1>5. HoldRow(g) /\ g.delivery = hold[r].delivery /\ g.state = hold[r].state /\ g.native = spent[r]
  BY <1>2 DEF HoldRow
<1>6. \A n \in Ordinals(r) : Final(attempt[r][n]) => attempt[r][n].cost = bill[r][n]
  BY <1>2 DEF Account
<1> HIDE DEF g
<1>7. Account(r, h, attempt[r], bill[r], spent[r]) /\ h.state # "none" /\ Pledge(r, h) <= Reserve[r]
  BY <1>1, <1>2, <1>3, <1>4, <1>5, <1>6, RefreshedAccount
<1>8. Pledge(r, hold[r]) = Reserve[r]  BY <1>3, <1>4 DEF Pledge
<1>9. SendingRight'  BY <1>1, SendingKept DEF Books, InFlight, SendingRight
<1>10. attempt' = [attempt EXCEPT ![r] = attempt[r]]  BY <1>1, Types
<1> HIDE DEF h
<1> QED  BY <1>1, <1>7, <1>8, <1>9, <1>10, HoldBooks

LEMMA EraseLegacyBooks ==
  ASSUME ConstantsOK, IInv, IInv', Books, NEW l \in Legacy, EraseLegacy(l)
  PROVE  Books'
<1>1. legacy' = [legacy EXCEPT ![l].erased = TRUE] /\ UNCHANGED <<run, hold, attempt, bill, spent, call>>
  BY DEF EraseLegacy, money, world
<1>2. SendingRight'  BY <1>1, SendingKept DEF Books, InFlight, SendingRight
<1>3. legacy \in [Legacy -> TotalsRow] /\ LegacyAccount(l, legacy[l], attempt[l], bill[l])
  BY DEF Books
<1>4. [legacy[l] EXCEPT !.erased = TRUE] \in TotalsRow
  <2> DEFINE u == legacy[l]
  <2>1. u \in TotalsRow  BY <1>3
  <2> HIDE DEF u
  <2>2. [u EXCEPT !.erased = TRUE] \in TotalsRow  BY ONLY <2>1 DEF TotalsRow
  <2> QED  BY <2>2 DEF u
<1>5. /\ legacy' \in [Legacy -> TotalsRow] /\ legacy'[l] = [legacy[l] EXCEPT !.erased = TRUE]
      /\ \A k \in Legacy \ {l} : legacy'[k] = legacy[k]
  BY <1>1, <1>3, <1>4
<1>6. legacy'[l].erased  BY <1>3, <1>5 DEF TotalsRow
<1>7. LegacyAccount(l, legacy'[l], attempt'[l], bill'[l])
  BY <1>1, <1>3, <1>6 DEF LegacyAccount
<1>8. Others(l) /\ spent' \in [Runs -> Nat]  BY <1>1, <1>5 DEF Others, Books
<1>9. LegacyPledge(l, attempt'[l]) <= LegacyPledge(l, attempt[l])
  <2>1. attempt[l] \in [Ordinals(l) -> AttemptRow]  BY Types DEF Operations
  <2>2. LegacyPledge(l, attempt[l]) \in Nat  BY <2>1, LegacyPledgeIsNat
  <2>3. attempt' = attempt  BY <1>1
  <2> QED  BY <2>2, <2>3
<1> QED  BY ONLY <1>2, <1>5, <1>7, <1>8, <1>9, LegacyBooks, ConstantsOK, IInv, IInv', Books, l \in Legacy

\* What a call does without a request of its own.
LEMMA CallOnlyBooks ==
  ASSUME ConstantsOK, IInv, Books, NEW c \in Calls, NEW x, call' = [call EXCEPT ![c] = x],
         x.phase \notin {"send", "answer"}, UNCHANGED <<hold, attempt, bill, spent, legacy>>,
         \A r \in Runs : run'[r].status # "absent" => run[r].status # "absent"
  PROVE  Books'
<1>1. \A d \in Calls : InFlight(d)' =>
         InFlight(d) /\ call'[d].run = call[d].run /\ call'[d].ordinal = call[d].ordinal
  BY CallGoesOn
<1> QED  BY <1>1, QuietBooks

LEMMA ClaimRunBooks ==
  ASSUME ConstantsOK, IInv, Books, NEW c \in Calls, NEW r \in Runs, ClaimRun(c, r)
  PROVE  Books'
<1>1. /\ UNCHANGED <<hold, attempt, bill, spent, legacy>> /\ run[r].status # "absent"
      /\ call' = [call EXCEPT ![c] = [phase |-> "read", run |-> r, ordinal |-> 0]]
  BY DEF ClaimRun, Claimable, money, world
<1>2. \A q \in Runs : q # r => run'[q] = run[q]  BY Types DEF ClaimRun
<1> QED  BY <1>1, <1>2, CallOnlyBooks

\* A step of a call that changes neither runs nor money.
LEMMA StepBooks ==
  ASSUME ConstantsOK, IInv, Books, NEW c \in Calls,
         \/ ReadRun(c) \/ Finish(c) \/ RefuseResult(c) \/ FailCallback(c) \/ Crash(c)
  PROVE  Books'
<1>1. UNCHANGED <<run, hold, attempt, bill, spent, legacy>>
  BY DEF ReadRun, Finish, RefuseResult, FailCallback, Crash, money, world
<1>2. call[c] \in CallRow  BY CallFacts
<1>3. \E x : call' = [call EXCEPT ![c] = x] /\ x.phase \notin {"send", "answer"}
  <2>1. CASE call' = [call EXCEPT ![c] = Idle]
    <3>1. Idle.phase = "idle"  BY DEF Idle
    <3> QED  BY <2>1, <3>1
  <2>2. ASSUME NEW p \in {"cancel", "enter", "commit", "error"}, call' = [call EXCEPT ![c].phase = p]
        PROVE  \E x : call' = [call EXCEPT ![c] = x] /\ x.phase \notin {"send", "answer"}
    <3>1. [call[c] EXCEPT !.phase = p].phase = p  BY <1>2 DEF CallRow
    <3> QED  BY <2>2, <3>1
  <2>3. CASE call' = [call EXCEPT ![c].phase = "error", ![c].ordinal = 0]
    <3>1. [call[c] EXCEPT !.phase = "error", !.ordinal = 0].phase = "error"  BY <1>2 DEF CallRow
    <3>2. call' = [call EXCEPT ![c] = [call[c] EXCEPT !.phase = "error", !.ordinal = 0]]
      BY <2>3, Types
    <3> QED  BY <3>1, <3>2
  <2> QED  BY <2>1, <2>2, <2>3 DEF ReadRun, Finish, RefuseResult, FailCallback, Crash, Leave, Step
<1> QED  BY <1>1, <1>3, CallOnlyBooks

\* A call that ends its run, or finds it ended.
LEMMA OutcomeBooks ==
  ASSUME ConstantsOK, IInv, IInv', Books, NEW c \in Calls,
         CancelClaimed(c) \/ CommitResult(c) \/ FailCommit(c) \/ RecordError(c)
  PROVE  Books'
<1> DEFINE r == call[c].run
<1>1. r \in Runs /\ run[r].status # "absent" /\ call[c] \in CallRow
  BY CallFacts DEF CancelClaimed, CommitResult, FailCommit, RecordError, CallRight
<1>2. UNCHANGED <<bill, spent, legacy>>
  BY DEF CancelClaimed, CommitResult, FailCommit, RecordError, world
<1>3. UNCHANGED <<run, hold, attempt>> \/ \E status \in Terminal : End(r, status)
  <2>1. /\ UNCHANGED <<run, money>> => UNCHANGED <<run, hold, attempt>>
        /\ "succeeded" \in Terminal /\ "failed" \in Terminal /\ "cancelled" \in Terminal
    BY DEF money, Terminal
  <2>2. CASE CancelClaimed(c)  BY <2>1, <2>2 DEF CancelClaimed
  <2>3. CASE ResultOf(c)  BY <2>1, <2>3 DEF ResultOf
  <2>4. CASE RecordError(c)
    <3>1. UNCHANGED <<run, money>> \/ End(r, "cancelled") \/ End(r, "failed")
      BY <2>4 DEF RecordError
    <3> HIDE DEF r
    <3> QED  BY <2>1, <3>1
  <2> QED  BY <2>1, <2>2, <2>3, <2>4 DEF CommitResult, FailCommit
<1>4. \A d \in Calls : InFlight(d)' =>
         InFlight(d) /\ call'[d].run = call[d].run /\ call'[d].ordinal = call[d].ordinal
  <2>1. call' = [call EXCEPT ![c] = Idle] \/ call' = [call EXCEPT ![c] = [call[c] EXCEPT !.phase = "error"]]
    BY DEF CancelClaimed, CommitResult, FailCommit, RecordError, Leave, Step
  <2>2. Idle.phase = "idle" /\ [call[c] EXCEPT !.phase = "error"].phase = "error"
    BY <1>1 DEF Idle, CallRow
  <2> HIDE DEF r
  <2> QED  BY <2>1, <2>2, CallGoesOn
<1> HIDE DEF r
<1> QED  BY <1>1, <1>2, <1>3, <1>4, EndBooks

LEMMA EnterBooks ==
  ASSUME ConstantsOK, IInv, IInv', Books, NEW c \in Calls, Enter(c)
  PROVE  Books'
<1> DEFINE r == call[c].run
           h == [hold[r] EXCEPT !.state = "running"]
<1>1. r \in Runs /\ run[r].status # "absent" /\ call[c] \in CallRow /\ call[c].phase = "enter"
  BY CallFacts DEF Enter, CallRight
<1>2. UNCHANGED <<run, attempt, bill, legacy>>  BY DEF Enter
<1>3. CASE Step(c, "error") /\ UNCHANGED <<hold, spent>>
  <2>1. [call[c] EXCEPT !.phase = "error"].phase = "error"  BY <1>1 DEF CallRow
  <2>2. call' = [call EXCEPT ![c] = [call[c] EXCEPT !.phase = "error"]]  BY <1>3 DEF Step
  <2> QED  BY <1>2, <1>3, <2>1, <2>2, CallOnlyBooks
<1>4. ASSUME hold[r].state = "reserved", hold[r].delivery = "pending", hold' = [hold EXCEPT ![r] = h],
             NEW k \in NativeCosts, spent' = [spent EXCEPT ![r] = k], Step(c, "work")
      PROVE  Books'
  <2>1. [call[c] EXCEPT !.phase = "work"].phase = "work"  BY <1>1 DEF CallRow
  <2>2. call' = [call EXCEPT ![c] = [call[c] EXCEPT !.phase = "work"]]  BY <1>4 DEF Step
  <2>3. SendingRight'  BY <1>2, <2>1, <2>2, CallGoesOn, NobodySends DEF Books
  <2>4. k \in Nat  BY DEF ConstantsOK
  <2>5. HoldRow(hold[r]) /\ Account(r, hold[r], attempt[r], bill[r], spent[r])
        /\ r \in Operations /\ Reserve[r] \in Nat
    BY <1>1, AccountFacts
  <2>6. /\ HoldRow(h) /\ h.state = "running" /\ h.amount = hold[r].amount
        /\ h.native = hold[r].native /\ h.delivery = hold[r].delivery
    <3> HIDE DEF r
    <3> QED  BY <2>5 DEF HoldRow
  <2> HIDE DEF h, r
  <2>7. Account(r, h, attempt[r], bill[r], k) /\ Pledge(r, h) = Reserve[r]
    BY <1>1, <1>4, <2>4, <2>5, <2>6, RunningAccount
  <2>8. Pledge(r, hold[r]) = Reserve[r]  BY <1>4 DEF Pledge
  <2>9. /\ \A q \in Runs : hold'[q] = IF q = r THEN h ELSE hold[q]
        /\ \A q \in Runs : spent'[q] = IF q = r THEN k ELSE spent[q]
        /\ spent' \in [Runs -> Nat] /\ legacy' \in [Legacy -> TotalsRow]
    BY <1>2, <1>4, <2>4, Types DEF Books
  <2>10. Others(r)  BY <1>2, <2>9 DEF Others
  <2>11. Account(r, hold'[r], attempt'[r], bill'[r], spent'[r]) /\ hold'[r].state # "none"
         /\ Pledge(r, hold'[r]) <= Pledge(r, hold[r])
    BY <1>1, <1>2, <2>5, <2>6, <2>7, <2>8, <2>9
  <2> QED  BY ONLY <1>1, <2>3, <2>9, <2>10, <2>11, RunBooks, ConstantsOK, IInv, IInv', Books
<1> QED  BY <1>3, <1>4 DEF Enter, Enterable

LEMMA ClaimAttemptBooks ==
  ASSUME ConstantsOK, IInv, IInv', Books, NEW c \in Calls, NEW n \in Ordinals(call[c].run),
         ClaimAttempt(c, n)
  PROVE  Books'
<1> DEFINE r == call[c].run
           a == [attempt[r][n] EXCEPT !.state = "started"]
           at == [attempt[r] EXCEPT ![n] = a]
           h == [hold[r] EXCEPT !.state = "running"]
           x == [call[c] EXCEPT !.phase = "send", !.ordinal = n]
<1>1. /\ r \in Runs /\ r \in Operations /\ n \in Ordinals(r)
      /\ call[c].phase = "work" /\ run[r].status # "absent" /\ call[c] \in CallRow
      /\ hold[r].delivery = "pending" /\ hold[r].state # "settled"
      /\ attempt[r][n].state = "planned"
  BY CallFacts DEF ClaimAttempt, Operations
<1>2. /\ attempt' = [attempt EXCEPT ![r] = at] /\ hold' = [hold EXCEPT ![r] = h]
      /\ UNCHANGED <<run, bill, spent, legacy>>
  BY DEF ClaimAttempt, world
<1>3. call' = [call EXCEPT ![c] = x]
  BY Types DEF ClaimAttempt
<1>4. /\ HoldRow(hold[r]) /\ Account(r, hold[r], attempt[r], bill[r], spent[r])
      /\ attempt[r] \in [Ordinals(r) -> AttemptRow] /\ spent[r] \in Nat
      /\ hold[r].state # "none" /\ Reserve[r] \in Nat
  BY <1>1, AccountFacts
<1>5. /\ HoldRow(h) /\ h.state = "running" /\ h.amount = hold[r].amount
      /\ h.native = hold[r].native /\ h.delivery = hold[r].delivery
  <2> HIDE DEF r
  <2> QED  BY <1>4 DEF HoldRow
<1>6. a.state = "started"  BY <1>1, <1>4 DEF AttemptRow
<1>7. \A m \in Ordinals(r) : at[m] = IF m = n THEN a ELSE attempt[r][m]
  BY <1>4
<1>8. x.phase = "send" /\ x.run = r /\ x.ordinal = n  BY <1>1 DEF CallRow
<1> HIDE DEF a, at, h, x, r
<1>9. \A o \in Operations : attempt'[o] = IF o = r THEN at ELSE attempt[o]
  BY <1>2, Types
<1>10. \A p \in Operations : \A m \in Ordinals(p) :
          attempt[p][m].state = "started" => attempt'[p][m].state = "started"
  BY <1>6, <1>7, <1>9
<1>11. attempt'[r][n].state = "started"  BY <1>1, <1>6, <1>7, <1>9
<1>12. SendingRight'
  <2>1. SendingRight /\ r \in Operations /\ n \in Ordinals(r) /\ attempt[r][n].state = "planned"
    BY <1>1 DEF Books
  <2> QED  BY ONLY <1>3, <1>8, <1>10, <1>11, <2>1, SendingStarts, IInv, c \in Calls
<1>13. \A m \in Ordinals(r) : at[m] = attempt[r][m] \/ ~Final(at[m])
  BY <1>6, <1>7 DEF Final
<1>14. Account(r, h, at, bill[r], spent[r]) /\ Pledge(r, h) = Reserve[r]
  BY <1>1, <1>4, <1>5, <1>13, RunningAccount
<1>15. Pledge(r, hold[r]) = Reserve[r]  BY <1>1, <1>4 DEF Pledge
<1>16. Pledge(r, h) <= Pledge(r, hold[r]) /\ h.state # "none"  BY <1>4, <1>5, <1>14, <1>15
<1> QED  BY ONLY <1>1, <1>2, <1>12, <1>14, <1>16, HoldBooks, ConstantsOK, IInv, IInv', Books

LEMMA SendBooks ==
  ASSUME ConstantsOK, IInv, IInv', Books, NEW c \in Calls, Send(c)
  PROVE  Books'
<1> DEFINE o == call[c].run
           n == call[c].ordinal
           x == [call[c] EXCEPT !.phase = "answer"]
<1>1. /\ o \in Operations /\ n \in Ordinals(o) /\ call[c].phase = "send" /\ call[c] \in CallRow
      /\ InFlight(c) /\ attempt[o][n].state = "started"
  BY CallFacts DEF Send, CallRight, Books, SendingRight, InFlight
<1>2. UNCHANGED <<run, hold, attempt, legacy, spent>> /\ call' = [call EXCEPT ![c] = x]
  BY DEF Send, Step, money
<1>3. PICK k \in Costs \cup {0} : bill' = [bill EXCEPT ![o][n] = k]  BY DEF Send
<1>4. x.phase = "answer" /\ x.run = o /\ x.ordinal = n  BY <1>1 DEF CallRow
<1>5. bill[o] \in [Ordinals(o) -> Nat]  BY <1>1, Types
<1> DEFINE b == [bill[o] EXCEPT ![n] = k]
<1>6. /\ \A p \in Operations : bill'[p] = IF p = o THEN b ELSE bill[p]
      /\ \A m \in Ordinals(o) \ {n} : b[m] = bill[o][m]
  BY <1>1, <1>3, <1>5, Types
<1>7. SendingRight'
  <2> HIDE DEF x
  <2>1. \A d \in Calls : InFlight(d)' =>
           InFlight(d) /\ call'[d].run = call[d].run /\ call'[d].ordinal = call[d].ordinal
    BY <1>1, <1>2, <1>4, CallGoesOn
  <2> QED  BY <1>2, <2>1, NobodySends DEF Books
<1>8. spent' \in [Runs -> Nat] /\ legacy' \in [Legacy -> TotalsRow]  BY <1>2 DEF Books
<1> HIDE DEF b, x, o, n
<1>9. Others(o)  BY <1>2, <1>6 DEF Others
<1>10. bill'[o] = b  BY <1>1, <1>6
<1>11. ~Final(attempt[o][n]) /\ attempt[o][n].state # "planned"  BY <1>1 DEF Final
<1>12. CASE o \in Runs
  <2>1. /\ HoldRow(hold[o]) /\ Account(o, hold[o], attempt[o], bill[o], spent[o])
        /\ Reserve[o] \in Nat /\ (run[o].status # "absent" => hold[o].state # "none")
        /\ hold[o].amount \in Nat
    BY <1>12, AccountFacts DEF Account
  <2>2. run[o].status # "absent"  BY <1>12, CallFacts DEF o
  <2>3. Account(o, hold[o], attempt[o], b, spent[o])
    <3>1. hold[o].state \notin {"none", "settled"}
      BY <1>1, <1>11, <2>1, <2>2 DEF Account
    <3>2. \A m \in Ordinals(o) : Final(attempt[o][m]) => attempt[o][m].cost = b[m]
      BY <1>6, <1>11, <2>1 DEF Account
    <3> QED  BY ONLY <2>1, <3>1, <3>2 DEF Account
  <2>4. Pledge(o, hold[o]) \in Nat  BY <1>12, <2>1, PledgeIsNat
  <2>5. /\ Account(o, hold'[o], attempt'[o], bill'[o], spent'[o]) /\ hold'[o].state # "none"
        /\ Pledge(o, hold'[o]) <= Pledge(o, hold[o])
    <3>1. hold' = hold /\ attempt' = attempt /\ spent' = spent  BY <1>2
    <3>2. hold[o].state # "none"  BY <2>1, <2>2
    <3> QED  BY ONLY <1>10, <2>3, <2>4, <3>1, <3>2
  <2> QED  BY ONLY <1>7, <1>8, <1>9, <1>12, <2>5, RunBooks, ConstantsOK, IInv, IInv', Books
<1>13. CASE o \in Legacy
  <2>1. LegacyAccount(o, legacy[o], attempt[o], bill[o])  BY <1>13 DEF Books
  <2>2. LegacyAccount(o, legacy[o], attempt[o], b)
    BY <1>6, <1>11, <2>1 DEF LegacyAccount
  <2>3. LegacyPledge(o, attempt[o]) \in Nat  BY <1>1, <1>13, Types, LegacyPledgeIsNat
  <2>4. /\ LegacyAccount(o, legacy'[o], attempt'[o], bill'[o])
        /\ LegacyPledge(o, attempt'[o]) <= LegacyPledge(o, attempt[o])
    BY <1>2, <1>10, <2>2, <2>3
  <2> QED  BY ONLY <1>7, <1>8, <1>9, <1>13, <2>4, LegacyBooks, ConstantsOK, IInv, IInv', Books
<1> QED  BY <1>1, <1>12, <1>13 DEF Operations

LEMMA AnswerFinal ==
  ASSUME NEW cost, NEW a \in Answers(cost)
  PROVE  (Final(a) => a.cost = cost) /\ a.state \notin {"planned", "started", "cancelled"}
BY DEF Answers, Final

LEMMA FinishAttemptBooks ==
  ASSUME ConstantsOK, IInv, IInv', Books, NEW c \in Calls, FinishAttempt(c)
  PROVE  Books'
<1> DEFINE r == call[c].run
           n == call[c].ordinal
           x == [call[c] EXCEPT !.phase = "work", !.ordinal = 0]
<1>1. /\ r \in Runs /\ r \in Operations /\ n \in Ordinals(r) /\ call[c].phase = "answer"
      /\ call[c] \in CallRow /\ run[r].status # "absent"
      /\ InFlight(c) /\ attempt[r][n].state = "started"
  BY CallFacts DEF FinishAttempt, CallRight, Books, SendingRight, InFlight
<1>2. UNCHANGED <<run, bill, spent, legacy>> /\ call' = [call EXCEPT ![c] = x]
  BY Types DEF FinishAttempt, Answered, world
<1>3. ~Final(attempt[r][n])  BY <1>1 DEF Final
<1>4. PICK a \in Answers(bill[r][n]) :
         LET at == [attempt[r] EXCEPT ![n] = a]
         IN  /\ attempt' = [attempt EXCEPT ![r] = at]
             /\ hold' = [hold EXCEPT ![r] = Refreshed(r, @, at)]
  BY <1>3 DEF FinishAttempt
<1> DEFINE at == [attempt[r] EXCEPT ![n] = a]
           h == Refreshed(r, hold[r], at)
<1>5. attempt' = [attempt EXCEPT ![r] = at] /\ hold' = [hold EXCEPT ![r] = h]
  BY <1>4
<1>6. /\ HoldRow(hold[r]) /\ Account(r, hold[r], attempt[r], bill[r], spent[r])
      /\ attempt[r] \in [Ordinals(r) -> AttemptRow] /\ bill[r] \in [Ordinals(r) -> Nat]
      /\ spent[r] \in Nat /\ hold[r].state # "none"
  BY <1>1, AccountFacts
<1>7. a \in AttemptRow /\ (Final(a) => a.cost = bill[r][n])
  BY <1>1, <1>6, AnswersRow, AnswerFinal
<1>8. /\ at \in [Ordinals(r) -> AttemptRow]
      /\ \A m \in Ordinals(r) : at[m] = IF m = n THEN a ELSE attempt[r][m]
  BY <1>6, <1>7
<1>9. x.phase = "work"  BY <1>1 DEF CallRow
<1> HIDE DEF at, h, x, r, n
<1>10. hold[r].state # "settled"  BY <1>1, <1>3, <1>6 DEF Account
<1>11. \A m \in Ordinals(r) : Final(at[m]) => at[m].cost = bill[r][m]
  BY <1>6, <1>7, <1>8 DEF Account
<1>12. hold[r].native = Unmeasured \/ (hold[r].native = spent[r] /\ hold[r].delivery # "pending")
  BY <1>6 DEF Account
<1>13. Account(r, h, at, bill[r], spent[r]) /\ h.state # "none" /\ Pledge(r, h) <= Reserve[r]
  BY <1>1, <1>6, <1>8, <1>10, <1>11, <1>12, RefreshedAccount DEF h
<1>14. Pledge(r, hold[r]) = Reserve[r]  BY <1>6, <1>10 DEF Pledge
<1>15. SendingRight'
  <2>1. \A d \in Calls : call'[d] = IF d = c THEN x ELSE call[d]  BY <1>2, Types
  <2>2. \A o \in Operations : attempt'[o] = IF o = r THEN at ELSE attempt[o]
    BY <1>5, Types
  <2>3. ASSUME NEW d \in Calls, InFlight(d)'
        PROVE  /\ InFlight(d) /\ call'[d].run = call[d].run /\ call'[d].ordinal = call[d].ordinal
               /\ attempt'[call[d].run][call[d].ordinal].state = "started"
    <3>1. d # c  BY <1>9, <2>1, <2>3 DEF InFlight
    <3>2. call'[d] = call[d] /\ InFlight(d)  BY <2>1, <2>3, <3>1 DEF InFlight
    <3>3. /\ call[d].run \in Operations /\ call[d].ordinal \in Ordinals(call[d].run)
          /\ attempt[call[d].run][call[d].ordinal].state = "started"
      BY <3>2, CallFacts DEF CallRight, Books, SendingRight, InFlight
    <3>4. ~(call[d].run = r /\ call[d].ordinal = n)
      BY <1>1, <3>1, <3>2 DEF Books, SendingRight, r, n
    <3>5. attempt'[call[d].run][call[d].ordinal] = attempt[call[d].run][call[d].ordinal]
      BY <1>8, <2>2, <3>3, <3>4
    <3> QED  BY <3>2, <3>3, <3>5
  <2> QED  BY <2>3, SendingKept DEF Books
<1>16. Pledge(r, h) <= Pledge(r, hold[r])  BY <1>13, <1>14
<1> QED  BY ONLY <1>1, <1>2, <1>5, <1>13, <1>15, <1>16, HoldBooks, ConstantsOK, IInv, IInv', Books

\* The money that l still reserves, and what it has paid.
Reserved(l, at) == Sum([n \in Ordinals(l) |-> Held(at[n])])
Settled(l, at) == Sum([n \in Ordinals(l) |-> Paid(at[n])])

\* One attempt of an operation in units changes to a.
OneMoves(l, at, n, a, bt) == \A m \in Ordinals(l) : bt[m] = IF m = n THEN a ELSE at[m]

LEMMA OneAttempt ==
  ASSUME ConstantsOK, NEW l \in Legacy, NEW at \in [Ordinals(l) -> AttemptRow],
         NEW n \in Ordinals(l), NEW a \in AttemptRow, NEW bt, OneMoves(l, at, n, a, bt)
  PROVE  /\ Reserved(l, bt) = Reserved(l, at) - Held(at[n]) + Held(a)
         /\ Settled(l, bt) = Settled(l, at) - Paid(at[n]) + Paid(a)
         /\ LegacyPledge(l, bt) = LegacyPledge(l, at) - Portion(at[n]) + Portion(a)
         /\ Reserved(l, at) \in Nat /\ Settled(l, at) \in Nat /\ LegacyPledge(l, at) \in Nat
<1> DEFINE f1 == [m \in Ordinals(l) |-> Held(at[m])]
           g1 == [m \in Ordinals(l) |-> Held(bt[m])]
           f2 == [m \in Ordinals(l) |-> Paid(at[m])]
           g2 == [m \in Ordinals(l) |-> Paid(bt[m])]
           f3 == [m \in Ordinals(l) |-> Portion(at[m])]
           g3 == [m \in Ordinals(l) |-> Portion(bt[m])]
<1>1. IsFiniteSet(Ordinals(l))  BY OrdinalsFinite DEF Operations
<1>2. /\ \A m \in Ordinals(l) : bt[m] \in AttemptRow
      /\ bt[n] = a
      /\ \A m \in Ordinals(l) \ {n} : bt[m] = at[m]
  BY DEF OneMoves
<1>3. \A m \in Ordinals(l) : /\ Portion(at[m]) \in Nat /\ Held(at[m]) \in Nat /\ Paid(at[m]) \in Nat
                             /\ Portion(bt[m]) \in Nat /\ Held(bt[m]) \in Nat /\ Paid(bt[m]) \in Nat
  BY <1>2, UsedIsNat
<1>4. Quote \in Nat  BY DEF ConstantsOK
<1>5. /\ f1 \in [Ordinals(l) -> Nat] /\ g1 \in [Ordinals(l) -> Nat]
      /\ f2 \in [Ordinals(l) -> Nat] /\ g2 \in [Ordinals(l) -> Nat]
      /\ f3 \in [Ordinals(l) -> Nat] /\ g3 \in [Ordinals(l) -> Nat]
  BY <1>3, <1>4
<1>6. \A m \in Ordinals(l) \ {n} : g1[m] = f1[m] /\ g2[m] = f2[m] /\ g3[m] = f3[m]
  BY <1>2
<1>7. /\ f1[n] = Held(at[n]) /\ g1[n] = Held(a)
      /\ f2[n] = Paid(at[n]) /\ g2[n] = Paid(a)
      /\ f3[n] = Portion(at[n]) /\ g3[n] = Portion(a)
  BY <1>2
<1>8. /\ Reserved(l, bt) = Sum(g1) /\ Reserved(l, at) = Sum(f1)
      /\ Settled(l, bt) = Sum(g2) /\ Settled(l, at) = Sum(f2)
      /\ LegacyPledge(l, bt) = Sum(g3) /\ LegacyPledge(l, at) = Sum(f3)
  <2>1. Reserved(l, bt) = Sum(g1)  BY DEF Reserved
  <2>2. Reserved(l, at) = Sum(f1)  BY DEF Reserved
  <2>3. Settled(l, bt) = Sum(g2)  BY DEF Settled
  <2>4. Settled(l, at) = Sum(f2)  BY DEF Settled
  <2>5. LegacyPledge(l, bt) = Sum(g3)  BY DEF LegacyPledge
  <2>6. LegacyPledge(l, at) = Sum(f3)  BY DEF LegacyPledge
  <2> HIDE DEF f1, g1, f2, g2, f3, g3
  <2> QED  BY <2>1, <2>2, <2>3, <2>4, <2>5, <2>6
<1> HIDE DEF f1, g1, f2, g2, f3, g3
<1>9. Sum(g1) = Sum(f1) - f1[n] + g1[n]
  <2>1. f1 \in [Ordinals(l) -> Nat] /\ g1 \in [Ordinals(l) -> Nat]  BY <1>5
  <2>2. \A m \in Ordinals(l) \ {n} : g1[m] = f1[m]  BY <1>6
  <2> QED  BY ONLY <1>1, <2>1, <2>2, n \in Ordinals(l), SumOfChange
<1>10. Sum(g2) = Sum(f2) - f2[n] + g2[n]
  <2>1. f2 \in [Ordinals(l) -> Nat] /\ g2 \in [Ordinals(l) -> Nat]  BY <1>5
  <2>2. \A m \in Ordinals(l) \ {n} : g2[m] = f2[m]  BY <1>6
  <2> QED  BY ONLY <1>1, <2>1, <2>2, n \in Ordinals(l), SumOfChange
<1>11. Sum(g3) = Sum(f3) - f3[n] + g3[n]
  <2>1. f3 \in [Ordinals(l) -> Nat] /\ g3 \in [Ordinals(l) -> Nat]  BY <1>5
  <2>2. \A m \in Ordinals(l) \ {n} : g3[m] = f3[m]  BY <1>6
  <2> QED  BY ONLY <1>1, <2>1, <2>2, n \in Ordinals(l), SumOfChange
<1>12. Sum(f1) \in Nat /\ Sum(f2) \in Nat /\ Sum(f3) \in Nat  BY <1>1, <1>5, SumIsNat
<1> QED  BY <1>7, <1>8, <1>9, <1>10, <1>11, <1>12

\* The account of an operation in units after attempt n has changed to a and its
\* totals to t.
LEMMA TotalsFollow ==
  ASSUME ConstantsOK, NEW l \in Legacy, NEW at \in [Ordinals(l) -> AttemptRow],
         NEW n \in Ordinals(l), NEW a \in AttemptRow, NEW bt, OneMoves(l, at, n, a, bt),
         NEW b, NEW t, NEW u, LegacyAccount(l, t, at, b),
         Final(a) => a.cost = b[n], a.state # "planned",
         ~u.erased =>
            /\ ~t.erased
            /\ u.reserved = t.reserved - Held(at[n]) + Held(a)
            /\ u.settled = t.settled - Paid(at[n]) + Paid(a)
  PROVE  LegacyAccount(l, u, bt, b)
<1>1. \A m \in Ordinals(l) : bt[m] = IF m = n THEN a ELSE at[m]
  BY DEF OneMoves
<1>2. \A m \in Ordinals(l) : /\ Final(bt[m]) => bt[m].cost = b[m]
                             /\ bt[m].state = "planned" => b[m] = 0
  BY <1>1 DEF LegacyAccount
<1>3. ~t.erased => t.reserved = Reserved(l, at) /\ t.settled = Settled(l, at)
  BY DEF LegacyAccount, Reserved, Settled
<1>4. ~u.erased => u.reserved = Reserved(l, bt) /\ u.settled = Settled(l, bt)
  <2>1. /\ Reserved(l, bt) = Reserved(l, at) - Held(at[n]) + Held(a)
        /\ Settled(l, bt) = Settled(l, at) - Paid(at[n]) + Paid(a)
    BY ONLY OneAttempt, ConstantsOK, l \in Legacy, at \in [Ordinals(l) -> AttemptRow],
            n \in Ordinals(l), a \in AttemptRow, OneMoves(l, at, n, a, bt)
  <2> QED  BY <1>3, <2>1
<1> QED  BY <1>2, <1>4 DEF LegacyAccount, Reserved, Settled

LEMMA LegacyFacts ==
  ASSUME ConstantsOK, IInv, Books, NEW l \in Legacy
  PROVE  /\ l \in Operations /\ l \notin Runs
         /\ LegacyAccount(l, legacy[l], attempt[l], bill[l]) /\ legacy[l] \in TotalsRow
         /\ attempt[l] \in [Ordinals(l) -> AttemptRow] /\ bill[l] \in [Ordinals(l) -> Nat]
BY Types, OperationsFinite DEF Books, Operations

LEMMA ClaimRequestBooks ==
  ASSUME ConstantsOK, IInv, IInv', Books, NEW c \in Calls, NEW l \in Legacy, NEW n \in Ordinals(l),
         ClaimRequest(c, l, n)
  PROVE  Books'
<1> DEFINE a == [attempt[l][n] EXCEPT !.state = "started"]
           at == [attempt[l] EXCEPT ![n] = a]
           t == [legacy[l] EXCEPT !.reserved = @ + Quote]
           x == [phase |-> "send", run |-> l, ordinal |-> n]
<1>1. /\ l \in Operations /\ l \notin Runs
      /\ LegacyAccount(l, legacy[l], attempt[l], bill[l]) /\ legacy[l] \in TotalsRow
      /\ attempt[l] \in [Ordinals(l) -> AttemptRow]
  BY LegacyFacts
<1>2. /\ attempt' = [attempt EXCEPT ![l] = at] /\ legacy' = [legacy EXCEPT ![l] = t]
      /\ call' = [call EXCEPT ![c] = x] /\ UNCHANGED <<run, hold, bill, spent>>
      /\ attempt[l][n].state = "planned" /\ Budget + Quote <= Ceiling
  BY DEF ClaimRequest, world
<1>3. a \in AttemptRow /\ a.state = "started"  BY <1>1 DEF AttemptRow
<1>4. Quote \in Nat  BY DEF ConstantsOK
<1>5. t \in TotalsRow /\ t.erased = legacy[l].erased /\ t.settled = legacy[l].settled
      /\ t.reserved = legacy[l].reserved + Quote
  BY <1>1, <1>4 DEF TotalsRow
<1>6. \A m \in Ordinals(l) : at[m] = IF m = n THEN a ELSE attempt[l][m]  BY <1>1
<1>7. /\ \A o \in Operations : attempt'[o] = IF o = l THEN at ELSE attempt[o]
      /\ \A k \in Legacy : legacy'[k] = IF k = l THEN t ELSE legacy[k]
      /\ legacy' \in [Legacy -> TotalsRow] /\ spent' \in [Runs -> Nat]
  BY <1>2, <1>5, Types DEF Books
<1>8. x.run = l /\ x.ordinal = n  OBVIOUS
<1>9. /\ Pending(a) /\ ~Final(a) /\ ~Pending(attempt[l][n]) /\ ~Final(attempt[l][n])
      /\ Portion(attempt[l][n]) = 0 /\ Portion(a) = Quote
      /\ Held(a) = Quote /\ Held(attempt[l][n]) = 0 /\ Paid(a) = 0 /\ Paid(attempt[l][n]) = 0
  BY <1>2, <1>3 DEF Pending, Final, Portion, Held, Paid
<1>10. legacy[l].reserved \in Int /\ legacy[l].settled \in Int  BY <1>1 DEF TotalsRow
<1>11. LegacyAccount(l, t, at, bill[l])
  <2> HIDE DEF a, t, x
  <2>1. ~t.erased =>
           /\ ~legacy[l].erased
           /\ t.reserved = legacy[l].reserved - Held(attempt[l][n]) + Held(a)
           /\ t.settled = legacy[l].settled - Paid(attempt[l][n]) + Paid(a)
    BY <1>4, <1>5, <1>9, <1>10
  <2>2. (Final(a) => a.cost = bill[l][n]) /\ a.state # "planned"  BY <1>3, <1>9
  <2>3. /\ LegacyAccount(l, legacy[l], attempt[l], bill[l]) /\ a \in AttemptRow
        /\ attempt[l] \in [Ordinals(l) -> AttemptRow]
    BY <1>1, <1>3
  <2>4. OneMoves(l, attempt[l], n, a, at)  BY <1>6 DEF OneMoves
  <2> HIDE DEF at
  <2> QED  BY ONLY <2>4, <2>1, <2>2, <2>3, ConstantsOK, l \in Legacy, n \in Ordinals(l), TotalsFollow
<1>12. LegacyPledge(l, at) = LegacyPledge(l, attempt[l]) + Quote
  <2> HIDE DEF a, t, x
  <2>1. LegacyPledge(l, at) = LegacyPledge(l, attempt[l]) - Portion(attempt[l][n]) + Portion(a)
        /\ LegacyPledge(l, attempt[l]) \in Nat
    <3>1. attempt[l] \in [Ordinals(l) -> AttemptRow] /\ l \in Legacy /\ n \in Ordinals(l) /\ a \in AttemptRow
      BY <1>1, <1>3
    <3>2. OneMoves(l, attempt[l], n, a, at)  BY <1>6 DEF OneMoves
    <3> HIDE DEF at
    <3> QED  BY ONLY <3>1, <3>2, OneAttempt, ConstantsOK
  <2> QED  BY <1>4, <1>9, <2>1
<1> HIDE DEF a, at, t, x
<1>13. \A p \in Operations : \A m \in Ordinals(p) :
          attempt[p][m].state = "started" => attempt'[p][m].state = "started"
  BY <1>3, <1>6, <1>7
<1>14. attempt'[l][n].state = "started"  BY <1>1, <1>3, <1>6, <1>7
<1>15. SendingRight'
  <2>1. SendingRight /\ call' = [call EXCEPT ![c] = x] /\ attempt[l][n].state = "planned"
    BY <1>2 DEF Books
  <2> QED  BY ONLY <1>1, <1>8, <1>13, <1>14, <2>1, SendingStarts, IInv, c \in Calls, n \in Ordinals(l)
<1>16. Others(l)  BY <1>1, <1>2, <1>7 DEF Others
<1>17. /\ LegacyAccount(l, legacy'[l], attempt'[l], bill'[l])
       /\ LegacyPledge(l, attempt'[l]) = LegacyPledge(l, attempt[l]) + Quote
  BY <1>1, <1>2, <1>7, <1>11, <1>12
<1> QED  BY ONLY <1>2, <1>7, <1>15, <1>16, <1>17, LegacyBooks, ConstantsOK, IInv, IInv', Books, l \in Legacy

LEMMA FinishRequestBooks ==
  ASSUME ConstantsOK, IInv, IInv', Books, NEW c \in Calls, FinishRequest(c)
  PROVE  Books'
<1> DEFINE l == call[c].run
           n == call[c].ordinal
<1>1. /\ l \in Legacy /\ n \in Ordinals(l) /\ call[c].phase = "answer"
      /\ InFlight(c) /\ attempt[l][n].state = "started"
  BY CallFacts DEF FinishRequest, CallRight, Books, SendingRight, InFlight
<1>2. /\ l \in Operations /\ l \notin Runs
      /\ LegacyAccount(l, legacy[l], attempt[l], bill[l]) /\ legacy[l] \in TotalsRow
      /\ attempt[l] \in [Ordinals(l) -> AttemptRow] /\ bill[l] \in [Ordinals(l) -> Nat]
  BY <1>1, LegacyFacts
<1>3. UNCHANGED <<run, hold, bill, spent>> /\ call' = [call EXCEPT ![c] = Idle]
  BY DEF FinishRequest, Leave, world
<1>4. PICK a \in Answers(bill[l][n]) :
         \/ /\ Final(a) /\ ~legacy[l].erased
            /\ \E s \in {a.state, "overrun"}, v \in BOOLEAN :
                  /\ attempt' = [attempt EXCEPT ![l][n] = [a EXCEPT !.state = s]]
                  /\ legacy' = [legacy EXCEPT ![l] = [legacy[l] EXCEPT !.reserved = @ - Quote,
                                                         !.settled = @ + a.cost, !.overrun = v]]
         \/ /\ ~(Final(a) /\ ~legacy[l].erased)
            /\ attempt' = [attempt EXCEPT ![l][n] = a] /\ UNCHANGED legacy
  <2>1. PICK a \in Answers(bill[l][n]) :
           LET totals == [legacy[l] EXCEPT !.reserved = @ - Quote, !.settled = @ + a.cost]
               over == a.state = "overrun" \/ totals.reserved + totals.settled > LegacyLimit
           IN  IF Final(a) /\ ~legacy[l].erased
               THEN /\ attempt' = [attempt EXCEPT ![l][n] = [a EXCEPT !.state = IF over THEN "overrun" ELSE @]]
                    /\ legacy' = [legacy EXCEPT ![l] = [totals EXCEPT !.overrun = @ \/ over]]
               ELSE attempt' = [attempt EXCEPT ![l][n] = a] /\ UNCHANGED legacy
    BY DEF FinishRequest
  <2>2. CASE ~(Final(a) /\ ~legacy[l].erased)  BY <2>1, <2>2
  <2>3. CASE Final(a) /\ ~legacy[l].erased
    <3> DEFINE totals == [legacy[l] EXCEPT !.reserved = @ - Quote, !.settled = @ + a.cost]
               over == a.state = "overrun" \/ totals.reserved + totals.settled > LegacyLimit
               s == IF over THEN "overrun" ELSE a.state
               v == totals.overrun \/ over
    <3>1. /\ attempt' = [attempt EXCEPT ![l][n] = [a EXCEPT !.state = s]]
          /\ legacy' = [legacy EXCEPT ![l] = [totals EXCEPT !.overrun = v]]
      BY <2>1, <2>3
    <3>2. [totals EXCEPT !.overrun = v]
          = [legacy[l] EXCEPT !.reserved = @ - Quote, !.settled = @ + a.cost, !.overrun = v]
      <4> HIDE DEF v
      <4> QED  BY <1>2 DEF TotalsRow
    <3>3. s \in {a.state, "overrun"} /\ v \in BOOLEAN
      OBVIOUS
    <3> HIDE DEF s, v, totals, over
    <3> QED  BY <2>3, <3>1, <3>2, <3>3
  <2> QED  BY <2>2, <2>3
<1>5. a \in AttemptRow /\ (Final(a) => a.cost = bill[l][n])
      /\ a.state \notin {"planned", "started", "cancelled"}
  BY <1>1, <1>2, AnswersRow, AnswerFinal
<1>6. \E z \in AttemptRow : \E t \in TotalsRow :
         /\ attempt' = [attempt EXCEPT ![l] = [attempt[l] EXCEPT ![n] = z]]
         /\ legacy' = [legacy EXCEPT ![l] = t]
         /\ Final(z) => z.cost = bill[l][n]
         /\ z.state \notin {"planned", "started"}
         /\ ~t.erased => /\ ~legacy[l].erased
                         /\ t.reserved = legacy[l].reserved - Quote + Held(z)
                         /\ t.settled = legacy[l].settled + Paid(z)
  <2>1. Quote \in Nat /\ legacy[l].reserved \in Int /\ legacy[l].settled \in Int /\ a.cost \in Nat
    BY <1>2, <1>5 DEF ConstantsOK, TotalsRow, AttemptRow
  <2>2. CASE ~(Final(a) /\ ~legacy[l].erased)
    <3>1. attempt' = [attempt EXCEPT ![l] = [attempt[l] EXCEPT ![n] = a]]
      BY <1>4, <2>2
    <3>2. legacy' = [legacy EXCEPT ![l] = legacy[l]]
      BY <1>4, <2>2 DEF Books
    <3>3. ~legacy[l].erased => Held(a) = Quote /\ Paid(a) = 0
      BY <1>5, <2>2 DEF Pending, Held, Paid
    <3> HIDE DEF l, n
    <3> a \in AttemptRow /\ legacy[l] \in TotalsRow  BY <1>2, <1>5
    <3> WITNESS a \in AttemptRow
    <3> WITNESS legacy[l] \in TotalsRow
    <3> QED  BY <1>5, <2>1, <3>1, <3>2, <3>3
  <2>3. CASE Final(a) /\ ~legacy[l].erased
    <3>1. PICK s \in {a.state, "overrun"}, v \in BOOLEAN :
                  /\ attempt' = [attempt EXCEPT ![l][n] = [a EXCEPT !.state = s]]
                  /\ legacy' = [legacy EXCEPT ![l] = [legacy[l] EXCEPT !.reserved = @ - Quote,
                                                         !.settled = @ + a.cost, !.overrun = v]]
      BY <1>4, <2>3
    <3> DEFINE z == [a EXCEPT !.state = s]
               t == [legacy[l] EXCEPT !.reserved = @ - Quote, !.settled = @ + a.cost, !.overrun = v]
    <3>2. z \in AttemptRow /\ z.state = s /\ z.cost = a.cost  BY <1>5 DEF AttemptRow
    <3>3. Final(z) /\ Held(z) = 0 /\ Paid(z) = z.cost /\ z.state \notin {"planned", "started"}
      BY <1>5, <2>3, <3>2 DEF Final, Pending, Held, Paid
    <3>4. /\ t \in TotalsRow /\ t.reserved = legacy[l].reserved - Quote
          /\ t.settled = legacy[l].settled + a.cost
      <4> HIDE DEF l
      <4>1. v \in BOOLEAN  BY <3>1
      <4>2. legacy[l] \in TotalsRow  BY <1>2
      <4>3. legacy[l].reserved - Quote \in Int /\ legacy[l].settled + a.cost \in Int  BY <2>1
      <4> DEFINE u == legacy[l]
                 k == u.reserved - Quote
                 m == u.settled + a.cost
      <4>4. t = [u EXCEPT !.reserved = k, !.settled = m, !.overrun = v]  OBVIOUS
      <4>5. u \in TotalsRow /\ k \in Int /\ m \in Int  BY <4>2, <4>3
      <4>6. t \in TotalsRow /\ t.reserved = k /\ t.settled = m
        <5> HIDE DEF u, k, m, t
        <5> QED  BY ONLY <4>1, <4>4, <4>5 DEF TotalsRow
      <4> QED  BY <4>6
    <3>5. attempt' = [attempt EXCEPT ![l] = [attempt[l] EXCEPT ![n] = z]] /\ legacy' = [legacy EXCEPT ![l] = t]
      BY <3>1
    <3>6. z.cost = bill[l][n]  BY <1>5, <2>3, <3>2
    <3> HIDE DEF z, t, l, n
    <3> z \in AttemptRow /\ t \in TotalsRow  BY <3>2, <3>4
    <3> WITNESS z \in AttemptRow
    <3> WITNESS t \in TotalsRow
    <3> QED  BY <2>1, <2>3, <3>2, <3>3, <3>4, <3>5, <3>6
  <2> QED  BY <2>2, <2>3
<1>7. PICK z \in AttemptRow, t \in TotalsRow :
         /\ attempt' = [attempt EXCEPT ![l] = [attempt[l] EXCEPT ![n] = z]]
         /\ legacy' = [legacy EXCEPT ![l] = t]
         /\ Final(z) => z.cost = bill[l][n]
         /\ z.state \notin {"planned", "started"}
         /\ ~t.erased => /\ ~legacy[l].erased
                         /\ t.reserved = legacy[l].reserved - Quote + Held(z)
                         /\ t.settled = legacy[l].settled + Paid(z)
  BY <1>6
<1> DEFINE at == [attempt[l] EXCEPT ![n] = z]
<1>8. \A m \in Ordinals(l) : at[m] = IF m = n THEN z ELSE attempt[l][m]  BY <1>2
<1> HIDE DEF l, n
<1>9. /\ \A o \in Operations : attempt'[o] = IF o = l THEN at ELSE attempt[o]
      /\ \A k \in Legacy : legacy'[k] = IF k = l THEN t ELSE legacy[k]
      /\ legacy' \in [Legacy -> TotalsRow] /\ spent' \in [Runs -> Nat]
  BY <1>3, <1>7, Types DEF Books
<1>10. Quote \in Nat /\ legacy[l].reserved \in Int /\ legacy[l].settled \in Int /\ z.cost \in Nat
  BY <1>2 DEF ConstantsOK, TotalsRow, AttemptRow
<1>11. /\ Pending(attempt[l][n]) /\ ~Final(attempt[l][n]) /\ Portion(attempt[l][n]) = Quote
       /\ Held(attempt[l][n]) = Quote /\ Paid(attempt[l][n]) = 0
  BY <1>1 DEF Pending, Final, Portion, Held, Paid
<1>12. LegacyAccount(l, t, at, bill[l])
  <2>1. ~t.erased =>
           /\ ~legacy[l].erased
           /\ t.reserved = legacy[l].reserved - Held(attempt[l][n]) + Held(z)
           /\ t.settled = legacy[l].settled - Paid(attempt[l][n]) + Paid(z)
    <3>1. Held(z) \in Nat /\ Paid(z) \in Nat  BY UsedIsNat
    <3> QED  BY <1>7, <1>10, <1>11, <3>1
  <2>2. (Final(z) => z.cost = bill[l][n]) /\ z.state # "planned"  BY <1>7
  <2>3. /\ LegacyAccount(l, legacy[l], attempt[l], bill[l]) /\ z \in AttemptRow
        /\ attempt[l] \in [Ordinals(l) -> AttemptRow] /\ l \in Legacy /\ n \in Ordinals(l)
    BY <1>1, <1>2
  <2>4. OneMoves(l, attempt[l], n, z, at)  BY <1>8 DEF OneMoves
  <2> HIDE DEF at
  <2> QED  BY ONLY <2>4, <2>1, <2>2, <2>3, ConstantsOK, TotalsFollow
<1>13. LegacyPledge(l, at) <= LegacyPledge(l, attempt[l])
  <2>1. LegacyPledge(l, at) = LegacyPledge(l, attempt[l]) - Portion(attempt[l][n]) + Portion(z)
        /\ LegacyPledge(l, attempt[l]) \in Nat
    <3>1. /\ attempt[l] \in [Ordinals(l) -> AttemptRow] /\ l \in Legacy /\ n \in Ordinals(l)
          /\ z \in AttemptRow
      BY <1>1, <1>2
    <3>2. OneMoves(l, attempt[l], n, z, at)  BY <1>8 DEF OneMoves
    <3> HIDE DEF at
    <3> QED  BY ONLY <3>1, <3>2, OneAttempt, ConstantsOK
  <2>2. Portion(z) \in Nat /\ Portion(z) <= Quote  BY <1>10 DEF Portion
  <2> QED  BY <1>10, <1>11, <2>1, <2>2
<1> HIDE DEF at
<1>14. SendingRight'
  <2>1. \A d \in Calls : call'[d] = IF d = c THEN Idle ELSE call[d]  BY <1>3, Types
  <2>2. ASSUME NEW d \in Calls, InFlight(d)'
        PROVE  /\ InFlight(d) /\ call'[d].run = call[d].run /\ call'[d].ordinal = call[d].ordinal
               /\ attempt'[call[d].run][call[d].ordinal].state = "started"
    <3>1. d # c  BY <2>1, <2>2 DEF InFlight, Idle
    <3>2. call'[d] = call[d] /\ InFlight(d)  BY <2>1, <2>2, <3>1 DEF InFlight
    <3>3. /\ call[d].run \in Operations /\ call[d].ordinal \in Ordinals(call[d].run)
          /\ attempt[call[d].run][call[d].ordinal].state = "started"
      BY <3>2, CallFacts DEF CallRight, Books, SendingRight, InFlight
    <3>4. ~(call[d].run = l /\ call[d].ordinal = n)
      BY <1>1, <3>1, <3>2 DEF Books, SendingRight, l, n
    <3>5. attempt'[call[d].run][call[d].ordinal] = attempt[call[d].run][call[d].ordinal]
      BY <1>8, <1>9, <3>3, <3>4
    <3> QED  BY <3>2, <3>3, <3>5
  <2> QED  BY <2>2, SendingKept DEF Books
<1>15. Others(l)  BY <1>2, <1>3, <1>9 DEF Others
<1>16. /\ LegacyAccount(l, legacy'[l], attempt'[l], bill'[l])
       /\ LegacyPledge(l, attempt'[l]) <= LegacyPledge(l, attempt[l])
  BY <1>1, <1>2, <1>3, <1>9, <1>12, <1>13
<1> QED  BY ONLY <1>1, <1>9, <1>14, <1>15, <1>16, LegacyBooks, ConstantsOK, IInv, IInv', Books

-----------------------------------------------------------------------------
(* The theorems about money. *)

LEMMA BooksInit ==
  ASSUME ConstantsOK, Init
  PROVE  Books
<1>1. /\ \A r \in Runs : hold[r] = NoHold /\ spent[r] = 0 /\ run[r] = NoRow
      /\ \A o \in Operations : \A n \in Ordinals(o) : attempt[o][n] = Planned /\ bill[o][n] = 0
      /\ \A l \in Legacy : legacy[l] = NoTotals
      /\ \A c \in Calls : call[c] = Idle
      /\ spent \in [Runs -> Nat]
  BY DEF Init
<1>2. legacy \in [Legacy -> TotalsRow]  BY DEF Init, NoTotals, TotalsRow
<1>3. SendingRight  BY <1>1 DEF SendingRight, InFlight, Idle
<1>4. ~Final(Planned) /\ Held(Planned) = 0 /\ Paid(Planned) = 0 /\ Portion(Planned) = 0
  BY DEF Final, Pending, Planned, Portion, Held, Paid
<1>5. ASSUME NEW r \in Runs
      PROVE  /\ Account(r, hold[r], attempt[r], bill[r], spent[r])
             /\ run[r].status # "absent" => hold[r].state # "none"
  <2>1. r \in Operations  BY DEF Operations
  <2> QED  BY <1>1, <1>4, <2>1 DEF Account, NoHold, NoRow
<1>6. ASSUME NEW l \in Legacy
      PROVE  LegacyAccount(l, legacy[l], attempt[l], bill[l]) /\ LegacyPledge(l, attempt[l]) = 0
  <2> DEFINE f == [n \in Ordinals(l) |-> Held(attempt[l][n])]
             g == [n \in Ordinals(l) |-> Paid(attempt[l][n])]
             h == [n \in Ordinals(l) |-> Portion(attempt[l][n])]
  <2>1. l \in Operations /\ IsFiniteSet(Ordinals(l))  BY OrdinalsFinite DEF Operations
  <2>2. \A n \in Ordinals(l) : attempt[l][n] = Planned  BY <1>1, <2>1
  <2>3. \A n \in Ordinals(l) : f[n] = 0 /\ g[n] = 0 /\ h[n] = 0
    BY <1>4, <2>2
  <2>4. f \in [Ordinals(l) -> Nat] /\ g \in [Ordinals(l) -> Nat] /\ h \in [Ordinals(l) -> Nat]
    BY <1>4, <2>2
  <2>5. legacy[l].reserved = 0 /\ legacy[l].settled = 0  BY <1>1 DEF NoTotals
  <2>6. \A n \in Ordinals(l) : ~Final(attempt[l][n]) /\ bill[l][n] = 0
    BY <1>1, <1>4, <2>1, <2>2
  <2> HIDE DEF f, g, h
  <2>7. Sum(f) = 0 /\ Sum(g) = 0 /\ Sum(h) = 0  BY <2>1, <2>3, <2>4, SumOfZeros
  <2> QED  BY <2>5, <2>6, <2>7 DEF LegacyAccount, LegacyPledge, f, g, h
<1>7. Sum([o \in Operations |-> Pledged(o)]) <= Ceiling
  <2> DEFINE p == [o \in Operations |-> Pledged(o)]
  <2>1. \A o \in Operations : Pledged(o) = 0
    BY <1>1, <1>6 DEF Operations, Pledged, Pledge, NoHold
  <2>2. p \in [Operations -> Nat] /\ \A o \in Operations : p[o] = 0  BY <2>1
  <2> HIDE DEF p
  <2>3. Sum(p) = 0  BY <2>2, OperationsFinite, SumOfZeros
  <2> QED  BY <2>3 DEF p, ConstantsOK
<1> QED  BY <1>1, <1>2, <1>3, <1>5, <1>6, <1>7 DEF Books

LEMMA BooksStep ==
  ASSUME ConstantsOK, IInv, IInv', Books, [Next]_vars
  PROVE  Books'
<1>1. CASE UNCHANGED vars
  <2>1. UNCHANGED <<run, hold, attempt, bill, spent, legacy, call>>
    BY <1>1 DEF vars, money, world
  <2>2. \A c \in Calls : InFlight(c)' =>
           InFlight(c) /\ call'[c].run = call[c].run /\ call'[c].ordinal = call[c].ordinal
    BY <2>1 DEF InFlight
  <2> QED  BY <2>1, <2>2, QuietBooks
<1>2. ASSUME NEW r \in Runs,
             Create(r) \/ Cancel(r) \/ Erase(r) \/ SettleExhausted(r) \/ Reconcile(r) \/ BecomesStale(r)
      PROVE  Books'
  BY <1>2, CreateBooks, CancelBooks, RunOnlyBooks, SettleExhaustedBooks, ReconcileBooks
<1>3. ASSUME NEW c \in Calls, CallStep(c)
      PROVE  Books'
  BY <1>3, StepBooks, OutcomeBooks, EnterBooks, SendBooks, FinishAttemptBooks,
     FinishRequestBooks, ClaimAttemptBooks DEF CallStep
<1>4. ASSUME NEW c \in Calls, FailCallback(c) \/ FailCommit(c) \/ Crash(c)
      PROVE  Books'
  BY <1>4, StepBooks, OutcomeBooks
<1>5. ASSUME NEW c \in Calls, NEW r \in Runs, ClaimRun(c, r) \/ StartInline(c, r)
      PROVE  Books'
  BY <1>5, ClaimRunBooks, StartInlineBooks
<1>6. ASSUME NEW l \in Legacy,
             EraseLegacy(l) \/ \E c \in Calls, n \in Ordinals(l) : ClaimRequest(c, l, n)
      PROVE  Books'
  BY <1>6, EraseLegacyBooks, ClaimRequestBooks
<1> QED  BY <1>1, <1>2, <1>3, <1>4, <1>5, <1>6 DEF Next

\* The accounts of all operations are right, and what may have to be paid for all of
\* them is within the ceiling (finish_attempt, settle_delivery, reconciliation.apply).
THEOREM HoldsBooks == Spec => []Books
<1>1. Init => Books  BY BooksInit, ConstantsOK
<1>2. IInv /\ IInv' /\ Books /\ [Next]_vars => Books'  BY BooksStep, ConstantsOK
<1> QED  BY <1>1, <1>2, HoldsInvariance, PTL DEF Spec

\* A settled hold, and the totals of an operation in units that has nothing reserved,
\* state exactly what the provider and the own processing charged, also for requests
\* that answered after their run was cancelled, taken over or erased.
THEOREM HoldsSettledIsExact == Spec => []SettledIsExact
<1>1. ASSUME IInv, Books PROVE SettledIsExact
  <2>1. ASSUME NEW r \in Runs, hold[r].state = "settled" PROVE hold[r].amount = RealCost(r)
    BY <1>1, <2>1 DEF Books, Account, RealCost
  <2>2. ASSUME NEW l \in Legacy, ~legacy[l].erased, legacy[l].reserved = 0
        PROVE  legacy[l].settled = RealCost(l)
    <3> DEFINE f == [n \in Ordinals(l) |-> Held(attempt[l][n])]
               g == [n \in Ordinals(l) |-> Paid(attempt[l][n])]
               z == [n \in Ordinals(l) |-> 0]
    <3>1. /\ l \in Operations /\ l \notin Runs
          /\ LegacyAccount(l, legacy[l], attempt[l], bill[l]) /\ legacy[l] \in TotalsRow
          /\ attempt[l] \in [Ordinals(l) -> AttemptRow] /\ bill[l] \in [Ordinals(l) -> Nat]
      BY <1>1, LegacyFacts, ConstantsOK
    <3>2. IsFiniteSet(Ordinals(l))  BY <3>1, OrdinalsFinite, ConstantsOK
    <3>3. Quote \in Nat \ {0}  BY ConstantsOK DEF ConstantsOK
    <3>4. f \in [Ordinals(l) -> Nat] /\ z \in [Ordinals(l) -> Nat]
          /\ (\A n \in Ordinals(l) : z[n] <= f[n]) /\ (\A n \in Ordinals(l) : z[n] = 0)
      BY <3>1, <3>3, UsedIsNat, ConstantsOK
    <3>5. Sum(f) = 0 /\ legacy[l].settled = Sum(g)  BY <2>2, <3>1 DEF LegacyAccount
    <3>6. \A n \in Ordinals(l) : f[n] = 0
      <4> HIDE DEF f, z
      <4>1. Sum(z) = 0  BY <3>2, <3>4, SumOfZeros
      <4>2. Sum(z) = Sum(f) => \A n \in Ordinals(l) : z[n] = f[n]  BY <3>2, <3>4, SumOfLess
      <4> QED  BY <3>4, <3>5, <4>1, <4>2
    <3>7. \A n \in Ordinals(l) : ~Pending(attempt[l][n])  BY <3>3, <3>6 DEF Held
    <3>8. \A n \in Ordinals(l) : g[n] = bill[l][n]
      BY <3>1, <3>7 DEF Pending, LegacyAccount, Final, Paid
    <3>9. g = bill[l]
      <4>1. DOMAIN g = Ordinals(l) /\ g = [n \in Ordinals(l) |-> g[n]]  OBVIOUS
      <4>2. bill[l] = [n \in Ordinals(l) |-> bill[l][n]]  BY <3>1
      <4> HIDE DEF g
      <4> QED  BY <3>8, <4>1, <4>2
    <3>10. Sum(bill[l]) \in Nat  BY <3>1, <3>2, SumIsNat
    <3> HIDE DEF f, g, z
    <3> QED  BY <3>1, <3>5, <3>9, <3>10 DEF RealCost
  <2> QED  BY <2>1, <2>2 DEF SettledIsExact
<1> QED  BY <1>1, HoldsBooks, HoldsInvariance, PTL

\* What a request costs beyond a quote.
LEMMA OverQuote ==
  ASSUME NEW c \in Nat, NEW q \in Nat
  PROVE  Over(c, q) \in Nat /\ c <= q + Over(c, q) /\ (c <= q => Over(c, q) = 0)
BY DEF Over

\* An operation has cost no more than what is pledged for it, but for its excess.
LEMMA CostPledged ==
  ASSUME ConstantsOK, IInv, Books, NEW o \in Operations
  PROVE  /\ RealCost(o) \in Nat /\ Excess(o) \in Nat /\ Pledged(o) \in Nat
         /\ RealCost(o) <= Pledged(o) + Excess(o)
<1> DEFINE b == bill[o]
           e == [n \in Ordinals(o) |-> Over(bill[o][n], Quote)]
<1>1. /\ IsFiniteSet(Ordinals(o)) /\ Cardinality(Ordinals(o)) = Attempts[o] /\ Attempts[o] \in Nat
      /\ Quote \in Nat /\ Native \in Nat
  BY OrdinalsFinite DEF ConstantsOK
<1>2. b \in [Ordinals(o) -> Nat] /\ attempt[o] \in [Ordinals(o) -> AttemptRow]
  BY Types
<1>3. \A n \in Ordinals(o) : Over(b[n], Quote) \in Nat /\ b[n] <= Quote + Over(b[n], Quote)
  BY <1>1, <1>2, OverQuote
<1>4. e \in [Ordinals(o) -> Nat] /\ \A n \in Ordinals(o) : e[n] = Over(b[n], Quote)
  BY <1>3
<1>5. Excess(o) = Sum(e) + (IF o \in Runs THEN Over(spent[o], Native) ELSE 0)
      /\ RealCost(o) = Sum(b) + (IF o \in Runs THEN spent[o] ELSE 0)
  BY DEF Excess, RealCost
<1>6. Pledged(o) \in Nat  BY PledgesAreNat DEF Books, Account
<1> HIDE DEF b, e
<1>7. Sum(b) \in Nat /\ Sum(e) \in Nat  BY <1>1, <1>2, <1>4, SumIsNat
<1>8. CASE o \in Runs
  <2>1. /\ Account(o, hold[o], attempt[o], b, spent[o]) /\ HoldRow(hold[o])
        /\ spent[o] \in Nat /\ Reserve[o] \in Nat
    BY <1>8, AccountFacts DEF b
  <2>2. Reserve[o] >= Native + Attempts[o] * Quote  BY <1>8 DEF ConstantsOK
  <2>3. Over(spent[o], Native) \in Nat /\ spent[o] <= Native + Over(spent[o], Native)
    BY <1>1, <2>1, OverQuote
  <2>4. Pledged(o) = Pledge(o, hold[o])  BY <1>8 DEF Pledged
  <2>5. CASE hold[o].state = "none"
    <3>1. spent[o] = 0 /\ \A n \in Ordinals(o) : b[n] = 0  BY <2>1, <2>5 DEF Account
    <3>2. Sum(b) = 0  BY <1>1, <1>2, <3>1, SumOfZeros
    <3> QED  BY <1>5, <1>6, <1>7, <1>8, <2>3, <3>1, <3>2
  <2>6. CASE hold[o].state = "settled"
    <3>1. Pledged(o) = Sum(b) + spent[o]  BY <2>1, <2>4, <2>6 DEF Account, Pledge
    <3> QED  BY <1>5, <1>6, <1>7, <1>8, <2>1, <2>3, <3>1
  <2>7. CASE hold[o].state \notin {"none", "settled"}
    <3> DEFINE within == [n \in Ordinals(o) |-> IF b[n] > Quote THEN Quote ELSE b[n]]
    <3>1. /\ within \in [Ordinals(o) -> Nat] /\ \A n \in Ordinals(o) : within[n] <= Quote
          /\ \A n \in Ordinals(o) : b[n] = within[n] + e[n]
      BY <1>1, <1>2, <1>4 DEF Over
    <3> HIDE DEF within
    <3>2. Sum(within) <= Cardinality(Ordinals(o)) * Quote /\ Sum(within) \in Nat
      BY <1>1, <3>1, SumBounded
    <3>3. Sum(b) = Sum(within) + Sum(e)  BY <1>1, <1>2, <1>4, <3>1, SumOfSums
    <3>4. Attempts[o] * Quote \in Nat  BY <1>1
    <3>5. Sum(b) <= Attempts[o] * Quote + Sum(e)  BY <1>1, <1>7, <3>2, <3>3, <3>4
    <3>6. Pledged(o) = Reserve[o]  BY <2>4, <2>7 DEF Pledge
    <3> QED  BY <1>1, <1>5, <1>6, <1>7, <1>8, <2>1, <2>2, <2>3, <3>4, <3>5, <3>6
  <2> QED  BY <2>5, <2>6, <2>7
<1>9. CASE o \notin Runs
  <2> DEFINE p == [n \in Ordinals(o) |-> Portion(attempt[o][n])]
             t == [n \in Ordinals(o) |-> p[n] + e[n]]
  <2>1. o \in Legacy /\ LegacyAccount(o, legacy[o], attempt[o], b)
    BY <1>9 DEF Operations, Books, b
  <2>2. p \in [Ordinals(o) -> Nat]  BY <1>2, UsedIsNat
  <2>3. Pledged(o) = Sum(p)  BY <1>9 DEF Pledged, LegacyPledge
  <2>4. \A n \in Ordinals(o) : b[n] <= p[n] + e[n]
    <3> SUFFICES ASSUME NEW n \in Ordinals(o) PROVE b[n] <= Portion(attempt[o][n]) + e[n]
      OBVIOUS
    <3>1. /\ b[n] \in Nat /\ e[n] \in Nat /\ b[n] <= Quote + e[n]
          /\ Final(attempt[o][n]) => attempt[o][n].cost = b[n]
          /\ attempt[o][n].state = "planned" => b[n] = 0
      BY <1>2, <1>3, <1>4, <2>1 DEF LegacyAccount
    <3> QED  BY <1>1, <3>1 DEF Portion
  <2> HIDE DEF p
  <2>5. t \in [Ordinals(o) -> Nat] /\ (\A n \in Ordinals(o) : t[n] = p[n] + e[n])
        /\ \A n \in Ordinals(o) : b[n] <= t[n]
    BY <1>4, <2>2, <2>4
  <2> HIDE DEF t
  <2>6. Sum(t) = Sum(p) + Sum(e)  BY <1>1, <1>4, <2>2, <2>5, SumOfSums
  <2>7. Sum(b) <= Sum(t)  BY <1>1, <1>2, <2>5, SumOfLess
  <2> QED  BY <1>5, <1>6, <1>7, <1>9, <2>3, <2>6, <2>7
<1> QED  BY <1>8, <1>9

\* What all operations really cost is within the ceiling, but for what the provider
\* and the own processing charge beyond their quotes: a hold gives money back only
\* when nothing of it can still be charged (_hold_amount, assert_headroom).
THEOREM HoldsRealCostWithinBudget == Spec => []RealCostWithinBudget
<1>1. ASSUME IInv, Books PROVE RealCostWithinBudget
  <2> DEFINE real == [o \in Operations |-> RealCost(o)]
             excess == [o \in Operations |-> Excess(o)]
             pledged == [o \in Operations |-> Pledged(o)]
             both == [o \in Operations |-> pledged[o] + excess[o]]
  <2>1. \A o \in Operations : /\ RealCost(o) \in Nat /\ Excess(o) \in Nat /\ Pledged(o) \in Nat
                              /\ RealCost(o) <= Pledged(o) + Excess(o)
    BY <1>1, CostPledged, ConstantsOK
  <2>2. /\ real \in [Operations -> Nat] /\ excess \in [Operations -> Nat]
        /\ pledged \in [Operations -> Nat] /\ both \in [Operations -> Nat]
        /\ \A o \in Operations : real[o] <= both[o]
        /\ \A o \in Operations : both[o] = pledged[o] + excess[o]
    BY <2>1
  <2>3. Sum(pledged) <= Ceiling /\ Ceiling \in Nat  BY <1>1, ConstantsOK DEF Books, ConstantsOK
  <2> HIDE DEF real, excess, pledged, both
  <2>4. IsFiniteSet(Operations)  BY OperationsFinite, ConstantsOK
  <2>5. Sum(real) <= Sum(both)  BY <2>2, <2>4, SumOfLess
  <2>6. Sum(both) = Sum(pledged) + Sum(excess)  BY <2>2, <2>4, SumOfSums
  <2>7. Sum(real) \in Nat /\ Sum(both) \in Nat /\ Sum(pledged) \in Nat /\ Sum(excess) \in Nat
    BY <2>2, <2>4, SumIsNat
  <2>8. Sum(real) <= Ceiling + Sum(excess)  BY <2>3, <2>5, <2>6, <2>7
  <2> QED  BY <2>8 DEF RealCostWithinBudget, real, excess
<1> QED  BY <1>1, HoldsBooks, HoldsInvariance, PTL
=============================================================================
