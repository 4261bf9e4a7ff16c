------------------------ MODULE ResumeUploadsProofs ------------------------
(* What holds of one upload for any number of concurrent scans and cleanups, any
   number of claims and any number of faults: the safety properties of module
   ResumeUploads and that it implements Vault. *)
EXTENDS ResumeUploads, TLAPS

\* No longer on its way to a resume, and not there either.
Over(r) == r.state # "none" /\ ~Awaited(r) /\ ~Released(r)

Moves(old, new) ==
    /\ old.state # "none" /\ ~Awaited(old) => new.state # "none" /\ ~Awaited(new)
    /\ Over(old) => Over(new)

\* What a scan has not released has not been saved.
NotSavedBefore == row.state \in {"none"} \cup Active => saved = 0

\* A cleanup at work: what it retires nobody needs, and what it has retired is
\* closed for good.
CleanersRight ==
    \A c \in Cleaners :
        /\ tidy[c].phase # "idle" => row.state # "none" /\ ~Awaited(row)
        /\ tidy[c].phase # "idle" /\ ~tidy[c].live => Over(row)
        /\ tidy[c].orphaned => ~tidy[c].live
        /\ tidy[c].phase = "clean" => ~tidy[c].live
        /\ tidy[c].phase \in {"clean", "finish"} => quarantine = "marker"
        /\ tidy[c].phase = "finish" /\ ~tidy[c].live => clean = "marker"

\* The copy is there before anything refers to it, and is closed only afterwards.
CopyRight ==
    /\ clean = "marker" => Over(row)
    /\ \A s \in Scanners : /\ scan[s] \in {"pin", "read"} => quarantine # "absent"
                           /\ scan[s] = "release" => clean # "absent"
    /\ SavedSourceKept

ClosedRight ==
    /\ row.state = "purged" => quarantine = "marker" /\ clean = "marker"
    /\ work.quarantineClosed => quarantine = "marker"
    /\ work.cleanClosed \/ work.retired => clean = "marker"

\* Ended uploads have a cleanup, which waits a day only once its work is done.
WorkRight ==
    /\ row.state \in Ended \cup {"released"} => work.exists
    /\ work.next = "later" => quarantine = "marker" /\ (clean = "marker" \/ Released(row))

IInv == TypeOK /\ NotSavedBefore /\ CleanersRight /\ CopyRight /\ ClosedRight /\ WorkRight

\* An upload that ended or expired never comes back, whoever takes the step.
LEMMA RowMoves ==
    ASSUME TypeOK, [Next]_vars
    PROVE  Moves(row, row')
<1> USE DEF Moves, Over, Awaited, Released, Active, TypeOK, Row
<1>1. CASE Create
  BY <1>1 DEF Create, NoRow, store, calls
<1>2. CASE Upload
  BY <1>2 DEF Upload, calls, Payload
<1>3. CASE Complete
  BY <1>3 DEF Complete, Ensured, store, calls
<1>4. CASE Cancel
  BY <1>4 DEF Cancel, RowExists, Ensured, store, calls
<1>5. CASE DeleteResume
  BY <1>5 DEF DeleteResume, Ensured, Unlinked, store, calls
<1>6. CASE EraseAccount
  BY <1>6 DEF EraseAccount, RowExists, Ensured, Unlinked, store, calls
<1>7. CASE Sweep
  BY <1>7 DEF Sweep, RowExists, Ended, Ensured, store, calls, Overdue
<1>8. CASE Expire
  BY <1>8 DEF Expire, RowExists, store, calls
<1>9. CASE ScanLeaseLapses
  BY <1>9 DEF ScanLeaseLapses, store, calls, Fault
<1>10. CASE WorkLeaseLapses
  BY <1>10 DEF WorkLeaseLapses, store, calls, Fault
<1>11. CASE BecomesDue
  BY <1>11 DEF BecomesDue, store, calls
<1>12. ASSUME NEW s \in Scanners, Claim(s) PROVE Moves(row, row')
  BY <1>12 DEF Claim, Ensured, Goto, store, Exhausted
<1>13. ASSUME NEW s \in Scanners, StoreFails(s) PROVE Moves(row, row')
  BY <1>13 DEF StoreFails, Goto, Fault
<1>14. ASSUME NEW s \in Scanners, InspectObject(s) PROVE Moves(row, row')
  BY <1>14 DEF InspectObject, Goto, store, Payload
<1>15. ASSUME NEW s \in Scanners, Check(s) PROVE Moves(row, row')
  BY <1>15 DEF Check, Goto, store, Current
<1>16. ASSUME NEW s \in Scanners, ReadAndScan(s) PROVE Moves(row, row')
  BY <1>16 DEF ReadAndScan, Goto, store
<1>17. ASSUME NEW s \in Scanners, PutClean(s) PROVE Moves(row, row')
  BY <1>17 DEF PutClean, Goto
<1>18. ASSUME NEW s \in Scanners, Release(s) PROVE Moves(row, row')
  BY <1>18 DEF Release, Ensured, Goto, store, Current
<1>19. ASSUME NEW s \in Scanners, Lose(s) PROVE Moves(row, row')
  BY <1>19 DEF Lose, RowExists, Ensured, Goto, store
<1>20. ASSUME NEW s \in Scanners, Fail(s) PROVE Moves(row, row')
  BY <1>20 DEF Fail, RowExists, Ensured, Goto, store, Exhausted
<1>21. ASSUME NEW s \in Scanners, CrashScan(s) PROVE Moves(row, row')
  BY <1>21 DEF CrashScan, Goto, store, Fault
<1>22. ASSUME NEW c \in Cleaners, ClaimWork(c) PROVE Moves(row, row')
  BY <1>22 DEF ClaimWork, RowExists, store
<1>23. ASSUME NEW c \in Cleaners, RetireQuarantine(c) PROVE Moves(row, row')
  BY <1>23 DEF RetireQuarantine, To, Retired
<1>24. ASSUME NEW c \in Cleaners, RetireClean(c) PROVE Moves(row, row')
  BY <1>24 DEF RetireClean, To, Retired
<1>25. ASSUME NEW c \in Cleaners, RetireFails(c) PROVE Moves(row, row')
  BY <1>25 DEF RetireFails, To, Fault, Retired
<1>26. ASSUME NEW c \in Cleaners, Postpone(c) PROVE Moves(row, row')
  BY <1>26 DEF Postpone, Resting, store
<1>27. ASSUME NEW c \in Cleaners, Finish(c) PROVE Moves(row, row')
  BY <1>27 DEF Finish, RowExists, NoRow, NoWork, Resting, store, Again
<1>28. ASSUME NEW c \in Cleaners, CrashCleanup(c) PROVE Moves(row, row')
  BY <1>28 DEF CrashCleanup, Resting, store, Fault
<1>29. CASE UNCHANGED vars
  BY <1>29 DEF vars, store, calls
<1> QED BY <1>1, <1>2, <1>3, <1>4, <1>5, <1>6, <1>7, <1>8, <1>9, <1>10, <1>11, <1>12, <1>13,
           <1>14, <1>15, <1>16, <1>17, <1>18, <1>19, <1>20, <1>21, <1>22, <1>23, <1>24, <1>25,
           <1>26, <1>27, <1>28, <1>29 DEF Next, ScanStep, CleanupStep, Time

\* What a scan reads is there: it has been inspected, and nobody removes it.
LEMMA ReadsObject ==
    ASSUME TypeOK, CopyRight, NEW s \in Scanners, scan[s] = "read"
    PROVE  quarantine \in {"good", "bad", "marker"}
<1>1. quarantine # "absent"
  BY DEF CopyRight
<1> QED BY <1>1 DEF TypeOK, Payload

\* The rows that purging leaves behind.
LEMMA ResetTyped == [NoRow EXCEPT !.state = "purged"] \in Row /\ NoWork \in Work
<1>1. [NoRow EXCEPT !.state = "purged"] \in Row
  <2>1. 0 \in 0 .. MaxAttempts
    BY ConstantsOK
  <2>2. NoRow \in Row
    BY <2>1 DEF NoRow, Row
  <2> QED BY <2>2 DEF Row
<1>2. NoWork \in Work
  BY DEF NoWork, Work
<1> QED BY <1>1, <1>2

\* Every step keeps the types.
LEMMA TypeStep ==
    ASSUME TypeOK, NotSavedBefore, CopyRight, [Next]_vars
    PROVE  TypeOK'
<1> USE ConstantsOK DEF TypeOK, Row, Work, ScanPhase, Tidy, Payload, Active, Ended
<1>1. CASE Create
  <2>1. row' \in Row
    <3>1. row' = [state |-> "awaiting_upload", owner |-> TRUE, resume |-> FALSE, token |-> Nobody,
                  leased |-> FALSE, tries |-> 0, expired |-> FALSE]
      BY <1>1 DEF Create, NoRow, store, calls
    <3> QED BY <3>1
  <2>2. work' \in Work
    BY <1>1 DEF Create, NoRow, store, calls
  <2>3. /\ UNCHANGED <<quarantine, clean>>
        /\ scan' \in [Scanners -> ScanPhase] /\ tidy' \in [Cleaners -> Tidy]
    BY <1>1 DEF Create, NoRow, store, calls
  <2>4. saved' \in 0..1 /\ faults' \in Nat
    BY <1>1 DEF Create, NoRow, store, calls
  <2> QED BY <2>1, <2>2, <2>3, <2>4
<1>2. CASE Upload
  BY <1>2 DEF Upload, calls
<1>3. CASE Complete
  <2>1. row' \in Row
    BY <1>3 DEF Complete, Ensured, store, calls
  <2>2. work' \in Work
    BY ZenonT(60), <1>3 DEF Complete, Ensured, store, calls
  <2>3. /\ UNCHANGED <<quarantine, clean>>
        /\ scan' \in [Scanners -> ScanPhase] /\ tidy' \in [Cleaners -> Tidy]
    BY <1>3 DEF Complete, Ensured, store, calls
  <2>4. saved' \in 0..1 /\ faults' \in Nat
    BY <1>3 DEF Complete, Ensured, store, calls
  <2> QED BY <2>1, <2>2, <2>3, <2>4
<1>4. CASE Cancel
  BY <1>4 DEF Cancel, RowExists, Ensured, store, calls
<1>5. CASE DeleteResume
  BY <1>5 DEF DeleteResume, Ensured, Unlinked, store, calls
<1>6. CASE EraseAccount
  BY <1>6 DEF EraseAccount, RowExists, Ensured, Unlinked, store, calls
<1>7. CASE Sweep
  <2>1. row' \in Row
    BY ZenonT(60), <1>7 DEF Sweep, RowExists, Ensured, store, calls, Overdue
  <2>2. work' \in Work
    BY <1>7 DEF Sweep, RowExists, Ensured, store, calls, Overdue
  <2>3. /\ UNCHANGED <<quarantine, clean>>
        /\ scan' \in [Scanners -> ScanPhase] /\ tidy' \in [Cleaners -> Tidy]
    BY <1>7 DEF Sweep, RowExists, Ensured, store, calls, Overdue
  <2>4. saved' \in 0..1 /\ faults' \in Nat
    BY <1>7 DEF Sweep, RowExists, Ensured, store, calls, Overdue
  <2> QED BY <2>1, <2>2, <2>3, <2>4
<1>8. CASE Expire
  BY ZenonT(60), <1>8 DEF Expire, RowExists, store, calls
<1>9. CASE ScanLeaseLapses
  <2>1. row' \in Row
    BY <1>9 DEF ScanLeaseLapses, store, calls, Fault
  <2>2. work' \in Work
    BY <1>9 DEF ScanLeaseLapses, store, calls, Fault
  <2>3. /\ UNCHANGED <<quarantine, clean>>
        /\ scan' \in [Scanners -> ScanPhase] /\ tidy' \in [Cleaners -> Tidy]
    BY <1>9 DEF ScanLeaseLapses, store, calls, Fault
  <2>4. saved' \in 0..1 /\ faults' \in Nat
    BY <1>9 DEF ScanLeaseLapses, store, calls, Fault
  <2> QED BY <2>1, <2>2, <2>3, <2>4
<1>10. CASE WorkLeaseLapses
  <2>1. row' \in Row
    BY <1>10 DEF WorkLeaseLapses, store, calls, Fault
  <2>2. work' \in Work
    BY <1>10 DEF WorkLeaseLapses, store, calls, Fault
  <2>3. /\ UNCHANGED <<quarantine, clean>>
        /\ scan' \in [Scanners -> ScanPhase] /\ tidy' \in [Cleaners -> Tidy]
    BY <1>10 DEF WorkLeaseLapses, store, calls, Fault
  <2>4. saved' \in 0..1 /\ faults' \in Nat
    BY <1>10 DEF WorkLeaseLapses, store, calls, Fault
  <2> QED BY <2>1, <2>2, <2>3, <2>4
<1>11. CASE BecomesDue
  BY <1>11 DEF BecomesDue, store, calls
<1>12. ASSUME NEW s \in Scanners, Claim(s) PROVE TypeOK'
  <2>1. row' \in Row
    <3>1. CASE Exhausted(row)
      BY <1>12, <3>1 DEF Claim, Ensured, Goto, store, Exhausted
    <3>2. CASE ~Exhausted(row)
      <4>1. row.tries + 1 \in 0 .. MaxAttempts
        BY <3>2 DEF Exhausted
      <4>2. row' = [row EXCEPT !.state = "inspecting", !.token = s, !.leased = TRUE,
                               !.tries = row.tries + 1]
        BY <1>12, <3>2 DEF Claim, Ensured, Goto, store, Exhausted
      <4> QED BY <4>1, <4>2
    <3> QED BY <3>1, <3>2
  <2>2. work' \in Work
    BY ZenonT(60), <1>12 DEF Claim, Ensured, Goto, store, Exhausted
  <2>3. /\ UNCHANGED <<quarantine, clean>>
        /\ scan' \in [Scanners -> ScanPhase] /\ tidy' \in [Cleaners -> Tidy]
    BY <1>12 DEF Claim, Ensured, Goto, store, Exhausted
  <2>4. saved' \in 0..1 /\ faults' \in Nat
    BY <1>12 DEF Claim, Ensured, Goto, store, Exhausted
  <2> QED BY <2>1, <2>2, <2>3, <2>4
<1>13. ASSUME NEW s \in Scanners, StoreFails(s) PROVE TypeOK'
  BY <1>13 DEF StoreFails, Goto, Fault
<1>14. ASSUME NEW s \in Scanners, InspectObject(s) PROVE TypeOK'
  BY <1>14 DEF InspectObject, Goto, store
<1>15. ASSUME NEW s \in Scanners, Check(s) PROVE TypeOK'
  BY <1>15 DEF Check, Goto, store, Current
<1>16. ASSUME NEW s \in Scanners, ReadAndScan(s) PROVE TypeOK'
  <2>1. row' \in Row
    BY <1>16 DEF ReadAndScan, Goto, store
  <2>2. work' \in Work
    BY <1>16 DEF ReadAndScan, Goto, store
  <2>3. /\ UNCHANGED <<quarantine, clean>>
        /\ scan' \in [Scanners -> ScanPhase] /\ tidy' \in [Cleaners -> Tidy]
    <3>0. scan[s] = "read"
      BY <1>16 DEF ReadAndScan, Goto, store
    <3>1. quarantine \in {"good", "bad", "marker"}
      BY <3>0, ReadsObject
    <3>2. PICK answer \in {"check", "refused", "unavailable"} : scan' = [scan EXCEPT ![s] = answer]
      BY <1>16, <3>1 DEF ReadAndScan, Goto, store
    <3> QED BY <1>16, <3>2 DEF ReadAndScan, Goto, store
  <2>4. saved' \in 0..1 /\ faults' \in Nat
    BY <1>16 DEF ReadAndScan, Goto, store
  <2> QED BY <2>1, <2>2, <2>3, <2>4
<1>17. ASSUME NEW s \in Scanners, PutClean(s) PROVE TypeOK'
  BY <1>17 DEF PutClean, Goto
<1>18. ASSUME NEW s \in Scanners, Release(s) PROVE TypeOK'
  <2>1. row' \in Row
    <3>1. CASE Current(s)
      <4>1. row' = [row EXCEPT !.state = "released", !.resume = TRUE, !.token = Nobody,
                               !.leased = FALSE]
        BY <1>18, <3>1 DEF Release, Ensured, Goto, store, Current
      <4> QED BY <4>1
    <3>2. CASE ~Current(s)
      BY <1>18, <3>2 DEF Release, Ensured, Goto, store, Current
    <3> QED BY <3>1, <3>2
  <2>2. work' \in Work
    BY ZenonT(60), <1>18 DEF Release, Ensured, Goto, store, Current
  <2>3. /\ UNCHANGED <<quarantine, clean>>
        /\ scan' \in [Scanners -> ScanPhase] /\ tidy' \in [Cleaners -> Tidy]
    BY <1>18 DEF Release, Ensured, Goto, store, Current
  <2>4. saved' \in 0..1 /\ faults' \in Nat
    BY <1>18 DEF Release, Ensured, Goto, store, Current, NotSavedBefore
  <2> QED BY <2>1, <2>2, <2>3, <2>4
<1>19. ASSUME NEW s \in Scanners, Lose(s) PROVE TypeOK'
  <2>1. row' \in Row
    BY <1>19 DEF Lose, RowExists, Ensured, Goto, store
  <2>2. work' \in Work
    BY <1>19 DEF Lose, RowExists, Ensured, Goto, store
  <2>3. /\ UNCHANGED <<quarantine, clean>>
        /\ scan' \in [Scanners -> ScanPhase] /\ tidy' \in [Cleaners -> Tidy]
    BY <1>19 DEF Lose, RowExists, Ensured, Goto, store
  <2>4. saved' \in 0..1 /\ faults' \in Nat
    BY <1>19 DEF Lose, RowExists, Ensured, Goto, store
  <2> QED BY <2>1, <2>2, <2>3, <2>4
<1>20. ASSUME NEW s \in Scanners, Fail(s) PROVE TypeOK'
  BY ZenonT(60), <1>20 DEF Fail, RowExists, Ensured, Goto, store, Exhausted
<1>21. ASSUME NEW s \in Scanners, CrashScan(s) PROVE TypeOK'
  BY <1>21 DEF CrashScan, Goto, store, Fault
<1>22. ASSUME NEW c \in Cleaners, ClaimWork(c) PROVE TypeOK'
  BY ZenonT(60), <1>22 DEF ClaimWork, Awaited, Released, RowExists, store
<1>23. ASSUME NEW c \in Cleaners, RetireQuarantine(c) PROVE TypeOK'
  BY <1>23 DEF RetireQuarantine, To, Retired
<1>24. ASSUME NEW c \in Cleaners, RetireClean(c) PROVE TypeOK'
  BY <1>24 DEF RetireClean, To, Retired
<1>25. ASSUME NEW c \in Cleaners, RetireFails(c) PROVE TypeOK'
  BY <1>25 DEF RetireFails, To, Fault, Retired
<1>26. ASSUME NEW c \in Cleaners, Postpone(c) PROVE TypeOK'
  <2>1. row' \in Row
    BY <1>26 DEF Postpone, Resting, store
  <2>2. work' \in Work
    BY <1>26 DEF Postpone, Resting, store
  <2>3. /\ UNCHANGED <<quarantine, clean>>
        /\ scan' \in [Scanners -> ScanPhase] /\ tidy' \in [Cleaners -> Tidy]
    BY <1>26 DEF Postpone, Resting, store
  <2>4. saved' \in 0..1 /\ faults' \in Nat
    BY <1>26 DEF Postpone, Resting, store
  <2> QED BY <2>1, <2>2, <2>3, <2>4
<1>27. ASSUME NEW c \in Cleaners, Finish(c) PROVE TypeOK'
  <2>1. row' \in Row
    <3>1. row' \in {row, [NoRow EXCEPT !.state = "purged"]}
      BY <1>27 DEF Finish, RowExists, NoRow, NoWork, Resting, store, Again, Released
    <3> QED BY <3>1, ResetTyped
  <2>2. work' \in Work
    <3>1. CASE ~(RowExists /\ work.token = c)
      BY <1>27, <3>1 DEF Finish, RowExists, NoRow, NoWork, Resting, store, Again, Released
    <3>2. CASE RowExists /\ work.token = c /\ tidy[c].orphaned
      <4>1. work' = NoWork
        BY <1>27, <3>2 DEF Finish, RowExists, NoRow, NoWork, Resting, store, Again, Released
      <4> QED BY <4>1, ResetTyped
    <3>3. CASE RowExists /\ work.token = c /\ ~tidy[c].orphaned
      <4>1. PICK next \in {"now", "later"}, cl \in BOOLEAN, re \in BOOLEAN :
              work' = [work EXCEPT !.token = Nobody, !.leased = FALSE, !.next = next,
                                   !.quarantineClosed = TRUE, !.cleanClosed = cl, !.retired = re]
        BY <1>27, <3>3 DEF Finish, RowExists, NoRow, NoWork, Resting, store, Again, Released
      <4> QED BY <4>1
    <3> QED BY <3>1, <3>2, <3>3
  <2>3. /\ UNCHANGED <<quarantine, clean>>
        /\ scan' \in [Scanners -> ScanPhase] /\ tidy' \in [Cleaners -> Tidy]
    BY <1>27 DEF Finish, RowExists, NoRow, NoWork, Resting, store, Again, Released
  <2>4. saved' \in 0..1 /\ faults' \in Nat
    BY <1>27 DEF Finish, RowExists, NoRow, NoWork, Resting, store, Again, Released
  <2> QED BY <2>1, <2>2, <2>3, <2>4
<1>28. ASSUME NEW c \in Cleaners, CrashCleanup(c) PROVE TypeOK'
  BY <1>28 DEF CrashCleanup, Resting, store, Fault
<1>29. CASE UNCHANGED vars
  BY <1>29 DEF vars, store, calls
<1> QED BY <1>1, <1>2, <1>3, <1>4, <1>5, <1>6, <1>7, <1>8, <1>9, <1>10, <1>11, <1>12, <1>13,
           <1>14, <1>15, <1>16, <1>17, <1>18, <1>19, <1>20, <1>21, <1>22, <1>23, <1>24, <1>25,
           <1>26, <1>27, <1>28, <1>29 DEF Next, ScanStep, CleanupStep, Time

\* Only Release saves a resume, and it leaves the active states.
LEMMA SavedStep ==
    ASSUME TypeOK, NotSavedBefore, [Next]_vars
    PROVE  NotSavedBefore'
<1> USE DEF TypeOK, Row, NotSavedBefore, Active
<1>1. CASE Create
  BY <1>1 DEF Create, NoRow, store, calls
<1>2. CASE Upload
  BY <1>2 DEF Upload, calls, Payload
<1>3. CASE Complete
  BY <1>3 DEF Complete, Ensured, store, calls
<1>4. CASE Cancel
  BY <1>4 DEF Cancel, RowExists, Ensured, store, calls
<1>5. CASE DeleteResume
  BY <1>5 DEF DeleteResume, Ensured, Unlinked, store, calls
<1>6. CASE EraseAccount
  BY <1>6 DEF EraseAccount, RowExists, Ensured, Unlinked, store, calls
<1>7. CASE Sweep
  BY <1>7 DEF Sweep, RowExists, Ended, Ensured, store, calls, Overdue
<1>8. CASE Expire
  BY <1>8 DEF Expire, RowExists, store, calls
<1>9. CASE ScanLeaseLapses
  BY <1>9 DEF ScanLeaseLapses, store, calls, Fault
<1>10. CASE WorkLeaseLapses
  BY <1>10 DEF WorkLeaseLapses, store, calls, Fault
<1>11. CASE BecomesDue
  BY <1>11 DEF BecomesDue, store, calls
<1>12. ASSUME NEW s \in Scanners, Claim(s) PROVE NotSavedBefore'
  BY <1>12 DEF Claim, Ensured, Goto, store, Exhausted
<1>13. ASSUME NEW s \in Scanners, StoreFails(s) PROVE NotSavedBefore'
  BY <1>13 DEF StoreFails, Goto, Fault
<1>14. ASSUME NEW s \in Scanners, InspectObject(s) PROVE NotSavedBefore'
  BY <1>14 DEF InspectObject, Goto, store, Payload
<1>15. ASSUME NEW s \in Scanners, Check(s) PROVE NotSavedBefore'
  BY <1>15 DEF Check, Goto, store, Current
<1>16. ASSUME NEW s \in Scanners, ReadAndScan(s) PROVE NotSavedBefore'
  BY <1>16 DEF ReadAndScan, Goto, store
<1>17. ASSUME NEW s \in Scanners, PutClean(s) PROVE NotSavedBefore'
  BY <1>17 DEF PutClean, Goto
<1>18. ASSUME NEW s \in Scanners, Release(s) PROVE NotSavedBefore'
  <2>1. CASE Current(s)
    <3>1. row'.state = "released"
      BY <1>18, <2>1 DEF Release
    <3> QED BY <3>1
  <2>2. CASE ~Current(s)
    BY <1>18, <2>2 DEF Release
  <2> QED BY <2>1, <2>2
<1>19. ASSUME NEW s \in Scanners, Lose(s) PROVE NotSavedBefore'
  BY <1>19 DEF Lose, RowExists, Ensured, Goto, store
<1>20. ASSUME NEW s \in Scanners, Fail(s) PROVE NotSavedBefore'
  BY <1>20 DEF Fail, RowExists, Ensured, Goto, store, Exhausted
<1>21. ASSUME NEW s \in Scanners, CrashScan(s) PROVE NotSavedBefore'
  BY <1>21 DEF CrashScan, Goto, store, Fault
<1>22. ASSUME NEW c \in Cleaners, ClaimWork(c) PROVE NotSavedBefore'
  BY <1>22 DEF ClaimWork, Awaited, Released, RowExists, store
<1>23. ASSUME NEW c \in Cleaners, RetireQuarantine(c) PROVE NotSavedBefore'
  BY <1>23 DEF RetireQuarantine, To, Retired
<1>24. ASSUME NEW c \in Cleaners, RetireClean(c) PROVE NotSavedBefore'
  BY <1>24 DEF RetireClean, To, Retired
<1>25. ASSUME NEW c \in Cleaners, RetireFails(c) PROVE NotSavedBefore'
  BY <1>25 DEF RetireFails, To, Fault, Retired
<1>26. ASSUME NEW c \in Cleaners, Postpone(c) PROVE NotSavedBefore'
  BY <1>26 DEF Postpone, Resting, store
<1>27. ASSUME NEW c \in Cleaners, Finish(c) PROVE NotSavedBefore'
  BY <1>27 DEF Finish, RowExists, NoRow, NoWork, Resting, store, Again, Released
<1>28. ASSUME NEW c \in Cleaners, CrashCleanup(c) PROVE NotSavedBefore'
  BY <1>28 DEF CrashCleanup, Resting, store, Fault
<1>29. CASE UNCHANGED vars
  BY <1>29 DEF vars, store, calls
<1> QED BY <1>1, <1>2, <1>3, <1>4, <1>5, <1>6, <1>7, <1>8, <1>9, <1>10, <1>11, <1>12, <1>13,
           <1>14, <1>15, <1>16, <1>17, <1>18, <1>19, <1>20, <1>21, <1>22, <1>23, <1>24, <1>25,
           <1>26, <1>27, <1>28, <1>29 DEF Next, ScanStep, CleanupStep, Time

\* No step revives what a cleanup at work retires, and none reopens what it has closed.
LEMMA CleanersStep ==
    ASSUME TypeOK, CleanersRight, CopyRight, Moves(row, row'), [Next]_vars
    PROVE  CleanersRight'
<1> USE DEF TypeOK, Tidy, CleanersRight, Moves, Over, Awaited, Released, Active
<1>1. CASE Create
  BY <1>1 DEF Create, NoRow, store, calls
<1>2. CASE Upload
  BY <1>2 DEF Upload, calls, Payload
<1>3. CASE Complete
  BY <1>3 DEF Complete, Ensured, store, calls, Row
<1>4. CASE Cancel
  BY <1>4 DEF Cancel, RowExists, Ensured, store, calls
<1>5. CASE DeleteResume
  BY <1>5 DEF DeleteResume, Ensured, Unlinked, store, calls
<1>6. CASE EraseAccount
  BY <1>6 DEF EraseAccount, RowExists, Ensured, Unlinked, store, calls
<1>7. CASE Sweep
  BY <1>7 DEF Sweep, RowExists, Ended, Ensured, store, calls, Overdue
<1>8. CASE Expire
  BY <1>8 DEF Expire, RowExists, store, calls
<1>9. CASE ScanLeaseLapses
  BY <1>9 DEF ScanLeaseLapses, store, calls, Fault
<1>10. CASE WorkLeaseLapses
  BY <1>10 DEF WorkLeaseLapses, store, calls, Fault
<1>11. CASE BecomesDue
  BY <1>11 DEF BecomesDue, store, calls
<1>12. ASSUME NEW s \in Scanners, Claim(s) PROVE CleanersRight'
  BY <1>12 DEF Claim, Ensured, Goto, store, Exhausted
<1>13. ASSUME NEW s \in Scanners, StoreFails(s) PROVE CleanersRight'
  BY <1>13 DEF StoreFails, Goto, Fault
<1>14. ASSUME NEW s \in Scanners, InspectObject(s) PROVE CleanersRight'
  BY <1>14 DEF InspectObject, Goto, store, Payload
<1>15. ASSUME NEW s \in Scanners, Check(s) PROVE CleanersRight'
  BY <1>15 DEF Check, Goto, store, Current
<1>16. ASSUME NEW s \in Scanners, ReadAndScan(s) PROVE CleanersRight'
  BY <1>16 DEF ReadAndScan, Goto, store
<1>17. ASSUME NEW s \in Scanners, PutClean(s) PROVE CleanersRight'
  BY <1>17 DEF PutClean, Goto
<1>18. ASSUME NEW s \in Scanners, Release(s) PROVE CleanersRight'
  BY <1>18 DEF Release, Ensured, Goto, store, Current, Row
<1>19. ASSUME NEW s \in Scanners, Lose(s) PROVE CleanersRight'
  BY <1>19 DEF Lose, RowExists, Ensured, Goto, store
<1>20. ASSUME NEW s \in Scanners, Fail(s) PROVE CleanersRight'
  BY <1>20 DEF Fail, RowExists, Ensured, Goto, store, Exhausted
<1>21. ASSUME NEW s \in Scanners, CrashScan(s) PROVE CleanersRight'
  BY <1>21 DEF CrashScan, Goto, store, Fault
<1>22. ASSUME NEW c \in Cleaners, ClaimWork(c) PROVE CleanersRight'
  BY <1>22 DEF ClaimWork, RowExists, store
<1>23. ASSUME NEW c \in Cleaners, RetireQuarantine(c) PROVE CleanersRight'
  BY <1>23 DEF RetireQuarantine, To, Retired
<1>24. ASSUME NEW c \in Cleaners, RetireClean(c) PROVE CleanersRight'
  BY <1>24 DEF RetireClean, To, Retired
<1>25. ASSUME NEW c \in Cleaners, RetireFails(c) PROVE CleanersRight'
  BY <1>25 DEF RetireFails, To, Fault, Retired
<1>26. ASSUME NEW c \in Cleaners, Postpone(c) PROVE CleanersRight'
  BY <1>26 DEF Postpone, Resting, store
<1>27. ASSUME NEW c \in Cleaners, Finish(c) PROVE CleanersRight'
  BY <1>27 DEF Finish, RowExists, NoRow, NoWork, Resting, store, Again
<1>28. ASSUME NEW c \in Cleaners, CrashCleanup(c) PROVE CleanersRight'
  BY <1>28 DEF CrashCleanup, Resting, store, Fault
<1>29. CASE UNCHANGED vars
  BY <1>29 DEF vars, store, calls
<1> QED BY <1>1, <1>2, <1>3, <1>4, <1>5, <1>6, <1>7, <1>8, <1>9, <1>10, <1>11, <1>12, <1>13,
           <1>14, <1>15, <1>16, <1>17, <1>18, <1>19, <1>20, <1>21, <1>22, <1>23, <1>24, <1>25,
           <1>26, <1>27, <1>28, <1>29 DEF Next, ScanStep, CleanupStep, Time

\* No step closes the copy of a resume that is there or that a scan can still release.
LEMMA CopyStep ==
    ASSUME TypeOK, CleanersRight, CopyRight, Moves(row, row'), [Next]_vars
    PROVE  CopyRight'
<1> USE DEF TypeOK, CopyRight, SavedSourceKept, CleanersRight, Moves, Over, Awaited, Released,
            Active
<1>1. CASE Create
  BY <1>1 DEF Create, NoRow, store, calls
<1>2. CASE Upload
  BY <1>2 DEF Upload, calls, Payload
<1>3. CASE Complete
  BY <1>3 DEF Complete, Ensured, store, calls, Row
<1>4. CASE Cancel
  BY <1>4 DEF Cancel, RowExists, Ensured, store, calls
<1>5. CASE DeleteResume
  BY <1>5 DEF DeleteResume, Ensured, Unlinked, store, calls
<1>6. CASE EraseAccount
  BY <1>6 DEF EraseAccount, RowExists, Ensured, Unlinked, store, calls
<1>7. CASE Sweep
  BY <1>7 DEF Sweep, RowExists, Ended, Ensured, store, calls, Overdue
<1>8. CASE Expire
  BY <1>8 DEF Expire, RowExists, store, calls
<1>9. CASE ScanLeaseLapses
  BY <1>9 DEF ScanLeaseLapses, store, calls, Fault
<1>10. CASE WorkLeaseLapses
  BY <1>10 DEF WorkLeaseLapses, store, calls, Fault
<1>11. CASE BecomesDue
  BY <1>11 DEF BecomesDue, store, calls
<1>12. ASSUME NEW s \in Scanners, Claim(s) PROVE CopyRight'
  <2>1. ~Released(row) /\ ~Released(row)' /\ UNCHANGED <<quarantine, clean>>
    BY <1>12 DEF Claim, Ensured, Goto, store, Exhausted, Row
  <2>2. \E phase \in {scan[s], "inspect"} : scan' = [scan EXCEPT ![s] = phase]
    BY <1>12 DEF Claim, Ensured, Goto, store, Exhausted, Row
  <2> QED BY <2>1, <2>2
<1>13. ASSUME NEW s \in Scanners, StoreFails(s) PROVE CopyRight'
  BY <1>13 DEF StoreFails, Goto, Fault
<1>14. ASSUME NEW s \in Scanners, InspectObject(s) PROVE CopyRight'
  BY <1>14 DEF InspectObject, Goto, store, Payload
<1>15. ASSUME NEW s \in Scanners, Check(s) PROVE CopyRight'
  BY <1>15 DEF Check, Goto, store, Current
<1>16. ASSUME NEW s \in Scanners, ReadAndScan(s) PROVE CopyRight'
  <2>1. scan[s] = "read" /\ UNCHANGED <<row, quarantine, clean>>
    BY <1>16 DEF ReadAndScan, Goto, store
  <2>2. quarantine \in {"good", "bad", "marker"}
    BY <2>1, ReadsObject
  <2>3. PICK answer \in {"check", "refused", "unavailable"} : scan' = [scan EXCEPT ![s] = answer]
    BY <1>16, <2>2 DEF ReadAndScan, Goto, store
  <2> QED BY <2>1, <2>3
<1>17. ASSUME NEW s \in Scanners, PutClean(s) PROVE CopyRight'
  BY <1>17 DEF PutClean, Goto
<1>18. ASSUME NEW s \in Scanners, Release(s) PROVE CopyRight'
  BY <1>18 DEF Release, Ensured, Goto, store, Current
<1>19. ASSUME NEW s \in Scanners, Lose(s) PROVE CopyRight'
  BY <1>19 DEF Lose, RowExists, Ensured, Goto, store
<1>20. ASSUME NEW s \in Scanners, Fail(s) PROVE CopyRight'
  BY <1>20 DEF Fail, RowExists, Ensured, Goto, store, Exhausted
<1>21. ASSUME NEW s \in Scanners, CrashScan(s) PROVE CopyRight'
  BY <1>21 DEF CrashScan, Goto, store, Fault
<1>22. ASSUME NEW c \in Cleaners, ClaimWork(c) PROVE CopyRight'
  BY <1>22 DEF ClaimWork, RowExists, store
<1>23. ASSUME NEW c \in Cleaners, RetireQuarantine(c) PROVE CopyRight'
  BY <1>23 DEF RetireQuarantine, To, Retired
<1>24. ASSUME NEW c \in Cleaners, RetireClean(c) PROVE CopyRight'
  BY <1>24 DEF RetireClean, To, Retired
<1>25. ASSUME NEW c \in Cleaners, RetireFails(c) PROVE CopyRight'
  BY <1>25 DEF RetireFails, To, Fault, Retired
<1>26. ASSUME NEW c \in Cleaners, Postpone(c) PROVE CopyRight'
  BY <1>26 DEF Postpone, Resting, store
<1>27. ASSUME NEW c \in Cleaners, Finish(c) PROVE CopyRight'
  BY <1>27 DEF Finish, RowExists, NoRow, NoWork, Resting, store, Again
<1>28. ASSUME NEW c \in Cleaners, CrashCleanup(c) PROVE CopyRight'
  BY <1>28 DEF CrashCleanup, Resting, store, Fault
<1>29. CASE UNCHANGED vars
  BY <1>29 DEF vars, store, calls
<1> QED BY <1>1, <1>2, <1>3, <1>4, <1>5, <1>6, <1>7, <1>8, <1>9, <1>10, <1>11, <1>12, <1>13,
           <1>14, <1>15, <1>16, <1>17, <1>18, <1>19, <1>20, <1>21, <1>22, <1>23, <1>24, <1>25,
           <1>26, <1>27, <1>28, <1>29 DEF Next, ScanStep, CleanupStep, Time

\* The rows record a place as closed only when a cleanup has closed it.
LEMMA ClosedStep ==
    ASSUME TypeOK, CleanersRight, ClosedRight, [Next]_vars
    PROVE  ClosedRight'
<1> USE DEF TypeOK, Work, Tidy, ClosedRight, CleanersRight, Over, Payload
<1>1. CASE Create
  BY <1>1 DEF Create, NoRow, store, calls
<1>2. CASE Upload
  BY <1>2 DEF Upload, calls
<1>3. CASE Complete
  BY <1>3 DEF Complete, Ensured, store, calls, Row
<1>4. CASE Cancel
  BY <1>4 DEF Cancel, RowExists, Ensured, store, calls
<1>5. CASE DeleteResume
  BY <1>5 DEF DeleteResume, Ensured, Unlinked, store, calls
<1>6. CASE EraseAccount
  BY <1>6 DEF EraseAccount, RowExists, Ensured, Unlinked, store, calls
<1>7. CASE Sweep
  BY <1>7 DEF Sweep, RowExists, Active, Ended, Ensured, store, calls, Overdue
<1>8. CASE Expire
  BY <1>8 DEF Expire, RowExists, store, calls
<1>9. CASE ScanLeaseLapses
  BY <1>9 DEF ScanLeaseLapses, store, calls, Fault
<1>10. CASE WorkLeaseLapses
  BY <1>10 DEF WorkLeaseLapses, store, calls, Fault
<1>11. CASE BecomesDue
  BY <1>11 DEF BecomesDue, store, calls
<1>12. ASSUME NEW s \in Scanners, Claim(s) PROVE ClosedRight'
  BY <1>12 DEF Claim, Ensured, Goto, store, Exhausted, Row
<1>13. ASSUME NEW s \in Scanners, StoreFails(s) PROVE ClosedRight'
  BY <1>13 DEF StoreFails, Goto, Fault
<1>14. ASSUME NEW s \in Scanners, InspectObject(s) PROVE ClosedRight'
  BY <1>14 DEF InspectObject, Goto, store
<1>15. ASSUME NEW s \in Scanners, Check(s) PROVE ClosedRight'
  BY <1>15 DEF Check, Goto, store, Current
<1>16. ASSUME NEW s \in Scanners, ReadAndScan(s) PROVE ClosedRight'
  BY <1>16 DEF ReadAndScan, Goto, store
<1>17. ASSUME NEW s \in Scanners, PutClean(s) PROVE ClosedRight'
  BY <1>17 DEF PutClean, Goto
<1>18. ASSUME NEW s \in Scanners, Release(s) PROVE ClosedRight'
  BY <1>18 DEF Release, Ensured, Goto, store, Current, Row
<1>19. ASSUME NEW s \in Scanners, Lose(s) PROVE ClosedRight'
  BY <1>19 DEF Lose, RowExists, Ensured, Goto, store
<1>20. ASSUME NEW s \in Scanners, Fail(s) PROVE ClosedRight'
  BY <1>20 DEF Fail, RowExists, Active, Ensured, Goto, store, Exhausted
<1>21. ASSUME NEW s \in Scanners, CrashScan(s) PROVE ClosedRight'
  BY <1>21 DEF CrashScan, Goto, store, Fault
<1>22. ASSUME NEW c \in Cleaners, ClaimWork(c) PROVE ClosedRight'
  BY <1>22 DEF ClaimWork, Awaited, Active, Released, RowExists, store
<1>23. ASSUME NEW c \in Cleaners, RetireQuarantine(c) PROVE ClosedRight'
  BY <1>23 DEF RetireQuarantine, To, Retired
<1>24. ASSUME NEW c \in Cleaners, RetireClean(c) PROVE ClosedRight'
  BY <1>24 DEF RetireClean, To, Retired
<1>25. ASSUME NEW c \in Cleaners, RetireFails(c) PROVE ClosedRight'
  BY <1>25 DEF RetireFails, To, Fault, Retired
<1>26. ASSUME NEW c \in Cleaners, Postpone(c) PROVE ClosedRight'
  BY <1>26 DEF Postpone, Resting, store
<1>27. ASSUME NEW c \in Cleaners, Finish(c) PROVE ClosedRight'
  BY <1>27 DEF Finish, RowExists, NoRow, NoWork, Resting, store, Again, Released
<1>28. ASSUME NEW c \in Cleaners, CrashCleanup(c) PROVE ClosedRight'
  BY <1>28 DEF CrashCleanup, Resting, store, Fault
<1>29. CASE UNCHANGED vars
  BY <1>29 DEF vars, store, calls
<1> QED BY <1>1, <1>2, <1>3, <1>4, <1>5, <1>6, <1>7, <1>8, <1>9, <1>10, <1>11, <1>12, <1>13,
           <1>14, <1>15, <1>16, <1>17, <1>18, <1>19, <1>20, <1>21, <1>22, <1>23, <1>24, <1>25,
           <1>26, <1>27, <1>28, <1>29 DEF Next, ScanStep, CleanupStep, Time

\* Whoever ends an upload leaves its cleanup due; only a finished one waits a day.
LEMMA WorkStep ==
    ASSUME TypeOK, CleanersRight, WorkRight, [Next]_vars
    PROVE  WorkRight'
<1> USE DEF TypeOK, Row, Work, Tidy, WorkRight, CleanersRight, Over, Awaited, Released, Active,
            Ended
<1>1. CASE Create
  BY <1>1 DEF Create, NoRow, store, calls
<1>2. CASE Upload
  BY <1>2 DEF Upload, calls, Payload
<1>3. CASE Complete
  BY <1>3 DEF Complete, Ensured, store, calls
<1>4. CASE Cancel
  BY <1>4 DEF Cancel, RowExists, Ensured, store, calls
<1>5. CASE DeleteResume
  BY <1>5 DEF DeleteResume, Ensured, Unlinked, store, calls
<1>6. CASE EraseAccount
  BY <1>6 DEF EraseAccount, RowExists, Ensured, Unlinked, store, calls
<1>7. CASE Sweep
  BY <1>7 DEF Sweep, RowExists, Ensured, store, calls, Overdue
<1>8. CASE Expire
  BY <1>8 DEF Expire, RowExists, store, calls
<1>9. CASE ScanLeaseLapses
  BY <1>9 DEF ScanLeaseLapses, store, calls, Fault
<1>10. CASE WorkLeaseLapses
  BY <1>10 DEF WorkLeaseLapses, store, calls, Fault
<1>11. CASE BecomesDue
  BY <1>11 DEF BecomesDue, store, calls
<1>12. ASSUME NEW s \in Scanners, Claim(s) PROVE WorkRight'
  BY ZenonT(60), <1>12 DEF Claim, Ensured, Goto, store, Exhausted
<1>13. ASSUME NEW s \in Scanners, StoreFails(s) PROVE WorkRight'
  BY <1>13 DEF StoreFails, Goto, Fault
<1>14. ASSUME NEW s \in Scanners, InspectObject(s) PROVE WorkRight'
  BY <1>14 DEF InspectObject, Goto, store, Payload
<1>15. ASSUME NEW s \in Scanners, Check(s) PROVE WorkRight'
  BY <1>15 DEF Check, Goto, store, Current
<1>16. ASSUME NEW s \in Scanners, ReadAndScan(s) PROVE WorkRight'
  BY <1>16 DEF ReadAndScan, Goto, store
<1>17. ASSUME NEW s \in Scanners, PutClean(s) PROVE WorkRight'
  BY <1>17 DEF PutClean, Goto
<1>18. ASSUME NEW s \in Scanners, Release(s) PROVE WorkRight'
  BY <1>18 DEF Release, Ensured, Goto, store, Current
<1>19. ASSUME NEW s \in Scanners, Lose(s) PROVE WorkRight'
  BY <1>19 DEF Lose, RowExists, Ensured, Goto, store
<1>20. ASSUME NEW s \in Scanners, Fail(s) PROVE WorkRight'
  BY <1>20 DEF Fail, RowExists, Ensured, Goto, store, Exhausted
<1>21. ASSUME NEW s \in Scanners, CrashScan(s) PROVE WorkRight'
  BY <1>21 DEF CrashScan, Goto, store, Fault
<1>22. ASSUME NEW c \in Cleaners, ClaimWork(c) PROVE WorkRight'
  BY <1>22 DEF ClaimWork, RowExists, store
<1>23. ASSUME NEW c \in Cleaners, RetireQuarantine(c) PROVE WorkRight'
  BY <1>23 DEF RetireQuarantine, To, Retired
<1>24. ASSUME NEW c \in Cleaners, RetireClean(c) PROVE WorkRight'
  BY <1>24 DEF RetireClean, To, Retired
<1>25. ASSUME NEW c \in Cleaners, RetireFails(c) PROVE WorkRight'
  BY <1>25 DEF RetireFails, To, Fault, Retired
<1>26. ASSUME NEW c \in Cleaners, Postpone(c) PROVE WorkRight'
  BY <1>26 DEF Postpone, Resting, store
<1>27. ASSUME NEW c \in Cleaners, Finish(c) PROVE WorkRight'
  <2>1. CASE ~(RowExists /\ work.token = c)
    BY <1>27, <2>1 DEF Finish, RowExists, NoRow, NoWork, Resting, store, Again
  <2>2. CASE RowExists /\ work.token = c /\ tidy[c].orphaned
    BY <1>27, <2>2 DEF Finish, RowExists, NoRow, NoWork, Resting, store, Again
  <2>3. CASE RowExists /\ work.token = c /\ ~tidy[c].orphaned
    <3>1. /\ quarantine = "marker" /\ (~tidy[c].live => clean = "marker")
          /\ UNCHANGED <<row, quarantine, clean>>
      BY <1>27, <2>3 DEF Finish, RowExists, NoRow, NoWork, Resting, store, Again
    <3>2. PICK next \in {"now", "later"}, cl \in BOOLEAN, re \in BOOLEAN :
            /\ work' = [work EXCEPT !.token = Nobody, !.leased = FALSE, !.next = next,
                                    !.quarantineClosed = TRUE, !.cleanClosed = cl, !.retired = re]
            /\ Again(c) => next = "now"
      BY <1>27, <2>3 DEF Finish, RowExists, NoRow, NoWork, Resting, store, Again
    <3>3. work'.exists = work.exists /\ work'.next = next
      BY <3>2
    <3> QED BY <3>1, <3>2, <3>3 DEF Again
  <2> QED BY <2>1, <2>2, <2>3
<1>28. ASSUME NEW c \in Cleaners, CrashCleanup(c) PROVE WorkRight'
  BY <1>28 DEF CrashCleanup, Resting, store, Fault
<1>29. CASE UNCHANGED vars
  BY <1>29 DEF vars, store, calls
<1> QED BY <1>1, <1>2, <1>3, <1>4, <1>5, <1>6, <1>7, <1>8, <1>9, <1>10, <1>11, <1>12, <1>13,
           <1>14, <1>15, <1>16, <1>17, <1>18, <1>19, <1>20, <1>21, <1>22, <1>23, <1>24, <1>25,
           <1>26, <1>27, <1>28, <1>29 DEF Next, ScanStep, CleanupStep, Time

-----------------------------------------------------------------------------
(* The invariants. *)

\* The inductive invariant holds in every reachable state, whatever the number of
\* scans, cleanups, claims and faults.
THEOREM UploadInvariance == Spec => []IInv
<1>1. Init => IInv
  <2>1. 0 \in 0 .. MaxAttempts
    BY ConstantsOK
  <2> QED BY <2>1 DEF Init, IInv, TypeOK, NotSavedBefore, CleanersRight, CopyRight,
             SavedSourceKept,
                   ClosedRight, WorkRight, NoRow, NoWork, Resting, Row, Work, ScanPhase, Tidy,
                   Payload, Released, Over, Awaited, Active, Ended
<1>2. IInv /\ [Next]_vars => IInv'
  <2> SUFFICES ASSUME IInv, [Next]_vars PROVE IInv'
    OBVIOUS
  <2>1. TypeOK /\ NotSavedBefore /\ CleanersRight /\ CopyRight /\ ClosedRight /\ WorkRight
    BY DEF IInv
  <2>2. Moves(row, row')
    BY <2>1, RowMoves
  <2>3. TypeOK'
    BY <2>1, TypeStep
  <2>4. NotSavedBefore'
    BY <2>1, SavedStep
  <2>5. CleanersRight'
    BY <2>1, <2>2, CleanersStep
  <2>6. CopyRight'
    BY <2>1, <2>2, CopyStep
  <2>7. ClosedRight'
    BY <2>1, ClosedStep
  <2>8. WorkRight'
    BY <2>1, WorkStep
  <2> QED BY <2>3, <2>4, <2>5, <2>6, <2>7, <2>8 DEF IInv
<1> QED BY <1>1, <1>2, PTL DEF Spec

\* Every variable keeps its type: three claims at most, one resume at most
\* (process, _failure).
THEOREM UploadTypeCorrect == Spec => []TypeOK
<1>1. IInv => TypeOK
  BY DEF IInv
<1> QED BY <1>1, UploadInvariance, PTL

\* No cleanup takes the object of a resume that is there (run_cleanup).
THEOREM UploadSourceKept == Spec => []SavedSourceKept
<1>1. IInv => SavedSourceKept
  BY DEF IInv, CopyRight
<1> QED BY <1>1, UploadInvariance, PTL

\* What the cleanup has recorded as closed is closed, after a late PUT or a late
\* write of a scan too, and after the rows are gone (retire, put_clean).
THEOREM UploadClosedStaysClosed == Spec => []ClosedStaysClosed
<1>1. IInv => ClosedStaysClosed
  BY DEF IInv, ClosedRight, ClosedStaysClosed, Payload
<1> QED BY <1>1, UploadInvariance, PTL

\* Whoever ends an upload, its cleanup is due or retried until both places are
\* closed (ensure_cleanup, run_cleanup, the unlink trigger).
THEOREM UploadRetiredPromptly == Spec => []RetiredPromptly
<1>1. IInv => RetiredPromptly
  BY DEF IInv, WorkRight, RetiredPromptly, Released
<1> QED BY <1>1, UploadInvariance, PTL

-----------------------------------------------------------------------------
(* The refinement. *)

\* Every step of the uploads is a step of the vault, or none.
LEMMA VaultStep ==
    ASSUME IInv, [Next]_vars
    PROVE  V!Next \/ UNCHANGED V!vars
<1> USE DEF IInv, TypeOK, CopyRight, SavedSourceKept, CleanersRight, Over, Awaited, Released,
            Active, Payload, V!Next, V!Arrive, V!Copy, V!Publish, V!End, V!CloseQuarantine,
            V!CloseClean, V!vars
<1>1. CASE Create
  BY <1>1 DEF Create, NoRow, store, calls
<1>2. CASE Upload
  BY <1>2 DEF Upload, calls
<1>3. CASE Complete
  BY <1>3 DEF Complete, Ensured, store, calls, Row
<1>4. CASE Cancel
  BY <1>4 DEF Cancel, RowExists, Ensured, store, calls
<1>5. CASE DeleteResume
  BY <1>5 DEF DeleteResume, Ensured, Unlinked, store, calls
<1>6. CASE EraseAccount
  BY <1>6 DEF EraseAccount, RowExists, Ensured, Unlinked, store, calls
<1>7. CASE Sweep
  BY <1>7 DEF Sweep, RowExists, Ended, Ensured, store, calls, Overdue
<1>8. CASE Expire
  BY <1>8 DEF Expire, RowExists, store, calls
<1>9. CASE ScanLeaseLapses
  BY <1>9 DEF ScanLeaseLapses, store, calls, Fault
<1>10. CASE WorkLeaseLapses
  BY <1>10 DEF WorkLeaseLapses, store, calls, Fault
<1>11. CASE BecomesDue
  BY <1>11 DEF BecomesDue, store, calls
<1>12. ASSUME NEW s \in Scanners, Claim(s) PROVE V!Next \/ UNCHANGED V!vars
  BY <1>12 DEF Claim, Ensured, Goto, store, Exhausted, Row
<1>13. ASSUME NEW s \in Scanners, StoreFails(s) PROVE V!Next \/ UNCHANGED V!vars
  BY <1>13 DEF StoreFails, Goto, Fault
<1>14. ASSUME NEW s \in Scanners, InspectObject(s) PROVE V!Next \/ UNCHANGED V!vars
  BY <1>14 DEF InspectObject, Goto, store
<1>15. ASSUME NEW s \in Scanners, Check(s) PROVE V!Next \/ UNCHANGED V!vars
  BY <1>15 DEF Check, Goto, store, Current
<1>16. ASSUME NEW s \in Scanners, ReadAndScan(s) PROVE V!Next \/ UNCHANGED V!vars
  BY <1>16 DEF ReadAndScan, Goto, store
<1>17. ASSUME NEW s \in Scanners, PutClean(s) PROVE V!Next \/ UNCHANGED V!vars
  BY <1>17 DEF PutClean, Goto
<1>18. ASSUME NEW s \in Scanners, Release(s) PROVE V!Next \/ UNCHANGED V!vars
  BY <1>18 DEF Release, Ensured, Goto, store, Current
<1>19. ASSUME NEW s \in Scanners, Lose(s) PROVE V!Next \/ UNCHANGED V!vars
  BY <1>19 DEF Lose, RowExists, Ensured, Goto, store
<1>20. ASSUME NEW s \in Scanners, Fail(s) PROVE V!Next \/ UNCHANGED V!vars
  BY <1>20 DEF Fail, RowExists, Ensured, Goto, store, Exhausted
<1>21. ASSUME NEW s \in Scanners, CrashScan(s) PROVE V!Next \/ UNCHANGED V!vars
  BY <1>21 DEF CrashScan, Goto, store, Fault
<1>22. ASSUME NEW c \in Cleaners, ClaimWork(c) PROVE V!Next \/ UNCHANGED V!vars
  BY <1>22 DEF ClaimWork, RowExists, store
<1>23. ASSUME NEW c \in Cleaners, RetireQuarantine(c) PROVE V!Next \/ UNCHANGED V!vars
  BY <1>23 DEF RetireQuarantine, To, Retired
<1>24. ASSUME NEW c \in Cleaners, RetireClean(c) PROVE V!Next \/ UNCHANGED V!vars
  BY <1>24 DEF RetireClean, To, Retired
<1>25. ASSUME NEW c \in Cleaners, RetireFails(c) PROVE V!Next \/ UNCHANGED V!vars
  BY <1>25 DEF RetireFails, To, Fault, Retired
<1>26. ASSUME NEW c \in Cleaners, Postpone(c) PROVE V!Next \/ UNCHANGED V!vars
  BY <1>26 DEF Postpone, Resting, store
<1>27. ASSUME NEW c \in Cleaners, Finish(c) PROVE V!Next \/ UNCHANGED V!vars
  BY <1>27 DEF Finish, RowExists, NoRow, NoWork, Resting, store, Again
<1>28. ASSUME NEW c \in Cleaners, CrashCleanup(c) PROVE V!Next \/ UNCHANGED V!vars
  BY <1>28 DEF CrashCleanup, Resting, store, Fault
<1>29. CASE UNCHANGED vars
  BY <1>29 DEF vars, store, calls
<1> QED BY <1>1, <1>2, <1>3, <1>4, <1>5, <1>6, <1>7, <1>8, <1>9, <1>10, <1>11, <1>12, <1>13,
           <1>14, <1>15, <1>16, <1>17, <1>18, <1>19, <1>20, <1>21, <1>22, <1>23, <1>24, <1>25,
           <1>26, <1>27, <1>28, <1>29 DEF Next, ScanStep, CleanupStep, Time

\* The quarantine keeps the promise of module Vault.
THEOREM UploadImplementsVault == Spec => ImplementsVault
<1>1. Init => V!Init
  BY DEF Init, V!Init, NoRow, Payload
<1>2. IInv /\ [Next]_vars => [V!Next]_(V!vars)
  BY VaultStep
<1> QED BY <1>1, <1>2, UploadInvariance, PTL DEF Spec, ImplementsVault, V!Spec
=============================================================================
