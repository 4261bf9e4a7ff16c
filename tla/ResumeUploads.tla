--------------------------- MODULE ResumeUploads ---------------------------
(* One direct upload of a resume: the owner's requests (resume_uploads/
   service.py), the scan (tasks.py), the cleanup (privacy.py), the objects
   (storage.py) and the trigger that unlinks it from a deleted owner or resume
   (alembic 0014).

   A transaction is one step, and so is a call of the object store.  The
   browser holds a signed PUT for the quarantine object and may use it late. *)
EXTENDS Naturals

CONSTANTS
    Scanners,      \* concurrent calls of process
    Cleaners,      \* concurrent calls of run_cleanup
    Nobody,        \* no lease token
    MaxAttempts,   \* claims of an upload (3)
    MaxFaults      \* how often the environment misbehaves

ASSUME ConstantsOK ==
    /\ Nobody \notin Scanners \cup Cleaners
    /\ MaxAttempts \in Nat \ {0} /\ MaxFaults \in Nat

VARIABLES
    row,         \* resume_uploads
    work,        \* resume_upload_cleanups
    quarantine,  \* the object the browser writes
    clean,       \* the object the scan writes
    scan,        \* phase of every call of process
    tidy,        \* local state of every call of run_cleanup
    saved,       \* history: resumes created from this upload
    faults       \* faults so far

store == <<quarantine, clean>>
calls == <<scan, tidy>>
vars == <<row, work, store, calls, saved, faults>>

Active == {"awaiting_upload", "queued", "inspecting"}
Ended == {"rejected", "failed", "cancelled", "expired"}
Payload == {"good", "bad"} \* bytes that match what was declared, or do not

NoRow == [state |-> "none", owner |-> FALSE, resume |-> FALSE, token |-> Nobody,
          leased |-> FALSE, tries |-> 0, expired |-> FALSE]
NoWork == [exists |-> FALSE, next |-> "now", token |-> Nobody, leased |-> FALSE,
           quarantineClosed |-> FALSE, cleanClosed |-> FALSE, retired |-> FALSE]
Resting == [phase |-> "idle", live |-> FALSE, orphaned |-> FALSE]

Init ==
    /\ row = NoRow /\ work = NoWork
    /\ quarantine = "absent" /\ clean = "absent"
    /\ scan = [s \in Scanners |-> "idle"]
    /\ tidy = [c \in Cleaners |-> Resting]
    /\ saved = 0 /\ faults = 0

Fault == faults < MaxFaults /\ faults' = faults + 1
RowExists == row.state \notin {"none", "purged"}
Released(r) == r.state = "released" /\ r.owner /\ r.resume
Awaited(r) == r.state \in Active /\ r.owner /\ ~r.expired

\* ensure_cleanup, and what the trigger does to the same row.
Ensured(w) == [w EXCEPT !.exists = TRUE, !.next = "now", !.retired = FALSE]

-----------------------------------------------------------------------------
(* The owner and the browser. *)

Create ==
    /\ row.state = "none"
    /\ row' = [NoRow EXCEPT !.state = "awaiting_upload", !.owner = TRUE]
    /\ UNCHANGED <<work, store, calls, saved, faults>>

\* The signed PUT demands that no object is there (generation 0).
Upload ==
    /\ row.state # "none" /\ quarantine = "absent"
    /\ quarantine' \in Payload
    /\ UNCHANGED <<row, work, clean, calls, saved, faults>>

Complete ==
    /\ row.owner /\ row.state = "awaiting_upload"
    /\ IF row.expired
       THEN row' = [row EXCEPT !.state = "expired"] /\ work' = Ensured(work)
       ELSE row' = [row EXCEPT !.state = "queued"] /\ UNCHANGED work
    /\ UNCHANGED <<store, calls, saved, faults>>

Cancel ==
    /\ row.owner /\ RowExists /\ ~(row.state = "released" /\ row.resume)
    /\ row' = [row EXCEPT !.state = "cancelled", !.token = Nobody, !.leased = FALSE]
    /\ work' = Ensured(work)
    /\ UNCHANGED <<store, calls, saved, faults>>

\* resume_upload_unlink
Unlinked(r) == [r EXCEPT !.state = "cancelled", !.token = Nobody, !.leased = FALSE, !.resume = FALSE]

DeleteResume ==
    /\ row.resume
    /\ row' = Unlinked(row) /\ work' = Ensured(work)
    /\ UNCHANGED <<store, calls, saved, faults>>

EraseAccount ==
    /\ row.owner /\ RowExists
    /\ row' = [Unlinked(row) EXCEPT !.owner = FALSE] /\ work' = Ensured(work)
    /\ UNCHANGED <<store, calls, saved, faults>>

-----------------------------------------------------------------------------
(* The scan: process. *)

Goto(s, phase) == scan' = [scan EXCEPT ![s] = phase]

Exhausted(r) == r.tries >= MaxAttempts

Claim(s) ==
    /\ scan[s] = "idle"
    /\ row.owner /\ ~row.expired
    /\ row.state = "queued" \/ (row.state = "inspecting" /\ ~row.leased)
    /\ IF Exhausted(row)
       THEN /\ row' = [row EXCEPT !.state = "failed"] /\ work' = Ensured(work)
            /\ UNCHANGED scan
       ELSE /\ row' = [row EXCEPT !.state = "inspecting", !.token = s, !.leased = TRUE,
                                  !.tries = @ + 1]
            /\ Goto(s, "inspect") /\ UNCHANGED work
    /\ UNCHANGED <<store, tidy, saved, faults>>

\* Storage that does not answer raises StorageUnavailable.
StoreFails(s) ==
    /\ scan[s] \in {"inspect", "read", "put"} /\ Fault
    /\ Goto(s, "unavailable")
    /\ clean' \in {clean} \cup (IF scan[s] = "put" /\ clean = "absent" THEN {"good"} ELSE {})
    /\ UNCHANGED <<row, work, quarantine, tidy, saved>>

InspectObject(s) ==
    /\ scan[s] = "inspect"
    /\ Goto(s, CASE quarantine = "absent" -> "unavailable"
                 [] quarantine = "marker" -> "refused"
                 [] quarantine \in Payload -> "pin")
    /\ UNCHANGED <<row, work, store, tidy, saved, faults>>

\* _current
CurrentUnfenced(s) == row.owner /\ ~row.expired \* slip: no look at token, lease and state
CurrentLate(s) == row.state = "inspecting" /\ row.token = s /\ row.owner \* slip: no look at the clock
Current(s) == row.state = "inspecting" /\ row.token = s /\ row.owner /\ ~row.expired /\ row.leased

\* The two transactions that only check; the first records the generation, of
\* which there is one: nobody can write the quarantine object twice.
Check(s) ==
    /\ scan[s] \in {"pin", "check"}
    /\ Goto(s, IF ~Current(s) THEN "lost" ELSE IF scan[s] = "pin" THEN "read" ELSE "put")
    /\ UNCHANGED <<row, work, store, tidy, saved, faults>>

\* Reads that generation, compares it with what was declared and has it scanned.
ReadAndScan(s) ==
    /\ scan[s] = "read"
    /\ \E answer \in CASE quarantine = "good" -> {"check", "refused", "unavailable"}
                       [] quarantine = "bad" -> {"refused"}
                       [] quarantine = "marker" -> {"unavailable"} :
           Goto(s, answer)
    /\ UNCHANGED <<row, work, store, tidy, saved, faults>>

\* put_clean: an object that is there already is accepted if it is the same.
PutClean(s) ==
    /\ scan[s] = "put"
    /\ IF clean = "marker" THEN Goto(s, "refused") /\ UNCHANGED clean
                           ELSE Goto(s, "release") /\ clean' = "good"
    /\ UNCHANGED <<row, work, quarantine, tidy, saved, faults>>

Release(s) ==
    /\ scan[s] = "release"
    /\ IF Current(s)
       THEN /\ row' = [row EXCEPT !.state = "released", !.resume = TRUE,
                                  !.token = Nobody, !.leased = FALSE]
            /\ work' = Ensured(work) /\ saved' = saved + 1
            /\ Goto(s, "idle")
       ELSE Goto(s, "lost") /\ UNCHANGED <<row, work, saved>>
    /\ UNCHANGED <<store, tidy, faults>>

\* _lost
Lose(s) ==
    /\ scan[s] = "lost"
    /\ work' = IF RowExists THEN Ensured(work) ELSE work
    /\ Goto(s, "idle")
    /\ UNCHANGED <<row, store, tidy, saved, faults>>

\* _failure
Fail(s) ==
    LET mine == RowExists /\ row.token = s /\ row.state = "inspecting"
        state == CASE ~row.owner -> "cancelled"
                   [] row.owner /\ row.expired -> "expired"
                   [] row.owner /\ ~row.expired /\ scan[s] = "refused" -> "rejected"
                   [] row.owner /\ ~row.expired /\ scan[s] = "unavailable" ->
                        IF Exhausted(row) THEN "failed" ELSE "queued"
    IN  /\ scan[s] \in {"refused", "unavailable"}
        /\ row' = IF mine
                  THEN [row EXCEPT !.state = state, !.token = Nobody, !.leased = FALSE]
                  ELSE row
        /\ work' = IF RowExists /\ row'.state \notin Active THEN Ensured(work) ELSE work
        /\ Goto(s, "idle")
        /\ UNCHANGED <<store, tidy, saved, faults>>

-----------------------------------------------------------------------------
(* The cleanup: sweep and run_cleanup. *)

OverdueUploads(r) == r.state = "awaiting_upload" /\ r.expired \* slip: only what nobody completed
Overdue(r) == r.state # "released" /\ r.expired

Sweep ==
    /\ RowExists
    /\ ~row.owner \/ Overdue(row) \/ row.state \in Ended \cup {"released"}
    /\ ~work.exists \/ ~work.quarantineClosed \/ (row.state # "released" /\ ~work.cleanClosed)
    /\ row' = IF ~row.owner \/ (row.state = "released" /\ ~row.resume)
              THEN [row EXCEPT !.state = "cancelled", !.token = Nobody, !.leased = FALSE]
              ELSE IF row.state \in Active
              THEN [row EXCEPT !.state = "expired", !.token = Nobody, !.leased = FALSE]
              ELSE row
    /\ work' = IF work.exists THEN work ELSE Ensured(work)
    /\ UNCHANGED <<store, calls, saved, faults>>

To(c, phase) == tidy' = [tidy EXCEPT ![c].phase = phase]

ClaimWork(c) ==
    /\ tidy[c].phase = "idle"
    /\ RowExists /\ work.exists /\ work.next = "now" /\ ~work.leased
    /\ ~Awaited(row)
    /\ work' = [work EXCEPT !.token = c, !.leased = TRUE]
    /\ tidy' = [tidy EXCEPT ![c] = [phase |-> "quarantine", live |-> Released(row),
                                    orphaned |-> ~row.owner]]
    /\ UNCHANGED <<row, store, scan, saved, faults>>

\* retire: a marker takes the place of whatever is there.
Retired == "marker"

RetireQuarantine(c) ==
    /\ tidy[c].phase = "quarantine"
    /\ quarantine' = Retired
    /\ To(c, IF tidy[c].live THEN "finish" ELSE "clean")
    /\ UNCHANGED <<row, work, clean, scan, saved, faults>>

\* An orphan's markers are read again; nobody replaces a marker.
RetireClean(c) ==
    /\ tidy[c].phase = "clean"
    /\ clean' = Retired
    /\ To(c, "finish")
    /\ UNCHANGED <<row, work, quarantine, scan, saved, faults>>

\* Storage that does not answer, whether or not it did what it was asked.
RetireFails(c) ==
    /\ tidy[c].phase \in {"quarantine", "clean"} /\ Fault
    /\ quarantine' \in {quarantine} \cup (IF tidy[c].phase = "quarantine" THEN {Retired} ELSE {})
    /\ clean' \in {clean} \cup (IF tidy[c].phase = "clean" THEN {Retired} ELSE {})
    /\ To(c, "failed")
    /\ UNCHANGED <<row, work, scan, saved>>

Postpone(c) ==
    /\ tidy[c].phase = "failed"
    /\ work' = IF work.token = c
               THEN [work EXCEPT !.token = Nobody, !.leased = FALSE, !.next = "soon"] ELSE work
    /\ tidy' = [tidy EXCEPT ![c] = Resting]
    /\ UNCHANGED <<row, store, scan, saved, faults>>

\* Deletion may have won while the objects were retired.
AgainNever(c) == FALSE \* slip: always back in a day
Again(c) == ~row.owner \/ (tidy[c].live /\ ~Released(row))

Finish(c) ==
    LET mine == RowExists /\ work.token = c
    IN  /\ tidy[c].phase = "finish"
        /\ CASE ~mine -> UNCHANGED <<row, work>>
             [] mine /\ tidy[c].orphaned ->
                    row' = [NoRow EXCEPT !.state = "purged"] /\ work' = NoWork
             [] mine /\ ~tidy[c].orphaned ->
                  /\ work' = [work EXCEPT !.token = Nobody, !.leased = FALSE,
                                          !.next = IF Again(c) THEN "now" ELSE "later",
                                          !.quarantineClosed = TRUE,
                                          !.cleanClosed = @ \/ ~tidy[c].live,
                                          !.retired = @ \/ ~tidy[c].live]
                  /\ UNCHANGED row
        /\ tidy' = [tidy EXCEPT ![c] = Resting]
        /\ UNCHANGED <<store, scan, saved, faults>>

-----------------------------------------------------------------------------
(* Crashes and time. *)

CrashScan(s) ==
    /\ scan[s] # "idle" /\ Fault
    /\ Goto(s, "idle")
    /\ UNCHANGED <<row, work, store, tidy, saved>>

CrashCleanup(c) ==
    /\ tidy[c].phase # "idle" /\ Fault
    /\ tidy' = [tidy EXCEPT ![c] = Resting]
    /\ UNCHANGED <<row, work, store, scan, saved>>

\* The admission is over; it may be while a scan is at work.
Expire ==
    /\ row.state # "none" /\ ~row.expired /\ RowExists
    /\ row' = [row EXCEPT !.expired = TRUE]
    /\ UNCHANGED <<work, store, calls, saved, faults>>

\* Five minutes; a fault if the holder still works.
ScanLeaseLapses ==
    /\ row.leased
    /\ row' = [row EXCEPT !.leased = FALSE]
    /\ IF \E s \in Scanners : row.token = s /\ scan[s] # "idle" THEN Fault ELSE UNCHANGED faults
    /\ UNCHANGED <<work, store, calls, saved>>

WorkLeaseLapses ==
    /\ work.leased
    /\ work' = [work EXCEPT !.leased = FALSE]
    /\ IF \E c \in Cleaners : work.token = c /\ tidy[c].phase # "idle" THEN Fault ELSE UNCHANGED faults
    /\ UNCHANGED <<row, store, calls, saved>>

\* A minute or a day passes.
BecomesDue ==
    /\ work.next # "now"
    /\ work' = [work EXCEPT !.next = "now"]
    /\ UNCHANGED <<row, store, calls, saved, faults>>

ScanStep(s) ==
    \/ InspectObject(s) \/ Check(s) \/ ReadAndScan(s) \/ PutClean(s)
    \/ Release(s) \/ Lose(s) \/ Fail(s)

CleanupStep(c) == RetireQuarantine(c) \/ RetireClean(c) \/ Postpone(c) \/ Finish(c)

Time == Expire \/ ScanLeaseLapses \/ WorkLeaseLapses \/ BecomesDue

Next ==
    \/ Create \/ Upload \/ Complete \/ Cancel \/ DeleteResume \/ EraseAccount
    \/ \E s \in Scanners : Claim(s) \/ ScanStep(s) \/ StoreFails(s) \/ CrashScan(s)
    \/ Sweep
    \/ \E c \in Cleaners : ClaimWork(c) \/ CleanupStep(c) \/ RetireFails(c) \/ CrashCleanup(c)
    \/ Time

\* Started calls go on and time passes; the coordinator is run periodically, so
\* a sweep that is due comes and work that stays or comes back is claimed.
Fairness ==
    /\ \A s \in Scanners : WF_vars(ScanStep(s))
    /\ \A c \in Cleaners : WF_vars(CleanupStep(c))
    /\ WF_vars(Expire) /\ WF_vars(ScanLeaseLapses) /\ WF_vars(WorkLeaseLapses) /\ WF_vars(BecomesDue)
    /\ WF_vars(Sweep)
    /\ SF_vars(\E c \in Cleaners : ClaimWork(c))

Spec == Init /\ [][Next]_vars
FairSpec == Spec /\ Fairness

-----------------------------------------------------------------------------
(* Properties. *)

Row == [state: {"none", "purged", "released"} \cup Active \cup Ended, owner: BOOLEAN, resume: BOOLEAN,
        token: Scanners \cup {Nobody}, leased: BOOLEAN, tries: 0 .. MaxAttempts, expired: BOOLEAN]
Work == [exists: BOOLEAN, next: {"now", "soon", "later"}, token: Cleaners \cup {Nobody},
         leased: BOOLEAN, quarantineClosed: BOOLEAN, cleanClosed: BOOLEAN, retired: BOOLEAN]
ScanPhase == {"idle", "inspect", "pin", "read", "check", "put", "release", "lost", "refused",
              "unavailable"}
Tidy == [phase: {"idle", "quarantine", "clean", "finish", "failed"}, live: BOOLEAN, orphaned: BOOLEAN]

\* The type of every variable; an upload is claimed three times at most and
\* becomes one resume at most.
TypeOK ==
    /\ row \in Row /\ work \in Work
    /\ quarantine \in {"absent", "marker"} \cup Payload
    /\ clean \in {"absent", "marker", "good"}
    /\ scan \in [Scanners -> ScanPhase] /\ tidy \in [Cleaners -> Tidy]
    /\ saved \in 0 .. 1 /\ faults \in Nat

\* "A currently saved resume retains its clean source": no cleanup, however late,
\* takes the object of a resume that is there.
SavedSourceKept == Released(row) => clean = "good"

\* What the cleanup has recorded stays true: neither a late PUT nor a late write
\* of a scan brings bytes back, also after the rows themselves are gone.
ClosedStaysClosed ==
    /\ row.state = "purged" => quarantine \notin Payload /\ clean \notin Payload
    /\ work.quarantineClosed => quarantine \notin Payload
    /\ work.cleanClosed \/ work.retired => clean \notin Payload

\* An upload that ended never waits for the daily check while some of its bytes
\* may be there: whoever ends it, the cleanup is due now or is retried.
RetiredPromptly ==
    (row.state \in Ended \cup {"released"} /\ ~Released(row)
        /\ (quarantine # "marker" \/ clean # "marker"))
      => work.exists /\ work.next # "later"

\* The upload as its abstract description sees it; expiry is an end, also before
\* any row says so.
V == INSTANCE Vault WITH
       phase <- IF row.state = "none" \/ Awaited(row) THEN "open"
                ELSE IF Released(row) THEN "published" ELSE "over",
       quarantine <- CASE quarantine = "absent" -> "empty"
                       [] quarantine \in Payload -> "bytes"
                       [] quarantine = "marker" -> "closed",
       clean <- CASE clean = "absent" -> "empty"
                  [] clean \in Payload -> "bytes"
                  [] clean = "marker" -> "closed"

\* The quarantine keeps its promise: bytes are published once, by a scan that was
\* still current, with their copy in place, and closed places stay closed.
ImplementsVault == V!Spec

\* Whatever happens to an upload, in the end its quarantine is closed, and its
\* copy too unless the resume is still there.
EventuallyErased ==
    row.state # "none" ~> [](quarantine = "marker" /\ (clean = "marker" \/ Released(row)))
=============================================================================
