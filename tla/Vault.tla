------------------------------- MODULE Vault -------------------------------
(* What the resume quarantine promises of one upload (docs/delivery/
   DIRECT_RESUME_UPLOAD_2026-10-10.md, items 4 to 8): its bytes live in two
   places, they are published at most once and only after a copy of them is in
   the clean place, that copy stays for as long as they are published, and a
   place that was closed never holds bytes again. *)

VARIABLES
    phase,       \* open, published or over
    quarantine,  \* empty, bytes or closed
    clean

vars == <<phase, quarantine, clean>>

Places == {"empty", "bytes", "closed"}

Init == phase = "open" /\ quarantine = "empty" /\ clean = "empty"

Arrive ==
    /\ quarantine = "empty" /\ quarantine' = "bytes"
    /\ UNCHANGED <<phase, clean>>

\* The copy may be late: nobody calls back a write that is on its way.
Copy ==
    /\ clean = "empty" /\ clean' = "bytes"
    /\ UNCHANGED <<phase, quarantine>>

Publish ==
    /\ phase = "open" /\ clean = "bytes" /\ phase' = "published"
    /\ UNCHANGED <<quarantine, clean>>

\* Refusal, failure, expiry, cancellation, deletion of the resume or the account.
End ==
    /\ phase # "over" /\ phase' = "over"
    /\ UNCHANGED <<quarantine, clean>>

CloseQuarantine ==
    /\ phase # "open" /\ quarantine' = "closed"
    /\ UNCHANGED <<phase, clean>>

CloseClean ==
    /\ phase = "over" /\ clean' = "closed"
    /\ UNCHANGED <<phase, quarantine>>

Next == Arrive \/ Copy \/ Publish \/ End \/ CloseQuarantine \/ CloseClean

Spec == Init /\ [][Next]_vars
=============================================================================
