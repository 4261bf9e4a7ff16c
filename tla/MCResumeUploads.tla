-------------------------- MODULE MCResumeUploads --------------------------
(* ResumeUploads on a small instance. *)
EXTENDS ResumeUploads

CONSTANTS s1, s2, k1, k2

TwoScanners == {s1, s2}
TwoCleaners == {k1, k2}
=============================================================================
