--------------------------- MODULE MCAnalysisRuns ---------------------------
(* AnalysisRuns on small instances. *)
EXTENDS AnalysisRuns

CONSTANTS q1, y1, c1, c2

OneQueued == {q1}
OneSync == {y1}
NoSync == {}
TwoCalls == {c1, c2}

\* A queued run of three units, the synchronous one of one.
Prices == [r \in AllRuns |-> IF r = q1 THEN 3 ELSE 1]
=============================================================================
