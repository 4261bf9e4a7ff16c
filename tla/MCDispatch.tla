----------------------------- MODULE MCDispatch -----------------------------
(* Dispatch on small instances: one analysis row or one search row. *)
EXTENDS Dispatch, TLC

CONSTANTS a1, s1, p1, p2, w1, w2

OneAnalysis == {a1}
OneSearch == {s1}
NoSearch == {}
OnePublisher == {p1}
TwoPublishers == {p1, p2}
TwoWorkers == {w1, w2}

CallSymmetry == Permutations(TwoPublishers) \cup Permutations(TwoWorkers)
=============================================================================
