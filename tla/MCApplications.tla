-------------------------- MODULE MCApplications --------------------------
(* Applications on small instances. *)
EXTENDS Applications, TLC

CONSTANTS a1, a2, o1, o2, w1, w2

TwoApps == {a1, a2}
TwoOpenings == {o1, o2}
TwoWorkers == {w1, w2}

Symmetry == Permutations(Apps) \cup Permutations(Openings) \cup Permutations(Workers)
=============================================================================
