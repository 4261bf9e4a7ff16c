--------------------------- MODULE MCExecutionHolds ---------------------------
(* ExecutionHolds on small instances. *)
EXTENDS ExecutionHolds, TLC

CONSTANTS r1, r2, l1, c1, c2

TwoRuns == {r1, r2}
SecondInline == {r2}
OneLegacy == {l1}
TwoCalls == {c1, c2}
OneOrThree == {1, 3}
Allowance == [r \in {r1, r2, l1} |-> IF r = r1 THEN 2 ELSE 1]
Reserves == [r \in {r1, r2} |-> IF r = r1 THEN 5 ELSE 3]
JustOne == {1}
=============================================================================
