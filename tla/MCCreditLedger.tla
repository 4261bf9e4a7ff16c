--------------------------- MODULE MCCreditLedger ---------------------------
(* Instances of CreditLedger for TLC. *)
EXTENDS CreditLedger, FiniteSetsExt, TLC

CONSTANTS s1, s2, r1, r2

TwoSources == {s1, s2}
TwoOperations == {r1, r2}

\* A purchase of two credits and a campaign of one.
Grants == (s1 :> 2) @@ (s2 :> 1)

\* One operation that both lots have to fund and one that a single credit does.
Prices == (r1 :> 2) @@ (r2 :> 1)

\* Counting units is summing.
ASSUME CountingIsSumming ==
    \A f \in [{1, 2, 3} -> 0..3] : Sum(f) = MapThenSumSet(LAMBDA x : f[x], {1, 2, 3})
=============================================================================
