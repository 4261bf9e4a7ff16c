------------------------------ MODULE MCPayments ------------------------------
(* Payments on small instances. *)
EXTENDS Payments, TLC

CONSTANTS o1, p1, p2, r1, r2, b1, d1, e1, x1

Nobody == {}
OneOrder == {o1}
OnePayment == {p1}
TwoPayments == {p1, p2}
Alike == Permutations(Payments)
OneRefund == {r1}
TwoRefunds == {r1, r2}
OneBrowser == {b1}
OneReader == {d1}
OneEnder == {e1}
OneEraser == {x1}

\* A price of two: a refund of one half, or of everything.
Halves == [r \in Refunds |-> 1]
Whole == [r \in Refunds |-> 2]
=============================================================================
