-------------------------------- MODULE Sums --------------------------------
(* Sums of natural numbers, by counting: a function that gives n for x has n
   points at x.  Unlike a fold, which is recursive, such a sum can be reasoned
   about with the theorems on finite sets. *)
EXTENDS Integers, FiniteSets

Points(f) == UNION {{x} \X (1..f[x]) : x \in DOMAIN f}

\* The sum of all f[x].
Sum(f) == Cardinality(Points(f))
=============================================================================
