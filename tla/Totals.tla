------------------------------- MODULE Totals -------------------------------
(* Sums: of the first entries of a function on 1, 2, ..., and of its values *)
(* on a finite set.                                                         *)
EXTENDS Integers, Folds

Total(f, n) ==
    LET upTo[i \in 0..n] == IF i = 0 THEN 0 ELSE upTo[i - 1] + f[i]
    IN  upTo[n]

SumOver(f, S) ==
    MapThenFoldSet(+, 0, LAMBDA x : f[x], LAMBDA T : CHOOSE x \in T : TRUE, S)
=============================================================================
