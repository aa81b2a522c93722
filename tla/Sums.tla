-------------------------------- MODULE Sums --------------------------------
(***************************************************************************)
(* Sums over finite sets.                                                  *)
(***************************************************************************)
EXTENDS Integers

\* The sum of f[x] for all x of S.
Total(f, S) ==
    LET total[T \in SUBSET S] ==
            IF T = {} THEN 0
            ELSE LET x == CHOOSE x \in T : TRUE IN f[x] + total[T \ {x}]
    IN  total[S]
=============================================================================
