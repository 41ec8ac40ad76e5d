-------------------------------- MODULE Sums --------------------------------
(* Sums of finite sequences of numbers, as a recursive function so that the  *)
(* provers can unfold it.                                                    *)
EXTENDS Integers, Sequences

\* v[1] + ... + v[Len(v)].
SumOf(v) ==
    LET upTo[n \in 0 .. Len(v)] == IF n = 0 THEN 0 ELSE upTo[n - 1] + v[n]
    IN  upTo[Len(v)]

\* Of the members of v only those at K.
Part(v, K) == [k \in 1 .. Len(v) |-> IF k \in K THEN v[k] ELSE 0]
=============================================================================
