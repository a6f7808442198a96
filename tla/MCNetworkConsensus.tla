------------------------ MODULE MCNetworkConsensus ------------------------
EXTENDS NetworkConsensus, TLC

CONSTANTS v1, v2, v3, v4, A, B

OnePower == [v \in Validator |-> 1]

\* v1 counts twice: there is no quorum without it.
DoublePower == [v \in Validator |-> IF v = v1 THEN 2 ELSE 1]

Order == <<v1, v2, v3, v4>>

\* A draw of one fixed validator, v1, which keeps the others interchangeable.
FixedDraw(h, w, c) == 0

\* One that draws every validator in turn, v4 first.
RotatingDraw(h, w, c) == (h + w + 2) % 4

Symmetry == Permutations({v2, v3, v4}) \cup Permutations({A, B})
=============================================================================
