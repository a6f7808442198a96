---------------------------- MODULE MCInterchain ----------------------------
EXTENDS Interchain, TLC

CONSTANTS real, fixture, o1, o2, o3, g1, g2, e1, e2, p1, p2, l1, l2, a1, x1

\* A real route that two independent observers watch, and one of fixtures.
TwoRoutes ==
    (real :> [kind |-> "EVM", realValue |-> TRUE, audited |-> TRUE,
              cap |-> 2, observerThreshold |-> 2])
    @@ (fixture :> [kind |-> "FIXTURE", realValue |-> FALSE, audited |-> FALSE,
                    cap |-> 1, observerThreshold |-> 0])

\* o1 and o2 are of one group.
TwoGroups == [o \in Observer |-> IF o = o3 THEN g2 ELSE g1]

AllWatch == [o \in Observer |-> {real}]

ProvedOnReal == [e \in Evidence |-> {real}]

TwoPaid == [x \in Receipt |-> 2]

\* Ids are alike, and so are the two observers of one group.
Symmetry ==
    Permutations(Proof) \cup Permutations(Evidence) \cup Permutations(Lineage)
        \cup Permutations({o1, o2})
=============================================================================
