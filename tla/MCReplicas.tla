----------------------------- MODULE MCReplicas -----------------------------
EXTENDS Replicas, TLC

CONSTANTS f1, f2, T, S

\* A state of height 2 is long enough for a second chunk.
TwoChunks(state) == IF Len(state) < 2 THEN 1 ELSE 2

Environment(sources1, sources2, uncertified) ==
    [syncSources |-> (f1 :> sources1 @@ f2 :> sources2),
     baseUrl |-> [f \in Follower |-> Origin], allowUncertified |-> uncertified]

\* f1 follows the origin; f2 follows f1, takes everything from f1, or has both
\* as sources.
Chained == Environment(<<Origin>>, <<f1>>, {})
Trusting == [Chained EXCEPT !.baseUrl[f2] = f1, !.allowUncertified = {f1}]
Several == Environment(<<Origin>>, <<Origin, f1>>, {})

AllDeployments == {Chained, Trusting, Several}
OnlyChained == {Chained}
OnlySeveral == {Several}

\* Lists of nodes to check merkleRoot on: all of up to 5 nodes out of two.
NodeLists == UNION {[1..n -> {f1, f2}] : n \in 1..5}

\* The root binds the list: lists of one length have one root only if equal.
ASSUME RootBindsList ==
    \A a, b \in NodeLists :
        Len(a) = Len(b) /\ merkleRoot(a) = merkleRoot(b) => a = b
=============================================================================
