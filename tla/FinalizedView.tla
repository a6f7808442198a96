--------------------------- MODULE FinalizedView ---------------------------
(* What replicas promise their readers: each shows finalized states of one   *)
(* durable chain, later ones as time goes by.  A replica allowed to follow   *)
(* without certificates may have no finalized view for a while.              *)
EXTENDS Integers, Sequences

CONSTANTS Tx, Follower

VARIABLES
    chain,       \* the durable chain
    view,        \* the finalized state each follower has on disk, or <<>>
    uncertified  \* the followers allowed to go without a certificate

vars == <<chain, view, uncertified>>

Init ==
    /\ chain = <<>>
    /\ view = [f \in Follower |-> <<>>]
    /\ uncertified \subseteq Follower

Commit ==
    /\ \E tx \in Tx : chain' = Append(chain, tx)
    /\ UNCHANGED <<view, uncertified>>

\* A follower's view moves on along the chain.
Advance(f) ==
    /\ \E n \in Len(view[f])..Len(chain) :
           /\ view[f] = SubSeq(chain, 1, Len(view[f]))
           /\ view' = [view EXCEPT ![f] = SubSeq(chain, 1, n)]
    /\ UNCHANGED <<chain, uncertified>>

Withdraw(f) ==
    /\ f \in uncertified
    /\ view' = [view EXCEPT ![f] = <<>>]
    /\ UNCHANGED <<chain, uncertified>>

Next == Commit \/ \E f \in Follower : Advance(f) \/ Withdraw(f)

Spec == Init /\ [][Next]_vars
=============================================================================
