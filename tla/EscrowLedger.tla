---------------------------- MODULE EscrowLedger ----------------------------
(* What the work-order operations of the engine promise about native units,  *)
(* whatever happens to the orders: a unit is issued, moves between accounts, *)
(* or is held for one order; what is held leaves once and as a whole, part   *)
(* of it to a payee and the rest back to the account it came from.           *)
EXTENDS Naturals

CONSTANTS
    Root,          \* account ids: requesters and agents
    Order,         \* ids of work orders
    None           \* absent: undefined in the code

VARIABLES
    balance,       \* balance[r]: what account r may spend
    escrow         \* escrow[o]: the account that funded o and what is still
                   \* held, or None if o was not funded from an account

Credit(b, r, n) == [b EXCEPT ![r] = @ + n]

Debit(b, r, n) == [b EXCEPT ![r] = @ - n]

Init ==
    /\ balance = [r \in Root |-> 0]
    /\ escrow = [o \in Order |-> None]

Issue(r) ==
    /\ balance'[r] > balance[r]
    /\ balance' = [balance EXCEPT ![r] = balance'[r]]
    /\ UNCHANGED escrow

Move(from, to) ==
    /\ \E n \in 1..balance[from] :
        balance' = Credit(Debit(balance, from, n), to, n)
    /\ UNCHANGED escrow

Hold(o, r) ==
    /\ escrow[o] = None
    /\ \E n \in 1..balance[r] :
        /\ balance' = Debit(balance, r, n)
        /\ escrow' = [escrow EXCEPT ![o] = [from |-> r, held |-> n]]

Release(o, payee) ==
    /\ escrow[o] # None
    /\ \E n \in 1..escrow[o].held :
        balance' = Credit(Credit(balance, payee, n),
                          escrow[o].from, escrow[o].held - n)
    /\ escrow' = [escrow EXCEPT ![o].held = 0]

Next ==
    \/ \E r \in Root : Issue(r)
    \/ \E from, to \in Root : Move(from, to)
    \/ \E o \in Order, r \in Root : Hold(o, r) \/ Release(o, r)

Spec == Init /\ [][Next]_<<balance, escrow>>
=============================================================================
