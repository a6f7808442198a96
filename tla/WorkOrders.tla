----------------------------- MODULE WorkOrders -----------------------------
(* The work-order market of the engine (engine.js): funding from accounts,   *)
(* assignment, results, verifier votes, settlement and disputes.  Every      *)
(* action is one transition: apply clones the state, runs the operation and  *)
(* restores the clone when it throws, so a refused operation is no step.     *)
(* Who may call an operation, and whether ids were used before, the          *)
(* operations check as the guards say and no further.                        *)
EXTENDS Integers, Sequences, FiniteSets, FiniteSetsExt, Functions

CONSTANTS
    Root,          \* account ids: requesters and agents
    Agent,         \* the accounts that are agents
    Order,         \* orderIds
    Verifier,      \* verifierIds
    ReceiptId, PaymentId, DisputeId,
    None,          \* absent: undefined in the code
    Group,         \* Group[v]: v's independenceGroup
    Related,       \* Related[v]: v's relatedActors
    Rank,          \* Rank[o][v]: v's hash under the committee seed of o
    Sampled,       \* Sampled[o]: the verifiers drawn to re-execute o's result
    Strict,        \* whether the policy's mode is not INDEPENDENT_REVIEW
    RequiredAccepts, MinGroups, CommitteeSize,    \* the validation policy
    Referred,      \* agents created with a referrer
    AgentStatus,   \* bound: the statuses explored, "ACTIVE" among them
    MaxAmount,     \* bound: funded amounts and transfers
    FaucetOnce,    \* most the faucet gives at a time: 1000 in the code
    FaucetTotal    \* most it gives one account: 10000 in the code

ASSUME PolicyValid ==
    /\ RequiredAccepts \in Nat /\ MinGroups \in Nat /\ CommitteeSize \in Nat
    /\ 2 <= MinGroups
    /\ MinGroups <= RequiredAccepts
    /\ RequiredAccepts <= CommitteeSize
    /\ Strict \in BOOLEAN

ASSUME RegistriesValid ==
    /\ IsFiniteSet(Verifier)
    /\ Agent \subseteq Root /\ Referred \subseteq Agent
    /\ AgentStatus \subseteq {"ACTIVE", "SUSPENDED", "RETIRED"}
    /\ "ACTIVE" \in AgentStatus
    /\ Related \in [Verifier -> SUBSET Root]
    /\ Rank \in [Order -> [Verifier -> Nat]]
    /\ Sampled \in [Order -> SUBSET Verifier]

\* The ids that transitions ever name.
ASSUME RegistriesFinite == IsFiniteSet(Root) /\ IsFiniteSet(Order)

ASSUME AmountsValid ==
    /\ {MaxAmount, FaucetOnce, FaucetTotal} \subseteq Nat
    /\ None \notin Nat \cup Root
    /\ \A members \in SUBSET Verifier : members # None

Amount == 1..MaxAmount

OrderRecord ==
    [agent : Agent \cup {None}, requester : Root, funded : Amount,
     escrowed : 0..MaxAmount, mode : {"NATIVE_ESCROW", "FIXTURE_DECLARATION"},
     status : {"OPEN", "ACCEPTED", "VERIFYING", "PAID", "REJECTED"},
     disputed : BOOLEAN]

\* excluded: a vote of weight 0, the verifier being related to a party; owed: a
\* vote of a verifier drawn to re-execute the result that did not.
VoteRecord ==
    [verifier : Verifier, verdict : {"ACCEPT", "REJECT"}, excluded : BOOLEAN,
     owed : BOOLEAN]

ReceiptRecord == [order : Order, payment : PaymentId, amount : Amount]

DisputeRecord == [order : Order, status : {"OPEN", "RESOLVED"}]

ASSUME NoneIsNoRecord ==
    /\ None \notin OrderRecord \cup ReceiptRecord \cup DisputeRecord
    /\ None \notin [from : Root, held : Nat]
    /\ None \notin {"PENDING", "QUALIFIED", "VERIFYING", "VERIFIED"}

VARIABLES
    accounts,      \* accounts[r]: r's native balance, or None
    claimed,       \* claimed[r]: what the faucet gave r, summed over the events
    agents,        \* agents[a]: a's status
    agentReferrals,\* agentReferrals[a]: "PENDING" or "QUALIFIED", or None
    orders,        \* orders[o]: the order, or None
    workResults,   \* workResults[o]: "VERIFYING" or "VERIFIED", or None
    committees,    \* workResults[o].committee, or None
    verifiers,     \* the registered verifiers
    slashed,       \* slashed[v]: tenths of v's bond it was slashed by
    votes,         \* votes[o]: the verification votes on o
    receipts,      \* receipts[x]: the receipt kept under the id, or None
    disputes,      \* disputes[d]: the dispute kept under the id, or None
    settlements    \* history: settlements[o]: the payments that settled o

ledgerVars == <<accounts, claimed>>
registryVars == <<agents, verifiers>>
verificationVars == <<workResults, committees, slashed, votes>>
settlementVars == <<receipts, agentReferrals, settlements>>
vars == <<ledgerVars, registryVars, verificationVars, settlementVars,
          orders, disputes>>

Init ==
    /\ accounts = [r \in Root |-> None]
    /\ claimed = [r \in Root |-> 0]
    /\ agents = [a \in Agent |-> "ACTIVE"]
    /\ agentReferrals = [a \in Agent |-> IF a \in Referred THEN "PENDING" ELSE None]
    /\ orders = [o \in Order |-> None]
    /\ workResults = [o \in Order |-> None]
    /\ committees = [o \in Order |-> None]
    /\ verifiers = {}
    /\ slashed = [v \in Verifier |-> 0]
    /\ votes = [o \in Order |-> {}]
    /\ receipts = [x \in ReceiptId |-> None]
    /\ disputes = [d \in DisputeId |-> None]
    /\ settlements = [o \in Order |-> <<>>]

-----------------------------------------------------------------------------
(* Accounts.                                                                 *)

Balance(acc, r) == IF acc[r] = None THEN 0 ELSE acc[r]

\* An account that does not exist is created.
Credit(acc, r, n) == [acc EXCEPT ![r] = Balance(acc, r) + n]

faucet(r, n) ==
    /\ n <= FaucetOnce
    /\ claimed[r] + n <= FaucetTotal
    /\ accounts' = Credit(accounts, r, n)
    /\ claimed' = [claimed EXCEPT ![r] = @ + n]
    /\ UNCHANGED <<registryVars, verificationVars, settlementVars, orders, disputes>>

transfer(from, to, n) ==
    /\ to # from
    /\ accounts[from] # None
    /\ accounts[from] >= n
    /\ accounts' = Credit([accounts EXCEPT ![from] = @ - n], to, n)
    /\ UNCHANGED <<claimed, registryVars, verificationVars, settlementVars,
                   orders, disputes>>

setAgentStatus(a, status) ==
    /\ agents[a] = "RETIRED" => status = "RETIRED"
    /\ agents' = [agents EXCEPT ![a] = status]
    /\ UNCHANGED <<ledgerVars, verifiers, verificationVars, settlementVars,
                   orders, disputes>>

-----------------------------------------------------------------------------
(* Orders and results.                                                       *)

NewOrder(o, a, r, n, mode, held) ==
    orders' = [orders EXCEPT ![o] =
        [agent |-> a, requester |-> r, funded |-> n, escrowed |-> held,
         mode |-> mode, status |-> "OPEN", disputed |-> FALSE]]

\* Mutation of createWorkOrder: the balance is not compared with the funding.
createWorkOrderUnfunded(o, a, r, n) ==
    /\ a \in {b \in Agent : agents[b] = "ACTIVE"} \cup {None}
    /\ orders[o] = None
    /\ accounts[r] # None
    /\ NewOrder(o, a, r, n, "NATIVE_ESCROW", n)
    /\ accounts' = [accounts EXCEPT ![r] = @ - n]
    /\ UNCHANGED <<claimed, registryVars, verificationVars, settlementVars, disputes>>

\* Mutation of createWorkOrder: an order of the same id is replaced.
createWorkOrderReplaces(o, a, r, n) ==
    /\ a \in {b \in Agent : agents[b] = "ACTIVE"} \cup {None}
    /\ accounts[r] # None
    /\ accounts[r] >= n
    /\ NewOrder(o, a, r, n, "NATIVE_ESCROW", n)
    /\ accounts' = [accounts EXCEPT ![r] = @ - n]
    /\ UNCHANGED <<claimed, registryVars, verificationVars, settlementVars, disputes>>

\* A requester without an account declares its funding and pays nothing.
createWorkOrder(o, a, r, n) ==
    /\ a \in {b \in Agent : agents[b] = "ACTIVE"} \cup {None}
    /\ orders[o] = None
    /\ \/ /\ accounts[r] = None
          /\ NewOrder(o, a, r, n, "FIXTURE_DECLARATION", 0)
          /\ UNCHANGED accounts
       \/ /\ accounts[r] # None
          /\ accounts[r] >= n
          /\ NewOrder(o, a, r, n, "NATIVE_ESCROW", n)
          /\ accounts' = [accounts EXCEPT ![r] = @ - n]
    /\ UNCHANGED <<claimed, registryVars, verificationVars, settlementVars, disputes>>

HasStatus(o, statuses) == orders[o] # None /\ orders[o].status \in statuses

\* Mutation of acceptWork: an order under verification may be taken over.
acceptWorkAnyTime(o, a) ==
    /\ HasStatus(o, {"OPEN", "ACCEPTED", "VERIFYING"})
    /\ agents[a] = "ACTIVE"
    /\ orders' = [orders EXCEPT ![o].agent = a, ![o].status = "ACCEPTED"]
    /\ UNCHANGED <<ledgerVars, registryVars, verificationVars, settlementVars, disputes>>

acceptWork(o, a) ==
    /\ HasStatus(o, {"OPEN"})
    /\ agents[a] = "ACTIVE"
    /\ orders[o].agent \in {None, a}
    /\ orders' = [orders EXCEPT ![o].agent = a, ![o].status = "ACCEPTED"]
    /\ UNCHANGED <<ledgerVars, registryVars, verificationVars, settlementVars, disputes>>

submitWorkResult(o) ==
    /\ HasStatus(o, {"ACCEPTED"})
    /\ workResults' = [workResults EXCEPT ![o] = "VERIFYING"]
    /\ committees' = [committees EXCEPT ![o] = None]
    /\ orders' = [orders EXCEPT ![o].status = "VERIFYING"]
    /\ UNCHANGED <<ledgerVars, registryVars, slashed, votes, settlementVars, disputes>>

-----------------------------------------------------------------------------
(* Verification.                                                             *)

registerVerifier(v) ==
    /\ v \notin verifiers
    /\ verifiers' = verifiers \cup {v}
    /\ UNCHANGED <<ledgerVars, agents, verificationVars, settlementVars,
                   orders, disputes>>

Conflict(o, v) == {orders[o].agent, orders[o].requester} \cap Related[v] # {}

\* The first CommitteeSize unrelated verifiers in the order of the seed.
Eligible(o) ==
    LET unrelated == {v \in verifiers : ~Conflict(o, v)}
        before(v) == {u \in unrelated : Rank[o][u] < Rank[o][v]}
    IN  {v \in unrelated : Cardinality(before(v)) < CommitteeSize}

\* The committee a vote finds: fixed for good by the first vote after enough
\* verifiers are eligible.
CommitteeAt(o) ==
    IF committees[o] = None /\ Cardinality(Eligible(o)) >= RequiredAccepts
    THEN Eligible(o) ELSE committees[o]

Record(o, v, verdict, excluded, owed) ==
    votes' = [votes EXCEPT ![o] = @ \cup
        {[verifier |-> v, verdict |-> verdict, excluded |-> excluded,
          owed |-> owed]}]

\* A strict policy refuses an ACCEPT that owes its re-execution.
voteWork(o, v, verdict, owed) ==
    /\ HasStatus(o, {"VERIFYING"})
    /\ v \in verifiers
    /\ \A x \in votes[o] : x.verifier # v
    /\ \/ /\ Conflict(o, v)
          /\ slashed' = [slashed EXCEPT ![v] = @ + 1]
          /\ Record(o, v, verdict, TRUE, FALSE)
          /\ UNCHANGED committees
       \/ /\ ~Conflict(o, v)
          /\ v \in (IF CommitteeAt(o) = None THEN Eligible(o) ELSE CommitteeAt(o))
          /\ owed => v \in Sampled[o] /\ ~(Strict /\ verdict = "ACCEPT")
          /\ committees' = [committees EXCEPT ![o] = CommitteeAt(o)]
          /\ Record(o, v, verdict, FALSE, owed)
          /\ UNCHANGED slashed
    /\ UNCHANGED <<ledgerVars, registryVars, workResults, settlementVars,
                   orders, disputes>>

-----------------------------------------------------------------------------
(* Settlement.                                                               *)

\* Mutation of PayOut: the requester is refunded what was paid as well.
PayOutTwice(o, n) ==
    IF orders[o].mode = "NATIVE_ESCROW"
    THEN accounts' = Credit(Credit(accounts, orders[o].agent, n),
                            orders[o].requester, orders[o].escrowed)
    ELSE UNCHANGED accounts

PayOut(o, n) ==
    IF orders[o].mode = "NATIVE_ESCROW"
    THEN accounts' = Credit(Credit(accounts, orders[o].agent, n),
                            orders[o].requester, orders[o].escrowed - n)
    ELSE UNCHANGED accounts

\* Mutation of Settle: a paid order may be settled again.
SettleAgain(o, x, pay, n) ==
    /\ HasStatus(o, {"ACCEPTED", "VERIFYING", "PAID"})
    /\ ~orders[o].disputed
    /\ n <= orders[o].funded
    /\ \A kept \in Range(receipts) \ {None} : kept.payment # pay
    /\ orders[o].mode = "NATIVE_ESCROW" => orders[o].escrowed >= n
    /\ PayOut(o, n)
    /\ orders' = [orders EXCEPT ![o].status = "PAID", ![o].escrowed = 0]
    /\ receipts' = [receipts EXCEPT ![x] = [order |-> o, payment |-> pay, amount |-> n]]
    /\ settlements' = [settlements EXCEPT ![o] = Append(@, pay)]
    /\ UNCHANGED claimed

\* The rest of finalizeReceipt: guards, payment, receipt.  A receipt of the
\* same id is replaced.
Settle(o, x, pay, n) ==
    /\ HasStatus(o, {"ACCEPTED", "VERIFYING"})
    /\ ~orders[o].disputed
    /\ n <= orders[o].funded
    /\ \A kept \in Range(receipts) \ {None} : kept.payment # pay
    /\ orders[o].mode = "NATIVE_ESCROW" => orders[o].escrowed >= n
    /\ PayOut(o, n)
    /\ orders' = [orders EXCEPT ![o].status = "PAID", ![o].escrowed = 0]
    /\ receipts' = [receipts EXCEPT ![x] = [order |-> o, payment |-> pay, amount |-> n]]
    /\ settlements' = [settlements EXCEPT ![o] = Append(@, pay)]
    /\ UNCHANGED claimed

Counted(o, verdict) ==
    {w \in votes[o] : ~w.excluded /\ w.verdict = verdict}

Groups(ballot) == {Group[w.verifier] : w \in ballot}

Verified(o) ==
    LET accepts == Counted(o, "ACCEPT")
    IN  /\ Cardinality(accepts) >= RequiredAccepts
        /\ Cardinality(Groups(accepts)) >= MinGroups
        /\ Cardinality(accepts) > Cardinality(Counted(o, "REJECT"))
        /\ \A w \in accepts : ~w.owed

Qualify(a) ==
    agentReferrals' = IF agentReferrals[a] = "PENDING"
                      THEN [agentReferrals EXCEPT ![a] = "QUALIFIED"]
                      ELSE agentReferrals

\* Mutation of finalizeReceipt: any receipt qualifies the agent's referral.
finalizeReceiptQualifies(o, x, pay, n) ==
    /\ Settle(o, x, pay, n)
    /\ Qualify(orders[o].agent)
    /\ UNCHANGED <<registryVars, verificationVars, disputes>>

\* Called for itself, with any two verifiers named by the caller.
finalizeReceipt(o, x, pay, n) ==
    /\ Settle(o, x, pay, n)
    /\ UNCHANGED <<registryVars, verificationVars, agentReferrals, disputes>>

settleVerifiedWork(o, x, pay, n) ==
    /\ HasStatus(o, {"VERIFYING"})
    /\ Verified(o)
    /\ Settle(o, x, pay, n)
    /\ workResults' = [workResults EXCEPT ![o] = "VERIFIED"]
    /\ Qualify(orders[o].agent)
    /\ UNCHANGED <<registryVars, committees, slashed, votes, disputes>>

-----------------------------------------------------------------------------
(* Disputes.                                                                 *)

openDispute(o, d) ==
    /\ HasStatus(o, {"ACCEPTED", "VERIFYING", "PAID"})
    /\ ~orders[o].disputed
    /\ orders' = [orders EXCEPT ![o].disputed = TRUE]
    /\ disputes' = [disputes EXCEPT ![d] = [order |-> o, status |-> "OPEN"]]
    /\ UNCHANGED <<ledgerVars, registryVars, verificationVars, settlementVars>>

resolveDispute(d, verdict) ==
    /\ disputes[d] # None
    /\ disputes[d].status = "OPEN"
    /\ disputes' = [disputes EXCEPT ![d].status = "RESOLVED"]
    /\ orders' = [orders EXCEPT
          ![disputes[d].order].disputed = FALSE,
          ![disputes[d].order].status = IF verdict = "REJECT" THEN "REJECTED" ELSE @]
    /\ UNCHANGED <<ledgerVars, registryVars, verificationVars, settlementVars>>

-----------------------------------------------------------------------------
AccountStep ==
    \/ \E r \in Root, n \in Amount : faucet(r, n)
    \/ \E from, to \in Root, n \in Amount : transfer(from, to, n)
    \/ \E a \in Agent, status \in AgentStatus : setAgentStatus(a, status)

OrderStep(o) ==
    \/ \E a \in Agent \cup {None}, r \in Root, n \in Amount :
        createWorkOrder(o, a, r, n)
    \/ \E a \in Agent : acceptWork(o, a)
    \/ submitWorkResult(o)
    \/ \E v \in Verifier, verdict \in {"ACCEPT", "REJECT"}, owed \in BOOLEAN :
        voteWork(o, v, verdict, owed)
    \/ \E x \in ReceiptId, pay \in PaymentId, n \in Amount :
        finalizeReceipt(o, x, pay, n) \/ settleVerifiedWork(o, x, pay, n)
    \/ \E d \in DisputeId : openDispute(o, d)

Next ==
    \/ AccountStep
    \/ \E v \in Verifier : registerVerifier(v)
    \/ \E o \in Order : OrderStep(o)
    \/ \E d \in DisputeId, verdict \in {"UPHOLD", "REJECT"} : resolveDispute(d, verdict)

Spec == Init /\ [][Next]_vars

-----------------------------------------------------------------------------
\* Records keep their shapes: no operation overdraws an account or an escrow, or
\* leaves an order, vote or dispute without the fields later operations read.
TypeOK ==
    /\ accounts \in [Root -> Nat \cup {None}]
    /\ claimed \in [Root -> Nat]
    /\ agents \in [Agent -> AgentStatus]
    /\ agentReferrals \in [Agent -> {"PENDING", "QUALIFIED", None}]
    /\ orders \in [Order -> OrderRecord \cup {None}]
    /\ workResults \in [Order -> {"VERIFYING", "VERIFIED", None}]
    /\ committees \in [Order -> (SUBSET Verifier) \cup {None}]
    /\ verifiers \in SUBSET Verifier
    /\ slashed \in [Verifier -> Nat]
    /\ votes \in [Order -> SUBSET VoteRecord]
    /\ receipts \in [ReceiptId -> ReceiptRecord \cup {None}]
    /\ disputes \in [DisputeId -> DisputeRecord \cup {None}]
    /\ settlements \in [Order -> Seq(PaymentId)]

Units(acc) == [r \in Root |-> Balance(acc, r)]

Escrowed(ords) == [o \in Order |-> IF ords[o] = None THEN 0 ELSE ords[o].escrowed]

\* Units are neither made nor lost by work orders: what accounts and escrows
\* hold is what the faucet gave.
UnitsConserved ==
    SumFunction(Units(accounts)) + SumFunction(Escrowed(orders)) = SumFunction(claimed)

\* An order is settled at most once, whatever disputes are opened and however
\* they are resolved; until then its escrow is whole, and then it is empty.
SettledOnce ==
    \A o \in Order :
        /\ Len(settlements[o]) <= 1
        /\ HasStatus(o, {"PAID"}) => Len(settlements[o]) = 1
        /\ Len(settlements[o]) = 1 => HasStatus(o, {"PAID", "REJECTED"})
        /\ orders[o] # None /\ orders[o].mode = "NATIVE_ESCROW" =>
            orders[o].escrowed = IF Len(settlements[o]) = 1 THEN 0 ELSE orders[o].funded

\* A counted vote comes from a registered verifier that is related neither to
\* the order's requester nor to the agent the order ends up with, and each
\* verifier has one vote.
VotesIndependent ==
    \A o \in Order : \A w \in votes[o] :
        /\ orders[o] # None
        /\ w.verifier \in verifiers
        /\ w.excluded <=> Conflict(o, w.verifier)
        /\ \A x \in votes[o] : x.verifier = w.verifier => x = w

\* A referral is qualified by work of that agent whose votes still amount to
\* a verification: nothing is added to them after the settlement.
ReferralEarned ==
    \A a \in Agent : agentReferrals[a] = "QUALIFIED" =>
        \E o \in Order :
            /\ orders[o] # None
            /\ orders[o].agent = a
            /\ workResults[o] = "VERIFIED"
            /\ Verified(o)

-----------------------------------------------------------------------------
(* The invariant that carries the proofs.                                    *)

Taken(o) == HasStatus(o, {"ACCEPTED", "VERIFYING", "PAID", "REJECTED"})

\* What an order's status says about it; and only orders taken are disputed.
OrderShape ==
    /\ \A o \in Order :
        /\ Taken(o) => orders[o].agent # None
        /\ votes[o] # {} => HasStatus(o, {"VERIFYING", "PAID", "REJECTED"})
        /\ workResults[o] = "VERIFIED" => HasStatus(o, {"PAID", "REJECTED"})
    /\ \A d \in DisputeId : disputes[d] # None => Taken(disputes[d].order)

\* A declared funding is not paid, so nothing is held for it.
DeclaredHoldsNothing ==
    \A o \in Order : orders[o] # None /\ orders[o].mode = "FIXTURE_DECLARATION" =>
        orders[o].escrowed = 0

WorkInv == TypeOK /\ OrderShape /\ SettledOnce /\ VotesIndependent /\ ReferralEarned

-----------------------------------------------------------------------------
(* The ledger the operations implement.                                      *)

\* Only an order funded from an account holds units.
HeldFor(order) ==
    IF order = None \/ order.mode = "FIXTURE_DECLARATION" THEN None
    ELSE [from |-> order.requester, held |-> order.escrowed]

ledgerBalance == Units(accounts)

ledgerEscrow == [o \in Order |-> HeldFor(orders[o])]

Ledger == INSTANCE EscrowLedger WITH balance <- ledgerBalance, escrow <- ledgerEscrow

\* Units move only as the ledger allows: what an order holds leaves it once,
\* as a whole, to a payee and back to the requester.
LedgerSpec == Ledger!Spec

-----------------------------------------------------------------------------
(* What the documents promise beyond that.                                   *)

\* The escrow of a rejected order returns to the requester.
EscrowReturned ==
    \A o \in Order : HasStatus(o, {"REJECTED"}) => orders[o].escrowed = 0

\* A payment settles one order.
PaymentSettlesOneOrder ==
    \A o, q \in Order :
        o # q => Range(settlements[o]) \cap Range(settlements[q]) = {}
=============================================================================
