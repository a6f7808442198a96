-------------------------- MODULE WorkOrdersProofs --------------------------
(* Theorems about the work-order market.                                     *)
EXTENDS WorkOrders, FiniteSums, TLAPS

\* A credited account exists and holds what it held plus the credit.
LEMMA CreditType ==
    ASSUME NEW acc \in [Root -> Nat \cup {None}], NEW r \in Root, NEW n \in Nat
    PROVE  /\ Credit(acc, r, n) \in [Root -> Nat \cup {None}]
           /\ Credit(acc, r, n)[r] # None
  BY AmountsValid DEF Credit, Balance

\* An order with a status is one.
LEMMA HasStatusFacts ==
    ASSUME TypeOK, NEW o \in Order, NEW S, HasStatus(o, S)
    PROVE  orders[o] \in OrderRecord /\ orders[o].status \in S
  BY DEF TypeOK, HasStatus

\* The fields of a new order have their types.
LEMMA NewOrderType ==
    ASSUME TypeOK, NEW o \in Order, NEW a \in Agent \cup {None}, NEW r \in Root,
           NEW n \in Amount, NEW mode \in {"NATIVE_ESCROW", "FIXTURE_DECLARATION"},
           NEW held \in {0, n}, NewOrder(o, a, r, n, mode, held)
    PROVE  orders' \in [Order -> OrderRecord \cup {None}]
  BY AmountsValid DEF TypeOK, NewOrder, OrderRecord, Amount

\* A committee is a set of verifiers.
LEMMA CommitteeType ==
    ASSUME TypeOK, NEW o \in Order
    PROVE  /\ Eligible(o) \in SUBSET Verifier
           /\ CommitteeAt(o) \in (SUBSET Verifier) \cup {None}
  BY DEF TypeOK, Eligible, CommitteeAt

\* A settlement keeps the types of what it changes.
LEMMA SettleType ==
    ASSUME TypeOK, OrderShape, NEW o \in Order, NEW x \in ReceiptId,
           NEW pay \in PaymentId, NEW n \in Amount, Settle(o, x, pay, n)
    PROVE  /\ accounts' \in [Root -> Nat \cup {None}]
           /\ orders' \in [Order -> OrderRecord \cup {None}]
           /\ receipts' \in [ReceiptId -> ReceiptRecord \cup {None}]
           /\ settlements' \in [Order -> Seq(PaymentId)]
           /\ [orders[o] EXCEPT !.status = "PAID", !.escrowed = 0] \in OrderRecord
  <1>1. orders[o] \in OrderRecord /\ orders[o].agent \in Agent
    BY HasStatusFacts DEF Settle, OrderShape, Taken, HasStatus, OrderRecord
  <1>2. accounts' \in [Root -> Nat \cup {None}]
    <2>1. CASE orders[o].mode = "NATIVE_ESCROW"
      <3>1. /\ orders[o].agent \in Root /\ orders[o].requester \in Root
            /\ n \in Nat /\ orders[o].escrowed - n \in Nat
        BY <1>1, <2>1, RegistriesValid, AmountsValid DEF Settle, OrderRecord, Amount
      <3> DEFINE paid == Credit(accounts, orders[o].agent, n)
      <3>2. paid \in [Root -> Nat \cup {None}]
        BY <3>1, CreditType DEF TypeOK
      <3>3. accounts' = Credit(paid, orders[o].requester, orders[o].escrowed - n)
        BY <2>1 DEF Settle, PayOut
      <3> HIDE DEF paid
      <3> QED BY <3>1, <3>2, <3>3, CreditType
    <2>2. CASE orders[o].mode # "NATIVE_ESCROW"
      BY <2>2 DEF Settle, PayOut, TypeOK
    <2> QED BY <2>1, <2>2
  <1>3. [orders[o] EXCEPT !.status = "PAID", !.escrowed = 0] \in OrderRecord
    <2>1. 0 \in 0..MaxAmount
      BY AmountsValid
    <2> QED BY <1>1, <2>1 DEF OrderRecord
  <1>4. orders' \in [Order -> OrderRecord \cup {None}]
    BY <1>3 DEF Settle, TypeOK
  <1>5. receipts' \in [ReceiptId -> ReceiptRecord \cup {None}]
    BY DEF TypeOK, Settle, ReceiptRecord
  <1>6. settlements' \in [Order -> Seq(PaymentId)]
    BY DEF TypeOK, Settle
  <1> QED BY <1>2, <1>3, <1>4, <1>5, <1>6

-----------------------------------------------------------------------------
(* The invariant: nothing has happened at first, and each operation keeps it *)

\* Nothing has happened at first, so the invariant holds.
LEMMA InitInv == Init => WorkInv
  <1> SUFFICES ASSUME Init PROVE WorkInv
    OBVIOUS
  <1>1. TypeOK
    <2>1. /\ <<>> \in Seq(PaymentId) /\ {} \subseteq Verifier
          /\ {} \in SUBSET VoteRecord
      OBVIOUS
    <2> QED BY <2>1, RegistriesValid DEF Init, TypeOK
  <1>2. OrderShape
    BY NoneIsNoRecord DEF Init, OrderShape, Taken, HasStatus
  <1>3. SettledOnce
    <2>1. \A o \in Order : Len(settlements[o]) = 0 /\ orders[o] = None
      BY DEF Init
    <2> QED BY <2>1 DEF SettledOnce, HasStatus
  <1>4. VotesIndependent
    BY DEF Init, VotesIndependent
  <1>5. ReferralEarned
    <2>1. \A a \in Agent : agentReferrals[a] # "QUALIFIED"
      BY NoneIsNoRecord DEF Init
    <2> QED BY <2>1 DEF ReferralEarned
  <1> QED BY <1>1, <1>2, <1>3, <1>4, <1>5 DEF WorkInv

\* Whether an order is verified depends on its votes alone.
LEMMA VerifiedKept ==
    ASSUME NEW o \in Order, votes'[o] = votes[o]
    PROVE  Verified(o)' <=> Verified(o)
  BY DEF Verified, Counted

\* A step that leaves orders, votes and settlements alone keeps all but types.
LEMMA OrdersUntouched ==
    ASSUME WorkInv, TypeOK', verifiers \subseteq verifiers',
           UNCHANGED <<orders, workResults, votes, agentReferrals, settlements, disputes>>
    PROVE  WorkInv'
  <1>1. OrderShape'
    BY DEF WorkInv, OrderShape, Taken, HasStatus
  <1>2. SettledOnce'
    BY DEF WorkInv, SettledOnce, HasStatus
  <1>3. VotesIndependent'
    BY DEF WorkInv, VotesIndependent, Conflict
  <1>4. ReferralEarned'
    BY VerifiedKept DEF WorkInv, ReferralEarned
  <1> QED BY <1>1, <1>2, <1>3, <1>4 DEF WorkInv

\* An order that is neither paid nor rejected is not settled.
LEMMA Unsettled ==
    ASSUME TypeOK, SettledOnce, NEW o \in Order, ~HasStatus(o, {"PAID", "REJECTED"})
    PROVE  Len(settlements[o]) = 0
  <1>1. Len(settlements[o]) \in Nat
    BY DEF TypeOK
  <1>2. Len(settlements[o]) <= 1 /\ Len(settlements[o]) # 1
    BY DEF SettledOnce
  <1>3. \A k \in Nat : k <= 1 /\ k # 1 => k = 0
    OBVIOUS
  <1> QED BY <1>1, <1>2, <1>3

\* faucet, transfer and setAgentStatus keep the invariant.
LEMMA AccountInv == ASSUME WorkInv, AccountStep PROVE WorkInv'
  <1>1. TypeOK /\ TypeOK'
    <2>1. ASSUME NEW r \in Root, NEW n \in Amount, faucet(r, n)
          PROVE  TypeOK'
      <3>1. n \in Nat
        BY DEF Amount
      <3>2. accounts' \in [Root -> Nat \cup {None}]
        BY <2>1, <3>1, CreditType DEF WorkInv, TypeOK, faucet
      <3>3. claimed' \in [Root -> Nat]
        BY <2>1, <3>1 DEF WorkInv, TypeOK, faucet
      <3> QED BY <2>1, <3>2, <3>3 DEF WorkInv, TypeOK, faucet, registryVars,
                 verificationVars, settlementVars
    <2>2. ASSUME NEW from \in Root, NEW to \in Root, NEW n \in Amount,
                 transfer(from, to, n)
          PROVE  TypeOK'
      <3> DEFINE paid == [accounts EXCEPT ![from] = @ - n]
      <3>1. n \in Nat
        BY DEF Amount
      <3>2. accounts[from] \in Nat /\ accounts[from] - n \in Nat
        BY <2>2, <3>1 DEF WorkInv, TypeOK, transfer
      <3>3. paid \in [Root -> Nat \cup {None}] /\ accounts' = Credit(paid, to, n)
        BY <2>2, <3>2 DEF WorkInv, TypeOK, transfer
      <3> HIDE DEF paid
      <3>4. accounts' \in [Root -> Nat \cup {None}]
        BY <3>1, <3>3, CreditType
      <3> QED BY <2>2, <3>4 DEF WorkInv, TypeOK, transfer, registryVars,
                 verificationVars, settlementVars
    <2>3. ASSUME NEW a \in Agent, NEW status \in AgentStatus, setAgentStatus(a, status)
          PROVE  TypeOK'
      BY <2>3 DEF WorkInv, TypeOK, setAgentStatus, ledgerVars, verificationVars,
         settlementVars
    <2> QED BY <2>1, <2>2, <2>3 DEF WorkInv, AccountStep
  <1>2. UNCHANGED <<verifiers, orders, workResults, votes, agentReferrals,
                    settlements, disputes>>
    BY DEF AccountStep, faucet, transfer, setAgentStatus, registryVars,
       verificationVars, settlementVars
  <1> QED BY <1>1, <1>2, OrdersUntouched

\* registerVerifier keeps it: votes only need their verifiers to stay.
LEMMA RegisterVerifierInv ==
    ASSUME WorkInv, NEW v \in Verifier, registerVerifier(v)
    PROVE  WorkInv'
  <1>1. TypeOK'
    BY DEF WorkInv, TypeOK, registerVerifier, ledgerVars, verificationVars,
       settlementVars
  <1>2. /\ verifiers \subseteq verifiers'
        /\ UNCHANGED <<orders, workResults, votes, agentReferrals, settlements, disputes>>
    BY DEF registerVerifier, verificationVars, settlementVars
  <1> QED BY <1>1, <1>2, OrdersUntouched

\* createWorkOrder keeps it: a new order has no vote and no settlement.
LEMMA CreateWorkOrderInv ==
    ASSUME WorkInv, NEW o \in Order, NEW a \in Agent \cup {None}, NEW r \in Root,
           NEW n \in Amount, createWorkOrder(o, a, r, n)
    PROVE  WorkInv'
  <1> USE DEF createWorkOrder
  <1>1. PICK mode \in {"NATIVE_ESCROW", "FIXTURE_DECLARATION"}, held \in {0, n} :
            /\ NewOrder(o, a, r, n, mode, held)
            /\ mode = "NATIVE_ESCROW" => held = n
    OBVIOUS
  <1>2. UNCHANGED <<workResults, votes, agentReferrals, settlements, disputes, verifiers>>
    BY DEF registryVars, verificationVars, settlementVars
  <1>3. /\ orders[o] = None /\ votes[o] = {} /\ workResults[o] # "VERIFIED"
        /\ Len(settlements[o]) = 0 /\ \A d \in DisputeId : disputes[d] # None =>
                                         disputes[d].order # o
    <2>1. orders[o] = None
      OBVIOUS
    <2>2. votes[o] = {} /\ workResults[o] # "VERIFIED"
      BY <2>1 DEF WorkInv, OrderShape, HasStatus
    <2>3. Len(settlements[o]) = 0
      BY <2>1, Unsettled DEF WorkInv, HasStatus
    <2>4. \A d \in DisputeId : disputes[d] # None => disputes[d].order # o
      BY <2>1 DEF WorkInv, OrderShape, Taken, HasStatus
    <2> QED BY <2>1, <2>2, <2>3, <2>4
  <1>4. /\ orders'[o] # None /\ orders'[o].status = "OPEN"
        /\ orders'[o].mode = mode /\ orders'[o].escrowed = held /\ orders'[o].funded = n
        /\ \A q \in Order \ {o} : orders'[q] = orders[q]
    <2>1. orders' \in [Order -> OrderRecord \cup {None}]
      BY <1>1, NewOrderType DEF WorkInv
    <2>2. orders'[o] \in OrderRecord
      BY <1>1, AmountsValid, NewOrderType
         DEF WorkInv, TypeOK, NewOrder, OrderRecord, Amount
    <2> QED BY <1>1, <2>2, NoneIsNoRecord DEF WorkInv, TypeOK, NewOrder
  <1>5. TypeOK'
    <2>1. orders' \in [Order -> OrderRecord \cup {None}]
      BY <1>1, NewOrderType DEF WorkInv
    <2>2. accounts' \in [Root -> Nat \cup {None}]
      <3>1. n \in Nat
        BY DEF Amount
      <3>2. CASE accounts[r] = None
        BY <3>2 DEF WorkInv, TypeOK
      <3>3. CASE accounts[r] # None
        <4>1. accounts[r] - n \in Nat
          BY <3>1, <3>3 DEF WorkInv, TypeOK
        <4> QED BY <3>3, <4>1 DEF WorkInv, TypeOK
      <3> QED BY <3>2, <3>3
    <2> QED BY <2>1, <2>2 DEF WorkInv, TypeOK, registryVars, verificationVars,
               settlementVars
  <1> HIDE DEF createWorkOrder
  <1>6. OrderShape'
    <2>1. \A q \in Order \ {o} : \A S : HasStatus(q, S)' <=> HasStatus(q, S)
      BY <1>4 DEF HasStatus
    <2>2. \A d \in DisputeId : disputes[d] # None => disputes[d].order \in Order
      BY DEF WorkInv, TypeOK, DisputeRecord
    <2>3. ~Taken(o)'
      BY <1>4 DEF Taken, HasStatus
    <2> QED BY <1>2, <1>3, <1>4, <2>1, <2>2, <2>3 DEF WorkInv, OrderShape, Taken
  <1>7. SettledOnce'
    BY <1>1, <1>2, <1>3, <1>4 DEF WorkInv, SettledOnce, HasStatus
  <1>8. VotesIndependent'
    BY <1>2, <1>3, <1>4 DEF WorkInv, VotesIndependent, Conflict
  <1>9. ReferralEarned'
    BY <1>2, <1>3, <1>4, VerifiedKept DEF WorkInv, ReferralEarned
  <1> QED BY <1>5, <1>6, <1>7, <1>8, <1>9 DEF WorkInv

-----------------------------------------------------------------------------
(* What a step must keep of the orders for each part of the invariant.       *)

\* Replacing one order leaves the others as they are.
LEMMA OneOrder ==
    ASSUME TypeOK, NEW o \in Order, NEW rec \in OrderRecord,
           orders' = [orders EXCEPT ![o] = rec]
    PROVE  /\ orders' \in [Order -> OrderRecord \cup {None}]
           /\ orders'[o] = rec /\ rec # None
           /\ \A q \in Order \ {o} : orders'[q] = orders[q]
  BY NoneIsNoRecord DEF TypeOK

\* Votes stay independent while the parties of the orders voted on stay.
LEMMA VotesFrame ==
    ASSUME VotesIndependent, votes' = votes, verifiers' = verifiers,
           \A q \in Order : votes[q] # {} =>
               /\ orders'[q] # None
               /\ orders'[q].agent = orders[q].agent
               /\ orders'[q].requester = orders[q].requester
    PROVE  VotesIndependent'
  BY DEF VotesIndependent, Conflict

\* A referral stays earned while verified orders keep their votes and agents.
LEMMA ReferralFrame ==
    ASSUME ReferralEarned, agentReferrals' = agentReferrals,
           \A q \in Order : workResults[q] = "VERIFIED" =>
               /\ workResults'[q] = "VERIFIED"
               /\ votes'[q] = votes[q]
               /\ orders'[q] # None
               /\ orders'[q].agent = orders[q].agent
    PROVE  ReferralEarned'
  BY VerifiedKept DEF ReferralEarned

\* Settlement stays as it is while money and the final states do.
LEMMA SettledFrame ==
    ASSUME SettledOnce, settlements' = settlements,
           \A q \in Order :
               /\ HasStatus(q, {"PAID"})' => HasStatus(q, {"PAID"})
               /\ HasStatus(q, {"PAID", "REJECTED"}) =>
                   HasStatus(q, {"PAID", "REJECTED"})'
               /\ orders'[q] # None =>
                   /\ orders[q] # None
                   /\ orders'[q].mode = orders[q].mode
                   /\ orders'[q].escrowed = orders[q].escrowed
                   /\ orders'[q].funded = orders[q].funded
    PROVE  SettledOnce'
  <1> SUFFICES ASSUME NEW q \in Order
               PROVE  /\ Len(settlements[q]) <= 1
                      /\ HasStatus(q, {"PAID"})' => Len(settlements[q]) = 1
                      /\ Len(settlements[q]) = 1 => HasStatus(q, {"PAID", "REJECTED"})'
                      /\ orders'[q] # None /\ orders'[q].mode = "NATIVE_ESCROW" =>
                          orders'[q].escrowed =
                              IF Len(settlements[q]) = 1 THEN 0 ELSE orders'[q].funded
    BY DEF SettledOnce
  <1> QED BY DEF SettledOnce

-----------------------------------------------------------------------------
\* acceptWork keeps it: no vote is cast before the agent is fixed.
LEMMA AcceptWorkInv ==
    ASSUME WorkInv, NEW o \in Order, NEW a \in Agent, acceptWork(o, a)
    PROVE  WorkInv'
  <1> DEFINE taken == [orders[o] EXCEPT !.agent = a, !.status = "ACCEPTED"]
  <1> USE DEF WorkInv
  <1>1. /\ orders[o] # None /\ orders[o] \in OrderRecord /\ orders[o].status = "OPEN"
        /\ orders' = [orders EXCEPT ![o] = taken]
        /\ UNCHANGED <<accounts, claimed, agents, agentReferrals, workResults,
                       committees, verifiers, slashed, votes, receipts, disputes,
                       settlements>>
    BY HasStatusFacts DEF acceptWork, HasStatus, ledgerVars, registryVars,
       verificationVars, settlementVars
  <1>2. /\ taken \in OrderRecord /\ taken.agent \in Agent /\ taken.status = "ACCEPTED"
        /\ taken.mode = orders[o].mode /\ taken.escrowed = orders[o].escrowed
        /\ taken.funded = orders[o].funded
    BY <1>1 DEF OrderRecord
  <1> HIDE DEF taken
  <1>3. /\ orders' \in [Order -> OrderRecord \cup {None}]
        /\ orders'[o] = taken /\ taken # None
        /\ \A q \in Order \ {o} : orders'[q] = orders[q]
    BY <1>1, <1>2, OneOrder
  <1>4. votes[o] = {} /\ workResults[o] # "VERIFIED"
    BY <1>1 DEF OrderShape, HasStatus
  <1>5. \A q \in Order \ {o} : \A S : HasStatus(q, S)' <=> HasStatus(q, S)
    BY <1>3 DEF HasStatus
  <1>6. TypeOK'
    BY <1>1, <1>3 DEF TypeOK
  <1>7. OrderShape'
    <2>1. Taken(o)' /\ taken.agent # None
      BY <1>2, <1>3, RegistriesValid, AmountsValid DEF Taken, HasStatus
    <2>2. \A d \in DisputeId : disputes[d] # None => disputes[d].order \in Order
      BY DEF TypeOK, DisputeRecord
    <2> QED BY <1>1, <1>3, <1>4, <1>5, <2>1, <2>2 DEF OrderShape, Taken
  <1>8. SettledOnce'
    <2>1. ~HasStatus(o, {"PAID"})' /\ ~HasStatus(o, {"PAID", "REJECTED"})
      BY <1>1, <1>2, <1>3 DEF HasStatus
    <2> QED BY <1>1, <1>2, <1>3, <1>5, <2>1, SettledFrame
  <1>9. VotesIndependent' /\ ReferralEarned'
    <2>1. \A q \in Order : votes[q] # {} \/ workResults[q] = "VERIFIED" =>
              q # o /\ orders[q] # None
      BY <1>4 DEF OrderShape, HasStatus
    <2> QED BY <1>1, <1>3, <2>1, VotesFrame, ReferralFrame
  <1> QED BY <1>6, <1>7, <1>8, <1>9

\* submitWorkResult keeps it: an accepted order has no votes yet.
LEMMA SubmitWorkResultInv ==
    ASSUME WorkInv, NEW o \in Order, submitWorkResult(o)
    PROVE  WorkInv'
  <1> DEFINE sent == [orders[o] EXCEPT !.status = "VERIFYING"]
  <1> USE DEF WorkInv
  <1>1. /\ orders[o] # None /\ orders[o] \in OrderRecord /\ orders[o].status = "ACCEPTED"
        /\ orders' = [orders EXCEPT ![o] = sent]
        /\ workResults' = [workResults EXCEPT ![o] = "VERIFYING"]
        /\ committees' = [committees EXCEPT ![o] = None]
        /\ UNCHANGED <<accounts, claimed, agents, agentReferrals, verifiers, slashed,
                       votes, receipts, disputes, settlements>>
    BY HasStatusFacts DEF submitWorkResult, HasStatus, ledgerVars, registryVars,
       settlementVars
  <1>2. /\ sent \in OrderRecord /\ sent.agent = orders[o].agent
        /\ sent.status = "VERIFYING" /\ sent.mode = orders[o].mode
        /\ sent.escrowed = orders[o].escrowed /\ sent.funded = orders[o].funded
    BY <1>1 DEF OrderRecord
  <1> HIDE DEF sent
  <1>3. /\ orders' \in [Order -> OrderRecord \cup {None}]
        /\ orders'[o] = sent /\ sent # None
        /\ \A q \in Order \ {o} : orders'[q] = orders[q]
    BY <1>1, <1>2, OneOrder
  <1>4. votes[o] = {} /\ workResults[o] # "VERIFIED" /\ orders[o].agent # None
    BY <1>1 DEF OrderShape, Taken, HasStatus
  <1>5. \A q \in Order \ {o} : \A S : HasStatus(q, S)' <=> HasStatus(q, S)
    BY <1>3 DEF HasStatus
  <1>6. TypeOK'
    BY <1>1, <1>3 DEF TypeOK
  <1>7. \A q \in Order : (workResults'[q] = "VERIFIED") <=> (workResults[q] = "VERIFIED")
    BY <1>1, <1>4 DEF TypeOK
  <1>8. OrderShape'
    <2>1. Taken(o)'
      BY <1>2, <1>3 DEF Taken, HasStatus
    <2>2. \A d \in DisputeId : disputes[d] # None => disputes[d].order \in Order
      BY DEF TypeOK, DisputeRecord
    <2> QED BY <1>1, <1>2, <1>3, <1>4, <1>5, <1>7, <2>1, <2>2 DEF OrderShape, Taken
  <1>9. SettledOnce'
    <2>1. ~HasStatus(o, {"PAID"})' /\ ~HasStatus(o, {"PAID", "REJECTED"})
      BY <1>1, <1>2, <1>3 DEF HasStatus
    <2> QED BY <1>1, <1>2, <1>3, <1>5, <2>1, SettledFrame
  <1>10. VotesIndependent' /\ ReferralEarned'
    <2>1. \A q \in Order : votes[q] # {} \/ workResults[q] = "VERIFIED" =>
              q # o /\ orders[q] # None
      BY <1>4 DEF OrderShape, HasStatus
    <2> QED BY <1>1, <1>3, <1>7, <2>1, VotesFrame, ReferralFrame
  <1> QED BY <1>6, <1>8, <1>9, <1>10

\* voteWork keeps it: the verifier is new to the order.
LEMMA VoteWorkInv ==
    ASSUME WorkInv, NEW o \in Order, NEW v \in Verifier,
           NEW verdict \in {"ACCEPT", "REJECT"}, NEW owed \in BOOLEAN,
           voteWork(o, v, verdict, owed)
    PROVE  WorkInv'
  <1> USE DEF WorkInv
  <1>1. /\ orders[o] # None /\ HasStatus(o, {"VERIFYING"}) /\ v \in verifiers
        /\ \A x \in votes[o] : x.verifier # v
        /\ UNCHANGED <<accounts, claimed, agents, agentReferrals, orders, workResults,
                       verifiers, receipts, disputes, settlements>>
    BY DEF voteWork, HasStatus, ledgerVars, registryVars, settlementVars
  <1>2. PICK excluded \in BOOLEAN, repaid \in BOOLEAN :
            /\ Record(o, v, verdict, excluded, repaid)
            /\ excluded <=> Conflict(o, v)
    BY DEF voteWork
  <1> DEFINE vote == [verifier |-> v, verdict |-> verdict, excluded |-> excluded,
                      owed |-> repaid]
  <1>3. /\ vote \in VoteRecord /\ vote.verifier = v
        /\ vote.excluded <=> Conflict(o, v)
        /\ votes' = [votes EXCEPT ![o] = @ \cup {vote}]
    BY <1>2 DEF Record, VoteRecord
  <1> HIDE DEF vote
  <1>4. TypeOK'
    <2>1. votes' \in [Order -> SUBSET VoteRecord]
      BY <1>3 DEF TypeOK
    <2>2. slashed' \in [Verifier -> Nat]
      <3>1. slashed' = slashed \/ slashed' = [slashed EXCEPT ![v] = @ + 1]
        BY DEF voteWork
      <3> QED BY <3>1 DEF TypeOK
    <2>3. committees' \in [Order -> (SUBSET Verifier) \cup {None}]
      BY CommitteeType DEF TypeOK, voteWork
    <2> QED BY <1>1, <2>1, <2>2, <2>3 DEF TypeOK
  <1>5. OrderShape'
    <2>1. HasStatus(o, {"VERIFYING", "PAID", "REJECTED"})
      BY <1>1 DEF HasStatus
    <2>2. \A q \in Order \ {o} : votes'[q] = votes[q]
      BY <1>3 DEF TypeOK
    <2> QED BY <1>1, <2>1, <2>2 DEF OrderShape, Taken, HasStatus
  <1>6. SettledOnce'
    BY <1>1, SettledFrame DEF HasStatus
  <1>7. VotesIndependent'
    <2> SUFFICES ASSUME NEW q \in Order, NEW w \in votes'[q]
                 PROVE  /\ orders[q] # None
                        /\ w.verifier \in verifiers
                        /\ w.excluded <=> Conflict(q, w.verifier)
                        /\ \A x \in votes'[q] : x.verifier = w.verifier => x = w
      BY <1>1 DEF VotesIndependent, Conflict
    <2>1. CASE q = o
      <3>1. votes'[o] = votes[o] \cup {vote}
        BY <1>3 DEF TypeOK
      <3>2. CASE w = vote
        BY <1>1, <1>3, <2>1, <3>1, <3>2
      <3>3. CASE w \in votes[o]
        BY <1>1, <1>3, <2>1, <3>1, <3>3 DEF VotesIndependent
      <3> QED BY <2>1, <3>1, <3>2, <3>3
    <2>2. CASE q # o
      BY <1>3, <2>2 DEF VotesIndependent, TypeOK
    <2> QED BY <2>1, <2>2
  <1>8. ReferralEarned'
    <2>1. \A q \in Order : workResults[q] = "VERIFIED" =>
              votes'[q] = votes[q] /\ orders[q] # None
      BY <1>1, <1>3 DEF TypeOK, OrderShape, HasStatus
    <2> QED BY <1>1, <2>1, ReferralFrame
  <1> QED BY <1>4, <1>5, <1>6, <1>7, <1>8

\* openDispute keeps it: only the mark and the dispute change.
LEMMA OpenDisputeInv ==
    ASSUME WorkInv, NEW o \in Order, NEW d \in DisputeId, openDispute(o, d)
    PROVE  WorkInv'
  <1> DEFINE held == [orders[o] EXCEPT !.disputed = TRUE]
  <1> USE DEF WorkInv
  <1>1. /\ orders[o] # None /\ orders[o] \in OrderRecord
        /\ orders[o].status \in {"ACCEPTED", "VERIFYING", "PAID"}
        /\ orders' = [orders EXCEPT ![o] = held]
        /\ disputes' = [disputes EXCEPT ![d] = [order |-> o, status |-> "OPEN"]]
        /\ UNCHANGED <<accounts, claimed, agents, agentReferrals, workResults,
                       committees, verifiers, slashed, votes, receipts, settlements>>
    BY HasStatusFacts DEF openDispute, HasStatus, ledgerVars, registryVars,
       verificationVars, settlementVars
  <1>2. /\ held \in OrderRecord /\ held.agent = orders[o].agent
        /\ held.requester = orders[o].requester
        /\ held.status = orders[o].status /\ held.mode = orders[o].mode
        /\ held.escrowed = orders[o].escrowed /\ held.funded = orders[o].funded
    BY <1>1 DEF OrderRecord
  <1> HIDE DEF held
  <1>3. /\ orders' \in [Order -> OrderRecord \cup {None}]
        /\ orders'[o] = held /\ held # None
        /\ \A q \in Order \ {o} : orders'[q] = orders[q]
    BY <1>1, <1>2, OneOrder
  <1>4. \A q \in Order :
            /\ \A S : HasStatus(q, S)' <=> HasStatus(q, S)
            /\ orders[q] # None <=> orders'[q] # None
            /\ orders[q] # None =>
                /\ orders'[q].agent = orders[q].agent
                /\ orders'[q].requester = orders[q].requester
                /\ orders'[q].mode = orders[q].mode
                /\ orders'[q].escrowed = orders[q].escrowed
                /\ orders'[q].funded = orders[q].funded
    BY <1>1, <1>2, <1>3 DEF HasStatus
  <1>5. TypeOK'
    <2>1. disputes' \in [DisputeId -> DisputeRecord \cup {None}]
      BY <1>1 DEF TypeOK, DisputeRecord
    <2> QED BY <1>1, <1>3, <2>1 DEF TypeOK
  <1>6. OrderShape'
    <2>1. \A q \in Order : Taken(q)' <=> Taken(q)
      BY <1>4 DEF Taken
    <2>2. \A q \in Order : Taken(q) => orders[q] # None
      BY DEF Taken, HasStatus
    <2>3. \A q \in Order :
            /\ Taken(q)' => orders'[q].agent # None
            /\ votes'[q] # {} => HasStatus(q, {"VERIFYING", "PAID", "REJECTED"})'
            /\ workResults'[q] = "VERIFIED" => HasStatus(q, {"PAID", "REJECTED"})'
      BY <1>1, <1>4, <2>1, <2>2 DEF OrderShape
    <2>4. ASSUME NEW e \in DisputeId, disputes'[e] # None
          PROVE  Taken(disputes[e].order)'
      <3>1. CASE e = d
        <4>1. disputes'[e].order = o /\ Taken(o)
          BY <1>1, <3>1 DEF TypeOK, Taken, HasStatus
        <4> QED BY <2>1, <4>1 DEF Taken, HasStatus
      <3>2. CASE e # d
        <4>1. disputes'[e] = disputes[e] /\ disputes[e].order \in Order
          BY <1>1, <2>4, <3>2 DEF TypeOK, DisputeRecord
        <4>2. Taken(disputes[e].order)
          BY <2>4, <4>1 DEF OrderShape
        <4> QED BY <2>1, <4>1, <4>2 DEF Taken, HasStatus
      <3> QED BY <3>1, <3>2
    <2> QED BY <2>3, <2>4 DEF OrderShape
  <1>7. SettledOnce'
    BY <1>1, <1>4, SettledFrame
  <1>8. VotesIndependent' /\ ReferralEarned'
    <2>1. \A q \in Order : votes[q] # {} \/ workResults[q] = "VERIFIED" =>
              orders[q] # None
      BY DEF OrderShape, HasStatus
    <2> QED BY <1>1, <1>4, <2>1, VotesFrame, ReferralFrame
  <1> QED BY <1>5, <1>6, <1>7, <1>8

\* resolveDispute keeps it: no order becomes payable again.
LEMMA ResolveDisputeInv ==
    ASSUME WorkInv, NEW d \in DisputeId, NEW verdict \in {"UPHOLD", "REJECT"},
           resolveDispute(d, verdict)
    PROVE  WorkInv'
  <1> DEFINE o == disputes[d].order
             final == IF verdict = "REJECT" THEN "REJECTED" ELSE orders[o].status
             freed == [orders[o] EXCEPT !.disputed = FALSE, !.status = final]
  <1> USE DEF WorkInv
  <1>1. /\ disputes[d] # None /\ disputes[d] \in DisputeRecord
        /\ disputes' = [disputes EXCEPT ![d].status = "RESOLVED"]
        /\ orders' = [orders EXCEPT ![o] = freed]
        /\ UNCHANGED <<accounts, claimed, agents, agentReferrals, workResults,
                       committees, verifiers, slashed, votes, receipts, settlements>>
    BY DEF resolveDispute, TypeOK, ledgerVars, registryVars, verificationVars,
       settlementVars
  <1>2. /\ o \in Order /\ Taken(o) /\ orders[o] # None /\ orders[o] \in OrderRecord
        /\ orders[o].status \in {"ACCEPTED", "VERIFYING", "PAID", "REJECTED"}
    BY <1>1, HasStatusFacts DEF OrderShape, Taken, HasStatus, DisputeRecord
  <1>3. /\ freed \in OrderRecord /\ freed.agent = orders[o].agent
        /\ freed.requester = orders[o].requester
        /\ freed.status \in {orders[o].status, "REJECTED"} /\ freed.mode = orders[o].mode
        /\ freed.escrowed = orders[o].escrowed /\ freed.funded = orders[o].funded
    BY <1>2 DEF OrderRecord
  <1> HIDE DEF freed, final
  <1>4. /\ orders' \in [Order -> OrderRecord \cup {None}]
        /\ orders'[o] = freed /\ freed # None
        /\ \A q \in Order \ {o} : orders'[q] = orders[q]
    BY <1>1, <1>2, <1>3, OneOrder
  <1>5. disputes' \in [DisputeId -> DisputeRecord \cup {None}]
        /\ \A e \in DisputeId : disputes'[e] # None =>
            disputes[e] # None /\ disputes'[e].order = disputes[e].order
    BY <1>1 DEF TypeOK, DisputeRecord
  <1> HIDE DEF o
  <1>6. \A q \in Order :
            /\ HasStatus(q, {"VERIFYING", "PAID", "REJECTED"}) =>
                HasStatus(q, {"VERIFYING", "PAID", "REJECTED"})'
            /\ HasStatus(q, {"PAID", "REJECTED"}) => HasStatus(q, {"PAID", "REJECTED"})'
            /\ HasStatus(q, {"PAID"})' => HasStatus(q, {"PAID"})
            /\ Taken(q)' => Taken(q)
    BY <1>2, <1>3, <1>4 DEF HasStatus, Taken
  <1>7. \A q \in Order :
            /\ orders[q] # None <=> orders'[q] # None
            /\ orders[q] # None =>
                /\ orders'[q].agent = orders[q].agent
                /\ orders'[q].requester = orders[q].requester
                /\ orders'[q].mode = orders[q].mode
                /\ orders'[q].escrowed = orders[q].escrowed
                /\ orders'[q].funded = orders[q].funded
    BY <1>2, <1>3, <1>4
  <1>8. TypeOK'
    BY <1>1, <1>4, <1>5 DEF TypeOK
  <1>9. OrderShape'
    <2>1. \A q \in Order : Taken(q) => Taken(q)' /\ orders[q] # None
      BY <1>2, <1>3, <1>4 DEF Taken, HasStatus
    <2>2. \A q \in Order :
            /\ Taken(q)' => orders'[q].agent # None
            /\ votes'[q] # {} => HasStatus(q, {"VERIFYING", "PAID", "REJECTED"})'
            /\ workResults'[q] = "VERIFIED" => HasStatus(q, {"PAID", "REJECTED"})'
      BY <1>1, <1>6, <1>7, <2>1 DEF OrderShape
    <2>3. ASSUME NEW e \in DisputeId, disputes'[e] # None
          PROVE  Taken(disputes[e].order)'
      <3>1. /\ disputes'[e].order = disputes[e].order /\ disputes[e].order \in Order
            /\ Taken(disputes[e].order)
        BY <1>5, <2>3 DEF OrderShape, TypeOK, DisputeRecord
      <3> QED BY <2>1, <3>1 DEF Taken, HasStatus
    <2> QED BY <2>2, <2>3 DEF OrderShape
  <1>10. SettledOnce'
    BY <1>1, <1>6, <1>7, SettledFrame
  <1>11. VotesIndependent' /\ ReferralEarned'
    <2>1. \A q \in Order : votes[q] # {} \/ workResults[q] = "VERIFIED" =>
              orders[q] # None
      BY DEF OrderShape, HasStatus
    <2> QED BY <1>1, <1>7, <2>1, VotesFrame, ReferralFrame
  <1> QED BY <1>8, <1>9, <1>10, <1>11

\* A settlement, whatever it says about the result and the referral.
LEMMA SettleKeeps ==
    ASSUME WorkInv, NEW o \in Order, NEW x \in ReceiptId, NEW pay \in PaymentId,
           NEW n \in Amount, Settle(o, x, pay, n),
           UNCHANGED <<votes, verifiers, disputes>>,
           workResults' \in {workResults, [workResults EXCEPT ![o] = "VERIFIED"]}
    PROVE  /\ OrderShape' /\ SettledOnce' /\ VotesIndependent'
           /\ \A q \in Order : orders[q] # None =>
                  orders'[q] # None /\ orders'[q].agent = orders[q].agent
  <1> DEFINE paid == [orders[o] EXCEPT !.status = "PAID", !.escrowed = 0]
  <1> USE DEF WorkInv
  <1>1. /\ orders[o] # None /\ orders[o] \in OrderRecord
        /\ orders[o].status \in {"ACCEPTED", "VERIFYING"}
        /\ orders' = [orders EXCEPT ![o] = paid]
        /\ settlements' = [settlements EXCEPT ![o] = Append(@, pay)]
    BY HasStatusFacts DEF Settle, HasStatus
  <1>2. /\ paid.agent = orders[o].agent /\ paid.requester = orders[o].requester
        /\ paid.status = "PAID" /\ paid.escrowed = 0
    BY <1>1 DEF OrderRecord
  <1>3. paid \in OrderRecord
    BY SettleType
  <1> HIDE DEF paid
  <1>4. orders'[o] = paid /\ \A q \in Order \ {o} : orders'[q] = orders[q]
    BY <1>1, <1>3, OneOrder
  <1>5. paid # None
    BY <1>1, <1>3, OneOrder
  <1>6. \A q \in Order \ {o} : \A S : HasStatus(q, S)' <=> HasStatus(q, S)
    BY <1>4 DEF HasStatus
  <1>7. Taken(o) /\ HasStatus(o, {"PAID"})'
    BY <1>1, <1>2, <1>4, <1>5 DEF Taken, HasStatus
  <1>8. OrderShape'
    <2>1. \A q \in Order : Taken(q)' <=> Taken(q)
      BY <1>6, <1>7 DEF Taken, HasStatus
    <2>2. \A q \in Order \ {o} : workResults'[q] = workResults[q]
      BY DEF TypeOK
    <2>3. ASSUME NEW q \in Order
          PROVE  /\ Taken(q)' => orders'[q].agent # None
                 /\ votes'[q] # {} => HasStatus(q, {"VERIFYING", "PAID", "REJECTED"})'
                 /\ workResults'[q] = "VERIFIED" => HasStatus(q, {"PAID", "REJECTED"})'
      <3>1. CASE q = o
        BY <1>2, <1>4, <1>7, <3>1 DEF OrderShape, HasStatus
      <3>2. CASE q # o
        BY <1>4, <1>6, <2>1, <2>2, <3>2 DEF OrderShape
      <3> QED BY <3>1, <3>2
    <2>4. \A d \in DisputeId : disputes[d] # None => disputes[d].order \in Order
      BY DEF TypeOK, DisputeRecord
    <2> QED BY <2>1, <2>3, <2>4 DEF OrderShape, Taken, HasStatus
  <1>9. SettledOnce'
    <2>1. Len(settlements'[o]) = 1
      <3>1. Len(settlements[o]) = 0
        BY <1>1, Unsettled DEF HasStatus
      <3> QED BY <1>1, <3>1 DEF TypeOK
    <2>2. HasStatus(o, {"PAID", "REJECTED"})'
      BY <1>7 DEF HasStatus
    <2>3. \A q \in Order \ {o} : settlements'[q] = settlements[q]
      BY <1>1 DEF TypeOK
    <2> SUFFICES ASSUME NEW q \in Order
                 PROVE  /\ Len(settlements'[q]) <= 1
                        /\ HasStatus(q, {"PAID"})' => Len(settlements'[q]) = 1
                        /\ Len(settlements'[q]) = 1 => HasStatus(q, {"PAID", "REJECTED"})'
                        /\ orders'[q] # None /\ orders'[q].mode = "NATIVE_ESCROW" =>
                            orders'[q].escrowed =
                                IF Len(settlements'[q]) = 1 THEN 0 ELSE orders'[q].funded
      BY DEF SettledOnce
    <2>4. CASE q = o
      <3>1. Len(settlements'[q]) = 1 /\ orders'[q].escrowed = 0
        BY <1>2, <1>4, <2>1, <2>4
      <3>2. \A k : k = 1 => k <= 1
        OBVIOUS
      <3>3. HasStatus(q, {"PAID", "REJECTED"})'
        BY <2>2, <2>4
      <3> QED BY <3>1, <3>2, <3>3, Zenon
    <2>5. CASE q # o
      <3>1. /\ settlements'[q] = settlements[q] /\ orders'[q] = orders[q]
            /\ HasStatus(q, {"PAID"})' <=> HasStatus(q, {"PAID"})
            /\ HasStatus(q, {"PAID", "REJECTED"})' <=> HasStatus(q, {"PAID", "REJECTED"})
        BY <1>4, <1>6, <2>3, <2>5
      <3> QED BY <3>1 DEF SettledOnce
    <2> QED BY <2>4, <2>5
  <1>10. VotesIndependent'
    <2>1. \A q \in Order : votes[q] # {} => orders[q] # None
      BY DEF OrderShape, HasStatus
    <2> QED BY <1>2, <1>4, <1>5, <2>1, VotesFrame
  <1> QED BY <1>2, <1>4, <1>5, <1>8, <1>9, <1>10

\* finalizeReceipt keeps it: a settlement that qualifies no referral.
LEMMA FinalizeReceiptInv ==
    ASSUME WorkInv, NEW o \in Order, NEW x \in ReceiptId, NEW pay \in PaymentId,
           NEW n \in Amount, finalizeReceipt(o, x, pay, n)
    PROVE  WorkInv'
  <1> USE DEF WorkInv
  <1>1. /\ Settle(o, x, pay, n) /\ claimed' = claimed
        /\ UNCHANGED <<agents, verifiers, workResults, committees, slashed, votes,
                       agentReferrals, disputes>>
    BY DEF finalizeReceipt, Settle, registryVars, verificationVars
  <1>2. TypeOK'
    BY <1>1, SettleType DEF TypeOK
  <1>3. /\ OrderShape' /\ SettledOnce' /\ VotesIndependent'
        /\ \A q \in Order : orders[q] # None =>
               orders'[q] # None /\ orders'[q].agent = orders[q].agent
    BY <1>1, SettleKeeps
  <1>4. ReferralEarned'
    <2>1. \A q \in Order : workResults[q] = "VERIFIED" => orders[q] # None
      BY DEF OrderShape, HasStatus
    <2> QED BY <1>1, <1>3, <2>1, ReferralFrame
  <1> QED BY <1>2, <1>3, <1>4

\* settleVerifiedWork keeps it: the qualified agent did the work.
LEMMA SettleVerifiedWorkInv ==
    ASSUME WorkInv, NEW o \in Order, NEW x \in ReceiptId, NEW pay \in PaymentId,
           NEW n \in Amount, settleVerifiedWork(o, x, pay, n)
    PROVE  WorkInv'
  <1> USE DEF WorkInv
  <1>1. /\ Settle(o, x, pay, n) /\ Verified(o) /\ claimed' = claimed
        /\ workResults' = [workResults EXCEPT ![o] = "VERIFIED"]
        /\ Qualify(orders[o].agent)
        /\ UNCHANGED <<agents, verifiers, committees, slashed, votes, disputes>>
    BY DEF settleVerifiedWork, Settle, registryVars
  <1>2. TypeOK'
    <2>1. agentReferrals' \in [Agent -> {"PENDING", "QUALIFIED", None}]
      BY <1>1 DEF TypeOK, Qualify
    <2>2. workResults' \in [Order -> {"VERIFYING", "VERIFIED", None}]
      BY <1>1 DEF TypeOK
    <2> QED BY <1>1, <2>1, <2>2, SettleType DEF TypeOK
  <1>3. /\ OrderShape' /\ SettledOnce' /\ VotesIndependent'
        /\ \A q \in Order : orders[q] # None =>
               orders'[q] # None /\ orders'[q].agent = orders[q].agent
    BY <1>1, SettleKeeps
  <1>4. ReferralEarned'
    <2> SUFFICES ASSUME NEW a \in Agent, agentReferrals'[a] = "QUALIFIED"
                 PROVE  \E q \in Order :
                            /\ orders'[q] # None
                            /\ orders'[q].agent = a
                            /\ workResults'[q] = "VERIFIED"
                            /\ Verified(q)'
      BY DEF ReferralEarned
    <2>1. CASE a = orders[o].agent
      <3>1. orders[o] # None /\ workResults'[o] = "VERIFIED"
        BY <1>1 DEF Settle, HasStatus, TypeOK
      <3>2. Verified(o)'
        BY <1>1, VerifiedKept
      <3> QED BY <1>3, <2>1, <3>1, <3>2
    <2>2. CASE a # orders[o].agent
      <3>1. agentReferrals[a] = "QUALIFIED"
        BY <1>1, <2>2 DEF Qualify, TypeOK
      <3>2. PICK q \in Order : /\ orders[q] # None
                               /\ orders[q].agent = a
                               /\ workResults[q] = "VERIFIED"
                               /\ Verified(q)
        BY <3>1 DEF ReferralEarned
      <3>3. Verified(q)' /\ workResults'[q] = "VERIFIED"
        BY <1>1, <3>2, VerifiedKept DEF TypeOK
      <3> QED BY <1>3, <3>2, <3>3
    <2> QED BY <2>1, <2>2
  <1> QED BY <1>2, <1>3, <1>4

-----------------------------------------------------------------------------
\* The invariant depends on the variables alone.
LEMMA StutterInv == ASSUME WorkInv, UNCHANGED vars PROVE WorkInv'
  <1>1. TypeOK'
    BY DEF WorkInv, TypeOK, vars, ledgerVars, registryVars, verificationVars,
       settlementVars
  <1> QED BY <1>1, OrdersUntouched DEF vars, registryVars, verificationVars,
             settlementVars

\* The invariant of the work-order market: types, what each status means, and
\* the three properties below, which need each other to be inductive.
THEOREM WorkSafe == Spec => []WorkInv
  <1>1. Init => WorkInv
    BY InitInv
  <1>2. WorkInv /\ [Next]_vars => WorkInv'
    <2> SUFFICES ASSUME WorkInv, [Next]_vars PROVE WorkInv'
      OBVIOUS
    <2>1. CASE AccountStep
      BY <2>1, AccountInv
    <2>2. ASSUME NEW v \in Verifier, registerVerifier(v) PROVE WorkInv'
      BY <2>2, RegisterVerifierInv
    <2>3. ASSUME NEW o \in Order, OrderStep(o) PROVE WorkInv'
      BY <2>3, CreateWorkOrderInv, AcceptWorkInv, SubmitWorkResultInv, VoteWorkInv,
         FinalizeReceiptInv, SettleVerifiedWorkInv, OpenDisputeInv DEF OrderStep
    <2>4. ASSUME NEW d \in DisputeId, NEW verdict \in {"UPHOLD", "REJECT"},
                 resolveDispute(d, verdict)
          PROVE  WorkInv'
      BY <2>4, ResolveDisputeInv
    <2>5. CASE UNCHANGED vars
      BY <2>5, StutterInv
    <2> QED BY <2>1, <2>2, <2>3, <2>4, <2>5 DEF Next
  <1> QED BY <1>1, <1>2, PTL DEF Spec

\* No operation gives the engine's records a value of another shape, however
\* many orders, agents and verifiers there are.
THEOREM TypeCorrect == Spec => []TypeOK
  <1>1. WorkInv => TypeOK
    BY DEF WorkInv
  <1> QED BY <1>1, WorkSafe, PTL

\* finalizeReceipt and settleVerifiedWork between them settle an order at most
\* once, and no dispute makes it settle again or touches its escrow.
THEOREM SettledAtMostOnce == Spec => []SettledOnce
  <1>1. WorkInv => SettledOnce
    BY DEF WorkInv
  <1> QED BY <1>1, WorkSafe, PTL

\* voteWork counts votes of registered, unrelated verifiers only, one each.
THEOREM VotesAreIndependent == Spec => []VotesIndependent
  <1>1. WorkInv => VotesIndependent
    BY DEF WorkInv
  <1> QED BY <1>1, WorkSafe, PTL

\* settleVerifiedWork qualifies a referral, and nothing else does.
THEOREM ReferralsAreEarned == Spec => []ReferralEarned
  <1>1. WorkInv => ReferralEarned
    BY DEF WorkInv
  <1> QED BY <1>1, WorkSafe, PTL

-----------------------------------------------------------------------------
(* The operations implement the ledger.                                      *)

\* Crediting an account credits its balance in the ledger.
LEMMA CreditMaps ==
    ASSUME NEW acc \in [Root -> Nat \cup {None}], NEW r \in Root, NEW n \in Nat
    PROVE  Units(Credit(acc, r, n)) = Ledger!Credit(Units(acc), r, n)
  <1>1. \A k \in Root :
            Balance(Credit(acc, r, n), k)
                = IF k = r THEN Balance(acc, r) + n ELSE Balance(acc, k)
    <2>1. Balance(acc, r) + n \in Nat
      BY AmountsValid DEF Balance
    <2> QED BY <2>1, AmountsValid DEF Balance, Credit
  <1> QED BY <1>1 DEF Ledger!Credit, Units

\* Debiting an account that has as much debits its balance in the ledger.
LEMMA DebitMaps ==
    ASSUME NEW acc \in [Root -> Nat \cup {None}], NEW r \in Root, NEW n \in Nat,
           acc[r] \in Nat, acc[r] >= n
    PROVE  /\ [acc EXCEPT ![r] = @ - n] \in [Root -> Nat \cup {None}]
           /\ Units([acc EXCEPT ![r] = @ - n]) = Ledger!Debit(Units(acc), r, n)
  <1>1. acc[r] - n \in Nat
    OBVIOUS
  <1>2. Balance(acc, r) = acc[r]
    BY AmountsValid DEF Balance
  <1>3. \A k \in Root :
            Balance([acc EXCEPT ![r] = @ - n], k)
                = IF k = r THEN acc[r] - n ELSE Balance(acc, k)
    BY <1>1, AmountsValid DEF Balance
  <1> QED BY <1>1, <1>2, <1>3 DEF Units, Ledger!Debit

\* The ledger's balances after a step.
LEMMA BalanceNext == ledgerBalance' = Units(accounts')
  BY DEF ledgerBalance, Units, Balance

\* The ledger starts empty.
LEMMA LedgerInit == Init => Ledger!Init
  BY DEF Init, Ledger!Init, ledgerBalance, ledgerEscrow, HeldFor, Units, Balance

\* faucet issues units.
LEMMA FaucetImplements ==
    ASSUME TypeOK, NEW r \in Root, NEW n \in Amount, faucet(r, n)
    PROVE  Ledger!Issue(r)
  <1>1. n \in Nat /\ n > 0
    BY DEF Amount
  <1>2. ledgerBalance' = Ledger!Credit(ledgerBalance, r, n)
    BY <1>1, CreditMaps, BalanceNext DEF TypeOK, faucet, ledgerBalance
  <1>3. ledgerBalance \in [Root -> Nat]
    BY DEF TypeOK, ledgerBalance, Units, Balance
  <1>4. ledgerEscrow' = ledgerEscrow
    BY DEF faucet, ledgerEscrow
  <1> QED
    <2>1. ledgerBalance' = [ledgerBalance EXCEPT ![r] = ledgerBalance[r] + n]
      BY <1>2, <1>3 DEF Ledger!Credit
    <2>2. ledgerBalance'[r] = ledgerBalance[r] + n /\ ledgerBalance[r] \in Nat
      BY <1>3, <2>1
    <2>3. ledgerBalance'[r] > ledgerBalance[r]
      BY <1>1, <2>2
    <2>4. ledgerBalance' = [ledgerBalance EXCEPT ![r] = ledgerBalance'[r]]
      BY <1>3, <2>1, <2>2
    <2> QED BY <1>4, <2>3, <2>4 DEF Ledger!Issue

\* transfer moves units between accounts.
LEMMA TransferImplements ==
    ASSUME TypeOK, NEW from \in Root, NEW to \in Root, NEW n \in Amount,
           transfer(from, to, n)
    PROVE  Ledger!Move(from, to)
  <1> DEFINE left == [accounts EXCEPT ![from] = @ - n]
  <1>1. n \in Nat /\ n > 0
    BY DEF Amount
  <1>2. /\ accounts[from] \in Nat /\ accounts[from] >= n
        /\ accounts' = Credit(left, to, n)
    BY DEF TypeOK, transfer
  <1>3. /\ left \in [Root -> Nat \cup {None}]
        /\ Units(left) = Ledger!Debit(ledgerBalance, from, n)
    BY <1>1, <1>2, DebitMaps DEF TypeOK, ledgerBalance
  <1>4. ledgerBalance[from] = accounts[from]
    BY <1>2, AmountsValid DEF ledgerBalance, Units, Balance
  <1> HIDE DEF left
  <1>5. ledgerBalance' = Ledger!Credit(Ledger!Debit(ledgerBalance, from, n), to, n)
    BY <1>1, <1>2, <1>3, CreditMaps, BalanceNext
  <1>6. ledgerEscrow' = ledgerEscrow
    BY DEF transfer, ledgerEscrow
  <1> QED BY <1>1, <1>2, <1>4, <1>5, <1>6 DEF Ledger!Move

\* createWorkOrder holds units, or declares funding and holds none.
LEMMA CreateWorkOrderImplements ==
    ASSUME TypeOK, NEW o \in Order, NEW a \in Agent \cup {None}, NEW r \in Root,
           NEW n \in Amount, createWorkOrder(o, a, r, n)
    PROVE  Ledger!Hold(o, r) \/ UNCHANGED <<ledgerBalance, ledgerEscrow>>
  <1>1. n \in Nat /\ n > 0 /\ orders[o] = None
    BY DEF Amount, createWorkOrder
  <1>2. CASE accounts[r] = None
    <2>1. /\ accounts' = accounts
          /\ NewOrder(o, a, r, n, "FIXTURE_DECLARATION", 0)
      BY <1>2 DEF createWorkOrder
    <2>2. \A q \in Order : HeldFor(orders'[q]) = HeldFor(orders[q])
      BY <1>1, <2>1 DEF TypeOK, NewOrder, HeldFor
    <2> QED BY <2>1, <2>2 DEF ledgerBalance, ledgerEscrow
  <1>3. CASE accounts[r] # None
    <2>1. /\ accounts' = [accounts EXCEPT ![r] = @ - n]
          /\ NewOrder(o, a, r, n, "NATIVE_ESCROW", n)
      BY <1>3 DEF createWorkOrder
    <2>2. accounts[r] \in Nat /\ accounts[r] >= n
      BY <1>3 DEF TypeOK, createWorkOrder
    <2>3. ledgerBalance' = Ledger!Debit(ledgerBalance, r, n)
      <3> DEFINE left == [accounts EXCEPT ![r] = @ - n]
      <3>1. Units(left) = Ledger!Debit(ledgerBalance, r, n)
        <4>1. accounts \in [Root -> Nat \cup {None}] /\ n \in Nat
          BY <1>1 DEF TypeOK
        <4>2. Units(left) = Ledger!Debit(Units(accounts), r, n)
          BY <2>2, <4>1, DebitMaps
        <4> QED BY <4>2 DEF ledgerBalance
      <3>2. accounts' = left
        BY <2>1
      <3> HIDE DEF left
      <3> QED BY <3>1, <3>2, BalanceNext
    <2>4. ledgerEscrow[o] = None
      BY <1>1 DEF ledgerEscrow, HeldFor
    <2>5. ledgerEscrow' = [ledgerEscrow EXCEPT ![o] = [from |-> r, held |-> n]]
      <3>1. /\ orders'[o].mode = "NATIVE_ESCROW" /\ orders'[o] # None
            /\ orders'[o].requester = r /\ orders'[o].escrowed = n
            /\ \A q \in Order \ {o} : orders'[q] = orders[q]
        <4>1. orders' \in [Order -> OrderRecord \cup {None}]
          BY <2>1, NewOrderType
        <4>2. orders'[o] = [agent |-> a, requester |-> r, funded |-> n, escrowed |-> n,
                  mode |-> "NATIVE_ESCROW", status |-> "OPEN", disputed |-> FALSE]
          BY <2>1 DEF TypeOK, NewOrder
        <4>3. orders'[o] \in OrderRecord
          BY <1>1, <4>2, AmountsValid DEF OrderRecord, Amount
        <4> QED BY <2>1, <4>2, <4>3, NoneIsNoRecord DEF TypeOK, NewOrder
      <3>2. HeldFor(orders'[o]) = [from |-> r, held |-> n]
        BY <3>1 DEF HeldFor
      <3> QED BY <3>1, <3>2 DEF ledgerEscrow
    <2>6. n \in 1..ledgerBalance[r]
      <3>1. ledgerBalance[r] = accounts[r]
        BY <1>3 DEF ledgerBalance, Units, Balance
      <3> QED BY <1>1, <2>2, <3>1
    <2> QED BY <2>3, <2>4, <2>5, <2>6, Zenon DEF Ledger!Hold
  <1> QED BY <1>2, <1>3

\* A settlement releases what is held, or pays nothing for a declaration.
LEMMA SettleImplements ==
    ASSUME TypeOK, OrderShape, NEW o \in Order, NEW x \in ReceiptId,
           NEW pay \in PaymentId, NEW n \in Amount, Settle(o, x, pay, n)
    PROVE  \/ \E payee \in Root : Ledger!Release(o, payee)
           \/ UNCHANGED <<ledgerBalance, ledgerEscrow>>
  <1> DEFINE paid == [orders[o] EXCEPT !.status = "PAID", !.escrowed = 0]
             payee == orders[o].agent
             payer == orders[o].requester
             held == orders[o].escrowed
  <1>1. /\ orders[o] # None /\ orders[o] \in OrderRecord
        /\ orders[o].status \in {"ACCEPTED", "VERIFYING"} /\ payee \in Agent
    BY HasStatusFacts DEF Settle, OrderShape, Taken, HasStatus, OrderRecord
  <1>2. orders' = [orders EXCEPT ![o] = paid] /\ paid \in OrderRecord
    BY SettleType DEF Settle
  <1>3. /\ paid.mode = orders[o].mode /\ paid.requester = payer /\ paid.escrowed = 0
    BY <1>1 DEF OrderRecord
  <1> HIDE DEF paid
  <1>4. /\ orders'[o] = paid /\ paid # None
        /\ \A q \in Order \ {o} : orders'[q] = orders[q]
    BY <1>2, OneOrder
  <1>5. CASE orders[o].mode = "FIXTURE_DECLARATION"
    <2>1. accounts' = accounts
      BY <1>5 DEF Settle, PayOut
    <2>2. \A q \in Order : HeldFor(orders'[q]) = HeldFor(orders[q])
      BY <1>3, <1>4, <1>5 DEF HeldFor
    <2> QED BY <2>1, <2>2 DEF ledgerBalance, ledgerEscrow
  <1>6. CASE orders[o].mode = "NATIVE_ESCROW"
    <2>1. /\ payee \in Root /\ payer \in Root /\ n \in Nat /\ held \in Nat
          /\ n \in 1..held /\ held - n \in Nat
      BY <1>1, <1>6, RegistriesValid, AmountsValid DEF Settle, OrderRecord, Amount
    <2>2. accounts' = Credit(Credit(accounts, payee, n), payer, held - n)
      BY <1>6 DEF Settle, PayOut
    <2>3. Credit(accounts, payee, n) \in [Root -> Nat \cup {None}]
      BY <2>1, CreditType DEF TypeOK
    <2>4. Units(accounts') =
              Ledger!Credit(Units(Credit(accounts, payee, n)), payer, held - n)
      BY <2>1, <2>2, <2>3, CreditMaps
    <2>5. Units(Credit(accounts, payee, n)) = Ledger!Credit(ledgerBalance, payee, n)
      BY <2>1, CreditMaps DEF TypeOK, ledgerBalance
    <2>6. ledgerEscrow[o] = [from |-> payer, held |-> held]
      BY <1>1, <1>6 DEF ledgerEscrow, HeldFor
    <2>7. /\ ledgerEscrow[o].from = payer /\ ledgerEscrow[o].held = held
          /\ ledgerEscrow[o] # None
      <3>1. ledgerEscrow[o] # None
        BY <2>1, <2>6, NoneIsNoRecord
      <3> QED BY <2>6, <3>1
    <2>8. ledgerEscrow' = [ledgerEscrow EXCEPT ![o].held = 0]
      <3>1. HeldFor(orders'[o]) = [from |-> payer, held |-> 0]
        BY <1>3, <1>4, <1>6 DEF HeldFor
      <3>2. \A q \in Order : ledgerEscrow'[q] =
                IF q = o THEN [from |-> payer, held |-> 0] ELSE ledgerEscrow[q]
        BY <1>4, <3>1 DEF ledgerEscrow
      <3>3. [ledgerEscrow[o] EXCEPT !.held = 0] = [from |-> payer, held |-> 0]
        BY <2>6
      <3> QED BY <3>2, <3>3 DEF ledgerEscrow
    <2>9. ledgerBalance' =
              Ledger!Credit(Ledger!Credit(ledgerBalance, payee, n), payer, held - n)
      BY <2>4, <2>5, BalanceNext
    <2>10. Ledger!Release(o, payee)
      BY <2>1, <2>7, <2>8, <2>9, Zenon DEF Ledger!Release
    <2> QED BY <2>1, <2>10
  <1> QED BY <1>1, <1>5, <1>6 DEF OrderRecord

\* A step of an order that changes neither its funding nor an account.
LEMMA FundingKept ==
    ASSUME NEW o \in Order, TypeOK, accounts' = accounts,
           \/ orders' = orders
           \/ /\ orders[o] # None /\ orders'[o] # None
              /\ orders'[o].mode = orders[o].mode
              /\ orders'[o].requester = orders[o].requester
              /\ orders'[o].escrowed = orders[o].escrowed
              /\ \A q \in Order \ {o} : orders'[q] = orders[q]
    PROVE  UNCHANGED <<ledgerBalance, ledgerEscrow>>
  <1>1. \A q \in Order : HeldFor(orders'[q]) = HeldFor(orders[q])
    BY DEF HeldFor
  <1> QED BY <1>1 DEF ledgerBalance, ledgerEscrow

\* Every step is a step of the ledger or leaves it alone.
LEMMA LedgerStep ==
    ASSUME TypeOK, OrderShape, [Next]_vars
    PROVE  [Ledger!Next]_<<ledgerBalance, ledgerEscrow>>
  <1> DEFINE Kept == UNCHANGED <<ledgerBalance, ledgerEscrow>>
  <1>1. CASE AccountStep
    <2>1. ASSUME NEW r \in Root, NEW n \in Amount, faucet(r, n) PROVE Ledger!Next
      BY <2>1, FaucetImplements DEF Ledger!Next
    <2>2. ASSUME NEW from \in Root, NEW to \in Root, NEW n \in Amount,
                 transfer(from, to, n)
          PROVE  Ledger!Next
      BY <2>2, TransferImplements DEF Ledger!Next
    <2>3. ASSUME NEW a \in Agent, NEW status \in AgentStatus, setAgentStatus(a, status)
          PROVE  Kept
      BY <2>3 DEF setAgentStatus, ledgerVars, ledgerBalance, ledgerEscrow
    <2> QED BY <1>1, <2>1, <2>2, <2>3 DEF AccountStep
  <1>2. ASSUME NEW v \in Verifier, registerVerifier(v) PROVE Kept
    BY <1>2 DEF registerVerifier, ledgerVars, ledgerBalance, ledgerEscrow
  <1>3. ASSUME NEW o \in Order, OrderStep(o) PROVE Ledger!Next \/ Kept
    <2>1. ASSUME NEW a \in Agent \cup {None}, NEW r \in Root, NEW n \in Amount,
                 createWorkOrder(o, a, r, n)
          PROVE  Ledger!Next \/ Kept
      BY <2>1, CreateWorkOrderImplements DEF Ledger!Next
    <2>2. ASSUME NEW a \in Agent, acceptWork(o, a) PROVE Kept
      <3>1. /\ orders[o] # None /\ orders[o] \in OrderRecord /\ accounts' = accounts
            /\ orders' = [orders EXCEPT ![o] =
                   [orders[o] EXCEPT !.agent = a, !.status = "ACCEPTED"]]
        BY <2>2, HasStatusFacts DEF acceptWork, HasStatus, ledgerVars
      <3>2. [orders[o] EXCEPT !.agent = a, !.status = "ACCEPTED"] \in OrderRecord
        BY <3>1 DEF OrderRecord
      <3> QED BY <3>1, <3>2, OneOrder, FundingKept DEF OrderRecord
    <2>3. CASE submitWorkResult(o)
      <3>1. /\ orders[o] # None /\ orders[o] \in OrderRecord /\ accounts' = accounts
            /\ orders' = [orders EXCEPT ![o] = [orders[o] EXCEPT !.status = "VERIFYING"]]
        BY <2>3, HasStatusFacts DEF submitWorkResult, HasStatus, ledgerVars
      <3>2. [orders[o] EXCEPT !.status = "VERIFYING"] \in OrderRecord
        BY <3>1 DEF OrderRecord
      <3> QED BY <3>1, <3>2, OneOrder, FundingKept DEF OrderRecord
    <2>4. ASSUME NEW v \in Verifier, NEW verdict \in {"ACCEPT", "REJECT"},
                 NEW owed \in BOOLEAN, voteWork(o, v, verdict, owed)
          PROVE  Kept
      BY <2>4 DEF voteWork, ledgerVars, ledgerBalance, ledgerEscrow
    <2>5. ASSUME NEW x \in ReceiptId, NEW pay \in PaymentId, NEW n \in Amount,
                 finalizeReceipt(o, x, pay, n) \/ settleVerifiedWork(o, x, pay, n)
          PROVE  Ledger!Next \/ Kept
      <3>1. Settle(o, x, pay, n)
        BY <2>5 DEF finalizeReceipt, settleVerifiedWork
      <3> QED BY <3>1, SettleImplements DEF Ledger!Next
    <2>6. ASSUME NEW d \in DisputeId, openDispute(o, d) PROVE Kept
      <3>1. /\ orders[o] # None /\ orders[o] \in OrderRecord /\ accounts' = accounts
            /\ orders' = [orders EXCEPT ![o] = [orders[o] EXCEPT !.disputed = TRUE]]
        BY <2>6, HasStatusFacts DEF openDispute, HasStatus, ledgerVars
      <3>2. [orders[o] EXCEPT !.disputed = TRUE] \in OrderRecord
        BY <3>1 DEF OrderRecord
      <3> QED BY <3>1, <3>2, OneOrder, FundingKept DEF OrderRecord
    <2> QED BY <1>3, <2>1, <2>2, <2>3, <2>4, <2>5, <2>6 DEF OrderStep
  <1>4. ASSUME NEW d \in DisputeId, NEW verdict \in {"UPHOLD", "REJECT"},
               resolveDispute(d, verdict)
        PROVE  Kept
    <2> DEFINE o == disputes[d].order
               final == IF verdict = "REJECT" THEN "REJECTED" ELSE orders[o].status
               freed == [orders[o] EXCEPT !.disputed = FALSE, !.status = final]
    <2>1. /\ o \in Order /\ orders[o] # None /\ orders[o] \in OrderRecord
          /\ accounts' = accounts
          /\ orders' = [orders EXCEPT ![o] = freed]
      BY <1>4, HasStatusFacts
         DEF resolveDispute, TypeOK, OrderShape, Taken, HasStatus, ledgerVars, DisputeRecord
    <2>2. /\ freed \in OrderRecord
          /\ freed.mode = orders[o].mode /\ freed.requester = orders[o].requester
          /\ freed.escrowed = orders[o].escrowed
      BY <2>1 DEF OrderRecord
    <2> HIDE DEF freed, o
    <2> QED BY <2>1, <2>2, OneOrder, FundingKept
  <1>5. CASE UNCHANGED vars
    BY <1>5 DEF vars, ledgerVars, ledgerBalance, ledgerEscrow
  <1> QED BY <1>1, <1>2, <1>3, <1>4, <1>5 DEF Next

\* createWorkOrder, finalizeReceipt and settleVerifiedWork, with every other
\* operation between them, move units as the ledger allows: what is held for an
\* order leaves once and as a whole, to the payee and back to the requester.
THEOREM ImplementsLedger == Spec => LedgerSpec
  <1>1. Init => Ledger!Init
    BY LedgerInit
  <1>2. WorkInv /\ [Next]_vars => [Ledger!Next]_<<ledgerBalance, ledgerEscrow>>
    BY LedgerStep DEF WorkInv
  <1> QED BY <1>1, <1>2, WorkSafe, PTL DEF Spec, LedgerSpec, Ledger!Spec

-----------------------------------------------------------------------------
(* Units are conserved.                                                      *)

\* g is f with n more at e.
Gains(S, f, g, e, n) ==
    /\ f \in [S -> Int] /\ g \in [S -> Int]
    /\ \A x \in S : g[x] = IF x = e THEN f[x] + n ELSE f[x]

\* What one account or order gains, the sum gains.
LEMMA SumGains ==
    ASSUME NEW S, IsFiniteSet(S), NEW f, NEW g, NEW e \in S, NEW n \in Int,
           Gains(S, f, g, e, n)
    PROVE  SumFunction(g) = SumFunction(f) + n
  <1>1. /\ DOMAIN f = S /\ DOMAIN g = S
        /\ \A x \in S : f[x] \in Int /\ g[x] \in Int
        /\ \A x \in S \ {e} : g[x] = f[x]
        /\ g[e] - f[e] = n
    BY DEF Gains
  <1>2. SumFunctionOnSet(g, S) = SumFunctionOnSet(f, S) + (g[e] - f[e])
    BY <1>1, SumChange
  <1> QED BY <1>1, <1>2 DEF SumFunction

\* An account gains what it is credited with.
LEMMA CreditGains ==
    ASSUME NEW acc \in [Root -> Nat \cup {None}], NEW r \in Root, NEW n \in Nat
    PROVE  Gains(Root, Units(acc), Units(Credit(acc, r, n)), r, n)
  <1>1. \A k \in Root : Balance(acc, k) \in Int
    BY AmountsValid DEF Balance
  <1>2. \A k \in Root :
            Balance(Credit(acc, r, n), k)
                = IF k = r THEN Balance(acc, k) + n ELSE Balance(acc, k)
    <2>1. Balance(acc, r) + n \in Nat
      BY AmountsValid DEF Balance
    <2> QED BY <2>1, AmountsValid DEF Balance, Credit
  <1> QED BY <1>1, <1>2 DEF Units, Gains

\* An account loses what it is debited with.
LEMMA DebitGains ==
    ASSUME NEW acc \in [Root -> Nat \cup {None}], NEW r \in Root, NEW n \in Nat,
           acc[r] \in Nat, acc[r] >= n
    PROVE  Gains(Root, Units(acc), Units([acc EXCEPT ![r] = @ - n]), r, -n)
  <1> DEFINE left == [acc EXCEPT ![r] = @ - n]
  <1>1. \A k \in Root : Balance(acc, k) \in Int
    BY AmountsValid DEF Balance
  <1>2. acc[r] - n \in Nat /\ Balance(acc, r) = acc[r]
    BY AmountsValid DEF Balance
  <1>3. \A k \in Root :
            Balance(left, k) = IF k = r THEN Balance(acc, k) + (-n) ELSE Balance(acc, k)
    BY <1>2, AmountsValid DEF Balance
  <1> HIDE DEF left
  <1>4. \A k \in Root : Balance(left, k) \in Int
    BY <1>1, <1>3
  <1>5. Gains(Root, Units(acc), Units(left), r, -n)
    BY <1>1, <1>3, <1>4 DEF Units, Gains
  <1> QED BY <1>5 DEF left

\* A sum over finitely many integers is one.
LEMMA SumsAreIntegers ==
    ASSUME NEW S, IsFiniteSet(S), NEW f \in [S -> Int]
    PROVE  SumFunction(f) \in Int
  BY SumType DEF SumFunction

\* The sums the invariant is about are over integers.
LEMMA MoneyTypes ==
    ASSUME TypeOK
    PROVE  /\ Units(accounts) \in [Root -> Int]
           /\ Escrowed(orders) \in [Order -> Int]
           /\ claimed \in [Root -> Int]
           /\ SumFunction(Units(accounts)) \in Int
           /\ SumFunction(Escrowed(orders)) \in Int
           /\ SumFunction(claimed) \in Int
  <1>1. Units(accounts) \in [Root -> Int]
    BY AmountsValid DEF TypeOK, Units, Balance
  <1>2. Escrowed(orders) \in [Order -> Int]
    BY AmountsValid DEF TypeOK, Escrowed, OrderRecord
  <1>3. claimed \in [Root -> Int]
    BY DEF TypeOK
  <1> QED BY <1>1, <1>2, <1>3, RegistriesFinite, SumsAreIntegers

Money == UnitsConserved /\ DeclaredHoldsNothing

\* faucet gives an account what it adds to its claims.
LEMMA FaucetMoney ==
    ASSUME TypeOK, Money, NEW r \in Root, NEW n \in Amount, faucet(r, n)
    PROVE  Money'
  <1>1. n \in Nat
    BY DEF Amount
  <1>2. /\ accounts' = Credit(accounts, r, n) /\ claimed' = [claimed EXCEPT ![r] = @ + n]
        /\ orders' = orders
    BY DEF faucet
  <1>3. Gains(Root, Units(accounts), Units(accounts'), r, n)
    BY <1>1, <1>2, CreditGains DEF TypeOK
  <1>4. Gains(Root, claimed, claimed', r, n)
    BY <1>1, <1>2 DEF TypeOK, Gains
  <1>5. /\ SumFunction(Units(accounts')) = SumFunction(Units(accounts)) + n
        /\ SumFunction(claimed') = SumFunction(claimed) + n
    BY <1>1, <1>3, <1>4, RegistriesFinite, SumGains
  <1> QED BY <1>1, <1>2, <1>5, MoneyTypes
          DEF Money, UnitsConserved, DeclaredHoldsNothing, Units, Balance, Escrowed

\* transfer takes from one account what it gives another.
LEMMA TransferMoney ==
    ASSUME TypeOK, Money, NEW from \in Root, NEW to \in Root, NEW n \in Amount,
           transfer(from, to, n)
    PROVE  Money'
  <1> DEFINE left == [accounts EXCEPT ![from] = @ - n]
  <1>1. n \in Nat
    BY DEF Amount
  <1>2. /\ accounts[from] \in Nat /\ accounts[from] >= n
        /\ accounts' = Credit(left, to, n)
        /\ claimed' = claimed /\ orders' = orders
    BY DEF TypeOK, transfer
  <1>3. /\ left \in [Root -> Nat \cup {None}]
        /\ Gains(Root, Units(accounts), Units(left), from, -n)
    BY <1>1, <1>2, DebitMaps, DebitGains DEF TypeOK
  <1> HIDE DEF left
  <1>4. Gains(Root, Units(left), Units(accounts'), to, n)
    BY <1>1, <1>2, <1>3, CreditGains
  <1>5. SumFunction(Units(left)) = SumFunction(Units(accounts)) + (-n)
    BY <1>1, <1>3, RegistriesFinite, SumGains
  <1>6. SumFunction(Units(accounts')) = SumFunction(Units(left)) + n
    BY <1>1, <1>4, RegistriesFinite, SumGains
  <1>7. SumFunction(Units(accounts')) = SumFunction(Units(accounts))
    BY <1>1, <1>5, <1>6, MoneyTypes
  <1> QED BY <1>2, <1>7
          DEF Money, UnitsConserved, DeclaredHoldsNothing, Units, Balance, Escrowed

\* A change of one order changes what is held in all by as much.
LEMMA EscrowedChange ==
    ASSUME TypeOK, NEW o \in Order, NEW rec \in OrderRecord,
           orders' = [orders EXCEPT ![o] = rec]
    PROVE  SumFunction(Escrowed(orders'))
             = SumFunction(Escrowed(orders)) + (rec.escrowed - Escrowed(orders)[o])
  <1> DEFINE n == rec.escrowed - Escrowed(orders)[o]
  <1>1. n \in Int
    BY MoneyTypes, AmountsValid DEF OrderRecord
  <1>2. rec # None /\ rec.escrowed \in Int
    BY NoneIsNoRecord, AmountsValid DEF OrderRecord
  <1>3. \A q \in Order : /\ Escrowed(orders)[q] \in Int
                         /\ Escrowed(orders')[q] =
                                IF q = o THEN rec.escrowed ELSE Escrowed(orders)[q]
    BY <1>2, MoneyTypes DEF Escrowed, TypeOK
  <1>4. Gains(Order, Escrowed(orders), Escrowed(orders'), o, n)
    <2>1. Escrowed(orders)[o] + n = rec.escrowed
      BY <1>2, <1>3
    <2>2. Escrowed(orders') \in [Order -> Int]
      BY <1>2, <1>3 DEF Escrowed
    <2> HIDE DEF n
    <2> QED BY <1>3, <2>1, <2>2, MoneyTypes DEF Gains
  <1> HIDE DEF n
  <1>5. SumFunction(Escrowed(orders')) = SumFunction(Escrowed(orders)) + n
    BY <1>1, <1>4, RegistriesFinite, SumGains
  <1> QED BY <1>5 DEF n

\* createWorkOrder holds what it takes from the requester, or neither.
LEMMA CreateWorkOrderMoney ==
    ASSUME TypeOK, Money, NEW o \in Order, NEW a \in Agent \cup {None}, NEW r \in Root,
           NEW n \in Amount, createWorkOrder(o, a, r, n)
    PROVE  Money'
  <1> DEFINE rec(mode, held) ==
        [agent |-> a, requester |-> r, funded |-> n, escrowed |-> held,
         mode |-> mode, status |-> "OPEN", disputed |-> FALSE]
  <1>1. n \in Nat /\ orders[o] = None /\ claimed' = claimed
    BY DEF Amount, createWorkOrder
  <1>2. Escrowed(orders)[o] = 0
    BY <1>1 DEF Escrowed
  <1>3. CASE accounts[r] = None
    <2> DEFINE new == rec("FIXTURE_DECLARATION", 0)
    <2>1. accounts' = accounts /\ orders' = [orders EXCEPT ![o] = new]
      BY <1>3 DEF createWorkOrder, NewOrder
    <2>2. new \in OrderRecord /\ new.escrowed = 0
      BY <1>1, AmountsValid DEF OrderRecord, Amount
    <2> HIDE DEF new
    <2>3. SumFunction(Escrowed(orders')) = SumFunction(Escrowed(orders)) + (0 - 0)
      BY <1>2, <2>1, <2>2, EscrowedChange
    <2>4. DeclaredHoldsNothing'
      BY <2>1, <2>2, OneOrder DEF Money, DeclaredHoldsNothing
    <2> QED BY <1>1, <2>1, <2>3, <2>4, MoneyTypes DEF Money, UnitsConserved, Units, Balance
  <1>4. CASE accounts[r] # None
    <2> DEFINE new == rec("NATIVE_ESCROW", n)
    <2>1. /\ accounts' = [accounts EXCEPT ![r] = @ - n]
          /\ orders' = [orders EXCEPT ![o] = new]
          /\ accounts[r] \in Nat /\ accounts[r] >= n
      BY <1>4 DEF TypeOK, createWorkOrder, NewOrder
    <2>2. new \in OrderRecord /\ new.escrowed = n /\ new.mode = "NATIVE_ESCROW"
      BY <1>1, AmountsValid DEF OrderRecord, Amount
    <2> HIDE DEF new
    <2>3. SumFunction(Escrowed(orders')) = SumFunction(Escrowed(orders)) + (n - 0)
      BY <1>2, <2>1, <2>2, EscrowedChange
    <2>4. Gains(Root, Units(accounts), Units(accounts'), r, -n)
      BY <1>1, <2>1, DebitGains DEF TypeOK
    <2>5. SumFunction(Units(accounts')) = SumFunction(Units(accounts)) + (-n)
      BY <1>1, <2>4, RegistriesFinite, SumGains
    <2>6. DeclaredHoldsNothing'
      BY <2>1, <2>2, OneOrder DEF Money, DeclaredHoldsNothing
    <2> QED BY <1>1, <2>3, <2>5, <2>6, MoneyTypes
            DEF Money, UnitsConserved, Units, Balance, Escrowed
  <1> QED BY <1>3, <1>4

\* A settlement gives the agent and the requester what the order held.
LEMMA SettleMoney ==
    ASSUME TypeOK, OrderShape, Money, NEW o \in Order, NEW x \in ReceiptId,
           NEW pay \in PaymentId, NEW n \in Amount, Settle(o, x, pay, n)
    PROVE  Money'
  <1> DEFINE paid == [orders[o] EXCEPT !.status = "PAID", !.escrowed = 0]
             payee == orders[o].agent
             payer == orders[o].requester
             held == orders[o].escrowed
  <1>1. /\ orders[o] # None /\ orders[o] \in OrderRecord
        /\ payee \in Root /\ payer \in Root /\ n \in Nat /\ held \in Nat
        /\ claimed' = claimed
    <2>1. orders[o] # None /\ orders[o] \in OrderRecord /\ payee \in Agent
      BY HasStatusFacts DEF Settle, OrderShape, Taken, HasStatus, OrderRecord
    <2> QED BY <2>1, RegistriesValid, AmountsValid DEF Settle, OrderRecord, Amount
  <1>2. /\ orders' = [orders EXCEPT ![o] = paid] /\ paid \in OrderRecord
        /\ paid.escrowed = 0 /\ paid.mode = orders[o].mode
    BY <1>1, SettleType DEF Settle, OrderRecord
  <1> HIDE DEF paid
  <1>3. Escrowed(orders)[o] = held
    BY <1>1 DEF Escrowed
  <1>4. SumFunction(Escrowed(orders')) = SumFunction(Escrowed(orders)) + (0 - held)
    BY <1>2, <1>3, EscrowedChange
  <1>5. DeclaredHoldsNothing'
    BY <1>1, <1>2, OneOrder DEF Money, DeclaredHoldsNothing
  <1>6. SumFunction(Units(accounts')) = SumFunction(Units(accounts)) + held
    <2>1. CASE orders[o].mode = "FIXTURE_DECLARATION"
      <3>1. accounts' = accounts /\ held = 0
        BY <1>1, <2>1 DEF Settle, PayOut, Money, DeclaredHoldsNothing
      <3> QED BY <3>1, MoneyTypes
    <2>2. CASE orders[o].mode = "NATIVE_ESCROW"
      <3> DEFINE first == Credit(accounts, payee, n)
      <3>1. accounts' = Credit(first, payer, held - n) /\ held - n \in Nat
        BY <1>1, <2>2 DEF Settle, PayOut
      <3>2. /\ first \in [Root -> Nat \cup {None}]
            /\ Gains(Root, Units(accounts), Units(first), payee, n)
        BY <1>1, CreditType, CreditGains DEF TypeOK
      <3> HIDE DEF first
      <3>3. Gains(Root, Units(first), Units(accounts'), payer, held - n)
        BY <1>1, <3>1, <3>2, CreditGains
      <3> HIDE DEF payee, payer, held
      <3>4. SumFunction(Units(first)) = SumFunction(Units(accounts)) + n
        BY <1>1, <3>2, RegistriesFinite, SumGains
      <3>5. SumFunction(Units(accounts')) = SumFunction(Units(first)) + (held - n)
        BY <1>1, <3>1, <3>3, RegistriesFinite, SumGains
      <3> QED BY <1>1, <3>4, <3>5, MoneyTypes
    <2> QED BY <1>1, <2>1, <2>2 DEF OrderRecord
  <1> QED BY <1>1, <1>4, <1>5, <1>6, MoneyTypes
          DEF Money, UnitsConserved, Units, Balance, Escrowed

\* A step that neither moves units nor changes what an order holds.
LEMMA MoneyFrame ==
    ASSUME TypeOK, Money, UNCHANGED <<accounts, claimed>>,
           \A q \in Order :
               /\ orders'[q] = None <=> orders[q] = None
               /\ orders[q] # None => /\ orders'[q].mode = orders[q].mode
                                      /\ orders'[q].escrowed = orders[q].escrowed
    PROVE  Money'
  <1>1. Escrowed(orders') = Escrowed(orders)
    BY DEF Escrowed
  <1>2. DeclaredHoldsNothing'
    BY DEF Money, DeclaredHoldsNothing
  <1> QED BY <1>1, <1>2 DEF Money, UnitsConserved, Units, Balance, Escrowed

\* A step that writes one order again, with the mode and the units it had.
LEMMA OrderMoney ==
    ASSUME TypeOK, Money, NEW o \in Order, NEW rec \in OrderRecord,
           UNCHANGED <<accounts, claimed>>, orders' = [orders EXCEPT ![o] = rec],
           orders[o] # None, rec.mode = orders[o].mode,
           rec.escrowed = orders[o].escrowed
    PROVE  Money'
  <1>1. rec # None
    BY NoneIsNoRecord
  <1>2. \A q \in Order : orders'[q] = IF q = o THEN rec ELSE orders[q]
    BY DEF TypeOK
  <1>3. \A q \in Order :
            /\ orders'[q] = None <=> orders[q] = None
            /\ orders[q] # None => /\ orders'[q].mode = orders[q].mode
                                   /\ orders'[q].escrowed = orders[q].escrowed
    BY <1>1, <1>2
  <1> QED BY <1>3, MoneyFrame

\* Every step keeps the units of accounts and orders equal to what was claimed.
LEMMA MoneyStep ==
    ASSUME TypeOK, OrderShape, Money, [Next]_vars
    PROVE  Money'
  <1>1. CASE AccountStep
    <2>1. ASSUME NEW r \in Root, NEW n \in Amount, faucet(r, n) PROVE Money'
      BY <2>1, FaucetMoney
    <2>2. ASSUME NEW from \in Root, NEW to \in Root, NEW n \in Amount,
                 transfer(from, to, n)
          PROVE  Money'
      BY <2>2, TransferMoney
    <2>3. ASSUME NEW a \in Agent, NEW status \in AgentStatus, setAgentStatus(a, status)
          PROVE  Money'
      BY <2>3, MoneyFrame DEF setAgentStatus, ledgerVars
    <2> QED BY <1>1, <2>1, <2>2, <2>3 DEF AccountStep
  <1>2. ASSUME NEW v \in Verifier, registerVerifier(v) PROVE Money'
    BY <1>2, MoneyFrame DEF registerVerifier, ledgerVars
  <1>3. ASSUME NEW o \in Order, OrderStep(o) PROVE Money'
    <2>1. ASSUME NEW a \in Agent \cup {None}, NEW r \in Root, NEW n \in Amount,
                 createWorkOrder(o, a, r, n)
          PROVE  Money'
      BY <2>1, CreateWorkOrderMoney
    <2>2. ASSUME NEW a \in Agent, acceptWork(o, a) PROVE Money'
      <3> DEFINE rec == [orders[o] EXCEPT !.agent = a, !.status = "ACCEPTED"]
      <3>1. /\ orders[o] # None /\ orders[o] \in OrderRecord
            /\ UNCHANGED <<accounts, claimed>> /\ orders' = [orders EXCEPT ![o] = rec]
        BY <2>2, HasStatusFacts DEF acceptWork, HasStatus, ledgerVars
      <3>2. /\ rec \in OrderRecord /\ rec.mode = orders[o].mode
            /\ rec.escrowed = orders[o].escrowed
        BY <3>1 DEF OrderRecord
      <3> HIDE DEF rec
      <3> QED BY <3>1, <3>2, OrderMoney
    <2>3. CASE submitWorkResult(o)
      <3> DEFINE rec == [orders[o] EXCEPT !.status = "VERIFYING"]
      <3>1. /\ orders[o] # None /\ orders[o] \in OrderRecord
            /\ UNCHANGED <<accounts, claimed>> /\ orders' = [orders EXCEPT ![o] = rec]
        BY <2>3, HasStatusFacts DEF submitWorkResult, HasStatus, ledgerVars
      <3>2. /\ rec \in OrderRecord /\ rec.mode = orders[o].mode
            /\ rec.escrowed = orders[o].escrowed
        BY <3>1 DEF OrderRecord
      <3> HIDE DEF rec
      <3> QED BY <3>1, <3>2, OrderMoney
    <2>4. ASSUME NEW v \in Verifier, NEW verdict \in {"ACCEPT", "REJECT"},
                 NEW owed \in BOOLEAN, voteWork(o, v, verdict, owed)
          PROVE  Money'
      BY <2>4, MoneyFrame DEF voteWork, ledgerVars
    <2>5. ASSUME NEW x \in ReceiptId, NEW pay \in PaymentId, NEW n \in Amount,
                 finalizeReceipt(o, x, pay, n) \/ settleVerifiedWork(o, x, pay, n)
          PROVE  Money'
      <3>1. Settle(o, x, pay, n)
        BY <2>5 DEF finalizeReceipt, settleVerifiedWork
      <3> QED BY <3>1, SettleMoney
    <2>6. ASSUME NEW d \in DisputeId, openDispute(o, d) PROVE Money'
      <3> DEFINE rec == [orders[o] EXCEPT !.disputed = TRUE]
      <3>1. /\ orders[o] # None /\ orders[o] \in OrderRecord
            /\ UNCHANGED <<accounts, claimed>> /\ orders' = [orders EXCEPT ![o] = rec]
        BY <2>6, HasStatusFacts DEF openDispute, HasStatus, ledgerVars
      <3>2. /\ rec \in OrderRecord /\ rec.mode = orders[o].mode
            /\ rec.escrowed = orders[o].escrowed
        BY <3>1 DEF OrderRecord
      <3> HIDE DEF rec
      <3> QED BY <3>1, <3>2, OrderMoney
    <2> QED BY <1>3, <2>1, <2>2, <2>3, <2>4, <2>5, <2>6 DEF OrderStep
  <1>4. ASSUME NEW d \in DisputeId, NEW verdict \in {"UPHOLD", "REJECT"},
               resolveDispute(d, verdict)
        PROVE  Money'
    <2> DEFINE o == disputes[d].order
               final == IF verdict = "REJECT" THEN "REJECTED" ELSE orders[o].status
               freed == [orders[o] EXCEPT !.disputed = FALSE, !.status = final]
    <2>1. /\ o \in Order /\ orders[o] # None /\ orders[o] \in OrderRecord
          /\ UNCHANGED <<accounts, claimed>>
          /\ orders' = [orders EXCEPT ![o] = freed]
      BY <1>4, HasStatusFacts
         DEF resolveDispute, TypeOK, OrderShape, Taken, HasStatus, ledgerVars, DisputeRecord
    <2>2. /\ freed \in OrderRecord /\ freed.mode = orders[o].mode
          /\ freed.escrowed = orders[o].escrowed
      BY <2>1 DEF OrderRecord
    <2> HIDE DEF freed, o
    <2> QED BY <2>1, <2>2, OrderMoney
  <1>5. CASE UNCHANGED vars
    BY <1>5, MoneyFrame DEF vars, ledgerVars
  <1> QED BY <1>1, <1>2, <1>3, <1>4, <1>5 DEF Next

\* Before the first transition there is nothing to account for.
LEMMA MoneyInit == Init => Money
  <1> SUFFICES ASSUME Init PROVE Money
    OBVIOUS
  <1> DEFINE escrow == Escrowed(orders)
  <1>1. Units(accounts) = [r \in Root |-> 0] /\ claimed = [r \in Root |-> 0]
    BY DEF Init, Units, Balance
  <1>2. \A o \in Order : escrow[o] = 0
    BY DEF Init, Escrowed
  <1>3. DOMAIN escrow = Order
    BY DEF Escrowed
  <1> HIDE DEF escrow
  <1>4. SumFunctionOnSet(escrow, Order) = 0
    BY <1>2, RegistriesFinite, SumZero
  <1>5. SumFunction(claimed) \in Int
    BY <1>1, RegistriesFinite, SumsAreIntegers
  <1>6. UnitsConserved
    BY <1>1, <1>3, <1>4, <1>5 DEF UnitsConserved, SumFunction, escrow
  <1>7. DeclaredHoldsNothing
    BY DEF Init, DeclaredHoldsNothing
  <1> QED BY <1>6, <1>7 DEF Money

\* Whatever is funded, paid, refused, disputed or settled twice over, accounts
\* and escrows together hold what the faucet gave.
THEOREM UnitsAreConserved == Spec => []UnitsConserved
  <1>1. Init => Money
    BY MoneyInit
  <1>2. WorkInv /\ Money /\ [Next]_vars => Money'
    BY MoneyStep DEF WorkInv
  <1>3. Money => UnitsConserved
    BY DEF Money
  <1> QED BY <1>1, <1>2, <1>3, WorkSafe, PTL DEF Spec
=============================================================================
