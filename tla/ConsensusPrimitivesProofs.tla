--------------------- MODULE ConsensusPrimitivesProofs ---------------------
(* Voting power, quorums and the draw of the proposer, for every validator   *)
(* set and every distribution of power.                                      *)
EXTENDS ConsensusPrimitives, FiniteSums

-----------------------------------------------------------------------------
(* Voting power and quorums.                                                 *)

\* The power of a set of members is a natural, and a part has no more of it.
LEMMA PowerFacts ==
    ASSUME NEW voters \in SUBSET Validator
    PROVE  /\ votePower(voters) \in Nat
           /\ \A part \in SUBSET voters : votePower(part) <= votePower(voters)
  <1>1. IsFiniteSet(voters) /\ \A v \in voters : VotingPower[v] \in Nat
    BY ValidatorSetValid, FS_Subset
  <1> DEFINE power == VotingPower
  <1>2. \A v \in voters : power[v] \in Nat
    BY <1>1
  <1> HIDE DEF power
  <1>3. SumFunctionOnSet(power, voters) \in Nat
    BY <1>1, <1>2, SumNat
  <1>4. ASSUME NEW part \in SUBSET voters
        PROVE  SumFunctionOnSet(power, part) <= SumFunctionOnSet(power, voters)
    BY <1>1, <1>2, SumPart
  <1> QED BY <1>3, <1>4 DEF votePower, power

\* The power of a set is that of a part and of the rest.
LEMMA PowerSplit ==
    ASSUME NEW voters \in SUBSET Validator, NEW part \in SUBSET voters
    PROVE  votePower(voters) = votePower(part) + votePower(voters \ part)
  <1> DEFINE power == VotingPower
  <1>1. IsFiniteSet(voters) /\ \A v \in voters : power[v] \in Int
    BY ValidatorSetValid, FS_Subset
  <1> HIDE DEF power
  <1>2. SumFunctionOnSet(power, voters)
          = SumFunctionOnSet(power, part) + SumFunctionOnSet(power, voters \ part)
    BY <1>1, SumSplit
  <1> QED BY <1>2 DEF votePower, power

\* A quorum is more than two thirds of the power.
LEMMA QuorumIsMostPower ==
    /\ quorumPower \in Nat
    /\ 3 * quorumPower > 2 * votePower(Validator)
  <1>1. votePower(Validator) \in Nat
    BY PowerFacts
  <1> QED BY <1>1 DEF quorumPower

\* Two quorums share more than a third of the power: quorumPower is large enough
\* however power is distributed (consensus-primitives.js:18).
THEOREM QuorumsOverlap ==
    ASSUME NEW Q \in Quorum, NEW R \in Quorum
    PROVE  3 * votePower(Q \cap R) > votePower(Validator)
  <1> DEFINE all == votePower(Validator)
             q == votePower(Q)
             r == votePower(R)
             both == votePower(Q \cap R)
             onlyQ == votePower(Q \ R)
             outside == votePower(Validator \ R)
  <1>1. Q \in SUBSET Validator /\ R \in SUBSET Validator /\ q >= quorumPower /\ r >= quorumPower
    BY DEF Quorum
  <1>2. /\ all \in Nat /\ q \in Nat /\ r \in Nat /\ both \in Nat /\ onlyQ \in Nat
        /\ outside \in Nat
    BY <1>1, PowerFacts
  <1>3. q = both + onlyQ
    <2>1. Q \ (Q \cap R) = Q \ R /\ Q \cap R \in SUBSET Q
      OBVIOUS
    <2> QED BY <1>1, <2>1, PowerSplit
  <1>4. all = r + outside
    BY <1>1, PowerSplit
  <1>5. onlyQ <= outside
    <2>1. Q \ R \in SUBSET (Validator \ R) /\ Validator \ R \in SUBSET Validator
      BY <1>1
    <2> QED BY <2>1, PowerFacts
  <1> HIDE DEF all, q, r, both, onlyQ, outside
  <1>6. quorumPower \in Nat /\ 3 * quorumPower > 2 * all
    BY QuorumIsMostPower DEF all
  <1>7. 3 * both > all
    BY <1>1, <1>2, <1>3, <1>4, <1>5, <1>6
  <1> QED BY <1>7 DEF all, both

\* And it is no larger than it may be: when less than a third of the power is
\* missing, the others are still a quorum (consensus-primitives.js:18).
THEOREM OthersAreQuorum ==
    ASSUME NEW missing \in SUBSET Validator,
           3 * votePower(missing) < votePower(Validator)
    PROVE  Validator \ missing \in Quorum
  <1> DEFINE all == votePower(Validator)
             few == votePower(missing)
             others == votePower(Validator \ missing)
  <1>1. all \in Nat /\ few \in Nat /\ others \in Nat /\ all = few + others
    BY PowerFacts, PowerSplit
  <1>2. quorumPower = (all * 2) \div 3 + 1
    BY DEF quorumPower
  <1>3. 3 * few < all
    OBVIOUS
  <1> HIDE DEF all, few, others
  <1>4. 3 * others > 2 * all
    BY <1>1, <1>3
  <1>5. others >= quorumPower
    BY <1>1, <1>2, <1>4
  <1> QED BY <1>5 DEF others, Quorum

-----------------------------------------------------------------------------
(* The draw of the proposer.                                                 *)

Members(k) == {CanonicalOrder[i] : i \in 1..k}

\* The canonical order lists each member once.
LEMMA OrderIsInjective ==
    ASSUME NEW i \in DOMAIN CanonicalOrder, NEW j \in DOMAIN CanonicalOrder, i # j
    PROVE  CanonicalOrder[i] # CanonicalOrder[j]
  <1> DEFINE n == Cardinality(Validator)
             S == 1..n
  <1>1. n \in Nat /\ IsFiniteSet(Validator)
    BY ValidatorSetValid, FS_CardinalityType
  <1>2. IsFiniteSet(S) /\ Cardinality(S) = n
    BY <1>1, FS_Interval
  <1>3. CanonicalOrder \in Surjection(S, Validator)
    BY ValidatorSetValid DEF Surjection
  <1>4. DOMAIN CanonicalOrder = S
    BY ValidatorSetValid
  <1> HIDE DEF S, n
  <1>5. CanonicalOrder \in Injection(S, Validator)
    BY <1>1, <1>2, <1>3, FS_SurjSameCardinalityImpliesInj DEF n
  <1> QED BY <1>4, <1>5 DEF Injection, IsInjective

\* The cursor starts at 0, grows by the power of each member and ends at the
\* total.
LEMMA CursorSteps ==
    /\ Cursor(0) = 0
    /\ Cursor(Cardinality(Validator)) = votePower(Validator)
    /\ \A k \in 0..Cardinality(Validator) : Cursor(k) \in Nat
    /\ \A k \in DOMAIN CanonicalOrder :
           Cursor(k) = Cursor(k - 1) + VotingPower[CanonicalOrder[k]]
  <1> DEFINE n == Cardinality(Validator)
  <1>1. n \in Nat /\ DOMAIN CanonicalOrder = 1..n
    BY ValidatorSetValid, FS_CardinalityType
  <1>2. \A k \in 0..n : Members(k) \in SUBSET Validator
    BY <1>1, ValidatorSetValid DEF Members
  <1>3. \A k : Cursor(k) = votePower(Members(k))
    BY DEF Cursor, Members
  <1>4. Cursor(0) = 0
    <2>1. Members(0) = {}
      BY DEF Members
    <2> QED BY <1>3, <2>1, SumEmpty DEF votePower
  <1>5. Cursor(n) = votePower(Validator)
    <2>1. Members(n) = Validator
      BY <1>1, ValidatorSetValid DEF Members
    <2> QED BY <1>3, <2>1
  <1>6. \A k \in 0..n : Cursor(k) \in Nat
    BY <1>2, <1>3, PowerFacts
  <1>7. ASSUME NEW k \in DOMAIN CanonicalOrder
        PROVE  Cursor(k) = Cursor(k - 1) + VotingPower[CanonicalOrder[k]]
    <2> DEFINE last == CanonicalOrder[k]
               power == VotingPower
    <2>1. k \in 0..n /\ k - 1 \in 0..n /\ k \in 1..k
      BY <1>1
    <2>2. last \in Members(k)
      BY <2>1 DEF Members
    <2>3. last \notin Members(k - 1)
      <3> SUFFICES ASSUME NEW i \in 1..(k - 1), CanonicalOrder[i] = last PROVE FALSE
        BY DEF Members
      <3>1. i \in DOMAIN CanonicalOrder /\ i # k
        BY <1>1, <2>1
      <3> QED BY <3>1, OrderIsInjective
    <2>4. Members(k) \ {last} = Members(k - 1)
      <3>1. \A i : i \in 1..k <=> i \in 1..(k - 1) \/ i = k
        BY <2>1, <1>1
      <3> QED BY <2>3, <3>1 DEF Members
    <2>5. IsFiniteSet(Members(k)) /\ \A v \in Members(k) : power[v] \in Int
      BY <1>2, <2>1, ValidatorSetValid, FS_Subset
    <2> HIDE DEF last, power
    <2>6. SumFunctionOnSet(power, Members(k))
            = power[last] + SumFunctionOnSet(power, Members(k) \ {last})
      BY <2>2, <2>5, SumRemove
    <2>7. Cursor(k) = power[last] + Cursor(k - 1)
      BY <1>3, <2>4, <2>6 DEF votePower, power
    <2>8. power[last] \in Int /\ Cursor(k - 1) \in Int
      BY <1>6, <2>1, <2>2, <2>5
    <2> QED BY <2>7, <2>8 DEF power, last
  <1> QED BY <1>4, <1>5, <1>6, <1>7

\* The point drawn falls into the share of one member and of no other, so the
\* loop of the code finds it, and each member is drawn for as many points as it
\* has power (consensus-primitives.js:23).
THEOREM ProposerIsDrawn ==
    ASSUME NEW h, NEW view, NEW previous,
           Draw(h, view, previous) \in 0..(votePower(Validator) - 1)
    PROVE  \E k \in DOMAIN CanonicalOrder :
               /\ selectProposer(h, view, previous) = CanonicalOrder[k]
               /\ \A j \in DOMAIN CanonicalOrder :
                      j = k <=> /\ Cursor(j - 1) <= Draw(h, view, previous)
                                /\ Draw(h, view, previous)
                                       < Cursor(j - 1) + VotingPower[CanonicalOrder[j]]
  <1> DEFINE n == Cardinality(Validator)
             point == Draw(h, view, previous)
             Drawn(k) == Cursor(k - 1) <= point /\ point < Cursor(k)
             drawn == {k \in DOMAIN CanonicalOrder : Drawn(k)}
  <1>1. n \in Nat /\ DOMAIN CanonicalOrder = 1..n /\ votePower(Validator) \in Nat
    BY ValidatorSetValid, FS_CardinalityType, PowerFacts
  <1>2. point \in Nat /\ point < votePower(Validator)
    BY <1>1
  <1> HIDE DEF point
  <1>3. drawn # {}
    <2> SUFFICES ASSUME drawn = {} PROVE FALSE
      OBVIOUS
    <2> DEFINE Z == {k \in Nat : k <= n => Cursor(k) <= point}
    <2>1. 0 \in Z
      BY <1>2, CursorSteps
    <2>2. ASSUME NEW k \in Z PROVE k + 1 \in Z
      <3> SUFFICES ASSUME k + 1 <= n PROVE Cursor(k + 1) <= point
        BY <2>2
      <3>1. k \in Nat /\ k + 1 \in 1..n /\ (k + 1) - 1 = k /\ k <= n
        BY <1>1, <2>2
      <3>2. Cursor(k) <= point /\ ~Drawn(k + 1)
        BY <1>1, <2>2, <3>1
      <3>3. Cursor(k + 1) \in Nat
        BY <3>1, <1>1, CursorSteps
      <3> QED BY <1>2, <3>1, <3>2, <3>3
    <2>3. Z = Nat
      <3>1. Z \in SUBSET Nat
        OBVIOUS
      <3> HIDE DEF Z
      <3> QED BY <2>1, <2>2, <3>1, Induction
    <2>4. Cursor(n) <= point
      BY <1>1, <2>3
    <2> QED BY <1>1, <1>2, <2>4, CursorSteps
  <1>4. ASSUME NEW i \in drawn, NEW j \in drawn, i < j PROVE FALSE
    <2>1. /\ i \in 1..n /\ j \in 1..n /\ i \in 0..n /\ j - 1 \in 0..n /\ i <= j - 1
          /\ point < Cursor(i) /\ Cursor(j - 1) <= point
      BY <1>1, <1>4
    <2>2. Members(i) \in SUBSET Members(j - 1) /\ Members(j - 1) \in SUBSET Validator
      BY <1>1, <2>1, ValidatorSetValid DEF Members
    <2>3. votePower(Members(i)) <= votePower(Members(j - 1))
      BY <2>2, PowerFacts
    <2>4. Cursor(i) <= Cursor(j - 1)
      BY <2>3 DEF Cursor, Members
    <2> QED BY <1>2, <2>1, <2>4, CursorSteps
  <1>5. \A i, j \in drawn : i = j
    BY <1>1, <1>4
  <1>6. PICK k \in drawn : TRUE
    BY <1>3
  <1>7. selectProposer(h, view, previous) = CanonicalOrder[CHOOSE x \in drawn : TRUE]
    BY <1>3 DEF selectProposer, point
  <1>8. CanonicalOrder[CHOOSE x \in drawn : TRUE] = CanonicalOrder[k]
    <2>1. (CHOOSE x \in drawn : TRUE) \in drawn
      BY <1>3
    <2> HIDE DEF drawn
    <2> QED BY <1>5, <2>1
  <1>9. \A j \in DOMAIN CanonicalOrder :
            j = k <=> /\ Cursor(j - 1) <= point
                      /\ point < Cursor(j - 1) + VotingPower[CanonicalOrder[j]]
    <2> SUFFICES ASSUME NEW j \in DOMAIN CanonicalOrder
                 PROVE  j = k <=> /\ Cursor(j - 1) <= point
                                  /\ point < Cursor(j - 1) + VotingPower[CanonicalOrder[j]]
      OBVIOUS
    <2>1. Cursor(j) = Cursor(j - 1) + VotingPower[CanonicalOrder[j]]
      BY CursorSteps
    <2>2. j \in drawn <=> Drawn(j)
      OBVIOUS
    <2> HIDE DEF drawn
    <2>3. j = k <=> j \in drawn
      BY <1>5
    <2> QED BY <2>1, <2>2, <2>3
  <1>10. k \in DOMAIN CanonicalOrder
    OBVIOUS
  <1> QED BY <1>7, <1>8, <1>9, <1>10 DEF point
=============================================================================
