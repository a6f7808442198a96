-------------------------- MODULE InterchainProofs --------------------------
(* The safety of external proofs and of the value that rests on them, for    *)
(* every set of routes, observers, proofs and lineages.                      *)
EXTENDS Interchain, FiniteSums, TLAPS

-----------------------------------------------------------------------------
(* The shape of what proofs and lineages are, without the sums of reserves.  *)

ProofsOK ==
    /\ routeObservers \subseteq Observer
    /\ candidates \in [Proof -> Content \cup {None}]
    /\ observations \in [Proof -> SUBSET Observer]
    /\ externalProofs \in [Proof -> ProofRecord \cup {None}]

LineagesOK ==
    /\ lineages \in [Lineage -> LineageRecord \cup {None}]
    /\ \A l \in Lineage :
          lineages[l] # None => (lineages[l].quarantined => ~lineages[l].active)

\* Who observed a proof is registered and watches the route of its content.
ObserversOK ==
    \A p \in Proof : observations[p] # {} =>
        /\ candidates[p] # None
        /\ observations[p] \subseteq
               {o \in routeObservers : candidates[p].route \in Watches[o]}

Safe ==
    /\ ProofsOK /\ LineagesOK /\ ObserversOK
    /\ EvidenceUsedOnce /\ Witnessed /\ NothingRestsOnFraud

\* Nothing happens to a proof or a lineage; observers may register.
LEMMA QuietSafe ==
    ASSUME Safe, UNCHANGED <<proofVars, lineages>>,
           routeObservers \subseteq routeObservers', routeObservers' \subseteq Observer
    PROVE  Safe'
  <1>1. UNCHANGED <<candidates, observations, externalProofs, lineages>>
    BY DEF proofVars
  <1>2. ProofsOK' /\ LineagesOK' /\ ObserversOK'
    BY <1>1 DEF Safe, ProofsOK, LineagesOK, ObserversOK
  <1>3. EvidenceUsedOnce' /\ NothingRestsOnFraud'
    BY <1>1 DEF Safe, EvidenceUsedOnce, NothingRestsOnFraud, Known, Admitted, nullifier
  <1>4. Witnessed'
    BY <1>1 DEF Safe, Witnessed, Known
  <1> QED BY <1>2, <1>3, <1>4 DEF Safe

\* A new proof rests on new evidence, and on the observers it was given.
LEMMA FinalizeSafe ==
    ASSUME Safe, NEW p \in Proof, NEW content \in Content, NEW observers,
           observers \subseteq Observer, Finalize(p, content, observers),
           UNCHANGED <<routeObservers, lineages>>,
           Terms[content.route].realValue =>
               /\ observers \subseteq {o \in routeObservers : content.route \in Watches[o]}
               /\ Cardinality({Group[o] : o \in observers})
                      >= Terms[content.route].observerThreshold
    PROVE  /\ externalProofs' \in [Proof -> ProofRecord \cup {None}]
           /\ LineagesOK' /\ EvidenceUsedOnce' /\ Witnessed' /\ NothingRestsOnFraud'
  <1> DEFINE new == [route |-> content.route, evidence |-> content.evidence,
                     status |-> "FINAL", observers |-> observers]
  <1>1. /\ new \in ProofRecord /\ new # None
        /\ new.route = content.route /\ new.observers = observers
        /\ nullifier(new) = nullifier(content)
    BY InterchainAssumption DEF ProofRecord, Content, nullifier
  <1>2. externalProofs' = [externalProofs EXCEPT ![p] = new] /\ externalProofs[p] = None
    BY DEF Finalize, Known
  <1> HIDE DEF new
  <1>3. \A q \in Proof : externalProofs'[q] = IF q = p THEN new ELSE externalProofs[q]
    BY <1>2 DEF Safe, ProofsOK
  <1>4. externalProofs' \in [Proof -> ProofRecord \cup {None}]
    BY <1>1, <1>2 DEF Safe, ProofsOK
  <1>5. Known' = Known \cup {p}
    BY <1>1, <1>3 DEF Known
  <1>6. \A q \in Known : q # p /\ nullifier(externalProofs[q]) # nullifier(new)
    BY <1>1, <1>2 DEF Known, Finalize, proofNullifiers
  <1>7. EvidenceUsedOnce'
    <2> SUFFICES ASSUME NEW q1 \in Known', NEW q2 \in Known',
                        nullifier(externalProofs'[q1]) = nullifier(externalProofs'[q2])
                 PROVE  q1 = q2
      BY DEF EvidenceUsedOnce, nullifier
    <2>1. \A q \in Known : externalProofs'[q] = externalProofs[q]
      BY <1>3, <1>6 DEF Known
    <2>2. externalProofs'[p] = new
      BY <1>3
    <2> QED BY <1>5, <1>6, <2>1, <2>2 DEF Safe, EvidenceUsedOnce
  <1>8. Witnessed'
    BY <1>1, <1>3, <1>5, <1>6 DEF Safe, Witnessed, Known
  <1>9. LineagesOK' /\ NothingRestsOnFraud'
    BY <1>3, <1>5, <1>6 DEF Safe, LineagesOK, NothingRestsOnFraud, Admitted, Known
  <1> QED BY <1>4, <1>7, <1>8, <1>9

\* A proof of a fixture route takes no observers and backs nothing yet.
LEMMA SubmitSafe ==
    ASSUME Safe, NEW p \in Proof, NEW content \in Content, submitExternalProof(p, content)
    PROVE  Safe'
  <1>1. /\ Finalize(p, content, {}) /\ ~Terms[content.route].realValue
        /\ UNCHANGED <<routeObservers, candidates, observations, lineages>>
    BY DEF submitExternalProof, valueVars
  <1>2. /\ externalProofs' \in [Proof -> ProofRecord \cup {None}]
        /\ LineagesOK' /\ EvidenceUsedOnce' /\ Witnessed' /\ NothingRestsOnFraud'
    <2> DEFINE none == {}
    <2>1. UNCHANGED <<routeObservers, lineages>> /\ none \subseteq Observer
      BY <1>1
    <2>2. Finalize(p, content, none)
      BY <1>1
    <2> HIDE DEF none
    <2>3. Terms[content.route].realValue =>
              /\ none \subseteq {o \in routeObservers : content.route \in Watches[o]}
              /\ Cardinality({Group[o] : o \in none})
                     >= Terms[content.route].observerThreshold
      BY <1>1
    <2> QED BY <2>1, <2>2, <2>3, FinalizeSafe
  <1>3. ProofsOK' /\ ObserversOK'
    BY <1>1, <1>2 DEF Safe, ProofsOK, ObserversOK
  <1> QED BY <1>2, <1>3 DEF Safe

\* An observation makes a proof only of a quorum that watches its route.
LEMMA ObserveSafe ==
    ASSUME Safe, NEW p \in Proof, NEW content \in Content, NEW o \in Observer,
           observeExternalProof(o, p, content)
    PROVE  Safe'
  <1> DEFINE observers == observations[p] \cup {o}
  <1>1. /\ o \in routeObservers /\ content.route \in Watches[o]
        /\ candidates[p] \in {None, content}
        /\ candidates' = [candidates EXCEPT ![p] = content]
        /\ observations' = [observations EXCEPT ![p] = observers]
        /\ UNCHANGED <<routeObservers, lineages>>
        /\ IF Quorum(content.route, observers) THEN Finalize(p, content, observers)
           ELSE UNCHANGED externalProofs
    BY DEF observeExternalProof, valueVars
  <1>2. content # None
    BY InterchainAssumption
  <1>3. observers \subseteq {x \in routeObservers : content.route \in Watches[x]}
    BY <1>1 DEF Safe, ObserversOK
  <1>4. observers \subseteq Observer
    BY DEF Safe, ProofsOK
  <1> HIDE DEF observers
  <1>5. /\ candidates' \in [Proof -> Content \cup {None}]
        /\ observations' \in [Proof -> SUBSET Observer]
        /\ \A q \in Proof : /\ candidates'[q] = IF q = p THEN content ELSE candidates[q]
                            /\ observations'[q] = IF q = p THEN observers ELSE observations[q]
    BY <1>1, <1>4 DEF Safe, ProofsOK
  <1>6. ObserversOK'
    BY <1>1, <1>2, <1>3, <1>5 DEF Safe, ObserversOK
  <1>7. CASE Quorum(content.route, observers)
    <2>1. /\ externalProofs' \in [Proof -> ProofRecord \cup {None}]
          /\ LineagesOK' /\ EvidenceUsedOnce' /\ Witnessed' /\ NothingRestsOnFraud'
      BY <1>1, <1>3, <1>4, <1>7, FinalizeSafe DEF Quorum
    <2> QED BY <1>1, <1>5, <1>6, <2>1 DEF Safe, ProofsOK
  <1>8. CASE ~Quorum(content.route, observers)
    <2>1. UNCHANGED <<routeObservers, externalProofs, lineages>>
      BY <1>1, <1>8
    <2>2. /\ LineagesOK' /\ EvidenceUsedOnce' /\ Witnessed' /\ NothingRestsOnFraud'
      BY <2>1 DEF Safe, LineagesOK, EvidenceUsedOnce, Witnessed, NothingRestsOnFraud,
                  Known, Admitted, nullifier
    <2> QED BY <1>5, <1>6, <2>1, <2>2 DEF Safe, ProofsOK
  <1> QED BY <1>7, <1>8

\* The challenge reaches every lineage that rests on the proof.
LEMMA ChallengeSafe ==
    ASSUME Safe, NEW p \in Proof, NEW d, challengeExternalProof(p, d)
    PROVE  Safe'
  <1>1. /\ p \in Known
        /\ externalProofs' = [externalProofs EXCEPT ![p].status = "INVALID"]
        /\ UNCHANGED <<routeObservers, candidates, observations>>
        /\ lineages' = [l \in Lineage |->
               IF l \in RestingOn(p)
               THEN [lineages[l] EXCEPT !.active = FALSE, !.quarantined = TRUE]
               ELSE lineages[l]]
    BY DEF challengeExternalProof, Quarantined
  <1>2. externalProofs[p] \in ProofRecord
    BY <1>1 DEF Safe, ProofsOK, Known
  <1>3. /\ externalProofs' \in [Proof -> ProofRecord \cup {None}]
        /\ \A q \in Proof :
              /\ q # p => externalProofs'[q] = externalProofs[q]
              /\ externalProofs'[q] # None <=> externalProofs[q] # None
              /\ q \in Known => /\ externalProofs'[q].route = externalProofs[q].route
                                /\ externalProofs'[q].evidence = externalProofs[q].evidence
                                /\ externalProofs'[q].observers = externalProofs[q].observers
    <2> DEFINE new == [externalProofs[p] EXCEPT !.status = "INVALID"]
    <2>1. /\ new \in ProofRecord /\ new.route = externalProofs[p].route
          /\ new.evidence = externalProofs[p].evidence
          /\ new.observers = externalProofs[p].observers
      BY <1>2 DEF ProofRecord
    <2>2. new # None
      BY <2>1, InterchainAssumption
    <2>3. externalProofs' = [externalProofs EXCEPT ![p] = new]
      BY <1>1
    <2> HIDE DEF new
    <2> QED BY <1>1, <2>1, <2>2, <2>3 DEF Safe, ProofsOK, Known
  <1>4. Known' = Known
    BY <1>3 DEF Known
  <1>5. EvidenceUsedOnce'
    BY <1>3, <1>4 DEF Safe, EvidenceUsedOnce, nullifier, Known
  <1>6. Witnessed'
    BY <1>1, <1>3, <1>4 DEF Safe, Witnessed, Known
  <1>7. \A l \in Lineage :
            /\ l \in Admitted => lineages[l] \in LineageRecord
            /\ l \in RestingOn(p) =>
                   /\ lineages'[l] \in LineageRecord /\ ~lineages'[l].active
            /\ l \notin RestingOn(p) => lineages'[l] = lineages[l]
    BY <1>1 DEF Safe, LineagesOK, RestingOn, Admitted, LineageRecord
  <1>8. LineagesOK'
    BY <1>1, <1>7 DEF Safe, LineagesOK
  <1>9. NothingRestsOnFraud'
    <2> SUFFICES ASSUME NEW l \in Admitted', lineages'[l].active,
                        Terms[lineages'[l].route].kind # "FIXTURE"
                 PROVE  /\ lineages'[l].proof \in Known'
                        /\ externalProofs'[lineages'[l].proof].status = "FINAL"
                        /\ externalProofs'[lineages'[l].proof].route = lineages'[l].route
      BY DEF NothingRestsOnFraud
    <2>1. l \in Lineage /\ l \notin RestingOn(p) /\ lineages'[l] = lineages[l]
      BY <1>7 DEF Admitted
    <2>2. l \in Admitted /\ lineages[l].proof # p
      BY <2>1 DEF Admitted, RestingOn
    <2>3. /\ lineages[l].proof \in Known
          /\ externalProofs[lineages[l].proof].status = "FINAL"
          /\ externalProofs[lineages[l].proof].route = lineages[l].route
      BY <2>1, <2>2 DEF Safe, NothingRestsOnFraud
    <2> QED BY <1>3, <1>4, <2>1, <2>2, <2>3 DEF Known
  <1>10. ProofsOK' /\ ObserversOK'
    BY <1>1, <1>3 DEF Safe, ProofsOK, ObserversOK
  <1> QED BY <1>5, <1>6, <1>8, <1>9, <1>10 DEF Safe

\* One lineage changes: what rests on no fraud still does not.
LEMMA LineageSafe ==
    ASSUME Safe, UNCHANGED <<routeObservers, proofVars>>, NEW l \in Lineage,
           NEW new \in LineageRecord, lineages' = [lineages EXCEPT ![l] = new],
           new.quarantined => ~new.active,
           new.active /\ Terms[new.route].kind # "FIXTURE" =>
               /\ new.proof \in Known
               /\ externalProofs[new.proof].status = "FINAL"
               /\ externalProofs[new.proof].route = new.route
    PROVE  Safe'
  <1>1. UNCHANGED <<candidates, observations, externalProofs>>
    BY DEF proofVars
  <1>2. LineagesOK' /\ \A k \in Lineage : lineages'[k] = IF k = l THEN new ELSE lineages[k]
    BY DEF Safe, LineagesOK
  <1>3. NothingRestsOnFraud'
    BY <1>1, <1>2 DEF Safe, NothingRestsOnFraud, Admitted, Known
  <1>4. ProofsOK' /\ ObserversOK' /\ EvidenceUsedOnce' /\ Witnessed'
    BY <1>1 DEF Safe, ProofsOK, ObserversOK, EvidenceUsedOnce, Witnessed, Known, nullifier
  <1> QED BY <1>2, <1>3, <1>4 DEF Safe

\* What is admitted rests on a proof that is FINAL at that moment.
LEMMA AdmitSafe ==
    ASSUME Safe, NEW l \in Lineage, NEW a \in Agent, NEW x \in Receipt, NEW p \in Proof,
           NEW r \in Route, NEW recognized \in 0..Paid[x],
           admitEarned(l, a, x, p, r, recognized)
    PROVE  Safe'
  <1> DEFINE new == [agent |-> a, proof |-> p, route |-> r, active |-> TRUE,
                     quarantined |-> FALSE, recognized |-> recognized]
  <1>1. /\ UNCHANGED <<routeObservers, proofVars>>
        /\ lineages' = [lineages EXCEPT ![l] = new]
        /\ Terms[r].kind # "FIXTURE" =>
              /\ p \in Known
              /\ externalProofs[p].status = "FINAL" /\ externalProofs[p].route = r
    BY DEF admitEarned
  <1>2. recognized \in Nat
    BY InterchainAssumption
  <1>3. /\ new \in LineageRecord /\ ~new.quarantined
        /\ new.proof = p /\ new.route = r
    BY <1>2 DEF LineageRecord
  <1> HIDE DEF new
  <1> QED BY <1>1, <1>3, LineageSafe

\* A release leaves the lineage what it is, only smaller.
LEMMA Released ==
    ASSUME Safe, NEW l \in Admitted, NEW n \in 1..lineages[l].recognized,
           releaseExternal(l, n)
    PROVE  /\ ~lineages[l].quarantined
           /\ \E new \in LineageRecord :
                 /\ lineages' = [lineages EXCEPT ![l] = new]
                 /\ ~new.quarantined
                 /\ new.proof = lineages[l].proof /\ new.route = lineages[l].route
  <1>1. lineages[l] \in LineageRecord /\ lineages[l].active /\ ~lineages[l].quarantined
    BY DEF Safe, LineagesOK, Admitted, releaseExternal, Releasable
  <1> DEFINE new == [[lineages[l] EXCEPT !.recognized = @ - n]
                        EXCEPT !.active = lineages[l].recognized # n]
  <1>2. lineages' = [lineages EXCEPT ![l] = new]
    BY <1>1 DEF Safe, LineagesOK, Admitted, releaseExternal, LineageRecord
  <1>3. lineages[l].recognized \in Nat /\ lineages[l].recognized - n \in Nat
    BY <1>1 DEF LineageRecord
  <1>4. /\ new \in LineageRecord /\ ~new.quarantined
        /\ new.proof = lineages[l].proof /\ new.route = lineages[l].route
    BY <1>1, <1>3 DEF LineageRecord
  <1> QED BY <1>1, <1>2, <1>4

\* A release changes how much is recognized and what is active, nothing else.
LEMMA ReleaseSafe ==
    ASSUME Safe, NEW l \in Admitted, NEW n \in 1..lineages[l].recognized,
           releaseExternal(l, n)
    PROVE  Safe'
  <1>1. PICK new \in LineageRecord :
            /\ lineages' = [lineages EXCEPT ![l] = new]
            /\ ~new.quarantined
            /\ new.proof = lineages[l].proof /\ new.route = lineages[l].route
    BY Released
  <1>2. l \in Lineage /\ lineages[l].active /\ UNCHANGED <<routeObservers, proofVars>>
    BY DEF Admitted, releaseExternal, Releasable
  <1>3. Terms[new.route].kind # "FIXTURE" =>
            /\ new.proof \in Known
            /\ externalProofs[new.proof].status = "FINAL"
            /\ externalProofs[new.proof].route = new.route
    BY <1>1, <1>2 DEF Safe, NothingRestsOnFraud
  <1> QED BY <1>1, <1>2, <1>3, LineageSafe

\* What no proof and no lineage is touched by.
Quiet ==
    /\ UNCHANGED <<proofVars, lineages>>
    /\ routeObservers \subseteq routeObservers' /\ routeObservers' \subseteq Observer

\* Every step is quiet, or one of the five that are not.
LEMMA Moves ==
    ASSUME Safe, [Next]_vars
    PROVE  \/ Quiet
           \/ \E p \in Proof, content \in Content : submitExternalProof(p, content)
           \/ \E p \in Proof, content \in Content, o \in Observer :
                  observeExternalProof(o, p, content)
           \/ \E p \in Proof : \E d \in 0..MaxPause : challengeExternalProof(p, d)
           \/ \E l \in Lineage, a \in Agent, x \in Receipt, p \in Proof, r \in Route :
                  \E recognized \in 0..Paid[x] : admitEarned(l, a, x, p, r, recognized)
           \/ \E l \in Admitted : \E n \in 1..lineages[l].recognized : releaseExternal(l, n)
  <1>1. routeObservers \subseteq Observer
    BY DEF Safe, ProofsOK
  <1>2. CASE UNCHANGED vars
    BY <1>1, <1>2 DEF Quiet, vars, valueVars
  <1>3. CASE RouteStep
    BY <1>1, <1>3 DEF RouteStep, Quiet, registerRoute, registerRouteObserver, pauseRoute,
                      Elsewhere, valueVars
  <1>4. CASE ProofStep
    BY <1>4 DEF ProofStep
  <1>5. CASE ValueStep
    <2>1. ASSUME NEW a \in Agent, NEW n, buy(a, n)
          PROVE  Quiet
      BY <1>1, <2>1 DEF Quiet, buy
    <2>2. ASSUME NEW a \in Agent, NEW n, sell(a, n)
          PROVE  Quiet
      BY <1>1, <2>2 DEF Quiet, sell
    <2> QED BY <1>5, <2>1, <2>2 DEF ValueStep
  <1> QED BY <1>2, <1>3, <1>4, <1>5 DEF Next

\* Every operation preserves Safe.
LEMMA SafeStep ==
    ASSUME Safe, [Next]_vars
    PROVE  Safe'
  <1>1. CASE Quiet
    BY <1>1, QuietSafe DEF Quiet
  <1>2. CASE \E p \in Proof, content \in Content : submitExternalProof(p, content)
    BY <1>2, SubmitSafe
  <1>3. CASE \E p \in Proof, content \in Content, o \in Observer :
                observeExternalProof(o, p, content)
    BY <1>3, ObserveSafe
  <1>4. CASE \E p \in Proof : \E d \in 0..MaxPause : challengeExternalProof(p, d)
    BY <1>4, ChallengeSafe
  <1>5. CASE \E l \in Lineage, a \in Agent, x \in Receipt, p \in Proof, r \in Route :
                \E recognized \in 0..Paid[x] : admitEarned(l, a, x, p, r, recognized)
    BY <1>5, AdmitSafe
  <1>6. CASE \E l \in Admitted : \E n \in 1..lineages[l].recognized : releaseExternal(l, n)
    BY <1>6, ReleaseSafe
  <1> QED BY <1>1, <1>2, <1>3, <1>4, <1>5, <1>6, Moves

\* At first there are neither proofs nor lineages.
LEMMA InitSafe ==
    ASSUME Init
    PROVE  Safe
  <1>1. /\ \A p \in Proof : externalProofs[p] = None /\ observations[p] = {}
        /\ \A l \in Lineage : lineages[l] = None
    BY DEF Init
  <1>2. ProofsOK /\ LineagesOK /\ ObserversOK
    BY DEF Init, ProofsOK, LineagesOK, ObserversOK
  <1>3. EvidenceUsedOnce /\ Witnessed /\ NothingRestsOnFraud
    BY <1>1 DEF EvidenceUsedOnce, Witnessed, NothingRestsOnFraud, Known, Admitted
  <1> QED BY <1>2, <1>3 DEF Safe

\* So Safe always holds.
LEMMA AlwaysSafe == Spec => []Safe
  <1>1. Init => Safe
    BY InitSafe
  <1>2. Safe /\ [Next]_vars => Safe'
    BY SafeStep
  <1> QED BY <1>1, <1>2, PTL DEF Spec

\* However many quorums observe, under whatever ids, evidence is proof once: a
\* nullifier stays used when its proof is found fraudulent (engine.js:98).
THEOREM NoEvidenceTwice == Spec => []EvidenceUsedOnce
  <1>1. Safe => EvidenceUsedOnce
    BY DEF Safe
  <1> QED BY <1>1, AlwaysSafe, PTL

\* A proof of real value has its independent, registered observers
\* (engine.js:97).
THEOREM RealValueIsWitnessed == Spec => []Witnessed
  <1>1. Safe => Witnessed
    BY DEF Safe
  <1> QED BY <1>1, AlwaysSafe, PTL

\* A challenge leaves no active value behind, on any number of lineages
\* (engine.js:99).
THEOREM FraudIsWithdrawn == Spec => []NothingRestsOnFraud
  <1>1. Safe => NothingRestsOnFraud
    BY DEF Safe
  <1> QED BY <1>1, AlwaysSafe, PTL

\* A quarantined lineage stays as it is: what is quarantined is not active, so a
\* second challenge changes nothing of it and no release takes from it
\* (engine.js:99, engine.js:134).
THEOREM QuarantineHolds == Spec => QuarantineIsFinal
  <1>1. ASSUME Safe, [Next]_vars
        PROVE  \A l \in Admitted : lineages[l].quarantined => lineages'[l] = lineages[l]
    <2> SUFFICES ASSUME NEW k \in Admitted, lineages[k].quarantined
                 PROVE  lineages'[k] = lineages[k]
      OBVIOUS
    <2>1. k \in Lineage /\ lineages[k] \in LineageRecord /\ ~lineages[k].active
      BY <1>1 DEF Safe, LineagesOK, Admitted
    <2>2. CASE Quiet
      BY <2>2 DEF Quiet
    <2>3. CASE \E p \in Proof, content \in Content : submitExternalProof(p, content)
      BY <2>3 DEF submitExternalProof, valueVars
    <2>4. CASE \E p \in Proof, content \in Content, o \in Observer :
                  observeExternalProof(o, p, content)
      BY <2>4 DEF observeExternalProof, valueVars
    <2>5. CASE \E p \in Proof : \E d \in 0..MaxPause : challengeExternalProof(p, d)
      <3>1. PICK p \in Proof :
                lineages' = [l \in Lineage |->
                    IF l \in Quarantined(p)
                    THEN [lineages[l] EXCEPT !.active = FALSE, !.quarantined = TRUE]
                    ELSE lineages[l]]
        BY <2>5 DEF challengeExternalProof
      <3>2. [lineages[k] EXCEPT !.active = FALSE, !.quarantined = TRUE] = lineages[k]
        BY <2>1 DEF LineageRecord
      <3> QED BY <2>1, <3>1, <3>2
    <2>6. CASE \E l \in Lineage, a \in Agent, x \in Receipt, p \in Proof, r \in Route :
                  \E recognized \in 0..Paid[x] : admitEarned(l, a, x, p, r, recognized)
      <3>1. PICK l \in Lineage, a \in Agent, x \in Receipt, p \in Proof, r \in Route :
                \E recognized \in 0..Paid[x] : admitEarned(l, a, x, p, r, recognized)
        BY <2>6
      <3>2. l # k
        BY <3>1 DEF admitEarned
      <3>3. PICK recognized \in 0..Paid[x] :
                lineages' = [lineages EXCEPT ![l] =
                    [agent |-> a, proof |-> p, route |-> r, active |-> TRUE,
                     quarantined |-> FALSE, recognized |-> recognized]]
        BY <3>1 DEF admitEarned
      <3> QED BY <1>1, <2>1, <3>2, <3>3 DEF Safe, LineagesOK
    <2>7. CASE \E l \in Admitted : \E n \in 1..lineages[l].recognized : releaseExternal(l, n)
      <3>1. PICK l \in Admitted :
                /\ ~lineages[l].quarantined
                /\ \E new : lineages' = [lineages EXCEPT ![l] = new]
        BY <1>1, <2>7, Released
      <3> QED BY <1>1, <2>1, <3>1 DEF Safe, LineagesOK
    <2> QED BY <1>1, <2>2, <2>3, <2>4, <2>5, <2>6, <2>7, Moves
  <1>2. Safe /\ [Next]_vars =>
            [\A l \in Admitted : lineages[l].quarantined => lineages'[l] = lineages[l]]_vars
    BY <1>1
  <1> QED BY <1>2, AlwaysSafe, PTL DEF Spec, QuarantineIsFinal

-----------------------------------------------------------------------------
(* Reserves and caps: the recognized value of sets of lineages.              *)

\* The recognized value of ls as a sum over all lineages.
Share(lins, ls) == [l \in Lineage |-> IF l \in ls THEN lins[l].recognized ELSE 0]

Value(lins, ls) == SumFunctionOnSet(Share(lins, ls), Lineage)

Valued(lins, ls) == ls \subseteq Lineage /\ \A l \in ls : lins[l].recognized \in Nat

\* Either way the value is the same, and natural.
LEMMA RecognizedIsValue ==
    ASSUME NEW lins, NEW ls, Valued(lins, ls)
    PROVE  /\ SumFunction([l \in ls |-> lins[l].recognized]) = Value(lins, ls)
           /\ Value(lins, ls) \in Nat
  <1> DEFINE f == [l \in ls |-> lins[l].recognized]
             g == Share(lins, ls)
  <1>1. /\ ls \subseteq Lineage /\ IsFiniteSet(Lineage) /\ IsFiniteSet(ls)
        /\ DOMAIN f = ls
        /\ \A l \in ls : f[l] \in Nat /\ g[l] = f[l]
        /\ \A l \in Lineage \ ls : g[l] = 0
        /\ \A l \in Lineage : g[l] \in Nat
    BY InterchainAssumption, FS_Subset DEF Valued, Share
  <1> HIDE DEF f, g
  <1>2. SumFunctionOnSet(g, ls) = SumFunctionOnSet(f, ls)
    BY <1>1, SumAgrees
  <1>3. IsFiniteSet(Lineage \ ls)
    BY <1>1, FS_Difference
  <1>4. SumFunctionOnSet(g, Lineage \ ls) = 0
    BY <1>1, <1>3, SumZero
  <1>5. SumFunctionOnSet(g, Lineage)
          = SumFunctionOnSet(g, ls) + SumFunctionOnSet(g, Lineage \ ls)
    BY <1>1, SumSplit
  <1>6. SumFunctionOnSet(g, ls) \in Nat /\ SumFunctionOnSet(g, Lineage) \in Nat
    BY <1>1, SumNat
  <1>7. SumFunction(f) = Value(lins, ls)
    BY <1>1, <1>2, <1>4, <1>5, <1>6 DEF SumFunction, Value, g
  <1> QED BY <1>6, <1>7 DEF f, g, Value

\* What one lineage gains, a set gains that holds all the others alike.
LEMMA ValueChange ==
    ASSUME NEW lins, NEW ls, Valued(lins, ls), NEW lins2, NEW ls2, Valued(lins2, ls2),
           NEW l \in Lineage,
           \A k \in Lineage \ {l} :
               /\ k \in ls2 <=> k \in ls
               /\ k \in ls => lins2[k].recognized = lins[k].recognized
    PROVE  Value(lins2, ls2)
             = Value(lins, ls) + (Share(lins2, ls2)[l] - Share(lins, ls)[l])
  <1> DEFINE f == Share(lins, ls)
             g == Share(lins2, ls2)
  <1>1. /\ \A k \in Lineage : f[k] \in Int /\ g[k] \in Int
        /\ \A k \in Lineage \ {l} : g[k] = f[k]
    BY DEF Share, Valued
  <1> HIDE DEF f, g
  <1>2. SumFunctionOnSet(g, Lineage) = SumFunctionOnSet(f, Lineage) + (g[l] - f[l])
    BY <1>1, InterchainAssumption, SumChange
  <1> QED BY <1>2 DEF Value, f, g

\* A part is worth no more than the whole.
LEMMA ValueMonotone ==
    ASSUME NEW lins, NEW ls, Valued(lins, ls), NEW part, part \subseteq ls
    PROVE  Value(lins, part) <= Value(lins, ls)
  <1> DEFINE f == Share(lins, part)
             g == Share(lins, ls)
  <1>1. \A k \in Lineage : f[k] \in Int /\ g[k] \in Int /\ f[k] <= g[k]
    BY DEF Share, Valued
  <1> HIDE DEF f, g
  <1>2. SumFunctionOnSet(f, Lineage) <= SumFunctionOnSet(g, Lineage)
    BY <1>1, InterchainAssumption, SumMonotone
  <1> QED BY <1>2 DEF Value, f, g

\* Without the lineages of gone, ls is worth what they were worth less.
LEMMA ValueWithout ==
    ASSUME NEW lins, NEW ls, Valued(lins, ls), NEW lins2, NEW gone,
           \A k \in ls \ gone : lins2[k].recognized = lins[k].recognized
    PROVE  Value(lins2, ls \ gone) + Value(lins, ls \cap gone) = Value(lins, ls)
  <1> DEFINE f == Share(lins, ls)
             g == Share(lins2, ls \ gone)
             h == Share(lins, ls \cap gone)
             T == Lineage \cap gone
  <1>1. /\ \A k \in Lineage : f[k] \in Int /\ g[k] \in Int /\ h[k] \in Int
        /\ \A k \in Lineage \ T : g[k] = f[k] /\ h[k] = 0
        /\ \A k \in T : g[k] = 0 /\ h[k] = f[k]
        /\ T \subseteq Lineage
    BY DEF Share, Valued
  <1> HIDE DEF f, g, h, T
  <1>2. IsFiniteSet(Lineage) /\ IsFiniteSet(T) /\ IsFiniteSet(Lineage \ T)
    BY <1>1, InterchainAssumption, FS_Subset, FS_Difference
  <1>3. /\ SumFunctionOnSet(f, Lineage)
             = SumFunctionOnSet(f, T) + SumFunctionOnSet(f, Lineage \ T)
        /\ SumFunctionOnSet(g, Lineage)
             = SumFunctionOnSet(g, T) + SumFunctionOnSet(g, Lineage \ T)
        /\ SumFunctionOnSet(h, Lineage)
             = SumFunctionOnSet(h, T) + SumFunctionOnSet(h, Lineage \ T)
    BY <1>1, <1>2, SumSplit
  <1>4. SumFunctionOnSet(g, T) = 0 /\ SumFunctionOnSet(h, Lineage \ T) = 0
    BY <1>1, <1>2, SumZero
  <1>5. SumFunctionOnSet(h, T) = SumFunctionOnSet(f, T)
    BY <1>1, <1>2, SumAgrees
  <1>6. SumFunctionOnSet(g, Lineage \ T) = SumFunctionOnSet(f, Lineage \ T)
    BY <1>1, <1>2, SumAgrees
  <1>7. SumFunctionOnSet(f, T) \in Int /\ SumFunctionOnSet(f, Lineage \ T) \in Int
    BY <1>1, <1>2, SumType
  <1> QED BY <1>3, <1>4, <1>5, <1>6, <1>7 DEF Value, f, g, h

ReservesOK == external \in [Agent -> Nat] /\ native \in [Agent -> 0..MaxNative]

\* What an agent's reserve is held against, and what a route's cap limits.
Backed ==
    /\ ReservesOK
    /\ \A a \in Agent : external[a] <= Value(lineages, ActiveOf(a))
    /\ \A r \in Route : Value(lineages, ActiveOn(r)) <= Terms[r].cap

\* The sets of lineages that are summed hold lineages of natural value.
Summable ==
    /\ \A l \in Admitted : l \in Lineage /\ lineages[l] \in LineageRecord
    /\ \A a \in Agent : Valued(lineages, ActiveOf(a))
    /\ \A r \in Route : Valued(lineages, ActiveOn(r))
    /\ \A part \in SUBSET Admitted : Valued(lineages, part)

\* Only admitted lineages are summed, and each has a natural value.
LEMMA Summed == Safe => Summable
  <1> SUFFICES ASSUME Safe PROVE Summable
    OBVIOUS
  <1>1. \A l \in Admitted : l \in Lineage /\ lineages[l] \in LineageRecord
    BY DEF Safe, LineagesOK, Admitted
  <1>2. \A l \in Admitted : l \in Lineage /\ lineages[l].recognized \in Nat
    BY <1>1 DEF LineageRecord
  <1> QED BY <1>1, <1>2 DEF Summable, Valued, ActiveOf, ActiveOn, RestingOn

\* So they do after a step.
LEMMA StillSummed == Safe' => Summable'
  BY Summed, PTL

\* Lineages stay as they are, and no reserve of external value grows.
Spent ==
    /\ UNCHANGED lineages /\ ReservesOK'
    /\ \A a \in Agent : external'[a] <= external[a]

\* Every step but the three that change lineages is of that kind.
LEMMA ReserveMoves ==
    ASSUME Safe, ReservesOK, [Next]_vars
    PROVE  \/ Spent
           \/ \E p \in Proof : \E d \in 0..MaxPause : challengeExternalProof(p, d)
           \/ \E l \in Lineage, a \in Agent, x \in Receipt, p \in Proof, r \in Route :
                  \E recognized \in 0..Paid[x] : admitEarned(l, a, x, p, r, recognized)
           \/ \E l \in Admitted : \E n \in 1..lineages[l].recognized : releaseExternal(l, n)
  <1>1. UNCHANGED valueVars => Spent
    BY DEF Spent, valueVars, ReservesOK
  <1>2. CASE UNCHANGED vars
    BY <1>1, <1>2 DEF vars
  <1>3. CASE RouteStep
    BY <1>1, <1>3 DEF RouteStep, registerRoute, registerRouteObserver, pauseRoute, Elsewhere
  <1>4. CASE ProofStep
    BY <1>1, <1>4 DEF ProofStep, submitExternalProof, observeExternalProof
  <1>5. ASSUME NEW a \in Agent, NEW n \in 1..MaxNative, buy(a, n)
        PROVE  Spent
    BY <1>5, InterchainAssumption DEF Spent, buy, ReservesOK
  <1>6. ASSUME NEW a \in Agent, NEW n \in 1..(native[a] + external[a]), sell(a, n)
        PROVE  Spent
    <2> DEFINE used == IF external[a] < n THEN external[a] ELSE n
    <2>1. /\ external[a] \in Nat /\ native[a] \in 0..MaxNative /\ MaxNative \in Nat
          /\ n \in Nat /\ n <= native[a] + external[a]
      BY <1>6, InterchainAssumption DEF ReservesOK
    <2>2. /\ external[a] - used \in Nat /\ external[a] - used <= external[a]
          /\ native[a] - (n - used) \in 0..MaxNative
      BY <2>1
    <2>3. /\ external' = [external EXCEPT ![a] = @ - used]
          /\ native' = [native EXCEPT ![a] = @ - (n - used)]
          /\ UNCHANGED lineages
      BY <1>6 DEF sell
    <2> HIDE DEF used
    <2> QED BY <2>2, <2>3 DEF Spent, ReservesOK
  <1>7. CASE ValueStep
    <2>1. \/ \E l \in Lineage, a \in Agent, x \in Receipt, p \in Proof, r \in Route :
                 \E recognized \in 0..Paid[x] : admitEarned(l, a, x, p, r, recognized)
          \/ \E l \in Admitted : \E n \in 1..lineages[l].recognized : releaseExternal(l, n)
          \/ \E a \in Agent : \E n \in 1..MaxNative : buy(a, n)
          \/ \E a \in Agent : \E n \in 1..(native[a] + external[a]) : sell(a, n)
      BY <1>7 DEF ValueStep
    <2>2. CASE \E a \in Agent : \E n \in 1..MaxNative : buy(a, n)
      BY <1>5, <2>2
    <2>3. CASE \E a \in Agent : \E n \in 1..(native[a] + external[a]) : sell(a, n)
      BY <1>6, <2>3
    <2> QED BY <2>1, <2>2, <2>3
  <1> QED BY <1>2, <1>3, <1>4, <1>7 DEF Next

\* admitEarned brings an agent what its lineage is recognized for, and the route
\* no more than its cap leaves.
LEMMA AdmitBacked ==
    ASSUME Safe, Safe', Backed, NEW l \in Lineage, NEW a \in Agent, NEW x \in Receipt,
           NEW p \in Proof, NEW r \in Route, NEW recognized \in 0..Paid[x],
           admitEarned(l, a, x, p, r, recognized)
    PROVE  Backed'
  <1> DEFINE new == [agent |-> a, proof |-> p, route |-> r, active |-> TRUE,
                     quarantined |-> FALSE, recognized |-> recognized]
  <1>1. /\ recognized \in Nat /\ l \notin Admitted
        /\ lineages' = [lineages EXCEPT ![l] = new]
        /\ external' = [external EXCEPT ![a] = @ + recognized]
        /\ native' = native /\ WithinCap(r, recognized)
    BY InterchainAssumption DEF admitEarned
  <1>2. /\ new # None /\ new.agent = a /\ new.route = r /\ new.active
        /\ new.recognized = recognized
    <2>1. new \in LineageRecord
      BY <1>1 DEF LineageRecord
    <2> QED BY <2>1, InterchainAssumption
  <1> HIDE DEF new
  <1>3. \A k \in Lineage : lineages'[k] = IF k = l THEN new ELSE lineages[k]
    BY <1>1 DEF Safe, LineagesOK
  <1>4. ReservesOK' /\ \A b \in Agent :
            external'[b] = external[b] + IF b = a THEN recognized ELSE 0
    BY <1>1 DEF Backed, ReservesOK
  <1>5. ASSUME NEW b \in Agent
        PROVE  Value(lineages', ActiveOf(b)')
                 = Value(lineages, ActiveOf(b)) + IF b = a THEN recognized ELSE 0
    <2>1. Valued(lineages, ActiveOf(b)) /\ Valued(lineages', ActiveOf(b)')
      BY Summed, StillSummed DEF Summable
    <2>2. \A k \in Lineage \ {l} :
              /\ k \in ActiveOf(b)' <=> k \in ActiveOf(b)
              /\ k \in ActiveOf(b) => lineages'[k].recognized = lineages[k].recognized
      BY <1>3 DEF ActiveOf, Admitted
    <2>3. /\ l \notin ActiveOf(b)
          /\ l \in ActiveOf(b)' <=> b = a
          /\ lineages'[l].recognized = recognized
      BY <1>1, <1>2, <1>3 DEF ActiveOf, Admitted
    <2>4. /\ Share(lineages, ActiveOf(b))[l] = 0
          /\ Share(lineages', ActiveOf(b)')[l] = IF b = a THEN recognized ELSE 0
      BY <2>3 DEF Share
    <2>5. Value(lineages, ActiveOf(b)) \in Nat
      BY <2>1, RecognizedIsValue
    <2>6. Value(lineages', ActiveOf(b)')
            = Value(lineages, ActiveOf(b))
                + (Share(lineages', ActiveOf(b)')[l] - Share(lineages, ActiveOf(b))[l])
      BY <2>1, <2>2, ValueChange
    <2> QED BY <1>1, <2>4, <2>5, <2>6
  <1>6. ASSUME NEW s \in Route
        PROVE  Value(lineages', ActiveOn(s)')
                 = Value(lineages, ActiveOn(s)) + IF s = r THEN recognized ELSE 0
    <2>1. Valued(lineages, ActiveOn(s)) /\ Valued(lineages', ActiveOn(s)')
      BY Summed, StillSummed DEF Summable
    <2>2. \A k \in Lineage \ {l} :
              /\ k \in ActiveOn(s)' <=> k \in ActiveOn(s)
              /\ k \in ActiveOn(s) => lineages'[k].recognized = lineages[k].recognized
      BY <1>3 DEF ActiveOn, Admitted
    <2>3. /\ l \notin ActiveOn(s)
          /\ l \in ActiveOn(s)' <=> s = r
          /\ lineages'[l].recognized = recognized
      BY <1>1, <1>2, <1>3 DEF ActiveOn, Admitted
    <2>4. /\ Share(lineages, ActiveOn(s))[l] = 0
          /\ Share(lineages', ActiveOn(s)')[l] = IF s = r THEN recognized ELSE 0
      BY <2>3 DEF Share
    <2>5. Value(lineages, ActiveOn(s)) \in Nat
      BY <2>1, RecognizedIsValue
    <2>6. Value(lineages', ActiveOn(s)')
            = Value(lineages, ActiveOn(s))
                + (Share(lineages', ActiveOn(s)')[l] - Share(lineages, ActiveOn(s))[l])
      BY <2>1, <2>2, ValueChange
    <2> QED BY <1>1, <2>4, <2>5, <2>6
  <1>7. Value(lineages, ActiveOn(r)) + recognized <= Terms[r].cap
    BY <1>1, Summed, RecognizedIsValue DEF Summable, WithinCap, Recognized
  <1>8. \A b \in Agent : /\ external[b] \in Nat /\ external[b] <= Value(lineages, ActiveOf(b))
                         /\ Value(lineages, ActiveOf(b)) \in Nat
    BY Summed, RecognizedIsValue DEF Summable, Backed, ReservesOK
  <1>9. ASSUME NEW b \in Agent
        PROVE  external'[b] <= Value(lineages', ActiveOf(b)')
    <2>1. /\ external'[b] = external[b] + IF b = a THEN recognized ELSE 0
          /\ Value(lineages', ActiveOf(b)')
                 = Value(lineages, ActiveOf(b)) + IF b = a THEN recognized ELSE 0
      BY <1>4, <1>5
    <2> QED BY <1>1, <1>8, <2>1
  <1>10. \A s \in Route : /\ Value(lineages, ActiveOn(s)) \in Nat
                          /\ Value(lineages, ActiveOn(s)) <= Terms[s].cap
    BY Summed, RecognizedIsValue DEF Summable, Backed
  <1>11. ASSUME NEW s \in Route
         PROVE  Value(lineages', ActiveOn(s)') <= Terms[s].cap
    <2>1. Value(lineages', ActiveOn(s)')
            = Value(lineages, ActiveOn(s)) + IF s = r THEN recognized ELSE 0
      BY <1>6
    <2> QED BY <1>7, <1>10, <2>1
  <1> QED BY <1>4, <1>9, <1>11 DEF Backed

\* Steps that change no lineage leave the sums alone.
LEMMA SpentBacked ==
    ASSUME Safe, Safe', Backed, Spent
    PROVE  Backed'
  <1>1. lineages' = lineages /\ ReservesOK'
    BY DEF Spent
  <1>2. /\ \A a \in Agent : ActiveOf(a)' = ActiveOf(a)
        /\ \A r \in Route : ActiveOn(r)' = ActiveOn(r)
    BY <1>1 DEF ActiveOf, ActiveOn, Admitted
  <1>3. ASSUME NEW a \in Agent
        PROVE  external'[a] <= Value(lineages, ActiveOf(a))
    <2>1. /\ external[a] \in Nat /\ external'[a] \in Nat /\ external'[a] <= external[a]
          /\ external[a] <= Value(lineages, ActiveOf(a))
      BY DEF Spent, Backed, ReservesOK
    <2>2. Value(lineages, ActiveOf(a)) \in Nat
      BY Summed, RecognizedIsValue DEF Summable
    <2> QED BY <2>1, <2>2
  <1> QED BY <1>1, <1>2, <1>3 DEF Backed

\* releaseExternal takes from the reserve what the lineage is worth less.
LEMMA ReleaseBacked ==
    ASSUME Safe, Safe', Backed, NEW l \in Admitted, NEW n \in 1..lineages[l].recognized,
           releaseExternal(l, n)
    PROVE  Backed'
  <1> DEFINE agent == lineages[l].agent
             held == lineages[l].recognized
             new == [[lineages[l] EXCEPT !.recognized = @ - n] EXCEPT !.active = held # n]
  <1>1. /\ l \in Lineage /\ lineages[l] \in LineageRecord /\ lineages[l].active
        /\ lineages \in [Lineage -> LineageRecord \cup {None}]
    BY DEF Safe, LineagesOK, Admitted, releaseExternal, Releasable
  <1>2. /\ agent \in Agent /\ held \in Nat /\ n \in Nat /\ held - n \in Nat
    BY <1>1 DEF LineageRecord
  <1>3. /\ lineages' = [lineages EXCEPT ![l] = new]
        /\ external' = [external EXCEPT ![agent] = @ - n]
        /\ native' = native /\ n <= external[agent]
    BY <1>1 DEF releaseExternal, LineageRecord
  <1>4. /\ new # None /\ new.agent = agent /\ new.route = lineages[l].route
        /\ new.recognized = held - n /\ new.active = (held # n)
    <2>1. new \in LineageRecord
      BY <1>1, <1>2 DEF LineageRecord
    <2>2. /\ new.agent = agent /\ new.route = lineages[l].route
          /\ new.recognized = held - n /\ new.active = (held # n)
      BY <1>1 DEF LineageRecord
    <2> QED BY <2>1, <2>2, InterchainAssumption
  <1> HIDE DEF new
  <1>5. \A k \in Lineage : lineages'[k] = IF k = l THEN new ELSE lineages[k]
    BY <1>1, <1>3
  <1>6. ReservesOK' /\ \A b \in Agent :
            external'[b] = external[b] - IF b = agent THEN n ELSE 0
    <2>1. external[agent] - n \in Nat
      BY <1>2, <1>3 DEF Backed, ReservesOK
    <2> HIDE DEF agent
    <2> QED BY <1>2, <1>3, <2>1 DEF Backed, ReservesOK
  <1>7. ASSUME NEW b \in Agent
        PROVE  Value(lineages', ActiveOf(b)')
                 = Value(lineages, ActiveOf(b)) - IF b = agent THEN n ELSE 0
    <2>1. Valued(lineages, ActiveOf(b)) /\ Valued(lineages', ActiveOf(b)')
      BY Summed, StillSummed DEF Summable
    <2>2. \A k \in Lineage \ {l} :
              /\ k \in ActiveOf(b)' <=> k \in ActiveOf(b)
              /\ k \in ActiveOf(b) => lineages'[k].recognized = lineages[k].recognized
      BY <1>5 DEF ActiveOf, Admitted
    <2>3. /\ l \in ActiveOf(b) <=> b = agent
          /\ l \in ActiveOf(b)' <=> b = agent /\ held # n
          /\ lineages'[l].recognized = held - n
      BY <1>1, <1>4, <1>5 DEF ActiveOf, Admitted
    <2>4. /\ Share(lineages, ActiveOf(b))[l] = IF b = agent THEN held ELSE 0
          /\ Share(lineages', ActiveOf(b)')[l] = IF b = agent THEN held - n ELSE 0
      BY <1>1, <1>2, <2>3 DEF Share
    <2>5. Value(lineages, ActiveOf(b)) \in Nat
      BY <2>1, RecognizedIsValue
    <2>6. Value(lineages', ActiveOf(b)')
            = Value(lineages, ActiveOf(b))
                + (Share(lineages', ActiveOf(b)')[l] - Share(lineages, ActiveOf(b))[l])
      BY <1>1, <2>1, <2>2, ValueChange
    <2> QED BY <1>2, <2>4, <2>5, <2>6
  <1>8. ASSUME NEW s \in Route
        PROVE  Value(lineages', ActiveOn(s)') <= Value(lineages, ActiveOn(s))
    <2>1. Valued(lineages, ActiveOn(s)) /\ Valued(lineages', ActiveOn(s)')
      BY Summed, StillSummed DEF Summable
    <2>2. \A k \in Lineage \ {l} :
              /\ k \in ActiveOn(s)' <=> k \in ActiveOn(s)
              /\ k \in ActiveOn(s) => lineages'[k].recognized = lineages[k].recognized
      BY <1>5 DEF ActiveOn, Admitted
    <2>3. /\ l \in ActiveOn(s)' => l \in ActiveOn(s)
          /\ lineages'[l].recognized = held - n
      BY <1>1, <1>4, <1>5 DEF ActiveOn, Admitted
    <2>4. /\ Share(lineages', ActiveOn(s)')[l] \in Nat
          /\ Share(lineages, ActiveOn(s))[l] \in Nat
          /\ Share(lineages', ActiveOn(s)')[l] <= Share(lineages, ActiveOn(s))[l]
      BY <1>1, <1>2, <2>3 DEF Share
    <2>5. Value(lineages, ActiveOn(s)) \in Nat
      BY <2>1, RecognizedIsValue
    <2>6. Value(lineages', ActiveOn(s)')
            = Value(lineages, ActiveOn(s))
                + (Share(lineages', ActiveOn(s)')[l] - Share(lineages, ActiveOn(s))[l])
      BY <1>1, <2>1, <2>2, ValueChange
    <2> QED BY <2>4, <2>5, <2>6
  <1> HIDE DEF agent, held
  <1>9. ASSUME NEW b \in Agent
        PROVE  external'[b] <= Value(lineages', ActiveOf(b)')
    <2>1. /\ external[b] \in Nat /\ external[b] <= Value(lineages, ActiveOf(b))
          /\ Value(lineages, ActiveOf(b)) \in Nat
      BY Summed, RecognizedIsValue DEF Summable, Backed, ReservesOK
    <2>2. /\ external'[b] = external[b] - IF b = agent THEN n ELSE 0
          /\ Value(lineages', ActiveOf(b)')
                 = Value(lineages, ActiveOf(b)) - IF b = agent THEN n ELSE 0
      BY <1>6, <1>7
    <2> QED BY <1>2, <2>1, <2>2
  <1>10. ASSUME NEW s \in Route
         PROVE  Value(lineages', ActiveOn(s)') <= Terms[s].cap
    <2>1. /\ Value(lineages, ActiveOn(s)) \in Nat /\ Value(lineages', ActiveOn(s)') \in Nat
          /\ Value(lineages, ActiveOn(s)) <= Terms[s].cap
      BY Summed, StillSummed, RecognizedIsValue DEF Summable, Backed
    <2>2. Terms[s].cap \in Nat
      BY InterchainAssumption DEF RouteTerms
    <2> QED BY <1>8, <2>1, <2>2
  <1> QED BY <1>6, <1>9, <1>10 DEF Backed

\* A challenge takes from each reserve at least what the lineages it quarantines
\* still stood for, and no more than there is.
LEMMA ChallengeBacked ==
    ASSUME Safe, Safe', Backed, NEW p \in Proof, NEW d, challengeExternalProof(p, d)
    PROVE  Backed'
  <1> DEFINE gone == RestingOn(p)
  <1>1. Covered(p) /\ native' = native
    <2>1. Covered(p)
          /\ UNCHANGED <<routes, routeObservers, candidates, observations, native>>
      BY Zenon DEF challengeExternalProof
    <2> QED BY <2>1
  <1>2. external' = [a \in Agent |-> external[a] - Withdrawn(p, a)]
    BY Zenon DEF challengeExternalProof
  <1>3. ASSUME NEW l \in Lineage
        PROVE  lineages'[l] = IF l \in gone
                   THEN [lineages[l] EXCEPT !.active = FALSE, !.quarantined = TRUE]
                   ELSE lineages[l]
    BY Zenon DEF challengeExternalProof, Quarantined
  <1>4. gone \subseteq Admitted /\ gone \subseteq Lineage /\ None \notin LineageRecord
    BY InterchainAssumption DEF RestingOn, Admitted
  <1>5. \A l \in gone : lineages[l] \in LineageRecord
    BY <1>4, Summed DEF Summable
  <1> HIDE DEF gone
  <1>6. /\ \A l \in Lineage \ gone : lineages'[l] = lineages[l]
        /\ \A l \in gone : lineages'[l] \in LineageRecord /\ ~lineages'[l].active
    <2>1. ASSUME NEW l \in gone
          PROVE  lineages'[l] \in LineageRecord /\ ~lineages'[l].active
      <3>1. l \in Lineage
        BY <1>4
      <3>2. lineages'[l] = [lineages[l] EXCEPT !.active = FALSE, !.quarantined = TRUE]
        BY <1>3, <3>1, Zenon
      <3> QED BY <1>5, <3>2 DEF LineageRecord
    <2>2. ASSUME NEW l \in Lineage \ gone PROVE lineages'[l] = lineages[l]
      BY <1>3, Zenon
    <2> QED BY <2>1, <2>2
  <1>7. /\ \A a \in Agent : ActiveOf(a)' = ActiveOf(a) \ gone
        /\ \A r \in Route : ActiveOn(r)' = ActiveOn(r) \ gone
    <2>1. ASSUME NEW a \in Agent PROVE ActiveOf(a)' = ActiveOf(a) \ gone
      BY <1>4, <1>6 DEF ActiveOf, Admitted
    <2>2. ASSUME NEW r \in Route PROVE ActiveOn(r)' = ActiveOn(r) \ gone
      BY <1>4, <1>6 DEF ActiveOn, Admitted
    <2> QED BY <2>1, <2>2
  <1>8. ASSUME NEW a \in Agent
        PROVE  /\ Withdrawn(p, a) \in Nat
               /\ Value(lineages, ActiveOf(a) \cap gone) <= Withdrawn(p, a)
    <2> DEFINE of == {l \in RestingOn(p) : lineages[l].agent = a}
    <2>1. ActiveOf(a) \cap gone \subseteq of /\ of \subseteq Admitted
      BY <1>4 DEF ActiveOf, gone
    <2>2. Withdrawn(p, a) = SumFunction([l \in of |-> lineages[l].recognized])
      BY DEF Withdrawn, Recognized
    <2> HIDE DEF of
    <2>3. Valued(lineages, of)
      BY <2>1, Summed DEF Summable
    <2> QED BY <2>1, <2>2, <2>3, RecognizedIsValue, ValueMonotone
  <1>9. /\ ReservesOK'
        /\ \A a \in Agent : external'[a] = external[a] - Withdrawn(p, a)
    <2>1. ASSUME NEW a \in Agent
          PROVE  external[a] - Withdrawn(p, a) \in Nat
      <3>1. Withdrawn(p, a) \in Nat /\ Withdrawn(p, a) <= external[a] /\ external[a] \in Nat
        BY <1>1, <1>8 DEF Covered, Backed, ReservesOK
      <3> QED BY <3>1
    <2>2. external' \in [Agent -> Nat]
      BY <1>2, <2>1, Zenon
    <2>3. ASSUME NEW a \in Agent PROVE external'[a] = external[a] - Withdrawn(p, a)
      BY <1>2, Zenon
    <2> QED BY <1>1, <2>2, <2>3 DEF Backed, ReservesOK
  <1>10. ASSUME NEW a \in Agent
        PROVE  external'[a] <= Value(lineages', ActiveOf(a)')
    <2> DEFINE kept == Value(lineages', ActiveOf(a)')
               lost == Value(lineages, ActiveOf(a) \cap gone)
               all == Value(lineages, ActiveOf(a))
    <2>1. /\ Valued(lineages, ActiveOf(a)) /\ Valued(lineages', ActiveOf(a)')
          /\ Valued(lineages, ActiveOf(a) \cap gone)
      BY Summed, StillSummed DEF Summable, Valued
    <2>2. kept \in Nat /\ lost \in Nat /\ all \in Nat
      BY <2>1, RecognizedIsValue
    <2>3. kept + lost = all
      <3>1. \A k \in ActiveOf(a) \ gone : lineages'[k].recognized = lineages[k].recognized
        BY <1>6, <2>1 DEF Valued
      <3>2. Value(lineages', ActiveOf(a) \ gone) + lost = all
        BY <2>1, <3>1, ValueWithout
      <3> QED BY <1>7, <3>2
    <2>4. /\ external'[a] = external[a] - Withdrawn(p, a)
          /\ external[a] \in Nat /\ external[a] <= all
      BY <1>9 DEF Backed, ReservesOK
    <2>5. Withdrawn(p, a) \in Nat /\ lost <= Withdrawn(p, a)
      BY <1>8
    <2> HIDE DEF kept, lost, all
    <2>6. external'[a] <= kept
      BY <2>2, <2>3, <2>4, <2>5
    <2> QED BY <2>6 DEF kept
  <1>11. ASSUME NEW r \in Route
        PROVE  Value(lineages', ActiveOn(r)') <= Terms[r].cap
    <2> DEFINE kept == Value(lineages', ActiveOn(r)')
               lost == Value(lineages, ActiveOn(r) \cap gone)
               all == Value(lineages, ActiveOn(r))
    <2>1. /\ Valued(lineages, ActiveOn(r)) /\ Valued(lineages', ActiveOn(r)')
          /\ Valued(lineages, ActiveOn(r) \cap gone)
      BY Summed, StillSummed DEF Summable, Valued
    <2>2. kept \in Nat /\ lost \in Nat /\ all \in Nat
      BY <2>1, RecognizedIsValue
    <2>3. kept + lost = all
      <3>1. \A k \in ActiveOn(r) \ gone : lineages'[k].recognized = lineages[k].recognized
        BY <1>6, <2>1 DEF Valued
      <3>2. Value(lineages', ActiveOn(r) \ gone) + lost = all
        BY <2>1, <3>1, ValueWithout
      <3> QED BY <1>7, <3>2
    <2>4. all <= Terms[r].cap /\ Terms[r].cap \in Nat
      BY InterchainAssumption DEF Backed, RouteTerms
    <2> HIDE DEF kept, lost, all
    <2>5. kept <= Terms[r].cap
      BY <2>2, <2>3, <2>4
    <2> QED BY <2>5 DEF kept
  <1> QED BY <1>9, <1>10, <1>11 DEF Backed

\* Every operation preserves Backed, whose sums need the shapes of Safe.
LEMMA BackedStep ==
    ASSUME Safe, Safe', Backed, [Next]_vars
    PROVE  Backed'
  <1>1. CASE Spent
    BY <1>1, SpentBacked
  <1>2. CASE \E p \in Proof : \E d \in 0..MaxPause : challengeExternalProof(p, d)
    BY <1>2, ChallengeBacked
  <1>3. CASE \E l \in Lineage, a \in Agent, x \in Receipt, p \in Proof, r \in Route :
                \E recognized \in 0..Paid[x] : admitEarned(l, a, x, p, r, recognized)
    BY <1>3, AdmitBacked
  <1>4. CASE \E l \in Admitted : \E n \in 1..lineages[l].recognized : releaseExternal(l, n)
    BY <1>4, ReleaseBacked
  <1> QED BY <1>1, <1>2, <1>3, <1>4, ReserveMoves DEF Backed

\* At first nothing is held and nothing is summed.
LEMMA InitBacked ==
    ASSUME Init
    PROVE  Backed
  <1>1. Admitted = {}
    BY DEF Init, Admitted
  <1>2. Value(lineages, {}) = 0
    <2> DEFINE f == Share(lineages, {})
    <2>1. \A l \in Lineage : f[l] = 0
      BY DEF Share
    <2> HIDE DEF f
    <2>2. SumFunctionOnSet(f, Lineage) = 0
      BY <2>1, InterchainAssumption, SumZero
    <2> QED BY <2>2 DEF Value, f
  <1>3. /\ \A a \in Agent : ActiveOf(a) = {}
        /\ \A r \in Route : ActiveOn(r) = {} /\ Terms[r].cap \in Nat
    BY <1>1, InterchainAssumption DEF ActiveOf, ActiveOn, RouteTerms
  <1>4. ReservesOK /\ \A a \in Agent : external[a] = 0
    BY InterchainAssumption DEF Init, ReservesOK
  <1>5. ASSUME NEW a \in Agent PROVE external[a] <= Value(lineages, ActiveOf(a))
    <2>1. ActiveOf(a) = {} /\ external[a] = 0
      BY <1>3, <1>4
    <2> QED BY <1>2, <2>1
  <1>6. ASSUME NEW r \in Route PROVE Value(lineages, ActiveOn(r)) <= Terms[r].cap
    BY <1>2, <1>3
  <1> QED BY <1>4, <1>5, <1>6 DEF Backed

\* So both always hold.
LEMMA AlwaysBacked == Spec => [](Safe /\ Backed)
  <1>1. Init => Backed
    BY InitBacked
  <1>2. Safe /\ Safe' /\ Backed /\ [Next]_vars => Backed'
    BY BackedStep
  <1> QED BY <1>1, <1>2, AlwaysSafe, PTL DEF Spec

\* The value of a set of lineages is what the code sums up.
LEMMA BackedMeans ==
    ASSUME Safe, Backed
    PROVE  ReserveBacked /\ CapHeld
  <1>1. /\ \A a \in Agent : Recognized(ActiveOf(a)) = Value(lineages, ActiveOf(a))
        /\ \A r \in Route : Recognized(ActiveOn(r)) = Value(lineages, ActiveOn(r))
    BY Summed, RecognizedIsValue DEF Summable, Recognized
  <1> QED BY <1>1 DEF Backed, ReserveBacked, CapHeld

\* Over any number of admissions, sales, releases and challenges, no agent's
\* reserve holds more external value than its active lineages stand for.
THEOREM ReservesAreBacked == Spec => []ReserveBacked
  <1>1. Safe /\ Backed => ReserveBacked
    BY BackedMeans
  <1> QED BY <1>1, AlwaysBacked, PTL

\* Admissions race for a route's cap, and releases and challenges give it back;
\* together the active lineages never pass it (engine.js:110).
THEOREM CapsHold == Spec => []CapHeld
  <1>1. Safe /\ Backed => CapHeld
    BY BackedMeans
  <1> QED BY <1>1, AlwaysBacked, PTL

RoutesOK == routes \subseteq Route /\ pausedFor \in [Route -> 0..MaxPause]

\* A pause is within its bound and runs out.
LEMMA RoutesStep ==
    ASSUME Safe, RoutesOK, [Next]_vars
    PROVE  RoutesOK'
  <1>1. Elapsed \in [Route -> 0..MaxPause]
    <2>1. \A r \in Route : /\ pausedFor[r] \in 0..MaxPause
                           /\ pausedFor[r] # 0 => pausedFor[r] - 1 \in 0..MaxPause
      BY InterchainAssumption DEF RoutesOK
    <2> QED BY <2>1 DEF Elapsed
  <1>0. \A d \in 0..MaxPause : Refused(d) \in 0..MaxPause
    BY InterchainAssumption DEF Refused
  <1>2. ASSUME Passes, UNCHANGED routes PROVE RoutesOK'
    BY <1>1, <1>2 DEF RoutesOK, Passes
  <1>3. CASE UNCHANGED vars
    BY <1>3 DEF RoutesOK, vars
  <1>4. CASE RouteStep
    <2>1. ASSUME NEW r \in Route, registerRoute(r) PROVE RoutesOK'
      BY <1>1, <2>1 DEF RoutesOK, registerRoute, Passes
    <2>2. ASSUME NEW r \in Route, NEW d \in 0..MaxPause, pauseRoute(r, d) PROVE RoutesOK'
      <3> DEFINE left == Refused(d)
      <3>1. left \in 0..MaxPause /\ pausedFor' = [Elapsed EXCEPT ![r] = left] /\ routes' = routes
        BY <1>0, <2>2 DEF pauseRoute
      <3> HIDE DEF left
      <3> QED BY <1>1, <3>1 DEF RoutesOK
    <2>3. ASSUME NEW o \in Observer, registerRouteObserver(o) PROVE RoutesOK'
      BY <1>2, <2>3 DEF registerRouteObserver
    <2>4. CASE Elsewhere
      BY <1>2, <2>4 DEF Elsewhere
    <2> QED BY <1>4, <2>1, <2>2, <2>3, <2>4 DEF RouteStep
  <1>5. CASE ProofStep
    <2>1. ASSUME NEW p \in Proof, NEW content \in Content, submitExternalProof(p, content)
          PROVE  RoutesOK'
      BY <1>2, <2>1 DEF submitExternalProof
    <2>2. ASSUME NEW p \in Proof, NEW content \in Content, NEW o \in Observer,
                 observeExternalProof(o, p, content)
          PROVE  RoutesOK'
      BY <1>2, <2>2 DEF observeExternalProof
    <2>3. ASSUME NEW p \in Proof, NEW d \in 0..MaxPause, challengeExternalProof(p, d)
          PROVE  RoutesOK'
      <3> DEFINE left == Refused(d)
      <3>1. /\ \E r : pausedFor' = [Elapsed EXCEPT ![r] = left]
            /\ routes' = routes
        <4>1. pausedFor' = [Elapsed EXCEPT ![externalProofs[p].route] = left]
          BY <2>3, Zenon DEF challengeExternalProof
        <4>2. routes' = routes
          BY <2>3, Zenon DEF challengeExternalProof
        <4> QED BY <4>1, <4>2
      <3>2. left \in 0..MaxPause
        BY <1>0
      <3> HIDE DEF left
      <3> QED BY <1>1, <3>1, <3>2 DEF RoutesOK
    <2> QED BY <1>5, <2>1, <2>2, <2>3 DEF ProofStep
  <1>6. CASE ValueStep
    <2>1. ASSUME NEW l \in Lineage, NEW a \in Agent, NEW x \in Receipt, NEW p \in Proof,
                 NEW r \in Route, NEW recognized \in 0..Paid[x],
                 admitEarned(l, a, x, p, r, recognized)
          PROVE  RoutesOK'
      BY <1>2, <2>1 DEF admitEarned
    <2>2. ASSUME NEW l, NEW n, releaseExternal(l, n) PROVE RoutesOK'
      BY <1>2, <2>2 DEF releaseExternal
    <2>3. ASSUME NEW a, NEW n, buy(a, n) PROVE RoutesOK'
      BY <1>2, <2>3 DEF buy
    <2>4. ASSUME NEW a, NEW n, sell(a, n) PROVE RoutesOK'
      BY <1>2, <2>4 DEF sell
    <2> QED BY <1>6, <2>1, <2>2, <2>3, <2>4 DEF ValueStep
  <1> QED BY <1>3, <1>4, <1>5, <1>6 DEF Next

\* Records keep their shapes and no reserve is overdrawn: what a challenge, a
\* sale or a release takes, the reserve has.
THEOREM TypeCorrect == Spec => []TypeOK
  <1>1. Init => RoutesOK
    BY InterchainAssumption DEF Init, RoutesOK
  <1>2. Safe /\ RoutesOK /\ [Next]_vars => RoutesOK'
    BY RoutesStep
  <1>3. Safe /\ Backed /\ RoutesOK => TypeOK
    <2> SUFFICES ASSUME Safe, Backed, RoutesOK PROVE TypeOK
      OBVIOUS
    <2>1. observations \in [Proof -> SUBSET routeObservers]
      BY DEF Safe, ProofsOK, ObserversOK
    <2> QED BY <2>1 DEF TypeOK, Safe, ProofsOK, LineagesOK, RoutesOK, Backed, ReservesOK
  <1> QED BY <1>1, <1>2, <1>3, AlwaysBacked, PTL DEF Spec
=============================================================================
