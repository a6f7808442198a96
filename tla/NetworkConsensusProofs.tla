----------------------- MODULE NetworkConsensusProofs -----------------------
(* The safety of the network consensus, for every validator set, every       *)
(* assignment of voting power, every number of losses, crashes and restarts. *)
EXTENDS NetworkConsensus, ConsensusValidatorProofs, ConsensusPrimitivesProofs

-----------------------------------------------------------------------------
(* Requests are well formed.                                                 *)

\* A state with something in it has a height of at least 1.
LEMMA StateLength ==
    ASSUME NEW s \in State, s # <<>>
    PROVE  height(s) \in Nat \ {0}
BY DEF State, height

\* syncValidator sends a certificate or none.
LEMMA StoredCertificateType ==
    TypeOK => StoredCertificate \in Certificate \cup {Nil}
  <1> SUFFICES ASSUME TypeOK
               PROVE  StoredCertificate \in Certificate \cup {Nil}
    OBVIOUS
  <1>1. CASE canonical = <<>>
    BY <1>1 DEF StoredCertificate, TypeOK
  <1>2. CASE canonical # <<>>
    <2>1. height(canonical) \in Heights
      BY <1>2, StateLength, ValidatorBounds DEF TypeOK, Heights
    <2> QED BY <1>2, <2>1 DEF StoredCertificate, TypeOK
  <1> QED BY <1>1, <1>2

Asking == {"prepare", "precommit", "commit", "abort", "view-change",
           "certify", "resync", "status"}

\* In each phase that asks validators, the request is a request.
LEMMA RequestTyped ==
    ASSUME TypeOK, Control, pc \in Asking
    PROVE  Request \in RequestType
  <1>0. pc \in {"prepare", "precommit", "commit", "abort", "view-change"} =>
            /\ prop \in NextProposal
            /\ pc # "commit" => height(canonical) + 1 \in Heights
    <2>1. pc \in {"prepare", "precommit", "commit", "abort", "view-change"} =>
                prop \in NextProposal
      BY DEF Control, TypeOK, Applying
    <2>2. pc \in {"prepare", "precommit", "abort", "view-change"} =>
                height(canonical) + 1 = HeightOf(prop)
      BY DEF Control, Applying, HeightOf
    <2> QED BY <2>1, <2>2 DEF NextProposal
  <1>1. CASE pc = "prepare"
    BY <1>0, <1>1 DEF Request, RequestType, TypeOK
  <1>2. CASE pc = "precommit"
    BY <1>0, <1>2 DEF Request, RequestType
  <1>3. CASE pc = "commit"
    <2>1. lastCert \in Certificate
      BY <1>3 DEF Control, TypeOK
    <2> QED BY <1>0, <1>3, <2>1 DEF Request, RequestType
  <1>4. CASE pc = "abort"
    BY <1>0, <1>4 DEF Request, RequestType
  <1>5. CASE pc = "view-change"
    <2>1. view + 1 \in Nat \ {0} /\ height(canonical) + 1 \in Heights
      BY <1>0, <1>5 DEF TypeOK
    <2>2. (IF locked = Nil THEN canonical ELSE ExpectedState(locked)) \in State
      BY ProposalFacts DEF TypeOK, NextProposal
    <2> QED BY <1>5, <2>1, <2>2 DEF Request, RequestType, TypeOK
  <1>6. CASE pc = "certify"
    BY <1>6 DEF Request, RequestType, TypeOK
  <1>7. CASE pc \in {"resync", "status"}
    BY <1>7 DEF Request, RequestType, TypeOK
  <1> QED BY <1>1, <1>2, <1>3, <1>4, <1>5, <1>6, <1>7 DEF Asking

\* So is whatever is on its way to a validator.
LEMMA InFlightTyped ==
    ASSUME TypeOK, Control, NEW v \in Validator,
           call[v] \in {"call", "sync", "retry"}
    PROVE  InFlight(v) \in RequestType
  <1>1. pc \in Asking
    BY DEF Control, Settled, Pending, TypeOK, Phase, Asking
  <1>2. SyncRequest \in RequestType
    BY StoredCertificateType DEF SyncRequest, RequestType, TypeOK
  <1> QED BY <1>1, <1>2, RequestTyped DEF InFlight

-----------------------------------------------------------------------------
(* Every step of the system is a step of one validator or of none.           *)

\* The coordinator and the network reach a validator only through its handlers.
LEMMA StepOfValidators ==
    ASSUME TypeOK, Control, [Next]_vars
    PROVE  [ValidatorNext]_validatorVars
  <1>1. ASSUME NEW v \in Validator, Answer(v)
        PROVE  ValidatorNext
    BY <1>1, InFlightTyped DEF Answer, ValidatorNext
  <1>2. ASSUME NEW v \in Validator, Health(v)
        PROVE  UNCHANGED validatorVars
    BY <1>2 DEF Health
  <1>3. ASSUME NEW v \in Validator, TimeOut(v)
        PROVE  UNCHANGED validatorVars
    BY <1>3 DEF TimeOut
  <1>4. ASSUME NEW v \in Validator, ValidatorCrash(v)
        PROVE  ValidatorNext
    BY <1>4 DEF ValidatorCrash, ValidatorNext
  <1>5. ASSUME NEW v \in Validator, ValidatorCommitCrash(v)
        PROVE  ValidatorNext
    <2>1. Request \in RequestType
      BY <1>5, RequestTyped DEF ValidatorCommitCrash, Asking
    <2> QED BY <1>5, <2>1 DEF ValidatorCommitCrash, ValidatorNext
  <1>6. ASSUME NEW d \in late, HandleLate(d)
        PROVE  ValidatorNext
    <2>1. d[1] \in Validator /\ d[2] \in RequestType
      BY DEF TypeOK
    <2> QED BY <1>6, <2>1 DEF HandleLate, ValidatorNext
  <1>7. ASSUME Coordinate \/ ProposerDown \/ CoordinatorCrash
        PROVE  UNCHANGED validatorVars
    BY <1>7 DEF Coordinate, ProposerUp, ProposerDown, PrepareQuorum, PrepareShort,
       PrecommitQuorum, PrecommitShort, Aborted, ViewAdvanced, ViewStuck,
       CommitsSent, SaveState, PersistLastCertificate, CoordinatorCrash, load, Boot,
       Certified, CertifyShort, Resynced, Restored
  <1>8. ASSUME NEW tx \in Tx, Submit(tx)
        PROVE  UNCHANGED validatorVars
    BY <1>8 DEF Submit
  <1>9. CASE UNCHANGED vars
    BY <1>9 DEF vars
  <1> QED BY <1>1, <1>2, <1>3, <1>4, <1>5, <1>6, <1>7, <1>8, <1>9
          DEF Next, Exchange, Fault, Done

-----------------------------------------------------------------------------
(* Types and control.                                                        *)

\* The initial state is typed and under control.
LEMMA InitTypeControl == Init => TypeOK /\ Control
  <1> SUFFICES ASSUME Init
               PROVE  TypeOK /\ Control
    OBVIOUS
  <1>1. TypeOK
    <2>1. <<>> \in State /\ height(<<>>) = 0
      BY DEF State, height
    <2> QED BY <2>1, InitType, CoordinatorBounds, ValidatorBounds, ValidatorSetValid,
               FS_CardinalityType
            DEF Init, TypeOK, Phase, Quiet, Outcome
  <1>2. Control
    BY DEF Init, Control, Settled, Quiet, Pending, Applying
  <1> QED BY <1>1, <1>2

\* An answer leaves the exchange with one of its results.
LEMMA AfterAnswerType ==
    ASSUME NEW v, NEW r
    PROVE  AfterAnswer(v, r) \in Pending \cup Outcome
BY DEF AfterAnswer, Pending, Outcome

\* A phase starts with one exchange per candidate.
LEMMA StartType ==
    ASSUME NEW candidates, NEW first \in {"call", "health"}
    PROVE  Start(candidates, first) \in [Validator -> Pending \cup Outcome]
BY DEF Start, Pending, Outcome

\* Control and types of the coordinator while an exchange goes on.
LEMMA ExchangeTypeControl ==
    ASSUME TypeOK, Control, UNCHANGED coordVars, ValidatorTypeOK',
           ~Settled \/ UNCHANGED call,
           call' \in [Validator -> Pending \cup Outcome],
           late' \in SUBSET (Validator \X RequestType),
           losses' \in Nat, crashes' \in Nat, restarts' \in Nat
    PROVE  TypeOK' /\ Control'
  <1> USE DEF coordVars, chainVars, viewVars, applyVars
  <1>1. TypeOK'
    BY DEF TypeOK
  <1>2. CASE ~Settled
    <2>1. pc \notin {"idle", "propose", "save", "persist", "down"}
      BY <1>2 DEF Control
    <2>2. Control'
      BY <2>1 DEF Control
    <2> QED BY <1>1, <2>2
  <1>3. CASE UNCHANGED call
    BY <1>1, <1>3 DEF Control, Settled
  <1> QED BY <1>1, <1>2, <1>3

\* Faults are counted.
LEMMA BudgetTypes ==
    ASSUME TypeOK, NEW v \in Validator,
           Lose(v) \/ CrashBudget(v) \/ UNCHANGED budget
    PROVE  losses' \in Nat /\ crashes' \in Nat /\ restarts' \in Nat
BY DEF TypeOK, Lose, CrashBudget, budget

\* Control and types over a step of an exchange or of a validator.
LEMMA ExchangeStepTypes ==
    ASSUME TypeOK, Control, ValidatorTypeOK',
           \/ \E v \in Validator :
                \/ Answer(v) \/ Health(v) \/ TimeOut(v)
                \/ ValidatorCrash(v) \/ ValidatorCommitCrash(v)
           \/ \E d \in late : HandleLate(d)
    PROVE  TypeOK' /\ Control'
  <1>0. call \in [Validator -> Pending \cup Outcome]
        /\ late \in SUBSET (Validator \X RequestType)
    BY DEF TypeOK
  <1>1. ASSUME NEW v \in Validator, Answer(v)
        PROVE  TypeOK' /\ Control'
    <2>1. ~Settled
      BY <1>1 DEF Answer, Settled, Pending
    <2>2. call' \in [Validator -> Pending \cup Outcome]
      <3>1. PICK r \in Reply(InFlight(v)) :
                \/ call' = [call EXCEPT ![v] = AfterAnswer(v, r)]
                \/ call' = [call EXCEPT ![v] = "failed"]
        BY <1>1 DEF Answer
      <3>2. "failed" \in Pending \cup Outcome
        BY DEF Outcome
      <3> QED BY <1>0, <3>1, <3>2, AfterAnswerType
    <2>3. UNCHANGED <<coordVars, late>> /\ (Lose(v) \/ UNCHANGED budget)
      BY <1>1 DEF Answer
    <2> QED BY <1>0, <2>1, <2>2, <2>3, BudgetTypes, ExchangeTypeControl
  <1>2. ASSUME NEW v \in Validator, Health(v)
        PROVE  TypeOK' /\ Control'
    <2>1. ~Settled
      BY <1>2 DEF Health, Settled, Pending
    <2>2. call' \in [Validator -> Pending \cup Outcome]
      <3>1. \E o \in {"failed", "sync", "ok", "retry"} : call' = [call EXCEPT ![v] = o]
        BY <1>2 DEF Health
      <3> QED BY <1>0, <3>1 DEF Pending, Outcome
    <2>3. UNCHANGED <<coordVars, late>> /\ (Lose(v) \/ UNCHANGED budget)
      BY <1>2 DEF Health
    <2> QED BY <1>0, <2>1, <2>2, <2>3, BudgetTypes, ExchangeTypeControl
  <1>3. ASSUME NEW v \in Validator, TimeOut(v)
        PROVE  TypeOK' /\ Control'
    <2>1. ~Settled
      BY <1>3 DEF TimeOut, Settled, Pending
    <2>2. call' \in [Validator -> Pending \cup Outcome]
      BY <1>0, <1>3 DEF TimeOut, Outcome
    <2>3. late' \in SUBSET (Validator \X RequestType)
      BY <1>0, <1>3, InFlightTyped DEF TimeOut
    <2>4. UNCHANGED coordVars /\ Lose(v)
      BY <1>3 DEF TimeOut
    <2> QED BY <2>1, <2>2, <2>3, <2>4, BudgetTypes, ExchangeTypeControl
  <1>4. ASSUME NEW v \in Validator, ValidatorCrash(v)
        PROVE  TypeOK' /\ Control'
    <2>1. UNCHANGED <<coordVars, call, late>> /\ CrashBudget(v)
      BY <1>4 DEF ValidatorCrash
    <2> QED BY <1>0, <2>1, BudgetTypes, ExchangeTypeControl
  <1>5. ASSUME NEW v \in Validator, ValidatorCommitCrash(v)
        PROVE  TypeOK' /\ Control'
    <2>1. ~Settled
      BY <1>5 DEF ValidatorCommitCrash, Settled, Pending
    <2>2. call' \in [Validator -> Pending \cup Outcome]
      BY <1>0, <1>5 DEF ValidatorCommitCrash, Outcome
    <2>3. UNCHANGED <<coordVars, late>> /\ CrashBudget(v)
      BY <1>5 DEF ValidatorCommitCrash
    <2> QED BY <1>0, <2>1, <2>2, <2>3, BudgetTypes, ExchangeTypeControl
  <1>6. ASSUME NEW d \in late, HandleLate(d)
        PROVE  TypeOK' /\ Control'
    <2>1. UNCHANGED <<coordVars, call, budget>> /\ late' \subseteq late
      BY <1>6 DEF HandleLate
    <2>2. losses' \in Nat /\ crashes' \in Nat /\ restarts' \in Nat
      BY <2>1 DEF budget, TypeOK
    <2> QED BY <1>0, <2>1, <2>2, ExchangeTypeControl
  <1> QED BY <1>1, <1>2, <1>3, <1>4, <1>5, <1>6

\* With no candidates nothing is under way.
LEMMA QuietFacts ==
    /\ Quiet \in [Validator -> Pending \cup Outcome]
    /\ call' = Quiet => Settled'
    /\ \A first : Start({}, first) = Quiet
BY DEF Quiet, Start, Settled, Pending, Outcome

\* Divergent validators are validators.
LEMMA NewDivergentType == TypeOK => NewDivergent \in SUBSET Validator
BY DEF NewDivergent, TypeOK

\* Voters are validators.
LEMMA VotesType == Votes \in SUBSET Validator
BY DEF Votes

\* The loop of apply has at least one turn.
LEMMA AttemptsType == MaxAttempts \in Nat \ {0}
BY FS_CardinalityType, ValidatorSetValid, CoordinatorBounds

\* The proposal of the next turn, on the state the coordinator holds.
LEMMA ProposeType ==
    ASSUME TypeOK, NEW tx \in Tx, NEW w \in Nat, Proposer(w) # Nil,
           height(canonical) < MaxHeight
    PROVE  /\ Propose(tx, w) \in NextProposal
           /\ Propose(tx, w) # Nil
           /\ Propose(tx, w).view = w
           /\ Propose(tx, w).beforeState = canonical
  <1> DEFINE Drawn(k) == /\ Cursor(k - 1) <= Draw(height(canonical) + 1, w, previous)
                         /\ Draw(height(canonical) + 1, w, previous) < Cursor(k)
             drawn == {k \in DOMAIN CanonicalOrder : Drawn(k)}
  <1>1. Proposer(w) = IF drawn = {} THEN Nil ELSE CanonicalOrder[CHOOSE k \in drawn : TRUE]
    BY DEF Proposer, selectProposer
  <1> HIDE DEF Drawn
  <1>2. drawn # {}
    BY <1>1
  <1>3. (CHOOSE k \in drawn : TRUE) \in DOMAIN CanonicalOrder
    BY <1>2
  <1> HIDE DEF drawn
  <1>4. Proposer(w) \in Validator
    BY <1>1, <1>2, <1>3, ValidatorSetValid
  <1>5. Propose(tx, w) \in Proposal
    BY <1>4 DEF Propose, Proposal, TypeOK
  <1>6. Propose(tx, w).beforeState = canonical /\ Propose(tx, w).view = w
    BY DEF Propose
  <1>7. HeightOf(Propose(tx, w)) \in Heights
    BY <1>6, HeightNat, ValidatorBounds DEF HeightOf, Heights, TypeOK
  <1> QED BY <1>5, <1>6, <1>7, NilIsNoValue DEF NextProposal

\* The certificate a quorum of PRECOMMIT votes makes, and the state it is for.
LEMMA PrecommitQuorumFacts ==
    ASSUME TypeOK, Control, pc = "precommit",
           NEW c, c = buildCertificate("PRECOMMIT", HeightOf(prop), view, prop,
                                       ExpectedState(prop), Votes)
    PROVE  /\ c \in Certificate
           /\ c.state = ExpectedState(prop)
           /\ c.height = height(ExpectedState(prop))
           /\ c.height \in Heights
           /\ ExpectedState(prop) \in State
           /\ ExpectedState(prop) # <<>>
           /\ height(ExpectedState(prop)) <= MaxHeight
           /\ \E tx \in Tx : ExpectedState(prop) = Append(disk, tx)
           /\ prop \in NextProposal /\ prop # Nil
  <1>1. prop \in NextProposal /\ prop # Nil /\ prop.beforeState = canonical /\ canonical = disk
    BY DEF Control, Applying, TypeOK
  <1>2. prop \in Proposal /\ HeightOf(prop) \in Heights
    BY <1>1 DEF NextProposal
  <1>3. /\ ExpectedState(prop) \in State
        /\ height(ExpectedState(prop)) = HeightOf(prop)
        /\ HeightOf(prop) \in Nat
    BY <1>2, ProposalFacts
  <1>4. c \in Certificate
    BY <1>2, <1>3, VotesType DEF buildCertificate, Certificate, TypeOK
  <1>5. HeightOf(prop) <= MaxHeight
    BY <1>2 DEF Heights
  <1>6. \E tx \in Tx : ExpectedState(prop) = Append(disk, tx)
    BY <1>1, <1>2 DEF ExpectedState, Proposal
  <1>7. ExpectedState(prop) # <<>>
    BY <1>2, <1>3 DEF Heights, height
  <1> QED BY <1>1, <1>2, <1>3, <1>4, <1>5, <1>6, <1>7 DEF buildCertificate

\* Likewise for a quorum of CHECKPOINT votes.
LEMMA CertifiedFacts ==
    ASSUME TypeOK, Control,
           NEW c, c = buildCertificate("CHECKPOINT", height(canonical), 0,
                          [kind |-> "CHECKPOINT", state |-> canonical],
                          canonical, Votes)
    PROVE  c \in Certificate
  <1>1. height(canonical) \in Nat /\ canonical \in State
    BY HeightNat DEF TypeOK
  <1>2. [kind |-> "CHECKPOINT", state |-> canonical] \in CheckpointId
    BY <1>1 DEF CheckpointId
  <1> QED BY <1>1, <1>2, VotesType DEF buildCertificate, Certificate

\* The store holds certificates.
LEMMA StoredType ==
    ASSUME TypeOK, NEW c \in Certificate
    PROVE  Stored(c) \in [Heights -> Certificate \cup {Nil}]
BY DEF Stored, TypeOK

\* Control and types over a step of the coordinator.
LEMMA CoordinatorStepTypes ==
    ASSUME TypeOK, Control, ValidatorTypeOK',
           \/ Coordinate \/ ProposerDown \/ CoordinatorCrash
           \/ \E tx \in Tx : Submit(tx)
    PROVE  TypeOK' /\ Control'
  <1> USE DEF chainVars, viewVars, applyVars, budget, Enter
  <1>1. ASSUME NEW tx \in Tx, Submit(tx)
        PROVE  TypeOK' /\ Control'
    <2>1. /\ Propose(tx, view) \in NextProposal /\ Propose(tx, view) # Nil
          /\ Propose(tx, view).view = view
          /\ Propose(tx, view).beforeState = canonical
      BY <1>1, ProposeType DEF Submit, TypeOK
    <2>2. TypeOK'
      BY <1>1, <2>1, AttemptsType DEF Submit, TypeOK, Phase
    <2>3. Control'
      BY <1>1, <2>1 DEF Submit, Control, Settled, Applying
    <2> QED BY <2>2, <2>3
  <1>2. CASE ProposerUp
    <2>1. TypeOK'
      BY <1>2, StartType DEF ProposerUp, TypeOK, Phase
    <2>2. Control'
      BY <1>2 DEF ProposerUp, Control, Applying
    <2> QED BY <2>1, <2>2
  <1>3. CASE ProposerDown
    <2>1. losses' \in Nat /\ crashes' \in Nat /\ restarts' \in Nat
      BY <1>3 DEF ProposerDown, Lose, TypeOK
    <2>2. TypeOK'
      BY <1>3, <2>1, StartType DEF ProposerDown, TypeOK, Phase
    <2>3. Control'
      BY <1>3 DEF ProposerDown, Control, Applying
    <2> QED BY <2>2, <2>3
  <1>4. CASE PrepareQuorum
    <2>1. TypeOK'
      BY <1>4, StartType, NewDivergentType, VotesType DEF PrepareQuorum, TypeOK, Phase
    <2>2. Control'
      BY <1>4 DEF PrepareQuorum, Control, Applying
    <2> QED BY <2>1, <2>2
  <1>5. CASE PrepareShort
    <2>1. TypeOK'
      BY <1>5, StartType, NewDivergentType DEF PrepareShort, TypeOK, Phase
    <2>2. Control'
      BY <1>5 DEF PrepareShort, Control, Applying
    <2> QED BY <2>1, <2>2
  <1>6. CASE PrecommitShort
    <2>1. TypeOK'
      BY <1>6, StartType, NewDivergentType DEF PrecommitShort, TypeOK, Phase
    <2>2. Control'
      BY <1>6 DEF PrecommitShort, Control, Applying
    <2> QED BY <2>1, <2>2
  <1>7. CASE Aborted
    <2>1. TypeOK'
      BY <1>7, StartType DEF Aborted, TypeOK, Phase
    <2>2. Control'
      BY <1>7 DEF Aborted, Control, Applying
    <2> QED BY <2>1, <2>2
  <1>8. CASE PrecommitQuorum
    <2> DEFINE c == buildCertificate("PRECOMMIT", HeightOf(prop), view, prop,
                                     ExpectedState(prop), Votes)
    <2>1. /\ c \in Certificate
          /\ c.state = ExpectedState(prop)
          /\ c.height = height(ExpectedState(prop))
          /\ ExpectedState(prop) \in State
          /\ ExpectedState(prop) # <<>>
          /\ height(ExpectedState(prop)) <= MaxHeight
          /\ \E tx \in Tx : ExpectedState(prop) = Append(disk, tx)
          /\ prop # Nil
      BY <1>8, PrecommitQuorumFacts DEF PrecommitQuorum
    <2>2. previous' = c /\ lastCert' = c /\ certs' = certs \cup {c}
      BY <1>8 DEF PrecommitQuorum
    <2> HIDE DEF c
    <2>3. TypeOK'
      BY <1>8, <2>1, <2>2, StartType, NewDivergentType DEF PrecommitQuorum, TypeOK, Phase
    <2>4. Control'
      BY <1>8, <2>1, <2>2 DEF PrecommitQuorum, Control, Applying
    <2> QED BY <2>3, <2>4
  <1>9. CASE CommitsSent
    <2>1. TypeOK'
      BY <1>9, StartType DEF CommitsSent, TypeOK, Phase
    <2>2. call' = Quiet
      BY <1>9, QuietFacts DEF CommitsSent
    <2>3. Control'
      BY <1>9, <2>2, QuietFacts DEF CommitsSent, Control, Applying
    <2> QED BY <2>1, <2>3
  <1>10. CASE ViewAdvanced
    <2>1. view + 1 \in Nat /\ height(canonical) + 1 \in Nat
      BY HeightNat DEF TypeOK
    <2>2. viewCert' \in ViewCertificate \cup {Nil}
      BY <1>10, <2>1 DEF ViewAdvanced, ViewCertificate
    <2>3. CASE AnotherTurn /\ pc' = "propose"
      <3>1. /\ prop \in NextProposal /\ prop.beforeState = canonical
            /\ height(canonical) < MaxHeight /\ prop.tx \in Tx
        BY <1>10, HeightNat, ValidatorBounds
           DEF ViewAdvanced, Control, Applying, TypeOK, NextProposal, HeightOf,
               Heights, Proposal
      <3> DEFINE q == Propose(prop.tx, view + 1)
      <3>2. q \in NextProposal /\ q # Nil /\ q.view = view + 1 /\ q.beforeState = canonical
        BY <2>1, <2>3, <3>1, ProposeType DEF AnotherTurn
      <3> HIDE DEF q
      <3>3. /\ prop' = q /\ view' = view + 1 /\ locked' = Nil /\ prepared' = {}
            /\ attempts' = attempts + 1 /\ call' = Start({}, "call")
            /\ divergent' = NewDivergent
            /\ UNCHANGED <<chainVars, late, budget>>
        BY <1>10, <2>3 DEF ViewAdvanced, Leave, q
      <3>4. attempts' \in 0..MaxAttempts
        BY <2>3, <3>3, AttemptsType DEF AnotherTurn, TypeOK
      <3>5. TypeOK'
        BY <2>1, <2>2, <2>3, <3>2, <3>3, <3>4, StartType, NewDivergentType DEF TypeOK, Phase
      <3>6. Control'
        BY <1>10, <2>3, <3>2, <3>3, QuietFacts DEF ViewAdvanced, Control, Applying
      <3> QED BY <3>5, <3>6
    <2>4. CASE Leave("idle")
      <3>1. TypeOK'
        BY <1>10, <2>1, <2>2, <2>4, QuietFacts, NewDivergentType, AttemptsType
           DEF ViewAdvanced, Leave, TypeOK, Phase
      <3>2. Control'
        BY <1>10, <2>4, QuietFacts DEF ViewAdvanced, Leave, Control, Applying
      <3> QED BY <3>1, <3>2
    <2> QED BY <1>10, <2>3, <2>4 DEF ViewAdvanced
  <1>11. CASE ViewStuck
    <2>1. TypeOK'
      BY <1>11, QuietFacts, NewDivergentType, AttemptsType DEF ViewStuck, Leave, TypeOK, Phase
    <2>2. Control'
      BY <1>11, QuietFacts DEF ViewStuck, Leave, Control, Applying
    <2> QED BY <2>1, <2>2
  <1>12. CASE SaveState
    <2>1. TypeOK'
      BY <1>12 DEF SaveState, TypeOK, Phase
    <2>2. Control'
      BY <1>12 DEF SaveState, Control, Applying, Settled
    <2> QED BY <2>1, <2>2
  <1>13. CASE PersistLastCertificate
    <2>1. lastCert \in Certificate
      BY <1>13 DEF PersistLastCertificate, Control, TypeOK
    <2>2. certStore' \in [Heights -> Certificate \cup {Nil}]
      BY <1>13, <2>1, StoredType DEF PersistLastCertificate
    <2>3. TypeOK'
      BY <1>13, <2>2, QuietFacts, AttemptsType DEF PersistLastCertificate, Leave, TypeOK, Phase
    <2>4. Control'
      BY <1>13, QuietFacts DEF PersistLastCertificate, Leave, Control, Applying
    <2> QED BY <2>3, <2>4
  <1>14. CASE CoordinatorCrash
    <2>1. late' \in SUBSET (Validator \X RequestType)
      <3>1. PICK sent \in SUBSET {v \in Validator : call[v] \in {"call", "sync", "retry"}} :
                late' = late \cup {<<v, InFlight(v)>> : v \in sent}
        BY <1>14 DEF CoordinatorCrash, load
      <3>2. \A v \in sent : InFlight(v) \in RequestType
        BY InFlightTyped
      <3> QED BY <3>1, <3>2 DEF TypeOK
    <2>2. previous' \in Certificate \cup {Nil}
      <3>1. CASE disk = <<>>
        BY <1>14, <3>1 DEF CoordinatorCrash, load
      <3>2. CASE disk # <<>>
        <4>1. height(disk) \in Heights
          BY <3>2, StateLength, ValidatorBounds DEF TypeOK, Heights
        <4>2. certStore[height(disk)] \in Certificate \cup {Nil}
          BY <4>1 DEF TypeOK
        <4> QED BY <1>14, <3>2, <4>2 DEF CoordinatorCrash, load
      <3> QED BY <3>1, <3>2
    <2>3. restarts' \in Nat /\ losses' \in Nat /\ crashes' \in Nat
      BY <1>14 DEF CoordinatorCrash, load, TypeOK
    <2>4. TypeOK'
      BY <1>14, <2>1, <2>2, <2>3, QuietFacts, AttemptsType DEF CoordinatorCrash, load, Leave, TypeOK, Phase
    <2>5. Control'
      BY <1>14, QuietFacts DEF CoordinatorCrash, load, Leave, Control, Applying
    <2> QED BY <2>4, <2>5
  <1>15. CASE Boot
    <2>1. TypeOK'
      BY <1>15, StartType DEF Boot, TypeOK, Phase
    <2>2. Control'
      BY <1>15 DEF Boot, Control, Applying
    <2> QED BY <2>1, <2>2
  <1>16. CASE Certified
    <2> DEFINE c == buildCertificate("CHECKPOINT", height(canonical), 0,
                        [kind |-> "CHECKPOINT", state |-> canonical], canonical, Votes)
    <2>1. c \in Certificate
      BY CertifiedFacts
    <2>2. previous' = c /\ certs' = certs \cup {c} /\ certStore' = Stored(c)
      BY <1>16 DEF Certified
    <2> HIDE DEF c
    <2>3. TypeOK'
      BY <1>16, <2>1, <2>2, StoredType, StartType DEF Certified, TypeOK, Phase
    <2>4. Control'
      BY <1>16 DEF Certified, Control, Applying
    <2> QED BY <2>3, <2>4
  <1>17. CASE CertifyShort
    <2>1. TypeOK'
      BY <1>17, QuietFacts, AttemptsType DEF CertifyShort, Leave, TypeOK, Phase
    <2>2. Control'
      BY <1>17, QuietFacts DEF CertifyShort, Leave, Control, Applying
    <2> QED BY <2>1, <2>2
  <1>18. CASE Resynced
    <2>1. TypeOK'
      BY <1>18, StartType DEF Resynced, TypeOK, Phase
    <2>2. Control'
      BY <1>18 DEF Resynced, Control, Applying
    <2> QED BY <2>1, <2>2
  <1>19. CASE Restored
    <2>1. TypeOK'
      BY <1>19, QuietFacts, NewDivergentType, AttemptsType DEF Restored, Leave, TypeOK, Phase
    <2>2. Control'
      BY <1>19, QuietFacts DEF Restored, Leave, Control, Applying
    <2> QED BY <2>1, <2>2
  <1> QED BY <1>1, <1>2, <1>3, <1>4, <1>5, <1>6, <1>7, <1>8, <1>9, <1>10, <1>11,
             <1>12, <1>13, <1>14, <1>15, <1>16, <1>17, <1>18, <1>19 DEF Coordinate

\* Every step keeps the types and the control.
LEMMA StepTypeControl ==
    TypeOK /\ Control /\ [Next]_vars => TypeOK' /\ Control'
  <1> SUFFICES ASSUME TypeOK, Control, [Next]_vars
               PROVE  TypeOK' /\ Control'
    OBVIOUS
  <1>1. ValidatorTypeOK'
    BY StepOfValidators, ValidatorStepType DEF TypeOK
  <1>2. CASE UNCHANGED vars
    <2>1. UNCHANGED <<coordVars, call, late, budget>>
      BY <1>2 DEF vars
    <2> QED BY <1>1, <2>1, ExchangeTypeControl DEF TypeOK, budget
  <1>3. CASE Next
    BY <1>1, <1>2, <1>3, ExchangeStepTypes, CoordinatorStepTypes
       DEF Next, Exchange, Fault, Done
  <1> QED BY <1>2, <1>3

\* Type correctness, for any number of validators, heights and faults.
THEOREM TypeCorrect == Spec => [](TypeOK /\ Control)
  <1> QED BY InitTypeControl, StepTypeControl, PTL DEF Spec

-----------------------------------------------------------------------------
(* The inductive invariant.                                                  *)

\* The inductive invariant holds at the start.
LEMMA InitIInv == Init => IInv
  <1> SUFFICES ASSUME Init
               PROVE  IInv
    OBVIOUS
  <1>1. TypeOK /\ Control /\ LockInv
    BY InitTypeControl, InitLockInv DEF Init
  <1>2. /\ Replayed /\ PreparedSigned /\ CountedVotesSigned
        /\ CertifiedWasPrepared /\ CertificatesBacked
        /\ StatesCertified /\ EnginesCertified
    BY DEF Init, InitValidators, Replayed, PreparedSigned, CountedVotesSigned,
       CertifiedWasPrepared, CertificatesBacked, StatesCertified, EnginesCertified
  <1> QED BY <1>1, <1>2 DEF IInv

\* Two steps make certificates; a certificate is never taken back.
LEMMA CertsChange ==
    ASSUME [Next]_vars
    PROVE  certs' = certs \/ PrecommitQuorum \/ Certified
  <1> USE DEF coordVars, chainVars
  <1>1. ASSUME NEW v \in Validator, Exchange(v) \/ TimeOut(v) \/ ValidatorCrash(v)
                                  \/ ValidatorCommitCrash(v)
        PROVE  certs' = certs
    BY <1>1 DEF Exchange, Answer, Health, TimeOut, ValidatorCrash, ValidatorCommitCrash
  <1>2. ASSUME NEW d \in late, HandleLate(d)
        PROVE  certs' = certs
    BY <1>2 DEF HandleLate
  <1>3. ASSUME NEW tx \in Tx, Submit(tx)
        PROVE  certs' = certs
    BY <1>3 DEF Submit
  <1>4. ASSUME Coordinate \/ ProposerDown \/ CoordinatorCrash
        PROVE  certs' = certs \/ PrecommitQuorum \/ Certified
    BY <1>4 DEF Coordinate, ProposerUp, ProposerDown, PrepareQuorum, PrepareShort,
       PrecommitShort, Aborted, ViewAdvanced, ViewStuck, CommitsSent, SaveState,
       PersistLastCertificate, CoordinatorCrash, load, Boot, CertifyShort, Resynced,
       Restored
  <1>5. ASSUME UNCHANGED vars
        PROVE  certs' = certs
    BY <1>5 DEF vars
  <1> QED BY <1>1, <1>2, <1>3, <1>4, <1>5 DEF Next, Fault, Done

\* A certificate is never taken back.
LEMMA CertsGrow ==
    ASSUME [Next]_vars
    PROVE  certs \subseteq certs'
BY CertsChange DEF PrecommitQuorum, Certified

\* An answer the coordinator counts as a PRECOMMIT vote was signed.
LEMMA AnswerCounted ==
    ASSUME TypeOK, Control, NEW v \in Validator, Answer(v),
           pc = "precommit", call'[v] = "vote"
    PROVE  PrecommitVote(prop) \in signedVotes'[v]
  <1>1. PICK r \in Reply(InFlight(v)) :
            /\ Handle(v, InFlight(v), r)
            /\ \/ call' = [call EXCEPT ![v] = AfterAnswer(v, r)]
               \/ call' = [call EXCEPT ![v] = "failed"]
    BY DEF Answer
  <1>2. AfterAnswer(v, r) = "vote"
    BY <1>1 DEF TypeOK
  <1>3. call[v] # "sync" /\ r = "VOTE"
    <2>1. r = "VOTE"
      BY <1>2 DEF AfterAnswer
    <2>2. r \notin {"SYNCED", "SYNC_CERTIFICATE_INVALID"}
      BY <2>1
    <2>3. Reply(SyncRequest) = {"SYNCED", "SYNC_CERTIFICATE_INVALID"}
      BY DEF Reply, SyncRequest
    <2> QED BY <2>1, <2>2, <2>3 DEF InFlight
  <1>4. /\ InFlight(v) = [type |-> "precommit", proposal |-> prop]
        /\ InFlight(v) \in RequestType
    BY <1>3, RequestTyped DEF InFlight, Request, Asking
  <1> QED BY <1>1, <1>3, <1>4, PrecommitAnswered DEF TypeOK

\* Counted PRECOMMIT votes stay signed.
LEMMA StepCountedVotesSigned ==
    ASSUME TypeOK, Control, CountedVotesSigned, [Next]_vars
    PROVE  CountedVotesSigned'
  <1> SUFFICES ASSUME pc' = "precommit", NEW v \in Validator, call'[v] = "vote"
               PROVE  PrecommitVote(prop') \in signedVotes'[v]
    BY DEF CountedVotesSigned, Votes, PrecommitVote
  <1>0. /\ signedVotes[v] \subseteq signedVotes'[v]
        /\ pc = "precommit" /\ call[v] = "vote" => PrecommitVote(prop) \in signedVotes[v]
    BY StepOfValidators, SignedGrows DEF TypeOK, CountedVotesSigned, Votes
  <1>1. ASSUME pc = "precommit", prop' = prop, call'[v] = call[v]
        PROVE  PrecommitVote(prop') \in signedVotes'[v]
    BY <1>0, <1>1
  <1>2. ASSUME NEW u \in Validator, Answer(u)
        PROVE  PrecommitVote(prop') \in signedVotes'[v]
    <2>1. prop' = prop /\ pc = "precommit"
      BY <1>2 DEF Answer, coordVars, applyVars
    <2>2. CASE u = v
      BY <1>2, <2>1, <2>2, AnswerCounted
    <2>3. CASE u # v
      <3>1. call'[v] = call[v]
        BY <1>2, <2>3 DEF Answer, TypeOK
      <3> QED BY <1>1, <2>1, <3>1
    <2> QED BY <2>2, <2>3
  <1>3. ASSUME NEW u \in Validator, Health(u)
        PROVE  PrecommitVote(prop') \in signedVotes'[v]
    <2>1. prop' = prop /\ pc = "precommit"
      BY <1>3 DEF Health, coordVars, applyVars
    <2>2. call'[v] = call[v]
      BY <1>3 DEF Health, TypeOK
    <2> QED BY <1>1, <2>1, <2>2
  <1>4. ASSUME NEW u \in Validator, TimeOut(u) \/ ValidatorCrash(u) \/ ValidatorCommitCrash(u)
        PROVE  PrecommitVote(prop') \in signedVotes'[v]
    <2>1. prop' = prop /\ pc = "precommit"
      BY <1>4 DEF TimeOut, ValidatorCrash, ValidatorCommitCrash, coordVars, applyVars
    <2>2. call'[v] = call[v]
      BY <1>4 DEF TimeOut, ValidatorCrash, ValidatorCommitCrash, TypeOK
    <2> QED BY <1>1, <2>1, <2>2
  <1>5. ASSUME NEW d \in late, HandleLate(d)
        PROVE  PrecommitVote(prop') \in signedVotes'[v]
    BY <1>1, <1>5 DEF HandleLate, coordVars, applyVars
  <1>6. CASE PrepareQuorum
    BY <1>6 DEF PrepareQuorum, Enter, Start
  <1>7. ASSUME \/ Coordinate \/ ProposerDown \/ CoordinatorCrash
               \/ \E tx \in Tx : Submit(tx)
        PROVE  PrepareQuorum
    BY <1>7 DEF Coordinate, ProposerUp, ProposerDown, PrepareShort,
       PrecommitQuorum, PrecommitShort, Aborted, ViewAdvanced, ViewStuck,
       CommitsSent, SaveState, PersistLastCertificate, CoordinatorCrash, load, Boot,
       Certified, CertifyShort, Resynced, Restored, Submit, Enter, Leave
  <1>8. CASE UNCHANGED vars
    BY <1>1, <1>8 DEF vars, coordVars, applyVars
  <1> QED BY <1>2, <1>3, <1>4, <1>5, <1>6, <1>7, <1>8 DEF Next, Exchange, Fault, Done

\* An answer the coordinator counts as a PREPARE vote was signed, and for the
\* state the proposal leads to.
LEMMA AnswerPrepared ==
    ASSUME TypeOK, Control, NEW v \in Validator, Answer(v),
           pc = "prepare", call'[v] = "vote"
    PROVE  PreparedVote(prop) \in signedVotes'[v]
  <1>1. PICK r \in Reply(InFlight(v)) :
            /\ Handle(v, InFlight(v), r)
            /\ \/ call' = [call EXCEPT ![v] = AfterAnswer(v, r)]
               \/ call' = [call EXCEPT ![v] = "failed"]
    BY DEF Answer
  <1>2. AfterAnswer(v, r) = "vote"
    BY <1>1 DEF TypeOK
  <1>3. call[v] # "sync" /\ r = "VOTE"
    <2>1. r = "VOTE"
      BY <1>2 DEF AfterAnswer
    <2>2. r \notin {"SYNCED", "SYNC_CERTIFICATE_INVALID"}
      BY <2>1
    <2>3. Reply(SyncRequest) = {"SYNCED", "SYNC_CERTIFICATE_INVALID"}
      BY DEF Reply, SyncRequest
    <2> QED BY <2>1, <2>2, <2>3 DEF InFlight
  <1>4. /\ InFlight(v) = [type |-> "prepare", proposal |-> prop,
                           viewCertificate |-> viewCert]
        /\ InFlight(v) \in RequestType
    BY <1>3, RequestTyped DEF InFlight, Request, Asking
  <1> QED BY <1>1, <1>3, <1>4, PrepareAnswered DEF TypeOK

\* What a validator asked for a PRECOMMIT vote has prepared stays signed.
LEMMA StepPreparedSigned ==
    ASSUME TypeOK, Control, PreparedSigned, [Next]_vars
    PROVE  PreparedSigned'
  <1> SUFFICES ASSUME NEW v \in Validator,
                      \/ pc' = "prepare" /\ call'[v] = "vote"
                      \/ pc' = "precommit" /\ call'[v] # "none"
               PROVE  PreparedVote(prop') \in signedVotes'[v]
    BY DEF PreparedSigned, Votes, PreparedVote
  <1>0. /\ signedVotes[v] \subseteq signedVotes'[v]
        /\ pc = "prepare" /\ call[v] = "vote" => PreparedVote(prop) \in signedVotes[v]
        /\ pc = "precommit" /\ call[v] # "none"
              => PreparedVote(prop) \in signedVotes[v]
    BY StepOfValidators, SignedGrows DEF TypeOK, PreparedSigned, Votes
  <1>1. ASSUME pc' = pc, prop' = prop, call'[v] = call[v]
        PROVE  PreparedVote(prop') \in signedVotes'[v]
    BY <1>0, <1>1
  \* An exchange under way in the PRECOMMIT phase is one with v.
  <1>2. ASSUME pc' = pc, prop' = prop, pc = "precommit", call[v] # "none"
        PROVE  PreparedVote(prop') \in signedVotes'[v]
    BY <1>0, <1>2
  <1>3. ASSUME NEW u \in Validator, Answer(u)
        PROVE  PreparedVote(prop') \in signedVotes'[v]
    <2>1. prop' = prop /\ pc' = pc
      BY <1>3 DEF Answer, coordVars, applyVars
    <2>2. CASE u = v
      <3>1. call[v] # "none"
        BY <1>3, <2>2 DEF Answer
      <3> QED BY <1>2, <1>3, <2>1, <2>2, <3>1, AnswerPrepared
    <2>3. CASE u # v
      <3>1. call'[v] = call[v]
        BY <1>3, <2>3 DEF Answer, TypeOK
      <3> QED BY <1>1, <2>1, <3>1
    <2> QED BY <2>2, <2>3
  <1>4. ASSUME NEW u \in Validator,
               Health(u) \/ TimeOut(u) \/ ValidatorCrash(u) \/ ValidatorCommitCrash(u)
        PROVE  PreparedVote(prop') \in signedVotes'[v]
    <2>1. prop' = prop /\ pc' = pc
      BY <1>4 DEF Health, TimeOut, ValidatorCrash, ValidatorCommitCrash, coordVars, applyVars
    <2>2. call'[v] = call[v] \/ (call[v] # "none" /\ call'[v] # "vote")
      BY <1>4 DEF Health, TimeOut, ValidatorCrash, ValidatorCommitCrash, TypeOK
    <2> QED BY <1>1, <1>2, <2>1, <2>2
  <1>5. ASSUME NEW d \in late, HandleLate(d)
        PROVE  PreparedVote(prop') \in signedVotes'[v]
    BY <1>1, <1>5 DEF HandleLate, coordVars, applyVars
  <1>6. CASE PrepareQuorum
    <2>1. pc = "prepare" /\ v \in Votes /\ prop' = prop
      BY <1>6 DEF PrepareQuorum, Enter, Start
    <2> QED BY <1>0, <2>1 DEF Votes
  <1>7. ASSUME ProposerUp
        PROVE  FALSE
    BY <1>7 DEF ProposerUp, Enter, Start
  <1>8. ASSUME \/ Coordinate \/ ProposerDown \/ CoordinatorCrash
               \/ \E tx \in Tx : Submit(tx)
        PROVE  PrepareQuorum \/ ProposerUp
    BY <1>8 DEF Coordinate, ProposerDown, PrepareShort,
       PrecommitQuorum, PrecommitShort, Aborted, ViewAdvanced, ViewStuck,
       CommitsSent, SaveState, PersistLastCertificate, CoordinatorCrash, load, Boot,
       Certified, CertifyShort, Resynced, Restored, Submit, Enter, Leave
  <1>9. CASE UNCHANGED vars
    BY <1>1, <1>9 DEF vars, coordVars, applyVars
  <1> QED BY <1>3, <1>4, <1>5, <1>6, <1>7, <1>8, <1>9 DEF Next, Exchange, Fault, Done

\* A certificate new in a step has voters that were asked to PRECOMMIT.
LEMMA StepCertifiedWasPrepared ==
    ASSUME TypeOK, Control, PreparedSigned, CertifiedWasPrepared, [Next]_vars
    PROVE  CertifiedWasPrepared'
  <1>0. \A v \in Validator : signedVotes[v] \subseteq signedVotes'[v]
    BY StepOfValidators, SignedGrows DEF TypeOK
  <1>1. \A c \in certs : c.voters \subseteq Validator
    BY DEF TypeOK, Certificate
  <1>2. CASE certs' = certs
    BY <1>0, <1>1, <1>2 DEF CertifiedWasPrepared
  <1>3. CASE PrecommitQuorum
    <2> DEFINE c == buildCertificate("PRECOMMIT", HeightOf(prop), view, prop,
                                     ExpectedState(prop), Votes)
    <2>1. certs' = certs \cup {c}
      BY <1>3 DEF PrecommitQuorum
    <2>2. /\ c.voters = Votes
          /\ voteDomain("PREPARE", c.height, c.view, c.proposalId, c.state)
                = PreparedVote(prop)
      BY <1>3 DEF PrecommitQuorum, Control, Applying, buildCertificate, PreparedVote
    <2>3. \A v \in Votes : PreparedVote(prop) \in signedVotes[v]
      BY <1>3 DEF PrecommitQuorum, PreparedSigned, Votes
    <2> HIDE DEF c
    <2> QED BY <1>0, <1>1, <2>1, <2>2, <2>3, VotesType DEF CertifiedWasPrepared
  <1>4. CASE Certified
    <2> DEFINE c == buildCertificate("CHECKPOINT", height(canonical), 0,
                        [kind |-> "CHECKPOINT", state |-> canonical], canonical, Votes)
    <2>1. certs' = certs \cup {c}
      BY <1>4 DEF Certified
    <2>2. c.phase # "PRECOMMIT"
      BY DEF buildCertificate
    <2> HIDE DEF c
    <2> QED BY <1>0, <1>1, <2>1, <2>2 DEF CertifiedWasPrepared
  <1> QED BY <1>2, <1>3, <1>4, CertsChange

\* Certificates new in a step.
LEMMA StepCertificatesBacked ==
    ASSUME IInv, [Next]_vars
    PROVE  CertificatesBacked'
  <1> USE DEF IInv
  <1>0. \A v \in Validator : signedVotes[v] \subseteq signedVotes'[v]
    BY StepOfValidators, SignedGrows DEF TypeOK
  <1>1. \A c \in certs : c.voters \subseteq Validator
    BY DEF TypeOK, Certificate
  <1>2. CASE certs' = certs
    BY <1>0, <1>1, <1>2 DEF CertificatesBacked
  <1>3. CASE PrecommitQuorum
    <2> DEFINE c == buildCertificate("PRECOMMIT", HeightOf(prop), view, prop,
                                     ExpectedState(prop), Votes)
    <2>1. certs' = certs \cup {c}
      BY <1>3 DEF PrecommitQuorum
    <2>2. c.height = height(c.state) /\ c.phase = "PRECOMMIT" /\ c.voters = Votes
      BY <1>3, PrecommitQuorumFacts DEF PrecommitQuorum, buildCertificate
    <2>3. CertifiedVote(c) = PrecommitVote(prop)
      BY <1>3 DEF PrecommitQuorum, Control, Applying, CertifiedVote, buildCertificate,
         PrecommitVote
    <2>4. Votes \in Quorum /\ \A v \in Votes : PrecommitVote(prop) \in signedVotes[v]
      BY <1>3 DEF PrecommitQuorum, HasQuorum, CountedVotesSigned
    <2> HIDE DEF c
    <2>5. \A v \in c.voters : CertifiedVote(c) \in signedVotes'[v]
      BY <1>0, <2>2, <2>3, <2>4, VotesType
    <2> QED BY <1>0, <1>1, <2>1, <2>2, <2>4, <2>5 DEF CertificatesBacked
  <1>4. CASE Certified
    <2> DEFINE c == buildCertificate("CHECKPOINT", height(canonical), 0,
                        [kind |-> "CHECKPOINT", state |-> canonical], canonical, Votes)
    <2>1. certs' = certs \cup {c}
      BY <1>4 DEF Certified
    <2>2. c.height = height(c.state) /\ c.phase = "CHECKPOINT" /\ c.state = canonical
      BY DEF buildCertificate
    <2> HIDE DEF c
    <2>3. \E d \in certs : d.phase = "PRECOMMIT" /\ d.height = c.height /\ d.state = c.state
      <3>1. PICK e \in certs : e.state = canonical
        BY <1>4 DEF Certified, Control, StatesCertified, Certifies
      <3> QED BY <2>2, <3>1 DEF CertificatesBacked
    <2> QED BY <1>0, <1>1, <2>1, <2>2, <2>3 DEF CertificatesBacked
  <1> QED BY <1>2, <1>3, <1>4, CertsChange

\* What the coordinator sends is backed by certificates.
LEMMA InFlightBacked ==
    ASSUME IInv, NEW v \in Validator, call[v] \in {"call", "sync", "retry"}
    PROVE  RequestBacked(InFlight(v))
  <1>1. pc \in Asking
    BY DEF IInv, Control, Settled, Pending, TypeOK, Phase, Asking
  <1>2. RequestBacked(SyncRequest)
    BY DEF IInv, StatesCertified, RequestBacked, SyncRequest
  <1>3. Request.type = "commit" => pc = "commit" /\ Request.certificate = lastCert
    BY <1>1 DEF Request, Asking
  <1>4. Request.type # "sync"
    BY <1>1 DEF Request, Asking
  <1>5. RequestBacked(Request)
    BY <1>3, <1>4 DEF RequestBacked, IInv, Control
  <1> QED BY <1>2, <1>5 DEF InFlight

\* States the coordinator holds or sends stay certified.
LEMMA StepStatesCertified ==
    ASSUME IInv, [Next]_vars
    PROVE  StatesCertified'
  <1>1. ASSUME NEW m, RequestBacked(m)
        PROVE  RequestBacked(m)'
    BY <1>1, CertsGrow DEF RequestBacked, Certifies
  <1>2. \A d \in late' : d \in late \/ RequestBacked(d[2])
    <2>1. ASSUME NEW v \in Validator, TimeOut(v)
          PROVE  \A d \in late' : d \in late \/ RequestBacked(d[2])
      <3>1. RequestBacked(InFlight(v))
        BY <2>1, InFlightBacked DEF TimeOut
      <3> QED BY <2>1, <3>1 DEF TimeOut
    <2>2. CASE CoordinatorCrash
      <3>1. PICK sent \in SUBSET {v \in Validator : call[v] \in {"call", "sync", "retry"}} :
                late' = late \cup {<<v, InFlight(v)>> : v \in sent}
        BY <2>2 DEF CoordinatorCrash, load
      <3>2. \A v \in sent : RequestBacked(InFlight(v))
        BY InFlightBacked
      <3> QED BY <3>1, <3>2
    <2>3. ASSUME NEW v \in Validator, Exchange(v) \/ ValidatorCrash(v) \/ ValidatorCommitCrash(v)
          PROVE  late' \subseteq late
      BY <2>3 DEF Exchange, Answer, Health, ValidatorCrash, ValidatorCommitCrash
    <2>4. ASSUME NEW d \in late, HandleLate(d)
          PROVE  late' \subseteq late
      BY <2>4 DEF HandleLate
    <2>5. ASSUME Coordinate \/ ProposerDown \/ \E tx \in Tx : Submit(tx)
          PROVE  late' \subseteq late
      BY <2>5 DEF Coordinate, ProposerUp, ProposerDown, PrepareQuorum, PrepareShort,
         PrecommitQuorum, PrecommitShort, Aborted, ViewAdvanced, ViewStuck,
         CommitsSent, SaveState, PersistLastCertificate, Boot, Certified,
         CertifyShort, Resynced, Restored, Submit
    <2>6. ASSUME UNCHANGED vars
          PROVE  late' \subseteq late
      BY <2>6 DEF vars
    <2> QED BY <2>1, <2>2, <2>3, <2>4, <2>5, <2>6 DEF Next, Fault, Done
  <1>3. \A d \in late' : RequestBacked(d[2])'
    BY <1>1, <1>2 DEF IInv, StatesCertified
  <1>4. CASE PrecommitQuorum
    <2> DEFINE c == buildCertificate("PRECOMMIT", HeightOf(prop), view, prop,
                                     ExpectedState(prop), Votes)
    <2>1. /\ canonical' = c.state /\ c \in certs'
          /\ disk' = disk
      BY <1>4 DEF PrecommitQuorum, buildCertificate
    <2>2. disk # <<>> => \E e \in certs' : e.state = disk
      BY CertsGrow DEF IInv, StatesCertified, Certifies
    <2> QED BY <1>3, <2>1, <2>2 DEF StatesCertified, Certifies
  <1>5. ASSUME canonical' \in {canonical, disk}, disk' \in {canonical, disk}
        PROVE  StatesCertified'
    BY <1>3, <1>5, CertsGrow DEF IInv, StatesCertified, Certifies
  <1>6. PrecommitQuorum \/ (canonical' \in {canonical, disk} /\ disk' \in {canonical, disk})
    <2> USE DEF coordVars, chainVars
    <2>1. ASSUME NEW v \in Validator, Exchange(v) \/ TimeOut(v) \/ ValidatorCrash(v)
                                      \/ ValidatorCommitCrash(v)
          PROVE  canonical' = canonical /\ disk' = disk
      BY <2>1 DEF Exchange, Answer, Health, TimeOut, ValidatorCrash, ValidatorCommitCrash
    <2>2. ASSUME NEW d \in late, HandleLate(d)
          PROVE  canonical' = canonical /\ disk' = disk
      BY <2>2 DEF HandleLate
    <2>3. ASSUME \/ Coordinate \/ ProposerDown \/ CoordinatorCrash
                 \/ \E tx \in Tx : Submit(tx)
          PROVE  \/ PrecommitQuorum
                 \/ canonical' \in {canonical, disk} /\ disk' \in {canonical, disk}
      BY <2>3 DEF Coordinate, ProposerUp, ProposerDown, PrepareQuorum, PrepareShort,
         PrecommitShort, Aborted, ViewAdvanced, ViewStuck, CommitsSent, SaveState,
         PersistLastCertificate, CoordinatorCrash, load, Boot, Certified, CertifyShort,
         Resynced, Restored, Submit
    <2>4. ASSUME UNCHANGED vars
          PROVE  canonical' = canonical /\ disk' = disk
      BY <2>4 DEF vars
    <2> QED BY <2>1, <2>2, <2>3, <2>4 DEF Next, Fault, Done
  <1> QED BY <1>4, <1>5, <1>6

\* States the validators hold stay certified.
LEMMA StepEnginesCertified ==
    ASSUME IInv, [Next]_vars
    PROVE  EnginesCertified'
  <1> SUFFICES ASSUME NEW u \in Validator, engine'[u] # <<>>
               PROVE  Certifies(engine[u])'
    BY DEF EnginesCertified, Certifies
  <1>0. TypeOK /\ Control /\ ValidatorTypeOK
    BY DEF IInv, TypeOK
  <1>1. ASSUME engine'[u] = engine[u]
        PROVE  Certifies(engine[u])'
    BY <1>1, CertsGrow DEF IInv, EnginesCertified, Certifies
  <1>2. ASSUME NEW v \in Validator, NEW m \in RequestType, NEW r, Handle(v, m, r),
               RequestBacked(m)
        PROVE  Certifies(engine[u])'
    <2>1. CASE m.type = "commit" /\ engine'[u] = m.certificate.state
      BY <1>2, <2>1, CertsGrow DEF RequestBacked, Certifies
    <2>2. CASE m.type = "sync" /\ engine'[u] = m.state
      BY <1>2, <2>2, CertsGrow DEF RequestBacked, Certifies
    <2> QED BY <1>0, <1>1, <1>2, <2>1, <2>2, HandleEngine
  <1>3. ASSUME NEW v \in Validator, Answer(v)
        PROVE  Certifies(engine[u])'
    <2>1. InFlight(v) \in RequestType /\ RequestBacked(InFlight(v))
      BY <1>0, <1>3, InFlightTyped, InFlightBacked DEF Answer
    <2> QED BY <1>2, <1>3, <2>1 DEF Answer
  <1>4. ASSUME NEW d \in late, HandleLate(d)
        PROVE  Certifies(engine[u])'
    <2>1. d[1] \in Validator /\ d[2] \in RequestType /\ RequestBacked(d[2])
      BY DEF IInv, TypeOK, StatesCertified
    <2> QED BY <1>2, <1>4, <2>1 DEF HandleLate
  <1>5. ASSUME NEW v \in Validator, ValidatorCommitCrash(v)
        PROVE  Certifies(engine[u])'
    <2>1. pc = "commit" /\ CommitCrash(v, Request)
      BY <1>5 DEF ValidatorCommitCrash
    <2>2. Request.certificate = lastCert /\ lastCert \in certs
      BY <1>0, <2>1 DEF Request, Control
    <2>3. engine'[u] = engine[u] \/ engine'[u] = lastCert.state
      BY <1>0, <2>1, <2>2 DEF CommitCrash, CommitAllowed, ValidatorTypeOK
    <2> QED BY <1>1, <2>2, <2>3, CertsGrow DEF Certifies
  <1>6. ASSUME NEW v \in Validator, Health(v) \/ TimeOut(v) \/ ValidatorCrash(v)
        PROVE  Certifies(engine[u])'
    BY <1>1, <1>6 DEF Health, TimeOut, ValidatorCrash, CrashRestart, validatorVars
  <1>7. ASSUME \/ Coordinate \/ ProposerDown \/ CoordinatorCrash
               \/ \E tx \in Tx : Submit(tx)
        PROVE  engine' = engine
    BY <1>7 DEF Coordinate, ProposerUp, ProposerDown, PrepareQuorum, PrepareShort,
       PrecommitQuorum, PrecommitShort, Aborted, ViewAdvanced, ViewStuck,
       CommitsSent, SaveState, PersistLastCertificate, CoordinatorCrash, load, Boot,
       Certified, CertifyShort, Resynced, Restored, Submit, validatorVars
  <1>8. ASSUME UNCHANGED vars
        PROVE  engine' = engine
    BY <1>8 DEF vars, validatorVars
  <1> QED BY <1>1, <1>3, <1>4, <1>5, <1>6, <1>7, <1>8 DEF Next, Exchange, Fault, Done

\* Every step keeps the inductive invariant.
LEMMA StepIInv == IInv /\ [Next]_vars => IInv'
  <1> SUFFICES ASSUME IInv, [Next]_vars
               PROVE  IInv'
    OBVIOUS
  <1>1. TypeOK' /\ Control'
    BY StepTypeControl DEF IInv
  <1>2. LockInv'
    BY StepOfValidators, StepLockInv DEF IInv, TypeOK
  <1>3. CountedVotesSigned'
    BY StepCountedVotesSigned DEF IInv
  <1>4. Replayed'
    BY StepOfValidators, StepReplayed DEF IInv, TypeOK
  <1>5. PreparedSigned' /\ CertifiedWasPrepared'
    BY StepPreparedSigned, StepCertifiedWasPrepared DEF IInv
  <1> QED BY <1>4, <1>5, <1>1, <1>2, <1>3, StepCertificatesBacked, StepStatesCertified,
             StepEnginesCertified DEF IInv

\* The inductive invariant holds in every reachable state.
THEOREM Invariance == Spec => []IInv
  <1> QED BY InitIInv, StepIInv, PTL DEF Spec

\* The system implements the validators it is made of: what they promise for
\* any requests, they promise here.
THEOREM NetworkImplementsValidators == Spec => ValidatorSpec
  <1>1. Init => InitValidators
    BY DEF Init
  <1>2. TypeOK /\ Control /\ [Next]_vars => [ValidatorNext]_validatorVars
    BY StepOfValidators
  <1> QED BY <1>1, <1>2, TypeCorrect, PTL DEF Spec, ValidatorSpec

-----------------------------------------------------------------------------
(* The safety properties.                                                    *)

\* No validator of the system signs two proposals in one slot, whatever the
\* coordinator sends it and however often either of them crashes.
THEOREM NeverDoubleSigns == Spec => []NoDoubleSign
  <1> QED BY NetworkImplementsValidators, ValidatorNeverDoubleSigns, PTL

\* Whoever signed a finality certificate had signed a PREPARE of the same value
\* in the same view: bad roots never count.
THEOREM SignersPrepared == Spec => []CertifiedWasPrepared
  <1>1. IInv => CertifiedWasPrepared
    BY DEF IInv
  <1> QED BY <1>1, Invariance, PTL

\* A checkpoint certificate never stands alone: its state was final before.
THEOREM CheckpointsFinal == Spec => []CheckpointsRepeatFinality
  <1>1. IInv => CheckpointsRepeatFinality
    BY DEF IInv, CertificatesBacked, CheckpointsRepeatFinality
  <1> QED BY <1>1, Invariance, PTL

\* A value a quorum certified stays locked at each trusted signer until the
\* signer has moved on to it.
THEOREM CertifiedValuesHeld == Spec => []CertifiedValueHeld
  <1>1. IInv => CertifiedValueHeld
    <2> SUFFICES ASSUME IInv, NEW c \in certs, c.phase = "PRECOMMIT",
                        NEW v \in c.voters \cap Trusted,
                        ~(height(engine[v]) >= c.height)
                 PROVE  Locked(v, c.height, c.state)
      BY DEF CertifiedValueHeld
    <2>1. CertifiedVote(c) \in signedVotes[v]
      BY DEF IInv, CertificatesBacked
    <2>2. /\ CertifiedVote(c).phase = "PRECOMMIT"
          /\ CertifiedVote(c).height = c.height
          /\ CertifiedVote(c).state = c.state
      BY DEF CertifiedVote, voteDomain
    <2>3. CertifiedVote(c) \in BlockVotes(v)
      BY <2>1, <2>2 DEF BlockVotes
    <2>4. height(engine[v]) \in Nat /\ c.height \in Nat
      BY HeightNat DEF IInv, TypeOK, ValidatorTypeOK, Trusted, Certificate
    <2>5. c.height > height(engine[v])
      BY <2>4
    <2> QED BY <2>2, <2>3, <2>5 DEF IInv, LockInv, OneValue
  <1> QED BY <1>1, Invariance, PTL

\* Two PRECOMMIT quorums meet in a validator that signs one value per height.
LEMMA Agreement == IInv => CertificatesAgreeUnlessRolledBack
  <1> SUFFICES ASSUME IInv, QuorumsMeet, NEW c \in certs, NEW d \in certs,
                      c.height = d.height
               PROVE  c.state = d.state
    BY DEF CertificatesAgreeUnlessRolledBack, CertificatesAgree
  <1>1. PICK e \in certs : e.phase = "PRECOMMIT" /\ e.height = c.height /\ e.state = c.state
    BY DEF IInv, CertificatesBacked
  <1>2. PICK f \in certs : f.phase = "PRECOMMIT" /\ f.height = d.height /\ f.state = d.state
    BY DEF IInv, CertificatesBacked
  <1>3. PICK v \in e.voters \cap f.voters : v \in Trusted
    BY <1>1, <1>2 DEF IInv, CertificatesBacked, QuorumsMeet
  <1>4. CertifiedVote(e) \in BlockVotes(v) /\ CertifiedVote(f) \in BlockVotes(v)
    BY <1>1, <1>2, <1>3 DEF IInv, CertificatesBacked, BlockVotes, CertifiedVote, voteDomain
  <1>5. CertifiedVote(e).height = CertifiedVote(f).height
    BY <1>1, <1>2 DEF CertifiedVote, voteDomain
  <1>6. CertifiedVote(e).state = CertifiedVote(f).state
    BY <1>3, <1>4, <1>5 DEF IInv, LockInv, OneValue
  <1> QED BY <1>1, <1>2, <1>6 DEF CertifiedVote, voteDomain

\* Certificates agree while two quorums still meet in a validator that was
\* not rolled back.
THEOREM CertificatesNeverConflict == Spec => []CertificatesAgreeUnlessRolledBack
  <1> QED BY Agreement, Invariance, PTL

\* A validator never holds a state that no quorum certified.
THEOREM OnlyCertifiedStates == Spec => []EnginesCertified
  <1>1. IInv => EnginesCertified
    BY DEF IInv
  <1> QED BY <1>1, Invariance, PTL

\* The state of height 0 is the genesis state.
LEMMA EmptyState ==
    ASSUME NEW s \in State, height(s) = 0
    PROVE  s = <<>>
BY DEF State, height

\* Replicas at one height are in one state, on the same condition.
THEOREM ReplicasNeverDiverge == Spec => []ReplicasAgree
  <1>1. IInv => ReplicasAgree
    <2> SUFFICES ASSUME IInv, QuorumsMeet, NEW u \in Validator, NEW v \in Validator,
                        height(engine[u]) = height(engine[v])
                 PROVE  engine[u] = engine[v]
      BY DEF ReplicasAgree, OneStatePerHeight
    <2>1. engine[u] \in State /\ engine[v] \in State
      BY DEF IInv, TypeOK, ValidatorTypeOK
    <2>2. CASE engine[u] = <<>> \/ engine[v] = <<>>
      BY <2>1, <2>2, EmptyState DEF height
    <2>3. CASE engine[u] # <<>> /\ engine[v] # <<>>
      <3>1. PICK c \in certs : c.state = engine[u]
        BY <2>3 DEF IInv, EnginesCertified, Certifies
      <3>2. PICK d \in certs : d.state = engine[v]
        BY <2>3 DEF IInv, EnginesCertified, Certifies
      <3>3. c.height = d.height
        BY <3>1, <3>2 DEF IInv, CertificatesBacked
      <3> QED BY <3>1, <3>2, <3>3, Agreement
              DEF CertificatesAgreeUnlessRolledBack, CertificatesAgree
    <2> QED BY <2>2, <2>3
  <1> QED BY <1>1, Invariance, PTL

\* The steps that write the coordinator's files.
LEMMA DurableChange ==
    ASSUME [Next]_vars
    PROVE  \/ disk' = disk /\ certStore' = certStore
           \/ SaveState \/ PersistLastCertificate \/ Certified
  <1> USE DEF coordVars, chainVars
  <1>1. ASSUME NEW v \in Validator, Exchange(v) \/ TimeOut(v) \/ ValidatorCrash(v)
                                    \/ ValidatorCommitCrash(v)
        PROVE  disk' = disk /\ certStore' = certStore
    BY <1>1 DEF Exchange, Answer, Health, TimeOut, ValidatorCrash, ValidatorCommitCrash
  <1>2. ASSUME NEW d \in late, HandleLate(d)
        PROVE  disk' = disk /\ certStore' = certStore
    BY <1>2 DEF HandleLate
  <1>3. ASSUME \/ Coordinate \/ ProposerDown \/ CoordinatorCrash
               \/ \E tx \in Tx : Submit(tx)
        PROVE  \/ disk' = disk /\ certStore' = certStore
               \/ SaveState \/ PersistLastCertificate \/ Certified
    BY <1>3 DEF Coordinate, ProposerUp, ProposerDown, PrepareQuorum, PrepareShort,
       PrecommitQuorum, PrecommitShort, Aborted, ViewAdvanced, ViewStuck,
       CommitsSent, CoordinatorCrash, load, Boot, CertifyShort, Resynced, Restored, Submit
  <1>4. ASSUME UNCHANGED vars
        PROVE  disk' = disk /\ certStore' = certStore
    BY <1>4 DEF vars
  <1> QED BY <1>1, <1>2, <1>3, <1>4 DEF Next, Fault, Done

\* The coordinator's durable chain is never rewritten.
THEOREM DurableChainOnlyGrows == Spec => DurableChainGrows
  <1>1. IInv /\ [Next]_vars => [Extends(disk', disk)]_vars
    <2> SUFFICES ASSUME IInv, [Next]_vars
                 PROVE  Extends(disk', disk)
      OBVIOUS
    <2>1. disk \in State
      BY DEF IInv, TypeOK
    <2>2. CASE disk' = disk
      BY <2>1, <2>2 DEF Extends, State
    <2>3. CASE SaveState
      <3>1. PICK tx \in Tx : disk' = Append(disk, tx)
        BY <2>3 DEF SaveState, IInv, Control
      <3> QED BY <2>1, <3>1 DEF Extends, State
    <2>4. disk' = disk \/ SaveState
      BY DurableChange DEF PersistLastCertificate, Certified
    <2> QED BY <2>2, <2>3, <2>4
  <1> QED BY <1>1, Invariance, PTL DEF Spec, DurableChainGrows

\* A certificate stored at the top of the chain on disk.
LEMMA StoredAtTop ==
    ASSUME TypeOK, StoreFollowsDisk, NEW c \in Certificate, c.state = disk,
           c.height = height(disk), disk # <<>>,
           disk' = disk, certStore' = Stored(c)
    PROVE  StoreFollowsDisk'
  <1>1. disk \in State /\ height(disk) \in Nat /\ c.height \in Heights
    BY StateLength, ValidatorBounds DEF TypeOK, Heights
  <1>2. SubSeq(disk, 1, height(disk)) = disk
    BY <1>1 DEF State, height
  <1> SUFFICES ASSUME NEW h \in Heights, certStore'[h] # Nil
               PROVE  /\ certStore'[h].height = h
                      /\ h <= height(disk)
                      /\ certStore'[h].state = SubSeq(disk, 1, h)
    BY DEF StoreFollowsDisk
  <1>3. certStore'[h] = certStore[h] \/ (h = c.height /\ certStore'[h] = c)
    BY <1>1 DEF Stored, TypeOK
  <1>4. CASE certStore'[h] = certStore[h]
    BY <1>4 DEF StoreFollowsDisk
  <1>5. CASE h = c.height /\ certStore'[h] = c
    BY <1>1, <1>2, <1>5
  <1> QED BY <1>3, <1>4, <1>5

\* The store of certificates never runs ahead of the state file, nor about
\* another chain, wherever in a commit the coordinator dies.
THEOREM StoreNeverAhead == Spec => []StoreFollowsDisk
  <1>1. Init => StoreFollowsDisk
    BY DEF Init, StoreFollowsDisk
  <1>2. IInv /\ StoreFollowsDisk /\ [Next]_vars => StoreFollowsDisk'
    <2> SUFFICES ASSUME IInv, StoreFollowsDisk, [Next]_vars
                 PROVE  StoreFollowsDisk'
      OBVIOUS
    <2>0. TypeOK /\ Control /\ disk \in State /\ height(disk) \in Nat
      BY HeightNat DEF IInv, TypeOK
    <2>1. CASE disk' = disk /\ certStore' = certStore
      BY <2>1 DEF StoreFollowsDisk
    <2>2. CASE SaveState
      <3>1. PICK tx \in Tx : disk' = Append(disk, tx)
        BY <2>0, <2>2 DEF SaveState, Control
      <3>2. height(disk') = height(disk) + 1
        BY <2>0, <3>1 DEF State, height
      <3>3. \A h \in Heights : h <= height(disk) => SubSeq(disk', 1, h) = SubSeq(disk, 1, h)
        <4> SUFFICES ASSUME NEW h \in Heights, h <= height(disk)
                     PROVE  SubSeq(disk', 1, h) = SubSeq(disk, 1, h)
          OBVIOUS
        <4>1. disk \in Seq(Tx) /\ disk' \in Seq(Tx) /\ h \in Nat /\ h <= Len(disk)
          BY <2>0, <3>1, ValidatorBounds DEF State, height, Heights
        <4>2. \A i \in 1..h : disk'[i] = disk[i]
          BY <2>0, <3>1, <4>1 DEF State
        <4> QED BY <4>1, <4>2, <3>2 DEF height
      <3>4. certStore' = certStore
        BY <2>2 DEF SaveState
      <3> QED BY <2>0, <3>2, <3>3, <3>4, ValidatorBounds DEF StoreFollowsDisk, Heights
    <2>3. CASE PersistLastCertificate
      <3>1. /\ lastCert \in Certificate /\ lastCert.state = disk
            /\ lastCert.height = height(disk) /\ disk' = disk
            /\ certStore' = Stored(lastCert)
        BY <2>0, <2>3 DEF PersistLastCertificate, Control, TypeOK
      <3>2. disk # <<>>
        BY <2>3, <3>1, <2>0 DEF PersistLastCertificate, Control
      <3> QED BY <2>0, <3>1, <3>2, StoredAtTop
    <2>4. CASE Certified
      <3> DEFINE c == buildCertificate("CHECKPOINT", height(canonical), 0,
                          [kind |-> "CHECKPOINT", state |-> canonical], canonical, Votes)
      <3>1. c \in Certificate
        BY <2>0, CertifiedFacts
      <3>2. c.state = disk /\ c.height = height(disk) /\ disk # <<>>
        BY <2>0, <2>4 DEF Certified, Control, buildCertificate
      <3>3. disk' = disk /\ certStore' = Stored(c)
        BY <2>4 DEF Certified
      <3> HIDE DEF c
      <3> QED BY <2>0, <3>1, <3>2, <3>3, StoredAtTop
    <2> QED BY <2>1, <2>2, <2>3, <2>4, DurableChange
  <1> QED BY <1>1, <1>2, Invariance, PTL DEF Spec

-----------------------------------------------------------------------------
(* Agreement in terms of voting power.                                       *)

\* So two quorums meet in a trusted validator, whatever the powers, while the
\* untrusted hold no more than a third.
LEMMA QuorumsMeetBelowAThird == FewUntrusted => QuorumsMeet
  <1> SUFFICES ASSUME FewUntrusted, NEW Q \in Quorum, NEW R \in Quorum,
                      Q \cap R \cap Trusted = {}
               PROVE  FALSE
    BY DEF QuorumsMeet
  <1>1. /\ Validator \ Trusted \in SUBSET Validator
        /\ Q \cap R \in SUBSET (Validator \ Trusted)
    BY DEF Quorum
  <1>2. /\ votePower(Q \cap R) \in Nat /\ votePower(Validator \ Trusted) \in Nat
        /\ votePower(Q \cap R) <= votePower(Validator \ Trusted)
        /\ votePower(Validator) \in Nat
    <2>1. Q \cap R \in SUBSET Validator
      BY <1>1
    <2> QED BY <1>1, <2>1, PowerFacts
  <1>3. 3 * votePower(Q \cap R) > votePower(Validator)
    BY QuorumsOverlap
  <1> QED BY <1>2, <1>3 DEF FewUntrusted

\* Whatever is lost, late, crashed or rolled back, and however power is shared:
\* while a third of it at most is untrusted, certificates and replicas agree.
THEOREM SafeWhileFewUntrusted == Spec => []SafeBelowAThird
  <1>1. CertificatesAgreeUnlessRolledBack /\ ReplicasAgree => SafeBelowAThird
    BY QuorumsMeetBelowAThird
       DEF CertificatesAgreeUnlessRolledBack, ReplicasAgree, SafeBelowAThird
  <1> QED BY <1>1, CertificatesNeverConflict, ReplicasNeverDiverge, PTL
=============================================================================
