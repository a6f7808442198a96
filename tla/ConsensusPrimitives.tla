------------------------ MODULE ConsensusPrimitives ------------------------
(* The pure part of the AEL network consensus: voting power and quorum,      *)
(* signed votes, the rule that forbids double signing, and certificates.     *)
(* A hash is modelled by the value it commits to: a chain state stands for   *)
(* its state root, a proposal for its proposalId, so two hashes are equal    *)
(* exactly when the values are (collisions are outside the model).           *)
EXTENDS Integers, Sequences, FiniteSets, Functions

CONSTANTS
    Validator,     \* the members of the validator set of the current epoch
    VotingPower,   \* votingPower of each member, at least 1
    CanonicalOrder,\* the members, sorted by validatorId
    Draw(_, _, _), \* the point drawn for (height, view, previous certificate):
                   \* a hash modulo the total voting power
    Nil            \* absent: null or undefined in the code

ASSUME ValidatorSetValid ==
    /\ IsFiniteSet(Validator)
    /\ Cardinality(Validator) >= 4
    /\ VotingPower \in [Validator -> Nat \ {0}]
    /\ CanonicalOrder \in [1..Cardinality(Validator) -> Validator]
    /\ \A v \in Validator : \E i \in DOMAIN CanonicalOrder : CanonicalOrder[i] = v

-----------------------------------------------------------------------------
(* Voting power.                                                             *)

votePower(voters) == SumFunctionOnSet(VotingPower, voters)

\* Mutation of quorumPower: two thirds, and not more.
quorumPowerRounded == (votePower(Validator) * 2) \div 3

quorumPower == (votePower(Validator) * 2) \div 3 + 1

Quorum == {voters \in SUBSET Validator : votePower(voters) >= quorumPower}

HasQuorum(voters) == voters \in Quorum

\* The power of the first k members of the set.
Cursor(k) == votePower({CanonicalOrder[i] : i \in 1..k})

\* The member into whose share of the total power the point falls, or Nil
\* (PROPOSER_SELECTION_FAILED).
selectProposer(h, view, previous) ==
    LET Drawn(k) == /\ Cursor(k - 1) <= Draw(h, view, previous)
                    /\ Draw(h, view, previous) < Cursor(k)
        drawn == {k \in DOMAIN CanonicalOrder : Drawn(k)}
    IN  IF drawn = {} THEN Nil ELSE CanonicalOrder[CHOOSE k \in drawn : TRUE]

-----------------------------------------------------------------------------
(* Proposals.  A chain state is the sequence of the transitions committed to *)
(* it; a proposal extends the state it was made on by one transition.  The   *)
(* fields are the ones proposalId hashes.                                    *)

height(state) == Len(state)

HeightOf(p) == height(p.beforeState) + 1

ExpectedState(p) == Append(p.beforeState, p.tx)

-----------------------------------------------------------------------------
(* Signed votes.  The signer is the index under which a vote is kept.        *)

voteDomain(phase, h, view, proposalId, state) ==
    [phase |-> phase, height |-> h, view |-> view,
     proposalId |-> proposalId, state |-> state]

\* The key under which a signature is remembered: epoch, height, view, phase.
SameSlot(a, b) ==
    a.height = b.height /\ a.view = b.view /\ a.phase = b.phase

\* ConsensusWal.rememberVote refuses the vote (CONSENSUS_DOUBLE_SIGN_PREVENTED).
DoubleSign(votes, vote) ==
    \E prior \in votes :
        SameSlot(prior, vote) /\ prior.proposalId # vote.proposalId

-----------------------------------------------------------------------------
(* Certificates: the vote every signer signed, and who signed it.            *)

buildCertificate(phase, h, view, proposalId, state, voters) ==
    [phase |-> phase, height |-> h, view |-> view,
     proposalId |-> proposalId, state |-> state, voters |-> voters]

CertifiedVote(c) ==
    voteDomain(c.phase, c.height, c.view, c.proposalId, c.state)

\* What a validator checks of the certificate that comes with a state before
\* it installs the state; `signed` is every vote each member ever signed, so
\* a signature verifies exactly when its vote is there.
verifyFinalityCertificate(c, state, signed) ==
    \/ /\ state = <<>>
       /\ c = Nil
    \/ /\ state # <<>>
       /\ c # Nil
       /\ c.phase \in {"PRECOMMIT", "CHECKPOINT"}
       /\ c.height = height(state)
       /\ c.state = state
       /\ HasQuorum(c.voters)
       /\ \A v \in c.voters : CertifiedVote(c) \in signed[v]
=============================================================================
