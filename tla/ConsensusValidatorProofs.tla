---------------------- MODULE ConsensusValidatorProofs ----------------------
(* Facts about one handler run of a validator, for every request.            *)
EXTENDS ConsensusValidator, TLAPS

\* The fields each kind of request carries.
LEMMA RequestFields ==
    ASSUME NEW m \in RequestType
    PROVE  /\ m.type \in {"prepare", "precommit", "abort", "commit"} =>
                m.proposal \in NextProposal
           /\ m.type = "prepare" => m.viewCertificate \in ViewCertificate \cup {Nil}
           /\ m.type = "commit" => m.certificate \in Certificate
           /\ m.type = "view-change" =>
                /\ m.height \in Heights
                /\ m.view \in Nat
                /\ m.expectedState \in State
                /\ m.lockedProposalId \in Proposal \cup {Nil}
                /\ m.previous \in Certificate \cup {Nil}
           /\ m.type \in {"sync", "status", "checkpoint"} => m.state \in State
           /\ m.type = "sync" => m.certificate \in Certificate \cup {Nil}
BY DEF RequestType, NextProposal

\* A proposal leads to a state one higher.
LEMMA ProposalFacts ==
    ASSUME NEW p \in Proposal
    PROVE  /\ ExpectedState(p) \in State
           /\ HeightOf(p) = Len(p.beforeState) + 1
           /\ HeightOf(p) \in Nat
           /\ height(ExpectedState(p)) = HeightOf(p)
           /\ p.view \in Nat
           /\ p.beforeState \in State
BY DEF Proposal, State, ExpectedState, HeightOf, height

\* Heights are naturals.
LEMMA HeightNat == \A s \in State : height(s) \in Nat
BY DEF State, height

\* Every vote a handler signs is a vote.
LEMMA VoteTypes ==
    ASSUME NEW v \in Validator
    PROVE  /\ \A p \in NextProposal :
                PrepareVote(v, p) \in Vote /\ PrecommitVote(p) \in Vote
           /\ \A m \in RequestType :
                /\ m.type = "view-change" => ViewChangeVote(m) \in Vote
                /\ m.type = "checkpoint" => CheckpointVote(m) \in Vote
  <1>1. \A p \in NextProposal :
            PrepareVote(v, p) \in Vote /\ PrecommitVote(p) \in Vote
    BY ProposalFacts DEF NextProposal, PrepareVote, PrecommitVote, voteDomain,
       Vote, ReportedState
  <1>2. ASSUME NEW m \in RequestType, m.type = "view-change"
        PROVE  ViewChangeVote(m) \in Vote
    BY <1>2, RequestFields DEF ViewChangeVote, voteDomain, Vote, ViewChangeId,
       Heights
  <1>3. ASSUME NEW m \in RequestType, m.type = "checkpoint"
        PROVE  CheckpointVote(m) \in Vote
    BY <1>3, RequestFields, HeightNat DEF CheckpointVote, voteDomain, Vote,
       CheckpointId
  <1> QED BY <1>1, <1>2, <1>3

\* Setting one entry keeps the type of a per-height map.
LEMMA PutType ==
    ASSUME NEW S, NEW f \in [Validator -> [Heights -> S]], NEW v \in Validator,
           NEW h \in Heights, NEW x \in S
    PROVE  Put(f, v, h, x) \in [Validator -> [Heights -> S]]
BY DEF Put

\* So does dropping the entries up to a height.
LEMMA DropType ==
    ASSUME NEW S, NEW f \in [Validator -> [Heights -> S]], NEW v \in Validator,
           NEW h, NEW none \in S
    PROVE  [f EXCEPT ![v] = DropUpTo(@, h, none)] \in [Validator -> [Heights -> S]]
BY DEF DropUpTo

\* Appending a signed vote keeps the log's type.
LEMMA WalSignedType ==
    ASSUME ValidatorTypeOK, NEW v \in Validator, NEW x \in Vote,
           x.phase \in {"PREPARE", "VIEW_CHANGE"} => x.height \in Heights,
           x.phase = "PREPARE" => x.proposalId \in Proposal,
           WalSigned(v, x)
    PROVE  /\ walViews' \in [Validator -> [Heights -> Nat]]
           /\ walLocks' \in [Validator -> [Heights -> Lock \cup {Nil}]]
           /\ signedVotes' \in [Validator -> SUBSET Vote]
           /\ remembered' \in [Validator -> SUBSET Vote]
  <1> USE DEF ValidatorTypeOK
  <1>1. x.view \in Nat /\ x.height \in Nat /\ x.state \in State \cup {BadRoot}
    BY DEF Vote
  <1>2. /\ signedVotes' \in [Validator -> SUBSET Vote]
        /\ remembered' \in [Validator -> SUBSET Vote]
    BY DEF WalSigned
  <1>3. walViews' \in [Validator -> [Heights -> Nat]]
    BY <1>1 DEF WalSigned, Put, Larger
  <1>4. walLocks' \in [Validator -> [Heights -> Lock \cup {Nil}]]
    <2>1. x.phase = "PREPARE" =>
            [view |-> x.view, proposalId |-> x.proposalId, state |-> x.state]
                \in Lock
      BY <1>1 DEF Lock
    <2> QED BY <2>1 DEF WalSigned, Put
  <1> QED BY <1>2, <1>3, <1>4

-----------------------------------------------------------------------------
(* Type correctness.                                                         *)

\* The initial validators are typed.
LEMMA InitType == InitValidators => ValidatorTypeOK
BY DEF InitValidators, ValidatorTypeOK, State, Heights

\* Every handler keeps the types, whatever well-formed request it is sent.
LEMMA HandleType ==
    ASSUME ValidatorTypeOK, NEW v \in Validator, NEW m \in RequestType,
           NEW r, Handle(v, m, r)
    PROVE  ValidatorTypeOK'
  <1> USE DEF ValidatorTypeOK
  <1>1. CASE m.type = "prepare" /\ Prepare(v, m, r)
    <2> DEFINE p == m.proposal
    <2>1. p \in NextProposal /\ p \in Proposal /\ HeightOf(p) \in Heights
      BY <1>1, RequestFields DEF NextProposal
    <2>2. CASE PrepareRefused(v, m, r)
      BY <2>2 DEF PrepareRefused, validatorVars, volatile, wal, walFile
    <2>3. CASE PrepareAccepted(v, m, r)
      <3>1. pending' \in [Validator -> SUBSET Proposal]
            /\ precommitted' \in [Validator -> SUBSET Proposal]
            /\ \A u \in Validator : precommitted'[u] \subseteq pending'[u]
        BY <2>1, <2>3 DEF PrepareAccepted
      <3>2. currentViews' \in [Validator -> [Heights -> Nat]]
        BY <2>1, <2>3, ProposalFacts DEF PrepareAccepted, Put
      <3>3. locks' \in [Validator -> [Heights -> Lock \cup {Nil}]]
        <4>1. [view |-> p.view, proposalId |-> p, state |-> ExpectedState(p)]
                 \in Lock
          BY <2>1, ProposalFacts DEF Lock
        <4>2. \/ locks' = locks
              \/ locks' = Put(locks, v, HeightOf(p),
                    [view |-> p.view, proposalId |-> p, state |-> ExpectedState(p)])
          BY <2>3 DEF PrepareAccepted
        <4> DEFINE lock ==
              [view |-> p.view, proposalId |-> p, state |-> ExpectedState(p)]
        <4>3. lock \in Lock \cup {Nil}
          BY <4>1
        <4>4. locks' = locks \/ locks' = Put(locks, v, HeightOf(p), lock)
          BY <4>2
        <4> HIDE DEF lock, p
        <4>5. Put(locks, v, HeightOf(p), lock) \in [Validator -> [Heights -> Lock \cup {Nil}]]
          BY <2>1, <4>3, PutType
        <4> QED BY <4>4, <4>5
      <3>4. PrepareVote(v, p) \in Vote
            /\ PrepareVote(v, p).height \in Heights
            /\ PrepareVote(v, p).proposalId \in Proposal
        BY <2>1, VoteTypes DEF PrepareVote, voteDomain
      <3>5. /\ walViews' \in [Validator -> [Heights -> Nat]]
            /\ walLocks' \in [Validator -> [Heights -> Lock \cup {Nil}]]
            /\ signedVotes' \in [Validator -> SUBSET Vote]
            /\ remembered' \in [Validator -> SUBSET Vote]
        <4>1. CASE WalSigned(v, PrepareVote(v, p))
          BY <4>1, <3>4, WalSignedType
        <4>2. CASE UNCHANGED wal
          BY <4>2 DEF wal, walFile
        <4> QED BY <2>3, <4>1, <4>2 DEF PrepareAccepted
      <3> QED BY <2>3, <3>1, <3>2, <3>3, <3>5 DEF PrepareAccepted
    <2> QED BY <1>1, <2>2, <2>3 DEF Prepare
  <1>2. CASE m.type = "precommit" /\ Precommit(v, m, r)
    <2> DEFINE p == m.proposal
    <2>1. p \in NextProposal /\ p \in Proposal
      BY <1>2, RequestFields DEF NextProposal
    <2>2. CASE UNCHANGED validatorVars
      BY <2>2 DEF validatorVars, volatile, wal, walFile
    <2>3. CASE p \in pending[v] /\ Precommit(v, m, r)
      <3>1. PrecommitVote(p) \in Vote /\ PrecommitVote(p).phase = "PRECOMMIT"
        BY <2>1, VoteTypes DEF PrecommitVote, voteDomain
      <3>2. /\ walViews' \in [Validator -> [Heights -> Nat]]
            /\ walLocks' \in [Validator -> [Heights -> Lock \cup {Nil}]]
            /\ signedVotes' \in [Validator -> SUBSET Vote]
            /\ remembered' \in [Validator -> SUBSET Vote]
        <4>1. CASE WalSigned(v, PrecommitVote(p))
          BY <4>1, <3>1, WalSignedType
        <4>2. CASE UNCHANGED wal
          BY <4>2 DEF wal, walFile
        <4> QED BY <2>3, <4>1, <4>2 DEF Precommit
      <3>3. /\ precommitted' = [precommitted EXCEPT ![v] = @ \cup {p}]
            /\ UNCHANGED <<engine, pending, currentViews, locks, rolledBack>>
        BY <2>3 DEF Precommit
      <3> QED BY <2>1, <2>3, <3>2, <3>3
    <2> QED BY <1>2, <2>2, <2>3 DEF Precommit
  <1>3. CASE m.type = "commit" /\ Commit(v, m, r)
    <2> DEFINE p == m.proposal
    <2>1. p \in Proposal /\ HeightOf(p) \in Heights
      BY <1>3, RequestFields DEF NextProposal
    <2>2. CASE UNCHANGED validatorVars
      BY <2>2 DEF validatorVars, volatile, wal, walFile
    <2>3. CASE r = "COMMITTED"
      <3>1. /\ engine' = [engine EXCEPT ![v] = ExpectedState(p)]
            /\ WalCommitted(v, HeightOf(p))
            /\ pending' = [pending EXCEPT ![v] = {}]
            /\ precommitted' = [precommitted EXCEPT ![v] = {}]
            /\ locks' = Put(locks, v, HeightOf(p), Nil)
            /\ currentViews' = Put(currentViews, v, HeightOf(p), 0)
            /\ UNCHANGED rolledBack
        BY <1>3, <2>3 DEF Commit
      <3>2. engine' \in [Validator -> State]
        BY <2>1, <3>1, ProposalFacts
      <3>3. 0 \in Nat /\ Nil \in Lock \cup {Nil}
        OBVIOUS
      <3>4. /\ locks' \in [Validator -> [Heights -> Lock \cup {Nil}]]
            /\ walLocks' \in [Validator -> [Heights -> Lock \cup {Nil}]]
        BY <2>1, <3>1, <3>3, PutType DEF WalCommitted
      <3>5. /\ currentViews' \in [Validator -> [Heights -> Nat]]
            /\ walViews' \in [Validator -> [Heights -> Nat]]
        BY <2>1, <3>1, <3>3, PutType DEF WalCommitted
      <3> QED BY <3>1, <3>2, <3>4, <3>5 DEF WalCommitted
    <2> QED BY <1>3, <2>2, <2>3 DEF Commit
  <1>4. CASE m.type = "view-change" /\ ViewChange(v, m, r)
    <2>1. m.height \in Heights /\ m.view \in Nat
      BY <1>4, RequestFields
    <2>2. CASE UNCHANGED validatorVars
      BY <2>2 DEF validatorVars, volatile, wal, walFile
    <2>3. CASE ViewChangeAllowed(v, m) /\ ViewChange(v, m, r)
      <3>1. /\ ViewChangeVote(m) \in Vote
            /\ ViewChangeVote(m).height \in Heights
            /\ ViewChangeVote(m).phase = "VIEW_CHANGE"
        BY <1>4, <2>1, VoteTypes DEF ViewChangeVote, voteDomain
      <3>2. /\ walViews' \in [Validator -> [Heights -> Nat]]
            /\ walLocks' \in [Validator -> [Heights -> Lock \cup {Nil}]]
            /\ signedVotes' \in [Validator -> SUBSET Vote]
            /\ remembered' \in [Validator -> SUBSET Vote]
        <4>1. CASE WalSigned(v, ViewChangeVote(m))
          BY <4>1, <3>1, WalSignedType
        <4>2. CASE UNCHANGED wal
          BY <4>2 DEF wal, walFile
        <4> QED BY <2>3, <4>1, <4>2 DEF ViewChange
      <3>3. /\ currentViews' = Put(currentViews, v, m.height, m.view)
            /\ UNCHANGED <<engine, pending, precommitted, locks, rolledBack>>
        BY <2>3 DEF ViewChange
      <3>4. currentViews' \in [Validator -> [Heights -> Nat]]
        BY <2>1, <3>3, PutType
      <3> QED BY <3>2, <3>3, <3>4
    <2> QED BY <1>4, <2>2, <2>3 DEF ViewChange
  <1>5. CASE m.type = "sync" /\ Sync(v, m, r)
    <2>1. m.state \in State
      BY <1>5, RequestFields
    <2>2. CASE UNCHANGED validatorVars
      BY <2>2 DEF validatorVars, volatile, wal, walFile
    <2>3. CASE r = "SYNCED"
      <3>1. engine' \in [Validator -> State] /\ rolledBack' \in SUBSET Validator
        BY <1>5, <2>1, <2>3 DEF Sync
      <3>2. locks' \in [Validator -> [Heights -> Lock \cup {Nil}]]
            /\ currentViews' \in [Validator -> [Heights -> Nat]]
        <4>1. Nil \in Lock \cup {Nil} /\ 0 \in Nat
          OBVIOUS
        <4>2. /\ locks' = [locks EXCEPT ![v] = DropUpTo(@, height(m.state), Nil)]
              /\ currentViews' = [currentViews EXCEPT ![v] = DropUpTo(@, height(m.state), 0)]
          BY <1>5, <2>3 DEF Sync
        <4>3. locks' \in [Validator -> [Heights -> Lock \cup {Nil}]]
          BY <4>1, <4>2, DropType
        <4>4. currentViews' \in [Validator -> [Heights -> Nat]]
          BY <4>1, <4>2, DropType
        <4> QED BY <4>3, <4>4
      <3>3. /\ pending' = [pending EXCEPT ![v] = {}]
            /\ precommitted' = [precommitted EXCEPT ![v] = {}]
            /\ UNCHANGED wal
        BY <1>5, <2>3 DEF Sync
      <3>4. /\ pending' \in [Validator -> SUBSET Proposal]
            /\ precommitted' \in [Validator -> SUBSET Proposal]
            /\ \A u \in Validator : precommitted'[u] \subseteq pending'[u]
        BY <3>3
      <3>5. /\ walViews' = walViews /\ walLocks' = walLocks
            /\ signedVotes' = signedVotes /\ remembered' = remembered
        BY <3>3 DEF wal, walFile
      <3> QED BY <3>1, <3>2, <3>4, <3>5
    <2> QED BY <1>5, <2>2, <2>3 DEF Sync
  <1>6. CASE m.type = "status" /\ Status(v, m, r)
    BY <1>6 DEF Status, validatorVars, volatile, wal, walFile
  <1>7. CASE m.type = "checkpoint" /\ Checkpoint(v, m, r)
    <2>1. CheckpointVote(m) \in Vote /\ CheckpointVote(m).phase = "CHECKPOINT"
      BY <1>7, VoteTypes DEF CheckpointVote, voteDomain
    <2>2. /\ walViews' \in [Validator -> [Heights -> Nat]]
          /\ walLocks' \in [Validator -> [Heights -> Lock \cup {Nil}]]
          /\ signedVotes' \in [Validator -> SUBSET Vote]
          /\ remembered' \in [Validator -> SUBSET Vote]
      <3>1. CASE WalSigned(v, CheckpointVote(m))
        BY <3>1, <2>1, WalSignedType
      <3>2. CASE UNCHANGED wal
        BY <3>2 DEF wal, walFile
      <3> QED BY <1>7, <3>1, <3>2 DEF Checkpoint
    <2> QED BY <1>7, <2>2 DEF Checkpoint, volatile
  <1>8. CASE m.type = "abort" /\ Abort(v, m, r)
    BY <1>8 DEF Abort, wal, walFile
  <1> QED BY <1>1, <1>2, <1>3, <1>4, <1>5, <1>6, <1>7, <1>8 DEF Handle

\* A restart keeps the types.
LEMMA CrashType ==
    ASSUME ValidatorTypeOK, NEW v \in Validator, CrashRestart(v)
    PROVE  ValidatorTypeOK'
BY DEF ValidatorTypeOK, CrashRestart, Recover, wal, walFile

\* So does a crash inside commit.
LEMMA CommitCrashType ==
    ASSUME ValidatorTypeOK, NEW v \in Validator, NEW m \in RequestType,
           CommitCrash(v, m)
    PROVE  ValidatorTypeOK'
  <1>1. ExpectedState(m.proposal) \in State
    BY RequestFields, ProposalFacts DEF CommitCrash, NextProposal
  <1> QED BY <1>1 DEF ValidatorTypeOK, CommitCrash, Recover, wal, walFile

\* The validators keep their types, whoever sends the requests.
LEMMA ValidatorStepType ==
    ValidatorTypeOK /\ [ValidatorNext]_validatorVars => ValidatorTypeOK'
  <1>1. ASSUME ValidatorTypeOK, ValidatorNext
        PROVE  ValidatorTypeOK'
    BY <1>1, CrashType, CommitCrashType, HandleType DEF ValidatorNext
  <1>2. ASSUME ValidatorTypeOK, UNCHANGED validatorVars
        PROVE  ValidatorTypeOK'
    BY <1>2 DEF ValidatorTypeOK, validatorVars, volatile, wal, walFile
  <1> QED BY <1>1, <1>2

-----------------------------------------------------------------------------
(* Signatures.                                                               *)

\* A restart replays the votes of the log into memory.
Replays(v) ==
    /\ signedVotes' = signedVotes
    /\ remembered' = [remembered EXCEPT ![v] = signedVotes[v]]

\* A step of a validator signs at most one vote, and the votes in memory agreed
\* to it, or replays the log, or leaves both alone.
LEMMA StepSigns ==
    ASSUME ValidatorTypeOK, [ValidatorNext]_validatorVars
    PROVE  \/ UNCHANGED <<signedVotes, remembered>>
           \/ \E v \in Validator : Replays(v)
           \/ \E v \in Validator, x \in Vote : WalSigned(v, x)
  <1>1. ASSUME NEW v \in Validator, NEW m \in RequestType, NEW r, Handle(v, m, r)
        PROVE  \/ UNCHANGED <<signedVotes, remembered>>
               \/ \E x \in Vote : WalSigned(v, x)
    <2>1. CASE m.type = "prepare" /\ Prepare(v, m, r)
      <3>1. PrepareVote(v, m.proposal) \in Vote
        BY <2>1, RequestFields, VoteTypes
      <3> QED BY <2>1, <3>1 DEF Prepare, PrepareRefused, PrepareAccepted,
                  validatorVars, wal, walFile
    <2>2. CASE m.type = "precommit" /\ Precommit(v, m, r)
      <3>1. PrecommitVote(m.proposal) \in Vote
        BY <2>2, RequestFields, VoteTypes
      <3> QED BY <2>2, <3>1 DEF Precommit, validatorVars, wal, walFile
    <2>3. CASE m.type = "view-change" /\ ViewChange(v, m, r)
      <3>1. ViewChangeVote(m) \in Vote
        BY <2>3, VoteTypes
      <3> QED BY <2>3, <3>1 DEF ViewChange, validatorVars, wal, walFile
    <2>4. CASE m.type = "checkpoint" /\ Checkpoint(v, m, r)
      <3>1. CheckpointVote(m) \in Vote
        BY <2>4, VoteTypes
      <3> QED BY <2>4, <3>1 DEF Checkpoint, wal, walFile
    <2>5. CASE m.type = "commit" /\ Commit(v, m, r)
      BY <2>5 DEF Commit, WalCommitted, validatorVars, wal, walFile
    <2>6. CASE m.type = "sync" /\ Sync(v, m, r)
      BY <2>6 DEF Sync, validatorVars, wal, walFile
    <2>7. CASE m.type = "status" /\ Status(v, m, r)
      BY <2>7 DEF Status, validatorVars, wal, walFile
    <2>8. CASE m.type = "abort" /\ Abort(v, m, r)
      BY <2>8 DEF Abort, wal, walFile
    <2> QED BY <1>1, <2>1, <2>2, <2>3, <2>4, <2>5, <2>6, <2>7, <2>8 DEF Handle
  <1>2. ASSUME NEW v \in Validator, NEW m \in RequestType, CommitCrash(v, m)
        PROVE  Replays(v)
    BY <1>2 DEF CommitCrash, Recover, Replays, walFile
  <1>3. ASSUME NEW v \in Validator, CrashRestart(v)
        PROVE  Replays(v)
    BY <1>3 DEF CrashRestart, Recover, Replays, walFile
  <1>4. CASE UNCHANGED validatorVars
    BY <1>4 DEF validatorVars, wal, walFile
  <1> QED BY <1>1, <1>2, <1>3, <1>4 DEF ValidatorNext

\* A signature is never forgotten.
LEMMA SignedGrows ==
    ASSUME ValidatorTypeOK, [ValidatorNext]_validatorVars, NEW v \in Validator
    PROVE  signedVotes[v] \subseteq signedVotes'[v]
BY StepSigns DEF WalSigned, Replays, ValidatorTypeOK

\* What is in memory stays what is in the log: a vote enters both, and a
\* restart reads all of them back.
LEMMA StepReplayed ==
    ValidatorTypeOK /\ Replayed /\ [ValidatorNext]_validatorVars => Replayed'
  <1> SUFFICES ASSUME ValidatorTypeOK, Replayed, [ValidatorNext]_validatorVars
               PROVE  Replayed'
    OBVIOUS
  <1>1. ASSUME NEW v \in Validator, Replays(v)
        PROVE  Replayed'
    BY <1>1 DEF Replays, Replayed, ValidatorTypeOK
  <1>2. ASSUME NEW v \in Validator, NEW x, WalSigned(v, x)
        PROVE  Replayed'
    BY <1>2 DEF WalSigned, Replayed
  <1> QED BY <1>1, <1>2, StepSigns DEF Replayed

\* Every step keeps the slots single.
LEMMA StepNoDoubleSign ==
    ValidatorTypeOK /\ Replayed /\ NoDoubleSign /\ [ValidatorNext]_validatorVars
        => NoDoubleSign'
  <1> SUFFICES ASSUME ValidatorTypeOK, Replayed, NoDoubleSign,
                      [ValidatorNext]_validatorVars
               PROVE  NoDoubleSign'
    OBVIOUS
  <1>1. CASE UNCHANGED signedVotes
    BY <1>1 DEF NoDoubleSign
  <1>2. ASSUME NEW v \in Validator, NEW x \in Vote, WalSigned(v, x)
        PROVE  NoDoubleSign'
    <2> SUFFICES ASSUME NEW u \in Validator, NEW a \in signedVotes'[u],
                        NEW b \in signedVotes'[u], SameSlot(a, b)
                 PROVE  a.proposalId = b.proposalId
      BY DEF NoDoubleSign
    <2>1. signedVotes' = [signedVotes EXCEPT ![v] = @ \cup {x}]
      BY <1>2 DEF WalSigned
    <2>2. CASE a \in signedVotes[u] /\ b \in signedVotes[u]
      BY <2>2 DEF NoDoubleSign
    <2>3. CASE u = v /\ (a = x \/ b = x)
      <3>1. \A prior \in signedVotes[v] :
                SameSlot(prior, x) => prior.proposalId = x.proposalId
        BY <1>2 DEF WalSigned, DoubleSign, Replayed
      <3>2. SameSlot(b, a)
        BY DEF SameSlot
      <3> QED BY <2>1, <2>3, <3>1, <3>2 DEF ValidatorTypeOK
    <2> QED BY <2>1, <2>2, <2>3 DEF ValidatorTypeOK
  <1> QED BY <1>1, <1>2, StepSigns DEF Replays

\* No double signature for any validator set and any sequence of requests,
\* crashes included: that needs neither locks nor a quorum, only that a restart
\* remembers from the log every vote the process had signed.
THEOREM ValidatorNeverDoubleSigns ==
    ValidatorSpec => [](ValidatorTypeOK /\ Replayed /\ NoDoubleSign)
  <1>1. InitValidators => ValidatorTypeOK /\ Replayed /\ NoDoubleSign
    BY InitType DEF InitValidators, Replayed, NoDoubleSign
  <1>2. ValidatorTypeOK /\ Replayed /\ NoDoubleSign /\ [ValidatorNext]_validatorVars
            => ValidatorTypeOK' /\ Replayed' /\ NoDoubleSign'
    BY ValidatorStepType, StepReplayed, StepNoDoubleSign
  <1> QED BY <1>1, <1>2, PTL DEF ValidatorSpec

-----------------------------------------------------------------------------
(* The discipline of the locks.                                              *)

\* OneValue depends on the validator's own chain, locks and log.
LEMMA OneValueFrame ==
    ASSUME NEW u \in Validator, OneValue(u),
           engine'[u] = engine[u], pending'[u] \subseteq pending[u],
           locks'[u] = locks[u], walLocks'[u] = walLocks[u],
           signedVotes'[u] = signedVotes[u]
    PROVE  OneValue(u)'
BY DEF OneValue, BlockVotes, Locked

\* A handler touches the state of its own validator only.
LEMMA HandleOwn ==
    ASSUME ValidatorTypeOK, NEW v \in Validator, NEW m \in RequestType,
           NEW r, Handle(v, m, r), NEW u \in Validator, u # v
    PROVE  /\ engine'[u] = engine[u]
           /\ pending'[u] = pending[u]
           /\ locks'[u] = locks[u]
           /\ walLocks'[u] = walLocks[u]
           /\ signedVotes'[u] = signedVotes[u]
  <1> USE DEF ValidatorTypeOK, Put, WalSigned, validatorVars, volatile, wal, walFile
  <1>1. CASE Prepare(v, m, r)
    BY <1>1 DEF Prepare, PrepareRefused, PrepareAccepted
  <1>2. CASE Precommit(v, m, r)
    BY <1>2 DEF Precommit
  <1>3. CASE Commit(v, m, r)
    BY <1>3 DEF Commit, WalCommitted
  <1>4. CASE ViewChange(v, m, r)
    BY <1>4 DEF ViewChange
  <1>5. CASE Sync(v, m, r)
    BY <1>5 DEF Sync
  <1>6. CASE Status(v, m, r)
    BY <1>6 DEF Status
  <1>7. CASE Checkpoint(v, m, r)
    BY <1>7 DEF Checkpoint
  <1>8. CASE Abort(v, m, r)
    BY <1>8 DEF Abort
  <1> QED BY <1>1, <1>2, <1>3, <1>4, <1>5, <1>6, <1>7, <1>8 DEF Handle

\* Trust is lost, never gained.
LEMMA TrustedShrinks ==
    ASSUME ValidatorTypeOK, [ValidatorNext]_validatorVars
    PROVE  Trusted' \subseteq Trusted
  <1>1. ASSUME NEW v \in Validator, NEW m \in RequestType, NEW r, Handle(v, m, r)
        PROVE  rolledBack \subseteq rolledBack'
    BY <1>1 DEF Handle, Prepare, PrepareRefused, PrepareAccepted, Precommit,
       Commit, ViewChange, Sync, Status, Checkpoint, Abort, validatorVars
  <1>2. ASSUME NEW v \in Validator, CrashRestart(v)
        PROVE  rolledBack \subseteq rolledBack'
    BY <1>2 DEF CrashRestart
  <1>3. ASSUME NEW v \in Validator, NEW m \in RequestType, CommitCrash(v, m)
        PROVE  rolledBack \subseteq rolledBack'
    BY <1>3 DEF CommitCrash
  <1>4. ASSUME UNCHANGED validatorVars
        PROVE  rolledBack \subseteq rolledBack'
    BY <1>4 DEF validatorVars
  <1>5. rolledBack \subseteq rolledBack'
    <2>1. CASE ValidatorNext
      BY <2>1, <1>1, <1>2, <1>3 DEF ValidatorNext
    <2> QED BY <2>1, <1>4
  <1> QED BY <1>5 DEF Trusted

\* A lock holds one value.
LEMMA LockedOnce ==
    ASSUME NEW v, NEW h, NEW s, NEW t, Locked(v, h, s), Locked(v, h, t)
    PROVE  s = t
BY DEF Locked, HoldsLock

\* What a pending proposal of v says about v.
LEMMA PendingFacts ==
    ASSUME ValidatorTypeOK, NEW v \in Validator, OneValue(v), NEW p \in pending[v]
    PROVE  /\ p \in Proposal
           /\ HeightOf(p) \in Heights
           /\ HeightOf(p) = height(engine[v]) + 1
           /\ height(engine[v]) \in Nat
           /\ height(ExpectedState(p)) = HeightOf(p)
           /\ Locked(v, HeightOf(p), ExpectedState(p))
  <1>1. p \in Proposal
    BY DEF ValidatorTypeOK
  <1>2. engine[v] \in State
    BY DEF ValidatorTypeOK
  <1> QED BY <1>1, <1>2, ProposalFacts, HeightNat DEF OneValue, HeightOf

\* A validator that runs a proposal keeps to the value it has signed before.
LEMMA PrepareOneValue ==
    ASSUME ValidatorTypeOK, Replayed, NEW v \in Validator, v \notin FaultyRoot,
           NEW m, m.proposal \in NextProposal, NEW r,
           PrepareAccepted(v, m, r), OneValue(v)
    PROVE  OneValue(v)'
  <1> DEFINE p == m.proposal
             h == HeightOf(p)
             s == ExpectedState(p)
  <1>1. /\ p \in Proposal
        /\ h \in Heights
        /\ p.beforeState = engine[v]
        /\ h = height(engine[v]) + 1
        /\ height(engine[v]) \in Nat
    BY HeightNat DEF NextProposal, PrepareAccepted, PrepareMismatch, HeightOf,
       ValidatorTypeOK
  <1>2. locks[v][h] # Nil => locks[v][h].state = s
    BY DEF PrepareAccepted, LockedOut
  <1>3. ASSUME NEW t, Locked(v, h, t)
        PROVE  t = s
    BY <1>2, <1>3 DEF Locked, HoldsLock
  <1>4. /\ \A x \in BlockVotes(v) : x.height = h => Locked(v, h, x.state) /\ x.state = s
        /\ \A q \in pending[v] : HeightOf(q) = h /\ ExpectedState(q) = s
    <2>1. \A x \in BlockVotes(v) : x.height = h => Locked(v, h, x.state)
      BY <1>1 DEF OneValue
    <2>2. \A q \in pending[v] : HeightOf(q) = h /\ Locked(v, h, ExpectedState(q))
      BY <1>1, PendingFacts
    <2> QED BY <2>1, <2>2, <1>3
  <1>5. PrepareVote(v, p).phase = "PREPARE"
        /\ PrepareVote(v, p).height = h
        /\ PrepareVote(v, p).state = s
        /\ PrepareVote(v, p).view = p.view
        /\ PrepareVote(v, p).proposalId = p
    BY DEF PrepareVote, voteDomain, ReportedState
  <1>6. engine' = engine /\ pending'[v] = pending[v] \cup {p}
    BY DEF PrepareAccepted, ValidatorTypeOK
  <1>7. CASE UNCHANGED <<locks, wal>> /\ DoubleSign(remembered[v], PrepareVote(v, p))
    <2>1. PICK x \in signedVotes[v] : SameSlot(x, PrepareVote(v, p))
      BY <1>7 DEF DoubleSign, Replayed
    <2>2. Locked(v, h, s)
      BY <2>1, <1>4, <1>5 DEF SameSlot, BlockVotes
    <2> QED BY <1>1, <1>6, <1>7, <2>2 DEF OneValue, BlockVotes, Locked, wal, walFile
  <1>8. CASE /\ WalSigned(v, PrepareVote(v, p))
             /\ locks' = Put(locks, v, h, [view |-> p.view, proposalId |-> p, state |-> s])
    <2> DEFINE lock == [view |-> p.view, proposalId |-> p, state |-> s]
    <2>1. lock \in Lock /\ lock # Nil /\ lock.state = s
      BY <1>1, ProposalFacts, NilIsNoValue DEF Lock
    <2>2. locks' = Put(locks, v, h, lock) /\ walLocks' = Put(walLocks, v, h, lock)
      BY <1>5, <1>8 DEF WalSigned
    <2>3. signedVotes'[v] = signedVotes[v] \cup {PrepareVote(v, p)}
      BY <1>8 DEF WalSigned, ValidatorTypeOK
    <2> HIDE DEF lock
    <2>4. /\ locks'[v][h] = lock /\ walLocks'[v][h] = lock
          /\ \A k \in Heights : k # h => /\ locks'[v][k] = locks[v][k]
                                        /\ walLocks'[v][k] = walLocks[v][k]
      BY <1>1, <2>2 DEF Put, ValidatorTypeOK
    <2>5. Locked(v, h, s)'
      BY <2>1, <2>4 DEF Locked, HoldsLock
    <2>6. ASSUME NEW k \in Heights, k # h, NEW t, Locked(v, k, t)
          PROVE  Locked(v, k, t)'
      BY <2>4, <2>6 DEF Locked
    <2>7. ASSUME NEW x \in BlockVotes(v)'
          PROVE  x \in BlockVotes(v) \/ (x.height = h /\ x.state = s)
      BY <1>5, <2>3, <2>7 DEF BlockVotes
    <2>8. \A x \in BlockVotes(v)' : x.height = h => x.state = s
      BY <1>4, <2>7
    <2>9. \A x \in BlockVotes(v)' :
            /\ x.height \in Heights
            /\ x.height > height(engine'[v]) => Locked(v, x.height, x.state)'
      <3> SUFFICES ASSUME NEW x \in BlockVotes(v)'
                   PROVE  /\ x.height \in Heights
                          /\ x.height > height(engine[v]) => Locked(v, x.height, x.state)'
        BY <1>6
      <3>1. CASE x.height = h
        BY <1>1, <2>5, <2>8, <3>1
      <3>2. CASE x.height # h
        BY <3>2, <2>6, <2>7 DEF OneValue
      <3> QED BY <3>1, <3>2
    <2>10. \A x, y \in BlockVotes(v)' : x.height = y.height => x.state = y.state
      BY <2>7, <2>8 DEF OneValue
    <2>11. \A q \in pending'[v] :
            /\ HeightOf(q) \in Heights
            /\ q.beforeState = engine'[v]
            /\ Locked(v, HeightOf(q), ExpectedState(q))'
      BY <1>1, <1>4, <1>6, <2>5 DEF OneValue
    <2> QED BY <2>9, <2>10, <2>11 DEF OneValue
  <1> QED BY <1>7, <1>8 DEF PrepareAccepted

\* So does one that signs a precommit.
LEMMA PrecommitOneValue ==
    ASSUME ValidatorTypeOK, NEW v \in Validator, NEW p \in pending[v],
           UNCHANGED <<engine, pending, locks>>,
           WalSigned(v, PrecommitVote(p)), OneValue(v)
    PROVE  OneValue(v)'
  <1> DEFINE h == HeightOf(p)
             s == ExpectedState(p)
  <1>1. h \in Heights /\ h = height(engine[v]) + 1 /\ height(engine[v]) \in Nat
        /\ Locked(v, h, s)
    BY PendingFacts
  <1>2. /\ PrecommitVote(p).phase = "PRECOMMIT"
        /\ PrecommitVote(p).height = h
        /\ PrecommitVote(p).state = s
    BY DEF PrecommitVote, voteDomain
  <1>3. walLocks' = walLocks /\ signedVotes'[v] = signedVotes[v] \cup {PrecommitVote(p)}
    BY <1>2 DEF WalSigned, ValidatorTypeOK
  <1>4. \A x \in BlockVotes(v) : x.height = h => x.state = s
    BY <1>1, LockedOnce DEF OneValue
  <1>5. \A x \in BlockVotes(v)' : x \in BlockVotes(v) \/ (x.height = h /\ x.state = s)
    BY <1>2, <1>3 DEF BlockVotes
  <1>6. \A k, t : Locked(v, k, t)' <=> Locked(v, k, t)
    BY <1>3 DEF Locked
  <1>7. \A x, y \in BlockVotes(v)' : x.height = y.height => x.state = y.state
    BY <1>4, <1>5 DEF OneValue
  <1>8. \A x \in BlockVotes(v)' :
            /\ x.height \in Heights
            /\ x.height > height(engine'[v]) => Locked(v, x.height, x.state)'
    BY <1>1, <1>5, <1>6 DEF OneValue
  <1>9. \A q \in pending'[v] :
            /\ HeightOf(q) \in Heights
            /\ q.beforeState = engine'[v]
            /\ Locked(v, HeightOf(q), ExpectedState(q))'
    BY <1>6 DEF OneValue
  <1> QED BY <1>7, <1>8, <1>9 DEF OneValue

\* Signing anything but a block vote changes nothing.
LEMMA OtherVoteOneValue ==
    ASSUME ValidatorTypeOK, NEW v \in Validator, NEW x,
           x.phase \in {"VIEW_CHANGE", "CHECKPOINT"}, WalSigned(v, x),
           UNCHANGED <<engine, pending, locks>>, OneValue(v)
    PROVE  OneValue(v)'
  <1>1. walLocks' = walLocks /\ BlockVotes(v)' = BlockVotes(v)
    BY DEF WalSigned, BlockVotes, ValidatorTypeOK
  <1> QED BY <1>1 DEF OneValue, Locked

\* Moving past a height releases only the locks up to that height.
LEMMA AdvanceOneValue ==
    ASSUME ValidatorTypeOK, NEW v \in Validator, OneValue(v),
           NEW s \in State, height(s) >= height(engine[v]),
           engine'[v] = s, pending'[v] = {}, signedVotes'[v] = signedVotes[v],
           \A k \in Heights : \A t :
               k > height(s) /\ Locked(v, k, t) => Locked(v, k, t)'
    PROVE  OneValue(v)'
  <1>1. height(s) \in Nat /\ height(engine[v]) \in Nat
    BY HeightNat DEF ValidatorTypeOK
  <1>2. BlockVotes(v)' = BlockVotes(v)
    BY DEF BlockVotes
  <1>3. \A x \in BlockVotes(v) :
            /\ x.height \in Heights
            /\ x.height > height(s) => Locked(v, x.height, x.state)'
    <2>1. \A k \in Heights : k \in Int
      BY ValidatorBounds DEF Heights
    <2> QED BY <1>1, <2>1 DEF OneValue
  <1> QED BY <1>2, <1>3 DEF OneValue

\* A commit releases the lock of the height it commits, and no other.
LEMMA CommitOneValue ==
    ASSUME ValidatorTypeOK, NEW v \in Validator, NEW m, NEW r,
           m.proposal \in NextProposal, CommitAllowed(v, m),
           r = "COMMITTED", Commit(v, m, r), OneValue(v)
    PROVE  OneValue(v)'
  <1> DEFINE p == m.proposal
  <1>1. p \in pending[v]
    BY DEF CommitAllowed, ValidatorTypeOK
  <1>2. /\ p \in Proposal /\ HeightOf(p) \in Heights
        /\ HeightOf(p) = height(engine[v]) + 1 /\ height(engine[v]) \in Nat
        /\ height(ExpectedState(p)) = HeightOf(p)
        /\ ExpectedState(p) \in State
    BY <1>1, PendingFacts, ProposalFacts
  <1>3. /\ engine'[v] = ExpectedState(p) /\ pending'[v] = {}
        /\ signedVotes' = signedVotes
        /\ locks' = Put(locks, v, HeightOf(p), Nil)
        /\ walLocks' = Put(walLocks, v, HeightOf(p), Nil)
    BY DEF Commit, WalCommitted, ValidatorTypeOK
  <1>4. \A k \in Heights : \A t :
            k > HeightOf(p) /\ Locked(v, k, t) => Locked(v, k, t)'
    BY <1>2, <1>3 DEF Locked, Put, ValidatorTypeOK, Heights
  <1> QED BY <1>2, <1>3, <1>4, AdvanceOneValue

\* A sync that does not roll the validator back keeps the locks that matter.
LEMMA SyncOneValue ==
    ASSUME ValidatorTypeOK, NEW v \in Validator, NEW m, NEW r,
           m.state \in State, r = "SYNCED", Sync(v, m, r),
           v \notin rolledBack', OneValue(v)
    PROVE  OneValue(v)'
  <1>1. /\ engine'[v] = m.state /\ pending'[v] = {}
        /\ signedVotes' = signedVotes /\ walLocks' = walLocks
        /\ locks'[v] = DropUpTo(locks[v], height(m.state), Nil)
    BY DEF Sync, ValidatorTypeOK, wal, walFile
  <1>2. Extends(m.state, engine[v])
    BY DEF Sync
  <1>3. height(m.state) \in Nat /\ height(m.state) >= height(engine[v])
    BY <1>2, HeightNat DEF Extends, height, ValidatorTypeOK
  <1>4. \A k \in Heights : k > height(m.state) => locks'[v][k] = locks[v][k]
    BY <1>1, <1>3 DEF DropUpTo, Heights
  <1>5. \A k \in Heights : \A t :
            k > height(m.state) /\ Locked(v, k, t) => Locked(v, k, t)'
    BY <1>1, <1>4 DEF Locked
  <1> QED BY <1>1, <1>3, <1>5, AdvanceOneValue

\* Whatever a request does to a validator it leaves trusted, the validator
\* keeps to one value per height.
LEMMA HandleOneValue ==
    ASSUME ValidatorTypeOK, Replayed, NEW v \in Validator, NEW m \in RequestType,
           NEW r, Handle(v, m, r), v \in Trusted', OneValue(v)
    PROVE  OneValue(v)'
  <1>0. ASSUME UNCHANGED validatorVars
        PROVE  OneValue(v)'
    BY <1>0, OneValueFrame DEF validatorVars, volatile, wal, walFile
  <1>1. CASE m.type = "prepare" /\ Prepare(v, m, r)
    <2>1. m.proposal \in NextProposal /\ v \notin FaultyRoot
      BY <1>1, RequestFields DEF Trusted
    <2>2. CASE PrepareRefused(v, m, r)
      BY <2>2, <1>0 DEF PrepareRefused
    <2>3. CASE PrepareAccepted(v, m, r)
      BY <2>1, <2>3, PrepareOneValue
    <2> QED BY <1>1, <2>2, <2>3 DEF Prepare
  <1>2. CASE m.type = "precommit" /\ Precommit(v, m, r)
    <2>1. CASE m.proposal \in pending[v] /\ WalSigned(v, PrecommitVote(m.proposal))
               /\ UNCHANGED <<engine, pending, locks>>
      BY <2>1, PrecommitOneValue
    <2>2. CASE UNCHANGED <<engine, pending, locks, wal>>
      BY <2>2, OneValueFrame DEF wal, walFile
    <2>3. CASE UNCHANGED validatorVars
      BY <2>3, <1>0
    <2> QED BY <1>2, <2>1, <2>2, <2>3 DEF Precommit
  <1>3. CASE m.type = "commit" /\ Commit(v, m, r)
    <2>1. m.proposal \in NextProposal
      BY <1>3, RequestFields
    <2>2. CASE UNCHANGED validatorVars
      BY <2>2, <1>0
    <2>3. CASE r = "COMMITTED" /\ CommitAllowed(v, m)
      BY <1>3, <2>1, <2>3, CommitOneValue
    <2> QED BY <1>3, <2>2, <2>3 DEF Commit
  <1>4. CASE m.type = "view-change" /\ ViewChange(v, m, r)
    <2>1. ViewChangeVote(m).phase = "VIEW_CHANGE"
      BY DEF ViewChangeVote, voteDomain
    <2>2. CASE WalSigned(v, ViewChangeVote(m)) /\ UNCHANGED <<engine, pending, locks>>
      BY <2>1, <2>2, OtherVoteOneValue
    <2>3. CASE UNCHANGED <<engine, pending, locks, wal>>
      BY <2>3, OneValueFrame DEF wal, walFile
    <2>4. CASE UNCHANGED validatorVars
      BY <2>4, <1>0
    <2> QED BY <1>4, <2>2, <2>3, <2>4 DEF ViewChange
  <1>5. CASE m.type = "sync" /\ Sync(v, m, r)
    <2>1. m.state \in State /\ v \notin rolledBack'
      BY <1>5, RequestFields DEF Trusted
    <2>2. CASE UNCHANGED validatorVars
      BY <2>2, <1>0
    <2>3. CASE r = "SYNCED"
      BY <1>5, <2>1, <2>3, SyncOneValue
    <2> QED BY <1>5, <2>2, <2>3 DEF Sync
  <1>6. CASE m.type = "status" /\ Status(v, m, r)
    BY <1>6, <1>0 DEF Status
  <1>7. CASE m.type = "checkpoint" /\ Checkpoint(v, m, r)
    <2>1. CheckpointVote(m).phase = "CHECKPOINT"
      BY DEF CheckpointVote, voteDomain
    <2>2. CASE WalSigned(v, CheckpointVote(m)) /\ UNCHANGED <<engine, pending, locks>>
      BY <2>1, <2>2, OtherVoteOneValue
    <2>3. CASE UNCHANGED <<engine, pending, locks, wal>>
      BY <2>3, OneValueFrame DEF wal, walFile
    <2> QED BY <1>7, <2>2, <2>3 DEF Checkpoint, volatile
  <1>8. CASE m.type = "abort" /\ Abort(v, m, r)
    <2>1. /\ engine' = engine /\ locks' = locks
          /\ walLocks' = walLocks /\ signedVotes' = signedVotes
          /\ pending'[v] \subseteq pending[v]
      BY <1>8 DEF Abort, wal, walFile, ValidatorTypeOK
    <2> QED BY <2>1, OneValueFrame
  <1> QED BY <1>1, <1>2, <1>3, <1>4, <1>5, <1>6, <1>7, <1>8 DEF Handle

\* A crash loses the memory of the locks; the log gives them back.
LEMMA CrashOneValue ==
    ASSUME ValidatorTypeOK, NEW v \in Validator, OneValue(v), CrashRestart(v)
    PROVE  OneValue(v)'
  <1>1. /\ engine' = engine /\ pending'[v] = {} /\ signedVotes' = signedVotes
        /\ walLocks' = walLocks /\ locks'[v] = walLocks[v]
    BY DEF CrashRestart, Recover, wal, walFile, ValidatorTypeOK
  <1>2. engine[v] \in State /\ height(engine[v]) >= height(engine[v])
    BY HeightNat DEF ValidatorTypeOK
  <1>3. \A k \in Heights : \A t : Locked(v, k, t) => Locked(v, k, t)'
    BY <1>1 DEF Locked
  <1> QED BY <1>1, <1>2, <1>3, AdvanceOneValue

\* A crash inside commit keeps the lock, which no longer matters.
LEMMA CommitCrashOneValue ==
    ASSUME ValidatorTypeOK, NEW v \in Validator, OneValue(v),
           NEW m \in RequestType, CommitCrash(v, m)
    PROVE  OneValue(v)'
  <1>1. m.proposal \in pending[v]
    BY DEF CommitCrash, CommitAllowed, ValidatorTypeOK
  <1>2. /\ ExpectedState(m.proposal) \in State
        /\ height(ExpectedState(m.proposal)) >= height(engine[v])
    BY <1>1, PendingFacts, ProposalFacts
  <1>3. /\ engine'[v] = ExpectedState(m.proposal) /\ pending'[v] = {}
        /\ signedVotes' = signedVotes
        /\ walLocks' = walLocks /\ locks'[v] = walLocks[v]
    BY DEF CommitCrash, Recover, wal, walFile, ValidatorTypeOK
  <1>4. \A k \in Heights : \A t : Locked(v, k, t) => Locked(v, k, t)'
    BY <1>3 DEF Locked
  <1> QED BY <1>2, <1>3, <1>4, AdvanceOneValue

\* Every step of the validators keeps the discipline of the locks.
LEMMA StepLockInv ==
    ValidatorTypeOK /\ Replayed /\ LockInv /\ [ValidatorNext]_validatorVars
        => LockInv'
  <1> SUFFICES ASSUME ValidatorTypeOK, Replayed, LockInv,
                      [ValidatorNext]_validatorVars,
                      NEW u \in Trusted'
               PROVE  OneValue(u)'
    BY DEF LockInv
  <1>1. u \in Validator /\ OneValue(u)
    BY TrustedShrinks DEF LockInv, Trusted
  <1>2. ASSUME NEW v \in Validator, NEW m \in RequestType, NEW r, Handle(v, m, r)
        PROVE  OneValue(u)'
    <2>1. CASE u = v
      BY <1>1, <1>2, <2>1, HandleOneValue
    <2>2. CASE u # v
      BY <1>1, <1>2, <2>2, HandleOwn, OneValueFrame
    <2> QED BY <2>1, <2>2
  <1>3. ASSUME NEW v \in Validator, CrashRestart(v)
        PROVE  OneValue(u)'
    <2>1. CASE u = v
      BY <1>1, <1>3, <2>1, CrashOneValue
    <2>2. CASE u # v
      BY <1>1, <1>3, <2>2, OneValueFrame DEF CrashRestart, Recover, wal, walFile,
         ValidatorTypeOK
    <2> QED BY <2>1, <2>2
  <1>4. ASSUME NEW v \in Validator, NEW m \in RequestType, CommitCrash(v, m)
        PROVE  OneValue(u)'
    <2>1. CASE u = v
      BY <1>1, <1>4, <2>1, CommitCrashOneValue
    <2>2. CASE u # v
      BY <1>1, <1>4, <2>2, OneValueFrame DEF CommitCrash, Recover, wal, walFile,
         ValidatorTypeOK
    <2> QED BY <2>1, <2>2
  <1>5. ASSUME UNCHANGED validatorVars
        PROVE  OneValue(u)'
    BY <1>1, <1>5, OneValueFrame DEF validatorVars, volatile, wal, walFile
  <1> QED BY <1>2, <1>3, <1>4, <1>5 DEF ValidatorNext

\* It holds at the start.
LEMMA InitLockInv == InitValidators => LockInv
BY DEF InitValidators, LockInv, OneValue, BlockVotes, Trusted

\* The lock discipline: a validator that has not been rolled back and reports
\* true roots signs one value per height, over view changes and crashes, for
\* any requests in any order from anybody.
THEOREM ValidatorKeepsOneValue == ValidatorSpec => []LockInv
  <1>1. InitValidators => ValidatorTypeOK /\ Replayed /\ LockInv
    BY InitType, InitLockInv DEF InitValidators, Replayed
  <1>2. ValidatorTypeOK /\ Replayed /\ LockInv /\ [ValidatorNext]_validatorVars
            => ValidatorTypeOK' /\ Replayed' /\ LockInv'
    BY ValidatorStepType, StepReplayed, StepLockInv
  <1> QED BY <1>1, <1>2, PTL DEF ValidatorSpec

-----------------------------------------------------------------------------
(* What a step does to the chain of a validator, and what a vote means.      *)

\* Only commit and sync move a validator's chain, to what the request names.
LEMMA HandleEngine ==
    ASSUME ValidatorTypeOK, NEW v \in Validator, NEW m \in RequestType, NEW r,
           Handle(v, m, r), NEW u \in Validator
    PROVE  \/ engine'[u] = engine[u]
           \/ m.type = "commit" /\ engine'[u] = m.certificate.state
           \/ m.type = "sync" /\ engine'[u] = m.state
  <1> USE DEF ValidatorTypeOK, validatorVars
  <1>1. CASE m.type = "prepare" /\ Prepare(v, m, r)
    BY <1>1 DEF Prepare, PrepareRefused, PrepareAccepted
  <1>2. CASE m.type = "precommit" /\ Precommit(v, m, r)
    BY <1>2 DEF Precommit
  <1>3. CASE m.type = "commit" /\ Commit(v, m, r)
    BY <1>3 DEF Commit, CommitAllowed
  <1>4. CASE m.type = "view-change" /\ ViewChange(v, m, r)
    BY <1>4 DEF ViewChange
  <1>5. CASE m.type = "sync" /\ Sync(v, m, r)
    BY <1>5 DEF Sync
  <1>6. CASE m.type = "status" /\ Status(v, m, r)
    BY <1>6 DEF Status
  <1>7. CASE m.type = "checkpoint" /\ Checkpoint(v, m, r)
    BY <1>7 DEF Checkpoint
  <1>8. CASE m.type = "abort" /\ Abort(v, m, r)
    BY <1>8 DEF Abort
  <1> QED BY <1>1, <1>2, <1>3, <1>4, <1>5, <1>6, <1>7, <1>8 DEF Handle

\* A positive answer to a precommit request is a signed vote.
LEMMA PrecommitAnswered ==
    ASSUME ValidatorTypeOK, NEW v \in Validator, NEW m \in RequestType,
           m.type = "precommit", Handle(v, m, "VOTE")
    PROVE  PrecommitVote(m.proposal) \in signedVotes'[v]
  <1>1. WalSigned(v, PrecommitVote(m.proposal))
    BY DEF Handle, Precommit
  <1> QED BY <1>1 DEF WalSigned, ValidatorTypeOK

\* A positive answer to a prepare request, too, and it is for the state the
\* proposal leads to.
LEMMA PrepareAnswered ==
    ASSUME ValidatorTypeOK, NEW v \in Validator, NEW m \in RequestType,
           m.type = "prepare", Handle(v, m, "VOTE")
    PROVE  PreparedVote(m.proposal) \in signedVotes'[v]
  <1>1. v \notin FaultyRoot /\ WalSigned(v, PrepareVote(v, m.proposal))
    BY DEF Handle, Prepare, PrepareRefused, PrepareAccepted
  <1> QED BY <1>1 DEF WalSigned, PrepareVote, PreparedVote, ReportedState,
             ValidatorTypeOK
=============================================================================
