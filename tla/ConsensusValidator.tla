------------------------- MODULE ConsensusValidator -------------------------
(* A consensus validator process: the request handlers of                    *)
(* consensus-validator.js and the write-ahead log they sign through.  Every  *)
(* operator H(v, m, r) is one handler run: validator v takes request m and   *)
(* answers r.  A handler runs from the parsed body to its reply without an   *)
(* await, so it is one step.                                                 *)
EXTENDS ConsensusPrimitives

CONSTANTS
    Tx,            \* transitions a client may submit (type and payload)
    MaxHeight,     \* bound: heights explored
    PendingLimit,  \* proposals a validator keeps pending: 32 in the code
    FaultyRoot,    \* the validators started with AEL_CONSENSUS_FAULT_ROOT
    BadRoot        \* the state root those report in PREPARE ("ffff...")

ASSUME ValidatorBounds ==
    /\ MaxHeight \in Nat \ {0}
    /\ PendingLimit \in Nat \ {0}
    /\ FaultyRoot \subseteq Validator

State == Seq(Tx)

Proposal == [view : Nat, beforeState : State, tx : Tx, proposer : Validator]

CheckpointId == [kind : {"CHECKPOINT"}, state : State]

Certificate ==
    [phase : {"PRECOMMIT", "CHECKPOINT"}, height : Nat, view : Nat,
     proposalId : Proposal \cup CheckpointId, state : State,
     voters : SUBSET Validator]

ViewChangeId ==
    [kind : {"VIEW_CHANGE"}, height : Nat, view : Nat,
     previous : Certificate \cup {Nil}, lockedProposalId : Proposal \cup {Nil},
     state : State]

Vote ==
    [phase : {"PREPARE", "PRECOMMIT", "VIEW_CHANGE", "CHECKPOINT"},
     height : Nat, view : Nat,
     proposalId : Proposal \cup ViewChangeId \cup CheckpointId,
     state : State \cup {BadRoot}]

Lock == [view : Nat, proposalId : Proposal, state : State \cup {BadRoot}]

ASSUME NilIsNoValue == Nil \notin Lock \cup Certificate \cup Proposal

VARIABLES
    engine,        \* engine[v]: v's chain state, in memory and in its state file
    pending,       \* pending[v]: the proposals v executed and may commit
    precommitted,  \* precommitted[v]: those of them with precommitted = true
    currentViews,  \* currentViews[v][h]: highest view v accepted at height h
    locks,         \* locks[v][h]: the value v prepared at height h, or Nil
    walViews,      \* walViews[v]: the currentViews a replay of v's WAL yields
    walLocks,      \* walLocks[v]: the locks a replay of v's WAL yields
    signedVotes,   \* signedVotes[v]: every vote in v's WAL
    remembered,    \* remembered[v]: wal.signedVotes, those v has in memory
    rolledBack     \* history: validators that installed a state which does
                   \* not extend the one they held

volatile == <<pending, precommitted, currentViews, locks>>
walFile == <<walViews, walLocks, signedVotes>>
wal == <<walFile, remembered>>
validatorVars == <<engine, volatile, wal, rolledBack>>

Heights == 1..MaxHeight

Put(f, v, h, x) == [f EXCEPT ![v][h] = x]

\* Mutation of DropUpTo: the height being decided is dropped as well.
DropPast(g, h, none) == [k \in Heights |-> IF k <= h + 1 THEN none ELSE g[k]]

\* sync deletes the entries of the heights up to the synchronized one.
DropUpTo(g, h, none) == [k \in Heights |-> IF k <= h THEN none ELSE g[k]]

Larger(a, b) == IF a >= b THEN a ELSE b

InitValidators ==
    /\ engine = [v \in Validator |-> <<>>]
    /\ pending = [v \in Validator |-> {}]
    /\ precommitted = [v \in Validator |-> {}]
    /\ currentViews = [v \in Validator |-> [h \in Heights |-> 0]]
    /\ locks = [v \in Validator |-> [h \in Heights |-> Nil]]
    /\ walViews = currentViews
    /\ walLocks = locks
    /\ signedVotes = [v \in Validator |-> {}]
    /\ remembered = signedVotes
    /\ rolledBack = {}

ValidatorTypeOK ==
    /\ engine \in [Validator -> State]
    /\ pending \in [Validator -> SUBSET Proposal]
    /\ precommitted \in [Validator -> SUBSET Proposal]
    /\ \A v \in Validator : precommitted[v] \subseteq pending[v]
    /\ currentViews \in [Validator -> [Heights -> Nat]]
    /\ locks \in [Validator -> [Heights -> Lock \cup {Nil}]]
    /\ walViews \in [Validator -> [Heights -> Nat]]
    /\ walLocks \in [Validator -> [Heights -> Lock \cup {Nil}]]
    /\ signedVotes \in [Validator -> SUBSET Vote]
    /\ remembered \in [Validator -> SUBSET Vote]
    /\ rolledBack \in SUBSET Validator

-----------------------------------------------------------------------------
(* The write-ahead log.  Start-up replays the whole log; walViews and        *)
(* walLocks hold what that replay has computed so far, advanced by one       *)
(* record at a time with the rule the replay loop applies to the record.     *)

\* Append of a <phase>_SIGNED record: the vote is looked up and remembered in
\* memory, then the record is fsynced, before the signature leaves.
WalSigned(v, vote) ==
    /\ ~DoubleSign(remembered[v], vote)
    /\ remembered' = [remembered EXCEPT ![v] = @ \cup {vote}]
    /\ signedVotes' = [signedVotes EXCEPT ![v] = @ \cup {vote}]
    /\ walViews' =
         IF vote.phase = "VIEW_CHANGE"
         THEN Put(walViews, v, vote.height,
                  Larger(walViews[v][vote.height], vote.view))
         ELSE walViews
    /\ walLocks' =
         IF vote.phase = "PREPARE"
         THEN Put(walLocks, v, vote.height,
                  [view |-> vote.view, proposalId |-> vote.proposalId,
                   state |-> vote.state])
         ELSE walLocks

\* Append of the HEIGHT_COMMITTED record.
WalCommitted(v, h) ==
    /\ walViews' = Put(walViews, v, h, 0)
    /\ walLocks' = Put(walLocks, v, h, Nil)
    /\ UNCHANGED <<signedVotes, remembered>>

-----------------------------------------------------------------------------
(* POST /v1/consensus/prepare                                                *)

\* Mutation of ValidViewCertificate: the certificate of the view left is asked.
ViewCertificateBehind(m) ==
    \/ m.proposal.view = 0
    \/ /\ m.viewCertificate # Nil
       /\ m.viewCertificate.view = m.proposal.view - 1
       /\ m.viewCertificate.height = HeightOf(m.proposal)

ValidViewCertificate(m) ==
    \/ m.proposal.view = 0
    \/ /\ m.viewCertificate # Nil
       /\ m.viewCertificate.view = m.proposal.view
       /\ m.viewCertificate.height = HeightOf(m.proposal)

PrepareMismatch(v, m) ==
    \/ m.proposal.view < currentViews[v][HeightOf(m.proposal)]
    \/ ~ValidViewCertificate(m)
    \/ m.proposal.beforeState # engine[v]

PendingFull(v, p) ==
    Cardinality(pending[v]) >= PendingLimit /\ p \notin pending[v]

LockedOut(v, p) ==
    LET lock == locks[v][HeightOf(p)]
    IN  lock # Nil /\ lock.state # ExpectedState(p)

ReportedState(v, p) == IF v \in FaultyRoot THEN BadRoot ELSE ExpectedState(p)

PrepareVote(v, p) ==
    voteDomain("PREPARE", HeightOf(p), p.view, p, ReportedState(v, p))

\* The three refusals, in the order the handler tests them.
PrepareRefused(v, m, r) ==
    LET p == m.proposal
    IN  /\ \/ /\ r = "STATE_MISMATCH"
              /\ PrepareMismatch(v, m)
           \/ /\ r = "PENDING_LIMIT"
              /\ ~PrepareMismatch(v, m)
              /\ PendingFull(v, p)
           \/ /\ r = "BLOCK_HASH_MISMATCH"
              /\ ~PrepareMismatch(v, m)
              /\ ~PendingFull(v, p)
              /\ LockedOut(v, p)
        /\ UNCHANGED validatorVars

\* The proposal is executed and pending; then it is signed and locked, unless
\* the WAL refuses the signature, which leaves it pending.
PrepareAccepted(v, m, r) ==
    LET p == m.proposal
        h == HeightOf(p)
    IN  /\ ~PrepareMismatch(v, m)
        /\ ~PendingFull(v, p)
        /\ ~LockedOut(v, p)
        /\ currentViews' = Put(currentViews, v, h, p.view)
        /\ pending' = [pending EXCEPT ![v] = @ \cup {p}]
        /\ precommitted' = [precommitted EXCEPT ![v] = @ \ {p}]
        /\ \/ /\ r = "DOUBLE_SIGN_PREVENTED"
              /\ DoubleSign(remembered[v], PrepareVote(v, p))
              /\ UNCHANGED <<locks, wal>>
           \/ /\ r = "VOTE"
              /\ v \notin FaultyRoot
              /\ WalSigned(v, PrepareVote(v, p))
              /\ locks' = Put(locks, v, h,
                    [view |-> p.view, proposalId |-> p, state |-> ExpectedState(p)])
           \/ /\ r = "DIVERGENT_VOTE"
              /\ v \in FaultyRoot
              /\ WalSigned(v, PrepareVote(v, p))
              /\ UNCHANGED locks
        /\ UNCHANGED <<engine, rolledBack>>

Prepare(v, m, r) == PrepareRefused(v, m, r) \/ PrepareAccepted(v, m, r)

-----------------------------------------------------------------------------
(* POST /v1/consensus/precommit                                              *)

PrecommitVote(p) ==
    voteDomain("PRECOMMIT", HeightOf(p), p.view, p, ExpectedState(p))

\* Mutation of Precommit: the proposal is installed before it is certified.
PrecommitInstalls(v, m, r) ==
    LET p == m.proposal
    IN  \/ /\ r = "PROPOSAL_UNKNOWN"
           /\ p \notin pending[v]
           /\ UNCHANGED validatorVars
        \/ /\ p \in pending[v]
           /\ r = "VOTE"
           /\ WalSigned(v, PrecommitVote(p))
           /\ precommitted' = [precommitted EXCEPT ![v] = @ \cup {p}]
           /\ engine' = [engine EXCEPT ![v] = ExpectedState(p)]
           /\ UNCHANGED <<pending, currentViews, locks, rolledBack>>

Precommit(v, m, r) ==
    LET p == m.proposal
    IN  \/ /\ r = "PROPOSAL_UNKNOWN"
           /\ p \notin pending[v]
           /\ UNCHANGED validatorVars
        \/ /\ p \in pending[v]
           /\ precommitted' = [precommitted EXCEPT ![v] = @ \cup {p}]
           /\ \/ /\ r = "DOUBLE_SIGN_PREVENTED"
                 /\ DoubleSign(remembered[v], PrecommitVote(p))
                 /\ UNCHANGED wal
              \/ /\ r = "VOTE"
                 /\ WalSigned(v, PrecommitVote(p))
           /\ UNCHANGED <<engine, pending, currentViews, locks, rolledBack>>

-----------------------------------------------------------------------------
(* POST /v1/consensus/commit.  The certificate's signatures are not checked. *)

CommitAllowed(v, m) ==
    /\ m.proposal \in precommitted[v]
    /\ m.certificate.proposalId = m.proposal
    /\ m.certificate.state = ExpectedState(m.proposal)

Commit(v, m, r) ==
    LET p == m.proposal
        h == HeightOf(p)
    IN  \/ /\ r = "COMMIT_REJECTED"
           /\ ~CommitAllowed(v, m)
           /\ UNCHANGED validatorVars
        \/ /\ r = "COMMITTED"
           /\ CommitAllowed(v, m)
           /\ engine' = [engine EXCEPT ![v] = ExpectedState(p)]
           /\ WalCommitted(v, h)
           /\ pending' = [pending EXCEPT ![v] = {}]
           /\ precommitted' = [precommitted EXCEPT ![v] = {}]
           /\ locks' = Put(locks, v, h, Nil)
           /\ currentViews' = Put(currentViews, v, h, 0)
           /\ UNCHANGED rolledBack

-----------------------------------------------------------------------------
(* POST /v1/consensus/view-change                                            *)

ViewChangeVote(m) ==
    voteDomain("VIEW_CHANGE", m.height, m.view,
               [kind |-> "VIEW_CHANGE", height |-> m.height, view |-> m.view,
                previous |-> m.previous, lockedProposalId |-> m.lockedProposalId,
                state |-> m.expectedState],
               m.expectedState)

\* A locked validator moves only with the value it holds the lock on; an
\* unlocked one with any value somebody else is locked on, or with none.
SafeViewChange(v, m) ==
    LET lock == locks[v][m.height]
    IN  \/ /\ lock = Nil
           /\ \/ m.expectedState = engine[v]
              \/ m.lockedProposalId # Nil
        \/ /\ lock # Nil
           /\ m.expectedState = lock.state
           /\ m.lockedProposalId = lock.proposalId

ViewChangeAllowed(v, m) ==
    /\ m.height = height(engine[v]) + 1
    /\ m.view > currentViews[v][m.height]
    /\ SafeViewChange(v, m)

\* The view is entered before it is signed for.
ViewChange(v, m, r) ==
    \/ /\ r = "VIEW_CHANGE_REJECTED"
       /\ ~ViewChangeAllowed(v, m)
       /\ UNCHANGED validatorVars
    \/ /\ ViewChangeAllowed(v, m)
       /\ currentViews' = Put(currentViews, v, m.height, m.view)
       /\ \/ /\ r = "DOUBLE_SIGN_PREVENTED"
             /\ DoubleSign(remembered[v], ViewChangeVote(m))
             /\ UNCHANGED wal
          \/ /\ r = "VOTE"
             /\ WalSigned(v, ViewChangeVote(m))
       /\ UNCHANGED <<engine, pending, precommitted, locks, rolledBack>>

-----------------------------------------------------------------------------
(* POST /v1/consensus/sync: any certified state replaces the validator's     *)
(* own, lower ones included; the log records nothing of it.                  *)

Extends(longer, shorter) ==
    /\ Len(shorter) <= Len(longer)
    /\ \A i \in 1..Len(shorter) : longer[i] = shorter[i]

Sync(v, m, r) ==
    \/ /\ r = "SYNC_CERTIFICATE_INVALID"
       /\ ~verifyFinalityCertificate(m.certificate, m.state, signedVotes)
       /\ UNCHANGED validatorVars
    \/ /\ r = "SYNCED"
       /\ verifyFinalityCertificate(m.certificate, m.state, signedVotes)
       /\ engine' = [engine EXCEPT ![v] = m.state]
       /\ rolledBack' = IF Extends(m.state, engine[v])
                        THEN rolledBack ELSE rolledBack \cup {v}
       /\ pending' = [pending EXCEPT ![v] = {}]
       /\ precommitted' = [precommitted EXCEPT ![v] = {}]
       /\ locks' = [locks EXCEPT ![v] = DropUpTo(@, height(m.state), Nil)]
       /\ currentViews' = [currentViews EXCEPT ![v] = DropUpTo(@, height(m.state), 0)]
       /\ UNCHANGED wal

-----------------------------------------------------------------------------
(* POST /v1/consensus/status, /checkpoint and /abort                         *)

Status(v, m, r) ==
    /\ r = IF m.state = engine[v] THEN "VOTE" ELSE "STATE_MISMATCH"
    /\ UNCHANGED validatorVars

\* The state is the coordinator's: the validator compares it with nothing.
CheckpointVote(m) ==
    voteDomain("CHECKPOINT", height(m.state), 0,
               [kind |-> "CHECKPOINT", state |-> m.state], m.state)

Checkpoint(v, m, r) ==
    /\ \/ /\ r = "DOUBLE_SIGN_PREVENTED"
          /\ DoubleSign(remembered[v], CheckpointVote(m))
          /\ UNCHANGED wal
       \/ /\ r = "VOTE"
          /\ WalSigned(v, CheckpointVote(m))
    /\ UNCHANGED <<engine, volatile, rolledBack>>

\* Mutation of Abort: the lock goes with the proposal.
AbortUnlocks(v, m, r) ==
    /\ r = "ABORTED"
    /\ pending' = [pending EXCEPT ![v] = @ \ {m.proposal}]
    /\ precommitted' = [precommitted EXCEPT ![v] = @ \ {m.proposal}]
    /\ locks' = Put(locks, v, HeightOf(m.proposal), Nil)
    /\ UNCHANGED <<engine, currentViews, wal, rolledBack>>

Abort(v, m, r) ==
    /\ r = "ABORTED"
    /\ pending' = [pending EXCEPT ![v] = @ \ {m.proposal}]
    /\ precommitted' = [precommitted EXCEPT ![v] = @ \ {m.proposal}]
    /\ UNCHANGED <<engine, currentViews, locks, wal, rolledBack>>

-----------------------------------------------------------------------------
(* The requests, the router, and a crash with the restart that follows it.   *)
(* While the process is down its requests fail: its clients see lost ones.   *)

ViewCertificate == [height : Nat, view : Nat]

NextProposal == {p \in Proposal : HeightOf(p) \in Heights}

RequestType ==
    [type : {"prepare"}, proposal : NextProposal,
     viewCertificate : ViewCertificate \cup {Nil}]
        \cup [type : {"precommit", "abort"}, proposal : NextProposal]
        \cup [type : {"commit"}, proposal : NextProposal, certificate : Certificate]
        \cup [type : {"view-change"}, height : Heights, view : Nat \ {0},
              expectedState : State, lockedProposalId : NextProposal \cup {Nil},
              previous : Certificate \cup {Nil}]
        \cup [type : {"sync"}, state : State, certificate : Certificate \cup {Nil}]
        \cup [type : {"status", "checkpoint"}, state : State]

Handle(v, m, r) ==
    \/ m.type = "prepare" /\ Prepare(v, m, r)
    \/ m.type = "precommit" /\ Precommit(v, m, r)
    \/ m.type = "commit" /\ Commit(v, m, r)
    \/ m.type = "view-change" /\ ViewChange(v, m, r)
    \/ m.type = "sync" /\ Sync(v, m, r)
    \/ m.type = "status" /\ Status(v, m, r)
    \/ m.type = "checkpoint" /\ Checkpoint(v, m, r)
    \/ m.type = "abort" /\ Abort(v, m, r)

\* The answers a handler can give.
Reply(m) ==
    CASE m.type = "prepare" ->
           {"VOTE", "DIVERGENT_VOTE", "STATE_MISMATCH", "PENDING_LIMIT",
            "BLOCK_HASH_MISMATCH", "DOUBLE_SIGN_PREVENTED"}
      [] m.type = "precommit" -> {"VOTE", "PROPOSAL_UNKNOWN", "DOUBLE_SIGN_PREVENTED"}
      [] m.type = "commit" -> {"COMMITTED", "COMMIT_REJECTED"}
      [] m.type = "view-change" ->
           {"VOTE", "VIEW_CHANGE_REJECTED", "DOUBLE_SIGN_PREVENTED"}
      [] m.type = "sync" -> {"SYNCED", "SYNC_CERTIFICATE_INVALID"}
      [] m.type = "status" -> {"VOTE", "STATE_MISMATCH"}
      [] m.type = "checkpoint" -> {"VOTE", "DOUBLE_SIGN_PREVENTED"}
      [] m.type = "abort" -> {"ABORTED"}

\* Mutation of Recover: the restart forgets the locks of the log.
RecoverUnlocked(v) ==
    /\ pending' = [pending EXCEPT ![v] = {}]
    /\ precommitted' = [precommitted EXCEPT ![v] = {}]
    /\ currentViews' = [currentViews EXCEPT ![v] = walViews[v]]
    /\ locks' = [locks EXCEPT ![v] = [h \in Heights |-> Nil]]
    /\ remembered' = [remembered EXCEPT ![v] = signedVotes[v]]

\* Mutation of Recover: the replay does not remember the votes it reads.
RecoverForgetful(v) ==
    /\ pending' = [pending EXCEPT ![v] = {}]
    /\ precommitted' = [precommitted EXCEPT ![v] = {}]
    /\ currentViews' = [currentViews EXCEPT ![v] = walViews[v]]
    /\ locks' = [locks EXCEPT ![v] = walLocks[v]]
    /\ remembered' = [remembered EXCEPT ![v] = {}]

\* Memory is rebuilt from the state file and the replayed log.
Recover(v) ==
    /\ pending' = [pending EXCEPT ![v] = {}]
    /\ precommitted' = [precommitted EXCEPT ![v] = {}]
    /\ currentViews' = [currentViews EXCEPT ![v] = walViews[v]]
    /\ locks' = [locks EXCEPT ![v] = walLocks[v]]
    /\ remembered' = [remembered EXCEPT ![v] = signedVotes[v]]

CrashRestart(v) ==
    /\ Recover(v)
    /\ UNCHANGED <<engine, walFile, rolledBack>>

\* A crash inside commit, after store.save and before HEIGHT_COMMITTED.
CommitCrash(v, m) ==
    /\ m.type = "commit"
    /\ CommitAllowed(v, m)
    /\ engine' = [engine EXCEPT ![v] = ExpectedState(m.proposal)]
    /\ Recover(v)
    /\ UNCHANGED <<walFile, rolledBack>>

\* The validators by themselves, serving any request whatsoever: what they
\* promise does not depend on the coordinator being the one of this system.
ValidatorNext ==
    \E v \in Validator :
        \/ CrashRestart(v)
        \/ \E m \in RequestType :
            \/ CommitCrash(v, m)
            \/ \E r \in Reply(m) : Handle(v, m, r)

ValidatorSpec == InitValidators /\ [][ValidatorNext]_validatorVars

-----------------------------------------------------------------------------
(* What a validator guarantees, whoever sends the requests.                  *)

\* The PREPARE vote that counts for a proposal.
PreparedVote(p) ==
    voteDomain("PREPARE", HeightOf(p), p.view, p, ExpectedState(p))

\* A validator's word counts unless it reports bad roots or was rolled back.
Trusted == Validator \ (FaultyRoot \cup rolledBack)

BlockVotes(v) == {x \in signedVotes[v] : x.phase \in {"PREPARE", "PRECOMMIT"}}

HoldsLock(lock, state) == lock # Nil /\ lock.state = state

\* v is locked on the value, in memory and in what a crash leaves it.
Locked(v, h, state) ==
    HoldsLock(locks[v][h], state) /\ HoldsLock(walLocks[v][h], state)

\* No validator ever signs two proposals in one slot (height, view, phase),
\* though a crash erases its memory and a rollback its locks.
NoDoubleSign ==
    \A v \in Validator : \A a, b \in signedVotes[v] :
        SameSlot(a, b) => a.proposalId = b.proposalId

\* v signs one value per height, in every view and phase: until it moves past
\* the height it is locked on what it signed, and it executes nothing else.
OneValue(v) ==
    /\ \A x \in BlockVotes(v) :
        /\ x.height \in Heights
        /\ x.height > height(engine[v]) => Locked(v, x.height, x.state)
    /\ \A x, y \in BlockVotes(v) : x.height = y.height => x.state = y.state
    /\ \A p \in pending[v] :
        /\ HeightOf(p) \in Heights
        /\ p.beforeState = engine[v]
        /\ Locked(v, HeightOf(p), ExpectedState(p))

\* What a restart finds in the log is what the process had in memory.
Replayed == remembered = signedVotes

\* The discipline of the locks, whoever sends the requests and whenever a
\* validator crashes.
LockInv == \A v \in Trusted : OneValue(v)
=============================================================================
