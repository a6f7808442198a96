-------------------------- MODULE NetworkConsensus --------------------------
(* The coordinator (class NetworkConsensus and the commit queue of           *)
(* server.js) driving the validators over HTTP.  The queue runs one apply at *)
(* a time; apply awaits one parallel phase after another, and between two    *)
(* awaits anything may happen to the validators, the network and the         *)
(* processes.  Each phase sends every candidate one request; the request or  *)
(* its answer may be lost, or the request may be handled after its sender    *)
(* timed out.                                                                *)
EXTENDS ConsensusValidator

CONSTANTS
    MaxAttempts,   \* turns of apply's loop: validators.length in the code
    MaxView,       \* bound: views explored
    MaxLosses,     \* bound: requests and answers lost on the way
    MaxLate,       \* bound: timed-out requests that may still be handled
    MaxCrashes,    \* bound: validator crashes
    MaxRestarts,   \* bound: coordinator crashes
    MaxFaults,     \* bound: losses and crashes of both kinds together
    Unreliable     \* validators whose losses and crashes are not counted

ASSUME CoordinatorBounds ==
    /\ {MaxView, MaxLosses, MaxLate, MaxCrashes, MaxRestarts, MaxFaults} \subseteq Nat
    /\ MaxAttempts \in 1..Cardinality(Validator)
    /\ Unreliable \subseteq Validator

VARIABLES
    pc,            \* where the coordinator awaits
    canonical,     \* the coordinator's engine state, served to clients
    view,          \* this.view
    viewCert,      \* this.lastViewCertificate
    previous,      \* previousCertificateHash: that certificate, or Nil
    lastCert,      \* lastCommit?.certificate
    prop,          \* the proposal apply works on, or Nil
    locked,        \* the lockedProposal of the view change under way, or Nil
    attempts,      \* turns of apply's loop so far
    prepared,      \* the validators whose PREPARE votes reached quorum
    divergent,     \* the validators whose status is DIVERGENT
    call,          \* call[v]: how far the phase's exchange with v has come
    late,          \* timed-out requests a validator may still handle
    disk,          \* the coordinator's state file
    certStore,     \* certStore[h]: the certificate stored for height h, or Nil
    certs,         \* history: every certificate ever built over a chain state
    losses, crashes, restarts   \* how much of the bounds is used

applyVars == <<prop, locked, attempts, prepared>>
chainVars == <<canonical, previous, lastCert, disk, certStore, certs>>
viewVars == <<view, viewCert>>
budget == <<losses, crashes, restarts>>
coordVars == <<pc, chainVars, viewVars, applyVars, divergent>>
vars == <<validatorVars, coordVars, call, late, budget>>

\* Results of an exchange; "ok" is an answer nobody counts votes in.
Pending == {"call", "health", "sync", "retry"}
Outcome == {"none", "vote", "divergent", "failed", "ok"}

Quiet == [v \in Validator |-> "none"]

Start(candidates, first) ==
    [v \in Validator |-> IF v \in candidates THEN first ELSE "none"]

\* Mutation of Settled: a failed exchange is awaited as well.
SettledWell == \A v \in Validator : call[v] \notin Pending \cup {"failed"}

Settled == \A v \in Validator : call[v] \notin Pending

Votes == {v \in Validator : call[v] = "vote"}

Init ==
    /\ InitValidators
    /\ pc = "idle"
    /\ canonical = <<>>
    /\ view = 0
    /\ viewCert = Nil
    /\ previous = Nil
    /\ lastCert = Nil
    /\ prop = Nil
    /\ locked = Nil
    /\ attempts = 0
    /\ prepared = {}
    /\ divergent = {}
    /\ call = Quiet
    /\ late = {}
    /\ disk = <<>>
    /\ certStore = [h \in Heights |-> Nil]
    /\ certs = {}
    /\ losses = 0
    /\ crashes = 0
    /\ restarts = 0

-----------------------------------------------------------------------------
(* The exchange with one validator.                                          *)

\* The request the phase at pc posts to its candidates.
Request ==
    CASE pc = "prepare" ->
           [type |-> "prepare", proposal |-> prop, viewCertificate |-> viewCert]
      [] pc = "precommit" -> [type |-> "precommit", proposal |-> prop]
      [] pc = "commit" ->
           [type |-> "commit", proposal |-> prop, certificate |-> lastCert]
      [] pc = "abort" -> [type |-> "abort", proposal |-> prop]
      [] pc = "view-change" ->
           [type |-> "view-change",
            height |-> height(canonical) + 1, view |-> view + 1,
            expectedState |->
                IF locked = Nil THEN canonical ELSE ExpectedState(locked),
            lockedProposalId |-> locked, previous |-> previous]
      [] pc = "certify" -> [type |-> "checkpoint", state |-> canonical]
      [] pc \in {"resync", "status"} -> [type |-> "status", state |-> canonical]

StoredCertificate ==
    IF canonical = <<>> \/ certStore[height(canonical)] = Nil
    THEN lastCert ELSE certStore[height(canonical)]

SyncRequest ==
    [type |-> "sync", state |-> canonical, certificate |-> StoredCertificate]

\* What is on its way to v: the sync, or the phase's own request.
InFlight(v) == IF call[v] = "sync" THEN SyncRequest ELSE Request

\* Mutation of AfterAnswer: a vote for another root counts.
AfterAnswerAnyRoot(v, r) ==
    CASE r = "SYNCED" -> IF pc = "resync" THEN "ok" ELSE "retry"
      [] r \in {"COMMITTED", "COMMIT_REJECTED", "ABORTED"} -> "ok"
      [] r \in {"VOTE", "DIVERGENT_VOTE"} -> "vote"
      [] r = "STATE_MISMATCH" /\ call[v] = "call" -> "health"
      [] OTHER -> "failed"

\* phase() on an answer: a vote that verifies counts, one that does not makes
\* the validator divergent, a first state mismatch starts a sync and a retry.
AfterAnswer(v, r) ==
    CASE r = "SYNCED" -> IF pc = "resync" THEN "ok" ELSE "retry"
      [] r \in {"COMMITTED", "COMMIT_REJECTED", "ABORTED"} -> "ok"
      [] r = "VOTE" -> "vote"
      [] r = "DIVERGENT_VOTE" -> "divergent"
      [] r = "STATE_MISMATCH" /\ call[v] = "call" -> "health"
      [] OTHER -> "failed"

FaultsLeft == losses + crashes + restarts < MaxFaults

Lose(v) ==
    /\ v \in Unreliable \/ (losses < MaxLosses /\ FaultsLeft)
    /\ losses' = IF v \in Unreliable THEN losses ELSE losses + 1
    /\ UNCHANGED <<crashes, restarts>>

\* v handles the request and its answer arrives, or is lost.
Answer(v) ==
    /\ call[v] \in {"call", "sync", "retry"}
    /\ \E r \in Reply(InFlight(v)) :
        /\ Handle(v, InFlight(v), r)
        /\ \/ /\ call' = [call EXCEPT ![v] = AfterAnswer(v, r)]
              /\ UNCHANGED budget
           \/ /\ AfterAnswer(v, r) # "ok"
              /\ Lose(v)
              /\ call' = [call EXCEPT ![v] = "failed"]
    /\ UNCHANGED <<coordVars, late>>

\* The sender times out before v handles the request, which never arrives or
\* arrives late.
TimeOut(v) ==
    /\ call[v] \in {"call", "sync", "retry"}
    /\ Lose(v)
    /\ call' = [call EXCEPT ![v] = "failed"]
    /\ \/ UNCHANGED late
       \/ /\ Cardinality(late) < MaxLate
          /\ late' = late \cup {<<v, InFlight(v)>>}
    /\ UNCHANGED <<validatorVars, coordVars>>

HandleLate(d) ==
    /\ d \in late
    /\ \E r \in Reply(d[2]) : Handle(d[1], d[2], r)
    /\ late' = late \ {d}
    /\ UNCHANGED <<coordVars, call, budget>>

\* syncValidator: GET /health, then either nothing to do or a sync, which
\* needs the certificate of the canonical state.  A failed GET also syncs.
Health(v) ==
    LET needsSync == IF canonical # <<>> /\ (StoredCertificate = Nil
                                             \/ StoredCertificate.state # canonical)
                     THEN "failed" ELSE "sync"
    IN  /\ call[v] = "health"
        /\ \/ /\ call' = [call EXCEPT ![v] =
                    IF engine[v] # canonical THEN needsSync
                    ELSE IF pc = "resync" THEN "ok" ELSE "retry"]
              /\ UNCHANGED budget
           \/ /\ Lose(v)
              /\ call' = [call EXCEPT ![v] = needsSync]
    /\ UNCHANGED <<validatorVars, coordVars, late>>

\* A validator process dies and restarts, between two requests or within a
\* commit.
CrashBudget(v) ==
    /\ v \in Unreliable \/ (crashes < MaxCrashes /\ FaultsLeft)
    /\ crashes' = IF v \in Unreliable THEN crashes ELSE crashes + 1
    /\ UNCHANGED <<losses, restarts>>

ValidatorCrash(v) ==
    /\ CrashBudget(v)
    /\ CrashRestart(v)
    /\ UNCHANGED <<coordVars, call, late>>

ValidatorCommitCrash(v) ==
    /\ pc = "commit"
    /\ call[v] = "call"
    /\ CrashBudget(v)
    /\ CommitCrash(v, Request)
    /\ call' = [call EXCEPT ![v] = "failed"]
    /\ UNCHANGED <<coordVars, late>>

-----------------------------------------------------------------------------
(* apply                                                                     *)

Proposer(w) == selectProposer(height(canonical) + 1, w, previous)

Propose(tx, w) ==
    [view |-> w, beforeState |-> canonical, tx |-> tx, proposer |-> Proposer(w)]

\* A client's transition reaches the head of the commit queue.
Submit(tx) ==
    /\ pc = "idle"
    /\ height(canonical) < MaxHeight
    /\ view + MaxAttempts <= MaxView
    /\ Proposer(view) # Nil
    /\ pc' = "propose"
    /\ prop' = Propose(tx, view)
    /\ attempts' = 1
    /\ UNCHANGED <<validatorVars, chainVars, viewVars, locked, prepared,
                   divergent, call, late, budget>>

\* The next phase of exchanges.
Enter(next, candidates, first) ==
    /\ pc' = next
    /\ call' = Start(candidates, first)

\* apply returned or threw (or the process died): nothing is under way.
Leave(next) ==
    /\ pc' = next
    /\ call' = Quiet
    /\ prop' = Nil
    /\ locked' = Nil
    /\ attempts' = 0
    /\ prepared' = {}

\* Statuses are assigned to the phase's candidates when all have settled.
NewDivergent ==
    (divergent \ {v \in Validator : call[v] # "none"})
        \cup {v \in Validator : call[v] = "divergent"}

ProposerUp ==
    /\ pc = "propose"
    /\ Enter("prepare", Validator, "call")
    /\ UNCHANGED <<validatorVars, chainVars, viewVars, applyVars, divergent,
                   late, budget>>

\* GET /health of the proposer fails: change the view, no value attached.
ProposerDown ==
    /\ pc = "propose"
    /\ Lose(prop.proposer)
    /\ divergent' = divergent \ {prop.proposer}
    /\ Enter("view-change", Validator \ divergent', "call")
    /\ UNCHANGED <<validatorVars, chainVars, viewVars, applyVars, late>>

\* Mutation of PrepareQuorum: the state is saved before it is certified.
PrepareQuorumSaves ==
    /\ pc = "prepare"
    /\ Settled
    /\ HasQuorum(Votes)
    /\ prepared' = Votes
    /\ divergent' = NewDivergent
    /\ disk' = ExpectedState(prop)
    /\ Enter("precommit", Votes, "call")
    /\ UNCHANGED <<validatorVars, canonical, previous, lastCert, certStore, certs,
                   viewVars, prop, locked, attempts, late, budget>>

PrepareQuorum ==
    /\ pc = "prepare"
    /\ Settled
    /\ HasQuorum(Votes)
    /\ prepared' = Votes
    /\ divergent' = NewDivergent
    /\ Enter("precommit", Votes, "call")
    /\ UNCHANGED <<validatorVars, chainVars, viewVars, prop, locked, attempts,
                   late, budget>>

\* Abort, then change the view, attaching the value if anyone prepared it.
PrepareShort ==
    /\ pc = "prepare"
    /\ Settled
    /\ ~HasQuorum(Votes)
    /\ locked' = IF Votes = {} THEN Nil ELSE prop
    /\ divergent' = NewDivergent
    /\ Enter("abort", Validator, "call")
    /\ UNCHANGED <<validatorVars, chainVars, viewVars, prop, attempts, prepared,
                   late, budget>>

PrecommitShort ==
    /\ pc = "precommit"
    /\ Settled
    /\ ~HasQuorum(Votes)
    /\ locked' = prop
    /\ divergent' = NewDivergent
    /\ Enter("abort", Validator, "call")
    /\ UNCHANGED <<validatorVars, chainVars, viewVars, prop, attempts, prepared,
                   late, budget>>

Aborted ==
    /\ pc = "abort"
    /\ Settled
    /\ Enter("view-change", Validator \ divergent, "call")
    /\ UNCHANGED <<validatorVars, chainVars, viewVars, applyVars, divergent,
                   late, budget>>

\* The certificate exists: the coordinator's chain advances before any
\* validator hears of it.
PrecommitQuorum ==
    /\ pc = "precommit"
    /\ Settled
    /\ HasQuorum(Votes)
    /\ LET c == buildCertificate("PRECOMMIT", HeightOf(prop), view, prop,
                                 ExpectedState(prop), Votes)
       IN  /\ previous' = c
           /\ lastCert' = c
           /\ certs' = certs \cup {c}
    /\ canonical' = ExpectedState(prop)
    /\ divergent' = NewDivergent
    /\ Enter("commit", prepared, "call")
    /\ UNCHANGED <<validatorVars, viewVars, applyVars, late, budget, disk, certStore>>

\* Mutation of CommitsSent: the certificate is stored before the state.
CommitsSentStored ==
    /\ pc = "commit"
    /\ Settled
    /\ view' = 0
    /\ viewCert' = Nil
    /\ certStore' = [certStore EXCEPT ![lastCert.height] = lastCert]
    /\ Enter("save", {}, "call")
    /\ UNCHANGED <<validatorVars, canonical, previous, lastCert, disk, certs,
                   applyVars, divergent, late, budget>>

CommitsSent ==
    /\ pc = "commit"
    /\ Settled
    /\ view' = 0
    /\ viewCert' = Nil
    /\ Enter("save", {}, "call")
    /\ UNCHANGED <<validatorVars, chainVars, applyVars, divergent, late, budget>>

\* Mutation of AnotherTurn: one turn too many.
AnotherTurnTooMany == attempts <= MaxAttempts /\ Proposer(view + 1) # Nil

AnotherTurn == attempts < MaxAttempts /\ Proposer(view + 1) # Nil

\* advanceView with a quorum: the next turn of the loop, if there is one.
ViewAdvanced ==
    /\ pc = "view-change"
    /\ Settled
    /\ HasQuorum(Votes)
    /\ view' = view + 1
    /\ viewCert' = [height |-> height(canonical) + 1, view |-> view + 1]
    /\ divergent' = NewDivergent
    /\ \/ /\ AnotherTurn
          /\ attempts' = attempts + 1
          /\ prop' = Propose(prop.tx, view + 1)
          /\ locked' = Nil
          /\ prepared' = {}
          /\ Enter("propose", {}, "call")
       \/ /\ ~AnotherTurn
          /\ Leave("idle")
    /\ UNCHANGED <<validatorVars, chainVars, late, budget>>

\* Without one, apply fails and this.view stays, whatever view the validators
\* that voted have entered.
ViewStuck ==
    /\ pc = "view-change"
    /\ Settled
    /\ ~HasQuorum(Votes)
    /\ divergent' = NewDivergent
    /\ Leave("idle")
    /\ UNCHANGED <<validatorVars, chainVars, viewVars, late, budget>>

-----------------------------------------------------------------------------
(* performCommit after apply, the coordinator's crash and its initialize.    *)

SaveState ==
    /\ pc = "save"
    /\ disk' = canonical
    /\ pc' = "persist"
    /\ UNCHANGED <<validatorVars, canonical, previous, lastCert, certStore, certs,
                   viewVars, applyVars, divergent, call, late, budget>>

\* CertificateStore.append refuses a second certificate for a height.
Stored(c) ==
    IF certStore[c.height] = Nil
    THEN [certStore EXCEPT ![c.height] = c] ELSE certStore

PersistLastCertificate ==
    /\ pc = "persist"
    /\ certStore' = Stored(lastCert)
    /\ Leave("idle")
    /\ UNCHANGED <<validatorVars, canonical, previous, lastCert, disk, certs,
                   viewVars, divergent, late, budget>>

\* Mutation of load: a last block without a stored certificate is dropped.
loadCertified ==
    IF disk # <<>> /\ certStore[height(disk)] = Nil
    THEN SubSeq(disk, 1, Len(disk) - 1) ELSE disk

\* StateStore.load: the chain the state file holds.
load == disk

\* The process dies; what it sent may still be handled.  The new process
\* reads the state file and the certificate store: the parent certificate is
\* restored when it certifies exactly the state read.
CoordinatorCrash ==
    /\ pc # "down"
    /\ restarts < MaxRestarts
    /\ FaultsLeft
    /\ restarts' = restarts + 1
    /\ \E sent \in SUBSET {v \in Validator : call[v] \in {"call", "sync", "retry"}} :
        /\ late' = late \cup {<<v, InFlight(v)>> : v \in sent}
        /\ Cardinality(late') <= MaxLate
    /\ Leave("down")
    /\ canonical' = load
    /\ previous' = LET c == IF load = <<>> THEN Nil ELSE certStore[height(load)]
                   IN  IF c # Nil /\ c.state = load THEN c ELSE Nil
    /\ lastCert' = Nil
    /\ view' = 0
    /\ viewCert' = Nil
    /\ divergent' = {}
    /\ UNCHANGED <<validatorVars, disk, certStore, certs, losses, crashes>>

\* initialize: a state without its certificate is certified as a checkpoint.
Boot ==
    /\ pc = "down"
    /\ IF canonical # <<>> /\ previous = Nil
       THEN Enter("certify", Validator, "call")
       ELSE Enter("resync", Validator, "health")
    /\ UNCHANGED <<validatorVars, chainVars, viewVars, applyVars, divergent,
                   late, budget>>

Certified ==
    /\ pc = "certify"
    /\ Settled
    /\ HasQuorum(Votes)
    /\ LET c == buildCertificate("CHECKPOINT", height(canonical), 0,
                                 [kind |-> "CHECKPOINT", state |-> canonical],
                                 canonical, Votes)
       IN  /\ previous' = c
           /\ certs' = certs \cup {c}
           /\ certStore' = Stored(c)
    /\ Enter("resync", Validator, "health")
    /\ UNCHANGED <<validatorVars, canonical, lastCert, disk, viewVars, applyVars,
                   divergent, late, budget>>

\* CONSENSUS_CHECKPOINT_QUORUM: the server does not start.
CertifyShort ==
    /\ pc = "certify"
    /\ Settled
    /\ ~HasQuorum(Votes)
    /\ Leave("down")
    /\ UNCHANGED <<validatorVars, chainVars, viewVars, divergent, late, budget>>

Resynced ==
    /\ pc = "resync"
    /\ Settled
    /\ Enter("status", {v \in Validator : call[v] = "ok"}, "call")
    /\ UNCHANGED <<validatorVars, chainVars, viewVars, applyVars, divergent,
                   late, budget>>

\* The server starts to listen whether or not the status quorum was reached.
Restored ==
    /\ pc = "status"
    /\ Settled
    /\ lastCert' = IF HasQuorum(Votes) THEN previous ELSE lastCert
    /\ divergent' = NewDivergent
    /\ Leave("idle")
    /\ UNCHANGED <<validatorVars, canonical, previous, disk, certStore, certs,
                   viewVars, late, budget>>

-----------------------------------------------------------------------------
Exchange(v) == Answer(v) \/ Health(v)

Coordinate ==
    \/ ProposerUp
    \/ PrepareQuorum
    \/ PrepareShort
    \/ PrecommitQuorum
    \/ PrecommitShort
    \/ Aborted
    \/ ViewAdvanced
    \/ ViewStuck
    \/ CommitsSent
    \/ SaveState
    \/ PersistLastCertificate
    \/ Boot
    \/ Certified
    \/ CertifyShort
    \/ Resynced
    \/ Restored

Fault ==
    \/ ProposerDown
    \/ CoordinatorCrash
    \/ \E v \in Validator :
        \/ TimeOut(v)
        \/ ValidatorCrash(v)
        \/ ValidatorCommitCrash(v)
    \/ \E d \in late : HandleLate(d)

\* The coordinator at rest: nobody submits, or a bound is reached.
Done ==
    /\ pc = "idle"
    /\ UNCHANGED vars

Next ==
    \/ \E tx \in Tx : Submit(tx)
    \/ \E v \in Validator : Exchange(v)
    \/ Coordinate
    \/ Fault
    \/ Done

Spec == Init /\ [][Next]_vars

\* Every request is answered or times out, apply runs on, and clients keep
\* submitting.  Nothing obliges a fault to happen.
Fairness ==
    /\ WF_vars(Coordinate)
    /\ \A v \in Validator : WF_vars(Exchange(v))
    /\ WF_vars(\E tx \in Tx : Submit(tx))

FairSpec == Spec /\ Fairness

-----------------------------------------------------------------------------
(* What the protocol promises.                                               *)

Phase == {"idle", "propose", "prepare", "abort", "view-change", "precommit",
          "commit", "save", "persist", "down", "certify", "resync", "status"}

\* Phases in which apply is at work on a proposal.
Applying == {"propose", "prepare", "abort", "view-change", "precommit"}

TypeOK ==
    /\ ValidatorTypeOK
    /\ pc \in Phase
    /\ canonical \in State
    /\ disk \in State
    /\ height(canonical) <= MaxHeight
    /\ height(disk) <= MaxHeight
    /\ view \in Nat
    /\ viewCert \in ViewCertificate \cup {Nil}
    /\ previous \in Certificate \cup {Nil}
    /\ lastCert \in Certificate \cup {Nil}
    /\ prop \in NextProposal \cup {Nil}
    /\ locked \in NextProposal \cup {Nil}
    /\ attempts \in 0..MaxAttempts
    /\ prepared \in SUBSET Validator
    /\ divergent \in SUBSET Validator
    /\ call \in [Validator -> Pending \cup Outcome]
    /\ late \in SUBSET (Validator \X RequestType)
    /\ certStore \in [Heights -> Certificate \cup {Nil}]
    /\ certs \in SUBSET Certificate
    /\ losses \in Nat
    /\ crashes \in Nat
    /\ restarts \in Nat

\* Any two quorums share a trusted validator.
QuorumsMeet ==
    \A Q, R \in Quorum : Q \cap R \cap Trusted # {}

\* No two certificates, whatever their view or phase, certify different
\* states at one height: the claim the documents make.
CertificatesAgree ==
    \A c, d \in certs : c.height = d.height => c.state = d.state

\* What the locks give: certificates agree through lost and late messages and
\* crashes of validators and coordinator, as long as syncs have not rolled
\* back so many validators that two quorums can meet in those alone.
CertificatesAgreeUnlessRolledBack == CertificatesAgree \/ ~QuorumsMeet

\* A certified value survives its certificate: each trusted signer has either
\* moved on to that height or holds the value locked, in memory and in its
\* WAL, where a crash cannot lose it.
CertifiedValueHeld ==
    \A c \in certs : c.phase = "PRECOMMIT" =>
        \A v \in c.voters \cap Trusted :
            \/ height(engine[v]) >= c.height
            \/ Locked(v, c.height, c.state)

OneStatePerHeight ==
    \A u, v \in Validator :
        height(engine[u]) = height(engine[v]) => engine[u] = engine[v]

\* So replicas agree: two validators at one height are in one state.
ReplicasAgree == OneStatePerHeight \/ ~QuorumsMeet

FewUntrusted == 3 * votePower(Validator \ Trusted) <= votePower(Validator)

\* In terms of voting power, as P2P_CONSENSUS_DESIGN.md:7 counts: while those
\* that report bad roots or were rolled back hold a third of it at most, no two
\* certificates and no two replicas disagree.  It is quorumPower that makes it so.
SafeBelowAThird == FewUntrusted => CertificatesAgree /\ OneStatePerHeight

Certifies(state) == \E c \in certs : c.state = state

\* A validator holds only states some quorum certified, although commit does
\* not verify the signatures of the certificate it is given.
EnginesCertified ==
    \A v \in Validator :
        engine[v] # <<>> => Certifies(engine[v])

\* Whoever signed a finality certificate had, in that view, signed a PREPARE of
\* the same proposal with the same state: a validator that reports bad roots is
\* in none, although it executes what it is asked to precommit.
CertifiedWasPrepared ==
    \A c \in certs : c.phase = "PRECOMMIT" =>
        \A v \in c.voters :
            voteDomain("PREPARE", c.height, c.view, c.proposalId, c.state)
                \in signedVotes[v]

\* A checkpoint certifies only what a finality certificate certified before,
\* although a validator signs a checkpoint for any state it is sent.
CheckpointsRepeatFinality ==
    \A c \in certs : c.phase = "CHECKPOINT" =>
        \E d \in certs :
            d.phase = "PRECOMMIT" /\ d.height = c.height /\ d.state = c.state

\* The durable certificate of a height is never ahead of the durable state
\* nor about another chain, so a restart restores the right parent.
StoreFollowsDisk ==
    \A h \in Heights : certStore[h] # Nil =>
        /\ certStore[h].height = h
        /\ h <= height(disk)
        /\ certStore[h].state = SubSeq(disk, 1, h)

\* What a client was told is committed stays: the coordinator's durable chain
\* only grows, over crashes at any point of the commit.
DurableChainGrows == [][Extends(disk', disk)]_vars

-----------------------------------------------------------------------------
(* The invariant that carries the safety proofs.                             *)

\* What the coordinator's position says about the variables it works on.
Control ==
    /\ pc \in {"idle", "propose", "save", "persist", "down"} => Settled
    /\ pc \in Applying =>
        /\ prop # Nil
        /\ prop.view = view
        /\ prop.beforeState = canonical
        /\ canonical = disk
    /\ pc \in {"commit", "save", "persist"} =>
        /\ prop # Nil
        /\ lastCert \in certs
        /\ lastCert.state = canonical
        /\ lastCert.height = height(canonical)
    /\ pc \in {"commit", "save"} =>
        \E tx \in Tx : canonical = Append(disk, tx)
    /\ pc \notin {"commit", "save"} => canonical = disk
    /\ pc \in {"commit", "save", "persist", "certify"} => canonical # <<>>

\* A PRECOMMIT vote the coordinator counts was signed.
CountedVotesSigned ==
    pc = "precommit" =>
        \A v \in Votes : PrecommitVote(prop) \in signedVotes[v]

\* A PREPARE vote the coordinator counts was signed for the state expected, and
\* only whoever signed it is asked for a PRECOMMIT vote.
PreparedSigned ==
    /\ pc = "prepare" =>
        \A v \in Votes : PreparedVote(prop) \in signedVotes[v]
    /\ pc = "precommit" =>
        \A v \in Validator :
            call[v] # "none" => PreparedVote(prop) \in signedVotes[v]

\* A finality certificate holds the signatures of a quorum; a checkpoint
\* certificate repeats the value of a finality certificate.
CertificatesBacked ==
    \A c \in certs :
        /\ c.height = height(c.state)
        /\ c.phase = "PRECOMMIT" =>
            c.voters \in Quorum /\ \A v \in c.voters : CertifiedVote(c) \in signedVotes[v]
        /\ \E d \in certs :
            d.phase = "PRECOMMIT" /\ d.height = c.height /\ d.state = c.state

\* Requests carry certificates that exist and states that are certified.
RequestBacked(m) ==
    /\ m.type = "commit" => m.certificate \in certs
    /\ m.type = "sync" /\ m.state # <<>> => Certifies(m.state)

StatesCertified ==
    /\ canonical # <<>> => Certifies(canonical)
    /\ disk # <<>> => Certifies(disk)
    /\ \A d \in late : RequestBacked(d[2])

IInv ==
    /\ TypeOK
    /\ Replayed
    /\ LockInv
    /\ Control
    /\ PreparedSigned
    /\ CountedVotesSigned
    /\ CertifiedWasPrepared
    /\ CertificatesBacked
    /\ StatesCertified
    /\ EnginesCertified

\* Each apply ends: the commit queue is never blocked for good.
EveryApplyAnswered == (pc = "propose") ~> (pc \in {"idle", "down"})

\* Clients that keep submitting see the chain grow to any height.
ChainGrows == <>(height(canonical) = MaxHeight)
=============================================================================
