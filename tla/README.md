# A verification of AEL

TLA+ modules, TLC runs and TLAPS proofs for the agent-native blockchain AEL
(paths below are relative to the repository; `network-consensus.js:84` is
`src/network-consensus.js`, line 84). Four parts are verified. The
Byzantine fault-tolerant commit path: the coordinator inside the server, the consensus
validators it drives over HTTP, their write-ahead logs, and what is left of
everything after a crash. The replicas: followers that download the certified state from the
server or from one another, and what they show to their readers. The work-order market of the
engine: funding, verification, escrow and disputes. And its interchain part: external
proofs, and the value that is admitted on them. The rest is inventoried here.

## 1. The system

### 1.1 Components, their state and how they interact

A client posts a *transition* to the server (`server.js`). The server runs one
commit at a time behind the promise chain `commitTail`: the consensus object applies the
transition, then the state file is written, then the finality certificate is
appended. In the network profile the consensus object is the *coordinator*
(`NetworkConsensus`); it has the transition prepared, precommitted and committed
by *consensus validators*, processes of their own with an engine, a state file and
a write-ahead log each. *Followers* download the certified state. Every replica
runs the same deterministic *engine*, the single reducer for all business
operations.

| Component | State | Operations | Talks to |
|---|---|---|---|
| Consensus primitives (`consensus-primitives.js`) | WAL file and the votes it remembers | votePower, quorumPower, selectProposer, voteDomain, rememberVote, append, buildCertificate, verifyFinalityCertificate | used by coordinator, validators, followers |
| Validator (`consensus-validator.js`) | engine, state file, pending proposals, locks and views per height, WAL | status, prepare, precommit, commit, view-change, sync, checkpoint, abort; replay at start | answers the coordinator over HTTP |
| Coordinator (`network-consensus.js`) | canonical engine, view, view certificate, parent certificate, last commit, validator statuses | initialize, apply, advanceView, phase, syncValidator, abort, certifyCheckpoint, persistLastCertificate, activateMainnet | HTTP to validators, certificate store, called by the commit queue |
| Certificate store (`certificate-store.js`) | one certificate per height, append-only file | append, atHeight, page | coordinator, certificate API |
| State store (`store.js`) | one JSON file | load, save (write and rename) | server, validators |
| Commit queue (`server.js:22-24,236`) | `commitTail` | performCommit, commit | routes, consensus, store |
| Local consensus (`consensus.js`) | in-process replicas | apply to every replica, compare roots | engine |
| Engine frame, authorities, intents (`engine.js:17-32`) | actors, nonces, capabilities, intents, applications, invitations | apply with rollback, bootstrap, register, grant and revoke, signed intents with limits | all operations go through it |
| Accounts, curve, tokens | balances, agent curves, reserves, tokens | faucet, transfer, buy, sell, createToken, mint, transfer, burn | moves native units |
| Work orders (`engine.js:49-90`) | orders, escrow, results, verifiers, votes, receipts, disputes, referrals | createWorkOrder, acceptWork, submitWorkResult, registerVerifier, voteWork, settleVerifiedWork, finalizeReceipt, openDispute, resolveDispute | accounts, agents, curve (earned admission) |
| Interchain | observers, proofs, nullifiers, routes, lineages | submit and attest a proof, challenge, admit earned, release external | external reserve of the curve |
| Runtime and memory | providers, leases, usage, checkpoints, handovers | open and renew a lease, usage, failover, checkpoint, prepare and finalize a handover | balances |
| Governance and contributions | proposals, votes, timelock, contributions, releases, covenants | propose, vote, execute; contribution stages | parameters |
| Staking and rewards | stakes, delegations, evidence, slashed, pools | delegate, undelegate, evidence, fund, claim | balances |
| Validator governance (`validator-governance.js`) | epochs, pending sets | propose set, readiness, activate | nothing in `src/` calls it outside tests yet |
| State sync and follower (`state-sync.js`, `validator-node.js`) | downloaded state, certificate, chunk cache | manifest agreement, chunks, checkpoint verification, follow loop | server, other sources |
| Server routes and onboarding (`server.js`) | request handlers | onboarding is several commits in sequence (`server.js:150-162`) | commit queue |
| Clients, SDKs, discovery, gateway, wallet, pages, scripts | none that is shared | read-only views and HTTP clients | server |

### 1.2 What is hard

* *Interleaving*: `apply` awaits one parallel phase after another. Within a phase
  the coordinator talks to every validator independently, may synchronize one and
  retry it (`network-consensus.js:241`) while others answer.
* *Late messages*: a request that timed out on the coordinator's side is still handled
  by the validator (`network-consensus.js:20`), phases or heights later.
* *Crashes*: validators recover locks and views from the log, the coordinator
  recovers the chain from the state file and the parent certificate from the store. Views,
  statuses and the last commit are memory only. Commit requests leave before the
  coordinator's state is on disk (`network-consensus.js:469`, `server.js:23`).
* *State replacement*: `sync` replaces a validator's chain with any certified one, a
  shorter one included (`consensus-validator.js:131`).
* *Progress*: an unavailable proposer, a lost vote or a value locked at some of the
  validators must still lead to a view in which a quorum agrees; the commit queue
  must not be blocked by one apply.
* *Downloads while the source moves on*: a follower asks for the validator set, the
  manifests, the certificate and each chunk one after another, of several sources, while
  these commit, forget checkpoints or restart (`state-sync.js:94-150`); and it writes two
  files that belong together, one after the other (`validator-node.js:88`).
* In the engine, not concurrency but *long sequences of legal calls*: a dispute
  over a paid order, a receipt under an id in use, a challenge after a reserve was drained, slashing followed by
  undelegation, a failover in the middle of a handover.

`PROJECT.json` lists each hazard at its line with the property that catches it.

### 1.3 What makes each component correct

| Component | Properties |
|---|---|
| Validators | never two signatures in one slot; one value per height over all views; a lock survives everything but its height |
| Coordinator | certificates of one height agree; what is certified stays held by its signers; each apply ends; the chain grows |
| Persistence | the durable chain only grows; the certificate store is never ahead of it |
| Replicas | only certified states; equal heights, equal states |
| Work orders | native units are conserved; an escrow is paid out once and as a whole; votes are independent of the parties; referrals are earned |
| Interchain | evidence is proof once; real value has independent witnesses; reserves and caps agree with the lineages; nothing active rests on fraud, and quarantine is final |
| Sync and follower | chunks of two heights are never mixed; what a replica shows under a certificate is a growing prefix of the durable chain; followers catch up |
| Engine, the rest (no module yet) | nonces and limits; no state from which value can never move again |
| Staking (no module yet) | nothing slashed is paid back |
| Runtime (no module yet) | one writer of an agent's memory; a handover finalizes what it prepared |

## 2. The modules

| Module | Models | Lines of code behind it |
|---|---|---|
| `ConsensusPrimitives` | quorum, proposer draw, votes, double-sign rule, certificates | `consensus-primitives.js` |
| `ConsensusValidator` | one validator process: eight handlers, WAL and its replay, crash | `consensus-validator.js`, WAL part of `consensus-primitives.js` |
| `NetworkConsensus` | the coordinator, the commit queue, the network and persistence, composed with the validators | `network-consensus.js`, `certificate-store.js`, `store.js`, `server.js:22-24` |
| `MCNetworkConsensus` | instances for TLC: powers, draws, symmetry | |
| `ConsensusValidatorProofs` | theorems about a validator whoever drives it | |
| `NetworkConsensusProofs` | theorems about the whole system, refinement | |
| `ConsensusPrimitivesProofs` | theorems about quorums, powers and the draw | |
| `FiniteSums` | sums over finite sets, for the proofs about powers, units and reserves | |
| `EscrowLedger` | the abstract ledger: units are issued, moved, held for an order and released once | what `engine.js:49-90` promises |
| `WorkOrders` | accounts, orders, verification, settlement, disputes | `engine.js:43,49-90,120,207` |
| `MCWorkOrders` | instances for TLC: relations, groups and committee orders of the verifiers | |
| `WorkOrdersProofs` | theorems about the market, refinement of the ledger | |
| `StateSync` | the Merkle root, checkpoints, their verification, the sources that agree | `state-sync.js` |
| `Replicas` | the server as a source, followers, their rounds, files and crashes | `validator-node.js`, `state-sync.js:94-150`, `server.js:22-24,66,88-89,129-130`, `certificate-store.js` |
| `FinalizedView` | the abstract promise to readers: growing prefixes of one durable chain | what `validator-node.js:39` calls CERTIFICATE_FINALIZED |
| `MCReplicas` | instances for TLC: who follows whom; `merkleRoot` against its reference | |
| `ReplicasProofs` | theorems about replicas, refinement of the finalized view | |
| `Interchain` | routes, observers, proofs, lineages, reserves, challenges | `engine.js:91-134,170,210-212` |
| `MCInterchain` | instance for TLC: two routes, three observers of two groups | |
| `InterchainProofs` | theorems about proofs and what rests on them | |

### 2.1 ConsensusPrimitives

A hash is modelled by the value it commits to: a chain state stands for its state
root, a proposal record for its `proposalId`. Equal hashes therefore mean equal
values; collisions are outside the model. A chain state is the sequence of transitions
committed to it. A signature verifies exactly when its signer signed the vote, that
is, when the vote is in `signedVotes[v]`. The proposer is drawn by walking the
cumulated powers up to a point; the point, a hash modulo the total power, is the
constant `Draw`, so the theorems hold for any draw.

### 2.2 ConsensusValidator

Each operator `H(v, m, r)` is a whole handler: validator `v` takes request `m` and
answers `r`. The handlers have no `await` between the parsed body and the reply, so
each is one step. Refusals are disjuncts in the order the code tests them. Three
details of the code matter and are kept: `prepare` makes a proposal pending *before*
the log may refuse the signature, `view-change` enters the view *before* it signs,
and `sync` writes no log record.

| Variable | Code |
|---|---|
| `engine` | `engine.state` and the state file. Every handler that changes the one saves the other before it returns; the single point in between is the action `CommitCrash` |
| `pending`, `precommitted` | the map `pending` and its flag |
| `currentViews`, `locks` | the maps of the same names, one entry per height |
| `walViews`, `walLocks` | what a replay of the log yields (`consensus-validator.js:37-60`), advanced record by record with the rule of the replay loop |
| `signedVotes` | the votes in the log: every one that was ever signed |
| `remembered` | `wal.signedVotes`, the map in memory that `rememberVote` compares a vote with; a restart rebuilds it from the log |
| `rolledBack` | history variable: who installed a state that does not extend its own |

`ValidatorSpec` is the abstract specification of a validator: any number of
them, served *any* well-formed request in any order and crashing at any step. What it promises
does not depend on the coordinator.

### 2.3 NetworkConsensus

`pc` is where the coordinator awaits. `apply` is the path `propose`, `prepare`,
`precommit`, `commit`; the failure path is `abort`, `view-change` and back to `propose`;
`save` and `persist` are the two writes of `performCommit`; `down`, `certify`,
`resync` and `status` are the start (`initialize`). `call[v]` is the state of the
phase's exchange with `v`: `call` or `retry` (the phase's request), `health` and
`sync` (`syncValidator`), then a result. A phase ends when no exchange is
pending (`Promise.all`).

| Actions | Code |
|---|---|
| `Submit` | head of the commit queue, first turn of `apply` |
| `ProposerUp`, `ProposerDown` | the health probe of the selected proposer |
| `PrepareQuorum`, `PrepareShort`, `PrecommitQuorum`, `PrecommitShort`, `Aborted`, `CommitsSent` | what follows each phase in `apply` |
| `ViewAdvanced`, `ViewStuck` | `advanceView` and the next turn, or the error |
| `SaveState`, `PersistLastCertificate` | `store.save`, `persistLastCertificate` |
| `Boot`, `Certified`, `CertifyShort`, `Resynced`, `Restored` | `initialize` |
| `Answer`, `Health` | `phase` and `syncValidator` with one validator |
| `TimeOut`, `HandleLate` | a lost request, or one that outlives its sender's time-out |
| `ValidatorCrash`, `ValidatorCommitCrash`, `CoordinatorCrash` | crash and restart |

Abstractions, with their reasons:

* Transitions are model values; each adds one block. The engine's `advance`, which may add
  several, is not represented (validators could not accept such a proposal,
  `consensus-validator.js:208`; it is a hazard of the list).
* A transition that the engine refuses fails before any validator is asked and
  changes nothing; only valid ones are submitted.
* While a validator is down its requests fail, which is the same to the coordinator as
  lost ones; crash and restart are one step.
* A WAL append, a certificate append and a rename are atomic. A torn last
  line of the log stops that validator for good, which is again a silent one.
* `MaxAttempts` is `validators.length` in the code and 2 in the runs (the theorems hold for any value).
* The epoch and the chain id are constant here; what `activateMainnet` does to followers is in `Replicas`.
* The vote statuses of the coordinator are kept only as far as they steer it: the
  set `divergent` that a view change leaves out.

### 2.4 WorkOrders and EscrowLedger

`apply` (`engine.js:17-21`) clones the state, runs one operation and puts the clone back if the
operation throws, and the commit queue runs one `apply` at a time: each operation is one
action, a refused one is no step. What makes the market hard is the number of orders in which
its operations may come.

| Variable | Code |
|---|---|
| `accounts`, `claimed` | `accounts[r].native`; the sum of r's `faucet.funded` events |
| `agents`, `agentReferrals` | `agents[a].status`, `agentReferrals[a].status` |
| `orders` | `orders[o]`: agent, requester, funded and escrowed amount, funding mode, status, dispute mark |
| `workResults`, `committees` | `workResults[o].status` and `.committee` |
| `verifiers`, `slashed`, `votes` | `verifiers`, their `slashed` in tenths of the bond, `verificationVotes` by order |
| `receipts`, `disputes` | the maps of the same names, by the id the caller gives |
| `settlements` | history variable: the payments that settled an order, in their order |

Actions have the names of the operations. `Settle` is the part of `finalizeReceipt`
that `settleVerifiedWork` calls. The abstractions:

* `createAgent` happens before: agents exist, those in `Referred` with a pending referral.
* Who may call an operation (`executeAuthorized`) is open: any call may come at any time. That
  includes `finalizeReceipt` for itself, which takes any two names as verifiers.
* Every order has the same validation policy, the constants `RequiredAccepts`, `MinGroups`,
  `CommitteeSize` and `Strict`. Proof types and hashes of evidence are refusals of malformed calls.
* The order of verifiers under a committee seed is the constant `Rank`, who is drawn to
  re-execute is `Sampled`: both are hashes, and the theorems hold for any. A vote's `owed` is
  `mustReexecute && !reexecuted`; a vote of weight 0 is `excluded`. The weight of other votes is
  only reported, never counted.
* Amounts are naturals. Capabilities of agents, protected targets, deadlines and texts do not
  steer the operations modelled. `mainnetTransition`, which closes the faucet, is absent.

`EscrowLedger` is the promise to those who pay: a unit comes from `Issue`, goes from account to account by
`Move`, is held for one order by `Hold`, and leaves it by one `Release` of everything, a part to a
payee and the rest to where it came from. `Ledger` in `WorkOrders` maps an account to its balance
and an order in native escrow to its requester and `escrowedAmount`; an order that only declares
its funding holds nothing. `LedgerSpec` says that the market implements the ledger.

### 2.5 StateSync and Replicas

`StateSync` holds what is computed: a hash is the value it commits to, so a `checkpointHash` is the
manifest itself and a `certificateHash` the certificate. `merkleRoot` is a recursive function that
pairs nodes as the code does, an odd last one with itself; `MCReplicas` evaluates that lists of equal length
have one root only if they are equal. A certificate is what it commits to: state, validator set, phase. That only
a quorum can sign one is what `NetworkConsensus` is about; here the origin hands them out.

| Variable | Code |
|---|---|
| `chain`, `lastCommit`, `validatorSet` | the server's `engine.state`, `consensus.lastCommit`, `consensus.validatorSet` by its epoch |
| `stateFile`, `certificates`, `checkpointCache` | the state file, the certificate store, the map of at most 4 checkpoints (`server.js:89`) |
| `stage` | whether the server is up, or waits in `apply` for the answers to its commit requests |
| `mirror[f]`, `file[f]` | a follower's `mirror`; its state file and its `.mirror.json` |
| `round[f]` | where `follow` and `fetchStateFromPeers` are, with what they have fetched |
| `deployment` | the environment variables the followers were started with |

| Actions | Code |
|---|---|
| `Apply`, `FinishCommit` | `apply` up to the commit requests; the rest of `performCommit`, which may die between its two writes |
| `OriginCrash`, `OriginStart` | the server dies; `initialize`, which restores the certificate of its state or has it certified, before `listen` |
| `Follow`, `ReceiveValidatorSet`, `ReceiveCheckpoint`, `ReceiveCertificate`, `ReceiveChunk` | the requests of a round, each with the moment its source handles it; manifests and chunks in any order |
| `InstallState`, `RejectState`, `ReceiveState`, `Refused` | the ends of a round: installed, failed, uncertified, a source that does not have what it is asked for |
| `LoseRequest`, `LoseCheckpoint` | lost or timed out |
| `FollowerCrash`, `FollowerStart`, `Install` | crash, also between the two files; the start from whatever they hold |

Abstractions: how the origin reaches agreement is one step (`Apply`), whose result is a certificate of the
new state by the current set. A request and its answer are one step, as the answer is used only
in its own round. The environment is one of a set of deployments: AEL_ALLOW_UNCERTIFIED_LOCAL is assumed only for a
follower of the origin alone, which is what it is named for. The interval between rounds
is left out: the next may begin at any time. The signed heartbeat, which
follows the installation, and the read-only views of a mirror are not modelled.

`FinalizedView` says what readers are promised: each replica's certified state is a prefix of the durable
chain and only moves on along it. `FV` in `Replicas` maps a follower to the state of the
certificate on its disk, so the promise is about certificates; that mirror and certificate belong together is
`FinalizedUnlessTorn`.

### 2.6 Interchain

As in the market, each transition is one action and a refused one is no step.

| Variable | Code |
|---|---|
| `routes`, `pausedFor` | the keys of `routes`; `pausedUntil` as the number of transitions the pause will still refuse, which each action, `Elsewhere` included, lowers by one |
| `routeObservers` | the keys of `routeObservers` |
| `candidates`, `observations` | `externalProofCandidates`, `externalProofObservations` by proof id |
| `externalProofs` | the map of that name; `proofNullifiers` is what its entries rest on |
| `lineages`, `external`, `native` | `lineages`; `reserves.external` and `reserves.native` of the agents |

What a route is registered with (`Terms`), who watches it (`Watches`), an observer's group (`Group`) and the
routes a piece of evidence is of (`ProvedOn`: program or contract and chain) are constants, as nothing changes them; the theorems hold
for any. A pause lasts 0 to `MaxPause` heights; as `pausedUntil <= height` is tested after the height was raised, one of d heights refuses
the d - 1 transitions after it. Confirmations, signatures and hashes of malformed calls are refusals. Transitions come as signed
intents (`executeAuthorized`), which refuses a direct submission to a route of real value (`engine.js:32`).
Receipts are FINAL ones of orders without dispute, paid by others than the agent's funding root. Amounts are naturals: `recognized` is
any part of what the receipt paid, which stands for haircut and controlled value. A sale may be quoted at anything the
reserves can pay, which includes every price of the curve. That a challenge or a release
meets a drained reserve is kept: `assertInvariants` throws NEGATIVE_RESERVE and the transition is rolled back
(`Covered`, and the last guard of `releaseExternal`).

## 3. The runs

### 3.1 Consensus

All use four validators (the smallest set the code accepts), `MaxAttempts = 2`, and
`MCNetworkConsensus`. They have power 1 each (quorum 3, one fault tolerated), except in
`bft_late`, where v1 has power 2 (quorum 4 of 5): without v1's answer even three votes are
short, so that one loss suffices to fail the certification at start-up. With `FixedDraw`
(v1 always proposes) the others are interchangeable and symmetry is sound, as are the
transitions; the liveness runs use `RotatingDraw` and no symmetry. Nothing is symmetric in v1.

| Run | Question | Faults | Properties |
|---|---|---|---|
| `bft_crashes` | Do crashes at any step make a validator forget what it signed or what a certificate relies on, over four views and two heights, or the coordinator lose or reorder what it stored? | any two of: 1 loss, 1 validator crash, 1 coordinator crash | `TypeOK`, `LockInv`, `CertifiedValueHeld`, `NoDoubleSign`, `StoreFollowsDisk`, `DurableChainGrows` |
| `bft_late` | Do certificates and replicas agree when a timed-out request is handled arbitrarily later, the coordinator restarts, possibly without the quorum to certify what it restored? | 1 loss, 1 late request, 1 coordinator crash, unequal powers | `CertificatesAgreeUnlessRolledBack`, `ReplicasAgree`, `SafeBelowAThird`, `EnginesCertified`, `CheckpointsRepeatFinality` |
| `bft_liveness` | Does each apply end and the chain grow although one validator is unreliable without bound and reports bad roots, and is it kept out of every certificate? | all of v4's | `EveryApplyAnswered`, `ChainGrows`, `CertifiedWasPrepared` |
| `bft_conflict` | Do certificates agree unconditionally, as the documents say? **Violated** | 1 coordinator crash | `CertificatesAgree` |
| `bft_halt` | Does the chain grow after a view change and a restart? **Violated** | 1 loss, 1 coordinator crash | `ChainGrows` |

Why these bounds. Safety violations of this protocol need two values at one
height in two views: `Tx = {A, B}` and `MaxView = 3` (one apply
can use two views, a second apply the rest) give both at one height, which is all `bft_late` has;
height 2 would repeat the situation on top of an equal prefix, with four times the
states (the proofs cover every height). Two heights matter where a second write meets
what the first one left: a state file and a certificate store that are not empty, locks,
views and logs of a height that is over. `bft_crashes` and `bft_liveness` have them, and
`bft_crashes` restarts the coordinator around the second save as well as the first. To pay for the second
height, `MaxFaults = 2` there keeps the three kinds of fault from coming all in one run; each pair of them is
explored. That is enough to ask for a second signature in a slot: a coordinator that dies before it
saves rolls a validator back, and that one's crash leaves the log alone to refuse.
In the other runs `MaxFaults` is the sum of the other bounds and restricts nothing. One loss is what it takes to split a phase of four, one
crash to erase a lock, one restart to roll back; `bft_liveness` removes the count for one validator.
`PendingLimit` is 32 in the code and 1 in `bft_liveness`, where the limit
is reached at v4, which misses aborts (at the others 32 aborts of one height would have to be lost), and 3 elsewhere, where it is not. `CHECK_DEADLOCK` is on: the
step `Done` stands for a coordinator at rest, and only there may the system stop.

*Fairness.* `FairSpec` assumes weak fairness of three things. `Coordinate`: the
coordinator goes on when its awaited promises have settled, which the event loop
guarantees. `Exchange(v)`: every request is answered or times out (`fetch` with
`AbortSignal.timeout`, `network-consensus.js:20`). `Submit`: clients keep submitting;
without them there is nothing to commit. No fault is fair: nothing is obliged to be lost
or to crash. Both liveness properties are about the system without a bound on losses of one validator: in
`bft_liveness` v4 may be silent for ever or answer with a bad root, is drawn first, and the rest must form a quorum.

`MaxView` stops `Submit` when a further apply could leave the bound. In the liveness
runs it is 5, so that this never explains a chain that does not grow: the
counterexample of `bft_halt` is a loop in view 0 in which clients go on submitting.

### 3.2 Work orders

| Run | Question | Properties |
|---|---|---|
| `work_orders` | What can one order go through, with both funding modes, two agents that are suspended and reactivated, three verifiers of which one is related to an agent, and a dispute id that is used again and again, two payments and two receipt ids? | `TypeOK`, `UnitsConserved`, `SettledOnce`, `VotesIndependent`, `ReferralEarned`, `LedgerSpec` |
| `work_escrow` | Does the escrow of a rejected order return? **Violated** | `EscrowReturned` |
| `work_payment` | Does a payment settle one order only? **Violated** | `PaymentSettlesOneOrder` |

`work_orders` explores every state. One order is enough for its properties: an
operation touches one order and meets the others only in the accounts, by sums, and in
`receipts`, where others only refuse; the theorems cover any number of orders. Three verifiers with a
committee of two give early votes, a fixed committee, an excluded vote and an order one vote short.
Two units, amounts of 1 and 2 and two accounts that are requester, agent or both, give
partial payment with a refund and payment to oneself. Two payments and two receipt ids are what a second settlement of
an order would take, as a payment in a receipt is refused at once; only then do status, dispute mark and escrow alone
stand against it. Payments and receipts are told apart by their ids only, so `Symmetry` is sound; `MaxAmount`, `FaucetOnce`, `FaucetTotal` (1000 and 10000 in
the code) and `AgentStatus` (without `RETIRED` in the run) are bounds. `work_payment` has three orders, which its
counterexample needs. There is no liveness: operations are calls of clients who owe nothing.
The market never has to stop, as agents may always change status, so deadlock is checked.

### 3.3 Replicas

| Run | Question | Faults | Properties |
|---|---|---|---|
| `replicas` | What can a follower come to hold and show, when it follows the origin, another follower, several sources, or the origin without certificates, while the origin commits, seals an epoch and forgets checkpoints? | 1 loss, 1 crash of a follower, 1 of the origin | `TypeOK`, `ChunksOfOneCheckpoint`, `FinalizedUnlessTorn`, `FinalizedViewSpec` |
| `replicas_live` | Do followers, one behind the other, come to show the last state once commits and crashes end? | 1 crash of a follower, 1 of the origin | `MirrorsCatchUp` |
| `replicas_sources` | Does a follower of several sources? **Violated** | none | `SeveralSourcesCatchUp` |

Two followers make a chain of replicas and a mirror as a source beside the origin. Two commits, one of
which may be the sealing one, with a checkpoint cache of one entry (4 in the code) make the origin
forget a checkpoint in the middle of a download; a state of height 2 has two chunks, so that a download has a middle. Two files can be torn
by one crash; a second crash of the same process meets the situations of the first. `MaxHeight` stops `Apply` only.

*Fairness.* Weak fairness of each follower's loop (it comes round after an interval, and `fetch` has a
time-out, `state-sync.js:102`) and of the origin's own steps: a commit under way is answered
(`EveryApplyAnswered`) and a dead server is started again. No request and no fault is fair. `client.request` of the validator set has no time-out
in the code: the assumption is that this one request settles. The properties are of the form `<>[](Syncable => ...)`, so they also cover
chains that end early, and exclude the height that sealed an epoch, see below.

### 3.4 Interchain

| Run | Question | Properties |
|---|---|---|
| `interchain` | Do proofs, lineages, reserves and caps stay consistent through every order of observations, admissions, sales, releases in part, pauses and challenges? | `TypeOK`, `ReserveBacked`, `CapHeld`, `EvidenceUsedOnce`, `Witnessed`, `NothingRestsOnFraud`, `QuarantineIsFinal` |

The run is complete. Two proof ids and two pieces of evidence are what replay under another id takes; three observers of
two groups, with a threshold of two, give a quorum in number that is none in groups; two lineages on
a cap of two and a receipt of two give admissions at the cap and releases in part; one of the
routes is of fixtures, which asks for no proof. With `MaxPause = 2` a pause refuses the next transition on its route or none, and `MaxNative = 1`
bounds what buyers bring in. Ids, evidence, lineages and the two observers of one group are interchangeable, which makes
`Symmetry` sound; the one action property treats them alike. There is no liveness: nobody is obliged to observe, admit or challenge.

### 3.5 Findings

1. **A restart may roll back committed validators, and a second certificate follows**
   (`bft_conflict`). Commit requests go out before the coordinator's state is
   saved. If it dies in between, its restart serves the older state and
   synchronizes the validators back to it (`sync` takes any certified state, lower ones
   included, `consensus-validator.js:131`). They refuse another value at view 0, which they
   signed, but after a view change they sign it, and a second certificate with
   another state forms for the same height. No validator is faulty and no message is lost. The design document
   says "This locking rule prevents conflicting commits across views."
   (`docs/P2P_CONSENSUS_DESIGN.md:53`).
2. **A view change followed by a coordinator restart can halt the chain** (`bft_halt`).
   The view is in memory only and restarts at 0, while validators restore the views they
   voted for. PREPARE below their view and VIEW_CHANGE at or below it are refused, so
   neither side ever moves. The guide promises view changes and a restored parent certificate after restart
   (`docs/NETWORK_CONSENSUS_GUIDE.md:48`).

3. **A rejected order keeps its escrow for good** (`work_escrow`). `resolveDispute` with
   REJECT sets the status only; both settling operations require ACCEPTED or VERIFYING, and no other
   operation touches an escrow. The documents say "Unused escrow returns to the requester."
   (`docs/X_LAUNCH_THREAD.md:23`).
4. **A payment can settle two orders** (`work_payment`). `finalizeReceipt` looks its payment up in the receipts
   (`engine.js:79`), and replaces a receipt of the same id (`engine.js:88`). Once the receipt that
   names a payment is replaced, that payment passes the test again. `docs/DEVELOPMENT_TO_MAINNET.md:97`
   excludes a "duplicated payment". The escrows stay right, which `SettledOnce` and `LedgerSpec`
   show; it is the record of payments that does not.

5. **A follower of several sources installs nothing** (`replicas_sources`). With more than one source
   `follow` assigns to `result`, declared only in the other branch (`validator-node.js:72,84`). In a module that is a
   ReferenceError, which the loop catches: every round ends DEGRADED. `README.md:65` asks to "Configure at least two independently controlled
   sources", and `docs/NETWORK_CONSENSUS_GUIDE.md:42` says what is done with them "before persistence".

Met on the way and kept in the models, without a run of their own:

* A follower that dies between `persist` and `persistMetadata` starts with a state and the certificate of
  an older one, and serves them as CERTIFICATE_FINALIZED until its next round (`validator-node.js:39,63,88`).
  `FinalizedUnlessTorn` holds without such a crash; `MirrorsCatchUp` shows that the next successful round repairs it.
* After the sealing transition its certificate is of the old validator set, and the server already
  serves the new one (`network-consensus.js:87-90`, `server.js:23`): followers refuse that height until the next commit.
* A challenge of a proof whose value has been sold fails with NEGATIVE_RESERVE, so the proof stays FINAL and the
  route is not paused (`engine.js:99,212`), where `docs/CONFORMANCE.md:25` has invalid proofs quarantine the dependent value.
* One receipt and one proof can be admitted under several lineage ids (`engine.js:105`), where
  `docs/CONFORMANCE.md:20` speaks of unique payment and lineage; `CapHeld` and `ReserveBacked` hold all the same.
* A shorter pause replaces a longer one (`engine.js:99,170`).

What does hold of the certificates is stated so that finding 1 is its only exception:
`CertificatesAgreeUnlessRolledBack` and `ReplicasAgree` hold as long as any two quorums
still share a validator that is neither faulty nor rolled back (`QuorumsMeet`).
`SafeBelowAThird` says the same in terms of power, as `docs/P2P_CONSENSUS_DESIGN.md:7` counts it: while
those hold a third of it at most, nothing conflicts. It pins down `quorumPower` too. With a smaller quorum
fewer pairs of quorums would meet, and the other two would ask for less; this one is violated.

## 4. What is proved

### 4.1 Consensus

For any number of validators (at least four), any voting powers, any proposer draw,
any number of views, losses, crashes, restarts and late messages, and any set of
faulty-root validators. Assumptions: `ValidatorSetValid`, `ValidatorBounds`,
`NilIsNoValue` and `CoordinatorBounds`, all evaluated by TLC in each run.

| Theorem | Statement |
|---|---|
| `ValidatorNeverDoubleSigns` | `ValidatorSpec => [](ValidatorTypeOK /\ Replayed /\ NoDoubleSign)` |
| `ValidatorKeepsOneValue` | `ValidatorSpec => []LockInv` |
| `TypeCorrect` | `Spec => [](TypeOK /\ Control)` |
| `Invariance` | `Spec => []IInv` |
| `NetworkImplementsValidators` | `Spec => ValidatorSpec` |
| `NeverDoubleSigns` | `Spec => []NoDoubleSign`, through the refinement |
| `SignersPrepared` | `Spec => []CertifiedWasPrepared` |
| `CheckpointsFinal` | `Spec => []CheckpointsRepeatFinality` |
| `CertifiedValuesHeld` | `Spec => []CertifiedValueHeld` |
| `CertificatesNeverConflict` | `Spec => []CertificatesAgreeUnlessRolledBack` |
| `OnlyCertifiedStates` | `Spec => []EnginesCertified` |
| `ReplicasNeverDiverge` | `Spec => []ReplicasAgree` |
| `DurableChainOnlyGrows` | `Spec => DurableChainGrows` |
| `StoreNeverAhead` | `Spec => []StoreFollowsDisk` |
| `SafeWhileFewUntrusted` | `Spec => []SafeBelowAThird` |
| `QuorumsOverlap` | two quorums share more than a third of the power |
| `OthersAreQuorum` | without validators of less than a third of the power, the others are a quorum |
| `ProposerIsDrawn` | a draw below the total power selects the one validator whose share of the line it falls in |

The argument. Agreement is not inductive: that certificates agree depends on what their signers
remember. `IInv` strengthens it with

* `LockInv`: each trusted validator signed one value per height and, until it moves past
  the height, holds it locked in memory *and* in the log (a crash replaces the one by
  the other), and its pending proposals extend its own state by that value;
* `Control`: what the coordinator's position says about its variables, for example that its
  canonical state is the durable one except between commit and save;
* `Replayed`: the votes a validator has in memory are those of its log, before and after a crash, so that
  what `rememberVote` refuses is what was ever signed (`NoDoubleSign` rests on it, and the locks of a proposal that is refused);
* `PreparedSigned`: a counted PREPARE vote was signed with the expected state, and nobody else is asked to precommit, so that
  `CertifiedWasPrepared` holds although a validator that reports bad roots does execute the proposal and would sign a PRECOMMIT for it;
* `CountedVotesSigned`: a counted PRECOMMIT vote was really signed, so that
* `CertificatesBacked`: each finality certificate has a quorum of real signatures,
  and each checkpoint certificate repeats the value of a finality certificate
  (validators sign checkpoints blindly, so this rests on the coordinator's `StatesCertified`);
* `StatesCertified`, `EnginesCertified`: states on their way, on disk and in engines are certified.

Two certificates of one height then have quorums with a common trusted signer
(`QuorumsMeet`), which signed one value there. The proofs have one step per action, and
a lemma per handler. `NetworkImplementsValidators` shows that each step of the system
is a step of `ValidatorSpec` or leaves the validators alone, so the first two theorems carry over.

From powers to quorums: a quorum is `floor(2P/3) + 1` of the power P, so two of them
share more than P/3 (`PowerSplit` divides the power of a set in two). When the untrusted hold P/3 at
most, one of those shared is trusted: `FewUntrusted => QuorumsMeet`, and `SafeWhileFewUntrusted` follows
from agreement. The theorem is for any powers, where the run has one vector of them. `OthersAreQuorum` is the
counterpart for progress, what `apply` needs to finish without the silent. `ProposerIsDrawn` shows that the walk of
`selectProposer` always finds a proposer and gives each as many draws as it has power.

*Only model-checked.* Liveness (`EveryApplyAnswered`, `ChainGrows`), out of the prover's reach.

### 4.2 Work orders

For any sets of accounts, agents, orders, verifiers and ids, any relations between them, any
policy and any amounts. Assumptions: `PolicyValid` (what `validateWorkPolicy` enforces), `RegistriesValid`,
`RegistriesFinite` (finitely many accounts and orders are ever named, which gives sums over them a meaning),
`AmountsValid`, `NoneIsNoRecord`, all evaluated by TLC.

| Theorem | Statement |
|---|---|
| `WorkSafe` | `Spec => []WorkInv` |
| `TypeCorrect` | `Spec => []TypeOK` |
| `SettledAtMostOnce` | `Spec => []SettledOnce` |
| `VotesAreIndependent` | `Spec => []VotesIndependent` |
| `ReferralsAreEarned` | `Spec => []ReferralEarned` |
| `UnitsAreConserved` | `Spec => []UnitsConserved` |
| `ImplementsLedger` | `Spec => LedgerSpec` |

The argument. The properties need each other and `OrderShape`, which says what a status implies:
votes exist only from VERIFYING on, so an agent is fixed before anybody votes and `acceptWork` cannot
change the party a vote was checked against; a verified result means PAID or
REJECTED, after which no vote is accepted and a qualified referral keeps its votes; a dispute
exists only about an order that was taken, so resolving it never makes an order payable that had left
escrow. `WorkInv` is the conjunction; there is one lemma per operation. For the
ledger, each operation is shown to be one ledger action or to change neither balances nor escrows, with
`CreditMaps` and `DebitMaps` carrying account updates over to balances.

`UnitsConserved` adds up all accounts and all escrows. Its invariant `Money` adds that an order which only declares its
funding holds nothing, as otherwise its settlement would pay out what nobody paid in. Every operation changes
one or two summands, and `SumChange` says what that does to the sum; a settlement is two credits
that make up what the order held. `ImplementsLedger` says in addition who may be paid: units leave an order once, and only
`Issue` makes any.

Nothing about the market is only model-checked.

### 4.3 Replicas

For any number of followers, any source lists and deployments, any chunking, cache limit and number of crashes and
losses. Assumption: `ReplicasAssumption`.

| Theorem | Statement |
|---|---|
| `TypeCorrect` | `Spec => []TypeOK` |
| `ChunksNeverMixed` | `Spec => []ChunksOfOneCheckpoint` |
| `ShowsWhatIsCertified` | `Spec => []FinalizedUnlessTorn` |
| `ReplicasRefine` | `Spec => FinalizedViewSpec` |

The argument. `TypeOK` carries that every checkpoint anywhere was made of the state it names, so a chunk cut from the
checkpoint that was asked for is the one its manifest names. `Whole`: until a follower has died none starts from its files, and what is
taken as finalized is taken whole. For the refinement three more are needed. `DurableChain`: the
origin's memory is its state file, but for a commit under way, and each stored certificate is of a prefix of the state file.
`FromStore`: a follower holds, shows and has on disk certificates of the store only. `Monotone`: a follower
is only offered what is no earlier than what it shows, and what it shows and is offered is no later than what the follower it follows shows
or is offered. For followers of several sources this uses that they install nothing (finding 5): were that mended, a majority of mirrors that lag
could take a follower back, as nothing in `follow` compares heights. Every step is classified as one of the origin or one of five kinds of
move of a follower (`OriginMoves`, `Moves`), and each invariant has one case per kind.

*Only model-checked.* `MirrorsCatchUp`. What `merkleRoot` computes: it is a recursive function, and the
proofs use no more of it than that equal lists have equal roots.

### 4.4 Interchain

For any routes, observers, groups, proofs, evidence, lineages and amounts. Assumption: `InterchainAssumption`.

| Theorem | Statement |
|---|---|
| `NoEvidenceTwice` | `Spec => []EvidenceUsedOnce` |
| `RealValueIsWitnessed` | `Spec => []Witnessed` |
| `FraudIsWithdrawn` | `Spec => []NothingRestsOnFraud` |
| `QuarantineHolds` | `Spec => QuarantineIsFinal` |
| `TypeCorrect` | `Spec => []TypeOK` |
| `ReservesAreBacked` | `Spec => []ReserveBacked` |
| `CapsHold` | `Spec => []CapHeld` |

The inductive invariant `Safe` adds to the three invariants the shapes of proofs and lineages, that whoever observed an id
is registered and watches the route of what it observes (`ObserversOK`: a quorum is counted from stored observations, whose
candidate cannot change), and that what is quarantined is not active. The last makes quarantine final: a
release needs an active lineage, an admission a new one, and a second challenge sets what is set already.

Reserves and caps need a second invariant, `Backed`: no reserve is negative, an agent's external reserve is
at most the value of its active lineages, and that of a route's active lineages at most its cap. `Value` is the
sum that `Recognized` takes, over all lineages with 0 for those left out, so that sums over different sets can be compared.
A sale only lowers a reserve; an admission adds one lineage and a release lowers one, by the amount the reserve moves. A
challenge is the hard case: it takes from each reserve all that rests on the proof and deactivates those lineages, but some of
them may have been inactive, and the reserve may have been drained. The first makes the reserve lose at least what its lineages lose; the
second is refused by `assertInvariants` (`Covered`), which is what keeps the reserve a natural and `TypeOK` true.
`Backed` is inductive only together with `Safe`, whose shapes say what is summed.

Nothing about this part is only model-checked.

### 4.5 Sums

Powers, units, escrows and recognized value are sums over finite sets, in the code loops over the values of a map. The library gives
no facts about folds, and its induction theorems cannot be applied here. `FiniteSums` gets induction from
the library's well-foundedness of `<` on the naturals: a set of sizes that fail has a least one (`Induction`, `SubsetInduction`).
With it, that a fold exists and adds one element at a time (`FoldExists`, `FoldAdds`), and from there what the proofs cite: sums of
naturals are naturals, of nothing and of zeros are 0, an element can be taken out, changing one summand changes the sum by as much,
a sum splits along two disjoint sets, and a larger function or set has no smaller sum.

What stays with TLC throughout: liveness, `ENABLED`, and what `merkleRoot` computes, which is recursive over lists.

## 5. What is not modelled, and the plan

Parts with a protocol of their own, in the order in which they would be taken up:

1. Runtime and memory (`engine.js:135-169`): leases, failover, checkpoints and handovers. Property: one writer
   of an agent's memory, and a handover finalizes what it prepared.
2. Staking (`engine.js:200-206`): delegation, evidence, slashing, reward pools. Property: nothing slashed is paid back.
3. `ValidatorGovernance` and the validators' side of `activateMainnet`: logs and locks of an old epoch.
4. Onboarding and signed intents (`engine.js:17-32`, `server.js:150-162`): sequences of commits with others in between.
5. The abstraction of the network, one decided value per height, implemented by `NetworkConsensus` while nobody is rolled
   back; `Replicas` could then be composed with it in place of `Apply`.
6. Governance, contributions, covenants, audits, beacons, messages: registries whose operations touch one record each.

Left out for good: clients, SDKs, discovery, gateway, pages, wallet, scripts and demos (formatting
and transport, no shared state); encryption of memory bundles; the readiness report, a pure view of the state; the in-process
replicas of `consensus.js`, which one process runs in lockstep through a deterministic engine; torn files of logs and stores, whose
only effect is a process that does not start again; fractions of amounts.

## 6. Running

    tlc -workers 2 -config bft_crashes.cfg MCNetworkConsensus
    tlapm ConsensusValidatorProofs.tla
    tlapm ConsensusPrimitivesProofs.tla
    tlapm NetworkConsensusProofs.tla
    tlapm FiniteSums.tla
    tlc -workers 2 -config work_orders.cfg MCWorkOrders
    tlapm WorkOrdersProofs.tla
    tlc -workers 2 -config replicas.cfg MCReplicas
    tlapm ReplicasProofs.tla
    tlc -workers 2 -config interchain.cfg MCInterchain
    tlapm InterchainProofs.tla

Each run finishes within five minutes. Operators commented as a *mutation* of another are plausible bugs;
`PROJECT.json` names for each property the mutation that violates it.
