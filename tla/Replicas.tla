------------------------------ MODULE Replicas ------------------------------
(* Read-only replicas of the chain: the server that commits (the origin),    *)
(* the followers that download its certified state from it or from one       *)
(* another (validator-node.js, state-sync.js), the two files of a follower,  *)
(* and the crash of either between two writes.                               *)
(* How the origin reaches agreement is NetworkConsensus; here it is one step *)
(* that yields a state and its certificate.  A request and its answer are    *)
(* one step, at the moment the source handles it: a follower uses the answer *)
(* only in its own round.                                                    *)
EXTENDS StateSync

CONSTANTS
    Follower,        \* the follower processes
    Origin,          \* the server
    Tx,              \* the transitions clients submit
    Seal,            \* the one that is sealMainnetGenesis: it starts an epoch
    Deployments,     \* the environments followers are started with
    CacheLimit,      \* checkpoints the origin keeps (4 in the code)
    MaxHeight,       \* bound: commits
    MaxLosses,       \* bound: requests lost or timed out
    MaxCrashes,      \* bound: crashes of followers
    MaxOriginCrashes \* bound: crashes of the origin

Node == Follower \cup {Origin}

\* AEL_SYNC_SOURCES, AEL_URL and AEL_ALLOW_UNCERTIFIED_LOCAL of each follower.
Deployment == [syncSources : [Follower -> Seq(Node)],
               baseUrl : [Follower -> Node],
               allowUncertified : SUBSET Follower]

Certificates ==
    [state : Seq(Tx), validatorSet : {1, 2}, phase : {"PRECOMMIT", "CHECKPOINT"}]

ASSUME ReplicasAssumption ==
    /\ Origin \notin Follower
    /\ Nil \notin Node \cup Certificates
    /\ CacheLimit \in Nat \ {0}
    /\ MaxHeight \in Nat /\ MaxLosses \in Nat
    /\ MaxCrashes \in Nat /\ MaxOriginCrashes \in Nat
    /\ Deployments \subseteq Deployment
    /\ \A d \in Deployments :
           /\ \A f \in Follower : d.syncSources[f] # <<>>
           /\ \A f \in d.allowUncertified :
                 d.baseUrl[f] = Origin /\ d.syncSources[f] = <<Origin>>

VARIABLES
    deployment,      \* what the followers were started with
    chain,           \* the origin's engine.state
    stateFile,       \* the origin's state file
    validatorSet,    \* the coordinator's validatorSet, by its epoch
    lastCommit,      \* the certificate of lastCommit
    certificates,    \* the certificate store
    checkpointCache, \* the checkpoints served last, oldest first
    stage,           \* of the origin: READY, APPLIED (waiting for the answers to
                     \* the commit requests) or DOWN
    mirror,          \* of a follower, in memory: state, certificate, validatorSet
    file,            \* its state file and its metadata file
    round,           \* where its round of downloads is
    faults           \* what has been lost and has crashed so far

originVars == <<chain, stateFile, validatorSet, lastCommit, certificates,
                checkpointCache, stage>>
followerVars == <<mirror, file, round>>
vars == <<deployment, originVars, followerVars, faults>>

syncSources == deployment.syncSources
baseUrl == deployment.baseUrl

Empty == [state |-> Nil, certificate |-> Nil, validatorSet |-> Nil]

Between(st) == [stage |-> st, validatorSet |-> Nil, manifests |-> <<>>,
                agreed |-> {}, manifest |-> Nil, certificate |-> Nil,
                chunks |-> <<>>]

Idle == Between("IDLE")
Down == Between("DOWN")

Init ==
    /\ deployment \in Deployments
    /\ chain = <<>> /\ stateFile = <<>>
    /\ validatorSet = 1
    /\ lastCommit = Nil
    /\ certificates = {}
    /\ checkpointCache = <<>>
    /\ stage = "READY"
    /\ mirror = [f \in Follower |-> Empty]
    /\ file = [f \in Follower |-> Empty]
    /\ round = [f \in Follower |-> Idle]
    /\ faults = [losses |-> 0, crashes |-> 0, originCrashes |-> 0]

-----------------------------------------------------------------------------
(* The origin.                                                               *)

\* activeEpoch: the epoch the sealing transition of a state starts.
EpochOf(state) == IF \E k \in DOMAIN state : state[k] = Seal THEN 2 ELSE 1

\* CertificateStore.index refuses a second certificate of a height.
Conflicting(c) == \E d \in certificates : Len(d.state) = Len(c.state) /\ d # c

\* CertificateStore.append of a certificate; a refused one leaves the store.
append(c) == IF Conflicting(c) THEN certificates ELSE certificates \cup {c}

atHeight(h) ==
    LET at == {c \in certificates : Len(c.state) = h}
    IN  IF at = {} THEN Nil ELSE CHOOSE c \in at : TRUE

\* NetworkConsensus.apply, up to the commit requests.
Apply(tx) ==
    /\ stage = "READY"
    /\ Len(chain) < MaxHeight
    /\ tx = Seal => EpochOf(chain) = 1
    /\ chain' = Append(chain, tx)
    /\ lastCommit' = Certificate(chain', validatorSet, "PRECOMMIT")
    /\ stage' = "APPLIED"
    /\ UNCHANGED <<deployment, stateFile, validatorSet, certificates,
                   checkpointCache, followerVars, faults>>

OriginDown ==
    /\ faults.originCrashes < MaxOriginCrashes
    /\ faults' = [faults EXCEPT !.originCrashes = @ + 1]
    /\ stage' = "DOWN"
    /\ chain' = <<>> /\ lastCommit' = Nil /\ checkpointCache' = <<>>
    /\ validatorSet' = 1

\* Mutation of FinishCommit: the certificate is written before the state.
FinishCommitCertifiesFirst ==
    /\ stage = "APPLIED"
    /\ certificates' = append(lastCommit)
    /\ \/ /\ stateFile' = chain
          /\ validatorSet' = EpochOf(chain)
          /\ stage' = "READY"
          /\ UNCHANGED <<chain, lastCommit, checkpointCache, faults>>
       \/ OriginDown /\ UNCHANGED stateFile
    /\ UNCHANGED <<deployment, followerVars>>

\* performCommit, once apply is answered: the epoch, the state file, the
\* certificate, in one turn; it may die between the two writes.
FinishCommit ==
    /\ stage = "APPLIED"
    /\ stateFile' = chain
    /\ \/ /\ validatorSet' = EpochOf(chain)
          /\ certificates' = append(lastCommit)
          /\ stage' = "READY"
          /\ UNCHANGED <<chain, lastCommit, checkpointCache, faults>>
       \/ OriginDown /\ UNCHANGED certificates
    /\ UNCHANGED <<deployment, followerVars>>

OriginCrash ==
    /\ stage # "DOWN"
    /\ OriginDown
    /\ UNCHANGED <<deployment, stateFile, certificates, followerVars>>

\* Mutation of OriginStart: a certificate the crash lost is not replaced.
OriginStartUncertified ==
    /\ stage = "DOWN"
    /\ chain' = stateFile
    /\ validatorSet' = EpochOf(stateFile)
    /\ lastCommit' = Nil /\ checkpointCache' = <<>>
    /\ stage' = "READY"
    /\ UNCHANGED <<deployment, stateFile, certificates, followerVars, faults>>

\* The server starts: it loads the state, restores the certificate of it or
\* has the validators certify it, and only then listens.
OriginStart ==
    /\ stage = "DOWN"
    /\ chain' = stateFile
    /\ validatorSet' = EpochOf(stateFile)
    /\ LET restored == atHeight(Len(stateFile))
           checkpoint == Certificate(stateFile, EpochOf(stateFile), "CHECKPOINT")
       IN  IF stateFile = <<>> \/ (restored # Nil /\ restored.state = stateFile)
           THEN UNCHANGED certificates
           ELSE /\ ~Conflicting(checkpoint)
                /\ certificates' = append(checkpoint)
    /\ lastCommit' = Nil /\ checkpointCache' = <<>>
    /\ stage' = "READY"
    /\ UNCHANGED <<deployment, stateFile, followerVars, faults>>

-----------------------------------------------------------------------------
(* What a node answers; Nil when it is down, or answers 404 or 503.          *)

Serving(n) == IF n = Origin THEN stage # "DOWN" ELSE round[n].stage # "DOWN"

\* What mirror.checkpoint holds; of the origin, a checkpoint made on request.
CheckpointOf(n) ==
    LET state == IF n = Origin THEN chain ELSE mirror[n].state
        certificate == IF n = Origin THEN atHeight(Len(chain))
                       ELSE mirror[n].certificate
    IN  IF Serving(n) /\ certificate # Nil
        THEN createStateCheckpoint(state, certificate) ELSE Nil

ValidatorSetOf(n) ==
    IF ~Serving(n) THEN Nil
    ELSE IF n = Origin THEN validatorSet ELSE mirror[n].validatorSet

HasCertificate(n, c) ==
    /\ Serving(n)
    /\ IF n = Origin THEN c \in certificates \cup {lastCommit}
       ELSE c = mirror[n].certificate

\* The checkpoints the origin still cuts chunks from.
Kept == {checkpointCache[k] : k \in DOMAIN checkpointCache}

\* Mutation of ChunkSource: chunks are cut from the latest checkpoint.
ChunkSourceLatest(n, manifest) == CheckpointOf(n)

\* GET /v1/state/chunks/{index}?checkpoint={hash}: the checkpoint it is cut from.
ChunkSource(n, manifest) ==
    IF manifest \in (IF n = Origin THEN Kept ELSE {CheckpointOf(n)})
    THEN manifest ELSE Nil

\* Mutation of Cached: one checkpoint too many is kept.
CachedOneMore(manifest) ==
    IF manifest \in Kept THEN checkpointCache
    ELSE IF Len(checkpointCache) <= CacheLimit
    THEN Append(checkpointCache, manifest)
    ELSE Append(Tail(checkpointCache), manifest)

\* The origin keeps a checkpoint it served, and forgets the oldest it kept.
Cached(manifest) ==
    IF manifest \in Kept THEN checkpointCache
    ELSE IF Len(checkpointCache) < CacheLimit
    THEN Append(checkpointCache, manifest)
    ELSE Append(Tail(checkpointCache), manifest)

-----------------------------------------------------------------------------
(* A round of a follower.                                                    *)

Goto(f, r) == round' = [round EXCEPT ![f] = r]

\* An exception in follow: the next round, or with one source only, when the
\* follower is allowed to, the state of its base URL without a certificate.
Failed(f) ==
    IF f \in deployment.allowUncertified /\ Len(syncSources[f]) = 1
       /\ round[f].stage # "UNCERTIFIED"
    THEN Between("UNCERTIFIED") ELSE Idle

Follow(f) ==
    /\ round[f].stage = "IDLE"
    /\ Goto(f, Between("VALIDATOR_SET"))
    /\ UNCHANGED <<deployment, originVars, mirror, file, faults>>

ReceiveValidatorSet(f) ==
    /\ round[f].stage = "VALIDATOR_SET"
    /\ ValidatorSetOf(baseUrl[f]) # Nil
    /\ Goto(f, [Between("CHECKPOINTS") EXCEPT
                    !.validatorSet = ValidatorSetOf(baseUrl[f])])
    /\ UNCHANGED <<deployment, originVars, mirror, file, faults>>

\* The answer of the k-th source has settled, fulfilled or (Nil) rejected.
\* With the last one the follower groups them: enough must agree, and what
\* any of those that agree sent is the manifest.
Settle(f, k, manifest) ==
    LET r == round[f]
        manifests == [j \in DOMAIN r.manifests \cup {k} |->
                         IF j = k THEN manifest ELSE r.manifests[j]]
        sources == agreed(manifests)
        minSources == IF Len(syncSources[f]) > 1 THEN 2 ELSE 1
    IN  IF DOMAIN manifests # DOMAIN syncSources[f]
        THEN Goto(f, [r EXCEPT !.manifests = manifests])
        ELSE IF Cardinality(sources) < minSources THEN Goto(f, Failed(f))
        ELSE Goto(f, [r EXCEPT !.stage = "CERTIFICATE", !.manifests = <<>>,
                               !.agreed = sources,
                               !.manifest = manifests[CHOOSE j \in sources : TRUE]])

Unsettled(f, k) ==
    /\ round[f].stage = "CHECKPOINTS"
    /\ k \in DOMAIN syncSources[f] \ DOMAIN round[f].manifests

ReceiveCheckpoint(f, k) ==
    LET n == syncSources[f][k] IN
    /\ Unsettled(f, k)
    /\ Settle(f, k, CheckpointOf(n))
    /\ checkpointCache' = IF n = Origin /\ CheckpointOf(n) # Nil
                          THEN Cached(CheckpointOf(n)) ELSE checkpointCache
    /\ UNCHANGED <<deployment, chain, stateFile, validatorSet, lastCommit,
                   certificates, stage, mirror, file, faults>>

Agreed(f) == syncSources[f][First(round[f].agreed)]

ReceiveCertificate(f) ==
    /\ round[f].stage = "CERTIFICATE"
    /\ HasCertificate(Agreed(f), round[f].manifest.certificate)
    /\ Goto(f, [round[f] EXCEPT !.stage = "CHUNKS",
                                !.certificate = round[f].manifest.certificate])
    /\ UNCHANGED <<deployment, originVars, mirror, file, faults>>

Missing(f) ==
    IF round[f].stage # "CHUNKS" THEN {}
    ELSE DOMAIN round[f].manifest.chunkHashes \ DOMAIN round[f].chunks

\* The checkpoint from which the source asked for chunk k cuts it.
Source(f, k) ==
    ChunkSource(syncSources[f][Provider(round[f].agreed, k)], round[f].manifest)

ReceiveChunk(f, k) ==
    LET chunks == round[f].chunks IN
    /\ round[f].stage = "CHUNKS"
    /\ k \in Missing(f)
    /\ Source(f, k) # Nil
    /\ Goto(f, [round[f] EXCEPT !.chunks =
                    [j \in DOMAIN chunks \cup {k} |->
                        IF j = k THEN Source(f, k).chunkHashes[k] ELSE chunks[j]]])
    /\ UNCHANGED <<deployment, originVars, mirror, file, faults>>

Verified(f) ==
    LET r == round[f]
    IN  verifyStateCheckpoint(r.manifest, r.chunks, r.certificate, r.validatorSet)

Complete(f) == round[f].stage = "CHUNKS" /\ Missing(f) = {}

FollowerDown(f) ==
    /\ faults.crashes < MaxCrashes
    /\ faults' = [faults EXCEPT !.crashes = @ + 1]
    /\ mirror' = [mirror EXCEPT ![f] = Empty]
    /\ Goto(f, Down)

\* The mirror is replaced, then the state file, then the metadata file, in one
\* turn; the follower may die between the two files.
Install(f, taken) ==
    \/ /\ mirror' = [mirror EXCEPT ![f] = taken]
       /\ file' = [file EXCEPT ![f] = taken]
       /\ Goto(f, Idle)
       /\ UNCHANGED faults
    \/ /\ file' = [file EXCEPT ![f].state = taken.state]
       /\ FollowerDown(f)

\* Every chunk is there.  With one source the verified state is installed.
InstallState(f) ==
    /\ Complete(f) /\ Verified(f)
    /\ Len(syncSources[f]) = 1
    /\ Install(f, [state |-> round[f].manifest.state,
                   certificate |-> round[f].certificate,
                   validatorSet |-> round[f].validatorSet])
    /\ UNCHANGED <<deployment, originVars>>

\* With several, follow assigns what it fetched to `result`, which is declared
\* only in the other branch: in a module that is a ReferenceError.
RejectState(f) ==
    /\ Complete(f)
    /\ Verified(f) => Len(syncSources[f]) > 1
    /\ Goto(f, Failed(f))
    /\ UNCHANGED <<deployment, originVars, mirror, file, faults>>

\* Mutation of ReceiveState: the certificate of the state before is kept.
ReceiveStateKeepsCertificate(f) ==
    /\ round[f].stage = "UNCERTIFIED"
    /\ Serving(baseUrl[f])
    /\ Install(f, [mirror[f] EXCEPT !.state = chain])
    /\ UNCHANGED <<deployment, originVars>>

\* GET /v1/state of the base URL, without a certificate.
ReceiveState(f) ==
    /\ round[f].stage = "UNCERTIFIED"
    /\ Serving(baseUrl[f])
    /\ Install(f, [Empty EXCEPT !.state = chain])
    /\ UNCHANGED <<deployment, originVars>>

\* A source is down, or answers that it does not have what it is asked for.
Refused(f) ==
    /\ CASE round[f].stage = "VALIDATOR_SET" -> ValidatorSetOf(baseUrl[f]) = Nil
         [] round[f].stage = "CERTIFICATE" ->
                ~HasCertificate(Agreed(f), round[f].manifest.certificate)
         [] round[f].stage = "CHUNKS" -> \E k \in Missing(f) : Source(f, k) = Nil
         [] round[f].stage = "UNCERTIFIED" -> ~Serving(baseUrl[f])
         [] OTHER -> FALSE
    /\ Goto(f, Failed(f))
    /\ UNCHANGED <<deployment, originVars, mirror, file, faults>>

Lose ==
    /\ faults.losses < MaxLosses
    /\ faults' = [faults EXCEPT !.losses = @ + 1]
    /\ UNCHANGED <<deployment, originVars, mirror, file>>

\* A request or its answer is lost, or is late for its timeout.
LoseRequest(f) ==
    /\ Lose
    /\ round[f].stage \in {"VALIDATOR_SET", "CERTIFICATE", "CHUNKS", "UNCERTIFIED"}
    /\ Goto(f, Failed(f))

LoseCheckpoint(f, k) == Lose /\ Unsettled(f, k) /\ Settle(f, k, Nil)

FollowerCrash(f) ==
    /\ round[f].stage # "DOWN"
    /\ FollowerDown(f)
    /\ UNCHANGED <<deployment, originVars, file>>

\* What the two files hold is taken as it is.
FollowerStart(f) ==
    /\ round[f].stage = "DOWN"
    /\ mirror' = [mirror EXCEPT ![f] = file[f]]
    /\ Goto(f, Idle)
    /\ UNCHANGED <<deployment, originVars, file, faults>>

-----------------------------------------------------------------------------
OriginStep == FinishCommit \/ OriginStart

FollowerStep(f) ==
    \/ Follow(f) \/ ReceiveValidatorSet(f) \/ ReceiveCertificate(f)
    \/ InstallState(f) \/ RejectState(f) \/ ReceiveState(f) \/ Refused(f)
    \/ \E k \in DOMAIN syncSources[f] : ReceiveCheckpoint(f, k)
    \/ \E k \in Missing(f) : ReceiveChunk(f, k)
    \/ FollowerStart(f)

Fault ==
    \/ OriginCrash
    \/ \E f \in Follower :
          \/ LoseRequest(f) \/ FollowerCrash(f)
          \/ \E k \in DOMAIN syncSources[f] : LoseCheckpoint(f, k)

Next ==
    \/ \E tx \in Tx : Apply(tx)
    \/ OriginStep
    \/ \E f \in Follower : FollowerStep(f)
    \/ Fault

Spec == Init /\ [][Next]_vars

\* Every process goes on: a commit under way is answered, a process that died
\* is started again, the loop of a follower comes round and its requests are
\* answered or refused.  No client need submit anything.
Fairness == WF_vars(OriginStep) /\ \A f \in Follower : WF_vars(FollowerStep(f))

FairSpec == Spec /\ Fairness

-----------------------------------------------------------------------------
(* Properties.                                                               *)

View == [state : Seq(Tx) \cup {Nil}, certificate : Certificates \cup {Nil},
         validatorSet : {1, 2, Nil}]

\* A mirror or the two files: what has a certificate has a state and a set.
ViewOK(v) ==
    /\ v \in View
    /\ v.certificate # Nil => v.state \in Seq(Tx) /\ v.validatorSet \in {1, 2}

IsCheckpoint(m) ==
    /\ m.state \in Seq(Tx)
    /\ m.certificate \in Certificates
    /\ m = createStateCheckpoint(m.state, m.certificate)

RoundOK(f, r) ==
    /\ DOMAIN r = DOMAIN Idle
    /\ r.stage \in {"IDLE", "VALIDATOR_SET", "CHECKPOINTS", "CERTIFICATE",
                    "CHUNKS", "UNCERTIFIED", "DOWN"}
    /\ r.stage = "UNCERTIFIED" => f \in deployment.allowUncertified
    /\ r.stage \in {"CHECKPOINTS", "CERTIFICATE", "CHUNKS"} <=> r.validatorSet # Nil
    /\ r.validatorSet \in {1, 2, Nil}
    /\ DOMAIN r.manifests \subseteq DOMAIN syncSources[f]
    /\ \A k \in DOMAIN r.manifests : r.manifests[k] = Nil \/ IsCheckpoint(r.manifests[k])
    /\ r.agreed \subseteq DOMAIN syncSources[f]
    /\ IF r.stage \in {"CERTIFICATE", "CHUNKS"}
       THEN IsCheckpoint(r.manifest) ELSE r.manifest = Nil
    /\ r.certificate = IF r.stage = "CHUNKS" THEN r.manifest.certificate ELSE Nil
    /\ DOMAIN r.chunks \subseteq
           IF r.stage = "CHUNKS" THEN 1..ChunkCount(r.manifest.state) ELSE {}

\* The shape of the state: the round of a follower holds what its stage has
\* fetched so far, and every checkpoint anywhere is one made of a state.
TypeOK ==
    /\ deployment \in Deployments
    /\ chain \in Seq(Tx) /\ stateFile \in Seq(Tx)
    /\ validatorSet \in {1, 2}
    /\ lastCommit \in Certificates \cup {Nil}
    /\ stage = "APPLIED" => lastCommit \in Certificates
    /\ certificates \subseteq Certificates
    /\ Len(checkpointCache) <= CacheLimit
    /\ checkpointCache \in Seq(Kept)
    /\ \A m \in Kept : IsCheckpoint(m)
    /\ stage \in {"READY", "APPLIED", "DOWN"}
    /\ DOMAIN mirror = Follower /\ DOMAIN file = Follower
    /\ DOMAIN round = Follower
    /\ \A f \in Follower :
          ViewOK(mirror[f]) /\ ViewOK(file[f]) /\ RoundOK(f, round[f])
    /\ faults \in [losses : 0..MaxLosses, crashes : 0..MaxCrashes,
                   originCrashes : 0..MaxOriginCrashes]

\* Every chunk a follower holds is the one its manifest names, whatever the
\* origin commits, forgets or loses while the chunks come in: chunks of
\* different heights are never mixed (state-sync.js:124, validator-node.js:174,
\* server.js:129).
ChunksOfOneCheckpoint ==
    \A f \in Follower : round[f].stage = "CHUNKS" =>
        \A k \in DOMAIN round[f].chunks :
            round[f].chunks[k] = round[f].manifest.chunkHashes[k]

Finalized(m) == m.certificate # Nil /\ m.certificate.state = m.state

\* Followers see one growing chain of finalized states: the certificate on a
\* follower's disk is always of a state the origin has on disk, and the next
\* one extends it, over crashes of both (validator-node.js:88, server.js:23).
FV == INSTANCE FinalizedView WITH
    chain <- stateFile,
    view <- [f \in Follower |->
                IF file[f].certificate = Nil THEN <<>> ELSE file[f].certificate.state],
    uncertified <- deployment.allowUncertified

FinalizedViewSpec == FV!Spec

CaughtUp(f) == Finalized(mirror[f]) /\ mirror[f].state = chain

\* The origin is up and idle.  A state that sealed an epoch has a certificate
\* of the old set and is served with the new one (network-consensus.js:87,
\* server.js:23): followers refuse it until the next commit.
Syncable ==
    /\ stage = "READY"
    /\ chain # <<>> /\ chain[Len(chain)] # Seal

\* When commits and faults end, every follower of one source comes to show the
\* origin's last state under its certificate, those that follow a follower
\* included, also from files a crash left torn (validator-node.js:186).
MirrorsCatchUp ==
    <>[](Syncable => \A f \in Follower : Len(syncSources[f]) = 1 => CaughtUp(f))

\* The same of followers of several sources, which installation requires to
\* agree (README.md:65, docs/NETWORK_CONSENSUS_GUIDE.md:42).
SeveralSourcesCatchUp ==
    <>[](Syncable => \A f \in Follower : Len(syncSources[f]) > 1 => CaughtUp(f))

\* What a replica calls CERTIFICATE_FINALIZED is the state its certificate is
\* of, as long as no follower died between its two files: one that did starts
\* from a state and the certificate of another (validator-node.js:39,63).
FinalizedUnlessTorn ==
    faults.crashes = 0 =>
        \A f \in Follower : mirror[f].certificate # Nil => Finalized(mirror[f])
=============================================================================
