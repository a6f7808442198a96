--------------------------- MODULE ReplicasProofs ---------------------------
(* The safety of the replicas, for every deployment of them, every number of *)
(* followers and transitions, and every number of losses and crashes.        *)
EXTENDS Replicas, FiniteSetTheorems, SequenceTheorems, TLAPS

\* What the assumption says of the numbers.
LEMMA Bounds ==
    /\ CacheLimit \in Nat \ {0}
    /\ MaxLosses \in Nat /\ MaxCrashes \in Nat /\ MaxOriginCrashes \in Nat
BY ReplicasAssumption

-----------------------------------------------------------------------------
(* Checkpoints.                                                              *)

\* What is read of a checkpoint.
LEMMA CheckpointFields ==
    ASSUME NEW s, NEW c
    PROVE  /\ createStateCheckpoint(s, c).state = s
           /\ createStateCheckpoint(s, c).certificate = c
           /\ createStateCheckpoint(s, c).chunkHashes = chunksOf(s)
           /\ DOMAIN chunksOf(s) = 1..ChunkCount(s)
BY DEF createStateCheckpoint, chunksOf

\* A checkpoint is the one of its own state and certificate.
LEMMA CheckpointType ==
    ASSUME NEW m, IsCheckpoint(m)
    PROVE  /\ m.state \in Seq(Tx) /\ m.certificate \in Certificates
           /\ DOMAIN m.chunkHashes = 1..ChunkCount(m.state)
  <1>1. /\ m.state \in Seq(Tx) /\ m.certificate \in Certificates
        /\ m = createStateCheckpoint(m.state, m.certificate)
    BY DEF IsCheckpoint
  <1>2. m.chunkHashes = chunksOf(m.state) /\ DOMAIN chunksOf(m.state) = 1..ChunkCount(m.state)
    BY <1>1, CheckpointFields
  <1> QED BY <1>1, <1>2

\* What createStateCheckpoint returns is a checkpoint of its state.
LEMMA CheckpointMade ==
    ASSUME NEW s \in Seq(Tx), NEW c \in Certificates
    PROVE  IsCheckpoint(createStateCheckpoint(s, c))
BY CheckpointFields DEF IsCheckpoint

\* Of the states and certificates a source has, it serves a checkpoint.
LEMMA CheckpointServed ==
    ASSUME TypeOK, NEW n \in Node, CheckpointOf(n) # Nil
    PROVE  IsCheckpoint(CheckpointOf(n))
  <1>1. CASE n = Origin
    <2>1. CheckpointOf(n) = createStateCheckpoint(chain, atHeight(Len(chain)))
      BY <1>1 DEF CheckpointOf
    <2>2. atHeight(Len(chain)) \in Certificates
      BY <1>1 DEF CheckpointOf, atHeight, TypeOK
    <2> QED BY <2>1, <2>2, CheckpointMade DEF TypeOK
  <1>2. CASE n # Origin
    <2>1. n \in Follower /\ mirror[n].certificate # Nil
          /\ CheckpointOf(n) = createStateCheckpoint(mirror[n].state, mirror[n].certificate)
      BY <1>2 DEF CheckpointOf, Node
    <2>2. mirror[n].state \in Seq(Tx) /\ mirror[n].certificate \in Certificates
      BY <2>1 DEF TypeOK, ViewOK, View
    <2> QED BY <2>1, <2>2, CheckpointMade
  <1> QED BY <1>1, <1>2

\* The places that agree are places of the list, and hold one manifest.
LEMMA AgreedPlaces ==
    ASSUME NEW manifests, NEW k \in agreed(manifests)
    PROVE  k \in DOMAIN manifests /\ manifests[k] # Nil
BY DEF agreed, Supporters

-----------------------------------------------------------------------------
(* Type correctness.                                                         *)

\* The parts of TypeOK that only steps of the origin, or of a follower, touch.
OriginOK ==
    /\ chain \in Seq(Tx) /\ stateFile \in Seq(Tx)
    /\ validatorSet \in {1, 2}
    /\ lastCommit \in Certificates \cup {Nil}
    /\ stage = "APPLIED" => lastCommit \in Certificates
    /\ certificates \subseteq Certificates
    /\ stage \in {"READY", "APPLIED", "DOWN"}

CacheOK ==
    /\ Len(checkpointCache) <= CacheLimit
    /\ checkpointCache \in Seq(Kept)
    /\ \A m \in Kept : IsCheckpoint(m)

ViewsOK(views) ==
    /\ DOMAIN views = Follower
    /\ \A f \in Follower : ViewOK(views[f])

RoundsOK ==
    /\ DOMAIN round = Follower
    /\ \A f \in Follower : RoundOK(f, round[f])

FaultsOK == faults \in [losses : 0..MaxLosses, crashes : 0..MaxCrashes,
                        originCrashes : 0..MaxOriginCrashes]

Parts ==
    /\ deployment \in Deployments
    /\ OriginOK /\ CacheOK /\ ViewsOK(mirror) /\ ViewsOK(file)
    /\ RoundsOK /\ FaultsOK

\* TypeOK is the conjunction of its parts.
LEMMA TypeParts == (TypeOK <=> Parts) /\ (TypeOK' <=> Parts')
BY DEF TypeOK, Parts, OriginOK, CacheOK, ViewsOK, RoundsOK, FaultsOK

\* A round that has fetched nothing.
LEMMA BetweenOK ==
    ASSUME NEW f \in Follower,
           NEW st \in {"IDLE", "VALIDATOR_SET", "UNCERTIFIED", "DOWN"},
           st = "UNCERTIFIED" => f \in deployment.allowUncertified
    PROVE  RoundOK(f, Between(st))
BY DEF RoundOK, Between, Idle

\* So are the rounds that failed, that rest and that are down.
LEMMA FailedOK ==
    ASSUME NEW f \in Follower
    PROVE  RoundOK(f, Failed(f)) /\ RoundOK(f, Idle) /\ RoundOK(f, Down)
BY BetweenOK DEF Failed, Idle, Down

\* A move of one follower to a well-formed round leaves all rounds so.
LEMMA GotoOK ==
    ASSUME TypeOK, NEW f \in Follower, NEW r, Goto(f, r), RoundOK(f, r),
           UNCHANGED deployment
    PROVE  RoundsOK'
  <1> USE DEF syncSources
  <1>1. DOMAIN round = Follower /\ \A g \in Follower : RoundOK(g, round[g])
    BY DEF TypeOK
  <1>2. /\ DOMAIN round' = Follower
        /\ \A g \in Follower : round'[g] = IF g = f THEN r ELSE round[g]
    BY <1>1 DEF Goto
  <1>3. \A g \in Follower : RoundOK(g, round'[g])
    BY <1>1, <1>2
  <1>4. \A g \in Follower : RoundOK(g, round[g])'
    BY <1>3 DEF RoundOK
  <1> QED BY <1>2, <1>4 DEF RoundsOK

\* One more answer from the sources, or none.
LEMMA SettleOK ==
    ASSUME TypeOK, NEW f \in Follower, NEW k, NEW m,
           Unsettled(f, k), Settle(f, k, m), m = Nil \/ IsCheckpoint(m)
    PROVE  \E r : Goto(f, r) /\ RoundOK(f, r)
  <1> DEFINE r == round[f]
             manifests == [j \in DOMAIN r.manifests \cup {k} |->
                              IF j = k THEN m ELSE r.manifests[j]]
             sources == agreed(manifests)
             more == [r EXCEPT !.manifests = manifests]
             done == [r EXCEPT !.stage = "CERTIFICATE", !.manifests = <<>>,
                               !.agreed = sources,
                               !.manifest = manifests[CHOOSE j \in sources : TRUE]]
  <1>1. RoundOK(f, r) /\ r.stage = "CHECKPOINTS" /\ k \in DOMAIN syncSources[f]
    BY DEF TypeOK, Unsettled
  <1>2. /\ DOMAIN manifests \subseteq DOMAIN syncSources[f]
        /\ \A j \in DOMAIN manifests : manifests[j] = Nil \/ IsCheckpoint(manifests[j])
    BY <1>1 DEF RoundOK
  <1>3. RoundOK(f, more)
    BY <1>1, <1>2 DEF RoundOK, Idle, Between
  <1>4. \/ Goto(f, more) \/ Goto(f, Failed(f))
        \/ Goto(f, done) /\ \E q \in {1, 2} : ~(Cardinality(sources) < q)
    <2> HIDE DEF sources
    <2> QED BY DEF Settle, sources
  <1>5. ASSUME NEW q \in {1, 2}, ~(Cardinality(sources) < q)
        PROVE  RoundOK(f, done)
    <2>1. sources # {}
      BY <1>5, FS_EmptySet
    <2>2. (CHOOSE j \in sources : TRUE) \in sources
      BY <2>1
    <2> DEFINE j == CHOOSE i \in sources : TRUE
    <2> HIDE DEF j, manifests, r
    <2>3. /\ sources \subseteq DOMAIN syncSources[f]
          /\ IsCheckpoint(manifests[j])
      BY <1>2, <2>2, AgreedPlaces DEF j
    <2>4. done = [r EXCEPT !.stage = "CERTIFICATE", !.manifests = <<>>,
                           !.agreed = sources, !.manifest = manifests[j]]
      BY DEF j
    <2> HIDE DEF sources, done
    <2> QED BY <1>1, <2>3, <2>4 DEF RoundOK, Idle, Between
  <1> HIDE DEF more, done
  <1> QED BY <1>3, <1>4, <1>5, FailedOK

\* The cache after one more checkpoint was served.
LEMMA CachedOK ==
    ASSUME CacheOK, NEW m, IsCheckpoint(m), checkpointCache' = Cached(m)
    PROVE  CacheOK'
  <1>1. CASE m \in Kept
    <2>1. checkpointCache' = checkpointCache
      BY <1>1 DEF Cached
    <2> QED BY <2>1 DEF CacheOK, Kept
  <1>2. CASE m \notin Kept
    <2> DEFINE old == IF Len(checkpointCache) < CacheLimit
                      THEN checkpointCache ELSE Tail(checkpointCache)
               S == Kept \cup {m}
    <2>0. CacheLimit \in Nat \ {0} /\ checkpointCache \in Seq(Kept)
          /\ Len(checkpointCache) <= CacheLimit
      BY Bounds DEF CacheOK
    <2>1. old \in Seq(S) /\ Len(old) < CacheLimit
      <3>1. CASE Len(checkpointCache) < CacheLimit
        BY <2>0, <3>1
      <3>2. CASE ~(Len(checkpointCache) < CacheLimit)
        <4>1. Len(checkpointCache) = CacheLimit /\ checkpointCache # <<>>
          BY <2>0, <3>2
        <4>2. Tail(checkpointCache) \in Seq(Kept)
              /\ Len(Tail(checkpointCache)) = Len(checkpointCache) - 1
          BY <2>0, <4>1
        <4> QED BY <2>0, <3>2, <4>1, <4>2
      <3> QED BY <3>1, <3>2
    <2>2. checkpointCache' = Append(old, m)
      BY <1>2 DEF Cached
    <2> HIDE DEF old
    <2>3. checkpointCache' \in Seq(S) /\ Len(checkpointCache') <= CacheLimit
      BY <2>0, <2>1, <2>2
    <2>4. checkpointCache' \in Seq(Kept')
      BY <2>3 DEF Kept
    <2>5. \A c \in Kept' : IsCheckpoint(c)
      BY <2>3 DEF Kept, CacheOK
    <2> QED BY <2>3, <2>4, <2>5 DEF CacheOK
  <1> QED BY <1>1, <1>2

\* A server that has just started has no checkpoints.
LEMMA EmptyCacheOK ==
    ASSUME checkpointCache' = <<>>
    PROVE  CacheOK'
BY Bounds DEF CacheOK, Kept

\* A follower dies: its memory is lost.
LEMMA FollowerDownOK ==
    ASSUME TypeOK, NEW f \in Follower, FollowerDown(f), UNCHANGED deployment
    PROVE  ViewsOK(mirror)' /\ RoundsOK' /\ FaultsOK'
  <1>1. RoundsOK'
    BY GotoOK, FailedOK DEF FollowerDown
  <1>2. FaultsOK'
    <2>1. /\ faults.crashes < MaxCrashes
          /\ faults' = [faults EXCEPT !.crashes = @ + 1]
      BY DEF FollowerDown
    <2>2. FaultsOK
      BY DEF TypeOK, FaultsOK
    <2> QED BY Bounds, <2>1, <2>2 DEF FaultsOK
  <1>3. ViewsOK(mirror)'
    BY DEF FollowerDown, TypeOK, ViewsOK, ViewOK, View, Empty
  <1> QED BY <1>1, <1>2, <1>3

\* What is taken goes into memory, into both files or, torn, into one.
LEMMA InstallOK ==
    ASSUME TypeOK, NEW f \in Follower, NEW taken, ViewOK(taken),
           taken.state \in Seq(Tx), Install(f, taken), UNCHANGED deployment
    PROVE  ViewsOK(mirror)' /\ ViewsOK(file)' /\ RoundsOK' /\ FaultsOK'
  <1>1. CASE /\ mirror' = [mirror EXCEPT ![f] = taken]
             /\ file' = [file EXCEPT ![f] = taken]
             /\ Goto(f, Idle)
             /\ UNCHANGED faults
    <2>1. RoundsOK' /\ FaultsOK'
      BY <1>1, GotoOK, FailedOK DEF TypeOK, FaultsOK
    <2>2. ViewsOK(mirror)' /\ ViewsOK(file)'
      BY <1>1 DEF TypeOK, ViewsOK
    <2> QED BY <2>1, <2>2
  <1>2. CASE /\ file' = [file EXCEPT ![f].state = taken.state]
             /\ FollowerDown(f)
    <2>1. ViewsOK(file)'
      BY <1>2 DEF TypeOK, ViewsOK, ViewOK, View
    <2> QED BY <1>2, <2>1, FollowerDownOK
  <1> QED BY <1>1, <1>2 DEF Install

\* A step of the origin alone leaves what followers hold as it is.
LEMMA FollowersUnchanged ==
    ASSUME TypeOK, UNCHANGED <<deployment, followerVars>>
    PROVE  deployment' \in Deployments /\ ViewsOK(mirror)' /\ ViewsOK(file)' /\ RoundsOK'
BY DEF TypeOK, followerVars, ViewsOK, RoundsOK, RoundOK, syncSources

\* The part of the origin is kept by steps that do not touch it.
LEMMA OriginUnchanged ==
    ASSUME TypeOK, UNCHANGED <<deployment, originVars>>
    PROVE  deployment' \in Deployments /\ OriginOK' /\ CacheOK'
BY TypeParts DEF Parts, originVars, OriginOK, CacheOK, Kept

\* The certificates the coordinator makes.
LEMMA CertificateType ==
    ASSUME NEW s \in Seq(Tx), NEW set \in {1, 2},
           NEW phase \in {"PRECOMMIT", "CHECKPOINT"}
    PROVE  /\ Certificate(s, set, phase) \in Certificates
           /\ Certificate(s, set, phase).state = s
BY DEF Certificate, Certificates

\* A server that dies loses what it had in memory only.
LEMMA OriginDownOK ==
    ASSUME TypeOK, OriginDown, stateFile' \in Seq(Tx), certificates' = certificates
    PROVE  OriginOK' /\ CacheOK' /\ FaultsOK'
  <1>1. OriginOK'
    BY DEF OriginDown, TypeOK, OriginOK
  <1>2. CacheOK'
    BY EmptyCacheOK DEF OriginDown
  <1>3. FaultsOK'
    <2>1. /\ faults.originCrashes < MaxOriginCrashes
          /\ faults' = [faults EXCEPT !.originCrashes = @ + 1]
      BY DEF OriginDown
    <2>2. FaultsOK
      BY DEF TypeOK, FaultsOK
    <2> QED BY Bounds, <2>1, <2>2 DEF FaultsOK
  <1> QED BY <1>1, <1>2, <1>3

\* A round that goes on, with everything else as it is.
LEMMA OnlyRound ==
    ASSUME TypeOK, NEW f \in Follower, NEW r, Goto(f, r), RoundOK(f, r),
           UNCHANGED <<deployment, originVars, mirror, file, faults>>
    PROVE  TypeOK'
BY GotoOK, OriginUnchanged, TypeParts DEF Parts, ViewsOK, FaultsOK

\* The steps of a round preserve the types.
LEMMA FollowerTypeStep ==
    ASSUME TypeOK, NEW f \in Follower, FollowerStep(f)
    PROVE  TypeOK'
  <1>0. RoundOK(f, round[f])
    BY DEF TypeOK
  <1>1. CASE Follow(f)
    BY <1>1, BetweenOK, OnlyRound DEF Follow
  <1>2. CASE ReceiveValidatorSet(f)
    <2> DEFINE r == [Between("CHECKPOINTS") EXCEPT
                         !.validatorSet = ValidatorSetOf(baseUrl[f])]
    <2>1. ValidatorSetOf(baseUrl[f]) \in {1, 2}
      <3>1. deployment \in Deployment
        BY ReplicasAssumption DEF TypeOK
      <3>2. baseUrl[f] \in Node
        BY <3>1 DEF Deployment, baseUrl
      <3>3. \A n \in Node : ValidatorSetOf(n) \in {1, 2, Nil}
        BY DEF ValidatorSetOf, TypeOK, ViewOK, View, Node
      <3> QED BY <1>2, <3>2, <3>3 DEF ReceiveValidatorSet
    <2>2. RoundOK(f, r)
      BY <1>2, <2>1 DEF RoundOK, Between, Idle, ReceiveValidatorSet
    <2> QED BY <1>2, <2>2, OnlyRound DEF ReceiveValidatorSet
  <1>3. CASE ReceiveCertificate(f)
    <2> DEFINE r == [round[f] EXCEPT !.stage = "CHUNKS",
                                     !.certificate = round[f].manifest.certificate]
    <2>1. RoundOK(f, r)
      BY <1>0, <1>3 DEF RoundOK, Between, Idle, ReceiveCertificate
    <2> QED BY <1>3, <2>1, OnlyRound DEF ReceiveCertificate
  <1>4. CASE InstallState(f)
    <2> DEFINE taken == [state |-> round[f].manifest.state,
                         certificate |-> round[f].certificate,
                         validatorSet |-> round[f].validatorSet]
    <2>1. IsCheckpoint(round[f].manifest)
          /\ round[f].certificate = round[f].manifest.certificate
          /\ round[f].validatorSet \in {1, 2}
      BY <1>0, <1>4 DEF InstallState, Complete, RoundOK
    <2>2. ViewOK(taken) /\ taken.state \in Seq(Tx)
      BY <2>1 DEF ViewOK, View, IsCheckpoint
    <2>3. Install(f, taken) /\ UNCHANGED <<deployment, originVars>>
      BY <1>4 DEF InstallState
    <2> QED BY <2>2, <2>3, InstallOK, OriginUnchanged, TypeParts DEF Parts
  <1>5. CASE RejectState(f)
    BY <1>5, FailedOK, OnlyRound DEF RejectState
  <1>6. CASE ReceiveState(f)
    <2> DEFINE taken == [Empty EXCEPT !.state = chain]
    <2>1. ViewOK(taken) /\ taken.state \in Seq(Tx)
      BY DEF ViewOK, View, Empty, TypeOK
    <2>2. Install(f, taken) /\ UNCHANGED <<deployment, originVars>>
      BY <1>6 DEF ReceiveState
    <2> QED BY <2>1, <2>2, InstallOK, OriginUnchanged, TypeParts DEF Parts
  <1>7. CASE Refused(f)
    BY <1>7, FailedOK, OnlyRound DEF Refused
  <1>8. ASSUME NEW k \in DOMAIN syncSources[f], ReceiveCheckpoint(f, k)
        PROVE  TypeOK'
    <2> DEFINE n == syncSources[f][k]
    <2>1. n \in Node
      <3>1. deployment \in Deployment
        BY ReplicasAssumption DEF TypeOK
      <3>2. syncSources[f] \in Seq(Node)
        BY <3>1 DEF Deployment, syncSources
      <3> QED BY <1>8, <3>2
    <2>2. CheckpointOf(n) = Nil \/ IsCheckpoint(CheckpointOf(n))
      BY <2>1, CheckpointServed
    <2>3. PICK r : Goto(f, r) /\ RoundOK(f, r)
      BY <1>8, <2>2, SettleOK DEF ReceiveCheckpoint
    <2>4. /\ UNCHANGED <<deployment, chain, stateFile, validatorSet, lastCommit,
                         certificates, stage, mirror, file, faults>>
          /\ \/ checkpointCache' = checkpointCache
             \/ IsCheckpoint(CheckpointOf(n)) /\ checkpointCache' = Cached(CheckpointOf(n))
      BY <1>8, <2>2 DEF ReceiveCheckpoint
    <2>5. CacheOK
      BY TypeParts DEF Parts
    <2>6. CacheOK'
      <3>1. CASE checkpointCache' = checkpointCache
        BY <2>5, <3>1 DEF CacheOK, Kept
      <3> QED BY <2>4, <2>5, <3>1, CachedOK
    <2>7. RoundsOK'
      BY <2>3, <2>4, GotoOK
    <2> QED BY <2>4, <2>6, <2>7, TypeParts DEF Parts, OriginOK, ViewsOK, FaultsOK
  <1>9. ASSUME NEW k \in Missing(f), ReceiveChunk(f, k)
        PROVE  TypeOK'
    <2> DEFINE chunks == [j \in DOMAIN round[f].chunks \cup {k} |->
                             IF j = k THEN Source(f, k).chunkHashes[k]
                             ELSE round[f].chunks[j]]
               r == [round[f] EXCEPT !.chunks = chunks]
    <2>1. round[f].stage = "CHUNKS" /\ Goto(f, r)
          /\ UNCHANGED <<deployment, originVars, mirror, file, faults>>
      BY <1>9 DEF ReceiveChunk
    <2>2. k \in 1..ChunkCount(round[f].manifest.state)
      BY <1>0, <1>9, <2>1, CheckpointType DEF Missing, RoundOK
    <2>3. DOMAIN chunks = DOMAIN round[f].chunks \cup {k}
      OBVIOUS
    <2> HIDE DEF chunks
    <2>4. RoundOK(f, r)
      BY <1>0, <2>1, <2>2, <2>3 DEF RoundOK, Between, Idle
    <2> QED BY <2>1, <2>4, OnlyRound
  <1>10. CASE FollowerStart(f)
    <2>1. /\ mirror' = [mirror EXCEPT ![f] = file[f]] /\ Goto(f, Idle)
          /\ UNCHANGED <<deployment, originVars, file, faults>>
      BY <1>10 DEF FollowerStart
    <2>2. ViewsOK(mirror)' /\ ViewsOK(file)'
      BY <2>1 DEF TypeOK, ViewsOK
    <2> QED BY <2>1, <2>2, GotoOK, FailedOK, OriginUnchanged, TypeParts DEF Parts, FaultsOK
  <1> QED BY <1>1, <1>2, <1>3, <1>4, <1>5, <1>6, <1>7, <1>8, <1>9, <1>10
          DEF FollowerStep

\* So do lost requests and the crash of a follower.
LEMMA FaultTypeStep ==
    ASSUME TypeOK, NEW f \in Follower,
           \/ LoseRequest(f) \/ FollowerCrash(f)
           \/ \E k \in DOMAIN syncSources[f] : LoseCheckpoint(f, k)
    PROVE  TypeOK'
  <1>1. ASSUME Lose, NEW r, Goto(f, r), RoundOK(f, r)
        PROVE  TypeOK'
    <2>1. /\ faults.losses < MaxLosses
          /\ faults' = [faults EXCEPT !.losses = @ + 1]
          /\ UNCHANGED <<deployment, originVars, mirror, file>>
      BY <1>1 DEF Lose
    <2>2. FaultsOK
      BY DEF TypeOK, FaultsOK
    <2>3. FaultsOK'
      BY <2>1, <2>2, Bounds DEF FaultsOK
    <2> QED BY <1>1, <2>1, <2>3, GotoOK, OriginUnchanged, TypeParts DEF Parts, ViewsOK
  <1>2. CASE LoseRequest(f)
    BY <1>1, <1>2, FailedOK DEF LoseRequest
  <1>3. ASSUME NEW k \in DOMAIN syncSources[f], LoseCheckpoint(f, k)
        PROVE  TypeOK'
    BY <1>1, <1>3, SettleOK DEF LoseCheckpoint
  <1>4. CASE FollowerCrash(f)
    <2>1. FollowerDown(f) /\ UNCHANGED <<deployment, originVars, file>>
      BY <1>4 DEF FollowerCrash
    <2> QED BY <2>1, FollowerDownOK, OriginUnchanged, TypeParts DEF Parts, ViewsOK
  <1> QED BY <1>2, <1>3, <1>4

\* Every step keeps the shape of the state.
LEMMA TypeStep ==
    ASSUME TypeOK, [Next]_vars
    PROVE  TypeOK'
  <1> USE TypeParts DEF Parts
  <1>1. ASSUME NEW tx \in Tx, Apply(tx)
        PROVE  TypeOK'
    <2>1. /\ OriginOK' /\ CacheOK'
      <3>1. /\ chain' \in Seq(Tx) /\ validatorSet \in {1, 2}
            /\ lastCommit' = Certificate(chain', validatorSet, "PRECOMMIT")
            /\ stage' = "APPLIED"
            /\ UNCHANGED <<stateFile, validatorSet, certificates, checkpointCache>>
        BY <1>1 DEF Apply, TypeOK
      <3> QED BY <3>1, CertificateType DEF OriginOK, CacheOK, Kept
    <2>2. UNCHANGED <<deployment, followerVars, faults>>
      BY <1>1 DEF Apply
    <2> QED BY <2>1, <2>2, FollowersUnchanged DEF FaultsOK
  <1>2. CASE FinishCommit
    <2>1. UNCHANGED <<deployment, followerVars>> /\ stateFile' \in Seq(Tx)
      BY <1>2 DEF FinishCommit, TypeOK
    <2>2. CASE OriginDown /\ UNCHANGED certificates
      BY <2>1, <2>2, FollowersUnchanged, OriginDownOK
    <2>3. CASE ~(OriginDown /\ UNCHANGED certificates)
      <3>1. /\ validatorSet' = EpochOf(chain) /\ certificates' = append(lastCommit)
            /\ stage' = "READY" /\ stage = "APPLIED"
            /\ UNCHANGED <<chain, lastCommit, checkpointCache, faults>>
        BY <1>2, <2>3 DEF FinishCommit
      <3>2. certificates' \subseteq Certificates
        BY <3>1 DEF append, TypeOK
      <3> QED BY <2>1, <3>1, <3>2, FollowersUnchanged
              DEF OriginOK, CacheOK, Kept, EpochOf, FaultsOK
    <2> QED BY <2>2, <2>3
  <1>3. CASE OriginStart
    <2>1. UNCHANGED <<deployment, followerVars, faults>>
      BY <1>3 DEF OriginStart
    <2>2. EpochOf(stateFile) \in {1, 2}
      BY DEF EpochOf
    <2>3. certificates' \subseteq Certificates
      <3>1. Certificate(stateFile, EpochOf(stateFile), "CHECKPOINT") \in Certificates
        BY <2>2, CertificateType DEF TypeOK
      <3> QED BY <1>3, <3>1 DEF OriginStart, append, TypeOK
    <2>4. OriginOK' /\ CacheOK'
      <3>1. /\ chain' = stateFile /\ stateFile' = stateFile
            /\ validatorSet' = EpochOf(stateFile) /\ lastCommit' = Nil
            /\ checkpointCache' = <<>> /\ stage' = "READY"
        BY <1>3 DEF OriginStart
      <3>2. CacheOK'
        BY <3>1, EmptyCacheOK
      <3> QED BY <2>2, <2>3, <3>1, <3>2 DEF OriginOK
    <2> QED BY <2>1, <2>4, FollowersUnchanged DEF FaultsOK
  <1>4. CASE OriginCrash
    BY <1>4, FollowersUnchanged, OriginDownOK DEF OriginCrash, TypeOK
  <1>5. ASSUME NEW f \in Follower, FollowerStep(f)
        PROVE  TypeOK'
    BY <1>5, FollowerTypeStep
  <1>6. ASSUME NEW f \in Follower,
               \/ LoseRequest(f) \/ FollowerCrash(f)
               \/ \E k \in DOMAIN syncSources[f] : LoseCheckpoint(f, k)
        PROVE  TypeOK'
    BY <1>6, FaultTypeStep
  <1>7. CASE UNCHANGED vars
    BY <1>7, FollowersUnchanged, OriginUnchanged DEF vars, FaultsOK
  <1> QED BY <1>1, <1>2, <1>3, <1>4, <1>5, <1>6, <1>7 DEF Next, OriginStep, Fault

\* The initial states have the types.
LEMMA TypeInit == Init => TypeOK
  <1> SUFFICES ASSUME Init
               PROVE  TypeOK
    OBVIOUS
  <1>1. ViewsOK(mirror) /\ ViewsOK(file)
    BY DEF Init, ViewsOK, ViewOK, View, Empty
  <1>2. RoundsOK
    BY FailedOK DEF Init, RoundsOK
  <1>3. OriginOK /\ deployment \in Deployments
    BY DEF Init, OriginOK
  <1>4. CacheOK
    BY Bounds DEF Init, CacheOK, Kept
  <1>5. FaultsOK
    BY Bounds DEF Init, FaultsOK
  <1> QED BY <1>1, <1>2, <1>3, <1>4, <1>5, TypeParts DEF Parts

\* The state always has its shape: what a follower has fetched fits the stage
\* of its round, a mirror with a certificate has a state and a validator set,
\* and what is offered anywhere is a checkpoint some state was cut into; the
\* origin never keeps more than CacheLimit of them (validator-node.js:64,
\* server.js:89).
THEOREM TypeCorrect == Spec => []TypeOK
  <1>1. TypeOK /\ [Next]_vars => TypeOK'
    BY TypeStep
  <1> QED BY TypeInit, <1>1, PTL DEF Spec

-----------------------------------------------------------------------------
(* What a step of a follower does to the certificates it holds.              *)

\* The certificates of the checkpoints a round has been offered.
Held(r) ==
    {r.manifests[k].certificate : k \in {j \in DOMAIN r.manifests : r.manifests[j] # Nil}}
    \cup IF r.stage \in {"CERTIFICATE", "CHUNKS"} THEN {r.manifest.certificate} ELSE {}

\* The certificates its sources would offer it now.
Offers(f) ==
    {CheckpointOf(syncSources[f][k]).certificate :
        k \in {j \in DOMAIN syncSources[f] : CheckpointOf(syncSources[f][j]) # Nil}}

Fetches(f) ==
    /\ round[f].stage # "DOWN"
    /\ UNCHANGED <<mirror, file, faults.crashes>>
    /\ \E r : /\ Goto(f, r) /\ r.stage # "DOWN"
              /\ Held(r) \subseteq Held(round[f]) \cup Offers(f)

Installs(f, taken) ==
    /\ round[f].stage # "DOWN"
    /\ mirror' = [mirror EXCEPT ![f] = taken]
    /\ file' = [file EXCEPT ![f] = taken]
    /\ Goto(f, Idle)
    /\ UNCHANGED faults

Takes(f) ==
    /\ Len(syncSources[f]) = 1
    /\ \E c \in Held(round[f]), set \in {1, 2} :
          Installs(f, [state |-> c.state, certificate |-> c, validatorSet |-> set])

Withdraws(f) ==
    /\ f \in deployment.allowUncertified
    /\ Installs(f, [Empty EXCEPT !.state = chain])

Dies(f) ==
    /\ faults.crashes' = faults.crashes + 1
    /\ mirror' = [mirror EXCEPT ![f] = Empty]
    /\ \A g \in Follower : file'[g].certificate = file[g].certificate
    /\ Goto(f, Down)

Starts(f) ==
    /\ round[f].stage = "DOWN"
    /\ mirror' = [mirror EXCEPT ![f] = file[f]]
    /\ Goto(f, Idle)
    /\ UNCHANGED <<file, faults>>

Moves(f) ==
    /\ UNCHANGED <<deployment, chain, stateFile, lastCommit, certificates, stage>>
    /\ Fetches(f) \/ Takes(f) \/ Withdraws(f) \/ Dies(f) \/ Starts(f)

OriginMoves ==
    /\ (\E tx \in Tx : Apply(tx)) \/ FinishCommit \/ OriginStart \/ OriginCrash
    /\ UNCHANGED <<deployment, followerVars, faults.crashes>>

\* A follower between two requests holds no checkpoint.
LEMMA HeldNothing ==
    ASSUME NEW st \in {"IDLE", "VALIDATOR_SET", "UNCERTIFIED", "DOWN"}
    PROVE  Held(Between(st)) = {}
BY DEF Held, Between

\* Nor does one that failed, rests or is down.
LEMMA HeldFailed ==
    ASSUME NEW f
    PROVE  /\ Held(Failed(f)) = {} /\ Held(Idle) = {} /\ Held(Down) = {}
           /\ Failed(f).stage # "DOWN" /\ Idle.stage = "IDLE" /\ Down.stage = "DOWN"
BY HeldNothing DEF Failed, Idle, Down, Between

\* With one more answer, a round holds what it held and what was answered.
LEMMA SettleHeld ==
    ASSUME TypeOK, NEW f \in Follower, NEW k, NEW m,
           Unsettled(f, k), Settle(f, k, m), m = Nil \/ IsCheckpoint(m)
    PROVE  \E r : /\ Goto(f, r) /\ r.stage # "DOWN"
                  /\ Held(r) \subseteq Held(round[f]) \cup
                                       (IF m = Nil THEN {} ELSE {m.certificate})
  <1> DEFINE r == round[f]
             all == Held(r) \cup (IF m = Nil THEN {} ELSE {m.certificate})
             manifests == [j \in DOMAIN r.manifests \cup {k} |->
                              IF j = k THEN m ELSE r.manifests[j]]
             sources == agreed(manifests)
             more == [r EXCEPT !.manifests = manifests]
             done == [r EXCEPT !.stage = "CERTIFICATE", !.manifests = <<>>,
                               !.agreed = sources,
                               !.manifest = manifests[CHOOSE j \in sources : TRUE]]
  <1>1. RoundOK(f, r) /\ r.stage = "CHECKPOINTS"
    BY DEF TypeOK, Unsettled
  <1>2. \A j \in DOMAIN manifests :
            manifests[j] # Nil => manifests[j].certificate \in all
    BY DEF Held
  <1>3. Held(more) \subseteq all /\ more.stage # "DOWN"
    <2>1. more.stage = "CHECKPOINTS" /\ more.manifests = manifests
      BY <1>1 DEF RoundOK, Idle, Between
    <2> HIDE DEF more, manifests, all
    <2> QED BY <1>2, <2>1 DEF Held
  <1>4. \/ Goto(f, more) \/ Goto(f, Failed(f))
        \/ Goto(f, done) /\ \E q \in {1, 2} : ~(Cardinality(sources) < q)
    <2> HIDE DEF sources
    <2> QED BY DEF Settle, sources
  <1>5. ASSUME NEW q \in {1, 2}, ~(Cardinality(sources) < q)
        PROVE  Held(done) \subseteq all /\ done.stage # "DOWN"
    <2>1. sources # {}
      BY <1>5, FS_EmptySet
    <2>2. PICK j \in sources : j = CHOOSE i \in sources : TRUE
      BY <2>1
    <2>3. j \in DOMAIN manifests /\ manifests[j] # Nil
      BY AgreedPlaces
    <2> HIDE DEF manifests, sources, r
    <2>4. done.stage = "CERTIFICATE" /\ done.manifests = <<>>
          /\ done.manifest = manifests[j]
      BY <1>1, <2>2 DEF RoundOK, Idle, Between
    <2> HIDE DEF done, all
    <2> QED BY <1>2, <2>3, <2>4 DEF Held
  <1> HIDE DEF more, done, manifests, sources, r
  <1> QED BY <1>3, <1>4, <1>5, HeldFailed DEF r

\* What a follower installs, it installs whole, or it dies half way.
LEMMA InstallMoves ==
    ASSUME NEW f \in Follower, NEW taken, TypeOK, Install(f, taken),
           round[f].stage # "DOWN"
    PROVE  Installs(f, taken) \/ Dies(f)
  <1>1. CASE /\ file' = [file EXCEPT ![f].state = taken.state]
             /\ FollowerDown(f)
    <2>1. \A g \in Follower : file'[g].certificate = file[g].certificate
      BY <1>1 DEF TypeOK, ViewOK, View
    <2>2. faults.crashes' = faults.crashes + 1
      BY <1>1 DEF FollowerDown, TypeOK
    <2> QED BY <1>1, <2>1, <2>2 DEF FollowerDown, Dies
  <1>2. CASE ~(/\ file' = [file EXCEPT ![f].state = taken.state]
               /\ FollowerDown(f))
    BY <1>2 DEF Install, Installs
  <1> QED BY <1>1, <1>2

\* Every step of a follower is one of the five kinds of move.
LEMMA FollowerMoves ==
    ASSUME TypeOK, NEW f \in Follower,
           \/ FollowerStep(f) \/ LoseRequest(f) \/ FollowerCrash(f)
           \/ \E k \in DOMAIN syncSources[f] : LoseCheckpoint(f, k)
    PROVE  Moves(f)
  <1>0. RoundOK(f, round[f]) /\ faults.crashes \in Nat
    BY Bounds DEF TypeOK
  <1> DEFINE Rest == UNCHANGED <<deployment, chain, stateFile, lastCommit,
                                 certificates, stage>>
  <1>a. ASSUME NEW r, Goto(f, r), Held(r) \subseteq Held(round[f]),
               r.stage # "DOWN", round[f].stage # "DOWN",
               UNCHANGED <<mirror, file, faults.crashes>>, Rest
        PROVE  Moves(f)
    BY <1>a DEF Moves, Fetches
  <1>b. ASSUME NEW k \in DOMAIN syncSources[f], NEW m,
               m = Nil \/ (IsCheckpoint(m) /\ m = CheckpointOf(syncSources[f][k])),
               Unsettled(f, k), Settle(f, k, m),
               UNCHANGED <<mirror, file, faults.crashes>>, Rest
        PROVE  Moves(f)
    <2>1. PICK r : /\ Goto(f, r) /\ r.stage # "DOWN"
                   /\ Held(r) \subseteq Held(round[f]) \cup
                                        (IF m = Nil THEN {} ELSE {m.certificate})
      BY <1>b, SettleHeld
    <2>2. (IF m = Nil THEN {} ELSE {m.certificate}) \subseteq Offers(f)
      BY <1>b DEF Offers
    <2>3. round[f].stage # "DOWN"
      BY <1>b DEF Unsettled
    <2>4. Held(r) \subseteq Held(round[f]) \cup Offers(f)
      BY <2>1, <2>2
    <2> QED BY <1>b, <2>1, <2>3, <2>4 DEF Moves, Fetches
  <1>c. ASSUME Lose
        PROVE  UNCHANGED <<mirror, file, faults.crashes>> /\ Rest
    BY <1>c DEF Lose, TypeOK, originVars
  <1>1. CASE Follow(f)
    <2>1. Held(Between("VALIDATOR_SET")) = {} /\ Between("VALIDATOR_SET").stage # "DOWN"
      BY HeldNothing DEF Between
    <2> QED BY <1>1, <1>a, <2>1 DEF Follow, originVars
  <1>2. CASE ReceiveValidatorSet(f)
    <2> DEFINE r == [Between("CHECKPOINTS") EXCEPT
                         !.validatorSet = ValidatorSetOf(baseUrl[f])]
    <2>1. Held(r) = {} /\ r.stage # "DOWN"
      BY DEF Held, Between
    <2> QED BY <1>2, <1>a, <2>1 DEF ReceiveValidatorSet, originVars
  <1>3. CASE ReceiveCertificate(f)
    <2> DEFINE r == [round[f] EXCEPT !.stage = "CHUNKS",
                                     !.certificate = round[f].manifest.certificate]
    <2>1. /\ r.stage = "CHUNKS" /\ r.manifests = round[f].manifests
          /\ r.manifest = round[f].manifest /\ round[f].stage = "CERTIFICATE"
      BY <1>0, <1>3 DEF RoundOK, Idle, Between, ReceiveCertificate
    <2>2. Held(r) = Held(round[f])
      <3> HIDE DEF r
      <3> QED BY <2>1 DEF Held
    <2> QED BY <1>3, <1>a, <2>1, <2>2 DEF ReceiveCertificate, originVars
  <1>4. CASE InstallState(f)
    <2> DEFINE c == round[f].certificate
    <2>1. /\ round[f].stage = "CHUNKS" /\ c = round[f].manifest.certificate
          /\ round[f].validatorSet \in {1, 2}
      BY <1>0, <1>4 DEF InstallState, Complete, RoundOK
    <2>2. c \in Held(round[f]) /\ c.state = round[f].manifest.state
      BY <1>4, <2>1 DEF Held, InstallState, Verified, verifyStateCheckpoint,
                        verifyFinalityCertificate
    <2>3. Installs(f, [state |-> c.state, certificate |-> c,
                       validatorSet |-> round[f].validatorSet])
          \/ Dies(f)
      BY <1>4, <2>1, <2>2, InstallMoves DEF InstallState
    <2> QED BY <1>4, <2>1, <2>2, <2>3 DEF InstallState, Moves, Takes, originVars
  <1>5. CASE RejectState(f)
    BY <1>5, <1>a, HeldFailed DEF RejectState, Complete, originVars
  <1>6. CASE ReceiveState(f)
    <2>1. Installs(f, [Empty EXCEPT !.state = chain]) \/ Dies(f)
      BY <1>6, InstallMoves DEF ReceiveState
    <2>2. f \in deployment.allowUncertified
      BY <1>0, <1>6 DEF ReceiveState, RoundOK
    <2> QED BY <1>6, <2>1, <2>2 DEF ReceiveState, Moves, Withdraws, originVars
  <1>7. CASE Refused(f)
    BY <1>7, <1>a, HeldFailed DEF Refused, originVars
  <1>8. ASSUME NEW k \in DOMAIN syncSources[f], ReceiveCheckpoint(f, k)
        PROVE  Moves(f)
    <2>1. syncSources[f][k] \in Node
      <3>1. deployment \in Deployment
        BY ReplicasAssumption DEF TypeOK
      <3>2. syncSources[f] \in Seq(Node)
        BY <3>1 DEF Deployment, syncSources
      <3> QED BY <1>8, <3>2
    <2> QED BY <1>8, <2>1, <1>b, CheckpointServed DEF ReceiveCheckpoint
  <1>9. ASSUME NEW k \in Missing(f), ReceiveChunk(f, k)
        PROVE  Moves(f)
    <2>1. PICK chunks : Goto(f, [round[f] EXCEPT !.chunks = chunks])
      BY <1>9 DEF ReceiveChunk
    <2> DEFINE r == [round[f] EXCEPT !.chunks = chunks]
    <2>2. /\ r.stage = "CHUNKS" /\ r.manifests = round[f].manifests
          /\ r.manifest = round[f].manifest /\ round[f].stage = "CHUNKS"
      BY <1>0, <1>9 DEF RoundOK, Idle, Between, ReceiveChunk
    <2>3. Held(r) = Held(round[f])
      <3> HIDE DEF r
      <3> QED BY <2>2 DEF Held
    <2> QED BY <1>9, <1>a, <2>1, <2>2, <2>3 DEF ReceiveChunk, originVars
  <1>10. CASE FollowerStart(f)
    BY <1>10 DEF FollowerStart, Moves, Starts, originVars
  <1>11. CASE LoseRequest(f)
    BY <1>11, <1>a, <1>c, HeldFailed DEF LoseRequest
  <1>12. ASSUME NEW k \in DOMAIN syncSources[f], LoseCheckpoint(f, k)
         PROVE  Moves(f)
    BY <1>12, <1>b, <1>c DEF LoseCheckpoint
  <1>13. CASE FollowerCrash(f)
    <2>1. faults.crashes' = faults.crashes + 1
      BY <1>13 DEF FollowerCrash, FollowerDown, TypeOK
    <2> QED BY <1>13, <2>1 DEF FollowerCrash, FollowerDown, Moves, Dies, originVars
  <1> QED BY <1>1, <1>2, <1>3, <1>4, <1>5, <1>6, <1>7, <1>8, <1>9, <1>10,
             <1>11, <1>12, <1>13 DEF FollowerStep

\* A step is one of the origin, one of a follower, or none.
LEMMA StepMoves ==
    ASSUME TypeOK, [Next]_vars
    PROVE  \/ OriginMoves
           \/ \E f \in Follower : Moves(f)
           \/ UNCHANGED vars
  <1>1. ASSUME \/ \E tx \in Tx : Apply(tx)
               \/ FinishCommit \/ OriginStart \/ OriginCrash
        PROVE  OriginMoves
    <2>1. UNCHANGED <<deployment, followerVars>>
      BY <1>1 DEF Apply, FinishCommit, OriginStart, OriginCrash
    <2>2. OriginDown => faults.crashes' = faults.crashes
      BY DEF OriginDown, TypeOK
    <2>3. faults.crashes' = faults.crashes
      BY <1>1, <2>2 DEF Apply, FinishCommit, OriginStart, OriginCrash
    <2> QED BY <1>1, <2>1, <2>3 DEF OriginMoves
  <1> QED BY <1>1, FollowerMoves DEF Next, OriginStep, Fault

-----------------------------------------------------------------------------
(* Chunks.                                                                   *)

Matching(r) ==
    r.stage = "CHUNKS" =>
        \A k \in DOMAIN r.chunks : r.chunks[k] = r.manifest.chunkHashes[k]

\* A round of one follower changes, to one whose chunks match.
LEMMA MatchingGoto ==
    ASSUME TypeOK, ChunksOfOneCheckpoint, NEW f \in Follower, NEW r,
           Goto(f, r), Matching(r)
    PROVE  ChunksOfOneCheckpoint'
  <1>1. \A g \in Follower : round'[g] = IF g = f THEN r ELSE round[g]
    BY DEF Goto, TypeOK
  <1>2. \A g \in Follower : Matching(round[g])
    BY DEF ChunksOfOneCheckpoint, Matching
  <1>3. \A g \in Follower : Matching(round'[g])
    BY <1>1, <1>2
  <1> QED BY <1>3 DEF ChunksOfOneCheckpoint, Matching

\* Only two actions lead to a round that fetches chunks.
LEMMA ChunksStep ==
    ASSUME TypeOK, ChunksOfOneCheckpoint, [Next]_vars
    PROVE  ChunksOfOneCheckpoint'
  <1>1. CASE UNCHANGED round
    BY <1>1 DEF ChunksOfOneCheckpoint
  <1>2. ASSUME NEW f \in Follower
        PROVE  /\ Matching(Failed(f)) /\ Matching(Idle) /\ Matching(Down)
               /\ Matching(Between("VALIDATOR_SET"))
               /\ \A v : Matching([Between("CHECKPOINTS") EXCEPT !.validatorSet = v])
    BY DEF Matching, Failed, Idle, Down, Between
  <1>3. ASSUME NEW f \in Follower, NEW k, NEW m, Unsettled(f, k), Settle(f, k, m)
        PROVE  \E r : Goto(f, r) /\ Matching(r)
    <2> DEFINE r == round[f]
               manifests == [j \in DOMAIN r.manifests \cup {k} |->
                                IF j = k THEN m ELSE r.manifests[j]]
               sources == agreed(manifests)
               more == [r EXCEPT !.manifests = manifests]
               done == [r EXCEPT !.stage = "CERTIFICATE", !.manifests = <<>>,
                                 !.agreed = sources,
                                 !.manifest = manifests[CHOOSE j \in sources : TRUE]]
    <2>1. Goto(f, more) \/ Goto(f, Failed(f)) \/ Goto(f, done)
      BY <1>3 DEF Settle
    <2>2. RoundOK(f, r) /\ r.stage = "CHECKPOINTS"
      BY <1>3 DEF TypeOK, Unsettled
    <2>3. Matching(more) /\ Matching(done)
      BY <2>2 DEF Matching, RoundOK, Idle, Between
    <2> QED BY <1>2, <2>1, <2>3
  <1>4. ASSUME NEW f \in Follower, ReceiveCertificate(f)
        PROVE  \E r : Goto(f, r) /\ Matching(r)
    <2>1. RoundOK(f, round[f]) /\ round[f].stage = "CERTIFICATE"
      BY <1>4 DEF TypeOK, ReceiveCertificate
    <2>2. Matching([round[f] EXCEPT !.stage = "CHUNKS",
                                    !.certificate = round[f].manifest.certificate])
      BY <2>1 DEF Matching, RoundOK, Idle, Between
    <2> QED BY <1>4, <2>2 DEF ReceiveCertificate
  <1>5. ASSUME NEW f \in Follower, NEW k \in Missing(f), ReceiveChunk(f, k)
        PROVE  \E r : Goto(f, r) /\ Matching(r)
    <2> DEFINE r == round[f]
               chunks == [j \in DOMAIN r.chunks \cup {k} |->
                             IF j = k THEN Source(f, k).chunkHashes[k] ELSE r.chunks[j]]
    <2>1. /\ r.stage = "CHUNKS" /\ DOMAIN r = DOMAIN Idle
          /\ Source(f, k) # Nil /\ Goto(f, [r EXCEPT !.chunks = chunks])
      BY <1>5 DEF ReceiveChunk, TypeOK, RoundOK
    <2>2. Source(f, k) = r.manifest
      BY <2>1 DEF Source, ChunkSource
    <2>3. \A j \in DOMAIN r.chunks : r.chunks[j] = r.manifest.chunkHashes[j]
      BY <2>1 DEF ChunksOfOneCheckpoint
    <2>4. \A j \in DOMAIN chunks : chunks[j] = r.manifest.chunkHashes[j]
      BY <2>2, <2>3
    <2> HIDE DEF chunks
    <2>5. Matching([r EXCEPT !.chunks = chunks])
      BY <2>1, <2>4 DEF Matching, Idle, Between
    <2> QED BY <2>1, <2>5
  <1>6. ASSUME NEW f \in Follower, NEW taken, Install(f, taken)
        PROVE  \E r : Goto(f, r) /\ Matching(r)
    BY <1>2, <1>6 DEF Install, FollowerDown
  <1>7. ASSUME NEW f \in Follower,
               \/ FollowerStep(f) \/ LoseRequest(f) \/ FollowerCrash(f)
               \/ \E k \in DOMAIN syncSources[f] : LoseCheckpoint(f, k)
        PROVE  \E r : Goto(f, r) /\ Matching(r)
    <2>1. CASE \/ Follow(f) \/ ReceiveValidatorSet(f) \/ RejectState(f)
               \/ Refused(f) \/ FollowerStart(f) \/ LoseRequest(f) \/ FollowerCrash(f)
      BY <1>2, <2>1 DEF Follow, ReceiveValidatorSet, RejectState, Refused,
                        FollowerStart, LoseRequest, FollowerCrash, FollowerDown
    <2>2. CASE \/ InstallState(f) \/ ReceiveState(f)
      BY <1>6, <2>2 DEF InstallState, ReceiveState
    <2>3. CASE \E k \in DOMAIN syncSources[f] :
                   ReceiveCheckpoint(f, k) \/ LoseCheckpoint(f, k)
      BY <1>3, <2>3 DEF ReceiveCheckpoint, LoseCheckpoint
    <2> QED BY <1>4, <1>5, <1>7, <2>1, <2>2, <2>3 DEF FollowerStep
  <1>8. \/ UNCHANGED round
        \/ \E f \in Follower :
              \/ FollowerStep(f) \/ LoseRequest(f) \/ FollowerCrash(f)
              \/ \E k \in DOMAIN syncSources[f] : LoseCheckpoint(f, k)
    BY DEF Next, OriginStep, Fault, Apply, FinishCommit, OriginStart,
           OriginCrash, followerVars, vars
  <1> QED BY <1>1, <1>7, <1>8, MatchingGoto

\* Chunks of different states are never mixed, whatever the sources commit,
\* install, forget or lose while a follower fetches them (state-sync.js:124).
THEOREM ChunksNeverMixed == Spec => []ChunksOfOneCheckpoint
  <1>1. Init => ChunksOfOneCheckpoint
    BY DEF Init, ChunksOfOneCheckpoint, Idle, Between
  <1>2. TypeOK /\ ChunksOfOneCheckpoint /\ [Next]_vars => ChunksOfOneCheckpoint'
    BY ChunksStep
  <1> QED BY <1>1, <1>2, TypeCorrect, PTL DEF Spec

-----------------------------------------------------------------------------
(* What a replica calls finalized.                                           *)

\* Until a follower has died none starts from its files, and what the others
\* have in memory they took whole.
Whole ==
    faults.crashes = 0 =>
        \A f \in Follower :
            /\ round[f].stage # "DOWN"
            /\ mirror[f].certificate # Nil => Finalized(mirror[f])

\* Every step preserves Whole.
LEMMA WholeStep ==
    ASSUME TypeOK, Whole, [Next]_vars
    PROVE  Whole'
  <1>1. CASE OriginMoves \/ UNCHANGED vars
    BY <1>1 DEF OriginMoves, vars, followerVars, Whole, Finalized
  <1>2. ASSUME NEW f \in Follower, Moves(f)
        PROVE  Whole'
    <2>0. DOMAIN mirror = Follower /\ DOMAIN round = Follower /\ faults.crashes \in Nat
      BY Bounds DEF TypeOK
    <2>a. ASSUME NEW taken, Installs(f, taken),
                 taken.certificate # Nil => Finalized(taken)
          PROVE  Whole'
      BY <2>0, <2>a, HeldFailed DEF Installs, Goto, Whole, Finalized
    <2>1. CASE Fetches(f)
      BY <2>0, <2>1 DEF Fetches, Goto, Whole, Finalized
    <2>2. CASE Takes(f)
      <3>1. PICK c \in Held(round[f]), set \in {1, 2} :
                Installs(f, [state |-> c.state, certificate |-> c, validatorSet |-> set])
        BY <2>2 DEF Takes
      <3>2. Finalized([state |-> c.state, certificate |-> c, validatorSet |-> set])
            \/ c = Nil
        BY DEF Finalized
      <3> QED BY <2>a, <3>1, <3>2
    <2>3. CASE Withdraws(f)
      BY <2>a, <2>3 DEF Withdraws, Empty
    <2>4. CASE Dies(f)
      BY <2>0, <2>4 DEF Dies, Whole
    <2>5. CASE Starts(f)
      BY <2>0, <2>5 DEF Starts, Whole
    <2> QED BY <1>2, <2>1, <2>2, <2>3, <2>4, <2>5 DEF Moves
  <1> QED BY <1>1, <1>2, StepMoves

\* A replica that never died between its two files never shows as finalized a
\* state its certificate is not of (validator-node.js:39).
THEOREM ShowsWhatIsCertified == Spec => []FinalizedUnlessTorn
  <1>1. Init => Whole
    BY HeldFailed DEF Init, Whole, Empty
  <1>2. TypeOK /\ Whole /\ [Next]_vars => Whole'
    BY WholeStep
  <1>3. Whole => FinalizedUnlessTorn
    BY DEF Whole, FinalizedUnlessTorn
  <1> QED BY <1>1, <1>2, <1>3, TypeCorrect, PTL DEF Spec

-----------------------------------------------------------------------------
(* The store of certificates and the durable chain.                          *)

Prefix(s, t) == Len(s) <= Len(t) /\ \A i \in 1..Len(s) : s[i] = t[i]

\* Prefix is reflexive,
LEMMA PrefixOfItself ==
    ASSUME NEW s \in Seq(Tx)
    PROVE  Prefix(s, s)
BY DEF Prefix

\* and kept when the longer sequence grows.
LEMMA PrefixGrows ==
    ASSUME NEW s \in Seq(Tx), NEW t \in Seq(Tx), NEW tx \in Tx, Prefix(s, t)
    PROVE  Prefix(s, Append(t, tx))
BY DEF Prefix

\* Certificates are of states of the durable chain, the state file is what the
\* engine holds but for a commit under way.
DurableChain ==
    /\ \A c \in certificates : Prefix(c.state, stateFile)
    /\ stage = "READY" => chain = stateFile
    /\ stage = "APPLIED" => /\ \E tx \in Tx : chain = Append(stateFile, tx)
                            /\ lastCommit.state = chain

\* Followers hold certificates of the store only, and a follower that is up
\* has in memory the certificate it has on disk.
FromStore ==
    \A f \in Follower :
        /\ Held(round[f]) \subseteq certificates
        /\ file[f].certificate \in certificates \cup {Nil}
        /\ mirror[f].certificate =
               IF round[f].stage = "DOWN" THEN Nil ELSE file[f].certificate

\* Every step preserves DurableChain, and no certificate leaves the store.
LEMMA DurableChainStep ==
    ASSUME TypeOK, DurableChain, [Next]_vars
    PROVE  DurableChain' /\ certificates \subseteq certificates'
  <1>0. /\ chain \in Seq(Tx) /\ stateFile \in Seq(Tx)
        /\ certificates \subseteq Certificates
        /\ \A c \in Certificates : c.state \in Seq(Tx)
    BY DEF TypeOK, Certificates
  <1>1. ASSUME NEW tx \in Tx, Apply(tx)
        PROVE  DurableChain' /\ certificates \subseteq certificates'
    <2>1. /\ chain' = Append(chain, tx) /\ chain' \in Seq(Tx)
          /\ stage = "READY" /\ stage' = "APPLIED"
          /\ lastCommit' = Certificate(chain', validatorSet, "PRECOMMIT")
          /\ UNCHANGED <<stateFile, certificates>>
      BY <1>0, <1>1 DEF Apply
    <2>2. lastCommit'.state = chain'
      BY <2>1 DEF Certificate
    <2> QED BY <2>1, <2>2 DEF DurableChain
  <1>2. CASE FinishCommit
    <2>1. stage = "APPLIED" /\ stateFile' = chain
      BY <1>2 DEF FinishCommit
    <2>2. \A c \in certificates : Prefix(c.state, stateFile')
      BY <1>0, <2>1, PrefixGrows DEF DurableChain
    <2>3. CASE OriginDown /\ UNCHANGED certificates
      BY <2>2, <2>3 DEF OriginDown, DurableChain
    <2>4. CASE ~(OriginDown /\ UNCHANGED certificates)
      <3>1. /\ certificates' = append(lastCommit) /\ stage' = "READY"
            /\ chain' = chain
        BY <1>2, <2>4 DEF FinishCommit
      <3>2. /\ certificates \subseteq certificates'
            /\ certificates' \subseteq certificates \cup {lastCommit}
        BY <3>1 DEF append
      <3>3. Prefix(lastCommit.state, stateFile')
        BY <1>0, <2>1, PrefixOfItself DEF DurableChain
      <3> QED BY <2>1, <2>2, <3>1, <3>2, <3>3 DEF DurableChain
    <2> QED BY <2>3, <2>4
  <1>3. CASE OriginStart
    <2> DEFINE c == Certificate(stateFile, EpochOf(stateFile), "CHECKPOINT")
    <2>1. /\ chain' = stateFile /\ stateFile' = stateFile /\ stage' = "READY"
          /\ certificates' = certificates \/ certificates' = append(c)
      BY <1>3 DEF OriginStart
    <2>2. /\ certificates \subseteq certificates'
          /\ certificates' \subseteq certificates \cup {c}
      BY <2>1 DEF append
    <2>3. Prefix(c.state, stateFile)
      BY <1>0, PrefixOfItself DEF Certificate
    <2> HIDE DEF c
    <2> QED BY <2>1, <2>2, <2>3 DEF DurableChain
  <1>4. CASE OriginCrash
    BY <1>4 DEF OriginCrash, OriginDown, DurableChain
  <1>5. ASSUME NEW f \in Follower, Moves(f)
        PROVE  DurableChain' /\ certificates \subseteq certificates'
    BY <1>5 DEF Moves, DurableChain
  <1>6. CASE UNCHANGED vars
    BY <1>6 DEF vars, originVars, DurableChain
  <1> QED BY <1>1, <1>2, <1>3, <1>4, <1>5, <1>6, StepMoves DEF OriginMoves

\* Where a certificate that a source offers comes from.
LEMMA OfferedFrom ==
    ASSUME TypeOK, FromStore, NEW f \in Follower, NEW c \in Offers(f)
    PROVE  \E k \in DOMAIN syncSources[f] :
              \/ /\ syncSources[f][k] = Origin
                 /\ c \in certificates /\ stage # "DOWN"
                 /\ Len(c.state) = Len(chain)
              \/ \E g \in Follower :
                    /\ syncSources[f][k] = g
                    /\ c = file[g].certificate /\ c \in certificates
  <1>1. PICK k \in DOMAIN syncSources[f] :
            /\ CheckpointOf(syncSources[f][k]) # Nil
            /\ c = CheckpointOf(syncSources[f][k]).certificate
    BY DEF Offers
  <1>2. syncSources[f][k] \in Node
    <2>1. deployment \in Deployment
      BY ReplicasAssumption DEF TypeOK
    <2>2. syncSources[f] \in Seq(Node)
      BY <2>1 DEF Deployment, syncSources
    <2> QED BY <2>2
  <1>3. CASE syncSources[f][k] = Origin
    <2>1. /\ stage # "DOWN" /\ atHeight(Len(chain)) # Nil
          /\ c = atHeight(Len(chain))
      BY <1>1, <1>3, CheckpointFields DEF CheckpointOf, Serving
    <2>2. c \in certificates /\ Len(c.state) = Len(chain)
      BY <2>1 DEF atHeight
    <2> QED BY <1>3, <2>1, <2>2
  <1>4. ASSUME NEW g \in Follower, syncSources[f][k] = g
        PROVE  c = file[g].certificate /\ c \in certificates
    <2>1. g # Origin
      BY ReplicasAssumption
    <2>2. mirror[g].certificate # Nil /\ c = mirror[g].certificate
      BY <1>1, <1>4, <2>1, CheckpointFields DEF CheckpointOf
    <2> QED BY <2>2 DEF FromStore
  <1> QED BY <1>2, <1>3, <1>4 DEF Node

\* Every step preserves FromStore.
LEMMA FromStoreStep ==
    ASSUME TypeOK, DurableChain, FromStore, [Next]_vars
    PROVE  FromStore'
  <1>0. /\ certificates \subseteq certificates'
        /\ DOMAIN mirror = Follower /\ DOMAIN round = Follower /\ DOMAIN file = Follower
    BY DurableChainStep DEF TypeOK
  <1>1. CASE OriginMoves \/ UNCHANGED vars
    <2>1. UNCHANGED <<mirror, file, round>>
      BY <1>1 DEF OriginMoves, vars, followerVars
    <2> QED BY <1>0, <2>1 DEF FromStore
  <1>2. ASSUME NEW f \in Follower, Moves(f)
        PROVE  FromStore'
    <2>0. certificates' = certificates
      BY <1>2 DEF Moves
    <2>a. ASSUME NEW taken, Installs(f, taken),
                 taken.certificate \in certificates \cup {Nil}
          PROVE  FromStore'
      <3>1. \A g \in Follower :
                /\ mirror'[g] = IF g = f THEN taken ELSE mirror[g]
                /\ file'[g] = IF g = f THEN taken ELSE file[g]
                /\ round'[g] = IF g = f THEN Idle ELSE round[g]
        BY <1>0, <2>a DEF Installs, Goto
      <3> QED BY <2>0, <2>a, <3>1, HeldFailed DEF FromStore
    <2>1. CASE Fetches(f)
      <3>1. PICK r : /\ Goto(f, r) /\ r.stage # "DOWN"
                     /\ Held(r) \subseteq Held(round[f]) \cup Offers(f)
        BY <2>1 DEF Fetches
      <3>2. Offers(f) \subseteq certificates
        BY OfferedFrom
      <3>3. \A g \in Follower : round'[g] = IF g = f THEN r ELSE round[g]
        BY <1>0, <3>1 DEF Goto
      <3> QED BY <2>0, <2>1, <3>1, <3>2, <3>3 DEF Fetches, FromStore
    <2>2. CASE Takes(f)
      <3>1. PICK c \in Held(round[f]), set \in {1, 2} :
                Installs(f, [state |-> c.state, certificate |-> c, validatorSet |-> set])
        BY <2>2 DEF Takes
      <3> QED BY <2>a, <3>1 DEF FromStore
    <2>3. CASE Withdraws(f)
      BY <2>a, <2>3 DEF Withdraws, Empty
    <2>4. CASE Dies(f)
      <3>1. \A g \in Follower :
                /\ mirror'[g] = IF g = f THEN Empty ELSE mirror[g]
                /\ file'[g].certificate = file[g].certificate
                /\ round'[g] = IF g = f THEN Down ELSE round[g]
        BY <1>0, <2>4 DEF Dies, Goto
      <3> QED BY <2>0, <3>1, HeldFailed DEF FromStore, Empty
    <2>5. CASE Starts(f)
      <3>1. \A g \in Follower :
                /\ mirror'[g] = IF g = f THEN file[g] ELSE mirror[g]
                /\ file'[g] = file[g]
                /\ round'[g] = IF g = f THEN Idle ELSE round[g]
        BY <1>0, <2>5 DEF Starts, Goto
      <3> QED BY <2>0, <3>1, HeldFailed DEF FromStore
    <2> QED BY <1>2, <2>1, <2>2, <2>3, <2>4, <2>5 DEF Moves
  <1> QED BY <1>1, <1>2, StepMoves

-----------------------------------------------------------------------------
(* Followers never go back: what a follower shows is no later than what the  *)
(* one it follows shows and may come to show.                                *)

Rank(c) == IF c = Nil THEN 0 ELSE Len(c.state) + 1

Single(f) == Len(syncSources[f]) = 1
Follows(f, g) == Single(f) /\ syncSources[f][1] = g

\* The certificate each follower has on disk, and those it has been offered.
Certs == [f \in Follower |-> file[f].certificate]
Helds == [f \in Follower |-> Held(round[f])]

\* A follower is only offered what is no earlier than what it shows.
Ahead(certs, helds, f) ==
    Single(f) => \A c \in helds[f] : Rank(certs[f]) <= Rank(c)

\* Behind the one it follows, as long as that one shows anything or may not
\* withdraw it.
Behind(certs, helds, f, g) ==
    (g \notin deployment.allowUncertified \/ certs[g] # Nil) =>
        /\ Rank(certs[f]) <= Rank(certs[g])
        /\ \A c \in helds[f] : Rank(c) <= Rank(certs[g])

\* And behind what that one has been offered.
BehindHeld(certs, helds, f, g) ==
    Single(g) =>
        \A d \in helds[g] :
            /\ Rank(certs[f]) <= Rank(d)
            /\ \A c \in helds[f] : Rank(c) <= Rank(d)

MonotoneOf(certs, helds) ==
    /\ \A f \in Follower : ~Single(f) => certs[f] = Nil
    /\ \A f \in Follower : Ahead(certs, helds, f)
    /\ \A f, g \in Follower :
          Follows(f, g) => Behind(certs, helds, f, g) /\ BehindHeld(certs, helds, f, g)

Monotone == MonotoneOf(Certs, Helds)

\* The durable state has the highest rank.
LEMMA HighestRank ==
    ASSUME TypeOK, DurableChain, NEW c \in certificates \cup {Nil}
    PROVE  /\ Rank(c) \in Nat /\ Rank(c) <= Len(stateFile) + 1
           /\ c # Nil => Rank(c) >= 1
  <1>1. CASE c = Nil
    BY <1>1 DEF Rank, TypeOK
  <1>2. CASE c # Nil
    <2>1. c.state \in Seq(Tx) /\ stateFile \in Seq(Tx)
      BY <1>2 DEF TypeOK, Certificates
    <2>2. Len(c.state) <= Len(stateFile)
      BY <1>2 DEF DurableChain, Prefix
    <2>3. Rank(c) = Len(c.state) + 1
      BY <1>2 DEF Rank
    <2>4. Len(c.state) \in Nat /\ Len(stateFile) \in Nat
      BY <2>1
    <2> QED BY <1>2, <2>2, <2>3, <2>4
  <1> QED BY <1>1, <1>2

\* One source, or one that may withdraw, is a single source.
LEMMA SourcesOf ==
    ASSUME TypeOK, NEW f \in Follower
    PROVE  /\ Single(f) => DOMAIN syncSources[f] = {1}
           /\ f \in deployment.allowUncertified => Follows(f, Origin)
  <1>1. deployment \in Deployment /\ deployment \in Deployments
    BY ReplicasAssumption DEF TypeOK
  <1>2. syncSources[f] \in Seq(Node)
    BY <1>1 DEF Deployment, syncSources
  <1>3. Single(f) => DOMAIN syncSources[f] = {1}
    BY <1>2 DEF Single
  <1>4. ASSUME f \in deployment.allowUncertified
        PROVE  syncSources[f] = <<Origin>>
    BY <1>1, <1>4, ReplicasAssumption DEF syncSources
  <1>5. f \in deployment.allowUncertified => Follows(f, Origin)
    BY <1>4 DEF Follows, Single
  <1> QED BY <1>3, <1>5

\* Monotone of the next state, in terms of what is shown and offered then.
LEMMA MonotoneNext ==
    ASSUME UNCHANGED deployment, MonotoneOf(Certs', Helds')
    PROVE  Monotone'
BY DEF Monotone, MonotoneOf, Ahead, Behind, BehindHeld, Single, Follows, syncSources

\* Where ranks are compared they are numbers.
Ranked(certs, helds) ==
    \A f \in Follower :
        Rank(certs[f]) \in Nat /\ \A c \in helds[f] : Rank(c) \in Nat

\* Nothing new is shown, nor offered.
LEMMA MonotoneFewer ==
    ASSUME NEW certs, NEW helds, MonotoneOf(certs, helds), NEW helds2,
           \A f \in Follower : helds2[f] \subseteq helds[f]
    PROVE  MonotoneOf(certs, helds2)
  <1>1. \A f \in Follower : Ahead(certs, helds2, f)
    BY DEF MonotoneOf, Ahead
  <1>2. \A f, g \in Follower : Follows(f, g) => Behind(certs, helds2, f, g)
    BY DEF MonotoneOf, Behind
  <1>3. \A f, g \in Follower : Follows(f, g) => BehindHeld(certs, helds2, f, g)
    BY DEF MonotoneOf, BehindHeld
  <1> QED BY <1>1, <1>2, <1>3 DEF MonotoneOf

\* A follower shows what it was offered.
LEMMA MonotoneTake ==
    ASSUME NEW certs, NEW helds, MonotoneOf(certs, helds), Ranked(certs, helds),
           NEW f \in Follower, Single(f), NEW c \in helds[f],
           NEW certs2, NEW helds2,
           \A g \in Follower : /\ certs2[g] = IF g = f THEN c ELSE certs[g]
                               /\ helds2[g] = IF g = f THEN {} ELSE helds[g]
    PROVE  MonotoneOf(certs2, helds2)
  <1>1. \A p \in Follower : Ahead(certs2, helds2, p)
    BY DEF MonotoneOf, Ahead
  <1>2. ASSUME NEW p \in Follower, NEW q \in Follower, Follows(p, q)
        PROVE  Behind(certs2, helds2, p, q)
    <2>1. CASE p = f /\ q = f
      BY <2>1 DEF Ranked, Behind
    <2>2. CASE p = f /\ q # f
      BY <1>2, <2>2 DEF MonotoneOf, Behind
    <2>3. CASE p # f /\ q = f
      BY <1>2, <2>3 DEF MonotoneOf, BehindHeld, Behind
    <2>4. CASE p # f /\ q # f
      BY <1>2, <2>4 DEF MonotoneOf, Behind
    <2> QED BY <2>1, <2>2, <2>3, <2>4
  <1>3. ASSUME NEW p \in Follower, NEW q \in Follower, Follows(p, q)
        PROVE  BehindHeld(certs2, helds2, p, q)
    BY <1>3 DEF MonotoneOf, BehindHeld
  <1> QED BY <1>1, <1>2, <1>3 DEF MonotoneOf

\* A follower that may shows nothing any more.
LEMMA MonotoneWithdraw ==
    ASSUME NEW certs, NEW helds, MonotoneOf(certs, helds), Ranked(certs, helds),
           NEW f \in Follower, f \in deployment.allowUncertified,
           Follows(f, Origin), NEW certs2, NEW helds2,
           \A g \in Follower : /\ certs2[g] = IF g = f THEN Nil ELSE certs[g]
                               /\ helds2[g] = IF g = f THEN {} ELSE helds[g]
    PROVE  MonotoneOf(certs2, helds2)
  <1>0. Origin \notin Follower
    BY ReplicasAssumption
  <1>1. \A p \in Follower : Ahead(certs2, helds2, p)
    BY DEF MonotoneOf, Ahead
  <1>2. ASSUME NEW p \in Follower, NEW q \in Follower, Follows(p, q)
        PROVE  Behind(certs2, helds2, p, q) /\ BehindHeld(certs2, helds2, p, q)
    <2>1. p # f
      BY <1>0, <1>2 DEF Follows
    <2>2. CASE q = f
      BY <2>1, <2>2 DEF Behind, BehindHeld
    <2>3. CASE q # f
      BY <1>2, <2>1, <2>3 DEF MonotoneOf, Behind, BehindHeld
    <2> QED BY <2>2, <2>3
  <1>3. \A p \in Follower : ~Single(p) => certs2[p] = Nil
    BY DEF MonotoneOf
  <1> QED BY <1>1, <1>2, <1>3 DEF MonotoneOf

\* What a source may offer a follower, compared with what is held and shown.
Fits(certs, helds, f, c) ==
    /\ Rank(certs[f]) <= Rank(c) /\ Rank(c) \in Nat
    /\ \A g \in Follower : Follows(f, g) => c = certs[g] /\ c # Nil
    /\ \A h \in Follower : Follows(h, f) =>
          /\ Rank(certs[h]) <= Rank(c)
          /\ \A e \in helds[h] : Rank(e) <= Rank(c)

\* Monotone survives a request whose answer fits.
LEMMA MonotoneFetch ==
    ASSUME NEW certs, NEW helds, MonotoneOf(certs, helds), Ranked(certs, helds),
           NEW f \in Follower, NEW offers, NEW helds2,
           Single(f) => \A c \in offers : Fits(certs, helds, f, c),
           \A g \in Follower :
              helds2[g] \subseteq IF g = f THEN helds[g] \cup offers ELSE helds[g]
    PROVE  MonotoneOf(certs, helds2)
  <1>1. ASSUME NEW p \in Follower
        PROVE  Ahead(certs, helds2, p)
    <2>1. CASE p = f
      BY <2>1 DEF MonotoneOf, Ahead, Fits
    <2>2. CASE p # f
      BY <2>2 DEF MonotoneOf, Ahead
    <2> QED BY <2>1, <2>2
  <1>2. ASSUME NEW p \in Follower, NEW q \in Follower, Follows(p, q)
        PROVE  Behind(certs, helds2, p, q)
    <2>1. CASE p = f
      <3>1. Single(f) /\ \A c \in offers : c = certs[q]
        BY <1>2, <2>1 DEF Follows, Fits
      <3>2. Rank(certs[q]) \in Nat
        BY DEF Ranked
      <3>3. Behind(certs, helds, p, q)
        BY <1>2 DEF MonotoneOf
      <3> QED BY <2>1, <3>1, <3>2, <3>3 DEF Behind
    <2>2. CASE p # f
      BY <1>2, <2>2 DEF MonotoneOf, Behind
    <2> QED BY <2>1, <2>2
  <1>3. ASSUME NEW p \in Follower, NEW q \in Follower, Follows(p, q), Single(q),
               NEW d \in helds2[q]
        PROVE  /\ Rank(certs[p]) <= Rank(d)
               /\ \A c \in helds2[p] : Rank(c) <= Rank(d)
    <2>1. CASE d \in helds[q]
      <3>1. /\ Rank(certs[p]) <= Rank(d)
            /\ \A c \in helds[p] : Rank(c) <= Rank(d)
        BY <1>3, <2>1 DEF MonotoneOf, BehindHeld
      <3>2. p = f => \A c \in offers : Rank(c) <= Rank(d)
        <4>1. Rank(certs[q]) <= Rank(d)
          BY <1>3, <2>1 DEF MonotoneOf, Ahead
        <4> QED BY <1>3, <4>1 DEF Fits, Follows
      <3> QED BY <3>1, <3>2
    <2>2. CASE d \notin helds[q]
      <3>1. q = f /\ d \in offers /\ Fits(certs, helds, f, d)
        BY <1>3, <2>2
      <3>2. Rank(certs[p]) <= Rank(d) /\ \A e \in helds[p] : Rank(e) <= Rank(d)
        BY <1>3, <3>1 DEF Fits
      <3>3. p = f => \A c \in offers : c = d
        BY <1>3, <3>1 DEF Fits
      <3>4. Rank(d) \in Nat
        BY <3>1 DEF Fits
      <3> QED BY <3>2, <3>3, <3>4
    <2> QED BY <2>1, <2>2
  <1> QED BY <1>1, <1>2, <1>3 DEF MonotoneOf, BehindHeld

\* What a source offers fits: the origin offers its durable state, a follower
\* what it shows itself.
LEMMA OffersFit ==
    ASSUME TypeOK, DurableChain, FromStore, Monotone,
           NEW f \in Follower, Single(f), NEW c \in Offers(f)
    PROVE  Fits(Certs, Helds, f, c)
  <1>0. /\ Origin \notin Follower /\ Nil \notin certificates
        /\ \A g \in Follower : Certs[g] \in certificates \cup {Nil}
        /\ \A g \in Follower : Helds[g] \subseteq certificates
    BY ReplicasAssumption DEF TypeOK, FromStore, Certs, Helds
  <1>1. DOMAIN syncSources[f] = {1}
    BY SourcesOf
  <1>2. \/ /\ syncSources[f][1] = Origin
           /\ c \in certificates /\ stage # "DOWN" /\ Len(c.state) = Len(chain)
        \/ \E g \in Follower :
              syncSources[f][1] = g /\ c = Certs[g] /\ c \in certificates
    BY <1>1, OfferedFrom DEF Certs
  <1>3. c \in certificates /\ c # Nil /\ Rank(c) \in Nat
    BY <1>0, <1>2, HighestRank
  <1>4. CASE /\ syncSources[f][1] = Origin
             /\ stage # "DOWN" /\ Len(c.state) = Len(chain)
    <2>1. Len(stateFile) <= Len(chain) /\ Len(stateFile) \in Nat
          /\ Len(chain) \in Nat
      <3>1. CASE stage = "READY"
        BY <3>1 DEF DurableChain, TypeOK
      <3>2. CASE stage = "APPLIED"
        <4>1. PICK tx \in Tx : chain = Append(stateFile, tx)
          BY <3>2 DEF DurableChain
        <4>2. stateFile \in Seq(Tx)
          BY DEF TypeOK
        <4>3. Len(chain) = Len(stateFile) + 1 /\ Len(stateFile) \in Nat
          BY <4>1, <4>2
        <4> QED BY <4>3
      <3> QED BY <1>4, <3>1, <3>2 DEF TypeOK
    <2>2. Rank(c) = Len(chain) + 1
      BY <1>3, <1>4 DEF Rank
    <2>3. \A e \in certificates \cup {Nil} : Rank(e) \in Nat /\ Rank(e) <= Rank(c)
      <3> SUFFICES ASSUME NEW e \in certificates \cup {Nil}
                   PROVE  Rank(e) \in Nat /\ Rank(e) <= Rank(c)
        OBVIOUS
      <3>1. Rank(e) \in Nat /\ Rank(e) <= Len(stateFile) + 1
        BY HighestRank
      <3> QED BY <2>1, <2>2, <3>1
    <2>4. \A g \in Follower : ~Follows(f, g)
      BY <1>0, <1>4 DEF Follows
    <2> QED BY <1>0, <1>3, <2>3, <2>4 DEF Fits
  <1>5. ASSUME NEW g \in Follower, syncSources[f][1] = g, c = Certs[g]
        PROVE  Fits(Certs, Helds, f, c)
    <2>1. Follows(f, g) /\ \A q \in Follower : Follows(f, q) => q = g
      BY <1>5 DEF Follows
    <2>2. f \notin deployment.allowUncertified
      BY <1>0, <1>5, SourcesOf DEF Follows
    <2>3. Behind(Certs, Helds, f, g)
      BY <2>1 DEF Monotone, MonotoneOf
    <2>4. Rank(Certs[f]) <= Rank(c)
      BY <1>3, <1>5, <2>3 DEF Behind
    <2>5. ASSUME NEW h \in Follower, Follows(h, f)
          PROVE  /\ Rank(Certs[h]) <= Rank(c)
                 /\ \A e \in Helds[h] : Rank(e) <= Rank(c)
      <3>1. /\ Rank(Certs[h]) <= Rank(Certs[f])
            /\ \A e \in Helds[h] : Rank(e) <= Rank(Certs[f])
        BY <2>2, <2>5 DEF Monotone, MonotoneOf, Behind
      <3>2. Rank(Certs[h]) \in Nat /\ Rank(Certs[f]) \in Nat
            /\ \A e \in Helds[h] : Rank(e) \in Nat
        BY <1>0, HighestRank
      <3> QED BY <1>3, <2>4, <3>1, <3>2
    <2> QED BY <1>3, <1>5, <2>1, <2>4, <2>5 DEF Fits
  <1> QED BY <1>2, <1>4, <1>5

\* Every step preserves Monotone.
LEMMA MonotoneStep ==
    ASSUME TypeOK, DurableChain, FromStore, Monotone, [Next]_vars
    PROVE  Monotone'
  <1>0. /\ DOMAIN round = Follower /\ DOMAIN file = Follower
        /\ MonotoneOf(Certs, Helds) /\ Ranked(Certs, Helds)
    <2>1. DOMAIN round = Follower /\ DOMAIN file = Follower /\ MonotoneOf(Certs, Helds)
      BY DEF TypeOK, Monotone
    <2>2. \A g \in Follower : /\ Certs[g] \in certificates \cup {Nil}
                              /\ Helds[g] \subseteq certificates
      BY DEF FromStore, Certs, Helds
    <2>3. Ranked(Certs, Helds)
      BY <2>2, HighestRank DEF Ranked
    <2> QED BY <2>1, <2>3
  <1>1. CASE OriginMoves \/ UNCHANGED vars
    <2>1. UNCHANGED <<deployment, file, round>>
      BY <1>1 DEF OriginMoves, vars, followerVars
    <2>2. Certs' = Certs /\ Helds' = Helds
      BY <2>1 DEF Certs, Helds
    <2> QED BY <1>0, <2>1, <2>2, MonotoneNext
  <1>2. ASSUME NEW f \in Follower, Moves(f)
        PROVE  Monotone'
    <2>0. UNCHANGED deployment
      BY <1>2 DEF Moves
    <2>a. ASSUME NEW taken, Installs(f, taken)
          PROVE  \A g \in Follower :
                    /\ Certs'[g] = IF g = f THEN taken.certificate ELSE Certs[g]
                    /\ Helds'[g] = IF g = f THEN {} ELSE Helds[g]
      BY <1>0, <2>a, HeldFailed DEF Installs, Goto, Certs, Helds
    <2>b. ASSUME \A g \in Follower : file'[g].certificate = file[g].certificate,
                 NEW r, Goto(f, r), Held(r) \subseteq Held(round[f])
          PROVE  Monotone'
      <3>1. \A g \in Follower : Helds'[g] \subseteq Helds[g]
        BY <1>0, <2>b DEF Goto, Helds
      <3>2. Certs' = Certs
        BY <2>b DEF Certs
      <3> QED BY <1>0, <2>0, <3>1, <3>2, MonotoneFewer, MonotoneNext
    <2>1. CASE Fetches(f)
      <3>1. PICK r : Goto(f, r) /\ Held(r) \subseteq Held(round[f]) \cup Offers(f)
        BY <2>1 DEF Fetches
      <3>2. \A g \in Follower :
                Helds'[g] \subseteq IF g = f THEN Helds[g] \cup Offers(f) ELSE Helds[g]
        BY <1>0, <3>1 DEF Goto, Helds
      <3>3. Certs' = Certs
        BY <2>1 DEF Fetches, Certs
      <3>4. Single(f) => \A c \in Offers(f) : Fits(Certs, Helds, f, c)
        BY OffersFit
      <3>5. MonotoneOf(Certs, Helds')
        BY <1>0, <3>2, <3>4, MonotoneFetch
      <3> QED BY <2>0, <3>3, <3>5, MonotoneNext
    <2>2. CASE Takes(f)
      <3>1. PICK c \in Held(round[f]), set \in {1, 2} :
                Installs(f, [state |-> c.state, certificate |-> c, validatorSet |-> set])
        BY <2>2 DEF Takes
      <3>2. Single(f) /\ c \in Helds[f]
        BY <2>2 DEF Takes, Single, Helds
      <3>3. \A g \in Follower : /\ Certs'[g] = IF g = f THEN c ELSE Certs[g]
                                /\ Helds'[g] = IF g = f THEN {} ELSE Helds[g]
        BY <2>a, <3>1
      <3>4. MonotoneOf(Certs', Helds')
        BY <1>0, <3>2, <3>3, MonotoneTake
      <3> QED BY <2>0, <3>4, MonotoneNext
    <2>3. CASE Withdraws(f)
      <3>1. f \in deployment.allowUncertified /\ Follows(f, Origin)
        BY <2>3, SourcesOf DEF Withdraws
      <3>2. \A g \in Follower : /\ Certs'[g] = IF g = f THEN Nil ELSE Certs[g]
                                /\ Helds'[g] = IF g = f THEN {} ELSE Helds[g]
        BY <2>3, <2>a DEF Withdraws, Empty
      <3>3. MonotoneOf(Certs', Helds')
        BY <1>0, <3>1, <3>2, MonotoneWithdraw
      <3> QED BY <2>0, <3>3, MonotoneNext
    <2>4. CASE Dies(f)
      BY <2>b, <2>4, HeldFailed DEF Dies
    <2>5. CASE Starts(f)
      BY <2>b, <2>5, HeldFailed DEF Starts
    <2> QED BY <1>2, <2>1, <2>2, <2>3, <2>4, <2>5 DEF Moves
  <1> QED BY <1>1, <1>2, StepMoves

-----------------------------------------------------------------------------
(* The replicas implement the finalized view.                                *)

\* A prefix is the beginning of the sequence, as FinalizedView puts it.
LEMMA PrefixIsSubSeq ==
    ASSUME NEW s \in Seq(Tx), NEW t \in Seq(Tx), Prefix(s, t)
    PROVE  s = SubSeq(t, 1, Len(s))
  <1>1. Len(s) \in 0..Len(t) /\ \A i \in 1..Len(s) : s[i] = t[i]
    BY DEF Prefix
  <1>2. /\ SubSeq(t, 1, Len(s)) \in Seq(Tx)
        /\ Len(SubSeq(t, 1, Len(s))) = Len(s)
        /\ \A i \in 1..Len(s) : SubSeq(t, 1, Len(s))[i] = t[i]
    BY <1>1
  <1> QED BY <1>1, <1>2, SeqEqual

\* What a follower has finalized on disk.
Finished ==
    [f \in Follower |->
        IF file[f].certificate = Nil THEN <<>> ELSE file[f].certificate.state]

\* The initial states are those of the finalized view.
LEMMA RefinesInit == TypeOK /\ Init => FV!Init
  <1> SUFFICES ASSUME TypeOK, Init
               PROVE  FV!Init
    OBVIOUS
  <1>1. deployment \in Deployment
    BY ReplicasAssumption DEF TypeOK
  <1>2. deployment.allowUncertified \subseteq Follower
    BY <1>1 DEF Deployment
  <1> QED BY <1>2 DEF Init, FV!Init, Empty

\* Every step is one of the finalized view or leaves it alone.
LEMMA RefinesStep ==
    ASSUME TypeOK, DurableChain, FromStore, Monotone, [Next]_vars
    PROVE  [FV!Next]_(FV!vars)
  <1>1. ASSUME UNCHANGED <<deployment, stateFile>>,
               \A g \in Follower : file'[g].certificate = file[g].certificate
        PROVE  [FV!Next]_(FV!vars)
    BY <1>1 DEF FV!vars
  <1>2. CASE OriginMoves
    <2>1. UNCHANGED <<deployment, file>>
      BY <1>2 DEF OriginMoves, followerVars
    <2>2. CASE FinishCommit
      <3>1. PICK tx \in Tx : stateFile' = Append(stateFile, tx)
        BY <2>2 DEF FinishCommit, DurableChain
      <3>2. FV!Commit
        BY <2>1, <3>1 DEF FV!Commit
      <3> QED BY <3>2 DEF FV!Next
    <2>3. CASE ~FinishCommit
      BY <1>1, <1>2, <2>1, <2>3 DEF OriginMoves, Apply, OriginStart, OriginCrash
    <2> QED BY <2>2, <2>3
  <1>3. ASSUME NEW f \in Follower, Moves(f)
        PROVE  [FV!Next]_(FV!vars)
    <2>0. UNCHANGED <<deployment, stateFile>> /\ DOMAIN file = Follower
      BY <1>3 DEF Moves, TypeOK
    <2>1. CASE Fetches(f) \/ Dies(f) \/ Starts(f)
      BY <1>1, <2>0, <2>1 DEF Fetches, Dies, Starts
    <2>2. CASE Takes(f)
      <3>1. PICK c \in Held(round[f]), set \in {1, 2} :
                Installs(f, [state |-> c.state, certificate |-> c, validatorSet |-> set])
        BY <2>2 DEF Takes
      <3>2. c \in certificates /\ file[f].certificate \in certificates \cup {Nil}
            /\ c # Nil
        BY ReplicasAssumption DEF FromStore, TypeOK
      <3>3. Rank(file[f].certificate) <= Rank(c)
        BY <2>2 DEF Monotone, MonotoneOf, Ahead, Certs, Helds, Takes, Single
      <3> DEFINE v == Finished[f]
      <3>4. /\ v \in Seq(Tx) /\ Prefix(v, stateFile)
            /\ c.state \in Seq(Tx) /\ Prefix(c.state, stateFile)
            /\ stateFile \in Seq(Tx)
        <4>1. stateFile \in Seq(Tx) /\ certificates \subseteq Certificates
              /\ \A e \in certificates : Prefix(e.state, stateFile)
          BY DEF TypeOK, DurableChain
        <4>2. Prefix(<<>>, stateFile)
          BY <4>1 DEF Prefix
        <4> QED BY <3>2, <4>1, <4>2 DEF Finished, Certificates
      <3>5. Len(v) <= Len(c.state)
        <4>1. CASE file[f].certificate = Nil
          <5>1. v = <<>>
            BY <4>1 DEF Finished
          <5> QED BY <3>4, <5>1
        <4>2. CASE file[f].certificate # Nil
          <5>1. Len(v) + 1 <= Len(c.state) + 1
            BY <3>2, <3>3, <4>2 DEF Finished, Rank
          <5> QED BY <3>4, <5>1
        <4> QED BY <4>1, <4>2
      <3>6. Len(c.state) <= Len(stateFile)
        BY <3>4 DEF Prefix
      <3>7. Finished' = [Finished EXCEPT ![f] = c.state]
        <4>1. \A g \in Follower :
                  file'[g] = IF g = f THEN [state |-> c.state, certificate |-> c,
                                            validatorSet |-> set]
                             ELSE file[g]
          BY <2>0, <3>1 DEF Installs
        <4>2. \A g \in Follower :
                  Finished'[g] = IF g = f THEN c.state ELSE Finished[g]
          BY <3>2, <4>1 DEF Finished
        <4>3. /\ Finished = [g \in Follower |-> Finished[g]]
              /\ Finished' = [g \in Follower |-> Finished'[g]]
          BY DEF Finished
        <4> QED BY <4>2, <4>3
      <3>8. /\ v = SubSeq(stateFile, 1, Len(v))
            /\ c.state = SubSeq(stateFile, 1, Len(c.state))
            /\ Len(c.state) \in Len(v)..Len(stateFile)
        BY <3>4, <3>5, <3>6, PrefixIsSubSeq
      <3>9. FV!Advance(f)
        <4>1. \E n \in Len(v)..Len(stateFile) :
                  /\ v = SubSeq(stateFile, 1, Len(v))
                  /\ Finished' = [Finished EXCEPT ![f] = SubSeq(stateFile, 1, n)]
          BY <3>7, <3>8
        <4> QED BY <2>0, <4>1 DEF FV!Advance, Finished
      <3> QED BY <3>9 DEF FV!Next
    <2>3. CASE Withdraws(f)
      <3>1. Installs(f, [Empty EXCEPT !.state = chain])
            /\ f \in deployment.allowUncertified
        BY <2>3 DEF Withdraws
      <3>2. \A g \in Follower :
                file'[g].certificate = IF g = f THEN Nil ELSE file[g].certificate
        BY <2>0, <3>1 DEF Installs, Empty
      <3>3. Finished' = [Finished EXCEPT ![f] = <<>>]
        <4>1. \A g \in Follower : g # f => file'[g] = file[g]
          BY <2>0, <3>1 DEF Installs
        <4> QED BY <3>2, <4>1 DEF Finished
      <3>4. FV!Withdraw(f)
        BY <2>0, <3>1, <3>3 DEF FV!Withdraw, Finished
      <3> QED BY <3>4 DEF FV!Next
    <2> QED BY <1>3, <2>1, <2>2, <2>3 DEF Moves
  <1>4. CASE UNCHANGED vars
    BY <1>1, <1>4 DEF vars, originVars, followerVars
  <1> QED BY <1>2, <1>3, <1>4, StepMoves

\* What followers have finalized on disk is one growing chain, that of the
\* origin's disk, over every crash and lost request (validator-node.js:88).
THEOREM ReplicasRefine == Spec => FinalizedViewSpec
  <1>1. Init => DurableChain /\ FromStore /\ Monotone
    <2> SUFFICES ASSUME Init
                 PROVE  DurableChain /\ FromStore /\ Monotone
      OBVIOUS
    <2>1. DurableChain /\ FromStore
      BY HeldFailed DEF Init, DurableChain, FromStore, Empty
    <2>2. \A g \in Follower : Certs[g] = Nil /\ Helds[g] = {}
      BY HeldFailed DEF Init, Certs, Helds, Empty
    <2>3. Monotone
      BY <2>2 DEF Monotone, MonotoneOf, Ahead, Behind, BehindHeld, Rank
    <2> QED BY <2>1, <2>3
  <1>2. TypeOK /\ DurableChain /\ FromStore /\ Monotone /\ [Next]_vars
        => DurableChain' /\ FromStore' /\ Monotone'
    BY DurableChainStep, FromStoreStep, MonotoneStep
  <1>3. TypeOK /\ DurableChain /\ FromStore /\ Monotone /\ [Next]_vars
        => [FV!Next]_(FV!vars)
    BY RefinesStep
  <1> QED BY <1>1, <1>2, <1>3, RefinesInit, TypeInit, TypeCorrect, PTL
          DEF Spec, FinalizedViewSpec, FV!Spec
=============================================================================
