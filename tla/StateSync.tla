----------------------------- MODULE StateSync -----------------------------
(* The pure part of certified state synchronization (state-sync.js): the     *)
(* checkpoint a source offers of its state, what a follower verifies before  *)
(* it takes the state, and the group of sources it downloads from.           *)
(* A chain state is the sequence of the transitions committed to it.  A hash *)
(* is modelled by the value it commits to: checkpointHash by the manifest,   *)
(* certificateHash by the certificate, the hash of a chunk by the chunk.     *)
EXTENDS Integers, Sequences, FiniteSets

CONSTANTS
    Nil,             \* absent: null, or a request that failed
    ChunkCount(_)    \* into how many chunks a state's canonical JSON is cut

-----------------------------------------------------------------------------
(* The Merkle root.  A node is the pair of its children; an odd last node is *)
(* paired with itself.                                                       *)

Parents(level) ==
    [k \in 1..((Len(level) + 1) \div 2) |->
        <<level[2 * k - 1],
          IF 2 * k <= Len(level) THEN level[2 * k] ELSE level[2 * k - 1]>>]

merkleRoot(hashes) ==
    LET level[n \in 0..Len(hashes)] ==
            IF n = 0 THEN hashes
            ELSE IF Len(level[n - 1]) <= 1 THEN level[n - 1]
            ELSE Parents(level[n - 1])
    IN  level[Len(hashes)]

-----------------------------------------------------------------------------
(* Certificates and checkpoints.                                             *)

\* A finality certificate, by what it commits to.  Only a quorum of the
\* validator set can sign one (ConsensusPrimitives), so whoever holds one got
\* it from the coordinator; the set stands for its hash, epoch included.
Certificate(state, validatorSet, phase) ==
    [state |-> state, validatorSet |-> validatorSet, phase |-> phase]

verifyFinalityCertificate(certificate, validatorSet, state) ==
    /\ certificate # Nil
    /\ certificate.state = state
    /\ certificate.validatorSet = validatorSet
    /\ certificate.phase \in {"PRECOMMIT", "CHECKPOINT"}

chunksOf(state) ==
    [k \in 1..ChunkCount(state) |-> [of |-> state, index |-> k]]

createStateCheckpoint(state, certificate) ==
    [height      |-> Len(state),
     state       |-> state,
     certificate |-> certificate,
     chunkHashes |-> chunksOf(state),
     chunksRoot  |-> merkleRoot(chunksOf(state))]

\* The chunks parse to the one state they were all cut from, if they were.
Parses(chunks, state) == chunks = chunksOf(state)

verifyStateCheckpoint(manifest, chunks, certificate, validatorSet) ==
    /\ chunks = manifest.chunkHashes
    /\ merkleRoot(chunks) = manifest.chunksRoot
    /\ Parses(chunks, manifest.state)
    /\ Len(manifest.state) = manifest.height
    /\ certificate = manifest.certificate
    /\ verifyFinalityCertificate(certificate, validatorSet, manifest.state)

-----------------------------------------------------------------------------
(* The sources that agree.  manifests[k] is what the k-th source of the list *)
(* answered; sources are grouped by checkpointHash, in the order of the list.*)

Supporters(manifests, manifest) ==
    {k \in DOMAIN manifests : manifests[k] = manifest}

\* The places of the first of the largest groups.
agreed(manifests) ==
    LET answered == {k \in DOMAIN manifests : manifests[k] # Nil}
        Group(k) == Supporters(manifests, manifests[k])
        Larger(j, k) == Cardinality(Group(j)) > Cardinality(Group(k))
        Leads(k) == \A j \in answered : /\ ~Larger(j, k)
                                        /\ j < k => Larger(k, j)
    IN  UNION {Group(k) : k \in {j \in answered : Leads(j)}}

First(places) == CHOOSE k \in places : \A j \in places : k <= j

\* The chunks are asked of the sources in turn: agreed[index % agreed.length],
\* the index counting from zero.
Provider(places, index) ==
    CHOOSE k \in places :
        Cardinality({j \in places : j < k}) = (index - 1) % Cardinality(places)
=============================================================================
