----------------------------- MODULE Interchain -----------------------------
(* External value of the engine (engine.js): routes and their observers,     *)
(* external proofs and their quorum, lineages of earned value admitted on    *)
(* them, the reserves of agents that redeem it, and the challenge of a       *)
(* proof.  Every action is one transition; a refused one is no step.  Every  *)
(* transition, of other parts of the engine too, is one height.              *)
(* Receipts are FINAL ones of undisputed orders (WorkOrders), paid by others *)
(* than the agent's funding root.  Prices are left open: a sale may be       *)
(* quoted at anything the reserves can pay.                                  *)
EXTENDS Integers, FiniteSets, Functions

CONSTANTS
    Route, Observer, Agent, Lineage, Receipt,
    Proof,         \* proofIds
    Evidence,      \* what proofs rest on: a transaction, or a fixture
    None,          \* absent: undefined in the code
    Terms,         \* Terms[r]: what r is registered with
    Group,         \* Group[o]: o's independenceGroup
    Watches,       \* Watches[o]: o's routeIds
    ProvedOn,      \* ProvedOn[e]: the routes whose program or contract e names
    Paid,          \* Paid[x]: the amount of receipt x
    MaxPause,      \* bound: heights a pause lasts
    MaxNative      \* bound: the native reserve of an agent

RouteTerms == [kind : {"FIXTURE", "SOLANA", "EVM"}, realValue : BOOLEAN,
               audited : BOOLEAN, cap : Nat, observerThreshold : Nat]

Content == [route : Route, evidence : Evidence]

ProofRecord == [route : Route, evidence : Evidence, status : {"FINAL", "INVALID"},
                observers : SUBSET Observer]

LineageRecord == [agent : Agent, proof : Proof, route : Route, active : BOOLEAN,
                  quarantined : BOOLEAN, recognized : Nat]

ASSUME InterchainAssumption ==
    /\ IsFiniteSet(Observer) /\ IsFiniteSet(Lineage) /\ IsFiniteSet(Agent)
    /\ Terms \in [Route -> RouteTerms]
    /\ Watches \in [Observer -> SUBSET Route]
    /\ ProvedOn \in [Evidence -> SUBSET Route]
    /\ Paid \in [Receipt -> Nat]
    /\ MaxPause \in Nat /\ MaxNative \in Nat
    /\ None \notin Content \cup ProofRecord \cup LineageRecord

VARIABLES
    routes,          \* the registered routes
    pausedFor,       \* pausedFor[r]: the transitions r's pause will still refuse
    routeObservers,  \* the registered observers
    candidates,      \* candidates[p]: what is being observed under id p, or None
    observations,    \* observations[p]: who observed it
    externalProofs,  \* externalProofs[p]: the proof, or None
    lineages,        \* lineages[l]: the lineage, or None
    external,        \* external[a]: a's reserves.external
    native           \* native[a]: a's reserves.native

proofVars == <<candidates, observations, externalProofs>>
valueVars == <<lineages, external, native>>
vars == <<routes, pausedFor, routeObservers, proofVars, valueVars>>

Init ==
    /\ routes = {}
    /\ pausedFor = [r \in Route |-> 0]
    /\ routeObservers = {}
    /\ candidates = [p \in Proof |-> None]
    /\ observations = [p \in Proof |-> {}]
    /\ externalProofs = [p \in Proof |-> None]
    /\ lineages = [l \in Lineage |-> None]
    /\ external = [a \in Agent |-> 0]
    /\ native = [a \in Agent |-> 0]

-----------------------------------------------------------------------------
(* Routes.                                                                   *)

\* A pause of d heights ends at the d-th transition after it: it refuses those
\* in between.
Refused(d) == IF d = 0 THEN 0 ELSE d - 1

\* A transition is one height nearer to the end of every pause.
Elapsed == [r \in Route |-> IF pausedFor[r] = 0 THEN 0 ELSE pausedFor[r] - 1]

Passes == pausedFor' = Elapsed

\* route.enabled: one of real value is audited, capped and watched by several.
Enabled(r) ==
    /\ r \in routes
    /\ Terms[r].realValue =>
           Terms[r].audited /\ Terms[r].cap > 0 /\ Terms[r].observerThreshold >= 2

Running(r) == Enabled(r) /\ pausedFor[r] = 0

registerRoute(r) ==
    /\ r \notin routes
    /\ routes' = routes \cup {r}
    /\ Passes
    /\ UNCHANGED <<routeObservers, proofVars, valueVars>>

registerRouteObserver(o) ==
    /\ o \notin routeObservers /\ Watches[o] # {}
    /\ routeObservers' = routeObservers \cup {o}
    /\ Passes
    /\ UNCHANGED <<routes, proofVars, valueVars>>

\* The new pause replaces the one under way, a longer one too.
pauseRoute(r, duration) ==
    /\ r \in routes
    /\ pausedFor' = [Elapsed EXCEPT ![r] = Refused(duration)]
    /\ UNCHANGED <<routes, routeObservers, proofVars, valueVars>>

\* A transition of another part of the engine.
Elsewhere ==
    /\ Passes
    /\ UNCHANGED <<routes, routeObservers, proofVars, valueVars>>

-----------------------------------------------------------------------------
(* External proofs.                                                          *)

Known == {p \in Proof : externalProofs[p] # None}

\* The evidence as the route's kind names it.
nullifier(content) == <<Terms[content.route].kind, content.evidence>>

\* Mutation of proofNullifiers: the evidence of an invalid proof is free again.
proofNullifiersFinal ==
    {nullifier(externalProofs[p]) : p \in {q \in Known : externalProofs[q].status = "FINAL"}}

\* What a proof rests on is a nullifier from then on.
proofNullifiers == {nullifier(externalProofs[p]) : p \in Known}

\* submitExternalProof, called by a client or by the quorum of observers.
Finalize(p, content, observers) ==
    /\ Running(content.route)
    /\ p \notin Known
    /\ Terms[content.route].kind # "FIXTURE" => content.route \in ProvedOn[content.evidence]
    /\ nullifier(content) \notin proofNullifiers
    /\ externalProofs' = [externalProofs EXCEPT ![p] =
           [route |-> content.route, evidence |-> content.evidence,
            status |-> "FINAL", observers |-> observers]]

\* Only the quorum submits to a route of real value.
submitExternalProof(p, content) ==
    /\ ~Terms[content.route].realValue
    /\ Finalize(p, content, {})
    /\ Passes
    /\ UNCHANGED <<routes, routeObservers, candidates, observations, valueVars>>

\* Mutation of Quorum: the observers need not be independent.
QuorumOfAny(r, observers) == Cardinality(observers) >= Terms[r].observerThreshold

Quorum(r, observers) ==
    /\ Cardinality(observers) >= Terms[r].observerThreshold
    /\ Cardinality({Group[o] : o \in observers}) >= Terms[r].observerThreshold

\* All observers of an id must have observed the same.  When the proof their
\* quorum submits is refused, so is the observation that completes the quorum.
observeExternalProof(o, p, content) ==
    LET r == content.route
        observers == observations[p] \cup {o}
    IN  /\ Enabled(r) /\ Terms[r].observerThreshold >= 2
        /\ o \in routeObservers /\ r \in Watches[o]
        /\ o \notin observations[p]
        /\ p \notin Known
        /\ candidates[p] \in {None, content}
        /\ candidates' = [candidates EXCEPT ![p] = content]
        /\ observations' = [observations EXCEPT ![p] = observers]
        /\ IF Quorum(r, observers) THEN Finalize(p, content, observers)
           ELSE UNCHANGED externalProofs
        /\ Passes
        /\ UNCHANGED <<routes, routeObservers, valueVars>>

-----------------------------------------------------------------------------
(* Value.                                                                    *)

Recognized(ls) == SumFunction([l \in ls |-> lineages[l].recognized])

Admitted == {l \in Lineage : lineages[l] # None}

ActiveOn(r) == {l \in Admitted : lineages[l].route = r /\ lineages[l].active}
ActiveOf(a) == {l \in Admitted : lineages[l].agent = a /\ lineages[l].active}
RestingOn(p) == {l \in Admitted : lineages[l].proof = p}

\* Mutation of Withdrawn: the value is only marked.
WithdrawnMarked(p, a) == 0

\* What a challenge of p takes from a's reserve.
Withdrawn(p, a) == Recognized({l \in RestingOn(p) : lineages[l].agent = a})

\* Mutation of Covered: the reserves are not looked at.
CoveredAlways(p) == TRUE

\* The reserves still hold what rests on p.
Covered(p) == \A a \in Agent : Withdrawn(p, a) <= external[a]

\* Mutation of Quarantined: value that was released in part is left alone.
QuarantinedWhole(p) ==
    {l \in RestingOn(p) : \E x \in Receipt : lineages[l].recognized = Paid[x]}

\* The lineages that a challenge of p quarantines.
Quarantined(p) == RestingOn(p)

\* A reserve that is short of what rests on the proof refuses the challenge:
\* assertInvariants throws NEGATIVE_RESERVE.
challengeExternalProof(p, pauseBlocks) ==
    /\ p \in Known /\ externalProofs[p].status = "FINAL"
    /\ Covered(p)
    /\ externalProofs' = [externalProofs EXCEPT ![p].status = "INVALID"]
    /\ pausedFor' = [Elapsed EXCEPT ![externalProofs[p].route] = Refused(pauseBlocks)]
    /\ lineages' = [l \in Lineage |->
           IF l \in Quarantined(p)
           THEN [lineages[l] EXCEPT !.active = FALSE, !.quarantined = TRUE]
           ELSE lineages[l]]
    /\ external' = [a \in Agent |-> external[a] - Withdrawn(p, a)]
    /\ UNCHANGED <<routes, routeObservers, candidates, observations, native>>

\* Mutation of WithinCap: each admission is held against the cap alone.
WithinCapAlone(r, recognized) == recognized <= Terms[r].cap

WithinCap(r, recognized) == Recognized(ActiveOn(r)) + recognized <= Terms[r].cap

\* recognized is what the route's haircut leaves of a receipt.  A route of
\* fixtures asks for no proof.
admitEarned(l, a, x, p, r, recognized) ==
    /\ Running(r)
    /\ Terms[r].kind # "FIXTURE" =>
           /\ p \in Known
           /\ externalProofs[p].status = "FINAL" /\ externalProofs[p].route = r
    /\ l \notin Admitted
    /\ recognized \in 0..Paid[x]
    /\ WithinCap(r, recognized)
    /\ lineages' = [lineages EXCEPT ![l] =
           [agent |-> a, proof |-> p, route |-> r, active |-> TRUE,
            quarantined |-> FALSE, recognized |-> recognized]]
    /\ external' = [external EXCEPT ![a] = @ + recognized]
    /\ Passes
    /\ UNCHANGED <<routes, routeObservers, proofVars, native>>

buy(a, amount) ==
    /\ native[a] + amount <= MaxNative
    /\ native' = [native EXCEPT ![a] = @ + amount]
    /\ Passes
    /\ UNCHANGED <<routes, routeObservers, proofVars, lineages, external>>

\* The external reserve pays first.
sell(a, quote) ==
    LET externalUsed == IF external[a] < quote THEN external[a] ELSE quote
    IN  /\ quote <= native[a] + external[a]
        /\ external' = [external EXCEPT ![a] = @ - externalUsed]
        /\ native' = [native EXCEPT ![a] = @ - (quote - externalUsed)]
        /\ Passes
        /\ UNCHANGED <<routes, routeObservers, proofVars, lineages>>

\* Mutation of Releasable: quarantined value can be released.
ReleasableAlways(l) == l \in Admitted

Releasable(l) == l \in Admitted /\ lineages[l].active

\* A reserve that sales have drained refuses the release.
releaseExternal(l, amount) ==
    /\ Releasable(l)
    /\ amount <= lineages[l].recognized
    /\ amount <= external[lineages[l].agent]
    /\ external' = [external EXCEPT ![lineages[l].agent] = @ - amount]
    /\ lineages' = [lineages EXCEPT ![l].recognized = @ - amount,
                                    ![l].active = lineages[l].recognized # amount]
    /\ Passes
    /\ UNCHANGED <<routes, routeObservers, proofVars, native>>

-----------------------------------------------------------------------------
RouteStep ==
    \/ \E r \in Route : registerRoute(r) \/ \E d \in 0..MaxPause : pauseRoute(r, d)
    \/ \E o \in Observer : registerRouteObserver(o)
    \/ Elsewhere

ProofStep ==
    \E p \in Proof :
        \/ \E content \in Content :
              \/ submitExternalProof(p, content)
              \/ \E o \in Observer : observeExternalProof(o, p, content)
        \/ \E d \in 0..MaxPause : challengeExternalProof(p, d)

ValueStep ==
    \/ \E l \in Lineage, a \in Agent, x \in Receipt, p \in Proof, r \in Route :
          \E recognized \in 0..Paid[x] : admitEarned(l, a, x, p, r, recognized)
    \/ \E l \in Admitted : \E n \in 1..lineages[l].recognized : releaseExternal(l, n)
    \/ \E a \in Agent :
          \/ \E n \in 1..MaxNative : buy(a, n)
          \/ \E n \in 1..(native[a] + external[a]) : sell(a, n)

Next == RouteStep \/ ProofStep \/ ValueStep

Spec == Init /\ [][Next]_vars

-----------------------------------------------------------------------------
(* Properties.                                                               *)

\* The shape of the state; no reserve is ever negative.
TypeOK ==
    /\ routes \subseteq Route
    /\ pausedFor \in [Route -> 0..MaxPause]
    /\ routeObservers \subseteq Observer
    /\ candidates \in [Proof -> Content \cup {None}]
    /\ observations \in [Proof -> SUBSET routeObservers]
    /\ externalProofs \in [Proof -> ProofRecord \cup {None}]
    /\ lineages \in [Lineage -> LineageRecord \cup {None}]
    /\ external \in [Agent -> Nat]
    /\ native \in [Agent -> 0..MaxNative]

\* No reserve holds more external value than its agent's active lineages stand
\* for, over admissions, sales, releases and challenges: a challenge takes with
\* the lineages what they brought (engine.js:99).
ReserveBacked == \A a \in Agent : external[a] <= Recognized(ActiveOf(a))

\* The active lineages of a route never exceed its cap together (engine.js:110).
CapHeld == \A r \in Route : Recognized(ActiveOn(r)) <= Terms[r].cap

\* No two proofs ever rest on the same nullifier, also when several quorums
\* observe it under several ids, and also after one was found fraudulent
\* (engine.js:98).
EvidenceUsedOnce ==
    \A p, q \in Known :
        nullifier(externalProofs[p]) = nullifier(externalProofs[q]) => p = q

\* A proof on a route of real value was observed by as many observers of
\* different groups as the route asks for, each registered and watching the
\* route (engine.js:97).
Witnessed ==
    \A p \in Known :
        LET proof == externalProofs[p]
        IN  Terms[proof.route].realValue =>
                /\ proof.observers \subseteq
                       {o \in routeObservers : proof.route \in Watches[o]}
                /\ Cardinality({Group[o] : o \in proof.observers})
                       >= Terms[proof.route].observerThreshold

\* No active lineage of an external route rests on a proof that was found
\* fraudulent, or on one of another route (engine.js:99, engine.js:104).
NothingRestsOnFraud ==
    \A l \in Admitted :
        LET p == lineages[l].proof
        IN  lineages[l].active /\ Terms[lineages[l].route].kind # "FIXTURE" =>
                /\ p \in Known
                /\ externalProofs[p].status = "FINAL"
                /\ externalProofs[p].route = lineages[l].route

\* Quarantined value is neither released nor admitted again: nothing changes a
\* quarantined lineage (engine.js:99, engine.js:134).
QuarantineIsFinal ==
    [][\A l \in Admitted : lineages[l].quarantined => lineages'[l] = lineages[l]]_vars
=============================================================================
