----------------------------- MODULE NetBuilding ------------------------------
(***************************************************************************)
(* How a net is put together (petri/net.go, petri/arc.go) and what DryRun  *)
(* says of it (engine/dryrun.go).  A caller adds places, transitions and   *)
(* arcs under their IDs in any order, resolves the net, and may add more.  *)
(* What runs are the pointers that Resolve makes; an arc is in the lists   *)
(* of its nodes only if both were there when it was added.                 *)
(***************************************************************************)
EXTENDS Integers, Sequences, FiniteSets, FiniteSetsExt, SequencesExt

CONSTANTS
  Id,              \* IDs of places and of transitions, two maps that may share some
  ArcId,
  Weights,         \* the weights that NewArc is called with
  InitialTokens,   \* InitialTokens[i]: tokens that the place i is added with
  PlaceCapacity    \* PlaceCapacity[i]: capacity of the place i

ASSUME NetBuildingAssumption ==
  /\ IsFiniteSet(Id) /\ IsFiniteSet(ArcId) /\ Weights \subseteq Int
  /\ InitialTokens \in [Id -> Nat] /\ PlaceCapacity \in [Id -> Nat \ {0}]

VARIABLES
  nodes,           \* Places and Transitions
  arcs,            \* Arcs, a map from arc IDs to arcs
  inIds, outIds,   \* IncomingArcIDs and InputArcIDs, OutgoingArcIDs and OutputArcIDs
  inArcs, outArcs, \* the pointers that Resolve makes of them
  resolved,        \* net.resolved
  resolvedNodes,   \* the nodes that are resolved
  late             \* history: arcs that were added before their nodes, and
                   \* whatever was added after Resolve

listVars == <<inIds, outIds>>
pointerVars == <<inArcs, outArcs, resolved, resolvedNodes>>
netVars == <<nodes, arcs, listVars, pointerVars, late>>

-----------------------------------------------------------------------------
PlaceNode(i) == <<"place", i>>
TransitionNode(i) == <<"transition", i>>

Node == {"place", "transition"} \X Id

PlacesOf(ns) == {n \in ns : n[1] = "place"}
TransitionsOf(ns) == {n \in ns : n[1] = "transition"}

(* Source and Target are nodes, or NoNode before the arc is resolved.       *)
NoNode == <<"none">>

(* NewArc: a weight that is not positive becomes 1.                         *)
NewArc(src, tgt, weight) ==
  [sourceId |-> src, targetId |-> tgt, weight |-> IF weight <= 0 THEN 1 ELSE weight,
   source |-> NoNode, target |-> NoNode]

Arc ==
  [sourceId : Id, targetId : Id, weight : Nat \ {0},
   source : Node \cup {NoNode}, target : Node \cup {NoNode}]

NetInit ==
  /\ nodes = {} /\ arcs = [a \in {} |-> NewArc(0, 0, 0)]
  /\ inIds = [n \in Node |-> <<>>] /\ outIds = inIds
  /\ inArcs = inIds /\ outArcs = inIds
  /\ resolved = FALSE /\ resolvedNodes = {}
  /\ late = {}

Late(x) == late' = IF resolved THEN late \cup {x} ELSE late

(* AddPlace and AddTransition; an ID that is taken is an error.             *)
AddNode(n) ==
  /\ n \notin nodes
  /\ nodes' = nodes \cup {n}
  /\ Late(n)
  /\ UNCHANGED <<arcs, listVars, pointerVars>>

(* The nodes that the arc comes from and goes to, as AddArc sees them: both *)
(* ways, when IDs are shared.                                               *)
Ends(a, ns) ==
  {e \in ns \X ns :
     e[1][1] # e[2][1] /\ e[1][2] = a.sourceId /\ e[2][2] = a.targetId}

AppendNew(seq, x) == IF Contains(seq, x) THEN seq ELSE Append(seq, x)

(* Mutant: the arc is entered at a node whose other end is missing.         *)
AddArcOneSided(id, a) ==
  /\ id \notin DOMAIN arcs
  /\ arcs' = [i \in DOMAIN arcs \cup {id} |-> IF i = id THEN a ELSE arcs[i]]
  /\ outIds' = [n \in Node |-> IF n \in nodes /\ n[2] = a.sourceId
                               THEN AppendNew(outIds[n], id) ELSE outIds[n]]
  /\ inIds' = [n \in Node |-> IF n \in nodes /\ n[2] = a.targetId
                              THEN AppendNew(inIds[n], id) ELSE inIds[n]]
  /\ late' = IF resolved \/ Ends(a, nodes) = {} THEN late \cup {id} ELSE late
  /\ UNCHANGED <<nodes, pointerVars>>

AddArc(id, a) ==
  LET ends == Ends(a, nodes) IN
  /\ id \notin DOMAIN arcs
  /\ arcs' = [i \in DOMAIN arcs \cup {id} |-> IF i = id THEN a ELSE arcs[i]]
  /\ outIds' = [n \in Node |-> IF \E e \in ends : e[1] = n
                               THEN AppendNew(outIds[n], id) ELSE outIds[n]]
  /\ inIds' = [n \in Node |-> IF \E e \in ends : e[2] = n
                              THEN AppendNew(inIds[n], id) ELSE inIds[n]]
  /\ late' = IF resolved \/ ends = {} THEN late \cup {id} ELSE late
  /\ UNCHANGED <<nodes, pointerVars>>

(* Validate: the ends of every arc exist, as places or as transitions.      *)
Exists(i) == \E n \in nodes : n[2] = i

Validate == \A a \in DOMAIN arcs : Exists(arcs[a].sourceId) /\ Exists(arcs[a].targetId)

(* A place goes before a transition of the same ID.                         *)
Lookup(i) == IF PlaceNode(i) \in nodes THEN PlaceNode(i) ELSE TransitionNode(i)

(* A second Resolve does nothing and says so to nobody; one that fails has  *)
(* changed nothing.                                                         *)
Resolve ==
  /\ ~resolved /\ Validate
  /\ arcs' = [a \in DOMAIN arcs |->
                [arcs[a] EXCEPT !.source = Lookup(arcs[a].sourceId),
                                !.target = Lookup(arcs[a].targetId)]]
  /\ inArcs' = [n \in Node |-> IF n \in nodes THEN inArcs[n] \o inIds[n] ELSE inArcs[n]]
  /\ outArcs' = [n \in Node |-> IF n \in nodes THEN outArcs[n] \o outIds[n] ELSE outArcs[n]]
  /\ resolved' = TRUE /\ resolvedNodes' = nodes
  /\ UNCHANGED <<nodes, listVars, late>>

NewArcs == {NewArc(src, tgt, w) : src \in Id, tgt \in Id, w \in Weights}

NetNext ==
  \/ \E n \in Node : AddNode(n)
  \/ \E id \in ArcId, a \in NewArcs : AddArc(id, a)
  \/ Resolve

NetSpec == NetInit /\ [][NetNext]_netVars

-----------------------------------------------------------------------------
(* DryRun.  Its type assertions on Source and Target end the process when   *)
(* they are wrong.                                                          *)
ArcsOf(seq) == {arcs[a] : a \in Range(seq)}

WellTyped(n) ==
  /\ \A a \in ArcsOf(inArcs[n]) : a.target = n /\ a.source[1] # n[1]
  /\ \A a \in ArcsOf(outArcs[n]) : a.source = n /\ a.target[1] # n[1]

Weight(seq) == FoldSeq(LAMBDA a, sum : arcs[a].weight + sum, 0, seq)

Tokens(n) == InitialTokens[n[2]]

(* Mutant: only the weight of an arc is looked at.                          *)
InvalidArcsByWeight == {a \in DOMAIN arcs : arcs[a].weight <= 0}

InvalidArcs ==
  {a \in DOMAIN arcs : arcs[a].source = NoNode \/ arcs[a].target = NoNode \/ arcs[a].weight <= 0}

TransitionsWithoutInput == {n \in TransitionsOf(nodes) : inIds[n] = <<>>}

PlacesThatRunDry ==
  {n \in PlacesOf(nodes) : outIds[n] # <<>> /\ inIds[n] = <<>> /\ Tokens(n) > 0}

PlacesThatGrow ==
  {n \in PlacesOf(nodes) : outIds[n] # <<>> /\ Weight(inArcs[n]) > Weight(outArcs[n])}

PlacesTooFull == {n \in PlacesOf(nodes) : Tokens(n) > PlaceCapacity[n[2]]}

(* No errors, from checkUnreachableTransitions to checkPlaceCapacities.     *)
Valid ==
  /\ resolved
  /\ InvalidArcs = {} /\ TransitionsWithoutInput = {}
  /\ PlacesThatRunDry = {} /\ PlacesThatGrow = {} /\ PlacesTooFull = {}

(* Mutant: arcs are followed forwards only.                                 *)
NeighboursForward(n) ==
  [i \in DOMAIN outArcs[n] |-> arcs[outArcs[n][i]].target]

Neighbours(n) ==
  [i \in DOMAIN outArcs[n] |-> arcs[outArcs[n][i]].target]
  \o [i \in DOMAIN inArcs[n] |-> arcs[inArcs[n][i]].source]

(* visit, depth first: visited after it was called with a node.             *)
visit[x \in Node \X SUBSET Node] ==
  IF x[1] \in x[2] THEN x[2]
  ELSE FoldLeft(LAMBDA visited, m : visit[<<m, visited>>], x[2] \cup {x[1]}, Neighbours(x[1]))

(* The loops over the places and then the transitions.                      *)
Components ==
  LET Count(acc, n) ==
        IF n \in acc.visited THEN acc
        ELSE [visited |-> visit[<<n, acc.visited>>], count |-> acc.count + 1]
  IN FoldLeft(Count, [visited |-> {}, count |-> 0],
              SetToSeq(PlacesOf(nodes)) \o SetToSeq(TransitionsOf(nodes))).count

-----------------------------------------------------------------------------
Disjoint == \A i \in Id : PlaceNode(i) \notin nodes \/ TransitionNode(i) \notin nodes

(* What runs is what was declared: in a resolved net whose IDs name one     *)
(* node each, the type assertions on the ends of an arc hold, no arc counts *)
(* twice however often Resolve is called, and, if nothing was late, every   *)
(* declared arc is there at both ends.  (An arc that was added before its   *)
(* nodes or after Resolve is missing from what runs, without an error.)     *)
RunsAsDeclared ==
  resolved /\ Disjoint =>
    \A n \in nodes :
      /\ WellTyped(n) /\ IsInjective(inArcs[n]) /\ IsInjective(outArcs[n])
      /\ late = {} => /\ Range(inArcs[n]) = {a \in DOMAIN arcs : arcs[a].targetId = n[2]}
                      /\ Range(outArcs[n]) = {a \in DOMAIN arcs : arcs[a].sourceId = n[2]}

(* A net that DryRun calls valid can run as a whole, whatever was late in   *)
(* it and whatever IDs are shared: every transition is resolved and waits   *)
(* for a token of some place.                                               *)
ValidNetFires ==
  Valid => \A n \in TransitionsOf(nodes) : n \in resolvedNodes /\ inArcs[n] # <<>>

Edges ==
  {{arcs[a].source, arcs[a].target} : a \in UNION {Range(inArcs[n]) : n \in nodes}}

Joined(ns) == \A e \in Edges : e \subseteq ns \/ e \cap ns = {}

Parts ==
  {ns \in (SUBSET nodes) \ {{}} :
     Joined(ns) /\ \A m \in (SUBSET ns) \ {{}, ns} : ~Joined(m)}

(* connected_components is the number of parts that no arc of the resolved  *)
(* net connects, wherever the search begins.                                *)
ComponentsExact ==
  resolved /\ (\A n \in nodes : WellTyped(n)) => Components = Cardinality(Parts)
=============================================================================
