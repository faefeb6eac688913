----------------------------- MODULE StateSpace ------------------------------
(***************************************************************************)
(* The reachability graph that the verifier builds before a workflow runs  *)
(* (verification/verifier.go, BuildStateSpace): breadth-first from the     *)
(* marking of the net, up to a limit on the number of states.  States are  *)
(* numbered from 1 here, from 0 in the code.                               *)
(***************************************************************************)
EXTENDS Integers, Sequences

CONSTANTS
  Place, Transition,
  Needs,              \* Needs[t][p]: the largest weight of an arc from p to t
  Pre, Post,          \* Pre[t][p], Post[t][p]: the sum of the weights of such arcs,
                      \* and of the arcs from t to p
  InitialMarkings,    \* the token counts that the places of the net may have
  Limits              \* values of maxStates

(* Needs differs from Pre when two arcs connect the same place and          *)
(* transition, which AddArc allows.                                         *)
ASSUME StateSpaceAssumption ==
  /\ Needs \in [Transition -> [Place -> Nat]]
  /\ Pre \in [Transition -> [Place -> Nat]] /\ Post \in [Transition -> [Place -> Nat]]
  /\ \A t \in Transition, p \in Place : Needs[t][p] <= Pre[t][p]
  /\ InitialMarkings \subseteq [Place -> Nat]
  /\ Limits \subseteq Nat \ {0}

VARIABLES
  initial,        \* the marking when BuildStateSpace is called
  limit,          \* maxStates
  states,         \* StateSpace.States
  edges,          \* edges[i]: the edges from state i, in the order of their discovery
  queue,
  current,        \* the state that is expanded, 0 between two of them
  todo,           \* the transitions enabled in it that are still to be fired
  built,          \* BuildStateSpace has returned
  err             \* ... with "state space limit reached"

inputVars == <<initial, limit>>
spaceVars == <<inputVars, states, edges, queue, current, todo, built, err>>

(* Token counts; two arcs from one place can make them negative.            *)
Marking == [Place -> Int]

Edge == [to : Nat, via : Transition]

SpaceInit ==
  /\ initial \in InitialMarkings /\ limit \in Limits
  /\ states = <<initial>> /\ edges = <<<<>>>>
  /\ queue = <<1>> /\ current = 0 /\ todo = {}
  /\ built = FALSE /\ err = FALSE

-----------------------------------------------------------------------------
HasInput(t) == \E p \in Place : Needs[t][p] > 0

(* A transition without input arcs is never enabled here.                   *)
isEnabledAt(t, m) == HasInput(t) /\ \A p \in Place : m[p] >= Needs[t][p]

fire(t, m) == [p \in Place |-> m[p] - Pre[t][p] + Post[t][p]]

(* stateIndex[key]                                                          *)
Known(m) == {i \in 1..Len(states) : states[i] = m}

(* The top of the loop: the limit is looked at before each expansion.       *)
LimitReached ==
  /\ ~built /\ todo = {} /\ queue # <<>>
  /\ Len(states) >= limit
  /\ built' = TRUE /\ err' = TRUE
  /\ UNCHANGED <<inputVars, states, edges, queue, current, todo>>

Dequeue ==
  /\ ~built /\ todo = {} /\ queue # <<>>
  /\ Len(states) < limit
  /\ current' = Head(queue) /\ queue' = Tail(queue)
  /\ todo' = {t \in Transition : isEnabledAt(t, states[Head(queue)])}
  /\ UNCHANGED <<inputVars, states, edges, built, err>>

AddEdge(es, j, t) == [es EXCEPT ![current] = Append(@, [to |-> j, via |-> t])]

(* One enabled transition, in the arbitrary order of the map.               *)

(* Mutant: a state that was seen before is entered once more.               *)
NewStateAlways(t) ==
  LET successor == fire(t, states[current])
      newID == Len(states) + 1 IN
  /\ t \in todo /\ todo' = todo \ {t}
  /\ states' = Append(states, successor)
  /\ edges' = Append(AddEdge(edges, newID, t), <<>>)
  /\ queue' = Append(queue, newID)
  /\ UNCHANGED <<inputVars, current, built, err>>

OldState(t) ==
  LET successor == fire(t, states[current]) IN
  /\ t \in todo /\ todo' = todo \ {t}
  /\ \E i \in Known(successor) : edges' = AddEdge(edges, i, t)
  /\ UNCHANGED <<inputVars, states, queue, current, built, err>>

NewState(t) ==
  LET successor == fire(t, states[current])
      newID == Len(states) + 1 IN
  /\ t \in todo /\ todo' = todo \ {t}
  /\ Known(successor) = {}
  /\ states' = Append(states, successor)
  /\ edges' = Append(AddEdge(edges, newID, t), <<>>)
  /\ queue' = Append(queue, newID)
  /\ UNCHANGED <<inputVars, current, built, err>>

Finished ==
  /\ ~built /\ todo = {} /\ queue = <<>>
  /\ built' = TRUE
  /\ UNCHANGED <<inputVars, states, edges, queue, current, todo, err>>

BuildStep ==
  \/ LimitReached \/ Dequeue \/ Finished
  \/ \E t \in Transition : OldState(t) \/ NewState(t)

SpaceSpec == SpaceInit /\ [][BuildStep]_spaceVars

-----------------------------------------------------------------------------
SpaceTypeOK ==
  /\ initial \in InitialMarkings /\ limit \in Limits
  /\ states \in Seq(Marking) /\ states # <<>>
  /\ edges \in Seq(Seq(Edge)) /\ Len(edges) = Len(states)
  /\ \A i \in 1..Len(edges) : \A k \in 1..Len(edges[i]) : edges[i][k].to \in 1..Len(states)
  /\ queue \in Seq(1..Len(states))
  /\ current \in 0..Len(states)
  /\ todo \subseteq Transition /\ (todo # {} => current > 0)
  /\ built \in BOOLEAN /\ err \in BOOLEAN

(* No marking is entered twice.                                             *)
NoTwice ==
  \A i, j \in 1..Len(states) : i < j => states[i] # states[j]

(* An edge is a firing: its transition is enabled in the one state and      *)
(* leads to the other.                                                      *)
IsFiring(i, e) ==
  /\ isEnabledAt(e.via, states[i]) /\ states[e.to] = fire(e.via, states[i])

(* Every state but the first has an edge from an earlier one, and all edges *)
(* are firings: whatever is in the graph, complete or not, can be reached.  *)
Rooted ==
  /\ states[1] = initial
  /\ \A i \in 1..Len(states) : \A k \in 1..Len(edges[i]) : IsFiring(i, edges[i][k])
  /\ \A j \in 2..Len(states) : \E i \in 1..(j - 1) :
       \E k \in 1..Len(edges[i]) : edges[i][k].to = j

(* When the search ends without an error, each transition that is enabled   *)
(* in a state has its edge, and so firing does not lead out of the graph.   *)
Closed ==
  built /\ ~err =>
    \A i \in 1..Len(states), t \in Transition :
      isEnabledAt(t, states[i]) => \E k \in 1..Len(edges[i]) : edges[i][k].via = t

(* The graph is the set of the reachable markings, each of them once; a     *)
(* graph that the limit cut off is a part of it.                            *)
ExactWhenComplete == NoTwice /\ Rooted /\ Closed
=============================================================================
