--------------------------- MODULE VerifierProofs ---------------------------
(***************************************************************************)
(* Proofs about the verifier, for every net, initial marking and limit.    *)
(* The reachability graph of module StateSpace is exact: a search that     *)
(* ends without an error has found every reachable marking once, and a     *)
(* search that the limit cuts off has found nothing else.  The verdicts    *)
(* that module Verifier draws from a complete graph hold in every          *)
(* concurrent run, and so do the warnings of the dry run.  The witness of  *)
(* a verdict is a run, and the search for it always finds one.  At the end *)
(* the other half of a dry run: the net that it looks at is the one that   *)
(* was declared, for every way to build it (module NetBuilding), and its   *)
(* search through that net counts the connected parts.                     *)
(***************************************************************************)
EXTENDS Verifier, NetBuilding, FiniteSetTheorems, WellFoundedInduction, TLAPS

-----------------------------------------------------------------------------
(* The inductive invariant.  Closed says nothing while the search goes on;  *)
(* Explored says how far it is: a state that is neither queued nor being    *)
(* expanded has the edges of all its transitions.                           *)

Queued(i) == \E q \in 1..Len(queue) : queue[q] = i

HasEdge(i, t) == \E k \in 1..Len(edges[i]) : edges[i][k].via = t

Explored ==
  \A i \in 1..Len(states), t \in Transition :
    isEnabledAt(t, states[i]) =>
      Queued(i) \/ HasEdge(i, t) \/ (i = current /\ t \in todo)

TodoEnabled == \A t \in todo : isEnabledAt(t, states[current])

EndsEmpty == built => todo = {} /\ (~err => queue = <<>>)

SpaceInv ==
  /\ SpaceTypeOK /\ NoTwice /\ Rooted
  /\ Explored /\ TodoEnabled /\ EndsEmpty

-----------------------------------------------------------------------------
(* What Append does.                                                        *)
LEMMA AppendShape ==
  ASSUME NEW S, NEW s \in Seq(S), NEW x \in S
  PROVE  /\ Append(s, x) \in Seq(S) /\ Len(Append(s, x)) = Len(s) + 1
         /\ Append(s, x)[Len(s) + 1] = x
         /\ \A i \in 1..Len(s) : Append(s, x)[i] = s[i]
  OBVIOUS

(* Firing leads from markings to markings.                                  *)
LEMMA FireIsMarking ==
  ASSUME NEW t \in Transition, NEW m \in Marking
  PROVE  fire(t, m) \in Marking
<1>1. Pre[t] \in [Place -> Nat] /\ Post[t] \in [Place -> Nat]
  BY StateSpaceAssumption
<1>2. \A p \in Place : m[p] - Pre[t][p] + Post[t][p] \in Int
  BY <1>1 DEF Marking
<1> QED BY <1>2 DEF fire, Marking

(* The search starts with the invariant.                                    *)
LEMMA InitSpaceInv == SpaceInit => SpaceInv
<1> SUFFICES ASSUME SpaceInit PROVE SpaceInv
  OBVIOUS
<1>1. initial \in Marking
  BY StateSpaceAssumption DEF SpaceInit, Marking
<1>3. Len(states) = 1 /\ states[1] = initial /\ edges[1] = <<>> /\ Len(edges[1]) = 0
  BY DEF SpaceInit
<1>2. SpaceTypeOK
  <2>1. <<>> \in Seq(Edge)
    OBVIOUS
  <2>2. edges \in Seq(Seq(Edge)) /\ Len(edges) = Len(states)
    BY <2>1, <1>3 DEF SpaceInit
  <2>3. states \in Seq(Marking) /\ states # <<>>
    BY <1>1 DEF SpaceInit
  <2>4. queue \in Seq(1..Len(states))
    BY <1>3 DEF SpaceInit
  <2>5. \A i \in 1..Len(edges) : \A k \in 1..Len(edges[i]) :
          edges[i][k].to \in 1..Len(states)
    BY <1>3, <2>2
  <2>6. initial \in InitialMarkings /\ limit \in Limits /\ current = 0 /\ todo = {}
        /\ built \in BOOLEAN /\ err \in BOOLEAN
    BY DEF SpaceInit
  <2> QED BY <1>3, <2>2, <2>3, <2>4, <2>5, <2>6 DEF SpaceTypeOK
<1>4. NoTwice /\ Rooted
  BY <1>3 DEF NoTwice, Rooted
<1>5. Explored
  BY <1>3 DEF Explored, Queued, SpaceInit
<1>6. TodoEnabled /\ EndsEmpty
  BY DEF SpaceInit, TodoEnabled, EndsEmpty
<1> QED BY <1>2, <1>4, <1>5, <1>6 DEF SpaceInv

(* Taking a state from the queue: its enabled transitions are to be tried.  *)
LEMMA DequeueSpaceInv == SpaceInv /\ Dequeue => SpaceInv'
<1> SUFFICES ASSUME SpaceInv, Dequeue PROVE SpaceInv'
  OBVIOUS
<1> USE DEF SpaceInv
<1>1. /\ queue \in Seq(1..Len(states)) /\ queue # <<>> /\ Len(queue) > 0
      /\ current' = queue[1] /\ queue' = Tail(queue)
      /\ current' \in 1..Len(states)
      /\ queue' \in Seq(1..Len(states)) /\ Len(queue') = Len(queue) - 1
      /\ \A q \in 1..Len(queue') : queue'[q] = queue[q + 1]
  BY DEF Dequeue, SpaceTypeOK
<1>2. UNCHANGED <<initial, limit, states, edges, built, err>> /\ todo = {} /\ ~built
  BY DEF Dequeue, inputVars
<1>3. todo' = {t \in Transition : isEnabledAt(t, states[current'])}
  BY DEF Dequeue
<1>4. SpaceTypeOK'
  BY <1>1, <1>2, <1>3 DEF SpaceTypeOK
<1>5. NoTwice' /\ Rooted'
  BY <1>2 DEF NoTwice, Rooted, IsFiring
<1>6. Explored'
  <2> SUFFICES ASSUME NEW i \in 1..Len(states), NEW t \in Transition,
                      isEnabledAt(t, states[i])
               PROVE  Queued(i)' \/ HasEdge(i, t) \/ (i = current' /\ t \in todo')
    BY <1>2 DEF Explored, HasEdge
  <2>1. CASE i = current'
    BY <2>1, <1>3
  <2>2. CASE i # current' /\ Queued(i)
    <3>1. PICK q \in 1..Len(queue) : queue[q] = i
      BY <2>2 DEF Queued
    <3>2. q # 1 /\ q - 1 \in 1..Len(queue') /\ queue'[q - 1] = i
      BY <3>1, <2>2, <1>1 DEF SpaceTypeOK
    <3> QED BY <3>2 DEF Queued
  <2>3. CASE ~Queued(i)
    BY <2>3, <1>2 DEF Explored
  <2> QED BY <2>1, <2>2, <2>3
<1>7. TodoEnabled' /\ EndsEmpty'
  BY <1>2, <1>3 DEF TodoEnabled, EndsEmpty
<1> QED BY <1>4, <1>5, <1>6, <1>7

(* es is edges with one more edge of the current state.                     *)
EdgesKept(es) ==
  \A i \in 1..Len(edges) : \A k \in 1..Len(edges[i]) :
    k \in 1..Len(es[i]) /\ es[i][k] = edges[i][k]

EdgesOldOr(es, j, t) ==
  \A i \in 1..Len(edges) : \A k \in 1..Len(es[i]) :
    \/ k \in 1..Len(edges[i]) /\ es[i][k] = edges[i][k]
    \/ i = current /\ es[i][k].to = j /\ es[i][k].via = t

EdgeThere(es, j, t) ==
  \E k \in 1..Len(es[current]) : es[current][k].to = j /\ es[current][k].via = t

(* A new edge of the current state, to a state that is there already or to  *)
(* the one that is entered with it: all other edges stay where they are.    *)
LEMMA AddEdgeShape ==
  ASSUME SpaceTypeOK, current > 0, NEW j \in Nat, NEW t \in Transition,
         NEW es, es = AddEdge(edges, j, t)
  PROVE  /\ es \in Seq(Seq(Edge)) /\ Len(es) = Len(edges)
         /\ EdgesKept(es) /\ EdgesOldOr(es, j, t) /\ EdgeThere(es, j, t)
<1> DEFINE e == [to |-> j, via |-> t]
<1>1. /\ current \in 1..Len(edges) /\ e \in Edge
      /\ \A i \in 1..Len(edges) : edges[i] \in Seq(Edge)
  BY DEF SpaceTypeOK, Edge
<1>2. Append(edges[current], e) \in Seq(Edge)
  BY <1>1
<1>3. /\ es \in Seq(Seq(Edge)) /\ Len(es) = Len(edges)
      /\ \A i \in 1..Len(edges) : i # current => es[i] = edges[i]
      /\ es[current] = Append(edges[current], e)
  BY <1>1, <1>2 DEF AddEdge, SpaceTypeOK
<1>4. e.to = j /\ e.via = t
  OBVIOUS
<1> HIDE DEF e
<1>5. /\ Len(Append(edges[current], e)) = Len(edges[current]) + 1
      /\ Append(edges[current], e)[Len(edges[current]) + 1] = e
      /\ \A k \in 1..Len(edges[current]) : Append(edges[current], e)[k] = edges[current][k]
  BY <1>1
<1>6. ASSUME NEW i \in 1..Len(edges), NEW k \in 1..Len(edges[i])
      PROVE  k \in 1..Len(es[i]) /\ es[i][k] = edges[i][k]
  <2>1. CASE i = current
    BY <2>1, <1>1, <1>3, <1>5
  <2>2. CASE i # current
    BY <2>2, <1>3
  <2> QED BY <2>1, <2>2
<1>7. ASSUME NEW i \in 1..Len(edges), NEW k \in 1..Len(es[i])
      PROVE  \/ k \in 1..Len(edges[i]) /\ es[i][k] = edges[i][k]
             \/ i = current /\ es[i][k].to = j /\ es[i][k].via = t
  <2>1. CASE i = current
    BY <2>1, <1>1, <1>3, <1>4, <1>5
  <2>2. CASE i # current
    BY <2>2, <1>3
  <2> QED BY <2>1, <2>2
<1>8. Len(edges[current]) + 1 \in 1..Len(es[current])
  BY <1>1, <1>3, <1>5
<1>9. \E k \in 1..Len(es[current]) : es[current][k].to = j /\ es[current][k].via = t
  BY <1>3, <1>4, <1>5, <1>8
<1> QED BY <1>3, <1>6, <1>7, <1>9 DEF EdgesKept, EdgesOldOr, EdgeThere

(* An edge to a known state.                                                *)
LEMMA OldStateSpaceInv == \A t \in Transition : SpaceInv /\ OldState(t) => SpaceInv'
<1> SUFFICES ASSUME NEW t \in Transition, SpaceInv, OldState(t) PROVE SpaceInv'
  OBVIOUS
<1> USE DEF SpaceInv
<1>1. PICK j \in Known(fire(t, states[current])) : edges' = AddEdge(edges, j, t)
  BY DEF OldState
<1>2. /\ j \in 1..Len(states) /\ states[j] = fire(t, states[current])
      /\ t \in todo /\ todo' = todo \ {t}
      /\ UNCHANGED <<initial, limit, states, queue, current, built, err>>
  BY <1>1 DEF OldState, Known, inputVars
<1>3. current > 0 /\ current \in 1..Len(states) /\ j \in Nat
  BY <1>2 DEF SpaceTypeOK
<1>4. /\ edges' \in Seq(Seq(Edge)) /\ Len(edges') = Len(edges)
      /\ EdgesKept(edges') /\ EdgesOldOr(edges', j, t) /\ EdgeThere(edges', j, t)
  <2>1. SpaceTypeOK /\ t \in Transition
    OBVIOUS
  <2> QED BY <1>1, <1>3, <2>1, AddEdgeShape
<1>5. Len(edges) = Len(states)
  BY DEF SpaceTypeOK
<1>6. SpaceTypeOK'
  <2>1. ASSUME NEW i \in 1..Len(edges), NEW k \in 1..Len(edges'[i])
        PROVE  edges'[i][k].to \in 1..Len(states)
    BY <1>2, <1>4 DEF SpaceTypeOK, EdgesOldOr
  <2> QED BY <1>2, <1>4, <2>1 DEF SpaceTypeOK
<1>7. NoTwice'
  BY <1>2 DEF NoTwice
<1>8. Rooted'
  <2>1. isEnabledAt(t, states[current])
    BY <1>2 DEF TodoEnabled
  <2>2. ASSUME NEW i \in 1..Len(states), NEW k \in 1..Len(edges'[i])
        PROVE  isEnabledAt(edges'[i][k].via, states[i])
               /\ states[edges'[i][k].to] = fire(edges'[i][k].via, states[i])
    <3>1. CASE k \in 1..Len(edges[i]) /\ edges'[i][k] = edges[i][k]
      BY <3>1 DEF Rooted, IsFiring
    <3>2. CASE i = current /\ edges'[i][k].to = j /\ edges'[i][k].via = t
      BY <3>2, <2>1, <1>2
    <3> QED BY <3>1, <3>2, <1>4, <1>5 DEF EdgesOldOr
  <2>3. ASSUME NEW h \in 2..Len(states)
        PROVE  \E i \in 1..(h - 1) : \E k \in 1..Len(edges'[i]) : edges'[i][k].to = h
    <3>1. PICK i \in 1..(h - 1) : \E k \in 1..Len(edges[i]) : edges[i][k].to = h
      BY DEF Rooted
    <3>2. PICK k \in 1..Len(edges[i]) : edges[i][k].to = h
      BY <3>1
    <3>3. i \in 1..Len(edges)
      BY <1>5 DEF SpaceTypeOK
    <3>4. k \in 1..Len(edges'[i]) /\ edges'[i][k] = edges[i][k]
      BY <1>4, <3>3 DEF EdgesKept
    <3> QED BY <3>2, <3>4
  <2> QED BY <1>2, <2>2, <2>3 DEF Rooted, IsFiring
<1>9. Explored'
  <2> SUFFICES ASSUME NEW i \in 1..Len(states), NEW u \in Transition,
                      isEnabledAt(u, states[i])
               PROVE  Queued(i) \/ HasEdge(i, u)' \/ (i = current /\ u \in todo')
    BY <1>2 DEF Explored, Queued
  <2>1. CASE Queued(i)
    BY <2>1
  <2>2. CASE HasEdge(i, u)
    BY <2>2, <1>4, <1>5 DEF HasEdge, EdgesKept
  <2>3. CASE i = current /\ u \in todo
    BY <2>3, <1>2, <1>4 DEF HasEdge, EdgeThere
  <2> QED BY <2>1, <2>2, <2>3 DEF Explored
<1>10. TodoEnabled' /\ EndsEmpty'
  BY <1>2 DEF TodoEnabled, EndsEmpty
<1> QED BY <1>6, <1>7, <1>8, <1>9, <1>10

(* A new state, with an edge to it, goes to the end of the queue.           *)
LEMMA NewStateSpaceInv == \A t \in Transition : SpaceInv /\ NewState(t) => SpaceInv'
<1> SUFFICES ASSUME NEW t \in Transition, SpaceInv, NewState(t) PROVE SpaceInv'
  OBVIOUS
<1> USE DEF SpaceInv
<1> DEFINE n == Len(states)
           m == fire(t, states[current])
           es == AddEdge(edges, n + 1, t)
<1>1. /\ t \in todo /\ todo' = todo \ {t} /\ Known(m) = {}
      /\ states' = Append(states, m) /\ edges' = Append(es, <<>>)
      /\ queue' = Append(queue, n + 1)
      /\ UNCHANGED <<initial, limit, current, built, err>>
  BY DEF NewState, inputVars
<1>2. /\ n \in Nat /\ n >= 1 /\ current \in 1..n /\ current > 0 /\ Len(edges) = n
      /\ states \in Seq(Marking) /\ queue \in Seq(1..n)
  BY <1>1 DEF SpaceTypeOK
<1>3. m \in Marking
  BY <1>2, FireIsMarking
<1>4. /\ es \in Seq(Seq(Edge)) /\ Len(es) = n
      /\ EdgesKept(es) /\ EdgesOldOr(es, n + 1, t) /\ EdgeThere(es, n + 1, t)
  <2>1. SpaceTypeOK /\ t \in Transition /\ n + 1 \in Nat
    BY <1>2
  <2> QED BY <1>2, <2>1, AddEdgeShape
<1> HIDE DEF m, es
<1>5. /\ states' \in Seq(Marking) /\ Len(states') = n + 1 /\ states'[n + 1] = m
      /\ \A i \in 1..n : states'[i] = states[i]
  BY <1>1, <1>2, <1>3
<1>6. /\ edges' \in Seq(Seq(Edge)) /\ Len(edges') = n + 1
      /\ edges'[n + 1] = <<>> /\ \A i \in 1..n : edges'[i] = es[i]
  <2>1. PICK none : none = <<>>
    OBVIOUS
  <2>2. none \in Seq(Edge)
    BY <2>1
  <2>3. edges' = Append(es, none)
    BY <1>1, <2>1
  <2>4. /\ edges' \in Seq(Seq(Edge)) /\ Len(edges') = Len(es) + 1
        /\ edges'[Len(es) + 1] = none
        /\ \A i \in 1..Len(es) : edges'[i] = es[i]
    BY <1>4, <2>2, <2>3, AppendShape
  <2> QED BY <1>4, <2>1, <2>4
<1>7. /\ queue' \in Seq(1..(n + 1)) /\ Len(queue') = Len(queue) + 1
      /\ queue'[Len(queue) + 1] = n + 1
      /\ \A q \in 1..Len(queue) : queue'[q] = queue[q]
  <2>1. queue \in Seq(1..(n + 1))
    BY <1>2
  <2> QED BY <1>1, <1>2, <2>1
<1>8. \A i \in 1..n : states[i] # m
  BY <1>1 DEF Known
<1>9. isEnabledAt(t, states[current]) /\ m = fire(t, states[current])
  BY <1>1 DEF TodoEnabled, m
<1>17. \A i \in 1..n : \A k \in 1..Len(edges[i]) : edges[i][k].to \in 1..n
  BY <1>2 DEF SpaceTypeOK
<1> HIDE DEF n
<1>10. ASSUME NEW i \in 1..(n + 1), NEW k \in 1..Len(edges'[i])
       PROVE  /\ i \in 1..n
              /\ \/ k \in 1..Len(edges[i]) /\ edges'[i][k] = edges[i][k]
                 \/ i = current /\ edges'[i][k].to = n + 1 /\ edges'[i][k].via = t
  <2>1. i # n + 1
    BY <1>6
  <2>2. i \in 1..n /\ edges'[i] = es[i]
    BY <1>2, <1>6, <2>1
  <2> QED BY <1>2, <1>4, <2>2 DEF EdgesOldOr
<1>11. ASSUME NEW i \in 1..n, NEW k \in 1..Len(edges[i])
       PROVE  k \in 1..Len(edges'[i]) /\ edges'[i][k] = edges[i][k]
  BY <1>2, <1>4, <1>6 DEF EdgesKept
<1>12. SpaceTypeOK'
  <2>1. ASSUME NEW i \in 1..(n + 1), NEW k \in 1..Len(edges'[i])
        PROVE  edges'[i][k].to \in 1..(n + 1)
    <3>1. CASE k \in 1..Len(edges[i]) /\ edges'[i][k] = edges[i][k]
      BY <1>2, <1>10, <1>17, <3>1
    <3>2. CASE edges'[i][k].to = n + 1
      BY <1>2, <3>2
    <3> QED BY <1>10, <3>1, <3>2
  <2>2. /\ initial' \in InitialMarkings /\ limit' \in Limits
        /\ built' \in BOOLEAN /\ err' \in BOOLEAN
        /\ todo' \subseteq Transition
    BY <1>1 DEF SpaceTypeOK
  <2>3. current' \in 0..(n + 1) /\ current' > 0
    BY <1>1, <1>2
  <2>4. states' # <<>>
    BY <1>2, <1>5
  <2> QED BY <1>5, <1>6, <1>7, <2>1, <2>2, <2>3, <2>4 DEF SpaceTypeOK
<1>13. NoTwice'
  <2>1. ASSUME NEW i \in 1..(n + 1), NEW j \in 1..(n + 1), i < j
        PROVE  states'[i] # states'[j]
    <3>1. CASE j = n + 1
      BY <3>1, <2>1, <1>2, <1>5, <1>8
    <3>2. CASE j # n + 1
      BY <3>2, <2>1, <1>2, <1>5 DEF NoTwice, n
    <3> QED BY <3>1, <3>2
  <2> QED BY <1>5, <2>1 DEF NoTwice
<1>14. Rooted'
  <2>1. states'[1] = initial'
    BY <1>1, <1>2, <1>5 DEF Rooted
  <2>2. ASSUME NEW i \in 1..(n + 1), NEW k \in 1..Len(edges'[i])
        PROVE  isEnabledAt(edges'[i][k].via, states'[i])
               /\ states'[edges'[i][k].to] = fire(edges'[i][k].via, states'[i])
    <3>1. i \in 1..n /\ states'[i] = states[i]
      BY <1>5, <1>10
    <3>2. CASE k \in 1..Len(edges[i]) /\ edges'[i][k] = edges[i][k]
      <4>1. edges[i][k].to \in 1..n
        BY <1>17, <3>1, <3>2
      <4>2. IsFiring(i, edges[i][k])
        BY <3>1, <3>2 DEF Rooted, n
      <4> QED BY <1>5, <3>1, <3>2, <4>1, <4>2 DEF IsFiring
    <3>3. CASE i = current /\ edges'[i][k].to = n + 1 /\ edges'[i][k].via = t
      BY <1>5, <1>9, <3>1, <3>3
    <3> QED BY <1>10, <3>2, <3>3
  <2>3. ASSUME NEW h \in 2..(n + 1)
        PROVE  \E i \in 1..(h - 1) : \E k \in 1..Len(edges'[i]) : edges'[i][k].to = h
    <3>1. CASE h = n + 1
      <4>1. PICK k \in 1..Len(es[current]) : es[current][k].to = n + 1
        BY <1>4 DEF EdgeThere
      <4>2. current \in 1..(h - 1) /\ edges'[current] = es[current]
        BY <1>2, <1>6, <3>1
      <4>3. k \in 1..Len(edges'[current]) /\ edges'[current][k].to = h
        BY <3>1, <4>1, <4>2
      <4> QED BY <4>2, <4>3
    <3>2. CASE h # n + 1
      <4>1. h \in 2..n
        BY <1>2, <3>2
      <4>2. PICK i \in 1..(h - 1) : \E k \in 1..Len(edges[i]) : edges[i][k].to = h
        BY <4>1 DEF Rooted, n
      <4>3. PICK k \in 1..Len(edges[i]) : edges[i][k].to = h
        BY <4>2
      <4>4. i \in 1..n
        BY <1>2, <4>1
      <4> QED BY <1>11, <4>3, <4>4
    <3> QED BY <3>1, <3>2
  <2> QED BY <1>5, <2>1, <2>2, <2>3 DEF Rooted, IsFiring
<1>15. Explored'
  <2> SUFFICES ASSUME NEW i \in 1..(n + 1), NEW u \in Transition,
                      isEnabledAt(u, states'[i])
               PROVE  Queued(i)' \/ HasEdge(i, u)' \/ (i = current /\ u \in todo')
    BY <1>1, <1>5 DEF Explored, Queued, HasEdge
  <2>1. CASE i = n + 1
    <3>1. Len(queue) + 1 \in 1..Len(queue') /\ queue'[Len(queue) + 1] = i
      BY <1>2, <1>7, <2>1
    <3> QED BY <3>1 DEF Queued
  <2>2. CASE i # n + 1
    <3>1. i \in 1..n /\ isEnabledAt(u, states[i])
      BY <1>2, <1>5, <2>2
    <3>2. CASE Queued(i)
      <4>1. PICK q \in 1..Len(queue) : queue[q] = i
        BY <3>2 DEF Queued
      <4>2. q \in 1..Len(queue') /\ queue'[q] = i
        BY <1>2, <1>7, <4>1
      <4> QED BY <4>2 DEF Queued
    <3>3. CASE HasEdge(i, u)
      BY <1>11, <3>1, <3>3 DEF HasEdge
    <3>4. CASE i = current /\ u \in todo
      <4>1. CASE u = t
        BY <1>2, <1>4, <1>6, <3>4, <4>1 DEF HasEdge, EdgeThere
      <4>2. CASE u # t
        BY <1>1, <3>4, <4>2
      <4> QED BY <4>1, <4>2
    <3> QED BY <3>1, <3>2, <3>3, <3>4 DEF Explored, n
  <2> QED BY <2>1, <2>2
<1>16. TodoEnabled' /\ EndsEmpty'
  <2>1. ~built \/ err
    BY <1>1 DEF EndsEmpty
  <2>2. \A u \in todo' : isEnabledAt(u, states'[current'])
    BY <1>1, <1>2, <1>5 DEF TodoEnabled
  <2> QED BY <1>1, <2>1, <2>2 DEF TodoEnabled, EndsEmpty
<1> QED BY <1>12, <1>13, <1>14, <1>15, <1>16

(* The search ends, with the limit or without.                              *)
LEMMA EndSpaceInv == SpaceInv /\ (LimitReached \/ Finished) => SpaceInv'
<1> SUFFICES ASSUME SpaceInv, LimitReached \/ Finished PROVE SpaceInv'
  OBVIOUS
<1> USE DEF SpaceInv
<1>1. UNCHANGED <<initial, limit, states, edges, queue, current, todo>> /\ built'
      /\ err' \in BOOLEAN
  BY DEF LimitReached, Finished, inputVars, SpaceTypeOK
<1>2. SpaceTypeOK' /\ NoTwice' /\ Rooted' /\ Explored' /\ TodoEnabled'
  BY <1>1 DEF SpaceTypeOK, NoTwice, Rooted, IsFiring, Explored, Queued, HasEdge, TodoEnabled
<1>3. EndsEmpty'
  BY DEF LimitReached, Finished, EndsEmpty
<1> QED BY <1>2, <1>3

(* A complete graph is closed: nothing is queued or being tried any more.   *)
LEMMA ExploredIsClosed == SpaceInv => Closed
<1> SUFFICES ASSUME SpaceInv, built, ~err,
                    NEW i \in 1..Len(states), NEW t \in Transition, isEnabledAt(t, states[i])
             PROVE  \E k \in 1..Len(edges[i]) : edges[i][k].via = t
  BY DEF Closed
<1>1. todo = {} /\ queue = <<>>
  BY DEF SpaceInv, EndsEmpty
<1>2. ~Queued(i)
  BY <1>1 DEF Queued
<1> QED BY <1>1, <1>2 DEF SpaceInv, Explored, HasEdge

(* Every step of the search keeps the invariant.                            *)
LEMMA BuildSpaceInv == SpaceInv /\ [BuildStep]_spaceVars => SpaceInv'
<1> SUFFICES ASSUME SpaceInv, [BuildStep]_spaceVars PROVE SpaceInv'
  OBVIOUS
<1>1. CASE LimitReached \/ Finished
  BY <1>1, EndSpaceInv
<1>2. CASE Dequeue
  BY <1>2, DequeueSpaceInv
<1>3. ASSUME NEW t \in Transition, OldState(t) PROVE SpaceInv'
  BY <1>3, OldStateSpaceInv
<1>4. ASSUME NEW t \in Transition, NewState(t) PROVE SpaceInv'
  BY <1>4, NewStateSpaceInv
<1>5. CASE UNCHANGED spaceVars
  BY <1>5 DEF spaceVars, inputVars, SpaceInv, SpaceTypeOK, NoTwice, Rooted, IsFiring,
              Explored, Queued, HasEdge, TodoEnabled, EndsEmpty
<1> QED BY <1>1, <1>2, <1>3, <1>4, <1>5 DEF BuildStep

(* The inductive invariant holds throughout BuildStateSpace.                *)
THEOREM SpaceInvariant == SpaceSpec => []SpaceInv
<1> QED BY InitSpaceInv, BuildSpaceInv, PTL DEF SpaceSpec

(* The graph that BuildStateSpace returns is exact, for every net, initial  *)
(* marking and limit (verification/verifier.go): no marking occurs twice,   *)
(* every state is reached from the initial one along edges that are         *)
(* firings, and a graph returned without an error is closed under firing.   *)
THEOREM StateSpaceExact == SpaceSpec => []ExactWhenComplete
<1>1. SpaceInv => ExactWhenComplete
  BY ExploredIsClosed DEF SpaceInv, ExactWhenComplete
<1> QED BY <1>1, SpaceInvariant, PTL

-----------------------------------------------------------------------------
(* What the threads that are firing will still put into a place: f[S] is    *)
(* the sum of the w[th] over the th in S.                                   *)

Sums(f, w) ==
  /\ f \in [SUBSET Thread -> Nat]
  /\ \A S \in SUBSET Thread : (\A th \in S : w[th] = 0) => f[S] = 0
  /\ \A S \in SUBSET Thread : \A th \in S : f[S] = f[S \ {th}] + w[th]

(* A sum of nothing.                                                        *)
LEMMA NothingSums ==
  ASSUME NEW w, \A th \in Thread : w[th] = 0
  PROVE  \E f : Sums(f, w) /\ f[Thread] = 0
<1> DEFINE f == [S \in SUBSET Thread |-> 0]
<1>1. f \in [SUBSET Thread -> Nat] /\ \A S \in SUBSET Thread : f[S] = 0
  OBVIOUS
<1> HIDE DEF f
<1>2. ASSUME NEW S \in SUBSET Thread, NEW th \in S PROVE f[S] = f[S \ {th}] + w[th]
  <2>1. S \ {th} \in SUBSET Thread /\ w[th] = 0
    OBVIOUS
  <2> QED BY <2>1, <1>1
<1>3. Sums(f, w)
  BY <1>1, <1>2 DEF Sums
<1> QED BY <1>1, <1>3

(* Every thread adds what it owes to the sum, and when one of them owes     *)
(* more or less the sum changes by the difference.                          *)
LEMMA OneSums ==
  ASSUME NEW th0 \in Thread, NEW w \in [Thread -> Nat], NEW v \in [Thread -> Nat],
         \A th \in Thread \ {th0} : v[th] = w[th], NEW f, Sums(f, w)
  PROVE  /\ f[Thread] \in Nat /\ f[Thread] >= w[th0]
         /\ \E g : Sums(g, v) /\ g[Thread] = f[Thread] - w[th0] + v[th0]
<1> DEFINE g == [S \in SUBSET Thread |->
                   IF th0 \in S THEN f[S \ {th0}] + v[th0] ELSE f[S]]
<1>1. f \in [SUBSET Thread -> Nat]
  BY DEF Sums
<1>2. \A S \in SUBSET Thread : S \ {th0} \in SUBSET Thread /\ f[S \ {th0}] \in Nat
  BY <1>1
<1>3. /\ g \in [SUBSET Thread -> Nat]
      /\ \A S \in SUBSET Thread :
           g[S] = IF th0 \in S THEN f[S \ {th0}] + v[th0] ELSE f[S]
  BY <1>1, <1>2
<1> HIDE DEF g
<1>4. ASSUME NEW S \in SUBSET Thread, \A th \in S : v[th] = 0 PROVE g[S] = 0
  <2>1. \A th \in S \ {th0} : w[th] = 0
    BY <1>4
  <2>2. f[S \ {th0}] = 0
    BY <2>1, <1>2 DEF Sums
  <2>3. CASE th0 \in S
    <3>1. v[th0] = 0
      BY <2>3, <1>4
    <3>2. g[S] = f[S \ {th0}] + v[th0]
      BY <2>3, <1>3
    <3> QED BY <2>2, <3>1, <3>2
  <2>4. CASE th0 \notin S
    <3>1. S \ {th0} = S
      BY <2>4
    <3> QED BY <3>1, <2>2, <2>4, <1>3
  <2> QED BY <2>3, <2>4
<1>5. ASSUME NEW S \in SUBSET Thread, NEW th \in S PROVE g[S] = g[S \ {th}] + v[th]
  <2>1. CASE th = th0
    <3>1. g[S] = f[S \ {th0}] + v[th0] /\ g[S \ {th0}] = f[S \ {th0}]
      BY <2>1, <1>2, <1>3
    <3> QED BY <2>1, <3>1
  <2>2. CASE th # th0 /\ th0 \in S
    <3>1. (S \ {th}) \ {th0} = (S \ {th0}) \ {th}
      OBVIOUS
    <3>2. S \ {th0} \in SUBSET Thread /\ th \in S \ {th0} /\ th \in Thread
      BY <2>2
    <3>3. f[S \ {th0}] = f[(S \ {th0}) \ {th}] + w[th] /\ w[th] = v[th]
      BY <2>2, <3>2 DEF Sums
    <3>4. S \ {th} \in SUBSET Thread /\ th0 \in S \ {th}
      BY <2>2
    <3>5. /\ g[S] = f[S \ {th0}] + v[th0]
          /\ g[S \ {th}] = f[(S \ {th}) \ {th0}] + v[th0]
      BY <2>2, <3>4, <1>3
    <3>6. f[(S \ {th}) \ {th0}] \in Nat /\ v[th] \in Nat /\ v[th0] \in Nat
      BY <3>2, <3>4, <1>2
    <3> HIDE DEF g
    <3> QED BY <3>1, <3>3, <3>5, <3>6
  <2>3. CASE th0 \notin S
    <3>1. th # th0 /\ th \in Thread /\ S \ {th} \in SUBSET Thread /\ th0 \notin S \ {th}
      BY <2>3
    <3>2. g[S] = f[S] /\ g[S \ {th}] = f[S \ {th}] /\ w[th] = v[th]
      BY <2>3, <3>1, <1>3
    <3> QED BY <3>2 DEF Sums
  <2> QED BY <2>1, <2>2, <2>3
<1>6. Sums(g, v)
  BY <1>3, <1>4, <1>5 DEF Sums
<1>7. f[Thread] = f[Thread \ {th0}] + w[th0] /\ f[Thread \ {th0}] \in Nat
  BY <1>2 DEF Sums
<1>8. g[Thread] = f[Thread \ {th0}] + v[th0]
  BY <1>3
<1>9. w[th0] \in Nat /\ v[th0] \in Nat
  OBVIOUS
<1>10. f[Thread] \in Nat /\ f[Thread] >= w[th0] /\ g[Thread] = f[Thread] - w[th0] + v[th0]
  BY <1>7, <1>8, <1>9
<1> QED BY <1>6, <1>10

-----------------------------------------------------------------------------
(* The sum of a place invariant is over a finite set of tokens ...          *)
LEMMA UnitsFinite ==
  ASSUME NEW S, IsFiniteSet(S), NEW y \in [S -> Int]
  PROVE  IsFiniteSet(Units(y))
<1> DEFINE T == {{p} \X (1..y[p]) : p \in S}
           f == [p \in S |-> {p} \X (1..y[p])]
<1>1. f \in Surjection(S, T)
  BY DEF Surjection
<1>2. IsFiniteSet(T)
  BY <1>1, FS_Surjection
<1>3. ASSUME NEW p \in S PROVE IsFiniteSet({p} \X (1..y[p]))
  <2>1. IsFiniteSet(1..y[p])
    BY FS_Interval
  <2>2. IsFiniteSet({p})
    BY FS_Singleton
  <2> QED BY <2>1, <2>2, FS_Product
<1>4. \A U \in T : IsFiniteSet(U)
  BY <1>3
<1>5. DOMAIN y = S
  OBVIOUS
<1> QED BY <1>2, <1>4, <1>5, FS_UNION DEF Units

LEMMA UnitsGrow ==
  ASSUME NEW S, IsFiniteSet(S), NEW y \in [S -> Int], NEW z \in [S -> Int],
         \A p \in S : y[p] <= z[p]
  PROVE  /\ Cardinality(Units(y)) \in Nat /\ Cardinality(Units(z)) \in Nat
         /\ Cardinality(Units(y)) <= Cardinality(Units(z))
<1>1. IsFiniteSet(Units(y)) /\ IsFiniteSet(Units(z))
  BY UnitsFinite
<1>2. ASSUME NEW e \in Units(y) PROVE e \in Units(z)
  <2>1. PICK p \in S : e \in {p} \X (1..y[p])
    BY DEF Units
  <2>2. PICK k \in 1..y[p] : e = <<p, k>>
    BY <2>1
  <2>3. k \in 1..z[p]
    BY <2>2
  <2>4. e \in {p} \X (1..z[p]) /\ p \in DOMAIN z
    BY <2>2, <2>3
  <2> QED BY <2>4 DEF Units
<1>3. Units(y) \in SUBSET Units(z)
  BY <1>2
<1> QED BY <1>1, <1>3, FS_Subset, FS_CardinalityType

(* ... and grows with its parts, be they above or below 0.                  *)
LEMMA SumGrows ==
  ASSUME NEW S, IsFiniteSet(S), NEW y \in [S -> Int], NEW z \in [S -> Int],
         \A p \in S : y[p] <= z[p]
  PROVE  SumOver(y) \in Int /\ SumOver(z) \in Int /\ SumOver(y) <= SumOver(z)
<1> DEFINE ny == [p \in S |-> -y[p]]
           nz == [p \in S |-> -z[p]]
<1>1. ny \in [S -> Int] /\ nz \in [S -> Int] /\ \A p \in S : nz[p] <= ny[p]
  OBVIOUS
<1>2. /\ SumOver(y) = Cardinality(Units(y)) - Cardinality(Units(ny))
      /\ SumOver(z) = Cardinality(Units(z)) - Cardinality(Units(nz))
  BY DEF SumOver
<1> HIDE DEF ny, nz
<1>3. /\ Cardinality(Units(y)) \in Nat /\ Cardinality(Units(z)) \in Nat
      /\ Cardinality(Units(y)) <= Cardinality(Units(z))
  BY UnitsGrow
<1>4. /\ Cardinality(Units(ny)) \in Nat /\ Cardinality(Units(nz)) \in Nat
      /\ Cardinality(Units(nz)) <= Cardinality(Units(ny))
  BY <1>1, UnitsGrow
<1> QED BY <1>2, <1>3, <1>4

(* A bound on tokens that a marking breaks is broken by every larger one.   *)
LEMMA LargerBreaksToo ==
  ASSUME NEW c \in Checks, BoundsTokens(c),
         NEW m \in [Place -> Nat], NEW n \in [Place -> Int],
         \A p \in Place : m[p] <= n[p], Hit(c, m)
  PROVE  Hit(c, n)
<1>1. CheckOK(c)
  BY VerifierAssumption
<1>2. CASE c.kind = "mutex"
  <2>1. c.placeA \in Place /\ c.placeB \in Place
    BY <1>1, <1>2 DEF CheckOK
  <2>2. m[c.placeA] > 0 /\ m[c.placeB] > 0
    BY <1>2 DEF Hit
  <2>3. n[c.placeA] > 0 /\ n[c.placeB] > 0
    BY <2>1, <2>2
  <2> QED BY <1>2, <2>3 DEF Hit
<1>3. CASE c.kind = "bounded"
  <2>1. c.place \in Place /\ c.maxTokens \in Int
    BY <1>1, <1>3 DEF CheckOK
  <2>2. m[c.place] > c.maxTokens
    BY <1>3 DEF Hit
  <2>3. n[c.place] > c.maxTokens
    BY <2>1, <2>2
  <2> QED BY <1>3, <2>3 DEF Hit
<1>4. CASE c.kind = "invariant"
  <2>1. c.bound \in Int /\ \E S \in SUBSET Place : c.coefficients \in [S -> Int]
    BY <1>1, <1>4 DEF CheckOK
  <2>2. PICK S \in SUBSET Place : c.coefficients \in [S -> Int]
    BY <2>1
  <2> DEFINE y == [p \in DOMAIN c.coefficients |-> c.coefficients[p] * m[p]]
             z == [p \in DOMAIN c.coefficients |-> c.coefficients[p] * n[p]]
  <2>3. IsFiniteSet(S)
    BY VerifierAssumption, FS_Subset
  <2>4. DOMAIN c.coefficients = S
    BY <2>2
  <2>5. ASSUME NEW p \in S
        PROVE  /\ c.coefficients[p] * m[p] \in Int /\ c.coefficients[p] * n[p] \in Int
               /\ c.coefficients[p] * m[p] <= c.coefficients[p] * n[p]
    <3>1. c.coefficients[p] \in Nat
      BY <1>4, <2>2, <2>4 DEF BoundsTokens
    <3>2. m[p] \in Int /\ n[p] \in Int /\ m[p] <= n[p]
      OBVIOUS
    <3>3. \A a, b \in Int, k \in Nat : a <= b => k * a \in Int /\ k * b \in Int /\ k * a <= k * b
      OBVIOUS
    <3> QED BY <3>1, <3>2, <3>3
  <2>6. y \in [S -> Int] /\ z \in [S -> Int] /\ \A p \in S : y[p] <= z[p]
    BY <2>4, <2>5
  <2>7. SumOver(y) > c.bound
    BY <1>4 DEF Hit
  <2> HIDE DEF y, z
  <2>8. SumOver(y) \in Int /\ SumOver(z) \in Int /\ SumOver(y) <= SumOver(z)
    BY <2>3, <2>6, SumGrows
  <2>9. SumOver(z) > c.bound
    BY <2>1, <2>7, <2>8
  <2> QED BY <1>4, <2>9 DEF Hit, z
<1> QED BY <1>2, <1>3, <1>4 DEF BoundsTokens

-----------------------------------------------------------------------------
(* The workflow at work.  A firing of which nothing was put yet may go      *)
(* either way; the other firings that are under way only put what is        *)
(* missing.  Whichever of the open firings D will be undone, what is in the *)
(* places now with what the firings still owe them is a state of the graph, *)
(* or less of it where a full place has refused a token.                    *)

Undecided ==
  {th \in Thread : firing[th] # None /\ \A p \in Place : firing[th].made[p] = 0}

Owes(D, p) ==
  [th \in Thread |->
     IF firing[th] = None THEN 0
     ELSE IF th \in D THEN Pre[firing[th].trans][p]
     ELSE Post[firing[th].trans][p] - firing[th].made[p]]

CoverAt(D, i) ==
  \A p \in Place : \E f :
    /\ Sums(f, Owes(D, p))
    /\ marking[p] + f[Thread] <= states[i][p]
    /\ WithinCapacity => marking[p] + f[Thread] = states[i][p]

Cover ==
  (\A t \in Transition : HasInput(t)) =>
    \A D \in SUBSET Undecided : \E i \in 1..Len(states) : CoverAt(D, i)

MadeOK ==
  \A th \in Thread : firing[th] # None =>
    \A p \in Place : firing[th].made[p] <= Post[firing[th].trans][p]

GameOK == Game!GameTypeOK /\ MadeOK

Idle == marking = initial /\ firing = [th \in Thread |-> None]

(* A check is answered by what it hit, and the workflow starts after it.    *)
Answered ==
  /\ result = [pc |-> result.pc, satisfied |-> result.satisfied, witness |-> result.witness]
  /\ result.pc # "ready" => Idle
  /\ result.pc # "none" => built /\ check \in Checks
  /\ result.pc # "none" /\ result.satisfied /\ check.kind # "reachability" => Hits(check) = {}

NeverFilled ==
  \A p \in Place : UnreachablePlace(p) =>
    /\ marking[p] = 0
    /\ \A th \in Thread : firing[th] # None => Pre[firing[th].trans][p] = 0

VerdictInv == SpaceInv /\ GameOK /\ Answered /\ Cover /\ NeverFilled

(* What is owed is a number of tokens.                                      *)
OwesNat == \A D \in SUBSET Thread, p \in Place : Owes(D, p) \in [Thread -> Nat]

LEMMA OwesType == GameOK => OwesNat
<1> SUFFICES ASSUME GameOK, NEW D \in SUBSET Thread, NEW p \in Place
             PROVE  Owes(D, p) \in [Thread -> Nat]
  BY DEF OwesNat
<1> SUFFICES ASSUME NEW th \in Thread, firing[th] # None
             PROVE  /\ Pre[firing[th].trans][p] \in Nat
                    /\ Post[firing[th].trans][p] - firing[th].made[p] \in Nat
  BY DEF Owes
<1>1. firing[th].trans \in Transition /\ firing[th].made \in [Place -> Nat]
  BY DEF GameOK, Game!GameTypeOK
<1>2. Pre[firing[th].trans][p] \in Nat /\ Post[firing[th].trans][p] \in Nat
  BY <1>1, StateSpaceAssumption
<1>3. firing[th].made[p] \in Nat /\ firing[th].made[p] <= Post[firing[th].trans][p]
  BY <1>1 DEF GameOK, MadeOK
<1> QED BY <1>2, <1>3

LEMMA OwesTypeNext == GameOK' => OwesNat'
BY OwesType, PTL

(* A net that does not run is in the initial state of the graph.            *)
LEMMA IdleCovered == SpaceInv /\ Idle => Cover
<1> SUFFICES ASSUME SpaceInv, Idle, NEW D \in SUBSET Undecided
             PROVE  \E i \in 1..Len(states) : CoverAt(D, i)
  BY DEF Cover
<1>1. 1 \in 1..Len(states) /\ states[1] = marking /\ initial \in InitialMarkings
  <2>1. states \in Seq(Marking) /\ states # <<>>
    BY DEF SpaceInv, SpaceTypeOK
  <2>2. Len(states) \in Nat /\ Len(states) > 0
    BY <2>1
  <2> QED BY <2>2 DEF SpaceInv, Rooted, Idle, SpaceTypeOK
<1>2. ASSUME NEW p \in Place
      PROVE  \E f : /\ Sums(f, Owes(D, p))
                    /\ marking[p] + f[Thread] <= states[1][p]
                    /\ WithinCapacity => marking[p] + f[Thread] = states[1][p]
  <2>1. \A th \in Thread : Owes(D, p)[th] = 0
    BY DEF Idle, Owes
  <2>2. PICK f : Sums(f, Owes(D, p)) /\ f[Thread] = 0
    BY <2>1, NothingSums
  <2>3. marking[p] \in Int
    BY <1>1, StateSpaceAssumption DEF Idle
  <2>4. marking[p] + f[Thread] = states[1][p] /\ marking[p] + f[Thread] <= states[1][p]
    BY <1>1, <2>2, <2>3
  <2> QED BY <2>2, <2>4
<1> QED BY <1>1, <1>2 DEF CoverAt

(* What one thread does to its firing and to the places.                    *)
Moves(th0, D, E, i, j) ==
  /\ D \ {th0} = E \ {th0} /\ states' = states
  /\ \A th \in Thread \ {th0} : firing'[th] = firing[th]
  /\ i \in 1..Len(states) /\ j \in 1..Len(states)
  /\ \A p \in Place :
       LET was == marking[p] + Owes(D, p)[th0] - states[i][p]
           is  == marking'[p] + Owes(E, p)'[th0] - states[j][p]
       IN  is <= was /\ (WithinCapacity => is = was)

(* The step of one thread keeps what the others owe, and so the cover.      *)
LEMMA MoveCovered ==
  ASSUME SpaceInv, GameOK, GameOK', NEW th0 \in Thread,
         NEW D \in SUBSET Thread, NEW E \in SUBSET Thread, NEW i, NEW j,
         Moves(th0, D, E, i, j), CoverAt(D, i)
  PROVE  CoverAt(E, j)'
<1> SUFFICES ASSUME NEW p \in Place
             PROVE  \E g : /\ Sums(g, Owes(E, p)')
                           /\ marking'[p] + g[Thread] <= states[j][p]
                           /\ WithinCapacity => marking'[p] + g[Thread] = states[j][p]
  BY DEF CoverAt, Moves, WithinCapacity
<1> DEFINE w == Owes(D, p)
           v == Owes(E, p)'
<1>1. w \in [Thread -> Nat]
  BY OwesType DEF OwesNat
<1>2. v \in [Thread -> Nat]
  BY OwesTypeNext DEF OwesNat
<1>3. \A th \in Thread \ {th0} : v[th] = w[th]
  BY DEF Moves, Owes
<1>4. PICK f : /\ Sums(f, w)
               /\ marking[p] + f[Thread] <= states[i][p]
               /\ WithinCapacity => marking[p] + f[Thread] = states[i][p]
  BY DEF CoverAt
<1>5. /\ marking'[p] + v[th0] - states[j][p] <= marking[p] + w[th0] - states[i][p]
      /\ WithinCapacity =>
           marking'[p] + v[th0] - states[j][p] = marking[p] + w[th0] - states[i][p]
  BY DEF Moves
<1>6. /\ marking[p] \in Int /\ marking'[p] \in Int
      /\ states[i][p] \in Int /\ states[j][p] \in Int
  <2>1. marking \in [Place -> Nat] /\ marking' \in [Place -> Nat]
    BY DEF GameOK, Game!GameTypeOK
  <2>2. states \in Seq(Marking) /\ i \in 1..Len(states) /\ j \in 1..Len(states)
    BY DEF Moves, SpaceInv, SpaceTypeOK
  <2> QED BY <2>1, <2>2 DEF Marking
<1> HIDE DEF w, v
<1>7. /\ f[Thread] \in Nat
      /\ \E g : Sums(g, v) /\ g[Thread] = f[Thread] - w[th0] + v[th0]
  <2>1. Sums(f, w)
    BY <1>4
  <2> QED BY ONLY <1>1, <1>2, <1>3, <2>1, th0 \in Thread, OneSums
<1>8. PICK g : Sums(g, v) /\ g[Thread] = f[Thread] - w[th0] + v[th0]
  BY <1>7
<1>9. w[th0] \in Int /\ v[th0] \in Int
  BY <1>1, <1>2
<1>10. /\ marking'[p] + g[Thread] <= states[j][p]
       /\ WithinCapacity => marking'[p] + g[Thread] = states[j][p]
  <2>1. marking[p] + f[Thread] <= states[i][p] => marking'[p] + g[Thread] <= states[j][p]
    BY <1>5, <1>6, <1>7, <1>8, <1>9
  <2>2. /\ marking[p] + f[Thread] = states[i][p]
        /\ marking'[p] + v[th0] - states[j][p] = marking[p] + w[th0] - states[i][p]
        => marking'[p] + g[Thread] = states[j][p]
    BY <1>6, <1>7, <1>8, <1>9
  <2> QED BY <1>4, <1>5, <2>1, <2>2
<1> QED BY <1>8, <1>10 DEF v

(* The steps of one firing, and what each of them does to it.               *)
GameStep(th) ==
  \/ \E t \in Transition : Game!Start(th, t)
  \/ \E p \in Place : Game!Put(th, p)
  \/ Game!Commit(th) \/ Game!Abort(th) \/ Game!Fail(th)

LEMMA GameShape ==
  ASSUME GameOK, NEW th \in Thread, GameStep(th)
  PROVE  /\ firing' \in [Thread -> {None} \cup [trans : Transition, made : [Place -> Nat]]]
         /\ \A u \in Thread \ {th} : firing'[u] = firing[u]
<1>1. firing \in [Thread -> {None} \cup [trans : Transition, made : [Place -> Nat]]]
  BY DEF GameOK, Game!GameTypeOK
<1>2. ASSUME NEW t \in Transition, Game!Start(th, t)
      PROVE  firing' \in [Thread -> {None} \cup [trans : Transition, made : [Place -> Nat]]]
             /\ \A u \in Thread \ {th} : firing'[u] = firing[u]
  <2>1. [trans |-> t, made |-> [p \in Place |-> 0]] \in [trans : Transition, made : [Place -> Nat]]
    OBVIOUS
  <2> QED BY <1>1, <1>2, <2>1 DEF Game!Start
<1>3. ASSUME NEW p \in Place, Game!Put(th, p)
      PROVE  firing' \in [Thread -> {None} \cup [trans : Transition, made : [Place -> Nat]]]
             /\ \A u \in Thread \ {th} : firing'[u] = firing[u]
  <2>1. firing[th] \in [trans : Transition, made : [Place -> Nat]]
    BY <1>1, <1>3 DEF Game!Put
  <2>2. [firing[th] EXCEPT !.made[p] = @ + 1] \in [trans : Transition, made : [Place -> Nat]]
    BY <2>1
  <2>3. firing' = [firing EXCEPT ![th] = [firing[th] EXCEPT !.made[p] = @ + 1]]
    BY <1>1, <1>3 DEF Game!Put
  <2> QED BY <1>1, <2>2, <2>3
<1>4. CASE Game!Commit(th) \/ Game!Abort(th) \/ Game!Fail(th)
  BY <1>1, <1>4 DEF Game!Commit, Game!Abort, Game!Fail
<1> QED BY <1>2, <1>3, <1>4 DEF GameStep

LEMMA StartShape ==
  ASSUME GameOK, NEW th \in Thread, NEW t \in Transition, Game!Start(th, t)
  PROVE  /\ firing[th] = None /\ firing'[th] # None /\ firing'[th].trans = t
         /\ \A p \in Place : /\ firing'[th].made[p] = 0
                             /\ marking[p] >= Pre[t][p]
                             /\ marking'[p] = marking[p] - Pre[t][p]
<1> DEFINE new == [trans |-> t, made |-> [p \in Place |-> 0]]
<1>1. /\ new \in [trans : Transition, made : [Place -> Nat]] /\ new.trans = t
      /\ \A p \in Place : new.made[p] = 0
  OBVIOUS
<1>2. firing \in [Thread -> {None} \cup [trans : Transition, made : [Place -> Nat]]]
  BY DEF GameOK, Game!GameTypeOK
<1>3. firing' = [firing EXCEPT ![th] = new]
  BY DEF Game!Start
<1> HIDE DEF new
<1>4. firing'[th] = new /\ new # None
  BY <1>1, <1>2, <1>3, VerifierAssumption
<1> QED BY <1>1, <1>4 DEF Game!Start

LEMMA PutShape ==
  ASSUME GameOK, NEW th \in Thread, NEW p \in Place, Game!Put(th, p)
  PROVE  /\ firing[th] # None /\ firing'[th] # None
         /\ firing'[th].trans = firing[th].trans
         /\ firing'[th].made[p] = firing[th].made[p] + 1
         /\ firing[th].made[p] < Post[firing[th].trans][p]
         /\ marking'[p] = marking[p] + 1
         /\ \A q \in Place \ {p} : /\ firing'[th].made[q] = firing[th].made[q]
                                   /\ marking'[q] = marking[q]
<1>1. firing \in [Thread -> {None} \cup [trans : Transition, made : [Place -> Nat]]]
      /\ marking \in [Place -> Nat]
  BY DEF GameOK, Game!GameTypeOK
<1>2. firing[th] \in [trans : Transition, made : [Place -> Nat]]
  BY <1>1 DEF Game!Put
<1> DEFINE new == [firing[th] EXCEPT !.made[p] = @ + 1]
<1>3. /\ new \in [trans : Transition, made : [Place -> Nat]] /\ new.trans = firing[th].trans
      /\ new.made[p] = firing[th].made[p] + 1
      /\ \A q \in Place \ {p} : new.made[q] = firing[th].made[q]
  BY <1>2
<1>4. firing' = [firing EXCEPT ![th] = new]
  BY <1>1 DEF Game!Put
<1> HIDE DEF new
<1>5. firing'[th] = new /\ new # None
  BY <1>1, <1>3, <1>4, VerifierAssumption
<1>6. marking'[p] = marking[p] + 1 /\ \A q \in Place \ {p} : marking'[q] = marking[q]
  BY <1>1 DEF Game!Put
<1> QED BY <1>3, <1>5, <1>6 DEF Game!Put

LEMMA EndShape ==
  ASSUME GameOK, NEW th \in Thread, Game!Commit(th) \/ Game!Abort(th) \/ Game!Fail(th)
  PROVE  firing[th] # None /\ firing'[th] = None
<1>1. firing \in [Thread -> {None} \cup [trans : Transition, made : [Place -> Nat]]]
  BY DEF GameOK, Game!GameTypeOK
<1> QED BY <1>1 DEF Game!Commit, Game!Abort, Game!Fail

(* Markings stay natural numbers: a firing takes what is there.             *)
LEMMA GameKept ==
  ASSUME GameOK, NEW th \in Thread, GameStep(th)
  PROVE  GameOK'
<1>1. marking \in [Place -> Nat]
  BY DEF GameOK, Game!GameTypeOK
<1>2. firing[th] # None => firing[th].trans \in Transition /\ firing[th].made \in [Place -> Nat]
  BY DEF GameOK, Game!GameTypeOK
<1>3. \A t \in Transition, p \in Place : Pre[t][p] \in Nat /\ Post[t][p] \in Nat
  BY StateSpaceAssumption
<1>4. ASSUME NEW p \in Place
      PROVE  firing'[th] # None => firing'[th].made[p] <= Post[firing'[th].trans][p]
  <2>1. ASSUME NEW t \in Transition, Game!Start(th, t)
        PROVE  firing'[th].made[p] <= Post[firing'[th].trans][p]
    BY <2>1, <1>3, StartShape
  <2>2. ASSUME NEW q \in Place, Game!Put(th, q)
        PROVE  firing'[th].made[p] <= Post[firing'[th].trans][p]
    <3>1. CASE p = q
      BY <2>2, <3>1, <1>2, <1>3, PutShape
    <3>2. CASE p # q
      <4>1. firing'[th].made[p] = firing[th].made[p] /\ firing'[th].trans = firing[th].trans
            /\ firing[th] # None
        BY <2>2, <3>2, PutShape
      <4> QED BY <4>1 DEF GameOK, MadeOK
    <3> QED BY <3>1, <3>2
  <2>3. CASE Game!Commit(th) \/ Game!Abort(th) \/ Game!Fail(th)
    BY <2>3, EndShape
  <2> QED BY <2>1, <2>2, <2>3 DEF GameStep
<1>5. marking' \in [Place -> Nat]
  <2>1. ASSUME NEW t \in Transition, Game!Start(th, t) PROVE marking' \in [Place -> Nat]
    <3>1. ASSUME NEW p \in Place PROVE marking[p] - Pre[t][p] \in Nat
      BY <2>1, <1>1, <1>3 DEF Game!Start
    <3> QED BY <2>1, <3>1 DEF Game!Start
  <2>2. ASSUME NEW p \in Place, Game!Put(th, p) PROVE marking' \in [Place -> Nat]
    BY <2>2, <1>1 DEF Game!Put
  <2>3. CASE Game!Commit(th) \/ Game!Fail(th)
    BY <2>3, <1>1 DEF Game!Commit, Game!Fail
  <2>4. CASE Game!Abort(th)
    BY <2>4, <1>1, <1>2, <1>3 DEF Game!Abort
  <2> QED BY <2>1, <2>2, <2>3, <2>4 DEF GameStep
<1>6. MadeOK'
  <2> SUFFICES ASSUME NEW u \in Thread, firing'[u] # None, NEW p \in Place
               PROVE  firing'[u].made[p] <= Post[firing'[u].trans][p]
    BY DEF MadeOK
  <2>1. CASE u = th
    BY <2>1, <1>4
  <2>2. CASE u # th
    BY <2>2, GameShape DEF GameOK, MadeOK
  <2> QED BY <2>1, <2>2
<1> QED BY <1>5, <1>6, GameShape DEF GameOK, Game!GameTypeOK

(* No token comes to a place that nothing leads to.                         *)
LEMMA NeverFilledKept ==
  ASSUME GameOK, NeverFilled, NEW th \in Thread, GameStep(th), UNCHANGED initial
  PROVE  NeverFilled'
<1> SUFFICES ASSUME NEW p \in Place, UnreachablePlace(p)
             PROVE  /\ marking'[p] = 0
                    /\ \A u \in Thread : firing'[u] # None => Pre[firing'[u].trans][p] = 0
  BY DEF NeverFilled, UnreachablePlace
<1>1. /\ marking[p] = 0
      /\ \A u \in Thread : firing[u] # None => Pre[firing[u].trans][p] = 0
  BY DEF NeverFilled
<1>2. \A t \in Transition : Pre[t][p] \in Nat /\ Post[t][p] \in Nat /\ ~(Post[t][p] > 0)
  BY StateSpaceAssumption DEF UnreachablePlace, HasIncoming
<1>3. firing[th] # None => firing[th].trans \in Transition /\ firing[th].made \in [Place -> Nat]
  BY DEF GameOK, Game!GameTypeOK
<1>4. /\ marking'[p] = 0 /\ (firing'[th] # None => Pre[firing'[th].trans][p] = 0)
  <2>1. ASSUME NEW t \in Transition, Game!Start(th, t)
        PROVE  marking'[p] = 0 /\ Pre[firing'[th].trans][p] = 0
    BY <2>1, <1>1, <1>2, StartShape
  <2>2. ASSUME NEW q \in Place, Game!Put(th, q)
        PROVE  marking'[p] = 0 /\ Pre[firing'[th].trans][p] = 0
    <3>1. q # p
      BY <2>2, <1>2, <1>3, PutShape
    <3> QED BY <2>2, <3>1, <1>1, PutShape
  <2>3. CASE Game!Commit(th) \/ Game!Fail(th)
    BY <2>3, <1>1, EndShape DEF Game!Commit, Game!Fail
  <2>4. CASE Game!Abort(th)
    <3>1. marking'[p] = marking[p] + Pre[firing[th].trans][p] /\ firing[th] # None
      BY <2>4 DEF Game!Abort
    <3> QED BY <2>4, <3>1, <1>1, EndShape
  <2> QED BY <2>1, <2>2, <2>3, <2>4 DEF GameStep
<1> QED BY <1>1, <1>4, GameShape

(* What a thread owes, before and after its step.                           *)
LEMMA OwesParts ==
  ASSUME NEW th \in Thread, NEW D, NEW p \in Place
  PROVE  /\ firing[th] = None => Owes(D, p)[th] = 0
         /\ firing[th] # None /\ th \in D => Owes(D, p)[th] = Pre[firing[th].trans][p]
         /\ firing[th] # None /\ th \notin D =>
              Owes(D, p)[th] = Post[firing[th].trans][p] - firing[th].made[p]
         /\ firing'[th] = None => Owes(D, p)'[th] = 0
         /\ firing'[th] # None /\ th \in D => Owes(D, p)'[th] = Pre[firing'[th].trans][p]
         /\ firing'[th] # None /\ th \notin D =>
              Owes(D, p)'[th] = Post[firing'[th].trans][p] - firing'[th].made[p]
BY DEF Owes

(* A covered marking has no more tokens than its state, and where a place   *)
(* is owed something it has fewer.                                          *)
LEMMA CoverBounds ==
  ASSUME GameOK, NEW D \in SUBSET Thread, NEW i \in 1..Len(states), CoverAt(D, i),
         NEW th \in Thread, NEW p \in Place, SpaceInv
  PROVE  /\ marking[p] \in Nat /\ states[i][p] \in Int /\ Owes(D, p)[th] \in Nat
         /\ marking[p] + Owes(D, p)[th] <= states[i][p]
<1>1. marking[p] \in Nat /\ states[i][p] \in Int
  <2>1. marking[p] \in Nat
    BY DEF GameOK, Game!GameTypeOK
  <2>2. states \in Seq(Marking)
    BY DEF SpaceInv, SpaceTypeOK
  <2>3. states[i] \in [Place -> Int]
    BY <2>2 DEF Marking
  <2> QED BY <2>1, <2>3
<1> DEFINE w == Owes(D, p)
<1>2. w \in [Thread -> Nat]
  BY OwesType DEF OwesNat
<1>3. PICK f : Sums(f, w) /\ marking[p] + f[Thread] <= states[i][p]
  BY DEF CoverAt
<1> HIDE DEF w
<1>4. f[Thread] \in Nat /\ f[Thread] >= w[th]
  <2>1. \A u \in Thread \ {th} : w[u] = w[u]
    OBVIOUS
  <2> QED BY ONLY <1>2, <1>3, <2>1, th \in Thread, OneSums
<1>5. w[th] \in Nat /\ marking[p] + w[th] <= states[i][p]
  BY <1>1, <1>2, <1>3, <1>4
<1> QED BY <1>1, <1>5 DEF w

(* Firing a transition that is enabled in a state leads to a state.         *)
LEMMA Successor ==
  ASSUME SpaceInv, built, ~err, NEW i \in 1..Len(states), NEW t \in Transition,
         isEnabledAt(t, states[i])
  PROVE  \E j \in 1..Len(states) :
           \A p \in Place : states[j][p] = states[i][p] - Pre[t][p] + Post[t][p]
<1>1. PICK k \in 1..Len(edges[i]) : edges[i][k].via = t
  BY ExploredIsClosed DEF Closed
<1>2. i \in 1..Len(edges)
  BY DEF SpaceInv, SpaceTypeOK
<1>3. edges[i][k].to \in 1..Len(states)
  BY <1>2 DEF SpaceInv, SpaceTypeOK
<1>4. IsFiring(i, edges[i][k])
  BY DEF SpaceInv, Rooted
<1>5. states[edges[i][k].to] = fire(t, states[i])
  BY <1>1, <1>4 DEF IsFiring
<1> QED BY <1>3, <1>5 DEF fire

LEMMA StartCovered ==
  ASSUME SpaceInv, GameOK, GameOK', built, ~err, states' = states, Cover,
         \A t \in Transition : HasInput(t),
         NEW th \in Thread, NEW t \in Transition, Game!Start(th, t),
         NEW E \in SUBSET Undecided'
  PROVE  \E j \in 1..Len(states) : CoverAt(E, j)'
<1> DEFINE D == E \ {th}
<1>1. /\ firing[th] = None /\ firing'[th] # None /\ firing'[th].trans = t
      /\ \A p \in Place : /\ firing'[th].made[p] = 0
                          /\ marking[p] >= Pre[t][p]
                          /\ marking'[p] = marking[p] - Pre[t][p]
  BY StartShape
<1>2. \A u \in Thread \ {th} : firing'[u] = firing[u]
  BY GameShape DEF GameStep
<1>3. E \in SUBSET Thread /\ D \in SUBSET Thread /\ D \in SUBSET Undecided
  BY <1>2 DEF Undecided
<1>4. PICK i \in 1..Len(states) : CoverAt(D, i)
  BY <1>3 DEF Cover
<1>5. ASSUME NEW p \in Place
      PROVE  /\ marking[p] \in Nat /\ states[i][p] \in Int /\ marking[p] <= states[i][p]
             /\ Pre[t][p] \in Nat /\ Post[t][p] \in Nat
             /\ Needs[t][p] \in Nat /\ Needs[t][p] <= Pre[t][p]
             /\ Owes(D, p)[th] = 0
  <2>1. Owes(D, p)[th] = 0
    BY <1>1, OwesParts
  <2>2. marking[p] \in Nat /\ states[i][p] \in Int /\ marking[p] + 0 <= states[i][p]
    BY <1>3, <1>4, <2>1, CoverBounds
  <2>3. marking[p] <= states[i][p]
    BY <2>2
  <2> QED BY <2>1, <2>2, <2>3, StateSpaceAssumption
<1>6. E \ {th} = D \ {th}
  OBVIOUS
<1> HIDE DEF D
<1>7. CASE th \in E
  <2>1. ASSUME NEW p \in Place
        PROVE  marking'[p] + Owes(E, p)'[th] - states[i][p]
                 = marking[p] + Owes(D, p)[th] - states[i][p]
    <3>1. Owes(E, p)'[th] = Pre[t][p]
      BY <1>1, <1>7, OwesParts
    <3> QED BY <3>1, <1>1, <1>5
  <2>2. ASSUME NEW p \in Place
        PROVE  marking'[p] + Owes(E, p)'[th] - states[i][p]
                 <= marking[p] + Owes(D, p)[th] - states[i][p]
    BY <2>1, <1>5
  <2>3. Moves(th, D, E, i, i)
    BY <1>2, <1>6, <2>1, <2>2 DEF Moves
  <2> QED BY <1>3, <1>4, <2>3, MoveCovered
<1>8. CASE th \notin E
  <2>1. isEnabledAt(t, states[i])
    BY <1>1, <1>5 DEF isEnabledAt
  <2>2. PICK j \in 1..Len(states) :
          \A p \in Place : states[j][p] = states[i][p] - Pre[t][p] + Post[t][p]
    BY <2>1, Successor
  <2>3. ASSUME NEW p \in Place
        PROVE  marking'[p] + Owes(E, p)'[th] - states[j][p]
                 = marking[p] + Owes(D, p)[th] - states[i][p]
    <3>1. Owes(E, p)'[th] = Post[t][p]
      <4>1. Owes(E, p)'[th] = Post[t][p] - 0
        BY <1>1, <1>8, OwesParts
      <4> QED BY <4>1, <1>5
    <3>2. states[j][p] = states[i][p] - Pre[t][p] + Post[t][p]
      BY <2>2
    <3>3. marking'[p] = marking[p] - Pre[t][p]
      BY <1>1
    <3>4. /\ marking[p] \in Nat /\ states[i][p] \in Int /\ Pre[t][p] \in Nat
          /\ Post[t][p] \in Nat /\ Owes(D, p)[th] = 0
      BY <1>5
    <3> DEFINE m == marking[p]  s == states[i][p]  a == Pre[t][p]  b == Post[t][p]
    <3>5. m \in Nat /\ s \in Int /\ a \in Nat /\ b \in Nat
      BY <3>4
    <3> HIDE DEF m, s, a, b
    <3>6. (m - a) + b - (s - a + b) = m + 0 - s
      BY ONLY <3>5
    <3> QED BY ONLY <3>1, <3>2, <3>3, <3>4, <3>6 DEF m, s, a, b
  <2>4. ASSUME NEW p \in Place
        PROVE  marking'[p] + Owes(E, p)'[th] - states[j][p]
                 <= marking[p] + Owes(D, p)[th] - states[i][p]
    BY <2>3, <1>5
  <2>5. Moves(th, D, E, i, j)
    BY <1>2, <1>6, <2>3, <2>4 DEF Moves
  <2> QED BY <1>3, <1>4, <2>5, MoveCovered
<1> QED BY <1>7, <1>8

LEMMA PutCovered ==
  ASSUME SpaceInv, GameOK, GameOK', states' = states, Cover,
         \A t \in Transition : HasInput(t),
         NEW th \in Thread, NEW q \in Place, Game!Put(th, q),
         NEW E \in SUBSET Undecided'
  PROVE  \E j \in 1..Len(states) : CoverAt(E, j)'
<1>1. /\ firing[th] # None /\ firing'[th] # None
      /\ firing'[th].trans = firing[th].trans
      /\ firing'[th].made[q] = firing[th].made[q] + 1
      /\ marking'[q] = marking[q] + 1
      /\ \A p \in Place \ {q} : /\ firing'[th].made[p] = firing[th].made[p]
                                /\ marking'[p] = marking[p]
  BY PutShape
<1>2. \A u \in Thread \ {th} : firing'[u] = firing[u]
  BY GameShape DEF GameStep
<1>3. firing[th].trans \in Transition /\ firing[th].made \in [Place -> Nat]
  BY <1>1 DEF GameOK, Game!GameTypeOK
<1>4. th \notin E
  BY <1>1, <1>3 DEF Undecided
<1>5. E \in SUBSET Thread /\ E \in SUBSET Undecided
  BY <1>2, <1>4 DEF Undecided
<1>6. PICK i \in 1..Len(states) : CoverAt(E, i)
  BY <1>5 DEF Cover
<1>7. ASSUME NEW p \in Place
      PROVE  /\ marking'[p] + Owes(E, p)'[th] - states[i][p]
                  = marking[p] + Owes(E, p)[th] - states[i][p]
             /\ marking'[p] + Owes(E, p)'[th] - states[i][p]
                  <= marking[p] + Owes(E, p)[th] - states[i][p]
  <2>1. /\ Owes(E, p)[th] = Post[firing[th].trans][p] - firing[th].made[p]
        /\ Owes(E, p)'[th] = Post[firing[th].trans][p] - firing'[th].made[p]
    BY <1>1, <1>4, OwesParts
  <2>2. /\ marking[p] \in Nat /\ states[i][p] \in Int
        /\ Post[firing[th].trans][p] \in Nat /\ firing[th].made[p] \in Nat
    BY <1>3, <1>5, <1>6, CoverBounds, StateSpaceAssumption
  <2>3. CASE p = q
    <3>1. marking'[p] = marking[p] + 1 /\ firing'[th].made[p] = firing[th].made[p] + 1
      BY <2>3, <1>1
    <3> DEFINE goal == Post[firing[th].trans][p]
               m    == firing[th].made[p]
    <3>2. Owes(E, p)'[th] = Owes(E, p)[th] - 1
      <4>1. Owes(E, p)[th] = goal - m /\ Owes(E, p)'[th] = goal - (m + 1) /\ goal \in Nat /\ m \in Nat
        BY <2>1, <2>2, <3>1
      <4>2. \A k, n \in Nat : k - (n + 1) = (k - n) - 1
        OBVIOUS
      <4>3. goal - (m + 1) = (goal - m) - 1
        BY ONLY <4>1, <4>2
      <4> QED BY ONLY <4>1, <4>3
    <3>3. Owes(E, p)[th] \in Int
      BY <2>1, <2>2
    <3>4. marking'[p] \in Int /\ Owes(E, p)'[th] \in Int /\ marking[p] \in Int
      BY <2>2, <3>1, <3>2, <3>3
    <3>5. \A a, b, c, d, e \in Int :
            a = b + 1 /\ c = d - 1 => a + c - e = b + d - e /\ a + c - e <= b + d - e
      OBVIOUS
    <3> QED BY ONLY <2>2, <3>1, <3>2, <3>3, <3>4, <3>5
  <2>4. CASE p # q
    <3>1. marking'[p] = marking[p] /\ firing'[th].made[p] = firing[th].made[p]
      BY <2>4, <1>1
    <3> QED BY <2>1, <2>2, <3>1
  <2> QED BY <2>3, <2>4
<1>8. Moves(th, E, E, i, i)
  BY <1>2, <1>7 DEF Moves
<1> QED BY <1>5, <1>6, <1>8, MoveCovered

(* The thread that committed or failed owes nothing more: a failed firing   *)
(* leaves less than the state has, and only a place that is full, or the    *)
(* state beyond its capacity, makes a firing fail.                          *)
LEMMA EndCovered ==
  ASSUME SpaceInv, GameOK, GameOK', states' = states, Cover,
         \A t \in Transition : HasInput(t),
         NEW th \in Thread, Game!Commit(th) \/ Game!Fail(th),
         NEW E \in SUBSET Undecided'
  PROVE  \E j \in 1..Len(states) : CoverAt(E, j)'
<1>1. firing[th] # None /\ firing'[th] = None /\ marking' = marking
  BY EndShape DEF Game!Commit, Game!Fail
<1>2. \A u \in Thread \ {th} : firing'[u] = firing[u]
  BY GameShape DEF GameStep
<1>3. firing[th].trans \in Transition /\ firing[th].made \in [Place -> Nat]
  BY <1>1 DEF GameOK, Game!GameTypeOK
<1>4. th \notin E
  BY <1>1 DEF Undecided
<1>5. E \in SUBSET Thread /\ E \in SUBSET Undecided
  BY <1>2, <1>4 DEF Undecided
<1>6. PICK i \in 1..Len(states) : CoverAt(E, i)
  BY <1>5 DEF Cover
<1>7. ASSUME NEW p \in Place
      PROVE  /\ marking[p] \in Nat /\ states[i][p] \in Int
             /\ Post[firing[th].trans][p] \in Nat /\ firing[th].made[p] \in Nat
             /\ Owes(E, p)[th] = Post[firing[th].trans][p] - firing[th].made[p]
             /\ Owes(E, p)[th] \in Nat
             /\ marking[p] + Owes(E, p)[th] <= states[i][p]
             /\ Owes(E, p)'[th] = 0
  <2>1. /\ marking[p] \in Nat /\ states[i][p] \in Int /\ Owes(E, p)[th] \in Nat
        /\ marking[p] + Owes(E, p)[th] <= states[i][p]
    BY <1>5, <1>6, CoverBounds
  <2>2. /\ Owes(E, p)[th] = Post[firing[th].trans][p] - firing[th].made[p]
        /\ Owes(E, p)'[th] = 0
    BY <1>1, <1>4, OwesParts
  <2>3. Post[firing[th].trans][p] \in Nat /\ firing[th].made[p] \in Nat
    BY <1>3, StateSpaceAssumption
  <2> QED BY <2>1, <2>2, <2>3
<1>8. Game!Fail(th) => ~WithinCapacity
  <2> SUFFICES ASSUME Game!Fail(th), WithinCapacity PROVE FALSE
    OBVIOUS
  <2>1. PICK p \in Place : /\ firing[th].made[p] < Post[firing[th].trans][p]
                           /\ marking[p] >= Capacity[p]
    BY DEF Game!Fail, Game!Refuses
  <2>2. Capacity[p] \in Nat /\ states[i][p] <= Capacity[p]
    BY VerifierAssumption DEF WithinCapacity
  <2>3. Post[firing[th].trans][p] - firing[th].made[p] >= 1
    BY <1>7, <2>1
  <2> QED BY <1>7, <2>1, <2>2, <2>3
<1>9. ASSUME NEW p \in Place
      PROVE  /\ marking'[p] + Owes(E, p)'[th] - states[i][p]
                  <= marking[p] + Owes(E, p)[th] - states[i][p]
             /\ WithinCapacity => marking'[p] + Owes(E, p)'[th] - states[i][p]
                  = marking[p] + Owes(E, p)[th] - states[i][p]
  <2>1. marking'[p] = marking[p]
    BY <1>1
  <2>2. marking'[p] + Owes(E, p)'[th] - states[i][p]
          <= marking[p] + Owes(E, p)[th] - states[i][p]
    BY <1>7, <2>1
  <2>3. CASE Game!Commit(th)
    <3>1. Owes(E, p)[th] = 0
      BY <1>7, <2>3 DEF Game!Commit
    <3>2. marking'[p] + Owes(E, p)'[th] - states[i][p]
            = marking[p] + Owes(E, p)[th] - states[i][p]
      BY <1>7, <2>1, <3>1
    <3> QED BY <2>2, <3>2
  <2>4. CASE Game!Fail(th)
    BY <2>2, <2>4, <1>8
  <2> QED BY <2>3, <2>4
<1>10. Moves(th, E, E, i, i)
  BY <1>2, <1>9 DEF Moves
<1> QED BY <1>5, <1>6, <1>10, MoveCovered

(* A firing that is undone was open: the cover that counted on its inputs   *)
(* is the one that holds now.                                               *)
LEMMA AbortCovered ==
  ASSUME SpaceInv, GameOK, GameOK', states' = states, Cover,
         \A t \in Transition : HasInput(t),
         NEW th \in Thread, Game!Abort(th),
         NEW E \in SUBSET Undecided'
  PROVE  \E j \in 1..Len(states) : CoverAt(E, j)'
<1> DEFINE D == E \cup {th}
<1>1. /\ firing[th] # None /\ firing'[th] = None
      /\ \A p \in Place : firing[th].made[p] = 0
      /\ \A p \in Place : marking'[p] = marking[p] + Pre[firing[th].trans][p]
  BY EndShape DEF Game!Abort
<1>2. \A u \in Thread \ {th} : firing'[u] = firing[u]
  BY GameShape DEF GameStep
<1>3. th \notin E
  BY <1>1 DEF Undecided
<1>4. E \in SUBSET Thread /\ D \in SUBSET Thread /\ D \in SUBSET Undecided
  BY <1>1, <1>2, <1>3 DEF Undecided
<1>5. D \ {th} = E \ {th} /\ th \in D
  OBVIOUS
<1> HIDE DEF D
<1>6. PICK i \in 1..Len(states) : CoverAt(D, i)
  BY <1>4 DEF Cover
<1>7. ASSUME NEW p \in Place
      PROVE  /\ marking'[p] + Owes(E, p)'[th] - states[i][p]
                  = marking[p] + Owes(D, p)[th] - states[i][p]
             /\ marking'[p] + Owes(E, p)'[th] - states[i][p]
                  <= marking[p] + Owes(D, p)[th] - states[i][p]
  <2>1. Owes(E, p)'[th] = 0 /\ Owes(D, p)[th] = Pre[firing[th].trans][p]
    BY <1>1, <1>5, OwesParts
  <2>2. marking[p] \in Nat /\ states[i][p] \in Int /\ Owes(D, p)[th] \in Nat
    BY <1>4, <1>6, CoverBounds
  <2>3. marking'[p] = marking[p] + Pre[firing[th].trans][p]
    BY <1>1
  <2> QED BY <2>1, <2>2, <2>3
<1>8. Moves(th, D, E, i, i)
  BY <1>2, <1>5, <1>7 DEF Moves
<1> QED BY <1>4, <1>6, <1>8, MoveCovered

-----------------------------------------------------------------------------
LEMMA InitVerdictInv == Init => VerdictInv
<1> SUFFICES ASSUME Init PROVE VerdictInv
  OBVIOUS
<1>1. SpaceInv
  BY InitSpaceInv DEF Init
<1>2. Idle /\ result = NoResult
  BY DEF Init, Idle
<1>3. marking \in [Place -> Nat]
  BY StateSpaceAssumption DEF Init, SpaceInit
<1>4. GameOK
  BY <1>2, <1>3 DEF GameOK, Game!GameTypeOK, MadeOK, Idle
<1>5. Answered
  BY <1>2 DEF Answered, NoResult
<1>6. Cover
  BY <1>1, <1>2, IdleCovered
<1>7. NeverFilled
  BY <1>2 DEF NeverFilled, UnreachablePlace, Idle
<1> QED BY <1>1, <1>4, <1>5, <1>6, <1>7 DEF VerdictInv

LEMMA IdleCoveredNext == SpaceInv' /\ Idle' => Cover'
BY IdleCovered, PTL

(* While the graph is built, nothing is answered and nothing runs.          *)
LEMMA BuildVerdictInv ==
  VerdictInv /\ BuildStep /\ UNCHANGED <<terminal, check, search, result, gameVars>>
    => VerdictInv'
<1> SUFFICES ASSUME VerdictInv, BuildStep,
                    UNCHANGED <<terminal, check, search, result, gameVars>>
             PROVE  VerdictInv'
  OBVIOUS
<1>1. SpaceInv'
  BY BuildSpaceInv DEF VerdictInv
<1>2. initial' = initial /\ marking' = marking /\ firing' = firing /\ result' = result
      /\ check' = check
  BY DEF BuildStep, LimitReached, Dequeue, Finished, OldState, NewState, inputVars, gameVars
<1>3. ~built
  BY DEF BuildStep, LimitReached, Dequeue, Finished, OldState, NewState, VerdictInv,
         SpaceInv, EndsEmpty
<1>4. result.pc = "none" /\ Idle
  BY <1>3 DEF VerdictInv, Answered
<1>5. Idle' /\ Answered'
  BY <1>2, <1>4 DEF VerdictInv, Answered, Idle
<1>6. Cover'
  BY <1>1, <1>5, IdleCoveredNext
<1>7. GameOK' /\ NeverFilled'
  BY <1>2 DEF VerdictInv, GameOK, Game!GameTypeOK, MadeOK, NeverFilled, UnreachablePlace
<1> QED BY <1>1, <1>5, <1>6, <1>7 DEF VerdictInv

(* A step that leaves the graph and the workflow alone.                     *)
LEMMA GraphKept ==
  ASSUME VerdictInv, UNCHANGED <<spaceVars, terminal, gameVars>>
  PROVE  /\ SpaceInv' /\ GameOK' /\ NeverFilled' /\ (Idle => Idle')
         /\ built' = built /\ Cover'
         /\ \A c : {i \in 1..Len(states) : Hit(c, states[i])}
                     = {i \in 1..Len(states') : Hit(c, states[i])'}
<1>1. UNCHANGED spaceVars
  OBVIOUS
<1>2. SpaceInv'
  BY <1>1, BuildSpaceInv DEF VerdictInv
<1>3. /\ initial' = initial /\ marking' = marking /\ firing' = firing
      /\ states' = states /\ terminal' = terminal /\ built' = built
  BY DEF spaceVars, inputVars, gameVars
<1>4. GameOK' /\ NeverFilled' /\ (Idle => Idle')
  BY <1>3 DEF VerdictInv, GameOK, Game!GameTypeOK, MadeOK, NeverFilled, UnreachablePlace, Idle
<1>5. Cover'
  <2>1. Undecided' = Undecided /\ WithinCapacity' = WithinCapacity
    BY <1>3 DEF Undecided, WithinCapacity
  <2>2. \A D, p : Owes(D, p)' = Owes(D, p)
    BY <1>3 DEF Owes
  <2>3. \A D, i : CoverAt(D, i) => CoverAt(D, i)'
    BY <1>3, <2>1, <2>2 DEF CoverAt
  <2> QED BY <1>3, <2>1, <2>3 DEF VerdictInv, Cover
<1>6. ASSUME NEW c, NEW i \in 1..Len(states)
      PROVE  Hit(c, states[i])' <=> Hit(c, states[i])
  BY <1>3 DEF Hit, isTerminalState
<1> QED BY <1>2, <1>3, <1>4, <1>5, <1>6

(* A check is answered with the hits of the graph, and the search for the   *)
(* witness changes nothing of it.                                           *)
LEMMA AnswerVerdictInv == VerdictInv /\ VerifierStep => VerdictInv'
<1> SUFFICES ASSUME VerdictInv, VerifierStep PROVE VerdictInv'
  OBVIOUS
<1>1. UNCHANGED <<spaceVars, terminal, gameVars>>
  BY DEF VerifierStep, Check, SearchEdge, SearchPop, OnlyCheck
<1>2. /\ SpaceInv' /\ GameOK' /\ NeverFilled' /\ (Idle => Idle') /\ Cover'
      /\ built' = built
      /\ \A c : {i \in 1..Len(states) : Hit(c, states[i])}
                  = {i \in 1..Len(states') : Hit(c, states[i])'}
  BY <1>1, GraphKept
<1>3. Idle /\ Idle' /\ built /\ built'
  <2>1. result.pc # "ready" /\ built
    BY DEF VerifierStep, Check, SearchEdge, SearchPop, Searching, VerdictInv, Answered
  <2> QED BY <1>2, <2>1 DEF VerdictInv, Answered
<1>4. Hits(check)' = {i \in 1..Len(states) : Hit(check', states[i])}
  BY <1>2 DEF Hits
<1>5. ASSUME NEW c \in Checks, Check(c) PROVE Answered'
  <2> DEFINE satisfied == (Hits(c) = {}) # (c.kind = "reachability")
  <2>1. satisfied /\ c.kind # "reachability" => Hits(c) = {}
    OBVIOUS
  <2>2. /\ result' = [pc |-> result'.pc, satisfied |-> satisfied, witness |-> result'.witness]
        /\ check' = c
    BY <1>5 DEF Check
  <2> HIDE DEF satisfied
  <2>3. result'.satisfied = satisfied
    BY <2>2
  <2>4. result' = [pc |-> result'.pc, satisfied |-> result'.satisfied, witness |-> result'.witness]
    BY <2>2, <2>3
  <2>5. Hits(check)' = Hits(c)
    BY <1>4, <2>2 DEF Hits
  <2> QED BY <1>3, <2>1, <2>2, <2>3, <2>4, <2>5 DEF Answered
<1>6. ASSUME SearchEdge \/ SearchPop PROVE Answered'
  <2>1. /\ check' = check /\ result.pc = "search"
        /\ \/ result' = result
           \/ \E path : result' = [result EXCEPT !.pc = "ready", !.witness = path]
    BY <1>6 DEF SearchEdge, SearchPop, Searching, Found
  <2>2. result = [pc |-> result.pc, satisfied |-> result.satisfied, witness |-> result.witness]
    BY DEF VerdictInv, Answered
  <2>3. /\ result' = [pc |-> result'.pc, satisfied |-> result.satisfied,
                       witness |-> result'.witness]
    BY <2>1, <2>2
  <2>4. result'.satisfied = result.satisfied
    BY <2>3
  <2>5. Hits(check)' = Hits(check)
    BY <1>4, <2>1 DEF Hits
  <2>6. check \in Checks /\ (result.satisfied /\ check.kind # "reachability" => Hits(check) = {})
    BY <2>1 DEF VerdictInv, Answered
  <2> QED BY <1>3, <2>1, <2>3, <2>4, <2>5, <2>6 DEF Answered
<1>7. Answered'
  BY <1>5, <1>6 DEF VerifierStep
<1> QED BY <1>2, <1>7 DEF VerdictInv

(* The workflow runs.                                                       *)
LEMMA RunVerdictInv == VerdictInv /\ RunStep => VerdictInv'
<1> SUFFICES ASSUME VerdictInv, RunStep PROVE VerdictInv'
  OBVIOUS
<1>1. /\ result.pc = "ready" /\ ~err
      /\ UNCHANGED <<spaceVars, terminal, check, search, result>>
  BY DEF RunStep
<1>2. PICK th \in Thread : GameStep(th)
  BY DEF RunStep, GameStep
<1>3. /\ initial' = initial /\ states' = states /\ terminal' = terminal
      /\ built' = built /\ check' = check /\ result' = result
  BY <1>1 DEF spaceVars, inputVars
<1>4. built /\ SpaceInv /\ GameOK /\ Cover /\ NeverFilled /\ Answered
  BY <1>1 DEF VerdictInv, Answered
<1>5. SpaceInv'
  BY <1>1, <1>4, BuildSpaceInv
<1>6. GameOK'
  BY <1>2, <1>4, GameKept
<1>7. NeverFilled'
  BY <1>2, <1>3, <1>4, NeverFilledKept
<1>8. Answered'
  <2>1. ASSUME NEW c, NEW i \in 1..Len(states)
        PROVE  Hit(c, states[i])' <=> Hit(c, states[i])
    BY <1>3 DEF Hit, isTerminalState
  <2>2. Hits(check)' = Hits(check)
    BY <1>3, <2>1 DEF Hits
  <2> QED BY <1>1, <1>3, <1>4, <2>2 DEF Answered
<1>9. Cover'
  <2> SUFFICES ASSUME \A t \in Transition : HasInput(t), NEW E \in SUBSET Undecided'
               PROVE  \E j \in 1..Len(states) : CoverAt(E, j)'
    BY <1>3 DEF Cover
  <2>1. ASSUME NEW t \in Transition, Game!Start(th, t)
        PROVE  \E j \in 1..Len(states) : CoverAt(E, j)'
    BY <1>1, <1>3, <1>4, <1>6, <2>1, StartCovered
  <2>2. ASSUME NEW p \in Place, Game!Put(th, p)
        PROVE  \E j \in 1..Len(states) : CoverAt(E, j)'
    BY <1>3, <1>4, <1>6, <2>2, PutCovered
  <2>3. CASE Game!Commit(th) \/ Game!Fail(th)
    BY <1>3, <1>4, <1>6, <2>3, EndCovered
  <2>4. CASE Game!Abort(th)
    BY <1>3, <1>4, <1>6, <2>4, AbortCovered
  <2> QED BY <1>2, <2>1, <2>2, <2>3, <2>4 DEF GameStep
<1> QED BY <1>5, <1>6, <1>7, <1>8, <1>9 DEF VerdictInv

(* The inductive invariant of the verified workflow.                        *)
THEOREM VerdictInvariant == Spec => []VerdictInv
<1>1. Init => VerdictInv
  BY InitVerdictInv
<1>2. VerdictInv /\ [Next]_vars => VerdictInv'
  <2> SUFFICES ASSUME VerdictInv, [Next]_vars PROVE VerdictInv'
    OBVIOUS
  <2>1. CASE BuildStep /\ UNCHANGED <<terminal, check, search, result, gameVars>>
    BY <2>1, BuildVerdictInv
  <2>2. CASE VerifierStep
    BY <2>2, AnswerVerdictInv
  <2>3. CASE RunStep
    BY <2>3, RunVerdictInv
  <2>4. CASE UNCHANGED vars
    <3>1. /\ UNCHANGED <<spaceVars, terminal, gameVars>>
          /\ result' = result /\ check' = check
      BY <2>4 DEF vars
    <3>2. /\ SpaceInv' /\ GameOK' /\ NeverFilled' /\ (Idle => Idle') /\ Cover'
          /\ built' = built
          /\ \A c : {i \in 1..Len(states) : Hit(c, states[i])}
                      = {i \in 1..Len(states') : Hit(c, states[i])'}
      BY <3>1, GraphKept
    <3>3. Hits(check)' = Hits(check)
      BY <3>1, <3>2 DEF Hits
    <3>4. Answered'
      BY <3>1, <3>2, <3>3 DEF VerdictInv, Answered
    <3> QED BY <3>2, <3>4 DEF VerdictInv
  <2> QED BY <2>1, <2>2, <2>3, <2>4 DEF Next
<1> QED BY <1>1, <1>2, PTL DEF Spec

(* The marking of a running workflow has no more tokens than a state of its *)
(* graph; it is that state when nothing is under way and the places are     *)
(* large enough.                                                            *)
LEMMA RunsInTheGraph ==
  ASSUME VerdictInv, \A t \in Transition : HasInput(t)
  PROVE  \E i \in 1..Len(states) :
           /\ states[i] \in [Place -> Int] /\ marking \in [Place -> Nat]
           /\ \A p \in Place : marking[p] <= states[i][p]
           /\ WithinCapacity /\ AtRest => marking = states[i]
<1>1. {} \in SUBSET Undecided
  OBVIOUS
<1>2. PICK i \in 1..Len(states) : CoverAt({}, i)
  BY <1>1 DEF VerdictInv, Cover
<1>3. states[i] \in [Place -> Int] /\ marking \in [Place -> Nat]
  <2>1. states \in Seq(Marking)
    BY DEF VerdictInv, SpaceInv, SpaceTypeOK
  <2>2. states[i] \in [Place -> Int]
    BY <2>1 DEF Marking
  <2> QED BY <2>2 DEF VerdictInv, GameOK, Game!GameTypeOK
<1>4. ASSUME NEW p \in Place
      PROVE  /\ marking[p] <= states[i][p]
             /\ WithinCapacity /\ AtRest => marking[p] = states[i][p]
  <2>1. PICK f : /\ Sums(f, Owes({}, p))
                 /\ marking[p] + f[Thread] <= states[i][p]
                 /\ WithinCapacity => marking[p] + f[Thread] = states[i][p]
    BY <1>2 DEF CoverAt
  <2>2. f[Thread] \in Nat
    BY <2>1 DEF Sums
  <2>3. AtRest => f[Thread] = 0
    <3>1. AtRest => \A th \in Thread : Owes({}, p)[th] = 0
      BY DEF AtRest, Owes
    <3> QED BY <2>1, <3>1 DEF Sums
  <2> QED BY <1>3, <2>1, <2>2, <2>3
<1>5. WithinCapacity /\ AtRest => marking = states[i]
  BY <1>3, <1>4
<1> QED BY <1>3, <1>4, <1>5

(* What the verifier found of the complete graph (verification/             *)
(* properties.go) holds while the workflow runs, for every net, check and   *)
(* number of concurrent firings: every marking is covered by a state of the *)
(* graph.                                                                   *)
THEOREM VerdictsHold == Spec => []VerdictHoldsInRuns
<1>1. VerdictInv => VerdictHoldsInRuns
  <2> SUFFICES ASSUME VerdictInv, result.pc = "ready", result.satisfied,
                      \A t \in Transition : HasInput(t)
               PROVE  /\ BoundsTokens(check) => ~Hit(check, marking)
                      /\ check.kind = "deadlock" /\ Needs = Pre /\ WithinCapacity /\ AtRest
                           => ~Stuck
    BY DEF VerdictHoldsInRuns
  <2>1. check \in Checks /\ (check.kind # "reachability" => Hits(check) = {})
    BY DEF VerdictInv, Answered
  <2>2. check.kind # "reachability" => \A i \in 1..Len(states) : ~Hit(check, states[i])
    BY <2>1 DEF Hits
  <2>3. PICK i \in 1..Len(states) :
          /\ states[i] \in [Place -> Int] /\ marking \in [Place -> Nat]
          /\ \A p \in Place : marking[p] <= states[i][p]
          /\ WithinCapacity /\ AtRest => marking = states[i]
    BY RunsInTheGraph
  <2>4. ASSUME BoundsTokens(check), Hit(check, marking) PROVE FALSE
    <3>1. Hit(check, states[i])
      BY <2>1, <2>3, <2>4, LargerBreaksToo
    <3>2. check.kind # "reachability"
      BY <2>4 DEF BoundsTokens
    <3> QED BY <2>2, <3>1, <3>2
  <2>5. ASSUME check.kind = "deadlock", Needs = Pre, WithinCapacity, AtRest, Stuck
        PROVE  FALSE
    <3>1. marking = states[i]
      BY <2>3, <2>5
    <3>2. ASSUME NEW t \in Transition PROVE ~isEnabledAt(t, marking)
      <4>1. PICK p \in Place : marking[p] < Pre[t][p]
        BY <2>5 DEF Stuck
      <4>2. marking[p] \in Int /\ Pre[t][p] \in Int
        BY <2>3, StateSpaceAssumption
      <4> QED BY <2>5, <4>1, <4>2 DEF isEnabledAt
    <3>3. enabledNone(marking) /\ ~isTerminalState(marking)
      BY <2>5, <3>2 DEF Stuck, enabledNone, isTerminalState
    <3>4. Hit(check, states[i])
      BY <2>5, <3>1, <3>3 DEF Hit
    <3> QED BY <2>2, <2>5, <3>4
  <2> QED BY <2>4, <2>5
<1> QED BY <1>1, VerdictInvariant, PTL

(* The warnings of DryRun (engine/dryrun.go) are true, for every net: a     *)
(* place that it calls always empty stays empty, and a transition that it   *)
(* calls unreachable never fires.                                           *)
THEOREM WarningsAreTrue == Spec => []WarningsHold
<1>1. VerdictInv => WarningsHold
  <2> SUFFICES ASSUME VerdictInv, NEW th \in Thread, firing[th] # None,
                      UnreachableTransition(firing[th].trans)
               PROVE  FALSE
    BY DEF WarningsHold, VerdictInv, NeverFilled
  <2> DEFINE t == firing[th].trans
  <2>1. t \in Transition
    BY DEF VerdictInv, GameOK, Game!GameTypeOK
  <2>2. PICK p \in Place : Needs[t][p] > 0
    BY DEF UnreachableTransition, HasInput
  <2>3. UnreachablePlace(p)
    BY <2>2 DEF UnreachableTransition
  <2>4. Pre[t][p] = 0
    BY <2>3 DEF VerdictInv, NeverFilled
  <2>5. Needs[t][p] \in Nat /\ Needs[t][p] <= Pre[t][p]
    BY <2>1, StateSpaceAssumption
  <2> QED BY <2>2, <2>4, <2>5
<1> QED BY <1>1, VerdictInvariant, PTL

-----------------------------------------------------------------------------
(* The witness.  A set of natural numbers has a least one.                  *)
LEMMA LeastOne ==
  ASSUME NEW S \in SUBSET Nat, S # {}
  PROVE  \E x \in S : \A y \in S : x <= y
<1>1. PICK x \in S : \A y \in S : ~(<<y, x>> \in OpToRel(<, Nat))
  BY NatLessThanWellFounded, WFMin
<1>2. \A y \in S : ~(y < x)
  <2> SUFFICES ASSUME NEW y \in S, y < x PROVE FALSE
    OBVIOUS
  <2>1. <<y, x>> \in Nat \X Nat
    OBVIOUS
  <2>2. <<y, x>> \in OpToRel(<, Nat)
    BY <2>1 DEF OpToRel
  <2> QED BY <1>1, <2>2
<1> QED BY <1>2

(* A sum with one more term.                                                *)
LEMMA UnitsAppend ==
  ASSUME NEW n \in Nat, NEW y \in [1..n -> Int], NEW z \in [1..(n + 1) -> Int],
         \A k \in 1..n : z[k] = y[k]
  PROVE  /\ Cardinality(Units(y)) \in Nat
         /\ Cardinality(Units(z))
              = Cardinality(Units(y)) + IF z[n + 1] > 0 THEN z[n + 1] ELSE 0
<1> DEFINE x == n + 1
           X == {x} \X (1..z[x])
<1>1. x \in 1..(n + 1) /\ z[x] \in Int
  OBVIOUS
<1>2. IsFiniteSet(X) /\ Cardinality(X) = IF z[x] > 0 THEN z[x] ELSE 0
  <2>1. IsFiniteSet({x}) /\ Cardinality({x}) = 1
    BY FS_Singleton
  <2>2. /\ IsFiniteSet(1..z[x])
        /\ Cardinality(1..z[x]) = IF 1 > z[x] THEN 0 ELSE z[x] - 1 + 1
    <3>1. z[x] \in Int /\ 1 \in Int
      BY <1>1
    <3> QED BY ONLY <3>1, FS_Interval
  <2>3. IsFiniteSet(X) /\ Cardinality(X) = 1 * Cardinality(1..z[x])
    BY <2>1, <2>2, FS_Product
  <2> QED BY <1>1, <2>2, <2>3
<1>3. IsFiniteSet(Units(y))
  <2>1. IsFiniteSet(1..n)
    BY FS_Interval
  <2> QED BY <2>1, UnitsFinite
<1>4. Units(z) = Units(y) \cup X
  <2>1. DOMAIN z = 1..(n + 1) /\ DOMAIN y = 1..n
    OBVIOUS
  <2>2. \A k \in 1..n : k \in 1..(n + 1) /\ {k} \X (1..z[k]) = {k} \X (1..y[k])
    OBVIOUS
  <2>3. ASSUME NEW e \in Units(z) PROVE e \in Units(y) \cup X
    <3>1. PICK k \in 1..(n + 1) : e \in {k} \X (1..z[k])
      BY <2>1 DEF Units
    <3>2. CASE k = x
      BY <3>1, <3>2
    <3>3. CASE k # x
      <4>1. k \in 1..n
        BY <3>3
      <4>2. e \in {k} \X (1..y[k])
        BY <2>2, <3>1, <4>1
      <4> QED BY <2>1, <4>1, <4>2 DEF Units
    <3> QED BY <3>2, <3>3
  <2>4. ASSUME NEW e \in Units(y) PROVE e \in Units(z)
    <3>1. PICK k \in 1..n : e \in {k} \X (1..y[k])
      BY <2>1 DEF Units
    <3>2. e \in {k} \X (1..z[k]) /\ k \in 1..(n + 1)
      BY <2>2, <3>1
    <3> QED BY <2>1, <3>2 DEF Units
  <2>5. ASSUME NEW e \in X PROVE e \in Units(z)
    BY <1>1, <2>1, <2>5 DEF Units
  <2> HIDE DEF X
  <2> QED BY <2>3, <2>4, <2>5
<1>5. Units(y) \cap X = {}
  <2> SUFFICES ASSUME NEW e \in Units(y), e \in X PROVE FALSE
    OBVIOUS
  <2>1. PICK k \in DOMAIN y : e \in {k} \X (1..y[k])
    BY DEF Units
  <2>2. e[1] = k /\ e[1] = x
    BY <2>1
  <2> QED BY <2>1, <2>2
<1> HIDE DEF X
<1>6. Cardinality(Units(y)) \in Nat /\ Cardinality(Units(y) \cap X) = 0
  BY <1>3, <1>5, FS_CardinalityType, FS_EmptySet
<1>7. Cardinality(Units(y) \cup X)
        = Cardinality(Units(y)) + Cardinality(X) - Cardinality(Units(y) \cap X)
  BY <1>2, <1>3, FS_Union
<1>8. Cardinality(X) \in Int
  BY <1>1, <1>2
<1> QED BY <1>2, <1>4, <1>6, <1>7, <1>8

LEMMA SumAppend ==
  ASSUME NEW n \in Nat, NEW y \in [1..n -> Int], NEW z \in [1..(n + 1) -> Int],
         \A k \in 1..n : z[k] = y[k]
  PROVE  SumOver(y) \in Int /\ SumOver(z) = SumOver(y) + z[n + 1]
<1> DEFINE ny == [k \in 1..n |-> -y[k]]
           nz == [k \in 1..(n + 1) |-> -z[k]]
<1>1. /\ ny \in [1..n -> Int] /\ nz \in [1..(n + 1) -> Int]
      /\ \A k \in 1..n : nz[k] = ny[k]
      /\ nz[n + 1] = -z[n + 1] /\ z[n + 1] \in Int
  OBVIOUS
<1>2. /\ SumOver(y) = Cardinality(Units(y)) - Cardinality(Units(ny))
      /\ SumOver(z) = Cardinality(Units(z)) - Cardinality(Units(nz))
  BY DEF SumOver
<1> HIDE DEF ny, nz
<1>3. /\ Cardinality(Units(y)) \in Nat
      /\ Cardinality(Units(z)) = Cardinality(Units(y)) + IF z[n + 1] > 0 THEN z[n + 1] ELSE 0
  BY UnitsAppend
<1>4. /\ Cardinality(Units(ny)) \in Nat
      /\ Cardinality(Units(nz))
           = Cardinality(Units(ny)) + IF nz[n + 1] > 0 THEN nz[n + 1] ELSE 0
  BY <1>1, UnitsAppend
<1> QED BY <1>1, <1>2, <1>3, <1>4

LEMMA SumOfNothing ==
  ASSUME NEW y \in [1..0 -> Int] PROVE SumOver(y) = 0
<1>1. Units(y) = {} /\ Units([p \in DOMAIN y |-> -y[p]]) = {}
  BY DEF Units
<1> QED BY <1>1, FS_EmptySet DEF SumOver

(* A path of the witness search: its transitions are enabled one after the  *)
(* other and lead from the initial marking to state i.                      *)
Leads(path, i) ==
  /\ path \in Seq(Transition) /\ i \in 1..Len(states)
  /\ \A n \in 1..Len(path) : isEnabledAt(path[n], After(path, n - 1))
  /\ After(path, Len(path)) = states[i]

LEMMA EmptyPath ==
  ASSUME SpaceInv
  PROVE  Leads(<<>>, 1)
<1>1. initial \in [Place -> Int] /\ states[1] = initial
  BY StateSpaceAssumption DEF SpaceInv, SpaceTypeOK, Rooted
<1>2. Len(<<>>) = 0 /\ <<>> \in Seq(Transition)
  OBVIOUS
<1>3. 1 \in 1..Len(states)
  <2>1. states \in Seq(Marking) /\ states # <<>>
    BY DEF SpaceInv, SpaceTypeOK
  <2>2. Len(states) \in Nat /\ Len(states) > 0
    BY <2>1
  <2> QED BY <2>2
<1> DEFINE none == <<>>
           y(p) == [k \in 1..0 |-> Post[none[k]][p] - Pre[none[k]][p]]
<1>4. ASSUME NEW p \in Place PROVE SumOver(y(p)) = 0
  <2>1. y(p) \in [1..0 -> Int]
    OBVIOUS
  <2> HIDE DEF y
  <2> QED BY <2>1, SumOfNothing
<1>5. After(none, 0) = initial
  <2>1. After(none, 0) = [p \in Place |-> initial[p] + SumOver(y(p))]
    BY DEF After
  <2> HIDE DEF y
  <2>2. \A p \in Place : initial[p] + SumOver(y(p)) = initial[p]
    <3> SUFFICES ASSUME NEW p \in Place PROVE initial[p] + SumOver(y(p)) = initial[p]
      OBVIOUS
    <3>1. initial[p] \in Int /\ SumOver(y(p)) = 0
      BY <1>1, <1>4
    <3> QED BY ONLY <3>1
  <2> QED BY <1>1, <2>1, <2>2
<1> QED BY <1>1, <1>2, <1>3, <1>5 DEF Leads

(* Following an edge.                                                       *)
LEMMA LongerPath ==
  ASSUME SpaceInv, NEW path, NEW i, Leads(path, i), NEW k \in 1..Len(edges[i])
  PROVE  Leads(Append(path, edges[i][k].via), edges[i][k].to)
<1> DEFINE t == edges[i][k].via
           long == Append(path, t)
           m == Len(path)
           y(p) == [j \in 1..m |-> Post[path[j]][p] - Pre[path[j]][p]]
           z(p) == [j \in 1..(m + 1) |-> Post[long[j]][p] - Pre[long[j]][p]]
<1>1. /\ i \in 1..Len(states) /\ i \in 1..Len(edges)
      /\ edges[i][k].to \in 1..Len(states) /\ t \in Transition
  <2>1. i \in 1..Len(states) /\ i \in 1..Len(edges) /\ edges \in Seq(Seq(Edge))
    BY DEF Leads, SpaceInv, SpaceTypeOK
  <2>2. edges[i] \in Seq(Edge)
    BY <2>1
  <2>3. edges[i][k] \in Edge
    BY <2>2
  <2>4. edges[i][k].to \in 1..Len(states)
    BY <2>1 DEF SpaceInv, SpaceTypeOK
  <2> QED BY <2>1, <2>3, <2>4 DEF Edge
<1>2. isEnabledAt(t, states[i]) /\ states[edges[i][k].to] = fire(t, states[i])
  BY <1>1 DEF SpaceInv, Rooted, IsFiring
<1> HIDE DEF t
<1>3. path \in Seq(Transition) /\ m \in Nat
  BY DEF Leads
<1>4. /\ long \in Seq(Transition) /\ Len(long) = m + 1 /\ long[m + 1] = t
      /\ \A j \in 1..m : long[j] = path[j]
  BY <1>1, <1>3
<1> HIDE DEF long
<1>5. ASSUME NEW n \in 0..m PROVE After(long, n) = After(path, n)
  <2>1. \A j \in 1..n : long[j] = path[j]
    BY <1>3, <1>4
  <2>2. \A p : [j \in 1..n |-> Post[long[j]][p] - Pre[long[j]][p]]
                 = [j \in 1..n |-> Post[path[j]][p] - Pre[path[j]][p]]
    BY <2>1
  <2> QED BY <2>2 DEF After
<1>6. states[i] \in [Place -> Int] /\ After(path, m) = states[i]
  <2>1. states \in Seq(Marking)
    BY DEF SpaceInv, SpaceTypeOK
  <2>2. states[i] \in [Place -> Int]
    BY <1>1, <2>1 DEF Marking
  <2> QED BY <2>2 DEF Leads
<1>7. ASSUME NEW p \in Place
      PROVE  initial[p] + SumOver(z(p)) = states[i][p] - Pre[t][p] + Post[t][p]
  <2>1. \A u \in Transition : Pre[u][p] \in Nat /\ Post[u][p] \in Nat
    BY StateSpaceAssumption
  <2>2. y(p) \in [1..m -> Int]
    BY <1>3, <2>1
  <2>3. z(p) \in [1..(m + 1) -> Int] /\ z(p)[m + 1] = Post[t][p] - Pre[t][p]
    BY <1>3, <1>4, <2>1
  <2>4. \A j \in 1..m : z(p)[j] = y(p)[j]
    BY <1>3, <1>4
  <2>5. states[i][p] = initial[p] + SumOver(y(p))
    BY <1>6 DEF After
  <2>6. initial[p] \in Int
    BY StateSpaceAssumption DEF SpaceInv, SpaceTypeOK
  <2> HIDE DEF y, z, m
  <2>7. SumOver(y(p)) \in Int /\ SumOver(z(p)) = SumOver(y(p)) + z(p)[m + 1]
    BY <1>3, <2>2, <2>3, <2>4, SumAppend
  <2> DEFINE a == Pre[t][p]  b == Post[t][p]  s == SumOver(y(p))  r == initial[p]
  <2>8. a \in Nat /\ b \in Nat /\ s \in Int /\ r \in Int
    BY <1>1, <2>1, <2>6, <2>7
  <2>9. initial[p] + SumOver(z(p)) = r + (s + (b - a)) /\ states[i][p] = r + s
    <3>1. z(p)[m + 1] = b - a
      BY <2>3
    <3>2. SumOver(z(p)) = s + z(p)[m + 1]
      BY <2>7
    <3>3. SumOver(z(p)) = s + (b - a)
      BY ONLY <3>1, <3>2
    <3>4. states[i][p] = r + s
      BY <2>5
    <3> HIDE DEF a, b, s
    <3> QED BY ONLY <3>3, <3>4
  <2> HIDE DEF a, b, s, r
  <2>10. r + (s + (b - a)) = (r + s) - a + b
    BY ONLY <2>8
  <2> QED BY ONLY <2>9, <2>10 DEF a, b
<1>8. After(long, m + 1) = fire(t, states[i])
  <2>1. After(long, m + 1) = [p \in Place |-> initial[p] + SumOver(z(p))]
    BY DEF After
  <2> HIDE DEF z, m
  <2> QED BY <1>7, <2>1 DEF fire
<1>9. ASSUME NEW n \in 1..(m + 1) PROVE isEnabledAt(long[n], After(long, n - 1))
  <2>1. CASE n = m + 1
    <3>1. m \in 0..m /\ n - 1 = m
      BY <1>3, <2>1
    <3>2. After(long, n - 1) = states[i]
      BY <1>5, <1>6, <3>1
    <3> QED BY <1>2, <1>4, <2>1, <3>2
  <2>2. CASE n # m + 1
    <3>1. n \in 1..m /\ n - 1 \in 0..m
      BY <1>3, <2>2
    <3>2. After(long, n - 1) = After(path, n - 1) /\ long[n] = path[n]
      BY <1>4, <1>5, <3>1
    <3>3. isEnabledAt(path[n], After(path, n - 1))
      BY <3>1 DEF Leads
    <3> QED BY <3>2, <3>3
  <2> QED BY <2>1, <2>2
<1>10. Leads(long, edges[i][k].to)
  BY <1>1, <1>2, <1>4, <1>8, <1>9 DEF Leads
<1> QED BY <1>10 DEF long, t

(* The search keeps a path to every state in its queue, and a visited state *)
(* that is not in the queue has no edges but to visited states.             *)

Waiting(i) == \E q \in 1..Len(search.queue) : search.queue[q].id = i

Expanded(i) == \A j \in 1..Len(edges[i]) : edges[i][j].to \in search.visited

SearchOK ==
  /\ search = [queue |-> search.queue, k |-> search.k,
               visited |-> search.visited, target |-> search.target]
  /\ search.queue \in Seq([id : Nat, path : Seq(Transition)]) /\ search.queue # <<>>
  /\ search.k \in Nat \ {0}
  /\ search.visited \subseteq 1..Len(states) /\ 1 \in search.visited
  /\ search.target \in Hits(check) /\ search.target \notin search.visited
  /\ \A q \in 1..Len(search.queue) : \E i \in search.visited, path \in Seq(Transition) :
       search.queue[q] = [id |-> i, path |-> path] /\ Leads(path, i)
  /\ \A j \in 1..Len(edges[Head(search.queue).id]) :
       j < search.k => edges[Head(search.queue).id][j].to \in search.visited
  /\ \A i \in search.visited : Waiting(i) \/ Expanded(i)

WitnessInv ==
  /\ result.pc = "none" => search = NoSearch
  /\ result.pc = "search" => SearchOK
  /\ result.pc = "ready" /\ Hits(check) # {} =>
       \E i \in Hits(check) : \E path \in Seq(Transition) :
         result.witness = path /\ Leads(path, i)

(* A set of states that edges do not lead out of has all of them.           *)
LEMMA ClosedSetHasAll ==
  ASSUME SpaceInv, NEW V \in SUBSET (1..Len(states)), 1 \in V,
         \A i \in V : \A j \in 1..Len(edges[i]) : edges[i][j].to \in V
  PROVE  V = 1..Len(states)
<1> SUFFICES ASSUME (1..Len(states)) \ V # {} PROVE FALSE
  OBVIOUS
<1>1. Len(states) \in Nat
  BY DEF SpaceInv, SpaceTypeOK
<1>2. (1..Len(states)) \ V \in SUBSET Nat
  BY <1>1
<1>3. PICK x \in (1..Len(states)) \ V : \A y \in (1..Len(states)) \ V : x <= y
  BY <1>2, LeastOne
<1>4. x \in 2..Len(states)
  BY <1>1, <1>3
<1>5. PICK i \in 1..(x - 1) : \E k \in 1..Len(edges[i]) : edges[i][k].to = x
  BY <1>4 DEF SpaceInv, Rooted
<1>6. i \in V
  <2>1. i \in 1..Len(states) /\ ~(x <= i)
    BY <1>1, <1>4, <1>5
  <2> QED BY <1>3, <2>1
<1> QED BY <1>3, <1>5, <1>6

LEMMA SmallestHit ==
  ASSUME NEW S \in SUBSET Nat, S # {} PROVE Min(S) \in S
BY LeastOne DEF Min

LEMMA HitsKept ==
  ASSUME UNCHANGED <<states, terminal>>
  PROVE  \A c : {i \in 1..Len(states) : Hit(c, states[i])}
                  = {i \in 1..Len(states') : Hit(c, states[i])'}
<1>1. ASSUME NEW c, NEW i \in 1..Len(states)
      PROVE  Hit(c, states[i])' <=> Hit(c, states[i])
  BY DEF Hit, isTerminalState
<1> QED BY <1>1

LEMMA LeadsKept ==
  ASSUME UNCHANGED <<initial, states>>, NEW path, NEW i
  PROVE  Leads(path, i)' <=> Leads(path, i)
BY DEF Leads, After

(* Asking starts the search, unless the witness is the initial marking.     *)
LEMMA CheckWitnessInv ==
  ASSUME VerdictInv, WitnessInv, NEW c \in Checks, Check(c)
  PROVE  WitnessInv'
<1>1. /\ initial' = initial /\ states' = states /\ edges' = edges /\ terminal' = terminal
      /\ check' = c /\ result.pc = "none"
  BY DEF Check, OnlyCheck, spaceVars, inputVars
<1>2. SpaceInv /\ search = NoSearch
  BY <1>1 DEF VerdictInv, WitnessInv
<1>3. Hits(check)' = Hits(c) /\ Hits(c) \in SUBSET (1..Len(states)) /\ Len(states) \in Nat
  <2>1. UNCHANGED <<states, terminal>>
    BY <1>1
  <2>2. \A d : {i \in 1..Len(states) : Hit(d, states[i])}
                = {i \in 1..Len(states') : Hit(d, states[i])'}
    BY <2>1, HitsKept
  <2>3. Hits(check)' = Hits(c)
    BY <1>1, <2>2 DEF Hits
  <2> QED BY <1>2, <2>3 DEF Hits, SpaceInv, SpaceTypeOK
<1>4. Leads(<<>>, 1)
  BY <1>2, EmptyPath
<1>5. CASE Hits(c) \subseteq {1} \/ 1 \in Hits(c)
  <2>1. result'.pc = "ready" /\ result'.witness = <<>>
    BY <1>5 DEF Check
  <2>2. Hits(c) # {} => 1 \in Hits(c)
    BY <1>5
  <2>3. Leads(<<>>, 1)'
    BY <1>1, <1>4, LeadsKept
  <2>4. \E path \in Seq(Transition) : result'.witness = path /\ Leads(path, 1)'
    <3>1. <<>> \in Seq(Transition)
      OBVIOUS
    <3> QED BY <2>1, <2>3, <3>1
  <2>5. Hits(check)' # {} => \E i \in Hits(check)' : \E path \in Seq(Transition) :
          result'.witness = path /\ Leads(path, i)'
    BY <1>3, <2>2, <2>4
  <2> QED BY <2>1, <2>5 DEF WitnessInv
<1>6. CASE ~(Hits(c) \subseteq {1}) /\ 1 \notin Hits(c)
  <2> DEFINE node == [id |-> 1, path |-> <<>>]
             min == Min(Hits(c))
  <2>1. /\ result'.pc = "search"
        /\ search' = [queue |-> <<node>>, k |-> 1, visited |-> {1}, target |-> min]
    <3>1. search' = [search EXCEPT !.queue = <<node>>, !.target = min]
          /\ result'.pc = "search"
      BY <1>6 DEF Check
    <3> QED BY <1>2, <3>1 DEF NoSearch
  <2>2. min \in Hits(c) /\ min \notin {1}
    <3>1. Hits(c) \in SUBSET Nat /\ Hits(c) # {}
      BY <1>3, <1>6
    <3> QED BY <1>6, <3>1, SmallestHit
  <2>3. node.id = 1 /\ node.path = <<>> /\ node \in [id : Nat, path : Seq(Transition)]
    OBVIOUS
  <2> HIDE DEF node, min
  <2>4. /\ search'.queue = <<node>> /\ search'.k = 1 /\ search'.visited = {1}
        /\ search'.target = min
    BY <2>1
  <2>5. /\ search'.queue \in Seq([id : Nat, path : Seq(Transition)]) /\ search'.queue # <<>>
        /\ Len(search'.queue) = 1 /\ search'.queue[1] = node
    BY <2>3, <2>4
  <2>6. Leads(<<>>, 1)'
    BY <1>1, <1>4, LeadsKept
  <2>7. 1 \in 1..Len(states)
    BY <1>4 DEF Leads
  <2>8. \A i \in search'.visited : Waiting(i)'
    <3>1. 1 \in 1..Len(search'.queue) /\ search'.queue[1].id = 1
      BY <2>3, <2>5
    <3> QED BY <2>4, <3>1 DEF Waiting
  <2>9. \A q \in 1..Len(search'.queue) :
          \E i \in search'.visited, path \in Seq(Transition) :
            search'.queue[q] = [id |-> i, path |-> path] /\ Leads(path, i)'
    <3>1. <<>> \in Seq(Transition)
      OBVIOUS
    <3>2. node = [id |-> 1, path |-> <<>>] /\ 1 \in search'.visited
      BY <2>4 DEF node
    <3>3. \A q \in 1..Len(search'.queue) : search'.queue[q] = node
      BY <2>5
    <3> QED BY <2>6, <3>1, <3>2, <3>3
  <2>10. search' = [queue |-> search'.queue, k |-> search'.k,
                    visited |-> search'.visited, target |-> search'.target]
    BY <2>1, <2>4
  <2>11. \A j \in 1..Len(edges'[Head(search'.queue).id]) :
           j < search'.k => edges'[Head(search'.queue).id][j].to \in search'.visited
    BY <2>4
  <2>12. search'.k \in Nat \ {0} /\ 1 \in search'.visited
         /\ search'.visited \subseteq 1..Len(states')
    BY <1>1, <2>4, <2>7
  <2>13. search'.target \in Hits(check)' /\ search'.target \notin search'.visited
    BY <1>3, <2>2, <2>4
  <2>14. \A i \in search'.visited : Waiting(i)' \/ Expanded(i)'
    BY <2>8
  <2>15. SearchOK'
    BY <2>5, <2>9, <2>10, <2>11, <2>12, <2>13, <2>14 DEF SearchOK
  <2> QED BY <2>1, <2>15 DEF WitnessInv
<1> QED BY <1>5, <1>6

(* Following an edge to a new state: it is the target, or it is queued.     *)
LEMMA EdgeWitnessInv ==
  ASSUME VerdictInv, WitnessInv, SearchEdge
  PROVE  WitnessInv'
<1> DEFINE node == Head(search.queue)
           edge == edges[node.id][search.k]
<1>1. /\ initial' = initial /\ states' = states /\ edges' = edges /\ terminal' = terminal
      /\ check' = check /\ result.pc = "search"
  BY DEF SearchEdge, Searching, OnlyCheck, spaceVars, inputVars
<1>2. SpaceInv /\ SearchOK
  BY <1>1 DEF VerdictInv, WitnessInv
<1>3. Hits(check)' = Hits(check) /\ Hits(check) \in SUBSET (1..Len(states))
  <2>1. UNCHANGED <<states, terminal>>
    BY <1>1
  <2>2. \A d : {i \in 1..Len(states) : Hit(d, states[i])}
                = {i \in 1..Len(states') : Hit(d, states[i])'}
    BY <2>1, HitsKept
  <2> QED BY <1>1, <2>2 DEF Hits
<1>4. /\ search.queue \in Seq([id : Nat, path : Seq(Transition)]) /\ Len(search.queue) >= 1
      /\ node = search.queue[1] /\ 1 \in 1..Len(search.queue)
  BY <1>2 DEF SearchOK
<1>5. PICK i \in search.visited, path \in Seq(Transition) :
        search.queue[1] = [id |-> i, path |-> path] /\ Leads(path, i)
  BY <1>2, <1>4 DEF SearchOK
<1>6. node.id = i /\ node.path = path
  BY <1>4, <1>5
<1>7. search.k \in 1..Len(edges[i]) /\ edge = edges[i][search.k]
  <2>1. search.k <= Len(edges[node.id]) /\ search.k \in Nat \ {0}
    BY <1>2 DEF SearchEdge, SearchOK
  <2>2. i \in 1..Len(edges)
    BY <1>2, <1>5 DEF Leads, SpaceInv, SpaceTypeOK
  <2>3. Len(edges[i]) \in Nat
    BY <1>2, <2>2 DEF SpaceInv, SpaceTypeOK
  <2> QED BY <1>6, <2>1, <2>3
<1>8. Leads(Append(path, edge.via), edge.to)
  BY <1>2, <1>5, <1>7, LongerPath
<1>9. edge.to \in 1..Len(states) /\ Append(path, edge.via) \in Seq(Transition)
  BY ONLY <1>8 DEF Leads
<1>10. search = [queue |-> search.queue, k |-> search.k,
                 visited |-> search.visited, target |-> search.target]
  BY <1>2 DEF SearchOK
<1>11. PICK longer : longer = Append(path, edge.via)
  OBVIOUS
<1>12. PICK to : to = edge.to
  OBVIOUS
<1>13. /\ IF to \in search.visited
          THEN search' = [search EXCEPT !.k = @ + 1] /\ result' = result
          ELSE IF to = search.target
          THEN result' = [result EXCEPT !.pc = "ready", !.witness = longer]
          ELSE /\ search' = [search EXCEPT !.k = @ + 1, !.visited = @ \cup {to},
                              !.queue = Append(@, [id |-> to, path |-> longer])]
               /\ result' = result
  BY <1>6, <1>11, <1>12 DEF SearchEdge, Found
<1>14. Leads(longer, to) /\ to \in 1..Len(states) /\ longer \in Seq(Transition)
       /\ edges[i][search.k].to = to
  BY <1>7, <1>8, <1>9, <1>11, <1>12
<1> HIDE DEF node, edge
<1>15. \A p, j : Leads(p, j) => Leads(p, j)'
  BY <1>1, LeadsKept
<1>16. CASE to \in search.visited
  <2>1. /\ search'.queue = search.queue /\ search'.k = search.k + 1
        /\ search'.visited = search.visited /\ search'.target = search.target
        /\ search' = [queue |-> search'.queue, k |-> search'.k,
                       visited |-> search'.visited, target |-> search'.target]
        /\ result'.pc = "search"
    BY <1>1, <1>10, <1>13, <1>16
  <2>2. \A j \in 1..Len(edges[node.id]) :
          j < search'.k => edges[node.id][j].to \in search.visited
    <3>1. \A j \in 1..Len(edges[node.id]) :
            j < search.k => edges[node.id][j].to \in search.visited
      BY <1>2 DEF SearchOK, node
    <3>2. \A j \in 1..Len(edges[node.id]) : j < search'.k => j < search.k \/ j = search.k
      BY <1>2, <2>1 DEF SearchOK
    <3> QED BY <1>6, <1>14, <1>16, <3>1, <3>2
  <2>3. search'.k \in Nat \ {0}
    BY <1>2, <2>1 DEF SearchOK
  <2>4. \A q \in 1..Len(search'.queue) :
          \E j \in search'.visited, p \in Seq(Transition) :
            search'.queue[q] = [id |-> j, path |-> p] /\ Leads(p, j)'
    BY <1>2, <1>15, <2>1 DEF SearchOK
  <2>5. \A j \in search'.visited : Waiting(j)' \/ Expanded(j)'
    <3>1. \A j : (Waiting(j) => Waiting(j)') /\ (Expanded(j) => Expanded(j)')
      BY ONLY <1>1, <2>1 DEF Waiting, Expanded
    <3> QED BY <1>2, <2>1, <3>1 DEF SearchOK
  <2>6. SearchOK'
    BY <1>1, <1>2, <1>3, <2>1, <2>2, <2>3, <2>4, <2>5 DEF SearchOK, node
  <2> QED BY <2>1, <2>6 DEF WitnessInv
<1>17. CASE to \notin search.visited /\ to = search.target
  <2>1. result = [pc |-> result.pc, satisfied |-> result.satisfied, witness |-> result.witness]
    BY DEF VerdictInv, Answered
  <2>2. result'.pc = "ready" /\ result'.witness = longer
    BY <1>13, <1>17, <2>1
  <2>3. to \in Hits(check)' /\ Leads(longer, to)'
    BY <1>2, <1>3, <1>14, <1>15, <1>17 DEF SearchOK
  <2> QED BY <1>14, <2>2, <2>3 DEF WitnessInv
<1>18. CASE to \notin search.visited /\ to # search.target
  <2> DEFINE last == [id |-> to, path |-> longer]
  <2>1. /\ search'.queue = Append(search.queue, last) /\ search'.k = search.k + 1
        /\ search'.visited = search.visited \cup {to} /\ search'.target = search.target
        /\ search' = [queue |-> search'.queue, k |-> search'.k,
                       visited |-> search'.visited, target |-> search'.target]
        /\ result'.pc = "search"
    BY <1>1, <1>10, <1>13, <1>18
  <2>2. last \in [id : Nat, path : Seq(Transition)] /\ last.id = to
    BY <1>14
  <2> HIDE DEF last
  <2>3. /\ search'.queue \in Seq([id : Nat, path : Seq(Transition)])
        /\ Len(search'.queue) = Len(search.queue) + 1
        /\ search'.queue[Len(search.queue) + 1] = last
        /\ \A q \in 1..Len(search.queue) : search'.queue[q] = search.queue[q]
    BY <1>4, <2>1, <2>2, AppendShape
  <2>4. search'.queue # <<>> /\ Head(search'.queue) = node
    BY <1>4, <2>3
  <2>5. \A j \in 1..Len(edges[node.id]) :
          j < search'.k => edges[node.id][j].to \in search'.visited
    <3>1. \A j \in 1..Len(edges[node.id]) :
            j < search.k => edges[node.id][j].to \in search.visited
      BY <1>2 DEF SearchOK, node
    <3>2. \A j \in 1..Len(edges[node.id]) : j < search'.k => j < search.k \/ j = search.k
      BY <1>2, <2>1 DEF SearchOK
    <3> QED BY <1>6, <1>14, <2>1, <3>1, <3>2
  <2>6. search'.k \in Nat \ {0} /\ 1 \in search'.visited
        /\ search'.visited \subseteq 1..Len(states)
        /\ search'.target \in Hits(check) /\ search'.target \notin search'.visited
    BY <1>2, <1>14, <1>18, <2>1 DEF SearchOK
  <2>7. ASSUME NEW q \in 1..Len(search'.queue)
        PROVE  \E j \in search'.visited, p \in Seq(Transition) :
                 search'.queue[q] = [id |-> j, path |-> p] /\ Leads(p, j)'
    <3>1. CASE q = Len(search.queue) + 1
      <4>1. search'.queue[q] = [id |-> to, path |-> longer] /\ Leads(longer, to)'
        BY <1>14, <1>15, <2>3, <3>1 DEF last
      <4> QED BY <1>14, <2>1, <4>1
    <3>2. CASE q # Len(search.queue) + 1
      <4>1. q \in 1..Len(search.queue)
        BY <1>4, <2>3, <3>2
      <4>2. PICK j \in search.visited, p \in Seq(Transition) :
              search.queue[q] = [id |-> j, path |-> p] /\ Leads(p, j)
        BY <1>2, <4>1 DEF SearchOK
      <4> QED BY <1>15, <2>1, <2>3, <4>1, <4>2
    <3> QED BY <3>1, <3>2
  <2>8. ASSUME NEW j \in search'.visited PROVE Waiting(j)' \/ Expanded(j)'
    <3>1. CASE j = to
      <4>1. Len(search.queue) + 1 \in 1..Len(search'.queue)
        BY <1>4, <2>3
      <4> QED BY <2>2, <2>3, <3>1, <4>1 DEF Waiting
    <3>2. CASE j \in search.visited /\ Waiting(j)
      <4>1. PICK q \in 1..Len(search.queue) : search.queue[q].id = j
        BY <3>2 DEF Waiting
      <4>2. search'.queue[q] = search.queue[q]
        BY <2>3, <4>1
      <4>3. q \in 1..Len(search'.queue)
        BY <1>4, <2>3, <4>1
      <4> QED BY <4>1, <4>2, <4>3 DEF Waiting
    <3>3. CASE j \in search.visited /\ Expanded(j)
      BY <1>1, <2>1, <3>3 DEF Expanded
    <3> QED BY <1>2, <2>1, <3>1, <3>2, <3>3 DEF SearchOK
  <2>9. SearchOK'
    BY <1>1, <1>3, <2>1, <2>3, <2>4, <2>5, <2>6, <2>7, <2>8 DEF SearchOK
  <2> QED BY <2>1, <2>9 DEF WitnessInv
<1> QED BY <1>16, <1>17, <1>18

(* Leaving a state behind: the queue is not empty after it, for if it was,  *)
(* the visited states would be all states, and the target is not visited.   *)
LEMMA PopWitnessInv ==
  ASSUME VerdictInv, WitnessInv, SearchPop
  PROVE  WitnessInv'
<1> DEFINE node == Head(search.queue)
<1>1. /\ initial' = initial /\ states' = states /\ edges' = edges /\ terminal' = terminal
      /\ check' = check /\ result' = result /\ result.pc = "search"
      /\ search' = [search EXCEPT !.k = 1, !.queue = Tail(@)]
      /\ search.k > Len(edges[node.id])
  BY DEF SearchPop, Searching, OnlyCheck, spaceVars, inputVars
<1>2. SpaceInv /\ SearchOK
  BY <1>1 DEF VerdictInv, WitnessInv
<1>3. Hits(check)' = Hits(check) /\ Hits(check) \in SUBSET (1..Len(states))
  <2>1. UNCHANGED <<states, terminal>>
    BY <1>1
  <2>2. \A d : {i \in 1..Len(states) : Hit(d, states[i])}
                = {i \in 1..Len(states') : Hit(d, states[i])'}
    BY <2>1, HitsKept
  <2> QED BY <1>1, <2>2 DEF Hits
<1>4. /\ search = [queue |-> search.queue, k |-> search.k,
                    visited |-> search.visited, target |-> search.target]
      /\ search.queue \in Seq([id : Nat, path : Seq(Transition)]) /\ search.queue # <<>>
  BY <1>2 DEF SearchOK
<1>5. /\ search'.queue = Tail(search.queue) /\ search'.k = 1
      /\ search'.visited = search.visited /\ search'.target = search.target
      /\ search' = [queue |-> search'.queue, k |-> search'.k,
                     visited |-> search'.visited, target |-> search'.target]
  BY <1>1, <1>4
<1>6. /\ node = search.queue[1] /\ Len(search.queue) \in Nat /\ Len(search.queue) >= 1
      /\ search'.queue \in Seq([id : Nat, path : Seq(Transition)])
      /\ Len(search'.queue) = Len(search.queue) - 1
      /\ \A q \in 1..Len(search'.queue) : search'.queue[q] = search.queue[q + 1]
  BY <1>4, <1>5
<1>7. Expanded(node.id)
  <2>1. \A j \in 1..Len(edges[node.id]) :
          j < search.k => edges[node.id][j].to \in search.visited
    BY <1>2 DEF SearchOK
  <2>2. node.id \in 1..Len(states)
    <3>1. \E i \in search.visited, path \in Seq(Transition) :
            search.queue[1] = [id |-> i, path |-> path]
      <4>1. 1 \in 1..Len(search.queue)
        BY <1>6
      <4> QED BY <1>2, <4>1 DEF SearchOK
    <3> QED BY <1>2, <1>6, <3>1 DEF SearchOK
  <2>3. Len(edges[node.id]) \in Nat
    BY <1>2, <2>2 DEF SpaceInv, SpaceTypeOK
  <2>4. search.k \in Nat
    BY <1>2 DEF SearchOK
  <2> HIDE DEF node
  <2>5. \A j \in 1..Len(edges[node.id]) : j < search.k
    BY <1>1, <2>3, <2>4
  <2> QED BY <2>1, <2>5 DEF Expanded
<1> HIDE DEF node
<1>8. \A j \in search.visited : Waiting(j)' \/ Expanded(j)
  <2> SUFFICES ASSUME NEW j \in search.visited, Waiting(j), j # node.id PROVE Waiting(j)'
    BY <1>2, <1>7 DEF SearchOK
  <2>1. PICK q \in 1..Len(search.queue) : search.queue[q].id = j
    BY DEF Waiting
  <2>2. q # 1
    BY <1>6, <2>1
  <2>3. q - 1 \in 1..Len(search'.queue) /\ (q - 1) + 1 = q
    BY <1>6, <2>1, <2>2
  <2>4. search'.queue[q - 1].id = j
    BY <1>6, <2>1, <2>3
  <2> QED BY <2>3, <2>4 DEF Waiting
<1>9. search'.queue # <<>>
  <2> SUFFICES ASSUME search'.queue = <<>> PROVE FALSE
    OBVIOUS
  <2>1. \A j : ~Waiting(j)'
    BY DEF Waiting
  <2>2. \A j \in search.visited : \A k \in 1..Len(edges[j]) : edges[j][k].to \in search.visited
    BY <1>8, <2>1 DEF Expanded
  <2>3. search.visited \in SUBSET (1..Len(states)) /\ 1 \in search.visited
    BY <1>2 DEF SearchOK
  <2>4. search.visited = 1..Len(states)
    BY <1>2, <2>2, <2>3, ClosedSetHasAll
  <2> QED BY <1>2, <1>3, <2>4 DEF SearchOK
<1>10. \A p, j : Leads(p, j) => Leads(p, j)'
  BY <1>1, LeadsKept
<1>11. ASSUME NEW q \in 1..Len(search'.queue)
       PROVE  \E j \in search'.visited, p \in Seq(Transition) :
                search'.queue[q] = [id |-> j, path |-> p] /\ Leads(p, j)'
  <2>1. q + 1 \in 1..Len(search.queue) /\ search'.queue[q] = search.queue[q + 1]
    <3>1. search'.queue[q] = search.queue[q + 1]
      BY <1>6
    <3>2. q \in Nat /\ q >= 1 /\ q <= Len(search.queue) - 1
      BY <1>6
    <3>3. q + 1 \in 1..Len(search.queue)
      BY ONLY <1>6, <3>2
    <3> QED BY <3>1, <3>3
  <2>2. PICK j \in search.visited, p \in Seq(Transition) :
          search.queue[q + 1] = [id |-> j, path |-> p] /\ Leads(p, j)
    BY <1>2, <2>1 DEF SearchOK
  <2> QED BY <1>5, <1>10, <2>1, <2>2
<1>12. \A j \in search'.visited : Waiting(j)' \/ Expanded(j)'
  BY <1>1, <1>5, <1>8 DEF Expanded
<1>13. \A j \in 1..Len(edges[Head(search'.queue).id]) : ~(j < search'.k)
  BY <1>5
<1>14. /\ search'.k \in Nat \ {0}
       /\ search'.visited \subseteq 1..Len(states) /\ 1 \in search'.visited
       /\ search'.target \in Hits(check) /\ search'.target \notin search'.visited
  BY <1>2, <1>5 DEF SearchOK
<1>15. SearchOK'
  BY <1>1, <1>3, <1>5, <1>6, <1>9, <1>11, <1>12, <1>13, <1>14 DEF SearchOK
<1> QED BY <1>1, <1>15 DEF WitnessInv

(* The witness of a verdict (verification/verifier.go, findPath) is a run   *)
(* of the net that leads to what the check looked for, and the search for   *)
(* it ends with one, for every net, check and limit on the graph.           *)
THEOREM WitnessIsARun == Spec => []WitnessReplays
<1>1. Init => WitnessInv
  BY DEF Init, NoSearch, NoResult, WitnessInv
<1>2. VerdictInv /\ WitnessInv /\ [Next]_vars => WitnessInv'
  <2> SUFFICES ASSUME VerdictInv, WitnessInv, [Next]_vars PROVE WitnessInv'
    OBVIOUS
  <2>1. CASE BuildStep /\ UNCHANGED <<terminal, check, search, result, gameVars>>
    <3>1. ~built
      BY <2>1 DEF BuildStep, LimitReached, Dequeue, Finished, OldState, NewState, VerdictInv,
                  SpaceInv, EndsEmpty
    <3>2. result.pc = "none" /\ result' = result /\ search' = search
      BY <2>1, <3>1 DEF VerdictInv, Answered
    <3> QED BY <3>2 DEF WitnessInv
  <2>2. ASSUME NEW c \in Checks, Check(c) PROVE WitnessInv'
    BY <2>2, CheckWitnessInv
  <2>3. CASE SearchEdge
    BY <2>3, EdgeWitnessInv
  <2>4. CASE SearchPop
    BY <2>4, PopWitnessInv
  <2>5. CASE RunStep \/ UNCHANGED vars
    <3>1. /\ initial' = initial /\ states' = states /\ edges' = edges /\ terminal' = terminal
          /\ check' = check /\ result' = result /\ search' = search
      BY <2>5 DEF RunStep, vars, spaceVars, inputVars
    <3>2. \A d : {i \in 1..Len(states) : Hit(d, states[i])}
                   = {i \in 1..Len(states') : Hit(d, states[i])'}
      BY <3>1, HitsKept
    <3>3. Hits(check)' = Hits(check)
      BY <3>1, <3>2 DEF Hits
    <3>4. \A p, i : Leads(p, i) => Leads(p, i)'
      BY <3>1, LeadsKept
    <3>5. SearchOK => SearchOK'
      <4>1. \A i : (Waiting(i) \/ Expanded(i)) => (Waiting(i)' \/ Expanded(i)')
        BY <3>1 DEF Waiting, Expanded
      <4> QED BY <3>1, <3>3, <3>4, <4>1 DEF SearchOK
    <3> QED BY <3>1, <3>3, <3>4, <3>5 DEF WitnessInv
  <2> QED BY <2>1, <2>2, <2>3, <2>4, <2>5 DEF Next, VerifierStep
<1>3. WitnessInv => WitnessReplays
  <2> SUFFICES ASSUME WitnessInv
               PROVE  /\ result.pc = "search" => search.queue # <<>>
                      /\ result.pc = "ready" /\ Hits(check) # {} =>
                           Replays(result.witness, check)
    BY DEF WitnessReplays
  <2>1. result.pc = "search" => search.queue # <<>>
    BY DEF WitnessInv, SearchOK
  <2>2. ASSUME result.pc = "ready", Hits(check) # {} PROVE Replays(result.witness, check)
    <3>1. PICK i \in Hits(check), path \in Seq(Transition) :
            result.witness = path /\ Leads(path, i)
      BY <2>2 DEF WitnessInv
    <3>2. Hit(check, After(path, Len(path)))
      BY <3>1 DEF Hits, Leads
    <3> QED BY <3>1, <3>2 DEF Replays, Leads
  <2> QED BY <2>1, <2>2
<1> QED BY <1>1, <1>2, <1>3, VerdictInvariant, PTL DEF Spec

(* The graph stays exact while it is searched and while the workflow runs.  *)
THEOREM GraphStaysExact == Spec => []ExactWhenComplete
<1>1. VerdictInv => ExactWhenComplete
  BY ExploredIsClosed DEF VerdictInv, SpaceInv, ExactWhenComplete
<1> QED BY <1>1, VerdictInvariant, PTL

-----------------------------------------------------------------------------
(* Module NetBuilding.  The inductive invariant says what the lists of IDs  *)
(* and of pointers have to do with each other and with the arcs; near and   *)
(* far are the IDs of the node that has the list and of the node at the     *)
(* other end.  A list has nothing twice, only arcs that belong there, and,  *)
(* if nothing was late, all of them; the pointers are its resolved arcs.    *)
SourceIds == [a \in DOMAIN arcs |-> arcs[a].sourceId]
TargetIds == [a \in DOMAIN arcs |-> arcs[a].targetId]

ResolvedArcs == {a \in DOMAIN arcs : arcs[a].source # NoNode}

(* m is a node of the other kind, with the ID.                              *)
Facing(ns, n, m, id) == m \in ns /\ m[1] # n[1] /\ m[2] = id

Listed(ns, whole, n, seq, near, far) ==
  /\ IsInjective(seq)
  /\ \A a \in Range(seq) :
       /\ n \in ns /\ near[a] = n[2]
       /\ \E m \in Node : Facing(ns, n, m, far[a])
  /\ whole /\ n \in ns =>
       \A a \in DOMAIN near : near[a] = n[2] => a \in Range(seq)

Whole == late = {} /\ Disjoint

ListsOK(ids, near, far) ==
  \A n \in Node : Listed(nodes, Whole, n, ids[n], near, far)

Pointed(n, ptrs, ids) ==
  /\ IsInjective(ptrs) /\ Range(ptrs) = Range(ids) \cap ResolvedArcs
  /\ Range(ptrs) # {} => n \in resolvedNodes

PointersOK(ids, ptrs) == \A n \in Node : Pointed(n, ptrs[n], ids[n])

IsEnd(m, id) == m \in nodes /\ m[2] = id

ArcOK(a) ==
  /\ arcs[a].source = NoNode <=> arcs[a].target = NoNode
  /\ arcs[a].source # NoNode => /\ IsEnd(arcs[a].source, arcs[a].sourceId)
                                /\ IsEnd(arcs[a].target, arcs[a].targetId)
  /\ ~resolved => arcs[a].source = NoNode
  /\ resolved /\ late = {} => arcs[a].source # NoNode
  /\ late = {} => \E f, g \in Node : IsEnd(f, arcs[a].sourceId) /\ IsEnd(g, arcs[a].targetId)

ArcsOK == \A a \in DOMAIN arcs : ArcOK(a)

NetTypeOK ==
  /\ nodes \subseteq Node /\ resolvedNodes \subseteq nodes
  /\ DOMAIN arcs \subseteq ArcId /\ arcs \in [DOMAIN arcs -> Arc]
  /\ inIds \in [Node -> Seq(DOMAIN arcs)] /\ outIds \in [Node -> Seq(DOMAIN arcs)]
  /\ inArcs \in [Node -> Seq(DOMAIN arcs)] /\ outArcs \in [Node -> Seq(DOMAIN arcs)]
  /\ resolved \in BOOLEAN

NetInv ==
  /\ NetTypeOK /\ ArcsOK
  /\ ListsOK(inIds, TargetIds, SourceIds) /\ PointersOK(inIds, inArcs)
  /\ ListsOK(outIds, SourceIds, TargetIds) /\ PointersOK(outIds, outArcs)

-----------------------------------------------------------------------------
(* What AppendNew does to a sequence that has nothing twice.                *)
LEMMA AppendNewShape ==
  ASSUME NEW S, NEW s \in Seq(S), NEW x \in S, IsInjective(s)
  PROVE  /\ AppendNew(s, x) \in Seq(S) /\ IsInjective(AppendNew(s, x))
         /\ Range(AppendNew(s, x)) = Range(s) \cup {x}
<1>1. CASE Contains(s, x)
  <2>1. x \in Range(s)
    BY <1>1 DEF Contains, Range
  <2> QED BY <1>1, <2>1 DEF AppendNew
<1>2. CASE ~Contains(s, x)
  <2> DEFINE t == Append(s, x)
  <2>1. AppendNew(s, x) = t
    BY <1>2 DEF AppendNew
  <2>2. t \in Seq(S) /\ Len(t) = Len(s) + 1 /\ t[Len(s) + 1] = x
        /\ (\A i \in 1..Len(s) : t[i] = s[i])
    OBVIOUS
  <2>3. Len(s) \in Nat /\ DOMAIN s = 1..Len(s) /\ DOMAIN t = 1..(Len(s) + 1)
    BY <2>2
  <2> HIDE DEF t
  <2>4. \A i \in 1..Len(s) : s[i] # x
    BY <1>2 DEF Contains
  <2>5. \A i \in DOMAIN t : i \in 1..Len(s) \/ i = Len(s) + 1
    BY <2>3
  <2>6. IsInjective(t)
    <3> SUFFICES ASSUME NEW i \in DOMAIN t, NEW j \in DOMAIN t, t[i] = t[j] PROVE i = j
      BY DEF IsInjective
    <3>1. \A k, l \in 1..Len(s) : s[k] = s[l] => k = l
      BY <2>3 DEF IsInjective
    <3> QED BY <2>2, <2>4, <2>5, <3>1
  <2>7. Range(t) = Range(s) \cup {x}
    <3>1. \A y : y \in Range(t) => y \in Range(s) \cup {x}
      BY <2>2, <2>3, <2>5 DEF Range
    <3>2. \A i \in 1..Len(s) : i \in DOMAIN t
      BY <2>3
    <3>3. Len(s) + 1 \in DOMAIN t
      BY <2>3
    <3>4. \A y : y \in Range(s) \cup {x} => y \in Range(t)
      BY <2>2, <2>3, <3>2, <3>3 DEF Range
    <3> QED BY <3>1, <3>4
  <2> QED BY <2>1, <2>2, <2>6, <2>7
<1> QED BY <1>1, <1>2

(* Sequences stay sequences when the set they are over grows.               *)
LEMMA SeqOfMore ==
  ASSUME NEW S, NEW T, S \subseteq T, NEW s \in Seq(S)
  PROVE  s \in Seq(T)
  OBVIOUS

LEMMA EmptyRange ==
  ASSUME NEW S, NEW s \in Seq(S), Range(s) = {}
  PROVE  s = <<>>
<1>1. \A i \in 1..Len(s) : s[i] \in Range(s)
  BY DEF Range
<1>2. Len(s) \in Nat /\ ~(1 \in 1..Len(s))
  BY <1>1
<1>3. Len(s) = 0
  BY <1>2
<1> QED BY <1>3

LEMMA NetInitInv == NetInit => NetInv
<1> SUFFICES ASSUME NetInit PROVE NetInv
  OBVIOUS
<1>1. DOMAIN arcs = {} /\ nodes = {} /\ resolvedNodes = {} /\ resolved = FALSE
  BY DEF NetInit
<1>2. arcs \in [DOMAIN arcs -> Arc]
  BY <1>1 DEF NetInit
<1>3. /\ inIds = [n \in Node |-> <<>>] /\ outIds = [n \in Node |-> <<>>]
      /\ inArcs = [n \in Node |-> <<>>] /\ outArcs = [n \in Node |-> <<>>]
  BY DEF NetInit
<1>4. NetTypeOK
  <2>1. [n \in Node |-> <<>>] \in [Node -> Seq(DOMAIN arcs)]
    OBVIOUS
  <2> QED BY <1>1, <1>2, <1>3, <2>1 DEF NetTypeOK
<1>5. Range(<<>>) = {} /\ IsInjective(<<>>)
  BY DEF Range, IsInjective
<1>6. ArcsOK
  BY <1>1 DEF ArcsOK
<1>7. DOMAIN SourceIds = {} /\ DOMAIN TargetIds = {}
  BY <1>1 DEF SourceIds, TargetIds
<1>8. \A n \in Node : Listed(nodes, Whole, n, <<>>, TargetIds, SourceIds)
                     /\ Listed(nodes, Whole, n, <<>>, SourceIds, TargetIds)
                     /\ Pointed(n, <<>>, <<>>)
  BY <1>5, <1>7 DEF Listed, Pointed
<1>9. /\ ListsOK(inIds, TargetIds, SourceIds) /\ ListsOK(outIds, SourceIds, TargetIds)
      /\ PointersOK(inIds, inArcs) /\ PointersOK(outIds, outArcs)
  BY <1>3, <1>8 DEF ListsOK, PointersOK
<1> QED BY <1>4, <1>6, <1>9 DEF NetInv

-----------------------------------------------------------------------------
(* A node more.                                                             *)
LEMMA ListedAddNode ==
  ASSUME NEW ns, NEW x \in Node, NEW w, NEW w2, NEW n, NEW seq, NEW near, NEW far,
         Listed(ns, w, n, seq, near, far), w2 => w,
         w2 => \A a \in DOMAIN near : near[a] # x[2]
  PROVE  Listed(ns \cup {x}, w2, n, seq, near, far)
<1>1. IsInjective(seq)
  BY DEF Listed
<1>2. ASSUME NEW a \in Range(seq)
      PROVE  /\ n \in ns \cup {x} /\ near[a] = n[2]
             /\ \E m \in Node : Facing(ns \cup {x}, n, m, far[a])
  BY <1>2 DEF Listed, Facing
<1>3. ASSUME w2, n \in ns \cup {x}, NEW a \in DOMAIN near, near[a] = n[2]
      PROVE  a \in Range(seq)
  BY <1>3 DEF Listed
<1> QED BY <1>1, <1>2, <1>3 DEF Listed

LEMMA AddNodeInv ==
  ASSUME NetInv, NEW x \in Node, AddNode(x)
  PROVE  NetInv'
<1>1. /\ nodes' = nodes \cup {x} /\ arcs' = arcs /\ inIds' = inIds /\ outIds' = outIds
      /\ inArcs' = inArcs /\ outArcs' = outArcs /\ resolved' = resolved
      /\ resolvedNodes' = resolvedNodes /\ x \notin nodes
  BY DEF AddNode, listVars, pointerVars
<1>2. late' = {} => late = {} /\ ~resolved
  BY DEF AddNode, Late
<1>3. NetTypeOK'
  BY <1>1 DEF NetInv, NetTypeOK
<1>4. ArcsOK'
  BY <1>1, <1>2 DEF NetInv, ArcsOK, ArcOK, IsEnd
<1>5. SourceIds' = SourceIds /\ TargetIds' = TargetIds /\ ResolvedArcs' = ResolvedArcs
  BY <1>1 DEF SourceIds, TargetIds, ResolvedArcs
<1>6. Whole' => Whole
  BY <1>1, <1>2 DEF Whole, Disjoint
<1>7. ASSUME Whole', NEW f \in nodes PROVE f[2] # x[2]
  <2>1. f \in Node /\ f # x
    BY <1>1 DEF NetInv, NetTypeOK
  <2>2. CASE f[2] = x[2]
    <3>1. f[1] # x[1]
      BY <2>1, <2>2 DEF Node
    <3>2. \/ f = PlaceNode(x[2]) /\ x = TransitionNode(x[2])
          \/ x = PlaceNode(x[2]) /\ f = TransitionNode(x[2])
      BY <2>1, <2>2, <3>1 DEF Node, PlaceNode, TransitionNode
    <3>3. x[2] \in Id
      BY DEF Node
    <3> QED BY <1>1, <1>7, <3>2, <3>3 DEF Whole, Disjoint
  <2> QED BY <2>2
<1>8. ASSUME Whole', NEW a \in DOMAIN arcs
      PROVE  arcs[a].sourceId # x[2] /\ arcs[a].targetId # x[2]
  <2>1. late = {}
    BY <1>2, <1>8 DEF Whole
  <2>2. PICK f \in Node, g \in Node : IsEnd(f, arcs[a].sourceId) /\ IsEnd(g, arcs[a].targetId)
    BY <2>1 DEF NetInv, ArcsOK, ArcOK
  <2> QED BY <1>7, <1>8, <2>2 DEF IsEnd
<1>9. \A n \in Node : Listed(nodes', Whole', n, inIds[n], TargetIds, SourceIds)
  <2> TAKE n \in Node
  <2>1. Listed(nodes, Whole, n, inIds[n], TargetIds, SourceIds)
    BY DEF NetInv, ListsOK
  <2>2. Whole' => \A a \in DOMAIN TargetIds : TargetIds[a] # x[2]
    BY <1>8 DEF TargetIds
  <2> QED BY <1>1, <1>6, <2>1, <2>2, ListedAddNode
<1>10. \A n \in Node : Listed(nodes', Whole', n, outIds[n], SourceIds, TargetIds)
  <2> TAKE n \in Node
  <2>1. Listed(nodes, Whole, n, outIds[n], SourceIds, TargetIds)
    BY DEF NetInv, ListsOK
  <2>2. Whole' => \A a \in DOMAIN SourceIds : SourceIds[a] # x[2]
    BY <1>8 DEF SourceIds
  <2> QED BY <1>1, <1>6, <2>1, <2>2, ListedAddNode
<1>11. ListsOK(inIds, TargetIds, SourceIds)' /\ ListsOK(outIds, SourceIds, TargetIds)'
  BY <1>1, <1>5, <1>9, <1>10 DEF ListsOK
<1>12. PointersOK(inIds, inArcs)' /\ PointersOK(outIds, outArcs)'
  BY <1>1, <1>5 DEF NetInv, PointersOK, Pointed
<1> QED BY <1>3, <1>4, <1>11, <1>12 DEF NetInv
-----------------------------------------------------------------------------
(* An arc more: hit says whether it is entered at the node n.               *)
Agree(S, f, g) == \A a \in S : g[a] = f[a]

Entered(ns, w, n, id, near, far, hit) ==
  /\ hit => n \in ns /\ near[id] = n[2] /\ \E m \in Node : Facing(ns, n, m, far[id])
  /\ w /\ n \in ns /\ near[id] = n[2] => hit

Grown(seq, seq2, id, hit) ==
  /\ hit => seq2 = AppendNew(seq, id)
  /\ ~hit => seq2 = seq

LEMMA ListedAddArc ==
  ASSUME NEW ns, NEW w, NEW w2, NEW n, NEW S, NEW seq \in Seq(S), NEW id,
         NEW near, NEW far, NEW near2, NEW far2, NEW hit,
         Listed(ns, w, n, seq, near, far), w2 => w,
         DOMAIN near2 = DOMAIN near \cup {id},
         Agree(Range(seq), near, near2), Agree(Range(seq), far, far2),
         Agree(DOMAIN near, near, near2), Entered(ns, w2, n, id, near2, far2, hit),
         NEW seq2, Grown(seq, seq2, id, hit)
  PROVE  Listed(ns, w2, n, seq2, near2, far2)
<1>1. IsInjective(seq)
  BY DEF Listed
<1>2. seq \in Seq(S \cup {id})
  OBVIOUS
<1>3. /\ IsInjective(seq2)
      /\ hit => Range(seq2) = Range(seq) \cup {id}
      /\ ~hit => Range(seq2) = Range(seq)
  <2>1. IsInjective(AppendNew(seq, id)) /\ Range(AppendNew(seq, id)) = Range(seq) \cup {id}
    BY <1>1, <1>2, AppendNewShape
  <2> QED BY <1>1, <2>1 DEF Grown
<1>4. ASSUME NEW a \in Range(seq2)
      PROVE  n \in ns /\ near2[a] = n[2] /\ \E m \in Node : Facing(ns, n, m, far2[a])
  <2>1. CASE a \in Range(seq)
    BY <2>1 DEF Listed, Agree
  <2>2. CASE a \notin Range(seq)
    BY <1>3, <1>4, <2>2 DEF Entered
  <2> QED BY <2>1, <2>2
<1>5. ASSUME w2, n \in ns, NEW a \in DOMAIN near2, near2[a] = n[2]
      PROVE  a \in Range(seq2)
  <2>1. CASE a \in DOMAIN near
    <3>1. a \in Range(seq)
      BY <1>5, <2>1 DEF Listed, Agree
    <3> QED BY <1>3, <3>1
  <2>2. CASE a = id
    BY <1>3, <1>5, <2>2 DEF Entered
  <2> QED BY <1>5, <2>1, <2>2
<1> QED BY <1>3, <1>4, <1>5 DEF Listed

(* Which nodes AddArc enters the arc at.                                    *)
LEMMA EndsFacing ==
  ASSUME NEW ns \in SUBSET Node, NEW a \in Arc, NEW e \in Ends(a, ns)
  PROVE  /\ e[1] \in ns /\ e[1][2] = a.sourceId /\ Facing(ns, e[1], e[2], a.targetId)
         /\ e[2] \in ns /\ e[2][2] = a.targetId /\ Facing(ns, e[2], e[1], a.sourceId)
  BY DEF Ends, Facing

LEMMA SameNode ==
  ASSUME NEW f \in nodes, NEW g \in nodes, nodes \subseteq Node, Disjoint, f[2] = g[2]
  PROVE  f = g
<1>1. CASE f # g
  <2>1. f \in Node /\ g \in Node
    OBVIOUS
  <2>2. f[2] \in Id
    BY <2>1 DEF Node
  <2>3. \/ f = PlaceNode(f[2]) /\ g = TransitionNode(f[2])
        \/ g = PlaceNode(f[2]) /\ f = TransitionNode(f[2])
    BY <1>1, <2>1 DEF Node, PlaceNode, TransitionNode
  <2> QED BY <2>2, <2>3 DEF Disjoint
<1> QED BY <1>1

LEMMA NewArcsAreArcs == NewArcs \subseteq Arc
<1> SUFFICES ASSUME NEW s \in Id, NEW t \in Id, NEW w \in Weights PROVE NewArc(s, t, w) \in Arc
  BY DEF NewArcs
<1>1. w \in Int
  BY NetBuildingAssumption
<1>2. (IF w <= 0 THEN 1 ELSE w) \in Nat \ {0}
  BY <1>1
<1> QED BY <1>2 DEF NewArc, Arc

LEMMA AddArcInv ==
  ASSUME NetInv, NEW id \in ArcId, NEW a \in NewArcs, AddArc(id, a)
  PROVE  NetInv'
<1> DEFINE ends == Ends(a, nodes)
           hitOut(n) == \E e \in ends : e[1] = n
           hitIn(n) == \E e \in ends : e[2] = n
<1>1. /\ id \notin DOMAIN arcs /\ nodes' = nodes /\ inArcs' = inArcs /\ outArcs' = outArcs
      /\ resolved' = resolved /\ resolvedNodes' = resolvedNodes
      /\ arcs' = [i \in DOMAIN arcs \cup {id} |-> IF i = id THEN a ELSE arcs[i]]
  BY DEF AddArc, listVars, pointerVars
<1>2. /\ outIds' = [n \in Node |-> IF hitOut(n) THEN AppendNew(outIds[n], id) ELSE outIds[n]]
      /\ inIds' = [n \in Node |-> IF hitIn(n) THEN AppendNew(inIds[n], id) ELSE inIds[n]]
      /\ late' = {} => late = {} /\ ~resolved /\ ends # {}
  BY DEF AddArc
<1>3. a \in Arc /\ a.source = NoNode /\ a.target = NoNode
  BY NewArcsAreArcs DEF NewArcs, NewArc
<1>4. nodes \in SUBSET Node /\ DOMAIN arcs \subseteq ArcId
  BY DEF NetInv, NetTypeOK
<1>5. DOMAIN arcs' = DOMAIN arcs \cup {id} /\ arcs'[id] = a
      /\ \A b \in DOMAIN arcs : arcs'[b] = arcs[b]
  BY <1>1
<1>6. \A e \in ends : /\ e[1] \in nodes /\ e[1][2] = a.sourceId
                      /\ Facing(nodes, e[1], e[2], a.targetId)
                      /\ e[2] \in nodes /\ e[2][2] = a.targetId
                      /\ Facing(nodes, e[2], e[1], a.sourceId)
  BY <1>3, <1>4, EndsFacing
<1> HIDE DEF ends
<1>7. ASSUME NEW n \in Node
      PROVE  /\ inIds[n] \in Seq(DOMAIN arcs) /\ Range(inIds[n]) \subseteq DOMAIN arcs
             /\ outIds[n] \in Seq(DOMAIN arcs) /\ Range(outIds[n]) \subseteq DOMAIN arcs
  BY DEF NetInv, NetTypeOK, Range
<1>8. ASSUME NEW n \in Node
      PROVE  /\ inIds'[n] = IF hitIn(n) THEN AppendNew(inIds[n], id) ELSE inIds[n]
             /\ outIds'[n] = IF hitOut(n) THEN AppendNew(outIds[n], id) ELSE outIds[n]
  BY <1>2
<1>9. ASSUME NEW n \in Node
      PROVE  /\ inIds'[n] \in Seq(DOMAIN arcs') /\ outIds'[n] \in Seq(DOMAIN arcs')
             /\ Range(inIds'[n]) \ {id} = Range(inIds[n])
             /\ Range(outIds'[n]) \ {id} = Range(outIds[n])
  <2>1. inIds[n] \in Seq(DOMAIN arcs') /\ outIds[n] \in Seq(DOMAIN arcs') /\ id \in DOMAIN arcs'
    BY <1>5, <1>7, SeqOfMore
  <2>2. IsInjective(inIds[n]) /\ IsInjective(outIds[n])
    BY DEF NetInv, ListsOK, Listed
  <2>3. id \notin Range(inIds[n]) /\ id \notin Range(outIds[n])
    BY <1>1, <1>7
  <2>4. /\ AppendNew(inIds[n], id) \in Seq(DOMAIN arcs')
        /\ Range(AppendNew(inIds[n], id)) = Range(inIds[n]) \cup {id}
        /\ AppendNew(outIds[n], id) \in Seq(DOMAIN arcs')
        /\ Range(AppendNew(outIds[n], id)) = Range(outIds[n]) \cup {id}
    BY <2>1, <2>2, AppendNewShape
  <2> QED BY <1>8, <2>1, <2>3, <2>4
<1>10. NetTypeOK'
  <2>1. arcs' \in [DOMAIN arcs' -> Arc] /\ DOMAIN arcs' \subseteq ArcId
    BY <1>1, <1>3, <1>4, <1>5 DEF NetInv, NetTypeOK
  <2>2. inIds' \in [Node -> Seq(DOMAIN arcs')] /\ outIds' \in [Node -> Seq(DOMAIN arcs')]
    BY <1>2, <1>9
  <2>3. inArcs' \in [Node -> Seq(DOMAIN arcs')] /\ outArcs' \in [Node -> Seq(DOMAIN arcs')]
    <3>1. \A s \in Seq(DOMAIN arcs) : s \in Seq(DOMAIN arcs')
      BY <1>5, SeqOfMore
    <3> QED BY <1>1, <3>1 DEF NetInv, NetTypeOK
  <2> QED BY <1>1, <2>1, <2>2, <2>3 DEF NetInv, NetTypeOK
<1>11. ArcsOK'
  <2> SUFFICES ASSUME NEW b \in DOMAIN arcs' PROVE ArcOK(b)'
    BY DEF ArcsOK
  <2>1. CASE b \in DOMAIN arcs
    BY <1>1, <1>2, <1>5, <2>1 DEF NetInv, ArcsOK, ArcOK, IsEnd
  <2>2. CASE b = id
    <3>1. arcs'[b].source = NoNode /\ arcs'[b].target = NoNode
          /\ arcs'[b].sourceId = a.sourceId /\ arcs'[b].targetId = a.targetId
      BY <1>3, <1>5, <2>2
    <3>2. ASSUME late' = {} PROVE \E f, g \in Node : IsEnd(f, a.sourceId) /\ IsEnd(g, a.targetId)
      <4>1. PICK e \in ends : TRUE
        BY <1>2, <3>2
      <4>2. e[1] \in Node /\ e[2] \in Node /\ IsEnd(e[1], a.sourceId) /\ IsEnd(e[2], a.targetId)
        BY <1>4, <1>6 DEF IsEnd
      <4> QED BY <4>2
    <3>3. late' = {} => ~resolved'
      BY <1>1, <1>2
    <3> QED BY <1>1, <3>1, <3>2, <3>3 DEF ArcOK, IsEnd
  <2> QED BY <1>5, <2>1, <2>2
<1>12. Whole' => Whole /\ ends # {}
  BY <1>1, <1>2 DEF Whole, Disjoint
<1>13. /\ DOMAIN SourceIds' = DOMAIN SourceIds \cup {id}
       /\ DOMAIN TargetIds' = DOMAIN TargetIds \cup {id}
       /\ DOMAIN SourceIds = DOMAIN arcs /\ DOMAIN TargetIds = DOMAIN arcs
       /\ SourceIds'[id] = a.sourceId /\ TargetIds'[id] = a.targetId
       /\ \A b \in DOMAIN arcs : SourceIds'[b] = SourceIds[b] /\ TargetIds'[b] = TargetIds[b]
  BY <1>5 DEF SourceIds, TargetIds
<1>14. ASSUME NEW n \in Node
       PROVE  Listed(nodes', Whole', n, inIds'[n], TargetIds', SourceIds')
  <2>1. Listed(nodes, Whole, n, inIds[n], TargetIds, SourceIds)
    BY DEF NetInv, ListsOK
  <2>2. hitIn(n) => n \in nodes /\ TargetIds'[id] = n[2]
                    /\ \E m \in Node : Facing(nodes, n, m, SourceIds'[id])
    BY <1>4, <1>6, <1>13
  <2>3. ASSUME Whole', n \in nodes, TargetIds'[id] = n[2] PROVE hitIn(n)
    <3>1. PICK e \in ends : TRUE
      BY <1>12, <2>3
    <3>2. e[2] \in nodes /\ e[2][2] = n[2]
      BY <1>6, <1>13, <2>3
    <3>3. e[2] = n
      BY <1>4, <1>12, <2>3, <3>2, SameNode DEF Whole
    <3> QED BY <3>3
  <2> HIDE DEF hitIn
  <2>4. /\ Agree(Range(inIds[n]), TargetIds, TargetIds') /\ Agree(Range(inIds[n]), SourceIds, SourceIds')
        /\ Agree(DOMAIN TargetIds, TargetIds, TargetIds')
    BY <1>7, <1>13 DEF Agree
  <2>5. Grown(inIds[n], inIds'[n], id, hitIn(n))
    BY <1>8 DEF Grown
  <2>6. Entered(nodes, Whole', n, id, TargetIds', SourceIds', hitIn(n))
    BY <2>2, <2>3 DEF Entered
  <2>7. Listed(nodes, Whole', n, inIds'[n], TargetIds', SourceIds')
    BY <1>7, <1>12, <1>13, <2>1, <2>4, <2>5, <2>6, ListedAddArc
  <2> QED BY <1>1, <2>7
<1>15. ASSUME NEW n \in Node
       PROVE  Listed(nodes', Whole', n, outIds'[n], SourceIds', TargetIds')
  <2>1. Listed(nodes, Whole, n, outIds[n], SourceIds, TargetIds)
    BY DEF NetInv, ListsOK
  <2>2. hitOut(n) => n \in nodes /\ SourceIds'[id] = n[2]
                     /\ \E m \in Node : Facing(nodes, n, m, TargetIds'[id])
    BY <1>4, <1>6, <1>13
  <2>3. ASSUME Whole', n \in nodes, SourceIds'[id] = n[2] PROVE hitOut(n)
    <3>1. PICK e \in ends : TRUE
      BY <1>12, <2>3
    <3>2. e[1] \in nodes /\ e[1][2] = n[2]
      BY <1>6, <1>13, <2>3
    <3>3. e[1] = n
      BY <1>4, <1>12, <2>3, <3>2, SameNode DEF Whole
    <3> QED BY <3>3
  <2> HIDE DEF hitOut
  <2>4. /\ Agree(Range(outIds[n]), SourceIds, SourceIds') /\ Agree(Range(outIds[n]), TargetIds, TargetIds')
        /\ Agree(DOMAIN SourceIds, SourceIds, SourceIds')
    BY <1>7, <1>13 DEF Agree
  <2>5. Grown(outIds[n], outIds'[n], id, hitOut(n))
    BY <1>8 DEF Grown
  <2>6. Entered(nodes, Whole', n, id, SourceIds', TargetIds', hitOut(n))
    BY <2>2, <2>3 DEF Entered
  <2>7. Listed(nodes, Whole', n, outIds'[n], SourceIds', TargetIds')
    BY <1>7, <1>12, <1>13, <2>1, <2>4, <2>5, <2>6, ListedAddArc
  <2> QED BY <1>1, <2>7
<1>16. ListsOK(inIds, TargetIds, SourceIds)' /\ ListsOK(outIds, SourceIds, TargetIds)'
  BY <1>14, <1>15 DEF ListsOK
<1>17. ResolvedArcs' = ResolvedArcs /\ id \notin ResolvedArcs
  BY <1>1, <1>3, <1>5 DEF ResolvedArcs
<1>18. ASSUME NEW n \in Node
       PROVE  Pointed(n, inArcs[n], inIds[n])' /\ Pointed(n, outArcs[n], outIds[n])'
  <2>1. Pointed(n, inArcs[n], inIds[n]) /\ Pointed(n, outArcs[n], outIds[n])
    BY DEF NetInv, PointersOK
  <2>2. Range(inIds'[n]) \cap ResolvedArcs = Range(inIds[n]) \cap ResolvedArcs
        /\ Range(outIds'[n]) \cap ResolvedArcs = Range(outIds[n]) \cap ResolvedArcs
    BY <1>9, <1>17
  <2> QED BY <1>1, <1>17, <2>1, <2>2 DEF Pointed
<1>19. PointersOK(inIds, inArcs)' /\ PointersOK(outIds, outArcs)'
  BY <1>18 DEF PointersOK
<1> QED BY <1>10, <1>11, <1>16, <1>19 DEF NetInv

-----------------------------------------------------------------------------
LEMMA ResolveInv ==
  ASSUME NetInv, Resolve
  PROVE  NetInv'
<1>1. /\ ~resolved /\ Validate /\ nodes' = nodes /\ inIds' = inIds /\ outIds' = outIds
      /\ late' = late /\ resolved' = TRUE /\ resolvedNodes' = nodes
      /\ arcs' = [a \in DOMAIN arcs |->
                    [arcs[a] EXCEPT !.source = Lookup(arcs[a].sourceId),
                                    !.target = Lookup(arcs[a].targetId)]]
      /\ inArcs' = [n \in Node |-> IF n \in nodes THEN inArcs[n] \o inIds[n] ELSE inArcs[n]]
      /\ outArcs' = [n \in Node |-> IF n \in nodes THEN outArcs[n] \o outIds[n] ELSE outArcs[n]]
  BY DEF Resolve, listVars
<1>2. DOMAIN arcs' = DOMAIN arcs /\ nodes \subseteq Node
  BY <1>1 DEF NetInv, NetTypeOK
<1>3. ASSUME NEW i, Exists(i) PROVE Lookup(i) \in nodes /\ Lookup(i)[2] = i
  <2>1. PICK n \in nodes : n[2] = i
    BY <1>3 DEF Exists
  <2>2. n = PlaceNode(i) \/ n = TransitionNode(i)
    BY <1>2, <2>1 DEF Node, PlaceNode, TransitionNode
  <2> QED BY <2>2 DEF Lookup, PlaceNode, TransitionNode
<1>4. ASSUME NEW a \in DOMAIN arcs
      PROVE  /\ arcs'[a] \in Arc
             /\ arcs'[a].sourceId = arcs[a].sourceId /\ arcs'[a].targetId = arcs[a].targetId
             /\ IsEnd(arcs'[a].source, arcs[a].sourceId)
             /\ IsEnd(arcs'[a].target, arcs[a].targetId)
  <2>1. arcs[a] \in Arc
    BY DEF NetInv, NetTypeOK
  <2>2. arcs'[a] = [arcs[a] EXCEPT !.source = Lookup(arcs[a].sourceId),
                                   !.target = Lookup(arcs[a].targetId)]
    BY <1>1
  <2>3. /\ Lookup(arcs[a].sourceId) \in nodes /\ Lookup(arcs[a].sourceId)[2] = arcs[a].sourceId
        /\ Lookup(arcs[a].targetId) \in nodes /\ Lookup(arcs[a].targetId)[2] = arcs[a].targetId
    BY <1>1, <1>3 DEF Validate
  <2> QED BY <1>2, <2>1, <2>2, <2>3 DEF Arc, IsEnd
<1>5. \A m \in Node : m # NoNode
  BY DEF Node, NoNode
<1>6. ASSUME NEW n \in Node
      PROVE  inArcs[n] = <<>> /\ outArcs[n] = <<>>
             /\ inIds[n] \in Seq(DOMAIN arcs) /\ outIds[n] \in Seq(DOMAIN arcs)
  <2>1. ResolvedArcs = {}
    BY <1>1 DEF NetInv, ArcsOK, ArcOK, ResolvedArcs
  <2>2. Range(inArcs[n]) = {} /\ Range(outArcs[n]) = {}
    BY <2>1 DEF NetInv, PointersOK, Pointed
  <2>3. inArcs[n] \in Seq(DOMAIN arcs) /\ outArcs[n] \in Seq(DOMAIN arcs)
    BY DEF NetInv, NetTypeOK
  <2> QED BY <2>2, <2>3, EmptyRange DEF NetInv, NetTypeOK
<1>7. ASSUME NEW n \in Node
      PROVE  inArcs'[n] = inIds[n] /\ outArcs'[n] = outIds[n]
  <2>1. \A s \in Seq(DOMAIN arcs) : <<>> \o s = s
    OBVIOUS
  <2>2. n \notin nodes => Range(inIds[n]) = {} /\ Range(outIds[n]) = {}
    BY DEF NetInv, ListsOK, Listed
  <2>3. n \notin nodes => inIds[n] = <<>> /\ outIds[n] = <<>>
    BY <1>6, <2>2, EmptyRange
  <2> QED BY <1>1, <1>6, <2>1, <2>3
<1>8. NetTypeOK'
  <2>1. arcs' \in [DOMAIN arcs' -> Arc]
    BY <1>1, <1>2, <1>4
  <2>2. inArcs' \in [Node -> Seq(DOMAIN arcs')] /\ outArcs' \in [Node -> Seq(DOMAIN arcs')]
    BY <1>1, <1>2, <1>6, <1>7
  <2> QED BY <1>1, <1>2, <2>1, <2>2 DEF NetInv, NetTypeOK
<1>9. ArcsOK'
  <2> SUFFICES ASSUME NEW a \in DOMAIN arcs PROVE ArcOK(a)'
    BY <1>2 DEF ArcsOK
  <2>1. arcs'[a].source # NoNode /\ arcs'[a].target # NoNode
    BY <1>2, <1>4, <1>5 DEF IsEnd
  <2>2. arcs'[a].source \in Node /\ arcs'[a].target \in Node
    BY <1>2, <1>4 DEF IsEnd
  <2>3. \E f, g \in Node : (IsEnd(f, arcs[a].sourceId) /\ IsEnd(g, arcs[a].targetId))'
    BY <1>1, <1>4, <2>2 DEF IsEnd
  <2>4. (IsEnd(arcs[a].source, arcs[a].sourceId) /\ IsEnd(arcs[a].target, arcs[a].targetId))'
    BY <1>1, <1>4 DEF IsEnd
  <2> QED BY <1>1, <2>1, <2>3, <2>4 DEF ArcOK
<1>10. SourceIds' = SourceIds /\ TargetIds' = TargetIds /\ (Whole' <=> Whole)
  BY <1>1, <1>2, <1>4 DEF SourceIds, TargetIds, Whole, Disjoint
<1>11. ListsOK(inIds, TargetIds, SourceIds)' /\ ListsOK(outIds, SourceIds, TargetIds)'
  BY <1>1, <1>10 DEF NetInv, ListsOK, Listed
<1>12. ResolvedArcs' = DOMAIN arcs
  <2>1. \A a \in DOMAIN arcs : arcs'[a].source # NoNode
    BY <1>2, <1>4, <1>5 DEF IsEnd
  <2> QED BY <1>2, <2>1 DEF ResolvedArcs
<1>13. ASSUME NEW n \in Node
       PROVE  Pointed(n, inArcs[n], inIds[n])' /\ Pointed(n, outArcs[n], outIds[n])'
  <2>1. /\ IsInjective(inIds[n]) /\ (Range(inIds[n]) # {} => n \in nodes)
        /\ IsInjective(outIds[n]) /\ (Range(outIds[n]) # {} => n \in nodes)
    BY DEF NetInv, ListsOK, Listed
  <2>2. Range(inIds[n]) \subseteq DOMAIN arcs /\ Range(outIds[n]) \subseteq DOMAIN arcs
    BY <1>6 DEF Range
  <2> QED BY <1>1, <1>7, <1>12, <2>1, <2>2 DEF Pointed
<1>14. PointersOK(inIds, inArcs)' /\ PointersOK(outIds, outArcs)'
  BY <1>13 DEF PointersOK
<1> QED BY <1>8, <1>9, <1>11, <1>14 DEF NetInv

-----------------------------------------------------------------------------
LEMMA NetSpecInv == NetSpec => []NetInv
<1>1. ASSUME NetInv, [NetNext]_netVars PROVE NetInv'
  <2>1. CASE UNCHANGED netVars
    <3>1. NetTypeOK' /\ ArcsOK'
      BY <1>1, <2>1 DEF netVars, listVars, pointerVars, NetInv, NetTypeOK, ArcsOK, ArcOK, IsEnd
    <3>2. SourceIds' = SourceIds /\ TargetIds' = TargetIds /\ ResolvedArcs' = ResolvedArcs
          /\ (Whole' <=> Whole)
      BY <2>1 DEF netVars, SourceIds, TargetIds, ResolvedArcs, Whole, Disjoint
    <3>3. ListsOK(inIds, TargetIds, SourceIds)' /\ ListsOK(outIds, SourceIds, TargetIds)'
      BY <1>1, <2>1, <3>2 DEF netVars, listVars, NetInv, ListsOK, Listed
    <3>4. PointersOK(inIds, inArcs)' /\ PointersOK(outIds, outArcs)'
      BY <1>1, <2>1, <3>2 DEF netVars, listVars, pointerVars, NetInv, PointersOK, Pointed
    <3> QED BY <3>1, <3>3, <3>4 DEF NetInv
  <2>2. CASE NetNext
    BY <1>1, <2>2, AddNodeInv, AddArcInv, ResolveInv DEF NetNext
  <2> QED BY <1>1, <2>1, <2>2
<1> QED BY <1>1, NetInitInv, PTL DEF NetSpec

LEMMA NetInvDeclared == NetInv => RunsAsDeclared
<1> SUFFICES ASSUME NetInv, resolved, Disjoint, NEW n \in nodes
             PROVE  /\ WellTyped(n) /\ IsInjective(inArcs[n]) /\ IsInjective(outArcs[n])
                    /\ late = {} =>
                         /\ Range(inArcs[n]) = {a \in DOMAIN arcs : arcs[a].targetId = n[2]}
                         /\ Range(outArcs[n]) = {a \in DOMAIN arcs : arcs[a].sourceId = n[2]}
  BY DEF RunsAsDeclared
<1>1. n \in Node /\ nodes \subseteq Node
  BY DEF NetInv, NetTypeOK
<1>2. /\ Listed(nodes, Whole, n, inIds[n], TargetIds, SourceIds)
      /\ Listed(nodes, Whole, n, outIds[n], SourceIds, TargetIds)
      /\ Pointed(n, inArcs[n], inIds[n]) /\ Pointed(n, outArcs[n], outIds[n])
  BY <1>1 DEF NetInv, ListsOK, PointersOK
<1>3. \A a \in DOMAIN arcs : SourceIds[a] = arcs[a].sourceId /\ TargetIds[a] = arcs[a].targetId
  BY DEF SourceIds, TargetIds
<1>4. DOMAIN SourceIds = DOMAIN arcs /\ DOMAIN TargetIds = DOMAIN arcs
  BY DEF SourceIds, TargetIds
<1>5. ASSUME NEW a \in ResolvedArcs
      PROVE  /\ a \in DOMAIN arcs /\ arcs[a].source \in nodes /\ arcs[a].target \in nodes
             /\ arcs[a].source[2] = arcs[a].sourceId /\ arcs[a].target[2] = arcs[a].targetId
  BY DEF NetInv, ArcsOK, ArcOK, IsEnd, ResolvedArcs
<1>6. ASSUME NEW a \in Range(inArcs[n]) PROVE arcs[a].target = n /\ arcs[a].source[1] # n[1]
  <2>1. a \in ResolvedArcs /\ a \in Range(inIds[n])
    BY <1>2, <1>6 DEF Pointed
  <2>2. PICK m \in Node : Facing(nodes, n, m, arcs[a].sourceId)
    BY <1>2, <1>3, <1>5, <2>1 DEF Listed
  <2>3. arcs[a].source = m
    BY <1>1, <1>5, <2>1, <2>2, SameNode DEF Facing
  <2>4. arcs[a].target = n
    BY <1>1, <1>2, <1>3, <1>5, <2>1, SameNode DEF Listed
  <2> QED BY <2>2, <2>3, <2>4 DEF Facing
<1>7. ASSUME NEW a \in Range(outArcs[n]) PROVE arcs[a].source = n /\ arcs[a].target[1] # n[1]
  <2>1. a \in ResolvedArcs /\ a \in Range(outIds[n])
    BY <1>2, <1>7 DEF Pointed
  <2>2. PICK m \in Node : Facing(nodes, n, m, arcs[a].targetId)
    BY <1>2, <1>3, <1>5, <2>1 DEF Listed
  <2>3. arcs[a].target = m
    BY <1>1, <1>5, <2>1, <2>2, SameNode DEF Facing
  <2>4. arcs[a].source = n
    BY <1>1, <1>2, <1>3, <1>5, <2>1, SameNode DEF Listed
  <2> QED BY <2>2, <2>3, <2>4 DEF Facing
<1>8. WellTyped(n)
  BY <1>6, <1>7 DEF WellTyped, ArcsOf
<1>9. IsInjective(inArcs[n]) /\ IsInjective(outArcs[n])
  BY <1>2 DEF Pointed
<1>10. ASSUME late = {}
       PROVE  /\ Range(inArcs[n]) = {a \in DOMAIN arcs : arcs[a].targetId = n[2]}
              /\ Range(outArcs[n]) = {a \in DOMAIN arcs : arcs[a].sourceId = n[2]}
  <2>1. Whole /\ ResolvedArcs = DOMAIN arcs
    BY <1>10 DEF Whole, NetInv, ArcsOK, ArcOK, ResolvedArcs
  <2>2. /\ Range(inArcs[n]) = Range(inIds[n]) \cap DOMAIN arcs
        /\ Range(outArcs[n]) = Range(outIds[n]) \cap DOMAIN arcs
    BY <1>2, <2>1 DEF Pointed
  <2>3. \A a \in DOMAIN arcs : /\ a \in Range(inIds[n]) <=> arcs[a].targetId = n[2]
                               /\ a \in Range(outIds[n]) <=> arcs[a].sourceId = n[2]
    BY <1>2, <1>3, <1>4, <2>1 DEF Listed
  <2> QED BY <2>2, <2>3
<1> QED BY <1>8, <1>9, <1>10

LEMMA NetInvFires == NetInv => ValidNetFires
<1> SUFFICES ASSUME NetInv, Valid, NEW n \in TransitionsOf(nodes)
             PROVE  n \in resolvedNodes /\ inArcs[n] # <<>>
  BY DEF ValidNetFires
<1>1. n \in nodes /\ n \in Node /\ inIds[n] # <<>>
  BY DEF NetInv, NetTypeOK, TransitionsOf, Valid, TransitionsWithoutInput
<1>2. inIds[n] \in Seq(DOMAIN arcs)
  BY <1>1 DEF NetInv, NetTypeOK
<1>3. 1 \in DOMAIN inIds[n]
  BY <1>1, <1>2
<1>4. inIds[n][1] \in Range(inIds[n]) /\ inIds[n][1] \in DOMAIN arcs
  BY <1>2, <1>3 DEF Range
<1>5. inIds[n][1] \in ResolvedArcs
  BY <1>4 DEF Valid, InvalidArcs, ResolvedArcs
<1>6. Pointed(n, inArcs[n], inIds[n])
  BY <1>1 DEF NetInv, PointersOK
<1>7. inIds[n][1] \in Range(inArcs[n])
  BY <1>4, <1>5, <1>6 DEF Pointed
<1>8. Range(<<>>) = {}
  BY DEF Range
<1> QED BY <1>6, <1>7, <1>8 DEF Pointed

(* What runs is what was declared: AddArc enters an arc at both its nodes   *)
(* or at none, and Resolve turns every entry into one pointer, for any IDs, *)
(* arcs and order of the calls.                                             *)
THEOREM DeclaredArcsRun == NetSpec => []RunsAsDeclared
  BY NetSpecInv, NetInvDeclared, PTL

(* DryRun's verdict on a net: no transition of a valid one is unresolved or *)
(* has nothing to wait for.                                                 *)
THEOREM ValidNetsFire == NetSpec => []ValidNetFires
  BY NetSpecInv, NetInvFires, PTL

-----------------------------------------------------------------------------
(* Next, what a fold over a sequence does, of which the loops of            *)
(* checkConnectivity are made: it goes through a trace of values, one after *)
(* each element.  Induction over the natural numbers is stated for a set of *)
(* them, the form in which the provers can use it.                          *)
LEMMA NatInd ==
  ASSUME NEW T \in SUBSET Nat, 0 \in T, \A k \in T : k + 1 \in T
  PROVE  T = Nat
<1> SUFFICES ASSUME Nat \ T # {} PROVE FALSE
  OBVIOUS
<1>1. PICK m \in Nat \ T : \A k \in Nat \ T : ~ (<<k, m>> \in OpToRel(<, Nat))
  BY NatLessThanWellFounded, WFMin
<1>2. m - 1 \in Nat /\ m - 1 < m
  <2>1. m \in Nat /\ m # 0
    OBVIOUS
  <2> QED BY <2>1
<1>3. <<m - 1, m>> \in OpToRel(<, Nat)
  BY <1>2 DEF OpToRel
<1>4. m - 1 \in T
  BY <1>1, <1>2, <1>3
<1>5. (m - 1) + 1 \in T
  BY <1>4
<1>6. (m - 1) + 1 = m
  OBVIOUS
<1> QED BY <1>5, <1>6

(* A largest element is the Max of the library.                             *)
LEMMA MaxIs ==
  ASSUME NEW S \in SUBSET Int, NEW x \in S, \A y \in S : y <= x
  PROVE  Max(S) = x
<1>1. Max(S) \in S /\ \A y \in S : Max(S) >= y
  BY Zenon DEF Max
<1>2. PICK m : m = Max(S)
  OBVIOUS
<1>3. m \in Int /\ x \in Int /\ m <= x /\ m >= x
  BY <1>1, <1>2
<1>4. m = x
  BY <1>3
<1> QED BY <1>2, <1>4

(* The recursion of a fold from the left over f.                            *)
Unrolls(h, f, b, s, k) ==
  \A S \in SUBSET (1 .. k) :
    h[S] = IF S = {} THEN b ELSE f[<<s[Max(S)], h[S \ {Max(S)}]>>]

(* Where every value of the fold is.                                        *)
Stable(f, b, s, U) == b \in U /\ \A i \in DOMAIN s : \A u \in U : f[<<s[i], u>>] \in U

FoldUnrolls(h, f, b, s) ==
  h = [S \in SUBSET DOMAIN s |-> IF S = {} THEN b ELSE f[<<s[Max(S)], h[S \ {Max(S)}]>>]]

(* There is such a recursion, whatever f is defined on.                     *)
LEMMA FoldDefined ==
  ASSUME NEW n \in Nat, NEW f, NEW b, NEW s, DOMAIN s = 1 .. n
  PROVE  \E h : /\ FoldUnrolls(h, f, b, s)
                /\ \A U : Stable(f, b, s, U) => \A S \in SUBSET DOMAIN s : h[S] \in U
<1> DEFINE Good(h, k) == /\ Unrolls(h, f, b, s, k)
                         /\ \A U : Stable(f, b, s, U) => \A S \in SUBSET (1 .. k) : h[S] \in U
           T == {k \in Nat : k <= n => \E h : Good(h, k)}
<1>1. 0 \in T
  <2> DEFINE h == [S \in {{}} |-> b]
  <2>1. SUBSET (1 .. 0) = {{}}
    OBVIOUS
  <2>2. Good(h, 0)
    BY <2>1 DEF Unrolls, Stable
  <2> QED BY <2>2
<1>2. ASSUME NEW k \in T PROVE k + 1 \in T
  <2> SUFFICES ASSUME k + 1 <= n PROVE \E h : Good(h, k + 1)
    OBVIOUS
  <2>1. PICK g : Good(g, k)
    OBVIOUS
  <2> DEFINE h == [S \in SUBSET (1 .. k + 1) |->
                     IF k + 1 \in S THEN f[<<s[k + 1], g[S \ {k + 1}]>>] ELSE g[S]]
  <2>2. ASSUME NEW S \in SUBSET (1 .. k + 1), k + 1 \in S
        PROVE  /\ Max(S) = k + 1 /\ S \ {k + 1} \in SUBSET (1 .. k)
               /\ h[S] = f[<<s[k + 1], g[S \ {k + 1}]>>] /\ h[S \ {k + 1}] = g[S \ {k + 1}]
    <3>1. \A y \in S : y <= k + 1
      OBVIOUS
    <3>2. S \in SUBSET Int
      OBVIOUS
    <3>3. Max(S) = k + 1
      BY <2>2, <3>1, <3>2, MaxIs
    <3>4. S \ {k + 1} \in SUBSET (1 .. k)
      <4>1. \A y \in 1 .. k + 1 : y # k + 1 => y \in 1 .. k
        BY <1>2
      <4> QED BY <4>1
    <3>5. S \ {k + 1} \in SUBSET (1 .. k + 1)
      OBVIOUS
    <3> QED BY <2>2, <3>3, <3>4, <3>5
  <2>3. ASSUME NEW S \in SUBSET (1 .. k + 1), k + 1 \notin S
        PROVE  S \in SUBSET (1 .. k) /\ h[S] = g[S]
               /\ (S # {} => S \ {Max(S)} \in SUBSET (1 .. k) /\ h[S \ {Max(S)}] = g[S \ {Max(S)}])
    <3>1. S \in SUBSET (1 .. k)
      BY <2>3
    <3>2. S \ {Max(S)} \in SUBSET (1 .. k + 1) /\ k + 1 \notin S \ {Max(S)}
      BY <2>3
    <3>3. S \ {Max(S)} \in SUBSET (1 .. k)
      BY <3>1
    <3> QED BY <2>3, <3>1, <3>2, <3>3
  <2> HIDE DEF h
  <2>4. Unrolls(h, f, b, s, k + 1)
    <3> SUFFICES ASSUME NEW S \in SUBSET (1 .. k + 1)
                 PROVE  h[S] = IF S = {} THEN b ELSE f[<<s[Max(S)], h[S \ {Max(S)}]>>]
      BY DEF Unrolls
    <3>1. CASE k + 1 \in S
      BY <2>2, <3>1
    <3>2. CASE k + 1 \notin S
      <4>1. S \in SUBSET (1 .. k) /\ h[S] = g[S]
        BY <2>3, <3>2
      <4>2. g[S] = IF S = {} THEN b ELSE f[<<s[Max(S)], g[S \ {Max(S)}]>>]
        BY <2>1, <4>1 DEF Unrolls
      <4> QED BY <2>3, <3>2, <4>1, <4>2
    <3> QED BY <3>1, <3>2
  <2>5. ASSUME NEW U, Stable(f, b, s, U), NEW S \in SUBSET (1 .. k + 1)
        PROVE  h[S] \in U
    <3>1. \A R \in SUBSET (1 .. k) : g[R] \in U
      BY <2>1, <2>5
    <3>2. CASE k + 1 \in S
      <4>1. k + 1 \in DOMAIN s
        OBVIOUS
      <4> QED BY <2>2, <2>5, <3>1, <3>2, <4>1 DEF Stable
    <3>3. CASE k + 1 \notin S
      BY <2>3, <3>1, <3>3
    <3> QED BY <3>2, <3>3
  <2>6. Good(h, k + 1)
    BY <2>4, <2>5
  <2> QED BY <2>6
<1>3. T = Nat
  <2> HIDE DEF T
  <2>1. T \in SUBSET Nat
    BY DEF T
  <2> QED BY <1>1, <1>2, <2>1, NatInd
<1>4. PICK g : Good(g, n)
  <2> HIDE DEF Good
  <2>1. T = Nat => n \in T
    <3> HIDE DEF T
    <3> QED OBVIOUS
  <2>2. n \in T => \E g : Good(g, n)
    OBVIOUS
  <2> QED BY <1>3, <2>1, <2>2
<1> DEFINE h == [S \in SUBSET DOMAIN s |-> g[S]]
<1>5. FoldUnrolls(h, f, b, s)
  <2>1. ASSUME NEW S \in SUBSET DOMAIN s
        PROVE  g[S] = IF S = {} THEN b ELSE f[<<s[Max(S)], h[S \ {Max(S)}]>>]
    <3>1. S \ {Max(S)} \in SUBSET DOMAIN s
      OBVIOUS
    <3>2. g[S] = IF S = {} THEN b ELSE f[<<s[Max(S)], g[S \ {Max(S)}]>>]
      BY <1>4 DEF Unrolls
    <3> QED BY <3>1, <3>2
  <2> QED BY <2>1, Zenon DEF FoldUnrolls
<1>6. \A U : Stable(f, b, s, U) => \A S \in SUBSET DOMAIN s : h[S] \in U
  BY <1>4
<1> QED BY <1>5, <1>6

(* What is left of a fold: the values that it goes through.                 *)
IsTrace(a, f, b, s) ==
  a[0] = b /\ \A k \in 1 .. Len(s) : a[k] = f[<<s[k], a[k - 1]>>]

Fold(f, b, s) == FoldLeft(LAMBDA v, m : f[<<m, v>>], b, s)

(* A fold ends with the last value of a trace.                              *)
LEMMA FoldTrace ==
  ASSUME NEW f, NEW b, NEW X, NEW s \in Seq(X)
  PROVE  \E a : /\ IsTrace(a, f, b, s)
                /\ Fold(f, b, s) = a[Len(s)]
<1> DEFINE n == Len(s)
           D == SUBSET DOMAIN s
           iter == CHOOSE h : h = [S \in SUBSET DOMAIN s |->
                                     IF S = {} THEN b ELSE f[<<s[Max(S)], h[S \ {Max(S)}]>>]]
           a == [k \in 0 .. n |-> iter[1 .. k]]
<1>1. n \in Nat /\ DOMAIN s = 1 .. n
  OBVIOUS
<1>2. Fold(f, b, s) = iter[DOMAIN s]
  BY Zenon DEF Fold, FoldLeft, MapThenFoldSet
<1>3. iter = [S \in SUBSET DOMAIN s |->
                IF S = {} THEN b ELSE f[<<s[Max(S)], iter[S \ {Max(S)}]>>]]
  <2> HIDE DEF n
  <2>1. \E h : h = [S \in SUBSET DOMAIN s |->
                      IF S = {} THEN b ELSE f[<<s[Max(S)], h[S \ {Max(S)}]>>]]
    <3>1. \E h : FoldUnrolls(h, f, b, s)
      BY <1>1, FoldDefined
    <3> QED BY <3>1, Zenon DEF FoldUnrolls
  <2> QED BY <2>1, Zenon
<1> HIDE DEF iter, n
<1>4. \A S \in SUBSET DOMAIN s :
        iter[S] = IF S = {} THEN b ELSE f[<<s[Max(S)], iter[S \ {Max(S)}]>>]
  BY <1>3, Zenon
<1>5. a[0] = b
  <2>1. 1 .. 0 = {} /\ {} \in SUBSET DOMAIN s
    OBVIOUS
  <2>2. iter[{}] = b
    BY <1>4, <2>1
  <2> QED BY <1>1, <2>1, <2>2
<1>6. ASSUME NEW k \in 1 .. n PROVE a[k] = f[<<s[k], a[k - 1]>>]
  <2>1. 1 .. k \in SUBSET DOMAIN s /\ 1 .. k # {} /\ 1 .. k \in SUBSET Int /\ k \in 1 .. k
    BY <1>1
  <2>2. Max(1 .. k) = k
    <3>1. \A y \in 1 .. k : y <= k
      OBVIOUS
    <3> QED BY <2>1, <3>1, MaxIs
  <2>3. (1 .. k) \ {k} = 1 .. (k - 1)
    OBVIOUS
  <2>4. iter[1 .. k] = f[<<s[k], iter[1 .. (k - 1)]>>]
    BY <1>4, <2>1, <2>2, <2>3
  <2>5. a[k] = iter[1 .. k] /\ a[k - 1] = iter[1 .. (k - 1)]
    BY <1>1
  <2> QED BY <2>4, <2>5
<1>7. a[n] = iter[DOMAIN s]
  BY <1>1
<1>8. IsTrace(a, f, b, s)
  BY <1>5, <1>6 DEF IsTrace, n
<1> HIDE DEF a
<1> QED BY <1>2, <1>7, <1>8 DEF n

(* Induction up to a bound.                                                 *)
LEMMA UpTo ==
  ASSUME NEW n \in Nat, NEW T, 0 \in T, \A k \in 0 .. (n - 1) : k \in T => k + 1 \in T
  PROVE  0 .. n \subseteq T
<1> DEFINE W == {k \in Nat : k <= n => k \in T}
<1>1. W \in SUBSET Nat /\ 0 \in W
  OBVIOUS
<1>2. ASSUME NEW k \in W PROVE k + 1 \in W
  <2> SUFFICES ASSUME k + 1 <= n PROVE k + 1 \in T
    OBVIOUS
  <2>1. k \in 0 .. (n - 1) /\ k <= n
    OBVIOUS
  <2> QED BY <2>1
<1>3. W = Nat
  <2> HIDE DEF W
  <2> QED BY <1>1, <1>2, NatInd
<1> QED BY <1>3

(* A fold has one trace, and another function that agrees with f on it has  *)
(* the same.                                                                *)
SameCalls(f, g, a, s) == \A k \in 1 .. Len(s) : g[<<s[k], a[k - 1]>>] = f[<<s[k], a[k - 1]>>]

LEMMA FoldAgrees ==
  ASSUME NEW f, NEW g, NEW b, NEW X, NEW s \in Seq(X), NEW a, IsTrace(a, f, b, s),
         SameCalls(f, g, a, s)
  PROVE  Fold(g, b, s) = a[Len(s)]
<1>1. PICK c : /\ IsTrace(c, g, b, s)
               /\ Fold(g, b, s) = c[Len(s)]
  BY FoldTrace
<1> DEFINE n == Len(s)  T == {k \in 0 .. n : c[k] = a[k]}
<1>2. n \in Nat
  OBVIOUS
<1>3. 0 \in T
  BY <1>1, <1>2 DEF IsTrace
<1>4. ASSUME NEW k \in 0 .. (n - 1), k \in T PROVE k + 1 \in T
  <2>1. k + 1 \in 1 .. n /\ (k + 1) - 1 = k /\ k + 1 \in 0 .. n
    BY <1>2
  <2>2. c[k + 1] = g[<<s[k + 1], c[k]>>] /\ a[k + 1] = f[<<s[k + 1], a[k]>>]
    BY <1>1, <2>1 DEF IsTrace
  <2>3. g[<<s[k + 1], a[k]>>] = f[<<s[k + 1], a[k]>>]
    BY <2>1 DEF SameCalls
  <2>4. c[k] = a[k]
    BY <1>4
  <2>5. c[k + 1] = a[k + 1]
    BY <2>2, <2>3, <2>4
  <2> QED BY <2>1, <2>5
<1>5. 0 .. n \subseteq T
  <2> HIDE DEF T, n
  <2> QED BY <1>2, <1>3, <1>4, UpTo
<1>6. n \in 0 .. n
  BY <1>2
<1>7. c[n] = a[n]
  BY <1>5, <1>6
<1> QED BY <1>1, <1>7

-----------------------------------------------------------------------------
(* The recursion of visit is nested: it is defined because a call inside    *)
(* has fewer nodes to visit.                                                *)
Unvisited(V) == Cardinality(Node \ V)

VisitBody(g, x) ==
  IF x[1] \in x[2] THEN x[2]
  ELSE Fold(g, x[2] \cup {x[1]}, Neighbours(x[1]))

Visits(g, x) == g[x] = VisitBody(g, x)

(* g grows the set that it is called with.                                  *)
Grows(g, x) == x[2] \subseteq g[x] /\ g[x] \subseteq Node

NeighboursAreNodes == \A n \in Node : Neighbours(n) \in Seq(Node)

(* There are finitely many nodes.                                           *)
LEMMA NodesFinite == IsFiniteSet(Node)
<1>1. IsFiniteSet({"place"}) /\ IsFiniteSet({"transition"})
  BY FS_Singleton
<1>2. {"place", "transition"} = {"place"} \cup {"transition"}
  OBVIOUS
<1>3. IsFiniteSet({"place", "transition"})
  BY <1>1, <1>2, FS_Union
<1> QED BY <1>3, FS_Product, NetBuildingAssumption DEF Node

(* What has been visited is not visited again.                              *)
LEMMA UnvisitedShrinks ==
  ASSUME NEW V \in SUBSET Node, NEW W \in SUBSET Node, V \subseteq W
  PROVE  /\ Unvisited(V) \in Nat /\ Unvisited(W) \in Nat
         /\ Unvisited(W) <= Unvisited(V)
         /\ \A n \in W \ V : Unvisited(W) < Unvisited(V)
<1>1. IsFiniteSet(Node \ V) /\ IsFiniteSet(Node \ W)
  BY NodesFinite, FS_Difference
<1>2. Cardinality(Node \ V) \in Nat /\ Cardinality(Node \ W) \in Nat
  BY <1>1, FS_CardinalityType
<1>3. Node \ W \in SUBSET (Node \ V)
  OBVIOUS
<1>4. /\ Cardinality(Node \ W) <= Cardinality(Node \ V)
      /\ Cardinality(Node \ W) = Cardinality(Node \ V) => Node \ W = Node \ V
  <2> DEFINE S == Node \ V  T == Node \ W
  <2> HIDE DEF S, T
  <2>1. IsFiniteSet(S) /\ T \in SUBSET S
    BY <1>1, <1>3 DEF S, T
  <2>2. Cardinality(T) <= Cardinality(S) /\ (Cardinality(S) = Cardinality(T) => S = T)
    BY <2>1, FS_Subset
  <2> QED BY <2>2 DEF S, T
<1>5. \A n \in W \ V : Node \ W # Node \ V
  OBVIOUS
<1> QED BY <1>2, <1>4, <1>5 DEF Unvisited

(* A fold over a function that grows sets goes through larger and larger    *)
(* ones.                                                                    *)
GrowsFrom(f, b) == \A m \in Node, V \in SUBSET Node : b \subseteq V => Grows(f, <<m, V>>)

LEMMA TraceGrows ==
  ASSUME NEW f, NEW b \in SUBSET Node, NEW s \in Seq(Node), NEW a, IsTrace(a, f, b, s),
         GrowsFrom(f, b)
  PROVE  /\ \A k \in 0 .. Len(s) : b \subseteq a[k] /\ a[k] \subseteq Node
         /\ \A k \in 1 .. Len(s) : a[k - 1] \subseteq a[k]
<1> DEFINE n == Len(s)  T == {k \in 0 .. n : b \subseteq a[k] /\ a[k] \subseteq Node}
<1>1. n \in Nat /\ \A k \in 1 .. n : s[k] \in Node
  OBVIOUS
<1>2. 0 \in T
  BY <1>1 DEF IsTrace
<1>3. ASSUME NEW k \in 0 .. (n - 1), b \subseteq a[k], a[k] \subseteq Node
      PROVE  /\ k + 1 \in 0 .. n /\ a[k] \subseteq a[k + 1] /\ a[k + 1] \subseteq Node
  <2>1. k + 1 \in 1 .. n /\ (k + 1) - 1 = k /\ k + 1 \in 0 .. n
    BY <1>1
  <2>2. a[k + 1] = f[<<s[k + 1], a[k]>>]
    BY <2>1 DEF IsTrace
  <2>3. s[k + 1] \in Node
    BY <1>1, <2>1
  <2>4. Grows(f, <<s[k + 1], a[k]>>)
    BY <1>3, <2>3 DEF GrowsFrom
  <2> QED BY <2>1, <2>2, <2>4 DEF Grows
<1>4. \A k \in 0 .. (n - 1) : k \in T => k + 1 \in T
  BY <1>3
<1>5. 0 .. n \subseteq T
  <2> HIDE DEF T, n
  <2> QED BY <1>1, <1>2, <1>4, UpTo
<1>6. ASSUME NEW k \in 1 .. n PROVE a[k - 1] \subseteq a[k]
  <2>1. k - 1 \in 0 .. (n - 1) /\ k - 1 \in 0 .. n /\ (k - 1) + 1 = k
    BY <1>1
  <2>2. b \subseteq a[k - 1] /\ a[k - 1] \subseteq Node
    BY <1>5, <2>1
  <2>3. a[k - 1] \subseteq a[(k - 1) + 1]
    BY <1>3, <2>1, <2>2
  <2> QED BY <2>1, <2>3
<1>7. \A k \in 0 .. n : b \subseteq a[k] /\ a[k] \subseteq Node
  BY <1>5
<1> QED BY <1>6, <1>7

VisitArgs == Node \X SUBSET Node

(* g is visit for calls with fewer than k nodes to visit.                   *)
VisitsBelow(g, k) ==
  \A x \in VisitArgs : Unvisited(x[2]) < k => Visits(g, x) /\ Grows(g, x)

(* One call, when the calls inside it are as they should be.                *)
LEMMA VisitCall ==
  ASSUME NeighboursAreNodes, NEW k \in Nat, NEW g, VisitsBelow(g, k),
         NEW x \in VisitArgs, Unvisited(x[2]) < k + 1, x[1] \notin x[2]
  PROVE  LET b == x[2] \cup {x[1]}  s == Neighbours(x[1]) IN
         \E a : /\ IsTrace(a, g, b, s) /\ VisitBody(g, x) = a[Len(s)]
                /\ \A j \in 0 .. Len(s) : b \subseteq a[j] /\ a[j] \subseteq Node
                /\ \A j \in 1 .. Len(s) : /\ a[j - 1] \subseteq a[j]
                                          /\ <<s[j], a[j - 1]>> \in VisitArgs
                                          /\ Unvisited(a[j - 1]) < Unvisited(x[2])
                                          /\ Unvisited(a[j - 1]) < k
<1> DEFINE b == x[2] \cup {x[1]}  s == Neighbours(x[1])
<1>1. x[1] \in Node /\ x[2] \in SUBSET Node /\ b \in SUBSET Node
  BY DEF VisitArgs
<1>2. s \in Seq(Node)
  BY <1>1 DEF NeighboursAreNodes
<1>3. ASSUME NEW V \in SUBSET Node, b \subseteq V
      PROVE  Unvisited(V) \in Nat /\ Unvisited(V) < Unvisited(x[2]) /\ Unvisited(V) < k
  <2>1. x[2] \subseteq V /\ x[1] \in V \ x[2]
    BY <1>3
  <2>2. /\ Unvisited(V) < Unvisited(x[2])
        /\ Unvisited(V) \in Nat /\ Unvisited(x[2]) \in Nat
    BY <1>1, <2>1, UnvisitedShrinks
  <2> QED BY <2>2
<1>4. ASSUME NEW m \in Node, NEW V \in SUBSET Node, b \subseteq V
      PROVE  Grows(g, <<m, V>>)
  <2>1. <<m, V>> \in VisitArgs /\ <<m, V>>[2] = V
    BY DEF VisitArgs
  <2>2. Unvisited(V) < k
    BY <1>3, <1>4
  <2> QED BY <2>1, <2>2 DEF VisitsBelow
<1>5. PICK a : IsTrace(a, g, b, s) /\ Fold(g, b, s) = a[Len(s)]
  BY <1>2, FoldTrace
<1>6. VisitBody(g, x) = a[Len(s)]
  BY <1>5 DEF VisitBody
<1> HIDE DEF b, s
<1>7. /\ \A j \in 0 .. Len(s) : b \subseteq a[j] /\ a[j] \subseteq Node
      /\ \A j \in 1 .. Len(s) : a[j - 1] \subseteq a[j]
  <2>1. GrowsFrom(g, b)
    BY <1>4 DEF GrowsFrom
  <2>2. b \in SUBSET Node /\ s \in Seq(Node) /\ IsTrace(a, g, b, s)
    BY <1>1, <1>2, <1>5
  <2> QED BY <2>1, <2>2, TraceGrows
<1>8. ASSUME NEW j \in 1 .. Len(s)
      PROVE  /\ <<s[j], a[j - 1]>> \in VisitArgs
             /\ Unvisited(a[j - 1]) < Unvisited(x[2]) /\ Unvisited(a[j - 1]) < k
  <2>1. j - 1 \in 0 .. Len(s) /\ s[j] \in Node
    BY <1>2
  <2>2. b \subseteq a[j - 1] /\ a[j - 1] \in SUBSET Node
    BY <1>7, <2>1
  <2> QED BY <1>3, <2>1, <2>2 DEF VisitArgs
<1> QED BY <1>5, <1>6, <1>7, <1>8 DEF b, s

(* The body of visit depends on calls with fewer nodes to visit only.       *)
LEMMA VisitBodyGrows ==
  ASSUME NeighboursAreNodes, NEW k \in Nat, NEW g, VisitsBelow(g, k),
         NEW x \in VisitArgs, Unvisited(x[2]) < k + 1
  PROVE  /\ x[2] \subseteq VisitBody(g, x) /\ VisitBody(g, x) \subseteq Node
         /\ \A h : (\A y \in VisitArgs : Unvisited(y[2]) < k => h[y] = g[y])
                     => VisitBody(h, x) = VisitBody(g, x)
<1>1. CASE x[1] \in x[2]
  BY <1>1 DEF VisitBody, VisitArgs
<1>2. CASE x[1] \notin x[2]
  <2> DEFINE b == x[2] \cup {x[1]}  s == Neighbours(x[1])
  <2>1. s \in Seq(Node) /\ Len(s) \in Nat
    BY DEF NeighboursAreNodes, VisitArgs
  <2>2. PICK a : /\ IsTrace(a, g, b, s) /\ VisitBody(g, x) = a[Len(s)]
                 /\ \A j \in 0 .. Len(s) : b \subseteq a[j] /\ a[j] \subseteq Node
                 /\ \A j \in 1 .. Len(s) : /\ <<s[j], a[j - 1]>> \in VisitArgs
                                           /\ Unvisited(a[j - 1]) < k
    BY <1>2, VisitCall
  <2>3. x[2] \subseteq VisitBody(g, x) /\ VisitBody(g, x) \subseteq Node
    BY <2>1, <2>2
  <2>4. ASSUME NEW h, \A y \in VisitArgs : Unvisited(y[2]) < k => h[y] = g[y]
        PROVE  VisitBody(h, x) = VisitBody(g, x)
    <3> HIDE DEF b, s
    <3>1. \A j \in 1 .. Len(s) : h[<<s[j], a[j - 1]>>] = g[<<s[j], a[j - 1]>>]
      BY <2>2, <2>4
    <3>2. Fold(h, b, s) = a[Len(s)]
      <4>1. s \in Seq(Node) /\ IsTrace(a, g, b, s)
        BY <2>1, <2>2
      <4>2. SameCalls(g, h, a, s)
        BY <3>1 DEF SameCalls
      <4> QED BY <4>1, <4>2, FoldAgrees
    <3> QED BY <1>2, <2>2, <3>2 DEF VisitBody, b, s
  <2> QED BY <2>3, <2>4
<1> QED BY <1>1, <1>2

(* So the recursive definition of visit defines it.                         *)
LEMMA VisitExists ==
  ASSUME NeighboursAreNodes
  PROVE  /\ visit = [x \in VisitArgs |-> VisitBody(visit, x)]
         /\ \E g : g = [x \in VisitArgs |-> VisitBody(g, x)] /\ \A x \in VisitArgs : Grows(g, x)
<1> DEFINE T == {k \in Nat : \E g : VisitsBelow(g, k)}
<1>1. 0 \in T
  <2>1. \A x \in VisitArgs : Unvisited(x[2]) \in Nat
    BY UnvisitedShrinks DEF VisitArgs
  <2>2. VisitsBelow([x \in VisitArgs |-> {}], 0)
    BY <2>1 DEF VisitsBelow
  <2> QED BY <2>2
<1>2. ASSUME NEW k \in T PROVE k + 1 \in T
  <2>1. k \in Nat /\ k + 1 \in Nat
    OBVIOUS
  <2>2. PICK g : VisitsBelow(g, k)
    OBVIOUS
  <2> DEFINE h == [x \in VisitArgs |-> IF Unvisited(x[2]) < k THEN g[x] ELSE VisitBody(g, x)]
  <2>3. \A y \in VisitArgs : Unvisited(y[2]) < k => h[y] = g[y]
    OBVIOUS
  <2>4. ASSUME NEW x \in VisitArgs, Unvisited(x[2]) < k + 1
        PROVE  Visits(h, x) /\ Grows(h, x)
    <3>1. /\ x[2] \subseteq VisitBody(g, x) /\ VisitBody(g, x) \subseteq Node
          /\ VisitBody(h, x) = VisitBody(g, x)
      <4> HIDE DEF h
      <4> QED BY <2>1, <2>2, <2>3, <2>4, VisitBodyGrows
    <3>2. h[x] = VisitBody(g, x)
      <4>1. CASE Unvisited(x[2]) < k
        <5>1. h[x] = g[x]
          BY <2>3, <4>1
        <5>2. g[x] = VisitBody(g, x)
          BY <2>2, <4>1 DEF VisitsBelow, Visits
        <5> QED BY <5>1, <5>2
      <4>2. CASE ~(Unvisited(x[2]) < k)
        BY <4>2
      <4> QED BY <4>1, <4>2
    <3> HIDE DEF h
    <3> QED BY <3>1, <3>2 DEF Visits, Grows
  <2>5. VisitsBelow(h, k + 1)
    <3> HIDE DEF h
    <3> QED BY <2>4 DEF VisitsBelow
  <2> QED BY <2>1, <2>5
<1>3. T = Nat
  <2>1. T \in SUBSET Nat
    OBVIOUS
  <2> HIDE DEF T
  <2> QED BY <1>1, <1>2, <2>1, NatInd
<1> DEFINE K == Unvisited({}) + 1
<1>4. K \in Nat /\ \A x \in VisitArgs : Unvisited(x[2]) < K
  <2>1. ASSUME NEW x \in VisitArgs PROVE Unvisited({}) \in Nat /\ Unvisited(x[2]) < K
    <3>1. /\ Unvisited({}) \in Nat /\ Unvisited(x[2]) \in Nat
          /\ Unvisited(x[2]) <= Unvisited({})
      BY UnvisitedShrinks DEF VisitArgs
    <3> QED BY <3>1
  <2>2. Unvisited({}) \in Nat
    BY UnvisitedShrinks
  <2> QED BY <2>1, <2>2
<1>5. PICK g : VisitsBelow(g, K)
  <2> HIDE DEF K
  <2>1. T = Nat => K \in T
    <3> HIDE DEF T
    <3> QED BY <1>4
  <2>2. K \in T => \E g : VisitsBelow(g, K)
    OBVIOUS
  <2> QED BY <1>3, <2>1, <2>2
<1>6. \A x \in VisitArgs : Visits(g, x) /\ Grows(g, x)
  <2> HIDE DEF K
  <2> QED BY <1>4, <1>5 DEF VisitsBelow
<1> DEFINE f == [x \in VisitArgs |-> g[x]]
<1>7. ASSUME NEW x \in VisitArgs PROVE f[x] = VisitBody(f, x) /\ Grows(f, x)
  <2>1. VisitsBelow(g, K) /\ K \in Nat /\ Unvisited(x[2]) < K + 1
    <3>1. Unvisited(x[2]) < K /\ Unvisited(x[2]) \in Nat
      BY <1>4, UnvisitedShrinks DEF VisitArgs
    <3> HIDE DEF K
    <3> QED BY <1>4, <1>5, <3>1
  <2>2. \A y \in VisitArgs : f[y] = g[y]
    OBVIOUS
  <2>3. VisitBody(f, x) = VisitBody(g, x)
    <3> HIDE DEF f, K
    <3> QED BY <2>1, <2>2, VisitBodyGrows
  <2> HIDE DEF f
  <2> QED BY <1>6, <2>2, <2>3 DEF Visits, Grows
<1>8. f = [x \in VisitArgs |-> VisitBody(f, x)]
  <2>1. f = [x \in VisitArgs |-> f[x]]
    OBVIOUS
  <2> HIDE DEF f
  <2> QED BY <1>7, <2>1, Zenon
<1>9. visit = CHOOSE h : h = [x \in VisitArgs |-> VisitBody(h, x)]
  BY Zenon DEF visit, VisitArgs, VisitBody, Fold
<1> HIDE DEF f
<1> QED BY <1>7, <1>8, <1>9, Zenon

-----------------------------------------------------------------------------
(* What visit returns: the set that it was called with and, from the node   *)
(* on, what can be reached through others; nothing is left half visited.    *)
StaysIn(J) == J \subseteq Node /\ \A m \in J : Range(Neighbours(m)) \subseteq J

Reached(R, n, V) ==
  /\ V \subseteq R /\ R \subseteq Node
  /\ \A J : StaysIn(J) /\ n \in J => R \subseteq V \cup J

VisitOK(x) ==
  /\ Reached(visit[x], x[1], x[2]) /\ x[1] \in visit[x]
  /\ \A m \in visit[x] \ x[2] : Range(Neighbours(m)) \subseteq visit[x]

(* A call does what the body says.                                          *)
LEMMA VisitIs ==
  ASSUME NeighboursAreNodes, NEW x \in VisitArgs
  PROVE  visit[x] = VisitBody(visit, x)
<1> DEFINE v == visit
<1>1. v = [y \in VisitArgs |-> VisitBody(v, y)]
  BY VisitExists
<1> HIDE DEF v
<1>2. v[x] = VisitBody(v, x)
  BY <1>1, Zenon
<1> QED BY <1>2 DEF v

(* A call grows the set of visited nodes.                                   *)
LEMMA VisitGrows ==
  ASSUME NeighboursAreNodes, NEW k \in Nat
  PROVE  VisitsBelow(visit, k)
<1> DEFINE T == {j \in Nat : VisitsBelow(visit, j)}
<1>1. 0 \in T
  <2>1. \A x \in VisitArgs : Unvisited(x[2]) \in Nat
    BY UnvisitedShrinks DEF VisitArgs
  <2> QED BY <2>1 DEF VisitsBelow
<1>2. ASSUME NEW j \in T PROVE j + 1 \in T
  <2>1. ASSUME NEW x \in VisitArgs, Unvisited(x[2]) < j + 1
        PROVE  Visits(visit, x) /\ Grows(visit, x)
    <3>1. j \in Nat /\ VisitsBelow(visit, j)
      OBVIOUS
    <3>2. x[2] \subseteq VisitBody(visit, x) /\ VisitBody(visit, x) \subseteq Node
      BY <2>1, <3>1, VisitBodyGrows
    <3> QED BY <3>2, VisitIs DEF Visits, Grows
  <2>2. VisitsBelow(visit, j + 1)
    BY <2>1 DEF VisitsBelow
  <2> QED BY <2>2
<1>3. T = Nat
  <2>1. T \in SUBSET Nat
    OBVIOUS
  <2> HIDE DEF T
  <2> QED BY <1>1, <1>2, <2>1, NatInd
<1>4. k \in T
  <2> HIDE DEF T
  <2> QED BY <1>3
<1> QED BY <1>4

(* How far the loop over the neighbours s of n has come with R.             *)
Walked(R, s, j, n, V) ==
  /\ Reached(R, n, V) /\ n \in R
  /\ \A i \in 1 .. j : s[i] \in R
  /\ \A m \in R \ (V \cup {n}) : Range(Neighbours(m)) \subseteq R

(* One round of that loop.                                                  *)
LEMMA WalkOn ==
  ASSUME NEW n \in Node, NEW V \in SUBSET Node, NEW s \in Seq(Node), s = Neighbours(n),
         NEW j \in Nat, j + 1 \in 1 .. Len(s), NEW R, Walked(R, s, j, n, V),
         <<s[j + 1], R>> \in VisitArgs, VisitOK(<<s[j + 1], R>>)
  PROVE  Walked(visit[<<s[j + 1], R>>], s, j + 1, n, V)
<1> DEFINE m == s[j + 1]  y == <<m, R>>
<1>1. PICK Q : Q = visit[y]
  OBVIOUS
<1>2. m \in Range(s) /\ m \in Node /\ R \subseteq Node
  BY DEF Range, VisitArgs
<1>3. /\ R \subseteq Q /\ Q \subseteq Node /\ m \in Q
      /\ \A J : StaysIn(J) /\ m \in J => Q \subseteq R \cup J
      /\ \A o \in Q \ R : Range(Neighbours(o)) \subseteq Q
  <2>1. y[1] = m /\ y[2] = R
    OBVIOUS
  <2> HIDE DEF m, y
  <2> QED BY <1>1, <2>1 DEF VisitOK, Reached, m, y
<1>4. ASSUME NEW J, StaysIn(J), n \in J PROVE Q \subseteq V \cup J
  <2>1. m \in J
    BY <1>2, <1>4 DEF StaysIn
  <2>2. Q \subseteq R \cup J
    BY <1>3, <1>4, <2>1
  <2>3. R \subseteq V \cup J
    BY <1>4 DEF Walked, Reached
  <2> QED BY <2>2, <2>3
<1>5. Reached(Q, n, V) /\ n \in Q
  BY <1>3, <1>4 DEF Walked, Reached
<1>6. \A i \in 1 .. j + 1 : s[i] \in Q
  <2>1. \A i \in 1 .. j + 1 : i \in 1 .. j \/ i = j + 1
    OBVIOUS
  <2>2. \A i \in 1 .. j : s[i] \in R
    BY DEF Walked
  <2> QED BY <1>3, <2>1, <2>2
<1>7. ASSUME NEW o \in Q \ (V \cup {n}) PROVE Range(Neighbours(o)) \subseteq Q
  <2>1. CASE o \in R
    <3>1. Range(Neighbours(o)) \subseteq R
      BY <2>1 DEF Walked
    <3> QED BY <1>3, <3>1
  <2>2. CASE o \notin R
    BY <1>3, <2>2
  <2> QED BY <2>1, <2>2
<1> HIDE DEF m, y
<1>8. Walked(Q, s, j + 1, n, V)
  BY <1>5, <1>6, <1>7 DEF Walked
<1> QED BY <1>1, <1>8 DEF m, y

(* Every call does.                                                         *)
LEMMA VisitReaches ==
  ASSUME NeighboursAreNodes, NEW x \in VisitArgs
  PROVE  VisitOK(x)
<1> DEFINE T == {k \in Nat : \A y \in VisitArgs : Unvisited(y[2]) < k => VisitOK(y)}
<1>1. 0 \in T
  <2>1. \A y \in VisitArgs : Unvisited(y[2]) \in Nat
    BY UnvisitedShrinks DEF VisitArgs
  <2> QED BY <2>1
<1>2. ASSUME NEW k \in T PROVE k + 1 \in T
  <2>1. k \in Nat /\ k + 1 \in Nat
    OBVIOUS
  <2>2. ASSUME NEW y \in VisitArgs, Unvisited(y[2]) < k + 1 PROVE VisitOK(y)
    <3>1. VisitsBelow(visit, k) /\ visit[y] = VisitBody(visit, y)
      BY <2>1, VisitGrows, VisitIs
    <3>2. y[1] \in Node /\ y[2] \in SUBSET Node
      BY DEF VisitArgs
    <3>3. CASE y[1] \in y[2]
      <4>1. visit[y] = y[2]
        BY <3>1, <3>3 DEF VisitBody
      <4> QED BY <3>2, <3>3, <4>1 DEF VisitOK, Reached
    <3>4. CASE y[1] \notin y[2]
      <4> DEFINE n == y[1]  V == y[2]  b == V \cup {n}  s == Neighbours(n)
      <4>1. s \in Seq(Node) /\ Len(s) \in Nat
        BY <3>2 DEF NeighboursAreNodes
      <4>2. PICK a : /\ IsTrace(a, visit, b, s) /\ visit[y] = a[Len(s)]
                     /\ \A j \in 1 .. Len(s) : /\ <<s[j], a[j - 1]>> \in VisitArgs
                                               /\ Unvisited(a[j - 1]) < k
        <5> DEFINE v == visit
        <5>1. VisitsBelow(v, k) /\ v[y] = VisitBody(v, y)
          BY <3>1
        <5> HIDE DEF v, T
        <5>2. PICK a : /\ IsTrace(a, v, b, s) /\ VisitBody(v, y) = a[Len(s)]
                       /\ \A j \in 0 .. Len(s) : b \subseteq a[j] /\ a[j] \subseteq Node
                       /\ \A j \in 1 .. Len(s) : /\ a[j - 1] \subseteq a[j]
                                                 /\ <<s[j], a[j - 1]>> \in VisitArgs
                                                 /\ Unvisited(a[j - 1]) < Unvisited(y[2])
                                                 /\ Unvisited(a[j - 1]) < k
          BY <2>1, <2>2, <3>4, <5>1, VisitCall
        <5>3. IsTrace(a, v, b, s) /\ v[y] = a[Len(s)]
          BY <5>1, <5>2
        <5> QED BY <5>2, <5>3 DEF v
      <4> DEFINE W == {j \in 0 .. Len(s) : Walked(a[j], s, j, n, V)}
      <4>3. 0 \in W
        <5>1. a[0] = b
          BY <4>2 DEF IsTrace
        <5>2. Reached(b, n, V)
          BY <3>2 DEF Reached
        <5>3. \A i \in 1 .. 0 : s[i] \in b
          OBVIOUS
        <5>4. Walked(b, s, 0, n, V)
          BY <5>2, <5>3 DEF Walked
        <5>5. 0 \in 0 .. Len(s)
          BY <4>1
        <5> QED BY <5>1, <5>4, <5>5
      <4>4. ASSUME NEW j \in 0 .. (Len(s) - 1), j \in W PROVE j + 1 \in W
        <5>1. j + 1 \in 1 .. Len(s) /\ j + 1 \in 0 .. Len(s) /\ (j + 1) - 1 = j /\ j \in Nat
          BY <4>1
        <5>2. <<s[j + 1], a[j]>> \in VisitArgs /\ Unvisited(a[j]) < k
          BY <4>2, <5>1
        <5>3. a[j + 1] = visit[<<s[j + 1], a[j]>>]
          BY <4>2, <5>1 DEF IsTrace
        <5>4. VisitOK(<<s[j + 1], a[j]>>)
          <6>1. <<s[j + 1], a[j]>>[2] = a[j]
            OBVIOUS
          <6> QED BY <1>2, <5>2, <6>1
        <5>5. Walked(a[j], s, j, n, V)
          BY <4>4
        <5>6. Walked(visit[<<s[j + 1], a[j]>>], s, j + 1, n, V)
          <6> HIDE DEF n, V
          <6> QED BY <3>2, <4>1, <5>1, <5>2, <5>4, <5>5, WalkOn DEF n, V
        <5> QED BY <5>1, <5>3, <5>6
      <4>5. 0 .. Len(s) \subseteq W
        <5> DEFINE l == Len(s)
        <5>1. l \in Nat /\ 0 \in W /\ \A j \in 0 .. (l - 1) : j \in W => j + 1 \in W
          BY <4>1, <4>3, <4>4
        <5>2. 0 .. l \subseteq W
          <6> HIDE DEF l, W
          <6> QED BY <5>1, UpTo
        <5> QED BY <5>2
      <4>6. Walked(visit[y], s, Len(s), n, V)
        BY <4>1, <4>2, <4>5
      <4>7. Range(s) \subseteq visit[y]
        BY <4>1, <4>6 DEF Walked, Range
      <4> HIDE DEF b, W
      <4> QED BY <4>6, <4>7 DEF Walked, VisitOK
    <3> QED BY <3>3, <3>4
  <2> QED BY <2>1, <2>2
<1>3. T = Nat
  <2>1. T \in SUBSET Nat
    OBVIOUS
  <2> HIDE DEF T
  <2> QED BY <1>1, <1>2, <2>1, NatInd
<1>4. Unvisited(x[2]) \in Nat /\ Unvisited(x[2]) + 1 \in Nat
  BY UnvisitedShrinks DEF VisitArgs
<1>5. Unvisited(x[2]) + 1 \in T
  <2> HIDE DEF T
  <2> QED BY <1>3, <1>4
<1>6. Unvisited(x[2]) < Unvisited(x[2]) + 1
  BY <1>4
<1> QED BY <1>5, <1>6

-----------------------------------------------------------------------------
(* An arc that is in the list of a node is in the list of a node at its     *)
(* other end, as the ID says.                                               *)
Facings(n, id, a, others) ==
  \E m \in Node : m[1] # n[1] /\ m[2] = id /\ a \in Range(others[m])

Paired ==
  \A n \in Node :
    /\ \A a \in Range(outIds[n]) : Facings(n, arcs[a].targetId, a, inIds)
    /\ \A a \in Range(inIds[n]) : Facings(n, arcs[a].sourceId, a, outIds)

(* AddArc enters an arc at two nodes or at none.                            *)
LEMMA AddArcPairs ==
  ASSUME NetInv, Paired, NEW id \in ArcId, NEW a \in NewArcs, AddArc(id, a)
  PROVE  Paired'
<1> DEFINE ends == Ends(a, nodes)
           hitOut(n) == \E e \in ends : e[1] = n
           hitIn(n) == \E e \in ends : e[2] = n
<1>1. /\ id \notin DOMAIN arcs
      /\ arcs' = [i \in DOMAIN arcs \cup {id} |-> IF i = id THEN a ELSE arcs[i]]
      /\ outIds' = [n \in Node |-> IF hitOut(n) THEN AppendNew(outIds[n], id) ELSE outIds[n]]
      /\ inIds' = [n \in Node |-> IF hitIn(n) THEN AppendNew(inIds[n], id) ELSE inIds[n]]
  BY DEF AddArc
<1>2. arcs'[id] = a /\ \A b \in DOMAIN arcs : arcs'[b] = arcs[b]
  BY <1>1
<1>3. \A e \in ends : /\ e[1] \in Node /\ e[1][2] = a.sourceId
                      /\ e[2] \in Node /\ e[2][2] = a.targetId /\ e[1][1] # e[2][1]
  BY DEF Ends, NetInv, NetTypeOK
<1> HIDE DEF ends
<1>4. ASSUME NEW n \in Node
      PROVE  /\ Range(outIds[n]) \subseteq DOMAIN arcs /\ Range(inIds[n]) \subseteq DOMAIN arcs
             /\ Range(outIds[n]) \subseteq Range(outIds'[n]) /\ Range(inIds[n]) \subseteq Range(inIds'[n])
             /\ Range(outIds'[n]) = IF hitOut(n) THEN Range(outIds[n]) \cup {id} ELSE Range(outIds[n])
             /\ Range(inIds'[n]) = IF hitIn(n) THEN Range(inIds[n]) \cup {id} ELSE Range(inIds[n])
  <2>1. /\ inIds[n] \in Seq(DOMAIN arcs \cup {id}) /\ outIds[n] \in Seq(DOMAIN arcs \cup {id})
        /\ inIds[n] \in Seq(DOMAIN arcs) /\ outIds[n] \in Seq(DOMAIN arcs)
    BY SeqOfMore DEF NetInv, NetTypeOK
  <2>2. IsInjective(inIds[n]) /\ IsInjective(outIds[n])
    BY DEF NetInv, ListsOK, Listed
  <2>3. /\ Range(AppendNew(inIds[n], id)) = Range(inIds[n]) \cup {id}
        /\ Range(AppendNew(outIds[n], id)) = Range(outIds[n]) \cup {id}
    <3> DEFINE X == DOMAIN arcs \cup {id}
    <3>1. id \in X /\ inIds[n] \in Seq(X) /\ outIds[n] \in Seq(X)
      BY <2>1
    <3> HIDE DEF X
    <3>2. ASSUME NEW s \in Seq(X), IsInjective(s)
          PROVE  Range(AppendNew(s, id)) = Range(s) \cup {id}
      BY <3>1, <3>2, AppendNewShape
    <3> QED BY <2>2, <3>1, <3>2
  <2>4. Range(outIds[n]) \subseteq DOMAIN arcs /\ Range(inIds[n]) \subseteq DOMAIN arcs
    BY <2>1 DEF Range
  <2> QED BY <1>1, <2>3, <2>4
<1> HIDE DEF hitIn, hitOut
<1>5. ASSUME NEW n \in Node, NEW b \in Range(outIds[n])
      PROVE  Facings(n, arcs'[b].targetId, b, inIds')
  <2>1. PICK m \in Node : m[1] # n[1] /\ m[2] = arcs[b].targetId /\ b \in Range(inIds[m])
    BY <1>5 DEF Paired, Facings
  <2>2. arcs'[b] = arcs[b] /\ b \in Range(inIds'[m])
    <3>1. Range(inIds[m]) \subseteq Range(inIds'[m])
      BY <1>4
    <3>2. b \in DOMAIN arcs
      BY <1>4, <1>5
    <3> QED BY <1>2, <2>1, <3>1, <3>2
  <2> QED BY <2>1, <2>2 DEF Facings
<1>6. ASSUME NEW n \in Node, NEW b \in Range(inIds[n])
      PROVE  Facings(n, arcs'[b].sourceId, b, outIds')
  <2>1. PICK m \in Node : m[1] # n[1] /\ m[2] = arcs[b].sourceId /\ b \in Range(outIds[m])
    BY <1>6 DEF Paired, Facings
  <2>2. arcs'[b] = arcs[b] /\ b \in Range(outIds'[m])
    <3>1. Range(outIds[m]) \subseteq Range(outIds'[m])
      BY <1>4
    <3>2. b \in DOMAIN arcs
      BY <1>4, <1>6
    <3> QED BY <1>2, <2>1, <3>1, <3>2
  <2> QED BY <2>1, <2>2 DEF Facings
<1>7. ASSUME NEW n \in Node, hitOut(n)
      PROVE  Facings(n, arcs'[id].targetId, id, inIds')
  <2>1. PICK e \in ends : e[1] = n
    BY <1>7 DEF hitOut
  <2>2. hitIn(e[2])
    BY DEF hitIn
  <2>3. e[2] \in Node /\ id \in Range(inIds'[e[2]]) /\ e[2][1] # n[1] /\ e[2][2] = a.targetId
    BY <1>3, <1>4, <2>1, <2>2
  <2> QED BY <1>2, <2>3 DEF Facings
<1>8. ASSUME NEW n \in Node, hitIn(n)
      PROVE  Facings(n, arcs'[id].sourceId, id, outIds')
  <2>1. PICK e \in ends : e[2] = n
    BY <1>8 DEF hitIn
  <2>2. hitOut(e[1])
    BY DEF hitOut
  <2>3. e[1] \in Node /\ id \in Range(outIds'[e[1]]) /\ e[1][1] # n[1] /\ e[1][2] = a.sourceId
    BY <1>3, <1>4, <2>1, <2>2
  <2> QED BY <1>2, <2>3 DEF Facings
<1>9. ASSUME NEW n \in Node
      PROVE  /\ \A b \in Range(outIds'[n]) : Facings(n, arcs'[b].targetId, b, inIds')
             /\ \A b \in Range(inIds'[n]) : Facings(n, arcs'[b].sourceId, b, outIds')
  <2>1. /\ \A b \in Range(outIds'[n]) : b \in Range(outIds[n]) \/ (hitOut(n) /\ b = id)
        /\ \A b \in Range(inIds'[n]) : b \in Range(inIds[n]) \/ (hitIn(n) /\ b = id)
    BY <1>4
  <2> QED BY <1>5, <1>6, <1>7, <1>8, <2>1
<1> QED BY <1>9 DEF Paired, Facings

(* Every arc in a list is in one at its other end.                          *)
LEMMA NetSpecPaired == NetSpec => [](NetInv /\ Paired)
<1>1. NetInit => Paired
  <2> SUFFICES ASSUME NetInit PROVE Paired
    OBVIOUS
  <2>1. \A n \in Node : Range(outIds[n]) = {} /\ Range(inIds[n]) = {}
    BY DEF NetInit, Range
  <2> QED BY <2>1 DEF Paired
<1>2. ASSUME NetInv, Paired, [NetNext]_netVars PROVE Paired'
  <2>1. ASSUME UNCHANGED <<inIds, outIds>>, 
               \A n \in Node : \A b \in Range(inIds[n]) \cup Range(outIds[n]) :
                  arcs'[b].sourceId = arcs[b].sourceId /\ arcs'[b].targetId = arcs[b].targetId
        PROVE  Paired'
    <3>1. ASSUME NEW n \in Node
          PROVE  /\ \A b \in Range(outIds[n]) : Facings(n, arcs'[b].targetId, b, inIds)
                 /\ \A b \in Range(inIds[n]) : Facings(n, arcs'[b].sourceId, b, outIds)
      BY <1>2, <2>1 DEF Paired
    <3>2. inIds' = inIds /\ outIds' = outIds
      BY <2>1
    <3> QED BY <3>1, <3>2 DEF Paired, Facings
  <2>2. CASE UNCHANGED netVars
    BY <2>1, <2>2 DEF netVars, listVars
  <2>3. CASE \E n \in Node : AddNode(n)
    BY <2>1, <2>3 DEF AddNode, listVars
  <2>4. CASE \E id \in ArcId, a \in NewArcs : AddArc(id, a)
    BY <1>2, <2>4, AddArcPairs
  <2>5. CASE Resolve
    <3>1. ASSUME NEW n \in Node
          PROVE  Range(inIds[n]) \subseteq DOMAIN arcs /\ Range(outIds[n]) \subseteq DOMAIN arcs
      <4>1. inIds[n] \in Seq(DOMAIN arcs) /\ outIds[n] \in Seq(DOMAIN arcs)
        BY <1>2 DEF NetInv, NetTypeOK
      <4> QED BY <4>1 DEF Range
    <3>2. \A b \in DOMAIN arcs : /\ arcs'[b].sourceId = arcs[b].sourceId
                                 /\ arcs'[b].targetId = arcs[b].targetId
      <4> SUFFICES ASSUME NEW b \in DOMAIN arcs
                   PROVE  /\ arcs'[b].sourceId = arcs[b].sourceId
                          /\ arcs'[b].targetId = arcs[b].targetId
        OBVIOUS
      <4>1. arcs[b] \in Arc
        BY <1>2 DEF NetInv, NetTypeOK
      <4>2. arcs'[b] = [arcs[b] EXCEPT !.source = Lookup(arcs[b].sourceId),
                                       !.target = Lookup(arcs[b].targetId)]
        BY <2>5 DEF Resolve
      <4> QED BY <4>1, <4>2 DEF Arc
    <3> QED BY <2>1, <2>5, <3>1, <3>2 DEF Resolve, listVars
  <2> QED BY <1>2, <2>2, <2>3, <2>4, <2>5 DEF NetNext
<1> QED BY <1>1, <1>2, NetSpecInv, PTL DEF NetSpec

(* What is in a sequence that is made of two.                               *)
LEMMA RangeOfConcat ==
  ASSUME NEW X, NEW s \in Seq(X), NEW t \in Seq(X)
  PROVE  s \o t \in Seq(X) /\ Range(s \o t) = Range(s) \cup Range(t)
<1>1. /\ s \o t \in Seq(X) /\ Len(s \o t) = Len(s) + Len(t)
      /\ Len(s) \in Nat /\ Len(t) \in Nat
  OBVIOUS
<1>2. \A k \in 1 .. Len(s) + Len(t) :
        (s \o t)[k] = IF k <= Len(s) THEN s[k] ELSE t[k - Len(s)]
  OBVIOUS
<1>3. /\ DOMAIN (s \o t) = 1 .. Len(s) + Len(t)
      /\ DOMAIN s = 1 .. Len(s) /\ DOMAIN t = 1 .. Len(t)
  BY <1>1
<1> DEFINE u == s \o t
<1>4. \A k \in DOMAIN u : u[k] \in Range(s) \/ u[k] \in Range(t)
  <2> SUFFICES ASSUME NEW k \in 1 .. Len(s) + Len(t) PROVE u[k] \in Range(s) \cup Range(t)
    BY <1>3
  <2>1. CASE k <= Len(s)
    BY <1>1, <1>2, <1>3, <2>1 DEF Range
  <2>2. CASE ~(k <= Len(s))
    <3>1. k - Len(s) \in 1 .. Len(t)
      BY <1>1, <2>2
    <3>2. u[k] = t[k - Len(s)]
      BY <1>2, <2>2
    <3> QED BY <1>3, <3>1, <3>2 DEF Range
  <2> QED BY <2>1, <2>2
<1>5. \A k \in DOMAIN s : s[k] \in Range(u)
  <2> SUFFICES ASSUME NEW k \in 1 .. Len(s) PROVE s[k] \in Range(u)
    BY <1>3
  <2>1. k \in DOMAIN u /\ u[k] = s[k]
    BY <1>1, <1>2, <1>3
  <2> HIDE DEF u
  <2> QED BY <2>1 DEF Range
<1>6. \A k \in DOMAIN t : t[k] \in Range(u)
  <2> SUFFICES ASSUME NEW k \in 1 .. Len(t) PROVE t[k] \in Range(u)
    BY <1>3
  <2>1. k + Len(s) \in 1 .. Len(s) + Len(t) /\ ~(k + Len(s) <= Len(s)) /\ (k + Len(s)) - Len(s) = k
    BY <1>1
  <2>2. k + Len(s) \in DOMAIN u /\ u[k + Len(s)] = t[k]
    BY <1>2, <1>3, <2>1
  <2> HIDE DEF u
  <2> QED BY <2>2 DEF Range
<1>7. Range(u) = Range(s) \cup Range(t)
  <2> HIDE DEF u
  <2> QED BY <1>4, <1>5, <1>6 DEF Range
<1> QED BY <1>1, <1>7

(* The neighbours of a node are the other ends of its arcs.                 *)
LEMMA NeighboursShape ==
  ASSUME NetInv, NEW n \in Node
  PROVE  /\ Neighbours(n) \in Seq(Node)
         /\ Range(Neighbours(n)) = {arcs[a].target : a \in Range(outArcs[n])}
                                   \cup {arcs[a].source : a \in Range(inArcs[n])}
         /\ Range(Neighbours(n)) \subseteq nodes
<1> DEFINE o == outArcs[n]  i == inArcs[n]
           f == [k \in DOMAIN o |-> arcs[o[k]].target]
           g == [k \in DOMAIN i |-> arcs[i[k]].source]
<1>1. o \in Seq(DOMAIN arcs) /\ i \in Seq(DOMAIN arcs) /\ nodes \subseteq Node
  BY DEF NetInv, NetTypeOK
<1>2. Range(o) \subseteq ResolvedArcs /\ Range(i) \subseteq ResolvedArcs
  BY DEF NetInv, PointersOK, Pointed
<1>3. \A a \in ResolvedArcs : arcs[a].source \in nodes /\ arcs[a].target \in nodes
  BY DEF NetInv, ArcsOK, ArcOK, IsEnd, ResolvedArcs
<1>4. f \in Seq(nodes) /\ Range(f) = {arcs[a].target : a \in Range(o)}
  <2>1. DOMAIN o = 1 .. Len(o) /\ Len(o) \in Nat
    BY <1>1
  <2>2. \A k \in DOMAIN o : o[k] \in Range(o)
    BY DEF Range
  <2>3. f \in [1 .. Len(o) -> nodes]
    BY <1>2, <1>3, <2>1, <2>2
  <2>4. Range(f) = {arcs[a].target : a \in Range(o)}
    BY DEF Range
  <2>5. f \in Seq(nodes)
    <3> HIDE DEF f
    <3> QED BY <2>1, <2>3
  <2> QED BY <2>4, <2>5
<1>5. g \in Seq(nodes) /\ Range(g) = {arcs[a].source : a \in Range(i)}
  <2>1. DOMAIN i = 1 .. Len(i) /\ Len(i) \in Nat
    BY <1>1
  <2>2. \A k \in DOMAIN i : i[k] \in Range(i)
    BY DEF Range
  <2>3. g \in [1 .. Len(i) -> nodes]
    BY <1>2, <1>3, <2>1, <2>2
  <2>4. Range(g) = {arcs[a].source : a \in Range(i)}
    BY DEF Range
  <2>5. g \in Seq(nodes)
    <3> HIDE DEF g
    <3> QED BY <2>1, <2>3
  <2> QED BY <2>4, <2>5
<1>6. Neighbours(n) = f \o g
  BY DEF Neighbours
<1> HIDE DEF f, g, o, i
<1>7. f \o g \in Seq(nodes) /\ Range(f \o g) = Range(f) \cup Range(g)
  BY <1>4, <1>5, RangeOfConcat
<1>8. Range(f) \subseteq nodes /\ Range(g) \subseteq nodes
  BY <1>4, <1>5 DEF Range
<1>9. f \o g \in Seq(Node)
  BY <1>1, <1>7, SeqOfMore
<1> QED BY <1>4, <1>5, <1>6, <1>7, <1>8, <1>9 DEF o, i

(* Where the ends of the arcs are what they should be, both nodes of an arc *)
(* have it.                                                                 *)
LEMMA BothEnds ==
  ASSUME NetInv, Paired, \A n \in nodes : WellTyped(n), NEW n \in nodes
  PROVE  /\ \A a \in Range(outArcs[n]) :
              /\ arcs[a].source = n /\ arcs[a].target \in nodes
              /\ a \in Range(inArcs[arcs[a].target])
         /\ \A a \in Range(inArcs[n]) :
              /\ arcs[a].target = n /\ arcs[a].source \in nodes
              /\ a \in Range(outArcs[arcs[a].source])
<1>1. nodes \subseteq Node /\ n \in Node
  BY DEF NetInv, NetTypeOK
<1>2. \A m \in Node : /\ Range(outArcs[m]) = Range(outIds[m]) \cap ResolvedArcs
                      /\ Range(inArcs[m]) = Range(inIds[m]) \cap ResolvedArcs
  BY DEF NetInv, PointersOK, Pointed
<1>3. ASSUME NEW a \in ResolvedArcs
      PROVE  /\ arcs[a].source \in nodes /\ arcs[a].source[2] = arcs[a].sourceId
             /\ arcs[a].target \in nodes /\ arcs[a].target[2] = arcs[a].targetId
  BY DEF NetInv, ArcsOK, ArcOK, IsEnd, ResolvedArcs
<1>4. ASSUME NEW m \in Node, NEW o \in Node, m[1] # n[1], o[1] # n[1], m[2] = o[2]
      PROVE  m = o
  BY <1>1, <1>4 DEF Node
<1>5. /\ \A a \in Range(outArcs[n]) : arcs[a].source = n /\ arcs[a].target[1] # n[1]
      /\ \A a \in Range(inArcs[n]) : arcs[a].target = n /\ arcs[a].source[1] # n[1]
  BY DEF WellTyped, ArcsOf
<1>6. ASSUME NEW a \in Range(outArcs[n])
      PROVE  arcs[a].target \in nodes /\ a \in Range(inArcs[arcs[a].target])
  <2>1. a \in Range(outIds[n]) /\ a \in ResolvedArcs
    BY <1>1, <1>2, <1>6
  <2>2. PICK m \in Node : m[1] # n[1] /\ m[2] = arcs[a].targetId /\ a \in Range(inIds[m])
    BY <1>1, <2>1 DEF Paired, Facings
  <2>3. arcs[a].target = m
    BY <1>1, <1>3, <1>4, <1>5, <1>6, <2>1, <2>2
  <2> QED BY <1>2, <1>3, <2>1, <2>2, <2>3
<1>7. ASSUME NEW a \in Range(inArcs[n])
      PROVE  arcs[a].source \in nodes /\ a \in Range(outArcs[arcs[a].source])
  <2>1. a \in Range(inIds[n]) /\ a \in ResolvedArcs
    BY <1>1, <1>2, <1>7
  <2>2. PICK m \in Node : m[1] # n[1] /\ m[2] = arcs[a].sourceId /\ a \in Range(outIds[m])
    BY <1>1, <2>1 DEF Paired, Facings
  <2>3. arcs[a].source = m
    BY <1>1, <1>3, <1>4, <1>5, <1>7, <2>1, <2>2
  <2> QED BY <1>2, <1>3, <2>1, <2>2, <2>3
<1> QED BY <1>5, <1>6, <1>7

(* So a search that follows the arcs of each node in both directions and    *)
(* the parts that no edge connects speak of the same.                       *)
LEMMA StaysInIsJoined ==
  ASSUME NetInv, Paired, \A n \in nodes : WellTyped(n), NEW J \in SUBSET nodes
  PROVE  StaysIn(J) <=> Joined(J)
<1>1. nodes \subseteq Node
  BY DEF NetInv, NetTypeOK
<1>2. ASSUME NEW n \in nodes
      PROVE  Range(Neighbours(n)) = {arcs[a].target : a \in Range(outArcs[n])}
                                    \cup {arcs[a].source : a \in Range(inArcs[n])}
  BY <1>1, NeighboursShape
<1>3. ASSUME StaysIn(J), NEW n \in nodes, NEW a \in Range(inArcs[n])
      PROVE  LET e == {arcs[a].source, arcs[a].target} IN e \subseteq J \/ e \cap J = {}
  <2>1. /\ arcs[a].target = n /\ arcs[a].source \in nodes
        /\ a \in Range(outArcs[arcs[a].source])
    BY <1>3, BothEnds
  <2>2. n \in J => arcs[a].source \in J
    BY <1>2, <1>3 DEF StaysIn
  <2>3. arcs[a].source \in J => arcs[a].target \in J
    BY <1>2, <1>3, <2>1 DEF StaysIn
  <2> QED BY <2>1, <2>2, <2>3
<1>4. StaysIn(J) => Joined(J)
  <2> SUFFICES ASSUME StaysIn(J), NEW e \in Edges PROVE e \subseteq J \/ e \cap J = {}
    BY DEF Joined
  <2>1. PICK n \in nodes : \E a \in Range(inArcs[n]) : e = {arcs[a].source, arcs[a].target}
    BY DEF Edges
  <2> QED BY <1>3, <2>1
<1>5. ASSUME NEW n \in nodes, NEW a \in Range(inArcs[n])
      PROVE  {arcs[a].source, arcs[a].target} \in Edges
  BY <1>5 DEF Edges
<1>6. ASSUME Joined(J), NEW n \in J, NEW m \in Range(Neighbours(n)) PROVE m \in J
  <2>1. CASE \E a \in Range(inArcs[n]) : m = arcs[a].source
    <3>1. PICK a \in Range(inArcs[n]) : m = arcs[a].source
      BY <2>1
    <3>2. arcs[a].target = n
      BY <3>1, BothEnds
    <3>3. {arcs[a].source, arcs[a].target} \in Edges
      BY <1>5
    <3> QED BY <1>6, <3>1, <3>2, <3>3 DEF Joined
  <2>2. CASE \E a \in Range(outArcs[n]) : m = arcs[a].target
    <3>1. PICK a \in Range(outArcs[n]) : m = arcs[a].target
      BY <2>2
    <3>2. arcs[a].source = n /\ m \in nodes /\ a \in Range(inArcs[m])
      BY <3>1, BothEnds
    <3>3. {arcs[a].source, arcs[a].target} \in Edges
      BY <1>5, <3>2
    <3> QED BY <1>6, <3>1, <3>2, <3>3 DEF Joined
  <2> QED BY <1>2, <1>6, <2>1, <2>2
<1>7. Joined(J) => StaysIn(J)
  BY <1>1, <1>6 DEF StaysIn
<1> QED BY <1>4, <1>7

(* Sets that no edge leaves can be cut with each other.                     *)
LEMMA JoinedSets ==
  ASSUME NEW S, NEW T, Joined(S), Joined(T)
  PROVE  Joined(S \cap T) /\ Joined(S \ T)
<1> SUFFICES ASSUME NEW e \in Edges
             PROVE  /\ e \subseteq S \cap T \/ e \cap (S \cap T) = {}
                    /\ e \subseteq S \ T \/ e \cap (S \ T) = {}
  BY DEF Joined
<1>1. /\ e \subseteq S \/ e \cap S = {}
      /\ e \subseteq T \/ e \cap T = {}
  BY DEF Joined
<1> QED BY <1>1

(* A visit from a new node finds one part, the one that has the node.       *)
LEMMA VisitFindsPart ==
  ASSUME NetInv, Paired, \A n \in nodes : WellTyped(n),
         NEW W \in SUBSET nodes, Joined(W), NEW n \in nodes \ W
  PROVE  LET R == visit[<<n, W>>] IN
         /\ R \in SUBSET nodes /\ W \subseteq R /\ n \in R /\ Joined(R)
         /\ R \ W \in Parts
         /\ {p \in Parts : p \subseteq R} = {p \in Parts : p \subseteq W} \cup {R \ W}
<1> DEFINE x == <<n, W>>
<1>1. PICK R : R = visit[x]
  OBVIOUS
<1>2. NeighboursAreNodes /\ nodes \subseteq Node /\ x \in VisitArgs
  BY NeighboursShape DEF NeighboursAreNodes, VisitArgs, NetInv, NetTypeOK
<1>3. \A J \in SUBSET nodes : StaysIn(J) <=> Joined(J)
  BY StaysInIsJoined
<1>4. /\ W \subseteq R /\ R \subseteq Node /\ n \in R
      /\ \A J : StaysIn(J) /\ n \in J => R \subseteq W \cup J
      /\ \A m \in R \ W : Range(Neighbours(m)) \subseteq R
  <2>1. VisitOK(x)
    BY <1>2, VisitReaches
  <2>2. x[1] = n /\ x[2] = W
    OBVIOUS
  <2> QED BY <1>1, <2>1, <2>2 DEF VisitOK, Reached
<1>5. R \subseteq nodes
  <2>1. \A m \in nodes : Range(Neighbours(m)) \subseteq nodes
    BY <1>2, NeighboursShape
  <2>2. StaysIn(nodes)
    BY <1>2, <2>1 DEF StaysIn
  <2> QED BY <1>4, <2>2
<1>6. Joined(R)
  <2>1. \A m \in W : Range(Neighbours(m)) \subseteq W
    BY <1>3 DEF StaysIn
  <2>2. StaysIn(R)
    BY <1>4, <2>1 DEF StaysIn
  <2> QED BY <1>3, <1>5, <2>2
<1>7. \A J \in SUBSET nodes : Joined(J) /\ n \in J => R \subseteq W \cup J
  BY <1>3, <1>4
<1> HIDE DEF x
<1> DEFINE P == R \ W
<1>8. Joined(P) /\ P \in SUBSET nodes /\ n \in P
  BY <1>4, <1>5, <1>6, JoinedSets
<1>9. ASSUME NEW m \in SUBSET P, m # {}, m # P, Joined(m) PROVE FALSE
  <2>1. m \in SUBSET nodes /\ P \ m \in SUBSET nodes /\ Joined(P \ m)
    BY <1>8, <1>9, JoinedSets
  <2>2. CASE n \in m
    BY <1>7, <1>9, <2>1, <2>2
  <2>3. CASE n \notin m
    <3>1. R \subseteq W \cup (P \ m)
      BY <1>7, <1>8, <2>1, <2>3
    <3> QED BY <1>9, <3>1
  <2> QED BY <2>2, <2>3
<1>10. P \in Parts
  BY <1>8, <1>9 DEF Parts
<1>11. ASSUME NEW p \in Parts, p \subseteq R, ~(p \subseteq W) PROVE p = P
  <2>1. /\ p \in SUBSET nodes /\ p # {} /\ Joined(p)
        /\ \A m \in SUBSET p : Joined(m) => m = {} \/ m = p
    BY DEF Parts
  <2>2. Joined(p \cap W) /\ p \cap W \in SUBSET p
    BY <2>1, JoinedSets
  <2>3. p \cap W = {}
    BY <1>11, <2>1, <2>2
  <2>4. p \in SUBSET P
    BY <1>11, <2>3
  <2> QED BY <1>9, <2>1, <2>4
<1>12. {p \in Parts : p \subseteq R} = {p \in Parts : p \subseteq W} \cup {P}
  <2>1. P \subseteq R
    OBVIOUS
  <2> HIDE DEF P
  <2> QED BY <1>4, <1>10, <1>11, <2>1
<1>13. /\ R \in SUBSET nodes /\ W \subseteq R /\ n \in R /\ Joined(R)
       /\ R \ W \in Parts
       /\ {p \in Parts : p \subseteq R} = {p \in Parts : p \subseteq W} \cup {R \ W}
  BY <1>4, <1>5, <1>6, <1>10, <1>12
<1> QED BY <1>1, <1>13 DEF x

(* The list of a finite set has its members and no others.                  *)
LEMMA ListOfSet ==
  ASSUME NEW S, IsFiniteSet(S)
  PROVE  SetToSeq(S) \in Seq(S) /\ Range(SetToSeq(S)) = S
<1> DEFINE n == Cardinality(S)
<1>1. n \in Nat /\ ExistsBijection(1 .. n, S)
  BY FS_CardinalityType
<1> HIDE DEF n
<1>2. PICK b : b \in Bijection(1 .. n, S)
  BY <1>1 DEF ExistsBijection
<1>3. b \in [1 .. n -> S] /\ IsInjective(b)
  BY <1>2 DEF Bijection, Injection, IsInjective
<1>4. PICK f : f = SetToSeq(S)
  OBVIOUS
<1>5. f \in [1 .. n -> S] /\ IsInjective(f)
  <2>1. SetToSeq(S) \in [1 .. n -> S] /\ IsInjective(SetToSeq(S))
    BY <1>3, Zenon DEF SetToSeq, n
  <2> QED BY <1>4, <2>1
<1>6. f \in Injection(1 .. n, S)
  BY <1>5 DEF Injection, IsInjective
<1>7. Cardinality(1 .. n) = n
  BY <1>1, FS_Interval
<1>8. f \in Surjection(1 .. n, S)
  BY <1>6, <1>7, FS_Injection DEF n
<1>9. f \in Seq(S) /\ Range(f) = S
  BY <1>1, <1>5, <1>8 DEF Surjection, Range
<1> QED BY <1>4, <1>9

(* A set of indices has a largest one.                                      *)
LEMMA HasMax ==
  ASSUME NEW n \in Nat, NEW S \in SUBSET (1 .. n), S # {}
  PROVE  Max(S) \in S
<1> DEFINE T == {k \in Nat : \A R \in SUBSET (1 .. k) : R # {} => \E x \in R : \A y \in R : y <= x}
<1>1. 0 \in T
  <2>1. 1 .. 0 = {}
    OBVIOUS
  <2>2. \A R \in SUBSET (1 .. 0) : R # {} => \E x \in R : \A y \in R : y <= x
    BY <2>1
  <2> QED BY <2>2
<1>2. ASSUME NEW k \in T PROVE k + 1 \in T
  <2> SUFFICES ASSUME NEW R \in SUBSET (1 .. k + 1), R # {}
               PROVE  \E x \in R : \A y \in R : y <= x
    OBVIOUS
  <2>1. CASE k + 1 \in R
    BY <2>1
  <2>2. CASE k + 1 \notin R
    <3>1. R \in SUBSET (1 .. k)
      BY <2>2
    <3> QED BY <3>1
  <2> QED BY <2>1, <2>2
<1>3. T = Nat
  <2>1. T \in SUBSET Nat
    OBVIOUS
  <2> HIDE DEF T
  <2> QED BY <1>1, <1>2, <2>1, NatInd
<1>4. PICK x \in S : \A y \in S : y <= x
  <2>1. n \in T
    <3> HIDE DEF T
    <3> QED BY <1>3
  <2> QED BY <2>1
<1>5. Max(S) = x
  <2>1. S \in SUBSET Int
    OBVIOUS
  <2> QED BY <1>4, <2>1, MaxIs
<1> QED BY <1>5

-----------------------------------------------------------------------------
(* The loop of Components over s, as the values that it goes through.       *)
NoneYet == [visited |-> {}, count |-> 0]

CountOne(acc, n) ==
  IF n \in acc.visited THEN acc
  ELSE [visited |-> visit[<<n, acc.visited>>], count |-> acc.count + 1]

Counting(a, s) ==
  a[0] = NoneYet /\ \A k \in 1 .. Len(s) : a[k] = CountOne(a[k - 1], s[k])

Counts == [visited : SUBSET Node, count : Nat]

CountAll(s) == FoldLeft(CountOne, NoneYet, s)

(* The recursion of that fold, as the library defines it, exists, since     *)
(* the counts that the loop goes through are such that it can go on.        *)
CountUnrolls(h, s) ==
  h = [S \in SUBSET DOMAIN s |->
         IF S = {} THEN NoneYet ELSE CountOne(h[S \ {Max(S)}], s[Max(S)])]

LEMMA CountDefined ==
  ASSUME NeighboursAreNodes, NEW s \in Seq(Node)
  PROVE  \E h : CountUnrolls(h, s)
<1> DEFINE f == [x \in Node \X Counts |-> CountOne(x[2], x[1])]
           n == Len(s)
<1>1. n \in Nat /\ DOMAIN s = 1 .. n /\ \A i \in DOMAIN s : s[i] \in Node
  OBVIOUS
<1>2. ASSUME NEW m \in Node, NEW c \in Counts
      PROVE  f[<<m, c>>] = CountOne(c, m) /\ CountOne(c, m) \in Counts
  <2>1. c.visited \in SUBSET Node /\ c.count \in Nat
    BY DEF Counts
  <2>2. <<m, c.visited>> \in VisitArgs /\ <<m, c.visited>>[2] = c.visited
    BY <2>1 DEF VisitArgs
  <2>3. visit[<<m, c.visited>>] \in SUBSET Node
    BY <2>2, VisitReaches DEF VisitOK, Reached
  <2>4. CountOne(c, m) \in Counts
    BY <2>1, <2>3 DEF Counts, CountOne
  <2>5. f[<<m, c>>] = CountOne(c, m)
    <3>1. <<m, c>> \in Node \X Counts
      OBVIOUS
    <3>2. <<m, c>>[1] = m /\ <<m, c>>[2] = c
      OBVIOUS
    <3> QED BY <3>1, <3>2
  <2> QED BY <2>4, <2>5
<1> HIDE DEF f, n
<1>3. NoneYet \in Counts
  BY DEF NoneYet, Counts
<1>4. Stable(f, NoneYet, s, Counts)
  BY <1>1, <1>2, <1>3 DEF Stable
<1>5. PICK h : FoldUnrolls(h, f, NoneYet, s) /\ \A S \in SUBSET DOMAIN s : h[S] \in Counts
  <2>1. \E h : /\ FoldUnrolls(h, f, NoneYet, s)
               /\ \A U : Stable(f, NoneYet, s, U) => \A S \in SUBSET DOMAIN s : h[S] \in U
    BY <1>1, FoldDefined
  <2> QED BY <1>4, <2>1
<1>6. ASSUME NEW S \in SUBSET DOMAIN s
      PROVE  (IF S = {} THEN NoneYet ELSE f[<<s[Max(S)], h[S \ {Max(S)}]>>])
             = (IF S = {} THEN NoneYet ELSE CountOne(h[S \ {Max(S)}], s[Max(S)]))
  <2>1. CASE S = {}
    BY <2>1
  <2>2. CASE S # {}
    <3>1. Max(S) \in DOMAIN s /\ S \ {Max(S)} \in SUBSET DOMAIN s
      BY <1>1, <2>2, HasMax
    <3>2. s[Max(S)] \in Node /\ h[S \ {Max(S)}] \in Counts
      BY <1>1, <1>5, <3>1
    <3>3. f[<<s[Max(S)], h[S \ {Max(S)}]>>] = CountOne(h[S \ {Max(S)}], s[Max(S)])
      BY <1>2, <3>2
    <3> QED BY <3>3
  <2> QED BY <2>1, <2>2
<1>7. CountUnrolls(h, s)
  <2>1. h = [S \in SUBSET DOMAIN s |->
               IF S = {} THEN NoneYet ELSE f[<<s[Max(S)], h[S \ {Max(S)}]>>]]
    BY <1>5, Zenon DEF FoldUnrolls
  <2> QED BY <1>6, <2>1, Zenon DEF CountUnrolls
<1> QED BY <1>7

(* So the loop ends with the last value of a trace.                         *)
LEMMA CountTrace ==
  ASSUME NeighboursAreNodes, NEW s \in Seq(Node)
  PROVE  \E a : Counting(a, s) /\ CountAll(s) = a[Len(s)]
<1> DEFINE n == Len(s)
           iter == CHOOSE h : h = [S \in SUBSET DOMAIN s |->
                     IF S = {} THEN NoneYet ELSE CountOne(h[S \ {Max(S)}], s[Max(S)])]
           a == [k \in 0 .. n |-> iter[1 .. k]]
<1>1. n \in Nat /\ DOMAIN s = 1 .. n
  OBVIOUS
<1>2. CountAll(s) = iter[DOMAIN s]
  BY Zenon DEF CountAll, FoldLeft, MapThenFoldSet
<1>3. iter = [S \in SUBSET DOMAIN s |->
                IF S = {} THEN NoneYet ELSE CountOne(iter[S \ {Max(S)}], s[Max(S)])]
  <2> HIDE DEF n
  <2>1. \E h : h = [S \in SUBSET DOMAIN s |->
                      IF S = {} THEN NoneYet ELSE CountOne(h[S \ {Max(S)}], s[Max(S)])]
    <3>1. \E h : CountUnrolls(h, s)
      BY CountDefined
    <3> QED BY <3>1, Zenon DEF CountUnrolls
  <2> QED BY <2>1, Zenon
<1> HIDE DEF iter, n
<1>4. \A S \in SUBSET DOMAIN s :
        iter[S] = IF S = {} THEN NoneYet ELSE CountOne(iter[S \ {Max(S)}], s[Max(S)])
  BY <1>3, Zenon
<1>5. a[0] = NoneYet
  <2>1. 1 .. 0 = {} /\ {} \in SUBSET DOMAIN s
    OBVIOUS
  <2>2. iter[{}] = NoneYet
    BY <1>4, <2>1
  <2> QED BY <1>1, <2>1, <2>2
<1>6. ASSUME NEW k \in 1 .. n PROVE a[k] = CountOne(a[k - 1], s[k])
  <2>1. 1 .. k \in SUBSET DOMAIN s /\ 1 .. k # {} /\ 1 .. k \in SUBSET Int /\ k \in 1 .. k
    <3>1. k \in Nat /\ 1 <= k /\ k <= n
      BY <1>1
    <3>2. 1 .. k \subseteq 1 .. n /\ k \in 1 .. k
      BY <1>1, <3>1
    <3> HIDE DEF a
    <3> QED BY <1>1, <3>2
  <2>2. Max(1 .. k) = k
    <3>1. \A y \in 1 .. k : y <= k
      OBVIOUS
    <3> QED BY <2>1, <3>1, MaxIs
  <2>3. (1 .. k) \ {k} = 1 .. (k - 1)
    OBVIOUS
  <2>4. iter[1 .. k] = CountOne(iter[1 .. (k - 1)], s[k])
    BY <1>4, <2>1, <2>2, <2>3
  <2>5. a[k] = iter[1 .. k] /\ a[k - 1] = iter[1 .. (k - 1)]
    BY <1>1
  <2> QED BY <2>4, <2>5
<1>7. CountAll(s) = a[n]
  BY <1>1, <1>2
<1>8. Counting(a, s)
  <2> HIDE DEF a
  <2> QED BY <1>5, <1>6 DEF Counting, n
<1> QED BY <1>7, <1>8 DEF n

-----------------------------------------------------------------------------
(* How far the loop has come: it has visited whole parts, among them those  *)
(* of the nodes it has seen, and counted them.                              *)
PartsIn(W) == {p \in Parts : p \subseteq W}

CountedSoFar(acc, s, k) ==
  /\ acc.visited \in SUBSET nodes /\ Joined(acc.visited)
  /\ \A i \in 1 .. k : s[i] \in acc.visited
  /\ acc.count = Cardinality(PartsIn(acc.visited))

(* There are finitely many parts.                                           *)
LEMMA PartsFinite ==
  ASSUME NetInv, NEW W
  PROVE  IsFiniteSet(Parts) /\ IsFiniteSet(PartsIn(W))
<1>1. IsFiniteSet(nodes)
  BY NodesFinite, FS_Subset DEF NetInv, NetTypeOK
<1>2. IsFiniteSet(SUBSET nodes)
  BY <1>1, FS_SUBSET
<1>3. Parts \subseteq SUBSET nodes /\ PartsIn(W) \subseteq SUBSET nodes
  BY DEF Parts, PartsIn
<1> QED BY <1>2, <1>3, FS_Subset

(* One round of the loop counts the part that it visits, a new one.         *)
LEMMA CountOn ==
  ASSUME NetInv, Paired, \A n \in nodes : WellTyped(n), NEW s \in Seq(nodes),
         NEW k \in Nat, k + 1 \in 1 .. Len(s), NEW acc, CountedSoFar(acc, s, k)
  PROVE  CountedSoFar(CountOne(acc, s[k + 1]), s, k + 1)
<1> DEFINE n == s[k + 1]  W == acc.visited  R == visit[<<n, W>>]
<1>1. n \in nodes /\ W \in SUBSET nodes /\ Joined(W)
  BY DEF CountedSoFar
<1>2. /\ \A i \in 1 .. k + 1 : i \in 1 .. k \/ i = k + 1
      /\ \A i \in 1 .. k : s[i] \in W
  BY DEF CountedSoFar
<1>3. CASE n \in W
  BY <1>1, <1>2, <1>3 DEF CountOne, CountedSoFar
<1>4. CASE n \notin W
  <2>1. /\ R \in SUBSET nodes /\ W \subseteq R /\ n \in R /\ Joined(R)
        /\ PartsIn(R) = PartsIn(W) \cup {R \ W}
    <3> HIDE DEF n, W
    <3> QED BY <1>1, <1>4, VisitFindsPart DEF PartsIn
  <2> HIDE DEF n, R, W
  <2>2. R \ W \notin PartsIn(W)
    BY <1>4, <2>1 DEF PartsIn
  <2>3. Cardinality(PartsIn(R)) = Cardinality(PartsIn(W)) + 1
    <3> DEFINE P == PartsIn(W)  x == R \ W
    <3>1. IsFiniteSet(P)
      BY PartsFinite
    <3> HIDE DEF P, x
    <3>2. Cardinality(P \cup {x}) = IF x \in P THEN Cardinality(P) ELSE Cardinality(P) + 1
      BY <3>1, FS_AddElement
    <3> QED BY <2>1, <2>2, <3>2 DEF P, x
  <2>4. CountOne(acc, n) = [visited |-> R, count |-> acc.count + 1]
    BY <1>4 DEF CountOne, R, W
  <2>5. acc.count = Cardinality(PartsIn(W))
    BY DEF CountedSoFar, W
  <2>6. \A i \in 1 .. k + 1 : s[i] \in R
    BY <1>2, <2>1 DEF n
  <2>7. CountedSoFar(CountOne(acc, n), s, k + 1)
    <3>1. PICK c : c = CountOne(acc, n)
      OBVIOUS
    <3>2. c.visited = R /\ c.count = Cardinality(PartsIn(R))
      BY <2>3, <2>4, <2>5, <3>1
    <3>3. CountedSoFar(c, s, k + 1)
      BY <2>1, <2>6, <3>2 DEF CountedSoFar
    <3> QED BY <3>1, <3>3
  <2> QED BY <2>7 DEF n
<1> QED BY <1>3, <1>4

(* So each part is counted, once.                                           *)
LEMMA PartsCounted ==
  ASSUME NetInv, Paired, \A n \in nodes : WellTyped(n),
         NEW s \in Seq(nodes), Range(s) = nodes
  PROVE  CountAll(s).count = Cardinality(Parts)
<1> DEFINE l == Len(s)
<1>1. l \in Nat /\ s \in Seq(Node) /\ nodes \subseteq Node
  BY SeqOfMore DEF NetInv, NetTypeOK
<1>2. NeighboursAreNodes
  BY NeighboursShape DEF NeighboursAreNodes
<1>3. PICK a : Counting(a, s) /\ CountAll(s) = a[l]
  BY <1>1, <1>2, CountTrace
<1> DEFINE T == {k \in 0 .. l : CountedSoFar(a[k], s, k)}
<1>4. 0 \in T
  <2>1. a[0] = NoneYet
    BY <1>3 DEF Counting
  <2>2. PartsIn({}) = {}
    BY DEF PartsIn, Parts
  <2>3. CountedSoFar(NoneYet, s, 0)
    BY <2>2, FS_EmptySet DEF CountedSoFar, NoneYet, Joined
  <2> QED BY <1>1, <2>1, <2>3
<1>5. ASSUME NEW k \in 0 .. (l - 1), k \in T PROVE k + 1 \in T
  <2>1. k \in Nat /\ k + 1 \in 1 .. l /\ k + 1 \in 0 .. l /\ (k + 1) - 1 = k
    BY <1>1
  <2>2. CountedSoFar(a[k], s, k)
    BY <1>5
  <2>3. CountedSoFar(CountOne(a[k], s[k + 1]), s, k + 1)
    BY <2>1, <2>2, CountOn
  <2>4. a[k + 1] = CountOne(a[k], s[k + 1])
    BY <1>3, <2>1 DEF Counting
  <2> QED BY <2>1, <2>3, <2>4
<1>6. 0 .. l \subseteq T
  <2> HIDE DEF T, l
  <2> QED BY <1>1, <1>4, <1>5, UpTo
<1>7. CountedSoFar(a[l], s, l)
  BY <1>1, <1>6
<1>8. a[l].visited = nodes
  <2>1. \A n \in nodes : \E i \in 1 .. l : s[i] = n
    BY <1>1 DEF Range
  <2> QED BY <1>7, <2>1 DEF CountedSoFar
<1>9. PartsIn(nodes) = Parts
  BY DEF PartsIn, Parts
<1> QED BY <1>3, <1>7, <1>8, <1>9 DEF CountedSoFar

(* The places and then the transitions are all the nodes.                   *)
LEMMA ComponentsAreParts ==
  ASSUME NetInv, Paired
  PROVE  ComponentsExact
<1> SUFFICES ASSUME \A n \in nodes : WellTyped(n)
             PROVE  Components = Cardinality(Parts)
  BY DEF ComponentsExact
<1> DEFINE P == PlacesOf(nodes)  T == TransitionsOf(nodes)
           s == SetToSeq(P) \o SetToSeq(T)
<1>1. nodes \subseteq Node /\ P \subseteq nodes /\ T \subseteq nodes /\ P \cup T = nodes
  BY DEF PlacesOf, TransitionsOf, NetInv, NetTypeOK, Node
<1>2. IsFiniteSet(P) /\ IsFiniteSet(T)
  BY <1>1, NodesFinite, FS_Subset
<1> HIDE DEF P, T
<1>3. /\ SetToSeq(P) \in Seq(nodes) /\ Range(SetToSeq(P)) = P
      /\ SetToSeq(T) \in Seq(nodes) /\ Range(SetToSeq(T)) = T
  <2>1. /\ SetToSeq(P) \in Seq(P) /\ Range(SetToSeq(P)) = P
        /\ SetToSeq(T) \in Seq(T) /\ Range(SetToSeq(T)) = T
    BY <1>2, ListOfSet
  <2> QED BY <1>1, <2>1, SeqOfMore
<1>4. s \in Seq(nodes) /\ Range(s) = nodes
  <2> DEFINE p == SetToSeq(P)  t == SetToSeq(T)
  <2>1. p \in Seq(nodes) /\ t \in Seq(nodes) /\ Range(p) \cup Range(t) = nodes
    BY <1>1, <1>3
  <2> HIDE DEF p, t
  <2>2. p \o t \in Seq(nodes) /\ Range(p \o t) = Range(p) \cup Range(t)
    BY <2>1, RangeOfConcat
  <2> QED BY <2>1, <2>2 DEF p, t
<1>5. Components = CountAll(s).count
  BY Zenon DEF Components, CountAll, CountOne, NoneYet, P, T
<1> HIDE DEF s
<1> QED BY <1>4, <1>5, PartsCounted

(* connected_components is the number of parts that no arc of the resolved  *)
(* net connects, wherever the search begins (checkConnectivity in           *)
(* dryrun.go).                                                              *)
THEOREM ComponentsCounted == NetSpec => []ComponentsExact
<1>1. NetInv /\ Paired => ComponentsExact
  BY ComponentsAreParts
<1> QED BY <1>1, NetSpecPaired, PTL

=============================================================================
