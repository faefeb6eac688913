------------------------------ MODULE Verifier -------------------------------
(***************************************************************************)
(* The checks of the verifier over a state space (verification/            *)
(* properties.go, safety.go), with the search for a witness, the warnings  *)
(* of DryRun (engine/dryrun.go), and then the verified workflow at work:   *)
(* its firings are those of TokenGame, which Executor implements.          *)
(***************************************************************************)
EXTENDS StateSpace, FiniteSetsExt

CONSTANTS
  Terminals,      \* the sets of places that may be marked IsTerminal
  Checks,         \* the checks a caller may ask for
  Capacity,
  Thread,
  None

(* What a check of each kind asks for; the places it names are in the net.  *)
CheckOK(c) ==
  \/ c.kind \in {"deadlock", "reachability"}
  \/ c.kind = "invariant" /\ c.bound \in Int
     /\ \E S \in SUBSET Place : c.coefficients \in [S -> Int]
  \/ c.kind = "mutex" /\ {c.placeA, c.placeB} \subseteq Place
  \/ c.kind = "bounded" /\ c.place \in Place /\ c.maxTokens \in Int

ASSUME VerifierAssumption ==
  /\ IsFiniteSet(Place)
  /\ Terminals \subseteq SUBSET Place
  /\ Capacity \in [Place -> Nat \ {0}]
  /\ \A c \in Checks : CheckOK(c)
  /\ None \notin Checks /\ None \notin [trans : Transition, made : [Place -> Nat]]

VARIABLES
  terminal,       \* Place.IsTerminal
  check,          \* the check that was asked for
  search,         \* the locals of findPath
  result,         \* VerificationResult
  marking, firing \* of TokenGame

gameVars == <<marking, firing>>
vars == <<spaceVars, terminal, check, search, result, gameVars>>

Game == INSTANCE TokenGame WITH Limited <- FALSE, InitialMarking <- [p \in Place |-> 0]

NoSearch == [queue |-> <<>>, k |-> 1, visited |-> {1}, target |-> 0]
NoResult == [pc |-> "none", satisfied |-> TRUE, witness |-> <<>>]

Init ==
  /\ SpaceInit
  /\ terminal \in Terminals
  /\ check = None /\ search = NoSearch /\ result = NoResult
  /\ marking = initial
  /\ firing = [th \in Thread |-> None]

TypeOK ==
  /\ SpaceTypeOK
  /\ terminal \in Terminals /\ check \in Checks \cup {None}
  /\ search.visited \subseteq 1..Len(states) /\ search.target \in 0..Len(states)
  /\ \A i \in DOMAIN search.queue :
       search.queue[i].id \in search.visited /\ search.queue[i].path \in Seq(Transition)
  /\ result.pc \in {"none", "search", "ready"} /\ result.satisfied \in BOOLEAN
  /\ Game!GameTypeOK

-----------------------------------------------------------------------------
(* The states that a check looks for.                                       *)

enabledNone(m) == \A t \in Transition : ~isEnabledAt(t, m)

(* Mutant: a marking with a token in a terminal place is terminal.          *)
isTerminalStateIfAny(m) ==
  (\A p \in Place : m[p] <= 0) \/ \E p \in terminal : m[p] > 0

(* There are no tokens, or all tokens are in terminal places.               *)
isTerminalState(m) == \A p \in Place : m[p] > 0 => p \in terminal

(* The sum of the integers y[p]: what is above 0 less what is below.        *)
Units(y) == UNION {{p} \X (1..y[p]) : p \in DOMAIN y}

SumOver(y) == Cardinality(Units(y)) - Cardinality(Units([p \in DOMAIN y |-> -y[p]]))

Hit(c, m) ==
  \/ c.kind = "deadlock" /\ enabledNone(m) /\ ~isTerminalState(m)
  \/ c.kind = "reachability" /\ \A p \in DOMAIN c.target : m[p] = c.target[p]
  \/ c.kind = "invariant"
     /\ SumOver([p \in DOMAIN c.coefficients |-> c.coefficients[p] * m[p]]) > c.bound
  \/ c.kind = "mutex" /\ m[c.placeA] > 0 /\ m[c.placeB] > 0
  \/ c.kind = "bounded" /\ m[c.place] > c.maxTokens

(* The state that the loop over ss.States stops at.                         *)
Hits(c) == {i \in 1..Len(states) : Hit(c, states[i])}

OnlyCheck == UNCHANGED <<spaceVars, terminal, gameVars>>

(* A check: satisfied unless a state is hit, the other way round for a      *)
(* reachability check; findPath returns nil at once for the initial state.  *)
Check(c) ==
  LET satisfied == (Hits(c) = {}) # (c.kind = "reachability") IN
  /\ built /\ result.pc = "none"
  /\ check' = c
  /\ IF Hits(c) \subseteq {1}
     THEN /\ result' = [pc |-> "ready", satisfied |-> satisfied, witness |-> <<>>]
          /\ UNCHANGED search
     ELSE /\ result' = [pc |-> IF 1 \in Hits(c) THEN "ready" ELSE "search",
                        satisfied |-> satisfied, witness |-> <<>>]
          /\ search' = IF 1 \in Hits(c) THEN search
                       ELSE [search EXCEPT !.queue = <<[id |-> 1, path |-> <<>>]>>,
                                           !.target = Min(Hits(c))]
  /\ OnlyCheck

(* findPath: breadth-first along the edges, k the next edge of the state    *)
(* at the head of the queue.  Its return without a path, when the queue is  *)
(* empty, has no action: WitnessReplays says that it does not happen.       *)
Searching == result.pc = "search" /\ search.queue # <<>>

Found(path) ==
  /\ result' = [result EXCEPT !.pc = "ready", !.witness = path]
  /\ search' = NoSearch

(* Mutant: the path that is stored leaves out the edge that is followed.    *)
SearchEdgeForgotten ==
  LET node == Head(search.queue)
      edge == edges[node.id][search.k] IN
  /\ Searching /\ search.k <= Len(edges[node.id])
  /\ IF edge.to = search.target
     THEN Found(Append(node.path, edge.via))
     ELSE /\ search' = [search EXCEPT !.k = @ + 1, !.visited = @ \cup {edge.to},
                          !.queue = IF edge.to \in search.visited THEN @
                                    ELSE Append(@, [id |-> edge.to, path |-> node.path])]
          /\ UNCHANGED result
  /\ OnlyCheck /\ UNCHANGED check

SearchEdge ==
  LET node == Head(search.queue)
      edge == edges[node.id][search.k]
      path == Append(node.path, edge.via) IN
  /\ Searching /\ search.k <= Len(edges[node.id])
  /\ IF edge.to \in search.visited
     THEN search' = [search EXCEPT !.k = @ + 1] /\ UNCHANGED result
     ELSE IF edge.to = search.target THEN Found(path)
     ELSE /\ search' = [search EXCEPT !.k = @ + 1, !.visited = @ \cup {edge.to},
                          !.queue = Append(@, [id |-> edge.to, path |-> path])]
          /\ UNCHANGED result
  /\ OnlyCheck /\ UNCHANGED check

SearchPop ==
  /\ Searching /\ search.k > Len(edges[Head(search.queue).id])
  /\ search' = [search EXCEPT !.k = 1, !.queue = Tail(@)]
  /\ OnlyCheck /\ UNCHANGED <<check, result>>

-----------------------------------------------------------------------------
(* DryRun, on the net as it stands before it runs.                          *)

HasIncoming(p) == \E t \in Transition : Post[t][p] > 0

(* Mutant: a place that is empty now is empty for ever.                     *)
UnreachablePlaceIfEmpty(p) == initial[p] = 0

(* "unreachable_place": "it will always be empty"                           *)
UnreachablePlace(p) == ~HasIncoming(p) /\ initial[p] = 0

(* "potentially_unreachable_transition"                                     *)
UnreachableTransition(t) ==
  HasInput(t) /\ \A p \in Place : Needs[t][p] > 0 => UnreachablePlace(p)

-----------------------------------------------------------------------------
(* The workflow runs after it was verified, if the graph is complete.       *)
(* (Game!Lose, a rollback that a full place refuses, is left to Executor.)  *)
RunStep ==
  /\ result.pc = "ready" /\ ~err
  /\ \E th \in Thread :
       \/ \E t \in Transition : Game!Start(th, t)
       \/ \E p \in Place : Game!Put(th, p)
       \/ Game!Commit(th) \/ Game!Abort(th) \/ Game!Fail(th)
  /\ UNCHANGED <<spaceVars, terminal, check, search, result>>

VerifierStep ==
  \/ \E c \in Checks : Check(c)
  \/ SearchEdge \/ SearchPop

Next ==
  \/ BuildStep /\ UNCHANGED <<terminal, check, search, result, gameVars>>
  \/ VerifierStep
  \/ RunStep

Spec == Init /\ [][Next]_vars

-----------------------------------------------------------------------------
(* The marking when the first n transitions of path have fired.             *)
After(path, n) ==
  [p \in Place |-> initial[p] + SumOver([k \in 1..n |-> Post[path[k]][p] - Pre[path[k]][p]])]

Replays(path, c) ==
  /\ \A n \in 1..Len(path) : isEnabledAt(path[n], After(path, n - 1))
  /\ Hit(c, After(path, Len(path)))

(* The witness of a verdict is a run of the workflow: fired one after the   *)
(* other from the initial marking, its transitions are enabled and lead to  *)
(* a marking of the kind the check looks for.  It exists for every hit,     *)
(* even in a graph that the limit has cut off: the search for it does not   *)
(* run dry.                                                                 *)
WitnessReplays ==
  /\ result.pc = "search" => search.queue # <<>>
  /\ result.pc = "ready" /\ Hits(check) # {} => Replays(result.witness, check)

WithinCapacity ==
  \A i \in 1..Len(states), p \in Place : states[i][p] <= Capacity[p]

Stuck ==
  /\ \A t \in Transition : \E p \in Place : marking[p] < Pre[t][p]
  /\ \E p \in Place \ terminal : marking[p] > 0

AtRest == \A th \in Thread : firing[th] = None

(* A bound on tokens: more tokens break it and fewer do not.                *)
BoundsTokens(c) ==
  \/ c.kind \in {"mutex", "bounded"}
  \/ c.kind = "invariant" /\ \A p \in DOMAIN c.coefficients : c.coefficients[p] >= 0

(* What the verifier found of the whole graph holds while the workflow      *)
(* runs, also in the middle of concurrent firings and when tasks fail:      *)
(* bounds on tokens at every instant, freedom of deadlock whenever no       *)
(* firing is under way and the places are large enough for the verified     *)
(* markings.  (A transition without inputs is not verified; an invariant    *)
(* with a negative coefficient may be broken in the middle of a firing; and *)
(* where two arcs connect the same place and transition, isEnabledAt finds  *)
(* a transition enabled that lacks tokens to fire.)                         *)
VerdictHoldsInRuns ==
  /\ result.pc = "ready" /\ ~err /\ result.satisfied
  /\ \A t \in Transition : HasInput(t)
  => /\ BoundsTokens(check) => ~Hit(check, marking)
     /\ check.kind = "deadlock" /\ Needs = Pre /\ WithinCapacity /\ AtRest => ~Stuck

(* A place that DryRun calls always empty never gets a token, and a         *)
(* transition that it calls unreachable never starts.                       *)
WarningsHold ==
  /\ \A p \in Place : UnreachablePlace(p) => marking[p] = 0
  /\ \A th \in Thread : firing[th] # None => ~UnreachableTransition(firing[th].trans)
=============================================================================
