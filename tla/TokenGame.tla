----------------------------- MODULE TokenGame ------------------------------
(***************************************************************************)
(* What firing promises, without channels, peeks or locks: the token game  *)
(* of a Petri net in which a firing takes its input tokens in one step,    *)
(* runs, and then either puts its output tokens into the net one by one or *)
(* gives its input tokens back.  A token may disappear only when a place   *)
(* refuses it.                                                             *)
(***************************************************************************)
EXTENDS Integers

CONSTANTS
  Thread,         \* goroutines that fire
  Place,
  Transition,
  Pre, Post,      \* Pre[t][p], Post[t][p]: tokens that t takes from, puts into p
  Capacity,       \* Capacity[p]
  Limited,        \* TRUE when the net has a GlobalCapacity
  InitialMarking,
  None

VARIABLES
  marking,        \* marking[p]: number of tokens in p
  firing          \* firing[th]: the transition th fires and what it put back so far

gameVars == <<marking, firing>>

GameTypeOK ==
  /\ marking \in [Place -> Nat]
  /\ firing \in [Thread -> {None} \cup [trans : Transition, made : [Place -> Nat]]]

GameInit ==
  /\ marking = InitialMarking
  /\ firing = [th \in Thread |-> None]

(* A place refuses a token when it is full or the whole net is.             *)
Refuses(p) == marking[p] >= Capacity[p] \/ Limited

(* All inputs at once, and only one firing of a transition at a time.       *)
Start(th, t) ==
  /\ firing[th] = None
  /\ \A u \in Thread : firing[u] # None => firing[u].trans # t
  /\ \A p \in Place : marking[p] >= Pre[t][p]
  /\ marking' = [p \in Place |-> marking[p] - Pre[t][p]]
  /\ firing' = [firing EXCEPT ![th] = [trans |-> t, made |-> [p \in Place |-> 0]]]

Put(th, p) ==
  /\ firing[th] # None
  /\ firing[th].made[p] < Post[firing[th].trans][p]
  /\ marking' = [marking EXCEPT ![p] = @ + 1]
  /\ firing' = [firing EXCEPT ![th].made[p] = @ + 1]

Commit(th) ==
  /\ firing[th] # None
  /\ firing[th].made = Post[firing[th].trans]
  /\ firing' = [firing EXCEPT ![th] = None]
  /\ UNCHANGED marking

(* The task failed before any output was produced: everything goes back.    *)
Abort(th) ==
  /\ firing[th] # None
  /\ firing[th].made = [p \in Place |-> 0]
  /\ marking' = [p \in Place |-> marking[p] + Pre[firing[th].trans][p]]
  /\ firing' = [firing EXCEPT ![th] = None]

(* A refused output ends the firing; its inputs are gone.                   *)
Fail(th) ==
  /\ firing[th] # None
  /\ \E p \in Place : /\ firing[th].made[p] < Post[firing[th].trans][p]
                      /\ Refuses(p)
  /\ firing' = [firing EXCEPT ![th] = None]
  /\ UNCHANGED marking

(* A token that was going back is refused.                                  *)
Lose(p) ==
  /\ Refuses(p)
  /\ marking[p] > 0
  /\ marking' = [marking EXCEPT ![p] = @ - 1]
  /\ UNCHANGED firing

GameNext ==
  \/ \E th \in Thread :
       \/ \E t \in Transition : Start(th, t)
       \/ \E p \in Place : Put(th, p)
       \/ Commit(th) \/ Abort(th) \/ Fail(th)
  \/ \E p \in Place : Lose(p)

GameSpec == GameInit /\ [][GameNext]_gameVars
=============================================================================
