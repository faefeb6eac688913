------------------------------ MODULE Executor ------------------------------
(***************************************************************************)
(* Firing transitions (petri/executor.go, petri/transition.go) on the      *)
(* places of PlaceChannel.  Several threads call Fire, FireUnchecked and   *)
(* BatchFire of any transition at once.  A firing is not one step: it      *)
(* peeks at each input place (IsEnabled), evaluates the guard, removes the *)
(* input tokens one by one, runs the task and adds the output tokens one   *)
(* by one; every one of these is a call of PlaceChannel that interleaves   *)
(* with those of the other threads.  Only fireMu, one lock for each        *)
(* transition, is held over the whole of it.                               *)
(*                                                                         *)
(* fire[th].pc names the phase of the firing of th; in the phases that     *)
(* call a place, call[th] is that call, and the phase continues when it is *)
(* done.                                                                   *)
(***************************************************************************)
EXTENDS PlaceChannel, SequencesExt

CONSTANTS
  Transition,
  InputArcs,      \* InputArcs[t]: sequence of [place, weight]
  OutputArcs,     \* OutputArcs[t]: sequence of [place, weight, expr]
  Guarded,        \* the transitions with a guard
  Tasked,         \* the transitions with a task
  EmptyToken,     \* the token made when there is no input token
  InitialTokens,
  BatchSize,      \* the argument of BatchFire
  MaxCalls        \* bound on the calls of Fire, FireUnchecked and BatchFire

(* NewArc turns a weight <= 0 into 1; expr is the identity for an arc       *)
(* without an expression.                                                   *)
ASSUME ExecutorAssumption ==
  /\ \A t \in Transition :
       /\ InputArcs[t] \in Seq([place : Place, weight : Nat \ {0}])
       /\ OutputArcs[t] \in Seq([place : Place, weight : Nat \ {0},
                                 expr : [Token -> Token]])
  /\ Guarded \subseteq Transition /\ Tasked \subseteq Transition
  /\ EmptyToken \in Token
  /\ InitialTokens \in [Place -> Seq(Token)]
  /\ \A p \in Place : Len(InitialTokens[p]) <= Capacity[p]
  /\ BatchSize \in Nat \ {0} /\ MaxCalls \in Nat
  /\ None \notin Transition /\ IsFiniteSet(Transition)
  /\ None \notin [trans : Transition, made : [Place -> Nat]]

VARIABLES
  fire,         \* fire[th]: the firing th executes
  fireMu,       \* fireMu[t]: the thread that holds Transition.fireMu, or None
  calls,        \* number of calls started so far
  committed,    \* history: committed[t]: firings of t that returned nil
  leaked,       \* history: a token that a firing held was refused by a place
  interfered    \* history: threads whose input places another thread has used
                \* since they began to check

fireVars == <<fire, fireMu, calls, committed, leaked>>
vars == <<placeVars, fireVars, interfered>>

-----------------------------------------------------------------------------

Phases == {"idle", "lock", "check", "guard", "consume", "task", "rollback",
           "produce"}

(* arc and n are the loop variables of the phase: the arc, and how many of  *)
(* its tokens are done; snapshot is what the guard gets, inputs the slice   *)
(* of consumedToken; left counts the iterations BatchFire still has.        *)
FireType ==
  [pc       : Phases,
   mode     : {"Fire", "FireUnchecked", "BatchFire"},
   t        : Transition \cup {None},
   left     : Nat,
   arc      : Nat,
   n        : Nat,
   snapshot : Seq(Token),
   inputs   : Seq([tok : Token, place : Place])]

NewFire(pc, mode, t, left) ==
  [pc |-> pc, mode |-> mode, t |-> t, left |-> left, arc |-> 1, n |-> 0,
   snapshot |-> <<>>, inputs |-> <<>>]

Idle == NewFire("idle", "Fire", None, 0)

(* The next phase of th, with its loop at the first arc.                    *)
Phase(f, pc) == [f EXCEPT !.pc = pc, !.arc = 1, !.n = 0]

(* One more token of the current arc.                                       *)
Advance(f, arcs) ==
  IF f.n + 1 < arcs[f.arc].weight THEN [f EXCEPT !.n = @ + 1]
  ELSE [f EXCEPT !.arc = @ + 1, !.n = 0]

SetFire(th, f) == fire' = [fire EXCEPT ![th] = f]

Unlock(th, t) == fireMu' = [fireMu EXCEPT ![t] = None]

-----------------------------------------------------------------------------
(* Where a loop goes on.  Each takes the record f of th and starts the      *)
(* place call of the current arc, or leaves the loop.                       *)

(* Mutant: IsEnabled peeks one token for each arc, whatever its weight.     *)
CheckFromIgnoringWeight(th, f) ==
  LET arcs == InputArcs[f.t] IN
  IF f.arc <= Len(arcs)
  THEN /\ SetFire(th, [f EXCEPT !.pc = "check"])
       /\ CallPeekTokensWithCount(th, arcs[f.arc].place, 1)
  ELSE SetFire(th, [f EXCEPT !.pc = "guard"]) /\ UNCHANGED call

CheckFrom(th, f) ==
  LET arcs == InputArcs[f.t] IN
  IF f.arc <= Len(arcs)
  THEN /\ SetFire(th, [f EXCEPT !.pc = "check"])
       /\ CallPeekTokensWithCount(th, arcs[f.arc].place, arcs[f.arc].weight)
  ELSE SetFire(th, [f EXCEPT !.pc = "guard"]) /\ UNCHANGED call

ConsumeFrom(th, f) ==
  LET arcs == InputArcs[f.t] IN
  IF f.arc <= Len(arcs)
  THEN /\ SetFire(th, [f EXCEPT !.pc = "consume"])
       /\ CallRemoveToken(th, arcs[f.arc].place)
  ELSE SetFire(th, [f EXCEPT !.pc = "task"]) /\ UNCHANGED call

(* The end of fireInternal.  BatchFire releases fireMu between its          *)
(* iterations and checks again; it stops at the first error.                *)
Finish(th, f, ok) ==
  /\ Unlock(th, f.t)
  /\ IF ok /\ f.mode = "BatchFire" /\ f.left > 1
     THEN CheckFrom(th, NewFire("check", f.mode, f.t, f.left - 1))
     ELSE SetFire(th, Idle) /\ UNCHANGED call

(* Mutant: the consumed tokens are forgotten.                               *)
RollbackFromForgetting(th, f) == Finish(th, f, FALSE)

(* rollbackTokens: from the last consumed token to the first.               *)
RollbackFrom(th, f) ==
  IF f.inputs = <<>> THEN Finish(th, f, FALSE)
  ELSE /\ SetFire(th, [f EXCEPT !.pc = "rollback"])
       /\ CallAddToken(th, Last(f.inputs).place, Last(f.inputs).tok)
       /\ UNCHANGED fireMu

(* produceOutputTokens: the expression of the arc is applied to the first   *)
(* input token.                                                             *)
OutputToken(f) ==
  IF f.inputs = <<>> THEN EmptyToken
  ELSE OutputArcs[f.t][f.arc].expr[f.inputs[1].tok]

ProduceFrom(th, f) ==
  LET arcs == OutputArcs[f.t] IN
  IF f.arc <= Len(arcs)
  THEN /\ SetFire(th, [f EXCEPT !.pc = "produce"])
       /\ CallAddToken(th, arcs[f.arc].place, OutputToken(f))
       /\ UNCHANGED <<fireMu, committed>>
  ELSE /\ Finish(th, f, TRUE)
       /\ committed' = [committed EXCEPT ![f.t] = @ + 1]

FireInternal(th, f) == ConsumeFrom(th, Phase(f, "consume"))

(* Mutant: the early return does not release fireMu.                        *)
NotEnabledStaysLocked(th, f) ==
  SetFire(th, Idle) /\ UNCHANGED <<call, fireMu>>

(* IsEnabled said no (ok) or the guard failed with an error (~ok).          *)
NotEnabled(th, f) ==
  /\ SetFire(th, Idle)
  /\ IF f.mode = "BatchFire" THEN UNCHANGED fireMu ELSE Unlock(th, f.t)
  /\ UNCHANGED call

(* Fire goes on under fireMu; BatchFire calls FireUnchecked, which takes it.*)
Enabled(th, f) ==
  IF f.mode = "BatchFire"
  THEN SetFire(th, Phase(f, "lock")) /\ UNCHANGED <<call, fireMu>>
  ELSE FireInternal(th, f) /\ UNCHANGED fireMu

-----------------------------------------------------------------------------
(* The actions.                                                             *)

Call(th) ==
  /\ fire[th].pc = "idle"
  /\ calls < MaxCalls
  /\ calls' = calls + 1
  /\ \E t \in Transition :
       \/ \E mode \in {"Fire", "FireUnchecked"} :
            SetFire(th, NewFire("lock", mode, t, 1)) /\ UNCHANGED call
       \/ CheckFrom(th, NewFire("check", "BatchFire", t, BatchSize))
  /\ UNCHANGED <<fireMu, committed, leaked>>

(* Mutant: fireMu is not waited for.                                        *)
LockWithoutWaiting(th) ==
  LET f == fire[th] IN
  /\ f.pc = "lock"
  /\ fireMu' = [fireMu EXCEPT ![f.t] = th]
  /\ IF f.mode = "Fire" THEN CheckFrom(th, f) ELSE FireInternal(th, f)
  /\ UNCHANGED <<calls, committed, leaked>>

Lock(th) ==
  LET f == fire[th] IN
  /\ f.pc = "lock"
  /\ fireMu[f.t] = None
  /\ fireMu' = [fireMu EXCEPT ![f.t] = th]
  /\ \/ /\ f.mode = "Fire"
        /\ CheckFrom(th, f)
     \/ /\ f.mode # "Fire"
        /\ FireInternal(th, f)
  /\ UNCHANGED <<calls, committed, leaked>>

(* A place call of th has returned.                                         *)
Returned(th, pc) == fire[th].pc = pc /\ call[th].pc = "done"

Checked(th) ==
  LET f == fire[th]
      g == [f EXCEPT !.arc = @ + 1, !.snapshot = @ \o call[th].seen] IN
  /\ Returned(th, "check")
  /\ \/ /\ ~call[th].ok
        /\ NotEnabled(th, f)
     \/ /\ call[th].ok
        /\ f.arc < Len(InputArcs[f.t]) \/ f.t \in Guarded
        /\ CheckFrom(th, g)
        /\ UNCHANGED fireMu
     \/ /\ call[th].ok
        /\ f.arc = Len(InputArcs[f.t]) /\ f.t \notin Guarded
        /\ Enabled(th, g)
  /\ UNCHANGED <<calls, committed, leaked>>

(* A guard passes, refuses, or fails; a panic is an error.                  *)
Guard(th) ==
  LET f == fire[th] IN
  /\ f.pc = "guard"
  /\ \/ Enabled(th, f)
     \/ f.t \in Guarded /\ NotEnabled(th, f)
  /\ UNCHANGED <<calls, committed, leaked>>

Consumed(th) ==
  LET f == fire[th]
      arcs == InputArcs[f.t] IN
  /\ Returned(th, "consume")
  /\ \/ /\ call[th].ok
        /\ ConsumeFrom(th, Advance([f EXCEPT !.inputs =
             Append(@, [tok |-> call[th].tok, place |-> arcs[f.arc].place])], arcs))
        /\ UNCHANGED fireMu
     \/ /\ ~call[th].ok
        /\ RollbackFrom(th, f)
  /\ UNCHANGED <<calls, committed, leaked>>

Task(th) ==
  LET f == fire[th] IN
  /\ f.pc = "task"
  /\ \/ ProduceFrom(th, Phase(f, "produce"))
     \/ /\ f.t \in Tasked
        /\ RollbackFrom(th, f)
        /\ UNCHANGED committed
  /\ UNCHANGED <<calls, leaked>>

(* An AddToken error does not stop the rollback.                            *)
RolledBack(th) ==
  LET f == fire[th] IN
  /\ Returned(th, "rollback")
  /\ leaked' = (leaked \/ ~call[th].ok)
  /\ RollbackFrom(th, [f EXCEPT !.inputs = Front(@)])
  /\ UNCHANGED <<calls, committed>>

(* An AddToken error ends the production, and nothing is rolled back.       *)
Produced(th) ==
  LET f == fire[th] IN
  /\ Returned(th, "produce")
  /\ \/ /\ call[th].ok
        /\ ProduceFrom(th, Advance(f, OutputArcs[f.t]))
        /\ UNCHANGED leaked
     \/ /\ ~call[th].ok
        /\ Finish(th, f, FALSE)
        /\ leaked' = TRUE
        /\ UNCHANGED committed
  /\ UNCHANGED calls

(* A step of th on a channel interferes with every other firing that takes  *)
(* tokens from that place; th starts afresh when it begins to check.        *)
Inputs(t) == {InputArcs[t][i].place : i \in DOMAIN InputArcs[t]}

Interfere(th) ==
  interfered' =
    IF fire[th].pc # "check" /\ fire'[th].pc = "check" THEN interfered \ {th}
    ELSE interfered \cup
           {u \in Thread \ {th} : /\ fire[u].pc # "idle"
                                 /\ \E p \in Inputs(fire[u].t) :
                                      tokens'[p] # tokens[p]}

FireStep(th) ==
  /\ \/ Call(th) \/ Lock(th) \/ Checked(th) \/ Guard(th) \/ Consumed(th)
     \/ Task(th) \/ RolledBack(th) \/ Produced(th)
  /\ UNCHANGED <<tokens, totalTokens, peekMu, history>>

Step(th) ==
  /\ FireStep(th) \/ (PlaceStep(th) /\ UNCHANGED fireVars)
  /\ Interfere(th)

Init ==
  /\ PlaceInit(InitialTokens)
  /\ fire = [th \in Thread |-> Idle]
  /\ fireMu = [t \in Transition |-> None]
  /\ calls = 0
  /\ committed = [t \in Transition |-> 0]
  /\ leaked = FALSE
  /\ interfered = {}

Next == \E th \in Thread : Step(th)

(* Every goroutine keeps running: a step it can take it takes.              *)
Fairness == \A th \in Thread : WF_vars(Step(th))

Spec == Init /\ [][Next]_vars /\ Fairness

-----------------------------------------------------------------------------
TypeOK ==
  /\ PlaceTypeOK
  /\ fire \in [Thread -> FireType]
  /\ fireMu \in [Transition -> Thread \cup {None}]
  /\ calls \in 0 .. MaxCalls
  /\ committed \in [Transition -> Nat]
  /\ leaked \in BOOLEAN
  /\ interfered \subseteq Thread

(* The refinement: a firing starts when the last input token is removed.    *)
(* Until then, and while it gives tokens back, what it holds still counts   *)
(* as being in the place it came from; so do the tokens a peek holds.       *)
(* Total(n) is the sum of the natural numbers n[x].                         *)
Total(n) == Cardinality(UNION {{x} \X (1 .. n[x]) : x \in DOMAIN n})

Weight(arcs, p) ==
  Total([i \in DOMAIN arcs |-> IF arcs[i].place = p THEN arcs[i].weight ELSE 0])

Pre == [t \in Transition |-> [p \in Place |-> Weight(InputArcs[t], p)]]
Post == [t \in Transition |-> [p \in Place |-> Weight(OutputArcs[t], p)]]

Peeked(th, p) ==
  IF call[th].pc \in DrainSteps /\ call[th].place = p THEN Len(call[th].buf) ELSE 0

From(inputs, p) == Cardinality({i \in DOMAIN inputs : inputs[i].place = p})

(* th's place call has moved a token in or out of the channel.              *)
Removed(th) == call[th].pc = "rem_count" \/ (call[th].pc = "done" /\ call[th].ok)
Added(th) == call[th].pc = "add_count" \/ (call[th].pc = "done" /\ call[th].ok)
Refused(th) == call[th].pc = "done" /\ ~call[th].ok

Held(th, p) ==
  LET f == fire[th] IN
  CASE f.pc = "consume" ->
         From(f.inputs, p)
           + (IF Removed(th) /\ InputArcs[f.t][f.arc].place = p THEN 1 ELSE 0)
    [] f.pc = "rollback" ->
         From(f.inputs, p)
           - (IF (Added(th) \/ Refused(th)) /\ Last(f.inputs).place = p
              THEN 1 ELSE 0)
    [] OTHER -> 0

Made(th, p) ==
  LET f == fire[th]
      arcs == OutputArcs[f.t] IN
  Weight(SubSeq(arcs, 1, f.arc - 1), p)
    + (IF arcs[f.arc].place = p
       THEN f.n + (IF Added(th) THEN 1 ELSE 0) ELSE 0)

Marking ==
  [p \in Place |->
     Len(tokens[p]) + Total([th \in Thread |-> Peeked(th, p) + Held(th, p)])]

Firing ==
  [th \in Thread |->
     LET f == fire[th] IN
     CASE f.pc = "task" ->
            [trans |-> f.t, made |-> [p \in Place |-> 0]]
       [] f.pc = "produce" /\ ~Refused(th) ->
            [trans |-> f.t, made |-> [p \in Place |-> Made(th, p)]]
       [] OTHER -> None]

Game == INSTANCE TokenGame
        WITH marking <- Marking, firing <- Firing, Limited <- GlobalCapacity # 0,
             InitialMarking <- [p \in Place |-> Len(InitialTokens[p])]

(* Whatever peeks, firings, failures and rollbacks overlap, the net plays   *)
(* the token game: a transition takes all of its inputs or none, puts out   *)
(* what its arcs say, and no token is made or lost but where a place        *)
(* refused one.                                                             *)
RefinesTokenGame == Game!GameSpec

Quiescent == \A th \in Thread : fire[th].pc = "idle"

(* The state equation of the net, when nothing fires: the marking follows   *)
(* from the number of successful firings alone, failed ones leave no trace. *)
StateEquation ==
  Quiescent /\ ~leaked =>
    \A p \in Place :
      Len(tokens[p]) + Total([t \in Transition |-> committed[t] * Pre[t][p]])
        = Len(InitialTokens[p])
            + Total([t \in Transition |-> committed[t] * Post[t][p]])

OneArcPerPlace(t) == Cardinality(Inputs(t)) = Len(InputArcs[t])

(* IsEnabled and the guard look at the tokens, the firing removes them      *)
(* later.  When no one else uses the input places in between, the firing    *)
(* gets exactly the tokens that the guard saw, and cannot fail for want of  *)
(* tokens.  (Two arcs from one place are checked separately, so they are    *)
(* left out.)                                                               *)
QuietFiringTakesWhatGuardSaw ==
  [][\A th \in Thread :
       LET f == fire[th]
           g == fire'[th] IN
       f.pc = "consume" /\ g.pc # "consume" /\ f.mode # "FireUnchecked"
         /\ OneArcPerPlace(f.t) /\ th \notin interfered
       => /\ g.pc = "task"
          /\ [i \in DOMAIN g.inputs |-> g.inputs[i].tok] = f.snapshot]_vars

Wedged ==
  \E th \in Thread : /\ call[th].pc \in {"pwc_undo", "pwc_refill"}
                     /\ Full(call[th].place)

(* Every call returns, unless a peek finds the place it drained filled up   *)
(* by others: its put-back then blocks with peekMu held.                    *)
CallsReturn ==
  \A th \in Thread : fire[th].pc # "idle" ~> (fire[th].pc = "idle" \/ Wedged)

=============================================================================
