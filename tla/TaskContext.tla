----------------------------- MODULE TaskContext -----------------------------
(***************************************************************************)
(* The contexts of the tasks of a transition.  An ExecutionContext         *)
(* (context/context.go) is a record that a task hands to its parts by      *)
(* reference; its field Context is a context of the Go library, one of a   *)
(* tree of contexts that end with the contexts they are derived from.      *)
(***************************************************************************)
EXTENDS Integers, Sequences

CONSTANTS
  Task,
  Roots,          \* the tasks that a transition may have
  Kind,           \* Kind[n]: "sequence", "parallel", "retry", "recovery", "conditional",
                  \* "inline", "call", "wait", "human", "escalation", "subworkflow"
  Subs            \* Subs[n]: the tasks that n is made of

Parts(n) == {Subs[n][k] : k \in DOMAIN Subs[n]}

ASSUME TaskAssumption ==
  /\ Roots \subseteq Task /\ Subs \in [Task -> Seq(Task)]
  /\ \A n \in Task \ Roots : \E p \in Task : n \in Parts(p)
  /\ \A p, q \in Task : p # q => Parts(p) \cap Parts(q) = {}
  /\ \A p \in Task : Parts(p) \cap Roots = {}
  /\ \A n \in Task :
       Len(Subs[n]) \in CASE Kind[n] \in {"sequence", "parallel"} -> Nat \ {0}
                          [] Kind[n] = "retry"       -> {1}
                          [] Kind[n] = "recovery"    -> {2}
                          [] Kind[n] = "conditional" -> {1, 2}
                          [] OTHER                   -> {0}

VARIABLES
  contexts,       \* the contexts, in the order in which they were made; the first
                  \* is the one the caller has put into the ExecutionContext
  ctxOf           \* ctxOf[n]: ExecutionContext.Context, for the tasks that own one

contextVars == <<contexts, ctxOf>>

Status == {"live", "canceled", "deadline"}

Parent(n) == CHOOSE p \in Task : n \in Parts(p)

(* The branches of a parallel task get copies (WithToken), all other tasks  *)
(* the ExecutionContext of the task they are part of.                       *)
Owner[n \in Task] ==
  IF n \in Roots THEN n
  ELSE IF Kind[Parent(n)] = "parallel" THEN n ELSE Owner[Parent(n)]

(* Tasks are made of tasks that were there before, so that no task is a     *)
(* part of itself: Depth and Owner are defined, by way of their equations. *)
Depth[n \in Task] == IF n \in Roots THEN 0 ELSE Depth[Parent(n)] + 1

ASSUME TreeAssumption ==
  \A n \in Task :
    /\ Depth[n] = IF n \in Roots THEN 0 ELSE Depth[Parent(n)] + 1
    /\ Depth[n] \in Nat
    /\ Owner[n] = IF n \in Roots \/ Kind[Parent(n)] = "parallel" THEN n ELSE Owner[Parent(n)]
    /\ Owner[n] \in Task

Context(n) == ctxOf[Owner[n]]

(* ctx.Context.Err(), and whether ctx.Context.Done() is closed.             *)
Err(n) == contexts[Context(n)].status
Done(n) == Err(n) # "live"

ContextInit ==
  /\ contexts = <<[parent |-> 0, status |-> "live"]>>
  /\ ctxOf = [n \in Task |-> 1]

(* The contexts that are derived from c.                                    *)
Derived(c) ==
  LET derived[d \in DOMAIN contexts] ==
        LET p == contexts[d].parent IN p # 0 /\ (p = c \/ derived[p])
  IN {d \in DOMAIN contexts : derived[d]}

(* c ends, and with it the contexts that are derived from it and live.      *)
Ended(c, how) ==
  [d \in DOMAIN contexts |->
     IF d \in Derived(c) \cup {c} /\ contexts[d].status = "live"
     THEN [contexts[d] EXCEPT !.status = how] ELSE contexts[d]]

(* ctx.Context, cancel = WithTimeout(ctx.Context, timeout)                  *)
WithTimeout(n) ==
  /\ contexts' = Append(contexts, [parent |-> Context(n), status |-> Err(n)])
  /\ ctxOf' = [ctxOf EXCEPT ![Owner[n]] = Len(contexts) + 1]

(* The caller cancels, or the time of a context is over.                    *)
CancelCaller == contexts[1].status = "live" /\ contexts' = Ended(1, "canceled")

Expire ==
  \E c \in DOMAIN contexts :
    c > 1 /\ contexts[c].status = "live" /\ contexts' = Ended(c, "deadline")
=============================================================================
