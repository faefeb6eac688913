------------------------------- MODULE Tasks ---------------------------------
(***************************************************************************)
(* The tasks of a transition (task/): composite tasks and what they make   *)
(* of the results of their parts, tasks that wait for the world, timeouts  *)
(* and cancellation.  Names, messages and metrics are left out; what a     *)
(* user function, a server or a person answers is arbitrary.  Tasks are    *)
(* configured as their Execute wants it (a name, parts, a limit).          *)
(***************************************************************************)
EXTENDS TaskContext

CONSTANTS
  Timed,          \* the inline, sequential and parallel tasks with a Timeout
  ContinueOnError,\* the sequential tasks that go on after an error
  Limit,          \* Limit[n]: MaxAttempts of a retry, len(Levels) of an escalation
  Backoff,        \* the retries that wait between two attempts
  Review,         \* the human tasks that only send their request
  OnTimeout,      \* the human tasks and sub-workflows with a callback for it
  Async,          \* the sub-workflows that are not waited for
  PropagateCancel,\* the sub-workflows that are cancelled with their parent
  TokenHasMetadata, \* Token.Metadata of the caller is not nil
  Suppresses      \* the ErrorHandler may return nil

ASSUME LimitAssumption == Limit \in [Task -> Nat \ {0}]

VARIABLES
  root,           \* the task that is executed
  frame,          \* frame[n]: the state of Execute of n
  instances,      \* the sub-workflows, in the order of their start
  given, ran      \* history: the context that Execute of n was called with,
                  \* and the results of its parts so far

treeVars == <<root, frame, instances>>
history == <<given, ran>>
taskVars == <<contextVars, treeVars, history>>

Results == {"ok", "fail"} \cup (Status \ {"live"})

(* i is the loop variable, own the context that the task has made (0: none) *)
(* and cancels when it returns.                                             *)
NewFrame == [pc |-> "enter", i |-> 1, failed |-> FALSE, own |-> 0, out |-> "none"]
Idle == [NewFrame EXCEPT !.pc = "idle"]

TaskInit ==
  /\ ContextInit
  /\ root \in Roots
  /\ frame = [n \in Task |-> IF n = root THEN NewFrame ELSE Idle]
  /\ instances = <<>>
  /\ given = [n \in Task |-> 1] /\ ran = [n \in Task |-> <<>>]

(* ErrorHandler.Handle(ctx, err)                                            *)
Handled(err) == IF Suppresses THEN {err, "ok"} ELSE {err}

IsAt(n, kind, pc) == Kind[n] = kind /\ frame[n].pc = pc

-----------------------------------------------------------------------------
(* Calls and returns.                                                       *)

Enter(n) ==
  /\ frame[n].pc = "enter"
  /\ IF n \in Timed THEN WithTimeout(n) ELSE UNCHANGED contextVars
  /\ frame' = [frame EXCEPT ![n].pc = "go",
                            ![n].own = IF n \in Timed THEN Len(contexts) + 1 ELSE 0]
  /\ given' = [given EXCEPT ![n] = Context(n)]
  /\ ran' = [ran EXCEPT ![n] = <<>>]
  /\ UNCHANGED <<root, instances>>

Leave(n, out, how) ==
  /\ frame' = [frame EXCEPT ![n].pc = "done", ![n].out = out]
  /\ contexts' = IF frame[n].own = 0 THEN contexts ELSE Ended(frame[n].own, how)
  /\ UNCHANGED <<ctxOf, root, instances, given>>

(* Mutant: the context of the task is not cancelled.                        *)
FinishWithoutCancel(n, out) == Leave(n, out, "live")

(* ... with the deferred cancel.                                            *)
Finish(n, out) == Leave(n, out, "canceled")

Continue(n, f) ==
  frame' = [frame EXCEPT ![n] = f] /\ UNCHANGED <<contextVars, root, instances, given>>

CallPart(n, k, f) ==
  /\ frame' = [frame EXCEPT ![n] = [f EXCEPT !.pc = "part"], ![Subs[n][k]] = NewFrame]
  /\ UNCHANGED <<contextVars, root, instances, given>>

(* The part that n waits for, if n is not parallel, and its result.         *)
Part(n) == IF Kind[n] = "retry" THEN Subs[n][1] ELSE Subs[n][frame[n].i]
Result(n) == frame[Part(n)].out

PartReturned(n, kind) ==
  /\ IsAt(n, kind, "part") /\ frame[Part(n)].pc = "done" /\ Result(n) # "panic"
  /\ ran' = [ran EXCEPT ![n] = Append(@, Result(n))]

(* A panic that nobody recovers goes on in the caller.                      *)
PartPanicked(n) ==
  /\ frame[n].pc = "part" /\ Kind[n] # "parallel"
  /\ frame[Part(n)].pc = "done" /\ Result(n) = "panic"
  /\ Finish(n, "panic") /\ UNCHANGED ran

-----------------------------------------------------------------------------
(* Sequential tasks.                                                        *)

SequenceNext(n) ==
  LET f == frame[n] IN
  /\ IsAt(n, "sequence", "go") /\ f.i <= Len(Subs[n])
  /\ \/ Done(n) /\ Finish(n, Err(n))
     \/ ~Done(n) /\ CallPart(n, f.i, f)
  /\ UNCHANGED ran

(* Mutant: the sequence goes on after an error, which it forgets.           *)
SequenceReturnedAnyway(n) ==
  /\ PartReturned(n, "sequence")
  /\ Continue(n, [frame[n] EXCEPT !.pc = "go", !.i = @ + 1])

SequenceReturned(n) ==
  LET f == frame[n]
      failed == Result(n) # "ok" IN
  /\ PartReturned(n, "sequence")
  /\ \/ failed /\ n \notin ContinueOnError /\ Finish(n, Result(n))
     \/ /\ ~failed \/ n \in ContinueOnError
        /\ Continue(n, [f EXCEPT !.pc = "go", !.i = @ + 1, !.failed = @ \/ failed])

SequenceEnd(n) ==
  /\ IsAt(n, "sequence", "go") /\ frame[n].i > Len(Subs[n])
  /\ Finish(n, IF frame[n].failed THEN "fail" ELSE "ok")
  /\ UNCHANGED ran

(* Parallel tasks.  A branch that panics has failed.                        *)

ParallelStart(n) ==
  /\ IsAt(n, "parallel", "go")
  /\ frame' = [m \in Task |-> IF m \in Parts(n) THEN NewFrame
                              ELSE IF m = n THEN [frame[n] EXCEPT !.pc = "part"]
                              ELSE frame[m]]
  /\ ctxOf' = [m \in Task |-> IF m \in Parts(n) THEN Context(n) ELSE ctxOf[m]]
  /\ UNCHANGED <<contexts, root, instances, history>>

(* After the deadline the result is an error even if no branch failed.      *)
ParallelDone(n) ==
  LET results == [k \in DOMAIN Subs[n] |-> frame[Subs[n][k]].out] IN
  /\ IsAt(n, "parallel", "part") /\ \A m \in Parts(n) : frame[m].pc = "done"
  /\ ran' = [ran EXCEPT ![n] = results]
  /\ Finish(n, IF Err(n) # "deadline" /\ \A k \in DOMAIN results : results[k] = "ok"
               THEN "ok" ELSE "fail")

(* Retries.                                                                 *)

RetryAttempt(n) ==
  /\ IsAt(n, "retry", "go")
  /\ \/ Done(n) /\ Finish(n, Err(n))
     \/ ~Done(n) /\ CallPart(n, 1, frame[n])
  /\ UNCHANGED ran

NextAttempt(n) == Continue(n, [frame[n] EXCEPT !.pc = "go", !.i = @ + 1])

RetryReturned(n) ==
  LET f == frame[n]
      failed == Result(n) # "ok" IN
  /\ PartReturned(n, "retry")
  /\ \/ ~failed /\ Finish(n, "ok")
     \/ failed /\ f.i = Limit[n] /\ Finish(n, Result(n))
     \/ failed /\ f.i < Limit[n] /\ n \notin Backoff /\ NextAttempt(n)
     \/ failed /\ f.i < Limit[n] /\ n \in Backoff /\ Continue(n, [f EXCEPT !.pc = "await"])

BackoffOver(n) == IsAt(n, "retry", "await") /\ NextAttempt(n) /\ UNCHANGED ran

(* Mutant: the backoff is slept through.                                    *)
BackoffUninterrupted(n) == FALSE

BackoffCancelled(n) ==
  IsAt(n, "retry", "await") /\ Done(n) /\ Finish(n, Err(n)) /\ UNCHANGED ran

(* Recovery: the second part compensates for the failure of the first.      *)

RecoveryStart(n) == IsAt(n, "recovery", "go") /\ CallPart(n, 1, frame[n]) /\ UNCHANGED ran

RecoveryReturned(n) ==
  LET compensate == frame[n].i = 1 /\ Result(n) # "ok" IN
  /\ PartReturned(n, "recovery")
  /\ \/ compensate /\ CallPart(n, 2, [frame[n] EXCEPT !.i = 2])
     \/ ~compensate /\ Finish(n, Result(n))

(* Conditionals: a condition that panics is an error.                       *)

ConditionalStart(n) ==
  /\ IsAt(n, "conditional", "go")
  /\ \/ Finish(n, "fail")
     \/ \E k \in DOMAIN Subs[n] : CallPart(n, k, [frame[n] EXCEPT !.i = k])
     \/ Len(Subs[n]) = 1 /\ Finish(n, "ok")
  /\ UNCHANGED ran

ConditionalReturned(n) == PartReturned(n, "conditional") /\ Finish(n, Result(n))

-----------------------------------------------------------------------------
(* Tasks that wait for the world.                                           *)

(* The function of an inline task returns or panics; when its context has   *)
(* ended it may return the error of the context.                            *)
FnReturns(n) ==
  /\ IsAt(n, "inline", "go")
  /\ \E r \in {"ok", "fail"} \cup ({Err(n)} \ {"live"}) :
       \E out \in CASE r = "ok" -> {"ok"}
                    [] r # "ok" /\ "deadline" \in {r, Err(n)} -> {"deadline"}
                    [] OTHER -> Handled(r) : Finish(n, out)
  /\ UNCHANGED ran

(* Requests, commands and events: one call that looks at the context.       *)
CallReturns(n) ==
  /\ IsAt(n, "call", "go")
  /\ \E out \in {"ok"} \cup Handled("fail") : Finish(n, out)
  /\ UNCHANGED ran

WaitOver(n) == IsAt(n, "wait", "go") /\ Finish(n, "ok") /\ UNCHANGED ran

(* Nobody wakes the goroutine that sleeps for a cancelled task: it outlives *)
(* the task until its time has come, and then closes a channel that nobody  *)
(* reads.  It touches nothing else, and has no state here.                  *)
WaitCancelled(n) == IsAt(n, "wait", "go") /\ Done(n) /\ Finish(n, Err(n)) /\ UNCHANGED ran

HumanRequest(n) ==
  /\ IsAt(n, "human", "go") /\ n \notin Review
  /\ \/ \E out \in Handled("fail") : Finish(n, out)
     \/ Continue(n, [frame[n] EXCEPT !.pc = "await"])
  /\ UNCHANGED ran

HumanReview(n) ==
  /\ IsAt(n, "human", "go") /\ n \in Review
  /\ \E out \in {"ok"} \cup Handled("fail") : Finish(n, out)
  /\ UNCHANGED ran

(* Approval, rejection or data, with the callbacks for them.                *)
HumanAnswers(n) ==
  /\ IsAt(n, "human", "await")
  /\ \E out \in {"ok"} \cup Handled("fail") : Finish(n, out)
  /\ UNCHANGED ran

(* Any error of the wait, the end of the context too, is a timeout.         *)
TimeoutResults(n) == (IF n \in OnTimeout THEN {"ok"} ELSE {}) \cup Handled("fail")

HumanGivesUp(n) ==
  /\ IsAt(n, "human", "await")
  /\ \E out \in TimeoutResults(n) : Finish(n, out)
  /\ UNCHANGED ran

EscalationStart(n) ==
  /\ IsAt(n, "escalation", "go")
  /\ \/ \E out \in {"ok"} \cup Handled("fail") : Finish(n, out)
     \/ Continue(n, [frame[n] EXCEPT !.pc = "await"])
  /\ UNCHANGED ran

(* The time of a level is over, and its recipients are told.                *)
EscalationLevel(n) ==
  LET f == frame[n] IN
  /\ IsAt(n, "escalation", "await")
  /\ \/ \E out \in Handled("fail") : Finish(n, out)
     \/ f.i = Limit[n] /\ Finish(n, "ok")
     \/ f.i < Limit[n] /\ Continue(n, [f EXCEPT !.i = @ + 1])
  /\ UNCHANGED ran

EscalationResolved(n) ==
  /\ IsAt(n, "escalation", "await")
  /\ \E out \in {"ok"} \cup Handled("fail") : Finish(n, out)
  /\ UNCHANGED ran

EscalationCancelled(n) ==
  /\ IsAt(n, "escalation", "await") /\ Done(n)
  /\ \E out \in Handled("fail") : Finish(n, out)
  /\ UNCHANGED ran

-----------------------------------------------------------------------------
(* Sub-workflows.  of is the task that started the instance; its watcher is *)
(* the goroutine that waits for the end of a context (ctx, 0 before it      *)
(* runs) to cancel the instance, which succeeds.                            *)

(* The token of a parallel branch has no Metadata to write into.            *)
HasMetadata(n) == Owner[n] \in Roots /\ TokenHasMetadata

SubStart(n) ==
  /\ IsAt(n, "subworkflow", "go") /\ UNCHANGED ran
  /\ \/ \E out \in Handled("fail") : Finish(n, out)
     \/ /\ frame' = [frame EXCEPT ![n].pc = "started", ![n].i = Len(instances) + 1]
        /\ instances' = Append(instances, [of |-> n, status |-> "running",
                                           watcher |-> "none", ctx |-> 0])
        /\ UNCHANGED <<contextVars, root, given>>

SubStarted(n) ==
  LET f == frame[n] IN
  /\ IsAt(n, "subworkflow", "started") /\ UNCHANGED ran
  /\ \/ ~HasMetadata(n) /\ Finish(n, "panic")
     \/ HasMetadata(n) /\ n \in Async /\ Finish(n, "ok")
     \/ /\ HasMetadata(n) /\ n \notin Async
        /\ frame' = [frame EXCEPT ![n].pc = "await"]
        /\ instances' = IF n \in PropagateCancel
                        THEN [instances EXCEPT ![f.i].watcher = "starting"] ELSE instances
        /\ UNCHANGED <<contextVars, root, given>>

WatchStart(k) ==
  /\ instances[k].watcher = "starting"
  /\ instances' = [instances EXCEPT ![k].watcher = "waiting",
                                    ![k].ctx = Context(instances[k].of)]
  /\ UNCHANGED <<contextVars, root, frame, history>>

WatchFires(k) ==
  /\ instances[k].watcher = "waiting" /\ contexts[instances[k].ctx].status # "live"
  /\ instances' = [instances EXCEPT ![k].watcher = "gone",
                       ![k].status = IF @ = "running" THEN "cancelled" ELSE @]
  /\ UNCHANGED <<contextVars, root, frame, history>>

InstanceEnds(k) ==
  /\ instances[k].status = "running"
  /\ instances' = [instances EXCEPT ![k].status = "ended"]
  /\ UNCHANGED <<contextVars, root, frame, history>>

(* Completed, failed or timed out, or cancelled, with the callbacks.        *)
SubEnded(n) ==
  /\ IsAt(n, "subworkflow", "await") /\ UNCHANGED ran
  /\ \/ /\ instances[frame[n].i].status = "ended"
        /\ \E out \in {"ok"} \cup Handled("fail") : Finish(n, out)
     \/ /\ instances[frame[n].i].status = "cancelled"
        /\ \E out \in Handled("fail") : Finish(n, out)

SubGivesUp(n) ==
  /\ IsAt(n, "subworkflow", "await")
  /\ \E out \in TimeoutResults(n) : Finish(n, out)
  /\ UNCHANGED ran

-----------------------------------------------------------------------------
(* The code goes on by itself ...                                           *)
Step(n) ==
  \/ Enter(n) \/ PartPanicked(n)
  \/ SequenceNext(n) \/ SequenceReturned(n) \/ SequenceEnd(n)
  \/ ParallelStart(n) \/ ParallelDone(n)
  \/ RetryAttempt(n) \/ RetryReturned(n) \/ BackoffCancelled(n)
  \/ RecoveryStart(n) \/ RecoveryReturned(n)
  \/ ConditionalStart(n) \/ ConditionalReturned(n)
  \/ WaitCancelled(n) \/ HumanRequest(n) \/ HumanReview(n)
  \/ EscalationStart(n) \/ EscalationCancelled(n)
  \/ SubStart(n) \/ SubStarted(n) \/ SubEnded(n)

(* ... what it calls returns sooner or later if its context has ended ...   *)
Called(n) == FnReturns(n) \/ CallReturns(n) \/ HumanGivesUp(n) \/ SubGivesUp(n)

(* ... and the world need not do anything.                                  *)
World(n) ==
  WaitOver(n) \/ BackoffOver(n) \/ HumanAnswers(n) \/ EscalationLevel(n) \/ EscalationResolved(n)

Environment == (CancelCaller \/ Expire) /\ UNCHANGED <<ctxOf, treeVars, history>>

TaskNext ==
  \/ \E n \in Task : Step(n) \/ Called(n) \/ World(n)
  \/ \E k \in DOMAIN instances : WatchStart(k) \/ WatchFires(k) \/ InstanceEnds(k)
  \/ Environment

Watch == \E k \in DOMAIN instances : WatchStart(k) \/ WatchFires(k)

TaskFairness ==
  /\ \A n \in Task : WF_taskVars(Step(n)) /\ WF_taskVars(Done(n) /\ Called(n))
  /\ WF_taskVars(Watch)

TaskSpec == TaskInit /\ [][TaskNext]_taskVars /\ TaskFairness

-----------------------------------------------------------------------------
Running(n) == frame[n].pc \notin {"idle", "done"}
Canceled(c) == contexts[c].status # "live"

(* The attempts of a retry and the levels of an escalation stay in their    *)
(* limits, and every context is one that was made (retry.go, escalation.go).*)
TaskTypeOK ==
  /\ contexts \in Seq([parent : 0 .. Len(contexts), status : Status])
  /\ ctxOf \in [Task -> DOMAIN contexts] /\ given \in [Task -> DOMAIN contexts]
  /\ root \in Roots
  /\ frame \in [Task -> [pc : {"idle", "enter", "go", "part", "await", "started", "done"},
                         i : Nat \ {0}, failed : BOOLEAN, own : 0 .. Len(contexts),
                         out : Results \cup {"none", "panic"}]]
  /\ \A n \in Task : Kind[n] \in {"retry", "escalation"} => frame[n].i <= Limit[n]
  /\ instances \in Seq([of : Task, status : {"running", "ended", "cancelled"},
                        watcher : {"none", "starting", "waiting", "gone"},
                        ctx : 0 .. Len(contexts)])
  /\ ran \in [Task -> Seq(Results \cup {"panic"})]

Explained(n, out, rs) ==
  LET failures == {k \in DOMAIN rs : rs[k] # "ok"}
      last == Len(rs) IN
  CASE Kind[n] = "sequence" ->
         /\ out = "ok" => last = Len(Subs[n]) /\ failures = {}
         /\ out = "fail" => failures # {}
         /\ n \notin ContinueOnError => failures \subseteq {last}
    [] Kind[n] = "parallel" ->
         /\ last = Len(Subs[n])
         /\ out = "ok" => failures = {}
         /\ out # "ok" => \/ failures # {}
                          \/ \E c \in {given[n], frame[n].own} \ {0} :
                               contexts[c].status = "deadline"
    [] Kind[n] = "retry" ->
         /\ last <= Limit[n]
         /\ out = "ok" => failures = 1 .. last - 1
         /\ out # "ok" => failures = 1 .. last
    [] Kind[n] = "recovery" ->
         /\ last = 2 <=> 1 \in failures
         /\ out = rs[last]
    [] Kind[n] = "conditional" -> rs = <<out>> \/ rs = <<>>
    [] OTHER -> TRUE

(* What a composite task returns is explained by what its parts returned,   *)
(* and no part ran that should not have: a sequence stops at the first      *)
(* error or reports it at the end, a parallel task waits for every branch,  *)
(* a retry stops at the first success, a recovery returns what the          *)
(* compensation returned, a conditional what its one part returned.         *)
OutcomeOfTheParts ==
  \A n \in Task : frame[n].pc = "done" /\ frame[n].out # "panic"
                    => Explained(n, frame[n].out, ran[n])

(* A task that has returned has none of its parts running and no context of *)
(* its own that waits for its time, whatever its parts did: no branch of a  *)
(* parallel task, no part of one that panicked (the deferred cancels,       *)
(* wg.Wait).  It is about parts and contexts only.  The goroutine of a      *)
(* cancelled wait (wait.go:170), the watcher of a sub-workflow              *)
(* (subworkflow.go:369) and an instance that is not waited for do go on     *)
(* after the task that started them.                                        *)
NoPartOutlives ==
  /\ \A n \in Task : ~Running(n) => \A m \in Parts(n) : ~Running(m)
  /\ \A n \in Task : ~Running(n) /\ frame[n].own # 0 => Canceled(frame[n].own)
  /\ frame[root].pc = "done" => \A c \in DOMAIN contexts : c > 1 => Canceled(c)

(* When the caller cancels, the task returns although nobody answers and no *)
(* timer rings, and the sub-workflows that propagate cancellation stop.     *)
CancelledReturns ==
  Canceled(1) ~> /\ frame[root].pc = "done"
                 /\ \A k \in DOMAIN instances :
                      instances[k].watcher # "none" => instances[k].status # "running"
=============================================================================
