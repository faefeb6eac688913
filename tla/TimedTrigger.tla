---------------------------- MODULE TimedTrigger ----------------------------
(***************************************************************************)
(* The users of the clock: one transition with a TimedTrigger              *)
(* (petri/trigger_timed.go), looked at by the loop of the engine and by an *)
(* observer (Wait or HealthCheck, which drop the answer), with the waiter  *)
(* goroutines they leave; and wait tasks (task/wait.go).  Each reads the   *)
(* clock in one critical section and makes its timer in another.  The rest *)
(* of the net is one flag, rival: another transition may be fired, and in  *)
(* the sequential mode the loop fires only one of those it has found.      *)
(***************************************************************************)
EXTENDS VirtualClock, FiniteSets

CONSTANTS
  t, None,
  loop, observer,  \* the goroutines that look for enabled transitions
  Waiter,          \* waiter goroutines
  Delay, At,       \* the two settings of the trigger
  Lengths,         \* Duration of the wait tasks; all have Until = At otherwise
  MaxTime,         \* bound on the time
  MaxWork          \* bound on what happens: tokens that come, starts of the
                   \* engine, wait tasks, failures of the task of t and a
                   \* cancellation, together

Looker == {loop, observer}

ASSUME TimedTriggerAssumption ==
  /\ loop # observer /\ None \notin Looker
  /\ Delay \in Nat \ {0} /\ At \in Nat \ {0} /\ Lengths \subseteq Nat \ {0}
  /\ MaxTime \in Nat /\ MaxWork \in Nat

VARIABLES
  fixed,           \* the trigger has At, and not Delay
  timer,           \* its timer, 0 = nil
  mu,              \* who holds the mutex of the trigger
  look,            \* look[k]: what the looker k does
  waiter,          \* waiter[w]: the waiter goroutine w
  waiting,         \* waitingTransitions has t
  life,            \* the engine
  cancelled,       \* the context is done
  tokens,          \* tokens of the input place
  rival,           \* another transition of the net can fire
  work,            \* how much has happened
  wait,            \* wait[s]: the wait task whose goroutine is s
  since,           \* history: when the transition was enabled first
  spent            \* history: the tick of the timer is gone, and what it was
                   \* taken for, a firing or nothing, is over

trigVars == <<fixed, timer, mu, look, waiter, waiting>>
engineVars == <<life, cancelled>>
netVars == <<tokens, rival, since, spent>>
vars == <<clockVars, trigVars, engineVars, netVars, work, wait>>

NotLooking == [pc |-> "idle", deadline |-> 0, remaining |-> 0]
NoWaiter == [pc |-> "off", chan |-> 0]
NoWait == [pc |-> "off", d |-> 0, due |-> 0, moved |-> FALSE]

Enabled == tokens > 0

Never == -1

Work == work < MaxWork /\ work' = work + 1

LookAt(k, pc) == look' = [look EXCEPT ![k].pc = pc]

-----------------------------------------------------------------------------
(* findEnabledTransitions: IsEnabled, and ShouldFire in later steps, when   *)
(* the token may be gone.  A loop whose context has ended may look once     *)
(* more: its select chooses among the cases that are ready.                 *)

FindsEnabled(k) ==
  /\ look[k].pc = "idle" /\ Enabled
  /\ k = loop => life # "stopped"
  /\ LookAt(k, "ask")
  /\ UNCHANGED <<clockVars, fixed, timer, mu, waiter, waiting, engineVars, netVars, work, wait>>

NewWaiter == CHOOSE w \in Waiter : waiter[w].pc = "off"

(* spawnTriggerWaiter.                                                      *)
Spawn ==
  IF waiting THEN UNCHANGED <<waiting, waiter>>
  ELSE /\ \E w \in Waiter : waiter[w].pc = "off"
       /\ waiting' = TRUE
       /\ waiter' = [waiter EXCEPT ![NewWaiter].pc = "enter"]

(* The answer TRUE makes the loop fire, and the observer go on.             *)
Yes(k) ==
  /\ look' = [look EXCEPT ![k] = [NotLooking EXCEPT !.pc = IF k = loop THEN "fire" ELSE "idle"]]
  /\ UNCHANGED <<waiting, waiter>>

No(k) == look' = [look EXCEPT ![k] = NotLooking] /\ Spawn

(* Mutant: a timer whose scheduled time has come counts as one that rang.   *)
PollScheduled(k) ==
  /\ look[k].pc = "ask" /\ mu = None /\ timer # 0
  /\ \/ (fixed /\ now >= At) /\ Yes(k)
     \/ ~(fixed /\ now >= At) /\ No(k)
  /\ UNCHANGED <<clockVars, fixed, timer, mu, engineVars, netVars, work, wait>>

(* A timer that was made before is asked whether it has rung.               *)
Poll(k) ==
  /\ look[k].pc = "ask" /\ mu = None /\ timer # 0
  /\ \/ Receive(timer) /\ Yes(k)
     \/ ~Ready(timer) /\ No(k) /\ UNCHANGED clockVars
  /\ spent' = (spent \/ (k = observer /\ ~virtual /\ Ready(timer)))
  /\ UNCHANGED <<fixed, timer, mu, engineVars, tokens, rival, since, work, wait>>

(* The first look reads the clock for the deadline of a Delay, once more    *)
(* for what remains of it, and has the clock make a timer for that.         *)
ReadDeadline(k) ==
  /\ look[k].pc = "ask" /\ mu = None /\ timer = 0
  /\ mu' = k
  /\ look' = [look EXCEPT ![k].pc = "remaining",
                          ![k].deadline = IF fixed THEN At ELSE now + Delay]
  /\ UNCHANGED <<clockVars, fixed, timer, waiter, waiting, engineVars, netVars, work, wait>>

ReadRemaining(k) ==
  LET remaining == look[k].deadline - now IN
  /\ look[k].pc = "remaining"
  /\ IF remaining <= 0 THEN mu' = None /\ Yes(k)
     ELSE /\ look' = [look EXCEPT ![k].pc = "after", ![k].remaining = remaining]
          /\ UNCHANGED <<mu, waiter, waiting>>
  /\ UNCHANGED <<clockVars, fixed, timer, engineVars, netVars, work, wait>>

(* Mutant: the timer is made for the deadline, not for what remains.        *)
StartTimerEarly(k) ==
  /\ look[k].pc = "after"
  /\ After(look[k].remaining - 1)
  /\ timer' = Len(chans) + 1 /\ spent' = FALSE
  /\ mu' = None /\ No(k)
  /\ UNCHANGED <<fixed, engineVars, tokens, rival, since, work, wait>>

StartTimer(k) ==
  /\ look[k].pc = "after"
  /\ After(look[k].remaining)
  /\ timer' = Len(chans) + 1 /\ spent' = FALSE
  /\ mu' = None /\ No(k)
  /\ UNCHANGED <<fixed, engineVars, tokens, rival, since, work, wait>>

(* The only tick of a real timer has been received.                         *)
TickGone == ~virtual /\ timer # 0 /\ chans[timer].ticks > 0 /\ ~chans[timer].full

(* What comes of a firing, which Executor has step by step: it consumes the *)
(* token, or finds none, or its task fails and the rollback gives it back.  *)
Fire ==
  /\ \/ Enabled /\ tokens' = tokens - 1 /\ UNCHANGED work
     \/ ~Enabled /\ UNCHANGED <<tokens, work>>
     \/ Enabled /\ Work /\ UNCHANGED tokens
  /\ spent' = (spent \/ TickGone)
  /\ UNCHANGED <<rival, since>>

LoopFires ==
  /\ look[loop].pc = "fire"
  /\ Fire /\ LookAt(loop, "idle")
  /\ UNCHANGED <<clockVars, fixed, timer, mu, waiter, waiting, engineVars, wait>>

(* fireSequential fires the first it was given and drops the answers of the *)
(* others, in any order, as Go goes through a map.  The rival is fired when *)
(* it is the first, or the only one.                                        *)
LoopFiresOther ==
  /\ rival /\ rival' = FALSE
  /\ look[loop].pc = "fire" \/ (look[loop].pc = "idle" /\ life # "stopped")
  /\ LookAt(loop, "idle")
  /\ spent' = (spent \/ (look[loop].pc = "fire" /\ TickGone))
  /\ UNCHANGED <<clockVars, fixed, timer, mu, waiter, waiting, engineVars, tokens, since, work, wait>>

-----------------------------------------------------------------------------
(* The waiter goroutine: AwaitFiring, and the firing after it.              *)

Exit(w) == waiter' = [waiter EXCEPT ![w] = NoWaiter] /\ waiting' = FALSE

WaiterEnter(w) ==
  /\ waiter[w].pc = "enter" /\ mu = None
  /\ IF timer = 0 THEN Exit(w)
     ELSE waiter' = [waiter EXCEPT ![w] = [pc |-> "await", chan |-> timer]] /\ UNCHANGED waiting
  /\ UNCHANGED <<clockVars, fixed, timer, mu, look, engineVars, netVars, work, wait>>

WaiterWakes(w) ==
  /\ waiter[w].pc = "await"
  /\ Receive(waiter[w].chan)
  /\ waiter' = [waiter EXCEPT ![w] = [pc |-> "ready", chan |-> 0]]
  /\ UNCHANGED <<fixed, timer, mu, look, waiting, engineVars, netVars, work, wait>>

WaiterGivesUp(w) ==
  /\ waiter[w].pc = "await" /\ cancelled
  /\ Exit(w)
  /\ UNCHANGED <<clockVars, fixed, timer, mu, look, engineVars, netVars, work, wait>>

(* Mutant: a waiter that was left behind for a timer does not fire.         *)
WaiterReturns(w) ==
  /\ waiter[w].pc = "ready"
  /\ Exit(w)
  /\ UNCHANGED <<clockVars, fixed, timer, mu, look, engineVars, netVars, work, wait>>

WaiterFires(w) ==
  /\ waiter[w].pc = "ready"
  /\ Fire /\ Exit(w)
  /\ UNCHANGED <<clockVars, fixed, timer, mu, look, engineVars, wait>>

-----------------------------------------------------------------------------
(* Stop cancels the trigger if a waiter waits for it, and then waits for    *)
(* the loop.  A loop whose context has ended stops by itself and cancels    *)
(* nothing.                                                                 *)

Stop ==
  /\ life = "running" /\ mu = None
  /\ life' = "stopping"
  /\ waiting' = FALSE
  /\ timer' = (IF waiting THEN 0 ELSE timer) /\ spent' = (spent /\ ~waiting)
  /\ UNCHANGED <<clockVars, fixed, mu, look, waiter, cancelled, tokens, rival, since, work, wait>>

LoopCancelled ==
  /\ life = "running" /\ cancelled /\ look[loop].pc = "idle"
  /\ life' = "stopped"
  /\ UNCHANGED <<clockVars, trigVars, cancelled, netVars, work, wait>>

StopDone ==
  /\ life = "stopping" /\ look[loop].pc = "idle"
  /\ life' = "stopped"
  /\ UNCHANGED <<clockVars, trigVars, cancelled, netVars, work, wait>>

Start ==
  /\ life = "stopped" /\ Work
  /\ life' = "running"
  /\ UNCHANGED <<clockVars, trigVars, cancelled, netVars, wait>>

CancelContext ==
  /\ ~cancelled /\ Work
  /\ cancelled' = TRUE
  /\ UNCHANGED <<clockVars, trigVars, life, netVars, wait>>

PutToken ==
  /\ Work
  /\ tokens' = tokens + 1
  /\ since' = IF since = Never THEN now ELSE since
  /\ UNCHANGED <<clockVars, trigVars, engineVars, rival, spent, wait>>

PutOther ==
  /\ ~rival /\ Work
  /\ rival' = TRUE
  /\ UNCHANGED <<clockVars, trigVars, engineVars, tokens, since, spent, wait>>

TimePasses ==
  /\ \E u \in now + 1 .. MaxTime : AdvanceTo(u)
  /\ wait' = [s \in Sleeper |-> [wait[s] EXCEPT !.moved = @ \/ wait[s].pc = "planned"]]
  /\ UNCHANGED <<trigVars, engineVars, netVars, work>>

-----------------------------------------------------------------------------
(* WaitTask.Execute: due is the time for which the task waits, its Until or *)
(* the end of its Duration.  What is left until then is computed first, and *)
(* the goroutine that sleeps that long is started later; moved means that   *)
(* the clock has moved in between.                                          *)

WaitBegin(s) ==
  /\ wait[s].pc = "off" /\ Work
  /\ \E due \in {At} \cup {now + d : d \in Lengths} :
       wait' = [wait EXCEPT ![s] = [pc |-> IF due > now THEN "planned" ELSE "over",
                                    d |-> due - now, due |-> due, moved |-> FALSE]]
  /\ UNCHANGED <<clockVars, trigVars, engineVars, netVars>>

WaitSleeps(s) ==
  /\ wait[s].pc = "planned"
  /\ Sleep(s, wait[s].d)
  /\ wait' = [wait EXCEPT ![s].pc = "sleeping"]
  /\ UNCHANGED <<trigVars, engineVars, netVars, work>>

(* The goroutine that slept closes done, whether the task listens or not.   *)
WaitWakes(s) ==
  /\ Wake(s)
  /\ wait' = [wait EXCEPT ![s].pc = "over"]
  /\ UNCHANGED <<trigVars, engineVars, netVars, work>>

WaitCancelled(s) ==
  /\ wait[s].pc = "sleeping" /\ cancelled
  /\ wait' = [wait EXCEPT ![s].pc = "over"]
  /\ UNCHANGED <<clockVars, trigVars, engineVars, netVars, work>>

-----------------------------------------------------------------------------
Init ==
  /\ ClockInit
  /\ fixed \in BOOLEAN /\ timer = 0 /\ mu = None
  /\ look = [k \in Looker |-> NotLooking]
  /\ waiter = [w \in Waiter |-> NoWaiter] /\ waiting = FALSE
  /\ life = "stopped" /\ cancelled = FALSE
  /\ tokens = 0 /\ rival = FALSE /\ work = 0 /\ since = Never /\ spent = FALSE
  /\ wait = [s \in Sleeper |-> NoWait]

Looks(k) ==
  FindsEnabled(k) \/ Poll(k) \/ ReadDeadline(k) \/ ReadRemaining(k) \/ StartTimer(k)

WaiterStep(w) == WaiterEnter(w) \/ WaiterWakes(w) \/ WaiterGivesUp(w) \/ WaiterFires(w)

WaitStep(s) == WaitSleeps(s) \/ WaitWakes(s) \/ WaitCancelled(s)

Next ==
  \/ \E k \in Looker : Looks(k)
  \/ LoopFires \/ LoopFiresOther
  \/ \E w \in Waiter : WaiterStep(w)
  \/ Stop \/ LoopCancelled \/ StopDone \/ Start \/ CancelContext
  \/ PutToken \/ PutOther \/ TimePasses
  \/ \E s \in Sleeper : WaitBegin(s) \/ WaitStep(s)

(* Goroutines that can run do, and the mutex of the trigger, as any Go      *)
(* mutex, does not pass the loop over for ever; an observer need not call,  *)
(* but a call that has begun goes on.  Nobody has to advance the clock.     *)
Fairness ==
  /\ SF_vars(Looks(loop)) /\ WF_vars(LoopFires)
  /\ WF_vars(look[observer].pc # "idle" /\ Looks(observer))
  /\ \A w \in Waiter : WF_vars(WaiterStep(w))
  /\ \A s \in Sleeper : WF_vars(WaitStep(s))

Spec == Init /\ [][Next]_vars /\ Fairness

-----------------------------------------------------------------------------
Overdue(s) ==
  asleep[s].blocked /\ now >= IF wait[s].moved THEN asleep[s].deadline ELSE wait[s].due

(* A wait task and its goroutine do not outlast the time for which the task *)
(* waits ("a specific time to wait until"), also when the clock jumps over  *)
(* it or the task was cancelled.  Where the clock moved after the task had  *)
(* computed what is left and before its goroutine slept, only the end of    *)
(* that sleep is a bound: then a task with Until = 1 that has computed at 0 *)
(* sleeps until 2, for ever if the clock stands still at 1.                 *)
SleepersWake ==
  \A s \in Sleeper : Overdue(s) ~> ~asleep[s].blocked /\ wait[s].pc = "over"

(* No firing comes before its time: that of At, or a Delay after the        *)
(* transition became enabled for the first time; whoever fires, and through *)
(* timers that Cancel has forgotten as well.                                *)
NeverEarly ==
  [][tokens' < tokens => now >= IF fixed THEN At ELSE since + Delay]_vars

Starting == \E k \in Looker : look[k].pc = "after"

Due ==
  /\ Enabled /\ life = "running" /\ ~cancelled
  /\ IF timer = 0 THEN fixed /\ now >= At /\ ~Starting ELSE chans[timer].ticks > 0

(* A transition whose time has come and that stays enabled is fired, and on *)
(* a virtual clock, whose channels stay readable, always.  The one tick of  *)
(* a real timer may be gone: an observer drops its answer, the loop fires   *)
(* another transition, or the firing it was taken for has happened, found   *)
(* no token, or failed; nobody else takes it, and what took it first must   *)
(* have come to its end.                                                    *)
DueFires == Due ~> (~Enabled \/ life # "running" \/ cancelled \/ spent)

(* The trigger that Engine uses (Trigger), whose ShouldFire is one step, is *)
(* what this one looks like: the step in which the remaining time is read   *)
(* is the one in which its timer starts.                                    *)
trigBar ==
  [x \in {t} |->
     [chan  |-> IF timer # 0 \/ Starting THEN "open" ELSE "nil",
      full  |-> timer # 0 /\ Ready(timer),
      ready |-> FALSE, by |-> {},
      past  |-> IF timer # 0 THEN chans[timer].ticks > 0
                ELSE ~Starting /\ fixed /\ now >= At]]

Abstract(v, f) ==
  INSTANCE Trigger WITH
    Transition <- {t}, Kind <- [x \in {t} |-> "timed"], Approvers <- [x \in {t} |-> {}],
    RequireAll <- {}, Expiring <- {}, FixedTime <- f, VirtualTime <- v,
    trig <- trigBar, panicked <- FALSE

(* A timer that was made late (the clock moved in between) may be cancelled *)
(* when the time of At has come, but not that of the timer.                 *)
AbstractStep(v, f) ==
  \/ Abstract(v, f)!AskShouldFire(t)
  \/ Abstract(v, f)!CanWake(t) /\ Abstract(v, f)!Wake(t)
  \/ Abstract(v, f)!Ring(t)
  \/ Abstract(v, f)!Cancel({t})
  \/ f # {} /\ trigBar' = [x \in {t} |-> [Abstract(v, f)!Cancelled(x) EXCEPT !.past = TRUE]]

(* An answer TRUE is one that Trigger gives too, or a Delay that ran out    *)
(* between the two looks at the clock.                                      *)
AbstractAnswer(v, f) ==
  look[loop].pc # "fire" /\ look'[loop].pc = "fire" =>
    Abstract(v, f)!ShouldFire(t) \/ (timer = 0 /\ ~fixed)

(* Every step of the trigger, of its look and of its waiters is a step of  *)
(* Trigger or changes nothing that Trigger sees.                            *)
RefinesTrigger ==
  /\ Abstract(TRUE, {})!TriggerInit
  /\ [][\A v \in BOOLEAN, f \in {{}, {t}} :
          virtual = v /\ fixed = (f # {}) =>
            (AbstractStep(v, f) \/ trigBar' = trigBar) /\ AbstractAnswer(v, f)]_vars
=============================================================================
