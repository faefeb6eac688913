------------------------------- MODULE Engine --------------------------------
(***************************************************************************)
(* The engine (engine/engine.go): clients call Start, Stop, Pause, Resume, *)
(* Step and Wait; each Start leaves a goroutine in run, the loop that      *)
(* looks for enabled transitions and fires them; a transition whose        *)
(* trigger is not ready gets a waiter goroutine that fires it when it is.  *)
(* A firing is one of module TokenGame, which Executor implements: it      *)
(* takes time, and the goroutines interleave with it.                      *)
(*                                                                         *)
(* Each Start makes a new generation of stopCh and doneCh, and Start and   *)
(* Resume make a new pauseCh: channels are numbers here, and the sets      *)
(* closedStop, closedDone and closedPause hold those that are closed.      *)
(***************************************************************************)
EXTENDS Trigger

CONSTANTS
  Client, Loop, Waiter,   \* goroutines; Loop and Waiter bound how many exist
  Place, Pre, Post, Capacity, InitialMarking,
  Mode,                   \* "sequential" or "concurrent"
  StepMode,
  MaxConcurrent,          \* MaxConcurrentTransitions
  Tasked,                 \* transitions whose task may fail
  MaxCalls,               \* bound on the calls of the clients
  None

ASSUME EngineAssumption ==
  /\ Pre \in [Transition -> [Place -> Nat]] /\ Post \in [Transition -> [Place -> Nat]]
  /\ Capacity \in [Place -> Nat \ {0}] /\ InitialMarking \in [Place -> Nat]
  /\ Mode \in {"sequential", "concurrent"} /\ StepMode \in BOOLEAN
  /\ MaxConcurrent \in Nat \ {0} /\ MaxCalls \in Nat
  /\ Tasked \subseteq Transition
  /\ None \notin Transition \cup Client \cup Loop \cup Waiter

VARIABLES
  marking, firing,   \* of TokenGame
  state, paused,     \* Engine.state, Engine.paused
  gen, pauseGen,     \* the current stopCh and doneCh, the current pauseCh
  closedStop, closedDone, closedPause,
  waiting,           \* waitingTransitions
  client,            \* client[c]: the call of c
  loop,              \* loop[l]: the run goroutine l
  worker,            \* worker[<<l, t>>]: the firing of t that l has started
  waiter,            \* waiter[w]: the waiter goroutine w
  cancelled,         \* Context.Done() is closed
  calls,
  stops,             \* history: number of Stop calls that cleared waiting
  cut,               \* history: transitions whose trigger a Stop has cancelled
  restarted,         \* history: Start was called while the engine was paused or
                     \* a Stop was going on
  late               \* history: late[l]: firings l began while paused, since Pause

netVars == <<marking, firing>>
chanVars == <<gen, pauseGen, closedStop, closedDone, closedPause>>
lifeVars == <<state, paused, chanVars>>
historyVars == <<stops, cut, restarted, late>>
vars == <<triggerVars, netVars, lifeVars, waiting, client, loop, worker, waiter,
          cancelled, calls, historyVars>>

Worker == Loop \X Transition

Game == INSTANCE TokenGame WITH Thread <- Client \cup Worker \cup Waiter, Limited <- FALSE

NoLoop == [pc |-> "off", done |-> 0, stop |-> 0, pause |-> 0, todo |-> {}, found |-> {}]
NoWaiter == [pc |-> "off", t |-> None, chan |-> "current"]
NoCall == [pc |-> "idle", gen |-> 0, t |-> None, todo |-> {}, found |-> {}]

-----------------------------------------------------------------------------
(* IsEnabled looks at the tokens; the guard that it calls then is left out, *)
(* as if there were none (Executor has guards).  Between it and the firing  *)
(* the tokens may go; and a firing also fails when it finds a place empty   *)
(* that the IsEnabled of another goroutine has drained: of a look for       *)
(* enabled transitions, of a waiter, or of Fire, which asks it again.       *)
Enabled(t) == \A p \in Place : marking[p] >= Pre[t][p]

Looking(th) ==
  \/ \E c \in Client : client[c].pc \in {"step", "wait"}
  \/ \E c \in Client : client[c].pc = "fire" /\ c # th
  \/ \E l \in Loop : loop[l].pc = "find"
  \/ \E w \in Waiter : waiter[w].pc = "check"

ConsumeFails(th, t) == ~Enabled(t) \/ Looking(th)

(* The firing of th goes on, and ends with success or not.  (A rollback that *)
(* a full place refuses, Game!Lose, is left to Executor.)                   *)
Proceed(th) == \E p \in Place : Game!Put(th, p)

EndOfFiring(th) ==
  \/ Game!Commit(th)
  \/ Game!Abort(th) /\ firing[th].trans \in Tasked
  \/ Game!Fail(th)

-----------------------------------------------------------------------------
(* findEnabledTransitions, called by a goroutine that has still to look at  *)
(* todo and has found those in found: one transition of the map.  IsEnabled *)
(* and ShouldFire read different things, so that one step does both.        *)

(* Goroutines are alike: a new one is any of those that do not exist.       *)
NewWaiter == CHOOSE w \in Waiter : waiter[w].pc = "off"
NewLoop == CHOOSE l \in Loop : loop[l].pc = "off"

CanSpawn == \E w \in Waiter : waiter[w].pc = "off"

LeaveWaiter(t) ==
  /\ CanSpawn
  /\ waiting' = waiting \cup {t}
  /\ waiter' = [waiter EXCEPT ![NewWaiter] = [pc |-> "enter", t |-> t, chan |-> "current"]]

(* Mutant: every look at a transition that is not ready leaves a waiter.    *)
SpawnAlways(t) == LeaveWaiter(t)

Spawn(t) ==
  IF t \in waiting THEN UNCHANGED <<waiting, waiter>> ELSE LeaveWaiter(t)

(* Note(b) records in the goroutine that looks whether t may fire now.      *)
Look(t, Note(_)) ==
  \/ ~Enabled(t) /\ Note(FALSE) /\ UNCHANGED <<trig, waiting, waiter>>
  \/ /\ Enabled(t) /\ ShouldFire(t) /\ Note(TRUE)
     /\ AskShouldFire(t) /\ UNCHANGED <<waiting, waiter>>
  \/ /\ Enabled(t) /\ ~ShouldFire(t) /\ Note(FALSE)
     /\ AskShouldFire(t) /\ Spawn(t)

-----------------------------------------------------------------------------
(* run: the loop.                                                           *)

LoopAt(l, pc) == loop' = [loop EXCEPT ![l].pc = pc]

OnlyLoop ==
  UNCHANGED <<netVars, closedDone, trig, panicked, state, waiting, waiter, worker, late>>

(* "defer close(e.doneCh)" looks up doneCh when the goroutine gets to it,   *)
(* the select of an iteration looks up stopCh without the mutex.            *)
LoopBegin(l) ==
  /\ loop[l].pc = "begin"
  /\ loop' = [loop EXCEPT ![l].pc = "top", ![l].done = gen]
  /\ OnlyLoop

(* Mutant: the pause flag is not looked at.                                 *)
LoopTopNeverPauses(l) ==
  /\ loop[l].pc = "top"
  /\ loop' = [loop EXCEPT ![l].pc = "running", ![l].pause = pauseGen]
  /\ OnlyLoop

LoopTop(l) ==
  /\ loop[l].pc = "top"
  /\ loop' = [loop EXCEPT ![l].pc = IF paused THEN "pausing" ELSE "running",
                          ![l].pause = pauseGen]
  /\ OnlyLoop

LoopSelect(l) ==
  /\ loop[l].pc \in {"pausing", "running"}
  /\ loop' = [loop EXCEPT ![l].pc = IF @ = "pausing" THEN "paused" ELSE "select",
                          ![l].stop = gen]
  /\ OnlyLoop

(* Mutant: a paused loop waits for Resume only.                             *)
LoopStoppedUnlessPaused(l) ==
  /\ loop[l].pc = "select"
  /\ loop[l].stop \in closedStop \/ cancelled
  /\ LoopAt(l, "exit")
  /\ OnlyLoop

LoopStopped(l) ==
  /\ loop[l].pc \in {"paused", "select"}
  /\ loop[l].stop \in closedStop \/ cancelled
  /\ LoopAt(l, "exit")
  /\ OnlyLoop

LoopResumed(l) ==
  /\ loop[l].pc = "paused" /\ loop[l].pause \in closedPause
  /\ LoopAt(l, "top")
  /\ OnlyLoop

(* In step mode the loop leaves the transitions alone and goes round.       *)
LoopTick(l) ==
  /\ loop[l].pc = "select"
  /\ loop' = IF StepMode THEN [loop EXCEPT ![l].pc = "top"]
             ELSE [loop EXCEPT ![l].pc = "find", ![l].todo = Transition, ![l].found = {}]
  /\ OnlyLoop

LoopFind(l) ==
  /\ loop[l].pc = "find"
  /\ \E t \in loop[l].todo :
       Look(t, LAMBDA b : loop' = [loop EXCEPT ![l].todo = @ \ {t},
                                     ![l].found = IF b THEN @ \cup {t} ELSE @])
  /\ UNCHANGED <<netVars, closedDone, panicked, state, worker, late>>

(* fireSequential takes the first of the list, fireConcurrent all.          *)
LoopFound(l) ==
  /\ loop[l].pc = "find" /\ loop[l].todo = {}
  /\ IF loop[l].found = {} THEN LoopAt(l, "top")
     ELSE \E batch \in IF Mode = "concurrent" THEN {loop[l].found}
                       ELSE {{t} : t \in loop[l].found} :
            loop' = [loop EXCEPT ![l].pc = "fire", ![l].found = batch]
  /\ OnlyLoop

(* The firings of a batch are counted in executingCount, here the workers   *)
(* that are not off, from the step that starts them to the one that ends    *)
(* them; sem admits MaxConcurrentTransitions.                               *)
Workers(l) == {x \in Worker : x[1] = l /\ worker[x] # "off"}
Executing == {x \in Worker : worker[x] # "off"}

LoopFire(l) ==
  /\ loop[l].pc = "fire" /\ Cardinality(Workers(l)) < MaxConcurrent
  /\ \E t \in loop[l].found :
       /\ worker' = [worker EXCEPT ![<<l, t>>] = "start"]
       /\ loop' = [loop EXCEPT ![l].found = @ \ {t}]
  /\ UNCHANGED <<netVars, closedDone, trig, panicked, state, waiting, waiter, late>>

LoopFired(l) ==
  /\ loop[l].pc = "fire" /\ loop[l].found = {} /\ Workers(l) = {}
  /\ LoopAt(l, "top")
  /\ OnlyLoop

(* The deferred functions, in their order.                                  *)
LoopExit(l) ==
  /\ loop[l].pc = "exit"
  /\ state' = "stopped"
  /\ LoopAt(l, "close")
  /\ UNCHANGED <<netVars, closedDone, trig, panicked, waiting, waiter, worker, late>>

LoopClose(l) ==
  /\ loop[l].pc = "close"
  /\ closedDone' = closedDone \cup {loop[l].done}
  /\ panicked' = (loop[l].done \in closedDone)
  /\ loop' = [loop EXCEPT ![l] = NoLoop]
  /\ UNCHANGED <<netVars, trig, state, waiting, waiter, worker, late>>

(* FireUnchecked in a goroutine that the loop has started: fireMu admits    *)
(* one firing of a transition.                                              *)
MuFree(t) == \A th \in DOMAIN firing : firing[th] # None => firing[th].trans # t

WorkerStart(x) ==
  /\ worker[x] = "start" /\ MuFree(x[2])
  /\ \/ /\ Game!Start(x, x[2])
        /\ worker' = [worker EXCEPT ![x] = "firing"]
        /\ late' = IF paused THEN [late EXCEPT ![x[1]] = @ + 1] ELSE late
     \/ /\ ConsumeFails(x, x[2])
        /\ worker' = [worker EXCEPT ![x] = "off"]
        /\ UNCHANGED <<netVars, late>>

WorkerFiring(x) ==
  /\ worker[x] = "firing"
  /\ \/ Proceed(x) /\ UNCHANGED worker
     \/ EndOfFiring(x) /\ worker' = [worker EXCEPT ![x] = "off"]
  /\ UNCHANGED late

LoopStep(l) ==
  /\ \/ LoopBegin(l) \/ LoopTop(l) \/ LoopSelect(l) \/ LoopStopped(l)
     \/ LoopResumed(l) \/ LoopTick(l) \/ LoopFind(l) \/ LoopFound(l)
     \/ LoopFire(l) \/ LoopFired(l) \/ LoopExit(l) \/ LoopClose(l)
     \/ /\ \E t \in Transition : WorkerStart(<<l, t>>) \/ WorkerFiring(<<l, t>>)
        /\ UNCHANGED <<closedDone, trig, panicked, state, waiting, waiter, loop>>
  /\ UNCHANGED <<paused, gen, pauseGen, closedStop, closedPause, client, cancelled,
                 calls, stops, cut, restarted>>

-----------------------------------------------------------------------------
(* The waiter goroutine of spawnTriggerWaiter.                              *)

WaiterAt(w, pc) == waiter' = [waiter EXCEPT ![w].pc = pc]

WaiterEnter(w) ==
  LET t == waiter[w].t IN
  /\ waiter[w].pc = "enter"
  /\ \/ AwaitFails(t) /\ WaiterAt(w, "exit") /\ UNCHANGED trig
     \/ ~AwaitFails(t) /\ WaiterAt(w, "await") /\ EnterAwait(t)
  /\ UNCHANGED <<netVars, waiting>>

(* chan is "current" while the waiter waits on the channel the trigger has  *)
(* now; a timer that Cancel forgot rings nevertheless, unless its only tick *)
(* is gone ("spent"); a channel that Cancel closed is ready.                *)
WaiterWake(w) ==
  LET t == waiter[w].t IN
  /\ waiter[w].pc = "await"
  /\ \/ waiter[w].chan = "current" /\ CanWake(t) /\ Wake(t)
     \/ waiter[w].chan = "timer" /\ UNCHANGED trig
     \/ waiter[w].chan = "closed" /\ trig' = [trig EXCEPT ![t].ready = TRUE]
  /\ WaiterAt(w, "check")
  /\ UNCHANGED <<netVars, waiting>>

(* Mutant: the timeout of an approval counts as one.                        *)
WaiterGivesUpFires(w) ==
  /\ waiter[w].pc = "await"
  /\ waiter[w].t \in Expiring \/ cancelled
  /\ WaiterAt(w, "check")
  /\ UNCHANGED <<netVars, trig, waiting>>

WaiterGivesUp(w) ==
  /\ waiter[w].pc = "await"
  /\ waiter[w].t \in Expiring \/ cancelled
  /\ WaiterAt(w, "exit")
  /\ UNCHANGED <<netVars, trig, waiting>>

WaiterCheck(w) ==
  /\ waiter[w].pc = "check"
  /\ WaiterAt(w, IF Enabled(waiter[w].t) THEN "fire" ELSE "exit")
  /\ UNCHANGED <<netVars, trig, waiting>>

WaiterFire(w) ==
  LET t == waiter[w].t IN
  /\ waiter[w].pc = "fire" /\ MuFree(t)
  /\ \/ Game!Start(w, t) /\ WaiterAt(w, "firing")
     \/ ConsumeFails(w, t) /\ WaiterAt(w, "exit") /\ UNCHANGED netVars
  /\ UNCHANGED <<trig, waiting>>

WaiterFiring(w) ==
  /\ waiter[w].pc = "firing"
  /\ \/ Proceed(w) /\ UNCHANGED waiter
     \/ EndOfFiring(w) /\ WaiterAt(w, "exit")
  /\ UNCHANGED <<trig, waiting>>

WaiterExit(w) ==
  /\ waiter[w].pc = "exit"
  /\ waiting' = waiting \ {waiter[w].t}
  /\ waiter' = [waiter EXCEPT ![w] = NoWaiter]
  /\ UNCHANGED <<netVars, trig>>

WaiterStep(w) ==
  /\ \/ WaiterEnter(w) \/ WaiterWake(w) \/ WaiterGivesUp(w) \/ WaiterCheck(w)
     \/ WaiterFire(w) \/ WaiterFiring(w) \/ WaiterExit(w)
  /\ UNCHANGED <<panicked, lifeVars, client, loop, worker, cancelled, calls, historyVars>>

-----------------------------------------------------------------------------
(* The clients.  A call that changes nothing (Start of a running engine,    *)
(* Stop of a stopped one, Pause, Resume and Step in the wrong state)        *)
(* returns at once and is left out.                                         *)

Called(c, g) ==
  /\ client[c].pc = "idle" /\ calls < MaxCalls
  /\ calls' = calls + 1
  /\ client' = [client EXCEPT ![c] = g]

Stopping(c) == client[c].pc \in {"stop_cancel", "stop_close", "stop_wait"}

ClientAt(c, pc) == client' = [client EXCEPT ![c].pc = pc]

OnlyClient == UNCHANGED <<triggerVars, netVars, lifeVars, waiting, loop, waiter, calls, historyVars>>

Start(c) ==
  /\ state # "running"
  /\ Called(c, NoCall)
  /\ state' = "running" /\ paused' = FALSE
  /\ gen' = gen + 1 /\ pauseGen' = pauseGen + 1
  /\ \E l \in Loop : loop[l].pc = "off"
  /\ loop' = [loop EXCEPT ![NewLoop].pc = "begin"]
  /\ restarted' = (restarted \/ state = "paused" \/ \E d \in Client : Stopping(d))
  /\ UNCHANGED <<triggerVars, netVars, closedStop, closedDone, closedPause,
                 waiting, waiter, stops, cut, late>>

Pause(c) ==
  /\ state = "running" /\ ~paused
  /\ Called(c, NoCall)
  /\ state' = "paused" /\ paused' = TRUE /\ late' = [l \in Loop |-> 0]
  /\ UNCHANGED <<triggerVars, netVars, chanVars, waiting, loop, waiter, stops, cut, restarted>>

Resume(c) ==
  /\ state = "paused"
  /\ Called(c, NoCall)
  /\ state' = "running" /\ paused' = FALSE
  /\ closedPause' = closedPause \cup {pauseGen} /\ pauseGen' = pauseGen + 1
  /\ UNCHANGED <<triggerVars, netVars, gen, closedStop, closedDone, waiting, loop,
                 waiter, historyVars>>

(* Stop: take the channels, cancel the triggers and forget the waiters,     *)
(* close stopCh, wait for doneCh, and set the state.                        *)
Stop(c) ==
  /\ state # "stopped"
  /\ Called(c, [NoCall EXCEPT !.pc = "stop_cancel", !.gen = gen])
  /\ UNCHANGED <<triggerVars, netVars, lifeVars, waiting, loop, waiter, historyVars>>

WhenCancelled(w) ==
  IF waiter[w].t \in waiting /\ waiter[w].pc = "await" /\ waiter[w].chan = "current"
  THEN CASE Kind[waiter[w].t] = "timed" ->
              [waiter[w] EXCEPT !.chan = IF TickTaken(waiter[w].t) THEN "spent" ELSE "timer"]
         [] Kind[waiter[w].t] = "event" -> [waiter[w] EXCEPT !.chan = "closed"]
         [] OTHER -> waiter[w]
  ELSE waiter[w]

StopCancel(c) ==
  /\ client[c].pc = "stop_cancel"
  /\ Cancel(waiting)
  /\ waiter' = [w \in Waiter |-> WhenCancelled(w)]
  /\ waiting' = {}
  /\ ClientAt(c, "stop_close")
  /\ stops' = stops + 1 /\ cut' = cut \cup waiting
  /\ UNCHANGED <<netVars, lifeVars, loop, calls, restarted, late>>

StopClose(c) ==
  /\ client[c].pc = "stop_close"
  /\ closedStop' = closedStop \cup {client[c].gen}
  /\ panicked' = (client[c].gen \in closedStop)
  /\ ClientAt(c, "stop_wait")
  /\ UNCHANGED <<trig, netVars, state, paused, gen, pauseGen, closedDone, closedPause,
                 waiting, loop, waiter, calls, historyVars>>

(* Mutant: doneCh is not waited for.                                        *)
StopDoneAtOnce(c) ==
  /\ client[c].pc = "stop_wait"
  /\ state' = "stopped" /\ paused' = FALSE
  /\ ClientAt(c, "idle")
  /\ UNCHANGED <<triggerVars, netVars, chanVars, waiting, loop, waiter, calls, historyVars>>

StopDone(c) ==
  /\ client[c].pc = "stop_wait" /\ client[c].gen \in closedDone
  /\ state' = "stopped" /\ paused' = FALSE
  /\ ClientAt(c, "idle")
  /\ UNCHANGED <<triggerVars, netVars, chanVars, waiting, loop, waiter, calls, historyVars>>

(* Step, and TryStep, which differs in its answer, and Wait look for        *)
(* enabled transitions, as the loop does, and leave waiters as it does.     *)
Step(c) ==
  /\ state # "running" \/ StepMode
  /\ Called(c, [NoCall EXCEPT !.pc = "step", !.todo = Transition])
  /\ UNCHANGED <<triggerVars, netVars, lifeVars, waiting, loop, waiter, historyVars>>

Wait(c) ==
  /\ Called(c, [NoCall EXCEPT !.pc = "wait", !.todo = Transition])
  /\ UNCHANGED <<triggerVars, netVars, lifeVars, waiting, loop, waiter, historyVars>>

ClientFind(c) ==
  /\ client[c].pc \in {"step", "wait"}
  /\ \E t \in client[c].todo :
       Look(t, LAMBDA b : client' = [client EXCEPT ![c].todo = @ \ {t},
                                       ![c].found = IF b THEN @ \cup {t} ELSE @])
  /\ UNCHANGED <<panicked, netVars, lifeVars, loop, calls, historyVars>>

StepFound(c) ==
  /\ client[c].pc = "step" /\ client[c].todo = {}
  /\ IF client[c].found = {} THEN client' = [client EXCEPT ![c] = NoCall]
     ELSE \E t \in client[c].found :
            client' = [client EXCEPT ![c] = [NoCall EXCEPT !.pc = "fire", !.t = t]]
  /\ OnlyClient

(* Fire: IsEnabled again, under fireMu, in one step with what it allows;    *)
(* for others its drain lasts from the moment the client comes to it.       *)
StepFire(c) ==
  /\ client[c].pc = "fire" /\ MuFree(client[c].t)
  /\ \/ Game!Start(c, client[c].t) /\ ClientAt(c, "firing")
     \/ ConsumeFails(c, client[c].t) /\ ClientAt(c, "idle") /\ UNCHANGED netVars
  /\ UNCHANGED <<triggerVars, lifeVars, waiting, loop, waiter, calls, historyVars>>

StepFiring(c) ==
  /\ client[c].pc = "firing"
  /\ \/ Proceed(c) /\ UNCHANGED client
     \/ EndOfFiring(c) /\ ClientAt(c, "idle")
  /\ UNCHANGED <<triggerVars, lifeVars, waiting, loop, waiter, calls, historyVars>>

(* executingCount is read when the list is there.  Wait returns, goes round *)
(* once more after the next tick, or runs into its timeout.                 *)
WaitReturns(c) ==
  client[c].pc = "wait" /\ client[c].todo = {} /\ client[c].found = {} /\ Executing = {}

WaitRead(c) ==
  /\ client[c].pc = "wait" /\ client[c].todo = {}
  /\ \/ WaitReturns(c) /\ ClientAt(c, "idle")
     \/ /\ ~WaitReturns(c)
        /\ client' = [client EXCEPT ![c] =
                        [NoCall EXCEPT !.pc = "wait", !.todo = Transition]]
     \/ /\ ~WaitReturns(c)
        /\ ClientAt(c, "idle")
  /\ OnlyClient

ClientStep(c) ==
  /\ \/ Start(c) \/ Pause(c) \/ Resume(c) \/ Stop(c) \/ Step(c) \/ Wait(c)
     \/ StopCancel(c) \/ StopClose(c) \/ StopDone(c) \/ ClientFind(c)
     \/ StepFound(c) \/ StepFire(c) \/ StepFiring(c) \/ WaitRead(c)
  /\ UNCHANGED <<worker, cancelled>>

-----------------------------------------------------------------------------
(* Approvals, the clock, events, and the cancellation of the context.       *)
EnvironmentStep ==
  /\ \/ Environment /\ UNCHANGED cancelled
     \/ ~cancelled /\ cancelled' = TRUE /\ UNCHANGED triggerVars
  /\ UNCHANGED <<netVars, lifeVars, waiting, client, loop, worker, waiter, calls, historyVars>>

Init ==
  /\ TriggerInit /\ Game!GameInit
  /\ state = "stopped" /\ paused = FALSE
  /\ gen = 0 /\ pauseGen = 0
  /\ closedStop = {} /\ closedDone = {} /\ closedPause = {}
  /\ waiting = {}
  /\ client = [c \in Client |-> NoCall]
  /\ loop = [l \in Loop |-> NoLoop]
  /\ worker = [x \in Worker |-> "off"]
  /\ waiter = [w \in Waiter |-> NoWaiter]
  /\ cancelled = FALSE /\ calls = 0
  /\ stops = 0 /\ cut = {} /\ restarted = FALSE /\ late = [l \in Loop |-> 0]

(* A panic ends the program.                                                *)
Next ==
  /\ ~panicked
  /\ \/ \E c \in Client : ClientStep(c)
     \/ \E l \in Loop : LoopStep(l)
     \/ \E w \in Waiter : WaiterStep(w)
     \/ EnvironmentStep

(* Goroutines keep running.  A select with several cases ready chooses at   *)
(* random, so that a loop that comes to it again and again sees the stop.   *)
Fairness ==
  /\ \A c \in Client :
       WF_vars(~panicked /\ client[c].pc # "idle" /\ ClientStep(c))
  /\ \A l \in Loop : /\ WF_vars(~panicked /\ LoopStep(l))
                     /\ SF_vars(~panicked /\ LoopStopped(l) /\ LoopStep(l))
  /\ \A w \in Waiter : WF_vars(~panicked /\ WaiterStep(w))

Spec == Init /\ [][Next]_vars /\ Fairness

-----------------------------------------------------------------------------
TypeOK ==
  /\ trig \in [Transition -> TriggerType] /\ panicked \in BOOLEAN
  /\ Game!GameTypeOK
  /\ state \in {"stopped", "running", "paused"} /\ paused \in BOOLEAN
  /\ gen \in 0 .. MaxCalls /\ pauseGen \in 0 .. MaxCalls
  /\ closedStop \cup closedDone \subseteq 1 .. gen
  /\ closedPause \subseteq 1 .. pauseGen - 1
  /\ waiting \subseteq Transition
  /\ worker \in [Worker -> {"off", "start", "firing"}]
  /\ \A x \in Worker : worker[x] = "firing" <=> firing[x] # None
  /\ \A w \in Waiter : waiter[w].pc = "firing" <=> firing[w] # None
  /\ \A t \in waiting : Kind[t] # "none"
  /\ calls \in 0 .. MaxCalls /\ stops \in 0 .. MaxCalls

(* Stop "blocks until the execution loop has fully stopped": when it        *)
(* returns, no loop and nothing a loop has started is at work.  A Start of a *)
(* paused engine leaves a second loop, and one that comes after the loop    *)
(* has set the state and before Stop has returned makes a loop that the     *)
(* Stop does not know; then that is not so.                                 *)
StopLeavesNoLoop ==
  [][\A c \in Client :
       client[c].pc = "stop_wait" /\ client'[c].pc = "idle" /\ ~restarted
       => /\ \A l \in Loop : loop[l].pc \in {"off", "close"}
          /\ Executing = {}]_vars

(* "Transitions will not fire while the engine is paused" (doc of Pause):   *)
(* a loop that was past its look at the flag begins one more firing, and no *)
(* loop begins a second one.  (Waiters fire whenever their trigger is       *)
(* ready.)                                                                  *)
PauseLetsOneThrough ==
  Mode = "sequential" => \A l \in Loop : late[l] <= 1

Fires(th) == firing[th] = None /\ firing'[th] # None

Due(t) ==
  CASE Kind[t] = "none"  -> TRUE
    [] Kind[t] = "timed" -> trig[t].past
    [] OTHER             -> trig[t].ready

(* A transition fires only after what its trigger waits for, an approval,   *)
(* the scheduled time or an event, unless a Stop has cancelled the trigger: *)
(* Cancel closes the channel on which AwaitFiring waits, or forgets it.     *)
UntriggeredOnlyAfterCancel ==
  [][\A th \in DOMAIN firing :
       Fires(th) => Due(firing'[th].trans) \/ firing'[th].trans \in cut]_vars

(* "Only spawns one waiter per transition": a Stop forgets the waiters that *)
(* are still there, and each Stop lets one more exist for each transition,  *)
(* no more.                                                                 *)
WaitersBounded ==
  \A t \in Transition :
    Cardinality({w \in Waiter : waiter[w].pc # "off" /\ waiter[w].t = t}) <= 1 + stops

(* Stop returns, or the program has panicked.                               *)
StopReturns ==
  \A c \in Client : Stopping(c) ~> client[c].pc = "idle" \/ panicked
=============================================================================
