# Jazz Petri in TLA+

Jazz Petri is a workflow engine in Go: a workflow is a coloured Petri net, its
transitions run tasks, and an engine fires them. This directory models the
parts of it where goroutines meet (the places, the firing of transitions,
checkpoints, triggers, the engine, the clock, the event system, the tasks),
what outlives a process (checkpoint files and the event log), how a net is put
together, and the verifier and the dry run, whose verdicts are compared with
what the workflow then does. TLC checks the models on small instances; TLAPS
proves the refinements and every safety property that the runs check, for every
instance.

Paths below are relative to `src/`.

## The system

| Component | State | Operations | Talks to |
|---|---|---|---|
| Place (`petri/place.go`) | a buffered channel of tokens, `peekMu` | `AddToken`, `RemoveToken`, `PeekTokens`, `PeekTokensWithCount`, `Clear` | the counter of its net |
| Net (`petri/net.go`) | the graph as lists of IDs and, once resolved, of pointers; `GlobalCapacity`, `totalTokens` | `AddPlace`, `AddTransition`, `AddArc`, `Resolve`, `checkGlobalCapacity`, `incrementTokenCount` | places; the dry run reads both kinds of lists |
| Transition (`petri/transition.go`, `petri/executor.go`) | `fireMu` | `IsEnabled`, `Fire`, `FireUnchecked`, `BatchFire` | places, its guard, its task, the event log |
| Triggers (`petri/trigger*.go`) | a channel or timer, approvals, `ready` | `ShouldFire`, `AwaitFiring`, `Cancel`, `Approve` | approvers, the clock, the event system |
| Engine (`engine/engine.go`) | `state`, `paused`, `stopCh`, `doneCh`, `pauseCh`, `waitingTransitions`, `executingCount` | `Start`, `Stop`, `Pause`, `Resume`, `Step`, `Wait`, the loop, waiter goroutines | transitions and triggers |
| Checkpoints (`state/marking.go`, `state/restoration.go`, `state/serialization.go`, `engine/checkpoint.go`) | a `Marking`, a file | `NewMarking`, `RestoreMarkingToNet`, `Checkpoint`, `CheckpointWithEvents`, `RestoreFromFile`, `RestoreFromMarking` | places, one after the other; the state of the engine; the event log |
| Event log (`state/eventlog.go`) | a slice of events and an index by ID, a limit | `Append`, `Get`, `GetAll`, `Clear`, `SaveEventLogToFile`, `LoadEventLogFromFile` | written by transitions and the engine |
| Event system (`event/event_system.go`) | subscriptions, a channel | subscribe, publish, deliver, close | handlers of event triggers and event tasks |
| Clock (`clock/*.go`) | virtual time, timers, sleeps | `After`, `Sleep`, `AdvanceTo` | timed triggers, tasks |
| Verification (`verification/*.go`), dry run (`engine/dryrun.go`) | a state space | reachability search, property checks | reads the net |
| Tasks (`task/*.go`) | one execution | run, retry, wait, fan out, compensate | the execution context |
| Context, tokens, serialization, visualization | configuration | - | - |

What is hard about it, and what must hold:

* **No lock covers a place operation.** The two peeks empty the channel and
  fill it again under a mutex that `AddToken` and `RemoveToken` ignore; the
  counter of the net changes in a step of its own. Tokens must not be
  duplicated, must be lost only where the code says so, and the counter must
  stay accountable.
* **A firing takes many steps** (peek, guard, remove, task, add), several run at
  once, and each can fail in the middle. Seen from outside, a firing must take
  all of its inputs or none.
* **A restore clears the net first.** It must end with the checkpoint or with
  what was there.
* **Marking, log and file are read and written one after the other** while
  transitions fire, and a task that panics ends the process in the middle of
  anything. A file must tell a consistent story, a torn one must not be taken
  for a marking, and event IDs start again at 1 in every process.
* **The clock moves between two readings of it.** A timer must ring once and
  never early, a goroutine must not sleep past its time, and the one tick of a
  timer is there for one receiver.
* **A net can be changed after `Resolve`**, and IDs may be shared. What runs
  must be what was declared in time, and a net that `DryRun` calls valid must
  be one that can run.
* **The engine replaces its channels** at each `Start` and `Resume`, and reads
  them without its mutex. `Stop` must return, and leave nothing running.
* **Waiter goroutines outlive the loop** and fire on their own, with channels
  that approval, expiry, cancellation and `Stop` all touch.
* **`Publish` checks that the event system runs and sends in a later step**;
  `Close` drains the channel once and waits for handlers that may be clients
  themselves. What was accepted before `Close` must be delivered, once, in
  order, and nothing after it.
* **Tasks share one `ExecutionContext` by reference**, and a task with a timeout
  writes its own context into it. The result of a composite task must follow
  from those of its parts although parts race, time out, panic and are
  cancelled, and a cancelled tree must come to an end.
* **The verifier knows only atomic firings** and may stop at its limit. What it
  says must hold for the firings that overlap and fail.

The full list, each item at its line and with the properties aimed at it, is
under `hazards` in `PROJECT.json`.

## Modules

    PlaceChannel            the operations of a place, one action per channel step
      PlaceChannelProofs    proofs: types, peek mutex, counting, quiet peeks
      PlaceOps              ... called at will by any goroutine
        PlaceOpsProofs      proofs: counter, global limit, no token twice or lost,
                            snapshots and restores
      Executor              ... called by firings          => TokenGame
        ExecutorProofs      proofs: => TokenGame, the state equation, quiet firings
      Restoration           ... called by snapshot and restore
    TokenGame               what a firing promises: the token game
    Trigger                 the triggers
      Engine                loop, waiters, clients, over Trigger and TokenGame
        EngineProofs        proofs: triggers, pause, waiters, stop
    VirtualClock            timers and sleeps of the virtual and the real clock
      TimedTrigger          a timed trigger and wait tasks  => Trigger
        TimedTriggerProofs  proofs: the clock, never early, => Trigger
    EventLog                the list of events and its index
      Recovery              firings, checkpoints, files, restores, crashes
        RecoveryProofs      proofs: the log, => EventLog, files, tokens
    EventSystem             subscribe, publish, deliver, close
      EventSystemProofs     proofs: order and completeness of delivery; tasks
    NetBuilding             adding, resolving, the graph checks of DryRun
    StateSpace              the reachability search of the verifier
      Verifier              checks, witnesses, DryRun warnings, then TokenGame runs
        VerifierProofs      proofs: the graph is exact, what it says holds; nets
    TaskContext             contexts and who shares an ExecutionContext
      Tasks                 the tasks of a transition, as a tree

`PlaceChannel` has a record `call[th]` for the place operation that goroutine
`th` is in; `pc` names the next atomic step (a channel send or receive, a
critical section of `tokenMutex`, taking `peekMu`). `tokens[p]` is the content
of the channel. The modules that use it start a call and continue when its `pc`
is `"done"`. History variables (`before`, `disturbed`, `uncounted`, `lost`, and
`added` of `PlaceOps`, the peeks in whose place an `AddToken` has sent since they
locked it) are never read by an action that models code.

`Executor` adds `fire[th]`, the phase and loop variables of `fireInternal` and
its callers, and `fireMu`. A guard passes or refuses, a task succeeds or fails,
freely. `TokenGame` is its abstraction: the marking counts the tokens of a
place including those that a peek, a consumption or a rollback holds, and a
firing is one `Start`, its `Put`s, and a `Commit`, `Abort` or `Fail`.

`Restoration` has one goroutine that takes and restores checkpoints and others
that move tokens. Go map iteration is an arbitrary order of the places.

`Trigger` has one record for each trigger; each operator is one critical
section of the mutex of the trigger. `Engine` numbers the generations of
`stopCh`, `doneCh` and `pauseCh` and keeps the sets of the closed ones; closing
a closed channel sets `panicked`, and nothing happens after that. Its firings
are those of `TokenGame`, so that it inherits from `Executor` what a firing may
do; a look at a transition (`IsEnabled`, then `ShouldFire`) is one step, and
because a look may drain a place for a moment, a firing may fail while another
goroutine looks (`ConsumeFails`): one of a loop, a worker or a waiter, and the
`Fire` of a `Step`, which looks itself before it consumes. Guards are not in
`Engine` (they are in `Executor`, where they pass or refuse freely). `StepMode`
is a constant: with TRUE the loop skips every tick, which the theorems cover and
the two runs, where it is FALSE, do not reach. An event that comes while `Cancel`
closes the channel of an event trigger, which in the code is a send to a closed
channel recovered by the event system, is lost in `Trigger`.

`VirtualClock` has `chans`, the timer channels ever made, and the two lists of
the clock (`timers`, `sleeps`); the real clock differs in that a channel is not
closed after its tick. All that fires in an advance fires under the mutex of the
clock, in one step. `TimedTrigger` has one transition, the loop and an observer
that look at it (`FindsEnabled` is `IsEnabled`; `ShouldFire` comes in later steps,
in its three critical sections: deadline, what remains, timer), waiter goroutines,
and wait tasks, which compute what is left until `Until` before their goroutine
sleeps. The rest of the net is one flag, `rival`: another transition can fire, and
`LoopFiresOther` is the loop that fires it and drops the answer of the timed one.
A loop whose context has ended may look once more before it stops, as `select`
chooses among what is ready. `RefinesTrigger`
maps its variables to the record that `Trigger` has for a timed trigger, so
that `Engine` may go on treating a look as one step.

`EventLog` is the slice, the index and the limit; an event is its ID, type and
transition and the process that made it. `Recovery` lets the loop and the
waiters fire step by step, each step that logs being one of `EventLog`, while an
operator takes checkpoints (place by place), reads the log, opens and writes the
file (two steps: `os.WriteFile` empties it first), restores and loads. The
content of a file is the record of the job that wrote it. `Crash` forgets
everything but the file and builds the net again. Places are queues here, since
`Executor` and `Restoration` have their channels; a `RemoveToken` fails while a
capture is draining. History: `took` has the events of the firings that took
their token, `dirty` says that a checkpoint was taken, or a restore done, while
tokens were in hands that the check of the engine's state does not see.

`NetBuilding` keeps for each node the IDs of its arcs (`inIds`, `outIds`) and
the arcs that `Resolve` attached (`inArcs`, `outArcs`). A place and a transition
may share an ID, and every call may come after `Resolve`. The checks of `DryRun` are operators over both.

`EventSystem` has one record for each client call, the goroutine
`processEvents` (`proc`), and `delivery[e][s]`, the state of the handler
goroutine of subscription `s` for event `e`. A handler can itself call the
system; one that is given up after its timeout goes on as `"late"`.

`StateSpace` is `BuildStateSpace`, one action per turn of its two loops
(`Dequeue`, `LimitReached`, `OldState`, `NewState`). `Verifier` adds one check
that a caller asks for, the breadth-first `findPath`, the warnings of `DryRun`
that speak of every run, and then lets the verified net run: its firings are
those of `TokenGame`, several at once, with tasks that fail.

`Tasks` has `frame[n]`, the state of `Execute` of task `n` (`pc`, the loop
variable, the context it has made, its result), and calls a part by resetting
the frame of the part. `TaskContext` has the tree of Go contexts; `ctxOf[o]`
is the field `Context` of the ExecutionContext that `o` owns: the root owns one,
and each branch of a parallel task gets a copy, all other tasks share that of
the task they are part of (`Owner`). `Enter` of a task with a timeout replaces
that field and `Leave` cancels the new context without putting the old one
back, as the code does. Answers, timers, functions and servers are free to
answer anything at any time, or not at all. Sub-workflows are numbered
instances, each with the goroutine that propagates a cancellation.

## Runs

| Run | Instance | Shows |
|---|---|---|
| `place_ops` | 2 goroutines, places of size 2 and 1, 4 tokens, global limit 2 | `TypeOK`, `NoDuplication`, `CounterAccounting`, `GlobalOvershootBounded`, a peek nobody disturbs changes nothing (`QuietPeekIsNonDestructive`), a token is lost only by the `PeekTokens` that puts it back, and only where an `AddToken` of another goroutine has sent to that place since the peek locked it (`LossNeedsARace`) |
| `executor` | 2 goroutines, 2 transitions that compete, a guard, a task, a weight-2 arc, 2 calls | `Executor` implements `TokenGame` (`RefinesTokenGame`); the marking follows from the successful firings alone (`StateEquation`); a firing nobody disturbs gets the tokens its guard saw (`QuietFiringTakesWhatGuardSaw`); every call returns (`CallsReturn`) |
| `restoration` | 2 places, checkpoints that fit, do not fit and name an unknown place | a snapshot has what stayed (`SnapshotHasWhatStayed`); a quiet restore is all or nothing (`QuietRestoreIsAllOrNothing`); the restorer returns (`RestorerReturns`) |
| `engine` | 1 client with 3 calls, 2 loops, 2 waiters, a chain of an automatic and a manual transition, sequential mode, cancellation of the context | `StopReturns`, `StopLeavesNoLoop`, `PauseLetsOneThrough`, `WaitersBounded`, `UntriggeredOnlyAfterCancel` |
| `triggers` | a timed and an event transition that compete, concurrent mode, 2 calls | `UntriggeredOnlyAfterCancel` for batches, timers and events |
| `recovery` | a transition, two places, two tokens, the loop and a waiter; one token may have Data that no file holds or a registry does not know; a log of 2 events or without limit; 2 processes | slice and index of the log agree and hold the newest events (`LogOK`); a workflow file has the event of every firing that its marking shows (`EventsCoverMarking`); no token is lost or doubled over failures, checkpoints, crashes and restores, except where the property says so (`EachTokenOnce`) |
| `clock` | either clock, a Delay or a fixed time, the loop, an observer, 2 waiters, a second transition that competes for the loop, a task that may fail, a wait task, time 0 to 2 | timers and sleeps are pending until they are due and not longer (`ClockOK`); nothing fires early (`NeverEarly`); the trigger is that of `Engine` (`RefinesTrigger`); a wait task does not sleep past its time, unless the clock moved between its computation and its sleep (`SleepersWake`); a transition that is due fires, unless the one tick of a real timer was spent (`DueFires`) |
| `net` | 3 IDs, each for a place, a transition or both, 2 arcs of weights 0 and 2, any order of calls | what runs was declared and what was declared in time runs (`RunsAsDeclared`); a valid net is resolved and each transition waits for a place (`ValidNetFires`); the components are counted exactly (`ComponentsExact`) |
| `events` | 2 clients that may be handlers, 2 events, 2 subscriptions, a channel of size 1 | events are handled one after the other in the order of acceptance (`HandledInOrder`); what was accepted before `Close` began reaches whom it was due to (`CloseDeliversTheRest`); `Close` returns (`CloseReturns`) |
| `verifier` | 5 places, 5 transitions, 3 initial markings, 2 sets of terminal places, limits reached in the middle or never, 5 checks, 2 firing goroutines | the graph is the set of reachable markings, each once (`ExactWhenComplete`); a witness is a run that leads to what was looked for, also in a graph that was cut off (`WitnessReplays`); verdicts and warnings hold in the concurrent runs (`VerdictHoldsInRuns`, `WarningsHold`) |
| `tasks` | 4 trees with 24 tasks of all kinds, 2 attempts, 2 levels, a caller that cancels or not | results follow from the parts (`OutcomeOfTheParts`); no part and no context outlives its task (`NoPartOutlives`); after a cancellation everything returns and watched sub-workflows stop (`CancelledReturns`) |
| `restores_nothing` | as `recovery` | violated (`ResumesFromCheckpoint`): the file of `CheckpointWithEvents` is restored without an error and leaves no token |

Each passing property has a mutant, a plausible mistake in the definition of an
action that breaks it; the mutants stand before the definitions they replace.
Each module has a type invariant; only that of the places is among the properties
of a run, the others are part of the inductive invariants below.

**Where the code does not do what its documentation says.** The violated
property is a sentence of `state/serialization.go`; `findings` in
`PROJECT.json` quotes it. The models show more of the kind. The properties do not
rule these out: where one speaks of the same thing, it excepts or states what the
code does, as its comment says, and the five findings on passing runs name the
sentence of the documentation that it differs from:

* a `PeekTokens` that finds its place full when it puts a token back drops it,
  because an `AddToken` has used the room meanwhile, although `petri/place.go:27`
  and `petri/place.go:164` promise no loss of tokens (`LossNeedsARace` says when);
* the channel of a timer is closed after its tick on a virtual clock only; that of
  a real one stays open and empty, although `clock/clock.go:64` says of every
  clock that it is closed (`ClockOK` states both);
* timers and sleeps that become due together end in the order in which they were
  made, timers first, and not in that of their deadlines, as
  `clock/virtual.go:162` and `clock/README.md:265` say (the model has all of them
  end in one step);
* a wait task with `Until` sleeps for what was left when it looked; if a virtual
  clock moves before its goroutine sleeps, it sleeps past its `Until`, for ever if
  the clock then stands still (`task/wait.go:77`; `SleepersWake` excepts it);
* the sequential loop asks every transition, fires the first that may fire and
  drops the other answers (`engine/engine.go:851`); a timed trigger on a real
  clock has then given its only tick away, and its transition, still enabled, does
  not fire (`DueFires` excepts it, as `spent`);
* a Delay counts from the first enabling, not from each
  (`petri/trigger_timed.go:51`): with a later token, the timer made before lets
  the transition fire at once on a virtual clock, and never on a real one whose
  tick is gone;
* a task leaves goroutines behind: a cancelled wait task the one that sleeps
  (`task/wait.go:170`), a sub-workflow task the watcher of its context
  (`task/subworkflow.go:369`) when that context does not end, an asynchronous
  sub-workflow its instance; `NoPartOutlives` speaks of parts and contexts only;
* two `Stop` calls at once both close `stopCh`, which panics, although the doc
  calls the engine thread-safe (`engine/engine.go:167`) and repeated calls of
  `Stop` safe (`engine/engine.go:277`);

* a restore that fails in a net with a `GlobalCapacity` loses the tokens of the
  net: `Clear` does not count them out, so the limit refuses the checkpoint and
  then the backup;
* `Stop` cancels the triggers, which closes the channel that means approval (or
  that an event came), and the waiter then fires the transition; an approval
  that comes late closes the channel again;
* an event that `Publish` accepts while `Close` is draining stays in the channel;
* a task with a timeout leaves its cancelled context in the `ExecutionContext`
  of its caller, so that a sequence or a retry stops as cancelled although
  nobody cancelled it;
* a sub-workflow in a parallel branch panics after it was started, because the
  copy of the token has no metadata map, and the parallel task reports it as a
  failed branch; human tasks take a cancellation for a timeout;
* concurrent `AddToken` calls pass the global limit (by as much as
  `GlobalOvershootBounded` says), and a firing can fail because another one
  peeks at the same place;
* a rollback gives several tokens of one place back in reverse;
* `Wait` can return while a waiter goroutine or `Step` is firing, and, like
  every observer, may take the only tick of a real timer, after which the
  transition is not fired by that timer;
* an arc that is added before its nodes or after `Resolve` is missing from what
  runs, without an error; a second `Resolve` changes nothing and reports
  nothing; an ID shared by a place and a transition can make a type assertion
  fail;
* the verifier counts the tokens an arc needs for each arc by itself, so that
  with two arcs from one place to one transition its verdict on deadlocks and
  its witnesses need not hold, and an invariant that subtracts one place from
  another, which holds in every marking of the graph, need not hold while a
  firing has its tokens in hands (`VerdictHoldsInRuns` speaks of bounds on
  tokens, and of deadlock for nets without doubled arcs);
* of two clients, one can `Start` while the other's `Stop` waits for the loop
  that it stopped: that `Stop` then returns with a loop running
  (`StopLeavesNoLoop` excepts it by the history variable `restarted`);
* `DryRun` calls a net with a start place that holds tokens invalid;
* event IDs start at 1 in every process: after `LoadEventLogFromFile` the first
  events of the new process are refused as duplicates, and the error is dropped;
* a crash while a checkpoint is written leaves neither the old nor the new one.

**Bounds.** Two goroutines are enough for every race between two steps, which
is what the code is exposed to: no operation waits for two others. Channels of
sizes 1 and 2 are full, empty and in between, and a drain of two tokens has a
middle. `MaxUncounted` stops `Clear` when that many tokens have left uncounted;
`MaxCalls` and `MaxOps` bound the calls of clients, `MaxMoves` the tokens moved
during a restore. Three client calls are the shortest runs with a restart
(`Start`, `Stop`, `Start`), a second loop (`Start`, `Pause`, `Start`) and a
stop while paused (`Start`, `Pause`, `Stop`). `Loop` and `Waiter` bound the
goroutines that exist; two waiters for one gated transition are what one
`Stop` can leave, and a look that would need a third waits. With two events and
a channel of size 1, one event is in the channel, in delivery, or in a blocked
`Publish` when `Close` comes. The task trees are small enough to have every
pair of a composite task and a part that races with it (timeout under
sequence, retry over parallel, recovery over a panic, a watched sub-workflow
before a wait); nothing in a task depends on more than its parts and the
context, so larger trees repeat these pairs. The net of `verifier` has forks,
joins, competition, a deadlock, an unreachable place and markings that do and do
not fit the capacities. In `recovery`, `MaxIds` gives the first process three
events and the second two: enough to start, fire with a failure or stop in the
first, and to start and fire in the second over a loaded log; a log of two
events is full in the middle of a firing. Two tokens are the fewest for which
the place by place capture can miss one and double another, and a second crash
would only forget once more. In `clock`, the times before, at and after the one
deadline suffice, since the code compares with it and with zero only;
`MaxWork = 3` allows a start, a token and one of a second token, a second start,
a wait task, a cancellation, a failure of the task or another transition. In `net`, three IDs and two arcs have a path, a
loop, two parts, a doubled arc and a shared ID; the checks look at one node and
its arcs at a time, except the search for components.

**Symmetry** is used in `place_ops` and `net` only, which check no liveness.

**Fairness.** Each goroutine has weak fairness: the Go scheduler runs a
goroutine that can run. `LoopStopped` has strong fairness, because `select`
chooses at random among the ready cases, so that a loop which comes to its
select again and again does not ignore a closed `stopCh` for ever. Clients,
approvers, clocks and events have none: they may stop calling at any time. In
`Tasks` a user function, a request or a back end must return only once its
context has ended (`task/task.go`: "Tasks should respect ctx.Context
cancellation"); timers and people need never do anything. In `EventSystem` a
handler need never return: its timeout is what `CloseReturns` rests on.
In `TimedTrigger` the looks of the loop have strong fairness because a Go mutex
does not starve a goroutine (it hands itself over after a millisecond), although
an observer may hold it again and again; nobody has to move the clock, bring
tokens, start the engine or observe. `Recovery` and `NetBuilding` have safety
properties only: a process may end at any moment, and nothing more is promised.
`CallsReturn` and `RestorerReturns` except one state each, named in the
property, in which the code really blocks (a blocking put-back into a place
that others filled, a blocking receive in `Clear`), so that they show that
nothing else blocks; `SleepersWake` and `DueFires` except the late sleep and the
spent tick of the list above, `StopReturns` an engine that has panicked.

Deadlock is not checked: a program whose clients have made their calls stops.

## Proofs

A theorem holds for every value of the constants that its assumptions allow.
They say what the code or the language guarantees: capacities are positive,
sets that a count ranges over are finite, `None` is nothing else. Beyond that,
`OpsAssumption` and `RecoveryAssumption` start with tokens that are all different
(a token is told from others by its ID, and `NoDuplication` and `EachTokenOnce`
speak of the copies that the code itself makes); `PlaceOps` and `Executor` start
with places that hold what they were given; `StateSpaceAssumption` has weights
that are naturals, and a single arc (`Needs`) of at most the weight of all arcs
between its two nodes (`Pre`). `RestorationAssumption` starts with places that
hold no more than their capacity, and has checkpoints that map IDs, of the net or
not, to tokens. `NetBuildingAssumption` has finitely many IDs; weights are any
integers, as in the code. `TaskAssumption` and `TreeAssumption` say that the tasks
of a transition are a tree: each part belongs to one task, and following parents
one comes to the root after `Depth[n]` steps, which is so because a task is built
from parts that exist before it and `Execute` changes none of these fields;
`LimitAssumption` has at least one attempt and one level, which `Validate` demands.

Almost no property is inductive as it stands. What each proof adds to it:

**Places.** `TypeCorrect`: `CallOK` says what a call record holds at each step,
so that a refill has something to put back and a counted drain never holds more
than it counted. `PeekMutexHolds`: the peek mutex is held exactly between the
first receive and the last put-back. `CounterAccounted` and `OvershootBounded`
count tokens as slots, positions of channels and buffers as a set of pairs: a
receive or a put-back moves one slot, and cardinalities follow from the
finite-set theorems of the library. The limit is not inductive, because a
goroutine that has passed `checkGlobalCapacity` may send although the net is full
by then; `CounterInv` adds that `totalTokens` and the goroutines past the check
together stay within the limit and the number of goroutines, and each send uses
up a pass. `TokensNeverDuplicated`: channels and buffers are owners of one kind
(`Held`), every step takes an end of one owner to an end of another, and
`ApartInv` is that two positions with the same token are one. `QuietPeeksAreHarmless` rests
on `QuietInv`: while nobody disturbs a peek, what it has drained and what is still
in the channel make up what was there when it took the mutex, in this order.
`LossOnlyInARace` needs less and claims more, since other calls may overlap:
`RoomInv` says that while no `AddToken` has sent to its place since a peek locked
it, what the peek holds and what is in the channel fit the capacity together, so
that a put-back finds room whatever removals and refused additions came between.

**Checkpoints.** `RestoreInv` builds on `QuietInv`. `SnapshotsHaveWhatStayed`: of the
tokens that have stayed, `Stays` says where the snapshot has or will find them, in
what it has taken, in the places still to visit, or split between the channel and
the hands of the peek under way (`Found`). `QuietRestoresAreExact`: as long as the
restorer is undisturbed, `Progress` has one part for each kind of loop. A capture
has taken what was there at the start (`Captures`); the places that a clearing is
done with are empty, the others are as they were (`Empties`); a place that a
filling is done with has what it should, the one it is at lacks what is still to
be added, the rest are empty (`Fills`). A checkpoint may be too large for its place,
but a backup came out of the channels and fits, so the second filling cannot fail.

**Firings.** `FiringPlaysTokenGame`: `Spec => RefinesTokenGame`. `ExecInv` has the
types, `FiresOK` (what is known of a firing and of the place call that it is in,
phase by phase), and `MuInv`, that who is past `fireMu.Lock` holds it. What a
thread shows of itself to the game depends on its own two records only (`HeldBy`, `FiringOf`), so that a step of the firing is described by what they
become (`Outcome`): they show the same, or it is the `Start`, `Commit` or `Abort`
due there; a step of a place call shows nothing, or is a `Put`, `Fail` or `Lose`.
The tokens of a firing in the middle of its inputs still count as in their
places, which is where a rollback returns them.
`MarkingFollowsFirings` has the state equation from the game: as long as no place
has refused a token (`Clean`), marking, tokens in hands and committed firings
balance in each place (`Ledger`), and with no firing under way this is
`StateEquation`. `Total` of the model is the number of slots of a function, so
that these sums are cardinalities of finite sets and need no induction.
`QuietFiringIsFaithful` needs that a peek puts back what it took, in order, which
is `QuietInv` again, and that whoever touches an input place is noticed. `CareInv`
says of each firing that nobody interfered with: what it has seen, or what a peek
under way has drained together with the rest, are the heads of its input channels,
and what it has removed is the beginning of its snapshot. With two arcs from one
place, the second looks at the same heads as the first: the property excludes that.

**Engine.** `FiresOnlyWhenDue`: what a loop has found, or a `Step`, a worker or a
waiter is about to fire, may fire (`OnTheWay`); a tick is there only when the time
has passed, and a closed approval channel means an approval or a `Stop`
(`TrigOK`). `PauseHolds`: a loop that has begun a firing
since the pause is not on its way to another one (`LateOK` with `Ahead`), and its
workers fire only while it waits for them (`WorkersInFire`). `WaitersStayBounded`:
a waiter that is not accounted for by a `Stop` is noted in `waitingTransitions`,
which is read and set in one step of the loop (`WaitersNoted`). `StopStops`: there
is one loop, of the current `doneCh`, and so is each `Stop` (`OneLoop`), as long as
no `Start` overlapped a pause or a `Stop`. This attempt failed at first: with two
clients, a `Start` can come between the loop's last step and the return of the
`Stop`. The history variable `restarted` now covers it.

**Event system.** `DeliveredInOrder` and `CloseDelivers`: the channel is the end of
the list of accepted events, what precedes it has been taken, one at a time, and
delivered to its end, what follows has not been touched (`ChannelIsRest`,
`Delivered`, `NotYet`); `CloseOK` follows `Close` through its wait, its drain and
its second wait. No event is accepted twice (`AcceptedOnce`).

**Tasks.** `OutcomeExplained` and `NoPartLeftBehind` come from one invariant,
`TaskInv`. `Structure`: only the tree of one root runs, a part runs only while its
task is in a step that calls it (`Nested`), and of the tasks that share an
ExecutionContext one at a time has the turn (`Turns`). `Counted` relates the loop
variable of a task to the results of its parts so far (all earlier attempts of a
retry have failed, a sequence that stops at errors has had none), from which the
returned result is `Explained`. `OwnEnds`: a context that has not ended, except
that of the caller, is the own context of a running task. Since a task replaces
the field `Context` that it shares with others, `SeesGiven` has to say that a
parallel task, whose branches are made from that field, still finds there the
context it was given or the one that it made.

**Event log and recovery.** `LogStaysConsistent`: the index is matched with the
slice position by position; dropping the head is a shift of positions, an append
adds the last one under an ID that the duplicate check has shown to be new. Of a
load it is used that the file had each ID once. `RecoveryUsesLog`: `Spec =>
LogSpec`, with `RecoveredLogConsistent`; what a firing has in hands is appended in
a later step than the one that made it and a file is loaded in a later process,
so `RecoveryInv` says that firings, checkpoint and file hold events and nothing
else. `FileCoversMarking`: marking and log are read apart, and what makes the
property hold is an order of three steps: a firing is logged before it takes its
token, the marking is read before the log, and the log only grows or is full.
`CoverInv` has one part for each (`LogCoverOK`, `JobCoverOK`); an append may be
refused, but only as a duplicate, so the event of a firing must be new to this
process (`NumbersOK`, `PendingOK`), and a log is loaded only into a process that
has numbered nothing (`UnusedOK`). `TokensSurvive`: `OnceInv` follows the tokens
through an untroubled checkpoint or restore. What a capture has read and what is
still in the places agree as long as nobody fires (`CaptureOK`), what waits to be
written and what is in the file has each token once (`SavedOK`), and a stopped
engine has no loop in a firing (`StoppedOK`).

**Clock.** `ClockStaysConsistent`: a timer or a sleep is in the list of the clock
exactly until it is due, each timer ticks once, and whoever sleeps on an open
channel is known to the clock. The lists are compared with the deadlines and the
time, and `AdvanceTo` removes exactly what it makes due. `NeverFiresEarly`:
`ScheduleOK` says of each look what it has read so far (the deadline it computed
is not before the time that the trigger promises, the rest of it not less than
what is left) and of each timer that it is not due before. `TriggerAsEngineSeesIt`:
`Spec => RefinesTrigger`, each of the three critical sections of a look, and every
other step, is a step of `Trigger` or invisible there, so that `Engine` and its
theorems may treat a look as one step.

**Nets.** `DeclaredArcsRun` and `ValidNetsFire` come from `NetInv`: the list of IDs of
a node has nothing twice, only arcs that end at a node with its ID, and all of them
as long as nothing was late and no ID is shared (`ListsOK`); its pointers are the
resolved arcs of that list (`PointersOK`); and an arc is resolved at both ends or
at none (`ArcsOK`). A node with a shared ID can be at the wrong end of an arc, so
that `ValidNetsFire` rests on what `DryRun` looks at and not on the declaration.
`ComponentsCounted` needs one more invariant, `Paired`: an arc in the list of a node
is in a list at its other end, so that the search, which follows the pointers of
each node both ways, and the edges, which are read from the incoming ones, speak of
the same net. The rest is about the search. `visit` is a nested recursion (a call
passes on what the call before it has visited); it is defined since a call inside
another has fewer nodes to visit, and by the same measure it returns a set that
keeps what it was called with, is left by no edge unless that was, and adds only
what the node reaches (`VisitReaches`). So each visit adds exactly one part
(`VisitFindsPart`), and the loop, as the trace of values that a fold goes through
(`FoldTrace`, `CountTrace`), counts each part once, in whatever order it meets the
nodes. Induction over numbers is stated for a set of them (`NatInd`, from the
well-foundedness of `<`), since the provers cannot use a theorem about an operator.

**Verifier.** `StateSpaceExact`: `Closed` (each enabled transition has its edge)
speaks only of the end of the search; `Explored` strengthens it to every moment:
a transition enabled in a state has its edge, or the state is queued, or it is
being expanded and the transition is still to be fired. `VerdictsHold` compares a
complete graph with a workflow whose firings overlap and fail. The marking between
two steps is in general no state of the graph, since tokens are in hands. `Cover`
says which states it stands for: of the firings that have put nothing yet, choose
any that will be undone; then some state of the graph is the marking with what
these give back and what the others still produce (or more than it, where a full
place refused a token). It needs every choice, since a firing starts in a state
that holds its inputs whichever of the others fail. So a bound on tokens holds at
every instant, and a marking at rest is a state, where no deadlock in the graph is
none in the run. `WarningsAreTrue` has `NeverFilled`: a place that is empty in every
state is empty, and no firing under way has taken from it.
`WitnessIsARun`: the queue of `findPath` keeps a run to each of its states, a
visited state is queued or has edges to visited states only, and the state looked
for is not visited (`SearchOK`); as the graph is reached from its first state, the
queue does not run dry. Two forms of these properties turned out false in the
attempt and were corrected (see the entry on the verifier above); `SumOver` and
`After` replace recursive definitions, since a sum over a set of places is a
difference of two cardinalities and a run is a list of markings.

| Module | Theorems |
|---|---|
| `PlaceOpsProofs` | `TypeCorrect`, `PeekMutexHolds`, `CounterAccounted`, `OvershootBounded`, `TokensNeverDuplicated`, `LossOnlyInARace`, `QuietPeeksAreHarmless`; `RestoreTypesOK`, `SnapshotsHaveWhatStayed`, `QuietRestoresAreExact` |
| `ExecutorProofs` | `FiringTypeCorrect`, `FiringPlaysTokenGame`, `MarkingFollowsFirings`, `QuietFiringIsFaithful` |
| `EngineProofs` | `FiresOnlyWhenDue`, `PauseHolds`, `WaitersStayBounded`, `StopStops` |
| `EventSystemProofs` | `DeliveredInOrder`, `CloseDelivers`; `TaskTypesOK`, `OutcomeExplained`, `NoPartLeftBehind` |
| `RecoveryProofs` | `LogStaysConsistent`, `RecoveryUsesLog`, `RecoveredLogConsistent`, `FileCoversMarking`, `TokensSurvive` |
| `TimedTriggerProofs` | `ClockStaysConsistent`, `NeverFiresEarly`, `TriggerAsEngineSeesIt` |
| `VerifierProofs` | `SpaceInvariant`, `StateSpaceExact`, `GraphStaysExact`, `VerdictsHold`, `WarningsAreTrue`, `WitnessIsARun`; `DeclaredArcsRun`, `ValidNetsFire`, `ComponentsCounted` |

The lemmas about the steps of a place operation, which `PlaceOps` and `Executor`
share, are in `PlaceChannelProofs`.

Only model-checked: liveness (`CallsReturn`, `RestorerReturns`, `StopReturns`,
`CloseReturns`, `CancelledReturns`, `SleepersWake`, `DueFires`), which is out of the
reach of the prover.

## Not modelled

Loggers, metrics, spans and error recorders (the execution context as far as it
is not the Go context), and the visualization, change nothing that the other
parts read. Within the modelled parts: the errors of wrongly configured triggers
and tasks; statistics and `HealthCheck`, except that it looks at triggers as
`Wait` does; a panic of a task inside a firing, which ends the process and is a
`Crash` of `Recovery` (`Tasks` has panics that are recovered, `Executor` has
none); what requests and commands send and parse; an invoker that fails to
cancel a sub-workflow; the goroutine of a cancelled wait task in `Tasks`
(it is in `TimedTrigger`); guards in `Engine`; subscriptions that get the same ID because the clock did
not move, and an `Unsubscribe` that fails for that reason; the heuristic warnings of `DryRun`, and the certificates and messages
of the verifier; the encoding of tokens and the registry of their types, of
which `Recovery` has what survives; the queries that filter the event log; two
operators that write one file; a rollback that a full place refuses, in `Engine`
and `Recovery` (it is in `Executor`); concurrent `Stop` calls are
in the module and its theorems, but the instances, with one client, do not reach
them; a transition that puts
the same token into two places shares the token, and the place model treats the
two as different tokens.

## Plan

Done: places, firing, checkpoints, triggers, engine, event system, verifier with
the dry run, tasks, the clock under timed triggers and wait tasks, the event log,
recovery from files after crashes, the construction of nets; the proofs of their
safety properties and of the refinements of `TokenGame`,
of `Trigger` and of `EventLog`.

Next: a restore composed with the check of the engine's state that precedes it
(`Restoration` has any goroutine beside it, `Recovery` has the check but no channels),
and two clients that stop the engine at once as an instance of its own.
