---------------------------- MODULE EngineProofs ----------------------------
(***************************************************************************)
(* What the engine promises, for every net, every kind of trigger and any  *)
(* number of clients, loops and waiters.                                   *)
(***************************************************************************)
EXTENDS Engine, FiniteSetTheorems, TLAPS

LEMMA LoopFinds ==
  ASSUME NEW l \in Loop, LoopFind(l)
  PROVE  /\ loop[l].pc = "find"
         /\ \E t \in loop[l].todo, b \in BOOLEAN :
              /\ b => ShouldFire(t)
              /\ loop' = [loop EXCEPT ![l].todo = @ \ {t},
                                      ![l].found = IF b THEN @ \cup {t} ELSE @]
              /\ trig' = trig \/ AskShouldFire(t)
              /\ \/ UNCHANGED <<waiting, waiter>>
                 \/ ~ShouldFire(t) /\ Spawn(t)
BY DEF LoopFind, Look

LEMMA ClientFinds ==
  ASSUME NEW c \in Client, ClientFind(c)
  PROVE  /\ client[c].pc \in {"step", "wait"}
         /\ \E t \in client[c].todo, b \in BOOLEAN :
              /\ b => ShouldFire(t)
              /\ client' = [client EXCEPT ![c].todo = @ \ {t},
                                      ![c].found = IF b THEN @ \cup {t} ELSE @]
              /\ trig' = trig \/ AskShouldFire(t)
              /\ \/ UNCHANGED <<waiting, waiter>>
                 \/ ~ShouldFire(t) /\ Spawn(t)
BY DEF ClientFind, Look

-----------------------------------------------------------------------------
(* Triggers.  A timer that is there rings only when its time has come; a    *)
(* time that has come is forgotten only with the timer; and the channel of  *)
(* a manual trigger is closed by the last approval or by Cancel.            *)

TrigOK(t) ==
  /\ Kind[t] = "timed" => /\ trig[t].full => trig[t].past
                          /\ trig[t].chan = "nil" /\ trig[t].past => t \in FixedTime
  /\ Kind[t] = "manual" /\ trig[t].chan = "closed" => trig[t].ready \/ t \in cut

Triggers == trig \in [Transition -> TriggerType] /\ \A t \in Transition : TrigOK(t)

(* What a transition needs to fire.                                         *)
May(t) == Due(t) \/ t \in cut

(* The step keeps what is known of the triggers, and takes from no          *)
(* transition what it needs to fire.                                        *)
TriggersKept == Triggers' /\ \A t \in Transition : May(t) => May(t)'

(* The fields of a trigger that has been assigned to.                       *)
LEMMA OneTrigger ==
  ASSUME Triggers, NEW t \in Transition, NEW r \in TriggerType,
         trig' = [trig EXCEPT ![t] = r], cut' = cut,
         TrigOK(t)', May(t) => May(t)'
  PROVE  TriggersKept
<1>1. /\ trig' \in [Transition -> TriggerType]
      /\ \A u \in Transition : u # t => trig'[u] = trig[u]
  BY DEF Triggers
<1>2. ASSUME NEW u \in Transition, u # t
      PROVE  TrigOK(u)' /\ (May(u) => May(u)')
  BY <1>1, <1>2 DEF Triggers, TrigOK, May, Due
<1> QED
  BY <1>1, <1>2 DEF TriggersKept, Triggers

LEMMA SameTriggers ==
  ASSUME Triggers, UNCHANGED <<trig, cut>>
  PROVE  TriggersKept
BY DEF Triggers, TriggersKept, TrigOK, May, Due

LEMMA ShouldFireMay ==
  ASSUME Triggers, NEW t \in Transition, ShouldFire(t)
  PROVE  May(t)
BY TriggerAssumption DEF Triggers, TrigOK, May, Due, ShouldFire

LEMMA AskTriggers ==
  ASSUME Triggers, NEW t \in Transition, AskShouldFire(t), cut' = cut
  PROVE  TriggersKept
<1> DEFINE r == AfterShouldFire(t)
<1>1. trig[t] \in TriggerType /\ TrigOK(t) /\ trig' = [trig EXCEPT ![t] = r] /\ trig'[t] = r
  BY DEF Triggers, AskShouldFire
<1>2. CASE Kind[t] = "timed" /\ trig[t].chan = "open"
  <2>1. r = [trig[t] EXCEPT !.full = LeftInTimer(t)] /\ (LeftInTimer(t) => trig[t].full)
    BY <1>2 DEF AfterShouldFire, LeftInTimer
  <2>2. LeftInTimer(t) \in BOOLEAN
    BY <1>1, TriggerAssumption DEF TriggerType, LeftInTimer
  <2>3. r \in TriggerType /\ r.past = trig[t].past /\ r.chan = "open" /\ r.full = LeftInTimer(t)
    BY <1>1, <1>2, <2>1, <2>2 DEF TriggerType
  <2> HIDE DEF r
  <2>4. TrigOK(t)' /\ (May(t) => May(t)')
    BY <1>1, <1>2, <2>1, <2>3 DEF TrigOK, May, Due
  <2> QED
    BY <1>1, <2>3, <2>4, OneTrigger
<1>3. CASE Kind[t] = "timed" /\ trig[t].chan = "nil" /\ ~ShouldFire(t)
  <2>1. r = [trig[t] EXCEPT !.chan = "open", !.full = FALSE, !.past = FALSE]
    BY <1>3 DEF AfterShouldFire
  <2>2. r \in TriggerType /\ r.chan = "open" /\ r.full = FALSE
    BY <1>1, <2>1 DEF TriggerType
  <2>3. ~trig[t].past
    BY <1>1, <1>3 DEF TrigOK, ShouldFire
  <2> HIDE DEF r
  <2>4. TrigOK(t)' /\ (May(t) => May(t)')
    BY <1>1, <1>3, <2>2, <2>3 DEF TrigOK, May, Due
  <2> QED
    BY <1>1, <2>2, <2>4, OneTrigger
<1>4. CASE /\ ~(Kind[t] = "timed" /\ trig[t].chan = "open")
           /\ ~(Kind[t] = "timed" /\ trig[t].chan = "nil" /\ ~ShouldFire(t))
  <2>1. r = trig[t]
    BY <1>4 DEF AfterShouldFire
  <2> HIDE DEF r
  <2>2. TrigOK(t)' /\ (May(t) => May(t)')
    BY <1>1, <2>1 DEF TrigOK, May, Due
  <2> QED
    BY <1>1, <2>1, <2>2, OneTrigger
<1> QED
  BY <1>2, <1>3, <1>4

LEMMA EnterTriggers ==
  ASSUME Triggers, NEW t \in Transition, ~AwaitFails(t), EnterAwait(t), cut' = cut
  PROVE  TriggersKept
<1>1. CASE trig[t].chan # "nil"
  BY <1>1, SameTriggers DEF EnterAwait
<1>2. CASE trig[t].chan = "nil"
  <2> DEFINE r == [trig[t] EXCEPT !.chan = "open", !.full = FALSE, !.by = {}]
  <2>1. trig[t] \in TriggerType /\ TrigOK(t) /\ trig' = [trig EXCEPT ![t] = r] /\ trig'[t] = r
    BY <1>2 DEF Triggers, EnterAwait
  <2>2. r \in TriggerType /\ r.chan = "open" /\ r.past = trig[t].past /\ r.ready = trig[t].ready
    BY <2>1 DEF TriggerType
  <2> HIDE DEF r
  <2>3. TrigOK(t)' /\ (May(t) => May(t)')
    BY <1>2, <2>1, <2>2 DEF TrigOK, May, Due, AwaitFails
  <2> QED
    BY <2>1, <2>2, <2>3, OneTrigger
<1> QED
  BY <1>1, <1>2

(* A waiter that wakes up on the channel that the trigger has now.          *)
LEMMA WakeTriggers ==
  ASSUME Triggers, NEW t \in Transition, CanWake(t), Wake(t), cut' = cut, Kind[t] # "none"
  PROVE  TriggersKept /\ May(t)'
<1>1. trig[t] \in TriggerType /\ TrigOK(t)
  BY DEF Triggers
<1>2. CASE Kind[t] = "manual"
  <2>1. TriggersKept
    BY <1>2, SameTriggers DEF Wake
  <2>2. May(t)'
    BY <1>1, <1>2 DEF Wake, CanWake, TrigOK, May, Due
  <2> QED
    BY <2>1, <2>2
<1>3. CASE Kind[t] = "timed"
  <2> DEFINE r == [trig[t] EXCEPT !.full = LeftInTimer(t)]
  <2>1. trig' = [trig EXCEPT ![t] = r] /\ trig'[t] = r
    BY <1>3 DEF Wake, Triggers
  <2>2. r \in TriggerType /\ r.past = trig[t].past /\ r.chan = "open" /\ trig[t].full
    BY <1>1, <1>3, TriggerAssumption DEF TriggerType, LeftInTimer, CanWake
  <2> HIDE DEF r
  <2>3. TrigOK(t)' /\ May(t)'
    BY <1>1, <1>3, <2>1, <2>2 DEF TrigOK, May, Due
  <2> QED
    BY <2>1, <2>2, <2>3, OneTrigger
<1>4. CASE Kind[t] = "event"
  <2> DEFINE r == [trig[t] EXCEPT !.full = FALSE, !.ready = TRUE]
  <2>1. trig' = [trig EXCEPT ![t] = r] /\ trig'[t] = r
    BY <1>4 DEF Wake, Triggers
  <2>2. r \in TriggerType /\ r.ready
    BY <1>1 DEF TriggerType
  <2> HIDE DEF r
  <2>3. TrigOK(t)' /\ May(t)'
    BY <1>4, <2>1, <2>2 DEF TrigOK, May, Due
  <2> QED
    BY <2>1, <2>2, <2>3, OneTrigger
<1> QED
  BY <1>2, <1>3, <1>4, TriggerAssumption

(* A waiter that takes the closing of its event channel for an event.       *)
LEMMA ClosedTriggers ==
  ASSUME Triggers, NEW t \in Transition, trig' = [trig EXCEPT ![t].ready = TRUE], cut' = cut
  PROVE  TriggersKept
<1> DEFINE r == [trig[t] EXCEPT !.ready = TRUE]
<1>1. trig[t] \in TriggerType /\ TrigOK(t) /\ trig' = [trig EXCEPT ![t] = r] /\ trig'[t] = r
  BY DEF Triggers
<1>2. /\ r \in TriggerType /\ r.past = trig[t].past /\ r.chan = trig[t].chan
      /\ r.full = trig[t].full /\ r.ready
  BY <1>1 DEF TriggerType
<1> HIDE DEF r
<1>3. TrigOK(t)' /\ (May(t) => May(t)')
  BY <1>1, <1>2 DEF TrigOK, May, Due
<1> QED
  BY <1>1, <1>2, <1>3, OneTrigger

LEMMA CancelTriggers ==
  ASSUME Triggers, waiting \subseteq Transition, Cancel(waiting), cut' = cut \cup waiting
  PROVE  TriggersKept
<1>1. ASSUME NEW t \in Transition
      PROVE  trig'[t] \in TriggerType /\ TrigOK(t)' /\ (May(t) => May(t)')
  <2>1. trig[t] \in TriggerType /\ TrigOK(t)
    BY DEF Triggers
  <2>2. CASE t \notin waiting
    <3>1. trig'[t] = trig[t]
      BY <2>2 DEF Cancel
    <3> QED
      BY <2>1, <3>1 DEF TrigOK, May, Due
  <2>3. CASE t \in waiting
    <3> DEFINE r == Cancelled(t)
    <3>1. trig'[t] = r /\ t \in cut'
      BY <2>3 DEF Cancel
    <3>2. CASE Kind[t] = "manual"
      <4>1. r = trig[t] \/ r = [trig[t] EXCEPT !.chan = "closed"]
        BY <3>2 DEF Cancelled
      <4>2. r \in TriggerType
        BY <2>1, <4>1 DEF TriggerType
      <4> HIDE DEF r
      <4> QED
        BY <3>1, <3>2, <4>2 DEF TrigOK, May
    <3>3. CASE Kind[t] = "timed"
      <4> DEFINE past == trig[t].past /\ t \in FixedTime
      <4>1. r = [trig[t] EXCEPT !.chan = "nil", !.full = FALSE, !.past = past]
        BY <3>3 DEF Cancelled
      <4>2. past \in BOOLEAN
        OBVIOUS
      <4>3. r \in TriggerType /\ r.full = FALSE /\ (r.past => t \in FixedTime)
        <5> HIDE DEF past
        <5>1. r \in TriggerType /\ r.full = FALSE /\ r.past = past
          BY <2>1, <4>1, <4>2 DEF TriggerType
        <5> QED
          BY <5>1 DEF past
      <4> HIDE DEF r, past
      <4> QED
        BY <3>1, <3>3, <4>3 DEF TrigOK, May
    <3>4. CASE Kind[t] = "event"
      <4>1. r = [trig[t] EXCEPT !.chan = "nil", !.full = FALSE, !.ready = FALSE]
        BY <3>4 DEF Cancelled
      <4>2. r \in TriggerType
        BY <2>1, <4>1 DEF TriggerType
      <4> HIDE DEF r
      <4> QED
        BY <3>1, <3>4, <4>2 DEF TrigOK, May
    <3>5. CASE Kind[t] = "none"
      <4>1. r = trig[t]
        BY <3>5 DEF Cancelled
      <4> HIDE DEF r
      <4> QED
        BY <2>1, <3>1, <3>5, <4>1 DEF TrigOK, May
    <3> QED
      BY <3>2, <3>3, <3>4, <3>5, TriggerAssumption
  <2> QED
    BY <2>2, <2>3
<1>2. trig' \in [Transition -> TriggerType]
  BY <1>1 DEF Cancel
<1> QED
  BY <1>1, <1>2 DEF TriggersKept, Triggers

LEMMA EnvironmentTriggers ==
  ASSUME Triggers, Environment, cut' = cut
  PROVE  TriggersKept
<1>1. ASSUME NEW t \in Transition, NEW u \in Approvers[t], Approve(t, u)
      PROVE  TriggersKept
  <2> DEFINE by == trig[t].by \cup {u}
             r == IF t \in RequireAll /\ by # Approvers[t] THEN [trig[t] EXCEPT !.by = by]
                  ELSE [trig[t] EXCEPT !.by = by, !.ready = TRUE,
                                       !.chan = IF @ = "nil" THEN @ ELSE "closed"]
  <2>1. trig[t] \in TriggerType /\ TrigOK(t) /\ Kind[t] = "manual"
    BY <1>1 DEF Triggers, Approve
  <2>2. trig' = [trig EXCEPT ![t] = r] /\ trig'[t] = r
    BY <1>1 DEF Approve, Triggers
  <2>3. by \in SUBSET UNION {Approvers[x] : x \in Transition}
    BY <2>1, <1>1 DEF TriggerType
  <2>4. /\ r \in TriggerType
        /\ trig[t].ready => r.ready
        /\ r.chan = "closed" => r.ready \/ trig[t].chan = "closed"
    <3> HIDE DEF by
    <3> QED
      BY <2>1, <2>3 DEF TriggerType
  <2> HIDE DEF r, by
  <2>5. TrigOK(t)' /\ (May(t) => May(t)')
    BY <2>1, <2>2, <2>4 DEF TrigOK, May, Due
  <2> QED
    BY <2>2, <2>4, <2>5, OneTrigger
<1>2. ASSUME NEW t \in Transition, Ring(t)
      PROVE  TriggersKept
  <2> DEFINE full == trig[t].chan = "open"
             r == [trig[t] EXCEPT !.full = full, !.past = TRUE]
  <2>1. trig[t] \in TriggerType /\ TrigOK(t) /\ Kind[t] = "timed"
    BY <1>2 DEF Triggers, Ring
  <2>2. trig' = [trig EXCEPT ![t] = r] /\ trig'[t] = r /\ (full \/ t \in FixedTime)
    BY <1>2 DEF Ring, Triggers
  <2>3. full \in BOOLEAN
    OBVIOUS
  <2>4. r \in TriggerType /\ r.past /\ (r.chan = "nil" => ~full)
    <3>1. trig[t].chan = "nil" => ~full
      OBVIOUS
    <3> HIDE DEF full
    <3> QED
      BY <2>1, <2>3, <3>1 DEF TriggerType
  <2> HIDE DEF r, full
  <2>5. TrigOK(t)' /\ (May(t) => May(t)')
    BY <2>1, <2>2, <2>4 DEF TrigOK, May, Due
  <2> QED
    BY <2>2, <2>4, <2>5, OneTrigger
<1>3. ASSUME NEW t \in Transition, Deliver(t)
      PROVE  TriggersKept
  <2> DEFINE r == [trig[t] EXCEPT !.full = TRUE]
  <2>1. trig[t] \in TriggerType /\ TrigOK(t) /\ Kind[t] = "event"
    BY <1>3 DEF Triggers, Deliver
  <2>2. trig' = [trig EXCEPT ![t] = r] /\ trig'[t] = r
    BY <1>3 DEF Deliver, Triggers
  <2>3. r \in TriggerType /\ r.ready = trig[t].ready
    BY <2>1 DEF TriggerType
  <2> HIDE DEF r
  <2>4. TrigOK(t)' /\ (May(t) => May(t)')
    BY <2>1, <2>2, <2>3 DEF TrigOK, May, Due
  <2> QED
    BY <2>2, <2>3, <2>4, OneTrigger
<1> QED
  BY <1>1, <1>2, <1>3 DEF Environment

-----------------------------------------------------------------------------
(* Types.                                                                   *)

ClientRecord ==
  [pc : {"idle", "step", "wait", "fire", "firing", "stop_cancel", "stop_close", "stop_wait"},
   gen : Nat, t : Transition \cup {None}, todo : SUBSET Transition, found : SUBSET Transition]

LoopRecord ==
  [pc : {"off", "begin", "top", "running", "pausing", "paused", "select", "find", "fire",
         "exit", "close"},
   done : Nat, stop : Nat, pause : Nat, todo : SUBSET Transition, found : SUBSET Transition]

WaiterRecord ==
  [pc : {"off", "enter", "await", "check", "fire", "firing", "exit"},
   t : Transition \cup {None}, chan : {"current", "timer", "spent", "closed"}]

Types ==
  /\ client \in [Client -> ClientRecord] /\ loop \in [Loop -> LoopRecord]
  /\ worker \in [Worker -> {"off", "start", "firing"}]
  /\ waiter \in [Waiter -> WaiterRecord]
  /\ waiting \subseteq Transition /\ cut \subseteq Transition
  /\ gen \in Nat /\ pauseGen \in Nat /\ stops \in Nat
  /\ late \in [Loop -> Nat] /\ state \in {"stopped", "running", "paused"}

LEMMA NewWaiterIsOff ==
  ASSUME CanSpawn
  PROVE  NewWaiter \in Waiter /\ waiter[NewWaiter].pc = "off"
BY DEF CanSpawn, NewWaiter

LEMMA NewLoopIsOff ==
  ASSUME \E l \in Loop : loop[l].pc = "off"
  PROVE  NewLoop \in Loop /\ loop[NewLoop].pc = "off"
BY DEF NewLoop

(* A look leaves the waiters alone or makes one.                            *)
LEMMA SpawnTypes ==
  ASSUME Types, NEW t \in Transition, UNCHANGED <<waiting, waiter>> \/ Spawn(t)
  PROVE  waiter' \in [Waiter -> WaiterRecord] /\ waiting' \subseteq Transition
<1>1. CASE UNCHANGED <<waiting, waiter>>
  BY <1>1 DEF Types
<1>2. CASE LeaveWaiter(t)
  BY <1>2, NewWaiterIsOff DEF Types, LeaveWaiter, WaiterRecord
<1> QED
  BY <1>1, <1>2 DEF Spawn

LoopQuiet(l) ==
  \/ LoopBegin(l) \/ LoopTop(l) \/ LoopSelect(l) \/ LoopStopped(l) \/ LoopResumed(l)
  \/ LoopTick(l) \/ LoopFound(l) \/ LoopFired(l) \/ LoopExit(l) \/ LoopClose(l)

(* Most steps of a loop change nothing but its own record.                  *)
LEMMA LoopQuietFrame ==
  ASSUME NEW l \in Loop, LoopQuiet(l)
  PROVE  UNCHANGED <<trig, waiting, waiter, worker, late>>
BY DEF LoopQuiet, LoopBegin, LoopTop, LoopSelect, LoopStopped, LoopResumed, LoopTick,
       LoopFound, LoopFired, LoopExit, LoopClose, OnlyLoop

LEMMA LoopQuietFiring ==
  ASSUME NEW l \in Loop, LoopQuiet(l)
  PROVE  firing' = firing
BY DEF LoopQuiet, LoopBegin, LoopTop, LoopSelect, LoopStopped, LoopResumed, LoopTick,
       LoopFound, LoopFired, LoopExit, LoopClose, OnlyLoop, netVars

LEMMA LoopQuietRecord ==
  ASSUME Types, NEW l \in Loop, LoopQuiet(l)
  PROVE  \E r \in LoopRecord : loop' = [loop EXCEPT ![l] = r] /\ r.found \subseteq loop[l].found
<1>0. loop \in [Loop -> LoopRecord] /\ loop[l] \in LoopRecord /\ gen \in Nat /\ pauseGen \in Nat
  BY DEF Types
<1>1. CASE LoopBegin(l)
  <2> DEFINE r == [loop[l] EXCEPT !.pc = "top", !.done = gen]
  <2>1. loop' = [loop EXCEPT ![l] = r]
    BY <1>1 DEF LoopBegin
  <2>2. r \in LoopRecord /\ r.found = loop[l].found
    BY <1>0 DEF LoopRecord
  <2> QED
    BY <2>1, <2>2
<1>2. CASE LoopTop(l)
  <2> DEFINE q == IF paused THEN "pausing" ELSE "running"
             r == [loop[l] EXCEPT !.pc = q, !.pause = pauseGen]
  <2>1. loop' = [loop EXCEPT ![l] = r]
    BY <1>2 DEF LoopTop
  <2>2. q \in {"pausing", "running"}
    OBVIOUS
  <2> HIDE DEF q
  <2>3. r \in LoopRecord /\ r.found = loop[l].found
    BY <1>0, <2>2 DEF LoopRecord
  <2> QED
    BY <2>1, <2>3
<1>3. CASE LoopSelect(l)
  <2> DEFINE q == IF loop[l].pc = "pausing" THEN "paused" ELSE "select"
             r == [loop[l] EXCEPT !.pc = q, !.stop = gen]
  <2>1. loop' = [loop EXCEPT ![l] = r]
    BY <1>3 DEF LoopSelect
  <2>2. q \in {"paused", "select"}
    OBVIOUS
  <2> HIDE DEF q
  <2>3. r \in LoopRecord /\ r.found = loop[l].found
    BY <1>0, <2>2 DEF LoopRecord
  <2> QED
    BY <2>1, <2>3
<1>4. ASSUME NEW q \in {"top", "exit", "close"}, LoopAt(l, q)
      PROVE  \E r \in LoopRecord : loop' = [loop EXCEPT ![l] = r] /\ r.found \subseteq loop[l].found
  <2> DEFINE r == [loop[l] EXCEPT !.pc = q]
  <2>1. loop' = [loop EXCEPT ![l] = r]
    BY <1>4 DEF LoopAt
  <2>2. r \in LoopRecord /\ r.found = loop[l].found
    BY <1>0 DEF LoopRecord
  <2> QED
    BY <2>1, <2>2
<1>5. CASE LoopTick(l)
  <2> DEFINE r == [loop[l] EXCEPT !.pc = "find", !.todo = Transition, !.found = {}]
             s == [loop[l] EXCEPT !.pc = "top"]
  <2>1. loop' = [loop EXCEPT ![l] = r] \/ loop' = [loop EXCEPT ![l] = s]
    BY <1>5 DEF LoopTick
  <2>2. r \in LoopRecord /\ r.found = {}
    BY <1>0 DEF LoopRecord
  <2>3. s \in LoopRecord /\ s.found = loop[l].found
    BY <1>0 DEF LoopRecord
  <2> QED
    BY <2>1, <2>2, <2>3
<1>6. CASE LoopFound(l) /\ loop[l].found # {}
  <2>1. PICK batch \in IF Mode = "concurrent" THEN {loop[l].found}
                       ELSE {{t} : t \in loop[l].found} :
          loop' = [loop EXCEPT ![l].pc = "fire", ![l].found = batch]
    BY <1>6 DEF LoopFound
  <2>2. batch \subseteq loop[l].found /\ batch \subseteq Transition
    BY <1>0, <2>1 DEF LoopRecord
  <2> DEFINE r == [loop[l] EXCEPT !.pc = "fire", !.found = batch]
  <2>3. loop' = [loop EXCEPT ![l] = r]
    BY <2>1
  <2>4. r \in LoopRecord /\ r.found = batch
    BY <1>0, <2>2 DEF LoopRecord
  <2> QED
    BY <2>2, <2>3, <2>4
<1>7. CASE LoopClose(l)
  <2>1. loop' = [loop EXCEPT ![l] = NoLoop] /\ NoLoop \in LoopRecord /\ NoLoop.found = {}
    BY <1>7 DEF LoopClose, NoLoop, LoopRecord
  <2> QED
    BY <2>1
<1> QED
  BY <1>1, <1>2, <1>3, <1>4, <1>5, <1>6, <1>7
     DEF LoopQuiet, LoopStopped, LoopResumed, LoopFound, LoopFired, LoopExit

LEMMA LoopTypes ==
  ASSUME Types, NEW l \in Loop, LoopStep(l)
  PROVE  Types'
<1>0. UNCHANGED <<client, cut, gen, pauseGen, stops>>
  BY DEF LoopStep
<1>state. state' \in {"stopped", "running", "paused"}
  BY DEF LoopStep, LoopBegin, LoopTop, LoopSelect, LoopStopped, LoopResumed, LoopTick, LoopFind,
     LoopFound, LoopFire, LoopFired, LoopExit, LoopClose, OnlyLoop, Types
<1>1. CASE LoopQuiet(l)
  <2>1. PICK r \in LoopRecord : loop' = [loop EXCEPT ![l] = r]
    BY <1>1, LoopQuietRecord
  <2>2. loop' \in [Loop -> LoopRecord]
    BY <2>1 DEF Types
  <2> QED
    BY <1>0, <1>state, <1>1, <2>2, LoopQuietFrame DEF Types
<1>2. CASE LoopFind(l)
  <2>1. PICK t \in loop[l].todo, b \in BOOLEAN :
          /\ loop' = [loop EXCEPT ![l].todo = @ \ {t}, ![l].found = IF b THEN @ \cup {t} ELSE @]
          /\ UNCHANGED <<waiting, waiter>> \/ Spawn(t)
    BY <1>2, LoopFinds
  <2>2. loop[l] \in LoopRecord /\ t \in Transition
    BY DEF Types, LoopRecord
  <2> DEFINE f == IF b THEN loop[l].found \cup {t} ELSE loop[l].found
             r == [loop[l] EXCEPT !.todo = loop[l].todo \ {t}, !.found = f]
  <2>3. f \subseteq Transition
    BY <2>2 DEF LoopRecord
  <2>4. loop' = [loop EXCEPT ![l] = r]
    BY <2>1
  <2> HIDE DEF f
  <2>5. r \in LoopRecord
    BY <2>2, <2>3 DEF LoopRecord
  <2> HIDE DEF r
  <2>6. loop' \in [Loop -> LoopRecord]
    BY <2>4, <2>5 DEF Types
  <2>7. UNCHANGED <<worker, late>>
    BY <1>2 DEF LoopFind
  <2> QED
    BY <1>0, <1>state, <2>1, <2>2, <2>6, <2>7, SpawnTypes DEF Types
<1>3. CASE LoopFire(l)
  <2>1. PICK t \in loop[l].found :
          /\ worker' = [worker EXCEPT ![<<l, t>>] = "start"]
          /\ loop' = [loop EXCEPT ![l].found = @ \ {t}]
    BY <1>3 DEF LoopFire
  <2>2. loop[l] \in LoopRecord /\ t \in Transition
    BY DEF Types, LoopRecord
  <2> DEFINE r == [loop[l] EXCEPT !.found = loop[l].found \ {t}]
  <2>3. loop' = [loop EXCEPT ![l] = r] /\ r \in LoopRecord
    BY <2>1, <2>2 DEF LoopRecord
  <2> HIDE DEF r
  <2>4. loop' \in [Loop -> LoopRecord] /\ worker' \in [Worker -> {"off", "start", "firing"}]
    BY <2>1, <2>3 DEF Types
  <2>5. UNCHANGED <<waiting, waiter, late>>
    BY <1>3 DEF LoopFire
  <2> QED
    BY <1>0, <1>state, <2>4, <2>5 DEF Types
<1>4. ASSUME NEW t \in Transition, WorkerStart(<<l, t>>) \/ WorkerFiring(<<l, t>>),
             UNCHANGED <<waiting, waiter, loop>>
      PROVE  Types'
  <2>1. worker' \in [Worker -> {"off", "start", "firing"}] /\ late' \in [Loop -> Nat]
    BY <1>4 DEF Types, WorkerStart, WorkerFiring
  <2> QED
    BY <1>0, <1>state, <1>4, <2>1 DEF Types
<1> QED
  BY <1>1, <1>2, <1>3, <1>4 DEF LoopStep, LoopQuiet

LEMMA WaiterTypes ==
  ASSUME Types, NEW w \in Waiter, WaiterStep(w)
  PROVE  Types'
<1>1. waiter' \in [Waiter -> WaiterRecord]
  <2>1. ASSUME NEW q \in {"enter", "await", "check", "fire", "firing", "exit"}, WaiterAt(w, q)
        PROVE  waiter' \in [Waiter -> WaiterRecord]
    BY <2>1 DEF WaiterAt, Types, WaiterRecord
  <2>2. CASE waiter' = waiter
    BY <2>2 DEF Types
  <2>3. CASE WaiterExit(w)
    BY <2>3 DEF WaiterExit, Types, WaiterRecord, NoWaiter
  <2> QED
    BY <2>1, <2>2, <2>3 DEF WaiterStep, WaiterEnter, WaiterWake, WaiterGivesUp, WaiterCheck,
                            WaiterFire, WaiterFiring
<1>2. waiting' \subseteq Transition
  BY DEF WaiterStep, WaiterEnter, WaiterWake, WaiterGivesUp, WaiterCheck,
         WaiterFire, WaiterFiring, WaiterExit, Types
<1> QED
  BY <1>1, <1>2 DEF WaiterStep, Types, lifeVars, chanVars, historyVars

(* What a call does to the record of its client.                            *)
LEMMA ClientRecords ==
  ASSUME Types, NEW c \in Client,
         \/ \E q \in {"idle", "firing", "stop_close", "stop_wait"} : ClientAt(c, q)
         \/ Called(c, NoCall)
         \/ \E q \in {"step", "wait"} : Called(c, [NoCall EXCEPT !.pc = q, !.todo = Transition])
         \/ Called(c, [NoCall EXCEPT !.pc = "stop_cancel", !.gen = gen])
         \/ client' = [client EXCEPT ![c] = NoCall]
         \/ client' = [client EXCEPT ![c] = [NoCall EXCEPT !.pc = "wait", !.todo = Transition]]
         \/ \E t \in client[c].found :
              client' = [client EXCEPT ![c] = [NoCall EXCEPT !.pc = "fire", !.t = t]]
         \/ client' = client
  PROVE  client' \in [Client -> ClientRecord]
<1>1. /\ client \in [Client -> ClientRecord] /\ client[c] \in ClientRecord /\ gen \in Nat
      /\ client[c].found \subseteq Transition
  BY DEF Types, ClientRecord
<1>2. NoCall \in ClientRecord
  BY DEF NoCall, ClientRecord
<1>3. CASE \E q \in {"idle", "firing", "stop_close", "stop_wait"} : ClientAt(c, q)
  <2>1. PICK q \in {"idle", "firing", "stop_close", "stop_wait"} :
          client' = [client EXCEPT ![c] = [client[c] EXCEPT !.pc = q]]
    BY <1>3 DEF ClientAt
  <2>2. [client[c] EXCEPT !.pc = q] \in ClientRecord
    BY <1>1 DEF ClientRecord
  <2> QED
    BY <1>1, <2>1, <2>2
<1>4. CASE \E q \in {"step", "wait"} :
             client' = [client EXCEPT ![c] = [NoCall EXCEPT !.pc = q, !.todo = Transition]]
  <2>1. PICK q \in {"step", "wait"} :
          client' = [client EXCEPT ![c] = [NoCall EXCEPT !.pc = q, !.todo = Transition]]
    BY <1>4
  <2>2. [NoCall EXCEPT !.pc = q, !.todo = Transition] \in ClientRecord
    BY <1>2 DEF ClientRecord
  <2> QED
    BY <1>1, <2>1, <2>2
<1>5. CASE client' = [client EXCEPT ![c] = [NoCall EXCEPT !.pc = "stop_cancel", !.gen = gen]]
  BY <1>1, <1>5 DEF ClientRecord, NoCall
<1>6. CASE \E t \in client[c].found :
             client' = [client EXCEPT ![c] = [NoCall EXCEPT !.pc = "fire", !.t = t]]
  <2>1. PICK t \in client[c].found :
          client' = [client EXCEPT ![c] = [NoCall EXCEPT !.pc = "fire", !.t = t]]
    BY <1>6
  <2>2. [NoCall EXCEPT !.pc = "fire", !.t = t] \in ClientRecord
    BY <1>1, <1>2 DEF ClientRecord
  <2> QED
    BY <1>1, <2>1, <2>2
<1>7. CASE client' = [client EXCEPT ![c] = NoCall]
  BY <1>1, <1>2, <1>7
<1> QED
  BY <1>1, <1>3, <1>4, <1>5, <1>6, <1>7 DEF Called

LEMMA ClientFindTypes ==
  ASSUME Types, NEW c \in Client, ClientFind(c)
  PROVE  /\ client' \in [Client -> ClientRecord]
         /\ waiter' \in [Waiter -> WaiterRecord] /\ waiting' \subseteq Transition
<1>1. PICK t \in client[c].todo, b \in BOOLEAN :
        /\ client' = [client EXCEPT ![c].todo = @ \ {t}, ![c].found = IF b THEN @ \cup {t} ELSE @]
        /\ UNCHANGED <<waiting, waiter>> \/ Spawn(t)
  BY ClientFinds
<1>2. client[c] \in ClientRecord /\ t \in Transition
  BY DEF Types, ClientRecord
<1> DEFINE f == IF b THEN client[c].found \cup {t} ELSE client[c].found
           r == [client[c] EXCEPT !.todo = client[c].todo \ {t}, !.found = f]
<1>3. f \subseteq Transition
  BY <1>2 DEF ClientRecord
<1>4. client' = [client EXCEPT ![c] = r]
  BY <1>1
<1> HIDE DEF f
<1>5. r \in ClientRecord
  BY <1>2, <1>3 DEF ClientRecord
<1> HIDE DEF r
<1> QED
  BY ZenonT(30), <1>1, <1>2, <1>4, <1>5, SpawnTypes DEF Types

LEMMA StopCancelTypes ==
  ASSUME Types, NEW c \in Client, StopCancel(c)
  PROVE  waiter' \in [Waiter -> WaiterRecord]
<1>1. ASSUME NEW w \in Waiter
      PROVE  WhenCancelled(w) \in WaiterRecord
  <2>1. waiter[w] \in WaiterRecord
    BY DEF Types
  <2>2. \A x \in {"timer", "spent", "closed"} : [waiter[w] EXCEPT !.chan = x] \in WaiterRecord
    BY <2>1 DEF WaiterRecord
  <2> QED
    BY <2>1, <2>2 DEF WhenCancelled
<1> QED
  BY <1>1 DEF StopCancel

LEMMA ClientTypes ==
  ASSUME Types, NEW c \in Client, ClientStep(c)
  PROVE  Types'
<1>0. worker' = worker
  BY DEF ClientStep
<1>1. CASE Start(c)
  <2>1. loop' \in [Loop -> LoopRecord]
    <3>1. PICK n \in Loop : loop' = [loop EXCEPT ![n].pc = "begin"]
      BY <1>1, NewLoopIsOff DEF Start
    <3>2. loop \in [Loop -> LoopRecord] /\ [loop[n] EXCEPT !.pc = "begin"] \in LoopRecord
      BY DEF Types, LoopRecord
    <3> QED
      BY <3>1, <3>2
  <2>2. client' \in [Client -> ClientRecord]
    BY <1>1, ClientRecords DEF Start
  <2> QED
    BY <1>0, <1>1, <2>1, <2>2 DEF Start, Types
<1>2. CASE Pause(c)
  <2>1. client' \in [Client -> ClientRecord]
    BY <1>2, ClientRecords DEF Pause
  <2> QED
    BY <1>0, <1>2, <2>1 DEF Pause, Types, chanVars
<1>3. CASE Resume(c)
  <2>1. client' \in [Client -> ClientRecord]
    BY <1>3, ClientRecords DEF Resume
  <2> QED
    BY <1>0, <1>3, <2>1 DEF Resume, Types, historyVars
<1>4. CASE Stop(c) \/ Step(c) \/ Wait(c) \/ StepFound(c) \/ WaitRead(c)
  <2>1. client' \in [Client -> ClientRecord]
    BY <1>4, ClientRecords DEF Stop, Step, Wait, StepFound, WaitRead
  <2>2. UNCHANGED <<lifeVars, waiting, loop, waiter, historyVars>>
    BY <1>4 DEF Stop, Step, Wait, StepFound, WaitRead, OnlyClient
  <2> QED
    BY <1>0, <2>1, <2>2 DEF Types, lifeVars, chanVars, historyVars
<1>5. CASE StopCancel(c)
  <2>1. client' \in [Client -> ClientRecord]
    BY <1>5, ClientRecords DEF StopCancel
  <2> QED
    BY <1>0, <1>5, <2>1, StopCancelTypes DEF StopCancel, Types, lifeVars, chanVars
<1>6. CASE StopClose(c) \/ StopDone(c) \/ StepFire(c) \/ StepFiring(c)
  <2>1. client' \in [Client -> ClientRecord]
    BY <1>6, ClientRecords DEF StopClose, StopDone, StepFire, StepFiring
  <2>2. UNCHANGED <<gen, pauseGen, waiting, loop, waiter, historyVars>>
    BY <1>6 DEF StopClose, StopDone, StepFire, StepFiring, lifeVars, chanVars
  <2>3. state' \in {"stopped", "running", "paused"}
    BY <1>6 DEF StopClose, StopDone, StepFire, StepFiring, lifeVars, Types
  <2> QED
    BY <1>0, <2>1, <2>2, <2>3 DEF Types, historyVars
<1>7. CASE ClientFind(c)
  BY <1>0, <1>7, ClientFindTypes DEF ClientFind, Types, lifeVars, chanVars, historyVars
<1> QED
  BY <1>1, <1>2, <1>3, <1>4, <1>5, <1>6, <1>7 DEF ClientStep

LEMMA EnvironmentTypes ==
  ASSUME Types, EnvironmentStep
  PROVE  Types'
BY DEF EnvironmentStep, Types, lifeVars, chanVars, historyVars

LEMMA InitTypes ==
  ASSUME Init
  PROVE  Types
<1>1. NoCall \in ClientRecord /\ NoLoop \in LoopRecord /\ NoWaiter \in WaiterRecord
  BY DEF NoCall, NoLoop, NoWaiter, ClientRecord, LoopRecord, WaiterRecord
<1> QED
  BY <1>1 DEF Init, Types

LEMMA StepTypes ==
  ASSUME Types, [Next]_vars
  PROVE  Types'
<1>1. CASE UNCHANGED vars
  BY <1>1 DEF vars, Types, lifeVars, chanVars, historyVars
<1> QED
  BY <1>1, LoopTypes, WaiterTypes, ClientTypes, EnvironmentTypes DEF Next

-----------------------------------------------------------------------------
(* The invariant, in four parts.                                            *)

(* Whatever is on its way to a firing has what it needs, and a waiter whose *)
(* channel is not that of the trigger any more was cancelled by a Stop.     *)
LoopMay(l) == \A t \in loop[l].found : May(t)

ClientMay(c) ==
  /\ \A t \in client[c].found : May(t)
  /\ client[c].pc = "fire" => client[c].t \in Transition /\ May(client[c].t)

WorkerMay(x) == worker[x] = "start" => May(x[2])

WaiterMay(w) ==
  LET t == waiter[w].t IN
  /\ waiter[w].pc # "off" => t \in Transition /\ Kind[t] # "none"
  /\ waiter[w].chan # "current" => t \in cut
  /\ waiter[w].pc \in {"check", "fire"} => May(t)

OnTheWay ==
  /\ \A l \in Loop : LoopMay(l)
  /\ \A c \in Client : ClientMay(c)
  /\ \A x \in Worker : WorkerMay(x)
  /\ \A w \in Waiter : WaiterMay(w)

(* Only a loop that fires has workers, and a sequential one has one firing. *)
Busy(l) == \E t \in Transition : worker[<<l, t>>] # "off"

OneFiring(l) ==
  /\ Busy(l) => loop[l].found = {}
  /\ \A t, u \in loop[l].found : t = u
  /\ \A t, u \in Transition : worker[<<l, t>>] # "off" /\ worker[<<l, u>>] # "off" => t = u

FireOK(l) ==
  /\ Busy(l) => loop[l].pc = "fire"
  /\ Mode = "sequential" /\ loop[l].pc = "fire" => OneFiring(l)

WorkersInFire == \A l \in Loop : FireOK(l)

(* The loop has looked at the pause flag, and will begin a firing.          *)
Ahead(l) ==
  \/ loop[l].pc \in {"running", "select", "find"}
  \/ loop[l].pc = "fire" /\ loop[l].found # {}
  \/ \E t \in Transition : worker[<<l, t>>] = "start"

LateOK(l) == late[l] <= 1 /\ (paused /\ late[l] = 1 => ~Ahead(l))

OneLate == Mode = "sequential" => \A l \in Loop : LateOK(l)

(* A waiter more than there were Stops is noted in waitingTransitions.      *)
Alive(t) == {w \in Waiter : waiter[w].pc # "off" /\ waiter[w].t = t}

Noted(t) == IF t \in waiting THEN 1 ELSE 0

WaitersNoted ==
  \A t \in Transition : IsFiniteSet(Alive(t)) /\ Cardinality(Alive(t)) <= stops + Noted(t)

(* One loop runs, it belongs to the current doneCh, and so does every Stop. *)
Active(l) == loop[l].pc \notin {"off", "close"}

OneLoop ==
  /\ state = "stopped" => \A l \in Loop : ~Active(l)
  /\ \A l, m \in Loop : Active(l) /\ Active(m) => l = m
  /\ \A l \in Loop :
       /\ loop[l].done <= gen
       /\ Active(l) => gen \notin closedDone /\ (loop[l].pc # "begin" => loop[l].done = gen)
       /\ loop[l].pc = "close" /\ loop[l].done = gen => \A m \in Loop : ~Active(m)
  /\ \A c \in Client : Stopping(c) => client[c].gen = gen
  /\ \A g \in closedDone : g \in Nat /\ g <= gen

LoopsCounted == ~restarted => OneLoop

-----------------------------------------------------------------------------
(* Part one: triggers, and what is on its way to a firing.                  *)

DueInv == Types /\ Triggers /\ OnTheWay

(* Who is not touched, or only loses transitions, keeps what it needs.      *)
LEMMA Untouched ==
  ASSUME DueInv, TriggersKept, cut \subseteq cut'
  PROVE  /\ \A l \in Loop : loop'[l].found \subseteq loop[l].found => LoopMay(l)'
         /\ \A c \in Client : client'[c] = client[c] => ClientMay(c)'
         /\ \A x \in Worker : worker'[x] = worker[x] => WorkerMay(x)'
         /\ \A w \in Waiter : waiter'[w] = waiter[w] => WaiterMay(w)'
<1>1. \A t \in Transition : May(t) => May(t)'
  BY DEF TriggersKept
<1>2. ASSUME NEW l \in Loop, loop'[l].found \subseteq loop[l].found
      PROVE  LoopMay(l)'
  <2>1. loop[l].found \subseteq Transition
    BY DEF DueInv, Types, LoopRecord
  <2> QED
    BY <1>1, <1>2, <2>1 DEF DueInv, OnTheWay, LoopMay
<1>3. ASSUME NEW c \in Client, client'[c] = client[c]
      PROVE  ClientMay(c)'
  <2>1. client[c].found \subseteq Transition
    BY DEF DueInv, Types, ClientRecord
  <2> QED
    BY <1>1, <1>3, <2>1 DEF DueInv, OnTheWay, ClientMay
<1>4. ASSUME NEW x \in Worker, worker'[x] = worker[x]
      PROVE  WorkerMay(x)'
  BY <1>1, <1>4 DEF DueInv, OnTheWay, WorkerMay, Worker
<1>5. ASSUME NEW w \in Waiter, waiter'[w] = waiter[w]
      PROVE  WaiterMay(w)'
  BY <1>1, <1>5 DEF DueInv, OnTheWay, WaiterMay
<1> QED
  BY <1>2, <1>3, <1>4, <1>5

(* A new waiter needs nothing yet.                                          *)
LEMMA SpawnMay ==
  ASSUME DueInv, TriggersKept, cut \subseteq cut', NEW t \in Transition, ~ShouldFire(t),
         UNCHANGED <<waiting, waiter>> \/ Spawn(t)
  PROVE  \A w \in Waiter : WaiterMay(w)'
<1>1. CASE UNCHANGED <<waiting, waiter>>
  BY <1>1, Untouched
<1>2. CASE LeaveWaiter(t)
  <2>1. PICK n \in Waiter :
          /\ \A w \in Waiter : w # n => waiter'[w] = waiter[w]
          /\ waiter'[n] = [pc |-> "enter", t |-> t, chan |-> "current"]
    BY <1>2, NewWaiterIsOff DEF LeaveWaiter, DueInv, Types
  <2>2. Kind[t] # "none"
    BY DEF ShouldFire
  <2>3. WaiterMay(n)'
    BY <2>1, <2>2 DEF WaiterMay
  <2> QED
    BY <2>1, <2>3, Untouched
<1> QED
  BY <1>1, <1>2 DEF Spawn

LEMMA LoopDue ==
  ASSUME DueInv, NEW l \in Loop, LoopStep(l)
  PROVE  TriggersKept /\ OnTheWay'
<1>0. UNCHANGED <<client, cut>> /\ Triggers
  BY DEF LoopStep, DueInv
<1>1. CASE LoopQuiet(l)
  <2>1. PICK r \in LoopRecord : loop' = [loop EXCEPT ![l] = r] /\ r.found \subseteq loop[l].found
    BY <1>1, LoopQuietRecord DEF DueInv
  <2>2. \A m \in Loop : loop'[m].found \subseteq loop[m].found
    BY <2>1 DEF DueInv, Types
  <2>3. UNCHANGED <<trig, waiter, worker>>
    BY <1>1, LoopQuietFrame
  <2>4. TriggersKept
    BY <1>0, <2>3, SameTriggers
  <2> QED
    BY <1>0, <2>2, <2>3, <2>4, Untouched DEF OnTheWay
<1>2. CASE LoopFind(l)
  <2>1. PICK t \in loop[l].todo, b \in BOOLEAN :
          /\ b => ShouldFire(t)
          /\ loop' = [loop EXCEPT ![l].todo = @ \ {t}, ![l].found = IF b THEN @ \cup {t} ELSE @]
          /\ trig' = trig \/ AskShouldFire(t)
          /\ \/ UNCHANGED <<waiting, waiter>>
             \/ ~ShouldFire(t) /\ Spawn(t)
    BY <1>2, LoopFinds
  <2>2. t \in Transition /\ loop \in [Loop -> LoopRecord]
    BY DEF DueInv, Types, LoopRecord
  <2>3. TriggersKept
    BY <1>0, <2>1, <2>2, SameTriggers, AskTriggers
  <2>4. /\ \A m \in Loop : m # l => loop'[m] = loop[m]
        /\ loop'[l].found = IF b THEN loop[l].found \cup {t} ELSE loop[l].found
    BY <2>1, <2>2 DEF LoopRecord
  <2>5. b => May(t)'
    BY <2>1, <2>2, <2>3, <1>0, ShouldFireMay DEF TriggersKept
  <2>6. LoopMay(l)'
    <3>1. \A u \in loop[l].found : May(u)'
      BY <2>2, <2>3 DEF TriggersKept, DueInv, OnTheWay, LoopMay, LoopRecord
    <3> QED
      BY <2>4, <2>5, <3>1 DEF LoopMay
  <2>7. \A m \in Loop : LoopMay(m)'
    BY <1>0, <2>3, <2>4, <2>6, Untouched
  <2>8. worker' = worker
    BY <1>2 DEF LoopFind
  <2>9. \A w \in Waiter : WaiterMay(w)'
    BY <1>0, <2>1, <2>2, <2>3, SpawnMay, Untouched
  <2> QED
    BY <1>0, <2>3, <2>7, <2>8, <2>9, Untouched DEF OnTheWay
<1>3. CASE LoopFire(l)
  <2>1. PICK t \in loop[l].found :
          /\ worker' = [worker EXCEPT ![<<l, t>>] = "start"]
          /\ loop' = [loop EXCEPT ![l].found = @ \ {t}]
    BY <1>3 DEF LoopFire
  <2>2. t \in Transition /\ loop \in [Loop -> LoopRecord]
    BY DEF DueInv, Types, LoopRecord
  <2>3. UNCHANGED <<trig, waiter>>
    BY <1>3 DEF LoopFire
  <2>4. TriggersKept
    BY <1>0, <2>3, SameTriggers
  <2>5. \A m \in Loop : loop'[m].found \subseteq loop[m].found
    BY <2>1, <2>2 DEF LoopRecord
  <2>6. May(t)'
    BY <2>2, <2>4 DEF TriggersKept, DueInv, OnTheWay, LoopMay
  <2>7. \A x \in Worker : WorkerMay(x)'
    <3>1. WorkerMay(<<l, t>>)'
      BY <2>6 DEF WorkerMay
    <3>2. \A x \in Worker : x # <<l, t>> => worker'[x] = worker[x]
      BY <2>1 DEF DueInv, Types
    <3> QED
      BY <1>0, <2>4, <3>1, <3>2, Untouched
  <2> QED
    BY <1>0, <2>3, <2>4, <2>5, <2>7, Untouched DEF OnTheWay
<1>4. ASSUME NEW t \in Transition, WorkerStart(<<l, t>>) \/ WorkerFiring(<<l, t>>),
             UNCHANGED <<trig, waiter, loop>>
      PROVE  TriggersKept /\ OnTheWay'
  <2>1. TriggersKept
    BY <1>0, <1>4, SameTriggers
  <2>2. <<l, t>> \in Worker
    BY DEF Worker
  <2>3. /\ \A x \in Worker : x # <<l, t>> => worker'[x] = worker[x]
        /\ worker'[<<l, t>>] \in {"firing", "off", worker[<<l, t>>]}
    BY <1>4, <2>2 DEF DueInv, Types, WorkerStart, WorkerFiring
  <2>4. worker'[<<l, t>>] = "start" => worker'[<<l, t>>] = worker[<<l, t>>]
    BY <2>3
  <2>5. \A x \in Worker : WorkerMay(x)'
    <3>1. WorkerMay(<<l, t>>)'
      BY <1>0, <2>1, <2>2, <2>4, Untouched DEF WorkerMay
    <3> QED
      BY <1>0, <2>1, <2>3, <3>1, Untouched
  <2> QED
    BY <1>0, <1>4, <2>1, <2>5, Untouched DEF OnTheWay
<1> QED
  BY <1>1, <1>2, <1>3, <1>4 DEF LoopStep, LoopQuiet

LEMMA WaiterDue ==
  ASSUME DueInv, NEW w \in Waiter, WaiterStep(w)
  PROVE  TriggersKept /\ OnTheWay'
<1> PICK t : t = waiter[w].t
  OBVIOUS
<1>0. UNCHANGED <<client, loop, worker, cut>> /\ Triggers /\ waiter \in [Waiter -> WaiterRecord]
  BY DEF WaiterStep, DueInv, historyVars, Types
<1>1. SUFFICES TriggersKept /\ WaiterMay(w)' /\ \A q \in Waiter : q # w => waiter'[q] = waiter[q]
  <2>1. ASSUME TriggersKept, WaiterMay(w)', \A q \in Waiter : q # w => waiter'[q] = waiter[q]
        PROVE  OnTheWay'
    BY <1>0, <2>1, Untouched DEF OnTheWay
  <2> QED
    BY <2>1
<1>2. waiter[w].pc # "off" => t \in Transition /\ Kind[t] # "none"
  BY DEF DueInv, OnTheWay, WaiterMay
<1>cut. waiter[w].chan # "current" => t \in cut
  BY DEF DueInv, OnTheWay, WaiterMay
<1>3. ASSUME NEW q \in {"enter", "await", "check", "fire", "firing", "exit"}, WaiterAt(w, q)
      PROVE  /\ \A v \in Waiter : v # w => waiter'[v] = waiter[v]
             /\ waiter'[w].pc = q /\ waiter'[w].t = t /\ waiter'[w].chan = waiter[w].chan
  BY <1>0, <1>3 DEF WaiterAt, WaiterRecord
<1>4. CASE WaiterEnter(w)
  <2>1. CASE AwaitFails(t) /\ WaiterAt(w, "exit") /\ UNCHANGED trig
    <3>1. TriggersKept
      BY <1>0, <2>1, SameTriggers
    <3> QED
      BY <1>0, <1>2, <1>3, <1>4, <1>cut, <2>1, <3>1 DEF WaiterMay, WaiterEnter
  <2>2. CASE ~AwaitFails(t) /\ WaiterAt(w, "await") /\ EnterAwait(t)
    <3>1. TriggersKept
      BY <1>0, <1>2, <1>4, <2>2, EnterTriggers DEF WaiterEnter
    <3> QED
      BY <1>0, <1>2, <1>3, <1>4, <1>cut, <2>2, <3>1 DEF WaiterMay, WaiterEnter
  <2> QED
    BY <1>4, <2>1, <2>2 DEF WaiterEnter
<1>5. CASE WaiterWake(w)
  <2>1. TriggersKept /\ May(t)'
    <3>1. CASE waiter[w].chan = "current" /\ CanWake(t) /\ Wake(t)
      BY <1>0, <1>2, <1>5, <3>1, WakeTriggers DEF WaiterWake
    <3>2. CASE waiter[w].chan = "timer" /\ UNCHANGED trig
      <4>1. t \in cut
        BY <1>cut, <3>2
      <4> QED
        BY <1>0, <3>2, <4>1, SameTriggers DEF May
    <3>3. CASE waiter[w].chan = "closed" /\ trig' = [trig EXCEPT ![t].ready = TRUE]
      <4>1. t \in cut
        BY <1>cut, <3>3
      <4> QED
        BY <1>0, <1>2, <1>5, <3>3, <4>1, ClosedTriggers DEF May, WaiterWake
    <3> QED
      BY <1>5, <3>1, <3>2, <3>3 DEF WaiterWake
  <2>2. WaiterAt(w, "check")
    BY <1>5 DEF WaiterWake
  <2>3. waiter'[w].t = t /\ waiter'[w].pc = "check" /\ t \in Transition /\ Kind[t] # "none"
    BY <1>2, <1>3, <1>5, <2>2 DEF WaiterWake
  <2>4. WaiterMay(w)'
    BY <1>0, <1>3, <1>cut, <2>1, <2>2, <2>3 DEF WaiterMay
  <2> QED
    BY <1>3, <2>1, <2>2, <2>4
<1>6. CASE \E q \in {"exit", "firing"} : waiter[w].pc # "off" /\ WaiterAt(w, q) /\ UNCHANGED trig
  <2>1. TriggersKept
    BY <1>0, <1>6, SameTriggers
  <2> QED
    BY <1>0, <1>2, <1>3, <1>6, <1>cut, <2>1 DEF WaiterMay
<1>7. CASE WaiterCheck(w)
  <2>1. PICK q \in {"fire", "exit"} : WaiterAt(w, q)
    BY <1>7 DEF WaiterCheck
  <2>2. TriggersKept /\ (May(t) => May(t)')
    BY <1>0, <1>2, <1>7, SameTriggers DEF WaiterCheck, TriggersKept
  <2>3. May(t)
    BY <1>7 DEF WaiterCheck, DueInv, OnTheWay, WaiterMay
  <2>4. waiter[w].pc # "off"
    BY <1>7 DEF WaiterCheck
  <2>5. waiter'[w].t = t /\ waiter'[w].pc = q
    BY <1>3, <2>1
  <2>6. WaiterMay(w)'
    BY <1>0, <1>2, <1>3, <1>cut, <2>1, <2>2, <2>3, <2>4, <2>5 DEF WaiterMay
  <2> QED
    BY <1>3, <2>1, <2>2, <2>6
<1>8. CASE waiter' = waiter /\ UNCHANGED trig
  BY <1>0, <1>8, SameTriggers, Untouched
<1>9. CASE WaiterExit(w)
  <2>1. /\ \A q \in Waiter : q # w => waiter'[q] = waiter[q]
        /\ waiter'[w] = NoWaiter /\ UNCHANGED trig
    BY <1>0, <1>9 DEF WaiterExit
  <2>2. WaiterMay(w)'
    BY <2>1 DEF WaiterMay, NoWaiter
  <2> QED
    BY <1>0, <2>1, <2>2, SameTriggers
<1> QED
  BY <1>4, <1>5, <1>6, <1>7, <1>8, <1>9
     DEF WaiterStep, WaiterGivesUp, WaiterFire, WaiterFiring

LEMMA StopCancelDue ==
  ASSUME DueInv, NEW c \in Client, StopCancel(c)
  PROVE  TriggersKept /\ \A w \in Waiter : WaiterMay(w)'
<1>1. TriggersKept /\ cut' = cut \cup waiting
  BY CancelTriggers DEF StopCancel, DueInv, Types
<1>2. ASSUME NEW w \in Waiter
      PROVE  WaiterMay(w)'
  <2>1. CASE waiter'[w] = waiter[w]
    BY <1>1, <2>1, Untouched
  <2>2. CASE waiter'[w] # waiter[w]
    <3>1. /\ waiter[w].t \in waiting /\ waiter[w].pc = "await"
          /\ \E x \in {"timer", "spent", "closed"} : waiter'[w] = [waiter[w] EXCEPT !.chan = x]
      BY <2>2 DEF StopCancel, WhenCancelled
    <3>2. /\ waiter'[w].t = waiter[w].t /\ waiter'[w].pc = "await"
          /\ waiter[w].t \in Transition /\ Kind[waiter[w].t] # "none" /\ waiter[w].t \in cut'
      BY <1>1, <3>1 DEF DueInv, OnTheWay, WaiterMay, Types, WaiterRecord
    <3> QED
      BY <3>2 DEF WaiterMay
  <2> QED
    BY <2>1, <2>2
<1> QED
  BY <1>1, <1>2

LEMMA ClientDue ==
  ASSUME DueInv, NEW c \in Client, ClientStep(c)
  PROVE  TriggersKept /\ OnTheWay'
<1>0. UNCHANGED worker /\ Triggers /\ client \in [Client -> ClientRecord] /\ cut \subseteq cut'
  BY DEF ClientStep, DueInv, Types, historyVars, OnlyClient, Start, Pause, Resume, Stop, Step,
         Wait, StopCancel, StopClose, StopDone, ClientFind, StepFound, StepFire, StepFiring, WaitRead
<1>1. CASE ClientFind(c)
  <2>1. PICK t \in client[c].todo, b \in BOOLEAN :
          /\ b => ShouldFire(t)
          /\ client' = [client EXCEPT ![c].todo = @ \ {t},
                                      ![c].found = IF b THEN @ \cup {t} ELSE @]
          /\ trig' = trig \/ AskShouldFire(t)
          /\ \/ UNCHANGED <<waiting, waiter>>
             \/ ~ShouldFire(t) /\ Spawn(t)
    BY <1>1, ClientFinds
  <2>2. t \in Transition /\ UNCHANGED <<loop, cut>>
    BY <1>0, <1>1 DEF ClientRecord, ClientFind, historyVars
  <2>3. TriggersKept
    BY <1>0, <2>1, <2>2, SameTriggers, AskTriggers
  <2>4. b => May(t)'
    BY <1>0, <2>1, <2>2, <2>3, ShouldFireMay DEF TriggersKept
  <2>5. /\ client'[c].found = IF b THEN client[c].found \cup {t} ELSE client[c].found
        /\ client'[c].pc = client[c].pc /\ client[c].pc # "fire"
        /\ \A d \in Client : d # c => client'[d] = client[d]
    BY <1>0, <1>1, <2>1 DEF ClientRecord, ClientFind
  <2>6. ClientMay(c)'
    <3>1. \A u \in client[c].found : May(u)'
      BY <1>0, <2>3 DEF TriggersKept, DueInv, OnTheWay, ClientMay, ClientRecord
    <3> QED
      BY <2>4, <2>5, <3>1 DEF ClientMay
  <2>7. \A d \in Client : ClientMay(d)'
    BY <1>0, <2>3, <2>5, <2>6, Untouched
  <2>8. \A w \in Waiter : WaiterMay(w)'
    BY <1>0, <2>1, <2>2, <2>3, SpawnMay, Untouched
  <2> QED
    BY <1>0, <2>2, <2>3, <2>7, <2>8, Untouched DEF OnTheWay
<1>2. CASE ~ClientFind(c)
  <2>1. TriggersKept /\ \A w \in Waiter : WaiterMay(w)'
    <3>1. CASE StopCancel(c)
      BY <3>1, StopCancelDue
    <3>2. CASE ~StopCancel(c)
      <4>1. UNCHANGED <<trig, waiter, cut>>
        BY <1>2, <3>2 DEF ClientStep, historyVars, triggerVars, OnlyClient, Start, Pause, Resume, Stop,
           Step, Wait, StopClose, StopDone, StepFound, StepFire, StepFiring, WaitRead
      <4>2. TriggersKept
        BY <1>0, <4>1, SameTriggers
      <4> QED
        BY <1>0, <4>1, <4>2, Untouched
    <3> QED
      BY <3>1, <3>2
  <2>2. \A l \in Loop : loop'[l].found \subseteq loop[l].found
    <3>1. CASE Start(c)
      <4>1. PICK n \in Loop : loop' = [loop EXCEPT ![n].pc = "begin"]
        BY <3>1, NewLoopIsOff DEF Start
      <4> QED
        BY <4>1 DEF DueInv, Types, LoopRecord
    <3>2. CASE ~Start(c)
      BY <1>2, <3>2 DEF ClientStep, OnlyClient, Pause, Resume, Stop, Step, Wait, StopCancel,
         StopClose, StopDone, StepFound, StepFire, StepFiring, WaitRead
    <3> QED
      BY <3>1, <3>2
  <2>3. \A d \in Client : ClientMay(d)'
    <3>1. \A t \in client[c].found : t \in Transition /\ May(t)'
      BY <1>0, <2>1 DEF TriggersKept, DueInv, OnTheWay, ClientMay, ClientRecord
    <3>2. ASSUME NEW r, client' = [client EXCEPT ![c] = r],
                 r.found \subseteq client[c].found,
                 r.pc = "fire" => r.t \in client[c].found
          PROVE  \A d \in Client : ClientMay(d)'
      <4>1. ClientMay(c)'
        BY <1>0, <3>1, <3>2 DEF ClientMay
      <4>2. \A d \in Client : d # c => client'[d] = client[d]
        BY <1>0, <3>2
      <4> QED
        BY <1>0, <2>1, <4>1, <4>2, Untouched
    <3>3. CASE \E q \in {"idle", "firing", "stop_close", "stop_wait"} : ClientAt(c, q)
      <4>1. PICK q \in {"idle", "firing", "stop_close", "stop_wait"} : ClientAt(c, q)
        BY <3>3
      <4> DEFINE r == [client[c] EXCEPT !.pc = q]
      <4>2. client' = [client EXCEPT ![c] = r]
        BY <4>1 DEF ClientAt
      <4>3. r.found = client[c].found /\ r.pc # "fire"
        BY <1>0 DEF ClientRecord
      <4> HIDE DEF r
      <4> QED
        BY <3>2, <4>2, <4>3
    <3>4. CASE Called(c, NoCall) \/ client' = [client EXCEPT ![c] = NoCall]
      BY <3>2, <3>4 DEF Called, NoCall
    <3>5. CASE \E q \in {"step", "wait"} :
                 client' = [client EXCEPT ![c] = [NoCall EXCEPT !.pc = q, !.todo = Transition]]
      <4>1. PICK q \in {"step", "wait"} :
              client' = [client EXCEPT ![c] = [NoCall EXCEPT !.pc = q, !.todo = Transition]]
        BY <3>5
      <4> DEFINE r == [NoCall EXCEPT !.pc = q, !.todo = Transition]
      <4>2. r.found = {} /\ r.pc # "fire"
        BY DEF NoCall
      <4>3. client' = [client EXCEPT ![c] = r]
        BY <4>1
      <4> HIDE DEF r
      <4> QED
        BY <3>2, <4>2, <4>3
    <3>6. CASE Called(c, [NoCall EXCEPT !.pc = "stop_cancel", !.gen = gen])
      <4> DEFINE r == [NoCall EXCEPT !.pc = "stop_cancel", !.gen = gen]
      <4>1. r.found = {} /\ r.pc # "fire" /\ client' = [client EXCEPT ![c] = r]
        BY <3>6 DEF NoCall, Called
      <4> HIDE DEF r
      <4> QED
        BY <3>2, <4>1
    <3>7. CASE \E t \in client[c].found :
                 client' = [client EXCEPT ![c] = [NoCall EXCEPT !.pc = "fire", !.t = t]]
      <4>1. PICK t \in client[c].found :
              client' = [client EXCEPT ![c] = [NoCall EXCEPT !.pc = "fire", !.t = t]]
        BY <3>7
      <4> DEFINE r == [NoCall EXCEPT !.pc = "fire", !.t = t]
      <4>2. r.found = {} /\ r.t = t /\ client' = [client EXCEPT ![c] = r]
        BY <4>1 DEF NoCall
      <4> HIDE DEF r
      <4> QED
        BY <3>2, <4>2
    <3>8. CASE client' = client
      BY <1>0, <2>1, <3>8, Untouched
    <3> QED
      BY <1>2, <3>3, <3>4, <3>5, <3>6, <3>7, <3>8
         DEF ClientStep, Start, Pause, Resume, Stop, Step, Wait, StopCancel, StopClose, StopDone,
             StepFound, StepFire, StepFiring, WaitRead, Called
  <2> QED
    BY <1>0, <2>1, <2>2, <2>3, Untouched DEF OnTheWay
<1> QED
  BY <1>1, <1>2

LEMMA StepDue ==
  ASSUME DueInv, [Next]_vars
  PROVE  DueInv'
<1>1. Types'
  BY StepTypes DEF DueInv
<1>2. CASE UNCHANGED vars
  <2>1. UNCHANGED <<trig, cut, loop, client, worker, waiter>>
    BY <1>2 DEF vars, triggerVars, historyVars
  <2>2. TriggersKept
    BY <2>1, SameTriggers DEF DueInv
  <2> QED
    BY <1>1, <2>1, <2>2, Untouched DEF DueInv, TriggersKept, OnTheWay
<1>3. CASE EnvironmentStep
  <2>1. UNCHANGED <<cut, loop, client, worker, waiter>>
    BY <1>3 DEF EnvironmentStep, historyVars
  <2>2. TriggersKept
    BY <1>3, <2>1, EnvironmentTriggers, SameTriggers DEF EnvironmentStep, DueInv, triggerVars
  <2> QED
    BY <1>1, <2>1, <2>2, Untouched DEF DueInv, TriggersKept, OnTheWay
<1> QED
  BY <1>1, <1>2, <1>3, LoopDue, WaiterDue, ClientDue DEF Next, DueInv, TriggersKept

LEMMA InitDue ==
  ASSUME Init
  PROVE  DueInv
<1>1. Triggers
  BY DEF Init, TriggerInit, Triggers, TrigOK, NewTrigger, TriggerType
<1>2. OnTheWay
  BY DEF Init, OnTheWay, LoopMay, ClientMay, WorkerMay, WaiterMay, NoLoop, NoCall, NoWaiter
<1> QED
  BY <1>1, <1>2, InitTypes DEF DueInv

(* Looking does not change what a client does.                              *)
LEMMA ClientFindPc ==
  ASSUME client \in [Client -> ClientRecord], NEW c \in Client, ClientFind(c)
  PROVE  client[c].pc \in {"step", "wait"} /\ client'[c].pc = client[c].pc
<1>1. PICK t \in client[c].todo, b \in BOOLEAN :
        client' = [client EXCEPT ![c].todo = @ \ {t}, ![c].found = IF b THEN @ \cup {t} ELSE @]
  BY ClientFinds
<1> QED
  BY <1>1 DEF ClientRecord, ClientFind

(* Only a step that starts a firing makes a goroutine fire, and it is the   *)
(* firing of the transition that was found.                                 *)
LEMMA StartFires ==
  ASSUME NEW x, NEW t, Game!Start(x, t), NEW th \in DOMAIN firing, Fires(th)
  PROVE  firing'[th].trans = t
BY DEF Game!Start, Fires

LEMMA RunningFiresNothing ==
  ASSUME NEW x, Proceed(x) \/ EndOfFiring(x), NEW th \in DOMAIN firing
  PROVE  ~Fires(th)
BY DEF Proceed, EndOfFiring, Game!Put, Game!Commit, Game!Abort, Game!Fail, Fires

LEMMA FiresWhatMay ==
  ASSUME DueInv, [Next]_vars, NEW th \in DOMAIN firing, Fires(th)
  PROVE  May(firing'[th].trans)
<1>1. ASSUME NEW l \in Loop, LoopStep(l)
      PROVE  May(firing'[th].trans)
  <2>1. firing' # firing
    BY DEF Fires
  <2>2. PICK t \in Transition : WorkerStart(<<l, t>>) \/ WorkerFiring(<<l, t>>)
    BY <1>1, <2>1, LoopQuietFiring DEF LoopStep, LoopQuiet, LoopFind, LoopFire, netVars
  <2>3. CASE WorkerStart(<<l, t>>)
    <3>1. Game!Start(<<l, t>>, t)
      BY <2>1, <2>3 DEF WorkerStart, netVars
    <3>2. firing'[th].trans = t
      BY <3>1, StartFires
    <3>3. May(t)
      BY <2>3 DEF WorkerStart, DueInv, OnTheWay, WorkerMay, Worker
    <3> QED
      BY <3>2, <3>3
  <2>4. CASE WorkerFiring(<<l, t>>)
    BY <2>4, RunningFiresNothing DEF WorkerFiring
  <2> QED
    BY <2>2, <2>3, <2>4
<1>2. ASSUME NEW w \in Waiter, WaiterStep(w)
      PROVE  May(firing'[th].trans)
  <2>1. firing' # firing
    BY DEF Fires
  <2>2. WaiterFire(w) \/ WaiterFiring(w)
    BY <1>2, <2>1 DEF WaiterStep, WaiterEnter, WaiterWake, WaiterGivesUp, WaiterCheck, WaiterExit,
       netVars
  <2>3. CASE WaiterFire(w)
    <3>1. Game!Start(w, waiter[w].t) /\ waiter[w].pc = "fire"
      BY <2>1, <2>3 DEF WaiterFire, netVars
    <3>2. firing'[th].trans = waiter[w].t
      BY <3>1, StartFires
    <3>3. May(waiter[w].t)
      BY <3>1 DEF DueInv, OnTheWay, WaiterMay
    <3> QED
      BY <3>2, <3>3
  <2>4. CASE WaiterFiring(w)
    BY <2>4, RunningFiresNothing DEF WaiterFiring
  <2> QED
    BY <2>2, <2>3, <2>4
<1>3. ASSUME NEW c \in Client, ClientStep(c)
      PROVE  May(firing'[th].trans)
  <2>1. firing' # firing
    BY DEF Fires
  <2>2. StepFire(c) \/ StepFiring(c)
    BY <1>3, <2>1 DEF ClientStep, OnlyClient, Start, Pause, Resume, Stop, Step, Wait, StopCancel,
       StopClose, StopDone, ClientFind, StepFound, WaitRead, netVars
  <2>3. CASE StepFire(c)
    <3>1. Game!Start(c, client[c].t) /\ client[c].pc = "fire"
      BY <2>1, <2>3 DEF StepFire, netVars
    <3>2. firing'[th].trans = client[c].t
      BY <3>1, StartFires
    <3>3. May(client[c].t)
      BY <3>1 DEF DueInv, OnTheWay, ClientMay
    <3> QED
      BY <3>2, <3>3
  <2>4. CASE StepFiring(c)
    BY <2>4, RunningFiresNothing DEF StepFiring
  <2> QED
    BY <2>2, <2>3, <2>4
<1>4. CASE EnvironmentStep \/ UNCHANGED vars
  BY <1>4 DEF EnvironmentStep, vars, netVars, Fires
<1> QED
  BY <1>1, <1>2, <1>3, <1>4 DEF Next

(* Whatever the net, the triggers and the number of goroutines, a firing    *)
(* begins only when the approval, the time or the event is there that its   *)
(* trigger waits for, unless a Stop has cancelled the trigger.              *)
THEOREM FiresOnlyWhenDue == Spec => UntriggeredOnlyAfterCancel
<1>1. Init => DueInv
  BY InitDue
<1>2. DueInv /\ [Next]_vars => DueInv'
  BY StepDue
<1>3. DueInv /\ [Next]_vars =>
        [\A th \in DOMAIN firing :
           Fires(th) => Due(firing'[th].trans) \/ firing'[th].trans \in cut]_vars
  BY FiresWhatMay DEF May
<1> QED
  BY <1>1, <1>2, <1>3, PTL DEF Spec, UntriggeredOnlyAfterCancel

-----------------------------------------------------------------------------
(* Part two: the pause.                                                     *)

LEMMA SameLoop ==
  ASSUME NEW l \in Loop, loop'[l] = loop[l],
         \A t \in Transition : worker'[<<l, t>>] = worker[<<l, t>>]
  PROVE  /\ FireOK(l) => FireOK(l)'
         /\ Ahead(l)' <=> Ahead(l)
         /\ LateOK(l) /\ late'[l] = late[l] /\ (paused' => paused) => LateOK(l)'
BY DEF FireOK, Busy, OneFiring, Ahead, LateOK

(* A quiet step of a loop: it has no workers, and it is not on its way to a *)
(* firing afterwards unless it was before, or the engine is not paused.     *)
LEMMA QuietFires ==
  ASSUME Types, WorkersInFire, NEW l \in Loop, LoopQuiet(l)
  PROVE  /\ FireOK(l)'
         /\ Ahead(l)' => Ahead(l) \/ ~paused
<1>0. loop \in [Loop -> LoopRecord] /\ loop[l] \in LoopRecord /\ worker' = worker
  BY LoopQuietFrame DEF Types
<1>1. ~Busy(l)
  <2>1. CASE LoopFired(l)
    BY <2>1 DEF LoopFired, Workers, Busy, Worker
  <2>2. CASE loop[l].pc # "fire"
    BY <2>2 DEF WorkersInFire, FireOK
  <2> QED
    BY <2>1, <2>2 DEF LoopQuiet, LoopBegin, LoopTop, LoopSelect, LoopStopped, LoopResumed,
                      LoopTick, LoopFound, LoopExit, LoopClose
<1>2. ~Busy(l)'
  BY <1>0, <1>1 DEF Busy
<1>3. CASE LoopFound(l) /\ loop[l].found # {}
  <2>1. PICK batch \in IF Mode = "concurrent" THEN {loop[l].found}
                       ELSE {{t} : t \in loop[l].found} :
          loop' = [loop EXCEPT ![l].pc = "fire", ![l].found = batch]
    BY <1>3 DEF LoopFound
  <2>2. loop'[l].pc = "fire" /\ loop'[l].found = batch
    BY <1>0, <2>1 DEF LoopRecord
  <2>3. Mode = "sequential" => \A t, u \in batch : t = u
    BY <2>1
  <2>4. FireOK(l)'
    BY <1>2, <2>2, <2>3 DEF FireOK, OneFiring, Busy
  <2>5. Ahead(l)
    BY <1>3 DEF LoopFound, Ahead
  <2> QED
    BY <2>4, <2>5
<1>4. CASE ~(LoopFound(l) /\ loop[l].found # {})
  <2>1. loop'[l].pc # "fire"
    BY <1>0, <1>4 DEF LoopQuiet, LoopBegin, LoopTop, LoopSelect, LoopStopped, LoopResumed, LoopTick,
       LoopFound, LoopFired, LoopExit, LoopClose, LoopAt, NoLoop, LoopRecord
  <2>2. FireOK(l)'
    BY <1>2, <2>1 DEF FireOK
  <2>3. loop'[l].pc \in {"running", "select", "find"} => Ahead(l) \/ ~paused
    BY <1>0, <1>4 DEF LoopQuiet, LoopBegin, LoopTop, LoopSelect, LoopStopped, LoopResumed, LoopTick,
       LoopFound, LoopFired, LoopExit, LoopClose, LoopAt, NoLoop, LoopRecord, Ahead
  <2>4. Ahead(l)' => loop'[l].pc \in {"running", "select", "find"}
    BY <1>2, <2>1 DEF Ahead, Busy
  <2> QED
    BY <2>2, <2>3, <2>4
<1> QED
  BY <1>3, <1>4

PauseInv == Types /\ WorkersInFire /\ OneLate

(* One loop steps and keeps its part; the others are as they were.          *)
LEMMA OneLoopSteps ==
  ASSUME PauseInv, NEW l \in Loop, paused' = paused,
         \A m \in Loop : m # l => loop'[m] = loop[m] /\ late'[m] = late[m],
         \A m \in Loop : m # l =>
           \A t \in Transition : worker'[<<m, t>>] = worker[<<m, t>>],
         FireOK(l)', Mode = "sequential" => LateOK(l)'
  PROVE  WorkersInFire' /\ OneLate'
BY SameLoop DEF PauseInv, WorkersInFire, OneLate

LEMMA LoopPause ==
  ASSUME PauseInv, NEW l \in Loop, LoopStep(l)
  PROVE  WorkersInFire' /\ OneLate'
<1>0. /\ paused' = paused /\ loop \in [Loop -> LoopRecord] /\ loop[l] \in LoopRecord
      /\ late \in [Loop -> Nat] /\ worker \in [Worker -> {"off", "start", "firing"}]
      /\ FireOK(l) /\ (Mode = "sequential" => LateOK(l))
  BY DEF LoopStep, PauseInv, Types, WorkersInFire, OneLate
<1>1. CASE LoopQuiet(l)
  <2>1. PICK r \in LoopRecord : loop' = [loop EXCEPT ![l] = r]
    BY <1>1, LoopQuietRecord DEF PauseInv
  <2>2. UNCHANGED <<worker, late>>
    BY <1>1, LoopQuietFrame
  <2>3. FireOK(l)' /\ (Ahead(l)' => Ahead(l) \/ ~paused)
    BY <1>1, QuietFires DEF PauseInv
  <2>4. Mode = "sequential" => LateOK(l)'
    BY <1>0, <2>2, <2>3 DEF LateOK
  <2>5. \A m \in Loop : m # l => loop'[m] = loop[m]
    BY <1>0, <2>1
  <2> QED
    BY <1>0, <2>2, <2>3, <2>4, <2>5, OneLoopSteps
<1>2. CASE LoopFind(l)
  <2>1. UNCHANGED <<worker, late>>
    BY <1>2 DEF LoopFind
  <2>2. loop[l].pc = "find" /\ loop'[l].pc = "find" /\ \A m \in Loop : m # l => loop'[m] = loop[m]
    <3>1. PICK t \in loop[l].todo, b \in BOOLEAN :
            loop' = [loop EXCEPT ![l].todo = @ \ {t}, ![l].found = IF b THEN @ \cup {t} ELSE @]
      BY <1>2, LoopFinds
    <3> QED
      BY <1>0, <1>2, <3>1 DEF LoopFind, LoopRecord
  <2>3. FireOK(l)' /\ Ahead(l)
    BY <1>0, <2>1, <2>2 DEF FireOK, Busy, Ahead
  <2>4. Mode = "sequential" => LateOK(l)'
    BY <1>0, <2>1, <2>3 DEF LateOK
  <2> QED
    BY <1>0, <2>1, <2>2, <2>3, <2>4, OneLoopSteps
<1>3. CASE LoopFire(l)
  <2>1. PICK t \in loop[l].found :
          /\ worker' = [worker EXCEPT ![<<l, t>>] = "start"]
          /\ loop' = [loop EXCEPT ![l].found = @ \ {t}]
    BY <1>3 DEF LoopFire
  <2>2. t \in Transition /\ late' = late /\ loop[l].pc = "fire" /\ Ahead(l)
    BY <1>0, <1>3, <2>1 DEF LoopRecord, LoopFire, Ahead
  <2>3. /\ \A m \in Loop : m # l => loop'[m] = loop[m]
        /\ loop'[l].pc = "fire" /\ loop'[l].found = loop[l].found \ {t}
        /\ \A m \in Loop, u \in Transition :
             worker'[<<m, u>>] = IF m = l /\ u = t THEN "start" ELSE worker[<<m, u>>]
    BY <1>0, <2>1, <2>2 DEF LoopRecord, Worker
  <2>4. FireOK(l)'
    <3>1. CASE Mode = "sequential"
      <4>1. /\ ~Busy(l) /\ \A u, v \in loop[l].found : u = v
        BY <1>0, <2>1, <2>2, <3>1 DEF FireOK, OneFiring
      <4>2. loop'[l].found = {}
        BY <2>1, <2>3, <4>1
      <4>3. \A u \in Transition : worker'[<<l, u>>] # "off" => u = t
        BY <2>3, <4>1 DEF Busy
      <4> QED
        BY <2>3, <4>2, <4>3 DEF FireOK, OneFiring
    <3>2. CASE Mode # "sequential"
      BY <2>3, <3>2 DEF FireOK
    <3> QED
      BY <3>1, <3>2
  <2>5. Mode = "sequential" => LateOK(l)'
    BY <1>0, <2>2 DEF LateOK
  <2>6. \A m \in Loop : m # l => \A u \in Transition : worker'[<<m, u>>] = worker[<<m, u>>]
    BY <2>3
  <2> QED
    BY <1>0, <2>2, <2>3, <2>4, <2>5, <2>6, OneLoopSteps
<1>4. ASSUME NEW t \in Transition, WorkerStart(<<l, t>>) \/ WorkerFiring(<<l, t>>),
             loop' = loop
      PROVE  WorkersInFire' /\ OneLate'
  <2>0. <<l, t>> \in Worker
    BY DEF Worker
  <2>1. /\ worker[<<l, t>>] # "off"
        /\ worker'[<<l, t>>] \in {"off", "firing"}
        /\ \A m \in Loop, u \in Transition : m # l \/ u # t => worker'[<<m, u>>] = worker[<<m, u>>]
    <3>1. \A m \in Loop, u \in Transition :
            <<m, u>> \in Worker /\ (m # l \/ u # t => <<m, u>> # <<l, t>>)
      BY DEF Worker
    <3> DEFINE x == <<l, t>>
    <3>2. worker[x] # "off" /\ worker'[x] \in {"off", "firing"}
      BY <1>0, <1>4, <2>0 DEF WorkerStart, WorkerFiring
    <3>3. \A y \in Worker : y # x => worker'[y] = worker[y]
      BY <1>0, <1>4, <2>0 DEF WorkerStart, WorkerFiring
    <3> QED
      BY <3>1, <3>2, <3>3
  <2>2. Busy(l) /\ loop[l].pc = "fire"
    BY <1>0, <2>1 DEF Busy, FireOK
  <2>3. FireOK(l)'
    BY <1>0, <1>4, <2>1, <2>2 DEF FireOK, Busy, OneFiring
  <2>4. \A m \in Loop : m # l => late'[m] = late[m]
    BY <1>0, <1>4 DEF WorkerStart, WorkerFiring
  <2>5. ASSUME Mode = "sequential"
        PROVE  LateOK(l)'
    <3>1. ~Ahead(l)'
      <4>1. OneFiring(l) /\ loop[l].found = {}
        BY <1>0, <2>2, <2>5 DEF FireOK, OneFiring
      <4>2. \A u \in Transition : worker'[<<l, u>>] # "start"
        BY <2>1, <4>1 DEF OneFiring
      <4> QED
        BY <1>4, <2>2, <4>1, <4>2 DEF Ahead
    <3>2. late'[l] <= 1
      <4>1. CASE late'[l] = late[l]
        BY <1>0, <2>5, <4>1 DEF LateOK
      <4>2. CASE late'[l] # late[l]
        <5>1. paused /\ worker[<<l, t>>] = "start" /\ late'[l] = late[l] + 1
          BY <1>0, <1>4, <4>2 DEF WorkerStart, WorkerFiring
        <5>2. Ahead(l)
          BY <5>1 DEF Ahead
        <5> QED
          BY <1>0, <2>5, <5>1, <5>2 DEF LateOK
      <4> QED
        BY <4>1, <4>2
    <3> QED
      BY <3>1, <3>2 DEF LateOK
  <2> QED
    BY <1>0, <1>4, <2>1, <2>3, <2>4, <2>5, OneLoopSteps
<1> QED
  BY <1>1, <1>2, <1>3, <1>4 DEF LoopStep, LoopQuiet

LEMMA StartPause ==
  ASSUME PauseInv, NEW c \in Client, Start(c), worker' = worker
  PROVE  WorkersInFire' /\ OneLate'
<1>1. PICK n \in Loop : loop[n].pc = "off" /\ loop' = [loop EXCEPT ![n].pc = "begin"]
  BY NewLoopIsOff DEF Start
<1>2. ASSUME NEW l \in Loop
      PROVE  FireOK(l)'
  <2>1. FireOK(l)
    BY DEF PauseInv, WorkersInFire
  <2>2. CASE l = n
    <3>1. loop'[l].pc = "begin"
      BY <1>1, <2>2 DEF PauseInv, Types, LoopRecord
    <3> QED
      BY <1>1, <2>1, <2>2, <3>1 DEF FireOK, Busy
  <2>3. CASE l # n
    BY <1>1, <2>1, <2>3, SameLoop DEF PauseInv, Types
  <2> QED
    BY <2>2, <2>3
<1>3. paused' = FALSE /\ late' = late
  BY DEF Start
<1> QED
  BY <1>2, <1>3 DEF WorkersInFire, OneLate, LateOK, PauseInv

LEMMA StepPause ==
  ASSUME PauseInv, [Next]_vars
  PROVE  PauseInv'
<1>1. Types'
  BY StepTypes DEF PauseInv
<1>2. ASSUME UNCHANGED <<loop, worker>>,
             \/ late' = late /\ (paused' => paused)
             \/ late' = [l \in Loop |-> 0]
      PROVE  WorkersInFire' /\ OneLate'
  <2>1. WorkersInFire'
    BY <1>2, SameLoop DEF PauseInv, WorkersInFire
  <2>2. ASSUME NEW l \in Loop, Mode = "sequential"
        PROVE  LateOK(l)'
    <3>1. LateOK(l)
      BY <2>2 DEF PauseInv, OneLate
    <3>2. CASE late' = [m \in Loop |-> 0]
      BY <3>2 DEF LateOK
    <3> QED
      BY <1>2, <3>1, <3>2, SameLoop
  <2> QED
    BY <2>1, <2>2 DEF OneLate
<1>3. ASSUME NEW c \in Client, ClientStep(c), ~Start(c)
      PROVE  WorkersInFire' /\ OneLate'
  <2>1. UNCHANGED <<loop, worker>>
    BY <1>3 DEF ClientStep, OnlyClient, Pause, Resume, Stop, Step, Wait, StopCancel,
       StopClose, StopDone, ClientFind, StepFound, StepFire, StepFiring, WaitRead
  <2>2. \/ late' = late /\ (paused' => paused)
        \/ late' = [l \in Loop |-> 0]
    BY <1>3 DEF ClientStep, OnlyClient, Pause, Resume, Stop, Step, Wait, StopCancel,
       StopClose, StopDone, ClientFind, StepFound, StepFire, StepFiring, WaitRead,
       lifeVars, historyVars
  <2> QED
    BY <1>2, <2>1, <2>2
<1>4. ASSUME NEW c \in Client, ClientStep(c), Start(c)
      PROVE  WorkersInFire' /\ OneLate'
  BY <1>4, StartPause DEF ClientStep
<1>5. ASSUME NEW w \in Waiter, WaiterStep(w)
      PROVE  WorkersInFire' /\ OneLate'
  BY <1>2, <1>5 DEF WaiterStep, lifeVars, historyVars
<1>6. CASE EnvironmentStep \/ UNCHANGED vars
  <2>1. UNCHANGED <<loop, worker, late, paused>>
    BY <1>6 DEF EnvironmentStep, vars, lifeVars, historyVars
  <2>2. WorkersInFire' /\ OneLate'
    BY <1>2, <2>1
  <2> QED
    BY <1>1, <2>2 DEF PauseInv
<1> QED
  BY <1>1, <1>3, <1>4, <1>5, <1>6, LoopPause DEF Next, PauseInv

LEMMA InitPause ==
  ASSUME Init
  PROVE  PauseInv
<1>1. WorkersInFire
  BY DEF Init, WorkersInFire, FireOK, Busy, NoLoop, Worker
<1>2. OneLate
  BY DEF Init, OneLate, LateOK
<1> QED
  BY <1>1, <1>2, InitTypes DEF PauseInv

(* "Transitions will not fire while the engine is paused" (doc of Pause,    *)
(* engine.go): every loop of a sequential engine begins at most one firing  *)
(* after a Pause, that for which it had passed the flag.                    *)
THEOREM PauseHolds == Spec => []PauseLetsOneThrough
<1>1. Init => PauseInv
  BY InitPause
<1>2. PauseInv /\ [Next]_vars => PauseInv'
  BY StepPause
<1>3. PauseInv => PauseLetsOneThrough
  BY DEF PauseInv, OneLate, LateOK, PauseLetsOneThrough
<1> QED
  BY <1>1, <1>2, <1>3, PTL DEF Spec

-----------------------------------------------------------------------------
(* Part three: the waiters.                                                 *)

WaiterInv == Types /\ WaitersNoted

LEMMA SameWaiters ==
  ASSUME WaiterInv, waiting' = waiting, stops' = stops,
         \A w \in Waiter : waiter'[w].t = waiter[w].t /\ (waiter'[w].pc = "off" <=> waiter[w].pc = "off")
  PROVE  WaitersNoted'
<1>1. \A t \in Transition : Alive(t)' = Alive(t) /\ Noted(t)' = Noted(t)
  BY DEF Alive, Noted
<1> QED
  BY <1>1 DEF WaiterInv, WaitersNoted

(* A waiter is made only for a transition that is not noted, and noted.     *)
LEMMA SpawnNoted ==
  ASSUME WaiterInv, NEW t \in Transition, UNCHANGED <<waiting, waiter>> \/ Spawn(t), stops' = stops
  PROVE  WaitersNoted'
<1>1. CASE UNCHANGED <<waiting, waiter>>
  BY <1>1, SameWaiters
<1>2. CASE t \notin waiting /\ LeaveWaiter(t)
  <2>1. PICK n \in Waiter :
          /\ waiter[n].pc = "off"
          /\ \A w \in Waiter : w # n => waiter'[w] = waiter[w]
          /\ waiter'[n] = [pc |-> "enter", t |-> t, chan |-> "current"]
    BY <1>2, NewWaiterIsOff DEF LeaveWaiter, WaiterInv, Types
  <2>2. waiting' = waiting \cup {t} /\ stops \in Nat
    BY <1>2 DEF LeaveWaiter, WaiterInv, Types
  <2>3. ASSUME NEW u \in Transition
        PROVE  IsFiniteSet(Alive(u)') /\ Cardinality(Alive(u)') <= stops' + Noted(u)'
    <3>1. IsFiniteSet(Alive(u)) /\ Cardinality(Alive(u)) <= stops + Noted(u)
      BY DEF WaiterInv, WaitersNoted
    <3>2. CASE u = t
      <4>1. Alive(u)' = Alive(u) \cup {n} /\ n \notin Alive(u)
        BY <2>1, <3>2 DEF Alive
      <4>2. /\ IsFiniteSet(Alive(u)') /\ Cardinality(Alive(u)) \in Nat
            /\ Cardinality(Alive(u)') = Cardinality(Alive(u)) + 1
        BY <3>1, <4>1, FS_AddElement, FS_CardinalityType
      <4>3. Noted(u) = 0 /\ Noted(u)' = 1
        BY <1>2, <2>2, <3>2 DEF Noted
      <4> QED
        BY <2>2, <3>1, <4>2, <4>3
    <3>3. CASE u # t
      <4>1. Alive(u)' = Alive(u) /\ Noted(u)' = Noted(u)
        BY <2>1, <2>2, <3>3 DEF Alive, Noted
      <4> QED
        BY <3>1, <4>1
    <3> QED
      BY <3>2, <3>3
  <2> QED
    BY <2>3 DEF WaitersNoted
<1> QED
  BY <1>1, <1>2 DEF Spawn

(* A waiter that ends is one fewer, whether or not it was the one noted.    *)
LEMMA ExitNoted ==
  ASSUME WaiterInv, NEW w \in Waiter, WaiterExit(w), stops' = stops
  PROVE  WaitersNoted'
<1> PICK t : t = waiter[w].t
  OBVIOUS
<1>1. /\ waiter[w].pc = "exit" /\ waiting' = waiting \ {t} /\ waiter'[w].pc = "off"
      /\ \A v \in Waiter : v # w => waiter'[v] = waiter[v]
  BY DEF WaiterExit, NoWaiter, WaiterInv, Types
<1>2. ASSUME NEW u \in Transition
      PROVE  IsFiniteSet(Alive(u)') /\ Cardinality(Alive(u)') <= stops' + Noted(u)'
  <2>1. IsFiniteSet(Alive(u)) /\ Cardinality(Alive(u)) <= stops + Noted(u) /\ stops \in Nat
    BY DEF WaiterInv, WaitersNoted, Types
  <2>2. CASE u = t
    <3>1. Alive(u)' = Alive(u) \ {w} /\ w \in Alive(u)
      BY <1>1, <2>2 DEF Alive
    <3>2. /\ IsFiniteSet(Alive(u)') /\ Cardinality(Alive(u)) \in Nat
          /\ Cardinality(Alive(u)') = Cardinality(Alive(u)) - 1
      BY <2>1, <3>1, FS_RemoveElement, FS_CardinalityType
    <3>3. Noted(u) <= 1 /\ Noted(u) \in Nat /\ Noted(u)' \in Nat
      BY DEF Noted
    <3> QED
      BY <2>1, <3>2, <3>3
  <2>3. CASE u # t
    <3>1. Alive(u)' = Alive(u) /\ Noted(u)' = Noted(u)
      BY <1>1, <2>3 DEF Alive, Noted
    <3> QED
      BY <2>1, <3>1
  <2> QED
    BY <2>2, <2>3
<1> QED
  BY <1>2 DEF WaitersNoted

(* A Stop forgets the waiters that are still there.                         *)
LEMMA StopCancelNoted ==
  ASSUME WaiterInv, NEW c \in Client, StopCancel(c)
  PROVE  WaitersNoted'
<1>1. \A w \in Waiter : waiter'[w].t = waiter[w].t /\ waiter'[w].pc = waiter[w].pc
  BY DEF StopCancel, WhenCancelled, WaiterInv, Types, WaiterRecord
<1>2. \A t \in Transition : Alive(t)' = Alive(t)
  BY <1>1 DEF Alive
<1>3. \A t \in Transition : Noted(t) \in {0, 1} /\ Noted(t)' = 0
  BY DEF StopCancel, Noted
<1>4. stops' = stops + 1 /\ stops \in Nat
  BY DEF StopCancel, WaiterInv, Types
<1>5. ASSUME NEW t \in Transition
      PROVE  IsFiniteSet(Alive(t)') /\ Cardinality(Alive(t)') <= stops' + Noted(t)'
  <2>1. IsFiniteSet(Alive(t)) /\ Cardinality(Alive(t)) <= stops + Noted(t)
    BY DEF WaiterInv, WaitersNoted
  <2>2. Cardinality(Alive(t)) \in Nat
    BY <2>1, FS_CardinalityType
  <2> QED
    BY <1>2, <1>3, <1>4, <2>1, <2>2
<1> QED
  BY <1>5 DEF WaitersNoted

LEMMA StepWaiters ==
  ASSUME WaiterInv, [Next]_vars
  PROVE  WaiterInv'
<1>1. Types'
  BY StepTypes DEF WaiterInv
<1>2. ASSUME UNCHANGED <<waiting, waiter, stops>>
      PROVE  WaitersNoted'
  BY <1>2, SameWaiters
<1>3. ASSUME NEW l \in Loop, LoopStep(l)
      PROVE  WaitersNoted'
  <2>1. CASE LoopFind(l)
    <3>1. PICK t \in loop[l].todo : UNCHANGED <<waiting, waiter>> \/ Spawn(t)
      BY <2>1, LoopFinds
    <3>2. t \in Transition
      BY DEF WaiterInv, Types, LoopRecord
    <3> QED
      BY <1>3, <3>1, <3>2, SpawnNoted DEF LoopStep
  <2>2. CASE ~LoopFind(l)
    <3>1. UNCHANGED <<waiting, waiter, stops>>
      BY <1>3, <2>2, LoopQuietFrame DEF LoopStep, LoopQuiet, LoopFire
    <3> QED
      BY <1>2, <3>1
  <2> QED
    BY <2>1, <2>2
<1>4. ASSUME NEW w \in Waiter, WaiterStep(w)
      PROVE  WaitersNoted'
  <2>1. stops' = stops
    BY <1>4 DEF WaiterStep, historyVars
  <2>2. CASE WaiterExit(w)
    BY <2>1, <2>2, ExitNoted
  <2>3. CASE ~WaiterExit(w)
    <3>1. waiting' = waiting
      BY <1>4, <2>3 DEF WaiterStep, WaiterEnter, WaiterWake, WaiterGivesUp, WaiterCheck, WaiterFire,
         WaiterFiring
    <3>2. \/ waiter' = waiter
          \/ /\ waiter[w].pc # "off"
             /\ \E q \in {"enter", "await", "check", "fire", "firing", "exit"} : WaiterAt(w, q)
      BY <1>4, <2>3 DEF WaiterStep, WaiterEnter, WaiterWake, WaiterGivesUp, WaiterCheck, WaiterFire,
         WaiterFiring
    <3>3. \A v \in Waiter : /\ waiter'[v].t = waiter[v].t
                            /\ waiter'[v].pc = "off" <=> waiter[v].pc = "off"
      BY <3>2 DEF WaiterAt, WaiterInv, Types, WaiterRecord
    <3> QED
      BY <2>1, <3>1, <3>3, SameWaiters
  <2> QED
    BY <2>2, <2>3
<1>5. ASSUME NEW c \in Client, ClientStep(c)
      PROVE  WaitersNoted'
  <2>1. CASE ClientFind(c)
    <3>1. PICK t \in client[c].todo : UNCHANGED <<waiting, waiter>> \/ Spawn(t)
      BY <2>1, ClientFinds
    <3>2. t \in Transition
      BY DEF WaiterInv, Types, ClientRecord
    <3> QED
      BY <2>1, <3>1, <3>2, SpawnNoted DEF ClientFind, historyVars
  <2>2. CASE StopCancel(c)
    BY <2>2, StopCancelNoted
  <2>3. CASE ~ClientFind(c) /\ ~StopCancel(c)
    <3>1. UNCHANGED <<waiting, waiter, stops>>
      BY <1>5, <2>3 DEF ClientStep, OnlyClient, Start, Pause, Resume, Stop, Step, Wait, StopClose,
         StopDone, StepFound, StepFire, StepFiring, WaitRead, historyVars
    <3> QED
      BY <1>2, <3>1
  <2> QED
    BY <2>1, <2>2, <2>3
<1>6. CASE EnvironmentStep \/ UNCHANGED vars
  <2>1. UNCHANGED <<waiting, waiter, stops>>
    BY <1>6 DEF EnvironmentStep, vars, historyVars
  <2> QED
    BY <1>1, <1>2, <2>1 DEF WaiterInv
<1> QED
  BY <1>1, <1>3, <1>4, <1>5, <1>6 DEF Next, WaiterInv

LEMMA InitWaiters ==
  ASSUME Init
  PROVE  WaiterInv
<1>1. \A t \in Transition : Alive(t) = {}
  BY DEF Init, Alive, NoWaiter
<1>2. \A t \in Transition : stops = 0 /\ Noted(t) = 0
  BY DEF Init, Noted
<1> QED
  BY <1>1, <1>2, FS_EmptySet, InitTypes DEF WaiterInv, WaitersNoted

(* "Only spawns one waiter per transition" (doc of spawnTriggerWaiter,      *)
(* engine.go): with every look at every transition by any loop or client,   *)
(* each Stop lets one more waiter of a transition exist, and nothing else   *)
(* does.                                                                    *)
THEOREM WaitersStayBounded == Spec => []WaitersBounded
<1>1. Init => WaiterInv
  BY InitWaiters
<1>2. WaiterInv /\ [Next]_vars => WaiterInv'
  BY StepWaiters
<1>3. WaiterInv => WaitersBounded
  <2> SUFFICES ASSUME WaiterInv, NEW t \in Transition
               PROVE  Cardinality(Alive(t)) <= 1 + stops
    BY DEF WaitersBounded, Alive
  <2>1. IsFiniteSet(Alive(t)) /\ Cardinality(Alive(t)) <= stops + Noted(t) /\ stops \in Nat
    BY DEF WaiterInv, WaitersNoted, Types
  <2>2. Cardinality(Alive(t)) \in Nat /\ Noted(t) \in {0, 1}
    BY <2>1, FS_CardinalityType DEF Noted
  <2> QED
    BY <2>1, <2>2
<1> QED
  BY <1>1, <1>2, <1>3, PTL DEF Spec

-----------------------------------------------------------------------------
(* Part four: Stop.                                                         *)

StopInv == PauseInv /\ LoopsCounted

(* A loop goes on.                                                          *)
LEMMA LoopGoesOn ==
  ASSUME Types, OneLoop, NEW l \in Loop, Active(l), UNCHANGED <<state, closedDone, gen, client>>,
         \A m \in Loop : m # l => loop'[m] = loop[m],
         loop'[l].pc \notin {"off", "close", "begin"}, loop'[l].done = gen
  PROVE  OneLoop'
<1>1. Active(l)' /\ \A m \in Loop : m # l => ~Active(m)'
  BY DEF OneLoop, Active
<1>2. state' # "stopped" /\ gen' \notin closedDone' /\ gen \in Nat
  BY DEF OneLoop, Types
<1>3. \A m \in Loop :
        /\ loop'[m].done <= gen'
        /\ loop'[m].pc = "close" => loop'[m].done # gen'
  BY <1>2 DEF OneLoop, Active
<1>4. \A c \in Client : Stopping(c)' => client'[c].gen = gen'
  BY DEF OneLoop, Stopping
<1> QED
  BY <1>1, <1>2, <1>3, <1>4 DEF OneLoop, Active

LEMMA LoopStops ==
  ASSUME Types, LoopsCounted, NEW l \in Loop, LoopStep(l)
  PROVE  LoopsCounted'
<1> SUFFICES ASSUME ~restarted'
             PROVE  OneLoop'
  BY DEF LoopsCounted
<1>0. /\ UNCHANGED <<client, gen>> /\ OneLoop /\ gen \in Nat
      /\ loop \in [Loop -> LoopRecord] /\ loop[l] \in LoopRecord
  BY DEF LoopStep, LoopsCounted, Types
<1>1. CASE LoopExit(l)
  <2>1. /\ \A m \in Loop : m # l => loop'[m] = loop[m]
        /\ loop'[l].pc = "close" /\ loop'[l].done = loop[l].done /\ loop[l].pc = "exit"
        /\ state' = "stopped" /\ closedDone' = closedDone
    BY <1>0, <1>1 DEF LoopExit, LoopAt, LoopRecord
  <2>2. \A m \in Loop : ~Active(m)'
    BY <1>0, <2>1 DEF OneLoop, Active
  <2>3. \A m \in Loop : loop'[m].done <= gen'
    BY <1>0, <2>1 DEF OneLoop
  <2>4. \A c \in Client : Stopping(c)' => client'[c].gen = gen'
    BY <1>0 DEF OneLoop, Stopping
  <2> QED
    BY <1>0, <2>1, <2>2, <2>3, <2>4 DEF OneLoop
<1>2. CASE LoopClose(l)
  <2>1. /\ \A m \in Loop : m # l => loop'[m] = loop[m]
        /\ loop'[l].pc = "off" /\ loop'[l].done = 0 /\ loop[l].pc = "close"
        /\ state' = state /\ closedDone' = closedDone \cup {loop[l].done}
    BY <1>0, <1>2 DEF LoopClose, NoLoop
  <2>2. \A m \in Loop : (Active(m)' <=> Active(m)) /\ (Active(m) => loop[l].done # gen)
    BY <1>0, <2>1 DEF OneLoop, Active
  <2>3. \A m \in Loop : m # l => /\ loop'[m].pc = loop[m].pc /\ loop'[m].done = loop[m].done
    BY <2>1
  <2>4. \A m \in Loop : loop'[m].done <= gen'
    BY <1>0, <2>1 DEF OneLoop
  <2>5. \A m \in Loop :
          /\ Active(m)' => gen' \notin closedDone' /\ (loop'[m].pc # "begin" => loop'[m].done = gen')
          /\ loop'[m].pc = "close" /\ loop'[m].done = gen' => \A k \in Loop : ~Active(k)'
    BY <1>0, <2>1, <2>2 DEF OneLoop
  <2>6. \A c \in Client : Stopping(c)' => client'[c].gen = gen'
    BY <1>0 DEF OneLoop, Stopping
  <2>7. \A g \in closedDone' : g \in Nat /\ g <= gen'
    BY <1>0, <2>1 DEF OneLoop, LoopRecord
  <2> QED
    BY <1>0, <2>1, <2>2, <2>4, <2>5, <2>6, <2>7 DEF OneLoop
<1>3. CASE LoopQuiet(l) /\ ~LoopExit(l) /\ ~LoopClose(l)
  <2>1. PICK r \in LoopRecord : loop' = [loop EXCEPT ![l] = r]
    BY <1>3, LoopQuietRecord
  <2>2. UNCHANGED <<state, closedDone>> /\ Active(l)
    BY <1>3 DEF LoopQuiet, LoopBegin, LoopTop, LoopSelect, LoopStopped, LoopResumed, LoopTick,
       LoopFound, LoopFired, OnlyLoop, Active
  <2>3. /\ loop'[l].pc \notin {"off", "close", "begin"}
        /\ \/ loop'[l].done = gen
           \/ loop[l].pc # "begin" /\ loop'[l].done = loop[l].done
    BY <1>0, <1>3 DEF LoopQuiet, LoopBegin, LoopTop, LoopSelect, LoopStopped, LoopResumed, LoopTick,
       LoopFound, LoopFired, LoopAt, LoopRecord
  <2>4. loop'[l].done = gen
    BY <1>0, <2>2, <2>3 DEF OneLoop
  <2>5. \A m \in Loop : m # l => loop'[m] = loop[m]
    BY <1>0, <2>1
  <2> QED
    BY <1>0, <2>2, <2>3, <2>4, <2>5, LoopGoesOn
<1>4. CASE LoopFind(l)
  <2>1. PICK t \in loop[l].todo, b \in BOOLEAN :
          loop' = [loop EXCEPT ![l].todo = @ \ {t}, ![l].found = IF b THEN @ \cup {t} ELSE @]
    BY <1>4, LoopFinds
  <2>2. /\ \A m \in Loop : m # l => loop'[m] = loop[m]
        /\ loop[l].pc = "find" /\ loop'[l].pc = "find" /\ loop'[l].done = loop[l].done
        /\ UNCHANGED <<state, closedDone>>
    BY <1>0, <1>4, <2>1 DEF LoopFind, LoopRecord
  <2> QED
    BY <1>0, <2>2, LoopGoesOn DEF OneLoop, Active
<1>5. CASE LoopFire(l)
  <2>1. /\ \A m \in Loop : m # l => loop'[m] = loop[m]
        /\ loop[l].pc = "fire" /\ loop'[l].pc = "fire" /\ loop'[l].done = loop[l].done
        /\ UNCHANGED <<state, closedDone>>
    BY <1>0, <1>5 DEF LoopFire, LoopRecord
  <2> QED
    BY <1>0, <2>1, LoopGoesOn DEF OneLoop, Active
<1>6. CASE UNCHANGED <<loop, state, closedDone>>
  BY <1>0, <1>6 DEF OneLoop, Active, Stopping
<1> QED
  BY <1>1, <1>2, <1>3, <1>4, <1>5, <1>6 DEF LoopStep, LoopQuiet

(* A call that leaves the loops and doneCh alone, and makes no Stop of its  *)
(* client but one of the current generation.                                *)
LEMMA ClientStops ==
  ASSUME Types, OneLoop, NEW c \in Client, UNCHANGED <<loop, closedDone, gen>>,
         state' = "stopped" => \A l \in Loop : ~Active(l),
         \A d \in Client : d # c => client'[d] = client[d],
         Stopping(c)' => client'[c].gen = gen
  PROVE  OneLoop'
<1>1. \A l \in Loop : Active(l)' <=> Active(l)
  BY DEF Active
<1>2. \A d \in Client : Stopping(d)' => client'[d].gen = gen'
  BY DEF OneLoop, Stopping
<1> QED
  BY <1>1, <1>2 DEF OneLoop

LEMMA StartStops ==
  ASSUME Types, LoopsCounted, NEW c \in Client, Start(c)
  PROVE  LoopsCounted'
<1> SUFFICES ASSUME ~restarted'
             PROVE  OneLoop'
  BY DEF LoopsCounted
<1>1. /\ ~restarted /\ state # "paused" /\ state # "running" /\ \A d \in Client : ~Stopping(d)
  BY DEF Start
<1>2. /\ OneLoop /\ gen \in Nat /\ gen' = gen + 1 /\ state' = "running" /\ closedDone' = closedDone
      /\ loop \in [Loop -> LoopRecord] /\ \A l \in Loop : loop[l].done \in Nat
  BY <1>1 DEF LoopsCounted, Start, Types, LoopRecord
<1>3. \A l \in Loop : ~Active(l)
  BY <1>1, <1>2 DEF OneLoop, Types
<1>4. PICK n \in Loop : loop' = [loop EXCEPT ![n].pc = "begin"]
  BY NewLoopIsOff DEF Start
<1>5. /\ \A m \in Loop : m # n => loop'[m] = loop[m]
      /\ loop'[n].pc = "begin" /\ loop'[n].done = loop[n].done
  BY <1>2, <1>4 DEF LoopRecord
<1>6. Active(n)' /\ \A m \in Loop : Active(m)' => m = n
  BY <1>3, <1>5 DEF Active
<1>7. \A m \in Loop : loop'[m].done <= gen
  BY <1>2, <1>5 DEF OneLoop
<1>8. \A m \in Loop : loop'[m].done \in Nat
  BY <1>2, <1>5
<1>9. \A m \in Loop : loop'[m].done <= gen' /\ loop'[m].done # gen'
  BY <1>2, <1>7, <1>8
<1>10. \A g \in closedDone' : g \in Nat /\ g <= gen' /\ g # gen'
  BY <1>2 DEF OneLoop
<1>11. \A d \in Client : ~Stopping(d)'
  BY <1>1 DEF Start, Called, Stopping, NoCall, Types
<1> QED
  BY <1>2, <1>5, <1>6, <1>9, <1>10, <1>11 DEF OneLoop

LEMMA OtherCallStops ==
  ASSUME Types, LoopsCounted, NEW c \in Client, ClientStep(c), ~Start(c)
  PROVE  LoopsCounted'
<1> SUFFICES ASSUME ~restarted'
             PROVE  OneLoop'
  BY DEF LoopsCounted
<1>0. UNCHANGED <<loop, closedDone, gen, restarted>>
  BY DEF ClientStep, OnlyClient, Pause, Resume, Stop, Step, Wait, StopCancel, StopClose,
     StopDone, ClientFind, StepFound, StepFire, StepFiring, WaitRead, lifeVars, chanVars, historyVars
<1>1. OneLoop /\ client \in [Client -> ClientRecord]
  BY <1>0 DEF LoopsCounted, Types
<1>2. \A d \in Client : d # c => client'[d] = client[d]
  BY <1>1, ClientFinds DEF ClientStep, Pause, Resume, Stop, Step, Wait, StopCancel, StopClose,
     StopDone, ClientFind, StepFound, StepFire, StepFiring, WaitRead, Called, ClientAt
<1>3. state' = "stopped" => \A l \in Loop : ~Active(l)
  <2>1. CASE StopDone(c)
    <3>1. Stopping(c) /\ client[c].gen \in closedDone
      BY <2>1 DEF StopDone, Stopping
    <3> QED
      BY <1>1, <3>1 DEF OneLoop
  <2>2. CASE ~StopDone(c)
    <3>1. state' = "stopped" => state = "stopped"
      BY <2>2 DEF ClientStep, OnlyClient, Pause, Resume, Stop, Step, Wait, StopCancel, StopClose,
         ClientFind, StepFound, StepFire, StepFiring, WaitRead, lifeVars
    <3> QED
      BY <1>1, <3>1 DEF OneLoop
  <2> QED
    BY <2>1, <2>2
<1>4. Stopping(c)' => client'[c].gen = gen
  <2>1. Stopping(c) => client[c].gen = gen
    BY <1>1 DEF OneLoop
  <2>2. CASE Stop(c)
    BY <1>1, <2>2 DEF Stop, Called, NoCall
  <2>3. CASE StopCancel(c) \/ StopClose(c)
    <3>1. Stopping(c) /\ client'[c].gen = client[c].gen
      BY <1>1, <2>3 DEF StopCancel, StopClose, ClientAt, Stopping, ClientRecord
    <3> QED
      BY <2>1, <3>1
  <2>4. CASE ClientFind(c)
    <3>1. client[c].pc \in {"step", "wait"} /\ client'[c].pc = client[c].pc
      BY <1>1, <2>4, ClientFindPc
    <3> QED
      BY <3>1 DEF Stopping
  <2>5. CASE ~Stop(c) /\ ~StopCancel(c) /\ ~StopClose(c) /\ ~ClientFind(c)
    <3>1. client'[c] = client[c] \/ client'[c].pc \notin {"stop_cancel", "stop_close", "stop_wait"}
      <4>1. CASE \E q \in {"idle", "firing"} : ClientAt(c, q)
        BY <1>1, <4>1 DEF ClientAt, ClientRecord
      <4>2. CASE Called(c, NoCall) \/ client' = [client EXCEPT ![c] = NoCall] \/ client' = client
        BY <1>1, <4>2 DEF Called, NoCall
      <4>3. CASE Step(c) \/ Wait(c)
        BY <1>1, <4>3 DEF Step, Wait, Called, NoCall
      <4>4. CASE client' = [client EXCEPT ![c] = [NoCall EXCEPT !.pc = "wait", !.todo = Transition]]
        BY <1>1, <4>4 DEF NoCall
      <4>5. CASE \E t \in client[c].found :
                   client' = [client EXCEPT ![c] = [NoCall EXCEPT !.pc = "fire", !.t = t]]
        BY <1>1, <4>5 DEF NoCall
      <4> QED
        BY <2>5, <4>1, <4>2, <4>3, <4>4, <4>5
           DEF ClientStep, Pause, Resume, StopDone, StepFound, StepFire, StepFiring, WaitRead
    <3> QED
      BY <2>1, <3>1 DEF Stopping
  <2> QED
    BY <2>2, <2>3, <2>4, <2>5
<1> QED
  BY <1>0, <1>1, <1>2, <1>3, <1>4, ClientStops

LEMMA StepStops ==
  ASSUME StopInv, [Next]_vars
  PROVE  StopInv'
<1>1. PauseInv' /\ Types
  BY StepPause DEF StopInv, PauseInv
<1>2. ASSUME UNCHANGED <<loop, closedDone, gen, state, client, restarted>>
      PROVE  LoopsCounted'
  BY <1>2 DEF StopInv, LoopsCounted, OneLoop, Active, Stopping
<1>3. ASSUME NEW l \in Loop, LoopStep(l)
      PROVE  LoopsCounted'
  BY <1>1, <1>3, LoopStops DEF StopInv
<1>4. ASSUME NEW c \in Client, ClientStep(c)
      PROVE  LoopsCounted'
  BY <1>1, <1>4, StartStops, OtherCallStops DEF StopInv
<1>5. ASSUME NEW w \in Waiter, WaiterStep(w)
      PROVE  LoopsCounted'
  BY <1>2, <1>5 DEF WaiterStep, lifeVars, chanVars, historyVars
<1>6. CASE EnvironmentStep \/ UNCHANGED vars
  <2>1. UNCHANGED <<loop, closedDone, gen, state, client, restarted>>
    BY <1>6 DEF EnvironmentStep, vars, lifeVars, chanVars, historyVars
  <2>2. LoopsCounted'
    BY <1>2, <2>1
  <2> QED
    BY <1>1, <2>2 DEF StopInv
<1> QED
  BY <1>1, <1>3, <1>4, <1>5, <1>6 DEF Next, StopInv

LEMMA InitStops ==
  ASSUME Init
  PROVE  StopInv
<1>1. LoopsCounted
  BY DEF Init, LoopsCounted, OneLoop, Active, Stopping, NoLoop, NoCall
<1> QED
  BY <1>1, InitPause DEF StopInv

StopReturnsQuiet ==
  \A c \in Client :
    client[c].pc = "stop_wait" /\ client'[c].pc = "idle" /\ ~restarted
    => /\ \A l \in Loop : loop[l].pc \in {"off", "close"}
       /\ Executing = {}

LEMMA StopFinds ==
  ASSUME StopInv, [Next]_vars, NEW c \in Client,
         client[c].pc = "stop_wait", client'[c].pc = "idle", ~restarted
  PROVE  /\ \A l \in Loop : loop[l].pc \in {"off", "close"}
         /\ Executing = {}
<1>1. client' # client /\ client \in [Client -> ClientRecord] /\ OneLoop
  BY DEF StopInv, PauseInv, Types, LoopsCounted
<1>2. PICK d \in Client : ClientStep(d)
  BY <1>1 DEF Next, LoopStep, WaiterStep, EnvironmentStep, vars
<1>3. d = c
  BY <1>1, <1>2, ClientFinds DEF ClientStep, Start, Pause, Resume, Stop, Step, Wait, StopCancel,
     StopClose, StopDone, ClientFind, StepFound, StepFire, StepFiring, WaitRead, Called, ClientAt
<1>4. StopDone(c)
  BY <1>1, <1>2, <1>3 DEF ClientStep, Start, Pause, Resume, Stop, Step, Wait, StopCancel,
     StopClose, ClientFind, StepFound, StepFire, StepFiring, WaitRead, Called, ClientAt, ClientRecord
<1>5. \A l \in Loop : ~Active(l)
  BY <1>1, <1>4 DEF StopDone, OneLoop, Stopping
<1>6. Executing = {}
  <2> SUFFICES ASSUME NEW l \in Loop, NEW t \in Transition
               PROVE  worker[<<l, t>>] = "off"
    BY DEF Executing, Worker
  <2>1. ~Active(l) /\ FireOK(l)
    BY <1>5 DEF StopInv, PauseInv, WorkersInFire
  <2> QED
    BY <2>1 DEF FireOK, Busy, Active
<1> QED
  BY <1>5, <1>6 DEF Active

(* "This method blocks until the execution loop has fully stopped" (doc of  *)
(* Stop, engine.go): it does, with everything that the loop has started,    *)
(* for any number of clients, as long as no Start is called while the       *)
(* engine is paused or a Stop is going on.                                  *)
THEOREM StopStops == Spec => StopLeavesNoLoop
<1>1. Init => StopInv
  BY InitStops
<1>2. StopInv /\ [Next]_vars => StopInv'
  BY StepStops
<1>3. StopInv /\ [Next]_vars => [StopReturnsQuiet]_vars
  BY StopFinds DEF StopReturnsQuiet
<1> QED
  BY <1>1, <1>2, <1>3, PTL DEF Spec, StopLeavesNoLoop, StopReturnsQuiet

=============================================================================
