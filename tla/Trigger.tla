------------------------------- MODULE Trigger -------------------------------
(***************************************************************************)
(* The triggers that decide when an enabled transition fires               *)
(* (petri/trigger_manual.go, trigger_timed.go, trigger_event.go).  The     *)
(* engine asks ShouldFire, and when the answer is no it leaves a waiter    *)
(* goroutine in AwaitFiring; approvers, the clock and the event system     *)
(* act on the trigger meanwhile, and Stop cancels it.  Each of these is    *)
(* one critical section of the mutex of the trigger.                       *)
(***************************************************************************)
EXTENDS Integers, FiniteSets

CONSTANTS
  Transition,
  Kind,           \* Kind[t]: "none", "manual", "timed" or "event"
  Approvers,      \* Approvers[t]: users that may approve the manual trigger of t
  RequireAll,     \* manual triggers that need all of them
  Expiring,       \* manual triggers with a Timeout
  FixedTime,      \* timed triggers with At instead of Delay
  VirtualTime     \* the clock is a VirtualClock, which closes the channel of a
                  \* timer after its tick: every later receive succeeds too

ASSUME TriggerAssumption ==
  /\ Kind \in [Transition -> {"none", "manual", "timed", "event"}]
  /\ DOMAIN Approvers = Transition
  /\ \A t \in Transition : IsFiniteSet(Approvers[t])
  /\ RequireAll \subseteq Transition /\ Expiring \subseteq Transition
  /\ FixedTime \subseteq Transition /\ VirtualTime \in BOOLEAN

VARIABLES
  trig,           \* trig[t]: the fields of the trigger of t
  panicked        \* a goroutine has closed a closed channel

triggerVars == <<trig, panicked>>

(* chan is approvalChan, timer or eventChan, full means that a tick or an   *)
(* event is in it, ready is approved or ready, by is approvedBy, and past   *)
(* means that the scheduled time has come.                                  *)
TriggerType ==
  [chan : {"nil", "open", "closed"}, full : BOOLEAN, ready : BOOLEAN,
   by : SUBSET UNION {Approvers[t] : t \in Transition}, past : BOOLEAN]

NewTrigger ==
  [chan |-> "nil", full |-> FALSE, ready |-> FALSE, by |-> {}, past |-> FALSE]

TriggerInit == trig = [t \in Transition |-> NewTrigger] /\ panicked = FALSE

-----------------------------------------------------------------------------
(* Mutant: a timer that runs is a timer that has rung.                      *)
ShouldFireEarly(t) ==
  CASE Kind[t] = "none"  -> TRUE
    [] Kind[t] = "timed" -> trig[t].chan = "open"
    [] OTHER             -> trig[t].ready

(* ShouldFire: its answer, and what it leaves in the trigger.  The first    *)
(* one starts the timer, a later one may take the only tick out of it.      *)
ShouldFire(t) ==
  CASE Kind[t] = "none"  -> TRUE
    [] Kind[t] = "timed" -> \/ trig[t].chan = "open" /\ trig[t].full
                            \/ trig[t].chan = "nil" /\ t \in FixedTime /\ trig[t].past
    [] OTHER             -> trig[t].ready

LeftInTimer(t) == VirtualTime /\ trig[t].full

TickTaken(t) == trig[t].past /\ ~trig[t].full

AfterShouldFire(t) ==
  CASE Kind[t] = "timed" /\ trig[t].chan = "open" -> [trig[t] EXCEPT !.full = LeftInTimer(t)]
    [] Kind[t] = "timed" /\ trig[t].chan = "nil" /\ ~ShouldFire(t) ->
         [trig[t] EXCEPT !.chan = "open", !.full = FALSE, !.past = FALSE]
    [] OTHER -> trig[t]

AskShouldFire(t) == trig' = [trig EXCEPT ![t] = AfterShouldFire(t)]

(* The entry of AwaitFiring; a timed trigger without a timer is an error.   *)
AwaitFails(t) == Kind[t] = "timed" /\ trig[t].chan = "nil"

EnterAwait(t) ==
  trig' = IF trig[t].chan # "nil" THEN trig
          ELSE [trig EXCEPT ![t].chan = "open", ![t].full = FALSE, ![t].by = {}]

(* A waiter on the channel that the trigger has now wakes up.               *)
CanWake(t) ==
  IF Kind[t] = "manual" THEN trig[t].chan = "closed"
  ELSE trig[t].chan = "open" /\ trig[t].full

Wake(t) ==
  trig' = CASE Kind[t] = "timed" -> [trig EXCEPT ![t].full = LeftInTimer(t)]
            [] Kind[t] = "event" -> [trig EXCEPT ![t].full = FALSE, ![t].ready = TRUE]
            [] OTHER -> trig

(* Cancel of the triggers of ts.  A manual trigger closes its channel and   *)
(* keeps it, so that a second close panics; the others forget theirs.  The  *)
(* event trigger would keep its channel if Unsubscribe failed: its          *)
(* subscription is there, as IDs, times in nanoseconds, are taken to differ.*)
Cancelled(t) ==
  CASE Kind[t] = "manual" /\ trig[t].chan = "nil" -> trig[t]
    [] Kind[t] = "manual" -> [trig[t] EXCEPT !.chan = "closed"]
    [] Kind[t] = "timed"  -> [trig[t] EXCEPT !.chan = "nil", !.full = FALSE,
                                             !.past = @ /\ t \in FixedTime]
    [] Kind[t] = "event"  -> [trig[t] EXCEPT !.chan = "nil", !.full = FALSE,
                                             !.ready = FALSE]
    [] OTHER -> trig[t]

Cancel(ts) ==
  /\ trig' = [t \in Transition |-> IF t \in ts THEN Cancelled(t) ELSE trig[t]]
  /\ panicked' = (panicked \/ \E t \in ts : Kind[t] = "manual" /\ trig[t].chan = "closed")

-----------------------------------------------------------------------------
(* The environment.  Reject changes nothing.                                *)

Approve(t, u) ==
  LET by == trig[t].by \cup {u} IN
  /\ Kind[t] = "manual" /\ u \in Approvers[t]
  /\ ~trig[t].ready \/ t \in RequireAll
  /\ IF t \in RequireAll /\ by # Approvers[t]
     THEN trig' = [trig EXCEPT ![t].by = by] /\ UNCHANGED panicked
     ELSE /\ trig' = [trig EXCEPT ![t].by = by, ![t].ready = TRUE,
                                  ![t].chan = IF @ = "nil" THEN @ ELSE "closed"]
          /\ panicked' = (trig[t].chan = "closed")

(* The time of the trigger comes, and its timer rings if it has one.        *)
Ring(t) ==
  /\ Kind[t] = "timed" /\ ~trig[t].past
  /\ trig[t].chan = "open" \/ t \in FixedTime
  /\ trig' = [trig EXCEPT ![t].full = (trig[t].chan = "open"), ![t].past = TRUE]
  /\ UNCHANGED panicked

(* An event that passes the filter is delivered to the subscribed handler;  *)
(* the channel has room for one.  The handler reads the field eventChan     *)
(* when it sends: after a Cancel it is nil, or the channel of a later       *)
(* AwaitFiring, and at the moment when Cancel has closed it and not yet     *)
(* forgotten it the send panics, which the event system recovers            *)
(* (event_system.go:320).  The event is lost then, and nothing else happens.*)
Deliver(t) ==
  /\ Kind[t] = "event" /\ trig[t].chan = "open" /\ ~trig[t].full
  /\ trig' = [trig EXCEPT ![t].full = TRUE]
  /\ UNCHANGED panicked

Environment ==
  \E t \in Transition :
    (\E u \in Approvers[t] : Approve(t, u)) \/ Ring(t) \/ Deliver(t)
=============================================================================
