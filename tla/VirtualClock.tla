---------------------------- MODULE VirtualClock ----------------------------
(***************************************************************************)
(* The clock of an execution context (clock/virtual.go, clock/realtime.go). *)
(* A virtual clock moves when AdvanceTo or AdvanceBy is called and fires   *)
(* what is due in the same critical section; the real one is time.After    *)
(* and time.Sleep of the Go runtime.  They differ in one thing that their  *)
(* users can see: the virtual clock closes the channel of a timer after    *)
(* its tick.                                                               *)
(***************************************************************************)
EXTENDS Integers, Sequences

CONSTANTS
  Sleeper         \* goroutines that call Sleep

VARIABLES
  virtual,        \* the clock is a VirtualClock
  now,            \* current
  chans,          \* the channels that After has returned, in their order
  timers,         \* the channels of the timers list
  sleeps,         \* the goroutines of the sleeps list
  asleep          \* asleep[s]: the channel s blocks on

clockVars == <<virtual, now, chans, timers, sleeps, asleep>>

-----------------------------------------------------------------------------
(* full: a tick is in the channel; ticks: how many were ever put into it    *)
(* (it has room for one, and a second send would block under the mutex).    *)
Channel == [deadline : Int, ticks : Nat, full : BOOLEAN, closed : BOOLEAN]

NewChannel(deadline) ==
  [deadline |-> deadline, ticks |-> 0, full |-> FALSE, closed |-> FALSE]

(* A goroutine that does not sleep blocks on no channel.                    *)
Awake == [deadline |-> 0, blocked |-> FALSE, closed |-> FALSE]

ClockInit ==
  /\ virtual \in BOOLEAN /\ now = 0
  /\ chans = <<>> /\ timers = {}
  /\ sleeps = {} /\ asleep = [s \in Sleeper |-> Awake]

Fired(c) ==
  [c EXCEPT !.ticks = @ + 1, !.full = TRUE, !.closed = virtual]

(* After(d): a timer that is due at once is never in the list.              *)
After(d) ==
  LET c == NewChannel(now + d) IN
  /\ IF d <= 0 THEN chans' = Append(chans, Fired(c)) /\ UNCHANGED timers
     ELSE chans' = Append(chans, c) /\ timers' = timers \cup {Len(chans) + 1}
  /\ UNCHANGED <<virtual, now, sleeps, asleep>>

(* A receive succeeds on a channel with a tick, and on a closed one.        *)
Ready(i) == chans[i].full \/ chans[i].closed

Receive(i) ==
  /\ Ready(i)
  /\ chans' = [chans EXCEPT ![i].full = FALSE]
  /\ UNCHANGED <<virtual, now, timers, sleeps, asleep>>

(* Sleep(d) up to the receive that blocks.                                  *)
Sleep(s, d) ==
  /\ ~asleep[s].blocked
  /\ IF d <= 0 THEN UNCHANGED <<sleeps, asleep>>
     ELSE /\ sleeps' = sleeps \cup {s}
          /\ asleep' = [asleep EXCEPT ![s] =
                          [deadline |-> now + d, blocked |-> TRUE, closed |-> FALSE]]
  /\ UNCHANGED <<virtual, now, chans, timers>>

Wake(s) ==
  /\ asleep[s].blocked /\ asleep[s].closed
  /\ asleep' = [asleep EXCEPT ![s] = Awake]
  /\ UNCHANGED <<virtual, now, chans, timers, sleeps>>

(* Mutant: a timer that has fired stays in the list.                        *)
FireTimersAndKeepThem(t) ==
  /\ chans' = [i \in DOMAIN chans |->
                 IF i \in timers /\ chans[i].deadline <= t THEN Fired(chans[i]) ELSE chans[i]]
  /\ sleeps' = {s \in sleeps : asleep[s].deadline > t}
  /\ asleep' = [s \in Sleeper |->
                  IF s \in sleeps \ sleeps' THEN [asleep[s] EXCEPT !.closed = TRUE]
                  ELSE asleep[s]]
  /\ UNCHANGED timers

(* Mutant: a sleep that is due exactly now goes on.                         *)
FireTimersAndLaterSleeps(t) ==
  /\ timers' = {i \in timers : chans[i].deadline > t}
  /\ chans' = [i \in DOMAIN chans |->
                 IF i \in timers \ timers' THEN Fired(chans[i]) ELSE chans[i]]
  /\ sleeps' = {s \in sleeps : asleep[s].deadline >= t}
  /\ asleep' = [s \in Sleeper |->
                  IF s \in sleeps \ sleeps' THEN [asleep[s] EXCEPT !.closed = TRUE]
                  ELSE asleep[s]]

(* fireTimersAndSleeps at the time t, in one critical section.  In it the   *)
(* code goes through the timers in the order in which they were made, not   *)
(* in that of their deadlines as the comment of AdvanceTo says; here they   *)
(* fire together, and their receivers may wake in any order.                *)
FireTimersAndSleeps(t) ==
  /\ timers' = {i \in timers : chans[i].deadline > t}
  /\ chans' = [i \in DOMAIN chans |->
                 IF i \in timers /\ chans[i].deadline <= t THEN Fired(chans[i])
                 ELSE chans[i]]
  /\ sleeps' = {s \in sleeps : asleep[s].deadline > t}
  /\ asleep' = [s \in Sleeper |->
                  IF s \in sleeps /\ asleep[s].deadline <= t
                  THEN [asleep[s] EXCEPT !.closed = TRUE]
                  ELSE asleep[s]]

(* A clock that does not move changes nothing; the real one moves by itself. *)
AdvanceTo(t) ==
  /\ t > now
  /\ now' = t
  /\ FireTimersAndSleeps(t)
  /\ UNCHANGED virtual

AdvanceBy(d) == d > 0 /\ AdvanceTo(now + d)

(* What the callers of the clock can do with it, and time itself.           *)
ClockNext ==
  \/ \E d \in Int : After(d) \/ AdvanceTo(d) \/ AdvanceBy(d)
  \/ \E i \in DOMAIN chans : Receive(i)
  \/ \E s \in Sleeper : Wake(s) \/ \E d \in Int : Sleep(s, d)

ClockSpec == ClockInit /\ [][ClockNext]_clockVars

-----------------------------------------------------------------------------
ClockTypeOK ==
  /\ virtual \in BOOLEAN /\ now \in Int
  /\ chans \in Seq(Channel) /\ timers \subseteq DOMAIN chans
  /\ sleeps \subseteq Sleeper
  /\ asleep \in [Sleeper -> [deadline : Int, blocked : BOOLEAN, closed : BOOLEAN]]

(* The channel of a real timer is never closed, although the interface says *)
(* of every clock that it is.                                               *)
TimersOK ==
  \A i \in DOMAIN chans :
    /\ i \in timers <=> chans[i].deadline > now
    /\ chans[i].ticks = IF i \in timers THEN 0 ELSE 1
    /\ chans[i].closed <=> (virtual /\ i \notin timers)
    /\ chans[i].full => i \notin timers

SleepsOK ==
  \A s \in Sleeper :
    /\ s \in sleeps => asleep[s].blocked /\ asleep[s].deadline > now
    /\ asleep[s].blocked => (asleep[s].closed <=> s \notin sleeps)

(* The lists hold what is still to come, and everything of that: a timer or *)
(* a sleep is in its list until its deadline and not longer, whichever call *)
(* made it due; each timer ticks exactly once (a second tick would block    *)
(* the clock for ever), and a goroutine sleeps on an open channel only when *)
(* the clock still knows it.                                                *)
ClockOK == TimersOK /\ SleepsOK
=============================================================================
