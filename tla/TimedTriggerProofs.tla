------------------------- MODULE TimedTriggerProofs -------------------------
(***************************************************************************)
(* The clock and its users.  First the clock alone: its lists agree with   *)
(* its channels and its time, whatever the durations and however often and *)
(* far it moves.  ClockOK is inductive with the types; the only step with  *)
(* something to show is the move of the clock, which sorts every timer and *)
(* every sleep by whether it is due at the new time.  Then the timed       *)
(* trigger on that clock: it never fires early, and it is the trigger that *)
(* the model of the engine uses.                                           *)
(***************************************************************************)
EXTENDS TimedTrigger, TLAPS

-----------------------------------------------------------------------------
(* The clock.                                                               *)

ClockInv == ClockTypeOK /\ ClockOK

Sleeping == [deadline : Int, blocked : BOOLEAN, closed : BOOLEAN]

(* What TimersOK says of one channel, and SleepsOK of one goroutine.        *)
ChannelOK(c, listed, v, u) ==
  /\ listed <=> c.deadline > u
  /\ c.ticks = IF listed THEN 0 ELSE 1
  /\ c.closed <=> (v /\ ~listed)
  /\ c.full => ~listed

LEMMA TimersPointwise ==
  TimersOK <=> \A i \in DOMAIN chans : ChannelOK(chans[i], i \in timers, virtual, now)
BY DEF TimersOK, ChannelOK

LEMMA ClockInitInv == ClockInit => ClockInv
<1> SUFFICES ASSUME ClockInit PROVE ClockInv
  OBVIOUS
<1>1. chans \in Seq(Channel) /\ DOMAIN chans = {}
  BY DEF ClockInit
<1>2. asleep \in [Sleeper -> Sleeping]
  BY DEF ClockInit, Awake, Sleeping
<1>3. ClockTypeOK
  BY <1>1, <1>2 DEF ClockInit, ClockTypeOK, Sleeping
<1>4. TimersOK
  BY <1>1 DEF TimersOK
<1>5. SleepsOK
  BY DEF ClockInit, SleepsOK, Awake
<1> QED
  BY <1>3, <1>4, <1>5 DEF ClockInv, ClockOK

(* A timer that fires has ticked once more, and is closed by the virtual    *)
(* clock.                                                                   *)
LEMMA FiredChannel ==
  ASSUME virtual \in BOOLEAN, NEW c \in Channel
  PROVE  /\ Fired(c) \in Channel
         /\ Fired(c).deadline = c.deadline
         /\ Fired(c).ticks = c.ticks + 1
         /\ Fired(c).full
         /\ Fired(c).closed = virtual
<1> DEFINE c1 == [c EXCEPT !.ticks = c.ticks + 1]
           c2 == [c1 EXCEPT !.full = TRUE]
           c3 == [c2 EXCEPT !.closed = virtual]
<1>1. Fired(c) \in Channel
  <2>1. c1 \in Channel
    BY DEF Channel
  <2> HIDE DEF c1
  <2>2. c2 \in Channel
    BY <2>1 DEF Channel
  <2> HIDE DEF c2
  <2>3. c3 \in Channel
    BY <2>2 DEF Channel
  <2>4. Fired(c) = c3
    BY Zenon DEF Fired, c1, c2
  <2> QED
    BY <2>3, <2>4
<1>2. Fired(c).deadline = c.deadline
  BY DEF Fired, Channel
<1>3. Fired(c).ticks = c.ticks + 1
  BY DEF Fired, Channel
<1>4. Fired(c).full /\ Fired(c).closed = virtual
  BY DEF Fired, Channel
<1> QED
  BY <1>1, <1>2, <1>3, <1>4

LEMMA AfterInv ==
  ASSUME ClockInv, NEW d \in Int, After(d)
  PROVE  ClockInv'
<1> DEFINE c == NewChannel(now + d)  n == Len(chans) + 1
           x == IF d <= 0 THEN Fired(c) ELSE c
<1>1. /\ virtual \in BOOLEAN /\ now \in Int /\ chans \in Seq(Channel)
      /\ timers \subseteq DOMAIN chans
  BY DEF ClockInv, ClockTypeOK
<1>2. c \in Channel /\ c.deadline = now + d /\ c.ticks = 0 /\ c.full = FALSE /\ c.closed = FALSE
  BY <1>1 DEF NewChannel, Channel
<1>3. x \in Channel /\ x.deadline = now + d
  BY <1>1, <1>2, FiredChannel
<1>4. /\ chans' = Append(chans, x)
      /\ timers' = IF d <= 0 THEN timers ELSE timers \cup {n}
      /\ UNCHANGED <<virtual, now, sleeps, asleep>>
  BY DEF After
<1> HIDE DEF x
<1>5. /\ chans' \in Seq(Channel) /\ DOMAIN chans' = DOMAIN chans \cup {n}
      /\ n \notin DOMAIN chans
      /\ \A i \in DOMAIN chans : chans'[i] = chans[i]
      /\ chans'[n] = x
  BY <1>1, <1>3, <1>4
<1>6. ClockTypeOK'
  BY <1>1, <1>4, <1>5 DEF ClockTypeOK, ClockInv
<1>7. ASSUME NEW i \in DOMAIN chans
      PROVE  ChannelOK(chans'[i], i \in timers', virtual', now')
  <2>1. ChannelOK(chans[i], i \in timers, virtual, now)
    BY TimersPointwise DEF ClockInv, ClockOK
  <2>2. i \in timers' <=> i \in timers
    BY <1>4, <1>5
  <2> QED
    BY <2>1, <2>2, <1>4, <1>5
<1>8. ChannelOK(chans'[n], n \in timers', virtual', now')
  <2>1. CASE d <= 0
    <3>1. x = Fired(c) /\ n \notin timers'
      BY <2>1, <1>1, <1>4, <1>5 DEF x
    <3>2. x.ticks = 1 /\ x.closed = virtual
      BY <3>1, <1>1, <1>2, FiredChannel
    <3>3. ~(x.deadline > now)
      BY <2>1, <1>1, <1>3
    <3> QED
      BY <3>1, <3>2, <3>3, <1>1, <1>4, <1>5 DEF ChannelOK
  <2>2. CASE ~(d <= 0)
    <3>1. x = c /\ n \in timers'
      BY <2>2, <1>4 DEF x
    <3>2. x.deadline > now
      BY <2>2, <1>1, <1>3
    <3> QED
      BY <3>1, <3>2, <1>1, <1>2, <1>4, <1>5 DEF ChannelOK
  <2> QED
    BY <2>1, <2>2
<1>9. TimersOK'
  BY <1>5, <1>7, <1>8 DEF TimersOK, ChannelOK
<1>10. SleepsOK'
  BY <1>4 DEF SleepsOK, ClockInv, ClockOK
<1> QED
  BY <1>6, <1>9, <1>10 DEF ClockInv, ClockOK

LEMMA ReceiveInv ==
  ASSUME ClockInv, NEW i \in DOMAIN chans, Receive(i)
  PROVE  ClockInv'
<1>1. /\ chans \in Seq(Channel) /\ timers \subseteq DOMAIN chans
      /\ chans' = [chans EXCEPT ![i].full = FALSE]
      /\ UNCHANGED <<virtual, now, timers, sleeps, asleep>>
  BY DEF ClockInv, ClockTypeOK, Receive
<1>2. /\ chans' \in Seq(Channel) /\ DOMAIN chans' = DOMAIN chans
      /\ \A j \in DOMAIN chans : /\ chans'[j].deadline = chans[j].deadline
                                 /\ chans'[j].ticks = chans[j].ticks
                                 /\ chans'[j].closed = chans[j].closed
                                 /\ chans'[j].full => chans[j].full
  <2> DEFINE c == chans[i]  f == [c EXCEPT !.full = FALSE]
  <2>1. c \in Channel
    BY <1>1
  <2>2. f \in Channel
    BY <2>1 DEF Channel
  <2>3. /\ f.deadline = c.deadline /\ f.ticks = c.ticks
        /\ f.closed = c.closed /\ f.full = FALSE
    BY <2>1 DEF Channel
  <2>4. chans' = [chans EXCEPT ![i] = f]
    BY <1>1
  <2> HIDE DEF f
  <2>5. chans' \in Seq(Channel) /\ DOMAIN chans' = DOMAIN chans
    <3>1. chans \in Seq(Channel)
      BY <1>1
    <3> QED
      BY <2>2, <2>4, <3>1
  <2>6. \A j \in DOMAIN chans : chans'[j] = IF j = i THEN f ELSE chans[j]
    BY <1>1, <2>4
  <2> QED
    BY <2>3, <2>5, <2>6
<1>3. ClockTypeOK'
  BY <1>1, <1>2 DEF ClockTypeOK, ClockInv
<1>4. TimersOK'
  BY <1>1, <1>2 DEF TimersOK, ClockInv, ClockOK
<1>5. SleepsOK'
  BY <1>1 DEF SleepsOK, ClockInv, ClockOK
<1> QED
  BY <1>3, <1>4, <1>5 DEF ClockInv, ClockOK

(* Sleep and Wake: one goroutine goes into the list or leaves its channel.  *)
LEMMA SleepInv ==
  ASSUME ClockInv, NEW s \in Sleeper, NEW d \in Int, Sleep(s, d)
  PROVE  ClockInv'
<1>1. CASE d <= 0
  BY <1>1 DEF Sleep, ClockInv, ClockTypeOK, ClockOK, TimersOK, SleepsOK
<1>2. CASE ~(d <= 0)
  <2> DEFINE a == [deadline |-> now + d, blocked |-> TRUE, closed |-> FALSE]
  <2>1. /\ sleeps' = sleeps \cup {s} /\ asleep' = [asleep EXCEPT ![s] = a]
        /\ UNCHANGED <<virtual, now, chans, timers>>
    BY <1>2 DEF Sleep
  <2>2. now \in Int /\ asleep \in [Sleeper -> Sleeping] /\ sleeps \subseteq Sleeper
    BY DEF ClockInv, ClockTypeOK, Sleeping
  <2>3. a \in Sleeping /\ a.deadline > now
    BY <1>2, <2>2 DEF Sleeping
  <2>4. asleep' \in [Sleeper -> Sleeping] /\ sleeps' \subseteq Sleeper
    BY <2>1, <2>2, <2>3
  <2>5. ClockTypeOK'
    BY <2>1, <2>4 DEF ClockTypeOK, ClockInv, Sleeping
  <2>6. SleepsOK'
    <3> SUFFICES ASSUME NEW q \in Sleeper
                 PROVE  /\ q \in sleeps' => asleep'[q].blocked /\ asleep'[q].deadline > now'
                        /\ asleep'[q].blocked => (asleep'[q].closed <=> q \notin sleeps')
      BY DEF SleepsOK
    <3>1. CASE q = s
      BY <3>1, <2>1, <2>2, <2>3
    <3>2. CASE q # s
      BY <3>2, <2>1, <2>2 DEF ClockInv, ClockOK, SleepsOK
    <3> QED
      BY <3>1, <3>2
  <2>7. TimersOK'
    BY <2>1 DEF TimersOK, ClockInv, ClockOK
  <2> QED
    BY <2>5, <2>6, <2>7 DEF ClockInv, ClockOK
<1> QED
  BY <1>1, <1>2

LEMMA WakeInv ==
  ASSUME ClockInv, NEW s \in Sleeper, Wake(s)
  PROVE  ClockInv'
<1>1. /\ asleep' = [asleep EXCEPT ![s] = Awake] /\ asleep[s].blocked /\ asleep[s].closed
      /\ UNCHANGED <<virtual, now, chans, timers, sleeps>>
  BY DEF Wake
<1>2. asleep \in [Sleeper -> Sleeping] /\ Awake \in Sleeping
  BY DEF ClockInv, ClockTypeOK, Sleeping, Awake
<1>3. s \notin sleeps
  BY <1>1 DEF ClockInv, ClockOK, SleepsOK
<1>4. ClockTypeOK'
  BY <1>1, <1>2 DEF ClockTypeOK, ClockInv, Sleeping
<1>5. SleepsOK'
  <2> SUFFICES ASSUME NEW q \in Sleeper
               PROVE  /\ q \in sleeps' => asleep'[q].blocked /\ asleep'[q].deadline > now'
                      /\ asleep'[q].blocked => (asleep'[q].closed <=> q \notin sleeps')
    BY DEF SleepsOK
  <2>1. CASE q = s
    BY <2>1, <1>1, <1>2, <1>3 DEF Awake
  <2>2. CASE q # s
    BY <2>2, <1>1, <1>2 DEF ClockInv, ClockOK, SleepsOK
  <2> QED
    BY <2>1, <2>2
<1>6. TimersOK'
  BY <1>1 DEF TimersOK, ClockInv, ClockOK
<1> QED
  BY <1>4, <1>5, <1>6 DEF ClockInv, ClockOK

(* A timer that is due at the new time was not due at the old one, unless   *)
(* it had fired already; so it ticks now, for the first time.               *)
LEMMA AdvanceInv ==
  ASSUME ClockInv, NEW u \in Int, AdvanceTo(u)
  PROVE  ClockInv'
<1> DEFINE due(i) == i \in timers /\ chans[i].deadline <= u
<1>1. /\ virtual \in BOOLEAN /\ now \in Int /\ chans \in Seq(Channel)
      /\ timers \subseteq DOMAIN chans /\ sleeps \subseteq Sleeper
      /\ asleep \in [Sleeper -> Sleeping]
  BY DEF ClockInv, ClockTypeOK, Sleeping
<1>2. /\ u > now /\ now' = u /\ virtual' = virtual
      /\ timers' = {i \in timers : chans[i].deadline > u}
      /\ chans' = [i \in DOMAIN chans |-> IF due(i) THEN Fired(chans[i]) ELSE chans[i]]
      /\ sleeps' = {s \in sleeps : asleep[s].deadline > u}
      /\ asleep' = [s \in Sleeper |-> IF s \in sleeps /\ asleep[s].deadline <= u
                                      THEN [asleep[s] EXCEPT !.closed = TRUE]
                                      ELSE asleep[s]]
  BY DEF AdvanceTo, FireTimersAndSleeps
<1>3. \A i \in DOMAIN chans : chans[i] \in Channel /\ Fired(chans[i]) \in Channel
  BY <1>1, FiredChannel
<1>4. chans' \in Seq(Channel) /\ DOMAIN chans' = DOMAIN chans
  <2>1. DOMAIN chans = 1 .. Len(chans) /\ Len(chans) \in Nat
    BY <1>1
  <2>2. \A i \in DOMAIN chans : (IF due(i) THEN Fired(chans[i]) ELSE chans[i]) \in Channel
    BY <1>3
  <2> QED
    BY <1>2, <2>1, <2>2
<1>5. asleep' \in [Sleeper -> Sleeping] /\ sleeps' \subseteq Sleeper
  BY <1>1, <1>2 DEF Sleeping
<1>6. ClockTypeOK'
  BY <1>1, <1>2, <1>4, <1>5 DEF ClockTypeOK, Sleeping
<1>7. ASSUME NEW i \in DOMAIN chans
      PROVE  ChannelOK(chans'[i], i \in timers', virtual', now')
  <2>1. ChannelOK(chans[i], i \in timers, virtual, now)
    BY TimersPointwise DEF ClockInv, ClockOK
  <2>2. chans[i] \in Channel /\ chans[i].deadline \in Int
    BY <1>3 DEF Channel
  <2>3. CASE due(i)
    <3>1. chans'[i] = Fired(chans[i]) /\ i \notin timers'
      BY <2>2, <2>3, <1>2
    <3>2. /\ chans'[i].deadline = chans[i].deadline /\ chans'[i].ticks = 1
          /\ chans'[i].closed = virtual
      BY <2>1, <2>2, <2>3, <3>1, <1>1, FiredChannel DEF ChannelOK
    <3> QED
      BY <2>2, <2>3, <3>1, <3>2, <1>1, <1>2 DEF ChannelOK
  <2>4. CASE ~due(i)
    <3>1. chans'[i] = chans[i] /\ (i \in timers' <=> i \in timers)
      BY <2>2, <2>4, <1>1, <1>2
    <3>2. chans[i].deadline > now <=> chans[i].deadline > u
      BY <2>1, <2>2, <2>4, <1>1, <1>2 DEF ChannelOK
    <3> QED
      BY <2>1, <3>1, <3>2, <1>2 DEF ChannelOK
  <2> QED
    BY <2>3, <2>4
<1>8. TimersOK'
  BY <1>4, <1>7 DEF TimersOK, ChannelOK
<1>9. SleepsOK'
  <2> SUFFICES ASSUME NEW q \in Sleeper
               PROVE  /\ q \in sleeps' => asleep'[q].blocked /\ asleep'[q].deadline > now'
                      /\ asleep'[q].blocked => (asleep'[q].closed <=> q \notin sleeps')
    BY DEF SleepsOK
  <2>1. asleep[q] \in Sleeping /\ asleep[q].deadline \in Int
    BY <1>1 DEF Sleeping
  <2>2. /\ q \in sleeps => asleep[q].blocked /\ asleep[q].deadline > now
        /\ asleep[q].blocked => (asleep[q].closed <=> q \notin sleeps)
    BY DEF ClockInv, ClockOK, SleepsOK
  <2>3. CASE q \in sleeps /\ asleep[q].deadline <= u
    <3>1. asleep'[q] = [asleep[q] EXCEPT !.closed = TRUE] /\ q \notin sleeps'
      BY <2>1, <2>3, <1>2
    <3>2. asleep'[q].closed
      BY <2>1, <3>1 DEF Sleeping
    <3> QED
      BY <3>1, <3>2
  <2>4. CASE ~(q \in sleeps /\ asleep[q].deadline <= u)
    <3>1. asleep'[q] = asleep[q] /\ (q \in sleeps' <=> q \in sleeps)
      BY <2>1, <2>4, <1>1, <1>2
    <3>2. q \in sleeps => asleep[q].deadline > u
      BY <2>1, <2>4, <1>1
    <3> QED
      BY <2>2, <3>1, <3>2, <1>2
  <2> QED
    BY <2>3, <2>4
<1> QED
  BY <1>6, <1>8, <1>9 DEF ClockInv, ClockOK

LEMMA ClockInvStep == ClockInv /\ [ClockNext]_clockVars => ClockInv'
<1> SUFFICES ASSUME ClockInv, [ClockNext]_clockVars PROVE ClockInv'
  OBVIOUS
<1>1. ASSUME NEW d \in Int, After(d) PROVE ClockInv'
  BY <1>1, AfterInv
<1>2. ASSUME NEW u \in Int, AdvanceTo(u) PROVE ClockInv'
  BY <1>2, AdvanceInv
<1>3. ASSUME NEW d \in Int, AdvanceBy(d) PROVE ClockInv'
  <2>1. now + d \in Int
    BY DEF ClockInv, ClockTypeOK
  <2> QED
    BY <1>3, <2>1, AdvanceInv DEF AdvanceBy
<1>4. ASSUME NEW i \in DOMAIN chans, Receive(i) PROVE ClockInv'
  BY <1>4, ReceiveInv
<1>5. ASSUME NEW s \in Sleeper, Wake(s) PROVE ClockInv'
  BY <1>5, WakeInv
<1>6. ASSUME NEW s \in Sleeper, NEW d \in Int, Sleep(s, d) PROVE ClockInv'
  BY <1>6, SleepInv
<1>7. CASE UNCHANGED clockVars
  BY <1>7 DEF ClockInv, ClockTypeOK, ClockOK, TimersOK, SleepsOK, clockVars
<1> QED
  BY <1>1, <1>2, <1>3, <1>4, <1>5, <1>6, <1>7 DEF ClockNext

(* Whatever the calls and the durations, a timer or a sleep is in the lists *)
(* of the clock until it is due and not longer, and each timer ticks exactly *)
(* once, so that fireTimersAndSleeps (virtual.go) never blocks the clock.   *)
THEOREM ClockStaysConsistent == ClockSpec => []ClockOK
<1>1. ClockInv => ClockOK
  BY DEF ClockInv
<1> QED
  BY <1>1, ClockInitInv, ClockInvStep, PTL DEF ClockSpec

-----------------------------------------------------------------------------
(* The clock that the trigger and the wait tasks use is such a clock.       *)

LookRecord ==
  [pc : {"idle", "ask", "remaining", "after", "fire"}, deadline : Int, remaining : Int]

WaiterRecord == [pc : {"off", "enter", "await", "ready"}, chan : Nat]

WaitRecord ==
  [pc : {"off", "planned", "sleeping", "over"}, d : Int, due : Int, moved : BOOLEAN]

Types ==
  /\ fixed \in BOOLEAN /\ timer \in {0} \cup DOMAIN chans
  /\ now \in Nat /\ since \in Int /\ tokens \in Nat
  /\ look \in [Looker -> LookRecord]
  /\ waiter \in [Waiter -> WaiterRecord]
  /\ \A w \in Waiter : waiter[w].pc = "await" => waiter[w].chan \in DOMAIN chans
  /\ wait \in [Sleeper -> WaitRecord]

(* The mutex of the trigger is held by the looker that makes the timer, and *)
(* nobody makes one while there is one.                                     *)
LockOK ==
  /\ \A k \in Looker : look[k].pc \in {"remaining", "after"} <=> mu = k
  /\ mu # None => timer = 0

(* The time before which nothing may fire.                                  *)
Scheduled == IF fixed THEN At ELSE since + Delay

LookOK(k) ==
  /\ look[k].pc = "ask" => since # Never
  /\ look[k].pc \in {"remaining", "after"} =>
       /\ since # Never /\ look[k].deadline >= Scheduled
       /\ fixed => look[k].deadline = At
  /\ look[k].pc = "after" =>
       /\ look[k].remaining > 0
       /\ look[k].remaining + now >= Scheduled
  /\ look[k].pc = "fire" => since # Never /\ now >= Scheduled

ScheduleOK ==
  /\ since <= now /\ (tokens > 0 => since # Never)
  /\ \A i \in DOMAIN chans : since # Never /\ chans[i].deadline >= Scheduled
  /\ \A k \in Looker : LookOK(k)
  /\ \A w \in Waiter : waiter[w].pc = "ready" => since # Never /\ now >= Scheduled

TimedInv == ClockInv /\ Types /\ LockOK /\ ScheduleOK
(* Who finds a waiter goroutine or leaves one.                              *)
LEMMA SpawnTypes ==
  ASSUME Types, Spawn
  PROVE  /\ waiter' \in [Waiter -> WaiterRecord]
         /\ \A w \in Waiter : waiter'[w].pc \in {"await", "ready"} => waiter'[w] = waiter[w]
<1>1. CASE waiting
  BY <1>1 DEF Spawn, Types
<1>2. CASE ~waiting
  <2>1. PICK n \in Waiter : waiter' = [waiter EXCEPT ![n].pc = "enter"]
    BY <1>2 DEF Spawn, NewWaiter
  <2> QED
    BY <2>1 DEF Types, WaiterRecord
<1> QED
  BY <1>1, <1>2

LEMMA YesTypes ==
  ASSUME Types, NEW k \in Looker, Yes(k)
  PROVE  /\ look' \in [Looker -> LookRecord]
         /\ \A j \in Looker : j # k => look'[j] = look[j]
         /\ look'[k].pc = IF k = loop THEN "fire" ELSE "idle"
         /\ UNCHANGED <<waiting, waiter>>
<1> DEFINE r == [NotLooking EXCEPT !.pc = IF k = loop THEN "fire" ELSE "idle"]
<1>1. r \in LookRecord /\ r.pc = IF k = loop THEN "fire" ELSE "idle"
  BY DEF NotLooking, LookRecord
<1>2. look' = [look EXCEPT ![k] = r] /\ UNCHANGED <<waiting, waiter>>
  BY DEF Yes
<1> HIDE DEF r
<1> QED
  BY <1>1, <1>2 DEF Types

LEMMA NoTypes ==
  ASSUME Types, NEW k \in Looker, No(k)
  PROVE  /\ look' \in [Looker -> LookRecord]
         /\ \A j \in Looker : j # k => look'[j] = look[j]
         /\ look'[k].pc = "idle"
         /\ waiter' \in [Waiter -> WaiterRecord]
         /\ \A w \in Waiter : waiter'[w].pc \in {"await", "ready"} => waiter'[w] = waiter[w]
<1>1. NotLooking \in LookRecord /\ NotLooking.pc = "idle"
  BY DEF NotLooking, LookRecord
<1> QED
  BY <1>1, SpawnTypes DEF No, Types

(* What is known of a looker and of a waiter stays true while time passes.  *)
LEMMA LookKept ==
  ASSUME TimedInv, NEW k \in Looker, look'[k] = look[k], UNCHANGED <<fixed, since>>,
         now' \in Nat, now' >= now
  PROVE  LookOK(k)'
<1>1. LookOK(k) /\ look[k] \in LookRecord /\ now \in Nat /\ since \in Int /\ Scheduled \in Int
  BY TimedTriggerAssumption DEF TimedInv, Types, ScheduleOK, Scheduled
<1>2. Scheduled' = Scheduled
  BY DEF Scheduled
<1> HIDE DEF Scheduled
<1>3. look[k].remaining \in Int /\ look[k].deadline \in Int
  BY <1>1 DEF LookRecord
<1> QED
  BY <1>1, <1>2, <1>3 DEF LookOK

LEMMA WaitersKept ==
  ASSUME TimedInv, UNCHANGED <<fixed, since>>, now' \in Nat, now' >= now,
         \A w \in Waiter : waiter'[w].pc \in {"await", "ready"} => waiter'[w] = waiter[w],
         DOMAIN chans \subseteq DOMAIN chans'
  PROVE  /\ \A w \in Waiter : waiter'[w].pc = "await" => waiter'[w].chan \in DOMAIN chans'
         /\ \A w \in Waiter : waiter'[w].pc = "ready" => since' # Never /\ now' >= Scheduled'
<1>1. now \in Nat /\ Scheduled \in Int /\ Scheduled' = Scheduled
  BY TimedTriggerAssumption DEF TimedInv, Types, Scheduled
<1> HIDE DEF Scheduled
<1> QED
  BY <1>1 DEF TimedInv, Types, ScheduleOK

(* The same channels, with the same deadlines.                              *)
SameChannels ==
  /\ DOMAIN chans' = DOMAIN chans
  /\ \A i \in DOMAIN chans : chans'[i].deadline = chans[i].deadline

LEMMA ChannelsKept ==
  ASSUME TimedInv, UNCHANGED <<fixed, since>>, SameChannels
  PROVE  \A i \in DOMAIN chans' : since' # Never /\ chans'[i].deadline >= Scheduled'
BY DEF TimedInv, ScheduleOK, SameChannels, Scheduled

LEMMA ReceiveChannels ==
  ASSUME TimedInv, NEW i \in DOMAIN chans, Receive(i)
  PROVE  SameChannels /\ now' = now
<1>1. chans \in Seq(Channel) /\ chans' = [chans EXCEPT ![i].full = FALSE] /\ now' = now
  BY DEF TimedInv, ClockInv, ClockTypeOK, Receive
<1>2. chans[i] \in Channel
  BY <1>1
<1> DEFINE r == [chans[i] EXCEPT !.full = FALSE]
<1>3. chans' = [chans EXCEPT ![i] = r] /\ r.deadline = chans[i].deadline
  BY <1>1, <1>2 DEF Channel
<1> HIDE DEF r
<1> QED
  BY <1>1, <1>3 DEF SameChannels

(* A channel that can be received from has reached its deadline.            *)
LEMMA ReadyIsDue ==
  ASSUME TimedInv, NEW i \in DOMAIN chans, Ready(i)
  PROVE  /\ i \notin timers /\ chans[i].ticks = 1 /\ chans[i].deadline <= now
         /\ now >= Scheduled /\ since # Never
<1>1. /\ i \in timers <=> chans[i].deadline > now
      /\ chans[i].ticks = IF i \in timers THEN 0 ELSE 1
      /\ chans[i].closed <=> (virtual /\ i \notin timers)
      /\ chans[i].full => i \notin timers
  BY DEF TimedInv, ClockInv, ClockOK, TimersOK
<1>2. i \notin timers
  BY <1>1 DEF Ready
<1>3. chans[i] \in Channel /\ now \in Nat /\ Scheduled \in Int
  BY TimedTriggerAssumption DEF TimedInv, ClockInv, ClockTypeOK, Types, Scheduled
<1>4. chans[i].deadline \in Int /\ chans[i].deadline >= Scheduled /\ since # Never
  BY <1>3 DEF TimedInv, ScheduleOK, Channel
<1> HIDE DEF Scheduled
<1> QED
  BY <1>1, <1>2, <1>3, <1>4

Kept == Types' /\ LockOK' /\ ScheduleOK'

(* Steps of the tokens, the engine, the clock and the wait tasks, which     *)
(* leave the trigger, its lookers and its waiters alone.                    *)
LEMMA OthersKeep ==
  ASSUME TimedInv, UNCHANGED <<fixed, mu, look, waiter>>, SameChannels,
         timer' = timer \/ timer' = 0, now' \in Nat, now' >= now,
         wait' \in [Sleeper -> WaitRecord],
         since' = since, tokens' \in Nat, tokens' > 0 => since # Never
  PROVE  Kept
<1>1. /\ fixed \in BOOLEAN /\ timer \in {0} \cup DOMAIN chans /\ now \in Nat /\ since \in Int
      /\ look \in [Looker -> LookRecord] /\ waiter \in [Waiter -> WaiterRecord]
      /\ since <= now
  BY DEF TimedInv, Types, ScheduleOK
<1>2. /\ \A w \in Waiter : waiter'[w].pc = "await" => waiter'[w].chan \in DOMAIN chans'
      /\ \A w \in Waiter : waiter'[w].pc = "ready" => since' # Never /\ now' >= Scheduled'
  <2>1. \A w \in Waiter : waiter'[w] = waiter[w]
    OBVIOUS
  <2>2. DOMAIN chans \subseteq DOMAIN chans'
    BY DEF SameChannels
  <2> QED
    BY <2>1, <2>2, WaitersKept
<1>3. Types'
  BY <1>1, <1>2 DEF Types, SameChannels
<1>4. LockOK'
  BY DEF LockOK, TimedInv
<1>5. ScheduleOK'
  <2>1. \A k \in Looker : LookOK(k)'
    BY LookKept
  <2>2. since' <= now'
    BY <1>1
  <2> QED
    BY <1>2, <2>1, <2>2, ChannelsKept DEF ScheduleOK
<1> QED
  BY <1>3, <1>4, <1>5 DEF Kept

(* A looker that gives an answer.                                           *)
LEMMA AnswerKeeps ==
  ASSUME TimedInv, NEW k \in Looker,
         (Yes(k) /\ since # Never /\ now >= Scheduled) \/ No(k),
         UNCHANGED <<fixed, since, tokens, wait, now>>,
         mu' = None, mu = None \/ mu = k,
         timer' \in {0} \cup DOMAIN chans', DOMAIN chans \subseteq DOMAIN chans',
         \A i \in DOMAIN chans' : since # Never /\ chans'[i].deadline >= Scheduled
  PROVE  Kept
<1>1. /\ fixed \in BOOLEAN /\ now \in Nat /\ since \in Int /\ tokens \in Nat
      /\ look \in [Looker -> LookRecord] /\ waiter \in [Waiter -> WaiterRecord]
      /\ wait \in [Sleeper -> WaitRecord]
  BY DEF TimedInv, Types
<1>2. /\ look' \in [Looker -> LookRecord]
      /\ \A j \in Looker : j # k => look'[j] = look[j]
      /\ look'[k].pc \in {"idle", "fire"}
      /\ look'[k].pc = "fire" => since # Never /\ now >= Scheduled
      /\ waiter' \in [Waiter -> WaiterRecord]
      /\ \A w \in Waiter : waiter'[w].pc \in {"await", "ready"} => waiter'[w] = waiter[w]
  <2>1. CASE Yes(k) /\ since # Never /\ now >= Scheduled
    BY <1>1, <2>1, YesTypes DEF TimedInv
  <2>2. CASE No(k)
    BY <2>2, NoTypes DEF TimedInv
  <2> QED
    BY <2>1, <2>2
<1>3. /\ \A w \in Waiter : waiter'[w].pc = "await" => waiter'[w].chan \in DOMAIN chans'
      /\ \A w \in Waiter : waiter'[w].pc = "ready" => since' # Never /\ now' >= Scheduled'
  <2>1. now' \in Nat /\ now' >= now
    BY <1>1
  <2> QED
    BY <1>2, <2>1, WaitersKept
<1>4. Types'
  BY <1>1, <1>2, <1>3 DEF Types
<1>5. LockOK'
  <2>1. \A j \in Looker : look'[j].pc \notin {"remaining", "after"}
    <3>1. ASSUME NEW j \in Looker, j # k PROVE look'[j].pc \notin {"remaining", "after"}
      <4>1. mu # j
        BY <3>1, TimedTriggerAssumption
      <4> QED
        BY <1>2, <3>1, <4>1 DEF TimedInv, LockOK
    <3> QED
      BY <1>2, <3>1
  <2>2. \A j \in Looker : j # None
    BY TimedTriggerAssumption
  <2> QED
    BY <2>1, <2>2 DEF LockOK
<1>6. \A j \in Looker : LookOK(j)'
  <2>1. LookOK(k)'
    BY <1>2 DEF LookOK, Scheduled
  <2>2. \A j \in Looker : j # k => LookOK(j)'
    BY <1>1, <1>2, LookKept
  <2> QED
    BY <2>1, <2>2
<1>7. ScheduleOK'
  BY <1>3, <1>6 DEF ScheduleOK, TimedInv, Scheduled
<1> QED
  BY <1>4, <1>5, <1>7 DEF Kept

LEMMA PollKeeps ==
  ASSUME TimedInv, NEW k \in Looker, Poll(k)
  PROVE  Kept
<1>1. /\ timer \in DOMAIN chans /\ mu = None /\ UNCHANGED <<fixed, timer, mu, tokens, since, wait>>
  BY DEF Poll, TimedInv, Types
<1>2. CASE Receive(timer) /\ Yes(k)
  <2>1. SameChannels /\ now' = now
    BY <1>1, <1>2, ReceiveChannels
  <2>2. since # Never /\ now >= Scheduled
    BY <1>1, <1>2, ReadyIsDue DEF Receive
  <2>3. \A i \in DOMAIN chans' : since # Never /\ chans'[i].deadline >= Scheduled
    BY <1>1, <2>1, ChannelsKept DEF Scheduled
  <2> QED
    BY <1>1, <1>2, <2>1, <2>2, <2>3, AnswerKeeps DEF SameChannels
<1>3. CASE No(k) /\ UNCHANGED clockVars
  <2>1. chans' = chans /\ now' = now
    BY <1>3 DEF clockVars
  <2>2. \A i \in DOMAIN chans : since # Never /\ chans[i].deadline >= Scheduled
    BY DEF TimedInv, ScheduleOK
  <2> QED
    BY <1>1, <1>3, <2>1, <2>2, AnswerKeeps
<1> QED
  BY <1>2, <1>3 DEF Poll
LEMMA ReadDeadlineKeeps ==
  ASSUME TimedInv, NEW k \in Looker, ReadDeadline(k)
  PROVE  Kept
<1> DEFINE d == IF fixed THEN At ELSE now + Delay
           r == [[look[k] EXCEPT !.pc = "remaining"] EXCEPT !.deadline = d]
<1>1. /\ fixed \in BOOLEAN /\ now \in Nat /\ since \in Int /\ tokens \in Nat
      /\ look \in [Looker -> LookRecord] /\ timer = 0 /\ mu = None /\ mu' = k
      /\ since # Never /\ since <= now /\ At \in Nat /\ Delay \in Nat
  BY TimedTriggerAssumption DEF TimedInv, Types, ScheduleOK, LookOK, ReadDeadline
<1>2. UNCHANGED <<virtual, now, chans, timers, sleeps, asleep, fixed, timer, waiter, waiting,
                  tokens, since, wait>>
  BY DEF ReadDeadline, clockVars, netVars
<1>3. d \in Int /\ d >= Scheduled /\ (fixed => d = At)
  BY <1>1 DEF Scheduled
<1>4. /\ r \in LookRecord /\ r.pc = "remaining" /\ r.deadline = d
      /\ look' = [look EXCEPT ![k] = r]
  <2>1. look[k] \in LookRecord
    BY <1>1
  <2>2. r \in LookRecord /\ r.pc = "remaining" /\ r.deadline = d
    BY <1>3, <2>1 DEF LookRecord
  <2>3. look' = [look EXCEPT ![k] = r]
    BY <1>1, <2>1 DEF ReadDeadline, LookRecord
  <2> QED
    BY <2>2, <2>3
<1> HIDE DEF r, d
<1>5. Types'
  BY <1>1, <1>2, <1>4 DEF TimedInv, Types
<1>6. LockOK'
  BY <1>1, <1>2, <1>4, TimedTriggerAssumption DEF TimedInv, LockOK
<1>7. \A j \in Looker : LookOK(j)'
  <2>1. LookOK(k)'
    BY <1>1, <1>2, <1>3, <1>4 DEF LookOK, Scheduled
  <2>2. \A j \in Looker : j # k => LookOK(j)'
    BY <1>1, <1>2, <1>4, LookKept
  <2> QED
    BY <2>1, <2>2
<1>8. ScheduleOK'
  BY <1>2, <1>7 DEF TimedInv, ScheduleOK, Scheduled
<1> QED
  BY <1>5, <1>6, <1>8 DEF Kept

LEMMA ReadRemainingKeeps ==
  ASSUME TimedInv, NEW k \in Looker, ReadRemaining(k)
  PROVE  Kept
<1> DEFINE left == look[k].deadline - now
           r == [[look[k] EXCEPT !.pc = "after"] EXCEPT !.remaining = left]
<1>1. /\ fixed \in BOOLEAN /\ now \in Nat /\ since \in Int /\ tokens \in Nat
      /\ look \in [Looker -> LookRecord] /\ look[k] \in LookRecord /\ look[k].deadline \in Int
      /\ At \in Nat /\ Delay \in Nat
  BY TimedTriggerAssumption DEF TimedInv, Types, LookRecord
<1>2. UNCHANGED <<virtual, now, chans, timers, sleeps, asleep, fixed, timer, tokens, since, wait>>
  BY DEF ReadRemaining, clockVars, netVars
<1>3. /\ look[k].pc = "remaining" /\ mu = k /\ timer = 0 /\ since # Never
      /\ look[k].deadline >= Scheduled /\ (fixed => look[k].deadline = At)
  <2>1. look[k].pc = "remaining" /\ LookOK(k)
    BY DEF ReadRemaining, TimedInv, ScheduleOK
  <2> QED
    BY <2>1, TimedTriggerAssumption DEF TimedInv, LockOK, LookOK
<1>4. CASE left <= 0 /\ mu' = None /\ Yes(k)
  <2>1. since # Never /\ now >= Scheduled
    BY <1>1, <1>3, <1>4 DEF Scheduled
  <2>2. \A i \in DOMAIN chans' : since # Never /\ chans'[i].deadline >= Scheduled
    BY <1>2 DEF TimedInv, ScheduleOK
  <2> QED
    BY <1>2, <1>3, <1>4, <2>1, <2>2, AnswerKeeps
<1>5. CASE left > 0 /\ look' = [look EXCEPT ![k] = r] /\ UNCHANGED <<mu, waiter, waiting>>
  <2>1. /\ r \in LookRecord /\ r.pc = "after" /\ r.deadline = look[k].deadline
        /\ r.remaining = left /\ left \in Int
    <3>1. left \in Int
      BY <1>1
    <3> HIDE DEF left
    <3> QED
      BY <1>1, <3>1 DEF LookRecord
  <2>2. left + now >= Scheduled
    BY <1>1, <1>3 DEF Scheduled
  <2> HIDE DEF r, left
  <2>3. Types'
    BY <1>1, <1>2, <1>5, <2>1 DEF TimedInv, Types
  <2>4. LockOK'
    BY <1>1, <1>2, <1>3, <1>5, <2>1 DEF TimedInv, LockOK
  <2>5. \A j \in Looker : LookOK(j)'
    <3>1. LookOK(k)'
      BY <1>1, <1>2, <1>3, <1>5, <2>1, <2>2 DEF LookOK, Scheduled
    <3>2. \A j \in Looker : j # k => LookOK(j)'
      BY <1>1, <1>2, <1>5, LookKept
    <3> QED
      BY <3>1, <3>2
  <2>6. ScheduleOK'
    BY <1>2, <1>5, <2>5 DEF TimedInv, ScheduleOK, Scheduled
  <2> QED
    BY <2>3, <2>4, <2>6 DEF Kept
<1>6. left <= 0 \/ left > 0
  BY <1>1
<1>7. \/ left <= 0 /\ mu' = None /\ Yes(k)
      \/ left > 0 /\ look' = [look EXCEPT ![k] = r] /\ UNCHANGED <<mu, waiter, waiting>>
  BY <1>1, <1>6 DEF ReadRemaining, LookRecord
<1> QED
  BY <1>4, <1>5, <1>7

(* The timer is made for what remained, so that it rings at the deadline or *)
(* later.                                                                   *)
LEMMA StartTimerChannel ==
  ASSUME TimedInv, NEW k \in Looker, StartTimer(k)
  PROVE  /\ DOMAIN chans' = DOMAIN chans \cup {timer'} /\ timer' = Len(chans) + 1
         /\ timer' \notin DOMAIN chans /\ timer' # 0
         /\ \A i \in DOMAIN chans : chans'[i] = chans[i]
         /\ chans'[timer'] = NewChannel(now + look[k].remaining)
         /\ chans'[timer'].deadline = now + look[k].remaining
         /\ now' = now /\ virtual' = virtual /\ mu = k /\ timer = 0
         /\ now + look[k].remaining >= Scheduled /\ since # Never
<1>1. /\ look[k] \in LookRecord /\ now \in Nat /\ look[k].pc = "after" /\ LookOK(k)
      /\ chans \in Seq(Channel) /\ k # None
  BY TimedTriggerAssumption
  DEF TimedInv, Types, StartTimer, ScheduleOK, ClockInv, ClockTypeOK
<1>2. look[k].remaining \in Int /\ look[k].remaining > 0
  BY <1>1 DEF LookRecord, LookOK
<1>3. /\ mu = k /\ timer = 0 /\ since # Never /\ look[k].remaining + now >= Scheduled
      /\ timer' = Len(chans) + 1
  BY <1>1 DEF TimedInv, LockOK, LookOK, StartTimer
<1>4. /\ chans' = Append(chans, NewChannel(now + look[k].remaining))
      /\ now' = now /\ virtual' = virtual
  BY <1>1, <1>2 DEF StartTimer, After
<1>5. NewChannel(now + look[k].remaining) \in Channel
  BY <1>1, <1>2 DEF NewChannel, Channel
<1>6. NewChannel(now + look[k].remaining).deadline = now + look[k].remaining
  BY DEF NewChannel
<1> QED
  BY <1>1, <1>2, <1>3, <1>4, <1>5, <1>6 DEF Scheduled

LEMMA StartTimerKeeps ==
  ASSUME TimedInv, NEW k \in Looker, StartTimer(k)
  PROVE  Kept
<1>1. No(k) /\ mu' = None /\ UNCHANGED <<fixed, since, tokens, wait>>
  BY DEF StartTimer
<1>2. \A i \in DOMAIN chans' : since # Never /\ chans'[i].deadline >= Scheduled
  BY StartTimerChannel DEF TimedInv, ScheduleOK
<1> QED
  BY <1>1, <1>2, StartTimerChannel, AnswerKeeps
(* A looker that begins to ask, or that ends without an answer.            *)
LEMMA LookMoves ==
  ASSUME TimedInv, NEW k \in Looker, NEW pc \in {"idle", "ask"}, LookAt(k, pc),
         look[k].pc \in {"idle", "fire"}, pc = "ask" => since # Never,
         UNCHANGED <<fixed, timer, mu, waiter, now, chans, since, wait>>,
         tokens' \in Nat, tokens' <= tokens
  PROVE  Kept /\ Starting' = Starting
<1> DEFINE r == [look[k] EXCEPT !.pc = pc]
<1>1. now \in Nat /\ tokens \in Nat /\ look \in [Looker -> LookRecord]
  BY DEF TimedInv, Types
<1>2. r \in LookRecord /\ r.pc = pc /\ look' = [look EXCEPT ![k] = r]
  BY <1>1 DEF LookAt, LookRecord
<1> HIDE DEF r
<1>3. Types'
  BY <1>1, <1>2 DEF TimedInv, Types
<1>4. LockOK'
  BY <1>1, <1>2 DEF TimedInv, LockOK
<1>5. \A j \in Looker : LookOK(j)'
  <2>1. LookOK(k)'
    BY <1>1, <1>2 DEF LookOK
  <2>2. \A j \in Looker : j # k => LookOK(j)'
    BY <1>1, <1>2, LookKept
  <2> QED
    BY <2>1, <2>2
<1>6. ScheduleOK'
  BY <1>1, <1>5 DEF TimedInv, ScheduleOK, Scheduled
<1>7. Starting' = Starting
  BY <1>1, <1>2 DEF Starting
<1> QED
  BY <1>3, <1>4, <1>6, <1>7 DEF Kept

LEMMA FindsEnabledKeeps ==
  ASSUME TimedInv, NEW k \in Looker, FindsEnabled(k)
  PROVE  Kept /\ Starting' = Starting
<1>1. /\ look[k].pc = "idle" /\ tokens \in Nat /\ since # Never /\ LookAt(k, "ask")
      /\ UNCHANGED <<fixed, timer, mu, waiter, now, chans, since, wait, tokens>>
  BY DEF FindsEnabled, TimedInv, Types, ScheduleOK, Enabled, clockVars, netVars
<1> QED
  BY <1>1, LookMoves

(* A firing takes a token or leaves them all.                               *)
LEMMA FireTokens ==
  ASSUME tokens \in Nat, Fire
  PROVE  tokens' \in Nat /\ tokens' <= tokens /\ since' = since
BY DEF Fire, Enabled

LEMMA LoopFiresKeeps ==
  ASSUME TimedInv, LoopFires
  PROVE  Kept /\ Starting' = Starting /\ now >= Scheduled
<1>1. /\ tokens \in Nat /\ loop \in Looker /\ look[loop].pc = "fire" /\ LookOK(loop)
      /\ LookAt(loop, "idle") /\ Fire
      /\ UNCHANGED <<fixed, timer, mu, waiter, now, chans, wait>>
  BY DEF TimedInv, Types, LoopFires, ScheduleOK, Looker, clockVars
<1>2. tokens' \in Nat /\ tokens' <= tokens /\ since' = since
  BY <1>1, FireTokens
<1> QED
  BY <1>1, <1>2, LookMoves DEF LookOK

LEMMA LoopFiresOtherKeeps ==
  ASSUME TimedInv, LoopFiresOther
  PROVE  Kept /\ Starting' = Starting /\ tokens' = tokens
<1>1. /\ tokens \in Nat /\ loop \in Looker /\ look[loop].pc \in {"idle", "fire"}
      /\ LookAt(loop, "idle")
      /\ UNCHANGED <<fixed, timer, mu, waiter, now, chans, since, wait, tokens>>
  BY DEF TimedInv, Types, LoopFiresOther, Looker, clockVars
<1> QED
  BY <1>1, LookMoves

(* A step of a waiter goroutine.                                            *)
LEMMA WaiterKeeps ==
  ASSUME TimedInv, NEW w \in Waiter, NEW r \in WaiterRecord,
         waiter' = [waiter EXCEPT ![w] = r],
         r.pc = "await" => r.chan \in DOMAIN chans,
         r.pc = "ready" => since # Never /\ now >= Scheduled,
         UNCHANGED <<fixed, timer, mu, look, now, since, wait>>, SameChannels,
         tokens' \in Nat, tokens' <= tokens
  PROVE  Kept
<1>1. /\ now \in Nat /\ tokens \in Nat /\ look \in [Looker -> LookRecord]
      /\ waiter \in [Waiter -> WaiterRecord] /\ timer \in {0} \cup DOMAIN chans
  BY DEF TimedInv, Types
<1>2. Types'
  BY <1>1 DEF TimedInv, Types, SameChannels
<1>3. LockOK'
  BY DEF TimedInv, LockOK
<1>4. \A j \in Looker : LookOK(j)'
  BY <1>1, LookKept
<1>5. \A x \in Waiter : waiter'[x].pc = "ready" => since' # Never /\ now' >= Scheduled'
  BY <1>1 DEF TimedInv, ScheduleOK, Scheduled
<1>6. ScheduleOK'
  BY <1>1, <1>4, <1>5, ChannelsKept DEF TimedInv, ScheduleOK
<1> QED
  BY <1>2, <1>3, <1>6 DEF Kept

LEMMA WaiterStepKeeps ==
  ASSUME TimedInv, NEW w \in Waiter, WaiterStep(w)
  PROVE  Kept /\ (tokens' < tokens => now >= Scheduled)
<1>1. /\ now \in Nat /\ tokens \in Nat /\ timer \in {0} \cup DOMAIN chans
      /\ waiter \in [Waiter -> WaiterRecord] /\ waiter[w] \in WaiterRecord
      /\ NoWaiter \in WaiterRecord /\ NoWaiter.pc = "off"
      /\ \A i \in DOMAIN chans : i \in Nat
  BY DEF TimedInv, Types, NoWaiter, WaiterRecord, ClockInv, ClockTypeOK
<1>2. /\ UNCHANGED clockVars => SameChannels /\ now' = now
      /\ UNCHANGED netVars => tokens' \in Nat /\ tokens' <= tokens /\ ~(tokens' < tokens)
                              /\ since' = since
  BY <1>1 DEF clockVars, netVars, SameChannels
<1>3. CASE WaiterEnter(w)
  <2>1. CASE timer = 0 /\ Exit(w)
    BY <1>1, <1>2, <1>3, <2>1, WaiterKeeps DEF WaiterEnter, Exit
  <2>2. CASE timer # 0 /\ waiter' = [waiter EXCEPT ![w] = [pc |-> "await", chan |-> timer]]
    <3> DEFINE r == [pc |-> "await", chan |-> timer]
    <3>1. r \in WaiterRecord /\ r.pc = "await" /\ r.chan \in DOMAIN chans
      BY <1>1, <2>2 DEF WaiterRecord
    <3>2. waiter' = [waiter EXCEPT ![w] = r]
      BY <2>2
    <3> HIDE DEF r
    <3> QED
      BY <1>1, <1>2, <1>3, <3>1, <3>2, WaiterKeeps DEF WaiterEnter
  <2> QED
    BY <1>3, <2>1, <2>2 DEF WaiterEnter
<1>4. CASE WaiterWakes(w)
  <2>1. waiter[w].chan \in DOMAIN chans /\ Receive(waiter[w].chan)
    BY <1>4 DEF WaiterWakes, TimedInv, Types
  <2>2. since # Never /\ now >= Scheduled
    BY <2>1, ReadyIsDue DEF Receive
  <2>3. SameChannels /\ now' = now
    BY <2>1, ReceiveChannels
  <2> DEFINE r == [pc |-> "ready", chan |-> 0]
  <2>4. r \in WaiterRecord /\ r.pc = "ready"
    BY DEF WaiterRecord
  <2>5. waiter' = [waiter EXCEPT ![w] = r]
    BY <1>4 DEF WaiterWakes
  <2> HIDE DEF r
  <2>6. UNCHANGED <<fixed, timer, mu, look, wait>> /\ UNCHANGED netVars
    BY <1>4 DEF WaiterWakes
  <2> QED
    BY <1>1, <1>2, <2>2, <2>3, <2>4, <2>5, <2>6, WaiterKeeps
<1>5. CASE WaiterGivesUp(w)
  BY <1>1, <1>2, <1>5, WaiterKeeps DEF WaiterGivesUp, Exit
<1>6. CASE WaiterFires(w)
  <2>1. now >= Scheduled
    BY <1>6 DEF WaiterFires, TimedInv, ScheduleOK
  <2>2. tokens' \in Nat /\ tokens' <= tokens /\ since' = since
    BY <1>1, <1>6, FireTokens DEF WaiterFires
  <2> QED
    BY <1>1, <1>2, <1>6, <2>1, <2>2, WaiterKeeps DEF WaiterFires, Exit
<1> QED
  BY <1>3, <1>4, <1>5, <1>6 DEF WaiterStep
(* A move of the clock changes no deadline.                                 *)
LEMMA AdvanceChannels ==
  ASSUME TimedInv, NEW u \in Int, AdvanceTo(u)
  PROVE  SameChannels /\ now' = u /\ now' > now /\ now' \in Nat
<1>1. chans \in Seq(Channel) /\ now \in Nat /\ virtual \in BOOLEAN /\ now' = u /\ u > now
  BY DEF TimedInv, ClockInv, ClockTypeOK, Types, AdvanceTo
<1>2. chans' = [i \in DOMAIN chans |->
                  IF i \in timers /\ chans[i].deadline <= u THEN Fired(chans[i]) ELSE chans[i]]
  BY DEF AdvanceTo, FireTimersAndSleeps
<1>3. \A i \in DOMAIN chans : Fired(chans[i]).deadline = chans[i].deadline
  BY <1>1, FiredChannel
<1> QED
  BY <1>1, <1>2, <1>3 DEF SameChannels

(* The steps of the engine, the tokens, the clock and the wait tasks.       *)
LEMMA OtherStepsKeep ==
  ASSUME TimedInv,
         \/ Stop \/ LoopCancelled \/ StopDone \/ Start \/ CancelContext \/ PutToken
         \/ PutOther \/ TimePasses
         \/ \E s \in Sleeper : WaitBegin(s) \/ WaitStep(s)
  PROVE  Kept /\ tokens' >= tokens
<1>1. /\ now \in Nat /\ tokens \in Nat /\ since \in Int /\ since <= now
      /\ tokens > 0 => since # Never
      /\ wait \in [Sleeper -> WaitRecord]
      /\ At \in Nat /\ Lengths \subseteq Nat
  BY TimedTriggerAssumption DEF TimedInv, Types, ScheduleOK
<1>2. /\ UNCHANGED clockVars => SameChannels /\ now' = now /\ now' \in Nat /\ now' >= now
      /\ UNCHANGED netVars =>
           /\ tokens' \in Nat /\ tokens' >= tokens /\ since' = since
           /\ tokens' > 0 => since # Never
      /\ UNCHANGED trigVars => UNCHANGED <<fixed, timer, mu, look, waiter>>
  BY <1>1 DEF clockVars, netVars, trigVars, SameChannels
<1>3. CASE Stop \/ LoopCancelled \/ StopDone \/ Start \/ CancelContext \/ PutOther
  BY <1>1, <1>2, <1>3, OthersKeep DEF Stop, LoopCancelled, StopDone, Start, CancelContext, PutOther
<1>4. CASE PutToken
  <2>1. CASE since # Never
    <3>1. since' = since /\ tokens' \in Nat /\ tokens' >= tokens
      BY <1>1, <1>4, <2>1 DEF PutToken
    <3> QED
      BY <1>1, <1>2, <1>4, <2>1, <3>1, OthersKeep DEF PutToken
  <2>2. CASE since = Never
    <3>1. /\ since' = now /\ tokens' \in Nat /\ tokens' >= tokens /\ since' # Never
          /\ UNCHANGED <<fixed, timer, mu, look, waiter, wait, now, chans>>
      BY <1>1, <1>4, <2>2 DEF PutToken, Never, clockVars, trigVars
    <3>2. DOMAIN chans = {}
      BY <2>2 DEF TimedInv, ScheduleOK
    <3>3. /\ \A k \in Looker : look[k].pc \notin {"ask", "remaining", "after", "fire"}
          /\ \A w \in Waiter : waiter[w].pc # "ready"
      <4>1. ASSUME NEW k \in Looker
            PROVE  look[k].pc \notin {"ask", "remaining", "after", "fire"}
        <5>1. LookOK(k)
          BY DEF TimedInv, ScheduleOK
        <5>2. look[k].pc # "after"
          BY <2>2, <5>1 DEF LookOK
        <5> QED
          BY <2>2, <5>1, <5>2 DEF LookOK
      <4> QED
        BY <2>2, <4>1 DEF TimedInv, ScheduleOK
    <3>4. Types'
      BY <1>1, <3>1 DEF TimedInv, Types
    <3>5. LockOK'
      BY <3>1 DEF TimedInv, LockOK
    <3>6. ScheduleOK'
      BY <1>1, <3>1, <3>2, <3>3 DEF ScheduleOK, LookOK
    <3> QED
      BY <3>1, <3>4, <3>5, <3>6 DEF Kept
  <2> QED
    BY <2>1, <2>2
<1>5. CASE TimePasses
  <2>1. PICK u \in Int : AdvanceTo(u)
    BY <1>1, <1>5, TimedTriggerAssumption DEF TimePasses
  <2>2. SameChannels /\ now' \in Nat /\ now' >= now
    BY <1>1, <2>1, AdvanceChannels
  <2>3. wait' \in [Sleeper -> WaitRecord]
    <3>1. ASSUME NEW s \in Sleeper
          PROVE  [wait[s] EXCEPT !.moved = @ \/ wait[s].pc = "planned"] \in WaitRecord
      <4>1. wait[s] \in WaitRecord
        BY <1>1
      <4>2. (wait[s].moved \/ wait[s].pc = "planned") \in BOOLEAN
        OBVIOUS
      <4> QED
        BY <4>1, <4>2 DEF WaitRecord
    <3> QED
      BY <1>5, <3>1 DEF TimePasses
  <2> QED
    BY <1>1, <1>2, <1>5, <2>2, <2>3, OthersKeep DEF TimePasses
<1>6. CASE \E s \in Sleeper : WaitBegin(s) \/ WaitStep(s)
  <2>1. PICK s \in Sleeper : WaitBegin(s) \/ WaitStep(s)
    BY <1>6
  <2>2. /\ SameChannels /\ now' = now /\ UNCHANGED trigVars /\ UNCHANGED netVars
    BY <1>2, <2>1
    DEF WaitBegin, WaitStep, WaitSleeps, WaitWakes, WaitCancelled, Sleep, Wake, SameChannels
  <2>3. wait' \in [Sleeper -> WaitRecord]
    <3>1. CASE WaitBegin(s)
      <4>1. PICK due \in {At} \cup {now + d : d \in Lengths} :
              wait' = [wait EXCEPT ![s] = [pc |-> IF due > now THEN "planned" ELSE "over",
                                           d |-> due - now, due |-> due, moved |-> FALSE]]
        BY <3>1 DEF WaitBegin
      <4>2. due \in Int /\ due - now \in Int
        BY <1>1
      <4>3. [pc |-> IF due > now THEN "planned" ELSE "over",
             d |-> due - now, due |-> due, moved |-> FALSE] \in WaitRecord
        BY <4>2 DEF WaitRecord
      <4> QED
        BY <1>1, <4>1, <4>3
    <3>2. ASSUME NEW pc \in {"sleeping", "over"}, wait' = [wait EXCEPT ![s].pc = pc]
          PROVE  wait' \in [Sleeper -> WaitRecord]
      <4>1. wait[s] \in WaitRecord
        BY <1>1
      <4>2. [wait[s] EXCEPT !.pc = pc] \in WaitRecord
        BY <4>1 DEF WaitRecord
      <4> QED
        BY <1>1, <3>2, <4>2
    <3> QED
      BY <2>1, <3>1, <3>2 DEF WaitStep, WaitSleeps, WaitWakes, WaitCancelled
  <2> QED
    BY <1>1, <1>2, <2>2, <2>3, OthersKeep
<1> QED
  BY <1>3, <1>4, <1>5, <1>6

(* What the users do with the clock is what a clock allows.                 *)
LEMMA ClockStep ==
  ASSUME TimedInv, Next
  PROVE  [ClockNext]_clockVars
<1>1. now \in Nat /\ timer \in {0} \cup DOMAIN chans /\ At \in Int /\ Lengths \subseteq Int
  BY TimedTriggerAssumption DEF TimedInv, Types
<1>2. ASSUME NEW k \in Looker, Looks(k) PROVE [ClockNext]_clockVars
  <2>1. CASE Poll(k)
    BY <1>1, <2>1 DEF Poll, ClockNext
  <2>2. CASE FindsEnabled(k) \/ ReadDeadline(k) \/ ReadRemaining(k)
    BY <2>2 DEF FindsEnabled, ReadDeadline, ReadRemaining
  <2>3. CASE StartTimer(k)
    <3>1. look[k].remaining \in Int
      BY DEF TimedInv, Types, LookRecord
    <3> QED
      BY <2>3, <3>1 DEF StartTimer, ClockNext
  <2> QED
    BY <1>2, <2>1, <2>2, <2>3 DEF Looks
<1>3. ASSUME NEW w \in Waiter, WaiterStep(w) PROVE [ClockNext]_clockVars
  <2>1. CASE WaiterWakes(w)
    BY <2>1 DEF WaiterWakes, TimedInv, Types, ClockNext
  <2>2. CASE WaiterEnter(w) \/ WaiterGivesUp(w) \/ WaiterFires(w)
    BY <2>2 DEF WaiterEnter, WaiterGivesUp, WaiterFires
  <2> QED
    BY <1>3, <2>1, <2>2 DEF WaiterStep
<1>4. CASE TimePasses
  <2>1. PICK u \in Int : AdvanceTo(u)
    BY <1>1, <1>4, TimedTriggerAssumption DEF TimePasses
  <2> QED
    BY <2>1 DEF ClockNext
<1>5. ASSUME NEW s \in Sleeper, WaitBegin(s) \/ WaitStep(s) PROVE [ClockNext]_clockVars
  <2>1. CASE WaitSleeps(s)
    <3>1. wait[s].d \in Int
      BY DEF TimedInv, Types, WaitRecord
    <3> QED
      BY <2>1, <3>1 DEF WaitSleeps, ClockNext
  <2>2. CASE WaitWakes(s)
    BY <2>2 DEF WaitWakes, ClockNext
  <2>3. CASE WaitBegin(s) \/ WaitCancelled(s)
    BY <2>3 DEF WaitBegin, WaitCancelled
  <2> QED
    BY <1>5, <2>1, <2>2, <2>3 DEF WaitStep
<1>6. CASE \/ LoopFires \/ LoopFiresOther \/ Stop \/ LoopCancelled \/ StopDone \/ Start
           \/ CancelContext \/ PutToken \/ PutOther
  BY <1>6 DEF LoopFires, LoopFiresOther, Stop, LoopCancelled, StopDone, Start, CancelContext,
              PutToken, PutOther
<1> QED
  BY <1>2, <1>3, <1>4, <1>5, <1>6 DEF Next

LEMMA TimedInit == Init => TimedInv
<1> SUFFICES ASSUME Init PROVE TimedInv
  OBVIOUS
<1>1. ClockInv
  BY ClockInitInv DEF Init
<1>2. /\ fixed \in BOOLEAN /\ timer = 0 /\ mu = None /\ now = 0 /\ DOMAIN chans = {}
      /\ tokens = 0 /\ since = Never
  BY DEF Init, ClockInit
<1>3. /\ NotLooking \in LookRecord /\ NotLooking.pc = "idle"
      /\ NoWaiter \in WaiterRecord /\ NoWaiter.pc = "off"
      /\ NoWait \in WaitRecord
  BY DEF NotLooking, LookRecord, NoWaiter, WaiterRecord, NoWait, WaitRecord
<1>4. /\ look \in [Looker -> LookRecord] /\ \A k \in Looker : look[k].pc = "idle"
      /\ waiter \in [Waiter -> WaiterRecord] /\ \A w \in Waiter : waiter[w].pc = "off"
      /\ wait \in [Sleeper -> WaitRecord]
  BY <1>3 DEF Init
<1>5. Types
  BY <1>2, <1>4 DEF Types, Never
<1>6. LockOK
  BY <1>2, <1>4, TimedTriggerAssumption DEF LockOK
<1>7. ScheduleOK
  BY <1>2, <1>4 DEF ScheduleOK, LookOK, Never
<1> QED
  BY <1>1, <1>5, <1>6, <1>7 DEF TimedInv

LEMMA TimedStep == TimedInv /\ [Next]_vars => TimedInv' /\ (tokens' < tokens => now >= Scheduled)
<1> SUFFICES ASSUME TimedInv, [Next]_vars
             PROVE  TimedInv' /\ (tokens' < tokens => now >= Scheduled)
  OBVIOUS
<1>1. CASE Next
  <2>1. Kept /\ (tokens' < tokens => now >= Scheduled)
    <3>1. now \in Nat /\ tokens \in Nat
      BY DEF TimedInv, Types
    <3>2. ASSUME NEW k \in Looker, Looks(k) PROVE Kept /\ ~(tokens' < tokens)
      <4>1. Kept
        BY <3>2, FindsEnabledKeeps, PollKeeps, ReadDeadlineKeeps, ReadRemainingKeeps,
           StartTimerKeeps DEF Looks
      <4>2. tokens' = tokens
        BY <3>2 DEF Looks, FindsEnabled, Poll, ReadDeadline, ReadRemaining, StartTimer, netVars
      <4> QED
        BY <3>1, <4>1, <4>2
    <3>3. CASE LoopFires \/ LoopFiresOther
      BY <3>1, <3>3, LoopFiresKeeps, LoopFiresOtherKeeps
    <3>4. ASSUME NEW w \in Waiter, WaiterStep(w)
          PROVE  Kept /\ (tokens' < tokens => now >= Scheduled)
      BY <3>4, WaiterStepKeeps
    <3>5. CASE \/ Stop \/ LoopCancelled \/ StopDone \/ Start \/ CancelContext \/ PutToken
               \/ PutOther \/ TimePasses
               \/ \E s \in Sleeper : WaitBegin(s) \/ WaitStep(s)
      <4>1. Kept /\ tokens' >= tokens
        BY <3>5, OtherStepsKeep
      <4>2. tokens' \in Nat
        BY <4>1 DEF Kept, Types
      <4> QED
        BY <3>1, <4>1, <4>2
    <3> QED
      BY <1>1, <3>2, <3>3, <3>4, <3>5 DEF Next
  <2>2. [ClockNext]_clockVars
    BY <1>1, ClockStep
  <2>3. ClockInv'
    BY <2>2, ClockInvStep DEF TimedInv
  <2> QED
    BY <2>1, <2>3 DEF Kept, TimedInv
<1>2. CASE UNCHANGED vars
  <2>1. tokens' = tokens /\ tokens \in Nat
    BY <1>2 DEF vars, netVars, TimedInv, Types
  <2>2. TimedInv'
    <3>1. ClockInv'
      BY <1>2, ClockInvStep DEF vars, TimedInv
    <3>2. Kept
      BY <1>2
      DEF vars, clockVars, trigVars, engineVars, netVars, TimedInv, Kept, Types, LockOK,
          ScheduleOK, LookOK, Scheduled
    <3> QED
      BY <3>1, <3>2 DEF Kept, TimedInv
  <2> QED
    BY <2>1, <2>2
<1> QED
  BY <1>1, <1>2

(* Whoever fires, the loop or a waiter, also one that waits for a timer that *)
(* Cancel has forgotten, and wherever the clock moves between the two looks  *)
(* that the first ShouldFire takes at it: no firing comes before the time of *)
(* At, or before a Delay has passed since the transition was enabled.        *)
THEOREM NeverFiresEarly == Spec => NeverEarly
<1>1. TimedInv /\ [Next]_vars => [tokens' < tokens => now >= IF fixed THEN At ELSE since + Delay]_vars
  BY TimedStep DEF Scheduled
<1>2. TimedInv /\ [Next]_vars => TimedInv'
  BY TimedStep
<1> QED
  BY <1>1, <1>2, TimedInit, PTL DEF Spec, NeverEarly

(* The clock of the program stays consistent under these users as well.     *)
THEOREM ClockOfTheUsers == Spec => []ClockOK
<1>1. TimedInv => ClockOK
  BY DEF TimedInv, ClockInv
<1>2. TimedInv /\ [Next]_vars => TimedInv'
  BY TimedStep
<1> QED
  BY <1>1, <1>2, TimedInit, PTL DEF Spec

-----------------------------------------------------------------------------
(* The trigger of Engine.  What Trigger sees of this one: whether it has a  *)
(* timer, whether a tick waits in it, whether its time has come.            *)

BarChan == IF timer # 0 \/ Starting THEN "open" ELSE "nil"

BarFull == timer # 0 /\ Ready(timer)

BarPast == IF timer # 0 THEN chans[timer].ticks > 0 ELSE ~Starting /\ fixed /\ now >= At

NotReady == FALSE

Nobody == {}

Seen(c, full, past) ==
  [chan |-> c, full |-> full, ready |-> NotReady, by |-> Nobody, past |-> past]

WithChan(r, d) == [r EXCEPT !.chan = d]

WithFull(r, d) == [r EXCEPT !.full = d]

WithPast(r, d) == [r EXCEPT !.past = d]

LEMMA SeenFields ==
  ASSUME NEW c, NEW full, NEW past, NEW d
  PROVE  /\ Seen(c, full, past).chan = c
         /\ Seen(c, full, past).full = full
         /\ Seen(c, full, past).past = past
         /\ WithChan(Seen(c, full, past), d) = Seen(d, full, past)
         /\ WithFull(Seen(c, full, past), d) = Seen(c, d, past)
         /\ WithPast(Seen(c, full, past), d) = Seen(c, full, d)
BY DEF Seen, WithChan, WithFull, WithPast

Before(c, full, past) == trigBar = [x \in {t} |-> Seen(c, full, past)]

After1(c, full, past) == trigBar' = [x \in {t} |-> Seen(c, full, past)]

LEMMA WhatIsSeen ==
  Before(BarChan, BarFull, BarPast) /\ After1(BarChan', BarFull', BarPast')
BY Zenon DEF trigBar, Before, After1, Seen, NotReady, Nobody, BarChan, BarFull, BarPast

LEMMA SeenBefore ==
  ASSUME NEW c, NEW full, NEW past, Before(c, full, past)
  PROVE  /\ trigBar[t] = Seen(c, full, past)
         /\ trigBar[t].chan = c /\ trigBar[t].full = full /\ trigBar[t].past = past
         /\ DOMAIN trigBar = {t} /\ trigBar = [x \in {t} |-> trigBar[x]]
<1>1. DOMAIN trigBar = {t} /\ trigBar = [x \in {t} |-> trigBar[x]] /\ trigBar[t] = Seen(c, full, past)
  BY DEF Before
<1> QED
  BY <1>1, SeenFields

LEMMA SeenAfter ==
  ASSUME NEW c, NEW full, NEW past, NEW r, r = Seen(c, full, past), After1(c, full, past),
         DOMAIN trigBar = {t}, trigBar = [x \in {t} |-> trigBar[x]]
  PROVE  trigBar' = [trigBar EXCEPT ![t] = r] /\ trigBar' = [x \in {t} |-> r]
BY DEF After1

(* The second and later ShouldFire take the tick, if there is one.          *)
LEMMA Asks ==
  ASSUME NEW v \in BOOLEAN, NEW f \in {{}, {t}}, NEW full, NEW past, NEW full1,
         Before("open", full, past), After1("open", full1, past), full1 = (v /\ full)
  PROVE  Abstract(v, f)!AskShouldFire(t)
<1>1. PICK a : a = trigBar[t]
  OBVIOUS
<1> DEFINE r == Abstract(v, f)!AfterShouldFire(t)
<1>2. a = Seen("open", full, past)
  BY <1>1, SeenBefore
<1>3. r = WithFull(a, full1)
  BY <1>1, SeenBefore DEF Abstract!AfterShouldFire, Abstract!LeftInTimer, WithFull
<1>4. WithFull(a, full1) = Seen("open", full1, past)
  BY ONLY <1>2, SeenFields
<1> HIDE DEF r
<1>5. trigBar' = [trigBar EXCEPT ![t] = r]
  BY <1>3, <1>4, SeenBefore, SeenAfter
<1> QED
  BY <1>5 DEF r, Abstract!AskShouldFire

(* The first one starts the timer.                                          *)
LEMMA AsksFirst ==
  ASSUME NEW v \in BOOLEAN, NEW f \in {{}, {t}}, NEW full, NEW past, NEW no, no = FALSE,
         Before("nil", full, past), After1("open", no, no), ~(f # {} /\ past)
  PROVE  Abstract(v, f)!AskShouldFire(t)
<1>1. PICK a : a = trigBar[t]
  OBVIOUS
<1> DEFINE r == Abstract(v, f)!AfterShouldFire(t)
<1>2. a = Seen("nil", full, past)
  BY <1>1, SeenBefore
<1>3. ~Abstract(v, f)!ShouldFire(t)
  BY SeenBefore DEF Abstract!ShouldFire
<1>4. r = WithPast(WithFull(WithChan(a, "open"), no), no)
  BY <1>1, <1>3, SeenBefore DEF Abstract!AfterShouldFire, WithChan, WithFull, WithPast
<1>5. WithPast(WithFull(WithChan(a, "open"), no), no) = Seen("open", no, no)
  BY ONLY <1>2, SeenFields
<1> HIDE DEF r
<1>6. trigBar' = [trigBar EXCEPT ![t] = r]
  BY <1>4, <1>5, SeenBefore, SeenAfter
<1> QED
  BY <1>6 DEF r, Abstract!AskShouldFire

LEMMA Wakes ==
  ASSUME NEW v \in BOOLEAN, NEW f \in {{}, {t}}, NEW full, NEW past,
         Before("open", full, past), After1("open", v, past), full
  PROVE  Abstract(v, f)!CanWake(t) /\ Abstract(v, f)!Wake(t)
<1>1. PICK a : a = trigBar[t]
  OBVIOUS
<1> DEFINE r == WithFull(a, v)
<1>2. /\ a = Seen("open", full, past) /\ After1("open", v, past)
      /\ DOMAIN trigBar = {t} /\ trigBar = [x \in {t} |-> trigBar[x]]
  BY <1>1, SeenBefore
<1>3. r = Seen("open", v, past)
  BY ONLY <1>2, SeenFields
<1>4. Abstract(v, f)!LeftInTimer(t) = v /\ Abstract(v, f)!CanWake(t)
  BY SeenBefore DEF Abstract!LeftInTimer, Abstract!CanWake
<1> HIDE DEF r
<1>5. trigBar' = [trigBar EXCEPT ![t] = r]
  BY ONLY <1>2, <1>3, SeenAfter
<1>6. Abstract(v, f)!Wake(t)
  BY <1>1, <1>4, <1>5 DEF r, WithFull, Abstract!Wake
<1> QED
  BY <1>4, <1>6

(* A timer rings; the time of At comes while there is no timer.             *)
LEMMA RingsTimer ==
  ASSUME NEW v \in BOOLEAN, NEW f \in {{}, {t}}, NEW full, NEW no, NEW yes, no = FALSE, yes = TRUE,
         Before("open", full, no), After1("open", yes, yes)
  PROVE  Abstract(v, f)!Ring(t)
<1>1. PICK a : a = trigBar[t]
  OBVIOUS
<1> DEFINE r == WithPast(WithFull(a, yes), yes)
<1>2. /\ a = Seen("open", full, no) /\ After1("open", yes, yes)
      /\ DOMAIN trigBar = {t} /\ trigBar = [x \in {t} |-> trigBar[x]]
  BY <1>1, SeenBefore
<1>3. r = Seen("open", yes, yes)
  BY ONLY <1>2, SeenFields
<1> HIDE DEF r
<1>4. trigBar' = [trigBar EXCEPT ![t] = r]
  BY ONLY <1>2, <1>3, SeenAfter
<1>5. trigBar[t].chan = "open" /\ ~trigBar[t].past
  BY SeenBefore
<1>6. yes = (trigBar[t].chan = "open")
  BY <1>5
<1> QED
  BY <1>1, <1>4, <1>5, <1>6 DEF r, WithFull, WithPast, Abstract!Ring

LEMMA RingsFixed ==
  ASSUME NEW v \in BOOLEAN, NEW f \in {{}, {t}}, NEW full, NEW no, NEW yes, no = FALSE, yes = TRUE,
         f # {}, Before("nil", full, no), After1("nil", no, yes)
  PROVE  Abstract(v, f)!Ring(t)
<1>1. PICK a : a = trigBar[t]
  OBVIOUS
<1> DEFINE r == WithPast(WithFull(a, no), yes)
<1>2. /\ a = Seen("nil", full, no) /\ After1("nil", no, yes)
      /\ DOMAIN trigBar = {t} /\ trigBar = [x \in {t} |-> trigBar[x]]
  BY <1>1, SeenBefore
<1>3. r = Seen("nil", no, yes)
  BY ONLY <1>2, SeenFields
<1> HIDE DEF r
<1>4. trigBar' = [trigBar EXCEPT ![t] = r]
  BY ONLY <1>2, <1>3, SeenAfter
<1>5. trigBar[t].chan = "nil" /\ ~trigBar[t].past
  BY SeenBefore
<1>6. no = (trigBar[t].chan = "open")
  BY <1>5
<1> QED
  BY <1>1, <1>4, <1>5, <1>6 DEF r, WithFull, WithPast, Abstract!Ring

(* Cancel forgets the timer, and with it that a Delay has run out.          *)
LEMMA Cancels ==
  ASSUME NEW v \in BOOLEAN, NEW f \in {{}, {t}}, NEW c, NEW full, NEW past, NEW no, NEW past1,
         Before(c, full, past), After1("nil", no, past1), no = FALSE,
         past1 = (past /\ f # {})
  PROVE  Abstract(v, f)!Cancel({t})
<1>1. PICK a : a = trigBar[t]
  OBVIOUS
<1> DEFINE r == Abstract(v, f)!Cancelled(t)
<1>2. a = Seen(c, full, past)
  BY <1>1, SeenBefore
<1>3. r = WithPast(WithFull(WithChan(a, "nil"), no), past1)
  <2>1. (a.past /\ t \in f) = past1
    BY <1>1, SeenBefore
  <2> QED
    BY <1>1, <2>1 DEF Abstract!Cancelled, WithChan, WithFull, WithPast
<1>4. WithPast(WithFull(WithChan(a, "nil"), no), past1) = Seen("nil", no, past1)
  BY ONLY <1>2, SeenFields
<1> HIDE DEF r
<1>5. trigBar' = [x \in {t} |-> r]
  BY <1>3, <1>4, SeenBefore, SeenAfter
<1> QED
  BY <1>5 DEF r, Abstract!Cancel

LEMMA CancelsLate ==
  ASSUME NEW v \in BOOLEAN, NEW f \in {{}, {t}}, NEW c, NEW full, NEW past, NEW no, NEW yes,
         Before(c, full, past), After1("nil", no, yes), no = FALSE, yes = TRUE
  PROVE  trigBar' = [x \in {t} |-> [Abstract(v, f)!Cancelled(x) EXCEPT !.past = TRUE]]
<1>1. PICK a : a = trigBar[t]
  OBVIOUS
<1>2. PICK b : b = Abstract(v, f)!Cancelled(t)
  OBVIOUS
<1>3. PICK p : p = (trigBar[t].past /\ t \in f)
  OBVIOUS
<1> DEFINE r == WithPast(b, yes)
<1>4. /\ a = Seen(c, full, past) /\ After1("nil", no, yes)
      /\ DOMAIN trigBar = {t} /\ trigBar = [x \in {t} |-> trigBar[x]]
  BY <1>1, SeenBefore
<1>5. b = WithPast(WithFull(WithChan(a, "nil"), no), p)
  BY <1>1, <1>2, <1>3 DEF Abstract!Cancelled, WithChan, WithFull, WithPast
<1>6. b = Seen("nil", no, p)
  BY ONLY <1>4, <1>5, SeenFields
<1>7. r = Seen("nil", no, yes)
  BY ONLY <1>6, SeenFields
<1> HIDE DEF r
<1>8. trigBar' = [x \in {t} |-> r]
  BY ONLY <1>4, <1>7, SeenAfter
<1> QED
  BY <1>2, <1>8 DEF r, WithPast

(* The trigger does not see what leaves its timer, the clock and the mutex  *)
(* alone.                                                                   *)
LEMMA SameSeen ==
  ASSUME BarChan' = BarChan, BarFull' = BarFull, BarPast' = BarPast
  PROVE  trigBar' = trigBar
BY WhatIsSeen DEF Before, After1

LEMMA NothingSeen ==
  ASSUME UNCHANGED <<timer, fixed, now, chans>>, Starting' = Starting
  PROVE  trigBar' = trigBar
<1>1. BarChan' = BarChan
  BY DEF BarChan
<1>2. BarFull' = BarFull
  BY DEF BarFull, Ready
<1>3. BarPast' = BarPast
  BY DEF BarPast
<1> QED
  BY <1>1, <1>2, <1>3, SameSeen

LEMMA SameStarting ==
  ASSUME UNCHANGED look
  PROVE  Starting' = Starting
BY DEF Starting

(* Only the holder of the mutex starts a timer, and only when there is none. *)
LEMMA StartingLocks ==
  ASSUME TimedInv
  PROVE  /\ Starting => mu # None /\ timer = 0
         /\ \A k \in Looker : mu = k => (Starting <=> look[k].pc = "after")
<1>1. \A k \in Looker : look[k].pc \in {"remaining", "after"} <=> mu = k
  BY DEF TimedInv, LockOK
<1>2. mu # None => timer = 0
  BY DEF TimedInv, LockOK
<1>3. \A k \in Looker : k # None
  BY TimedTriggerAssumption
<1> QED
  BY <1>1, <1>2, <1>3 DEF Starting

LEMMA OfTheTimer ==
  ASSUME TimedInv, timer # 0
  PROVE  /\ timer \in DOMAIN chans /\ chans \in Seq(Channel) /\ chans[timer] \in Channel
         /\ ~Starting /\ BarChan = "open"
         /\ timer \in timers <=> chans[timer].deadline > now
         /\ chans[timer].ticks = IF timer \in timers THEN 0 ELSE 1
         /\ chans[timer].closed <=> (virtual /\ timer \notin timers)
         /\ chans[timer].full => timer \notin timers
         /\ BarPast <=> timer \notin timers
<1>1. timer \in DOMAIN chans /\ chans \in Seq(Channel) /\ chans[timer] \in Channel
  BY DEF TimedInv, Types, ClockInv, ClockTypeOK
<1>2. /\ timer \in timers <=> chans[timer].deadline > now
      /\ chans[timer].ticks = IF timer \in timers THEN 0 ELSE 1
      /\ chans[timer].closed <=> (virtual /\ timer \notin timers)
      /\ chans[timer].full => timer \notin timers
  BY <1>1 DEF TimedInv, ClockInv, ClockOK, TimersOK
<1>3. ~Starting
  BY StartingLocks
<1>4. BarPast <=> timer \notin timers
  BY <1>2 DEF BarPast
<1> QED
  BY <1>1, <1>2, <1>3, <1>4 DEF BarChan

(* A receive from the timer takes the tick, unless the channel is closed,   *)
(* which the virtual clock has done.                                        *)
LEMMA TickTaken ==
  ASSUME TimedInv, timer # 0, Receive(timer), timer' = timer, NEW v \in BOOLEAN, virtual = v
  PROVE  /\ BarFull /\ BarFull' = v
         /\ Before("open", BarFull, BarPast) /\ After1("open", v, BarPast)
<1>1. /\ timer \in DOMAIN chans /\ chans \in Seq(Channel) /\ chans[timer] \in Channel
      /\ Ready(timer) /\ BarChan = "open"
      /\ chans' = [chans EXCEPT ![timer].full = FALSE] /\ virtual' = virtual
  BY OfTheTimer DEF Receive
<1>2. timer \notin timers
  BY <1>1, OfTheTimer DEF Ready
<1> DEFINE c == [chans[timer] EXCEPT !.full = FALSE]
<1>3. /\ c.full = FALSE /\ c.closed = chans[timer].closed /\ c.ticks = chans[timer].ticks
      /\ chans' = [chans EXCEPT ![timer] = c]
  BY <1>1 DEF Channel
<1> HIDE DEF c
<1>4. chans'[timer] = c
  BY <1>1, <1>3
<1>5. BarFull' = v
  BY <1>2, <1>3, <1>4, OfTheTimer DEF BarFull, Ready
<1>6. BarPast' = BarPast
  BY <1>3, <1>4 DEF BarPast
<1>7. BarChan' = "open"
  BY DEF BarChan
<1>8. BarFull
  BY <1>1 DEF BarFull
<1>9. Before("open", BarFull, BarPast) /\ After1("open", v, BarPast)
  BY <1>1, <1>5, <1>6, <1>7, WhatIsSeen
<1> QED
  BY <1>5, <1>8, <1>9

LEMMA PollSeen ==
  ASSUME TimedInv, NEW k \in Looker, Poll(k), NEW v \in BOOLEAN, NEW f \in {{}, {t}}, virtual = v
  PROVE  Abstract(v, f)!AskShouldFire(t) \/ trigBar' = trigBar
<1>1. timer # 0 /\ timer' = timer /\ fixed' = fixed /\ look[k].pc = "ask"
  BY DEF Poll
<1>2. CASE Receive(timer)
  <2>1. /\ BarFull /\ Before("open", BarFull, BarPast) /\ After1("open", v, BarPast)
    BY <1>1, <1>2, TickTaken
  <2>2. v = (v /\ BarFull)
    BY <2>1
  <2> QED
    BY <2>1, <2>2, Asks
<1>3. CASE No(k) /\ UNCHANGED clockVars
  <2>1. Starting' = Starting
    <3>1. ~Starting
      BY <1>1, StartingLocks
    <3>2. \A j \in Looker : look'[j].pc # "after"
      BY <1>3, <3>1, NoTypes DEF TimedInv, Starting
    <3> QED
      BY <3>1, <3>2 DEF Starting
  <2> QED
    BY <1>1, <1>3, <2>1, NothingSeen DEF clockVars
<1> QED
  BY <1>2, <1>3 DEF Poll

LEMMA ReadDeadlineSeen ==
  ASSUME TimedInv, NEW k \in Looker, ReadDeadline(k)
  PROVE  trigBar' = trigBar
<1>1. look[k].pc = "ask" /\ mu = None /\ UNCHANGED <<timer, fixed, now, chans>>
  BY DEF ReadDeadline, clockVars
<1>2. ~Starting
  BY <1>1, StartingLocks
<1>3. \A j \in Looker : look'[j].pc # "after"
  BY <1>2 DEF ReadDeadline, Starting, TimedInv, Types, LookRecord
<1>4. Starting' = Starting
  BY <1>2, <1>3 DEF Starting
<1> QED
  BY <1>1, <1>4, NothingSeen

(* The timer starts, as the engine sees it, when the remaining time is read. *)
LEMMA ReadRemainingSeen ==
  ASSUME TimedInv, NEW k \in Looker, ReadRemaining(k),
         NEW v \in BOOLEAN, NEW f \in {{}, {t}}, fixed = (f # {})
  PROVE  Abstract(v, f)!AskShouldFire(t) \/ trigBar' = trigBar
<1>1. /\ look[k].pc = "remaining" /\ mu = k /\ timer = 0 /\ ~Starting
      /\ look[k] \in LookRecord /\ now \in Nat /\ k # None /\ look \in [Looker -> LookRecord]
  <2>1. look[k].pc = "remaining"
    BY DEF ReadRemaining
  <2>2. mu = k /\ k # None
    BY <2>1, TimedTriggerAssumption DEF TimedInv, LockOK
  <2> QED
    BY <2>1, <2>2, StartingLocks DEF TimedInv, LockOK, Types
<1>2. UNCHANGED <<timer, fixed, now, chans>>
  BY DEF ReadRemaining, clockVars
<1>3. CASE Yes(k)
  <2>1. \A j \in Looker : look'[j].pc # "after"
    BY <1>1, <1>3, YesTypes DEF TimedInv, Starting
  <2> QED
    BY <1>1, <1>2, <2>1, NothingSeen DEF Starting
<1>4. CASE look[k].deadline - now > 0 /\ look'[k].pc = "after"
  <2>1. Starting'
    BY <1>4 DEF Starting
  <2>2. BarChan = "nil" /\ BarChan' = "open"
    BY <1>1, <2>1 DEF BarChan
  <2>3. PICK no : no = FALSE
    OBVIOUS
  <2>4. BarFull' = no /\ BarPast' = no
    BY <1>1, <1>2, <2>1, <2>3 DEF BarFull, BarPast
  <2>5. ~(f # {} /\ BarPast)
    <3>1. fixed => look[k].deadline = At
      BY <1>1 DEF TimedInv, ScheduleOK, LookOK
    <3> QED
      BY <1>1, <1>4, <3>1, TimedTriggerAssumption DEF BarPast
  <2>6. Before("nil", BarFull, BarPast) /\ After1("open", no, no)
    BY <2>2, <2>4, WhatIsSeen
  <2> QED
    BY <2>3, <2>5, <2>6, AsksFirst
<1>5. Yes(k) \/ (look[k].deadline - now > 0 /\ look'[k].pc = "after")
  <2>1. CASE look[k].deadline - now <= 0
    BY <2>1 DEF ReadRemaining
  <2>2. CASE look[k].deadline - now > 0
    <3>1. look[k].deadline \in Int
      BY <1>1 DEF LookRecord
    <3>2. ~(look[k].deadline - now <= 0)
      BY <1>1, <2>2, <3>1
    <3>3. look'[k].pc = "after"
      BY <1>1, <3>2 DEF ReadRemaining, LookRecord
    <3> QED
      BY <2>2, <3>3
  <2>3. look[k].deadline \in Int
    BY <1>1 DEF LookRecord
  <2> QED
    BY <1>1, <2>1, <2>2, <2>3
<1> QED
  BY <1>3, <1>4, <1>5

LEMMA StartTimerSeen ==
  ASSUME TimedInv, NEW k \in Looker, StartTimer(k)
  PROVE  trigBar' = trigBar
<1>1. /\ timer' # 0 /\ timer = 0 /\ look[k].pc = "after" /\ No(k)
      /\ chans'[timer'] = NewChannel(now + look[k].remaining)
  BY StartTimerChannel DEF StartTimer
<1>2. Starting
  BY <1>1 DEF Starting
<1>3. BarChan = "open" /\ BarChan' = "open"
  BY <1>1, <1>2 DEF BarChan
<1>4. BarFull' = BarFull
  BY <1>1 DEF BarFull, Ready, NewChannel
<1>5. BarPast' = BarPast
  BY <1>1, <1>2 DEF BarPast, NewChannel
<1> QED
  BY <1>3, <1>4, <1>5, SameSeen

LEMMA WaiterSeen ==
  ASSUME TimedInv, NEW w \in Waiter, WaiterStep(w),
         NEW v \in BOOLEAN, NEW f \in {{}, {t}}, virtual = v
  PROVE  (Abstract(v, f)!CanWake(t) /\ Abstract(v, f)!Wake(t)) \/ trigBar' = trigBar
<1>1. UNCHANGED <<timer, fixed, look>>
  BY DEF WaiterStep, WaiterEnter, WaiterWakes, WaiterGivesUp, WaiterFires
<1>2. Starting' = Starting
  BY <1>1, SameStarting
<1>3. CASE WaiterEnter(w) \/ WaiterGivesUp(w) \/ WaiterFires(w)
  <2>1. UNCHANGED <<now, chans>>
    BY <1>3 DEF WaiterEnter, WaiterGivesUp, WaiterFires, clockVars
  <2> QED
    BY <1>1, <1>2, <2>1, NothingSeen
<1>4. CASE WaiterWakes(w)
  <2>1. PICK i \in DOMAIN chans : i = waiter[w].chan /\ Receive(i)
    BY <1>4 DEF WaiterWakes, TimedInv, Types
  <2>2. i # 0
    BY DEF TimedInv, ClockInv, ClockTypeOK
  <2>3. CASE i = timer
    BY <1>1, <2>1, <2>2, <2>3, TickTaken, Wakes
  <2>4. CASE i # timer
    <3>1. /\ chans' = [chans EXCEPT ![i].full = FALSE] /\ now' = now /\ chans \in Seq(Channel)
          /\ timer # 0 => timer \in DOMAIN chans
      BY <2>1 DEF Receive, TimedInv, ClockInv, ClockTypeOK, Types
    <3>2. timer # 0 => chans'[timer] = chans[timer]
      BY <2>4, <3>1
    <3>3. BarChan' = BarChan
      BY <1>1, <1>2 DEF BarChan
    <3>4. BarFull' = BarFull
      BY <1>1, <3>2 DEF BarFull, Ready
    <3>5. BarPast' = BarPast
      BY <1>1, <1>2, <3>1, <3>2 DEF BarPast
    <3> QED
      BY <3>3, <3>4, <3>5, SameSeen
  <2> QED
    BY <2>3, <2>4
<1> QED
  BY <1>3, <1>4 DEF WaiterStep

(* Stop forgets a timer; the time of At may have come before that of a      *)
(* timer that was made late.                                                *)
LEMMA StopSeen ==
  ASSUME TimedInv, Stop, NEW v \in BOOLEAN, NEW f \in {{}, {t}}, fixed = (f # {})
  PROVE  \/ Abstract(v, f)!Cancel({t})
         \/ f # {} /\ trigBar' = [x \in {t} |-> [Abstract(v, f)!Cancelled(x) EXCEPT !.past = TRUE]]
         \/ trigBar' = trigBar
<1>1. mu = None /\ UNCHANGED <<fixed, look, now, chans>> /\ (timer' = timer \/ timer' = 0)
  BY DEF Stop, clockVars
<1>2. ~Starting /\ Starting' = Starting
  BY <1>1, StartingLocks, SameStarting
<1>3. CASE timer' = timer
  BY <1>1, <1>2, <1>3, NothingSeen
<1>4. CASE timer # 0 /\ timer' = 0
  <2>1. PICK no : no = FALSE
    OBVIOUS
  <2>2. PICK yes : yes = TRUE
    OBVIOUS
  <2>3. BarChan' = "nil" /\ BarFull' = no /\ (BarPast' <=> fixed /\ now >= At)
    BY <1>1, <1>2, <1>4, <2>1 DEF BarChan, BarFull, BarPast
  <2>4. BarPast /\ fixed => BarPast'
    <3>1. fixed => chans[timer].deadline >= At
      BY <1>4, OfTheTimer DEF TimedInv, ScheduleOK, Scheduled
    <3>2. now \in Nat /\ chans[timer].deadline \in Int /\ At \in Nat
      BY <1>4, OfTheTimer, TimedTriggerAssumption DEF TimedInv, Types, Channel
    <3>3. BarPast => chans[timer].deadline <= now
      BY <1>4, <3>2, OfTheTimer
    <3> QED
      BY <2>3, <3>1, <3>2, <3>3
  <2>5. CASE fixed /\ BarPast'
    <3>1. BarPast' = yes
      BY <2>2, <2>3, <2>5
    <3>2. Before(BarChan, BarFull, BarPast) /\ After1("nil", no, yes)
      BY <2>3, <3>1, WhatIsSeen
    <3> QED
      BY <2>1, <2>2, <2>5, <3>2, CancelsLate
  <2>6. CASE ~(fixed /\ BarPast')
    <3>1. BarPast' = no
      BY <2>1, <2>3, <2>6
    <3>2. Before(BarChan, BarFull, BarPast) /\ After1("nil", no, no)
      BY <2>3, <3>1, WhatIsSeen
    <3>3. no = (BarPast /\ f # {})
      BY <2>1, <2>4, <2>6
    <3> QED
      BY <2>1, <3>2, <3>3, Cancels
  <2> QED
    BY <2>5, <2>6
<1> QED
  BY <1>1, <1>3, <1>4

(* The clock moves: the timer rings, or the time of At comes.               *)
LEMMA TimeSeen ==
  ASSUME TimedInv, TimePasses, NEW v \in BOOLEAN, NEW f \in {{}, {t}}, fixed = (f # {})
  PROVE  Abstract(v, f)!Ring(t) \/ trigBar' = trigBar
<1>1. PICK u \in Int : AdvanceTo(u)
  BY TimedTriggerAssumption DEF TimePasses, TimedInv, Types
<1>2. UNCHANGED <<timer, fixed, look>> /\ now' = u /\ u > now /\ now \in Nat
  BY <1>1 DEF TimePasses, trigVars, AdvanceTo, TimedInv, Types
<1>3. Starting' = Starting /\ BarChan' = BarChan
  <2>1. Starting' = Starting
    BY <1>2, SameStarting
  <2> QED
    BY <1>2, <2>1 DEF BarChan
<1>4. PICK yes : yes = TRUE
  OBVIOUS
<1>5. CASE timer # 0
  <2>1. /\ timer \in DOMAIN chans /\ chans[timer] \in Channel /\ BarChan = "open"
        /\ chans[timer].ticks = IF timer \in timers THEN 0 ELSE 1
        /\ virtual \in BOOLEAN
    BY <1>5, OfTheTimer DEF TimedInv, ClockInv, ClockTypeOK
  <2>2. chans'[timer] = IF timer \in timers /\ chans[timer].deadline <= u
                        THEN Fired(chans[timer]) ELSE chans[timer]
    BY <1>1, <2>1 DEF AdvanceTo, FireTimersAndSleeps
  <2>3. CASE timer \in timers /\ chans[timer].deadline <= u
    <3>1. chans'[timer].full /\ chans'[timer].ticks = 1
      BY <2>1, <2>2, <2>3, FiredChannel
    <3>2. ~BarPast
      BY <1>5, <2>3, OfTheTimer
    <3>3. BarFull' = yes /\ BarPast' = yes
      <4>1. BarFull' = TRUE
        BY <1>2, <1>5, <3>1 DEF BarFull, Ready
      <4>2. BarPast' = TRUE
        BY <1>2, <1>5, <3>1 DEF BarPast
      <4> QED
        BY <1>4, <4>1, <4>2, Zenon
    <3>4. Before("open", BarFull, BarPast) /\ After1("open", yes, yes)
      BY <1>3, <2>1, <3>3, WhatIsSeen
    <3>5. PICK full, no : full = BarFull /\ no = FALSE
      OBVIOUS
    <3>6. Before("open", full, no) /\ After1("open", yes, yes)
      <4>1. BarPast = no
        <5>1. BarPast = FALSE
          BY <3>2 DEF BarPast
        <5> QED
          BY <3>5, <5>1, Zenon
      <4> QED
        BY <3>4, <3>5, <4>1
    <3> QED
      BY <1>4, <3>5, <3>6, RingsTimer
  <2>4. CASE ~(timer \in timers /\ chans[timer].deadline <= u)
    <3>1. chans'[timer] = chans[timer]
      BY <2>2, <2>4
    <3>2. BarFull' = BarFull
      BY <1>2, <3>1 DEF BarFull, Ready
    <3>3. BarPast' = BarPast
      BY <1>2, <1>5, <3>1 DEF BarPast
    <3> QED
      BY <1>3, <3>2, <3>3, SameSeen
  <2> QED
    BY <2>3, <2>4
<1>6. CASE timer = 0
  <2>1. BarFull' = BarFull /\ ~BarFull /\ ~BarFull'
    BY <1>2, <1>6 DEF BarFull
  <2>2. BarPast => BarPast'
    BY <1>2, <1>3, <1>6, TimedTriggerAssumption DEF BarPast
  <2>3. CASE BarPast' /\ ~BarPast
    <3>1. BarPast' = yes
      BY <1>4, <2>3
    <3>2. PICK no : no = FALSE
      OBVIOUS
    <3>3. fixed /\ ~Starting
      BY <1>2, <1>3, <1>6, <2>3 DEF BarPast
    <3>4. BarFull' = no /\ BarChan = "nil"
      <4>1. BarFull' = FALSE
        BY <1>2, <1>6 DEF BarFull
      <4>2. BarChan = "nil"
        BY <1>6, <3>3 DEF BarChan
      <4> QED
        BY <3>2, <4>1, <4>2, Zenon
    <3>5. Before("nil", BarFull, BarPast) /\ After1("nil", no, yes)
      BY <1>3, <3>1, <3>4, WhatIsSeen
    <3>6. f # {}
      BY <3>3
    <3>7. PICK full : full = BarFull
      OBVIOUS
    <3>8. Before("nil", full, no) /\ After1("nil", no, yes)
      <4>1. BarPast = no
        <5>1. BarPast = FALSE
          BY <2>3 DEF BarPast
        <5> QED
          BY <3>2, <5>1, Zenon
      <4> QED
        BY <3>5, <3>7, <4>1
    <3> QED
      BY <1>4, <3>2, <3>6, <3>8, RingsFixed
  <2>4. CASE BarPast' <=> BarPast
    <3>1. BarPast' = BarPast
      BY <2>4 DEF BarPast
    <3> QED
      BY <1>3, <2>1, <3>1, SameSeen
  <2> QED
    BY <2>2, <2>3, <2>4
<1> QED
  BY <1>5, <1>6

LEMMA OthersSeen ==
  ASSUME TimedInv,
         \/ LoopCancelled \/ StopDone \/ Start \/ CancelContext \/ PutToken \/ PutOther
         \/ \E s \in Sleeper : WaitBegin(s) \/ WaitStep(s)
  PROVE  trigBar' = trigBar
<1>1. UNCHANGED <<timer, fixed, now, chans, look>>
  BY DEF LoopCancelled, StopDone, Start, CancelContext, PutToken, PutOther, WaitBegin, WaitStep,
         WaitSleeps, WaitWakes, WaitCancelled, Sleep, Wake, clockVars, trigVars
<1> QED
  BY <1>1, SameStarting, NothingSeen

LEMMA LooperSeen ==
  ASSUME TimedInv, LoopFires \/ LoopFiresOther \/ \E k \in Looker : FindsEnabled(k)
  PROVE  trigBar' = trigBar
<1>1. UNCHANGED <<timer, fixed, now, chans>>
  BY DEF LoopFires, LoopFiresOther, FindsEnabled, clockVars
<1>2. Starting' = Starting
  BY LoopFiresKeeps, LoopFiresOtherKeeps, FindsEnabledKeeps
<1> QED
  BY <1>1, <1>2, NothingSeen

LEMMA StepsOfTrigger ==
  ASSUME TimedInv, Next, NEW v \in BOOLEAN, NEW f \in {{}, {t}}, virtual = v, fixed = (f # {})
  PROVE  AbstractStep(v, f) \/ trigBar' = trigBar
<1>1. ASSUME NEW k \in Looker, Looks(k) PROVE AbstractStep(v, f) \/ trigBar' = trigBar
  BY <1>1, LooperSeen, PollSeen, ReadDeadlineSeen, ReadRemainingSeen, StartTimerSeen
  DEF Looks, AbstractStep
<1>2. ASSUME NEW w \in Waiter, WaiterStep(w) PROVE AbstractStep(v, f) \/ trigBar' = trigBar
  BY <1>2, WaiterSeen DEF AbstractStep
<1>3. CASE Stop
  BY <1>3, StopSeen DEF AbstractStep
<1>4. CASE TimePasses
  BY <1>4, TimeSeen DEF AbstractStep
<1>5. CASE LoopFires \/ LoopFiresOther
  BY <1>5, LooperSeen
<1>6. CASE \/ LoopCancelled \/ StopDone \/ Start \/ CancelContext \/ PutToken \/ PutOther
           \/ \E s \in Sleeper : WaitBegin(s) \/ WaitStep(s)
  BY <1>6, OthersSeen
<1> QED
  BY <1>1, <1>2, <1>3, <1>4, <1>5, <1>6 DEF Next

(* The answer TRUE goes to the loop from a timer that has rung, at or after *)
(* the time of At, or when a Delay ran out between two looks at the clock.  *)
LEMMA AnswersOfTrigger ==
  ASSUME TimedInv, Next, NEW v \in BOOLEAN, NEW f \in {{}, {t}}, virtual = v, fixed = (f # {})
  PROVE  AbstractAnswer(v, f)
<1> SUFFICES ASSUME look[loop].pc # "fire", look'[loop].pc = "fire"
             PROVE  Abstract(v, f)!ShouldFire(t) \/ (timer = 0 /\ ~fixed)
  BY DEF AbstractAnswer
<1>1. loop \in Looker /\ look \in [Looker -> LookRecord]
  BY DEF Looker, TimedInv, Types
<1>2. ASSUME NEW k \in Looker, Looks(k)
      PROVE  Abstract(v, f)!ShouldFire(t) \/ (timer = 0 /\ ~fixed)
  <2>1. CASE Poll(k)
    <3>1. CASE Receive(timer)
      <4>1. BarFull /\ Before("open", BarFull, BarPast)
        BY <2>1, <3>1, TickTaken DEF Poll
      <4>2. trigBar[t].chan = "open" /\ trigBar[t].full
        BY <4>1, SeenBefore
      <4> QED
        BY <4>2 DEF Abstract!ShouldFire
    <3>2. CASE No(k)
      BY <1>1, <3>2, NoTypes DEF TimedInv
    <3> QED
      BY <2>1, <3>1, <3>2 DEF Poll
  <2>2. CASE ReadRemaining(k)
    <3>1. look[k].pc = "remaining" /\ look[k] \in LookRecord /\ now \in Nat /\ LookOK(k)
      BY <2>2 DEF ReadRemaining, TimedInv, Types, ScheduleOK
    <3>2. mu = k /\ k # None /\ timer = 0 /\ ~Starting
      BY <3>1, StartingLocks, TimedTriggerAssumption DEF TimedInv, LockOK
    <3>3. look[k].deadline <= now
      <4>1. look[k].deadline \in Int
        BY <3>1 DEF LookRecord
      <4>2. CASE look[k].deadline - now <= 0
        BY <3>1, <4>1, <4>2
      <4>3. CASE ~(look[k].deadline - now <= 0)
        BY <1>1, <2>2, <4>3 DEF ReadRemaining, LookRecord
      <4> QED
        BY <4>2, <4>3
    <3>4. CASE fixed
      <4>1. look[k].deadline = At
        BY <3>1, <3>4 DEF LookOK
      <4>2. BarChan = "nil" /\ BarPast
        BY <3>2, <3>3, <3>4, <4>1 DEF BarChan, BarPast
      <4>3. Before("nil", BarFull, BarPast)
        BY <4>2, WhatIsSeen
      <4>4. trigBar[t].chan = "nil" /\ trigBar[t].past
        BY <4>2, <4>3, SeenBefore
      <4>5. t \in f
        BY <3>4
      <4> QED
        BY <4>4, <4>5 DEF Abstract!ShouldFire
    <3> QED
      BY <3>2, <3>4
  <2>3. CASE ReadDeadline(k)
    BY <1>1, <2>3 DEF ReadDeadline, LookRecord
  <2>4. CASE StartTimer(k)
    <3>1. No(k)
      BY <2>4 DEF StartTimer
    <3> QED
      BY <1>1, <3>1, NoTypes DEF TimedInv
  <2>5. CASE FindsEnabled(k)
    BY <1>1, <2>5 DEF FindsEnabled, LookAt, LookRecord
  <2> QED
    BY <1>2, <2>1, <2>2, <2>3, <2>4, <2>5 DEF Looks
<1>3. CASE LoopFires \/ LoopFiresOther
  BY <1>1, <1>3 DEF LoopFires, LoopFiresOther, LookAt, LookRecord
<1>4. CASE UNCHANGED look
  BY <1>4
<1>5. UNCHANGED look \/ LoopFires \/ LoopFiresOther \/ \E k \in Looker : Looks(k)
  BY DEF Next, WaiterStep, WaiterEnter, WaiterWakes, WaiterGivesUp, WaiterFires, Stop,
         LoopCancelled, StopDone, Start, CancelContext, PutToken, PutOther, TimePasses, WaitBegin, WaitStep, WaitSleeps, WaitWakes,
         WaitCancelled, trigVars
<1> QED
  BY <1>2, <1>3, <1>4, <1>5

(* What the proofs about the engine assume of a timed trigger, one step for *)
(* each call, is what this one shows, with its two looks at the clock and   *)
(* the timer made in between; a wait that Cancel leaves behind included.    *)
THEOREM TriggerAsEngineSeesIt == Spec => RefinesTrigger
<1>1. Init => Abstract(TRUE, {})!TriggerInit
  <2> SUFFICES ASSUME Init PROVE Abstract(TRUE, {})!TriggerInit
    OBVIOUS
  <2>1. timer = 0 /\ now = 0 /\ ~Starting
    BY DEF Init, ClockInit, NotLooking, Starting
  <2>2. trigBar = [x \in {t} |->
                     [chan |-> "nil", full |-> FALSE, ready |-> FALSE, by |-> {}, past |-> FALSE]]
    <3>1. (timer # 0 /\ Ready(timer)) = FALSE
      BY <2>1
    <3>2. (IF timer # 0 THEN chans[timer].ticks > 0 ELSE ~Starting /\ fixed /\ now >= At) = FALSE
      BY <2>1, TimedTriggerAssumption
    <3>3. (IF timer # 0 \/ Starting THEN "open" ELSE "nil") = "nil"
      BY <2>1
    <3> QED
      BY <3>1, <3>2, <3>3, Zenon DEF trigBar
  <2> QED
    BY <2>2, Zenon DEF Abstract!TriggerInit, Abstract!NewTrigger
<1>2. TimedInv /\ [Next]_vars =>
        [\A v \in BOOLEAN, f \in {{}, {t}} :
           virtual = v /\ fixed = (f # {}) =>
             (AbstractStep(v, f) \/ trigBar' = trigBar) /\ AbstractAnswer(v, f)]_vars
  BY StepsOfTrigger, AnswersOfTrigger
<1>3. TimedInv /\ [Next]_vars => TimedInv'
  BY TimedStep
<1> QED
  BY <1>1, <1>2, <1>3, TimedInit, PTL DEF Spec, RefinesTrigger

=============================================================================
