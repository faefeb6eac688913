------------------------------ MODULE EventLog ------------------------------
(***************************************************************************)
(* The event log of a net (state/eventlog.go): a slice of events, a map    *)
(* from their IDs to them, and a limit beyond which the oldest event is    *)
(* dropped.  Each operation is one critical section of the mutex of the    *)
(* log.  A log is also built from a file (state/serialization.go), and is  *)
(* gone with its process.                                                  *)
(***************************************************************************)
EXTENDS Integers, Sequences

CONSTANTS
  Transition,
  None,            \* the transition of an event that is not about one
  MaxEvents        \* the argument of NewMemoryEventLog, 0 = unlimited

ASSUME EventLogAssumption == MaxEvents \in Nat

NoId == 0          \* the empty ID of an event that NewEvent did not make

EventType == {"fired", "failed", "started", "stopped"}

(* at is the Timestamp: which start of the process the event is from.       *)
Event ==
  [id : Nat, type : EventType, trans : Transition \cup {None}, at : Nat]

VARIABLES
  log,             \* the MemoryEventLog of the execution context
  accepted         \* history: the events that it has taken since it was made
                   \* or cleared

logVars == <<log, accepted>>

-----------------------------------------------------------------------------
NewMemoryEventLog(max) ==
  [events |-> <<>>, index |-> [i \in {} |-> None], limit |-> max]

LogInit == log = NewMemoryEventLog(MaxEvents) /\ accepted = <<>>

(* GetAll, and the IDs that Get finds.                                      *)
GetAll == log.events

Known(i) == i \in DOMAIN log.index

(* Append refuses an event without an ID and one whose ID it has.           *)
Refused(e) == e.id = NoId \/ Known(e.id)

AtCapacity(l) == l.limit > 0 /\ Len(l.events) >= l.limit

(* Mutant: the index keeps the event that is dropped.                       *)
AppendedKeepingIndex(l, e) ==
  [events |-> Append(IF AtCapacity(l) THEN Tail(l.events) ELSE l.events, e),
   index  |-> [i \in DOMAIN l.index \cup {e.id} |->
                 IF i = e.id THEN e ELSE l.index[i]],
   limit  |-> l.limit]

(* A full log drops its oldest event, from the index too.                   *)
Dropped(l) == IF AtCapacity(l) THEN {Head(l.events).id} ELSE {}

Appended(l, e) ==
  [events |-> Append(IF AtCapacity(l) THEN Tail(l.events) ELSE l.events, e),
   index  |-> [i \in (DOMAIN l.index \ Dropped(l)) \cup {e.id} |->
                 IF i = e.id THEN e ELSE l.index[i]],
   limit  |-> l.limit]

AppendEvent(e) ==
  \/ Refused(e) /\ UNCHANGED logVars
  \/ ~Refused(e) /\ log' = Appended(log, e) /\ accepted' = Append(accepted, e)

Clear == log' = NewMemoryEventLog(log.limit) /\ accepted' = <<>>

(* LoadEventLogFromFile: a log without a limit that takes the events of the *)
(* file in their order, or an error when it refuses one.                    *)
Loads(es) ==
  /\ \A i \in 1 .. Len(es) : es[i].id # NoId
  /\ \A i, j \in 1 .. Len(es) : es[i].id = es[j].id => i = j

Loaded(es) ==
  [events |-> es,
   index  |-> [n \in {es[i].id : i \in 1 .. Len(es)} |->
                 es[CHOOSE i \in 1 .. Len(es) : es[i].id = n]],
   limit  |-> 0]

Load(es) == Loads(es) /\ log' = Loaded(es) /\ accepted' = es

(* The process starts again.                                                *)
Renew == log' = NewMemoryEventLog(MaxEvents) /\ accepted' = <<>>

LogNext ==
  \/ \E e \in Event : AppendEvent(e)
  \/ \E es \in Seq(Event) : Load(es)
  \/ Clear \/ Renew

LogSpec == LogInit /\ [][LogNext]_logVars

-----------------------------------------------------------------------------
IndexMatches(es, index) ==
  /\ \A i, j \in 1 .. Len(es) : es[i].id = es[j].id => i = j
  /\ DOMAIN index = {es[i].id : i \in 1 .. Len(es)}
  /\ \A i \in 1 .. Len(es) : index[es[i].id] = es[i]

NewestOf(es, taken, limit) ==
  /\ Len(es) <= Len(taken)
  /\ Len(es) < Len(taken) => limit > 0 /\ Len(es) = limit
  /\ limit > 0 => Len(es) <= limit
  /\ \A i \in 1 .. Len(es) : es[i] = taken[Len(taken) - Len(es) + i]

(* The slice and the map are two views of the same events however often the *)
(* log has dropped its oldest: each ID once, Get finds what GetAll lists    *)
(* and nothing else, the limit holds, and what is there are the newest      *)
(* events taken, in their order, all of them as long as the limit is not    *)
(* reached.                                                                 *)
LogOK ==
  IndexMatches(log.events, log.index) /\ NewestOf(log.events, accepted, log.limit)
=============================================================================
