----------------------------- MODULE EventSystem -----------------------------
(***************************************************************************)
(* The in-memory event system (event/event_system.go): clients subscribe,  *)
(* publish and close; one goroutine, processEvents, takes the events out   *)
(* of a channel and calls the handlers, each in a goroutine of its own     *)
(* that is given up after 30 seconds.  A handler may itself be a client.   *)
(***************************************************************************)
EXTENDS Integers, Sequences, SequencesExt

CONSTANTS
  Client,         \* goroutines, or handlers, that call the event system
  Subscription,   \* the subscriptions that Subscribe may create, by their id
  Event,          \* the events; each is published once
  Matches,        \* Matches[e]: the subscriptions to "*" or to the type of e
  Capacity,       \* of eventChan (100)
  None

ASSUME EventAssumption ==
  /\ Matches \in [Event -> SUBSET Subscription]
  /\ Capacity \in Nat \ {0}
  /\ None \notin Event \cup (Event \X Subscription)

VARIABLES
  running,        \* InMemoryEventSystem.running
  done,           \* the channel done is closed
  subs,           \* subscriptions
  eventChan,
  proc,           \* the goroutine in processEvents
  delivery,       \* delivery[e][s]: the call of the handler of s with e
  client,         \* client[c]: the call that c is in
  fresh,          \* events and subscriptions not used so far
  accepted,       \* history: the events that Publish has accepted, in order
  due,            \* history: due[e]: who was subscribed when e was accepted, and still is
  promised,       \* history: the events accepted before Close began
  closed          \* history: Close has returned

historyVars == <<accepted, due, promised, closed>>
vars == <<running, done, subs, eventChan, proc, delivery, client, fresh, historyVars>>

Delivery == Event \X Subscription

(* A handler is "late" when it still runs and nobody waits for it any more. *)
HandlerState == {"none", "spawned", "runs", "late", "ended"}

Pending(e, s) == delivery[e][s] \in {"spawned", "runs"}
Active(e, s) == delivery[e][s] \in {"runs", "late"}

NoCall == [pc |-> "idle", event |-> None, todo |-> {}, host |-> None]

Init ==
  /\ running = TRUE /\ done = FALSE
  /\ subs = {} /\ eventChan = <<>>
  /\ proc = [pc |-> "select", event |-> None]
  /\ delivery = [e \in Event |-> [s \in Subscription |-> "none"]]
  /\ client = [c \in Client |-> NoCall]
  /\ fresh = Event \cup Subscription
  /\ accepted = <<>> /\ due = [e \in Event |-> {}]
  /\ promised = {} /\ closed = FALSE

TypeOK ==
  /\ running \in BOOLEAN /\ done \in BOOLEAN /\ closed \in BOOLEAN
  /\ subs \subseteq Subscription
  /\ eventChan \in Seq(Event) /\ Len(eventChan) <= Capacity
  /\ proc \in [pc : {"select", "drain", "deliver", "wait", "wait-draining",
                     "deliver-draining", "ended"},
               event : Event \cup {None}]
  /\ delivery \in [Event -> [Subscription -> HandlerState]]
  /\ client \in [Client -> [pc : {"idle", "check", "send", "check-sync", "find", "sync",
                                  "handler", "close", "wait"},
                            event : Event \cup {None}, todo : SUBSET Subscription,
                            host : Delivery \cup {None}]]
  /\ fresh \subseteq Event \cup Subscription
  /\ accepted \in Seq(Event) /\ promised \subseteq Event
  /\ due \in [Event -> SUBSET Subscription]

-----------------------------------------------------------------------------
(* Subscribe and Unsubscribe are one critical section of mu each; neither   *)
(* looks at running.  The id is the time in nanoseconds, read inside it.    *)

findMatchingSubscriptions(e) == subs \cap Matches[e]

Subscribe(s) ==
  /\ s \in fresh
  /\ subs' = subs \cup {s} /\ fresh' = fresh \ {s}
  /\ UNCHANGED <<running, done, eventChan, proc, delivery, client, historyVars>>

Unsubscribe(s) ==
  /\ s \in subs
  /\ subs' = subs \ {s}
  /\ due' = [e \in Event |-> due[e] \ {s}]
  /\ UNCHANGED <<running, done, eventChan, proc, delivery, client, fresh, accepted,
                 promised, closed>>

-----------------------------------------------------------------------------
(* The calls of a client: a goroutine of its own, or a handler that runs.   *)

Hosts == {None} \cup {d \in Delivery : Active(d[1], d[2])}

Call(c, pc, e) ==
  /\ client[c].pc = "idle"
  /\ \E h \in Hosts :
       client' = [client EXCEPT ![c] = [pc |-> pc, event |-> e, todo |-> {}, host |-> h]]

Return(c) == client' = [client EXCEPT ![c] = NoCall]

At(c, pc) == client' = [client EXCEPT ![c].pc = pc]

Publish(c, e) ==
  /\ e \in fresh /\ fresh' = fresh \ {e}
  /\ Call(c, "check", e) \/ Call(c, "check-sync", e)
  /\ UNCHANGED <<running, done, subs, eventChan, proc, delivery, historyVars>>

(* "es.mu.RLock(); running := es.running; es.mu.RUnlock()"                  *)
PublishCheck(c) ==
  /\ client[c].pc \in {"check", "check-sync"}
  /\ IF ~running THEN Return(c)
     ELSE At(c, IF client[c].pc = "check" THEN "send" ELSE "find")
  /\ UNCHANGED <<running, done, subs, eventChan, proc, delivery, fresh, historyVars>>

(* The send does not block: a full channel drops the event with an error.   *)
PublishSend(c) ==
  LET e == client[c].event IN
  /\ client[c].pc = "send"
  /\ Return(c)
  /\ IF Len(eventChan) < Capacity
     THEN /\ eventChan' = Append(eventChan, e)
          /\ accepted' = Append(accepted, e)
          /\ due' = [due EXCEPT ![e] = findMatchingSubscriptions(e)]
     ELSE UNCHANGED <<eventChan, accepted, due>>
  /\ UNCHANGED <<running, done, subs, proc, delivery, fresh, promised, closed>>

(* PublishSync calls the handlers itself, one after the other in the order  *)
(* of the map, without a time limit, and looks at its context after each.   *)
SyncFind(c) ==
  LET found == findMatchingSubscriptions(client[c].event) IN
  /\ client[c].pc = "find"
  /\ client' = [client EXCEPT ![c].pc = "sync", ![c].todo = found]
  /\ UNCHANGED <<running, done, subs, eventChan, proc, delivery, fresh, historyVars>>

SyncHandler(c) ==
  LET e == client[c].event IN
  /\ client[c].pc = "sync"
  /\ IF client[c].todo = {} THEN Return(c) /\ UNCHANGED delivery
     ELSE \E s \in client[c].todo :
            /\ client' = [client EXCEPT ![c].pc = "handler", ![c].todo = @ \ {s}]
            /\ delivery' = [delivery EXCEPT ![e][s] = "late"]
  /\ UNCHANGED <<running, done, subs, eventChan, proc, fresh, historyVars>>

SyncReturn(c) ==
  /\ client[c].pc = "handler"
  /\ \A s \in Subscription : ~Active(client[c].event, s)
  /\ At(c, "sync") \/ Return(c)                       \* ctx.Done()
  /\ UNCHANGED <<running, done, subs, eventChan, proc, delivery, fresh, historyVars>>

(* Close: a second call is an error; the first stops Publish, then the      *)
(* goroutine, and waits for it.                                             *)
Close(c) ==
  /\ running
  /\ running' = FALSE
  /\ Call(c, "close", None)
  /\ promised' = ToSet(accepted)
  /\ UNCHANGED <<done, subs, eventChan, proc, delivery, fresh, accepted, due, closed>>

CloseDone(c) ==
  /\ client[c].pc = "close"
  /\ done' = TRUE
  /\ At(c, "wait")
  /\ UNCHANGED <<running, subs, eventChan, proc, delivery, fresh, historyVars>>

CloseReturn(c) ==
  /\ client[c].pc = "wait" /\ proc.pc = "ended"
  /\ closed' = TRUE
  /\ Return(c)
  /\ UNCHANGED <<running, done, subs, eventChan, proc, delivery, fresh, accepted, due,
                 promised>>

-----------------------------------------------------------------------------
(* processEvents                                                            *)

OnlyProc == UNCHANGED <<running, done, subs, client, fresh, historyVars>>

Receive(pc) ==
  /\ eventChan # <<>>
  /\ proc' = [pc |-> pc, event |-> Head(eventChan)]
  /\ eventChan' = Tail(eventChan)

Goto(pc) == proc' = [proc EXCEPT !.pc = pc]

(* When an event is there and done is closed, select takes either case.     *)
ProcReceive ==
  /\ proc.pc = "select" /\ Receive("deliver")
  /\ OnlyProc /\ UNCHANGED delivery

(* Mutant: the goroutine leaves without draining the channel.               *)
ProcDoneAtOnce ==
  /\ proc.pc = "select" /\ done
  /\ Goto("ended")
  /\ OnlyProc /\ UNCHANGED <<delivery, eventChan>>

ProcDone ==
  /\ proc.pc = "select" /\ done
  /\ Goto("drain")
  /\ OnlyProc /\ UNCHANGED <<delivery, eventChan>>

ProcDrain ==
  /\ proc.pc = "drain"
  /\ \/ Receive("deliver-draining")
     \/ eventChan = <<>> /\ Goto("ended") /\ UNCHANGED eventChan
  /\ OnlyProc /\ UNCHANGED delivery

(* deliverEvent: one goroutine for each handler, and wg.Wait.               *)
ProcDeliver ==
  LET e == proc.event
      found == findMatchingSubscriptions(e) IN
  /\ proc.pc \in {"deliver", "deliver-draining"}
  /\ Goto(IF proc.pc = "deliver" THEN "wait" ELSE "wait-draining")
  /\ delivery' = [delivery EXCEPT
       ![e] = [s \in Subscription |-> IF s \in found THEN "spawned" ELSE @[s]]]
  /\ OnlyProc /\ UNCHANGED eventChan

(* Mutant: the next event is taken while the handlers of this one run.      *)
ProcNextAtOnce ==
  /\ proc.pc \in {"wait", "wait-draining"}
  /\ Goto(IF proc.pc = "wait" THEN "select" ELSE "drain")
  /\ OnlyProc /\ UNCHANGED <<delivery, eventChan>>

ProcNext ==
  /\ proc.pc \in {"wait", "wait-draining"}
  /\ \A s \in Subscription : ~Pending(proc.event, s)
  /\ Goto(IF proc.pc = "wait" THEN "select" ELSE "drain")
  /\ OnlyProc /\ UNCHANGED <<delivery, eventChan>>

-----------------------------------------------------------------------------
(* The goroutines of the handlers.  A result, an error and a panic end a    *)
(* handler alike; a handler that is a client ends after its call.           *)

OnlyHandler ==
  UNCHANGED <<running, done, subs, eventChan, proc, client, fresh, historyVars>>

Becomes(e, s, now) == delivery' = [delivery EXCEPT ![e][s] = now]

HandlerStart(e, s) ==
  /\ delivery[e][s] = "spawned" /\ Becomes(e, s, "runs")
  /\ OnlyHandler

HandlerEnd(e, s) ==
  /\ Active(e, s) /\ Becomes(e, s, "ended")
  /\ \A c \in Client : client[c].host # <<e, s>>
  /\ OnlyHandler

(* Mutant: the 30 seconds do not count for a handler that is in a call.     *)
TimeoutUnlessCalling(e, s) ==
  /\ delivery[e][s] = "runs" /\ Becomes(e, s, "late")
  /\ \A c \in Client : client[c].host # <<e, s>>
  /\ OnlyHandler

HandlerTimeout(e, s) ==
  /\ delivery[e][s] = "runs" /\ Becomes(e, s, "late")
  /\ OnlyHandler

-----------------------------------------------------------------------------
ClientStep(c) ==
  \/ PublishCheck(c) \/ PublishSend(c) \/ SyncFind(c) \/ SyncHandler(c) \/ SyncReturn(c)
  \/ CloseDone(c) \/ CloseReturn(c)

ProcStep == ProcReceive \/ ProcDone \/ ProcDrain \/ ProcDeliver \/ ProcNext

HandlerStep(e, s) == HandlerStart(e, s) \/ HandlerTimeout(e, s)

Next ==
  \/ \E s \in Subscription : Subscribe(s) \/ Unsubscribe(s)
  \/ \E c \in Client : Close(c) \/ ClientStep(c) \/ \E e \in Event : Publish(c, e)
  \/ ProcStep
  \/ \E e \in Event, s \in Subscription : HandlerStep(e, s) \/ HandlerEnd(e, s)

(* Goroutines that can run do run, and 30 seconds pass; a handler may hang, *)
(* and nobody has to call.                                                  *)
Fairness ==
  /\ \A c \in Client : WF_vars(ClientStep(c))
  /\ WF_vars(ProcStep)
  /\ \A e \in Event, s \in Subscription : WF_vars(HandlerStep(e, s))

Spec == Init /\ [][Next]_vars /\ Fairness

-----------------------------------------------------------------------------
(* Events are handled one after the other, in the order in which Publish    *)
(* accepted them: no handler of an event has been called while one of an    *)
(* earlier event is waited for, or while the earlier event is still in the  *)
(* channel.  Only a handler that was given up overlaps a later event.       *)
HandledInOrder ==
  \A i, j \in DOMAIN accepted :
    i < j /\ (\E s \in Subscription : delivery[accepted[j]][s] # "none") =>
      /\ accepted[i] \notin ToSet(eventChan)
      /\ \A s \in Subscription : ~Pending(accepted[i], s)

(* When Close returns, each event accepted before Close was called has gone *)
(* to every handler that was subscribed from the Publish until now, and the *)
(* handler has ended or has been given up: the goroutine drains the channel *)
(* and Close waits for it.                                                  *)
CloseDeliversTheRest ==
  closed => \A e \in promised : \A s \in due[e] : delivery[e][s] \in {"late", "ended"}

(* Close returns: also when handlers hang, and when a handler calls it that *)
(* its own goroutine is waiting for (after the 30 seconds).                 *)
CloseReturns == \A c \in Client : client[c].pc = "close" ~> client[c].pc = "idle"
=============================================================================
