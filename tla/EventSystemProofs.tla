-------------------------- MODULE EventSystemProofs --------------------------
(***************************************************************************)
(* Order and completeness of delivery for any number of clients, handlers, *)
(* subscriptions and events.  The channel holds the end of the list of     *)
(* accepted events; what precedes it has been taken by processEvents, one  *)
(* event at a time.  Then theorems about the tasks that wait for events,   *)
(* and all the others, for every tree of tasks: a task that waits has the  *)
(* turn with one of its parts, what it has counted of its parts explains   *)
(* what it returns, and every context that it made ends with it.           *)
(***************************************************************************)
EXTENDS EventSystem, Tasks, WellFoundedInduction, TLAPS

(* The number of accepted events that are not in the channel any more.      *)
Taken == Len(accepted) - Len(eventChan)

ChannelIsRest ==
  /\ Len(eventChan) <= Len(accepted)
  /\ \A k \in 1 .. Len(eventChan) : eventChan[k] = accepted[Taken + k]

(* An event is fresh, or in the hands of one client, or accepted.           *)
Publishing(c) ==
  client[c].pc \in {"check", "send", "check-sync", "find", "sync", "handler"}

Untouched(e) == \A s \in Subscription : delivery[e][s] = "none"

AcceptedOnce ==
  \A i, j \in 1 .. Len(accepted) : accepted[i] = accepted[j] => i = j

EventsOnce ==
  /\ \A e \in Event \cap fresh : Untouched(e) /\ \A i \in 1 .. Len(accepted) : accepted[i] # e
  /\ \A c \in Client : Publishing(c) =>
       /\ client[c].event \in Event \ fresh
       /\ \A i \in 1 .. Len(accepted) : accepted[i] # client[c].event
       /\ client[c].pc \in {"check", "send"} => Untouched(client[c].event)
  /\ \A c, d \in Client :
       Publishing(c) /\ Publishing(d) /\ c # d => client[c].event # client[d].event

(* The goroutine has its event in hands before and while its handlers run.  *)
ToDeliver == proc.pc \in {"deliver", "deliver-draining"}
Waiting == proc.pc \in {"wait", "wait-draining"}

ProcOK == ToDeliver \/ Waiting => Taken >= 1 /\ proc.event = accepted[Taken]

NotYet ==
  \A i \in 1 .. Len(accepted) :
    i > Taken \/ (i = Taken /\ ToDeliver) => Untouched(accepted[i])

Reached(i) == \A s \in due[accepted[i]] : delivery[accepted[i]][s] # "none"
Settled(i) == \A s \in Subscription : ~Pending(accepted[i], s)

Delivered ==
  \A i \in 1 .. Len(accepted) :
    /\ i < Taken \/ (i = Taken /\ ~ToDeliver) => Reached(i)
    /\ i < Taken \/ (i = Taken /\ ~Waiting) => Settled(i)

DueOK == \A e \in Event : due[e] \subseteq subs \cap Matches[e]

(* Close: the channel is drained after Publish has been stopped; what a     *)
(* Publish that was past its check sends after that was not promised.       *)
CloseOK ==
  /\ done => ~running
  /\ \A c \in Client : client[c].pc = "close" => ~running
  /\ proc.pc \in {"drain", "deliver-draining", "wait-draining", "ended"} => done
  /\ closed => proc.pc = "ended"
  /\ \A e \in promised : \E i \in 1 .. Len(accepted) : accepted[i] = e
  /\ proc.pc = "ended" => \A k \in 1 .. Len(eventChan) : eventChan[k] \notin promised

(* What the actions assume of the shape of the variables.                   *)
ClientPcs ==
  {"idle", "check", "send", "check-sync", "find", "sync", "handler", "close", "wait"}

ClientRecord ==
  [pc : ClientPcs, event : Event \cup {None}, todo : SUBSET Subscription,
   host : Delivery \cup {None}]

ProcRecord ==
  [pc : {"select", "drain", "deliver", "wait", "wait-draining", "deliver-draining", "ended"},
   event : Event \cup {None}]

Types ==
  /\ client \in [Client -> ClientRecord] /\ proc \in ProcRecord
  /\ eventChan \in Seq(Event) /\ accepted \in Seq(Event)
  /\ delivery \in [Event -> [Subscription -> HandlerState]]
  /\ due \in [Event -> SUBSET Subscription] /\ subs \subseteq Subscription

DeliveryInv ==
  /\ Types
  /\ ChannelIsRest /\ AcceptedOnce /\ EventsOnce
  /\ ProcOK /\ NotYet /\ Delivered
  /\ DueOK /\ CloseOK

-----------------------------------------------------------------------------
(* A client goes on in its call.                                            *)
LEMMA ClientUpdates ==
  ASSUME NEW r \in ClientRecord, NEW pc \in ClientPcs
  PROVE  /\ [r EXCEPT !.pc = pc] \in ClientRecord
         /\ [r EXCEPT !.pc = pc].pc = pc /\ [r EXCEPT !.pc = pc].event = r.event
  BY DEF ClientRecord

(* A client returns, or begins a call.                                      *)
LEMMA ClientRecords ==
  /\ NoCall \in ClientRecord /\ NoCall.pc = "idle"
  /\ \A pc \in ClientPcs, e \in Event \cup {None}, h \in Hosts :
       LET r == [pc |-> pc, event |-> e, todo |-> {}, host |-> h]
       IN r \in ClientRecord /\ r.pc = pc /\ r.event = e
  BY DEF NoCall, ClientRecord, ClientPcs, Hosts

(* What a step of a client means for the invariant: one client has another  *)
(* record, and the rest is said of its fields pc and event.                 *)
ClientBecomes(c, r) ==
  /\ r \in ClientRecord
  /\ client'[c] = r /\ \A d \in Client \ {c} : client'[d] = client[d]
  /\ client' \in [Client -> ClientRecord]

LEMMA SetClient ==
  ASSUME client \in [Client -> ClientRecord], NEW c \in Client, NEW r \in ClientRecord,
         client' = [client EXCEPT ![c] = r]
  PROVE  ClientBecomes(c, r)
  BY DEF ClientBecomes

LEMMA ReturnIs ==
  ASSUME client \in [Client -> ClientRecord], NEW c \in Client, Return(c)
  PROVE  ClientBecomes(c, NoCall)
  BY SetClient, ClientRecords DEF Return

LEMMA AtIs ==
  ASSUME client \in [Client -> ClientRecord], NEW c \in Client,
         NEW pc \in ClientPcs, At(c, pc)
  PROVE  /\ \E r \in ClientRecord : ClientBecomes(c, r)
         /\ client'[c].pc = pc /\ client'[c].event = client[c].event
<1> DEFINE r == [client[c] EXCEPT !.pc = pc]
<1>1. client' = [client EXCEPT ![c] = r]
  BY DEF At
<1>2. r \in ClientRecord /\ r.pc = pc /\ r.event = client[c].event
  BY ClientUpdates
<1> HIDE DEF r
<1>3. ClientBecomes(c, r)
  BY <1>1, <1>2, SetClient
<1> QED
  BY <1>2, <1>3 DEF ClientBecomes

LEMMA CallIs ==
  ASSUME client \in [Client -> ClientRecord], NEW c \in Client,
         NEW pc \in ClientPcs, NEW e \in Event \cup {None}, Call(c, pc, e)
  PROVE  /\ \E r \in ClientRecord : ClientBecomes(c, r)
         /\ client'[c].pc = pc /\ client'[c].event = e /\ client[c].pc = "idle"
<1> PICK h \in Hosts : client' = [client EXCEPT ![c] =
                                   [pc |-> pc, event |-> e, todo |-> {}, host |-> h]]
  BY DEF Call
<1> DEFINE r == [pc |-> pc, event |-> e, todo |-> {}, host |-> h]
<1>2. r \in ClientRecord /\ r.pc = pc /\ r.event = e
  BY ClientRecords
<1> HIDE DEF r
<1>3. ClientBecomes(c, r)
  BY <1>2, SetClient DEF r
<1> QED
  BY <1>2, <1>3 DEF ClientBecomes, Call
-----------------------------------------------------------------------------
(* Subscribe and Unsubscribe change who is due an event, and nothing else   *)
(* that is known of it.                                                     *)
LEMMA SubscribeKeeps ==
  ASSUME DeliveryInv, NEW s \in Subscription, Subscribe(s) \/ Unsubscribe(s)
  PROVE  DeliveryInv'
<1>1. /\ UNCHANGED <<running, done, eventChan, proc, delivery, client, accepted, promised, closed>>
      /\ fresh' \subseteq fresh
      /\ subs' \subseteq Subscription
      /\ due' \in [Event -> SUBSET Subscription]
      /\ \A e \in Event : due'[e] \subseteq due[e] /\ due'[e] \subseteq subs' \cap Matches[e]
  BY DEF DeliveryInv, Types, DueOK, Subscribe, Unsubscribe, historyVars
<1>2. Types' /\ ChannelIsRest' /\ AcceptedOnce' /\ ProcOK' /\ CloseOK'
  BY <1>1 DEF DeliveryInv, Types, ChannelIsRest, AcceptedOnce, ProcOK, Taken, ToDeliver, Waiting,
              CloseOK
<1>3. EventsOnce'
  BY <1>1 DEF DeliveryInv, EventsOnce, Untouched, Publishing
<1>4. NotYet'
  BY <1>1 DEF DeliveryInv, NotYet, Untouched, Taken, ToDeliver
<1>5. Delivered'
  <2>1. Taken' = Taken /\ (ToDeliver' <=> ToDeliver) /\ (Waiting' <=> Waiting)
    BY <1>1 DEF Taken, ToDeliver, Waiting
  <2>2. \A i \in 1 .. Len(accepted) : accepted[i] \in Event
    BY DEF DeliveryInv, Types
  <2>3. ASSUME NEW i \in 1 .. Len(accepted), Reached(i) PROVE Reached(i)'
    BY <1>1, <2>2, <2>3 DEF Reached
  <2>4. ASSUME NEW i \in 1 .. Len(accepted), Settled(i) PROVE Settled(i)'
    BY <1>1, <2>4 DEF Settled, Pending
  <2>5. accepted' = accepted /\ Delivered
    BY <1>1 DEF DeliveryInv
  <2> QED BY ONLY <2>1, <2>3, <2>4, <2>5 DEF Delivered
<1>6. DueOK'
  BY <1>1 DEF DueOK
<1> QED
  BY <1>2, <1>3, <1>4, <1>5, <1>6 DEF DeliveryInv

(* A step of a client that touches neither the channel nor a handler.       *)
LEMMA ClientKeeps ==
  ASSUME DeliveryInv, NEW c \in Client, NEW r, ClientBecomes(c, r),
         UNCHANGED <<eventChan, accepted, proc, delivery, subs, due>>,
         fresh' \subseteq fresh, EventsOnce', CloseOK'
  PROVE  DeliveryInv'
<1>1. Types' /\ ChannelIsRest' /\ AcceptedOnce' /\ ProcOK' /\ DueOK'
  BY DEF DeliveryInv, Types, ChannelIsRest, AcceptedOnce, ProcOK, Taken, ToDeliver, Waiting,
         DueOK, ClientBecomes
<1>2. NotYet' /\ Delivered'
  BY DEF DeliveryInv, NotYet, Delivered, Reached, Settled, Pending, Untouched, Taken, ToDeliver,
         Waiting
<1> QED
  BY <1>1, <1>2 DEF DeliveryInv

(* Of the events only that of the client changes hands: the client keeps    *)
(* the event it has, gives it up, or takes a fresh one.                     *)
LEMMA HandsKept ==
  ASSUME DeliveryInv, NEW c \in Client, NEW r, ClientBecomes(c, r),
         UNCHANGED <<accepted, delivery>>, fresh' \subseteq fresh,
         Publishing(c)' =>
           \/ /\ Publishing(c) /\ client'[c].event = client[c].event
              /\ client'[c].pc \in {"check", "send"} => client[c].pc \in {"check", "send"}
           \/ /\ client'[c].event \in Event \cap fresh
              /\ fresh' = fresh \ {client'[c].event}
  PROVE  EventsOnce'
<1>1. \A e \in Event \cap fresh' :
        Untouched(e)' /\ \A i \in 1 .. Len(accepted') : accepted'[i] # e
  BY DEF DeliveryInv, EventsOnce, Untouched
<1>2. ASSUME NEW d \in Client, Publishing(d)'
      PROVE  /\ client'[d].event \in Event \ fresh'
             /\ \A i \in 1 .. Len(accepted') : accepted'[i] # client'[d].event
             /\ client'[d].pc \in {"check", "send"} => Untouched(client[d].event)'
  BY <1>2 DEF DeliveryInv, EventsOnce, Untouched, Publishing, ClientBecomes
<1>3. ASSUME NEW d \in Client, NEW e \in Client, Publishing(d)', Publishing(e)', d # e
      PROVE  client'[d].event # client'[e].event
  BY <1>3 DEF DeliveryInv, EventsOnce, Publishing, ClientBecomes
<1> QED
  BY <1>1, <1>2, <1>3 DEF EventsOnce, Untouched

LEMMA PublishKeeps ==
  ASSUME DeliveryInv, NEW c \in Client, NEW e \in Event, Publish(c, e)
  PROVE  DeliveryInv'
<1>1. /\ e \in fresh /\ fresh' = fresh \ {e}
      /\ UNCHANGED <<running, done, subs, eventChan, proc, delivery, accepted, due, promised, closed>>
      /\ Call(c, "check", e) \/ Call(c, "check-sync", e)
      /\ client \in [Client -> ClientRecord]
  BY DEF Publish, historyVars, DeliveryInv, Types
<1>2. PICK r : ClientBecomes(c, r)
  BY <1>1, CallIs DEF ClientPcs
<1>3. client'[c].pc \in {"check", "check-sync"} /\ client'[c].event = e
  BY <1>1, CallIs DEF ClientPcs
<1>4. EventsOnce'
  BY <1>1, <1>2, <1>3, HandsKept
<1>5. CloseOK'
  BY <1>1, <1>2, <1>3 DEF DeliveryInv, CloseOK, ClientBecomes
<1> QED
  BY <1>1, <1>2, <1>4, <1>5, ClientKeeps

LEMMA PublishCheckKeeps ==
  ASSUME DeliveryInv, NEW c \in Client, PublishCheck(c)
  PROVE  DeliveryInv'
<1>1. /\ UNCHANGED <<running, done, subs, eventChan, proc, delivery, fresh, accepted, due,
                     promised, closed>>
      /\ client[c].pc \in {"check", "check-sync"}
      /\ client \in [Client -> ClientRecord]
      /\ \/ Return(c)
         \/ At(c, "send") /\ client[c].pc = "check"
         \/ At(c, "find") /\ client[c].pc = "check-sync"
  BY DEF PublishCheck, historyVars, DeliveryInv, Types
<1>2. /\ \E r : ClientBecomes(c, r)
      /\ \/ client'[c].pc = "idle"
         \/ /\ client'[c].event = client[c].event
            /\ \/ client'[c].pc = "send" /\ client[c].pc = "check"
               \/ client'[c].pc = "find"
  <2>1. CASE Return(c)
    BY <1>1, <2>1, ReturnIs, ClientRecords DEF ClientBecomes
  <2>2. CASE At(c, "send") /\ client[c].pc = "check"
    BY <1>1, <2>2, AtIs DEF ClientPcs
  <2>3. CASE At(c, "find") /\ client[c].pc = "check-sync"
    BY <1>1, <2>3, AtIs DEF ClientPcs
  <2> QED
    BY <1>1, <2>1, <2>2, <2>3
<1>3. PICK r : ClientBecomes(c, r)
  BY <1>2
<1>4. EventsOnce'
  BY <1>1, <1>2, <1>3, HandsKept DEF Publishing
<1>5. CloseOK'
  BY <1>1, <1>2, <1>3 DEF DeliveryInv, CloseOK, ClientBecomes
<1> QED
  BY <1>1, <1>3, <1>4, <1>5, ClientKeeps
(* PublishSend accepts the event, or a full channel refuses it.             *)
LEMMA PublishSendKeeps ==
  ASSUME DeliveryInv, NEW c \in Client, PublishSend(c)
  PROVE  DeliveryInv'
<1> DEFINE e == client[c].event
<1>1. /\ UNCHANGED <<running, done, subs, proc, delivery, fresh, promised, closed>>
      /\ client[c].pc = "send" /\ e \in Event \ fresh
      /\ Return(c) /\ client \in [Client -> ClientRecord]
      /\ Untouched(e) /\ \A i \in 1 .. Len(accepted) : accepted[i] # e
  BY DEF PublishSend, DeliveryInv, Types, EventsOnce, Publishing
<1>2. ClientBecomes(c, NoCall) /\ client'[c].pc = "idle"
  BY <1>1, ReturnIs, ClientRecords DEF ClientBecomes
<1>3. CASE UNCHANGED <<eventChan, accepted, due>>
  <2>1. EventsOnce'
    BY <1>1, <1>2, <1>3, HandsKept DEF Publishing
  <2>2. CloseOK'
    BY <1>1, <1>2, <1>3 DEF DeliveryInv, CloseOK, ClientBecomes
  <2> QED
    BY <1>1, <1>2, <1>3, <2>1, <2>2, ClientKeeps
<1>4. CASE /\ eventChan' = Append(eventChan, e)
           /\ accepted' = Append(accepted, e)
           /\ due' = [due EXCEPT ![e] = findMatchingSubscriptions(e)]
  <2>0. eventChan \in Seq(Event) /\ accepted \in Seq(Event) /\ Len(eventChan) <= Len(accepted)
    BY DEF DeliveryInv, Types, ChannelIsRest
  <2>1. /\ accepted' \in Seq(Event) /\ Len(accepted') = Len(accepted) + 1
        /\ \A i \in 1 .. Len(accepted) : accepted'[i] = accepted[i]
        /\ accepted'[Len(accepted) + 1] = e
    BY <1>1, <1>4, <2>0
  <2>2. /\ eventChan' \in Seq(Event) /\ Len(eventChan') = Len(eventChan) + 1
        /\ \A i \in 1 .. Len(eventChan) : eventChan'[i] = eventChan[i]
        /\ eventChan'[Len(eventChan) + 1] = e
    BY <1>1, <1>4, <2>0
  <2>3. /\ Taken' = Taken /\ Taken \in Nat
        /\ Taken + Len(eventChan) = Len(accepted)
    BY <2>0, <2>1, <2>2 DEF Taken
  <2>4. /\ due' \in [Event -> SUBSET Subscription]
        /\ \A f \in Event : f # e => due'[f] = due[f]
        /\ due'[e] = subs \cap Matches[e]
    BY <1>1, <1>4 DEF DeliveryInv, Types, findMatchingSubscriptions
  <2>5. Types' /\ DueOK'
    BY <1>1, <1>2, <2>1, <2>2, <2>4 DEF DeliveryInv, Types, DueOK, ClientBecomes
  <2>6. ChannelIsRest'
    <3> SUFFICES ASSUME NEW k \in 1 .. Len(eventChan')
                 PROVE  eventChan'[k] = accepted'[Taken + k]
      BY <2>0, <2>1, <2>2, <2>3 DEF ChannelIsRest
    <3>1. CASE k \in 1 .. Len(eventChan)
      <4>1. Taken + k \in 1 .. Len(accepted) /\ eventChan[k] = accepted[Taken + k]
        BY <2>0, <2>3, <3>1 DEF DeliveryInv, ChannelIsRest
      <4> QED
        BY <2>1, <2>2, <3>1, <4>1
    <3>2. CASE k = Len(eventChan) + 1
      BY <2>0, <2>1, <2>2, <2>3, <3>2
    <3> QED
      BY <2>0, <2>2, <3>1, <3>2
  <2>7. AcceptedOnce'
    BY <1>1, <2>0, <2>1 DEF DeliveryInv, AcceptedOnce
  <2>8. EventsOnce'
    <3>1. \A i \in 1 .. Len(accepted') :
            accepted'[i] = e \/ (i \in 1 .. Len(accepted) /\ accepted'[i] = accepted[i])
      BY <2>0, <2>1
    <3>2. ASSUME NEW f \in Event \cap fresh'
          PROVE  Untouched(f)' /\ \A i \in 1 .. Len(accepted') : accepted'[i] # f
      BY <1>1, <3>1 DEF DeliveryInv, EventsOnce, Untouched
    <3>3. ASSUME NEW d \in Client, Publishing(d)'
          PROVE  Publishing(d) /\ client'[d] = client[d] /\ client[d].event # e
      BY <1>1, <1>2, <3>3 DEF DeliveryInv, EventsOnce, Publishing, ClientBecomes
    <3>4. ASSUME NEW d \in Client, Publishing(d)'
          PROVE  /\ client'[d].event \in Event \ fresh'
                 /\ \A i \in 1 .. Len(accepted') : accepted'[i] # client'[d].event
                 /\ client'[d].pc \in {"check", "send"} => Untouched(client[d].event)'
      BY <1>1, <3>1, <3>3, <3>4 DEF DeliveryInv, EventsOnce, Untouched
    <3>5. \A d1, d2 \in Client :
            Publishing(d1)' /\ Publishing(d2)' /\ d1 # d2 => client'[d1].event # client'[d2].event
      BY <3>3 DEF DeliveryInv, EventsOnce
    <3> QED
      BY <3>2, <3>4, <3>5 DEF EventsOnce
  <2>9. ProcOK'
    <3>1. ToDeliver' = ToDeliver /\ Waiting' = Waiting /\ proc' = proc
      BY <1>1 DEF ToDeliver, Waiting
    <3>2. Taken >= 1 => Taken \in 1 .. Len(accepted)
      BY <2>0, <2>3
    <3> QED
      BY <2>1, <2>3, <3>1, <3>2 DEF DeliveryInv, ProcOK
  <2>10. NotYet'
    <3> SUFFICES ASSUME NEW i \in 1 .. Len(accepted'),
                        i > Taken \/ (i = Taken /\ ToDeliver)
                 PROVE  \A s \in Subscription : delivery[accepted'[i]][s] = "none"
      BY <1>1, <2>3 DEF NotYet, Untouched, ToDeliver
    <3>1. CASE i \in 1 .. Len(accepted)
      BY <2>1, <3>1 DEF DeliveryInv, NotYet, Untouched
    <3>2. CASE i = Len(accepted) + 1
      BY <1>1, <2>1, <3>2 DEF Untouched
    <3> QED
      BY <2>0, <2>1, <3>1, <3>2
  <2>11. Delivered'
    <3> SUFFICES ASSUME NEW i \in 1 .. Len(accepted')
                 PROVE  /\ (i < Taken \/ (i = Taken /\ ~ToDeliver) => Reached(i))'
                        /\ (i < Taken \/ (i = Taken /\ ~Waiting) => Settled(i))'
      BY DEF Delivered
    <3>1. CASE i \in 1 .. Len(accepted)
      <4>1. accepted'[i] = accepted[i] /\ accepted[i] \in Event /\ accepted[i] # e
        BY <1>1, <2>0, <2>1, <3>1
      <4> QED
        BY <1>1, <2>3, <2>4, <3>1, <4>1
        DEF DeliveryInv, Delivered, Reached, Settled, Pending, ToDeliver, Waiting
    <3>2. CASE i = Len(accepted) + 1
      BY <2>0, <2>3, <3>2 DEF Taken
    <3> QED
      BY <2>0, <2>1, <3>1, <3>2
  <2>12. CloseOK'
    <3>1. e \notin promised
      BY <1>1 DEF DeliveryInv, CloseOK
    <3>2. \A f \in promised : \E i \in 1 .. Len(accepted') : accepted'[i] = f
      BY <2>0, <2>1 DEF DeliveryInv, CloseOK
    <3>3. proc.pc = "ended" => \A k \in 1 .. Len(eventChan') : eventChan'[k] \notin promised
      BY <2>0, <2>2, <3>1 DEF DeliveryInv, CloseOK
    <3> QED
      BY <1>1, <1>2, <3>2, <3>3 DEF DeliveryInv, CloseOK, ClientBecomes
  <2> QED
    BY <2>5, <2>6, <2>7, <2>8, <2>9, <2>10, <2>11, <2>12 DEF DeliveryInv
<1> QED
  BY <1>3, <1>4 DEF PublishSend

(* PublishSync has the event to itself.                                     *)
LEMMA SyncKeeps ==
  ASSUME DeliveryInv, NEW c \in Client, SyncFind(c) \/ SyncHandler(c) \/ SyncReturn(c)
  PROVE  DeliveryInv'
<1> DEFINE e == client[c].event
<1>0. client \in [Client -> ClientRecord] /\ client[c].pc \in {"find", "sync", "handler"}
  BY DEF DeliveryInv, Types, SyncFind, SyncHandler, SyncReturn
<1>1. /\ UNCHANGED <<running, done, subs, eventChan, proc, fresh, accepted, due, promised, closed>>
      /\ e \in Event /\ \A i \in 1 .. Len(accepted) : accepted[i] # e
  BY <1>0 DEF SyncFind, SyncHandler, SyncReturn, historyVars, DeliveryInv, EventsOnce, Publishing
<1>2. /\ \E r : ClientBecomes(c, r)
      /\ \/ client'[c].pc = "idle"
         \/ client'[c].pc \in {"sync", "handler"} /\ client'[c].event = e
  <2>1. CASE SyncFind(c)
    <3> DEFINE r == [client[c] EXCEPT !.pc = "sync",
                                      !.todo = findMatchingSubscriptions(client[c].event)]
    <3>1. r \in ClientRecord /\ r.pc = "sync" /\ r.event = e
      <4>1. findMatchingSubscriptions(client[c].event) \in SUBSET Subscription
        BY DEF findMatchingSubscriptions, DeliveryInv, Types
      <4>2. "sync" \in ClientPcs /\ client[c] \in ClientRecord
        BY <1>0 DEF ClientPcs
      <4> QED
        BY <4>1, <4>2 DEF ClientRecord
    <3>2. client' = [client EXCEPT ![c] = r]
      BY <2>1 DEF SyncFind
    <3> HIDE DEF r
    <3> QED
      BY <1>0, <3>1, <3>2, SetClient DEF ClientBecomes
  <2>2. CASE SyncHandler(c) /\ ~Return(c)
    <3> PICK s \in client[c].todo :
              client' = [client EXCEPT ![c].pc = "handler", ![c].todo = @ \ {s}]
      BY <2>2 DEF SyncHandler
    <3> DEFINE r == [client[c] EXCEPT !.pc = "handler", !.todo = client[c].todo \ {s}]
    <3>0. client[c].todo \ {s} \in SUBSET Subscription
      BY <1>0 DEF ClientRecord
    <3>1. r \in ClientRecord /\ r.pc = "handler" /\ r.event = e
      <4>1. "handler" \in ClientPcs /\ client[c] \in ClientRecord
        BY <1>0 DEF ClientPcs
      <4> QED
        BY <3>0, <4>1 DEF ClientRecord
    <3>2. client' = [client EXCEPT ![c] = r]
      OBVIOUS
    <3> HIDE DEF r
    <3> QED
      BY <1>0, <3>1, <3>2, SetClient DEF ClientBecomes
  <2>3. CASE SyncReturn(c) /\ At(c, "sync")
    BY <1>0, <2>3, AtIs DEF ClientPcs
  <2>4. CASE Return(c)
    BY <1>0, <2>4, ReturnIs, ClientRecords DEF ClientBecomes
  <2> QED
    BY <2>1, <2>2, <2>3, <2>4 DEF SyncReturn
<1>3. PICK r : ClientBecomes(c, r)
  BY <1>2
<1>4. /\ delivery' \in [Event -> [Subscription -> HandlerState]]
      /\ \A f \in Event : f # e => delivery'[f] = delivery[f]
  <2> delivery \in [Event -> [Subscription -> HandlerState]] /\ "late" \in HandlerState
    BY DEF DeliveryInv, Types, HandlerState
  <2>1. CASE delivery' = delivery
    BY <2>1
  <2>2. CASE SyncHandler(c) /\ delivery' # delivery
    <3>1. PICK s \in client[c].todo : delivery' = [delivery EXCEPT ![e][s] = "late"]
      BY <2>2 DEF SyncHandler
    <3>2. s \in Subscription
      BY <1>0, <3>1 DEF ClientRecord
    <3> HIDE DEF e
    <3> QED
      BY <1>1, <3>1, <3>2
  <2> QED
    BY <2>1, <2>2 DEF SyncFind, SyncReturn
<1>5. \A i \in 1 .. Len(accepted) : delivery'[accepted[i]] = delivery[accepted[i]]
  BY <1>1, <1>4 DEF DeliveryInv, Types
<1>6. Types' /\ ChannelIsRest' /\ AcceptedOnce' /\ ProcOK' /\ DueOK'
  BY <1>1, <1>3, <1>4 DEF DeliveryInv, Types, ChannelIsRest, AcceptedOnce, ProcOK, Taken, ToDeliver,
         Waiting, DueOK, ClientBecomes
<1>7. NotYet' /\ Delivered'
  <2>1. /\ Taken' = Taken /\ ToDeliver' = ToDeliver /\ Waiting' = Waiting
        /\ accepted' = accepted /\ due' = due
    BY <1>1 DEF Taken, ToDeliver, Waiting
  <2>2. \A i \in 1 .. Len(accepted) :
          /\ Untouched(accepted[i])' = Untouched(accepted[i])
          /\ Reached(i)' = Reached(i) /\ Settled(i)' = Settled(i)
    BY <1>1, <1>5 DEF Untouched, Reached, Settled, Pending
  <2> QED
    BY <2>1, <2>2 DEF DeliveryInv, NotYet, Delivered
<1>8. EventsOnce'
  <2>1. \A f \in Event \cap fresh : f # e
    BY <1>0 DEF DeliveryInv, EventsOnce, Publishing
  <2>2. ASSUME NEW d \in Client, Publishing(d)'
        PROVE  Publishing(d) /\ client'[d].event = client[d].event
               /\ (d = c \/ (client'[d] = client[d] /\ client[d].event # e))
               /\ (d = c => client'[d].pc \notin {"check", "send"})
    BY <1>0, <1>2, <1>3, <2>2 DEF DeliveryInv, EventsOnce, Publishing, ClientBecomes
  <2>3. \A f \in Event \cap fresh' :
          Untouched(f)' /\ \A i \in 1 .. Len(accepted') : accepted'[i] # f
    BY <1>1, <1>4, <2>1 DEF DeliveryInv, EventsOnce, Untouched
  <2>4. ASSUME NEW d \in Client, Publishing(d)'
        PROVE  /\ client'[d].event \in Event \ fresh'
               /\ \A i \in 1 .. Len(accepted') : accepted'[i] # client'[d].event
               /\ client'[d].pc \in {"check", "send"} => Untouched(client[d].event)'
    BY <1>1, <1>4, <2>2, <2>4 DEF DeliveryInv, EventsOnce, Untouched
  <2>5. \A d1, d2 \in Client :
          Publishing(d1)' /\ Publishing(d2)' /\ d1 # d2 => client'[d1].event # client'[d2].event
    BY <2>2 DEF DeliveryInv, EventsOnce
  <2> QED
    BY <2>3, <2>4, <2>5 DEF EventsOnce
<1>9. CloseOK'
  BY <1>1, <1>2, <1>3 DEF DeliveryInv, CloseOK, ClientBecomes
<1> QED
  BY <1>6, <1>7, <1>8, <1>9 DEF DeliveryInv

(* Close stops Publish first, the goroutine next, and returns last.         *)
LEMMA CloseKeeps ==
  ASSUME DeliveryInv, NEW c \in Client, Close(c) \/ CloseDone(c) \/ CloseReturn(c)
  PROVE  DeliveryInv'
<1>0. client \in [Client -> ClientRecord]
  BY DEF DeliveryInv, Types
<1>1. UNCHANGED <<subs, eventChan, proc, delivery, fresh, accepted, due>>
  BY DEF Close, CloseDone, CloseReturn, historyVars
<1>2. (\E r : ClientBecomes(c, r)) /\ client'[c].pc \in {"close", "wait", "idle"}
      /\ (client'[c].pc = "close" => ~running')
  <2>1. CASE Close(c)
    BY <1>0, <2>1, CallIs DEF Close, ClientPcs
  <2>2. CASE CloseDone(c)
    BY <1>0, <2>2, AtIs DEF CloseDone, ClientPcs
  <2>3. CASE CloseReturn(c)
    BY <1>0, <2>3, ReturnIs, ClientRecords DEF CloseReturn, ClientBecomes
  <2> QED
    BY <2>1, <2>2, <2>3
<1>3. PICK r : ClientBecomes(c, r)
  BY <1>2
<1>4. EventsOnce'
  BY <1>1, <1>2, <1>3, HandsKept DEF Publishing
<1>5. CloseOK'
  <2>1. CASE Close(c)
    <3>1. \A e \in promised' : \E i \in 1 .. Len(accepted) : accepted[i] = e
      BY <2>1 DEF Close, ToSet, DeliveryInv, Types
    <3>2. running /\ ~running' /\ UNCHANGED <<done, closed>>
      BY <2>1 DEF Close
    <3> QED
      BY <1>1, <3>1, <3>2 DEF DeliveryInv, CloseOK
  <2>2. CASE CloseDone(c)
    BY <1>1, <1>2, <1>3, <2>2 DEF DeliveryInv, CloseOK, CloseDone, ClientBecomes, historyVars
  <2>3. CASE CloseReturn(c)
    BY <1>1, <1>2, <1>3, <2>3 DEF DeliveryInv, CloseOK, CloseReturn, ClientBecomes
  <2> QED
    BY <2>1, <2>2, <2>3
<1> QED
  BY <1>1, <1>3, <1>4, <1>5, ClientKeeps
(* The goroutine of a handler goes on: it can neither make a handler that   *)
(* was not called, nor bring one back that was given up.                    *)
LEMMA HandlerKeeps ==
  ASSUME DeliveryInv, NEW e \in Event, NEW s \in Subscription,
         HandlerStep(e, s) \/ HandlerEnd(e, s)
  PROVE  DeliveryInv'
<1>1. UNCHANGED <<running, done, subs, eventChan, proc, client, fresh, accepted, due, promised, closed>>
  BY DEF HandlerStep, HandlerStart, HandlerTimeout, HandlerEnd, OnlyHandler, historyVars
<1>2. PICK now \in {"runs", "late", "ended"} :
        /\ delivery' = [delivery EXCEPT ![e][s] = now]
        /\ delivery[e][s] # "none" /\ (now = "runs" => Pending(e, s))
  BY DEF HandlerStep, HandlerStart, HandlerTimeout, HandlerEnd, Becomes, Active, Pending
<1>3. delivery \in [Event -> [Subscription -> HandlerState]]
  BY DEF DeliveryInv, Types
<1>4. delivery' \in [Event -> [Subscription -> HandlerState]]
  BY <1>2, <1>3 DEF HandlerState
<1>5. \A f \in Event, x \in Subscription :
        /\ delivery'[f][x] = "none" <=> delivery[f][x] = "none"
        /\ Pending(f, x)' => Pending(f, x)
  <2> TAKE f \in Event, x \in Subscription
  <2>1. delivery'[f][x] = IF f = e /\ x = s THEN now ELSE delivery[f][x]
    BY <1>2, <1>3
  <2> QED
    BY <1>2, <2>1 DEF Pending
<1>6. Types' /\ ChannelIsRest' /\ AcceptedOnce' /\ ProcOK' /\ DueOK' /\ CloseOK'
  BY <1>1, <1>4 DEF DeliveryInv, Types, ChannelIsRest, AcceptedOnce, ProcOK, Taken, ToDeliver,
         Waiting, DueOK, CloseOK
<1>7. \A f \in Event : Untouched(f)' <=> Untouched(f)
  BY <1>5 DEF Untouched
<1>8. EventsOnce'
  BY <1>1, <1>7 DEF DeliveryInv, EventsOnce, Publishing
<1>9. \A i \in 1 .. Len(accepted) : accepted[i] \in Event
  BY DEF DeliveryInv, Types
<1>10. /\ Taken' = Taken /\ ToDeliver' = ToDeliver /\ Waiting' = Waiting
       /\ accepted' = accepted /\ due' = due
  BY <1>1 DEF Taken, ToDeliver, Waiting
<1>11. \A i \in 1 .. Len(accepted) :
         (Reached(i) => Reached(i)') /\ (Settled(i) => Settled(i)')
  BY <1>5, <1>9, <1>10 DEF Reached, Settled, DeliveryInv, Types
<1>12. NotYet' /\ Delivered'
  BY <1>7, <1>9, <1>10, <1>11 DEF DeliveryInv, NotYet, Delivered
<1> QED
  BY <1>6, <1>8, <1>12 DEF DeliveryInv

(* What the goroutine knows of the clients does not change by its steps     *)
(* that call no handler.                                                    *)
LEMMA ProcFrame ==
  ASSUME DeliveryInv, OnlyProc, UNCHANGED delivery, eventChan' \in Seq(Event)
  PROVE  EventsOnce' /\ AcceptedOnce' /\ DueOK' /\ (proc' \in ProcRecord => Types')
  BY DEF DeliveryInv, OnlyProc, historyVars, EventsOnce, AcceptedOnce, DueOK, Types, Publishing,
         Untouched

(* An event is taken out of the channel.                                    *)
LEMMA ReceiveKeeps ==
  ASSUME DeliveryInv, OnlyProc, UNCHANGED delivery, ~ToDeliver, ~Waiting, proc.pc # "ended",
         NEW pc \in {"deliver", "deliver-draining"}, Receive(pc),
         pc = "deliver-draining" => done
  PROVE  DeliveryInv'
<1>1. /\ eventChan \in Seq(Event) /\ accepted \in Seq(Event) /\ eventChan # <<>>
      /\ Len(eventChan) <= Len(accepted)
      /\ \A k \in 1 .. Len(eventChan) : eventChan[k] = accepted[Taken + k]
  BY DEF DeliveryInv, Types, ChannelIsRest, Receive
<1>2. /\ eventChan' \in Seq(Event) /\ Len(eventChan') = Len(eventChan) - 1
      /\ \A k \in 1 .. Len(eventChan') : eventChan'[k] = eventChan[k + 1]
      /\ Len(eventChan) >= 1 /\ Head(eventChan) = eventChan[1]
  BY <1>1 DEF Receive
<1>3. /\ accepted' = accepted /\ Taken' = Taken + 1 /\ Taken \in Nat
      /\ Taken + Len(eventChan) = Len(accepted)
  BY <1>1, <1>2 DEF OnlyProc, historyVars, Taken
<1>4. proc' = [pc |-> pc, event |-> accepted[Taken + 1]]
  BY <1>1, <1>2 DEF Receive
<1>5. proc' \in ProcRecord /\ ToDeliver' /\ ~Waiting' /\ proc'.event = accepted[Taken + 1]
  <2>1. accepted[Taken + 1] \in Event
    BY <1>1, <1>2, <1>3
  <2> QED
    BY <1>4, <2>1 DEF ProcRecord, ToDeliver, Waiting
<1>6. Types' /\ EventsOnce' /\ AcceptedOnce' /\ DueOK'
  BY <1>2, <1>5, ProcFrame
<1>7. ChannelIsRest'
  <2>1. ASSUME NEW k \in 1 .. Len(eventChan')
        PROVE  eventChan'[k] = accepted'[Taken' + k]
    <3>1. k + 1 \in 1 .. Len(eventChan) /\ eventChan'[k] = eventChan[k + 1]
      BY <1>1, <1>2, <2>1
    <3>2. eventChan[k + 1] = accepted[Taken + (k + 1)]
      BY <1>1, <3>1
    <3>3. Taken + (k + 1) = Taken' + k
      BY <1>3, <2>1
    <3> QED
      BY <1>3, <3>1, <3>2, <3>3
  <2>2. Len(eventChan') <= Len(accepted')
    BY <1>1, <1>2, <1>3
  <2> QED
    BY <2>1, <2>2 DEF ChannelIsRest
<1>8. ProcOK'
  BY <1>3, <1>5 DEF ProcOK
<1>9. \A i \in 1 .. Len(accepted) :
        /\ Untouched(accepted[i])' = Untouched(accepted[i])
        /\ Reached(i)' = Reached(i) /\ Settled(i)' = Settled(i)
  BY <1>3 DEF OnlyProc, historyVars, Untouched, Reached, Settled, Pending
<1>10. NotYet'
  BY <1>3, <1>9 DEF DeliveryInv, NotYet
<1>11. Delivered'
  <2> SUFFICES ASSUME NEW i \in 1 .. Len(accepted)
               PROVE  /\ i <= Taken => Reached(i)
                      /\ i <= Taken + 1 => Settled(i)
    BY <1>3, <1>5, <1>9 DEF Delivered
  <2>1. i <= Taken => Reached(i) /\ Settled(i)
    BY <1>3 DEF DeliveryInv, Delivered
  <2>2. i = Taken + 1 => Settled(i)
    BY <1>3 DEF DeliveryInv, NotYet, Untouched, Settled, Pending
  <2> QED
    BY <1>3, <2>1, <2>2
<1>12. CloseOK'
  BY <1>4 DEF DeliveryInv, CloseOK, OnlyProc, historyVars
<1> QED
  BY <1>6, <1>7, <1>8, <1>10, <1>11, <1>12 DEF DeliveryInv

(* The goroutine goes on without taking an event.                           *)
LEMMA ProcMovesOn ==
  ASSUME DeliveryInv, OnlyProc, UNCHANGED <<delivery, eventChan>>, ~ToDeliver, proc.pc # "ended",
         Waiting => \A s \in Subscription : ~Pending(proc.event, s),
         NEW pc \in {"select", "drain", "ended"}, Goto(pc),
         pc \in {"drain", "ended"} => done, pc = "ended" => eventChan = <<>>
  PROVE  DeliveryInv'
<1>1. proc' \in ProcRecord /\ proc'.pc = pc
  BY DEF DeliveryInv, Types, Goto, ProcRecord
<1>2. ~ToDeliver' /\ ~Waiting' /\ accepted' = accepted /\ Taken' = Taken
  BY <1>1 DEF ToDeliver, Waiting, OnlyProc, historyVars, Taken
<1>3. Types' /\ EventsOnce' /\ AcceptedOnce' /\ DueOK'
  BY <1>1, ProcFrame DEF DeliveryInv, Types
<1>4. ChannelIsRest' /\ ProcOK'
  BY <1>2 DEF DeliveryInv, ChannelIsRest, ProcOK
<1>5. \A i \in 1 .. Len(accepted) :
        /\ Untouched(accepted[i])' = Untouched(accepted[i])
        /\ Reached(i)' = Reached(i) /\ Settled(i)' = Settled(i)
  BY <1>2 DEF OnlyProc, historyVars, Untouched, Reached, Settled, Pending
<1>6. NotYet'
  BY <1>2, <1>5 DEF DeliveryInv, NotYet
<1>7. \A i \in 1 .. Len(accepted) : i = Taken /\ Waiting => Settled(i)
  BY DEF DeliveryInv, ProcOK, Settled
<1>8. Delivered'
  BY <1>2, <1>5, <1>7 DEF DeliveryInv, Delivered
<1>9. CloseOK'
  BY <1>1 DEF DeliveryInv, CloseOK, OnlyProc, historyVars
<1> QED
  BY <1>3, <1>4, <1>6, <1>8, <1>9 DEF DeliveryInv

(* The handlers of the event in hands are called.                           *)
LEMMA DeliverKeeps ==
  ASSUME DeliveryInv, ProcDeliver
  PROVE  DeliveryInv'
<1> DEFINE e == proc.event
<1>1. /\ ToDeliver /\ OnlyProc /\ eventChan' = eventChan /\ ~Waiting
      /\ Taken \in 1 .. Len(accepted) /\ e = accepted[Taken] /\ e \in Event
      /\ accepted \in Seq(Event) /\ delivery \in [Event -> [Subscription -> HandlerState]]
  BY DEF ProcDeliver, ToDeliver, Waiting, DeliveryInv, Types, ProcOK, Taken, ChannelIsRest
<1>2. /\ proc' \in ProcRecord /\ proc'.event = e
      /\ proc.pc = "deliver" => proc'.pc = "wait"
      /\ proc.pc = "deliver-draining" => proc'.pc = "wait-draining"
  BY DEF ProcDeliver, DeliveryInv, Types, Goto, ProcRecord
<1>3. ~ToDeliver' /\ Waiting' /\ accepted' = accepted /\ Taken' = Taken /\ due' = due
  BY <1>1, <1>2 DEF ToDeliver, Waiting, OnlyProc, historyVars, Taken
<1>4. /\ delivery' \in [Event -> [Subscription -> HandlerState]]
      /\ \A f \in Event : f # e => delivery'[f] = delivery[f]
      /\ \A s \in subs \cap Matches[e] : s \in Subscription => delivery'[e][s] = "spawned"
  BY <1>1 DEF ProcDeliver, HandlerState, findMatchingSubscriptions
<1>5. Types' /\ ChannelIsRest' /\ AcceptedOnce' /\ DueOK' /\ ProcOK'
  BY <1>1, <1>2, <1>3, <1>4 DEF DeliveryInv, Types, ChannelIsRest, AcceptedOnce, DueOK, ProcOK,
     OnlyProc, historyVars
<1>6. EventsOnce'
  <2>1. client' = client /\ fresh' = fresh /\ \A c \in Client : Publishing(c)' <=> Publishing(c)
    BY <1>1 DEF OnlyProc, Publishing
  <2>2. \A f \in Event : Untouched(f) /\ f # e => Untouched(f)'
    BY <1>4 DEF Untouched
  <2>3. \A f \in Event : (\A i \in 1 .. Len(accepted) : accepted[i] # f) => f # e
    BY <1>1
  <2> QED
    BY <1>3, <2>1, <2>2, <2>3 DEF DeliveryInv, EventsOnce
<1>7. \A i \in 1 .. Len(accepted) : i # Taken =>
        /\ accepted[i] \in Event /\ accepted[i] # e
        /\ Untouched(accepted[i])' = Untouched(accepted[i])
        /\ Reached(i)' = Reached(i) /\ Settled(i)' = Settled(i)
  <2> TAKE i \in 1 .. Len(accepted)
  <2> HAVE i # Taken
  <2>1. accepted[i] \in Event /\ accepted[i] # e
    BY <1>1 DEF DeliveryInv, AcceptedOnce
  <2>2. delivery'[accepted[i]] = delivery[accepted[i]]
    BY <1>4, <2>1
  <2> QED
    BY <1>3, <2>1, <2>2 DEF Untouched, Reached, Settled, Pending
<1>8. NotYet'
  BY <1>1, <1>3, <1>7 DEF DeliveryInv, NotYet
<1>9. Delivered'
  <2>1. Reached(Taken)'
    BY <1>1, <1>3, <1>4 DEF Reached, DeliveryInv, DueOK, Types
  <2> QED
    BY <1>1, <1>3, <1>7, <2>1 DEF DeliveryInv, Delivered
<1>10. CloseOK'
  BY <1>1, <1>2 DEF DeliveryInv, CloseOK, OnlyProc, historyVars, ToDeliver
<1> QED
  BY <1>5, <1>6, <1>8, <1>9, <1>10 DEF DeliveryInv

LEMMA ProcKeeps ==
  ASSUME DeliveryInv, ProcStep
  PROVE  DeliveryInv'
<1>0. proc.pc # "ended"
  BY DEF ProcStep, ProcReceive, ProcDone, ProcDrain, ProcDeliver, ProcNext
<1>1. CASE ProcReceive
  BY <1>0, <1>1, ReceiveKeeps DEF ProcReceive, ToDeliver, Waiting
<1>2. CASE ProcDone
  BY <1>0, <1>2, ProcMovesOn DEF ProcDone, ToDeliver, Waiting
<1>3. CASE ProcDrain
  <2>1. done /\ ~ToDeliver /\ ~Waiting /\ OnlyProc /\ delivery' = delivery
    BY <1>3 DEF ProcDrain, ToDeliver, Waiting, DeliveryInv, CloseOK
  <2> QED
    BY <1>0, <1>3, <2>1, ReceiveKeeps, ProcMovesOn DEF ProcDrain
<1>4. CASE ProcDeliver
  BY <1>4, DeliverKeeps
<1>5. CASE ProcNext
  <2>1. /\ ~ToDeliver /\ OnlyProc /\ UNCHANGED <<delivery, eventChan>>
        /\ \A s \in Subscription : ~Pending(proc.event, s)
    BY <1>5 DEF ProcNext, ToDeliver
  <2>2. Goto("select") \/ (done /\ Goto("drain"))
    BY <1>5 DEF ProcNext, DeliveryInv, CloseOK
  <2> QED
    BY <1>0, <2>1, <2>2, ProcMovesOn
<1> QED
  BY <1>1, <1>2, <1>3, <1>4, <1>5 DEF ProcStep

-----------------------------------------------------------------------------
LEMMA InitDelivers == Init => DeliveryInv
<1> SUFFICES ASSUME Init PROVE DeliveryInv
  OBVIOUS
<1>1. Types
  BY ClientRecords, EventAssumption DEF Init, Types, ProcRecord, HandlerState
<1>2. /\ eventChan = <<>> /\ accepted = <<>> /\ Len(<<>>) = 0 /\ proc.pc = "select"
      /\ ~closed /\ running /\ ~done /\ promised = {}
      /\ \A c \in Client : client[c].pc = "idle"
      /\ \A e \in Event : Untouched(e) /\ due[e] = {}
  BY ClientRecords DEF Init, Untouched
<1>3. ChannelIsRest /\ AcceptedOnce /\ ProcOK /\ NotYet /\ Delivered
  BY <1>2 DEF ChannelIsRest, AcceptedOnce, ProcOK, NotYet, Delivered, Taken, ToDeliver, Waiting
<1>4. EventsOnce /\ DueOK /\ CloseOK
  BY <1>2 DEF EventsOnce, DueOK, CloseOK, Publishing
<1> QED
  BY <1>1, <1>3, <1>4 DEF DeliveryInv

LEMMA StepDelivers == DeliveryInv /\ [Next]_vars => DeliveryInv'
<1> SUFFICES ASSUME DeliveryInv, [Next]_vars PROVE DeliveryInv'
  OBVIOUS
<1>1. ASSUME NEW s \in Subscription, Subscribe(s) \/ Unsubscribe(s) PROVE DeliveryInv'
  BY <1>1, SubscribeKeeps
<1>2. ASSUME NEW c \in Client, Close(c) \/ ClientStep(c) PROVE DeliveryInv'
  BY <1>2, CloseKeeps, PublishCheckKeeps, PublishSendKeeps, SyncKeeps DEF ClientStep
<1>3. ASSUME NEW c \in Client, NEW e \in Event, Publish(c, e) PROVE DeliveryInv'
  BY <1>3, PublishKeeps
<1>4. CASE ProcStep
  BY <1>4, ProcKeeps
<1>5. ASSUME NEW e \in Event, NEW s \in Subscription, HandlerStep(e, s) \/ HandlerEnd(e, s)
      PROVE  DeliveryInv'
  BY <1>5, HandlerKeeps
<1>6. CASE UNCHANGED vars
  <2>1. UNCHANGED <<running, done, subs, eventChan, proc, delivery, client, fresh, accepted, due,
                    promised, closed>>
    BY <1>6 DEF vars, historyVars
  <2>2. Types' /\ ChannelIsRest' /\ AcceptedOnce' /\ ProcOK' /\ DueOK' /\ CloseOK'
    BY <2>1 DEF DeliveryInv, Types, ChannelIsRest, AcceptedOnce, ProcOK, Taken, ToDeliver,
       Waiting, DueOK, CloseOK
  <2>3. EventsOnce'
    BY <2>1 DEF DeliveryInv, EventsOnce, Publishing, Untouched
  <2>4. NotYet' /\ Delivered'
    BY <2>1 DEF DeliveryInv, NotYet, Delivered, Reached, Settled, Pending, Untouched, Taken,
       ToDeliver, Waiting
  <2> QED
    BY <2>2, <2>3, <2>4 DEF DeliveryInv
<1> QED
  BY <1>1, <1>2, <1>3, <1>4, <1>5, <1>6 DEF Next

LEMMA DeliveryHolds == Spec => []DeliveryInv
  BY InitDelivers, StepDelivers, PTL DEF Spec

(* For any number of clients, subscriptions and events: handlers are called *)
(* for one event after the other, in the order in which Publish accepted    *)
(* them (processEvents, event/event_system.go), whatever publishes,         *)
(* subscribes, times out or closes meanwhile.                               *)
THEOREM DeliveredInOrder == Spec => []HandledInOrder
<1>1. DeliveryInv => HandledInOrder
  <2> SUFFICES ASSUME DeliveryInv, NEW i \in DOMAIN accepted, NEW j \in DOMAIN accepted, i < j,
                      NEW x \in Subscription, delivery[accepted[j]][x] # "none"
               PROVE  accepted[i] \notin ToSet(eventChan)
                      /\ \A s \in Subscription : ~Pending(accepted[i], s)
    BY DEF HandledInOrder
  <2>1. /\ accepted \in Seq(Event) /\ eventChan \in Seq(Event) /\ Len(eventChan) <= Len(accepted)
        /\ i \in 1 .. Len(accepted) /\ j \in 1 .. Len(accepted) /\ Taken \in Nat
        /\ Taken + Len(eventChan) = Len(accepted)
    BY DEF DeliveryInv, Types, ChannelIsRest, Taken
  <2>2. j <= Taken
    BY <2>1 DEF DeliveryInv, NotYet, Untouched
  <2>3. Settled(i)
    BY <2>1, <2>2 DEF DeliveryInv, Delivered
  <2>4. ASSUME NEW k \in 1 .. Len(eventChan), eventChan[k] = accepted[i] PROVE FALSE
    <3>1. Taken + k \in 1 .. Len(accepted) /\ accepted[Taken + k] = accepted[i]
      BY <2>1, <2>4 DEF DeliveryInv, ChannelIsRest
    <3>2. Taken + k = i
      BY <2>1, <3>1 DEF DeliveryInv, AcceptedOnce
    <3> QED
      BY <2>1, <2>2, <3>2
  <2> QED
    BY <2>1, <2>3, <2>4 DEF ToSet, Settled
<1> QED
  BY <1>1, DeliveryHolds, PTL

(* In every instance, when Close has returned, what was accepted before it  *)
(* was called has reached every handler that is due the event, and nobody   *)
(* waits for one of them any more.                                          *)
THEOREM CloseDelivers == Spec => []CloseDeliversTheRest
<1>1. DeliveryInv => CloseDeliversTheRest
  <2> SUFFICES ASSUME DeliveryInv, closed, NEW e \in promised, NEW s \in due[e]
               PROVE  delivery[e][s] \in {"late", "ended"}
    BY DEF CloseDeliversTheRest
  <2>1. /\ accepted \in Seq(Event) /\ eventChan \in Seq(Event) /\ Len(eventChan) <= Len(accepted)
        /\ Taken \in Nat /\ Taken + Len(eventChan) = Len(accepted)
    BY DEF DeliveryInv, Types, ChannelIsRest, Taken
  <2>2. proc.pc = "ended" /\ ~ToDeliver /\ ~Waiting
    BY DEF DeliveryInv, CloseOK, ToDeliver, Waiting
  <2>3. PICK i \in 1 .. Len(accepted) : accepted[i] = e
    BY DEF DeliveryInv, CloseOK
  <2>4. i <= Taken
    <3> SUFFICES ASSUME i > Taken PROVE FALSE
      BY <2>1
    <3> DEFINE k == i - Taken
    <3>1. k \in 1 .. Len(eventChan) /\ Taken + k = i
      BY <2>1
    <3> HIDE DEF k
    <3>2. eventChan[k] = e
      BY <2>3, <3>1 DEF DeliveryInv, ChannelIsRest
    <3> QED
      BY <2>2, <3>1, <3>2 DEF DeliveryInv, CloseOK
  <2>5. Reached(i) /\ Settled(i)
    BY <2>1, <2>2, <2>4 DEF DeliveryInv, Delivered
  <2>6. s \in Subscription /\ e \in Event /\ delivery[e][s] \in HandlerState
    BY <2>1, <2>3 DEF DeliveryInv, Types
  <2> QED
    BY <2>3, <2>5, <2>6 DEF Reached, Settled, Pending, HandlerState
<1> QED
  BY <1>1, DeliveryHolds, PTL

-----------------------------------------------------------------------------
(* Tasks.                                                                   *)

(* The task n itself goes on: it does not wait for a part that runs.        *)
HasTurn(n) ==
  Running(n) /\ (frame[n].pc = "part" /\ Kind[n] # "parallel" => frame[Part(n)].pc = "done")

Nested ==
  \A n \in Task : \A m \in Parts(n) :
    Running(m) => frame[n].pc = "part" /\ (Kind[n] # "parallel" => m = Part(n))

Turns ==
  /\ \A n \in Task : HasTurn(n) => Running(Owner[n])
  /\ \A n, m \in Task : HasTurn(n) /\ HasTurn(m) /\ Owner[n] = Owner[m] => n = m

OneRoot == \A n \in Roots : Running(n) => n = root

OwnEnds ==
  /\ \A n \in Task : ~Running(n) /\ frame[n].own # 0 => Canceled(frame[n].own)
  /\ \A c \in DOMAIN contexts :
       c > 1 /\ ~Canceled(c) => \E n \in Task : Running(n) /\ frame[n].own = c

SeesGiven(n) ==
  Kind[n] = "parallel" /\ frame[n].pc \in {"go", "part"}
    => Context(n) \in {given[n], frame[n].own} \ {0}

Pcs(kind) ==
  {"idle", "enter", "go", "done"}
  \cup (IF kind \in {"sequence", "parallel", "retry", "recovery", "conditional"}
        THEN {"part"} ELSE {})
  \cup (IF kind \in {"retry", "human", "escalation", "subworkflow"} THEN {"await"} ELSE {})
  \cup (IF kind = "subworkflow" THEN {"started"} ELSE {})

Fails(rs) == {k \in DOMAIN rs : rs[k] # "ok"}

FrameOK(f) ==
  /\ f.i \in Nat \ {0}
  /\ f.pc = "enter" => f.i = 1 /\ ~f.failed /\ f.own = 0
  /\ f.pc = "done" => f.out # "none"

Counted(n, f, rs) ==
  f.pc \in {"go", "part", "await"} =>
    /\ Kind[n] = "sequence" =>
         /\ Len(rs) = f.i - 1 /\ f.i <= Len(Subs[n]) + 1
         /\ f.pc = "part" => f.i <= Len(Subs[n])
         /\ f.failed <=> Fails(rs) # {}
         /\ n \notin ContinueOnError => Fails(rs) = {}
    /\ Kind[n] = "retry" =>
         /\ f.i <= Limit[n] /\ Fails(rs) = DOMAIN rs
         /\ IF f.pc = "await" THEN Len(rs) = f.i /\ f.i < Limit[n] ELSE Len(rs) = f.i - 1
    /\ Kind[n] = "recovery" =>
         \/ f.i = 1 /\ rs = <<>>
         \/ f.i = 2 /\ f.pc = "part" /\ Len(rs) = 1 /\ rs[1] # "ok"
    /\ Kind[n] = "conditional" => rs = <<>> /\ f.i \in DOMAIN Subs[n]

Accounted(n) ==
  frame[n].pc = "done" /\ frame[n].out # "panic" => Explained(n, frame[n].out, ran[n])

LocalOK(n) ==
  frame[n].pc \in Pcs(Kind[n]) /\ FrameOK(frame[n]) /\ Counted(n, frame[n], ran[n]) /\ Accounted(n)

TaskOK(n) == LocalOK(n) /\ SeesGiven(n)

Structure == Nested /\ Turns /\ OneRoot

ContextSet(k) == [parent : 0 .. k, status : Status]

FrameSet(k) ==
  [pc : {"idle", "enter", "go", "part", "await", "started", "done"},
   i : Nat \ {0}, failed : BOOLEAN, own : 0 .. k, out : Results \cup {"none", "panic"}]

Limited(n, f) == Kind[n] \in {"retry", "escalation"} => f.i <= Limit[n]

InstanceSet(k) ==
  [of : Task, status : {"running", "ended", "cancelled"},
   watcher : {"none", "starting", "waiting", "gone"}, ctx : 0 .. k]

TypeInv ==
  /\ contexts \in Seq(ContextSet(Len(contexts)))
  /\ ctxOf \in [Task -> DOMAIN contexts] /\ given \in [Task -> DOMAIN contexts]
  /\ root \in Roots
  /\ frame \in [Task -> FrameSet(Len(contexts))] /\ \A n \in Task : Limited(n, frame[n])
  /\ instances \in Seq(InstanceSet(Len(contexts)))
  /\ ran \in [Task -> Seq(Results \cup {"panic"})]

TaskInv ==
  /\ TypeInv /\ Structure /\ OwnEnds
  /\ \A n \in Task : TaskOK(n)
-----------------------------------------------------------------------------
(* The tree of tasks.                                                       *)
LEMMA PartShape ==
  ASSUME NEW n \in Task, NEW m \in Parts(n)
  PROVE  /\ m \in Task /\ m \notin Roots /\ Parent(m) = n /\ Depth[m] = Depth[n] + 1
         /\ Owner[m] = IF Kind[n] = "parallel" THEN m ELSE Owner[n]
<1>1. m \in Task
  BY TaskAssumption DEF Parts
<1>2. m \notin Roots /\ \A p \in Task : m \in Parts(p) => p = n
  BY TaskAssumption
<1>3. Parent(m) = n
  BY <1>2 DEF Parent
<1> QED BY <1>1, <1>2, <1>3, TreeAssumption

LEMMA OneParent ==
  ASSUME NEW n \in Task, NEW p \in Task, NEW m, m \in Parts(n), m \in Parts(p)
  PROVE  n = p
  BY TaskAssumption

LEMMA ParentShape ==
  ASSUME NEW n \in Task, n \notin Roots
  PROVE  Parent(n) \in Task /\ n \in Parts(Parent(n)) /\ Depth[n] = Depth[Parent(n)] + 1
<1>1. \E p \in Task : n \in Parts(p)
  BY TaskAssumption
<1>2. Parent(n) \in Task /\ n \in Parts(Parent(n))
  BY <1>1 DEF Parent
<1> QED BY <1>2, TreeAssumption

(* Every set of tasks has one that is not part of another one in it.        *)
LEMMA TopTask ==
  ASSUME NEW T \in SUBSET Task, T # {}
  PROVE  \E n \in T : n \in Roots \/ Parent(n) \notin T
<1> DEFINE D == {Depth[n] : n \in T}
<1>1. D \subseteq Nat /\ D # {}
  BY TreeAssumption
<1>2. PICK d \in D : \A e \in D : ~ (<<e, d>> \in OpToRel(<, Nat))
  BY <1>1, NatLessThanWellFounded, WFMin
<1>3. PICK n \in T : Depth[n] = d
  BY <1>2
<1>4. \A e \in D : ~ (e < d)
  BY <1>1, <1>2 DEF OpToRel
<1>5. CASE n \notin Roots /\ Parent(n) \in T
  <2>1. Depth[Parent(n)] \in D /\ Depth[Parent(n)] \in Nat /\ d = Depth[Parent(n)] + 1
    BY <1>3, <1>5, ParentShape, TreeAssumption
  <2>2. ~(Depth[Parent(n)] < d)
    BY <1>4, <2>1
  <2> QED BY ONLY <2>1, <2>2
<1> QED BY <1>5

(* An owner is an ancestor, and owns itself.                                *)
LEMMA OwnerShape ==
  ASSUME NEW n \in Task
  PROVE  Owner[n] \in Task /\ Owner[Owner[n]] = Owner[n] /\ Depth[Owner[n]] <= Depth[n]
<1> DEFINE Good(x) == Owner[Owner[x]] = Owner[x] /\ Depth[Owner[x]] <= Depth[x]
           T == {x \in Task : ~Good(x)}
<1>1. ASSUME T # {} PROVE FALSE
  <2>1. PICK x \in T : x \in Roots \/ Parent(x) \notin T
    BY <1>1, TopTask
  <2>2. CASE Owner[x] = x
    BY <2>1, <2>2, TreeAssumption
  <2>3. CASE Owner[x] # x
    <3>1. x \notin Roots /\ Owner[x] = Owner[Parent(x)]
      BY <2>1, <2>3, TreeAssumption
    <3>2. Parent(x) \in Task /\ Depth[x] = Depth[Parent(x)] + 1
      BY <2>1, <3>1, ParentShape
    <3>3. Good(Parent(x))
      BY <2>1, <3>1, <3>2
    <3>4. Owner[Parent(x)] \in Task /\ Depth[Parent(x)] \in Nat /\ Depth[Owner[Parent(x)]] \in Nat
      BY <3>2, TreeAssumption
    <3>5. Depth[Owner[x]] <= Depth[x]
      BY <3>1, <3>2, <3>3, <3>4
    <3> QED BY <2>1, <3>1, <3>3, <3>5
  <2> QED BY <2>2, <2>3
<1>2. Good(n)
  BY <1>1
<1> QED BY <1>2, TreeAssumption

(* How many parts a task has.                                               *)
LEMMA PartCount ==
  ASSUME NEW n \in Task
  PROVE  /\ Subs[n] \in Seq(Task) /\ Len(Subs[n]) \in Nat
         /\ Kind[n] \in {"sequence", "parallel"} => Len(Subs[n]) >= 1
         /\ Kind[n] = "retry" => Len(Subs[n]) = 1
         /\ Kind[n] = "recovery" => Len(Subs[n]) = 2
         /\ Kind[n] = "conditional" => Len(Subs[n]) \in {1, 2}
<1>1. Subs[n] \in Seq(Task) /\ Len(Subs[n]) \in Nat
  BY TaskAssumption
<1>2. Len(Subs[n]) \in CASE Kind[n] \in {"sequence", "parallel"} -> Nat \ {0}
                          [] Kind[n] = "retry"       -> {1}
                          [] Kind[n] = "recovery"    -> {2}
                          [] Kind[n] = "conditional" -> {1, 2}
                          [] OTHER                   -> {0}
  BY TaskAssumption
<1>3. Kind[n] \in {"sequence", "parallel"} => Len(Subs[n]) \in Nat \ {0}
  BY <1>2
<1>4. Kind[n] = "retry" => Len(Subs[n]) = 1
  BY <1>2
<1>5. Kind[n] = "recovery" => Len(Subs[n]) = 2
  BY <1>2
<1>6. Kind[n] = "conditional" => Len(Subs[n]) \in {1, 2}
  BY <1>2
<1> QED BY <1>1, <1>3, <1>4, <1>5, <1>6

-----------------------------------------------------------------------------
(* Contexts.                                                                *)
(* A context that has ended stays as it ended.                              *)
EndedStay ==
  /\ Len(contexts) <= Len(contexts')
  /\ \A c \in DOMAIN contexts : Canceled(c) => contexts'[c].status = contexts[c].status

LEMMA EndedShape ==
  ASSUME TypeInv, NEW c \in DOMAIN contexts, NEW how \in Status \ {"live"},
         contexts' = Ended(c, how)
  PROVE  /\ contexts' \in Seq(ContextSet(Len(contexts))) /\ Len(contexts') = Len(contexts)
         /\ DOMAIN contexts' = DOMAIN contexts
         /\ EndedStay /\ contexts'[c].status # "live"
<1>1. contexts \in Seq(ContextSet(Len(contexts)))
  BY DEF TypeInv
<1>2. Len(contexts) \in Nat /\ DOMAIN contexts = 1..Len(contexts)
  BY <1>1
<1> DEFINE X == Derived(c) \cup {c}
<1> HIDE DEF X
<1>3. contexts' = [d \in DOMAIN contexts |-> IF d \in X /\ contexts[d].status = "live"
                    THEN [contexts[d] EXCEPT !.status = how] ELSE contexts[d]]
  BY DEF Ended, X
<1>4. c \in X
  BY DEF X
<1>5. ASSUME NEW d \in DOMAIN contexts
      PROVE  /\ contexts'[d] \in ContextSet(Len(contexts))
             /\ Canceled(d) => contexts'[d] = contexts[d]
             /\ d = c => contexts'[d].status # "live"
  <2>1. contexts[d] \in ContextSet(Len(contexts))
    BY <1>1
  <2>2. contexts'[d] = IF d \in X /\ contexts[d].status = "live"
                       THEN [contexts[d] EXCEPT !.status = how] ELSE contexts[d]
    BY <1>3
  <2> QED BY <1>4, <2>1, <2>2 DEF ContextSet, Canceled
<1>6. contexts' \in Seq(ContextSet(Len(contexts))) /\ Len(contexts') = Len(contexts)
      /\ DOMAIN contexts' = DOMAIN contexts
  <2>1. DOMAIN contexts' = 1..Len(contexts)
    BY <1>2, <1>3
  <2>2. contexts' = [d \in 1..Len(contexts) |-> contexts'[d]]
    BY <1>3, <2>1
  <2>3. contexts' \in [1..Len(contexts) -> ContextSet(Len(contexts))]
    BY <1>2, <1>5, <2>2
  <2> HIDE DEF ContextSet
  <2> QED BY <1>2, <2>1, <2>3
<1> QED BY <1>2, <1>5, <1>6 DEF EndedStay, Canceled

-----------------------------------------------------------------------------
(* Turns.                                                                   *)
Free(n) == \A m \in Parts(n) : ~Running(m)

Same(S) == \A x \in Task : x \notin S => frame'[x] = frame[x]

LEMMA PartIsPart ==
  ASSUME NEW n \in Task, TaskOK(n), frame[n].pc = "part", Kind[n] # "parallel"
  PROVE  Part(n) \in Parts(n) /\ Kind[n] \in {"sequence", "retry", "recovery", "conditional"}
<1>1. frame[n].pc \in Pcs(Kind[n]) /\ Counted(n, frame[n], ran[n]) /\ frame[n].i \in Nat \ {0}
  BY DEF TaskOK, LocalOK, FrameOK
<1>2. Kind[n] \in {"sequence", "retry", "recovery", "conditional"}
  BY <1>1 DEF Pcs
<1>3. Subs[n] \in Seq(Task) /\ Len(Subs[n]) \in Nat /\ DOMAIN Subs[n] = 1..Len(Subs[n])
  BY PartCount
<1>4. CASE Kind[n] = "sequence"
  <2>1. frame[n].i <= Len(Subs[n])
    BY <1>1, <1>4 DEF Counted
  <2>2. frame[n].i \in DOMAIN Subs[n]
    BY <1>1, <1>3, <2>1
  <2> QED BY <1>2, <1>4, <2>2 DEF Part, Parts
<1>5. CASE Kind[n] = "retry"
  <2>1. Len(Subs[n]) = 1
    BY <1>5, PartCount
  <2>2. 1 \in DOMAIN Subs[n]
    BY <1>3, <2>1
  <2> QED BY <1>2, <1>5, <2>2 DEF Part, Parts
<1>6. CASE Kind[n] = "recovery"
  <2>1. Len(Subs[n]) = 2 /\ frame[n].i \in {1, 2}
    BY <1>1, <1>6, PartCount DEF Counted
  <2>2. frame[n].i \in DOMAIN Subs[n]
    BY <1>3, <2>1
  <2> QED BY <1>2, <1>6, <2>2 DEF Part, Parts
<1>7. CASE Kind[n] = "conditional"
  <2>1. frame[n].i \in DOMAIN Subs[n]
    BY <1>1, <1>7 DEF Counted
  <2> QED BY <1>2, <1>7, <2>1 DEF Part, Parts
<1> QED BY <1>2, <1>4, <1>5, <1>6, <1>7

(* A task that has its turn has no part that runs, but for the branches of  *)
(* a parallel task.                                                         *)
LEMMA TurnIsFree ==
  ASSUME Nested, NEW n \in Task, HasTurn(n), ~(Kind[n] = "parallel" /\ frame[n].pc = "part")
  PROVE  Free(n)
<1> SUFFICES ASSUME NEW m \in Parts(n), Running(m) PROVE FALSE
  BY DEF Free
<1>1. frame[n].pc = "part" /\ (Kind[n] # "parallel" => m = Part(n))
  BY DEF Nested
<1> QED BY <1>1 DEF HasTurn, Running

(* Where the turns are when the tasks of S change and x does not.           *)
LEMMA TurnOfOther ==
  ASSUME NEW x \in Task, frame'[x] = frame[x]
  PROVE  /\ Running(x)' <=> Running(x)
         /\ Part(x)' = Part(x)
         /\ HasTurn(x)' <=> /\ Running(x)
                            /\ frame[x].pc = "part" /\ Kind[x] # "parallel"
                                 => frame'[Part(x)].pc = "done"
  BY DEF HasTurn, Running, Part

(* n goes on.                                                               *)
LEMMA GoesOnStructure ==
  ASSUME Structure, \A x \in Task : TaskOK(x), NEW n \in Task, HasTurn(n), Free(n), root' = root,
         frame'[n].pc \in {"go", "await", "started"}, Same({n})
  PROVE  Structure'
<1>1. ASSUME NEW x \in Task, x # n
      PROVE  /\ frame'[x] = frame[x] /\ Part(x)' = Part(x)
             /\ HasTurn(x)' <=> /\ Running(x)
                                /\ frame[x].pc = "part" /\ Kind[x] # "parallel"
                                     => frame'[Part(x)].pc = "done"
  BY <1>1, TurnOfOther DEF Same
<1>2. Running(n) /\ Running(n)' /\ HasTurn(n)'
  BY DEF Running, HasTurn
<1>3. \A x \in Task : Running(x)' <=> Running(x)
  BY <1>1, <1>2 DEF Running
<1>4. Nested'
  <2> SUFFICES ASSUME NEW x \in Task, NEW m \in Parts(x), Running(m)'
               PROVE  (frame[x].pc = "part" /\ (Kind[x] # "parallel" => m = Part(x)))'
    BY DEF Nested
  <2>1. m \in Task /\ Running(m)
    BY <1>3, PartShape
  <2>2. CASE x = n
    BY <2>1, <2>2 DEF Free
  <2>3. CASE x # n
    BY <1>1, <2>1, <2>3 DEF Structure, Nested
  <2> QED BY <2>2, <2>3
<1>5. ASSUME NEW x \in Task, HasTurn(x)' PROVE HasTurn(x)
  <2>1. CASE x = n
    BY <2>1
  <2>2. CASE x # n
    <3>1. frame[x].pc = "part" /\ Kind[x] # "parallel" => Part(x) \in Task
      BY PartIsPart, PartShape
    <3>2. CASE frame[x].pc = "part" /\ Kind[x] # "parallel"
      <4>1. frame'[Part(x)].pc = "done"
        BY <1>1, <1>5, <2>2, <3>2
      <4>2. Part(x) # n
        BY <4>1
      <4> QED BY <1>1, <1>5, <2>2, <3>1, <3>2, <4>1, <4>2 DEF HasTurn
    <3>3. CASE ~(frame[x].pc = "part" /\ Kind[x] # "parallel")
      BY <1>1, <1>5, <2>2, <3>3 DEF HasTurn
    <3> QED BY <3>2, <3>3
  <2> QED BY <2>1, <2>2
<1>6. Turns'
  <2>1. \A x \in Task : HasTurn(x)' => Running(Owner[x])'
    BY <1>3, <1>5, OwnerShape DEF Structure, Turns
  <2>2. \A x, y \in Task : HasTurn(x)' /\ HasTurn(y)' /\ Owner[x] = Owner[y] => x = y
    BY <1>5 DEF Structure, Turns
  <2> QED BY <2>1, <2>2 DEF Turns
<1>7. OneRoot'
  BY <1>3, TaskAssumption DEF Structure, OneRoot
<1> QED BY <1>4, <1>6, <1>7 DEF Structure

(* n returns.                                                               *)
LEMMA LeaveStructure ==
  ASSUME Structure, \A x \in Task : TaskOK(x), NEW n \in Task, HasTurn(n), Free(n), root' = root,
         frame'[n].pc = "done", Same({n})
  PROVE  Structure'
<1>1. ASSUME NEW x \in Task, x # n
      PROVE  /\ frame'[x] = frame[x] /\ Part(x)' = Part(x)
             /\ HasTurn(x)' <=> /\ Running(x)
                                /\ frame[x].pc = "part" /\ Kind[x] # "parallel"
                                     => frame'[Part(x)].pc = "done"
  BY <1>1, TurnOfOther DEF Same
<1>2. Running(n) /\ ~Running(n)' /\ ~HasTurn(n)'
  BY DEF Running, HasTurn
<1>3. \A x \in Task : Running(x)' <=> Running(x) /\ x # n
  BY <1>1, <1>2 DEF Running
<1>4. Nested'
  <2> SUFFICES ASSUME NEW x \in Task, NEW m \in Parts(x), Running(m)'
               PROVE  (frame[x].pc = "part" /\ (Kind[x] # "parallel" => m = Part(x)))'
    BY DEF Nested
  <2>1. m \in Task /\ Running(m)
    BY <1>3, PartShape
  <2>2. x # n
    BY <2>1 DEF Free
  <2> QED BY <1>1, <2>1, <2>2 DEF Structure, Nested
<1> DEFINE Back(p) == p # n /\ Owner[p] = Owner[n] /\ n \in Parts(p)
<1>5. ASSUME NEW x \in Task, HasTurn(x)' PROVE x # n /\ (HasTurn(x) \/ Back(x))
  <2>1. x # n
    BY <1>2, <1>5
  <2>2. CASE frame[x].pc = "part" /\ Kind[x] # "parallel"
    <3>1. Part(x) \in Parts(x) /\ Part(x) \in Task
      BY <2>2, PartIsPart, PartShape
    <3>2. CASE Part(x) = n
      BY <2>1, <2>2, <3>1, <3>2, PartShape
    <3>3. CASE Part(x) # n
      BY <1>1, <1>5, <2>1, <2>2, <3>1, <3>3 DEF HasTurn
    <3> QED BY <3>2, <3>3
  <2>3. CASE ~(frame[x].pc = "part" /\ Kind[x] # "parallel")
    BY <1>1, <1>5, <2>1, <2>3 DEF HasTurn
  <2> QED BY <2>1, <2>2, <2>3
<1>6. Turns'
  <2>1. ASSUME NEW x \in Task, HasTurn(x)' PROVE Running(Owner[x])'
    <3>1. CASE HasTurn(x)
      <4>1. Running(Owner[x]) /\ Owner[x] \in Task /\ Owner[Owner[x]] = Owner[x]
        BY <3>1, OwnerShape DEF Structure, Turns
      <4>2. Owner[x] # n
        BY <1>5, <2>1, <3>1, <4>1 DEF Structure, Turns
      <4> QED BY <1>3, <4>1, <4>2
    <3>2. CASE Back(x)
      <4>1. Running(Owner[n]) /\ Owner[n] \in Task
        BY OwnerShape DEF Structure, Turns
      <4>2. Owner[x] # n
        <5>1. Depth[Owner[x]] <= Depth[x] /\ Depth[n] = Depth[x] + 1 /\ Depth[x] \in Nat
          BY <3>2, OwnerShape, PartShape, TreeAssumption
        <5> QED BY <5>1, TreeAssumption
      <4> QED BY <1>3, <3>2, <4>1, <4>2
    <3> QED BY <1>5, <2>1, <3>1, <3>2
  <2>2. ASSUME NEW x \in Task, NEW y \in Task, HasTurn(x)', HasTurn(y)', Owner[x] = Owner[y]
        PROVE  x = y
    <3>1. x # n /\ y # n /\ (HasTurn(x) \/ Back(x)) /\ (HasTurn(y) \/ Back(y))
      BY <1>5, <2>2
    <3>2. CASE HasTurn(x) /\ HasTurn(y)
      BY <2>2, <3>2 DEF Structure, Turns
    <3>3. CASE Back(x) /\ HasTurn(y)
      BY <2>2, <3>1, <3>3 DEF Structure, Turns
    <3>4. CASE HasTurn(x) /\ Back(y)
      BY <2>2, <3>1, <3>4 DEF Structure, Turns
    <3>5. CASE Back(x) /\ Back(y)
      BY <3>5, OneParent
    <3> QED BY <3>1, <3>2, <3>3, <3>4, <3>5
  <2> QED BY <2>1, <2>2 DEF Turns
<1>7. OneRoot'
  BY <1>3, TaskAssumption DEF Structure, OneRoot
<1> QED BY <1>4, <1>6, <1>7 DEF Structure

(* n calls its part m.                                                      *)
LEMMA CallStructure ==
  ASSUME Structure, \A x \in Task : TaskOK(x), NEW n \in Task, HasTurn(n), Free(n), root' = root,
         NEW m \in Parts(n), Kind[n] # "parallel", frame'[n].pc = "part", Part(n)' = m,
         frame'[m].pc = "enter", Same({n, m})
  PROVE  Structure'
<1>1. ASSUME NEW x \in Task, x # n, x # m
      PROVE  /\ frame'[x] = frame[x] /\ Part(x)' = Part(x)
             /\ HasTurn(x)' <=> /\ Running(x)
                                /\ frame[x].pc = "part" /\ Kind[x] # "parallel"
                                     => frame'[Part(x)].pc = "done"
  BY <1>1, TurnOfOther DEF Same
<1>2. m \in Task /\ Parent(m) = n /\ m \notin Roots /\ Owner[m] = Owner[n]
  BY PartShape
<1>3. Running(n) /\ Running(n)' /\ ~HasTurn(n)'
  BY DEF Running, HasTurn
<1>4. ~Running(m) /\ Running(m)' /\ n # m
  BY <1>3 DEF Running, Free
<1>5. \A x \in Task : Running(x)' <=> Running(x) \/ x = m
  BY <1>1, <1>3, <1>4 DEF Running
<1>6. Nested'
  <2> SUFFICES ASSUME NEW x \in Task, NEW k \in Parts(x), Running(k)'
               PROVE  (frame[x].pc = "part" /\ (Kind[x] # "parallel" => k = Part(x)))'
    BY DEF Nested
  <2>1. k \in Task /\ (Running(k) \/ k = m)
    BY <1>5, PartShape
  <2>2. CASE x = n
    BY <2>1, <2>2 DEF Free
  <2>3. CASE x # n
    <3>1. k # m
      BY <2>3, OneParent
    <3>2. frame[x].pc = "part" /\ (Kind[x] # "parallel" => k = Part(x))
      BY <2>1, <3>1 DEF Structure, Nested
    <3>3. x # m
      BY <1>4, <3>2 DEF Running
    <3> QED BY <1>1, <2>3, <3>2, <3>3
  <2> QED BY <2>2, <2>3
<1>7. ASSUME NEW x \in Task, HasTurn(x)', x # m PROVE HasTurn(x) /\ x # n
  <2>1. x # n
    BY <1>3, <1>7
  <2>2. CASE frame[x].pc = "part" /\ Kind[x] # "parallel"
    <3>1. Part(x) \in Parts(x) /\ Part(x) \in Task
      BY <2>2, PartIsPart, PartShape
    <3>2. Part(x) # n
      <4>1. frame'[Part(x)].pc = "done"
        BY <1>1, <1>7, <2>1, <2>2
      <4> QED BY <4>1
    <3>3. Part(x) # m
      BY <2>1, <3>1, OneParent
    <3> QED BY <1>1, <1>7, <2>1, <2>2, <3>1, <3>2, <3>3 DEF HasTurn, Same
  <2>3. CASE ~(frame[x].pc = "part" /\ Kind[x] # "parallel")
    BY <1>1, <1>7, <2>1, <2>3 DEF HasTurn
  <2> QED BY <2>1, <2>2, <2>3
<1>8. Turns'
  <2>1. ASSUME NEW x \in Task, HasTurn(x)' PROVE Running(Owner[x])'
    <3>1. Running(Owner[x]) /\ Owner[x] \in Task
      BY <1>2, <1>7, <2>1, OwnerShape DEF Structure, Turns
    <3> QED BY <1>5, <3>1
  <2>2. ASSUME NEW x \in Task, NEW y \in Task, HasTurn(x)', HasTurn(y)', Owner[x] = Owner[y],
               x # m
        PROVE  x = y
    <3>1. HasTurn(x) /\ x # n
      BY <1>7, <2>2
    <3>2. CASE y = m
      BY <1>2, <2>2, <3>1, <3>2 DEF Structure, Turns
    <3>3. CASE y # m
      BY <1>7, <2>2, <3>1, <3>3 DEF Structure, Turns
    <3> QED BY <3>2, <3>3
  <2>3. ASSUME NEW x \in Task, NEW y \in Task, HasTurn(x)', HasTurn(y)', Owner[x] = Owner[y]
        PROVE  x = y
    <3>1. CASE x # m
      BY <2>2, <2>3, <3>1
    <3>2. CASE y # m
      BY <2>2, <2>3, <3>2
    <3> QED BY <3>1, <3>2
  <2> QED BY <2>1, <2>3 DEF Turns
<1>9. OneRoot'
  BY <1>2, <1>5, TaskAssumption DEF Structure, OneRoot
<1> QED BY <1>6, <1>8, <1>9 DEF Structure

(* n starts its branches.                                                   *)
LEMMA ForkStructure ==
  ASSUME Structure, \A x \in Task : TaskOK(x), NEW n \in Task, HasTurn(n), Free(n), root' = root,
         Kind[n] = "parallel", frame'[n].pc = "part",
         \A m \in Parts(n) : frame'[m].pc = "enter", Same({n} \cup Parts(n))
  PROVE  Structure'
<1>1. ASSUME NEW x \in Task, x # n, x \notin Parts(n)
      PROVE  /\ frame'[x] = frame[x] /\ Part(x)' = Part(x)
             /\ HasTurn(x)' <=> /\ Running(x)
                                /\ frame[x].pc = "part" /\ Kind[x] # "parallel"
                                     => frame'[Part(x)].pc = "done"
  BY <1>1, TurnOfOther DEF Same
<1>2. \A m \in Parts(n) : /\ m \in Task /\ Parent(m) = n /\ m \notin Roots /\ Owner[m] = m
                          /\ ~Running(m) /\ Running(m)'
  BY PartShape DEF Free, Running
<1>3. Running(n) /\ Running(n)' /\ HasTurn(n)' /\ n \notin Parts(n)
  BY <1>2 DEF Running, HasTurn
<1>5. \A x \in Task : Running(x)' <=> Running(x) \/ x \in Parts(n)
  BY <1>1, <1>2, <1>3 DEF Running
<1>6. Nested'
  <2> SUFFICES ASSUME NEW x \in Task, NEW k \in Parts(x), Running(k)'
               PROVE  (frame[x].pc = "part" /\ (Kind[x] # "parallel" => k = Part(x)))'
    BY DEF Nested
  <2>1. k \in Task /\ (Running(k) \/ k \in Parts(n))
    BY <1>5, PartShape
  <2>2. CASE x = n
    BY <2>2
  <2>3. CASE x # n
    <3>1. k \notin Parts(n)
      BY <2>3, OneParent
    <3>2. frame[x].pc = "part" /\ (Kind[x] # "parallel" => k = Part(x))
      BY <2>1, <3>1 DEF Structure, Nested
    <3>3. x \notin Parts(n)
      BY <1>2, <3>2 DEF Running
    <3> QED BY <1>1, <2>3, <3>2, <3>3
  <2> QED BY <2>2, <2>3
<1>7. ASSUME NEW x \in Task, HasTurn(x)', x \notin Parts(n) PROVE HasTurn(x)
  <2>1. CASE x = n
    BY <2>1
  <2>2. CASE x # n /\ frame[x].pc = "part" /\ Kind[x] # "parallel"
    <3>1. Part(x) \in Parts(x) /\ Part(x) \in Task
      BY <2>2, PartIsPart, PartShape
    <3>2. Part(x) # n
      <4>1. frame'[Part(x)].pc = "done"
        BY <1>1, <1>7, <2>2
      <4> QED BY <4>1
    <3>3. Part(x) \notin Parts(n)
      BY <2>2, <3>1, OneParent
    <3> QED BY <1>1, <1>7, <2>2, <3>1, <3>2, <3>3 DEF HasTurn, Same
  <2>3. CASE x # n /\ ~(frame[x].pc = "part" /\ Kind[x] # "parallel")
    BY <1>1, <1>7, <2>3 DEF HasTurn
  <2> QED BY <2>1, <2>2, <2>3
<1>8. Turns'
  <2>1. ASSUME NEW x \in Task, HasTurn(x)' PROVE Running(Owner[x])'
    <3>1. CASE x \in Parts(n)
      BY <1>2, <3>1
    <3>2. CASE x \notin Parts(n)
      BY <1>5, <1>7, <2>1, <3>2, OwnerShape DEF Structure, Turns
    <3> QED BY <3>1, <3>2
  <2>2. ASSUME NEW x \in Task, NEW y \in Task, HasTurn(x)', HasTurn(y)', Owner[x] = Owner[y],
               x \notin Parts(n)
        PROVE  x = y
    <3>1. HasTurn(x) /\ Running(Owner[x])
      BY <1>7, <2>2 DEF Structure, Turns
    <3>2. CASE y \in Parts(n)
      BY <1>2, <2>2, <3>1, <3>2
    <3>3. CASE y \notin Parts(n)
      BY <1>7, <2>2, <3>1, <3>3 DEF Structure, Turns
    <3> QED BY <3>2, <3>3
  <2>3. ASSUME NEW x \in Task, NEW y \in Task, HasTurn(x)', HasTurn(y)', Owner[x] = Owner[y]
        PROVE  x = y
    <3>1. CASE x \notin Parts(n)
      BY <2>2, <2>3, <3>1
    <3>2. CASE y \notin Parts(n)
      BY <2>2, <2>3, <3>2
    <3>3. CASE x \in Parts(n) /\ y \in Parts(n)
      BY <1>2, <2>3, <3>3
    <3> QED BY <3>1, <3>2, <3>3
  <2> QED BY <2>1, <2>3 DEF Turns
<1>9. OneRoot'
  BY <1>2, <1>5, TaskAssumption DEF Structure, OneRoot
<1> QED BY <1>6, <1>8, <1>9 DEF Structure

-----------------------------------------------------------------------------
(* One step of one task.                                                    *)
RanOnly(n) ==
  /\ ran' \in [Task -> Seq(Results \cup {"panic"})]
  /\ \A x \in Task : x # n => ran'[x] = ran[x]

LEMMA NewFrameType ==
  ASSUME NEW n \in Task, NEW k \in Nat
  PROVE  NewFrame \in FrameSet(k) /\ Limited(n, NewFrame)
<1>1. Limit[n] \in Nat \ {0}
  BY LimitAssumption
<1>2. NewFrame.i = 1
  BY DEF NewFrame
<1> QED BY <1>1, <1>2 DEF NewFrame, FrameSet, Limited

(* What the task x is stays as it is if nothing of it changes but the       *)
(* contexts that live.                                                      *)
LEMMA OtherStays ==
  ASSUME TypeInv, NEW x \in Task, LocalOK(x), EndedStay,
         frame'[x] = frame[x], ran'[x] = ran[x], given'[x] = given[x]
  PROVE  LocalOK(x)'
<1>1. /\ frame'[x].pc \in Pcs(Kind[x]) /\ FrameOK(frame'[x])
      /\ Counted(x, frame'[x], ran'[x])
  BY DEF LocalOK
<1>2. Accounted(x)'
  <2> SUFFICES ASSUME (frame[x].pc = "done" /\ frame[x].out # "panic")'
               PROVE  Explained(x, frame[x].out, ran[x])'
    BY DEF Accounted
  <2>1. Explained(x, frame[x].out, ran[x])
    BY DEF LocalOK, Accounted
  <2>2. given[x] \in DOMAIN contexts /\ frame[x].own \in 0..Len(contexts)
        /\ DOMAIN contexts = 1..Len(contexts) /\ Len(contexts) \in Nat
    BY DEF TypeInv, FrameSet
  <2>3. \A c \in {given[x], frame[x].own} \ {0} :
          contexts[c].status = "deadline" => contexts'[c].status = "deadline"
    <3> SUFFICES ASSUME NEW c \in {given[x], frame[x].own} \ {0}, contexts[c].status = "deadline"
                 PROVE  contexts'[c].status = "deadline"
      OBVIOUS
    <3>1. c \in DOMAIN contexts
      BY <2>2
    <3> QED BY <3>1 DEF EndedStay, Canceled
  <2>4. CASE Kind[x] = "parallel"
    <3>1. /\ Len(ran[x]) = Len(Subs[x])
          /\ frame[x].out = "ok" => Fails(ran[x]) = {}
          /\ frame[x].out # "ok" =>
               \/ Fails(ran[x]) # {}
               \/ \E c \in {given[x], frame[x].own} \ {0} : contexts[c].status = "deadline"
      BY <2>1, <2>4 DEF Explained, Fails
    <3>2. frame[x].out # "ok" =>
            \/ Fails(ran[x]) # {}
            \/ \E c \in {given[x], frame[x].own} \ {0} : contexts'[c].status = "deadline"
      BY <2>3, <3>1
    <3> HIDE <2>1, <2>3
    <3> QED BY <2>4, <3>1, <3>2 DEF Explained, Fails
  <2>5. CASE Kind[x] # "parallel"
    BY <2>1, <2>5 DEF Explained
  <2> QED BY <2>4, <2>5
<1> QED BY <1>1, <1>2 DEF LocalOK

LEMMA SeesStays ==
  ASSUME NEW x \in Task, SeesGiven(x), frame'[x] = frame[x], given'[x] = given[x],
         ctxOf'[Owner[x]] = ctxOf[Owner[x]]
  PROVE  SeesGiven(x)'
  BY DEF SeesGiven, Context

(* n returns.                                                               *)
LEMMA FinishInv ==
  ASSUME TaskInv, NEW n \in Task, NEW out \in Results \cup {"panic"}, Finish(n, out),
         RanOnly(n), HasTurn(n), Free(n), Accounted(n)'
  PROVE  TaskInv'
<1>1. /\ frame' = [frame EXCEPT ![n].pc = "done", ![n].out = out]
      /\ contexts' = IF frame[n].own = 0 THEN contexts ELSE Ended(frame[n].own, "canceled")
      /\ ctxOf' = ctxOf /\ root' = root /\ instances' = instances /\ given' = given
  BY DEF Finish, Leave
<1>2. TypeInv
  BY DEF TaskInv
<1>3. /\ frame \in [Task -> FrameSet(Len(contexts))] /\ \A x \in Task : Limited(x, frame[x])
      /\ contexts \in Seq(ContextSet(Len(contexts)))
      /\ Len(contexts) \in Nat /\ DOMAIN contexts = 1..Len(contexts)
  BY <1>2 DEF TypeInv
<1>4. /\ frame'[n] = [frame[n] EXCEPT !.pc = "done", !.out = out]
      /\ \A x \in Task : x # n => frame'[x] = frame[x]
  BY <1>1, <1>3
<1>5. /\ contexts' \in Seq(ContextSet(Len(contexts))) /\ Len(contexts') = Len(contexts)
      /\ DOMAIN contexts' = DOMAIN contexts /\ EndedStay
      /\ \A d \in DOMAIN contexts : contexts[d].status # "live" => contexts'[d].status # "live"
      /\ frame[n].own # 0 => contexts'[frame[n].own].status # "live"
  <2>1. CASE frame[n].own = 0
    BY <1>1, <1>3, <2>1 DEF EndedStay, Canceled
  <2>2. CASE frame[n].own # 0
    <3>1. frame[n].own \in DOMAIN contexts
      BY <1>3, <2>2 DEF FrameSet
    <3>2. "canceled" \in Status \ {"live"} /\ contexts' = Ended(frame[n].own, "canceled")
      BY <1>1, <2>2 DEF Status
    <3>3. /\ contexts' \in Seq(ContextSet(Len(contexts))) /\ Len(contexts') = Len(contexts)
          /\ DOMAIN contexts' = DOMAIN contexts
          /\ EndedStay /\ contexts'[frame[n].own].status # "live"
      BY <1>2, <3>1, <3>2, EndedShape
    <3> QED BY <3>3 DEF EndedStay, Canceled
  <2> QED BY <2>1, <2>2
<1>6. TypeInv'
  <2>1. frame'[n] \in FrameSet(Len(contexts)) /\ Limited(n, frame'[n])
    <3>1. frame[n] \in FrameSet(Len(contexts)) /\ Limited(n, frame[n])
      BY <1>3
    <3>2. frame'[n] \in FrameSet(Len(contexts))
      BY <1>4, <3>1 DEF FrameSet
    <3>3. frame'[n].i = frame[n].i
      BY <1>4, <3>1 DEF FrameSet
    <3> QED BY <3>1, <3>2, <3>3 DEF Limited
  <2>2. frame' \in [Task -> FrameSet(Len(contexts))] /\ \A x \in Task : Limited(x, frame'[x])
    BY <1>1, <1>3, <1>4, <2>1
  <2>3. contexts' \in Seq(ContextSet(Len(contexts')))
    BY <1>5
  <2>4. /\ ctxOf' \in [Task -> DOMAIN contexts'] /\ given' \in [Task -> DOMAIN contexts']
        /\ root' \in Roots /\ instances' \in Seq(InstanceSet(Len(contexts')))
    BY <1>1, <1>2, <1>5 DEF TypeInv
  <2>5. frame' \in [Task -> FrameSet(Len(contexts'))]
    BY <1>5, <2>2
  <2> QED BY <2>2, <2>3, <2>4, <2>5 DEF TypeInv, RanOnly
<1>7. Structure'
  <2>1. frame'[n].pc = "done" /\ Same({n})
    BY <1>3, <1>4 DEF Same, FrameSet
  <2> QED BY <1>1, <2>1, LeaveStructure DEF TaskInv
<1>8. OwnEnds'
  <2>1. frame'[n].own = frame[n].own /\ ~Running(n)'
    BY <1>3, <1>4 DEF FrameSet, Running
  <2>2. \A x \in Task : x # n => (Running(x)' <=> Running(x)) /\ frame'[x].own = frame[x].own
    BY <1>4 DEF Running
  <2>3. \A x \in Task : frame[x].own # 0 => frame[x].own \in DOMAIN contexts
    BY <1>3 DEF FrameSet
  <2>4. ASSUME NEW x \in Task, ~Running(x)', frame'[x].own # 0
        PROVE  contexts'[frame'[x].own].status # "live"
    <3>1. CASE x = n
      BY <1>5, <2>1, <2>4, <3>1
    <3>2. CASE x # n
      <4>1. contexts[frame[x].own].status # "live" /\ frame[x].own \in DOMAIN contexts
        BY <2>2, <2>3, <2>4, <3>2 DEF TaskInv, OwnEnds, Canceled
      <4> QED BY <1>5, <2>2, <3>2, <4>1
    <3> QED BY <3>1, <3>2
  <2>5. ASSUME NEW c \in DOMAIN contexts', c > 1, contexts'[c].status = "live"
        PROVE  \E x \in Task : Running(x)' /\ frame'[x].own = c
    <3>1. c \in DOMAIN contexts /\ ~Canceled(c)
      BY <1>5, <2>5 DEF Canceled
    <3>2. PICK x \in Task : Running(x) /\ frame[x].own = c
      BY <2>5, <3>1 DEF TaskInv, OwnEnds
    <3>3. x # n
      <4>1. CASE x = n
        <5>1. c # 0
          BY <1>3, <2>5, <3>1
        <5> QED BY <1>5, <2>5, <3>2, <4>1, <5>1
      <4> QED BY <4>1
    <3>4. Running(x)' /\ frame'[x].own = c
      BY <2>2, <3>2, <3>3
    <3> QED BY <3>4
  <2> QED BY <2>4, <2>5 DEF OwnEnds, Canceled
<1>9. LocalOK(n)'
  <2>1. /\ frame'[n].pc = "done" /\ frame'[n].out = out
        /\ frame'[n].i = frame[n].i /\ frame[n].i \in Nat \ {0}
    BY <1>3, <1>4 DEF FrameSet
  <2>2. out # "none"
    BY DEF Results, Status
  <2> QED BY <2>1, <2>2 DEF LocalOK, Pcs, FrameOK, Counted
<1>10. \A x \in Task : TaskOK(x)'
  <2> SUFFICES ASSUME NEW x \in Task PROVE TaskOK(x)'
    OBVIOUS
  <2>1. CASE x = n
    <3>1. frame'[n].pc = "done"
      BY <1>3, <1>4 DEF FrameSet
    <3> QED BY <1>9, <2>1, <3>1 DEF TaskOK, SeesGiven
  <2>2. CASE x # n
    <3>1. LocalOK(x)'
      BY <1>1, <1>2, <1>4, <1>5, <2>2, OtherStays DEF TaskInv, TaskOK, RanOnly
    <3>2. SeesGiven(x)'
      BY <1>1, <1>4, <2>2, SeesStays DEF TaskInv, TaskOK
    <3> QED BY <3>1, <3>2 DEF TaskOK
  <2> QED BY <2>1, <2>2
<1> QED BY <1>6, <1>7, <1>8, <1>10 DEF TaskInv

LEMMA TypesOK == TypeInv => TaskTypeOK
  BY DEF TaskTypeOK, TypeInv, ContextSet, FrameSet, Limited, InstanceSet

(* Contexts stay, and a task that did not run may begin.                    *)
LEMMA OwnStays ==
  ASSUME OwnEnds, contexts' = contexts,
         \A x \in Task : \/ (Running(x)' <=> Running(x)) /\ frame'[x].own = frame[x].own
                         \/ ~Running(x) /\ Running(x)'
  PROVE  OwnEnds'
<1>1. ASSUME NEW x \in Task, ~Running(x)', frame'[x].own # 0
      PROVE  contexts'[frame'[x].own].status # "live"
  BY <1>1 DEF OwnEnds, Canceled
<1>2. ASSUME NEW c \in DOMAIN contexts', c > 1, contexts'[c].status = "live"
      PROVE  \E x \in Task : Running(x)' /\ frame'[x].own = c
  BY <1>2 DEF OwnEnds, Canceled
<1> QED BY <1>1, <1>2 DEF OwnEnds, Canceled

(* n goes on without a part.                                                *)
LEMMA ContinueInv ==
  ASSUME TaskInv, NEW n \in Task, NEW f \in FrameSet(Len(contexts)), Limited(n, f),
         frame' = [frame EXCEPT ![n] = f], UNCHANGED contextVars, root' = root, given' = given,
         instances' \in Seq(InstanceSet(Len(contexts))), RanOnly(n), HasTurn(n), Free(n),
         Kind[n] # "parallel", f.own = frame[n].own,
         f.pc \in {"go", "await", "started"} \cap Pcs(Kind[n]), Counted(n, f, ran'[n])
  PROVE  TaskInv'
<1>1. contexts' = contexts /\ ctxOf' = ctxOf
  BY DEF contextVars
<1>2. TypeInv
  BY DEF TaskInv
<1>3. frame'[n] = f /\ \A x \in Task : x # n => frame'[x] = frame[x]
  BY <1>2 DEF TypeInv
<1>4. TypeInv'
  <2>1. frame' \in [Task -> FrameSet(Len(contexts'))] /\ \A x \in Task : Limited(x, frame'[x])
    BY <1>1, <1>2, <1>3 DEF TypeInv
  <2> QED BY <1>1, <1>2, <2>1 DEF TypeInv, RanOnly
<1>5. Structure'
  <2>1. Same({n})
    BY <1>3 DEF Same
  <2> QED BY <1>3, <2>1, GoesOnStructure DEF TaskInv
<1>6. OwnEnds'
  <2>1. Running(n) /\ Running(n)'
    BY <1>3 DEF HasTurn, Running
  <2>2. \A x \in Task : (Running(x)' <=> Running(x)) /\ frame'[x].own = frame[x].own
    BY <1>3, <2>1 DEF Running
  <2> QED BY <1>1, <2>2, OwnStays DEF TaskInv
<1>7. EndedStay
  BY <1>1, <1>2 DEF TypeInv, EndedStay
<1>8. TaskOK(n)'
  <2>1. f.i \in Nat \ {0}
    BY DEF FrameSet
  <2>2. LocalOK(n)'
    BY <1>3, <2>1 DEF LocalOK, FrameOK, Accounted
  <2> QED BY <2>2 DEF TaskOK, SeesGiven
<1>9. ASSUME NEW x \in Task, x # n PROVE TaskOK(x)'
  <2>1. LocalOK(x)'
    BY <1>2, <1>3, <1>7, <1>9, OtherStays DEF TaskInv, TaskOK, RanOnly
  <2>2. SeesGiven(x)'
    BY <1>1, <1>3, <1>9, SeesStays DEF TaskInv, TaskOK
  <2> QED BY <2>1, <2>2 DEF TaskOK
<1> QED BY <1>4, <1>5, <1>6, <1>8, <1>9 DEF TaskInv

(* n calls its part m.                                                      *)
LEMMA CallInv ==
  ASSUME TaskInv, NEW n \in Task, NEW m \in Parts(n), NEW f \in FrameSet(Len(contexts)),
         Limited(n, f), frame' = [frame EXCEPT ![n] = f, ![m] = NewFrame],
         UNCHANGED contextVars, root' = root, given' = given, instances' = instances,
         RanOnly(n), HasTurn(n), Free(n), Kind[n] # "parallel", f.own = frame[n].own,
         f.pc = "part", "part" \in Pcs(Kind[n]), Counted(n, f, ran'[n]),
         m = IF Kind[n] = "retry" THEN Subs[n][1] ELSE Subs[n][f.i]
  PROVE  TaskInv'
<1>1. contexts' = contexts /\ ctxOf' = ctxOf
  BY DEF contextVars
<1>2. TypeInv /\ Len(contexts) \in Nat
  BY DEF TaskInv, TypeInv
<1>3. m \in Task /\ m # n
  <2>1. m \in Task /\ Depth[m] = Depth[n] + 1 /\ Depth[n] \in Nat
    BY PartShape, TreeAssumption
  <2> QED BY <2>1
<1>4. /\ frame'[n] = f /\ frame'[m] = NewFrame
      /\ \A x \in Task : x # n /\ x # m => frame'[x] = frame[x]
  BY <1>2, <1>3 DEF TypeInv
<1>5. NewFrame \in FrameSet(Len(contexts)) /\ Limited(m, NewFrame)
      /\ NewFrame.pc = "enter" /\ NewFrame.i = 1 /\ NewFrame.own = 0 /\ ~NewFrame.failed
  BY <1>2, <1>3, NewFrameType DEF NewFrame
<1>6. TypeInv'
  <2>1. frame' \in [Task -> FrameSet(Len(contexts'))] /\ \A x \in Task : Limited(x, frame'[x])
    BY <1>1, <1>2, <1>4, <1>5 DEF TypeInv
  <2> QED BY <1>1, <1>2, <2>1 DEF TypeInv, RanOnly
<1>7. Structure'
  <2>1. Same({n, m}) /\ frame'[m].pc = "enter" /\ frame'[n].pc = "part"
    BY <1>4, <1>5 DEF Same
  <2>2. Part(n)' = IF Kind[n] = "retry" THEN Subs[n][1] ELSE Subs[n][frame'[n].i]
    BY DEF Part
  <2>3. Part(n)' = m
    BY <1>4, <2>2
  <2> QED BY <2>1, <2>3, CallStructure DEF TaskInv
<1>8. ~Running(m) /\ Running(m)' /\ Running(n) /\ Running(n)'
  BY <1>4, <1>5 DEF Free, HasTurn, Running
<1>9. OwnEnds'
  <2>1. \A x \in Task : \/ (Running(x)' <=> Running(x)) /\ frame'[x].own = frame[x].own
                        \/ ~Running(x) /\ Running(x)'
    BY <1>4, <1>8 DEF Running
  <2> QED BY <1>1, <2>1, OwnStays DEF TaskInv
<1>10. EndedStay
  BY <1>1, <1>2 DEF TypeInv, EndedStay
<1>11. TaskOK(n)'
  <2>1. f.i \in Nat \ {0}
    BY DEF FrameSet
  <2>2. LocalOK(n)'
    BY <1>4, <2>1 DEF LocalOK, FrameOK, Accounted
  <2> QED BY <2>2 DEF TaskOK, SeesGiven
<1>12. TaskOK(m)'
  <2>1. "enter" \in Pcs(Kind[m])
    BY DEF Pcs
  <2>2. frame'[m].pc = "enter" /\ FrameOK(frame'[m])
    BY <1>4, <1>5 DEF FrameOK
  <2>3. LocalOK(m)'
    BY <2>1, <2>2 DEF LocalOK, Accounted, Counted
  <2> QED BY <2>2, <2>3 DEF TaskOK, SeesGiven
<1>13. ASSUME NEW x \in Task, x # n, x # m PROVE TaskOK(x)'
  <2>1. LocalOK(x)'
    BY <1>2, <1>4, <1>10, <1>13, OtherStays DEF TaskInv, TaskOK, RanOnly
  <2>2. SeesGiven(x)'
    BY <1>1, <1>4, <1>13, SeesStays DEF TaskInv, TaskOK
  <2> QED BY <2>1, <2>2 DEF TaskOK
<1> QED BY <1>6, <1>7, <1>9, <1>11, <1>12, <1>13 DEF TaskInv

(* The branches of n begin, with copies of its context.                     *)
LEMMA ForkInv ==
  ASSUME TaskInv, NEW n \in Task, ParallelStart(n)
  PROVE  TaskInv'
<1> DEFINE f == [frame[n] EXCEPT !.pc = "part"]
<1>1. /\ Kind[n] = "parallel" /\ frame[n].pc = "go"
      /\ frame' = [m \in Task |-> IF m \in Parts(n) THEN NewFrame
                                  ELSE IF m = n THEN f ELSE frame[m]]
      /\ ctxOf' = [m \in Task |-> IF m \in Parts(n) THEN Context(n) ELSE ctxOf[m]]
      /\ contexts' = contexts /\ root' = root /\ instances' = instances
      /\ given' = given /\ ran' = ran
  BY DEF ParallelStart, IsAt, history
<1>2. TypeInv /\ Len(contexts) \in Nat
  BY DEF TaskInv, TypeInv
<1>3. \A m \in Parts(n) : m \in Task /\ m # n /\ Owner[m] = m
  <2>1. ASSUME NEW m \in Parts(n) PROVE m # n
    BY PartShape, TreeAssumption
  <2> QED BY <1>1, <2>1, PartShape
<1>4. /\ frame'[n] = f
      /\ \A m \in Parts(n) : frame'[m] = NewFrame
      /\ \A x \in Task : x # n /\ x \notin Parts(n) => frame'[x] = frame[x]
  BY <1>1, <1>3
<1>5. /\ NewFrame.pc = "enter" /\ NewFrame.i = 1 /\ NewFrame.own = 0 /\ ~NewFrame.failed
      /\ \A m \in Task : NewFrame \in FrameSet(Len(contexts)) /\ Limited(m, NewFrame)
  BY <1>2, NewFrameType DEF NewFrame
<1>6. /\ f \in FrameSet(Len(contexts)) /\ Limited(n, f)
      /\ f.pc = "part" /\ f.own = frame[n].own /\ f.i = frame[n].i
  <2>1. frame[n] \in FrameSet(Len(contexts)) /\ Limited(n, frame[n])
    BY <1>2 DEF TypeInv
  <2>2. f \in FrameSet(Len(contexts)) /\ f.pc = "part" /\ f.own = frame[n].own /\ f.i = frame[n].i
    BY <2>1 DEF FrameSet
  <2> QED BY <2>1, <2>2 DEF Limited
<1> HIDE DEF f
<1>7. HasTurn(n) /\ Free(n)
  <2>1. HasTurn(n)
    BY <1>1 DEF HasTurn, Running
  <2> QED BY <1>1, <2>1, TurnIsFree DEF TaskInv, Structure
<1>8. TypeInv'
  <2>1. frame' \in [Task -> FrameSet(Len(contexts'))] /\ \A x \in Task : Limited(x, frame'[x])
    BY <1>1, <1>2, <1>4, <1>5, <1>6 DEF TypeInv
  <2>2. Context(n) \in DOMAIN contexts
    BY <1>2, TreeAssumption DEF TypeInv, Context
  <2>3. ctxOf' \in [Task -> DOMAIN contexts']
    BY <1>1, <1>2, <2>2 DEF TypeInv
  <2> QED BY <1>1, <1>2, <2>1, <2>3 DEF TypeInv
<1>9. Structure'
  <2>1. Same({n} \cup Parts(n)) /\ frame'[n].pc = "part" /\ \A m \in Parts(n) : frame'[m].pc = "enter"
    BY <1>4, <1>5, <1>6 DEF Same
  <2> QED BY <1>1, <1>7, <2>1, ForkStructure DEF TaskInv
<1>10. OwnEnds'
  <2>1. ASSUME NEW x \in Task
        PROVE  \/ (Running(x)' <=> Running(x)) /\ frame'[x].own = frame[x].own
               \/ ~Running(x) /\ Running(x)'
    <3>1. CASE x \in Parts(n)
      BY <1>4, <1>5, <1>7, <3>1 DEF Free, Running
    <3>2. CASE x = n
      BY <1>1, <1>4, <1>6, <3>2 DEF Running
    <3>3. CASE x \notin Parts(n) /\ x # n
      BY <1>4, <3>3 DEF Running
    <3> QED BY <3>1, <3>2, <3>3
  <2> QED BY <1>1, <2>1, OwnStays DEF TaskInv
<1>11. EndedStay
  BY <1>1, <1>2 DEF TypeInv, EndedStay
<1>12. ASSUME NEW x \in Task, x \notin Parts(n), frame[x].pc \in {"go", "part"},
              Kind[x] = "parallel"
       PROVE  ctxOf'[Owner[x]] = ctxOf[Owner[x]]
  <2>1. HasTurn(x)
    BY <1>12 DEF HasTurn, Running
  <2>2. Running(Owner[x]) /\ Owner[x] \in Task
    BY <2>1, TreeAssumption DEF TaskInv, Structure, Turns
  <2>3. Owner[x] \notin Parts(n)
    BY <1>7, <2>2 DEF Free
  <2> QED BY <1>1, <2>2, <2>3
<1>13. TaskOK(n)'
  <2>1. "part" \in Pcs(Kind[n]) /\ f.i \in Nat \ {0}
    BY <1>1, <1>6 DEF Pcs, FrameSet
  <2>2. LocalOK(n)'
    BY <1>1, <1>4, <1>6, <2>1 DEF LocalOK, FrameOK, Accounted, Counted
  <2>3. SeesGiven(n)
    BY DEF TaskInv, TaskOK
  <2>4. n \notin Parts(n)
    BY <1>3
  <2>5. SeesGiven(n)'
    BY <1>1, <1>4, <1>6, <1>12, <2>3, <2>4 DEF SeesGiven, Context
  <2> QED BY <2>2, <2>5 DEF TaskOK
<1>14. ASSUME NEW m \in Parts(n) PROVE TaskOK(m)'
  <2>1. "enter" \in Pcs(Kind[m])
    BY DEF Pcs
  <2>2. LocalOK(m)'
    BY <1>4, <1>5, <2>1 DEF LocalOK, FrameOK, Accounted, Counted
  <2> QED BY <1>4, <1>5, <2>2 DEF TaskOK, SeesGiven
<1>15. ASSUME NEW x \in Task, x # n, x \notin Parts(n) PROVE TaskOK(x)'
  <2>1. LocalOK(x)'
    BY <1>1, <1>2, <1>4, <1>11, <1>15, OtherStays DEF TaskInv, TaskOK
  <2>2. SeesGiven(x)
    BY DEF TaskInv, TaskOK
  <2>3. SeesGiven(x)'
    BY <1>1, <1>4, <1>12, <1>15, <2>2 DEF SeesGiven, Context
  <2> QED BY <2>1, <2>3 DEF TaskOK
<1> QED BY <1>8, <1>9, <1>10, <1>13, <1>14, <1>15 DEF TaskInv

(* n begins, with a context of its own if it has a timeout.                 *)
LEMMA EnterInv ==
  ASSUME TaskInv, NEW n \in Task, Enter(n)
  PROVE  TaskInv'
<1> DEFINE own == IF n \in Timed THEN Len(contexts) + 1 ELSE 0
           f == [frame[n] EXCEPT !.pc = "go", !.own = own]
           new == [parent |-> Context(n), status |-> Err(n)]
<1>1. /\ frame[n].pc = "enter" /\ root' = root /\ instances' = instances
      /\ frame' = [frame EXCEPT ![n].pc = "go", ![n].own = own]
      /\ given' = [given EXCEPT ![n] = Context(n)] /\ ran' = [ran EXCEPT ![n] = <<>>]
      /\ n \notin Timed => contexts' = contexts /\ ctxOf' = ctxOf
      /\ n \in Timed => /\ contexts' = Append(contexts, new)
                        /\ ctxOf' = [ctxOf EXCEPT ![Owner[n]] = Len(contexts) + 1]
  BY DEF Enter, WithTimeout, contextVars
<1>2. TypeInv /\ Len(contexts) \in Nat /\ DOMAIN contexts = 1..Len(contexts)
  BY DEF TaskInv, TypeInv
<1>3. Context(n) \in DOMAIN contexts /\ Err(n) \in Status /\ Owner[n] \in Task
  <2>1. Context(n) \in DOMAIN contexts /\ Owner[n] \in Task
    BY <1>2, TreeAssumption DEF TypeInv, Context
  <2>2. contexts[Context(n)] \in ContextSet(Len(contexts))
    BY <1>2, <2>1 DEF TypeInv
  <2> QED BY <2>1, <2>2 DEF ContextSet, Err
<1>4. frame'[n] = f /\ given'[n] = Context(n) /\ ran'[n] = <<>>
      /\ \A x \in Task : x # n => frame'[x] = frame[x] /\ given'[x] = given[x] /\ ran'[x] = ran[x]
  BY <1>1, <1>2 DEF TypeInv
<1>5. /\ Len(contexts') \in {Len(contexts), Len(contexts) + 1}
      /\ n \in Timed => Len(contexts') = Len(contexts) + 1
      /\ contexts' \in Seq(ContextSet(Len(contexts')))
      /\ \A c \in DOMAIN contexts : contexts'[c] = contexts[c]
      /\ DOMAIN contexts' = 1..Len(contexts')
  <2>1. CASE n \notin Timed
    BY <1>1, <1>2, <2>1 DEF TypeInv
  <2>2. CASE n \in Timed
    <3>1. new \in ContextSet(Len(contexts) + 1)
      BY <1>2, <1>3 DEF ContextSet
    <3>2. ContextSet(Len(contexts)) \subseteq ContextSet(Len(contexts) + 1)
      BY <1>2 DEF ContextSet
    <3>3. contexts \in Seq(ContextSet(Len(contexts) + 1))
      BY <1>2, <3>2 DEF TypeInv
    <3> HIDE DEF new
    <3>4. contexts' = Append(contexts, new)
      BY <1>1, <2>2
    <3> QED BY <1>2, <3>1, <3>3, <3>4
  <2> QED BY <2>1, <2>2
<1>16. /\ Len(contexts') \in Nat /\ Len(contexts) <= Len(contexts')
       /\ \A c \in DOMAIN contexts : c \in DOMAIN contexts'
       /\ own \in 0..Len(contexts') /\ (n \in Timed => own \in DOMAIN contexts')
       /\ \A c \in DOMAIN contexts' : c \notin DOMAIN contexts => n \in Timed /\ c = own
  <2>1. Len(contexts) \in Nat /\ Len(contexts) + 1 \in Nat
    BY <1>2
  <2>2. CASE n \in Timed
    <3>1. /\ DOMAIN contexts = 1..Len(contexts) /\ DOMAIN contexts' = 1..(Len(contexts) + 1)
          /\ own = Len(contexts) + 1 /\ Len(contexts') = Len(contexts) + 1
      BY <1>2, <1>5, <2>2
    <3> QED BY ONLY <2>1, <2>2, <3>1
  <2>3. CASE n \notin Timed
    <3>1. contexts' = contexts /\ own = 0
      BY <1>1, <2>3
    <3> QED BY ONLY <2>1, <2>3, <3>1
  <2> QED BY <2>2, <2>3
<1>17. n \in Timed => own = Len(contexts) + 1 /\ own # 0
  BY <1>2
<1> HIDE DEF own
<1>6. FrameSet(Len(contexts)) \subseteq FrameSet(Len(contexts'))
      /\ InstanceSet(Len(contexts)) \subseteq InstanceSet(Len(contexts'))
  <2>1. 0..Len(contexts) \subseteq 0..Len(contexts')
    BY <1>2, <1>16
  <2> QED BY ONLY <2>1 DEF FrameSet, InstanceSet
<1>7. /\ f \in FrameSet(Len(contexts')) /\ Limited(n, f) /\ f.pc = "go" /\ f.own = own
      /\ f.i = 1 /\ ~f.failed
  <2>1. frame[n] \in FrameSet(Len(contexts')) /\ Limited(n, frame[n])
    BY <1>2, <1>6 DEF TypeInv
  <2>2. own \in 0..Len(contexts')
    BY <1>16
  <2>3. frame[n].i = 1 /\ ~frame[n].failed
    BY <1>1 DEF TaskInv, TaskOK, LocalOK, FrameOK
  <2>4. f \in FrameSet(Len(contexts')) /\ f.pc = "go" /\ f.own = own /\ f.i = frame[n].i
        /\ f.failed = frame[n].failed
    BY <2>1, <2>2 DEF FrameSet
  <2> HIDE DEF f
  <2> QED BY <2>1, <2>3, <2>4 DEF Limited
<1> HIDE DEF f
<1>8. HasTurn(n) /\ Free(n)
  <2>1. HasTurn(n)
    BY <1>1 DEF HasTurn, Running
  <2> QED BY <1>1, <2>1, TurnIsFree DEF TaskInv, Structure
<1>9. TypeInv'
  <2>1. frame' \in [Task -> FrameSet(Len(contexts'))] /\ \A x \in Task : Limited(x, frame'[x])
    <3>1. \A x \in Task : frame'[x] \in FrameSet(Len(contexts')) /\ Limited(x, frame'[x])
      BY <1>2, <1>4, <1>6, <1>7 DEF TypeInv
    <3>2. DOMAIN frame' = Task /\ frame' = [x \in Task |-> frame'[x]]
      BY <1>1, <1>2 DEF TypeInv
    <3> QED BY <3>1, <3>2
  <2>2. DOMAIN contexts \subseteq DOMAIN contexts' /\ (n \in Timed => Len(contexts) + 1 \in DOMAIN contexts')
    BY <1>16, <1>17
  <2>3. ctxOf' \in [Task -> DOMAIN contexts'] /\ given' \in [Task -> DOMAIN contexts']
    BY <1>1, <1>2, <1>3, <2>2 DEF TypeInv
  <2>4. instances' \in Seq(InstanceSet(Len(contexts')))
    BY <1>1, <1>2, <1>6 DEF TypeInv
  <2>5. ran' \in [Task -> Seq(Results \cup {"panic"})]
    BY <1>1, <1>2 DEF TypeInv
  <2> QED BY <1>1, <1>2, <1>5, <2>1, <2>3, <2>4, <2>5 DEF TypeInv
<1>10. Structure'
  <2>1. Same({n}) /\ frame'[n].pc = "go"
    BY <1>4, <1>7 DEF Same
  <2> QED BY <1>1, <1>8, <2>1, GoesOnStructure DEF TaskInv
<1>11. OwnEnds'
  <2>1. Running(n) /\ Running(n)' /\ frame[n].own = 0
    BY <1>1, <1>4, <1>7 DEF Running, TaskInv, TaskOK, LocalOK, FrameOK
  <2>2. \A x \in Task : x # n => (Running(x)' <=> Running(x)) /\ frame'[x].own = frame[x].own
    BY <1>4 DEF Running
  <2>3. \A x \in Task : frame[x].own # 0 => frame[x].own \in DOMAIN contexts
    BY <1>2 DEF TypeInv, FrameSet
  <2>4. ASSUME NEW x \in Task, ~Running(x)', frame'[x].own # 0
        PROVE  contexts'[frame'[x].own].status # "live"
    <3>1. x # n
      BY <2>1, <2>4
    <3>2. contexts[frame[x].own].status # "live" /\ frame[x].own \in DOMAIN contexts
      BY <2>2, <2>3, <2>4, <3>1 DEF TaskInv, OwnEnds, Canceled
    <3> QED BY <1>5, <2>2, <3>1, <3>2
  <2>5. ASSUME NEW c \in DOMAIN contexts', c > 1, contexts'[c].status = "live"
        PROVE  \E x \in Task : Running(x)' /\ frame'[x].own = c
    <3>1. CASE c \in DOMAIN contexts
      <4>1. PICK x \in Task : Running(x) /\ frame[x].own = c
        BY <1>5, <2>5, <3>1 DEF TaskInv, OwnEnds, Canceled
      <4>2. x # n
        BY <2>1, <2>5, <4>1
      <4> QED BY <2>2, <4>1, <4>2
    <3>2. CASE c \notin DOMAIN contexts
      <4>1. n \in Timed /\ c = own
        BY <1>16, <2>5, <3>2
      <4> QED BY <1>4, <1>7, <2>1, <4>1
    <3> QED BY <3>1, <3>2
  <2> QED BY <2>4, <2>5 DEF OwnEnds, Canceled
<1>12. EndedStay
  BY <1>5, <1>16 DEF EndedStay
<1>13. LocalOK(n)'
  <2>1. "go" \in Pcs(Kind[n])
    BY DEF Pcs
  <2>2. Fails(<<>>) = {} /\ Len(<<>>) = 0 /\ DOMAIN <<>> = {}
    BY DEF Fails
  <2>3. FrameOK(f)
    BY <1>7 DEF FrameOK
  <2>4. Counted(n, f, <<>>)
    <3>1. Subs[n] \in Seq(Task) /\ Len(Subs[n]) \in Nat /\ DOMAIN Subs[n] = 1..Len(Subs[n])
      BY PartCount
    <3>2. Kind[n] = "retry" => Limit[n] \in Nat \ {0} /\ 1 <= Limit[n]
      BY LimitAssumption
    <3>3. Kind[n] = "conditional" => Len(Subs[n]) \in {1, 2}
      BY PartCount
    <3>4. Kind[n] = "conditional" => 1 \in DOMAIN Subs[n]
      <4>1. Kind[n] = "conditional" => 1..Len(Subs[n]) \in {1..1, 1..2}
        BY <3>3
      <4> QED BY <3>1, <4>1
    <3>5. 1 <= Len(Subs[n]) + 1
      BY <3>1
    <3> QED BY <1>7, <2>2, <3>2, <3>4, <3>5 DEF Counted
  <2> QED BY <1>4, <1>7, <2>1, <2>3, <2>4 DEF LocalOK, Accounted
<1>14. SeesGiven(n)'
  <2>1. CASE n \notin Timed
    <3>1. Context(n)' = Context(n)
      BY <1>1, <2>1 DEF Context
    <3>2. Context(n) # 0
      BY <1>2, <1>3
    <3> QED BY <1>4, <3>1, <3>2 DEF SeesGiven
  <2>2. CASE n \in Timed
    <3>1. Context(n)' = own /\ own # 0
      BY <1>1, <1>2, <1>3, <1>17, <2>2 DEF Context, TypeInv
    <3>2. frame'[n].own = own
      BY <1>4, <1>7
    <3> QED BY <3>1, <3>2 DEF SeesGiven
  <2> QED BY <2>1, <2>2
<1>15. ASSUME NEW x \in Task, x # n PROVE TaskOK(x)'
  <2>1. LocalOK(x)'
    BY <1>2, <1>4, <1>12, <1>15, OtherStays DEF TaskInv, TaskOK
  <2>2. SeesGiven(x)'
    <3> SUFFICES ASSUME Kind[x] = "parallel", frame[x].pc \in {"go", "part"}
                 PROVE  Context(x)' \in {given[x], frame[x].own} \ {0}
      BY <1>4, <1>15 DEF SeesGiven
    <3>1. HasTurn(x)
      BY DEF HasTurn, Running
    <3>2. Owner[x] # Owner[n]
      BY <1>8, <1>15, <3>1 DEF TaskInv, Structure, Turns
    <3>3. Context(x)' = Context(x)
      BY <1>1, <1>2, <3>2, TreeAssumption DEF Context, TypeInv
    <3> QED BY <3>3 DEF TaskInv, TaskOK, SeesGiven
  <2> QED BY <2>1, <2>2 DEF TaskOK
<1> QED BY <1>9, <1>10, <1>11, <1>13, <1>14, <1>15 DEF TaskInv, TaskOK

(* A context ends, or an instance changes.                                  *)
LEMMA WorldInv ==
  ASSUME TaskInv, frame' = frame, root' = root, given' = given, ran' = ran, ctxOf' = ctxOf,
         instances' \in Seq(InstanceSet(Len(contexts))),
         \/ contexts' = contexts
         \/ \E c \in DOMAIN contexts, how \in Status \ {"live"} : contexts' = Ended(c, how)
  PROVE  TaskInv'
<1>1. TypeInv /\ Len(contexts) \in Nat /\ DOMAIN contexts = 1..Len(contexts)
  BY DEF TaskInv, TypeInv
<1>2. /\ contexts' \in Seq(ContextSet(Len(contexts))) /\ Len(contexts') = Len(contexts)
      /\ DOMAIN contexts' = DOMAIN contexts /\ EndedStay
  <2>1. CASE contexts' = contexts
    BY <1>1, <2>1 DEF TypeInv, EndedStay
  <2>2. ASSUME NEW c \in DOMAIN contexts, NEW how \in Status \ {"live"}, contexts' = Ended(c, how)
        PROVE  /\ contexts' \in Seq(ContextSet(Len(contexts))) /\ Len(contexts') = Len(contexts)
               /\ DOMAIN contexts' = DOMAIN contexts /\ EndedStay
    BY <1>1, <2>2, EndedShape
  <2> QED BY <2>1, <2>2
<1>3. TypeInv'
  <2>1. contexts' \in Seq(ContextSet(Len(contexts')))
    BY <1>2
  <2> QED BY <1>1, <1>2, <2>1 DEF TypeInv
<1>4. Structure'
  BY DEF TaskInv, Structure, Nested, Turns, OneRoot, HasTurn, Running, Part
<1>5. OwnEnds'
  <2>1. \A x \in Task : Running(x)' <=> Running(x)
    BY DEF Running
  <2>2. \A x \in Task : frame[x].own # 0 => frame[x].own \in DOMAIN contexts
    BY <1>1 DEF TypeInv, FrameSet
  <2>3. \A c \in DOMAIN contexts : contexts[c].status # "live" => contexts'[c].status # "live"
    BY <1>2 DEF EndedStay, Canceled
  <2>4. ASSUME NEW x \in Task, ~Running(x)', frame'[x].own # 0
        PROVE  contexts'[frame'[x].own].status # "live"
    BY <2>1, <2>2, <2>3, <2>4 DEF TaskInv, OwnEnds, Canceled
  <2>5. ASSUME NEW c \in DOMAIN contexts', c > 1, contexts'[c].status = "live"
        PROVE  \E x \in Task : Running(x)' /\ frame'[x].own = c
    BY <1>2, <2>1, <2>3, <2>5 DEF TaskInv, OwnEnds, Canceled
  <2> QED BY <2>4, <2>5 DEF OwnEnds, Canceled
<1>6. ASSUME NEW x \in Task PROVE TaskOK(x)'
  <2>1. LocalOK(x)'
    BY <1>1, <1>2, OtherStays DEF TaskInv, TaskOK
  <2>2. SeesGiven(x)'
    BY SeesStays DEF TaskInv, TaskOK
  <2> QED BY <2>1, <2>2 DEF TaskOK
<1> QED BY <1>3, <1>4, <1>5, <1>6 DEF TaskInv

-----------------------------------------------------------------------------
(* What the actions have in common.                                         *)
LEMMA ErrShape ==
  ASSUME TypeInv, NEW n \in Task
  PROVE  Context(n) \in DOMAIN contexts /\ Err(n) \in Status /\ (Done(n) => Err(n) \in Results)
<1>1. Context(n) \in DOMAIN contexts
  BY TreeAssumption DEF TypeInv, Context
<1>2. contexts[Context(n)] \in ContextSet(Len(contexts))
  BY <1>1 DEF TypeInv
<1> QED BY <1>1, <1>2 DEF ContextSet, Err, Done, Results

LEMMA RanStays ==
  ASSUME TypeInv, NEW n \in Task, ran' = ran
  PROVE  RanOnly(n)
  BY DEF TypeInv, RanOnly

(* n, which is not parallel, returns.                                       *)
LEMMA ReturnInv ==
  ASSUME TaskInv, NEW n \in Task, NEW out \in Results \cup {"panic"}, Finish(n, out),
         RanOnly(n), HasTurn(n), Kind[n] # "parallel",
         out = "panic" \/ Explained(n, out, ran'[n])
  PROVE  TaskInv'
<1>1. Free(n)
  BY TurnIsFree DEF TaskInv, Structure
<1>2. frame'[n].out = out
  BY DEF Finish, Leave, TaskInv, TypeInv, FrameSet
<1>3. Explained(n, out, ran'[n]) => Explained(n, frame[n].out, ran[n])'
  BY <1>2 DEF Explained
<1> QED BY <1>1, <1>2, <1>3, FinishInv DEF Accounted

Leaves == {"inline", "call", "wait", "human", "escalation", "subworkflow"}

LEMMA LeafReturns ==
  ASSUME TaskInv, NEW n \in Task, NEW out \in Results \cup {"panic"}, Finish(n, out), ran' = ran,
         Kind[n] \in Leaves, frame[n].pc \in {"go", "await", "started"}
  PROVE  TaskInv'
<1>1. HasTurn(n) /\ Kind[n] # "parallel"
  BY DEF HasTurn, Running, Leaves
<1>2. Explained(n, out, ran'[n])
  BY DEF Explained, Leaves
<1>3. RanOnly(n)
  BY RanStays DEF TaskInv
<1> QED BY <1>1, <1>2, <1>3, ReturnInv

LEMMA LeafContinues ==
  ASSUME TaskInv, NEW n \in Task, NEW f \in FrameSet(Len(contexts)), Limited(n, f),
         frame' = [frame EXCEPT ![n] = f], UNCHANGED <<contextVars, root, given, ran>>,
         instances' \in Seq(InstanceSet(Len(contexts))),
         Kind[n] \in Leaves, frame[n].pc \in {"go", "await", "started"},
         f.own = frame[n].own, f.pc \in {"await", "started"} \cap Pcs(Kind[n])
  PROVE  TaskInv'
<1>1. HasTurn(n) /\ Kind[n] # "parallel"
  BY DEF HasTurn, Running, Leaves
<1>2. Free(n)
  BY <1>1, TurnIsFree DEF TaskInv, Structure
<1>3. Counted(n, f, ran'[n])
  BY DEF Counted, Leaves
<1>4. RanOnly(n)
  BY RanStays DEF TaskInv
<1> QED BY <1>1, <1>2, <1>3, <1>4, ContinueInv

(* The part that n waits for has returned.                                  *)
LEMMA PartBack ==
  ASSUME TaskInv, NEW n \in Task, NEW kind, kind # "parallel", PartReturned(n, kind)
  PROVE  /\ Kind[n] = kind /\ frame[n].pc = "part" /\ HasTurn(n) /\ Free(n) /\ RanOnly(n)
         /\ Result(n) \in Results /\ frame[n].i \in Nat \ {0}
         /\ ran[n] \in Seq(Results \cup {"panic"})
         /\ ran'[n] = Append(ran[n], Result(n)) /\ Len(ran[n]) \in Nat
         /\ Len(ran'[n]) = Len(ran[n]) + 1 /\ ran'[n][Len(ran[n]) + 1] = Result(n)
         /\ \A k \in DOMAIN ran[n] : ran'[n][k] = ran[n][k]
         /\ DOMAIN ran[n] = 1..Len(ran[n]) /\ DOMAIN ran'[n] = 1..(Len(ran[n]) + 1)
         /\ Fails(ran'[n]) = Fails(ran[n]) \cup (IF Result(n) = "ok" THEN {} ELSE {Len(ran[n]) + 1})
         /\ Counted(n, frame[n], ran[n])
<1>1. /\ Kind[n] = kind /\ frame[n].pc = "part"
      /\ frame[Part(n)].pc = "done" /\ Result(n) # "panic"
      /\ ran' = [ran EXCEPT ![n] = Append(ran[n], Result(n))]
  BY DEF PartReturned, IsAt
<1>2. TypeInv /\ \A x \in Task : TaskOK(x)
  BY DEF TaskInv
<1>3. HasTurn(n)
  BY <1>1 DEF HasTurn, Running
<1>4. Free(n)
  BY <1>1, <1>3, TurnIsFree DEF TaskInv, Structure
<1>5. Part(n) \in Task
  BY <1>1, <1>2, PartIsPart, PartShape
<1>6. Result(n) \in Results
  <2>1. frame[Part(n)] \in FrameSet(Len(contexts)) /\ frame[Part(n)].out # "none"
    BY <1>1, <1>2, <1>5 DEF TypeInv, TaskOK, LocalOK, FrameOK
  <2> QED BY <1>1, <2>1 DEF Result, FrameSet
<1>7. frame[n].i \in Nat \ {0} /\ Counted(n, frame[n], ran[n])
  BY <1>2 DEF TaskOK, LocalOK, FrameOK
<1> DEFINE S == Results \cup {"panic"}
           r == Result(n)
           rs == ran[n]
<1>8. rs \in Seq(S) /\ r \in S /\ ran \in [Task -> Seq(S)]
  BY <1>2, <1>6 DEF TypeInv
<1> HIDE DEF S
<1>9. ran'[n] = Append(rs, r) /\ Append(rs, r) \in Seq(S)
  BY <1>1, <1>8
<1>10. RanOnly(n)
  <2>1. ran' \in [Task -> Seq(S)] /\ \A x \in Task : x # n => ran'[x] = ran[x]
    BY <1>1, <1>8, <1>9
  <2> QED BY <2>1 DEF RanOnly, S
<1> HIDE DEF r, rs
<1>11. /\ Len(rs) \in Nat /\ Len(Append(rs, r)) = Len(rs) + 1 /\ Append(rs, r)[Len(rs) + 1] = r
       /\ DOMAIN rs = 1..Len(rs) /\ DOMAIN Append(rs, r) = 1..(Len(rs) + 1)
       /\ \A k \in DOMAIN rs : Append(rs, r)[k] = rs[k]
  BY <1>8
<1>12. Fails(Append(rs, r)) = Fails(rs) \cup (IF r = "ok" THEN {} ELSE {Len(rs) + 1})
  <2>1. 1..(Len(rs) + 1) = (1..Len(rs)) \cup {Len(rs) + 1}
    BY <1>11
  <2> QED BY <1>11, <2>1 DEF Fails
<1> QED BY <1>1, <1>3, <1>4, <1>6, <1>7, <1>8, <1>9, <1>10, <1>11, <1>12 DEF r, rs, S

(* n calls its part k.                                                      *)
LEMMA CallsInv ==
  ASSUME TaskInv, NEW n \in Task, NEW k \in DOMAIN Subs[n], NEW f \in FrameSet(Len(contexts)),
         CallPart(n, k, f), Limited(n, f), RanOnly(n), HasTurn(n), Free(n), f.own = frame[n].own,
         Kind[n] \in {"sequence", "retry", "recovery", "conditional"},
         Counted(n, [f EXCEPT !.pc = "part"], ran'[n]),
         k = IF Kind[n] = "retry" THEN 1 ELSE f.i
  PROVE  TaskInv'
<1> DEFINE g == [f EXCEPT !.pc = "part"]
           m == Subs[n][k]
<1>1. g \in FrameSet(Len(contexts)) /\ g.pc = "part" /\ g.own = f.own /\ g.i = f.i
  BY DEF FrameSet
<1>2. Limited(n, g)
  BY <1>1 DEF Limited
<1>3. /\ frame' = [frame EXCEPT ![n] = g, ![m] = NewFrame]
      /\ UNCHANGED contextVars /\ root' = root /\ given' = given /\ instances' = instances
  BY DEF CallPart
<1>4. m \in Parts(n)
  BY DEF Parts
<1>5. "part" \in Pcs(Kind[n]) /\ Kind[n] # "parallel"
  BY DEF Pcs
<1>6. m = IF Kind[n] = "retry" THEN Subs[n][1] ELSE Subs[n][g.i]
  BY <1>1
<1>7. Counted(n, g, ran'[n])
  OBVIOUS
<1> HIDE DEF g, m
<1> QED BY <1>1, <1>2, <1>3, <1>4, <1>5, <1>6, <1>7, CallInv

-----------------------------------------------------------------------------
(* Every action.                                                            *)
LEMMA PanicInv ==
  ASSUME TaskInv, NEW n \in Task, PartPanicked(n)
  PROVE  TaskInv'
<1>1. /\ Finish(n, "panic") /\ ran' = ran /\ frame[n].pc = "part" /\ Kind[n] # "parallel"
      /\ frame[Part(n)].pc = "done"
  BY DEF PartPanicked
<1>2. HasTurn(n)
  BY <1>1 DEF HasTurn, Running
<1>3. RanOnly(n)
  BY <1>1, RanStays DEF TaskInv
<1> QED BY <1>1, <1>2, <1>3, ReturnInv

LEMMA SequenceInv ==
  ASSUME TaskInv, NEW n \in Task, SequenceNext(n) \/ SequenceReturned(n) \/ SequenceEnd(n)
  PROVE  TaskInv'
<1> DEFINE f == frame[n]
           rs == ran[n]
           parts == Len(Subs[n])
<1>1. /\ TypeInv /\ f \in FrameSet(Len(contexts)) /\ f.i \in Nat \ {0} /\ f.failed \in BOOLEAN
      /\ rs \in Seq(Results \cup {"panic"}) /\ Len(rs) \in Nat
      /\ Counted(n, f, rs)
  <2>1. TypeInv /\ f \in FrameSet(Len(contexts)) /\ rs \in Seq(Results \cup {"panic"})
    BY DEF TaskInv, TypeInv
  <2>2. Counted(n, f, rs)
    BY DEF TaskInv, TaskOK, LocalOK
  <2> QED BY <2>1, <2>2 DEF FrameSet
<1>2. parts \in Nat /\ DOMAIN Subs[n] = 1..parts
  BY PartCount
<1>3. CASE IsAt(n, "sequence", "go")
  <2>1. Kind[n] = "sequence" /\ f.pc = "go" /\ HasTurn(n)
    BY <1>3 DEF IsAt, HasTurn, Running
  <2>2. Free(n)
    BY <2>1, TurnIsFree DEF TaskInv, Structure
  <2>3. /\ Len(rs) = f.i - 1 /\ f.i <= parts + 1
        /\ f.failed <=> Fails(rs) # {}
        /\ n \notin ContinueOnError => Fails(rs) = {}
    BY <1>1, <2>1 DEF Counted
  <2>4. ran' = ran /\ RanOnly(n)
    BY <1>1, <1>3, RanStays DEF SequenceNext, SequenceReturned, SequenceEnd, PartReturned, IsAt
  <2>5. CASE f.i <= parts /\ Done(n) /\ Finish(n, Err(n))
    <3>1. Err(n) \in Results /\ Err(n) \notin {"ok", "fail"}
      BY <1>1, <2>5, ErrShape DEF Status
    <3>2. Explained(n, Err(n), rs)
      BY <2>1, <2>3, <3>1 DEF Explained, Fails
    <3> QED BY <2>1, <2>4, <2>5, <3>1, <3>2, ReturnInv
  <2>6. CASE f.i <= parts /\ CallPart(n, f.i, f)
    <3>1. f.i \in DOMAIN Subs[n]
      BY <1>1, <1>2, <2>6
    <3>2. [f EXCEPT !.pc = "part"].pc = "part" /\ [f EXCEPT !.pc = "part"].i = f.i
          /\ [f EXCEPT !.pc = "part"].failed = f.failed
      BY <1>1 DEF FrameSet
    <3>3. Counted(n, [f EXCEPT !.pc = "part"], rs)
      BY <2>1, <2>3, <2>6, <3>2 DEF Counted
    <3>4. Limited(n, f)
      BY <1>1 DEF TypeInv
    <3> QED BY <1>1, <2>1, <2>2, <2>4, <2>6, <3>1, <3>3, <3>4, CallsInv
  <2>7. CASE SequenceEnd(n)
    <3> DEFINE out == IF f.failed THEN "fail" ELSE "ok"
    <3>1. Finish(n, out) /\ f.i > parts /\ out \in Results
      BY <2>7 DEF SequenceEnd, Results
    <3>2. Len(rs) = parts
      BY <1>1, <1>2, <2>3, <3>1
    <3>3. Explained(n, out, rs)
      BY <2>1, <2>3, <3>2 DEF Explained, Fails
    <3> QED BY <2>1, <2>4, <3>1, <3>3, ReturnInv
  <2>8. ~SequenceReturned(n)
    BY <2>1 DEF SequenceReturned, PartReturned, IsAt
  <2> QED BY <2>5, <2>6, <2>7, <2>8 DEF SequenceNext
<1>4. CASE SequenceReturned(n)
  <2>1. PartReturned(n, "sequence")
    BY <1>4 DEF SequenceReturned
  <2> DEFINE r == Result(n)
             rr == ran'[n]
  <2>2. /\ Kind[n] = "sequence" /\ f.pc = "part" /\ HasTurn(n) /\ Free(n) /\ RanOnly(n)
        /\ r \in Results /\ Len(rr) = Len(rs) + 1
        /\ Fails(rr) = Fails(rs) \cup (IF r = "ok" THEN {} ELSE {Len(rs) + 1})
    BY <2>1, PartBack
  <2>3. /\ Len(rs) = f.i - 1 /\ f.i <= parts
        /\ f.failed <=> Fails(rs) # {}
        /\ n \notin ContinueOnError => Fails(rs) = {}
    BY <1>1, <2>2 DEF Counted
  <2> HIDE DEF rr, rs, r
  <2>4. CASE r # "ok" /\ n \notin ContinueOnError /\ Finish(n, r)
    <3>1. Fails(rr) # {} /\ Fails(rr) \subseteq {Len(rr)}
      BY <2>2, <2>3, <2>4
    <3>2. Explained(n, r, rr)
      BY <2>2, <2>4, <3>1 DEF Explained, Fails
    <3> QED BY <2>2, <2>4, <3>2, ReturnInv DEF rr
  <2>5. CASE /\ r = "ok" \/ n \in ContinueOnError
             /\ Continue(n, [f EXCEPT !.pc = "go", !.i = @ + 1, !.failed = @ \/ r # "ok"])
    <3> DEFINE g == [f EXCEPT !.pc = "go", !.i = @ + 1, !.failed = @ \/ r # "ok"]
    <3>1. /\ g \in FrameSet(Len(contexts)) /\ g.own = f.own
          /\ g.pc = "go" /\ g.i = f.i + 1 /\ g.failed = (f.failed \/ r # "ok")
      <4>1. f.i + 1 \in Nat \ {0}
        BY <1>1
      <4> QED BY <1>1, <4>1 DEF FrameSet
    <3>2. UNCHANGED contextVars /\ root' = root /\ given' = given /\ instances' = instances
          /\ frame' = [frame EXCEPT ![n] = g]
      BY <2>5 DEF Continue
    <3> HIDE DEF g
    <3>3. g.failed <=> Fails(rr) # {}
      <4>1. Fails(rr) # {} <=> Fails(rs) # {} \/ r # "ok"
        BY <2>2
      <4>2. g.failed <=> f.failed \/ r # "ok"
        BY <3>1
      <4> QED BY <2>3, <4>1, <4>2
    <3>4. Len(rr) = g.i - 1 /\ g.i <= parts + 1
      <4>1. f.i \in Nat /\ parts \in Nat /\ Len(rr) = (f.i - 1) + 1 /\ g.i = f.i + 1 /\ f.i <= parts
        BY <1>1, <1>2, <2>2, <2>3, <3>1
      <4> QED BY ONLY <4>1
    <3>5. n \notin ContinueOnError => Fails(rr) = {}
      BY <2>2, <2>3, <2>5
    <3>6. Counted(n, g, rr)
      BY <2>2, <3>1, <3>3, <3>4, <3>5 DEF Counted
    <3>7. Limited(n, g) /\ Kind[n] # "parallel" /\ g.pc \in {"go", "await", "started"} \cap Pcs(Kind[n])
      BY <2>2, <3>1 DEF Limited, Pcs
    <3>8. instances' \in Seq(InstanceSet(Len(contexts)))
      BY <1>1, <3>2 DEF TypeInv
    <3> QED BY <2>2, <3>1, <3>2, <3>6, <3>7, <3>8, ContinueInv DEF rr
  <2> QED BY <1>4, <2>4, <2>5 DEF SequenceReturned, r
<1> QED BY <1>3, <1>4 DEF SequenceNext, SequenceEnd

(* All branches of n have returned.                                         *)
LEMMA JoinInv ==
  ASSUME TaskInv, NEW n \in Task, ParallelDone(n)
  PROVE  TaskInv'
<1> DEFINE results == [k \in DOMAIN Subs[n] |-> frame[Subs[n][k]].out]
           well == Err(n) # "deadline" /\ \A k \in DOMAIN results : results[k] = "ok"
           out == IF well THEN "ok" ELSE "fail"
<1>1. /\ Kind[n] = "parallel" /\ frame[n].pc = "part" /\ \A m \in Parts(n) : frame[m].pc = "done"
      /\ ran' = [ran EXCEPT ![n] = results] /\ Finish(n, out)
  BY DEF ParallelDone, IsAt
<1>2. TypeInv /\ \A x \in Task : TaskOK(x)
  BY DEF TaskInv
<1>3. HasTurn(n) /\ Free(n)
  BY <1>1 DEF HasTurn, Running, Free
<1>4. Len(Subs[n]) \in Nat /\ DOMAIN Subs[n] = 1..Len(Subs[n])
  BY PartCount
<1>5. ASSUME NEW k \in DOMAIN Subs[n] PROVE frame[Subs[n][k]].out \in Results \cup {"panic"}
  <2>1. Subs[n][k] \in Parts(n) /\ Subs[n][k] \in Task
    BY PartShape DEF Parts
  <2>2. frame[Subs[n][k]].out # "none" /\ frame[Subs[n][k]] \in FrameSet(Len(contexts))
    BY <1>1, <1>2, <2>1 DEF TaskOK, LocalOK, FrameOK, TypeInv
  <2> QED BY <2>2 DEF FrameSet
<1>6. results \in Seq(Results \cup {"panic"}) /\ Len(results) = Len(Subs[n])
      /\ DOMAIN results = DOMAIN Subs[n]
  <2>1. results \in [1..Len(Subs[n]) -> Results \cup {"panic"}]
    BY <1>4, <1>5
  <2> HIDE DEF results
  <2> QED BY <1>4, <2>1
<1>7. out \in Results
  BY DEF Results
<1> HIDE DEF results
<1>8. RanOnly(n) /\ ran'[n] = results
  BY <1>1, <1>2, <1>6 DEF TypeInv, RanOnly
<1>9. /\ frame'[n].out = out /\ frame'[n].own = frame[n].own /\ given'[n] = given[n]
      /\ contexts' = IF frame[n].own = 0 THEN contexts ELSE Ended(frame[n].own, "canceled")
  BY <1>1, <1>2 DEF Finish, Leave, TypeInv, FrameSet
<1>10. \A c \in DOMAIN contexts : contexts[c].status = "deadline" => contexts'[c].status = "deadline"
  <2>1. CASE frame[n].own = 0
    BY <1>9, <2>1
  <2>2. CASE frame[n].own # 0
    <3>1. frame[n].own \in DOMAIN contexts
      BY <1>2, <2>2 DEF TypeInv, FrameSet
    <3>2. "canceled" \in Status \ {"live"}
      BY DEF Status
    <3>3. EndedStay
      BY <1>2, <1>9, <2>2, <3>1, <3>2, EndedShape
    <3> QED BY <3>3 DEF EndedStay, Canceled
  <2> QED BY <2>1, <2>2
<1>11. Context(n) \in {given[n], frame[n].own} \ {0} /\ Context(n) \in DOMAIN contexts
  BY <1>1, <1>2, ErrShape DEF TaskOK, SeesGiven
<1>12. out # "ok" =>
         \/ Fails(results) # {}
         \/ \E c \in {given[n], frame[n].own} \ {0} : contexts'[c].status = "deadline"
  <2>1. CASE Err(n) = "deadline"
    BY <1>10, <1>11, <2>1 DEF Err
  <2>2. CASE Err(n) # "deadline"
    BY <2>2 DEF Fails
  <2> QED BY <2>1, <2>2
<1>13. out = "ok" => Fails(results) = {}
  BY DEF Fails
<1> HIDE DEF out
<1>14. Accounted(n)'
  <2>1. /\ out = "ok" => {k \in DOMAIN results : results[k] # "ok"} = {}
        /\ out # "ok" => \/ {k \in DOMAIN results : results[k] # "ok"} # {}
                         \/ \E c \in {given'[n], frame'[n].own} \ {0} : contexts'[c].status = "deadline"
    BY <1>9, <1>12, <1>13 DEF Fails
  <2>2. Explained(n, frame[n].out, ran[n])'
    BY <1>1, <1>6, <1>8, <1>9, <2>1 DEF Explained
  <2> QED BY <2>2 DEF Accounted
<1> QED BY <1>1, <1>3, <1>7, <1>8, <1>14, FinishInv

LEMMA RetryInv ==
  ASSUME TaskInv, NEW n \in Task,
         RetryAttempt(n) \/ RetryReturned(n) \/ BackoffOver(n) \/ BackoffCancelled(n)
  PROVE  TaskInv'
<1> DEFINE f == frame[n]
           rs == ran[n]
           limit == Limit[n]
<1>1. /\ TypeInv /\ f \in FrameSet(Len(contexts)) /\ f.i \in Nat \ {0} /\ Limited(n, f)
      /\ rs \in Seq(Results \cup {"panic"}) /\ Len(rs) \in Nat /\ DOMAIN rs = 1..Len(rs)
      /\ Counted(n, f, rs)
  <2>1. /\ TypeInv /\ f \in FrameSet(Len(contexts)) /\ rs \in Seq(Results \cup {"panic"})
        /\ Limited(n, f)
    BY DEF TaskInv, TypeInv
  <2>2. Counted(n, f, rs)
    BY DEF TaskInv, TaskOK, LocalOK
  <2> QED BY <2>1, <2>2 DEF FrameSet
<1>2. limit \in Nat \ {0}
  BY LimitAssumption
<1>3. Kind[n] = "retry" /\ f.pc \in {"go", "part", "await"}
  BY DEF RetryAttempt, RetryReturned, BackoffOver, BackoffCancelled, PartReturned, IsAt
<1>4. f.i <= limit /\ Fails(rs) = DOMAIN rs
  BY <1>1, <1>3 DEF Counted
<1>5. HasTurn(n) /\ Free(n)
  <2>1. HasTurn(n)
    BY <1>3 DEF HasTurn, Running, RetryAttempt, RetryReturned, BackoffOver, BackoffCancelled,
                PartReturned, IsAt
  <2> QED BY <1>3, <2>1, TurnIsFree DEF TaskInv, Structure
(* What is left to prove of a step in which n goes on.                      *)
<1>6. ASSUME NEW g, g \in {[f EXCEPT !.pc = "go", !.i = @ + 1], [f EXCEPT !.pc = "await"]},
             Continue(n, g), RanOnly(n), g.i <= limit, Counted(n, g, ran'[n])
      PROVE  TaskInv'
  <2>1. g \in FrameSet(Len(contexts)) /\ g.own = f.own /\ g.pc \in {"go", "await"}
    <3>1. f.i + 1 \in Nat \ {0}
      BY <1>1
    <3> QED BY <1>1, <1>6, <3>1 DEF FrameSet
  <2>2. UNCHANGED contextVars /\ root' = root /\ given' = given /\ instances' = instances
        /\ frame' = [frame EXCEPT ![n] = g]
    BY <1>6 DEF Continue
  <2>3. Limited(n, g) /\ Kind[n] # "parallel" /\ g.pc \in {"go", "await", "started"} \cap Pcs(Kind[n])
    BY <1>3, <1>6, <2>1 DEF Limited, Pcs
  <2>4. instances' \in Seq(InstanceSet(Len(contexts)))
    BY <1>1, <2>2 DEF TypeInv
  <2> QED BY <1>5, <1>6, <2>1, <2>2, <2>3, <2>4, ContinueInv
<1>7. CASE RetryAttempt(n)
  <2>1. f.pc = "go" /\ ran' = ran /\ RanOnly(n)
    BY <1>1, <1>7, RanStays DEF RetryAttempt, IsAt
  <2>2. Len(rs) = f.i - 1
    BY <1>1, <1>3, <2>1 DEF Counted
  <2>3. CASE Done(n) /\ Finish(n, Err(n))
    <3>1. Err(n) \in Results /\ Err(n) # "ok"
      BY <1>1, <2>3, ErrShape DEF Status
    <3>2. Len(rs) <= limit
      BY <1>1, <1>2, <1>4, <2>2
    <3>3. Explained(n, Err(n), rs)
      BY <1>1, <1>3, <1>4, <3>1, <3>2 DEF Explained, Fails
    <3> QED BY <1>3, <1>5, <2>1, <2>3, <3>1, <3>3, ReturnInv
  <2>4. CASE CallPart(n, 1, f)
    <3>1. 1 \in DOMAIN Subs[n]
      <4>1. Subs[n] \in Seq(Task) /\ Len(Subs[n]) = 1
        BY <1>3, PartCount
      <4> QED BY <4>1
    <3>2. [f EXCEPT !.pc = "part"].pc = "part" /\ [f EXCEPT !.pc = "part"].i = f.i
      BY <1>1 DEF FrameSet
    <3>3. Counted(n, [f EXCEPT !.pc = "part"], rs)
      BY <1>3, <1>4, <2>2, <3>2 DEF Counted
    <3> QED BY <1>1, <1>3, <1>5, <2>1, <2>4, <3>1, <3>3, CallsInv
  <2> QED BY <1>7, <2>3, <2>4 DEF RetryAttempt
<1>8. CASE RetryReturned(n)
  <2>1. PartReturned(n, "retry")
    BY <1>8 DEF RetryReturned
  <2> DEFINE r == Result(n)
             rr == ran'[n]
  <2>2. /\ f.pc = "part" /\ RanOnly(n) /\ r \in Results /\ Len(rr) = Len(rs) + 1
        /\ DOMAIN rr = 1..(Len(rs) + 1)
        /\ Fails(rr) = Fails(rs) \cup (IF r = "ok" THEN {} ELSE {Len(rs) + 1})
    BY <2>1, PartBack
  <2>3. Len(rs) = f.i - 1
    BY <1>1, <1>3, <2>2 DEF Counted
  <2> HIDE DEF rr, rs, r
  <2>4. Len(rr) = f.i /\ DOMAIN rr = 1..f.i /\ Len(rr) <= limit
    BY <1>1, <1>4, <2>2, <2>3
  <2>5. Fails(rr) = IF r = "ok" THEN 1..(f.i - 1) ELSE 1..f.i
    BY <1>1, <1>4, <2>2, <2>3
  <2>6. CASE r = "ok" /\ Finish(n, "ok")
    <3>1. Explained(n, "ok", rr)
      BY <1>3, <2>4, <2>5, <2>6 DEF Explained, Fails
    <3> QED BY <1>3, <1>5, <2>2, <2>6, <3>1, ReturnInv DEF rr, Results
  <2>7. CASE r # "ok" /\ Finish(n, r)
    <3>1. Explained(n, r, rr)
      BY <1>3, <2>4, <2>5, <2>7 DEF Explained, Fails
    <3> QED BY <1>3, <1>5, <2>2, <2>7, <3>1, ReturnInv DEF rr
  <2>8. CASE r # "ok" /\ f.i < limit /\ NextAttempt(n)
    <3> DEFINE g == [f EXCEPT !.pc = "go", !.i = @ + 1]
    <3>1. g.pc = "go" /\ g.i = f.i + 1 /\ Continue(n, g)
      BY <1>1, <2>8 DEF FrameSet, NextAttempt
    <3> HIDE DEF g
    <3>2. g.i <= limit /\ Len(rr) = g.i - 1
      BY <1>1, <1>2, <2>4, <2>8, <3>1
    <3>3. Counted(n, g, rr)
      BY <1>3, <2>4, <2>5, <2>8, <3>1, <3>2 DEF Counted
    <3> QED BY <1>6, <2>2, <3>1, <3>2, <3>3 DEF g, rr
  <2>9. CASE r # "ok" /\ f.i < limit /\ Continue(n, [f EXCEPT !.pc = "await"])
    <3> DEFINE g == [f EXCEPT !.pc = "await"]
    <3>1. g.pc = "await" /\ g.i = f.i /\ Continue(n, g)
      BY <1>1, <2>9 DEF FrameSet
    <3> HIDE DEF g
    <3>2. Counted(n, g, rr)
      BY <1>3, <1>4, <2>4, <2>5, <2>9, <3>1 DEF Counted
    <3> QED BY <1>4, <1>6, <2>2, <3>1, <3>2 DEF g, rr
  <2> QED BY <1>8, <2>6, <2>7, <2>8, <2>9 DEF RetryReturned, r
<1>9. CASE f.pc = "await" /\ ran' = ran
  <2>1. RanOnly(n) /\ Len(rs) = f.i /\ f.i < limit
    BY <1>1, <1>3, <1>9, RanStays DEF Counted
  <2>2. CASE NextAttempt(n)
    <3> DEFINE g == [f EXCEPT !.pc = "go", !.i = @ + 1]
    <3>1. g.pc = "go" /\ g.i = f.i + 1 /\ Continue(n, g)
      BY <1>1, <2>2 DEF FrameSet, NextAttempt
    <3> HIDE DEF g
    <3>2. g.i <= limit /\ Len(rs) = g.i - 1
      BY <1>1, <1>2, <2>1, <3>1
    <3>3. Counted(n, g, rs)
      BY <1>3, <1>4, <3>1, <3>2 DEF Counted
    <3> QED BY <1>6, <1>9, <2>1, <3>1, <3>2, <3>3 DEF g
  <2>3. CASE Done(n) /\ Finish(n, Err(n))
    <3>1. Err(n) \in Results /\ Err(n) # "ok"
      BY <1>1, <2>3, ErrShape DEF Status
    <3>2. Explained(n, Err(n), rs)
      BY <1>1, <1>3, <1>4, <2>1, <3>1 DEF Explained, Fails
    <3> QED BY <1>3, <1>5, <1>9, <2>1, <2>3, <3>1, <3>2, ReturnInv
  <2>4. ~RetryAttempt(n) /\ ~RetryReturned(n)
    BY <1>9 DEF RetryAttempt, RetryReturned, PartReturned, IsAt
  <2> QED BY <2>2, <2>3, <2>4 DEF BackoffOver, BackoffCancelled
<1> QED BY <1>7, <1>8, <1>9 DEF BackoffOver, BackoffCancelled, IsAt

LEMMA RecoveryInv ==
  ASSUME TaskInv, NEW n \in Task, RecoveryStart(n) \/ RecoveryReturned(n)
  PROVE  TaskInv'
<1> DEFINE f == frame[n]
           rs == ran[n]
<1>1. /\ TypeInv /\ f \in FrameSet(Len(contexts)) /\ Limited(n, f) /\ Counted(n, f, rs)
      /\ \A x \in Task : TaskOK(x)
  BY DEF TaskInv, TypeInv, TaskOK, LocalOK
<1>2. 1 \in DOMAIN Subs[n] /\ 2 \in DOMAIN Subs[n]
  <2>1. Kind[n] = "recovery"
    BY DEF RecoveryStart, RecoveryReturned, PartReturned, IsAt
  <2>2. Subs[n] \in Seq(Task) /\ Len(Subs[n]) = 2
    BY <2>1, PartCount
  <2> QED BY <2>2
<1>3. CASE RecoveryStart(n)
  <2>1. Kind[n] = "recovery" /\ f.pc = "go" /\ HasTurn(n) /\ CallPart(n, 1, f) /\ ran' = ran
    BY <1>3 DEF RecoveryStart, IsAt, HasTurn, Running
  <2>2. Free(n) /\ RanOnly(n)
    BY <1>1, <2>1, TurnIsFree, RanStays DEF TaskInv, Structure
  <2>3. f.i = 1 /\ rs = <<>>
    BY <1>1, <2>1 DEF Counted
  <2>4. [f EXCEPT !.pc = "part"].pc = "part" /\ [f EXCEPT !.pc = "part"].i = f.i
    BY <1>1 DEF FrameSet
  <2>5. Counted(n, [f EXCEPT !.pc = "part"], rs)
    BY <2>1, <2>3, <2>4 DEF Counted
  <2> QED BY <1>1, <1>2, <2>1, <2>2, <2>3, <2>5, CallsInv
<1>4. CASE RecoveryReturned(n)
  <2> DEFINE r == Result(n)
             rr == ran'[n]
             compensate == f.i = 1 /\ r # "ok"
  <2>1. PartReturned(n, "recovery")
    BY <1>4 DEF RecoveryReturned
  <2>2. /\ Kind[n] = "recovery" /\ f.pc = "part" /\ HasTurn(n) /\ Free(n) /\ RanOnly(n)
        /\ r \in Results /\ Len(rr) = Len(rs) + 1 /\ rr[Len(rs) + 1] = r
        /\ \A k \in DOMAIN rs : rr[k] = rs[k]
        /\ DOMAIN rs = 1..Len(rs) /\ DOMAIN rr = 1..(Len(rs) + 1)
    BY <2>1, PartBack
  <2>3. \/ f.i = 1 /\ rs = <<>>
        \/ f.i = 2 /\ Len(rs) = 1 /\ rs[1] # "ok"
    BY <1>1, <2>2 DEF Counted
  <2> HIDE DEF rr, rs, r
  <2>4. CASE compensate /\ CallPart(n, 2, [f EXCEPT !.i = 2])
    <3> DEFINE g == [f EXCEPT !.i = 2]
               h == [g EXCEPT !.pc = "part"]
    <3>1. g \in FrameSet(Len(contexts)) /\ g.own = f.own /\ g.i = 2 /\ h.pc = "part" /\ h.i = 2
      BY <1>1 DEF FrameSet
    <3> HIDE DEF h
    <3>2. Len(rr) = 1 /\ rr[1] # "ok"
      BY <2>2, <2>3, <2>4
    <3>3. Counted(n, h, rr)
      BY <2>2, <3>1, <3>2 DEF Counted
    <3>4. Limited(n, g)
      BY <2>2 DEF Limited
    <3> HIDE DEF g
    <3>5. CallPart(n, 2, g)
      BY <2>4 DEF g
    <3> QED BY <1>2, <2>2, <3>1, <3>3, <3>4, <3>5, CallsInv DEF h, rr
  <2>5. CASE ~compensate /\ Finish(n, r)
    <3>1. CASE f.i = 1
      <4>1. Len(rs) = 0 /\ r = "ok" /\ 1..1 = {1}
        BY <2>3, <2>5, <3>1
      <4>2. Len(rr) = 1 /\ rr[1] = "ok" /\ DOMAIN rr = {1}
        BY <2>2, <4>1
      <4>3. Explained(n, r, rr)
        BY <2>2, <4>1, <4>2 DEF Explained
      <4> QED BY <2>2, <2>5, <4>3, ReturnInv DEF rr
    <3>2. CASE f.i = 2
      <4>1. Len(rs) = 1 /\ 1..1 = {1} /\ 1..2 = {1, 2} /\ rs[1] # "ok"
        BY <2>3, <3>2
      <4>2. 1 \in DOMAIN rs /\ DOMAIN rr = 1..2 /\ Len(rr) = 2 /\ rr[2] = r
        BY <2>2, <4>1
      <4>3. rr[1] # "ok" /\ DOMAIN rr = {1, 2}
        BY <2>2, <4>1, <4>2
      <4>4. Explained(n, r, rr)
        BY <2>2, <4>2, <4>3 DEF Explained
      <4> QED BY <2>2, <2>5, <4>4, ReturnInv DEF rr
    <3> QED BY <2>3, <3>1, <3>2
  <2> QED BY <1>4, <2>4, <2>5 DEF RecoveryReturned, r
<1> QED BY <1>3, <1>4

LEMMA ConditionalInv ==
  ASSUME TaskInv, NEW n \in Task, ConditionalStart(n) \/ ConditionalReturned(n)
  PROVE  TaskInv'
<1> DEFINE f == frame[n]
           rs == ran[n]
<1>1. /\ TypeInv /\ f \in FrameSet(Len(contexts)) /\ Counted(n, f, rs)
      /\ \A x \in Task : TaskOK(x)
  BY DEF TaskInv, TypeInv, TaskOK, LocalOK
<1>2. CASE ConditionalStart(n)
  <2>1. Kind[n] = "conditional" /\ f.pc = "go" /\ HasTurn(n) /\ ran' = ran
    BY <1>2 DEF ConditionalStart, IsAt, HasTurn, Running
  <2>2. Free(n) /\ RanOnly(n)
    BY <1>1, <2>1, TurnIsFree, RanStays DEF TaskInv, Structure
  <2>3. rs = <<>>
    BY <1>1, <2>1 DEF Counted
  <2>4. ASSUME NEW out \in {"ok", "fail"}, Finish(n, out) PROVE TaskInv'
    <3>1. Explained(n, out, rs)
      BY <2>1, <2>3 DEF Explained
    <3> QED BY <2>1, <2>2, <2>4, <3>1, ReturnInv DEF Results
  <2>5. ASSUME NEW k \in DOMAIN Subs[n], CallPart(n, k, [f EXCEPT !.i = k]) PROVE TaskInv'
    <3> DEFINE g == [f EXCEPT !.i = k]
               h == [g EXCEPT !.pc = "part"]
    <3>1. k \in Nat \ {0}
      <4>1. DOMAIN Subs[n] = 1..Len(Subs[n]) /\ Len(Subs[n]) \in Nat
        BY PartCount
      <4> QED BY <4>1
    <3>2. g \in FrameSet(Len(contexts)) /\ g.own = f.own /\ g.i = k /\ h.pc = "part" /\ h.i = k
      BY <1>1, <3>1 DEF FrameSet
    <3> HIDE DEF h
    <3>3. Counted(n, h, rs)
      BY <2>1, <2>3, <3>2 DEF Counted
    <3>4. Limited(n, g)
      BY <2>1 DEF Limited
    <3> HIDE DEF g
    <3>5. CallPart(n, k, g)
      BY <2>5 DEF g
    <3> QED BY <2>1, <2>2, <3>2, <3>3, <3>4, <3>5, CallsInv DEF h
  <2> QED BY <1>2, <2>4, <2>5 DEF ConditionalStart
<1>3. CASE ConditionalReturned(n)
  <2> DEFINE r == Result(n)
             rr == ran'[n]
  <2>1. PartReturned(n, "conditional") /\ Finish(n, r)
    BY <1>3 DEF ConditionalReturned
  <2>2. /\ Kind[n] = "conditional" /\ f.pc = "part" /\ HasTurn(n) /\ RanOnly(n)
        /\ r \in Results /\ rr = Append(rs, r)
    BY <2>1, PartBack
  <2>3. rs = <<>>
    BY <1>1, <2>2 DEF Counted
  <2>4. rr = <<r>>
    BY <2>2, <2>3
  <2> HIDE DEF rr, r
  <2>5. Explained(n, r, rr)
    BY <2>2, <2>4 DEF Explained
  <2> QED BY <2>1, <2>2, <2>5, ReturnInv DEF rr
<1> QED BY <1>2, <1>3

(* The tasks without parts.                                                 *)
LEMMA HandledShape ==
  ASSUME NEW err \in Results, NEW out \in {"ok"} \cup Handled(err)
  PROVE  out \in Results
  BY DEF Handled, Results

LEMMA LeafInv ==
  ASSUME TaskInv, NEW n \in Task,
         \/ FnReturns(n) \/ CallReturns(n) \/ WaitOver(n) \/ WaitCancelled(n)
         \/ HumanRequest(n) \/ HumanReview(n) \/ HumanAnswers(n) \/ HumanGivesUp(n)
         \/ EscalationStart(n) \/ EscalationLevel(n) \/ EscalationResolved(n)
         \/ EscalationCancelled(n)
  PROVE  TaskInv'
<1> DEFINE f == frame[n]
<1>1. TypeInv /\ f \in FrameSet(Len(contexts)) /\ Limited(n, f)
  BY DEF TaskInv, TypeInv
<1>2. /\ Kind[n] \in Leaves /\ f.pc \in {"go", "await", "started"} /\ ran' = ran
      /\ f.pc = "await" => Kind[n] \in {"human", "escalation"}
  BY DEF FnReturns, CallReturns, WaitOver, WaitCancelled, HumanRequest, HumanReview,
         HumanAnswers, HumanGivesUp, EscalationStart, EscalationLevel, EscalationResolved,
         EscalationCancelled, IsAt, Leaves
<1>3. "ok" \in Results /\ "fail" \in Results /\ (Done(n) => Err(n) \in Results)
  BY <1>1, ErrShape DEF Results
<1>4. ASSUME NEW out \in Results, Finish(n, out) PROVE TaskInv'
  BY <1>2, <1>4, LeafReturns
<1>5. ASSUME NEW out \in {"ok"} \cup Handled("fail"), Finish(n, out) PROVE TaskInv'
  BY <1>3, <1>4, <1>5, HandledShape
<1>6. ASSUME NEW g, g \in {[f EXCEPT !.pc = "await"], [f EXCEPT !.i = @ + 1]}, Continue(n, g),
             g.pc = "await", g.i \in Nat \ {0}, Limited(n, g), Kind[n] \in {"human", "escalation"}
      PROVE  TaskInv'
  <2>1. g \in FrameSet(Len(contexts)) /\ g.own = f.own
    BY <1>1, <1>6 DEF FrameSet
  <2>2. UNCHANGED <<contextVars, root, given, ran>> /\ frame' = [frame EXCEPT ![n] = g]
        /\ instances' = instances
    BY <1>2, <1>6 DEF Continue
  <2>3. instances' \in Seq(InstanceSet(Len(contexts)))
    BY <1>1, <2>2 DEF TypeInv
  <2>4. g.pc \in {"await", "started"} \cap Pcs(Kind[n])
    BY <1>6 DEF Pcs
  <2> QED BY <1>2, <1>6, <2>1, <2>2, <2>3, <2>4, LeafContinues
<1>7. ASSUME Continue(n, [f EXCEPT !.pc = "await"]), Kind[n] \in {"human", "escalation"}
      PROVE  TaskInv'
  <2> DEFINE g == [f EXCEPT !.pc = "await"]
  <2>1. g.pc = "await" /\ g.i = f.i /\ f.i \in Nat \ {0}
    BY <1>1 DEF FrameSet
  <2>2. Limited(n, g)
    BY <1>1, <2>1 DEF Limited
  <2> HIDE DEF g
  <2> QED BY <1>6, <1>7, <2>1, <2>2 DEF g
<1>8. CASE FnReturns(n)
  <2>1. PICK r \in {"ok", "fail"} \cup ({Err(n)} \ {"live"}) :
          \E out \in CASE r = "ok" -> {"ok"}
                       [] r # "ok" /\ "deadline" \in {r, Err(n)} -> {"deadline"}
                       [] OTHER -> Handled(r) : Finish(n, out)
    BY <1>8 DEF FnReturns
  <2>2. r \in Results
    BY <1>3, <2>1 DEF Done
  <2>3. PICK out : /\ Finish(n, out)
                   /\ out \in CASE r = "ok" -> {"ok"}
                                [] r # "ok" /\ "deadline" \in {r, Err(n)} -> {"deadline"}
                                [] OTHER -> Handled(r)
    BY <2>1
  <2>4. out \in {"deadline"} \cup {"ok"} \cup Handled(r)
    <3>1. CASE r = "ok"
      BY <2>3, <3>1
    <3>2. CASE r # "ok" /\ "deadline" \in {r, Err(n)}
      BY <2>3, <3>2
    <3>3. CASE ~(r = "ok") /\ ~(r # "ok" /\ "deadline" \in {r, Err(n)})
      BY <2>3, <3>3
    <3> QED BY <3>1, <3>2, <3>3
  <2>5. "deadline" \in Results
    BY DEF Results, Status
  <2>6. out \in Results
    BY <2>2, <2>4, <2>5, HandledShape
  <2> QED BY <1>4, <2>3, <2>6
<1>9. CASE WaitOver(n) \/ WaitCancelled(n)
  BY <1>3, <1>4, <1>9 DEF WaitOver, WaitCancelled
<1>10. CASE CallReturns(n) \/ HumanReview(n) \/ HumanAnswers(n) \/ EscalationResolved(n)
  BY <1>5, <1>10 DEF CallReturns, HumanReview, HumanAnswers, EscalationResolved
<1>11. CASE HumanGivesUp(n) \/ EscalationCancelled(n)
  BY <1>5, <1>11 DEF HumanGivesUp, EscalationCancelled, TimeoutResults
<1>12. CASE HumanRequest(n) \/ EscalationStart(n)
  BY <1>5, <1>7, <1>12 DEF HumanRequest, EscalationStart, IsAt
<1>13. CASE EscalationLevel(n)
  <2>1. CASE \E out \in Handled("fail") : Finish(n, out)
    BY <1>5, <2>1
  <2>2. CASE Finish(n, "ok")
    BY <1>3, <1>4, <2>2
  <2>3. CASE f.i < Limit[n] /\ Continue(n, [f EXCEPT !.i = @ + 1])
    <3> DEFINE g == [f EXCEPT !.i = @ + 1]
    <3>1. Kind[n] = "escalation" /\ f.pc = "await"
      BY <1>13 DEF EscalationLevel, IsAt
    <3>2. g.pc = "await" /\ g.i = f.i + 1 /\ f.i \in Nat \ {0}
      BY <1>1, <3>1 DEF FrameSet
    <3> HIDE DEF g
    <3>3. Limit[n] \in Nat
      BY LimitAssumption
    <3>4. g.i \in Nat \ {0} /\ g.i <= Limit[n]
      BY <2>3, <3>2, <3>3
    <3>5. Limited(n, g)
      BY <3>4 DEF Limited
    <3> QED BY <1>6, <2>3, <3>1, <3>2, <3>4, <3>5 DEF g
  <2> QED BY <1>13, <2>1, <2>2, <2>3 DEF EscalationLevel
<1> QED BY <1>8, <1>9, <1>10, <1>11, <1>12, <1>13

LEMMA SeqChange ==
  ASSUME NEW S, NEW s \in Seq(S), NEW k, NEW e, k \in DOMAIN s => e \in S
  PROVE  [s EXCEPT ![k] = e] \in Seq(S)
<1> DEFINE t == [s EXCEPT ![k] = e]
<1>1. Len(s) \in Nat /\ DOMAIN s = 1..Len(s) /\ \A d \in 1..Len(s) : s[d] \in S
  OBVIOUS
<1>2. DOMAIN t = 1..Len(s) /\ t = [d \in 1..Len(s) |-> t[d]] /\ \A d \in 1..Len(s) : t[d] \in S
  BY <1>1
<1> HIDE DEF t
<1>3. t \in [1..Len(s) -> S]
  BY <1>2
<1>4. t \in Seq(S)
  BY <1>1, <1>3
<1> QED BY <1>4 DEF t

LEMMA InstanceChanges ==
  ASSUME TypeInv, NEW k, NEW inst, instances' = [instances EXCEPT ![k] = inst],
         k \in DOMAIN instances => inst \in InstanceSet(Len(contexts))
  PROVE  instances' \in Seq(InstanceSet(Len(contexts)))
<1>1. instances \in Seq(InstanceSet(Len(contexts)))
  BY DEF TypeInv
<1>2. [instances EXCEPT ![k] = inst] \in Seq(InstanceSet(Len(contexts)))
  BY <1>1, SeqChange
<1> QED BY <1>2

LEMMA SubworkflowInv ==
  ASSUME TaskInv, NEW n \in Task, SubStart(n) \/ SubStarted(n) \/ SubEnded(n) \/ SubGivesUp(n)
  PROVE  TaskInv'
<1> DEFINE f == frame[n]
           types == InstanceSet(Len(contexts))
<1>1. TypeInv /\ f \in FrameSet(Len(contexts)) /\ instances \in Seq(types) /\ Len(contexts) \in Nat
  BY DEF TaskInv, TypeInv
<1>2. /\ Kind[n] = "subworkflow" /\ Kind[n] \in Leaves
      /\ f.pc \in {"go", "await", "started"} /\ ran' = ran
  BY DEF SubStart, SubStarted, SubEnded, SubGivesUp, IsAt, Leaves
<1>3. "ok" \in Results /\ "fail" \in Results
  BY DEF Results
<1>4. ASSUME NEW out \in Results \cup {"panic"}, Finish(n, out) PROVE TaskInv'
  BY <1>2, <1>4, LeafReturns
<1>5. ASSUME NEW out \in {"ok"} \cup Handled("fail"), Finish(n, out) PROVE TaskInv'
  BY <1>3, <1>4, <1>5, HandledShape
<1>6. ASSUME NEW g \in FrameSet(Len(contexts)), g.own = f.own, g.pc \in {"await", "started"},
             frame' = [frame EXCEPT ![n] = g], UNCHANGED <<contextVars, root, given>>,
             instances' \in Seq(types)
      PROVE  TaskInv'
  <2>1. Limited(n, g) /\ g.pc \in {"await", "started"} \cap Pcs(Kind[n])
    BY <1>2, <1>6 DEF Limited, Pcs
  <2> QED BY <1>2, <1>6, <2>1, LeafContinues
<1>7. CASE SubStart(n)
  <2>1. CASE \E out \in Handled("fail") : Finish(n, out)
    BY <1>5, <2>1
  <2>2. CASE /\ frame' = [frame EXCEPT ![n].pc = "started", ![n].i = Len(instances) + 1]
             /\ instances' = Append(instances, [of |-> n, status |-> "running",
                                                watcher |-> "none", ctx |-> 0])
             /\ UNCHANGED <<contextVars, root, given>>
    <3> DEFINE g == [f EXCEPT !.pc = "started", !.i = Len(instances) + 1]
    <3>1. Len(instances) + 1 \in Nat \ {0}
      BY <1>1
    <3>2. g \in FrameSet(Len(contexts)) /\ g.own = f.own /\ g.pc = "started"
      BY <1>1, <3>1 DEF FrameSet
    <3>3. frame' = [frame EXCEPT ![n] = g]
      BY <1>1, <2>2 DEF TypeInv
    <3>4. instances' \in Seq(types)
      <4>1. [of |-> n, status |-> "running", watcher |-> "none", ctx |-> 0] \in types
        BY <1>1 DEF InstanceSet
      <4> HIDE DEF types
      <4> QED BY <1>1, <2>2, <4>1
    <3> HIDE DEF g
    <3> QED BY <1>6, <2>2, <3>2, <3>3, <3>4
  <2> QED BY <1>7, <2>1, <2>2 DEF SubStart
<1>8. CASE SubStarted(n)
  <2>1. CASE Finish(n, "panic") \/ Finish(n, "ok")
    BY <1>3, <1>4, <2>1
  <2>2. CASE /\ frame' = [frame EXCEPT ![n].pc = "await"]
             /\ instances' = IF n \in PropagateCancel
                             THEN [instances EXCEPT ![f.i].watcher = "starting"] ELSE instances
             /\ UNCHANGED <<contextVars, root, given>>
    <3> DEFINE g == [f EXCEPT !.pc = "await"]
    <3>2. g \in FrameSet(Len(contexts)) /\ g.own = f.own /\ g.pc = "await"
      BY <1>1 DEF FrameSet
    <3>3. frame' = [frame EXCEPT ![n] = g]
      BY <1>1, <2>2 DEF TypeInv
    <3>4. instances' \in Seq(types)
      <4> DEFINE inst == [instances[f.i] EXCEPT !.watcher = "starting"]
      <4>1. ASSUME f.i \in DOMAIN instances PROVE inst \in types
        <5>1. instances[f.i] \in types
          BY <1>1, <4>1
        <5> QED BY <5>1 DEF InstanceSet
      <4>2. CASE n \in PropagateCancel
        <5>1. instances' = [instances EXCEPT ![f.i] = inst]
          BY <2>2, <4>2
        <5> HIDE DEF inst
        <5> QED BY <1>1, <4>1, <5>1, InstanceChanges
      <4>3. CASE n \notin PropagateCancel
        BY <1>1, <2>2, <4>3
      <4> QED BY <4>2, <4>3
    <3> HIDE DEF g
    <3> QED BY <1>6, <2>2, <3>2, <3>3, <3>4
  <2> QED BY <1>8, <2>1, <2>2 DEF SubStarted
<1>9. CASE SubEnded(n) \/ SubGivesUp(n)
  BY <1>5, <1>9 DEF SubEnded, SubGivesUp, TimeoutResults
<1> QED BY <1>7, <1>8, <1>9

(* Watchers, instances and the ends of contexts.                            *)
LEMMA WatchInv ==
  ASSUME TaskInv, NEW k \in DOMAIN instances, WatchStart(k) \/ WatchFires(k) \/ InstanceEnds(k)
  PROVE  TaskInv'
<1> DEFINE inst == instances[k]
           types == InstanceSet(Len(contexts))
<1>1. TypeInv /\ instances \in Seq(types) /\ inst \in types /\ DOMAIN contexts = 1..Len(contexts)
  BY DEF TaskInv, TypeInv
<1>2. /\ contexts' = contexts /\ ctxOf' = ctxOf /\ root' = root /\ frame' = frame
      /\ given' = given /\ ran' = ran
  BY DEF WatchStart, WatchFires, InstanceEnds, contextVars, history
<1>3. Context(inst.of) \in 0..Len(contexts)
  <2>1. inst.of \in Task
    BY <1>1 DEF InstanceSet
  <2>2. Context(inst.of) \in 1..Len(contexts)
    BY <1>1, <2>1, ErrShape
  <2> QED BY <1>1, <2>2 DEF TypeInv
<1>4. instances' \in Seq(types)
  <2> DEFINE started == [inst EXCEPT !.watcher = "waiting", !.ctx = Context(inst.of)]
             fired == [inst EXCEPT !.watcher = "gone",
                                   !.status = IF @ = "running" THEN "cancelled" ELSE @]
             ended == [inst EXCEPT !.status = "ended"]
  <2>1. started \in types /\ fired \in types /\ ended \in types
    BY <1>1, <1>3 DEF InstanceSet
  <2>2. \/ instances' = [instances EXCEPT ![k] = started]
        \/ instances' = [instances EXCEPT ![k] = fired]
        \/ instances' = [instances EXCEPT ![k] = ended]
    BY DEF WatchStart, WatchFires, InstanceEnds
  <2> HIDE DEF started, fired, ended
  <2> QED BY <1>1, <2>1, <2>2, InstanceChanges
<1> QED BY <1>2, <1>4, WorldInv

LEMMA EnvironmentInv ==
  ASSUME TaskInv, Environment
  PROVE  TaskInv'
<1>1. /\ frame' = frame /\ root' = root /\ given' = given /\ ran' = ran /\ ctxOf' = ctxOf
      /\ instances' = instances
  BY DEF Environment, treeVars, history
<1>2. instances' \in Seq(InstanceSet(Len(contexts)))
  BY <1>1 DEF TaskInv, TypeInv
<1>3. \E c \in DOMAIN contexts, how \in Status \ {"live"} : contexts' = Ended(c, how)
  <2>1. {"canceled", "deadline"} \subseteq Status \ {"live"}
    BY DEF Status
  <2>2. CASE CancelCaller
    <3>1. 1 \in DOMAIN contexts
      <4>1. root \in Task
        BY TaskAssumption DEF TaskInv, TypeInv
      <4>2. ctxOf[root] \in DOMAIN contexts /\ contexts \in Seq(ContextSet(Len(contexts)))
        BY <4>1 DEF TaskInv, TypeInv
      <4> QED BY <4>2
    <3> QED BY <2>1, <2>2, <3>1 DEF CancelCaller
  <2>3. CASE Expire
    BY <2>1, <2>3 DEF Expire
  <2> QED BY <2>2, <2>3 DEF Environment
<1> QED BY <1>1, <1>2, <1>3, WorldInv

LEMMA TaskStepInv ==
  ASSUME TaskInv, TaskNext
  PROVE  TaskInv'
<1>1. ASSUME NEW n \in Task, Step(n) PROVE TaskInv'
  BY <1>1, EnterInv, PanicInv, SequenceInv, ForkInv, JoinInv, RetryInv, RecoveryInv,
     ConditionalInv, LeafInv, SubworkflowInv DEF Step
<1>2. ASSUME NEW n \in Task, Called(n) PROVE TaskInv'
  BY <1>2, LeafInv, SubworkflowInv DEF Called
<1>3. ASSUME NEW n \in Task, World(n) PROVE TaskInv'
  BY <1>3, LeafInv, RetryInv DEF World
<1> QED BY <1>1, <1>2, <1>3, WatchInv, EnvironmentInv DEF TaskNext

LEMMA TaskStutter ==
  ASSUME TaskInv, UNCHANGED taskVars
  PROVE  TaskInv'
<1>1. /\ frame' = frame /\ root' = root /\ given' = given /\ ran' = ran /\ ctxOf' = ctxOf
      /\ instances' = instances /\ contexts' = contexts
  BY DEF taskVars, contextVars, treeVars, history
<1>2. instances' \in Seq(InstanceSet(Len(contexts)))
  BY <1>1 DEF TaskInv, TypeInv
<1> QED BY <1>1, <1>2, WorldInv

LEMMA TaskInitInv == TaskInit => TaskInv
<1> SUFFICES ASSUME TaskInit PROVE TaskInv
  OBVIOUS
<1>1. /\ contexts = <<[parent |-> 0, status |-> "live"]>> /\ ctxOf = [n \in Task |-> 1]
      /\ root \in Roots /\ root \in Task
      /\ frame = [n \in Task |-> IF n = root THEN NewFrame ELSE Idle] /\ instances = <<>>
      /\ given = [n \in Task |-> 1] /\ ran = [n \in Task |-> <<>>]
  BY TaskAssumption DEF TaskInit, ContextInit
<1>2. Len(contexts) = 1 /\ 1 \in DOMAIN contexts /\ \A c \in DOMAIN contexts : c = 1
  BY <1>1
<1>3. /\ NewFrame.pc = "enter" /\ Idle.pc = "idle"
      /\ Idle.i = 1 /\ Idle.own = 0 /\ NewFrame.i = 1 /\ NewFrame.own = 0 /\ ~NewFrame.failed
      /\ Idle \in FrameSet(1) /\ NewFrame \in FrameSet(1)
  <2>1. NewFrame \in FrameSet(1)
    BY <1>1, NewFrameType
  <2>2. /\ NewFrame.pc = "enter" /\ NewFrame.i = 1 /\ NewFrame.own = 0 /\ ~NewFrame.failed
    BY DEF NewFrame
  <2>3. /\ Idle \in FrameSet(1) /\ Idle.pc = "idle" /\ Idle.i = NewFrame.i
        /\ Idle.own = NewFrame.own
    BY <2>1 DEF Idle, FrameSet
  <2> QED BY <2>1, <2>2, <2>3
<1>4. ASSUME NEW n \in Task
      PROVE  /\ frame[n] \in FrameSet(1) /\ Limited(n, frame[n]) /\ frame[n].own = 0
             /\ frame[n].pc = IF n = root THEN "enter" ELSE "idle"
             /\ FrameOK(frame[n])
  <2>1. frame[n] = IF n = root THEN NewFrame ELSE Idle
    BY <1>1
  <2>2. Limit[n] \in Nat \ {0} /\ (Limit[n] \in Nat \ {0} => 1 <= Limit[n])
    BY LimitAssumption
  <2> QED BY <1>3, <2>1, <2>2 DEF Limited, FrameOK
<1>5. TypeInv
  <2>1. contexts \in Seq(ContextSet(Len(contexts)))
    <3>1. [parent |-> 0, status |-> "live"] \in ContextSet(1)
      BY DEF ContextSet, Status
    <3> HIDE DEF ContextSet
    <3> QED BY <1>1, <1>2, <3>1
  <2>2. frame \in [Task -> FrameSet(Len(contexts))]
    BY <1>1, <1>2, <1>4
  <2> QED BY <1>1, <1>2, <1>4, <2>1, <2>2 DEF TypeInv
<1>6. \A n \in Task : Running(n) <=> n = root
  BY <1>4 DEF Running
<1>7. Structure
  <2>1. Nested
    BY <1>1, <1>6, PartShape DEF Nested
  <2>2. Owner[root] = root
    BY <1>1, TreeAssumption
  <2>3. \A n \in Task : HasTurn(n) => n = root
    BY <1>6 DEF HasTurn
  <2>4. Turns
    BY <1>1, <1>6, <2>2, <2>3 DEF Turns
  <2>5. OneRoot
    BY <1>6, TaskAssumption DEF OneRoot
  <2> QED BY <2>1, <2>4, <2>5 DEF Structure
<1>8. OwnEnds
  BY <1>2, <1>4 DEF OwnEnds
<1>9. ASSUME NEW n \in Task PROVE TaskOK(n)
  <2>1. frame[n].pc \in {"enter", "idle"}
    BY <1>4
  <2> QED BY <1>4, <2>1 DEF TaskOK, LocalOK, SeesGiven, Pcs, Counted, Accounted
<1> QED BY <1>5, <1>7, <1>8, <1>9 DEF TaskInv

LEMMA TaskSpecInv == TaskSpec => []TaskInv
<1>1. TaskInv /\ [TaskNext]_taskVars => TaskInv'
  BY TaskStepInv, TaskStutter
<1> QED BY <1>1, TaskInitInv, PTL DEF TaskSpec

(* A task that has returned leaves nothing: no part of it runs, as a task   *)
(* waits while a part runs, and no context lives, as every task then has    *)
(* returned: the topmost one that runs is a root.                           *)
LEMMA NothingRuns ==
  ASSUME TaskInv, frame[root].pc = "done", NEW n \in Task
  PROVE  ~Running(n)
<1> DEFINE T == {x \in Task : Running(x)}
<1>1. ASSUME T # {} PROVE FALSE
  <2>1. PICK x \in T : x \in Roots \/ Parent(x) \notin T
    BY <1>1, TopTask
  <2>2. CASE x \in Roots
    BY <2>1, <2>2 DEF TaskInv, Structure, OneRoot, Running
  <2>3. CASE x \notin Roots
    <3>1. Parent(x) \in Task /\ x \in Parts(Parent(x))
      BY <2>1, <2>3, ParentShape
    <3>2. frame[Parent(x)].pc = "part"
      BY <2>1, <3>1 DEF TaskInv, Structure, Nested
    <3> QED BY <2>1, <2>3, <3>1, <3>2 DEF Running
  <2> QED BY <2>2, <2>3
<1> QED BY <1>1

LEMMA TaskInvEnds == TaskInv => NoPartOutlives
<1> SUFFICES ASSUME TaskInv PROVE NoPartOutlives
  OBVIOUS
<1>1. ASSUME NEW n \in Task, ~Running(n), NEW m \in Parts(n) PROVE ~Running(m)
  BY <1>1 DEF TaskInv, Structure, Nested, Running
<1>2. \A n \in Task : ~Running(n) /\ frame[n].own # 0 => Canceled(frame[n].own)
  BY DEF TaskInv, OwnEnds
<1>3. ASSUME frame[root].pc = "done", NEW c \in DOMAIN contexts, c > 1 PROVE Canceled(c)
  BY <1>3, NothingRuns DEF TaskInv, OwnEnds
<1> QED BY <1>1, <1>2, <1>3 DEF NoPartOutlives

LEMMA TaskInvExplains == TaskInv => OutcomeOfTheParts
  BY DEF TaskInv, TaskOK, LocalOK, Accounted, OutcomeOfTheParts

(* What a composite task returns is explained by what its parts returned    *)
(* (sequential.go, parallel.go, retry.go, recovery.go, conditional.go), for *)
(* every tree of tasks.                                                     *)
THEOREM OutcomeExplained == TaskSpec => []OutcomeOfTheParts
<1> QED BY TaskSpecInv, TaskInvExplains, PTL

(* When a task has returned, none of its parts runs and no context of its   *)
(* own waits for its time (the deferred cancels of inline.go, sequential.go *)
(* and parallel.go, wg.Wait).  Goroutines that sleep for a cancelled wait,  *)
(* watchers and instances of sub-workflows are not parts.                   *)
THEOREM NoPartLeftBehind == TaskSpec => []NoPartOutlives
<1> QED BY TaskSpecInv, TaskInvEnds, PTL

(* The attempts of a retry and the levels of an escalation stay in their    *)
(* limits, and every context is one that was made (retry.go, escalation.go).*)
THEOREM TaskTypesOK == TaskSpec => []TaskTypeOK
<1>1. TaskInv => TaskTypeOK
  BY TypesOK DEF TaskInv
<1> QED BY <1>1, TaskSpecInv, PTL
=============================================================================
