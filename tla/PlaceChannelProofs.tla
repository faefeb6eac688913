------------------------- MODULE PlaceChannelProofs -------------------------
(***************************************************************************)
(* What every step of a place operation keeps, whoever calls it: the       *)
(* types, the capacity of the channels and the peek mutex; and how to      *)
(* count what a net holds.  Each owner x (a place with its channel, a      *)
(* thread with the buffer it drained a channel into) has n[x] slots, the   *)
(* pairs <<x, 1>> .. <<x, n[x]>>.  The counting lemmas say how the number  *)
(* of slots changes when one owner gets more or fewer of them, and how the *)
(* size of a set changes when one element enters or leaves it.             *)
(***************************************************************************)
EXTENDS PlaceChannel, FiniteSetTheorems, FunctionTheorems, SequenceTheorems,
        TLAPS

SlotSet(S, n) == UNION {{x} \X (1 .. n[x]) : x \in S}

LEMMA SlotMember ==
  ASSUME NEW S, NEW n \in [S -> Nat], NEW e
  PROVE  e \in SlotSet(S, n)
           <=> \E x \in S : \E i \in 1 .. n[x] : e = <<x, i>>
BY DEF SlotSet

LEMMA SlotSetFinite ==
  ASSUME NEW S, IsFiniteSet(S), NEW n \in [S -> Nat]
  PROVE  IsFiniteSet(SlotSet(S, n))
<1> DEFINE T == {{x} \X (1 .. n[x]) : x \in S}
           f == [x \in S |-> {x} \X (1 .. n[x])]
<1>1. f \in Surjection(S, T)
  BY DEF Surjection
<1>2. IsFiniteSet(T)
  BY <1>1, FS_Surjection
<1>3. ASSUME NEW x \in S PROVE IsFiniteSet({x} \X (1 .. n[x]))
  <2>1. IsFiniteSet(1 .. n[x])
    BY FS_Interval
  <2>2. IsFiniteSet({x})
    BY FS_Singleton
  <2> QED BY <2>1, <2>2, FS_Product
<1>4. \A U \in T : IsFiniteSet(U)
  BY <1>3
<1> QED BY <1>2, <1>4, FS_UNION DEF SlotSet

(* Giving owner x a different number of slots.                              *)
LEMMA SlotReplace ==
  ASSUME NEW S, IsFiniteSet(S), NEW n \in [S -> Nat], NEW x \in S,
         NEW m \in [S -> Nat], \A y \in S : y # x => m[y] = n[y]
  PROVE  /\ Cardinality(SlotSet(S, n)) \in Nat
         /\ Cardinality(SlotSet(S, m)) =
              Cardinality(SlotSet(S, n)) - n[x] + m[x]
<1> DEFINE z == [n EXCEPT ![x] = 0]
<1>0. /\ z \in [S -> Nat] /\ z[x] = 0
      /\ \A y \in S : y # x => z[y] = n[y] /\ z[y] = m[y]
  OBVIOUS
<1> HIDE DEF z
<1>1. ASSUME NEW k \in [S -> Nat], \A y \in S : y # x => z[y] = k[y]
      PROVE  /\ Cardinality(SlotSet(S, k)) = Cardinality(SlotSet(S, z)) + k[x]
             /\ Cardinality(SlotSet(S, z)) \in Nat
  <2> DEFINE X == {x} \X (1 .. k[x])
  <2>1. IsFiniteSet(X) /\ Cardinality(X) = k[x]
    <3>1. IsFiniteSet({x}) /\ Cardinality({x}) = 1
      BY FS_Singleton
    <3>2. IsFiniteSet(1 .. k[x]) /\ Cardinality(1 .. k[x]) = k[x]
      BY FS_Interval
    <3>3. IsFiniteSet(X) /\ Cardinality(X) = 1 * k[x]
      BY ZenonT(30), <3>1, <3>2, FS_Product
    <3> QED BY <3>3
  <2>2. IsFiniteSet(SlotSet(S, z))
    BY <1>0, SlotSetFinite
  <2>3. SlotSet(S, k) = SlotSet(S, z) \cup X
    <3>1. ASSUME NEW e \in SlotSet(S, k) PROVE e \in SlotSet(S, z) \cup X
      <4>1. PICK y \in S : \E i \in 1 .. k[y] : e = <<y, i>>
        BY <3>1, SlotMember
      <4>2. CASE y = x
        BY <4>1, <4>2
      <4>3. CASE y # x
        <5>1. z[y] = k[y]
          BY <1>1, <4>3
        <5> QED BY <1>0, <4>1, <5>1, SlotMember
      <4> QED BY <4>2, <4>3
    <3>2. ASSUME NEW e \in SlotSet(S, z) PROVE e \in SlotSet(S, k)
      <4>1. PICK y \in S : \E i \in 1 .. z[y] : e = <<y, i>>
        BY <1>0, <3>2, SlotMember
      <4>2. y # x
        BY <1>0, <4>1
      <4>3. z[y] = k[y]
        BY <1>1, <4>2
      <4> QED BY <4>1, <4>3, SlotMember
    <3>3. ASSUME NEW e \in X PROVE e \in SlotSet(S, k)
      <4>1. \E i \in 1 .. k[x] : e = <<x, i>>
        BY <3>3
      <4> QED BY <4>1, SlotMember
    <3> QED BY <3>1, <3>2, <3>3
  <2>4. SlotSet(S, z) \cap X = {}
    <3>1. SUFFICES ASSUME NEW e \in SlotSet(S, z), e \in X PROVE FALSE
      OBVIOUS
    <3>2. PICK y \in S : \E i \in 1 .. z[y] : e = <<y, i>>
      BY <1>0, SlotMember
    <3>3. y = x
      BY <3>1, <3>2
    <3> QED BY <1>0, <3>2, <3>3
  <2>5. Cardinality(SlotSet(S, z) \cap X) = 0
    BY <2>4, FS_EmptySet
  <2>6. Cardinality(SlotSet(S, z)) \in Nat
    BY <2>2, FS_CardinalityType
  <2>7. Cardinality(SlotSet(S, z) \cup X)
          = Cardinality(SlotSet(S, z)) + Cardinality(X)
              - Cardinality(SlotSet(S, z) \cap X)
    BY <2>1, <2>2, FS_Union
  <2> HIDE DEF X
  <2> QED BY <2>1, <2>3, <2>5, <2>6, <2>7
<1>2. /\ Cardinality(SlotSet(S, n)) = Cardinality(SlotSet(S, z)) + n[x]
      /\ Cardinality(SlotSet(S, z)) \in Nat
  BY <1>0, <1>1
<1>3. Cardinality(SlotSet(S, m)) = Cardinality(SlotSet(S, z)) + m[x]
  BY <1>0, <1>1
<1> QED BY <1>2, <1>3

(* Adding a thread to a set of threads, or removing it.                     *)
Bit(b) == IF b THEN 1 ELSE 0

LEMMA MemberReplace ==
  ASSUME NEW S, IsFiniteSet(S), NEW x, NEW T,
         \A y : y # x => (y \in T <=> y \in S)
  PROVE  /\ Cardinality(S) \in Nat /\ Cardinality(T) \in Nat
         /\ Cardinality(T) = Cardinality(S) - Bit(x \in S) + Bit(x \in T)
<1>1. Cardinality(S) \in Nat
  BY FS_CardinalityType
<1>2. CASE x \in T
  <2>1. T = S \cup {x}
    BY <1>2
  <2>2. Cardinality(T) = IF x \in S THEN Cardinality(S) ELSE Cardinality(S) + 1
    BY <2>1, FS_AddElement
  <2> QED BY <1>1, <1>2, <2>2 DEF Bit
<1>3. CASE x \notin T
  <2>1. T = S \ {x}
    BY <1>3
  <2>2. IsFiniteSet(T)
        /\ Cardinality(T) = IF x \in S THEN Cardinality(S) - 1 ELSE Cardinality(S)
    BY <2>1, FS_RemoveElement
  <2>3. Cardinality(T) \in Nat
    BY <2>2, FS_CardinalityType
  <2> QED BY <1>1, <1>3, <2>2, <2>3 DEF Bit
<1> QED BY <1>2, <1>3

-----------------------------------------------------------------------------
(* The two facts about the variables that every step changes.               *)
CallsOK ==
  /\ call \in [Thread -> CallType]
  /\ \A th \in Thread : CallOK(call[th])

ChannelsOK ==
  /\ tokens \in [Place -> Seq(Token)]
  /\ \A p \in Place : Len(tokens[p]) <= Capacity[p]

-----------------------------------------------------------------------------
(* Replacing the record of one thread by a well-shaped one.                 *)
LEMMA SetType ==
  ASSUME CallsOK, NEW th \in Thread, NEW c \in CallType, CallOK(c), Set(th, c)
  PROVE  CallsOK'
<1>1. \A u \in Thread : call'[u] = IF u = th THEN c ELSE call[u]
  BY DEF CallsOK, Set
<1> QED BY <1>1 DEF CallsOK, Set

LEMMA RequestType ==
  ASSUME NEW p \in Place, NEW t \in Token \cup {None}, NEW n \in Nat,
         NEW step \in Steps
  PROVE  Request(step, p, t, n) \in CallType
BY DEF Request, CallType

LEMMA ResultType ==
  ASSUME NEW ok \in BOOLEAN, NEW t \in Token \cup {None}, NEW s \in Seq(Token)
  PROVE  Result(ok, t, s) \in CallType /\ CallOK(Result(ok, t, s))
BY DEF Result, CallType, CallOK, Steps, AddSteps, RemoveSteps, LockSteps,
       DrainSteps

(* Returning never breaks the shape of the records.                         *)
LEMMA ReturnType ==
  ASSUME CallsOK, NEW th \in Thread, NEW ok \in BOOLEAN,
         NEW t \in Token \cup {None}, NEW s \in Seq(Token), Return(th, ok, t, s)
  PROVE  CallsOK'
BY SetType, ResultType DEF Return

(* A send that finds room, and a receive that finds a token.                *)
LEMMA SendType ==
  ASSUME ChannelsOK, NEW p \in Place, NEW t \in Token, ~Full(p),
         tokens' = [tokens EXCEPT ![p] = Append(@, t)]
  PROVE  ChannelsOK'
<1>1. tokens[p] \in Seq(Token) /\ Len(tokens[p]) \in Nat
  BY DEF ChannelsOK
<1>0. Capacity[p] \in Nat
  BY PlaceAssumption
<1>2. Append(tokens[p], t) \in Seq(Token)
      /\ Len(Append(tokens[p], t)) = Len(tokens[p]) + 1
  BY <1>1, AppendProperties
<1>3. Len(tokens[p]) + 1 <= Capacity[p]
  BY <1>0, <1>1 DEF Full
<1>4. /\ tokens' \in [Place -> Seq(Token)]
      /\ \A q \in Place :
           tokens'[q] = IF q = p THEN Append(tokens[p], t) ELSE tokens[q]
  BY <1>2 DEF ChannelsOK
<1> QED BY <1>2, <1>3, <1>4 DEF ChannelsOK

LEMMA ReceiveType ==
  ASSUME ChannelsOK, NEW p \in Place, tokens[p] # <<>>,
         tokens' = [tokens EXCEPT ![p] = Tail(@)]
  PROVE  ChannelsOK' /\ Head(tokens[p]) \in Token
<1>1. tokens[p] \in Seq(Token) /\ Len(tokens[p]) \in Nat
  BY DEF ChannelsOK
<1>0. Capacity[p] \in Nat
  BY PlaceAssumption
<1>2. /\ Tail(tokens[p]) \in Seq(Token)
      /\ Len(Tail(tokens[p])) = Len(tokens[p]) - 1
      /\ Head(tokens[p]) \in Token
  BY <1>1, HeadTailProperties
<1>3. /\ tokens' \in [Place -> Seq(Token)]
      /\ \A q \in Place :
           tokens'[q] = IF q = p THEN Tail(tokens[p]) ELSE tokens[q]
  BY <1>2 DEF ChannelsOK
<1>4. Len(tokens[p]) - 1 <= Capacity[p]
  BY <1>0, <1>1 DEF ChannelsOK
<1> QED BY <1>2, <1>3, <1>4 DEF ChannelsOK

-----------------------------------------------------------------------------
(* Each operation keeps the types.                                          *)

(* The record of a thread at one of its steps.                              *)
LEMMA CallFields ==
  ASSUME CallsOK, NEW th \in Thread
  PROVE  /\ call[th] \in CallType
         /\ CallOK(call[th])
         /\ call[th].buf \in Seq(Token) /\ call[th].seen \in Seq(Token)
         /\ call[th].avail \in Nat /\ call[th].need \in Nat
         /\ call[th].tok \in Token \cup {None}
         /\ call[th].pc \in Steps => call[th].place \in Place
BY DEF CallsOK, CallType, CallOK

(* The records written by the steps that do not end a call.                 *)
LEMMA GotoType ==
  ASSUME NEW c \in CallType, NEW step \in Steps
  PROVE  [c EXCEPT !.pc = step] \in CallType
BY DEF CallType

LEMMA AddType ==
  ASSUME PlaceTypeOK, NEW th \in Thread,
         AddCheck(th) \/ AddSend(th) \/ AddCount(th)
  PROVE  PlaceTypeOK'
<1> USE DEF PlaceTypeOK
<1>1. CallsOK /\ ChannelsOK
  BY DEF CallsOK, ChannelsOK
<1>2. /\ call[th] \in CallType /\ CallOK(call[th])
      /\ call[th].pc \in Steps => call[th].place \in Place
  BY <1>1, CallFields
<1>3. <<>> \in Seq(Token) /\ None \in Token \cup {None}
  OBVIOUS
<1>4. ASSUME NEW ok \in BOOLEAN, Return(th, ok, None, <<>>)
      PROVE  CallsOK'
  BY <1>1, <1>3, <1>4, ReturnType
<1>5. CASE AddCheck(th)
  <2>1. CASE Goto(th, "add_send")
    <3>1. [call[th] EXCEPT !.pc = "add_send"] \in CallType
      BY <1>2, GotoType DEF Steps, AddSteps
    <3>2. CallOK([call[th] EXCEPT !.pc = "add_send"])
      BY <1>2, <1>5 DEF AddCheck, CallOK, CallType, Steps, AddSteps,
                        RemoveSteps, LockSteps, DrainSteps
    <3>3. CallsOK'
      BY <1>1, <2>1, <3>1, <3>2, SetType DEF Goto
    <3> QED BY <1>5, <3>3 DEF AddCheck, CallsOK, history
  <2>2. CASE Return(th, FALSE, None, <<>>)
    BY <1>4, <1>5, <2>2 DEF AddCheck, CallsOK, history
  <2> QED BY <1>5, <2>1, <2>2 DEF AddCheck
<1>6. CASE AddSend(th)
  <2> DEFINE p == call[th].place
  <2>0. p \in Place /\ call[th].tok \in Token
    BY <1>2, <1>6 DEF AddSend, CallOK, Steps, AddSteps
  <2>1. CASE ~Full(p) /\ Send(th, p, call[th].tok) /\ Goto(th, "add_count")
    <3>1. [call[th] EXCEPT !.pc = "add_count"] \in CallType
      BY <1>2, GotoType DEF Steps, AddSteps
    <3>2. CallOK([call[th] EXCEPT !.pc = "add_count"])
      BY <1>2, <1>6 DEF AddSend, CallOK, CallType, Steps, AddSteps,
                        RemoveSteps, LockSteps, DrainSteps
    <3>3. CallsOK'
      BY <1>1, <2>1, <3>1, <3>2, SetType DEF Goto
    <3>4. ChannelsOK'
      BY <1>1, <2>0, <2>1, SendType DEF Send
    <3>5. disturbed' \subseteq Thread
      BY <2>0, <2>1 DEF Send, Disturb
    <3> QED BY <1>6, <3>3, <3>4, <3>5 DEF AddSend, CallsOK, ChannelsOK
  <2>2. CASE Return(th, FALSE, None, <<>>) /\ UNCHANGED <<tokens, disturbed>>
    BY <1>4, <1>6, <2>2 DEF AddSend, CallsOK
  <2> QED BY <1>6, <2>1, <2>2 DEF AddSend
<1>7. CASE AddCount(th)
  <2>1. CallsOK'
    BY <1>4, <1>7 DEF AddCount
  <2> QED BY <1>7, <2>1 DEF AddCount, IncrementTokenCount, CallsOK, history
<1> QED BY <1>5, <1>6, <1>7

LEMMA RemoveType ==
  ASSUME PlaceTypeOK, NEW th \in Thread, RemoveReceive(th) \/ RemoveCount(th)
  PROVE  PlaceTypeOK'
<1> USE DEF PlaceTypeOK
<1>1. CallsOK /\ ChannelsOK
  BY DEF CallsOK, ChannelsOK
<1>2. /\ call[th] \in CallType /\ CallOK(call[th])
      /\ call[th].pc \in Steps => call[th].place \in Place
      /\ call[th].tok \in Token \cup {None}
  BY <1>1, CallFields
<1>3. <<>> \in Seq(Token) /\ None \in Token \cup {None}
  OBVIOUS
<1>4. CASE RemoveReceive(th)
  <2> DEFINE p == call[th].place
             c == [call[th] EXCEPT !.pc = "rem_count", !.tok = Head(tokens[p])]
  <2>0. p \in Place
    BY <1>2, <1>4 DEF RemoveReceive, Steps, RemoveSteps
  <2>1. CASE tokens[p] # <<>> /\ Receive(th, p) /\ Set(th, c)
    <3>1. ChannelsOK' /\ Head(tokens[p]) \in Token
      BY <1>1, <2>0, <2>1, ReceiveType DEF Receive
    <3>2. c \in CallType
      BY <1>2, <3>1 DEF CallType, Steps, RemoveSteps
    <3>3. CallOK(c)
      BY <1>2, <1>4, <3>1 DEF RemoveReceive, CallOK, CallType, Steps, AddSteps,
                             RemoveSteps, LockSteps, DrainSteps
    <3>4. CallsOK'
      BY <1>1, <2>1, <3>2, <3>3, SetType
    <3>5. disturbed' \subseteq Thread
      BY <2>0, <2>1 DEF Receive, Disturb
    <3> QED BY <1>4, <3>1, <3>4, <3>5 DEF RemoveReceive, CallsOK, ChannelsOK
  <2>2. CASE Return(th, FALSE, None, <<>>) /\ UNCHANGED <<tokens, disturbed>>
    <3>1. CallsOK'
      BY <1>1, <1>3, <2>2, ReturnType
    <3> QED BY <1>4, <2>2, <3>1 DEF RemoveReceive, CallsOK
  <2> QED BY <1>4, <2>1, <2>2 DEF RemoveReceive
<1>5. CASE RemoveCount(th)
  <2>1. CallsOK'
    BY <1>1, <1>2, <1>3, <1>5, ReturnType DEF RemoveCount
  <2> QED BY <1>5, <2>1 DEF RemoveCount, IncrementTokenCount, CallsOK, history
<1> QED BY <1>4, <1>5

(* Locking and unlocking the peek mutex of a place.                         *)
LEMMA LockType ==
  ASSUME PlaceTypeOK, NEW th \in Thread, NEW p \in Place,
         LockPeek(th, p) \/ UnlockPeek(th, p)
  PROVE  /\ peekMu' \in [Place -> Thread \cup {None}]
         /\ before' \in [Thread -> Seq(Token)]
<1>1. tokens[p] \in Seq(Token) /\ <<>> \in Seq(Token)
  BY DEF PlaceTypeOK
<1>2. /\ peekMu \in [Place -> Thread \cup {None}]
      /\ before \in [Thread -> Seq(Token)]
  BY DEF PlaceTypeOK
<1>3. CASE LockPeek(th, p)
  BY <1>1, <1>2, <1>3 DEF LockPeek
<1>4. CASE UnlockPeek(th, p)
  BY <1>1, <1>2, <1>4 DEF UnlockPeek
<1> QED BY <1>3, <1>4

(* One receive of a drain loop.                                             *)
LEMMA DrainType ==
  ASSUME PlaceTypeOK, NEW th \in Thread, Drain(th),
         call[th].pc \in {"peek_drain", "pwc_drain"},
         call[th].pc = "pwc_drain" => Len(call[th].buf) < call[th].avail
  PROVE  PlaceTypeOK'
<1> DEFINE p == call[th].place
           c == [call[th] EXCEPT !.buf = Append(@, Head(tokens[p]))]
<1>1. CallsOK /\ ChannelsOK
  BY DEF PlaceTypeOK, CallsOK, ChannelsOK
<1>2. /\ call[th] \in CallType /\ CallOK(call[th])
      /\ call[th].buf \in Seq(Token) /\ call[th].avail \in Nat
      /\ p \in Place
  BY <1>1, CallFields DEF Steps, DrainSteps
<1>3. ChannelsOK' /\ Head(tokens[p]) \in Token
  BY <1>1, <1>2, ReceiveType DEF Drain, Receive
<1>4. /\ Append(call[th].buf, Head(tokens[p])) \in Seq(Token)
      /\ Len(Append(call[th].buf, Head(tokens[p]))) = Len(call[th].buf) + 1
      /\ Append(call[th].buf, Head(tokens[p])) # <<>>
      /\ Len(call[th].buf) \in Nat
  BY <1>2, <1>3, AppendProperties
<1>5. c \in CallType
  BY <1>2, <1>4 DEF CallType
<1>6. /\ c.pc = call[th].pc /\ c.place = call[th].place
      /\ c.need = call[th].need /\ c.avail = call[th].avail
      /\ c.buf = Append(call[th].buf, Head(tokens[p]))
  BY <1>2 DEF CallType
<1>7. CallOK(c)
  BY <1>2, <1>4, <1>6 DEF CallOK, Steps, AddSteps, RemoveSteps, LockSteps,
                          DrainSteps
<1>8. CallsOK'
  BY <1>1, <1>5, <1>7, SetType DEF Drain
<1>9. disturbed' \subseteq Thread
  BY <1>2 DEF Drain, Receive, Disturb, PlaceTypeOK
<1> QED BY <1>3, <1>8, <1>9 DEF Drain, PlaceTypeOK, CallsOK, ChannelsOK

(* The end of a round of a put-back loop.                                   *)
LEMMA RefilledType ==
  ASSUME PlaceTypeOK, NEW th \in Thread, NEW ok \in BOOLEAN, Refilled(th, ok),
         call[th].pc \in {"peek_refill", "pwc_undo", "pwc_refill"}
  PROVE  /\ CallsOK'
         /\ peekMu' \in [Place -> Thread \cup {None}]
         /\ before' \in [Thread -> Seq(Token)]
         /\ disturbed' \subseteq Thread
<1> DEFINE p == call[th].place
           c == [call[th] EXCEPT !.buf = Tail(@)]
<1>1. CallsOK
  BY DEF PlaceTypeOK, CallsOK
<1>2. /\ call[th] \in CallType /\ CallOK(call[th])
      /\ call[th].buf \in Seq(Token) /\ call[th].seen \in Seq(Token)
      /\ p \in Place /\ call[th].buf # <<>>
  BY <1>1, CallFields DEF Steps, DrainSteps, CallOK
<1>3. /\ Tail(call[th].buf) \in Seq(Token)
      /\ Len(Tail(call[th].buf)) = Len(call[th].buf) - 1
      /\ Len(call[th].buf) \in Nat
  BY <1>2, HeadTailProperties
<1>4. CASE Tail(call[th].buf) # <<>>
  <2>1. c \in CallType
    BY <1>2, <1>3 DEF CallType
  <2>2. /\ c.pc = call[th].pc /\ c.place = call[th].place
        /\ c.buf = Tail(call[th].buf)
    BY <1>2 DEF CallType
  <2>4. CallOK(c)
    BY <1>2, <1>4, <2>2 DEF CallOK, Steps, AddSteps, RemoveSteps, LockSteps,
                            DrainSteps
  <2>5. CallsOK'
    BY <1>1, <1>4, <2>1, <2>4, SetType DEF Refilled
  <2> QED BY <1>4, <2>5 DEF Refilled, PlaceTypeOK
<1>5. CASE Tail(call[th].buf) = <<>>
  <2>1. Return(th, ok, None, call[th].seen) /\ UnlockPeek(th, p)
    BY <1>5 DEF Refilled
  <2>2. CallsOK'
    BY <1>1, <1>2, <2>1, ReturnType
  <2>3. disturbed' \subseteq Thread
    BY <1>5 DEF Refilled, PlaceTypeOK
  <2> QED BY <1>2, <2>1, <2>2, <2>3, LockType
<1> QED BY <1>4, <1>5

LEMMA PeekType ==
  ASSUME PlaceTypeOK, NEW th \in Thread,
         PeekLock(th) \/ PeekDrain(th) \/ PeekRefill(th)
  PROVE  PlaceTypeOK'
<1> DEFINE p == call[th].place
<1>1. CallsOK /\ ChannelsOK
  BY DEF PlaceTypeOK, CallsOK, ChannelsOK
<1>2. /\ call[th] \in CallType /\ CallOK(call[th])
      /\ call[th].buf \in Seq(Token) /\ call[th].seen \in Seq(Token)
      /\ call[th].pc \in Steps => p \in Place
  BY <1>1, CallFields
<1>3. <<>> \in Seq(Token) /\ None \in Token \cup {None}
  OBVIOUS
<1>4. CASE PeekLock(th)
  <2>1. p \in Place
    BY <1>2, <1>4 DEF PeekLock, Steps, LockSteps
  <2>2. [call[th] EXCEPT !.pc = "peek_drain"] \in CallType
    BY <1>2, GotoType DEF Steps, DrainSteps
  <2>3. CallOK([call[th] EXCEPT !.pc = "peek_drain"])
    BY <1>2, <1>4, <2>1 DEF PeekLock, CallOK, CallType, Steps, AddSteps,
                            RemoveSteps, LockSteps, DrainSteps
  <2>4. CallsOK'
    BY <1>1, <1>4, <2>2, <2>3, SetType DEF PeekLock, Goto
  <2> QED BY <1>4, <2>1, <2>4, LockType DEF PeekLock, PlaceTypeOK, CallsOK
<1>5. CASE PeekDrain(th)
  <2>1. p \in Place
    BY <1>2, <1>5 DEF PeekDrain, Steps, DrainSteps
  <2>2. CASE Drain(th)
    BY <1>5, <2>2, DrainType DEF PeekDrain
  <2>3. CASE Return(th, TRUE, None, <<>>) /\ UnlockPeek(th, p)
             /\ disturbed' = disturbed \ {th}
             /\ UNCHANGED <<tokens, totalTokens, uncounted, lost>>
    <3>1. CallsOK'
      BY <1>1, <1>3, <2>3, ReturnType
    <3> QED BY <2>1, <2>3, <3>1, LockType DEF PlaceTypeOK, CallsOK
  <2>4. CASE /\ call[th].buf # <<>>
             /\ Set(th, [call[th] EXCEPT !.pc = "peek_refill",
                                         !.seen = call[th].buf])
             /\ UNCHANGED <<peekMu, before, disturbed, tokens, totalTokens,
                            uncounted, lost>>
    <3> DEFINE c == [call[th] EXCEPT !.pc = "peek_refill",
                                     !.seen = call[th].buf]
    <3>1. c \in CallType
      BY <1>2 DEF CallType, Steps, DrainSteps
    <3>2. c.pc = "peek_refill" /\ c.place = p /\ c.buf = call[th].buf
      BY <1>2 DEF CallType
    <3>3. CallOK(c)
      BY <2>1, <2>4, <3>2 DEF CallOK, Steps, AddSteps, RemoveSteps, LockSteps,
                             DrainSteps
    <3>4. CallsOK'
      BY <1>1, <2>4, <3>1, <3>3, SetType
    <3> QED BY <2>4, <3>4 DEF PlaceTypeOK, CallsOK
  <2> QED BY <1>5, <2>2, <2>3, <2>4 DEF PeekDrain
<1>6. CASE PeekRefill(th)
  <2>1. p \in Place /\ call[th].buf # <<>>
    BY <1>2, <1>6 DEF PeekRefill, CallOK, Steps, DrainSteps
  <2>2. Head(call[th].buf) \in Token
    BY <1>2, <2>1, HeadTailProperties
  <2>3. /\ CallsOK'
        /\ peekMu' \in [Place -> Thread \cup {None}]
        /\ before' \in [Thread -> Seq(Token)]
        /\ disturbed' \subseteq Thread
    BY <1>6, RefilledType DEF PeekRefill
  <2>4. CASE /\ ~Full(p)
             /\ tokens' = [tokens EXCEPT ![p] = Append(@, Head(call[th].buf))]
             /\ UNCHANGED <<uncounted, lost>>
    <3>1. ChannelsOK'
      BY <1>1, <2>1, <2>2, <2>4, SendType
    <3> QED BY <1>6, <2>3, <2>4, <3>1
            DEF PeekRefill, PlaceTypeOK, CallsOK, ChannelsOK
  <2>5. CASE /\ lost' = lost \cup {Head(call[th].buf)}
             /\ uncounted' = uncounted + 1
             /\ UNCHANGED tokens
    BY <1>6, <2>2, <2>3, <2>5 DEF PeekRefill, PlaceTypeOK, CallsOK
  <2> QED BY <1>6, <2>4, <2>5 DEF PeekRefill
<1> QED BY <1>4, <1>5, <1>6

LEMMA PwcType ==
  ASSUME PlaceTypeOK, NEW th \in Thread,
         PwcLock(th) \/ PwcDrain(th) \/ PwcRefill(th)
  PROVE  PlaceTypeOK'
<1> DEFINE p == call[th].place
<1>1. CallsOK /\ ChannelsOK
  BY DEF PlaceTypeOK, CallsOK, ChannelsOK
<1>2. /\ call[th] \in CallType /\ CallOK(call[th])
      /\ call[th].buf \in Seq(Token) /\ call[th].seen \in Seq(Token)
      /\ call[th].avail \in Nat /\ call[th].need \in Nat
      /\ p \in Place
  BY <1>1, CallFields DEF PwcLock, PwcDrain, PwcRefill, Steps, LockSteps,
                          DrainSteps
<1>3. /\ <<>> \in Seq(Token) /\ None \in Token \cup {None}
      /\ tokens[p] \in Seq(Token) /\ Len(tokens[p]) \in Nat
      /\ Len(call[th].buf) \in Nat
  BY <1>1, <1>2 DEF ChannelsOK
<1>4. ASSUME NEW ok \in BOOLEAN, Return(th, ok, None, <<>>)
      PROVE  CallsOK'
  BY <1>1, <1>3, <1>4, ReturnType
<1>5. CASE PwcLock(th)
  <2>1. CASE Return(th, FALSE, None, <<>>) /\ UNCHANGED <<peekMu, before>>
    BY <1>4, <1>5, <2>1 DEF PwcLock, PlaceTypeOK, CallsOK
  <2>2. CASE /\ ~(Len(tokens[p]) < call[th].need)
             /\ LockPeek(th, p)
             /\ Set(th, [call[th] EXCEPT !.pc = "pwc_drain",
                                         !.avail = Len(tokens[p])])
    <3> DEFINE c == [call[th] EXCEPT !.pc = "pwc_drain",
                                     !.avail = Len(tokens[p])]
    <3>1. c \in CallType
      BY <1>2, <1>3 DEF CallType, Steps, DrainSteps
    <3>2. /\ c.pc = "pwc_drain" /\ c.place = p /\ c.buf = call[th].buf
          /\ c.need = call[th].need /\ c.avail = Len(tokens[p])
      BY <1>2 DEF CallType
    <3>3. call[th].buf = <<>> /\ call[th].need >= 1
      BY <1>2, <1>5 DEF PwcLock, CallOK, DrainSteps
    <3>4. Len(c.buf) <= c.avail /\ c.need <= c.avail
      BY <1>2, <1>3, <2>2, <3>2, <3>3, EmptySeq
    <3>5. CallOK(c)
      BY <1>2, <3>2, <3>3, <3>4 DEF CallOK, Steps, AddSteps, RemoveSteps,
                                    LockSteps, DrainSteps
    <3>6. CallsOK'
      BY <1>1, <2>2, <3>1, <3>5, SetType
    <3> QED BY <1>2, <1>5, <2>2, <3>6, LockType
            DEF PwcLock, PlaceTypeOK, CallsOK
  <2> QED BY <1>5, <2>1, <2>2 DEF PwcLock
<1>6. CASE PwcDrain(th)
  <2>1. CASE Len(call[th].buf) < call[th].avail /\ Drain(th)
    BY <1>6, <2>1, DrainType DEF PwcDrain
  <2>2. CASE Return(th, FALSE, None, <<>>) /\ UnlockPeek(th, p)
             /\ disturbed' = disturbed \ {th}
             /\ UNCHANGED <<tokens, totalTokens, uncounted, lost>>
    <3>1. CallsOK'
      BY <1>4, <2>2
    <3> QED BY <1>2, <2>2, <3>1, LockType DEF PlaceTypeOK, CallsOK
  <2>3. CASE /\ call[th].buf # <<>> /\ Goto(th, "pwc_undo")
             /\ UNCHANGED <<peekMu, before, disturbed, tokens, totalTokens,
                            uncounted, lost>>
    <3> DEFINE c == [call[th] EXCEPT !.pc = "pwc_undo"]
    <3>1. c \in CallType
      BY <1>2, GotoType DEF Steps, DrainSteps
    <3>2. c.pc = "pwc_undo" /\ c.place = p /\ c.buf = call[th].buf
      BY <1>2 DEF CallType
    <3>3. CallOK(c)
      BY <1>2, <2>3, <3>2 DEF CallOK, Steps, AddSteps, RemoveSteps, LockSteps,
                             DrainSteps
    <3>4. CallsOK'
      BY <1>1, <2>3, <3>1, <3>3, SetType DEF Goto
    <3> QED BY <2>3, <3>4 DEF PlaceTypeOK, CallsOK
  <2>4. CASE /\ Len(call[th].buf) = call[th].avail
             /\ Set(th, [call[th] EXCEPT
                           !.pc = "pwc_refill",
                           !.seen = SubSeq(call[th].buf, 1, call[th].need)])
             /\ UNCHANGED <<tokens, totalTokens, peekMu, history>>
    <3> DEFINE s == SubSeq(call[th].buf, 1, call[th].need)
               c == [call[th] EXCEPT !.pc = "pwc_refill", !.seen = s]
    <3>1. call[th].need >= 1 /\ call[th].need <= call[th].avail
      BY <1>2, <1>6 DEF PwcDrain, CallOK
    <3>2. s \in Seq(Token)
      BY <1>2, <1>3, <2>4, <3>1, SubSeqProperties
    <3>3. c \in CallType
      BY <1>2, <3>2 DEF CallType, Steps, DrainSteps
    <3>4. c.pc = "pwc_refill" /\ c.place = p /\ c.buf = call[th].buf
      BY <1>2 DEF CallType
    <3>5. Len(call[th].buf) # 0
      BY <1>2, <1>3, <2>4, <3>1
    <3>6. call[th].buf # <<>>
      BY <1>2, <3>5, EmptySeq
    <3>7. CallOK(c)
      BY <1>2, <3>4, <3>6 DEF CallOK, Steps, AddSteps, RemoveSteps, LockSteps,
                             DrainSteps
    <3>8. CallsOK'
      BY <1>1, <2>4, <3>3, <3>7, SetType
    <3> QED BY <2>4, <3>8 DEF PlaceTypeOK, CallsOK, history
  <2> QED BY <1>6, <2>1, <2>2, <2>3, <2>4 DEF PwcDrain
<1>7. CASE PwcRefill(th)
  <2>1. call[th].buf # <<>>
    BY <1>2, <1>7 DEF PwcRefill, CallOK
  <2>2. Head(call[th].buf) \in Token
    BY <1>2, <2>1, HeadTailProperties
  <2>3. (call[th].pc = "pwc_refill") \in BOOLEAN
    OBVIOUS
  <2>4. /\ CallsOK'
        /\ peekMu' \in [Place -> Thread \cup {None}]
        /\ before' \in [Thread -> Seq(Token)]
        /\ disturbed' \subseteq Thread
    BY <1>7, <2>3, RefilledType DEF PwcRefill
  <2>5. ChannelsOK'
    BY <1>1, <1>2, <1>7, <2>2, SendType DEF PwcRefill
  <2> QED BY <1>7, <2>4, <2>5
          DEF PwcRefill, PlaceTypeOK, CallsOK, ChannelsOK
<1> QED BY <1>5, <1>6, <1>7

LEMMA ClearType ==
  ASSUME PlaceTypeOK, NEW th \in Thread,
         ClearLock(th) \/ ClearLen(th) \/ ClearReceive(th)
  PROVE  PlaceTypeOK'
<1> DEFINE p == call[th].place
<1>1. CallsOK /\ ChannelsOK
  BY DEF PlaceTypeOK, CallsOK, ChannelsOK
<1>2. /\ call[th] \in CallType /\ CallOK(call[th])
      /\ call[th].buf \in Seq(Token) /\ p \in Place
  BY <1>1, CallFields DEF ClearLock, ClearLen, ClearReceive, Steps, LockSteps,
                          DrainSteps
<1>7. Len(call[th].buf) \in Nat
  BY <1>2
<1>3. ASSUME NEW step \in {"clr_len", "clr_recv"}, Goto(th, step),
             call[th].pc \in {"clr_lock", "clr_len"}
      PROVE  CallsOK'
  <2> DEFINE c == [call[th] EXCEPT !.pc = step]
  <2>1. c \in CallType
    BY <1>2, GotoType DEF Steps, DrainSteps
  <2>2. c.pc = step /\ c.place = p /\ c.buf = call[th].buf
    BY <1>2 DEF CallType
  <2>3. CallOK(c)
    BY <1>2, <2>2 DEF CallOK, Steps, AddSteps, RemoveSteps, LockSteps, DrainSteps
  <2> QED BY <1>1, <1>3, <2>1, <2>3, SetType DEF Goto
<1>4. CASE ClearLock(th)
  <2>1. CallsOK'
    BY <1>3, <1>4 DEF ClearLock
  <2> QED BY <1>2, <1>4, <2>1, LockType
          DEF ClearLock, PlaceTypeOK, CallsOK
<1>5. CASE ClearLen(th)
  <2>1. CASE Goto(th, "clr_recv")
             /\ UNCHANGED <<peekMu, before, disturbed, uncounted>>
    <3>1. CallsOK'
      BY <1>3, <1>5, <2>1 DEF ClearLen
    <3> QED BY <1>5, <2>1, <3>1 DEF ClearLen, PlaceTypeOK, CallsOK
  <2>2. CASE /\ Return(th, TRUE, None, call[th].buf)
             /\ uncounted' = uncounted + Len(call[th].buf)
             /\ UnlockPeek(th, p)
             /\ disturbed' = disturbed \ {th}
    <3>1. CallsOK'
      BY <1>1, <1>2, <2>2, ReturnType
    <3> QED BY <1>2, <1>5, <1>7, <2>2, <3>1, LockType
            DEF ClearLen, PlaceTypeOK, CallsOK
  <2> QED BY <1>5, <2>1, <2>2 DEF ClearLen
<1>6. CASE ClearReceive(th)
  <2> DEFINE b == Append(call[th].buf, Head(tokens[p]))
             c == [call[th] EXCEPT !.pc = "clr_len", !.buf = b]
  <2>1. ChannelsOK' /\ Head(tokens[p]) \in Token
    BY <1>1, <1>2, <1>6, ReceiveType DEF ClearReceive, Receive
  <2>2. b \in Seq(Token)
    BY <1>2, <2>1, AppendProperties
  <2>3. c \in CallType
    BY <1>2, <2>2 DEF CallType, Steps, DrainSteps
  <2>4. c.pc = "clr_len" /\ c.place = p
    BY <1>2 DEF CallType
  <2>5. CallOK(c)
    BY <1>2, <2>4 DEF CallOK, Steps, AddSteps, RemoveSteps, LockSteps, DrainSteps
  <2>6. CallsOK'
    BY <1>1, <1>6, <2>3, <2>5, SetType DEF ClearReceive
  <2>7. disturbed' \subseteq Thread
    BY <1>2, <1>6 DEF ClearReceive, Receive, Disturb, PlaceTypeOK
  <2> QED BY <1>6, <2>1, <2>6, <2>7
          DEF ClearReceive, PlaceTypeOK, CallsOK, ChannelsOK
<1> QED BY <1>4, <1>5, <1>6

-----------------------------------------------------------------------------
(* The peek mutex.  A step keeps, takes or gives up the mutex of the place  *)
(* of its call; the three lemmas say when that agrees with its program      *)
(* counter.                                                                 *)
MutexInv == PlaceTypeOK /\ PeekMutex

InDrain(c, p) == c.pc \in DrainSteps /\ c.place = p

LEMMA KeepsMutex ==
  ASSUME MutexInv, NEW th \in Thread, NEW c, Set(th, c), peekMu' = peekMu,
         \A p \in Place : InDrain(c, p) <=> InDrain(call[th], p)
  PROVE  PeekMutex'
<1>1. \A u \in Thread : call'[u] = IF u = th THEN c ELSE call[u]
  BY DEF Set, MutexInv, PlaceTypeOK
<1>2. \A u \in Thread, p \in Place : peekMu[p] = u <=> InDrain(call[u], p)
  BY DEF MutexInv, PeekMutex, InDrain
<1>3. \A u \in Thread, p \in Place : peekMu'[p] = u <=> InDrain(call'[u], p)
  BY <1>1, <1>2
<1> QED BY <1>3 DEF PeekMutex, InDrain

LEMMA TakesMutex ==
  ASSUME MutexInv, NEW th \in Thread, NEW c, Set(th, c), NEW p \in Place,
         LockPeek(th, p), call[th].pc \notin DrainSteps, InDrain(c, p)
  PROVE  PeekMutex'
<1>1. \A u \in Thread : call'[u] = IF u = th THEN c ELSE call[u]
  BY DEF Set, MutexInv, PlaceTypeOK
<1>2. \A u \in Thread, q \in Place : peekMu[q] = u <=> InDrain(call[u], q)
  BY DEF MutexInv, PeekMutex, InDrain
<1>3. /\ \A q \in Place : peekMu'[q] = IF q = p THEN th ELSE peekMu[q]
      /\ peekMu[p] = None
  BY DEF LockPeek, MutexInv, PlaceTypeOK
<1>4. None \notin Thread
  BY PlaceAssumption
<1>5. \A q \in Place : InDrain(c, q) <=> q = p
  BY DEF InDrain
<1>6. ASSUME NEW u \in Thread, NEW q \in Place
      PROVE  peekMu'[q] = u <=> InDrain(call'[u], q)
  <2>1. CASE u = th
    <3>1. ~InDrain(call[th], q)
      BY DEF InDrain
    <3> QED BY <1>1, <1>2, <1>3, <1>5, <2>1, <3>1
  <2>2. CASE u # th
    <3>1. ~InDrain(call[u], p)
      BY <1>2, <1>3, <1>4
    <3> QED BY <1>1, <1>2, <1>3, <2>2, <3>1
  <2> QED BY <2>1, <2>2
<1> QED BY <1>6 DEF PeekMutex, InDrain

LEMMA ReleasesMutex ==
  ASSUME MutexInv, NEW th \in Thread, NEW c, Set(th, c), NEW p \in Place,
         UnlockPeek(th, p), InDrain(call[th], p), c.pc \notin DrainSteps
  PROVE  PeekMutex'
<1>1. \A u \in Thread : call'[u] = IF u = th THEN c ELSE call[u]
  BY DEF Set, MutexInv, PlaceTypeOK
<1>2. \A u \in Thread, q \in Place : peekMu[q] = u <=> InDrain(call[u], q)
  BY DEF MutexInv, PeekMutex, InDrain
<1>3. \A q \in Place : peekMu'[q] = IF q = p THEN None ELSE peekMu[q]
  BY DEF UnlockPeek, MutexInv, PlaceTypeOK
<1>4. None \notin Thread
  BY PlaceAssumption
<1>5. \A q \in Place : ~InDrain(c, q) /\ (InDrain(call[th], q) <=> q = p)
  BY DEF InDrain
<1>6. ASSUME NEW u \in Thread, NEW q \in Place
      PROVE  peekMu'[q] = u <=> InDrain(call'[u], q)
  <2>1. CASE u = th
    BY <1>1, <1>2, <1>3, <1>4, <1>5, <2>1
  <2>2. CASE u # th
    <3>1. ~InDrain(call[u], p)
      BY <1>2, <2>2
    <3> QED BY <1>1, <1>2, <1>3, <1>4, <2>2, <3>1
  <2> QED BY <2>1, <2>2
<1> QED BY <1>6 DEF PeekMutex, InDrain

(* The records that a step can write, by the part of the call it is in.     *)
LEMMA RecordShapes ==
  ASSUME PlaceTypeOK, NEW th \in Thread
  PROVE  /\ call[th] \in CallType
         /\ \A ok, t, s : Result(ok, t, s).pc \notin DrainSteps
         /\ \A step, p, t, n : Request(step, p, t, n).pc = step
         /\ call[th].pc \in Steps => call[th].place \in Place
BY DEF PlaceTypeOK, Result, Request, DrainSteps, CallOK

(* A thread that starts a call holds no mutex and takes none.               *)
LEMMA RequestMutex ==
  ASSUME MutexInv, NEW th \in Thread, Free(th), NEW step \in Steps \ DrainSteps,
         NEW p, NEW t, NEW n, Set(th, Request(step, p, t, n)), peekMu' = peekMu
  PROVE  PeekMutex'
<1> DEFINE c == Request(step, p, t, n)
<1>1. c.pc \notin DrainSteps /\ call[th].pc \notin DrainSteps
  BY DEF Request, Free, DrainSteps
<1>2. Set(th, c)
  OBVIOUS
<1> HIDE DEF c
<1>3. \A q \in Place : InDrain(c, q) <=> InDrain(call[th], q)
  BY <1>1 DEF InDrain
<1> QED BY <1>2, <1>3, KeepsMutex

(* Outside the drains no step touches peekMu.                               *)
LEMMA OutsideMutex ==
  ASSUME MutexInv, NEW th \in Thread,
         \/ AddCheck(th) \/ AddSend(th) \/ AddCount(th)
         \/ RemoveReceive(th) \/ RemoveCount(th)
  PROVE  PeekMutex'
<1>1. /\ call[th] \in CallType
      /\ \A ok, t, s : Result(ok, t, s).pc \notin DrainSteps
      /\ \A step, p, t, n : Request(step, p, t, n).pc = step
  BY RecordShapes DEF MutexInv
<1>2. peekMu' = peekMu /\ call[th].pc \notin DrainSteps
  BY DEF AddCheck, AddSend, AddCount, RemoveReceive, RemoveCount, DrainSteps,
         history
<1>3. PICK c : Set(th, c) /\ c.pc \notin DrainSteps
  <2>2. ASSUME NEW ok, NEW t, NEW s, Return(th, ok, t, s)
        PROVE  \E c : Set(th, c) /\ c.pc \notin DrainSteps
    BY <1>1, <2>2 DEF Return
  <2>3. ASSUME NEW step \in {"add_send", "add_count"}, Goto(th, step)
        PROVE  \E c : Set(th, c) /\ c.pc \notin DrainSteps
    <3> DEFINE c == [call[th] EXCEPT !.pc = step]
    <3>1. Set(th, c) /\ c.pc = step
      BY <1>1, <2>3 DEF Goto, CallType
    <3> QED BY <3>1 DEF DrainSteps
  <2>4. ASSUME NEW t, Set(th, [call[th] EXCEPT !.pc = "rem_count", !.tok = t])
        PROVE  \E c : Set(th, c) /\ c.pc \notin DrainSteps
    <3> DEFINE c == [call[th] EXCEPT !.pc = "rem_count", !.tok = t]
    <3>1. Set(th, c) /\ c.pc = "rem_count"
      BY <1>1, <2>4 DEF CallType
    <3> QED BY <3>1 DEF DrainSteps
  <2>5. CASE AddCheck(th) \/ AddSend(th) \/ AddCount(th)
    BY <2>2, <2>3, <2>5 DEF AddCheck, AddSend, AddCount
  <2>6. CASE RemoveReceive(th) \/ RemoveCount(th)
    BY <2>2, <2>4, <2>6 DEF RemoveReceive, RemoveCount
  <2> QED BY <2>5, <2>6
<1>4. \A p \in Place : InDrain(c, p) <=> InDrain(call[th], p)
  BY <1>2, <1>3 DEF InDrain
<1> QED BY <1>2, <1>3, <1>4, KeepsMutex

(* The steps that lock, and the failed length check of PeekTokensWithCount. *)
LEMMA LockMutex ==
  ASSUME MutexInv, NEW th \in Thread,
         PeekLock(th) \/ PwcLock(th) \/ ClearLock(th)
  PROVE  PeekMutex'
<1> DEFINE p == call[th].place
<1>1. /\ call[th] \in CallType /\ p \in Place
      /\ call[th].pc \in LockSteps /\ call[th].pc \notin DrainSteps
      /\ \A ok, t, s : Result(ok, t, s).pc \notin DrainSteps
  BY RecordShapes DEF MutexInv, PeekLock, PwcLock, ClearLock, Steps, LockSteps,
                      DrainSteps
<1>2. ASSUME NEW step \in {"peek_drain", "clr_len"}, LockPeek(th, p), Goto(th, step)
      PROVE  PeekMutex'
  <2> DEFINE c == [call[th] EXCEPT !.pc = step]
  <2>1. Set(th, c) /\ c.pc = step /\ c.place = p
    BY <1>1, <1>2 DEF Goto, CallType
  <2>2. InDrain(c, p)
    BY <2>1 DEF InDrain, DrainSteps
  <2> HIDE DEF c
  <2> QED BY <1>1, <1>2, <2>1, <2>2, TakesMutex
<1>3. CASE PwcLock(th)
  <2>1. CASE /\ LockPeek(th, p)
             /\ Set(th, [call[th] EXCEPT !.pc = "pwc_drain",
                                         !.avail = Len(tokens[p])])
    <3> DEFINE c == [call[th] EXCEPT !.pc = "pwc_drain", !.avail = Len(tokens[p])]
    <3>1. Set(th, c) /\ c.pc = "pwc_drain" /\ c.place = p
      BY <1>1, <2>1 DEF CallType
    <3>2. InDrain(c, p)
      BY <3>1 DEF InDrain, DrainSteps
    <3> HIDE DEF c
    <3> QED BY <1>1, <2>1, <3>1, <3>2, TakesMutex
  <2>2. CASE Return(th, FALSE, None, <<>>) /\ peekMu' = peekMu
    BY <1>1, <2>2, KeepsMutex DEF Return, InDrain
  <2> QED BY <1>3, <2>1, <2>2 DEF PwcLock
<1> QED BY <1>2, <1>3 DEF PeekLock, ClearLock

(* The steps between lock and unlock, and the unlock.                       *)
LEMMA DrainMutex ==
  ASSUME MutexInv, NEW th \in Thread,
         \/ PeekDrain(th) \/ PeekRefill(th) \/ PwcDrain(th) \/ PwcRefill(th)
         \/ ClearLen(th) \/ ClearReceive(th)
  PROVE  PeekMutex'
<1> DEFINE p == call[th].place
<1>1. /\ call[th] \in CallType /\ p \in Place /\ InDrain(call[th], p)
      /\ \A ok, t, s : Result(ok, t, s).pc \notin DrainSteps
  BY RecordShapes DEF MutexInv, PeekDrain, PeekRefill, PwcDrain, PwcRefill,
                      ClearLen, ClearReceive, Steps, DrainSteps, InDrain
<1>2. ASSUME NEW ok, NEW t, NEW s, Return(th, ok, t, s), UnlockPeek(th, p)
      PROVE  PeekMutex'
  BY <1>1, <1>2, ReleasesMutex DEF Return
<1>3. ASSUME NEW c, Set(th, c), c.pc \in DrainSteps, c.place = p,
             peekMu' = peekMu
      PROVE  PeekMutex'
  <2>1. \A q \in Place : InDrain(c, q) <=> InDrain(call[th], q)
    BY <1>1, <1>3 DEF InDrain
  <2> QED BY <1>3, <2>1, KeepsMutex
<1>4. ASSUME NEW b, Set(th, [call[th] EXCEPT !.buf = b]), peekMu' = peekMu
      PROVE  PeekMutex'
  <2> DEFINE c == [call[th] EXCEPT !.buf = b]
  <2>1. Set(th, c) /\ c.pc = call[th].pc /\ c.place = p
    BY <1>1, <1>4 DEF CallType
  <2> HIDE DEF c
  <2> QED BY <1>1, <1>3, <1>4, <2>1 DEF InDrain
<1>5. ASSUME NEW step \in DrainSteps, NEW b,
             Set(th, [call[th] EXCEPT !.pc = step, !.seen = b]),
             peekMu' = peekMu
      PROVE  PeekMutex'
  <2> DEFINE c == [call[th] EXCEPT !.pc = step, !.seen = b]
  <2>1. Set(th, c) /\ c.pc = step /\ c.place = p
    BY <1>1, <1>5 DEF CallType
  <2> HIDE DEF c
  <2> QED BY <1>3, <1>5, <2>1
<1>6. ASSUME NEW step \in DrainSteps, Goto(th, step), peekMu' = peekMu
      PROVE  PeekMutex'
  <2> DEFINE c == [call[th] EXCEPT !.pc = step]
  <2>1. Set(th, c) /\ c.pc = step /\ c.place = p
    BY <1>1, <1>6 DEF CallType, Goto
  <2> HIDE DEF c
  <2> QED BY <1>3, <1>6, <2>1
<1>7. ASSUME Drain(th) PROVE PeekMutex'
  BY <1>4, <1>7 DEF Drain
<1>8. ASSUME NEW ok, Refilled(th, ok) PROVE PeekMutex'
  BY <1>2, <1>4, <1>8 DEF Refilled
<1>9. CASE PeekDrain(th)
  BY <1>2, <1>5, <1>7, <1>9 DEF PeekDrain, DrainSteps
<1>10. CASE PwcDrain(th)
  <2>1. CASE Drain(th)
    BY <1>7, <2>1
  <2>2. CASE Return(th, FALSE, None, <<>>) /\ UnlockPeek(th, p)
    BY <1>2, <2>2
  <2>3. CASE Goto(th, "pwc_undo") /\ peekMu' = peekMu
    BY <1>6, <2>3 DEF DrainSteps
  <2>4. CASE /\ Set(th, [call[th] EXCEPT
                           !.pc = "pwc_refill",
                           !.seen = SubSeq(call[th].buf, 1, call[th].need)])
             /\ peekMu' = peekMu
    BY <1>5, <2>4 DEF DrainSteps
  <2> QED BY <1>10, <2>1, <2>2, <2>3, <2>4 DEF PwcDrain
<1>11. CASE PeekRefill(th) \/ PwcRefill(th)
  BY <1>8, <1>11 DEF PeekRefill, PwcRefill
<1>12. CASE ClearLen(th)
  BY <1>2, <1>6, <1>12 DEF ClearLen, DrainSteps
<1>13. CASE ClearReceive(th)
  <2> DEFINE c == [call[th] EXCEPT
                     !.pc = "clr_len",
                     !.buf = Append(@, Head(tokens[call[th].place]))]
  <2>1. Set(th, c) /\ c.pc = "clr_len" /\ c.place = p /\ peekMu' = peekMu
    BY <1>1, <1>13 DEF ClearReceive, CallType
  <2> HIDE DEF c
  <2> QED BY <1>3, <2>1 DEF DrainSteps
<1> QED BY <1>9, <1>10, <1>11, <1>12, <1>13

-----------------------------------------------------------------------------
(* What a peek that no one disturbs has in its hands.  Between lock and     *)
(* unlock, the channel it locked is the part it has drained followed by the *)
(* rest, and then the part it has put back followed by the rest.            *)
Quiet(c, content, channel) ==
  /\ c.pc \in {"peek_drain", "pwc_drain"} => content = c.buf \o channel
  /\ c.pc \in {"peek_refill", "pwc_refill"} => content = channel \o c.buf
  /\ c.pc = "peek_refill" => c.seen = content
  /\ c.pc = "pwc_drain" => c.avail = Len(content)
  /\ c.pc = "pwc_refill" => c.seen = SubSeq(content, 1, c.need)
  /\ c.pc # "pwc_undo"

QuietOK(th) ==
  /\ th \notin disturbed => Quiet(call[th], before[th], tokens[call[th].place])
  /\ call[th].pc \in DrainSteps => Len(before[th]) <= Capacity[call[th].place]

QuietInv == MutexInv /\ \A th \in Thread : QuietOK(th)

(* Moving the head of b to the end of a leaves a followed by b as it was.   *)
LEMMA MoveHead ==
  ASSUME NEW S, NEW a \in Seq(S), NEW b \in Seq(S), b # <<>>
  PROVE  Append(a, Head(b)) \o Tail(b) = a \o b
<1> DEFINE x == Head(b)  r == Tail(b)
<1>1. x \in S /\ r \in Seq(S)
  BY HeadTailProperties
<1>2. b = <<x>> \o r
  <2>1. /\ Len(r) = Len(b) - 1 /\ Len(b) \in Nat
        /\ \A i \in 1 .. Len(r) : r[i] = b[i + 1]
        /\ x = b[1]
    BY HeadTailProperties, LenProperties
  <2>2. <<x>> \in Seq(S) /\ Len(<<x>>) = 1 /\ <<x>>[1] = x
    BY <1>1
  <2> HIDE DEF x, r
  <2>3. /\ <<x>> \o r \in Seq(S) /\ Len(<<x>> \o r) = 1 + Len(r)
        /\ \A i \in 1 .. 1 + Len(r) :
             (<<x>> \o r)[i] = IF i <= 1 THEN <<x>>[i] ELSE r[i - 1]
    BY <1>1, <2>2, ConcatProperties
  <2>4. ASSUME NEW i \in 1 .. Len(b) PROVE b[i] = (<<x>> \o r)[i]
    BY <2>1, <2>2, <2>3
  <2>5. Len(b) = Len(<<x>> \o r)
    BY <2>1, <2>3
  <2> DEFINE e == <<x>> \o r
  <2>6. e \in Seq(S) /\ Len(b) = Len(e) /\ \A i \in 1 .. Len(b) : b[i] = e[i]
    BY <2>3, <2>4, <2>5
  <2> HIDE DEF e
  <2>7. b = e
    BY <2>6, SeqEqual
  <2> QED BY <2>7 DEF e
<1>3. Append(a, x) = a \o <<x>> /\ <<x>> \in Seq(S)
  BY <1>1
<1> HIDE DEF x, r
<1>4. (a \o <<x>>) \o r = a \o (<<x>> \o r)
  BY <1>1, <1>3, ConcatAssociative
<1> QED BY <1>2, <1>3, <1>4 DEF x, r

(* A channel operation of th tells the holder of the mutex.                 *)
LEMMA DisturbOther ==
  ASSUME NEW th, NEW p, Disturb(th, p), NEW u, u # None, u # th
  PROVE  (u \in disturbed => u \in disturbed') /\ (peekMu[p] = u => u \in disturbed')
  BY DEF Disturb

LEMMA DisturbSelf ==
  ASSUME NEW th, NEW p, Disturb(th, p), peekMu[p] = th
  PROVE  disturbed' = disturbed
  BY DEF Disturb

(* A step either disturbs u or leaves the channel alone that u has locked.  *)
Spares(u) ==
  u \notin disturbed' =>
    /\ u \notin disturbed
    /\ call[u].pc \in DrainSteps
         => tokens'[call[u].place] = tokens[call[u].place]

(* What a step of th leaves as it is for another thread u.                  *)
LEMMA Others ==
  ASSUME MutexInv, NEW th \in Thread, PlaceStep(th), NEW u \in Thread, u # th
  PROVE  call'[u] = call[u] /\ before'[u] = before[u] /\ Spares(u)
<1> DEFINE p == call[th].place
<1>1. /\ PlaceTypeOK /\ u # None
      /\ \A v \in Thread, q \in Place : peekMu[q] = v <=> InDrain(call[v], q)
      /\ \A v \in Thread : call[v].pc \in Steps => call[v].place \in Place
  BY PlaceAssumption, RecordShapes DEF MutexInv, PeekMutex, InDrain
<1>2. ASSUME NEW c, Set(th, c) PROVE call'[u] = call[u]
  BY <1>1, <1>2 DEF Set, PlaceTypeOK
<1>3. \A ok, t, s : Return(th, ok, t, s) => call'[u] = call[u]
  BY <1>2 DEF Return
<1>4. \A step : Goto(th, step) => call'[u] = call[u]
  BY <1>2 DEF Goto
<1>5. ASSUME UnlockPeek(th, p) \/ LockPeek(th, p) PROVE before'[u] = before[u]
  BY <1>1, <1>5 DEF UnlockPeek, LockPeek, PlaceTypeOK
<1>6. ASSUME call[u].pc \in DrainSteps
      PROVE  /\ call[u].place \in Place
             /\ peekMu[call[u].place] = u
  BY <1>1, <1>6 DEF InDrain, Steps
<1>7. ASSUME NEW q \in Place, NEW s, tokens' = [tokens EXCEPT ![q] = s],
             Disturb(th, q) \/ peekMu[q] = th,
             call[u].pc \in DrainSteps, u \notin disturbed'
      PROVE  tokens'[call[u].place] = tokens[call[u].place]
  <2>1. call[u].place # q
    BY <1>1, <1>6, <1>7, DisturbOther
  <2> QED BY <1>1, <1>6, <1>7, <2>1 DEF PlaceTypeOK
<1>20. ASSUME p \in Place, NEW s, tokens' = [tokens EXCEPT ![p] = s],
              Disturb(th, p)
       PROVE  Spares(u)
  BY <1>1, <1>7, <1>20, DisturbOther DEF Spares
<1>21. ASSUME p \in Place, Receive(th, p) \/ \E t : Send(th, p, t)
       PROVE  Spares(u)
  <2>1. \E s : tokens' = [tokens EXCEPT ![p] = s]
    BY <1>21 DEF Receive, Send
  <2> QED BY <1>20, <1>21, <2>1 DEF Receive, Send
<1>8. ASSUME NEW ok, Refilled(th, ok)
      PROVE  /\ call'[u] = call[u] /\ before'[u] = before[u]
             /\ u \notin disturbed' => u \notin disturbed
  BY <1>2, <1>3, <1>5, <1>8 DEF Refilled
<1>9. ASSUME Drain(th), p \in Place
      PROVE  call'[u] = call[u] /\ before'[u] = before[u] /\ Spares(u)
  BY <1>2, <1>9, <1>21 DEF Drain
<1>10. CASE AddCheck(th) \/ AddCount(th) \/ RemoveCount(th)
  BY <1>3, <1>4, <1>10 DEF AddCheck, AddCount, RemoveCount, history, Spares
<1>11. CASE AddSend(th)
  <2>1. p \in Place
    BY <1>1, <1>11 DEF AddSend, Steps, AddSteps
  <2>2. CASE Send(th, p, call[th].tok) /\ Goto(th, "add_count")
    BY <1>4, <1>11, <1>21, <2>1, <2>2 DEF AddSend
  <2>3. CASE Return(th, FALSE, None, <<>>) /\ UNCHANGED <<tokens, disturbed>>
    BY <1>3, <1>11, <2>3 DEF AddSend, Spares
  <2> QED BY <1>11, <2>2, <2>3 DEF AddSend
<1>12. CASE RemoveReceive(th)
  <2>1. p \in Place
    BY <1>1, <1>12 DEF RemoveReceive, Steps, RemoveSteps
  <2>2. CASE Receive(th, p)
             /\ Set(th, [call[th] EXCEPT !.pc = "rem_count", !.tok = Head(tokens[p])])
    BY <1>2, <1>12, <1>21, <2>1, <2>2 DEF RemoveReceive
  <2>3. CASE Return(th, FALSE, None, <<>>) /\ UNCHANGED <<tokens, disturbed>>
    BY <1>3, <1>12, <2>3 DEF RemoveReceive, Spares
  <2> QED BY <1>12, <2>2, <2>3 DEF RemoveReceive
<1>13. CASE PeekLock(th) \/ ClearLock(th)
  BY <1>4, <1>5, <1>13 DEF PeekLock, ClearLock, Spares
<1>14. CASE PwcLock(th)
  BY <1>2, <1>3, <1>5, <1>14 DEF PwcLock, Spares
<1>15. CASE PeekDrain(th)
  <2>1. p \in Place
    BY <1>1, <1>15 DEF PeekDrain, Steps, DrainSteps
  <2> QED BY <1>2, <1>3, <1>5, <1>9, <1>15, <2>1 DEF PeekDrain, Spares
<1>16. CASE PwcDrain(th)
  <2>1. p \in Place
    BY <1>1, <1>16 DEF PwcDrain, Steps, DrainSteps
  <2> QED BY <1>2, <1>3, <1>4, <1>5, <1>9, <1>16, <2>1 DEF PwcDrain, history, Spares
<1>17. CASE PeekRefill(th) \/ PwcRefill(th)
  <2>0. InDrain(call[th], p) /\ call[th].pc \in Steps
    BY <1>17 DEF PeekRefill, PwcRefill, InDrain, Steps, DrainSteps
  <2>1. p \in Place /\ peekMu[p] = th
    BY <1>1, <2>0
  <2>2. /\ call'[u] = call[u] /\ before'[u] = before[u] 
        /\ u \notin disturbed' => u \notin disturbed
    BY <1>8, <1>17 DEF PeekRefill, PwcRefill
  <2>3. tokens' = tokens \/ \E s : tokens' = [tokens EXCEPT ![p] = s]
    BY <1>17 DEF PeekRefill, PwcRefill
  <2> QED BY <1>7, <2>1, <2>2, <2>3 DEF Spares
<1>18. CASE ClearLen(th)
  BY <1>3, <1>4, <1>5, <1>18 DEF ClearLen, Spares
<1>19. CASE ClearReceive(th)
  <2>1. p \in Place
    BY <1>1, <1>19 DEF ClearReceive, Steps, DrainSteps
  <2> QED BY <1>2, <1>19, <1>21, <2>1 DEF ClearReceive
<1> QED BY <1>10, <1>11, <1>12, <1>13, <1>14, <1>15, <1>16, <1>17, <1>18, <1>19
        DEF PlaceStep

(* A thread outside the drains has nothing to keep.                         *)
LEMMA OutsideQuiet ==
  ASSUME NEW th, call'[th].pc \notin DrainSteps
  PROVE  QuietOK(th)'
  BY DEF QuietOK, Quiet, DrainSteps

LEMMA SetSelf ==
  ASSUME PlaceTypeOK, NEW th \in Thread, NEW c, Set(th, c)
  PROVE  call'[th] = c
  BY DEF PlaceTypeOK, Set

LEMMA ReturnQuiet ==
  ASSUME PlaceTypeOK, NEW th \in Thread, NEW ok, NEW t, NEW s, Return(th, ok, t, s)
  PROVE  QuietOK(th)'
<1>1. call'[th] = Result(ok, t, s)
  BY SetSelf DEF Return
<1> QED BY <1>1, RecordShapes, OutsideQuiet

(* AddToken and RemoveToken.                                                *)
LEMMA MoveQuiet ==
  ASSUME PlaceTypeOK, NEW th \in Thread,
         \/ AddCheck(th) \/ AddSend(th) \/ AddCount(th)
         \/ RemoveReceive(th) \/ RemoveCount(th)
  PROVE  QuietOK(th)'
<1>1. call[th] \in CallType
  BY DEF PlaceTypeOK
<1>2. ASSUME NEW step \in {"add_send", "add_count"}, Goto(th, step)
      PROVE  QuietOK(th)'
  <2>1. call'[th].pc = step
    BY <1>1, <1>2, SetSelf DEF Goto, CallType
  <2> QED BY <2>1, OutsideQuiet DEF DrainSteps
<1>3. ASSUME NEW t, Set(th, [call[th] EXCEPT !.pc = "rem_count", !.tok = t])
      PROVE  QuietOK(th)'
  <2> DEFINE c == [call[th] EXCEPT !.pc = "rem_count", !.tok = t]
  <2>1. Set(th, c) /\ c.pc = "rem_count"
    BY <1>1, <1>3 DEF CallType
  <2> HIDE DEF c
  <2>2. call'[th] = c
    BY <2>1, SetSelf
  <2> QED BY <2>1, <2>2, OutsideQuiet DEF DrainSteps
<1>4. CASE AddCheck(th) \/ AddSend(th) \/ AddCount(th)
  BY <1>2, <1>4, ReturnQuiet DEF AddCheck, AddSend, AddCount
<1>5. CASE RemoveReceive(th) \/ RemoveCount(th)
  BY <1>3, <1>5, ReturnQuiet DEF RemoveReceive, RemoveCount
<1> QED BY <1>4, <1>5

(* The steps that lock see the content that they write down.                *)
LEMMA LockQuiet ==
  ASSUME PlaceTypeOK, NEW th \in Thread,
         PeekLock(th) \/ PwcLock(th) \/ ClearLock(th)
  PROVE  QuietOK(th)'
<1> DEFINE p == call[th].place
<1>1. /\ call[th] \in CallType /\ CallOK(call[th])
      /\ call[th].pc \in Steps /\ call[th].pc \notin DrainSteps
      /\ tokens' = tokens
  BY DEF PlaceTypeOK, PeekLock, PwcLock, ClearLock, Steps, LockSteps, DrainSteps
<1>2. /\ p \in Place /\ call[th].buf = <<>>
      /\ tokens[p] \in Seq(Token) /\ Len(tokens[p]) <= Capacity[p]
  BY <1>1 DEF CallOK, PlaceTypeOK
<1>3. <<>> \o tokens[p] = tokens[p]
  BY <1>2, ConcatEmptySeq
<1>4. ASSUME LockPeek(th, p),
             call'[th].pc \in {"peek_drain", "pwc_drain", "clr_len", "clr_recv"},
             call'[th].place = p, call'[th].buf = <<>>,
             call'[th].pc = "pwc_drain" => call'[th].avail = Len(tokens[p])
      PROVE  QuietOK(th)'
  <2>1. before'[th] = tokens[p]
    BY <1>4 DEF LockPeek, PlaceTypeOK
  <2> QED BY <1>1, <1>2, <1>3, <1>4, <2>1 DEF QuietOK, Quiet
<1>5. ASSUME NEW step \in {"peek_drain", "clr_len"}, Goto(th, step), LockPeek(th, p)
      PROVE  QuietOK(th)'
  <2>1. /\ call'[th].pc = step /\ call'[th].place = p
        /\ call'[th].buf = call[th].buf
    BY <1>1, <1>5, SetSelf DEF Goto, CallType
  <2> QED BY <1>2, <1>4, <1>5, <2>1
<1>6. CASE PwcLock(th)
  <2>1. CASE /\ LockPeek(th, p)
             /\ Set(th, [call[th] EXCEPT !.pc = "pwc_drain",
                                         !.avail = Len(tokens[p])])
    <3>1. /\ call'[th].pc = "pwc_drain" /\ call'[th].place = p
          /\ call'[th].buf = call[th].buf
          /\ call'[th].avail = Len(tokens[p])
      BY ZenonT(30), <1>1, <2>1, SetSelf DEF CallType
    <3> QED BY <1>2, <1>4, <2>1, <3>1
  <2>2. CASE Return(th, FALSE, None, <<>>)
    BY <2>2, ReturnQuiet
  <2> QED BY <1>6, <2>1, <2>2 DEF PwcLock
<1> QED BY <1>5, <1>6 DEF PeekLock, ClearLock

(* One receive of the drains.                                               *)
LEMMA DrainQuiet ==
  ASSUME MutexInv, NEW th \in Thread, QuietOK(th), Drain(th),
         call[th].pc \in {"peek_drain", "pwc_drain"}
  PROVE  QuietOK(th)'
<1> DEFINE p == call[th].place
           b == Append(call[th].buf, Head(tokens[p]))
<1>1. /\ PlaceTypeOK /\ call[th] \in CallType /\ p \in Place /\ InDrain(call[th], p)
  BY RecordShapes DEF MutexInv, InDrain, DrainSteps, Steps
<1>2. /\ tokens[p] \in Seq(Token) /\ tokens[p] # <<>> /\ call[th].buf \in Seq(Token)
  BY <1>1 DEF PlaceTypeOK, CallType, Drain
<1>3. b \o Tail(tokens[p]) = call[th].buf \o tokens[p]
  BY <1>2, MoveHead
<1>4. /\ call'[th].pc = call[th].pc /\ call'[th].place = p
      /\ call'[th].buf = b /\ call'[th].avail = call[th].avail
  BY <1>1, SetSelf DEF Drain, CallType
<1>5. /\ tokens'[p] = Tail(tokens[p]) /\ before' = before
      /\ disturbed' = disturbed
  <2>1. peekMu[p] = th
    BY <1>1 DEF MutexInv, PeekMutex, InDrain
  <2> QED BY <1>1, <2>1, DisturbSelf DEF Drain, Receive, PlaceTypeOK
<1> HIDE DEF b
<1> QED BY <1>1, <1>3, <1>4, <1>5 DEF QuietOK, Quiet, InDrain

LEMMA PeekDrainQuiet ==
  ASSUME MutexInv, NEW th \in Thread, QuietOK(th), PeekDrain(th)
  PROVE  QuietOK(th)'
<1> DEFINE p == call[th].place
<1>1. /\ PlaceTypeOK /\ call[th] \in CallType /\ call[th].pc = "peek_drain"
      /\ call[th].buf \in Seq(Token)
  BY DEF MutexInv, PlaceTypeOK, CallType, PeekDrain
<1>2. CASE Drain(th)
  BY <1>1, <1>2, DrainQuiet
<1>3. CASE Return(th, TRUE, None, <<>>)
  BY <1>1, <1>3, ReturnQuiet
<1>4. CASE /\ tokens[p] = <<>>
           /\ Set(th, [call[th] EXCEPT !.pc = "peek_refill", !.seen = call[th].buf])
           /\ UNCHANGED <<before, disturbed, tokens>>
  <2> DEFINE c == [call[th] EXCEPT !.pc = "peek_refill", !.seen = call[th].buf]
  <2>3. /\ Set(th, c) /\ c.pc = "peek_refill" /\ c.place = p
        /\ c.buf = call[th].buf /\ c.seen = call[th].buf
    BY <1>1, <1>4 DEF CallType
  <2> HIDE DEF c
  <2>1. call'[th] = c
    BY <1>1, <2>3, SetSelf
  <2>2. call[th].buf \o <<>> = call[th].buf /\ <<>> \o call[th].buf = call[th].buf
    BY <1>1, ConcatEmptySeq
  <2> QED BY <1>1, <1>4, <2>1, <2>2, <2>3 DEF QuietOK, Quiet, DrainSteps
<1> QED BY <1>2, <1>3, <1>4 DEF PeekDrain

(* A peek that no one has disturbed finds room for all that it drained.     *)
LEMMA RoomForQuiet ==
  ASSUME MutexInv, NEW th \in Thread, QuietOK(th), th \notin disturbed,
         call[th].pc \in {"peek_refill", "pwc_refill"}
  PROVE  ~Full(call[th].place)
<1> DEFINE p == call[th].place  q == tokens[p]  b == call[th].buf
<1>1. /\ q \in Seq(Token) /\ b \in Seq(Token) /\ b # <<>>
      /\ p \in Place /\ Capacity[p] \in Nat
  BY PlaceAssumption DEF MutexInv, PlaceTypeOK, CallType, CallOK, Steps, DrainSteps
<1>2. before[th] = q \o b /\ Len(before[th]) <= Capacity[p]
  BY DEF QuietOK, Quiet, DrainSteps
<1>3. Len(q \o b) = Len(q) + Len(b)
  BY <1>1, ConcatProperties
<1>4. Len(q) \in Nat /\ Len(b) \in Nat \ {0}
  BY <1>1, EmptySeq
<1>5. Len(q) < Capacity[p]
  <2> DEFINE m == Len(q)  k == Len(b)  l == Len(before[th])
  <2>1. m \in Nat /\ k \in Nat \ {0} /\ l = m + k /\ l <= Capacity[p]
        /\ Capacity[p] \in Nat
    BY <1>1, <1>2, <1>3, <1>4
  <2> HIDE DEF m, k, l
  <2>2. m < Capacity[p]
    BY <2>1
  <2> QED BY <2>2 DEF m
<1> QED BY <1>1, <1>4, <1>5 DEF Full

(* A round of a put-back loop that keeps its token, and one that drops it.  *)
LEMMA RefillQuiet ==
  ASSUME MutexInv, NEW th \in Thread, QuietOK(th), NEW ok, Refilled(th, ok),
         call[th].pc \in {"peek_refill", "pwc_undo", "pwc_refill"},
         \/ tokens' = [tokens EXCEPT ![call[th].place] =
                         Append(@, Head(call[th].buf))]
         \/ tokens' = tokens /\ th \in disturbed
  PROVE  QuietOK(th)'
<1> DEFINE p == call[th].place  q == tokens[p]  b == call[th].buf
<1>1. /\ PlaceTypeOK /\ call[th] \in CallType
      /\ q \in Seq(Token) /\ b \in Seq(Token) /\ b # <<>> /\ p \in Place
  BY DEF MutexInv, PlaceTypeOK, CallType, CallOK, Steps, DrainSteps
<1>2. CASE Return(th, ok, None, call[th].seen)
  BY <1>1, <1>2, ReturnQuiet
<1>3. CASE /\ Set(th, [call[th] EXCEPT !.buf = Tail(b)])
           /\ UNCHANGED <<before, disturbed>>
  <2> DEFINE c == [call[th] EXCEPT !.buf = Tail(b)]
  <2>1. /\ Set(th, c) /\ c.pc = call[th].pc /\ c.place = p /\ c.buf = Tail(b)
        /\ c.seen = call[th].seen /\ c.need = call[th].need
    BY <1>1, <1>3 DEF CallType
  <2> HIDE DEF c
  <2>2. call'[th] = c
    BY <1>1, <2>1, SetSelf
  <2>3. tokens' = [tokens EXCEPT ![p] = Append(q, Head(b))]
          => tokens'[p] \o Tail(b) = q \o b
    <3>1. Append(q, Head(b)) \o Tail(b) = q \o b
      BY <1>1, MoveHead
    <3>2. tokens' = [tokens EXCEPT ![p] = Append(q, Head(b))]
            => tokens'[p] = Append(q, Head(b))
      BY <1>1 DEF PlaceTypeOK
    <3> QED BY <3>1, <3>2
  <2>4. Len(before'[th]) <= Capacity[p]
    BY <1>3 DEF QuietOK, DrainSteps
  <2>5. ASSUME th \notin disturbed
        PROVE  Quiet(c, before[th], tokens'[p])
    <3>1. Quiet(call[th], before[th], q)
      BY <2>5 DEF QuietOK
    <3>2. tokens'[p] \o Tail(b) = q \o b
      BY <2>3, <2>5
    <3> QED BY <2>1, <3>1, <3>2 DEF Quiet
  <2> QED BY <1>3, <2>1, <2>2, <2>4, <2>5 DEF QuietOK
<1> QED BY <1>2, <1>3 DEF Refilled

LEMMA PeekRefillQuiet ==
  ASSUME MutexInv, NEW th \in Thread, QuietOK(th), PeekRefill(th)
  PROVE  QuietOK(th)'
<1>1. Full(call[th].place) => th \in disturbed
  BY RoomForQuiet DEF PeekRefill
<1> QED BY <1>1, RefillQuiet DEF PeekRefill

LEMMA PwcRefillQuiet ==
  ASSUME MutexInv, NEW th \in Thread, QuietOK(th), PwcRefill(th)
  PROVE  QuietOK(th)'
  BY RefillQuiet DEF PwcRefill

(* PeekTokensWithCount: the channel cannot run empty before the count read  *)
(* when it locked is reached.                                               *)
LEMMA PwcDrainQuiet ==
  ASSUME MutexInv, NEW th \in Thread, QuietOK(th), PwcDrain(th)
  PROVE  QuietOK(th)'
<1> DEFINE p == call[th].place  q == tokens[p]  b == call[th].buf
<1>1. /\ PlaceTypeOK /\ call[th] \in CallType /\ call[th].pc = "pwc_drain"
      /\ q \in Seq(Token) /\ b \in Seq(Token) /\ p \in Place
      /\ call[th].avail \in Nat
  BY DEF MutexInv, PlaceTypeOK, CallType, CallOK, Steps, DrainSteps, PwcDrain
<1>2. th \notin disturbed => before[th] = b \o q /\ call[th].avail = Len(b) + Len(q)
  <2>1. Len(b \o q) = Len(b) + Len(q)
    BY <1>1, ConcatProperties
  <2>2. th \notin disturbed
          => before[th] = b \o q /\ call[th].avail = Len(before[th])
    BY <1>1 DEF QuietOK, Quiet
  <2> QED BY <2>1, <2>2
<1>3. CASE Drain(th)
  BY <1>1, <1>3, DrainQuiet
<1>4. CASE Return(th, FALSE, None, <<>>)
  BY <1>1, <1>4, ReturnQuiet
<1>5. CASE /\ Len(b) < call[th].avail /\ q = <<>>
           /\ Goto(th, "pwc_undo") /\ UNCHANGED <<tokens, before, disturbed>>
  <2>1. th \in disturbed
    <3>1. q = <<>> => Len(q) = 0
      BY EmptySeq
    <3>2. Len(b) \in Nat
      BY <1>1
    <3> QED BY <1>2, <1>5, <3>1, <3>2
  <2>2. call'[th].pc = "pwc_undo" /\ call'[th].place = p
    BY <1>1, <1>5, SetSelf DEF Goto, CallType
  <2> QED BY <1>1, <1>5, <2>1, <2>2 DEF QuietOK, DrainSteps
<1>6. CASE /\ Len(b) = call[th].avail
           /\ Set(th, [call[th] EXCEPT !.pc = "pwc_refill",
                                       !.seen = SubSeq(b, 1, call[th].need)])
           /\ UNCHANGED <<tokens, before, disturbed>>
  <2> DEFINE c == [call[th] EXCEPT !.pc = "pwc_refill",
                                   !.seen = SubSeq(b, 1, call[th].need)]
  <2>1. /\ Set(th, c) /\ c.pc = "pwc_refill" /\ c.place = p /\ c.buf = b
        /\ c.seen = SubSeq(b, 1, call[th].need) /\ c.need = call[th].need
    BY <1>1, <1>6 DEF CallType
  <2> HIDE DEF c
  <2>2. call'[th] = c
    BY <1>1, <2>1, SetSelf
  <2>3. ASSUME th \notin disturbed PROVE q = <<>>
    <3>1. Len(b) \in Nat /\ Len(q) \in Nat
      BY <1>1
    <3>2. Len(q) = 0
      BY <1>2, <1>6, <2>3, <3>1
    <3> QED BY <1>1, <3>2, EmptySeq
  <2>4. <<>> \o b = b /\ b \o <<>> = b
    BY <1>1, ConcatEmptySeq
  <2>5. th \notin disturbed => Quiet(c, before[th], q)
    BY <1>2, <2>1, <2>3, <2>4 DEF Quiet
  <2> QED BY <1>1, <1>6, <2>1, <2>2, <2>5 DEF QuietOK, DrainSteps
<1> QED BY <1>3, <1>4, <1>5, <1>6 DEF PwcDrain, history

(* Clear promises nothing about what it finds.                              *)
LEMMA ClearQuiet ==
  ASSUME MutexInv, NEW th \in Thread, QuietOK(th),
         ClearLen(th) \/ ClearReceive(th)
  PROVE  QuietOK(th)'
<1> DEFINE p == call[th].place
<1>1. /\ PlaceTypeOK /\ call[th] \in CallType
      /\ Len(before[th]) <= Capacity[p]
  BY DEF MutexInv, PlaceTypeOK, QuietOK, ClearLen, ClearReceive, DrainSteps
<1>2. ASSUME call'[th].pc \in {"clr_len", "clr_recv"}, call'[th].place = p,
             before' = before
      PROVE  QuietOK(th)'
  BY <1>1, <1>2 DEF QuietOK, Quiet
<1>3. CASE ClearLen(th)
  <2>1. CASE Goto(th, "clr_recv") /\ before' = before
    <3>1. call'[th].pc = "clr_recv" /\ call'[th].place = p
      BY <1>1, <2>1, SetSelf DEF Goto, CallType
    <3> QED BY <1>2, <2>1, <3>1
  <2>2. CASE Return(th, TRUE, None, call[th].buf)
    BY <1>1, <2>2, ReturnQuiet
  <2> QED BY <1>3, <2>1, <2>2 DEF ClearLen
<1>4. CASE ClearReceive(th)
  <2> DEFINE b == Append(call[th].buf, Head(tokens[p]))
             c == [call[th] EXCEPT !.pc = "clr_len", !.buf = b]
  <2>1. Set(th, c) /\ before' = before /\ c.pc = "clr_len" /\ c.place = p
    BY <1>1, <1>4 DEF ClearReceive, CallType
  <2> HIDE DEF c
  <2>2. call'[th] = c
    BY <1>1, <2>1, SetSelf
  <2> QED BY <1>2, <2>1, <2>2
<1> QED BY <1>3, <1>4

(* A step of a place call keeps what every thread knows of its channel.     *)
LEMMA StepQuiet ==
  ASSUME QuietInv, NEW th \in Thread, PlaceStep(th), NEW u \in Thread
  PROVE  QuietOK(u)'
<1>1. MutexInv /\ PlaceTypeOK /\ QuietOK(u)
  BY DEF QuietInv, MutexInv
<1>2. CASE u = th
  BY <1>1, <1>2, MoveQuiet, LockQuiet, PeekDrainQuiet, PeekRefillQuiet,
     PwcDrainQuiet, PwcRefillQuiet, ClearQuiet DEF PlaceStep
<1>3. CASE u # th
  BY <1>1, <1>3, Others DEF QuietOK, Quiet, Spares, DrainSteps
<1> QED BY <1>2, <1>3

=============================================================================
