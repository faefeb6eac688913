--------------------------- MODULE PlaceOpsProofs ---------------------------
(***************************************************************************)
(* Theorems about the places of a net under arbitrary concurrent use, for  *)
(* any finite sets of threads and places and any capacities: the types and *)
(* the peek mutex, the token counter (it equals what the channels hold up  *)
(* to the calls in progress, and bounds by how much the net can exceed     *)
(* GlobalCapacity), the peeks that no one disturbs, and that no token is   *)
(* ever in two slots.  Then theorems about the checkpoints that are taken  *)
(* of such a net and restored to it.                                       *)
(***************************************************************************)
EXTENDS PlaceOps, Restoration, PlaceChannelProofs

(* A step without what the history notes of it.                             *)
Moves == \E th \in Thread : Begin(th) \/ PlaceStep(th)

LEMMA NextMoves == [Next]_vars => [Moves]_placeVars
BY DEF Next, vars, Moves

LEMMA BeginType ==
  ASSUME TypeOK, NEW th \in Thread, Begin(th)
  PROVE  TypeOK'
<1> USE DEF TypeOK, PlaceTypeOK
<1>1. CallsOK
  BY DEF CallsOK
<1>2. PICK p \in Place :
        \/ \E t \in Outside : CallAddToken(th, p, t)
        \/ CallRemoveToken(th, p)
        \/ CallPeekTokens(th, p)
        \/ \E n \in 1 .. Capacity[p] : CallPeekTokensWithCount(th, p, n)
        \/ CallClear(th, p)
  BY DEF Begin
<1>3. CASE \E t \in Outside : CallAddToken(th, p, t)
  <2>1. PICK t \in Token : CallAddToken(th, p, t)
    BY <1>3 DEF Outside
  <2>2. Request("add_check", p, t, 0) \in CallType
    BY RequestType DEF Steps, AddSteps
  <2>3. CallOK(Request("add_check", p, t, 0))
    BY DEF CallOK, Request, Steps, AddSteps, RemoveSteps, LockSteps, DrainSteps
  <2>4. CallsOK'
    BY <1>1, <2>1, <2>2, <2>3, SetType DEF CallAddToken
  <2> QED BY <2>4 DEF Begin, CallsOK, history
<1>4. ASSUME NEW step \in {"rem_recv", "peek_lock", "clr_lock"},
             Set(th, Request(step, p, None, 0))
      PROVE  TypeOK'
  <2>2. Request(step, p, None, 0) \in CallType
    BY RequestType DEF Steps, RemoveSteps, LockSteps
  <2>3. CallOK(Request(step, p, None, 0))
    BY DEF CallOK, Request, Steps, AddSteps, RemoveSteps, LockSteps, DrainSteps
  <2>4. CallsOK'
    BY <1>1, <1>4, <2>2, <2>3, SetType
  <2> QED BY <2>4 DEF Begin, CallsOK, history
<1>5. CASE \E n \in 1 .. Capacity[p] : CallPeekTokensWithCount(th, p, n)
  <2>1. PICK n \in Nat : n >= 1 /\ CallPeekTokensWithCount(th, p, n)
    BY <1>5, PlaceAssumption
  <2>2. Request("pwc_lock", p, None, n) \in CallType
    BY RequestType DEF Steps, LockSteps
  <2>3. CallOK(Request("pwc_lock", p, None, n))
    BY <2>1 DEF CallOK, Request, Steps, AddSteps, RemoveSteps, LockSteps,
                DrainSteps
  <2>4. CallsOK'
    BY <1>1, <2>1, <2>2, <2>3, SetType DEF CallPeekTokensWithCount
  <2> QED BY <2>4 DEF Begin, CallsOK, history
<1> QED BY <1>2, <1>3, <1>4, <1>5
        DEF CallRemoveToken, CallPeekTokens, CallClear



-----------------------------------------------------------------------------
(* Between calls nothing is in flight.                                      *)
LEMMA InitType == ASSUME Init PROVE TypeOK
<1>1. IsFiniteSet(QueueSlots)
  <2> DEFINE n == [p \in Place |-> Len(tokens[p])]
  <2>1. n \in [Place -> Nat]
    BY OpsAssumption DEF Init, PlaceInit
  <2>2. QueueSlots = SlotSet(Place, n)
    BY DEF QueueSlots, SlotSet
  <2> QED BY <2>1, <2>2, PlaceAssumption, SlotSetFinite
<1>2. totalTokens \in Int
  BY <1>1, FS_CardinalityType DEF Init, PlaceInit
<1>3. NoCall \in CallType /\ CallOK(NoCall)
  BY DEF NoCall, Request, CallType, CallOK, Steps, AddSteps, RemoveSteps,
         LockSteps, DrainSteps
<1>4. <<>> \in Seq(Token)
  OBVIOUS
<1> QED BY <1>2, <1>3, <1>4, OpsAssumption DEF Init, PlaceInit, TypeOK, PlaceTypeOK

LEMMA NextType == ASSUME TypeOK, [Moves]_placeVars PROVE TypeOK'
<1>1. CASE UNCHANGED placeVars
  BY <1>1 DEF placeVars, TypeOK, PlaceTypeOK
<1>2. ASSUME NEW th \in Thread, Begin(th) \/ PlaceStep(th) PROVE TypeOK'
  BY <1>2, BeginType, AddType, RemoveType, PeekType, PwcType, ClearType
     DEF PlaceStep, TypeOK
<1> QED BY <1>1, <1>2 DEF Moves

(* Type correctness: no channel ever holds more than its capacity, and      *)
(* every put-back loop has a token to send.                                 *)
THEOREM TypeCorrect == Spec => []TypeOK
<1>1. Init => TypeOK
  BY InitType
<1>2. TypeOK /\ [Moves]_placeVars => TypeOK'
  BY NextType
<1> QED BY <1>1, <1>2, NextMoves, PTL DEF Spec



LEMMA BeginMutex ==
  ASSUME MutexInv, NEW th \in Thread, Begin(th)
  PROVE  PeekMutex'
<1>1. PICK step \in Steps \ DrainSteps :
        \E p, t, n : Set(th, Request(step, p, t, n))
  BY DEF Begin, CallAddToken, CallRemoveToken, CallPeekTokens,
         CallPeekTokensWithCount, CallClear, Steps, AddSteps, RemoveSteps,
         LockSteps, DrainSteps
<1>2. Free(th) /\ peekMu' = peekMu
  BY DEF Begin
<1> QED BY <1>1, <1>2, RequestMutex

LEMMA MutexStep == ASSUME MutexInv, [Moves]_placeVars PROVE MutexInv'
<1>1. TypeOK'
  BY NextType DEF MutexInv, TypeOK
<1>2. CASE UNCHANGED placeVars
  BY <1>1, <1>2 DEF placeVars, MutexInv, TypeOK, PeekMutex
<1>3. ASSUME NEW th \in Thread, Begin(th) \/ PlaceStep(th) PROVE PeekMutex'
  BY <1>3, BeginMutex, OutsideMutex, LockMutex, DrainMutex DEF PlaceStep
<1> QED BY <1>1, <1>2, <1>3 DEF Moves, MutexInv, TypeOK

(* Two threads never drain one place at the same time, and the mutex of a   *)
(* place is released by every path out of a peek or a Clear.                *)
THEOREM PeekMutexHolds == Spec => []PeekMutex
<1>1. Init => MutexInv
  BY InitType, PlaceAssumption
     DEF Init, PlaceInit, TypeOK, MutexInv, PeekMutex, NoCall, Request,
         DrainSteps
<1>2. MutexInv /\ [Moves]_placeVars => MutexInv'
  BY MutexStep
<1>3. MutexInv => PeekMutex
  BY DEF MutexInv
<1> QED BY <1>1, <1>2, <1>3, NextMoves, PTL DEF Spec

-----------------------------------------------------------------------------
(* AddToken calls that passed the check of the global limit and have not    *)
(* counted their token yet.                                                 *)
Passed == {th \in Thread : call[th].pc \in {"add_send", "add_count"}}

(* CounterAccounting alone does not bound the counter: a thread may pass    *)
(* the check, and be counted much later.  Every such thread is in Passed.   *)
PassedBound ==
  GlobalCapacity # 0 =>
    totalTokens + Cardinality(Passed) <= GlobalCapacity + Cardinality(Thread) - 1

CounterInv == TypeOK /\ CounterAccounting /\ PassedBound

(* The sizes that the two invariants relate.                                *)
SizesOK ==
  /\ Cardinality(QueueSlots) \in Nat /\ Cardinality(BufferSlots) \in Nat
  /\ Cardinality(Sent) \in Nat /\ Cardinality(Removing) \in Nat
  /\ Cardinality(Passed) \in Nat /\ Cardinality(Thread) \in Nat
  /\ Cardinality(Sent) <= Cardinality(Passed)
  /\ Cardinality(Passed) <= Cardinality(Thread)

LEMMA ThreadSets ==
  /\ IsFiniteSet(Sent) /\ IsFiniteSet(Removing) /\ IsFiniteSet(Passed)
  /\ IsFiniteSet(Thread)
  /\ Cardinality(Sent) <= Cardinality(Passed)
  /\ Cardinality(Passed) <= Cardinality(Thread)
  /\ \A th \in Thread \ Passed : Cardinality(Passed) # Cardinality(Thread)
<1>1. IsFiniteSet(Thread)
  BY PlaceAssumption
<1>2. Passed \in SUBSET Thread /\ Removing \in SUBSET Thread
  BY DEF Passed, Removing
<1>3. IsFiniteSet(Passed) /\ Cardinality(Passed) <= Cardinality(Thread)
  BY <1>1, <1>2, FS_Subset
<1>7. \A th \in Thread \ Passed : Cardinality(Passed) # Cardinality(Thread)
  BY <1>1, <1>2, FS_Subset
<1>4. IsFiniteSet(Removing)
  BY <1>1, <1>2, FS_Subset
<1>5. Sent \in SUBSET Passed
  BY DEF Sent, Passed
<1>6. IsFiniteSet(Sent) /\ Cardinality(Sent) <= Cardinality(Passed)
  BY <1>3, <1>5, FS_Subset
<1> QED BY <1>1, <1>3, <1>4, <1>6, <1>7

LEMMA Lengths ==
  ASSUME TypeOK
  PROVE  /\ [p \in Place |-> Len(tokens[p])] \in [Place -> Nat]
         /\ [th \in Thread |-> Len(call[th].buf)] \in [Thread -> Nat]
<1>1. \A p \in Place : Len(tokens[p]) \in Nat
  BY DEF TypeOK, PlaceTypeOK
<1>2. \A th \in Thread : Len(call[th].buf) \in Nat
  BY DEF TypeOK, PlaceTypeOK, CallType
<1> QED BY <1>1, <1>2

LEMMA SlotSets ==
  /\ QueueSlots = SlotSet(Place, [p \in Place |-> Len(tokens[p])])
  /\ BufferSlots = SlotSet(Thread, [th \in Thread |-> Len(call[th].buf)])
BY DEF QueueSlots, BufferSlots, SlotSet

LEMMA Sizes == ASSUME TypeOK PROVE SizesOK
<1>1. IsFiniteSet(QueueSlots) /\ IsFiniteSet(BufferSlots)
  BY Lengths, SlotSets, SlotSetFinite, PlaceAssumption
<1>2. /\ Cardinality(QueueSlots) \in Nat /\ Cardinality(BufferSlots) \in Nat
      /\ Cardinality(Sent) \in Nat /\ Cardinality(Removing) \in Nat
      /\ Cardinality(Passed) \in Nat /\ Cardinality(Thread) \in Nat
  BY <1>1, ThreadSets, FS_CardinalityType
<1> QED BY <1>2, ThreadSets DEF SizesOK

(* What a step that gives th the record c changes.                          *)
LEMMA SetEffect ==
  ASSUME TypeOK, TypeOK', NEW th \in Thread, NEW c, Set(th, c)
  PROVE  /\ call'[th] = c
         /\ Cardinality(BufferSlots)' =
              Cardinality(BufferSlots) - Len(call[th].buf) + Len(c.buf)
         /\ Cardinality(Sent)' =
              Cardinality(Sent) - Bit(call[th].pc = "add_count")
                + Bit(c.pc = "add_count")
         /\ Cardinality(Removing)' =
              Cardinality(Removing) - Bit(call[th].pc = "rem_count")
                + Bit(c.pc = "rem_count")
         /\ Cardinality(Passed)' =
              Cardinality(Passed) - Bit(call[th].pc \in {"add_send", "add_count"})
                + Bit(c.pc \in {"add_send", "add_count"})
<1>1. \A u \in Thread : call'[u] = IF u = th THEN c ELSE call[u]
  BY DEF Set, TypeOK, PlaceTypeOK
<1>2. Cardinality(BufferSlots)' =
        Cardinality(BufferSlots) - Len(call[th].buf) + Len(c.buf)
  <2> DEFINE n == [u \in Thread |-> Len(call[u].buf)]
             m == [u \in Thread |-> Len(call'[u].buf)]
  <2>1. n \in [Thread -> Nat] /\ BufferSlots = SlotSet(Thread, n)
    BY Lengths, SlotSets
  <2>2. m \in [Thread -> Nat] /\ BufferSlots' = SlotSet(Thread, m)
    <3>1. call' \in [Thread -> CallType]
      BY DEF TypeOK, PlaceTypeOK
    <3>2. \A u \in Thread : Len(call'[u].buf) \in Nat
      BY <3>1 DEF CallType
    <3> QED BY <3>2 DEF BufferSlots, SlotSet
  <2>3. n[th] = Len(call[th].buf) /\ m[th] = Len(c.buf)
    BY <1>1
  <2>4. \A u \in Thread : u # th => m[u] = n[u]
    BY <1>1
  <2> HIDE DEF n, m
  <2>5. Cardinality(SlotSet(Thread, m)) =
          Cardinality(SlotSet(Thread, n)) - n[th] + m[th]
    BY <2>1, <2>2, <2>4, SlotReplace, PlaceAssumption
  <2> QED BY <2>1, <2>2, <2>3, <2>5
<1>3. Cardinality(Sent)' =
        Cardinality(Sent) - Bit(call[th].pc = "add_count") + Bit(c.pc = "add_count")
  <2>1. \A u : u # th => (u \in Sent' <=> u \in Sent)
    BY <1>1 DEF Sent
  <2>2. /\ th \in Sent <=> call[th].pc = "add_count"
        /\ th \in Sent' <=> c.pc = "add_count"
    BY <1>1 DEF Sent
  <2>3. Cardinality(Sent') =
          Cardinality(Sent) - Bit(th \in Sent) + Bit(th \in Sent')
    BY <2>1, ThreadSets, MemberReplace
  <2> QED BY <2>2, <2>3 DEF Bit
<1>4. Cardinality(Removing)' =
        Cardinality(Removing) - Bit(call[th].pc = "rem_count")
          + Bit(c.pc = "rem_count")
  <2>1. \A u : u # th => (u \in Removing' <=> u \in Removing)
    BY <1>1 DEF Removing
  <2>2. /\ th \in Removing <=> call[th].pc = "rem_count"
        /\ th \in Removing' <=> c.pc = "rem_count"
    BY <1>1 DEF Removing
  <2>3. Cardinality(Removing') =
          Cardinality(Removing) - Bit(th \in Removing) + Bit(th \in Removing')
    BY <2>1, ThreadSets, MemberReplace
  <2> QED BY <2>2, <2>3 DEF Bit
<1>5. Cardinality(Passed)' =
        Cardinality(Passed) - Bit(call[th].pc \in {"add_send", "add_count"})
          + Bit(c.pc \in {"add_send", "add_count"})
  <2>1. \A u : u # th => (u \in Passed' <=> u \in Passed)
    BY <1>1 DEF Passed
  <2>2. /\ th \in Passed <=> call[th].pc \in {"add_send", "add_count"}
        /\ th \in Passed' <=> c.pc \in {"add_send", "add_count"}
    BY <1>1 DEF Passed
  <2>3. Cardinality(Passed') =
          Cardinality(Passed) - Bit(th \in Passed) + Bit(th \in Passed')
    BY <2>1, ThreadSets, MemberReplace
  <2> QED BY <2>2, <2>3 DEF Bit
<1> QED BY <1>1, <1>2, <1>3, <1>4, <1>5

(* What a step that replaces the content of channel p changes.              *)
LEMMA QueueEffect ==
  ASSUME TypeOK, TypeOK', NEW p \in Place, NEW s,
         tokens' = [tokens EXCEPT ![p] = s]
  PROVE  Cardinality(QueueSlots)' =
           Cardinality(QueueSlots) - Len(tokens[p]) + Len(s)
<1>1. \A q \in Place : tokens'[q] = IF q = p THEN s ELSE tokens[q]
  BY DEF TypeOK, PlaceTypeOK
<1> DEFINE n == [q \in Place |-> Len(tokens[q])]
           m == [q \in Place |-> Len(tokens'[q])]
<1>2. n \in [Place -> Nat] /\ QueueSlots = SlotSet(Place, n)
  BY Lengths, SlotSets
<1>3. m \in [Place -> Nat] /\ QueueSlots' = SlotSet(Place, m)
  <2>1. \A q \in Place : Len(tokens'[q]) \in Nat
    BY DEF TypeOK, PlaceTypeOK
  <2> QED BY <2>1 DEF QueueSlots, SlotSet
<1>4. n[p] = Len(tokens[p]) /\ m[p] = Len(s)
  BY <1>1
<1>5. \A q \in Place : q # p => m[q] = n[q]
  BY <1>1
<1> HIDE DEF n, m
<1>6. Cardinality(SlotSet(Place, m)) =
        Cardinality(SlotSet(Place, n)) - n[p] + m[p]
  BY <1>2, <1>3, <1>5, SlotReplace, PlaceAssumption
<1> QED BY <1>2, <1>3, <1>4, <1>6

-----------------------------------------------------------------------------
(* The steps.  AddToken: a call that passes the check joins Passed while    *)
(* the counter is below the limit; its send moves no count, its count does. *)
LEMMA AddCounts ==
  ASSUME CounterInv, TypeOK', NEW th \in Thread,
         AddCheck(th) \/ AddSend(th) \/ AddCount(th)
  PROVE  CounterAccounting' /\ PassedBound'
<1> DEFINE p == call[th].place
<1>1. TypeOK /\ SizesOK /\ CounterAccounting /\ PassedBound
  BY Sizes DEF CounterInv
<1>2. /\ call[th] \in CallType /\ CallOK(call[th])
      /\ totalTokens \in Int /\ uncounted \in Nat /\ GlobalCapacity \in Nat
  BY <1>1, PlaceAssumption DEF TypeOK, PlaceTypeOK
<1>3. call[th].buf = <<>> /\ Len(call[th].buf) = 0 /\ p \in Place
  BY <1>2, EmptySeq DEF AddCheck, AddSend, AddCount, CallOK, Steps, AddSteps,
                        DrainSteps
<1>4. CASE AddCheck(th)
  <2>1. CASE CheckGlobalCapacity /\ Goto(th, "add_send")
    <3> DEFINE c == [call[th] EXCEPT !.pc = "add_send"]
    <3>1. c.pc = "add_send" /\ c.buf = call[th].buf
      BY <1>2 DEF CallType
    <3>2. th \in Thread \ Passed
      BY <1>4 DEF AddCheck, Passed
    <3>3. Cardinality(Passed) # Cardinality(Thread)
      BY <3>2, ThreadSets
    <3>4. Set(th, c)
      BY <2>1 DEF Goto
    <3> HIDE DEF c
    <3>5. /\ Cardinality(BufferSlots)' = Cardinality(BufferSlots)
          /\ Cardinality(Sent)' = Cardinality(Sent)
          /\ Cardinality(Removing)' = Cardinality(Removing)
          /\ Cardinality(Passed)' = Cardinality(Passed) + 1
      BY <1>1, <1>3, <1>4, <3>1, <3>4, SetEffect
         DEF AddCheck, Bit, SizesOK
    <3>6. Cardinality(QueueSlots)' = Cardinality(QueueSlots)
          /\ totalTokens' = totalTokens /\ uncounted' = uncounted
      BY <1>4 DEF AddCheck, QueueSlots, history
    <3>7. CounterAccounting'
      BY <1>1, <3>5, <3>6 DEF CounterAccounting
    <3>8. GlobalCapacity # 0 => totalTokens + 1 <= GlobalCapacity
      BY <2>1 DEF CheckGlobalCapacity
    <3>9. PassedBound'
      BY <1>1, <1>2, <3>3, <3>5, <3>6, <3>8 DEF PassedBound, SizesOK
    <3> QED BY <3>7, <3>9
  <2>2. CASE Return(th, FALSE, None, <<>>)
    <3> DEFINE c == Result(FALSE, None, <<>>)
    <3>1. c.pc = "done" /\ Len(c.buf) = 0
      BY EmptySeq DEF Result
    <3>2. Set(th, c)
      BY <2>2 DEF Return
    <3> HIDE DEF c
    <3>3. /\ Cardinality(BufferSlots)' = Cardinality(BufferSlots)
          /\ Cardinality(Sent)' = Cardinality(Sent)
          /\ Cardinality(Removing)' = Cardinality(Removing)
          /\ Cardinality(Passed)' = Cardinality(Passed)
      BY <1>1, <1>3, <1>4, <3>1, <3>2, SetEffect
         DEF AddCheck, Bit, SizesOK
    <3>4. Cardinality(QueueSlots)' = Cardinality(QueueSlots)
          /\ totalTokens' = totalTokens /\ uncounted' = uncounted
      BY <1>4 DEF AddCheck, QueueSlots, history
    <3> QED BY <1>1, <3>3, <3>4 DEF CounterAccounting, PassedBound
  <2> QED BY <1>4, <2>1, <2>2 DEF AddCheck
<1>5. CASE AddSend(th)
  <2>0. call[th].pc = "add_send"
    BY <1>5 DEF AddSend
  <2>1. CASE Send(th, p, call[th].tok) /\ Goto(th, "add_count")
    <3> DEFINE c == [call[th] EXCEPT !.pc = "add_count"]
    <3>1. c.pc = "add_count" /\ c.buf = call[th].buf
      BY <1>2 DEF CallType
    <3>2. Set(th, c)
      BY <2>1 DEF Goto
    <3> HIDE DEF c
    <3>3. /\ Cardinality(BufferSlots)' = Cardinality(BufferSlots)
          /\ Cardinality(Sent)' = Cardinality(Sent) + 1
          /\ Cardinality(Removing)' = Cardinality(Removing)
          /\ Cardinality(Passed)' = Cardinality(Passed)
      BY <1>1, <1>3, <2>0, <3>1, <3>2, SetEffect
         DEF Bit, SizesOK
    <3>4. Len(Append(tokens[p], call[th].tok)) = Len(tokens[p]) + 1
          /\ Len(tokens[p]) \in Nat
      <4>1. tokens[p] \in Seq(Token) /\ call[th].tok \in Token
        BY <1>1, <1>2, <1>3, <1>5
           DEF AddSend, TypeOK, PlaceTypeOK, CallOK, AddSteps
      <4> QED BY <4>1, AppendProperties
    <3>5. tokens' = [tokens EXCEPT ![p] = Append(tokens[p], call[th].tok)]
      BY <2>1 DEF Send
    <3>6. Cardinality(QueueSlots)' =
            Cardinality(QueueSlots) - Len(tokens[p])
              + Len(Append(tokens[p], call[th].tok))
      BY <1>1, <1>3, <3>5, QueueEffect
    <3>7. Cardinality(QueueSlots)' = Cardinality(QueueSlots) + 1
          /\ totalTokens' = totalTokens /\ uncounted' = uncounted
      BY <1>1, <1>5, <3>4, <3>6 DEF AddSend, SizesOK
    <3>8. CounterAccounting'
      BY <1>1, <1>2, <3>3, <3>7 DEF CounterAccounting, SizesOK
    <3>9. PassedBound'
      BY <1>1, <3>3, <3>7 DEF PassedBound
    <3> QED BY <3>8, <3>9
  <2>2. CASE Return(th, FALSE, None, <<>>) /\ UNCHANGED <<tokens, disturbed>>
    <3> DEFINE c == Result(FALSE, None, <<>>)
    <3>1. c.pc = "done" /\ Len(c.buf) = 0
      BY EmptySeq DEF Result
    <3>2. Set(th, c)
      BY <2>2 DEF Return
    <3> HIDE DEF c
    <3>3. /\ Cardinality(BufferSlots)' = Cardinality(BufferSlots)
          /\ Cardinality(Sent)' = Cardinality(Sent)
          /\ Cardinality(Removing)' = Cardinality(Removing)
          /\ Cardinality(Passed)' = Cardinality(Passed) - 1
      BY <1>1, <1>3, <2>0, <3>1, <3>2, SetEffect
         DEF Bit, SizesOK
    <3>4. Cardinality(QueueSlots)' = Cardinality(QueueSlots)
          /\ totalTokens' = totalTokens /\ uncounted' = uncounted
      BY <1>5, <2>2 DEF AddSend, QueueSlots
    <3>5. CounterAccounting'
      BY <1>1, <3>3, <3>4 DEF CounterAccounting
    <3>6. PassedBound'
      BY <1>1, <1>2, <3>3, <3>4 DEF PassedBound, SizesOK
    <3> QED BY <3>5, <3>6
  <2> QED BY <1>5, <2>1, <2>2 DEF AddSend
<1>6. CASE AddCount(th)
  <2> DEFINE c == Result(TRUE, None, <<>>)
  <2>1. c.pc = "done" /\ Len(c.buf) = 0
    BY EmptySeq DEF Result
  <2>2. Set(th, c)
    BY <1>6 DEF AddCount, Return
  <2> HIDE DEF c
  <2>3. /\ Cardinality(BufferSlots)' = Cardinality(BufferSlots)
        /\ Cardinality(Sent)' = Cardinality(Sent) - 1
        /\ Cardinality(Removing)' = Cardinality(Removing)
        /\ Cardinality(Passed)' = Cardinality(Passed) - 1
    BY <1>1, <1>3, <1>6, <2>1, <2>2, SetEffect DEF AddCount, Bit, SizesOK
  <2>4. Cardinality(QueueSlots)' = Cardinality(QueueSlots)
        /\ totalTokens' = totalTokens + 1 /\ uncounted' = uncounted
    BY <1>6 DEF AddCount, IncrementTokenCount, QueueSlots, history
  <2>5. CounterAccounting'
    BY <1>1, <1>2, <2>3, <2>4 DEF CounterAccounting, SizesOK
  <2>6. PassedBound'
    BY <1>1, <1>2, <2>3, <2>4 DEF PassedBound, SizesOK
  <2> QED BY <2>5, <2>6
<1> QED BY <1>4, <1>5, <1>6

(* RemoveToken: the token a thread received is counted as Removing until    *)
(* the counter is decremented.                                              *)
LEMMA RemoveCounts ==
  ASSUME CounterInv, TypeOK', NEW th \in Thread,
         RemoveReceive(th) \/ RemoveCount(th)
  PROVE  CounterAccounting' /\ PassedBound'
<1> DEFINE p == call[th].place
<1>1. TypeOK /\ SizesOK /\ CounterAccounting /\ PassedBound
  BY Sizes DEF CounterInv
<1>2. /\ call[th] \in CallType /\ CallOK(call[th])
      /\ totalTokens \in Int /\ uncounted \in Nat /\ GlobalCapacity \in Nat
  BY <1>1, PlaceAssumption DEF TypeOK, PlaceTypeOK
<1>3. call[th].buf = <<>> /\ Len(call[th].buf) = 0 /\ p \in Place
  BY <1>2, EmptySeq DEF RemoveReceive, RemoveCount, CallOK, Steps, RemoveSteps,
                        DrainSteps
<1>4. CASE RemoveReceive(th)
  <2>1. CASE /\ tokens[p] # <<>> /\ Receive(th, p)
             /\ Set(th, [call[th] EXCEPT !.pc = "rem_count",
                                         !.tok = Head(tokens[p])])
    <3> DEFINE c == [call[th] EXCEPT !.pc = "rem_count", !.tok = Head(tokens[p])]
    <3>1. c.pc = "rem_count" /\ c.buf = call[th].buf /\ Set(th, c)
      BY <1>2, <2>1 DEF CallType
    <3> HIDE DEF c
    <3>2. /\ Cardinality(BufferSlots)' = Cardinality(BufferSlots)
          /\ Cardinality(Sent)' = Cardinality(Sent)
          /\ Cardinality(Removing)' = Cardinality(Removing) + 1
          /\ Cardinality(Passed)' = Cardinality(Passed)
      BY <1>1, <1>3, <1>4, <3>1, SetEffect DEF RemoveReceive, Bit, SizesOK
    <3>3. tokens[p] \in Seq(Token)
      BY <1>1, <1>3 DEF TypeOK, PlaceTypeOK
    <3>4. Len(Tail(tokens[p])) = Len(tokens[p]) - 1 /\ Len(tokens[p]) \in Nat
      BY <2>1, <3>3, HeadTailProperties
    <3>5. tokens' = [tokens EXCEPT ![p] = Tail(tokens[p])]
      BY <2>1 DEF Receive
    <3>6. Cardinality(QueueSlots)' =
            Cardinality(QueueSlots) - Len(tokens[p]) + Len(Tail(tokens[p]))
      BY <1>1, <1>3, <3>5, QueueEffect
    <3>7. Cardinality(QueueSlots)' = Cardinality(QueueSlots) - 1
          /\ totalTokens' = totalTokens /\ uncounted' = uncounted
      BY <1>1, <1>4, <3>4, <3>6 DEF RemoveReceive, SizesOK
    <3>8. CounterAccounting'
      BY <1>1, <1>2, <3>2, <3>7 DEF CounterAccounting, SizesOK
    <3>9. PassedBound'
      BY <1>1, <3>2, <3>7 DEF PassedBound
    <3> QED BY <3>8, <3>9
  <2>2. CASE Return(th, FALSE, None, <<>>) /\ UNCHANGED <<tokens, disturbed>>
    <3> DEFINE c == Result(FALSE, None, <<>>)
    <3>1. c.pc = "done" /\ Len(c.buf) = 0 /\ Set(th, c)
      BY <2>2, EmptySeq DEF Result, Return
    <3> HIDE DEF c
    <3>2. /\ Cardinality(BufferSlots)' = Cardinality(BufferSlots)
          /\ Cardinality(Sent)' = Cardinality(Sent)
          /\ Cardinality(Removing)' = Cardinality(Removing)
          /\ Cardinality(Passed)' = Cardinality(Passed)
      BY <1>1, <1>3, <1>4, <3>1, SetEffect DEF RemoveReceive, Bit, SizesOK
    <3>3. Cardinality(QueueSlots)' = Cardinality(QueueSlots)
          /\ totalTokens' = totalTokens /\ uncounted' = uncounted
      BY <1>4, <2>2 DEF RemoveReceive, QueueSlots
    <3> QED BY <1>1, <3>2, <3>3 DEF CounterAccounting, PassedBound
  <2> QED BY <1>4, <2>1, <2>2 DEF RemoveReceive
<1>5. CASE RemoveCount(th)
  <2> DEFINE c == Result(TRUE, call[th].tok, <<>>)
  <2>1. c.pc = "done" /\ Len(c.buf) = 0 /\ Set(th, c)
    BY <1>5, EmptySeq DEF Result, RemoveCount, Return
  <2> HIDE DEF c
  <2>2. /\ Cardinality(BufferSlots)' = Cardinality(BufferSlots)
        /\ Cardinality(Sent)' = Cardinality(Sent)
        /\ Cardinality(Removing)' = Cardinality(Removing) - 1
        /\ Cardinality(Passed)' = Cardinality(Passed)
    BY <1>1, <1>3, <1>5, <2>1, SetEffect DEF RemoveCount, Bit, SizesOK
  <2>3. Cardinality(QueueSlots)' = Cardinality(QueueSlots)
        /\ totalTokens' = totalTokens - 1 /\ uncounted' = uncounted
    BY <1>2, <1>5 DEF RemoveCount, IncrementTokenCount, QueueSlots, history
  <2>4. CounterAccounting'
    BY <1>1, <1>2, <2>2, <2>3 DEF CounterAccounting, SizesOK
  <2>5. PassedBound'
    BY <1>1, <1>2, <2>2, <2>3 DEF PassedBound, SizesOK
  <2> QED BY <2>4, <2>5
<1> QED BY <1>4, <1>5

(* Every step of the other operations moves tokens between one channel, the *)
(* buffer of the thread and the uncounted ones, and none of them touches    *)
(* the counter.                                                             *)
Counting == {"add_send", "add_count", "rem_count"}

LEMMA Transfer ==
  ASSUME CounterInv, TypeOK', NEW th \in Thread, NEW c, Set(th, c),
         call[th].pc \notin Counting, c.pc \notin Counting,
         NEW p \in Place, NEW s, tokens' = [tokens EXCEPT ![p] = s],
         totalTokens' = totalTokens,
         Len(tokens[p]) \in Nat, Len(s) \in Nat,
         Len(call[th].buf) \in Nat, Len(c.buf) \in Nat,
         Len(s) + Len(c.buf) + uncounted' =
           Len(tokens[p]) + Len(call[th].buf) + uncounted
  PROVE  CounterAccounting' /\ PassedBound'
<1>1. TypeOK /\ SizesOK /\ CounterAccounting /\ PassedBound
  BY Sizes DEF CounterInv
<1>2. totalTokens \in Int /\ uncounted \in Nat /\ uncounted' \in Nat
  BY <1>1 DEF TypeOK, PlaceTypeOK
<1>3. /\ Cardinality(BufferSlots)' =
           Cardinality(BufferSlots) - Len(call[th].buf) + Len(c.buf)
      /\ Cardinality(Sent)' = Cardinality(Sent)
      /\ Cardinality(Removing)' = Cardinality(Removing)
      /\ Cardinality(Passed)' = Cardinality(Passed)
  BY <1>1, SetEffect DEF Counting, Bit, SizesOK
<1>4. Cardinality(QueueSlots)' =
        Cardinality(QueueSlots) - Len(tokens[p]) + Len(s)
  BY <1>1, QueueEffect
<1> DEFINE q == Len(tokens[p])  r == Len(s)
           b == Len(call[th].buf)  d == Len(c.buf)
<1>5. /\ q \in Nat /\ r \in Nat /\ b \in Nat /\ d \in Nat
      /\ r + d + uncounted' = q + b + uncounted
      /\ totalTokens' = totalTokens
  OBVIOUS
<1>6. /\ Cardinality(BufferSlots)' = Cardinality(BufferSlots) - b + d
      /\ Cardinality(QueueSlots)' = Cardinality(QueueSlots) - q + r
      /\ Cardinality(Sent)' = Cardinality(Sent)
      /\ Cardinality(Removing)' = Cardinality(Removing)
  BY <1>3, <1>4
<1> HIDE DEF q, r, b, d
<1>7. CounterAccounting'
  <2> DEFINE Q == Cardinality(QueueSlots)  B == Cardinality(BufferSlots)
             Q2 == Cardinality(QueueSlots)'  B2 == Cardinality(BufferSlots)'
             R == Cardinality(Removing)  S == Cardinality(Sent)
  <2>1. Q \in Nat /\ B \in Nat /\ R \in Nat /\ S \in Nat
    BY <1>1 DEF SizesOK
  <2>2. Q2 = Q - q + r /\ B2 = B - b + d
    BY <1>6
  <2>3. totalTokens + S = Q + B + R + uncounted
    BY <1>1 DEF CounterAccounting
  <2>4. Cardinality(Removing)' = R /\ Cardinality(Sent)' = S
    BY <1>6
  <2>5. CounterAccounting' <=> totalTokens' + S = Q2 + B2 + R + uncounted'
    BY <2>4 DEF CounterAccounting
  <2> HIDE DEF Q, B, Q2, B2, R, S
  <2>6. totalTokens' + S = Q2 + B2 + R + uncounted'
    <3> DEFINE u == uncounted  v == uncounted'  t == totalTokens
    <3>1. /\ u \in Nat /\ v \in Nat /\ t \in Int /\ totalTokens' = t
          /\ r + d + v = q + b + u /\ t + S = Q + B + R + u
          /\ q \in Nat /\ r \in Nat /\ b \in Nat /\ d \in Nat
      BY <1>2, <1>5, <2>3
    <3> HIDE DEF u, v, t
    <3>2. t + S = Q2 + B2 + R + v
      BY ONLY <2>1, <2>2, <3>1
    <3> QED BY <3>1, <3>2 DEF u, v, t
  <2> QED BY <2>5, <2>6
<1>8. PassedBound'
  BY <1>1, <1>3 DEF PassedBound
<1> QED BY <1>7, <1>8

(* Steps that only change where a thread is in its call.                    *)
LEMMA NoTransfer ==
  ASSUME CounterInv, TypeOK', NEW th \in Thread, NEW c, Set(th, c),
         call[th].pc \notin Counting, c.pc \notin Counting,
         UNCHANGED <<tokens, totalTokens, uncounted>>, c.buf = call[th].buf
  PROVE  CounterAccounting' /\ PassedBound'
<1>1. TypeOK /\ SizesOK /\ CounterAccounting /\ PassedBound
  BY Sizes DEF CounterInv
<1>2. Len(call[th].buf) \in Nat
  BY <1>1 DEF TypeOK, PlaceTypeOK, CallType
<1>3. /\ Cardinality(BufferSlots)' = Cardinality(BufferSlots)
      /\ Cardinality(Sent)' = Cardinality(Sent)
      /\ Cardinality(Removing)' = Cardinality(Removing)
      /\ Cardinality(Passed)' = Cardinality(Passed)
  BY <1>1, <1>2, SetEffect DEF Counting, Bit, SizesOK
<1>4. QueueSlots' = QueueSlots
  BY DEF QueueSlots
<1> QED BY <1>1, <1>3, <1>4 DEF CounterAccounting, PassedBound

(* The end of a call that gives the buffer up unchanged or empty.           *)
LEMMA ResultFields ==
  ASSUME NEW ok, NEW t, NEW s
  PROVE  Result(ok, t, s).pc = "done" /\ Result(ok, t, s).buf = <<>>
BY DEF Result

(* One receive of a drain loop.                                             *)
LEMMA DrainCounts ==
  ASSUME CounterInv, TypeOK', NEW th \in Thread, Drain(th),
         call[th].pc \in {"peek_drain", "pwc_drain"}
  PROVE  CounterAccounting' /\ PassedBound'
<1> DEFINE p == call[th].place
           c == [call[th] EXCEPT !.buf = Append(@, Head(tokens[p]))]
<1>1. /\ call[th] \in CallType /\ CallOK(call[th]) /\ CallsOK
      /\ tokens \in [Place -> Seq(Token)]
  BY DEF CounterInv, TypeOK, PlaceTypeOK, CallsOK
<1>2. p \in Place /\ call[th].buf \in Seq(Token) /\ tokens[p] \in Seq(Token)
  BY <1>1, CallFields DEF Steps, DrainSteps
<1>3. /\ Len(Tail(tokens[p])) = Len(tokens[p]) - 1 /\ Len(tokens[p]) \in Nat
      /\ Len(Tail(tokens[p])) \in Nat /\ Head(tokens[p]) \in Token
  BY <1>2, HeadTailProperties DEF Drain
<1>4. Len(Append(call[th].buf, Head(tokens[p]))) = Len(call[th].buf) + 1
      /\ Len(call[th].buf) \in Nat
  BY <1>2, <1>3, AppendProperties
<1>5. c.pc = call[th].pc /\ c.buf = Append(call[th].buf, Head(tokens[p]))
  BY <1>1 DEF CallType
<1>6. /\ Set(th, c) /\ tokens' = [tokens EXCEPT ![p] = Tail(tokens[p])]
      /\ totalTokens' = totalTokens /\ uncounted' = uncounted
  BY DEF Drain, Receive
<1>7. uncounted \in Nat
  BY DEF CounterInv, TypeOK, PlaceTypeOK
<1> HIDE DEF c
<1>8. Len(Tail(tokens[p])) + Len(c.buf) + uncounted' =
        Len(tokens[p]) + Len(call[th].buf) + uncounted
  <2> DEFINE q == Len(tokens[p])  r == Len(Tail(tokens[p]))
             b == Len(call[th].buf)  d == Len(c.buf)
  <2>1. /\ q \in Nat /\ b \in Nat /\ r = q - 1 /\ d = b + 1
        /\ uncounted' = uncounted
    BY <1>3, <1>4, <1>5, <1>6
  <2> HIDE DEF q, r, b, d
  <2>2. r + d + uncounted' = q + b + uncounted
    BY ONLY <1>7, <2>1
  <2> QED BY <2>2 DEF q, r, b, d
<1>9. call[th].pc \notin Counting /\ c.pc \notin Counting /\ Len(c.buf) \in Nat
  BY <1>4, <1>5 DEF Counting
<1> QED BY <1>2, <1>3, <1>4, <1>6, <1>8, <1>9, Transfer

(* One round of a put-back loop, where k is 1 when the token was dropped.   *)
LEMMA RefillCounts ==
  ASSUME CounterInv, TypeOK', NEW th \in Thread, NEW ok, Refilled(th, ok),
         call[th].pc \in {"peek_refill", "pwc_undo", "pwc_refill"},
         totalTokens' = totalTokens,
         NEW p \in Place, NEW s \in Seq(Token), NEW k \in Nat,
         tokens' = [tokens EXCEPT ![p] = s],
         Len(s) + k = Len(tokens[p]) + 1, uncounted' = uncounted + k
  PROVE  CounterAccounting' /\ PassedBound'
<1> DEFINE b == call[th].buf
<1>1. /\ call[th] \in CallType /\ CallOK(call[th])
      /\ tokens[p] \in Seq(Token) /\ uncounted \in Nat
  BY DEF CounterInv, TypeOK, PlaceTypeOK
<1>2. b \in Seq(Token) /\ b # <<>>
  BY <1>1 DEF CallType, CallOK
<1>3. Tail(b) \in Seq(Token) /\ Len(Tail(b)) = Len(b) - 1 /\ Len(b) \in Nat
  BY <1>2, HeadTailProperties
<1>4. Len(s) \in Nat /\ Len(tokens[p]) \in Nat /\ Len(<<>>) = 0
  BY <1>1, EmptySeq
<1>5. PICK c : /\ Set(th, c) /\ c.pc \in {call[th].pc, "done"}
               /\ c.buf = Tail(b)
  <2>1. CASE Tail(b) # <<>>
    <3> DEFINE c == [call[th] EXCEPT !.buf = Tail(@)]
    <3>1. c.pc = call[th].pc /\ c.buf = Tail(b)
      BY <1>1 DEF CallType
    <3>2. Set(th, c)
      BY <2>1 DEF Refilled
    <3> QED BY <3>1, <3>2
  <2>2. CASE Tail(b) = <<>>
    <3> DEFINE c == Result(ok, None, call[th].seen)
    <3>1. Set(th, c)
      BY <2>2 DEF Refilled, Return
    <3>2. c.pc = "done" /\ c.buf = <<>>
      BY ResultFields
    <3> QED BY <2>2, <3>1, <3>2
  <2> QED BY <2>1, <2>2
<1> HIDE DEF b
<1>6. Len(c.buf) = Len(b) - 1 /\ Len(c.buf) \in Nat
  BY <1>3, <1>5
<1>9. k \in Nat /\ uncounted \in Nat /\ Len(s) + k = Len(tokens[p]) + 1
      /\ uncounted' = uncounted + k
  BY <1>1
<1>7. Len(s) + Len(c.buf) + uncounted' = Len(tokens[p]) + Len(b) + uncounted
  <2> DEFINE q == Len(tokens[p])  r == Len(s)  e == Len(b)  d == Len(c.buf)
  <2>1. /\ q \in Nat /\ r \in Nat /\ e \in Nat /\ d = e - 1
        /\ r + k = q + 1
    BY <1>3, <1>4, <1>6, <1>9
  <2> HIDE DEF q, r, e, d
  <2>2. r + d + uncounted' = q + e + uncounted
    BY ONLY <1>9, <2>1
  <2> QED BY <2>2 DEF q, r, e, d
<1>8. call[th].pc \notin Counting /\ c.pc \notin Counting
  BY <1>5 DEF Counting
<1> USE DEF b
<1> QED BY <1>3, <1>4, <1>5, <1>6, <1>7, <1>8, Transfer

LEMMA PeekCounts ==
  ASSUME CounterInv, TypeOK', NEW th \in Thread,
         PeekLock(th) \/ PeekDrain(th) \/ PeekRefill(th)
  PROVE  CounterAccounting' /\ PassedBound'
<1> DEFINE p == call[th].place
<1>1. /\ call[th] \in CallType /\ CallOK(call[th])
      /\ tokens \in [Place -> Seq(Token)] /\ uncounted \in Nat
      /\ p \in Place
  <2>1. TypeOK
    BY DEF CounterInv
  <2> QED BY <2>1 DEF PeekLock, PeekDrain, PeekRefill, TypeOK, PlaceTypeOK,
                      CallOK, Steps, LockSteps, DrainSteps
<1>2. CASE PeekLock(th)
  <2> DEFINE c == [call[th] EXCEPT !.pc = "peek_drain"]
  <2>1. Set(th, c) /\ c.pc = "peek_drain" /\ c.buf = call[th].buf
    BY <1>1, <1>2 DEF PeekLock, Goto, CallType
  <2>2. UNCHANGED <<tokens, totalTokens, uncounted>> /\ call[th].pc = "peek_lock"
    BY <1>2 DEF PeekLock
  <2> HIDE DEF c
  <2> QED BY <2>1, <2>2, NoTransfer DEF Counting
<1>3. CASE PeekDrain(th)
  <2>0. call[th].pc = "peek_drain"
    BY <1>3 DEF PeekDrain
  <2>1. CASE Drain(th)
    BY <2>0, <2>1, DrainCounts
  <2>2. CASE Return(th, TRUE, None, <<>>) /\ call[th].buf = <<>>
             /\ UNCHANGED <<tokens, totalTokens, uncounted, lost>>
    <3> DEFINE c == Result(TRUE, None, <<>>)
    <3>1. Set(th, c) /\ c.pc = "done" /\ c.buf = <<>>
      BY <2>2, ResultFields DEF Return
    <3> HIDE DEF c
    <3> QED BY <2>0, <2>2, <3>1, NoTransfer DEF Counting
  <2>3. CASE /\ Set(th, [call[th] EXCEPT !.pc = "peek_refill",
                                         !.seen = call[th].buf])
             /\ UNCHANGED <<tokens, totalTokens, uncounted, lost>>
    <3> DEFINE c == [call[th] EXCEPT !.pc = "peek_refill", !.seen = call[th].buf]
    <3>1. Set(th, c) /\ c.pc = "peek_refill" /\ c.buf = call[th].buf
      BY <1>1, <2>3 DEF CallType
    <3> HIDE DEF c
    <3> QED BY <2>0, <2>3, <3>1, NoTransfer DEF Counting
  <2> QED BY <1>3, <2>1, <2>2, <2>3 DEF PeekDrain
<1>4. CASE PeekRefill(th)
  <2> DEFINE t == Head(call[th].buf)
  <2>1. call[th].buf \in Seq(Token) /\ call[th].buf # <<>>
    BY <1>1, <1>4 DEF PeekRefill, CallType, CallOK
  <2>2. t \in Token /\ tokens[p] \in Seq(Token) /\ Len(tokens[p]) \in Nat
    BY <1>1, <2>1, HeadTailProperties
  <2>3. /\ Refilled(th, TRUE) /\ call[th].pc = "peek_refill"
        /\ totalTokens' = totalTokens
    BY <1>4 DEF PeekRefill
  <2>4. CASE tokens' = [tokens EXCEPT ![p] = Append(@, t)]
             /\ UNCHANGED <<uncounted, lost>>
    <3>1. Append(tokens[p], t) \in Seq(Token)
          /\ Len(Append(tokens[p], t)) + 0 = Len(tokens[p]) + 1
      BY <2>2, AppendProperties
    <3>2. uncounted' = uncounted + 0
      BY <1>1, <2>4
    <3> HIDE DEF t
    <3> QED BY <1>1, <2>3, <2>4, <3>1, <3>2, RefillCounts
  <2>5. CASE uncounted' = uncounted + 1 /\ UNCHANGED tokens
    <3>1. tokens' = [tokens EXCEPT ![p] = tokens[p]]
      BY <1>1, <2>5
    <3> QED BY <1>1, <2>2, <2>3, <2>5, <3>1, RefillCounts
  <2> QED BY <1>4, <2>4, <2>5 DEF PeekRefill
<1> QED BY <1>2, <1>3, <1>4

LEMMA PwcCounts ==
  ASSUME CounterInv, TypeOK', NEW th \in Thread,
         PwcLock(th) \/ PwcDrain(th) \/ PwcRefill(th)
  PROVE  CounterAccounting' /\ PassedBound'
<1> DEFINE p == call[th].place
<1>1. /\ call[th] \in CallType /\ CallOK(call[th])
      /\ tokens \in [Place -> Seq(Token)] /\ uncounted \in Nat
      /\ p \in Place
  <2>1. TypeOK
    BY DEF CounterInv
  <2> QED BY <2>1 DEF PwcLock, PwcDrain, PwcRefill, TypeOK, PlaceTypeOK,
                      CallOK, Steps, LockSteps, DrainSteps
<1>2. ASSUME NEW ok, Return(th, ok, None, <<>>), call[th].buf = <<>>,
             UNCHANGED <<tokens, totalTokens, uncounted>>,
             call[th].pc \in {"pwc_lock", "pwc_drain"}
      PROVE  CounterAccounting' /\ PassedBound'
  <2> DEFINE c == Result(ok, None, <<>>)
  <2>1. Set(th, c) /\ c.pc = "done" /\ c.buf = <<>>
    BY <1>2, ResultFields DEF Return
  <2> HIDE DEF c
  <2> QED BY <1>2, <2>1, NoTransfer DEF Counting
<1>3. CASE PwcLock(th)
  <2>1. /\ call[th].pc = "pwc_lock" /\ call[th].buf = <<>>
        /\ UNCHANGED <<tokens, totalTokens, uncounted>>
    BY <1>1, <1>3 DEF PwcLock, CallOK, DrainSteps
  <2>2. CASE Return(th, FALSE, None, <<>>)
    BY <1>2, <2>1, <2>2
  <2>3. CASE Set(th, [call[th] EXCEPT !.pc = "pwc_drain",
                                      !.avail = Len(tokens[p])])
    <3> DEFINE c == [call[th] EXCEPT !.pc = "pwc_drain", !.avail = Len(tokens[p])]
    <3>1. Set(th, c) /\ c.pc = "pwc_drain" /\ c.buf = call[th].buf
      BY <1>1, <2>3 DEF CallType
    <3> HIDE DEF c
    <3> QED BY <2>1, <3>1, NoTransfer DEF Counting
  <2> QED BY <1>3, <2>2, <2>3 DEF PwcLock
<1>4. CASE PwcDrain(th)
  <2>0. call[th].pc = "pwc_drain"
    BY <1>4 DEF PwcDrain
  <2>1. CASE Drain(th)
    BY <2>0, <2>1, DrainCounts
  <2>2. CASE /\ Return(th, FALSE, None, <<>>) /\ call[th].buf = <<>>
             /\ UNCHANGED <<tokens, totalTokens, uncounted, lost>>
    BY <1>2, <2>0, <2>2
  <2>3. CASE Goto(th, "pwc_undo")
             /\ UNCHANGED <<tokens, totalTokens, uncounted, lost>>
    <3> DEFINE c == [call[th] EXCEPT !.pc = "pwc_undo"]
    <3>1. Set(th, c) /\ c.pc = "pwc_undo" /\ c.buf = call[th].buf
      BY <1>1, <2>3 DEF CallType, Goto
    <3> HIDE DEF c
    <3> QED BY <2>0, <2>3, <3>1, NoTransfer DEF Counting
  <2>4. CASE /\ Set(th, [call[th] EXCEPT
                           !.pc = "pwc_refill",
                           !.seen = SubSeq(call[th].buf, 1, call[th].need)])
             /\ UNCHANGED <<tokens, totalTokens, peekMu, history>>
    <3> DEFINE c == [call[th] EXCEPT
                       !.pc = "pwc_refill",
                       !.seen = SubSeq(call[th].buf, 1, call[th].need)]
    <3>1. Set(th, c) /\ c.pc = "pwc_refill" /\ c.buf = call[th].buf
      BY <1>1, <2>4 DEF CallType
    <3>2. UNCHANGED <<tokens, totalTokens, uncounted>>
      BY <2>4 DEF history
    <3> HIDE DEF c
    <3> QED BY <2>0, <3>1, <3>2, NoTransfer DEF Counting
  <2> QED BY <1>4, <2>1, <2>2, <2>3, <2>4 DEF PwcDrain
<1>5. CASE PwcRefill(th)
  <2> DEFINE t == Head(call[th].buf)
  <2>1. call[th].buf \in Seq(Token) /\ call[th].buf # <<>>
    BY <1>1, <1>5 DEF PwcRefill, CallType, CallOK
  <2>2. t \in Token /\ tokens[p] \in Seq(Token) /\ Len(tokens[p]) \in Nat
    BY <1>1, <2>1, HeadTailProperties
  <2>3. /\ Refilled(th, call[th].pc = "pwc_refill")
        /\ call[th].pc \in {"pwc_undo", "pwc_refill"}
        /\ totalTokens' = totalTokens /\ uncounted' = uncounted + 0
        /\ tokens' = [tokens EXCEPT ![p] = Append(@, t)]
    BY <1>1, <1>5 DEF PwcRefill
  <2>4. Append(tokens[p], t) \in Seq(Token)
        /\ Len(Append(tokens[p], t)) + 0 = Len(tokens[p]) + 1
    BY <2>2, AppendProperties
  <2> HIDE DEF t
  <2> QED BY <1>1, <2>3, <2>4, RefillCounts
<1> QED BY <1>3, <1>4, <1>5

(* Clear counts nothing: what it took becomes uncounted when it returns.    *)
LEMMA ClearCounts ==
  ASSUME CounterInv, TypeOK', NEW th \in Thread,
         ClearLock(th) \/ ClearLen(th) \/ ClearReceive(th)
  PROVE  CounterAccounting' /\ PassedBound'
<1> DEFINE p == call[th].place
<1>1. /\ call[th] \in CallType /\ CallOK(call[th])
      /\ tokens \in [Place -> Seq(Token)] /\ uncounted \in Nat
      /\ p \in Place
  <2>1. TypeOK
    BY DEF CounterInv
  <2> QED BY <2>1 DEF ClearLock, ClearLen, ClearReceive, TypeOK, PlaceTypeOK,
                      CallOK, Steps, LockSteps, DrainSteps
<1>2. ASSUME NEW step \in {"clr_len", "clr_recv"}, Goto(th, step),
             UNCHANGED <<tokens, totalTokens, uncounted>>,
             call[th].pc \in {"clr_lock", "clr_len"}
      PROVE  CounterAccounting' /\ PassedBound'
  <2> DEFINE c == [call[th] EXCEPT !.pc = step]
  <2>1. Set(th, c) /\ c.pc = step /\ c.buf = call[th].buf
    BY <1>1, <1>2 DEF CallType, Goto
  <2> HIDE DEF c
  <2> QED BY <1>2, <2>1, NoTransfer DEF Counting
<1>3. CASE ClearLock(th)
  BY <1>2, <1>3 DEF ClearLock
<1>4. CASE ClearLen(th)
  <2>0. call[th].pc = "clr_len" /\ UNCHANGED <<tokens, totalTokens>>
    BY <1>4 DEF ClearLen
  <2>1. CASE Goto(th, "clr_recv") /\ uncounted' = uncounted
    BY <1>2, <2>0, <2>1
  <2>2. CASE /\ Return(th, TRUE, None, call[th].buf)
             /\ uncounted' = uncounted + Len(call[th].buf)
    <3> DEFINE c == Result(TRUE, None, call[th].buf)
    <3>1. Set(th, c) /\ c.pc = "done" /\ Len(c.buf) = 0
      BY <2>2, ResultFields, EmptySeq DEF Return
    <3> HIDE DEF c
    <3>2. tokens' = [tokens EXCEPT ![p] = tokens[p]]
      BY <1>1, <2>0
    <3>3. Len(tokens[p]) \in Nat /\ Len(call[th].buf) \in Nat
      BY <1>1 DEF CallType
    <3>4. Len(tokens[p]) + Len(c.buf) + uncounted' =
            Len(tokens[p]) + Len(call[th].buf) + uncounted
      <4> DEFINE q == Len(tokens[p])  b == Len(call[th].buf)  d == Len(c.buf)
      <4>1. /\ q \in Nat /\ b \in Nat /\ d = 0 /\ uncounted \in Nat
            /\ uncounted' = uncounted + b
        BY <1>1, <2>2, <3>1, <3>3
      <4> HIDE DEF q, b, d
      <4>2. q + d + uncounted' = q + b + uncounted
        BY ONLY <4>1
      <4> QED BY <4>2 DEF q, b, d
    <3>5. Len(c.buf) \in Nat
      BY <3>1
    <3> QED BY <1>1, <2>0, <3>1, <3>2, <3>3, <3>4, <3>5, Transfer DEF Counting
  <2> QED BY <1>4, <2>1, <2>2 DEF ClearLen
<1>5. CASE ClearReceive(th)
  <2> DEFINE b == call[th].buf
             c == [call[th] EXCEPT !.pc = "clr_len",
                                   !.buf = Append(b, Head(tokens[p]))]
  <2>1. /\ call[th].pc = "clr_recv" /\ Set(th, c)
        /\ tokens' = [tokens EXCEPT ![p] = Tail(tokens[p])]
        /\ totalTokens' = totalTokens /\ uncounted' = uncounted
    BY <1>5 DEF ClearReceive, Receive
  <2>2. b \in Seq(Token) /\ tokens[p] \in Seq(Token) /\ tokens[p] # <<>>
    BY <1>1, <1>5 DEF ClearReceive, CallType
  <2>3. /\ Len(Tail(tokens[p])) = Len(tokens[p]) - 1 /\ Len(tokens[p]) \in Nat
        /\ Len(Tail(tokens[p])) \in Nat /\ Head(tokens[p]) \in Token
    BY <2>2, HeadTailProperties
  <2>4. Len(Append(b, Head(tokens[p]))) = Len(b) + 1 /\ Len(b) \in Nat
    BY <2>2, <2>3, AppendProperties
  <2>5. c.pc = "clr_len" /\ c.buf = Append(b, Head(tokens[p]))
    BY <1>1 DEF CallType
  <2> HIDE DEF c
  <2>6. Len(Tail(tokens[p])) + Len(c.buf) + uncounted' =
          Len(tokens[p]) + Len(b) + uncounted
    <3> DEFINE q == Len(tokens[p])  r == Len(Tail(tokens[p]))
               e == Len(b)  d == Len(c.buf)
    <3>1. /\ q \in Nat /\ e \in Nat /\ r = q - 1 /\ d = e + 1
          /\ uncounted' = uncounted /\ uncounted \in Nat
      BY <1>1, <2>1, <2>3, <2>4, <2>5
    <3> HIDE DEF q, r, e, d
    <3>2. r + d + uncounted' = q + e + uncounted
      BY ONLY <3>1
    <3> QED BY <3>2 DEF q, r, e, d
  <2>7. Len(c.buf) \in Nat
    BY <2>4, <2>5
  <2> QED BY <1>1, <2>1, <2>3, <2>4, <2>5, <2>6, <2>7, Transfer DEF Counting
<1> QED BY <1>3, <1>4, <1>5

-----------------------------------------------------------------------------
LEMMA BeginCounts ==
  ASSUME CounterInv, TypeOK', NEW th \in Thread, Begin(th)
  PROVE  CounterAccounting' /\ PassedBound'
<1>1. UNCHANGED <<tokens, totalTokens, uncounted>>
  BY DEF Begin, history
<1>2. call[th].pc \notin Counting /\ call[th].buf = <<>>
  BY DEF Begin, Free, Counting, CounterInv, TypeOK, PlaceTypeOK, CallOK,
         DrainSteps
<1>3. PICK c : Set(th, c) /\ c.pc \notin Counting /\ c.buf = <<>>
  <2>1. \A step, p, t, n : Request(step, p, t, n).pc = step
                           /\ Request(step, p, t, n).buf = <<>>
    BY DEF Request
  <2>2. {"add_check", "rem_recv", "peek_lock", "pwc_lock", "clr_lock"}
          \cap Counting = {}
    BY DEF Counting
  <2> QED BY <2>1, <2>2 DEF Begin, CallAddToken, CallRemoveToken, CallPeekTokens,
                            CallPeekTokensWithCount, CallClear
<1> QED BY <1>1, <1>2, <1>3, NoTransfer

LEMMA InitCounts == ASSUME Init PROVE CounterInv
<1>1. TypeOK
  BY InitType
<1>2. Sent = {} /\ Removing = {} /\ Passed = {}
  BY DEF Init, PlaceInit, Sent, Removing, Passed, NoCall, Request
<1>3. BufferSlots = {}
  <2>1. \A th \in Thread : Len(call[th].buf) = 0
    BY EmptySeq DEF Init, PlaceInit, NoCall, Request
  <2>2. \A th \in Thread : {th} \X (1 .. Len(call[th].buf)) = {}
    BY <2>1
  <2> QED BY <2>2 DEF BufferSlots
<1>4. /\ totalTokens = Cardinality(QueueSlots) /\ uncounted = 0
      /\ Cardinality({}) = 0 /\ Cardinality(QueueSlots) \in Nat
  BY <1>1, Sizes, FS_EmptySet DEF Init, PlaceInit, SizesOK
<1>5. CounterAccounting
  BY <1>2, <1>3, <1>4 DEF CounterAccounting
<1>6. GlobalCapacity # 0 => totalTokens <= GlobalCapacity
  BY OpsAssumption DEF Init, PlaceInit, QueueSlots
<1>7. Cardinality(Thread) \in Nat /\ Cardinality(Thread) # 0
  BY OpsAssumption, PlaceAssumption, FS_EmptySet, FS_CardinalityType
<1>8. PassedBound
  BY <1>2, <1>4, <1>6, <1>7, PlaceAssumption DEF PassedBound
<1> QED BY <1>1, <1>5, <1>8 DEF CounterInv

THEOREM CounterInvariant == Spec => []CounterInv
<1>1. Init => CounterInv
  BY InitCounts
<1>2. CounterInv /\ [Moves]_placeVars => CounterInv'
  <2> SUFFICES ASSUME CounterInv, [Moves]_placeVars PROVE CounterInv'
    OBVIOUS
  <2>1. TypeOK'
    BY NextType DEF CounterInv
  <2>2. CASE UNCHANGED placeVars
    BY <2>1, <2>2 DEF placeVars, CounterInv, CounterAccounting, PassedBound,
                      QueueSlots, BufferSlots, Sent, Removing, Passed
  <2>3. ASSUME NEW th \in Thread, Begin(th) \/ PlaceStep(th)
        PROVE  CounterAccounting' /\ PassedBound'
    BY <2>1, <2>3, BeginCounts, AddCounts, RemoveCounts, PeekCounts, PwcCounts,
       ClearCounts DEF PlaceStep
  <2> QED BY <2>1, <2>2, <2>3 DEF Moves, CounterInv
<1> QED BY <1>1, <1>2, NextMoves, PTL DEF Spec

(* The counter is what the net holds, up to the calls in progress and what  *)
(* Clear and a lossy PeekTokens took out.                                   *)
THEOREM CounterAccounted == Spec => []CounterAccounting
<1>1. CounterInv => CounterAccounting
  BY DEF CounterInv
<1> QED BY <1>1, CounterInvariant, PTL

(* However many threads add at once, the net exceeds GlobalCapacity by at   *)
(* most one token for each thread but one.                                  *)
THEOREM OvershootBounded == Spec => []GlobalOvershootBounded
<1>1. CounterInv => GlobalOvershootBounded
  <2> SUFFICES ASSUME CounterInv PROVE GlobalOvershootBounded
    OBVIOUS
  <2>1. SizesOK /\ CounterAccounting /\ PassedBound
    BY Sizes DEF CounterInv
  <2>2. totalTokens \in Int /\ uncounted \in Nat /\ GlobalCapacity \in Nat
    BY PlaceAssumption DEF CounterInv, TypeOK, PlaceTypeOK
  <2> QED BY <2>1, <2>2
          DEF SizesOK, CounterAccounting, PassedBound, GlobalOvershootBounded
<1> QED BY <1>1, CounterInvariant, PTL

-----------------------------------------------------------------------------
(* Peeks that no one disturbs.  QuietInv says what such a peek has in its   *)
(* hands at each step; the two action properties follow from its last one.  *)
LEMMA BeginQuiet ==
  ASSUME QuietInv, NEW th \in Thread, Begin(th), NEW u \in Thread
  PROVE  QuietOK(u)'
<1>1. PICK step \in Steps \ DrainSteps :
        \E p, t, n : Set(th, Request(step, p, t, n))
  BY DEF Begin, CallAddToken, CallRemoveToken, CallPeekTokens,
         CallPeekTokensWithCount, CallClear, Steps, AddSteps, RemoveSteps,
         LockSteps, DrainSteps
<1>2. PlaceTypeOK /\ QuietOK(u) /\ UNCHANGED <<tokens, before, disturbed>>
  BY DEF QuietInv, MutexInv, Begin, history
<1>3. CASE u = th
  <2>1. \A p, t, n : Request(step, p, t, n).pc = step
    BY DEF Request
  <2>2. call'[th].pc = step
    BY <1>1, <1>2, <2>1, SetSelf
  <2> QED BY <1>3, <2>2, OutsideQuiet
<1>4. CASE u # th
  <2>1. call'[u] = call[u]
    BY <1>1, <1>2, <1>4 DEF Set, PlaceTypeOK
  <2> QED BY <1>2, <2>1 DEF QuietOK
<1> QED BY <1>3, <1>4

LEMMA InitQuiet == ASSUME Init PROVE QuietInv
<1>1. MutexInv
  BY InitType, PlaceAssumption
     DEF Init, PlaceInit, TypeOK, MutexInv, PeekMutex, NoCall, Request,
         DrainSteps
<1>2. \A th \in Thread : call[th].pc = "idle"
  BY DEF Init, PlaceInit, NoCall, Request
<1> QED BY <1>1, <1>2 DEF QuietInv, QuietOK, Quiet, DrainSteps

LEMMA QuietStep == ASSUME QuietInv, [Moves]_placeVars PROVE QuietInv'
<1>1. MutexInv'
  BY MutexStep DEF QuietInv
<1>2. CASE UNCHANGED placeVars
  BY <1>1, <1>2 DEF placeVars, QuietInv, QuietOK
<1>3. ASSUME NEW th \in Thread, Begin(th) \/ PlaceStep(th), NEW u \in Thread
      PROVE  QuietOK(u)'
  BY <1>3, BeginQuiet, StepQuiet
<1> QED BY <1>1, <1>2, <1>3 DEF Moves, QuietInv

LEMMA QuietAlways == Spec => []QuietInv
<1>1. Init => QuietInv
  BY InitQuiet
<1>2. QuietInv /\ [Moves]_placeVars => QuietInv'
  BY QuietStep
<1> QED BY <1>1, <1>2, NextMoves, PTL DEF Spec

(* PeekTokens and the place have room together for what it has taken and    *)
(* for what is there, until an AddToken sends to the place.                 *)
HeldSteps == {"peek_drain", "peek_refill"}

Fits(c, n) == Len(c.buf) + n <= Capacity[c.place]

RoomOK(u) ==
  call[u].pc \in HeldSteps /\ u \notin added => Fits(call[u], Len(tokens[call[u].place]))

RoomInv == QuietInv /\ \A u \in Thread : RoomOK(u)

LEMMA PeekingIs ==
  ASSUME QuietInv, NEW u \in Thread, call[u].pc \in HeldSteps
  PROVE  LET p == call[u].place IN
         /\ p \in Place /\ peekMu[p] = u /\ call[u].buf \in Seq(Token)
         /\ Capacity[p] \in Nat /\ tokens[p] \in Seq(Token) /\ call[u] \in CallType
         /\ tokens \in [Place -> Seq(Token)] /\ Len(tokens[p]) \in Nat
         /\ Len(call[u].buf) \in Nat
<1>1. call[u] \in CallType /\ call[u].place \in Place /\ tokens \in [Place -> Seq(Token)]
  BY DEF QuietInv, MutexInv, PlaceTypeOK, CallOK, HeldSteps, Steps, DrainSteps
<1>2. peekMu[call[u].place] = u
  BY <1>1 DEF QuietInv, MutexInv, PeekMutex, HeldSteps, DrainSteps
<1>3. call[u].buf \in Seq(Token)
  BY <1>1 DEF CallType
<1> QED BY <1>1, <1>2, <1>3, PlaceAssumption

LEMMA FitsLess ==
  ASSUME NEW c, NEW e, NEW n, NEW m, NEW k \in Nat, NEW l \in Nat, n \in Nat, m \in Nat,
         k = Len(c.buf), l = Len(e.buf), e.place = c.place, Capacity[c.place] \in Nat,
         Fits(c, n), l + m <= k + n
  PROVE  Fits(e, m)
<1>1. k + n <= Capacity[c.place]
  BY DEF Fits
<1>2. l + m <= Capacity[c.place]
  BY <1>1
<1> QED BY <1>2 DEF Fits

(* For the peek of another thread a step leaves its place as it is, takes   *)
(* from it, or is the send of an AddToken that is noted.                    *)
LEMMA OthersRoom ==
  ASSUME RoomInv, NEW th \in Thread, PlaceStep(th), NoteSend(th), PeekMutex',
         NEW u \in Thread, u # th
  PROVE  RoomOK(u)'
<1> SUFFICES ASSUME call'[u].pc \in HeldSteps, u \notin added' PROVE RoomOK(u)'
  BY DEF RoomOK
<1> DEFINE p == call[u].place  q == call[th].place
<1>1. QuietInv /\ MutexInv /\ call'[u] = call[u] /\ RoomOK(u)
  BY Others DEF RoomInv, QuietInv
<1>2. /\ p \in Place /\ peekMu[p] = u /\ tokens \in [Place -> Seq(Token)]
      /\ Len(tokens[p]) \in Nat /\ Len(call[u].buf) \in Nat /\ Capacity[p] \in Nat
  BY <1>1, PeekingIs
<1>3. peekMu'[p] = u
  BY <1>1, <1>2 DEF PeekMutex, HeldSteps, DrainSteps
<1>4. u \notin added /\ ~SendsTo(th, p)
  BY <1>2, <1>3 DEF NoteSend
<1>5. Fits(call[u], Len(tokens[p]))
  BY <1>1, <1>4 DEF RoomOK
<1>6. tokens'[p] = tokens[p] \/ (tokens[p] # <<>> /\ tokens'[p] = Tail(tokens[p]))
  <2>1. ASSUME NEW s, tokens' = [tokens EXCEPT ![q] = s], q # p
        PROVE  tokens'[p] = tokens[p]
    BY <1>2, <2>1
  <2>2. ASSUME call[th].pc \in DrainSteps PROVE q # p
    BY <1>1, <1>2, <2>2 DEF MutexInv, PeekMutex
  <2>3. CASE AddSend(th)
    <3>1. CASE Send(th, q, call[th].tok) /\ Goto(th, "add_count")
      <4>1. call[th].pc = "add_send" /\ call'[th].pc = "add_count"
        BY <1>1, <2>3, <3>1, SetSelf DEF AddSend, Goto, MutexInv, PlaceTypeOK, CallType
      <4>2. q # p
        BY <1>4, <4>1 DEF SendsTo
      <4>3. \E s : tokens' = [tokens EXCEPT ![q] = s]
        BY <3>1 DEF Send
      <4> QED BY <2>1, <4>2, <4>3
    <3>2. CASE tokens' = tokens
      BY <3>2
    <3> QED BY <2>3, <3>1, <3>2 DEF AddSend
  <2>4. CASE RemoveReceive(th)
    <3>1. tokens' = tokens \/ (tokens[q] # <<>> /\ tokens' = [tokens EXCEPT ![q] = Tail(tokens[q])])
      BY <2>4 DEF RemoveReceive, Receive
    <3>2. CASE q # p
      BY <2>1, <3>1, <3>2
    <3>3. CASE q = p
      BY <1>2, <3>1, <3>3
    <3> QED BY <3>2, <3>3
  <2>5. CASE tokens' = tokens
    BY <2>5
  <2>6. CASE PeekDrain(th) \/ PeekRefill(th) \/ PwcDrain(th) \/ PwcRefill(th) \/ ClearReceive(th)
    <3>1. call[th].pc \in DrainSteps
      BY <2>6 DEF PeekDrain, PeekRefill, PwcDrain, PwcRefill, ClearReceive, DrainSteps
    <3>2. tokens' = tokens \/ \E s : tokens' = [tokens EXCEPT ![q] = s]
      BY <2>6 DEF PeekDrain, PeekRefill, PwcDrain, PwcRefill, ClearReceive, Drain, Receive, history
    <3> QED BY <2>1, <2>2, <3>1, <3>2
  <2> QED BY <2>3, <2>4, <2>5, <2>6
          DEF PlaceStep, AddCheck, AddCount, RemoveCount, PeekLock, PwcLock, ClearLock, ClearLen
<1>7. PICK n \in Nat, m \in Nat, k \in Nat :
        n = Len(tokens[p]) /\ m = Len(tokens'[p]) /\ m <= n /\ k = Len(call[u].buf)
  <2>1. tokens[p] \in Seq(Token) /\ (tokens[p] # <<>> =>
          Len(Tail(tokens[p])) = Len(tokens[p]) - 1 /\ Len(tokens[p]) > 0)
    BY <1>2
  <2>2. PICK n \in Nat : n = Len(tokens[p])
    BY <1>2
  <2>3. PICK k \in Nat : k = Len(call[u].buf)
    BY <1>2
  <2>4. CASE tokens'[p] = tokens[p]
    BY <2>2, <2>3, <2>4
  <2>5. CASE tokens[p] # <<>> /\ tokens'[p] = Tail(tokens[p])
    <3>1. Len(tokens'[p]) = n - 1 /\ n > 0
      BY <2>1, <2>2, <2>5
    <3>2. n - 1 \in Nat /\ n - 1 <= n
      BY <3>1
    <3> QED BY <2>2, <2>3, <3>1, <3>2
  <2> QED BY <1>6, <2>4, <2>5
<1>8. Fits(call[u], Len(tokens'[p]))
  <2>1. k + m <= k + n
    BY <1>7
  <2> QED BY <1>2, <1>5, <1>7, <2>1, FitsLess
<1> QED BY <1>1, <1>8 DEF RoomOK

(* A token between a channel and a buffer adds nothing to the two.          *)
LEMMA OneMoved ==
  ASSUME NEW i \in Nat, NEW j \in Nat
  PROVE  /\ i # 0 => j + 1 \in Nat /\ i - 1 \in Nat /\ (j + 1) + (i - 1) <= j + i
         /\ \A m \in Nat : j # 0 /\ (m = i \/ m = i + 1)
                           => j - 1 \in Nat /\ (j - 1) + m <= j + i
  OBVIOUS

(* The peek itself: it starts with a place that is within its capacity, and *)
(* what it takes from the place or puts back it holds, or no longer holds.  *)
LEMMA OwnRoom ==
  ASSUME RoomInv, NEW th \in Thread, PlaceStep(th), NoteSend(th), MutexInv'
  PROVE  RoomOK(th)'
<1> SUFFICES ASSUME call'[th].pc \in HeldSteps, th \notin added' PROVE RoomOK(th)'
  BY DEF RoomOK
<1> DEFINE p == call[th].place  b == call[th].buf
<1>1. /\ MutexInv /\ QuietInv /\ PlaceTypeOK /\ call[th] \in CallType /\ CallOK(call[th])
      /\ \A ok, x, s : Result(ok, x, s).pc = "done"
  BY DEF RoomInv, QuietInv, MutexInv, PlaceTypeOK, Result
<1>2. ASSUME NEW ok, NEW x, NEW s, Return(th, ok, x, s) PROVE FALSE
  <2>1. call'[th].pc = "done"
    BY <1>1, <1>2, SetSelf DEF Return
  <2> QED BY <2>1 DEF HeldSteps
<1>3. ASSUME NEW c, Set(th, c), c.pc \notin HeldSteps PROVE FALSE
  BY <1>1, <1>3, SetSelf
<1>4. ASSUME NEW st, Goto(th, st) PROVE call'[th].pc = st /\ call'[th].place = p /\ call'[th].buf = b
  BY <1>1, <1>4, SetSelf DEF Goto, CallType
<1>5. CASE PeekLock(th)
  <2>1. /\ call'[th].place = p /\ call'[th].buf = <<>> /\ tokens' = tokens /\ p \in Place
    BY <1>1, <1>4, <1>5 DEF PeekLock, CallOK, DrainSteps, Steps, LockSteps
  <2>2. Len(tokens[p]) <= Capacity[p] /\ Len(tokens[p]) \in Nat /\ Capacity[p] \in Nat
    BY <1>1, <2>1, PlaceAssumption DEF PlaceTypeOK
  <2> QED BY <2>1, <2>2 DEF RoomOK, Fits
<1>6. CASE PeekDrain(th) \/ PeekRefill(th)
  <2>1. call[th].pc \in HeldSteps
    BY <1>6 DEF PeekDrain, PeekRefill, HeldSteps
  <2>2. /\ p \in Place /\ peekMu[p] = th /\ b \in Seq(Token) /\ Capacity[p] \in Nat
        /\ tokens[p] \in Seq(Token) /\ tokens \in [Place -> Seq(Token)]
        /\ Len(tokens[p]) \in Nat /\ Len(b) \in Nat
    BY <1>1, <2>1, PeekingIs
  <2>7. PICK i \in Nat, j \in Nat : i = Len(tokens[p]) /\ j = Len(b)
    BY <2>2
  <2>3. ASSUME call'[th].place = p, NEW n \in Nat, NEW m \in Nat, Len(tokens'[p]) = m,
               Len(call'[th].buf) = n, n + m <= j + i
        PROVE  RoomOK(th)'
    <3>1. peekMu'[p] = th
      BY <2>2, <2>3 DEF MutexInv, PeekMutex, HeldSteps, DrainSteps
    <3>2. th \notin added
      BY <2>2, <3>1 DEF NoteSend
    <3>3. Fits(call[th], i)
      BY <2>1, <2>7, <3>2 DEF RoomInv, RoomOK
    <3>4. Fits(call'[th], m)
      BY <2>2, <2>3, <2>7, <3>3, FitsLess
    <3> QED BY <2>3, <3>4 DEF RoomOK
  <2>4. CASE Drain(th)
    <3> DEFINE c == [call[th] EXCEPT !.buf = Append(@, Head(tokens[p]))]
    <3>1. /\ Set(th, c) /\ c.place = p /\ c.buf = Append(b, Head(tokens[p]))
          /\ tokens[p] # <<>> /\ tokens' = [tokens EXCEPT ![p] = Tail(tokens[p])]
      BY <1>1, <2>4 DEF Drain, Receive, CallType
    <3> HIDE DEF c
    <3>2. call'[th] = c /\ tokens'[p] = Tail(tokens[p])
      BY <1>1, <2>2, <3>1, SetSelf
    <3>3. Len(c.buf) = j + 1 /\ Len(Tail(tokens[p])) = i - 1 /\ i # 0
      BY <2>2, <2>7, <3>1
    <3>4. j + 1 \in Nat /\ i - 1 \in Nat /\ (j + 1) + (i - 1) <= j + i
      <4>1. i # 0
        BY <3>3
      <4> QED BY <2>7, <4>1, OneMoved
    <3> QED BY <2>3, <3>1, <3>2, <3>3, <3>4
  <2>5. CASE /\ Set(th, [call[th] EXCEPT !.pc = "peek_refill", !.seen = b])
             /\ tokens' = tokens
    <3> DEFINE c == [call[th] EXCEPT !.pc = "peek_refill", !.seen = b]
    <3>1. Set(th, c) /\ c.place = p /\ c.buf = b
      BY <1>1, <2>5 DEF CallType
    <3> HIDE DEF c
    <3>2. call'[th] = c
      BY <1>1, <3>1, SetSelf
    <3>3. j + i <= j + i
      BY <2>7
    <3> QED BY <2>3, <2>5, <2>7, <3>1, <3>2, <3>3
  <2>6. CASE PeekRefill(th)
    <3>1. b # <<>>
      BY <1>1, <2>6 DEF PeekRefill, CallOK
    <3>2. Set(th, [call[th] EXCEPT !.buf = Tail(b)])
      BY <1>2, <2>6 DEF PeekRefill, Refilled
    <3> DEFINE c == [call[th] EXCEPT !.buf = Tail(b)]
    <3>3. Set(th, c) /\ c.place = p /\ c.buf = Tail(b)
      BY <1>1, <3>2 DEF CallType
    <3> HIDE DEF c
    <3>4. tokens' = tokens \/ tokens' = [tokens EXCEPT ![p] = Append(tokens[p], Head(b))]
      BY <2>6 DEF PeekRefill
    <3>5. Head(b) \in Token
      BY <2>2, <3>1
    <3>6. Len(tokens'[p]) = i \/ Len(tokens'[p]) = i + 1
      BY <2>2, <2>7, <3>4, <3>5
    <3>7. Len(Tail(b)) = j - 1 /\ j # 0 /\ call'[th] = c
      BY <1>1, <2>2, <2>7, <3>1, <3>3, SetSelf
    <3>8. PICK m \in Nat : m = Len(tokens'[p]) /\ (m = i \/ m = i + 1)
      BY <2>7, <3>6
    <3>9. j - 1 \in Nat /\ (j - 1) + m <= j + i
      <4>1. j # 0
        BY <3>7
      <4>2. m = i \/ m = i + 1
        BY <3>8
      <4> QED BY <2>7, <3>8, <4>1, <4>2, OneMoved
    <3> QED BY <2>3, <3>3, <3>7, <3>8, <3>9
  <2> QED BY <1>2, <1>6, <2>4, <2>5, <2>6 DEF PeekDrain
<1>7. CASE AddCheck(th) \/ AddSend(th) \/ AddCount(th) \/ RemoveCount(th) \/ ClearLock(th) \/ ClearLen(th)
  <2>1. \/ \E st \in {"add_send", "add_count", "clr_len", "clr_recv"} : Goto(th, st)
        \/ \E ok, x, s : Return(th, ok, x, s)
    BY <1>7 DEF AddCheck, AddSend, AddCount, RemoveCount, ClearLock, ClearLen
  <2> QED BY <1>2, <1>4, <2>1 DEF HeldSteps
<1>8. CASE RemoveReceive(th)
  <2>1. [call[th] EXCEPT !.pc = "rem_count", !.tok = Head(tokens[p])].pc \notin HeldSteps
    BY <1>1 DEF CallType, HeldSteps
  <2> QED BY <1>2, <1>3, <1>8, <2>1 DEF RemoveReceive
<1>9. CASE PwcLock(th)
  <2>1. [call[th] EXCEPT !.pc = "pwc_drain", !.avail = Len(tokens[p])].pc \notin HeldSteps
    BY <1>1 DEF CallType, HeldSteps
  <2> QED BY <1>2, <1>3, <1>9, <2>1 DEF PwcLock
<1>10. CASE PwcDrain(th)
  <2>1. [call[th] EXCEPT !.pc = "pwc_refill", !.seen = SubSeq(b, 1, call[th].need)].pc \notin HeldSteps
    BY <1>1 DEF CallType, HeldSteps
  <2>2. [call[th] EXCEPT !.buf = Append(b, Head(tokens[p]))].pc \notin HeldSteps
    BY <1>1, <1>10 DEF PwcDrain, CallType, HeldSteps
  <2>3. \/ \E ok, x, s : Return(th, ok, x, s)
        \/ Goto(th, "pwc_undo")
        \/ Set(th, [call[th] EXCEPT !.pc = "pwc_refill", !.seen = SubSeq(b, 1, call[th].need)])
        \/ Set(th, [call[th] EXCEPT !.buf = Append(b, Head(tokens[p]))])
    BY <1>1, <1>10 DEF PwcDrain, Drain, CallType
  <2>4. ~Goto(th, "pwc_undo")
    BY <1>4 DEF HeldSteps
  <2> QED BY <1>2, <1>3, <2>1, <2>2, <2>3, <2>4
<1>11. CASE PwcRefill(th)
  <2>1. [call[th] EXCEPT !.buf = Tail(b)].pc \notin HeldSteps
    BY <1>1, <1>11 DEF PwcRefill, CallType, HeldSteps
  <2> QED BY <1>2, <1>3, <1>11, <2>1 DEF PwcRefill, Refilled
<1>12. CASE ClearReceive(th)
  <2>1. [call[th] EXCEPT !.pc = "clr_len", !.buf = Append(b, Head(tokens[p]))].pc \notin HeldSteps
    BY <1>1 DEF CallType, HeldSteps
  <2> QED BY <1>3, <1>12, <2>1 DEF ClearReceive
<1> QED BY <1>5, <1>6, <1>7, <1>8, <1>9, <1>10, <1>11, <1>12 DEF PlaceStep

LEMMA BeginRoom ==
  ASSUME RoomInv, NEW th \in Thread, Begin(th), UNCHANGED added, NEW u \in Thread
  PROVE  RoomOK(u)'
<1>1. PICK step \in Steps \ DrainSteps :
        \E p, t, n : Set(th, Request(step, p, t, n))
  BY DEF Begin, CallAddToken, CallRemoveToken, CallPeekTokens,
         CallPeekTokensWithCount, CallClear, Steps, AddSteps, RemoveSteps,
         LockSteps, DrainSteps
<1>2. PlaceTypeOK /\ RoomOK(u) /\ tokens' = tokens
  BY DEF RoomInv, QuietInv, MutexInv, Begin
<1>3. CASE u = th
  <2>1. \A p, t, n : Request(step, p, t, n).pc = step
    BY DEF Request
  <2>2. call'[th].pc = step
    BY <1>1, <1>2, <2>1, SetSelf
  <2> QED BY <1>3, <2>2 DEF RoomOK, HeldSteps, DrainSteps
<1>4. CASE u # th
  <2>1. call'[u] = call[u]
    BY <1>1, <1>2, <1>4 DEF Set, PlaceTypeOK
  <2> QED BY <1>2, <2>1 DEF RoomOK
<1> QED BY <1>3, <1>4

LEMMA RoomStep == ASSUME RoomInv, [Next]_vars PROVE RoomInv'
<1>1. QuietInv' /\ PeekMutex' /\ MutexInv'
  BY NextMoves, QuietStep DEF RoomInv, QuietInv, MutexInv
<1>2. CASE UNCHANGED vars
  BY <1>1, <1>2 DEF vars, placeVars, RoomInv, RoomOK
<1>3. ASSUME NEW th \in Thread, PlaceStep(th), NoteSend(th), NEW u \in Thread PROVE RoomOK(u)'
  BY <1>1, <1>3, OthersRoom, OwnRoom
<1>4. ASSUME NEW th \in Thread, Begin(th), UNCHANGED added, NEW u \in Thread PROVE RoomOK(u)'
  BY <1>4, BeginRoom
<1> QED BY <1>1, <1>2, <1>3, <1>4 DEF Next, RoomInv

(* A put-back that finds its place full is that of a peek for which there   *)
(* is no longer room.                                                       *)
LEMMA LossStep ==
  ASSUME RoomInv, [Next]_vars, lost' # lost
  PROVE  \E th \in added :
           LET p == call[th].place IN
           /\ call[th].pc = "peek_refill" /\ peekMu[p] = th
           /\ lost' = lost \cup {Head(call[th].buf)} /\ tokens'[p] = tokens[p]
           /\ call'[th] # call[th]
<1>1. PICK th \in Thread : Begin(th) \/ PlaceStep(th)
  BY DEF Next, vars, placeVars
<1>2. PeekRefill(th)
  BY <1>1 DEF Begin, history, PlaceStep, AddCheck, AddSend, AddCount,
              RemoveReceive, RemoveCount, PeekLock, PeekDrain, Drain, PwcLock,
              PwcDrain, PwcRefill, ClearLock, ClearLen, ClearReceive
<1> DEFINE p == call[th].place  b == call[th].buf
<1>3. /\ call[th].pc = "peek_refill" /\ Full(p)
      /\ lost' = lost \cup {Head(b)} /\ tokens' = tokens
  BY <1>2 DEF PeekRefill
<1>4. /\ QuietInv /\ peekMu[p] = th /\ b \in Seq(Token) /\ b # <<>> /\ Capacity[p] \in Nat
      /\ Len(tokens[p]) \in Nat /\ Len(b) \in Nat /\ PlaceTypeOK /\ call[th] \in CallType
  BY <1>3, PeekingIs DEF RoomInv, QuietInv, MutexInv, PlaceTypeOK, CallOK, HeldSteps
<1>5. th \in added
  <2>1. ~Fits(call[th], Len(tokens[p]))
    <3>1. PICK n \in Nat, k \in Nat : n = Len(tokens[p]) /\ k = Len(b)
      BY <1>4
    <3>2. k # 0 /\ n >= Capacity[p]
      BY <1>3, <1>4, <3>1 DEF Full
    <3>3. ~(k + n <= Capacity[p])
      BY <1>4, <3>2
    <3> QED BY <3>1, <3>3 DEF Fits
  <2> QED BY <1>3, <2>1 DEF RoomInv, RoomOK, HeldSteps
<1>6. call'[th] # call[th]
  <2>1. CASE Set(th, [call[th] EXCEPT !.buf = Tail(b)])
    <3>1. call'[th].buf = Tail(b)
      BY <1>4, <2>1, SetSelf DEF CallType
    <3>2. PICK k \in Nat : k = Len(b)
      BY <1>4
    <3>3. Len(Tail(b)) = k - 1 /\ k - 1 # k
      BY <1>4, <3>2
    <3>4. Tail(b) # b
      BY <3>2, <3>3
    <3> QED BY <3>1, <3>4
  <2>2. CASE Return(th, TRUE, None, call[th].seen)
    <3>1. call'[th].pc = "done"
      BY <1>4, <2>2, SetSelf DEF Return, Result
    <3> QED BY <1>3, <3>1
  <2> QED BY <1>2, <2>1, <2>2 DEF PeekRefill, Refilled
<1> QED BY <1>3, <1>4, <1>5, <1>6

(* The token that is lost is the one that a PeekTokens puts back, into the  *)
(* place whose peek mutex it holds, and an AddToken of another goroutine    *)
(* has sent to that very place since it locked it.                          *)
THEOREM LossOnlyInARace == Spec => LossNeedsARace
<1>1. RoomInv /\ [Next]_vars
        => [lost' # lost =>
              \E th \in added :
                LET p == call[th].place IN
                /\ call[th].pc = "peek_refill" /\ peekMu[p] = th
                /\ lost' = lost \cup {Head(call[th].buf)} /\ tokens'[p] = tokens[p]
                /\ call'[th] # call[th]]_vars
  BY LossStep
<1>2. Init => RoomInv
  <2> SUFFICES ASSUME Init PROVE RoomInv
    OBVIOUS
  <2>1. \A th \in Thread : call[th].pc = "idle"
    BY DEF Init, PlaceInit, NoCall, Request
  <2> QED BY <2>1, InitQuiet DEF RoomInv, RoomOK, HeldSteps
<1>3. RoomInv /\ [Next]_vars => RoomInv'
  BY RoomStep
<1> QED BY <1>1, <1>2, <1>3, PTL DEF Spec, LossNeedsARace

(* What the last step of an undisturbed peek leaves and returns.            *)
Harmless(th) ==
  LET p == call[th].place
      n == IF call[th].pc \in {"peek_drain", "peek_refill"}
           THEN Len(before[th]) ELSE call[th].need IN
  /\ call'[th].ok
  /\ tokens'[p] = before[th]
  /\ call'[th].seen = SubSeq(before[th], 1, n)

(* The last round of a put-back loop.                                       *)
LEMMA LastRefill ==
  ASSUME QuietInv, NEW th \in Thread, th \notin disturbed,
         call[th].pc \in {"peek_refill", "pwc_refill"},
         Refilled(th, TRUE), call'[th].pc = "done",
         tokens' = [tokens EXCEPT ![call[th].place] =
                      Append(@, Head(call[th].buf))]
  PROVE  Harmless(th)
<1> DEFINE p == call[th].place  q == tokens[p]  b == call[th].buf
<1>1. /\ PlaceTypeOK /\ call[th] \in CallType
      /\ q \in Seq(Token) /\ b \in Seq(Token) /\ b # <<>> /\ p \in Place
      /\ before[th] \in Seq(Token)
  BY DEF QuietInv, MutexInv, PlaceTypeOK, CallType, CallOK, Steps, DrainSteps
<1>2. Quiet(call[th], before[th], q)
  BY DEF QuietInv, QuietOK
<1>3. Tail(b) = <<>> /\ Return(th, TRUE, None, call[th].seen)
  <2>1. ASSUME Set(th, [call[th] EXCEPT !.buf = Tail(b)]) PROVE FALSE
    <3> DEFINE c == [call[th] EXCEPT !.buf = Tail(b)]
    <3>1. Set(th, c) /\ c.pc = call[th].pc
      BY <1>1, <2>1 DEF CallType
    <3> HIDE DEF c
    <3> QED BY <1>1, <3>1, SetSelf
  <2> QED BY <2>1 DEF Refilled
<1>4. call'[th].ok = TRUE /\ call'[th].seen = call[th].seen
  BY <1>1, <1>3, SetSelf DEF Return, Result
<1>5. tokens'[p] = before[th]
  <2>1. Append(q, Head(b)) \o Tail(b) = q \o b
    BY <1>1, MoveHead
  <2>2. Append(q, Head(b)) \in Seq(Token)
    BY <1>1, HeadTailProperties, AppendProperties
  <2>3. Append(q, Head(b)) \o <<>> = Append(q, Head(b))
    BY <2>2, ConcatEmptySeq
  <2>4. tokens'[p] = Append(q, Head(b))
    BY <1>1 DEF PlaceTypeOK
  <2> QED BY <1>2, <1>3, <2>1, <2>3, <2>4 DEF Quiet
<1>6. call[th].seen = SubSeq(before[th], 1,
                             IF call[th].pc \in {"peek_drain", "peek_refill"}
                             THEN Len(before[th]) ELSE call[th].need)
  BY <1>1, <1>2, SubSeqFull DEF Quiet
<1> QED BY <1>4, <1>5, <1>6 DEF Harmless

LEMMA FinishStep ==
  ASSUME QuietInv, NEW th \in Thread, PlaceStep(th), FinishesPeek(th),
         th \notin disturbed
  PROVE  Harmless(th)
<1> DEFINE p == call[th].place  q == tokens[p]
<1>1. /\ MutexInv /\ PlaceTypeOK /\ call[th] \in CallType
      /\ q \in Seq(Token) /\ p \in Place /\ before[th] \in Seq(Token)
      /\ QuietOK(th) /\ Quiet(call[th], before[th], q)
  BY DEF QuietInv, MutexInv, PlaceTypeOK, QuietOK, CallOK, Steps, DrainSteps,
         FinishesPeek
<1>2. CASE PeekDrain(th)
  <2>1. ASSUME Drain(th) PROVE FALSE
    <3> DEFINE c == [call[th] EXCEPT !.buf = Append(@, Head(q))]
    <3>1. Set(th, c) /\ c.pc = call[th].pc
      BY <1>1, <2>1 DEF CallType, Drain
    <3> HIDE DEF c
    <3> QED BY <1>1, <1>2, <3>1, SetSelf DEF FinishesPeek, PeekDrain
  <2>2. ASSUME Set(th, [call[th] EXCEPT !.pc = "peek_refill", !.seen = call[th].buf])
        PROVE  FALSE
    <3> DEFINE c == [call[th] EXCEPT !.pc = "peek_refill", !.seen = call[th].buf]
    <3>1. Set(th, c) /\ c.pc = "peek_refill"
      BY <1>1, <2>2 DEF CallType
    <3> HIDE DEF c
    <3> QED BY <1>1, <3>1, SetSelf DEF FinishesPeek
  <2>3. /\ call[th].pc = "peek_drain" /\ call[th].buf = <<>> /\ q = <<>>
        /\ Return(th, TRUE, None, <<>>) /\ tokens' = tokens
    BY <1>2, <2>1, <2>2 DEF PeekDrain
  <2>4. call'[th].ok = TRUE /\ call'[th].seen = <<>>
    BY <1>1, <2>3, SetSelf DEF Return, Result
  <2>5. <<>> \o <<>> = <<>>
    BY <1>1, <2>3, ConcatEmptySeq
  <2>6. before[th] = <<>>
    BY <1>1, <2>3, <2>5 DEF Quiet
  <2>7. SubSeq(before[th], 1, Len(before[th])) = <<>>
    BY <1>1, <2>6, SubSeqFull
  <2> QED BY <2>3, <2>4, <2>6, <2>7 DEF Harmless
<1>3. CASE PeekRefill(th)
  <2>1. call[th].pc = "peek_refill"
    BY <1>3 DEF PeekRefill
  <2>2. ~Full(p)
    BY <1>1, <2>1, RoomForQuiet
  <2> QED BY <1>3, <2>1, <2>2, LastRefill DEF PeekRefill, FinishesPeek
<1>4. CASE PwcRefill(th)
  <2>1. call[th].pc = "pwc_refill"
    BY <1>1, <1>4 DEF PwcRefill, Quiet
  <2> QED BY <1>4, <2>1, LastRefill DEF PwcRefill, FinishesPeek
<1>5. CASE PwcDrain(th)
  <2>0. call[th].pc = "pwc_drain"
    BY <1>5 DEF PwcDrain
  <2>1. ASSUME NEW c, Set(th, c), c.pc # "done" PROVE FALSE
    BY <1>1, <2>1, SetSelf DEF FinishesPeek
  <2>2. ~Drain(th)
    <3> DEFINE c == [call[th] EXCEPT !.buf = Append(@, Head(q))]
    <3>1. Drain(th) => Set(th, c) /\ c.pc = call[th].pc
      BY <1>1 DEF CallType, Drain
    <3> HIDE DEF c
    <3> QED BY <2>0, <2>1, <3>1
  <2>3. ~Goto(th, "pwc_undo")
    <3> DEFINE c == [call[th] EXCEPT !.pc = "pwc_undo"]
    <3>1. Goto(th, "pwc_undo") => Set(th, c) /\ c.pc = "pwc_undo"
      BY <1>1 DEF CallType, Goto
    <3> HIDE DEF c
    <3> QED BY <2>1, <3>1
  <2>4. ASSUME NEW s, Set(th, [call[th] EXCEPT !.pc = "pwc_refill", !.seen = s])
        PROVE  FALSE
    <3> DEFINE c == [call[th] EXCEPT !.pc = "pwc_refill", !.seen = s]
    <3>1. Set(th, c) /\ c.pc = "pwc_refill"
      BY <1>1, <2>4 DEF CallType
    <3> HIDE DEF c
    <3> QED BY <2>1, <3>1
  <2>5. q = <<>> /\ call[th].buf = <<>> /\ Len(call[th].buf) < call[th].avail
    BY <1>5, <2>2, <2>3, <2>4 DEF PwcDrain
  <2>6. <<>> \o <<>> = <<>> /\ Len(<<>>) = 0
    BY <1>1, <2>5, ConcatEmptySeq, EmptySeq
  <2>7. call[th].avail = 0
    BY <1>1, <2>0, <2>5, <2>6 DEF Quiet
  <2> QED BY <2>5, <2>6, <2>7
<1>6. PeekDrain(th) \/ PeekRefill(th) \/ PwcRefill(th) \/ PwcDrain(th)
  BY DEF PlaceStep, FinishesPeek, AddCheck, AddSend, AddCount, RemoveReceive,
         RemoveCount, PeekLock, PwcLock, ClearLock, ClearLen, ClearReceive
<1> QED BY <1>2, <1>3, <1>4, <1>5, <1>6

(* A peek that no other channel operation of its place overlaps leaves the  *)
(* channel as it was, in its order, and returns its prefix.                 *)
THEOREM QuietPeeksAreHarmless == Spec => QuietPeekIsNonDestructive
<1>1. ASSUME QuietInv, [Moves]_placeVars, NEW th \in Thread, FinishesPeek(th),
             th \notin disturbed
      PROVE  Harmless(th)
  <2>1. MutexInv /\ PlaceTypeOK
    BY <1>1 DEF QuietInv, MutexInv
  <2>2. call'[th] # call[th]
    BY <1>1 DEF FinishesPeek
  <2>3. PICK u \in Thread : Begin(u) \/ PlaceStep(u)
    BY <1>1, <2>2 DEF Moves, placeVars
  <2>4. CASE PlaceStep(u)
    <3>1. u = th
      BY <2>1, <2>2, <2>4, Others
    <3> QED BY <1>1, <2>4, <3>1, FinishStep
  <2>5. CASE Begin(u)
    <3>1. PICK c : Set(u, c)
      BY <2>5 DEF Begin, CallAddToken, CallRemoveToken, CallPeekTokens,
                  CallPeekTokensWithCount, CallClear
    <3>2. u = th
      BY <2>1, <2>2, <3>1 DEF Set, PlaceTypeOK
    <3> QED BY <1>1, <2>5, <3>2 DEF Begin, Free, FinishesPeek
  <2> QED BY <2>3, <2>4, <2>5
<1>2. QuietInv /\ [Moves]_placeVars
        => [\A th \in Thread : FinishesPeek(th) /\ th \notin disturbed =>
              LET p == call[th].place
                  n == IF call[th].pc \in {"peek_drain", "peek_refill"}
                       THEN Len(before[th]) ELSE call[th].need IN
              /\ call'[th].ok
              /\ tokens'[p] = before[th]
              /\ call'[th].seen = SubSeq(before[th], 1, n)]_placeVars
  BY <1>1 DEF Harmless
<1> QED BY <1>2, QuietAlways, NextMoves, PTL DEF Spec, QuietPeekIsNonDestructive

-----------------------------------------------------------------------------
(* No token is in two places.  What the net holds is a family of sequences: *)
(* the channel of each place and, for each thread, the token it carries or  *)
(* the buffer it drained a channel into.  A step moves the head of one of   *)
(* them to the end of another, shortens one, or adds a token from outside.  *)
Owner == Place \cup Thread

HandOf(c) ==
  IF c.pc \in {"add_check", "add_send", "rem_count"} THEN <<c.tok>> ELSE c.buf

Held == [x \in Owner |-> IF x \in Place THEN tokens[x] ELSE HandOf(call[x])]

Apart(f) ==
  \A x, y \in Owner :
    \A i \in 1 .. Len(f[x]), j \in 1 .. Len(f[y]) :
      f[x][i] = f[y][j] => x = y /\ i = j

ApartInv == TypeOK /\ Apart(Held)

LEMMA ApartAt ==
  ASSUME NEW f, Apart(f), NEW x \in Owner, NEW y \in Owner,
         NEW i \in 1 .. Len(f[x]), NEW j \in 1 .. Len(f[y]), f[x][i] = f[y][j]
  PROVE  x = y /\ i = j
  BY DEF Apart

(* Each sequence of g is what is left of that of f without its first        *)
(* d[x] tokens, or less.                                                    *)
Tails(g, f, d) ==
  /\ d \in [Owner -> Nat]
  /\ \A x \in Owner : \A i \in 1 .. Len(g[x]) :
       i + d[x] \in 1 .. Len(f[x]) /\ g[x][i] = f[x][i + d[x]]

LEMMA ApartShrink ==
  ASSUME NEW f, Apart(f), NEW g, NEW d, Tails(g, f, d)
  PROVE  Apart(g)
<1> SUFFICES ASSUME NEW x \in Owner, NEW y \in Owner,
                    NEW i \in 1 .. Len(g[x]), NEW j \in 1 .. Len(g[y]),
                    g[x][i] = g[y][j]
             PROVE  x = y /\ i = j
  BY DEF Apart
<1>1. PICK k \in 1 .. Len(f[x]) : k = i + d[x] /\ g[x][i] = f[x][k]
  BY DEF Tails
<1>2. PICK l \in 1 .. Len(f[y]) : l = j + d[y] /\ g[y][j] = f[y][l]
  BY DEF Tails
<1>5. f[x][k] = f[y][l]
  BY <1>1, <1>2
<1>3. x = y /\ k = l
  <2>1. Apart(f) /\ x \in Owner /\ y \in Owner
    OBVIOUS
  <2>2. k \in 1 .. Len(f[x]) /\ l \in 1 .. Len(f[y])
    OBVIOUS
  <2> QED BY ONLY <2>1, <2>2, <1>5, Zenon DEF Apart
<1>4. /\ i \in Int /\ j \in Int /\ d[x] \in Nat
      /\ i + d[x] = j + d[x]
  BY <1>1, <1>2, <1>3 DEF Tails
<1> QED BY <1>3, <1>4

(* The head of f[x] goes to the end of f[y].                                *)
LEMMA ApartMove ==
  ASSUME NEW f \in [Owner -> Seq(Token)], NEW g, Apart(f),
         NEW x \in Owner, NEW y \in Owner, x # y, f[x] # <<>>,
         g[x] = Tail(f[x]), g[y] = Append(f[y], Head(f[x])),
         \A z \in Owner : z # x /\ z # y => g[z] = f[z]
  PROVE  Apart(g)
<1>1. /\ f[x] \in Seq(Token) /\ f[y] \in Seq(Token)
      /\ Len(f[x]) \in Nat \ {0} /\ Len(f[y]) \in Nat
  BY EmptySeq
<1>2. /\ Len(g[x]) = Len(f[x]) - 1
      /\ \A i \in 1 .. Len(g[x]) : g[x][i] = f[x][i + 1]
  BY <1>1, HeadTailProperties
<1>3. /\ Len(g[y]) = Len(f[y]) + 1
      /\ \A i \in 1 .. Len(f[y]) : g[y][i] = f[y][i]
      /\ g[y][Len(f[y]) + 1] = f[x][1]
  <2>1. Head(f[x]) \in Token /\ Head(f[x]) = f[x][1]
    BY <1>1, HeadTailProperties
  <2> QED BY <1>1, <2>1, AppendProperties
(* Where the token at i of g[z] comes from.                                 *)
<1> DEFINE own == [z \in Owner |-> [i \in Nat |->
                     IF z = y /\ i = Len(f[y]) + 1 THEN x ELSE z]]
           pos == [z \in Owner |-> [i \in Nat |->
                     IF z = y /\ i = Len(f[y]) + 1 THEN 1
                     ELSE IF z = x THEN i + 1 ELSE i]]
<1>6. ASSUME NEW z \in Owner, NEW i \in Nat
      PROVE  /\ own[z][i] = IF z = y /\ i = Len(f[y]) + 1 THEN x ELSE z
             /\ pos[z][i] = IF z = y /\ i = Len(f[y]) + 1 THEN 1
                            ELSE IF z = x THEN i + 1 ELSE i
  OBVIOUS
<1> HIDE DEF own, pos
<1>7. \A z \in Owner : Len(g[z]) \in Nat
  BY <1>1, <1>2, <1>3
<1>4. ASSUME NEW z \in Owner, NEW i \in 1 .. Len(g[z])
      PROVE  /\ own[z][i] \in Owner
             /\ pos[z][i] \in 1 .. Len(f[own[z][i]])
             /\ g[z][i] = f[own[z][i]][pos[z][i]]
  <2>1. i \in Nat /\ i >= 1 /\ i <= Len(g[z])
    BY <1>7
  <2>2. CASE z = x
    <3>1. own[z][i] = x /\ pos[z][i] = i + 1
      BY <1>6, <2>1, <2>2
    <3>2. i \in 1 .. Len(g[x]) /\ i + 1 \in 1 .. Len(f[x])
      BY <1>1, <1>2, <2>1, <2>2
    <3>3. g[x][i] = f[x][i + 1]
      BY <1>2, <3>2
    <3> QED BY <2>2, <3>1, <3>2, <3>3
  <2>3. CASE z = y /\ i = Len(f[y]) + 1
    <3>1. own[z][i] = x /\ pos[z][i] = 1
      BY <1>6, <2>1, <2>3
    <3> QED BY <1>1, <1>3, <2>1, <2>3, <3>1
  <2>4. CASE z = y /\ i # Len(f[y]) + 1
    <3>1. i \in 1 .. Len(f[y])
      BY <1>1, <1>3, <2>1, <2>4
    <3>2. own[z][i] = y /\ pos[z][i] = i
      BY ZenonT(30), <1>6, <2>1, <2>4
    <3> QED BY <1>3, <2>1, <2>4, <3>1, <3>2
  <2>5. CASE z # x /\ z # y
    <3>1. own[z][i] = z /\ pos[z][i] = i
      BY <1>6, <2>1, <2>5
    <3> QED BY <2>1, <2>5, <3>1
  <2> QED BY <2>2, <2>3, <2>4, <2>5
<1>5. ASSUME NEW z \in Owner, NEW i \in 1 .. Len(g[z]),
             NEW w \in Owner, NEW j \in 1 .. Len(g[w]), g[z][i] = g[w][j]
      PROVE  z = w /\ i = j
  <2>1. i \in Nat /\ i >= 1 /\ j \in Nat /\ j >= 1
    BY <1>7
  <2>2. PICK a \in Owner, k \in Int :
          /\ k \in 1 .. Len(f[a])
          /\ a = own[z][i] /\ k = pos[z][i] /\ g[z][i] = f[a][k]
    <3>1. /\ own[z][i] \in Owner
          /\ pos[z][i] \in 1 .. Len(f[own[z][i]])
          /\ g[z][i] = f[own[z][i]][pos[z][i]]
      BY <1>4
    <3>2. Len(f[own[z][i]]) \in Nat
      BY <3>1, LenProperties
    <3>3. pos[z][i] \in Int
      BY <3>1, <3>2
    <3> QED BY <3>1, <3>3
  <2>3. PICK b \in Owner, l \in Int :
          /\ l \in 1 .. Len(f[b])
          /\ b = own[w][j] /\ l = pos[w][j] /\ g[w][j] = f[b][l]
    <3>1. /\ own[w][j] \in Owner
          /\ pos[w][j] \in 1 .. Len(f[own[w][j]])
          /\ g[w][j] = f[own[w][j]][pos[w][j]]
      BY <1>4
    <3>2. Len(f[own[w][j]]) \in Nat
      BY <3>1, LenProperties
    <3>3. pos[w][j] \in Int
      BY <3>1, <3>2
    <3> QED BY <3>1, <3>3
  <2>7. f[a][k] = f[b][l]
    BY <1>5, <2>2, <2>3
  <2>4. a = b /\ k = l
    <3>1. k \in 1 .. Len(f[a]) /\ l \in 1 .. Len(f[b])
      BY <2>2, <2>3
    <3> QED BY ONLY Apart(f), a \in Owner, b \in Owner, <2>7, <3>1, ApartAt
  <2>5. own[z][i] = own[w][j] /\ pos[z][i] = pos[w][j]
    BY <2>2, <2>3, <2>4
  <2>6. /\ own[z][i] = IF z = y /\ i = Len(f[y]) + 1 THEN x ELSE z
        /\ pos[z][i] = IF z = y /\ i = Len(f[y]) + 1 THEN 1
                       ELSE IF z = x THEN i + 1 ELSE i
        /\ own[w][j] = IF w = y /\ j = Len(f[y]) + 1 THEN x ELSE w
        /\ pos[w][j] = IF w = y /\ j = Len(f[y]) + 1 THEN 1
                       ELSE IF w = x THEN j + 1 ELSE j
    BY <1>6, <2>1
  <2>8. CASE z = y /\ i = Len(f[y]) + 1
    <3>1. own[w][j] = x /\ pos[w][j] = 1
      BY <2>5, <2>6, <2>8
    <3>2. w = y /\ j = Len(f[y]) + 1
      BY <2>1, <2>6, <3>1
    <3> QED BY <2>8, <3>2
  <2>9. CASE ~(z = y /\ i = Len(f[y]) + 1)
    <3>1. own[z][i] = z /\ pos[z][i] = IF z = x THEN i + 1 ELSE i
      BY <2>6, <2>9
    <3>2. ~(w = y /\ j = Len(f[y]) + 1)
      <4>1. ASSUME w = y, j = Len(f[y]) + 1 PROVE FALSE
        <5>1. own[w][j] = x /\ pos[w][j] = 1
          BY <2>6, <4>1
        <5>2. i + 1 = 1
          BY <2>5, <3>1, <5>1
        <5> QED BY <2>1, <5>2
      <4> QED BY <4>1
    <3>3. own[w][j] = w /\ pos[w][j] = IF w = x THEN j + 1 ELSE j
      BY <2>6, <3>2
    <3>4. w = z
      BY <2>5, <3>1, <3>3
    <3>5. IF z = x THEN i + 1 = j + 1 ELSE i = j
      BY <2>5, <3>1, <3>3, <3>4
    <3>6. i = j
      BY <2>1, <3>5
    <3> QED BY <3>4, <3>6
  <2> QED BY <2>8, <2>9
<1> QED BY <1>5 DEF Apart

(* A token that no one has joins f[x], which is empty.                      *)
LEMMA ApartFresh ==
  ASSUME NEW f, NEW g, Apart(f), NEW x \in Owner, NEW t, g[x] = <<t>>,
         \A z \in Owner : z # x => g[z] = f[z],
         \A z \in Owner : \A i \in 1 .. Len(f[z]) : f[z][i] # t
  PROVE  Apart(g)
<1>1. \A k \in 1 .. Len(g[x]) : k = 1 /\ g[x][k] = t
  OBVIOUS
<1>2. ASSUME NEW z \in Owner, NEW i \in 1 .. Len(g[z]),
             NEW w \in Owner, NEW j \in 1 .. Len(g[w]), g[z][i] = g[w][j]
      PROVE  z = w /\ i = j
  <2>1. CASE z = x /\ w = x
    BY <1>1, <2>1
  <2>2. CASE z = x /\ w # x
    BY <1>1, <1>2, <2>2
  <2>3. CASE z # x /\ w = x
    BY <1>1, <1>2, <2>3
  <2>4. CASE z # x /\ w # x
    <3>1. g[z] = f[z] /\ g[w] = f[w]
      BY <2>4
    <3>2. /\ z \in Owner /\ w \in Owner /\ f[z][i] = f[w][j]
          /\ i \in 1 .. Len(f[z]) /\ j \in 1 .. Len(f[w])
      BY <1>2, <3>1
    <3> QED BY ONLY Apart(f), <3>2, ApartAt
  <2> QED BY <2>1, <2>2, <2>3, <2>4
<1> QED BY ONLY <1>2 DEF Apart

LEMMA HeldType == ASSUME TypeOK PROVE Held \in [Owner -> Seq(Token)]
<1>1. ASSUME NEW th \in Thread PROVE HandOf(call[th]) \in Seq(Token)
  BY DEF TypeOK, PlaceTypeOK, CallType, CallOK, HandOf, AddSteps
<1>2. \A p \in Place : tokens[p] \in Seq(Token)
  BY DEF TypeOK, PlaceTypeOK
<1> QED BY <1>1, <1>2 DEF Held, Owner

(* The slots are the positions of this family, except that the token that a *)
(* thread carries has index 0.                                              *)
Carriers == Adding \cup Removing

LEMMA OwnersApart ==
  /\ \A x \in Owner : x \in Thread <=> x \notin Place
  /\ Carriers \subseteq Thread
  BY PlaceAssumption DEF Owner, Carriers, Adding, Removing

LEMMA HandFacts ==
  ASSUME TypeOK, NEW th \in Thread
  PROVE  /\ Held[th] = HandOf(call[th]) /\ th \in Owner
         /\ th \in Carriers => /\ HandOf(call[th]) = <<call[th].tok>>
                               /\ call[th].buf = <<>>
         /\ th \notin Carriers => HandOf(call[th]) = call[th].buf
<1>1. th \notin Place
  BY PlaceAssumption
<1>2. th \in Carriers <=> call[th].pc \in {"add_check", "add_send", "rem_count"}
  BY DEF Carriers, Adding, Removing
<1>3. th \in Carriers => call[th].buf = <<>>
  BY <1>2 DEF TypeOK, PlaceTypeOK, CallOK, DrainSteps
<1> QED BY <1>1, <1>2, <1>3 DEF Held, Owner, HandOf

LEMMA PlaceFacts ==
  ASSUME NEW p \in Place
  PROVE  Held[p] = tokens[p] /\ p \in Owner /\ p \notin Carriers
  BY OwnersApart DEF Held, Owner

(* Each slot is a position, and each position a slot.                       *)
LEMMA SlotToPosition ==
  ASSUME TypeOK, NEW s \in Slots
  PROVE  \E x \in Owner : \E i \in 1 .. Len(Held[x]) :
           /\ TokenAt(s) = Held[x][i]
           /\ s = <<x, IF x \in Carriers THEN 0 ELSE i>>
<1>1. CASE s \in QueueSlots
  <2>1. PICK p \in Place : \E i \in 1 .. Len(tokens[p]) : s = <<p, i>>
    BY <1>1 DEF QueueSlots
  <2>2. PICK i \in 1 .. Len(tokens[p]) : s = <<p, i>>
    BY <2>1
  <2>3. TokenAt(s) = tokens[p][i]
    BY <2>2 DEF TokenAt
  <2> QED BY <2>2, <2>3, PlaceFacts
<1>2. CASE s \in BufferSlots
  <2>1. PICK th \in Thread : \E i \in 1 .. Len(call[th].buf) : s = <<th, i>>
    BY <1>2 DEF BufferSlots
  <2>2. PICK i \in 1 .. Len(call[th].buf) : s = <<th, i>>
    BY <2>1
  <2>3. th \notin Carriers
    BY <2>2, HandFacts, EmptySeq
  <2>4. th \notin Place /\ i # 0
    BY PlaceAssumption
  <2>5. TokenAt(s) = call[th].buf[i]
    BY <2>2, <2>4 DEF TokenAt
  <2> QED BY <2>2, <2>3, <2>5, HandFacts
<1>3. CASE s \in Carriers \X {0}
  <2>1. PICK th \in Carriers : s = <<th, 0>>
    BY <1>3
  <2>2. th \in Thread /\ th \notin Place
    BY PlaceAssumption, OwnersApart
  <2>3. TokenAt(s) = call[th].tok
    BY <2>1, <2>2 DEF TokenAt
  <2>4. Held[th] = <<call[th].tok>> /\ th \in Owner
    BY <2>2, HandFacts
  <2>5. 1 \in 1 .. Len(Held[th]) /\ Held[th][1] = call[th].tok
    BY <2>4
  <2> QED BY <2>1, <2>3, <2>4, <2>5
<1> QED BY <1>1, <1>2, <1>3 DEF Slots, Carriers

LEMMA PositionToSlot ==
  ASSUME TypeOK, NEW x \in Owner, NEW i \in 1 .. Len(Held[x])
  PROVE  \E s \in Slots : TokenAt(s) = Held[x][i]
<1>1. CASE x \in Place
  <2>1. Held[x] = tokens[x]
    BY <1>1, PlaceFacts
  <2>2. <<x, i>> \in QueueSlots
    BY <1>1, <2>1 DEF QueueSlots
  <2>3. TokenAt(<<x, i>>) = tokens[x][i]
    BY <1>1 DEF TokenAt
  <2> QED BY <2>1, <2>2, <2>3 DEF Slots
<1>2. CASE x \in Carriers
  <2>1. x \in Thread /\ x \notin Place
    BY <1>2, PlaceAssumption, OwnersApart
  <2>2. Held[x] = <<call[x].tok>>
    BY <1>2, <2>1, HandFacts
  <2>3. i = 1 /\ Held[x][i] = call[x].tok
    BY <2>2
  <2>4. <<x, 0>> \in Slots
    BY <1>2 DEF Slots, Carriers
  <2>5. TokenAt(<<x, 0>>) = call[x].tok
    BY <2>1 DEF TokenAt
  <2> QED BY <2>3, <2>4, <2>5
<1>3. CASE x \in Thread /\ x \notin Carriers
  <2>1. Held[x] = call[x].buf /\ x \notin Place /\ i # 0
    BY <1>3, HandFacts, PlaceAssumption
  <2>2. <<x, i>> \in BufferSlots
    BY <1>3, <2>1 DEF BufferSlots
  <2>3. TokenAt(<<x, i>>) = call[x].buf[i]
    BY <2>1 DEF TokenAt
  <2> QED BY <2>1, <2>2, <2>3 DEF Slots
<1> QED BY <1>1, <1>2, <1>3 DEF Owner

LEMMA ApartSlots == ASSUME ApartInv PROVE NoDuplication
<1> SUFFICES ASSUME NEW s1 \in Slots, NEW s2 \in Slots, TokenAt(s1) = TokenAt(s2)
             PROVE  s1 = s2
  BY DEF NoDuplication
<1>0. TypeOK /\ Apart(Held)
  BY DEF ApartInv
<1>1. PICK x \in Owner : \E i \in 1 .. Len(Held[x]) :
        TokenAt(s1) = Held[x][i] /\ s1 = <<x, IF x \in Carriers THEN 0 ELSE i>>
  BY <1>0, SlotToPosition
<1>2. PICK i \in 1 .. Len(Held[x]) :
        TokenAt(s1) = Held[x][i] /\ s1 = <<x, IF x \in Carriers THEN 0 ELSE i>>
  BY <1>1
<1>3. PICK y \in Owner : \E j \in 1 .. Len(Held[y]) :
        TokenAt(s2) = Held[y][j] /\ s2 = <<y, IF y \in Carriers THEN 0 ELSE j>>
  BY <1>0, SlotToPosition
<1>4. PICK j \in 1 .. Len(Held[y]) :
        TokenAt(s2) = Held[y][j] /\ s2 = <<y, IF y \in Carriers THEN 0 ELSE j>>
  BY <1>3
<1>5. Held[x][i] = Held[y][j]
  BY <1>2, <1>4
<1>6. x = y /\ i = j
  BY <1>0, <1>5, ApartAt
<1> QED BY <1>2, <1>4, <1>6

(* What a step that gives th the record c changes.                          *)
LEMMA SetHeld ==
  ASSUME TypeOK, NEW th \in Thread, NEW c, Set(th, c)
  PROVE  /\ Held'[th] = HandOf(c)
         /\ \A u \in Thread : u # th => Held'[u] = Held[u]
         /\ \A p \in Place : Held'[p] = tokens'[p]
<1>1. \A u \in Thread : call'[u] = IF u = th THEN c ELSE call[u]
  BY DEF TypeOK, PlaceTypeOK, Set
<1>2. \A x \in Owner :
        Held'[x] = IF x \in Place THEN tokens'[x] ELSE HandOf(call'[x])
  BY DEF Held, HandOf
<1>3. \A u \in Thread : u \in Owner /\ u \notin Place
  BY PlaceAssumption DEF Owner
<1>4. \A x \in Owner : Held[x] = IF x \in Place THEN tokens[x] ELSE HandOf(call[x])
  BY DEF Held
<1> QED BY <1>1, <1>2, <1>3, <1>4 DEF Owner

(* The hand of th gets shorter or stays.                                    *)
LEMMA KeepsApart ==
  ASSUME ApartInv, NEW th \in Thread, NEW c, Set(th, c), tokens' = tokens,
         \/ HandOf(c) = HandOf(call[th])
         \/ HandOf(c) = <<>>
         \/ HandOf(call[th]) # <<>> /\ HandOf(c) = Tail(HandOf(call[th]))
  PROVE  Apart(Held)'
<1> DEFINE h == HandOf(call[th])
           k == IF HandOf(c) = Tail(h) /\ h # <<>> /\ HandOf(c) # h THEN 1 ELSE 0
           d == [x \in Owner |-> IF x = th THEN k ELSE 0]
<1>1. TypeOK /\ Apart(Held) /\ Held \in [Owner -> Seq(Token)]
  BY HeldType DEF ApartInv
<1>2. /\ Held'[th] = HandOf(c) /\ Held[th] = h /\ th \in Owner
      /\ \A x \in Owner : x # th => Held'[x] = Held[x]
  BY <1>1, SetHeld, HandFacts, PlaceFacts DEF Owner
<1>3. h \in Seq(Token)
  BY <1>1, <1>2
<1>4. ASSUME NEW i \in 1 .. Len(HandOf(c))
      PROVE  i + k \in 1 .. Len(h) /\ HandOf(c)[i] = h[i + k]
  <2>1. CASE HandOf(c) = h
    BY <1>3, <2>1
  <2>2. CASE HandOf(c) = <<>>
    BY <2>2
  <2>3. CASE h # <<>> /\ HandOf(c) = Tail(h) /\ HandOf(c) # h
    <3>1. /\ Len(Tail(h)) = Len(h) - 1 /\ Len(h) \in Nat
          /\ \A j \in 1 .. Len(Tail(h)) : Tail(h)[j] = h[j + 1]
      BY <1>3, <2>3, HeadTailProperties, LenProperties
    <3>2. k = 1
      BY <2>3
    <3> HIDE DEF k, h
    <3>3. i \in 1 .. Len(Tail(h)) /\ HandOf(c)[i] = Tail(h)[i]
      BY <2>3
    <3>4. Tail(h)[i] = h[i + 1]
      BY <3>1, <3>3
    <3>5. i + 1 \in 1 .. Len(h)
      BY <3>1, <3>3
    <3> QED BY <3>2, <3>3, <3>4, <3>5
  <2> QED BY <2>1, <2>2, <2>3
<1>5. /\ d \in [Owner -> Nat] /\ d[th] = k
      /\ \A x \in Owner : x # th => d[x] = 0
  BY <1>2
<1> HIDE DEF d, k, h
<1>6. ASSUME NEW x \in Owner, NEW i \in 1 .. Len(Held'[x])
      PROVE  i + d[x] \in 1 .. Len(Held[x]) /\ Held'[x][i] = Held[x][i + d[x]]
  <2>1. CASE x = th
    BY <1>2, <1>4, <1>5, <2>1
  <2>2. CASE x # th
    BY <1>1, <1>2, <1>5, <2>2
  <2> QED BY <2>1, <2>2
<1> DEFINE g == Held'
<1>7. \A x \in Owner : \A i \in 1 .. Len(g[x]) :
        i + d[x] \in 1 .. Len(Held[x]) /\ g[x][i] = Held[x][i + d[x]]
  BY <1>6
<1> HIDE DEF g
<1>9. Apart(Held) /\ Tails(g, Held, d)
  BY <1>1, <1>5, <1>7 DEF Tails
<1>8. Apart(g)
  BY ONLY <1>9, ApartShrink
<1> QED BY <1>8 DEF g, Apart

(* The head of a channel goes to the end of the hand of th.                 *)
LEMMA TakesApart ==
  ASSUME ApartInv, NEW th \in Thread, NEW c, Set(th, c), NEW p \in Place,
         tokens[p] # <<>>, tokens' = [tokens EXCEPT ![p] = Tail(@)],
         HandOf(c) = Append(HandOf(call[th]), Head(tokens[p]))
  PROVE  Apart(Held)'
<1> DEFINE f == Held  g == Held'
<1>1. TypeOK /\ Apart(f) /\ f \in [Owner -> Seq(Token)]
  BY HeldType DEF ApartInv
<1>2. /\ g[th] = HandOf(c) /\ f[th] = HandOf(call[th]) /\ th \in Owner
      /\ f[p] = tokens[p] /\ g[p] = tokens'[p] /\ p \in Owner /\ p # th
  BY <1>1, SetHeld, HandFacts, PlaceFacts, PlaceAssumption
<1>3. \A q \in Place : tokens'[q] = IF q = p THEN Tail(tokens[p]) ELSE tokens[q]
  BY <1>1 DEF TypeOK, PlaceTypeOK
<1>4. \A z \in Owner : z # p /\ z # th => g[z] = f[z]
  BY <1>1, <1>3, SetHeld, PlaceFacts DEF Owner
<1>5. /\ f[p] # <<>> /\ g[p] = Tail(f[p]) /\ g[th] = Append(f[th], Head(f[p]))
  BY <1>2, <1>3
<1> HIDE DEF f, g
<1>6. Apart(g)
  BY <1>1, <1>2, <1>4, <1>5, ApartMove
<1> QED BY <1>6 DEF g, Apart

(* The head of the hand of th goes to the end of a channel.                 *)
LEMMA GivesApart ==
  ASSUME ApartInv, NEW th \in Thread, NEW c, Set(th, c), NEW p \in Place,
         HandOf(call[th]) # <<>>,
         tokens' = [tokens EXCEPT ![p] = Append(@, Head(HandOf(call[th])))],
         HandOf(c) = Tail(HandOf(call[th]))
  PROVE  Apart(Held)'
<1> DEFINE f == Held  g == Held'
<1>1. TypeOK /\ Apart(f) /\ f \in [Owner -> Seq(Token)]
  BY HeldType DEF ApartInv
<1>2. /\ g[th] = HandOf(c) /\ f[th] = HandOf(call[th]) /\ th \in Owner
      /\ f[p] = tokens[p] /\ g[p] = tokens'[p] /\ p \in Owner /\ p # th
  BY <1>1, SetHeld, HandFacts, PlaceFacts, PlaceAssumption
<1>3. \A q \in Place :
        tokens'[q] = IF q = p THEN Append(tokens[p], Head(HandOf(call[th])))
                     ELSE tokens[q]
  BY <1>1 DEF TypeOK, PlaceTypeOK
<1>4. \A z \in Owner : z # th /\ z # p => g[z] = f[z]
  BY <1>1, <1>3, SetHeld, PlaceFacts DEF Owner
<1>5. /\ f[th] # <<>> /\ g[th] = Tail(f[th]) /\ g[p] = Append(f[p], Head(f[th]))
  BY <1>2, <1>3
<1> HIDE DEF f, g
<1>6. Apart(g)
  BY <1>1, <1>2, <1>4, <1>5, ApartMove
<1> QED BY <1>6 DEF g, Apart

(* th, with nothing in its hand, takes a token from outside.                *)
LEMMA FreshApart ==
  ASSUME ApartInv, NEW th \in Thread, NEW c, Set(th, c), tokens' = tokens,
         NEW t \in Outside, HandOf(c) = <<t>>
  PROVE  Apart(Held)'
<1> DEFINE f == Held  g == Held'
<1>1. TypeOK /\ Apart(f)
  BY DEF ApartInv
<1>2. g[th] = <<t>> /\ th \in Owner
  BY <1>1, SetHeld, HandFacts
<1>3. \A z \in Owner : z # th => g[z] = f[z]
  BY <1>1, SetHeld, PlaceFacts DEF Owner
<1>4. \A z \in Owner : \A i \in 1 .. Len(f[z]) : f[z][i] # t
  BY <1>1, PositionToSlot DEF Outside
<1> HIDE DEF f, g
<1>5. Apart(g)
  BY <1>1, <1>2, <1>3, <1>4, ApartFresh
<1> QED BY <1>5 DEF g, Apart

(* The records that the steps write, and what they have in their hands.     *)
LEMMA HandOfResult ==
  /\ \A ok, t, s : HandOf(Result(ok, t, s)) = <<>>
  /\ \A step, p, t, n :
       HandOf(Request(step, p, t, n)) = IF step = "add_check" THEN <<t>>
                                        ELSE IF step = "add_send" THEN <<t>>
                                        ELSE IF step = "rem_count" THEN <<t>>
                                        ELSE <<>>
  BY DEF HandOf, Result, Request

LEMMA ReturnApart ==
  ASSUME ApartInv, NEW th \in Thread, NEW ok, NEW t, NEW s, Return(th, ok, t, s),
         tokens' = tokens
  PROVE  Apart(Held)'
  BY HandOfResult, KeepsApart DEF Return

LEMMA BeginApart ==
  ASSUME ApartInv, NEW th \in Thread, Begin(th)
  PROVE  Apart(Held)'
<1>1. tokens' = tokens
  BY DEF Begin
<1>2. CASE \E p \in Place : \E t \in Outside : CallAddToken(th, p, t)
  <2>1. PICK p \in Place, t \in Outside : Set(th, Request("add_check", p, t, 0))
    BY <1>2 DEF CallAddToken
  <2>2. HandOf(Request("add_check", p, t, 0)) = <<t>>
    BY HandOfResult
  <2> QED BY <1>1, <2>1, <2>2, FreshApart
<1>3. ASSUME NEW step \in {"rem_recv", "peek_lock", "pwc_lock", "clr_lock"},
             NEW p, NEW n, Set(th, Request(step, p, None, n))
      PROVE  Apart(Held)'
  <2>1. HandOf(Request(step, p, None, n)) = <<>>
    BY HandOfResult
  <2> QED BY <1>1, <1>3, <2>1, KeepsApart
<1> QED BY <1>2, <1>3 DEF Begin, CallRemoveToken, CallPeekTokens,
                          CallPeekTokensWithCount, CallClear

LEMMA MoveApart ==
  ASSUME ApartInv, NEW th \in Thread,
         \/ AddCheck(th) \/ AddSend(th) \/ AddCount(th)
         \/ RemoveReceive(th) \/ RemoveCount(th)
  PROVE  Apart(Held)'
<1> DEFINE p == call[th].place  r == call[th]
<1>1. /\ TypeOK /\ r \in CallType /\ p \in Place /\ r.buf = <<>>
  BY DEF ApartInv, TypeOK, PlaceTypeOK, CallOK, AddCheck, AddSend, AddCount,
         RemoveReceive, RemoveCount, Steps, AddSteps, RemoveSteps, DrainSteps
<1>2. CASE AddCheck(th)
  <2>1. CASE Goto(th, "add_send")
    <3> DEFINE c == [r EXCEPT !.pc = "add_send"]
    <3>1. Set(th, c) /\ c.pc = "add_send" /\ c.tok = r.tok
      BY <1>1, <2>1 DEF CallType, Goto
    <3> HIDE DEF c
    <3>2. HandOf(c) = HandOf(r)
      BY <1>2, <3>1 DEF HandOf, AddCheck
    <3> QED BY <1>2, <3>1, <3>2, KeepsApart DEF AddCheck
  <2> QED BY <1>2, <2>1, ReturnApart DEF AddCheck
<1>3. CASE AddSend(th)
  <2>1. CASE Goto(th, "add_count") /\ Send(th, p, r.tok)
    <3> DEFINE c == [r EXCEPT !.pc = "add_count"]
    <3>1. Set(th, c) /\ c.pc = "add_count" /\ c.buf = <<>>
      BY <1>1, <2>1 DEF CallType, Goto
    <3> HIDE DEF c
    <3>2. HandOf(c) = <<>> /\ HandOf(r) = <<r.tok>>
      BY <1>3, <3>1 DEF HandOf, AddSend
    <3>3. Head(<<r.tok>>) = r.tok /\ Tail(<<r.tok>>) = <<>> /\ <<r.tok>> # <<>>
      OBVIOUS
    <3>4. tokens' = [tokens EXCEPT ![p] = Append(@, r.tok)]
      BY <2>1 DEF Send
    <3> QED BY <1>1, <3>1, <3>2, <3>3, <3>4, GivesApart
  <2> QED BY <1>3, <2>1, ReturnApart DEF AddSend
<1>4. CASE RemoveReceive(th)
  <2>1. CASE /\ tokens[p] # <<>> /\ Receive(th, p)
             /\ Set(th, [r EXCEPT !.pc = "rem_count", !.tok = Head(tokens[p])])
    <3> DEFINE c == [r EXCEPT !.pc = "rem_count", !.tok = Head(tokens[p])]
    <3>1. Set(th, c) /\ c.pc = "rem_count" /\ c.tok = Head(tokens[p])
      BY <1>1, <2>1 DEF CallType
    <3> HIDE DEF c
    <3>2. HandOf(c) = <<Head(tokens[p])>> /\ HandOf(r) = <<>>
      BY <1>1, <1>4, <3>1 DEF HandOf, RemoveReceive
    <3>3. Append(<<>>, Head(tokens[p])) = <<Head(tokens[p])>>
      OBVIOUS
    <3>4. tokens' = [tokens EXCEPT ![p] = Tail(@)]
      BY <2>1 DEF Receive
    <3> QED BY <1>1, <2>1, <3>1, <3>2, <3>3, <3>4, TakesApart
  <2> QED BY <1>4, <2>1, ReturnApart DEF RemoveReceive
<1>5. CASE AddCount(th) \/ RemoveCount(th)
  BY <1>5, ReturnApart DEF AddCount, RemoveCount
<1> QED BY <1>2, <1>3, <1>4, <1>5

(* One step of the drains and the put-back loops that is not the last.      *)
LEMMA DrainApart ==
  ASSUME ApartInv, NEW th \in Thread, call[th].pc \in LockSteps \cup DrainSteps,
         NEW c, Set(th, c), c.pc \in DrainSteps, NEW p, p = call[th].place,
         \/ c.buf = call[th].buf /\ tokens' = tokens
         \/ /\ c.buf = Append(call[th].buf, Head(tokens[p]))
            /\ tokens[p] # <<>> /\ tokens' = [tokens EXCEPT ![p] = Tail(@)]
         \/ /\ c.buf = Tail(call[th].buf) /\ call[th].buf # <<>>
            /\ \/ tokens' = tokens
               \/ tokens' = [tokens EXCEPT ![p] = Append(@, Head(call[th].buf))]
  PROVE  Apart(Held)'
<1>1. p \in Place
  BY RecordShapes DEF ApartInv, TypeOK, Steps
<1>2. HandOf(c) = c.buf /\ HandOf(call[th]) = call[th].buf
  BY DEF HandOf, DrainSteps, LockSteps
<1>3. CASE c.buf = call[th].buf /\ tokens' = tokens
  BY <1>2, <1>3, KeepsApart
<1>4. CASE /\ c.buf = Append(call[th].buf, Head(tokens[p]))
           /\ tokens[p] # <<>> /\ tokens' = [tokens EXCEPT ![p] = Tail(@)]
  <2>1. HandOf(c) = Append(HandOf(call[th]), Head(tokens[p]))
    BY <1>2, <1>4
  <2> QED BY ZenonT(30), <1>1, <1>4, <2>1, TakesApart
<1>5. CASE c.buf = Tail(call[th].buf) /\ call[th].buf # <<>> /\ tokens' = tokens
  BY <1>2, <1>5, KeepsApart
<1>6. CASE /\ c.buf = Tail(call[th].buf) /\ call[th].buf # <<>>
           /\ tokens' = [tokens EXCEPT ![p] = Append(@, Head(call[th].buf))]
  BY <1>1, <1>2, <1>6, GivesApart
<1> QED BY <1>3, <1>4, <1>5, <1>6

LEMMA LockApart ==
  ASSUME ApartInv, NEW th \in Thread,
         PeekLock(th) \/ PwcLock(th) \/ ClearLock(th)
  PROVE  Apart(Held)'
<1> DEFINE r == call[th]
<1>1. r \in CallType /\ r.pc \in LockSteps /\ tokens' = tokens
  BY DEF ApartInv, TypeOK, PlaceTypeOK, PeekLock, PwcLock, ClearLock, LockSteps
<1>2. ASSUME NEW step \in {"peek_drain", "clr_len"}, Goto(th, step)
      PROVE  Apart(Held)'
  <2> DEFINE c == [r EXCEPT !.pc = step]
  <2>1. Set(th, c) /\ c.pc \in DrainSteps /\ c.buf = r.buf
    BY <1>1, <1>2 DEF CallType, Goto, DrainSteps
  <2> HIDE DEF c
  <2> QED BY <1>1, <2>1, DrainApart
<1>3. ASSUME NEW n, Set(th, [r EXCEPT !.pc = "pwc_drain", !.avail = n])
      PROVE  Apart(Held)'
  <2> DEFINE c == [r EXCEPT !.pc = "pwc_drain", !.avail = n]
  <2>1. Set(th, c) /\ c.pc \in DrainSteps /\ c.buf = r.buf
    BY <1>1, <1>3 DEF CallType, DrainSteps
  <2> HIDE DEF c
  <2> QED BY <1>1, <2>1, DrainApart
<1> QED BY <1>1, <1>2, <1>3, ReturnApart DEF PeekLock, PwcLock, ClearLock

LEMMA ReceiveApart ==
  ASSUME ApartInv, NEW th \in Thread,
         (Drain(th) /\ call[th].pc \in DrainSteps) \/ ClearReceive(th)
  PROVE  Apart(Held)'
<1> DEFINE r == call[th]  p == r.place  b == Append(r.buf, Head(tokens[p]))
<1>1. /\ r \in CallType /\ r.pc \in DrainSteps
      /\ tokens[p] # <<>> /\ tokens' = [tokens EXCEPT ![p] = Tail(@)]
  BY DEF ApartInv, TypeOK, PlaceTypeOK, Drain, ClearReceive, Receive, DrainSteps
<1>2. CASE Drain(th)
  <2> DEFINE c == [r EXCEPT !.buf = b]
  <2>1. Set(th, c) /\ c.pc \in DrainSteps /\ c.buf = b
    BY <1>1, <1>2 DEF CallType, Drain
  <2> HIDE DEF c
  <2> QED BY <1>1, <2>1, DrainApart
<1>3. CASE ClearReceive(th)
  <2> DEFINE c == [r EXCEPT !.pc = "clr_len", !.buf = b]
  <2>1. Set(th, c) /\ c.pc \in DrainSteps /\ c.buf = b
    BY <1>1, <1>3 DEF CallType, ClearReceive, DrainSteps
  <2> HIDE DEF c
  <2> QED BY <1>1, <2>1, DrainApart
<1> QED BY <1>2, <1>3

LEMMA RefillApart ==
  ASSUME ApartInv, NEW th \in Thread, PeekRefill(th) \/ PwcRefill(th)
  PROVE  Apart(Held)'
<1> DEFINE r == call[th]  p == r.place
<1>1. /\ r \in CallType /\ r.pc \in DrainSteps /\ r.buf # <<>> /\ p \in Place
      /\ \/ tokens' = tokens
         \/ tokens' = [tokens EXCEPT ![p] = Append(@, Head(r.buf))]
  BY DEF ApartInv, TypeOK, PlaceTypeOK, CallOK, PeekRefill, PwcRefill, Steps,
         DrainSteps
<1>2. PICK ok : Refilled(th, ok)
  BY DEF PeekRefill, PwcRefill
<1>3. CASE Set(th, [r EXCEPT !.buf = Tail(r.buf)])
  <2> DEFINE c == [r EXCEPT !.buf = Tail(r.buf)]
  <2>1. Set(th, c) /\ c.pc \in DrainSteps /\ c.buf = Tail(r.buf)
    BY <1>1, <1>3 DEF CallType
  <2> HIDE DEF c
  <2> QED BY <1>1, <2>1, DrainApart
<1>4. CASE Tail(r.buf) = <<>> /\ Return(th, ok, None, r.seen)
  <2>1. CASE tokens' = tokens
    BY <1>4, <2>1, ReturnApart
  <2>2. CASE tokens' = [tokens EXCEPT ![p] = Append(@, Head(r.buf))]
    <3>1. HandOf(r) = r.buf
      BY <1>1 DEF HandOf, DrainSteps
    <3> DEFINE c == Result(ok, None, r.seen)
    <3>2. Set(th, c) /\ HandOf(c) = Tail(r.buf)
      BY <1>4, HandOfResult DEF Return
    <3> HIDE DEF c
    <3> QED BY <1>1, <2>2, <3>1, <3>2, GivesApart
  <2> QED BY <1>1, <2>1, <2>2
<1> QED BY <1>2, <1>3, <1>4 DEF Refilled

LEMMA TurnApart ==
  ASSUME ApartInv, NEW th \in Thread,
         PeekDrain(th) \/ PwcDrain(th) \/ ClearLen(th)
  PROVE  Apart(Held)'
<1> DEFINE r == call[th]
<1>1. r \in CallType /\ r.pc \in DrainSteps
  BY DEF ApartInv, TypeOK, PlaceTypeOK, PeekDrain, PwcDrain, ClearLen, DrainSteps
<1>2. CASE Drain(th)
  BY <1>1, <1>2, ReceiveApart
<1>3. ASSUME NEW step \in {"pwc_undo", "clr_recv"}, Goto(th, step),
             tokens' = tokens
      PROVE  Apart(Held)'
  <2> DEFINE c == [r EXCEPT !.pc = step]
  <2>1. Set(th, c) /\ c.pc \in DrainSteps /\ c.buf = r.buf
    BY <1>1, <1>3 DEF CallType, Goto, DrainSteps
  <2> HIDE DEF c
  <2> QED BY <1>1, <1>3, <2>1, DrainApart
<1>4. ASSUME NEW step \in {"peek_refill", "pwc_refill"}, NEW s,
             Set(th, [r EXCEPT !.pc = step, !.seen = s]), tokens' = tokens
      PROVE  Apart(Held)'
  <2> DEFINE c == [r EXCEPT !.pc = step, !.seen = s]
  <2>1. Set(th, c) /\ c.pc \in DrainSteps /\ c.buf = r.buf
    BY <1>1, <1>4 DEF CallType, DrainSteps
  <2> HIDE DEF c
  <2> QED BY <1>1, <1>4, <2>1, DrainApart
<1>5. CASE PeekDrain(th)
  BY <1>2, <1>4, <1>5, ReturnApart DEF PeekDrain
<1>6. CASE PwcDrain(th)
  BY <1>2, <1>3, <1>4, <1>6, ReturnApart DEF PwcDrain
<1>7. CASE ClearLen(th)
  BY <1>3, <1>7, ReturnApart DEF ClearLen
<1> QED BY <1>5, <1>6, <1>7

LEMMA InitApart == ASSUME Init PROVE ApartInv
<1>1. TypeOK
  BY InitType
<1>2. \A p \in Place : Held[p] = InitialTokens[p]
  BY PlaceFacts DEF Init, PlaceInit
<1>3. \A th \in Thread : Held[th] = <<>>
  BY <1>1, HandFacts, HandOfResult DEF Init, PlaceInit, NoCall
<1>4. ASSUME NEW x \in Owner, NEW y \in Owner,
             NEW i \in 1 .. Len(Held[x]), NEW j \in 1 .. Len(Held[y]),
             Held[x][i] = Held[y][j]
      PROVE  x = y /\ i = j
  <2>1. x \notin Thread /\ y \notin Thread
    BY <1>3
  <2>2. x \in Place /\ y \in Place
    BY <2>1 DEF Owner
  <2>3. Held[x] = InitialTokens[x] /\ Held[y] = InitialTokens[y]
    BY <1>2, <2>2
  <2> QED BY <1>4, <2>2, <2>3, OpsAssumption
<1> QED BY <1>1, <1>4 DEF ApartInv, Apart

(* "No token duplication under concurrent access": whatever peeks, adds,    *)
(* removes and clears of any places overlap, no token is in two slots.      *)
THEOREM TokensNeverDuplicated == Spec => []NoDuplication
<1>1. Init => ApartInv
  BY InitApart
<1>2. ApartInv /\ [Moves]_placeVars => ApartInv'
  <2> SUFFICES ASSUME ApartInv, [Moves]_placeVars PROVE ApartInv'
    OBVIOUS
  <2>1. TypeOK'
    BY NextType DEF ApartInv
  <2>2. CASE UNCHANGED placeVars
    <3>1. Held' = Held
      BY <2>2 DEF placeVars, Held, HandOf
    <3> QED BY <2>1, <3>1 DEF ApartInv, Apart
  <2>3. ASSUME NEW th \in Thread, Begin(th) \/ PlaceStep(th) PROVE Apart(Held)'
    BY <2>3, BeginApart, MoveApart, LockApart, ReceiveApart, RefillApart,
       TurnApart DEF PlaceStep
  <2> QED BY <2>1, <2>2, <2>3 DEF Moves, ApartInv
<1>3. ApartInv => NoDuplication
  BY ApartSlots
<1> QED BY <1>1, <1>2, <1>3, NextMoves, PTL DEF Spec
-----------------------------------------------------------------------------
(* Checkpoints.  RestoreInv says where the loops of a snapshot and of a     *)
(* restore stand and what they know.  As long as nobody else has used a     *)
(* channel since the job began, a capture has found what was there, a       *)
(* clearing has emptied the places behind it, and a fill has the contents   *)
(* of the marking but for the tokens it has still to send (Progress).       *)
(* Whatever the others do, a token that has stayed in its place is in the   *)
(* snapshot already, or where its loop will come across it (Found).         *)
Marking == UNION {[D -> Seq(Token)] : D \in SUBSET (Place \cup Unknown)}

JobType ==
  [pc    : Phases,
   todo  : SUBSET (Place \cup Unknown),
   at    : Place \cup {None},
   rest  : Seq(Token),
   taken : Marking,
   from  : Marking]

PeekSteps == {"peek_lock", "peek_drain", "peek_refill"}
ClearSteps == {"clr_lock", "clr_len", "clr_recv"}

Capturing(j) == j.pc \in {"snapshot", "backup"}
Clearing(j) == j.pc \in {"clear", "undo_clear"}
Filling(j) == j.pc \in {"restore", "undo"}

(* Where the loop of a phase stands, and the place call that it is in.      *)
InCall(c, steps, p) == c.pc \in steps \cup {"done"} /\ (c.pc # "done" => c.place = p)

JobOK(j, c) ==
  /\ j.pc = "idle" => c.pc \in {"idle", "done"}
  /\ j.pc # "idle" => j.at \in Place /\ j.at \notin j.todo
  /\ Capturing(j) => /\ InCall(c, PeekSteps, j.at)
                     /\ j.todo \subseteq Place /\ j.rest = <<>>
                     /\ DOMAIN j.taken = Place \ (j.todo \cup {j.at})
  /\ Clearing(j) => /\ InCall(c, ClearSteps, j.at)
                    /\ j.todo \subseteq Place /\ j.rest = <<>>
  /\ Filling(j) => /\ InCall(c, AddSteps, j.at)
                   /\ j.todo \subseteq ToFill(Source(j))
  /\ Clearing(j) \/ Filling(j) => DOMAIN j.taken = Place

(* The others only move tokens, and nobody disturbs the restorer unless it  *)
(* is in a peek.                                                            *)
OthersMove ==
  \A th \in Thread \ {restorer} :
    call[th].pc \in AddSteps \cup RemoveSteps \cup {"idle", "done"}

RestorerNotices == restorer \in disturbed => call[restorer].pc \in DrainSteps

RestoreTypeInv ==
  /\ QuietInv /\ OthersMove /\ RestorerNotices
  /\ job \in JobType /\ JobOK(job, call[restorer])
  /\ saved \subseteq [Place -> Seq(Token)]
  /\ ops \in 0 .. MaxOps /\ moves \in 0 .. MaxMoves
  /\ start \in [Place -> Seq(Token)]
  /\ \A p \in Place : Len(start[p]) <= Capacity[p]

(* A capture that nobody touches finds what was there at its start.         *)
Captures(j, c, tk, held, st) ==
  /\ \A p \in Place \ {j.at} : tk[p] = st[p]
  /\ \A p \in DOMAIN j.taken : j.taken[p] = st[p]
  /\ c.pc \in {"peek_lock", "done"} => tk[j.at] = st[j.at]
  /\ c.pc \in {"peek_drain", "peek_refill"} => held = st[j.at]
  /\ c.pc = "done" => c.seen = st[j.at]

(* A clearing has emptied the places that it has left behind.               *)
Empties(j, c, tk) ==
  \A p \in Place \ j.todo : p # j.at \/ c.pc = "done" => tk[p] = <<>>

(* The token that AddToken has not sent yet.                                *)
Pending(c) == IF c.pc \in {"add_check", "add_send"} THEN <<c.tok>> ELSE <<>>

(* A place is empty until the loop comes to it, then holds what it has to,  *)
(* but for the rest at the place where the loop is.                         *)
FilledSoFar(j, tk, late) ==
  \A p \in Place : IF p \in j.todo THEN tk[p] = <<>>
                   ELSE IF p = j.at THEN Content(Source(j))[p] = tk[p] \o late
                   ELSE Content(Source(j))[p] = tk[p]

Fills(j, c, tk) ==
  /\ c.pc = "done" /\ j.pc = "undo" => c.ok
  /\ (c.pc = "done" => c.ok) => FilledSoFar(j, tk, Pending(c) \o j.rest)

Progress(j, c, tk, held, st) ==
  /\ Capturing(j) => Captures(j, c, tk, held, st)
  /\ Clearing(j) => Empties(j, c, tk)
  /\ Filling(j) => Fills(j, c, tk)
  /\ Clearing(j) \/ Filling(j) => j.taken = st

Untouched ==
  ~touched =>
    /\ \A th \in Thread \ {restorer} : call[th].pc = "idle"
    /\ restorer \notin disturbed
    /\ job.pc # "idle" /\ GlobalCapacity = 0 =>
         Progress(job, call[restorer], tokens, before[restorer], start)

(* The tokens of p that a snapshot has or may still come across.            *)
Found(j, c, tk, p) ==
  IF p \in DOMAIN j.taken THEN Range(j.taken[p])
  ELSE IF p \in j.todo THEN Range(tk[p])
  ELSE IF c.pc \in {"peek_refill", "done"} THEN Range(c.seen)
  ELSE Range(tk[p]) \cup Range(c.buf)

Stays(st, j, c, tk) ==
  /\ st \subseteq Place \X Token
  /\ j.pc = "snapshot" => \A s \in st : s[2] \in Found(j, c, tk, s[1])

RestoreInv ==
  /\ RestoreTypeInv
  /\ Untouched
  /\ Stays(stayed, job, call[restorer], tokens)

LEMMA MarkingIs ==
  ASSUME NEW m
  PROVE  m \in Marking <=> IsMarking(m)
  BY DEF Marking, IsMarking

(* A thread between two calls starts one, or forgets the last one.          *)
LEMMA SetQuiet ==
  ASSUME QuietInv, NEW th \in Thread, Free(th), NEW c \in CallType, CallOK(c),
         c.pc \notin DrainSteps, Set(th, c),
         UNCHANGED <<tokens, totalTokens, peekMu, history>>
  PROVE  /\ QuietInv' /\ call'[th] = c
         /\ \A u \in Thread \ {th} : call'[u] = call[u]
<1>1. /\ MutexInv /\ PlaceTypeOK /\ call[th].pc \notin DrainSteps
      /\ UNCHANGED <<before, disturbed, uncounted, lost>>
  BY DEF QuietInv, MutexInv, Free, DrainSteps, history
<1>2. call'[th] = c /\ \A u \in Thread \ {th} : call'[u] = call[u]
  BY <1>1 DEF Set, PlaceTypeOK
<1>3. PlaceTypeOK'
  <2>1. CallsOK'
    BY <1>1, SetType DEF CallsOK, PlaceTypeOK
  <2> QED BY <1>1, <2>1 DEF CallsOK, PlaceTypeOK
<1>4. PeekMutex'
  <2>1. \A p \in Place : InDrain(c, p) <=> InDrain(call[th], p)
    BY <1>1 DEF InDrain
  <2> QED BY <1>1, <2>1, KeepsMutex
<1>5. ASSUME NEW u \in Thread PROVE QuietOK(u)'
  <2>1. CASE u = th
    BY <1>2, <2>1, OutsideQuiet
  <2>2. CASE u # th
    BY <1>1, <1>2, <2>2 DEF QuietInv, QuietOK
  <2> QED BY <2>1, <2>2
<1> QED BY <1>2, <1>3, <1>4, <1>5 DEF QuietInv, MutexInv

-----------------------------------------------------------------------------
(* The loops of the restorer, where one of its steps leaves them: it goes   *)
(* to place p with a new call, and the others keep theirs.                  *)
Kept == QuietInv' /\ \A th \in Thread \ {restorer} : call'[th] = call[th]

GoesTo(j, p, step) ==
  /\ Kept /\ job' \in JobType
  /\ job'.pc = j.pc /\ job'.todo = j.todo \ {p} /\ job'.at = p
  /\ job'.taken = j.taken /\ job'.from = j.from
  /\ call'[restorer].pc = step /\ call'[restorer].place = p
  /\ call'[restorer].buf = <<>>

(* How a loop of the restorer is left when it starts a call.                *)
Calls(j, p, step, t, r) ==
  /\ job' = [j EXCEPT !.at = p, !.todo = @ \ {p}, !.rest = r]
  /\ Set(restorer, Request(step, p, t, 0))
  /\ UNCHANGED <<tokens, totalTokens, peekMu, history>>

LEMMA Goes ==
  ASSUME QuietInv, Free(restorer), NEW j \in JobType, NEW p \in Place,
         NEW step \in {"peek_lock", "clr_lock", "add_check"},
         NEW t \in Token \cup {None}, step = "add_check" => t \in Token,
         NEW r \in Seq(Token), Calls(j, p, step, t, r)
  PROVE  GoesTo(j, p, step) /\ job'.rest = r /\ call'[restorer].tok = t
<1> DEFINE c == Request(step, p, t, 0)
<1>1. restorer \in Thread
  BY RestorationAssumption
<1>2. c \in CallType /\ CallOK(c)
  BY RequestType DEF CallOK, Request, Steps, AddSteps, RemoveSteps, LockSteps,
     DrainSteps
<1>3. /\ c.pc = step /\ c.place = p /\ c.buf = <<>> /\ c.tok = t
      /\ step \notin DrainSteps
  BY DEF Request, DrainSteps
<1> HIDE DEF c
<1>4. Set(restorer, c) /\ UNCHANGED <<tokens, totalTokens, peekMu, history>>
  BY DEF c, Calls
<1>5. Kept /\ call'[restorer] = c
  BY <1>1, <1>2, <1>3, <1>4, SetQuiet DEF Kept
<1>6. /\ job' \in JobType /\ job'.pc = j.pc /\ job'.todo = j.todo \ {p}
      /\ job'.at = p /\ job'.taken = j.taken /\ job'.from = j.from /\ job'.rest = r
  BY DEF JobType, Calls
<1> QED BY <1>3, <1>5, <1>6 DEF GoesTo

LEMMA PeekStarts ==
  ASSUME QuietInv, Free(restorer), NEW j \in JobType, j.todo \subseteq Place,
         PeekFrom(j), UNCHANGED <<tokens, totalTokens, peekMu, history>>
  PROVE  \E p \in j.todo : GoesTo(j, p, "peek_lock") /\ job'.rest = j.rest
<1>1. PICK p \in j.todo : /\ job' = [j EXCEPT !.todo = @ \ {p}, !.at = p]
                          /\ Set(restorer, Request("peek_lock", p, None, 0))
  BY DEF PeekFrom, Do, CallPeekTokens
<1>2. j.rest \in Seq(Token)
      /\ job' = [j EXCEPT !.at = p, !.todo = @ \ {p}, !.rest = j.rest]
  BY <1>1 DEF JobType
<1>3. Calls(j, p, "peek_lock", None, j.rest)
  BY <1>1, <1>2 DEF Calls
<1>4. GoesTo(j, p, "peek_lock") /\ job'.rest = j.rest
  <2>1. p \in Place /\ None \in Token \cup {None} /\ j.rest \in Seq(Token)
    BY <1>2
  <2>2. "peek_lock" \in {"peek_lock", "clr_lock", "add_check"} /\ "peek_lock" # "add_check"
    OBVIOUS
  <2> QED BY <1>3, <2>1, <2>2, Goes
<1> QED BY <1>4

LEMMA ClearStarts ==
  ASSUME QuietInv, Free(restorer), NEW j \in JobType, j.todo \subseteq Place,
         ClearFrom(j), UNCHANGED <<tokens, totalTokens, peekMu, history>>
  PROVE  \E p \in j.todo : GoesTo(j, p, "clr_lock") /\ job'.rest = j.rest
<1>1. PICK p \in j.todo : /\ job' = [j EXCEPT !.todo = @ \ {p}, !.at = p]
                          /\ Set(restorer, Request("clr_lock", p, None, 0))
  BY DEF ClearFrom, Do, CallClear
<1>2. j.rest \in Seq(Token)
      /\ job' = [j EXCEPT !.at = p, !.todo = @ \ {p}, !.rest = j.rest]
  BY <1>1 DEF JobType
<1>3. Calls(j, p, "clr_lock", None, j.rest)
  BY <1>1, <1>2 DEF Calls
<1>4. GoesTo(j, p, "clr_lock") /\ job'.rest = j.rest
  <2>1. p \in Place /\ None \in Token \cup {None} /\ j.rest \in Seq(Token)
    BY <1>2
  <2>2. "clr_lock" \in {"peek_lock", "clr_lock", "add_check"} /\ "clr_lock" # "add_check"
    OBVIOUS
  <2> QED BY <1>3, <2>1, <2>2, Goes
<1> QED BY <1>4

LEMMA AddStarts ==
  ASSUME QuietInv, Free(restorer), NEW j \in JobType, NEW p \in Place,
         NEW ts \in Seq(Token), ts # <<>>, AddAt(j, p, ts),
         UNCHANGED <<tokens, totalTokens, peekMu, history>>
  PROVE  /\ GoesTo(j, p, "add_check") /\ job'.rest = Tail(ts)
         /\ call'[restorer].tok = Head(ts)
<1>1. /\ job' = [j EXCEPT !.at = p, !.todo = @ \ {p}, !.rest = Tail(ts)]
      /\ Set(restorer, Request("add_check", p, Head(ts), 0))
  BY DEF AddAt, Do, CallAddToken
<1>2. Tail(ts) \in Seq(Token) /\ Head(ts) \in Token
  BY HeadTailProperties
<1>3. Calls(j, p, "add_check", Head(ts), Tail(ts))
  BY <1>1 DEF Calls
<1> QED BY <1>2, <1>3, Goes

(* Undo clears the net again, with the backup to put back.                  *)
LEMMA UndoIs ==
  ASSUME NEW j \in JobType
  PROVE  /\ Undo(j) \in JobType /\ Undo(j).pc = "undo_clear"
         /\ Undo(j).todo = Place /\ Undo(j).rest = <<>>
         /\ Undo(j).taken = j.taken /\ Undo(j).from = j.from
<1>1. <<>> \in Seq(Token)
  OBVIOUS
<1> QED BY <1>1 DEF Undo, JobType, Phases

(* The content of a marking, and the places that it makes the loop fill.    *)
LEMMA SourceIs ==
  ASSUME NEW j \in JobType, NEW p \in Place
  PROVE  /\ Content(Source(j))[p] \in Seq(Token)
         /\ p \in ToFill(Source(j)) =>
              /\ Source(j)[p] = Content(Source(j))[p]
              /\ Source(j)[p] # <<>>
         /\ p \notin ToFill(Source(j)) => Content(Source(j))[p] = <<>>
<1>1. Source(j) \in Marking
  BY DEF Source, JobType
<1>2. \A q \in DOMAIN Source(j) : Source(j)[q] \in Seq(Token)
  BY <1>1 DEF Marking
<1>3. <<>> \in Seq(Token)
  OBVIOUS
<1> QED BY <1>2, <1>3 DEF Content, ToFill

LEMMA HeadTail ==
  ASSUME NEW s \in Seq(Token), s # <<>>
  PROVE  <<Head(s)>> \o Tail(s) = s
<1> DEFINE x == Head(s)  r == Tail(s)  e == <<>>
<1>1. e \in Seq(Token) /\ Append(e, x) = <<x>>
  OBVIOUS
<1>2. Append(e, x) \o r = e \o s
  BY <1>1, MoveHead
<1>3. e \o s = s
  BY ConcatEmptySeq
<1> HIDE DEF x, r, e
<1>4. <<x>> \o r = s
  BY <1>1, <1>2, <1>3
<1>5. <<Head(s)>> \o Tail(s) = s
  BY <1>4 DEF x, r
<1> QED BY <1>5

LEMMA NothingQuiet == ASSUME QuietInv, UNCHANGED placeVars PROVE Kept
<1>1. /\ tokens' = tokens /\ totalTokens' = totalTokens /\ peekMu' = peekMu
      /\ call' = call /\ before' = before /\ disturbed' = disturbed
      /\ uncounted' = uncounted /\ lost' = lost
  BY DEF placeVars
<1>2. PlaceTypeOK'
  BY <1>1 DEF QuietInv, MutexInv, PlaceTypeOK
<1>3. PeekMutex'
  BY <1>1 DEF QuietInv, MutexInv, PeekMutex
<1>4. \A u \in Thread : QuietOK(u)'
  BY <1>1 DEF QuietInv, QuietOK
<1> QED BY <1>1, <1>2, <1>3, <1>4 DEF Kept, QuietInv, MutexInv

(* The turns of the loops that fill the net.                                *)
FillsOn(j) ==
  /\ j.rest # <<>> /\ GoesTo(j, j.at, "add_check")
  /\ job'.rest = Tail(j.rest) /\ call'[restorer].tok = Head(j.rest)

FillsNext(j, p) ==
  /\ j.rest = <<>> /\ p \in j.todo \cap Place /\ GoesTo(j, p, "add_check")
  /\ job'.rest = Tail(Source(j)[p]) /\ call'[restorer].tok = Head(Source(j)[p])

FillsNoMore(j) ==
  j.rest = <<>> /\ j.todo = {} /\ job' = Idle /\ UNCHANGED call /\ Kept

Undoes(j) == \E p \in Place : GoesTo(Undo(j), p, "clr_lock") /\ job'.rest = <<>>

LEMMA UndoStarts ==
  ASSUME QuietInv, Free(restorer), NEW j \in JobType, ClearFrom(Undo(j)),
         UNCHANGED <<tokens, totalTokens, peekMu, history>>
  PROVE  Undoes(j)
<1>1. /\ Undo(j) \in JobType /\ Undo(j).todo \subseteq Place
      /\ Undo(j).todo = Place /\ Undo(j).rest = <<>>
  BY UndoIs
<1> QED BY <1>1, ClearStarts DEF Undoes

LEMMA FillGoesOn ==
  ASSUME QuietInv, Free(restorer), NEW j \in JobType, Filling(j), j.at \in Place,
         DOMAIN j.taken = Place, j.todo \subseteq ToFill(Source(j)), AddFrom(j),
         UNCHANGED <<tokens, totalTokens, peekMu, history>>
  PROVE  \/ FillsOn(j) \/ (\E p \in Place : FillsNext(j, p)) \/ FillsNoMore(j)
         \/ j.pc = "restore" /\ Undoes(j)
<1>1. j.rest \in Seq(Token)
  BY DEF JobType
<1>2. CASE j.rest # <<>>
  <2>1. AddAt(j, j.at, j.rest)
    BY <1>2 DEF AddFrom
  <2> QED BY <1>1, <1>2, <2>1, AddStarts DEF FillsOn
<1>3. CASE j.rest = <<>>
  <2>1. CASE j.todo = {} /\ Do(Idle) /\ UNCHANGED call
    <3>1. UNCHANGED placeVars
      BY <2>1 DEF placeVars, history
    <3> QED BY <1>3, <2>1, <3>1, NothingQuiet DEF Do, FillsNoMore
  <2>2. ASSUME NEW p \in j.todo, p \in Place, AddAt(j, p, Source(j)[p])
        PROVE  FillsNext(j, p)
    <3>1. p \in ToFill(Source(j))
      BY <2>2
    <3>2. Source(j)[p] \in Seq(Token) /\ Source(j)[p] # <<>>
      BY <2>2, <3>1, SourceIs
    <3> QED BY <1>3, <2>2, <3>2, AddStarts DEF FillsNext
  <2>3. ASSUME NEW p \in j.todo, p \notin Place, ClearFrom(Undo(j))
        PROVE  j.pc = "restore" /\ Undoes(j)
    <3>1. j.pc # "undo"
      <4>1. ASSUME j.pc = "undo" PROVE p \in Place
        BY <2>3, <4>1 DEF ToFill, Source
      <4> QED BY <2>3, <4>1
    <3> QED BY <2>3, <3>1, UndoStarts DEF Filling
  <2> QED BY <1>3, <2>1, <2>2, <2>3 DEF AddFrom
<1> QED BY <1>2, <1>3

(* A phase begins with all places to visit and nothing taken.               *)
LEMMA JobIs ==
  ASSUME NEW pc \in Phases, NEW from \in Marking
  PROVE  LET j == Job(pc, from) IN
         /\ j \in JobType /\ j.pc = pc /\ j.todo = Place /\ j.rest = <<>>
         /\ DOMAIN j.taken = {} /\ j.from = from
<1> DEFINE e == [p \in {} |-> <<>>]
<1>1. e \in [{} -> Seq(Token)] /\ {} \in SUBSET (Place \cup Unknown)
  OBVIOUS
<1>2. e \in Marking
  BY <1>1 DEF Marking
<1>3. DOMAIN e = {}
  OBVIOUS
<1>4. Job(pc, from) = [pc |-> pc, todo |-> Place, at |-> None, rest |-> <<>>,
                       taken |-> e, from |-> from]
  BY DEF Job
<1> HIDE DEF e
<1>5. <<>> \in Seq(Token) /\ None \in Place \cup {None}
      /\ Place \in SUBSET (Place \cup Unknown)
  OBVIOUS
<1> QED BY <1>2, <1>3, <1>4, <1>5 DEF JobType

LEMMA IdleIs == Idle \in JobType /\ Idle.pc = "idle"
<1> DEFINE e == [p \in {} |-> <<>>]
<1>1. e \in [{} -> Seq(Token)] /\ {} \in SUBSET (Place \cup Unknown)
  OBVIOUS
<1>2. e \in Marking
  BY <1>1 DEF Marking
<1>3. Idle = [Job("idle", e) EXCEPT !.todo = {}]
  BY DEF Idle
<1> HIDE DEF e
<1>4. Job("idle", e) \in JobType /\ Job("idle", e).pc = "idle"
  BY <1>2, JobIs DEF Phases
<1> QED BY <1>3, <1>4 DEF JobType

(* The loop that fills the net keeps its place.                             *)
LEMMA FillTypes ==
  ASSUME QuietInv, Free(restorer), NEW j \in JobType, Filling(j), j.at \in Place,
         j.at \notin j.todo \/ j.rest = <<>>,
         DOMAIN j.taken = Place, j.todo \subseteq ToFill(Source(j)), AddFrom(j),
         UNCHANGED <<tokens, totalTokens, peekMu, history>>
  PROVE  Kept /\ job' \in JobType /\ JobOK(job', call'[restorer]) /\ ~Capturing(job')
<1>1. ASSUME NEW p \in Place, GoesTo(j, p, "add_check")
      PROVE  Kept /\ job' \in JobType /\ JobOK(job', call'[restorer]) /\ ~Capturing(job')
  <2>1. Filling(job') /\ ~Capturing(job') /\ ~Clearing(job') /\ job'.pc # "idle"
    BY <1>1 DEF GoesTo, Filling, Capturing, Clearing
  <2>2. Source(job') = Source(j)
    BY <1>1 DEF GoesTo, Source
  <2>3. InCall(call'[restorer], AddSteps, job'.at)
    BY <1>1 DEF GoesTo, InCall, AddSteps
  <2> QED BY <1>1, <2>1, <2>2, <2>3 DEF GoesTo, JobOK
<1>2. CASE FillsNoMore(j)
  <2> QED BY <1>2, IdleIs DEF FillsNoMore, JobOK, Capturing, Clearing, Filling, Free
<1>3. CASE Undoes(j)
  <2>1. PICK p \in Place : GoesTo(Undo(j), p, "clr_lock") /\ job'.rest = <<>>
    BY <1>3 DEF Undoes
  <2>2. /\ job'.pc = "undo_clear" /\ job'.todo = Place \ {p} /\ job'.at = p
        /\ DOMAIN job'.taken = Place
    BY <2>1, UndoIs DEF GoesTo
  <2>3. InCall(call'[restorer], ClearSteps, job'.at)
    BY <2>1 DEF GoesTo, InCall, ClearSteps
  <2> QED BY <2>1, <2>2, <2>3 DEF GoesTo, JobOK, Capturing, Clearing, Filling
<1> QED BY <1>1, <1>2, <1>3, FillGoesOn DEF FillsOn, FillsNext

(* An untouched fill goes on where it was, or is at its end.                *)
LEMMA FillProgress ==
  ASSUME QuietInv, Free(restorer), NEW j \in JobType, Filling(j), j.at \in Place,
         j.at \notin j.todo \/ j.rest = <<>>,
         DOMAIN j.taken = Place, j.todo \subseteq ToFill(Source(j)), AddFrom(j),
         UNCHANGED <<tokens, totalTokens, peekMu, history>>,
         FilledSoFar(j, tokens, j.rest), NEW st, j.taken = st
  PROVE  /\ Progress(job', call'[restorer], tokens', before'[restorer], st)
         /\ job'.pc = "idle" => tokens' = Content(Source(j))
<1>1. /\ tokens' = tokens /\ tokens \in [Place -> Seq(Token)] /\ j.rest \in Seq(Token)
  BY DEF QuietInv, MutexInv, PlaceTypeOK, JobType
<1>2. ASSUME NEW p \in Place, GoesTo(j, p, "add_check"),
             FilledSoFar(job', tokens, Pending(call'[restorer]) \o job'.rest)
      PROVE  Progress(job', call'[restorer], tokens', before'[restorer], st)
             /\ job'.pc # "idle"
  <2>1. Filling(job') /\ ~Capturing(job') /\ ~Clearing(job') /\ job'.pc # "idle"
    BY <1>2 DEF GoesTo, Filling, Capturing, Clearing
  <2>2. call'[restorer].pc = "add_check" /\ job'.taken = st
    BY <1>2 DEF GoesTo
  <2> QED BY <1>1, <1>2, <2>1, <2>2 DEF Progress, Fills
<1>3. ASSUME NEW p, GoesTo(j, p, "add_check")
      PROVE  /\ Pending(call'[restorer]) = <<call'[restorer].tok>>
             /\ Source(job') = Source(j)
  BY <1>3 DEF GoesTo, Pending, Source
<1>4. CASE FillsOn(j)
  <2>1. GoesTo(j, j.at, "add_check") /\ j.rest # <<>> /\ job'.rest = Tail(j.rest)
        /\ call'[restorer].tok = Head(j.rest)
    BY <1>4 DEF FillsOn
  <2>2. Pending(call'[restorer]) \o job'.rest = j.rest
    BY <1>1, <1>3, <2>1, HeadTail
  <2>3. job'.todo = j.todo /\ job'.at = j.at
    BY <2>1 DEF GoesTo
  <2>4. FilledSoFar(job', tokens, j.rest)
    BY <1>3, <2>1, <2>3 DEF FilledSoFar
  <2> QED BY <1>2, <2>1, <2>2, <2>4
<1>5. ASSUME NEW p \in Place, FillsNext(j, p)
      PROVE  Progress(job', call'[restorer], tokens', before'[restorer], st)
             /\ job'.pc # "idle"
  <2> DEFINE s == Source(j)[p]
  <2>1. /\ GoesTo(j, p, "add_check") /\ j.rest = <<>> /\ p \in j.todo
        /\ job'.rest = Tail(s) /\ call'[restorer].tok = Head(s)
    BY <1>5 DEF FillsNext
  <2>2. s \in Seq(Token) /\ s # <<>> /\ Content(Source(j))[p] = s
    BY <2>1, SourceIs
  <2>3. Pending(call'[restorer]) \o job'.rest = s
    BY <1>3, <2>1, <2>2, HeadTail
  <2>4. job'.todo = j.todo \ {p} /\ job'.at = p
    BY <2>1 DEF GoesTo
  <2>5. ASSUME NEW q \in Place
        PROVE  IF q \in job'.todo THEN tokens[q] = <<>>
               ELSE IF q = p THEN Content(Source(j))[q] = tokens[q] \o s
               ELSE Content(Source(j))[q] = tokens[q]
    <3>1. CASE q \in job'.todo
      BY <2>4, <3>1 DEF FilledSoFar
    <3>2. CASE q = p
      <4>1. tokens[p] = <<>>
        BY <2>1 DEF FilledSoFar
      <4>2. <<>> \o s = s
        BY <2>2, ConcatEmptySeq
      <4> QED BY <2>2, <2>4, <3>2, <4>1, <4>2
    <3>3. CASE q \notin job'.todo /\ q # p
      <4>1. q \notin j.todo
        BY <2>4, <3>3
      <4>2. tokens[q] \o <<>> = tokens[q]
        BY <1>1, ConcatEmptySeq
      <4> QED BY <2>1, <3>3, <4>1, <4>2 DEF FilledSoFar
    <3> QED BY <3>1, <3>2, <3>3
  <2>6. FilledSoFar(job', tokens, s)
    BY <1>3, <2>1, <2>4, <2>5 DEF FilledSoFar
  <2> QED BY <1>2, <2>1, <2>3, <2>6
<1>6. CASE FillsNoMore(j)
  <2>1. job'.pc = "idle" /\ j.rest = <<>> /\ j.todo = {}
    BY <1>6 DEF FillsNoMore, Idle, Job
  <2>2. ASSUME NEW q \in Place PROVE tokens[q] = Content(Source(j))[q]
    <3>1. tokens[q] \o <<>> = tokens[q]
      BY <1>1, ConcatEmptySeq
    <3> QED BY <2>1, <3>1 DEF FilledSoFar
  <2>3. tokens = Content(Source(j))
    BY <1>1, <2>2 DEF Content
  <2> QED BY <1>1, <2>1, <2>3 DEF Progress, Capturing, Clearing, Filling
<1>7. CASE Undoes(j)
  <2>1. PICK p \in Place : GoesTo(Undo(j), p, "clr_lock")
    BY <1>7 DEF Undoes
  <2>2. /\ job'.pc = "undo_clear" /\ job'.todo = Place \ {p} /\ job'.at = p
        /\ job'.taken = st /\ call'[restorer].pc = "clr_lock"
    BY <2>1, UndoIs DEF GoesTo
  <2> QED BY <2>2 DEF Progress, Capturing, Clearing, Filling, Empties
<1> QED BY <1>4, <1>5, <1>6, <1>7, FillGoesOn

-----------------------------------------------------------------------------
(* The steps of the restorer between its place calls.                       *)
CallNothing == UNCHANGED <<tokens, totalTokens, peekMu, history>>

JobTypes ==
  /\ Kept /\ job' \in JobType /\ JobOK(job', call'[restorer])
  /\ saved' \subseteq [Place -> Seq(Token)]
  /\ ops' \in 0 .. MaxOps
  /\ start' \in [Place -> Seq(Token)]
  /\ \A p \in Place : Len(start'[p]) <= Capacity[p]

(* What RestoreTypeInv says of the restorer between two calls.              *)
LEMMA RestorerFacts ==
  ASSUME RestoreTypeInv
  PROVE  /\ restorer \in Thread /\ QuietInv /\ MutexInv /\ PlaceTypeOK
         /\ tokens \in [Place -> Seq(Token)]
         /\ \A p \in Place : Len(tokens[p]) <= Capacity[p]
         /\ call[restorer] \in CallType /\ CallOK(call[restorer])
         /\ call[restorer].seen \in Seq(Token)
         /\ job \in JobType /\ JobOK(job, call[restorer])
         /\ job.pc # "idle" => job.at \in Place /\ job.at \notin job.todo
  BY RestorationAssumption DEF RestoreTypeInv, QuietInv, MutexInv, PlaceTypeOK,
     CallType, JobOK

(* A new job, at its first place.                                           *)
Starts(pc) ==
  /\ job.pc = "idle"
  /\ \E m \in Marking : PeekFrom(Job(pc, m))
  /\ ops' \in 0 .. MaxOps /\ start' = tokens
  /\ UNCHANGED saved

LEMMA StartsIs ==
  ASSUME RestoreTypeInv, NewMarking \/ RestoreMarkingToNet
  PROVE  Starts("snapshot") \/ Starts("backup")
<1>1. ops + 1 \in 0 .. MaxOps
  BY RestorationAssumption DEF RestoreTypeInv, NewMarking, RestoreMarkingToNet
<1>2. CASE NewMarking
  <2>1. Idle.from \in Marking
    BY IdleIs DEF JobType
  <2> QED BY <1>1, <1>2, <2>1 DEF NewMarking, Starts
<1>3. CASE RestoreMarkingToNet
  <2>1. PICK m \in Checkpoints \cup saved : PeekFrom(Job("backup", m))
    BY <1>3 DEF RestoreMarkingToNet
  <2>2. m \in Marking
    <3>1. CASE m \in Checkpoints
      BY <3>1, MarkingIs, RestorationAssumption
    <3>2. CASE m \in saved
      <4>1. m \in [Place -> Seq(Token)] /\ Place \in SUBSET (Place \cup Unknown)
        BY <3>2 DEF RestoreTypeInv
      <4> QED BY <4>1 DEF Marking
    <3> QED BY <3>1, <3>2
  <2> QED BY <1>1, <1>3, <2>1, <2>2 DEF RestoreMarkingToNet, Starts
<1> QED BY <1>2, <1>3

LEMMA StartsJob ==
  ASSUME RestoreTypeInv, NEW pc \in {"snapshot", "backup"}, Starts(pc), CallNothing
  PROVE  /\ JobTypes
         /\ Progress(job', call'[restorer], tokens', before'[restorer], start')
         /\ \A p \in Place : Found(job', call'[restorer], tokens', p) = Range(tokens[p])
         /\ job'.pc = pc
<1>1. /\ QuietInv /\ Free(restorer) /\ tokens \in [Place -> Seq(Token)]
      /\ \A p \in Place : Len(tokens[p]) <= Capacity[p]
  BY RestorerFacts DEF JobOK, Starts, Free
<1>2. PICK m \in Marking : PeekFrom(Job(pc, m))
  BY DEF Starts
<1> DEFINE j == Job(pc, m)
<1>3. /\ j \in JobType /\ j.pc = pc /\ j.todo = Place /\ DOMAIN j.taken = {}
      /\ j.rest = <<>>
  BY JobIs DEF Phases
<1>4. PeekFrom(j)
  BY <1>2
<1> HIDE DEF j
<1>5. PICK p \in Place : GoesTo(j, p, "peek_lock") /\ job'.rest = <<>>
  BY <1>1, <1>3, <1>4, PeekStarts DEF CallNothing
<1>6. /\ job'.pc = pc /\ job'.todo = Place \ {p} /\ job'.at = p
      /\ DOMAIN job'.taken = {} /\ job' \in JobType /\ Kept /\ job'.rest = <<>>
      /\ call'[restorer].pc = "peek_lock" /\ call'[restorer].place = p
      /\ call'[restorer].buf = <<>>
  BY <1>3, <1>5 DEF GoesTo
<1>7. Capturing(job') /\ ~Clearing(job') /\ ~Filling(job') /\ job'.pc # "idle"
  BY <1>6 DEF Capturing, Clearing, Filling
<1>8. JobOK(job', call'[restorer])
  BY <1>6, <1>7 DEF JobOK, InCall, PeekSteps
<1>9. tokens' = tokens /\ start' = tokens
  BY DEF CallNothing, Starts
<1>10. Progress(job', call'[restorer], tokens', before'[restorer], start')
  BY <1>6, <1>7, <1>9 DEF Progress, Captures
<1>11. ASSUME NEW q \in Place
       PROVE  Found(job', call'[restorer], tokens', q) = Range(tokens[q])
  <2>1. Range(<<>>) = {}
    BY DEF Range
  <2> QED BY <1>6, <1>9, <2>1 DEF Found
<1> QED BY <1>1, <1>6, <1>8, <1>9, <1>10, <1>11
        DEF JobTypes, Starts, RestoreTypeInv

(* What a capture has taken when a peek returns.                            *)
Taking == [job EXCEPT !.taken = With(@, job.at, call[restorer].seen)]

LEMMA TakingIs ==
  ASSUME RestoreTypeInv, Capturing(job), call[restorer].pc = "done"
  PROVE  /\ Taking \in JobType /\ Taking.pc = job.pc /\ Taking.todo = job.todo
         /\ Taking.at = job.at /\ Taking.from = job.from /\ Taking.rest = job.rest
         /\ DOMAIN Taking.taken = Place \ job.todo
         /\ \A p \in Place \ job.todo :
              Taking.taken[p] = IF p = job.at THEN call[restorer].seen
                                ELSE job.taken[p]
         /\ Taking.taken \in [Place \ job.todo -> Seq(Token)]
<1> DEFINE s == call[restorer].seen  m == With(job.taken, job.at, s)
           D == Place \ job.todo
<1>1. /\ job \in JobType /\ s \in Seq(Token) /\ job.at \in Place
      /\ job.at \notin job.todo
      /\ job.todo \subseteq Place
      /\ DOMAIN job.taken = Place \ (job.todo \cup {job.at})
  BY RestorerFacts DEF JobOK, Capturing
<1>2. \A p \in DOMAIN job.taken : job.taken[p] \in Seq(Token)
  <2>1. job.taken \in Marking
    BY <1>1 DEF JobType
  <2> QED BY <2>1 DEF Marking
<1>3. DOMAIN m = D
  BY <1>1 DEF With
<1>4. \A p \in D : m[p] = IF p = job.at THEN s ELSE job.taken[p]
  BY <1>1 DEF With
<1>5. m = [p \in D |-> m[p]]
  BY <1>3 DEF With
<1> HIDE DEF m
<1>6. m \in [D -> Seq(Token)]
  BY <1>1, <1>2, <1>4, <1>5
<1>7. m \in Marking
  <2>1. D \in SUBSET (Place \cup Unknown)
    OBVIOUS
  <2> QED BY <1>6, <2>1 DEF Marking
<1>8. Taking = [job EXCEPT !.taken = m]
  BY DEF Taking, m
<1>9. /\ Taking \in JobType /\ Taking.taken = m /\ Taking.pc = job.pc
      /\ Taking.todo = job.todo /\ Taking.at = job.at /\ Taking.from = job.from
      /\ Taking.rest = job.rest
  BY <1>1, <1>7, <1>8 DEF JobType
<1> QED BY <1>3, <1>4, <1>6, <1>9


(* A capture at its next place.                                             *)
LEMMA CaptureGoesOn ==
  ASSUME NEW j \in JobType, Capturing(j), j.todo \subseteq Place, NEW p \in j.todo,
         DOMAIN j.taken = Place \ j.todo, GoesTo(j, p, "peek_lock"),
         job'.rest = <<>>
  PROVE  /\ JobOK(job', call'[restorer]) /\ Capturing(job')
         /\ \A st : (\A q \in Place : tokens[q] = st[q])
                    /\ (\A q \in Place \ j.todo : j.taken[q] = st[q]) =>
              Progress(job', call'[restorer], tokens, before'[restorer], st)
         /\ \A q \in Place :
              Found(job', call'[restorer], tokens, q) =
                IF q \in j.todo THEN Range(tokens[q]) ELSE Range(j.taken[q])
<1>1. /\ job'.pc = j.pc /\ job'.todo = j.todo \ {p} /\ job'.at = p
      /\ job'.taken = j.taken /\ p \in Place
      /\ call'[restorer].pc = "peek_lock" /\ call'[restorer].place = p
      /\ call'[restorer].buf = <<>>
  BY DEF GoesTo
<1>2. Capturing(job') /\ ~Clearing(job') /\ ~Filling(job') /\ job'.pc # "idle"
  BY <1>1 DEF Capturing, Clearing, Filling
<1>3. DOMAIN job'.taken = Place \ (job'.todo \cup {job'.at})
  BY <1>1
<1>4. JobOK(job', call'[restorer])
  BY <1>1, <1>2, <1>3 DEF JobOK, InCall, PeekSteps
<1>5. ASSUME NEW st, \A q \in Place : tokens[q] = st[q],
             \A q \in Place \ j.todo : j.taken[q] = st[q]
      PROVE  Progress(job', call'[restorer], tokens, before'[restorer], st)
  BY <1>1, <1>2, <1>3, <1>5 DEF Progress, Captures
<1>6. ASSUME NEW q \in Place
      PROVE  Found(job', call'[restorer], tokens, q) =
               IF q \in j.todo THEN Range(tokens[q]) ELSE Range(j.taken[q])
  <2>1. Range(<<>>) = {}
    BY DEF Range
  <2> QED BY <1>1, <2>1 DEF Found
<1> QED BY <1>2, <1>4, <1>5, <1>6

(* A clearing at its next place.                                            *)
LEMMA ClearGoesOn ==
  ASSUME NEW j \in JobType, Clearing(j), j.todo \subseteq Place, NEW p \in j.todo,
         DOMAIN j.taken = Place, GoesTo(j, p, "clr_lock"), job'.rest = <<>>
  PROVE  /\ JobOK(job', call'[restorer]) /\ Clearing(job')
         /\ \A st : (\A q \in Place \ j.todo : tokens[q] = <<>>) /\ j.taken = st =>
              Progress(job', call'[restorer], tokens, before'[restorer], st)
<1>1. /\ job'.pc = j.pc /\ job'.todo = j.todo \ {p} /\ job'.at = p
      /\ job'.taken = j.taken /\ p \in Place
      /\ call'[restorer].pc = "clr_lock" /\ call'[restorer].place = p
  BY DEF GoesTo
<1>2. Clearing(job') /\ ~Capturing(job') /\ ~Filling(job') /\ job'.pc # "idle"
  BY <1>1 DEF Capturing, Clearing, Filling
<1>3. JobOK(job', call'[restorer])
  BY <1>1, <1>2 DEF JobOK, InCall, ClearSteps
<1>4. ASSUME NEW st, \A q \in Place \ j.todo : tokens[q] = <<>>, j.taken = st
      PROVE  Progress(job', call'[restorer], tokens, before'[restorer], st)
  BY <1>1, <1>2, <1>4 DEF Progress, Empties
<1> QED BY <1>2, <1>3, <1>4

(* A step of the restorer between two calls keeps what it knows.            *)
KeepsProgress ==
  Progress(job, call[restorer], tokens, before[restorer], start) =>
    Progress(job', call'[restorer], tokens', before'[restorer], start')

KeepsFound ==
  job'.pc = "snapshot" =>
    /\ job.pc = "snapshot"
    /\ \A p \in Place : Found(job, call[restorer], tokens, p)
                          \subseteq Found(job', call'[restorer], tokens', p)

SnapshotDone ==
  job.pc = "snapshot" /\ job'.pc = "idle" =>
    \E m \in saved' :
       /\ m = With(job.taken, job.at, call[restorer].seen)
       /\ \A p \in Place : Found(job, call[restorer], tokens, p) \subseteq Range(m[p])

LEMMA IdleProgress ==
  ASSUME NEW j, j.pc = "idle", NEW c, NEW tk, NEW held, NEW st
  PROVE  Progress(j, c, tk, held, st)
  BY DEF Progress, Capturing, Clearing, Filling

LEMMA CapturedStep ==
  ASSUME RestoreTypeInv, Captured, CallNothing
  PROVE  /\ JobTypes /\ KeepsProgress /\ KeepsFound /\ SnapshotDone
         /\ job'.pc = "idle" => job.pc = "snapshot"
<1> DEFINE j == Taking  c == call[restorer]
<1>1. /\ QuietInv /\ tokens \in [Place -> Seq(Token)] /\ restorer \in Thread
      /\ job.at \in Place /\ job.at \notin job.todo /\ JobOK(job, c)
      /\ c.pc = "done" /\ Capturing(job) /\ Free(restorer)
  BY RestorerFacts DEF Captured, Returned, Capturing, Free
<1>2. /\ j \in JobType /\ j.pc = job.pc /\ j.todo = job.todo /\ j.at = job.at
      /\ j.rest = job.rest
      /\ DOMAIN j.taken = Place \ job.todo
      /\ \A p \in Place \ job.todo :
           j.taken[p] = IF p = job.at THEN c.seen ELSE job.taken[p]
      /\ j.taken \in [Place \ job.todo -> Seq(Token)]
  BY <1>1, TakingIs
<1>3. /\ job.todo \subseteq Place /\ job.rest = <<>>
      /\ DOMAIN job.taken = Place \ (job.todo \cup {job.at})
  BY <1>1 DEF JobOK
<1>4. \/ j.todo # {} /\ PeekFrom(j) /\ UNCHANGED saved
      \/ /\ j.todo = {} /\ j.pc = "snapshot"
         /\ saved' = saved \cup {j.taken}
         /\ Do(Idle) /\ UNCHANGED call
      \/ /\ j.todo = {} /\ j.pc = "backup"
         /\ ClearFrom([j EXCEPT !.pc = "clear", !.todo = Place])
         /\ UNCHANGED saved
  BY DEF Captured, Taking
<1>5. UNCHANGED <<ops, start, tokens>>
  BY DEF Captured, CallNothing
<1>6. j.taken = With(job.taken, job.at, c.seen)
  BY <1>1, RestorerFacts DEF Taking, JobType
<1> HIDE DEF j, c
<1>7. \A p \in Place : Found(job, c, tokens, p) =
                         IF p \in job.todo THEN Range(tokens[p]) ELSE Range(j.taken[p])
  BY <1>1, <1>2, <1>3 DEF Found
<1>8. ASSUME Progress(job, c, tokens, before[restorer], start)
      PROVE  /\ \A p \in Place : tokens[p] = start[p]
             /\ \A p \in Place \ job.todo : j.taken[p] = start[p]
  BY <1>1, <1>2, <1>3, <1>8 DEF Progress, Captures
<1>9. /\ saved \subseteq [Place -> Seq(Token)] /\ ops \in 0 .. MaxOps
      /\ start \in [Place -> Seq(Token)]
      /\ \A p \in Place : Len(start[p]) <= Capacity[p]
  BY DEF RestoreTypeInv
<1>10. CASE j.todo # {} /\ PeekFrom(j) /\ UNCHANGED saved
  <2>1. PICK p \in j.todo : GoesTo(j, p, "peek_lock") /\ job'.rest = <<>>
    BY <1>1, <1>2, <1>3, <1>10, PeekStarts DEF CallNothing
  <2>2. Capturing(j) /\ j.todo \subseteq Place
    BY <1>1, <1>2, <1>3 DEF Capturing
  <2>3. /\ JobOK(job', call'[restorer]) /\ Capturing(job')
        /\ \A st : (\A q \in Place : tokens[q] = st[q])
                   /\ (\A q \in Place \ j.todo : j.taken[q] = st[q]) =>
             Progress(job', call'[restorer], tokens, before'[restorer], st)
        /\ \A q \in Place :
             Found(job', call'[restorer], tokens, q) =
               IF q \in j.todo THEN Range(tokens[q]) ELSE Range(j.taken[q])
    BY <1>2, <2>1, <2>2, CaptureGoesOn
  <2>4. Kept /\ job' \in JobType /\ job'.pc = job.pc
    BY <1>2, <2>1 DEF GoesTo
  <2>5. JobTypes
    BY <1>5, <1>9, <1>10, <2>3, <2>4 DEF JobTypes
  <2>6. KeepsProgress
    BY <1>2, <1>5, <1>8, <2>3 DEF KeepsProgress, c
  <2>7. KeepsFound
    BY <1>2, <1>5, <1>7, <2>3, <2>4 DEF KeepsFound, c
  <2> QED BY <1>1, <2>4, <2>5, <2>6, <2>7 DEF SnapshotDone, Capturing
<1>11. CASE /\ j.todo = {} /\ j.pc = "snapshot"
            /\ saved' = saved \cup {j.taken}
            /\ Do(Idle) /\ UNCHANGED call
  <2>1. job' \in JobType /\ job'.pc = "idle"
    BY <1>11, IdleIs DEF Do
  <2>2. Kept
    <3>1. UNCHANGED placeVars
      BY <1>11 DEF CallNothing, placeVars, history
    <3> QED BY <1>1, <3>1, NothingQuiet
  <2>3. JobOK(job', call'[restorer])
    BY <1>1, <1>11, <2>1 DEF JobOK, Capturing, Clearing, Filling, c
  <2>4. j.taken \in [Place -> Seq(Token)]
    BY <1>2, <1>11
  <2>5. JobTypes
    BY <1>5, <1>9, <1>11, <2>1, <2>2, <2>3, <2>4 DEF JobTypes
  <2>6. SnapshotDone
    <3>1. \A p \in Place : Found(job, c, tokens, p) \subseteq Range(j.taken[p])
      BY <1>2, <1>7, <1>11
    <3> QED BY <1>6, <1>11, <3>1 DEF SnapshotDone, c
  <2> QED BY <1>2, <1>11, <2>1, <2>5, <2>6, IdleProgress DEF KeepsProgress, KeepsFound
<1>12. CASE /\ j.todo = {} /\ j.pc = "backup"
            /\ ClearFrom([j EXCEPT !.pc = "clear", !.todo = Place])
            /\ UNCHANGED saved
  <2> DEFINE k == [j EXCEPT !.pc = "clear", !.todo = Place]
  <2>1. /\ k \in JobType /\ k.pc = "clear" /\ k.todo = Place /\ k.taken = j.taken
        /\ k.rest = j.rest
    BY <1>2 DEF JobType, Phases
  <2>2. ClearFrom(k)
    BY <1>12
  <2> HIDE DEF k
  <2>3. PICK p \in k.todo : GoesTo(k, p, "clr_lock") /\ job'.rest = <<>>
    BY <1>1, <1>2, <1>3, <2>1, <2>2, ClearStarts DEF CallNothing
  <2>4. Clearing(k) /\ DOMAIN k.taken = Place
    BY <1>2, <1>12, <2>1 DEF Clearing
  <2>5. /\ JobOK(job', call'[restorer]) /\ Clearing(job')
        /\ \A st : (\A q \in Place \ k.todo : tokens[q] = <<>>) /\ k.taken = st =>
             Progress(job', call'[restorer], tokens, before'[restorer], st)
    BY <2>1, <2>3, <2>4, ClearGoesOn
  <2>6. Kept /\ job' \in JobType /\ job'.pc = "clear"
    BY <2>1, <2>3 DEF GoesTo
  <2>7. JobTypes
    BY <1>5, <1>9, <1>12, <2>5, <2>6 DEF JobTypes
  <2>8. KeepsProgress
    <3>1. ASSUME Progress(job, c, tokens, before[restorer], start)
          PROVE  k.taken = start
      <4>1. \A q \in Place : k.taken[q] = start[q]
        BY <1>2, <1>8, <1>12, <2>1, <3>1
      <4>2. k.taken \in [Place -> Seq(Token)]
        BY <1>2, <1>12, <2>1
      <4> QED BY <1>9, <4>1, <4>2
    <3> QED BY <1>5, <2>1, <2>5, <3>1 DEF KeepsProgress, c
  <2> QED BY <2>6, <2>7, <2>8 DEF KeepsFound, SnapshotDone
<1> QED BY <1>4, <1>10, <1>11, <1>12

(* How a restore ends that nobody touches.                                  *)
RestoredOrUndone ==
  Progress(job, call[restorer], tokens, before[restorer], start) /\ job'.pc = "idle" =>
    /\ job.pc \in {"clear", "restore"} => tokens' = Content(job.from)
    /\ job.pc \in {"undo_clear", "undo"} => tokens' = start

JobStep ==
  /\ JobTypes /\ KeepsProgress /\ KeepsFound /\ SnapshotDone
  /\ RestoredOrUndone

LEMMA ContentIs ==
  ASSUME NEW m \in [Place -> Seq(Token)] PROVE Content(m) = m
  BY DEF Content

(* Where the net is empty, the loop that fills it can begin.                *)
LEMMA EmptyIsFilledSoFar ==
  ASSUME NEW j \in JobType, j.todo = ToFill(Source(j)),
         \A p \in Place : tokens[p] = <<>>
  PROVE  FilledSoFar(j, tokens, <<>>)
<1>1. \A p \in Place \ j.todo : Content(Source(j))[p] = <<>>
  BY SourceIs
<1>2. <<>> \o <<>> = <<>>
  <2>1. <<>> \in Seq(Token)
    OBVIOUS
  <2> QED BY <2>1, ConcatEmptySeq
<1> QED BY <1>1, <1>2 DEF FilledSoFar

(* The loop that fills the net goes on, or ends.                            *)
LEMMA FillStep ==
  ASSUME RestoreTypeInv, Free(restorer), CallNothing, UNCHANGED <<saved, ops, start>>,
         NEW j \in JobType, Filling(j), j.at \in Place,
         j.at \notin j.todo \/ j.rest = <<>>, j.taken = job.taken,
         DOMAIN j.taken = Place, j.todo \subseteq ToFill(Source(j)), AddFrom(j),
         ~Capturing(job),
         Progress(job, call[restorer], tokens, before[restorer], start) =>
           FilledSoFar(j, tokens, j.rest) /\ j.taken = start,
         job.pc \in {"clear", "restore"} => Source(j) = job.from,
         job.pc \in {"undo_clear", "undo"} => Source(j) = j.taken
  PROVE  JobStep
<1>1. /\ QuietInv /\ UNCHANGED <<tokens, totalTokens, peekMu, history>>
      /\ start \in [Place -> Seq(Token)]
  BY DEF RestoreTypeInv, CallNothing
<1>2. Kept /\ job' \in JobType /\ JobOK(job', call'[restorer]) /\ ~Capturing(job')
  BY <1>1, FillTypes
<1>3. JobTypes
  BY <1>2 DEF JobTypes, RestoreTypeInv
<1>4. ASSUME Progress(job, call[restorer], tokens, before[restorer], start)
      PROVE  /\ Progress(job', call'[restorer], tokens', before'[restorer], start)
             /\ job'.pc = "idle" => tokens' = Content(Source(j))
  <2>1. FilledSoFar(j, tokens, j.rest) /\ j.taken = start
    BY <1>4
  <2> QED BY <1>1, <2>1, FillProgress
<1>5. KeepsProgress
  BY <1>4 DEF KeepsProgress
<1>6. RestoredOrUndone
  <2>1. Content(start) = start
    BY <1>1, ContentIs
  <2> QED BY <1>4, <2>1 DEF RestoredOrUndone
<1>7. KeepsFound /\ SnapshotDone
  BY <1>2 DEF KeepsFound, SnapshotDone, Capturing
<1> QED BY <1>3, <1>5, <1>6, <1>7 DEF JobStep

(* A clearing begins or goes on.                                            *)
LEMMA ClearStep ==
  ASSUME RestoreTypeInv, Free(restorer), CallNothing, UNCHANGED <<saved, ops, start>>,
         NEW j \in JobType, Clearing(j), j.rest = <<>>, j.todo \subseteq Place,
         j.taken = job.taken, DOMAIN j.taken = Place, ClearFrom(j), ~Capturing(job),
         Progress(job, call[restorer], tokens, before[restorer], start) =>
           (\A q \in Place \ j.todo : tokens[q] = <<>>) /\ j.taken = start
  PROVE  JobStep
<1>1. QuietInv /\ UNCHANGED <<tokens, totalTokens, peekMu, history>>
  BY DEF RestoreTypeInv, CallNothing
<1>2. PICK p \in j.todo : GoesTo(j, p, "clr_lock") /\ job'.rest = <<>>
  BY <1>1, ClearStarts
<1>3. /\ JobOK(job', call'[restorer]) /\ Clearing(job')
      /\ \A st : (\A q \in Place \ j.todo : tokens[q] = <<>>) /\ j.taken = st =>
           Progress(job', call'[restorer], tokens, before'[restorer], st)
  BY <1>2, ClearGoesOn
<1>4. Kept /\ job' \in JobType
  BY <1>2 DEF GoesTo
<1>5. JobTypes
  BY <1>3, <1>4 DEF JobTypes, RestoreTypeInv
<1>6. KeepsProgress
  BY <1>1, <1>3 DEF KeepsProgress
<1>7. KeepsFound /\ SnapshotDone /\ RestoredOrUndone
  BY <1>3 DEF KeepsFound, SnapshotDone, RestoredOrUndone, Capturing, Clearing
<1> QED BY <1>5, <1>6, <1>7 DEF JobStep

LEMMA ClearedStep ==
  ASSUME RestoreTypeInv, Cleared, CallNothing
  PROVE  JobStep
<1>1. /\ restorer \in Thread /\ job \in JobType /\ JobOK(job, call[restorer])
      /\ call[restorer].pc = "done" /\ Clearing(job) /\ Free(restorer)
      /\ job.at \in Place
  BY RestorerFacts DEF Cleared, Returned, Clearing, Free
<1>2. /\ job.todo \subseteq Place /\ job.rest = <<>> /\ DOMAIN job.taken = Place
      /\ ~Capturing(job) /\ ~Filling(job)
  BY <1>1 DEF JobOK, Capturing, Clearing, Filling
<1>3. ASSUME Progress(job, call[restorer], tokens, before[restorer], start)
      PROVE  (\A q \in Place \ job.todo : tokens[q] = <<>>) /\ job.taken = start
  BY <1>1, <1>3 DEF Progress, Empties
<1>4. UNCHANGED <<saved, ops, start>>
  BY DEF Cleared
<1>5. CASE job.todo # {}
  <2>1. ClearFrom(job)
    BY <1>5 DEF Cleared
  <2> QED BY <1>1, <1>2, <1>3, <1>4, <2>1, ClearStep
<1>6. ASSUME NEW pc \in {"restore", "undo"}, NEW k,
             k = [job EXCEPT !.pc = pc,
                             !.todo = ToFill(IF pc = "restore" THEN job.from ELSE job.taken)],
             job.todo = {}, AddFrom(k),
             job.pc = IF pc = "restore" THEN "clear" ELSE "undo_clear"
      PROVE  JobStep
  <2>1. /\ k.pc = pc /\ k.at = job.at /\ k.rest = <<>> /\ k.taken = job.taken
        /\ k.from = job.from
        /\ k.todo = ToFill(IF pc = "restore" THEN job.from ELSE job.taken)
    BY <1>1, <1>2, <1>6 DEF JobType
  <2>2. ToFill(IF pc = "restore" THEN job.from ELSE job.taken)
          \subseteq Place \cup Unknown
    <3>1. job.from \in Marking /\ job.taken \in Marking
      BY <1>1 DEF JobType
    <3> QED BY <3>1 DEF ToFill, Marking
  <2>3. k \in JobType
    BY <1>1, <1>6, <2>2 DEF JobType, Phases
  <2>4. Source(k) = IF pc = "restore" THEN job.from ELSE job.taken
    BY <2>1 DEF Source
  <2>5. Filling(k)
    BY <2>1 DEF Filling
  <2>6. ASSUME Progress(job, call[restorer], tokens, before[restorer], start)
        PROVE  FilledSoFar(k, tokens, k.rest) /\ k.taken = start
    <3>1. \A q \in Place : tokens[q] = <<>>
      BY <1>3, <1>6, <2>6
    <3>2. k.todo = ToFill(Source(k))
      BY <2>1, <2>4
    <3>3. FilledSoFar(k, tokens, <<>>)
      BY <2>3, <3>1, <3>2, EmptyIsFilledSoFar
    <3> QED BY <1>3, <2>1, <2>6, <3>3
  <2>7. /\ k.at \in Place /\ DOMAIN k.taken = Place /\ k.todo \subseteq ToFill(Source(k))
        /\ job.pc \in {"clear", "restore"} => Source(k) = job.from
        /\ job.pc \in {"undo_clear", "undo"} => Source(k) = k.taken
    BY <1>1, <1>2, <1>6, <2>1, <2>4
  <2> QED BY <1>1, <1>2, <1>4, <1>6, <2>1, <2>3, <2>5, <2>6, <2>7, FillStep
<1>7. CASE job.todo = {} /\ job.pc = "clear"
  <2> DEFINE k == [job EXCEPT !.pc = "restore", !.todo = ToFill(job.from)]
  <2>1. AddFrom(k)
    BY <1>7 DEF Cleared, Returned
  <2>2. k = [job EXCEPT !.pc = "restore",
               !.todo = ToFill(IF "restore" = "restore" THEN job.from ELSE job.taken)]
    OBVIOUS
  <2> HIDE DEF k
  <2>3. "restore" \in {"restore", "undo"}
    OBVIOUS
  <2> QED BY <1>6, <1>7, <2>1, <2>2, <2>3
<1>8. CASE job.todo = {} /\ job.pc = "undo_clear"
  <2> DEFINE k == [job EXCEPT !.pc = "undo", !.todo = ToFill(job.taken)]
  <2>1. AddFrom(k)
    BY <1>8 DEF Cleared, Returned
  <2>2. k = [job EXCEPT !.pc = "undo",
               !.todo = ToFill(IF "undo" = "restore" THEN job.from ELSE job.taken)]
    OBVIOUS
  <2> HIDE DEF k
  <2>3. "undo" \in {"restore", "undo"} /\ "undo" # "restore"
    OBVIOUS
  <2> QED BY <1>6, <1>8, <2>1, <2>2, <2>3
<1> QED BY <1>1, <1>5, <1>7, <1>8 DEF Clearing

LEMMA AddedStep ==
  ASSUME RestoreTypeInv, Added, CallNothing
  PROVE  JobStep
<1> DEFINE c == call[restorer]
<1>1. /\ restorer \in Thread /\ job \in JobType /\ JobOK(job, c)
      /\ c.pc = "done" /\ Filling(job) /\ Free(restorer)
      /\ job.at \in Place /\ job.at \notin job.todo
  BY RestorerFacts DEF Added, Returned, Filling, Free
<1>2. /\ job.todo \subseteq ToFill(Source(job)) /\ DOMAIN job.taken = Place
      /\ ~Capturing(job) /\ ~Clearing(job) /\ job.rest \in Seq(Token)
  BY <1>1 DEF JobOK, Capturing, Clearing, Filling, JobType
<1>3. UNCHANGED <<saved, ops, start>>
  BY DEF Added
<1>4. ASSUME Progress(job, c, tokens, before[restorer], start)
      PROVE  /\ job.taken = start
             /\ job.pc = "undo" \/ c.ok => FilledSoFar(job, tokens, job.rest)
  <2>1. Pending(c) \o job.rest = job.rest
    <3>1. Pending(c) = <<>>
      BY <1>1 DEF Pending
    <3> QED BY <1>2, <3>1, ConcatEmptySeq
  <2>2. job.taken = start /\ Fills(job, c, tokens)
    BY <1>1, <1>4 DEF Progress
  <2> QED BY <1>1, <2>1, <2>2 DEF Fills
<1>5. CASE AddFrom(job) /\ (job.pc = "undo" \/ c.ok)
  <2>1. /\ job.pc \in {"clear", "restore"} => Source(job) = job.from
        /\ job.pc \in {"undo_clear", "undo"} => Source(job) = job.taken
    BY <1>1 DEF Source, Filling
  <2> QED BY <1>1, <1>2, <1>3, <1>4, <1>5, <2>1, FillStep
<1>6. CASE ClearFrom(Undo(job))
  <2> DEFINE k == Undo(job)
  <2>1. /\ k \in JobType /\ k.pc = "undo_clear" /\ k.todo = Place /\ k.rest = <<>>
        /\ k.taken = job.taken
    BY <1>1, UndoIs
  <2>2. ClearFrom(k)
    BY <1>6
  <2> HIDE DEF k
  <2>3. Clearing(k) /\ k.todo \subseteq Place /\ DOMAIN k.taken = Place
    BY <1>2, <2>1 DEF Clearing
  <2>4. ASSUME Progress(job, call[restorer], tokens, before[restorer], start)
        PROVE  (\A q \in Place \ k.todo : tokens[q] = <<>>) /\ k.taken = start
    BY <1>4, <2>1, <2>4
  <2> QED BY <1>1, <1>2, <1>3, <2>1, <2>2, <2>3, <2>4, ClearStep
<1> QED BY <1>5, <1>6 DEF Added, Returned

-----------------------------------------------------------------------------
(* The steps of the place calls of the restorer.                            *)
LEMMA RangeOfEmpty == Range(<<>>) = {}
  BY DEF Range

LEMMA RangeOfHead ==
  ASSUME NEW s \in Seq(Token), s # <<>>
  PROVE  Range(s) \subseteq {Head(s)} \cup Range(Tail(s))
<1>1. /\ Len(s) \in Nat \ {0} /\ Head(s) = s[1] /\ DOMAIN s = 1 .. Len(s)
      /\ DOMAIN Tail(s) = 1 .. Len(s) - 1
      /\ \A i \in 1 .. Len(s) - 1 : Tail(s)[i] = s[i + 1]
  BY EmptySeq, HeadTailProperties, LenProperties
<1>2. ASSUME NEW i \in 1 .. Len(s), i # 1
      PROVE  s[i] \in Range(Tail(s))
  <2>1. i - 1 \in 1 .. Len(s) - 1 /\ (i - 1) + 1 = i
    BY <1>1, <1>2
  <2>2. Tail(s)[i - 1] = s[i] /\ i - 1 \in DOMAIN Tail(s)
    BY <1>1, <2>1
  <2> QED BY <2>2 DEF Range
<1> QED BY <1>1, <1>2 DEF Range

LEMMA RangeOfAppend ==
  ASSUME NEW s \in Seq(Token), NEW t \in Token
  PROVE  Range(s) \cup {t} \subseteq Range(Append(s, t))
<1>1. /\ Len(s) \in Nat /\ DOMAIN s = 1 .. Len(s)
      /\ DOMAIN Append(s, t) = 1 .. Len(s) + 1
      /\ \A i \in 1 .. Len(s) : Append(s, t)[i] = s[i]
      /\ Append(s, t)[Len(s) + 1] = t
  BY AppendProperties, LenProperties
<1>2. /\ \A i \in 1 .. Len(s) : i \in DOMAIN Append(s, t)
      /\ Len(s) + 1 \in DOMAIN Append(s, t)
  BY <1>1
<1> QED BY <1>1, <1>2 DEF Range

(* A step of the restorer disturbs others only, and its drains forget the   *)
(* disturbance when they end.                                               *)
Notices ==
  restorer \in disturbed' => restorer \in disturbed /\ call'[restorer].pc \in DrainSteps

(* What a snapshot finds in the place where it is.                          *)
FoundAt(c, s) ==
  IF c.pc \in {"peek_refill", "done"} THEN Range(c.seen) ELSE Range(s) \cup Range(c.buf)

PeekTurn(c, d, p) ==
  /\ InCall(d, PeekSteps, p) /\ Notices
  /\ \A q \in Place \ {p} : tokens'[q] = tokens[q]
  /\ c.pc = "peek_lock" =>
       d.pc = "peek_drain" /\ before'[restorer] = tokens[p] /\ tokens' = tokens
  /\ c.pc # "peek_lock" /\ d.pc # "done" =>
       d.pc \in {"peek_drain", "peek_refill"} /\ before'[restorer] = before[restorer]
  /\ FoundAt(c, tokens[p]) \subseteq FoundAt(d, tokens'[p])

LEMMA PeekTurnIs ==
  ASSUME RestoreTypeInv, Capturing(job), PlaceStep(restorer)
  PROVE  PeekTurn(call[restorer], call'[restorer], job.at)
<1> DEFINE r == restorer  c == call[r]  p == c.place  d == call'[r]
<1>1. /\ r \in Thread /\ MutexInv /\ PlaceTypeOK /\ c \in CallType /\ CallOK(c)
      /\ tokens \in [Place -> Seq(Token)] /\ before \in [Thread -> Seq(Token)]
      /\ InCall(c, PeekSteps, job.at) /\ RestorerNotices
  BY RestorerFacts DEF PlaceTypeOK, JobOK, RestoreTypeInv
<1>2. c.pc \in PeekSteps /\ p = job.at /\ p \in Place
  <2>1. c.pc # "done"
    BY DEF PlaceStep, AddCheck, AddSend, AddCount, RemoveReceive, RemoveCount,
       PeekLock, PeekDrain, PeekRefill, PwcLock, PwcDrain, PwcRefill, ClearLock,
       ClearLen, ClearReceive
  <2>2. c.pc \in PeekSteps /\ p = job.at
    BY <1>1, <2>1 DEF InCall
  <2> QED BY <1>1, <2>2 DEF CallOK, Steps, PeekSteps, LockSteps, DrainSteps
<1>3. PeekLock(r) \/ PeekDrain(r) \/ PeekRefill(r)
  BY <1>2 DEF PlaceStep, AddCheck, AddSend, AddCount, RemoveReceive, RemoveCount,
     PwcLock, PwcDrain, PwcRefill, ClearLock, ClearLen, ClearReceive, PeekSteps
<1>4. tokens[p] \in Seq(Token) /\ c.buf \in Seq(Token) /\ c.seen \in Seq(Token)
  BY <1>1, <1>2 DEF CallType
<1>5. CASE PeekLock(r)
  <2>1. d.pc = "peek_drain" /\ d.place = p /\ d.buf = c.buf
    BY <1>1, <1>5, SetSelf DEF PeekLock, Goto, CallType
  <2>2. /\ tokens' = tokens /\ disturbed' = disturbed /\ c.pc = "peek_lock"
        /\ before'[r] = tokens[p]
    BY <1>1, <1>5 DEF PeekLock, LockPeek
  <2>3. r \notin disturbed
    BY <1>1, <2>2 DEF RestorerNotices, DrainSteps
  <2> QED BY <1>2, <2>1, <2>2, <2>3 DEF PeekTurn, InCall, PeekSteps, Notices, FoundAt
<1>6. CASE PeekDrain(r)
  <2>0. c.pc = "peek_drain"
    BY <1>6 DEF PeekDrain
  <2>1. CASE Drain(r)
    <3> DEFINE b == Append(c.buf, Head(tokens[p]))
    <3>1. d.pc = "peek_drain" /\ d.place = p /\ d.buf = b
      BY <1>1, <2>0, <2>1, SetSelf DEF Drain, CallType
    <3>2. /\ tokens[p] # <<>> /\ tokens' = [tokens EXCEPT ![p] = Tail(tokens[p])]
          /\ before' = before
      BY <2>1 DEF Drain, Receive
    <3>3. disturbed' = disturbed
      <4>1. peekMu[p] = r
        BY <1>1, <1>2, <2>0 DEF MutexInv, PeekMutex, DrainSteps
      <4> QED BY <2>1, <4>1, DisturbSelf DEF Drain, Receive
    <3>4. tokens'[p] = Tail(tokens[p]) /\ \A q \in Place \ {p} : tokens'[q] = tokens[q]
      BY <1>1, <1>2, <3>2
    <3>5. Range(tokens[p]) \cup Range(c.buf) \subseteq Range(tokens'[p]) \cup Range(b)
      <4>1. Head(tokens[p]) \in Token
        BY <1>4, <3>2, HeadTailProperties
      <4>2. Range(c.buf) \cup {Head(tokens[p])} \subseteq Range(b)
        BY <1>4, <4>1, RangeOfAppend
      <4>3. Range(tokens[p]) \subseteq {Head(tokens[p])} \cup Range(Tail(tokens[p]))
        BY <1>4, <3>2, RangeOfHead
      <4> HIDE DEF b
      <4> QED BY <3>4, <4>2, <4>3
    <3> HIDE DEF b
    <3> QED BY <1>2, <2>0, <3>1, <3>2, <3>3, <3>4, <3>5
            DEF PeekTurn, InCall, PeekSteps, Notices, FoundAt, DrainSteps
  <2>2. CASE tokens[p] = <<>> /\ c.buf = <<>> /\ ~Drain(r)
    <3>1. /\ Return(r, TRUE, None, <<>>) /\ tokens' = tokens
          /\ disturbed' = disturbed \ {r}
      BY <1>6, <2>2 DEF PeekDrain
    <3>2. d.pc = "done"
      BY <1>1, <3>1, SetSelf DEF Return, Result
    <3> QED BY <1>2, <2>0, <2>2, <3>1, <3>2, RangeOfEmpty
            DEF PeekTurn, InCall, Notices, FoundAt
  <2>3. CASE tokens[p] = <<>> /\ c.buf # <<>> /\ ~Drain(r)
    <3> DEFINE e == [c EXCEPT !.pc = "peek_refill", !.seen = c.buf]
    <3>1. Set(r, e) /\ UNCHANGED <<tokens, before, disturbed>>
      BY <1>6, <2>3 DEF PeekDrain
    <3>2. e.pc = "peek_refill" /\ e.place = p /\ e.seen = c.buf
      BY <1>1 DEF CallType
    <3> HIDE DEF e
    <3>3. d = e
      BY <1>1, <3>1, SetSelf
    <3> QED BY <1>2, <2>0, <2>3, <3>1, <3>2, <3>3, RangeOfEmpty
            DEF PeekTurn, InCall, PeekSteps, Notices, FoundAt, DrainSteps
  <2> QED BY <1>6, <2>1, <2>2, <2>3 DEF PeekDrain, Drain
<1>7. CASE PeekRefill(r)
  <2>0. c.pc = "peek_refill" /\ Refilled(r, TRUE)
    BY <1>7 DEF PeekRefill
  <2>1. \A q \in Place \ {p} : tokens'[q] = tokens[q]
    BY <1>1, <1>2, <1>7 DEF PeekRefill
  <2>2. CASE /\ Set(r, [c EXCEPT !.buf = Tail(@)])
             /\ UNCHANGED <<peekMu, before, disturbed>>
    <3>1. d.pc = "peek_refill" /\ d.place = p /\ d.seen = c.seen
      BY <1>1, <2>0, <2>2, SetSelf DEF CallType
    <3> QED BY <1>2, <2>0, <2>1, <2>2, <3>1
            DEF PeekTurn, InCall, PeekSteps, Notices, FoundAt, DrainSteps
  <2>3. CASE Return(r, TRUE, None, c.seen) /\ disturbed' = disturbed \ {r}
    <3>1. d.pc = "done" /\ d.seen = c.seen
      BY <1>1, <2>3, SetSelf DEF Return, Result
    <3> QED BY <1>2, <2>0, <2>1, <2>3, <3>1 DEF PeekTurn, InCall, Notices, FoundAt
  <2> QED BY <2>0, <2>2, <2>3 DEF Refilled
<1> QED BY <1>2, <1>3, <1>5, <1>6, <1>7

ClearTurn(d, p) ==
  /\ InCall(d, ClearSteps, p) /\ Notices
  /\ \A q \in Place \ {p} : tokens'[q] = tokens[q]
  /\ d.pc = "done" => tokens'[p] = <<>>

LEMMA ClearTurnIs ==
  ASSUME RestoreTypeInv, Clearing(job), PlaceStep(restorer)
  PROVE  ClearTurn(call'[restorer], job.at)
<1> DEFINE r == restorer  c == call[r]  p == c.place  d == call'[r]
<1>1. /\ r \in Thread /\ MutexInv /\ PlaceTypeOK /\ c \in CallType /\ CallOK(c)
      /\ tokens \in [Place -> Seq(Token)]
      /\ InCall(c, ClearSteps, job.at) /\ RestorerNotices
  BY RestorerFacts DEF PlaceTypeOK, JobOK, RestoreTypeInv
<1>2. c.pc \in ClearSteps /\ p = job.at /\ p \in Place
  <2>1. c.pc # "done"
    BY DEF PlaceStep, AddCheck, AddSend, AddCount, RemoveReceive, RemoveCount,
       PeekLock, PeekDrain, PeekRefill, PwcLock, PwcDrain, PwcRefill, ClearLock,
       ClearLen, ClearReceive
  <2>2. c.pc \in ClearSteps /\ p = job.at
    BY <1>1, <2>1 DEF InCall
  <2> QED BY <1>1, <2>2 DEF CallOK, Steps, ClearSteps, LockSteps, DrainSteps
<1>3. ClearLock(r) \/ ClearLen(r) \/ ClearReceive(r)
  BY <1>2 DEF PlaceStep, AddCheck, AddSend, AddCount, RemoveReceive, RemoveCount,
     PwcLock, PwcDrain, PwcRefill, PeekLock, PeekDrain, PeekRefill, ClearSteps
<1>4. CASE ClearLock(r)
  <2>1. d.pc = "clr_len" /\ d.place = p
    BY <1>1, <1>4, SetSelf DEF ClearLock, Goto, CallType
  <2>2. tokens' = tokens /\ disturbed' = disturbed /\ c.pc = "clr_lock"
    BY <1>4 DEF ClearLock
  <2>3. r \notin disturbed
    BY <1>1, <2>2 DEF RestorerNotices, DrainSteps
  <2> QED BY <1>2, <2>1, <2>2, <2>3 DEF ClearTurn, InCall, ClearSteps, Notices
<1>5. CASE ClearLen(r)
  <2>0. tokens' = tokens /\ tokens[p] \in Seq(Token)
    BY <1>1, <1>2, <1>5 DEF ClearLen
  <2>1. CASE Goto(r, "clr_recv") /\ disturbed' = disturbed
    <3>1. d.pc = "clr_recv" /\ d.place = p
      BY <1>1, <2>1, SetSelf DEF Goto, CallType
    <3> QED BY <1>2, <2>0, <2>1, <3>1
            DEF ClearTurn, InCall, ClearSteps, Notices, DrainSteps
  <2>2. CASE /\ ~(Len(tokens[p]) > 0) /\ Return(r, TRUE, None, c.buf)
             /\ disturbed' = disturbed \ {r}
    <3>1. d.pc = "done"
      BY <1>1, <2>2, SetSelf DEF Return, Result
    <3>2. tokens[p] = <<>>
      BY <2>0, <2>2, EmptySeq
    <3> QED BY <1>2, <2>0, <2>2, <3>1, <3>2 DEF ClearTurn, InCall, Notices
  <2> QED BY <1>5, <2>1, <2>2 DEF ClearLen
<1>6. CASE ClearReceive(r)
  <2> DEFINE e == [c EXCEPT !.pc = "clr_len", !.buf = Append(@, Head(tokens[p]))]
  <2>1. Set(r, e) /\ Receive(r, p) /\ c.pc = "clr_recv"
    BY <1>6 DEF ClearReceive
  <2>2. e.pc = "clr_len" /\ e.place = p
    BY <1>1 DEF CallType
  <2> HIDE DEF e
  <2>3. d = e
    BY <1>1, <2>1, SetSelf
  <2>4. disturbed' = disturbed
    <3>1. peekMu[p] = r
      BY <1>1, <1>2, <2>1 DEF MutexInv, PeekMutex, DrainSteps
    <3> QED BY <2>1, <3>1, DisturbSelf DEF Receive
  <2>5. \A q \in Place \ {p} : tokens'[q] = tokens[q]
    BY <1>1, <1>2, <2>1 DEF Receive
  <2> QED BY <1>2, <2>2, <2>3, <2>4, <2>5
          DEF ClearTurn, InCall, ClearSteps, Notices, DrainSteps
<1> QED BY <1>2, <1>3, <1>4, <1>5, <1>6

(* AddToken sends the token that is pending, comes closer to it, or finds   *)
(* the place full.                                                          *)
Sends(c, d, p) ==
  /\ tokens'[p] = tokens[p] \o Pending(c) /\ Pending(d) = <<>>
  /\ d.pc # "done"

GetsCloser(c, d) ==
  tokens' = tokens /\ Pending(d) = Pending(c) /\ (d.pc = "done" => d.ok)

Refused(c, d, p) ==
  d.pc = "done" /\ ~d.ok /\ Full(p) /\ Pending(c) = <<c.tok>>

AddTurn(c, d, p) ==
  /\ InCall(d, AddSteps, p) /\ Notices
  /\ \A q \in Place \ {p} : tokens'[q] = tokens[q]
  /\ GlobalCapacity = 0 =>
       Sends(c, d, p) \/ GetsCloser(c, d) \/ Refused(c, d, p)

LEMMA AddTurnIs ==
  ASSUME RestoreTypeInv, Filling(job), PlaceStep(restorer)
  PROVE  /\ AddTurn(call[restorer], call'[restorer], job.at)
         /\ call[restorer].tok \in Token /\ call[restorer].pc \in AddSteps
<1> DEFINE r == restorer  c == call[r]  p == c.place  d == call'[r]
<1>1. /\ r \in Thread /\ MutexInv /\ PlaceTypeOK /\ c \in CallType /\ CallOK(c)
      /\ tokens \in [Place -> Seq(Token)]
      /\ InCall(c, AddSteps, job.at) /\ RestorerNotices
  BY RestorerFacts DEF PlaceTypeOK, JobOK, RestoreTypeInv
<1>2. c.pc \in AddSteps /\ p = job.at /\ p \in Place /\ c.tok \in Token
  <2>1. c.pc # "done"
    BY DEF PlaceStep, AddCheck, AddSend, AddCount, RemoveReceive, RemoveCount,
       PeekLock, PeekDrain, PeekRefill, PwcLock, PwcDrain, PwcRefill, ClearLock,
       ClearLen, ClearReceive
  <2>2. c.pc \in AddSteps /\ p = job.at
    BY <1>1, <2>1 DEF InCall
  <2> QED BY <1>1, <2>2 DEF CallOK, Steps
<1>3. AddCheck(r) \/ AddSend(r) \/ AddCount(r)
  BY <1>2 DEF PlaceStep, PeekLock, PeekDrain, PeekRefill, RemoveReceive, RemoveCount,
     PwcLock, PwcDrain, PwcRefill, ClearLock, ClearLen, ClearReceive, AddSteps
<1>4. r \notin disturbed /\ tokens[p] \in Seq(Token) /\ <<c.tok>> \in Seq(Token)
  BY <1>1, <1>2 DEF RestorerNotices, DrainSteps, AddSteps
<1>5. CASE AddCheck(r)
  <2>1. tokens' = tokens /\ disturbed' = disturbed /\ c.pc = "add_check"
    BY <1>5 DEF AddCheck, history
  <2>2. CASE CheckGlobalCapacity /\ Goto(r, "add_send")
    <3>1. d.pc = "add_send" /\ d.place = p /\ d.tok = c.tok
      BY <1>1, <2>2, SetSelf DEF Goto, CallType
    <3> QED BY <1>2, <1>4, <2>1, <3>1
            DEF AddTurn, InCall, AddSteps, Notices, GetsCloser, Pending
  <2>3. CASE ~CheckGlobalCapacity /\ Return(r, FALSE, None, <<>>)
    <3>1. d.pc = "done"
      BY <1>1, <2>3, SetSelf DEF Return, Result
    <3>2. GlobalCapacity # 0
      BY <2>3 DEF CheckGlobalCapacity
    <3> QED BY <1>2, <1>4, <2>1, <3>1, <3>2 DEF AddTurn, InCall, AddSteps, Notices
  <2> QED BY <1>5, <2>2, <2>3 DEF AddCheck
<1>6. CASE AddSend(r)
  <2>0. c.pc = "add_send"
    BY <1>6 DEF AddSend
  <2>1. CASE Send(r, p, c.tok) /\ Goto(r, "add_count")
    <3>1. d.pc = "add_count" /\ d.place = p
      BY <1>1, <2>1, SetSelf DEF Goto, CallType
    <3>2. r \notin disturbed'
      BY <1>4, <2>1 DEF Send, Disturb
    <3>3. /\ tokens'[p] = Append(tokens[p], c.tok)
          /\ \A q \in Place \ {p} : tokens'[q] = tokens[q]
      BY <1>1, <1>2, <2>1 DEF Send
    <3>4. Append(tokens[p], c.tok) = tokens[p] \o <<c.tok>>
      BY <1>2, <1>4
    <3>5. Sends(c, d, p)
      BY <2>0, <3>1, <3>3, <3>4 DEF Sends, Pending
    <3> QED BY <1>2, <3>1, <3>2, <3>3, <3>5 DEF AddTurn, InCall, AddSteps, Notices
  <2>2. CASE Full(p) /\ Return(r, FALSE, None, <<>>) /\ UNCHANGED <<tokens, disturbed>>
    <3>1. d.pc = "done" /\ d.ok = FALSE
      BY <1>1, <2>2, SetSelf DEF Return, Result
    <3> QED BY <1>2, <1>4, <2>0, <2>2, <3>1
            DEF AddTurn, InCall, AddSteps, Notices, Refused, Pending
  <2> QED BY <1>6, <2>1, <2>2 DEF AddSend
<1>7. CASE AddCount(r)
  <2>1. tokens' = tokens /\ disturbed' = disturbed /\ c.pc = "add_count"
    BY <1>7 DEF AddCount, history
  <2>2. d.pc = "done" /\ d.ok = TRUE
    BY <1>1, <1>7, SetSelf DEF AddCount, Return, Result
  <2> QED BY <1>2, <1>4, <2>1, <2>2
          DEF AddTurn, InCall, AddSteps, Notices, GetsCloser, Pending
<1> QED BY <1>2, <1>3, <1>5, <1>6, <1>7

(* A fill that nobody touches comes closer to what it has to reach, and the *)
(* backup fits into the net.                                                *)
LEMMA FillsStay ==
  ASSUME RestoreTypeInv, Filling(job), NEW c, c.pc \in AddSteps, c.tok \in Token,
         NEW d, AddTurn(c, d, job.at),
         GlobalCapacity = 0, Fills(job, c, tokens), job.taken = start
  PROVE  Fills(job, d, tokens')
<1> DEFINE p == job.at  want == Content(Source(job))  rest == job.rest
<1>1. /\ job \in JobType /\ p \in Place /\ p \notin job.todo
      /\ tokens \in [Place -> Seq(Token)]
      /\ DOMAIN job.taken = Place /\ rest \in Seq(Token)
  BY RestorerFacts DEF Filling, JobOK, JobType
<1>2. c.pc # "done"
  BY DEF AddSteps
<1>3. FilledSoFar(job, tokens, Pending(c) \o rest)
  BY <1>2 DEF Fills
<1>4. Pending(c) \in Seq(Token) /\ tokens[p] \in Seq(Token) /\ <<>> \in Seq(Token)
  <2>1. <<>> \in Seq(Token) /\ <<c.tok>> \in Seq(Token)
    OBVIOUS
  <2> QED BY <1>1, <2>1 DEF Pending
<1>5. \A q \in Place \ {p} : tokens'[q] = tokens[q]
  BY DEF AddTurn
<1>6. ASSUME NEW late, want[p] = tokens'[p] \o late
      PROVE  FilledSoFar(job, tokens', late)
  BY <1>1, <1>3, <1>5, <1>6 DEF FilledSoFar
<1>7. want[p] = tokens[p] \o (Pending(c) \o rest)
  BY <1>1, <1>3 DEF FilledSoFar
<1>8. CASE Sends(c, d, p)
  <2>1. (tokens[p] \o Pending(c)) \o rest = tokens[p] \o (Pending(c) \o rest)
    <3> DEFINE a == tokens[p]  b == Pending(c)  e == rest
    <3>1. a \in Seq(Token) /\ b \in Seq(Token) /\ e \in Seq(Token)
      BY <1>1, <1>4
    <3> HIDE DEF a, b, e
    <3>2. (a \o b) \o e = a \o (b \o e)
      BY <3>1, ConcatAssociative
    <3> QED BY <3>2 DEF a, b, e
  <2>2. <<>> \o rest = rest
    BY <1>1, ConcatEmptySeq
  <2>3. want[p] = tokens'[p] \o (Pending(d) \o rest)
    BY <1>7, <1>8, <2>1, <2>2 DEF Sends
  <2>4. FilledSoFar(job, tokens', Pending(d) \o rest)
    BY <1>6, <2>3
  <2> QED BY <1>8, <2>4 DEF Fills, Sends
<1>9. CASE GetsCloser(c, d)
  BY <1>3, <1>9 DEF GetsCloser, Fills
<1>10. CASE Refused(c, d, p)
  <2>1. job.pc # "undo"
    <3>1. SUFFICES ASSUME job.pc = "undo" PROVE FALSE
      OBVIOUS
    <3>2. want[p] = start[p]
      BY <1>1, <3>1 DEF Source, Content
    <3>3. Len(start[p]) <= Capacity[p] /\ Capacity[p] \in Nat
      BY <1>1, PlaceAssumption DEF RestoreTypeInv
    <3> DEFINE s == <<c.tok>> \o rest
    <3>4. s \in Seq(Token) /\ Len(s) = 1 + Len(rest) /\ Len(rest) \in Nat
      <4>1. <<c.tok>> \in Seq(Token) /\ Len(<<c.tok>>) = 1
        OBVIOUS
      <4>2. Len(rest) \in Nat
        BY <1>1, LenProperties
      <4> DEFINE u == <<c.tok>>
      <4>3. u \in Seq(Token) /\ Len(u) = 1
        BY <4>1
      <4> HIDE DEF u
      <4>4. u \o rest \in Seq(Token) /\ Len(u \o rest) = Len(u) + Len(rest)
        BY <1>1, <4>3, ConcatProperties
      <4> QED BY <4>2, <4>3, <4>4 DEF u
    <3>5. start[p] = tokens[p] \o s
      BY <1>7, <1>10, <3>2 DEF Refused
    <3> HIDE DEF s
    <3>6. Len(start[p]) = Len(tokens[p]) + Len(s) /\ Len(tokens[p]) \in Nat
      <4> DEFINE u == tokens[p]
      <4>1. u \in Seq(Token) /\ s \in Seq(Token)
        BY <1>4, <3>4
      <4> HIDE DEF u
      <4>2. Len(u \o s) = Len(u) + Len(s)
        BY <4>1, ConcatProperties
      <4>3. Len(u) \in Nat
        BY <4>1, LenProperties
      <4> QED BY <3>5, <4>2, <4>3 DEF u
    <3>7. Len(tokens[p]) >= Capacity[p]
      BY <1>10 DEF Refused, Full
    <3> DEFINE a == Len(tokens[p])  b == Len(rest)  l == Len(start[p])
               k == Capacity[p]
    <3>8. a \in Nat /\ b \in Nat /\ k \in Nat /\ l = a + (1 + b) /\ l <= k /\ a >= k
      BY <3>3, <3>4, <3>6, <3>7
    <3> HIDE DEF a, b, l, k
    <3> QED BY <3>8
  <2> QED BY <1>10, <2>1 DEF Fills, Refused
<1> QED BY <1>8, <1>9, <1>10 DEF AddTurn

-----------------------------------------------------------------------------
(* A step of a place call of the restorer.                                  *)
LEMMA PlaceStepQuiet ==
  ASSUME QuietInv, NEW th \in Thread, PlaceStep(th)
  PROVE  QuietInv'
<1>1. MutexInv /\ PlaceTypeOK
  BY DEF QuietInv, MutexInv
<1>2. PlaceTypeOK'
  BY <1>1, AddType, RemoveType, PeekType, PwcType, ClearType DEF PlaceStep
<1>3. PeekMutex'
  BY <1>1, OutsideMutex, LockMutex, DrainMutex DEF PlaceStep
<1>4. \A u \in Thread : QuietOK(u)'
  BY StepQuiet
<1> QED BY <1>2, <1>3, <1>4 DEF QuietInv, MutexInv

(* The progress of a capture, in a step that nobody disturbs.               *)
LEMMA CapturesStay ==
  ASSUME RestoreTypeInv, Capturing(job), PlaceStep(restorer),
         restorer \notin disturbed, NEW st,
         Captures(job, call[restorer], tokens, before[restorer], st)
  PROVE  Captures(job, call'[restorer], tokens', before'[restorer], st)
<1> DEFINE r == restorer  c == call[r]  d == call'[r]  p == job.at
<1>1. /\ r \in Thread /\ p \in Place /\ before \in [Thread -> Seq(Token)]
      /\ InCall(c, PeekSteps, p) /\ QuietInv
      /\ DOMAIN job.taken = Place \ (job.todo \cup {p})
  BY RestorerFacts DEF PlaceTypeOK, JobOK, Capturing
<1>2. PeekTurn(c, d, p)
  BY PeekTurnIs
<1>3. c.pc \in PeekSteps /\ c.place = p
  <2>1. c.pc # "done"
    BY DEF PlaceStep, AddCheck, AddSend, AddCount, RemoveReceive, RemoveCount,
       PeekLock, PeekDrain, PeekRefill, PwcLock, PwcDrain, PwcRefill, ClearLock,
       ClearLen, ClearReceive
  <2> QED BY <1>1, <2>1 DEF InCall
<1>4. \A q \in Place \ {p} : tokens'[q] = st[q]
  BY <1>2 DEF PeekTurn, Captures
<1>5. CASE c.pc = "peek_lock"
  BY <1>2, <1>4, <1>5 DEF PeekTurn, Captures
<1>6. CASE c.pc # "peek_lock" /\ d.pc # "done"
  BY <1>2, <1>3, <1>4, <1>6 DEF PeekTurn, Captures, PeekSteps
<1>7. CASE c.pc # "peek_lock" /\ d.pc = "done"
  <2>1. c.pc \in {"peek_drain", "peek_refill"}
    BY <1>3, <1>7 DEF PeekSteps
  <2>2. FinishesPeek(r)
    BY <1>7, <2>1 DEF FinishesPeek
  <2>3. Harmless(r)
    BY <1>1, <2>2, FinishStep
  <2>4. tokens'[p] = before[r] /\ d.seen = SubSeq(before[r], 1, Len(before[r]))
    BY <1>3, <2>1, <2>3 DEF Harmless
  <2>5. SubSeq(before[r], 1, Len(before[r])) = before[r]
    BY <1>1, SubSeqFull
  <2>6. before[r] = st[p]
    BY <2>1 DEF Captures
  <2> QED BY <1>4, <1>7, <2>4, <2>5, <2>6 DEF Captures
<1> QED BY <1>5, <1>6, <1>7

(* What holds while the restorer is in a place call goes on to hold.        *)
LEMMA PlaceStepProgress ==
  ASSUME RestoreTypeInv, job.pc # "idle", job' = job, PlaceStep(restorer),
         restorer \notin disturbed, GlobalCapacity = 0,
         Progress(job, call[restorer], tokens, before[restorer], start)
  PROVE  Progress(job, call'[restorer], tokens', before'[restorer], start)
<1> DEFINE c == call[restorer]  d == call'[restorer]
<1>1. CASE Capturing(job)
  <2>1. Captures(job, d, tokens', before'[restorer], start)
    BY <1>1, CapturesStay DEF Progress
  <2> QED BY <1>1, <2>1 DEF Progress, Capturing, Clearing, Filling
<1>2. CASE Clearing(job)
  <2>1. ClearTurn(d, job.at)
    BY <1>2, ClearTurnIs
  <2>2. c.pc # "done"
    BY DEF PlaceStep, AddCheck, AddSend, AddCount, RemoveReceive, RemoveCount,
       PeekLock, PeekDrain, PeekRefill, PwcLock, PwcDrain, PwcRefill, ClearLock,
       ClearLen, ClearReceive
  <2>3. Empties(job, d, tokens')
    BY <1>2, <2>1, <2>2 DEF Progress, Empties, ClearTurn
  <2> QED BY <1>2, <2>3 DEF Progress, Capturing, Clearing, Filling
<1>3. CASE Filling(job)
  <2>1. AddTurn(c, d, job.at) /\ c.tok \in Token /\ c.pc \in AddSteps
    BY <1>3, AddTurnIs
  <2>2. Fills(job, c, tokens) /\ job.taken = start
    BY <1>3 DEF Progress
  <2> HIDE DEF c, d
  <2>3. Fills(job, d, tokens')
    BY <1>3, <2>1, <2>2, FillsStay
  <2> QED BY <1>3, <2>2, <2>3 DEF Progress, Capturing, Clearing, Filling, d
<1>4. Capturing(job) \/ Clearing(job) \/ Filling(job)
  BY RestorerFacts DEF JobType, Phases, Capturing, Clearing, Filling
<1> QED BY <1>1, <1>2, <1>3, <1>4

(* A place call keeps the restorer where its loop is.                       *)
LEMMA PlaceStepJob ==
  ASSUME RestoreTypeInv, job' = job, PlaceStep(restorer)
  PROVE  /\ job.pc # "idle" /\ JobOK(job, call'[restorer]) /\ Notices
         /\ job.pc = "snapshot" =>
              \A p \in Place : Found(job, call[restorer], tokens, p)
                                 \subseteq Found(job, call'[restorer], tokens', p)
<1> DEFINE c == call[restorer]  d == call'[restorer]
<1>1. c.pc \notin {"idle", "done"}
  BY DEF PlaceStep, AddCheck, AddSend, AddCount, RemoveReceive, RemoveCount,
     PeekLock, PeekDrain, PeekRefill, PwcLock, PwcDrain, PwcRefill, ClearLock,
     ClearLen, ClearReceive
<1>2. JobOK(job, c) /\ job \in JobType
  BY RestorerFacts
<1>3. job.pc # "idle"
  BY <1>1, <1>2 DEF JobOK
<1>4. CASE Capturing(job)
  <2>1. PeekTurn(c, d, job.at)
    BY <1>4, PeekTurnIs
  <2>2. JobOK(job, d)
    BY <1>2, <1>3, <1>4, <2>1 DEF JobOK, PeekTurn, Capturing, Clearing, Filling
  <2>3. ASSUME NEW p \in Place
        PROVE  Found(job, c, tokens, p) \subseteq Found(job, d, tokens', p)
    <3>1. DOMAIN job.taken = Place \ (job.todo \cup {job.at}) /\ job.at \notin job.todo
      BY <1>2, <1>3, <1>4 DEF JobOK
    <3>2. CASE p = job.at
      BY <2>1, <3>1, <3>2 DEF Found, FoundAt, PeekTurn
    <3>3. CASE p # job.at
      <4>1. tokens'[p] = tokens[p]
        BY <2>1, <3>3 DEF PeekTurn
      <4> QED BY <3>1, <3>3, <4>1 DEF Found
    <3> QED BY <3>2, <3>3
  <2> QED BY <1>3, <2>1, <2>2, <2>3 DEF PeekTurn
<1>5. CASE Clearing(job)
  <2>1. ClearTurn(d, job.at)
    BY <1>5, ClearTurnIs
  <2>2. JobOK(job, d)
    BY <1>2, <1>3, <1>5, <2>1 DEF JobOK, ClearTurn, Capturing, Clearing, Filling
  <2> QED BY <1>3, <1>5, <2>1, <2>2 DEF ClearTurn, Clearing
<1>6. CASE Filling(job)
  <2>1. AddTurn(c, d, job.at)
    BY <1>6, AddTurnIs
  <2>2. JobOK(job, d)
    BY <1>2, <1>3, <1>6, <2>1 DEF JobOK, AddTurn, Capturing, Clearing, Filling
  <2> QED BY <1>3, <1>6, <2>1, <2>2 DEF AddTurn, Filling
<1>7. Capturing(job) \/ Clearing(job) \/ Filling(job)
  BY <1>2, <1>3 DEF JobType, Phases, Capturing, Clearing, Filling
<1> QED BY <1>4, <1>5, <1>6, <1>7

-----------------------------------------------------------------------------
(* The steps of the restorer.                                               *)
JobMoves ==
  (NewMarking \/ RestoreMarkingToNet \/ Captured \/ Cleared \/ Added) /\ CallNothing

Watches ==
  IF job.pc = "idle"
  THEN /\ touched' = \E th \in Thread \ {restorer} : call[th].pc # "idle"
       /\ stayed' = UNION {{p} \X Range(tokens[p]) : p \in Place}
  ELSE UNCHANGED <<touched, stayed>>

LEMMA RestorerStepIs ==
  RestorerStep <=> /\ JobMoves \/ (PlaceStep(restorer) /\ UNCHANGED jobVars)
                   /\ Watches /\ UNCHANGED moves
  BY DEF RestorerStep, JobMoves, Watches, CallNothing

LEMMA JobMovesFree == ASSUME RestoreTypeInv, JobMoves PROVE Free(restorer)
  BY RestorerFacts DEF JobMoves, NewMarking, RestoreMarkingToNet, Captured,
     Cleared, Added, Returned, Free, JobOK

LEMMA JobMoveTypes ==
  ASSUME RestoreTypeInv, JobTypes, Free(restorer), CallNothing, UNCHANGED moves
  PROVE  RestoreTypeInv'
<1>1. restorer \notin disturbed
  BY DEF RestoreTypeInv, RestorerNotices, Free, DrainSteps
<1>2. OthersMove' /\ RestorerNotices'
  BY <1>1 DEF RestoreTypeInv, JobTypes, Kept, OthersMove, RestorerNotices,
     CallNothing, history
<1> QED BY <1>2 DEF RestoreTypeInv, JobTypes, Kept

LEMMA JobGoesOn ==
  ASSUME RestoreTypeInv, Captured \/ Cleared \/ Added, CallNothing
  PROVE  JobStep /\ job.pc # "idle"
<1>1. CASE Captured
  <2>1. JobTypes /\ KeepsProgress /\ KeepsFound /\ SnapshotDone
        /\ (job'.pc = "idle" => job.pc = "snapshot")
    BY <1>1, CapturedStep
  <2>2. RestoredOrUndone
    BY <2>1 DEF RestoredOrUndone
  <2> QED BY <1>1, <2>1, <2>2 DEF JobStep, Captured, Returned
<1>2. CASE Cleared
  BY <1>2, ClearedStep DEF Cleared, Returned
<1>3. CASE Added
  BY <1>3, AddedStep DEF Added, Returned
<1> QED BY <1>1, <1>2, <1>3

(* What a snapshot has found stays in it.                                   *)
LEMMA StaysFound ==
  ASSUME Stays(stayed, job, call[restorer], tokens), stayed' = stayed, KeepsFound
  PROVE  Stays(stayed', job', call'[restorer], tokens')
<1>1. stayed' \subseteq Place \X Token
  BY DEF Stays
<1>2. ASSUME job'.pc = "snapshot", NEW s \in stayed'
      PROVE  s[2] \in Found(job', call'[restorer], tokens', s[1])
  <2>1. job.pc = "snapshot" /\ s \in stayed /\ s[1] \in Place
    BY <1>1, <1>2 DEF KeepsFound
  <2>2. s[2] \in Found(job, call[restorer], tokens, s[1])
    BY <2>1 DEF Stays
  <2> QED BY <1>2, <2>1, <2>2 DEF KeepsFound
<1> QED BY <1>1, <1>2 DEF Stays

LEMMA StartInv ==
  ASSUME RestoreInv, NewMarking \/ RestoreMarkingToNet, CallNothing, Watches,
         UNCHANGED moves
  PROVE  RestoreInv' /\ job.pc = "idle" /\ job'.pc # "idle"
<1>1. PICK pc \in {"snapshot", "backup"} : Starts(pc)
  BY StartsIs DEF RestoreInv
<1>2. /\ JobTypes
      /\ Progress(job', call'[restorer], tokens', before'[restorer], start')
      /\ \A p \in Place : Found(job', call'[restorer], tokens', p) = Range(tokens[p])
      /\ job'.pc = pc
  BY <1>1, StartsJob DEF RestoreInv
<1>3. Free(restorer) /\ job.pc = "idle"
  BY <1>1, JobMovesFree DEF RestoreInv, JobMoves, Starts
<1>4. RestoreTypeInv'
  BY <1>2, <1>3, JobMoveTypes DEF RestoreInv
<1>5. restorer \notin disturbed' /\ restorer \in Thread
  BY <1>3, RestorationAssumption DEF RestoreInv, RestoreTypeInv, RestorerNotices,
     Free, DrainSteps, CallNothing, history
<1>6. Untouched'
  <2>1. ~touched' => \A th \in Thread \ {restorer} : call'[th].pc = "idle"
    BY <1>2, <1>3 DEF Watches, JobTypes, Kept
  <2> QED BY <1>2, <1>5, <2>1 DEF Untouched
<1>7. Stays(stayed', job', call'[restorer], tokens')
  <2>1. stayed' = UNION {{p} \X Range(tokens[p]) : p \in Place}
    BY <1>3 DEF Watches
  <2>2. \A p \in Place : Range(tokens[p]) \subseteq Token
    <3>1. tokens \in [Place -> Seq(Token)]
      BY RestorerFacts DEF RestoreInv
    <3>2. ASSUME NEW p \in Place PROVE Range(tokens[p]) \subseteq Token
      <4>1. tokens[p] \in Seq(Token)
        BY <3>1
      <4>2. \A i \in DOMAIN tokens[p] : tokens[p][i] \in Token
        BY <4>1
      <4> QED BY <4>2 DEF Range
    <3> QED BY <3>2
  <2>3. ASSUME NEW s \in stayed'
        PROVE  s \in Place \X Token /\ s[2] \in Range(tokens[s[1]]) /\ s[1] \in Place
    <3>1. PICK p \in Place : s \in {p} \X Range(tokens[p])
      BY <2>1, <2>3
    <3> QED BY <2>2, <3>1
  <2> QED BY <1>2, <2>3 DEF Stays
<1> QED BY <1>1, <1>2, <1>3, <1>4, <1>6, <1>7 DEF RestoreInv

LEMMA GoesOnInv ==
  ASSUME RestoreInv, Captured \/ Cleared \/ Added, CallNothing, Watches,
         UNCHANGED moves
  PROVE  RestoreInv'
<1>1. JobTypes /\ KeepsProgress /\ KeepsFound /\ job.pc # "idle"
  BY JobGoesOn DEF RestoreInv, JobStep
<1>2. Free(restorer) /\ UNCHANGED <<touched, stayed>>
  BY <1>1, JobMovesFree DEF RestoreInv, JobMoves, Watches
<1>3. RestoreTypeInv'
  BY <1>1, <1>2, JobMoveTypes DEF RestoreInv
<1>4. Untouched'
  <2>1. restorer \in Thread
    BY RestorationAssumption
  <2>2. SUFFICES ASSUME ~touched
                 PROVE  /\ \A th \in Thread \ {restorer} : call'[th].pc = "idle"
                        /\ restorer \notin disturbed'
                        /\ job'.pc # "idle" /\ GlobalCapacity = 0 =>
                             Progress(job', call'[restorer], tokens',
                                      before'[restorer], start')
    BY <1>2 DEF Untouched
  <2>3. /\ \A th \in Thread \ {restorer} : call[th].pc = "idle"
        /\ restorer \notin disturbed
        /\ GlobalCapacity = 0 =>
             Progress(job, call[restorer], tokens, before[restorer], start)
    BY <1>1, <2>2 DEF RestoreInv, Untouched
  <2> QED BY <1>1, <2>3 DEF JobTypes, Kept, KeepsProgress, CallNothing, history
<1>5. Stays(stayed', job', call'[restorer], tokens')
  BY <1>1, <1>2, StaysFound DEF RestoreInv
<1> QED BY <1>3, <1>4, <1>5 DEF RestoreInv

LEMMA PlaceStepInv ==
  ASSUME RestoreInv, PlaceStep(restorer), UNCHANGED jobVars, Watches, UNCHANGED moves
  PROVE  RestoreInv'
<1>1. /\ job' = job /\ saved' = saved /\ ops' = ops /\ start' = start
      /\ restorer \in Thread /\ RestoreTypeInv /\ QuietInv /\ MutexInv
  BY RestorerFacts, RestorationAssumption DEF jobVars, RestoreInv
<1>2. /\ job.pc # "idle" /\ JobOK(job, call'[restorer]) /\ Notices
      /\ job.pc = "snapshot" =>
           \A p \in Place : Found(job, call[restorer], tokens, p)
                              \subseteq Found(job, call'[restorer], tokens', p)
  BY <1>1, PlaceStepJob
<1>3. UNCHANGED <<touched, stayed>>
  BY <1>2 DEF Watches
<1>4. \A th \in Thread \ {restorer} : call'[th] = call[th]
  BY <1>1, Others
<1>5. RestoreTypeInv'
  <2>1. QuietInv'
    BY <1>1, PlaceStepQuiet
  <2>2. OthersMove' /\ RestorerNotices'
    BY <1>1, <1>2, <1>4 DEF RestoreTypeInv, OthersMove, RestorerNotices, Notices
  <2> QED BY <1>1, <1>2, <2>1, <2>2 DEF RestoreTypeInv
<1>6. Untouched'
  <2>1. SUFFICES ASSUME ~touched
                 PROVE  /\ \A th \in Thread \ {restorer} : call'[th].pc = "idle"
                        /\ restorer \notin disturbed'
                        /\ GlobalCapacity = 0 =>
                             Progress(job, call'[restorer], tokens',
                                      before'[restorer], start)
    BY <1>1, <1>3 DEF Untouched
  <2>2. /\ \A th \in Thread \ {restorer} : call[th].pc = "idle"
        /\ restorer \notin disturbed
        /\ GlobalCapacity = 0 =>
             Progress(job, call[restorer], tokens, before[restorer], start)
    BY <1>2, <2>1 DEF RestoreInv, Untouched
  <2> QED BY <1>1, <1>2, <1>4, <2>2, PlaceStepProgress DEF Notices
<1>7. KeepsFound
  BY <1>1, <1>2 DEF KeepsFound
<1>8. Stays(stayed', job', call'[restorer], tokens')
  BY <1>3, <1>7, StaysFound DEF RestoreInv
<1> QED BY <1>5, <1>6, <1>8 DEF RestoreInv

-----------------------------------------------------------------------------
(* The steps of the others, that move tokens.                               *)
Shifts(s, t) == t = s \/ (\E x \in Token : t = Append(s, x)) \/ (s # <<>> /\ t = Tail(s))

LEMMA OtherTurn ==
  ASSUME QuietInv, RestorerNotices, OthersMove, NEW th \in Thread \ {restorer},
         PlaceStep(th)
  PROVE  /\ call'[th].pc \in AddSteps \cup RemoveSteps \cup {"done"}
         /\ restorer \in disturbed' => call[restorer].pc \in DrainSteps
         /\ \A q \in Place : Shifts(tokens[q], tokens'[q])
<1> DEFINE c == call[th]  p == c.place  d == call'[th]
<1>1. /\ th \in Thread /\ MutexInv /\ PlaceTypeOK /\ c \in CallType /\ CallOK(c)
      /\ tokens \in [Place -> Seq(Token)] /\ restorer \in Thread
  BY RestorationAssumption DEF QuietInv, MutexInv, PlaceTypeOK
<1>2. c.pc \in AddSteps \cup RemoveSteps /\ p \in Place
  <2>1. c.pc \notin {"idle", "done"}
    BY DEF PlaceStep, AddCheck, AddSend, AddCount, RemoveReceive, RemoveCount,
       PeekLock, PeekDrain, PeekRefill, PwcLock, PwcDrain, PwcRefill, ClearLock,
       ClearLen, ClearReceive
  <2>2. c.pc \in AddSteps \cup RemoveSteps
    BY <2>1 DEF OthersMove
  <2> QED BY <1>1, <2>2 DEF CallOK, Steps
<1>3. \/ AddCheck(th) \/ AddSend(th) \/ AddCount(th)
      \/ RemoveReceive(th) \/ RemoveCount(th)
  BY <1>2 DEF PlaceStep, PeekLock, PeekDrain, PeekRefill, PwcLock, PwcDrain, PwcRefill,
     ClearLock, ClearLen, ClearReceive, AddSteps, RemoveSteps
<1>4. \A ok, t, s : Return(th, ok, t, s) => d.pc = "done"
  BY <1>1, SetSelf DEF Return, Result
<1>5. ASSUME Disturb(th, p) \/ disturbed' = disturbed, restorer \in disturbed'
      PROVE  call[restorer].pc \in DrainSteps
  <2>1. CASE restorer \in disturbed
    BY <2>1 DEF RestorerNotices
  <2>2. CASE restorer \notin disturbed
    <3>1. peekMu[p] = restorer
      BY <1>5, <2>2 DEF Disturb
    <3> QED BY <1>1, <1>2, <3>1 DEF MutexInv, PeekMutex
  <2> QED BY <2>1, <2>2
<1>6. CASE AddCheck(th)
  <2>1. tokens' = tokens /\ disturbed' = disturbed
    BY <1>6 DEF AddCheck, history
  <2>2. Goto(th, "add_send") => d.pc = "add_send"
    BY <1>1, SetSelf DEF Goto, CallType
  <2> QED BY <1>4, <1>5, <1>6, <2>1, <2>2 DEF AddCheck, AddSteps, Shifts
<1>7. CASE AddSend(th)
  <2>1. CASE Send(th, p, c.tok) /\ Goto(th, "add_count")
    <3>1. d.pc = "add_count"
      BY <1>1, <2>1, SetSelf DEF Goto, CallType
    <3>2. c.tok \in Token
      BY <1>1, <1>7 DEF CallOK, AddSend, AddSteps
    <3>3. \A q \in Place :
            tokens'[q] = IF q = p THEN Append(tokens[p], c.tok) ELSE tokens[q]
      BY <1>1, <1>2, <2>1 DEF Send
    <3> QED BY <1>5, <2>1, <3>1, <3>2, <3>3 DEF Send, AddSteps, Shifts
  <2>2. CASE Return(th, FALSE, None, <<>>) /\ UNCHANGED <<tokens, disturbed>>
    BY <1>4, <1>5, <2>2 DEF Shifts
  <2> QED BY <1>7, <2>1, <2>2 DEF AddSend
<1>8. CASE AddCount(th) \/ RemoveCount(th)
  BY <1>4, <1>5, <1>8 DEF AddCount, RemoveCount, history, Shifts
<1>9. CASE RemoveReceive(th)
  <2>1. CASE /\ tokens[p] # <<>> /\ Receive(th, p)
             /\ Set(th, [c EXCEPT !.pc = "rem_count", !.tok = Head(tokens[p])])
    <3>1. d.pc = "rem_count"
      <4> DEFINE e == [c EXCEPT !.pc = "rem_count", !.tok = Head(tokens[p])]
      <4>1. Set(th, e) /\ e.pc = "rem_count"
        BY <1>1, <2>1 DEF CallType
      <4> HIDE DEF e
      <4> QED BY <1>1, <4>1, SetSelf
    <3>2. \A q \in Place : tokens'[q] = IF q = p THEN Tail(tokens[p]) ELSE tokens[q]
      BY <1>1, <1>2, <2>1 DEF Receive
    <3> QED BY <1>5, <2>1, <3>1, <3>2 DEF Receive, RemoveSteps, Shifts
  <2>2. CASE Return(th, FALSE, None, <<>>) /\ UNCHANGED <<tokens, disturbed>>
    BY <1>4, <1>5, <2>2 DEF Shifts
  <2> QED BY <1>9, <2>1, <2>2 DEF RemoveReceive
<1> QED BY <1>3, <1>6, <1>7, <1>8, <1>9

(* A token that the step of another leaves in its place stays found.        *)
LEMMA ShiftsRange ==
  ASSUME NEW s \in Seq(Token), NEW t, Shifts(s, t), NEW x \in Range(s),
         ~(Len(t) < Len(s) /\ x = s[1])
  PROVE  x \in Range(t)
<1>1. CASE t = s
  BY <1>1
<1>2. ASSUME NEW y \in Token, t = Append(s, y) PROVE x \in Range(t)
  BY <1>2, RangeOfAppend
<1>3. CASE s # <<>> /\ t = Tail(s)
  <2>1. Len(t) < Len(s) /\ Head(s) = s[1]
    <3>1. Len(Tail(s)) = Len(s) - 1 /\ Len(s) \in Nat /\ Head(s) = s[1]
      BY <1>3, HeadTailProperties, LenProperties
    <3> DEFINE n == Len(s)  m == Len(t)
    <3>2. m = n - 1 /\ n \in Nat
      BY <1>3, <3>1
    <3> HIDE DEF n, m
    <3>3. m < n
      BY <3>2
    <3> QED BY <3>1, <3>3 DEF n, m
  <2>2. x # Head(s)
    BY <2>1
  <2> QED BY <1>3, <2>2, RangeOfHead
<1> QED BY <1>1, <1>2, <1>3 DEF Shifts

LEMMA OtherStays ==
  ASSUME RestoreTypeInv, Stays(stayed, job, call[restorer], tokens),
         \A q \in Place : Shifts(tokens[q], tokens'[q]),
         stayed' = stayed \ {<<p, tokens[p][1]>> :
                               p \in {q \in Place : Len(tokens'[q]) < Len(tokens[q])}}
  PROVE  Stays(stayed', job, call[restorer], tokens')
<1> DEFINE c == call[restorer]
<1>1. tokens \in [Place -> Seq(Token)]
  BY RestorerFacts
<1>2. stayed' \subseteq stayed /\ stayed \subseteq Place \X Token
  BY DEF Stays
<1>3. ASSUME job.pc = "snapshot", NEW s \in stayed'
      PROVE  s[2] \in Found(job, c, tokens', s[1])
  <2> DEFINE p == s[1]  x == s[2]
  <2>1. p \in Place /\ s = <<p, x>> /\ s \in stayed
    BY <1>2, <1>3
  <2>2. x \in Found(job, c, tokens, p)
    BY <1>3, <2>1 DEF Stays
  <2>3. ~(Len(tokens'[p]) < Len(tokens[p]) /\ x = tokens[p][1])
    BY <1>3, <2>1
  <2>4. tokens[p] \in Seq(Token) /\ Shifts(tokens[p], tokens'[p])
    BY <1>1, <2>1
  <2> HIDE DEF p, x
  <2>5. x \in Range(tokens[p]) => x \in Range(tokens'[p])
    BY <2>3, <2>4, ShiftsRange
  <2>6. x \in Found(job, c, tokens', p)
    BY <2>2, <2>5 DEF Found
  <2> QED BY <2>6 DEF p, x
<1> QED BY <1>2, <1>3 DEF Stays

LEMMA OtherInv ==
  ASSUME RestoreInv, NEW th \in Thread \ {restorer}, OtherStep(th)
  PROVE  RestoreInv'
<1>1. /\ job' = job /\ saved' = saved /\ ops' = ops /\ start' = start /\ touched'
      /\ stayed' = stayed \ {<<p, tokens[p][1]>> :
                               p \in {q \in Place : Len(tokens'[q]) < Len(tokens[q])}}
  BY DEF OtherStep, jobVars
<1>2. /\ RestoreTypeInv /\ QuietInv /\ MutexInv /\ PlaceTypeOK /\ th \in Thread
      /\ th # restorer /\ restorer \in Thread
      /\ call[th] \in CallType /\ CallOK(call[th])
      /\ OthersMove /\ RestorerNotices /\ moves \in 0 .. MaxMoves
  BY RestorationAssumption DEF RestoreInv, RestoreTypeInv, QuietInv, MutexInv,
     PlaceTypeOK
<1>3. ASSUME QuietInv', \A u \in Thread \ {th} : call'[u] = call[u],
             call'[th].pc \in AddSteps \cup RemoveSteps \cup {"idle", "done"},
             restorer \in disturbed' => call[restorer].pc \in DrainSteps,
             moves' \in 0 .. MaxMoves,
             \A q \in Place : Shifts(tokens[q], tokens'[q])
      PROVE  RestoreInv'
  <2>1. OthersMove' /\ RestorerNotices'
    BY <1>2, <1>3 DEF OthersMove, RestorerNotices
  <2>2. RestoreTypeInv'
    BY <1>1, <1>2, <1>3, <2>1 DEF RestoreTypeInv
  <2>3. Stays(stayed', job', call'[restorer], tokens')
    BY <1>1, <1>2, <1>3, OtherStays DEF RestoreInv
  <2> QED BY <1>1, <2>2, <2>3 DEF RestoreInv, Untouched
<1>4. CASE PlaceStep(th) /\ UNCHANGED moves
  <2>1. QuietInv' /\ \A u \in Thread \ {th} : call'[u] = call[u]
    BY <1>2, <1>4, PlaceStepQuiet, Others
  <2> QED BY <1>2, <1>3, <1>4, <2>1, OtherTurn
<1>5. ASSUME NEW step \in {"add_check", "rem_recv", "idle"}, NEW p \in Place \cup {None},
             NEW t \in Token \cup {None}, step # "idle" => p \in Place,
             step = "add_check" => t \in Token, Free(th),
             Set(th, Request(step, p, t, 0)), CallNothing, moves' \in 0 .. MaxMoves
      PROVE  RestoreInv'
  <2> DEFINE c == Request(step, p, t, 0)
  <2>1. /\ c.pc = step /\ c.place = p /\ c.buf = <<>> /\ c.tok = t
        /\ step \notin DrainSteps
    BY DEF Request, DrainSteps
  <2>2. c \in CallType
    <3>1. step \in Steps \cup {"idle", "done"} /\ <<>> \in Seq(Token)
      BY DEF Steps, AddSteps, RemoveSteps
    <3> QED BY <3>1 DEF Request, CallType
  <2>3. CallOK(c)
    BY <1>5, <2>1 DEF CallOK, Steps, AddSteps, RemoveSteps, LockSteps, DrainSteps
  <2> HIDE DEF c
  <2>4. Set(th, c)
    BY <1>5 DEF c
  <2>5. QuietInv' /\ call'[th] = c /\ \A u \in Thread \ {th} : call'[u] = call[u]
    BY <1>2, <1>5, <2>1, <2>2, <2>3, <2>4, SetQuiet DEF CallNothing
  <2>6. call'[th].pc \in AddSteps \cup RemoveSteps \cup {"idle", "done"}
    BY <2>1, <2>5 DEF AddSteps, RemoveSteps
  <2>7. /\ restorer \in disturbed' => call[restorer].pc \in DrainSteps
        /\ \A q \in Place : Shifts(tokens[q], tokens'[q])
    BY <1>2, <1>5 DEF RestorerNotices, CallNothing, history, Shifts
  <2> QED BY <1>3, <1>5, <2>5, <2>6, <2>7
<1>6. CASE Take(th) /\ CallNothing
  <2>1. PICK p \in Place : Set(th, Request("rem_recv", p, None, 0))
    BY <1>6 DEF Take, CallRemoveToken
  <2>2. Free(th) /\ moves' \in 0 .. MaxMoves
    BY <1>2, <1>6, RestorationAssumption DEF Take, Free
  <2> QED BY <1>5, <1>6, <2>1, <2>2
<1>7. CASE Put(th) /\ CallNothing
  <2>1. Free(th) /\ moves' \in 0 .. MaxMoves
    BY <1>2, <1>7 DEF Put, Free
  <2>2. ASSUME NEW p \in Place, CallAddToken(th, p, call[th].tok), call[th].tok # None
        PROVE  RestoreInv'
    <3>1. call[th].tok \in Token
      BY <1>2, <2>2 DEF CallType
    <3> QED BY <1>5, <1>7, <2>1, <2>2, <3>1 DEF CallAddToken
  <2>3. CASE Set(th, NoCall)
    BY <1>5, <1>7, <2>1, <2>3 DEF NoCall
  <2> QED BY <1>7, <2>2, <2>3 DEF Put
<1> QED BY <1>4, <1>6, <1>7 DEF OtherStep, CallNothing

-----------------------------------------------------------------------------
LEMMA RestoreInitInv == ASSUME RestoreInit PROVE RestoreInv
<1>1. IsFiniteSet(QueueSlots)
  <2> DEFINE n == [p \in Place |-> Len(tokens[p])]
  <2>1. n \in [Place -> Nat]
    BY RestorationAssumption DEF RestoreInit, PlaceInit
  <2>2. QueueSlots = SlotSet(Place, n)
    BY DEF QueueSlots, SlotSet
  <2> QED BY <2>1, <2>2, PlaceAssumption, SlotSetFinite
<1>2. totalTokens \in Int
  BY <1>1, FS_CardinalityType DEF RestoreInit, PlaceInit
<1>3. NoCall \in CallType /\ CallOK(NoCall) /\ NoCall.pc = "idle" /\ <<>> \in Seq(Token)
  BY DEF NoCall, Request, CallType, CallOK, Steps, AddSteps, RemoveSteps,
         LockSteps, DrainSteps
<1>4. PlaceTypeOK
  BY <1>2, <1>3, RestorationAssumption DEF RestoreInit, PlaceInit, PlaceTypeOK
<1>5. \A th \in Thread : call[th].pc = "idle"
  BY <1>3 DEF RestoreInit, PlaceInit
<1>6. PeekMutex
  BY <1>5, PlaceAssumption DEF RestoreInit, PlaceInit, PeekMutex, DrainSteps
<1>7. QuietInv
  BY <1>4, <1>5, <1>6 DEF QuietInv, MutexInv, QuietOK, Quiet, DrainSteps
<1>8. restorer \in Thread /\ disturbed = {} /\ job = Idle /\ stayed = {} /\ ~touched
  BY RestorationAssumption DEF RestoreInit, PlaceInit
<1>9. job \in JobType /\ job.pc = "idle" /\ JobOK(job, call[restorer])
  BY <1>5, <1>8, IdleIs DEF JobOK, Capturing, Clearing, Filling
<1>10. OthersMove /\ RestorerNotices
  BY <1>5, <1>8 DEF OthersMove, RestorerNotices
<1>11. /\ saved \subseteq [Place -> Seq(Token)] /\ ops \in 0 .. MaxOps
       /\ moves \in 0 .. MaxMoves /\ start \in [Place -> Seq(Token)]
       /\ \A p \in Place : Len(start[p]) <= Capacity[p]
  BY RestorationAssumption DEF RestoreInit
<1> QED BY <1>5, <1>7, <1>8, <1>9, <1>10, <1>11
        DEF RestoreInv, RestoreTypeInv, Untouched, Stays

LEMMA RestoreStepInv == ASSUME RestoreInv, [RestoreNext]_restoreVars PROVE RestoreInv'
<1>1. CASE UNCHANGED restoreVars
  <2>1. UNCHANGED placeVars /\ UNCHANGED jobVars /\ UNCHANGED <<moves, touched, stayed>>
    BY <1>1 DEF restoreVars
  <2>2. QuietInv'
    BY <2>1, NothingQuiet DEF RestoreInv, RestoreTypeInv, Kept
  <2>3. /\ job' = job /\ saved' = saved /\ ops' = ops /\ start' = start
        /\ call' = call /\ tokens' = tokens /\ before' = before /\ disturbed' = disturbed
        /\ moves' = moves /\ touched' = touched /\ stayed' = stayed
    BY <2>1 DEF jobVars, placeVars
  <2>4. RestoreTypeInv'
    BY <2>2, <2>3 DEF RestoreInv, RestoreTypeInv, OthersMove, RestorerNotices
  <2>5. Untouched' /\ Stays(stayed', job', call'[restorer], tokens')
    BY <2>3 DEF RestoreInv, Untouched
  <2> QED BY <2>4, <2>5 DEF RestoreInv
<1>2. CASE RestorerStep
  <2>1. CASE JobMoves
    BY <1>2, <2>1, RestorerStepIs, StartInv, GoesOnInv DEF JobMoves
  <2>2. CASE PlaceStep(restorer) /\ UNCHANGED jobVars
    BY <1>2, <2>2, RestorerStepIs, PlaceStepInv
  <2> QED BY <1>2, <2>1, <2>2, RestorerStepIs
<1>3. ASSUME NEW th \in Thread \ {restorer}, OtherStep(th) PROVE RestoreInv'
  BY <1>3, OtherInv
<1> QED BY <1>1, <1>2, <1>3 DEF RestoreNext

LEMMA RestoreInvAlways == RestoreSpec => []RestoreInv
<1>1. RestoreInit => RestoreInv
  BY RestoreInitInv
<1>2. RestoreInv /\ [RestoreNext]_restoreVars => RestoreInv'
  BY RestoreStepInv
<1> QED BY <1>1, <1>2, PTL DEF RestoreSpec

(* Type correctness of checkpoints: in particular a snapshot that is taken  *)
(* covers every place of the net, and no channel ever holds more than its   *)
(* capacity.                                                                *)
THEOREM RestoreTypesOK == RestoreSpec => []RestoreTypeOK
<1>1. RestoreInv => RestoreTypeOK
  <2> SUFFICES ASSUME RestoreInv PROVE RestoreTypeOK
    OBVIOUS
  <2>1. /\ PlaceTypeOK /\ job \in JobType
        /\ job.pc # "idle" => job.at \in Place
        /\ saved \subseteq [Place -> Seq(Token)]
        /\ ops \in 0 .. MaxOps /\ moves \in 0 .. MaxMoves
    BY RestorerFacts DEF RestoreInv, RestoreTypeInv
  <2>2. IsMarking(job.taken) /\ IsMarking(job.from)
    BY <2>1, MarkingIs DEF JobType
  <2>3. \A m \in saved : DOMAIN m = Place /\ IsMarking(m)
    BY <2>1 DEF IsMarking
  <2> QED BY <2>1, <2>2, <2>3 DEF RestoreTypeOK, JobType
<1> QED BY <1>1, RestoreInvAlways, PTL

(* A step that ends a job is one of the restorer's between two calls.       *)
LEMMA EndsJob ==
  ASSUME RestoreInv, [RestoreNext]_restoreVars, job.pc # "idle", job'.pc = "idle"
  PROVE  JobStep
<1>1. job' # job
  OBVIOUS
<1>2. ~UNCHANGED restoreVars /\ ~UNCHANGED jobVars
  BY <1>1 DEF restoreVars, jobVars
<1>3. RestorerStep
  BY <1>2 DEF RestoreNext, OtherStep
<1>4. JobMoves
  BY <1>2, <1>3, RestorerStepIs
<1>5. Captured \/ Cleared \/ Added
  BY <1>4 DEF JobMoves, NewMarking, RestoreMarkingToNet
<1> QED BY <1>4, <1>5, JobGoesOn DEF RestoreInv, JobMoves

(* A token that stays in its place while a snapshot is taken is in the      *)
(* snapshot, in its place, whatever the others move meanwhile.              *)
THEOREM SnapshotsHaveWhatStayed == RestoreSpec => SnapshotHasWhatStayed
<1>1. ASSUME RestoreInv, [RestoreNext]_restoreVars
      PROVE  [job.pc = "snapshot" /\ job'.pc = "idle" =>
                \E m \in saved' :
                   /\ m = With(job.taken, job.at, call[restorer].seen)
                   /\ \A s \in stayed : s[2] \in Range(m[s[1]])]_restoreVars
  <2> SUFFICES ASSUME job.pc = "snapshot", job'.pc = "idle"
               PROVE  \E m \in saved' :
                        /\ m = With(job.taken, job.at, call[restorer].seen)
                        /\ \A s \in stayed : s[2] \in Range(m[s[1]])
    OBVIOUS
  <2>1. SnapshotDone
    BY <1>1, EndsJob DEF JobStep
  <2>2. PICK m \in saved' :
          /\ m = With(job.taken, job.at, call[restorer].seen)
          /\ \A p \in Place : Found(job, call[restorer], tokens, p) \subseteq Range(m[p])
    BY <2>1 DEF SnapshotDone
  <2>3. ASSUME NEW s \in stayed PROVE s[2] \in Range(m[s[1]])
    <3>1. s[1] \in Place /\ s[2] \in Found(job, call[restorer], tokens, s[1])
      BY <1>1, <2>3 DEF RestoreInv, Stays
    <3> QED BY <2>2, <3>1
  <2> QED BY <2>2, <2>3
<1> QED BY <1>1, RestoreInvAlways, PTL DEF RestoreSpec, SnapshotHasWhatStayed

(* A restore that nobody disturbs leaves the marking of the checkpoint or,  *)
(* when it fails, the one that was there, in FIFO order.                    *)
THEOREM QuietRestoresAreExact == RestoreSpec => QuietRestoreIsAllOrNothing
<1>1. ASSUME RestoreInv, [RestoreNext]_restoreVars
      PROVE  [~touched /\ job'.pc = "idle" /\ GlobalCapacity = 0 =>
                /\ job.pc \in {"clear", "restore"} => tokens' = Content(job.from)
                /\ job.pc \in {"undo_clear", "undo"} => tokens' = start]_restoreVars
  <2> SUFFICES ASSUME ~touched, job'.pc = "idle", GlobalCapacity = 0
               PROVE  /\ job.pc \in {"clear", "restore"} => tokens' = Content(job.from)
                      /\ job.pc \in {"undo_clear", "undo"} => tokens' = start
    OBVIOUS
  <2>1. CASE job.pc = "idle"
    BY <2>1
  <2>2. CASE job.pc # "idle"
    <3>1. RestoredOrUndone
      BY <1>1, <2>2, EndsJob DEF JobStep
    <3>2. Progress(job, call[restorer], tokens, before[restorer], start)
      BY <1>1, <2>2 DEF RestoreInv, Untouched
    <3> QED BY <3>1, <3>2 DEF RestoredOrUndone
  <2> QED BY <2>1, <2>2
<1> QED BY <1>1, RestoreInvAlways, PTL DEF RestoreSpec, QuietRestoreIsAllOrNothing
====
