---------------------------- MODULE PlaceChannel ----------------------------
(***************************************************************************)
(* A place of the net is a buffered Go channel of tokens (petri/place.go)  *)
(* and the net keeps one counter of all tokens (petri/net.go).  No lock    *)
(* covers an operation as a whole: AddToken and RemoveToken touch the      *)
(* channel and the counter in separate steps, and the two peeks drain the  *)
(* channel and fill it again under a mutex that AddToken and RemoveToken   *)
(* do not take.  This module has one action per atomic step of these       *)
(* operations; the modules that use it decide which thread calls what.     *)
(*                                                                         *)
(* A call in progress is the record call[th]; its field pc names the next  *)
(* step, and "done" means that the call has returned ok, tok and seen.     *)
(***************************************************************************)
EXTENDS Integers, Sequences, FiniteSets

CONSTANTS
  Thread,           \* goroutines that call the operations
  Place,            \* the places of the net
  Token,            \* the tokens
  Capacity,         \* Capacity[p]: size of the channel of place p
  GlobalCapacity,   \* PetriNet.GlobalCapacity, 0 = unlimited
  None              \* nil

(* NewPlace turns a capacity <= 0 into a positive default, and              *)
(* SetGlobalCapacity refuses a negative value.                              *)
ASSUME PlaceAssumption ==
  /\ IsFiniteSet(Thread) /\ IsFiniteSet(Place)
  /\ Capacity \in [Place -> Nat \ {0}]
  /\ GlobalCapacity \in Nat
  /\ None \notin Thread \cup Place \cup Token
  /\ Thread \cap Place = {}

VARIABLES
  tokens,        \* tokens[p]: content of the channel of p, oldest first
  totalTokens,   \* PetriNet.totalTokens
  peekMu,        \* peekMu[p]: the thread that holds the peek mutex of p, or None
  call,          \* call[th]: the place operation that th executes
  before,        \* history: content of the channel when th locked peekMu
  disturbed,     \* history: threads whose place others used since they locked it
  uncounted,     \* history: tokens that left the net without being counted out
  lost           \* history: tokens that no one holds any more

placeVars == <<tokens, totalTokens, peekMu, call, before, disturbed,
               uncounted, lost>>
history == <<before, disturbed, uncounted, lost>>

-----------------------------------------------------------------------------

AddSteps == {"add_check", "add_send", "add_count"}
RemoveSteps == {"rem_recv", "rem_count"}
DrainSteps == {"peek_drain", "peek_refill", "pwc_drain", "pwc_undo",
               "pwc_refill", "clr_len", "clr_recv"}
LockSteps == {"peek_lock", "pwc_lock", "clr_lock"}
Steps == AddSteps \cup RemoveSteps \cup LockSteps \cup DrainSteps

(* place, tok and need are the arguments; avail, buf and seen the local     *)
(* variables available, putBack/allTokens/clearedTokens and the snapshot.   *)
CallType ==
  [pc    : Steps \cup {"idle", "done"},
   place : Place \cup {None},
   tok   : Token \cup {None},
   need  : Nat,
   avail : Nat,
   buf   : Seq(Token),
   seen  : Seq(Token),
   ok    : BOOLEAN]

(* A call about to do its first step, and one that has returned.            *)
Request(step, p, t, n) ==
  [pc |-> step, place |-> p, tok |-> t, need |-> n,
   avail |-> 0, buf |-> <<>>, seen |-> <<>>, ok |-> TRUE]

Result(ok, t, s) ==
  [pc |-> "done", place |-> None, tok |-> t, need |-> 0,
   avail |-> 0, buf |-> <<>>, seen |-> s, ok |-> ok]

NoCall == Request("idle", None, None, 0)

Set(th, c) == call' = [call EXCEPT ![th] = c]

Free(th) == call[th].pc \in {"idle", "done"}

(* Mutant: one slot of the channel is never used.                           *)
FullTooEarly(p) == Len(tokens[p]) + 1 >= Capacity[p]

Full(p) == Len(tokens[p]) >= Capacity[p]

-----------------------------------------------------------------------------
(* Calls.  A client starts one when its thread is Free.                     *)

CallAddToken(th, p, t) == Set(th, Request("add_check", p, t, 0))

CallRemoveToken(th, p) == Set(th, Request("rem_recv", p, None, 0))

CallPeekTokens(th, p) == Set(th, Request("peek_lock", p, None, 0))

CallPeekTokensWithCount(th, p, n) == Set(th, Request("pwc_lock", p, None, n))

CallClear(th, p) == Set(th, Request("clr_lock", p, None, 0))

Return(th, ok, t, s) == Set(th, Result(ok, t, s))

Goto(th, step) == Set(th, [call[th] EXCEPT !.pc = step])

(* A channel operation of th on p; the history notes that it came between   *)
(* two channel operations of the thread that holds the peek mutex.          *)
Disturb(th, p) ==
  disturbed' = IF peekMu[p] \in {None, th} THEN disturbed
               ELSE disturbed \cup {peekMu[p]}

Send(th, p, t) ==
  /\ tokens' = [tokens EXCEPT ![p] = Append(@, t)]
  /\ Disturb(th, p)

(* Mutant: the token handed out stays in the place.                         *)
ReceiveCopy(th, p) == UNCHANGED tokens /\ Disturb(th, p)

Receive(th, p) ==
  /\ tokens' = [tokens EXCEPT ![p] = Tail(@)]
  /\ Disturb(th, p)

(* incrementTokenCount: its own critical section of tokenMutex.             *)
IncrementTokenCount(delta) == totalTokens' = totalTokens + delta

(* Mutant: the token about to be added is not counted.                      *)
CheckGlobalCapacityOffByOne ==
  GlobalCapacity = 0 \/ totalTokens <= GlobalCapacity

(* checkGlobalCapacity(1)                                                   *)
CheckGlobalCapacity ==
  GlobalCapacity = 0 \/ totalTokens + 1 <= GlobalCapacity

LockPeek(th, p) ==
  /\ peekMu[p] = None
  /\ peekMu' = [peekMu EXCEPT ![p] = th]
  /\ before' = [before EXCEPT ![th] = tokens[p]]

(* Mutant: no deferred Unlock.                                              *)
UnlockPeekForgotten(th, p) ==
  UNCHANGED peekMu /\ before' = [before EXCEPT ![th] = <<>>]

UnlockPeek(th, p) ==
  /\ peekMu' = [peekMu EXCEPT ![p] = None]
  /\ before' = [before EXCEPT ![th] = <<>>]

-----------------------------------------------------------------------------
(* AddToken: check the global limit, send without blocking, count.          *)

AddCheck(th) ==
  /\ call[th].pc = "add_check"
  /\ IF CheckGlobalCapacity THEN Goto(th, "add_send")
     ELSE Return(th, FALSE, None, <<>>)
  /\ UNCHANGED <<tokens, totalTokens, peekMu, history>>

(* Mutant: a refused token is counted.                                      *)
AddSendCountsRefused(th) ==
  LET p == call[th].place IN
  /\ call[th].pc = "add_send"
  /\ Goto(th, "add_count")
  /\ IF Full(p) THEN UNCHANGED <<tokens, disturbed>>
     ELSE Send(th, p, call[th].tok)
  /\ UNCHANGED <<totalTokens, peekMu, before, uncounted, lost>>

AddSend(th) ==
  LET p == call[th].place IN
  /\ call[th].pc = "add_send"
  /\ \/ /\ ~Full(p)
        /\ Send(th, p, call[th].tok)
        /\ Goto(th, "add_count")
     \/ /\ Full(p)
        /\ Return(th, FALSE, None, <<>>)
        /\ UNCHANGED <<tokens, disturbed>>
  /\ UNCHANGED <<totalTokens, peekMu, before, uncounted, lost>>

AddCount(th) ==
  /\ call[th].pc = "add_count"
  /\ IncrementTokenCount(1)
  /\ Return(th, TRUE, None, <<>>)
  /\ UNCHANGED <<tokens, peekMu, history>>

(* RemoveToken: receive without blocking, count.                            *)

RemoveReceive(th) ==
  LET p == call[th].place IN
  /\ call[th].pc = "rem_recv"
  /\ \/ /\ tokens[p] # <<>>
        /\ Receive(th, p)
        /\ Set(th, [call[th] EXCEPT !.pc = "rem_count",
                                    !.tok = Head(tokens[p])])
     \/ /\ tokens[p] = <<>>
        /\ Return(th, FALSE, None, <<>>)
        /\ UNCHANGED <<tokens, disturbed>>
  /\ UNCHANGED <<totalTokens, peekMu, before, uncounted, lost>>

RemoveCount(th) ==
  /\ call[th].pc = "rem_count"
  /\ IncrementTokenCount(-1)
  /\ Return(th, TRUE, call[th].tok, <<>>)
  /\ UNCHANGED <<tokens, peekMu, history>>

-----------------------------------------------------------------------------
(* PeekTokens: under peekMu, receive until the channel is empty, then send  *)
(* everything back without blocking; a send that finds the channel full     *)
(* drops its token.  The unlock belongs to the last send.                   *)

PeekLock(th) ==
  /\ call[th].pc = "peek_lock"
  /\ LockPeek(th, call[th].place)
  /\ Goto(th, "peek_drain")
  /\ UNCHANGED <<tokens, totalTokens, disturbed, uncounted, lost>>

(* Mutant: what was drained last goes back first.                           *)
DrainAsStack(th) ==
  LET p == call[th].place IN
  /\ tokens[p] # <<>>
  /\ Receive(th, p)
  /\ Set(th, [call[th] EXCEPT !.buf = <<Head(tokens[p])>> \o @])
  /\ UNCHANGED <<totalTokens, peekMu, before, uncounted, lost>>

(* One receive of a drain loop.                                             *)
Drain(th) ==
  LET p == call[th].place IN
  /\ tokens[p] # <<>>
  /\ Receive(th, p)
  /\ Set(th, [call[th] EXCEPT !.buf = Append(@, Head(tokens[p]))])
  /\ UNCHANGED <<totalTokens, peekMu, before, uncounted, lost>>

(* Mutant: a loop up to len(channel), which shrinks as the loop goes on.    *)
PeekDrainUpToLen(th) ==
  LET p == call[th].place IN
  /\ call[th].pc = "peek_drain"
  /\ IF Len(call[th].buf) < Len(tokens[p]) THEN Drain(th)
     ELSE /\ IF call[th].buf = <<>>
             THEN /\ Return(th, TRUE, None, <<>>)
                  /\ UnlockPeek(th, p)
             ELSE /\ Set(th, [call[th] EXCEPT !.pc = "peek_refill",
                                              !.seen = call[th].buf])
                  /\ UNCHANGED <<peekMu, before>>
          /\ UNCHANGED <<tokens, totalTokens, disturbed, uncounted, lost>>

PeekDrain(th) ==
  LET p == call[th].place IN
  /\ call[th].pc = "peek_drain"
  /\ \/ Drain(th)
     \/ /\ tokens[p] = <<>>
        /\ IF call[th].buf = <<>>
           THEN /\ Return(th, TRUE, None, <<>>)
                /\ UnlockPeek(th, p)
                /\ disturbed' = disturbed \ {th}
           ELSE /\ Set(th, [call[th] EXCEPT !.pc = "peek_refill",
                                            !.seen = call[th].buf])
                /\ UNCHANGED <<peekMu, before, disturbed>>
        /\ UNCHANGED <<tokens, totalTokens, uncounted, lost>>

(* The end of a put-back loop: another round, or unlock and return.         *)
Refilled(th, ok) ==
  LET p == call[th].place IN
  IF Tail(call[th].buf) # <<>>
  THEN /\ Set(th, [call[th] EXCEPT !.buf = Tail(@)])
       /\ UNCHANGED <<peekMu, before, disturbed>>
  ELSE /\ Return(th, ok, None, call[th].seen)
       /\ UnlockPeek(th, p)
       /\ disturbed' = disturbed \ {th}

PeekRefill(th) ==
  LET p == call[th].place
      t == Head(call[th].buf) IN
  /\ call[th].pc = "peek_refill"
  /\ \/ /\ ~Full(p)
        /\ tokens' = [tokens EXCEPT ![p] = Append(@, t)]
        /\ UNCHANGED <<uncounted, lost>>
     \/ /\ Full(p)
        /\ lost' = lost \cup {t}
        /\ uncounted' = uncounted + 1
        /\ UNCHANGED tokens
  /\ Refilled(th, TRUE)
  /\ UNCHANGED totalTokens

-----------------------------------------------------------------------------
(* PeekTokensWithCount: under peekMu, read len, receive that many, send     *)
(* them back with a BLOCKING send.  When another thread took a token after  *)
(* len was read, what was drained goes back and the call fails.  len is     *)
(* read in the step that locks: the lock may be moved up to it.             *)

(* Mutant: len is not compared with the number of tokens asked for.         *)
PwcLockUnchecked(th) ==
  /\ call[th].pc = "pwc_lock"
  /\ LockPeek(th, call[th].place)
  /\ Set(th, [call[th] EXCEPT !.pc = "pwc_drain",
                              !.avail = Len(tokens[call[th].place])])
  /\ UNCHANGED <<tokens, totalTokens, disturbed, uncounted, lost>>

PwcLock(th) ==
  LET p == call[th].place IN
  /\ call[th].pc = "pwc_lock"
  /\ peekMu[p] = None
  /\ IF Len(tokens[p]) < call[th].need
     THEN /\ Return(th, FALSE, None, <<>>)
          /\ UNCHANGED <<peekMu, before>>
     ELSE /\ LockPeek(th, p)
          /\ Set(th, [call[th] EXCEPT !.pc = "pwc_drain",
                                      !.avail = Len(tokens[p])])
  /\ UNCHANGED <<tokens, totalTokens, disturbed, uncounted, lost>>

PwcDrain(th) ==
  LET p == call[th].place IN
  /\ call[th].pc = "pwc_drain"
  /\ \/ Len(call[th].buf) < call[th].avail /\ Drain(th)
     \/ /\ Len(call[th].buf) < call[th].avail
        /\ tokens[p] = <<>>
        /\ IF call[th].buf = <<>>
           THEN /\ Return(th, FALSE, None, <<>>)
                /\ UnlockPeek(th, p)
                /\ disturbed' = disturbed \ {th}
           ELSE /\ Goto(th, "pwc_undo")
                /\ UNCHANGED <<peekMu, before, disturbed>>
        /\ UNCHANGED <<tokens, totalTokens, uncounted, lost>>
     \/ /\ Len(call[th].buf) = call[th].avail
        /\ Set(th, [call[th] EXCEPT
                      !.pc = "pwc_refill",
                      !.seen = SubSeq(call[th].buf, 1, call[th].need)])
        /\ UNCHANGED <<tokens, totalTokens, peekMu, history>>

(* The two put-back loops; both block while the channel is full.            *)
PwcRefill(th) ==
  LET p == call[th].place IN
  /\ call[th].pc \in {"pwc_undo", "pwc_refill"}
  /\ ~Full(p)
  /\ tokens' = [tokens EXCEPT ![p] = Append(@, Head(call[th].buf))]
  /\ Refilled(th, call[th].pc = "pwc_refill")
  /\ UNCHANGED <<totalTokens, uncounted, lost>>

-----------------------------------------------------------------------------
(* Clear: under peekMu, while len > 0 receive (blocking).  It does not      *)
(* count the tokens out.                                                    *)

ClearLock(th) ==
  /\ call[th].pc = "clr_lock"
  /\ LockPeek(th, call[th].place)
  /\ Goto(th, "clr_len")
  /\ UNCHANGED <<tokens, totalTokens, disturbed, uncounted, lost>>

ClearLen(th) ==
  LET p == call[th].place IN
  /\ call[th].pc = "clr_len"
  /\ IF Len(tokens[p]) > 0
     THEN /\ Goto(th, "clr_recv")
          /\ UNCHANGED <<peekMu, before, disturbed, uncounted>>
     ELSE /\ Return(th, TRUE, None, call[th].buf)
          /\ uncounted' = uncounted + Len(call[th].buf)
          /\ UnlockPeek(th, p)
          /\ disturbed' = disturbed \ {th}
  /\ UNCHANGED <<tokens, totalTokens, lost>>

ClearReceive(th) ==
  /\ call[th].pc = "clr_recv"
  /\ tokens[call[th].place] # <<>>
  /\ Receive(th, call[th].place)
  /\ Set(th, [call[th] EXCEPT !.pc = "clr_len",
                              !.buf = Append(@, Head(tokens[call[th].place]))])
  /\ UNCHANGED <<totalTokens, peekMu, before, uncounted, lost>>

PlaceStep(th) ==
  \/ AddCheck(th) \/ AddSend(th) \/ AddCount(th)
  \/ RemoveReceive(th) \/ RemoveCount(th)
  \/ PeekLock(th) \/ PeekDrain(th) \/ PeekRefill(th)
  \/ PwcLock(th) \/ PwcDrain(th) \/ PwcRefill(th)
  \/ ClearLock(th) \/ ClearLen(th) \/ ClearReceive(th)

(* The slots a token of the net can be in: a position of a channel, or a    *)
(* position of the buffer of a thread that drains one.                      *)
QueueSlots == UNION {{p} \X (1 .. Len(tokens[p])) : p \in Place}
BufferSlots == UNION {{th} \X (1 .. Len(call[th].buf)) : th \in Thread}

(* Between calls: every token is in a channel and has been counted.         *)
PlaceInit(content) ==
  /\ tokens = content
  /\ totalTokens = Cardinality(QueueSlots)
  /\ peekMu = [p \in Place |-> None]
  /\ call = [th \in Thread |-> NoCall]
  /\ before = [th \in Thread |-> <<>>]
  /\ disturbed = {}
  /\ uncounted = 0
  /\ lost = {}

(* What a call record holds at each step.                                   *)
CallOK(c) ==
  /\ c.pc \in Steps => c.place \in Place
  /\ c.pc \in AddSteps \cup {"rem_count"} => c.tok \in Token
  /\ c.pc \notin DrainSteps => c.buf = <<>>
  /\ c.pc \in {"peek_refill", "pwc_undo", "pwc_refill"} => c.buf # <<>>
  /\ c.pc \in {"pwc_lock", "pwc_drain"} => c.need >= 1
  /\ c.pc = "pwc_drain" => Len(c.buf) <= c.avail /\ c.need <= c.avail

PlaceTypeOK ==
  /\ tokens \in [Place -> Seq(Token)]
  /\ \A p \in Place : Len(tokens[p]) <= Capacity[p]
  /\ totalTokens \in Int
  /\ peekMu \in [Place -> Thread \cup {None}]
  /\ call \in [Thread -> CallType]
  /\ \A th \in Thread : CallOK(call[th])
  /\ before \in [Thread -> Seq(Token)]
  /\ disturbed \subseteq Thread
  /\ uncounted \in Nat
  /\ lost \subseteq Token

(* The peek mutex of a place is held exactly by the thread that is between  *)
(* the first receive and the last put-back of a drain of that place.        *)
PeekMutex ==
  \A th \in Thread, p \in Place :
    peekMu[p] = th <=> call[th].pc \in DrainSteps /\ call[th].place = p
=============================================================================
