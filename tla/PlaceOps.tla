------------------------------ MODULE PlaceOps ------------------------------
(***************************************************************************)
(* The places of one net under arbitrary concurrent use: every thread      *)
(* calls AddToken, RemoveToken, PeekTokens, PeekTokensWithCount and Clear  *)
(* of any place, in any order.  A token is added only by a caller that     *)
(* holds it, and the initial tokens are different ones, so two copies of a *)
(* token can only come from the code.                                      *)
(***************************************************************************)
EXTENDS PlaceChannel

CONSTANTS
  MaxUncounted,    \* no Clear starts once this many tokens left uncounted
  InitialTokens    \* the channels at the start

ASSUME OpsAssumption ==
  /\ MaxUncounted \in Nat
  /\ InitialTokens \in [Place -> Seq(Token)]
  /\ \A p \in Place : Len(InitialTokens[p]) <= Capacity[p]
  /\ \A p, q \in Place :
       \A i \in 1 .. Len(InitialTokens[p]), j \in 1 .. Len(InitialTokens[q]) :
         InitialTokens[p][i] = InitialTokens[q][j] => p = q /\ i = j
  /\ Thread # {}
  /\ GlobalCapacity # 0 =>
       Cardinality(UNION {{p} \X (1 .. Len(InitialTokens[p])) : p \in Place})
         <= GlobalCapacity

VARIABLE
  added            \* history: threads that hold a peek mutex and into whose
                   \* place AddToken has sent since they locked it

vars == <<placeVars, added>>

(* Threads that hold one token outside any channel: an argument not sent    *)
(* yet, or one received and not counted out yet.                            *)
Adding == {th \in Thread : call[th].pc \in {"add_check", "add_send"}}
Removing == {th \in Thread : call[th].pc = "rem_count"}

(* Where tokens are, with index 0 for the token a thread carries.           *)
Slots == QueueSlots \cup BufferSlots \cup (Adding \cup Removing) \X {0}

TokenAt(s) ==
  IF s[1] \in Place THEN tokens[s[1]][s[2]]
  ELSE IF s[2] = 0 THEN call[s[1]].tok ELSE call[s[1]].buf[s[2]]

(* Tokens that belong to the environment and may be added.                  *)
Outside == Token \ (lost \cup {TokenAt(s) : s \in Slots})

Begin(th) ==
  /\ Free(th)
  /\ \E p \in Place :
       \/ \E t \in Outside : CallAddToken(th, p, t)
       \/ CallRemoveToken(th, p)
       \/ CallPeekTokens(th, p)
       \/ \E n \in 1 .. Capacity[p] : CallPeekTokensWithCount(th, p, n)
       \/ uncounted < MaxUncounted /\ CallClear(th, p)
  /\ UNCHANGED <<tokens, totalTokens, peekMu, history>>

Init == PlaceInit(InitialTokens) /\ added = {}

SendsTo(th, p) ==
  call[th].pc = "add_send" /\ call[th].place = p /\ call'[th].pc = "add_count"

NoteSend(th) ==
  added' = {u \in Thread :
              \E p \in Place : peekMu'[p] = u /\ (u \in added \/ SendsTo(th, p))}

Next ==
  \E th \in Thread :
    (Begin(th) /\ UNCHANGED added) \/ (PlaceStep(th) /\ NoteSend(th))

Spec == Init /\ [][Next]_vars

-----------------------------------------------------------------------------
(* Type invariant: in particular no channel holds more than its capacity.   *)
TypeOK == PlaceTypeOK

(* The doc of RemoveToken promises "no token duplication under concurrent   *)
(* access": no token is in two slots, whatever peeks, adds, removes and     *)
(* clears overlap.                                                          *)
NoDuplication ==
  \A s1, s2 \in Slots : TokenAt(s1) = TokenAt(s2) => s1 = s2

Sent == {th \in Thread : call[th].pc = "add_count"}

(* The counter behind GlobalCapacity is exactly what the net holds, up to   *)
(* the adds and removes that are between their two steps and the tokens     *)
(* that Clear and a lossy PeekTokens took out without counting them.        *)
CounterAccounting ==
  totalTokens + Cardinality(Sent) =
    Cardinality(QueueSlots) + Cardinality(BufferSlots)
      + Cardinality(Removing) + uncounted

(* GlobalCapacity is checked before the token is sent and counted, so       *)
(* threads that checked together pass it together: the net can exceed the   *)
(* limit, but never by more than one token for each other thread.           *)
GlobalOvershootBounded ==
  GlobalCapacity # 0 =>
    Cardinality(QueueSlots) + Cardinality(BufferSlots)
      <= GlobalCapacity + Cardinality(Thread) - 1

FinishesPeek(th) ==
  /\ call[th].pc \in {"peek_drain", "peek_refill", "pwc_drain", "pwc_undo",
                      "pwc_refill"}
  /\ call'[th].pc = "done"

(* A peek that no other channel operation of its place overlaps is          *)
(* non-destructive (docs of PeekTokens and PeekTokensWithCount): the        *)
(* channel ends as it was, in FIFO order, and the result is its prefix.     *)
QuietPeekIsNonDestructive ==
  [][\A th \in Thread : FinishesPeek(th) /\ th \notin disturbed =>
       LET p == call[th].place
           n == IF call[th].pc \in {"peek_drain", "peek_refill"}
                THEN Len(before[th]) ELSE call[th].need IN
       /\ call'[th].ok
       /\ tokens'[p] = before[th]
       /\ call'[th].seen = SubSeq(before[th], 1, n)]_placeVars

(* The docs of place.go promise "no token loss".  A token is lost only when *)
(* the PeekTokens that took it from the place puts it back, and only if an  *)
(* AddToken of the same place has sent a token there since that PeekTokens  *)
(* locked its mutex: whatever other calls overlap it, and whatever AddToken *)
(* does elsewhere or was refused, nothing is lost.                          *)
LossNeedsARace ==
  [][lost' # lost =>
       \E th \in added :
         LET p == call[th].place IN
         /\ call[th].pc = "peek_refill" /\ peekMu[p] = th
         /\ lost' = lost \cup {Head(call[th].buf)} /\ tokens'[p] = tokens[p]
         /\ call'[th] # call[th]]_vars
=============================================================================
