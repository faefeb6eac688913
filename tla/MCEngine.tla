------------------------------ MODULE MCEngine ------------------------------
(* Two nets.  In the chain the first transition is automatic and feeds the  *)
(* second, which waits for the approval of alice.  In the pair one          *)
(* transition waits for its time and another for an event, and they compete *)
(* for one token.                                                           *)
EXTENDS Engine, TLC

CONSTANTS p1, p2, auto, manual, timed, event, alice

Count(ones) == [p \in Place |-> IF p \in ones THEN 1 ELSE 0]

MCKind == [t \in Transition |-> CASE t = manual -> "manual"
                                  [] t = timed  -> "timed"
                                  [] t = event  -> "event"
                                  [] OTHER      -> "none"]
MCApprovers == [t \in Transition |-> IF t = manual THEN {alice} ELSE {}]
MCCapacity == [p \in Place |-> 1]

MCChainPre == (auto :> Count({p1})) @@ (manual :> Count({p2}))
MCChainPost == (auto :> Count({p2})) @@ (manual :> Count({}))
MCChainMarking == Count({p1})

MCPairPre == [t \in Transition |-> Count({p1})]
MCPairPost == [t \in Transition |-> Count({})]
MCPairMarking == Count({p1})
=============================================================================
