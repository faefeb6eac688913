----------------------------- MODULE MCRecovery -----------------------------
(* A transition moves two tokens from one place to another; one of them may *)
(* have Data that no file can hold.                                         *)
EXTENDS Recovery

CONSTANTS p1, p2, go, a, b

MCIn == [t \in Transition |-> p1]
MCOut == [t \in Transition |-> p2]
MCInitialTokens == [p \in Place |-> IF p = p1 THEN <<a, b>> ELSE <<>>]
MCMaxIds == <<3, 2>>
=============================================================================
