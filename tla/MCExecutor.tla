----------------------------- MODULE MCExecutor -----------------------------
(* t1 takes two tokens of p1 and puts one into p2; t2 takes one of each and *)
(* puts one back into p1.  They compete for p1, each can fail half way      *)
(* through its inputs, and t1 meets a full p2 until t2 has fired.           *)
EXTENDS Executor

CONSTANTS p1, p2, t1, t2, a, b, c

Identity == [x \in Token |-> x]
Arc(p, w) == [place |-> p, weight |-> w, expr |-> Identity]

MCInputArcs ==
  (t1 :> <<[place |-> p1, weight |-> 2]>>) @@
  (t2 :> <<[place |-> p1, weight |-> 1], [place |-> p2, weight |-> 1]>>)
MCOutputArcs ==
  (t1 :> <<[Arc(p2, 1) EXCEPT !.expr = [x \in Token |-> c]]>>) @@
  (t2 :> <<Arc(p1, 1)>>)
MCCapacity == (p1 :> 2) @@ (p2 :> 2)
MCInitialTokens == (p1 :> <<a, b>>) @@ (p2 :> <<c, c>>)
=============================================================================
