----------------------------- MODULE MCVerifier ------------------------------
(* fork splits a token of s into a and b; join takes both to d; skip takes  *)
(* a alone to d and leaves b behind; merge makes an s of two b; idle waits  *)
(* for a place nothing leads to.                                            *)
EXTENDS Verifier, TLC

CONSTANTS s, a, b, d, x, fork, join, skip, merge, idle

PlaceDef == {s, a, b, d, x}
TransitionDef == {fork, join, skip, merge, idle}

Bag(m) == [p \in PlaceDef |-> IF p \in DOMAIN m THEN m[p] ELSE 0]

MCPre ==
  (fork :> Bag(s :> 1)) @@ (join :> Bag(a :> 1 @@ b :> 1)) @@ (skip :> Bag(a :> 1))
  @@ (merge :> Bag(b :> 2)) @@ (idle :> Bag(x :> 1))
MCPost ==
  (fork :> Bag(a :> 1 @@ b :> 1)) @@ (join :> Bag(d :> 1)) @@ (skip :> Bag(d :> 1))
  @@ (merge :> Bag(s :> 1)) @@ (idle :> Bag(d :> 1))

MCInitialMarkings == {Bag(s :> 1), Bag(s :> 1 @@ b :> 1), Bag(x :> 1 @@ a :> 1)}
MCTerminals == {{d}, {b, d}}
MCCapacity == [p \in PlaceDef |-> 2]

MCChecks ==
  {[kind |-> "deadlock"],
   [kind |-> "reachability", target |-> (d :> 2)],
   [kind |-> "invariant", coefficients |-> (s :> 2 @@ a :> 1 @@ b :> 1), bound |-> 3],
   [kind |-> "mutex", placeA |-> s, placeB |-> a],
   [kind |-> "bounded", place |-> b, maxTokens |-> 1]}
=============================================================================
