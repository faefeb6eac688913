----------------------------- MODULE MCPlaceOps -----------------------------
(* Two places, one of them with room for a single token, and a net with a   *)
(* global limit: the smallest instance in which a peek, an add and a remove *)
(* of one place can overlap.                                                *)
EXTENDS PlaceOps, TLC

CONSTANTS p1, p2, a, b, c, d

MCCapacity == (p1 :> 2) @@ (p2 :> 1)
MCInitialTokens == (p1 :> <<a, b>>) @@ (p2 :> <<>>)
MCSymmetry == Permutations(Thread) \cup Permutations({c, d})
=============================================================================
