---------------------------- MODULE MCNetBuilding ----------------------------
(* IDs that anyone may use for a place or a transition; the place i has a   *)
(* token when it is added, the others have none.  The two arcs are alike,   *)
(* and so are the other two IDs.                                            *)
EXTENDS NetBuilding, TLC

CONSTANTS i, j, k

MCId == {i, j, k}
MCInitialTokens == [x \in MCId |-> IF x = i THEN 1 ELSE 0]
MCCapacity == [x \in MCId |-> 1]
MCSymmetry == Permutations(ArcId) \cup Permutations({j, k})
=============================================================================
