---------------------------- MODULE MCRestoration ----------------------------
(* Two places, and checkpoints that fit, that do not fit, and that come     *)
(* from a net with another place; one other thread.                         *)
EXTENDS Restoration

CONSTANTS p1, p2, old, a, b, c

MCCapacity == (p1 :> 2) @@ (p2 :> 1)
MCInitialContent == (p1 :> <<a, b>>) @@ (p2 :> <<>>)
MCCheckpoints == {(p1 :> <<c>>) @@ (p2 :> <<a>>),
                  (p1 :> <<c>>) @@ (p2 :> <<a, b>>),
                  (p1 :> <<c>>) @@ (old :> <<a>>)}
=============================================================================
