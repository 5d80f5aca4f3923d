----------------------------- MODULE MCTraversal -----------------------------
(* Instances of Traversal for TLC: a host h and a joiner j.                *)
EXTENDS Traversal, TLC

CONSTANTS h, j, x, y, z

MCFirstIds == h :> x @@ j :> y

=============================================================================
