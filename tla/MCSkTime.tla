------------------------------ MODULE MCSkTime ------------------------------
(* Small instances of SkTime. *)
EXTENDS SkTime, TLC

Symmetric == Permutations(Clients)

=============================================================================
