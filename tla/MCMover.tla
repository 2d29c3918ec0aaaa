------------------------------- MODULE MCMover -------------------------------
(* Mover on small instances; the machines are interchangeable.             *)
EXTENDS Mover, TLC

Interchangeable == Permutations(Machines)
=============================================================================
