-------------------------- MODULE MCNearDuplicate --------------------------
(* Instances of NearDuplicate for TLC. *)
EXTENDS NearDuplicate, TLC

\* Invoices are interchangeable: nothing orders or names them.
MCNearDupSymmetry == Permutations(Invoices)
=============================================================================
