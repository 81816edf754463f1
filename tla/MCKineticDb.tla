------------------------------ MODULE MCKineticDb ------------------------------
(* Small instances of KineticDb for TLC. *)
EXTENDS KineticDb

Symmetry == Permutations(Shells)
================================================================================
