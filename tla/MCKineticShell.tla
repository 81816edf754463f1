---------------------------- MODULE MCKineticShell ----------------------------
(* Small instances of KineticShell for TLC. *)
EXTENDS KineticShell
================================================================================
