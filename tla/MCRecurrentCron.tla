---------------------------- MODULE MCRecurrentCron ----------------------------
(* Small instances of RecurrentCron for TLC. *)
EXTENDS RecurrentCron, TLC

CONSTANTS s1, s2, s3, p1, p2

\* The processes differ by their names only.
MCSymmetry == Permutations(Procs)

\* Later rows are newer; all are of one stream.
MCCreatedAt == [s \in Subs |-> IF s = s1 THEN 1 ELSE IF s = s2 THEN 2 ELSE 3]
MCOneStream == [s \in Subs |-> 200]
================================================================================
