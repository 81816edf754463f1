------------------------------- MODULE Children -------------------------------
(* launch_process and grep: a parent that forks, a child that turns into a   *)
(* command, and the wait for it.  When exec fails the child of grep exits;   *)
(* the child of launch_process goes on behind it, like the parent.           *)
EXTENDS Naturals

Programs == {"launch_process", "grep"}
VARIABLES
  program,   \* which of the two runs
  parent,    \* "fork", "wait", "gone"
  child,     \* "none", "exec", "command", "wait", "zombie", "reaped"
  results    \* what main returned or exit was given, per process
childVars == <<program, parent, child, results>>

Init ==
  /\ program \in Programs
  /\ parent = "fork" /\ child = "none"
  /\ results = [parent |-> 0, child |-> 0]

Fork ==
  /\ parent = "fork"
  /\ \/ parent' = "wait" /\ child' = "exec" /\ UNCHANGED results
     \/ /\ parent' = "gone" /\ results' = [results EXCEPT !.parent = 1]
        /\ UNCHANGED child
  /\ UNCHANGED program
Exec ==
  /\ child = "exec"
  /\ \/ child' = "command" /\ UNCHANGED results
     \/ /\ program = "launch_process"
        /\ child' = "wait" /\ UNCHANGED results
     \/ /\ program = "grep"
        /\ child' = "zombie" /\ results' = [results EXCEPT !.child = 1]
  /\ UNCHANGED <<program, parent>>
\* The command ends, or the child that did not become it: its wait returns at
\* once, as it has no child of its own.
ChildEnds ==
  /\ child \in {"command", "wait"}
  /\ child' = "zombie"
  /\ results' \in {[results EXCEPT !.child = r] :
                     r \in IF child = "wait" THEN {0} ELSE {0, 1}}
  /\ UNCHANGED <<program, parent>>

\* Mutant: wait with WNOHANG.
WaitNot ==
  /\ parent = "wait"
  /\ parent' = "gone"
  /\ child' = IF child = "zombie" THEN "reaped" ELSE child
  /\ UNCHANGED <<program, results>>

\* wait(NULL): the status of the child is not asked for.
Wait ==
  /\ parent = "wait" /\ child = "zombie"
  /\ parent' = "gone" /\ child' = "reaped"
  /\ UNCHANGED <<program, results>>

Next == Fork \/ Exec \/ ChildEnds \/ Wait
Spec == Init /\ [][Next]_childVars

-----------------------------------------------------------------------------
TypeOK ==
  /\ program \in Programs /\ parent \in {"fork", "wait", "gone"}
  /\ child \in {"none", "exec", "command", "wait", "zombie", "reaped"}
  /\ results \in [{"parent", "child"} -> {0, 1}]

(* Who started the command gets the terminal back only after the command or  *)
(* the child that failed to become it has ended, and no child is left as a   *)
(* zombie (launch_process.c:22-30, grep/main.c:11-21).                       *)
NoChildLeft == parent = "gone" => child \in {"none", "reaped"}
================================================================================
