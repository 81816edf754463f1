---------------------------- MODULE KineticCommands ----------------------------
(* What kineticdb does with the list of words of a line: exec_commands       *)
(* chooses by the number of words, the parse_ functions by the first one.    *)
EXTENDS Sequences, FiniteSets

ExitWords == {"q", "quit", "exit"}

\* Three words are always a PUT or nothing: the call of parse_delete_table is
\* commented out.
Dispatch(words) ==
  IF Len(words) = 1 /\ words[1] \in ExitWords THEN "exit"
  ELSE IF Len(words) = 1 /\ words[1] = "help" THEN "help"
  ELSE IF Len(words) = 2 /\ words[1] = "GET" THEN "get"
  ELSE IF Len(words) = 3 /\ words[1] = "PUT" THEN "put"
  ELSE "unknown"

\* How often c is in the text s.
Occurrences(c, s) == Cardinality({i \in DOMAIN s : s[i] = c})
================================================================================
