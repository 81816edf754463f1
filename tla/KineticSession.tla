---------------------------- MODULE KineticSession ----------------------------
(* A shell of kineticdb from the line that is typed to the file: main calls  *)
(* read_command, exec_commands and delete_list in turn, and reads on when    *)
(* put or get have returned.  After an exit the shell may be started anew.   *)
EXTENDS KineticShell, KineticDb

Shell == CHOOSE s \in Shells : TRUE

SessionInit == LineInit /\ Init
sessionVars == <<lineVars, vars>>

\* A new process: nothing is left of the one before it but the file.
Begin ==
  /\ Start(Shell)
  /\ at' = "reading" /\ command' = <<>> /\ word' = <<>> /\ list' = <<>>
  /\ heap' = 1 /\ ended' = 0
  /\ eof' = FALSE /\ typed' = <<>> /\ lost' = <<>> /\ torn' = FALSE
  /\ UNCHANGED <<quote, fails, count, ran>>

\* The next character is read while no command is being executed.
Read ==
  /\ pc[Shell] = "prompt"
  /\ ReadCommand
  /\ UNCHANGED vars

\* exit(1) of check_alloc: to the database like any other exit.
RunOut == NoBuffer /\ Enter(Shell, <<"exit">>)

\* exec_commands gets the list that read_command has made.
Obey == Exec /\ Enter(Shell, Names)

\* A step of put or get; a shell that get ends reads no more.
Execute ==
  /\ Step(Shell)
  /\ at' = IF pc'[Shell] = "off" THEN "off" ELSE at
  /\ UNCHANGED <<buffers, memory, ended, count, eof, typed, torn, ran>>

SessionNext == Begin \/ Read \/ RunOut \/ Obey \/ Execute
\* The shell runs on when it has a line; nobody has to type one.
SessionSpec ==
  /\ SessionInit /\ [][SessionNext]_sessionVars
  /\ WF_sessionVars(Obey) /\ WF_sessionVars(Execute)

-----------------------------------------------------------------------------
(* A line without quotes that asks for a PUT adds its record to the file,    *)
(* key and value in their places, whatever lines came before it, unless a    *)
(* word of it is lost to a failed allocation                                 *)
(* (main.c:19-32, commands_parser.c:47-61, 107-137, commands.c:23-42).       *)
PlainPutIsStored ==
  \A k, v \in Symbols, m \in 0..MaxLines - 1 :
    (/\ at = "exec" /\ typed = <<"PUT", Space, k, Space, v>> /\ lost = <<>>
     /\ Len(lines) = m)
      ~> (Len(lines) = m + 1 /\ lines[m + 1] = <<k, Separator, v>>)
================================================================================
