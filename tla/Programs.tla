------------------------------- MODULE Programs -------------------------------
(* The programs that share nothing with each other, in one specification:    *)
(* which of them runs is chosen at the beginning and stays; the others wait  *)
(* in one initial state.                                                     *)
EXTENDS FileChat, FiniteSets

CONSTANTS
  Clients, QLen, MaxTime, MaxFaults,                  \* TCPserver
  PointerSize, Messages,                              \* datagram
  MaxSignals, TimeLimit,                              \* ctrlc, what_is_your_name
  Wanted, Others, MaxLinks,                           \* search_file
  Numbers, Memory,                                    \* the lists
  Letters, MaxString, MaxSubstring, LineSize,         \* the text tools
  LineLengths, MaxLines, MaxFiles, CatDescriptors

VARIABLES
  running,   \* the program that runs
  at, part, bound, queue, peer, time, ended, now, client, said, faults,
  server, message, waiting, served, netPeer, socket, reset, output,
  program, parent, child, results,
  main, n, late, asker, clock, answer, begun, reply,
  tree, link, dir, entries, cwd, result,
  task, stage, nodes, head, tail, num, curr, out, given,
  tool, step, str, substr, i, j, files, arg, printed

Tcp == INSTANCE TcpServer
Net == INSTANCE Datagram WITH Peers <- Clients, Texts <- Messages, peer <- netPeer
Child == INSTANCE Children
Prompt == INSTANCE Prompts WITH typed <- answer
Find == INSTANCE SearchFile
Lists == INSTANCE Figures
Text == INSTANCE Texts WITH Descriptors <- CatDescriptors, out <- printed

ASSUME TcpAssumption == QLen \in Nat /\ MaxTime \in Nat /\ MaxFaults \in Nat
\* A string of C has no zero byte before its end.
ASSUME DatagramAssumption ==
  /\ PointerSize \in Nat
  /\ \A m \in Messages : m \in Seq(Net!ToSet(m)) /\ Net!Nul \notin Net!ToSet(m)
ASSUME PromptAssumption == MaxSignals \in Nat /\ TimeLimit \in Nat
ASSUME SearchAssumption == IsFiniteSet(Others) /\ MaxLinks \in Nat
ASSUME ListAssumption == Memory \in Nat
\* A line ends with its newline; fgets keeps a place for the zero byte.
ASSUME TextAssumption ==
  /\ MaxString \in Nat /\ MaxSubstring \in Nat /\ MaxLines \in Nat
  /\ MaxFiles \in Nat
  /\ LineSize \in Nat \ {0, 1} /\ LineLengths \subseteq Nat \ {0}
  /\ CatDescriptors \in Nat

Programs == {"file_chat", "tcp", "datagram", "children", "ctrlc", "name",
             "search", "lists", "texts"}

tcpVars ==
  <<at, part, bound, queue, peer, time, ended, now, client, said, faults>>
netVars == <<server, message, waiting, served, netPeer, socket, reset, output>>
childVars == <<program, parent, child, results>>
ctrlcVars == <<main, n, late>>
nameVars == <<asker, clock, answer, begun, reply>>
findVars == <<tree, link, dir, entries, cwd, result>>
listVars == <<task, stage, nodes, head, tail, num, curr, out, given>>
textVars == <<tool, step, str, substr, i, j, files, arg, printed>>
vars == <<running, chatVars, tcpVars, netVars, childVars, ctrlcVars,
          nameVars, findVars, listVars, textVars>>

\* A program that does not run has one initial state.
Idle(p, state) == IF running = p THEN TRUE ELSE state
ProgramsInit ==
  /\ running \in Programs
  /\ Idle("file_chat", exists = {} /\ input = [u \in Users |-> <<>>]) /\ Init
  /\ Tcp!Init
  /\ Idle("datagram", message = Net!Absent) /\ Net!Init
  /\ Idle("children", program = "grep") /\ Child!Init
  /\ Prompt!CtrlcInit /\ Prompt!NameInit
  /\ Idle("search", tree = <<>> /\ link = <<>>) /\ Find!Init
  /\ Idle("lists", task = "arrays") /\ Lists!Init
  /\ Idle("texts", tool = "cat" /\ files = <<>>) /\ Text!Init

FileChatRuns ==
  /\ running = "file_chat" /\ Next
  /\ UNCHANGED <<running, tcpVars, netVars, childVars, ctrlcVars,
                 nameVars, findVars, listVars, textVars>>
TcpRuns ==
  /\ running = "tcp" /\ Tcp!Next
  /\ UNCHANGED <<running, chatVars, netVars, childVars, ctrlcVars,
                 nameVars, findVars, listVars, textVars>>
DatagramRuns ==
  /\ running = "datagram" /\ Net!Next
  /\ UNCHANGED <<running, chatVars, tcpVars, childVars, ctrlcVars,
                 nameVars, findVars, listVars, textVars>>
ChildrenRun ==
  /\ running = "children" /\ Child!Next
  /\ UNCHANGED <<running, chatVars, tcpVars, netVars, ctrlcVars,
                 nameVars, findVars, listVars, textVars>>
CtrlcRuns ==
  /\ running = "ctrlc" /\ Prompt!CtrlcNext
  /\ UNCHANGED <<running, chatVars, tcpVars, netVars, childVars,
                 nameVars, findVars, listVars, textVars>>
NameRuns ==
  /\ running = "name" /\ Prompt!NameNext
  /\ UNCHANGED <<running, chatVars, tcpVars, netVars, childVars, ctrlcVars,
                 findVars, listVars, textVars>>
SearchRuns ==
  /\ running = "search" /\ Find!Next
  /\ UNCHANGED <<running, chatVars, tcpVars, netVars, childVars, ctrlcVars,
                 nameVars, listVars, textVars>>
ListsRun ==
  /\ running = "lists" /\ Lists!Next
  /\ UNCHANGED <<running, chatVars, tcpVars, netVars, childVars, ctrlcVars,
                 nameVars, findVars, textVars>>
TextsRun ==
  /\ running = "texts" /\ Text!Next
  /\ UNCHANGED <<running, chatVars, tcpVars, netVars, childVars, ctrlcVars,
                 nameVars, findVars, listVars>>

ProgramsNext ==
  \/ FileChatRuns \/ TcpRuns \/ DatagramRuns \/ ChildrenRun \/ CtrlcRuns
  \/ NameRuns \/ SearchRuns \/ ListsRun \/ TextsRun
ProgramsSpec == ProgramsInit /\ [][ProgramsNext]_vars

\* A process that nothing blocks runs.  Nobody has to type or to send a
\* signal; a client that is connected says something or leaves.
Fairness ==
  /\ \A u \in Users : WF_chatVars(running = "file_chat" /\ Step(u))
  /\ WF_tcpVars(running = "tcp" /\ Tcp!Step)
  /\ \A c \in Clients : WF_tcpVars(running = "tcp" /\ Tcp!Ends(c))
  /\ WF_ctrlcVars(running = "ctrlc" /\ Prompt!CtrlcStep)
  /\ WF_nameVars(running = "name" /\ Prompt!NameStep)
FairSpec == ProgramsSpec /\ Fairness

-----------------------------------------------------------------------------
(* Every program keeps its types.                                            *)
TypesOK ==
  /\ running \in Programs
  /\ TypeOK /\ Tcp!TypeOK /\ Net!TypeOK /\ Child!TypeOK /\ Prompt!TypeOK
  /\ Find!TypeOK /\ Lists!TypeOK /\ Text!TypeOK

(* The server's time is not of an earlier turn (TCPserver/main.c:103).       *)
TimeIsFresh == Tcp!TimeIsFresh
(* The server ends only by clients that leave (TCPserver/main.c:102-134).    *)
OnlyLeaversEndIt == Tcp!OnlyLeaversEndIt
(* Every connected client learns its end (TCPserver/main.c:118-133).         *)
EveryClientEnds == Tcp!EveryClientEnds
(* A short message arrives as it was given (datagram/server.c:53).           *)
ShortMessageArrives == Net!ShortMessageArrives
(* The terminal comes back after the command (launch_process.c:22-30).       *)
NoChildLeft == Child!NoChildLeft
(* A SIGINT ends the program wherever it interrupts it (ctrlc.c:10-28).      *)
InterruptedEnds == Prompt!InterruptedEnds
(* Who answers in time is greeted (what_is_your_name.c:19-31, 47).           *)
NameIsGreeted == Prompt!NameIsGreeted
(* A path that is printed is that of the wanted name (search_file.c:51-70).  *)
AnswerIsThere == Find!AnswerIsThere
(* The heap's lists give what the numbers given have to                      *)
(* (print_figures_that_meet_three_times.c:35-118).                           *)
ListsAreRight == Lists!ListsAreRight
(* Substrings, largest strings and files printed are those there are         *)
(* (find_address_substring.c:26-46, cat/cat.c:29-58).                        *)
TextsAreRight == Text!TextsAreRight
================================================================================
