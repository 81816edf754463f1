------------------------------- MODULE FileChat -------------------------------
(* C/file_chat: two processes talk over two files.  Each turn of a process   *)
(* takes a word from its user through a pipe, puts it into the file it       *)
(* writes, and prints the file its partner writes.  Opening with O_TRUNC,    *)
(* writing and every read are steps of their own; the descriptor of the file *)
(* that is printed is never closed.                                          *)
(*                                                                           *)
(* The n-th word of a user is n repeated; 0 is what the buffer held before.  *)
EXTENDS Naturals, Sequences

CONSTANTS
  Lengths,     \* lengths of a word
  BufferLen,   \* buff_len
  MaxWords,    \* bound on the words a user types
  Descriptors  \* files a process may have open, the standard ones left out

Users == {"ann", "bob"}
Partner(u) == CHOOSE v \in Users : v # u
ASSUME ChatAssumption ==
  /\ Lengths \subseteq Nat \ {0} /\ MaxWords \in Nat
  /\ BufferLen \in Nat \ {0}
  /\ Descriptors \in Nat \ {0, 1}

VARIABLES
  place,    \* the call a user's process makes next, or "gone"
  exists,   \* the users whose processes' files exist
  file,     \* what the file a user's process writes holds
  input,    \* user_input
  offset,   \* where the next read of the partner's file begins
  open,     \* descriptors a process has open
  typed,    \* words typed
  closed,   \* whether the user has ended the input
  newest,   \* history: the word printed last
  lost,     \* history: users whose process found no file to print
  skipped   \* history: users whose process could not read its pipe

chatVars == <<place, exists, file, input, offset, open, typed, closed, newest,
              lost, skipped>>

Junk == {<<>>, <<0>>}
Init ==
  /\ place = [u \in Users |-> "pipe"]
  /\ exists \in SUBSET Users
  /\ file = [u \in Users |-> IF u \in exists THEN <<0>> ELSE <<>>]
  /\ input \in [Users -> Junk]
  /\ offset = [u \in Users |-> 0] /\ open = [u \in Users |-> 0]
  /\ typed = [u \in Users |-> 0] /\ closed = [u \in Users |-> FALSE]
  /\ newest = [u \in Users |-> 0] /\ lost = {} /\ skipped = {}

Goto(u, l) == place' = [place EXCEPT ![u] = l]
\* A call that opens n descriptors: without room for them the process exits.
Opens(u, at, n, next) ==
  /\ place[u] = at
  /\ IF open[u] + n > Descriptors
     THEN Goto(u, "gone") /\ open' = [open EXCEPT ![u] = 0]
     ELSE Goto(u, next) /\ open' = [open EXCEPT ![u] = @ + n]

Pipe(u) ==
  /\ Opens(u, "pipe", 2, "scanf")
  /\ UNCHANGED <<exists, file, input, offset, typed, closed, newest, lost, skipped>>

\* Mutant: the writing end is closed only when the pipe could be read.
ThroughPipeKeepsEnd(u) ==
  /\ place[u] = "scanf"
  /\ \/ Goto(u, "truncate") /\ open' = [open EXCEPT ![u] = @ - 1] /\ UNCHANGED skipped
     \/ Goto(u, "open") /\ skipped' = skipped \union {u} /\ UNCHANGED open
  /\ UNCHANGED <<exists, file, offset, newest, lost>>

\* What follows scanf: the word goes through the pipe, whose end is closed.
\* When the pipe cannot be read nothing is written and the turn goes on.
ThroughPipe(u) ==
  /\ place[u] = "scanf"
  /\ \/ Goto(u, "truncate") /\ UNCHANGED skipped
     \/ Goto(u, "open") /\ skipped' = skipped \union {u}
  /\ open' = [open EXCEPT ![u] = @ - 1]
  /\ UNCHANGED <<exists, file, offset, newest, lost>>
\* The pipe is read up to the length of the buffer.
Kept(len) == IF len < BufferLen THEN len ELSE BufferLen - 1
Type(u, len) ==
  /\ ThroughPipe(u)
  /\ ~closed[u] /\ typed[u] < MaxWords
  /\ typed' = [typed EXCEPT ![u] = @ + 1]
  /\ input' = [input EXCEPT ![u] = [i \in 1..Kept(len) |-> typed'[u]]]
  /\ UNCHANGED closed
\* A word that overruns user_input may as well end the process.
Overrun(u, len) ==
  /\ place[u] = "scanf" /\ ~closed[u] /\ len >= BufferLen
  /\ Goto(u, "gone") /\ open' = [open EXCEPT ![u] = 0]
  /\ UNCHANGED <<exists, file, input, offset, typed, closed, newest, lost, skipped>>
EndInput(u) ==
  /\ ~closed[u]
  /\ closed' = [closed EXCEPT ![u] = TRUE]
  /\ UNCHANGED <<place, exists, file, input, offset, open, typed, newest, lost, skipped>>
\* At the end of the input scanf leaves user_input as it was.
ScanfEof(u) ==
  /\ ThroughPipe(u)
  /\ closed[u]
  /\ UNCHANGED <<input, typed, closed>>

\* Mutant: O_TRUNC left out.
TruncateNot(u) ==
  /\ Opens(u, "truncate", 1, "write")
  /\ exists' = IF place'[u] = "write" THEN exists \union {u} ELSE exists
  /\ UNCHANGED file
  /\ UNCHANGED <<input, offset, typed, closed, newest, lost, skipped>>

\* open(O_WRONLY | O_CREAT | O_TRUNC)
Truncate(u) ==
  /\ Opens(u, "truncate", 1, "write")
  /\ IF place'[u] = "write"
     THEN exists' = exists \union {u} /\ file' = [file EXCEPT ![u] = <<>>]
     ELSE UNCHANGED <<exists, file>>
  /\ UNCHANGED <<input, offset, typed, closed, newest, lost, skipped>>

\* As much of the word as there is room for is written over what the file
\* holds, and the file closed; the process exits when nothing can be written.
Write(u) ==
  /\ place[u] = "write"
  /\ \/ /\ \E k \in 0..Len(input[u]) : file' =
             [file EXCEPT ![u] = SubSeq(input[u], 1, k) \o SubSeq(@, k + 1, Len(@))]
        /\ Goto(u, "open") /\ open' = [open EXCEPT ![u] = @ - 1]
     \/ Goto(u, "gone") /\ open' = [open EXCEPT ![u] = 0] /\ UNCHANGED file
  /\ UNCHANGED <<exists, input, offset, typed, closed, newest, lost, skipped>>

\* Mutant: a process that gives up removes the file it wrote.
OpenPartnerCleansUp(u) ==
  /\ \/ /\ Partner(u) \in exists
        /\ Opens(u, "open", 1, "read")
        /\ UNCHANGED <<exists, lost>>
     \/ /\ place[u] = "open" /\ Partner(u) \notin exists
        /\ Goto(u, "gone") /\ open' = [open EXCEPT ![u] = 0]
        /\ lost' = lost \union {u} /\ exists' = exists \ {u}
  /\ offset' = [offset EXCEPT ![u] = 0]
  /\ UNCHANGED <<file, input, typed, closed, newest, skipped>>

\* The file to print; without one the process exits.
OpenPartner(u) ==
  /\ \/ /\ Partner(u) \in exists
        /\ Opens(u, "open", 1, "read")
        /\ UNCHANGED lost
     \/ /\ place[u] = "open" /\ Partner(u) \notin exists
        /\ Goto(u, "gone") /\ open' = [open EXCEPT ![u] = 0]
        /\ lost' = lost \union {u}
  /\ offset' = [offset EXCEPT ![u] = 0]
  /\ UNCHANGED <<exists, file, input, typed, closed, newest, skipped>>

\* read returns what follows the offset by now, and it is printed.
Read(u) ==
  /\ place[u] = "read" /\ offset[u] < Len(file[Partner(u)])
  /\ offset' = [offset EXCEPT ![u] = Len(file[Partner(u)])]
  /\ newest' = [newest EXCEPT ![u] = file[Partner(u)][offset'[u]]]
  /\ UNCHANGED <<place, exists, file, input, open, typed, closed, lost, skipped>>

\* Mutant: the descriptor of the printed file is closed too.
ReadEndCloses(u) ==
  /\ place[u] = "read" /\ offset[u] >= Len(file[Partner(u)])
  /\ Goto(u, "pipe")
  /\ open' = [open EXCEPT ![u] = @ - 2]
  /\ UNCHANGED <<exists, file, input, offset, typed, closed, newest, lost, skipped>>

\* Nothing is left: only the pipe is closed, and the next turn begins.
ReadEnd(u) ==
  /\ place[u] = "read" /\ offset[u] >= Len(file[Partner(u)])
  /\ Goto(u, "pipe")
  /\ open' = [open EXCEPT ![u] = @ - 1]
  /\ UNCHANGED <<exists, file, input, offset, typed, closed, newest, lost, skipped>>

\* A failed read is a number of bytes for a size_t: the process prints what is
\* behind its buffer until it crashes.
ReadFails(u) ==
  /\ place[u] = "read"
  /\ Goto(u, "gone") /\ open' = [open EXCEPT ![u] = 0]
  /\ UNCHANGED <<exists, file, input, offset, typed, closed, newest, lost, skipped>>

Step(u) == Pipe(u) \/ ScanfEof(u) \/ Truncate(u) \/ Write(u)
           \/ OpenPartner(u) \/ Read(u) \/ ReadEnd(u) \/ ReadFails(u)
Next == \E u \in Users :
          Step(u) \/ EndInput(u) \/ \E len \in Lengths : Type(u, len) \/ Overrun(u, len)
Spec == Init /\ [][Next]_chatVars

-----------------------------------------------------------------------------
Word == Seq(0..MaxWords)
(* Files, buffers and descriptors keep their types; once a process has the   *)
(* pipe of a turn, it has descriptors left for the files of the turn         *)
(* (file_chat.c:24, 39, 69).                                                 *)
TypeOK ==
  /\ place \in [Users -> {"pipe", "scanf", "truncate", "write", "open",
                          "read", "gone"}]
  /\ exists \subseteq Users /\ file \in [Users -> Word]
  /\ input \in [Users -> Word]
  /\ offset \in [Users -> Nat] /\ open \in [Users -> 0..Descriptors]
  /\ typed \in [Users -> 0..MaxWords] /\ closed \in [Users -> BOOLEAN]
  /\ newest \in [Users -> 0..MaxWords] /\ lost \subseteq Users
  /\ skipped \subseteq Users
  /\ \A u \in Users : place[u] \in {"truncate", "open"} => open[u] < Descriptors

(* Whatever the partner truncates and writes between two reads, what is      *)
(* printed never goes back in time: no part of it is of an older word than   *)
(* what was printed before (file_chat.c:27-31, 39-48).                       *)
NeverOlder ==
  [][\A u \in Users : \A i \in offset[u] + 1 .. offset'[u] :
       /\ newest[u] <= file[Partner(u)][i]
       /\ \A j \in offset[u] + 1 .. i :
            file[Partner(u)][j] <= file[Partner(u)][i]]_chatVars

(* The chat ends for a user whose partner has no file yet, but never for     *)
(* both, as long as the pipes can be read: whoever exits has written the     *)
(* file that the other one will print (file_chat.c:24-25, 77-82).            *)
OneStays == skipped = {} => lost # Users

(* After the end of the input the process repeats its last word, but not for *)
(* ever: it ends, for want of descriptors (file_chat.c:24, 67-75).           *)
EndsAfterEof == \A u \in Users : closed[u] ~> place[u] = "gone"
================================================================================
