------------------------------- MODULE KineticDb -------------------------------
(* The database of kineticdb: one file that any number of shells append to.  *)
(* PUT writes its line in four calls of write, GET never comes back from its *)
(* read loop, DELETE TABLE is not dispatched.  A shell may be killed, and a  *)
(* write may fail or fall short.                                             *)
(*                                                                           *)
(* The file is kept as its complete lines and the unfinished last one, each  *)
(* a sequence of what single writes put there.                               *)
EXTENDS Naturals, SequencesExt, FiniteSets, KineticCommands

CONSTANTS
  Shells,      \* kineticdb processes
  Keys,        \* second words of PUT and GET
  Values,      \* third words of PUT
  MaxPuts,     \* bound on the PUTs entered
  MaxFaults    \* bound on kills, failed and short writes

Separator == ":"
NewLine == "newline"
Cut == "cut"   \* what a short write leaves of a key or a value
ASSUME WordsAssumption ==
  /\ IsFiniteSet(Shells)
  /\ (Keys \union Values) \cap {Separator, NewLine, Cut} = {}
  /\ MaxPuts \in Nat /\ MaxFaults \in Nat

VARIABLES
  exists,      \* whether the file has been created
  lines,       \* the lines of the file that end with a newline
  rest,        \* what follows the last newline
  pc,          \* per shell: "off", "prompt", the call it makes next, "spinning"
  words,       \* per shell: the words of the command
  puts,        \* PUTs entered, bounded by MaxPuts
  faults,      \* faults so far, bounded by MaxFaults
  returned,    \* history: the records whose put() returned, in that order
  overlapped   \* history: whether two shells were inside a line at once

fileVars == <<exists, lines, rest>>
vars == <<fileVars, pc, words, puts, faults, returned, overlapped>>

Writing == {"key", "separator", "value", "newline"}
Record(s) == <<words[s][2], Separator, words[s][3]>>

Init ==
  /\ exists = FALSE /\ lines = <<>> /\ rest = <<>>
  /\ pc = [s \in Shells |-> "off"]
  /\ words = [s \in Shells |-> <<>>]
  /\ puts = 0 /\ faults = 0
  /\ returned = <<>> /\ overlapped = FALSE

Goto(s, l) == pc' = [pc EXCEPT ![s] = l]
\* The command is over: main deletes the list of words, or the shell is gone.
Leave(s, l) == Goto(s, l) /\ words' = [words EXCEPT ![s] = <<>>]

Start(s) ==
  /\ pc[s] = "off"
  /\ Goto(s, "prompt")
  /\ UNCHANGED <<fileVars, words, puts, faults, returned, overlapped>>

\* The lines a user may type, as the words read_command makes of them.
Commands ==
  {<<"PUT", k, v>> : k \in Keys, v \in Values} \union
  {<<"GET", k>> : k \in Keys} \union
  {<<"DELETE", "TABLE", k>> : k \in Keys} \union
  {<<"help">>, <<"q">>, <<"PUT">>, <<>>}

\* read_command has made a list of words: exec_commands goes by it.
Enter(s, w) ==
  /\ pc[s] = "prompt"
  /\ LET does == Dispatch(w)
     IN /\ does = "put" => puts < MaxPuts
        /\ puts' = IF does = "put" THEN puts + 1 ELSE puts
        /\ Goto(s, CASE does = "put" -> "open"
                     [] does = "get" -> "get"
                     [] does = "exit" -> "off"
                     [] OTHER -> "prompt")
        /\ words' = [words EXCEPT ![s] =
                       IF does \in {"put", "get"} THEN w ELSE <<>>]
  /\ UNCHANGED <<fileVars, faults, returned, overlapped>>

\* open(O_CREAT | O_WRONLY | O_APPEND)
Open(s) ==
  /\ pc[s] = "open"
  /\ exists' = TRUE
  /\ Goto(s, "key")
  /\ UNCHANGED <<lines, rest, words, puts, faults, returned, overlapped>>

\* Whether a shell has written part of a line and not its newline.
InLine(s) == pc[s] \in {"separator", "value", "newline"}
Overlaps(s) == overlapped' = (overlapped \/ \E t \in Shells \ {s} : InLine(t))

\* Mutant: every write at the place where the last line begins.
WriteTextOver(s, from, text, to) ==
  /\ pc[s] = from
  /\ rest' = <<text>>
  /\ Goto(s, to)
  /\ Overlaps(s)
  /\ UNCHANGED <<exists, lines, words, puts, faults, returned>>

\* One call of write, at the end of the file wherever it is by now.
WriteText(s, from, text, to) ==
  /\ pc[s] = from
  /\ rest' = Append(rest, text)
  /\ Goto(s, to)
  /\ Overlaps(s)
  /\ UNCHANGED <<exists, lines, words, puts, faults, returned>>

\* Mutant: the value in the place of the key.
WriteValueAsKey(s) == WriteText(s, "key", words[s][3], "separator")
\* Mutant: the separator only where the line is still empty.
WriteSeparatorOnce(s) ==
  IF rest = <<>> THEN WriteText(s, "separator", Separator, "value")
  ELSE /\ pc[s] = "separator" /\ Goto(s, "value") /\ Overlaps(s)
       /\ UNCHANGED <<fileVars, words, puts, faults, returned>>

WriteKey(s) == WriteText(s, "key", words[s][2], "separator")
WriteSeparator(s) == WriteText(s, "separator", Separator, "value")
WriteValue(s) == WriteText(s, "value", words[s][3], "newline")

\* Mutant: the new line is part of the text.
WriteNewLineAsText(s) ==
  /\ pc[s] = "newline"
  /\ lines' = Append(lines, Append(rest, NewLine))
  /\ rest' = <<>>
  /\ Leave(s, "prompt")
  /\ returned' = Append(returned, Record(s))
  /\ Overlaps(s)
  /\ UNCHANGED <<exists, puts, faults>>

\* The newline ends the line; the file is closed and put() returns.
WriteNewLine(s) ==
  /\ pc[s] = "newline"
  /\ lines' = Append(lines, rest)
  /\ rest' = <<>>
  /\ Leave(s, "prompt")
  /\ returned' = Append(returned, Record(s))
  /\ Overlaps(s)
  /\ UNCHANGED <<exists, puts, faults>>

\* get(): no file, no shell; read() returns a count, 0 at the end of the file,
\* and the loop waits for EOF without reading again.
GetOpenFails(s) ==
  /\ pc[s] = "get" /\ ~exists
  /\ Leave(s, "off")
  /\ UNCHANGED <<fileVars, puts, faults, returned, overlapped>>
Get(s) ==
  /\ pc[s] = "get" /\ exists
  /\ Goto(s, "spinning")
  /\ UNCHANGED <<fileVars, words, puts, faults, returned, overlapped>>
\* read() fails with -1, which is EOF: the only way out of the loop.
GetReadFails(s) ==
  /\ pc[s] = "get" /\ exists
  /\ faults < MaxFaults
  /\ faults' = faults + 1
  /\ Leave(s, "prompt")
  /\ UNCHANGED <<fileVars, puts, returned, overlapped>>

\* A write that returns less than it was given is taken for a whole one.
ShortWrite(s) ==
  /\ pc[s] \in {"key", "value"}
  /\ faults < MaxFaults
  /\ faults' = faults + 1
  /\ rest' = Append(rest, Cut)
  /\ Goto(s, IF pc[s] = "key" THEN "separator" ELSE "newline")
  /\ Overlaps(s)
  /\ UNCHANGED <<exists, lines, words, puts, returned>>

\* open or write returns -1 and check_fd exits, or the shell is killed.
Die(s) ==
  /\ pc[s] # "off"
  /\ faults < MaxFaults
  /\ faults' = faults + 1
  /\ Leave(s, "off")
  /\ UNCHANGED <<fileVars, puts, returned, overlapped>>

Step(s) ==
  \/ Open(s) \/ WriteKey(s) \/ WriteSeparator(s) \/ WriteValue(s)
  \/ WriteNewLine(s) \/ GetOpenFails(s) \/ Get(s)

Next ==
  \E s \in Shells :
    \/ Start(s) \/ (\E w \in Commands : Enter(s, w)) \/ Step(s)
    \/ GetReadFails(s) \/ ShortWrite(s) \/ Die(s)

Spec == Init /\ [][Next]_vars
\* A shell inside a command is scheduled; nobody has to type.
FairSpec == Spec /\ \A s \in Shells : WF_vars(Step(s))

-----------------------------------------------------------------------------
Text == Keys \union Values \union {Separator, Cut}
(* The file, the shells and the counters keep their types.                   *)
TypeOK ==
  /\ exists \in BOOLEAN /\ overlapped \in BOOLEAN
  /\ lines \in Seq(Seq(Text)) /\ rest \in Seq(Text)
  /\ pc \in [Shells -> Writing \union
                      {"off", "prompt", "open", "get", "spinning"}]
  /\ words \in [Shells -> {<<>>} \union Commands]
  /\ \A s \in Shells :
       pc[s] \in Writing \union {"open"} =>
         words[s] \in {<<"PUT", k, v>> : k \in Keys, v \in Values}
  /\ puts \in 0..MaxPuts /\ faults \in 0..MaxFaults
  /\ returned \in Seq({<<k, Separator, v>> : k \in Keys, v \in Values})

(* As long as no two shells were inside a line at once and nothing failed,   *)
(* the file is exactly the records whose put() returned, in that order       *)
(* (commands.c:23-42).                                                       *)
QuietLogIsExact == ~overlapped /\ faults = 0 => lines = returned

Whole(l) == l \in {<<k, Separator, v>> : k \in Keys, v \in Values}
Damaged == {i \in DOMAIN lines : ~Whole(lines[i])}
(* One shell at a time: a kill or a failed write spoils at most one line,    *)
(* the one the next PUT completes (commands.c:27-41).                        *)
DamageIsBounded ==
  ~overlapped => Cardinality(Damaged) <= faults

\* What shell s has written of the record it is at.
Written(s) ==
  CASE pc[s] = "separator" -> <<words[s][2]>>
    [] pc[s] = "value" -> <<words[s][2], Separator>>
    [] pc[s] = "newline" -> Record(s)
    [] OTHER -> <<>>
\* How often x is in what the shells have written of their records.
InWork(x) ==
  SumFunction([s \in Shells |-> Occurrences(x, Written(s))])
(* However the writes of several shells mix, none is lost or doubled: every  *)
(* key, separator and value that was written is in the file as often, and    *)
(* there are as many lines as PUTs that returned (commands.c:23-42).         *)
MixedNotLost ==
  faults = 0 =>
    /\ Len(lines) = Len(returned)
    /\ \A x \in Text :
         Occurrences(x, FlattenSeq(lines) \o rest) =
           Occurrences(x, FlattenSeq(returned)) + InWork(x)

(* What KineticLog says of the file: PUTs appear in it whole and at once.    *)
Log == INSTANCE KineticLog WITH log <- lines
LogSpec == Log!Spec

(* "PUT [KEY] [VALUE] - creates a new key-value pare" (commands.c:17): the   *)
(* record of every PUT that returned is a line of the file.                  *)
PutCreatesPair ==
  \A i \in DOMAIN returned : \E j \in DOMAIN lines : lines[j] = returned[i]

(* "GET [KEY]" (commands.c:18) is a command: the shell comes back from it.   *)
GetReturns == \A s \in Shells : pc[s] \in {"get", "spinning"} ~>
                                pc[s] \in {"prompt", "off"}
================================================================================
