--------------------------------- MODULE Texts ---------------------------------
(* find_address_substring, largest_string_in_files and cat: three programs   *)
(* that go through texts, each with its boundary: the end of a string inside *)
(* a match, a line longer than the buffer, a file that cannot be opened.     *)
EXTENDS Naturals, SequencesExt

CONSTANTS
  Letters,
  MaxString, MaxSubstring,  \* bounds on the lengths of argv[1] and argv[2]
  LineSize,                 \* sizeof(line)
  LineLengths, MaxLines,    \* lines of a file, newline included, and how many
  MaxFiles,                 \* bound on the files given
  Descriptors               \* files a process may have open

Missing == <<0>>         \* no file: no line has length 0
Unreadable == <<0, 0>>   \* what can be opened but not read, as a directory
NULL == <<>>

VARIABLES
  tool,      \* "find", "largest" or "cat"
  step,      \* "run", "done", "failed" or "crashed"
  str, substr, i, j,   \* find_substring, its indices from 0
  files,     \* per name given: the lengths of the file's lines, or Missing
  arg,       \* the name the program is at
  out        \* what was returned or printed
textVars == <<tool, step, str, substr, i, j, files, arg, out>>

Files == {Missing, Unreadable} \union BoundedSeq(LineLengths, MaxLines)
Init ==
  /\ step = "run" /\ i = 0 /\ j = 0 /\ arg = 1 /\ out = <<>>
  /\ \/ /\ tool = "find" /\ files = <<>>
        /\ str \in BoundedSeq(Letters, MaxString)
        /\ substr \in BoundedSeq(Letters, MaxSubstring)
     \/ /\ tool \in {"largest", "cat"} /\ str = <<>> /\ substr = <<>>
        /\ files \in BoundedSeq(Files, MaxFiles)

Return(result) == step' = "done" /\ out' = result /\ UNCHANGED <<i, j>>
Matches == i + j < Len(str) /\ j < Len(substr) /\ str[i + j + 1] = substr[j + 1]

\* Mutant: the search goes on behind what has matched.
NextStartBehind == i' = i + j + 1 /\ j' = 0
NextStart == i' = i + 1 /\ j' = 0

\* A turn of the inner loop of find_substring, or what follows it.
FindSubstring ==
  /\ tool = "find" /\ step = "run"
  /\ \/ /\ substr = <<>> /\ Return(<<0>>)
     \/ /\ substr # <<>> /\ i >= Len(str) /\ Return(NULL)
     \/ /\ i < Len(str) /\ Matches
        /\ j' = j + 1 /\ UNCHANGED <<i, step, out>>
     \/ /\ i < Len(str) /\ substr # <<>> /\ ~Matches
        /\ IF j = Len(substr) THEN Return(<<i>>)
           ELSE NextStart /\ UNCHANGED <<step, out>>
  /\ UNCHANGED <<tool, str, substr, files, arg>>

\* What fgets makes of a line: pieces of LineSize - 1 characters and a rest.
Pieces(n) ==
  LET whole == n \div (LineSize - 1)  rest == n % (LineSize - 1)
  IN [k \in 1..whole |-> LineSize - 1] \o (IF rest = 0 THEN <<>> ELSE <<rest>>)
Read(file) == FlattenSeq([k \in DOMAIN file |-> Pieces(file[k])])
\* The place of the piece that largest_string is left with, 0 without any.
Largest(pieces) ==
  FoldLeft(LAMBDA best, k :
             IF best = 0 \/ pieces[k] > pieces[best] THEN k ELSE best,
           0, [k \in DOMAIN pieces |-> k])
OpenFails == files[arg] = Missing
\* One file of largest_string_in_files; largest_string is printed even when
\* nothing was ever copied to it.
LargestString ==
  /\ tool = "largest" /\ step = "run" /\ arg <= Len(files)
  /\ IF OpenFails THEN step' = "failed" /\ UNCHANGED <<arg, out>>
     ELSE /\ out' = Append(out, Largest(Read(files[arg])))
          /\ arg' = arg + 1 /\ UNCHANGED step
  /\ UNCHANGED <<tool, str, substr, i, j, files>>
\* One file of cat, whose descriptor stays open.  A failed read is a number of
\* bytes for a size_t: the loop leaves the buffer behind it and crashes.
PrintFileContent ==
  /\ tool = "cat" /\ step = "run" /\ arg <= Len(files)
  /\ IF OpenFails \/ arg > Descriptors
     THEN step' = "failed" /\ UNCHANGED <<arg, out>>
     ELSE IF files[arg] = Unreadable
     THEN step' = "crashed" /\ UNCHANGED <<arg, out>>
     ELSE out' = out \o files[arg] /\ arg' = arg + 1 /\ UNCHANGED step
  /\ UNCHANGED <<tool, str, substr, i, j, files>>
AllRead ==
  /\ tool # "find" /\ step = "run" /\ arg > Len(files)
  /\ step' = "done"
  /\ UNCHANGED <<tool, str, substr, i, j, files, arg, out>>

Next == FindSubstring \/ LargestString \/ PrintFileContent \/ AllRead
Spec == Init /\ [][Next]_textVars

-----------------------------------------------------------------------------
TypeOK ==
  /\ tool \in {"find", "largest", "cat"} /\ step \in {"run", "done", "failed", "crashed"}
  /\ i \in 0..Len(str) /\ i + j <= Len(str) /\ j <= Len(substr)
  /\ arg \in 1..Len(files) + 1

OccursAt(k) == /\ k + Len(substr) <= Len(str)
               /\ SubSeq(str, k + 1, k + Len(substr)) = substr
FirstOccurrence ==
  IF out = NULL THEN \A k \in 0..Len(str) : ~OccursAt(k)
  ELSE OccursAt(out[1]) /\ \A k \in 0..out[1] - 1 : ~OccursAt(k)
FirstLargest(k) ==
  LET pieces == Read(files[k])
  IN IF pieces = <<>> THEN out[k] = 0
     ELSE /\ \A m \in DOMAIN pieces : pieces[m] <= pieces[out[k]]
          /\ \A m \in 1..out[k] - 1 : pieces[m] < pieces[out[k]]
(* The substring is found where it occurs first and nowhere else; of each    *)
(* file before the first missing one the first of the largest strings is     *)
(* printed; cat prints all files, or stops at one that is missing or beyond  *)
(* its descriptors (find_address_substring.c:26-46,                          *)
(* largest_string_in_files.c:9-39, cat/cat.c:29-58).                         *)
TextsAreRight ==
  /\ tool = "find" /\ step = "done" => FirstOccurrence
  /\ tool = "largest" => \A k \in DOMAIN out : FirstLargest(k)
  /\ tool = "cat" => out = FlattenSeq(SubSeq(files, 1, arg - 1))
  /\ step = "failed" => files[arg] = Missing \/ arg > Descriptors
================================================================================
