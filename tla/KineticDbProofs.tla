---------------------------- MODULE KineticDbProofs ----------------------------
(* What the file of kineticdb is worth: exact as long as no two shells are   *)
(* inside a line at once and nothing fails, for any number of shells, keys   *)
(* and values; and with one shell an implementation of the abstract log.     *)
EXTENDS KineticDb, Induction

Pairs == {<<k, Separator, v>> : k \in Keys, v \in Values}
PutWords == {<<"PUT", k, v>> : k \in Keys, v \in Values}
Places == Writing \union {"off", "prompt", "open", "get", "spinning"}

LEMMA PutHasThreeWords ==
  ASSUME NEW w \in Commands, Dispatch(w) = "put"
  PROVE  w \in PutWords
<1>1. Len(w) = 3 /\ w[1] = "PUT"
  BY DEF Dispatch
<1>2. CASE w \in {<<"GET", k>> : k \in Keys}
  BY <1>1, <1>2
<1>3. CASE w \in {<<"DELETE", "TABLE", k>> : k \in Keys}
  BY <1>1, <1>3
<1>4. CASE w \in {<<"help">>, <<"q">>, <<"PUT">>, <<>>}
  BY <1>1, <1>4
<1> QED
  BY <1>2, <1>3, <1>4 DEF Commands, PutWords

\* What entering a command does, without the cases of Dispatch.
LEMMA Entering ==
  ASSUME NEW s \in Shells, NEW w \in Commands, Enter(s, w)
  PROVE  /\ pc[s] = "prompt"
         /\ \E l \in {"open", "get", "off", "prompt"}, v \in {<<>>, w} :
              /\ pc' = [pc EXCEPT ![s] = l]
              /\ words' = [words EXCEPT ![s] = v]
              /\ l = "open" => v \in PutWords
         /\ puts' = puts \/ (puts < MaxPuts /\ puts' = puts + 1)
         /\ UNCHANGED <<fileVars, faults, returned, overlapped>>
<1> DEFINE does == Dispatch(w)
<1>1. does = "put" => w \in PutWords
  BY PutHasThreeWords
<1> HIDE DEF does
<1>2. /\ pc[s] = "prompt"
      /\ does = "put" => puts < MaxPuts
      /\ puts' = IF does = "put" THEN puts + 1 ELSE puts
      /\ pc' = [pc EXCEPT ![s] = CASE does = "put" -> "open"
                     [] does = "get" -> "get"
                     [] does = "exit" -> "off"
                     [] OTHER -> "prompt"]
      /\ words' = [words EXCEPT ![s] =
                     IF does \in {"put", "get"} THEN w ELSE <<>>]
      /\ UNCHANGED <<fileVars, faults, returned, overlapped>>
  BY DEF Enter, Goto, does
<1>3. CASE does = "put"
  BY <1>1, <1>2, <1>3
<1>4. CASE does = "get"
  BY <1>2, <1>4
<1>5. CASE does = "exit"
  BY <1>2, <1>5
<1>6. CASE does \notin {"put", "get", "exit"}
  BY <1>2, <1>6
<1> QED
  BY <1>3, <1>4, <1>5, <1>6

-----------------------------------------------------------------------------
\* The part of the type that a shell can change on its own.
ShellsOK ==
  /\ pc \in [Shells -> Places]
  /\ words \in [Shells -> {<<>>} \union Commands]
  /\ \A s \in Shells : pc[s] \in Writing \union {"open"} => words[s] \in PutWords

\* A shell whose command is over has no words.
LEMMA LeavingOK ==
  ASSUME ShellsOK, NEW s \in Shells, NEW l \in {"off", "prompt"}, Leave(s, l)
  PROVE  ShellsOK'
BY DEF ShellsOK, Leave, Goto, Places, Writing

\* One that goes on has the words it had.
LEMMA GoingOnOK ==
  ASSUME ShellsOK, NEW s \in Shells, NEW l \in Places, Goto(s, l),
         UNCHANGED words,
         l \in Writing \union {"open"} => words[s] \in PutWords
  PROVE  ShellsOK'
BY DEF ShellsOK, Goto, Places, Writing

LEMMA TypeParts ==
  TypeOK <=> /\ ShellsOK
             /\ exists \in BOOLEAN /\ overlapped \in BOOLEAN
             /\ lines \in Seq(Seq(Text)) /\ rest \in Seq(Text)
             /\ puts \in 0..MaxPuts /\ faults \in 0..MaxFaults
             /\ returned \in Seq(Pairs)
BY DEF TypeOK, ShellsOK, Places, PutWords, Pairs

LEMMA TypeInit == Init => TypeOK
<1> SUFFICES ASSUME Init PROVE TypeOK
  OBVIOUS
<1>1. ShellsOK
  BY DEF Init, ShellsOK, Places, Writing
<1>2. lines \in Seq(Seq(Text)) /\ rest \in Seq(Text) /\ returned \in Seq(Pairs)
  BY DEF Init
<1>3. puts \in 0..MaxPuts /\ faults \in 0..MaxFaults
  BY WordsAssumption DEF Init
<1>4. exists \in BOOLEAN /\ overlapped \in BOOLEAN
  BY DEF Init
<1> QED
  BY <1>1, <1>2, <1>3, <1>4, TypeParts

LEMMA TypeNext == TypeOK /\ [Next]_vars => TypeOK'
<1> SUFFICES ASSUME TypeOK, [Next]_vars PROVE TypeOK'
  OBVIOUS
<1>0. /\ ShellsOK
      /\ exists \in BOOLEAN /\ overlapped \in BOOLEAN
      /\ lines \in Seq(Seq(Text)) /\ rest \in Seq(Text)
      /\ puts \in 0..MaxPuts /\ faults \in 0..MaxFaults
      /\ returned \in Seq(Pairs)
  BY TypeParts
<1>a. (/\ ShellsOK'
       /\ exists' \in BOOLEAN /\ overlapped' \in BOOLEAN
       /\ lines' \in Seq(Seq(Text)) /\ rest' \in Seq(Text)
       /\ puts' \in 0..MaxPuts /\ faults' \in 0..MaxFaults
       /\ returned' \in Seq(Pairs))
      => TypeOK'
  BY DEF TypeOK, ShellsOK, Places, PutWords, Pairs
<1>1. ASSUME NEW s \in Shells, Start(s) PROVE TypeOK'
  <2>1. ShellsOK'
    BY <1>0, <1>1, GoingOnOK DEF Start, Places, Writing
  <2> QED
    BY <1>0, <1>1, <2>1, <1>a DEF Start, fileVars
<1>2. ASSUME NEW s \in Shells, NEW w \in Commands, Enter(s, w) PROVE TypeOK'
  <2>1. PICK l \in {"open", "get", "off", "prompt"}, v \in {<<>>, w} :
          /\ pc' = [pc EXCEPT ![s] = l]
          /\ words' = [words EXCEPT ![s] = v]
          /\ l = "open" => v \in PutWords
    BY <1>2, Entering
  <2>2. ShellsOK'
    <3>1. v \in {<<>>} \union Commands
      OBVIOUS
    <3>2. words' \in [Shells -> {<<>>} \union Commands]
      BY <1>0, <2>1, <3>1 DEF ShellsOK
    <3>3. pc' \in [Shells -> Places]
      BY <1>0, <2>1 DEF ShellsOK, Places
    <3>4. \A t \in Shells :
            pc'[t] \in Writing \union {"open"} => words'[t] \in PutWords
      BY <1>0, <2>1 DEF ShellsOK, Writing
    <3> QED
      BY <3>2, <3>3, <3>4 DEF ShellsOK
  <2>3. puts' \in 0..MaxPuts
    BY <1>0, <1>2, Entering, WordsAssumption
  <2> QED
    BY <1>0, <1>2, <2>2, <2>3, <1>a, Entering DEF fileVars
<1>3. ASSUME NEW s \in Shells, Open(s) PROVE TypeOK'
  <2>1. ShellsOK'
    BY <1>0, <1>3, GoingOnOK DEF Open, Places, Writing, ShellsOK
  <2> QED
    BY <1>0, <1>3, <2>1, <1>a DEF Open
<1>4. ASSUME NEW s \in Shells, NEW from \in Writing, NEW text \in Text,
             NEW to \in Writing, WriteText(s, from, text, to)
      PROVE  TypeOK'
  <2>1. ShellsOK'
    BY <1>0, <1>4, GoingOnOK DEF WriteText, Places, ShellsOK
  <2> QED
    BY <1>0, <1>4, <2>1, <1>a DEF WriteText, Overlaps
<1>5. ASSUME NEW s \in Shells, WriteKey(s) \/ WriteSeparator(s) \/ WriteValue(s)
      PROVE  TypeOK'
  <2>1. pc[s] \in Writing
    BY <1>5 DEF WriteKey, WriteSeparator, WriteValue, WriteText, Writing
  <2>2. PICK k \in Keys, v \in Values : words[s] = <<"PUT", k, v>>
    BY <1>0, <2>1 DEF ShellsOK, PutWords
  <2>3. words[s][2] \in Text /\ Separator \in Text /\ words[s][3] \in Text
    BY <2>2 DEF Text
  <2>4. "key" \in Writing /\ "separator" \in Writing
        /\ "value" \in Writing /\ "newline" \in Writing
    BY DEF Writing
  <2> HIDE DEF Writing
  <2>5. CASE WriteKey(s)
    BY <1>4, <2>3, <2>4, <2>5 DEF WriteKey
  <2>6. CASE WriteSeparator(s)
    BY <1>4, <2>3, <2>4, <2>6 DEF WriteSeparator
  <2>7. CASE WriteValue(s)
    BY <1>4, <2>3, <2>4, <2>7 DEF WriteValue
  <2> QED
    BY <1>5, <2>5, <2>6, <2>7
<1>6. ASSUME NEW s \in Shells, WriteNewLine(s) PROVE TypeOK'
  <2>1. Record(s) \in Pairs
    BY <1>0, <1>6 DEF WriteNewLine, Record, ShellsOK, PutWords, Pairs, Writing
  <2>2. ShellsOK'
    BY <1>0, <1>6, LeavingOK DEF WriteNewLine
  <2>3. /\ lines' \in Seq(Seq(Text)) /\ rest' \in Seq(Text)
        /\ returned' \in Seq(Pairs)
    BY <1>0, <1>6, <2>1 DEF WriteNewLine
  <2> QED
    BY <1>0, <1>6, <2>2, <2>3, <1>a DEF WriteNewLine, Overlaps
<1>7. ASSUME NEW s \in Shells, GetOpenFails(s) PROVE TypeOK'
  <2>1. ShellsOK'
    BY <1>0, <1>7, LeavingOK DEF GetOpenFails
  <2> QED
    BY <1>0, <1>7, <2>1, <1>a DEF GetOpenFails, fileVars
<1>8. ASSUME NEW s \in Shells, Get(s) PROVE TypeOK'
  <2>1. ShellsOK'
    BY <1>0, <1>8, GoingOnOK DEF Get, Places, Writing
  <2> QED
    BY <1>0, <1>8, <2>1, <1>a DEF Get, fileVars
<1>9. ASSUME NEW s \in Shells, GetReadFails(s) \/ Die(s) PROVE TypeOK'
  <2>1. ShellsOK'
    BY <1>0, <1>9, LeavingOK DEF GetReadFails, Die
  <2>2. faults' \in 0..MaxFaults
    BY <1>0, <1>9, WordsAssumption DEF GetReadFails, Die
  <2> QED
    BY <1>0, <1>9, <2>1, <2>2, <1>a DEF GetReadFails, Die, fileVars
<1>10. ASSUME NEW s \in Shells, ShortWrite(s) PROVE TypeOK'
  <2>1. ShellsOK'
    BY <1>0, <1>10, GoingOnOK DEF ShortWrite, Places, Writing, ShellsOK
  <2>2. faults' \in 0..MaxFaults
    BY <1>0, <1>10, WordsAssumption DEF ShortWrite
  <2>3. rest' \in Seq(Text)
    BY <1>0, <1>10 DEF ShortWrite, Text
  <2> QED
    BY <1>0, <1>10, <2>1, <2>2, <2>3, <1>a DEF ShortWrite, Overlaps
<1>11. CASE UNCHANGED vars
  BY <1>0, <1>11, <1>a DEF vars, fileVars, ShellsOK
<1>12. CASE Next
  <2>1. PICK s \in Shells :
          \/ Start(s) \/ (\E w \in Commands : Enter(s, w)) \/ Step(s)
          \/ GetReadFails(s) \/ ShortWrite(s) \/ Die(s)
    BY <1>12 DEF Next
  <2>2. CASE Step(s)
    BY <2>2, <1>3, <1>5, <1>6, <1>7, <1>8 DEF Step
  <2> QED
    BY <2>1, <2>2, <1>1, <1>2, <1>9, <1>10
<1> QED
  BY <1>11, <1>12

(* The file, the shells and the counters have their types.                   *)
THEOREM TypeCorrect == Spec => []TypeOK
BY TypeInit, TypeNext, PTL DEF Spec

-----------------------------------------------------------------------------
\* The unfinished line is what the one shell inside it has written so far.
LineIsOwn(s) ==
  /\ pc[s] = "separator" => rest = <<words[s][2]>>
  /\ pc[s] = "value" => rest = <<words[s][2], Separator>>
  /\ pc[s] = "newline" => rest = Record(s)
OneInLine == \A s, t \in Shells : InLine(s) /\ InLine(t) => s = t
Clean ==
  /\ \A s \in Shells : LineIsOwn(s)
  /\ (\A s \in Shells : ~InLine(s)) => rest = <<>>
Outside == Places \ {"separator", "value", "newline"}

\* A shell that is not inside a line, before and after, disturbs nothing.
LEMMA OutsideKeeps ==
  ASSUME OneInLine, ShellsOK, NEW s \in Shells, pc[s] \in Outside,
         NEW l \in Outside, pc' = [pc EXCEPT ![s] = l],
         NEW v, words' = [words EXCEPT ![s] = v],
         UNCHANGED rest
  PROVE  OneInLine' /\ (Clean => Clean')
<1>1. pc \in [Shells -> Places]
  BY DEF ShellsOK
<1>2. \A t \in Shells : InLine(t)' <=> InLine(t)
  BY <1>1 DEF InLine, Outside, Places, Writing
<1>3. OneInLine'
  BY <1>2 DEF OneInLine
<1>4. ASSUME Clean, NEW t \in Shells PROVE LineIsOwn(t)'
  <2>1. CASE t = s
    BY <1>1, <2>1 DEF LineIsOwn, Outside, Places, Writing
  <2>2. CASE t # s
    <3>1. pc'[t] = pc[t] /\ words'[t] = words[t]
      BY <1>1, <2>2 DEF ShellsOK
    <3> QED
      BY <1>4, <3>1 DEF LineIsOwn, Record, Clean
  <2> QED
    BY <2>1, <2>2
<1> QED
  BY <1>2, <1>3, <1>4 DEF Clean

\* A write while the other shells are outside leaves this one alone inside.
LEMMA InsideKeeps ==
  ASSUME ShellsOK, NEW s \in Shells,
         NEW to \in {"separator", "value", "newline"},
         pc' = [pc EXCEPT ![s] = to],
         \A t \in Shells \ {s} : ~InLine(t)
  PROVE  OneInLine' /\ (LineIsOwn(s)' => Clean')
<1>1. pc \in [Shells -> Places]
  BY DEF ShellsOK
<1>2. \A t \in Shells \ {s} : pc'[t] = pc[t] /\ ~InLine(t)'
  BY <1>1 DEF InLine
<1>3. InLine(s)'
  BY <1>1 DEF InLine
<1>4. OneInLine'
  BY <1>2 DEF OneInLine
<1>5. \A t \in Shells \ {s} : LineIsOwn(t)'
  BY <1>2 DEF LineIsOwn, InLine
<1> QED
  BY <1>3, <1>4, <1>5 DEF Clean

LEMMA AppendTwo == \A a, b : Append(<<a>>, b) = <<a, b>>
<1> TAKE a, b
<1> DEFINE S == {a, b}
<1>1. <<a>> \in Seq(S) /\ <<a, b>> \in Seq(S) /\ b \in S
  OBVIOUS
<1> HIDE DEF S
<1>2. Append(<<a>>, b) \in Seq(S) /\ Len(Append(<<a>>, b)) = 2
  BY <1>1
<1>3. Append(<<a>>, b)[1] = a /\ Append(<<a>>, b)[2] = b
  BY <1>1
<1>4. \A i \in 1..2 : Append(<<a>>, b)[i] = <<a, b>>[i]
  BY <1>3
<1> QED
  BY <1>1, <1>2, <1>4, SeqEqual
LEMMA AppendThree == \A a, b, c : Append(<<a, b>>, c) = <<a, b, c>>
<1> TAKE a, b, c
<1> DEFINE S == {a, b, c}
<1>1. <<a, b>> \in Seq(S) /\ <<a, b, c>> \in Seq(S) /\ c \in S
  OBVIOUS
<1> HIDE DEF S
<1>2. Append(<<a, b>>, c) \in Seq(S) /\ Len(Append(<<a, b>>, c)) = 3
  BY <1>1
<1>3. Append(<<a, b>>, c)[1] = a /\ Append(<<a, b>>, c)[2] = b
      /\ Append(<<a, b>>, c)[3] = c
  BY <1>1
<1>4. \A i \in 1..3 : Append(<<a, b>>, c)[i] = <<a, b, c>>[i]
  BY <1>3
<1> QED
  BY <1>1, <1>2, <1>4, SeqEqual

LEMMA OverlapStays ==
  ASSUME TypeOK, [Next]_vars, ~overlapped'
  PROVE  ~overlapped
<1>1. CASE UNCHANGED vars
  BY <1>1 DEF vars
<1>2. CASE Next
  <2>1. PICK s \in Shells :
          \/ Start(s) \/ (\E w \in Commands : Enter(s, w)) \/ Step(s)
          \/ GetReadFails(s) \/ ShortWrite(s) \/ Die(s)
    BY <1>2 DEF Next
  <2> QED
    BY <2>1, Entering
       DEF Start, Step, Open, WriteKey, WriteSeparator, WriteValue, WriteText,
           WriteNewLine, GetOpenFails, Get, GetReadFails, ShortWrite, Die,
           Overlaps
<1> QED
  BY <1>1, <1>2

\* Who writes is alone inside a line: because it is said so, or because there
\* is only one shell inside a line before and after.
Writes(s) == \/ WriteKey(s) \/ WriteSeparator(s) \/ WriteValue(s)
             \/ WriteNewLine(s) \/ ShortWrite(s)
NobodyJoins == \A s \in Shells : Writes(s) => \A t \in Shells \ {s} : ~InLine(t)

LEMMA UnnoticedJoinsNobody == ASSUME ~overlapped' PROVE NobodyJoins
BY DEF NobodyJoins, Writes, WriteKey, WriteSeparator, WriteValue, WriteText,
       WriteNewLine, ShortWrite, Overlaps

LEMMA AloneJoinsNobody ==
  ASSUME TypeOK, OneInLine, OneInLine'
  PROVE  NobodyJoins
<1> SUFFICES ASSUME NEW s \in Shells, Writes(s), NEW t \in Shells \ {s}, InLine(t)
             PROVE FALSE
  BY DEF NobodyJoins
<1>1. pc \in [Shells -> Places]
  BY TypeParts DEF ShellsOK
<1>2. CASE InLine(s)
  BY <1>2 DEF OneInLine
<1>3. CASE ~InLine(s)
  <2>1. \E l \in {"separator", "newline"} : pc' = [pc EXCEPT ![s] = l]
    BY <1>3 DEF Writes, WriteKey, WriteSeparator, WriteValue, WriteText,
                WriteNewLine, ShortWrite, InLine, Goto
  <2>2. InLine(s)' /\ InLine(t)'
    BY <1>1, <2>1 DEF InLine
  <2> QED
    BY <2>2 DEF OneInLine
<1> QED
  BY <1>2, <1>3

\* No shell joins another inside a line, and only a fault spoils it.
LEMMA LineIsOwnNext ==
  ASSUME TypeOK, [Next]_vars, NobodyJoins, OneInLine
  PROVE  /\ OneInLine'
         /\ Clean /\ faults' = faults => Clean'
<1> DEFINE Goal == /\ OneInLine'
                   /\ Clean /\ faults' = faults => Clean'
<1>0. ShellsOK /\ faults \in Nat
  BY TypeParts, WordsAssumption
<1>w. ASSUME NEW s \in Shells, UNCHANGED words
      PROVE  words' = [words EXCEPT ![s] = words[s]]
  BY <1>0, <1>w DEF ShellsOK
<1>1. ASSUME NEW s \in Shells, Start(s) PROVE Goal
  BY <1>0, <1>1, <1>w, OutsideKeeps
     DEF Start, Goto, fileVars, Outside, Places, Writing
<1>2. ASSUME NEW s \in Shells, NEW w \in Commands, Enter(s, w) PROVE Goal
  <2>1. PICK l \in {"open", "get", "off", "prompt"}, v \in {<<>>, w} :
          /\ pc[s] = "prompt"
          /\ pc' = [pc EXCEPT ![s] = l]
          /\ words' = [words EXCEPT ![s] = v]
          /\ UNCHANGED <<fileVars, faults, returned, overlapped>>
    BY <1>2, Entering
  <2> QED
    BY <1>0, <2>1, OutsideKeeps DEF fileVars, Outside, Places, Writing
<1>3. ASSUME NEW s \in Shells, Open(s) PROVE Goal
  BY <1>0, <1>3, <1>w, OutsideKeeps DEF Open, Goto, Outside, Places, Writing
<1>4. ASSUME NEW s \in Shells, WriteKey(s) PROVE Goal
  <2>1. \A t \in Shells \ {s} : ~InLine(t)
    BY <1>4 DEF NobodyJoins, Writes
  <2>2. pc' = [pc EXCEPT ![s] = "separator"] /\ pc[s] = "key"
    BY <1>4 DEF WriteKey, WriteText, Goto
  <2>3. ASSUME Clean PROVE LineIsOwn(s)'
    <3>1. rest = <<>>
      BY <2>1, <2>2, <2>3 DEF Clean, InLine
    <3>2. rest' = <<words[s][2]>> /\ words' = words /\ pc'[s] = "separator"
      BY <1>0, <1>4, <3>1 DEF WriteKey, WriteText, Goto, ShellsOK
    <3> QED
      BY <3>2 DEF LineIsOwn
  <2> QED
    BY <1>0, <2>1, <2>2, <2>3, InsideKeeps
<1>5. ASSUME NEW s \in Shells, WriteSeparator(s) PROVE Goal
  <2>1. \A t \in Shells \ {s} : ~InLine(t)
    BY <1>5 DEF NobodyJoins, Writes
  <2>2. pc' = [pc EXCEPT ![s] = "value"] /\ pc[s] = "separator"
    BY <1>5 DEF WriteSeparator, WriteText, Goto
  <2>3. ASSUME Clean PROVE LineIsOwn(s)'
    <3>1. rest = <<words[s][2]>>
      BY <2>2, <2>3 DEF Clean, LineIsOwn
    <3>2. /\ rest' = <<words[s][2], Separator>> /\ words' = words
          /\ pc'[s] = "value"
      BY <1>0, <1>5, <3>1, AppendTwo
         DEF WriteSeparator, WriteText, Goto, ShellsOK
    <3> QED
      BY <3>2 DEF LineIsOwn
  <2> QED
    BY <1>0, <2>1, <2>2, <2>3, InsideKeeps
<1>6. ASSUME NEW s \in Shells, WriteValue(s) PROVE Goal
  <2>1. \A t \in Shells \ {s} : ~InLine(t)
    BY <1>6 DEF NobodyJoins, Writes
  <2>2. pc' = [pc EXCEPT ![s] = "newline"] /\ pc[s] = "value"
    BY <1>6 DEF WriteValue, WriteText, Goto
  <2>3. ASSUME Clean PROVE LineIsOwn(s)'
    <3>1. rest = <<words[s][2], Separator>>
      BY <2>2, <2>3 DEF Clean, LineIsOwn
    <3>2. rest' = Record(s) /\ words' = words /\ pc'[s] = "newline"
      BY <1>0, <1>6, <3>1, AppendThree
         DEF WriteValue, WriteText, Goto, ShellsOK, Record
    <3> QED
      BY <3>2 DEF LineIsOwn, Record
  <2> QED
    BY <1>0, <2>1, <2>2, <2>3, InsideKeeps
<1>7. ASSUME NEW s \in Shells, WriteNewLine(s) PROVE Goal
  <2>1. \A t \in Shells \ {s} : ~InLine(t)
    BY <1>7 DEF NobodyJoins, Writes
  <2>2. \A t \in Shells : ~InLine(t)'
    BY <1>0, <1>7, <2>1 DEF WriteNewLine, Leave, Goto, InLine, ShellsOK
  <2>3. rest' = <<>>
    BY <1>7 DEF WriteNewLine
  <2> QED
    BY <2>1, <2>2, <2>3 DEF OneInLine, Clean, LineIsOwn, InLine
<1>8. ASSUME NEW s \in Shells, GetOpenFails(s) PROVE Goal
  BY <1>0, <1>8, OutsideKeeps
     DEF GetOpenFails, Leave, Goto, fileVars, Outside, Places, Writing
<1>9. ASSUME NEW s \in Shells, Get(s) PROVE Goal
  BY <1>0, <1>9, <1>w, OutsideKeeps
     DEF Get, Goto, fileVars, Outside, Places, Writing
<1>10. ASSUME NEW s \in Shells, GetReadFails(s) PROVE Goal
  BY <1>0, <1>10, OutsideKeeps
     DEF GetReadFails, Leave, Goto, fileVars, Outside, Places, Writing
<1>11. ASSUME NEW s \in Shells, Die(s) PROVE Goal
  <2>1. faults' # faults
    BY <1>0, <1>11 DEF Die
  <2>2. \A t \in Shells : InLine(t)' => InLine(t)
    BY <1>0, <1>11 DEF Die, Leave, Goto, InLine, ShellsOK
  <2> QED
    BY <2>1, <2>2 DEF OneInLine
<1>12. ASSUME NEW s \in Shells, ShortWrite(s) PROVE Goal
  <2>1. faults' # faults
    BY <1>0, <1>12 DEF ShortWrite
  <2>2. \A t \in Shells \ {s} : ~InLine(t)
    BY <1>12 DEF NobodyJoins, Writes
  <2>3. PICK to \in {"separator", "newline"} : pc' = [pc EXCEPT ![s] = to]
    BY <1>12 DEF ShortWrite, Goto
  <2> QED
    BY <1>0, <2>1, <2>2, <2>3, InsideKeeps
<1>13. CASE UNCHANGED vars
  BY <1>13 DEF vars, fileVars, OneInLine, Clean, LineIsOwn, InLine, Record
<1>14. CASE Next
  <2>1. PICK s \in Shells :
          \/ Start(s) \/ (\E w \in Commands : Enter(s, w)) \/ Step(s)
          \/ GetReadFails(s) \/ ShortWrite(s) \/ Die(s)
    BY <1>14 DEF Next
  <2>2. CASE Step(s)
    BY <2>2, <1>3, <1>4, <1>5, <1>6, <1>7, <1>8, <1>9 DEF Step
  <2> QED
    BY <2>1, <2>2, <1>1, <1>2, <1>10, <1>11, <1>12
<1> QED
  BY <1>13, <1>14

\* Only the end of a line changes the lines, and the records that returned.
LEMMA Writers ==
  ASSUME [Next]_vars
  PROVE  (\E s \in Shells : WriteNewLine(s)) \/ UNCHANGED <<lines, returned>>
<1>1. CASE UNCHANGED vars
  BY <1>1 DEF vars, fileVars
<1>2. CASE Next
  <2>1. PICK s \in Shells :
          \/ Start(s) \/ (\E w \in Commands : Enter(s, w)) \/ Step(s)
          \/ GetReadFails(s) \/ ShortWrite(s) \/ Die(s)
    BY <1>2 DEF Next
  <2> QED
    BY <2>1, Entering
       DEF Start, Step, Open, WriteKey, WriteSeparator, WriteValue, WriteText,
           GetOpenFails, Get, GetReadFails, ShortWrite, Die, fileVars
<1> QED
  BY <1>1, <1>2

LEMMA FaultsGrow ==
  ASSUME TypeOK, [Next]_vars
  PROVE  faults' = faults \/ faults' = faults + 1
<1>1. CASE UNCHANGED vars
  BY <1>1 DEF vars
<1>2. CASE Next
  <2>1. PICK s \in Shells :
          \/ Start(s) \/ (\E w \in Commands : Enter(s, w)) \/ Step(s)
          \/ GetReadFails(s) \/ ShortWrite(s) \/ Die(s)
    BY <1>2 DEF Next
  <2> QED
    BY <2>1, Entering
       DEF Start, Step, Open, WriteKey, WriteSeparator, WriteValue, WriteText,
           WriteNewLine, GetOpenFails, Get, GetReadFails, ShortWrite, Die
<1> QED
  BY <1>1, <1>2

-----------------------------------------------------------------------------
QuietInv ==
  ~overlapped /\ faults = 0 => OneInLine /\ Clean /\ lines = returned

LEMMA QuietInit == Init => QuietInv
BY DEF Init, QuietInv, OneInLine, Clean, LineIsOwn, InLine

LEMMA QuietNext == TypeOK /\ QuietInv /\ [Next]_vars => QuietInv'
<1> SUFFICES ASSUME TypeOK, QuietInv, [Next]_vars, ~overlapped', faults' = 0
             PROVE  OneInLine' /\ Clean' /\ lines' = returned'
  BY DEF QuietInv
<1>1. faults = 0 /\ faults' = faults
  <2>1. faults \in Nat
    BY TypeParts, WordsAssumption
  <2> QED
    BY <2>1, FaultsGrow
<1>2. ~overlapped
  BY OverlapStays
<1>3. OneInLine /\ Clean /\ lines = returned
  BY <1>1, <1>2 DEF QuietInv
<1>4. OneInLine' /\ Clean'
  BY <1>1, <1>3, LineIsOwnNext, UnnoticedJoinsNobody
<1>5. CASE \E s \in Shells : WriteNewLine(s)
  BY <1>3, <1>4, <1>5 DEF WriteNewLine, Clean, LineIsOwn
<1>6. CASE UNCHANGED <<lines, returned>>
  BY <1>3, <1>4, <1>6
<1> QED
  BY <1>4, <1>5, <1>6, Writers

(* As long as no two shells were inside a line at once and nothing failed,   *)
(* the file is exactly the records whose put() returned: for any number of   *)
(* shells (commands.c:23-42).                                                *)
THEOREM QuietLogCorrect == Spec => []QuietLogIsExact
<1>1. QuietInv => QuietLogIsExact
  BY DEF QuietInv, QuietLogIsExact
<1> QED
  BY <1>1, TypeInit, TypeNext, QuietInit, QuietNext, PTL DEF Spec

-----------------------------------------------------------------------------
\* A line that is not clean will be a damaged one when its newline comes.
DamageInv ==
  ~overlapped =>
    /\ OneInLine
    /\ IF Clean THEN Cardinality(Damaged) <= faults
                ELSE Cardinality(Damaged) + 1 <= faults

LEMMA DamagedIsFinite ==
  ASSUME TypeOK
  PROVE  IsFiniteSet(Damaged) /\ Cardinality(Damaged) \in Nat
<1>1. lines \in Seq(Seq(Text))
  BY TypeParts
<1>2. DOMAIN lines = 1..Len(lines) /\ Len(lines) \in Nat
  BY <1>1
<1>3. IsFiniteSet(1..Len(lines))
  BY <1>2, FS_Interval
<1>4. Damaged \subseteq 1..Len(lines)
  BY <1>2 DEF Damaged
<1> QED
  BY <1>3, <1>4, FS_Subset, FS_CardinalityType

LEMMA DamageInit == Init => DamageInv
<1> SUFFICES ASSUME Init PROVE OneInLine /\ Clean /\ Cardinality(Damaged) <= faults
  BY DEF DamageInv
<1>1. OneInLine /\ Clean
  BY DEF Init, OneInLine, Clean, LineIsOwn, InLine
<1>2. Damaged = {}
  BY DEF Init, Damaged
<1> QED
  BY <1>1, <1>2, FS_EmptySet DEF Init

\* The newline adds one line, damaged only when it was not clean.
LEMMA NewLineDamage ==
  ASSUME TypeOK, TypeOK', NEW s \in Shells, WriteNewLine(s)
  PROVE  /\ Cardinality(Damaged') \in Nat
         /\ Cardinality(Damaged') <= Cardinality(Damaged) + 1
         /\ Clean => Cardinality(Damaged') = Cardinality(Damaged)
<1> DEFINE n == Len(lines) + 1
<1>1. /\ lines \in Seq(Seq(Text)) /\ rest \in Seq(Text)
      /\ lines' = Append(lines, rest)
  BY TypeParts DEF WriteNewLine
<1>2. /\ DOMAIN lines = 1..Len(lines) /\ DOMAIN lines' = 1..n
      /\ n \in Nat /\ n \notin DOMAIN lines
      /\ \A i \in DOMAIN lines : lines'[i] = lines[i]
      /\ lines'[n] = rest
  BY <1>1
<1>3. 1..n = (1..Len(lines)) \union {n}
  BY <1>2
<1>4. Damaged' = IF Whole(rest) THEN Damaged ELSE Damaged \union {n}
  BY <1>2, <1>3 DEF Damaged, Whole
<1>5. IsFiniteSet(Damaged) /\ Cardinality(Damaged) \in Nat
  BY DamagedIsFinite
<1>6. n \notin Damaged
  BY <1>2 DEF Damaged
<1>7. Cardinality(Damaged \union {n}) = Cardinality(Damaged) + 1
  BY <1>5, <1>6, FS_AddElement
<1>8. ASSUME Clean PROVE Whole(rest)
  <2>1. rest = Record(s)
    BY <1>8 DEF Clean, LineIsOwn, WriteNewLine
  <2>2. PICK k \in Keys, v \in Values : words[s] = <<"PUT", k, v>>
    BY TypeParts DEF WriteNewLine, ShellsOK, PutWords, Writing
  <2> QED
    BY <2>1, <2>2 DEF Record, Whole
<1> QED
  BY <1>4, <1>5, <1>7, <1>8

LEMMA DamageNext == TypeOK /\ DamageInv /\ [Next]_vars => DamageInv'
<1> SUFFICES ASSUME TypeOK, DamageInv, [Next]_vars, ~overlapped'
             PROVE  /\ OneInLine'
                    /\ IF Clean' THEN Cardinality(Damaged') <= faults'
                       ELSE Cardinality(Damaged') + 1 <= faults'
  BY DEF DamageInv
<1>0. TypeOK' /\ faults \in Nat /\ Cardinality(Damaged) \in Nat
  BY TypeNext, TypeParts, WordsAssumption, DamagedIsFinite
<1>1. ~overlapped
  BY OverlapStays
<1>2. /\ OneInLine
      /\ IF Clean THEN Cardinality(Damaged) <= faults
                  ELSE Cardinality(Damaged) + 1 <= faults
  BY <1>1 DEF DamageInv
<1>3. OneInLine' /\ (Clean /\ faults' = faults => Clean')
  BY <1>2, LineIsOwnNext, UnnoticedJoinsNobody
<1>4. CASE \E s \in Shells : WriteNewLine(s)
  <2>1. PICK s \in Shells : WriteNewLine(s)
    BY <1>4
  <2>2. faults' = faults /\ rest' = <<>>
    BY <2>1 DEF WriteNewLine
  <2>3. \A t \in Shells : ~InLine(t)'
    <3>1. \A t \in Shells \ {s} : ~InLine(t)
      BY <2>1 DEF WriteNewLine, Overlaps
    <3> QED
      BY <2>1, <3>1, TypeParts
         DEF WriteNewLine, Leave, Goto, InLine, ShellsOK
  <2>4. Clean'
    BY <2>2, <2>3 DEF Clean, LineIsOwn, InLine
  <2>5. /\ Cardinality(Damaged') \in Nat
        /\ Cardinality(Damaged') <= Cardinality(Damaged) + 1
        /\ Clean => Cardinality(Damaged') = Cardinality(Damaged)
    BY <1>0, <2>1, NewLineDamage
  <2> QED
    BY <1>0, <1>2, <1>3, <2>2, <2>4, <2>5
<1>5. CASE UNCHANGED <<lines, returned>>
  <2>1. Damaged' = Damaged
    BY <1>5 DEF Damaged, Whole
  <2>2. faults' = faults \/ faults' = faults + 1
    BY FaultsGrow
  <2> QED
    BY <1>0, <1>2, <1>3, <2>1, <2>2
<1> QED
  BY <1>4, <1>5, Writers

(* One shell at a time, any number of them: each kill and each write that    *)
(* fails or falls short spoils at most one line (commands.c:27-41).          *)
THEOREM DamageCorrect == Spec => []DamageIsBounded
<1>1. TypeOK /\ DamageInv => DamageIsBounded
  <2> SUFFICES ASSUME TypeOK, DamageInv, ~overlapped
               PROVE  Cardinality(Damaged) <= faults
    BY DEF DamageIsBounded
  <2>1. faults \in Nat /\ Cardinality(Damaged) \in Nat
    BY TypeParts, WordsAssumption, DamagedIsFinite
  <2> QED
    BY <2>1 DEF DamageInv
<1> QED
  BY <1>1, TypeInit, TypeNext, DamageInit, DamageNext, PTL DEF Spec

-----------------------------------------------------------------------------
(* Mixed lines.                                                              *)

LEMMA WrittenType ==
  ASSUME TypeOK, NEW s \in Shells
  PROVE  /\ Written(s) \in Seq(Text)
         /\ pc[s] \in Writing =>
              /\ words[s][2] \in Text /\ words[s][3] \in Text /\ Separator \in Text
              /\ Record(s) \in Pairs /\ Record(s) \in Seq(Text)
<1>1. ShellsOK
  BY TypeParts
<1>2. CASE pc[s] \in Writing
  <2>1. PICK k \in Keys, v \in Values : words[s] = <<"PUT", k, v>>
    BY <1>1, <1>2 DEF ShellsOK, PutWords
  <2>2. k \in Text /\ v \in Text /\ Separator \in Text
    BY DEF Text
  <2>3. Record(s) = <<k, Separator, v>> /\ words[s][2] = k /\ words[s][3] = v
    BY <2>1 DEF Record
  <2>4. <<k>> \in Seq(Text) /\ <<k, Separator>> \in Seq(Text)
        /\ <<k, Separator, v>> \in Seq(Text) /\ <<>> \in Seq(Text)
    BY <2>2
  <2>5. Written(s) \in {<<k>>, <<k, Separator>>, <<k, Separator, v>>, <<>>}
    BY <2>3 DEF Written
  <2>6. Written(s) \in Seq(Text)
    BY <2>4, <2>5
  <2>7. Record(s) \in Pairs /\ Record(s) \in Seq(Text)
    BY <2>3, <2>4 DEF Pairs
  <2> QED
    BY <2>2, <2>3, <2>6, <2>7
<1>3. CASE pc[s] \notin Writing
  <2>1. Written(s) = <<>>
    BY <1>3 DEF Written, Writing
  <2> QED
    BY <1>3, <2>1
<1> QED
  BY <1>2, <1>3

LEMMA PairsAreTexts ==
  ASSUME NEW s \in Seq(Pairs) PROVE s \in Seq(Seq(Text))
<1>1. ASSUME NEW p \in Pairs PROVE p \in Seq(Text)
  <2>1. PICK k \in Keys, v \in Values : p = <<k, Separator, v>>
    BY DEF Pairs
  <2> QED
    BY <2>1 DEF Text
<1>2. DOMAIN s = 1..Len(s) /\ Len(s) \in Nat /\ \A i \in 1..Len(s) : s[i] \in Seq(Text)
  BY <1>1, LenProperties, ElementOfSeq
<1>3. s = [i \in 1..Len(s) |-> s[i]]
  BY LenProperties
<1> QED
  BY <1>2, <1>3

LEMMA OccurrencesJoin ==
  ASSUME NEW S, NEW s \in Seq(S), NEW t \in Seq(S), NEW x
  PROVE  /\ Occurrences(x, s \o t) = Occurrences(x, s) + Occurrences(x, t)
         /\ Occurrences(x, s) \in Nat /\ Occurrences(x, t) \in Nat
         /\ Occurrences(x, <<>>) = 0
<1>1. \A u : Occurrences(x, u) = Cardinality(PlacesIn(x, u))
  BY DEF Occurrences, PlacesIn
<1>2. Cardinality(PlacesIn(x, s \o t)) =
        Cardinality(PlacesIn(x, s)) + Cardinality(PlacesIn(x, t))
  BY PlacesInJoin
<1>3. Cardinality(PlacesIn(x, s)) \in Nat /\ Cardinality(PlacesIn(x, t)) \in Nat
  BY PlacesInFinite
<1>4. Cardinality(PlacesIn(x, <<>>)) = 0
  BY PlacesInNone
<1> QED
  BY <1>1, <1>2, <1>3, <1>4

\* The work in progress changes by what one shell has written more or less.
LEMMA InWorkChange ==
  ASSUME TypeOK, NEW s \in Shells, NEW x, Written(s)' \in Seq(Text),
         \A t \in Shells \ {s} : Written(t)' = Written(t)
  PROVE  /\ InWork(x)' + Occurrences(x, Written(s)) =
              InWork(x) + Occurrences(x, Written(s)')
         /\ InWork(x) \in Nat /\ InWork(x)' \in Nat
<1> DEFINE f == [t \in Shells |-> Occurrences(x, Written(t))]
           g == [t \in Shells |-> Occurrences(x, Written(t)')]
<1>1. InWork(x) = Total(f, Shells) /\ InWork(x)' = Total(g, Shells)
  <2>1. InWork(x) = Total(f, Shells)
    BY DEF InWork, SumFunction, SumFunctionOnSet, Total
  <2>2. InWork(x)' = Total(g, Shells)
    BY DEF InWork, SumFunction, SumFunctionOnSet, Total, FoldFunctionOnSet,
           MapThenFoldSet
  <2> QED
    BY <2>1, <2>2
<1>2. ASSUME NEW t \in Shells
      PROVE  f[t] \in Nat /\ g[t] \in Nat /\ (t # s => f[t] = g[t])
  <2>1. Written(t) \in Seq(Text) /\ Written(t)' \in Seq(Text)
    BY WrittenType
  <2> QED
    BY <2>1, OccurrencesJoin
<1>3. f[s] = Occurrences(x, Written(s)) /\ g[s] = Occurrences(x, Written(s)')
  OBVIOUS
<1>4. IsFiniteSet(Shells)
  BY WordsAssumption DEF WordsAssumption
<1> HIDE DEF f, g
<1>5. \A t \in Shells : f[t] \in Nat /\ g[t] \in Nat /\ (t # s => f[t] = g[t])
  BY <1>2
<1>6. /\ Total(f, Shells) + g[s] = Total(g, Shells) + f[s]
      /\ Total(f, Shells) \in Nat /\ Total(g, Shells) \in Nat
  BY <1>4, <1>5, TotalChange
<1>7. PICK a, b : a = Total(f, Shells) /\ b = Total(g, Shells)
  OBVIOUS
<1>8. /\ a + g[s] = b + f[s] /\ a \in Nat /\ b \in Nat
      /\ InWork(x) = a /\ InWork(x)' = b
  BY <1>1, <1>6, <1>7
<1>9. f[s] \in Nat /\ g[s] \in Nat
  BY <1>5
<1> QED
  BY <1>3, <1>8, <1>9

LEMMA MixedInit == Init => MixedNotLost
<1> SUFFICES ASSUME Init, NEW x \in Text
             PROVE  Occurrences(x, FlattenSeq(lines) \o rest) =
                      Occurrences(x, FlattenSeq(returned)) + InWork(x)
  BY DEF MixedNotLost, Init
<1>0. TypeOK
  BY TypeInit
<1>1. lines = <<>> /\ rest = <<>> /\ returned = <<>> /\ \A s \in Shells : Written(s) = <<>>
  BY DEF Init, Written
<1>2. FlattenSeq(<<>>) = <<>> /\ <<>> \o <<>> = <<>> /\ <<>> \in Seq(Text)
  BY DEF FlattenSeq
<1>3. Occurrences(x, <<>>) = 0
  BY <1>2, OccurrencesJoin
<1> DEFINE f == [t \in Shells |-> Occurrences(x, Written(t))]
<1>4. \A t \in Shells : f[t] = 0
  BY <1>1, <1>3
<1>5. InWork(x) = Total(f, Shells)
  BY DEF InWork, SumFunction, SumFunctionOnSet, Total
<1> HIDE DEF f
<1>6. Total(f, Shells) = Cardinality(Marks(f, Shells)) /\ Marks(f, Shells) = {}
  <2>1. \A t \in Shells : f[t] \in Nat /\ 1..f[t] = {}
    BY <1>4
  <2>2. IsFiniteSet(Shells)
    BY WordsAssumption DEF WordsAssumption
  <2> QED
    BY <2>1, <2>2, TotalIsCount DEF Marks
<1> QED
  BY <1>1, <1>2, <1>3, <1>5, <1>6, FS_EmptySet

\* A text goes to the file and to the record of its shell.
LEMMA MixedText ==
  ASSUME TypeOK, MixedNotLost, faults = 0, faults' = 0, NEW s \in Shells,
         NEW text \in Text, rest' = Append(rest, text),
         UNCHANGED <<lines, returned>>,
         Written(s)' = Append(Written(s), text),
         \A t \in Shells \ {s} : Written(t)' = Written(t)
  PROVE  MixedNotLost'
<1> SUFFICES ASSUME NEW x \in Text
             PROVE  Occurrences(x, FlattenSeq(lines') \o rest') =
                      Occurrences(x, FlattenSeq(returned')) + InWork(x)'
  BY DEF MixedNotLost, Occurrences
<1>1. /\ lines \in Seq(Seq(Text)) /\ rest \in Seq(Text) /\ Written(s) \in Seq(Text)
      /\ returned \in Seq(Pairs)
  BY TypeParts, WrittenType
<1>2. FlattenSeq(lines) \in Seq(Text) /\ <<text>> \in Seq(Text)
  BY <1>1, FlattenType
<1>3. /\ rest' = rest \o <<text>> /\ Written(s)' = Written(s) \o <<text>>
  BY <1>1, AppendIsConcat
<1>4. FlattenSeq(lines) \o rest' = FlattenSeq(lines) \o rest \o <<text>>
  <2>1. \A l \in Seq(Text) : l \o (rest \o <<text>>) = (l \o rest) \o <<text>>
    BY <1>1, <1>2, ConcatAssociative
  <2> QED
    BY <1>2, <1>3, <2>1
<1>5. FlattenSeq(lines) \o rest \in Seq(Text)
  BY <1>1, <1>2, ConcatProperties
<1>6. Occurrences(x, FlattenSeq(lines) \o rest') =
        Occurrences(x, FlattenSeq(lines) \o rest) + Occurrences(x, <<text>>)
  <2>1. \A l \in Seq(Text) :
          Occurrences(x, l \o <<text>>) = Occurrences(x, l) + Occurrences(x, <<text>>)
    BY <1>2, OccurrencesJoin
  <2> QED
    BY <1>4, <1>5, <2>1
<1>7. Occurrences(x, Written(s)') = Occurrences(x, Written(s)) + Occurrences(x, <<text>>)
      /\ Occurrences(x, <<text>>) \in Nat /\ Occurrences(x, Written(s)) \in Nat
      /\ Written(s)' \in Seq(Text) /\ Occurrences(x, Written(s)') \in Nat
  <2>1. Written(s)' \in Seq(Text)
    BY <1>1, AppendProperties
  <2>2. \A l \in Seq(Text) :
          /\ Occurrences(x, l \o <<text>>) = Occurrences(x, l) + Occurrences(x, <<text>>)
          /\ Occurrences(x, l) \in Nat /\ Occurrences(x, <<text>>) \in Nat
    BY <1>2, OccurrencesJoin
  <2>3. /\ Occurrences(x, Written(s) \o <<text>>) =
             Occurrences(x, Written(s)) + Occurrences(x, <<text>>)
        /\ Occurrences(x, Written(s)) \in Nat /\ Occurrences(x, <<text>>) \in Nat
        /\ Occurrences(x, Written(s)') \in Nat
    BY <1>1, <2>1, <2>2
  <2> QED
    BY <1>3, <2>1, <2>3, Zenon
<1>8. /\ InWork(x)' + Occurrences(x, Written(s)) =
           InWork(x) + Occurrences(x, Written(s)')
      /\ InWork(x) \in Nat /\ InWork(x)' \in Nat
  BY <1>7, InWorkChange
<1>9. InWork(x)' = InWork(x) + Occurrences(x, <<text>>)
  <2>1. PICK a \in Nat, b \in Nat, c \in Nat, d \in Nat, e \in Nat :
          /\ a = InWork(x)' /\ b = Occurrences(x, Written(s)) /\ c = InWork(x)
          /\ d = Occurrences(x, Written(s)') /\ e = Occurrences(x, <<text>>)
    BY <1>7, <1>8
  <2>2. a + b = c + d /\ d = b + e
    BY <1>7, <1>8, <2>1
  <2>3. a = c + e
    BY <2>2
  <2> QED
    BY <2>1, <2>3
<1>10. Occurrences(x, FlattenSeq(returned)) \in Nat
  <2>1. returned \in Seq(Seq(Text))
    BY <1>1, PairsAreTexts
  <2>2. FlattenSeq(returned) \in Seq(Text)
    BY <2>1, FlattenType
  <2> QED
    BY <2>2, OccurrencesJoin
<1>11. Occurrences(x, FlattenSeq(lines) \o rest) =
         Occurrences(x, FlattenSeq(returned)) + InWork(x)
  BY DEF MixedNotLost
<1> QED
  BY <1>6, <1>7, <1>8, <1>9, <1>10, <1>11

\* The line is complete with the record of whoever ends it.
LEMMA MixedLine ==
  ASSUME TypeOK, MixedNotLost, faults = 0, faults' = 0,
         NEW s \in Shells, WriteNewLine(s)
  PROVE  MixedNotLost'
<1>1. /\ lines \in Seq(Seq(Text)) /\ rest \in Seq(Text) /\ returned \in Seq(Pairs)
      /\ ShellsOK /\ pc[s] \in Writing /\ Written(s) = Record(s)
      /\ Record(s) \in Pairs /\ Record(s) \in Seq(Text)
  BY TypeParts, WrittenType DEF WriteNewLine, Writing, Written
<1>2. returned \in Seq(Seq(Text))
  BY <1>1, PairsAreTexts
<1>3. /\ lines' = Append(lines, rest) /\ rest' = <<>>
      /\ returned' = Append(returned, Record(s))
  BY DEF WriteNewLine
<1>4. Written(s)' = <<>> /\ \A t \in Shells \ {s} : Written(t)' = Written(t)
  <2>1. pc' = [pc EXCEPT ![s] = "prompt"] /\ words' = [words EXCEPT ![s] = <<>>]
    BY DEF WriteNewLine, Leave, Goto
  <2> QED
    BY <1>1, <2>1 DEF ShellsOK, Written, Record
<1>5. /\ FlattenSeq(lines) \in Seq(Text) /\ FlattenSeq(returned) \in Seq(Text)
      /\ FlattenSeq(lines') = FlattenSeq(lines) \o rest
      /\ FlattenSeq(returned') = FlattenSeq(returned) \o Record(s)
  BY <1>1, <1>2, <1>3, FlattenType, FlattenAppend
<1>6. FlattenSeq(lines') \o rest' = FlattenSeq(lines) \o rest
  <2>1. FlattenSeq(lines) \o rest \in Seq(Text)
    BY <1>1, <1>5, ConcatProperties
  <2> QED
    BY <1>3, <1>5, <2>1, ConcatEmptySeq
<1>7. Len(lines') = Len(returned')
  <2>1. Len(lines) = Len(returned)
    BY DEF MixedNotLost
  <2> QED
    BY <1>1, <1>2, <1>3, <2>1, AppendProperties
<1>8. ASSUME NEW x \in Text
      PROVE  Occurrences(x, FlattenSeq(lines') \o rest') =
               Occurrences(x, FlattenSeq(returned')) + InWork(x)'
  <2>1. /\ Occurrences(x, FlattenSeq(returned')) =
             Occurrences(x, FlattenSeq(returned)) + Occurrences(x, Record(s))
        /\ Occurrences(x, FlattenSeq(returned)) \in Nat
        /\ Occurrences(x, Record(s)) \in Nat /\ Occurrences(x, <<>>) = 0
    BY <1>1, <1>5, OccurrencesJoin
  <2>2. /\ InWork(x)' + Occurrences(x, Record(s)) = InWork(x) + Occurrences(x, <<>>)
        /\ InWork(x) \in Nat /\ InWork(x)' \in Nat
    <3>1. /\ InWork(x)' + Occurrences(x, Written(s)) =
               InWork(x) + Occurrences(x, Written(s)')
          /\ InWork(x) \in Nat /\ InWork(x)' \in Nat
      <4>1. Written(s)' \in Seq(Text)
        BY <1>4, EmptySeq
      <4> QED
        BY <1>4, <4>1, InWorkChange
    <3> QED
      BY <1>1, <1>4, <3>1
  <2>3. Occurrences(x, FlattenSeq(lines) \o rest) =
          Occurrences(x, FlattenSeq(returned)) + InWork(x)
    BY DEF MixedNotLost
  <2> QED
    BY <1>6, <2>1, <2>2, <2>3
<1> QED
  BY <1>7, <1>8 DEF MixedNotLost, Occurrences

\* Nothing is written.
LEMMA MixedQuiet ==
  ASSUME TypeOK, MixedNotLost, faults = 0,
         UNCHANGED <<lines, rest, returned>>,
         \A t \in Shells : Written(t)' = Written(t)
  PROVE  MixedNotLost'
<1>1. ASSUME NEW x \in Text PROVE InWork(x)' = InWork(x)
  <2> DEFINE f == [t \in Shells |-> Occurrences(x, Written(t))]
             g == [t \in Shells |-> Occurrences(x, Written(t)')]
  <2>1. InWork(x) = Total(f, Shells)
    BY DEF InWork, SumFunction, SumFunctionOnSet, Total
  <2>2. InWork(x)' = Total(g, Shells)
    BY DEF InWork, SumFunction, SumFunctionOnSet, Total, FoldFunctionOnSet,
           MapThenFoldSet
  <2>3. f = g
    OBVIOUS
  <2> HIDE DEF f, g
  <2> QED
    BY <2>1, <2>2, <2>3
<1> QED
  BY <1>1 DEF MixedNotLost, Occurrences

LEMMA MixedNext == TypeOK /\ MixedNotLost /\ [Next]_vars => MixedNotLost'
<1> SUFFICES ASSUME TypeOK, MixedNotLost, [Next]_vars, faults' = 0
             PROVE  MixedNotLost'
  BY DEF MixedNotLost
<1>0. ShellsOK /\ faults \in Nat
  BY TypeParts, WordsAssumption
<1>1. faults = 0
  BY <1>0, FaultsGrow
<1>2. ASSUME NEW s \in Shells, WriteKey(s) PROVE MixedNotLost'
  <2>1. /\ pc[s] = "key" /\ pc' = [pc EXCEPT ![s] = "separator"] /\ words' = words
        /\ rest' = Append(rest, words[s][2]) /\ lines' = lines
        /\ returned' = returned
    BY <1>2 DEF WriteKey, WriteText, Goto
  <2>2. words[s][2] \in Text
    BY <2>1, WrittenType DEF Writing
  <2>3. \A t \in Shells \ {s} : Written(t)' = Written(t)
    BY <1>0, <2>1 DEF ShellsOK, Written, Record
  <2>4. Written(s) = <<>> /\ Written(s)' = <<words[s][2]>>
    BY <1>0, <2>1 DEF ShellsOK, Written
  <2>5. \A a : Append(<<>>, a) = <<a>>
    OBVIOUS
  <2> QED
    BY <1>1, <2>1, <2>2, <2>3, <2>4, <2>5, MixedText
<1>3. ASSUME NEW s \in Shells, WriteSeparator(s) PROVE MixedNotLost'
  <2>1. /\ pc[s] = "separator" /\ pc' = [pc EXCEPT ![s] = "value"] /\ words' = words
        /\ rest' = Append(rest, Separator) /\ lines' = lines /\ returned' = returned
    BY <1>3 DEF WriteSeparator, WriteText, Goto
  <2>2. Separator \in Text
    BY <2>1, WrittenType DEF Writing
  <2>3. \A t \in Shells \ {s} : Written(t)' = Written(t)
    BY <1>0, <2>1 DEF ShellsOK, Written, Record
  <2>4. Written(s) = <<words[s][2]>> /\ Written(s)' = <<words[s][2], Separator>>
    BY <1>0, <2>1 DEF ShellsOK, Written
  <2> QED
    BY <1>1, <2>1, <2>2, <2>3, <2>4, AppendTwo, MixedText
<1>4. ASSUME NEW s \in Shells, WriteValue(s) PROVE MixedNotLost'
  <2>1. /\ pc[s] = "value" /\ pc' = [pc EXCEPT ![s] = "newline"] /\ words' = words
        /\ rest' = Append(rest, words[s][3]) /\ lines' = lines
        /\ returned' = returned
    BY <1>4 DEF WriteValue, WriteText, Goto
  <2>2. words[s][3] \in Text
    BY <2>1, WrittenType DEF Writing
  <2>3. \A t \in Shells \ {s} : Written(t)' = Written(t)
    BY <1>0, <2>1 DEF ShellsOK, Written, Record
  <2>4. Written(s) = <<words[s][2], Separator>> /\ Written(s)' = Record(s)
    BY <1>0, <2>1 DEF ShellsOK, Written, Record
  <2>5. Record(s) = Append(Written(s), words[s][3])
    BY <2>4, AppendThree DEF Record
  <2> QED
    BY <1>1, <2>1, <2>2, <2>3, <2>4, <2>5, MixedText
<1>5. ASSUME NEW s \in Shells, WriteNewLine(s) PROVE MixedNotLost'
  BY <1>1, <1>5, MixedLine
<1>6. ASSUME NEW s \in Shells, pc[s] \in Outside, NEW l \in Outside,
             pc' = [pc EXCEPT ![s] = l], NEW v, words' = [words EXCEPT ![s] = v],
             UNCHANGED <<lines, rest, returned>>
      PROVE  MixedNotLost'
  <2>1. Written(s) = <<>> /\ Written(s)' = <<>>
    BY <1>0, <1>6 DEF ShellsOK, Written, Outside, Places, Writing
  <2>2. \A t \in Shells \ {s} : Written(t)' = Written(t)
    BY <1>0, <1>6 DEF ShellsOK, Written, Record
  <2> QED
    BY <1>1, <1>6, <2>1, <2>2, MixedQuiet
<1>w. ASSUME NEW s \in Shells, UNCHANGED words
      PROVE  words' = [words EXCEPT ![s] = words[s]]
  BY <1>0, <1>w DEF ShellsOK
<1>7. ASSUME NEW s \in Shells, NEW w \in Commands, Enter(s, w) PROVE MixedNotLost'
  <2>1. PICK l \in {"open", "get", "off", "prompt"}, v \in {<<>>, w} :
          /\ pc[s] = "prompt"
          /\ pc' = [pc EXCEPT ![s] = l]
          /\ words' = [words EXCEPT ![s] = v]
          /\ UNCHANGED <<fileVars, faults, returned, overlapped>>
    BY <1>7, Entering
  <2> QED
    BY <2>1, <1>6 DEF fileVars, Outside, Places, Writing
<1>8. ASSUME NEW s \in Shells, Start(s) \/ Open(s) \/ Get(s) PROVE MixedNotLost'
  <2>1. words' = [words EXCEPT ![s] = words[s]]
    BY <1>8, <1>w DEF Start, Open, Get
  <2> QED
    BY <1>6, <1>8, <2>1 DEF Start, Open, Get, Goto, fileVars, Outside, Places,
       Writing
<1>9. ASSUME NEW s \in Shells, GetOpenFails(s) PROVE MixedNotLost'
  BY <1>6, <1>9 DEF GetOpenFails, Leave, Goto, fileVars, Outside, Places, Writing
<1>10. ASSUME NEW s \in Shells PROVE ~GetReadFails(s) /\ ~ShortWrite(s) /\ ~Die(s)
  BY <1>1 DEF GetReadFails, ShortWrite, Die
<1>11. CASE UNCHANGED vars
  <2>1. \A t \in Shells : Written(t)' = Written(t)
    BY <1>11 DEF vars, fileVars, Written, Record
  <2> QED
    BY <1>1, <1>11, <2>1, MixedQuiet DEF vars, fileVars
<1> QED
  BY <1>2, <1>3, <1>4, <1>5, <1>7, <1>8, <1>9, <1>10, <1>11 DEF Next, Step

(* However many shells write at once, and however their lines mix: while     *)
(* none is killed and no write fails, every text that was written is in the  *)
(* file, as often, and there is a line for every put() that returned         *)
(* (commands.c:23-42).                                                       *)
THEOREM MixedCorrect == Spec => []MixedNotLost
BY TypeInit, TypeNext, MixedInit, MixedNext, PTL DEF Spec

-----------------------------------------------------------------------------
(* What lines that mixed leave behind.  The file is settled when at most one *)
(* shell is inside a line and the unfinished line is what that shell wrote.  *)
Settled == OneInLine /\ Clean

(* However lines have mixed, nothing is left of it once no shell is inside a *)
(* line, if nothing failed; and a newline that a shell writes while it is    *)
(* alone inside a line settles the file whatever has failed before           *)
(* (commands.c:23-42).                                                       *)
MixSettles == faults = 0 /\ (\A s \in Shells : ~InLine(s)) => Settled
NewLineSettles ==
  [][\A s \in Shells : WriteNewLine(s) /\ OneInLine => Settled']_vars
(* From there on, until two shells are inside a line again or something      *)
(* fails, every PUT appears in the file whole and at once.                   *)
StaysSettled ==
  [][Settled /\ OneInLine' /\ faults' = faults
       => Settled' /\ [Log!Next]_lines]_vars

LEMMA MixInit == Init => MixSettles
BY DEF Init, MixSettles, Settled, OneInLine, Clean, LineIsOwn, InLine

\* The step that leaves no shell inside a line is a newline, or left none before.
LEMMA MixNext == TypeOK /\ MixSettles /\ [Next]_vars => MixSettles'
<1> SUFFICES ASSUME TypeOK, MixSettles, [Next]_vars, faults' = 0,
                    \A s \in Shells : ~InLine(s)'
             PROVE  rest' = <<>>
  BY DEF MixSettles, Settled, OneInLine, Clean, LineIsOwn, InLine
<1>0. pc \in [Shells -> Places] /\ faults = 0
  <2>1. faults \in Nat
    BY TypeParts, WordsAssumption
  <2> QED
    BY <2>1, FaultsGrow, TypeParts DEF ShellsOK
<1>1. CASE \E s \in Shells : WriteNewLine(s)
  BY <1>1 DEF WriteNewLine
<1>2. CASE UNCHANGED <<rest, pc>>
  BY <1>0, <1>2 DEF MixSettles, Settled, Clean, InLine
<1>3. ASSUME NEW s \in Shells, WriteKey(s) \/ WriteSeparator(s) \/ WriteValue(s)
      PROVE  FALSE
  <2>1. PICK l \in {"separator", "value", "newline"} : pc' = [pc EXCEPT ![s] = l]
    BY <1>3 DEF WriteKey, WriteSeparator, WriteValue, WriteText, Goto
  <2> QED
    BY <1>0, <2>1 DEF InLine
<1>4. ASSUME NEW s \in Shells, GetReadFails(s) \/ ShortWrite(s) \/ Die(s)
      PROVE  FALSE
  BY <1>0, <1>4 DEF GetReadFails, ShortWrite, Die
<1>5. ASSUME NEW s \in Shells, ~InLine(s), rest' = rest,
             NEW l, pc' = [pc EXCEPT ![s] = l]
      PROVE  rest' = <<>>
  <2>1. \A t \in Shells : ~InLine(t)
    BY <1>0, <1>5 DEF InLine
  <2> QED
    BY <1>0, <1>5, <2>1 DEF MixSettles, Settled, Clean
<1>6. ASSUME NEW s \in Shells, Start(s) \/ Open(s) \/ GetOpenFails(s) \/ Get(s)
      PROVE  rest' = <<>>
  <2>1. ~InLine(s) /\ rest' = rest /\ \E l : pc' = [pc EXCEPT ![s] = l]
    BY <1>6 DEF Start, Open, GetOpenFails, Get, InLine, Leave, Goto, fileVars
  <2> QED
    BY <1>5, <2>1
<1>7. ASSUME NEW s \in Shells, NEW w \in Commands, Enter(s, w) PROVE rest' = <<>>
  <2>1. ~InLine(s) /\ rest' = rest /\ \E l : pc' = [pc EXCEPT ![s] = l]
    BY <1>7, Entering DEF InLine, fileVars
  <2> QED
    BY <1>5, <2>1
<1>8. CASE Next
  <2>1. PICK s \in Shells :
          \/ Start(s) \/ (\E w \in Commands : Enter(s, w)) \/ Step(s)
          \/ GetReadFails(s) \/ ShortWrite(s) \/ Die(s)
    BY <1>8 DEF Next
  <2> QED
    BY <1>1, <1>3, <1>4, <1>6, <1>7, <2>1 DEF Step
<1> QED
  BY <1>2, <1>8 DEF vars, fileVars

\* A record that is all of the unfinished line is appended whole.
LEMMA SettledAppends ==
  ASSUME TypeOK, Clean, [Next]_vars
  PROVE  [Log!Next]_lines
<1>1. CASE \E s \in Shells : WriteNewLine(s)
  <2>1. PICK s \in Shells : WriteNewLine(s)
    BY <1>1
  <2>2. rest = Record(s) /\ lines' = Append(lines, rest)
    BY <2>1 DEF WriteNewLine, Clean, LineIsOwn
  <2>3. PICK k \in Keys, v \in Values : words[s] = <<"PUT", k, v>>
    BY <2>1, TypeParts DEF WriteNewLine, ShellsOK, PutWords, Writing
  <2>4. lines' = Append(lines, Log!Record(k, v))
    BY <2>2, <2>3 DEF Record, Separator, Log!Record
  <2> QED
    BY <2>4 DEF Log!Next, Log!Put
<1>2. CASE UNCHANGED <<lines, returned>>
  BY <1>2
<1> QED
  BY <1>1, <1>2, Writers

(* The file recovers from lines that mixed: for any number of shells, the    *)
(* damage ends when no shell is inside a line, or with the first newline     *)
(* written alone, and from then on PUTs are as the log promises.             *)
THEOREM MixedHeals == Spec => []MixSettles /\ NewLineSettles /\ StaysSettled
<1>1. ASSUME TypeOK, NEW s \in Shells, WriteNewLine(s), OneInLine
      PROVE  Settled'
  <2>1. pc \in [Shells -> Places] /\ pc' = [pc EXCEPT ![s] = "prompt"]
        /\ InLine(s) /\ rest' = <<>>
    BY <1>1, TypeParts DEF WriteNewLine, Leave, Goto, InLine, ShellsOK
  <2>2. \A t \in Shells : ~InLine(t)'
    BY <1>1, <2>1 DEF InLine, OneInLine
  <2> QED
    BY <2>1, <2>2 DEF Settled, OneInLine, Clean, LineIsOwn, InLine
<1>2. TypeOK /\ [Next]_vars
        => [\A s \in Shells : WriteNewLine(s) /\ OneInLine => Settled']_vars
  BY <1>1
<1>3. ASSUME TypeOK, [Next]_vars, Settled, OneInLine', faults' = faults
      PROVE  Settled' /\ [Log!Next]_lines
  <2>1. OneInLine /\ Clean
    BY <1>3 DEF Settled
  <2>2. NobodyJoins
    BY <1>3, <2>1, AloneJoinsNobody
  <2>3. OneInLine' /\ Clean'
    BY <1>3, <2>1, <2>2, LineIsOwnNext
  <2> QED
    BY <1>3, <2>1, <2>3, SettledAppends DEF Settled
<1>4. TypeOK /\ [Next]_vars
        => [Settled /\ OneInLine' /\ faults' = faults
              => Settled' /\ [Log!Next]_lines]_vars
  BY <1>3
<1> QED
  BY <1>2, <1>4, MixInit, MixNext, TypeInit, TypeNext, PTL
     DEF Spec, NewLineSettles, StaysSettled

-----------------------------------------------------------------------------
(* One shell that nothing disturbs implements the abstract log: every PUT    *)
(* appears in the file whole and at once (commands.c:23-42).                 *)
THEOREM LogImplementation ==
  ASSUME \A s, t \in Shells : s = t, MaxFaults = 0
  PROVE  Spec => LogSpec
<1> DEFINE Calm == ~overlapped /\ faults = 0
<1>1. Init => Calm
  BY DEF Init
<1>2. TypeOK /\ TypeOK' /\ Calm /\ [Next]_vars => Calm'
  <2> SUFFICES ASSUME TypeOK, TypeOK', Calm, [Next]_vars PROVE Calm'
    OBVIOUS
  <2>1. faults' = 0
    BY DEF TypeOK
  <2>2. CASE UNCHANGED vars
    BY <2>1, <2>2 DEF vars
  <2>3. CASE Next
    <3>1. PICK s \in Shells :
          \/ Start(s) \/ (\E w \in Commands : Enter(s, w)) \/ Step(s)
          \/ GetReadFails(s) \/ ShortWrite(s) \/ Die(s)
      BY <2>3 DEF Next
    <3>2. Shells \ {s} = {}
      OBVIOUS
    <3>3. overlapped' = overlapped \/ overlapped' = (overlapped \/ FALSE)
      BY <3>1, <3>2, Entering
         DEF Start, Step, Open, WriteKey, WriteSeparator, WriteValue,
             WriteText, WriteNewLine, GetOpenFails, Get, GetReadFails,
             ShortWrite, Die, Overlaps
    <3> QED
      BY <2>1, <3>3 DEF TypeOK
  <2> QED
    BY <2>2, <2>3
<1>3. Init => Log!Init
  BY DEF Init, Log!Init
<1>4. TypeOK /\ Calm /\ QuietInv /\ [Next]_vars => [Log!Next]_lines
  BY SettledAppends DEF QuietInv
<1> QED
  BY <1>1, <1>2, <1>3, <1>4, TypeInit, TypeNext, QuietInit, QuietNext, PTL
     DEF Spec, LogSpec, Log!Spec
================================================================================
