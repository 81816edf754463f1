-------------------------- MODULE KineticShellProofs --------------------------
(* Type correctness and the safety of KineticShell, for lines of any length, *)
(* any buffer and any symbols, and the same of the sessions that             *)
(* KineticSession makes of it.                                               *)
EXTENDS KineticSession, KineticDbProofs

-----------------------------------------------------------------------------
(* The inductive invariant.                                                  *)

Chars == Symbols \union Quotes \union {Space, Eof}
Stages == {"reading", "quoted", "exec", "off", "undefined", "wordless"}
Outcomes == {"exit", "help", "get", "put", "unknown"}
HistoryOK == typed \in Seq(Chars) /\ ran \in Seq(Outcomes)
\* Allocations: a list node and its string per word, the buffers in use, and
\* the one of every line that ended normally.
Allocated ==
  /\ at = "reading" => heap = ended + 1 + 2 * Len(list)
  /\ at = "quoted" => heap = ended + 2 + 2 * Len(list)
  /\ at = "exec" => heap = ended + 2 * Len(list)
\* No word comes from nothing.
Fresh == at = "reading" /\ typed = <<>> => list = <<>>
\* A line without quotes ends in the word that is in the buffer.
WordAtEnd ==
  /\ at = "quoted" => Quoting
  /\ at = "reading" /\ ~Quoting =>
       /\ Len(command) <= Len(typed)
       /\ \A m \in Len(typed) - Len(command) + 1 .. Len(typed) : typed[m] # Space
LineInv ==
  /\ LineTypeOK /\ HistoryOK /\ Allocated /\ Fresh /\ WordAtEnd
  /\ OverrunOnlyByLongWord /\ (eof => at # "exec")

-----------------------------------------------------------------------------
LEMMA CharFacts ==
  /\ Space \notin Symbols /\ Space # Eof /\ Space \notin Quotes
  /\ Space \in Chars /\ Eof \in Chars /\ Quotes \subseteq Chars
  /\ Symbols \subseteq Chars
  /\ "double" \in Quotes
BY BufferAssumption DEF Space, Eof, Quotes, Chars

\* A character is added to the line and nothing of the line changes.
LEMMA GetcharAdds ==
  ASSUME HistoryOK, NEW c \in Chars, Getchar(c)
  PROVE  /\ typed' \in Seq(Chars) /\ typed' # <<>>
         /\ Len(typed) \in Nat /\ Len(typed') = Len(typed) + 1
         /\ \A m \in 1..Len(typed) : typed'[m] = typed[m]
         /\ typed'[Len(typed) + 1] = c
         /\ Quoting => Quoting'
         /\ c \in Quotes => Quoting'
         /\ eof' \in BOOLEAN
<1>1. /\ typed' \in Seq(Chars) /\ Len(typed) \in Nat /\ Len(typed') = Len(typed) + 1
      /\ \A m \in 1..Len(typed) : typed'[m] = typed[m]
      /\ typed'[Len(typed) + 1] = c
  BY AppendProperties DEF HistoryOK, Getchar
<1>2. typed' # <<>>
  BY <1>1
<1>3. Quoting => Quoting'
  BY <1>1 DEF Quoting, Contains
<1>4. c \in Quotes => Quoting'
  BY <1>1 DEF Quoting, Contains
<1> QED
  BY <1>1, <1>2, <1>3, <1>4 DEF Getchar

LEMMA LineInitInv == LineInit => LineInv
<1> SUFFICES ASSUME LineInit PROVE LineInv
  OBVIOUS
<1>0. HistoryOK
  BY DEF LineInit, HistoryOK
<1>1. LineTypeOK
  <2>1. at \in Stages /\ quote \in Quotes
    BY CharFacts DEF LineInit, Stages
  <2>2. command \in Seq(Symbols \union {Eof}) /\ Len(command) <= BufferLen
    BY BufferAssumption DEF LineInit
  <2>3. word \in Seq(Symbols \union Quotes \union {Space, Eof}) /\ Len(word) <= BufferLen
    BY BufferAssumption DEF LineInit
  <2>4. /\ list \in Seq(Seq(Symbols \union Quotes \union {Space, Eof}))
        /\ lost \in Seq(Seq(Symbols \union Quotes \union {Space, Eof}))
    BY DEF LineInit
  <2>5. heap \in Nat /\ fails \in 0..MaxFails /\ ended \in Nat /\ count \in 0..MaxLines
    BY BufferAssumption DEF LineInit
  <2>6. \A i \in DOMAIN ran : ran[i] \in Outcomes
    BY DEF LineInit
  <2> QED
    BY <2>1, <2>2, <2>3, <2>4, <2>5, <2>6 DEF LineInit, LineTypeOK, Outcomes, Stages
<1>2. Allocated /\ Fresh /\ OverrunOnlyByLongWord
  BY DEF LineInit, Allocated, Fresh, OverrunOnlyByLongWord
<1>3. WordAtEnd
  BY DEF LineInit, WordAtEnd
<1> QED
  BY <1>0, <1>1, <1>2, <1>3 DEF LineInit, LineInv

\* The type invariant from its parts, with Chars for what a word is made of.
LEMMA LineTypeParts ==
  ASSUME LineTypeOK
  PROVE  /\ at \in Stages
         /\ quote \in Quotes
         /\ command \in Seq(Symbols \union {Eof}) /\ Len(command) <= BufferLen
         /\ word \in Seq(Chars) /\ Len(word) <= BufferLen
         /\ list \in Seq(Seq(Chars)) /\ lost \in Seq(Seq(Chars))
         /\ heap \in Nat /\ fails \in 0..MaxFails /\ ended \in Nat /\ count \in 0..MaxLines
         /\ eof \in BOOLEAN /\ torn \in BOOLEAN
BY DEF LineTypeOK, Chars, Stages

LEMMA TypeStep ==
  ASSUME at' \in Stages,
         quote' \in Quotes,
         command' \in Seq(Symbols \union {Eof}), Len(command') <= BufferLen,
         word' \in Seq(Chars), Len(word') <= BufferLen,
         list' \in Seq(Seq(Chars)), lost' \in Seq(Seq(Chars)),
         heap' \in Nat, fails' \in 0..MaxFails, ended' \in Nat, count' \in 0..MaxLines,
         eof' \in BOOLEAN, torn' \in BOOLEAN,
         \A i \in DOMAIN ran' : ran'[i] \in Outcomes
  PROVE  LineTypeOK'
BY DEF LineTypeOK, Chars, Outcomes, Stages

\* add_word: the word is behind the tail, or lost, or the shell is followed no
\* further; what is allocated beyond the list does not change.
LEMMA AddWordParts ==
  ASSUME list \in Seq(Seq(Chars)), lost \in Seq(Seq(Chars)), fails \in 0..MaxFails,
         NEW w \in Seq(Chars), NEW h \in Nat, NEW next, AddWord(w, h, next)
  PROVE  /\ list' \in Seq(Seq(Chars)) /\ lost' \in Seq(Seq(Chars))
         /\ heap' \in Nat /\ fails' \in 0..MaxFails
         /\ Len(list) \in Nat /\ Len(list') \in Nat
         /\ \/ /\ at' = next /\ list' = Append(list, w) /\ lost' = lost
               /\ fails' = fails
            \/ /\ at' \in {next, "wordless"} /\ list' = list
               /\ lost' = Append(lost, w) /\ lost' # <<>>
               /\ Len(lost') = Len(lost) + 1 /\ fails' = fails + 1
         /\ at' = next /\ next # "wordless" =>
              heap' + 2 * Len(list) = h + 2 * Len(list')
<1>0. MaxFails \in Nat /\ Len(list) \in Nat /\ Len(lost) \in Nat
  BY BufferAssumption
<1>1. /\ Append(list, w) \in Seq(Seq(Chars)) /\ Len(Append(list, w)) = Len(list) + 1
      /\ Append(lost, w) \in Seq(Seq(Chars)) /\ Len(Append(lost, w)) = Len(lost) + 1
  BY AppendProperties
<1>2. Append(lost, w) # <<>>
  <2>1. Len(<<>>) = 0 /\ Len(Append(lost, w)) # 0
    BY <1>0, <1>1
  <2> QED
    BY <2>1
<1>3. CASE /\ at' = next /\ list' = Append(list, w) /\ heap' = h + 2
           /\ UNCHANGED <<fails, lost>>
  BY <1>0, <1>1, <1>3
<1>4. CASE /\ fails < MaxFails /\ fails' = fails + 1
           /\ lost' = Append(lost, w) /\ list' = list
           /\ \/ at' = next /\ heap' = h
              \/ at' = "wordless" /\ heap' = h + 1
  BY <1>0, <1>1, <1>2, <1>4
<1> QED
  BY <1>3, <1>4 DEF AddWord

\* A write past the buffer keeps the invariant: outside quotes the word that
\* fills the buffer is at the end of the line.
LEMMA OverrunKeeps ==
  ASSUME LineInv, Overrun, at \in {"reading", "quoted"},
         at = "reading" => Len(command) >= BufferLen,
         typed' \in Seq(Chars), Len(typed) \in Nat, Len(typed') \in Nat,
         Len(typed') >= Len(typed),
         \A m \in 1..Len(typed) : typed'[m] = typed[m],
         Quoting => Quoting',
         ended' \in Nat, count' \in 0..MaxLines, eof' \in BOOLEAN,
         torn' = torn, ran' = ran
  PROVE  LineInv'
<1>1. /\ at' = "undefined" /\ command' = command /\ quote' = quote
      /\ word' = word /\ list' = list /\ heap' = heap /\ fails' = fails
      /\ lost' = lost /\ at' \in Stages
  BY DEF Overrun, buffers, memory, Stages
<1>2. LineTypeOK'
  <2>1. LineTypeOK /\ \A i \in DOMAIN ran : ran[i] \in Outcomes
    BY DEF LineInv, LineTypeOK, Outcomes
  <2> QED
    BY <1>1, <2>1, LineTypeParts, TypeStep
<1>3. HistoryOK'
  BY <1>1 DEF LineInv, HistoryOK
<1>4. ~Quoting' => LongWordTyped'
  <2> SUFFICES ASSUME ~Quoting' PROVE LongWordTyped'
    OBVIOUS
  <2>0. /\ Len(command) \in Nat /\ BufferLen \in Nat \ {0}
        /\ Len(command) >= BufferLen
    BY BufferAssumption DEF LineInv, LineTypeOK, WordAtEnd
  <2>1. /\ Len(command) <= Len(typed)
        /\ \A m \in Len(typed) - Len(command) + 1 .. Len(typed) : typed[m] # Space
    BY DEF LineInv, WordAtEnd
  <2>2. /\ Len(typed) - Len(command) + 1 \in 1..Len(typed')
        /\ Len(typed) \in 1..Len(typed')
        /\ Len(typed) - (Len(typed) - Len(command) + 1) + 1 >= BufferLen
    BY <2>0, <2>1
  <2>3. \A m \in Len(typed) - Len(command) + 1 .. Len(typed) : typed'[m] # Space
    BY <2>0, <2>1
  <2>4. DOMAIN typed' = 1..Len(typed')
    BY LenProperties
  <2> QED
    BY <2>2, <2>3, <2>4 DEF LongWordTyped
<1> QED
  BY <1>1, <1>2, <1>3, <1>4
  DEF LineInv, Allocated, Fresh, WordAtEnd, OverrunOnlyByLongWord

LEMMA PlainKeeps ==
  ASSUME LineInv, NEW c \in Symbols \union {Eof}, Plain(c)
  PROVE  LineInv'
<1>1. c \in Chars /\ c # Space
  BY CharFacts
<1>2. /\ typed' \in Seq(Chars) /\ typed' # <<>>
      /\ Len(typed) \in Nat /\ Len(typed') = Len(typed) + 1
      /\ \A m \in 1..Len(typed) : typed'[m] = typed[m]
      /\ typed'[Len(typed) + 1] = c
      /\ (Quoting => Quoting') /\ eof' \in BOOLEAN
  BY <1>1, GetcharAdds DEF Plain, LineInv
<1>3. /\ Len(command) \in Nat /\ BufferLen \in Nat
      /\ Append(command, c) \in Seq(Symbols \union {Eof})
      /\ Len(Append(command, c)) = Len(command) + 1
  BY AppendProperties, BufferAssumption DEF LineInv, LineTypeOK
<1>4. CASE Len(command) < BufferLen
  <2>1. /\ command' = Append(command, c) /\ at = "reading"
        /\ at' = at /\ quote' = quote /\ word' = word /\ list' = list
        /\ heap' = heap /\ fails' = fails /\ lost' = lost /\ ended' = ended
        /\ count' = count /\ torn' = torn /\ ran' = ran
    BY <1>4 DEF Plain, memory
  <2>2. LineTypeOK'
    <3>1. LineTypeOK /\ \A i \in DOMAIN ran : ran[i] \in Outcomes
      BY DEF LineInv, LineTypeOK, Outcomes
    <3>2. /\ command' \in Seq(Symbols \union {Eof}) /\ Len(command') <= BufferLen
      BY <1>3, <1>4, <2>1
    <3> QED
      BY <1>2, <2>1, <3>1, <3>2, LineTypeParts, TypeStep
  <2>a. HistoryOK'
    BY <1>2, <2>1 DEF LineInv, HistoryOK
  <2>3. Allocated' /\ Fresh' /\ OverrunOnlyByLongWord'
    BY <1>2, <2>1 DEF LineInv, Allocated, Fresh, OverrunOnlyByLongWord
  <2>4. WordAtEnd'
    <3>1. ASSUME ~Quoting',
                 NEW m \in Len(typed') - Len(command') + 1 .. Len(typed')
          PROVE  typed'[m] # Space
      <4>1. CASE m = Len(typed) + 1
        BY <1>1, <1>2, <4>1
      <4>2. CASE m # Len(typed) + 1
        BY <1>2, <1>3, <2>1, <3>1, <4>2 DEF LineInv, WordAtEnd
      <4> QED
        BY <4>1, <4>2
    <3>2. ~Quoting' => Len(command') <= Len(typed')
      BY <1>2, <1>3, <2>1 DEF LineInv, WordAtEnd
    <3> QED
      BY <2>1, <3>1, <3>2 DEF WordAtEnd
  <2> QED
    BY <2>1, <2>2, <2>a, <2>3, <2>4 DEF LineInv
<1>5. CASE ~(Len(command) < BufferLen)
  <2>1. /\ Overrun /\ at = "reading" /\ Len(command) >= BufferLen
        /\ ended' = ended /\ count' = count /\ torn' = torn /\ ran' = ran
    BY <1>3, <1>5 DEF Plain
  <2>2. /\ ended \in Nat /\ count \in 0..MaxLines
    BY DEF LineInv, LineTypeOK
  <2> QED
    BY <1>2, <2>1, <2>2, OverrunKeeps
<1> QED
  BY <1>4, <1>5

LEMMA ReadSpaceKeeps ==
  ASSUME LineInv, ReadSpace
  PROVE  LineInv'
<1>0. /\ LineTypeOK /\ HistoryOK /\ \A i \in DOMAIN ran : ran[i] \in Outcomes
  BY DEF LineInv, LineTypeOK, Outcomes
<1>t. /\ quote \in Quotes
      /\ command \in Seq(Chars) /\ Len(command) \in Nat
      /\ word \in Seq(Chars) /\ Len(word) \in Nat
      /\ list \in Seq(Seq(Chars)) /\ Len(list) \in Nat
      /\ lost \in Seq(Seq(Chars)) /\ fails \in 0..MaxFails
      /\ heap \in Nat /\ ended \in Nat /\ count \in 0..MaxLines
      /\ BufferLen \in Nat \ {0}
  <2>1. Symbols \union {Eof} \subseteq Chars
    BY CharFacts
  <2>2. command \in Seq(Chars)
    BY <1>0, <2>1, LineTypeParts
  <2> QED
    BY <1>0, <2>2, LineTypeParts, BufferAssumption
<1>1. Space \in Chars
  BY CharFacts
<1>2. /\ typed' \in Seq(Chars) /\ typed' # <<>>
      /\ Len(typed) \in Nat /\ Len(typed') = Len(typed) + 1
      /\ \A m \in 1..Len(typed) : typed'[m] = typed[m]
      /\ typed'[Len(typed) + 1] = Space
      /\ (Quoting => Quoting') /\ eof' \in BOOLEAN
  BY <1>1, GetcharAdds DEF ReadSpace, LineInv
<1>3. CASE Len(command) < BufferLen
  <2>1. /\ AddWord(command, heap, "reading") /\ command' = <<>>
        /\ at = "reading" /\ quote' = quote /\ word' = word
        /\ ended' = ended /\ count' = count /\ torn' = torn /\ ran' = ran
    BY <1>3 DEF ReadSpace, ResetWord
  <2>2. /\ list' \in Seq(Seq(Chars)) /\ lost' \in Seq(Seq(Chars))
        /\ heap' \in Nat /\ fails' \in 0..MaxFails /\ Len(list') \in Nat
        /\ at' \in {"reading", "wordless"}
        /\ at' = "reading" => heap' + 2 * Len(list) = heap + 2 * Len(list')
    BY <1>t, <2>1, AddWordParts
  <2>3. LineTypeOK'
    <3>1. /\ command' \in Seq(Symbols \union {Eof}) /\ Len(command') <= BufferLen
      BY <1>t, <2>1
    <3>2. at' \in Stages
      BY <2>2 DEF Stages
    <3> QED
      BY <1>0, <1>2, <2>1, <2>2, <3>1, <3>2, LineTypeParts, TypeStep
  <2>4. HistoryOK'
    BY <1>2, <2>1 DEF LineInv, HistoryOK
  <2>5. Allocated'
    <3>1. heap = ended + 1 + 2 * Len(list)
      BY <2>1 DEF LineInv, Allocated
    <3>2. at' = "reading" => heap' = ended + 1 + 2 * Len(list')
      <4>1. /\ Len(list) \in Nat /\ Len(list') \in Nat /\ ended \in Nat
            /\ heap \in Nat /\ heap' \in Nat
        BY <1>t, <2>2
      <4>2. at' = "reading" => heap' + 2 * Len(list) = heap + 2 * Len(list')
        BY <2>2
      <4> QED
        BY <3>1, <4>1, <4>2
    <3> QED
      BY <2>1, <2>2, <3>2 DEF Allocated
  <2>6. WordAtEnd'
    BY <1>2, <2>1, <2>2 DEF WordAtEnd
  <2> QED
    BY <1>2, <2>1, <2>2, <2>3, <2>4, <2>5, <2>6
    DEF LineInv, Fresh, OverrunOnlyByLongWord
<1>4. CASE ~(Len(command) < BufferLen)
  <2>1. /\ Overrun /\ at = "reading" /\ Len(command) >= BufferLen
        /\ ended' = ended /\ count' = count /\ torn' = torn /\ ran' = ran
    BY <1>t, <1>4 DEF ReadSpace
  <2> QED
    BY <1>t, <1>2, <2>1, OverrunKeeps
<1> QED
  BY <1>3, <1>4

LEMMA OpenQuoteKeeps ==
  ASSUME LineInv, NEW c \in Quotes, OpenQuote(c)
  PROVE  LineInv'
<1>0. /\ LineTypeOK /\ HistoryOK /\ \A i \in DOMAIN ran : ran[i] \in Outcomes
  BY DEF LineInv, LineTypeOK, Outcomes
<1>t. /\ quote \in Quotes
      /\ command \in Seq(Chars) /\ Len(command) \in Nat
      /\ word \in Seq(Chars) /\ Len(word) \in Nat
      /\ list \in Seq(Seq(Chars)) /\ Len(list) \in Nat
      /\ lost \in Seq(Seq(Chars)) /\ fails \in 0..MaxFails
      /\ heap \in Nat /\ ended \in Nat /\ count \in 0..MaxLines
      /\ BufferLen \in Nat \ {0}
  <2>1. Symbols \union {Eof} \subseteq Chars
    BY CharFacts
  <2>2. command \in Seq(Chars)
    BY <1>0, <2>1, LineTypeParts
  <2> QED
    BY <1>0, <2>2, LineTypeParts, BufferAssumption
<1>1. c \in Chars
  BY CharFacts
<1>2. /\ typed' \in Seq(Chars) /\ typed' # <<>>
      /\ Len(typed) \in Nat /\ Len(typed') = Len(typed) + 1
      /\ \A m \in 1..Len(typed) : typed'[m] = typed[m]
      /\ typed'[Len(typed) + 1] = c
      /\ Quoting' /\ eof' \in BOOLEAN
  BY <1>1, GetcharAdds DEF OpenQuote, LineInv
<1>3. /\ at' = "quoted" /\ quote' = c /\ word' = <<>> /\ heap' = heap + 1
      /\ at = "reading" /\ command' = command /\ list' = list
      /\ fails' = fails /\ lost' = lost /\ at' \in Stages
      /\ ended' = ended /\ count' = count /\ torn' = torn /\ ran' = ran
  BY DEF OpenQuote, Stages
<1>4. LineTypeOK'
  <2>1. /\ word' \in Seq(Chars) /\ Len(word') <= BufferLen /\ heap' \in Nat
    BY <1>t, <1>3
  <2> QED
    BY <1>0, <1>2, <1>3, <2>1, LineTypeParts, TypeStep
<1>5. HistoryOK'
  BY <1>0, <1>2, <1>3 DEF HistoryOK
<1>6. Allocated'
  BY <1>t, <1>3 DEF LineInv, Allocated
<1> QED
  BY <1>2, <1>3, <1>4, <1>5, <1>6 DEF LineInv, Fresh, WordAtEnd,
     OverrunOnlyByLongWord

LEMMA QuotedKeeps ==
  ASSUME LineInv, NEW c \in Chars, Quoted(c)
  PROVE  LineInv'
<1>0. /\ LineTypeOK /\ HistoryOK /\ \A i \in DOMAIN ran : ran[i] \in Outcomes
  BY DEF LineInv, LineTypeOK, Outcomes
<1>t. /\ quote \in Quotes
      /\ command \in Seq(Chars) /\ Len(command) \in Nat
      /\ word \in Seq(Chars) /\ Len(word) \in Nat
      /\ list \in Seq(Seq(Chars)) /\ Len(list) \in Nat
      /\ lost \in Seq(Seq(Chars)) /\ fails \in 0..MaxFails
      /\ heap \in Nat /\ ended \in Nat /\ count \in 0..MaxLines
      /\ BufferLen \in Nat \ {0}
  <2>1. Symbols \union {Eof} \subseteq Chars
    BY CharFacts
  <2>2. command \in Seq(Chars)
    BY <1>0, <2>1, LineTypeParts
  <2> QED
    BY <1>0, <2>2, LineTypeParts, BufferAssumption
<1>2. /\ typed' \in Seq(Chars) /\ typed' # <<>>
      /\ Len(typed) \in Nat /\ Len(typed') = Len(typed) + 1
      /\ \A m \in 1..Len(typed) : typed'[m] = typed[m]
      /\ typed'[Len(typed) + 1] = c
      /\ (Quoting => Quoting') /\ eof' \in BOOLEAN
  BY GetcharAdds DEF Quoted, LineInv
<1>3. at = "quoted" /\ Quoting'
  BY <1>2 DEF Quoted, LineInv, WordAtEnd
<1>4. CASE Len(word) < BufferLen
  <2>1. /\ word' = Append(word, c) /\ at' = at /\ quote' = quote
        /\ command' = command /\ list' = list /\ heap' = heap
        /\ fails' = fails /\ lost' = lost
        /\ ended' = ended /\ count' = count /\ torn' = torn /\ ran' = ran
    BY <1>4 DEF Quoted, memory
  <2>2. /\ word' \in Seq(Chars) /\ Len(word') <= BufferLen
    BY <1>t, <1>4, <2>1, AppendProperties
  <2>3. LineTypeOK'
    BY <1>0, <1>2, <2>1, <2>2, LineTypeParts, TypeStep
  <2>4. HistoryOK'
    BY <1>0, <1>2, <2>1 DEF HistoryOK
  <2> QED
    BY <1>3, <2>1, <2>3, <2>4
    DEF LineInv, Allocated, Fresh, WordAtEnd, OverrunOnlyByLongWord
<1>5. CASE ~(Len(word) < BufferLen)
  <2>1. /\ Overrun
        /\ ended' = ended /\ count' = count /\ torn' = torn /\ ran' = ran
    BY <1>5 DEF Quoted
  <2> QED
    BY <1>t, <1>2, <1>3, <2>1, OverrunKeeps
<1> QED
  BY <1>4, <1>5

LEMMA CloseQuoteKeeps ==
  ASSUME LineInv, CloseQuote
  PROVE  LineInv'
<1>0. /\ LineTypeOK /\ HistoryOK /\ \A i \in DOMAIN ran : ran[i] \in Outcomes
  BY DEF LineInv, LineTypeOK, Outcomes
<1>t. /\ quote \in Quotes
      /\ command \in Seq(Chars) /\ Len(command) \in Nat
      /\ word \in Seq(Chars) /\ Len(word) \in Nat
      /\ list \in Seq(Seq(Chars)) /\ Len(list) \in Nat
      /\ lost \in Seq(Seq(Chars)) /\ fails \in 0..MaxFails
      /\ heap \in Nat /\ ended \in Nat /\ count \in 0..MaxLines
      /\ BufferLen \in Nat \ {0}
  <2>1. Symbols \union {Eof} \subseteq Chars
    BY CharFacts
  <2>2. command \in Seq(Chars)
    BY <1>0, <2>1, LineTypeParts
  <2> QED
    BY <1>0, <2>2, LineTypeParts, BufferAssumption
<1>1. quote \in Chars
  BY <1>t, CharFacts
<1>2. /\ typed' \in Seq(Chars) /\ typed' # <<>>
      /\ Len(typed) \in Nat /\ Len(typed') = Len(typed) + 1
      /\ \A m \in 1..Len(typed) : typed'[m] = typed[m]
      /\ typed'[Len(typed) + 1] = quote
      /\ (Quoting => Quoting') /\ eof' \in BOOLEAN
  BY <1>1, GetcharAdds DEF CloseQuote, LineInv
<1>3. at = "quoted" /\ Quoting'
  BY <1>2 DEF CloseQuote, LineInv, WordAtEnd
<1>4. CASE Len(word) < BufferLen
  <2>1. /\ AddWord(word, heap - 1, "reading") /\ word' = <<>>
        /\ quote' = quote /\ command' = command
        /\ ended' = ended /\ count' = count /\ torn' = torn /\ ran' = ran
    BY <1>4 DEF CloseQuote
  <2>h. heap = ended + 2 + 2 * Len(list) /\ heap - 1 \in Nat
    BY <1>t, <1>3 DEF LineInv, Allocated
  <2>2. /\ list' \in Seq(Seq(Chars)) /\ lost' \in Seq(Seq(Chars))
        /\ heap' \in Nat /\ fails' \in 0..MaxFails /\ Len(list') \in Nat
        /\ at' \in {"reading", "wordless"}
        /\ at' = "reading" => heap' + 2 * Len(list) = heap - 1 + 2 * Len(list')
    BY <1>t, <2>1, <2>h, AddWordParts
  <2>3. LineTypeOK'
    <3>1. /\ word' \in Seq(Chars) /\ Len(word') <= BufferLen /\ at' \in Stages
      BY <1>t, <2>1, <2>2 DEF Stages
    <3> QED
      BY <1>0, <1>2, <2>1, <2>2, <3>1, LineTypeParts, TypeStep
  <2>4. HistoryOK'
    BY <1>0, <1>2, <2>1 DEF HistoryOK
  <2>5. Allocated'
    <3>1. at' = "reading" => heap' = ended + 1 + 2 * Len(list')
      <4>1. /\ Len(list) \in Nat /\ Len(list') \in Nat /\ ended \in Nat
            /\ heap \in Nat /\ heap' \in Nat
        BY <1>t, <2>2
      <4>2. at' = "reading" => heap' + 2 * Len(list) = heap - 1 + 2 * Len(list')
        BY <2>2
      <4> QED
        BY <2>h, <4>1, <4>2
    <3> QED
      BY <2>1, <2>2, <3>1 DEF Allocated
  <2> QED
    BY <1>2, <1>3, <2>1, <2>2, <2>3, <2>4, <2>5
    DEF LineInv, Fresh, WordAtEnd, OverrunOnlyByLongWord
<1>5. CASE ~(Len(word) < BufferLen)
  <2>1. /\ Overrun
        /\ ended' = ended /\ count' = count /\ torn' = torn /\ ran' = ran
    BY <1>5 DEF CloseQuote
  <2> QED
    BY <1>t, <1>2, <1>3, <2>1, OverrunKeeps
<1> QED
  BY <1>4, <1>5

LEMMA NewlineInQuotesKeeps ==
  ASSUME LineInv, NewlineInQuotes
  PROVE  LineInv'
<1>0. /\ LineTypeOK /\ HistoryOK /\ \A i \in DOMAIN ran : ran[i] \in Outcomes
  BY DEF LineInv, LineTypeOK, Outcomes
<1>t. /\ quote \in Quotes
      /\ command \in Seq(Chars) /\ Len(command) \in Nat
      /\ word \in Seq(Chars) /\ Len(word) \in Nat
      /\ list \in Seq(Seq(Chars)) /\ Len(list) \in Nat
      /\ lost \in Seq(Seq(Chars)) /\ fails \in 0..MaxFails
      /\ heap \in Nat /\ ended \in Nat /\ count \in 0..MaxLines
      /\ BufferLen \in Nat \ {0}
  <2>1. Symbols \union {Eof} \subseteq Chars
    BY CharFacts
  <2>2. command \in Seq(Chars)
    BY <1>0, <2>1, LineTypeParts
  <2> QED
    BY <1>0, <2>2, LineTypeParts, BufferAssumption
<1>1. /\ at = "quoted" /\ at' = "exec" /\ word' = <<>> /\ command' = <<>>
      /\ heap' = heap - 2 /\ count' = count + 1 /\ torn' = TRUE /\ eof = FALSE
      /\ quote' = quote /\ list' = list /\ ended' = ended /\ eof' = eof
      /\ typed' = typed /\ ran' = ran /\ count < MaxLines
      /\ fails' = fails /\ lost' = lost /\ at' \in Stages
  BY <1>0, LineTypeParts DEF NewlineInQuotes, Stages
<1>2. heap = ended + 2 + 2 * Len(list)
  BY <1>1 DEF LineInv, Allocated
<1>3. LineTypeOK'
  <2>1. /\ command' \in Seq(Symbols \union {Eof}) /\ Len(command') <= BufferLen
        /\ word' \in Seq(Chars) /\ Len(word') <= BufferLen
    BY <1>t, <1>1
  <2>2. heap' \in Nat
    BY <1>t, <1>1, <1>2
  <2>3. count' \in 0..MaxLines
    BY <1>t, <1>1, BufferAssumption
  <2>4. torn' \in BOOLEAN
    BY <1>1
  <2> QED
    BY <1>0, <1>1, <2>1, <2>2, <2>3, <2>4, LineTypeParts, TypeStep
<1>4. HistoryOK'
  BY <1>0, <1>1 DEF HistoryOK
<1>5. Allocated'
  BY <1>t, <1>1, <1>2 DEF Allocated
<1> QED
  BY <1>1, <1>3, <1>4, <1>5 DEF LineInv, Fresh, WordAtEnd, OverrunOnlyByLongWord

LEMMA NewlineKeeps ==
  ASSUME LineInv, Newline
  PROVE  LineInv'
<1>0. /\ LineTypeOK /\ HistoryOK /\ \A i \in DOMAIN ran : ran[i] \in Outcomes
  BY DEF LineInv, LineTypeOK, Outcomes
<1>t. /\ quote \in Quotes
      /\ command \in Seq(Chars) /\ Len(command) \in Nat
      /\ word \in Seq(Chars) /\ Len(word) \in Nat
      /\ list \in Seq(Seq(Chars)) /\ Len(list) \in Nat
      /\ lost \in Seq(Seq(Chars)) /\ fails \in 0..MaxFails
      /\ heap \in Nat /\ ended \in Nat /\ count \in 0..MaxLines
      /\ BufferLen \in Nat \ {0}
  <2>1. Symbols \union {Eof} \subseteq Chars
    BY CharFacts
  <2>2. command \in Seq(Chars)
    BY <1>0, <2>1, LineTypeParts
  <2> QED
    BY <1>0, <2>2, LineTypeParts, BufferAssumption
<1>1. /\ at = "reading" /\ eof = FALSE /\ count' = count + 1 /\ ended' = ended + 1
      /\ eof' = eof /\ typed' = typed /\ torn' = torn /\ ran' = ran
      /\ count < MaxLines
  BY <1>0, LineTypeParts DEF Newline
<1>2. heap = ended + 1 + 2 * Len(list)
  BY <1>1 DEF LineInv, Allocated
<1>3. /\ count' \in 0..MaxLines /\ ended' \in Nat
  BY <1>t, <1>1, BufferAssumption
<1>4. CASE command = <<>> /\ at' = "exec" /\ UNCHANGED <<buffers, memory>>
  <2>1. /\ at' = "exec" /\ command' = command /\ word' = word /\ list' = list
        /\ quote' = quote /\ heap' = heap /\ fails' = fails /\ lost' = lost
        /\ at' \in Stages
    BY <1>4 DEF buffers, memory, Stages
  <2>2. LineTypeOK'
    BY <1>0, <1>1, <1>3, <2>1, LineTypeParts, TypeStep
  <2>3. HistoryOK'
    BY <1>0, <1>1 DEF HistoryOK
  <2>4. Allocated'
    BY <1>t, <1>1, <1>2, <2>1 DEF Allocated
  <2> QED
    BY <1>1, <2>1, <2>2, <2>3, <2>4 DEF LineInv, Fresh, WordAtEnd,
       OverrunOnlyByLongWord
<1>5. CASE ResetWord("exec") /\ UNCHANGED <<quote, word>>
  <2>1. /\ AddWord(command, heap, "exec") /\ command' = <<>>
        /\ quote' = quote /\ word' = word
    BY <1>5 DEF ResetWord
  <2>2. /\ list' \in Seq(Seq(Chars)) /\ lost' \in Seq(Seq(Chars))
        /\ heap' \in Nat /\ fails' \in 0..MaxFails /\ Len(list') \in Nat
        /\ at' \in {"exec", "wordless"}
        /\ at' = "exec" => heap' + 2 * Len(list) = heap + 2 * Len(list')
    BY <1>t, <2>1, AddWordParts
  <2>3. LineTypeOK'
    <3>1. /\ command' \in Seq(Symbols \union {Eof}) /\ Len(command') <= BufferLen
          /\ at' \in Stages
      BY <1>t, <2>1, <2>2 DEF Stages
    <3> QED
      BY <1>0, <1>1, <1>3, <2>1, <2>2, <3>1, LineTypeParts, TypeStep
  <2>4. HistoryOK'
    BY <1>0, <1>1 DEF HistoryOK
  <2>5. Allocated'
    BY <1>t, <1>1, <1>2, <2>1, <2>2 DEF Allocated
  <2> QED
    BY <1>1, <2>1, <2>2, <2>3, <2>4, <2>5 DEF LineInv, Fresh, WordAtEnd,
       OverrunOnlyByLongWord
<1>6. CASE Len(command) >= BufferLen /\ Overrun
  <2>1. /\ typed' \in Seq(Chars) /\ Len(typed) \in Nat /\ Len(typed') \in Nat
        /\ Len(typed') >= Len(typed) /\ (Quoting => Quoting')
        /\ \A i \in 1..Len(typed) : typed'[i] = typed[i]
    BY <1>0, <1>1 DEF HistoryOK, Quoting
  <2>2. eof' \in BOOLEAN
    BY <1>1
  <2> QED
    BY <1>1, <1>3, <1>6, <2>1, <2>2, OverrunKeeps
<1> QED
  BY <1>4, <1>5, <1>6 DEF Newline

LEMMA ExecKeeps ==
  ASSUME LineInv, Exec
  PROVE  LineInv'
<1>0. /\ LineTypeOK /\ HistoryOK /\ \A i \in DOMAIN ran : ran[i] \in Outcomes
  BY DEF LineInv, LineTypeOK, Outcomes
<1>t. /\ quote \in Quotes
      /\ command \in Seq(Chars) /\ Len(command) \in Nat
      /\ word \in Seq(Chars) /\ Len(word) \in Nat
      /\ list \in Seq(Seq(Chars)) /\ Len(list) \in Nat
      /\ lost \in Seq(Seq(Chars)) /\ fails \in 0..MaxFails
      /\ heap \in Nat /\ ended \in Nat /\ count \in 0..MaxLines
      /\ BufferLen \in Nat \ {0}
  <2>1. Symbols \union {Eof} \subseteq Chars
    BY CharFacts
  <2>2. command \in Seq(Chars)
    BY <1>0, <2>1, LineTypeParts
  <2> QED
    BY <1>0, <2>2, LineTypeParts, BufferAssumption
<1>1. /\ at = "exec" /\ eof = FALSE /\ ran' = Append(ran, Dispatch(Names))
      /\ typed' = <<>> /\ torn' = FALSE /\ command' = <<>>
      /\ quote' = quote /\ word' = word /\ ended' = ended /\ count' = count
      /\ eof' = eof /\ fails' = fails /\ lost' = <<>>
  BY <1>0, LineTypeParts DEF Exec, LineInv
<1>2. Dispatch(Names) \in Outcomes
  BY DEF Dispatch, Outcomes
<1>3. /\ ran' \in Seq(Outcomes) /\ \A i \in DOMAIN ran' : ran'[i] \in Outcomes
  <2>1. ran' \in Seq(Outcomes)
    BY <1>0, <1>1, <1>2, AppendProperties DEF HistoryOK
  <2> QED
    BY <2>1
<1>4. /\ at' \in {"off", "reading"} /\ list' \in Seq(Seq(Chars)) /\ heap' \in Nat
      /\ at' = "reading" => (list' = <<>> /\ heap' = ended' + 1)
  <2>1. CASE Dispatch(Names) = "exit"
    BY <1>t, <2>1 DEF Exec
  <2>2. CASE Dispatch(Names) # "exit"
    BY <1>t, <1>1, <2>2 DEF Exec, Freed, LineInv, Allocated
  <2> QED
    BY <2>1, <2>2
<1>5. LineTypeOK'
  <2>1. /\ command' \in Seq(Symbols \union {Eof}) /\ Len(command') <= BufferLen
        /\ at' \in Stages /\ lost' \in Seq(Seq(Chars))
    BY <1>t, <1>1, <1>4 DEF Stages
  <2>2. torn' \in BOOLEAN
    BY <1>1
  <2> QED
    BY <1>0, <1>1, <1>3, <1>4, <2>1, <2>2, LineTypeParts, TypeStep
<1>6. HistoryOK'
  BY <1>1, <1>3 DEF HistoryOK
<1>7. Allocated' /\ Fresh'
  BY <1>t, <1>1, <1>4 DEF Allocated, Fresh
<1>8. WordAtEnd' /\ OverrunOnlyByLongWord'
  BY <1>1, <1>4 DEF WordAtEnd, OverrunOnlyByLongWord
<1> QED
  BY <1>1, <1>4, <1>5, <1>6, <1>7, <1>8 DEF LineInv

LEMMA ReadCommandKeeps ==
  ASSUME LineInv, ReadCommand
  PROVE  LineInv' /\ ran' = ran
<1>1. ASSUME NEW c \in Symbols \union Quotes \union {Space, Eof}, Plain(c)
      PROVE  LineInv' /\ ran' = ran
  BY <1>1, PlainKeeps DEF Plain
<1>2. ASSUME NEW c \in Symbols \union Quotes \union {Space, Eof}, OpenQuote(c)
      PROVE  LineInv' /\ ran' = ran
  BY <1>2, OpenQuoteKeeps DEF OpenQuote
<1>3. ASSUME NEW c \in Symbols \union Quotes \union {Space, Eof}, Quoted(c)
      PROVE  LineInv' /\ ran' = ran
  BY <1>3, QuotedKeeps DEF Quoted, Chars
<1>4. ReadSpace => (LineInv' /\ ran' = ran)
  BY ReadSpaceKeeps DEF ReadSpace
<1>5. CloseQuote => (LineInv' /\ ran' = ran)
  BY CloseQuoteKeeps DEF CloseQuote
<1>6. NewlineInQuotes => (LineInv' /\ ran' = ran)
  BY NewlineInQuotesKeeps DEF NewlineInQuotes
<1>7. Newline => (LineInv' /\ ran' = ran)
  BY NewlineKeeps DEF Newline
<1> QED
  BY <1>1, <1>2, <1>3, <1>4, <1>5, <1>6, <1>7 DEF ReadCommand

LEMMA NoBufferKeeps ==
  ASSUME LineInv, NoBuffer
  PROVE  LineInv' /\ ran' = ran
<1>0. /\ LineTypeOK /\ HistoryOK /\ \A i \in DOMAIN ran : ran[i] \in Outcomes
  BY DEF LineInv, LineTypeOK, Outcomes
<1>1. /\ at' = "off" /\ command' = command /\ quote' = quote /\ word' = word
      /\ list' = list /\ heap' = heap /\ lost' = lost /\ ended' = ended
      /\ count' = count /\ eof' = eof /\ typed' = typed /\ torn' = torn
      /\ ran' = ran /\ at' \in Stages
      /\ fails < MaxFails /\ fails' = fails + 1
  BY DEF NoBuffer, buffers, Stages
<1>2. fails' \in 0..MaxFails
  BY <1>0, <1>1, LineTypeParts, BufferAssumption
<1>3. LineTypeOK'
  BY <1>0, <1>1, <1>2, LineTypeParts, TypeStep
<1> QED
  BY <1>0, <1>1, <1>3 DEF LineInv, HistoryOK, Allocated, Fresh, WordAtEnd,
                          OverrunOnlyByLongWord

LEMMA LineStutter ==
  ASSUME LineInv, UNCHANGED lineVars
  PROVE  LineInv'
BY DEF LineInv, LineTypeOK, HistoryOK, Allocated, Fresh, WordAtEnd,
       OverrunOnlyByLongWord, Quoting, LongWordTyped, lineVars, buffers,
       memory

-----------------------------------------------------------------------------
(* The steps of a session.                                                   *)

\* A new process has none of the allocations of the one before it.
LEMMA BeginKeeps ==
  ASSUME LineInv, Begin
  PROVE  LineInv' /\ ran' = ran
<1>0. /\ LineTypeOK /\ HistoryOK /\ \A i \in DOMAIN ran : ran[i] \in Outcomes
  BY DEF LineInv, LineTypeOK, Outcomes
<1>1. /\ at' = "reading" /\ command' = <<>> /\ word' = <<>> /\ list' = <<>>
      /\ heap' = 1 /\ ended' = 0 /\ eof' = FALSE /\ typed' = <<>>
      /\ torn' = FALSE /\ quote' = quote /\ count' = count /\ ran' = ran
      /\ fails' = fails /\ lost' = <<>> /\ at' \in Stages
  BY DEF Begin, Stages
<1>2. LineTypeOK'
  <2>1. /\ command' \in Seq(Symbols \union {Eof}) /\ Len(command') <= BufferLen
        /\ word' \in Seq(Chars) /\ Len(word') <= BufferLen
        /\ list' \in Seq(Seq(Chars)) /\ lost' \in Seq(Seq(Chars))
        /\ heap' \in Nat /\ ended' \in Nat
    BY <1>1, BufferAssumption
  <2>2. eof' \in BOOLEAN /\ torn' \in BOOLEAN
    BY <1>1
  <2> QED
    BY <1>0, <1>1, <2>1, <2>2, LineTypeParts, TypeStep
<1>3. HistoryOK'
  BY <1>0, <1>1 DEF HistoryOK
<1>4. Allocated' /\ Fresh' /\ WordAtEnd' /\ OverrunOnlyByLongWord'
  BY <1>1 DEF Allocated, Fresh, WordAtEnd, OverrunOnlyByLongWord
<1> QED
  BY <1>1, <1>2, <1>3, <1>4 DEF LineInv

\* put and get touch nothing that read_command has allocated.
LEMMA ExecuteKeeps ==
  ASSUME LineInv, Execute
  PROVE  LineInv' /\ ran' = ran
<1>0. /\ LineTypeOK /\ HistoryOK /\ \A i \in DOMAIN ran : ran[i] \in Outcomes
  BY DEF LineInv, LineTypeOK, Outcomes
<1>1. /\ command' = command /\ quote' = quote /\ word' = word /\ list' = list
      /\ heap' = heap /\ ended' = ended /\ count' = count /\ eof' = eof
      /\ typed' = typed /\ torn' = torn /\ ran' = ran
      /\ fails' = fails /\ lost' = lost /\ (at' = "off" \/ at' = at)
  BY DEF Execute, buffers, memory
<1>2. LineTypeOK'
  <2>1. at' \in Stages
    BY <1>0, <1>1, LineTypeParts DEF Stages
  <2> QED
    BY <1>0, <1>1, <2>1, LineTypeParts, TypeStep
<1> QED
  BY <1>1, <1>2 DEF LineInv, HistoryOK, Allocated, Fresh, WordAtEnd,
                    OverrunOnlyByLongWord, Quoting, LongWordTyped

LEMMA SessionStep ==
  ASSUME LineInv, [SessionNext]_sessionVars
  PROVE  LineInv'
BY BeginKeeps, ReadCommandKeeps, NoBufferKeeps, ExecKeeps, ExecuteKeeps, LineStutter
DEF SessionNext, Read, RunOut, Obey, sessionVars

-----------------------------------------------------------------------------
(* What becomes of the text of a line.                                       *)

\* Between words there is no quoted one, and none is left when the line is.
Emptied ==
  /\ at \in {"reading", "exec"} => word = <<>>
  /\ at = "exec" => command = <<>>
  /\ torn => at \notin {"reading", "quoted"}
\* The symbols of the line are in the list, the buffers and what is lost.
KeptIn(c, line, o, l, w, d) ==
  Occurrences(c, line) =
    Occurrences(c, FlattenSeq(o)) + Occurrences(c, FlattenSeq(l))
      + Occurrences(c, w) + Occurrences(c, d)
LostInv ==
  /\ Emptied
  /\ Len(lost) <= fails
  /\ at \in {"reading", "quoted", "exec"} /\ ~torn =>
       \A c \in Symbols : KeptIn(c, typed, lost, list, word, command)
\* So far a line without quotes is its words, each with a space, and the rest.
SplitInv ==
  /\ PlainLineIsSplit
  /\ at = "reading" /\ ~Quoting /\ lost = <<>> =>
       typed = Joined \o command /\ (command = <<>> => EndsInSpace)

LEMMA OccurrencesAppend ==
  ASSUME NEW S, NEW s \in Seq(S), NEW x \in S, NEW c
  PROVE  /\ Append(s, x) \in Seq(S)
         /\ Occurrences(c, Append(s, x)) = Occurrences(c, s) + (IF x = c THEN 1 ELSE 0)
<1>1. <<x>> \in Seq(S) /\ Append(s, x) = s \o <<x>> /\ Append(s, x) \in Seq(S)
  BY AppendIsConcat, AppendProperties
<1>2. Occurrences(c, <<x>>) = IF x = c THEN 1 ELSE 0
  <2>1. {i \in DOMAIN <<x>> : <<x>>[i] = c} = IF x = c THEN {1} ELSE {}
    OBVIOUS
  <2>2. Cardinality({1}) = 1 /\ Cardinality({}) = 0
    BY FS_EmptySet, FS_Singleton
  <2> QED
    BY <2>1, <2>2 DEF Occurrences
<1>3. Occurrences(c, s \o <<x>>) = Occurrences(c, s) + Occurrences(c, <<x>>)
  BY <1>1, OccurrencesJoin
<1> QED
  BY <1>1, <1>2, <1>3

\* The words of a line as their texts: how often c is in each of the buffers.
LEMMA BufferSum ==
  ASSUME NEW o \in Seq(Seq(Chars)), NEW l \in Seq(Seq(Chars)),
         NEW w \in Seq(Chars), NEW d \in Seq(Chars), NEW c
  PROVE  /\ Occurrences(c, FlattenSeq(o) \o FlattenSeq(l) \o w \o d) =
              Occurrences(c, FlattenSeq(o)) + Occurrences(c, FlattenSeq(l))
                + Occurrences(c, w) + Occurrences(c, d)
         /\ Occurrences(c, FlattenSeq(o)) \in Nat
         /\ Occurrences(c, FlattenSeq(l)) \in Nat
         /\ Occurrences(c, w) \in Nat /\ Occurrences(c, d) \in Nat
         /\ Occurrences(c, FlattenSeq(Append(l, w))) =
              Occurrences(c, FlattenSeq(l)) + Occurrences(c, w)
<1>1. /\ FlattenSeq(o) \in Seq(Chars) /\ FlattenSeq(l) \in Seq(Chars)
      /\ FlattenSeq(Append(l, w)) = FlattenSeq(l) \o w
  BY FlattenType, FlattenAppend
<1>2. /\ FlattenSeq(o) \o FlattenSeq(l) \in Seq(Chars)
      /\ FlattenSeq(o) \o FlattenSeq(l) \o w \in Seq(Chars)
  BY <1>1, ConcatProperties
<1>3. /\ Occurrences(c, FlattenSeq(l) \o w) =
           Occurrences(c, FlattenSeq(l)) + Occurrences(c, w)
      /\ Occurrences(c, FlattenSeq(l)) \in Nat /\ Occurrences(c, w) \in Nat
  BY <1>1, OccurrencesJoin
<1>4. /\ Occurrences(c, FlattenSeq(o) \o FlattenSeq(l)) =
           Occurrences(c, FlattenSeq(o)) + Occurrences(c, FlattenSeq(l))
      /\ Occurrences(c, FlattenSeq(o)) \in Nat
  BY <1>1, OccurrencesJoin
<1>5. Occurrences(c, FlattenSeq(o) \o FlattenSeq(l) \o w) =
        Occurrences(c, FlattenSeq(o) \o FlattenSeq(l)) + Occurrences(c, w)
  BY <1>1, <1>2, OccurrencesJoin
<1>6. /\ Occurrences(c, FlattenSeq(o) \o FlattenSeq(l) \o w \o d) =
           Occurrences(c, FlattenSeq(o) \o FlattenSeq(l) \o w) + Occurrences(c, d)
      /\ Occurrences(c, d) \in Nat
  BY <1>2, OccurrencesJoin
<1> QED
  BY <1>1, <1>3, <1>4, <1>5, <1>6

\* add_word moves the text of the word to the list or loses it.
LEMMA AddWordText ==
  ASSUME LineInv, LostInv, NEW w \in Seq(Chars), NEW h \in Nat, NEW next,
         AddWord(w, h, next), NEW c
  PROVE  /\ Occurrences(c, FlattenSeq(lost')) + Occurrences(c, FlattenSeq(list')) =
              Occurrences(c, FlattenSeq(lost)) + Occurrences(c, FlattenSeq(list))
                + Occurrences(c, w)
         /\ Occurrences(c, FlattenSeq(lost')) \in Nat
         /\ Occurrences(c, FlattenSeq(list')) \in Nat
         /\ Len(lost') <= fails'
<1>1. /\ list \in Seq(Seq(Chars)) /\ lost \in Seq(Seq(Chars)) /\ fails \in 0..MaxFails
      /\ <<>> \in Seq(Chars) /\ Len(lost) \in Nat /\ Len(lost) <= fails
      /\ MaxFails \in Nat
  BY LineTypeParts, BufferAssumption DEF LineInv, LostInv
<1>2. /\ Occurrences(c, FlattenSeq(Append(list, w))) =
           Occurrences(c, FlattenSeq(list)) + Occurrences(c, w)
      /\ Occurrences(c, FlattenSeq(Append(lost, w))) =
           Occurrences(c, FlattenSeq(lost)) + Occurrences(c, w)
      /\ Occurrences(c, FlattenSeq(list)) \in Nat
      /\ Occurrences(c, FlattenSeq(lost)) \in Nat /\ Occurrences(c, w) \in Nat
  BY <1>1, BufferSum
<1>3. \/ list' = Append(list, w) /\ lost' = lost /\ fails' = fails
      \/ /\ list' = list /\ lost' = Append(lost, w)
         /\ Len(lost') = Len(lost) + 1 /\ fails' = fails + 1
  BY <1>1, AddWordParts
<1>4. CASE list' = Append(list, w) /\ lost' = lost /\ fails' = fails
  BY <1>1, <1>2, <1>4
<1>5. CASE /\ list' = list /\ lost' = Append(lost, w)
           /\ Len(lost') = Len(lost) + 1 /\ fails' = fails + 1
  BY <1>1, <1>2, <1>5
<1> QED
  BY <1>3, <1>4, <1>5

LEMMA LineParts ==
  ASSUME LineInv
  PROVE  /\ list \in Seq(Seq(Chars)) /\ word \in Seq(Chars) /\ command \in Seq(Chars)
         /\ typed \in Seq(Chars) /\ quote \in Quotes
         /\ lost \in Seq(Seq(Chars)) /\ fails \in Nat
         /\ heap \in Nat /\ (at = "quoted" => heap - 1 \in Nat)
         /\ \A i \in 1..Len(command) : command[i] \in Symbols \union {Eof}
<1>1. LineTypeOK /\ HistoryOK
  BY DEF LineInv
<1>2. command \in Seq(Symbols \union {Eof}) /\ Len(command) \in Nat
  BY <1>1, LineTypeParts, LenProperties
<1>3. \A i \in 1..Len(command) : command[i] \in Symbols \union {Eof}
  BY <1>2, ElementOfSeq
<1>4. command \in Seq(Chars)
  <2>1. command = [i \in 1..Len(command) |-> command[i]]
    BY <1>2, LenProperties
  <2>2. \A i \in 1..Len(command) : command[i] \in Chars
    BY <1>3, CharFacts
  <2> QED
    BY <1>2, <2>1, <2>2
<1>5. fails \in Nat /\ heap \in Nat /\ ended \in Nat /\ list \in Seq(Seq(Chars))
  BY <1>1, LineTypeParts
<1>6. at = "quoted" => heap - 1 \in Nat
  <2>1. Len(list) \in Nat
    BY <1>5
  <2>2. at = "quoted" => heap = ended + 2 + 2 * Len(list)
    BY DEF LineInv, Allocated
  <2> QED
    BY <1>5, <2>1, <2>2
<1> QED
  BY <1>1, <1>3, <1>4, <1>5, <1>6, LineTypeParts DEF HistoryOK

\* A character that is no symbol, or goes to a buffer, is accounted for.
LEMMA LostRead ==
  ASSUME LineInv, LostInv, ReadCommand
  PROVE  LostInv'
<1>0. /\ list \in Seq(Seq(Chars)) /\ word \in Seq(Chars) /\ command \in Seq(Chars)
      /\ typed \in Seq(Chars) /\ quote \in Quotes
      /\ lost \in Seq(Seq(Chars)) /\ heap \in Nat /\ (at = "quoted" => heap - 1 \in Nat)
      /\ Symbols \cap (Quotes \union {Space, Eof}) = {}
  BY LineParts, BufferAssumption
<1>1. ASSUME at \in {"reading", "quoted"}
      PROVE  ~torn /\ \A c \in Symbols : KeptIn(c, typed, lost, list, word, command)
  BY <1>1 DEF LostInv, Emptied
<1>2. ASSUME NEW x \in Chars, Getchar(x), NEW c
      PROVE  Occurrences(c, typed') = Occurrences(c, typed) + (IF x = c THEN 1 ELSE 0)
  BY <1>0, <1>2, OccurrencesAppend DEF Getchar
<1>3. \A c : /\ Occurrences(c, typed) \in Nat /\ Occurrences(c, FlattenSeq(list)) \in Nat
             /\ Occurrences(c, FlattenSeq(lost)) \in Nat
             /\ Occurrences(c, word) \in Nat /\ Occurrences(c, command) \in Nat
             /\ Occurrences(c, <<>>) = 0
  BY <1>0, BufferSum, OccurrencesJoin
<1>4. ASSUME Overrun, torn' = torn PROVE LostInv'
  <2>1. at' = "undefined" /\ fails' = fails /\ lost' = lost
    BY <1>4 DEF Overrun, memory
  <2> QED
    BY <2>1 DEF LostInv, Emptied
<1>5. ASSUME NEW x \in Chars, Plain(x) PROVE LostInv'
  <2>1. CASE Len(command) < BufferLen
    <3>1. /\ command' = Append(command, x) /\ at' = at /\ at = "reading" /\ torn' = torn
          /\ word' = word /\ list' = list /\ fails' = fails /\ lost' = lost
          /\ Getchar(x)
      BY <1>5, <2>1 DEF Plain, memory
    <3>2. ASSUME NEW c \in Symbols PROVE KeptIn(c, typed', lost', list', word', command')
      <4>1. KeptIn(c, typed, lost, list, word, command)
        BY <1>1, <3>1
      <4>2. Occurrences(c, command') = Occurrences(c, command) + (IF x = c THEN 1 ELSE 0)
        BY <1>0, <3>1, OccurrencesAppend
      <4>3. Occurrences(c, typed') = Occurrences(c, typed) + (IF x = c THEN 1 ELSE 0)
        BY <1>2, <3>1
      <4> QED
        BY <1>3, <3>1, <4>1, <4>2, <4>3 DEF KeptIn
    <3> QED
      BY <1>1, <3>1, <3>2 DEF LostInv, Emptied
  <2>2. CASE ~(Len(command) < BufferLen)
    BY <1>4, <1>5, <2>2 DEF Plain
  <2> QED
    BY <2>1, <2>2
<1>6. ASSUME ReadSpace PROVE LostInv'
  <2>1. CASE Len(command) < BufferLen
    <3>1. /\ AddWord(command, heap, "reading") /\ command' = <<>>
          /\ at = "reading" /\ torn' = torn /\ word' = word /\ Getchar(Space)
      BY <1>6, <2>1 DEF ReadSpace, ResetWord
    <3>a. at' \in {"reading", "wordless"} /\ Len(lost') <= fails'
      BY <1>0, <3>1, AddWordText DEF AddWord
    <3>2. ASSUME NEW c \in Symbols PROVE KeptIn(c, typed', lost', list', word', command')
      <4>1. KeptIn(c, typed, lost, list, word, command)
        BY <1>1, <3>1
      <4>2. /\ Occurrences(c, FlattenSeq(lost')) + Occurrences(c, FlattenSeq(list')) =
                 Occurrences(c, FlattenSeq(lost)) + Occurrences(c, FlattenSeq(list))
                   + Occurrences(c, command)
            /\ Occurrences(c, FlattenSeq(lost')) \in Nat
            /\ Occurrences(c, FlattenSeq(list')) \in Nat
        BY <1>0, <3>1, AddWordText
      <4>3. Occurrences(c, typed') = Occurrences(c, typed)
        BY <1>0, <1>2, <1>3, <3>1, CharFacts
      <4> QED
        BY <1>3, <3>1, <4>1, <4>2, <4>3 DEF KeptIn
    <3> QED
      BY <1>1, <3>1, <3>a, <3>2 DEF LostInv, Emptied
  <2>2. CASE ~(Len(command) < BufferLen)
    BY <1>4, <1>6, <2>2 DEF ReadSpace
  <2> QED
    BY <2>1, <2>2
<1>7. ASSUME NEW x \in Chars, OpenQuote(x) PROVE LostInv'
  <2>1. /\ list' = list /\ command' = command /\ at' = "quoted" /\ word' = <<>>
        /\ at = "reading" /\ torn' = torn /\ x \in Quotes /\ Getchar(x)
        /\ fails' = fails /\ lost' = lost
    BY <1>7 DEF OpenQuote
  <2>2. word = <<>>
    BY <2>1 DEF LostInv, Emptied
  <2>3. ASSUME NEW c \in Symbols PROVE KeptIn(c, typed', lost', list', word', command')
    <3>1. KeptIn(c, typed, lost, list, word, command)
      BY <1>1, <2>1
    <3>2. Occurrences(c, typed') = Occurrences(c, typed)
      <4>1. x # c
        BY <1>0, <2>1
      <4> QED
        BY <1>2, <1>3, <2>1, <4>1
    <3> QED
      BY <2>1, <2>2, <3>1, <3>2 DEF KeptIn
  <2> QED
    BY <1>1, <2>1, <2>3 DEF LostInv, Emptied
<1>8. ASSUME NEW x \in Chars, Quoted(x) PROVE LostInv'
  <2>1. CASE Len(word) < BufferLen
    <3>1. /\ word' = Append(word, x) /\ at' = at /\ at = "quoted" /\ torn' = torn
          /\ command' = command /\ list' = list /\ fails' = fails /\ lost' = lost
          /\ Getchar(x)
      BY <1>8, <2>1 DEF Quoted, memory
    <3>2. ASSUME NEW c \in Symbols PROVE KeptIn(c, typed', lost', list', word', command')
      <4>1. KeptIn(c, typed, lost, list, word, command)
        BY <1>1, <3>1
      <4>2. Occurrences(c, word') = Occurrences(c, word) + (IF x = c THEN 1 ELSE 0)
        BY <1>0, <3>1, OccurrencesAppend
      <4>3. Occurrences(c, typed') = Occurrences(c, typed) + (IF x = c THEN 1 ELSE 0)
        BY <1>2, <3>1
      <4> QED
        BY <1>3, <3>1, <4>1, <4>2, <4>3 DEF KeptIn
    <3> QED
      BY <1>1, <3>1, <3>2 DEF LostInv, Emptied
  <2>2. CASE ~(Len(word) < BufferLen)
    BY <1>4, <1>8, <2>2 DEF Quoted
  <2> QED
    BY <2>1, <2>2
<1>9. ASSUME CloseQuote PROVE LostInv'
  <2>1. CASE Len(word) < BufferLen
    <3>1. /\ AddWord(word, heap - 1, "reading") /\ word' = <<>>
          /\ at = "quoted" /\ torn' = torn /\ command' = command /\ Getchar(quote)
      BY <1>9, <2>1 DEF CloseQuote
    <3>a. at' \in {"reading", "wordless"} /\ Len(lost') <= fails'
      BY <1>0, <3>1, AddWordText DEF AddWord
    <3>2. ASSUME NEW c \in Symbols PROVE KeptIn(c, typed', lost', list', word', command')
      <4>1. KeptIn(c, typed, lost, list, word, command)
        BY <1>1, <3>1
      <4>2. /\ Occurrences(c, FlattenSeq(lost')) + Occurrences(c, FlattenSeq(list')) =
                 Occurrences(c, FlattenSeq(lost)) + Occurrences(c, FlattenSeq(list))
                   + Occurrences(c, word)
            /\ Occurrences(c, FlattenSeq(lost')) \in Nat
            /\ Occurrences(c, FlattenSeq(list')) \in Nat
        BY <1>0, <3>1, AddWordText
      <4>3. Occurrences(c, typed') = Occurrences(c, typed)
        <5>1. quote \in Chars /\ quote # c
          BY <1>0, CharFacts
        <5> QED
          BY <1>2, <1>3, <3>1, <5>1
      <4> QED
        BY <1>3, <3>1, <4>1, <4>2, <4>3 DEF KeptIn
    <3> QED
      BY <1>1, <3>1, <3>a, <3>2 DEF LostInv, Emptied
  <2>2. CASE ~(Len(word) < BufferLen)
    BY <1>4, <1>9, <2>2 DEF CloseQuote
  <2> QED
    BY <2>1, <2>2
<1>10. ASSUME NewlineInQuotes PROVE LostInv'
  BY <1>10 DEF NewlineInQuotes, LostInv, Emptied
<1>11. ASSUME Newline PROVE LostInv'
  <2>0. at = "reading" /\ word = <<>> /\ torn' = torn /\ typed' = typed
    BY <1>11 DEF Newline, LostInv, Emptied
  <2>1. CASE command = <<>> /\ at' = "exec" /\ UNCHANGED <<buffers, memory>>
    BY <1>1, <2>0, <2>1 DEF buffers, memory, LostInv, Emptied
  <2>2. CASE ResetWord("exec") /\ UNCHANGED <<quote, word>>
    <3>1. AddWord(command, heap, "exec") /\ command' = <<>> /\ word' = word
      BY <2>2 DEF ResetWord
    <3>a. at' \in {"exec", "wordless"} /\ Len(lost') <= fails'
      BY <1>0, <3>1, AddWordText DEF AddWord
    <3>2. ASSUME NEW c \in Symbols PROVE KeptIn(c, typed', lost', list', word', command')
      <4>1. KeptIn(c, typed, lost, list, word, command)
        BY <1>1, <2>0
      <4>2. /\ Occurrences(c, FlattenSeq(lost')) + Occurrences(c, FlattenSeq(list')) =
                 Occurrences(c, FlattenSeq(lost)) + Occurrences(c, FlattenSeq(list))
                   + Occurrences(c, command)
            /\ Occurrences(c, FlattenSeq(lost')) \in Nat
            /\ Occurrences(c, FlattenSeq(list')) \in Nat
        BY <1>0, <3>1, AddWordText
      <4> QED
        BY <1>3, <2>0, <3>1, <4>1, <4>2 DEF KeptIn
    <3> QED
      BY <1>1, <2>0, <3>1, <3>a, <3>2 DEF LostInv, Emptied
  <2>3. CASE Overrun
    BY <1>4, <2>0, <2>3
  <2> QED
    BY <1>11, <2>1, <2>2, <2>3 DEF Newline
<1> QED
  BY <1>5, <1>6, <1>7, <1>8, <1>9, <1>10, <1>11 DEF ReadCommand, Chars

LEMMA LostStep == LineInv /\ LostInv /\ [SessionNext]_sessionVars => LostInv'
<1> SUFFICES ASSUME LineInv, LostInv, [SessionNext]_sessionVars PROVE LostInv'
  OBVIOUS
<1>2. \A c : KeptIn(c, <<>>, <<>>, <<>>, <<>>, <<>>)
  BY PlacesInNone DEF KeptIn, Occurrences, PlacesIn, FlattenSeq
<1>f. fails \in Nat /\ Len(<<>>) = 0
  BY LineParts
<1>3. CASE Begin
  <2>1. /\ fails' = fails /\ lost' = <<>> /\ list' = <<>> /\ word' = <<>>
        /\ command' = <<>> /\ typed' = <<>> /\ torn' = FALSE /\ at' = "reading"
    BY <1>3 DEF Begin
  <2> QED
    BY <1>2, <1>f, <2>1 DEF LostInv, Emptied
<1>8. CASE RunOut
  BY <1>8, <1>f DEF RunOut, NoBuffer, LostInv, Emptied
<1>4. CASE Read
  BY <1>4, LostRead DEF Read
<1>5. CASE Obey
  <2>1. /\ typed' = <<>> /\ torn' = FALSE /\ command' = <<>> /\ word' = word /\ word = <<>>
        /\ at' = "off" \/ (at' = "reading" /\ list' = <<>>)
        /\ fails' = fails /\ lost' = <<>>
    BY <1>5 DEF Obey, Exec, LostInv, Emptied
  <2> QED
    BY <1>2, <1>f, <2>1 DEF LostInv, Emptied
<1>6. CASE Execute
  BY <1>6 DEF Execute, buffers, memory, LostInv, Emptied
<1>7. CASE UNCHANGED sessionVars
  BY <1>7 DEF sessionVars, lineVars, buffers, memory, LostInv, Emptied
<1> QED
  BY <1>3, <1>4, <1>5, <1>6, <1>7, <1>8 DEF SessionNext

-----------------------------------------------------------------------------
(* A line without quotes.                                                    *)

\* The words of a list, each with a space behind it.
Spaced(l) == [i \in DOMAIN l |-> Append(l[i], Space)]
LEMMA JoinedParts ==
  ASSUME NEW l \in Seq(Seq(Chars)), NEW w \in Seq(Chars)
  PROVE  /\ FlattenSeq(Spaced(l)) \in Seq(Chars)
         /\ FlattenSeq(Spaced(Append(l, w))) = FlattenSeq(Spaced(l)) \o Append(w, Space)
         /\ FlattenSeq(Spaced(<<>>)) = <<>>
<1>0. Space \in Chars
  BY CharFacts
<1>1. /\ Len(l) \in Nat /\ DOMAIN l = 1..Len(l) /\ \A i \in 1..Len(l) : l[i] \in Seq(Chars)
      /\ Append(w, Space) \in Seq(Chars)
  BY <1>0, LenProperties, ElementOfSeq, AppendProperties
<1>2. \A i \in 1..Len(l) : Append(l[i], Space) \in Seq(Chars)
  BY <1>0, <1>1, AppendProperties
<1>3. /\ Spaced(l) \in Seq(Seq(Chars)) /\ Len(Spaced(l)) = Len(l)
      /\ \A i \in 1..Len(l) : Spaced(l)[i] = Append(l[i], Space)
  BY <1>1, <1>2 DEF Spaced
<1>4. Spaced(Append(l, w)) = Append(Spaced(l), Append(w, Space))
  <2> DEFINE t == Append(l, w)  u == Append(Spaced(l), Append(w, Space))
  <2>1. /\ t \in Seq(Seq(Chars)) /\ Len(t) = Len(l) + 1 /\ t[Len(l) + 1] = w
        /\ \A i \in 1..Len(l) : t[i] = l[i]
    BY AppendProperties
  <2>2. /\ u \in Seq(Seq(Chars)) /\ Len(u) = Len(l) + 1
        /\ u[Len(l) + 1] = Append(w, Space)
        /\ \A i \in 1..Len(l) : u[i] = Append(l[i], Space)
    BY <1>1, <1>3, AppendProperties
  <2> HIDE DEF t, u
  <2>3. DOMAIN t = 1..Len(l) + 1 /\ DOMAIN u = 1..Len(l) + 1
    BY <2>1, <2>2, LenProperties
  <2>4. \A i \in 1..Len(l) + 1 : i \in 1..Len(l) \/ i = Len(l) + 1
    BY <1>1
  <2>5. \A i \in 1..Len(l) + 1 : Append(t[i], Space) = u[i]
    BY <2>1, <2>2, <2>4
  <2>6. u = [i \in 1..Len(l) + 1 |-> u[i]]
    BY <2>2, <2>3, LenProperties
  <2>7. Spaced(t) = u
    BY <2>3, <2>5, <2>6 DEF Spaced
  <2> QED
    BY <2>7 DEF t, u
<1>5. Spaced(<<>>) = <<>>
  BY DEF Spaced
<1>6. FlattenSeq(Spaced(l)) \in Seq(Chars)
  BY <1>3, FlattenType
<1>7. FlattenSeq(Append(Spaced(l), Append(w, Space))) =
        FlattenSeq(Spaced(l)) \o Append(w, Space)
  BY <1>1, <1>3, FlattenAppend
<1>8. FlattenSeq(<<>>) = <<>>
  BY DEF FlattenSeq
<1> QED
  BY <1>4, <1>5, <1>6, <1>7, <1>8

LEMMA LastOfAppend ==
  ASSUME NEW S, NEW s \in Seq(S), NEW x \in S
  PROVE  Append(s, x) # <<>> /\ Last(Append(s, x)) = x
BY AppendProperties, EmptySeq DEF Last

LEMMA JoinedIs ==
  ASSUME LineInv
  PROVE  Joined = FlattenSeq(Spaced(list)) /\ Joined \in Seq(Chars)
<1>1. Joined = FlattenSeq(Spaced(list))
  BY DEF Joined, Spaced
<1> QED
  BY <1>1, LineParts, JoinedParts

LEMMA SplitRead ==
  ASSUME LineInv, SplitInv, ReadCommand
  PROVE  SplitInv'
<1>0. /\ list \in Seq(Seq(Chars)) /\ command \in Seq(Chars) /\ typed \in Seq(Chars)
      /\ Joined \in Seq(Chars) /\ Joined = FlattenSeq(Spaced(list)) /\ HistoryOK
      /\ lost \in Seq(Seq(Chars)) /\ heap \in Nat /\ (at = "quoted" => heap - 1 \in Nat)
      /\ fails \in 0..MaxFails
      /\ Space \in Chars /\ Space \notin Symbols /\ Space # Eof
  BY LineParts, JoinedIs, CharFacts DEF LineInv, LineTypeOK
<1>1. Joined' = FlattenSeq(Spaced(list'))
  BY DEF Joined, Spaced
<1>2. ASSUME NEW x \in Chars, Getchar(x)
      PROVE  /\ typed' = Append(typed, x) /\ Last(typed') = x /\ typed' # <<>>
             /\ ~Quoting' => ~Quoting
             /\ x \in Quotes => Quoting'
  BY <1>0, <1>2, GetcharAdds, LastOfAppend DEF Getchar
<1>3. ASSUME at' \in {"quoted", "undefined", "wordless"} PROVE SplitInv'
  BY <1>3 DEF SplitInv, PlainLineIsSplit
<1>4. ASSUME NEW x \in Chars, Plain(x) PROVE SplitInv'
  <2>1. CASE Len(command) < BufferLen
    <3>1. /\ command' = Append(command, x) /\ at' = "reading" /\ at = "reading"
          /\ list' = list /\ lost' = lost /\ Getchar(x)
      BY <1>4, <2>1 DEF Plain, memory
    <3>2. command' # <<>>
      BY <1>0, <3>1, LastOfAppend
    <3>3. ASSUME ~Quoting', lost' = <<>> PROVE typed' = Joined' \o command'
      <4>1. typed = Joined \o command /\ Joined' = Joined
        BY <1>0, <1>1, <1>2, <3>1, <3>3 DEF SplitInv
      <4>2. <<x>> \in Seq(Chars)
        OBVIOUS
      <4>3. Append(command, x) = command \o <<x>>
        BY <1>0, AppendIsConcat
      <4>4. Append(typed, x) = typed \o <<x>>
        BY <1>0, AppendIsConcat
      <4>5. (Joined \o command) \o <<x>> = Joined \o (command \o <<x>>)
        BY <1>0, <4>2, ConcatAssociative
      <4> QED
        BY <1>2, <3>1, <4>1, <4>3, <4>4, <4>5
    <3> QED
      BY <3>1, <3>2, <3>3 DEF SplitInv, PlainLineIsSplit
  <2>2. CASE ~(Len(command) < BufferLen)
    BY <1>3, <1>4, <2>2 DEF Plain, Overrun
  <2> QED
    BY <2>1, <2>2
<1>5. ASSUME ReadSpace PROVE SplitInv'
  <2>1. CASE Len(command) < BufferLen
    <3>1. /\ command' = <<>> /\ at = "reading" /\ Getchar(Space)
          /\ AddWord(command, heap, "reading")
      BY <1>5, <2>1 DEF ReadSpace, ResetWord
    <3>a. /\ at' \in {"reading", "wordless"}
          /\ lost' = <<>> => (list' = Append(list, command) /\ lost = <<>>)
      BY <1>0, <3>1, AddWordParts
    <3>2. EndsInSpace'
      BY <1>0, <1>2, <3>1 DEF EndsInSpace
    <3>3. ASSUME ~Quoting', lost' = <<>> PROVE typed' = Joined' \o command'
      <4>1. typed = Joined \o command /\ Joined' = Joined \o Append(command, Space)
        BY <1>0, <1>1, <1>2, <3>1, <3>a, <3>3, JoinedParts DEF SplitInv
      <4>2. <<Space>> \in Seq(Chars) /\ Append(command, Space) \in Seq(Chars)
        BY <1>0, AppendProperties
      <4>3. Append(command, Space) = command \o <<Space>>
        BY <1>0, AppendIsConcat
      <4>4. Append(typed, Space) = typed \o <<Space>>
        BY <1>0, AppendIsConcat
      <4>5. (Joined \o command) \o <<Space>> = Joined \o (command \o <<Space>>)
        BY <1>0, <4>2, ConcatAssociative
      <4>6. typed' = Joined' /\ Joined' \in Seq(Chars)
        <5>1. Joined' = Joined \o Append(command, Space)
          BY <4>1
        <5>2. typed' = Joined'
          BY <1>2, <1>0, <3>1, <4>1, <4>3, <4>4, <4>5, <5>1
        <5>3. Joined \o Append(command, Space) \in Seq(Chars)
          BY <1>0, <4>2, ConcatProperties
        <5> QED
          BY <5>1, <5>2, <5>3
      <4> QED
        BY <3>1, <4>6, ConcatEmptySeq
    <3> QED
      BY <3>1, <3>a, <3>2, <3>3 DEF SplitInv, PlainLineIsSplit
  <2>2. CASE ~(Len(command) < BufferLen)
    BY <1>3, <1>5, <2>2 DEF ReadSpace, Overrun
  <2> QED
    BY <2>1, <2>2
<1>6. ASSUME NEW x \in Chars, OpenQuote(x) PROVE SplitInv'
  BY <1>3, <1>6 DEF OpenQuote
<1>7. ASSUME NEW x \in Chars, Quoted(x) PROVE SplitInv'
  BY <1>3, <1>7 DEF Quoted, Overrun
<1>8. ASSUME CloseQuote PROVE SplitInv'
  <2>1. Getchar(quote) /\ quote \in Quotes /\ quote \in Chars
    BY <1>8, LineParts, CharFacts DEF CloseQuote
  <2>2. Quoting'
    BY <1>2, <2>1
  <2>3. at' \in {"reading", "undefined", "wordless"}
    BY <1>8 DEF CloseQuote, Overrun, AddWord
  <2> QED
    BY <2>2, <2>3 DEF SplitInv, PlainLineIsSplit
<1>9. ASSUME NewlineInQuotes PROVE SplitInv'
  <2>1. Quoting' /\ at' = "exec"
    BY <1>9 DEF NewlineInQuotes, LineInv, WordAtEnd, Quoting
  <2> QED
    BY <2>1 DEF SplitInv, PlainLineIsSplit
<1>10. ASSUME Newline PROVE SplitInv'
  <2>0. at = "reading" /\ typed' = typed /\ (Quoting' <=> Quoting) /\ (EndsInSpace' <=> EndsInSpace)
    BY <1>10 DEF Newline, Quoting, EndsInSpace
  <2>1. CASE command = <<>> /\ at' = "exec" /\ UNCHANGED <<buffers, memory>>
    <3>1. list' = list /\ lost' = lost
      BY <2>1 DEF buffers, memory
    <3>2. ~Quoting /\ lost = <<>> => typed = Joined \o <<>> /\ EndsInSpace
      BY <2>0, <2>1 DEF SplitInv
    <3>3. ~Quoting /\ lost = <<>> => typed = Joined
      BY <1>0, <3>2, ConcatEmptySeq
    <3> QED
      BY <1>0, <1>1, <2>0, <2>1, <3>1, <3>2, <3>3 DEF SplitInv, PlainLineIsSplit
  <2>2. CASE command # <<>> /\ ResetWord("exec") /\ UNCHANGED <<quote, word>>
    <3>0. AddWord(command, heap, "exec")
      BY <2>2 DEF ResetWord
    <3>1. /\ at' \in {"exec", "wordless"}
          /\ lost' = <<>> => (list' = Append(list, command) /\ lost = <<>>)
      BY <1>0, <3>0, AddWordParts
    <3>2. ASSUME ~Quoting, lost' = <<>>
          PROVE  Joined' = Append(typed, Space) /\ ~EndsInSpace
      <4>1. typed = Joined \o command /\ Joined' = Joined \o Append(command, Space)
        BY <1>0, <1>1, <2>0, <3>1, <3>2, JoinedParts DEF SplitInv
      <4>2. /\ <<Space>> \in Seq(Chars) /\ Append(typed, Space) = typed \o <<Space>>
            /\ Append(command, Space) = command \o <<Space>>
        BY <1>0, AppendIsConcat
      <4>3. Joined' = Append(typed, Space)
        BY <1>0, <4>1, <4>2, ConcatAssociative
      <4>4. /\ Len(typed) = Len(Joined) + Len(command) /\ Len(command) \in Nat
            /\ Len(Joined) \in Nat /\ Len(command) >= 1
            /\ \A i \in 1..Len(typed) :
                 typed[i] = IF i <= Len(Joined) THEN Joined[i] ELSE command[i - Len(Joined)]
        BY <1>0, <2>2, <4>1, ConcatProperties, LenProperties, EmptySeq
      <4>5. Last(typed) = command[Len(command)] /\ typed # <<>>
        <5>1. Len(typed) \in 1..Len(typed) /\ ~(Len(typed) <= Len(Joined))
              /\ Len(typed) - Len(Joined) = Len(command)
          BY <4>4
        <5> QED
          BY <4>4, <5>1, EmptySeq DEF Last
      <4>6. command[Len(command)] # Space
        BY <1>0, <4>4, LineParts
      <4> QED
        BY <4>3, <4>5, <4>6 DEF EndsInSpace
    <3> QED
      BY <2>0, <3>1, <3>2 DEF SplitInv, PlainLineIsSplit
  <2>3. CASE Overrun
    BY <1>3, <2>3 DEF Overrun
  <2> QED
    BY <1>10, <2>1, <2>2, <2>3 DEF Newline
<1> QED
  BY <1>4, <1>5, <1>6, <1>7, <1>8, <1>9, <1>10 DEF ReadCommand, Chars

LEMMA SplitStep == LineInv /\ SplitInv /\ [SessionNext]_sessionVars => SplitInv'
<1> SUFFICES ASSUME LineInv, SplitInv, [SessionNext]_sessionVars PROVE SplitInv'
  OBVIOUS
<1>1. FlattenSeq(Spaced(<<>>)) = <<>> /\ <<>> \o <<>> = <<>>
  <2>1. <<>> \in Seq(Chars) /\ <<>> \in Seq(Seq(Chars))
    OBVIOUS
  <2> QED
    BY <2>1, JoinedParts, ConcatEmptySeq
<1>2. ASSUME at' = "reading", list' = <<>>, command' = <<>>, typed' = <<>>
      PROVE  SplitInv'
  <2>1. Joined' = FlattenSeq(Spaced(list'))
    BY DEF Joined, Spaced
  <2>2. Joined' = <<>>
    BY <1>1, <1>2, <2>1
  <2> QED
    BY <1>1, <1>2, <2>2 DEF SplitInv, PlainLineIsSplit, EndsInSpace
<1>3. ASSUME at' = "off" PROVE SplitInv'
  BY <1>3 DEF SplitInv, PlainLineIsSplit
<1>4. ASSUME at' = at, list' = list, command' = command, typed' = typed,
             lost' = lost
      PROVE  SplitInv'
  <2>1. /\ Joined' = Joined /\ (Quoting' <=> Quoting)
        /\ (EndsInSpace' <=> EndsInSpace)
    BY <1>4 DEF Joined, Quoting, EndsInSpace
  <2> QED
    BY <1>4, <2>1 DEF SplitInv, PlainLineIsSplit
<1>5. CASE Begin
  BY <1>2, <1>5 DEF Begin
<1>6. CASE Read
  BY <1>6, SplitRead DEF Read
<1>7. CASE Obey
  BY <1>2, <1>3, <1>7 DEF Obey, Exec
<1>8. CASE Execute
  BY <1>3, <1>4, <1>8 DEF Execute, buffers, memory
<1>9. CASE UNCHANGED sessionVars
  BY <1>4, <1>9 DEF sessionVars, lineVars, buffers, memory
<1>10. CASE RunOut
  BY <1>3, <1>10 DEF RunOut, NoBuffer
<1> QED
  BY <1>5, <1>6, <1>7, <1>8, <1>9, <1>10 DEF SessionNext

-----------------------------------------------------------------------------
(* Theorems.                                                                 *)

(* The inductive invariant of a shell that reads lines: the words fit in     *)
(* their buffers, every allocation is accounted for, and the word that is    *)
(* being read is the end of the line (commands_parser.c:19-45, 107-137).     *)
THEOREM LineInvCorrect == LineSpec => []LineInv
<1>1. LineInv /\ [LineNext]_lineVars => LineInv'
  BY ReadCommandKeeps, NoBufferKeeps, ExecKeeps, LineStutter DEF LineNext
<1> QED
  BY LineInitInv, <1>1, PTL DEF LineSpec

(* It holds through sessions, whatever put and get do between the lines and  *)
(* however often the shell is started anew (main.c:16-33).                   *)
THEOREM SessionInvCorrect == SessionSpec => []LineInv
<1>1. SessionInit => LineInv
  BY LineInitInv DEF SessionInit
<1> QED
  BY <1>1, SessionStep, PTL DEF SessionSpec

(* The buffers, the list and the counters keep their types in every session, *)
(* for lines of any length (commands_parser.c:19-45, 107-137).               *)
THEOREM LineTypeCorrect == SessionSpec => []LineTypeOK
<1>1. LineInv => LineTypeOK
  BY DEF LineInv
<1> QED
  BY <1>1, SessionInvCorrect, PTL

(* Every line that ended normally leaks its buffer, and nothing else stays   *)
(* allocated (commands_parser.c:37-45, 107-137, main.c:28-31).               *)
THEOREM OneBufferLeaksCorrect == SessionSpec => []OneBufferLeaksPerLine
<1>1. LineInv => OneBufferLeaksPerLine
  <2> SUFFICES ASSUME LineInv, at = "reading", typed = <<>>
               PROVE  heap = ended + 1
    BY DEF OneBufferLeaksPerLine
  <2>1. list = <<>> /\ heap = ended + 1 + 2 * Len(list) /\ ended \in Nat
    BY DEF LineInv, LineTypeOK, Fresh, Allocated
  <2>2. Len(list) = 0
    BY <2>1
  <2> QED
    BY <2>1, <2>2
<1> QED
  BY <1>1, SessionInvCorrect, PTL

(* The buffer overflows only at a word that is too long for it, for every    *)
(* length of the buffer and of the line (commands_parser.c:37-45, 131).      *)
THEOREM OverrunCorrect == SessionSpec => []OverrunOnlyByLongWord
<1>1. LineInv => OverrunOnlyByLongWord
  BY DEF LineInv
<1> QED
  BY <1>1, SessionInvCorrect, PTL

(* Nothing is executed once the input has ended (commands_parser.c:117).     *)
THEOREM NothingRunsCorrect == SessionSpec => NothingRunsAfterEof
<1>1. LineInv /\ [SessionNext]_sessionVars => [eof => ran' = ran]_lineVars
  <2> SUFFICES ASSUME LineInv, [SessionNext]_sessionVars
               PROVE  eof => ran' = ran
    OBVIOUS
  <2>1. Begin => ran' = ran
    BY BeginKeeps
  <2>2. (Read => ran' = ran) /\ (RunOut => ran' = ran)
    BY ReadCommandKeeps, NoBufferKeeps DEF Read, RunOut
  <2>3. Obey => ~eof
    BY DEF Obey, Exec, LineInv
  <2>4. Execute => ran' = ran
    BY ExecuteKeeps
  <2>5. UNCHANGED sessionVars => ran' = ran
    BY DEF sessionVars, lineVars
  <2> QED
    BY <2>1, <2>2, <2>3, <2>4, <2>5 DEF SessionNext
<1> QED
  BY <1>1, SessionInvCorrect, PTL DEF SessionSpec, NothingRunsAfterEof

(* Whatever quotes a line has inside, before and after its words, however    *)
(* long it is and wherever the memory runs out: every symbol typed is in the *)
(* list, in a buffer or in a lost word, once, and every lost word is a       *)
(* failed allocation (commands_parser.c:20-32, 118-132, word_item.c:11-15).  *)
THEOREM NothingLostCorrect == SessionSpec => []NothingLost
<1>1. SessionInit => LostInv
  <2>1. \A c : KeptIn(c, <<>>, <<>>, <<>>, <<>>, <<>>)
    BY PlacesInNone DEF KeptIn, Occurrences, PlacesIn, FlattenSeq
  <2>2. Len(<<>>) = 0
    OBVIOUS
  <2> QED
    BY <2>1, <2>2 DEF SessionInit, LineInit, LostInv, Emptied
<1>2. LineInv /\ LostInv => NothingLost
  <2> SUFFICES ASSUME LineInv, LostInv PROVE NothingLost
    OBVIOUS
  <2>1. /\ lost \in Seq(Seq(Chars)) /\ list \in Seq(Seq(Chars))
        /\ word \in Seq(Chars) /\ command \in Seq(Chars)
    BY LineParts
  <2>2. \A c : Occurrences(c, FlattenSeq(lost) \o FlattenSeq(list) \o word \o command) =
                 Occurrences(c, FlattenSeq(lost)) + Occurrences(c, FlattenSeq(list))
                   + Occurrences(c, word) + Occurrences(c, command)
    BY <2>1, BufferSum
  <2> QED
    BY <2>2 DEF LostInv, NothingLost, KeptIn
<1> QED
  BY <1>1, <1>2, LostStep, SessionInvCorrect, PTL DEF SessionSpec

(* However many words, spaces and lines there are: a line without quotes     *)
(* that loses no word to a failed allocation is cut exactly at its spaces,   *)
(* in the order they were typed                                              *)
(* (commands_parser.c:117-136).                                              *)
THEOREM PlainLineCorrect == SessionSpec => []PlainLineIsSplit
<1>1. SessionInit => SplitInv
  <2> SUFFICES ASSUME SessionInit PROVE SplitInv
    OBVIOUS
  <2>1. at = "reading" /\ list = <<>> /\ command = <<>> /\ typed = <<>>
    BY DEF SessionInit, LineInit
  <2>2. <<>> \in Seq(Chars) /\ <<>> \in Seq(Seq(Chars))
    OBVIOUS
  <2>3. Joined = <<>>
    BY <2>1, <2>2, JoinedParts DEF Joined, Spaced
  <2> QED
    BY <2>1, <2>2, <2>3, ConcatEmptySeq DEF SplitInv, PlainLineIsSplit, EndsInSpace
<1>2. SplitInv => PlainLineIsSplit
  BY DEF SplitInv
<1> QED
  BY <1>1, <1>2, SplitStep, SessionInvCorrect, PTL DEF SessionSpec

-----------------------------------------------------------------------------
(* From the line to the file.                                                *)

\* What a user of the database may name is what a line may be made of.
WordsMatch == Shells # {} /\ Symbols \union {"text"} \subseteq Keys \cap Values

\* Whatever the words of a line are, the database knows the command.
LEMMA ObeyEnters ==
  ASSUME WordsMatch, Enter(Shell, Names), Names \in Seq(Symbols \union {"text"})
  PROVE  \E w \in Commands : Enter(Shell, w)
<1> DEFINE does == Dispatch(Names)
<1>1. CASE does = "put"
  <2>1. Len(Names) = 3 /\ Names[1] = "PUT"
    BY <1>1 DEF Dispatch
  <2>2. Names[2] \in Keys /\ Names[3] \in Values
    BY <2>1, ElementOfSeq DEF WordsMatch
  <2>3. Names = <<"PUT", Names[2], Names[3]>>
    BY <2>1, SeqEqual
  <2> QED
    BY <2>2, <2>3 DEF Commands
<1>2. CASE does = "get"
  <2>1. Len(Names) = 2 /\ Names[1] = "GET"
    BY <1>2 DEF Dispatch
  <2>2. Names[2] \in Keys
    BY <2>1, ElementOfSeq DEF WordsMatch
  <2>3. Names = <<"GET", Names[2]>>
    BY <2>1, SeqEqual
  <2> QED
    BY <2>2, <2>3 DEF Commands
<1>3. CASE does = "exit"
  <2>1. Dispatch(<<"q">>) = "exit" /\ <<"q">> \in Commands
    BY DEF Dispatch, ExitWords, Commands
  <2> HIDE DEF does
  <2> QED
    BY <1>3, <2>1 DEF Enter, does
<1>4. CASE does \in {"help", "unknown"}
  <2>1. Dispatch(<<>>) = "unknown" /\ <<>> \in Commands
    BY DEF Dispatch, Commands
  <2> QED
    BY <1>4, <2>1 DEF Enter
<1>5. does \in {"exit", "help", "get", "put", "unknown"}
  BY DEF Dispatch
<1> QED
  BY <1>1, <1>2, <1>3, <1>4, <1>5

LEMMA NamesType ==
  ASSUME LineInv PROVE Names \in Seq(Symbols \union {"text"})
<1>1. list \in Seq(Seq(Chars))
  BY LineParts
<1>2. \A w : Name(w) \in Symbols \union {"text"}
  BY DEF Name
<1>3. DOMAIN list = 1..Len(list) /\ Len(list) \in Nat
  BY <1>1, LenProperties
<1> QED
  BY <1>2, <1>3 DEF Names

(* A session is one of the shells of the database: the characters of a line  *)
(* change nothing of the file, the command that exec_commands finds in them  *)
(* is one that a shell may enter, and put and get take its steps (main.c:16- *)
(* 33, exec_commands.c:23-44).                                               *)
THEOREM SessionImplementation == ASSUME WordsMatch PROVE SessionSpec => Spec
<1>1. LineInv /\ [SessionNext]_sessionVars => [Next]_vars
  <2> SUFFICES ASSUME LineInv, [SessionNext]_sessionVars PROVE [Next]_vars
    OBVIOUS
  <2>0. Shell \in Shells
    BY DEF Shell, WordsMatch
  <2>1. CASE Begin
    BY <2>0, <2>1 DEF Begin, Next
  <2>2. CASE Read
    BY <2>2 DEF Read
  <2>3. CASE Obey
    <3>1. Enter(Shell, Names)
      BY <2>3 DEF Obey
    <3> QED
      BY <2>0, <3>1, NamesType, ObeyEnters DEF Next
  <2>4. CASE Execute
    BY <2>0, <2>4 DEF Execute, Next
  <2>5. CASE UNCHANGED sessionVars
    BY <2>5 DEF sessionVars
  <2>6. CASE RunOut
    <3>1. Dispatch(<<"q">>) = "exit" /\ Dispatch(<<"exit">>) = "exit"
      BY DEF Dispatch, ExitWords
    <3>2. <<"q">> \in Commands
      BY DEF Commands
    <3>3. Enter(Shell, <<"q">>)
      BY <2>6, <3>1 DEF RunOut, Enter
    <3> QED
      BY <2>0, <3>2, <3>3 DEF Next
  <2> QED
    BY <2>1, <2>2, <2>3, <2>4, <2>5, <2>6 DEF SessionNext
<1>2. SessionInit => Init
  BY DEF SessionInit
<1> QED
  BY <1>1, <1>2, SessionInvCorrect, PTL DEF SessionSpec, Spec

(* What is typed into one shell that nothing disturbs implements the         *)
(* abstract log, whatever its lines look like, unfinished ones and ones with *)
(* unmatched quotes included (main.c:16-33, commands.c:23-42).               *)
THEOREM SessionLog ==
  ASSUME WordsMatch, \A s, t \in Shells : s = t, MaxFaults = 0
  PROVE  SessionSpec => LogSpec
BY SessionImplementation, LogImplementation, PTL
================================================================================
