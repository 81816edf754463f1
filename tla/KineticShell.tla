----------------------------- MODULE KineticShell -----------------------------
(* One shell of kineticdb and the line it is reading: read_command takes     *)
(* characters one by one, cuts them into words on an unchecked buffer, and   *)
(* exec_commands acts on the list of words.                                  *)
(*                                                                           *)
(* A member of Symbols stands for a stretch of characters that are neither   *)
(* a space, a quote nor the end of the line; it counts as one character.     *)
EXTENDS Naturals, SequencesExt, KineticCommands

CONSTANTS
  Symbols,     \* what words are made of
  BufferLen,   \* buffer_len, with the terminator
  MaxLine,     \* bound on the characters typed in a line
  MaxLines,    \* bound on the lines typed
  MaxFails     \* bound on the allocations that fail

Space == "space"
Quotes == {"single", "double"}
Eof == "eof"  \* getchar() put into a char: a character like any other
ASSUME BufferAssumption ==
  /\ BufferLen \in Nat \ {0} /\ MaxLine \in Nat /\ MaxLines \in Nat
  /\ MaxFails \in Nat
  /\ Symbols \cap (Quotes \union {Space, Eof}) = {}

VARIABLES
  at,        \* "reading", "quoted" (parse_quotes), "exec", "off", "undefined",
             \* "wordless" (a node of the list has no word)
  quote,     \* the quote that parse_quotes waits for
  command,   \* the word being read, command[0..i-1]
  word,      \* the quoted word being read
  list,      \* the words from head to tail
  heap,      \* live allocations: buffers, list nodes and their strings
  ended,     \* lines that ended at their newline, outside quotes
  count,     \* lines read, bounded by MaxLines
  fails,     \* allocations that failed, bounded by MaxFails
  eof,       \* whether the input has ended
  typed,     \* history: the line so far
  lost,      \* history: the words of the line that the list had no node for
  torn,      \* history: the line ended inside quotes
  ran        \* history: what the last lines did

buffers == <<quote, command, word, list>>
memory == <<heap, fails, lost>>
lineVars == <<at, buffers, memory, ended, count, eof, typed, torn, ran>>

LineInit ==
  /\ at = "reading"
  /\ quote = "double" /\ command = <<>> /\ word = <<>> /\ list = <<>>
  /\ heap = 1  \* malloc of command
  /\ fails = 0 /\ lost = <<>>
  /\ ended = 0 /\ count = 0 /\ eof = FALSE
  /\ typed = <<>> /\ torn = FALSE /\ ran = <<>>

\* getchar(): the input may end anywhere, and then stays ended.
Getchar(c) ==
  /\ count < MaxLines
  /\ eof => c = Eof
  /\ c # Eof => Len(typed) < MaxLine
  /\ eof' = (c = Eof)
  /\ typed' = Append(typed, c)
\* A write past the buffer: nothing is known of the shell afterwards.
Overrun ==
  /\ at' = "undefined"
  /\ UNCHANGED <<buffers, memory>>

\* Mutant: the quoted word takes the place of the unfinished one.
OpenQuoteReset(c) ==
  /\ at = "reading" /\ c \in Quotes
  /\ Getchar(c)
  /\ at' = "quoted"
  /\ quote' = c /\ word' = <<>> /\ command' = <<>>
  /\ heap' = heap + 1
  /\ UNCHANGED <<list, fails, lost, ended, count, torn, ran>>

Plain(c) ==
  /\ at = "reading" /\ c \in Symbols \union {Eof}
  /\ Getchar(c)
  /\ IF Len(command) < BufferLen
     THEN /\ command' = Append(command, c)
          /\ UNCHANGED <<at, quote, word, list, memory>>
     ELSE Overrun
  /\ UNCHANGED <<ended, count, torn, ran>>

\* Mutant: add_word puts the word before the head.
AddWordAtHead(w, h, next) ==
  /\ at' = next /\ list' = <<w>> \o list /\ heap' = h + 2
  /\ UNCHANGED <<fails, lost>>

\* add_word: a copy of the word behind the tail, and the caller goes on.  It
\* does so as well when there is no memory for the node, and the word is lost.
\* Without memory for the copy the node has no word: what a strcmp with it
\* does is undefined, and the model follows the shell no further.
AddWord(w, h, next) ==
  \/ /\ at' = next /\ list' = Append(list, w) /\ heap' = h + 2
     /\ UNCHANGED <<fails, lost>>
  \/ /\ fails < MaxFails /\ fails' = fails + 1
     /\ lost' = Append(lost, w) /\ list' = list
     /\ \/ at' = next /\ heap' = h
        \/ at' = "wordless" /\ heap' = h + 1

\* Mutant: reset_word without *i = 0.
ResetWordKeepsIndex(next) ==
  /\ AddWord(command, heap, next)
  /\ command' = command

\* reset_word: the list takes a copy of the word, the buffer is a new one.
ResetWord(next) ==
  /\ AddWord(command, heap, next)
  /\ command' = <<>>

ReadSpace ==
  /\ at = "reading"
  /\ Getchar(Space)
  /\ IF Len(command) < BufferLen
     THEN ResetWord(at) /\ UNCHANGED <<quote, word>>
     ELSE Overrun
  /\ UNCHANGED <<ended, count, torn, ran>>

\* The unfinished word stays in the buffer while the quoted one is read.
OpenQuote(c) ==
  /\ at = "reading" /\ c \in Quotes
  /\ Getchar(c)
  /\ at' = "quoted"
  /\ quote' = c /\ word' = <<>>
  /\ heap' = heap + 1
  /\ UNCHANGED <<command, list, fails, lost, ended, count, torn, ran>>

Quoted(c) ==
  /\ at = "quoted"
  /\ c \in Symbols \union {Space, Eof} \union (Quotes \ {quote})
  /\ Getchar(c)
  /\ IF Len(word) < BufferLen
     THEN /\ word' = Append(word, c)
          /\ UNCHANGED <<at, quote, command, list, memory>>
     ELSE Overrun
  /\ UNCHANGED <<ended, count, torn, ran>>

CloseQuote ==
  /\ at = "quoted"
  /\ Getchar(quote)
  /\ IF Len(word) < BufferLen
     THEN /\ AddWord(word, heap - 1, "reading")
          /\ word' = <<>>
          /\ UNCHANGED <<quote, command>>
     ELSE Overrun
  /\ UNCHANGED <<ended, count, torn, ran>>

\* "unmatched quotes": both buffers are freed, the list stays.
NewlineInQuotes ==
  /\ at = "quoted" /\ ~eof /\ count < MaxLines
  /\ at' = "exec"
  /\ torn' = TRUE
  /\ word' = <<>> /\ command' = <<>>
  /\ heap' = heap - 2
  /\ count' = count + 1
  /\ UNCHANGED <<quote, list, fails, lost, ended, eof, typed, ran>>

\* Mutant: reset_word at every end of line.
NewlineAlways ==
  /\ at = "reading" /\ ~eof /\ count < MaxLines
  /\ IF Len(command) < BufferLen
     THEN ResetWord("exec") /\ UNCHANGED <<quote, word>>
     ELSE Overrun
  /\ ended' = ended + 1
  /\ count' = count + 1
  /\ UNCHANGED <<eof, typed, torn, ran>>
\* Mutant: EOF taken for the end of the line.
NewlineOrEof ==
  /\ at = "reading" /\ count < MaxLines
  /\ \/ command = <<>> /\ at' = "exec" /\ UNCHANGED <<buffers, memory>>
     \/ command # <<>> /\ ResetWord("exec") /\ UNCHANGED <<quote, word>>
  /\ ended' = ended + 1
  /\ count' = count + 1
  /\ UNCHANGED <<eof, typed, torn, ran>>

\* The end of the line: an empty last word is not added, and the buffer of the
\* command is never freed.
Newline ==
  /\ at = "reading" /\ ~eof /\ count < MaxLines
  /\ \/ /\ command = <<>>
        /\ at' = "exec"
        /\ UNCHANGED <<buffers, memory>>
     \/ /\ command # <<>> /\ Len(command) < BufferLen
        /\ ResetWord("exec")
        /\ UNCHANGED <<quote, word>>
     \/ Len(command) >= BufferLen /\ Overrun
  /\ ended' = ended + 1
  /\ count' = count + 1
  /\ UNCHANGED <<eof, typed, torn, ran>>

\* check_alloc: malloc has no buffer for the line, for a quoted word or for
\* the next word, and the shell exits.
NoBuffer ==
  /\ at = "reading" /\ ~eof
  /\ fails < MaxFails /\ fails' = fails + 1
  /\ at' = "off"
  /\ UNCHANGED <<buffers, heap, lost, ended, count, eof, typed, torn, ran>>

\* A word as KineticCommands compares it: only one symbol can be a name.
Name(w) == IF Len(w) = 1 /\ w[1] \in Symbols THEN w[1] ELSE "text"
Names == [i \in DOMAIN list |-> Name(list[i])]

\* Mutant: delete_list frees the nodes and not their words.
FreeNodesOnly == heap - Len(list)
\* Mutant: the list is freed by exec_commands and again by main.
FreeTwice == heap - 4 * Len(list)
\* delete_list.
Freed == heap - 2 * Len(list)

\* exec_commands; exit() at once, or delete_list and the buffer of the next
\* read_command.
Exec ==
  /\ at = "exec"
  /\ ran' = Append(ran, Dispatch(Names))
  /\ IF Dispatch(Names) = "exit"
     THEN at' = "off" /\ UNCHANGED <<list, heap>>
     ELSE at' = "reading" /\ list' = <<>> /\ heap' = Freed + 1
  /\ typed' = <<>> /\ lost' = <<>> /\ torn' = FALSE
  /\ command' = <<>>
  /\ UNCHANGED <<quote, word, fails, ended, count, eof>>

\* What getchar returns next.
ReadCommand ==
  \/ \E c \in Symbols \union Quotes \union {Space, Eof} :
       Plain(c) \/ OpenQuote(c) \/ Quoted(c)
  \/ ReadSpace \/ CloseQuote \/ NewlineInQuotes \/ Newline
LineNext == ReadCommand \/ NoBuffer \/ Exec
LineSpec == LineInit /\ [][LineNext]_lineVars

-----------------------------------------------------------------------------
(* The buffers, the list and the counters keep their types; the words in     *)
(* the buffers fit in them.                                                  *)
LineTypeOK ==
  /\ at \in {"reading", "quoted", "exec", "off", "undefined", "wordless"}
  /\ quote \in Quotes
  /\ command \in Seq(Symbols \union {Eof}) /\ Len(command) <= BufferLen
  /\ word \in Seq(Symbols \union Quotes \union {Space, Eof})
  /\ Len(word) <= BufferLen
  /\ list \in Seq(Seq(Symbols \union Quotes \union {Space, Eof}))
  /\ lost \in Seq(Seq(Symbols \union Quotes \union {Space, Eof}))
  /\ heap \in Nat /\ fails \in 0..MaxFails /\ ended \in Nat /\ count \in 0..MaxLines
  /\ eof \in BOOLEAN /\ torn \in BOOLEAN
  /\ \A i \in DOMAIN ran : ran[i] \in {"exit", "help", "get", "put", "unknown"}

Joined == FlattenSeq([i \in DOMAIN list |-> Append(list[i], Space)])
Quoting == \E c \in Quotes : Contains(typed, c)
EndsInSpace == typed = <<>> \/ Last(typed) = Space

(* A line without quotes that no word is lost from is cut exactly at its     *)
(* spaces, an empty last word left out: with a space after every word the    *)
(* words give the line back (commands_parser.c:117-136).                     *)
PlainLineIsSplit ==
  at = "exec" /\ ~Quoting /\ lost = <<>> =>
    Joined = IF EndsInSpace THEN typed ELSE Append(typed, Space)

(* Quotes inside, before and after words may change their order and never    *)
(* their text: every symbol typed is in the list or in a buffer, once, or in *)
(* a word that was lost, and no word is lost but to a failed allocation      *)
(* (commands_parser.c:20-32, 118-132, word_item.c:11-15).                    *)
NothingLost ==
  /\ Len(lost) <= fails
  /\ at \in {"reading", "quoted", "exec"} /\ ~torn =>
       \A c \in Symbols :
         Occurrences(c, typed) =
           Occurrences(c, FlattenSeq(lost) \o FlattenSeq(list) \o word \o command)

LongWordTyped ==
  \E i, j \in DOMAIN typed : j - i + 1 >= BufferLen /\
                             \A m \in i..j : typed[m] # Space
(* A line without quotes writes past the buffer only when it has a word that *)
(* does not fit with its terminator, however many words there are            *)
(* (commands_parser.c:37-45, 131).                                           *)
OverrunOnlyByLongWord ==
  at = "undefined" /\ ~Quoting => LongWordTyped

(* A line cut short by the end of the input is not run: the shell executes   *)
(* nothing once getchar has returned EOF (commands_parser.c:117).            *)
NothingRunsAfterEof == [][eof => ran' = ran]_lineVars

(* When a line begins, the heap holds its buffer and one buffer for every    *)
(* earlier line that ended normally, whatever quotes and words those had     *)
(* (commands_parser.c:37-45, 107-137, main.c:28-31).                         *)
OneBufferLeaksPerLine ==
  at = "reading" /\ typed = <<>> => heap = ended + 1

(* A line that is reported as wrong, "ERROR: unmatched quotes", does not     *)
(* change the database (commands_parser.c:11, 23-27).                        *)
UnmatchedLineStoresNothing ==
  [][Exec /\ torn => Last(ran') # "put"]_lineVars
================================================================================
