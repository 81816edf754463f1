-------------------------------- MODULE Prompts --------------------------------
(* Two programs that wait for their user: ctrlc, whose loop is ended by the  *)
(* handler of SIGINT, and what_is_your_name, which waits for the beginning   *)
(* of an answer with select and a time limit, for the rest of it without.    *)
EXTENDS Naturals

CONSTANTS
  MaxSignals,  \* bound on the SIGINTs sent
  TimeLimit    \* time_limit

VARIABLES
  main,     \* ctrlc: "write", "install", "test", "nap", "asleep", "gone"
  n,        \* what its handler counts
  late,     \* history: whole naps that ended after the first signal
  asker,    \* what_is_your_name: "select", "refuse", "scanf", "gone"
  clock,    \* time since the call of select, up to TimeLimit + 1
  typed,    \* what there is to read: "nothing", a "blank" line, "part" of a
            \* word, a "word" and a space, a part "cut" off by the end of the
            \* input, the "end" alone, or a word too "long" for user_input
  begun,    \* history: when the user typed something first
  reply     \* "none", "busy", "dear word", "dear junk", "failed" or "crash"

ctrlcVars == <<main, n, late>>
nameVars == <<asker, clock, typed, begun, reply>>

CtrlcInit == main = "write" /\ n = 0 /\ late = 0
Hello == main = "write" /\ main' = "install" /\ UNCHANGED <<n, late>>
Install == main = "install" /\ main' = "test" /\ UNCHANGED <<n, late>>
Test ==
  /\ main = "test"
  /\ main' = IF n > 0 THEN "gone" ELSE "nap"
  /\ UNCHANGED <<n, late>>
\* Between the test of n and the call of sleep a signal is not noticed.
Sleep == main = "nap" /\ main' = "asleep" /\ UNCHANGED <<n, late>>
SleepEnds ==
  /\ main = "asleep"
  /\ main' = "test"
  /\ late' = IF n > 0 THEN late + 1 ELSE late
  /\ UNCHANGED n

\* Mutant: a flag that every signal turns over.
HandlerToggles ==
  /\ n' = 1 - n
  /\ main' = IF main = "asleep" THEN "test" ELSE main

\* The handler; a sleep in progress returns.
Handler ==
  /\ n' = n + 1
  /\ main' = IF main = "asleep" THEN "test" ELSE main
\* Before the handler is installed SIGINT ends the process.
Sigint ==
  /\ main # "gone" /\ n < MaxSignals
  /\ \/ main \in {"write", "install"} /\ main' = "gone" /\ UNCHANGED n
     \/ main \notin {"write", "install"} /\ Handler
  /\ UNCHANGED late

CtrlcStep == Hello \/ Install \/ Test \/ Sleep \/ SleepEnds
CtrlcNext == CtrlcStep \/ Sigint

NameInit ==
  /\ asker = "select" /\ clock = 0 /\ begun = 0
  /\ typed = "nothing" /\ reply = "none"
Answers(text) == asker' = "gone" /\ reply' = text
Failing == asker = "select" /\ Answers("failed")

\* Mutant: STDIN_FILENO in place of STDIN_FILENO + 1: no descriptor is watched.
SelectNone ==
  /\ \/ Failing
     \/ /\ asker = "select" /\ clock >= TimeLimit
        /\ asker' = "refuse" /\ UNCHANGED reply
  /\ UNCHANGED <<clock, typed, begun>>

\* select looks once more when its time is over, whenever that is noticed.
Select ==
  /\ \/ Failing
     \/ /\ asker = "select" /\ typed # "nothing"
        /\ asker' = "scanf" /\ UNCHANGED reply
     \/ /\ asker = "select" /\ typed = "nothing" /\ clock >= TimeLimit
        /\ asker' = "refuse" /\ UNCHANGED reply
  /\ UNCHANGED <<clock, typed, begun>>
Refuse ==
  /\ asker = "refuse" /\ Answers("busy")
  /\ UNCHANGED <<clock, typed, begun>>
\* For scanf a blank line is nothing, and it has no time limit.  At the end of
\* the input user_input is printed as it is, and a long word overruns it.
Scanf ==
  /\ asker = "scanf"
  /\ \/ typed \in {"word", "cut"} /\ Answers("dear word")
     \/ typed = "end" /\ Answers("dear junk")
     \/ typed = "long" /\ \E text \in {"dear word", "crash"} : Answers(text)
  /\ UNCHANGED <<clock, typed, begun>>
User ==
  /\ asker # "gone"
  /\ \/ /\ typed = "nothing" /\ typed' \in {"blank", "part", "word", "end"}
        /\ begun' = clock
     \/ /\ typed = "blank" /\ typed' \in {"part", "word", "end"}
        /\ UNCHANGED begun
     \/ /\ typed = "part" /\ typed' \in {"word", "cut", "long"}
        /\ UNCHANGED begun
  /\ UNCHANGED <<asker, clock, reply>>
\* Time passes wherever the process is.
Tick ==
  /\ asker # "gone" /\ clock <= TimeLimit
  /\ clock' = clock + 1
  /\ UNCHANGED <<asker, typed, begun, reply>>
NameStep == Select \/ Refuse \/ Scanf
NameNext == NameStep \/ User \/ Tick

-----------------------------------------------------------------------------
TypeOK ==
  /\ main \in {"write", "install", "test", "nap", "asleep", "gone"}
  /\ n \in 0..MaxSignals /\ late \in 0..1
  /\ asker \in {"select", "refuse", "scanf", "gone"}
  /\ clock \in 0..TimeLimit + 1 /\ begun \in 0..TimeLimit + 1
  /\ typed \in {"nothing", "blank", "part", "word", "cut", "end", "long"}
  /\ reply \in {"none", "busy", "dear word", "dear junk", "failed", "crash"}

(* However many signals arrive and wherever they interrupt main, one of them *)
(* that reached the handler ends the program (ctrlc.c:10-28).                *)
InterruptedEnds == n > 0 ~> main = "gone"

(* Who begins to answer within the limit, be it with a blank line, and ends  *)
(* a name, however much later, is greeted, unless select itself fails        *)
(* (what_is_your_name.c:19-31, 47).                                          *)
NameIsGreeted ==
  begun < TimeLimit /\ typed \in {"word", "cut"}
    ~> reply \in {"dear word", "failed"}

(* Only who typed nothing before the limit is refused, however late select   *)
(* and printf run (what_is_your_name.c:26-27, 47).                           *)
LateIsRefused ==
  asker = "refuse" \/ reply = "busy" =>
    clock >= TimeLimit /\ (typed = "nothing" \/ begun >= TimeLimit)
================================================================================
