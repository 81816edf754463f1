---------------------------- MODULE ProgramsProofs ----------------------------
(* Safety of the programs of Programs, for every value of its constants.     *)
(* Each program takes only steps of its own specification; the invariant of  *)
(* a component is therefore one of the whole.                                *)
EXTENDS Programs, FileChatProofs, Induction
TcpProof == INSTANCE TcpServerProofs

-----------------------------------------------------------------------------
(* What runs is one program, the others stutter.                             *)

LEMMA ChatProjection ==
  /\ ProgramsInit => Init
  /\ [ProgramsNext]_vars => [Next]_chatVars
BY DEF ProgramsInit, ProgramsNext, vars, FileChatRuns, TcpRuns, DatagramRuns,
       ChildrenRun, CtrlcRuns, NameRuns, SearchRuns, ListsRun, TextsRun

LEMMA TcpProjection ==
  /\ ProgramsInit => Tcp!Init
  /\ [ProgramsNext]_vars => [Tcp!Next]_tcpVars
BY DEF ProgramsInit, ProgramsNext, vars, FileChatRuns, TcpRuns, DatagramRuns,
       ChildrenRun, CtrlcRuns, NameRuns, SearchRuns, ListsRun, TextsRun

LEMMA NetProjection ==
  /\ ProgramsInit => Net!Init
  /\ [ProgramsNext]_vars => [Net!Next]_netVars
BY DEF ProgramsInit, ProgramsNext, vars, FileChatRuns, TcpRuns, DatagramRuns,
       ChildrenRun, CtrlcRuns, NameRuns, SearchRuns, ListsRun, TextsRun

LEMMA ChildProjection ==
  /\ ProgramsInit => Child!Init
  /\ [ProgramsNext]_vars => [Child!Next]_childVars
BY DEF ProgramsInit, ProgramsNext, vars, FileChatRuns, TcpRuns, DatagramRuns,
       ChildrenRun, CtrlcRuns, NameRuns, SearchRuns, ListsRun, TextsRun

LEMMA PromptProjection ==
  /\ ProgramsInit => Prompt!CtrlcInit /\ Prompt!NameInit
  /\ [ProgramsNext]_vars => [Prompt!CtrlcNext]_ctrlcVars /\ [Prompt!NameNext]_nameVars
BY DEF ProgramsInit, ProgramsNext, vars, FileChatRuns, TcpRuns, DatagramRuns,
       ChildrenRun, CtrlcRuns, NameRuns, SearchRuns, ListsRun, TextsRun

LEMMA FindProjection ==
  /\ ProgramsInit => Find!Init
  /\ [ProgramsNext]_vars => [Find!Next]_findVars
BY DEF ProgramsInit, ProgramsNext, vars, FileChatRuns, TcpRuns, DatagramRuns,
       ChildrenRun, CtrlcRuns, NameRuns, SearchRuns, ListsRun, TextsRun

LEMMA ListsProjection ==
  /\ ProgramsInit => Lists!Init
  /\ [ProgramsNext]_vars => [Lists!Next]_listVars
BY DEF ProgramsInit, ProgramsNext, vars, FileChatRuns, TcpRuns, DatagramRuns,
       ChildrenRun, CtrlcRuns, NameRuns, SearchRuns, ListsRun, TextsRun

LEMMA TextProjection ==
  /\ ProgramsInit => Text!Init
  /\ [ProgramsNext]_vars => [Text!Next]_textVars
BY DEF ProgramsInit, ProgramsNext, vars, FileChatRuns, TcpRuns, DatagramRuns,
       ChildrenRun, CtrlcRuns, NameRuns, SearchRuns, ListsRun, TextsRun

-----------------------------------------------------------------------------
(* Children.                                                                 *)

\* Who is no longer waited for has been reaped, or was never there.
Waited == /\ parent = "fork" <=> child = "none" /\ parent # "gone"
          /\ child = "reaped" => parent = "gone"
ChildInv == Child!TypeOK /\ Waited /\ Child!NoChildLeft

LEMMA ChildInvInit == Child!Init => ChildInv
BY DEF Child!Init, ChildInv, Child!TypeOK, Waited, Child!NoChildLeft, Child!Programs

LEMMA ChildInvNext == ChildInv /\ [Child!Next]_childVars => ChildInv'
<1> SUFFICES ASSUME ChildInv, [Child!Next]_childVars PROVE ChildInv'
  OBVIOUS
<1> USE DEF ChildInv, Child!TypeOK, Waited, Child!NoChildLeft, Child!Programs
<1>1. CASE Child!Fork
  BY <1>1 DEF Child!Fork
<1>2. CASE Child!Exec
  BY <1>2 DEF Child!Exec
<1>3. CASE Child!ChildEnds
  BY <1>3 DEF Child!ChildEnds
<1>4. CASE Child!Wait
  BY <1>4 DEF Child!Wait
<1>5. CASE UNCHANGED childVars
  BY <1>5 DEF childVars
<1> QED
  BY <1>1, <1>2, <1>3, <1>4, <1>5 DEF Child!Next

-----------------------------------------------------------------------------
(* Prompts.                                                                  *)

\* After the first signal there is at most one more nap.
OneNap ==
  /\ main \in {"write", "install"} => n = 0
  /\ late = 1 => n > 0 /\ main \in {"test", "gone"}
CtrlcOK == /\ main \in {"write", "install", "test", "nap", "asleep", "gone"}
           /\ n \in 0..MaxSignals /\ late \in 0..1 /\ OneNap
NameOK == /\ asker \in {"select", "refuse", "scanf", "gone"}
          /\ clock \in 0..TimeLimit + 1 /\ begun \in 0..TimeLimit + 1
          /\ answer \in {"nothing", "blank", "part", "word", "cut", "end", "long"}
          /\ reply \in {"none", "busy", "dear word", "dear junk", "failed", "crash"}
          /\ reply = "busy" => asker = "gone"
          /\ Prompt!LateIsRefused

LEMMA CtrlcInit == Prompt!CtrlcInit => CtrlcOK
BY PromptAssumption DEF PromptAssumption, Prompt!CtrlcInit, CtrlcOK, OneNap

LEMMA CtrlcNext == CtrlcOK /\ [Prompt!CtrlcNext]_ctrlcVars => CtrlcOK'
BY PromptAssumption DEF PromptAssumption, Prompt!CtrlcNext, Prompt!CtrlcStep,
   Prompt!Hello, Prompt!Install, Prompt!Test,
   Prompt!Sleep, Prompt!SleepEnds, Prompt!Sigint, Prompt!Handler, ctrlcVars,
   CtrlcOK, OneNap

LEMMA NameInit == Prompt!NameInit => NameOK
BY PromptAssumption DEF PromptAssumption, Prompt!NameInit, NameOK, Prompt!LateIsRefused

LEMMA NameNext == NameOK /\ [Prompt!NameNext]_nameVars => NameOK'
<1> SUFFICES ASSUME NameOK, [Prompt!NameNext]_nameVars PROVE NameOK'
  OBVIOUS
<1> USE PromptAssumption DEF PromptAssumption, NameOK, Prompt!LateIsRefused,
        Prompt!Answers
<1>1. CASE Prompt!Select
  BY <1>1 DEF Prompt!Select, Prompt!Failing
<1>2. CASE Prompt!Refuse \/ Prompt!Scanf
  BY <1>2 DEF Prompt!Refuse, Prompt!Scanf
<1>3. CASE Prompt!User
  <2>1. /\ asker # "gone" /\ asker' = asker /\ clock' = clock /\ reply' = reply
        /\ answer' \in {"blank", "part", "word", "cut", "end", "long"}
        /\ \/ answer = "nothing" /\ begun' = clock
           \/ answer # "nothing" /\ begun' = begun
    BY <1>3 DEF Prompt!User
  <2> QED
    BY <2>1
<1>4. CASE Prompt!Tick
  <2>1. /\ asker' = asker /\ answer' = answer /\ reply' = reply /\ begun' = begun
        /\ clock' = clock + 1 /\ clock <= TimeLimit
    BY <1>4 DEF Prompt!Tick
  <2>2. clock \in 0..TimeLimit + 1
    OBVIOUS
  <2>3. clock' \in 0..TimeLimit + 1 /\ (clock >= TimeLimit => clock' >= TimeLimit)
    <3> HIDE DEF NameOK, Prompt!LateIsRefused
    <3> QED
      BY <2>1, <2>2
  <2> QED
    BY <2>1, <2>3
<1>5. CASE UNCHANGED nameVars
  BY <1>5 DEF nameVars
<1> QED
  BY <1>1, <1>2, <1>3, <1>4, <1>5 DEF Prompt!NameNext, Prompt!NameStep

-----------------------------------------------------------------------------
(* Datagram.                                                                 *)

\* What a client that is not sent to has, and what one that is has by now;
\* who has printed has printed its socket's bytes up to a zero byte.
NetOK ==
  /\ server \in {"bind", "accept", "send", "close", "gone"}
  /\ message \in Messages \union {Net!Absent}
  /\ waiting \in Seq(Clients)
  /\ served \subseteq Clients /\ reset \subseteq Clients
  /\ netPeer \in [Clients -> {"start", "recv", "refused", "ended"}]
  /\ socket = [c \in Clients |-> IF c \in served /\ server \in {"close", "gone"}
                                THEN Net!Sent ELSE <<>>]
  /\ server \in {"bind", "accept"} => served = {}
  /\ reset # {} => server = "gone"
  /\ output = [c \in Clients |-> output[c]]
  /\ \A c \in Clients : netPeer[c] = "ended" =>
       /\ server \in {"close", "gone"}
       /\ \E junk \in Net!Junk : output[c] = Net!UpToNul(socket[c] \o junk)

LEMMA NetInit == Net!Init => NetOK
BY DEF Net!Init, NetOK

LEMMA ToSetIsRange ==
  ASSUME NEW S, NEW s \in Seq(S) PROVE Net!ToSet(s) \subseteq S
BY DEF Net!ToSet

LEMMA NetNext == NetOK /\ [Net!Next]_netVars => NetOK'
<1> SUFFICES ASSUME NetOK, [Net!Next]_netVars PROVE NetOK'
  OBVIOUS
<1>0. message' = message /\ Net!Sent' = Net!Sent
  BY DEF Net!Next, netVars, Net!Bind, Net!Accept, Net!Send, Net!Close, Net!Connect,
         Net!Receive, Net!Sent, Net!Behind
<1>1. CASE Net!Bind
  BY <1>0, <1>1 DEF Net!Bind, NetOK
<1>2. CASE Net!Accept
  <2>1. waiting # <<>> => Head(waiting) \in Clients /\ Tail(waiting) \in Seq(Clients)
    BY <1>2, HeadTailProperties DEF Net!Accept, NetOK
  <2> QED
    BY <1>0, <1>2, <2>1 DEF Net!Accept, NetOK
<1>3. CASE Net!Send
  BY <1>0, <1>3 DEF Net!Send, NetOK
<1>4. CASE Net!Close
  <2>1. Net!ToSet(waiting) \subseteq Clients /\ reset' \subseteq Clients /\ waiting' \in Seq(Clients)
    BY <1>4, ToSetIsRange DEF Net!Close, NetOK
  <2>2. /\ server = "close" /\ server' = "gone" /\ served' = served /\ netPeer' = netPeer
        /\ socket' = socket /\ output' = output
    BY <1>4 DEF Net!Close
  <2> QED
    BY <1>0, <2>1, <2>2 DEF NetOK
<1>5. ASSUME NEW c \in Clients, Net!Connect(c) PROVE NetOK'
  <2>1. waiting' \in Seq(Clients)
    BY <1>5, AppendProperties DEF Net!Connect, NetOK
  <2> QED
    BY <1>0, <1>5, <2>1 DEF Net!Connect, NetOK
<1>6. ASSUME NEW c \in Clients, Net!Receive(c) PROVE NetOK'
  <2>1. PICK junk \in Net!Junk :
          output' = [output EXCEPT ![c] = Net!UpToNul(socket[c] \o junk)]
    BY <1>6 DEF Net!Receive
  <2>2. /\ server' = server /\ waiting' = waiting /\ served' = served /\ reset' = reset
        /\ socket' = socket /\ netPeer' = [netPeer EXCEPT ![c] = "ended"]
        /\ socket[c] # <<>> \/ c \in reset
    BY <1>6 DEF Net!Receive
  <2>3. server \in {"close", "gone"}
    BY <2>2 DEF NetOK
  <2>4. output' = [d \in Clients |-> output'[d]]
    BY <2>1 DEF NetOK
  <2>5. \A d \in Clients : netPeer'[d] = "ended" =>
          \E junk2 \in Net!Junk : output'[d] = Net!UpToNul(socket[d] \o junk2)
    <3> SUFFICES ASSUME NEW d \in Clients, netPeer'[d] = "ended"
                 PROVE  \E junk2 \in Net!Junk : output'[d] = Net!UpToNul(socket[d] \o junk2)
      OBVIOUS
    <3>1. CASE d = c
      BY <2>1, <3>1 DEF NetOK
    <3>2. CASE d # c
      BY <2>1, <2>2, <3>2 DEF NetOK
    <3> QED
      BY <3>1, <3>2
  <2> QED
    BY <1>0, <2>2, <2>3, <2>4, <2>5 DEF NetOK
<1>7. CASE UNCHANGED netVars
  BY <1>0, <1>7 DEF netVars, NetOK
<1> QED
  BY <1>1, <1>2, <1>3, <1>4, <1>5, <1>6, <1>7 DEF Net!Next

\* What printf prints of a buffer is what precedes its first zero byte.
LEMMA UpToFirstNul ==
  ASSUME NEW S, NEW s \in Seq(S), NEW k \in 1..Len(s), s[k] = Net!Nul,
         \A l \in 1..k - 1 : s[l] # Net!Nul
  PROVE  Net!UpToNul(s) = SubSeq(s, 1, k - 1)
<1> DEFINE I == {l \in 1..Len(s) : s[l] = Net!Nul}
<1>1. k \in I /\ \A l \in I : k <= l
  OBVIOUS
<1>2. Net!Min(I) = k
  <2>1. \A l \in I : l \in Int
    OBVIOUS
  <2> HIDE DEF I
  <2>2. \A x \in I : (\A l \in I : x <= l) => x = k
    BY <1>1, <2>1
  <2> QED
    BY <1>1, <2>2 DEF Net!Min
<1>3. Net!SelectInSeq(s, LAMBDA b : b = Net!Nul) = k
  BY <1>1, <1>2 DEF Net!SelectInSeq
<1> QED
  BY <1>3 DEF Net!UpToNul

LEMMA SingletonSeq ==
  ASSUME NEW S, NEW x \in S
  PROVE  <<x>> \in Seq(S) /\ Len(<<x>>) = 1 /\ <<x>>[1] = x
OBVIOUS

LEMMA JunkSeq ==
  ASSUME NEW junk \in Net!Junk
  PROVE  /\ junk \in Seq({Net!Nul, "junk"})
         /\ junk = <<Net!Nul>> \/ junk = <<"junk", Net!Nul>>
<1>1. <<Net!Nul>> \in Seq({Net!Nul, "junk"}) /\ <<"junk", Net!Nul>> \in Seq({Net!Nul, "junk"})
  OBVIOUS
<1> QED
  BY <1>1 DEF Net!Junk

LEMMA ShortIsWhole ==
  ASSUME message \in Messages, Len(message) < PointerSize, message # Net!Absent,
         NEW junk \in Net!Junk
  PROVE  Net!UpToNul(Net!Sent \o junk) = message
<1> DEFINE S == Net!ToSet(message) \union {Net!Nul, "environ", "junk"}
           environ == [l \in 1..PointerSize |-> "environ"]
           k == Len(message) + 1
<1>1. /\ message \in Seq(S) /\ environ \in Seq(S) /\ junk \in Seq(S)
      /\ <<Net!Nul>> \in Seq(S) /\ Len(environ) = PointerSize /\ PointerSize \in Nat
  <2>1. PointerSize \in Nat /\ message \in Seq(Net!ToSet(message))
    BY DatagramAssumption DEF DatagramAssumption
  <2>2. message \in Seq(S)
    BY <2>1, SeqMonotonic
  <2> HIDE DEF S
  <2>3. {Net!Nul, "environ", "junk"} \subseteq S
    BY DEF S
  <2>4. environ \in Seq(S) /\ Len(environ) = PointerSize
    BY <2>1, <2>3
  <2>5. <<Net!Nul>> \in Seq(S) /\ junk \in Seq(S)
    BY <2>3, JunkSeq, SingletonSeq, SeqMonotonic
  <2> QED
    BY <2>1, <2>2, <2>4, <2>5
<1>2. Len(message) \in Nat /\ k \in 1..PointerSize
  BY <1>1, LenProperties
<1> HIDE DEF S, environ
<1>3. /\ message \o <<Net!Nul>> \in Seq(S)
      /\ Len(message \o <<Net!Nul>>) = k
      /\ \A l \in 1..k : (message \o <<Net!Nul>>)[l] =
                          IF l < k THEN message[l] ELSE Net!Nul
  BY <1>1, <1>2, ConcatProperties
<1>4. /\ Net!Behind \in Seq(S) /\ Len(Net!Behind) = k + PointerSize
      /\ \A l \in 1..k : Net!Behind[l] = IF l < k THEN message[l] ELSE Net!Nul
  <2>1. Net!Behind = (message \o <<Net!Nul>>) \o environ
    BY DEF Net!Behind, environ
  <2> DEFINE t == message \o <<Net!Nul>>
  <2>2. t \in Seq(S) /\ Len(t) = k
    BY <1>3
  <2>3. /\ t \o environ \in Seq(S) /\ Len(t \o environ) = k + PointerSize
        /\ \A l \in 1..k + PointerSize : (t \o environ)[l] =
                IF l <= k THEN t[l] ELSE environ[l - k]
    <3> HIDE DEF t
    <3>1. /\ t \o environ \in Seq(S) /\ Len(t \o environ) = Len(t) + Len(environ)
          /\ \A l \in 1..Len(t) + Len(environ) : (t \o environ)[l] =
                IF l <= Len(t) THEN t[l] ELSE environ[l - Len(t)]
      BY <1>1, <2>2, ConcatProperties
    <3> QED
      BY <1>1, <2>2, <3>1
  <2>4. \A l \in 1..k : l \in 1..k + PointerSize /\ l <= k
    BY <1>1, <1>2
  <2> QED
    BY <1>3, <2>1, <2>3, <2>4
<1>5. /\ Net!Sent \in Seq(S) /\ Len(Net!Sent) = PointerSize
      /\ \A l \in 1..k : Net!Sent[l] = IF l < k THEN message[l] ELSE Net!Nul
  <2>1. \A l \in 1..PointerSize : Net!Behind[l] \in S
    BY <1>1, <1>2, <1>4, ElementOfSeq
  <2> QED
    BY <1>1, <1>2, <1>4, <2>1, SubSeqProperties DEF Net!Sent
<1> DEFINE s == Net!Sent \o junk
<1>6. /\ s \in Seq(S) /\ k \in 1..Len(s)
      /\ \A l \in 1..k : s[l] = IF l < k THEN message[l] ELSE Net!Nul
  BY <1>1, <1>2, <1>5, ConcatProperties, LenProperties
<1>7. \A l \in 1..k - 1 : message[l] # Net!Nul
  <2>1. Net!Nul \notin Net!ToSet(message)
    BY DatagramAssumption DEF DatagramAssumption
  <2>2. \A l \in 1..k - 1 : l \in DOMAIN message
    BY <1>1, <1>2, LenProperties
  <2> QED
    BY <2>1, <2>2 DEF Net!ToSet
<1> HIDE DEF s
<1>8. Net!UpToNul(s) = SubSeq(s, 1, k - 1)
  BY <1>2, <1>6, <1>7, UpToFirstNul
<1>9. SubSeq(s, 1, k - 1) = message
  <2>1. \A l \in 1..k - 1 : s[l] \in S
    BY <1>2, <1>6, ElementOfSeq
  <2>2. /\ SubSeq(s, 1, k - 1) \in Seq(S) /\ Len(SubSeq(s, 1, k - 1)) = k - 1
        /\ \A l \in 1..k - 1 : SubSeq(s, 1, k - 1)[l] = s[l]
    BY <1>2, <2>1, SubSeqProperties
  <2> QED
    BY <1>1, <1>2, <1>6, <2>2, SeqEqual
<1> QED
  BY <1>8, <1>9 DEF s

LEMMA ShortArrives == NetOK => Net!ShortMessageArrives
<1> SUFFICES ASSUME NetOK, NEW c \in Clients, netPeer[c] = "ended"
             PROVE  IF c \in served
                    THEN message # Net!Absent /\ Len(message) < PointerSize
                           => output[c] = message
                    ELSE Net!ToSet(output[c]) \subseteq {"junk"}
  BY DEF Net!ShortMessageArrives
<1>1. PICK junk \in Net!Junk : output[c] = Net!UpToNul(socket[c] \o junk)
  BY DEF NetOK
<1>2. CASE c \in served
  BY <1>1, <1>2, ShortIsWhole DEF NetOK
<1>3. CASE c \notin served
  <2>1. socket[c] = <<>>
    BY <1>3 DEF NetOK
  <2>2. junk \in Seq({Net!Nul, "junk"}) /\ <<>> \o junk = junk
    BY JunkSeq, ConcatEmptySeq
  <2>3. CASE junk = <<Net!Nul>>
    <3>1. Len(junk) = 1 /\ junk[1] = Net!Nul
      BY <2>3
    <3>2. Net!UpToNul(junk) = SubSeq(junk, 1, 0)
      BY <2>2, <3>1, UpToFirstNul
    <3>3. SubSeq(junk, 1, 0) = <<>>
      BY SubSeqEmpty
    <3>4. output[c] = <<>>
      BY <1>1, <2>1, <2>2, <3>2, <3>3
    <3> QED
      BY <1>3, <3>4 DEF Net!ToSet
  <2>4. CASE junk = <<"junk", Net!Nul>>
    <3>1. Len(junk) = 2 /\ junk[1] = "junk" /\ junk[2] = Net!Nul /\ "junk" # Net!Nul
      BY <2>4 DEF Net!Nul
    <3>0. /\ 2 \in 1..Len(junk) /\ junk[2] = Net!Nul
          /\ \A l \in 1..2 - 1 : junk[l] # Net!Nul
      BY <3>1
    <3>2. Net!UpToNul(junk) = SubSeq(junk, 1, 1)
      <4>1. Net!UpToNul(junk) = SubSeq(junk, 1, 2 - 1)
        BY <2>2, <3>0, UpToFirstNul
      <4> QED
        BY <4>1
    <3>3. DOMAIN SubSeq(junk, 1, 1) = {1} /\ SubSeq(junk, 1, 1)[1] = "junk"
      BY <3>1
    <3>4. output[c] = SubSeq(junk, 1, 1)
      BY <1>1, <2>1, <2>2, <3>2
    <3> QED
      BY <1>3, <3>3, <3>4 DEF Net!ToSet
  <2> QED
    BY <2>3, <2>4, JunkSeq
<1> QED
  BY <1>2, <1>3

-----------------------------------------------------------------------------
(* SearchFile.                                                               *)

LEMMA SameCardinality ==
  ASSUME NEW S, IsFiniteSet(S) PROVE Find!Cardinality(S) = Cardinality(S)
BY DEF Find!Cardinality, Cardinality

\* readdir returns every entry.
LEMMA EntriesOfSet ==
  ASSUME NEW S, IsFiniteSet(S), NEW f \in Find!SetToSeqs(S)
  PROVE  f \in Seq(S) /\ Find!ToSet(f) = S
<1> DEFINE D == 1..Cardinality(S)
<1>1. Cardinality(S) \in Nat
  BY FS_CardinalityType
<1>2. IsFiniteSet(D) /\ Cardinality(D) = Cardinality(S)
  BY <1>1, FS_Interval
<1>3. f \in [D -> S] /\ \A k, l \in D : k # l => f[k] # f[l]
  BY SameCardinality DEF Find!SetToSeqs
<1>4. f \in Injection(D, S)
  BY <1>3, Fun_IsInj
<1>5. f \in Surjection(D, S)
  <2> HIDE DEF D
  <2> QED
    BY <1>2, <1>4, FS_Injection
<1>6. f \in Seq(S)
  BY <1>1, <1>3
<1>7. \A x \in S : \E k \in D : f[k] = x
  BY <1>5 DEF Surjection
<1> QED
  BY <1>3, <1>6, <1>7 DEF Find!ToSet

\* The entry looked for is still to come until the answer is printed, and it
\* is printed as what it is where the process is by then; only an entry that
\* is a directory, or leads to one, has moved the process.
FindOK ==
  /\ DOMAIN tree \subseteq Find!Paths /\ DOMAIN link \subseteq Find!Paths
  /\ \A p \in DOMAIN link : link[p] \in DOMAIN tree \union {Find!Null}
  /\ dir \in {"closed", "open", "failed"}
  /\ entries \in Seq(Find!Names)
  /\ \A k \in 1..Len(entries) : <<entries[k]>> \in Find!There
  /\ cwd = <<>> \/ Find!IsDir(tree, cwd)
  /\ cwd # <<>> => \E d \in Others : Find!Enters(<<d>>)
  /\ result = Find!Nothing =>
       (<<Wanted>> \in Find!There <=> \E k \in 1..Len(entries) : entries[k] = Wanted)
  /\ result # Find!Nothing =>
       /\ entries = <<>> /\ <<Wanted>> \in Find!There
       /\ result = Find!Realpath(Wanted)

LEMMA PathFacts ==
  /\ \A p \in Find!Paths : p \in Seq(Find!Names) /\ p # <<>>
  /\ Wanted \in Find!Names
<1>1. \A a \in Find!Names : <<a>> \in Seq(Find!Names) /\ <<a>> # <<>>
  BY SingletonSeq
<1>2. \A a \in Others, b \in Find!Names :
        <<a, b>> \in Seq(Find!Names) /\ <<a, b>> # <<>>
  BY DEF Find!Names
<1>3. Wanted \in Find!Names
  BY DEF Find!Names
<1>4. \A p \in Find!Paths : \/ \E a \in Find!Names : p = <<a>>
                          \/ \E a \in Others, b \in Find!Names : p = <<a, b>>
  BY DEF Find!Paths, Find!Inner
<1>5. ASSUME NEW p \in Find!Paths PROVE p \in Seq(Find!Names) /\ p # <<>>
  <2>1. CASE \E a \in Find!Names : p = <<a>>
    BY <1>1, <2>1
  <2>2. CASE \E a \in Others, b \in Find!Names : p = <<a, b>>
    BY <1>2, <2>2
  <2> QED
    BY <1>4, <1>5, <2>1, <2>2
<1> QED
  BY <1>3, <1>5

LEMMA CwdIsPath == FindOK => cwd \in Seq(Find!Names)
<1>1. <<>> \in Seq(Find!Names)
  BY EmptySeq
<1>2. Find!IsDir(tree, cwd) => cwd \in DOMAIN tree
  BY DEF Find!IsDir
<1> QED
  BY <1>1, <1>2, PathFacts DEF FindOK

\* What realpath gives is there, or NULL.
LEMMA ResolveFacts ==
  ASSUME FindOK, NEW p
  PROVE  /\ Find!Resolve(p) \in DOMAIN tree \union {Find!Null}
         /\ Find!Resolve(p) # <<>>
         /\ Find!Resolve(p) # Find!Null =>
              Find!Resolve(p) = p \/ (p \in DOMAIN link /\ link[p] = Find!Resolve(p))
<1>1. Find!Resolve(p) \in DOMAIN tree \union {Find!Null}
  BY DEF FindOK, Find!Resolve
<1>2. Find!Null # <<>>
  BY DEF Find!Null
<1>3. \A q \in DOMAIN tree : q # <<>>
  BY PathFacts DEF FindOK
<1>4. \/ Find!Resolve(p) = p \/ Find!Resolve(p) = Find!Null
      \/ p \in DOMAIN link /\ link[p] = Find!Resolve(p)
  <2>1. CASE p \in DOMAIN link
    BY <2>1 DEF Find!Resolve
  <2>2. CASE p \notin DOMAIN link
    BY <2>2 DEF Find!Resolve
  <2> QED
    BY <2>1, <2>2
<1> QED
  BY <1>1, <1>2, <1>3, <1>4

LEMMA FindInit == Find!Init => FindOK
<1> SUFFICES ASSUME Find!Init PROVE FindOK
  OBVIOUS
<1> DEFINE S == {name \in Find!Names : <<name>> \in Find!There}
<1>1. DOMAIN tree \subseteq Find!Paths
  BY DEF Find!Init, Find!Trees
<1>L. /\ DOMAIN link \subseteq Find!Paths
      /\ \A p \in DOMAIN link : link[p] \in DOMAIN tree \union {Find!Null}
  BY DEF Find!Init, Find!Links
<1>2. IsFiniteSet(S)
  <2>1. IsFiniteSet(Find!Names)
    BY SearchAssumption, FS_AddElement DEF SearchAssumption, Find!Names
  <2>2. S \in SUBSET Find!Names
    OBVIOUS
  <2> HIDE DEF S
  <2> QED
    BY <2>1, <2>2, FS_Subset
<1>3. entries \in Find!SetToSeqs(S)
  BY DEF Find!Init
<1>4. entries \in Seq(S) /\ Find!ToSet(entries) = S
  <2> HIDE DEF S
  <2> QED
    BY <1>2, <1>3, EntriesOfSet
<1>5. entries \in Seq(Find!Names)
  BY <1>4, SeqMonotonic
<1>6. \A k \in 1..Len(entries) : <<entries[k]>> \in Find!There
  BY <1>4, ElementOfSeq
<1>7. <<Wanted>> \in Find!There <=> \E k \in 1..Len(entries) : entries[k] = Wanted
  <2>1. Find!ToSet(entries) = {entries[k] : k \in 1..Len(entries)}
    BY <1>4, LenProperties DEF Find!ToSet
  <2>2. <<Wanted>> \in Find!There <=> Wanted \in S
    BY PathFacts
  <2> QED
    BY <1>4, <2>1, <2>2
<1>8. dir = "closed" /\ cwd = <<>> /\ result = Find!Nothing
  BY DEF Find!Init
<1> HIDE DEF S
<1> QED
  BY <1>1, <1>L, <1>5, <1>6, <1>7, <1>8 DEF FindOK

\* What the other steps leave alone stays right.
LEMMA FindNext == FindOK /\ [Find!Next]_findVars => FindOK'
<1> SUFFICES ASSUME FindOK, [Find!Next]_findVars PROVE FindOK'
  OBVIOUS
<1>0. /\ tree' = tree /\ link' = link /\ Find!There' = Find!There
      /\ Find!Realpath(Wanted)' = Find!Resolve(Append(cwd', Wanted))
      /\ (\E d \in Others : Find!Enters(<<d>>))' = \E d \in Others : Find!Enters(<<d>>)
  <2>1. tree' = tree /\ link' = link
    BY DEF Find!Next, findVars, Find!Opendir, Find!Found, Find!Other
  <2> QED
    BY <2>1 DEF Find!There, Find!Realpath, Find!Resolve, Find!Enters, Find!IsDir
<1>1. CASE Find!Found
  <2>1. /\ result = Find!Nothing /\ entries # <<>> /\ Head(entries) = Wanted
        /\ result' = Find!Realpath(Wanted) /\ entries' = <<>> /\ cwd' = cwd
        /\ dir' = dir
    BY <1>1 DEF Find!Found, Find!Reads
  <2>2. <<Wanted>> \in Find!There
    <3>1. 1 \in 1..Len(entries) /\ entries[1] = Wanted
      BY <2>1, EmptySeq DEF FindOK
    <3> QED
      BY <3>1 DEF FindOK
  <2>3. result' = Find!Realpath(Wanted)' /\ result' # Find!Nothing
    BY <1>0, <2>1, ResolveFacts DEF Find!Realpath, Find!Nothing
  <2>4. entries' \in Seq(Find!Names) /\ Len(entries') = 0
    BY <2>1
  <2>5. cwd' = <<>> \/ Find!IsDir(tree', cwd')
    BY <1>0, <2>1 DEF FindOK, Find!IsDir
  <2>6. /\ DOMAIN tree' \subseteq Find!Paths /\ DOMAIN link' \subseteq Find!Paths
        /\ \A p \in DOMAIN link' : link'[p] \in DOMAIN tree' \union {Find!Null}
        /\ dir' \in {"closed", "open", "failed"}
        /\ cwd' # <<>> => \E d \in Others : Find!Enters(<<d>>)
    BY <1>0, <2>1 DEF FindOK
  <2>7. \A k \in 1..Len(entries') : <<entries'[k]>> \in Find!There
    BY <2>4
  <2> QED
    BY <1>0, <2>1, <2>2, <2>3, <2>4, <2>5, <2>6, <2>7 DEF FindOK, Find!Nothing, Find!Null
<1>2. CASE Find!Other
  <2>1. /\ result = Find!Nothing /\ entries # <<>> /\ Head(entries) # Wanted
        /\ result' = result /\ entries' = Tail(entries) /\ dir' = dir
        /\ \/ cwd' = cwd
           \/ /\ Find!Enters(Append(cwd, Head(entries)))
              /\ cwd' = Find!Resolve(Append(cwd, Head(entries)))
    BY <1>2 DEF Find!Other, Find!Reads
  <2>2. /\ entries' \in Seq(Find!Names) /\ Len(entries') = Len(entries) - 1
        /\ Len(entries) \in Nat \ {0} /\ entries[1] # Wanted
        /\ entries[1] = Head(entries)
        /\ \A k \in 1..Len(entries') : entries'[k] = entries[k + 1]
    BY <2>1, EmptySeq, HeadTailProperties DEF FindOK
  <2>3. \A k \in 1..Len(entries') : k + 1 \in 1..Len(entries)
    BY <2>2
  <2>4. \A k \in 1..Len(entries) : k # 1 => k - 1 \in 1..Len(entries') /\ entries'[k - 1] = entries[k]
    BY <2>2
  <2>5. (\E k \in 1..Len(entries) : entries[k] = Wanted)
          <=> \E k \in 1..Len(entries') : entries'[k] = Wanted
    BY <2>2, <2>3, <2>4
  <2>6. \A k \in 1..Len(entries') : <<entries'[k]>> \in Find!There
    BY <2>2, <2>3 DEF FindOK
  <2>7. cwd' = <<>> \/ Find!IsDir(tree', cwd')
    BY <1>0, <2>1 DEF FindOK, Find!IsDir, Find!Enters
  <2>8. cwd' # <<>> => \E d \in Others : Find!Enters(<<d>>)
    <3>1. CASE cwd = <<>>
      <4>1. entries[1] \in Others /\ Append(cwd, entries[1]) = <<entries[1]>>
        BY <2>2, <3>1, ElementOfSeq DEF FindOK, Find!Names
      <4> QED
        BY <2>1, <2>2, <3>1, <4>1
    <3>2. CASE cwd # <<>>
      BY <3>2 DEF FindOK
    <3> QED
      BY <3>1, <3>2
  <2> QED
    BY <1>0, <2>1, <2>2, <2>5, <2>6, <2>7, <2>8 DEF FindOK, Find!Nothing, Find!Null
<1>3. CASE Find!Opendir \/ UNCHANGED findVars
  <2>1. /\ entries' = entries /\ cwd' = cwd /\ result' = result
        /\ dir' \in {"closed", "open", "failed"}
    BY <1>3 DEF findVars, Find!Opendir, FindOK
  <2>2. cwd' = <<>> \/ Find!IsDir(tree', cwd')
    BY <1>0, <2>1 DEF FindOK, Find!IsDir
  <2>3. Find!Realpath(Wanted)' = Find!Realpath(Wanted)
    BY <1>0, <2>1 DEF Find!Realpath
  <2> QED
    BY <1>0, <2>1, <2>2, <2>3 DEF FindOK, Find!Nothing, Find!Null
<1> QED
  BY <1>1, <1>2, <1>3 DEF Find!Next

LEMMA FindSafe == FindOK => Find!AnswerIsThere /\ Find!TypeOK
<1> SUFFICES ASSUME FindOK PROVE Find!AnswerIsThere /\ Find!TypeOK
  OBVIOUS
<1> DEFINE path == Append(cwd, Wanted)
<1>1. cwd \in Seq(Find!Names) /\ Wanted \in Find!Names
  BY PathFacts, CwdIsPath
<1>2. Find!Last(path) = Wanted
  BY <1>1, AppendProperties DEF Find!Last
<1>3. cwd = <<>> => path = <<Wanted>>
  OBVIOUS
<1>4. result # Find!Nothing =>
        /\ result = Find!Resolve(path) /\ result \in DOMAIN tree \union {Find!Null}
        /\ result # Find!Null => result = path \/ (path \in DOMAIN link /\ link[path] = result)
  BY ResolveFacts DEF FindOK, Find!Realpath
<1> HIDE DEF path
<1>5. Find!AnswerIsThere
  <2>1. SUFFICES ASSUME entries = <<>>
                 PROVE  /\ <<Wanted>> \in Find!There <=> result # Find!Nothing
                        /\ result \notin {Find!Nothing, Find!Null} =>
                             /\ result \in DOMAIN tree
                             /\ \/ Find!Last(result) = Wanted
                                \/ \E p \in DOMAIN link :
                                     Find!Last(p) = Wanted /\ link[p] = result
                        /\ result # Find!Nothing
                             /\ (\A d \in Others : ~Find!Enters(<<d>>)) =>
                             result = Find!Resolve(<<Wanted>>)
    BY DEF Find!AnswerIsThere
  <2>2. Len(entries) = 0
    BY <2>1
  <2>3. <<Wanted>> \in Find!There <=> result # Find!Nothing
    BY <2>2 DEF FindOK
  <2>4. (\A d \in Others : ~Find!Enters(<<d>>)) => cwd = <<>>
    BY DEF FindOK
  <2> QED
    BY <1>2, <1>3, <1>4, <2>3, <2>4
<1>6. Find!ToSet(entries) \subseteq Find!Names
  BY DEF FindOK, Find!ToSet
<1>7. result \in Find!Paths \union {Find!Nothing, Find!Null}
  BY <1>4 DEF FindOK
<1> QED
  BY <1>5, <1>6, <1>7 DEF FindOK, Find!TypeOK

-----------------------------------------------------------------------------
(* Figures.                                                                  *)

\* Until the end, what is printed or copied is about the numbers before curr.
Passed == IF curr = 0 THEN Len(nodes) ELSE curr - 1
Thrice(p) ==
  {a \in Lists!FirstPlaces(given) : a <= p /\ Lists!Times(given[a], given) = 3}
\* pos are the places of the numbers printed, in that order.
PrintedAt(pos, p) ==
  /\ pos \in Seq(Thrice(p)) /\ Len(pos) = Len(out)
  /\ \A k \in 1..Len(pos) : out[k] = given[pos[k]]
  /\ \A k, l \in 1..Len(pos) : k < l => pos[k] < pos[l]
  /\ \A a \in Thrice(p) : \E k \in 1..Len(pos) : pos[k] = a
\* The nodes were allocated in the order of their links, which ends at 0.
HeapOK ==
  /\ nodes \in Seq([x : Numbers \union {Lists!Junk}, next : Nat])
  /\ given \in Seq(Numbers \union {Lists!Junk})
  /\ Len(given) = Len(nodes) /\ Len(nodes) <= Memory
  /\ \A a \in 1..Len(nodes) :
       /\ nodes[a].x = given[a]
       /\ nodes[a].next = IF a = Len(nodes) THEN 0 ELSE a + 1
  /\ head = (IF Len(nodes) = 0 THEN 0 ELSE 1) /\ tail = Len(nodes)
  /\ num \in Numbers \union {Lists!Junk} /\ curr \in 0..Len(nodes)
ListOK ==
  /\ HeapOK /\ out \in Seq(Numbers \union {Lists!Junk})
  /\ task \in {"figures", "arrays"}
  /\ stage \in {"read", "stuck", "print", "copy", "done", "crashed"}
  /\ stage = "print" => task = "figures"
  /\ stage = "copy" => task = "arrays"
  /\ stage = "done" => curr = 0
  /\ stage \in {"read", "stuck"} => out = <<>> /\ curr = 0
  /\ stage \in {"copy", "done"} /\ task = "arrays" => out = SubSeq(given, 1, Passed)
  /\ stage \in {"print", "done"} /\ task = "figures" =>
       \E pos : PrintedAt(pos, Passed)

\* The nodes from an address on are the address and those allocated later.
Later(a) == IF a = 0 THEN <<>> ELSE [k \in 1..Len(nodes) - a + 1 |-> a + k - 1]
LEMMA LaterNext ==
  ASSUME HeapOK, NEW a \in 1..Len(nodes)
  PROVE  <<a>> \o Later(nodes[a].next) = Later(a)
<1>0. Len(nodes) \in Nat
  BY LenProperties DEF HeapOK
<1>1. CASE a = Len(nodes)
  <2>1. nodes[a].next = 0
    BY <1>1 DEF HeapOK
  <2>2. Later(a) = [k \in 1..1 |-> a]
    BY <1>0, <1>1 DEF Later
  <2>3. <<a>> \o <<>> = <<a>>
    OBVIOUS
  <2>4. Later(nodes[a].next) = <<>>
    BY <2>1 DEF Later
  <2>5. <<a>> = [k \in 1..1 |-> a]
    OBVIOUS
  <2> QED
    BY <2>2, <2>3, <2>4, <2>5
<1>2. CASE a # Len(nodes)
  <2>1. nodes[a].next = a + 1 /\ a + 1 # 0
    BY <1>2 DEF HeapOK
  <2> DEFINE s == [k \in 1..Len(nodes) - (a + 1) + 1 |-> a + 1 + k - 1]
  <2>2. Later(a + 1) = s
    BY <2>1 DEF Later
  <2>3. s \in Seq(Nat) /\ Len(s) = Len(nodes) - a
    BY <1>0, <1>2
  <2>4. <<a>> \in Seq(Nat) /\ Len(<<a>>) = 1 /\ <<a>>[1] = a
    OBVIOUS
  <2>5. \A k \in 1..Len(s) : s[k] = a + k
    BY <1>0, <2>3
  <2> HIDE DEF s
  <2>6. /\ <<a>> \o s \in Seq(Nat) /\ Len(<<a>> \o s) = Len(nodes) - a + 1
        /\ \A k \in 1..Len(nodes) - a + 1 : (<<a>> \o s)[k] = a + k - 1
    BY <1>0, <2>3, <2>4, <2>5, ConcatProperties
  <2>7. Later(a) = [k \in 1..Len(nodes) - a + 1 |-> a + k - 1]
    BY DEF Later
  <2>8. <<a>> \o s = Later(a)
    BY <1>0, <2>6, <2>7, LenProperties
  <2> QED
    BY <2>1, <2>2, <2>8
<1> QED
  BY <1>1, <1>2

LEMMA FromIsLater ==
  ASSUME HeapOK, NEW a \in 0..Len(nodes)
  PROVE  Lists!From(a) = Later(a)
<1> DEFINE Walks(w) == w = [b \in 0..Len(nodes) |->
                              IF b = 0 THEN <<>> ELSE <<b>> \o w[nodes[b].next]]
           F == [b \in 0..Len(nodes) |-> Later(b)]
           walk == CHOOSE w : Walks(w)
<1>0. Len(nodes) \in Nat
  BY LenProperties DEF HeapOK
<1>1. Lists!From(a) = walk[a]
  BY DEF Lists!From, Lists!NULL
<1>2. \A b \in 1..Len(nodes) : nodes[b].next \in 0..Len(nodes)
  BY <1>0 DEF HeapOK
<1>3. Walks(F)
  <2>1. ASSUME NEW b \in 0..Len(nodes)
        PROVE  F[b] = IF b = 0 THEN <<>> ELSE <<b>> \o F[nodes[b].next]
    <3>1. CASE b = 0
      BY <3>1 DEF Later
    <3>2. CASE b # 0
      <4>1. b \in 1..Len(nodes)
        BY <1>0, <3>2
      <4>2. F[nodes[b].next] = Later(nodes[b].next) /\ F[b] = Later(b)
        BY <1>2, <4>1
      <4> HIDE DEF F
      <4> QED
        BY <3>2, <4>1, <4>2, LaterNext
    <3> QED
      BY <3>1, <3>2
  <2> QED
    BY <2>1
<1>4. ASSUME NEW w, Walks(w) PROVE \A b \in 0..Len(nodes) : w[b] = Later(b)
  <2> SUFFICES ASSUME {b \in 0..Len(nodes) : w[b] # Later(b)} # {} PROVE FALSE
    OBVIOUS
  <2>1. PICK b \in {b \in 0..Len(nodes) : w[b] # Later(b)} :
          \A c \in {c \in 0..Len(nodes) : w[c] # Later(c)} : c <= b
    BY <1>0, Greatest
  <2>2. b # 0
    BY <1>4 DEF Later
  <2>3. w[b] = <<b>> \o w[nodes[b].next]
    BY <1>4, <2>2
  <2>4. w[nodes[b].next] = Later(nodes[b].next)
    <3>1. nodes[b].next = 0 \/ nodes[b].next > b
      BY <1>0, <2>2 DEF HeapOK
    <3>2. CASE nodes[b].next = 0
      BY <1>0, <1>4, <3>2 DEF Later
    <3>3. CASE nodes[b].next > b
      BY <1>0, <1>2, <2>1, <2>2, <3>3
    <3> QED
      BY <3>1, <3>2, <3>3
  <2>5. b \in 1..Len(nodes) /\ w[b] # Later(b)
    BY <1>0, <2>1, <2>2
  <2>6. w[b] = Later(b)
    BY <2>3, <2>4, <2>5, LaterNext
  <2> QED
    BY <2>5, <2>6
<1>5. Walks(walk)
  <2> HIDE DEF Walks, F
  <2> QED
    BY <1>3
<1> QED
  <2> HIDE DEF Walks, walk
  <2> QED
    BY <1>1, <1>4, <1>5


\* All places of the numbers given, as the walks from the head find them.
LEMMA FromHead ==
  ASSUME HeapOK
  PROVE  /\ Lists!From(head) = [k \in 1..Len(nodes) |-> k]
         /\ Lists!From(head) \in Seq(Nat) /\ Len(Lists!From(head)) = Len(nodes)
         /\ Len(nodes) \in Nat
<1>0. Len(nodes) \in Nat
  BY LenProperties DEF HeapOK
<1>1. head \in 0..Len(nodes)
  BY <1>0 DEF HeapOK
<1>2. Lists!From(head) = Later(head)
  BY <1>1, FromIsLater
<1>3. Later(head) = [k \in 1..Len(nodes) |-> k]
  BY <1>0 DEF Later, HeapOK
<1> QED
  BY <1>0, <1>2, <1>3

LEMMA AtCurr ==
  ASSUME HeapOK, curr \in 1..Len(nodes)
  PROVE  /\ Lists!Meets = Lists!Times(given[curr], given)
         /\ Lists!Meeted <=> \E b \in 1..curr - 1 : given[b] = given[curr]
<1> DEFINE path == Lists!From(head)
<1>0. /\ path = [k \in 1..Len(nodes) |-> k] /\ Len(nodes) \in Nat /\ path \in Seq(Nat)
      /\ DOMAIN path = 1..Len(nodes) /\ Len(path) = Len(nodes)
  BY FromHead
<1>1. \A a \in 1..Len(nodes) : Lists!Same(a) <=> given[a] = given[curr]
  BY DEF Lists!Same, HeapOK
<1>2. Lists!Meets = Lists!Times(given[curr], given)
  <2>1. DOMAIN given = 1..Len(nodes)
    BY LenProperties DEF HeapOK
  <2>2. {k \in DOMAIN path : Lists!Same(path[k])}
          = {k \in DOMAIN given : given[k] = given[curr]}
    BY <1>0, <1>1, <2>1
  <2>3. \A S : Lists!Cardinality(S) = Cardinality(S)
    BY DEF Lists!Cardinality, Cardinality
  <2> HIDE DEF path
  <2> QED
    BY <2>2 DEF Lists!Meets, Lists!Times, path
<1>3. Lists!SelectInSeq(path, LAMBDA a : a = curr) = curr
  <2> DEFINE I == {k \in 1..Len(path) : path[k] = curr}
  <2>1. I = {curr}
    BY <1>0
  <2>2. Lists!Min(I) = curr
    <3>1. curr \in Int
      BY <1>0
    <3> HIDE DEF I
    <3> QED
      BY <2>1, <3>1 DEF Lists!Min
  <2> HIDE DEF path
  <2> QED
    BY <2>1, <2>2 DEF Lists!SelectInSeq
<1>4. Lists!Before = SubSeq(path, 1, curr - 1)
  BY <1>3 DEF Lists!Before
<1>5. /\ DOMAIN SubSeq(path, 1, curr - 1) = 1..curr - 1
      /\ \A k \in 1..curr - 1 : SubSeq(path, 1, curr - 1)[k] = k
  <2>1. \A k \in 1..curr - 1 : path[k] = k /\ path[k] \in Nat
    BY <1>0
  <2>2. curr - 1 \in Nat
    BY <1>0
  <2> HIDE DEF path
  <2>3. /\ SubSeq(path, 1, curr - 1) \in Seq(Nat)
        /\ Len(SubSeq(path, 1, curr - 1)) = curr - 1
        /\ \A k \in 1..curr - 1 : SubSeq(path, 1, curr - 1)[k] = path[k]
    BY <2>1, <2>2, SubSeqProperties
  <2> QED
    BY <2>1, <2>3, LenProperties
<1>6. Lists!Meeted <=> \E b \in 1..curr - 1 : given[b] = given[curr]
  <2>1. \A k \in 1..curr - 1 : k \in 1..Len(nodes)
    BY <1>0
  <2>2. DOMAIN Lists!Before = 1..curr - 1 /\ \A k \in 1..curr - 1 : Lists!Before[k] = k
    BY <1>4, <1>5, Zenon
  <2> HIDE DEF path
  <2>3. Lists!Meeted <=> \E b \in 1..curr - 1 : Lists!Same(b)
    BY <2>2 DEF Lists!Meeted
  <2> QED
    BY <1>1, <2>1, <2>3, Zenon
<1> QED
  BY <1>2, <1>6


LEMMA ListInit == Lists!Init => ListOK
<1> SUFFICES ASSUME Lists!Init PROVE ListOK
  OBVIOUS
<1>1. /\ task \in {"figures", "arrays"} /\ stage = "read" /\ nodes = <<>> /\ head = 0
      /\ tail = 0 /\ num = Lists!Junk /\ curr = 0 /\ out = <<>> /\ given = <<>>
  BY DEF Lists!Init, Lists!NULL
<1>2. Len(nodes) = 0 /\ Len(given) = 0 /\ Memory \in Nat
  BY <1>1, ListAssumption DEF ListAssumption
<1>3. HeapOK
  BY <1>1, <1>2 DEF HeapOK
<1> QED
  BY <1>1, <1>3 DEF ListOK

LEMMA AddElementKeeps ==
  ASSUME HeapOK, NEW x \in Numbers \union {Lists!Junk}, Lists!AddElement(x),
         given' = Append(given, x), Len(nodes) < Memory,
         num' \in Numbers \union {Lists!Junk}, curr' = curr
  PROVE  HeapOK'
<1> DEFINE X == Numbers \union {Lists!Junk}
           Node == [x : X, next : Nat]
           L == Len(nodes)
           linked == IF head = 0 THEN nodes ELSE [nodes EXCEPT ![tail].next = L + 1]
           new == [x |-> x, next |-> 0]
<1>0. /\ L \in Nat /\ nodes \in Seq(Node) /\ given \in Seq(X) /\ Len(given) = L
      /\ head = (IF L = 0 THEN 0 ELSE 1) /\ tail = L
  BY LenProperties DEF HeapOK
<1>1. /\ nodes' = Append(linked, new) /\ head' = (IF head = 0 THEN L + 1 ELSE head)
      /\ tail' = L + 1
  BY DEF Lists!AddElement, Lists!Link, Lists!NULL
<1>2. /\ linked \in Seq(Node) /\ Len(linked) = L
      /\ \A a \in 1..L : /\ linked[a].x = nodes[a].x
                         /\ linked[a].next = IF a = L THEN L + 1 ELSE nodes[a].next
  <2>1. CASE L = 0
    BY <1>0, <2>1
  <2>2. CASE L # 0
    <3>1. linked = [nodes EXCEPT ![L] = [nodes[L] EXCEPT !.next = L + 1]] /\ L \in 1..L
      BY <1>0, <2>2
    <3>2. nodes[L] \in Node
      BY <1>0, <3>1, ElementOfSeq
    <3>3. /\ [nodes[L] EXCEPT !.next = L + 1] \in Node
          /\ [nodes[L] EXCEPT !.next = L + 1].x = nodes[L].x
          /\ [nodes[L] EXCEPT !.next = L + 1].next = L + 1
      BY <1>0, <3>2
    <3>4. /\ linked \in Seq(Node) /\ Len(linked) = L
          /\ \A a \in 1..L : linked[a] = IF a = L THEN [nodes[L] EXCEPT !.next = L + 1]
                                                  ELSE nodes[a]
      <4> HIDE DEF Node, linked
      <4> QED
        BY <1>0, <3>1, <3>3, ExceptSeq
    <3> HIDE DEF linked, Node
    <3> QED
      BY <3>3, <3>4
  <2> QED
    BY <2>1, <2>2
<1>3. new \in Node /\ new.x = x /\ new.next = 0
  OBVIOUS
<1> HIDE DEF linked, Node, new
<1>4. /\ nodes' \in Seq(Node) /\ Len(nodes') = L + 1 /\ nodes'[L + 1] = new
      /\ \A a \in 1..L : nodes'[a] = linked[a]
  BY <1>1, <1>2, <1>3, AppendProperties
<1>5. /\ given' \in Seq(X) /\ Len(given') = L + 1 /\ given'[L + 1] = x
      /\ \A a \in 1..L : given'[a] = given[a]
  BY <1>0, AppendProperties
<1>6. ASSUME NEW a \in 1..L + 1
      PROVE  nodes'[a].x = given'[a] /\ nodes'[a].next = IF a = L + 1 THEN 0 ELSE a + 1
  <2>1. CASE a = L + 1
    BY <1>3, <1>4, <1>5, <2>1
  <2>2. CASE a # L + 1
    <3>1. a \in 1..L
      BY <1>0, <2>2
    <3>2. nodes[a].x = given[a] /\ nodes[a].next = IF a = L THEN 0 ELSE a + 1
      BY <3>1 DEF HeapOK
    <3> QED
      BY <1>2, <1>4, <1>5, <2>2, <3>1, <3>2
  <2> QED
    BY <2>1, <2>2
<1>7. head' = (IF L + 1 = 0 THEN 0 ELSE 1) /\ L + 1 <= Memory /\ curr' \in 0..L + 1
  BY <1>0, <1>1, ListAssumption DEF HeapOK, ListAssumption
<1> QED
  BY <1>1, <1>4, <1>5, <1>6, <1>7 DEF HeapOK, Node

LEMMA AddKeeps ==
  ASSUME ListOK, NEW x \in Numbers \union {Lists!Junk}, Lists!Add(x),
         stage \in {"read", "stuck"}, num' \in Numbers \union {Lists!Junk}
  PROVE  ListOK'
<1>1. task' = task /\ curr' = curr /\ out' = out
  BY DEF Lists!Add
<1>2. CASE Len(nodes) < Memory
  <2>1. Lists!AddElement(x) /\ given' = Append(given, x) /\ stage' = stage
    BY <1>2 DEF Lists!Add
  <2>2. HeapOK'
    BY <1>1, <1>2, <2>1, AddElementKeeps DEF ListOK
  <2> QED
    BY <1>1, <2>1, <2>2 DEF ListOK
<1>3. CASE ~(Len(nodes) < Memory)
  <2>1. stage' = "crashed" /\ nodes' = nodes /\ head' = head /\ tail' = tail /\ given' = given
    BY <1>3 DEF Lists!Add
  <2>2. HeapOK'
    BY <1>1, <2>1 DEF ListOK, HeapOK
  <2> QED
    BY <1>1, <2>1, <2>2 DEF ListOK
<1> QED
  BY <1>2, <1>3


\* One more number is printed, or none: the turn of PrintMeet at place c.
LEMMA PrintTurn ==
  ASSUME HeapOK, NEW c \in 1..Len(nodes), curr = c, NEW pos, PrintedAt(pos, c - 1),
         given' = given,
         out' = IF Lists!Meets = 3 /\ ~Lists!Meeted THEN Append(out, given[c]) ELSE out,
         NEW X, out \in Seq(X), given \in Seq(X)
  PROVE  \E pos2 : PrintedAt(pos2, c)'
<1>0. /\ Len(nodes) \in Nat /\ c \in Nat /\ c - 1 \in Nat /\ Len(given) = Len(nodes)
      /\ DOMAIN given = 1..Len(nodes)
  BY LenProperties DEF HeapOK
<1>1. /\ Lists!Meets = Lists!Times(given[c], given)
      /\ Lists!Meeted <=> \E b \in 1..c - 1 : given[b] = given[c]
  BY AtCurr
<1> DEFINE New == Lists!Meets = 3 /\ ~Lists!Meeted
<1>2. \A p : Thrice(p)' = Thrice(p)
  BY DEF Thrice, Lists!FirstPlaces, Lists!Times
<1>3. Thrice(c) = IF New THEN Thrice(c - 1) \union {c} ELSE Thrice(c - 1)
  <2>1. \A a \in Lists!FirstPlaces(given) : a \in 1..Len(nodes)
    BY <1>0 DEF Lists!FirstPlaces
  <2>2. \A a \in Lists!FirstPlaces(given) : a <= c <=> (a <= c - 1 \/ a = c)
    BY <1>0, <2>1
  <2>3. c \in Lists!FirstPlaces(given) <=> ~Lists!Meeted
    BY <1>0, <1>1 DEF Lists!FirstPlaces
  <2>4. c <= c /\ ~(c <= c - 1)
    BY <1>0
  <2> QED
    BY <1>1, <2>2, <2>3, <2>4 DEF Thrice
<1>4. /\ pos \in Seq(Thrice(c - 1)) /\ Len(pos) = Len(out)
      /\ \A k \in 1..Len(pos) : out[k] = given[pos[k]]
      /\ \A k, l \in 1..Len(pos) : k < l => pos[k] < pos[l]
      /\ \A a \in Thrice(c - 1) : \E k \in 1..Len(pos) : pos[k] = a
      /\ Len(pos) \in Nat /\ \A k \in 1..Len(pos) : pos[k] \in Thrice(c - 1)
  BY LenProperties DEF PrintedAt
<1>5. CASE New
  <2>1. out' = Append(out, given[c]) /\ Thrice(c) = Thrice(c - 1) \union {c}
    BY <1>3, <1>5
  <2>2. /\ Append(pos, c) \in Seq(Thrice(c)) /\ Len(Append(pos, c)) = Len(pos) + 1
        /\ Append(pos, c)[Len(pos) + 1] = c
        /\ \A k \in 1..Len(pos) : Append(pos, c)[k] = pos[k]
    <3>1. pos \in Seq(Thrice(c)) /\ c \in Thrice(c)
      BY <1>4, <2>1, SeqMonotonic
    <3> QED
      BY <3>1, AppendProperties
  <2>3. /\ Len(out') = Len(out) + 1 /\ out'[Len(out) + 1] = given[c]
        /\ \A k \in 1..Len(out) : out'[k] = out[k]
    <3>1. given[c] \in X
      BY <1>0
    <3> QED
      BY <2>1, <3>1, AppendProperties
  <2>4. \A k \in 1..Len(pos) : pos[k] < c
    BY <1>0, <1>4 DEF Thrice, Lists!FirstPlaces
  <2> DEFINE t == Append(pos, c)
  <2> HIDE DEF t, New
  <2>5. \A k \in 1..Len(t) : out'[k] = given[t[k]]
    <3> SUFFICES ASSUME NEW k \in 1..Len(t) PROVE out'[k] = given[t[k]]
      OBVIOUS
    <3>0. Len(t) = Len(pos) + 1 /\ Len(pos) \in Nat
      BY <1>4, <2>2 DEF t
    <3>1. CASE k = Len(pos) + 1
      BY <1>4, <2>2, <2>3, <3>1 DEF t
    <3>2. CASE k # Len(pos) + 1
      <4>1. k \in 1..Len(pos)
        BY <3>0, <3>2
      <4> QED
        BY <1>4, <2>2, <2>3, <4>1 DEF t
    <3> QED
      BY <3>1, <3>2
  <2>6. \A k, l \in 1..Len(t) : k < l => t[k] < t[l]
    <3> SUFFICES ASSUME NEW k \in 1..Len(t), NEW l \in 1..Len(t), k < l
                 PROVE t[k] < t[l]
      OBVIOUS
    <3>0. Len(t) = Len(pos) + 1 /\ Len(pos) \in Nat
      BY <1>4, <2>2 DEF t
    <3>1. \A m \in Nat : \A a, b \in 1..m + 1 :
            a < b => a \in 1..m /\ (b = m + 1 \/ b \in 1..m)
      OBVIOUS
    <3>2. k \in 1..Len(pos) + 1 /\ l \in 1..Len(pos) + 1
      BY <3>0
    <3>3. k \in 1..Len(pos) /\ (l = Len(pos) + 1 \/ l \in 1..Len(pos))
      BY <3>0, <3>1, <3>2
    <3> QED
      BY <1>4, <2>2, <2>4, <3>3 DEF t
  <2>7. \A a \in Thrice(c) : \E k \in 1..Len(t) : t[k] = a
    <3> SUFFICES ASSUME NEW a \in Thrice(c) PROVE \E k \in 1..Len(t) : t[k] = a
      OBVIOUS
    <3>1. CASE a = c
      BY <1>4, <2>2, <3>1 DEF t
    <3>2. CASE a \in Thrice(c - 1)
      <4>1. PICK k \in 1..Len(pos) : pos[k] = a
        BY <1>4, <3>2
      <4>2. k \in 1..Len(t) /\ t[k] = a
        BY <1>4, <2>2, <4>1 DEF t
      <4> QED
        BY <4>2
    <3> QED
      BY <2>1, <3>1, <3>2
  <2>8. PrintedAt(t, c)'
    BY <1>2, <1>4, <2>2, <2>3, <2>5, <2>6, <2>7 DEF PrintedAt, t
  <2> QED
    BY <2>8
<1>6. CASE ~New
  <2>1. out' = out /\ Thrice(c) = Thrice(c - 1)
    BY <1>3, <1>6
  <2>2. PrintedAt(pos, c)'
    BY <1>2, <1>4, <2>1 DEF PrintedAt
  <2> QED
    BY <2>2
<1> QED
  BY <1>5, <1>6

LEMMA ListNext == ListOK /\ [Lists!Next]_listVars => ListOK'
<1> SUFFICES ASSUME ListOK, [Lists!Next]_listVars PROVE ListOK'
  OBVIOUS
<1>0. Len(nodes) \in Nat /\ Len(given) = Len(nodes)
  BY LenProperties DEF ListOK, HeapOK
<1>1. ASSUME NEW x \in Numbers, Lists!Number(x) PROVE ListOK'
  BY <1>1, AddKeeps DEF Lists!Number
<1>2. CASE Lists!Again
  BY <1>2, AddKeeps DEF Lists!Again, ListOK, HeapOK
<1>3. CASE Lists!Garbage
  <2>1. /\ stage = "read" /\ stage' = "stuck" /\ task' = task /\ nodes' = nodes /\ head' = head
        /\ tail' = tail /\ num' = num /\ curr' = curr /\ out' = out
        /\ given' = given
    BY <1>3 DEF Lists!Garbage
  <2> QED
    BY <2>1 DEF ListOK, HeapOK
<1>4. CASE Lists!EndOfInput
  <2>1. /\ stage = "read" /\ stage' = (IF task = "figures" THEN "print" ELSE "copy")
        /\ curr' = head /\ task' = task /\ nodes' = nodes /\ head' = head
        /\ tail' = tail
        /\ num' = num /\ out' = out /\ given' = given
    BY <1>4 DEF Lists!EndOfInput
  <2>2. HeapOK'
    <3>1. head \in 0..Len(nodes)
      BY <1>0 DEF ListOK, HeapOK
    <3> QED
      BY <2>1, <3>1 DEF ListOK, HeapOK
  <2>3. Passed' = 0
    BY <1>0, <2>1 DEF ListOK, HeapOK, Passed
  <2>4. out' = <<>> /\ SubSeq(given', 1, 0) = <<>>
    BY <2>1, SubSeqEmpty DEF ListOK
  <2>5. PrintedAt(<<>>, 0)'
    <3>1. Thrice(0)' = {}
      BY <1>0, <2>1, LenProperties DEF Thrice, Lists!FirstPlaces, ListOK, HeapOK
    <3> QED
      BY <2>4, <3>1 DEF PrintedAt
  <2> QED
    BY <2>1, <2>2, <2>3, <2>4, <2>5 DEF ListOK
<1>5. CASE Lists!PrintMeet
  <2>1. /\ stage = "print" /\ curr # 0 /\ stage' = stage /\ task' = task /\ nodes' = nodes
        /\ head' = head /\ tail' = tail /\ num' = num /\ given' = given
        /\ out' = (IF Lists!Meets = 3 /\ ~Lists!Meeted THEN Append(out, nodes[curr].x) ELSE out)
        /\ curr' = nodes[curr].next
    BY <1>5 DEF Lists!PrintMeet, Lists!NULL
  <2>2. /\ curr \in 1..Len(nodes) /\ nodes[curr].x = given[curr]
        /\ curr' = (IF curr = Len(nodes) THEN 0 ELSE curr + 1)
    BY <1>0, <2>1 DEF ListOK, HeapOK
  <2>3. HeapOK'
    BY <1>0, <2>1, <2>2 DEF ListOK, HeapOK
  <2>4. Passed' = curr /\ Passed = curr - 1
    BY <1>0, <2>1, <2>2 DEF Passed
  <2>5. PICK pos : PrintedAt(pos, curr - 1)
    BY <2>1, <2>4 DEF ListOK
  <2>6. PICK c \in 1..Len(nodes) : c = curr
    BY <2>2
  <2>7. \E pos2 : PrintedAt(pos2, c)'
    <3> DEFINE X == Numbers \union {Lists!Junk}
    <3>1. given \in Seq(X) /\ out \in Seq(X)
      BY DEF ListOK, HeapOK
    <3> HIDE DEF X
    <3> QED
      BY <2>1, <2>2, <2>5, <2>6, <3>1, PrintTurn DEF ListOK
  <2>8. \E pos2 : PrintedAt(pos2, Passed)'
    BY <2>4, <2>6, <2>7
  <2>9. out' \in Seq(Numbers \union {Lists!Junk})
    <3> DEFINE X == Numbers \union {Lists!Junk}
    <3>1. out \in Seq(X) /\ given \in Seq(X)
      BY DEF ListOK, HeapOK
    <3>2. nodes[curr].x \in X
      BY <1>0, <2>2, <3>1, ElementOfSeq
    <3> HIDE DEF X
    <3>3. Append(out, nodes[curr].x) \in Seq(X)
      BY <3>1, <3>2, AppendProperties
    <3>4. out' \in Seq(X)
      BY <2>1, <3>1, <3>3
    <3> QED
      BY <3>4 DEF X
  <2> QED
    BY <2>1, <2>3, <2>8, <2>9 DEF ListOK
<1>6. CASE Lists!CopyNext
  <2>1. /\ stage = "copy" /\ curr # 0 /\ stage' = stage /\ task' = task /\ nodes' = nodes
        /\ head' = head /\ tail' = tail /\ num' = num /\ given' = given
        /\ out' = Append(out, nodes[curr].x) /\ curr' = nodes[curr].next
    BY <1>6 DEF Lists!CopyNext, Lists!NULL
  <2>2. /\ curr \in 1..Len(nodes) /\ nodes[curr].x = given[curr]
        /\ curr' = (IF curr = Len(nodes) THEN 0 ELSE curr + 1)
    BY <1>0, <2>1 DEF ListOK, HeapOK
  <2>3. HeapOK'
    BY <1>0, <2>1, <2>2 DEF ListOK, HeapOK
  <2>4. Passed' = curr /\ Passed = curr - 1
    BY <1>0, <2>1, <2>2 DEF Passed
  <2> DEFINE X == Numbers \union {Lists!Junk}
  <2>5. given \in Seq(X) /\ given[curr] \in X /\ curr \in 1..Len(given)
    BY <1>0, <2>2, ElementOfSeq DEF ListOK, HeapOK
  <2> HIDE DEF X
  <2>6. SubSeq(given, 1, curr) = SubSeq(given, 1, curr - 1) \o <<given[curr]>>
    <3>1. 1 \in 1..Len(given) /\ curr \in 1..Len(given)
      BY <1>0, <2>2
    <3>2. given \in Seq(X)
      BY <2>5
    <3>3. CASE curr = 1
      BY <2>5, <3>3
    <3>4. CASE curr # 1
      BY <3>1, <3>2, <3>4, SubSeqRecursiveSecond
    <3> QED
      BY <3>3, <3>4
  <2>7. /\ SubSeq(given, 1, curr - 1) \in Seq(X)
        /\ Append(SubSeq(given, 1, curr - 1), given[curr])
              = SubSeq(given, 1, curr - 1) \o <<given[curr]>>
        /\ Append(SubSeq(given, 1, curr - 1), given[curr]) \in Seq(X)
    <3>1. SubSeq(given, 1, curr - 1) \in Seq(X)
      <4>1. \A k \in 1..curr - 1 : given[k] \in X
        BY <1>0, <2>2, <2>5, ElementOfSeq
      <4> QED
        BY <1>0, <2>2, <4>1, SubSeqProperties
    <3> QED
      BY <2>5, <3>1, AppendIsConcat, AppendProperties
  <2>8. out = SubSeq(given, 1, curr - 1)
    BY <2>1, <2>4 DEF ListOK
  <2>9. out' = SubSeq(given', 1, Passed') /\ out' \in Seq(X)
    BY <2>1, <2>2, <2>4, <2>6, <2>7, <2>8
  <2> QED
    BY <2>1, <2>3, <2>9 DEF ListOK, X
<1>7. CASE Lists!End
  <2>1. /\ stage \in {"print", "copy"} /\ curr = 0 /\ stage' = "done" /\ task' = task
        /\ nodes' = nodes /\ head' = head /\ tail' = tail /\ num' = num
        /\ curr' = curr
        /\ out' = out /\ given' = given
    BY <1>7 DEF Lists!End, Lists!NULL
  <2>2. HeapOK' /\ Passed' = Passed
    BY <2>1 DEF ListOK, HeapOK, Passed
  <2>3. ASSUME NEW pos, PrintedAt(pos, Passed) PROVE PrintedAt(pos, Passed)'
    BY <2>1, <2>2, <2>3 DEF PrintedAt, Thrice, Lists!FirstPlaces, Lists!Times
  <2> QED
    BY <2>1, <2>2, <2>3 DEF ListOK
<1>9. CASE Lists!NoArray
  <2>1. /\ stage' = "crashed" /\ task' = task /\ nodes' = nodes /\ head' = head
        /\ tail' = tail /\ num' = num /\ curr' = curr /\ out' = out /\ given' = given
    BY <1>9 DEF Lists!NoArray
  <2>2. HeapOK'
    BY <2>1 DEF ListOK, HeapOK
  <2> QED
    BY <2>1, <2>2 DEF ListOK
<1>8. CASE UNCHANGED listVars
  <2>1. /\ stage' = stage /\ task' = task /\ nodes' = nodes /\ head' = head /\ tail' = tail
        /\ num' = num /\ curr' = curr /\ out' = out /\ given' = given
    BY <1>8 DEF listVars
  <2>2. HeapOK' /\ Passed' = Passed
    BY <2>1 DEF ListOK, HeapOK, Passed
  <2>3. ASSUME NEW pos, PrintedAt(pos, Passed) PROVE PrintedAt(pos, Passed)'
    BY <2>1, <2>2, <2>3 DEF PrintedAt, Thrice, Lists!FirstPlaces, Lists!Times
  <2> QED
    BY <2>1, <2>2, <2>3 DEF ListOK
<1> QED
  BY <1>1, <1>2, <1>3, <1>4, <1>5, <1>6, <1>7, <1>8, <1>9 DEF Lists!Next

LEMMA ListSafe == ListOK => Lists!ListsAreRight /\ Lists!TypeOK
<1> SUFFICES ASSUME ListOK PROVE Lists!ListsAreRight /\ Lists!TypeOK
  OBVIOUS
<1>0. /\ Len(nodes) \in Nat /\ Len(given) = Len(nodes) /\ DOMAIN given = 1..Len(nodes)
      /\ DOMAIN out = 1..Len(out) /\ Len(out) \in Nat
  BY LenProperties DEF ListOK, HeapOK
<1>1. Lists!TypeOK
  <2>1. {head, tail, curr} \subseteq 0..Len(nodes)
    <3>1. /\ head = (IF Len(nodes) = 0 THEN 0 ELSE 1)
          /\ tail = Len(nodes) /\ curr \in 0..Len(nodes)
      BY DEF ListOK, HeapOK
    <3>2. head \in 0..Len(nodes) /\ tail \in 0..Len(nodes)
      BY <1>0, <3>1
    <3> QED
      BY <3>1, <3>2
  <2> QED
    BY <1>0, <2>1 DEF ListOK, HeapOK, Lists!TypeOK
<1> SUFFICES Lists!ListsAreRight
  BY <1>1
<1>2. CASE stage = "done"
  <2>1. Passed = Len(nodes)
    BY <1>2 DEF Passed, ListOK
  <2>2. CASE task = "arrays"
    <3>1. out = SubSeq(given, 1, Len(given))
      BY <1>0, <1>2, <2>1, <2>2 DEF ListOK
    <3>2. SubSeq(given, 1, Len(given)) = given
      BY SubSeqFull DEF ListOK, HeapOK
    <3> QED
      BY <2>2, <3>1, <3>2 DEF Lists!ListsAreRight
  <2>3. CASE task # "arrays"
    <3>1. PICK pos : PrintedAt(pos, Len(nodes))
      BY <1>2, <2>1, <2>3 DEF ListOK
    <3>2. /\ pos \in Seq(Thrice(Len(nodes))) /\ Len(pos) = Len(out)
          /\ \A k \in 1..Len(out) : out[k] = given[pos[k]] /\ pos[k] \in Thrice(Len(nodes))
          /\ \A k, l \in 1..Len(out) : k < l => pos[k] < pos[l]
          /\ \A a \in Thrice(Len(nodes)) : \E k \in 1..Len(out) : pos[k] = a
      BY <3>1, LenProperties DEF PrintedAt
    <3>3. \A a \in Thrice(Len(nodes)) :
            /\ a \in Lists!FirstPlaces(given) /\ a \in DOMAIN given
            /\ Lists!Times(given[a], given) = 3
      BY DEF Thrice, Lists!FirstPlaces
    <3>4. ASSUME NEW k \in DOMAIN out, NEW l \in DOMAIN out, k < l
          PROVE  \E a, b \in Lists!FirstPlaces(given) :
                   given[a] = out[k] /\ given[b] = out[l] /\ a < b
      <4>1. k \in 1..Len(out) /\ l \in 1..Len(out)
        BY <1>0
      <4>2. pos[k] \in Lists!FirstPlaces(given) /\ pos[l] \in Lists!FirstPlaces(given)
        BY <3>2, <3>3, <4>1
      <4>3. given[pos[k]] = out[k] /\ given[pos[l]] = out[l] /\ pos[k] < pos[l]
        BY <3>2, <3>4, <4>1
      <4> QED
        BY <4>2, <4>3
    <3>5. ASSUME NEW x \in Lists!ToSet(given), Lists!Times(x, given) = 3
          PROVE  x \in Lists!ToSet(out)
      <4> DEFINE T == {a \in DOMAIN given : given[a] = x}
      <4>1. T \subseteq Nat /\ T # {}
        BY <1>0 DEF Lists!ToSet
      <4>2. PICK a \in T : \A b \in T : a <= b
        <5> HIDE DEF T
        <5> QED
          BY <4>1, Least
      <4>3. \A b \in 1..a - 1 : given[b] # given[a]
        BY <1>0, <4>2
      <4>4. a \in Thrice(Len(nodes))
        BY <1>0, <3>5, <4>2, <4>3 DEF Thrice, Lists!FirstPlaces
      <4>5. PICK k \in 1..Len(out) : pos[k] = a
        BY <3>2, <4>4
      <4>6. k \in DOMAIN out /\ out[k] = given[pos[k]] /\ given[a] = x
        BY <1>0, <3>2, <4>2
      <4> QED
        BY <4>5, <4>6 DEF Lists!ToSet
    <3>6. ASSUME NEW x \in Lists!ToSet(out)
          PROVE  x \in Lists!ToSet(given) /\ Lists!Times(x, given) = 3
      <4>1. PICK k \in DOMAIN out : x = out[k]
        BY DEF Lists!ToSet
      <4>2. out[k] = given[pos[k]] /\ pos[k] \in Thrice(Len(nodes))
        BY <1>0, <3>2
      <4> QED
        BY <3>3, <4>1, <4>2 DEF Lists!ToSet
    <3>7. Lists!ToSet(out) = {x \in Lists!ToSet(given) : Lists!Times(x, given) = 3}
      BY <3>5, <3>6
    <3> QED
      BY <2>3, <3>4, <3>7 DEF Lists!ListsAreRight
  <2> QED
    BY <2>2, <2>3
<1>3. CASE stage # "done"
  BY <1>3 DEF Lists!ListsAreRight
<1> QED
  BY <1>1, <1>2, <1>3


-----------------------------------------------------------------------------
(* Texts.                                                                    *)

LEMMA SameFlatten == \A s : Text!FlattenSeq(s) = FlattenSeq(s)
BY DEF Text!FlattenSeq, FlattenSeq

\* fgets returns pieces of 1 to LineSize - 1 characters.
LEMMA PiecesType ==
  ASSUME NEW len \in Nat
  PROVE  Text!Pieces(len) \in Seq(1..LineSize - 1)
<1> DEFINE L == LineSize - 1  whole == len \div L  rest == len % L
           s == [k \in 1..whole |-> L]
<1>1. L \in Nat \ {0}
  BY TextAssumption
<1>2. whole \in Nat /\ rest \in 0..L - 1
  <2> HIDE DEF L
  <2> QED
    BY <1>1
<1> HIDE DEF L, whole, rest
<1>3. s \in Seq(1..L)
  BY <1>1, <1>2
<1>4. (IF rest = 0 THEN <<>> ELSE <<rest>>) \in Seq(1..L)
  <2>1. rest # 0 => rest \in 1..L
    BY <1>1, <1>2
  <2>2. rest # 0 => <<rest>> \in Seq(1..L)
    BY <2>1
  <2>3. <<>> \in Seq(1..L)
    BY EmptySeq
  <2> QED
    BY <2>2, <2>3
<1> HIDE DEF s
<1>5. s \o (IF rest = 0 THEN <<>> ELSE <<rest>>) \in Seq(1..L)
  BY <1>3, <1>4, ConcatProperties
<1>6. Text!Pieces(len) = s \o (IF rest = 0 THEN <<>> ELSE <<rest>>)
  BY DEF Text!Pieces, L, whole, rest, s
<1> QED
  BY <1>5, <1>6 DEF L

LEMMA ReadType ==
  ASSUME NEW lengths \in Seq(Nat)
  PROVE  Text!Read(lengths) \in Seq(1..LineSize - 1)
<1> DEFINE s == [k \in DOMAIN lengths |-> Text!Pieces(lengths[k])]
<1>1. Len(lengths) \in Nat /\ DOMAIN lengths = 1..Len(lengths) /\ \A k \in 1..Len(lengths) : lengths[k] \in Nat
  BY LenProperties
<1>2. s \in Seq(Seq(1..LineSize - 1))
  <2>1. \A k \in 1..Len(lengths) : Text!Pieces(lengths[k]) \in Seq(1..LineSize - 1)
    BY <1>1, PiecesType
  <2> QED
    BY <1>1, <2>1
<1> HIDE DEF s
<1>3. FlattenSeq(s) \in Seq(1..LineSize - 1)
  BY <1>2, FlattenType
<1> QED
  BY <1>3, SameFlatten DEF Text!Read, s

\* The first of the largest pieces among those at the places of s.
IsFirstLargest(p, s, k) ==
  /\ k \in s
  /\ \A m \in s : p[m] <= p[k] /\ (p[m] = p[k] => k <= m)
Best(p, s) == IF s = {} THEN 0 ELSE CHOOSE k \in s : IsFirstLargest(p, s, k)
LEMMA BestIs ==
  ASSUME NEW L \in Nat, NEW p \in Seq(1..L), NEW s \in SUBSET (1..Len(p)), s # {}
  PROVE  /\ IsFirstLargest(p, s, Best(p, s)) /\ Best(p, s) # 0
         /\ \A k \in s : IsFirstLargest(p, s, k) => k = Best(p, s)
<1>0. Len(p) \in Nat /\ \A k \in 1..Len(p) : p[k] \in 1..L
  BY LenProperties
<1> DEFINE values == {p[k] : k \in s}
<1>1. values \subseteq 0..L /\ values # {}
  <2>1. \A k \in s : p[k] \in 0..L
    BY <1>0
  <2> QED
    BY <2>1
<1>2. PICK v \in values : \A w \in values : w <= v
  <2> HIDE DEF values
  <2> QED
    BY <1>1, Greatest
<1> DEFINE places == {k \in s : p[k] = v}
<1>3. places \subseteq Nat /\ places # {}
  <2>1. s \subseteq Nat
    OBVIOUS
  <2> QED
    BY <1>2, <2>1
<1>4. PICK k \in places : \A m \in places : k <= m
  <2> HIDE DEF places
  <2> QED
    BY <1>3, Least
<1>5. IsFirstLargest(p, s, k)
  BY <1>2, <1>4 DEF IsFirstLargest
<1>6. IsFirstLargest(p, s, Best(p, s))
  <2> DEFINE P(x) == IsFirstLargest(p, s, x)
  <2>1. P(k) /\ k \in s
    BY <1>5 DEF IsFirstLargest
  <2>2. Best(p, s) = CHOOSE x \in s : P(x)
    BY DEF Best
  <2> HIDE DEF P
  <2>3. P(Best(p, s))
    BY <2>1, <2>2
  <2> QED
    BY <2>3 DEF P
<1>7. ASSUME NEW a \in s, NEW b \in s, IsFirstLargest(p, s, a), IsFirstLargest(p, s, b)
      PROVE  a = b
  <2>1. p[a] \in Nat /\ p[b] \in Nat /\ a \in Nat /\ b \in Nat
    BY <1>0
  <2>2. p[a] <= p[b] /\ p[b] <= p[a]
    BY <1>7 DEF IsFirstLargest
  <2>3. a <= b /\ b <= a
    BY <1>7, <2>1, <2>2 DEF IsFirstLargest
  <2> QED
    BY <2>1, <2>3
<1>8. Best(p, s) \in s
  BY <1>6 DEF IsFirstLargest
<1>9. Best(p, s) # 0
  BY <1>8
<1> QED
  BY <1>6, <1>7, <1>8, <1>9

\* One more place, behind all others, is taken only for a larger piece.
LEMMA BestOfMore ==
  ASSUME NEW L \in Nat, NEW p \in Seq(1..L), NEW s \in SUBSET (1..Len(p)),
         NEW x \in s, \A y \in s : y <= x
  PROVE  LET best == Best(p, s \ {x})
         IN  Best(p, s) = IF best = 0 \/ p[x] > p[best] THEN x ELSE best
<1> DEFINE r == s \ {x}
<1>0. Len(p) \in Nat /\ \A k \in 1..Len(p) : p[k] \in 1..L
  BY LenProperties
<1>1. CASE r = {}
  <2>1. s = {x} /\ Best(p, r) = 0
    BY <1>1 DEF Best
  <2>2. IsFirstLargest(p, s, x)
    BY <1>0, <2>1 DEF IsFirstLargest
  <2> QED
    BY <2>1, <2>2, BestIs
<1>2. CASE r # {}
  <2> DEFINE b == Best(p, r)
  <2>1. r \in SUBSET (1..Len(p))
    OBVIOUS
  <2>2. IsFirstLargest(p, r, b) /\ b # 0
    <3> HIDE DEF r
    <3> QED
      BY <1>2, <2>1, BestIs
  <2> HIDE DEF b
  <2>3. b \in s /\ b # x /\ b < x
    BY <1>0, <2>2 DEF IsFirstLargest
  <2>4. \A m \in s : m = x \/ m \in r
    OBVIOUS
  <2>5. CASE p[x] > p[b]
    <3>1. IsFirstLargest(p, s, x)
      BY <1>0, <2>2, <2>3, <2>4, <2>5 DEF IsFirstLargest
    <3> QED
      BY <2>2, <2>5, <3>1, BestIs DEF b
  <2>6. CASE ~(p[x] > p[b])
    <3>1. IsFirstLargest(p, s, b)
      BY <1>0, <2>2, <2>3, <2>4, <2>6 DEF IsFirstLargest
    <3>2. b = Best(p, s)
      BY <2>3, <3>1, BestIs
    <3> QED
      BY <2>2, <2>6, <3>2 DEF b
  <2> QED
    BY <2>5, <2>6
<1> QED
  BY <1>1, <1>2

LEMMA LargestIsBest ==
  ASSUME NEW L \in Nat, NEW p \in Seq(1..L)
  PROVE  Text!Largest(p) = Best(p, DOMAIN p)
<1> DEFINE D == 1..Len(p)
           Choice(s) == CHOOSE x \in s : \A y \in s : x >= y
           Seq1 == [k \in DOMAIN p |-> k]
           Op(x, best) == IF best = 0 \/ p[x] > p[best] THEN x ELSE best
           Iter(w) == w = [s \in SUBSET D |->
                             IF s = {} THEN 0 ELSE Op(Seq1[Choice(s)], w[s \ {Choice(s)}])]
           F == [s \in SUBSET D |-> Best(p, s)]
           iter == CHOOSE w : Iter(w)
<1>0. Len(p) \in Nat /\ DOMAIN p = D
  BY LenProperties
<1>1. Text!Largest(p) = iter[D]
  <2>1. DOMAIN Seq1 = D
    BY <1>0
  <2> QED
    BY <2>1 DEF Text!Largest, Text!FoldLeft, Text!MapThenFoldSet, Text!Max
<1>2. \A s \in SUBSET D : s # {} => Choice(s) \in s /\ \A y \in s : y <= Choice(s)
  <2> SUFFICES ASSUME NEW s \in SUBSET D, s # {}
               PROVE  \E x \in s : \A y \in s : x >= y
    BY <1>0
  <2>1. s \subseteq 0..Len(p)
    BY <1>0
  <2>2. PICK x \in s : \A y \in s : y <= x
    BY <1>0, <2>1, Greatest
  <2> QED
    BY <1>0, <2>2
<1>3. ASSUME NEW s \in SUBSET D, s # {}
      PROVE  /\ Best(p, s) = Op(Choice(s), Best(p, s \ {Choice(s)}))
             /\ Seq1[Choice(s)] = Choice(s) /\ s \ {Choice(s)} \in SUBSET D
  <2>1. Choice(s) \in s /\ \A y \in s : y <= Choice(s)
    BY <1>2, <1>3
  <2>2. Seq1[Choice(s)] = Choice(s) /\ s \ {Choice(s)} \in SUBSET D
    <3> HIDE DEF Choice
    <3> QED
      BY <1>0, <2>1
  <2>3. Best(p, s) = Op(Choice(s), Best(p, s \ {Choice(s)}))
    <3> HIDE DEF Choice
    <3>1. s \in SUBSET (1..Len(p))
      OBVIOUS
    <3>2. ASSUME NEW x \in s, \A y \in s : y <= x
          PROVE  Best(p, s) = Op(x, Best(p, s \ {x}))
      BY <3>1, <3>2, BestOfMore
    <3> HIDE DEF Op
    <3> QED
      BY <2>1, <3>2
  <2> QED
    BY <2>2, <2>3
<1> HIDE DEF Choice, Op, Seq1
<1>4. Iter(F)
  <2>1. ASSUME NEW s \in SUBSET D
        PROVE  F[s] = IF s = {} THEN 0 ELSE Op(Seq1[Choice(s)], F[s \ {Choice(s)}])
    <3>1. CASE s = {}
      BY <3>1 DEF Best
    <3>2. CASE s # {}
      <4>1. F[s \ {Choice(s)}] = Best(p, s \ {Choice(s)}) /\ F[s] = Best(p, s)
        BY <1>3, <3>2
      <4> HIDE DEF F
      <4> QED
        BY <1>3, <3>2, <4>1
    <3> QED
      BY <3>1, <3>2
  <2> QED
    BY <2>1
<1>5. ASSUME NEW w, Iter(w), NEW t \in SUBSET D PROVE w[t] = Best(p, t)
  <2> DEFINE Bad == {m \in Nat : \E s \in SUBSET D : s \subseteq 1..m /\ w[s] # Best(p, s)}
  <2>1. t \subseteq 1..Len(p)
    OBVIOUS
  <2> SUFFICES ASSUME Bad # {} PROVE FALSE
    BY <1>0, <2>1
  <2>2. PICK m \in Bad : \A l \in Bad : m <= l
    <3>1. Bad \subseteq Nat
      OBVIOUS
    <3> HIDE DEF Bad
    <3> QED
      BY <3>1, Least
  <2>3. PICK s \in SUBSET D : s \subseteq 1..m /\ w[s] # Best(p, s)
    BY <2>2
  <2>4. w[s] = IF s = {} THEN 0 ELSE Op(Seq1[Choice(s)], w[s \ {Choice(s)}])
    BY <1>5
  <2>5. s # {}
    BY <2>3, <2>4 DEF Best
  <2> DEFINE x == Choice(s)  r == s \ {x}
  <2>6. x \in s /\ \A y \in s : y <= x
    BY <1>2, <2>5
  <2>7. r \in SUBSET D /\ r \subseteq 1..x - 1 /\ x - 1 \in Nat /\ x - 1 < m
    <3> HIDE DEF x
    <3>1. x \in 1..m /\ m \in Nat
      BY <2>2, <2>3, <2>6
    <3>2. \A y \in r : y \in 1..m /\ y <= x /\ y # x
      BY <2>3, <2>6
    <3>3. r \subseteq 1..x - 1
      BY <3>1, <3>2
    <3> QED
      BY <3>1, <3>3
  <2>8. w[r] = Best(p, r)
    <3> HIDE DEF x, r
    <3>1. x - 1 \notin Bad
      <4>1. m \in Nat
        BY <2>2
      <4> HIDE DEF Bad
      <4> QED
        BY <2>2, <2>7, <4>1
    <3> QED
      BY <2>7, <3>1
  <2>9. Best(p, s) = Op(x, Best(p, r)) /\ Seq1[x] = x
    BY <1>3, <2>5
  <2> HIDE DEF x, r
  <2>10. w[s] = Op(Seq1[x], w[r])
    BY <2>4, <2>5 DEF x, r
  <2> QED
    BY <2>3, <2>8, <2>9, <2>10
<1>6. Iter(iter)
  <2> HIDE DEF Iter, F
  <2> QED
    BY <1>4
<1> HIDE DEF Iter, iter
<1>7. iter[D] = Best(p, D)
  BY <1>5, <1>6
<1> QED
  BY <1>0, <1>1, <1>7


LEMMA LargestType ==
  ASSUME NEW lengths \in Seq(Nat) PROVE Text!Largest(Text!Read(lengths)) \in Nat
<1> DEFINE p == Text!Read(lengths)
<1>1. p \in Seq(1..LineSize - 1) /\ LineSize - 1 \in Nat
  BY ReadType, TextAssumption
<1> HIDE DEF p
<1>2. Text!Largest(p) = Best(p, DOMAIN p) /\ DOMAIN p = 1..Len(p) /\ Len(p) \in Nat
  BY <1>1, LargestIsBest, LenProperties
<1>3. CASE DOMAIN p = {}
  BY <1>2, <1>3 DEF Best, p
<1>4. CASE DOMAIN p # {}
  <2> DEFINE s == DOMAIN p
  <2>1. s # {} /\ s \in SUBSET (1..Len(p))
    BY <1>2, <1>4
  <2>2. IsFirstLargest(p, s, Best(p, s))
    <3> HIDE DEF s
    <3> QED
      BY <1>1, <2>1, BestIs
  <2>3. Best(p, s) \in 1..Len(p)
    BY <2>1, <2>2 DEF IsFirstLargest
  <2> QED
    BY <1>2, <2>3 DEF p
<1> QED
  BY <1>3, <1>4


\* What has matched from place i, and where nothing has.
SubstringOK ==
  /\ str \in Seq(Letters) /\ substr \in Seq(Letters)
  /\ i \in 0..Len(str) /\ j \in 0..Len(substr) /\ i + j <= Len(str)
  /\ \A k \in 1..j : str[i + k] = substr[k]
  /\ \A k \in 0..i - 1 : ~Text!OccursAt(k)
  /\ tool = "find" => step # "failed" /\ (step = "done" => Text!FirstOccurrence)
\* What has been printed is of the files before the present one.
FilesOK ==
  /\ files \in Seq(Seq(Nat)) /\ arg \in 1..Len(files) + 1
  /\ tool \in {"find", "largest", "cat"} /\ step \in {"run", "done", "failed", "crashed"}
  /\ tool = "largest" =>
       /\ printed \in Seq(Nat) /\ Len(printed) = arg - 1
       /\ \A k \in 1..arg - 1 : printed[k] = Text!Largest(Text!Read(files[k]))
  /\ tool = "cat" =>
       /\ printed \in Seq(Nat)
       /\ printed = Text!FlattenSeq(SubSeq(files, 1, arg - 1))
  /\ step = "failed" => files[arg] = Text!Missing \/ arg > CatDescriptors
TextOK == SubstringOK /\ FilesOK

LEMMA BoundedIsSeq == \A S, most : Text!BoundedSeq(S, most) \subseteq Seq(S)
BY DEF Text!BoundedSeq, Text!SeqOf

LEMMA TextInit == Text!Init => TextOK
<1> SUFFICES ASSUME Text!Init PROVE TextOK
  OBVIOUS
<1>1. /\ step = "run" /\ i = 0 /\ j = 0 /\ arg = 1 /\ printed = <<>>
      /\ tool \in {"find", "largest", "cat"}
  BY DEF Text!Init
<1>2. str \in Seq(Letters) /\ substr \in Seq(Letters)
  BY BoundedIsSeq, EmptySeq DEF Text!Init
<1>3. files \in Seq(Seq(Nat))
  <2>1. Text!BoundedSeq(LineLengths, MaxLines) \subseteq Seq(Nat)
    <3>1. Seq(LineLengths) \subseteq Seq(Nat)
      BY SeqMonotonic, TextAssumption
    <3> QED
      BY <3>1, BoundedIsSeq
  <2>2. Text!Files \subseteq Seq(Nat)
    <3>1. <<0>> \in Seq(Nat) /\ <<0, 0>> \in Seq(Nat)
      OBVIOUS
    <3> QED
      BY <2>1, <3>1 DEF Text!Files, Text!Missing, Text!Unreadable
  <2>3. Seq(Text!Files) \subseteq Seq(Seq(Nat))
    BY <2>2, SeqMonotonic
  <2> QED
    BY <2>3, BoundedIsSeq, EmptySeq DEF Text!Init
<1>4. Len(str) \in Nat /\ Len(substr) \in Nat /\ Len(files) \in Nat
  BY <1>2, <1>3, LenProperties
<1>5. SubstringOK
  BY <1>1, <1>2, <1>4 DEF SubstringOK
<1>6. Text!FlattenSeq(SubSeq(files, 1, 0)) = <<>>
  BY <1>3, SubSeqEmpty DEF Text!FlattenSeq
<1>7. FilesOK
  BY <1>1, <1>3, <1>4, <1>6, EmptySeq DEF FilesOK
<1> QED
  BY <1>5, <1>7 DEF TextOK

\* An occurrence, character by character.
LEMMA Occurs ==
  ASSUME NEW k \in Nat, str \in Seq(Letters), substr \in Seq(Letters)
  PROVE  Text!OccursAt(k) <=>
           /\ k + Len(substr) <= Len(str)
           /\ \A l \in 1..Len(substr) : str[k + l] = substr[l]
<1>0. Len(str) \in Nat /\ Len(substr) \in Nat
  BY LenProperties
<1> SUFFICES ASSUME k + Len(substr) <= Len(str)
             PROVE  SubSeq(str, k + 1, k + Len(substr)) = substr <=>
                      \A l \in 1..Len(substr) : str[k + l] = substr[l]
  BY DEF Text!OccursAt
<1> DEFINE t == SubSeq(str, k + 1, k + Len(substr))
<1>1. /\ t \in Seq(Letters) /\ Len(t) = Len(substr)
      /\ \A l \in 1..Len(substr) : t[l] = str[k + l]
  <2>1. \A l \in k + 1..k + Len(substr) : str[l] \in Letters
    BY <1>0, LenProperties
  <2>2. k + 1 \in Int /\ k + Len(substr) \in Int
    BY <1>0
  <2> QED
    BY <1>0, <2>1, <2>2, SubSeqProperties
<1> HIDE DEF t
<1>2. t = substr <=> \A l \in 1..Len(substr) : t[l] = substr[l]
  BY <1>1, SeqEqual
<1> QED
  BY <1>1, <1>2 DEF t

LEMMA FindSubstringKeeps == ASSUME TextOK, Text!FindSubstring PROVE TextOK'
<1>0. /\ tool' = tool /\ str' = str /\ substr' = substr /\ files' = files /\ arg' = arg
      /\ tool = "find" /\ step = "run"
  BY DEF Text!FindSubstring
<1>1. /\ str \in Seq(Letters) /\ substr \in Seq(Letters)
      /\ i \in 0..Len(str) /\ j \in 0..Len(substr) /\ i + j <= Len(str)
      /\ \A k \in 1..j : str[i + k] = substr[k]
      /\ \A k \in 0..i - 1 : ~Text!OccursAt(k)
      /\ Len(str) \in Nat /\ Len(substr) \in Nat
  BY LenProperties DEF TextOK, SubstringOK
<1>2. \A k \in Nat : Text!OccursAt(k)' <=> Text!OccursAt(k)
  BY <1>0 DEF Text!OccursAt
<1>3. ASSUME NEW returned, step' = "done", printed' = returned, i' = i, j' = j,
             Text!FirstOccurrence' PROVE TextOK'
  BY <1>0, <1>1, <1>2, <1>3 DEF TextOK, SubstringOK, FilesOK
<1>4. ASSUME step' = step, i' \in 0..Len(str), j' \in 0..Len(substr), i' + j' <= Len(str),
             \A k \in 1..j' : str[i' + k] = substr[k], \A k \in 0..i' - 1 : ~Text!OccursAt(k)
      PROVE TextOK'
  <2>1. \A k \in 0..i' - 1 : ~Text!OccursAt(k)'
    <3>1. \A k \in 0..i' - 1 : k \in Nat
      BY <1>1, <1>4
    <3> QED
      BY <1>2, <1>4, <3>1
  <2>2. SubstringOK'
    BY <1>0, <1>1, <1>4, <2>1 DEF SubstringOK
  <2>3. FilesOK'
    BY <1>0, <1>4 DEF FilesOK, TextOK
  <2> QED
    BY <2>2, <2>3 DEF TextOK
<1>5. CASE substr = <<>> /\ Text!Return(<<0>>)
  <2>1. step' = "done" /\ printed' = <<0>> /\ i' = i /\ j' = j
    BY <1>5 DEF Text!Return
  <2>2. Text!OccursAt(0)
    BY <1>1, <1>5, Occurs
  <2>3. Text!FirstOccurrence'
    BY <1>2, <2>1, <2>2 DEF Text!FirstOccurrence, Text!NULL
  <2> QED
    BY <1>3, <2>1, <2>3
<1>6. CASE substr # <<>> /\ i >= Len(str) /\ Text!Return(Text!NULL)
  <2>1. step' = "done" /\ printed' = <<>> /\ i' = i /\ j' = j
    BY <1>6 DEF Text!Return, Text!NULL
  <2>2. i = Len(str) /\ Len(substr) > 0
    BY <1>1, <1>6, EmptySeq
  <2>3. ~Text!OccursAt(Len(str))
    BY <1>1, <2>2, Occurs
  <2>4. \A k \in 0..Len(str) : ~Text!OccursAt(k)
    BY <1>1, <2>2, <2>3
  <2>5. Text!FirstOccurrence'
    BY <1>0, <1>1, <1>2, <2>1, <2>4 DEF Text!FirstOccurrence, Text!NULL
  <2> QED
    BY <1>3, <2>1, <2>5
<1>7. CASE i < Len(str) /\ Text!Matches /\ j' = j + 1 /\ UNCHANGED <<i, step, printed>>
  <2>1. /\ i' = i /\ step' = step /\ j' = j + 1
        /\ i + j < Len(str) /\ j < Len(substr) /\ str[i + (j + 1)] = substr[j + 1]
    BY <1>1, <1>7 DEF Text!Matches
  <2>2. \A k \in 1..j + 1 : k \in 1..j \/ k = j + 1
    BY <1>1
  <2>3. \A k \in 1..j + 1 : str[i + k] = substr[k]
    BY <1>1, <2>1, <2>2
  <2> QED
    BY <1>1, <1>4, <2>1, <2>3
<1>8. CASE i < Len(str) /\ substr # <<>> /\ ~Text!Matches /\ j = Len(substr) /\ Text!Return(<<i>>)
  <2>1. step' = "done" /\ printed' = <<i>> /\ i' = i /\ j' = j
    BY <1>8 DEF Text!Return
  <2>2. Text!OccursAt(i)
    BY <1>1, <1>8, Occurs
  <2>3. /\ printed' # <<>> /\ printed'[1] = i /\ i \in Nat
        /\ \A k \in 0..i - 1 : k \in Nat
    BY <1>1, <2>1
  <2>4. Text!FirstOccurrence'
    BY <1>1, <1>2, <2>2, <2>3 DEF Text!FirstOccurrence, Text!NULL
  <2> QED
    BY <1>3, <2>1, <2>4
<1>9. CASE /\ i < Len(str) /\ substr # <<>> /\ ~Text!Matches /\ j # Len(substr)
           /\ Text!NextStart /\ UNCHANGED <<step, printed>>
  <2>1. step' = step /\ i' = i + 1 /\ j' = 0
    BY <1>9 DEF Text!NextStart
  <2>2. j < Len(substr)
    BY <1>1, <1>9
  <2>3. ~Text!OccursAt(i)
    <3> SUFFICES ASSUME i + Len(substr) <= Len(str),
                        \A l \in 1..Len(substr) : str[i + l] = substr[l]
                 PROVE  FALSE
      BY <1>1, Occurs
    <3>1. j + 1 \in 1..Len(substr) /\ i + j < Len(str)
      BY <1>1, <2>2
    <3>2. str[i + (j + 1)] = substr[j + 1] /\ i + (j + 1) = i + j + 1
      BY <1>1, <3>1
    <3> QED
      BY <1>9, <2>2, <3>1, <3>2 DEF Text!Matches
  <2>4. \A k \in 0..i : ~Text!OccursAt(k)
    BY <1>1, <2>3
  <2>5. i + 1 \in 0..Len(str) /\ 0 \in 0..Len(substr) /\ i + 1 + 0 <= Len(str) /\ i + 1 - 1 = i
    BY <1>1, <1>9
  <2> QED
    <3>1. \A k \in 0..i' - 1 : ~Text!OccursAt(k)
      <4>1. i' - 1 = i
        BY <1>1, <2>1
      <4> QED
        BY <2>4, <4>1
    <3>2. \A k \in 1..j' : str[i' + k] = substr[k]
      BY <2>1
    <3>3. i' \in 0..Len(str) /\ j' \in 0..Len(substr) /\ i' + j' <= Len(str)
      BY <2>1, <2>5
    <3> QED
      BY <1>4, <2>1, <3>1, <3>2, <3>3
<1> QED
  BY <1>0, <1>5, <1>6, <1>7, <1>8, <1>9 DEF Text!FindSubstring

LEMMA LargestStringKeeps == ASSUME TextOK, Text!LargestString PROVE TextOK'
<1>0. /\ tool' = tool /\ str' = str /\ substr' = substr /\ files' = files /\ i' = i /\ j' = j
      /\ tool = "largest" /\ step = "run" /\ arg <= Len(files)
  BY DEF Text!LargestString
<1>1. SubstringOK'
  BY <1>0 DEF TextOK, SubstringOK, Text!OccursAt
<1>2. CASE Text!OpenFails
  <2>1. step' = "failed" /\ arg' = arg /\ printed' = printed /\ files[arg] = Text!Missing
    BY <1>2 DEF Text!LargestString, Text!OpenFails
  <2> QED
    BY <1>0, <1>1, <2>1 DEF TextOK, FilesOK
<1>3. CASE ~Text!OpenFails
  <2> DEFINE x == Text!Largest(Text!Read(files[arg]))
  <2>1. step' = step /\ arg' = arg + 1 /\ printed' = Append(printed, x)
    BY <1>3 DEF Text!LargestString
  <2>2. /\ files \in Seq(Seq(Nat)) /\ arg \in 1..Len(files) /\ printed \in Seq(Nat)
        /\ Len(printed) = arg - 1 /\ Len(files) \in Nat
        /\ \A k \in 1..arg - 1 : printed[k] = Text!Largest(Text!Read(files[k]))
    BY <1>0, LenProperties DEF TextOK, FilesOK
  <2>3. x \in Nat
    <3>1. files[arg] \in Seq(Nat)
      BY <2>2, ElementOfSeq
    <3> QED
      BY <3>1, LargestType
  <2> HIDE DEF x
  <2>4. /\ printed' \in Seq(Nat) /\ Len(printed') = Len(printed) + 1
        /\ printed'[Len(printed) + 1] = x
        /\ \A k \in 1..Len(printed) : printed'[k] = printed[k]
    BY <2>1, <2>2, <2>3, AppendProperties
  <2>5. \A k \in 1..arg' - 1 : printed'[k] = Text!Largest(Text!Read(files'[k]))
    <3> SUFFICES ASSUME NEW k \in 1..arg
                 PROVE printed'[k] = Text!Largest(Text!Read(files[k]))
      BY <1>0, <2>1, <2>2
    <3>1. CASE k = arg
      BY <2>2, <2>4, <3>1 DEF x
    <3>2. CASE k # arg
      <4>1. k \in 1..arg - 1 /\ k \in 1..Len(printed)
        BY <2>2, <3>2
      <4> QED
        BY <2>2, <2>4, <4>1
    <3> QED
      BY <3>1, <3>2
  <2>6. arg' \in 1..Len(files') + 1 /\ Len(printed') = arg' - 1
    BY <1>0, <2>1, <2>2, <2>4
  <2>7. FilesOK'
    BY <1>0, <2>1, <2>2, <2>4, <2>5, <2>6 DEF FilesOK
  <2> QED
    BY <1>1, <2>7 DEF TextOK
<1> QED
  BY <1>2, <1>3

LEMMA CatKeeps == ASSUME TextOK, Text!PrintFileContent PROVE TextOK'
<1>0. /\ tool' = tool /\ str' = str /\ substr' = substr /\ files' = files /\ i' = i /\ j' = j
      /\ tool = "cat" /\ step = "run" /\ arg <= Len(files)
  BY DEF Text!PrintFileContent
<1>1. SubstringOK'
  BY <1>0 DEF TextOK, SubstringOK, Text!OccursAt
<1>2. CASE Text!OpenFails \/ arg > CatDescriptors
  <2>1. /\ step' = "failed" /\ arg' = arg /\ printed' = printed
        /\ files[arg] = Text!Missing \/ arg > CatDescriptors
    BY <1>2 DEF Text!PrintFileContent, Text!OpenFails
  <2> QED
    BY <1>0, <1>1, <2>1 DEF TextOK, FilesOK
<1>u. CASE ~(Text!OpenFails \/ arg > CatDescriptors) /\ files[arg] = Text!Unreadable
  <2>1. step' = "crashed" /\ arg' = arg /\ printed' = printed
    BY <1>u DEF Text!PrintFileContent
  <2> QED
    BY <1>0, <1>1, <2>1 DEF TextOK, FilesOK
<1>3. CASE ~(Text!OpenFails \/ arg > CatDescriptors) /\ files[arg] # Text!Unreadable
  <2>1. step' = step /\ arg' = arg + 1 /\ printed' = printed \o files[arg]
    BY <1>3 DEF Text!PrintFileContent
  <2>2. /\ files \in Seq(Seq(Nat)) /\ arg \in 1..Len(files) /\ printed \in Seq(Nat)
        /\ printed = Text!FlattenSeq(SubSeq(files, 1, arg - 1))
        /\ Len(files) \in Nat
        /\ files[arg] \in Seq(Nat)
    BY <1>0, LenProperties DEF TextOK, FilesOK
  <2> DEFINE before == SubSeq(files, 1, arg - 1)
  <2>3. before \in Seq(Seq(Nat))
    <3>1. \A k \in 1..arg - 1 : files[k] \in Seq(Nat)
      BY <2>2, ElementOfSeq
    <3>2. arg - 1 \in Int /\ 1 \in Int
      BY <2>2
    <3> QED
      BY <3>1, <3>2, SubSeqProperties
  <2>4. SubSeq(files, 1, arg) = Append(before, files[arg])
    <3>1. SubSeq(files, 1, arg) = before \o <<files[arg]>>
      <4>1. 1 \in 1..Len(files) /\ arg \in 1..Len(files)
        BY <2>2
      <4> QED
        BY <2>2, <4>1, SubSeqRecursiveSecond
    <3> HIDE DEF before
    <3> QED
      BY <2>2, <2>3, <3>1, AppendIsConcat
  <2> HIDE DEF before
  <2>5. Text!FlattenSeq(SubSeq(files, 1, arg)) = printed \o files[arg]
    <3>1. FlattenSeq(Append(before, files[arg])) = FlattenSeq(before) \o files[arg]
      BY <2>2, <2>3, FlattenAppend
    <3> QED
      BY <2>2, <2>4, <3>1, SameFlatten DEF before
  <2>6. arg' \in 1..Len(files') + 1 /\ arg' - 1 = arg
    BY <1>0, <2>1, <2>2
  <2>7. printed' \in Seq(Nat)
    BY <2>1, <2>2, ConcatProperties
  <2>8. FilesOK'
    BY <1>0, <2>1, <2>2, <2>5, <2>6, <2>7 DEF FilesOK
  <2> QED
    BY <1>1, <2>8 DEF TextOK
<1> QED
  BY <1>2, <1>u, <1>3

LEMMA TextNext == TextOK /\ [Text!Next]_textVars => TextOK'
<1> SUFFICES ASSUME TextOK, [Text!Next]_textVars PROVE TextOK'
  OBVIOUS
<1>1. CASE Text!FindSubstring
  BY <1>1, FindSubstringKeeps
<1>2. CASE Text!LargestString
  BY <1>2, LargestStringKeeps
<1>3. CASE Text!PrintFileContent
  BY <1>3, CatKeeps
<1>4. CASE Text!AllRead
  <2>1. /\ tool # "find" /\ step' = "done" /\ tool' = tool /\ str' = str /\ substr' = substr
        /\ files' = files /\ i' = i /\ j' = j /\ arg' = arg /\ printed' = printed
    BY <1>4 DEF Text!AllRead
  <2>2. SubstringOK'
    BY <2>1 DEF TextOK, SubstringOK, Text!OccursAt
  <2>3. FilesOK'
    BY <2>1 DEF TextOK, FilesOK
  <2> QED
    BY <2>2, <2>3 DEF TextOK
<1>5. CASE UNCHANGED textVars
  BY <1>5 DEF textVars, TextOK, SubstringOK, FilesOK, Text!OccursAt,
     Text!FirstOccurrence
<1> QED
  BY <1>1, <1>2, <1>3, <1>4, <1>5 DEF Text!Next

LEMMA TextSafe == TextOK => Text!TextsAreRight /\ Text!TypeOK
<1> SUFFICES ASSUME TextOK PROVE Text!TextsAreRight /\ Text!TypeOK
  OBVIOUS
<1>1. Text!TypeOK
  <2>1. Len(str) \in Nat /\ Len(substr) \in Nat
    BY LenProperties DEF TextOK, SubstringOK
  <2> QED
    BY <2>1 DEF TextOK, SubstringOK, FilesOK, Text!TypeOK
<1>2. ASSUME tool = "largest", NEW k \in DOMAIN printed PROVE Text!FirstLargest(k)
  <2> DEFINE p == Text!Read(files[k])
  <2>1. /\ printed \in Seq(Nat) /\ Len(printed) = arg - 1 /\ files \in Seq(Seq(Nat))
        /\ arg \in 1..Len(files) + 1
        /\ \A l \in 1..arg - 1 : printed[l] = Text!Largest(Text!Read(files[l]))
    BY <1>2 DEF TextOK, FilesOK
  <2>2. k \in 1..arg - 1 /\ k \in 1..Len(files)
    <3>1. DOMAIN printed = 1..Len(printed) /\ Len(files) \in Nat
      BY <2>1, LenProperties
    <3> QED
      BY <2>1, <3>1
  <2>3. p \in Seq(1..LineSize - 1) /\ printed[k] = Text!Largest(p)
    BY <2>1, <2>2, ElementOfSeq, ReadType
  <2> HIDE DEF p
  <2>4. LineSize - 1 \in Nat /\ DOMAIN p = 1..Len(p) /\ Len(p) \in Nat
    BY <2>3, LenProperties, TextAssumption
  <2>5. printed[k] = Best(p, DOMAIN p)
    BY <2>3, <2>4, LargestIsBest
  <2>6. CASE p = <<>>
    BY <2>5, <2>6 DEF Text!FirstLargest, Best, p
  <2>7. CASE p # <<>>
    <3> DEFINE s == DOMAIN p  b == Best(p, s)
    <3>1. s # {} /\ s \in SUBSET (1..Len(p))
      <4>1. Len(p) # 0
        BY <2>3, <2>7, EmptySeq
      <4> QED
        BY <2>4, <4>1
    <3>2. IsFirstLargest(p, s, b)
      <4> HIDE DEF s
      <4> QED
        BY <2>3, <2>4, <3>1, BestIs
    <3>3. b \in s /\ \A m \in s : p[m] <= p[b] /\ (p[m] = p[b] => b <= m)
      BY <3>2 DEF IsFirstLargest
    <3>4. b \in 1..Len(p) /\ \A m \in 1..Len(p) : p[m] \in Nat
      BY <2>3, <2>4, <3>3, ElementOfSeq
    <3> HIDE DEF b
    <3>5. ASSUME NEW m \in 1..b - 1 PROVE p[m] < p[b]
      <4>1. m \in s /\ ~(b <= m) /\ p[m] \in Nat /\ p[b] \in Nat
        BY <2>4, <3>4
      <4> QED
        BY <3>3, <4>1
    <3>6. printed[k] = b
      BY <2>5 DEF b
    <3> QED
      BY <2>7, <3>3, <3>5, <3>6 DEF Text!FirstLargest, p
  <2> QED
    BY <2>6, <2>7
<1>3. /\ tool = "find" /\ step = "done" => Text!FirstOccurrence
      /\ tool = "cat" => printed = Text!FlattenSeq(SubSeq(files, 1, arg - 1))
      /\ step = "failed" => files[arg] = Text!Missing \/ arg > CatDescriptors
  BY DEF TextOK, SubstringOK, FilesOK
<1> QED
  BY <1>1, <1>2, <1>3 DEF Text!TextsAreRight


-----------------------------------------------------------------------------
(* How many steps the programs that do not wait for anybody take.            *)

ChildrenLeft ==
  [fork |-> 5, wait |-> 0, gone |-> 0][parent] +
  [none |-> 0, exec |-> 3, command |-> 2, wait |-> 2, zombie |-> 1, reaped |-> 0][child]
\* The entries to come, and the call of opendir before them.
EntriesLeft == Len(entries) + IF dir = "closed" THEN 1 ELSE 0
\* Every number given takes memory, and once the input has ended the list is
\* walked through once.
ListsLeft ==
  IF stage \in {"done", "crashed"} THEN 0
  ELSE IF stage \in {"print", "copy"}
       THEN IF curr = 0 THEN 1 ELSE Len(nodes) - curr + 2
       ELSE 2 * Memory - Len(nodes) + IF stage = "read" THEN 3 ELSE 2
\* The comparisons left, one more for each place than the substring is long.
SearchLeft == (Len(str) - i) * (Len(substr) + 1) + (Len(substr) - j)
TextsLeft ==
  (IF tool = "find" THEN SearchLeft ELSE Len(files) + 1 - arg) +
  (IF step = "run" THEN 1 ELSE 0)

LEMMA ChildrenFall ==
  ASSUME ChildInv
  PROVE  /\ ChildrenLeft \in 0..8
         /\ Child!Next => ChildrenLeft' < ChildrenLeft
<1> USE DEF ChildInv, Child!TypeOK, Waited, Child!NoChildLeft, ChildrenLeft
<1>1. ChildrenLeft \in 0..8
  OBVIOUS
<1>2. CASE Child!Fork
  BY <1>1, <1>2 DEF Child!Fork
<1>3. CASE Child!Exec
  BY <1>1, <1>3 DEF Child!Exec
<1>4. CASE Child!ChildEnds
  BY <1>1, <1>4 DEF Child!ChildEnds
<1>5. CASE Child!Wait
  BY <1>1, <1>5 DEF Child!Wait
<1> QED
  BY <1>1, <1>2, <1>3, <1>4, <1>5 DEF Child!Next

LEMMA EntriesFall ==
  ASSUME FindOK
  PROVE  /\ EntriesLeft \in Nat
         /\ Find!Next => EntriesLeft' < EntriesLeft
<1>1. entries \in Seq(Find!Names)
  BY DEF FindOK
<1>2. Len(entries) \in Nat /\ Len(<<>>) = 0 /\ EntriesLeft \in Nat
  BY <1>1, LenProperties DEF EntriesLeft
<1>3. CASE Find!Opendir
  BY <1>2, <1>3 DEF Find!Opendir, EntriesLeft
<1>4. CASE Find!Found
  <2>1. entries # <<>> /\ entries' = <<>> /\ dir' = dir
    BY <1>4 DEF Find!Found, Find!Reads
  <2>2. Len(entries) # 0
    BY <1>1, <2>1, EmptySeq
  <2> QED
    BY <1>2, <2>1, <2>2 DEF EntriesLeft
<1>5. CASE Find!Other
  <2>1. entries # <<>> /\ entries' = Tail(entries) /\ dir' = dir
    BY <1>5 DEF Find!Other, Find!Reads
  <2>2. Len(Tail(entries)) = Len(entries) - 1
    BY <1>1, <2>1, HeadTailProperties
  <2> QED
    BY <1>2, <2>1, <2>2 DEF EntriesLeft
<1> QED
  BY <1>2, <1>3, <1>4, <1>5 DEF Find!Next

LEMMA AddFalls ==
  ASSUME ListOK, ListOK', NEW x \in Numbers \union {Lists!Junk}, Lists!Add(x),
         stage \in {"read", "stuck"}
  PROVE  ListsLeft' < ListsLeft
<1>1. Len(nodes) \in Nat /\ Len(nodes) <= Memory /\ Memory \in Nat
  BY LenProperties, ListAssumption DEF ListOK, HeapOK, ListAssumption
<1>2. CASE Len(nodes) < Memory
  <2>1. stage' = stage /\ given' = Append(given, x)
    BY <1>2 DEF Lists!Add
  <2>2. Len(given') = Len(given) + 1
    BY <2>1, AppendProperties DEF ListOK, HeapOK
  <2>3. Len(nodes') = Len(nodes) + 1
    BY <2>2 DEF ListOK, HeapOK
  <2> QED
    BY <1>1, <2>1, <2>3 DEF ListsLeft
<1>3. CASE ~(Len(nodes) < Memory)
  <2>1. stage' = "crashed"
    BY <1>3 DEF Lists!Add
  <2> QED
    BY <1>1, <2>1 DEF ListsLeft
<1> QED
  BY <1>2, <1>3

LEMMA ListsFall ==
  ASSUME ListOK
  PROVE  /\ ListsLeft \in 0..2 * Memory + 3
         /\ ListOK' /\ Lists!Next => ListsLeft' < ListsLeft
<1>1. /\ Len(nodes) \in Nat /\ Len(nodes) <= Memory /\ Memory \in Nat
      /\ curr \in 0..Len(nodes) /\ head \in 0..1
      /\ stage \in {"read", "stuck", "print", "copy", "done", "crashed"}
      /\ head = 1 => Len(nodes) # 0
  BY LenProperties, ListAssumption DEF ListOK, HeapOK, ListAssumption
<1>2. ListsLeft \in 0..2 * Memory + 3
  BY <1>1 DEF ListsLeft
<1>3. ASSUME ListOK', NEW x \in Numbers, Lists!Number(x) PROVE ListsLeft' < ListsLeft
  BY <1>3, AddFalls DEF Lists!Number
<1>4. ASSUME ListOK', Lists!Again PROVE ListsLeft' < ListsLeft
  BY <1>4, AddFalls DEF Lists!Again, ListOK, HeapOK
<1>5. ASSUME Lists!Garbage PROVE ListsLeft' < ListsLeft
  <2>1. stage = "read" /\ stage' = "stuck" /\ nodes' = nodes
    BY <1>5 DEF Lists!Garbage
  <2> QED
    BY <1>1, <2>1 DEF ListsLeft
<1>6. ASSUME Lists!EndOfInput PROVE ListsLeft' < ListsLeft
  <2>1. stage = "read" /\ stage' \in {"print", "copy"} /\ nodes' = nodes /\ curr' = head
    BY <1>6 DEF Lists!EndOfInput
  <2> QED
    BY <1>1, <2>1 DEF ListsLeft
<1>7. ASSUME Lists!PrintMeet \/ Lists!CopyNext PROVE ListsLeft' < ListsLeft
  <2>1. /\ stage \in {"print", "copy"} /\ stage' = stage /\ nodes' = nodes
        /\ curr # 0 /\ curr' = nodes[curr].next
    BY <1>7 DEF Lists!PrintMeet, Lists!CopyNext, Lists!NULL
  <2>2. curr' = IF curr = Len(nodes) THEN 0 ELSE curr + 1
    BY <1>1, <2>1 DEF ListOK, HeapOK
  <2> QED
    BY <1>1, <2>1, <2>2 DEF ListsLeft
<1>9. ASSUME Lists!NoArray PROVE ListsLeft' < ListsLeft
  <2>1. stage = "copy" /\ stage' = "crashed" /\ curr # 0
    BY <1>9 DEF Lists!NoArray, Lists!NULL
  <2> QED
    BY <1>1, <2>1 DEF ListsLeft
<1>8. ASSUME Lists!End PROVE ListsLeft' < ListsLeft
  <2>1. stage \in {"print", "copy"} /\ stage' = "done" /\ curr = 0
    BY <1>8 DEF Lists!End, Lists!NULL
  <2> QED
    BY <2>1 DEF ListsLeft
<1> QED
  BY <1>2, <1>3, <1>4, <1>5, <1>6, <1>7, <1>8, <1>9 DEF Lists!Next

LEMMA ProductFacts ==
  \A a, b \in Nat : a * b \in Nat /\ (a + 1) * b = a * b + b
OBVIOUS

LEMMA TextsFall ==
  ASSUME TextOK
  PROVE  /\ TextsLeft \in Nat
         /\ Text!Next => TextsLeft' < TextsLeft
<1>0. /\ Len(str) \in Nat /\ Len(substr) \in Nat /\ Len(files) \in Nat
      /\ i \in 0..Len(str) /\ j \in 0..Len(substr) /\ arg \in 1..Len(files) + 1
  BY LenProperties DEF TextOK, SubstringOK, FilesOK
<1> DEFINE B == Len(substr) + 1
           P == (Len(str) - i) * B
<1>1. /\ B = Len(substr) + 1 /\ B \in Nat /\ P \in Nat
      /\ SearchLeft = P + (Len(substr) - j)
  BY <1>0, ProductFacts DEF SearchLeft
<1>2. TextsLeft \in Nat
  <2>1. SearchLeft \in Nat
    <3> HIDE DEF B, P
    <3> QED
      BY <1>0, <1>1
  <2>2. Len(files) + 1 - arg \in Nat
    BY <1>0
  <2> QED
    BY <2>1, <2>2 DEF TextsLeft
<1>3. ASSUME Text!FindSubstring PROVE TextsLeft' < TextsLeft
  <2>0. /\ tool = "find" /\ step = "run" /\ tool' = tool /\ str' = str /\ substr' = substr
    BY <1>3 DEF Text!FindSubstring
  <2>1. CASE step' = "done" /\ i' = i /\ j' = j
    <3>1. SearchLeft' = SearchLeft
      BY <2>0, <2>1 DEF SearchLeft
    <3>2. TextsLeft' = SearchLeft /\ TextsLeft = SearchLeft + 1 /\ SearchLeft \in Int
      <4> HIDE DEF B, P
      <4> QED
        BY <1>0, <1>1, <2>0, <2>1, <3>1 DEF TextsLeft
    <3> QED
      BY <3>2
  <2>2. CASE step' = step /\ i' = i /\ j' = j + 1
    <3>1. SearchLeft' = P + (Len(substr) - (j + 1))
      BY <2>0, <2>2 DEF SearchLeft
    <3> HIDE DEF B, P
    <3> QED
      BY <1>0, <1>1, <2>0, <2>2, <3>1 DEF TextsLeft
  <2>3. CASE step' = step /\ i < Len(str) /\ i' = i + 1 /\ j' = 0
    <3> DEFINE Q == (Len(str) - (i + 1)) * B
    <3>1. SearchLeft' = Q + (Len(substr) - 0)
      BY <2>0, <2>3 DEF SearchLeft
    <3>2. Q \in Nat /\ P = Q + B
      <4>1. Len(str) - (i + 1) \in Nat /\ (Len(str) - (i + 1)) + 1 = Len(str) - i
        BY <1>0, <2>3
      <4> QED
        BY <1>1, <4>1, ProductFacts
    <3> HIDE DEF B, P, Q
    <3> QED
      BY <1>0, <1>1, <2>0, <2>3, <3>1, <3>2 DEF TextsLeft
  <2> QED
    BY <1>3, <2>1, <2>2, <2>3 DEF Text!FindSubstring, Text!Return, Text!NextStart
<1>4. ASSUME Text!LargestString \/ Text!PrintFileContent \/ Text!AllRead
      PROVE  TextsLeft' < TextsLeft
  <2>1. /\ tool # "find" /\ step = "run" /\ tool' = tool /\ files' = files
        /\ \/ step' \in {"done", "failed", "crashed"} /\ arg' = arg
           \/ step' = step /\ arg' = arg + 1
    BY <1>4 DEF Text!LargestString, Text!PrintFileContent, Text!AllRead
  <2> QED
    BY <1>0, <2>1 DEF TextsLeft
<1> QED
  BY <1>2, <1>3, <1>4 DEF Text!Next

-----------------------------------------------------------------------------
(* TCPserver, whose proofs are in a module of their own.                     *)

LEMMA TcpSame ==
  /\ Tcp!Init => TcpProof!Init
  /\ [Tcp!Next]_tcpVars => [TcpProof!Next]_TcpProof!tcpVars
  /\ TcpProof!TypeOK => Tcp!TypeOK
  /\ TcpProof!TimeIsFresh => Tcp!TimeIsFresh
  /\ TcpProof!OnlyLeaversEndIt => Tcp!OnlyLeaversEndIt
<1>1. Tcp!Init => TcpProof!Init
  BY DEF Tcp!Init, TcpProof!Init, Tcp!Nobody, TcpProof!Nobody
<1>2. Tcp!Next => TcpProof!Next
  BY DEF Tcp!Next, Tcp!Step, Tcp!Listen, Tcp!Exit, Tcp!Drop, Tcp!Nobody, Tcp!Accept,
     Tcp!Recv, Tcp!Send, Tcp!CloseServer, Tcp!CloseClient, Tcp!BrokenPipe, Tcp!Fault,
     Tcp!Tick, Tcp!Connect, Tcp!Speak, Tcp!Leave, Tcp!Parts, Tcp!serverVars, Tcp!ToSet,
     TcpProof!Next, TcpProof!Step, TcpProof!Listen, TcpProof!Exit, TcpProof!Drop,
     TcpProof!Nobody, TcpProof!Accept, TcpProof!Recv, TcpProof!Send,
     TcpProof!CloseServer, TcpProof!CloseClient, TcpProof!BrokenPipe, TcpProof!Fault,
     TcpProof!Tick, TcpProof!Connect, TcpProof!Speak, TcpProof!Leave, TcpProof!Parts,
     TcpProof!serverVars, TcpProof!ToSet
<1>3. UNCHANGED tcpVars => UNCHANGED TcpProof!tcpVars
  BY DEF tcpVars, TcpProof!tcpVars, TcpProof!serverVars
<1>4. TcpProof!TypeOK => Tcp!TypeOK
  BY DEF TcpProof!TypeOK, Tcp!TypeOK, TcpProof!Parts, Tcp!Parts, TcpProof!Nobody,
     Tcp!Nobody
<1>5. /\ TcpProof!TimeIsFresh => Tcp!TimeIsFresh
      /\ TcpProof!OnlyLeaversEndIt => Tcp!OnlyLeaversEndIt
  BY DEF TcpProof!TimeIsFresh, Tcp!TimeIsFresh, TcpProof!OnlyLeaversEndIt,
     Tcp!OnlyLeaversEndIt
<1> QED
  BY <1>1, <1>2, <1>3, <1>4, <1>5


-----------------------------------------------------------------------------
(* Theorems.                                                                 *)

(* Each of the programs behaves as if it ran alone: the whole implements the *)
(* specification of every component, whose other programs only stutter.      *)
THEOREM ComponentsCorrect ==
  /\ ProgramsSpec => Spec /\ Tcp!Spec /\ Net!Spec /\ Child!Spec
  /\ ProgramsSpec => Find!Spec /\ Lists!Spec /\ Text!Spec
<1>1. ProgramsSpec => Spec
  BY ChatProjection, PTL DEF ProgramsSpec, Spec
<1>2. ProgramsSpec => Tcp!Spec
  <2>1. [Tcp!Next]_tcpVars => [Tcp!Next]_Tcp!tcpVars
    BY DEF Tcp!tcpVars, Tcp!serverVars, tcpVars
  <2> QED
    BY <2>1, TcpProjection, PTL DEF ProgramsSpec, Tcp!Spec
<1>3. ProgramsSpec => Net!Spec
  <2>1. [Net!Next]_netVars => [Net!Next]_Net!netVars
    BY DEF Net!netVars, netVars
  <2> QED
    BY <2>1, NetProjection, PTL DEF ProgramsSpec, Net!Spec
<1>4. ProgramsSpec => Child!Spec
  <2>1. [Child!Next]_childVars => [Child!Next]_Child!childVars
    BY DEF Child!childVars, childVars
  <2> QED
    BY <2>1, ChildProjection, PTL DEF ProgramsSpec, Child!Spec
<1>5. ProgramsSpec => Find!Spec
  <2>1. [Find!Next]_findVars => [Find!Next]_Find!findVars
    BY DEF Find!findVars, findVars
  <2> QED
    BY <2>1, FindProjection, PTL DEF ProgramsSpec, Find!Spec
<1>6. ProgramsSpec => Lists!Spec
  <2>1. [Lists!Next]_listVars => [Lists!Next]_Lists!listVars
    BY DEF Lists!listVars, listVars
  <2> QED
    BY <2>1, ListsProjection, PTL DEF ProgramsSpec, Lists!Spec
<1>7. ProgramsSpec => Text!Spec
  <2>1. [Text!Next]_textVars => [Text!Next]_Text!textVars
    BY DEF Text!textVars, textVars
  <2> QED
    BY <2>1, TextProjection, PTL DEF ProgramsSpec, Text!Spec
<1> QED
  BY <1>1, <1>2, <1>3, <1>4, <1>5, <1>6, <1>7

\* The server of the whole is the one that TcpServerProofs is about.
LEMMA TcpProofApplies == ProgramsSpec => TcpProof!Spec
BY TcpProjection, TcpSame, PTL DEF ProgramsSpec, TcpProof!Spec

LEMMA TypesParts ==
  /\ ProgramsInit => ChildInv /\ CtrlcOK /\ NameOK /\ NetOK /\ FindOK /\ ListOK /\ TextOK
  /\ ChildInv /\ [ProgramsNext]_vars => ChildInv'
  /\ CtrlcOK /\ [ProgramsNext]_vars => CtrlcOK'
  /\ NameOK /\ [ProgramsNext]_vars => NameOK'
  /\ NetOK /\ [ProgramsNext]_vars => NetOK'
  /\ FindOK /\ [ProgramsNext]_vars => FindOK'
  /\ ListOK /\ [ProgramsNext]_vars => ListOK'
  /\ TextOK /\ [ProgramsNext]_vars => TextOK'
BY ChildProjection, PromptProjection, NetProjection, FindProjection,
   ListsProjection,
   TextProjection, ChildInvInit, ChildInvNext, CtrlcInit, CtrlcNext, NameInit, NameNext,
   NetInit, NetNext, FindInit, FindNext, ListInit, ListNext, TextInit, TextNext

\* The inductive invariant of all programs but those with a module of proofs.
ProgramsInv == /\ running \in Programs
               /\ ChildInv /\ CtrlcOK /\ NameOK /\ NetOK /\ FindOK /\ ListOK
               /\ TextOK
LEMMA ProgramsInvariance == ProgramsSpec => []ProgramsInv
<1>1. ProgramsInit => ProgramsInv
  <2>1. ProgramsInit => running \in Programs
    BY DEF ProgramsInit
  <2> QED
    BY <2>1, TypesParts DEF ProgramsInv
<1>2. ProgramsInv /\ [ProgramsNext]_vars => ProgramsInv'
  <2>1. [ProgramsNext]_vars => running' = running
    BY DEF ProgramsNext, vars, FileChatRuns, TcpRuns, DatagramRuns, ChildrenRun,
           CtrlcRuns, NameRuns, SearchRuns, ListsRun, TextsRun
  <2>2. ProgramsInv /\ [ProgramsNext]_vars => (running \in Programs)'
    BY <2>1 DEF ProgramsInv, Programs
  <2> QED
    BY <2>2, TypesParts DEF ProgramsInv
<1> QED
  BY <1>1, <1>2, PTL DEF ProgramsSpec

(* Every program keeps its types: buffers, indices, addresses and places     *)
(* stay in bounds in all of them, for any values of the constants.           *)
THEOREM TypesCorrect == ProgramsSpec => []TypesOK
<1>1. ProgramsInv => /\ running \in Programs /\ Child!TypeOK /\ Find!TypeOK
                     /\ Lists!TypeOK /\ Text!TypeOK
  BY FindSafe, ListSafe, TextSafe DEF ProgramsInv, ChildInv
<1>2. ProgramsInv => Prompt!TypeOK /\ Net!TypeOK
  <2>1. ProgramsInv => Prompt!TypeOK
    BY DEF ProgramsInv, CtrlcOK, NameOK, Prompt!TypeOK
  <2>2. NetOK => Net!TypeOK
    <3>1. waiting \in Seq(Clients) => Net!ToSet(waiting) \subseteq Clients
      BY LenProperties DEF Net!ToSet
    <3> QED
      BY <3>1 DEF NetOK, Net!TypeOK
  <2> QED
    BY <2>1, <2>2 DEF ProgramsInv
<1>3. TypeOK /\ TcpProof!TypeOK /\ ProgramsInv => TypesOK
  BY <1>1, <1>2, TcpSame DEF TypesOK
<1>4. ProgramsSpec => []TcpProof!TypeOK
  <2>1. TcpProof!Spec => []TcpProof!TypeOK
    BY TcpAssumption, TcpProof!TypeCorrect
  <2> QED
    BY <2>1, TcpProofApplies, PTL
<1> QED
  BY <1>3, <1>4, ProgramsInvariance, ComponentsCorrect, TypeCorrect, PTL

(* The time a client is sent is not of an earlier turn of the server         *)
(* (TCPserver/main.c:103, 118-133).                                          *)
THEOREM TimeIsFreshCorrect == ProgramsSpec => []TimeIsFresh
<1>1. TcpProof!TimeIsFresh => TimeIsFresh
  BY TcpSame DEF TimeIsFresh
<1> QED
  BY <1>1, TcpProofApplies, TcpProof!TimeIsFreshCorrect, PTL

(* Unless a call fails, only a client that left ends the server              *)
(* (TCPserver/main.c:102-134).                                               *)
THEOREM OnlyLeaversCorrect == ProgramsSpec => []OnlyLeaversEndIt
<1>1. TcpProof!OnlyLeaversEndIt => OnlyLeaversEndIt
  BY TcpSame DEF OnlyLeaversEndIt
<1> QED
  BY <1>1, TcpProofApplies, TcpProof!OnlyLeaversCorrect, PTL

(* A message shorter than a pointer arrives as it was given, whatever the    *)
(* client's buffer holds behind it (datagram/server.c:53, client.c:39-42).   *)
THEOREM ShortMessageCorrect == ProgramsSpec => []ShortMessageArrives
<1>1. ProgramsInv => ShortMessageArrives
  BY ShortArrives DEF ProgramsInv, ShortMessageArrives
<1> QED
  BY <1>1, ProgramsInvariance, PTL

(* The terminal comes back only after the command, and no zombie is left     *)
(* (launch_process.c:22-30, grep/main.c:11-21).                              *)
THEOREM NoChildLeftCorrect == ProgramsSpec => []NoChildLeft
<1>1. ProgramsInv => NoChildLeft
  BY DEF ProgramsInv, ChildInv, NoChildLeft
<1> QED
  BY <1>1, ProgramsInvariance, PTL

(* For any limit and however late select and printf run, only who typed      *)
(* nothing before the limit is refused (what_is_your_name.c:26-27, 47).      *)
THEOREM LateIsRefusedCorrect == ProgramsSpec => []Prompt!LateIsRefused
<1>1. ProgramsInv => Prompt!LateIsRefused
  BY DEF ProgramsInv, NameOK
<1> QED
  BY <1>1, ProgramsInvariance, PTL

(* For any directories, any links among the entries and any order of them an *)
(* entry with the name is never passed over, and a path that is printed      *)
(* leads to something that has the name or to what a link with the name      *)
(* leads to (search_file.c:51-70).                                           *)
THEOREM AnswerIsThereCorrect == ProgramsSpec => []AnswerIsThere
<1>1. ProgramsInv => AnswerIsThere
  BY FindSafe DEF ProgramsInv, AnswerIsThere
<1> QED
  BY <1>1, ProgramsInvariance, PTL

(* For any numbers and any memory the numbers given three times are printed  *)
(* once each in their order, and an array comes back from its list           *)
(* (print_figures_that_meet_three_times.c:35-118).                           *)
THEOREM ListsAreRightCorrect == ProgramsSpec => []ListsAreRight
<1>1. ProgramsInv => ListsAreRight
  BY ListSafe DEF ProgramsInv, ListsAreRight
<1> QED
  BY <1>1, ProgramsInvariance, PTL

(* For strings and files of any length the substring is found where it       *)
(* occurs first, the first of the largest strings is printed, and cat prints *)
(* all files up to the one that fails (find_address_substring.c:26-46,       *)
(* largest_string_in_files.c:9-39, cat/cat.c:29-58).                         *)
THEOREM TextsAreRightCorrect == ProgramsSpec => []TextsAreRight
<1>1. ProgramsInv => TextsAreRight
  BY TextSafe DEF ProgramsInv, TextsAreRight
<1> QED
  BY <1>1, ProgramsInvariance, PTL

(* Never do both processes of file_chat end for want of their partner's file *)
(* (file_chat.c:37-45), and what they print never goes back in time.         *)
THEOREM ChatCorrect == ProgramsSpec => []OneStays /\ NeverOlder
BY ComponentsCorrect, OneStaysCorrect, NeverOlderCorrect, PTL

\* The programs that wait for no user and no other process of a user.
Unattended == {"children", "search", "lists", "texts"}
StepsLeft ==
  [children |-> ChildrenLeft, search |-> EntriesLeft,
   lists |-> ListsLeft, texts |-> TextsLeft][running]

(* Every program that waits for nobody ends: each of its steps uses up some  *)
(* of a number fixed by its input, the (Len(str) + 1) * (Len(substr) + 1)    *)
(* comparisons of find_substring, the entries of the directory, the memory   *)
(* and the length of the list.  Input that is no number is one of the ways:  *)
(* print_figures_that_meet_three_times then goes on until malloc fails       *)
(* (find_address_substring.c:26-46, search_file.c:45-70,                     *)
(* print_figures_that_meet_three_times.c:35-118, launch_process.c:22-30).    *)
THEOREM UnattendedEnd ==
  ProgramsSpec =>
    /\ [](running \in Unattended => StepsLeft \in Nat)
    /\ [][/\ running \in Unattended => StepsLeft' < StepsLeft
          /\ stage = "stuck" => stage' \in {"stuck", "crashed"}]_vars
<1>1. ProgramsInv => (running \in Unattended => StepsLeft \in Nat)
  <2> SUFFICES ASSUME ProgramsInv PROVE running \in Unattended => StepsLeft \in Nat
    OBVIOUS
  <2>1. ChildrenLeft \in Nat /\ EntriesLeft \in Nat /\ ListsLeft \in Nat /\ TextsLeft \in Nat
    BY ChildrenFall, EntriesFall, ListsFall, TextsFall, ListAssumption
       DEF ProgramsInv, ListAssumption
  <2> QED
    BY <2>1 DEF Unattended, StepsLeft
<1>2. ProgramsInv /\ ProgramsInv' /\ ProgramsNext =>
        (running \in Unattended => StepsLeft' < StepsLeft)
  <2> SUFFICES ASSUME ProgramsInv, ProgramsInv', ProgramsNext, running \in Unattended
               PROVE  StepsLeft' < StepsLeft
    OBVIOUS
  <2>1. ASSUME ChildrenRun PROVE StepsLeft' < StepsLeft
    <3>1. running = "children" /\ running' = running /\ ChildrenLeft' < ChildrenLeft
      BY <2>1, ChildrenFall DEF ChildrenRun, ProgramsInv
    <3> QED
      BY <3>1 DEF StepsLeft
  <2>2. ASSUME SearchRuns PROVE StepsLeft' < StepsLeft
    <3>1. running = "search" /\ running' = running /\ EntriesLeft' < EntriesLeft
      BY <2>2, EntriesFall DEF SearchRuns, ProgramsInv
    <3> QED
      BY <3>1 DEF StepsLeft
  <2>3. ASSUME ListsRun PROVE StepsLeft' < StepsLeft
    <3>1. running = "lists" /\ running' = running /\ ListsLeft' < ListsLeft
      BY <2>3, ListsFall DEF ListsRun, ProgramsInv
    <3> QED
      BY <3>1 DEF StepsLeft
  <2>4. ASSUME TextsRun PROVE StepsLeft' < StepsLeft
    <3>1. running = "texts" /\ running' = running /\ TextsLeft' < TextsLeft
      BY <2>4, TextsFall DEF TextsRun, ProgramsInv
    <3> QED
      BY <3>1 DEF StepsLeft
  <2>5. ChildrenRun \/ SearchRuns \/ ListsRun \/ TextsRun
    BY DEF ProgramsNext, Unattended, FileChatRuns, TcpRuns, DatagramRuns, CtrlcRuns, NameRuns
  <2> QED
    BY <2>1, <2>2, <2>3, <2>4, <2>5
<1>3. [Lists!Next]_listVars => (stage = "stuck" => stage' \in {"stuck", "crashed"})
  BY DEF Lists!Next, Lists!Number, Lists!Garbage, Lists!Again, Lists!Add, Lists!EndOfInput,
     Lists!PrintMeet, Lists!CopyNext, Lists!NoArray, Lists!End, listVars
<1>4. ProgramsInv /\ ProgramsInv' /\ [ProgramsNext]_vars =>
        [/\ running \in Unattended => StepsLeft' < StepsLeft
         /\ stage = "stuck" => stage' \in {"stuck", "crashed"}]_vars
  BY <1>2, <1>3, ListsProjection
<1> QED
  BY <1>1, <1>4, ProgramsInvariance, PTL DEF ProgramsSpec

\* What is left of ctrlc after a signal: at most the sleep before which it came
\* and the test behind it.
CallsAfterSignal == [gone |-> 0, test |-> 1, asleep |-> 2, nap |-> 3]
SignalHeard ==
  n > 0 => /\ running = "ctrlc" /\ Prompt!CtrlcStep =>
                CallsAfterSignal[main'] < CallsAfterSignal[main]
           /\ CallsAfterSignal[main'] <= CallsAfterSignal[main]

(* The safety half of InterruptedEnds: once the handler has run, each step   *)
(* of main brings ctrlc nearer to its end, three at most, wherever the       *)
(* signal came, and no later signal puts it off (ctrlc.c:10-28).             *)
THEOREM SignalEndsSoon ==
  ProgramsSpec => /\ [](n > 0 => main \in DOMAIN CallsAfterSignal)
                  /\ [][SignalHeard]_vars
<1>1. CtrlcOK => (n > 0 => main \in DOMAIN CallsAfterSignal)
  BY DEF CtrlcOK, OneNap, CallsAfterSignal
<1>2. CtrlcOK /\ [Prompt!CtrlcNext]_ctrlcVars => SignalHeard
  BY PromptAssumption
     DEF PromptAssumption, CtrlcOK, OneNap, SignalHeard, CallsAfterSignal, ctrlcVars,
     Prompt!CtrlcNext, Prompt!CtrlcStep, Prompt!Hello, Prompt!Install, Prompt!Test,
     Prompt!Sleep, Prompt!SleepEnds, Prompt!Sigint, Prompt!Handler
<1>3. ProgramsInv /\ [ProgramsNext]_vars => [SignalHeard]_vars
  BY <1>2, PromptProjection DEF ProgramsInv
<1>4. ProgramsInv => CtrlcOK
  BY DEF ProgramsInv
<1> QED
  BY <1>1, <1>3, <1>4, ProgramsInvariance, PTL DEF ProgramsSpec
===============================================================================
