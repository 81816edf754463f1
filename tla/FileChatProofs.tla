---------------------------- MODULE FileChatProofs ----------------------------
(* Type correctness and safety of FileChat, for any words and any number of  *)
(* descriptors allowed by the assumption of the module.                      *)
EXTENDS FileChat, SequenceTheorems, TLAPS

-----------------------------------------------------------------------------
(* The inductive invariant.                                                  *)

\* What a process holds open at each call of a turn.
Room ==
  \A u \in Users : /\ place[u] \in {"scanf", "write", "read"} => open[u] >= 2
                   /\ place[u] \in {"truncate", "open"} => open[u] >= 1
\* A process that looks for its partner's file, or has given up on it, has
\* written its own, unless it could not read its pipe.
Present ==
  \A u \in Users : place[u] \in {"write", "open", "read"} \/ u \in lost =>
                    u \in exists \/ u \in skipped
\* The last word typed by a user is what its process has in the buffer; the
\* file holds one word, none while it is being replaced, and the partner has
\* printed none that is newer.
Ordered ==
  \A u \in Users :
    /\ \A i \in 1..Len(input[u]) : input[u][i] = typed[u]
    /\ place[u] = "write" => file[u] = <<>>
    /\ newest[Partner(u)] <= typed[u]
    /\ \A i \in 1..Len(file[u]) :
         newest[Partner(u)] <= file[u][i] /\ file[u][i] <= typed[u]
    /\ \A i, j \in 1..Len(file[u]) : file[u][i] = file[u][j]
IInv == TypeOK /\ Room /\ Present /\ Ordered /\ OneStays

-----------------------------------------------------------------------------
LEMMA Partners ==
  \A u \in Users : /\ Partner(u) \in Users /\ Partner(u) # u
                   /\ Partner(Partner(u)) = u
BY DEF Users, Partner

\* Words keep their type when they are truncated, typed or read.
LEMMA WordFacts ==
  /\ <<>> \in Word /\ Len(<<>>) = 0
  /\ \A w \in Word : Len(w) \in Nat /\ \A i \in 1..Len(w) : w[i] \in 0..MaxWords
  /\ \A len \in Nat, x \in 0..MaxWords :
       /\ [i \in 1..len |-> x] \in Word
       /\ Len([i \in 1..len |-> x]) = len
<1>1. \A w \in Word : Len(w) \in Nat /\ \A i \in 1..Len(w) : w[i] \in 0..MaxWords
  BY ElementOfSeq, LenProperties DEF Word
<1>2. ASSUME NEW len \in Nat, NEW x \in 0..MaxWords
      PROVE  /\ [i \in 1..len |-> x] \in Word
             /\ Len([i \in 1..len |-> x]) = len
  <2>1. [i \in 1..len |-> x] \in [1..len -> 0..MaxWords]
    OBVIOUS
  <2> QED
    BY <2>1, SeqDef, LenProperties DEF Word
<1> QED
  BY <1>1, <1>2 DEF Word

LEMMA InvInit == Init => IInv
<1> SUFFICES ASSUME Init PROVE IInv
  OBVIOUS
<1>1. <<0>> \in Word /\ <<>> \in Word /\ 0 \in 0..MaxWords
  BY ChatAssumption DEF Word
<1>2. TypeOK
  <2>1. file \in [Users -> Word] /\ input \in [Users -> Word]
    BY <1>1 DEF Init, Junk
  <2> QED
    BY <1>1, <2>1, ChatAssumption DEF Init, TypeOK
<1>3. Room /\ Present /\ OneStays
  BY DEF Init, Room, Present, OneStays, Users
<1>4. \A w \in Junk : \A i \in 1..Len(w) : w[i] = 0
  BY DEF Junk
<1>5. Ordered
  <2> SUFFICES ASSUME NEW u \in Users
               PROVE  /\ \A i \in 1..Len(input[u]) : input[u][i] = 0
                      /\ \A i \in 1..Len(file[u]) : file[u][i] = 0
    BY Partners DEF Init, Ordered
  <2>1. input[u] \in Junk /\ file[u] \in Junk
    BY DEF Init, Junk
  <2> QED
    BY <1>4, <2>1
<1> QED
  BY <1>2, <1>3, <1>5 DEF IInv

\* Steps that leave the files, the buffers and what was printed alone.
LEMMA PlaceKeeps ==
  ASSUME IInv, UNCHANGED <<file, input, typed, newest>>,
         NEW u \in Users, NEW l, place' = [place EXCEPT ![u] = l],
         l = "write" => file[u] = <<>>
  PROVE  Ordered'
<1> SUFFICES ASSUME NEW v \in Users PROVE place'[v] = "write" => file'[v] = <<>>
  BY Partners DEF IInv, Ordered
<1>1. place'[v] = IF v = u THEN l ELSE place[v]
  BY DEF IInv, TypeOK
<1> QED
  BY <1>1 DEF IInv, Ordered

LEMMA PipeKeeps == ASSUME IInv, NEW u \in Users, Pipe(u) PROVE IInv'
<1> USE ChatAssumption
<1>1. /\ TypeOK' /\ Room' /\ Present' /\ OneStays'
  BY DEF Pipe, Opens, Goto, IInv, TypeOK, Room, Present, OneStays
<1>2. Ordered'
  BY PlaceKeeps DEF Pipe, Opens, Goto
<1> QED
  BY <1>1, <1>2 DEF IInv

\* Steps that leave the files alone and give back one descriptor.
LEMMA GivesBack ==
  ASSUME IInv, NEW u \in Users, NEW l,
         l \in {"truncate", "open", "pipe"},
         l = "open" => u \in exists \/ u \in skipped',
         place' = [place EXCEPT ![u] = l],
         open' = [open EXCEPT ![u] = open[u] - 1], open[u] >= 2,
         exists' = exists, lost' = lost,
         skipped' = skipped \/ skipped' = skipped \union {u}
  PROVE  /\ Room' /\ Present' /\ OneStays'
         /\ place' \in [Users -> {"pipe", "scanf", "truncate", "write", "open",
                                  "read", "gone"}]
         /\ open' \in [Users -> 0..Descriptors]
         /\ \A v \in Users : place'[v] \in {"truncate", "open"} => open'[v] < Descriptors
<1> USE ChatAssumption
<1>1. open[u] \in 0..Descriptors /\ open[u] - 1 \in 0..Descriptors
  BY DEF IInv, TypeOK
<1>2. \A v \in Users : v # u => place'[v] = place[v] /\ open'[v] = open[v]
  OBVIOUS
<1>3. place'[u] = l /\ open'[u] = open[u] - 1
  BY DEF IInv, TypeOK
<1>4. place' \in [Users -> {"pipe", "scanf", "truncate", "write", "open",
                            "read", "gone"}]
  BY DEF IInv, TypeOK
<1>5. open' \in [Users -> 0..Descriptors]
  BY <1>1 DEF IInv, TypeOK
<1>6. \A v \in Users : place'[v] \in {"truncate", "open"} => open'[v] < Descriptors
  BY <1>1, <1>2, <1>3 DEF IInv, TypeOK
<1>7. Room'
  BY <1>1, <1>2, <1>3 DEF IInv, Room
<1>8. Present' /\ OneStays'
  BY <1>2, <1>3 DEF IInv, Present, OneStays
<1> QED
  BY <1>4, <1>5, <1>6, <1>7, <1>8

LEMMA ThroughPipeKeeps ==
  ASSUME IInv, NEW u \in Users, ThroughPipe(u),
         input' \in [Users -> Word], typed' \in [Users -> 0..MaxWords],
         closed' = closed
  PROVE  TypeOK' /\ Room' /\ Present' /\ OneStays'
<1>1. /\ open' = [open EXCEPT ![u] = open[u] - 1] /\ open[u] >= 2
      /\ UNCHANGED <<exists, file, offset, newest, lost>>
  BY DEF ThroughPipe, IInv, Room
<1>2. PICK l \in {"truncate", "open"} :
        /\ place' = [place EXCEPT ![u] = l]
        /\ l = "open" => u \in exists \/ u \in skipped'
        /\ skipped' = skipped \/ skipped' = skipped \union {u}
  BY DEF ThroughPipe, Goto
<1>3. /\ Room' /\ Present' /\ OneStays'
      /\ place' \in [Users -> {"pipe", "scanf", "truncate", "write", "open",
                               "read", "gone"}]
      /\ open' \in [Users -> 0..Descriptors]
      /\ \A v \in Users : place'[v] \in {"truncate", "open"} => open'[v] < Descriptors
  BY <1>1, <1>2, GivesBack
<1> QED
  BY <1>1, <1>2, <1>3 DEF IInv, TypeOK

LEMMA TypeKeeps ==
  ASSUME IInv, NEW u \in Users, NEW len \in Lengths, Type(u, len)
  PROVE  IInv'
<1> USE ChatAssumption
<1> DEFINE x == typed[u] + 1
           kept == Kept(len)
<1>1. x \in 0..MaxWords /\ kept \in Nat /\ typed' = [typed EXCEPT ![u] = x]
  BY DEF Type, IInv, TypeOK, Kept
<1>2. input' = [input EXCEPT ![u] = [k \in 1..kept |-> x]]
  BY <1>1 DEF Type, IInv, TypeOK
<1>3. [k \in 1..kept |-> x] \in Word /\ Len([k \in 1..kept |-> x]) = kept
  BY <1>1, WordFacts
<1> HIDE DEF x, kept
<1>4. TypeOK' /\ Room' /\ Present' /\ OneStays'
  <2>1. input' \in [Users -> Word] /\ typed' \in [Users -> 0..MaxWords]
    BY <1>1, <1>2, <1>3 DEF IInv, TypeOK
  <2>2. ThroughPipe(u) /\ closed' = closed
    BY DEF Type
  <2> QED
    BY <2>1, <2>2, ThroughPipeKeeps
<1>5. Ordered'
  <2>0. file' = file /\ newest' = newest
    BY DEF Type, ThroughPipe
  <2> SUFFICES ASSUME NEW v \in Users
               PROVE  /\ \A i \in 1..Len(input'[v]) : input'[v][i] = typed'[v]
                      /\ place'[v] = "write" => file[v] = <<>>
                      /\ newest[Partner(v)] <= typed'[v]
                      /\ \A i \in 1..Len(file[v]) : file[v][i] <= typed'[v]
    BY <2>0 DEF IInv, Ordered
  <2>1. typed[v] \in Nat /\ typed'[v] >= typed[v] /\ typed'[v] \in Nat
    BY <1>1 DEF IInv, TypeOK, x
  <2>2. /\ newest[Partner(v)] \in Nat /\ newest[Partner(v)] <= typed[v]
        /\ \A i \in 1..Len(file[v]) : file[v][i] \in Nat /\ file[v][i] <= typed[v]
    <3>1. newest[Partner(v)] \in 0..MaxWords /\ newest[Partner(v)] <= typed[v]
      BY Partners DEF IInv, TypeOK, Ordered
    <3>2. file[v] \in Word
      BY DEF IInv, TypeOK
    <3>3. \A i \in 1..Len(file[v]) : file[v][i] \in 0..MaxWords
      BY <3>2, WordFacts
    <3>4. \A i \in 1..Len(file[v]) : file[v][i] <= typed[v]
      BY DEF IInv, Ordered
    <3> QED
      BY <3>1, <3>3, <3>4
  <2>3. place'[v] = "write" => file[v] = <<>>
    BY DEF Type, ThroughPipe, Goto, IInv, TypeOK, Ordered
  <2>4. \A i \in 1..Len(input'[v]) : input'[v][i] = typed'[v]
    <3>1. CASE v = u
      BY <1>1, <1>2, <1>3, <3>1 DEF IInv, TypeOK
    <3>2. CASE v # u
      BY <1>1, <1>2, <3>2 DEF IInv, TypeOK, Ordered
    <3> QED
      BY <3>1, <3>2
  <2> QED
    BY <2>1, <2>2, <2>3, <2>4
<1> QED
  BY <1>4, <1>5 DEF IInv

\* A process that ends leaves the files as they are.
LEMMA GoneKeeps ==
  ASSUME IInv, NEW u \in Users, place' = [place EXCEPT ![u] = "gone"],
         open' = [open EXCEPT ![u] = 0],
         UNCHANGED <<exists, file, input, offset, typed, closed, newest, lost, skipped>>
  PROVE  IInv'
<1>1. TypeOK' /\ Room' /\ Present' /\ OneStays'
  BY ChatAssumption DEF IInv, TypeOK, Room, Present, OneStays
<1>2. Ordered'
  BY PlaceKeeps
<1> QED
  BY <1>1, <1>2 DEF IInv

LEMMA CrashKeeps ==
  ASSUME IInv, NEW u \in Users, ReadFails(u) \/ \E len \in Lengths : Overrun(u, len)
  PROVE  IInv'
BY GoneKeeps DEF ReadFails, Overrun, Goto

LEMMA EndInputKeeps ==
  ASSUME IInv, NEW u \in Users, EndInput(u) \/ ScanfEof(u)
  PROVE  IInv'
<1>1. CASE EndInput(u)
  <2>1. TypeOK'
    BY <1>1 DEF EndInput, IInv, TypeOK
  <2> QED
    BY <1>1, <2>1 DEF EndInput, IInv, Room, Present, Ordered, OneStays
<1>2. CASE ScanfEof(u)
  <2>1. TypeOK' /\ Room' /\ Present' /\ OneStays'
    <3>1. ThroughPipe(u) /\ UNCHANGED <<input, typed, closed>>
      BY <1>2 DEF ScanfEof
    <3>2. input' \in [Users -> Word] /\ typed' \in [Users -> 0..MaxWords]
      BY <3>1 DEF IInv, TypeOK
    <3> QED
      BY <3>1, <3>2, ThroughPipeKeeps
  <2>2. Ordered'
    BY <1>2, PlaceKeeps DEF ScanfEof, ThroughPipe, Goto
  <2> QED
    BY <2>1, <2>2 DEF IInv
<1> QED
  BY <1>1, <1>2

LEMMA TruncateKeeps == ASSUME IInv, NEW u \in Users, Truncate(u) PROVE IInv'
<1> USE ChatAssumption
<1>1. CASE place'[u] = "write"
  <2>1. /\ file' = [file EXCEPT ![u] = <<>>] /\ exists' = exists \union {u}
        /\ place' = [place EXCEPT ![u] = "write"]
        /\ open' = [open EXCEPT ![u] = @ + 1] /\ open[u] + 1 <= Descriptors
        /\ open[u] >= 1
        /\ UNCHANGED <<input, offset, typed, closed, newest, lost, skipped>>
    BY <1>1 DEF Truncate, Opens, Goto, IInv, TypeOK, Room
  <2>2. TypeOK' /\ Room' /\ Present' /\ OneStays'
    BY <2>1, WordFacts DEF IInv, TypeOK, Room, Present, OneStays
  <2>3. Ordered'
    <3> SUFFICES ASSUME NEW v \in Users
                 PROVE  /\ place'[v] = "write" => file'[v] = <<>>
                        /\ \A i \in 1..Len(file'[v]) :
                             newest[Partner(v)] <= file'[v][i] /\ file'[v][i] <= typed[v]
                        /\ \A i, j \in 1..Len(file'[v]) : file'[v][i] = file'[v][j]
      BY <2>1 DEF IInv, Ordered
    <3>1. CASE v = u
      BY <2>1, <3>1, WordFacts DEF IInv, TypeOK
    <3>2. CASE v # u
      BY <2>1, <3>2 DEF IInv, TypeOK, Ordered
    <3> QED
      BY <3>1, <3>2
  <2> QED
    BY <2>2, <2>3 DEF IInv
<1>2. CASE place'[u] # "write"
  <2>1. /\ place' = [place EXCEPT ![u] = "gone"]
        /\ open' = [open EXCEPT ![u] = 0]
        /\ UNCHANGED <<exists, file, input, offset, typed, closed, newest, lost, skipped>>
    BY <1>2 DEF Truncate, Opens, Goto, IInv, TypeOK
  <2> QED
    BY <2>1, GoneKeeps
<1> QED
  BY <1>1, <1>2

\* What is written is a part of the word in the buffer and nothing more.
LEMMA WrittenKeeps ==
  ASSUME IInv, NEW u \in Users, Write(u), place' # [place EXCEPT ![u] = "gone"]
  PROVE  IInv'
<1> USE ChatAssumption
<1>0. PICK k \in 0..Len(input[u]) :
        /\ file' = [file EXCEPT ![u] =
                      SubSeq(input[u], 1, k) \o SubSeq(file[u], k + 1, Len(file[u]))]
        /\ place' = [place EXCEPT ![u] = "open"]
        /\ open' = [open EXCEPT ![u] = open[u] - 1]
  BY DEF Write, Goto, IInv, TypeOK
<1> DEFINE text == SubSeq(input[u], 1, k)
<1>T. /\ text \in Word /\ Len(text) \in Nat
      /\ \A i \in 1..Len(text) : i \in 1..Len(input[u]) /\ text[i] = input[u][i]
  <2>1. input[u] \in Word /\ Len(input[u]) \in Nat
    BY WordFacts DEF IInv, TypeOK
  <2>2. /\ text \in Seq(0..MaxWords) /\ Len(text) = k
        /\ \A i \in 1..k : text[i] = input[u][1 + i - 1]
    BY <1>0, <2>1, SubSeqProperties DEF Word
  <2> HIDE DEF text
  <2> QED
    BY <1>0, <2>1, <2>2 DEF Word
<1>1. file' = [file EXCEPT ![u] = text]
  <2>1. file[u] = <<>>
    BY DEF Write, IInv, Ordered, TypeOK
  <2>2. k \in Nat /\ Len(<<>>) = 0
    BY <1>0, WordFacts DEF IInv, TypeOK
  <2>3. SubSeq(<<>>, k + 1, Len(<<>>)) = <<>>
    BY <2>2
  <2>4. text \o <<>> = text
    BY <1>T, ConcatEmptySeq DEF Word
  <2> QED
    BY <1>0, <2>1, <2>3, <2>4 DEF IInv, TypeOK
<1> HIDE DEF text
<1>2. TypeOK' /\ Room' /\ Present' /\ OneStays'
  <2>1. /\ place' = [place EXCEPT ![u] = "open"]
        /\ open' = [open EXCEPT ![u] = open[u] - 1] /\ open[u] >= 2
        /\ u \in exists \/ u \in skipped
        /\ UNCHANGED <<exists, input, offset, typed, closed, newest, lost, skipped>>
    BY <1>0 DEF Write, IInv, Room, Present
  <2>2. /\ Room' /\ Present' /\ OneStays'
        /\ place' \in [Users -> {"pipe", "scanf", "truncate", "write", "open",
                                 "read", "gone"}]
        /\ open' \in [Users -> 0..Descriptors]
        /\ \A v \in Users : place'[v] \in {"truncate", "open"} => open'[v] < Descriptors
    BY <2>1, GivesBack
  <2>3. file' \in [Users -> Word]
    BY <1>1, <1>T DEF IInv, TypeOK
  <2> QED
    BY <2>1, <2>2, <2>3 DEF IInv, TypeOK
<1>3. Ordered'
  <2>0. /\ place' = [place EXCEPT ![u] = "open"]
        /\ input' = input /\ typed' = typed /\ newest' = newest
    BY <1>0 DEF Write
  <2> SUFFICES ASSUME NEW v \in Users
               PROVE  /\ place'[v] = "write" => file'[v] = <<>>
                      /\ \A i \in 1..Len(file'[v]) :
                           /\ newest[Partner(v)] <= file'[v][i]
                           /\ file'[v][i] <= typed[v]
                      /\ \A i, j \in 1..Len(file'[v]) : file'[v][i] = file'[v][j]
    BY <2>0, Zenon DEF IInv, Ordered
  <2>1. CASE v # u
    <3>1. place'[v] = place[v] /\ file'[v] = file[v]
      BY <1>1, <2>0, <2>1, Zenon DEF IInv, TypeOK
    <3> QED
      BY <3>1 DEF IInv, Ordered
  <2>2. CASE v = u
    <3>1. file'[v] = text /\ place'[v] # "write"
      BY <1>0, <1>1, <2>2 DEF IInv, TypeOK
    <3>2. newest[Partner(v)] <= typed[v] /\ typed[v] <= typed[v]
      BY DEF IInv, TypeOK, Ordered
    <3>3. \A i \in 1..Len(text) : text[i] = typed[v]
      BY <1>T, <2>2 DEF IInv, Ordered
    <3> QED
      BY <3>1, <3>2, <3>3
  <2> QED
    BY <2>1, <2>2
<1> QED
  BY <1>2, <1>3 DEF IInv

LEMMA WriteKeeps == ASSUME IInv, NEW u \in Users, Write(u) PROVE IInv'
<1>1. CASE place' = [place EXCEPT ![u] = "gone"]
  <2>1. place' # [place EXCEPT ![u] = "open"]
    BY <1>1 DEF IInv, TypeOK
  <2> QED
    BY <1>1, <2>1, GoneKeeps DEF Write, Goto
<1>2. CASE place' # [place EXCEPT ![u] = "gone"]
  BY <1>2, WrittenKeeps
<1> QED
  BY <1>1, <1>2

LEMMA OpenPartnerKeeps ==
  ASSUME IInv, NEW u \in Users, OpenPartner(u)
  PROVE  IInv'
<1> USE ChatAssumption
<1>1. /\ place[u] = "open" /\ open[u] >= 1 /\ open[u] < Descriptors
      /\ offset' = [offset EXCEPT ![u] = 0]
      /\ UNCHANGED <<exists, file, input, typed, closed, newest, skipped>>
  BY DEF OpenPartner, Opens, IInv, TypeOK, Room
<1>2. CASE /\ place' = [place EXCEPT ![u] = "read"]
           /\ open' = [open EXCEPT ![u] = @ + 1] /\ lost' = lost
  <2>1. TypeOK' /\ Room' /\ Present' /\ OneStays'
    BY <1>1, <1>2 DEF IInv, TypeOK, Room, Present, OneStays
  <2>2. Ordered'
    BY <1>1, <1>2, PlaceKeeps
  <2> QED
    BY <2>1, <2>2 DEF IInv
<1>3. CASE /\ Partner(u) \notin exists /\ lost' = lost \union {u}
           /\ place' = [place EXCEPT ![u] = "gone"]
           /\ open' = [open EXCEPT ![u] = 0]
  <2>1. TypeOK' /\ Room' /\ Present'
    BY <1>1, <1>3 DEF IInv, TypeOK, Room, Present
  <2>2. Partner(u) \in lost' => Partner(u) \in skipped'
    BY <1>1, <1>3, Partners DEF IInv, Present
  <2>3. Ordered'
    BY <1>1, <1>3, PlaceKeeps
  <2> QED
    BY <2>1, <2>2, <2>3, Partners DEF IInv, OneStays
<1> QED
  BY <1>1, <1>2, <1>3 DEF OpenPartner, Opens, Goto, IInv, TypeOK

\* What a read gets is one word, no older than what was printed before.
LEMMA ReadKeeps == ASSUME IInv, NEW u \in Users, Read(u) PROVE IInv'
<1> DEFINE v == Partner(u)
           last == Len(file[v])
<1>1. /\ v \in Users /\ v # u /\ Partner(v) = u
      /\ last \in Nat /\ last \in 1..last
      /\ file[v][last] \in 0..MaxWords
  <2>1. v \in Users /\ v # u /\ Partner(v) = u /\ file[v] \in Word
    BY Partners DEF IInv, TypeOK
  <2>2. last \in Nat /\ offset[u] \in Nat /\ offset[u] < last
    BY <2>1, WordFacts DEF Read, IInv, TypeOK
  <2> QED
    BY <2>1, <2>2, WordFacts
<1>2. /\ offset' = [offset EXCEPT ![u] = last]
      /\ newest' = [newest EXCEPT ![u] = file[v][last]]
      /\ UNCHANGED <<place, exists, file, input, open, typed, closed, lost, skipped>>
  BY DEF Read, IInv, TypeOK
<1>3. TypeOK' /\ Room' /\ Present' /\ OneStays'
  BY <1>1, <1>2 DEF IInv, TypeOK, Room, Present, OneStays
<1>4. Ordered'
  <2> SUFFICES ASSUME NEW w \in Users
               PROVE  /\ newest'[Partner(w)] <= typed[w]
                      /\ \A i \in 1..Len(file[w]) :
                           newest'[Partner(w)] <= file[w][i] /\ file[w][i] <= typed[w]
    BY <1>2 DEF IInv, Ordered
  <2>1. CASE w = v
    <3>1. newest'[Partner(w)] = file[w][last] /\ last = Len(file[w])
      BY <1>1, <1>2, <2>1 DEF IInv, TypeOK
    <3>2. \A i \in 1..last : file[w][i] = file[w][last] /\ file[w][i] <= typed[w]
      BY <1>1, <2>1 DEF IInv, Ordered
    <3>3. file[w][last] <= file[w][last]
      BY <1>1, <2>1
    <3> QED
      BY <1>1, <3>1, <3>2, <3>3
  <2>2. CASE w # v
    <3>1. Partner(w) # u
      BY <2>2, Partners
    <3> QED
      BY <1>2, <3>1, Partners DEF IInv, TypeOK, Ordered
  <2> QED
    BY <2>1, <2>2
<1> QED
  BY <1>3, <1>4 DEF IInv

LEMMA ReadEndKeeps == ASSUME IInv, NEW u \in Users, ReadEnd(u) PROVE IInv'
<1>1. /\ place' = [place EXCEPT ![u] = "pipe"]
      /\ open' = [open EXCEPT ![u] = open[u] - 1] /\ open[u] >= 2
      /\ UNCHANGED <<exists, file, input, offset, typed, closed, newest, lost, skipped>>
  BY DEF ReadEnd, Goto, IInv, Room
<1>2. /\ Room' /\ Present' /\ OneStays'
      /\ place' \in [Users -> {"pipe", "scanf", "truncate", "write", "open",
                               "read", "gone"}]
      /\ open' \in [Users -> 0..Descriptors]
      /\ \A v \in Users : place'[v] \in {"truncate", "open"} => open'[v] < Descriptors
  BY <1>1, GivesBack
<1>3. TypeOK'
  BY <1>1, <1>2 DEF IInv, TypeOK
<1>4. Ordered'
  BY <1>1, PlaceKeeps
<1> QED
  BY <1>2, <1>3, <1>4 DEF IInv

LEMMA InvNext == IInv /\ [Next]_chatVars => IInv'
<1> SUFFICES ASSUME IInv, [Next]_chatVars PROVE IInv'
  OBVIOUS
<1>1. ASSUME NEW u \in Users, Step(u) PROVE IInv'
  BY <1>1, PipeKeeps, EndInputKeeps, TruncateKeeps, WriteKeeps, OpenPartnerKeeps,
     ReadKeeps, ReadEndKeeps, CrashKeeps DEF Step
<1>2. CASE UNCHANGED chatVars
  BY <1>2 DEF chatVars, IInv, TypeOK, Room, Present, Ordered, OneStays
<1> QED
  BY <1>1, <1>2, TypeKeeps, CrashKeeps, EndInputKeeps DEF Next

LEMMA Invariance == Spec => []IInv
BY InvInit, InvNext, PTL DEF Spec

(* Files, buffers and descriptors keep their types, and a process that has   *)
(* the pipe of a turn gets through the turn, for any words and limits.       *)
THEOREM TypeCorrect == Spec => []TypeOK
<1>1. IInv => TypeOK
  BY DEF IInv
<1> QED
  BY <1>1, Invariance, PTL

(* While the pipes can be read, never do both processes end for want of      *)
(* their partner's file, though files are cut short or left empty by failed  *)
(* writes (file_chat.c:24-25, 39-48, 77-82).                                 *)
THEOREM OneStaysCorrect == Spec => []OneStays
<1>1. IInv => OneStays
  BY DEF IInv
<1> QED
  BY <1>1, Invariance, PTL

(* What is printed never goes back to an older word, wherever the partner's  *)
(* O_TRUNC and write fall between two reads, be a write short, a pipe not    *)
(* read or a word cut to the buffer (file_chat.c:27-31, 39-48, 73-81).       *)
THEOREM NeverOlderCorrect == Spec => NeverOlder
<1> DEFINE Newer ==
      \A u \in Users : \A i \in offset[u] + 1 .. offset'[u] :
        /\ newest[u] <= file[Partner(u)][i]
        /\ \A j \in offset[u] + 1 .. i :
             file[Partner(u)][j] <= file[Partner(u)][i]
<1>1. IInv /\ [Next]_chatVars => [Newer]_chatVars
  <2> SUFFICES ASSUME IInv, Next, NEW u \in Users,
                      NEW i \in offset[u] + 1 .. offset'[u]
               PROVE  /\ newest[u] <= file[Partner(u)][i]
                      /\ \A j \in offset[u] + 1 .. i :
                           file[Partner(u)][j] <= file[Partner(u)][i]
    OBVIOUS
  <2>1. /\ Partner(u) \in Users /\ file[Partner(u)] \in Word
        /\ offset[u] \in Nat /\ Partner(Partner(u)) = u
    BY Partners DEF IInv, TypeOK
  <2>2. offset'[u] = Len(file[Partner(u)])
    <3>0. IInv'
      BY InvNext
    <3>1. offset'[u] > offset[u] /\ offset \in [Users -> Nat]
      BY <2>1, <3>0 DEF IInv, TypeOK
    <3>2. offset' # offset
      BY <3>1
    <3>3. PICK v \in Users : OpenPartner(v) \/ Read(v)
      BY <3>2 DEF Next, Step, Pipe, ScanfEof, Truncate, Write, ReadEnd, EndInput,
                  Type, ReadFails, Overrun, ThroughPipe
    <3>4. CASE OpenPartner(v)
      BY <3>1, <3>4 DEF OpenPartner
    <3>5. CASE Read(v)
      BY <3>1, <3>5 DEF Read
    <3> QED
      BY <3>3, <3>4, <3>5
  <2>3. \A j \in offset[u] + 1 .. i : j \in 1..Len(file[Partner(u)])
    BY <2>1, <2>2, WordFacts
  <2>4. i \in offset[u] + 1 .. i
    BY <2>1
  <2>5. file[Partner(u)][i] <= file[Partner(u)][i]
    BY <2>1, <2>3, <2>4, WordFacts
  <2> QED
    BY <2>1, <2>3, <2>4, <2>5 DEF IInv, Ordered
<1> QED
  BY <1>1, Invariance, PTL DEF Spec, NeverOlder
-----------------------------------------------------------------------------
(* How long a process can go on.                                             *)

\* Descriptors of the present turn, those that its end gives back or counts.
OfTurn == [pipe |-> 0, scanf |-> 2, truncate |-> 1, write |-> 2, open |-> 1, read |-> 2]
\* Calls that are left of the turn.
CallsLeft ==
  [pipe |-> 6, scanf |-> 5, truncate |-> 4, write |-> 3, open |-> 2, read |-> 1]
\* What is left at a call with that many descriptors open: the calls of the
\* turn, and six for every descriptor that no turn has kept yet.
Left(at, held) == 6 * (Descriptors - (held - OfTurn[at])) + CallsLeft[at]
TurnsLeft(u) == IF place[u] = "gone" THEN 0 ELSE Left(place[u], open[u])
TurnsAreLimited == \A u \in Users : TurnsLeft(u) \in 0..6 * Descriptors + 6
\* Every step of a process but another read of a file that has grown uses up
\* some of it, and no step of either process gives any back.
Call(u) == \/ Step(u) /\ ~Read(u)
           \/ \E len \in Lengths : Type(u, len) \/ Overrun(u, len)
StepCosts(u) ==
  /\ Call(u) => TurnsLeft(u)' < TurnsLeft(u)
  /\ TurnsLeft(u)' <= TurnsLeft(u)

LEMMA LeftIsNat ==
  ASSUME IInv, NEW u \in Users
  PROVE  /\ TurnsLeft(u) \in 0..6 * Descriptors + 6
         /\ place[u] # "gone" => TurnsLeft(u) > 0
<1>1. /\ place[u] \in {"pipe", "scanf", "truncate", "write", "open", "read", "gone"}
      /\ open[u] \in 0..Descriptors /\ Descriptors \in Nat
  BY ChatAssumption DEF IInv, TypeOK
<1>2. /\ place[u] \in {"scanf", "write", "read"} => open[u] >= 2
      /\ place[u] \in {"truncate", "open"} => open[u] >= 1
  BY DEF IInv, Room
<1>3. CASE place[u] = "gone"
  BY <1>1, <1>3 DEF TurnsLeft
<1>4. CASE place[u] \in {"pipe", "scanf", "write"}
  BY <1>1, <1>2, <1>4 DEF TurnsLeft, Left, OfTurn, CallsLeft
<1>5. CASE place[u] \in {"truncate", "open", "read"}
  BY <1>1, <1>2, <1>5 DEF TurnsLeft, Left, OfTurn, CallsLeft
<1> QED
  BY <1>1, <1>3, <1>4, <1>5

\* From one call of a turn to the next, with the descriptors it opens or closes.
LEMMA CallCosts ==
  ASSUME NEW held \in Nat, NEW at, NEW next, NEW after,
         \/ at = "pipe" /\ next = "scanf" /\ after = held + 2
         \/ at = "scanf" /\ next \in {"truncate", "open"} /\ after = held - 1
         \/ at = "truncate" /\ next = "write" /\ after = held + 1
         \/ at = "write" /\ next = "open" /\ after = held - 1
         \/ at = "open" /\ next = "read" /\ after = held + 1
         \/ at = "read" /\ next = "pipe" /\ after = held - 1
  PROVE  Left(next, after) < Left(at, held)
<1> USE ChatAssumption
<1>1. CASE at = "pipe" /\ next = "scanf" /\ after = held + 2
  BY <1>1 DEF Left, OfTurn, CallsLeft
<1>2. CASE at = "scanf" /\ next \in {"truncate", "open"} /\ after = held - 1
  BY <1>2 DEF Left, OfTurn, CallsLeft
<1>3. CASE at = "truncate" /\ next = "write" /\ after = held + 1
  BY <1>3 DEF Left, OfTurn, CallsLeft
<1>4. CASE at = "write" /\ next = "open" /\ after = held - 1
  BY <1>4 DEF Left, OfTurn, CallsLeft
<1>5. CASE at = "open" /\ next = "read" /\ after = held + 1
  BY <1>5 DEF Left, OfTurn, CallsLeft
<1>6. CASE at = "read" /\ next = "pipe" /\ after = held - 1
  BY <1>6 DEF Left, OfTurn, CallsLeft
<1> QED
  BY <1>1, <1>2, <1>3, <1>4, <1>5, <1>6

\* Where a step of a process takes it, and what it then has open.
LEMMA OwnStep ==
  ASSUME IInv, NEW u \in Users, Call(u)
  PROVE  /\ place[u] # "gone"
         /\ place'[u] = "gone" \/ Left(place'[u], open'[u]) < Left(place[u], open[u])
         /\ \A v \in Users \ {u} : place'[v] = place[v] /\ open'[v] = open[v]
<1>0. /\ open[u] \in Nat /\ u \in DOMAIN place /\ u \in DOMAIN open
      /\ \A f : \A l : [f EXCEPT ![u] = l] = [v \in DOMAIN f |-> IF v = u THEN l ELSE f[v]]
      /\ DOMAIN place = Users /\ DOMAIN open = Users
  BY ChatAssumption DEF IInv, TypeOK
<1>1. ASSUME NEW at, NEW k \in {1, 2}, NEW next, Opens(u, at, k, next), at # "gone",
             Left(next, open[u] + k) < Left(at, open[u])
      PROVE  /\ place[u] # "gone"
             /\ place'[u] = "gone" \/ Left(place'[u], open'[u]) < Left(place[u], open[u])
             /\ \A v \in Users \ {u} : place'[v] = place[v] /\ open'[v] = open[v]
  <2>1. CASE open[u] + k > Descriptors
    BY <1>0, <1>1, <2>1 DEF Opens, Goto
  <2>2. CASE ~(open[u] + k > Descriptors)
    BY <1>0, <1>1, <2>2 DEF Opens, Goto
  <2> QED
    BY <2>1, <2>2
<1>2. CASE Pipe(u)
  BY <1>0, <1>1, <1>2, CallCosts DEF Pipe
<1>3. CASE Truncate(u)
  BY <1>0, <1>1, <1>3, CallCosts DEF Truncate
<1>4. CASE OpenPartner(u)
  <2>1. CASE Opens(u, "open", 1, "read")
    BY <1>0, <1>1, <2>1, CallCosts
  <2>2. CASE ~Opens(u, "open", 1, "read")
    BY <1>0, <1>4, <2>2 DEF OpenPartner, Goto
  <2> QED
    BY <2>1, <2>2
<1>5. ASSUME NEW at, NEW next, place[u] = at, Goto(u, next), at # "gone",
             open' = [open EXCEPT ![u] = open[u] - 1],
             Left(next, open[u] - 1) < Left(at, open[u])
      PROVE  /\ place[u] # "gone"
             /\ Left(place'[u], open'[u]) < Left(place[u], open[u])
             /\ \A v \in Users \ {u} : place'[v] = place[v] /\ open'[v] = open[v]
  BY <1>0, <1>5 DEF Goto
<1>6. CASE ThroughPipe(u)
  <2>1. PICK l \in {"truncate", "open"} : Goto(u, l)
    BY <1>6 DEF ThroughPipe
  <2>2. Left(l, open[u] - 1) < Left("scanf", open[u])
    BY <1>0, CallCosts
  <2> QED
    BY <1>5, <1>6, <2>1, <2>2 DEF ThroughPipe
<1>7. CASE Write(u)
  <2>1. CASE Goto(u, "open") /\ open' = [open EXCEPT ![u] = open[u] - 1]
    BY <1>0, <1>5, <1>7, <2>1, CallCosts DEF Write
  <2>2. CASE Goto(u, "gone") /\ open' = [open EXCEPT ![u] = 0]
    BY <1>0, <1>7, <2>2 DEF Write, Goto
  <2> QED
    BY <1>7, <2>1, <2>2 DEF Write
<1>9. CASE ReadFails(u) \/ \E len \in Lengths : Overrun(u, len)
  BY <1>0, <1>9 DEF ReadFails, Overrun, Goto
<1>8. CASE ReadEnd(u)
  BY <1>0, <1>5, <1>8, CallCosts DEF ReadEnd
<1> QED
  BY <1>2, <1>3, <1>4, <1>6, <1>7, <1>8, <1>9 DEF Call, Step, ScanfEof, Type

(* The safety half of EndsAfterEof: a process that keeps the descriptor of   *)
(* each file it prints gets through a limited number of turns, whatever is   *)
(* typed, and whatever its partner does; every call but another read of a    *)
(* file that has grown brings it nearer to its end (file_chat.c:24, 67-82).  *)
THEOREM ChatWearsOff ==
  Spec => /\ []TurnsAreLimited
          /\ [][\A u \in Users : StepCosts(u)]_chatVars
<1>1. IInv => TurnsAreLimited
  BY LeftIsNat DEF TurnsAreLimited
<1>2. IInv /\ TurnsAreLimited' /\ Next => \A u \in Users : StepCosts(u)
  <2> SUFFICES ASSUME IInv, TurnsAreLimited', Next, NEW u \in Users
               PROVE  StepCosts(u)
    OBVIOUS
  <2>0. TurnsLeft(u) \in Nat /\ (place[u] # "gone" => TurnsLeft(u) > 0)
    BY LeftIsNat, ChatAssumption
  <2>1. CASE Call(u)
    <3>1. TurnsLeft(u)' < TurnsLeft(u)
      BY <2>0, <2>1, OwnStep DEF TurnsLeft
    <3>2. TurnsLeft(u)' \in Nat
      BY ChatAssumption DEF TurnsAreLimited
    <3> QED
      BY <2>0, <3>1, <3>2 DEF StepCosts
  <2>2. CASE ~Call(u)
    <3>1. place'[u] = place[u] /\ open'[u] = open[u]
      <4>1. PICK v \in Users : \/ Step(v) \/ EndInput(v)
                               \/ \E len \in Lengths : Type(v, len) \/ Overrun(v, len)
        BY DEF Next
      <4>2. CASE EndInput(v) \/ Read(v)
        BY <4>2 DEF EndInput, Read
      <4>3. CASE ~(EndInput(v) \/ Read(v))
        BY <2>2, <4>1, <4>3, OwnStep DEF Call
      <4> QED
        BY <4>2, <4>3
    <3>2. TurnsLeft(u)' = TurnsLeft(u)
      BY <3>1 DEF TurnsLeft
    <3> QED
      BY <2>0, <2>2, <3>2 DEF StepCosts
  <2> QED
    BY <2>1, <2>2
<1> QED
  BY <1>1, <1>2, Invariance, PTL DEF Spec
================================================================================
