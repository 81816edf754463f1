------------------------------- MODULE UdpProofs -------------------------------
(* Type correctness and safety of Udp, for any number of ports and clients,  *)
(* any lengths and any number of faults.                                     *)
EXTENDS Udp, Induction

-----------------------------------------------------------------------------
(* The inductive invariant.                                                  *)

\* A client that runs was started; an answer goes to the port of a request.
TypeInv ==
  /\ TypeOK
  /\ \A p \in Ports : clientPc[p] # "none" => runs[p] \in 1..MaxClients
  /\ serverPc \in {"count", "size"} => clientAddr \in Ports

\* Between two requests the server has sent two datagrams for each.
Answering == serverPc \in {"count", "size"}
TotalsOK ==
  /\ serverPc \in {"start", "recv"} => datagramsCount = 2 * Len(served)
  /\ serverPc = "count" => datagramsCount = 2 * (Len(served) - 1)
  /\ serverPc = "size" => datagramsCount = 2 * (Len(served) - 1) + 1
  /\ buffSize = start + Taken(Len(served))
  /\ Answering => served # <<>> /\ served[Len(served)].port = clientAddr

\* What there is of the requests and answers of a port.
PlacesOf(channel, p) == {i \in 1..Len(channel) : channel[i].port = p}
RequestsOf(p) == PlacesOf(requests, p)
RepliesTo(p) == PlacesOf(replies, p)
Answers(p) == Answering /\ clientAddr = p
Quiet(p) == RepliesTo(p) = {} /\ socket[p] = <<>> /\ ~Answers(p)

\* The client of port p waits for the answers to the n-th request.  At most
\* two of them are on their way or read; of two the first is the count and
\* the second the size.
Count(n) == 2 * (n - 1)
Size(n) == start + Taken(n)
FirstSent(p, n) ==
  serverPc = "count" /\ clientAddr = p =>
    n = Len(served) /\ RepliesTo(p) = {} /\ socket[p] = <<>> /\ clientPc[p] = "count"
SecondSent(p, n) ==
  serverPc = "size" /\ clientAddr = p =>
    /\ n = Len(served)
    /\ \A i \in RepliesTo(p) :
         /\ replies[i].value = Count(n) /\ RepliesTo(p) = {i}
         /\ socket[p] = <<>> /\ clientPc[p] = "count"
    /\ socket[p] # <<>> => socket[p] = <<Count(n)>> /\ clientPc[p] = "count"
    /\ clientPc[p] = "size" => dgCount[p] = Count(n)
TwoReplies(p, n) ==
  \A i, j \in RepliesTo(p) : i < j =>
    /\ replies[i].value = Count(n) /\ replies[j].value = Size(n)
    /\ RepliesTo(p) = {i, j} /\ socket[p] = <<>> /\ clientPc[p] = "count"
ReplyBehind(p, n) ==
  \A i \in RepliesTo(p) :
    /\ socket[p] # <<>> =>
         /\ socket[p] = <<Count(n)>> /\ replies[i].value = Size(n)
         /\ RepliesTo(p) = {i} /\ clientPc[p] = "count"
    /\ clientPc[p] = "size" =>
         /\ dgCount[p] = Count(n) /\ replies[i].value = Size(n)
         /\ RepliesTo(p) = {i} /\ socket[p] = <<>>
InSocket(p, n) ==
  /\ Len(socket[p]) <= 2
  /\ Len(socket[p]) = 2 => socket[p] = <<Count(n), Size(n)>> /\ clientPc[p] = "count"
  /\ clientPc[p] = "size" /\ socket[p] # <<>> =>
       socket[p] = <<Size(n)>> /\ dgCount[p] = Count(n)
AnswersOf(p, n) ==
  /\ IsOf(n, [port |-> p, run |-> runs[p]])
  /\ FirstSent(p, n) /\ SecondSent(p, n) /\ TwoReplies(p, n)
  /\ ReplyBehind(p, n) /\ InSocket(p, n)

\* The port of a client whose predecessors all waited for their answers.
PortOK(p) ==
  /\ clientPc[p] \in {"none", "send"} => Quiet(p) /\ RequestsOf(p) = {}
  /\ clientPc[p] \in {"count", "size"} =>
       \/ /\ clientPc[p] = "count" /\ Quiet(p)
          /\ \A i \in RequestsOf(p) : requests[i].run = runs[p] /\ RequestsOf(p) = {i}
       \/ RequestsOf(p) = {} /\ \E n \in 1..Len(served) : AnswersOf(p, n)
PortsOK == mishaps = 0 => \A p \in Ports \ impatient : PortOK(p)
IInv == TypeInv /\ TotalsOK /\ PortsOK /\ PrintsOwnTotals

-----------------------------------------------------------------------------
(* Channels and sums.                                                        *)

Request == [port : Ports, length : Nat, run : 1..MaxClients]
Reply == [port : Ports, value : Int]

LEMMA SubSeqType ==
  ASSUME NEW S, NEW s \in Seq(S), NEW a \in Nat, NEW b \in Nat, a >= 1, b <= Len(s)
  PROVE  SubSeq(s, a, b) \in Seq(S)
<1>1. \A k \in a..b : s[k] \in S
  BY LenProperties, ElementOfSeq
<1> QED
  BY <1>1, SubSeqProperties

LEMMA RemoveFacts ==
  ASSUME NEW S, NEW s \in Seq(S), NEW i \in 1..Len(s)
  PROVE  /\ RemoveAt(s, i) \in Seq(S) /\ Len(RemoveAt(s, i)) = Len(s) - 1
         /\ \A k \in 1..Len(s) - 1 : RemoveAt(s, i)[k] = s[IF k < i THEN k ELSE k + 1]
<1> DEFINE a == SubSeq(s, 1, i - 1)  b == SubSeq(s, i + 1, Len(s))
<1>0. Len(s) \in Nat /\ i \in Nat /\ i - 1 \in Nat /\ \A k \in 1..Len(s) : s[k] \in S
  BY LenProperties, ElementOfSeq
<1>1. /\ a \in Seq(S) /\ Len(a) = i - 1
      /\ \A k \in 1..i - 1 : a[k] = s[k]
  <2>1. \A k \in 1..i - 1 : s[k] \in S
    BY <1>0
  <2>2. /\ a \in Seq(S) /\ Len(a) = (IF 1 <= i - 1 THEN i - 1 - 1 + 1 ELSE 0)
        /\ \A k \in 1..i - 1 - 1 + 1 : a[k] = s[1 + k - 1]
    BY <1>0, <2>1, SubSeqProperties
  <2> HIDE DEF a
  <2> QED
    BY <1>0, <2>2
<1>2. /\ b \in Seq(S) /\ Len(b) = Len(s) - i
      /\ \A k \in 1..Len(s) - i : b[k] = s[k + i]
  <2>1. \A k \in i + 1..Len(s) : s[k] \in S
    BY <1>0
  <2>2. /\ b \in Seq(S)
        /\ Len(b) = (IF i + 1 <= Len(s) THEN Len(s) - (i + 1) + 1 ELSE 0)
        /\ \A k \in 1..Len(s) - (i + 1) + 1 : b[k] = s[i + 1 + k - 1]
    BY <1>0, <2>1, SubSeqProperties
  <2> HIDE DEF b
  <2>3. \A k \in 1..Len(s) - i : b[k] = s[k + i]
    <3> SUFFICES ASSUME NEW k \in 1..Len(s) - i PROVE b[k] = s[k + i]
      OBVIOUS
    <3>1. k \in 1..Len(s) - (i + 1) + 1 /\ i + 1 + k - 1 = k + i
      BY <1>0
    <3> QED
      BY <2>2, <3>1
  <2> QED
    BY <1>0, <2>2, <2>3
<1>3. RemoveAt(s, i) = a \o b
  BY DEF RemoveAt
<1> HIDE DEF a, b
<1>4. /\ a \o b \in Seq(S) /\ Len(a \o b) = Len(a) + Len(b)
      /\ \A k \in 1..Len(a) + Len(b) :
           (a \o b)[k] = IF k <= Len(a) THEN a[k] ELSE b[k - Len(a)]
  BY <1>1, <1>2, ConcatProperties
<1>5. ASSUME NEW k \in 1..Len(s) - 1
      PROVE  (a \o b)[k] = s[IF k < i THEN k ELSE k + 1]
  <2>1. k \in 1..Len(a) + Len(b) /\ k \in Nat
    BY <1>0, <1>1, <1>2
  <2>2. CASE k < i
    <3>1. k <= Len(a) /\ k \in 1..i - 1
      BY <1>0, <1>1, <2>1, <2>2
    <3> QED
      BY <1>1, <1>4, <2>1, <2>2, <3>1
  <2>3. CASE ~(k < i)
    <3>1. ~(k <= Len(a)) /\ k - Len(a) \in 1..Len(s) - i /\ k - Len(a) + i = k + 1
      BY <1>0, <1>1, <2>1, <2>3
    <3> QED
      BY <1>2, <1>4, <2>1, <2>3, <3>1
  <2> QED
    BY <2>2, <2>3
<1>6. Len(a) + Len(b) = Len(s) - 1
  BY <1>0, <1>1, <1>2
<1> QED
  BY <1>3, <1>4, <1>5, <1>6

LEMMA MishapType ==
  ASSUME NEW S, NEW s \in Seq(S), NEW t \in Mishap(s) PROVE t \in Seq(S)
<1>0. Len(s) \in Nat /\ DOMAIN s = 1..Len(s) /\ \A k \in 1..Len(s) : s[k] \in S
  BY LenProperties, ElementOfSeq
<1>1. ASSUME NEW i \in DOMAIN s, t = InsertAt(s, i, s[i]) PROVE t \in Seq(S)
  <2>1. SubSeq(s, 1, i - 1) \in Seq(S) /\ SubSeq(s, i, Len(s)) \in Seq(S)
    BY <1>0, SubSeqType
  <2>2. s[i] \in S
    BY <1>0
  <2>3. <<s[i]>> \in Seq(S)
    BY <2>2
  <2>4. SubSeq(s, 1, i - 1) \o <<s[i]>> \in Seq(S)
    BY <2>1, <2>3, ConcatProperties
  <2>5. SubSeq(s, 1, i - 1) \o <<s[i]>> \o SubSeq(s, i, Len(s)) \in Seq(S)
    BY <2>1, <2>4, ConcatProperties
  <2> QED
    BY <1>1, <2>5 DEF InsertAt
<1>2. ASSUME NEW i \in 1..(Len(s) - 1),
             t = [s EXCEPT ![i] = s[i + 1], ![i + 1] = s[i]] PROVE t \in Seq(S)
  <2>1. i \in 1..Len(s) /\ i + 1 \in 1..Len(s)
    BY <1>0
  <2>2. t \in [1..Len(s) -> S]
    <3>1. s \in [1..Len(s) -> S]
      BY LenProperties
    <3> QED
      BY <1>0, <1>2, <2>1, <3>1
  <2> QED
    BY <1>0, <2>2
<1> QED
  BY <1>1, <1>2 DEF Mishap

LEMMA ReceivedType == ASSUME NEW n \in Nat PROVE Received(n) \in Nat
<1> DEFINE m == IF n <= BuffLen THEN n ELSE BuffLen
<1>0. BuffLen \in Nat
  BY UdpAssumption DEF UdpAssumption
<1>1. m \in {n, BuffLen} /\ \A y \in {n, BuffLen} : m <= y
  BY <1>0
<1>2. Received(n) \in {n, BuffLen}
  <2> HIDE DEF m
  <2> QED
    BY <1>1 DEF Received, Min
<1> QED
  BY <1>0, <1>2

\* The runs of one port are among those that Started counts.
LEMMA StartedBounds ==
  ASSUME runs \in [Ports -> Nat], NEW p \in Ports
  PROVE  runs[p] <= Started /\ Started \in Nat
<1>1. Started = Total(runs, Ports)
  BY DEF Started, MapThenSumSet, Total, FoldFunctionOnSet
<1>2. IsFiniteSet(Ports) /\ \A q \in Ports : runs[q] \in Nat
  BY UdpAssumption DEF UdpAssumption
<1> QED
  BY <1>1, <1>2, TotalAdds

\* The bytes of one more request are added, those of the earlier ones stay.
LEMMA TakenNext ==
  ASSUME NEW r \in Request, served \in Seq(Request), served' = Append(served, r)
  PROVE  /\ \A n \in 1..Len(served) : Taken(n)' = Taken(n)
         /\ Taken(Len(served))' = Taken(Len(served)) + Received(r.length)
         /\ Taken(Len(served)) \in Nat
<1> DEFINE f == [i \in DOMAIN served |-> Received(served[i].length)]
           g == [i \in DOMAIN served' |-> Received(served'[i].length)]
           m == Len(served) + 1
<1>1. /\ Len(served) \in Nat /\ DOMAIN served = 1..Len(served) /\ DOMAIN served' = 1..m
      /\ served'[m] = r /\ \A i \in 1..Len(served) : served'[i] = served[i] /\ served[i] \in Request
  BY LenProperties, ElementOfSeq, AppendProperties
<1>2. \A n : Taken(n) = Total(f, 1..n) /\ Taken(n)' = Total(g, 1..n)
  <2>1. \A n : Taken(n) = Total(f, 1..n)
    BY DEF Taken, Total, FoldFunctionOnSet
  <2>2. \A n : Taken(n)' = Total(g, 1..n)
    BY DEF Taken, Total, FoldFunctionOnSet, MapThenFoldSet
  <2> QED
    BY <2>1, <2>2
<1>3. \A i \in 1..Len(served) : f[i] \in Nat /\ f[i] = g[i]
  <2> SUFFICES ASSUME NEW i \in 1..Len(served) PROVE f[i] \in Nat /\ f[i] = g[i]
    OBVIOUS
  <2>1. i \in DOMAIN served /\ i \in DOMAIN served'
    BY <1>1
  <2>2. served[i].length \in Nat /\ served'[i] = served[i]
    BY <1>1 DEF Request
  <2> QED
    BY <2>1, <2>2, ReceivedType
<1>4. g[m] = Received(r.length) /\ g[m] \in Nat
  <2>1. m \in DOMAIN served' /\ r.length \in Nat
    BY <1>1 DEF Request
  <2> QED
    BY <1>1, <2>1, ReceivedType
<1> HIDE DEF f, g
<1>5. \A n \in 0..Len(served) : Total(f, 1..n) = Total(g, 1..n)
  <2> SUFFICES ASSUME NEW n \in 0..Len(served) PROVE Total(f, 1..n) = Total(g, 1..n)
    OBVIOUS
  <2>1. IsFiniteSet(1..n)
    BY FS_Interval
  <2>2. \A i \in 1..n : f[i] \in Nat /\ f[i] = g[i]
    BY <1>1, <1>3
  <2> QED
    BY <2>1, <2>2, TotalSame
<1>6. Total(g, 1..m) = Received(r.length) + Total(g, 1..Len(served))
  <2>1. m \in 1..m /\ (1..m) \ {m} = 1..Len(served)
    BY <1>1
  <2>2. IsFiniteSet(1..m)
    BY <1>1, FS_Interval
  <2>3. \A i \in 1..m : g[i] \in Nat
    BY <1>1, <1>3, <1>4
  <2> QED
    <3> HIDE DEF m
    <3> QED
      BY <1>4, <2>1, <2>2, <2>3, TotalAdds
<1>7. Total(g, 1..Len(served)) \in Nat
  <2>1. IsFiniteSet(1..Len(served)) /\ \A i \in 1..Len(served) : g[i] \in Nat
    <3>1. Len(served) \in Int /\ 1 \in Int
      BY <1>1
    <3> QED
      BY <1>3, <3>1, FS_Interval
  <2>2. Total(g, 1..Len(served)) = Cardinality(Marks(g, 1..Len(served)))
    BY <2>1, TotalIsCount
  <2> QED
    BY <2>1, <2>2, MarksAdd, FS_CardinalityType
<1>8. Len(served) \in 0..Len(served) /\ \A n \in 1..Len(served) : n \in 0..Len(served)
  BY <1>1
<1>9. \A n \in 1..Len(served) : Taken(n)' = Taken(n)
  BY <1>2, <1>5, <1>8
<1>10. Taken(Len(served)) \in Nat /\ Taken(Len(served)) = Total(g, 1..Len(served))
  BY <1>2, <1>5, <1>7, <1>8
<1>11. Taken(Len(served))' = Received(r.length) + Total(g, 1..Len(served))
  <2>1. PICK k : k = Len(served')
    OBVIOUS
  <2>2. k = m
    BY <1>1, <2>1, AppendProperties
  <2>3. Taken(Len(served))' = Taken(k)'
    BY <2>1
  <2> QED
    BY <1>2, <1>6, <2>2, <2>3
<1>12. Received(r.length) \in Nat
  BY <1>4
<1> QED
  BY <1>9, <1>10, <1>11, <1>12

-----------------------------------------------------------------------------
(* Types.                                                                    *)

LEMMA TypeInit == Init => TypeInv
<1> SUFFICES ASSUME Init PROVE TypeInv
  OBVIOUS
<1> USE UdpAssumption DEF UdpAssumption
<1>1. <<>> \in Seq(Request) /\ <<>> \in Seq(Reply) /\ <<>> \in Seq(Int)
  BY EmptySeq
<1>2. buffSize \in Int /\ start \in Garbage
  BY DEF Init
<1>3. /\ serverPc = "start" /\ datagramsCount = 0 /\ clientAddr = 0
      /\ requests \in Seq(Request) /\ served \in Seq(Request)
      /\ replies \in Seq(Reply)
      /\ clientPc = [p \in Ports |-> "none"]
      /\ socket = [p \in Ports |-> <<>>] /\ socket \in [Ports -> Seq(Int)]
  BY <1>1 DEF Init
<1>4. /\ dgCount \in [Ports -> Int] /\ runs \in [Ports -> 0..MaxClients]
      /\ mishaps = 0 /\ errors = 0 /\ impatient = {} /\ printed = {}
  BY DEF Init
<1> QED
  BY <1>2, <1>3, <1>4 DEF TypeInv, TypeOK, Request, Reply

LEMMA TypeNext == TypeInv /\ [Next]_vars => TypeInv'
<1> SUFFICES ASSUME TypeInv, [Next]_vars PROVE TypeInv'
  OBVIOUS
<1> USE UdpAssumption DEF UdpAssumption
<1>0. /\ TypeOK /\ requests \in Seq(Request) /\ served \in Seq(Request) /\ replies \in Seq(Reply)
      /\ Len(requests) \in Nat /\ Len(replies) \in Nat
  BY LenProperties DEF TypeInv, TypeOK, Request, Reply
<1>1. CASE Bind
  BY <1>1 DEF Bind, clientVars, TypeInv, TypeOK
<1>2. CASE RecvMessage
  <2>1. Head(requests) \in Request /\ Tail(requests) \in Seq(Request)
    BY <1>0, <1>2, HeadTailProperties DEF RecvMessage
  <2>2. served' \in Seq(Request) /\ requests' \in Seq(Request)
    BY <1>0, <1>2, <2>1, AppendProperties DEF RecvMessage
  <2>3. clientAddr' \in Ports /\ Head(requests).length \in Nat
    BY <1>2, <2>1 DEF RecvMessage, Request
  <2>4. buffSize' \in Int
    BY <1>0, <1>2, <2>3, ReceivedType DEF RecvMessage, TypeOK
  <2> QED
    BY <1>2, <2>2, <2>3, <2>4 DEF RecvMessage, clientVars, TypeInv, TypeOK, Request
<1>3. ASSUME NEW value \in Int, NEW from \in {"count", "size"}, NEW to \in {"size", "recv"},
             SendMessage(value, from, to) PROVE TypeInv'
  <2>1. clientAddr \in Ports
    BY <1>3 DEF SendMessage, TypeInv
  <2>2. [port |-> clientAddr, value |-> value] \in Reply
    BY <1>3, <2>1 DEF Reply
  <2>3. replies' \in Seq(Reply)
    BY <1>0, <1>3, <2>2, AppendProperties DEF SendMessage
  <2> QED
    BY <1>3, <2>1, <2>3 DEF SendMessage, clientVars, TypeInv, TypeOK, Reply
<1>4. CASE SendCount
  BY <1>0, <1>3, <1>4 DEF SendCount, TypeOK
<1>5. CASE SendSize
  BY <1>0, <1>3, <1>5 DEF SendSize, TypeOK
<1>6. CASE ServerExits
  BY <1>6 DEF ServerExits, clientVars, TypeInv, TypeOK
<1>7. ASSUME NEW p \in Ports, ClientStarts(p) PROVE TypeInv'
  <2>1. runs \in [Ports -> Nat]
    BY <1>0 DEF TypeOK
  <2>2. runs[p] + 1 \in 1..MaxClients
    BY <1>7, <2>1, StartedBounds DEF ClientStarts
  <2>3. runs' \in [Ports -> 0..MaxClients]
    BY <1>0, <1>7, <2>2 DEF ClientStarts, TypeOK
  <2>4. clientPc' \in [Ports -> {"none", "send", "count", "size"}]
    BY <1>0, <1>7 DEF ClientStarts, TypeOK
  <2>5. \A q \in Ports : clientPc'[q] \in {"none", "send"} => socket'[q] = <<>>
    BY <1>0, <1>7 DEF ClientStarts, TypeOK
  <2>6. \A q \in Ports : clientPc'[q] # "none" => runs'[q] \in 1..MaxClients
    BY <1>0, <1>7, <2>2 DEF ClientStarts, TypeInv, TypeOK
  <2> QED
    BY <1>7, <2>3, <2>4, <2>5, <2>6 DEF ClientStarts, serverVars, TypeInv, TypeOK
<1>8. ASSUME NEW p \in Ports, NEW n \in Lengths[p], ClientSends(p, n) PROVE TypeInv'
  <2>1. [port |-> p, length |-> n, run |-> runs[p]] \in Request
    BY <1>8 DEF ClientSends, TypeInv, Request
  <2>2. requests' \in Seq(Request)
    BY <1>0, <1>8, <2>1, AppendProperties DEF ClientSends
  <2> QED
    BY <1>8, <2>2 DEF ClientSends, serverVars, TypeInv, TypeOK, Request
<1>9. ASSUME NEW p \in Ports, ClientSendFails(p) PROVE TypeInv'
  BY <1>9 DEF ClientSendFails, serverVars, TypeInv, TypeOK
<1>10. ASSUME NEW p \in Ports, ClientReadsCount(p) PROVE TypeInv'
  <2>1. socket[p] \in Seq(Int) /\ socket[p] # <<>>
    BY <1>0, <1>10 DEF ClientReadsCount, TypeOK
  <2>2. Head(socket[p]) \in Int /\ Tail(socket[p]) \in Seq(Int)
    BY <2>1, HeadTailProperties
  <2>3. socket' \in [Ports -> Seq(Int)] /\ dgCount' \in [Ports -> Int]
    BY <1>0, <1>10, <2>2 DEF ClientReadsCount, TypeOK
  <2> QED
    BY <1>10, <2>3 DEF ClientReadsCount, serverVars, TypeInv, TypeOK
<1>11. ASSUME NEW p \in Ports, Close(p)
       PROVE  /\ clientPc' \in [Ports -> {"none", "send", "count", "size"}]
              /\ socket' \in [Ports -> Seq(Int)] /\ dgCount' \in [Ports -> Int]
              /\ \A q \in Ports : clientPc'[q] \in {"none", "send"} => socket'[q] = <<>>
              /\ \A q \in Ports : clientPc'[q] # "none" => clientPc[q] # "none"
  <2>1. <<>> \in Seq(Int)
    BY EmptySeq
  <2>2. socket' \in [Ports -> Seq(Int)]
    BY <1>0, <1>11, <2>1 DEF Close, TypeOK
  <2> QED
    BY <1>0, <1>11, <2>2 DEF Close, TypeOK
<1>12. ASSUME NEW p \in Ports, ClientReadsSize(p) PROVE TypeInv'
  <2>1. socket[p] \in Seq(Int) /\ socket[p] # <<>>
    BY <1>0, <1>12 DEF ClientReadsSize, TypeOK
  <2>2. Head(socket[p]) \in Int
    BY <2>1, HeadTailProperties
  <2>3. runs[p] \in 1..MaxClients /\ dgCount[p] \in Int
    BY <1>12 DEF ClientReadsSize, TypeInv, TypeOK
  <2>4. [port |-> p, run |-> runs[p], count |-> dgCount[p], size |-> Head(socket[p])]
          \in [port : Ports, run : 1..MaxClients, count : Int, size : Int]
    BY <1>12, <2>2, <2>3
  <2>5. printed' \subseteq [port : Ports, run : 1..MaxClients, count : Int, size : Int]
    BY <1>0, <1>12, <2>4 DEF ClientReadsSize, TypeOK
  <2>6. Close(p)
    BY <1>12 DEF ClientReadsSize
  <2> QED
    BY <1>11, <1>12, <2>5, <2>6 DEF ClientReadsSize, serverVars, TypeInv, TypeOK
<1>13. ASSUME NEW p \in Ports, ClientTimesOut(p) PROVE TypeInv'
  <2>1. Close(p)
    BY <1>13 DEF ClientTimesOut
  <2> QED
    BY <1>11, <1>13, <2>1 DEF ClientTimesOut, serverVars, TypeInv, TypeOK
<1>14. CASE Deliver
  <2>1. Head(replies) \in Reply /\ replies' \in Seq(Reply)
    BY <1>0, <1>14, HeadTailProperties DEF Deliver
  <2>2. PICK r \in Reply : r = Head(replies)
    BY <2>1
  <2>3. r.port \in Ports /\ r.value \in Int
    BY DEF Reply
  <2>4. Append(socket[r.port], r.value) \in Seq(Int)
    BY <1>0, <2>3, AppendProperties DEF TypeOK
  <2>5. /\ socket' \in [Ports -> Seq(Int)]
        /\ \A q \in Ports : clientPc[q] \in {"none", "send"} => socket'[q] = socket[q]
    BY <1>0, <1>14, <2>2, <2>3, <2>4 DEF Deliver, TypeOK
  <2> QED
    BY <1>14, <2>1, <2>5 DEF Deliver, serverVars, TypeInv, TypeOK, Reply
<1>15. CASE Lose
  <2>1. requests' \in Seq(Request) /\ replies' \in Seq(Reply)
    <3>1. ASSUME NEW i \in DOMAIN requests, requests' = RemoveAt(requests, i)
          PROVE  requests' \in Seq(Request)
      BY <1>0, <3>1, RemoveFacts, LenProperties
    <3>2. ASSUME NEW i \in DOMAIN replies, replies' = RemoveAt(replies, i)
          PROVE  replies' \in Seq(Reply)
      BY <1>0, <3>2, RemoveFacts, LenProperties
    <3> QED
      BY <1>0, <1>15, <3>1, <3>2 DEF Lose
  <2> QED
    BY <1>15, <2>1 DEF Lose, serverVars, clientVars, TypeInv, TypeOK, Request, Reply
<1>16. CASE Garble
  <2>1. requests' \in Seq(Request) /\ replies' \in Seq(Reply)
    BY <1>0, <1>16, MishapType DEF Garble
  <2>2. mishaps' \in Nat /\ errors' \in Nat /\ mishaps' + errors' <= MaxFaults
    BY <1>0, <1>16 DEF Garble, TypeOK
  <2> QED
    BY <1>16, <2>1, <2>2 DEF Garble, serverVars, clientVars, TypeInv, TypeOK,
       Request, Reply
<1>17. CASE UNCHANGED vars
  BY <1>17 DEF vars, serverVars, clientVars, TypeInv, TypeOK
<1> QED
  BY <1>1, <1>2, <1>4, <1>5, <1>6, <1>7, <1>8, <1>9, <1>10, <1>12, <1>13, <1>14,
     <1>15, <1>16, <1>17 DEF Next, Server, ClientReceives

(* The server, the network and the clients keep their types, and nothing     *)
(* waits in the socket of a port that no client has sent from, for any ports *)
(* and lengths (udp_server.c:55-90, udp_client.c:33-55).                     *)
THEOREM TypeCorrect == Spec => []TypeOK
<1>1. TypeInv => TypeOK
  BY DEF TypeInv
<1> QED
  BY <1>1, TypeInit, TypeNext, PTL DEF Spec

-----------------------------------------------------------------------------
(* The totals of the server.                                                 *)

LEMMA TotalsInit == Init => TotalsOK
<1> SUFFICES ASSUME Init PROVE TotalsOK
  OBVIOUS
<1>1. served = <<>> /\ Len(served) = 0
  BY EmptySeq DEF Init
<1> DEFINE f == [i \in DOMAIN served |-> Received(served[i].length)]
<1>2. Taken(0) = Total(f, 1..0)
  BY DEF Taken, Total, FoldFunctionOnSet
<1> HIDE DEF f
<1>3. 1..0 = {} /\ IsFiniteSet({}) /\ Cardinality({}) = 0 /\ Marks(f, {}) = {}
  BY FS_EmptySet DEF Marks
<1>4. Total(f, {}) = 0
  BY <1>3, TotalIsCount
<1>5. Taken(Len(served)) = 0
  BY <1>1, <1>2, <1>3, <1>4
<1>6. buffSize \in Int
  BY UdpAssumption DEF UdpAssumption, Init
<1> QED
  BY <1>1, <1>5, <1>6 DEF Init, TotalsOK, Answering

LEMMA TakenSame == ASSUME served' = served PROVE \A n : Taken(n)' = Taken(n)
<1> DEFINE f == [i \in DOMAIN served |-> Received(served[i].length)]
           g == [i \in DOMAIN served' |-> Received(served'[i].length)]
<1>1. \A n : Taken(n) = Total(f, 1..n)
  BY DEF Taken, Total, FoldFunctionOnSet
<1>2. \A n : Taken(n)' = Total(g, 1..n)
  BY DEF Taken, Total, FoldFunctionOnSet, MapThenFoldSet
<1>3. f = g
  OBVIOUS
<1> HIDE DEF f, g
<1> QED
  BY <1>1, <1>2, <1>3

\* The numbers of the requests taken stay what they were.
LEMMA TakenStays ==
  ASSUME TypeInv, [Next]_vars
  PROVE  /\ start' = start /\ Len(served) \in Nat /\ Len(served) <= Len(served)'
         /\ \A n \in 1..Len(served) :
              served'[n] = served[n] /\ Taken(n)' = Taken(n) /\ n \in 1..Len(served')
<1>0. served \in Seq(Request) /\ requests \in Seq(Request) /\ Len(served) \in Nat
  BY LenProperties DEF TypeInv, TypeOK, Request
<1>1. CASE served' = served /\ start' = start
  BY <1>0, <1>1, TakenSame
<1>2. CASE RecvMessage
  <2>1. PICK r \in Request : r = Head(requests)
    BY <1>0, <1>2, HeadTailProperties DEF RecvMessage
  <2>2. served' = Append(served, r) /\ start' = start
    BY <1>2, <2>1 DEF RecvMessage
  <2>3. \A n \in 1..Len(served) : Taken(n)' = Taken(n)
    BY <1>0, <2>2, TakenNext
  <2> QED
    BY <1>0, <2>2, <2>3, AppendProperties
<1>3. CASE ~RecvMessage
  <2>1. served' = served /\ start' = start
    BY <1>3 DEF Next, Bind, Server, SendCount, SendSize, SendMessage, ServerExits,
                ClientStarts, ClientSends, ClientSendFails, ClientReceives,
                ClientReadsCount, ClientReadsSize, ClientTimesOut, Deliver, Lose,
                Garble, vars, serverVars
  <2> QED
    BY <1>1, <2>1
<1> QED
  BY <1>2, <1>3

LEMMA TotalsNext == TypeInv /\ TotalsOK /\ [Next]_vars => TotalsOK'
<1> SUFFICES ASSUME TypeInv, TotalsOK, [Next]_vars PROVE TotalsOK'
  OBVIOUS
<1>0. /\ served \in Seq(Request) /\ requests \in Seq(Request) /\ Len(served) \in Nat
      /\ datagramsCount \in Nat /\ buffSize \in Int /\ start \in Int
      /\ served # <<>> => Len(served) >= 1
  BY UdpAssumption, LenProperties, EmptySeq DEF UdpAssumption, TypeInv, TypeOK,
     Request
<1>1. ASSUME served' = served PROVE Taken(Len(served))' = Taken(Len(served))
  <2>1. PICK k : k = Len(served) /\ k = Len(served')
    BY <1>1
  <2>2. Taken(Len(served))' = Taken(k)' /\ Taken(Len(served)) = Taken(k)
    BY <2>1
  <2> QED
    BY <1>1, <2>2, TakenSame
<1>2. CASE Bind
  <2>1. served' = served
    BY <1>2 DEF Bind
  <2> QED
    BY <1>1, <1>2, <2>1 DEF Bind, TotalsOK, Answering
<1>3. CASE RecvMessage
  <2>1. PICK r \in Request : r = Head(requests)
    BY <1>0, <1>3, HeadTailProperties DEF RecvMessage
  <2>2. /\ served' = Append(served, r) /\ start' = start /\ clientAddr' = r.port
        /\ buffSize' = buffSize + Received(r.length) /\ serverPc' = "count"
        /\ serverPc = "recv" /\ datagramsCount' = datagramsCount
    BY <1>3, <2>1 DEF RecvMessage
  <2>3. /\ Taken(Len(served))' = Taken(Len(served)) + Received(r.length)
        /\ Taken(Len(served)) \in Nat /\ Received(r.length) \in Nat
    BY <1>0, <2>1, <2>2, TakenNext, ReceivedType DEF Request
  <2>4. /\ Len(served') = Len(served) + 1 /\ served'[Len(served')] = r
        /\ served' # <<>>
    BY <1>0, <2>2, AppendProperties, EmptySeq
  <2>5. buffSize' = start' + Taken(Len(served))'
    BY <1>0, <2>2, <2>3 DEF TotalsOK
  <2>6. datagramsCount' = 2 * (Len(served') - 1)
    BY <1>0, <2>2, <2>4 DEF TotalsOK
  <2> QED
    BY <2>2, <2>4, <2>5, <2>6 DEF TotalsOK, Answering
<1>4. CASE SendCount
  <2>1. served' = served
    BY <1>4 DEF SendCount, SendMessage
  <2> QED
    BY <1>0, <1>1, <1>4, <2>1 DEF SendCount, SendMessage, TotalsOK, Answering
<1>5. CASE SendSize
  <2>1. served' = served
    BY <1>5 DEF SendSize, SendMessage
  <2> QED
    BY <1>0, <1>1, <1>5, <2>1 DEF SendSize, SendMessage, TotalsOK, Answering
<1>6. CASE ServerExits
  <2>1. served' = served
    BY <1>6 DEF ServerExits
  <2> QED
    BY <1>1, <1>6, <2>1 DEF ServerExits, TotalsOK, Answering
<1>7. CASE UNCHANGED serverVars
  <2>1. served' = served
    BY <1>7 DEF serverVars
  <2> QED
    BY <1>1, <1>7, <2>1 DEF serverVars, TotalsOK, Answering
<1>8. Bind \/ Server \/ ServerExits \/ UNCHANGED serverVars
  BY DEF Next, ClientStarts, ClientSends, ClientSendFails, ClientReceives,
         ClientReadsCount, ClientReadsSize, ClientTimesOut, Deliver, Lose, Garble, vars,
         serverVars
<1> QED
  BY <1>2, <1>3, <1>4, <1>5, <1>6, <1>7, <1>8 DEF Server

-----------------------------------------------------------------------------
(* Steps of others.                                                          *)

\* What channel t has for port p is, in that order, among what s has for it.
Thins(t, s, p) ==
  \E h \in [PlacesOf(t, p) -> PlacesOf(s, p)] :
    \A i, j \in PlacesOf(t, p) : t[i] = s[h[i]] /\ (i < j => h[i] < h[j])

LEMMA ThinsSame == ASSUME NEW s, NEW p PROVE Thins(s, s, p)
<1> DEFINE h == [i \in PlacesOf(s, p) |-> i]
<1>1. h \in [PlacesOf(s, p) -> PlacesOf(s, p)]
  OBVIOUS
<1>2. \A i, j \in PlacesOf(s, p) : s[i] = s[h[i]] /\ (i < j => h[i] < h[j])
  OBVIOUS
<1> HIDE DEF h
<1> QED
  BY <1>1, <1>2 DEF Thins

LEMMA ThinsRemove ==
  ASSUME NEW S, NEW s \in Seq(S), NEW k \in 1..Len(s), NEW p
  PROVE  Thins(RemoveAt(s, k), s, p)
<1> DEFINE t == RemoveAt(s, k)
           h == [i \in PlacesOf(t, p) |-> IF i < k THEN i ELSE i + 1]
<1>1. /\ Len(t) = Len(s) - 1 /\ Len(s) \in Nat
      /\ \A i \in 1..Len(s) - 1 : t[i] = s[IF i < k THEN i ELSE i + 1]
  BY RemoveFacts, LenProperties
<1> HIDE DEF t
<1>2. ASSUME NEW i \in PlacesOf(t, p)
      PROVE  /\ i \in 1..Len(s) - 1 /\ h[i] = (IF i < k THEN i ELSE i + 1)
             /\ h[i] \in PlacesOf(s, p) /\ t[i] = s[h[i]]
  BY <1>1, <1>2 DEF PlacesOf
<1>3. h \in [PlacesOf(t, p) -> PlacesOf(s, p)]
  <2>1. \A i \in PlacesOf(t, p) : (IF i < k THEN i ELSE i + 1) \in PlacesOf(s, p)
    BY <1>2
  <2> QED
    BY <2>1
<1>4. \A i, j \in PlacesOf(t, p) : t[i] = s[h[i]] /\ (i < j => h[i] < h[j])
  <2> HIDE DEF h
  <2> QED
    BY <1>2
<1> HIDE DEF h
<1> QED
  BY <1>3, <1>4 DEF Thins, t

LEMMA ThinsTail ==
  ASSUME NEW S, NEW s \in Seq(S), s # <<>>, NEW p
  PROVE  /\ Thins(Tail(s), s, p)
         /\ \A i \in PlacesOf(Tail(s), p) :
              i + 1 \in PlacesOf(s, p) /\ i + 1 # 1 /\ Tail(s)[i] = s[i + 1]
         /\ Head(s).port = p => 1 \in PlacesOf(s, p)
         /\ Head(s) = s[1] /\ Head(s) \in S
<1> DEFINE t == Tail(s)
           h == [i \in PlacesOf(t, p) |-> i + 1]
<1>1. /\ Len(t) = Len(s) - 1 /\ Len(s) \in Nat /\ Len(s) >= 1
      /\ \A i \in 1..Len(s) - 1 : t[i] = s[i + 1]
      /\ Head(s) = s[1] /\ Head(s) \in S
  BY HeadTailProperties, LenProperties, EmptySeq
<1> HIDE DEF t
<1>2. ASSUME NEW i \in PlacesOf(t, p)
      PROVE  /\ i \in 1..Len(s) - 1 /\ h[i] = i + 1
             /\ h[i] \in PlacesOf(s, p) /\ t[i] = s[h[i]]
  BY <1>1, <1>2 DEF PlacesOf
<1>3. h \in [PlacesOf(t, p) -> PlacesOf(s, p)]
  <2>1. \A i \in PlacesOf(t, p) : i + 1 \in PlacesOf(s, p)
    BY <1>2
  <2> QED
    BY <2>1
<1>4. \A i, j \in PlacesOf(t, p) : t[i] = s[h[i]] /\ (i < j => h[i] < h[j])
  <2> HIDE DEF h
  <2> QED
    BY <1>2
<1> HIDE DEF h
<1>5. Thins(t, s, p)
  BY <1>3, <1>4 DEF Thins
<1>6. \A i \in PlacesOf(t, p) : i + 1 \in PlacesOf(s, p) /\ i + 1 # 1 /\ t[i] = s[i + 1]
  BY <1>2
<1>7. Head(s).port = p => 1 \in PlacesOf(s, p)
  BY <1>1 DEF PlacesOf
<1> QED
  BY <1>1, <1>5, <1>6, <1>7 DEF t

LEMMA PlacesAppend ==
  ASSUME NEW S, NEW s \in Seq(S), NEW x \in S, NEW p
  PROVE  /\ x.port # p => Thins(Append(s, x), s, p)
         /\ x.port = p => PlacesOf(Append(s, x), p) = PlacesOf(s, p) \union {Len(s) + 1}
         /\ \A i \in PlacesOf(s, p) : Append(s, x)[i] = s[i] /\ i < Len(s) + 1 /\ i \in Nat
         /\ Append(s, x)[Len(s) + 1] = x /\ Len(s) + 1 \in Nat
<1> DEFINE t == Append(s, x)
<1>1. /\ Len(t) = Len(s) + 1 /\ Len(s) \in Nat /\ t[Len(s) + 1] = x
      /\ \A i \in 1..Len(s) : t[i] = s[i]
  BY AppendProperties, LenProperties
<1> HIDE DEF t
<1>2. ASSUME x.port # p PROVE Thins(t, s, p)
  <2> DEFINE h == [i \in PlacesOf(t, p) |-> i]
  <2>1. \A i \in PlacesOf(t, p) : i \in PlacesOf(s, p) /\ t[i] = s[i]
    BY <1>1, <1>2 DEF PlacesOf
  <2>2. h \in [PlacesOf(t, p) -> PlacesOf(s, p)]
    BY <2>1
  <2>3. \A i, j \in PlacesOf(t, p) : t[i] = s[h[i]] /\ (i < j => h[i] < h[j])
    BY <2>1
  <2> HIDE DEF h
  <2> QED
    BY <2>2, <2>3 DEF Thins
<1>3. x.port = p => PlacesOf(t, p) = PlacesOf(s, p) \union {Len(s) + 1}
  BY <1>1 DEF PlacesOf
<1>4. \A i \in PlacesOf(s, p) : t[i] = s[i] /\ i < Len(s) + 1 /\ i \in Nat
  BY <1>1 DEF PlacesOf
<1>5. /\ x.port # p => Thins(t, s, p)
      /\ x.port = p => PlacesOf(t, p) = PlacesOf(s, p) \union {Len(s) + 1}
      /\ \A i \in PlacesOf(s, p) : t[i] = s[i] /\ i < Len(s) + 1 /\ i \in Nat
      /\ t[Len(s) + 1] = x /\ Len(s) + 1 \in Nat
  BY <1>1, <1>2, <1>3, <1>4
<1> QED
  BY <1>5 DEF t

\* A step that is nothing to the client of port p, but may lose its datagrams.
LeavesAlone(p) ==
  /\ clientPc'[p] = clientPc[p] /\ socket'[p] = socket[p]
  /\ dgCount'[p] = dgCount[p] /\ runs'[p] = runs[p]
  /\ Thins(requests', requests, p) /\ Thins(replies', replies, p)
  /\ Answers(p)' => Answers(p) /\ serverPc' = serverPc /\ served' = served

LEMMA LeftAlone ==
  ASSUME NEW p \in Ports, TypeInv, [Next]_vars, LeavesAlone(p), PortOK(p)
  PROVE  PortOK(p)'
<1>0. /\ clientPc[p] \in {"none", "send", "count", "size"}
      /\ clientPc'[p] = clientPc[p] /\ socket'[p] = socket[p]
      /\ dgCount'[p] = dgCount[p] /\ runs'[p] = runs[p]
      /\ Answers(p)' => Answers(p) /\ serverPc' = serverPc /\ served' = served
  BY DEF LeavesAlone, TypeInv, TypeOK
<1>1. PICK g \in [RequestsOf(p)' -> RequestsOf(p)] :
        \A i, j \in RequestsOf(p)' : requests'[i] = requests[g[i]] /\ (i < j => g[i] < g[j])
  BY DEF LeavesAlone, Thins, RequestsOf, PlacesOf
<1>2. PICK h \in [RepliesTo(p)' -> RepliesTo(p)] :
        \A i, j \in RepliesTo(p)' : replies'[i] = replies[h[i]] /\ (i < j => h[i] < h[j])
  BY DEF LeavesAlone, Thins, RepliesTo, PlacesOf
<1>3. /\ \A i \in RequestsOf(p)' : i \in Nat /\ g[i] \in RequestsOf(p) /\ g[i] \in Nat
      /\ \A i \in RepliesTo(p)' : i \in Nat /\ h[i] \in RepliesTo(p) /\ h[i] \in Nat
  <2>1. \A i : (i \in RequestsOf(p) => i \in Nat) /\ (i \in RepliesTo(p) => i \in Nat)
    BY DEF RequestsOf, RepliesTo, PlacesOf
  <2>2. \A i : (i \in RequestsOf(p)' => i \in Nat) /\ (i \in RepliesTo(p)' => i \in Nat)
    BY DEF RequestsOf, RepliesTo, PlacesOf
  <2> QED
    BY <1>1, <1>2, <2>1, <2>2
<1>4. /\ \A i, j \in RequestsOf(p)' : g[i] = g[j] => i = j
      /\ \A i, j \in RepliesTo(p)' : h[i] = h[j] => i = j
  BY <1>1, <1>2, <1>3
<1>5. Quiet(p) => Quiet(p)'
  BY <1>0, <1>3 DEF Quiet
<1>6. RequestsOf(p) = {} => RequestsOf(p)' = {}
  BY <1>3
<1>7. CASE clientPc[p] \in {"none", "send"}
  BY <1>0, <1>5, <1>6, <1>7 DEF PortOK
<1>8. CASE /\ clientPc[p] = "count" /\ Quiet(p)
           /\ \A i \in RequestsOf(p) : requests[i].run = runs[p] /\ RequestsOf(p) = {i}
  <2>1. ASSUME NEW i \in RequestsOf(p)'
        PROVE  requests'[i].run = runs'[p] /\ RequestsOf(p)' = {i}
    <3>1. requests'[i].run = runs'[p] /\ RequestsOf(p) = {g[i]}
      BY <1>0, <1>1, <1>3, <1>8
    <3>2. \A j \in RequestsOf(p)' : j = i
      BY <1>3, <1>4, <3>1
    <3> QED
      BY <3>1, <3>2
  <2> QED
    BY <1>0, <1>5, <1>8, <2>1 DEF PortOK
<1>9. ASSUME clientPc[p] \in {"count", "size"}, RequestsOf(p) = {},
             NEW n \in 1..Len(served), AnswersOf(p, n)
      PROVE  PortOK(p)'
  <2>1. /\ served'[n] = served[n] /\ Count(n)' = Count(n) /\ Size(n)' = Size(n)
        /\ n \in 1..Len(served')
    BY TakenStays DEF Count, Size
  <2>2. IsOf(n, [port |-> p, run |-> runs[p]])'
    BY <1>0, <1>9, <2>1 DEF AnswersOf, IsOf
  <2>3. FirstSent(p, n)'
    BY <1>0, <1>3, <1>9 DEF AnswersOf, FirstSent, Answers, Answering
  <2>4. SecondSent(p, n)'
    <3> SUFFICES ASSUME (serverPc = "size" /\ clientAddr = p)'
                 PROVE  /\ n = Len(served')
                        /\ \A i \in RepliesTo(p)' :
                             /\ replies'[i].value = Count(n)' /\ RepliesTo(p)' = {i}
                             /\ socket'[p] = <<>> /\ clientPc'[p] = "count"
                        /\ socket'[p] # <<>> => socket'[p] = <<Count(n)'>> /\ clientPc'[p] = "count"
                        /\ clientPc'[p] = "size" => dgCount'[p] = Count(n)'
      BY DEF SecondSent
    <3>1. serverPc = "size" /\ clientAddr = p /\ served' = served
      BY <1>0 DEF Answers, Answering
    <3>2. SecondSent(p, n)
      BY <1>9 DEF AnswersOf
    <3>3. ASSUME NEW i \in RepliesTo(p)'
          PROVE  /\ replies'[i].value = Count(n)' /\ RepliesTo(p)' = {i}
                 /\ socket'[p] = <<>> /\ clientPc'[p] = "count"
      <4>1. /\ replies[h[i]].value = Count(n) /\ RepliesTo(p) = {h[i]}
            /\ socket[p] = <<>> /\ clientPc[p] = "count"
        BY <1>3, <3>1, <3>2 DEF SecondSent
      <4>2. \A j \in RepliesTo(p)' : j = i
        BY <1>3, <1>4, <4>1
      <4> QED
        BY <1>0, <1>2, <2>1, <4>1, <4>2
    <3> QED
      BY <1>0, <2>1, <3>1, <3>2, <3>3 DEF SecondSent
  <2>5. TwoReplies(p, n)'
    <3> SUFFICES ASSUME NEW i \in RepliesTo(p)', NEW j \in RepliesTo(p)', i < j
                 PROVE  /\ replies'[i].value = Count(n)' /\ replies'[j].value = Size(n)'
                        /\ RepliesTo(p)' = {i, j} /\ socket'[p] = <<>>
                        /\ clientPc'[p] = "count"
      BY DEF TwoReplies
    <3>1. /\ replies[h[i]].value = Count(n) /\ replies[h[j]].value = Size(n)
          /\ RepliesTo(p) = {h[i], h[j]} /\ socket[p] = <<>>
          /\ clientPc[p] = "count"
      BY <1>2, <1>3, <1>9 DEF AnswersOf, TwoReplies
    <3>2. \A k \in RepliesTo(p)' : k = i \/ k = j
      BY <1>3, <1>4, <3>1
    <3> QED
      BY <1>0, <1>2, <2>1, <3>1, <3>2
  <2>6. ReplyBehind(p, n)'
    <3> SUFFICES ASSUME NEW i \in RepliesTo(p)'
                 PROVE  /\ socket'[p] # <<>> =>
                             /\ socket'[p] = <<Count(n)'>>
                             /\ replies'[i].value = Size(n)'
                             /\ RepliesTo(p)' = {i} /\ clientPc'[p] = "count"
                        /\ clientPc'[p] = "size" =>
                             /\ dgCount'[p] = Count(n)'
                             /\ replies'[i].value = Size(n)'
                             /\ RepliesTo(p)' = {i} /\ socket'[p] = <<>>
      BY DEF ReplyBehind
    <3>1. /\ socket[p] # <<>> =>
               /\ socket[p] = <<Count(n)>> /\ replies[h[i]].value = Size(n)
               /\ RepliesTo(p) = {h[i]} /\ clientPc[p] = "count"
          /\ clientPc[p] = "size" =>
               /\ dgCount[p] = Count(n) /\ replies[h[i]].value = Size(n)
               /\ RepliesTo(p) = {h[i]} /\ socket[p] = <<>>
      BY <1>3, <1>9 DEF AnswersOf, ReplyBehind
    <3>2. RepliesTo(p) = {h[i]} => RepliesTo(p)' = {i}
      BY <1>3, <1>4
    <3> QED
      BY <1>0, <1>2, <2>1, <3>1, <3>2
  <2>7. InSocket(p, n)'
    BY <1>0, <1>9, <2>1 DEF AnswersOf, InSocket
  <2>8. AnswersOf(p, n)'
    BY <2>2, <2>3, <2>4, <2>5, <2>6, <2>7 DEF AnswersOf
  <2> QED
    BY <1>0, <1>6, <1>9, <2>1, <2>8 DEF PortOK
<1> QED
  BY <1>0, <1>7, <1>8, <1>9 DEF PortOK

-----------------------------------------------------------------------------
(* Steps of the server.                                                      *)

\* The server takes the request of the client, or one of another port.
LEMMA RecvPort ==
  ASSUME TypeInv, [Next]_vars, RecvMessage, NEW p \in Ports, PortOK(p)
  PROVE  PortOK(p)'
<1>0. requests \in Seq(Request) /\ served \in Seq(Request) /\ Len(served) \in Nat
  BY LenProperties DEF TypeInv, TypeOK, Request
<1>1. PICK r \in Request : r = Head(requests)
  BY <1>0, HeadTailProperties DEF RecvMessage
<1>2. /\ requests # <<>> /\ requests' = Tail(requests) /\ served' = Append(served, r)
      /\ clientAddr' = r.port /\ serverPc' = "count" /\ serverPc = "recv"
      /\ clientPc' = clientPc /\ socket' = socket /\ dgCount' = dgCount
      /\ runs' = runs
      /\ replies' = replies
  BY <1>1 DEF RecvMessage, clientVars
<1>3. /\ Thins(requests', requests, p) /\ Thins(replies', replies, p)
      /\ \A i \in RequestsOf(p)' : i + 1 \in RequestsOf(p) /\ i + 1 # 1
      /\ r.port = p => 1 \in RequestsOf(p)
      /\ r = requests[1]
  BY <1>0, <1>1, <1>2, ThinsTail, ThinsSame DEF RequestsOf, PlacesOf
<1>4. CASE r.port # p
  <2>1. LeavesAlone(p)
    BY <1>2, <1>3, <1>4 DEF LeavesAlone, Answers, Answering
  <2> QED
    BY <2>1, LeftAlone
<1>5. CASE r.port = p
  <2>1. /\ clientPc[p] = "count" /\ Quiet(p)
        /\ requests[1].run = runs[p] /\ RequestsOf(p) = {1}
    BY <1>3, <1>5 DEF PortOK, TypeInv, TypeOK
  <2>2. RequestsOf(p)' = {}
    BY <1>3, <2>1
  <2>3. RepliesTo(p) = {} /\ socket[p] = <<>> /\ RepliesTo(p)' = RepliesTo(p)
    BY <1>2, <2>1 DEF Quiet, RepliesTo, PlacesOf
  <2>4. PICK n : n = Len(served')
    OBVIOUS
  <2>5. n \in 1..Len(served') /\ served'[n] = r
    BY <1>0, <1>2, <2>4, AppendProperties
  <2>6. IsOf(n, [port |-> p, run |-> runs[p]])'
    BY <1>2, <1>3, <1>5, <2>1, <2>5 DEF IsOf
  <2>7. FirstSent(p, n)'
    BY <1>2, <2>1, <2>3, <2>4 DEF FirstSent
  <2>8. SecondSent(p, n)' /\ TwoReplies(p, n)' /\ ReplyBehind(p, n)'
    BY <1>2, <2>3 DEF SecondSent, TwoReplies, ReplyBehind
  <2>9. InSocket(p, n)'
    BY <1>2, <2>3, EmptySeq DEF InSocket
  <2>10. AnswersOf(p, n)'
    BY <2>6, <2>7, <2>8, <2>9 DEF AnswersOf
  <2> QED
    BY <1>2, <2>1, <2>2, <2>5, <2>10 DEF PortOK
<1> QED
  BY <1>4, <1>5

\* The client of the port that the server answers waits for these answers.
LEMMA Answered ==
  ASSUME TypeInv, TotalsOK, NEW p \in Ports, PortOK(p), Answers(p)
  PROVE  /\ clientPc[p] \in {"count", "size"} /\ RequestsOf(p) = {}
         /\ Len(served) \in 1..Len(served) /\ AnswersOf(p, Len(served))
<1>1. ~Quiet(p)
  BY DEF Quiet
<1>2. /\ clientPc[p] \in {"count", "size"} /\ RequestsOf(p) = {}
      /\ \E n \in 1..Len(served) : AnswersOf(p, n)
  BY <1>1 DEF PortOK, TypeInv, TypeOK
<1>3. PICK n \in 1..Len(served) : AnswersOf(p, n)
  BY <1>2
<1>4. n = Len(served)
  BY <1>3 DEF AnswersOf, FirstSent, SecondSent, Answers, Answering
<1> QED
  BY <1>2, <1>3, <1>4

LEMMA SendPort ==
  ASSUME TypeInv, TotalsOK, [Next]_vars, SendCount \/ SendSize,
         NEW p \in Ports, PortOK(p)
  PROVE  PortOK(p)'
<1>0. /\ replies \in Seq(Reply) /\ Len(replies) \in Nat
      /\ datagramsCount \in Int /\ buffSize \in Int /\ Len(served) \in Nat
  BY LenProperties DEF TypeInv, TypeOK, Reply
<1>1. PICK v \in Int : /\ SendCount => v = datagramsCount
                       /\ SendSize => v = buffSize
                       /\ replies' = Append(replies, [port |-> clientAddr, value |-> v])
  BY <1>0 DEF SendCount, SendSize, SendMessage
<1> DEFINE x == [port |-> clientAddr, value |-> v]
           m == Len(replies) + 1
<1>2. /\ x \in Reply /\ x.port = clientAddr /\ x.value = v
      /\ serverPc \in {"count", "size"} /\ serverPc' \in {"size", "recv"}
      /\ SendCount => serverPc = "count" /\ serverPc' = "size"
      /\ SendSize => serverPc = "size" /\ serverPc' = "recv"
      /\ clientPc' = clientPc /\ socket' = socket /\ dgCount' = dgCount
      /\ runs' = runs
      /\ requests' = requests /\ served' = served /\ clientAddr' = clientAddr
  BY <1>0 DEF SendCount, SendSize, SendMessage, clientVars, Reply, TypeInv
<1>3. /\ clientAddr # p => Thins(replies', replies, p)
      /\ clientAddr = p => RepliesTo(p)' = RepliesTo(p) \union {m}
      /\ \A i \in RepliesTo(p) : replies'[i] = replies[i] /\ i < m /\ i \in Nat
      /\ replies'[m].value = v /\ m \in Nat
  <2> HIDE DEF x
  <2> QED
    BY <1>0, <1>1, <1>2, PlacesAppend DEF x, RepliesTo, PlacesOf
<1> HIDE DEF m, x
<1>4. CASE clientAddr # p
  <2>1. Thins(requests', requests, p)
    BY <1>2, ThinsSame
  <2>2. LeavesAlone(p)
    BY <1>2, <1>3, <1>4, <2>1 DEF LeavesAlone, Answers
  <2> QED
    BY <2>2, LeftAlone
<1>5. CASE clientAddr = p
  <2>1. PICK n : n = Len(served)
    OBVIOUS
  <2>2. /\ clientPc[p] \in {"count", "size"} /\ RequestsOf(p) = {}
        /\ n \in 1..Len(served) /\ AnswersOf(p, n)
    BY <1>2, <1>5, <2>1, Answered DEF Answers, Answering
  <2>3. /\ RequestsOf(p)' = {} /\ n \in 1..Len(served')
        /\ Count(n)' = Count(n) /\ Size(n)' = Size(n)
        /\ IsOf(n, [port |-> p, run |-> runs[p]])'
        /\ InSocket(p, n)'
    <3>1. Count(n)' = Count(n) /\ Size(n)' = Size(n)
      BY <2>2, TakenStays DEF Count, Size
    <3>2. InSocket(p, n)'
      BY <1>2, <2>2, <3>1 DEF AnswersOf, InSocket
    <3> QED
      BY <1>2, <2>2, <3>1, <3>2 DEF AnswersOf, IsOf, RequestsOf, PlacesOf
  <2>4. FirstSent(p, n)'
    BY <1>2 DEF FirstSent
  <2>5. CASE SendCount
    <3>1. RepliesTo(p) = {} /\ socket[p] = <<>> /\ clientPc[p] = "count"
      BY <1>2, <1>5, <2>2, <2>5 DEF AnswersOf, FirstSent
    <3>2. RepliesTo(p)' = {m} /\ replies'[m].value = Count(n)'
      BY <1>1, <1>2, <1>3, <1>5, <2>1, <2>3, <2>5, <3>1 DEF TotalsOK, Count
    <3>3. SecondSent(p, n)'
      BY <1>2, <2>1, <3>1, <3>2 DEF SecondSent
    <3>4. TwoReplies(p, n)' /\ ReplyBehind(p, n)'
      BY <1>2, <1>3, <3>1, <3>2 DEF TwoReplies, ReplyBehind
    <3>5. AnswersOf(p, n)'
      BY <2>3, <2>4, <3>3, <3>4 DEF AnswersOf
    <3> QED
      BY <1>2, <2>2, <2>3, <3>5 DEF PortOK
  <2>6. CASE SendSize
    <3>1. v = Size(n)'
      BY <1>1, <2>1, <2>3, <2>6 DEF TotalsOK, Size
    <3>2. SecondSent(p, n)'
      BY <1>2, <2>6 DEF SecondSent
    <3>3. /\ \A i \in RepliesTo(p) :
               /\ replies[i].value = Count(n) /\ RepliesTo(p) = {i}
               /\ socket[p] = <<>> /\ clientPc[p] = "count"
          /\ socket[p] # <<>> => socket[p] = <<Count(n)>> /\ clientPc[p] = "count"
          /\ clientPc[p] = "size" => dgCount[p] = Count(n)
      BY <1>2, <1>5, <2>2, <2>6 DEF AnswersOf, SecondSent
    <3>4. TwoReplies(p, n)'
      <4> SUFFICES ASSUME NEW i \in RepliesTo(p)', NEW j \in RepliesTo(p)', i < j
                   PROVE  /\ replies'[i].value = Count(n)' /\ replies'[j].value = Size(n)'
                          /\ RepliesTo(p)' = {i, j} /\ socket'[p] = <<>>
                          /\ clientPc'[p] = "count"
        BY DEF TwoReplies
      <4>1. i \in RepliesTo(p)
        BY <1>3, <1>5
      <4>2. j = m
        BY <1>3, <1>5, <3>3, <4>1
      <4> QED
        BY <1>2, <1>3, <1>5, <2>3, <3>1, <3>3, <4>1, <4>2
    <3>5. ReplyBehind(p, n)'
      <4> SUFFICES ASSUME NEW i \in RepliesTo(p)'
                   PROVE  /\ socket'[p] # <<>> =>
                               /\ socket'[p] = <<Count(n)'>>
                               /\ replies'[i].value = Size(n)'
                               /\ RepliesTo(p)' = {i} /\ clientPc'[p] = "count"
                          /\ clientPc'[p] = "size" =>
                               /\ dgCount'[p] = Count(n)'
                               /\ replies'[i].value = Size(n)'
                               /\ RepliesTo(p)' = {i} /\ socket'[p] = <<>>
        BY DEF ReplyBehind
      <4>1. socket[p] # <<>> \/ clientPc[p] = "size" => RepliesTo(p)' = {m} /\ i = m
        BY <1>3, <1>5, <3>3
      <4> QED
        BY <1>2, <1>3, <2>3, <3>1, <3>3, <4>1
    <3>6. AnswersOf(p, n)'
      BY <2>3, <2>4, <3>2, <3>4, <3>5 DEF AnswersOf
    <3> QED
      BY <1>2, <2>2, <2>3, <3>6 DEF PortOK
  <2> QED
    BY <2>5, <2>6
<1> QED
  BY <1>4, <1>5

-----------------------------------------------------------------------------
(* Steps of the network.                                                     *)

\* A reply comes to the socket of the client, or to another port.
LEMMA DeliverPort ==
  ASSUME TypeInv, [Next]_vars, Deliver, NEW p \in Ports, PortOK(p)
  PROVE  PortOK(p)'
<1>0. /\ replies \in Seq(Reply) /\ replies # <<>> /\ replies' = Tail(replies)
      /\ serverPc' = serverPc /\ clientAddr' = clientAddr /\ served' = served
      /\ clientPc' = clientPc /\ dgCount' = dgCount /\ runs' = runs
      /\ requests' = requests /\ socket \in [Ports -> Seq(Int)]
      /\ clientPc \in [Ports -> {"none", "send", "count", "size"}]
  BY DEF Deliver, serverVars, TypeInv, TypeOK, Reply
<1>1. PICK r \in Reply : r = Head(replies)
  BY <1>0, HeadTailProperties
<1>2. /\ r.port \in Ports /\ r.value \in Int
      /\ socket' = IF clientPc[r.port] \in {"count", "size"}
                   THEN [socket EXCEPT ![r.port] = Append(@, r.value)] ELSE socket
  BY <1>1 DEF Deliver, Reply
<1>3. /\ Thins(requests', requests, p) /\ Thins(replies', replies, p)
      /\ \A i \in RepliesTo(p)' :
           i + 1 \in RepliesTo(p) /\ i + 1 # 1 /\ replies'[i] = replies[i + 1] /\ i \in Nat
      /\ r.port = p => 1 \in RepliesTo(p)
      /\ r = replies[1]
  BY <1>0, <1>1, ThinsTail, ThinsSame DEF RepliesTo, PlacesOf
<1>4. CASE r.port # p
  <2>1. socket'[p] = socket[p]
    BY <1>0, <1>2, <1>4
  <2>2. LeavesAlone(p)
    BY <1>0, <1>3, <2>1 DEF LeavesAlone, Answers, Answering
  <2> QED
    BY <2>2, LeftAlone
<1>5. CASE r.port = p
  <2>1. 1 \in RepliesTo(p) /\ ~Quiet(p)
    BY <1>3, <1>5 DEF Quiet
  <2>2. /\ clientPc[p] \in {"count", "size"} /\ RequestsOf(p) = {}
        /\ \E n \in 1..Len(served) : AnswersOf(p, n)
    BY <1>0, <2>1 DEF PortOK
  <2>3. PICK n \in 1..Len(served) : AnswersOf(p, n)
    BY <2>2
  <2>4. socket'[p] = Append(socket[p], r.value) /\ socket[p] \in Seq(Int)
    BY <1>0, <1>2, <1>5, <2>2
  <2>5. /\ Count(n)' = Count(n) /\ Size(n)' = Size(n)
        /\ RequestsOf(p)' = {} /\ n \in 1..Len(served')
        /\ IsOf(n, [port |-> p, run |-> runs[p]])'
    <3>1. Count(n)' = Count(n) /\ Size(n)' = Size(n)
      BY TakenStays DEF Count, Size
    <3> QED
      BY <1>0, <2>2, <2>3, <3>1 DEF AnswersOf, IsOf, RequestsOf, PlacesOf
  <2>6. ~(serverPc = "count" /\ clientAddr = p)
    BY <2>1, <2>3 DEF AnswersOf, FirstSent
  <2>7. FirstSent(p, n)'
    BY <1>0, <2>6 DEF FirstSent
  <2>8. serverPc = "size" /\ clientAddr = p =>
          /\ n = Len(served) /\ r.value = Count(n) /\ RepliesTo(p) = {1}
          /\ socket[p] = <<>> /\ clientPc[p] = "count"
    BY <1>3, <2>1, <2>3 DEF AnswersOf, SecondSent
  <2>9. RepliesTo(p) = {1} => RepliesTo(p)' = {}
    BY <1>3
  <2>10. \A i \in RepliesTo(p)' :
           /\ r.value = Count(n) /\ replies'[i].value = Size(n)
           /\ RepliesTo(p) = {1, i + 1} /\ socket[p] = <<>> /\ clientPc[p] = "count"
    <3> SUFFICES ASSUME NEW i \in RepliesTo(p)'
                 PROVE  /\ r.value = Count(n) /\ replies'[i].value = Size(n)
                        /\ RepliesTo(p) = {1, i + 1} /\ socket[p] = <<>>
                        /\ clientPc[p] = "count"
      OBVIOUS
    <3>1. i + 1 \in RepliesTo(p) /\ 1 < i + 1 /\ replies'[i] = replies[i + 1]
      BY <1>3
    <3> QED
      BY <1>3, <2>1, <2>3, <3>1 DEF AnswersOf, TwoReplies
  <2>11. /\ socket[p] # <<>> =>
              socket[p] = <<Count(n)>> /\ r.value = Size(n) /\ clientPc[p] = "count"
         /\ clientPc[p] = "size" =>
              dgCount[p] = Count(n) /\ r.value = Size(n) /\ socket[p] = <<>>
    BY <1>3, <2>1, <2>3 DEF AnswersOf, ReplyBehind
  <2>12. /\ socket[p] = <<>> => socket'[p] = <<r.value>> /\ Len(socket'[p]) = 1
         /\ socket[p] # <<>> => socket'[p] = <<Count(n), Size(n)>> /\ Len(socket'[p]) = 2
         /\ socket'[p] # <<>> /\ Len(socket'[p]) \in {1, 2}
         /\ Len(socket'[p]) = 2 => socket[p] # <<>>
    <3>1. CASE socket[p] = <<>>
      BY <2>4, <3>1, EmptySeq
    <3>2. CASE socket[p] # <<>>
      <4>1. socket'[p] = Append(<<Count(n)>>, Size(n))
        BY <2>4, <2>11, <3>2
      <4>2. ASSUME NEW a \in Int, NEW b \in Int
            PROVE  Append(<<a>>, b) = <<a, b>> /\ Len(<<a, b>>) = 2
        <5>1. <<a>> \in Seq(Int) /\ Len(<<a>>) = 1 /\ <<a>>[1] = a
          OBVIOUS
        <5>2. /\ Append(<<a>>, b) \in Seq(Int) /\ Len(Append(<<a>>, b)) = 2
              /\ Append(<<a>>, b)[1] = a /\ Append(<<a>>, b)[2] = b
          BY <5>1, AppendProperties
        <5>3. /\ <<a, b>> \in Seq(Int) /\ Len(<<a, b>>) = 2
              /\ <<a, b>>[1] = a /\ <<a, b>>[2] = b
          OBVIOUS
        <5>4. \A i \in 1..2 : Append(<<a>>, b)[i] = <<a, b>>[i]
          <6>1. \A i \in 1..2 : i = 1 \/ i = 2
            OBVIOUS
          <6> QED
            BY <5>2, <5>3, <6>1
        <5>5. ASSUME NEW s \in Seq(Int), NEW t \in Seq(Int), Len(s) = 2, Len(t) = 2,
                     \A i \in 1..2 : s[i] = t[i]
              PROVE  s = t
          BY <5>5, SeqEqual
        <5> QED
          BY <5>2, <5>3, <5>4, <5>5
      <4>3. Count(n) \in Int /\ Size(n) \in Int
        <5>1. n \in Int
          OBVIOUS
        <5>2. Count(n) \in Int
          BY <5>1 DEF Count
        <5> QED
          BY <1>2, <2>11, <3>2, <5>2
      <4> QED
        BY <3>2, <4>1, <4>2, <4>3
    <3> QED
      BY <3>1, <3>2
  <2>13. SecondSent(p, n)'
    BY <1>0, <2>5, <2>8, <2>9, <2>12 DEF SecondSent
  <2>14. TwoReplies(p, n)'
    <3>1. \A i, j \in RepliesTo(p)' : i = j
      <4> SUFFICES ASSUME NEW i \in RepliesTo(p)', NEW j \in RepliesTo(p)'
                   PROVE i = j
        OBVIOUS
      <4>1. RepliesTo(p) = {1, i + 1} /\ j + 1 \in RepliesTo(p) /\ j + 1 # 1
        BY <1>3, <2>10
      <4> QED
        BY <1>3, <4>1
    <3> QED
      BY <1>3, <3>1 DEF TwoReplies
  <2>15. ReplyBehind(p, n)'
    <3> SUFFICES ASSUME NEW i \in RepliesTo(p)'
                 PROVE  /\ socket'[p] = <<Count(n)'>> /\ replies'[i].value = Size(n)'
                        /\ RepliesTo(p)' = {i} /\ clientPc'[p] = "count"
      BY <1>0 DEF ReplyBehind
    <3>1. \A j \in RepliesTo(p)' : j = i
      <4> SUFFICES ASSUME NEW j \in RepliesTo(p)' PROVE j = i
        OBVIOUS
      <4>1. RepliesTo(p) = {1, i + 1} /\ j + 1 \in RepliesTo(p) /\ j + 1 # 1
        BY <1>3, <2>10
      <4> QED
        BY <1>3, <4>1
    <3> QED
      BY <1>0, <2>5, <2>10, <2>12, <3>1
  <2>16. InSocket(p, n)'
    <3>1. Len(socket'[p]) <= 2
      <4>1. PICK k : k = Len(socket'[p])
        OBVIOUS
      <4>2. k \in {1, 2}
        BY <2>12, <4>1
      <4>3. k <= 2
        BY <4>2
      <4> QED
        BY <4>1, <4>3
    <3>2. Len(socket'[p]) = 2 =>
            socket'[p] = <<Count(n)', Size(n)'>> /\ clientPc'[p] = "count"
      BY <1>0, <2>5, <2>11, <2>12
    <3>3. clientPc'[p] = "size" => socket'[p] = <<Size(n)'>> /\ dgCount'[p] = Count(n)'
      BY <1>0, <2>5, <2>11, <2>12
    <3> QED
      BY <3>1, <3>2, <3>3 DEF InSocket
  <2>17. AnswersOf(p, n)'
    BY <2>5, <2>7, <2>13, <2>14, <2>15, <2>16 DEF AnswersOf
  <2> QED
    BY <1>0, <2>2, <2>5, <2>17 DEF PortOK
<1> QED
  BY <1>4, <1>5

\* Fewer datagrams, a server that starts or ends, or nothing at all.
LEMMA QuietPort ==
  ASSUME TypeInv, [Next]_vars, Bind \/ ServerExits \/ Lose \/ UNCHANGED vars,
         NEW p \in Ports, PortOK(p)
  PROVE  PortOK(p)'
<1>0. /\ clientPc' = clientPc /\ socket' = socket /\ dgCount' = dgCount /\ runs' = runs
      /\ requests \in Seq(Request) /\ replies \in Seq(Reply)
      /\ DOMAIN requests = 1..Len(requests) /\ DOMAIN replies = 1..Len(replies)
  BY LenProperties DEF Bind, ServerExits, Lose, vars, clientVars, TypeInv, TypeOK,
                       Request, Reply
<1>1. Answers(p)' => Answers(p) /\ serverPc' = serverPc /\ served' = served
  BY DEF Bind, ServerExits, Lose, vars, serverVars, Answers, Answering
<1>2. Thins(requests', requests, p) /\ Thins(replies', replies, p)
  <2>1. CASE requests' = requests /\ replies' = replies
    BY <2>1, ThinsSame
  <2>2. ASSUME NEW i \in DOMAIN requests, requests' = RemoveAt(requests, i),
               replies' = replies
        PROVE  Thins(requests', requests, p) /\ Thins(replies', replies, p)
    BY <1>0, <2>2, ThinsSame, ThinsRemove
  <2>3. ASSUME NEW i \in DOMAIN replies, replies' = RemoveAt(replies, i),
               requests' = requests
        PROVE  Thins(requests', requests, p) /\ Thins(replies', replies, p)
    BY <1>0, <2>3, ThinsSame, ThinsRemove
  <2> QED
    BY <2>1, <2>2, <2>3 DEF Bind, ServerExits, Lose, vars
<1>3. LeavesAlone(p)
  BY <1>0, <1>1, <1>2 DEF LeavesAlone
<1> QED
  BY <1>3, LeftAlone

-----------------------------------------------------------------------------
(* Steps of the clients.                                                     *)

ClientStep(q) ==
  \/ ClientStarts(q) \/ (\E n \in Lengths[q] : ClientSends(q, n))
  \/ ClientSendFails(q) \/ ClientReceives(q)

\* The client of another port is nothing to this one.
LEMMA OtherClient ==
  ASSUME TypeInv, [Next]_vars, NEW q \in Ports, ClientStep(q),
         NEW p \in Ports, p # q, PortOK(p)
  PROVE  PortOK(p)'
<1>0. /\ clientPc'[p] = clientPc[p] /\ socket'[p] = socket[p]
      /\ dgCount'[p] = dgCount[p] /\ runs'[p] = runs[p]
      /\ serverPc' = serverPc /\ clientAddr' = clientAddr /\ served' = served
      /\ replies' = replies /\ requests \in Seq(Request)
  BY DEF ClientStep, ClientStarts, ClientSends, ClientSendFails, ClientReceives,
         ClientReadsCount, ClientReadsSize, ClientTimesOut, Close, serverVars,
         TypeInv, TypeOK, Request
<1>1. Thins(requests', requests, p)
  <2>1. CASE requests' = requests
    BY <2>1, ThinsSame
  <2>2. ASSUME NEW l \in Lengths[q], ClientSends(q, l)
        PROVE  Thins(requests', requests, p)
    <3>1. PICK x \in Request : /\ requests' = Append(requests, x)
                               /\ x.port = q
      BY <2>2, UdpAssumption DEF UdpAssumption, ClientSends, TypeInv, Request
    <3> QED
      BY <1>0, <3>1, PlacesAppend
  <2> QED
    BY <2>1, <2>2 DEF ClientStep, ClientStarts, ClientSendFails, ClientReceives,
                      ClientReadsCount, ClientReadsSize, ClientTimesOut
<1>2. LeavesAlone(p)
  BY <1>0, <1>1, ThinsSame DEF LeavesAlone, Answers, Answering
<1> QED
  BY <1>2, LeftAlone

\* The client starts, sends its datagram, or fails to.
LEMMA SendingClient ==
  ASSUME TypeInv, NEW p \in Ports, PortOK(p),
         ClientStarts(p) \/ (\E n \in Lengths[p] : ClientSends(p, n)) \/ ClientSendFails(p)
  PROVE  PortOK(p)'
<1>0. /\ clientPc[p] \in {"none", "send"} /\ Quiet(p) /\ RequestsOf(p) = {}
      /\ Quiet(p)' /\ requests \in Seq(Request)
      /\ clientPc \in [Ports -> {"none", "send", "count", "size"}]
  BY DEF PortOK, Quiet, RepliesTo, PlacesOf, Answers, Answering, ClientStarts,
     ClientSends,
         ClientSendFails, serverVars, TypeInv, TypeOK, Request
<1>1. CASE ClientStarts(p) \/ ClientSendFails(p)
  <2>1. clientPc'[p] \in {"none", "send"} /\ RequestsOf(p)' = {}
    BY <1>0, <1>1 DEF ClientStarts, ClientSendFails, RequestsOf, PlacesOf
  <2> QED
    BY <1>0, <2>1 DEF PortOK
<1>2. ASSUME NEW l \in Lengths[p], ClientSends(p, l) PROVE PortOK(p)'
  <2>1. PICK x \in Request :
          requests' = Append(requests, x) /\ x.port = p /\ x.run = runs[p]
    BY <1>2, UdpAssumption DEF UdpAssumption, ClientSends, TypeInv, Request
  <2>2. /\ RequestsOf(p)' = {Len(requests) + 1}
        /\ requests'[Len(requests) + 1].run = runs'[p]
    <3>1. /\ PlacesOf(requests', p) = PlacesOf(requests, p) \union {Len(requests) + 1}
          /\ requests'[Len(requests) + 1] = x
      BY <1>0, <2>1, PlacesAppend DEF PlacesOf
    <3>2. RequestsOf(p)' = PlacesOf(requests', p) /\ RequestsOf(p) = PlacesOf(requests, p)
      BY DEF RequestsOf, PlacesOf
    <3>3. runs' = runs
      BY <1>2 DEF ClientSends
    <3> QED
      BY <1>0, <2>1, <3>1, <3>2, <3>3
  <2>3. clientPc'[p] = "count"
    BY <1>0, <1>2 DEF ClientSends
  <2> QED
    BY <1>0, <2>2, <2>3 DEF PortOK
<1> QED
  BY <1>1, <1>2

\* A client that reads has its answers in the order they were sent.
LEMMA ReadingClient ==
  ASSUME NEW p \in Ports, TypeInv, PortOK(p), socket[p] # <<>>,
         clientPc[p] \in {"count", "size"}
  PROVE  RequestsOf(p) = {} /\ \E n \in 1..Len(served) : AnswersOf(p, n)
BY DEF PortOK, Quiet

LEMMA CountPort ==
  ASSUME TypeInv, [Next]_vars, NEW p \in Ports, PortOK(p), ClientReadsCount(p)
  PROVE  PortOK(p)'
<1>0. /\ serverPc' = serverPc /\ clientAddr' = clientAddr /\ served' = served
      /\ requests' = requests /\ replies' = replies /\ runs' = runs
      /\ clientPc[p] = "count" /\ clientPc'[p] = "size"
      /\ socket[p] \in Seq(Int) /\ socket[p] # <<>>
      /\ dgCount'[p] = Head(socket[p]) /\ socket'[p] = Tail(socket[p])
  BY DEF ClientReadsCount, serverVars, TypeInv, TypeOK
<1>1. PICK n \in 1..Len(served) : AnswersOf(p, n)
  BY <1>0, ReadingClient
<1>2. /\ RequestsOf(p)' = {} /\ n \in 1..Len(served')
      /\ Count(n)' = Count(n) /\ Size(n)' = Size(n)
      /\ RepliesTo(p)' = RepliesTo(p)
      /\ IsOf(n, [port |-> p, run |-> runs[p]])'
  <2>1. Count(n)' = Count(n) /\ Size(n)' = Size(n)
    BY TakenStays DEF Count, Size
  <2>2. RequestsOf(p) = {}
    BY <1>0, ReadingClient
  <2> QED
    BY <1>0, <1>1, <2>1, <2>2 DEF RequestsOf, RepliesTo, PlacesOf, IsOf, AnswersOf
<1>3. ~(serverPc = "count" /\ clientAddr = p)
  BY <1>0, <1>1 DEF AnswersOf, FirstSent
<1>4. /\ Len(socket[p]) \in Nat /\ Len(socket[p]) >= 1 /\ Len(socket[p]) <= 2
      /\ Len(socket'[p]) = Len(socket[p]) - 1 /\ Head(socket[p]) = socket[p][1]
      /\ Len(socket[p]) = 1 => socket'[p] = <<>>
      /\ Len(socket[p]) = 2 => socket'[p] = <<Size(n)>> /\ dgCount'[p] = Count(n)
      /\ socket[p] = <<Count(n)>> => socket'[p] = <<>> /\ dgCount'[p] = Count(n)
  <2>1. /\ Len(socket[p]) \in Nat /\ Len(socket[p]) >= 1 /\ Len(socket[p]) <= 2
        /\ Len(socket'[p]) = Len(socket[p]) - 1 /\ Head(socket[p]) = socket[p][1]
        /\ socket'[p] \in Seq(Int)
    BY <1>0, <1>1, HeadTailProperties, LenProperties, EmptySeq DEF AnswersOf,
       InSocket
  <2>2. Len(socket[p]) = 1 => socket'[p] = <<>>
    BY <2>1, EmptySeq
  <2>3. CASE Len(socket[p]) = 2
    <3>1. socket[p] = <<Count(n), Size(n)>>
      BY <1>1, <2>3 DEF AnswersOf, InSocket
    <3> QED
      BY <1>0, <2>1, <2>2, <2>3, <3>1
  <2>4. socket[p] = <<Count(n)>> => socket'[p] = <<>> /\ dgCount'[p] = Count(n)
    BY <1>0, <2>1, <2>2
  <2> QED
    BY <2>1, <2>2, <2>3, <2>4
<1>5. FirstSent(p, n)'
  BY <1>0, <1>3 DEF FirstSent
<1>6. serverPc = "size" /\ clientAddr = p =>
        n = Len(served) /\ RepliesTo(p) = {} /\ socket[p] = <<Count(n)>>
  BY <1>0, <1>1 DEF AnswersOf, SecondSent
<1>7. SecondSent(p, n)'
  BY <1>0, <1>2, <1>4, <1>6 DEF SecondSent
<1>8. TwoReplies(p, n)'
  BY <1>0, <1>1, <1>2 DEF AnswersOf, TwoReplies
<1>9. ReplyBehind(p, n)'
  BY <1>0, <1>1, <1>2, <1>4 DEF AnswersOf, ReplyBehind
<1>10. InSocket(p, n)'
  <2>1. PICK k \in Nat : k = Len(socket[p])
    BY <1>4
  <2>2. k <= 2 /\ k >= 1 /\ Len(socket'[p]) = k - 1
    BY <1>4, <2>1
  <2>3. Len(socket'[p]) <= 2 /\ Len(socket'[p]) # 2
    BY <2>2
  <2>4. k = 1 \/ k = 2
    BY <2>2
  <2>5. socket'[p] # <<>> => socket'[p] = <<Size(n)'>> /\ dgCount'[p] = Count(n)'
    BY <1>2, <1>4, <2>1, <2>4
  <2> QED
    BY <2>3, <2>5 DEF InSocket
<1>11. AnswersOf(p, n)'
  BY <1>2, <1>5, <1>7, <1>8, <1>9, <1>10 DEF AnswersOf
<1> QED
  BY <1>0, <1>2, <1>11 DEF PortOK

\* Both are read: the port is free, and what is printed is the answer.
LEMMA SizePort ==
  ASSUME TypeInv, [Next]_vars, NEW p \in Ports, PortOK(p), ClientReadsSize(p)
  PROVE  /\ PortOK(p)'
         /\ \E n \in 1..Len(served) :
              /\ IsOf(n, [port |-> p, run |-> runs[p]])
              /\ dgCount[p] = Count(n) /\ Head(socket[p]) = Size(n)
<1>0. /\ serverPc' = serverPc /\ clientAddr' = clientAddr /\ served' = served
      /\ requests' = requests /\ replies' = replies
      /\ clientPc[p] = "size" /\ clientPc'[p] = "none"
      /\ socket[p] \in Seq(Int) /\ socket[p] # <<>> /\ socket'[p] = <<>>
  BY DEF ClientReadsSize, Close, serverVars, TypeInv, TypeOK
<1>1. PICK n \in 1..Len(served) : AnswersOf(p, n)
  BY <1>0, ReadingClient
<1>2. socket[p] = <<Size(n)>> /\ dgCount[p] = Count(n)
  BY <1>0, <1>1 DEF AnswersOf, InSocket
<1>3. RepliesTo(p) = {} /\ ~Answers(p)
  BY <1>0, <1>1 DEF AnswersOf, ReplyBehind, FirstSent, SecondSent, Answers,
     Answering
<1>4. Quiet(p)' /\ RequestsOf(p)' = {}
  <2>1. RequestsOf(p) = {}
    BY <1>0, ReadingClient
  <2> QED
    BY <1>0, <1>3, <2>1 DEF Quiet, RepliesTo, RequestsOf, PlacesOf, Answers,
       Answering
<1>5. PortOK(p)'
  BY <1>0, <1>4 DEF PortOK
<1>6. Head(socket[p]) = Size(n) /\ IsOf(n, [port |-> p, run |-> runs[p]])
  BY <1>1, <1>2 DEF AnswersOf
<1> QED
  BY <1>2, <1>5, <1>6

-----------------------------------------------------------------------------
LEMMA PortInit == Init => PortsOK /\ PrintsOwnTotals
<1> SUFFICES ASSUME Init, NEW p \in Ports PROVE PortOK(p) /\ PrintsOwnTotals
  BY DEF PortsOK, Init, PrintsOwnTotals
<1>1. /\ Len(requests) = 0 /\ Len(replies) = 0 /\ serverPc = "start"
      /\ clientPc[p] = "none" /\ socket[p] = <<>> /\ printed = {}
  BY EmptySeq DEF Init
<1>2. RequestsOf(p) = {} /\ RepliesTo(p) = {} /\ ~Answers(p)
  BY <1>1 DEF RequestsOf, RepliesTo, PlacesOf, Answers, Answering
<1> QED
  BY <1>1, <1>2 DEF PortOK, Quiet, PrintsOwnTotals

\* Without mishaps every port whose clients were patient stays in order.
LEMMA PortsNext == IInv /\ [Next]_vars => PortsOK'
<1> SUFFICES ASSUME IInv, [Next]_vars, mishaps' = 0, NEW p \in Ports \ impatient'
             PROVE  PortOK(p)'
  BY DEF PortsOK
<1>0. mishaps \in Nat /\ TypeInv /\ TotalsOK
  BY DEF IInv, TypeInv, TypeOK
<1>1. ~Garble
  BY <1>0 DEF Garble
<1>2. /\ ~ClientTimesOut(p) /\ mishaps = 0 /\ p \notin impatient /\ p \in Ports
  BY <1>1 DEF Next, Bind, Server, RecvMessage, SendCount, SendSize, SendMessage,
              ServerExits, ClientStarts, ClientSends, ClientSendFails, ClientReceives,
              ClientReadsCount, ClientReadsSize, ClientTimesOut, Deliver, Lose,
              vars, clientVars
<1>3. PortOK(p)
  BY <1>2 DEF IInv, PortsOK
<1>4. CASE Server
  BY <1>0, <1>2, <1>3, <1>4, RecvPort, SendPort DEF Server
<1>5. CASE Deliver
  BY <1>0, <1>2, <1>3, <1>5, DeliverPort
<1>6. CASE Bind \/ ServerExits \/ Lose \/ UNCHANGED vars
  BY <1>0, <1>2, <1>3, <1>6, QuietPort
<1>7. ASSUME NEW q \in Ports, ClientStep(q) PROVE PortOK(p)'
  <2>1. CASE q # p
    BY <1>0, <1>2, <1>3, <1>7, <2>1, OtherClient
  <2>2. CASE q = p
    BY <1>0, <1>2, <1>3, <1>7, <2>2, SendingClient, CountPort, SizePort
       DEF ClientStep, ClientReceives
  <2> QED
    BY <2>1, <2>2
<1> QED
  BY <1>1, <1>4, <1>5, <1>6, <1>7 DEF Next, ClientStep

\* What is printed next is the answer, and what was printed stays so.
LEMMA PrintsNext == IInv /\ [Next]_vars => PrintsOwnTotals'
<1> SUFFICES ASSUME IInv, [Next]_vars, mishaps' = 0,
                    NEW r \in printed', r.port \notin impatient'
             PROVE  \E n \in DOMAIN served' :
                      /\ IsOf(n, r)' /\ r.count = 2 * (n - 1)
                      /\ r.size = start' + Taken(n)'
  BY DEF PrintsOwnTotals
<1>0. /\ mishaps \in Nat /\ TypeInv
      /\ DOMAIN served = 1..Len(served) /\ DOMAIN served' = 1..Len(served')
  <2>1. TypeInv /\ TypeInv'
    BY TypeNext DEF IInv
  <2>2. served \in Seq(Request) /\ served' \in Seq(Request)
    BY <2>1 DEF TypeInv, TypeOK, Request
  <2> QED
    BY <2>1, <2>2, LenProperties DEF TypeInv, TypeOK
<1>1. ~Garble
  BY <1>0 DEF Garble
<1>2. mishaps = 0 /\ impatient \subseteq impatient'
  BY <1>1 DEF Next, Bind, Server, RecvMessage, SendCount, SendSize, SendMessage,
              ServerExits, ClientStarts, ClientSends, ClientSendFails, ClientReceives,
              ClientReadsCount, ClientReadsSize, ClientTimesOut, Deliver, Lose,
              vars, clientVars
<1>3. ASSUME NEW n \in 1..Len(served), IsOf(n, r), r.count = Count(n), r.size = Size(n)
      PROVE  \E k \in DOMAIN served' :
               /\ IsOf(k, r)' /\ r.count = 2 * (k - 1)
               /\ r.size = start' + Taken(k)'
  <2>1. /\ served'[n] = served[n] /\ Taken(n)' = Taken(n) /\ n \in DOMAIN served'
        /\ start' = start
    BY <1>0, TakenStays
  <2>2. IsOf(n, r)' /\ r.count = 2 * (n - 1) /\ r.size = start' + Taken(n)'
    BY <1>3, <2>1 DEF IsOf, Count, Size
  <2> QED
    BY <2>1, <2>2
<1>4. CASE r \in printed
  <2>1. PICK n \in 1..Len(served) : IsOf(n, r) /\ r.count = Count(n) /\ r.size = Size(n)
    BY <1>0, <1>2, <1>4 DEF IInv, PrintsOwnTotals, Count, Size
  <2> QED
    BY <1>3, <2>1
<1>5. CASE r \notin printed
  <2>1. PICK p \in Ports : ClientReadsSize(p)
    BY <1>1, <1>5 DEF Next, Bind, Server, RecvMessage, SendCount, SendSize,
       SendMessage,
              ServerExits, ClientStarts, ClientSends, ClientSendFails, ClientReceives,
              ClientReadsCount, ClientTimesOut, Deliver, Lose, vars, clientVars
  <2>2. r = [port |-> p, run |-> runs[p], count |-> dgCount[p], size |-> Head(socket[p])]
    BY <1>5, <2>1 DEF ClientReadsSize
  <2>3. PortOK(p)
    BY <1>2, <2>1, <2>2 DEF IInv, PortsOK
  <2>4. PICK n \in 1..Len(served) :
          /\ IsOf(n, [port |-> p, run |-> runs[p]])
          /\ dgCount[p] = Count(n) /\ Head(socket[p]) = Size(n)
    BY <1>0, <2>1, <2>3, SizePort
  <2>5. IsOf(n, r) /\ r.count = Count(n) /\ r.size = Size(n)
    BY <2>2, <2>4 DEF IsOf
  <2> QED
    BY <1>3, <2>5
<1> QED
  BY <1>4, <1>5

(* For any number of ports, clients and lost datagrams: as long as none is   *)
(* duplicated or overtaken, a client whose port had only patient clients     *)
(* prints the two totals as they were when the server took its own request   *)
(* (udp_server.c:66-89, udp_client.c:45-52).                                 *)
THEOREM OwnTotalsCorrect == Spec => []PrintsOwnTotals
<1>1. Init => IInv
  BY TypeInit, TotalsInit, PortInit DEF IInv
<1>2. IInv /\ [Next]_vars => IInv'
  <2> SUFFICES ASSUME IInv, [Next]_vars PROVE IInv'
    OBVIOUS
  <2>1. TypeInv' /\ TotalsOK'
    BY TypeNext, TotalsNext DEF IInv
  <2>2. PortsOK' /\ PrintsOwnTotals'
    BY PortsNext, PrintsNext
  <2> QED
    BY <2>1, <2>2 DEF IInv
<1>3. IInv => PrintsOwnTotals
  BY DEF IInv
<1> QED
  BY <1>1, <1>2, <1>3, PTL DEF Spec
-----------------------------------------------------------------------------
(* What holds of the numbers however the network behaves.                    *)

\* The server computed v for a request that came from port p.
Told(p, v) ==
  \E n \in 1..Len(served) : served[n].port = p /\ (v = Count(n) \/ v = Size(n))
(* Whatever datagrams are lost, doubled or overtaken and whoever left before *)
(* its answer: both numbers a client prints are ones the server computed for *)
(* a request from that client's port, never those of another port            *)
(* (udp_server.c:66-89, udp_client.c:45-52).                                 *)
PrintsNumbersOfPort ==
  \A r \in printed : Told(r.port, r.count) /\ Told(r.port, r.size)

\* The same of what is on its way: a type of the channels.
ToldReplies == {r \in Reply : Told(r.port, r.value)}
ToldValues(p) == {v \in Int : Told(p, v)}
ToldInv ==
  /\ replies \in Seq(ToldReplies)
  /\ \A p \in Ports : /\ socket[p] \in Seq(ToldValues(p))
                      /\ clientPc[p] = "size" => Told(p, dgCount[p])
  /\ PrintsNumbersOfPort

LEMMA SeqGrows ==
  ASSUME NEW S, NEW T, S \subseteq T, NEW s \in Seq(S) PROVE s \in Seq(T)
<1>1. Len(s) \in Nat /\ s \in [1..Len(s) -> S]
  BY LenProperties
<1>2. s \in [1..Len(s) -> T]
  BY <1>1
<1> QED
  BY <1>1, <1>2

\* A number once computed stays one: the requests taken are only added to.
LEMMA ToldStays ==
  ASSUME TypeInv, [Next]_vars
  PROVE  \A p, v : Told(p, v) => Told(p, v)'
<1> SUFFICES ASSUME NEW p, NEW v, Told(p, v) PROVE Told(p, v)'
  OBVIOUS
<1>1. PICK n \in 1..Len(served) :
        served[n].port = p /\ (v = Count(n) \/ v = Size(n))
  BY DEF Told
<1>2. /\ served'[n] = served[n] /\ Taken(n)' = Taken(n) /\ n \in 1..Len(served')
      /\ start' = start
  BY TakenStays
<1>3. Count(n)' = Count(n) /\ Size(n)' = Size(n)
  BY <1>2 DEF Count, Size
<1>4. served'[n].port = p /\ (v = Count(n)' \/ v = Size(n)')
  BY <1>1, <1>2, <1>3
<1> QED
  BY <1>2, <1>4 DEF Told

\* What the server sends next it computed for the request it took last.
LEMMA SendsTold ==
  ASSUME TypeInv, TotalsOK
  PROVE  /\ serverPc = "count" => Told(clientAddr, datagramsCount)
         /\ serverPc = "size" => Told(clientAddr, buffSize)
<1>1. served \in Seq(Request) /\ Len(served) \in Nat
      /\ (served # <<>> => Len(served) >= 1)
  BY LenProperties, EmptySeq DEF TypeInv, TypeOK, Request
<1>2. CASE Answering
  <2>1. Len(served) \in 1..Len(served) /\ served[Len(served)].port = clientAddr
    BY <1>1, <1>2 DEF TotalsOK
  <2>2. serverPc = "count" => datagramsCount = Count(Len(served))
    BY DEF TotalsOK, Count
  <2>3. buffSize = Size(Len(served))
    BY DEF TotalsOK, Size
  <2> QED
    BY <2>1, <2>2, <2>3 DEF Told
<1> QED
  BY <1>2 DEF Answering

LEMMA ToldNext == TypeInv /\ TotalsOK /\ ToldInv /\ [Next]_vars => ToldInv'
<1> SUFFICES ASSUME TypeInv, TotalsOK, ToldInv, [Next]_vars PROVE ToldInv'
  OBVIOUS
<1>0. /\ printed \subseteq [port : Ports, run : 1..MaxClients, count : Int, size : Int]
      /\ socket \in [Ports -> Seq(Int)]
      /\ clientPc \in [Ports -> {"none", "send", "count", "size"}]
      /\ dgCount \in [Ports -> Int]
  BY DEF TypeInv, TypeOK
<1>1. PICK K : K = {k \in Ports \X Int : Told(k[1], k[2])'}
  OBVIOUS
<1>2. \A q \in Ports, v \in Int : <<q, v>> \in K <=> Told(q, v)'
  BY <1>1
<1> DEFINE S == {r \in Reply : <<r.port, r.value>> \in K}
           T == [q \in Ports |-> {v \in Int : <<q, v>> \in K}]
           Goal == /\ replies' \in Seq(S)
                   /\ \A q \in Ports :
                        /\ socket'[q] \in Seq(T[q])
                        /\ clientPc'[q] = "size" => <<q, dgCount'[q]>> \in K
                   /\ \A r \in printed' : <<r.port, r.count>> \in K
                                          /\ <<r.port, r.size>> \in K
<1>3. Goal => ToldInv'
  <2> SUFFICES ASSUME Goal PROVE ToldInv'
    OBVIOUS
  <2>1. S = ToldReplies'
    BY <1>2 DEF ToldReplies, Reply
  <2>2. \A q \in Ports : T[q] = ToldValues(q)'
    BY <1>2 DEF ToldValues
  <2>3. \A r \in printed' : Told(r.port, r.count)' /\ Told(r.port, r.size)'
    BY <1>1
  <2>4. \A q \in Ports : clientPc'[q] = "size" => Told(q, dgCount[q])'
    BY <1>1
  <2> QED
    BY <2>1, <2>2, <2>3, <2>4 DEF ToldInv, PrintsNumbersOfPort
<1>4. /\ replies \in Seq(S)
      /\ \A q \in Ports : /\ socket[q] \in Seq(T[q])
                          /\ clientPc[q] = "size" => <<q, dgCount[q]>> \in K
      /\ \A r \in printed : <<r.port, r.count>> \in K /\ <<r.port, r.size>> \in K
  <2>1. \A q \in Ports, v \in Int : Told(q, v) => <<q, v>> \in K
    BY <1>2, ToldStays
  <2>2. ToldReplies \subseteq S
    BY <2>1 DEF ToldReplies, Reply
  <2>3. \A q \in Ports : ToldValues(q) \subseteq T[q]
    BY <2>1 DEF ToldValues
  <2>4. replies \in Seq(S) /\ \A q \in Ports : socket[q] \in Seq(T[q])
    BY <2>2, <2>3, SeqGrows DEF ToldInv
  <2>5. \A q \in Ports : clientPc[q] = "size" => <<q, dgCount[q]>> \in K
    BY <1>0, <2>1 DEF ToldInv
  <2>6. \A r \in printed : <<r.port, r.count>> \in K /\ <<r.port, r.size>> \in K
    BY <1>0, <2>1 DEF ToldInv, PrintsNumbersOfPort
  <2> QED
    BY <2>4, <2>5, <2>6
<1> HIDE DEF T
<1>5. ASSUME UNCHANGED <<socket, dgCount, printed>>, replies' \in Seq(S),
             \A q \in Ports : clientPc'[q] = "size" => clientPc[q] = "size"
      PROVE  Goal
  BY <1>4, <1>5
<1>6. ASSUME NEW value \in Int, Told(clientAddr, value), clientAddr \in Ports,
             replies' = Append(replies, [port |-> clientAddr, value |-> value]),
             UNCHANGED <<socket, dgCount, printed, clientPc>>
      PROVE  Goal
  <2>1. <<clientAddr, value>> \in K
    BY <1>2, <1>6, ToldStays
  <2>2. [port |-> clientAddr, value |-> value] \in S
    BY <1>6, <2>1 DEF Reply
  <2> HIDE DEF S
  <2>3. replies' \in Seq(S)
    BY <1>4, <1>6, <2>2, AppendProperties
  <2> QED
    BY <1>5, <1>6, <2>3
<1>7. CASE SendCount
  <2>1. Told(clientAddr, datagramsCount) /\ datagramsCount \in Int /\ clientAddr \in Ports
    BY <1>7, SendsTold DEF SendCount, SendMessage, TypeInv, TypeOK
  <2> QED
    BY <1>3, <1>6, <1>7, <2>1 DEF SendCount, SendMessage, clientVars
<1>8. CASE SendSize
  <2>1. Told(clientAddr, buffSize) /\ buffSize \in Int /\ clientAddr \in Ports
    BY <1>8, SendsTold DEF SendSize, SendMessage, TypeInv, TypeOK
  <2> QED
    BY <1>3, <1>6, <1>8, <2>1 DEF SendSize, SendMessage, clientVars
<1>9. CASE Bind \/ RecvMessage \/ ServerExits
  <2>1. UNCHANGED <<socket, dgCount, printed, clientPc, replies>>
    BY <1>9 DEF Bind, RecvMessage, ServerExits, clientVars
  <2> QED
    BY <1>3, <1>4, <1>5, <2>1
<1>10. CASE Lose \/ Garble
  <2>1. UNCHANGED <<socket, dgCount, printed, clientPc>>
    BY <1>10 DEF Lose, Garble, clientVars
  <2>2. \/ replies' = replies
        \/ \E k \in DOMAIN replies : replies' = RemoveAt(replies, k)
        \/ replies' \in Mishap(replies)
    BY <1>10 DEF Lose, Garble
  <2>3. replies' \in Seq(S)
    <3>1. DOMAIN replies = 1..Len(replies)
      BY <1>4, LenProperties
    <3> HIDE DEF S
    <3> QED
      BY <1>4, <2>2, <3>1, RemoveFacts, MishapType
  <2> QED
    BY <1>3, <1>5, <2>1, <2>3
<1>11. ASSUME NEW p \in Ports, ClientStarts(p) \/ ClientSendFails(p)
              \/ \E n \in Lengths[p] : ClientSends(p, n)
       PROVE  Goal
  <2>1. UNCHANGED <<socket, dgCount, printed, replies>>
    BY <1>11 DEF ClientStarts, ClientSendFails, ClientSends
  <2>2. \A q \in Ports : clientPc'[q] = "size" => clientPc[q] = "size"
    BY <1>0, <1>11 DEF ClientStarts, ClientSendFails, ClientSends
  <2> QED
    BY <1>4, <1>5, <2>1, <2>2
<1>12. ASSUME NEW p \in Ports, socket[p] # <<>>
       PROVE  /\ Head(socket[p]) \in T[p] /\ Tail(socket[p]) \in Seq(T[p])
              /\ <<p, Head(socket[p])>> \in K
  <2>1. socket[p] \in Seq(T[p])
    BY <1>4
  <2>2. Head(socket[p]) \in T[p] /\ Tail(socket[p]) \in Seq(T[p])
    BY <1>12, <2>1, HeadTailProperties
  <2> QED
    BY <2>2 DEF T
<1>13. ASSUME NEW p \in Ports, ClientReadsCount(p) PROVE Goal
  <2>1. /\ replies' = replies /\ printed' = printed /\ socket[p] # <<>>
        /\ socket' = [socket EXCEPT ![p] = Tail(socket[p])]
        /\ dgCount' = [dgCount EXCEPT ![p] = Head(socket[p])]
        /\ clientPc' = [clientPc EXCEPT ![p] = "size"]
    BY <1>0, <1>13 DEF ClientReadsCount
  <2>2. \A q \in Ports : /\ socket'[q] \in Seq(T[q])
                         /\ clientPc'[q] = "size" => <<q, dgCount'[q]>> \in K
    BY <1>0, <1>4, <1>12, <2>1
  <2> QED
    BY <1>4, <2>1, <2>2
<1>14. ASSUME NEW p \in Ports, Close(p)
       PROVE  \A q \in Ports :
                /\ socket'[q] \in Seq(T[q])
                /\ clientPc'[q] = "size" => <<q, dgCount'[q]>> \in K
  <2>1. <<>> \in Seq(T[p])
    BY EmptySeq
  <2> QED
    BY <1>0, <1>4, <1>14, <2>1 DEF Close
<1>15. ASSUME NEW p \in Ports, ClientReadsSize(p) PROVE Goal
  <2>1. /\ replies' = replies /\ socket[p] # <<>> /\ clientPc[p] = "size" /\ Close(p)
        /\ printed' = printed \union
             {[port |-> p, run |-> runs[p], count |-> dgCount[p],
               size |-> Head(socket[p])]}
    BY <1>15 DEF ClientReadsSize
  <2>2. \A r \in printed' : <<r.port, r.count>> \in K /\ <<r.port, r.size>> \in K
    <3> SUFFICES ASSUME NEW r \in printed', r \notin printed
                 PROVE  <<r.port, r.count>> \in K /\ <<r.port, r.size>> \in K
      BY <1>4
    <3>1. r.port = p /\ r.count = dgCount[p] /\ r.size = Head(socket[p])
      BY <2>1
    <3>2. <<p, dgCount[p]>> \in K /\ <<p, Head(socket[p])>> \in K
      BY <1>4, <1>12, <2>1
    <3> QED
      BY <3>1, <3>2
  <2> QED
    BY <1>4, <1>14, <2>1, <2>2
<1>16. ASSUME NEW p \in Ports, ClientTimesOut(p) PROVE Goal
  <2>1. replies' = replies /\ printed' = printed /\ Close(p)
    BY <1>16 DEF ClientTimesOut
  <2> QED
    BY <1>4, <1>14, <2>1
<1>17. CASE Deliver
  <2> HIDE DEF S
  <2>1. replies # <<>> /\ replies' = Tail(replies)
        /\ UNCHANGED <<dgCount, printed, clientPc>>
    BY <1>17 DEF Deliver
  <2>2. Head(replies) \in S /\ replies' \in Seq(S)
    BY <1>4, <2>1, HeadTailProperties
  <2>3. PICK r \in S : r = Head(replies)
    BY <2>2
  <2>4. r.port \in Ports /\ r.value \in T[r.port]
    BY DEF S, T, Reply
  <2>5. Append(socket[r.port], r.value) \in Seq(T[r.port])
    BY <1>4, <2>4, AppendProperties
  <2>6. socket' = [socket EXCEPT ![r.port] = Append(socket[r.port], r.value)]
        \/ socket' = socket
    BY <1>0, <1>17, <2>3, <2>4 DEF Deliver
  <2>7. \A q \in Ports : socket'[q] \in Seq(T[q])
    BY <1>0, <1>4, <2>4, <2>5, <2>6
  <2> QED
    BY <1>3, <1>4, <2>1, <2>2, <2>7
<1>18. CASE UNCHANGED vars
  BY <1>3, <1>4, <1>5, <1>18 DEF vars, clientVars
<1> QED
  BY <1>3, <1>7, <1>8, <1>9, <1>10, <1>11, <1>13, <1>15, <1>16, <1>17, <1>18
     DEF Next, Server, ClientReceives

LEMMA ToldInit == Init => ToldInv
<1> SUFFICES ASSUME Init PROVE ToldInv
  OBVIOUS
<1>1. \A S : <<>> \in Seq(S)
  BY EmptySeq
<1>2. /\ replies = <<>> /\ printed = {}
      /\ \A p \in Ports : socket[p] = <<>> /\ clientPc[p] = "none"
  BY DEF Init
<1> QED
  BY <1>1, <1>2 DEF ToldInv, PrintsNumbersOfPort

(* For any number of ports and clients, and any number of datagrams lost,    *)
(* doubled or overtaken: a client prints nothing but numbers that the server *)
(* computed for a request from its port (udp_server.c:66-89,                 *)
(* udp_client.c:45-52).                                                      *)
THEOREM NumbersOfPortCorrect == Spec => []PrintsNumbersOfPort
<1>1. Init => TypeInv /\ TotalsOK /\ ToldInv
  BY TypeInit, TotalsInit, ToldInit
<1>2. TypeInv /\ TotalsOK /\ ToldInv /\ [Next]_vars => (TypeInv /\ TotalsOK /\ ToldInv)'
  BY TypeNext, TotalsNext, ToldNext
<1>3. ToldInv => PrintsNumbersOfPort
  BY DEF ToldInv
<1> QED
  BY <1>1, <1>2, <1>3, PTL DEF Spec

====
