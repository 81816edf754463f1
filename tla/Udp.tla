---------------------------------- MODULE Udp ----------------------------------
(* The UDP server, its clients and the network between them.  The server     *)
(* answers every datagram with two: the number of datagrams it has sent so   *)
(* far and the bytes it has received so far.  A client waits for both, each  *)
(* at most 15 seconds, and prints them.                                      *)
(*                                                                           *)
(* A datagram may be lost anywhere; MaxFaults bounds the ones duplicated or  *)
(* overtaken.  A port is used again when the client that had it is gone.     *)
EXTENDS Integers, FiniteSets, SequencesExt, FiniteSetsExt

CONSTANTS
  Ports,       \* addresses of clients
  Lengths,     \* per port: the lengths of the messages sent from it
  BuffLen,     \* buff_len, what the server takes of a datagram
  Garbage,     \* what buff_size may hold before the first addition
  MaxClients,  \* bound on the clients started
  MaxFaults    \* bound on duplicated and overtaken datagrams, and on calls
               \* of the server that fail
ASSUME UdpAssumption ==
  /\ IsFiniteSet(Ports) /\ Lengths \in [Ports -> SUBSET Nat]
  /\ BuffLen \in Nat /\ Garbage \subseteq Int
  /\ MaxClients \in Nat /\ MaxFaults \in Nat

VARIABLES
  serverPc,        \* "start", "recv", "count", "size", "down"
  datagramsCount,  \* datagrams_count
  buffSize,        \* buff_size
  clientAddr,      \* client_addr: the port answered, 0 before the first
  requests,        \* to the server: <<port, length>>, and which client sent it
  replies,         \* to the clients: <<port, value>>
  clientPc,        \* per port: "none", "send", "count", "size"
  socket,          \* per port: the values received and not yet read
  dgCount,         \* per port: dg_count
  runs,            \* per port: clients started so far
  mishaps, errors, \* how many there were
  start,           \* history: buff_size before the first addition
  served,          \* history: the requests the server took, in that order
  printed,         \* history: what the clients printed
  impatient        \* history: ports where a client left before its answer

serverVars == <<serverPc, datagramsCount, buffSize, clientAddr, served, start>>
clientVars == <<clientPc, socket, dgCount, runs, printed, impatient>>
vars == <<serverVars, clientVars, requests, replies, mishaps, errors>>

Init ==
  /\ serverPc = "start" /\ datagramsCount = 0 /\ clientAddr = 0
  /\ buffSize \in Garbage /\ start = buffSize
  /\ requests = <<>> /\ replies = <<>>
  /\ clientPc = [p \in Ports |-> "none"]
  /\ socket = [p \in Ports |-> <<>>]
  /\ dgCount = [p \in Ports |-> 0]
  /\ runs = [p \in Ports |-> 0]
  /\ mishaps = 0 /\ errors = 0
  /\ served = <<>> /\ printed = {} /\ impatient = {}

\* daemonize, socket, bind: datagrams are taken from now on.
Bind ==
  /\ serverPc = "start"
  /\ serverPc' = "recv"
  /\ UNCHANGED <<datagramsCount, buffSize, clientAddr, served, start,
                 clientVars, requests, replies, mishaps, errors>>

\* What recvfrom makes of a datagram of length n: the rest is cut off.
Received(n) == Min({n, BuffLen})

RecvMessage ==
  /\ serverPc = "recv" /\ requests # <<>>
  /\ LET r == Head(requests)
     IN /\ buffSize' = buffSize + Received(r.length)
        /\ clientAddr' = r.port
        /\ served' = Append(served, r)
  /\ requests' = Tail(requests)
  /\ serverPc' = "count"
  /\ UNCHANGED <<datagramsCount, start, clientVars, replies, mishaps, errors>>

\* Mutant: the counter goes up once for each request.
SendMessageOnce(value, from, to) ==
  /\ serverPc = from
  /\ replies' = Append(replies, [port |-> clientAddr, value |-> value])
  /\ datagramsCount' = datagramsCount + (IF from = "count" THEN 1 ELSE 0)
  /\ serverPc' = to
  /\ UNCHANGED <<buffSize, clientAddr, served, start, clientVars, requests,
                 mishaps, errors>>

SendMessage(value, from, to) ==
  /\ serverPc = from
  /\ replies' = Append(replies, [port |-> clientAddr, value |-> value])
  /\ datagramsCount' = datagramsCount + 1
  /\ serverPc' = to
  /\ UNCHANGED <<buffSize, clientAddr, served, start, clientVars, requests,
                 mishaps, errors>>
SendCount == SendMessage(datagramsCount, "count", "size")
SendSize == SendMessage(buffSize, "size", "recv")

\* error_check: bind, recvfrom or sendto returns -1 and the server exits.
ServerExits ==
  /\ serverPc # "down" /\ mishaps + errors < MaxFaults
  /\ errors' = errors + 1
  /\ serverPc' = "down"
  /\ UNCHANGED <<datagramsCount, buffSize, clientAddr, served, start,
                 clientVars, requests, replies, mishaps>>

-----------------------------------------------------------------------------
Started == MapThenSumSet(LAMBDA p : runs[p], Ports)
ClientStarts(p) ==
  /\ clientPc[p] = "none" /\ Started < MaxClients
  /\ runs' = [runs EXCEPT ![p] = @ + 1]
  /\ clientPc' = [clientPc EXCEPT ![p] = "send"]
  /\ UNCHANGED <<serverVars, socket, dgCount, printed, impatient, requests,
                 replies, mishaps, errors>>

ClientSends(p, n) ==
  /\ clientPc[p] = "send"
  /\ requests' = Append(requests, [port |-> p, length |-> n, run |-> runs[p]])
  /\ clientPc' = [clientPc EXCEPT ![p] = "count"]
  /\ UNCHANGED <<serverVars, socket, dgCount, runs, printed, impatient,
                 replies, mishaps, errors>>

\* error_check: sendto returns -1.
ClientSendFails(p) ==
  /\ clientPc[p] = "send"
  /\ clientPc' = [clientPc EXCEPT ![p] = "none"]
  /\ UNCHANGED <<serverVars, socket, dgCount, runs, printed, impatient,
                 requests, replies, mishaps, errors>>

ClientReadsCount(p) ==
  /\ clientPc[p] = "count" /\ socket[p] # <<>>
  /\ dgCount' = [dgCount EXCEPT ![p] = Head(socket[p])]
  /\ socket' = [socket EXCEPT ![p] = Tail(@)]
  /\ clientPc' = [clientPc EXCEPT ![p] = "size"]
  /\ UNCHANGED <<serverVars, runs, printed, impatient, requests, replies,
                 mishaps, errors>>

\* Mutant: the socket of the port is left as it is.
CloseNothing(p) ==
  /\ clientPc' = [clientPc EXCEPT ![p] = "none"]
  /\ dgCount' = [dgCount EXCEPT ![p] = 0]
  /\ UNCHANGED socket

\* The client is gone, and with its socket what was not read from it.
Close(p) ==
  /\ clientPc' = [clientPc EXCEPT ![p] = "none"]
  /\ socket' = [socket EXCEPT ![p] = <<>>]
  /\ dgCount' = [dgCount EXCEPT ![p] = 0]

\* The second datagram is the size; both are printed.
ClientReadsSize(p) ==
  /\ clientPc[p] = "size" /\ socket[p] # <<>>
  /\ printed' = printed \union {[port |-> p, run |-> runs[p],
                                 count |-> dgCount[p], size |-> Head(socket[p])]}
  /\ Close(p)
  /\ UNCHANGED <<serverVars, runs, impatient, requests, replies, mishaps, errors>>

\* Mutant: SO_RCVTIMEO is on the first recvfrom only.
ClientTimesOutOnce(p) ==
  /\ clientPc[p] = "count"
  /\ Close(p)
  /\ impatient' = impatient \union {p}
  /\ UNCHANGED <<serverVars, runs, printed, requests, replies, mishaps, errors>>

\* SO_RCVTIMEO: recvfrom returns -1 after 15 seconds, error_check exits.
ClientTimesOut(p) ==
  /\ clientPc[p] \in {"count", "size"}
  /\ socket[p] = <<>>
  /\ Close(p)
  /\ impatient' = impatient \union {p}
  /\ UNCHANGED <<serverVars, runs, printed, requests, replies, mishaps, errors>>

-----------------------------------------------------------------------------
\* A reply arrives at its port, where nobody may be waiting any more.
Deliver ==
  /\ replies # <<>>
  /\ LET r == Head(replies)
     IN socket' = IF clientPc[r.port] \in {"count", "size"}
                  THEN [socket EXCEPT ![r.port] = Append(@, r.value)]
                  ELSE socket
  /\ replies' = Tail(replies)
  /\ UNCHANGED <<serverVars, clientPc, dgCount, runs, printed, impatient,
                 requests, mishaps, errors>>

Lose ==
  /\ \/ /\ \E i \in DOMAIN requests : requests' = RemoveAt(requests, i)
        /\ UNCHANGED replies
     \/ /\ \E i \in DOMAIN replies : replies' = RemoveAt(replies, i)
        /\ UNCHANGED requests
  /\ UNCHANGED <<serverVars, clientVars, mishaps, errors>>

\* What one mishap makes of a channel: a datagram twice, or out of turn.
Mishap(channel) ==
  {InsertAt(channel, i, channel[i]) : i \in DOMAIN channel} \union
  {[channel EXCEPT ![i] = channel[i + 1], ![i + 1] = channel[i]]
     : i \in 1..(Len(channel) - 1)}
Garble ==
  /\ mishaps + errors < MaxFaults
  /\ mishaps' = mishaps + 1
  /\ \/ requests' \in Mishap(requests) /\ UNCHANGED replies
     \/ replies' \in Mishap(replies) /\ UNCHANGED requests
  /\ UNCHANGED <<serverVars, clientVars, errors>>

Server == RecvMessage \/ SendCount \/ SendSize
ClientReceives(p) ==
  ClientReadsCount(p) \/ ClientReadsSize(p) \/ ClientTimesOut(p)
Next ==
  \/ Bind \/ Server \/ ServerExits
  \/ \E p \in Ports :
       \/ ClientStarts(p) \/ (\E n \in Lengths[p] : ClientSends(p, n))
       \/ ClientSendFails(p) \/ ClientReceives(p)
  \/ Deliver \/ Lose \/ Garble

Spec == Init /\ [][Next]_vars
\* A waiting client is scheduled; the server and the network owe nothing.
FairSpec == Spec /\ \A p \in Ports : WF_vars(ClientReceives(p))

-----------------------------------------------------------------------------
\* The bytes the server took from its first n requests.
Taken(n) ==
  FoldFunctionOnSet(+, 0, [i \in DOMAIN served |-> Received(served[i].length)],
                    1..n)
\* The n-th request the server took is the one of the client that printed r.
IsOf(n, r) == served[n].port = r.port /\ served[n].run = r.run

(* Server, clients and channels keep their types; nothing waits in a socket  *)
(* that no client has sent from.                                             *)
TypeOK ==
  /\ serverPc \in {"start", "recv", "count", "size", "down"}
  /\ datagramsCount \in Nat /\ buffSize \in Int
  /\ clientAddr \in Ports \union {0}
  /\ requests \in Seq([port : Ports, length : Nat, run : 1..MaxClients])
  /\ served \in Seq([port : Ports, length : Nat, run : 1..MaxClients])
  /\ replies \in Seq([port : Ports, value : Int])
  /\ clientPc \in [Ports -> {"none", "send", "count", "size"}]
  /\ socket \in [Ports -> Seq(Int)]
  /\ \A p \in Ports : clientPc[p] \in {"none", "send"} => socket[p] = <<>>
  /\ dgCount \in [Ports -> Int] /\ runs \in [Ports -> 0..MaxClients]
  /\ mishaps \in Nat /\ errors \in Nat /\ mishaps + errors <= MaxFaults
  /\ start \in Garbage /\ impatient \subseteq Ports
  /\ printed \subseteq [port : Ports, run : 1..MaxClients, count : Int, size : Int]

(* However many datagrams are lost, what a client prints are the two totals  *)
(* as they were when the server took its own request: twice the requests     *)
(* before, and the bytes up to it; unless a datagram was duplicated or       *)
(* overtaken, or an earlier client of the port did not wait for its answer   *)
(* (udp_server.c:66-89, udp_client.c:45-52).                                 *)
PrintsOwnTotals ==
  mishaps = 0 =>
    \A r \in printed :
      r.port \notin impatient =>
        \E n \in DOMAIN served :
          /\ IsOf(n, r)
          /\ r.count = 2 * (n - 1)
          /\ r.size = start + Taken(n)

(* A client that waits ends: with what it prints, or after 15 seconds        *)
(* (udp_client.c:43-51), whatever becomes of the server and the network.     *)
ClientEnds ==
  \A p \in Ports : clientPc[p] \in {"count", "size"} ~> clientPc[p] = "none"

(* "get total count of datagrams and total messages size" (README.md:7):     *)
(* what is printed counts the client's own datagram and those before it.     *)
PrintsTotals ==
  mishaps = 0 /\ impatient = {} =>
    \A r \in printed :
      \E n \in DOMAIN served :
        IsOf(n, r) /\ r.count = n /\ r.size = Taken(n)
================================================================================
