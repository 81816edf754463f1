------------------------------- MODULE Datagram -------------------------------
(* C/datagram: a server that accepts one client, sends it its third argument *)
(* and exits, and clients that print what they receive.  The server sends as *)
(* many bytes as a pointer has; the client prints its buffer up to the first *)
(* zero byte, wherever that comes from.                                      *)
EXTENDS Naturals, SequencesExt

CONSTANTS
  Peers,        \* the clients
  PointerSize,  \* sizeof(server_message)
  Texts         \* what the user may give as the message

Nul == "nul"
Absent == <<"argv[3] is NULL">>

VARIABLES
  server,   \* "bind", "accept", "send", "close", or "gone"
  message,  \* server_message
  waiting,  \* connections that wait to be accepted, oldest first
  served,   \* the client that was accepted, as a set
  peer,     \* per client: "start", "recv", "refused" or "ended"
  socket,   \* per client: what was sent to it
  reset,    \* clients whose connection is over
  output    \* per client: what it printed

netVars == <<server, message, waiting, served, peer, socket, reset, output>>

Init ==
  /\ server = "bind" /\ message \in Texts \union {Absent}
  /\ waiting = <<>> /\ served = {} /\ reset = {}
  /\ peer = [c \in Peers |-> "start"]
  /\ socket = [c \in Peers |-> <<>>] /\ output = [c \in Peers |-> <<>>]

\* Without a socket that listens, which nobody looks at, every later call fails
\* too and the server exits.
Bind ==
  /\ server = "bind"
  /\ server' \in {"accept", "gone"}
  /\ UNCHANGED <<message, waiting, served, peer, socket, reset, output>>
\* After a failed accept, unnoticed, send fails.
Accept ==
  /\ server = "accept"
  /\ \/ /\ waiting # <<>> /\ server' = "send"
        /\ served' = {Head(waiting)} /\ waiting' = Tail(waiting)
     \/ server' = "close" /\ UNCHANGED <<served, waiting>>
  /\ UNCHANGED <<message, peer, socket, reset, output>>

\* The bytes from the message on: its end, then what is next in memory.
Behind == message \o <<Nul>> \o [i \in 1..PointerSize |-> "environ"]
\* Mutant: strlen in place of sizeof.
SentWithoutEnd == IF message = Absent THEN <<>> ELSE message
\* send of a null pointer fails, and nobody looks at its result.
Sent == IF message = Absent THEN <<>> ELSE SubSeq(Behind, 1, PointerSize)

Send ==
  /\ server = "send"
  /\ server' = "close"
  /\ socket' = [c \in Peers |-> IF c \in served THEN Sent ELSE socket[c]]
  /\ UNCHANGED <<message, waiting, served, peer, reset, output>>
\* The connection is closed and the server exits: those that wait are reset.
Close ==
  /\ server = "close"
  /\ server' = "gone"
  /\ waiting' = <<>> /\ reset' = served \union ToSet(waiting)
  /\ UNCHANGED <<message, served, peer, socket, output>>

Connect(c) ==
  /\ peer[c] = "start"
  /\ IF server \in {"bind", "gone"}
     THEN peer' = [peer EXCEPT ![c] = "refused"] /\ UNCHANGED waiting
     ELSE peer' = [peer EXCEPT ![c] = "recv"] /\ waiting' = Append(waiting, c)
  /\ UNCHANGED <<server, message, served, socket, reset, output>>

\* What the buffer of the client holds behind the received bytes.
Junk == {<<Nul>>, <<"junk", Nul>>}
UpToNul(buffer) == SubSeq(buffer, 1, SelectInSeq(buffer, LAMBDA b : b = Nul) - 1)
Receive(c) ==
  /\ peer[c] = "recv" /\ (socket[c] # <<>> \/ c \in reset)
  /\ peer' = [peer EXCEPT ![c] = "ended"]
  /\ \E junk \in Junk :
       output' = [output EXCEPT ![c] = UpToNul(socket[c] \o junk)]
  /\ UNCHANGED <<server, message, waiting, served, socket, reset>>

Next == \/ Bind \/ Accept \/ Send \/ Close
        \/ \E c \in Peers : Connect(c) \/ Receive(c)
Spec == Init /\ [][Next]_netVars

-----------------------------------------------------------------------------
TypeOK ==
  /\ server \in {"bind", "accept", "send", "close", "gone"}
  /\ message \in Texts \union {Absent}
  /\ ToSet(waiting) \subseteq Peers
  /\ served \subseteq Peers /\ reset \subseteq Peers
  /\ peer \in [Peers -> {"start", "recv", "refused", "ended"}]

(* A message shorter than a pointer is printed by the client that was        *)
(* accepted as it was given, whatever is in the buffer and behind the        *)
(* message; every other client prints nothing of any message                 *)
(* (server.c:53, client.c:39-42).                                            *)
ShortMessageArrives ==
  \A c \in Peers : peer[c] = "ended" =>
    IF c \in served
    THEN message # Absent /\ Len(message) < PointerSize => output[c] = message
    ELSE ToSet(output[c]) \subseteq {"junk"}
================================================================================
