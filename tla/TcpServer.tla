------------------------------- MODULE TcpServer -------------------------------
(* C/TCPserver: the server opens a listening socket, serves one client, and  *)
(* closes both sockets before it begins again.  It waits for a message of    *)
(* the client, whose text it ignores, and answers in five sends: address,    *)
(* newline, port, newline and the time.                                      *)
EXTENDS Naturals, Sequences, SequencesExt

CONSTANTS
  Clients,
  QLen,       \* qlen
  MaxTime,    \* bound on the seconds that pass
  MaxFaults   \* bound on the calls that fail

Nobody == "nobody"
Parts == <<"ip", "newline", "port", "newline", "time">>

VARIABLES
  at,        \* the call the server makes next, or "gone"
  part,      \* the part of the answer it sends next
  bound,     \* whether the port has a listening socket
  queue,     \* connections that wait to be accepted
  peer,      \* the client being served
  time,      \* get_time()
  now,
  client,    \* per client: "away", "waiting" for the answer or its end,
             \* "left", or how its connection ended
  said,      \* clients whose message has arrived
  faults,
  ended      \* history: when the last client's connection was closed

serverVars == <<at, part, bound, queue, peer, time, ended>>
tcpVars == <<serverVars, now, client, said, faults>>

Init ==
  /\ at = "listen" /\ part = 1 /\ bound = FALSE /\ queue = <<>> /\ peer = Nobody
  /\ time = 0 /\ now = 0 /\ ended = 0 /\ faults = 0
  /\ client = [c \in Clients |-> "away"] /\ said = {}

\* The kernel's answer to clients whose socket on the server is closed.
Drop(cs, how) ==
  client' = [c \in Clients |->
               IF c \in cs /\ client[c] = "waiting" THEN how ELSE client[c]]
\* exit(1), or the end by SIGPIPE: the kernel closes every socket.
Exit ==
  /\ at' = "gone" /\ bound' = FALSE /\ queue' = <<>> /\ peer' = Nobody
  /\ Drop(ToSet(queue) \union {peer}, "dropped")
  /\ UNCHANGED <<part, time, ended>>

\* Mutant: the time taken once, before the loop.
ListenWithOldTime ==
  /\ at = "listen"
  /\ time' = 0
  /\ IF bound THEN Exit
     ELSE at' = "accept" /\ bound' = TRUE /\ UNCHANGED <<part, queue, peer, client, ended>>
  /\ UNCHANGED <<now, said, faults>>

\* get_time, socket, bind, listen: only one socket can listen at the port.
Listen ==
  /\ at = "listen"
  /\ \/ /\ bound /\ Exit
     \/ /\ ~bound
        /\ time' = now
        /\ at' = "accept" /\ bound' = TRUE
        /\ UNCHANGED <<part, queue, peer, client, ended>>
  /\ UNCHANGED <<now, said, faults>>

Accept ==
  /\ at = "accept" /\ queue # <<>>
  /\ at' = "recv" /\ peer' = Head(queue) /\ queue' = Tail(queue)
  /\ UNCHANGED <<part, bound, time, ended, now, client, said, faults>>

\* recv returns with a message, or with 0 when the client has left.
Recv ==
  /\ at = "recv" /\ (peer \in said \/ client[peer] = "left")
  /\ at' = "send" /\ part' = 1
  /\ UNCHANGED <<bound, queue, peer, time, ended, now, client, said, faults>>

Send ==
  /\ at = "send"
  /\ IF part = Len(Parts) THEN at' = "close" /\ UNCHANGED part
     ELSE part' = part + 1 /\ UNCHANGED at
  /\ UNCHANGED <<bound, queue, peer, time, ended, now, client, said, faults>>
\* What was sent to a client that has left comes back as a reset: the next
\* send raises SIGPIPE.
BrokenPipe ==
  /\ at = "send" /\ part > 1 /\ client[peer] = "left"
  /\ Exit
  /\ UNCHANGED <<now, said, faults>>

\* Mutant: only the client's socket is closed.
CloseServerNot ==
  /\ at = "close"
  /\ at' = "done"
  /\ UNCHANGED <<part, bound, queue, peer, time, ended, now, client, said, faults>>

\* close(serverfd): who waits behind the client just served is reset.
CloseServer ==
  /\ at = "close"
  /\ at' = "done" /\ bound' = FALSE /\ queue' = <<>>
  /\ Drop(ToSet(queue), "reset")
  /\ UNCHANGED <<part, peer, time, ended, now, said, faults>>

\* Mutant: the client's socket stays open.
CloseClientNot ==
  /\ at = "done"
  /\ at' = "listen" /\ peer' = Nobody /\ ended' = now
  /\ UNCHANGED <<part, bound, queue, time, now, client, said, faults>>

\* What recv has left unread of a long message makes close a reset.
CloseClient ==
  /\ at = "done"
  /\ at' = "listen" /\ peer' = Nobody /\ ended' = now
  /\ \E how \in {"answered", "reset"} : Drop({peer}, how)
  /\ UNCHANGED <<part, bound, queue, time, now, said, faults>>

\* A call returns -1.
Fault ==
  /\ at \in {"listen", "accept", "recv", "send"}
  /\ faults < MaxFaults /\ faults' = faults + 1
  /\ Exit
  /\ UNCHANGED <<now, said>>

\* Without a listening socket a connection is refused, with a full queue it
\* has to be tried again.
Connect(c) ==
  /\ client[c] = "away" /\ (bound => Len(queue) < QLen)
  /\ client' = [client EXCEPT ![c] = IF bound THEN "waiting" ELSE "refused"]
  /\ queue' = IF bound THEN Append(queue, c) ELSE queue
  /\ UNCHANGED <<at, part, bound, peer, time, ended, now, said, faults>>
Speak(c) ==
  /\ client[c] = "waiting" /\ c \notin said
  /\ said' = said \union {c}
  /\ UNCHANGED <<serverVars, now, client, faults>>
Leave(c) ==
  /\ client[c] = "waiting"
  /\ client' = [client EXCEPT ![c] = "left"]
  /\ UNCHANGED <<serverVars, now, said, faults>>
\* Who has said nothing yet does, or leaves.
Ends(c) == c \notin said /\ (Speak(c) \/ Leave(c))
Tick ==
  /\ now < MaxTime /\ now' = now + 1
  /\ UNCHANGED <<serverVars, client, said, faults>>

Step == Listen \/ Accept \/ Recv \/ Send \/ CloseServer \/ CloseClient
Next == \/ Step \/ BrokenPipe \/ Fault \/ Tick
        \/ \E c \in Clients : Connect(c) \/ Speak(c) \/ Leave(c)
Spec == Init /\ [][Next]_tcpVars

-----------------------------------------------------------------------------
TypeOK ==
  /\ at \in {"listen", "accept", "recv", "send", "close", "done", "gone"}
  /\ part \in DOMAIN Parts
  /\ bound = (at \notin {"listen", "done", "gone"})
  /\ queue \in Seq(Clients) /\ Len(queue) <= QLen
  /\ peer \in Clients \union {Nobody} /\ said \subseteq Clients
  /\ time \in 0..now /\ ended \in 0..now
  /\ client \in [Clients -> {"away", "waiting", "left", "refused", "reset",
                             "answered", "dropped"}]

(* However long the server waited for the client, the time it is sent is not *)
(* of an earlier turn: it is not before the end of the connection served     *)
(* before (main.c:103, 118-133).                                             *)
TimeIsFresh == at = "send" => time >= ended

(* Unless one of its calls fails, the server ends only by a client that left *)
(* before it was answered: each turn finds its port free again               *)
(* (main.c:48-66, 102-134).                                                  *)
OnlyLeaversEndIt ==
  at = "gone" /\ faults = 0 => \E c \in Clients : client[c] = "left"

(* Every client that got a connection learns its end, when no client stays   *)
(* silent for ever: it is answered, or its connection is closed when the     *)
(* socket it waits at is (main.c:85-91, 118-133).                            *)
EveryClientEnds ==
  \A c \in Clients : client[c] = "waiting" ~> client[c] # "waiting"
================================================================================
