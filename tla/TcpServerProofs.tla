---------------------------- MODULE TcpServerProofs ----------------------------
(* Safety of TcpServer for any clients, any length of the queue and any      *)
(* number of calls that fail.                                                *)
EXTENDS TcpServer, SequenceTheorems, TLAPS

-----------------------------------------------------------------------------
(* The inductive invariant.                                                  *)

States == {"away", "waiting", "left", "refused", "reset", "answered", "dropped"}
Serving == {"recv", "send"}
\* The part of TypeOK that the properties rest on.
ServerOK ==
  /\ at \in {"listen", "accept", "recv", "send", "close", "done", "gone"}
  /\ part \in Nat /\ queue \in Seq(Clients)
  /\ at \in Serving => peer \in Clients
  /\ client \in [Clients -> States]
\* A turn begins without a socket that listens at the port.
PortFree == at \in {"listen", "done"} => bound = FALSE
\* Times are of the past, and of no turn but this one.
Timely ==
  /\ time \in Nat /\ ended \in Nat /\ now \in Nat
  /\ time <= now /\ ended <= now
  /\ at \in {"accept", "recv", "send"} => time >= ended
Inv == ServerOK /\ PortFree /\ Timely /\ faults \in Nat /\ OnlyLeaversEndIt

-----------------------------------------------------------------------------
\* The kernel's answer to a client never touches one that has left.
LEMMA DropFacts ==
  ASSUME client \in [Clients -> States], NEW cs, NEW how \in States, Drop(cs, how)
  PROVE  /\ client' \in [Clients -> States]
         /\ \A c \in Clients : client[c] = "left" => client'[c] = "left"
BY DEF Drop

LEMMA InitInv == Init => Inv
BY DEF Init, Inv, ServerOK, PortFree, Timely, OnlyLeaversEndIt, States, Serving

LEMMA ExitKeeps ==
  ASSUME Inv, Exit, now' = now, faults' \in Nat,
         faults' = 0 => \E c \in Clients : client[c] = "left"
  PROVE  Inv'
<1>1. "dropped" \in States /\ client \in [Clients -> States]
  BY DEF States, Inv, ServerOK
<1>2. /\ client' \in [Clients -> States]
      /\ \A c \in Clients : client[c] = "left" => client'[c] = "left"
  BY <1>1, DropFacts DEF Exit
<1>3. /\ at' = "gone" /\ bound' = FALSE /\ queue' = <<>> /\ part' = part
      /\ time' = time /\ ended' = ended
  BY DEF Exit
<1>4. ServerOK' /\ PortFree'
  BY <1>2, <1>3 DEF Inv, ServerOK, PortFree, Serving
<1>5. Timely'
  BY <1>3 DEF Inv, Timely
<1>6. OnlyLeaversEndIt'
  BY <1>2, <1>3 DEF OnlyLeaversEndIt
<1> QED
  BY <1>4, <1>5, <1>6 DEF Inv

LEMMA ListenKeeps == ASSUME Inv, Listen PROVE Inv'
<1>1. /\ bound = FALSE /\ time' = now /\ at' = "accept" /\ now' = now
      /\ part' = part /\ queue' = queue /\ peer' = peer /\ client' = client
      /\ ended' = ended /\ faults' = faults
  BY DEF Listen, Inv, PortFree
<1>2. ServerOK' /\ PortFree' /\ OnlyLeaversEndIt'
  BY <1>1 DEF Inv, ServerOK, PortFree, OnlyLeaversEndIt, Serving
<1>3. Timely'
  BY <1>1 DEF Inv, Timely
<1> QED
  BY <1>1, <1>2, <1>3 DEF Inv

LEMMA AcceptKeeps == ASSUME Inv, Accept PROVE Inv'
<1>1. /\ at = "accept" /\ at' = "recv" /\ queue # <<>> /\ peer' = Head(queue)
      /\ queue' = Tail(queue) /\ part' = part /\ bound' = bound /\ time' = time
      /\ ended' = ended /\ now' = now /\ client' = client /\ faults' = faults
  BY DEF Accept
<1>2. peer' \in Clients /\ queue' \in Seq(Clients)
  BY <1>1, HeadTailProperties DEF Inv, ServerOK
<1>3. ServerOK' /\ PortFree' /\ OnlyLeaversEndIt'
  BY <1>1, <1>2 DEF Inv, ServerOK, PortFree, OnlyLeaversEndIt
<1>4. Timely'
  BY <1>1 DEF Inv, Timely
<1> QED
  BY <1>1, <1>3, <1>4 DEF Inv

\* A step to another call that is part of the same turn.
LEMMA RecvKeeps == ASSUME Inv, Recv PROVE Inv'
BY DEF Inv, Recv, ServerOK, PortFree, Timely, OnlyLeaversEndIt, Serving
LEMMA SendKeeps == ASSUME Inv, Send PROVE Inv'
BY DEF Inv, Send, ServerOK, PortFree, Timely, OnlyLeaversEndIt, Serving, Parts

\* A client that was being served has left, which excuses the server.
LEMMA BrokenPipeKeeps == ASSUME Inv, BrokenPipe PROVE Inv'
<1>1. peer \in Clients /\ client[peer] = "left"
  BY DEF BrokenPipe, Inv, ServerOK, Serving
<1> QED
  BY <1>1, ExitKeeps DEF BrokenPipe, Inv

LEMMA FaultKeeps == ASSUME Inv, Fault PROVE Inv'
<1>1. faults' \in Nat /\ faults' # 0
  BY DEF Fault, Inv
<1> QED
  BY <1>1, ExitKeeps DEF Fault

LEMMA CloseServerKeeps == ASSUME Inv, CloseServer PROVE Inv'
<1>1. "reset" \in States /\ client \in [Clients -> States]
  BY DEF States, Inv, ServerOK
<1>2. /\ client' \in [Clients -> States]
      /\ \A c \in Clients : client[c] = "left" => client'[c] = "left"
  BY <1>1, DropFacts DEF CloseServer
<1>3. /\ at' = "done" /\ bound' = FALSE /\ queue' = <<>> /\ part' = part /\ time' = time
      /\ ended' = ended /\ now' = now /\ faults' = faults
  BY DEF CloseServer
<1>4. ServerOK' /\ PortFree' /\ OnlyLeaversEndIt'
  BY <1>2, <1>3 DEF Inv, ServerOK, PortFree, OnlyLeaversEndIt, Serving
<1>5. Timely'
  BY <1>3 DEF Inv, Timely
<1> QED
  BY <1>3, <1>4, <1>5 DEF Inv

LEMMA CloseClientKeeps == ASSUME Inv, CloseClient PROVE Inv'
<1>1. {"answered", "reset"} \subseteq States /\ client \in [Clients -> States]
  BY DEF States, Inv, ServerOK
<1>2. /\ client' \in [Clients -> States]
      /\ \A c \in Clients : client[c] = "left" => client'[c] = "left"
  BY <1>1, DropFacts DEF CloseClient
<1>3. /\ at = "done" /\ at' = "listen" /\ bound' = bound /\ queue' = queue
      /\ part' = part /\ time' = time /\ ended' = now /\ now' = now
      /\ faults' = faults
  BY DEF CloseClient
<1>4. ServerOK' /\ PortFree' /\ OnlyLeaversEndIt'
  BY <1>2, <1>3 DEF Inv, ServerOK, PortFree, OnlyLeaversEndIt, Serving
<1>5. Timely'
  BY <1>3 DEF Inv, Timely
<1> QED
  BY <1>3, <1>4, <1>5 DEF Inv

LEMMA ConnectKeeps == ASSUME Inv, NEW c \in Clients, Connect(c) PROVE Inv'
<1>1. /\ at' = at /\ part' = part /\ bound' = bound /\ peer' = peer
      /\ time' = time /\ ended' = ended /\ now' = now /\ faults' = faults
      /\ client[c] = "away"
  BY DEF Connect
<1>2. queue' \in Seq(Clients)
  BY AppendProperties DEF Connect, Inv, ServerOK
<1>3. /\ client' \in [Clients -> States]
      /\ \A d \in Clients : client[d] = "left" => client'[d] = "left"
  BY DEF Connect, Inv, ServerOK, States
<1> QED
  BY <1>1, <1>2, <1>3 DEF Inv, ServerOK, PortFree, Timely, OnlyLeaversEndIt

LEMMA LeaveKeeps == ASSUME Inv, NEW c \in Clients, Leave(c) PROVE Inv'
<1>1. /\ at' = at /\ part' = part /\ bound' = bound /\ peer' = peer
      /\ queue' = queue /\ time' = time /\ ended' = ended /\ now' = now
      /\ faults' = faults
  BY DEF Leave, serverVars
<1>2. /\ client' \in [Clients -> States]
      /\ \A d \in Clients : client[d] = "left" => client'[d] = "left"
  BY DEF Leave, Inv, ServerOK, States
<1> QED
  BY <1>1, <1>2 DEF Inv, ServerOK, PortFree, Timely, OnlyLeaversEndIt

LEMMA SpeakKeeps == ASSUME Inv, NEW c \in Clients, Speak(c) PROVE Inv'
BY DEF Speak, serverVars, Inv, ServerOK, PortFree, Timely, OnlyLeaversEndIt

LEMMA TickKeeps == ASSUME Inv, Tick PROVE Inv'
<1>1. /\ at' = at /\ part' = part /\ bound' = bound /\ peer' = peer
      /\ queue' = queue /\ time' = time /\ ended' = ended /\ client' = client
      /\ faults' = faults /\ now' = now + 1
  BY DEF Tick, serverVars
<1> QED
  BY <1>1 DEF Inv, ServerOK, PortFree, Timely, OnlyLeaversEndIt

LEMMA NextKeeps == ASSUME Inv, [Next]_tcpVars PROVE Inv'
<1>1. CASE Step
  BY <1>1, ListenKeeps, AcceptKeeps, RecvKeeps, SendKeeps, CloseServerKeeps,
     CloseClientKeeps DEF Step
<1>2. ASSUME NEW c \in Clients, Connect(c) \/ Speak(c) \/ Leave(c)
      PROVE  Inv'
  BY <1>2, ConnectKeeps, SpeakKeeps, LeaveKeeps
<1>3. CASE UNCHANGED tcpVars
  BY <1>3 DEF tcpVars, serverVars, Inv, ServerOK, PortFree, Timely, OnlyLeaversEndIt
<1> QED
  BY <1>1, <1>2, <1>3, BrokenPipeKeeps, FaultKeeps, TickKeeps DEF Next

-----------------------------------------------------------------------------
(* Type correctness, which rests on the times of Inv.                        *)

LEMMA TypeInit == ASSUME QLen \in Nat PROVE Init => TypeOK
<1> SUFFICES ASSUME Init PROVE TypeOK
  OBVIOUS
<1>1. 1 \in DOMAIN Parts
  BY DEF Parts
<1>2. queue \in Seq(Clients) /\ Len(queue) <= QLen
  BY EmptySeq DEF Init
<1>3. client \in [Clients -> {"away", "waiting", "left", "refused", "reset",
                             "answered", "dropped"}]
  BY DEF Init
<1>4. time \in 0..now /\ ended \in 0..now
  BY DEF Init
<1> QED
  BY <1>1, <1>2, <1>3, <1>4 DEF Init, TypeOK

LEMMA TypeNext ==
  ASSUME QLen \in Nat, Inv, TypeOK, [Next]_tcpVars PROVE TypeOK'
<1>0. /\ now \in Nat /\ queue \in Seq(Clients) /\ Len(queue) \in Nat
      /\ client \in [Clients -> States]
  BY LenProperties DEF Inv, Timely, TypeOK, States
<1>e. <<>> \in Seq(Clients) /\ Len(<<>>) <= QLen
  BY EmptySeq
<1>1. ASSUME NEW cs, NEW how \in States, Drop(cs, how)
      PROVE  client' \in [Clients -> States]
  BY <1>0, <1>1, DropFacts
<1>2. ASSUME Exit, now' = now, said' = said PROVE TypeOK'
  <2>1. /\ at' = "gone" /\ bound' = FALSE /\ queue' = <<>> /\ peer' = Nobody
        /\ part' = part /\ time' = time /\ ended' = ended
    BY <1>2 DEF Exit
  <2>2. client' \in [Clients -> States]
    BY <1>1, <1>2 DEF Exit, States
  <2> QED
    BY <1>0, <1>e, <1>2, <2>1, <2>2 DEF TypeOK, States
<1>3. CASE Listen
  <2>1. CASE bound /\ Exit
    BY <1>2, <1>3, <2>1 DEF Listen
  <2>2. CASE ~(bound /\ Exit)
    <3>1. /\ at = "listen" /\ ~bound /\ time' = now /\ at' = "accept" /\ bound' = TRUE
          /\ part' = part /\ queue' = queue /\ peer' = peer /\ client' = client
          /\ ended' = ended /\ now' = now /\ said' = said
      BY <1>3, <2>2 DEF Listen
    <3>2. time' \in 0..now' /\ ended' \in 0..now'
      BY <1>0, <3>1 DEF TypeOK
    <3>3. bound' = (at' \notin {"listen", "done", "gone"})
      BY <3>1
    <3> QED
      BY <3>1, <3>2, <3>3 DEF TypeOK
  <2> QED
    BY <2>1, <2>2
<1>4. CASE Accept
  <2>1. /\ at' = "recv" /\ at = "accept" /\ queue # <<>> /\ peer' = Head(queue)
        /\ queue' = Tail(queue)
        /\ part' = part /\ bound' = bound /\ time' = time /\ ended' = ended
        /\ now' = now
        /\ client' = client /\ said' = said
    BY <1>4 DEF Accept
  <2>2. Head(queue) \in Clients /\ Tail(queue) \in Seq(Clients) /\ Len(Tail(queue)) = Len(queue) - 1
    BY <1>0, <2>1, HeadTailProperties
  <2> QED
    BY <1>0, <2>1, <2>2 DEF TypeOK
<1>5. CASE Recv
  <2>1. 1 \in DOMAIN Parts
    BY DEF Parts
  <2> QED
    BY <1>5, <2>1 DEF Recv, TypeOK
<1>6. CASE Send
  <2>1. Len(Parts) = 5 /\ DOMAIN Parts = 1..5
    BY DEF Parts
  <2>2. part # Len(Parts) => part + 1 \in DOMAIN Parts
    BY <2>1 DEF TypeOK
  <2> QED
    BY <1>6, <2>2 DEF Send, TypeOK
<1>7. CASE CloseServer
  <2>1. client' \in [Clients -> States]
    BY <1>1, <1>7 DEF CloseServer, States
  <2>2. /\ at' = "done" /\ bound' = FALSE /\ queue' = <<>> /\ part' = part /\ peer' = peer
        /\ time' = time /\ ended' = ended /\ now' = now /\ said' = said
    BY <1>7 DEF CloseServer
  <2> QED
    BY <1>0, <1>e, <2>1, <2>2 DEF TypeOK, States
<1>8. CASE CloseClient
  <2>1. client' \in [Clients -> States]
    BY <1>1, <1>8 DEF CloseClient, States
  <2> QED
    BY <1>0, <1>8, <2>1 DEF CloseClient, TypeOK, States
<1>9. CASE BrokenPipe \/ Fault
  BY <1>2, <1>9 DEF BrokenPipe, Fault
<1>10. ASSUME NEW c \in Clients, Connect(c) PROVE TypeOK'
  <2>1. /\ bound => Len(queue) < QLen
        /\ client' = [client EXCEPT ![c] = IF bound THEN "waiting" ELSE "refused"]
        /\ queue' = (IF bound THEN Append(queue, c) ELSE queue)
        /\ at' = at /\ part' = part /\ bound' = bound /\ peer' = peer
        /\ time' = time
        /\ ended' = ended /\ now' = now /\ said' = said
    BY <1>10 DEF Connect
  <2>2. Append(queue, c) \in Seq(Clients) /\ Len(Append(queue, c)) = Len(queue) + 1
    BY <1>0, AppendProperties
  <2>3. queue' \in Seq(Clients) /\ Len(queue') <= QLen
    BY <1>0, <2>1, <2>2 DEF TypeOK
  <2> QED
    BY <1>0, <2>1, <2>3 DEF TypeOK
<1>11. ASSUME NEW c \in Clients, Speak(c) \/ Leave(c) PROVE TypeOK'
  BY <1>11 DEF Speak, Leave, serverVars, TypeOK
<1>12. CASE Tick
  BY <1>0, <1>12 DEF Tick, serverVars, TypeOK
<1>13. CASE UNCHANGED tcpVars
  BY <1>13 DEF tcpVars, serverVars, TypeOK
<1> QED
  BY <1>3, <1>4, <1>5, <1>6, <1>7, <1>8, <1>9, <1>10, <1>11, <1>12, <1>13
     DEF Next, Step

-----------------------------------------------------------------------------
(* What becomes of the clients.                                              *)

\* The calls of a turn in which the client that was accepted is served.
Turn == {"recv", "send", "close", "done"}
\* A client that waits is in the queue or is the one being served.
NobodyIsForgotten ==
  \A c \in Clients : client[c] = "waiting" =>
    c \in ToSet(queue) \/ (at \in Turn /\ c = peer)
\* Without the socket that listens there is no queue.
ClosedIsEmpty == at \in {"listen", "done", "gone"} => ~bound /\ queue = <<>>
\* The answer begins after the client's message, or after its end.
PeerHasSpoken ==
  at \in {"send", "close", "done"} =>
    peer \in Clients /\ (peer \in said \/ client[peer] = "left")
\* Only a client that has said something is answered.
AnsweredSpoke == \A c \in Clients : client[c] = "answered" => c \in said
Kept == NobodyIsForgotten /\ ClosedIsEmpty /\ PeerHasSpoken /\ AnsweredSpoke
\* What a step may do to a client's end.
EndStays ==
  \A c \in Clients : client[c] \notin {"away", "waiting"} => client'[c] = client[c]

\* Between two turns, and after the last, no client waits that the server has
\* accepted or had in its queue.
NobodyWaitsBetween ==
  at \in {"listen", "gone"} => \A c \in Clients : client[c] # "waiting"

LEMMA QueueFacts ==
  ASSUME NEW q \in Seq(Clients)
  PROVE  /\ ToSet(<<>>) = {}
         /\ \A c : ToSet(q) \union {c} \subseteq ToSet(Append(q, c))
         /\ q # <<>> => ToSet(q) \subseteq ToSet(Tail(q)) \union {Head(q)}
<1>1. ToSet(<<>>) = {}
  BY DEF ToSet
<1>2. ASSUME NEW c PROVE ToSet(q) \union {c} \subseteq ToSet(Append(q, c))
  <2>1. /\ DOMAIN q = 1..Len(q) /\ Len(q) \in Nat
        /\ DOMAIN Append(q, c) = 1..(Len(q) + 1)
        /\ \A i \in 1..Len(q) : Append(q, c)[i] = q[i]
        /\ Append(q, c)[Len(q) + 1] = c
    OBVIOUS
  <2> QED
    BY <2>1 DEF ToSet
<1>3. ASSUME q # <<>> PROVE ToSet(q) \subseteq ToSet(Tail(q)) \union {Head(q)}
  <2>1. /\ DOMAIN q = 1..Len(q) /\ Len(q) \in Nat
        /\ DOMAIN Tail(q) = 1..(Len(q) - 1)
        /\ \A i \in 1..(Len(q) - 1) : Tail(q)[i] = q[i + 1]
        /\ Head(q) = q[1]
    BY <1>3
  <2> SUFFICES ASSUME NEW i \in 1..Len(q), i # 1 PROVE q[i] \in ToSet(Tail(q))
    BY <2>1 DEF ToSet
  <2>2. i - 1 \in 1..(Len(q) - 1) /\ (i - 1) + 1 = i
    BY <2>1
  <2>3. Tail(q)[i - 1] = q[i]
    BY <2>1, <2>2
  <2> QED
    BY <2>1, <2>2, <2>3 DEF ToSet
<1> QED
  BY <1>1, <1>2, <1>3

\* Whoever waits where a socket is closed waits no more; no other end changes.
LEMMA DropEnds ==
  ASSUME client \in [Clients -> States], NEW cs, NEW how, Drop(cs, how)
  PROVE  /\ EndStays
         /\ \A c \in Clients : client'[c] = client[c] \/ (c \in cs /\ client'[c] = how)
         /\ how # "waiting" => \A c \in Clients : client'[c] = "waiting" =>
              client[c] = "waiting" /\ c \notin cs
BY DEF Drop, EndStays

LEMMA ExitEnds ==
  ASSUME Inv, Kept, Exit, said' = said PROVE Kept' /\ EndStays
<1>1. client \in [Clients -> States] /\ Drop(ToSet(queue) \union {peer}, "dropped")
  BY DEF Inv, ServerOK, Exit
<1>2. /\ EndStays
      /\ \A c \in Clients : client'[c] = client[c] \/ client'[c] = "dropped"
      /\ \A c \in Clients : client'[c] = "waiting" =>
           client[c] = "waiting" /\ c \notin ToSet(queue) \union {peer}
  BY <1>1, DropEnds
<1>3. /\ at' = "gone" /\ bound' = FALSE /\ queue' = <<>>
  BY DEF Exit
<1>4. \A c \in Clients : client'[c] # "waiting"
  BY <1>2 DEF Kept, NobodyIsForgotten
<1> QED
  BY <1>2, <1>3, <1>4
     DEF Kept, NobodyIsForgotten, ClosedIsEmpty, PeerHasSpoken, AnsweredSpoke

LEMMA ServerStepEnds ==
  ASSUME Inv, Kept, Step \/ BrokenPipe \/ Fault PROVE Kept' /\ EndStays
<1>0. client \in [Clients -> States] /\ queue \in Seq(Clients)
  BY DEF Inv, ServerOK
<1>1. CASE Listen
  <2>1. /\ at = "listen" /\ at' = "accept" /\ queue' = queue /\ peer' = peer
        /\ client' = client /\ said' = said
    BY <1>1 DEF Listen, Inv, PortFree
  <2> QED
    BY <2>1 DEF Kept, NobodyIsForgotten, ClosedIsEmpty, PeerHasSpoken, AnsweredSpoke,
       EndStays, Turn
<1>2. CASE Accept
  <2>1. /\ at = "accept" /\ queue # <<>> /\ at' = "recv" /\ peer' = Head(queue)
        /\ queue' = Tail(queue) /\ client' = client /\ said' = said
    BY <1>2 DEF Accept
  <2>2. ToSet(queue) \subseteq ToSet(queue') \union {peer'}
    BY <1>0, <2>1, QueueFacts
  <2>3. NobodyIsForgotten'
    BY <2>1, <2>2 DEF Kept, NobodyIsForgotten, Turn
  <2> QED
    BY <2>1, <2>3 DEF Kept, ClosedIsEmpty, PeerHasSpoken, AnsweredSpoke, EndStays
<1>3. CASE Recv
  <2>1. /\ at = "recv" /\ at' = "send" /\ queue' = queue /\ peer' = peer
        /\ client' = client /\ said' = said
        /\ peer \in Clients /\ (peer \in said \/ client[peer] = "left")
    BY <1>3 DEF Recv, Inv, ServerOK, Serving
  <2> QED
    BY <2>1 DEF Kept, NobodyIsForgotten, ClosedIsEmpty, PeerHasSpoken, AnsweredSpoke,
       EndStays, Turn
<1>4. CASE Send
  <2>1. /\ at = "send" /\ at' \in {"send", "close"} /\ queue' = queue /\ peer' = peer
        /\ client' = client /\ said' = said
    BY <1>4 DEF Send
  <2> QED
    BY <2>1 DEF Kept, NobodyIsForgotten, ClosedIsEmpty, PeerHasSpoken, AnsweredSpoke,
       EndStays, Turn
<1>5. CASE CloseServer
  <2>1. /\ at = "close" /\ at' = "done" /\ bound' = FALSE /\ queue' = <<>>
        /\ peer' = peer /\ said' = said /\ Drop(ToSet(queue), "reset")
    BY <1>5 DEF CloseServer
  <2>2. /\ EndStays
        /\ \A c \in Clients : client'[c] = client[c] \/ client'[c] = "reset"
        /\ \A c \in Clients : client'[c] = "waiting" =>
             client[c] = "waiting" /\ c \notin ToSet(queue)
    BY <1>0, <2>1, DropEnds
  <2>3. NobodyIsForgotten'
    BY <2>1, <2>2 DEF Kept, NobodyIsForgotten, Turn
  <2>4. PeerHasSpoken'
    BY <2>1, <2>2 DEF Kept, PeerHasSpoken, EndStays
  <2> QED
    BY <2>1, <2>2, <2>3, <2>4 DEF Kept, ClosedIsEmpty, AnsweredSpoke
<1>6. CASE CloseClient
  <2>1. PICK how \in {"answered", "reset"} :
          /\ at = "done" /\ at' = "listen" /\ bound' = bound /\ queue' = queue
          /\ said' = said /\ Drop({peer}, how)
    BY <1>6 DEF CloseClient
  <2>2. /\ EndStays
        /\ \A c \in Clients : client'[c] = client[c] \/ (c = peer /\ client'[c] = how)
        /\ \A c \in Clients : client'[c] = "waiting" => client[c] = "waiting" /\ c # peer
    BY <1>0, <2>1, DropEnds
  <2>3. queue = <<>> /\ ~bound /\ ToSet(queue) = {}
    BY <1>0, <2>1, QueueFacts DEF Kept, ClosedIsEmpty
  <2>4. NobodyIsForgotten'
    BY <2>1, <2>2, <2>3 DEF Kept, NobodyIsForgotten
  <2>5. AnsweredSpoke'
    BY <2>1, <2>2 DEF Kept, AnsweredSpoke, PeerHasSpoken, EndStays
  <2> QED
    BY <2>1, <2>2, <2>3, <2>4, <2>5 DEF Kept, ClosedIsEmpty, PeerHasSpoken
<1>7. CASE BrokenPipe \/ Fault
  BY <1>7, ExitEnds DEF BrokenPipe, Fault
<1> QED
  BY <1>1, <1>2, <1>3, <1>4, <1>5, <1>6, <1>7 DEF Step

LEMMA ClientStepEnds ==
  ASSUME Inv, Kept, NEW c \in Clients, Connect(c) \/ Speak(c) \/ Leave(c)
  PROVE  Kept' /\ EndStays
<1>0. client \in [Clients -> States] /\ queue \in Seq(Clients)
  BY DEF Inv, ServerOK
<1>1. CASE Connect(c)
  <2>1. /\ at' = at /\ bound' = bound /\ peer' = peer /\ said' = said
        /\ client[c] = "away"
        /\ client' = [client EXCEPT ![c] = IF bound THEN "waiting" ELSE "refused"]
        /\ queue' = IF bound THEN Append(queue, c) ELSE queue
    BY <1>1 DEF Connect
  <2>2. EndStays /\ \A d \in Clients \ {c} : client'[d] = client[d]
    BY <1>0, <2>1 DEF EndStays
  <2>3. client'[c] = IF bound THEN "waiting" ELSE "refused"
    BY <1>0, <2>1
  <2>4. ToSet(queue) \subseteq ToSet(queue') /\ (bound => c \in ToSet(queue'))
    BY <1>0, <2>1, QueueFacts
  <2>5. NobodyIsForgotten'
    BY <2>1, <2>2, <2>3, <2>4 DEF Kept, NobodyIsForgotten
  <2>6. ClosedIsEmpty' /\ AnsweredSpoke'
    BY <2>1, <2>2, <2>3 DEF Kept, ClosedIsEmpty, AnsweredSpoke
  <2>7. PeerHasSpoken'
    BY <2>1, <2>2 DEF Kept, PeerHasSpoken, EndStays
  <2> QED
    BY <2>2, <2>5, <2>6, <2>7 DEF Kept
<1>2. CASE Speak(c)
  <2>1. /\ at' = at /\ bound' = bound /\ peer' = peer /\ queue' = queue
        /\ client' = client /\ said \subseteq said'
    BY <1>2 DEF Speak, serverVars
  <2> QED
    BY <2>1 DEF Kept, NobodyIsForgotten, ClosedIsEmpty, PeerHasSpoken, AnsweredSpoke,
       EndStays
<1>3. CASE Leave(c)
  <2>1. /\ at' = at /\ bound' = bound /\ peer' = peer /\ queue' = queue /\ said' = said
        /\ client[c] = "waiting" /\ client' = [client EXCEPT ![c] = "left"]
    BY <1>3 DEF Leave, serverVars
  <2>2. EndStays /\ client'[c] = "left" /\ \A d \in Clients \ {c} : client'[d] = client[d]
    BY <1>0, <2>1 DEF EndStays
  <2> QED
    BY <2>1, <2>2 DEF Kept, NobodyIsForgotten, ClosedIsEmpty, PeerHasSpoken,
       AnsweredSpoke, EndStays
<1> QED
  BY <1>1, <1>2, <1>3

LEMMA NextEnds == ASSUME Inv, Kept, [Next]_tcpVars PROVE Kept' /\ EndStays
<1>1. CASE Tick
  BY <1>1 DEF Tick, serverVars, Kept, NobodyIsForgotten, ClosedIsEmpty, PeerHasSpoken,
     AnsweredSpoke, EndStays
<1>2. CASE UNCHANGED tcpVars
  BY <1>2 DEF tcpVars, serverVars, Kept, NobodyIsForgotten, ClosedIsEmpty,
     PeerHasSpoken, AnsweredSpoke, EndStays
<1>3. CASE Step \/ BrokenPipe \/ Fault
  BY <1>3, ServerStepEnds
<1>4. ASSUME NEW c \in Clients, Connect(c) \/ Speak(c) \/ Leave(c)
      PROVE  Kept' /\ EndStays
  BY <1>4, ClientStepEnds
<1> QED
  BY <1>1, <1>2, <1>3, <1>4 DEF Next

LEMMA InitEnds == Init => Kept
<1> SUFFICES ASSUME Init PROVE Kept
  OBVIOUS
<1>1. /\ at = "listen" /\ bound = FALSE /\ queue = <<>>
      /\ \A c \in Clients : client[c] = "away"
  BY DEF Init
<1> QED
  BY <1>1 DEF Kept, NobodyIsForgotten, ClosedIsEmpty, PeerHasSpoken, AnsweredSpoke

-----------------------------------------------------------------------------
(* Theorems.                                                                 *)

(* The inductive invariant of the server and its clients (main.c:102-134).   *)
THEOREM InvCorrect == Spec => []Inv
BY InitInv, NextKeeps, PTL DEF Spec

(* The server and its clients keep their types; no more connections wait     *)
(* than listen was told (main.c:85-134).                                     *)
THEOREM TypeCorrect == ASSUME QLen \in Nat PROVE Spec => []TypeOK
<1>1. Inv /\ TypeOK /\ [Next]_tcpVars => TypeOK'
  BY TypeNext
<1>2. Init => TypeOK
  BY TypeInit
<1> QED
  BY <1>1, <1>2, InvCorrect, PTL DEF Spec

(* Unless a call fails, only a client that left ends the server, for any     *)
(* number of clients and any queue (main.c:48-66, 102-134).                  *)
THEOREM OnlyLeaversCorrect == Spec => []OnlyLeaversEndIt
<1>1. Inv => OnlyLeaversEndIt
  BY DEF Inv
<1> QED
  BY <1>1, InvCorrect, PTL

(* The time a client is sent is not of an earlier turn, however long the     *)
(* server waited for it (main.c:103, 118-133).                               *)
THEOREM TimeIsFreshCorrect == Spec => []TimeIsFresh
<1>1. Inv => TimeIsFresh
  BY DEF Inv, Timely, TimeIsFresh
<1> QED
  BY <1>1, InvCorrect, PTL

(* No client is lost in a turn, the safety half of EveryClientEnds: whoever  *)
(* still waits is in the queue or is being served, so that between two turns *)
(* and after the last nobody waits; only a client that said something counts *)
(* as answered, and no step changes an end a client has learned              *)
(* (main.c:85-134).                                                          *)
THEOREM ClientsEndOnce ==
  Spec => /\ [](NobodyIsForgotten /\ NobodyWaitsBetween /\ AnsweredSpoke)
          /\ [][EndStays]_tcpVars
<1>1. Inv /\ Kept /\ [Next]_tcpVars => Kept' /\ EndStays
  BY NextEnds
<1>2. Inv /\ Kept => NobodyIsForgotten /\ NobodyWaitsBetween /\ AnsweredSpoke
  <2> SUFFICES ASSUME Inv, Kept, at \in {"listen", "gone"}, NEW c \in Clients
               PROVE  client[c] # "waiting"
    BY DEF Kept, NobodyWaitsBetween
  <2>1. queue \in Seq(Clients) /\ queue = <<>>
    BY DEF Inv, ServerOK, Kept, ClosedIsEmpty
  <2>2. ToSet(queue) = {}
    BY <2>1, QueueFacts
  <2> QED
    BY <2>2 DEF Kept, NobodyIsForgotten, Turn
<1> QED
  BY <1>1, <1>2, InitEnds, InvCorrect, PTL DEF Spec
================================================================================
