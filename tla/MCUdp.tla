---------------------------------- MODULE MCUdp --------------------------------
(* A small instance of Udp for TLC: one port sends short messages, the other *)
(* ones that do not fit into the buffer of the server.                       *)
EXTENDS Udp

MCLengths == <<{1}, {3}>>
================================================================================
