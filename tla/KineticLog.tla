------------------------------ MODULE KineticLog ------------------------------
(* What the help of kineticdb promises of PUT: it creates a new key-value    *)
(* pair, as a whole and after the pairs that are there.                      *)
EXTENDS Sequences

CONSTANTS Keys, Values
VARIABLE log

Record(k, v) == <<k, ":", v>>

Init == log = <<>>
Put(k, v) == log' = Append(log, Record(k, v))
Next == \E k \in Keys, v \in Values : Put(k, v)
Spec == Init /\ [][Next]_log
================================================================================
