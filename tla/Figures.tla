-------------------------------- MODULE Figures --------------------------------
(* Two programs on linked lists of numbers.  "figures" reads numbers with    *)
(* scanf and prints those that occur exactly three times; "arrays" builds a  *)
(* list from an array and an array from the list.  The heap is modelled node *)
(* by node: an address is a place in the sequence of allocated nodes.        *)
EXTENDS Integers, Sequences, FiniteSets, SequencesExt

CONSTANTS
  Numbers,
  Memory     \* nodes that malloc can allocate

NULL == 0
Junk == -1   \* what num holds before the first scanf

VARIABLES
  task,      \* "figures" or "arrays"
  stage,     \* "read", "stuck" (scanf keeps returning 0), "print", "copy",
             \* "done" or "crashed"
  nodes,     \* [x, next] of every node allocated
  head, tail,
  num,
  curr,      \* curr1, or head in build_arr
  out,       \* numbers printed, or the new array
  given      \* history: the numbers added
listVars == <<task, stage, nodes, head, tail, num, curr, out, given>>

Init ==
  /\ task \in {"figures", "arrays"}
  /\ stage = "read" /\ nodes = <<>> /\ head = NULL /\ tail = NULL
  /\ num = Junk /\ curr = NULL /\ out = <<>> /\ given = <<>>

Link(address) == [nodes EXCEPT ![tail].next = address]
\* Mutant: the tail stays where the list began.
AddElementAfterHead(x) ==
  LET node == Len(nodes) + 1
  IN /\ nodes' = Append(IF head = NULL THEN nodes ELSE Link(node),
                        [x |-> x, next |-> NULL])
     /\ head' = IF head = NULL THEN node ELSE head
     /\ tail' = head'

AddElement(x) ==
  LET node == Len(nodes) + 1
  IN /\ nodes' = Append(IF head = NULL THEN nodes ELSE Link(node),
                        [x |-> x, next |-> NULL])
     /\ head' = IF head = NULL THEN node ELSE head
     /\ tail' = node
\* malloc returns NULL, and the number is written there.
Add(x) ==
  /\ IF Len(nodes) < Memory
     THEN AddElement(x) /\ given' = Append(given, x) /\ UNCHANGED stage
     ELSE stage' = "crashed" /\ UNCHANGED <<nodes, head, tail, given>>
  /\ UNCHANGED <<task, curr, out>>

\* A number of the input, or of the array that a list is built from.
Number(x) == stage = "read" /\ num' = x /\ Add(x)
\* scanf returns 0 for what is no number, leaves it in the input and num as it
\* was: the loop goes on with the number it has.
Garbage ==
  /\ stage = "read" /\ task = "figures"
  /\ stage' = "stuck"
  /\ UNCHANGED <<task, nodes, head, tail, num, curr, out, given>>
Again == stage = "stuck" /\ Add(num) /\ UNCHANGED num
EndOfInput ==
  /\ stage = "read"
  /\ stage' = IF task = "figures" THEN "print" ELSE "copy"
  /\ curr' = head
  /\ UNCHANGED <<task, nodes, head, tail, num, out, given>>

\* The nodes from an address on, in the order of their links.
From(address) ==
  LET walk[a \in 0..Len(nodes)] ==
        IF a = NULL THEN <<>> ELSE <<a>> \o walk[nodes[a].next]
  IN walk[address]
Before ==
  LET path == From(head)
  IN SubSeq(path, 1, SelectInSeq(path, LAMBDA a : a = curr) - 1)
Same(a) == nodes[a].x = nodes[curr].x
Meets ==
  LET path == From(head) IN Cardinality({i \in DOMAIN path : Same(path[i])})
Meeted == \E i \in DOMAIN Before : Same(Before[i])

\* One turn of the outer loop of print_meet_three_times.
PrintMeet ==
  /\ stage = "print" /\ curr # NULL
  /\ out' = IF Meets = 3 /\ ~Meeted THEN Append(out, nodes[curr].x) ELSE out
  /\ curr' = nodes[curr].next
  /\ UNCHANGED <<task, stage, nodes, head, tail, num, given>>
\* build_arr; the count of the elements is the size of the array.
CountElements == Len(From(head))
CopyNext ==
  /\ stage = "copy" /\ curr # NULL /\ Len(out) < CountElements
  /\ out' = Append(out, nodes[curr].x)
  /\ curr' = nodes[curr].next
  /\ UNCHANGED <<task, stage, nodes, head, tail, num, given>>
\* malloc of the array returns NULL, and the first number is written there.
NoArray ==
  /\ stage = "copy" /\ curr # NULL /\ out = <<>>
  /\ stage' = "crashed"
  /\ UNCHANGED <<task, nodes, head, tail, num, curr, out, given>>
End ==
  /\ stage \in {"print", "copy"} /\ curr = NULL
  /\ stage' = "done"
  /\ UNCHANGED <<task, nodes, head, tail, num, curr, out, given>>

Next == \/ \E x \in Numbers : Number(x)
        \/ Garbage \/ Again \/ EndOfInput \/ PrintMeet \/ CopyNext
        \/ NoArray \/ End
Spec == Init /\ [][Next]_listVars

-----------------------------------------------------------------------------
TypeOK ==
  /\ stage \in {"read", "stuck", "print", "copy", "done", "crashed"}
  /\ Len(nodes) <= Memory /\ Len(given) = Len(nodes)
  /\ {head, tail, curr} \subseteq 0..Len(nodes)
  /\ num \in Numbers \union {Junk}

FirstPlaces(s) == {i \in DOMAIN s : \A j \in 1..i - 1 : s[j] # s[i]}
Times(x, s) == Cardinality({i \in DOMAIN s : s[i] = x})
(* Through the nodes and links of the heap: every number given exactly three *)
(* times is printed once, in the order in which they first occur, and no     *)
(* other; an array comes back from its list as it was                        *)
(* (print_figures_that_meet_three_times.c:35-118,                            *)
(* build_list_and_array.c:31-79).                                            *)
ListsAreRight ==
  stage = "done" =>
    IF task = "arrays" THEN out = given
    ELSE /\ ToSet(out) = {x \in ToSet(given) : Times(x, given) = 3}
         /\ \A i, j \in DOMAIN out : i < j =>
              \E a, b \in FirstPlaces(given) :
                given[a] = out[i] /\ given[b] = out[j] /\ a < b
================================================================================
