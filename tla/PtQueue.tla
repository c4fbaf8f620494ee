------------------------------ MODULE PtQueue ------------------------------
(***************************************************************************)
(* What the tail queue of an array promises to pillowtalk: the elements in  *)
(* the order PtHeap has in h.chain, whichever end they were put in at and   *)
(* wherever they are taken out.                                             *)
(***************************************************************************)
EXTENDS Naturals, Sequences, SequencesExt

CONSTANTS Array, Elem, Node, NULL

VARIABLES
  order,   \* for each array that there is, its elements
  node,    \* for each element the node it holds; NULL if it is in no array
  asked,   \* the pt_array_remove at work: [array, node], or NULL
  dying    \* the arrays that are being freed, the innermost first

queueVars == <<order, node, asked, dying>>

Init ==
  /\ order = <<>> /\ node = [e \in Elem |-> NULL]
  /\ asked = NULL /\ dying = <<>>

Idle == asked = NULL /\ dying = <<>>

New(a) ==
  /\ Idle /\ a \notin DOMAIN order
  /\ order' = [b \in DOMAIN order \cup {a} |-> IF b = a THEN <<>> ELSE order[b]]
  /\ UNCHANGED <<node, asked, dying>>

Push(a, e, x) ==
  /\ Idle /\ \A b \in DOMAIN order : e \notin ToSet(order[b])
  /\ \/ order' = [order EXCEPT ![a] = <<e>> \o @]
     \/ order' = [order EXCEPT ![a] = Append(@, e)]
  /\ node' = [node EXCEPT ![e] = x]
  /\ UNCHANGED <<asked, dying>>

TakeOut(a, i) ==
  /\ order' = [order EXCEPT ![a] = RemoveAt(@, i)]
  /\ node' = [node EXCEPT ![order[a][i]] = NULL]

(* pt_array_remove takes out the first element that holds the node it is
   called with, or, when there is none, nothing                              *)
Ask(a, x) ==
  /\ Idle
  /\ asked' = [array |-> a, node |-> x]
  /\ UNCHANGED <<order, node, dying>>

Holds(i) == node[order[asked.array][i]] = asked.node

TakeOutFirst ==
  /\ asked # NULL /\ asked' = NULL
  /\ \E i \in DOMAIN order[asked.array] :
       /\ Holds(i) /\ \A j \in 1..(i - 1) : ~Holds(j)
       /\ TakeOut(asked.array, i)
  /\ UNCHANGED dying

NotThere ==
  /\ asked # NULL /\ asked' = NULL
  /\ \A i \in DOMAIN order[asked.array] : ~Holds(i)
  /\ UNCHANGED <<order, node, dying>>

(* pt_free_node: an array that is not yet being freed, by the program or from
   below                                                                      *)
FreeBegin(a) ==
  /\ asked = NULL /\ a \notin ToSet(dying)
  /\ dying' = <<a>> \o dying
  /\ UNCHANGED <<order, node, asked>>

(* free_array_node: the innermost goes from its front, and then itself *)
Drain(a) ==
  /\ dying # <<>> /\ a = Head(dying)
  /\ order[a] # <<>> /\ TakeOut(a, 1)
  /\ UNCHANGED <<asked, dying>>

Gone(a) ==
  /\ dying # <<>> /\ a = Head(dying)
  /\ order[a] = <<>>
  /\ order' = [b \in DOMAIN order \ {a} |-> order[b]]
  /\ dying' = Tail(dying)
  /\ UNCHANGED <<node, asked>>

Next ==
  \/ \E a \in Array : New(a)
  \/ \E a \in DOMAIN order :
       \/ \E e \in Elem, x \in Node : Push(a, e, x)
       \/ \E x \in Node : Ask(a, x)
       \/ FreeBegin(a) \/ Drain(a) \/ Gone(a)
  \/ TakeOutFirst \/ NotThere

Spec == Init /\ [][Next]_queueVars
=============================================================================
