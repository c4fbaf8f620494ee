------------------------------ MODULE BsdTailq ------------------------------
(***************************************************************************)
(* The tail queues of src/bsd_queue.h, pointer by pointer, as the arrays of *)
(* pillowtalk use them.  A queue is singly linked, but an element also has  *)
(* the address of the pointer that points to it, and the head the address   *)
(* of the pointer at the end, so that neither an append nor a removal walks *)
(* the queue.                                                               *)
(*                                                                          *)
(* Those addresses are the slots: that of an array is its tqh_first, that   *)
(* of an element its tqe_next, and at[s] is what is in the pointer at s.    *)
(* The walk of pt_array_remove and the loop of free_array_node are made     *)
(* step by step.                                                            *)
(***************************************************************************)
EXTENDS Naturals, Sequences, SequencesExt

CONSTANTS
  Array,       \* addresses of pt_array_t
  Elem,        \* addresses of pt_array_elem_t
  Node, NULL,
  JUNK         \* what is in memory that was not written, or was freed

ASSUME TailqAssumption ==
  /\ Array \cap Elem = {}
  /\ {NULL, JUNK} \cap (Array \cup Elem \cup Node) = {}
  /\ NULL # JUNK
  /\ NULL \notin [array : Array, node : Node, cur : Elem \cup {NULL, JUNK}]
  /\ NULL \notin [array : Array, node : Node]

Slot == Array \cup Elem

VARIABLES
  arrays,  \* the arrays that are allocated
  at,      \* tqh_first of each array, tqe_next of each element
  last,    \* tqh_last of each array
  prev,    \* tqe_prev of each element
  node,    \* pt_array_elem_t.node; NULL if the element is not allocated
  walk,    \* pt_array_remove at work: [array, node, cur], or NULL
  dying,   \* the arrays pt_free_node is at work on, innermost first
  order    \* history: for each array the elements put in and not taken out

mem == <<arrays, at, last, prev, node, order>>
vars == <<mem, walk, dying>>

Idle == walk = NULL /\ dying = <<>>

----------------------------------------------------------------------------
(* a mutant: no TAILQ_INIT, and calloc has only cleared tqh_first *)
ArrayNewBare(a) ==
  /\ Idle /\ a \notin arrays
  /\ arrays' = arrays \cup {a}
  /\ at' = [at EXCEPT ![a] = NULL]
  /\ UNCHANGED <<last, prev, node, order, walk, dying>>

(* pt_array_new, json_start_array: TAILQ_INIT *)
ArrayNew(a) ==
  /\ Idle /\ a \notin arrays
  /\ arrays' = arrays \cup {a}
  /\ at' = [at EXCEPT ![a] = NULL]
  /\ last' = [last EXCEPT ![a] = a]
  /\ UNCHANGED <<prev, node, order, walk, dying>>

(* malloc of an element to hold x *)
NewElem(e, x) ==
  /\ Idle /\ node[e] = NULL
  /\ node' = [node EXCEPT ![e] = x]
  /\ UNCHANGED <<arrays, walk, dying>>

(* a mutant: the element that was first keeps the address of tqh_first *)
TailqInsertHeadOneWay(a, e) ==
  /\ at' = [at EXCEPT ![e] = at[a], ![a] = e]
  /\ prev' = [prev EXCEPT ![e] = a]
  /\ last' = IF at[a] = NULL THEN [last EXCEPT ![a] = e] ELSE last

(* TAILQ_INSERT_HEAD *)
TailqInsertHead(a, e) ==
  LET f == at[a]
  IN  /\ at' = [at EXCEPT ![e] = f, ![a] = e]
      /\ IF f # NULL
         THEN prev' = [prev EXCEPT ![f] = e, ![e] = a] /\ UNCHANGED last
         ELSE prev' = [prev EXCEPT ![e] = a] /\ last' = [last EXCEPT ![a] = e]

(* a mutant: tqh_last stays, and the next element is put over this one *)
TailqInsertTailOver(a, e) ==
  /\ at' = [at EXCEPT ![e] = NULL, ![last[a]] = e]
  /\ prev' = [prev EXCEPT ![e] = last[a]]
  /\ UNCHANGED last

(* TAILQ_INSERT_TAIL *)
TailqInsertTail(a, e) ==
  /\ at' = [at EXCEPT ![e] = NULL, ![last[a]] = e]
  /\ prev' = [prev EXCEPT ![e] = last[a]]
  /\ last' = [last EXCEPT ![a] = e]

PushFront(a, e, x) ==
  /\ NewElem(e, x)
  /\ TailqInsertHead(a, e)
  /\ order' = [order EXCEPT ![a] = <<e>> \o @]

(* pt_array_push_back, and the parser's add_node_to_context_container *)
PushBack(a, e, x) ==
  /\ NewElem(e, x)
  /\ TailqInsertTail(a, e)
  /\ order' = [order EXCEPT ![a] = Append(@, e)]

Unlink(s, e) == RemoveAt(s, CHOOSE i \in DOMAIN s : s[i] = e)

(* TAILQ_REMOVE, and the free of the element, which comes after its node's *)
TailqRemove(a, e) ==
  /\ IF at[e] # NULL
     THEN prev' = [prev EXCEPT ![at[e]] = prev[e], ![e] = JUNK] /\ UNCHANGED last
     ELSE prev' = [prev EXCEPT ![e] = JUNK] /\ last' = [last EXCEPT ![a] = prev[e]]
  /\ at' = [at EXCEPT ![prev[e]] = at[e], ![e] = JUNK]
  /\ node' = [node EXCEPT ![e] = NULL]
  /\ order' = [order EXCEPT ![a] = Unlink(@, e)]
  /\ UNCHANGED arrays

----------------------------------------------------------------------------
(* pt_array_remove: TAILQ_FOREACH_SAFE up to the first that holds the node *)

RemoveBegin(a, x) ==
  /\ Idle
  /\ walk' = [array |-> a, node |-> x, cur |-> at[a]]
  /\ UNCHANGED <<mem, dying>>

RemoveNext ==
  /\ walk # NULL /\ walk.cur # NULL
  /\ node[walk.cur] # walk.node
  /\ walk' = [walk EXCEPT !.cur = at[@]]
  /\ UNCHANGED <<mem, dying>>

(* a mutant: TAILQ_REMOVE of TAILQ_FIRST, not of the element that was found *)
RemoveFoundHead ==
  /\ walk # NULL /\ walk.cur # NULL
  /\ node[walk.cur] = walk.node
  /\ TailqRemove(walk.array, at[walk.array])
  /\ walk' = NULL
  /\ UNCHANGED dying

RemoveFound ==
  /\ walk # NULL /\ walk.cur # NULL
  /\ node[walk.cur] = walk.node
  /\ TailqRemove(walk.array, walk.cur)
  /\ walk' = NULL
  /\ UNCHANGED dying

RemoveNone ==
  /\ walk # NULL /\ walk.cur = NULL
  /\ walk' = NULL
  /\ UNCHANGED <<mem, dying>>

(* pt_free_node of an array: called by the program, or from below for a node
   that was just taken out.  That one is any array not yet being freed.      *)
FreeBegin(a) ==
  /\ walk = NULL
  /\ a \in arrays /\ \A i \in DOMAIN dying : dying[i] # a
  /\ dying' = <<a>> \o dying
  /\ UNCHANGED <<mem, walk>>

(* free_array_node: the first element goes, as long as there is one *)
FreeElem ==
  /\ dying # <<>> /\ at[Head(dying)] # NULL
  /\ TailqRemove(Head(dying), at[Head(dying)])
  /\ UNCHANGED <<walk, dying>>

FreeArray ==
  /\ dying # <<>> /\ at[Head(dying)] = NULL
  /\ arrays' = arrays \ {Head(dying)}
  /\ at' = [at EXCEPT ![Head(dying)] = JUNK]
  /\ last' = [last EXCEPT ![Head(dying)] = JUNK]
  /\ dying' = Tail(dying)
  /\ UNCHANGED <<prev, node, order, walk>>

----------------------------------------------------------------------------

Init ==
  /\ arrays = {}
  /\ at = [s \in Slot |-> JUNK]
  /\ last = [a \in Array |-> JUNK]
  /\ prev = [e \in Elem |-> JUNK]
  /\ node = [e \in Elem |-> NULL]
  /\ walk = NULL /\ dying = <<>>
  /\ order = [a \in Array |-> <<>>]

Next ==
  \/ \E a \in Array : ArrayNew(a)
  \/ \E a \in arrays :
       \/ \E e \in Elem, x \in Node : PushFront(a, e, x) \/ PushBack(a, e, x)
       \/ \E x \in Node : RemoveBegin(a, x)
       \/ FreeBegin(a)
  \/ RemoveNext \/ RemoveFound \/ RemoveNone
  \/ FreeElem \/ FreeArray

Spec == Init /\ [][Next]_vars

----------------------------------------------------------------------------
(* Memory that is allocated holds what was written there: nothing the macros
   follow is left over from an earlier use of the block.                      *)
TailqTypeOK ==
  /\ arrays \subseteq Array
  /\ at \in [Slot -> Elem \cup {NULL, JUNK}]
  /\ last \in [Array -> Slot \cup {JUNK}]
  /\ prev \in [Elem -> Slot \cup {JUNK}]
  /\ node \in [Elem -> Node \cup {NULL}]
  /\ order \in [Array -> Seq(Elem)]
  /\ walk = NULL \/ walk \in [array : Array, node : Node, cur : Elem \cup {NULL}]
  /\ dying \in Seq(Array)
  /\ \A a \in arrays : at[a] # JUNK /\ last[a] # JUNK
  /\ \A e \in Elem : node[e] # NULL => at[e] # JUNK /\ prev[e] # JUNK

(* The four checks before which bsd_queue.h would panic in a kernel built with
   INVARIANTS, and which are not in this build: QMD_TAILQ_CHECK_HEAD, _TAIL,
   _NEXT, _PREV.  They hold of every array and element at any time.          *)
CheckHead(a) == at[a] # NULL => prev[at[a]] = a
CheckTail(a) == at[last[a]] = NULL
CheckNext(e) == at[e] # NULL => prev[at[e]] = e
CheckPrev(e) == at[prev[e]] = e

QmdChecks ==
  /\ \A a \in arrays : CheckHead(a) /\ CheckTail(a)
  /\ \A e \in Elem : node[e] # NULL => CheckNext(e) /\ CheckPrev(e)

(* A walk along next from the head of an array, by pt_array_get, an iterator,
   the generator or pt_clone, meets what was put in and not taken out, in the
   order it was put in, and ends there; tqh_last is where the walk ends.      *)
SlotAt(a, s, i) == IF i = 0 THEN a ELSE s[i]

WalkIsOrder ==
  \A a \in arrays :
    /\ \A i \in DOMAIN order[a] : at[SlotAt(a, order[a], i - 1)] = order[a][i]
    /\ last[a] = SlotAt(a, order[a], Len(order[a]))
    /\ at[last[a]] = NULL

(* The queues keep their promise, and so pt_array_remove takes out the first
   element that holds the node it is called with, from wherever it is, and
   comes back without only when there is none; the loops of frees within
   frees take from the innermost array alone.                                *)
Queues == [a \in arrays |-> order[a]]
Asked == IF walk = NULL THEN NULL ELSE [array |-> walk.array, node |-> walk.node]
Promise == INSTANCE PtQueue WITH order <- Queues, asked <- Asked
KeepsPromise == Promise!Spec
=============================================================================
