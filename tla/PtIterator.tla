----------------------------- MODULE PtIterator -----------------------------
(***************************************************************************)
(* A program that walks a container with pt_iterator and pt_iterator_next,  *)
(* and goes on working on its documents meanwhile.  An iterator is no more  *)
(* than a pointer to the cell that the next call will give back, so it is   *)
(* the program that has to keep that cell in place.                         *)
(***************************************************************************)
EXTENDS PtDocument

VARIABLES
  iter,    \* the iterator, a record [node, next], or NULL
  begun,   \* the cells the container had at pt_iterator and has had since
  given,   \* those given back that it still has
  came,    \* the order they came in: the pairs <<earlier, later>> of them
  good     \* the memory iter points to was not freed meanwhile

iterVars == <<iter, begun, given, came, good>>
allVars == <<vars, iterVars>>

(* pt_iterator_impl_t, without its type, which is the type of the node *)
Iterator == [node : Node, next : Cell \cup {NULL}]

Walking == iter # NULL
Walked == heap.chain[iter.node]

(* a mutant: TAILQ_LAST *)
FirstIsLast(s) == IF s = <<>> THEN NULL ELSE Last(s)

First(s) == IF s = <<>> THEN NULL ELSE Head(s)

(* TAILQ_NEXT, hh.next *)
NextCell(s, c) ==
  LET i == CHOOSE j \in DOMAIN s : s[j] = c
  IN  IF i < Len(s) THEN s[i + 1] ELSE NULL

----------------------------------------------------------------------------

(* pt_iterator of a map or array; of any other node it returns NULL *)
PtIterator(n) ==
  /\ ClientTurn /\ ~Walking
  /\ heap.type[n] \in Container
  /\ iter' = [node |-> n, next |-> First(heap.chain[n])]
  /\ begun' = Cells(heap, n)
  /\ given' = {} /\ came' = {}
  /\ good' = TRUE
  /\ UNCHANGED vars

(* what pt_iterator_next returns *)
NextValue == IF iter.next = NULL THEN NULL ELSE heap.val[iter.next]

(* a mutant: it stays on the cell it gives back, and moves on from there in
   the next call                                                           *)
PtIteratorNextLazy ==
  /\ ClientTurn /\ Walking /\ good
  /\ IF iter.next = NULL
     THEN UNCHANGED iterVars
     ELSE LET c == IF iter.next \in given
                   THEN NextCell(Walked, iter.next) ELSE iter.next
          IN  /\ iter' = [iter EXCEPT !.next = c]
              /\ given' = given \cup ({c} \ {NULL})
              /\ came' = came \cup (given \X ({c} \ {NULL}))
              /\ UNCHANGED <<begun, good>>
  /\ UNCHANGED vars

PtIteratorNext ==
  /\ ClientTurn /\ Walking /\ good
  /\ IF iter.next = NULL
     THEN UNCHANGED iterVars
     ELSE /\ iter' = [iter EXCEPT !.next = NextCell(Walked, iter.next)]
          /\ given' = given \cup {iter.next}
          /\ came' = came \cup (given \X {iter.next})
          /\ UNCHANGED <<begun, good>>
  /\ UNCHANGED vars

(* free(iter), and the program forgets it *)
FreeIterator ==
  /\ ClientTurn /\ Walking
  /\ iter' = NULL
  /\ begun' = {}
  /\ given' = {} /\ came' = {}
  /\ good' = TRUE
  /\ UNCHANGED vars

(* A step on the documents.  It leaves the iterator alone; whether that is
   still of use depends on what the step freed.                            *)
Meanwhile ==
  /\ Next
  /\ UNCHANGED iter
  /\ LET left == IF Walking THEN Cells(heap', iter.node) ELSE {}
     IN  /\ begun' = begun \cap left
         /\ given' = given \cap left
         /\ came' = came \cap (left \X left)
         /\ good' = (good /\ (Walking => iter.next \in left \cup {NULL}))

InitIter ==
  /\ Init
  /\ iter = NULL /\ begun = {} /\ given = {} /\ came = {} /\ good = TRUE

NextIter ==
  \/ \E n \in Live(heap) : PtIterator(n)
  \/ PtIteratorNext
  \/ FreeIterator
  \/ Meanwhile

SpecIter == InitIter /\ [][NextIter]_allVars

----------------------------------------------------------------------------
(* the types, which the proofs of what follows use *)
IterTypeOK ==
  /\ iter \in Iterator \cup {NULL}
  /\ begun \subseteq Cell
  /\ given \subseteq Cell /\ came \subseteq given \X given
  /\ good \in BOOLEAN

(* the cells the iterator has yet to give back, as things stand *)
Ahead ==
  IF iter.next = NULL THEN {}
  ELSE {Walked[i] : i \in {j \in DOMAIN Walked :
          \E k \in 1..j : Walked[k] = iter.next}}

(* While the cell it points to stays, a walk misses nothing and repeats
   nothing, whatever is pushed, set or removed at the same time: what was in
   the container from the start was given back or is ahead, and what was
   given back is not ahead.                                                 *)
WalkIsExact ==
  Walking /\ good =>
    /\ begun \subseteq given \cup Ahead
    /\ given \cap Ahead = {}

(* A walk goes in the order of the container, also when that changes under
   it: of two cells given back, the one that came first is in front.       *)
WalkKeepsOrder ==
  Walking => \A k, l \in DOMAIN Walked : <<Walked[k], Walked[l]>> \in came => k < l

(* A program may take out what it was given and go on: pt_array_remove of the
   element, or pt_map_unset of the key when the map has it only once, leaves
   the iterator good.                                                        *)
GivenMayGo ==
  [][\A c \in given :
       /\ Walking /\ good
       /\ \/ PtArrayRemove(iter.node, heap.val[c])
          \/ /\ UniqueKeys(heap, iter.node) /\ heap.key[c] \in CKey
             /\ PtMapUnset(iter.node, heap.key[c])
       => good']_allVars

----------------------------------------------------------------------------
(* pillowtalk.h says that pt_iterator_next returns "NULL when complete", and
   the loops in the tests stop there.  It also returns NULL in the middle of
   a walk: for an element pushed as NULL, or a pair whose value never came.  *)
NullMeansComplete ==
  [][PtIteratorNext /\ NextValue = NULL => (Ahead = {})']_allVars

=============================================================================
