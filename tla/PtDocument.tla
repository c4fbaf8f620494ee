----------------------------- MODULE PtDocument -----------------------------
(***************************************************************************)
(* A program that works on documents through the node functions declared in *)
(* src/pillowtalk.h, and the parse that pt_from_json and the HTTP calls do  *)
(* for it.  Each node function is one action.                               *)
(*                                                                          *)
(* held is the program's side of the contract of the interface: the nodes it *)
(* was given by a constructor or a parse and must free or give away.  It     *)
(* gives a node away at most once, only if it holds it, and not into the     *)
(* node's own document; the tests and the example keep to that.             *)
(***************************************************************************)
EXTENDS PtParser

VARIABLE held

vars == <<heap, held, root, stack, gram>>

ClientTurn == ~Parsing
Roots == held \cup ({root} \ {NULL})

(* the values the program may pass to be put into container p *)
Givable(p) == {NULL} \cup {v \in held : p \notin Tree(heap, v)}

----------------------------------------------------------------------------
(* The node functions *)

(* pt_map_new, pt_array_new, pt_string_new, pt_null_new, pt_bool_new,
   pt_integer_new, pt_double_new                                           *)
PtNew(n, t) ==
  /\ ClientTurn
  /\ heap' = NewNode(heap, n, t)
  /\ held' = held \cup {n}
  /\ UNCHANGED parserVars

(* pt_map_get: the values it may return *)
PtMapGet(h, m, k) ==
  IF h.type[m] = "MAP" /\ Matches(h, m, k) # {}
  THEN {h.val[c] : c \in Matches(h, m, k)}
  ELSE {NULL}

(* a mutant: the old value is not freed *)
MapReplaceLeaky(c, v) == heap' = SetVal(heap, c, v)

(* What is done for a key that is there, in the cell c that was found ... *)
MapReplace(c, v) == heap' = SetVal(FreeVal(heap, c), c, v)

(* ... and for a new one. *)
MapInsert(m, k, v) ==
  \E c \in FreshCells(heap) : heap' = SetVal(AddPair(heap, m, c, k), c, v)

(* a mutant: no look at the keys that are there *)
PtMapSetBlind(m, k, v) ==
  /\ ClientTurn
  /\ IF heap.type[m] = "MAP" /\ v # NULL
     THEN MapInsert(m, k, v) /\ held' = held \ {v}
     ELSE UNCHANGED <<heap, held>>
  /\ UNCHANGED parserVars

PtMapSet(m, k, v) ==
  /\ ClientTurn
  /\ IF heap.type[m] = "MAP" /\ v # NULL
     THEN /\ \/ \E c \in Matches(heap, m, k) : MapReplace(c, v)
             \/ Matches(heap, m, k) = {} /\ MapInsert(m, k, v)
          /\ held' = held \ {v}
     ELSE UNCHANGED <<heap, held>>
  /\ UNCHANGED parserVars

PtMapUnset(m, k) ==
  /\ ClientTurn
  /\ IF heap.type[m] = "MAP" /\ Matches(heap, m, k) # {}
     THEN \E c \in Matches(heap, m, k) : heap' = DropPair(FreeVal(heap, c), m, c)
     ELSE UNCHANGED heap
  /\ UNCHANGED <<held, parserVars>>

PtArrayPushFront(a, v) ==
  /\ ClientTurn
  /\ IF heap.type[a] = "ARRAY"
     THEN /\ \E c \in FreshCells(heap) :
               heap' = SetVal(AddElemFront(heap, a, c), c, v)
          /\ held' = held \ {v}
     ELSE UNCHANGED <<heap, held>>
  /\ UNCHANGED parserVars

(* a mutant: what is not taken is freed *)
PtArrayPushBackFreeing(a, v) ==
  /\ ClientTurn
  /\ IF heap.type[a] = "ARRAY"
     THEN /\ \E c \in FreshCells(heap) :
               heap' = SetVal(AddElemBack(heap, a, c), c, v)
          /\ held' = held \ {v}
     ELSE heap' = FreeNode(heap, v) /\ UNCHANGED held
  /\ UNCHANGED parserVars

PtArrayPushBack(a, v) ==
  /\ ClientTurn
  /\ IF heap.type[a] = "ARRAY"
     THEN /\ \E c \in FreshCells(heap) :
               heap' = SetVal(AddElemBack(heap, a, c), c, v)
          /\ held' = held \ {v}
     ELSE UNCHANGED <<heap, held>>
  /\ UNCHANGED parserVars

(* a mutant: len is counted down also when nothing was found *)
PtArrayRemoveCounted(a, x) ==
  /\ ClientTurn
  /\ heap.type[a] = "ARRAY"
  /\ IF \E c \in Cells(heap, a) : heap.val[c] = x
     THEN \E c \in Cells(heap, a) :
            /\ FirstHolding(heap, a, x, c)
            /\ heap' = DropElem(FreeVal(heap, c), a, c)
     ELSE heap' = [heap EXCEPT !.len[a] = @ - 1]
  /\ UNCHANGED <<held, parserVars>>

(* The first element that holds x goes, and x with it.  x is only compared,
   so it may be NULL, or a pointer to a node that is gone.                 *)
PtArrayRemove(a, x) ==
  /\ ClientTurn
  /\ IF heap.type[a] = "ARRAY" /\ \E c \in Cells(heap, a) : heap.val[c] = x
     THEN \E c \in Cells(heap, a) :
            /\ FirstHolding(heap, a, x, c)
            /\ heap' = DropElem(FreeVal(heap, c), a, c)
     ELSE UNCHANGED heap
  /\ UNCHANGED <<held, parserVars>>

PtFreeNode(n) ==
  /\ ClientTurn
  /\ heap' = FreeNode(heap, n)
  /\ held' = held \ {n}
  /\ UNCHANGED parserVars

----------------------------------------------------------------------------
(* pt_from_json: the parse runs to its end, then the root is the program's. *)

PtFromJson == ParseBegin /\ UNCHANGED held
PtCallback == Callback /\ UNCHANGED held
PtFromJsonReturn == ParseReturn /\ held' = Roots

----------------------------------------------------------------------------

Init ==
  /\ heap = EmptyHeap
  /\ held = {}
  /\ root = NULL
  /\ stack = <<>>
  /\ gram = <<>>

(* Calls the program makes; a node it passes as container is one it can
   reach, that is, any live node.                                          *)
ClientCall ==
  \/ \E n \in FreshNodes(heap), t \in NodeType : PtNew(n, t)
  \/ \E p \in Live(heap) :
       \/ \E k \in CKey : \/ \E v \in Givable(p) : PtMapSet(p, k, v)
                          \/ PtMapUnset(p, k)
       \/ \E v \in Givable(p) : PtArrayPushFront(p, v) \/ PtArrayPushBack(p, v)
       \/ \E x \in Node \cup {NULL} : PtArrayRemove(p, x)
  \/ \E n \in held : PtFreeNode(n)

Next == ClientCall \/ PtFromJson \/ PtCallback \/ PtFromJsonReturn

Spec == Init /\ [][Next]_vars

----------------------------------------------------------------------------
TypeOK ==
  /\ HeapTypeOK(heap)
  /\ held \subseteq Node
  /\ ParserTypeOK

(* Nothing that is allocated points to something that is not. *)
NoDanglingInv == NoDangling(heap)

(* Every node and cell has one owner: pt_free_node, which follows every
   pointer, frees nothing twice, and no document shares a part with another. *)
OneOwnerInv == OneOwner(heap, Roots)

(* Whatever is allocated is freed when the program frees what it holds: also
   what a parse that was cut short at any event has left.                  *)
NoLeakInv == NoLeak(heap, Roots)

(* pt_array_len and a walk of the queue agree after every sequence of
   pushes, removals and parses.                                            *)
ShapeInv == ShapeOK(heap)

(* A node pointer the program got from pt_map_get, pt_array_get or an
   iterator stays good until the slot of the node itself, or of a container
   it is in, is overwritten or removed, or the document is freed.           *)
BorrowedStaysLive ==
  [][\A n \in Live(heap) \ Live(heap') :
       \E a \in Node :
         /\ n \in Tree(heap, a)
         /\ \/ a \in held \ held'
            \/ \E c \in heap.cells :
                 heap.val[c] = a /\ (c \notin heap'.cells \/ heap'.val[c] # a)]_vars

(* Only a parse gives a map the same key twice. *)
UniqueKeys(h, m) ==
  \A c, d \in Cells(h, m) : h.key[c] = h.key[d] /\ h.key[c] # NULL => c = d

----------------------------------------------------------------------------
(* test_mutable_json: after pt_map_unset(map,"string"), pt_map_get(map,
   "string") is NULL.  It is not when the map was parsed from a text with the
   key in it twice: pt_map_unset takes one pair out.                        *)
UnsetForgets ==
  [][\A m \in Live(heap), k \in CKey :
       PtMapUnset(m, k) => PtMapGet(heap', m, k) = {NULL}]_vars

=============================================================================
