------------------------------- MODULE PtHeap -------------------------------
(***************************************************************************)
(* The heap that pillowtalk's documents live in, and what the node routines *)
(* of src/pillowtalk_impl.c do to it.  A heap is one record value, and each *)
(* routine is a function from heaps to heaps, so that a call of the library *)
(* is the composition of the routines it calls.                             *)
(*                                                                          *)
(* Three kinds of allocation are told apart, since each has its own free:   *)
(*   Node   a pt_node_t "subclass": a pt_map_t, pt_array_t, ...             *)
(*   Cell   what hangs a value in a container: a pt_key_value_t of a map or *)
(*          a pt_array_elem_t of an array                                   *)
(*   text   the strdup'ed buffer of a string node, or of a map cell's key   *)
(* A container's cells are the sequence h.chain[n]: the application order   *)
(* of the map's hash table, the tail queue of the array.                    *)
(***************************************************************************)
EXTENDS Naturals, Sequences, SequencesExt

CONSTANTS
  Node,   \* addresses of nodes
  Cell,   \* addresses of key-value cells and array elements
  Key,    \* map keys, as byte strings with a length
  CKey,   \* those with no NUL byte: the keys a char* argument can name
  NULL

ASSUME AddressAssumption ==
  /\ NULL \notin Node \cup Cell \cup Key
  /\ Node \cap Cell = {}
  /\ CKey \subseteq Key

(* The null, boolean, integer and double nodes have one shape on the heap,
   and are one type here: "SCALAR".                                        *)
NodeType == {"MAP", "ARRAY", "STRING", "SCALAR"}
Container == {"MAP", "ARRAY"}

Heap == [ type  : [Node -> NodeType \cup {"FREE"}],
          chain : [Node -> Seq(Cell)],          \* key_values, or the TAILQ
          len   : [Node -> Nat],                \* pt_array_t.len
          cells : SUBSET Cell,                  \* the allocated cells
          key   : [Cell -> Key \cup {NULL}],
          val   : [Cell -> Node \cup {NULL}],   \* pt_key_value_t.value, pt_array_elem_t.node
          text  : SUBSET (Node \cup Cell) ]     \* owners of an allocated buffer

EmptyHeap ==
  [ type  |-> [n \in Node |-> "FREE"],
    chain |-> [n \in Node |-> <<>>],
    len   |-> [n \in Node |-> 0],
    cells |-> {},
    key   |-> [c \in Cell |-> NULL],
    val   |-> [c \in Cell |-> NULL],
    text  |-> {} ]

----------------------------------------------------------------------------
(* Reading a heap *)

Live(h) == {n \in Node : h.type[n] # "FREE"}
FreshNodes(h) == Node \ Live(h)
FreshCells(h) == Cell \ h.cells

Cells(h, n) == ToSet(h.chain[n])
Kids(h, n) == {h.val[c] : c \in Cells(h, n)} \ {NULL}

(* The nodes of the document under n, n included: the least set that holds n
   and, with a container, the nodes in its cells.                          *)
Closed(h, S) == \A x \in S : Kids(h, x) \subseteq S
Tree(h, n) ==
  LET Around == {S \in SUBSET Node : n \in S /\ Closed(h, S)}
  IN  {x \in Node : \A S \in Around : x \in S}

TreeCells(h, n) == UNION {Cells(h, x) : x \in Tree(h, n)}

(* The cells HASH_FIND may return for key k.  Keys parsed from JSON are not
   looked up before they are added, so there can be several: which of them
   is found first depends on the order within the hash bucket, which every
   expansion of the table reverses.                                        *)
Matches(h, m, k) == {c \in Cells(h, m) : h.key[c] = k}

(* the cell at which TAILQ_FOREACH over array a first meets node x *)
FirstHolding(h, a, x, c) ==
  \E i \in DOMAIN h.chain[a] :
    /\ h.chain[a][i] = c /\ h.val[c] = x
    /\ \A j \in 1..(i-1) : h.val[h.chain[a][j]] # x

----------------------------------------------------------------------------
(* Changing a heap.  malloc and calloc are taken to succeed, as the code
   takes them to; n and c are the addresses they return.                   *)

NewNode(h, n, t) ==
  [h EXCEPT !.type[n] = t,
            !.text = IF t = "STRING" THEN @ \cup {n} ELSE @]

(* a pt_key_value_t with its own copy of the key, at the end of the map *)
AddPair(h, m, c, k) ==
  [h EXCEPT !.chain[m] = Append(@, c),
            !.cells = @ \cup {c},
            !.key[c] = k,
            !.text = @ \cup {c}]

AddElemBack(h, a, c) ==
  [h EXCEPT !.chain[a] = Append(@, c),
            !.cells = @ \cup {c},
            !.len[a] = @ + 1]

AddElemFront(h, a, c) ==
  [h EXCEPT !.chain[a] = <<c>> \o @,
            !.cells = @ \cup {c},
            !.len[a] = @ + 1]

SetVal(h, c, v) == [h EXCEPT !.val[c] = v]

(* a mutant: the last one fills the hole *)
UnlinkSwap(s, c) ==
  [i \in 1..(Len(s) - 1) |-> IF s[i] = c THEN s[Len(s)] ELSE s[i]]

Unlink(s, c) == RemoveAt(s, CHOOSE i \in DOMAIN s : s[i] = c)

(* a mutant: no HASH_DEL *)
DropPairLinked(h, m, c) ==
  [h EXCEPT !.cells = @ \ {c}, !.key[c] = NULL, !.val[c] = NULL, !.text = @ \ {c}]

(* HASH_DEL, then free of the key and of the cell *)
DropPair(h, m, c) ==
  [h EXCEPT !.chain[m] = Unlink(@, c),
            !.cells = @ \ {c},
            !.key[c] = NULL,
            !.val[c] = NULL,
            !.text = @ \ {c}]

(* a mutant: len is left as it was *)
DropElemUncounted(h, a, c) ==
  [h EXCEPT !.chain[a] = Unlink(@, c), !.cells = @ \ {c}, !.val[c] = NULL]

(* TAILQ_REMOVE, then free of the element *)
DropElem(h, a, c) ==
  [h EXCEPT !.chain[a] = Unlink(@, c),
            !.cells = @ \ {c},
            !.val[c] = NULL,
            !.len[a] = @ - 1]

FreeTree(h, n) ==
  LET N == Tree(h, n)
      C == TreeCells(h, n)
  IN  [ type  |-> [x \in Node |-> IF x \in N THEN "FREE" ELSE h.type[x]],
        chain |-> [x \in Node |-> IF x \in N THEN <<>> ELSE h.chain[x]],
        len   |-> [x \in Node |-> IF x \in N THEN 0 ELSE h.len[x]],
        cells |-> h.cells \ C,
        key   |-> [c \in Cell |-> IF c \in C THEN NULL ELSE h.key[c]],
        val   |-> [c \in Cell |-> IF c \in C THEN NULL ELSE h.val[c]],
        text  |-> h.text \ (N \cup C) ]

(* pt_free_node with its recursion: every node of the document, every cell
   that hangs a node in it and every buffer.                               *)
FreeNode(h, n) == IF n = NULL THEN h ELSE FreeTree(h, n)

(* Take the node out of cell c and free it.  The slot is cleared first, so
   that the heap in between has no pointer to a freed node.                *)
FreeVal(h, c) == FreeNode(SetVal(h, c, NULL), h.val[c])

----------------------------------------------------------------------------
(* What makes a heap well formed, relative to the set R of nodes that are
   owned from outside: by the program, or by a parse in progress.          *)

(* A cell that is not allocated is kept blank: calloc gives a blank pair. *)
HeapTypeOK(h) ==
  /\ h \in Heap
  /\ \A c \in Cell \ h.cells : h.key[c] = NULL /\ h.val[c] = NULL

(* Nothing on the heap points to freed memory, and only containers hold
   cells.                                                                  *)
NoDangling(h) ==
  /\ \A n \in Node : Cells(h, n) \subseteq h.cells
  /\ \A n \in Node : h.chain[n] # <<>> => h.type[n] \in Container
  /\ \A c \in h.cells : h.val[c] \in Live(h) \cup {NULL}

(* Every cell is linked in one place, and a node has one owner, a cell or
   the outside: so a recursive free meets each allocation once.            *)
OneOwner(h, R) ==
  /\ \A n \in Node : IsInjective(h.chain[n])
  /\ \A n, m \in Node : n # m => Cells(h, n) \cap Cells(h, m) = {}
  /\ \A c, d \in h.cells : h.val[c] = h.val[d] /\ h.val[c] # NULL => c = d
  /\ \A c \in h.cells : h.val[c] \notin R
  /\ R \subseteq Live(h)

(* Every live node is in the document of one of R: whatever closed set holds
   R holds them all.                                                       *)
Reached(h, R) ==
  \A S \in SUBSET Node : R \subseteq S /\ Closed(h, S) => Live(h) \subseteq S

(* Every allocation can be reached, and so freed, from an owner. *)
NoLeak(h, R) ==
  /\ Reached(h, R)
  /\ \A c \in h.cells : \E n \in Node : c \in Cells(h, n)
  /\ h.text = {n \in Node : h.type[n] = "STRING"}
              \cup {c \in h.cells : h.key[c] # NULL}

(* pt_array_t.len counts the elements of the queue, and a cell has a key
   exactly when a map holds it.                                            *)
ShapeOK(h) ==
  \A n \in Node :
    /\ h.len[n] = IF h.type[n] = "ARRAY" THEN Len(h.chain[n]) ELSE 0
    /\ \A c \in Cells(h, n) : h.key[c] = NULL <=> h.type[n] = "ARRAY"

WellFormed(h, R) ==
  HeapTypeOK(h) /\ NoDangling(h) /\ OneOwner(h, R) /\ NoLeak(h, R) /\ ShapeOK(h)

=============================================================================
