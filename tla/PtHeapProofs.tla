---------------------------- MODULE PtHeapProofs ----------------------------
(***************************************************************************)
(* What each heap routine of PtHeap does to a well-formed heap, for any     *)
(* number of nodes, cells and keys.  The lemmas named ...WellFormed are the *)
(* ones PtDocumentProofs composes; a node passes from the set R of owned    *)
(* nodes into a cell (AttachWellFormed) or back (DetachWellFormed), and the *)
(* recursive free takes an owned node with its whole document away          *)
(* (FreeTreeWellFormed).                                                    *)
(***************************************************************************)
EXTENDS PtHeap, SeqLemmas

----------------------------------------------------------------------------
(* TAILQ_REMOVE and HASH_DEL: just the one element goes. *)
LEMMA ToSetUnlink ==
  ASSUME NEW S, NEW s \in Seq(S), IsInjective(s), NEW e \in ToSet(s)
  PROVE  /\ Unlink(s, e) \in Seq(S)
         /\ Len(Unlink(s, e)) = Len(s) - 1
         /\ Len(s) > 0
         /\ ToSet(Unlink(s, e)) = ToSet(s) \ {e}
         /\ IsInjective(Unlink(s, e))
<1> DEFINE i == CHOOSE j \in DOMAIN s : s[j] = e
<1>1. i \in 1..Len(s) /\ s[i] = e
  BY ToSetDef, LenProperties
<1>2. Unlink(s, e) = RemoveAt(s, i)
  BY DEF Unlink
<1> HIDE DEF i
<1>3. /\ RemoveAt(s, i) \in Seq(S)
      /\ Len(RemoveAt(s, i)) = Len(s) - 1
      /\ Len(s) > 0
      /\ ToSet(RemoveAt(s, i)) = ToSet(s) \ {s[i]}
      /\ IsInjective(RemoveAt(s, i))
  BY <1>1, ToSetRemoveAt
<1>4. QED BY <1>1, <1>2, <1>3

----------------------------------------------------------------------------
(* Trees.  What is reached from R is stated with closed sets, as Tree is: the
   proofs then exhibit a closed set where they would walk a path.          *)

(* An empty chain has no cells. *)
LEMMA NoCells ==
  ASSUME NEW h, NEW n, h.chain[n] = <<>>
  PROVE  Cells(h, n) = {}
BY DEF Cells, ToSet

(* The cells and kids of a node are cells and nodes. *)
LEMMA KidsInNode ==
  ASSUME NEW h \in Heap, NEW x \in Node
  PROVE  /\ Cells(h, x) \subseteq Cell
         /\ Kids(h, x) \subseteq Node
<1>1. h.chain[x] \in Seq(Cell) /\ h.val \in [Cell -> Node \cup {NULL}]
  BY DEF Heap
<1>2. Cells(h, x) \subseteq Cell
  BY <1>1, ToSetDef DEF Cells
<1>3. QED BY <1>1, <1>2 DEF Kids

(* A document is the least closed set of nodes around its root. *)
LEMMA TreeFacts ==
  ASSUME NEW h \in Heap, NEW n \in Node
  PROVE  /\ Tree(h, n) \subseteq Node
         /\ n \in Tree(h, n)
         /\ Closed(h, Tree(h, n))
         /\ \A S \in SUBSET Node : n \in S /\ Closed(h, S) => Tree(h, n) \subseteq S
<1>1. Closed(h, Tree(h, n))
  BY KidsInNode DEF Closed, Tree
<1>2. QED BY <1>1 DEF Tree

(* A node of a document other than its root hangs in another node of it. *)
LEMMA ParentInTree ==
  ASSUME NEW h \in Heap, NEW n \in Node, NEW x \in Tree(h, n), x # n
  PROVE  \E p \in Tree(h, n) : x \in Kids(h, p)
<1> SUFFICES ASSUME \A p \in Tree(h, n) : x \notin Kids(h, p) PROVE FALSE
  OBVIOUS
<1> DEFINE S == Tree(h, n) \ {x}
<1>1. S \in SUBSET Node /\ n \in S
  BY TreeFacts
<1>2. Closed(h, S)
  BY TreeFacts DEF Closed
<1>3. Tree(h, n) \subseteq S
  BY <1>1, <1>2, TreeFacts
<1>4. QED BY <1>3

(* "Every live node is in the document of an owner", without Tree: whatever
   closed set holds the owners holds every live node. *)
LEMMA ReachedIff ==
  ASSUME NEW h \in Heap, NEW R \in SUBSET Node
  PROVE  Reached(h, R) <=> \A n \in Live(h) : \E r \in R : n \in Tree(h, r)
<1>1. ASSUME Reached(h, R), NEW n \in Live(h)
      PROVE  \E r \in R : n \in Tree(h, r)
  <2> DEFINE S == UNION {Tree(h, r) : r \in R}
  <2>1. S \in SUBSET Node /\ R \subseteq S
    BY TreeFacts
  <2>2. Closed(h, S)
    BY TreeFacts DEF Closed
  <2>3. Live(h) \subseteq S
    BY <1>1, <2>1, <2>2 DEF Reached
  <2>4. QED BY <1>1, <2>3
<1>2. ASSUME \A n \in Live(h) : \E r \in R : n \in Tree(h, r),
             NEW S \in SUBSET Node, R \subseteq S, Closed(h, S),
             NEW n \in Live(h)
      PROVE  n \in S
  <2>1. PICK r \in R : n \in Tree(h, r)
    BY <1>2
  <2>2. QED BY <1>2, <2>1, TreeFacts
<1>3. QED BY <1>1, <1>2 DEF Reached

(* With one owner each, a node hangs in one container at most ... *)
LEMMA UniqueParent ==
  ASSUME NEW h \in Heap, NEW R, NoDangling(h), OneOwner(h, R),
         NEW p \in Node, NEW q \in Node, NEW x \in Kids(h, p) \cap Kids(h, q)
  PROVE  p = q
<1>1. PICK c \in Cells(h, p) : h.val[c] = x /\ x # NULL
  BY DEF Kids
<1>2. PICK d \in Cells(h, q) : h.val[d] = x
  BY DEF Kids
<1>3. c = d
  BY <1>1, <1>2 DEF NoDangling, OneOwner
<1>4. QED BY <1>1, <1>2, <1>3 DEF OneOwner

(* ... and a node owned from outside in none. *)
LEMMA RootHasNoParent ==
  ASSUME NEW h \in Heap, NEW R, NoDangling(h), OneOwner(h, R), NEW p \in Node
  PROVE  Kids(h, p) \cap R = {}
BY DEF Kids, NoDangling, OneOwner

(* A node is not part of a document that hangs in it. *)
LEMMA NoCycle ==
  ASSUME NEW h \in Heap, NEW R \in SUBSET Node,
         NoDangling(h), OneOwner(h, R), Reached(h, R),
         NEW p \in Live(h), NEW v \in Kids(h, p)
  PROVE  p \notin Tree(h, v)
<1> SUFFICES ASSUME p \in Tree(h, v) PROVE FALSE
  OBVIOUS
<1> DEFINE T == Tree(h, v)
<1>0. p \in Node /\ v \in Node
  BY KidsInNode DEF Live
<1>1. \A x \in T : \E q \in T : x \in Kids(h, q)
  BY <1>0, ParentInTree
<1>2. T \subseteq Node
  BY <1>0, TreeFacts
<1>3. R \subseteq Node \ T
  BY <1>1, <1>2, RootHasNoParent
<1>4. Closed(h, Node \ T)
  BY <1>1, <1>2, UniqueParent, KidsInNode DEF Closed
<1>5. Live(h) \subseteq Node \ T
  BY <1>3, <1>4 DEF Reached
<1>6. QED BY <1>5

----------------------------------------------------------------------------
(* What each change of the heap does to a well formed heap. *)

CellsLinked(h) == \A c \in h.cells : \E n \in Node : c \in Cells(h, n)
TextOwned(h) == h.text = {n \in Node : h.type[n] = "STRING"}
                         \cup {c \in h.cells : h.key[c] # NULL}

(* WellFormed, part by part. *)
LEMMA WellFormedParts ==
  ASSUME NEW h, NEW R
  PROVE  WellFormed(h, R) <=> /\ HeapTypeOK(h) /\ NoDangling(h) /\ OneOwner(h, R)
                              /\ Reached(h, R) /\ CellsLinked(h) /\ TextOwned(h)
                              /\ ShapeOK(h)
BY DEF WellFormed, NoLeak, CellsLinked, TextOwned

(* Before the first call there is nothing to be ill formed. *)
LEMMA EmptyHeapWellFormed == WellFormed(EmptyHeap, {})
<1>1. EmptyHeap \in Heap
  BY EmptySeq DEF EmptyHeap, Heap, NodeType
<1>2. /\ \A n \in Node : EmptyHeap.type[n] = "FREE" /\ EmptyHeap.chain[n] = <<>>
                         /\ EmptyHeap.len[n] = 0
      /\ \A c \in Cell : EmptyHeap.key[c] = NULL /\ EmptyHeap.val[c] = NULL
      /\ EmptyHeap.cells = {} /\ EmptyHeap.text = {}
  BY DEF EmptyHeap
<1>3. \A n \in Node : Cells(EmptyHeap, n) = {}
  BY <1>2, NoCells
<1>4. HeapTypeOK(EmptyHeap)
  BY <1>1, <1>2 DEF HeapTypeOK
<1>5. NoDangling(EmptyHeap) /\ ShapeOK(EmptyHeap)
  BY <1>2, <1>3 DEF NoDangling, ShapeOK
<1>6. OneOwner(EmptyHeap, {})
  BY <1>2, <1>3 DEF OneOwner, IsInjective
<1>7. Live(EmptyHeap) = {}
  BY <1>2 DEF Live
<1>8. Reached(EmptyHeap, {})
  BY <1>7 DEF Reached
<1>9. CellsLinked(EmptyHeap) /\ TextOwned(EmptyHeap)
  BY <1>2 DEF CellsLinked, TextOwned
<1>10. QED
  BY <1>4, <1>5, <1>6, <1>8, <1>9, WellFormedParts

(* The constructors: a new node belongs to the outside. *)
LEMMA NewNodeWellFormed ==
  ASSUME NEW h, NEW R, WellFormed(h, R),
         NEW n \in FreshNodes(h), NEW t \in NodeType
  PROVE  /\ WellFormed(NewNode(h, n, t), R \cup {n})
         /\ n \notin R
<1> DEFINE g == NewNode(h, n, t)
<1>0. /\ HeapTypeOK(h) /\ NoDangling(h) /\ OneOwner(h, R) /\ Reached(h, R)
      /\ CellsLinked(h) /\ TextOwned(h) /\ ShapeOK(h) /\ h \in Heap
  BY WellFormedParts DEF HeapTypeOK
<1>1. n \in Node /\ h.type[n] = "FREE" /\ n \notin R
  BY <1>0 DEF FreshNodes, Live, OneOwner
<1>2. /\ g.type = [h.type EXCEPT ![n] = t]
      /\ g.text = IF t = "STRING" THEN h.text \cup {n} ELSE h.text
      /\ g.chain = h.chain /\ g.len = h.len /\ g.cells = h.cells
      /\ g.key = h.key /\ g.val = h.val
      /\ g \in Heap
  <2>1. g.type = [h.type EXCEPT ![n] = t]
    BY <1>0, <1>1 DEF NewNode, Heap
  <2>2. g.text = IF t = "STRING" THEN h.text \cup {n} ELSE h.text
    BY <1>0, <1>1 DEF NewNode, Heap
  <2>3. /\ g.chain = h.chain /\ g.len = h.len /\ g.cells = h.cells
        /\ g.key = h.key /\ g.val = h.val
    BY <1>0, <1>1 DEF NewNode, Heap
  <2>4. g \in Heap
    BY <1>0, <1>1 DEF NewNode, Heap
  <2>5. QED BY <2>1, <2>2, <2>3, <2>4
<1> HIDE DEF g
<1>3. /\ \A x \in Node : g.type[x] = IF x = n THEN t ELSE h.type[x]
      /\ t # "FREE"
  BY <1>0, <1>1, <1>2 DEF Heap, NodeType
<1>4. \A x \in Node : Cells(g, x) = Cells(h, x) /\ Kids(g, x) = Kids(h, x)
  BY <1>2 DEF Cells, Kids
<1>5. Live(g) = Live(h) \cup {n} /\ n \notin Live(h)
  BY <1>1, <1>3 DEF Live
<1>6. h.chain[n] = <<>> /\ Cells(h, n) = {}
  <2>1. h.chain[n] = <<>>
    BY <1>0, <1>1 DEF NoDangling, Container
  <2>2. QED BY <2>1, NoCells
<1>7. HeapTypeOK(g)
  BY <1>0, <1>2 DEF HeapTypeOK
<1>8. NoDangling(g)
  BY <1>0, <1>2, <1>3, <1>4, <1>5, <1>6 DEF NoDangling
<1>9. OneOwner(g, R \cup {n})
  <2>1. \A c \in g.cells : g.val[c] # n
    BY <1>0, <1>1, <1>2, <1>5, AddressAssumption DEF NoDangling
  <2>2. R \cup {n} \subseteq Live(g)
    BY <1>0, <1>5 DEF OneOwner
  <2>3. QED BY <1>0, <1>2, <1>4, <2>1, <2>2 DEF OneOwner
<1>10. Reached(g, R \cup {n})
  BY <1>0, <1>4, <1>5 DEF Reached, Closed
<1>11. CellsLinked(g)
  BY <1>0, <1>2, <1>4 DEF CellsLinked
<1>12. TextOwned(g)
  BY <1>0, <1>1, <1>2, <1>3 DEF TextOwned
<1>13. ShapeOK(g)
  <2>1. h.len[n] = 0 /\ Len(<<>>) = 0
    BY <1>0, <1>1 DEF ShapeOK
  <2>2. QED BY <1>0, <1>2, <1>3, <1>4, <1>6, <2>1 DEF ShapeOK
<1>14. QED
  BY <1>1, <1>7, <1>8, <1>9, <1>10, <1>11, <1>12, <1>13, WellFormedParts DEF g

(* A fresh cell with no value, linked at either end of container m. *)
LEMMA LinkCell ==
  ASSUME NEW h, NEW R, WellFormed(h, R),
         NEW m \in Node, h.type[m] \in Container, NEW c \in FreshCells(h),
         NEW g \in Heap,
         g.type = h.type, g.val = h.val, g.cells = h.cells \cup {c},
         \A x \in Node \ {m} : g.chain[x] = h.chain[x] /\ g.len[x] = h.len[x],
         Cells(g, m) = Cells(h, m) \cup {c},
         IsInjective(g.chain[m]),
         g.len[m] = IF g.type[m] = "ARRAY" THEN Len(g.chain[m]) ELSE 0,
         \A d \in Cell \ {c} : g.key[d] = h.key[d],
         g.key[c] = NULL <=> g.type[m] = "ARRAY",
         TextOwned(g)
  PROVE  WellFormed(g, R)
<1>0. /\ HeapTypeOK(h) /\ NoDangling(h) /\ OneOwner(h, R) /\ Reached(h, R)
      /\ CellsLinked(h) /\ TextOwned(h) /\ ShapeOK(h) /\ h \in Heap
  BY WellFormedParts DEF HeapTypeOK
<1>1. c \in Cell /\ c \notin h.cells /\ h.val[c] = NULL
  BY <1>0 DEF FreshCells, HeapTypeOK
<1>2. \A x \in Node \ {m} : Cells(g, x) = Cells(h, x)
  BY DEF Cells
<1>3. \A x \in Node : Kids(g, x) = Kids(h, x)
  BY <1>1, <1>2 DEF Kids
<1>4. Live(g) = Live(h)
  BY DEF Live
<1>5. \A x \in Node : c \notin Cells(h, x) /\ Cells(h, x) \subseteq h.cells
  BY <1>0, <1>1 DEF NoDangling
<1>6. HeapTypeOK(g)
  BY <1>0, <1>1 DEF HeapTypeOK
<1>7. NoDangling(g)
  <2>1. \A n \in Node : Cells(g, n) \subseteq g.cells
    BY <1>2, <1>5
  <2>2. \A n \in Node : g.chain[n] # <<>> => g.type[n] \in Container
    BY <1>0 DEF NoDangling
  <2>3. \A d \in g.cells : g.val[d] \in Live(g) \cup {NULL}
    BY <1>0, <1>1, <1>4 DEF NoDangling
  <2>4. QED BY <2>1, <2>2, <2>3 DEF NoDangling
<1>8. OneOwner(g, R)
  <2>1. \A n \in Node : IsInjective(g.chain[n])
    BY <1>0 DEF OneOwner
  <2>2. \A n, o \in Node : n # o => Cells(g, n) \cap Cells(g, o) = {}
    BY <1>0, <1>2, <1>5 DEF OneOwner
  <2>3. \A d, e \in g.cells : g.val[d] = g.val[e] /\ g.val[d] # NULL => d = e
    BY <1>0, <1>1 DEF OneOwner
  <2>4. (\A d \in g.cells : g.val[d] \notin R) /\ R \subseteq Live(g)
    BY <1>0, <1>1, <1>4, AddressAssumption DEF OneOwner, Live
  <2>5. QED BY <2>1, <2>2, <2>3, <2>4 DEF OneOwner
<1>9. Reached(g, R)
  BY <1>0, <1>3, <1>4 DEF Reached, Closed
<1>10. CellsLinked(g)
  <2>1. c \in Cells(g, m)
    OBVIOUS
  <2>2. ASSUME NEW d \in h.cells PROVE \E n \in Node : d \in Cells(g, n)
    BY <1>0, <1>2 DEF CellsLinked
  <2>3. QED BY <2>1, <2>2 DEF CellsLinked
<1>11. ShapeOK(g)
  <2>1. ASSUME NEW n \in Node
        PROVE  g.len[n] = IF g.type[n] = "ARRAY" THEN Len(g.chain[n]) ELSE 0
    BY <1>0 DEF ShapeOK
  <2>2. ASSUME NEW n \in Node, NEW d \in Cells(g, n)
        PROVE  g.key[d] = NULL <=> g.type[n] = "ARRAY"
    <3>1. CASE d = c
      BY <3>1, <1>2, <1>5
    <3>2. CASE d # c
      <4>1. d \in Cells(h, n) /\ d \in Cell
        BY <3>2, <2>2, <1>0, <1>2, KidsInNode
      <4>2. QED BY <3>2, <4>1, <1>0 DEF ShapeOK
    <3>3. QED BY <3>1, <3>2
  <2>3. QED BY <2>1, <2>2 DEF ShapeOK
<1>12. QED
  BY <1>6, <1>7, <1>8, <1>9, <1>10, <1>11, WellFormedParts

(* HASH_ADD_KEYPTR of a new pair without a value. *)
LEMMA AddPairWellFormed ==
  ASSUME NEW h, NEW R, WellFormed(h, R),
         NEW m \in Node, h.type[m] = "MAP", NEW c \in FreshCells(h), NEW k \in Key
  PROVE  LET g == AddPair(h, m, c, k)
         IN  /\ WellFormed(g, R)
             /\ g.type = h.type /\ g.val = h.val
             /\ g.cells = h.cells \cup {c}
             /\ c \in Cells(g, m)
             /\ \A x \in Node : Kids(g, x) = Kids(h, x)
<1> DEFINE g == AddPair(h, m, c, k)
<1>0. /\ HeapTypeOK(h) /\ NoDangling(h) /\ OneOwner(h, R)
      /\ TextOwned(h) /\ ShapeOK(h) /\ h \in Heap
  BY WellFormedParts DEF HeapTypeOK
<1>1. c \in Cell /\ c \notin h.cells /\ h.val[c] = NULL
  BY <1>0 DEF FreshCells, HeapTypeOK
<1>2. h.chain[m] \in Seq(Cell) /\ h.chain \in [Node -> Seq(Cell)]
  BY <1>0 DEF Heap
<1> DEFINE s == Append(h.chain[m], c)
<1>3. /\ s \in Seq(Cell)
      /\ ToSet(s) = Cells(h, m) \cup {c}
      /\ IsInjective(s)
  <2>1. c \notin ToSet(h.chain[m]) /\ IsInjective(h.chain[m])
    BY <1>0, <1>1 DEF NoDangling, OneOwner, Cells
  <2>2. QED BY <1>1, <1>2, <2>1, ToSetAppend DEF Cells
<1> HIDE DEF s
<1>4. g.chain = [h.chain EXCEPT ![m] = s]
  BY <1>0 DEF AddPair, Heap, s
<1>5. g.type = h.type /\ g.len = h.len /\ g.val = h.val /\ g.cells = h.cells \cup {c}
  BY <1>0 DEF AddPair, Heap
<1>6. g.key = [h.key EXCEPT ![c] = k] /\ g.text = h.text \cup {c}
  BY <1>0 DEF AddPair, Heap
<1>7. g \in Heap
  BY <1>0, <1>1, <1>3 DEF AddPair, Heap, s
<1> HIDE DEF g
<1>8. \A x \in Node : g.chain[x] = IF x = m THEN s ELSE h.chain[x]
  BY <1>2, <1>4
<1>9. Cells(g, m) = Cells(h, m) \cup {c}
  BY <1>3, <1>8 DEF Cells
<1>10. \A d \in Cell : g.key[d] = IF d = c THEN k ELSE h.key[d]
  BY <1>0, <1>6 DEF Heap
<1>11. TextOwned(g)
  <2>1. {d \in g.cells : g.key[d] # NULL} = {d \in h.cells : h.key[d] # NULL} \cup {c}
    BY <1>0, <1>1, <1>5, <1>10, AddressAssumption DEF Heap
  <2>2. QED BY <1>0, <1>5, <1>6, <2>1 DEF TextOwned
<1>12. WellFormed(g, R)
  <2>1. g.len[m] = IF g.type[m] = "ARRAY" THEN Len(g.chain[m]) ELSE 0
    BY <1>0, <1>5 DEF ShapeOK
  <2>2. g.key[c] = NULL <=> g.type[m] = "ARRAY"
    BY <1>1, <1>5, <1>10, AddressAssumption
  <2>3. h.type[m] \in Container
    BY DEF Container
  <2>4. QED
    BY <1>3, <1>5, <1>7, <1>8, <1>9, <1>10, <1>11, <2>1, <2>2, <2>3, LinkCell
<1>13. \A x \in Node : Kids(g, x) = Kids(h, x)
  BY <1>1, <1>5, <1>8, <1>9 DEF Kids, Cells
<1>14. QED
  BY <1>5, <1>9, <1>12, <1>13 DEF g

(* s is the queue of array a with element c put in at one end. *)
LEMMA AddElemWellFormed ==
  ASSUME NEW h, NEW R, WellFormed(h, R),
         NEW a \in Node, h.type[a] = "ARRAY", NEW c \in FreshCells(h),
         NEW s \in Seq(Cell), ToSet(s) = Cells(h, a) \cup {c}, IsInjective(s),
         Len(s) = Len(h.chain[a]) + 1,
         NEW g \in Heap,
         g.type = h.type, g.val = h.val, g.key = h.key, g.text = h.text,
         g.cells = h.cells \cup {c},
         \A x \in Node \ {a} : g.chain[x] = h.chain[x] /\ g.len[x] = h.len[x],
         g.chain[a] = s,
         g.len[a] = h.len[a] + 1
  PROVE  /\ WellFormed(g, R)
         /\ c \in Cells(g, a)
         /\ \A x \in Node : Kids(g, x) = Kids(h, x)
<1>0. /\ HeapTypeOK(h) /\ NoDangling(h) /\ OneOwner(h, R)
      /\ TextOwned(h) /\ ShapeOK(h) /\ h \in Heap
  BY WellFormedParts DEF HeapTypeOK
<1>1. c \in Cell /\ c \notin h.cells /\ h.val[c] = NULL /\ h.key[c] = NULL
  BY <1>0 DEF FreshCells, HeapTypeOK
<1>4. Cells(g, a) = Cells(h, a) \cup {c}
  BY DEF Cells
<1>5. TextOwned(g)
  BY <1>0, <1>1 DEF TextOwned
<1>6. WellFormed(g, R)
  <2>1. g.len[a] = IF g.type[a] = "ARRAY" THEN Len(g.chain[a]) ELSE 0
    BY <1>0 DEF ShapeOK
  <2>2. h.type[a] \in Container
    BY DEF Container
  <2>3. /\ IsInjective(g.chain[a])
        /\ \A d \in Cell \ {c} : g.key[d] = h.key[d]
        /\ g.key[c] = NULL <=> g.type[a] = "ARRAY"
    BY <1>1
  <2>4. QED
    BY <1>4, <1>5, <2>1, <2>2, <2>3, LinkCell
<1>7. \A x \in Node : Kids(g, x) = Kids(h, x)
  BY <1>1, <1>4 DEF Kids, Cells
<1>8. QED
  BY <1>4, <1>6, <1>7

(* TAILQ_INSERT_TAIL and array->len++ . *)
LEMMA AddElemBackWellFormed ==
  ASSUME NEW h, NEW R, WellFormed(h, R),
         NEW a \in Node, h.type[a] = "ARRAY", NEW c \in FreshCells(h)
  PROVE  LET g == AddElemBack(h, a, c)
         IN  /\ WellFormed(g, R)
             /\ g.type = h.type /\ g.val = h.val
             /\ g.cells = h.cells \cup {c}
             /\ c \in Cells(g, a)
             /\ \A x \in Node : Kids(g, x) = Kids(h, x)
<1> DEFINE g == AddElemBack(h, a, c)
           s == Append(h.chain[a], c)
<1>1. HeapTypeOK(h) /\ NoDangling(h) /\ OneOwner(h, R) /\ h \in Heap
  BY WellFormedParts DEF HeapTypeOK
<1>2. h.chain[a] \in Seq(Cell) /\ c \in Cell
  BY <1>1 DEF Heap, FreshCells
<1>3. c \notin ToSet(h.chain[a]) /\ IsInjective(h.chain[a])
  BY <1>1 DEF NoDangling, OneOwner, Cells, FreshCells
<1>4. /\ s \in Seq(Cell) /\ IsInjective(s)
      /\ ToSet(s) = Cells(h, a) \cup {c}
      /\ Len(s) = Len(h.chain[a]) + 1
  BY <1>2, <1>3, ToSetAppend DEF Cells
<1> HIDE DEF s
<1>5. g.chain = [h.chain EXCEPT ![a] = s]
  BY <1>1 DEF AddElemBack, Heap, s
<1>6. g.len = [h.len EXCEPT ![a] = @ + 1]
  BY <1>1 DEF AddElemBack, Heap
<1>7. /\ g.type = h.type /\ g.val = h.val /\ g.key = h.key /\ g.text = h.text
      /\ g.cells = h.cells \cup {c}
  BY <1>1 DEF AddElemBack, Heap
<1>8. g \in Heap
  <2>1. h.len[a] + 1 \in Nat
    BY <1>1 DEF Heap
  <2>2. QED BY <1>1, <1>2, <1>4, <2>1 DEF AddElemBack, Heap, s
<1> HIDE DEF g
<1>9. /\ \A x \in Node \ {a} : g.chain[x] = h.chain[x] /\ g.len[x] = h.len[x]
      /\ g.chain[a] = s
      /\ g.len[a] = h.len[a] + 1
  BY <1>1, <1>5, <1>6 DEF Heap
<1>10. /\ WellFormed(g, R)
      /\ c \in Cells(g, a)
      /\ \A x \in Node : Kids(g, x) = Kids(h, x)
  BY <1>4, <1>7, <1>8, <1>9, AddElemWellFormed
<1>11. QED BY <1>7, <1>10 DEF g

(* TAILQ_INSERT_HEAD and array->len++ . *)
LEMMA AddElemFrontWellFormed ==
  ASSUME NEW h, NEW R, WellFormed(h, R),
         NEW a \in Node, h.type[a] = "ARRAY", NEW c \in FreshCells(h)
  PROVE  LET g == AddElemFront(h, a, c)
         IN  /\ WellFormed(g, R)
             /\ g.type = h.type /\ g.val = h.val
             /\ g.cells = h.cells \cup {c}
             /\ c \in Cells(g, a)
             /\ \A x \in Node : Kids(g, x) = Kids(h, x)
<1> DEFINE g == AddElemFront(h, a, c)
           s == <<c>> \o h.chain[a]
<1>1. HeapTypeOK(h) /\ NoDangling(h) /\ OneOwner(h, R) /\ h \in Heap
  BY WellFormedParts DEF HeapTypeOK
<1>2. h.chain[a] \in Seq(Cell) /\ c \in Cell
  BY <1>1 DEF Heap, FreshCells
<1>3. c \notin ToSet(h.chain[a]) /\ IsInjective(h.chain[a])
  BY <1>1 DEF NoDangling, OneOwner, Cells, FreshCells
<1>4. /\ s \in Seq(Cell) /\ IsInjective(s)
      /\ ToSet(s) = Cells(h, a) \cup {c}
      /\ Len(s) = Len(h.chain[a]) + 1
  BY <1>2, <1>3, ToSetCons DEF Cells
<1> HIDE DEF s
<1>5. g.chain = [h.chain EXCEPT ![a] = s]
  BY <1>1 DEF AddElemFront, Heap, s
<1>6. g.len = [h.len EXCEPT ![a] = @ + 1]
  BY <1>1 DEF AddElemFront, Heap
<1>7. /\ g.type = h.type /\ g.val = h.val /\ g.key = h.key /\ g.text = h.text
      /\ g.cells = h.cells \cup {c}
  BY <1>1 DEF AddElemFront, Heap
<1>8. g \in Heap
  <2>1. h.len[a] + 1 \in Nat
    BY <1>1 DEF Heap
  <2>2. QED BY <1>1, <1>2, <1>4, <2>1 DEF AddElemFront, Heap, s
<1> HIDE DEF g
<1>9. /\ \A x \in Node \ {a} : g.chain[x] = h.chain[x] /\ g.len[x] = h.len[x]
      /\ g.chain[a] = s
      /\ g.len[a] = h.len[a] + 1
  BY <1>1, <1>5, <1>6 DEF Heap
<1>10. /\ WellFormed(g, R)
      /\ c \in Cells(g, a)
      /\ \A x \in Node : Kids(g, x) = Kids(h, x)
  BY <1>4, <1>7, <1>8, <1>9, AddElemWellFormed
<1>11. QED BY <1>7, <1>10 DEF g

(* What an assignment to a cell's value leaves alone. *)
LEMMA SetValFields ==
  ASSUME NEW h \in Heap, NEW c \in Cell, NEW v \in Node \cup {NULL}
  PROVE  LET g == SetVal(h, c, v)
         IN  /\ g \in Heap
             /\ g.type = h.type /\ g.chain = h.chain /\ g.len = h.len
             /\ g.cells = h.cells /\ g.key = h.key /\ g.text = h.text
             /\ g.val[c] = v
             /\ \A d \in Cell \ {c} : g.val[d] = h.val[d]
             /\ Live(g) = Live(h)
             /\ \A x \in Node : Cells(g, x) = Cells(h, x)
<1> DEFINE g == SetVal(h, c, v)
<1>1. /\ g.type = h.type /\ g.chain = h.chain /\ g.len = h.len
      /\ g.cells = h.cells /\ g.key = h.key /\ g.text = h.text
  BY DEF SetVal, Heap
<1>2. g.val = [h.val EXCEPT ![c] = v]
  BY DEF SetVal, Heap
<1>3. g \in Heap
  BY DEF SetVal, Heap
<1> HIDE DEF g
<1>4. g.val[c] = v /\ \A d \in Cell \ {c} : g.val[d] = h.val[d]
  BY <1>2 DEF Heap
<1>5. QED BY <1>1, <1>2, <1>3, <1>4 DEF Live, Cells, g

(* The value of a slot is taken out: from then on it is owned from outside. *)
LEMMA DetachWellFormed ==
  ASSUME NEW h, NEW R, WellFormed(h, R), NEW c \in h.cells
  PROVE  WellFormed(SetVal(h, c, NULL), R \cup ({h.val[c]} \ {NULL}))
<1> DEFINE g == SetVal(h, c, NULL)
           Q == R \cup ({h.val[c]} \ {NULL})
<1>0. /\ HeapTypeOK(h) /\ NoDangling(h) /\ OneOwner(h, R) /\ Reached(h, R)
      /\ CellsLinked(h) /\ TextOwned(h) /\ ShapeOK(h) /\ h \in Heap
  BY WellFormedParts DEF HeapTypeOK
<1>1. c \in Cell
  BY <1>0 DEF Heap
<1>2. /\ g \in Heap
      /\ g.type = h.type /\ g.chain = h.chain /\ g.len = h.len
      /\ g.cells = h.cells /\ g.key = h.key /\ g.text = h.text
      /\ g.val[c] = NULL
      /\ \A d \in Cell \ {c} : g.val[d] = h.val[d]
      /\ Live(g) = Live(h)
      /\ \A x \in Node : Cells(g, x) = Cells(h, x)
  <2>1. NULL \in Node \cup {NULL}
    OBVIOUS
  <2>2. QED BY <1>0, <1>1, <2>1, SetValFields
<1> HIDE DEF g
<1>3. h.cells \subseteq Cell
  BY <1>0 DEF Heap
<1>4. HeapTypeOK(g)
  BY <1>0, <1>2 DEF HeapTypeOK
<1>5. NoDangling(g)
  BY <1>0, <1>2, <1>3 DEF NoDangling
<1>6. OneOwner(g, Q)
  <2>1. \A d, e \in g.cells : g.val[d] = g.val[e] /\ g.val[d] # NULL => d = e
    BY <1>0, <1>2, <1>3 DEF OneOwner
  <2>2. \A d \in g.cells : g.val[d] \notin Q
    BY <1>0, <1>2, <1>3, AddressAssumption DEF OneOwner, Live
  <2>3. Q \subseteq Live(g)
    BY <1>0, <1>2 DEF OneOwner, NoDangling
  <2>4. QED BY <1>0, <1>2, <2>1, <2>2, <2>3 DEF OneOwner
<1>7. Reached(g, Q)
  <2> SUFFICES ASSUME NEW S \in SUBSET Node, Q \subseteq S, Closed(g, S)
               PROVE  Closed(h, S)
    BY <1>0, <1>2 DEF Reached
  <2>1. \A x \in Node : Kids(h, x) \subseteq Kids(g, x) \cup Q
    BY <1>0, <1>2, KidsInNode DEF Kids
  <2>2. QED BY <2>1 DEF Closed
<1>8. CellsLinked(g) /\ TextOwned(g) /\ ShapeOK(g)
  BY <1>0, <1>2 DEF CellsLinked, TextOwned, ShapeOK
<1>9. QED
  BY <1>4, <1>5, <1>6, <1>7, <1>8, WellFormedParts DEF g

(* A node owned from outside is put into an empty slot of a container that is
   not in the node's own document.                                         *)
LEMMA AttachWellFormed ==
  ASSUME NEW h, NEW R, WellFormed(h, R),
         NEW p \in Node, NEW c \in Cells(h, p), h.val[c] = NULL,
         NEW v \in R, p \notin Tree(h, v)
  PROVE  WellFormed(SetVal(h, c, v), R \ {v})
<1> DEFINE g == SetVal(h, c, v)
           Q == R \ {v}
<1>0. /\ HeapTypeOK(h) /\ NoDangling(h) /\ OneOwner(h, R) /\ Reached(h, R)
      /\ CellsLinked(h) /\ TextOwned(h) /\ ShapeOK(h) /\ h \in Heap
  BY WellFormedParts DEF HeapTypeOK
<1>1. c \in Cell /\ c \in h.cells /\ v \in Node /\ v \in Live(h)
  BY <1>0 DEF Heap, NoDangling, OneOwner, Live
<1>2. /\ g \in Heap
      /\ g.type = h.type /\ g.chain = h.chain /\ g.len = h.len
      /\ g.cells = h.cells /\ g.key = h.key /\ g.text = h.text
      /\ g.val[c] = v
      /\ \A d \in Cell \ {c} : g.val[d] = h.val[d]
      /\ Live(g) = Live(h)
      /\ \A x \in Node : Cells(g, x) = Cells(h, x)
  <2>1. v \in Node \cup {NULL}
    BY <1>1
  <2>2. QED BY <1>0, <1>1, <2>1, SetValFields
<1> HIDE DEF g
<1>3. h.cells \subseteq Cell
  BY <1>0 DEF Heap
<1>4. HeapTypeOK(g)
  BY <1>0, <1>1, <1>2 DEF HeapTypeOK
<1>5. NoDangling(g)
  BY <1>0, <1>1, <1>2, <1>3 DEF NoDangling
<1>6. OneOwner(g, Q)
  <2>1. \A d, e \in g.cells : g.val[d] = g.val[e] /\ g.val[d] # NULL => d = e
    BY <1>0, <1>2, <1>3 DEF OneOwner
  <2>2. \A d \in g.cells : g.val[d] \notin Q
    BY <1>0, <1>2, <1>3 DEF OneOwner
  <2>3. Q \subseteq Live(g)
    BY <1>0, <1>2 DEF OneOwner
  <2>4. QED BY <1>0, <1>2, <2>1, <2>2, <2>3 DEF OneOwner
<1>7. Reached(g, Q)
  <2> SUFFICES ASSUME NEW S \in SUBSET Node, Q \subseteq S, Closed(g, S)
               PROVE  Live(h) \subseteq S
    BY <1>2 DEF Reached
  <2>1. \A x \in Node : Kids(h, x) \subseteq Kids(g, x)
    BY <1>0, <1>2, <1>3 DEF Kids, NoDangling
  <2>2. Closed(h, S)
    BY <2>1 DEF Closed
  <2>3. Closed(h, S \cup Tree(h, v))
    BY <1>0, <1>1, <2>2, TreeFacts DEF Closed
  <2>4. R \subseteq S \cup Tree(h, v) /\ S \cup Tree(h, v) \in SUBSET Node
    BY <1>0, <1>1, TreeFacts
  <2>5. Live(h) \subseteq S \cup Tree(h, v)
    BY <1>0, <2>3, <2>4 DEF Reached
  <2>6. p \in S
    <3>1. p \in Live(h)
      <4>1. h.chain[p] # <<>>
        BY <1>0, NoCells
      <4>2. QED BY <1>0, <4>1 DEF NoDangling, Container, Live
    <3>2. QED BY <2>5, <3>1
  <2>7. v \in S
    <3>1. v \in Kids(g, p)
      BY <1>1, <1>2, AddressAssumption DEF Kids
    <3>2. QED BY <2>6, <3>1 DEF Closed
  <2>8. Tree(h, v) \subseteq S
    BY <1>0, <1>1, <2>2, <2>7, TreeFacts
  <2>9. QED BY <2>5, <2>8
<1>8. CellsLinked(g) /\ TextOwned(g) /\ ShapeOK(g)
  BY <1>0, <1>2 DEF CellsLinked, TextOwned, ShapeOK
<1>9. QED
  BY <1>4, <1>5, <1>6, <1>7, <1>8, WellFormedParts DEF g

(* A cell with no value, taken out of container m and freed. *)
LEMMA UnlinkCell ==
  ASSUME NEW h, NEW R, WellFormed(h, R),
         NEW m \in Node, NEW c \in Cells(h, m), h.val[c] = NULL,
         NEW g \in Heap,
         g.type = h.type, g.cells = h.cells \ {c},
         g.val[c] = NULL, g.key[c] = NULL,
         \A d \in Cell \ {c} : g.val[d] = h.val[d] /\ g.key[d] = h.key[d],
         \A x \in Node \ {m} : g.chain[x] = h.chain[x] /\ g.len[x] = h.len[x],
         Cells(g, m) = Cells(h, m) \ {c},
         IsInjective(g.chain[m]),
         g.len[m] = IF g.type[m] = "ARRAY" THEN Len(g.chain[m]) ELSE 0,
         TextOwned(g)
  PROVE  WellFormed(g, R)
<1>0. /\ HeapTypeOK(h) /\ NoDangling(h) /\ OneOwner(h, R) /\ Reached(h, R)
      /\ CellsLinked(h) /\ TextOwned(h) /\ ShapeOK(h) /\ h \in Heap
  BY WellFormedParts DEF HeapTypeOK
<1>1. c \in Cell /\ c \in h.cells /\ h.cells \subseteq Cell
  BY <1>0 DEF NoDangling, Heap
<1>2. \A x \in Node \ {m} : Cells(g, x) = Cells(h, x) /\ c \notin Cells(h, x)
  BY <1>0 DEF Cells, OneOwner
<1>3. \A x \in Node : Cells(g, x) = Cells(h, x) \ {c}
  BY <1>2
<1>4. \A x \in Node : Cells(g, x) \subseteq Cell /\ Cells(h, x) \subseteq Cell
  BY <1>0, KidsInNode
<1>5. \A x \in Node : Kids(g, x) = Kids(h, x)
  <2> SUFFICES ASSUME NEW x \in Node PROVE Kids(g, x) = Kids(h, x)
    OBVIOUS
  <2>1. \A d \in Cells(g, x) : d \in Cells(h, x) /\ g.val[d] = h.val[d]
    BY <1>3, <1>4
  <2>2. \A d \in Cells(h, x) : h.val[d] # NULL => d \in Cells(g, x) /\ g.val[d] = h.val[d]
    BY <1>3, <1>4
  <2>3. QED BY <2>1, <2>2 DEF Kids
<1>6. Live(g) = Live(h)
  BY DEF Live
<1>7. HeapTypeOK(g)
  BY <1>0 DEF HeapTypeOK
<1>8. NoDangling(g)
  <2>1. \A n \in Node : Cells(g, n) \subseteq g.cells
    BY <1>0, <1>3 DEF NoDangling
  <2>2. \A n \in Node : g.chain[n] # <<>> => g.type[n] \in Container
    <3>1. h.type[m] \in Container
      <4>1. h.chain[m] # <<>>
        BY NoCells
      <4>2. QED BY <4>1, <1>0 DEF NoDangling
    <3>2. QED BY <1>0, <3>1 DEF NoDangling
  <2>3. \A d \in g.cells : g.val[d] \in Live(g) \cup {NULL}
    BY <1>0, <1>1, <1>6 DEF NoDangling
  <2>4. QED BY <2>1, <2>2, <2>3 DEF NoDangling
<1>9. OneOwner(g, R)
  <2>1. \A n \in Node : IsInjective(g.chain[n])
    BY <1>0 DEF OneOwner
  <2>2. \A n, o \in Node : n # o => Cells(g, n) \cap Cells(g, o) = {}
    BY <1>0, <1>3 DEF OneOwner
  <2>3. \A d, e \in g.cells : g.val[d] = g.val[e] /\ g.val[d] # NULL => d = e
    BY <1>0, <1>1 DEF OneOwner
  <2>4. (\A d \in g.cells : g.val[d] \notin R) /\ R \subseteq Live(g)
    BY <1>0, <1>1, <1>6 DEF OneOwner
  <2>5. QED BY <2>1, <2>2, <2>3, <2>4 DEF OneOwner
<1>10. Reached(g, R)
  BY <1>0, <1>5, <1>6 DEF Reached, Closed
<1>11. CellsLinked(g)
  BY <1>0, <1>3 DEF CellsLinked
<1>12. ShapeOK(g)
  <2>1. ASSUME NEW n \in Node
        PROVE  g.len[n] = IF g.type[n] = "ARRAY" THEN Len(g.chain[n]) ELSE 0
    BY <1>0 DEF ShapeOK
  <2>2. ASSUME NEW n \in Node, NEW d \in Cells(g, n)
        PROVE  g.key[d] = NULL <=> g.type[n] = "ARRAY"
    <3>1. d \in Cells(h, n) /\ d \in Cell \ {c}
      BY <2>2, <1>3, <1>4
    <3>2. QED BY <3>1, <1>0 DEF ShapeOK
  <2>3. QED BY <2>1, <2>2 DEF ShapeOK
<1>13. QED
  BY <1>7, <1>8, <1>9, <1>10, <1>11, <1>12, WellFormedParts

(* HASH_DEL and free of a pair whose value was freed. *)
LEMMA DropPairWellFormed ==
  ASSUME NEW h, NEW R, WellFormed(h, R),
         NEW m \in Node, h.type[m] = "MAP", NEW c \in Cells(h, m), h.val[c] = NULL
  PROVE  WellFormed(DropPair(h, m, c), R)
<1> DEFINE g == DropPair(h, m, c)
           s == Unlink(h.chain[m], c)
<1>0. /\ HeapTypeOK(h) /\ NoDangling(h) /\ OneOwner(h, R)
      /\ TextOwned(h) /\ ShapeOK(h) /\ h \in Heap
  BY WellFormedParts DEF HeapTypeOK
<1>1. c \in Cell /\ c \in h.cells /\ h.cells \subseteq Cell
  BY <1>0 DEF NoDangling, Heap
<1>2. h.chain[m] \in Seq(Cell) /\ IsInjective(h.chain[m])
  BY <1>0 DEF Heap, OneOwner
<1>3. /\ s \in Seq(Cell) /\ IsInjective(s)
      /\ ToSet(s) = Cells(h, m) \ {c}
  BY <1>2, ToSetUnlink DEF Cells
<1> HIDE DEF s
<1>4. g.chain = [h.chain EXCEPT ![m] = s]
  BY <1>0 DEF DropPair, Heap, s
<1>5. g.key = [h.key EXCEPT ![c] = NULL]
  BY <1>0 DEF DropPair, Heap
<1>6. g.val = [h.val EXCEPT ![c] = NULL]
  BY <1>0 DEF DropPair, Heap
<1>7. /\ g.type = h.type /\ g.len = h.len
      /\ g.cells = h.cells \ {c} /\ g.text = h.text \ {c}
  BY <1>0 DEF DropPair, Heap
<1>8. g \in Heap
  BY <1>0, <1>1, <1>3 DEF DropPair, Heap, s
<1> HIDE DEF g
<1>9. /\ \A x \in Node \ {m} : g.chain[x] = h.chain[x] /\ g.len[x] = h.len[x]
      /\ g.chain[m] = s
  BY <1>0, <1>4, <1>7 DEF Heap
<1>10. /\ \A d \in Cell \ {c} : g.val[d] = h.val[d] /\ g.key[d] = h.key[d]
       /\ g.val[c] = NULL /\ g.key[c] = NULL
  BY <1>0, <1>1, <1>5, <1>6 DEF Heap
<1>11. Cells(g, m) = Cells(h, m) \ {c}
  BY <1>3, <1>9 DEF Cells
<1>12. TextOwned(g)
  <2>1. {d \in g.cells : g.key[d] # NULL} = {d \in h.cells : h.key[d] # NULL} \ {c}
    BY <1>1, <1>7, <1>10
  <2>2. c \notin Node
    BY <1>1, AddressAssumption
  <2>3. QED BY <1>0, <1>7, <2>1, <2>2 DEF TextOwned
<1>13. g.len[m] = IF g.type[m] = "ARRAY" THEN Len(g.chain[m]) ELSE 0
  BY <1>0, <1>7 DEF ShapeOK
<1>14. WellFormed(g, R)
  <2>1. IsInjective(g.chain[m])
    BY <1>3, <1>9
  <2>2. QED
    BY <1>7, <1>8, <1>9, <1>10, <1>11, <1>12, <1>13, <2>1, UnlinkCell
<1>15. QED BY <1>14 DEF g

(* TAILQ_REMOVE, array->len-- and free of an element whose node was freed. *)
LEMMA DropElemWellFormed ==
  ASSUME NEW h, NEW R, WellFormed(h, R),
         NEW a \in Node, h.type[a] = "ARRAY", NEW c \in Cells(h, a), h.val[c] = NULL
  PROVE  WellFormed(DropElem(h, a, c), R)
<1> DEFINE g == DropElem(h, a, c)
           s == Unlink(h.chain[a], c)
<1>0. /\ HeapTypeOK(h) /\ NoDangling(h) /\ OneOwner(h, R)
      /\ TextOwned(h) /\ ShapeOK(h) /\ h \in Heap
  BY WellFormedParts DEF HeapTypeOK
<1>1. c \in Cell /\ c \in h.cells /\ h.cells \subseteq Cell /\ h.key[c] = NULL
  BY <1>0 DEF NoDangling, Heap, ShapeOK
<1>2. h.chain[a] \in Seq(Cell) /\ IsInjective(h.chain[a])
  BY <1>0 DEF Heap, OneOwner
<1>3. /\ s \in Seq(Cell) /\ IsInjective(s)
      /\ ToSet(s) = Cells(h, a) \ {c}
      /\ Len(s) = Len(h.chain[a]) - 1
      /\ Len(h.chain[a]) > 0
  BY <1>2, ToSetUnlink DEF Cells
<1> HIDE DEF s
<1>4. h.len[a] = Len(h.chain[a]) /\ h.len[a] \in Nat /\ h.len[a] - 1 \in Nat
  BY <1>0, <1>3 DEF ShapeOK, Heap
<1>5. g.chain = [h.chain EXCEPT ![a] = s]
  BY <1>0 DEF DropElem, Heap, s
<1>6. g.len = [h.len EXCEPT ![a] = @ - 1]
  BY <1>0 DEF DropElem, Heap
<1>7. g.val = [h.val EXCEPT ![c] = NULL]
  BY <1>0 DEF DropElem, Heap
<1>8. /\ g.type = h.type /\ g.key = h.key /\ g.text = h.text
      /\ g.cells = h.cells \ {c}
  BY <1>0 DEF DropElem, Heap
<1>9. g \in Heap
  BY <1>0, <1>1, <1>3, <1>4 DEF DropElem, Heap, s
<1> HIDE DEF g
<1>10. /\ \A x \in Node \ {a} : g.chain[x] = h.chain[x] /\ g.len[x] = h.len[x]
       /\ g.chain[a] = s
       /\ g.len[a] = h.len[a] - 1
  BY <1>0, <1>5, <1>6 DEF Heap
<1>11. /\ \A d \in Cell \ {c} : g.val[d] = h.val[d] /\ g.key[d] = h.key[d]
       /\ g.val[c] = NULL /\ g.key[c] = NULL
  BY <1>0, <1>1, <1>7, <1>8 DEF Heap
<1>12. Cells(g, a) = Cells(h, a) \ {c}
  BY <1>3, <1>10 DEF Cells
<1>13. TextOwned(g)
  BY <1>0, <1>1, <1>8 DEF TextOwned
<1>14. g.len[a] = IF g.type[a] = "ARRAY" THEN Len(g.chain[a]) ELSE 0
  BY <1>3, <1>4, <1>8, <1>10
<1>15. WellFormed(g, R)
  <2>1. IsInjective(g.chain[a])
    BY <1>3, <1>10
  <2>2. QED
    BY <1>8, <1>9, <1>10, <1>11, <1>12, <1>13, <1>14, <2>1, UnlinkCell
<1>16. QED BY <1>15 DEF g

(* Freeing a document that is owned from outside frees all of it and nothing
   else: what is left is well formed without it.                           *)
LEMMA FreeTreeWellFormed ==
  ASSUME NEW h, NEW R, WellFormed(h, R), NEW n \in R
  PROVE  WellFormed(FreeTree(h, n), R \ {n})
<1> DEFINE g == FreeTree(h, n)
           N == Tree(h, n)
           C == TreeCells(h, n)
           Q == R \ {n}
<1>0. /\ HeapTypeOK(h) /\ NoDangling(h) /\ OneOwner(h, R) /\ Reached(h, R)
      /\ CellsLinked(h) /\ TextOwned(h) /\ ShapeOK(h) /\ h \in Heap
  BY WellFormedParts DEF HeapTypeOK
<1>1. n \in Node /\ n \in Live(h)
  BY <1>0 DEF OneOwner, Live
<1>2. /\ g.type = [x \in Node |-> IF x \in N THEN "FREE" ELSE h.type[x]]
      /\ g.chain = [x \in Node |-> IF x \in N THEN <<>> ELSE h.chain[x]]
      /\ g.len = [x \in Node |-> IF x \in N THEN 0 ELSE h.len[x]]
      /\ g.cells = h.cells \ C
      /\ g.key = [c \in Cell |-> IF c \in C THEN NULL ELSE h.key[c]]
      /\ g.val = [c \in Cell |-> IF c \in C THEN NULL ELSE h.val[c]]
      /\ g.text = h.text \ (N \cup C)
  BY DEF FreeTree
<1>3. g \in Heap
  <2>1. <<>> \in Seq(Cell)
    BY EmptySeq
  <2>2. QED BY <1>0, <2>1 DEF FreeTree, Heap
<1>4. /\ N \subseteq Node /\ n \in N
      /\ \A x \in N : Cells(h, x) \subseteq C
      /\ \A x \in N : Kids(h, x) \subseteq N
  BY <1>0, <1>1, TreeFacts DEF TreeCells, Closed
<1>5. \A c \in C : \E x \in N : c \in Cells(h, x)
  BY DEF TreeCells
<1> HIDE DEF g, N, C
<1>6. \A x \in Node \ N : Cells(h, x) \cap C = {}
  BY <1>0, <1>4, <1>5 DEF OneOwner
<1>7. \A x \in Node : Cells(g, x) = IF x \in N THEN {} ELSE Cells(h, x)
  <2>1. \A x \in N : Cells(g, x) = {}
    BY <1>2, <1>4, NoCells
  <2>2. \A x \in Node \ N : Cells(g, x) = Cells(h, x)
    BY <1>2 DEF Cells
  <2>3. QED BY <2>1, <2>2
<1>8. \A c \in Cell \ C : g.val[c] = h.val[c] /\ g.key[c] = h.key[c]
  BY <1>2
<1>9. \A c \in C \cap Cell : g.val[c] = NULL /\ g.key[c] = NULL
  BY <1>2
<1>10. Live(g) = Live(h) \ N
  BY <1>2 DEF Live
<1>11. h.cells \subseteq Cell /\ g.cells \subseteq Cell \ C
  BY <1>0, <1>2 DEF Heap
<1>12. \A x \in N \ {n} : \E p \in N : x \in Kids(h, p)
  BY <1>0, <1>1, ParentInTree DEF N
<1>13. HeapTypeOK(g)
  BY <1>0, <1>2, <1>3, <1>8, <1>9 DEF HeapTypeOK
<1>14. NoDangling(g)
  <2>1. \A x \in Node : Cells(g, x) \subseteq g.cells
    BY <1>0, <1>2, <1>6, <1>7 DEF NoDangling
  <2>2. \A x \in Node : g.chain[x] # <<>> => g.type[x] \in Container
    BY <1>0, <1>2 DEF NoDangling
  <2>3. ASSUME NEW c \in g.cells, g.val[c] # NULL PROVE g.val[c] \in Live(g)
    <3>1. c \in h.cells /\ c \notin C /\ g.val[c] = h.val[c] /\ h.val[c] \in Live(h)
      BY <1>0, <1>2, <1>8, <1>11, <2>3 DEF NoDangling
    <3>2. h.val[c] # n
      BY <1>0, <3>1 DEF OneOwner
    <3>3. ASSUME h.val[c] \in N PROVE FALSE
      <4>1. PICK p \in N : h.val[c] \in Kids(h, p)
        BY <1>12, <3>2, <3>3
      <4>2. PICK d \in Cells(h, p) : h.val[d] = h.val[c]
        BY <4>1 DEF Kids
      <4>3. d \in h.cells /\ d \in C
        BY <1>0, <1>4, <4>2 DEF NoDangling
      <4>4. d = c
        BY <1>0, <2>3, <3>1, <4>2, <4>3 DEF OneOwner
      <4>5. QED BY <3>1, <4>3, <4>4
    <3>4. QED BY <1>10, <3>1, <3>3
  <2>4. QED BY <2>1, <2>2, <2>3 DEF NoDangling
<1>15. OneOwner(g, Q)
  <2>1. \A x \in Node : IsInjective(g.chain[x])
    <3>1. IsInjective(<<>>)
      BY DEF IsInjective
    <3>2. QED BY <1>0, <1>2, <3>1 DEF OneOwner
  <2>2. \A x, y \in Node : x # y => Cells(g, x) \cap Cells(g, y) = {}
    BY <1>0, <1>7 DEF OneOwner
  <2>3. \A c, d \in g.cells : g.val[c] = g.val[d] /\ g.val[c] # NULL => c = d
    BY <1>0, <1>2, <1>8, <1>11 DEF OneOwner
  <2>4. \A c \in g.cells : g.val[c] \notin Q
    BY <1>0, <1>2, <1>8, <1>11 DEF OneOwner
  <2>5. Q \subseteq Live(g)
    <3>1. \A r \in Q : r \notin N
      BY <1>0, <1>4, <1>12, RootHasNoParent
    <3>2. QED BY <1>0, <1>10, <3>1 DEF OneOwner
  <2>6. QED BY <2>1, <2>2, <2>3, <2>4, <2>5 DEF OneOwner
<1>16. Reached(g, Q)
  <2> SUFFICES ASSUME NEW S \in SUBSET Node, Q \subseteq S, Closed(g, S)
               PROVE  Live(h) \subseteq S \cup N
    BY <1>10 DEF Reached
  <2>1. ASSUME NEW x \in S \cup N PROVE Kids(h, x) \subseteq S \cup N
    <3>1. CASE x \in N
      BY <3>1, <1>4
    <3>2. CASE x \notin N
      <4>1. Cells(g, x) = Cells(h, x) /\ Cells(h, x) \cap C = {} /\ Cells(h, x) \subseteq Cell
        BY <1>0, <1>6, <1>7, <2>1, <3>2, KidsInNode
      <4>2. Kids(g, x) = Kids(h, x)
        BY <1>8, <4>1 DEF Kids
      <4>3. QED BY <2>1, <3>2, <4>2 DEF Closed
    <3>3. QED BY <3>1, <3>2
  <2>2. Closed(h, S \cup N)
    BY <2>1 DEF Closed
  <2>3. R \subseteq S \cup N /\ S \cup N \in SUBSET Node
    BY <1>4
  <2>4. QED BY <1>0, <2>2, <2>3 DEF Reached
<1>17. CellsLinked(g)
  <2> SUFFICES ASSUME NEW c \in g.cells PROVE \E x \in Node : c \in Cells(g, x)
    BY DEF CellsLinked
  <2>1. PICK x \in Node : c \in Cells(h, x)
    BY <1>0, <1>2 DEF CellsLinked
  <2>2. x \notin N
    BY <1>2, <1>4, <2>1
  <2>3. QED BY <1>7, <2>1, <2>2
<1>18. TextOwned(g)
  <2>1. {x \in Node : g.type[x] = "STRING"} = {x \in Node : h.type[x] = "STRING"} \ N
    BY <1>2
  <2>2. {c \in g.cells : g.key[c] # NULL} = {c \in h.cells : h.key[c] # NULL} \ C
    BY <1>2, <1>8, <1>11
  <2>3. C \cap Node = {} /\ N \cap h.cells = {}
    <3>1. C \subseteq Cell
      BY <1>0, <1>4, <1>5, KidsInNode
    <3>2. QED BY <1>4, <1>11, <3>1, AddressAssumption
  <2>4. QED BY <1>0, <1>2, <2>1, <2>2, <2>3 DEF TextOwned
<1>19. ShapeOK(g)
  <2>1. ASSUME NEW x \in Node
        PROVE  g.len[x] = IF g.type[x] = "ARRAY" THEN Len(g.chain[x]) ELSE 0
    BY <1>0, <1>2 DEF ShapeOK
  <2>2. ASSUME NEW x \in Node, NEW c \in Cells(g, x)
        PROVE  g.key[c] = NULL <=> g.type[x] = "ARRAY"
    <3>1. x \notin N /\ c \in Cells(h, x) /\ c \notin C /\ c \in Cell
      BY <1>0, <1>6, <1>7, <2>2, KidsInNode
    <3>2. g.type[x] = h.type[x] /\ g.key[c] = h.key[c]
      BY <1>2, <3>1
    <3>3. QED BY <1>0, <3>1, <3>2 DEF ShapeOK
  <2>3. QED BY <2>1, <2>2 DEF ShapeOK
<1>20. QED
  BY <1>13, <1>14, <1>15, <1>16, <1>17, <1>18, <1>19, WellFormedParts DEF g

----------------------------------------------------------------------------
(* Combinations of changes that the actions are made of. *)

(* Fewer kids, smaller documents. *)
LEMMA TreeMonotonic ==
  ASSUME NEW h \in Heap, NEW g \in Heap, NEW n \in Node,
         \A x \in Node : Kids(g, x) \subseteq Kids(h, x)
  PROVE  Tree(g, n) \subseteq Tree(h, n)
<1>1. Closed(g, Tree(h, n))
  BY TreeFacts DEF Closed
<1>2. QED BY <1>1, TreeFacts

(* A node without kids is a document by itself. *)
LEMMA LeafTree ==
  ASSUME NEW h \in Heap, NEW n \in Node, Kids(h, n) = {}
  PROVE  Tree(h, n) = {n}
<1>1. Closed(h, {n})
  BY DEF Closed
<1>2. QED BY <1>1, TreeFacts

(* A node that is not allocated has no cells. *)
LEMMA FreeNodeIsLeaf ==
  ASSUME NEW h, NEW R, WellFormed(h, R), NEW n \in FreshNodes(h)
  PROVE  Cells(h, n) = {} /\ Kids(h, n) = {}
<1>1. NoDangling(h) /\ n \in Node /\ h.type[n] = "FREE"
  BY WellFormedParts DEF FreshNodes, Live
<1>2. h.chain[n] = <<>>
  BY <1>1 DEF NoDangling, Container
<1>3. QED BY <1>2, NoCells DEF Kids

(* The value of a slot is freed, and the slot left empty.  Its container is
   not part of what is freed, so nothing else about it changes.            *)
LEMMA FreeValWellFormed ==
  ASSUME NEW h, NEW R, WellFormed(h, R), NEW p \in Node, NEW c \in Cells(h, p)
  PROVE  LET g == FreeVal(h, c)
         IN  /\ WellFormed(g, R)
             /\ g.type[p] = h.type[p]
             /\ Cells(g, p) = Cells(h, p)
             /\ g.val[c] = NULL
             /\ \A x \in Node : Kids(g, x) \subseteq Kids(h, x)
<1> DEFINE e == SetVal(h, c, NULL)
           g == FreeVal(h, c)
           v == h.val[c]
<1>0. /\ HeapTypeOK(h) /\ NoDangling(h) /\ OneOwner(h, R) /\ Reached(h, R)
      /\ h \in Heap /\ R \in SUBSET Node
  BY WellFormedParts DEF HeapTypeOK, OneOwner, Live
<1>1. c \in Cell /\ c \in h.cells /\ v \in Node \cup {NULL} /\ v \notin R
  BY <1>0 DEF NoDangling, OneOwner, Heap
<1>2. /\ e \in Heap
      /\ e.type = h.type
      /\ e.val[c] = NULL
      /\ \A d \in Cell \ {c} : e.val[d] = h.val[d]
      /\ \A x \in Node : Cells(e, x) = Cells(h, x)
  <2>1. NULL \in Node \cup {NULL}
    OBVIOUS
  <2>2. QED BY <1>0, <1>1, <2>1, SetValFields
<1>3. WellFormed(e, R \cup ({v} \ {NULL}))
  BY <1>1, DetachWellFormed
<1>4. g = FreeNode(e, v)
  BY DEF FreeVal
<1> HIDE DEF e, g
<1>5. \A x \in Node : Kids(e, x) \subseteq Kids(h, x)
  BY <1>0, <1>2, KidsInNode DEF Kids
<1>6. CASE v = NULL
  BY <1>2, <1>3, <1>4, <1>5, <1>6 DEF FreeNode, g
<1>7. CASE v # NULL
  <2>1. g = FreeTree(e, v)
    BY <1>4, <1>7 DEF FreeNode
  <2>2. WellFormed(g, R)
    <3>1. v \in R \cup ({v} \ {NULL}) /\ (R \cup ({v} \ {NULL})) \ {v} = R
      BY <1>1, <1>7
    <3>2. QED BY <1>3, <2>1, <3>1, FreeTreeWellFormed
  <2>3. p \notin Tree(e, v)
    <3>1. v \in Kids(h, p)
      BY <1>7 DEF Kids
    <3>2. p \in Live(h)
      <4>1. h.chain[p] # <<>>
        BY NoCells
      <4>2. QED BY <1>0, <4>1 DEF NoDangling, Container, Live
    <3>3. p \notin Tree(h, v)
      BY <1>0, <3>1, <3>2, NoCycle
    <3>4. QED BY <1>0, <1>1, <1>2, <1>5, <1>7, <3>3, TreeMonotonic
  <2>4. /\ g.chain = [x \in Node |-> IF x \in Tree(e, v) THEN <<>> ELSE e.chain[x]]
        /\ g.type = [x \in Node |-> IF x \in Tree(e, v) THEN "FREE" ELSE e.type[x]]
        /\ g.val = [d \in Cell |-> IF d \in TreeCells(e, v) THEN NULL ELSE e.val[d]]
    BY <2>1 DEF FreeTree
  <2>5. g.type[p] = h.type[p] /\ Cells(g, p) = Cells(h, p) /\ g.val[c] = NULL
    BY <1>1, <1>2, <2>3, <2>4 DEF Cells
  <2>6. \A x \in Node : Kids(g, x) \subseteq Kids(h, x)
    <3> SUFFICES ASSUME NEW x \in Node, NEW y \in Kids(g, x) PROVE y \in Kids(e, x)
      BY <1>5
    <3>1. PICK d \in Cells(g, x) : y = g.val[d] /\ y # NULL
      BY DEF Kids
    <3>2. x \notin Tree(e, v)
      BY <2>4, <3>1, NoCells
    <3>3. d \in Cells(e, x) /\ d \in Cell
      BY <1>2, <2>4, <3>1, <3>2, KidsInNode DEF Cells
    <3>4. y = e.val[d]
      BY <2>4, <3>1, <3>3
    <3>5. QED BY <3>1, <3>3, <3>4 DEF Kids
  <2>7. QED BY <2>2, <2>5, <2>6 DEF g
<1>8. QED BY <1>6, <1>7

(* A node owned from outside, or nothing, is put into an empty slot. *)
LEMMA FillWellFormed ==
  ASSUME NEW h, NEW R, WellFormed(h, R),
         NEW p \in Node, NEW c \in Cells(h, p), h.val[c] = NULL,
         NEW v \in R \cup {NULL}, v # NULL => p \notin Tree(h, v)
  PROVE  WellFormed(SetVal(h, c, v), R \ {v})
<1>1. CASE v = NULL
  <2>1. c \in h.cells /\ R \ {v} = R \cup ({h.val[c]} \ {NULL})
    BY <1>1, WellFormedParts, AddressAssumption DEF NoDangling, OneOwner, Live
  <2>2. QED BY <1>1, <2>1, DetachWellFormed
<1>2. CASE v # NULL
  BY <1>2, AttachWellFormed
<1>3. QED BY <1>1, <1>2
=============================================================================
