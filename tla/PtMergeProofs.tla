--------------------------- MODULE PtMergeProofs ---------------------------
(***************************************************************************)
(* Theorems about PtMerge, for any documents, overlapping or not, and any   *)
(* number of calls.                                                         *)
(***************************************************************************)
EXTENDS PtMerge, PtHeapProofs

----------------------------------------------------------------------------
(* What one turn of a loop writes *)

(* the document that hangs in cell c *)
Hung(h, c) == IF h.val[c] = NULL THEN {} ELSE Tree(h, h.val[c])
HungCells(h, c) == UNION {Cells(h, x) : x \in Hung(h, c)}

(* g is h after container p got v in cell c: a new one at its end, or one that
   it had, from which what hung there was freed.                              *)
Wrote(h, g, p, c, v) ==
  /\ g \in Heap
  /\ \A x \in Node : g.type[x] = IF x \in Hung(h, c) THEN "FREE" ELSE h.type[x]
  /\ \A x \in Node : g.chain[x] = IF x \in Hung(h, c) THEN <<>>
                                  ELSE IF x = p /\ c \notin h.cells THEN Append(h.chain[p], c)
                                  ELSE h.chain[x]
  /\ g.cells = (h.cells \ HungCells(h, c)) \cup {c}
  /\ \A d \in g.cells \ {c} : g.val[d] = h.val[d] /\ g.key[d] = h.key[d]
  /\ g.val[c] = v
  /\ c \in h.cells => c \in Cells(h, p) /\ g.key[c] = h.key[c]
  /\ p \notin Hung(h, c)

(* Heaps are what they should be when they are well formed. *)
LEMMA WellFormedTypes ==
  ASSUME NEW h, NEW R, WellFormed(h, R)
  PROVE  /\ h \in Heap /\ R \subseteq Live(h) /\ R \subseteq Node /\ Live(h) \subseteq Node
         /\ h.cells \subseteq Cell
         /\ \A c \in Cell \ h.cells : h.val[c] = NULL /\ h.key[c] = NULL
         /\ \A x \in Node : /\ h.chain[x] \in Seq(Cell) /\ IsInjective(h.chain[x])
                            /\ Cells(h, x) \subseteq h.cells
                            /\ Kids(h, x) \subseteq Live(h)
                            /\ Cells(h, x) # {} => x \in Live(h)
         /\ \A x, y \in Node : \A c : c \in Cells(h, x) /\ c \in Cells(h, y) => x = y
<1>1. HeapTypeOK(h) /\ NoDangling(h) /\ OneOwner(h, R)
  BY WellFormedParts
<1>2. h \in Heap /\ Live(h) \subseteq Node /\ h.cells \subseteq Cell
  BY <1>1 DEF HeapTypeOK, Heap, Live
<1>3. \A x \in Node : Kids(h, x) \subseteq Live(h)
  BY <1>1 DEF Kids, NoDangling
<1>4. \A x \in Node : Cells(h, x) # {} => x \in Live(h)
  BY <1>1, NoCells DEF NoDangling, Live, Container
<1>5. \A x \in Node : h.chain[x] \in Seq(Cell)
  BY <1>2 DEF Heap
<1>6. \A x, y \in Node : \A c : c \in Cells(h, x) /\ c \in Cells(h, y) => x = y
  BY <1>1 DEF OneOwner
<1>7. QED BY <1>1, <1>2, <1>3, <1>4, <1>5, <1>6 DEF HeapTypeOK, NoDangling, OneOwner

(* What hangs in a cell does not have the cell's container. *)
LEMMA NotInHung ==
  ASSUME NEW h, NEW R, WellFormed(h, R), NEW p \in Node, NEW c \in Cells(h, p)
  PROVE  /\ p \notin Hung(h, c) /\ c \notin HungCells(h, c)
         /\ Hung(h, c) \subseteq Node /\ Hung(h, c) \subseteq Tree(h, p)
         /\ Closed(h, Hung(h, c))
<1>0. /\ h \in Heap /\ R \in SUBSET Node /\ p \in Live(h)
      /\ NoDangling(h) /\ OneOwner(h, R) /\ Reached(h, R)
  BY WellFormedTypes, WellFormedParts
<1>1. CASE h.val[c] = NULL
  BY <1>1 DEF Hung, HungCells, Closed
<1>2. CASE h.val[c] # NULL
  <2>1. h.val[c] \in Kids(h, p) /\ h.val[c] \in Node
    BY <1>0, <1>2, KidsInNode DEF Kids
  <2>2. p \notin Hung(h, c) /\ Hung(h, c) \subseteq Node /\ Closed(h, Hung(h, c))
    BY <1>0, <1>2, <2>1, NoCycle, TreeFacts DEF Hung
  <2>3. Hung(h, c) \subseteq Tree(h, p)
    <3>1. h.val[c] \in Tree(h, p) /\ Closed(h, Tree(h, p)) /\ Tree(h, p) \in SUBSET Node
      BY <1>0, <2>1, TreeFacts DEF Closed
    <3>2. QED BY <1>0, <1>2, <2>1, <3>1, TreeFacts DEF Hung
  <2>4. QED BY <2>2, <2>3, WellFormedTypes DEF HungCells
<1>3. QED BY <1>1, <1>2

(* Clearing a slot does not change what hung there ... *)
LEMMA HungAlone ==
  ASSUME NEW h, NEW R, WellFormed(h, R), NEW p \in Node, NEW c \in Cells(h, p),
         h.val[c] # NULL
  PROVE  Tree(SetVal(h, c, NULL), h.val[c]) = Hung(h, c)
<1> DEFINE e == SetVal(h, c, NULL)
           v == h.val[c]
<1>0. /\ h \in Heap /\ c \in Cell /\ NULL \in Node \cup {NULL} /\ v \in Node
  BY WellFormedTypes, KidsInNode DEF Kids
<1>1. /\ e \in Heap
      /\ \A d \in Cell \ {c} : e.val[d] = h.val[d]
      /\ \A x \in Node : Cells(e, x) = Cells(h, x)
  BY <1>0, SetValFields
<1> HIDE DEF e
<1>2. Tree(e, v) \subseteq Tree(h, v)
  <2>1. \A x \in Node : Kids(e, x) \subseteq Kids(h, x)
    <3> SUFFICES ASSUME NEW x \in Node, NEW d \in Cells(h, x), e.val[d] # NULL
                 PROVE  e.val[d] \in Kids(h, x)
      BY <1>1 DEF Kids
    <3>1. d \in Cell
      BY <1>0, KidsInNode
    <3>2. d # c
      BY <1>0 DEF e, SetVal, Heap
    <3>3. QED BY <1>1, <3>1, <3>2 DEF Kids
  <2>2. QED BY <1>0, <1>1, <2>1, TreeMonotonic
<1>3. Tree(h, v) \subseteq Tree(e, v)
  <2>1. p \notin Tree(h, v)
    BY NotInHung DEF Hung
  <2>2. Closed(h, Tree(e, v))
    <3> SUFFICES ASSUME NEW x \in Tree(e, v), NEW d \in Cells(h, x), h.val[d] # NULL
                 PROVE  h.val[d] \in Tree(e, v)
      BY DEF Closed, Kids
    <3>1. x \in Node /\ x # p /\ d \in Cell
      BY <1>0, <1>1, <1>2, <2>1, TreeFacts, KidsInNode
    <3>2. d # c
      BY <3>1, WellFormedTypes
    <3>3. h.val[d] \in Kids(e, x)
      BY <1>1, <3>1, <3>2 DEF Kids
    <3>4. QED BY <1>0, <1>1, <3>3, TreeFacts DEF Closed
  <2>3. QED BY <1>0, <1>1, <2>2, TreeFacts
<1>4. QED BY <1>2, <1>3 DEF Hung, e

(* ... so this is what a value that takes its place leaves. *)
LEMMA SetAgainWrites ==
  ASSUME NEW h, NEW R, WellFormed(h, R), NEW p \in Node, NEW c \in Cells(h, p),
         NEW v \in R \cup {NULL}, v # NULL => p \notin Tree(h, v)
  PROVE  LET g == SetVal(FreeVal(h, c), c, v)
         IN  Wrote(h, g, p, c, v) /\ WellFormed(g, R \ {v})
<1> DEFINE e == SetVal(h, c, NULL)
           f == FreeVal(h, c)
           g == SetVal(f, c, v)
<1>0. /\ h \in Heap /\ c \in Cell /\ c \in h.cells /\ NULL \in Node \cup {NULL}
      /\ v \in Node \cup {NULL} /\ p \notin Hung(h, c) /\ c \notin HungCells(h, c)
      /\ Hung(h, c) \subseteq Node
  BY WellFormedTypes, NotInHung
<1>1. /\ e \in Heap
      /\ e.type = h.type /\ e.chain = h.chain /\ e.cells = h.cells /\ e.key = h.key
      /\ e.val[c] = NULL
      /\ \A d \in Cell \ {c} : e.val[d] = h.val[d]
      /\ \A x \in Node : Cells(e, x) = Cells(h, x)
  BY <1>0, SetValFields
<1>2. /\ WellFormed(f, R) /\ Cells(f, p) = Cells(h, p) /\ f.val[c] = NULL
      /\ \A x \in Node : Kids(f, x) \subseteq Kids(h, x)
  BY FreeValWellFormed
<1>3. f \in Heap
  BY <1>2, WellFormedTypes
<1>4. f = FreeNode(e, h.val[c])
  BY DEF FreeVal
<1> HIDE DEF e, f
<1>5. /\ \A x \in Node : f.type[x] = IF x \in Hung(h, c) THEN "FREE" ELSE h.type[x]
      /\ \A x \in Node : f.chain[x] = IF x \in Hung(h, c) THEN <<>> ELSE h.chain[x]
      /\ f.cells = h.cells \ HungCells(h, c)
      /\ \A d \in f.cells \ {c} : f.val[d] = h.val[d] /\ f.key[d] = h.key[d]
      /\ f.key[c] = h.key[c]
  <2>1. CASE h.val[c] = NULL
    <3>1. f = e /\ Hung(h, c) = {} /\ HungCells(h, c) = {}
      BY <1>4, <2>1 DEF FreeNode, Hung, HungCells
    <3>2. h.cells \subseteq Cell
      BY WellFormedTypes
    <3>3. QED BY <1>1, <3>1, <3>2
  <2>2. CASE h.val[c] # NULL
    <3>1. f = FreeTree(e, h.val[c])
      BY <1>4, <2>2 DEF FreeNode
    <3>2. Tree(e, h.val[c]) = Hung(h, c)
      BY <2>2, HungAlone DEF e
    <3>3. TreeCells(e, h.val[c]) = HungCells(h, c)
      BY <1>0, <1>1, <3>2 DEF TreeCells, HungCells
    <3>4. /\ f.type = [x \in Node |-> IF x \in Hung(h, c) THEN "FREE" ELSE e.type[x]]
          /\ f.chain = [x \in Node |-> IF x \in Hung(h, c) THEN <<>> ELSE e.chain[x]]
          /\ f.cells = e.cells \ HungCells(h, c)
          /\ f.key = [d \in Cell |-> IF d \in HungCells(h, c) THEN NULL ELSE e.key[d]]
          /\ f.val = [d \in Cell |-> IF d \in HungCells(h, c) THEN NULL ELSE e.val[d]]
      BY <3>1, <3>2, <3>3 DEF FreeTree
    <3>5. h.cells \subseteq Cell
      BY WellFormedTypes
    <3>6. QED BY <1>0, <1>1, <3>4, <3>5
  <2>3. QED BY <2>1, <2>2
<1>6. /\ g \in Heap
      /\ g.type = f.type /\ g.chain = f.chain /\ g.cells = f.cells /\ g.key = f.key
      /\ g.val[c] = v
      /\ \A d \in Cell \ {c} : g.val[d] = f.val[d]
  BY <1>0, <1>3, SetValFields
<1>7. v # NULL => p \notin Tree(f, v)
  BY <1>0, <1>2, <1>3, TreeMonotonic
<1>8. WellFormed(g, R \ {v})
  BY <1>2, <1>7, FillWellFormed
<1>9. Wrote(h, g, p, c, v)
  <2>1. g.cells = (h.cells \ HungCells(h, c)) \cup {c} /\ g.cells \subseteq Cell
    BY <1>0, <1>5, <1>6, WellFormedTypes
  <2> HIDE DEF g
  <2>2. \A d \in g.cells \ {c} : g.val[d] = h.val[d] /\ g.key[d] = h.key[d]
    BY <1>5, <1>6, <2>1
  <2>3. QED BY <1>0, <1>5, <1>6, <2>1, <2>2 DEF Wrote
<1>10. QED BY <1>8, <1>9 DEF f

(* So does a value in a new cell at the end. *)
LEMMA AppendWrites ==
  ASSUME NEW h, NEW R, WellFormed(h, R), NEW p \in Node, NEW c \in FreshCells(h),
         NEW v \in R \cup {NULL}, v # NULL => p \notin Tree(h, v),
         NEW a \in Heap, WellFormed(a, R),
         a.type = h.type, a.val = h.val, a.cells = h.cells \cup {c},
         \A x \in Node : a.chain[x] = IF x = p THEN Append(h.chain[p], c) ELSE h.chain[x],
         \A d \in Cell \ {c} : a.key[d] = h.key[d],
         \A x \in Node : Kids(a, x) = Kids(h, x)
  PROVE  LET g == SetVal(a, c, v)
         IN  /\ Wrote(h, g, p, c, v) /\ WellFormed(g, R \ {v})
             /\ g.key[c] = a.key[c]
<1> DEFINE g == SetVal(a, c, v)
<1>0. /\ h \in Heap /\ c \in Cell /\ c \notin h.cells /\ h.cells \subseteq Cell
      /\ v \in Node \cup {NULL} /\ h.val[c] = NULL
  BY WellFormedTypes DEF FreshCells
<1>1. /\ g \in Heap
      /\ g.type = a.type /\ g.chain = a.chain /\ g.cells = a.cells /\ g.key = a.key
      /\ g.val[c] = v
      /\ \A d \in Cell \ {c} : g.val[d] = a.val[d]
  BY <1>0, SetValFields
<1>2. Hung(h, c) = {} /\ HungCells(h, c) = {}
  BY <1>0 DEF Hung, HungCells
<1>3. c \in Cells(a, p)
  BY <1>0, ToSetAppend, WellFormedTypes DEF Cells
<1>4. v # NULL => p \notin Tree(a, v)
  BY <1>0, TreeMonotonic
<1>5. WellFormed(g, R \ {v})
  BY <1>0, <1>3, <1>4, FillWellFormed
<1>6. Wrote(h, g, p, c, v)
  <2> HIDE DEF g
  <2>1. QED BY <1>0, <1>1, <1>2 DEF Wrote
<1>7. QED BY <1>1, <1>5, <1>6

(* pt_map_set *)
LEMMA MapSetWrites ==
  ASSUME NEW R, WellFormed(heap, R), NEW m \in Node, heap.type[m] = "MAP", NEW k \in Key,
         NEW slot \in Cells(heap, m) \cup {NULL},
         NEW v \in R, m \notin Tree(heap, v), NEW g \in MapSet(m, k, slot, v)
  PROVE  /\ WellFormed(g, R \ {v})
         /\ \E c \in Cell : /\ Wrote(heap, g, m, c, v)
                            /\ slot = NULL => c \notin heap.cells /\ g.key[c] = k
                            /\ slot # NULL => c = slot
<1>1. CASE slot # NULL
  <2>1. g = SetVal(FreeVal(heap, slot), slot, v) /\ slot \in Cell
    BY <1>1, WellFormedTypes DEF MapSet
  <2>2. QED BY <1>1, <2>1, SetAgainWrites
<1>2. CASE slot = NULL
  <2>1. PICK c \in FreshCells(heap) : g = SetVal(AddPair(heap, m, c, k), c, v)
    BY <1>2 DEF MapSet
  <2>2. c \in Cell /\ c \notin heap.cells /\ heap \in Heap
    BY WellFormedTypes DEF FreshCells
  <2> DEFINE a == AddPair(heap, m, c, k)
  <2>3. /\ WellFormed(a, R) /\ a.type = heap.type /\ a.val = heap.val
        /\ a.cells = heap.cells \cup {c}
        /\ \A x \in Node : Kids(a, x) = Kids(heap, x)
    BY AddPairWellFormed
  <2>4. /\ \A x \in Node : a.chain[x] = IF x = m THEN Append(heap.chain[m], c) ELSE heap.chain[x]
        /\ \A d \in Cell \ {c} : a.key[d] = heap.key[d]
        /\ a.key[c] = k
    BY <2>2 DEF AddPair, Heap
  <2>5. a \in Heap
    BY <2>3, WellFormedTypes
  <2> HIDE DEF a
  <2>6. /\ Wrote(heap, SetVal(a, c, v), m, c, v) /\ WellFormed(SetVal(a, c, v), R \ {v})
        /\ SetVal(a, c, v).key[c] = k
    BY <2>3, <2>4, <2>5, AppendWrites
  <2>7. QED BY <1>2, <2>1, <2>2, <2>6 DEF a
<1>3. QED BY <1>1, <1>2

(* pt_array_push_back *)
LEMMA PushBackWrites ==
  ASSUME NEW R, WellFormed(heap, R), NEW m \in Node, heap.type[m] = "ARRAY",
         NEW v \in R \cup {NULL}, v # NULL => m \notin Tree(heap, v),
         NEW g \in ArrayPushBack(m, v)
  PROVE  /\ WellFormed(g, R \ {v})
         /\ \E c \in Cell : Wrote(heap, g, m, c, v) /\ c \notin heap.cells
<1>1. PICK c \in FreshCells(heap) : g = SetVal(AddElemBack(heap, m, c), c, v)
  BY DEF ArrayPushBack
<1>2. c \in Cell /\ c \notin heap.cells /\ heap \in Heap
  BY WellFormedTypes DEF FreshCells
<1> DEFINE a == AddElemBack(heap, m, c)
<1>3. /\ WellFormed(a, R) /\ a.type = heap.type /\ a.val = heap.val
      /\ a.cells = heap.cells \cup {c}
      /\ \A x \in Node : Kids(a, x) = Kids(heap, x)
  BY AddElemBackWellFormed
<1>4. /\ \A x \in Node : a.chain[x] = IF x = m THEN Append(heap.chain[m], c) ELSE heap.chain[x]
      /\ \A d \in Cell \ {c} : a.key[d] = heap.key[d]
  BY <1>2 DEF AddElemBack, Heap
<1>5. a \in Heap
  BY <1>3, WellFormedTypes
<1> HIDE DEF a
<1>6. Wrote(heap, SetVal(a, c, v), m, c, v) /\ WellFormed(SetVal(a, c, v), R \ {v})
  BY <1>3, <1>4, <1>5, AppendWrites
<1>7. QED BY <1>1, <1>2, <1>6 DEF a

----------------------------------------------------------------------------
(* What a turn leaves of the documents *)

(* What is reached through maps is the least set that is closed so. *)
LEMMA ThroughMapsFacts ==
  ASSUME NEW h \in Heap, NEW n \in Node
  PROVE  /\ ThroughMaps(h, n) \subseteq Node
         /\ n \in ThroughMaps(h, n)
         /\ \A y \in ThroughMaps(h, n) : h.type[y] = "MAP" => Kids(h, y) \subseteq ThroughMaps(h, n)
         /\ \A S \in SUBSET Node :
              n \in S /\ (\A y \in S : h.type[y] = "MAP" => Kids(h, y) \subseteq S) =>
                ThroughMaps(h, n) \subseteq S
<1>1. \A y \in ThroughMaps(h, n) : h.type[y] = "MAP" => Kids(h, y) \subseteq ThroughMaps(h, n)
  BY KidsInNode DEF ThroughMaps
<1>2. QED BY <1>1 DEF ThroughMaps

(* What hangs in a slot, or in a cell that is new. *)
LEMMA WroteHung ==
  ASSUME NEW h, NEW R, WellFormed(h, R), NEW p \in Node, NEW c \in Cell, NEW v, NEW g,
         Wrote(h, g, p, c, v)
  PROVE  /\ Hung(h, c) \subseteq Node /\ Closed(h, Hung(h, c))
         /\ Hung(h, c) \subseteq Tree(h, p) /\ c \notin HungCells(h, c)
         /\ h.val[c] = NULL \/ (h.val[c] \in Hung(h, c) /\ c \in Cells(h, p))
<1>1. CASE c \in h.cells
  <2>1. c \in Cells(h, p)
    BY <1>1 DEF Wrote
  <2>2. h.val[c] # NULL => h.val[c] \in Kids(h, p)
    BY <2>1 DEF Kids
  <2>3. h.val[c] # NULL => h.val[c] \in Hung(h, c)
    BY <2>2, WellFormedTypes, TreeFacts DEF Hung
  <2>4. QED BY <2>1, <2>3, NotInHung
<1>2. CASE c \notin h.cells
  <2>1. h.val[c] = NULL
    BY <1>2, WellFormedTypes
  <2>2. Hung(h, c) = {} /\ HungCells(h, c) = {}
    BY <2>1 DEF Hung, HungCells
  <2>3. QED BY <2>1, <2>2 DEF Closed
<1>3. QED BY <1>1, <1>2

LEMMA WroteCells ==
  ASSUME NEW h, NEW R, WellFormed(h, R), NEW p \in Node, NEW c \in Cell, NEW v, NEW g,
         Wrote(h, g, p, c, v)
  PROVE  /\ \A x \in Hung(h, c) : Cells(g, x) = {}
         /\ \A x \in Node \ Hung(h, c) :
              /\ Cells(g, x) = Cells(h, x) \cup (IF x = p THEN {c} ELSE {})
              /\ Cells(h, x) \subseteq g.cells
         /\ c \in Cells(g, p)
<1>1. Hung(h, c) \subseteq Node
  BY WroteHung
<1>2. \A x \in Hung(h, c) : Cells(g, x) = {}
  BY <1>1, NoCells DEF Wrote
<1>3. ASSUME NEW x \in Node \ Hung(h, c)
      PROVE  /\ Cells(g, x) = Cells(h, x) \cup (IF x = p THEN {c} ELSE {})
             /\ Cells(h, x) \subseteq g.cells
  <2>1. Cells(h, x) \subseteq h.cells
    BY WellFormedTypes
  <2>2. Cells(h, x) \cap HungCells(h, c) = {}
    BY <1>1, <1>3, WellFormedTypes DEF HungCells
  <2>3. Cells(h, x) \subseteq g.cells
    BY <2>1, <2>2 DEF Wrote
  <2>4. CASE x = p /\ c \notin h.cells
    <3>1. g.chain[x] = Append(h.chain[x], c) /\ h.chain[x] \in Seq(Cell)
      BY <1>3, <2>4, WellFormedTypes DEF Wrote
    <3>2. QED BY <2>3, <2>4, <3>1, ToSetAppend DEF Cells
  <2>5. CASE ~(x = p /\ c \notin h.cells)
    <3>1. g.chain[x] = h.chain[x]
      BY <1>3, <2>5 DEF Wrote
    <3>2. x = p => c \in Cells(h, x)
      BY <2>5 DEF Wrote
    <3>3. QED BY <2>3, <3>1, <3>2 DEF Cells
  <2>6. QED BY <2>4, <2>5
<1>4. c \in Cells(g, p)
  BY <1>3 DEF Wrote
<1>5. QED BY <1>2, <1>3, <1>4

LEMMA WroteKids ==
  ASSUME NEW h, NEW R, WellFormed(h, R), NEW p \in Node, NEW c \in Cell, NEW v, NEW g,
         Wrote(h, g, p, c, v)
  PROVE  /\ \A x \in Hung(h, c) : Kids(g, x) = {}
         /\ \A x \in Node \ Hung(h, c) :
              /\ Kids(g, x) \subseteq Kids(h, x) \cup (IF x = p THEN {v} \ {NULL} ELSE {})
              /\ Kids(h, x) \ Hung(h, c) \subseteq Kids(g, x)
         /\ v # NULL => v \in Kids(g, p)
<1>1. \A x \in Hung(h, c) : Kids(g, x) = {}
  BY WroteCells DEF Kids
<1>2. ASSUME NEW x \in Node \ Hung(h, c)
      PROVE  /\ Kids(g, x) \subseteq Kids(h, x) \cup (IF x = p THEN {v} \ {NULL} ELSE {})
             /\ Kids(h, x) \ Hung(h, c) \subseteq Kids(g, x)
  <2>1. ASSUME NEW d \in Cells(g, x), g.val[d] # NULL
        PROVE  g.val[d] \in Kids(h, x) \cup (IF x = p THEN {v} \ {NULL} ELSE {})
    <3>1. CASE d = c
      <4>1. c \in Cells(h, x) => x = p
        BY WellFormedTypes DEF Wrote
      <4>2. x = p
        BY <1>2, <3>1, <4>1, WroteCells
      <4>3. QED BY <2>1, <3>1, <4>2 DEF Wrote
    <3>2. CASE d # c
      <4>1. d \in Cells(h, x) /\ d \in g.cells
        BY <1>2, <3>2, WroteCells
      <4>2. QED BY <2>1, <3>2, <4>1 DEF Kids, Wrote
    <3>3. QED BY <3>1, <3>2
  <2>2. ASSUME NEW d \in Cells(h, x), h.val[d] # NULL, h.val[d] \notin Hung(h, c)
        PROVE  h.val[d] \in Kids(g, x)
    <3>1. d # c
      BY <2>2, WroteHung
    <3>2. d \in Cells(g, x) /\ d \in g.cells
      BY <1>2, WroteCells
    <3>3. QED BY <2>2, <3>1, <3>2 DEF Kids, Wrote
  <2>3. QED BY <2>1, <2>2 DEF Kids
<1>3. v # NULL => v \in Kids(g, p)
  BY WroteCells DEF Kids, Wrote
<1>4. QED BY <1>1, <1>2, <1>3

(* A document gains what was put in, if it was put into it, ... *)
LEMMA TreeGains ==
  ASSUME NEW h, NEW R, WellFormed(h, R), NEW p \in Node, NEW c \in Cell,
         NEW v \in Node \cup {NULL}, NEW g, Wrote(h, g, p, c, v), NEW y \in Node
  PROVE  /\ p \notin Tree(h, y) => Tree(g, y) \subseteq Tree(h, y)
         /\ v = NULL => Tree(g, y) \subseteq Tree(h, y)
         /\ v # NULL => Tree(g, y) \subseteq Tree(h, y) \cup Tree(h, v)
<1>0. h \in Heap /\ g \in Heap
  BY WellFormedTypes DEF Wrote
<1>1. ASSUME p \notin Tree(h, y) \/ v = NULL PROVE Tree(g, y) \subseteq Tree(h, y)
  <2>1. Closed(g, Tree(h, y))
    BY <1>0, <1>1, TreeFacts, WroteKids DEF Closed
  <2>2. QED BY <1>0, <2>1, TreeFacts
<1>2. ASSUME v # NULL PROVE Tree(g, y) \subseteq Tree(h, y) \cup Tree(h, v)
  <2> DEFINE S == Tree(h, y) \cup Tree(h, v)
  <2>1. v \in Node /\ S \in SUBSET Node /\ y \in S /\ v \in S /\ Closed(h, S)
    BY <1>0, <1>2, TreeFacts DEF Closed
  <2>2. Closed(g, S)
    <3> HIDE DEF S
    <3>1. QED BY <2>1, WroteKids DEF Closed
  <2>3. QED BY <1>0, <2>1, <2>2, TreeFacts
<1>3. QED BY <1>1, <1>2

(* ... and loses what was freed. *)
LEMMA TreeKept ==
  ASSUME NEW h, NEW R, WellFormed(h, R), NEW p \in Node, NEW c \in Cell, NEW v, NEW g,
         Wrote(h, g, p, c, v), NEW y \in Node
  PROVE  /\ Tree(h, y) \subseteq Tree(g, y) \cup Hung(h, c)
         /\ ThroughMaps(h, y) \subseteq ThroughMaps(g, y) \cup Hung(h, c)
<1>0. h \in Heap /\ g \in Heap /\ Hung(h, c) \subseteq Node /\ Closed(h, Hung(h, c))
  BY WellFormedTypes, WroteHung DEF Wrote
<1>1. Tree(h, y) \subseteq Tree(g, y) \cup Hung(h, c)
  <2> DEFINE S == Tree(g, y) \cup Hung(h, c)
  <2>1. S \in SUBSET Node /\ y \in S
    BY <1>0, TreeFacts
  <2>2. ASSUME NEW x \in S PROVE Kids(h, x) \subseteq S
    <3>1. CASE x \in Hung(h, c)
      BY <1>0, <3>1 DEF Closed
    <3>2. CASE x \notin Hung(h, c)
      BY <1>0, <2>1, <2>2, <3>2, TreeFacts, WroteKids DEF Closed
    <3>3. QED BY <3>1, <3>2
  <2> HIDE DEF S
  <2>3. Tree(h, y) \subseteq S
    BY <1>0, <2>1, <2>2, TreeFacts DEF Closed
  <2>4. QED BY <2>3 DEF S
<1>2. ThroughMaps(h, y) \subseteq ThroughMaps(g, y) \cup Hung(h, c)
  <2> DEFINE S == ThroughMaps(g, y) \cup Hung(h, c)
  <2>1. S \in SUBSET Node /\ y \in S
    BY <1>0, ThroughMapsFacts
  <2>2. ASSUME NEW x \in S, h.type[x] = "MAP" PROVE Kids(h, x) \subseteq S
    <3>1. CASE x \in Hung(h, c)
      BY <1>0, <3>1 DEF Closed
    <3>2. CASE x \notin Hung(h, c)
      <4>1. g.type[x] = "MAP" /\ x \in ThroughMaps(g, y) /\ x \in Node
        BY <2>1, <2>2, <3>2 DEF Wrote
      <4>2. QED BY <1>0, <3>2, <4>1, ThroughMapsFacts, WroteKids
    <3>3. QED BY <3>1, <3>2
  <2> HIDE DEF S
  <2>3. ThroughMaps(h, y) \subseteq S
    BY <1>0, <2>1, <2>2, ThroughMapsFacts
  <2>4. QED BY <2>3 DEF S
<1>3. QED BY <1>1, <1>2

(* A document that keeps its kids is the same. *)
LEMMA SameKids ==
  ASSUME NEW h \in Heap, NEW g \in Heap, \A x \in Node : Kids(g, x) = Kids(h, x), NEW y \in Node
  PROVE  /\ Tree(g, y) = Tree(h, y)
         /\ (\A x \in Node : Kids(h, x) # {} => g.type[x] = h.type[x]) =>
              ThroughMaps(g, y) = ThroughMaps(h, y)
<1>1. Tree(g, y) = Tree(h, y)
  BY TreeMonotonic
<1>2. ASSUME \A x \in Node : Kids(h, x) # {} => g.type[x] = h.type[x]
      PROVE  ThroughMaps(g, y) = ThroughMaps(h, y)
  <2>1. \A x \in Node, S \in SUBSET Node :
          (g.type[x] = "MAP" => Kids(g, x) \subseteq S)
            <=> (h.type[x] = "MAP" => Kids(h, x) \subseteq S)
    BY <1>2
  <2>2. ThroughMaps(g, y) \subseteq ThroughMaps(h, y)
    BY <2>1, ThroughMapsFacts
  <2>3. ThroughMaps(h, y) \subseteq ThroughMaps(g, y)
    BY <2>1, ThroughMapsFacts
  <2>4. QED BY <2>2, <2>3
<1>3. QED BY <1>1, <1>2

(* calloc of a node *)
LEMMA NewNodeEffect ==
  ASSUME NEW h, NEW R, WellFormed(h, R), NEW n \in FreshNodes(h), NEW t \in NodeType,
         NEW g, g = NewNode(h, n, t)
  PROVE  /\ n \notin R /\ n \in Node /\ n \notin Live(h)
         /\ g \in Heap /\ g.chain = h.chain /\ g.cells = h.cells
         /\ g.key = h.key /\ g.val = h.val
         /\ g.type[n] = t /\ \A x \in Node \ {n} : g.type[x] = h.type[x]
         /\ Live(g) = Live(h) \cup {n}
         /\ Cells(g, n) = {} /\ g.chain[n] = <<>> /\ Tree(g, n) = {n}
         /\ \A x \in Node : /\ Cells(g, x) = Cells(h, x) /\ Kids(g, x) = Kids(h, x)
                            /\ Tree(g, x) = Tree(h, x)
                            /\ ThroughMaps(g, x) = ThroughMaps(h, x)
<1>1. WellFormed(g, R \cup {n}) /\ n \notin R
  BY NewNodeWellFormed
<1>2. n \in Node /\ n \notin Live(h) /\ h \in Heap /\ g \in Heap /\ "FREE" \notin NodeType
  BY <1>1, WellFormedTypes DEF FreshNodes, NodeType
<1>3. /\ g.chain = h.chain /\ g.cells = h.cells /\ g.key = h.key /\ g.val = h.val
      /\ g.type[n] = t /\ \A x \in Node \ {n} : g.type[x] = h.type[x]
  BY <1>2 DEF NewNode, Heap
<1>4. Cells(h, n) = {} /\ Kids(h, n) = {} /\ h.chain[n] = <<>>
  <2>1. NoDangling(h) /\ h.type[n] = "FREE"
    BY <1>2, WellFormedParts DEF Live
  <2>2. h.chain[n] = <<>>
    BY <1>2, <2>1 DEF NoDangling, Container
  <2>3. QED BY FreeNodeIsLeaf, <2>2
<1>5. \A x \in Node : Cells(g, x) = Cells(h, x) /\ Kids(g, x) = Kids(h, x)
  BY <1>3 DEF Cells, Kids
<1>6. \A x \in Node : Tree(g, x) = Tree(h, x) /\ ThroughMaps(g, x) = ThroughMaps(h, x)
  <2>1. \A x \in Node : Kids(h, x) # {} => g.type[x] = h.type[x]
    BY <1>3, <1>4
  <2>2. QED BY <1>2, <1>5, <2>1, SameKids
<1>7. Tree(g, n) = {n}
  BY <1>2, <1>4, <1>5, LeafTree
<1>8. Live(g) = Live(h) \cup {n}
  BY <1>2, <1>3 DEF Live
<1>9. QED BY <1>1, <1>2, <1>3, <1>4, <1>5, <1>6, <1>7, <1>8

----------------------------------------------------------------------------
(* Documents within documents *)

LEMMA TreeTransitive ==
  ASSUME NEW h \in Heap, NEW y \in Node, NEW x \in Tree(h, y)
  PROVE  x \in Node /\ Tree(h, x) \subseteq Tree(h, y)
BY TreeFacts

(* An owned node is in no other document. *)
LEMMA OwnerOutside ==
  ASSUME NEW h, NEW R, WellFormed(h, R), NEW r \in R, NEW y \in Node, r # y
  PROVE  r \notin Tree(h, y)
<1> SUFFICES ASSUME r \in Tree(h, y) PROVE FALSE
  OBVIOUS
<1>1. h \in Heap /\ NoDangling(h) /\ OneOwner(h, R)
  BY WellFormedTypes, WellFormedParts
<1>2. PICK p \in Tree(h, y) : r \in Kids(h, p)
  BY <1>1, ParentInTree
<1>3. p \in Node
  BY <1>1, TreeFacts
<1>4. QED BY <1>1, <1>2, <1>3, RootHasNoParent

(* What hangs outside of an owned document is outside of it. *)
LEMMA KidOutside ==
  ASSUME NEW h, NEW R, WellFormed(h, R), NEW r \in R,
         NEW p \in Node, p \notin Tree(h, r), NEW x \in Kids(h, p)
  PROVE  x \notin Tree(h, r)
<1> SUFFICES ASSUME x \in Tree(h, r) PROVE FALSE
  OBVIOUS
<1>1. h \in Heap /\ NoDangling(h) /\ OneOwner(h, R) /\ r \in Node
  BY WellFormedTypes, WellFormedParts
<1>2. x # r
  BY <1>1, RootHasNoParent
<1>3. PICK q \in Tree(h, r) : x \in Kids(h, q)
  BY <1>1, <1>2, ParentInTree
<1>4. q \in Node /\ x \in Kids(h, p) \cap Kids(h, q)
  BY <1>1, <1>3, TreeFacts
<1>5. p = q
  BY <1>1, <1>4, UniqueParent
<1>6. QED BY <1>3, <1>5

----------------------------------------------------------------------------
(* The call stack *)

Tops(s) == {s[i].to : i \in {j \in 1..Len(s) : s[j].f = "clone"}}

(* A frame by itself: its loop is at a cell of what it reads, and it does not
   work on a clone that is not part of anything, unless it makes it.         *)
FrameOK(h, F, T) ==
  /\ F.to \in Live(h) /\ F.from \in Live(h)
  /\ h.type[F.to] = h.type[F.from]
  /\ F.at \in Cells(h, F.from) \cup {NULL}
  /\ F.f = "update" => h.type[F.to] = "MAP"
  /\ \A m \in T : F.from \notin Tree(h, m) /\ (F.f = "update" => F.to \notin Tree(h, m))

(* F has called G. *)
LinkOK(h, F, G) ==
  /\ F.at # NULL /\ h.val[F.at] = G.from
  /\ F.f = "update" => F.slot \in Found(h, F.to, NameAt(h, F.at))
  /\ G.f = "update" => F.slot # NULL /\ h.val[F.slot] = G.to
  /\ F.f = "update" /\ G.f = "clone" /\ Value(h, F.slot) # NULL =>
       h.type[Value(h, F.slot)] # "MAP"

(* G was called after F. *)
PairOK(h, F, G) ==
  /\ F.f = "clone" => G.f = "clone" /\ F.to # G.to
  /\ F.f = "update" /\ G.f = "update" =>
       G.to \in Tree(h, F.to) \ {F.to} /\ G.from \in Tree(h, F.from) \ {F.from}

StackOK(h, s) ==
  /\ \A i \in 1..Len(s) : FrameOK(h, s[i], Tops(s))
  /\ \A i \in 1..(Len(s) - 1) : LinkOK(h, s[i], s[i + 1])
  /\ \A i, j \in 1..Len(s) : i < j => PairOK(h, s[i], s[j])

LEMMA FrameFields ==
  ASSUME NEW s \in Seq(Frame), NEW i \in 1..Len(s)
  PROVE  /\ s[i] \in Frame /\ s[i].to \in Node /\ s[i].from \in Node
         /\ s[i].f \in {"update", "clone"}
         /\ s[i].at \in Cell \cup {NULL} /\ s[i].slot \in Cell \cup {NULL}
<1>1. s[i] \in Frame
  OBVIOUS
<1>2. QED BY <1>1 DEF Frame

(* What a turn frees is neither filled nor read by a call under way, as long as
   the loop's own cell is there.                                              *)
LEMMA FreedIsNotInUse ==
  ASSUME NEW h, NEW R, WellFormed(h, R), NEW s \in Seq(Frame), s # <<>>, StackOK(h, s),
         Tops(s) \subseteq R,
         NEW c \in Cell, NEW v, NEW g, Wrote(h, g, s[Len(s)].to, c, v),
         s[Len(s)].at \in g.cells
  PROVE  \A i \in 1..Len(s) : s[i].to \notin Hung(h, c) /\ s[i].from \notin Hung(h, c)
<1> DEFINE n == Len(s)
           F == s[n]
<1>0. n \in Nat \ {0} /\ n \in 1..n /\ F.to \in Node /\ F.from \in Node /\ h \in Heap
  BY FrameFields, WellFormedTypes, LenProperties, EmptySeq
<1>1. /\ Hung(h, c) \subseteq Node /\ Closed(h, Hung(h, c)) /\ Hung(h, c) \subseteq Tree(h, F.to)
      /\ c \notin HungCells(h, c) /\ F.to \notin Hung(h, c)
  BY <1>0, WroteHung DEF Wrote
<1>2. \A x \in Hung(h, c) : Tree(h, x) \subseteq Hung(h, c)
  BY <1>0, <1>1, TreeFacts
<1>3. F.from \notin Hung(h, c)
  <2>1. FrameOK(h, F, Tops(s))
    BY <1>0 DEF StackOK
  <2>2. F.at \in g.cells /\ g.cells \subseteq Cell
    BY DEF Wrote, Heap
  <2>3. F.at \in Cells(h, F.from)
    BY <2>1, <2>2, AddressAssumption DEF FrameOK
  <2>4. F.at \notin HungCells(h, c)
    BY <1>1, <2>2 DEF Wrote
  <2>5. QED BY <2>3, <2>4 DEF HungCells
<1> SUFFICES ASSUME NEW i \in 1..n, i # n
             PROVE  s[i].to \notin Hung(h, c) /\ s[i].from \notin Hung(h, c)
  BY <1>1, <1>3
<1>4. PairOK(h, s[i], F) /\ FrameOK(h, s[i], Tops(s)) /\ i < n
  BY <1>0 DEF StackOK
<1>5. s[i].to \in Node /\ s[i].from \in Node /\ s[i].f \in {"update", "clone"}
      /\ F.f \in {"update", "clone"}
  BY <1>0, FrameFields
<1>6. CASE F.f = "update"
  <2>1. F.to \in Tree(h, s[i].to) /\ F.from \in Tree(h, s[i].from)
    BY <1>4, <1>5, <1>6 DEF PairOK
  <2>2. QED BY <1>1, <1>2, <1>3, <2>1
<1>7. CASE F.f = "clone"
  <2>1. F.to \in Tops(s)
    BY <1>0, <1>7 DEF Tops
  <2>2. s[i].from \notin Tree(h, F.to)
    BY <1>4, <2>1 DEF FrameOK
  <2>3. s[i].f = "clone" => s[i].to \in R /\ s[i].to # F.to
    BY <1>0, <1>4, <1>7 DEF PairOK, Tops
  <2>4. s[i].to \notin Tree(h, F.to)
    BY <1>0, <1>4, <1>5, <2>1, <2>3, OwnerOutside DEF FrameOK
  <2>5. QED BY <1>1, <2>2, <2>4
<1>8. QED BY <1>5, <1>6, <1>7

(* A turn keeps the call stack in order. *)
LEMMA WroteStack ==
  ASSUME NEW h, NEW R, WellFormed(h, R), NEW s \in Seq(Frame), s # <<>>, StackOK(h, s),
         Tops(s) \subseteq R,
         NEW c \in Cell, NEW v \in (R \cup {NULL}) \ Tops(s), NEW g,
         Wrote(h, g, s[Len(s)].to, c, v), s[Len(s)].at \in g.cells,
         v # NULL => \A i \in 1..Len(s) : /\ s[i].from \notin Tree(h, v)
                                          /\ s[i].f = "update" => s[i].to \notin Tree(h, v)
  PROVE  StackOK(g, s)
<1> DEFINE n == Len(s)
           p == s[n].to
<1>0. /\ n \in Nat \ {0} /\ n \in 1..n /\ p \in Node /\ h \in Heap /\ g \in Heap
      /\ R \subseteq Node /\ v \in Node \cup {NULL}
  BY FrameFields, WellFormedTypes, LenProperties, EmptySeq DEF Wrote
<1>1. \A i \in 1..n : s[i].to \notin Hung(h, c) /\ s[i].from \notin Hung(h, c)
  BY FreedIsNotInUse
<1>2. \A i \in 1..n : /\ s[i].to \in Node /\ s[i].from \in Node
                      /\ s[i].f \in {"update", "clone"}
                      /\ s[i].at \in Cell \cup {NULL} /\ s[i].slot \in Cell \cup {NULL}
  BY FrameFields
<1>3. \A i \in 1..n : /\ Cells(h, s[i].to) \subseteq Cells(g, s[i].to) \cap g.cells
                      /\ Cells(h, s[i].from) \subseteq Cells(g, s[i].from) \cap g.cells
  BY <1>0, <1>1, <1>2, WroteCells
<1>4. ASSUME NEW i \in 1..n PROVE FrameOK(g, s[i], Tops(s))
  <2>0. FrameOK(h, s[i], Tops(s))
    BY <1>0 DEF StackOK
  <2>1. g.type[s[i].to] = h.type[s[i].to] /\ g.type[s[i].from] = h.type[s[i].from]
    BY <1>1, <1>2 DEF Wrote
  <2>2. s[i].to \in Live(g) /\ s[i].from \in Live(g)
    BY <1>2, <2>0, <2>1 DEF FrameOK, Live
  <2>3. \A m \in Tops(s) : s[i].from \notin Tree(g, m)
                           /\ (s[i].f = "update" => s[i].to \notin Tree(g, m))
    <3> SUFFICES ASSUME NEW m \in Tops(s)
                 PROVE  s[i].from \notin Tree(g, m)
                        /\ (s[i].f = "update" => s[i].to \notin Tree(g, m))
      OBVIOUS
    <3>1. m \in Node
      BY <1>0
    <3>2. /\ v = NULL => Tree(g, m) \subseteq Tree(h, m)
          /\ v # NULL => Tree(g, m) \subseteq Tree(h, m) \cup Tree(h, v)
      BY <1>0, <3>1, TreeGains
    <3>3. s[i].from \notin Tree(h, m) /\ (s[i].f = "update" => s[i].to \notin Tree(h, m))
      BY <2>0 DEF FrameOK
    <3>4. QED BY <3>2, <3>3
  <2>4. s[i].at \in Cells(g, s[i].from) \cup {NULL}
    BY <1>3, <2>0 DEF FrameOK
  <2>5. QED BY <2>0, <2>1, <2>2, <2>3, <2>4 DEF FrameOK
<1>5. ASSUME NEW i \in 1..(n - 1) PROVE LinkOK(g, s[i], s[i + 1])
  <2> DEFINE F == s[i]
             G == s[i + 1]
  <2>0. i \in 1..n /\ i + 1 \in 1..n /\ i < n /\ i # n
    BY <1>0
  <2>1. LinkOK(h, F, G) /\ FrameOK(h, F, Tops(s)) /\ PairOK(h, F, s[n])
    BY <1>0, <2>0 DEF StackOK
  <2>2. F.at \in Cells(h, F.from) /\ F.at \in g.cells /\ h.val[F.at] = G.from /\ F.at # NULL
    BY <1>3, <2>0, <2>1 DEF LinkOK, FrameOK
  <2>3. h.val[c] = NULL \/ h.val[c] \in Hung(h, c)
    BY <1>0, WroteHung
  <2>4. F.at # c
    BY <1>1, <1>2, <2>0, <2>2, <2>3, AddressAssumption
  <2>5. g.val[F.at] = G.from /\ g.key[F.at] = h.key[F.at]
    BY <2>2, <2>4 DEF Wrote
  <2>6. ASSUME F.f = "update"
        PROVE  /\ F.slot \in Found(g, F.to, NameAt(g, F.at))
               /\ Value(g, F.slot) = Value(h, F.slot)
               /\ Value(h, F.slot) # NULL /\ h.type[Value(h, F.slot)] # "MAP" =>
                    g.type[Value(g, F.slot)] # "MAP"
    <3>1. F.to # p
      <4>1. CASE s[n].f = "clone"
        <5>1. p \in Tops(s)
          BY <1>0, <4>1 DEF Tops
        <5>2. F.to \notin Tree(h, p)
          BY <2>1, <2>6, <5>1 DEF FrameOK
        <5>3. QED BY <1>0, <5>2, TreeFacts
      <4>2. CASE s[n].f = "update"
        BY <2>1, <2>6, <4>2 DEF PairOK
      <4>3. QED BY <1>0, <1>2, <4>1, <4>2
    <3>2. F.to \notin Hung(h, c) /\ F.to \in Node
      BY <1>1, <1>2, <2>0
    <3>3. Cells(g, F.to) = Cells(h, F.to) /\ Cells(h, F.to) \subseteq g.cells
      <4>1. \A x \in Node \ Hung(h, c) :
              /\ Cells(g, x) = Cells(h, x) \cup (IF x = p THEN {c} ELSE {})
              /\ Cells(h, x) \subseteq g.cells
        BY <1>0, WroteCells
      <4>2. QED BY <3>1, <3>2, <4>1
    <3>4. c \notin Cells(h, F.to)
      BY <1>0, <3>1, <3>2, WellFormedTypes DEF Wrote
    <3>5. \A d \in Cells(h, F.to) : g.key[d] = h.key[d] /\ g.val[d] = h.val[d]
      BY <3>3, <3>4 DEF Wrote
    <3>6. \A k : Matches(g, F.to, k) = Matches(h, F.to, k)
      BY <3>3, <3>5 DEF Matches
    <3>7. NameAt(g, F.at) = NameAt(h, F.at)
      BY <2>5 DEF NameAt
    <3>8. Found(g, F.to, NameAt(g, F.at)) = Found(h, F.to, NameAt(h, F.at))
      BY <3>6, <3>7 DEF Found
    <3>9. F.slot \in Found(h, F.to, NameAt(h, F.at))
      BY <2>1, <2>6 DEF LinkOK
    <3>10. F.slot # NULL => F.slot \in Cells(h, F.to)
      BY <3>9 DEF Found, Matches
    <3>11. Value(g, F.slot) = Value(h, F.slot)
      BY <3>5, <3>10 DEF Value
    <3>12. Value(h, F.slot) # NULL => Value(h, F.slot) \in Node
      BY <1>0, <3>2, <3>10, KidsInNode DEF Value, Kids
    <3>13. QED BY <3>8, <3>9, <3>11, <3>12 DEF Wrote
  <2>7. /\ G.f = "update" => F.slot # NULL /\ g.val[F.slot] = G.to
        /\ F.f = "update" /\ G.f = "clone" /\ Value(g, F.slot) # NULL =>
             g.type[Value(g, F.slot)] # "MAP"
    <3>1. G.f = "update" => F.f = "update"
      <4>1. PairOK(h, F, G)
        BY <1>0, <2>0 DEF StackOK
      <4>2. QED BY <1>2, <2>0, <4>1 DEF PairOK
    <3>2. QED BY <2>1, <2>6, <3>1 DEF LinkOK, Value
  <2>8. QED BY <2>2, <2>5, <2>6, <2>7 DEF LinkOK
<1>6. ASSUME NEW i \in 1..n, NEW j \in 1..n, i < j PROVE PairOK(g, s[i], s[j])
  <2>1. PairOK(h, s[i], s[j])
    BY <1>6 DEF StackOK
  <2>2. /\ Tree(h, s[i].to) \subseteq Tree(g, s[i].to) \cup Hung(h, c)
        /\ Tree(h, s[i].from) \subseteq Tree(g, s[i].from) \cup Hung(h, c)
    BY <1>0, <1>2, TreeKept
  <2>3. s[j].to \notin Hung(h, c) /\ s[j].from \notin Hung(h, c)
    BY <1>1
  <2>4. QED BY <2>1, <2>2, <2>3 DEF PairOK
<1>7. QED BY <1>4, <1>5, <1>6 DEF StackOK

(* The call at hand returns. *)
LEMMA PopFacts ==
  ASSUME NEW s \in Seq(Frame), s # <<>>
  PROVE  LET t == SubSeq(s, 1, Len(s) - 1)
         IN  /\ t \in Seq(Frame) /\ Len(s) \in Nat \ {0} /\ Len(t) = Len(s) - 1
             /\ \A i \in 1..Len(t) : t[i] = s[i]
             /\ Tops(t) \subseteq Tops(s)
             /\ Tops(s) = Tops(t) \cup (IF s[Len(s)].f = "clone" THEN {s[Len(s)].to} ELSE {})
<1> DEFINE n == Len(s)
           t == SubSeq(s, 1, n - 1)
<1>1. n \in Nat \ {0}
  BY LenProperties, EmptySeq
<1>2. t \in Seq(Frame) /\ Len(t) = n - 1 /\ \A i \in 1..(n - 1) : t[i] = s[i]
  <2>1. 1 \in Int /\ n - 1 \in Int /\ \A i \in 1..(n - 1) : i \in 1..n /\ s[i] \in Frame
    BY <1>1
  <2> DEFINE m == n - 1
  <2>2. /\ SubSeq(s, 1, m) \in Seq(Frame)
        /\ Len(SubSeq(s, 1, m)) = IF 1 <= m THEN m - 1 + 1 ELSE 0
        /\ \A i \in 1..(m - 1 + 1) : SubSeq(s, 1, m)[i] = s[1 + i - 1]
    <3> HIDE DEF m, n
    <3>1. QED BY <2>1, SubSeqProperties DEF m
  <2>3. m \in Nat /\ t = SubSeq(s, 1, m)
    BY <1>1
  <2> HIDE DEF m, t
  <2>4. Len(t) = m
    BY <2>2, <2>3
  <2>5. \A i \in 1..m : 1 + i - 1 = i /\ i \in 1..(m - 1 + 1)
    BY <2>3
  <2>6. \A i \in 1..m : t[i] = s[i]
    BY <2>2, <2>3, <2>5
  <2>7. QED BY <2>2, <2>3, <2>4, <2>6 DEF m
<1> HIDE DEF t
<1>3. Tops(t) \subseteq Tops(s)
  BY <1>1, <1>2 DEF Tops
<1>4. Tops(s) \subseteq Tops(t) \cup (IF s[n].f = "clone" THEN {s[n].to} ELSE {})
  BY <1>1, <1>2 DEF Tops
<1>5. s[n].f = "clone" => s[n].to \in Tops(s)
  BY <1>1 DEF Tops
<1>6. QED BY <1>1, <1>2, <1>3, <1>4, <1>5 DEF t

LEMMA PopStack ==
  ASSUME NEW h, NEW s \in Seq(Frame), s # <<>>, StackOK(h, s)
  PROVE  LET t == SubSeq(s, 1, Len(s) - 1)
         IN  /\ StackOK(h, t)
             /\ s[Len(s)].f = "clone" => s[Len(s)].to \notin Tops(t)
             /\ s[Len(s)].f = "update" => Tops(s) = {}
<1> DEFINE n == Len(s)
           t == SubSeq(s, 1, n - 1)
<1>1. /\ t \in Seq(Frame) /\ n \in Nat \ {0} /\ Len(t) = n - 1
      /\ \A i \in 1..(n - 1) : t[i] = s[i]
      /\ Tops(t) \subseteq Tops(s)
  BY PopFacts
<1> HIDE DEF t
<1>2. \A i \in 1..(n - 1) : i \in 1..n /\ i < n /\ PairOK(h, s[i], s[n])
  BY <1>1 DEF StackOK
<1>3. StackOK(h, t)
  <2>1. \A i \in 1..Len(t) : FrameOK(h, t[i], Tops(t))
    BY <1>1 DEF StackOK, FrameOK
  <2>2. \A i \in 1..(Len(t) - 1) : LinkOK(h, t[i], t[i + 1])
    BY <1>1 DEF StackOK
  <2>3. \A i, j \in 1..Len(t) : i < j => PairOK(h, t[i], t[j])
    BY <1>1 DEF StackOK
  <2>4. QED BY <2>1, <2>2, <2>3 DEF StackOK
<1>4. s[n].f = "clone" => s[n].to \notin Tops(t)
  BY <1>1, <1>2 DEF Tops, PairOK
<1>5. s[n].f = "update" => Tops(s) = {}
  <2> SUFFICES ASSUME s[n].f = "update", NEW i \in 1..n, s[i].f = "clone" PROVE FALSE
    BY DEF Tops
  <2>1. i \in 1..(n - 1)
    BY <1>1
  <2>2. QED BY <1>2, <2>1 DEF PairOK
<1>6. QED BY <1>3, <1>4, <1>5 DEF t

(* s and t are the same but for the loop's place and the slot of the last call *)
SameCalls(s, t) ==
  /\ t \in Seq(Frame) /\ Len(t) = Len(s)
  /\ \A i \in 1..Len(s) : t[i].f = s[i].f /\ t[i].to = s[i].to /\ t[i].from = s[i].from
  /\ \A i \in 1..(Len(s) - 1) : t[i] = s[i]

LEMMA MoveFacts ==
  ASSUME NEW s \in Seq(Frame), s # <<>>, NEW x \in Cell \cup {NULL}
  PROVE  /\ LET t == [s EXCEPT ![Len(s)].at = x]
            IN  SameCalls(s, t) /\ t[Len(s)].at = x /\ t[Len(s)].slot = s[Len(s)].slot
         /\ LET t == [s EXCEPT ![Len(s)].slot = x]
            IN  SameCalls(s, t) /\ t[Len(s)].slot = x /\ t[Len(s)].at = s[Len(s)].at
<1> DEFINE n == Len(s)
           F == s[n]
<1>1. n \in Nat \ {0} /\ n \in 1..n /\ DOMAIN s = 1..n
  BY LenProperties, EmptySeq
<1>2. F \in Frame
  BY <1>1
<1>3. ASSUME NEW G \in Frame, G.f = F.f, G.to = F.to, G.from = F.from
      PROVE  SameCalls(s, [s EXCEPT ![n] = G]) /\ [s EXCEPT ![n] = G][n] = G
  <2> DEFINE t == [s EXCEPT ![n] = G]
  <2>1. t \in Seq(Frame) /\ Len(t) = n
    BY <1>1, ExceptSeq
  <2>2. \A i \in 1..n : t[i] = IF i = n THEN G ELSE s[i]
    BY <1>1
  <2>3. \A i \in 1..(n - 1) : i \in 1..n /\ i # n
    <3> HIDE DEF n
    <3>1. QED BY <1>1
  <2> HIDE DEF t
  <2>4. QED BY <1>1, <1>3, <2>1, <2>2, <2>3 DEF SameCalls, t
<1>4. [F EXCEPT !.at = x] \in Frame /\ [F EXCEPT !.slot = x] \in Frame
  BY <1>2 DEF Frame
<1>5. /\ [F EXCEPT !.at = x].at = x /\ [F EXCEPT !.at = x].slot = F.slot
      /\ [F EXCEPT !.at = x].f = F.f
      /\ [F EXCEPT !.at = x].to = F.to /\ [F EXCEPT !.at = x].from = F.from
      /\ [F EXCEPT !.slot = x].slot = x /\ [F EXCEPT !.slot = x].at = F.at
      /\ [F EXCEPT !.slot = x].f = F.f
      /\ [F EXCEPT !.slot = x].to = F.to /\ [F EXCEPT !.slot = x].from = F.from
  BY <1>2 DEF Frame
<1>6. /\ [s EXCEPT ![n].at = x] = [s EXCEPT ![n] = [F EXCEPT !.at = x]]
      /\ [s EXCEPT ![n].slot = x] = [s EXCEPT ![n] = [F EXCEPT !.slot = x]]
  OBVIOUS
<1>7. QED BY <1>3, <1>4, <1>5, <1>6

LEMMA MoveStack ==
  ASSUME NEW h, NEW s \in Seq(Frame), s # <<>>, StackOK(h, s), NEW t, SameCalls(s, t),
         t[Len(s)].at \in Cells(h, s[Len(s)].from) \cup {NULL}
  PROVE  StackOK(h, t) /\ Tops(t) = Tops(s)
<1> DEFINE n == Len(s)
<1>0. n \in Nat \ {0} /\ n \in 1..n /\ Len(t) = n
  BY LenProperties, EmptySeq DEF SameCalls
<1>1. \A i \in 1..n : t[i].f = s[i].f /\ t[i].to = s[i].to /\ t[i].from = s[i].from
  BY DEF SameCalls
<1>2. \A i \in 1..(n - 1) : t[i] = s[i] /\ i \in 1..n /\ i + 1 \in 1..n
  BY <1>0 DEF SameCalls
<1>3. Tops(t) = Tops(s)
  BY <1>0, <1>1 DEF Tops
<1>4. \A i \in 1..n : FrameOK(h, t[i], Tops(t))
  <2> SUFFICES ASSUME NEW i \in 1..n PROVE FrameOK(h, t[i], Tops(s))
    BY <1>3
  <2>1. FrameOK(h, s[i], Tops(s))
    BY DEF StackOK
  <2>2. t[i].at \in Cells(h, s[i].from) \cup {NULL}
    BY <1>0, <1>2, <2>1 DEF FrameOK
  <2>3. QED BY <1>1, <2>1, <2>2 DEF FrameOK
<1>5. \A i \in 1..(n - 1) : LinkOK(h, t[i], t[i + 1])
  <2> SUFFICES ASSUME NEW i \in 1..(n - 1) PROVE LinkOK(h, t[i], t[i + 1])
    OBVIOUS
  <2>1. LinkOK(h, s[i], s[i + 1])
    BY DEF StackOK
  <2>2. t[i] = s[i] /\ t[i + 1].f = s[i + 1].f /\ t[i + 1].to = s[i + 1].to
        /\ t[i + 1].from = s[i + 1].from
    BY <1>1, <1>2
  <2>3. QED BY <2>1, <2>2 DEF LinkOK
<1>6. \A i, j \in 1..n : i < j => PairOK(h, t[i], t[j])
  <2> SUFFICES ASSUME NEW i \in 1..n, NEW j \in 1..n, i < j PROVE PairOK(h, t[i], t[j])
    OBVIOUS
  <2>1. PairOK(h, s[i], s[j])
    BY DEF StackOK
  <2>2. QED BY <1>1, <2>1 DEF PairOK
<1>7. QED BY <1>0, <1>3, <1>4, <1>5, <1>6 DEF StackOK

(* A call is made. *)
LEMMA PushFacts ==
  ASSUME NEW s \in Seq(Frame), NEW G \in Frame
  PROVE  LET t == Append(s, G)
         IN  /\ t \in Seq(Frame) /\ t # <<>> /\ Len(t) = Len(s) + 1 /\ t[Len(s) + 1] = G
             /\ \A i \in 1..Len(s) : t[i] = s[i]
             /\ Tops(t) = Tops(s) \cup (IF G.f = "clone" THEN {G.to} ELSE {})
<1> DEFINE t == Append(s, G)
<1>1. /\ Len(s) \in Nat /\ t \in Seq(Frame) /\ Len(t) = Len(s) + 1
      /\ t[Len(s) + 1] = G /\ \A i \in 1..Len(s) : t[i] = s[i]
  BY LenProperties, AppendProperties
<1> HIDE DEF t
<1>2. t # <<>>
  BY <1>1, EmptySeq
<1>3. 1..Len(t) = 1..Len(s) \cup {Len(s) + 1}
  BY <1>1
<1>4. Tops(t) = Tops(s) \cup (IF G.f = "clone" THEN {G.to} ELSE {})
  BY <1>1, <1>3 DEF Tops
<1>5. QED BY <1>1, <1>2, <1>4 DEF t

LEMMA PushStack ==
  ASSUME NEW h, NEW s \in Seq(Frame), StackOK(h, s), NEW G \in Frame,
         LET T == Tops(Append(s, G))
         IN  FrameOK(h, G, T) /\ \A i \in 1..Len(s) : FrameOK(h, s[i], T),
         s # <<>> => LinkOK(h, s[Len(s)], G),
         \A i \in 1..Len(s) : PairOK(h, s[i], G)
  PROVE  StackOK(h, Append(s, G))
<1> DEFINE t == Append(s, G)
           n == Len(s)
<1>1. /\ n \in Nat /\ t \in Seq(Frame) /\ Len(t) = n + 1 /\ t[n + 1] = G
      /\ \A i \in 1..n : t[i] = s[i]
  BY LenProperties, PushFacts
<1>2. \A i \in 1..n : FrameOK(h, t[i], Tops(t))
  BY <1>1
<1>3. FrameOK(h, t[n + 1], Tops(t))
  BY <1>1
<1>4. n # 0 => LinkOK(h, t[n], t[n + 1])
  BY <1>1, EmptySeq
<1>5. \A i \in 1..(n - 1) : LinkOK(h, t[i], t[i + 1])
  <2>1. \A i \in 1..(n - 1) : i \in 1..n /\ i + 1 \in 1..n
    BY <1>1
  <2>2. QED BY <1>1, <2>1 DEF StackOK
<1>6. \A i \in 1..n : PairOK(h, t[i], t[n + 1])
  BY <1>1
<1>7. \A i, j \in 1..n : i < j => PairOK(h, t[i], t[j])
  BY <1>1 DEF StackOK
<1> HIDE DEF t, n
<1>8. 1..(n + 1) = 1..n \cup {n + 1}
  BY <1>1
<1>9. \A i \in 1..(n + 1) : FrameOK(h, t[i], Tops(t))
  BY <1>2, <1>3, <1>8
<1>10. \A i \in 1..(n + 1 - 1) : LinkOK(h, t[i], t[i + 1])
  <2>1. \A i \in 1..(n + 1 - 1) : i \in 1..(n - 1) \/ (i = n /\ n # 0)
    BY <1>1
  <2>2. QED BY <1>4, <1>5, <2>1
<1>11. \A i, j \in 1..(n + 1) : i < j => PairOK(h, t[i], t[j])
  <2>1. \A i, j \in 1..(n + 1) : i < j => i \in 1..n /\ (j \in 1..n \/ j = n + 1)
    BY <1>1
  <2>2. QED BY <1>6, <1>7, <2>1
<1>12. QED BY <1>1, <1>9, <1>10, <1>11 DEF StackOK, t

(* A node that is new is in nobody's way. *)
LEMMA NewNodeLink ==
  ASSUME NEW h, NEW R, WellFormed(h, R), NEW F \in Frame, NEW G, LinkOK(h, F, G),
         NEW m \in FreshNodes(h), NEW t \in NodeType, NEW g, g = NewNode(h, m, t)
  PROVE  LinkOK(g, F, G)
<1>1. /\ m \in Node /\ m \notin Live(h) /\ g.val = h.val /\ g.key = h.key
      /\ \A x \in Node \ {m} : g.type[x] = h.type[x]
      /\ \A x \in Node : Cells(g, x) = Cells(h, x)
  BY NewNodeEffect
<1>2. F.to \in Node /\ Live(h) \subseteq Node
  BY WellFormedTypes DEF Frame
<1>3. NameAt(g, F.at) = NameAt(h, F.at) /\ Value(g, F.slot) = Value(h, F.slot)
  BY <1>1 DEF NameAt, Value
<1>4. \A k : Matches(g, F.to, k) = Matches(h, F.to, k)
  BY <1>1, <1>2 DEF Matches
<1>5. Found(g, F.to, NameAt(g, F.at)) = Found(h, F.to, NameAt(h, F.at))
  BY <1>3, <1>4 DEF Found
<1>6. ASSUME F.slot \in Found(h, F.to, NameAt(h, F.at)), Value(h, F.slot) # NULL,
             h.type[Value(h, F.slot)] # "MAP"
      PROVE  g.type[Value(h, F.slot)] # "MAP"
  <2>1. F.slot \in Cells(h, F.to)
    BY <1>6 DEF Found, Matches, Value
  <2>2. Value(h, F.slot) \in Kids(h, F.to)
    BY <1>6, <2>1 DEF Value, Kids
  <2>3. Value(h, F.slot) \in Live(h)
    BY <1>2, <2>2, WellFormedTypes
  <2>4. QED BY <1>1, <1>2, <1>6, <2>3
<1>7. QED BY <1>1, <1>3, <1>5, <1>6 DEF LinkOK

LEMMA NewNodeStack ==
  ASSUME NEW h, NEW R, WellFormed(h, R), NEW s \in Seq(Frame), StackOK(h, s),
         Tops(s) \subseteq R, NEW m \in FreshNodes(h), NEW t \in NodeType,
         NEW g, g = NewNode(h, m, t)
  PROVE  StackOK(g, s) /\ \A i \in 1..Len(s) : FrameOK(g, s[i], Tops(s) \cup {m})
<1>1. /\ m \in Node /\ m \notin Live(h) /\ g.chain = h.chain /\ g.val = h.val /\ g.key = h.key
      /\ \A x \in Node \ {m} : g.type[x] = h.type[x]
      /\ Live(g) = Live(h) \cup {m} /\ Tree(g, m) = {m}
      /\ \A x \in Node : Cells(g, x) = Cells(h, x) /\ Tree(g, x) = Tree(h, x)
  BY NewNodeEffect
<1>2. R \subseteq Node /\ h \in Heap /\ R \subseteq Live(h)
  BY WellFormedTypes
<1>3. ASSUME NEW i \in 1..Len(s) PROVE FrameOK(g, s[i], Tops(s) \cup {m})
  <2>1. FrameOK(h, s[i], Tops(s)) /\ s[i].to \in Node /\ s[i].from \in Node
    BY FrameFields DEF StackOK
  <2>2. s[i].to # m /\ s[i].from # m
    BY <1>1, <2>1 DEF FrameOK
  <2>3. \A x \in Tops(s) : Tree(g, x) = Tree(h, x)
    BY <1>1, <1>2
  <2>4. QED BY <1>1, <2>1, <2>2, <2>3 DEF FrameOK
<1>4. \A i \in 1..Len(s) : FrameOK(g, s[i], Tops(s))
  BY <1>3 DEF FrameOK
<1>5. ASSUME NEW i \in 1..(Len(s) - 1) PROVE LinkOK(g, s[i], s[i + 1])
  <2>1. i \in 1..Len(s) /\ LinkOK(h, s[i], s[i + 1])
    BY LenProperties DEF StackOK
  <2>2. QED BY <2>1, FrameFields, NewNodeLink
<1>6. \A i, j \in 1..Len(s) : i < j => PairOK(g, s[i], s[j])
  <2> SUFFICES ASSUME NEW i \in 1..Len(s), NEW j \in 1..Len(s), i < j
               PROVE  PairOK(g, s[i], s[j])
    OBVIOUS
  <2>1. PairOK(h, s[i], s[j]) /\ s[i].to \in Node /\ s[i].from \in Node
    BY FrameFields DEF StackOK
  <2>2. QED BY <1>1, <2>1 DEF PairOK
<1>7. QED BY <1>3, <1>4, <1>5, <1>6 DEF StackOK

(* The loops' next cell is one of the container's, or none. *)
LEMMA NextCellFacts ==
  ASSUME NEW h \in Heap, NEW n \in Node
  PROVE  /\ FirstCell(h, n) \in Cells(h, n) \cup {NULL}
         /\ \A c \in Cells(h, n) : /\ PlaceOf(h, n, c) \in 1..Len(h.chain[n])
                                   /\ h.chain[n][PlaceOf(h, n, c)] = c
                                   /\ NextCell(h, n, c) \in Cells(h, n) \cup {NULL}
<1> DEFINE s == h.chain[n]
<1>1. s \in Seq(Cell) /\ DOMAIN s = 1..Len(s) /\ Cells(h, n) = {s[i] : i \in 1..Len(s)}
  BY ToSetDef DEF Heap, Cells
<1>2. FirstCell(h, n) \in Cells(h, n) \cup {NULL}
  <2>1. s # <<>> => 1 \in 1..Len(s)
    BY <1>1, EmptySeq, LenProperties
  <2>2. QED BY <1>1, <2>1 DEF FirstCell
<1>3. ASSUME NEW c \in Cells(h, n)
      PROVE  /\ PlaceOf(h, n, c) \in 1..Len(s) /\ s[PlaceOf(h, n, c)] = c
             /\ NextCell(h, n, c) \in Cells(h, n) \cup {NULL}
  <2>1. PlaceOf(h, n, c) \in 1..Len(s) /\ s[PlaceOf(h, n, c)] = c
    BY <1>1 DEF PlaceOf
  <2>2. PlaceOf(h, n, c) + 1 <= Len(s) => PlaceOf(h, n, c) + 1 \in 1..Len(s)
    BY <1>1, <2>1, LenProperties
  <2>3. NextCell(h, n, c) \in Cells(h, n) \cup {NULL}
    BY <1>1, <2>2 DEF NextCell
  <2>4. QED BY <2>1, <2>3
<1>4. QED BY <1>2, <1>3

(* What is reached from y through maps and is within k, is reached from k so. *)
LEMMA ThroughMapsWithin ==
  ASSUME NEW h, NEW R, WellFormed(h, R), NEW y \in Node, NEW k \in Node, y \notin Tree(h, k)
  PROVE  /\ ThroughMaps(h, y) \cap Tree(h, k) \subseteq ThroughMaps(h, k)
         /\ h.type[k] # "MAP" => ThroughMaps(h, y) \cap Tree(h, k) \subseteq {k}
<1> DEFINE S == (ThroughMaps(h, y) \ Tree(h, k)) \cup ThroughMaps(h, k)
<1>1. h \in Heap /\ NoDangling(h) /\ OneOwner(h, R)
  BY WellFormedTypes, WellFormedParts
<1>2. S \in SUBSET Node /\ y \in S
  BY <1>1, ThroughMapsFacts
<1>3. ASSUME NEW x \in S, h.type[x] = "MAP", NEW z \in Kids(h, x) PROVE z \in S
  <2>1. CASE x \in ThroughMaps(h, k)
    BY <1>1, <1>3, <2>1, ThroughMapsFacts
  <2>2. CASE x \in ThroughMaps(h, y) /\ x \notin Tree(h, k)
    <3>1. z \in ThroughMaps(h, y) /\ x \in Node
      BY <1>1, <1>2, <1>3, <2>2, ThroughMapsFacts
    <3>2. CASE z \in Tree(h, k) /\ z # k
      <4>1. PICK q \in Tree(h, k) : z \in Kids(h, q)
        BY <1>1, <3>2, ParentInTree
      <4>2. q \in Node /\ z \in Kids(h, q) \cap Kids(h, x)
        BY <1>1, <1>3, <4>1, TreeFacts
      <4>3. q = x
        BY <1>1, <3>1, <4>2, UniqueParent
      <4>4. QED BY <2>2, <4>1, <4>3
    <3>3. CASE z = k
      BY <1>1, <3>3, ThroughMapsFacts
    <3>4. QED BY <3>1, <3>2, <3>3
  <2>3. QED BY <2>1, <2>2
<1> HIDE DEF S
<1>4. ThroughMaps(h, y) \subseteq S
  BY <1>1, <1>2, <1>3, ThroughMapsFacts
<1>5. ThroughMaps(h, y) \cap Tree(h, k) \subseteq ThroughMaps(h, k)
  BY <1>4 DEF S
<1>6. ASSUME h.type[k] # "MAP" PROVE ThroughMaps(h, k) \subseteq {k}
  <2> DEFINE K == {k}
  <2>1. K \in SUBSET Node /\ k \in K /\ \A x \in K : h.type[x] # "MAP"
    BY <1>6
  <2> HIDE DEF K
  <2>2. ThroughMaps(h, k) \subseteq K
    BY <1>1, <2>1, ThroughMapsFacts
  <2>3. QED BY <2>2 DEF K
<1>7. QED BY <1>5, <1>6

----------------------------------------------------------------------------
(* The inductive invariant *)

(* additions is not within root, or between the two there are maps only *)
Orderly == call.from \in was.root => call.from \in ThroughMaps(was.heap, call.root)

(* then it is so for the maps that are merged within them, *)
Ordered(h, s) ==
  \A i \in 1..Len(s) :
    s[i].f = "update" /\ s[i].from \in Tree(h, s[i].to) => s[i].from \in ThroughMaps(h, s[i].to)

PairOf(F) == <<F.to, F.from>>

Underway ==
  /\ StackOK(heap, stack)
  /\ Orderly => Ordered(heap, stack)
  /\ \A i \in 1..Len(stack) : stack[i].f = "update" => PairOf(stack[i]) \in merged
  /\ stack # <<>> => /\ stack[1].f = call.f /\ stack[1].from = call.from
                     /\ stack[1].f = "update" => stack[1].to = call.root

MergeInv ==
  /\ MergeTypeOK
  /\ WellFormed(heap, Owners)
  /\ held \cap Filling = {}
  /\ StaleOnlyThroughArrays
  /\ ~stale => Underway

(* t is s, or what is left of s, with the loops further on. *)
Continues(s, t) ==
  /\ t \in Seq(Frame) /\ t # <<>> /\ Len(t) <= Len(s)
  /\ \A i \in 1..Len(t) : t[i].f = s[i].f /\ t[i].to = s[i].to /\ t[i].from = s[i].from

LEMMA FillingIsTops ==
  ASSUME stack \in Seq(Frame)
  PROVE  Filling = Tops(stack)
BY DEF Filling, Tops

(* In a call there is a frame at hand, ... *)
LEMMA AtTop ==
  ASSUME MergeInv, stack # <<>>, ~stale
  PROVE  /\ heap \in Heap /\ stack \in Seq(Frame) /\ StackOK(heap, stack)
         /\ Len(stack) \in Nat \ {0} /\ Len(stack) \in 1..Len(stack) /\ Top = stack[Len(stack)]
         /\ Filling = Tops(stack) /\ Tops(stack) \subseteq Owners /\ Owners \subseteq Live(heap)
         /\ Top \in Frame /\ Top.to \in Node /\ Top.from \in Node
         /\ FrameOK(heap, Top, Tops(stack)) /\ WellFormed(heap, Owners)
<1>1. /\ stack \in Seq(Frame) /\ StackOK(heap, stack) /\ WellFormed(heap, Owners)
  BY DEF MergeInv, MergeTypeOK, Underway
<1>2. Len(stack) \in Nat \ {0} /\ Len(stack) \in 1..Len(stack) /\ Top = stack[Len(stack)]
  BY <1>1, LenProperties, EmptySeq DEF Top
<1>3. Filling = Tops(stack) /\ Tops(stack) \subseteq Owners
  BY <1>1, FillingIsTops DEF Owners
<1>4. Top \in Frame /\ Top.to \in Node /\ Top.from \in Node
  BY <1>1, <1>2, FrameFields
<1>5. FrameOK(heap, Top, Tops(stack))
  BY <1>1, <1>2 DEF StackOK
<1>6. QED BY <1>1, <1>2, <1>3, <1>4, <1>5, WellFormedTypes

(* ... and what its loop is at is there. *)
LEMMA AtCell ==
  ASSUME NEW R, WellFormed(heap, R), NEW F \in Frame, NEW T, FrameOK(heap, F, T), F.at # NULL
  PROVE  /\ F.at \in Cells(heap, F.from) /\ F.at \in heap.cells /\ F.at \in Cell
         /\ heap.val[F.at] \in Live(heap) \cup {NULL}
         /\ heap.val[F.at] # NULL => heap.val[F.at] \in Kids(heap, F.from)
         /\ heap.type[F.to] \in Container
         /\ heap.type[F.to] # "ARRAY" => heap.type[F.to] = "MAP" /\ NameAt(heap, F.at) \in CKey
<1>1. /\ heap \in Heap /\ NoDangling(heap) /\ ShapeOK(heap)
      /\ F.from \in Node /\ F.to \in Node /\ F.at \in Cells(heap, F.from)
      /\ heap.type[F.to] = heap.type[F.from]
  BY WellFormedTypes, WellFormedParts DEF FrameOK, Frame
<1>2. F.at \in heap.cells /\ F.at \in Cell
  BY <1>1, WellFormedTypes
<1>3. /\ heap.val[F.at] \in Live(heap) \cup {NULL}
      /\ heap.val[F.at] # NULL => heap.val[F.at] \in Kids(heap, F.from)
  BY <1>1, <1>2 DEF NoDangling, Kids
<1>4. heap.type[F.to] \in Container
  BY <1>1, NoCells DEF NoDangling
<1>5. heap.type[F.to] # "ARRAY" => heap.type[F.to] = "MAP" /\ heap.key[F.at] # NULL
  BY <1>1, <1>4 DEF ShapeOK, Container
<1>6. heap.key[F.at] # NULL => NameAt(heap, F.at) \in CKey
  BY <1>1, <1>2, MergeAssumption DEF NameAt, Heap
<1>7. QED BY <1>1, <1>2, <1>3, <1>4, <1>5, <1>6

(* When the call at hand returns to another, that one goes on. *)
LEMMA AtPop ==
  ASSUME MergeInv, stack # <<>>, ~stale, Pop # <<>>
  PROVE  LET n == Len(Pop)
             F == Pop[n]
         IN  /\ Pop \in Seq(Frame) /\ n \in Nat \ {0} /\ n \in 1..n /\ Len(stack) = n + 1
             /\ \A i \in 1..n : Pop[i] = stack[i] /\ i \in 1..Len(stack)
             /\ StackOK(heap, Pop) /\ Tops(Pop) \subseteq Tops(stack)
             /\ Tops(stack) = Tops(Pop) \cup (IF Top.f = "clone" THEN {Top.to} ELSE {})
             /\ Top.f = "clone" => Top.to \notin Tops(Pop)
             /\ Top.f = "update" => Tops(stack) = {}
             /\ F \in Frame /\ F.to \in Node /\ F.from \in Node
             /\ FrameOK(heap, F, Tops(stack)) /\ F.at # NULL
             /\ LinkOK(heap, F, Top) /\ PairOK(heap, F, Top)
<1> DEFINE n == Len(Pop)
           F == Pop[n]
           m == Len(stack)
<1>1. /\ stack \in Seq(Frame) /\ StackOK(heap, stack) /\ m \in Nat \ {0} /\ Top = stack[m]
  BY AtTop
<1>2. /\ Pop \in Seq(Frame) /\ n = m - 1
      /\ \A i \in 1..n : Pop[i] = stack[i]
      /\ Tops(Pop) \subseteq Tops(stack)
      /\ Tops(stack) = Tops(Pop) \cup (IF Top.f = "clone" THEN {Top.to} ELSE {})
  BY <1>1, PopFacts DEF Pop
<1>3. /\ StackOK(heap, Pop)
      /\ Top.f = "clone" => Top.to \notin Tops(Pop)
      /\ Top.f = "update" => Tops(stack) = {}
  BY <1>1, PopStack DEF Pop
<1>4. n # 0
  BY <1>2, EmptySeq
<1>5. n \in Nat \ {0} /\ n \in 1..n /\ m = n + 1 /\ n \in 1..(m - 1) /\ n \in 1..m /\ m \in 1..m
      /\ n < m /\ \A i \in 1..n : i \in 1..m
  BY <1>1, <1>2, <1>4
<1>6. F = stack[n] /\ Top = stack[n + 1]
  BY <1>1, <1>2, <1>5
<1>7. FrameOK(heap, F, Tops(stack)) /\ LinkOK(heap, F, Top) /\ PairOK(heap, F, Top)
  BY <1>1, <1>5, <1>6 DEF StackOK
<1>8. F \in Frame /\ F.to \in Node /\ F.from \in Node
  BY <1>2, <1>5, FrameFields
<1>9. F.at # NULL
  BY <1>7 DEF LinkOK
<1>10. QED BY <1>2, <1>3, <1>5, <1>7, <1>8, <1>9

(* The loop of the call at hand in s takes its next cell, if its own is there. *)
LEMMA GoOnFacts ==
  ASSUME NEW h \in Heap, NEW s \in Seq(Frame), s # <<>>, s[Len(s)].at \in Cell,
         s[Len(s)].at \in h.cells => StackOK(h, s),
         s[Len(s)].at \in h.cells => s[Len(s)].at \in Cells(h, s[Len(s)].from), GoOn(h, s)
  PROVE  /\ heap' = h /\ SameCalls(s, stack') /\ Tops(stack') = Tops(s)
         /\ IF s[Len(s)].at \in h.cells
            THEN /\ stale' = stale /\ StackOK(h, stack')
                 /\ stack'[Len(s)].at = NextCell(h, s[Len(s)].from, s[Len(s)].at)
            ELSE stale' = TRUE
<1> DEFINE n == Len(s)
           F == s[n]
<1>1. n \in Nat \ {0} /\ n \in 1..n
  BY LenProperties, EmptySeq
<1>2. F.from \in Node
  BY <1>1, FrameFields
<1>3. heap' = h
  BY DEF GoOn
<1>4. CASE F.at \in h.cells
  <2> DEFINE x == NextCell(h, F.from, F.at)
  <2>1. stack' = [s EXCEPT ![n].at = x] /\ stale' = stale
    BY <1>4 DEF GoOn
  <2>2. x \in Cells(h, F.from) \cup {NULL} /\ x \in Cell \cup {NULL}
    BY <1>2, <1>4, NextCellFacts, KidsInNode
  <2> HIDE DEF x
  <2>3. SameCalls(s, stack') /\ stack'[n].at = x
    BY <2>1, <2>2, MoveFacts
  <2>4. StackOK(h, stack') /\ Tops(stack') = Tops(s)
    BY <1>4, <2>2, <2>3, MoveStack
  <2>5. QED BY <1>3, <1>4, <2>1, <2>3, <2>4 DEF x
<1>5. CASE F.at \notin h.cells
  <2>1. stack' = s /\ stale' = TRUE
    BY <1>5 DEF GoOn
  <2>2. QED BY <1>3, <1>5, <2>1 DEF SameCalls
<1>6. QED BY <1>4, <1>5

LEMMA SameContinues ==
  ASSUME NEW s \in Seq(Frame), s # <<>>, NEW t, SameCalls(s, t)
  PROVE  Continues(s, t)
<1>1. Len(s) \in Nat \ {0}
  BY LenProperties, EmptySeq
<1>2. t # <<>>
  BY <1>1, EmptySeq DEF SameCalls
<1>3. QED BY <1>1, <1>2 DEF SameCalls, Continues

(* What Underway says of the frames by themselves, when no new one is there. *)
LEMMA ContinuesUnderway ==
  ASSUME MergeInv, stack # <<>>, ~stale, Continues(stack, stack'), StackOK(heap', stack'),
         UNCHANGED <<call, merged, was>>,
         \A i \in 1..Len(stack') :
           /\ stack[i].from \notin Tree(heap, stack[i].to) =>
                stack[i].from \notin Tree(heap', stack[i].to)
           /\ stack[i].from \in ThroughMaps(heap, stack[i].to) =>
                stack[i].from \in ThroughMaps(heap', stack[i].to)
  PROVE  Underway'
<1>1. Underway /\ stack \in Seq(Frame) /\ Len(stack) \in Nat \ {0} /\ Len(stack') \in Nat \ {0}
  BY LenProperties, EmptySeq DEF MergeInv, MergeTypeOK, Continues
<1>2. \A i \in 1..Len(stack') : /\ i \in 1..Len(stack) /\ stack'[i].f = stack[i].f
                                /\ stack'[i].to = stack[i].to /\ stack'[i].from = stack[i].from
  BY <1>1 DEF Continues
<1>3. Orderly' => Ordered(heap', stack')
  <2>1. Orderly' <=> Orderly
    BY DEF Orderly
  <2>2. Orderly => Ordered(heap, stack)
    BY <1>1 DEF Underway
  <2>3. QED BY <1>2, <2>1, <2>2 DEF Ordered
<1>4. \A i \in 1..Len(stack') : stack'[i].f = "update" => PairOf(stack'[i]) \in merged'
  BY <1>1, <1>2 DEF Underway, PairOf
<1>5. /\ stack'[1].f = call'.f /\ stack'[1].from = call'.from
      /\ stack'[1].f = "update" => stack'[1].to = call'.root
  <2>1. 1 \in 1..Len(stack')
    BY <1>1
  <2>2. QED BY <1>1, <1>2, <2>1 DEF Underway
<1>6. QED BY <1>3, <1>4, <1>5 DEF Underway

----------------------------------------------------------------------------
(* The turns of the loops *)

(* where frame F puts a value *)
PutAt(g, F, c) ==
  LET k == NameAt(heap, F.at)
  IN  /\ heap.type[F.to] = "ARRAY" => c \notin heap.cells
      /\ heap.type[F.to] = "MAP" =>
           \/ c \in Matches(heap, F.to, k)
           \/ c \notin heap.cells /\ g.key[c] = k /\ Matches(heap, F.to, k) = {}
      /\ F.f = "update" /\ F.slot # NULL => c = F.slot

LEMMA PutWrites ==
  ASSUME NEW R, WellFormed(heap, R), NEW F \in Frame, NEW T, FrameOK(heap, F, T), F.at # NULL,
         F.f = "update" => F.slot \in Found(heap, F.to, NameAt(heap, F.at)),
         NEW v \in R \cup {NULL}, v = NULL => heap.type[F.to] = "ARRAY",
         v # NULL => F.to \notin Tree(heap, v), NEW g \in Put(F, v)
  PROVE  /\ WellFormed(g, R \ {v})
         /\ \E c \in Cell : Wrote(heap, g, F.to, c, v) /\ PutAt(g, F, c)
<1>1. F.to \in Node /\ NULL \notin Node /\ R \subseteq Node /\ F.f \in {"update", "clone"}
  BY WellFormedTypes, AddressAssumption DEF Frame
<1>2. CASE heap.type[F.to] = "ARRAY"
  <2>1. g \in ArrayPushBack(F.to, v)
    BY <1>2 DEF Put
  <2>2. /\ WellFormed(g, R \ {v})
        /\ \E c \in Cell : Wrote(heap, g, F.to, c, v) /\ c \notin heap.cells
    BY <1>1, <1>2, <2>1, PushBackWrites
  <2>3. F.f # "update"
    BY <1>2 DEF FrameOK
  <2>4. QED BY <1>2, <2>2, <2>3 DEF PutAt
<1>3. CASE heap.type[F.to] # "ARRAY"
  <2> DEFINE k == NameAt(heap, F.at)
             slots == IF F.f = "update" THEN {F.slot} ELSE Found(heap, F.to, k)
  <2>1. heap.type[F.to] = "MAP" /\ k \in Key /\ v # NULL /\ v \in R
    BY <1>3, AtCell, AddressAssumption
  <2>2. PICK slot \in slots : g \in MapSet(F.to, k, slot, v)
    BY <1>3, <2>1 DEF Put
  <2>3. slot \in Found(heap, F.to, k) /\ (F.f = "update" => slot = F.slot)
    BY <2>2
  <2>4. /\ slot = NULL \/ slot \in Matches(heap, F.to, k)
        /\ slot = NULL => Matches(heap, F.to, k) = {}
    <3>1. \A c \in Matches(heap, F.to, k) : c \in Cell
      BY <1>1, WellFormedTypes, KidsInNode DEF Matches
    <3>2. QED BY <2>3, <3>1, AddressAssumption DEF Found
  <2>5. slot \in Cells(heap, F.to) \cup {NULL}
    BY <2>4 DEF Matches
  <2> HIDE DEF k, slots
  <2>6. F.to \notin Tree(heap, v)
    BY <2>1
  <2>7. /\ WellFormed(g, R \ {v})
        /\ \E c \in Cell : /\ Wrote(heap, g, F.to, c, v)
                           /\ slot = NULL => c \notin heap.cells /\ g.key[c] = k
                           /\ slot # NULL => c = slot
    BY <1>1, <2>1, <2>2, <2>5, <2>6, MapSetWrites
  <2>8. QED BY <2>1, <2>3, <2>4, <2>7 DEF PutAt, k
<1>4. QED BY <1>2, <1>3

(* A loop goes on, and nothing was written. *)
LEMMA QuietTurn ==
  ASSUME MergeInv, stack # <<>>, ~stale, NEW s,
         s = stack \/ (s = Pop /\ Pop # <<>> /\ Top.f = "update"),
         s[Len(s)].at # NULL, GoOn(heap, s)
  PROVE  /\ heap' = heap /\ stale' = stale /\ s # <<>> /\ SameCalls(s, stack')
         /\ Continues(stack, stack') /\ StackOK(heap, stack') /\ Tops(stack') = Tops(stack)
         /\ stack'[Len(s)].at = NextCell(heap, s[Len(s)].from, s[Len(s)].at)
<1> DEFINE F == s[Len(s)]
<1>1. /\ s \in Seq(Frame) /\ s # <<>> /\ StackOK(heap, s) /\ Tops(s) = Tops(stack)
      /\ heap \in Heap /\ WellFormed(heap, Owners)
      /\ F \in Frame /\ FrameOK(heap, F, Tops(stack))
      /\ Continues(stack, s)
  <2>1. heap \in Heap /\ WellFormed(heap, Owners)
    BY AtTop
  <2>2. CASE s = stack
    BY <2>1, <2>2, AtTop DEF Continues
  <2>3. CASE s = Pop /\ Pop # <<>> /\ Top.f = "update"
    <3>1. Continues(stack, Pop)
      BY <2>3, AtPop DEF Continues
    <3>2. QED BY <2>1, <2>3, <3>1, AtPop
  <2>4. QED BY <2>2, <2>3
<1>2. F.at \in heap.cells /\ F.at \in Cell /\ F.at \in Cells(heap, F.from)
  BY <1>1, AtCell
<1>3. /\ heap' = heap /\ SameCalls(s, stack') /\ Tops(stack') = Tops(s)
      /\ stale' = stale /\ StackOK(heap, stack')
      /\ stack'[Len(s)].at = NextCell(heap, F.from, F.at)
  BY <1>1, <1>2, GoOnFacts
<1>4. Continues(stack, stack')
  BY <1>1, <1>3, SameContinues DEF Continues
<1>5. QED BY <1>1, <1>3, <1>4

(* who may go on with which value: the call at hand, which found none, or the one that
   the clone returns to                                                                *)
Writes(s, v) ==
  \/ s = stack /\ Top.f = "clone" /\ v = NULL /\ heap.type[Top.to] = "ARRAY"
  \/ s = Pop /\ Pop # <<>> /\ Top.f = "clone" /\ v = Top.to

LEMMA WriterFacts ==
  ASSUME MergeInv, stack # <<>>, ~stale, NEW s, NEW v, Writes(s, v), s[Len(s)].at # NULL
  PROVE  LET F == s[Len(s)]
         IN  /\ s \in Seq(Frame) /\ s # <<>> /\ StackOK(heap, s) /\ Continues(stack, s)
             /\ Tops(s) = Tops(stack) \ {v} /\ Tops(s) \subseteq Owners
             /\ v \in (Owners \cup {NULL}) \ Tops(s) /\ Owners \ {v} = held \cup Tops(s)
             /\ F \in Frame /\ F.to \in Node /\ F.from \in Node
             /\ FrameOK(heap, F, Tops(stack))
             /\ F.f = "update" => F.slot \in Found(heap, F.to, NameAt(heap, F.at))
             /\ v = NULL => heap.type[F.to] = "ARRAY"
             /\ v # NULL => /\ v \in Tops(stack) /\ F.to \notin Tree(heap, v)
                            /\ \A i \in 1..Len(s) : /\ s[i].from \notin Tree(heap, v)
                                                    /\ s[i].f = "update" =>
                                                         s[i].to \notin Tree(heap, v)
<1> DEFINE F == s[Len(s)]
<1>0. /\ heap \in Heap /\ WellFormed(heap, Owners) /\ Filling = Tops(stack)
      /\ Tops(stack) \subseteq Owners /\ Owners \subseteq Node /\ NULL \notin Node
      /\ held \cap Tops(stack) = {} /\ Owners = held \cup Tops(stack)
      /\ stack \in Seq(Frame) /\ StackOK(heap, stack)
  BY AtTop, WellFormedTypes, AddressAssumption DEF MergeInv, Owners
<1>1. CASE s = stack /\ Top.f = "clone" /\ v = NULL /\ heap.type[Top.to] = "ARRAY"
  BY <1>0, <1>1, AtTop DEF Continues
<1>2. CASE s = Pop /\ Pop # <<>> /\ Top.f = "clone" /\ v = Top.to
  <2>1. /\ s \in Seq(Frame) /\ s # <<>> /\ StackOK(heap, s)
        /\ Tops(stack) = Tops(s) \cup {v} /\ v \notin Tops(s) /\ v \in Node
        /\ F \in Frame /\ F.to \in Node /\ F.from \in Node /\ F = s[Len(s)]
        /\ FrameOK(heap, F, Tops(stack)) /\ LinkOK(heap, F, Top) /\ PairOK(heap, F, Top)
        /\ Len(s) \in 1..Len(s)
        /\ Len(stack) = Len(s) + 1 /\ Len(s) \in Nat
        /\ \A i \in 1..Len(s) : s[i] = stack[i] /\ i \in 1..Len(stack)
    BY <1>2, AtTop, AtPop
  <2> HIDE DEF F
  <2>2. Continues(stack, s)
    BY <2>1 DEF Continues
  <2>3. \A i \in 1..Len(s) : /\ s[i].from \notin Tree(heap, v)
                             /\ s[i].f = "update" => s[i].to \notin Tree(heap, v)
    <3>1. \A i \in 1..Len(s) : FrameOK(heap, s[i], Tops(stack))
      BY <1>0, <2>1 DEF StackOK
    <3>2. QED BY <2>1, <3>1 DEF FrameOK
  <2>4. F.to \notin Tree(heap, v)
    <3>1. CASE F.f = "update"
      BY <2>1, <2>3, <3>1
    <3>2. CASE F.f = "clone"
      <4>1. F.to \in Tops(stack) /\ F.to # v
        BY <1>2, <2>1, <3>2 DEF Tops, PairOK
      <4>2. QED BY <1>0, <2>1, <4>1, OwnerOutside
    <3>3. QED BY <2>1, <3>1, <3>2 DEF Frame
  <2>5. F.f = "update" => F.slot \in Found(heap, F.to, NameAt(heap, F.at))
    BY <2>1 DEF LinkOK
  <2>6. Owners \ {v} = held \cup Tops(s) /\ Tops(s) = Tops(stack) \ {v}
    BY <1>0, <2>1
  <2>7. QED BY <1>0, <2>1, <2>2, <2>3, <2>4, <2>5, <2>6 DEF F
<1>3. QED BY <1>1, <1>2 DEF Writes

(* A loop goes on with a value. *)
LEMMA WriteTurn ==
  ASSUME MergeInv, stack # <<>>, ~stale, NEW s, NEW v, Writes(s, v), s[Len(s)].at # NULL,
         NEW h \in Put(s[Len(s)], v), GoOn(h, s)
  PROVE  LET F == s[Len(s)]
         IN  /\ heap' = h /\ WellFormed(h, Owners \ {v})
             /\ SameCalls(s, stack') /\ Continues(stack, stack') /\ Tops(stack') = Tops(stack) \ {v}
             /\ \E c \in Cell :
                  /\ Wrote(heap, h, F.to, c, v) /\ PutAt(h, F, c)
                  /\ stale' => F.f = "update" /\ F.from \in Hung(heap, c)
                  /\ ~stale' =>
                       /\ StackOK(h, stack')
                       /\ stack'[Len(s)].at = NextCell(h, F.from, F.at)
                       /\ \A i \in 1..Len(s) : /\ s[i].to \notin Hung(heap, c)
                                               /\ s[i].from \notin Hung(heap, c)
<1> DEFINE F == s[Len(s)]
           T == Tops(stack)
<1>0. /\ s \in Seq(Frame) /\ s # <<>> /\ StackOK(heap, s) /\ Continues(stack, s)
      /\ Tops(s) = T \ {v} /\ Tops(s) \subseteq Owners
      /\ v \in (Owners \cup {NULL}) \ Tops(s)
      /\ F \in Frame /\ F.to \in Node /\ F.from \in Node /\ FrameOK(heap, F, T)
      /\ F.f = "update" => F.slot \in Found(heap, F.to, NameAt(heap, F.at))
      /\ v = NULL => heap.type[F.to] = "ARRAY"
      /\ v # NULL => /\ v \in T /\ F.to \notin Tree(heap, v)
                     /\ \A i \in 1..Len(s) : /\ s[i].from \notin Tree(heap, v)
                                             /\ s[i].f = "update" => s[i].to \notin Tree(heap, v)
  BY WriterFacts
<1>1. heap \in Heap /\ WellFormed(heap, Owners) /\ F.at # NULL
  BY AtTop
<1>2. F.at \in Cells(heap, F.from) /\ F.at \in Cell
  BY <1>0, <1>1, AtCell
<1>3. h \in Put(F, v)
  OBVIOUS
<1> HIDE DEF F, T
<1>4. /\ WellFormed(h, Owners \ {v})
      /\ \E c \in Cell : Wrote(heap, h, F.to, c, v) /\ PutAt(h, F, c)
  BY <1>0, <1>1, <1>3, PutWrites
<1>5. PICK c \in Cell : Wrote(heap, h, F.to, c, v) /\ PutAt(h, F, c)
  BY <1>4
<1>6. F.at \in h.cells => StackOK(h, s)
  BY <1>0, <1>1, <1>5, WroteStack DEF F
<1>7. F.at \in h.cells =>
        \A i \in 1..Len(s) : s[i].to \notin Hung(heap, c) /\ s[i].from \notin Hung(heap, c)
  BY <1>0, <1>1, <1>5, FreedIsNotInUse DEF F
<1>8. F.from \notin Hung(heap, c) => F.at \in h.cells
  BY <1>0, <1>1, <1>2, <1>5, WroteCells
<1>9. Len(s) \in 1..Len(s)
  BY <1>0, LenProperties, EmptySeq
<1>10. F.at \in h.cells => F.at \in Cells(h, F.from)
  <2>1. F.at \in h.cells => FrameOK(h, F, Tops(s))
    BY <1>6, <1>9 DEF StackOK, F
  <2>2. QED BY <1>2, <2>1, AddressAssumption DEF FrameOK
<1>11. F.f = "clone" => F.at \in h.cells
  <2> SUFFICES ASSUME F.f = "clone" PROVE F.from \notin Hung(heap, c)
    BY <1>8
  <2>1. F.to \in T
    <3>1. F.to \in Tops(s)
      BY <1>9 DEF Tops, F
    <3>2. QED BY <1>0, <3>1
  <2>2. F.from \notin Tree(heap, F.to)
    BY <1>0, <2>1 DEF FrameOK
  <2>3. QED BY <1>0, <1>1, <1>5, <2>2, WroteHung
<1>12. h \in Heap
  BY <1>5 DEF Wrote
<1>13. /\ heap' = h /\ SameCalls(s, stack') /\ Tops(stack') = Tops(s)
       /\ F.at \in h.cells => /\ stale' = stale /\ StackOK(h, stack')
                              /\ stack'[Len(s)].at = NextCell(h, F.from, F.at)
       /\ F.at \notin h.cells => stale' = TRUE
  BY <1>0, <1>2, <1>6, <1>10, <1>12, GoOnFacts DEF F
<1>14. Continues(stack, stack')
  BY <1>0, <1>13, SameContinues DEF Continues
<1>15. F.f = "clone" \/ F.f = "update"
  BY <1>0 DEF Frame
<1>16. /\ stale' => F.f = "update" /\ F.from \in Hung(heap, c)
       /\ ~stale' => F.at \in h.cells
  BY <1>8, <1>11, <1>13, <1>15
<1>17. QED BY <1>0, <1>4, <1>5, <1>7, <1>13, <1>14, <1>16 DEF F, T

(* the frame of a call of pt_clone with m for n *)
CloneFrame(m, n) == [f |-> "clone", to |-> m, from |-> n, at |-> FirstCell(heap, n), slot |-> NULL]

(* what the call did *)
Cloned(R, s, n, copies, m) ==
  /\ heap' = NewNode(heap, m, heap.type[n])
  /\ load' = [load EXCEPT ![m] = load[n]]
  /\ copy' = [copies EXCEPT ![m] = n]
  /\ CloneFrame(m, n) \in Frame /\ stack' = Append(s, CloneFrame(m, n))
  /\ StackOK(heap', stack') /\ Tops(stack') = Tops(s) \cup {m}
  /\ WellFormed(heap', R \cup {m}) /\ m \notin R

(* pt_clone is called. *)
LEMMA CloneEntered ==
  ASSUME NEW R, WellFormed(heap, R), NEW s \in Seq(Frame), StackOK(heap, s), Tops(s) \subseteq R,
         NEW n \in Live(heap), NEW copies, \A m \in Tops(s) : n \notin Tree(heap, m),
         s # <<>> => \A G : G.f = "clone" /\ G.from = n => LinkOK(heap, s[Len(s)], G),
         EnterClone(s, n, copies)
  PROVE  \E m \in FreshNodes(heap) : Cloned(R, s, n, copies, m)
<1> DEFINE t == heap.type[n]
           G(m) == CloneFrame(m, n)
<1>1. PICK m \in FreshNodes(heap) :
        /\ heap' = NewNode(heap, m, t)
        /\ load' = [load EXCEPT ![m] = load[n]]
        /\ copy' = [copies EXCEPT ![m] = n]
        /\ stack' = Append(s, G(m))
  BY DEF EnterClone, CloneFrame
<1>2. heap \in Heap /\ n \in Node /\ R \subseteq Live(heap) /\ Live(heap) \subseteq Node
  BY WellFormedTypes
<1>3. t \in NodeType
  BY <1>2 DEF Live, Heap
<1> HIDE DEF t
<1>4. WellFormed(heap', R \cup {m}) /\ m \notin R
  BY <1>1, <1>3, NewNodeWellFormed
<1>5. /\ m \in Node /\ m \notin Live(heap)
      /\ heap'.type[m] = t /\ \A x \in Node \ {m} : heap'.type[x] = heap.type[x]
      /\ Live(heap') = Live(heap) \cup {m} /\ Tree(heap', m) = {m}
      /\ \A x \in Node : Cells(heap', x) = Cells(heap, x) /\ Tree(heap', x) = Tree(heap, x)
  BY <1>1, <1>3, NewNodeEffect
<1>6. FirstCell(heap, n) \in Cells(heap, n) \cup {NULL} /\ Cells(heap, n) \subseteq Cell
  BY <1>2, NextCellFacts, KidsInNode
<1>7. G(m) \in Frame /\ G(m).f = "clone" /\ G(m).to = m /\ G(m).from = n
      /\ G(m).at = FirstCell(heap, n)
  BY <1>2, <1>5, <1>6 DEF Frame, CloneFrame
<1> HIDE DEF G
<1>8. Tops(Append(s, G(m))) = Tops(s) \cup {m}
  BY <1>7, PushFacts
<1>9. StackOK(heap', s) /\ \A i \in 1..Len(s) : FrameOK(heap', s[i], Tops(s) \cup {m})
  BY <1>1, <1>3, NewNodeStack
<1>10. FrameOK(heap', G(m), Tops(s) \cup {m})
  <2>1. n # m /\ heap'.type[n] = t /\ heap'.type[m] = t
    BY <1>2, <1>5 DEF t
  <2>2. \A x \in Tops(s) \cup {m} : n \notin Tree(heap', x)
    BY <1>2, <1>5, <2>1
  <2>3. QED BY <1>2, <1>5, <1>6, <1>7, <2>1, <2>2 DEF FrameOK
<1>11. s # <<>> => LinkOK(heap', s[Len(s)], G(m))
  <2> SUFFICES ASSUME s # <<>> PROVE LinkOK(heap', s[Len(s)], G(m))
    OBVIOUS
  <2>1. s[Len(s)] \in Frame
    BY LenProperties, EmptySeq
  <2>2. LinkOK(heap, s[Len(s)], G(m))
    BY <1>7
  <2>3. QED BY <1>1, <1>3, <2>1, <2>2, NewNodeLink
<1>12. \A i \in 1..Len(s) : PairOK(heap', s[i], G(m))
  <2> SUFFICES ASSUME NEW i \in 1..Len(s) PROVE PairOK(heap', s[i], G(m))
    OBVIOUS
  <2>1. s[i].to \in Live(heap)
    BY DEF StackOK, FrameOK
  <2>2. QED BY <1>5, <1>7, <2>1 DEF PairOK
<1>13. StackOK(heap', Append(s, G(m)))
  BY <1>7, <1>8, <1>9, <1>10, <1>11, <1>12, PushStack
<1>14. QED BY <1>1, <1>4, <1>7, <1>8, <1>13 DEF G, t, Cloned

(* pt_map_update is called. *)
LEMMA UpdateEntered ==
  ASSUME NEW R, WellFormed(heap, R), NEW s \in Seq(Frame), StackOK(heap, s), Tops(s) = {},
         NEW r \in Live(heap), NEW a \in Live(heap), heap.type[r] = "MAP", heap.type[a] = "MAP",
         s # <<>> => /\ r \in Kids(heap, s[Len(s)].to) /\ a \in Kids(heap, s[Len(s)].from)
                     /\ \A G : G.from = a /\ G.to = r /\ G.f = "update" =>
                                 LinkOK(heap, s[Len(s)], G),
         EnterUpdate(s, r, a)
  PROVE  LET G == [f |-> "update", to |-> r, from |-> a, at |-> FirstCell(heap, a), slot |-> NULL]
         IN  /\ G \in Frame /\ stack' = Append(s, G)
             /\ StackOK(heap, stack') /\ Tops(stack') = {}
<1> DEFINE G == [f |-> "update", to |-> r, from |-> a, at |-> FirstCell(heap, a), slot |-> NULL]
           n == Len(s)
<1>1. heap \in Heap /\ r \in Node /\ a \in Node /\ NoDangling(heap) /\ OneOwner(heap, R)
      /\ Reached(heap, R) /\ R \in SUBSET Node
  BY WellFormedTypes, WellFormedParts
<1>2. FirstCell(heap, a) \in Cells(heap, a) \cup {NULL} /\ Cells(heap, a) \subseteq Cell
  BY <1>1, NextCellFacts, KidsInNode
<1>3. G \in Frame /\ G.f = "update" /\ G.to = r /\ G.from = a /\ G.at = FirstCell(heap, a)
  BY <1>1, <1>2 DEF Frame
<1>4. stack' = Append(s, G)
  BY DEF EnterUpdate
<1> HIDE DEF G
<1>5. Tops(Append(s, G)) = {}
  BY <1>3, PushFacts
<1>6. FrameOK(heap, G, {})
  BY <1>2, <1>3 DEF FrameOK
<1>7. \A i \in 1..n : FrameOK(heap, s[i], {})
  BY DEF StackOK
<1>8. \A i \in 1..n : s[i].f = "update" /\ s[i].to \in Node /\ s[i].from \in Node
  BY FrameFields DEF Tops
<1>9. ASSUME NEW i \in 1..n PROVE PairOK(heap, s[i], G)
  <2>0. n \in Nat /\ n \in 1..n /\ s # <<>>
    BY LenProperties, EmptySeq
  <2> DEFINE F == s[n]
  <2>1. F.to \in Live(heap) /\ F.from \in Live(heap) /\ F.to \in Node /\ F.from \in Node
    BY <1>7, <1>8, <2>0 DEF FrameOK
  <2>2. F.to \in Tree(heap, s[i].to) /\ F.from \in Tree(heap, s[i].from)
    <3>1. CASE i = n
      BY <1>1, <2>1, <3>1, TreeFacts
    <3>2. CASE i # n
      <4>1. PairOK(heap, s[i], s[n])
        BY <2>0, <3>2 DEF StackOK
      <4>2. QED BY <1>8, <2>0, <4>1 DEF PairOK
    <3>3. QED BY <3>1, <3>2
  <2>3. r \in Tree(heap, s[i].to) /\ a \in Tree(heap, s[i].from)
    BY <1>1, <1>8, <2>0, <2>2, TreeFacts DEF Closed
  <2>4. F.to \notin Tree(heap, r) /\ F.from \notin Tree(heap, a)
    BY <1>1, <2>0, <2>1, NoCycle
  <2>5. r # s[i].to /\ a # s[i].from
    BY <2>2, <2>4
  <2>6. QED BY <1>3, <1>8, <2>3, <2>5 DEF PairOK
<1>10. StackOK(heap, Append(s, G))
  BY <1>3, <1>5, <1>6, <1>7, <1>9, PushStack
<1>11. QED BY <1>3, <1>4, <1>5, <1>10 DEF G

----------------------------------------------------------------------------
(* Every step keeps the invariant *)

LEMMA QuietKeeps ==
  ASSUME MergeInv, stack # <<>>, ~stale, NEW s,
         s = stack \/ (s = Pop /\ Pop # <<>> /\ Top.f = "update"),
         s[Len(s)].at # NULL, GoOn(heap, s), ret' \in {0, 1}, cut' \subseteq merged,
         UNCHANGED <<load, held, call, calls, made, was, copy, merged>>
  PROVE  MergeInv'
<1>1. /\ heap' = heap /\ stale' = stale /\ Continues(stack, stack')
      /\ StackOK(heap', stack') /\ Tops(stack') = Tops(stack)
  BY QuietTurn
<1>2. stack \in Seq(Frame) /\ stack' \in Seq(Frame)
  BY <1>1, AtTop DEF Continues
<1>3. Filling' = Filling /\ Owners' = Owners
  <2>1. Filling' = Tops(stack')
    BY <1>2 DEF Filling, Tops
  <2>2. QED BY <1>1, <1>2, <2>1, FillingIsTops DEF Owners
<1>4. MergeTypeOK'
  BY <1>1, <1>2 DEF MergeInv, MergeTypeOK
<1>5. WellFormed(heap', Owners') /\ held' \cap Filling' = {}
  BY <1>1, <1>3 DEF MergeInv
<1>6. StaleOnlyThroughArrays'
  BY <1>1 DEF StaleOnlyThroughArrays
<1>7. Underway'
  BY <1>1, ContinuesUnderway
<1>8. QED BY <1>4, <1>5, <1>6, <1>7 DEF MergeInv

(* What pt_map_update frees is no map. *)
LEMMA HungIsNoMap ==
  ASSUME MergeInv, stack # <<>>, ~stale, NEW s, NEW v, Writes(s, v), s[Len(s)].at # NULL,
         s[Len(s)].f = "update", NEW h, NEW c \in Cell,
         Wrote(heap, h, s[Len(s)].to, c, v), PutAt(h, s[Len(s)], c)
  PROVE  \/ Hung(heap, c) = {}
         \/ /\ heap.val[c] \in Node /\ heap.type[heap.val[c]] # "MAP"
            /\ Hung(heap, c) = Tree(heap, heap.val[c])
<1> DEFINE F == s[Len(s)]
<1>1. /\ F.f = "update" /\ F.to \in Node /\ FrameOK(heap, F, Tops(stack)) /\ F \in Frame
      /\ F.slot \in Found(heap, F.to, NameAt(heap, F.at))
  BY WriterFacts
<1>2. s = Pop /\ Pop # <<>> /\ Top.f = "clone"
  BY <1>1, AtTop DEF Writes
<1>3. LinkOK(heap, F, Top)
  BY <1>2, AtPop
<1>4. heap.type[F.to] = "MAP" /\ heap \in Heap /\ WellFormed(heap, Owners)
  BY <1>1, AtTop DEF FrameOK
<1>5. CASE F.slot = NULL
  <2>1. Matches(heap, F.to, NameAt(heap, F.at)) = {}
    <3>1. \A d \in Matches(heap, F.to, NameAt(heap, F.at)) : d \in Cell
      BY <1>1, <1>4, KidsInNode DEF Matches
    <3>2. QED BY <1>1, <1>5, <3>1, AddressAssumption DEF Found
  <2>2. c \notin heap.cells
    BY <1>4, <2>1 DEF PutAt
  <2>3. heap.val[c] = NULL
    BY <1>4, <2>2, WellFormedTypes
  <2>4. QED BY <2>3 DEF Hung
<1>6. CASE F.slot # NULL
  <2>1. c = F.slot
    BY <1>1, <1>6 DEF PutAt
  <2>2. Value(heap, F.slot) = heap.val[c]
    BY <1>6, <2>1 DEF Value
  <2>3. heap.val[c] # NULL => heap.type[heap.val[c]] # "MAP"
    BY <1>1, <1>2, <1>3, <2>2 DEF LinkOK
  <2>4. heap.val[c] # NULL => heap.val[c] \in Node
    BY <1>4 DEF Heap
  <2>5. QED BY <2>3, <2>4 DEF Hung
<1>7. QED BY <1>5, <1>6

LEMMA WriteKeeps ==
  ASSUME MergeInv, stack # <<>>, ~stale, NEW s, NEW v, Writes(s, v), s[Len(s)].at # NULL,
         NEW h \in Put(s[Len(s)], v), GoOn(h, s),
         UNCHANGED <<load, held, call, calls, ret, made, was, copy, merged, cut>>
  PROVE  MergeInv'
<1> DEFINE F == s[Len(s)]
<1>1. /\ heap' = h /\ WellFormed(h, Owners \ {v}) /\ SameCalls(s, stack')
      /\ Continues(stack, stack') /\ Tops(stack') = Tops(stack) \ {v}
  BY WriteTurn
<1>2. PICK c \in Cell :
        /\ Wrote(heap, h, F.to, c, v) /\ PutAt(h, F, c)
        /\ stale' => F.f = "update" /\ F.from \in Hung(heap, c)
        /\ ~stale' => /\ StackOK(h, stack')
                      /\ \A i \in 1..Len(s) : /\ s[i].to \notin Hung(heap, c)
                                              /\ s[i].from \notin Hung(heap, c)
  BY WriteTurn
<1>3. /\ s \in Seq(Frame) /\ s # <<>> /\ Continues(stack, s) /\ Tops(s) = Tops(stack) \ {v}
      /\ Owners \ {v} = held \cup Tops(s) /\ v \in Owners \cup {NULL}
      /\ F \in Frame /\ F.to \in Node /\ F.from \in Node /\ FrameOK(heap, F, Tops(stack))
      /\ v # NULL => \A i \in 1..Len(s) : s[i].from \notin Tree(heap, v)
  BY WriterFacts
<1>4. /\ heap \in Heap /\ WellFormed(heap, Owners) /\ stack \in Seq(Frame) /\ StackOK(heap, stack)
      /\ Filling = Tops(stack) /\ Owners \subseteq Live(heap) /\ Live(heap) \subseteq Node
  BY AtTop, WellFormedTypes
<1>5. stack' \in Seq(Frame)
  BY <1>1 DEF Continues
<1>6. Filling' = Tops(stack') /\ Owners' = held' \cup Tops(stack')
  BY <1>5, FillingIsTops DEF Filling, Tops, Owners
<1>7. WellFormed(heap', Owners') /\ held' \cap Filling' = {}
  BY <1>1, <1>3, <1>4, <1>6 DEF MergeInv
<1>8. stale' \in BOOLEAN
  BY DEF GoOn, MergeInv, MergeTypeOK
<1>9. MergeTypeOK'
  BY <1>5, <1>7, <1>8 DEF MergeInv, MergeTypeOK, WellFormed
<1>10. \A i \in 1..Len(s) : /\ i \in 1..Len(stack) /\ stack[i].f = s[i].f
                            /\ stack[i].to = s[i].to /\ stack[i].from = s[i].from
                            /\ s[i].to \in Node /\ s[i].from \in Node
  <2>1. Len(s) \in Nat /\ Len(stack) \in Nat
    BY <1>3, <1>4, LenProperties
  <2>2. QED BY <1>3, <2>1, FrameFields DEF Continues
<1>11. Len(s) \in Nat \ {0} /\ 1 \in 1..Len(s) /\ Len(s) \in 1..Len(s)
  BY <1>3, LenProperties, EmptySeq
<1>12. ASSUME stale' PROVE StaleOnlyThroughArrays'
  <2>1. F.f = "update" /\ F.from \in Hung(heap, c)
    BY <1>2, <1>12
  <2>2. call.f = "update"
    <3>1. stack[1].f = call.f /\ s[1].f = stack[1].f /\ StackOK(heap, s)
      BY <1>10, <1>11, WriterFacts DEF MergeInv, Underway
    <3>2. s[1].f = "clone" => F.f = "clone"
      <4>1. CASE Len(s) = 1
        BY <4>1
      <4>2. CASE Len(s) # 1
        <5>1. \A i, j \in 1..Len(s) : i < j => PairOK(heap, s[i], s[j])
          BY <3>1 DEF StackOK
        <5>2. 1 < Len(s)
          <6> DEFINE n == Len(s)
          <6>1. n \in Nat \ {0} /\ n # 1
            BY <1>11, <4>2
          <6> HIDE DEF n
          <6>2. 1 < n
            BY <6>1
          <6>3. QED BY <6>2 DEF n
        <5>3. PairOK(heap, s[1], F)
          BY <1>11, <5>1, <5>2
        <5>4. QED BY <5>3 DEF PairOK
      <4>3. QED BY <4>1, <4>2
    <3>3. s[1].f \in {"update", "clone"}
      BY <1>3, <1>11, FrameFields
    <3>4. QED BY <2>1, <3>1, <3>2, <3>3
  <2>3. ~Orderly
    <3> SUFFICES ASSUME Orderly PROVE FALSE
      OBVIOUS
    <3>1. Hung(heap, c) \subseteq Tree(heap, F.to) /\ F.to \notin Hung(heap, c)
      BY <1>2, <1>3, <1>4, WroteHung DEF Wrote
    <3>2. F.from \in ThroughMaps(heap, F.to)
      <4>1. Ordered(heap, stack)
        BY DEF MergeInv, Underway
      <4>2. QED BY <1>10, <1>11, <2>1, <3>1, <4>1 DEF Ordered
    <3>3. /\ heap.val[c] \in Node /\ heap.type[heap.val[c]] # "MAP"
          /\ Hung(heap, c) = Tree(heap, heap.val[c])
      BY <1>2, <2>1, HungIsNoMap
    <3>4. F.from = heap.val[c]
      BY <1>3, <1>4, <2>1, <3>1, <3>2, <3>3, ThroughMapsWithin
    <3>5. heap.type[F.from] = "MAP"
      BY <1>3, <2>1 DEF FrameOK
    <3>6. QED BY <3>3, <3>4, <3>5
  <2>4. QED BY <2>2, <2>3 DEF Orderly, StaleOnlyThroughArrays
<1>13. ASSUME ~stale' PROVE Underway'
  <2>1. Len(stack') = Len(s) /\ StackOK(heap', stack')
    BY <1>1, <1>2, <1>13 DEF SameCalls
  <2>2. ASSUME NEW i \in 1..Len(s)
        PROVE  /\ stack[i].from \notin Tree(heap, stack[i].to) =>
                    stack[i].from \notin Tree(heap', stack[i].to)
               /\ stack[i].from \in ThroughMaps(heap, stack[i].to) =>
                    stack[i].from \in ThroughMaps(heap', stack[i].to)
    <3>1. /\ v = NULL => Tree(h, s[i].to) \subseteq Tree(heap, s[i].to)
          /\ v # NULL => Tree(h, s[i].to) \subseteq Tree(heap, s[i].to) \cup Tree(heap, v)
      <4> DEFINE y == s[i].to
                 p == F.to
      <4>1. v \in Node \cup {NULL} /\ y \in Node /\ p \in Node
        BY <1>3, <1>4, <1>10
      <4>2. Wrote(heap, h, p, c, v) /\ WellFormed(heap, Owners)
        BY <1>2, <1>4
      <4> HIDE DEF y, p
      <4>3. /\ v = NULL => Tree(h, y) \subseteq Tree(heap, y)
            /\ v # NULL => Tree(h, y) \subseteq Tree(heap, y) \cup Tree(heap, v)
        BY <4>1, <4>2, TreeGains
      <4>4. QED BY <4>3 DEF y
    <3>2. ThroughMaps(heap, s[i].to) \subseteq ThroughMaps(h, s[i].to) \cup Hung(heap, c)
      BY <1>2, <1>3, <1>4, <1>10, TreeKept
    <3>3. s[i].from \notin Hung(heap, c) /\ (v # NULL => s[i].from \notin Tree(heap, v))
      BY <1>2, <1>3, <1>13
    <3>4. QED BY <1>1, <1>10, <3>1, <3>2, <3>3
  <2>3. QED BY <1>1, <2>1, <2>2, ContinuesUnderway
<1>14. QED BY <1>7, <1>9, <1>12, <1>13 DEF MergeInv, StaleOnlyThroughArrays

(* A call within a call, on whatever slot its caller has found. *)
LEMMA PushedUnderway ==
  ASSUME MergeInv, stack # <<>>, ~stale, NEW s, SameCalls(stack, s), NEW G \in Frame,
         stack' = Append(s, G), StackOK(heap', stack'), UNCHANGED <<call, was>>,
         merged \subseteq merged', G.f = "update" => PairOf(G) \in merged',
         Ordered(heap, stack) /\ G.f = "update" /\ G.from \in Tree(heap', G.to) =>
           G.from \in ThroughMaps(heap', G.to),
         \A x \in Node : Tree(heap', x) = Tree(heap, x) /\ ThroughMaps(heap', x) = ThroughMaps(heap, x)
  PROVE  Underway'
<1> DEFINE n == Len(stack)
<1>1. Underway /\ stack \in Seq(Frame) /\ n \in Nat \ {0}
  BY AtTop DEF MergeInv
<1>2. s \in Seq(Frame) /\ Len(s) = n
  BY DEF SameCalls
<1>3. /\ Len(stack') = n + 1 /\ stack'[n + 1] = G
      /\ \A i \in 1..n : /\ stack'[i].f = stack[i].f /\ stack'[i].to = stack[i].to
                         /\ stack'[i].from = stack[i].from
                         /\ stack[i].to \in Node /\ stack[i].from \in Node
  BY <1>1, <1>2, PushFacts, FrameFields DEF SameCalls
<1> HIDE DEF n
<1>4. 1..(n + 1) = 1..n \cup {n + 1} /\ 1 \in 1..n
  BY <1>1
<1>5. Orderly' => Ordered(heap', stack')
  <2>1. Orderly' <=> Orderly
    BY DEF Orderly
  <2>2. Orderly => Ordered(heap, stack)
    BY <1>1 DEF Underway
  <2> SUFFICES ASSUME Ordered(heap, stack), NEW i \in 1..(n + 1), stack'[i].f = "update",
                      stack'[i].from \in Tree(heap', stack'[i].to)
               PROVE  stack'[i].from \in ThroughMaps(heap', stack'[i].to)
    BY <1>3, <2>1, <2>2 DEF Ordered
  <2>3. CASE i = n + 1
    BY <1>3, <2>3
  <2>4. CASE i \in 1..n
    BY <1>3, <2>4 DEF Ordered, n
  <2>5. QED BY <1>4, <2>3, <2>4
<1>6. \A i \in 1..(n + 1) : stack'[i].f = "update" => PairOf(stack'[i]) \in merged'
  BY <1>1, <1>3, <1>4 DEF Underway, PairOf, n
<1>7. stack' # <<>> => /\ stack'[1].f = call'.f /\ stack'[1].from = call'.from
                       /\ stack'[1].f = "update" => stack'[1].to = call'.root
  BY <1>1, <1>3, <1>4, EmptySeq DEF Underway, n
<1>8. QED BY <1>3, <1>5, <1>6, <1>7 DEF Underway

(* pt_clone is called for what hangs where a loop is. *)
LEMMA CloneCalled ==
  ASSUME MergeInv, stack # <<>>, ~stale, Top.at # NULL, heap.val[Top.at] # NULL,
         NEW s, SameCalls(stack, s), s[Len(s)].at = Top.at,
         Top.f = "update" => LET e == Value(heap, s[Len(s)].slot)
                             IN  /\ s[Len(s)].slot \in Found(heap, Top.to, NameAt(heap, Top.at))
                                 /\ e # NULL => heap.type[e] # "MAP",
         EnterClone(s, heap.val[Top.at], copy)
  PROVE  /\ heap.val[Top.at] \in Live(heap) /\ s \in Seq(Frame) /\ Tops(s) = Tops(stack)
         /\ \E m \in FreshNodes(heap) : Cloned(Owners, s, heap.val[Top.at], copy, m)
<1> DEFINE n == heap.val[Top.at]
           F == s[Len(s)]
<1>1. /\ heap \in Heap /\ stack \in Seq(Frame) /\ StackOK(heap, stack)
      /\ Len(stack) \in Nat \ {0} /\ Len(stack) \in 1..Len(stack) /\ Top = stack[Len(stack)]
      /\ Tops(stack) \subseteq Owners /\ Top \in Frame /\ Top.to \in Node /\ Top.from \in Node
      /\ FrameOK(heap, Top, Tops(stack)) /\ WellFormed(heap, Owners)
  BY AtTop
<1>2. n \in Live(heap) /\ n \in Kids(heap, Top.from) /\ Top.at \in Cells(heap, Top.from)
  BY <1>1, AtCell
<1>3. /\ s \in Seq(Frame) /\ Len(s) = Len(stack)
      /\ F.f = Top.f /\ F.to = Top.to /\ F.from = Top.from /\ F.at = Top.at
  BY <1>1 DEF SameCalls
<1>4. StackOK(heap, s) /\ Tops(s) = Tops(stack)
  BY <1>1, <1>2, <1>3, MoveStack
<1>5. \A m \in Tops(s) : n \notin Tree(heap, m)
  BY <1>1, <1>2, <1>4, KidOutside DEF FrameOK
<1>6. \A G : G.f = "clone" /\ G.from = n => LinkOK(heap, F, G)
  BY <1>3 DEF LinkOK
<1> HIDE DEF F
<1>7. s # <<>> => \A G : G.f = "clone" /\ G.from = n => LinkOK(heap, s[Len(s)], G)
  BY <1>6 DEF F
<1>8. EnterClone(s, n, copy)
  OBVIOUS
<1> HIDE DEF n
<1>9. \E m \in FreshNodes(heap) : Cloned(Owners, s, n, copy, m)
  BY <1>1, <1>2, <1>3, <1>4, <1>5, <1>7, <1>8, CloneEntered
<1>10. QED BY <1>2, <1>3, <1>4, <1>9 DEF n

LEMMA SameCallsRefl ==
  ASSUME NEW s \in Seq(Frame)
  PROVE  SameCalls(s, s)
BY LenProperties DEF SameCalls

(* The types, when a clone was begun. *)
LEMMA ClonedTypes ==
  ASSUME MergeTypeOK, NEW R, NEW s \in Seq(Frame), NEW n \in Live(heap), NEW copies,
         copies \in [Node -> Node \cup {NULL}],
         NEW m \in FreshNodes(heap), Cloned(R, s, n, copies, m)
  PROVE  /\ HeapTypeOK(heap') /\ load' \in [Node -> Load] /\ stack' \in Seq(Frame)
         /\ copy' \in [Node -> Node \cup {NULL}]
         /\ Filling' = Tops(s) \cup {m}
<1>1. m \in Node /\ n \in Node
  BY DEF FreshNodes, Live
<1>2. HeapTypeOK(heap')
  BY DEF Cloned, WellFormed
<1>3. load' \in [Node -> Load] /\ copy' \in [Node -> Node \cup {NULL}]
  BY <1>1 DEF Cloned, MergeTypeOK
<1>4. stack' \in Seq(Frame) /\ Tops(stack') = Tops(s) \cup {m}
  BY PushFacts DEF Cloned
<1>5. Filling' = Tops(stack')
  BY <1>4 DEF Filling, Tops
<1>6. QED BY <1>2, <1>3, <1>4, <1>5

LEMMA CloneKeeps ==
  ASSUME MergeInv, stack # <<>>, ~stale, Top.at # NULL, heap.val[Top.at] # NULL,
         NEW s, SameCalls(stack, s), s[Len(s)].at = Top.at,
         Top.f = "update" => LET e == Value(heap, s[Len(s)].slot)
                             IN  /\ s[Len(s)].slot \in Found(heap, Top.to, NameAt(heap, Top.at))
                                 /\ e # NULL => heap.type[e] # "MAP",
         EnterClone(s, heap.val[Top.at], copy),
         UNCHANGED <<held, call, calls, ret, made, stale, was, merged, cut>>
  PROVE  MergeInv'
<1> DEFINE n == heap.val[Top.at]
<1>1. n \in Live(heap) /\ s \in Seq(Frame) /\ Tops(s) = Tops(stack)
  BY CloneCalled
<1>2. PICK m \in FreshNodes(heap) : Cloned(Owners, s, n, copy, m)
  BY CloneCalled
<1> HIDE DEF n
<1>3. /\ WellFormed(heap, Owners) /\ Filling = Tops(stack) /\ Owners = held \cup Tops(stack)
      /\ MergeTypeOK /\ held \cap Filling = {} /\ heap \in Heap
  BY AtTop DEF MergeInv, Owners
<1>4. /\ HeapTypeOK(heap') /\ load' \in [Node -> Load] /\ stack' \in Seq(Frame)
      /\ copy' \in [Node -> Node \cup {NULL}] /\ Filling' = Tops(s) \cup {m}
  <2>1. copy \in [Node -> Node \cup {NULL}]
    BY <1>3 DEF MergeTypeOK
  <2>2. QED BY <1>1, <1>2, <1>3, <2>1, ClonedTypes
<1>5. MergeTypeOK'
  BY <1>3, <1>4 DEF MergeTypeOK
<1>6. WellFormed(heap', Owners') /\ held' \cap Filling' = {}
  <2>1. WellFormed(heap', Owners \cup {m}) /\ m \notin Owners
    BY <1>2 DEF Cloned
  <2>2. Owners' = Owners \cup {m} /\ held' = held
    BY <1>1, <1>3, <1>4 DEF Owners
  <2>3. QED BY <1>1, <1>3, <1>4, <2>1, <2>2
<1>7. heap.type[n] \in NodeType
  BY <1>1, <1>3 DEF Live, Heap
<1>8. Underway'
  <2>1. \A x \in Node : Tree(heap', x) = Tree(heap, x) /\ ThroughMaps(heap', x) = ThroughMaps(heap, x)
    BY <1>2, <1>3, <1>7, NewNodeEffect DEF Cloned
  <2>2. /\ CloneFrame(m, n) \in Frame /\ stack' = Append(s, CloneFrame(m, n))
        /\ StackOK(heap', stack') /\ CloneFrame(m, n).f = "clone"
    BY <1>2 DEF Cloned, CloneFrame
  <2>3. QED BY <2>1, <2>2, PushedUnderway
<1>9. StaleOnlyThroughArrays'
  BY DEF StaleOnlyThroughArrays
<1>10. QED BY <1>5, <1>6, <1>8, <1>9 DEF MergeInv

(* pt_map_update is called for two maps within the two at hand. *)
UpdateFrame(r, a) == [f |-> "update", to |-> r, from |-> a, at |-> FirstCell(heap, a), slot |-> NULL]

LEMMA NestedCalled ==
  ASSUME MergeInv, UpdateNested
  PROVE  \E c \in Matches(heap, Top.to, NameAt(heap, Top.at)) :
           LET s == [stack EXCEPT ![Len(stack)].slot = c]
               r == heap.val[c]
               a == heap.val[Top.at]
           IN  /\ stack # <<>> /\ ~stale /\ Top.f = "update" /\ Top.at # NULL
               /\ Top.at \in Cells(heap, Top.from) /\ c \in Cells(heap, Top.to)
               /\ SameCalls(stack, s) /\ s \in Seq(Frame)
               /\ r \in Live(heap) /\ a \in Live(heap)
               /\ heap.type[r] = "MAP" /\ heap.type[a] = "MAP"
               /\ r \in Kids(heap, Top.to) /\ a \in Kids(heap, Top.from)
               /\ UpdateFrame(r, a) \in Frame /\ stack' = Append(s, UpdateFrame(r, a))
               /\ StackOK(heap, stack') /\ Tops(stack) = {} /\ Tops(stack') = {}
               /\ merged' = merged \cup {<<r, a>>}
               /\ s[Len(stack)].at = Top.at /\ s[Len(stack)].slot = c
<1>1. stack # <<>> /\ ~stale /\ Top.f = "update" /\ Top.at # NULL /\ IsMap(heap.val[Top.at])
  BY DEF UpdateNested, Updating
<1>2. PICK c \in Matches(heap, Top.to, NameAt(heap, Top.at)) :
        /\ IsMap(heap.val[c])
        /\ EnterUpdate([stack EXCEPT ![Len(stack)].slot = c], heap.val[c], heap.val[Top.at])
        /\ merged' = merged \cup {<<heap.val[c], heap.val[Top.at]>>}
  BY DEF UpdateNested
<1> DEFINE n == Len(stack)
           s == [stack EXCEPT ![n].slot = c]
           r == heap.val[c]
           a == heap.val[Top.at]
           F == s[n]
<1>3. /\ heap \in Heap /\ stack \in Seq(Frame) /\ StackOK(heap, stack)
      /\ n \in Nat \ {0} /\ n \in 1..n /\ Top = stack[n]
      /\ Top \in Frame /\ Top.to \in Node /\ Top.from \in Node
      /\ FrameOK(heap, Top, Tops(stack)) /\ WellFormed(heap, Owners)
  BY <1>1, AtTop
<1>4. /\ a \in Live(heap) /\ a \in Kids(heap, Top.from) /\ Top.at \in Cells(heap, Top.from)
      /\ heap.type[a] = "MAP"
  BY <1>1, <1>3, AtCell DEF IsMap
<1>5. c \in Cells(heap, Top.to) /\ c \in Cell /\ r # NULL /\ heap.type[r] = "MAP"
  BY <1>2, <1>3, KidsInNode DEF Matches, IsMap
<1>6. r \in Kids(heap, Top.to) /\ r \in Live(heap)
  BY <1>3, <1>5, WellFormedTypes DEF Kids
<1>7. SameCalls(stack, s) /\ F.slot = c /\ F.at = Top.at
  BY <1>1, <1>3, <1>5, MoveFacts
<1>8. s \in Seq(Frame) /\ Len(s) = n /\ F.f = "update" /\ F.to = Top.to /\ F.from = Top.from
  BY <1>1, <1>3, <1>7 DEF SameCalls
<1>9. Tops(stack) = {}
  <2> SUFFICES ASSUME NEW i \in 1..n, stack[i].f = "clone" PROVE FALSE
    BY DEF Tops
  <2>1. i < n
    BY <1>1, <1>3
  <2>2. PairOK(heap, stack[i], stack[n])
    BY <1>3, <2>1 DEF StackOK
  <2>3. QED BY <1>1, <1>3, <2>2 DEF PairOK
<1>10. StackOK(heap, s) /\ Tops(s) = {}
  BY <1>1, <1>3, <1>4, <1>7, <1>9, MoveStack
<1>11. \A G : G.from = a /\ G.to = r /\ G.f = "update" => LinkOK(heap, F, G)
  <2>1. c # NULL /\ F.slot \in Found(heap, F.to, NameAt(heap, F.at))
    BY <1>2, <1>5, <1>7, <1>8, AddressAssumption DEF Found
  <2>2. QED BY <1>1, <1>7, <1>8, <2>1 DEF LinkOK
<1>12. EnterUpdate(s, r, a)
  BY <1>2
<1> HIDE DEF s, r, a, F
<1>13. s[Len(s)] = F
  BY <1>8 DEF F
<1>14. /\ UpdateFrame(r, a) \in Frame /\ stack' = Append(s, UpdateFrame(r, a))
       /\ StackOK(heap, stack') /\ Tops(stack') = {}
  BY <1>3, <1>4, <1>5, <1>6, <1>8, <1>10, <1>11, <1>12, <1>13, UpdateEntered DEF UpdateFrame
<1>15. QED
  BY <1>1, <1>2, <1>4, <1>5, <1>6, <1>7, <1>8, <1>9, <1>14 DEF s, r, a, F

LEMMA NestedKeeps ==
  ASSUME MergeInv, UpdateNested
  PROVE  MergeInv'
<1> DEFINE s(c) == [stack EXCEPT ![Len(stack)].slot = c]
           r(c) == heap.val[c]
           a == heap.val[Top.at]
<1>1. PICK c \in Matches(heap, Top.to, NameAt(heap, Top.at)) :
        /\ stack # <<>> /\ ~stale /\ Top.f = "update" /\ Top.at # NULL
        /\ SameCalls(stack, s(c)) /\ s(c) \in Seq(Frame)
        /\ r(c) \in Live(heap) /\ a \in Live(heap)
        /\ r(c) \in Kids(heap, Top.to) /\ a \in Kids(heap, Top.from)
        /\ UpdateFrame(r(c), a) \in Frame /\ stack' = Append(s(c), UpdateFrame(r(c), a))
        /\ StackOK(heap, stack') /\ Tops(stack) = {} /\ Tops(stack') = {}
        /\ merged' = merged \cup {<<r(c), a>>}
  BY NestedCalled
<1>2. UNCHANGED <<heap, load, held, call, calls, ret, made, stale, was, copy, cut>>
  BY DEF UpdateNested
<1> HIDE DEF s, r, a
<1> DEFINE G == UpdateFrame(r(c), a)
<1>3. G.f = "update" /\ G.to = r(c) /\ G.from = a
  BY DEF UpdateFrame
<1> HIDE DEF G
<1>4. /\ heap \in Heap /\ stack \in Seq(Frame) /\ StackOK(heap, stack) /\ MergeTypeOK
      /\ Len(stack) \in 1..Len(stack) /\ Top = stack[Len(stack)]
      /\ Top.to \in Node /\ Top.from \in Node /\ WellFormed(heap, Owners) /\ r(c) \in Node /\ a \in Node
      /\ NoDangling(heap) /\ OneOwner(heap, Owners) /\ Reached(heap, Owners) /\ Owners \in SUBSET Node
      /\ Top.to \in Live(heap)
  BY <1>1, AtTop, WellFormedTypes, WellFormedParts DEF MergeInv, FrameOK
<1>5. stack' \in Seq(Frame)
  BY <1>1, PushFacts
<1>6. Filling' = {} /\ Filling = {}
  <2>1. Filling' = Tops(stack')
    BY <1>5 DEF Filling, Tops
  <2>2. QED BY <1>1, <1>4, <2>1, FillingIsTops
<1>7. Owners' = Owners
  BY <1>2, <1>6 DEF Owners
<1>8. MergeTypeOK'
  BY <1>1, <1>2, <1>4, <1>5 DEF MergeTypeOK
<1>9. WellFormed(heap', Owners') /\ held' \cap Filling' = {}
  BY <1>2, <1>4, <1>6, <1>7
<1>10. StaleOnlyThroughArrays'
  BY <1>1, <1>2 DEF StaleOnlyThroughArrays
<1>11. Underway'
  <2>1. ASSUME Ordered(heap, stack), G.from \in Tree(heap, G.to)
        PROVE  G.from \in ThroughMaps(heap, G.to)
    <3>1. Top.to \notin Tree(heap, r(c)) /\ r(c) \in Tree(heap, Top.to)
      BY <1>1, <1>4, NoCycle, TreeFacts DEF Closed
    <3>2. CASE a = r(c)
      BY <1>3, <1>4, <3>2, ThroughMapsFacts
    <3>3. CASE a # r(c)
      <4>1. PICK q \in Tree(heap, r(c)) : a \in Kids(heap, q)
        BY <1>3, <1>4, <2>1, <3>3, ParentInTree
      <4>2. q \in Node /\ a \in Kids(heap, q) \cap Kids(heap, Top.from)
        BY <1>1, <1>4, <4>1, TreeFacts
      <4>3. q = Top.from
        BY <1>4, <4>2, UniqueParent
      <4>4. Top.from \in Tree(heap, Top.to)
        BY <1>4, <3>1, <4>1, <4>3, TreeTransitive
      <4>5. Top.from \in ThroughMaps(heap, Top.to)
        BY <1>1, <1>4, <2>1, <4>4 DEF Ordered
      <4>6. heap.type[Top.from] = "MAP"
        BY <1>1, <1>4 DEF StackOK, FrameOK
      <4>7. a \in ThroughMaps(heap, Top.to)
        BY <1>1, <1>4, <4>5, <4>6, ThroughMapsFacts
      <4>8. QED BY <1>3, <1>4, <2>1, <3>1, <4>7, ThroughMapsWithin
    <3>4. QED BY <3>2, <3>3
  <2>2. PairOf(G) \in merged'
    BY <1>1, <1>3 DEF PairOf
  <2>3. QED BY <1>1, <1>2, <2>1, <2>2, PushedUnderway DEF G
<1>12. QED BY <1>8, <1>9, <1>10, <1>11 DEF MergeInv

LEMMA EmptyStack ==
  /\ <<>> \in Seq(Frame) /\ Len(<<>>) = 0
  /\ \A h : StackOK(h, <<>>) /\ Ordered(h, <<>>)
  /\ Tops(<<>>) = {}
BY EmptySeq DEF StackOK, Ordered, Tops

(* The last call returns to the program. *)
LEMMA LastPop ==
  ASSUME MergeInv, stack # <<>>, ~stale, Pop = <<>>
  PROVE  Tops(stack) = IF Top.f = "clone" THEN {Top.to} ELSE {}
<1>1. stack \in Seq(Frame) /\ Top = stack[Len(stack)]
  BY AtTop
<1>2. Tops(stack) = Tops(Pop) \cup (IF Top.f = "clone" THEN {Top.to} ELSE {})
  BY <1>1, PopFacts DEF Pop
<1>3. QED BY <1>2, EmptyStack

LEMMA ReturnKeeps ==
  ASSUME MergeInv, stack # <<>>, ~stale, Pop = <<>>, stack' = <<>>,
         held' = held \cup Tops(stack), ret' \in {0, 1}, made' \in Node \cup {NULL},
         cut' \subseteq merged,
         UNCHANGED <<heap, load, call, calls, stale, was, copy, merged>>
  PROVE  MergeInv'
<1>1. /\ Filling = Tops(stack) /\ WellFormed(heap, Owners) /\ MergeTypeOK
      /\ Owners \subseteq Live(heap) /\ Live(heap) \subseteq Node
  BY AtTop, WellFormedTypes DEF MergeInv
<1>2. Filling' = {}
  BY EmptyStack DEF Filling, Tops
<1>3. Owners' = Owners
  BY <1>1, <1>2 DEF Owners
<1>4. MergeTypeOK'
  BY <1>1, EmptyStack DEF MergeTypeOK, Owners
<1>5. Underway'
  BY EmptyStack DEF Underway
<1>6. QED BY <1>1, <1>2, <1>3, <1>4, <1>5 DEF MergeInv, StaleOnlyThroughArrays

LEMMA BetweenCalls ==
  ASSUME MergeInv, stack = <<>>
  PROVE  /\ Filling = {} /\ Owners = held /\ WellFormed(heap, held) /\ MergeTypeOK
         /\ heap \in Heap /\ held \subseteq Live(heap) /\ Live(heap) \subseteq Node
<1>1. Filling = {} /\ Owners = held
  BY FillingIsTops, EmptyStack DEF Owners
<1>2. QED BY <1>1, WellFormedTypes DEF MergeInv

(* A call that does nothing but return *)
LEMMA NothingKeeps ==
  ASSUME MergeInv, stack = <<>>, ~stale, stack' = <<>>, calls' \in 0..MaxCalls,
         call'.f \in {"update", "clone"}, 
         call' \in [f : {"none", "update", "clone"}, root : Node \cup {NULL}, from : Node \cup {NULL}],
         ret' \in {0, 1}, made' \in Node \cup {NULL}, copy' \in [Node -> Node \cup {NULL}],
         cut' = {}, merged' = {}, UNCHANGED <<heap, load, held, stale>>
  PROVE  MergeInv'
<1>1. Filling = {} /\ Owners = held /\ WellFormed(heap, held) /\ MergeTypeOK
  BY BetweenCalls
<1>2. Filling' = {} /\ Owners' = held
  BY EmptyStack DEF Filling, Tops, Owners
<1>3. MergeTypeOK'
  BY <1>1, EmptyStack DEF MergeTypeOK
<1>4. Underway'
  BY EmptyStack DEF Underway
<1>5. QED BY <1>1, <1>2, <1>3, <1>4 DEF MergeInv, StaleOnlyThroughArrays

LEMMA PassedFacts ==
  ASSUME MergeInv, NEW n \in Passed
  PROVE  n \in Node \cup {NULL} /\ (n # NULL => n \in Live(heap))
BY MergeAssumption DEF Passed, Live

LEMMA CallBeginsFacts ==
  ASSUME MergeInv, NEW f \in {"update", "clone"}, NEW r \in Node \cup {NULL},
         NEW n \in Node \cup {NULL}, CallBegins(f, r, n)
  PROVE  /\ stack = <<>> /\ ~stale /\ calls' \in 0..MaxCalls
         /\ call' \in [f : {"none", "update", "clone"}, root : Node \cup {NULL},
                       from : Node \cup {NULL}]
         /\ call'.f = f /\ call'.root = r /\ call'.from = n
         /\ was'.heap = heap /\ was'.load = load /\ was'.root = Part(r) /\ was'.from = Part(n)
         /\ cut' = {} /\ held' = held /\ stale' = stale
         /\ NoCopies \in [Node -> Node \cup {NULL}]
<1>1. calls \in 0..MaxCalls /\ calls < MaxCalls /\ MaxCalls \in Nat /\ calls' = calls + 1
  BY MergeAssumption DEF CallBegins, MergeInv, MergeTypeOK
<1>2. calls' \in 0..MaxCalls
  BY <1>1
<1>3. QED BY <1>2 DEF CallBegins, NoCopies

LEMMA PtCloneKeeps ==
  ASSUME MergeInv, NEW n \in Passed, PtClone(n)
  PROVE  MergeInv'
<1>1. n \in Node \cup {NULL} /\ (n # NULL => n \in Live(heap))
  BY PassedFacts
<1>2. CallBegins("clone", NULL, n) /\ merged' = {} /\ ret' = ret
  BY DEF PtClone
<1>3. /\ stack = <<>> /\ ~stale /\ calls' \in 0..MaxCalls
      /\ call' \in [f : {"none", "update", "clone"}, root : Node \cup {NULL},
                    from : Node \cup {NULL}]
      /\ call'.f = "clone" /\ call'.from = n
      /\ cut' = {} /\ held' = held /\ stale' = stale /\ NoCopies \in [Node -> Node \cup {NULL}]
  BY <1>1, <1>2, CallBeginsFacts
<1>4. Filling = {} /\ Owners = held /\ WellFormed(heap, held) /\ MergeTypeOK
      /\ heap \in Heap /\ held \subseteq Live(heap) /\ Live(heap) \subseteq Node
  BY <1>3, BetweenCalls
<1>5. CASE n = NULL
  <2>1. made' = NULL /\ copy' = NoCopies /\ heap' = heap /\ load' = load /\ stack' = stack
    BY <1>5 DEF PtClone
  <2>2. ret' \in {0, 1} /\ made' \in Node \cup {NULL}
    BY <1>2, <1>4, <2>1 DEF MergeTypeOK
  <2>3. QED BY <1>2, <1>3, <2>1, <2>2, NothingKeeps
<1>6. CASE n # NULL
  <2>1. EnterClone(<<>>, n, NoCopies) /\ made' = made
    BY <1>6 DEF PtClone
  <2>2. \A m \in Tops(<<>>) : n \notin Tree(heap, m)
    BY EmptyStack
  <2>3. \E m \in FreshNodes(heap) : Cloned(held, <<>>, n, NoCopies, m)
    BY <1>1, <1>4, <1>6, <2>1, <2>2, EmptyStack, CloneEntered
  <2>4. PICK m \in FreshNodes(heap) : Cloned(held, <<>>, n, NoCopies, m)
    BY <2>3
  <2>5. /\ HeapTypeOK(heap') /\ load' \in [Node -> Load] /\ stack' \in Seq(Frame)
        /\ copy' \in [Node -> Node \cup {NULL}] /\ Filling' = {m}
    <3> DEFINE e == <<>>
    <3>1. e \in Seq(Frame) /\ Tops(e) = {} /\ Cloned(held, e, n, NoCopies, m)
      BY <2>4, EmptyStack
    <3> HIDE DEF e
    <3>2. n \in Live(heap) /\ MergeTypeOK /\ NoCopies \in [Node -> Node \cup {NULL}]
      BY <1>1, <1>3, <1>4, <1>6
    <3>3. /\ HeapTypeOK(heap') /\ load' \in [Node -> Load] /\ stack' \in Seq(Frame)
          /\ copy' \in [Node -> Node \cup {NULL}] /\ Filling' = Tops(e) \cup {m}
      BY <3>1, <3>2, ClonedTypes
    <3>4. QED BY <3>1, <3>3
  <2>6. MergeTypeOK'
    BY <1>2, <1>3, <1>4, <2>1, <2>5 DEF MergeTypeOK
  <2>7. WellFormed(heap', Owners') /\ held' \cap Filling' = {}
    <3>1. WellFormed(heap', held \cup {m}) /\ m \notin held
      BY <2>4 DEF Cloned
    <3>2. Owners' = held \cup {m}
      BY <1>3, <2>5 DEF Owners
    <3>3. QED BY <1>3, <2>5, <3>1, <3>2
  <2>8. Underway'
    <3>1. /\ CloneFrame(m, n) \in Frame /\ stack' = Append(<<>>, CloneFrame(m, n))
          /\ StackOK(heap', stack')
          /\ CloneFrame(m, n).f = "clone" /\ CloneFrame(m, n).from = n
      BY <2>4 DEF Cloned, CloneFrame
    <3>2. Len(stack') = 1 /\ stack'[1].f = "clone" /\ stack'[1].from = n
      BY <3>1, EmptyStack, PushFacts
    <3>3. QED BY <1>3, <3>1, <3>2 DEF Underway, Ordered
  <2>9. QED BY <1>3, <2>6, <2>7, <2>8 DEF MergeInv, StaleOnlyThroughArrays
<1>7. QED BY <1>5, <1>6

LEMMA PtMapUpdateKeeps ==
  ASSUME MergeInv, NEW r \in Passed, NEW a \in Passed, PtMapUpdate(r, a)
  PROVE  MergeInv'
<1>1. /\ r \in Node \cup {NULL} /\ (r # NULL => r \in Live(heap))
      /\ a \in Node \cup {NULL} /\ (a # NULL => a \in Live(heap))
  BY PassedFacts
<1>2. /\ CallBegins("update", r, a) /\ copy' = NoCopies
      /\ heap' = heap /\ load' = load /\ made' = made
  BY DEF PtMapUpdate
<1>3. /\ stack = <<>> /\ ~stale /\ calls' \in 0..MaxCalls
      /\ call' \in [f : {"none", "update", "clone"}, root : Node \cup {NULL},
                    from : Node \cup {NULL}]
      /\ call'.f = "update" /\ call'.root = r /\ call'.from = a
      /\ was'.heap = heap /\ was'.root = Part(r)
      /\ cut' = {} /\ held' = held /\ stale' = stale /\ NoCopies \in [Node -> Node \cup {NULL}]
  BY <1>1, <1>2, CallBeginsFacts
<1>4. Filling = {} /\ Owners = held /\ WellFormed(heap, held) /\ MergeTypeOK
      /\ heap \in Heap /\ held \subseteq Live(heap) /\ Live(heap) \subseteq Node
  BY <1>3, BetweenCalls
<1>5. CASE ~(IsMap(r) /\ IsMap(a))
  <2>1. ret' = 1 /\ merged' = {} /\ stack' = stack
    BY <1>5 DEF PtMapUpdate
  <2>2. made' \in Node \cup {NULL} /\ ret' \in {0, 1} /\ copy' \in [Node -> Node \cup {NULL}]
    BY <1>2, <1>3, <1>4, <2>1 DEF MergeTypeOK
  <2>3. QED BY <1>2, <1>3, <2>1, <2>2, NothingKeeps
<1>6. CASE IsMap(r) /\ IsMap(a)
  <2>1. EnterUpdate(<<>>, r, a) /\ merged' = {<<r, a>>} /\ ret' = ret
    BY <1>6 DEF PtMapUpdate
  <2>2. /\ r \in Live(heap) /\ heap.type[r] = "MAP" /\ r # NULL /\ r \in Node
        /\ a \in Live(heap) /\ heap.type[a] = "MAP" /\ a \in Node
    BY <1>1, <1>4, <1>6 DEF IsMap
  <2> DEFINE G == UpdateFrame(r, a)
             e == <<>>
  <2>3. e \in Seq(Frame) /\ StackOK(heap, e) /\ Tops(e) = {} /\ e = <<>> /\ Len(e) = 0
        /\ EnterUpdate(e, r, a)
    BY <2>1, EmptyStack
  <2> HIDE DEF e
  <2>4. G \in Frame /\ stack' = Append(e, G) /\ StackOK(heap, stack') /\ Tops(stack') = {}
    BY <1>4, <2>2, <2>3, UpdateEntered DEF UpdateFrame
  <2>5. G.f = "update" /\ G.to = r /\ G.from = a
    BY DEF UpdateFrame
  <2> HIDE DEF G
  <2>6. stack' \in Seq(Frame) /\ Len(stack') = 1 /\ stack'[1] = G
    BY <2>3, <2>4, PushFacts
  <2>7. Filling' = {} /\ Owners' = held
    <3>1. Filling' = Tops(stack')
      BY <2>6 DEF Filling, Tops
    <3>2. QED BY <1>3, <2>4, <3>1 DEF Owners
  <2>8. MergeTypeOK'
    BY <1>2, <1>3, <1>4, <2>1, <2>2, <2>6 DEF MergeTypeOK
  <2>9. Underway'
    <3>1. Orderly' => Ordered(heap', stack')
      <4>1. was'.root = Tree(heap, r)
        BY <1>3, <2>2 DEF Part
      <4>2. QED BY <1>2, <1>3, <2>5, <2>6, <4>1 DEF Orderly, Ordered
    <3>2. QED BY <1>2, <1>3, <2>1, <2>4, <2>5, <2>6, <3>1 DEF Underway, PairOf
  <2>10. QED BY <1>2, <1>3, <1>4, <2>7, <2>8, <2>9 DEF MergeInv, StaleOnlyThroughArrays
<1>7. QED BY <1>5, <1>6

----------------------------------------------------------------------------
(* What a turn within a call is, one of six *)

(* the loop at hand passes a cell that has no value, *)
Skips ==
  /\ Top.at # NULL /\ heap.val[Top.at] = NULL
  /\ Top.f = "clone" => heap.type[Top.to] # "ARRAY"
  /\ GoOn(heap, stack)
  /\ UNCHANGED <<load, held, call, calls, ret, made, was, copy, merged, cut>>

(* how pt_map_update ended *)
Cuts == (Top.at = NULL /\ cut' = cut) \/ cut' = cut \cup {PairOf(Top)}

(* pt_map_update returns to another loop, *)
Returns ==
  /\ Top.f = "update" /\ Cuts /\ Pop # <<>> /\ GoOn(heap, Pop)
  /\ UNCHANGED <<load, held, call, calls, ret, made, was, copy, merged>>

(* the call by the program ends, *)
Ends ==
  /\ Pop = <<>> /\ stack' = <<>> /\ ret' \in {0, 1}
  /\ \/ Top.f = "update" /\ Cuts /\ UNCHANGED <<made, held>>
     \/ Top.f = "clone" /\ Top.at = NULL /\ cut' = cut /\ made' = Top.to
        /\ held' = held \cup {Top.to}
  /\ UNCHANGED <<heap, load, call, calls, stale, was, copy, merged>>

(* pt_clone is called, *)
Clones(s) ==
  /\ Top.at # NULL /\ heap.val[Top.at] # NULL
  /\ SameCalls(stack, s) /\ s[Len(s)].at = Top.at
  /\ Top.f = "update" => LET e == Value(heap, s[Len(s)].slot)
                         IN  /\ s[Len(s)].slot \in Found(heap, Top.to, NameAt(heap, Top.at))
                             /\ e # NULL => heap.type[e] # "MAP"
  /\ EnterClone(s, heap.val[Top.at], copy)
  /\ UNCHANGED <<held, call, calls, ret, made, stale, was, merged, cut>>

(* a loop puts a value where it fills, or pt_map_update is called (UpdateNested). *)
Fills(s, v, h) ==
  /\ Writes(s, v) /\ s[Len(s)].at # NULL
  /\ v = NULL => Top.at # NULL /\ heap.val[Top.at] = NULL
  /\ v # NULL => Top.at = NULL
  /\ h \in Put(s[Len(s)], v) /\ GoOn(h, s)
  /\ UNCHANGED <<load, held, call, calls, ret, made, was, copy, merged, cut>>

LEMMA UpdateReturnIs ==
  ASSUME MergeInv, Updating, NEW result \in {0, 1}, UpdateReturns(result), Cuts
  PROVE  Returns \/ Ends
<1>1. ret \in {0, 1} /\ Top.f = "update"
  BY DEF MergeInv, MergeTypeOK, Updating
<1>2. CASE Pop = <<>>
  BY <1>1, <1>2 DEF UpdateReturns, Ends
<1>3. CASE Pop # <<>>
  BY <1>1, <1>3 DEF UpdateReturns, Returns
<1>4. QED BY <1>2, <1>3

LEMMA TurnIs ==
  ASSUME MergeInv,
         \/ UpdateSkip \/ UpdateClone \/ UpdateNested \/ UpdateMismatch \/ UpdateEnd
         \/ CloneKid \/ CloneNull \/ CloneReturns
  PROVE  /\ stack # <<>> /\ ~stale
         /\ \/ Skips \/ Returns \/ Ends \/ (\E s : Clones(s)) \/ UpdateNested
            \/ \E s, v, h : Fills(s, v, h)
<1>0. stack # <<>> /\ ~stale
  BY DEF UpdateSkip, UpdateClone, UpdateNested, UpdateMismatch, UpdateEnd, CloneKid, CloneNull,
       CloneReturns, Updating, Cloning
<1>1. /\ stack \in Seq(Frame) /\ Top = stack[Len(stack)] /\ heap \in Heap /\ Top.to \in Node
      /\ MergeTypeOK
  BY <1>0, AtTop DEF MergeInv
<1>2. CASE UpdateSkip
  BY <1>2 DEF UpdateSkip, Updating, Skips
<1>3. CASE UpdateClone
  <2> DEFINE k == NameAt(heap, Top.at)
  <2>1. PICK c \in Found(heap, Top.to, k) :
          /\ Mergeable(Value(heap, c), heap.val[Top.at])
          /\ EnterClone([stack EXCEPT ![Len(stack)].slot = c], heap.val[Top.at], copy)
    BY <1>3 DEF UpdateClone
  <2>2. /\ Top.at # NULL /\ heap.val[Top.at] # NULL
        /\ UNCHANGED <<held, call, calls, ret, made, stale, was, merged, cut>>
    BY <1>3 DEF UpdateClone
  <2> DEFINE s == [stack EXCEPT ![Len(stack)].slot = c]
  <2>3. c \in Cell \cup {NULL}
    <3>1. \A d \in Matches(heap, Top.to, k) : d \in Cell
      BY <1>1, KidsInNode DEF Matches
    <3>2. QED BY <3>1 DEF Found
  <2>4. SameCalls(stack, s) /\ s[Len(stack)].slot = c /\ s[Len(stack)].at = Top.at
    BY <1>0, <1>1, <2>3, MoveFacts
  <2>5. EnterClone(s, heap.val[Top.at], copy)
    BY <2>1
  <2> HIDE DEF s
  <2>6. Len(s) = Len(stack)
    BY <2>4 DEF SameCalls
  <2>7. Value(heap, c) # NULL => heap.type[Value(heap, c)] # "MAP"
    BY <2>1 DEF Mergeable, TypesDiffer
  <2>8. Clones(s)
    BY <2>1, <2>2, <2>4, <2>5, <2>6, <2>7 DEF Clones
  <2>9. QED BY <1>0, <2>8
<1>4. CASE UpdateNested
  BY <1>0, <1>4
<1>5. CASE UpdateMismatch
  <2>1. Cuts /\ UpdateReturns(1) /\ Updating
    BY <1>5 DEF UpdateMismatch, Cuts, PairOf
  <2>2. QED BY <1>0, <2>1, UpdateReturnIs
<1>6. CASE UpdateEnd
  <2>1. Cuts /\ UpdateReturns(0) /\ Updating
    BY <1>6 DEF UpdateEnd, Cuts
  <2>2. QED BY <1>0, <2>1, UpdateReturnIs
<1>7. CASE CloneKid
  <2>1. /\ Top.f = "clone" /\ Top.at # NULL /\ heap.val[Top.at] # NULL
        /\ EnterClone(stack, heap.val[Top.at], copy)
        /\ UNCHANGED <<held, call, calls, ret, made, stale, was, merged, cut>>
    BY <1>7 DEF CloneKid, Cloning
  <2>2. SameCalls(stack, stack)
    BY <1>1, SameCallsRefl
  <2>3. Clones(stack)
    BY <1>1, <2>1, <2>2 DEF Clones
  <2>4. QED BY <1>0, <2>3
<1>8. CASE CloneNull
  <2>1. PICK h \in Put(Top, NULL) : GoOn(h, stack)
    BY <1>8 DEF CloneNull
  <2>2. /\ Top.f = "clone" /\ Top.at # NULL /\ heap.val[Top.at] = NULL
        /\ UNCHANGED <<load, held, call, calls, ret, made, was, copy, merged, cut>>
    BY <1>8 DEF CloneNull, Cloning
  <2>3. CASE heap.type[Top.to] = "ARRAY"
    <3>1. Writes(stack, NULL)
      BY <2>2, <2>3 DEF Writes
    <3>2. Fills(stack, NULL, h)
      BY <1>1, <2>1, <2>2, <3>1 DEF Fills
    <3>3. QED BY <1>0, <3>2
  <2>4. CASE heap.type[Top.to] # "ARRAY"
    <3>1. h = heap
      BY <2>1, <2>4 DEF Put
    <3>2. QED BY <1>0, <2>1, <2>2, <2>4, <3>1 DEF Skips
  <2>5. QED BY <2>3, <2>4
<1>9. CASE CloneReturns
  <2>1. /\ Top.f = "clone" /\ Top.at = NULL
        /\ UNCHANGED <<load, call, calls, ret, was, copy, merged, cut>>
    BY <1>9 DEF CloneReturns, Cloning
  <2>2. CASE Pop = <<>>
    <3>1. ret' \in {0, 1}
      BY <1>1, <2>1 DEF MergeTypeOK
    <3>2. QED BY <1>0, <1>9, <2>1, <2>2, <3>1 DEF CloneReturns, Ends
  <2>3. CASE Pop # <<>>
    <3>1. (\E h \in Put(Pop[Len(Pop)], Top.to) : GoOn(h, Pop)) /\ made' = made /\ held' = held
      BY <1>9, <2>3 DEF CloneReturns
    <3>2. PICK h \in Put(Pop[Len(Pop)], Top.to) : GoOn(h, Pop)
      BY <3>1
    <3>3. Writes(Pop, Top.to) /\ Pop[Len(Pop)].at # NULL /\ Top.to # NULL
      BY <1>0, <1>1, <2>1, <2>3, AtPop, AddressAssumption DEF Writes
    <3>4. Fills(Pop, Top.to, h)
      BY <2>1, <3>1, <3>2, <3>3 DEF Fills
    <3>5. QED BY <1>0, <3>4
  <2>4. QED BY <2>2, <2>3
<1>10. QED BY <1>2, <1>3, <1>4, <1>5, <1>6, <1>7, <1>8, <1>9

LEMMA TurnKeeps ==
  ASSUME MergeInv, stack # <<>>, ~stale,
         \/ Skips \/ Returns \/ Ends \/ (\E s : Clones(s)) \/ UpdateNested
         \/ \E s, v, h : Fills(s, v, h)
  PROVE  MergeInv'
<1>0. MergeTypeOK /\ PairOf(Top) \in Node \X Node /\ (Top.f = "update" => PairOf(Top) \in merged)
  BY AtTop DEF MergeInv, Underway, PairOf
<1>1. CASE Skips
  <2> DEFINE s == stack
  <2>1. s = stack /\ s[Len(s)].at # NULL /\ GoOn(heap, s) /\ ret' \in {0, 1} /\ cut' \subseteq merged
    BY <1>0, <1>1 DEF Skips, MergeTypeOK, Top
  <2>2. UNCHANGED <<load, held, call, calls, made, was, copy, merged>>
    BY <1>1 DEF Skips
  <2> HIDE DEF s
  <2>3. QED BY <2>1, <2>2, QuietKeeps
<1>2. CASE Returns
  <2> DEFINE s == Pop
  <2>1. s = Pop /\ Pop # <<>> /\ Top.f = "update" /\ GoOn(heap, s) /\ ret' \in {0, 1}
    BY <1>0, <1>2 DEF Returns, MergeTypeOK
  <2>2. s[Len(s)].at # NULL
    BY <2>1, AtPop
  <2>3. UNCHANGED <<load, held, call, calls, made, was, copy, merged>> /\ cut' \subseteq merged
    BY <1>0, <1>2 DEF Returns, Cuts, MergeTypeOK
  <2> HIDE DEF s
  <2>4. QED BY <2>1, <2>2, <2>3, QuietKeeps
<1>3. CASE Ends
  <2>1. Tops(stack) = IF Top.f = "clone" THEN {Top.to} ELSE {}
    BY <1>3, LastPop DEF Ends
  <2>2. held' = held \cup Tops(stack) /\ made' \in Node \cup {NULL} /\ cut' \subseteq merged
    BY <1>0, <1>3, <2>1, AtTop DEF Ends, Cuts, MergeTypeOK
  <2>3. QED BY <1>3, <2>2, ReturnKeeps DEF Ends
<1>4. CASE \E s : Clones(s)
  BY <1>4, CloneKeeps DEF Clones
<1>5. CASE UpdateNested
  BY <1>5, NestedKeeps
<1>6. CASE \E s, v, h : Fills(s, v, h)
  BY <1>6, WriteKeeps DEF Fills
<1>7. QED BY <1>1, <1>2, <1>3, <1>4, <1>5, <1>6

LEMMA InitHasMergeInv ==
  ASSUME Init
  PROVE  MergeInv
<1>1. PICK s \in Start : heap = s.heap /\ load = s.load /\ held = s.held
  BY DEF Init
<1>2. WellFormed(heap, held) /\ load \in [Node -> Load]
  BY <1>1, StartAssumption
<1>3. stack = <<>> /\ stale = FALSE /\ Filling = {} /\ Owners = held
  BY EmptyStack DEF Init, Filling, Owners
<1>4. HeapTypeOK(heap) /\ held \subseteq Node
  BY <1>2, WellFormedTypes, WellFormedParts
<1>5. MergeTypeOK
  <2>1. copy \in [Node -> Node \cup {NULL}]
    BY DEF Init, NoCopies
  <2>2. calls \in 0..MaxCalls
    BY MergeAssumption DEF Init
  <2>3. call \in [f : {"none", "update", "clone"}, root : Node \cup {NULL}, from : Node \cup {NULL}]
    BY DEF Init
  <2>4. QED BY <1>2, <1>3, <1>4, <2>1, <2>2, <2>3, EmptyStack DEF Init, MergeTypeOK
<1>6. Underway
  BY <1>3, EmptyStack DEF Underway
<1>7. QED BY <1>2, <1>3, <1>5, <1>6 DEF MergeInv, StaleOnlyThroughArrays

LEMMA NextKeepsMergeInv ==
  ASSUME MergeInv, [Next]_vars
  PROVE  MergeInv'
<1>1. CASE UNCHANGED vars
  BY <1>1 DEF vars, MergeInv, MergeTypeOK, Owners, Filling, Underway, StaleOnlyThroughArrays,
       Orderly
<1>2. CASE Next
  <2>1. \/ \E n \in Passed : PtClone(n)
        \/ \E r \in Passed, n \in Passed : PtMapUpdate(r, n)
        \/ UpdateSkip \/ UpdateClone \/ UpdateNested \/ UpdateMismatch \/ UpdateEnd
        \/ CloneKid \/ CloneNull \/ CloneReturns
    BY <1>2 DEF Next
  <2>2. QED BY <2>1, PtCloneKeeps, PtMapUpdateKeeps, TurnIs, TurnKeeps
<1>3. QED BY <1>1, <1>2

LEMMA SpecHasMergeInv == Spec => []MergeInv
<1>1. Init => MergeInv
  BY InitHasMergeInv
<1>2. MergeInv /\ [Next]_vars => MergeInv'
  BY NextKeepsMergeInv
<1>3. QED BY <1>1, <1>2, PTL DEF Spec

(* The variables have their types, and each heap is one. *)
THEOREM MergeTypes == Spec => []MergeTypeOK
<1>1. MergeInv => MergeTypeOK
  BY DEF MergeInv
<1>2. QED BY <1>1, SpecHasMergeInv, PTL

(* Between any two turns of pt_clone and pt_map_update, whatever documents they
   were given: nothing dangles, each node has one owner and can be reached from
   one.  Clones share nothing, and a merge loses and duplicates nothing.       *)
THEOREM MergeKeepsDocumentsApart == Spec => []DocumentsStayApart
<1>1. MergeInv => DocumentsStayApart
  BY DEF MergeInv, WellFormed, DocumentsStayApart
<1>2. QED BY <1>1, SpecHasMergeInv, PTL

(* pt_map_update reads memory that it has freed only when additions is within
   root and in an array there.                                               *)
THEOREM StaleReadsNeedAnArray == Spec => []StaleOnlyThroughArrays
<1>1. MergeInv => StaleOnlyThroughArrays
  BY DEF MergeInv
<1>2. QED BY <1>1, SpecHasMergeInv, PTL

----------------------------------------------------------------------------
(* What a call leaves alone *)

(* what it may change: what is new, and what root had *)
Writable == {n \in Node : n \notin Live(was.heap) \/ (merged # {} /\ n \in was.root)}

(* what was passed was there *)
WasOK ==
  /\ was.heap \in Heap
  /\ was.root \cup was.from \subseteq Live(was.heap)
  /\ Closed(was.heap, was.root) /\ Closed(was.heap, was.from)
  /\ call.from # NULL => call.from \in was.from
  /\ merged # {} => call.root \in was.root

RestInv ==
  /\ WasOK
  /\ RestIsUntouched
  /\ Closed(heap, Writable)
  /\ \A i \in 1..Len(stack) : stack[i].to \in Writable

(* A step leaves node x as it is. *)
Kept(x) ==
  /\ heap'.type[x] = heap.type[x] /\ heap'.chain[x] = heap.chain[x] /\ load'[x] = load[x]
  /\ \A c \in Cells(heap, x) : /\ c \in heap'.cells /\ heap'.key[c] = heap.key[c]
                               /\ heap'.val[c] = heap.val[c]

LEMMA KeptWhenSame ==
  ASSUME MergeInv, UNCHANGED <<heap, load>>, NEW x \in Node
  PROVE  Kept(x)
<1>1. Cells(heap, x) \subseteq heap.cells
  BY WellFormedTypes DEF MergeInv
<1>2. QED BY <1>1 DEF Kept

LEMMA KeptWhenNew ==
  ASSUME NEW R, WellFormed(heap, R), NEW s, NEW n \in Live(heap), NEW copies,
         NEW m \in FreshNodes(heap), Cloned(R, s, n, copies, m), load \in [Node -> Load]
  PROVE  /\ \A x \in Node \ {m} : Kept(x)
         /\ \A x \in Node : Kids(heap', x) = Kids(heap, x)
         /\ heap'.type[m] = heap.type[n] /\ heap'.chain[m] = <<>> /\ Cells(heap', m) = {}
         /\ load'[m] = load[n] /\ copy' = [copies EXCEPT ![m] = n]
         /\ m \in Node /\ m \notin Live(heap) /\ Live(heap') = Live(heap) \cup {m}
<1>1. heap.type[n] \in NodeType
  BY WellFormedTypes DEF Live, Heap
<1>2. /\ heap'.chain = heap.chain /\ heap'.cells = heap.cells
      /\ heap'.key = heap.key /\ heap'.val = heap.val
      /\ heap'.type[m] = heap.type[n] /\ \A x \in Node \ {m} : heap'.type[x] = heap.type[x]
      /\ \A x \in Node : Kids(heap', x) = Kids(heap, x)
      /\ heap'.chain[m] = <<>> /\ Cells(heap', m) = {} /\ m \in Node
      /\ m \notin Live(heap) /\ Live(heap') = Live(heap) \cup {m}
  BY <1>1, NewNodeEffect DEF Cloned
<1>3. load' = [load EXCEPT ![m] = load[n]]
  BY DEF Cloned
<1>4. load'[m] = load[n] /\ \A x \in Node \ {m} : load'[x] = load[x]
  BY <1>2, <1>3
<1>5. \A x \in Node : Cells(heap, x) \subseteq heap.cells
  BY WellFormedTypes
<1>6. QED BY <1>2, <1>4, <1>5 DEF Kept, Cloned

LEMMA KeptWhenWritten ==
  ASSUME NEW R, WellFormed(heap, R), NEW p \in Node, NEW c \in Cell, NEW v,
         Wrote(heap, heap', p, c, v), load' = load
  PROVE  \A x \in Node \ Hung(heap, c) : x # p => Kept(x)
<1> SUFFICES ASSUME NEW x \in Node \ Hung(heap, c), x # p PROVE Kept(x)
  OBVIOUS
<1>1. Cells(heap, x) \subseteq heap'.cells
  BY WroteCells
<1>2. c \notin Cells(heap, x)
  BY WellFormedTypes DEF Wrote
<1>3. QED BY <1>1, <1>2 DEF Kept, Wrote

(* What the turns but those of UpdateNested do *)
LEMMA CloneLeaves ==
  ASSUME MergeInv, stack # <<>>, ~stale, NEW s, Clones(s)
  PROVE  LET n == heap.val[Top.at]
         IN  /\ n \in Live(heap) /\ s \in Seq(Frame) /\ Tops(s) = Tops(stack)
             /\ \E m \in FreshNodes(heap) :
                  /\ Cloned(Owners, s, n, copy, m)
                  /\ \A x \in Node \ {m} : Kept(x)
                  /\ \A x \in Node : Kids(heap', x) = Kids(heap, x)
<1> DEFINE n == heap.val[Top.at]
<1>1. /\ n \in Live(heap) /\ s \in Seq(Frame) /\ Tops(s) = Tops(stack)
      /\ \E m \in FreshNodes(heap) : Cloned(Owners, s, n, copy, m)
  BY CloneCalled DEF Clones
<1>2. PICK m \in FreshNodes(heap) : Cloned(Owners, s, n, copy, m)
  BY <1>1
<1> HIDE DEF n
<1>3. WellFormed(heap, Owners) /\ load \in [Node -> Load]
  BY DEF MergeInv, MergeTypeOK
<1>4. (\A x \in Node \ {m} : Kept(x)) /\ \A x \in Node : Kids(heap', x) = Kids(heap, x)
  BY <1>1, <1>2, <1>3, KeptWhenNew
<1>5. QED BY <1>1, <1>2, <1>4 DEF n

LEMMA FillLeaves ==
  ASSUME MergeInv, stack # <<>>, ~stale, NEW s, NEW v, NEW h, Fills(s, v, h)
  PROVE  LET F == s[Len(s)]
         IN  /\ heap' = h /\ WellFormed(h, Owners \ {v})
             /\ SameCalls(s, stack') /\ Continues(stack, stack') /\ Tops(stack') = Tops(stack) \ {v}
             /\ \E c \in Cell :
                  /\ Wrote(heap, h, F.to, c, v) /\ PutAt(h, F, c)
                  /\ \A x \in Node \ Hung(heap, c) : x # F.to => Kept(x)
                  /\ ~stale' => /\ stack'[Len(s)].at = NextCell(h, F.from, F.at)
                                /\ \A i \in 1..Len(s) : /\ s[i].to \notin Hung(heap, c)
                                                        /\ s[i].from \notin Hung(heap, c)
<1> DEFINE F == s[Len(s)]
<1>1. /\ heap' = h /\ WellFormed(h, Owners \ {v}) /\ SameCalls(s, stack')
      /\ Continues(stack, stack') /\ Tops(stack') = Tops(stack) \ {v}
      /\ \E c \in Cell :
           /\ Wrote(heap, h, F.to, c, v) /\ PutAt(h, F, c)
           /\ ~stale' => /\ stack'[Len(s)].at = NextCell(h, F.from, F.at)
                         /\ \A i \in 1..Len(s) : /\ s[i].to \notin Hung(heap, c)
                                                 /\ s[i].from \notin Hung(heap, c)
  BY WriteTurn DEF Fills
<1>2. F.to \in Node /\ WellFormed(heap, Owners) /\ load' = load
  BY WriterFacts DEF Fills, MergeInv
<1>3. PICK c \in Cell :
        /\ Wrote(heap, h, F.to, c, v) /\ PutAt(h, F, c)
        /\ ~stale' => /\ stack'[Len(s)].at = NextCell(h, F.from, F.at)
                      /\ \A i \in 1..Len(s) : /\ s[i].to \notin Hung(heap, c)
                                              /\ s[i].from \notin Hung(heap, c)
  BY <1>1
<1> HIDE DEF F
<1>4. \A x \in Node \ Hung(heap, c) : x # F.to => Kept(x)
  BY <1>1, <1>2, <1>3, KeptWhenWritten
<1>5. QED BY <1>1, <1>3, <1>4 DEF F

LEMMA RestKept ==
  ASSUME RestInv, was' = was, call' = call, merged' = {} <=> merged = {},
         \A x \in Node \ Writable : Kept(x), Closed(heap', Writable),
         \A i \in 1..Len(stack') : stack'[i].to \in Writable
  PROVE  RestInv'
<1>1. Writable' = Writable
  BY DEF Writable
<1>2. WasOK'
  BY DEF RestInv, WasOK
<1>3. RestIsUntouched'
  <2> SUFFICES ASSUME NEW n \in Live(was.heap), merged = {} \/ n \notin was.root
               PROVE  Untouched(n)'
    BY DEF RestIsUntouched
  <2>1. Untouched(n) /\ n \in Node /\ n \notin Writable
    BY DEF RestInv, RestIsUntouched, Writable, Live
  <2>2. Kept(n) /\ Cells(was.heap, n) = Cells(heap, n)
    BY <2>1 DEF Untouched, Cells
  <2>3. QED BY <2>1, <2>2 DEF Kept, Untouched
<1>4. QED BY <1>1, <1>2, <1>3 DEF RestInv

LEMMA TurnKeepsRest ==
  ASSUME MergeInv, RestInv, stack # <<>>, ~stale,
         \/ Skips \/ Returns \/ Ends \/ (\E s : Clones(s)) \/ UpdateNested
         \/ \E s, v, h : Fills(s, v, h)
  PROVE  RestInv'
<1>0. /\ \A i \in 1..Len(stack) : stack[i].to \in Writable
      /\ Closed(heap, Writable) /\ Writable \in SUBSET Node
      /\ heap \in Heap /\ WellFormed(heap, Owners) /\ stack \in Seq(Frame)
      /\ Top = stack[Len(stack)] /\ Len(stack) \in 1..Len(stack) /\ Len(stack) \in Nat
  BY AtTop DEF RestInv, Writable
<1>1. ASSUME UNCHANGED <<heap, load, was, call, merged>>,
             Continues(stack, stack') \/ stack' = <<>>
      PROVE  RestInv'
  <2>1. \A x \in Node \ Writable : Kept(x)
    BY <1>1, KeptWhenSame
  <2>2. \A i \in 1..Len(stack') : stack'[i].to \in Writable
    <3>1. CASE stack' = <<>>
      <4>1. Len(stack') = 0
        BY <3>1, EmptyStack
      <4>2. QED BY <4>1
    <3>2. CASE Continues(stack, stack')
      <4>1. Len(stack') \in Nat
        BY <3>2, LenProperties DEF Continues
      <4>2. QED BY <1>0, <3>2, <4>1 DEF Continues
    <3>3. QED BY <1>1, <3>1, <3>2
  <2>3. QED BY <1>0, <1>1, <2>1, <2>2, RestKept
<1>2. CASE Skips
  <2> DEFINE s == stack
  <2>1. s = stack /\ s[Len(s)].at # NULL /\ GoOn(heap, s)
    BY <1>2 DEF Skips, Top
  <2> HIDE DEF s
  <2>2. heap' = heap /\ Continues(stack, stack')
    BY <2>1, QuietTurn
  <2>3. QED BY <1>1, <1>2, <2>2 DEF Skips
<1>3. CASE Returns
  <2> DEFINE s == Pop
  <2>1. s = Pop /\ Pop # <<>> /\ Top.f = "update" /\ s[Len(s)].at # NULL /\ GoOn(heap, s)
    BY <1>3, AtPop DEF Returns
  <2> HIDE DEF s
  <2>2. heap' = heap /\ Continues(stack, stack')
    BY <2>1, QuietTurn
  <2>3. QED BY <1>1, <1>3, <2>2 DEF Returns
<1>4. CASE Ends
  BY <1>1, <1>4 DEF Ends
<1>5. CASE \E s : Clones(s)
  <2>1. PICK s : Clones(s)
    BY <1>5
  <2> DEFINE n == heap.val[Top.at]
  <2>2. PICK m \in FreshNodes(heap) :
          /\ Cloned(Owners, s, n, copy, m)
          /\ \A x \in Node \ {m} : Kept(x)
          /\ \A x \in Node : Kids(heap', x) = Kids(heap, x)
    BY <2>1, CloneLeaves
  <2>3. s \in Seq(Frame) /\ SameCalls(stack, s) /\ UNCHANGED <<was, call, merged>>
    BY <2>1, CloneLeaves DEF Clones
  <2>4. m \in Writable
    <3> SUFFICES ASSUME m \notin Writable PROVE FALSE
      OBVIOUS
    <3>1. m \in Node /\ m \notin Live(heap) /\ m \in Live(was.heap)
      BY DEF FreshNodes, Writable
    <3>2. Untouched(m)
      BY <3>1 DEF RestInv, RestIsUntouched, Writable
    <3>3. QED BY <3>1, <3>2 DEF Untouched, Live
  <2>5. /\ CloneFrame(m, n) \in Frame /\ CloneFrame(m, n).to = m
        /\ stack' = Append(s, CloneFrame(m, n))
    BY <2>2 DEF Cloned, CloneFrame
  <2>6. \A i \in 1..Len(stack') : stack'[i].to \in Writable
    <3>1. /\ Len(stack') = Len(stack) + 1 /\ stack'[Len(stack) + 1] = CloneFrame(m, n)
          /\ \A i \in 1..Len(stack) : stack'[i].to = stack[i].to
      BY <2>3, <2>5, PushFacts DEF SameCalls
    <3>2. 1..(Len(stack) + 1) = 1..Len(stack) \cup {Len(stack) + 1}
      BY <1>0
    <3>3. QED BY <1>0, <2>4, <2>5, <3>1, <3>2
  <2>7. Closed(heap', Writable)
    BY <1>0, <2>2 DEF Closed
  <2>8. QED BY <2>2, <2>3, <2>4, <2>6, <2>7, RestKept
<1>6. CASE UpdateNested
  <2>1. PICK c \in Matches(heap, Top.to, NameAt(heap, Top.at)) :
          LET s == [stack EXCEPT ![Len(stack)].slot = c]
              r == heap.val[c]
              a == heap.val[Top.at]
          IN  /\ SameCalls(stack, s) /\ s \in Seq(Frame)
              /\ r \in Kids(heap, Top.to)
              /\ UpdateFrame(r, a) \in Frame /\ stack' = Append(s, UpdateFrame(r, a))
              /\ merged' = merged \cup {<<r, a>>} /\ Top.f = "update"
    BY <1>6, NestedCalled
  <2> DEFINE s == [stack EXCEPT ![Len(stack)].slot = c]
             r == heap.val[c]
             a == heap.val[Top.at]
  <2>2. UNCHANGED <<heap, load, was, call>>
    BY <1>6 DEF UpdateNested
  <2>3. r \in Writable
    BY <1>0, <2>1 DEF Closed
  <2>4. merged # {} /\ merged' # {}
    BY <1>0, <2>1 DEF MergeInv, Underway
  <2>5. UpdateFrame(r, a).to = r
    BY DEF UpdateFrame
  <2>6. SameCalls(stack, s) /\ s \in Seq(Frame) /\ UpdateFrame(r, a) \in Frame
        /\ stack' = Append(s, UpdateFrame(r, a))
    BY <2>1
  <2> HIDE DEF s, r, a
  <2>7. \A i \in 1..Len(stack') : stack'[i].to \in Writable
    <3>1. /\ Len(stack') = Len(stack) + 1 /\ stack'[Len(stack) + 1] = UpdateFrame(r, a)
          /\ \A i \in 1..Len(stack) : stack'[i].to = stack[i].to
      BY <2>6, PushFacts DEF SameCalls
    <3>2. 1..(Len(stack) + 1) = 1..Len(stack) \cup {Len(stack) + 1}
      BY <1>0
    <3>3. QED BY <1>0, <2>3, <2>5, <3>1, <3>2
  <2>8. \A x \in Node \ Writable : Kept(x)
    BY <2>2, KeptWhenSame
  <2>9. QED BY <1>0, <2>2, <2>4, <2>7, <2>8, RestKept
<1>7. CASE \E s, v, h : Fills(s, v, h)
  <2>1. PICK s, v, h : Fills(s, v, h)
    BY <1>7
  <2> DEFINE F == s[Len(s)]
  <2>2. heap' = h /\ Continues(stack, stack') /\ UNCHANGED <<load, was, call, merged>>
    BY <2>1, FillLeaves DEF Fills
  <2>3. PICK c \in Cell : /\ Wrote(heap, h, F.to, c, v)
                          /\ \A x \in Node \ Hung(heap, c) : x # F.to => Kept(x)
    BY <2>1, FillLeaves
  <2>4. /\ s \in Seq(Frame) /\ s # <<>> /\ Continues(stack, s) /\ F.to \in Node
    BY <2>1, WriterFacts DEF Fills
  <2>5. F.to \in Writable
    <3>1. Len(s) \in 1..Len(s) /\ Len(s) \in 1..Len(stack)
      BY <1>0, <2>4, LenProperties, EmptySeq DEF Continues
    <3>2. QED BY <1>0, <2>4, <3>1 DEF Continues
  <2>6. v \in Writable \cup {NULL}
    BY <1>0, <2>1 DEF Fills, Writes
  <2>7. Hung(heap, c) \subseteq Writable
    <3>1. Hung(heap, c) \subseteq Tree(heap, F.to)
      BY <1>0, <2>3, <2>4, WroteHung
    <3>2. Tree(heap, F.to) \subseteq Writable
      BY <1>0, <2>4, <2>5, TreeFacts
    <3>3. QED BY <3>1, <3>2
  <2>8. Closed(heap', Writable)
    <3> SUFFICES ASSUME NEW x \in Writable PROVE Kids(heap', x) \subseteq Writable
      BY DEF Closed
    <3>1. x \in Node /\ Kids(heap, x) \subseteq Writable
      BY <1>0 DEF Closed
    <3>2. CASE x \in Hung(heap, c)
      BY <1>0, <2>2, <2>3, <2>4, <3>2, WroteKids
    <3>3. CASE x \notin Hung(heap, c)
      <4>1. Kids(h, x) \subseteq Kids(heap, x) \cup (IF x = F.to THEN {v} \ {NULL} ELSE {})
        BY <1>0, <2>3, <2>4, <3>1, <3>3, WroteKids
      <4>2. QED BY <2>2, <2>6, <3>1, <4>1
    <3>4. QED BY <3>2, <3>3
  <2>9. \A i \in 1..Len(stack') : stack'[i].to \in Writable
    <3>1. Len(stack') \in Nat
      BY <2>2, LenProperties DEF Continues
    <3>2. QED BY <1>0, <2>2, <3>1 DEF Continues
  <2>10. QED BY <2>2, <2>3, <2>5, <2>7, <2>8, <2>9, RestKept
<1>8. QED BY <1>2, <1>3, <1>4, <1>5, <1>6, <1>7

(* A call begins, and does nothing yet but make a clone. *)
LEMMA RestBegins ==
  ASSUME MergeInv, NEW f \in {"update", "clone"},
         NEW r \in Live(heap) \cup {NULL}, NEW a \in Live(heap) \cup {NULL}, CallBegins(f, r, a),
         merged' # {} => r # NULL, \A x \in Live(heap) : Kept(x),
         \A x \in Node : Kids(heap', x) = Kids(heap, x),
         \A i \in 1..Len(stack') : stack'[i].to \in Node \ Live(heap)
                                   \/ (merged' # {} /\ stack'[i].to = r)
  PROVE  RestInv'
<1>1. /\ was'.heap = heap /\ was'.load = load /\ was'.root = Part(r) /\ was'.from = Part(a)
      /\ call'.root = r /\ call'.from = a /\ stack = <<>>
  BY DEF CallBegins
<1>2. WellFormed(heap, held) /\ heap \in Heap /\ Live(heap) \subseteq Node /\ NULL \notin Node
  BY <1>1, BetweenCalls, AddressAssumption
<1>3. ASSUME NEW n \in Live(heap) \cup {NULL}
      PROVE  /\ Part(n) \subseteq Live(heap) /\ Closed(heap, Part(n))
             /\ n # NULL => n \in Part(n)
  <2>1. CASE n = NULL
    BY <2>1 DEF Part, Closed
  <2>2. CASE n # NULL
    <3>1. n \in Live(heap) /\ Part(n) = Tree(heap, n) /\ n \in Node
      BY <1>2, <2>2 DEF Part
    <3>2. Closed(heap, Live(heap)) /\ Live(heap) \in SUBSET Node
      BY <1>2, WellFormedTypes DEF Closed
    <3>3. QED BY <1>2, <3>1, <3>2, TreeFacts
  <2>3. QED BY <2>1, <2>2
<1>4. WasOK'
  BY <1>1, <1>2, <1>3 DEF WasOK
<1>5. Writable' = {n \in Node : n \notin Live(heap) \/ (merged' # {} /\ n \in Part(r))}
  BY <1>1 DEF Writable
<1>6. RestIsUntouched'
  BY <1>1 DEF RestIsUntouched, Untouched, Kept
<1>7. Closed(heap', Writable')
  <2> SUFFICES ASSUME NEW x \in Node, x \notin Live(heap) \/ (merged' # {} /\ x \in Part(r)),
                      NEW y \in Kids(heap, x)
               PROVE  y \in Node /\ merged' # {} /\ y \in Part(r)
    BY <1>5 DEF Closed
  <2>1. x \in Live(heap)
    <3>1. Cells(heap, x) # {}
      BY DEF Kids
    <3>2. QED BY <1>2, <3>1, WellFormedTypes
  <2>2. QED BY <1>2, <1>3, <2>1 DEF Closed
<1>8. \A i \in 1..Len(stack') : stack'[i].to \in Writable'
  BY <1>2, <1>3, <1>5
<1>9. QED BY <1>4, <1>6, <1>7, <1>8 DEF RestInv

(* what a call of pt_clone by the program does *)
LEMMA PtCloneEnters ==
  ASSUME MergeInv, NEW n \in Passed, n # NULL, PtClone(n)
  PROVE  /\ n \in Live(heap) /\ MergeTypeOK /\ heap \in Heap /\ WellFormed(heap, held)
         /\ \E m \in FreshNodes(heap) :
              /\ Cloned(held, <<>>, n, NoCopies, m)
              /\ Len(stack') = 1 /\ stack'[1] = CloneFrame(m, n) /\ Tops(stack') = {m}
              /\ \A x \in Node \ {m} : Kept(x)
              /\ \A x \in Node : Kids(heap', x) = Kids(heap, x)
<1>1. n \in Live(heap) /\ stack = <<>> /\ EnterClone(<<>>, n, NoCopies)
  BY PassedFacts DEF PtClone, CallBegins
<1>2. WellFormed(heap, held) /\ MergeTypeOK /\ heap \in Heap
  BY <1>1, BetweenCalls
<1> DEFINE e == <<>>
<1>3. e \in Seq(Frame) /\ Tops(e) = {} /\ StackOK(heap, e) /\ e = <<>> /\ Len(e) = 0
  BY EmptyStack
<1> HIDE DEF e
<1>4. EnterClone(e, n, NoCopies) /\ (\A m \in Tops(e) : n \notin Tree(heap, m)) /\ Tops(e) \subseteq held
  BY <1>1, <1>3
<1>5. PICK m \in FreshNodes(heap) : Cloned(held, e, n, NoCopies, m)
  BY <1>1, <1>2, <1>3, <1>4, CloneEntered
<1>6. (\A x \in Node \ {m} : Kept(x)) /\ \A x \in Node : Kids(heap', x) = Kids(heap, x)
  BY <1>1, <1>2, <1>5, KeptWhenNew DEF MergeTypeOK
<1>7. Len(stack') = 1 /\ stack'[1] = CloneFrame(m, n) /\ Tops(stack') = {m}
  <2>1. CloneFrame(m, n) \in Frame /\ stack' = Append(e, CloneFrame(m, n))
        /\ Tops(stack') = Tops(e) \cup {m}
    BY <1>5 DEF Cloned
  <2>2. QED BY <1>3, <2>1, PushFacts
<1>8. QED BY <1>1, <1>2, <1>3, <1>5, <1>6, <1>7

(* what a call of pt_map_update by the program does *)
LEMMA PtMapUpdateEnters ==
  ASSUME MergeInv, NEW r \in Passed, NEW a \in Passed, PtMapUpdate(r, a)
  PROVE  /\ UNCHANGED <<heap, load>> /\ copy' = NoCopies /\ cut' = {} /\ stack = <<>>
         /\ r \in Live(heap) \cup {NULL} /\ a \in Live(heap) \cup {NULL}
         /\ \/ merged' = {} /\ stack' = <<>>
            \/ /\ merged' = {<<r, a>>} /\ Len(stack') = 1 /\ stack'[1] = UpdateFrame(r, a)
               /\ stack' \in Seq(Frame) /\ UpdateFrame(r, a) \in Frame
               /\ IsMap(r) /\ IsMap(a) /\ r \in Live(heap) /\ a \in Live(heap)
<1>1. /\ UNCHANGED <<heap, load>> /\ copy' = NoCopies /\ cut' = {} /\ stack = <<>>
      /\ r \in Live(heap) \cup {NULL} /\ a \in Live(heap) \cup {NULL}
  BY PassedFacts DEF PtMapUpdate, CallBegins
<1>2. CASE ~(IsMap(r) /\ IsMap(a))
  BY <1>1, <1>2 DEF PtMapUpdate
<1>3. CASE IsMap(r) /\ IsMap(a)
  <2>1. /\ EnterUpdate(<<>>, r, a) /\ merged' = {<<r, a>>}
        /\ r \in Live(heap) /\ a \in Live(heap) /\ heap \in Heap
    BY <1>1, <1>3, BetweenCalls DEF PtMapUpdate, IsMap
  <2> DEFINE e == <<>>
  <2>2. e \in Seq(Frame) /\ Len(e) = 0
    BY EmptyStack
  <2>3. stack' = Append(e, UpdateFrame(r, a))
    BY <2>1 DEF EnterUpdate, UpdateFrame
  <2> HIDE DEF e
  <2>4. UpdateFrame(r, a) \in Frame
    <3>1. FirstCell(heap, a) \in Cell \cup {NULL} /\ r \in Node /\ a \in Node
      BY <2>1, NextCellFacts, KidsInNode DEF Live
    <3>2. QED BY <3>1 DEF UpdateFrame, Frame
  <2>5. Len(stack') = 1 /\ stack'[1] = UpdateFrame(r, a) /\ stack' \in Seq(Frame)
    BY <2>2, <2>3, <2>4, PushFacts
  <2>6. QED BY <1>1, <1>3, <2>1, <2>4, <2>5
<1>4. QED BY <1>2, <1>3

LEMMA CallKeepsRest ==
  ASSUME MergeInv, \/ \E n \in Passed : PtClone(n)
                   \/ \E r \in Passed, n \in Passed : PtMapUpdate(r, n)
  PROVE  RestInv'
<1>0. Live(heap) \subseteq Node /\ Len(<<>>) = 0
  BY WellFormedTypes DEF MergeInv
<1>1. CASE \E n \in Passed : PtClone(n)
  <2>1. PICK n \in Passed : PtClone(n)
    BY <1>1
  <2>2. CallBegins("clone", NULL, n) /\ merged' = {} /\ n \in Live(heap) \cup {NULL}
    BY <2>1, PassedFacts DEF PtClone
  <2>3. CASE n = NULL
    <3>1. UNCHANGED <<heap, load>> /\ stack' = <<>>
      BY <2>1, <2>3 DEF PtClone, CallBegins
    <3>2. \A x \in Live(heap) : Kept(x)
      BY <1>0, <3>1, KeptWhenSame
    <3>3. \A i \in 1..Len(stack') : FALSE
      BY <1>0, <3>1
    <3>4. QED BY <2>2, <3>1, <3>2, <3>3, RestBegins
  <2>4. CASE n # NULL
    <3>1. PICK m \in FreshNodes(heap) :
            /\ Len(stack') = 1 /\ stack'[1] = CloneFrame(m, n)
            /\ \A x \in Node \ {m} : Kept(x)
            /\ \A x \in Node : Kids(heap', x) = Kids(heap, x)
      BY <2>1, <2>4, PtCloneEnters
    <3>2. \A i \in 1..Len(stack') : i = 1 /\ stack'[i].to = m
      BY <3>1 DEF CloneFrame
    <3>3. (\A x \in Live(heap) : Kept(x)) /\ m \in Node \ Live(heap)
      BY <1>0, <3>1 DEF FreshNodes
    <3>4. QED BY <2>2, <3>1, <3>2, <3>3, RestBegins
  <2>5. QED BY <2>3, <2>4
<1>2. CASE \E r \in Passed, n \in Passed : PtMapUpdate(r, n)
  <2>1. PICK r \in Passed, n \in Passed : PtMapUpdate(r, n)
    BY <1>2
  <2>2. /\ UNCHANGED <<heap, load>>
        /\ r \in Live(heap) \cup {NULL} /\ n \in Live(heap) \cup {NULL}
        /\ \/ merged' = {} /\ stack' = <<>>
           \/ merged' # {} /\ Len(stack') = 1 /\ stack'[1].to = r /\ IsMap(r)
    <3>1. UpdateFrame(r, n).to = r
      BY DEF UpdateFrame
    <3>2. \/ merged' = {} /\ stack' = <<>>
          \/ /\ merged' = {<<r, n>>} /\ Len(stack') = 1 /\ stack'[1] = UpdateFrame(r, n)
             /\ IsMap(r)
      BY <2>1, PtMapUpdateEnters
    <3>3. merged' = {<<r, n>>} => merged' # {}
      OBVIOUS
    <3>4. /\ UNCHANGED <<heap, load>>
          /\ r \in Live(heap) \cup {NULL} /\ n \in Live(heap) \cup {NULL}
      BY <2>1, PtMapUpdateEnters
    <3>5. QED BY <3>1, <3>2, <3>3, <3>4
  <2>3. CallBegins("update", r, n) /\ \A x \in Live(heap) : Kept(x)
    BY <1>0, <2>1, <2>2, KeptWhenSame DEF PtMapUpdate
  <2>4. \A x \in Node : Kids(heap', x) = Kids(heap, x)
    BY <2>2
  <2>5. /\ merged' # {} => r # NULL
        /\ \A i \in 1..Len(stack') : merged' # {} /\ stack'[i].to = r
    BY <1>0, <2>2 DEF IsMap
  <2>6. QED BY <2>2, <2>3, <2>4, <2>5, RestBegins
<1>3. QED BY <1>1, <1>2

LEMMA InitHasRestInv ==
  ASSUME Init
  PROVE  RestInv
<1>1. MergeInv /\ stack = <<>> /\ Len(stack) = 0
  BY InitHasMergeInv, EmptyStack DEF Init
<1>2. WellFormed(heap, held) /\ heap \in Heap
  BY <1>1, BetweenCalls
<1>3. /\ was.heap = heap /\ was.load = load /\ was.root = {} /\ was.from = {} /\ merged = {}
      /\ call.from = NULL
  BY DEF Init
<1>4. WasOK
  BY <1>2, <1>3 DEF WasOK, Closed
<1>5. RestIsUntouched
  <2>1. \A n \in Node : Cells(heap, n) \subseteq heap.cells
    BY <1>2, WellFormedTypes
  <2>2. QED BY <1>3, <2>1 DEF RestIsUntouched, Untouched, Live
<1>6. Closed(heap, Writable)
  <2> SUFFICES ASSUME NEW x \in Node, x \notin Live(heap) PROVE Kids(heap, x) = {}
    BY <1>3 DEF Closed, Writable
  <2>1. Cells(heap, x) = {}
    BY <1>2, WellFormedTypes
  <2>2. QED BY <2>1 DEF Kids
<1>7. QED BY <1>1, <1>4, <1>5, <1>6 DEF RestInv

LEMMA NextKeepsRestInv ==
  ASSUME MergeInv, RestInv, [Next]_vars
  PROVE  RestInv'
<1>1. CASE UNCHANGED vars
  BY <1>1 DEF vars, RestInv, WasOK, RestIsUntouched, Untouched, Writable
<1>2. CASE Next
  <2>1. \/ \E n \in Passed : PtClone(n)
        \/ \E r \in Passed, n \in Passed : PtMapUpdate(r, n)
        \/ UpdateSkip \/ UpdateClone \/ UpdateNested \/ UpdateMismatch \/ UpdateEnd
        \/ CloneKid \/ CloneNull \/ CloneReturns
    BY <1>2 DEF Next
  <2>2. QED BY <2>1, CallKeepsRest, TurnIs, TurnKeepsRest
<1>3. QED BY <1>1, <1>2

LEMMA SpecHasRestInv == Spec => []RestInv
<1>1. Init => RestInv
  BY InitHasRestInv
<1>2. MergeInv /\ RestInv /\ [Next]_vars => RestInv'
  BY NextKeepsRestInv
<1>3. QED BY <1>1, <1>2, SpecHasMergeInv, PTL DEF Spec

(* pt_clone changes nothing that was there, and pt_map_update nothing outside
   root's part: additions, in particular, comes out as it went in.           *)
THEOREM CallsLeaveTheRestAlone == Spec => []RestIsUntouched
<1>1. RestInv => RestIsUntouched
  BY DEF RestInv
<1>2. QED BY <1>1, SpecHasRestInv, PTL

----------------------------------------------------------------------------
(* What clones are *)

(* how many cells a loop that is at c has passed *)
Passage(h, n, c) == IF c = NULL THEN Len(h.chain[n]) ELSE PlaceOf(h, n, c) - 1

LEMMA PassageFacts ==
  ASSUME NEW h \in Heap, NEW n \in Node, IsInjective(h.chain[n])
  PROVE  /\ Len(h.chain[n]) \in Nat
         /\ \A i \in 1..Len(h.chain[n]) : h.chain[n][i] \in Cells(h, n)
         /\ \A c \in Cells(h, n) : \E i \in 1..Len(h.chain[n]) : h.chain[n][i] = c
         /\ \A i, j \in 1..Len(h.chain[n]) : h.chain[n][i] = h.chain[n][j] => i = j
         /\ Passage(h, n, FirstCell(h, n)) = 0
         /\ \A c \in Cells(h, n) \cup {NULL} : Passage(h, n, c) \in 0..Len(h.chain[n])
         /\ \A c \in Cells(h, n) :
              /\ c # NULL /\ Passage(h, n, c) + 1 \in 1..Len(h.chain[n])
              /\ h.chain[n][Passage(h, n, c) + 1] = c
              /\ Passage(h, n, NextCell(h, n, c)) = Passage(h, n, c) + 1
<1> DEFINE s == h.chain[n]
<1>1. /\ s \in Seq(Cell) /\ DOMAIN s = 1..Len(s) /\ Cells(h, n) = {s[i] : i \in 1..Len(s)}
      /\ Len(s) \in Nat
  <2>1. s \in Seq(Cell)
    BY DEF Heap
  <2>2. Len(s) \in Nat /\ DOMAIN s = 1..Len(s)
    BY <2>1, LenProperties
  <2>3. Cells(h, n) = {s[i] : i \in 1..Len(s)}
    BY <2>1, <2>2, ToSetDef DEF Cells
  <2>4. QED BY <2>1, <2>2, <2>3
<1>2. \A i, j \in 1..Len(s) : s[i] = s[j] => i = j
  BY <1>1 DEF IsInjective
<1>3. \A c \in Cells(h, n) : c # NULL /\ c \in Cell
  BY KidsInNode, AddressAssumption
<1>4. ASSUME NEW i \in 1..Len(s) PROVE PlaceOf(h, n, s[i]) = i
  <2>1. PlaceOf(h, n, s[i]) \in 1..Len(s) /\ s[PlaceOf(h, n, s[i])] = s[i]
    BY <1>1, NextCellFacts
  <2>2. QED BY <1>2, <2>1
<1>5. Passage(h, n, FirstCell(h, n)) = 0
  <2>1. CASE s = <<>>
    BY <2>1, EmptySeq DEF FirstCell, Passage
  <2>2. CASE s # <<>>
    <3>1. 1 \in 1..Len(s)
      BY <1>1, <2>2, EmptySeq
    <3>2. FirstCell(h, n) = s[1] /\ s[1] # NULL /\ PlaceOf(h, n, s[1]) = 1
      BY <1>1, <1>3, <1>4, <2>2, <3>1 DEF FirstCell
    <3>3. QED BY <3>2 DEF Passage
  <2>3. QED BY <2>1, <2>2
<1>6. ASSUME NEW c \in Cells(h, n)
      PROVE  /\ Passage(h, n, c) + 1 \in 1..Len(s) /\ s[Passage(h, n, c) + 1] = c
             /\ Passage(h, n, NextCell(h, n, c)) = Passage(h, n, c) + 1
             /\ Passage(h, n, c) \in 0..Len(s)
  <2> DEFINE i == PlaceOf(h, n, c)
  <2>1. i \in 1..Len(s) /\ s[i] = c
    BY NextCellFacts
  <2>2. Passage(h, n, c) = i - 1
    BY <1>3 DEF Passage
  <2>3. NextCell(h, n, c) = IF i + 1 <= Len(s) THEN s[i + 1] ELSE NULL
    BY DEF NextCell
  <2> HIDE DEF i
  <2>4. Passage(h, n, c) + 1 = i /\ Passage(h, n, c) \in 0..Len(s)
    BY <1>1, <2>1, <2>2
  <2>5. Passage(h, n, NextCell(h, n, c)) = i
    <3>1. CASE i + 1 <= Len(s)
      <4>1. i + 1 \in 1..Len(s) /\ i + 1 - 1 = i
        BY <1>1, <2>1, <3>1
      <4>2. s[i + 1] # NULL /\ PlaceOf(h, n, s[i + 1]) = i + 1
        BY <1>1, <1>3, <1>4, <4>1
      <4>3. Passage(h, n, s[i + 1]) = i
        BY <2>1, <4>2 DEF Passage
      <4>4. QED BY <2>3, <3>1, <4>3
    <3>2. CASE ~(i + 1 <= Len(s))
      <4>1. i = Len(s)
        BY <1>1, <2>1, <3>2
      <4>2. QED BY <2>3, <3>2, <4>1 DEF Passage
    <3>3. QED BY <3>1, <3>2
  <2>6. QED BY <2>1, <2>4, <2>5
<1>7. Passage(h, n, NULL) \in 0..Len(s)
  BY <1>1 DEF Passage
<1>8. QED BY <1>1, <1>2, <1>3, <1>5, <1>6, <1>7

UniqueKeys(m) == \A c, d \in Cells(heap, m) : heap.key[c] = heap.key[d] => c = d

(* m is a clone of n that has p cells of it. *)
Filled(m, n, p) ==
  copy[m] = n /\ (heap.type[n] = "MAP" => UniqueKeys(m)) /\ CopiedUpTo(m, n, p)

(* It stays one when neither is written. *)
LEMMA CopiedKept ==
  ASSUME NEW R, WellFormed(heap, R), NEW m \in Node, NEW n \in Node, Kept(m), Kept(n),
         \A x \in Kids(heap, m) : copy'[x] = copy[x],
         NEW p \in 0..Len(heap.chain[n]), CopiedUpTo(m, n, p)
  PROVE  CopiedUpTo(m, n, p)'
<1>1. /\ heap'.type[m] = heap.type[m] /\ heap'.chain[m] = heap.chain[m] /\ load'[m] = load[m]
      /\ heap'.type[n] = heap.type[n] /\ heap'.chain[n] = heap.chain[n] /\ load'[n] = load[n]
      /\ Cells(heap', m) = Cells(heap, m) /\ Cells(heap', n) = Cells(heap, n)
      /\ \A c \in Cells(heap, m) : heap'.key[c] = heap.key[c] /\ heap'.val[c] = heap.val[c]
      /\ \A c \in Cells(heap, n) : heap'.key[c] = heap.key[c] /\ heap'.val[c] = heap.val[c]
  BY DEF Kept, Cells
<1>2. /\ heap \in Heap /\ Len(heap.chain[n]) \in Nat /\ Len(heap.chain[m]) \in Nat
      /\ \A i \in 1..p : i \in 1..Len(heap.chain[n]) /\ heap.chain[n][i] \in Cells(heap, n)
      /\ \A i \in 1..Len(heap.chain[m]) : heap.chain[m][i] \in Cells(heap, m)
  BY WellFormedTypes, PassageFacts
<1>3. \A v \in Kids(heap, m) \cup {NULL} : \A w : IsCopy(v, w) => IsCopy(v, w)'
  BY DEF IsCopy
<1>4. \A k : Matches(heap', m, k) = Matches(heap, m, k)
  BY <1>1 DEF Matches
<1>5. \A i \in 1..p : \A k : Names(n, i, k)' <=> Names(n, i, k)
  BY <1>1, <1>2 DEF Names, NameAt
<1>6. PlainMap(n)' <=> PlainMap(n)
  BY <1>1 DEF PlainMap
<1>7. SameElements(m, n, p) => SameElements(m, n, p)'
  <2> SUFFICES ASSUME SameElements(m, n, p), NEW i \in 1..p
               PROVE  /\ Len(heap'.chain[m]) = p
                      /\ IsCopy(heap.val[heap.chain[m][i]], heap.val[heap.chain[n][i]])'
    BY <1>1 DEF SameElements
  <2> DEFINE c == heap.chain[m][i]
             d == heap.chain[n][i]
  <2>1. Len(heap.chain[m]) = p /\ IsCopy(heap.val[c], heap.val[d])
    BY DEF SameElements
  <2>2. c \in Cells(heap, m) /\ d \in Cells(heap, n)
    BY <1>2, <2>1
  <2>3. /\ heap'.val[c] = heap.val[c] /\ heap'.val[d] = heap.val[d]
        /\ heap'.chain[m][i] = c /\ heap'.chain[n][i] = d
    BY <1>1, <2>2
  <2>4. heap.val[c] \in Kids(heap, m) \cup {NULL}
    BY <2>2 DEF Kids
  <2> HIDE DEF c, d
  <2>5. IsCopy(heap.val[heap.chain[m][i]], heap.val[heap.chain[n][i]])'
    BY <1>3, <2>1, <2>3, <2>4 DEF IsCopy
  <2>6. QED BY <1>1, <2>1, <2>5
<1>8. LastValues(m, n, p) => LastValues(m, n, p)'
  <2> SUFFICES ASSUME LastValues(m, n, p), NEW k \in CKey
               PROVE  /\ (\A i \in 1..p : ~Names(n, i, k)') => Matches(heap', m, k) = {}
                      /\ \A i \in 1..p :
                           Names(n, i, k)' /\ (\A j \in (i + 1)..p : ~Names(n, j, k)') =>
                             \E c \in Cells(heap', m) :
                               /\ Matches(heap', m, k) = {c}
                               /\ IsCopy(heap.val[c], heap.val[heap.chain[n][i]])'
    BY DEF LastValues
  <2>1. (\A i \in 1..p : ~Names(n, i, k)') => Matches(heap', m, k) = {}
    BY <1>4, <1>5 DEF LastValues
  <2>2. ASSUME NEW i \in 1..p, Names(n, i, k)', \A j \in (i + 1)..p : ~Names(n, j, k)'
        PROVE  \E c \in Cells(heap', m) :
                 /\ Matches(heap', m, k) = {c}
                 /\ IsCopy(heap.val[c], heap.val[heap.chain[n][i]])'
    <3>1. \A j \in (i + 1)..p : j \in 1..p
      OBVIOUS
    <3>2. PICK c \in Cells(heap, m) : /\ Matches(heap, m, k) = {c}
                                      /\ IsCopy(heap.val[c], heap.val[heap.chain[n][i]])
      BY <1>5, <2>2, <3>1 DEF LastValues
    <3>3. heap.val[c] \in Kids(heap, m) \cup {NULL}
      BY DEF Kids
    <3>4. heap'.val[c] = heap.val[c]
          /\ heap'.val[heap'.chain[n][i]] = heap.val[heap.chain[n][i]]
      BY <1>1, <1>2
    <3>5. IsCopy(heap.val[c], heap.val[heap.chain[n][i]])'
      BY <1>3, <3>2, <3>3, <3>4 DEF IsCopy
    <3>6. QED BY <1>1, <1>4, <3>2, <3>5
  <2>3. QED BY <2>1, <2>2
<1>9. SameKeys(m, n, p) => SameKeys(m, n, p)'
  <2> SUFFICES ASSUME SameKeys(m, n, p), NEW i \in 1..p
               PROVE  /\ Len(heap'.chain[m]) = p
                      /\ heap'.key[heap'.chain[m][i]] = heap'.key[heap'.chain[n][i]]
    BY <1>1 DEF SameKeys
  <2>1. /\ Len(heap.chain[m]) = p
        /\ heap.key[heap.chain[m][i]] = heap.key[heap.chain[n][i]]
    BY DEF SameKeys
  <2>2. heap.chain[m][i] \in Cells(heap, m) /\ heap.chain[n][i] \in Cells(heap, n)
    BY <1>2, <2>1
  <2>3. QED BY <1>1, <2>1, <2>2
<1>10. QED BY <1>1, <1>6, <1>7, <1>8, <1>9 DEF CopiedUpTo

LEMMA FilledKept ==
  ASSUME NEW R, WellFormed(heap, R), NEW m \in Node, NEW n \in Node, Kept(m), Kept(n),
         \A x \in Kids(heap, m) \cup {m} : copy'[x] = copy[x],
         NEW p \in 0..Len(heap.chain[n]), Filled(m, n, p)
  PROVE  Filled(m, n, p)'
<1>1. CopiedUpTo(m, n, p)'
  BY CopiedKept DEF Filled
<1>2. UniqueKeys(m) => UniqueKeys(m)'
  BY DEF UniqueKeys, Kept, Cells
<1>3. QED BY <1>1, <1>2 DEF Filled, Kept

(* pt_clone has made a node, ... *)
LEMMA FilledBegun ==
  ASSUME NEW m \in Node, NEW n \in Node, heap'.chain[m] = <<>>, Cells(heap', m) = {},
         heap'.type[m] = heap'.type[n], load'[m] = load'[n], copy'[m] = n
  PROVE  Filled(m, n, 0)'
<1>1. Len(heap'.chain[m]) = 0 /\ \A i \in 1..0 : FALSE
  BY EmptyStack
<1>2. SameElements(m, n, 0)' /\ SameKeys(m, n, 0)'
  BY <1>1 DEF SameElements, SameKeys
<1>3. LastValues(m, n, 0)'
  BY <1>1 DEF LastValues, Matches
<1>4. QED BY <1>2, <1>3 DEF Filled, CopiedUpTo, UniqueKeys

(* ... it passes a pair without a value, ... *)
LEMMA FilledPasses ==
  ASSUME NEW R, WellFormed(heap, R), NEW m \in Node, NEW n \in Node, NEW d \in Cells(heap, n),
         heap.val[d] = NULL, heap.type[n] # "ARRAY", NEW p, p = Passage(heap, n, d), Filled(m, n, p)
  PROVE  Filled(m, n, p + 1)
<1>1. /\ p \in 0..Len(heap.chain[n]) /\ p + 1 \in 1..Len(heap.chain[n])
      /\ heap.chain[n][p + 1] = d /\ Len(heap.chain[n]) \in Nat
  BY WellFormedTypes, PassageFacts
<1>2. Filled(m, n, p)
  OBVIOUS
<1>3. p \in Nat /\ 1..(p + 1) = 1..p \cup {p + 1} /\ p + 1 \notin 1..p
  BY <1>1
<1>4. \A k : ~Names(n, p + 1, k)
  BY <1>1 DEF Names
<1>5. ~PlainMap(n)
  BY DEF PlainMap
<1>6. LastValues(m, n, p) => LastValues(m, n, p + 1)
  <2> SUFFICES ASSUME LastValues(m, n, p), NEW k \in CKey
               PROVE  /\ (\A i \in 1..(p + 1) : ~Names(n, i, k)) => Matches(heap, m, k) = {}
                      /\ \A i \in 1..(p + 1) :
                           Names(n, i, k) /\ (\A j \in (i + 1)..(p + 1) : ~Names(n, j, k)) =>
                             \E c \in Cells(heap, m) :
                               /\ Matches(heap, m, k) = {c}
                               /\ IsCopy(heap.val[c], heap.val[heap.chain[n][i]])
    BY DEF LastValues
  <2>1. (\A i \in 1..(p + 1) : ~Names(n, i, k)) => Matches(heap, m, k) = {}
    BY <1>3 DEF LastValues
  <2>2. ASSUME NEW i \in 1..(p + 1), Names(n, i, k), \A j \in (i + 1)..(p + 1) : ~Names(n, j, k)
        PROVE  i \in 1..p /\ \A j \in (i + 1)..p : ~Names(n, j, k)
    <3>1. i \in 1..p
      BY <1>3, <1>4, <2>2
    <3>2. \A j \in (i + 1)..p : j \in (i + 1)..(p + 1)
      BY <1>3, <3>1
    <3>3. QED BY <2>2, <3>1, <3>2
  <2>3. QED BY <2>1, <2>2 DEF LastValues
<1>7. QED BY <1>2, <1>5, <1>6 DEF Filled, CopiedUpTo

(* ... and puts a clone of a value in. *)
LEMMA FilledGrows ==
  ASSUME NEW R, WellFormed(heap, R), NEW m \in Node, NEW n \in Node, NEW d \in Cells(heap, n),
         heap.type[m] = heap.type[n], Kept(n), NEW c \in Cell, NEW v,
         Wrote(heap, heap', m, c, v), load' = load, copy' = copy,
         NEW F, F.f = "clone", F.to = m, F.from = n, F.at = d, PutAt(heap', F, c),
         IsCopy(v, heap.val[d]), heap.type[n] = "MAP" => heap.val[d] # NULL,
         NEW p, p = Passage(heap, n, d), Filled(m, n, p)
  PROVE  Filled(m, n, p + 1)'
<1> DEFINE k == NameAt(heap, d)
<1>0. heap \in Heap /\ ShapeOK(heap)
  BY WellFormedTypes, WellFormedParts
<1>1. /\ p \in 0..Len(heap.chain[n]) /\ p + 1 \in 1..Len(heap.chain[n])
      /\ heap.chain[n][p + 1] = d
      /\ \A i \in 1..Len(heap.chain[n]) : heap.chain[n][i] \in Cells(heap, n)
      /\ \A i, j \in 1..Len(heap.chain[n]) : heap.chain[n][i] = heap.chain[n][j] => i = j
      /\ Len(heap.chain[n]) \in Nat
  BY WellFormedTypes, PassageFacts
<1>2. Filled(m, n, p)
  OBVIOUS
<1>3. /\ p \in Nat /\ 1..(p + 1) = 1..p \cup {p + 1} /\ p + 1 \notin 1..p
      /\ \A i \in 1..(p + 1) : i \in 1..Len(heap.chain[n])
  BY <1>1
<1>4. /\ heap'.type[n] = heap.type[n] /\ heap'.chain[n] = heap.chain[n] /\ load'[n] = load[n]
      /\ Cells(heap', n) = Cells(heap, n)
      /\ \A e \in Cells(heap, n) : heap'.key[e] = heap.key[e] /\ heap'.val[e] = heap.val[e]
  BY DEF Kept, Cells
<1>5. /\ heap'.type[m] = heap.type[m]
      /\ Cells(heap', m) = Cells(heap, m) \cup {c} /\ heap'.val[c] = v
      /\ \A e \in Cells(heap, m) : e # c => heap'.key[e] = heap.key[e] /\ heap'.val[e] = heap.val[e]
      /\ heap'.chain[m] = IF c \notin heap.cells THEN Append(heap.chain[m], c) ELSE heap.chain[m]
      /\ c \in heap.cells => c \in Cells(heap, m) /\ heap'.key[c] = heap.key[c]
      /\ Cells(heap, m) \subseteq heap.cells
  <2>1. m \notin Hung(heap, c) /\ m \in Node \ Hung(heap, c)
    BY DEF Wrote
  <2>2. Cells(heap', m) = Cells(heap, m) \cup {c} /\ Cells(heap, m) \subseteq heap'.cells
    BY <2>1, WroteCells
  <2>3. QED BY <2>1, <2>2, WellFormedTypes DEF Wrote
<1>6. /\ heap.chain[m] \in Seq(Cell) /\ Len(heap.chain[m]) \in Nat
      /\ \A i \in 1..Len(heap.chain[m]) : heap.chain[m][i] \in Cells(heap, m)
      /\ \A e \in Cells(heap, m) : \E i \in 1..Len(heap.chain[m]) : heap.chain[m][i] = e
  BY <1>0, WellFormedTypes, PassageFacts
<1>7. ASSUME c \notin heap.cells
      PROVE  /\ Len(heap'.chain[m]) = Len(heap.chain[m]) + 1
             /\ heap'.chain[m][Len(heap.chain[m]) + 1] = c
             /\ \A i \in 1..Len(heap.chain[m]) : heap'.chain[m][i] = heap.chain[m][i]
  BY <1>5, <1>6, <1>7, AppendProperties
<1>8. \A u, w : IsCopy(u, w)' <=> IsCopy(u, w)
  BY DEF IsCopy
<1>9. CASE heap.type[n] # "MAP"
  <2>1. heap.type[n] = "ARRAY"
    <3>1. heap.type[n] \in Container
      <4>1. Cells(heap, n) # {} /\ NoDangling(heap)
        BY WellFormedParts
      <4>2. QED BY <4>1, NoCells DEF NoDangling
    <3>2. QED BY <1>9, <3>1 DEF Container
  <2>2. c \notin heap.cells
    BY <2>1 DEF PutAt
  <2>3. /\ Len(heap.chain[m]) = p
        /\ \A i \in 1..p : IsCopy(heap.val[heap.chain[m][i]], heap.val[heap.chain[n][i]])
    BY <1>2, <2>1 DEF Filled, CopiedUpTo, SameElements
  <2>4. ASSUME NEW i \in 1..(p + 1)
        PROVE  IsCopy(heap'.val[heap'.chain[m][i]], heap'.val[heap'.chain[n][i]])
    <3>1. heap'.val[heap'.chain[n][i]] = heap.val[heap.chain[n][i]]
      BY <1>1, <1>3, <1>4
    <3>2. CASE i = p + 1
      BY <1>1, <1>5, <1>7, <2>2, <2>3, <3>1, <3>2
    <3>3. CASE i \in 1..p
      <4>1. heap.chain[m][i] \in Cells(heap, m) /\ heap'.chain[m][i] = heap.chain[m][i]
        BY <1>6, <1>7, <2>2, <2>3, <3>3
      <4>2. heap'.val[heap'.chain[m][i]] = heap.val[heap.chain[m][i]]
        BY <1>5, <2>2, <4>1
      <4>3. QED BY <2>3, <3>1, <3>3, <4>2
    <3>4. QED BY <1>3, <3>2, <3>3
  <2>5. SameElements(m, n, p + 1)'
    <3>1. \A i \in 1..(p + 1) : IsCopy(heap.val[heap.chain[m][i]], heap.val[heap.chain[n][i]])'
      BY <1>8, <2>4 DEF IsCopy
    <3>2. Len(heap'.chain[m]) = p + 1
      BY <1>7, <2>2, <2>3
    <3>3. QED BY <3>1, <3>2 DEF SameElements
  <2>6. QED BY <1>2, <1>4, <1>5, <1>9, <2>5 DEF Filled, CopiedUpTo
<1>10. CASE heap.type[n] = "MAP"
  <2>1. k \in CKey /\ heap.key[d] \in Key
    <3>1. heap.key[d] # NULL /\ d \in Cell
      BY <1>0, <1>10, KidsInNode DEF ShapeOK
    <3>2. heap.key[d] \in Key
      BY <1>0, <3>1 DEF Heap
    <3>3. QED BY <3>2, MergeAssumption DEF NameAt
  <2>2. \/ c \in Matches(heap, m, k)
        \/ c \notin heap.cells /\ heap'.key[c] = k /\ Matches(heap, m, k) = {}
    BY <1>10 DEF PutAt
  <2>3. /\ UniqueKeys(m) /\ LastValues(m, n, p) /\ (PlainMap(n) => SameKeys(m, n, p))
        /\ load[m] = load[n] /\ copy[m] = n
    BY <1>2, <1>10 DEF Filled, CopiedUpTo
  <2>4. heap'.key[c] = k /\ (c \in Cells(heap, m) => heap.key[c] = k)
    BY <1>5, <2>2 DEF Matches
  <2>5. \A e \in Cells(heap, m) : e # c => heap.key[e] # k
    BY <2>2, <2>3 DEF Matches, UniqueKeys
  <2>6. /\ Matches(heap', m, k) = {c}
        /\ \A k2 : k2 # k => Matches(heap', m, k2) = Matches(heap, m, k2)
    BY <1>5, <2>4, <2>5 DEF Matches
  <2>7. UniqueKeys(m)'
    BY <1>5, <2>3, <2>4, <2>5 DEF UniqueKeys
  <2>8. /\ \A i \in 1..(p + 1) : \A k2 : Names(n, i, k2)' <=> Names(n, i, k2)
        /\ \A k2 : Names(n, p + 1, k2) <=> k2 = k
        /\ PlainMap(n)' <=> PlainMap(n)
    <3>1. \A i \in 1..(p + 1) : \A k2 : Names(n, i, k2)' <=> Names(n, i, k2)
      BY <1>1, <1>3, <1>4 DEF Names, NameAt
    <3>2. \A k2 : Names(n, p + 1, k2) <=> k2 = k
      BY <1>1, <1>10 DEF Names
    <3>3. PlainMap(n)' <=> PlainMap(n)
      BY <1>4 DEF PlainMap
    <3>4. QED BY <3>1, <3>2, <3>3
  <2> HIDE DEF k
  <2>9. LastValues(m, n, p + 1)'
    <3> SUFFICES ASSUME NEW k2 \in CKey
                 PROVE  /\ (\A i \in 1..(p + 1) : ~Names(n, i, k2)') => Matches(heap', m, k2) = {}
                        /\ \A i \in 1..(p + 1) :
                             Names(n, i, k2)' /\ (\A j \in (i + 1)..(p + 1) : ~Names(n, j, k2)') =>
                               \E e \in Cells(heap', m) :
                                 /\ Matches(heap', m, k2) = {e}
                                 /\ IsCopy(heap.val[e], heap.val[heap.chain[n][i]])'
      BY DEF LastValues
    <3>1. CASE k2 = k
      <4>1. Names(n, p + 1, k2)'
        BY <1>3, <2>8, <3>1
      <4>2. ASSUME NEW i \in 1..(p + 1), Names(n, i, k2)',
                   \A j \in (i + 1)..(p + 1) : ~Names(n, j, k2)'
            PROVE  \E e \in Cells(heap', m) :
                     /\ Matches(heap', m, k2) = {e}
                     /\ IsCopy(heap.val[e], heap.val[heap.chain[n][i]])'
        <5>1. i = p + 1
          <6>1. i # p + 1 => p + 1 \in (i + 1)..(p + 1)
            BY <1>3
          <6>2. QED BY <4>1, <4>2, <6>1
        <5>2. IsCopy(heap'.val[c], heap'.val[heap'.chain[n][i]])
          BY <1>1, <1>4, <1>5, <5>1
        <5>3. IsCopy(heap.val[c], heap.val[heap.chain[n][i]])'
          BY <1>8, <5>2 DEF IsCopy
        <5>4. QED BY <1>5, <2>6, <3>1, <5>3
      <4>3. QED BY <1>3, <4>1, <4>2
    <3>2. CASE k2 # k
      <4>1. ~Names(n, p + 1, k2) /\ Matches(heap', m, k2) = Matches(heap, m, k2)
        BY <2>6, <2>8, <3>2
      <4>2. (\A i \in 1..(p + 1) : ~Names(n, i, k2)') => Matches(heap', m, k2) = {}
        BY <1>3, <2>3, <2>8, <4>1 DEF LastValues
      <4>3. ASSUME NEW i \in 1..(p + 1), Names(n, i, k2)',
                   \A j \in (i + 1)..(p + 1) : ~Names(n, j, k2)'
            PROVE  \E e \in Cells(heap', m) :
                     /\ Matches(heap', m, k2) = {e}
                     /\ IsCopy(heap.val[e], heap.val[heap.chain[n][i]])'
        <5>1. Names(n, i, k2) /\ i \in 1..p
          BY <1>3, <2>8, <4>1, <4>3
        <5>2. \A j \in (i + 1)..p : j \in (i + 1)..(p + 1) /\ j \in 1..(p + 1)
          BY <1>3, <5>1
        <5>3. \A j \in (i + 1)..p : ~Names(n, j, k2)
          BY <2>8, <4>3, <5>2
        <5>4. PICK e \in Cells(heap, m) : /\ Matches(heap, m, k2) = {e}
                                          /\ IsCopy(heap.val[e], heap.val[heap.chain[n][i]])
          BY <2>3, <5>1, <5>3 DEF LastValues
        <5>5. e # c
          BY <2>4, <3>2, <5>4 DEF Matches
        <5>6. IsCopy(heap'.val[e], heap'.val[heap'.chain[n][i]])
          BY <1>1, <1>3, <1>4, <1>5, <5>4, <5>5
        <5>7. IsCopy(heap.val[e], heap.val[heap.chain[n][i]])'
          BY <1>8, <5>6 DEF IsCopy
        <5>8. QED BY <1>5, <4>1, <5>4, <5>7
      <4>4. QED BY <4>2, <4>3
    <3>3. QED BY <3>1, <3>2
  <2>10. PlainMap(n)' => SameKeys(m, n, p + 1)'
    <3> SUFFICES ASSUME PlainMap(n) PROVE SameKeys(m, n, p + 1)'
      BY <2>8
    <3>1. /\ Len(heap.chain[m]) = p
          /\ \A i \in 1..p : heap.key[heap.chain[m][i]] = heap.key[heap.chain[n][i]]
      BY <2>3 DEF SameKeys
    <3>2. heap.key[d] = k
      <4>1. heap.key[d] \in CKey
        BY DEF PlainMap
      <4>2. QED BY <4>1, MergeAssumption DEF NameAt, k
    <3>3. c \notin heap.cells
      <4> SUFFICES ASSUME c \in heap.cells PROVE FALSE
        OBVIOUS
      <4>1. c \in Cells(heap, m) /\ heap.key[c] = k
        BY <1>5, <2>4
      <4>2. PICK i \in 1..p : heap.chain[m][i] = c
        BY <1>6, <3>1, <4>1
      <4>3. heap.key[heap.chain[n][i]] = k
        BY <3>1, <4>1, <4>2
      <4>4. heap.chain[n][i] = d
        BY <1>1, <1>3, <3>2, <4>3 DEF PlainMap
      <4>5. QED BY <1>1, <1>3, <4>4
    <3>4. Len(heap'.chain[m]) = p + 1
      BY <1>7, <3>1, <3>3
    <3>5. ASSUME NEW i \in 1..(p + 1)
          PROVE  heap'.key[heap'.chain[m][i]] = heap'.key[heap'.chain[n][i]]
      <4>1. heap'.key[heap'.chain[n][i]] = heap.key[heap.chain[n][i]]
        BY <1>1, <1>3, <1>4
      <4>2. CASE i = p + 1
        BY <1>1, <1>7, <2>4, <3>1, <3>2, <3>3, <4>1, <4>2
      <4>3. CASE i \in 1..p
        <5>1. heap.chain[m][i] \in Cells(heap, m) /\ heap'.chain[m][i] = heap.chain[m][i]
          BY <1>6, <1>7, <3>1, <3>3, <4>3
        <5>2. QED BY <1>5, <3>1, <3>3, <4>1, <4>3, <5>1
      <4>4. QED BY <1>3, <4>2, <4>3
    <3>6. QED BY <3>4, <3>5 DEF SameKeys
  <2>11. QED BY <1>4, <1>5, <1>10, <2>3, <2>7, <2>9, <2>10 DEF Filled, CopiedUpTo
<1>11. QED BY <1>9, <1>10

(* The nodes that are merged into *)
Firsts == {q[1] : q \in merged}

Complete(x) ==
  \A n, p : copy[x] = n /\ n # NULL /\ p = Len(heap.chain[n]) => CopiedUpTo(x, n, p)

CopiesOK == \A m \in Node : copy[m] \in was.from \cup {NULL}
CopyFrameOK(F) ==
  /\ F.from \in was.from
  /\ F.f = "clone" => \A p : p = Passage(heap, F.from, F.at) => Filled(F.to, F.from, p)
FinishedOK == \A x \in Live(heap) \ (Filling \cup Firsts) : Complete(x)
MadeOK == Done /\ call.f = "clone" => IsCopy(made, call.from)

CopyInv ==
  Apart => /\ CopiesOK /\ \A i \in 1..Len(stack) : CopyFrameOK(stack[i])
           /\ FinishedOK /\ MadeOK

(* What is not in root's part stays as it was. *)
LEMMA FromFacts ==
  ASSUME RestInv, Apart, NEW n \in was.from
  PROVE  n \in Node /\ n \in Live(heap) /\ Untouched(n) /\ Kids(heap, n) \subseteq was.from
         /\ n \notin Writable
<1>1. n \in Node /\ n \in Live(was.heap) /\ n \notin was.root /\ Closed(was.heap, was.from)
  BY DEF RestInv, WasOK, Apart, Live
<1>2. Untouched(n)
  BY <1>1 DEF RestInv, RestIsUntouched
<1>3. n \in Live(heap)
  BY <1>1, <1>2 DEF Untouched, Live
<1>4. Kids(heap, n) = Kids(was.heap, n)
  BY <1>2 DEF Untouched, Kids, Cells
<1>5. QED BY <1>1, <1>2, <1>3, <1>4 DEF Closed, Writable

LEMMA FromKept ==
  ASSUME RestInv, RestInv', Apart, was' = was, NEW n \in was.from
  PROVE  Kept(n)
<1>1. n \in Live(was.heap) /\ n \notin was.root
  BY DEF RestInv, WasOK, Apart
<1>2. Untouched(n) /\ Untouched(n)'
  BY <1>1 DEF RestInv, RestIsUntouched
<1>3. QED BY <1>2 DEF Untouched, Kept, Cells

LEMMA FrameKept ==
  ASSUME NEW R, WellFormed(heap, R), NEW G \in Frame, CopyFrameOK(G), Kept(G.to), Kept(G.from),
         \A x \in Kids(heap, G.to) \cup {G.to} : copy'[x] = copy[x], was' = was,
         G.at \in Cells(heap, G.from) \cup {NULL}
  PROVE  CopyFrameOK(G)'
<1>1. G.from \in was'.from /\ G.to \in Node /\ G.from \in Node
  BY DEF CopyFrameOK, Frame
<1>2. ASSUME G.f = "clone", NEW p, p = Passage(heap', G.from, G.at)
      PROVE  Filled(G.to, G.from, p)'
  <2>1. p = Passage(heap, G.from, G.at)
    BY <1>2 DEF Kept, Passage, PlaceOf
  <2>2. p \in 0..Len(heap.chain[G.from])
    BY <1>1, <2>1, WellFormedTypes, PassageFacts
  <2>3. Filled(G.to, G.from, p)
    BY <1>2, <2>1 DEF CopyFrameOK
  <2>4. QED BY <1>1, <2>2, <2>3, FilledKept
<1>3. QED BY <1>1, <1>2 DEF CopyFrameOK

(* the loop's place, when the frame's clone has one more *)
LEMMA FrameAdvances ==
  ASSUME NEW R, WellFormed(heap, R), NEW G, G.from \in Node, G.from \in was'.from, Kept(G.from),
         NEW d \in Cells(heap, G.from), G.at = NextCell(heap, G.from, d),
         NEW p, p = Passage(heap, G.from, d), G.f = "clone" => Filled(G.to, G.from, p + 1)'
  PROVE  CopyFrameOK(G)'
<1>1. Passage(heap, G.from, G.at) = p + 1
  BY WellFormedTypes, PassageFacts
<1>2. Passage(heap', G.from, G.at) = p + 1
  BY <1>1 DEF Kept, Passage, PlaceOf
<1>3. QED BY <1>2 DEF CopyFrameOK

LEMMA CompleteKept ==
  ASSUME NEW R, WellFormed(heap, R), NEW x \in Node, Kept(x), Complete(x), CopiesOK,
         was.from \subseteq Node, \A n \in was.from : Kept(n),
         \A y \in Kids(heap, x) \cup {x} : copy'[y] = copy[y]
  PROVE  Complete(x)'
<1> SUFFICES ASSUME NEW n, NEW p, copy'[x] = n, n # NULL, p = Len(heap'.chain[n])
             PROVE  CopiedUpTo(x, n, p)'
  BY DEF Complete
<1>1. copy[x] = n /\ n \in was.from /\ n \in Node /\ Kept(n)
  BY DEF CopiesOK
<1>2. p = Len(heap.chain[n]) /\ p \in 0..Len(heap.chain[n])
  <2>1. p = Len(heap.chain[n])
    BY <1>1 DEF Kept
  <2>2. p \in Nat
    BY <1>1, <2>1, WellFormedTypes, LenProperties
  <2>3. QED BY <2>1, <2>2
<1>3. CopiedUpTo(x, n, p)
  BY <1>1, <1>2 DEF Complete
<1>4. QED BY <1>1, <1>2, <1>3, CopiedKept

(* A clone is complete when its loop has come to the end. *)
LEMMA LoopCompletes ==
  ASSUME NEW R, WellFormed(heap, R), NEW G \in Frame, CopyFrameOK(G), G.f = "clone", G.at = NULL,
         Kept(G.to), Kept(G.from), copy' = copy, NEW x, x = G.to
  PROVE  Complete(x)' /\ copy'[x] = G.from
<1>1. G.to \in Node /\ G.from \in Node /\ x \in Node
  BY DEF Frame
<1> DEFINE n == G.from
<1>2. PICK p : p = Passage(heap, n, NULL)
  OBVIOUS
<1>3. Filled(x, n, p) /\ p = Len(heap.chain[n]) /\ p \in 0..Len(heap.chain[n])
  <2>1. p = Len(heap.chain[n]) /\ p \in 0..Len(heap.chain[n])
    BY <1>1, <1>2, WellFormedTypes, PassageFacts DEF Passage
  <2>2. QED BY <1>2, <2>1 DEF CopyFrameOK
<1>4. Filled(x, n, p)'
  BY <1>1, <1>3, FilledKept
<1>5. p = Len(heap'.chain[n])
  BY <1>3 DEF Kept
<1>6. QED BY <1>4, <1>5 DEF Complete, Filled

(* the pairs that are merged only get more, and so less is to be complete *)
LEMMA FinishedKept ==
  ASSUME MergeInv, RestInv, RestInv', Apart, CopiesOK, FinishedOK, was' = was,
         merged \subseteq merged',
         \A x \in Live(heap') \ (Filling' \cup Firsts') :
           \/ /\ x \in Live(heap) \ Filling /\ Kept(x)
              /\ \A y \in Kids(heap, x) \cup {x} : copy'[y] = copy[y]
           \/ Complete(x)'
  PROVE  FinishedOK'
<1> SUFFICES ASSUME NEW x \in Live(heap') \ (Filling' \cup Firsts') PROVE Complete(x)'
  BY DEF FinishedOK
<1>1. x \notin Firsts
  BY DEF Firsts
<1>2. CASE /\ x \in Live(heap) \ Filling /\ Kept(x)
           /\ \A y \in Kids(heap, x) \cup {x} : copy'[y] = copy[y]
  <2>1. Complete(x) /\ x \in Node
    BY <1>1, <1>2 DEF FinishedOK, Live
  <2>2. \A n \in was.from : n \in Node /\ Kept(n)
    BY FromFacts, FromKept
  <2>3. QED BY <1>2, <2>1, <2>2, CompleteKept DEF MergeInv
<1>3. QED BY <1>2

(* What the turns have in common *)
CopyTurn ==
  /\ MergeInv /\ MergeInv' /\ RestInv /\ RestInv' /\ CopyInv /\ Apart
  /\ stack # <<>> /\ ~stale /\ ~stale' /\ was' = was /\ call' = call

LEMMA CopyTurnFacts ==
  ASSUME CopyTurn
  PROVE  /\ CopiesOK /\ FinishedOK /\ \A n \in was.from : n \in Node /\ Kept(n)
         /\ heap \in Heap /\ WellFormed(heap, Owners)
         /\ Top = stack[Len(stack)] /\ Len(stack) \in Nat \ {0} /\ Len(stack) \in 1..Len(stack)
         /\ stack \in Seq(Frame) /\ Top \in Frame /\ Top.to \in Node /\ Top.to \in Live(heap)
         /\ Top.from \in was.from
         /\ Top.at \in Cells(heap, Top.from) \cup {NULL} /\ Filling = Tops(stack)
         /\ \A i \in 1..Len(stack) :
              /\ stack[i] \in Frame /\ CopyFrameOK(stack[i])
              /\ stack[i].to \in Live(heap) /\ stack[i].from \in was.from
              /\ stack[i].at \in Cells(heap, stack[i].from) \cup {NULL}
              /\ stack[i].f = "clone" => stack[i].to \in Filling
              /\ stack[i].f = "update" => stack[i].to \in Firsts
         /\ CopyInv' <=> (CopiesOK' /\ (\A i \in 1..Len(stack) : CopyFrameOK(stack[i]))'
                          /\ FinishedOK' /\ MadeOK')
<1>1. /\ CopiesOK /\ FinishedOK /\ MergeInv /\ RestInv /\ Apart
      /\ \A i \in 1..Len(stack) : CopyFrameOK(stack[i])
  BY DEF CopyTurn, CopyInv
<1>2. \A n \in was.from : n \in Node /\ Kept(n)
  BY FromFacts, FromKept DEF CopyTurn
<1>3. /\ heap \in Heap /\ WellFormed(heap, Owners) /\ StackOK(heap, stack)
      /\ Top = stack[Len(stack)] /\ Len(stack) \in Nat \ {0} /\ Len(stack) \in 1..Len(stack)
      /\ stack \in Seq(Frame) /\ Top \in Frame /\ Top.to \in Node /\ Filling = Tops(stack)
  BY AtTop DEF CopyTurn
<1>4. \A i \in 1..Len(stack) :
        /\ stack[i] \in Frame /\ stack[i].to \in Live(heap) /\ stack[i].from \in was.from
        /\ stack[i].at \in Cells(heap, stack[i].from) \cup {NULL}
        /\ stack[i].f = "clone" => stack[i].to \in Filling
  BY <1>1, <1>3, FrameFields DEF CopyFrameOK, StackOK, FrameOK, Tops
<1>5. \A i \in 1..Len(stack) : stack[i].f = "update" => stack[i].to \in Firsts
  <2> SUFFICES ASSUME NEW i \in 1..Len(stack), stack[i].f = "update" PROVE stack[i].to \in Firsts
    OBVIOUS
  <2>1. PairOf(stack[i]) \in merged
    BY DEF CopyTurn, MergeInv, Underway
  <2>2. PairOf(stack[i])[1] = stack[i].to
    BY DEF PairOf
  <2>3. QED BY <2>1, <2>2 DEF Firsts
<1>6. Apart'
  BY DEF CopyTurn, Apart
<1>7. QED BY <1>1, <1>2, <1>3, <1>4, <1>5, <1>6 DEF CopyInv

LEMMA SkipsCopies ==
  ASSUME CopyTurn, Skips
  PROVE  CopyInv'
<1> DEFINE n == Len(stack)
<1>0. /\ UNCHANGED <<load, copy, merged, made>>
      /\ Top.at # NULL
      /\ heap.val[Top.at] = NULL
      /\ Top.f = "clone" => heap.type[Top.to] # "ARRAY"
  BY DEF Skips
<1>1. /\ CopiesOK /\ FinishedOK /\ \A x \in was.from : x \in Node /\ Kept(x)
      /\ heap \in Heap /\ WellFormed(heap, Owners)
      /\ Top = stack[n] /\ n \in Nat \ {0} /\ n \in 1..n
      /\ stack \in Seq(Frame) /\ Top \in Frame /\ Top.to \in Node /\ Top.to \in Live(heap)
      /\ Top.from \in was.from /\ Top.at \in Cells(heap, Top.from) /\ Filling = Tops(stack)
      /\ \A i \in 1..n : /\ stack[i] \in Frame /\ CopyFrameOK(stack[i])
                         /\ stack[i].to \in Live(heap) /\ stack[i].from \in was.from
                         /\ stack[i].at \in Cells(heap, stack[i].from) \cup {NULL}
  BY <1>0, CopyTurnFacts
<1>2. /\ heap' = heap /\ SameCalls(stack, stack') /\ Tops(stack') = Tops(stack)
      /\ stack'[n].at = NextCell(heap, Top.from, Top.at)
  <2> DEFINE s == stack
  <2>1. s = stack /\ s[Len(s)].at # NULL /\ GoOn(heap, s) /\ MergeInv /\ stack # <<>> /\ ~stale
    BY <1>0, <1>1 DEF Skips, CopyTurn
  <2> HIDE DEF s
  <2>2. /\ heap' = heap /\ SameCalls(s, stack') /\ Tops(stack') = Tops(stack)
        /\ stack'[Len(s)].at = NextCell(heap, s[Len(s)].from, s[Len(s)].at)
    BY <2>1, QuietTurn
  <2>3. QED BY <1>1, <2>1, <2>2
<1>3. \A x \in Node : Kept(x)
  BY <1>0, <1>2, KeptWhenSame DEF CopyTurn
<1>4. Filling' = Filling
  BY <1>1, <1>2 DEF SameCalls, Filling, Tops
<1>5. FinishedOK'
  <2>1. \A x \in Live(heap') \ (Filling' \cup Firsts') : x \in Live(heap) \ Filling /\ x \in Node
    BY <1>2, <1>4 DEF Live
  <2>2. QED BY <1>0, <1>1, <1>3, <2>1, FinishedKept DEF CopyTurn
<1>6. (\A i \in 1..Len(stack) : CopyFrameOK(stack[i]))'
  <2> SUFFICES ASSUME NEW i \in 1..Len(stack'), NEW G, G = stack'[i] PROVE CopyFrameOK(G)'
    OBVIOUS
  <2>1. Len(stack') = n /\ i \in 1..n
    BY <1>2 DEF SameCalls
  <2>2. CASE i = n
    <3>1. /\ G.f = Top.f /\ G.to = Top.to /\ G.from = Top.from /\ G.at = NextCell(heap, G.from, Top.at)
      BY <1>1, <1>2, <2>2 DEF SameCalls
    <3>2. PICK p : p = Passage(heap, G.from, Top.at)
      OBVIOUS
    <3>3. G.from \in Node /\ G.from \in was'.from /\ Kept(G.from) /\ Top.at \in Cells(heap, G.from)
      BY <1>1, <3>1 DEF CopyTurn
    <3>4. ASSUME G.f = "clone" PROVE Filled(G.to, G.from, p + 1)'
      <4>1. Filled(G.to, G.from, p)
        BY <1>1, <3>1, <3>2, <3>4 DEF CopyFrameOK
      <4>2. heap.type[G.from] # "ARRAY"
        BY <1>0, <3>1, <3>4, <4>1 DEF Filled, CopiedUpTo
      <4>3. Filled(G.to, G.from, p + 1)
        BY <1>0, <1>1, <3>1, <3>2, <3>3, <4>1, <4>2, FilledPasses
      <4>4. p + 1 \in 0..Len(heap.chain[G.from])
        <5>1. p + 1 \in 1..Len(heap.chain[G.from])
          BY <1>1, <3>2, <3>3, WellFormedTypes, PassageFacts
        <5>2. QED BY <5>1
      <4>5. G.to \in Node /\ Kept(G.to)
        BY <1>1, <1>3, <3>1
      <4>6. QED BY <1>0, <1>1, <3>3, <4>3, <4>4, <4>5, FilledKept
    <3>5. QED BY <1>1, <3>1, <3>2, <3>3, <3>4, FrameAdvances
  <2>3. CASE i # n
    <3>1. i \in 1..(n - 1)
      BY <1>1, <2>1, <2>3
    <3>2. G = stack[i]
      BY <1>2, <3>1 DEF SameCalls
    <3>3. G \in Frame /\ CopyFrameOK(G) /\ G.to \in Node /\ G.from \in Node
          /\ G.at \in Cells(heap, G.from) \cup {NULL}
      BY <1>1, <2>1, <3>2, FrameFields
    <3>4. QED BY <1>0, <1>1, <1>3, <3>3, FrameKept DEF CopyTurn
  <2>4. QED BY <2>2, <2>3
<1>7. CopiesOK' /\ MadeOK'
  <2>1. stack' # <<>>
    BY <1>1, <1>2, EmptyStack DEF SameCalls
  <2>2. QED BY <1>0, <1>1, <2>1 DEF CopiesOK, MadeOK, Done, CopyTurn
<1>8. QED BY <1>5, <1>6, <1>7, CopyTurnFacts

LEMMA ReturnsCopies ==
  ASSUME CopyTurn, Returns \/ Ends
  PROVE  CopyInv'
<1> DEFINE n == Len(stack)
<1>0. UNCHANGED <<load, copy, merged>>
  BY DEF Returns, Ends
<1>1. /\ CopiesOK /\ FinishedOK /\ \A x \in was.from : x \in Node /\ Kept(x)
      /\ heap \in Heap /\ WellFormed(heap, Owners)
      /\ Top = stack[n] /\ n \in Nat \ {0} /\ n \in 1..n
      /\ stack \in Seq(Frame) /\ Top \in Frame /\ Top.to \in Node /\ Top.to \in Live(heap)
      /\ Top.from \in was.from /\ Filling = Tops(stack) /\ CopyFrameOK(Top)
      /\ \A i \in 1..n : stack[i] \in Frame /\ stack[i].from \in was.from
  BY CopyTurnFacts
<1>2. CopiesOK'
  BY <1>0, <1>1 DEF CopiesOK, CopyTurn
<1>3. CASE Returns
  <2> DEFINE s == Pop
  <2>1. s = Pop /\ Pop # <<>> /\ Top.f = "update" /\ GoOn(heap, s) /\ MergeInv /\ stack # <<>> /\ ~stale
    BY <1>3 DEF Returns, CopyTurn
  <2>2. s[Len(s)].at # NULL
    BY <2>1, AtPop
  <2> HIDE DEF s
  <2>3. heap' = heap /\ Continues(stack, stack') /\ Tops(stack') = Tops(stack)
    BY <2>1, <2>2, QuietTurn
  <2>4. Tops(stack) = {} /\ stack' \in Seq(Frame) /\ stack' # <<>> /\ Len(stack') \in Nat
    BY <2>1, <2>3, AtPop, LenProperties DEF Continues
  <2>5. Filling' = {} /\ Filling = {}
    <3>1. Filling' = Tops(stack')
      BY <2>4 DEF Filling, Tops, Frame
    <3>2. QED BY <1>1, <2>3, <2>4, <3>1
  <2>6. \A x \in Node : Kept(x)
    BY <1>0, <2>1, <2>3, KeptWhenSame
  <2>7. FinishedOK'
    <3>1. \A x \in Live(heap') \ (Filling' \cup Firsts') : x \in Live(heap) \ Filling /\ x \in Node
      BY <2>3, <2>5 DEF Live
    <3>2. QED BY <1>0, <1>1, <2>6, <3>1, FinishedKept DEF CopyTurn
  <2>8. (\A i \in 1..Len(stack) : CopyFrameOK(stack[i]))'
    <3> SUFFICES ASSUME NEW i \in 1..Len(stack'), NEW G, G = stack'[i] PROVE CopyFrameOK(G)'
      OBVIOUS
    <3>1. i \in 1..n /\ G.f = stack[i].f /\ G.from = stack[i].from
      BY <1>1, <2>3, <2>4 DEF Continues
    <3>2. G.f # "clone"
      BY <2>4, <3>1 DEF Tops
    <3>3. QED BY <1>1, <3>1, <3>2 DEF CopyFrameOK, CopyTurn
  <2>9. MadeOK'
    BY <2>4 DEF MadeOK, Done
  <2>10. QED BY <1>2, <2>7, <2>8, <2>9, CopyTurnFacts
<1>4. CASE Ends
  <2>1. /\ Pop = <<>> /\ stack' = <<>> /\ heap' = heap /\ Len(stack') = 0
        /\ MergeInv /\ stack # <<>> /\ ~stale
        /\ Top.f = "clone" => Top.at = NULL /\ made' = Top.to
    BY <1>4, EmptyStack DEF Ends, CopyTurn
  <2>2. Tops(stack) = IF Top.f = "clone" THEN {Top.to} ELSE {}
    BY <2>1, LastPop
  <2>3. Filling' = {}
    BY <2>1, EmptyStack DEF Filling
  <2>4. \A x \in Node : Kept(x)
    BY <1>0, <2>1, KeptWhenSame
  <2>5. ASSUME Top.f = "clone", NEW x, x = Top.to PROVE Complete(x)' /\ copy'[x] = Top.from
    <3> DEFINE G == Top
    <3>1. /\ G \in Frame /\ CopyFrameOK(G) /\ G.f = "clone" /\ G.at = NULL /\ Kept(G.to)
          /\ Kept(G.from) /\ copy' = copy /\ x = G.to /\ G.from = Top.from
      BY <1>0, <1>1, <2>1, <2>4, <2>5
    <3> HIDE DEF G
    <3>2. Complete(x)' /\ copy'[x] = G.from
      BY <1>1, <3>1, LoopCompletes
    <3>3. QED BY <3>1, <3>2
  <2>6. FinishedOK'
    <3>1. ASSUME NEW x \in Live(heap') \ (Filling' \cup Firsts')
          PROVE  \/ x \in Live(heap) \ Filling /\ x \in Node
                 \/ Complete(x)'
      <4>1. x \in Live(heap) /\ x \in Node
        BY <2>1 DEF Live
      <4>2. CASE x \in Filling
        BY <1>1, <2>2, <2>5, <4>2
      <4>3. QED BY <4>1, <4>2
    <3>2. QED BY <1>0, <1>1, <2>4, <3>1, FinishedKept DEF CopyTurn
  <2>7. \A i \in 1..Len(stack') : FALSE
    BY <2>1
  <2>8. MadeOK'
    <3> SUFFICES ASSUME call'.f = "clone"
                 PROVE  IF call'.from = NULL THEN made' = NULL
                        ELSE made' # NULL /\ copy'[made'] = call'.from
      BY DEF MadeOK, IsCopy
    <3>1. stack[1].f = call.f /\ stack[1].from = call.from
      BY <2>1 DEF MergeInv, Underway
    <3>2. n = 1
      <4>1. Len(Pop) = n - 1
        BY <1>1, <2>1, PopFacts DEF Pop
      <4>2. QED BY <1>1, <2>1, <4>1, EmptyStack
    <3>3. Top.f = "clone" /\ Top.from = call'.from
      BY <1>1, <3>1, <3>2 DEF CopyTurn
    <3>4. call'.from # NULL /\ made' # NULL
      BY <1>1, <2>1, <3>3, AddressAssumption
    <3>5. copy'[made'] = Top.from
      BY <2>1, <2>5, <3>3
    <3>6. QED BY <3>3, <3>4, <3>5
  <2>9. QED BY <1>2, <2>6, <2>7, <2>8, CopyTurnFacts
<1>5. QED BY <1>3, <1>4

LEMMA ClonesCopies ==
  ASSUME CopyTurn, NEW s, Clones(s)
  PROVE  CopyInv'
<1> PICK n : n = heap.val[Top.at]
  OBVIOUS
<1>0. /\ MergeInv /\ stack # <<>> /\ ~stale /\ RestInv /\ Apart
      /\ copy \in [Node -> Node \cup {NULL}] /\ load \in [Node -> Load]
      /\ was' = was /\ call' = call
  BY DEF CopyTurn, MergeInv, MergeTypeOK
<1>1. /\ CopiesOK /\ FinishedOK /\ \A x \in was.from : x \in Node /\ Kept(x)
      /\ heap \in Heap /\ WellFormed(heap, Owners)
      /\ Top = stack[Len(stack)] /\ Len(stack) \in Nat \ {0}
      /\ stack \in Seq(Frame)
      /\ Top.from \in was.from /\ Top.at \in Cells(heap, Top.from) \cup {NULL}
      /\ Filling = Tops(stack)
      /\ \A i \in 1..Len(stack) :
           /\ stack[i] \in Frame /\ CopyFrameOK(stack[i])
           /\ stack[i].to \in Live(heap) /\ stack[i].from \in was.from
           /\ stack[i].at \in Cells(heap, stack[i].from) \cup {NULL}
  BY CopyTurnFacts
<1>2. /\ Top.at # NULL /\ n # NULL /\ SameCalls(stack, s) /\ s[Len(s)].at = Top.at
      /\ UNCHANGED <<merged, made>>
  BY DEF Clones
<1>3. n \in Live(heap) /\ s \in Seq(Frame) /\ Tops(s) = Tops(stack)
  BY <1>0, CloneLeaves
<1>4. PICK m \in FreshNodes(heap) : Cloned(Owners, s, n, copy, m) /\ \A x \in Node \ {m} : Kept(x)
  BY <1>0, CloneLeaves
<1>5. n \in was.from
  <2>1. n \in Kids(heap, Top.from)
    BY <1>1, <1>2 DEF Kids
  <2>2. QED BY <1>0, <1>1, <2>1, FromFacts
<1>6. /\ heap'.type[m] = heap.type[n] /\ heap'.chain[m] = <<>> /\ Cells(heap', m) = {}
      /\ load'[m] = load[n] /\ m \in Node /\ m \notin Live(heap) /\ Live(heap') = Live(heap) \cup {m}
  <2>1. WellFormed(heap, Owners) /\ n \in Live(heap)
    BY <1>1, <1>3
  <2>2. Cloned(Owners, s, n, copy, m)
    BY <1>4
  <2>3. load \in [Node -> Load]
    BY <1>0
  <2>4. heap.type[n] \in NodeType
    BY <2>1, WellFormedTypes DEF Live, Heap
  <2>5. /\ heap'.type[m] = heap.type[n] /\ heap'.chain[m] = <<>> /\ Cells(heap', m) = {}
        /\ m \in Node /\ m \notin Live(heap) /\ Live(heap') = Live(heap) \cup {m}
    BY <2>1, <2>2, <2>4, NewNodeEffect DEF Cloned
  <2>6. load'[m] = load[n]
    <3>1. load' = [load EXCEPT ![m] = load[n]]
      BY <2>2 DEF Cloned
    <3>2. QED BY <2>3, <2>5, <3>1
  <2>7. QED BY <2>5, <2>6
<1>7. /\ copy'[m] = n /\ \A x \in Node \ {m} : copy'[x] = copy[x]
      /\ CloneFrame(m, n) \in Frame /\ stack' = Append(s, CloneFrame(m, n))
      /\ Tops(stack') = Tops(stack) \cup {m}
  <2>1. /\ copy' = [copy EXCEPT ![m] = n] /\ CloneFrame(m, n) \in Frame
        /\ stack' = Append(s, CloneFrame(m, n)) /\ Tops(stack') = Tops(s) \cup {m}
    BY <1>4 DEF Cloned
  <2>2. copy'[m] = n /\ \A x \in Node \ {m} : copy'[x] = copy[x]
    BY <1>0, <1>6, <2>1
  <2>3. QED BY <1>3, <2>1, <2>2
<1>8. /\ stack' \in Seq(Frame) /\ stack' # <<>> /\ Len(stack') = Len(stack) + 1
      /\ stack'[Len(stack) + 1] = CloneFrame(m, n)
      /\ \A i \in 1..Len(stack) : stack'[i] = s[i]
      /\ Filling' = Filling \cup {m}
  <2>1. /\ stack' \in Seq(Frame) /\ stack' # <<>> /\ Len(stack') = Len(s) + 1
        /\ stack'[Len(s) + 1] = CloneFrame(m, n)
        /\ \A i \in 1..Len(s) : stack'[i] = s[i]
    BY <1>3, <1>7, PushFacts
  <2>2. Filling' = Tops(stack')
    BY <2>1 DEF Filling, Tops
  <2>3. QED BY <1>1, <1>2, <1>7, <2>1, <2>2 DEF SameCalls
<1>9. CopiesOK'
  BY <1>0, <1>1, <1>5, <1>7 DEF CopiesOK
<1>10. \A x \in Live(heap) : /\ x \in Node /\ x # m /\ Kept(x)
                             /\ \A y \in Kids(heap, x) \cup {x} : copy'[y] = copy[y]
  BY <1>1, <1>4, <1>6, <1>7, WellFormedTypes
<1>11. FinishedOK'
  <2>1. \A x \in Live(heap') \ (Filling' \cup Firsts') : x \in Live(heap) \ Filling
    BY <1>6, <1>8
  <2>2. merged \subseteq merged'
    BY <1>2
  <2>3. RestInv'
    BY DEF CopyTurn
  <2>4. QED BY <1>0, <1>1, <1>10, <2>1, <2>2, <2>3, FinishedKept
<1>12. (\A i \in 1..Len(stack) : CopyFrameOK(stack[i]))'
  <2> SUFFICES ASSUME NEW i \in 1..Len(stack'), NEW G, G = stack'[i] PROVE CopyFrameOK(G)'
    OBVIOUS
  <2>1. CASE i = Len(stack) + 1
    <3>1. G = CloneFrame(m, n)
      BY <1>8, <2>1
    <3>2. n \in Node /\ n # m /\ Kept(n) /\ heap'.type[n] = heap.type[n] /\ load'[n] = load[n]
      BY <1>1, <1>3, <1>5, <1>6 DEF Kept
    <3>3. Filled(m, n, 0)'
      BY <1>6, <1>7, <3>2, FilledBegun
    <3>4. Passage(heap, n, FirstCell(heap, n)) = 0
      BY <1>1, <3>2, WellFormedTypes, PassageFacts
    <3>5. Passage(heap', n, FirstCell(heap, n)) = 0
      BY <3>2, <3>4 DEF Kept, Passage, PlaceOf
    <3>6. G.f = "clone" /\ G.to = m /\ G.from = n /\ G.at = FirstCell(heap, n)
      BY <3>1 DEF CloneFrame
    <3>7. G.from \in was'.from
      BY <1>0, <1>5, <3>6
    <3>8. QED BY <3>3, <3>5, <3>6, <3>7 DEF CopyFrameOK
  <2>2. CASE i # Len(stack) + 1
    <3>1. i \in 1..Len(stack) /\ G = s[i]
      BY <1>1, <1>8, <2>2
    <3>2. G.f = stack[i].f /\ G.to = stack[i].to /\ G.from = stack[i].from /\ G.at = stack[i].at
      <4>1. CASE i = Len(stack)
        BY <1>1, <1>2, <3>1, <4>1 DEF SameCalls
      <4>2. CASE i # Len(stack)
        <5>1. i \in 1..(Len(stack) - 1)
          BY <1>1, <3>1, <4>2
        <5>2. QED BY <1>2, <3>1, <5>1 DEF SameCalls
      <4>3. QED BY <4>1, <4>2
    <3>3. CopyFrameOK(G)
      BY <1>1, <3>1, <3>2 DEF CopyFrameOK
    <3>4. G \in Frame
      BY <1>3, <1>2, <3>1, FrameFields DEF SameCalls
    <3>5. /\ Kept(G.to) /\ Kept(G.from) /\ G.at \in Cells(heap, G.from) \cup {NULL}
          /\ \A x \in Kids(heap, G.to) \cup {G.to} : copy'[x] = copy[x]
      BY <1>1, <1>10, <3>1, <3>2
    <3>6. QED BY <1>0, <1>1, <3>3, <3>4, <3>5, FrameKept
  <2>3. QED BY <2>1, <2>2
<1>13. MadeOK'
  BY <1>8 DEF MadeOK, Done
<1>14. QED BY <1>9, <1>11, <1>12, <1>13, CopyTurnFacts

LEMMA NestedCopies ==
  ASSUME CopyTurn, UpdateNested
  PROVE  CopyInv'
<1>0. /\ MergeInv /\ stack # <<>> /\ ~stale /\ RestInv /\ RestInv' /\ Apart
      /\ was' = was /\ call' = call
  BY DEF CopyTurn
<1>1. /\ CopiesOK /\ FinishedOK /\ \A x \in was.from : x \in Node /\ Kept(x)
      /\ Top.from \in was.from /\ Filling = Tops(stack) /\ Len(stack) \in Nat
      /\ \A i \in 1..Len(stack) : stack[i].from \in was.from
  BY CopyTurnFacts
<1>2. UNCHANGED <<heap, load, copy>>
  BY DEF UpdateNested
<1>3. PICK c \in Matches(heap, Top.to, NameAt(heap, Top.at)) :
        LET s == [stack EXCEPT ![Len(stack)].slot = c]
            r == heap.val[c]
            a == heap.val[Top.at]
        IN  /\ SameCalls(stack, s) /\ s \in Seq(Frame)
            /\ a \in Kids(heap, Top.from)
            /\ UpdateFrame(r, a) \in Frame /\ stack' = Append(s, UpdateFrame(r, a))
            /\ Tops(stack) = {} /\ Tops(stack') = {}
            /\ merged' = merged \cup {<<r, a>>}
  BY <1>0, NestedCalled
<1> DEFINE s == [stack EXCEPT ![Len(stack)].slot = c]
           r == heap.val[c]
           a == heap.val[Top.at]
<1>4. a \in was.from
  BY <1>0, <1>1, <1>3, FromFacts
<1>5. /\ SameCalls(stack, s) /\ s \in Seq(Frame) /\ Tops(stack) = {} /\ Tops(stack') = {}
      /\ UpdateFrame(r, a) \in Frame /\ stack' = Append(s, UpdateFrame(r, a))
      /\ merged \subseteq merged'
  BY <1>3
<1> HIDE DEF s, r, a
<1>6. /\ stack' \in Seq(Frame) /\ stack' # <<>> /\ Len(stack') = Len(stack) + 1
      /\ stack'[Len(stack) + 1] = UpdateFrame(r, a)
      /\ \A i \in 1..Len(stack) : stack'[i].from = stack[i].from
  BY <1>5, PushFacts DEF SameCalls
<1>7. Filling' = {} /\ Filling = {}
  <2>1. Filling' = Tops(stack')
    BY <1>6 DEF Filling, Tops
  <2>2. QED BY <1>1, <1>5, <2>1
<1>8. \A x \in Node : Kept(x)
  BY <1>0, <1>2, KeptWhenSame
<1>9. FinishedOK'
  <2>1. \A x \in Live(heap') \ (Filling' \cup Firsts') : x \in Live(heap) \ Filling /\ x \in Node
    BY <1>2, <1>7 DEF Live
  <2>2. QED BY <1>0, <1>1, <1>2, <1>5, <1>8, <2>1, FinishedKept
<1>10. (\A i \in 1..Len(stack) : CopyFrameOK(stack[i]))'
  <2> SUFFICES ASSUME NEW i \in 1..Len(stack'), NEW G, G = stack'[i] PROVE CopyFrameOK(G)'
    OBVIOUS
  <2>1. G.f # "clone"
    BY <1>5 DEF Tops
  <2>2. G.from \in was'.from
    <3>1. CASE i = Len(stack) + 1
      BY <1>0, <1>4, <1>6, <3>1 DEF UpdateFrame
    <3>2. CASE i # Len(stack) + 1
      <4>1. i \in 1..Len(stack)
        BY <1>1, <1>6, <3>2
      <4>2. QED BY <1>0, <1>1, <1>6, <4>1
    <3>3. QED BY <3>1, <3>2
  <2>3. QED BY <2>1, <2>2 DEF CopyFrameOK
<1>11. CopiesOK' /\ MadeOK'
  BY <1>0, <1>1, <1>2, <1>6 DEF CopiesOK, MadeOK, Done
<1>12. QED BY <1>9, <1>10, <1>11, CopyTurnFacts

LEMMA FillsCopies ==
  ASSUME CopyTurn, NEW s, NEW v, NEW h, Fills(s, v, h)
  PROVE  CopyInv'
<1> PICK n : n = Len(s)
  OBVIOUS
<1> PICK F : F = s[n]
  OBVIOUS
<1> PICK d : d = F.at
  OBVIOUS
<1>0. /\ MergeInv /\ stack # <<>> /\ ~stale /\ ~stale' /\ RestInv /\ RestInv' /\ Apart
      /\ was' = was /\ call' = call
      /\ UNCHANGED <<load, copy, merged>> /\ Writes(s, v) /\ d # NULL
      /\ v = NULL => heap.val[Top.at] = NULL
      /\ v # NULL => Top.at = NULL
  BY DEF CopyTurn, Fills
<1>1. /\ CopiesOK /\ FinishedOK /\ \A x \in was.from : x \in Node /\ Kept(x)
      /\ heap \in Heap /\ WellFormed(heap, Owners)
      /\ Top = stack[Len(stack)] /\ Len(stack) \in 1..Len(stack) /\ stack \in Seq(Frame)
      /\ Top \in Frame /\ Top.to \in Node /\ Top.from \in was.from /\ Filling = Tops(stack)
      /\ \A i \in 1..Len(stack) :
           /\ stack[i] \in Frame /\ CopyFrameOK(stack[i])
           /\ stack[i].from \in was.from
           /\ stack[i].at \in Cells(heap, stack[i].from) \cup {NULL}
           /\ stack[i].f = "clone" => stack[i].to \in Filling
           /\ stack[i].f = "update" => stack[i].to \in Firsts
  BY CopyTurnFacts
<1>2. /\ s \in Seq(Frame) /\ s # <<>> /\ StackOK(heap, s) /\ F \in Frame /\ F.to \in Node
      /\ FrameOK(heap, F, Tops(stack))
      /\ v = NULL => heap.type[F.to] = "ARRAY"
      /\ v # NULL => v \in Tops(stack) /\ F.to \notin Tree(heap, v)
  BY <1>0, WriterFacts
<1>3. n \in Nat \ {0} /\ n \in 1..n
  BY <1>2, LenProperties, EmptySeq
<1>4. \A i \in 1..n : s[i] = stack[i] /\ i \in 1..Len(stack)
  BY <1>0, AtPop DEF Writes
<1>5. heap' = h /\ SameCalls(s, stack') /\ Tops(stack') = Tops(stack) \ {v}
  BY <1>0, FillLeaves
<1>6. PICK c \in Cell :
        /\ Wrote(heap, heap', F.to, c, v) /\ PutAt(heap', F, c)
        /\ \A x \in Node \ Hung(heap, c) : x # F.to => Kept(x)
        /\ stack'[n].at = NextCell(heap', F.from, d)
        /\ \A i \in 1..n : s[i].to \notin Hung(heap, c)
  BY <1>0, <1>5, FillLeaves
<1>7. /\ stack' \in Seq(Frame) /\ stack' # <<>> /\ Len(stack') = n
      /\ Filling' = Filling \ {v}
  <2>1. stack' \in Seq(Frame) /\ Len(stack') = n
    BY <1>5 DEF SameCalls
  <2>2. Filling' = Tops(stack')
    BY <2>1 DEF Filling, Tops
  <2>3. QED BY <1>1, <1>3, <1>5, <2>1, <2>2, EmptySeq
<1>8. CopyFrameOK(F) /\ F.from \in was.from /\ F.from \in Node /\ d \in Cells(heap, F.from)
  BY <1>0, <1>1, <1>3, <1>4
<1>9. IsCopy(v, heap.val[d]) /\ (heap.type[F.from] = "MAP" => heap.val[d] # NULL)
  <2>1. CASE v = NULL
    <3>1. F = Top
      BY <1>0, <1>1, <2>1, AddressAssumption DEF Writes
    <3>2. heap.val[d] = NULL /\ heap.type[F.from] = "ARRAY"
      BY <1>0, <1>2, <2>1, <3>1 DEF FrameOK
    <3>3. QED BY <2>1, <3>2 DEF IsCopy
  <2>2. CASE v # NULL
    <3>1. s = Pop /\ Pop # <<>> /\ Top.f = "clone" /\ v = Top.to
      BY <1>0, <2>2 DEF Writes
    <3>2. heap.val[d] = Top.from
      <4>1. LinkOK(heap, F, Top)
        BY <1>0, <3>1, AtPop
      <4>2. QED BY <4>1 DEF LinkOK
    <3>3. copy[v] = Top.from
      BY <1>1, <3>1 DEF CopyFrameOK, Filled
    <3>4. Top.from # NULL
      BY <1>1, AddressAssumption
    <3>5. QED BY <2>2, <3>2, <3>3, <3>4 DEF IsCopy
  <2>3. QED BY <2>1, <2>2
<1>10. CopiesOK'
  BY <1>0, <1>1 DEF CopiesOK
<1>11. (\A i \in 1..Len(stack) : CopyFrameOK(stack[i]))'
  <2> SUFFICES ASSUME NEW i \in 1..Len(stack'), NEW G, G = stack'[i] PROVE CopyFrameOK(G)'
    OBVIOUS
  <2>1. i \in 1..n
    BY <1>7
  <2>2. CASE i = n
    <3>1. /\ G.f = F.f /\ G.to = F.to /\ G.from = F.from
      BY <1>3, <1>5, <2>2 DEF SameCalls
    <3>2. G.at = NextCell(heap, G.from, d)
      <4>1. G.at = NextCell(heap', G.from, d)
        BY <1>6, <2>2, <3>1
      <4>2. heap'.chain[G.from] = heap.chain[G.from]
        BY <1>1, <1>8, <3>1 DEF Kept
      <4>3. QED BY <4>1, <4>2 DEF NextCell, PlaceOf
    <3>3. PICK p : p = Passage(heap, G.from, d)
      OBVIOUS
    <3>4. ASSUME G.f = "clone" PROVE Filled(G.to, G.from, p + 1)'
      <4>1. Filled(F.to, F.from, p) /\ p = Passage(heap, F.from, d) /\ F.f = "clone"
        BY <1>8, <3>1, <3>3, <3>4 DEF CopyFrameOK
      <4>2. heap.type[F.to] = heap.type[F.from] /\ Kept(F.from) /\ load' = load /\ copy' = copy
        BY <1>0, <1>1, <1>2, <1>8 DEF FrameOK
      <4>3. Filled(F.to, F.from, p + 1)'
        BY <1>1, <1>2, <1>6, <1>8, <1>9, <4>1, <4>2, FilledGrows
      <4>4. QED BY <3>1, <4>3
    <3>5. G.from \in Node /\ G.from \in was'.from /\ Kept(G.from) /\ d \in Cells(heap, G.from)
      BY <1>0, <1>1, <1>8, <3>1
    <3>6. WellFormed(heap, Owners)
      BY <1>1
    <3>7. QED BY <3>2, <3>3, <3>4, <3>5, <3>6, FrameAdvances
  <2>3. CASE i # n
    <3>1. i \in 1..(n - 1)
      BY <1>3, <2>1, <2>3
    <3>2. G = s[i] /\ G = stack[i] /\ i \in 1..Len(stack)
      BY <1>4, <1>5, <2>1, <3>1 DEF SameCalls
    <3>3. CASE G.f # "clone"
      BY <1>0, <1>1, <3>2, <3>3 DEF CopyFrameOK
    <3>4. CASE G.f = "clone"
      <4>1. G.to # F.to
        <5>1. PairOK(heap, G, F)
          <6>1. i \in 1..Len(s) /\ n \in 1..Len(s) /\ i < n /\ s[i] = G /\ s[n] = F
            BY <1>3, <2>1, <3>1, <3>2
          <6>2. QED BY <1>2, <6>1 DEF StackOK
        <5>2. QED BY <3>4, <5>1 DEF PairOK
      <4>2. G \in Frame /\ G.to \in Node /\ G.to \notin Hung(heap, c)
        BY <1>1, <1>6, <2>1, <3>2, FrameFields
      <4>3. Kept(G.to) /\ Kept(G.from) /\ CopyFrameOK(G) /\ G.at \in Cells(heap, G.from) \cup {NULL}
        BY <1>1, <1>6, <3>2, <4>1, <4>2
      <4>4. QED BY <1>0, <1>1, <4>2, <4>3, FrameKept
    <3>5. QED BY <3>3, <3>4
  <2>4. QED BY <2>2, <2>3
<1>12. FinishedOK'
  <2>1. ASSUME NEW x \in Live(heap') \ (Filling' \cup Firsts')
        PROVE  \/ x \in Live(heap) \ Filling /\ Kept(x)
               \/ Complete(x)'
    <3>1. x \in Node /\ x \notin Hung(heap, c) /\ x \in Live(heap) /\ x \notin Firsts
      BY <1>0, <1>6 DEF Live, Wrote, Firsts
    <3>2. CASE x \in Filling
      <4>1. x = v /\ v # NULL
        BY <1>7, <2>1, <3>1, <3>2, AddressAssumption
      <4>2. x # F.to
        BY <1>1, <1>2, <3>1, <4>1, TreeFacts
      <4>3. Top.f = "clone" /\ v = Top.to /\ Top.at = NULL
        BY <1>0, <4>1 DEF Writes
      <4> PICK G : G = Top
        OBVIOUS
      <4>4. /\ G \in Frame /\ CopyFrameOK(G) /\ G.f = "clone" /\ G.at = NULL /\ Kept(G.to)
            /\ Kept(G.from) /\ copy' = copy /\ x = G.to
        BY <1>0, <1>1, <1>6, <3>1, <4>1, <4>2, <4>3
      <4>5. Complete(x)'
        BY <1>1, <4>4, LoopCompletes
      <4>6. QED BY <4>5
    <3>3. CASE x \notin Filling
      <4>1. x # F.to
        BY <1>1, <1>2, <1>3, <1>4, <3>1, <3>3 DEF Frame
      <4>2. QED BY <1>6, <3>1, <3>3, <4>1
    <3>4. QED BY <3>2, <3>3
  <2>2. QED BY <1>0, <1>1, <2>1, FinishedKept
<1>13. MadeOK'
  BY <1>7 DEF MadeOK, Done
<1>14. QED BY <1>10, <1>11, <1>12, <1>13, CopyTurnFacts

LEMMA TurnKeepsCopies ==
  ASSUME MergeInv, MergeInv', RestInv, RestInv', CopyInv, stack # <<>>, ~stale,
         \/ Skips \/ Returns \/ Ends \/ (\E s : Clones(s)) \/ UpdateNested
         \/ \E s, v, h : Fills(s, v, h)
  PROVE  CopyInv'
<1>1. was' = was /\ call' = call
  BY DEF Skips, Returns, Ends, Clones, UpdateNested, Fills
<1>2. SUFFICES ASSUME Apart PROVE CopyInv'
  BY <1>1 DEF CopyInv, Apart
<1>3. ~stale'
  <2> SUFFICES ASSUME stale' PROVE FALSE
    BY DEF MergeInv, MergeTypeOK
  <2>1. call'.from \in was'.root
    BY DEF MergeInv, StaleOnlyThroughArrays
  <2>2. call'.from # NULL
    BY <2>1, AddressAssumption DEF RestInv, WasOK, Live
  <2>3. QED BY <1>1, <1>2, <2>1, <2>2 DEF RestInv, WasOK, Apart
<1>4. CopyTurn
  BY <1>1, <1>2, <1>3 DEF CopyTurn
<1>5. QED BY <1>4, SkipsCopies, ReturnsCopies, ClonesCopies, NestedCopies, FillsCopies

LEMMA CallKeepsCopies ==
  ASSUME MergeInv, \/ \E n \in Passed : PtClone(n)
                   \/ \E r \in Passed, n \in Passed : PtMapUpdate(r, n)
  PROVE  CopyInv'
<1>0. Live(heap) \subseteq Node
  BY WellFormedTypes DEF MergeInv
<1>1. ASSUME NEW x \in Node, copy'[x] = NULL PROVE Complete(x)'
  BY <1>1 DEF Complete
<1>2. CASE \E n \in Passed : PtClone(n)
  <2>1. PICK n \in Passed : PtClone(n)
    BY <1>2
  <2>2. was'.from = Part(n) /\ call'.from = n /\ stack = <<>>
    BY <2>1 DEF PtClone, CallBegins
  <2>3. CASE n = NULL
    <3>1. UNCHANGED <<heap, load>> /\ stack' = <<>> /\ made' = NULL /\ copy' = NoCopies
      BY <2>1, <2>2, <2>3 DEF PtClone
    <3>2. Len(stack') = 0 /\ \A i \in 1..Len(stack') : FALSE
      BY <3>1, EmptyStack
    <3>3. \A x \in Node : copy'[x] = NULL
      BY <3>1 DEF NoCopies
    <3>4. FinishedOK'
      BY <1>0, <1>1, <3>1, <3>3 DEF FinishedOK, Live
    <3>5. CopiesOK' /\ MadeOK'
      BY <2>2, <2>3, <3>1, <3>3 DEF CopiesOK, MadeOK, IsCopy
    <3>6. QED BY <3>2, <3>4, <3>5 DEF CopyInv
  <2>4. CASE n # NULL
    <3>1. /\ n \in Live(heap) /\ heap \in Heap /\ WellFormed(heap, held) /\ n \in Node
          /\ load \in [Node -> Load]
      BY <1>0, <2>1, <2>4, PtCloneEnters DEF MergeTypeOK
    <3>2. PICK m \in FreshNodes(heap) :
            /\ Cloned(held, <<>>, n, NoCopies, m)
            /\ Len(stack') = 1 /\ stack'[1] = CloneFrame(m, n) /\ Tops(stack') = {m}
            /\ \A x \in Node \ {m} : Kept(x)
      BY <2>1, <2>4, PtCloneEnters
    <3>3. heap.type[n] \in NodeType
      BY <3>1, WellFormedTypes DEF Live, Heap
    <3>4. /\ heap' = NewNode(heap, m, heap.type[n]) /\ load' = [load EXCEPT ![m] = load[n]]
          /\ copy' = [NoCopies EXCEPT ![m] = n]
      BY <3>2 DEF Cloned
    <3>5. /\ heap'.type[m] = heap.type[n] /\ heap'.chain[m] = <<>> /\ Cells(heap', m) = {}
          /\ m \in Node /\ m \notin Live(heap) /\ Live(heap') = Live(heap) \cup {m}
      BY <3>1, <3>3, <3>4, NewNodeEffect
    <3>6. /\ load'[m] = load[n] /\ copy'[m] = n
          /\ \A x \in Node \ {m} : copy'[x] = NULL
      BY <3>1, <3>4, <3>5 DEF NoCopies
    <3>7. n # m /\ Kept(n) /\ heap'.type[n] = heap.type[n] /\ load'[n] = load[n]
      BY <3>1, <3>2, <3>5 DEF Kept
    <3>8. n \in was'.from
      BY <2>2, <2>4, <3>1, TreeFacts DEF Part
    <3>9. CopiesOK'
      BY <3>6, <3>8 DEF CopiesOK
    <3>10. m \in Filling' /\ stack' # <<>>
      <4>1. stack'[1].f = "clone" /\ stack'[1].to = m /\ DOMAIN stack' = 1..Len(stack') /\ stack' # <<>>
        <5>1. CloneFrame(m, n) \in Frame /\ stack' = Append(<<>>, CloneFrame(m, n))
          BY <3>2 DEF Cloned
        <5> DEFINE e == <<>>
        <5>2. e \in Seq(Frame) /\ stack' = Append(e, CloneFrame(m, n))
          BY <5>1, EmptyStack
        <5> HIDE DEF e
        <5>3. stack' \in Seq(Frame) /\ stack' # <<>>
          BY <5>1, <5>2, PushFacts
        <5>4. QED BY <3>2, <5>3 DEF CloneFrame
      <4>2. 1 \in DOMAIN stack'
        BY <3>2, <4>1
      <4>3. QED BY <4>1, <4>2 DEF Filling
    <3>11. FinishedOK'
      <4> SUFFICES ASSUME NEW x \in Live(heap') \ (Filling' \cup Firsts') PROVE Complete(x)'
        BY DEF FinishedOK
      <4>1. x \in Node \ {m}
        BY <1>0, <3>5, <3>10
      <4>2. QED BY <1>1, <3>6, <4>1
    <3>12. ASSUME NEW i \in 1..Len(stack'), NEW G, G = stack'[i] PROVE CopyFrameOK(G)'
      <4>1. G = CloneFrame(m, n)
        BY <3>2, <3>12
      <4>2. Filled(m, n, 0)'
        BY <3>1, <3>5, <3>6, <3>7, FilledBegun
      <4>3. Passage(heap, n, FirstCell(heap, n)) = 0
        BY <3>1, WellFormedTypes, PassageFacts
      <4>4. Passage(heap', n, FirstCell(heap, n)) = 0
        BY <3>7, <4>3 DEF Kept, Passage, PlaceOf
      <4>5. G.f = "clone" /\ G.to = m /\ G.from = n /\ G.at = FirstCell(heap, n)
        BY <4>1 DEF CloneFrame
      <4>6. G.from \in was'.from
        BY <3>8, <4>5
      <4>7. QED BY <4>2, <4>4, <4>5, <4>6 DEF CopyFrameOK
    <3>13. (\A i \in 1..Len(stack) : CopyFrameOK(stack[i]))'
      <4> SUFFICES ASSUME NEW i \in 1..Len(stack'), NEW G, G = stack'[i] PROVE CopyFrameOK(G)'
        OBVIOUS
      <4>1. QED BY <3>12
    <3>14. MadeOK'
      BY <3>10 DEF MadeOK, Done
    <3>15. QED BY <3>9, <3>11, <3>13, <3>14 DEF CopyInv
  <2>5. QED BY <2>3, <2>4
<1>3. CASE \E r \in Passed, n \in Passed : PtMapUpdate(r, n)
  <2>1. PICK r \in Passed, n \in Passed : PtMapUpdate(r, n)
    BY <1>3
  <2>2. /\ UNCHANGED <<heap, load>> /\ copy' = NoCopies
        /\ was'.from = Part(n) /\ call'.f = "update"
    BY <2>1 DEF PtMapUpdate, CallBegins
  <2>3. \A x \in Node : copy'[x] = NULL
    BY <2>2 DEF NoCopies
  <2>4. CopiesOK' /\ MadeOK'
    BY <2>2, <2>3 DEF CopiesOK, MadeOK
  <2>5. FinishedOK'
    BY <1>0, <1>1, <2>2, <2>3 DEF FinishedOK, Live
  <2>6. (\A i \in 1..Len(stack) : CopyFrameOK(stack[i]))'
    <3> SUFFICES ASSUME NEW i \in 1..Len(stack'), NEW G, G = stack'[i] PROVE CopyFrameOK(G)'
      OBVIOUS
    <3>1. /\ Len(stack') = 1 /\ stack'[1] = UpdateFrame(r, n) /\ IsMap(n)
          /\ n \in Live(heap) \cup {NULL}
      <4>1. \/ stack' = <<>>
            \/ Len(stack') = 1 /\ stack'[1] = UpdateFrame(r, n) /\ IsMap(n)
        BY <2>1, PtMapUpdateEnters
      <4>2. Len(<<>>) = 0
        BY EmptyStack
      <4>3. n \in Live(heap) \cup {NULL}
        BY <2>1, PtMapUpdateEnters
      <4>4. QED BY <4>1, <4>2, <4>3
    <3>2. G.f = "update" /\ G.from = n
      BY <3>1 DEF UpdateFrame
    <3>3. n \in was'.from
      <4>1. n # NULL /\ n \in Node /\ heap \in Heap
        BY <1>0, <3>1, WellFormedTypes DEF IsMap, MergeInv
      <4>2. QED BY <2>2, <4>1, TreeFacts DEF Part
    <3>4. QED BY <3>2, <3>3 DEF CopyFrameOK
  <2>7. QED BY <2>4, <2>5, <2>6 DEF CopyInv
<1>4. QED BY <1>2, <1>3

LEMMA InitHasCopyInv ==
  ASSUME Init
  PROVE  CopyInv
<1>1. /\ stack = <<>> /\ Len(stack) = 0 /\ copy = NoCopies /\ call.f = "none"
  BY EmptyStack DEF Init
<1>2. \A x \in Node : copy[x] = NULL
  BY <1>1 DEF NoCopies
<1>3. CopiesOK /\ FinishedOK /\ MadeOK
  BY <1>1, <1>2 DEF CopiesOK, FinishedOK, Complete, MadeOK, Live
<1>4. QED BY <1>1, <1>3 DEF CopyInv

LEMMA NextKeepsCopyInv ==
  ASSUME MergeInv, MergeInv', RestInv, RestInv', CopyInv, [Next]_vars
  PROVE  CopyInv'
<1>1. CASE UNCHANGED vars
  <2>1. (\A i \in 1..Len(stack) : CopyFrameOK(stack[i]))' <=> \A i \in 1..Len(stack) : CopyFrameOK(stack[i])
    BY <1>1 DEF vars, CopyFrameOK, Filled, UniqueKeys, CopiedUpTo, SameElements, LastValues,
                SameKeys, IsCopy, Names, PlainMap
  <2>2. FinishedOK' <=> FinishedOK
    BY <1>1 DEF vars, FinishedOK, Complete, Filling, Firsts, CopiedUpTo, SameElements, LastValues,
                SameKeys, IsCopy, Names, PlainMap
  <2>3. (CopiesOK' <=> CopiesOK) /\ (MadeOK' <=> MadeOK) /\ (Apart' <=> Apart)
    BY <1>1 DEF vars, CopiesOK, MadeOK, Done, IsCopy, Apart
  <2>4. QED BY <2>1, <2>2, <2>3 DEF CopyInv
<1>2. CASE Next
  <2>1. \/ \E n \in Passed : PtClone(n)
        \/ \E r \in Passed, n \in Passed : PtMapUpdate(r, n)
        \/ UpdateSkip \/ UpdateClone \/ UpdateNested \/ UpdateMismatch \/ UpdateEnd
        \/ CloneKid \/ CloneNull \/ CloneReturns
    BY <1>2 DEF Next
  <2>2. QED BY <2>1, CallKeepsCopies, TurnIs, TurnKeepsCopies
<1>3. QED BY <1>1, <1>2

LEMMA SpecHasCopyInv == Spec => []CopyInv
<1>1. Init => CopyInv
  BY InitHasCopyInv
<1>2. MergeInv /\ MergeInv' /\ RestInv /\ RestInv' /\ CopyInv /\ [Next]_vars => CopyInv'
  BY NextKeepsCopyInv
<1>3. QED BY <1>1, <1>2, SpecHasMergeInv, SpecHasRestInv, PTL DEF Spec

(* A clone is what its original is, node for node: its type and value, an
   array's elements in their order, and for each key of a map the last value
   that it has.  That is so of the document pt_clone returns and of all that
   pt_map_update has put in, also while either is still at it.               *)
THEOREM ClonesAreFaithful == Spec => []CloneFindsTheSame
<1>1. CopyInv => CloneFindsTheSame
  <2> SUFFICES ASSUME FinishedOK, MadeOK PROVE CloneFindsTheSame
    BY DEF CopyInv, CloneFindsTheSame
  <2>1. \A m \in Live(heap) \ (Filling \cup {q[1] : q \in merged}) :
          copy[m] # NULL => CopiedUpTo(m, copy[m], Len(heap.chain[copy[m]]))
    BY DEF FinishedOK, Firsts, Complete
  <2>2. Done /\ call.f = "clone" => IsCopy(made, call.from)
    BY DEF MadeOK
  <2>3. QED BY <2>1, <2>2 DEF CloneFindsTheSame
<1>2. QED BY <1>1, SpecHasCopyInv, PTL

----------------------------------------------------------------------------
(* What is merged *)

(* the loop of frame F has d behind it *)
Past(F, d) == PlaceOf(heap, F.from, d) <= Passage(heap, F.from, F.at)

(* The loop over the pairs of q[2] is through with d, or has got to it. *)
Processed(q, d) ==
  \A i \in 1..Len(stack) : stack[i].f = "update" /\ PairOf(stack[i]) = q => Past(stack[i], d)
Visited(q, d) ==
  \A i \in 1..Len(stack) : stack[i].f = "update" /\ PairOf(stack[i]) = q =>
     Past(stack[i], d) \/ (i < Len(stack) /\ d = stack[i].at)

MergedMaps ==
  /\ merged # {} => call.f = "update"
  /\ \A q \in merged :
       /\ q[1] \in was.root /\ q[2] \in was.from
       /\ heap.type[q[1]] = "MAP" /\ heap.type[q[2]] = "MAP" /\ copy[q[1]] = NULL
  /\ \A q, r \in merged : q[1] = r[1] => q = r

(* Two maps are merged that have the same place. *)
Placed(q) ==
  \/ q = <<call.root, call.from>>
  \/ \E p \in merged : \E c \in Cells(heap, p[1]), d \in Cells(heap, p[2]) :
       heap.key[c] = NameAt(heap, d) /\ heap.val[c] = q[1] /\ heap.val[d] = q[2] /\ Visited(p, d)

(* The pair c of q[1] has a clone of what is in q[2]. *)
Added(q, c) ==
  \E d \in Cells(heap, q[2]) : /\ heap.key[c] = NameAt(heap, d) /\ Processed(q, d)
                               /\ heap.val[d] # NULL /\ IsCopy(heap.val[c], heap.val[d])

(* the i-th pair of a map is what it was *)
Remains(m, i) ==
  LET c == heap.chain[m][i]
  IN  /\ i <= Len(was.heap.chain[m]) /\ heap.val[c] = was.heap.val[c]
      /\ heap.val[c] # NULL => copy[heap.val[c]] = NULL

PairsKept(q) ==
  /\ Len(was.heap.chain[q[1]]) <= Len(heap.chain[q[1]])
  /\ \A i \in 1..Len(heap.chain[q[1]]) :
       LET c == heap.chain[q[1]][i]
       IN  /\ i <= Len(was.heap.chain[q[1]]) =>
                c = was.heap.chain[q[1]][i] /\ heap.key[c] = was.heap.key[c]
           /\ Remains(q[1], i) \/ Added(q, c)

(* Each value that the loop is through with is in q[1]. *)
Has(q, d) ==
  \E c \in Cells(heap, q[1]) : /\ heap.key[c] = NameAt(heap, d)
                             /\ \/ <<heap.val[c], heap.val[d]>> \in merged
                                \/ IsCopy(heap.val[c], heap.val[d])
Joined(q) == \A d \in Cells(heap, q[2]) : heap.val[d] # NULL /\ Processed(q, d) => Has(q, d)

OthersKept ==
  \A n \in (Live(heap) \cap was.root) \ Firsts :
    copy[n] = NULL => Untouched(n) /\ \A x \in Kids(heap, n) : copy[x] = NULL

UnionInv ==
  Apart /\ NamesDiffer =>
    /\ MergedMaps /\ OthersKept
    /\ \A q \in merged : Placed(q) /\ PairsKept(q) /\ (q \notin cut => Joined(q))

(* A document that is no part of a merge contains none. *)
LEMMA MergedOutside ==
  ASSUME NEW R, WellFormed(heap, R), NEW e \in Node, e \notin Firsts, merged \subseteq Node \X Node,
         call.root \notin Tree(heap, e), \A q \in merged : Placed(q)
  PROVE  \A q \in merged : q[1] \notin Tree(heap, e)
<1> DEFINE S == Tree(heap, e) \ Firsts
<1>1. /\ heap \in Heap /\ OneOwner(heap, R) /\ NoDangling(heap)
  BY WellFormedTypes, WellFormedParts
<1>2. /\ Tree(heap, e) \subseteq Node /\ e \in Tree(heap, e) /\ Closed(heap, Tree(heap, e))
      /\ \A X \in SUBSET Node : e \in X /\ Closed(heap, X) => Tree(heap, e) \subseteq X
  BY <1>1, TreeFacts
<1>3. ASSUME NEW x \in S, NEW y \in Kids(heap, x) PROVE y \in S
  <2>1. y \in Tree(heap, e) /\ x \in Node /\ y \in Node /\ x \notin Firsts
    BY <1>1, <1>2, <1>3, KidsInNode DEF Closed
  <2>2. ASSUME NEW q \in merged, y = q[1] PROVE FALSE
    <3>1. y # call.root
      BY <2>1
    <3>2. PICK p \in merged : \E c \in Cells(heap, p[1]) : heap.val[c] = y
      BY <2>2, <3>1 DEF Placed
    <3>3. p[1] \in Node /\ p[1] \in Firsts
      BY DEF Firsts
    <3>4. y # NULL
      BY <2>1, AddressAssumption
    <3>5. y \in Kids(heap, p[1])
      BY <3>2, <3>4 DEF Kids
    <3>6. p[1] = x
      BY <1>1, <1>3, <2>1, <3>3, <3>5, UniqueParent
    <3>7. QED BY <2>1, <3>3, <3>6
  <2>3. QED BY <2>1, <2>2 DEF Firsts
<1>4. e \in S /\ S \in SUBSET Node /\ Closed(heap, S)
  BY <1>2, <1>3 DEF Closed
<1>5. Tree(heap, e) \subseteq S
  BY <1>2, <1>4
<1>6. QED BY <1>5 DEF Firsts

(* What a step does not concern stays so. *)
LEMMA AddedStays ==
  ASSUME NEW q, Kept(q[2]), NEW c, heap'.key[c] = heap.key[c], heap'.val[c] = heap.val[c],
         heap.val[c] # NULL => copy'[heap.val[c]] = copy[heap.val[c]],
         \A d \in Cells(heap, q[2]) : Processed(q, d) => Processed(q, d)', Added(q, c)
  PROVE  Added(q, c)'
<1>1. PICK d \in Cells(heap, q[2]) : /\ heap.key[c] = NameAt(heap, d) /\ Processed(q, d)
                                     /\ heap.val[d] # NULL /\ IsCopy(heap.val[c], heap.val[d])
  BY DEF Added
<1>2. /\ d \in Cells(heap', q[2]) /\ heap'.key[d] = heap.key[d] /\ heap'.val[d] = heap.val[d]
  BY DEF Kept, Cells
<1>3. IsCopy(heap.val[c], heap.val[d])'
  BY <1>1, <1>2 DEF IsCopy
<1>4. heap'.key[c] = NameAt(heap', d) /\ Processed(q, d)'
  BY <1>1, <1>2 DEF NameAt
<1>5. QED BY <1>1, <1>2, <1>3, <1>4 DEF Added

LEMMA LeqTransitive == \A i, j, k \in Nat : i <= j /\ j <= k => i <= k
  OBVIOUS

CellStays(q, c) ==
  /\ heap'.key[c] = heap.key[c]
  /\ \/ Added(q, c)'
     \/ /\ heap'.val[c] = heap.val[c] /\ (Added(q, c) => Added(q, c)')
        /\ heap.val[c] # NULL => copy'[heap.val[c]] = copy[heap.val[c]]

CellComes(q, i) ==
  /\ ~(i <= Len(was.heap.chain[q[1]]))
  /\ \A c : c = heap'.chain[q[1]][i] => Added(q, c)'

PairsMove(q) ==
  /\ Len(heap'.chain[q[1]]) \in Nat /\ Len(was.heap.chain[q[1]]) \in Nat
  /\ Len(heap.chain[q[1]]) <= Len(heap'.chain[q[1]])
  /\ \A i \in 1..Len(heap.chain[q[1]]) : heap'.chain[q[1]][i] = heap.chain[q[1]][i]
  /\ \A c \in Cells(heap, q[1]) : CellStays(q, c)
  /\ \A i \in 1..Len(heap'.chain[q[1]]) : i \notin 1..Len(heap.chain[q[1]]) => CellComes(q, i)

LEMMA PairsStay ==
  ASSUME NEW R, WellFormed(heap, R), NEW q, q[1] \in Node, was' = was, PairsKept(q), PairsMove(q)
  PROVE  PairsKept(q)'
<1>0. /\ \A i \in 1..Len(heap.chain[q[1]]) : heap'.chain[q[1]][i] = heap.chain[q[1]][i]
      /\ \A i \in 1..Len(heap'.chain[q[1]]) : i \notin 1..Len(heap.chain[q[1]]) => CellComes(q, i)
  BY DEF PairsMove
<1>1. /\ Len(heap.chain[q[1]]) \in Nat
      /\ \A i \in 1..Len(heap.chain[q[1]]) : heap.chain[q[1]][i] \in Cells(heap, q[1])
  BY WellFormedTypes, PassageFacts
<1>2. Len(was.heap.chain[q[1]]) <= Len(heap'.chain[q[1]])
  <2>1. /\ Len(was.heap.chain[q[1]]) <= Len(heap.chain[q[1]])
        /\ Len(heap.chain[q[1]]) <= Len(heap'.chain[q[1]])
        /\ Len(heap'.chain[q[1]]) \in Nat /\ Len(was.heap.chain[q[1]]) \in Nat
    BY DEF PairsKept, PairsMove
  <2>2. QED BY <1>1, <2>1, LeqTransitive, Zenon
<1>3. ASSUME NEW i \in 1..Len(heap'.chain[q[1]]), NEW c, c = heap'.chain[q[1]][i]
      PROVE  /\ i <= Len(was.heap.chain[q[1]]) =>
                  c = was.heap.chain[q[1]][i] /\ heap'.key[c] = was.heap.key[c]
             /\ Remains(q[1], i)' \/ Added(q, c)'
  <2>1. CASE i \in 1..Len(heap.chain[q[1]])
    <3>1. c = heap.chain[q[1]][i] /\ c \in Cells(heap, q[1])
      BY <1>0, <1>1, <1>3, <2>1
    <3>2. /\ i <= Len(was.heap.chain[q[1]]) =>
               c = was.heap.chain[q[1]][i] /\ heap.key[c] = was.heap.key[c]
          /\ Remains(q[1], i) \/ Added(q, c)
      BY <2>1, <3>1 DEF PairsKept
    <3> CellStays(q, c)
      BY <3>1 DEF PairsMove
    <3>3. heap'.key[c] = heap.key[c]
      BY DEF CellStays
    <3>4. CASE Added(q, c)'
      BY <3>2, <3>3, <3>4
    <3>5. CASE /\ heap'.val[c] = heap.val[c] /\ (Added(q, c) => Added(q, c)')
               /\ heap.val[c] # NULL => copy'[heap.val[c]] = copy[heap.val[c]]
      <4>1. Remains(q[1], i) => Remains(q[1], i)'
        <5>1. heap.chain[q[1]][i] = c /\ heap'.chain[q[1]][i] = c /\ was' = was
          BY <1>3, <3>1
        <5>2. QED BY <3>5, <5>1 DEF Remains
      <4>2. QED BY <3>2, <3>3, <3>5, <4>1
    <3>6. \/ Added(q, c)'
          \/ /\ heap'.val[c] = heap.val[c] /\ (Added(q, c) => Added(q, c)')
             /\ heap.val[c] # NULL => copy'[heap.val[c]] = copy[heap.val[c]]
      BY DEF CellStays
    <3>7. QED BY <3>4, <3>5, <3>6
  <2>2. CASE i \notin 1..Len(heap.chain[q[1]])
    BY <1>0, <1>3, <2>2 DEF CellComes
  <2>3. QED BY <2>1, <2>2
<1>4. QED BY <1>2, <1>3 DEF PairsKept

LEMMA PlacedStays ==
  ASSUME NEW q, Placed(q), call' = call, merged \subseteq merged',
         \A p \in merged : \A c \in Cells(heap, p[1]) : heap.val[c] = q[1] =>
           /\ c \in Cells(heap', p[1])
           /\ heap'.key[c] = heap.key[c] /\ heap'.val[c] = heap.val[c],
         \A p \in merged : /\ Kept(p[2])
                           /\ \A d \in Cells(heap, p[2]) : Visited(p, d) => Visited(p, d)'
  PROVE  Placed(q)'
<1>1. CASE q = <<call.root, call.from>>
  BY <1>1 DEF Placed
<1>2. CASE q # <<call.root, call.from>>
  <2>0. PICK p \in merged : \E c \in Cells(heap, p[1]), d \in Cells(heap, p[2]) :
          heap.key[c] = NameAt(heap, d) /\ heap.val[c] = q[1] /\ heap.val[d] = q[2] /\ Visited(p, d)
    BY <1>2 DEF Placed
  <2>1. PICK c \in Cells(heap, p[1]), d \in Cells(heap, p[2]) :
          heap.key[c] = NameAt(heap, d) /\ heap.val[c] = q[1] /\ heap.val[d] = q[2] /\ Visited(p, d)
    BY <2>0
  <2>2. d \in Cells(heap', p[2]) /\ heap'.key[d] = heap.key[d] /\ heap'.val[d] = heap.val[d]
    BY <2>1 DEF Kept, Cells
  <2>3. /\ c \in Cells(heap', p[1]) /\ heap'.key[c] = NameAt(heap', d)
        /\ heap'.val[c] = q[1] /\ heap'.val[d] = q[2]
    BY <2>1, <2>2 DEF NameAt
  <2>4. Visited(p, d)'
    BY <2>1
  <2>5. p \in merged'
    OBVIOUS
  <2>6. QED BY <2>2, <2>3, <2>4, <2>5 DEF Placed
<1>3. QED BY <1>1, <1>2

LEMMA HasStays ==
  ASSUME NEW q, NEW d, heap'.key[d] = heap.key[d], heap'.val[d] = heap.val[d],
         merged \subseteq merged', Has(q, d),
         \A c \in Cells(heap, q[1]) : heap.key[c] = NameAt(heap, d) =>
           /\ c \in Cells(heap', q[1])
           /\ heap'.key[c] = heap.key[c] /\ heap'.val[c] = heap.val[c]
           /\ heap.val[c] # NULL => copy'[heap.val[c]] = copy[heap.val[c]]
  PROVE  Has(q, d)'
<1>1. PICK c \in Cells(heap, q[1]) : /\ heap.key[c] = NameAt(heap, d)
                                     /\ \/ <<heap.val[c], heap.val[d]>> \in merged
                                        \/ IsCopy(heap.val[c], heap.val[d])
  BY DEF Has
<1>2. c \in Cells(heap', q[1]) /\ heap'.key[c] = NameAt(heap', d) /\ heap'.val[c] = heap.val[c]
  BY <1>1 DEF NameAt
<1>3. <<heap.val[c], heap.val[d]>> \in merged => <<heap'.val[c], heap'.val[d]>> \in merged'
  BY <1>2
<1>4. IsCopy(heap.val[c], heap.val[d]) => IsCopy(heap.val[c], heap.val[d])'
  BY <1>1, <1>2 DEF IsCopy
<1>5. QED BY <1>1, <1>2, <1>3, <1>4 DEF Has

LEMMA OthersStay ==
  ASSUME OthersKept, was' = was, merged \subseteq merged',
         \A n \in Live(heap') \ Firsts' : copy'[n] = NULL =>
           /\ n \in Live(heap) /\ copy[n] = NULL /\ Kept(n)
           /\ \A x \in Kids(heap, n) : copy'[x] = copy[x]
  PROVE  OthersKept'
<1> SUFFICES ASSUME NEW n \in (Live(heap') \cap was.root) \ Firsts', copy'[n] = NULL
             PROVE  Untouched(n)' /\ \A x \in Kids(heap', n) : copy'[x] = NULL
  BY DEF OthersKept
<1>1. /\ n \in Live(heap) /\ copy[n] = NULL /\ Kept(n)
      /\ \A x \in Kids(heap, n) : copy'[x] = copy[x]
  OBVIOUS
<1>2. n \notin Firsts
  BY DEF Firsts
<1>3. Untouched(n) /\ \A x \in Kids(heap, n) : copy[x] = NULL
  BY <1>1, <1>2 DEF OthersKept
<1>4. Cells(was.heap, n) = Cells(heap, n)
  BY <1>3 DEF Untouched, Cells
<1>5. Untouched(n)'
  BY <1>1, <1>3, <1>4 DEF Untouched, Kept
<1>6. Kids(heap', n) = Kids(heap, n)
  BY <1>1 DEF Kids, Kept, Cells
<1>7. QED BY <1>1, <1>3, <1>5, <1>6

(* Turns of a merge in which root and additions are apart *)
UnionTurn == CopyTurn /\ UnionInv /\ NamesDiffer

LEMMA UnionTurnFacts ==
  ASSUME UnionTurn
  PROVE  /\ MergedMaps /\ OthersKept
         /\ \A q \in merged :
              /\ q[1] \in Node /\ q[2] \in Node /\ q = <<q[1], q[2]>> /\ q[1] \in Firsts
              /\ Kept(q[2]) /\ Placed(q) /\ PairsKept(q) /\ (q \notin cut => Joined(q))
              /\ heap.type[q[1]] = "MAP" /\ copy[q[1]] = NULL /\ q[2] \in was.from
              /\ \A c, d \in Cells(heap, q[2]) : NameAt(heap, c) = NameAt(heap, d) => c = d
         /\ \A i \in 1..Len(stack) : stack[i].f = "update" => PairOf(stack[i]) \in merged
         /\ \A i, j \in 1..Len(stack) :
              /\ stack[i].f = "update" /\ stack[j].f = "update" /\ PairOf(stack[i]) = PairOf(stack[j])
              => i = j
         /\ merged # {} => /\ stack[1].f = "update" /\ stack[1].to = call.root
                           /\ call.root \in Node
                           /\ \A m \in Tops(stack) : call.root \notin Tree(heap, m)
<1>1. /\ MergedMaps /\ OthersKept
      /\ \A q \in merged : Placed(q) /\ PairsKept(q) /\ (q \notin cut => Joined(q))
  BY DEF UnionTurn, UnionInv, CopyTurn
<1>2. /\ MergeInv /\ RestInv /\ Apart /\ \A x \in was.from : x \in Node /\ Kept(x)
      /\ stack \in Seq(Frame) /\ Len(stack) \in Nat \ {0} /\ StackOK(heap, stack)
  BY CopyTurnFacts, AtTop DEF UnionTurn, CopyTurn
<1>3. merged \subseteq Node \X Node /\ Underway
  BY <1>2 DEF MergeInv, MergeTypeOK, UnionTurn, CopyTurn
<1>4. ASSUME NEW q \in merged
      PROVE  /\ q[1] \in Node /\ q[2] \in Node /\ q = <<q[1], q[2]>> /\ q[1] \in Firsts
             /\ Kept(q[2]) /\ Placed(q) /\ PairsKept(q) /\ (q \notin cut => Joined(q))
             /\ heap.type[q[1]] = "MAP" /\ copy[q[1]] = NULL /\ q[2] \in was.from
             /\ \A c, d \in Cells(heap, q[2]) : NameAt(heap, c) = NameAt(heap, d) => c = d
  <2>1. q[1] \in Node /\ q[2] \in Node /\ q = <<q[1], q[2]>> /\ q[1] \in Firsts
    BY <1>3 DEF Firsts
  <2>2. /\ heap.type[q[1]] = "MAP" /\ copy[q[1]] = NULL /\ q[2] \in was.from
        /\ heap.type[q[2]] = "MAP"
    BY <1>1 DEF MergedMaps
  <2> PICK n : n = q[2]
    OBVIOUS
  <2>3. n \in was.from /\ heap.type[n] = "MAP" /\ Untouched(n)
    BY <1>2, <2>2, FromFacts
  <2>4. \A c, d \in Cells(was.heap, n) : NameAt(was.heap, c) = NameAt(was.heap, d) => c = d
    BY <2>3 DEF UnionTurn, NamesDiffer, Untouched
  <2>5. /\ Cells(heap, n) = Cells(was.heap, n)
        /\ \A c \in Cells(heap, n) : NameAt(heap, c) = NameAt(was.heap, c)
    BY <2>3 DEF Untouched, Cells, NameAt
  <2>6. \A c, d \in Cells(heap, n) : NameAt(heap, c) = NameAt(heap, d) => c = d
    BY <2>4, <2>5
  <2>7. QED BY <1>1, <1>2, <2>1, <2>2, <2>6
<1>5. \A i \in 1..Len(stack) : stack[i].f = "update" => PairOf(stack[i]) \in merged
  BY <1>3 DEF Underway
<1>6. ASSUME NEW i \in 1..Len(stack), NEW j \in 1..Len(stack), i < j,
             stack[i].f = "update", stack[j].f = "update", PairOf(stack[i]) = PairOf(stack[j])
      PROVE  FALSE
  <2>1. PairOK(heap, stack[i], stack[j])
    BY <1>2, <1>6 DEF StackOK
  <2>2. stack[i].to = stack[j].to
    BY <1>6 DEF PairOf
  <2>3. QED BY <1>6, <2>1, <2>2 DEF PairOK
<1>7. \A i, j \in 1..Len(stack) :
        /\ stack[i].f = "update" /\ stack[j].f = "update" /\ PairOf(stack[i]) = PairOf(stack[j])
        => i = j
  <2>1. \A i, j \in 1..Len(stack) : i < j \/ i = j \/ j < i
    BY <1>2
  <2>2. QED BY <1>6, <2>1
<1>8. ASSUME merged # {}
      PROVE  /\ stack[1].f = "update" /\ stack[1].to = call.root /\ call.root \in Node
             /\ \A m \in Tops(stack) : call.root \notin Tree(heap, m)
  <2>1. call.f = "update" /\ 1 \in 1..Len(stack)
    BY <1>1, <1>2, <1>8 DEF MergedMaps
  <2>2. stack[1].f = "update" /\ stack[1].to = call.root
    BY <1>3, <2>1, EmptyStack DEF Underway, UnionTurn, CopyTurn
  <2>3. stack[1].to \in Node
    BY <1>2, <2>1, FrameFields
  <2>4. FrameOK(heap, stack[1], Tops(stack))
    BY <1>2, <2>1 DEF StackOK
  <2>5. QED BY <2>2, <2>3, <2>4 DEF FrameOK
<1>9. QED BY <1>1, <1>4, <1>5, <1>7, <1>8

(* How far a loop is, when it stays where it is or takes its next cell *)
LEMMA PastMoves ==
  ASSUME NEW R, WellFormed(heap, R), NEW F, F.from \in Node, Kept(F.from),
         NEW d \in Cells(heap, F.from), NEW G, G.from = F.from
  PROVE  /\ G.at = F.at => (Past(G, d)' <=> Past(F, d))
         /\ F.at \in Cells(heap, F.from) /\ G.at = NextCell(heap', F.from, F.at) =>
              (Past(G, d)' <=> Past(F, d) \/ d = F.at)
<1>1. heap'.chain[F.from] = heap.chain[F.from]
  BY DEF Kept
<1>2. Past(G, d)' <=> PlaceOf(heap, F.from, d) <= Passage(heap, F.from, G.at)
  BY <1>1 DEF Past, PlaceOf, Passage
<1>3. ASSUME F.at \in Cells(heap, F.from), G.at = NextCell(heap', F.from, F.at)
      PROVE  Past(G, d)' <=> Past(F, d) \/ d = F.at
  <2> DEFINE p == Passage(heap, F.from, F.at)
             j == PlaceOf(heap, F.from, d)
  <2>1. NextCell(heap', F.from, F.at) = NextCell(heap, F.from, F.at)
    BY <1>1 DEF NextCell, PlaceOf
  <2>2. /\ p + 1 \in 1..Len(heap.chain[F.from]) /\ heap.chain[F.from][p + 1] = F.at
        /\ Passage(heap, F.from, G.at) = p + 1 /\ p \in 0..Len(heap.chain[F.from])
    BY <1>3, <2>1, WellFormedTypes, PassageFacts
  <2>3. j \in 1..Len(heap.chain[F.from]) /\ heap.chain[F.from][j] = d
    BY WellFormedTypes, NextCellFacts
  <2>4. d = F.at <=> j = p + 1
    BY <2>2, <2>3, WellFormedTypes, PassageFacts
  <2>5. Past(F, d) <=> j <= p
    BY DEF Past
  <2>6. Past(G, d)' <=> j <= p + 1
    BY <1>2, <2>2
  <2> HIDE DEF p, j
  <2>7. j \in Int /\ p \in Int
    BY <2>2, <2>3
  <2>8. QED BY <2>4, <2>5, <2>6, <2>7
<1>4. QED BY <1>2, <1>3 DEF Past

(* and that of an update's loop, when a call goes on *)
PastInAll(s, q, d) ==
  \A i \in 1..Len(s) : s[i].f = "update" /\ PairOf(s[i]) = q => Past(s[i], d)

LEMMA PassedOn ==
  ASSUME NEW R, WellFormed(heap, R), stack \in Seq(Frame), NEW s \in Seq(Frame), s # <<>>,
         s = stack \/ s = Pop, SameCalls(s, stack'), NEW F, F = s[Len(s)],
         F.at \in Cells(heap, F.from), stack'[Len(s)].at = NextCell(heap', F.from, F.at),
         NEW q, q[2] \in Node, Kept(q[2]), NEW d \in Cells(heap, q[2])
  PROVE  /\ Processed(q, d) => Processed(q, d)'
         /\ Visited(q, d) => Visited(q, d)'
         /\ Processed(q, d)' => \/ F.f = "update" /\ q = PairOf(F) /\ d = F.at
                                \/ PastInAll(s, q, d)
<1> DEFINE n == Len(s)
<1>1. /\ n \in Nat \ {0} /\ n \in 1..n
      /\ Len(s) <= Len(stack) /\ \A i \in 1..n : s[i] = stack[i] /\ i \in 1..Len(stack)
  <2>1. n \in Nat \ {0} /\ n \in 1..n
    BY LenProperties, EmptySeq
  <2>2. CASE s = stack
    BY <2>1, <2>2
  <2>3. CASE s = Pop /\ s # stack
    <3>1. stack # <<>>
      <4>1. stack = <<>> => Len(Pop) = 0
        BY EmptyStack DEF Pop
      <4>2. QED BY <2>1, <2>3, <4>1
    <3>2. Len(stack) \in Nat \ {0} /\ Len(Pop) = Len(stack) - 1 /\ \A i \in 1..Len(Pop) : Pop[i] = stack[i]
      BY <3>1, PopFacts DEF Pop
    <3>3. QED BY <2>1, <2>3, <3>2
  <2>4. QED BY <2>2, <2>3
<1>2. Len(stack') = n
  BY DEF SameCalls
<1>3. ASSUME NEW i \in 1..n, NEW G, G = stack'[i], G.f = "update", PairOf(G) = q
      PROVE  /\ s[i].f = "update" /\ PairOf(s[i]) = q
             /\ i # n => G = s[i] /\ (Past(G, d)' <=> Past(s[i], d))
             /\ i = n => (Past(G, d)' <=> Past(s[i], d) \/ d = F.at)
  <2>1. G.f = s[i].f /\ G.to = s[i].to /\ G.from = s[i].from
    BY <1>3 DEF SameCalls
  <2>2. s[i].f = "update" /\ PairOf(s[i]) = q
    BY <1>3, <2>1 DEF PairOf
  <2>3. G.from = q[2]
    BY <1>3 DEF PairOf
  <2> PICK H : H = s[i]
    OBVIOUS
  <2>4. H.from = q[2] /\ H.from \in Node /\ Kept(H.from) /\ d \in Cells(heap, H.from) /\ G.from = H.from
    BY <2>1, <2>3
  <2>5. ASSUME i # n PROVE G = H
    <3>1. i \in 1..(n - 1)
      BY <1>1, <2>5
    <3>2. QED BY <1>3, <3>1 DEF SameCalls
  <2>6. i # n => (Past(G, d)' <=> Past(H, d))
    BY <2>4, <2>5, PastMoves
  <2>7. ASSUME i = n PROVE Past(G, d)' <=> Past(H, d) \/ d = F.at
    <3>1. H = F /\ H.at \in Cells(heap, H.from) /\ G.at = NextCell(heap', H.from, H.at)
      BY <1>3, <2>7
    <3>2. QED BY <2>4, <3>1, PastMoves
  <2>8. QED BY <2>2, <2>5, <2>6, <2>7
<1>4. ASSUME Processed(q, d) PROVE Processed(q, d)'
  <2> SUFFICES ASSUME NEW i \in 1..Len(stack'), NEW G, G = stack'[i], G.f = "update", PairOf(G) = q
               PROVE  Past(G, d)'
    BY DEF Processed, PairOf
  <2>1. i \in 1..n
    BY <1>2
  <2>2. s[i].f = "update" /\ PairOf(s[i]) = q
    BY <1>3, <2>1
  <2>3. Past(s[i], d)
    BY <1>1, <1>4, <2>1, <2>2 DEF Processed
  <2>4. QED BY <1>3, <2>1, <2>3
<1>5. ASSUME Visited(q, d) PROVE Visited(q, d)'
  <2> SUFFICES ASSUME NEW i \in 1..Len(stack'), NEW G, G = stack'[i], G.f = "update", PairOf(G) = q
               PROVE  Past(G, d)' \/ (i < Len(stack') /\ d = G.at)
    BY DEF Visited, PairOf
  <2>1. i \in 1..n
    BY <1>2
  <2>2. s[i].f = "update" /\ PairOf(s[i]) = q
    BY <1>3, <2>1
  <2>3. Past(s[i], d) \/ d = s[i].at
    BY <1>1, <1>5, <2>1, <2>2 DEF Visited
  <2>4. i # n => i < Len(stack')
    BY <1>1, <1>2, <2>1
  <2>5. i = n => F = s[i]
    OBVIOUS
  <2>6. QED BY <1>3, <2>1, <2>3, <2>4, <2>5
<1>6. ASSUME Processed(q, d)', ~(F.f = "update" /\ q = PairOf(F) /\ d = F.at)
      PROVE  PastInAll(s, q, d)
  <2> SUFFICES ASSUME NEW i \in 1..Len(s), s[i].f = "update", PairOf(s[i]) = q PROVE Past(s[i], d)
    BY DEF PastInAll
  <2> PICK G : G = stack'[i]
    OBVIOUS
  <2>1. G.f = s[i].f /\ G.to = s[i].to /\ G.from = s[i].from /\ i \in 1..Len(stack')
    BY <1>2 DEF SameCalls
  <2>2. G.f = "update" /\ PairOf(G) = q
    BY <2>1 DEF PairOf
  <2>3. Past(G, d)'
    <3>1. (stack[i].f = "update" /\ PairOf(stack[i]) = q => Past(stack[i], d))'
      BY <1>6, <2>1 DEF Processed
    <3>2. QED BY <2>2, <3>1 DEF PairOf
  <2>4. i = n => d # F.at
    BY <1>6
  <2>5. QED BY <1>3, <2>2, <2>3, <2>4
<1>7. QED BY <1>4, <1>5, <1>6

(* Nothing happens to what is merged, nor to what else was there. *)
StaysMerged(q) ==
  Kept(q[1]) /\ copy'[q[1]] = copy[q[1]] /\ \A x \in Kids(heap, q[1]) : copy'[x] = copy[x]
MergeUntouched ==
  /\ \A q \in merged : StaysMerged(q)
  /\ \A n \in Live(heap') \ Firsts' : copy'[n] = NULL =>
       /\ n \in Live(heap) /\ copy[n] = NULL /\ Kept(n)
       /\ \A x \in Kids(heap, n) : copy'[x] = copy[x]

(* What the loops have got to, they have. *)
LoopMoves(q) ==
  \A d \in Cells(heap, q[2]) :
    /\ Processed(q, d) => Processed(q, d)'
    /\ Visited(q, d) => Visited(q, d)'
    /\ Processed(q, d)' /\ heap.val[d] # NULL /\ q \notin cut' => Processed(q, d) \/ Has(q, d)
LoopsMove == \A q \in merged : LoopMoves(q)

LEMMA PairStays ==
  ASSUME UnionTurn, merged \subseteq merged', cut \subseteq cut', NEW q \in merged, StaysMerged(q),
         LoopMoves(q)
  PROVE  /\ heap'.type[q[1]] = "MAP" /\ heap'.type[q[2]] = "MAP" /\ copy'[q[1]] = NULL
         /\ PairsKept(q)' /\ (q \notin cut' => Joined(q)')
<1>1. /\ WellFormed(heap, Owners) /\ heap \in Heap /\ was' = was /\ MergedMaps
      /\ q[1] \in Node /\ q[2] \in Node /\ Kept(q[1]) /\ Kept(q[2])
      /\ PairsKept(q) /\ (q \notin cut => Joined(q))
  BY UnionTurnFacts, CopyTurnFacts DEF UnionTurn, CopyTurn, StaysMerged
<1>2. /\ heap'.type[q[1]] = "MAP" /\ heap'.type[q[2]] = "MAP" /\ copy'[q[1]] = NULL
  BY <1>1 DEF MergedMaps, Kept, StaysMerged
<1>3. \A c \in Cells(heap, q[1]) :
        /\ c \in Cells(heap', q[1]) /\ heap'.key[c] = heap.key[c] /\ heap'.val[c] = heap.val[c]
        /\ heap.val[c] # NULL => copy'[heap.val[c]] = copy[heap.val[c]]
  <2>1. \A c \in Cells(heap, q[1]) : heap.val[c] # NULL => heap.val[c] \in Kids(heap, q[1])
    BY DEF Kids
  <2>2. QED BY <1>1, <2>1 DEF Kept, Cells, StaysMerged
<1>4. PairsKept(q)'
  <2>1. heap'.chain[q[1]] = heap.chain[q[1]]
    BY <1>1 DEF Kept
  <2>2. \A d \in Cells(heap, q[2]) : Processed(q, d) => Processed(q, d)'
    BY DEF LoopMoves
  <2>3. ASSUME NEW c \in Cells(heap, q[1]) PROVE CellStays(q, c)
    <3>1. Added(q, c) => Added(q, c)'
      BY <1>1, <1>3, <2>2, AddedStays
    <3>2. QED BY <1>3, <3>1 DEF CellStays
  <2>4. Len(heap.chain[q[1]]) \in Nat
    BY <1>1, WellFormedTypes, LenProperties
  <2>5. Len(was.heap.chain[q[1]]) \in Nat
    <3>1. was.heap \in Heap
      BY DEF UnionTurn, CopyTurn, RestInv, WasOK
    <3>2. was.heap.chain[q[1]] \in Seq(Cell)
      BY <1>1, <3>1 DEF Heap
    <3>3. QED BY <3>2, LenProperties
  <2>6. PairsMove(q)
    BY <2>1, <2>3, <2>4, <2>5 DEF PairsMove
  <2>7. QED BY <1>1, <2>6, PairsStay
<1>5. ASSUME q \notin cut' PROVE Joined(q)'
  <2> SUFFICES ASSUME NEW d \in Cells(heap', q[2]), heap'.val[d] # NULL, Processed(q, d)'
               PROVE  Has(q, d)'
    BY DEF Joined
  <2>1. d \in Cells(heap, q[2]) /\ heap'.val[d] = heap.val[d] /\ heap'.key[d] = heap.key[d]
    BY <1>1 DEF Kept, Cells
  <2>2. Processed(q, d) \/ Has(q, d)
    BY <1>5, <2>1 DEF LoopMoves
  <2>3. Has(q, d)
    BY <1>1, <1>5, <2>1, <2>2 DEF Joined
  <2>4. QED BY <1>3, <2>1, <2>3, HasStays
<1>6. QED BY <1>2, <1>4, <1>5

LEMMA OldPairsStay ==
  ASSUME UnionTurn, merged \subseteq merged', cut \subseteq cut', MergeUntouched, LoopsMove
  PROVE  /\ OthersKept'
         /\ \A q \in merged :
              /\ heap'.type[q[1]] = "MAP" /\ heap'.type[q[2]] = "MAP" /\ copy'[q[1]] = NULL
              /\ Placed(q)' /\ PairsKept(q)' /\ (q \notin cut' => Joined(q)')
<1>1. OthersKept /\ was' = was /\ call' = call
  BY UnionTurnFacts DEF UnionTurn, CopyTurn
<1>2. OthersKept'
  BY <1>1, OthersStay DEF MergeUntouched
<1>3. ASSUME NEW q \in merged
      PROVE  /\ heap'.type[q[1]] = "MAP" /\ heap'.type[q[2]] = "MAP" /\ copy'[q[1]] = NULL
             /\ PairsKept(q)' /\ (q \notin cut' => Joined(q)')
  BY PairStays DEF MergeUntouched, LoopsMove
<1>4. ASSUME NEW q \in merged PROVE Placed(q)'
  <2>1. \A p \in merged : \A c \in Cells(heap, p[1]) : heap.val[c] = q[1] =>
          c \in Cells(heap', p[1]) /\ heap'.key[c] = heap.key[c] /\ heap'.val[c] = heap.val[c]
    BY DEF MergeUntouched, StaysMerged, Kept, Cells
  <2>2. \A p \in merged : Kept(p[2]) /\ \A d \in Cells(heap, p[2]) : Visited(p, d) => Visited(p, d)'
    BY UnionTurnFacts DEF LoopsMove, LoopMoves
  <2>3. Placed(q)
    BY UnionTurnFacts
  <2>4. QED BY <1>1, <2>1, <2>2, <2>3, PlacedStays
<1>5. QED BY <1>2, <1>3, <1>4

LEMMA UnionStays ==
  ASSUME UnionTurn, merged' = merged, cut \subseteq cut', MergeUntouched, LoopsMove
  PROVE  UnionInv'
<1>1. /\ OthersKept'
      /\ \A q \in merged :
           /\ heap'.type[q[1]] = "MAP" /\ heap'.type[q[2]] = "MAP" /\ copy'[q[1]] = NULL
           /\ Placed(q)' /\ PairsKept(q)' /\ (q \notin cut' => Joined(q)')
  BY OldPairsStay
<1>2. MergedMaps /\ was' = was /\ call' = call
  BY UnionTurnFacts DEF UnionTurn, CopyTurn
<1>3. MergedMaps'
  BY <1>1, <1>2 DEF MergedMaps
<1>4. QED BY <1>1, <1>3 DEF UnionInv

(* What is there stays as it is, what is new is a clone. *)
OnlyClonesCome ==
  /\ \A x \in Live(heap) : Kept(x) /\ copy'[x] = copy[x]
  /\ \A x \in Live(heap') \ Live(heap) : copy'[x] # NULL

LEMMA ClonesLeaveMerge ==
  ASSUME UnionTurn, OnlyClonesCome
  PROVE  MergeUntouched
<1>1. WellFormed(heap, Owners) /\ Live(heap) \subseteq Node
  BY CopyTurnFacts DEF UnionTurn, Live
<1>2. \A x \in Node : Kids(heap, x) \subseteq Live(heap)
  BY <1>1, WellFormedTypes
<1>3. ASSUME NEW q \in merged PROVE StaysMerged(q)
  <2>1. q[1] \in Live(heap)
    BY UnionTurnFacts DEF Live
  <2>2. QED BY <1>1, <1>2, <2>1 DEF OnlyClonesCome, StaysMerged
<1>4. ASSUME NEW n \in Live(heap') \ Firsts', copy'[n] = NULL
      PROVE  /\ n \in Live(heap) /\ copy[n] = NULL /\ Kept(n)
             /\ \A x \in Kids(heap, n) : copy'[x] = copy[x]
  <2>1. n \in Live(heap)
    BY <1>4 DEF OnlyClonesCome
  <2>2. QED BY <1>1, <1>2, <1>4, <2>1 DEF OnlyClonesCome
<1>5. QED BY <1>3, <1>4 DEF MergeUntouched

(* What returns is at its end, or is cut off. *)
LEMMA LastLoop ==
  ASSUME UnionTurn, Top.f = "update" => Cuts, NEW q \in merged, q \notin cut',
         NEW d \in Cells(heap, q[2]), Pop = <<>> \/ PastInAll(Pop, q, d)
  PROVE  Processed(q, d)
<1> DEFINE n == Len(stack)
<1>1. /\ stack \in Seq(Frame) /\ stack # <<>> /\ n \in Nat \ {0} /\ Top = stack[n] /\ Len(Pop) = n - 1
      /\ \A i \in 1..Len(Pop) : Pop[i] = stack[i]
  <2>1. stack \in Seq(Frame) /\ stack # <<>> /\ Top = stack[n]
    BY CopyTurnFacts DEF UnionTurn, CopyTurn
  <2>2. QED BY <2>1, PopFacts DEF Pop
<1>2. q[2] \in Node /\ WellFormed(heap, Owners)
  BY UnionTurnFacts, CopyTurnFacts DEF UnionTurn
<1> SUFFICES ASSUME NEW i \in 1..n, stack[i].f = "update", PairOf(stack[i]) = q
             PROVE  Past(stack[i], d)
  BY DEF Processed
<1>3. CASE i = n
  <2>1. Top.f = "update" /\ PairOf(Top) = q /\ Top.from = q[2]
    BY <1>1, <1>3 DEF PairOf
  <2>2. Top.at = NULL
    BY <2>1 DEF Cuts
  <2>3. Passage(heap, Top.from, NULL) = Len(heap.chain[q[2]])
    BY <2>1 DEF Passage
  <2>4. PlaceOf(heap, Top.from, d) \in 1..Len(heap.chain[q[2]])
    BY <1>2, <2>1, WellFormedTypes, NextCellFacts
  <2>5. Len(heap.chain[q[2]]) \in Nat
    BY <1>2, WellFormedTypes, LenProperties
  <2>6. QED BY <1>1, <1>3, <2>2, <2>3, <2>4, <2>5 DEF Past
<1>4. CASE i # n
  <2>1. i \in 1..Len(Pop)
    BY <1>1, <1>4
  <2>2. Pop # <<>>
    BY <2>1, EmptyStack
  <2>3. QED BY <1>1, <2>1, <2>2 DEF PastInAll
<1>5. QED BY <1>3, <1>4

LEMMA HeapSameOnly ==
  ASSUME UnionTurn, UNCHANGED <<heap, load, copy>>
  PROVE  MergeUntouched
<1>1. \A x \in Live(heap) : x \in Node
  BY DEF Live
<1>2. OnlyClonesCome
  BY <1>1, KeptWhenSame DEF OnlyClonesCome, UnionTurn, CopyTurn
<1>3. QED BY <1>2, ClonesLeaveMerge

LEMMA SkipsUnion ==
  ASSUME UnionTurn, Skips
  PROVE  UnionInv'
<1>1. /\ MergeInv /\ stack # <<>> /\ ~stale /\ stack \in Seq(Frame) /\ WellFormed(heap, Owners)
      /\ Top = stack[Len(stack)] /\ Top.at \in Cells(heap, Top.from) /\ heap.val[Top.at] = NULL
      /\ UNCHANGED <<load, copy, merged, cut>>
  BY CopyTurnFacts DEF UnionTurn, CopyTurn, Skips
<1>2. /\ heap' = heap /\ SameCalls(stack, stack')
      /\ stack'[Len(stack)].at = NextCell(heap, Top.from, Top.at)
  <2> DEFINE s == stack
  <2>1. s = stack /\ s[Len(s)].at # NULL /\ GoOn(heap, s)
    BY <1>1 DEF Skips
  <2> HIDE DEF s
  <2>2. /\ heap' = heap /\ SameCalls(s, stack')
        /\ stack'[Len(s)].at = NextCell(heap, s[Len(s)].from, s[Len(s)].at)
    BY <1>1, <2>1, QuietTurn
  <2>3. QED BY <1>1, <2>1, <2>2
<1>3. MergeUntouched
  BY <1>1, <1>2, HeapSameOnly
<1>4. ASSUME NEW q \in merged, NEW d \in Cells(heap, q[2])
      PROVE  /\ Processed(q, d) => Processed(q, d)'
             /\ Visited(q, d) => Visited(q, d)'
             /\ Processed(q, d)' /\ heap.val[d] # NULL => Processed(q, d)
  <2> PICK s, F : s = stack /\ F = Top
    OBVIOUS
  <2>1. /\ s \in Seq(Frame) /\ s # <<>> /\ SameCalls(s, stack') /\ F = s[Len(s)]
        /\ F.at \in Cells(heap, F.from) /\ stack'[Len(s)].at = NextCell(heap', F.from, F.at)
    BY <1>1, <1>2
  <2>2. q[2] \in Node /\ Kept(q[2])
    BY UnionTurnFacts
  <2>3. /\ Processed(q, d) => Processed(q, d)'
        /\ Visited(q, d) => Visited(q, d)'
        /\ Processed(q, d)' => d = F.at \/ PastInAll(s, q, d)
    BY <1>1, <2>1, <2>2, PassedOn
  <2>4. PastInAll(s, q, d) => Processed(q, d)
    BY DEF PastInAll, Processed
  <2>5. QED BY <1>1, <2>3, <2>4
<1>5. LoopsMove
  BY <1>4 DEF LoopsMove, LoopMoves
<1>6. QED BY <1>1, <1>3, <1>5, UnionStays

LEMMA ReturnsUnion ==
  ASSUME UnionTurn, Returns
  PROVE  UnionInv'
<1>1. /\ MergeInv /\ stack # <<>> /\ ~stale /\ stack \in Seq(Frame) /\ WellFormed(heap, Owners)
      /\ Top = stack[Len(stack)] /\ Len(stack) \in 1..Len(stack)
      /\ UNCHANGED <<load, copy, merged>> /\ cut \subseteq cut'
      /\ Top.f = "update" /\ Cuts /\ Pop # <<>>
  BY CopyTurnFacts DEF UnionTurn, CopyTurn, Returns, Cuts
<1> PICK s, F : s = Pop /\ F = Pop[Len(Pop)]
  OBVIOUS
<1>2. /\ s \in Seq(Frame) /\ s # <<>> /\ F = s[Len(s)] /\ F \in Frame /\ F.to \in Node /\ F.from \in Node
      /\ FrameOK(heap, F, Tops(stack)) /\ F.at # NULL /\ LinkOK(heap, F, Top)
  BY <1>1, AtPop
<1>3. F.at \in Cells(heap, F.from)
  BY <1>2 DEF FrameOK
<1>4. /\ heap' = heap /\ SameCalls(s, stack')
      /\ stack'[Len(s)].at = NextCell(heap, F.from, F.at)
  <2>1. s = Pop /\ GoOn(heap, s) /\ s[Len(s)].at # NULL
    BY <1>2 DEF Returns
  <2>2. QED BY <1>1, <1>2, <2>1, QuietTurn
<1>5. MergeUntouched
  BY <1>1, <1>4, HeapSameOnly
<1>6. F.f = "update" => Has(PairOf(F), F.at)
  <2> SUFFICES ASSUME F.f = "update" PROVE Has(PairOf(F), F.at)
    OBVIOUS
  <2>1. /\ F.slot \in Found(heap, F.to, NameAt(heap, F.at)) /\ F.slot # NULL
        /\ heap.val[F.slot] = Top.to /\ heap.val[F.at] = Top.from
    BY <1>1, <1>2 DEF LinkOK
  <2>2. F.slot \in Cells(heap, F.to) /\ heap.key[F.slot] = NameAt(heap, F.at)
    BY <2>1 DEF Found, Matches
  <2>3. PairOf(Top) \in merged
    BY <1>1, UnionTurnFacts
  <2>4. <<heap.val[F.slot], heap.val[F.at]>> \in merged
    BY <2>1, <2>3 DEF PairOf
  <2>5. QED BY <2>2, <2>4 DEF Has, PairOf
<1>7. ASSUME NEW q \in merged, NEW d \in Cells(heap, q[2])
      PROVE  /\ Processed(q, d) => Processed(q, d)'
             /\ Visited(q, d) => Visited(q, d)'
             /\ Processed(q, d)' /\ q \notin cut' => Processed(q, d) \/ Has(q, d)
  <2>1. F.at \in Cells(heap, F.from) /\ stack'[Len(s)].at = NextCell(heap', F.from, F.at)
    BY <1>3, <1>4
  <2>2. q[2] \in Node /\ Kept(q[2])
    BY UnionTurnFacts
  <2>3. /\ Processed(q, d) => Processed(q, d)'
        /\ Visited(q, d) => Visited(q, d)'
        /\ Processed(q, d)' => \/ F.f = "update" /\ q = PairOf(F) /\ d = F.at
                               \/ PastInAll(s, q, d)
    BY <1>1, <1>2, <1>4, <2>1, <2>2, PassedOn
  <2>4. q \notin cut' /\ PastInAll(Pop, q, d) => Processed(q, d)
    BY <1>1, LastLoop
  <2>5. QED BY <1>6, <2>3, <2>4
<1>8. LoopsMove
  BY <1>7 DEF LoopsMove, LoopMoves
<1>9. QED BY <1>1, <1>5, <1>8, UnionStays

LEMMA EndsUnion ==
  ASSUME UnionTurn, Ends
  PROVE  UnionInv'
<1>1. /\ UNCHANGED <<heap, load, copy, merged>> /\ cut \subseteq cut' /\ stack' = <<>> /\ Pop = <<>>
      /\ Top.f = "update" => Cuts
  BY DEF Ends, Cuts
<1>2. MergeUntouched
  BY <1>1, HeapSameOnly
<1>3. Len(stack') = 0
  BY <1>1, EmptyStack
<1>4. ASSUME NEW q \in merged, NEW d \in Cells(heap, q[2])
      PROVE  /\ Processed(q, d)' /\ Visited(q, d)'
             /\ q \notin cut' => Processed(q, d)
  <2>1. Processed(q, d)' /\ Visited(q, d)'
    BY <1>3 DEF Processed, Visited
  <2>2. QED BY <1>1, <2>1, LastLoop
<1>5. LoopsMove
  BY <1>4 DEF LoopsMove, LoopMoves
<1>6. QED BY <1>1, <1>2, <1>5, UnionStays

(* A call is made, but not of pt_map_update with the pair q. *)
LEMMA PushedOn ==
  ASSUME NEW R, WellFormed(heap, R), stack \in Seq(Frame), stack # <<>>, NEW s \in Seq(Frame),
         SameCalls(stack, s), s[Len(stack)].at = Top.at, NEW G \in Frame, stack' = Append(s, G),
         NEW q, G.f = "update" => PairOf(G) # q,
         q[2] \in Node, Kept(q[2]), NEW d \in Cells(heap, q[2])
  PROVE  /\ Processed(q, d)' <=> Processed(q, d)
         /\ Visited(q, d) => Visited(q, d)'
         /\ d = Top.at /\ (\A i \in 1..(Len(stack) - 1) :
              ~(stack[i].f = "update" /\ PairOf(stack[i]) = q)) => Visited(q, d)'
<1> DEFINE n == Len(stack)
<1>1. /\ n \in Nat \ {0} /\ n \in 1..n /\ Top = stack[n] /\ Len(s) = n
      /\ Len(stack') = n + 1 /\ stack'[n + 1] = G /\ \A i \in 1..n : stack'[i] = s[i]
  <2>1. n \in Nat \ {0} /\ n \in 1..n /\ Top = stack[n] /\ Len(s) = n
    BY LenProperties, EmptySeq DEF Top, SameCalls
  <2>2. Len(stack') = Len(s) + 1 /\ stack'[Len(s) + 1] = G /\ \A i \in 1..Len(s) : stack'[i] = s[i]
    BY PushFacts
  <2>3. QED BY <2>1, <2>2
<1>2. ASSUME NEW i \in 1..n, NEW H, H = stack'[i]
      PROVE  /\ H.f = stack[i].f /\ PairOf(H) = PairOf(stack[i]) /\ H.at = stack[i].at
             /\ PairOf(H) = q => (Past(H, d)' <=> Past(stack[i], d))
  <2>1. H.f = stack[i].f /\ H.to = stack[i].to /\ H.from = stack[i].from
    BY <1>1, <1>2 DEF SameCalls
  <2>2. H.at = stack[i].at
    <3>1. CASE i = n
      BY <1>1, <1>2, <3>1
    <3>2. CASE i # n
      <4>1. i \in 1..(n - 1)
        BY <1>1, <3>2
      <4>2. QED BY <1>1, <1>2, <4>1 DEF SameCalls
    <3>3. QED BY <3>1, <3>2
  <2>3. ASSUME PairOf(H) = q PROVE Past(H, d)' <=> Past(stack[i], d)
    <3> PICK F : F = stack[i]
      OBVIOUS
    <3>1. H.from = q[2]
      BY <2>3 DEF PairOf
    <3>2. F.from \in Node /\ Kept(F.from) /\ d \in Cells(heap, F.from) /\ H.from = F.from /\ H.at = F.at
      BY <2>1, <2>2, <3>1
    <3>3. Past(H, d)' <=> Past(F, d)
      BY <3>2, PastMoves
    <3>4. QED BY <3>3
  <2>4. QED BY <2>1, <2>2, <2>3 DEF PairOf
<1>3. ASSUME NEW i \in 1..Len(stack'), NEW H, H = stack'[i], H.f = "update", PairOf(H) = q
      PROVE  i \in 1..n /\ i < Len(stack')
  <2>1. i # n + 1
    BY <1>1, <1>3
  <2>2. QED BY <1>1, <2>1
<1>4. ASSUME Processed(q, d) PROVE Processed(q, d)'
  <2> SUFFICES ASSUME NEW i \in 1..Len(stack'), NEW H, H = stack'[i], H.f = "update", PairOf(H) = q
               PROVE  Past(H, d)'
    BY DEF Processed, PairOf
  <2>1. i \in 1..n
    BY <1>3
  <2>2. QED BY <1>2, <1>4, <2>1 DEF Processed
<1>5. ASSUME Processed(q, d)' PROVE Processed(q, d)
  <2> SUFFICES ASSUME NEW i \in 1..n, stack[i].f = "update", PairOf(stack[i]) = q
               PROVE  Past(stack[i], d)
    BY DEF Processed
  <2> PICK H : H = stack'[i]
    OBVIOUS
  <2>1. i \in 1..Len(stack')
    BY <1>1
  <2>2. (stack[i].f = "update" /\ PairOf(stack[i]) = q => Past(stack[i], d))'
    BY <1>5, <2>1 DEF Processed
  <2>3. H.f = "update" /\ PairOf(H) = q
    BY <1>2
  <2>4. Past(H, d)'
    BY <2>2, <2>3 DEF PairOf
  <2>5. QED BY <1>2, <2>3, <2>4
<1>6. ASSUME \/ Visited(q, d)
             \/ d = Top.at /\ \A i \in 1..(n - 1) : ~(stack[i].f = "update" /\ PairOf(stack[i]) = q)
      PROVE  Visited(q, d)'
  <2> SUFFICES ASSUME NEW i \in 1..Len(stack'), NEW H, H = stack'[i], H.f = "update", PairOf(H) = q
               PROVE  Past(H, d)' \/ (i < Len(stack') /\ d = H.at)
    BY DEF Visited, PairOf
  <2>1. i \in 1..n /\ i < Len(stack')
    BY <1>3
  <2>2. stack[i].f = "update" /\ PairOf(stack[i]) = q /\ H.at = stack[i].at
    BY <1>2, <2>1
  <2>3. CASE Visited(q, d)
    <3>1. Past(stack[i], d) \/ d = stack[i].at
      BY <2>1, <2>2, <2>3 DEF Visited
    <3>2. QED BY <1>2, <2>1, <2>2, <3>1
  <2>4. CASE d = Top.at /\ \A j \in 1..(n - 1) : ~(stack[j].f = "update" /\ PairOf(stack[j]) = q)
    <3>1. i \notin 1..(n - 1)
      BY <2>2, <2>4
    <3>2. i = n
      BY <1>1, <2>1, <3>1
    <3>3. QED BY <1>1, <2>1, <2>2, <2>4, <3>2
  <2>5. QED BY <1>6, <2>3, <2>4
<1>7. QED BY <1>4, <1>5, <1>6

LEMMA ClonesUnion ==
  ASSUME UnionTurn, NEW s, Clones(s)
  PROVE  UnionInv'
<1> PICK n : n = heap.val[Top.at]
  OBVIOUS
<1>1. /\ MergeInv /\ stack # <<>> /\ ~stale /\ stack \in Seq(Frame) /\ WellFormed(heap, Owners)
      /\ copy \in [Node -> Node \cup {NULL}] /\ load \in [Node -> Load]
      /\ merged' = merged /\ cut' = cut
      /\ SameCalls(stack, s) /\ s[Len(s)].at = Top.at
  BY CopyTurnFacts DEF UnionTurn, CopyTurn, Clones, MergeInv, MergeTypeOK
<1>2. n \in Live(heap)
  BY <1>1, CloneLeaves
<1>3. PICK m \in FreshNodes(heap) : Cloned(Owners, s, n, copy, m) /\ \A x \in Node \ {m} : Kept(x)
  BY <1>1, CloneLeaves
<1>4. /\ \A x \in Node \ {m} : Kept(x)
      /\ copy' = [copy EXCEPT ![m] = n]
      /\ m \in Node /\ m \notin Live(heap) /\ Live(heap') = Live(heap) \cup {m}
  <2>1. heap.type[n] \in NodeType
    BY <1>1, <1>2, WellFormedTypes DEF Live, Heap
  <2>2. m \in Node /\ m \notin Live(heap) /\ Live(heap') = Live(heap) \cup {m}
    BY <1>1, <1>3, <2>1, NewNodeEffect DEF Cloned
  <2>3. QED BY <1>3, <2>2 DEF Cloned
<1>5. MergeUntouched
  <2>1. n # NULL
    BY <1>2, AddressAssumption DEF Live
  <2>2. copy'[m] = n /\ \A x \in Node \ {m} : copy'[x] = copy[x]
    BY <1>1, <1>4
  <2>3. OnlyClonesCome
    BY <1>4, <2>1, <2>2 DEF OnlyClonesCome, Live
  <2>4. QED BY <2>3, ClonesLeaveMerge
<1>6. ASSUME NEW q \in merged, NEW d \in Cells(heap, q[2])
      PROVE  (Processed(q, d)' <=> Processed(q, d)) /\ (Visited(q, d) => Visited(q, d)')
  <2> PICK G : G = CloneFrame(m, n)
    OBVIOUS
  <2>1. G \in Frame /\ stack' = Append(s, G) /\ G.f = "clone"
    BY <1>3 DEF Cloned, CloneFrame
  <2>2. q[2] \in Node /\ Kept(q[2])
    BY UnionTurnFacts
  <2>3. s \in Seq(Frame) /\ s[Len(stack)].at = Top.at
    BY <1>1 DEF SameCalls
  <2>4. QED BY <1>1, <2>1, <2>2, <2>3, PushedOn
<1>7. LoopsMove
  BY <1>6 DEF LoopsMove, LoopMoves
<1>8. QED BY <1>1, <1>5, <1>7, UnionStays

(* A loop has not got past the cell it is at. *)
LEMMA NotPastItself ==
  ASSUME NEW R, WellFormed(heap, R), NEW F, F.from \in Node, F.at \in Cells(heap, F.from)
  PROVE  ~Past(F, F.at)
<1>1. Passage(heap, F.from, F.at) + 1 \in 1..Len(heap.chain[F.from]) /\ F.at # NULL
  BY WellFormedTypes, PassageFacts
<1>2. Passage(heap, F.from, F.at) = PlaceOf(heap, F.from, F.at) - 1
  BY <1>1 DEF Passage
<1>3. PlaceOf(heap, F.from, F.at) \in 1..Len(heap.chain[F.from])
  BY WellFormedTypes, NextCellFacts
<1>4. QED BY <1>2, <1>3 DEF Past

(* What pt_map_update goes down to was there before the call, and it is the first
   time that it does.                                                            *)
LEMMA NestedIsNew ==
  ASSUME UnionTurn, Top.f = "update", Top.at \in Cells(heap, Top.from),
         NEW c \in Cells(heap, Top.to), heap.key[c] = NameAt(heap, Top.at),
         NEW r, r = heap.val[c], r # NULL
  PROVE  r \in was.root /\ copy[r] = NULL /\ r \in Node /\ r \notin Firsts
<1> DEFINE n == Len(stack)
<1> PICK P : P = PairOf(Top)
  OBVIOUS
<1>1. /\ MergeInv /\ stack # <<>> /\ ~stale /\ stack \in Seq(Frame) /\ WellFormed(heap, Owners)
      /\ Top = stack[n] /\ Top.to \in Node /\ Top.from \in Node /\ n \in Nat \ {0} /\ n \in 1..n
      /\ heap \in Heap /\ StackOK(heap, stack)
  BY CopyTurnFacts, AtTop DEF UnionTurn, CopyTurn
<1>2. P \in merged /\ P[1] = Top.to /\ P[2] = Top.from
  BY <1>1, UnionTurnFacts DEF PairOf
<1>3. ~Past(Top, Top.at)
  BY <1>1, NotPastItself
<1>4. ~Processed(P, Top.at) /\ ~Visited(P, Top.at)
  BY <1>1, <1>3 DEF Processed, Visited
<1>5. r \in Kids(heap, Top.to) /\ r \in Node
  BY <1>1, KidsInNode DEF Kids
<1>6. r \in was.root /\ copy[r] = NULL
  <2> PICK m : m = Top.to
    OBVIOUS
  <2>0. m \in Node /\ c \in Cells(heap, m) /\ IsInjective(heap.chain[m])
    BY <1>1, WellFormedTypes
  <2>1. PICK i \in 1..Len(heap.chain[m]) : heap.chain[m][i] = c
    BY <1>1, <2>0, PassageFacts
  <2>2. PairsKept(P)
    BY <1>2, UnionTurnFacts
  <2>3. /\ i <= Len(was.heap.chain[m]) => c = was.heap.chain[m][i]
        /\ Remains(m, i) \/ Added(P, c)
    BY <1>2, <2>1, <2>2 DEF PairsKept
  <2>4. ~Added(P, c)
    <3> SUFFICES ASSUME NEW d \in Cells(heap, P[2]), heap.key[c] = NameAt(heap, d), Processed(P, d)
                 PROVE  FALSE
      BY DEF Added
    <3>1. d = Top.at
      BY <1>2, UnionTurnFacts
    <3>2. QED BY <1>4, <3>1
  <2>5. i <= Len(was.heap.chain[m]) /\ r = was.heap.val[c] /\ copy[r] = NULL
    BY <2>1, <2>3, <2>4 DEF Remains
  <2>6. m \in was.root /\ was.heap \in Heap /\ Closed(was.heap, was.root) /\ m \in Node
    BY <1>1, <1>2, UnionTurnFacts DEF MergedMaps, UnionTurn, CopyTurn, RestInv, WasOK
  <2>7. c \in Cells(was.heap, m)
    <3>1. was.heap.chain[m] \in Seq(Cell)
      BY <2>6 DEF Heap
    <3>2. i \in 1..Len(was.heap.chain[m])
      BY <2>1, <2>5, <3>1, LenProperties
    <3>3. QED BY <2>3, <2>5, <3>1, <3>2, ToSetDef DEF Cells
  <2>8. r \in Kids(was.heap, m)
    BY <2>5, <2>7 DEF Kids
  <2>9. QED BY <2>5, <2>6, <2>8 DEF Closed
<1>7. r # call.root
  <2> SUFFICES ASSUME r = call.root PROVE FALSE
    OBVIOUS
  <2>1. 1 \in 1..n /\ stack[1].f = "update" /\ stack[1].to = r
    BY <1>1, <1>2, UnionTurnFacts
  <2>2. Top.to \in Tree(heap, r)
    <3>1. CASE n = 1
      BY <1>1, <1>5, <2>1, <3>1, TreeFacts
    <3>2. CASE n # 1
      <4>1. 1 < n
        <5>1. n \in Nat \ {0}
          BY <1>1
        <5> HIDE DEF n
        <5>2. QED BY <3>2, <5>1
      <4>2. PairOK(heap, stack[1], stack[n])
        BY <1>1, <2>1, <4>1 DEF StackOK
      <4>3. QED BY <1>1, <2>1, <4>2 DEF PairOK
    <3>3. QED BY <3>1, <3>2
  <2>3. Top.to \notin Hung(heap, c)
    BY <1>1, NotInHung
  <2>4. QED BY <2>2, <2>3 DEF Hung
<1>8. ASSUME NEW q \in merged, q[1] = r PROVE FALSE
  <2>1. q # <<call.root, call.from>> /\ Placed(q)
    BY <1>7, <1>8, UnionTurnFacts
  <2>2. PICK p \in merged : \E e \in Cells(heap, p[1]), d \in Cells(heap, p[2]) :
          heap.key[e] = NameAt(heap, d) /\ heap.val[e] = q[1] /\ heap.val[d] = q[2] /\ Visited(p, d)
    BY <2>1 DEF Placed
  <2>3. PICK e \in Cells(heap, p[1]), d \in Cells(heap, p[2]) :
          heap.key[e] = NameAt(heap, d) /\ heap.val[e] = q[1] /\ Visited(p, d)
    BY <2>2
  <2>4. p[1] \in Node /\ r \in Kids(heap, p[1]) /\ NoDangling(heap) /\ OneOwner(heap, Owners)
    BY <1>1, <1>8, <2>3, UnionTurnFacts, WellFormedParts DEF Kids
  <2>5. p[1] = Top.to
    BY <1>1, <1>5, <2>4, UniqueParent
  <2>6. p = P
    BY <1>2, <2>5, UnionTurnFacts DEF MergedMaps
  <2>7. e = c
    <3>1. e \in heap.cells /\ c \in heap.cells
      BY <1>1, <2>3, <2>4, WellFormedTypes
    <3>2. heap.val[e] = heap.val[c] /\ heap.val[e] # NULL
      BY <1>8, <2>3
    <3>3. QED BY <2>4, <3>1, <3>2 DEF OneOwner
  <2>8. d = Top.at
    BY <1>2, <2>3, <2>6, <2>7, UnionTurnFacts
  <2>9. QED BY <1>4, <2>3, <2>6, <2>8
<1>9. QED BY <1>5, <1>6, <1>8 DEF Firsts

LEMMA UntouchedPairs ==
  ASSUME NEW R, WellFormed(heap, R), heap' = heap, NEW q, q[1] \in Node,
         Untouched(q[1])', \A x \in Kids(heap, q[1]) : copy'[x] = NULL
  PROVE  PairsKept(q)'
<1> PICK s : s = heap.chain[q[1]]
  OBVIOUS
<1>1. was'.heap.chain[q[1]] = s /\ Cells(was'.heap, q[1]) = Cells(heap, q[1])
  BY DEF Untouched, Cells
<1>2. Len(s) \in Nat /\ \A i \in 1..Len(s) : s[i] \in Cells(heap, q[1])
  <2>1. IsInjective(heap.chain[q[1]]) /\ heap \in Heap
    BY WellFormedTypes
  <2>2. QED BY <2>1, PassageFacts
<1>3. \A c \in Cells(heap, q[1]) : heap'.key[c] = was'.heap.key[c] /\ heap'.val[c] = was'.heap.val[c]
  BY <1>1 DEF Untouched
<1>4. ASSUME NEW i \in 1..Len(s)
      PROVE  /\ heap'.key[s[i]] = was'.heap.key[s[i]] /\ heap'.val[s[i]] = was'.heap.val[s[i]]
             /\ i <= Len(s) /\ (heap'.val[s[i]] # NULL => copy'[heap'.val[s[i]]] = NULL)
  <2>1. s[i] \in Cells(heap, q[1]) /\ i <= Len(s)
    BY <1>2
  <2>2. heap.val[s[i]] # NULL => heap.val[s[i]] \in Kids(heap, q[1])
    BY <2>1 DEF Kids
  <2>3. QED BY <1>3, <2>1, <2>2
<1>5. heap'.chain[q[1]] = s
  OBVIOUS
<1>6. ASSUME NEW i \in 1..Len(s) PROVE Remains(q[1], i)'
  BY <1>1, <1>4, <1>5 DEF Remains
<1>7. Len(s) <= Len(s)
  BY <1>2
<1>8. QED BY <1>1, <1>4, <1>5, <1>6, <1>7 DEF PairsKept

LEMMA NestedUnion ==
  ASSUME UnionTurn, UpdateNested
  PROVE  UnionInv'
<1> DEFINE n == Len(stack)
<1>1. /\ MergeInv /\ stack # <<>> /\ stack \in Seq(Frame) /\ WellFormed(heap, Owners)
      /\ Top = stack[n] /\ n \in Nat \ {0} /\ n \in 1..n /\ RestInv /\ Apart
      /\ was' = was /\ call' = call /\ heap \in Heap
      /\ UNCHANGED <<heap, load, copy, cut>> /\ Top.from \in was.from
      /\ MergedMaps /\ OthersKept
  BY CopyTurnFacts, UnionTurnFacts DEF UnionTurn, CopyTurn, UpdateNested
<1>2. PICK c \in Matches(heap, Top.to, NameAt(heap, Top.at)) :
        LET s == [stack EXCEPT ![n].slot = c]
            r == heap.val[c]
            a == heap.val[Top.at]
        IN  /\ Top.f = "update" /\ Top.at \in Cells(heap, Top.from) /\ c \in Cells(heap, Top.to)
            /\ SameCalls(stack, s) /\ s \in Seq(Frame)
            /\ r \in Live(heap) /\ a \in Live(heap)
            /\ heap.type[r] = "MAP" /\ heap.type[a] = "MAP" /\ a \in Kids(heap, Top.from)
            /\ UpdateFrame(r, a) \in Frame /\ stack' = Append(s, UpdateFrame(r, a))
            /\ merged' = merged \cup {<<r, a>>} /\ s[n].at = Top.at
  BY <1>1, NestedCalled
<1> PICK r, a, d : r = heap.val[c] /\ a = heap.val[Top.at] /\ d = Top.at
  OBVIOUS
<1> PICK G, q0, s : G = UpdateFrame(r, a) /\ q0 = <<r, a>> /\ s = [stack EXCEPT ![n].slot = c]
  OBVIOUS
<1>3. /\ Top.f = "update" /\ d \in Cells(heap, Top.from) /\ c \in Cells(heap, Top.to)
      /\ heap.key[c] = NameAt(heap, d)
      /\ SameCalls(stack, s) /\ s \in Seq(Frame) /\ s[n].at = d
      /\ r \in Live(heap) /\ r \in Node /\ r # NULL /\ a \in Node /\ a \in Live(heap)
      /\ heap.type[r] = "MAP" /\ heap.type[a] = "MAP" /\ a \in Kids(heap, Top.from)
      /\ G \in Frame /\ stack' = Append(s, G) /\ merged' = merged \cup {q0}
  BY <1>2, AddressAssumption DEF Matches, Live
<1>4. /\ G.f = "update" /\ PairOf(G) = q0 /\ G.from = a /\ G.at = FirstCell(heap, a)
      /\ q0[1] = r /\ q0[2] = a
  BY DEF UpdateFrame, PairOf
<1>5. r \in was.root /\ copy[r] = NULL /\ r \notin Firsts
  BY <1>3, NestedIsNew
<1>6. a \in was.from /\ Untouched(a)
  BY <1>1, <1>3, FromFacts
<1>7. q0 \notin merged
  BY <1>4, <1>5 DEF Firsts
<1>8. MergeUntouched
  BY <1>1, HeapSameOnly
<1>9. ASSUME NEW q \in merged, NEW e \in Cells(heap, q[2])
      PROVE  /\ Processed(q, e)' <=> Processed(q, e)
             /\ Visited(q, e) => Visited(q, e)'
             /\ e = d /\ (\A i \in 1..(Len(stack) - 1) :
                            ~(stack[i].f = "update" /\ PairOf(stack[i]) = q)) => Visited(q, e)'
  <2>1. PairOf(G) # q /\ q[2] \in Node /\ Kept(q[2])
    BY <1>4, <1>7, UnionTurnFacts
  <2>2. QED BY <1>1, <1>3, <2>1, PushedOn
<1>10. LoopsMove
  BY <1>9 DEF LoopsMove, LoopMoves
<1>11. /\ OthersKept'
       /\ \A q \in merged :
            /\ heap'.type[q[1]] = "MAP" /\ heap'.type[q[2]] = "MAP" /\ copy'[q[1]] = NULL
            /\ Placed(q)' /\ PairsKept(q)' /\ (q \notin cut' => Joined(q)')
  BY <1>1, <1>3, <1>8, <1>10, OldPairsStay
<1>12. Placed(q0)'
  <2> PICK p : p = PairOf(Top)
    OBVIOUS
  <2>1. p \in merged /\ p[1] = Top.to /\ p[2] = Top.from
    BY <1>1, <1>3, UnionTurnFacts DEF PairOf
  <2>2. \A i \in 1..(n - 1) : ~(stack[i].f = "update" /\ PairOf(stack[i]) = p)
    <3>1. \A i \in 1..(n - 1) : i \in 1..n /\ i # n
      <4> HIDE DEF n
      <4>1. QED BY <1>1
    <3>2. QED BY <1>1, <1>3, <3>1, UnionTurnFacts
  <2>3. Visited(p, d)'
    BY <1>3, <1>9, <2>1, <2>2
  <2>4. /\ c \in Cells(heap', p[1]) /\ d \in Cells(heap', p[2]) /\ p \in merged'
        /\ heap'.key[c] = NameAt(heap', d) /\ heap'.val[c] = q0[1] /\ heap'.val[d] = q0[2]
    BY <1>1, <1>3, <1>4, <2>1
  <2>5. QED BY <2>3, <2>4 DEF Placed
<1>13. PairsKept(q0)'
  <2>1. Untouched(r) /\ \A x \in Kids(heap, r) : copy[x] = NULL
    BY <1>1, <1>3, <1>5 DEF OthersKept
  <2>2. heap' = heap /\ q0[1] \in Node /\ Untouched(q0[1])'
        /\ \A x \in Kids(heap, q0[1]) : copy'[x] = NULL
    BY <1>1, <1>3, <1>4, <2>1 DEF Untouched
  <2>3. QED BY <1>1, <2>2, UntouchedPairs
<1>14. Joined(q0)'
  <2> SUFFICES ASSUME NEW e \in Cells(heap', a), Processed(q0, e)' PROVE FALSE
    BY <1>4 DEF Joined
  <2> PICK k : k = n + 1
    OBVIOUS
  <2>1. k \in 1..Len(stack') /\ stack'[k] = G
    <3>1. Len(s) = n
      BY <1>3 DEF SameCalls
    <3>2. Len(stack') = Len(s) + 1 /\ stack'[Len(s) + 1] = G
      BY <1>3, PushFacts
    <3>3. QED BY <1>1, <3>1, <3>2
  <2>2. Past(G, e)'
    <3>1. (stack[k].f = "update" /\ PairOf(stack[k]) = q0 => Past(stack[k], e))'
      BY <2>1 DEF Processed
    <3>2. QED BY <1>4, <2>1, <3>1 DEF PairOf
  <2>3. heap' = heap
    BY <1>1
  <2>4. Passage(heap, a, FirstCell(heap, a)) = 0
    BY <1>1, <1>3, WellFormedTypes, PassageFacts
  <2>5. PlaceOf(heap, a, e) \in 1..Len(heap.chain[a])
    BY <1>1, <1>3, <2>3, NextCellFacts
  <2>6. PlaceOf(heap, a, e) <= 0
    BY <1>4, <2>2, <2>3, <2>4 DEF Past
  <2>7. QED BY <2>5, <2>6
<1>15. MergedMaps'
  <2>1. \A q \in merged' : q \in merged \/ q = q0
    BY <1>3
  <2>2. merged # {} => call.f = "update"
    BY <1>1 DEF MergedMaps
  <2>3. merged # {}
    BY <1>1, <1>3, UnionTurnFacts
  <2>4. \A q \in merged : q[1] \in was.root /\ q[2] \in was.from /\ q[1] # r
    BY <1>1, <1>5 DEF MergedMaps, Firsts
  <2>5. \A q, p \in merged : q[1] = p[1] => q = p
    BY <1>1 DEF MergedMaps
  <2>6. \A q, p \in merged' : q[1] = p[1] => q = p
    BY <1>4, <2>1, <2>4, <2>5
  <2>7. ASSUME NEW q \in merged'
        PROVE  /\ q[1] \in was'.root /\ q[2] \in was'.from
               /\ heap'.type[q[1]] = "MAP" /\ heap'.type[q[2]] = "MAP" /\ copy'[q[1]] = NULL
    <3>1. CASE q \in merged
      BY <1>1, <1>11, <2>4, <3>1
    <3>2. CASE q = q0
      BY <1>1, <1>3, <1>4, <1>5, <1>6, <3>2
    <3>3. QED BY <2>1, <3>1, <3>2
  <2>8. QED BY <1>1, <2>2, <2>3, <2>6, <2>7 DEF MergedMaps
<1>16. QED BY <1>3, <1>11, <1>12, <1>13, <1>14, <1>15 DEF UnionInv

LEMMA UnionFillFacts ==
  ASSUME UnionTurn, NEW s, NEW v, NEW h, Fills(s, v, h), NEW F, F = s[Len(s)]
  PROVE  /\ s \in Seq(Frame) /\ s # <<>> /\ SameCalls(s, stack') /\ (s = stack \/ s = Pop)
         /\ UNCHANGED <<load, copy, merged, cut>> /\ Top.f = "clone" /\ Writes(s, v) /\ F.at # NULL
         /\ F \in Frame /\ F.to \in Node /\ F.from \in Node /\ F.from \in was.from
         /\ F.at \in Cells(heap, F.from) /\ stack'[Len(s)].at = NextCell(heap', F.from, F.at)
         /\ F.f = "clone" => F.to \in Tops(stack) /\ copy[F.to] # NULL
         /\ F.f = "update" => /\ PairOf(F) \in merged /\ s = Pop /\ Pop # <<>>
                              /\ copy[v] = heap.val[F.at] /\ v # NULL /\ heap.val[F.at] # NULL
         /\ \E c \in Cell : /\ Wrote(heap, heap', F.to, c, v) /\ PutAt(heap', F, c)
                            /\ \A x \in Node \ Hung(heap, c) : x # F.to => Kept(x)
<1> PICK n : n = Len(s)
  OBVIOUS
<1>0. /\ MergeInv /\ stack # <<>> /\ ~stale /\ ~stale'
      /\ UNCHANGED <<load, copy, merged, cut>> /\ Writes(s, v) /\ F.at # NULL
  BY DEF UnionTurn, CopyTurn, Fills
<1>1. /\ Top = stack[Len(stack)] /\ Len(stack) \in 1..Len(stack) /\ stack \in Seq(Frame)
      /\ Top.from \in was.from /\ CopyFrameOK(Top) /\ Top.to \in Node /\ Filling = Tops(stack)
      /\ \A i \in was.from : i \in Node
      /\ \A i \in 1..Len(stack) :
           /\ CopyFrameOK(stack[i]) /\ stack[i].from \in was.from
           /\ stack[i].at \in Cells(heap, stack[i].from) \cup {NULL}
           /\ stack[i].f = "clone" => stack[i].to \in Filling
           /\ stack[i].f = "update" => PairOf(stack[i]) \in merged
  BY CopyTurnFacts, UnionTurnFacts DEF UnionTurn
<1>2. s \in Seq(Frame) /\ s # <<>> /\ F \in Frame /\ F.to \in Node
  BY <1>0, WriterFacts
<1>3. n \in 1..n
  BY <1>2, LenProperties, EmptySeq
<1>4. F = stack[n] /\ n \in 1..Len(stack)
  BY <1>0, <1>3, AtPop DEF Writes
<1>5. heap' = h /\ SameCalls(s, stack')
  BY <1>0, FillLeaves DEF UnionTurn, CopyTurn
<1>6. PICK c \in Cell :
        /\ Wrote(heap, heap', F.to, c, v) /\ PutAt(heap', F, c)
        /\ \A x \in Node \ Hung(heap, c) : x # F.to => Kept(x)
        /\ stack'[n].at = NextCell(heap', F.from, F.at)
  BY <1>0, <1>5, FillLeaves
<1>7. Top.f = "clone" /\ (s = stack \/ s = Pop)
  BY <1>0 DEF Writes
<1>8. /\ CopyFrameOK(F) /\ F.from \in was.from /\ F.from \in Node /\ F.at \in Cells(heap, F.from)
      /\ F.f = "clone" => F.to \in Filling
      /\ F.f = "update" => PairOf(F) \in merged
  BY <1>0, <1>1, <1>4
<1>9. ASSUME F.f = "clone" PROVE copy[F.to] # NULL
  <2>1. copy[F.to] = F.from
    BY <1>8, <1>9 DEF CopyFrameOK, Filled
  <2>2. QED BY <1>8, <2>1, AddressAssumption
<1>10. ASSUME F.f = "update"
       PROVE  s = Pop /\ Pop # <<>> /\ copy[v] = heap.val[F.at] /\ v # NULL /\ heap.val[F.at] # NULL
  <2>1. s = Pop /\ Pop # <<>> /\ v = Top.to
    BY <1>0, <1>1, <1>2, <1>10 DEF Writes
  <2>2. heap.val[F.at] = Top.from
    <3>1. LinkOK(heap, F, Top)
      BY <1>0, <2>1, AtPop
    <3>2. QED BY <3>1 DEF LinkOK
  <2>3. copy[v] = Top.from
    BY <1>1, <1>7, <2>1 DEF CopyFrameOK, Filled
  <2>4. QED BY <1>1, <2>1, <2>2, <2>3, AddressAssumption
<1>11. QED BY <1>0, <1>1, <1>2, <1>5, <1>6, <1>7, <1>8, <1>9, <1>10

(* What is merged is not freed, nor written but by its own loop. *)
LEMMA MergedNotFreed ==
  ASSUME UnionTurn, NEW s, NEW v, NEW h, Fills(s, v, h), NEW F, F = s[Len(s)],
         NEW c \in Cell, Wrote(heap, heap', F.to, c, v), PutAt(heap', F, c), NEW q \in merged
  PROVE  q[1] \notin Hung(heap, c) /\ (F.f = "clone" => q[1] # F.to)
<1>1. /\ MergeInv /\ WellFormed(heap, Owners) /\ heap \in Heap /\ merged \subseteq Node \X Node
      /\ stack # <<>> /\ ~stale /\ stack \in Seq(Frame) /\ StackOK(heap, stack)
      /\ \A p \in merged : Placed(p) /\ heap.type[p[1]] = "MAP" /\ copy[p[1]] = NULL
      /\ stack[1].f = "update" /\ stack[1].to = call.root /\ call.root \in Node
      /\ \A m \in Tops(stack) : call.root \notin Tree(heap, m)
  BY CopyTurnFacts, UnionTurnFacts, AtTop DEF UnionTurn, CopyTurn, MergeInv, MergeTypeOK
<1>2. /\ F.to \in Node /\ F \in Frame /\ Writes(s, v) /\ F.at # NULL /\ heap' = h
      /\ F.f = "clone" => F.to \in Tops(stack) /\ copy[F.to] # NULL
      /\ F.f = "update" => s = Pop /\ Pop # <<>>
  BY UnionFillFacts, FillLeaves DEF UnionTurn, CopyTurn
<1>3. F.f = "clone" \/ F.f = "update"
  BY <1>2 DEF Frame
<1>4. CASE F.f = "clone"
  <2>1. F.to \notin Firsts /\ call.root \notin Tree(heap, F.to)
    BY <1>1, <1>2, <1>4 DEF Firsts
  <2>2. q[1] \notin Tree(heap, F.to)
    BY <1>1, <1>2, <2>1, MergedOutside
  <2>3. F.to \in Tree(heap, F.to) /\ Hung(heap, c) \subseteq Tree(heap, F.to)
    BY <1>1, <1>2, WroteHung, TreeFacts
  <2>4. QED BY <2>2, <2>3
<1>5. CASE F.f = "update"
  <2>1. \/ Hung(heap, c) = {}
        \/ /\ heap.val[c] \in Node /\ heap.type[heap.val[c]] # "MAP"
           /\ Hung(heap, c) = Tree(heap, heap.val[c])
    BY <1>1, <1>2, <1>5, HungIsNoMap
  <2>2. CASE Hung(heap, c) = {}
    BY <1>5, <2>2
  <2>3. CASE Hung(heap, c) # {}
    <3> PICK e : e = heap.val[c]
      OBVIOUS
    <3>1. e \in Node /\ e \notin Firsts /\ Hung(heap, c) = Tree(heap, e)
      BY <1>1, <2>1, <2>3 DEF Firsts
    <3>2. F.to \notin Hung(heap, c)
      BY DEF Wrote
    <3>3. F.to \in Tree(heap, call.root)
      <4>1. /\ Len(Pop) \in Nat \ {0} /\ Pop[Len(Pop)] = stack[Len(Pop)] /\ Len(stack) = Len(Pop) + 1
            /\ F = Pop[Len(Pop)]
        BY <1>1, <1>2, <1>5, AtPop
      <4> PICK n : n = Len(Pop)
        OBVIOUS
      <4>2. F = stack[n] /\ n \in Nat \ {0} /\ Len(stack) = n + 1
        BY <4>1
      <4>3. CASE n = 1
        BY <1>1, <1>2, <4>2, <4>3, TreeFacts
      <4>4. CASE n # 1
        <5>1. 1 \in 1..Len(stack) /\ n \in 1..Len(stack) /\ 1 < n
          BY <4>2, <4>4
        <5>2. PairOK(heap, stack[1], stack[n])
          BY <1>1, <5>1 DEF StackOK
        <5>3. QED BY <1>1, <1>5, <4>2, <5>2 DEF PairOK
      <4>5. QED BY <4>3, <4>4
    <3>4. call.root \notin Tree(heap, e)
      <4> SUFFICES ASSUME call.root \in Tree(heap, e) PROVE FALSE
        OBVIOUS
      <4>1. Tree(heap, call.root) \subseteq Tree(heap, e)
        BY <1>1, <3>1, TreeTransitive
      <4>2. QED BY <3>1, <3>2, <3>3, <4>1
    <3>5. q[1] \notin Tree(heap, e)
      BY <1>1, <3>1, <3>4, MergedOutside
    <3>6. QED BY <1>5, <3>1, <3>5
  <2>4. QED BY <2>2, <2>3
<1>6. QED BY <1>3, <1>4, <1>5

(* the loops, when one puts a value in and goes on *)
LEMMA FillLoops ==
  ASSUME UnionTurn, NEW s, NEW v, NEW h, Fills(s, v, h), NEW F, F = s[Len(s)], NEW q \in merged,
         NEW d \in Cells(heap, q[2])
  PROVE  /\ Processed(q, d) => Processed(q, d)'
         /\ Visited(q, d) => Visited(q, d)'
         /\ Processed(q, d)' /\ q \notin cut' =>
              Processed(q, d) \/ (F.f = "update" /\ q = PairOf(F) /\ d = F.at)
<1>1. /\ s \in Seq(Frame) /\ s # <<>> /\ SameCalls(s, stack') /\ (s = stack \/ s = Pop)
      /\ F.at \in Cells(heap, F.from) /\ stack'[Len(s)].at = NextCell(heap', F.from, F.at)
      /\ Top.f = "clone"
  BY UnionFillFacts
<1>2. WellFormed(heap, Owners) /\ stack \in Seq(Frame) /\ q[2] \in Node /\ Kept(q[2])
  BY CopyTurnFacts, UnionTurnFacts DEF UnionTurn
<1>3. /\ Processed(q, d) => Processed(q, d)'
      /\ Visited(q, d) => Visited(q, d)'
      /\ Processed(q, d)' => \/ F.f = "update" /\ q = PairOf(F) /\ d = F.at
                             \/ PastInAll(s, q, d)
  BY <1>1, <1>2, PassedOn
<1>4. ASSUME PastInAll(s, q, d), q \notin cut' PROVE Processed(q, d)
  <2>1. CASE s = stack
    BY <1>4, <2>1 DEF PastInAll, Processed
  <2>2. CASE s = Pop
    BY <1>1, <1>4, <2>2, LastLoop
  <2>3. QED BY <1>1, <2>1, <2>2
<1>5. QED BY <1>3, <1>4

LEMMA FillsLeaveOthers ==
  ASSUME UnionTurn, NEW s, NEW v, NEW h, Fills(s, v, h), NEW F, F = s[Len(s)],
         NEW c \in Cell, Wrote(heap, heap', F.to, c, v), PutAt(heap', F, c),
         \A x \in Node \ Hung(heap, c) : x # F.to => Kept(x),
         NEW n \in Live(heap') \ Firsts', copy'[n] = NULL
  PROVE  /\ n \in Live(heap) /\ copy[n] = NULL /\ Kept(n)
         /\ \A x \in Kids(heap, n) : copy'[x] = copy[x]
<1>1. /\ UNCHANGED <<copy, merged>> /\ F \in Frame
      /\ F.f = "clone" => copy[F.to] # NULL
      /\ F.f = "update" => PairOf(F) \in merged
  BY UnionFillFacts
<1>2. n \in Node /\ n \notin Hung(heap, c) /\ heap'.type[n] # "FREE"
  BY DEF Live, Wrote
<1>3. n # F.to
  <2>1. F.f = "clone" \/ F.f = "update"
    BY <1>1 DEF Frame
  <2>2. CASE F.f = "clone"
    BY <1>1, <2>2
  <2>3. CASE F.f = "update"
    <3>1. PairOf(F)[1] = F.to /\ PairOf(F) \in merged'
      BY <1>1, <2>3 DEF PairOf
    <3>2. QED BY <3>1 DEF Firsts
  <2>4. QED BY <2>1, <2>2, <2>3
<1>4. Kept(n)
  BY <1>2, <1>3
<1>5. n \in Live(heap)
  BY <1>2, <1>4 DEF Kept, Live
<1>6. QED BY <1>1, <1>4, <1>5

LEMMA CloneFillsUnion ==
  ASSUME UnionTurn, NEW s, NEW v, NEW h, Fills(s, v, h), NEW F, F = s[Len(s)], F.f = "clone"
  PROVE  UnionInv'
<1>1. UNCHANGED <<copy, merged, cut>>
  BY UnionFillFacts
<1>2. PICK c \in Cell : /\ Wrote(heap, heap', F.to, c, v) /\ PutAt(heap', F, c)
                        /\ \A x \in Node \ Hung(heap, c) : x # F.to => Kept(x)
  BY UnionFillFacts
<1>3. ASSUME NEW q \in merged PROVE StaysMerged(q)
  <2>1. q[1] \notin Hung(heap, c) /\ q[1] # F.to
    BY <1>2, MergedNotFreed
  <2>2. q[1] \in Node
    BY UnionTurnFacts
  <2>3. QED BY <1>1, <1>2, <2>1, <2>2 DEF StaysMerged
<1>4. MergeUntouched
  BY <1>2, <1>3, FillsLeaveOthers DEF MergeUntouched
<1>5. ASSUME NEW q \in merged PROVE LoopMoves(q)
  BY FillLoops DEF LoopMoves
<1>6. QED BY <1>1, <1>4, <1>5, UnionStays DEF LoopsMove

(* The loop of an update has put in a clone of what it was at. *)
LEMMA ValueAdded ==
  ASSUME UnionTurn, NEW s, NEW v, NEW h, Fills(s, v, h), NEW F, F = s[Len(s)], F.f = "update",
         NEW c \in Cell, Wrote(heap, heap', F.to, c, v), PutAt(heap', F, c),
         NEW q, q = PairOf(F)
  PROVE  /\ heap'.key[c] = NameAt(heap', F.at) /\ IsCopy(heap.val[c], heap.val[F.at])'
         /\ Added(q, c)' /\ Has(q, F.at)'
         /\ c \in heap.cells => heap.key[c] = NameAt(heap, F.at)
<1> PICK d : d = F.at
  OBVIOUS
<1>1. /\ copy' = copy /\ q \in merged /\ F.from \in was.from /\ F.from \in Node /\ F.to \in Node
      /\ d \in Cells(heap, F.from) /\ s \in Seq(Frame) /\ s # <<>> /\ SameCalls(s, stack')
      /\ s = Pop /\ Pop # <<>>
      /\ stack'[Len(s)].at = NextCell(heap', F.from, d)
      /\ copy[v] = heap.val[d] /\ v # NULL /\ heap.val[d] # NULL
  BY UnionFillFacts
<1>2. /\ WellFormed(heap, Owners) /\ Kept(F.from) /\ q[1] = F.to /\ q[2] = F.from
      /\ heap.type[F.to] = "MAP" /\ MergeInv /\ stack # <<>> /\ ~stale /\ stack \in Seq(Frame)
  BY <1>1, CopyTurnFacts, UnionTurnFacts DEF UnionTurn, CopyTurn, PairOf
<1>3. /\ d \in Cells(heap', F.from) /\ heap'.key[d] = heap.key[d] /\ heap'.val[d] = heap.val[d]
      /\ NameAt(heap', d) = NameAt(heap, d)
  BY <1>1, <1>2 DEF Kept, Cells, NameAt
<1>4. /\ c \in heap.cells => heap.key[c] = NameAt(heap, d)
      /\ heap'.key[c] = NameAt(heap', d)
  <2>1. \/ c \in Matches(heap, F.to, NameAt(heap, d))
        \/ c \notin heap.cells /\ heap'.key[c] = NameAt(heap, d)
    BY <1>2 DEF PutAt
  <2>2. c \in Matches(heap, F.to, NameAt(heap, d)) => c \in heap.cells /\ heap.key[c] = NameAt(heap, d)
    BY <1>1, <1>2, WellFormedTypes DEF Matches
  <2>3. c \in heap.cells => heap'.key[c] = heap.key[c]
    BY DEF Wrote
  <2>4. QED BY <1>3, <2>1, <2>2, <2>3
<1>5. heap'.val[c] = v /\ IsCopy(heap.val[c], heap.val[d])'
  <2>1. heap'.val[c] = v
    BY DEF Wrote
  <2>2. QED BY <1>1, <1>3, <2>1 DEF IsCopy
<1>6. Processed(q, d)'
  <2> SUFFICES ASSUME NEW i \in 1..Len(stack'), NEW G, G = stack'[i], G.f = "update", PairOf(G) = q
               PROVE  Past(G, d)'
    BY DEF Processed, PairOf
  <2> PICK n : n = Len(s)
    OBVIOUS
  <2>1. /\ n \in 1..n /\ Len(stack') = n /\ \A j \in 1..n : s[j] = stack[j] /\ j \in 1..Len(stack)
    <3>1. n \in 1..n
      BY <1>1, LenProperties, EmptySeq
    <3>2. \A j \in 1..n : s[j] = stack[j] /\ j \in 1..Len(stack)
      BY <1>1, <1>2, AtPop
    <3>3. QED BY <1>1, <3>1, <3>2 DEF SameCalls
  <2>2. G.f = s[i].f /\ G.to = s[i].to /\ G.from = s[i].from
    BY <1>1, <2>1 DEF SameCalls
  <2>3. stack[i].f = "update" /\ PairOf(stack[i]) = q /\ i \in 1..Len(stack)
    BY <2>1, <2>2 DEF PairOf
  <2>4. stack[n].f = "update" /\ PairOf(stack[n]) = q /\ n \in 1..Len(stack)
    BY <2>1
  <2>5. i = n
    BY <2>3, <2>4, UnionTurnFacts
  <2>6. G.at = NextCell(heap', F.from, F.at) /\ G.from = F.from
    BY <1>1, <2>2, <2>5
  <2>7. QED BY <1>1, <1>2, <2>6, PastMoves
<1>7. Added(q, c)'
  BY <1>1, <1>2, <1>3, <1>4, <1>5, <1>6 DEF Added
<1>8. c \in Cells(heap', q[1])
  BY <1>1, <1>2, WroteCells
<1>9. Has(q, d)'
  BY <1>4, <1>5, <1>8 DEF Has
<1>10. QED BY <1>4, <1>5, <1>7, <1>9

(* t is s with one more element c; l of them are old *)
OneMore(s, t, c, l) ==
  /\ Len(s) \in Nat /\ Len(t) \in Nat /\ Len(s) <= Len(t)
  /\ \A i \in 1..Len(s) : t[i] = s[i]
  /\ \A i \in 1..Len(t) : i \notin 1..Len(s) => t[i] = c /\ ~(i <= l)

LEMMA AppendOne ==
  ASSUME NEW s, s \in Seq(Cell), NEW c, c \in Cell, NEW t, t = Append(s, c),
         NEW l, l \in Nat, l <= Len(s)
  PROVE  OneMore(s, t, c, l)
<1> PICK n : n = Len(s)
  OBVIOUS
<1>1. n \in Nat /\ Len(t) = n + 1 /\ t[n + 1] = c /\ \A i \in 1..n : t[i] = s[i]
  BY AppendProperties, LenProperties
<1>2. \A i \in 1..(n + 1) : i \notin 1..n => i = n + 1 /\ ~(i <= l)
  BY <1>1
<1>3. n + 1 \in Nat /\ n <= n + 1
  BY <1>1
<1>4. QED BY <1>1, <1>2, <1>3 DEF OneMore

LEMMA PairsGrow ==
  ASSUME NEW q, NEW c \in Cell, heap.chain[q[1]] \in Seq(Cell),
         heap'.chain[q[1]] = Append(heap.chain[q[1]], c), Added(q, c)',
         Len(was.heap.chain[q[1]]) \in Nat, Len(was.heap.chain[q[1]]) <= Len(heap.chain[q[1]]),
         \A e \in Cells(heap, q[1]) : CellStays(q, e)
  PROVE  PairsMove(q)
<1>1. OneMore(heap.chain[q[1]], heap'.chain[q[1]], c, Len(was.heap.chain[q[1]]))
  BY AppendOne
<1>2. QED BY <1>1 DEF OneMore, PairsMove, CellComes

(* It does that to the pair it is about. *)
LEMMA FilledPairStays ==
  ASSUME UnionTurn, NEW s, NEW v, NEW h, Fills(s, v, h), NEW F, F = s[Len(s)], F.f = "update",
         NEW c \in Cell, Wrote(heap, heap', F.to, c, v), PutAt(heap', F, c),
         NEW q, q = PairOf(F)
  PROVE  /\ heap'.type[q[1]] = "MAP" /\ heap'.type[q[2]] = "MAP" /\ copy'[q[1]] = NULL
         /\ PairsKept(q)' /\ (q \notin cut' => Joined(q)')
         /\ \A e \in Cells(heap, q[1]) \ {c} :
              /\ e \in Cells(heap', q[1]) /\ heap'.key[e] = heap.key[e] /\ heap'.val[e] = heap.val[e]
<1> PICK d : d = F.at
  OBVIOUS
<1>1. /\ copy' = copy /\ cut' = cut /\ merged' = merged /\ q \in merged /\ F.to \in Node
      /\ d \in Cells(heap, F.from) /\ F.from \in Node
  BY UnionFillFacts
<1>2. /\ WellFormed(heap, Owners) /\ heap \in Heap /\ Kept(F.from) /\ q[1] = F.to /\ q[2] = F.from
      /\ heap.type[F.to] = "MAP" /\ heap.type[q[2]] = "MAP" /\ copy[F.to] = NULL /\ was' = was
      /\ PairsKept(q) /\ (q \notin cut => Joined(q))
      /\ \A e, g \in Cells(heap, q[2]) : NameAt(heap, e) = NameAt(heap, g) => e = g
  BY <1>1, CopyTurnFacts, UnionTurnFacts DEF UnionTurn, CopyTurn, PairOf, MergedMaps
<1>3. F.to \notin Hung(heap, c) /\ F.to \notin Hung(heap, c)
  BY DEF Wrote
<1>4. /\ heap'.type[q[1]] = "MAP" /\ heap'.type[q[2]] = "MAP" /\ copy'[q[1]] = NULL
  <2>1. heap'.type[F.to] = heap.type[F.to]
    BY <1>1, <1>3 DEF Wrote
  <2>2. QED BY <1>1, <1>2, <2>1 DEF Kept
<1>5. /\ heap'.key[c] = NameAt(heap', d) /\ Added(q, c)' /\ Has(q, d)'
      /\ c \in heap.cells => heap.key[c] = NameAt(heap, d)
  BY ValueAdded
<1>6. ASSUME NEW e \in Cells(heap, q[1]) \ {c}
      PROVE  /\ e \in Cells(heap', q[1]) /\ heap'.key[e] = heap.key[e] /\ heap'.val[e] = heap.val[e]
             /\ e \in heap.cells
  <2>1. /\ Cells(heap', F.to) = Cells(heap, F.to) \cup {c} /\ Cells(heap, F.to) \subseteq heap'.cells
    BY <1>1, <1>2, <1>3, WroteCells
  <2>2. Cells(heap, F.to) \subseteq heap.cells
    BY <1>1, <1>2, WellFormedTypes
  <2>3. QED BY <1>2, <2>1, <2>2 DEF Wrote
<1>7. PairsMove(q)
  <2>1. /\ Len(heap.chain[F.to]) \in Nat /\ heap.chain[F.to] \in Seq(Cell)
    BY <1>1, <1>2, WellFormedTypes, LenProperties
  <2>2. Len(was.heap.chain[F.to]) \in Nat
    <3>1. was.heap \in Heap
      BY DEF UnionTurn, CopyTurn, RestInv, WasOK
    <3>2. was.heap.chain[F.to] \in Seq(Cell)
      BY <1>1, <3>1 DEF Heap
    <3>3. QED BY <3>2, LenProperties
  <2>3. heap'.chain[F.to] = IF c \notin heap.cells THEN Append(heap.chain[F.to], c)
                            ELSE heap.chain[F.to]
    BY <1>1, <1>3 DEF Wrote
  <2>4. ASSUME NEW e \in Cells(heap, q[1]) PROVE CellStays(q, e)
    <3>1. CASE e = c
      <4>1. c \in heap.cells
        BY <1>1, <1>2, <2>4, <3>1, WellFormedTypes
      <4>2. heap'.key[c] = heap.key[c]
        BY <4>1 DEF Wrote
      <4>3. QED BY <1>5, <3>1, <4>2 DEF CellStays
    <3>2. CASE e # c
      <4>1. heap'.key[e] = heap.key[e] /\ heap'.val[e] = heap.val[e]
        BY <1>6, <3>2
      <4>2. Kept(q[2])
        BY <1>2
      <4>3. \A g \in Cells(heap, q[2]) : Processed(q, g) => Processed(q, g)'
        BY <1>1, FillLoops
      <4>4. Added(q, e) => Added(q, e)'
        BY <1>1, <4>1, <4>2, <4>3, AddedStays
      <4>5. QED BY <1>1, <4>1, <4>4 DEF CellStays
    <3>3. QED BY <3>1, <3>2
  <2>5. CASE c \in heap.cells
    <3>1. heap'.chain[F.to] = heap.chain[F.to]
      BY <2>3, <2>5
    <3>2. QED BY <1>2, <2>1, <2>2, <2>4, <3>1 DEF PairsMove
  <2>6. CASE c \notin heap.cells
    <3>1. heap'.chain[q[1]] = Append(heap.chain[q[1]], c) /\ heap.chain[q[1]] \in Seq(Cell)
      BY <1>2, <2>1, <2>3, <2>6
    <3>2. /\ Len(was.heap.chain[q[1]]) \in Nat
          /\ Len(was.heap.chain[q[1]]) <= Len(heap.chain[q[1]])
      BY <1>2, <2>2 DEF PairsKept
    <3>3. QED BY <1>5, <2>4, <3>1, <3>2, PairsGrow
  <2>7. QED BY <2>5, <2>6
<1>8. PairsKept(q)'
  BY <1>1, <1>2, <1>7, PairsStay
<1>9. ASSUME q \notin cut' PROVE Joined(q)'
  <2> SUFFICES ASSUME NEW g \in Cells(heap', q[2]), heap'.val[g] # NULL, Processed(q, g)'
               PROVE  Has(q, g)'
    BY DEF Joined
  <2>1. g \in Cells(heap, q[2]) /\ heap'.val[g] = heap.val[g] /\ heap'.key[g] = heap.key[g]
    BY <1>2 DEF Kept, Cells
  <2>2. CASE g = d
    BY <1>5, <2>2
  <2>3. CASE g # d
    <3>1. Processed(q, g)
      BY <1>1, <1>9, <2>1, <2>3, FillLoops
    <3>2. Has(q, g)
      BY <1>1, <1>2, <1>9, <2>1, <3>1 DEF Joined
    <3>3. ASSUME NEW e \in Cells(heap, q[1]), heap.key[e] = NameAt(heap, g)
          PROVE  /\ e \in Cells(heap', q[1]) /\ heap'.key[e] = heap.key[e]
                 /\ heap'.val[e] = heap.val[e]
                 /\ heap.val[e] # NULL => copy'[heap.val[e]] = copy[heap.val[e]]
      <4>1. e # c
        <5> SUFFICES ASSUME e = c PROVE FALSE
          OBVIOUS
        <5>1. c \in heap.cells
          BY <1>1, <1>2, <3>3, WellFormedTypes
        <5>2. NameAt(heap, g) = NameAt(heap, d)
          BY <1>5, <3>3, <5>1
        <5>3. QED BY <1>1, <1>2, <2>1, <2>3, <5>2
      <4>2. QED BY <1>1, <1>6, <4>1
    <3>4. QED BY <1>1, <2>1, <3>2, <3>3, HasStays
  <2>4. QED BY <2>2, <2>3
<1>10. QED BY <1>4, <1>6, <1>8, <1>9

LEMMA UpdateFillsUnion ==
  ASSUME UnionTurn, NEW s, NEW v, NEW h, Fills(s, v, h), NEW F, F = s[Len(s)], F.f = "update"
  PROVE  UnionInv'
<1> PICK p : p = PairOf(F)
  OBVIOUS
<1>1. UNCHANGED <<copy, merged, cut>> /\ p \in merged /\ p[1] = F.to /\ F.to \in Node
  BY UnionFillFacts DEF PairOf
<1>2. PICK c \in Cell : /\ Wrote(heap, heap', F.to, c, v) /\ PutAt(heap', F, c)
                        /\ \A x \in Node \ Hung(heap, c) : x # F.to => Kept(x)
  BY UnionFillFacts
<1>3. /\ OthersKept /\ MergedMaps /\ was' = was /\ call' = call /\ WellFormed(heap, Owners)
  BY CopyTurnFacts, UnionTurnFacts DEF UnionTurn, CopyTurn
<1>4. OthersKept'
  <2>1. \A n \in Live(heap') \ Firsts' : copy'[n] = NULL =>
          /\ n \in Live(heap) /\ copy[n] = NULL /\ Kept(n)
          /\ \A x \in Kids(heap, n) : copy'[x] = copy[x]
    BY <1>2, FillsLeaveOthers
  <2>2. QED BY <1>1, <1>3, <2>1, OthersStay
<1>5. ASSUME NEW q \in merged, NEW d \in Cells(heap, q[2])
      PROVE  /\ Processed(q, d) => Processed(q, d)'
             /\ Visited(q, d) => Visited(q, d)'
             /\ Processed(q, d)' /\ q \notin cut' => Processed(q, d) \/ q = p
  BY FillLoops
<1>6. ASSUME NEW q \in merged, q # p PROVE StaysMerged(q)
  <2>1. q[1] \notin Hung(heap, c) /\ q[1] \in Node
    BY <1>2, MergedNotFreed, UnionTurnFacts
  <2>2. q[1] # F.to
    BY <1>1, <1>3, <1>6 DEF MergedMaps
  <2>3. QED BY <1>1, <1>2, <2>1, <2>2 DEF StaysMerged
<1>7. ASSUME NEW q \in merged
      PROVE  /\ heap'.type[q[1]] = "MAP" /\ heap'.type[q[2]] = "MAP" /\ copy'[q[1]] = NULL
             /\ PairsKept(q)' /\ (q \notin cut' => Joined(q)')
  <2>1. CASE q = p
    BY <1>2, <2>1, FilledPairStays
  <2>2. CASE q # p
    <3>1. LoopMoves(q)
      BY <1>5, <2>2 DEF LoopMoves
    <3>2. StaysMerged(q)
      BY <1>6, <2>2
    <3>3. QED BY <1>1, <3>1, <3>2, PairStays
  <2>3. QED BY <2>1, <2>2
<1>8. ASSUME NEW q \in merged PROVE Placed(q)'
  <2>1. ASSUME NEW r \in merged, NEW e \in Cells(heap, r[1]), heap.val[e] = q[1]
        PROVE  e \in Cells(heap', r[1]) /\ heap'.key[e] = heap.key[e] /\ heap'.val[e] = heap.val[e]
    <3>1. CASE r # p
      <4>1. Kept(r[1])
        BY <1>6, <3>1 DEF StaysMerged
      <4>2. QED BY <4>1 DEF Kept, Cells
    <3>2. CASE r = p
      <4>1. q[1] \notin Hung(heap, c) /\ q[1] \in Node
        BY <1>2, MergedNotFreed, UnionTurnFacts
      <4>2. e # c
        <5> SUFFICES ASSUME e = c PROVE FALSE
          OBVIOUS
        <5>1. heap.val[c] = q[1] /\ q[1] # NULL
          BY <2>1, <4>1, AddressAssumption
        <5>2. heap.val[c] \in Hung(heap, c)
          BY <1>1, <1>2, <1>3, <5>1, WroteHung
        <5>3. QED BY <4>1, <5>1, <5>2
      <4>3. QED BY <1>2, <2>1, <3>2, <4>2, FilledPairStays
    <3>3. QED BY <3>1, <3>2
  <2>2. \A r \in merged : Kept(r[2]) /\ \A d \in Cells(heap, r[2]) : Visited(r, d) => Visited(r, d)'
    BY <1>5, UnionTurnFacts
  <2>3. Placed(q)
    BY UnionTurnFacts
  <2>4. QED BY <1>1, <1>3, <2>1, <2>2, <2>3, PlacedStays
<1>9. MergedMaps'
  BY <1>1, <1>3, <1>7 DEF MergedMaps
<1>10. QED BY <1>1, <1>4, <1>7, <1>8, <1>9 DEF UnionInv

LEMMA TurnKeepsUnion ==
  ASSUME MergeInv, MergeInv', RestInv, RestInv', CopyInv, UnionInv, stack # <<>>, ~stale,
         \/ Skips \/ Returns \/ Ends \/ (\E s : Clones(s)) \/ UpdateNested
         \/ \E s, v, h : Fills(s, v, h)
  PROVE  UnionInv'
<1>1. was' = was /\ call' = call /\ merged \subseteq merged'
  BY DEF Skips, Returns, Ends, Clones, UpdateNested, Fills
<1>2. SUFFICES ASSUME Apart, NamesDiffer PROVE UnionInv'
  <2>1. NamesDiffer' => NamesDiffer
    BY <1>1 DEF NamesDiffer, NameAt
  <2>2. Apart' => Apart
    BY <1>1 DEF Apart
  <2>3. QED BY <2>1, <2>2 DEF UnionInv
<1>3. ~stale'
  <2> SUFFICES ASSUME stale' PROVE FALSE
    BY DEF MergeInv, MergeTypeOK
  <2>1. call'.from \in was'.root
    BY DEF MergeInv, StaleOnlyThroughArrays
  <2>2. call'.from # NULL
    BY <2>1, AddressAssumption DEF RestInv, WasOK, Live
  <2>3. QED BY <1>1, <1>2, <2>1, <2>2 DEF RestInv, WasOK, Apart
<1>4. UnionTurn
  BY <1>1, <1>2, <1>3 DEF UnionTurn, CopyTurn
<1>5. ASSUME NEW s, NEW v, NEW h, Fills(s, v, h) PROVE UnionInv'
  <2> PICK F : F = s[Len(s)]
    OBVIOUS
  <2>1. F.f = "clone" \/ F.f = "update"
    <3>1. F \in Frame
      BY <1>4, <1>5, UnionFillFacts
    <3>2. QED BY <3>1 DEF Frame
  <2>2. QED BY <1>4, <1>5, <2>1, CloneFillsUnion, UpdateFillsUnion
<1>6. QED BY <1>4, <1>5, SkipsUnion, ReturnsUnion, EndsUnion, ClonesUnion, NestedUnion

LEMMA CallKeepsUnion ==
  ASSUME MergeInv, \/ \E n \in Passed : PtClone(n)
                   \/ \E r \in Passed, n \in Passed : PtMapUpdate(r, n)
  PROVE  UnionInv'
<1>0. heap \in Heap /\ WellFormed(heap, Owners) /\ Live(heap) \subseteq Node
  BY WellFormedTypes DEF MergeInv
<1>1. CASE \E n \in Passed : PtClone(n)
  <2>1. merged' = {} /\ was'.root = {}
    BY <1>1 DEF PtClone, CallBegins, Part
  <2>2. MergedMaps' /\ OthersKept'
    BY <2>1 DEF MergedMaps, OthersKept
  <2>3. QED BY <2>1, <2>2 DEF UnionInv
<1>2. CASE \E r \in Passed, n \in Passed : PtMapUpdate(r, n)
  <2>1. PICK r \in Passed, n \in Passed : PtMapUpdate(r, n)
    BY <1>2
  <2>2. /\ heap' = heap /\ load' = load /\ copy' = NoCopies
        /\ was'.heap = heap /\ was'.load = load /\ was'.root = Part(r) /\ was'.from = Part(n)
        /\ call'.f = "update" /\ call'.root = r /\ call'.from = n
    BY <2>1 DEF PtMapUpdate, CallBegins
  <2>3. \A x \in Node : copy'[x] = NULL
    BY <2>2 DEF NoCopies
  <2>4. ASSUME NEW m \in Node
        PROVE  Untouched(m)' /\ \A x \in Kids(heap, m) : x \in Node /\ copy'[x] = NULL
    <3>1. Cells(heap, m) \subseteq heap.cells
      BY <1>0, WellFormedTypes
    <3>2. \A x \in Kids(heap, m) : x \in Node
      BY <1>0, KidsInNode
    <3>3. QED BY <2>2, <2>3, <3>1, <3>2 DEF Untouched
  <2>5. OthersKept'
    <3>1. \A m \in Live(heap') : m \in Node
      BY DEF Live
    <3>2. QED BY <2>2, <2>4, <3>1 DEF OthersKept
  <2>6. CASE merged' = {}
    <3>1. MergedMaps'
      BY <2>6 DEF MergedMaps
    <3>2. QED BY <2>5, <2>6, <3>1 DEF UnionInv
  <2>7. CASE merged' # {}
    <3> PICK q, G : q = <<r, n>> /\ G = UpdateFrame(r, n)
      OBVIOUS
    <3>1. /\ merged' = {q} /\ Len(stack') = 1 /\ stack'[1] = G
          /\ heap.type[r] = "MAP" /\ heap.type[n] = "MAP" /\ r \in Node /\ n \in Node
          /\ r # NULL /\ n # NULL
      BY <1>0, <2>1, <2>7, PtMapUpdateEnters DEF IsMap
    <3>2. G.f = "update" /\ PairOf(G) = q /\ G.from = n /\ G.at = FirstCell(heap, n)
          /\ q[1] = r /\ q[2] = n
      BY DEF UpdateFrame, PairOf
    <3>3. MergedMaps'
      <4>1. r \in was'.root /\ n \in was'.from
        BY <1>0, <2>2, <3>1, TreeFacts DEF Part
      <4>2. QED BY <2>2, <2>3, <3>1, <3>2, <4>1 DEF MergedMaps
    <3>4. Placed(q)'
      BY <2>2 DEF Placed
    <3>5. PairsKept(q)'
      <4>1. Untouched(q[1])' /\ q[1] \in Node /\ \A x \in Kids(heap, q[1]) : copy'[x] = NULL
        BY <2>4, <3>1, <3>2
      <4>2. QED BY <1>0, <2>2, <4>1, UntouchedPairs
    <3>6. Joined(q)'
      <4> SUFFICES ASSUME NEW e \in Cells(heap', n), Processed(q, e)' PROVE FALSE
        BY <3>2 DEF Joined
      <4>1. Past(G, e)'
        <5>1. (stack[1].f = "update" /\ PairOf(stack[1]) = q => Past(stack[1], e))'
          BY <3>1 DEF Processed
        <5>2. QED BY <3>1, <3>2, <5>1 DEF PairOf
      <4>2. Passage(heap, n, FirstCell(heap, n)) = 0
        BY <1>0, <3>1, WellFormedTypes, PassageFacts
      <4>3. PlaceOf(heap, n, e) \in 1..Len(heap.chain[n])
        BY <1>0, <2>2, <3>1, NextCellFacts
      <4>4. PlaceOf(heap, n, e) <= 0
        BY <2>2, <3>2, <4>1, <4>2 DEF Past
      <4>5. QED BY <4>3, <4>4
    <3>7. QED BY <2>5, <3>1, <3>3, <3>4, <3>5, <3>6 DEF UnionInv
  <2>8. QED BY <2>6, <2>7
<1>3. QED BY <1>1, <1>2

LEMMA InitHasUnionInv ==
  ASSUME Init
  PROVE  UnionInv
<1>1. merged = {} /\ was.root = {}
  BY DEF Init
<1>2. MergedMaps /\ OthersKept
  BY <1>1 DEF MergedMaps, OthersKept
<1>3. QED BY <1>1, <1>2 DEF UnionInv

LEMMA NextKeepsUnionInv ==
  ASSUME MergeInv, MergeInv', RestInv, RestInv', CopyInv, UnionInv, [Next]_vars
  PROVE  UnionInv'
<1>1. CASE UNCHANGED vars
  <2>1. (MergedMaps' <=> MergedMaps) /\ (OthersKept' <=> OthersKept) /\ merged' = merged
        /\ cut' = cut
    BY <1>1 DEF vars, MergedMaps, OthersKept, Firsts, Untouched
  <2>2. ASSUME NEW q PROVE Placed(q)' <=> Placed(q)
    BY <1>1 DEF vars, Placed, Visited, Past
  <2>3. ASSUME NEW q PROVE PairsKept(q)' <=> PairsKept(q)
    BY <1>1 DEF vars, PairsKept, Remains, Added, IsCopy, Processed, Past
  <2>4. ASSUME NEW q PROVE Joined(q)' <=> Joined(q)
    BY <1>1 DEF vars, Joined, Has, IsCopy, Processed, Past
  <2>5. (Apart' <=> Apart) /\ (NamesDiffer' <=> NamesDiffer)
    BY <1>1 DEF vars, Apart, NamesDiffer, NameAt
  <2>6. QED BY <2>1, <2>2, <2>3, <2>4, <2>5 DEF UnionInv
<1>2. CASE Next
  <2>1. \/ \E n \in Passed : PtClone(n)
        \/ \E r \in Passed, n \in Passed : PtMapUpdate(r, n)
        \/ UpdateSkip \/ UpdateClone \/ UpdateNested \/ UpdateMismatch \/ UpdateEnd
        \/ CloneKid \/ CloneNull \/ CloneReturns
    BY <1>2 DEF Next
  <2>2. QED BY <2>1, CallKeepsUnion, TurnIs, TurnKeepsUnion
<1>3. QED BY <1>1, <1>2

LEMMA SpecHasUnionInv == Spec => []UnionInv
<1>1. Init => UnionInv
  BY InitHasUnionInv
<1>2. MergeInv /\ MergeInv' /\ RestInv /\ RestInv' /\ CopyInv /\ UnionInv /\ [Next]_vars => UnionInv'
  BY NextKeepsUnionInv
<1>3. QED BY <1>1, <1>2, SpecHasMergeInv, SpecHasRestInv, SpecHasCopyInv, PTL DEF Spec

(* Where root and additions have no part in common, and no map of additions has
   two keys that pt_map_update takes for one, a map that was merged and had no
   mismatch has every key of its counterpart in additions: with a clone of the
   value there or, where both are maps, with the two merged.                   *)
THEOREM MergesAreUnions == Spec => []MergeIsUnion
<1>1. MergeInv /\ UnionInv => MergeIsUnion
  <2> SUFFICES ASSUME MergeInv, UnionInv, Apart, NamesDiffer, NEW q \in merged \ (cut \cup InProgress),
                      NEW d \in Cells(heap, q[2]), heap.val[d] # NULL
               PROVE  Has(q, d)
    BY DEF MergeIsUnion, Has
  <2>1. Joined(q)
    BY DEF UnionInv
  <2>2. DOMAIN stack = 1..Len(stack)
    BY DEF MergeInv, MergeTypeOK
  <2>3. Processed(q, d)
    BY <2>2 DEF Processed, InProgress, PairOf
  <2>4. QED BY <2>1, <2>3 DEF Joined
<1>2. QED BY <1>1, SpecHasMergeInv, SpecHasUnionInv, PTL

(* At any turn of such a merge, and after a mismatch has ended it early: maps
   are merged only with those that have their place in additions; a merged map
   keeps its pairs in their order, each with its value or a clone of what
   additions has for the key; what was added is such a clone; and the rest of
   root is as it was.                                                          *)
THEOREM HalfDoneMergesAreSound == Spec => []HalfDoneIsSound
<1>1. MergeInv /\ UnionInv => HalfDoneIsSound
  <2> SUFFICES ASSUME MergeInv, UnionInv, Apart, NamesDiffer PROVE HalfDoneIsSound
    BY DEF HalfDoneIsSound
  <2>1. /\ OthersKept /\ merged \subseteq Node \X Node /\ heap \in Heap
        /\ \A q \in merged : Placed(q) /\ PairsKept(q)
    BY WellFormedTypes DEF UnionInv, MergeInv, MergeTypeOK
  <2>2. ASSUME NEW q \in merged
        PROVE  \/ q = <<call.root, call.from>>
               \/ \E p \in merged : \E c \in Cells(heap, p[1]), d \in Cells(heap, p[2]) :
                    heap.key[c] = NameAt(heap, d) /\ heap.val[c] = q[1] /\ heap.val[d] = q[2]
    BY <2>1 DEF Placed
  <2>3. ASSUME NEW q \in merged, NEW i \in DOMAIN heap.chain[q[1]],
               NEW c, c = heap.chain[q[1]][i]
        PROVE  /\ i <= Len(was.heap.chain[q[1]]) =>
                    c = was.heap.chain[q[1]][i] /\ heap.key[c] = was.heap.key[c]
               /\ \/ i <= Len(was.heap.chain[q[1]]) /\ heap.val[c] = was.heap.val[c]
                  \/ \E d \in Cells(heap, q[2]) : /\ heap.key[c] = NameAt(heap, d)
                                                  /\ IsCopy(heap.val[c], heap.val[d])
    <3>1. i \in 1..Len(heap.chain[q[1]])
      <4>1. heap.chain[q[1]] \in Seq(Cell)
        BY <2>1 DEF Heap
      <4>2. QED BY <4>1, LenProperties
    <3>2. /\ i <= Len(was.heap.chain[q[1]]) =>
               c = was.heap.chain[q[1]][i] /\ heap.key[c] = was.heap.key[c]
          /\ Remains(q[1], i) \/ Added(q, c)
      BY <2>1, <2>3, <3>1 DEF PairsKept
    <3>3. Remains(q[1], i) => i <= Len(was.heap.chain[q[1]]) /\ heap.val[c] = was.heap.val[c]
      BY <2>3 DEF Remains
    <3>4. Added(q, c) => \E d \in Cells(heap, q[2]) : /\ heap.key[c] = NameAt(heap, d)
                                                      /\ IsCopy(heap.val[c], heap.val[d])
      BY DEF Added
    <3>5. QED BY <3>2, <3>3, <3>4
  <2>4. \A q \in merged : Len(was.heap.chain[q[1]]) <= Len(heap.chain[q[1]])
    BY <2>1 DEF PairsKept
  <2>5. \A n \in (Live(heap) \cap was.root) \ {q[1] : q \in merged} : copy[n] = NULL => Untouched(n)
    BY <2>1 DEF OthersKept, Firsts
  <2>6. QED BY <2>2, <2>3, <2>4, <2>5 DEF HalfDoneIsSound
<1>2. QED BY <1>1, SpecHasMergeInv, SpecHasUnionInv, PTL
=============================================================================
