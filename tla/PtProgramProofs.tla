-------------------------- MODULE PtProgramProofs --------------------------
(***************************************************************************)
(* Theorems about the two programs that work on documents, for any number   *)
(* of nodes, cells and keys.                                                *)
(*                                                                          *)
(* PtIterator: every change of a document leaves the cells that stay in a   *)
(* container in the order they had (OrderKept).  So a walk is exact as long *)
(* as the cell to come is there: what was given back is in front of it,     *)
(* what the container had from the start and was not given back is not.     *)
(*                                                                          *)
(* PtClient implements PtDocument: with any number of responses, what is    *)
(* proved of documents there holds of those in responses too.               *)
(***************************************************************************)
EXTENDS PtIterator, PtClient, PtDocumentProofs

----------------------------------------------------------------------------
(* PtIterator *)

----------------------------------------------------------------------------
(* Order *)

SameOrder(s, t) ==
  \A i, j \in DOMAIN s, k, l \in DOMAIN t : i < j /\ t[k] = s[i] /\ t[l] = s[j] => k < l

OrderKept(h, g) == \A n \in Node : SameOrder(h.chain[n], g.chain[n])

LEMMA EmptyInOrder == \A s : SameOrder(s, <<>>)
BY DEF SameOrder

LEMMA UnchangedInOrder ==
  ASSUME NEW S, NEW s \in Seq(S), IsInjective(s)
  PROVE  SameOrder(s, s)
BY DEF SameOrder, IsInjective

LEMMA AppendInOrder ==
  ASSUME NEW S, NEW s \in Seq(S), IsInjective(s), NEW e \in S, e \notin ToSet(s)
  PROVE  SameOrder(s, Append(s, e))
<1> DEFINE t == Append(s, e)
<1>1. /\ DOMAIN s = 1..Len(s) /\ Len(s) \in Nat
      /\ DOMAIN t = 1..(Len(s) + 1)
      /\ \A i \in 1..(Len(s) + 1) : t[i] = IF i <= Len(s) THEN s[i] ELSE e
  BY ToSetAppend, LenProperties
<1> HIDE DEF t
<1>2. ASSUME NEW i \in DOMAIN s, NEW k \in DOMAIN t, t[k] = s[i] PROVE k = i
  <2>1. s[i] # e
    BY <1>1, ToSetDef
  <2>2. k <= Len(s) /\ t[k] = s[k]
    BY <1>1, <1>2, <2>1
  <2>3. k \in DOMAIN s
    BY <1>1, <2>2
  <2>4. QED BY <1>2, <2>2, <2>3 DEF IsInjective
<1>3. QED BY <1>2 DEF SameOrder, t

LEMMA ConsInOrder ==
  ASSUME NEW S, NEW s \in Seq(S), IsInjective(s), NEW e \in S, e \notin ToSet(s)
  PROVE  SameOrder(s, <<e>> \o s)
<1> DEFINE t == <<e>> \o s
<1>1. /\ DOMAIN s = 1..Len(s) /\ Len(s) \in Nat
      /\ t \in Seq(S) /\ Len(t) = Len(s) + 1
      /\ \A i \in 1..(Len(s) + 1) : t[i] = IF i = 1 THEN e ELSE s[i - 1]
  BY ToSetCons, LenProperties
<1>2. DOMAIN t = 1..(Len(s) + 1)
  BY <1>1, LenProperties
<1> HIDE DEF t
<1>3. ASSUME NEW i \in DOMAIN s, NEW k \in DOMAIN t, t[k] = s[i] PROVE k = i + 1
  <2>1. s[i] # e
    BY <1>1, ToSetDef
  <2>2. k - 1 \in DOMAIN s /\ t[k] = s[k - 1]
    BY <1>1, <1>2, <1>3, <2>1
  <2>3. k - 1 = i
    BY <1>3, <2>2 DEF IsInjective
  <2>4. QED BY <1>1, <1>2, <2>3
<1>4. QED BY <1>1, <1>3 DEF SameOrder, t

LEMMA UnlinkInOrder ==
  ASSUME NEW S, NEW s \in Seq(S), IsInjective(s), NEW e \in ToSet(s)
  PROVE  SameOrder(s, Unlink(s, e))
<1> DEFINE p == CHOOSE j \in DOMAIN s : s[j] = e
           t == Unlink(s, e)
<1>1. p \in 1..Len(s) /\ s[p] = e /\ DOMAIN s = 1..Len(s) /\ Len(s) \in Nat
  BY ToSetDef, LenProperties
<1>2. t = RemoveAt(s, p)
  BY DEF Unlink
<1> HIDE DEF p, t
<1>3. /\ t \in Seq(S) /\ Len(t) = Len(s) - 1
      /\ \A j \in 1..(Len(s) - 1) : t[j] = IF j < p THEN s[j] ELSE s[j + 1]
  <2>1. p \in 1..Len(s)
    BY <1>1
  <2>2. RemoveAt(s, p) \in Seq(S) /\ Len(RemoveAt(s, p)) = Len(s) - 1
    BY <2>1, ToSetRemoveAt
  <2>3. \A j \in 1..(Len(s) - 1) : RemoveAt(s, p)[j] = IF j < p THEN s[j] ELSE s[j + 1]
    BY <2>1, ToSetRemoveAt
  <2>4. QED BY <1>2, <2>2, <2>3
<1>4. DOMAIN t = 1..(Len(s) - 1)
  BY <1>1, <1>3, LenProperties
<1>5. ASSUME NEW i \in DOMAIN s, NEW k \in DOMAIN t, t[k] = s[i]
      PROVE  i = IF k < p THEN k ELSE k + 1
  <2>1. CASE k < p
    <3>1. k \in DOMAIN s /\ s[k] = s[i]
      BY <1>1, <1>3, <1>4, <1>5, <2>1
    <3>2. QED BY <2>1, <3>1 DEF IsInjective
  <2>2. CASE ~(k < p)
    <3>1. k + 1 \in DOMAIN s /\ s[k + 1] = s[i]
      BY <1>1, <1>3, <1>4, <1>5, <2>2
    <3>2. k + 1 = i
      BY <3>1 DEF IsInjective
    <3>3. QED BY <2>2, <3>2
  <2>3. QED BY <2>1, <2>2
<1>6. QED
  <2> SUFFICES ASSUME NEW i \in DOMAIN s, NEW j \in DOMAIN s, NEW k \in DOMAIN t, NEW l \in DOMAIN t,
                      i < j, t[k] = s[i], t[l] = s[j]
               PROVE  k < l
    BY DEF SameOrder, t
  <2>1. i = (IF k < p THEN k ELSE k + 1) /\ j = (IF l < p THEN l ELSE l + 1)
    BY <1>5
  <2>2. QED BY <1>1, <1>4, <2>1

----------------------------------------------------------------------------
(* What a step does to the cells of a container *)

(* Nothing, or it frees the container, or it links one cell at an end or
   unlinks one.                                                            *)
Relinked(s, t) ==
  \/ t = s
  \/ t = <<>>
  \/ \E c \in Cell \ ToSet(s) : t = Append(s, c) \/ t = <<c>> \o s
  \/ \E c \in ToSet(s) : t = Unlink(s, c)

AllRelinked(h, g) == \A x \in Node : Relinked(h.chain[x], g.chain[x])

LEMMA RelinkedInOrder ==
  ASSUME NEW s \in Seq(Cell), IsInjective(s), NEW t, Relinked(s, t)
  PROVE  SameOrder(s, t)
BY EmptyInOrder, UnchangedInOrder, AppendInOrder, ConsInOrder, UnlinkInOrder DEF Relinked

LEMMA ChainsOfSetVal ==
  ASSUME NEW h, NEW c, NEW v
  PROVE  SetVal(h, c, v).chain = h.chain
BY DEF SetVal

(* A free leaves a chain as it is, or empties it. *)
LEMMA ChainsOfFree ==
  ASSUME NEW h, NEW n, NEW x \in Node
  PROVE  FreeNode(h, n).chain[x] \in {h.chain[x], <<>>}
BY DEF FreeNode, FreeTree

LEMMA ChainsOfFreeVal ==
  ASSUME NEW h, NEW R, WellFormed(h, R), NEW p \in Node, NEW c \in Cells(h, p)
  PROVE  LET g == FreeVal(h, c)
         IN  /\ g \in Heap
             /\ g.chain[p] = h.chain[p]
             /\ \A x \in Node : g.chain[x] \in {h.chain[x], <<>>}
<1> DEFINE g == FreeVal(h, c)
<1>1. \A x \in Node : g.chain[x] \in {h.chain[x], <<>>}
  BY ChainsOfFree, ChainsOfSetVal DEF FreeVal
<1>2. Cells(g, p) = Cells(h, p) /\ g \in Heap
  BY FreeValWellFormed, WellFormedParts DEF HeapTypeOK
<1>3. g.chain[p] # <<>>
  BY <1>2, NoCells
<1>4. QED BY <1>1, <1>2, <1>3

(* A routine that changes one chain. *)
LEMMA OneRelinked ==
  ASSUME NEW h \in Heap, NEW g, NEW p \in Node, NEW s,
         g.chain = [h.chain EXCEPT ![p] = s], Relinked(h.chain[p], s)
  PROVE  AllRelinked(h, g)
<1>1. \A x \in Node : g.chain[x] = IF x = p THEN s ELSE h.chain[x]
  BY DEF Heap
<1>2. QED BY <1>1 DEF AllRelinked, Relinked

LEMMA NoneRelinked ==
  ASSUME NEW h, NEW g, g.chain = h.chain
  PROVE  AllRelinked(h, g)
BY DEF AllRelinked, Relinked

(* A cell that is not allocated is linked nowhere. *)
LEMMA FreshUnlinked ==
  ASSUME NEW h, NEW R, WellFormed(h, R), NEW c \in FreshCells(h), NEW x \in Node
  PROVE  c \in Cell \ ToSet(h.chain[x])
BY WellFormedParts DEF NoDangling, FreshCells, Cells

LEMMA ClientCallRelinks ==
  ASSUME IInv, ClientCall
  PROVE  AllRelinked(heap, heap')
<1>1. WellFormed(heap, Roots) /\ heap \in Heap /\ held \subseteq Node /\ Live(heap) \subseteq Node
  BY WellFormedParts DEF IInv, HeapTypeOK, Live
<1>2. ASSUME NEW n \in FreshNodes(heap), NEW t \in NodeType, PtNew(n, t)
      PROVE  AllRelinked(heap, heap')
  <2>1. heap'.chain = heap.chain
    BY <1>1, <1>2 DEF PtNew, NewNode, Heap
  <2>2. QED BY <2>1, NoneRelinked
<1>3. ASSUME NEW p \in Node, NEW c \in FreshCells(heap), NEW g, NEW v, heap' = SetVal(g, c, v),
             \/ \E k : g = AddPair(heap, p, c, k)
             \/ g = AddElemBack(heap, p, c)
             \/ g = AddElemFront(heap, p, c)
      PROVE  AllRelinked(heap, heap')
  <2>1. heap'.chain = g.chain
    BY <1>3, ChainsOfSetVal
  <2>2. c \in Cell \ ToSet(heap.chain[p])
    BY <1>1, <1>3, FreshUnlinked
  <2>3. \/ heap'.chain = [heap.chain EXCEPT ![p] = Append(heap.chain[p], c)]
        \/ heap'.chain = [heap.chain EXCEPT ![p] = <<c>> \o heap.chain[p]]
    BY <1>1, <1>3, <2>1 DEF AddPair, AddElemBack, AddElemFront, Heap
  <2>4. /\ Relinked(heap.chain[p], Append(heap.chain[p], c))
        /\ Relinked(heap.chain[p], <<c>> \o heap.chain[p])
    BY <2>2 DEF Relinked
  <2>5. QED BY <1>1, <1>3, <2>3, <2>4, OneRelinked
<1>4. ASSUME NEW p \in Node, NEW c \in Cells(heap, p),
             \/ heap' = DropPair(FreeVal(heap, c), p, c)
             \/ heap' = DropElem(FreeVal(heap, c), p, c)
             \/ \E v : heap' = SetVal(FreeVal(heap, c), c, v)
      PROVE  AllRelinked(heap, heap')
  <2> DEFINE g == FreeVal(heap, c)
  <2>1. /\ g \in Heap /\ g.chain[p] = heap.chain[p]
        /\ \A x \in Node : g.chain[x] \in {heap.chain[x], <<>>}
    BY <1>1, <1>4, ChainsOfFreeVal
  <2>2. \/ heap'.chain = [g.chain EXCEPT ![p] = Unlink(g.chain[p], c)]
        \/ heap'.chain = g.chain
    <3>1. CASE \E v : heap' = SetVal(g, c, v)
      BY <3>1, ChainsOfSetVal
    <3>2. CASE heap' = DropPair(g, p, c) \/ heap' = DropElem(g, p, c)
      <4> HIDE DEF g
      <4>1. QED BY <2>1, <3>2 DEF DropPair, DropElem, Heap
    <3>3. QED BY <1>4, <3>1, <3>2
  <2> HIDE DEF g
  <2>3. g.chain \in [Node -> Seq(Cell)]
    BY <2>1 DEF Heap
  <2>4. \A x \in Node : \/ heap'.chain[x] \in {heap.chain[x], <<>>}
                        \/ x = p /\ heap'.chain[x] = Unlink(heap.chain[p], c)
    BY <2>1, <2>2, <2>3
  <2>5. c \in ToSet(heap.chain[p])
    BY <1>4 DEF Cells
  <2>6. QED BY <2>4, <2>5 DEF AllRelinked, Relinked
<1>5. ASSUME UNCHANGED heap PROVE AllRelinked(heap, heap')
  BY <1>5 DEF AllRelinked, Relinked
<1>6. ASSUME NEW p \in Live(heap), NEW k \in CKey, NEW v \in Givable(p), PtMapSet(p, k, v)
      PROVE  AllRelinked(heap, heap')
  BY <1>1, <1>3, <1>4, <1>5, <1>6 DEF PtMapSet, MapReplace, MapInsert, Matches
<1>7. ASSUME NEW p \in Live(heap), NEW k \in CKey, PtMapUnset(p, k)
      PROVE  AllRelinked(heap, heap')
  BY <1>1, <1>4, <1>5, <1>7 DEF PtMapUnset, Matches
<1>8. ASSUME NEW p \in Live(heap), NEW v \in Givable(p),
             PtArrayPushFront(p, v) \/ PtArrayPushBack(p, v)
      PROVE  AllRelinked(heap, heap')
  BY <1>1, <1>3, <1>5, <1>8 DEF PtArrayPushFront, PtArrayPushBack
<1>9. ASSUME NEW p \in Live(heap), NEW x \in Node \cup {NULL}, PtArrayRemove(p, x)
      PROVE  AllRelinked(heap, heap')
  BY <1>1, <1>4, <1>5, <1>9 DEF PtArrayRemove
<1>10. ASSUME NEW n \in held, PtFreeNode(n) PROVE AllRelinked(heap, heap')
  BY <1>10, ChainsOfFree DEF PtFreeNode, AllRelinked, Relinked
<1>11. QED BY <1>2, <1>6, <1>7, <1>8, <1>9, <1>10 DEF ClientCall

LEMMA CallbackRelinks ==
  ASSUME IInv, Callback
  PROVE  AllRelinked(heap, heap')
<1>1. WellFormed(heap, Roots) /\ heap \in Heap
  BY WellFormedParts DEF IInv, HeapTypeOK
<1>2. ASSUME NEW n \in FreshNodes(heap), NEW t \in NodeType, NEW c \in ElemCells,
             heap' = AddToContext(NewNode(heap, n, t), n, c)
      PROVE  AllRelinked(heap, heap')
  <2> DEFINE g == NewNode(heap, n, t)
  <2>1. g \in Heap
    BY <1>1, <1>2, NewNodeWellFormed, WellFormedParts DEF HeapTypeOK
  <2>2. g.chain = heap.chain
    BY <1>1 DEF NewNode, Heap
  <2>3. CASE IntoArray
    <3>1. c \in FreshCells(heap) /\ Cur \in Node /\ Cur \notin Cell
      BY <1>2, <2>3, AddressAssumption DEF ElemCells, IntoArray
    <3>2. heap' = SetVal(AddElemBack(g, Cur, c), c, n)
      BY <1>2, <2>3, <3>1 DEF AddToContext, g
    <3> HIDE DEF g
    <3>3. heap'.chain = [heap.chain EXCEPT ![Cur] = Append(heap.chain[Cur], c)]
      <4>1. heap'.chain = AddElemBack(g, Cur, c).chain
        BY <3>2, ChainsOfSetVal
      <4>2. QED BY <2>1, <2>2, <4>1 DEF AddElemBack, Heap
    <3>4. c \in Cell \ ToSet(heap.chain[Cur])
      BY <1>1, <3>1, FreshUnlinked
    <3>5. Relinked(heap.chain[Cur], Append(heap.chain[Cur], c))
      BY <3>4 DEF Relinked
    <3>6. QED BY <1>1, <3>1, <3>3, <3>5, OneRelinked
  <2>4. CASE ~IntoArray
    <3>1. heap' = g \/ heap' = SetVal(g, Cur, n)
      BY <1>2, <2>4 DEF AddToContext
    <3> HIDE DEF g
    <3>2. QED BY <2>2, <3>1, ChainsOfSetVal, NoneRelinked
  <2>5. QED BY <2>3, <2>4
<1>3. ASSUME NEW n \in FreshNodes(heap), NEW c \in ElemCells,
             \/ JsonStartMap(n, c) \/ JsonStartArray(n, c)
             \/ \E t \in NodeType \ Container : JsonScalar(n, t, c)
      PROVE  AllRelinked(heap, heap')
  BY <1>2, <1>3 DEF JsonStartMap, JsonStartArray, JsonScalar, NodeType
<1>4. ASSUME NEW c \in FreshCells(heap), NEW k \in Key, JsonMapKey(c, k)
      PROVE  AllRelinked(heap, heap')
  <2> DEFINE m == Head(stack).container
  <2>1. m \in Node
    <3>1. Parsing /\ Head(gram) = "KEY"
      BY <1>4 DEF JsonMapKey
    <3>2. Head(stack) \in Frame
      BY <3>1, KeyFacts
    <3>3. QED BY <3>2 DEF Frame
  <2>2. heap' = AddPair(heap, m, c, k)
    BY <1>4 DEF JsonMapKey
  <2> HIDE DEF m
  <2>3. heap'.chain = [heap.chain EXCEPT ![m] = Append(heap.chain[m], c)]
    BY <1>1, <2>2 DEF AddPair, Heap
  <2>4. c \in Cell \ ToSet(heap.chain[m])
    BY <1>1, <1>4, <2>1, FreshUnlinked
  <2>5. Relinked(heap.chain[m], Append(heap.chain[m], c))
    BY <2>4 DEF Relinked
  <2>6. QED BY <1>1, <2>1, <2>3, <2>5, OneRelinked
<1>5. ASSUME UNCHANGED heap PROVE AllRelinked(heap, heap')
  BY <1>5 DEF AllRelinked, Relinked
<1>6. QED BY <1>3, <1>4, <1>5 DEF Callback, JsonEndMap, JsonEndArray

LEMMA StepRelinks ==
  ASSUME IInv, [Next]_vars
  PROVE  AllRelinked(heap, heap')
<1>1. CASE PtFromJson \/ PtFromJsonReturn \/ UNCHANGED vars
  BY <1>1 DEF PtFromJson, PtFromJsonReturn, ParseBegin, ParseReturn, vars, AllRelinked, Relinked
<1>2. QED BY <1>1, ClientCallRelinks, CallbackRelinks DEF Next, PtCallback


----------------------------------------------------------------------------
(* What is ahead of a walk over sequence s that is to give back c *)

AheadOf(s, c) ==
  IF c = NULL THEN {}
  ELSE {s[i] : i \in {j \in DOMAIN s : \E k \in 1..j : s[k] = c}}

LEMMA AheadPositions ==
  ASSUME NEW s \in Seq(Cell), IsInjective(s), NEW p \in 1..Len(s)
  PROVE  \A j \in 1..Len(s) : s[j] \in AheadOf(s, s[p]) <=> p <= j
<1>1. Len(s) \in Nat /\ DOMAIN s = 1..Len(s) /\ s[p] # NULL
  BY LenProperties, ElementOfSeq, AddressAssumption
<1> SUFFICES ASSUME NEW j \in 1..Len(s) PROVE s[j] \in AheadOf(s, s[p]) <=> p <= j
  OBVIOUS
<1>2. (\E k \in 1..j : s[k] = s[p]) <=> p <= j
  <2>1. ASSUME NEW k \in 1..j, s[k] = s[p] PROVE k = p
    <3>1. k \in DOMAIN s /\ p \in DOMAIN s
      BY <1>1
    <3>2. QED BY <2>1, <3>1 DEF IsInjective
  <2>2. p <= j => p \in 1..j
    BY <1>1
  <2>3. QED BY <1>1, <2>1, <2>2
<1>3. \A i \in DOMAIN s : s[i] = s[j] => i = j
  BY <1>1 DEF IsInjective
<1>4. s[j] \in AheadOf(s, s[p]) <=>
        \E i \in DOMAIN s : s[i] = s[j] /\ \E k \in 1..i : s[k] = s[p]
  BY <1>1 DEF AheadOf
<1>5. QED BY <1>1, <1>2, <1>3, <1>4

LEMMA AheadIsIn ==
  ASSUME NEW s \in Seq(Cell), NEW c
  PROVE  AheadOf(s, c) \subseteq ToSet(s)
BY DEF AheadOf, ToSet

(* At the start everything is ahead. *)
LEMMA AllAhead ==
  ASSUME NEW s \in Seq(Cell), IsInjective(s)
  PROVE  /\ First(s) \in ToSet(s) \cup {NULL}
         /\ AheadOf(s, First(s)) = ToSet(s)
<1>1. CASE s = <<>>
  BY <1>1 DEF First, AheadOf, ToSet
<1>2. CASE s # <<>>
  <2>1. Len(s) \in Nat /\ 1 \in 1..Len(s) /\ First(s) = s[1]
    BY <1>2, TailFacts DEF First
  <2>2. \A j \in 1..Len(s) : s[j] \in AheadOf(s, s[1])
    BY <2>1, AheadPositions
  <2>3. ToSet(s) \subseteq AheadOf(s, First(s)) /\ First(s) \in ToSet(s)
    BY <2>1, <2>2, ToSetDef
  <2>4. QED BY <2>3, AheadIsIn
<1>3. QED BY <1>1, <1>2

(* One step of the walk takes the cell it gives back, and no other. *)
LEMMA NextAhead ==
  ASSUME NEW s \in Seq(Cell), IsInjective(s), NEW p \in 1..Len(s)
  PROVE  /\ NextCell(s, s[p]) \in ToSet(s) \cup {NULL}
         /\ AheadOf(s, NextCell(s, s[p])) = AheadOf(s, s[p]) \ {s[p]}
<1>1. Len(s) \in Nat /\ DOMAIN s = 1..Len(s)
  BY LenProperties
<1> DEFINE q == CHOOSE j \in DOMAIN s : s[j] = s[p]
<1>2. q = p
  <2>1. q \in DOMAIN s /\ s[q] = s[p] /\ p \in DOMAIN s
    BY <1>1
  <2> HIDE DEF q
  <2>2. QED BY <2>1 DEF IsInjective
<1>3. NextCell(s, s[p]) = IF p < Len(s) THEN s[p + 1] ELSE NULL
  <2>1. NextCell(s, s[p]) = IF q < Len(s) THEN s[q + 1] ELSE NULL
    BY DEF NextCell
  <2> HIDE DEF q
  <2>2. QED BY <1>2, <2>1
<1> HIDE DEF q
<1>4. \A j \in 1..Len(s) : s[j] \in AheadOf(s, s[p]) <=> p <= j
  BY AheadPositions
<1>5. \A j \in 1..Len(s) : s[j] = s[p] => j = p
  BY <1>1 DEF IsInjective
<1>6. \A j \in 1..Len(s) :
        s[j] \in AheadOf(s, NextCell(s, s[p])) <=> s[j] \in AheadOf(s, s[p]) /\ s[j] # s[p]
  <2>1. CASE p < Len(s)
    <3>1. p + 1 \in 1..Len(s)
      BY <1>1, <2>1
    <3>2. \A j \in 1..Len(s) : s[j] \in AheadOf(s, s[p + 1]) <=> p + 1 <= j
      BY <3>1, AheadPositions
    <3>3. QED BY <1>1, <1>3, <1>4, <1>5, <2>1, <3>2
  <2>2. CASE ~(p < Len(s))
    <3>1. AheadOf(s, NextCell(s, s[p])) = {}
      BY <1>3, <2>2 DEF AheadOf
    <3>2. \A j \in 1..Len(s) : p <= j => j = p
      BY <1>1, <2>2
    <3>3. QED BY <1>4, <3>1, <3>2
  <2>3. QED BY <2>1, <2>2
<1>7. AheadOf(s, s[p]) \subseteq ToSet(s) /\ AheadOf(s, NextCell(s, s[p])) \subseteq ToSet(s)
  BY AheadIsIn
<1>8. ToSet(s) = {s[j] : j \in 1..Len(s)}
  BY ToSetDef
<1>9. NextCell(s, s[p]) \in ToSet(s) \cup {NULL}
  BY <1>1, <1>3, <1>8
<1>10. QED BY <1>6, <1>7, <1>8, <1>9

(* What is ahead stays ahead when the order is kept. *)
LEMMA AheadKept ==
  ASSUME NEW s \in Seq(Cell), IsInjective(s), NEW t \in Seq(Cell), IsInjective(t),
         SameOrder(s, t),
         NEW c \in (ToSet(s) \cap ToSet(t)) \cup {NULL}, NEW x \in ToSet(s) \cap ToSet(t)
  PROVE  x \in AheadOf(s, c) <=> x \in AheadOf(t, c)
<1>1. CASE c = NULL
  BY <1>1 DEF AheadOf
<1>2. CASE c # NULL
  <2>1. PICK i \in 1..Len(s) : s[i] = c
    BY <1>2, ToSetDef
  <2>2. PICK k \in 1..Len(t) : t[k] = c
    BY <1>2, ToSetDef
  <2>3. PICK j \in 1..Len(s) : s[j] = x
    BY ToSetDef
  <2>4. PICK l \in 1..Len(t) : t[l] = x
    BY ToSetDef
  <2>5. Len(s) \in Nat /\ DOMAIN s = 1..Len(s) /\ Len(t) \in Nat /\ DOMAIN t = 1..Len(t)
    BY LenProperties
  <2>6. (i < j => k < l) /\ (j < i => l < k)
    BY <2>1, <2>2, <2>3, <2>4, <2>5 DEF SameOrder
  <2>7. i = j => k = l
    BY <2>1, <2>2, <2>3, <2>4, <2>5 DEF IsInjective
  <2>8. i <= j <=> k <= l
    BY <2>5, <2>6, <2>7
  <2>9. x \in AheadOf(s, c) <=> i <= j
    BY <2>1, <2>3, AheadPositions
  <2>10. x \in AheadOf(t, c) <=> k <= l
    BY <2>2, <2>4, AheadPositions
  <2>11. QED BY <2>8, <2>9, <2>10
<1>3. QED BY <1>1, <1>2

----------------------------------------------------------------------------
(* The walk *)

(* What is in front of the cell to come, and what is not. *)
CellsStay == Walking => /\ begun \subseteq Cells(heap, iter.node)
                        /\ given \subseteq Cells(heap, iter.node)
PointerStays == Walking /\ good => iter.next \in Cells(heap, iter.node) \cup {NULL}

IterInv ==
  IInv /\ IterTypeOK /\ CellsStay /\ PointerStays /\ WalkIsExact /\ WalkKeepsOrder

(* The chain that is walked is a sequence of cells, each of them once. *)
LEMMA WalkedFacts ==
  ASSUME IterInv, Walking
  PROVE  /\ iter \in Iterator /\ iter.node \in Node /\ iter.next \in Cell \cup {NULL}
         /\ Walked \in Seq(Cell) /\ IsInjective(Walked)
         /\ Cells(heap, iter.node) = ToSet(Walked)
         /\ Len(Walked) \in Nat /\ DOMAIN Walked = 1..Len(Walked)
         /\ NULL \notin Cell
<1>1. iter \in Iterator
  BY DEF IterInv, IterTypeOK, Walking
<1>2. WellFormed(heap, Roots) /\ heap \in Heap
  BY WellFormedParts DEF IterInv, IInv, HeapTypeOK
<1>3. iter.node \in Node /\ iter.next \in Cell \cup {NULL}
  BY <1>1 DEF Iterator
<1>4. Walked \in Seq(Cell)
  BY <1>2, <1>3 DEF Heap, Walked
<1>5. IsInjective(Walked)
  BY <1>2, <1>3, WellFormedParts DEF OneOwner, Walked
<1>6. QED BY <1>1, <1>3, <1>4, <1>5, LenProperties, AddressAssumption DEF Cells, Walked

LEMMA InitIterInv == InitIter => IterInv
<1> SUFFICES ASSUME InitIter PROVE IterInv
  OBVIOUS
<1>1. IInv /\ ~Walking /\ begun = {} /\ given = {} /\ came = {} /\ good = TRUE /\ iter = NULL
  BY InitIInv DEF InitIter, Walking
<1>2. IterTypeOK
  BY <1>1 DEF IterTypeOK
<1>3. QED BY <1>1, <1>2
          DEF IterInv, CellsStay, PointerStays, WalkIsExact, WalkKeepsOrder

LEMMA PtIteratorKeeps ==
  ASSUME IterInv, NEW n \in Live(heap), PtIterator(n)
  PROVE  IterInv'
<1> DEFINE s == heap.chain[n]
<1>1. /\ iter' = [node |-> n, next |-> First(s)] /\ begun' = Cells(heap, n)
      /\ given' = {} /\ came' = {} /\ good' = TRUE /\ UNCHANGED vars /\ heap' = heap
  BY DEF PtIterator, vars
<1>2. IInv' /\ WellFormed(heap, Roots) /\ heap \in Heap /\ n \in Node
  BY <1>1, NextIInv, WellFormedParts DEF IterInv, IInv, HeapTypeOK, Live
<1>3. s \in Seq(Cell) /\ IsInjective(s) /\ Cells(heap, n) = ToSet(s)
  BY <1>2, WellFormedParts DEF Heap, OneOwner, Cells
<1> HIDE DEF s
<1>4. First(s) \in ToSet(s) \cup {NULL} /\ AheadOf(s, First(s)) = ToSet(s) /\ ToSet(s) \subseteq Cell
  BY <1>3, AllAhead, ToSetDef
<1>5. iter'.node = n /\ iter'.next = First(s) /\ Walked' = s
  BY <1>1 DEF Walked, s
<1>6. Ahead' = ToSet(s)
  BY <1>4, <1>5 DEF Ahead, AheadOf
<1>7. IterTypeOK'
  BY <1>1, <1>2, <1>3, <1>4 DEF IterTypeOK, Iterator
<1>8. CellsStay' /\ PointerStays'
  BY <1>1, <1>3, <1>4, <1>5 DEF CellsStay, PointerStays
<1>9. WalkIsExact' /\ WalkKeepsOrder'
  BY <1>1, <1>3, <1>6 DEF WalkIsExact, WalkKeepsOrder
<1>10. QED BY <1>2, <1>7, <1>8, <1>9 DEF IterInv

LEMMA PtIteratorNextKeeps ==
  ASSUME IterInv, PtIteratorNext
  PROVE  IterInv'
<1>1. /\ Walking /\ good /\ UNCHANGED vars /\ heap' = heap
  BY DEF PtIteratorNext, vars
<1>2. IInv'
  BY <1>1, NextIInv DEF IterInv
<1> DEFINE s == Walked
<1>3. /\ iter \in Iterator /\ iter.node \in Node /\ iter.next \in Cell \cup {NULL}
      /\ s \in Seq(Cell) /\ IsInjective(s) /\ Cells(heap, iter.node) = ToSet(s)
      /\ Len(s) \in Nat /\ DOMAIN s = 1..Len(s) /\ NULL \notin Cell
  BY <1>1, WalkedFacts
<1>4. CASE iter.next = NULL
  <2>1. UNCHANGED iterVars
    BY <1>4 DEF PtIteratorNext
  <2>2. QED BY <1>1, <1>2, <2>1
            DEF IterInv, IterTypeOK, CellsStay, PointerStays, WalkIsExact, WalkKeepsOrder,
                iterVars, Walking, Ahead, Walked
<1>5. CASE iter.next # NULL
  <2> DEFINE c == iter.next
  <2>1. /\ iter' = [iter EXCEPT !.next = NextCell(s, c)]
        /\ given' = given \cup {c} /\ came' = came \cup (given \X {c})
        /\ begun' = begun /\ good' = good
    BY <1>5 DEF PtIteratorNext
  <2>2. /\ begun \subseteq Cell /\ given \subseteq Cell /\ came \subseteq given \X given
        /\ good \in BOOLEAN
    BY DEF IterInv, IterTypeOK
  <2>3. /\ begun \subseteq ToSet(s) /\ given \subseteq ToSet(s) /\ c \in ToSet(s)
    BY <1>1, <1>3, <1>5 DEF IterInv, CellsStay, PointerStays
  <2>4. /\ begun \subseteq given \cup AheadOf(s, c) /\ given \cap AheadOf(s, c) = {}
    BY <1>1 DEF IterInv, WalkIsExact, Ahead, AheadOf
  <2>5. \A k, l \in DOMAIN s : <<s[k], s[l]>> \in came => k < l
    BY <1>1 DEF IterInv, WalkKeepsOrder
  <2>6. PICK p \in 1..Len(s) : s[p] = c
    BY <1>3, <2>3, ToSetDef
  <2> HIDE DEF s, c
  <2>7. /\ NextCell(s, c) \in ToSet(s) \cup {NULL}
        /\ AheadOf(s, NextCell(s, c)) = AheadOf(s, c) \ {c}
    BY <1>3, <2>6, NextAhead
  <2>8. \A j \in 1..Len(s) : s[j] \in AheadOf(s, c) <=> p <= j
    BY <1>3, <2>6, AheadPositions
  <2>9. ToSet(s) \subseteq Cell
    BY <1>3, ToSetDef
  <2>10. /\ iter' \in Iterator /\ iter'.node = iter.node /\ iter'.next = NextCell(s, c)
    BY <1>3, <2>1, <2>7, <2>9 DEF Iterator
  <2>11. Walked' = s /\ Cells(heap, iter.node)' = ToSet(s)
    BY <1>1, <1>3, <2>10 DEF Walked, s, Cells
  <2>12. Ahead' = AheadOf(s, c) \ {c}
    BY <2>7, <2>10, <2>11 DEF Ahead, AheadOf
  <2>13. IterTypeOK'
    BY <2>1, <2>2, <2>3, <2>9, <2>10 DEF IterTypeOK
  <2>14. CellsStay' /\ PointerStays'
    BY <2>1, <2>3, <2>7, <2>10, <2>11 DEF CellsStay, PointerStays
  <2>15. WalkIsExact'
    BY <2>1, <2>4, <2>12 DEF WalkIsExact
  <2>16. WalkKeepsOrder'
    <3> SUFFICES ASSUME NEW k \in DOMAIN s, NEW l \in DOMAIN s,
                        <<s[k], s[l]>> \in came \cup (given \X {c})
                 PROVE  k < l
      BY <2>1, <2>11 DEF WalkKeepsOrder
    <3>1. CASE <<s[k], s[l]>> \in came
      BY <2>5, <3>1
    <3>2. CASE <<s[k], s[l]>> \in given \X {c}
      <4>1. s[k] \notin AheadOf(s, c) /\ s[l] = s[p]
        BY <2>4, <2>6, <3>2
      <4>2. l = p
        BY <1>3, <2>6, <4>1 DEF IsInjective
      <4>3. QED BY <1>3, <2>6, <2>8, <4>1, <4>2
    <3>3. QED BY <3>1, <3>2
  <2>17. QED BY <1>2, <2>13, <2>14, <2>15, <2>16 DEF IterInv
<1>6. QED BY <1>4, <1>5

LEMMA FreeIteratorKeeps ==
  ASSUME IterInv, FreeIterator
  PROVE  IterInv'
<1>1. /\ iter' = NULL /\ begun' = {} /\ given' = {} /\ came' = {} /\ good' = TRUE
      /\ UNCHANGED vars
  BY DEF FreeIterator
<1>2. IInv' /\ ~Walking'
  BY <1>1, NextIInv DEF IterInv, Walking
<1>3. IterTypeOK'
  BY <1>1 DEF IterTypeOK
<1>4. QED BY <1>2, <1>3 DEF IterInv, CellsStay, PointerStays, WalkIsExact, WalkKeepsOrder

(* The step on the documents keeps the order of what stays in the container,
   and so what is ahead of the walk.                                        *)
LEMMA MeanwhileKeeps ==
  ASSUME IterInv, Meanwhile
  PROVE  IterInv'
<1>1. IInv /\ IInv' /\ AllRelinked(heap, heap') /\ iter' = iter
  BY NextIInv, StepRelinks DEF IterInv, Meanwhile
<1>2. CASE ~Walking
  <2>1. ~Walking' /\ begun' = {} /\ given' = {} /\ came' = {} /\ good' \in BOOLEAN
    <3>1. ~Walking'
      BY <1>1, <1>2 DEF Walking
    <3>2. begun' = begun \cap {} /\ given' = given \cap {} /\ came' = came \cap ({} \X {})
      BY <1>2 DEF Meanwhile
    <3>3. good' \in BOOLEAN
      BY <1>2 DEF Meanwhile
    <3>4. QED BY <3>1, <3>2, <3>3
  <2>2. IterTypeOK'
    BY <1>1, <2>1 DEF IterInv, IterTypeOK
  <2>3. QED BY <1>1, <2>1, <2>2 DEF IterInv, CellsStay, PointerStays, WalkIsExact, WalkKeepsOrder
<1>3. CASE Walking
  <2> DEFINE s == Walked
             t == heap'.chain[iter.node]
             c == iter.next
             left == Cells(heap', iter.node)
  <2>1. /\ iter.node \in Node /\ c \in Cell \cup {NULL}
        /\ s \in Seq(Cell) /\ IsInjective(s) /\ Cells(heap, iter.node) = ToSet(s)
        /\ Len(s) \in Nat /\ DOMAIN s = 1..Len(s)
    BY <1>3, WalkedFacts
  <2>2. /\ t \in Seq(Cell) /\ IsInjective(t) /\ left = ToSet(t)
    <3>1. WellFormed(heap', Roots') /\ heap' \in Heap
      BY <1>1, WellFormedParts DEF IInv, HeapTypeOK
    <3>2. QED BY <2>1, <3>1, WellFormedParts DEF Heap, OneOwner, Cells
  <2>3. SameOrder(s, t)
    BY <1>1, <2>1, RelinkedInOrder DEF AllRelinked, Walked
  <2>4. /\ begun' = begun \cap left /\ given' = given \cap left
        /\ came' = came \cap (left \X left)
        /\ good' = (good /\ c \in left \cup {NULL})
    BY <1>3 DEF Meanwhile
  <2>5. /\ begun \subseteq Cell /\ given \subseteq Cell /\ came \subseteq given \X given
        /\ good \in BOOLEAN /\ iter \in Iterator \cup {NULL}
    BY DEF IterInv, IterTypeOK
  <2>6. begun \subseteq ToSet(s) /\ given \subseteq ToSet(s)
    BY <1>3, <2>1 DEF IterInv, CellsStay
  <2>7. good => /\ c \in ToSet(s) \cup {NULL}
                /\ begun \subseteq given \cup AheadOf(s, c) /\ given \cap AheadOf(s, c) = {}
    BY <1>3, <2>1 DEF IterInv, PointerStays, WalkIsExact, Ahead, AheadOf
  <2>8. \A k, l \in DOMAIN s : <<s[k], s[l]>> \in came => k < l
    BY <1>3 DEF IterInv, WalkKeepsOrder
  <2>9. Walked' = t /\ Ahead' = AheadOf(t, c) /\ Cells(heap, iter.node)' = left
    BY <1>1 DEF Walked, Ahead, AheadOf
  <2> HIDE DEF s, t, c, left
  <2>10. IterTypeOK'
    BY <1>1, <2>4, <2>5 DEF IterTypeOK
  <2>11. CellsStay' /\ PointerStays'
    BY <1>1, <2>4, <2>9 DEF CellsStay, PointerStays, c
  <2>12. WalkIsExact'
    <3> SUFFICES ASSUME good' PROVE begun' \subseteq given' \cup Ahead' /\ given' \cap Ahead' = {}
      BY DEF WalkIsExact
    <3>1. c \in (ToSet(s) \cap ToSet(t)) \cup {NULL}
      BY <2>2, <2>4, <2>7
    <3>2. \A x \in ToSet(s) \cap ToSet(t) : x \in AheadOf(s, c) <=> x \in AheadOf(t, c)
      BY <2>1, <2>2, <2>3, <3>1, AheadKept
    <3>3. QED BY <2>2, <2>4, <2>6, <2>7, <2>9, <3>2
  <2>13. WalkKeepsOrder'
    <3> SUFFICES ASSUME NEW k \in DOMAIN t, NEW l \in DOMAIN t, <<t[k], t[l]>> \in came'
                 PROVE  k < l
      BY <2>9 DEF WalkKeepsOrder
    <3>1. <<t[k], t[l]>> \in came /\ t[k] \in ToSet(s) /\ t[l] \in ToSet(s)
      BY <2>4, <2>5, <2>6
    <3>2. PICK i \in 1..Len(s) : s[i] = t[k]
      BY <2>1, <3>1, ToSetDef
    <3>3. PICK j \in 1..Len(s) : s[j] = t[l]
      BY <2>1, <3>1, ToSetDef
    <3>4. i < j
      BY <2>1, <2>8, <3>1, <3>2, <3>3
    <3>5. QED BY <2>1, <2>3, <3>2, <3>3, <3>4 DEF SameOrder
  <2>14. QED BY <1>1, <2>10, <2>11, <2>12, <2>13 DEF IterInv
<1>4. QED BY <1>2, <1>3

LEMMA NextIterInv == IterInv /\ [NextIter]_allVars => IterInv'
<1> SUFFICES ASSUME IterInv, [NextIter]_allVars PROVE IterInv'
  OBVIOUS
<1>1. CASE UNCHANGED allVars
  <2>1. IInv' /\ heap' = heap /\ UNCHANGED iterVars
    BY <1>1, NextIInv DEF allVars, IterInv, vars
  <2>2. QED BY <2>1
            DEF IterInv, IterTypeOK, CellsStay, PointerStays, WalkIsExact, WalkKeepsOrder,
                iterVars, Walking, Ahead, Walked
<1>2. QED BY <1>1, PtIteratorKeeps, PtIteratorNextKeeps, FreeIteratorKeeps, MeanwhileKeeps
          DEF NextIter

THEOREM SpecIterInv == SpecIter => []IterInv
BY InitIterInv, NextIterInv, PTL DEF SpecIter

----------------------------------------------------------------------------
(* What it says of the code *)

(* The iterator is a cell of the container it was made for, or complete, as
   long as no call freed that cell.                                         *)
THEOREM IterTypeCorrect == SpecIter => []IterTypeOK
<1>1. IterInv => IterTypeOK
  BY DEF IterInv
<1>2. QED BY <1>1, SpecIterInv, PTL

(* A walk with pt_iterator_next misses and repeats nothing, whatever the
   program pushes, sets and removes meanwhile, in a container of any size, as
   long as the cell the iterator points to stays.                           *)
THEOREM WalksAreExact == SpecIter => []WalkIsExact
<1>1. IterInv => WalkIsExact
  BY DEF IterInv
<1>2. QED BY <1>1, SpecIterInv, PTL

(* And gives the cells back in the order of the container. *)
THEOREM WalksKeepOrder == SpecIter => []WalkKeepsOrder
<1>1. IterInv => WalkKeepsOrder
  BY DEF IterInv
<1>2. QED BY <1>1, SpecIterInv, PTL

(* To take one cell out of the container leaves the others. *)
LEMMA OthersStay ==
  ASSUME IterInv, Walking, NEW d \in Cells(heap, iter.node),
         \/ heap' = DropPair(FreeVal(heap, d), iter.node, d)
         \/ heap' = DropElem(FreeVal(heap, d), iter.node, d)
  PROVE  Cells(heap', iter.node) = Cells(heap, iter.node) \ {d}
<1> DEFINE g == FreeVal(heap, d)
           n == iter.node
<1>1. /\ n \in Node /\ Walked \in Seq(Cell) /\ IsInjective(Walked)
      /\ Cells(heap, n) = ToSet(Walked) /\ WellFormed(heap, Roots)
  BY WalkedFacts DEF IterInv, IInv
<1>2. g \in Heap /\ g.chain[n] = Walked
  BY <1>1, ChainsOfFreeVal DEF Walked
<1> HIDE DEF g
<1>3. heap' = DropPair(g, n, d) \/ heap' = DropElem(g, n, d)
  BY DEF g
<1> HIDE DEF n
<1>4. heap'.chain[n] = Unlink(Walked, d)
  <2>1. heap'.chain = [g.chain EXCEPT ![n] = Unlink(g.chain[n], d)]
    BY <1>2, <1>3 DEF DropPair, DropElem, Heap
  <2>2. g.chain \in [Node -> Seq(Cell)] /\ n \in Node
    BY <1>1, <1>2 DEF Heap, n
  <2>3. QED BY <1>2, <2>1, <2>2
<1>5. ToSet(Unlink(Walked, d)) = ToSet(Walked) \ {d}
  BY <1>1, ToSetUnlink DEF n
<1>6. QED BY <1>1, <1>4, <1>5 DEF Cells, n

(* The cell to come is not the one that pt_array_remove of a value given back
   finds, which is at or in front of the cell of that value: also when the
   value is NULL, and several elements are.                                 *)
LEMMA RemovedIsInFront ==
  ASSUME IterInv, Walking, good, iter.next # NULL, NEW c \in given,
         NEW d \in Cells(heap, iter.node),
         \/ d = c
         \/ FirstHolding(heap, iter.node, heap.val[c], d)
  PROVE  d # iter.next
<1> DEFINE s == Walked
<1>1. /\ s \in Seq(Cell) /\ IsInjective(s) /\ Cells(heap, iter.node) = ToSet(s)
      /\ Len(s) \in Nat /\ DOMAIN s = 1..Len(s)
  BY WalkedFacts
<1>2. /\ iter.next \in ToSet(s) /\ c \in ToSet(s)
      /\ given \cap AheadOf(s, iter.next) = {}
  BY <1>1 DEF IterInv, PointerStays, CellsStay, WalkIsExact, Ahead, AheadOf
<1> HIDE DEF s
<1>3. PICK p \in 1..Len(s) : s[p] = iter.next
  BY <1>1, <1>2, ToSetDef
<1>4. PICK k \in 1..Len(s) : s[k] = c
  BY <1>1, <1>2, ToSetDef
<1>5. k < p
  <2>1. s[k] \in AheadOf(s, s[p]) <=> p <= k
    BY <1>1, AheadPositions
  <2>2. QED BY <1>1, <1>2, <1>3, <1>4, <2>1
<1>6. CASE d = c
  BY <1>1, <1>3, <1>4, <1>5, <1>6 DEF IsInjective
<1>7. CASE FirstHolding(heap, iter.node, heap.val[c], d)
  <2>1. PICK i \in DOMAIN s : /\ s[i] = d /\ heap.val[d] = heap.val[c]
                              /\ \A j \in 1..(i - 1) : heap.val[s[j]] # heap.val[c]
    BY <1>7 DEF FirstHolding, s, Walked
  <2>2. i <= k
    <3>1. k < i => k \in 1..(i - 1)
      BY <1>1
    <3>2. QED BY <1>1, <1>4, <2>1, <3>1
  <2>3. i # p
    BY <1>1, <1>5, <2>2
  <2>4. QED BY <1>1, <1>3, <2>1, <2>3 DEF IsInjective
<1>8. QED BY <1>6, <1>7

LEMMA GivenGoes ==
  ASSUME IterInv, Walking, good, NEW c \in given,
         \/ PtArrayRemove(iter.node, heap.val[c])
         \/ /\ UniqueKeys(heap, iter.node) /\ heap.key[c] \in CKey
            /\ PtMapUnset(iter.node, heap.key[c])
  PROVE  iter.next \in Cells(heap', iter.node) \cup {NULL}
<1> SUFFICES ASSUME iter.next # NULL PROVE iter.next \in Cells(heap', iter.node)
  OBVIOUS
<1>1. iter.next \in Cells(heap, iter.node) /\ c \in Cells(heap, iter.node)
  BY DEF IterInv, PointerStays, CellsStay
<1>2. ASSUME NEW d \in Cells(heap, iter.node),
             d = c \/ FirstHolding(heap, iter.node, heap.val[c], d),
             \/ heap' = DropPair(FreeVal(heap, d), iter.node, d)
             \/ heap' = DropElem(FreeVal(heap, d), iter.node, d)
      PROVE  iter.next \in Cells(heap', iter.node)
  BY <1>1, <1>2, OthersStay, RemovedIsInFront
<1>3. CASE PtArrayRemove(iter.node, heap.val[c])
  BY <1>1, <1>2, <1>3 DEF PtArrayRemove
<1>4. CASE /\ UniqueKeys(heap, iter.node) /\ heap.key[c] \in CKey
           /\ PtMapUnset(iter.node, heap.key[c])
  <2>1. heap.key[c] # NULL
    BY <1>4, AddressAssumption
  <2>2. \A d \in Matches(heap, iter.node, heap.key[c]) : d \in Cells(heap, iter.node) /\ d = c
    BY <1>1, <1>4, <2>1 DEF Matches, UniqueKeys
  <2>3. QED BY <1>1, <1>2, <1>4, <2>2 DEF PtMapUnset
<1>5. QED BY <1>3, <1>4

(* So a program may remove what it was given in the middle of a walk. *)
THEOREM GivenMayBeRemoved == SpecIter => GivenMayGo
<1> DEFINE Removes(c) == \/ PtArrayRemove(iter.node, heap.val[c])
                         \/ /\ UniqueKeys(heap, iter.node) /\ heap.key[c] \in CKey
                            /\ PtMapUnset(iter.node, heap.key[c])
<1>1. ASSUME IterInv, [NextIter]_allVars, NEW c \in given, Walking, good, Removes(c)
      PROVE  good'
  <2>1. CASE Meanwhile
    <3>1. iter.next \in Cells(heap', iter.node) \cup {NULL}
      BY <1>1, GivenGoes
    <3>2. good' = (good /\ (Walking => iter.next \in Cells(heap', iter.node) \cup {NULL}))
      BY <1>1, <2>1 DEF Meanwhile
    <3>3. QED BY <1>1, <3>1, <3>2
  <2>2. CASE ~Meanwhile
    <3>1. good' = good \/ good' = TRUE
      BY <1>1, <2>2 DEF NextIter, PtIterator, PtIteratorNext, FreeIterator, allVars, iterVars
    <3>2. QED BY <1>1, <3>1
  <2>3. QED BY <2>1, <2>2
<1>2. IterInv /\ [NextIter]_allVars =>
        [\A c \in given :
           /\ Walking /\ good
           /\ \/ PtArrayRemove(iter.node, heap.val[c])
              \/ /\ UniqueKeys(heap, iter.node) /\ heap.key[c] \in CKey
                 /\ PtMapUnset(iter.node, heap.key[c])
           => good']_allVars
  BY <1>1
<1>3. QED BY <1>2, SpecIterInv, PTL DEF SpecIter, GivenMayGo

----------------------------------------------------------------------------
(* PtClient *)

Docs == INSTANCE PtDocumentProofs WITH held <- Owned

----------------------------------------------------------------------------
(* The operators of PtHeap do not depend on held: those of an instance are
   those of PtClient.  There are two instances, the Document of PtClient and
   Docs, which has the lemmas.                                             *)

LEMMA DocsReading ==
  ASSUME NEW h
  PROVE  /\ Docs!Live(h) = Live(h) /\ Docs!FreshNodes(h) = FreshNodes(h)
         /\ Docs!FreshCells(h) = FreshCells(h)
         /\ \A n : Docs!Cells(h, n) = Cells(h, n)
         /\ \A S : Docs!Closed(h, S) = Closed(h, S)
         /\ \A n : Docs!Tree(h, n) = Tree(h, n)
         /\ \A n : Docs!TreeCells(h, n) = TreeCells(h, n)
         /\ \A m, k : Docs!Matches(h, m, k) = Matches(h, m, k)
         /\ \A a, x, c : Docs!FirstHolding(h, a, x, c) = FirstHolding(h, a, x, c)
<1>1. Docs!Live(h) = Live(h)
  BY DEF Docs!Live, Live
<1>2. Docs!FreshNodes(h) = FreshNodes(h) /\ Docs!FreshCells(h) = FreshCells(h)
  BY <1>1 DEF Docs!FreshNodes, FreshNodes, Docs!FreshCells, FreshCells
<1>3. \A n : Docs!Cells(h, n) = Cells(h, n)
  BY DEF Docs!Cells, Cells, Docs!ToSet, ToSet
<1>4. \A n : Docs!Kids(h, n) = Kids(h, n)
  BY <1>3 DEF Docs!Kids, Kids
<1>5. \A S : Docs!Closed(h, S) = Closed(h, S)
  BY <1>4 DEF Docs!Closed, Closed
<1>6. \A n : Docs!Tree(h, n) = Tree(h, n)
  BY <1>5 DEF Docs!Tree, Tree
<1>7. \A n : Docs!TreeCells(h, n) = TreeCells(h, n)
  BY <1>3, <1>6 DEF Docs!TreeCells, TreeCells
<1>8. \A m, k : Docs!Matches(h, m, k) = Matches(h, m, k)
  BY <1>3 DEF Docs!Matches, Matches
<1>9. \A a, x, c : Docs!FirstHolding(h, a, x, c) = FirstHolding(h, a, x, c)
  BY DEF Docs!FirstHolding, FirstHolding
<1>10. QED BY <1>1, <1>2, <1>3, <1>5, <1>6, <1>7, <1>8, <1>9

LEMMA DocsWriting ==
  ASSUME NEW h
  PROVE  /\ \A n, t : Docs!NewNode(h, n, t) = NewNode(h, n, t)
         /\ \A c, v : Docs!SetVal(h, c, v) = SetVal(h, c, v)
         /\ \A m, c, k : Docs!AddPair(h, m, c, k) = AddPair(h, m, c, k)
         /\ \A a, c : Docs!AddElemBack(h, a, c) = AddElemBack(h, a, c)
         /\ \A a, c : Docs!AddElemFront(h, a, c) = AddElemFront(h, a, c)
         /\ \A m, c : Docs!DropPair(h, m, c) = DropPair(h, m, c)
         /\ \A a, c : Docs!DropElem(h, a, c) = DropElem(h, a, c)
         /\ \A n : Docs!FreeNode(h, n) = FreeNode(h, n)
<1>1. \A n, t : Docs!NewNode(h, n, t) = NewNode(h, n, t)
  BY DEF Docs!NewNode, NewNode
<1>2. \A c, v : Docs!SetVal(h, c, v) = SetVal(h, c, v)
  BY DEF Docs!SetVal, SetVal
<1>3. \A m, c, k : Docs!AddPair(h, m, c, k) = AddPair(h, m, c, k)
  BY DEF Docs!AddPair, AddPair
<1>4. \A a, c : Docs!AddElemBack(h, a, c) = AddElemBack(h, a, c)
  BY DEF Docs!AddElemBack, AddElemBack
<1>5. \A a, c : Docs!AddElemFront(h, a, c) = AddElemFront(h, a, c)
  BY DEF Docs!AddElemFront, AddElemFront
<1>6. \A s, c : Docs!Unlink(s, c) = Unlink(s, c)
  BY DEF Docs!Unlink, Unlink, Docs!RemoveAt, RemoveAt
<1>7. \A m, c : Docs!DropPair(h, m, c) = DropPair(h, m, c)
  BY <1>6 DEF Docs!DropPair, DropPair
<1>8. \A a, c : Docs!DropElem(h, a, c) = DropElem(h, a, c)
  BY <1>6 DEF Docs!DropElem, DropElem
<1>9. \A n : Docs!FreeNode(h, n) = FreeNode(h, n)
  BY DocsReading DEF Docs!FreeNode, FreeNode, Docs!FreeTree, FreeTree
<1>10. QED BY <1>1, <1>2, <1>3, <1>4, <1>5, <1>7, <1>8, <1>9

LEMMA DocsFreeVal == \A h, c : Docs!FreeVal(h, c) = FreeVal(h, c)
BY DocsWriting DEF Docs!FreeVal, FreeVal

LEMMA DocsParser ==
  /\ Docs!Parsing <=> Parsing
  /\ Docs!ParseBegin <=> ParseBegin
  /\ Docs!Callback <=> Callback
  /\ Docs!ParseReturn <=> ParseReturn
  /\ Docs!parserVars = parserVars
<1>1. /\ Docs!Parsing <=> Parsing
      /\ Docs!ValueExpected <=> ValueExpected
      /\ Docs!AfterValue = AfterValue
      /\ Docs!InContainer <=> InContainer
      /\ Docs!Cur = Cur
      /\ Docs!parserVars = parserVars
  BY DEF Docs!Parsing, Parsing, Docs!ValueExpected, ValueExpected, Docs!AfterValue, AfterValue,
         Docs!InContainer, InContainer, Docs!Cur, Cur, Docs!parserVars, parserVars
<1>2. Docs!IntoArray <=> IntoArray
  BY <1>1 DEF Docs!IntoArray, IntoArray
<1>3. Docs!ElemCells = ElemCells
  BY <1>2, DocsReading DEF Docs!ElemCells, ElemCells
<1>4. \A h, v, c : Docs!AddToContext(h, v, c) = AddToContext(h, v, c)
  BY <1>1, <1>2, DocsWriting DEF Docs!AddToContext, AddToContext
<1>5. \A v : Docs!RootAfter(v) = RootAfter(v)
  BY <1>1 DEF Docs!RootAfter, RootAfter
<1>6. \A n, t, c : Docs!JsonScalar(n, t, c) <=> JsonScalar(n, t, c)
  BY <1>1, <1>4, <1>5, DocsWriting DEF Docs!JsonScalar, JsonScalar
<1>7. \A n, c : Docs!JsonStartMap(n, c) <=> JsonStartMap(n, c)
  BY <1>1, <1>4, <1>5, DocsWriting DEF Docs!JsonStartMap, JsonStartMap
<1>8. \A n, c : Docs!JsonStartArray(n, c) <=> JsonStartArray(n, c)
  BY <1>1, <1>4, <1>5, DocsWriting DEF Docs!JsonStartArray, JsonStartArray
<1>9. \A c, k : Docs!JsonMapKey(c, k) <=> JsonMapKey(c, k)
  BY <1>1, DocsWriting DEF Docs!JsonMapKey, JsonMapKey
<1>10. (Docs!JsonEndMap <=> JsonEndMap) /\ (Docs!JsonEndArray <=> JsonEndArray)
  BY <1>1 DEF Docs!JsonEndMap, JsonEndMap, Docs!JsonEndArray, JsonEndArray
<1>11. Docs!Callback <=> Callback
  BY <1>3, <1>6, <1>7, <1>8, <1>9, <1>10, DocsReading
     DEF Docs!Callback, Callback, Docs!NodeType, NodeType, Docs!Container, Container
<1>12. Docs!ParseBegin <=> ParseBegin
  BY <1>1 DEF Docs!ParseBegin, ParseBegin
<1>13. Docs!ParseReturn <=> ParseReturn
  BY <1>1 DEF Docs!ParseReturn, ParseReturn
<1>14. QED BY <1>1, <1>11, <1>12, <1>13

LEMMA DocumentReading ==
  ASSUME NEW h
  PROVE  /\ Document!Live(h) = Live(h) /\ Document!FreshNodes(h) = FreshNodes(h)
         /\ Document!FreshCells(h) = FreshCells(h)
         /\ \A n : Document!Cells(h, n) = Cells(h, n)
         /\ \A n : Document!Tree(h, n) = Tree(h, n)
         /\ \A n : Document!TreeCells(h, n) = TreeCells(h, n)
         /\ \A m, k : Document!Matches(h, m, k) = Matches(h, m, k)
         /\ \A a, x, c : Document!FirstHolding(h, a, x, c) = FirstHolding(h, a, x, c)
<1>1. Document!Live(h) = Live(h)
  BY DEF Document!Live, Live
<1>2. Document!FreshNodes(h) = FreshNodes(h) /\ Document!FreshCells(h) = FreshCells(h)
  BY <1>1 DEF Document!FreshNodes, FreshNodes, Document!FreshCells, FreshCells
<1>3. \A n : Document!Cells(h, n) = Cells(h, n)
  BY DEF Document!Cells, Cells, Document!ToSet, ToSet
<1>4. \A n : Document!Kids(h, n) = Kids(h, n)
  BY <1>3 DEF Document!Kids, Kids
<1>5. \A S : Document!Closed(h, S) = Closed(h, S)
  BY <1>4 DEF Document!Closed, Closed
<1>6. \A n : Document!Tree(h, n) = Tree(h, n)
  BY <1>5 DEF Document!Tree, Tree
<1>7. \A n : Document!TreeCells(h, n) = TreeCells(h, n)
  BY <1>3, <1>6 DEF Document!TreeCells, TreeCells
<1>8. \A m, k : Document!Matches(h, m, k) = Matches(h, m, k)
  BY <1>3 DEF Document!Matches, Matches
<1>9. \A a, x, c : Document!FirstHolding(h, a, x, c) = FirstHolding(h, a, x, c)
  BY DEF Document!FirstHolding, FirstHolding
<1>10. QED BY <1>1, <1>2, <1>3, <1>6, <1>7, <1>8, <1>9

LEMMA DocumentWriting ==
  ASSUME NEW h
  PROVE  /\ \A n, t : Document!NewNode(h, n, t) = NewNode(h, n, t)
         /\ \A c, v : Document!SetVal(h, c, v) = SetVal(h, c, v)
         /\ \A m, c, k : Document!AddPair(h, m, c, k) = AddPair(h, m, c, k)
         /\ \A a, c : Document!AddElemBack(h, a, c) = AddElemBack(h, a, c)
         /\ \A a, c : Document!AddElemFront(h, a, c) = AddElemFront(h, a, c)
         /\ \A m, c : Document!DropPair(h, m, c) = DropPair(h, m, c)
         /\ \A a, c : Document!DropElem(h, a, c) = DropElem(h, a, c)
         /\ \A n : Document!FreeNode(h, n) = FreeNode(h, n)
<1>1. \A n, t : Document!NewNode(h, n, t) = NewNode(h, n, t)
  BY DEF Document!NewNode, NewNode
<1>2. \A c, v : Document!SetVal(h, c, v) = SetVal(h, c, v)
  BY DEF Document!SetVal, SetVal
<1>3. \A m, c, k : Document!AddPair(h, m, c, k) = AddPair(h, m, c, k)
  BY DEF Document!AddPair, AddPair
<1>4. \A a, c : Document!AddElemBack(h, a, c) = AddElemBack(h, a, c)
  BY DEF Document!AddElemBack, AddElemBack
<1>5. \A a, c : Document!AddElemFront(h, a, c) = AddElemFront(h, a, c)
  BY DEF Document!AddElemFront, AddElemFront
<1>6. \A s, c : Document!Unlink(s, c) = Unlink(s, c)
  BY DEF Document!Unlink, Unlink, Document!RemoveAt, RemoveAt
<1>7. \A m, c : Document!DropPair(h, m, c) = DropPair(h, m, c)
  BY <1>6 DEF Document!DropPair, DropPair
<1>8. \A a, c : Document!DropElem(h, a, c) = DropElem(h, a, c)
  BY <1>6 DEF Document!DropElem, DropElem
<1>9. \A n : Document!FreeNode(h, n) = FreeNode(h, n)
  BY DocumentReading DEF Document!FreeNode, FreeNode, Document!FreeTree, FreeTree
<1>10. QED BY <1>1, <1>2, <1>3, <1>4, <1>5, <1>7, <1>8, <1>9

LEMMA DocumentFreeVal == \A h, c : Document!FreeVal(h, c) = FreeVal(h, c)
BY DocumentWriting DEF Document!FreeVal, FreeVal

LEMMA DocumentParser ==
  /\ Document!Parsing <=> Parsing
  /\ Document!ParseBegin <=> ParseBegin
  /\ Document!Callback <=> Callback
  /\ Document!ParseReturn <=> ParseReturn
  /\ Document!parserVars = parserVars
<1>1. /\ Document!Parsing <=> Parsing
      /\ Document!ValueExpected <=> ValueExpected
      /\ Document!AfterValue = AfterValue
      /\ Document!InContainer <=> InContainer
      /\ Document!Cur = Cur
      /\ Document!parserVars = parserVars
  BY DEF Document!Parsing, Parsing, Document!ValueExpected, ValueExpected, Document!AfterValue, AfterValue,
         Document!InContainer, InContainer, Document!Cur, Cur, Document!parserVars, parserVars
<1>2. Document!IntoArray <=> IntoArray
  BY <1>1 DEF Document!IntoArray, IntoArray
<1>3. Document!ElemCells = ElemCells
  BY <1>2, DocumentReading DEF Document!ElemCells, ElemCells
<1>4. \A h, v, c : Document!AddToContext(h, v, c) = AddToContext(h, v, c)
  BY <1>1, <1>2, DocumentWriting DEF Document!AddToContext, AddToContext
<1>5. \A v : Document!RootAfter(v) = RootAfter(v)
  BY <1>1 DEF Document!RootAfter, RootAfter
<1>6. \A n, t, c : Document!JsonScalar(n, t, c) <=> JsonScalar(n, t, c)
  BY <1>1, <1>4, <1>5, DocumentWriting DEF Document!JsonScalar, JsonScalar
<1>7. \A n, c : Document!JsonStartMap(n, c) <=> JsonStartMap(n, c)
  BY <1>1, <1>4, <1>5, DocumentWriting DEF Document!JsonStartMap, JsonStartMap
<1>8. \A n, c : Document!JsonStartArray(n, c) <=> JsonStartArray(n, c)
  BY <1>1, <1>4, <1>5, DocumentWriting DEF Document!JsonStartArray, JsonStartArray
<1>9. \A c, k : Document!JsonMapKey(c, k) <=> JsonMapKey(c, k)
  BY <1>1, DocumentWriting DEF Document!JsonMapKey, JsonMapKey
<1>10. (Document!JsonEndMap <=> JsonEndMap) /\ (Document!JsonEndArray <=> JsonEndArray)
  BY <1>1 DEF Document!JsonEndMap, JsonEndMap, Document!JsonEndArray, JsonEndArray
<1>11. Document!Callback <=> Callback
  BY <1>3, <1>6, <1>7, <1>8, <1>9, <1>10, DocumentReading
     DEF Document!Callback, Callback, Document!NodeType, NodeType, Document!Container, Container
<1>12. Document!ParseBegin <=> ParseBegin
  BY <1>1 DEF Document!ParseBegin, ParseBegin
<1>13. Document!ParseReturn <=> ParseReturn
  BY <1>1 DEF Document!ParseReturn, ParseReturn
<1>14. QED BY <1>1, <1>11, <1>12, <1>13

----------------------------------------------------------------------------
(* The node functions.  What the program holds is not the root of a response,
   so what it gives away or frees leaves Owned.                             *)

RootsApart == held \subseteq Node /\ held \cap ResponseRoots = {}

(* A step of the program leaves the responses alone. *)
LEMMA GivenAway ==
  ASSUME RootsApart, UNCHANGED resp, NEW v \in held \cup {NULL}
  PROVE  /\ held' = held => Owned' = Owned
         /\ held' = held \ {v} => Owned' = Owned \ {v}
         /\ \A n : held' = held \cup {n} => Owned' = Owned \cup {n}
<1>1. ResponseRoots' = ResponseRoots
  BY DEF ResponseRoots
<1>2. v \notin ResponseRoots
  BY AddressAssumption DEF RootsApart, ResponseRoots
<1>3. QED BY <1>1, <1>2 DEF Owned

LEMMA WhatIsGivable ==
  \A p : /\ Givable(p) \subseteq held \cup {NULL}
         /\ Givable(p) \subseteq Docs!Givable(p)
         /\ Givable(p) \subseteq Document!Givable(p)
BY DocsReading, DocumentReading
   DEF Givable, Docs!Givable, Document!Givable, Owned

LEMMA ClientTurns == (Docs!ClientTurn <=> ClientTurn) /\ (Document!ClientTurn <=> ClientTurn)
BY DocsParser, DocumentParser DEF Docs!ClientTurn, Document!ClientTurn, ClientTurn

LEMMA PtNewMaps ==
  ASSUME RootsApart, UNCHANGED resp, NEW n, NEW t, PtNew(n, t)
  PROVE  Docs!PtNew(n, t) /\ Document!PtNew(n, t)
<1>1. Owned' = Owned \cup {n}
  BY GivenAway DEF PtNew
<1>2. QED
  BY <1>1, ClientTurns, DocsWriting, DocumentWriting, DocsParser, DocumentParser
     DEF PtNew, Docs!PtNew, Document!PtNew, Docs!parserVars, Document!parserVars, parserVars

LEMMA PtMapSetMaps ==
  ASSUME RootsApart, UNCHANGED resp, NEW m, NEW k, NEW v \in held \cup {NULL}, PtMapSet(m, k, v)
  PROVE  Docs!PtMapSet(m, k, v) /\ Document!PtMapSet(m, k, v)
<1>1. Owned' = IF heap.type[m] = "MAP" /\ v # NULL THEN Owned \ {v} ELSE Owned
  BY GivenAway DEF PtMapSet
<1>2. \A c : MapReplace(c, v) => Docs!MapReplace(c, v) /\ Document!MapReplace(c, v)
  BY DocsWriting, DocumentWriting, DocsFreeVal, DocumentFreeVal
     DEF MapReplace, Docs!MapReplace, Document!MapReplace
<1>3. MapInsert(m, k, v) => Docs!MapInsert(m, k, v) /\ Document!MapInsert(m, k, v)
  <2> SUFFICES ASSUME NEW c \in FreshCells(heap),
                      heap' = SetVal(AddPair(heap, m, c, k), c, v)
               PROVE  Docs!MapInsert(m, k, v) /\ Document!MapInsert(m, k, v)
    BY DEF MapInsert
  <2>1. /\ Docs!AddPair(heap, m, c, k) = AddPair(heap, m, c, k)
        /\ Document!AddPair(heap, m, c, k) = AddPair(heap, m, c, k)
    BY DocsWriting, DocumentWriting
  <2> DEFINE h == AddPair(heap, m, c, k)
  <2>2. Docs!SetVal(h, c, v) = SetVal(h, c, v) /\ Document!SetVal(h, c, v) = SetVal(h, c, v)
    BY DocsWriting, DocumentWriting
  <2>3. c \in Docs!FreshCells(heap) /\ c \in Document!FreshCells(heap)
    BY DocsReading, DocumentReading
  <2>4. QED BY <2>1, <2>2, <2>3 DEF Docs!MapInsert, Document!MapInsert
<1>4. QED
  BY <1>1, <1>2, <1>3, ClientTurns, DocsReading, DocumentReading
     DEF PtMapSet, Docs!PtMapSet, Document!PtMapSet, Docs!parserVars, Document!parserVars, parserVars

LEMMA PtMapUnsetMaps ==
  ASSUME RootsApart, UNCHANGED resp, NEW m, NEW k, PtMapUnset(m, k)
  PROVE  Docs!PtMapUnset(m, k) /\ Document!PtMapUnset(m, k)
<1>1. Owned' = Owned
  BY GivenAway DEF PtMapUnset
<1>2. QED
  BY <1>1, ClientTurns, DocsReading, DocumentReading, DocsWriting, DocumentWriting,
     DocsFreeVal, DocumentFreeVal
     DEF PtMapUnset, Docs!PtMapUnset, Document!PtMapUnset,
         Docs!parserVars, Document!parserVars, parserVars

LEMMA PtArrayPushMaps ==
  ASSUME RootsApart, UNCHANGED resp, NEW a, NEW v \in held \cup {NULL}
  PROVE  /\ PtArrayPushFront(a, v) => Docs!PtArrayPushFront(a, v) /\ Document!PtArrayPushFront(a, v)
         /\ PtArrayPushBack(a, v) => Docs!PtArrayPushBack(a, v) /\ Document!PtArrayPushBack(a, v)
<1>1. ASSUME PtArrayPushFront(a, v) \/ PtArrayPushBack(a, v)
      PROVE  Owned' = IF heap.type[a] = "ARRAY" THEN Owned \ {v} ELSE Owned
  BY <1>1, GivenAway DEF PtArrayPushFront, PtArrayPushBack
<1>2. PtArrayPushFront(a, v) => Docs!PtArrayPushFront(a, v) /\ Document!PtArrayPushFront(a, v)
  BY <1>1, ClientTurns, DocsReading, DocumentReading, DocsWriting, DocumentWriting
     DEF PtArrayPushFront, Docs!PtArrayPushFront, Document!PtArrayPushFront,
         Docs!parserVars, Document!parserVars, parserVars
<1>3. PtArrayPushBack(a, v) => Docs!PtArrayPushBack(a, v) /\ Document!PtArrayPushBack(a, v)
  BY <1>1, ClientTurns, DocsReading, DocumentReading, DocsWriting, DocumentWriting
     DEF PtArrayPushBack, Docs!PtArrayPushBack, Document!PtArrayPushBack,
         Docs!parserVars, Document!parserVars, parserVars
<1>4. QED BY <1>2, <1>3

LEMMA PtArrayRemoveMaps ==
  ASSUME RootsApart, UNCHANGED resp, NEW a, NEW x, PtArrayRemove(a, x)
  PROVE  Docs!PtArrayRemove(a, x) /\ Document!PtArrayRemove(a, x)
<1>1. Owned' = Owned
  BY GivenAway DEF PtArrayRemove
<1>2. QED
  BY <1>1, ClientTurns, DocsReading, DocumentReading, DocsWriting, DocumentWriting,
     DocsFreeVal, DocumentFreeVal
     DEF PtArrayRemove, Docs!PtArrayRemove, Document!PtArrayRemove,
         Docs!parserVars, Document!parserVars, parserVars

(* Also what pt_free_response does with the document it has. *)
LEMMA PtFreeNodeMaps ==
  ASSUME NEW n, ClientTurn, heap' = FreeNode(heap, n), Owned' = Owned \ {n},
         UNCHANGED parserVars
  PROVE  Docs!PtFreeNode(n) /\ Document!PtFreeNode(n)
BY ClientTurns, DocsWriting, DocumentWriting
   DEF Docs!PtFreeNode, Document!PtFreeNode, Docs!parserVars, Document!parserVars, parserVars

(* A call of the program is a call there. *)
LEMMA ClientCallMaps ==
  ASSUME RootsApart, UNCHANGED resp, ClientCall
  PROVE  Docs!ClientCall /\ Document!ClientCall
<1>1. Docs!NodeType = NodeType /\ Document!NodeType = NodeType
  BY DEF Docs!NodeType, Document!NodeType, NodeType
<1>2. ASSUME NEW n \in FreshNodes(heap), NEW t \in NodeType, PtNew(n, t)
      PROVE  Docs!ClientCall /\ Document!ClientCall
  BY <1>1, <1>2, PtNewMaps, DocsReading, DocumentReading DEF Docs!ClientCall, Document!ClientCall
<1>3. ASSUME NEW p \in Live(heap), NEW k \in CKey, NEW v \in Givable(p), PtMapSet(p, k, v)
      PROVE  Docs!ClientCall /\ Document!ClientCall
  BY <1>3, PtMapSetMaps, WhatIsGivable, DocsReading, DocumentReading
     DEF Docs!ClientCall, Document!ClientCall
<1>4. ASSUME NEW p \in Live(heap), NEW k \in CKey, PtMapUnset(p, k)
      PROVE  Docs!ClientCall /\ Document!ClientCall
  BY <1>4, PtMapUnsetMaps, DocsReading, DocumentReading DEF Docs!ClientCall, Document!ClientCall
<1>5. ASSUME NEW p \in Live(heap), NEW v \in Givable(p),
             PtArrayPushFront(p, v) \/ PtArrayPushBack(p, v)
      PROVE  Docs!ClientCall /\ Document!ClientCall
  BY <1>5, PtArrayPushMaps, WhatIsGivable, DocsReading, DocumentReading
     DEF Docs!ClientCall, Document!ClientCall
<1>6. ASSUME NEW p \in Live(heap), NEW x \in Node \cup {NULL}, PtArrayRemove(p, x)
      PROVE  Docs!ClientCall /\ Document!ClientCall
  BY <1>6, PtArrayRemoveMaps, DocsReading, DocumentReading DEF Docs!ClientCall, Document!ClientCall
<1>7. ASSUME NEW n \in held, PtFreeNode(n)
      PROVE  Docs!ClientCall /\ Document!ClientCall
  <2>1. Owned' = Owned \ {n} /\ n \in Owned
    BY <1>7, GivenAway DEF PtFreeNode, Owned
  <2>2. QED
    BY <1>7, <2>1, PtFreeNodeMaps DEF PtFreeNode, Docs!ClientCall, Document!ClientCall
<1>8. QED BY <1>2, <1>3, <1>4, <1>5, <1>6, <1>7 DEF ClientCall

----------------------------------------------------------------------------
(* The invariant: the documents are well formed relative to all that is
   owned, each has one owner, and a call that is being parsed has a response
   with no document yet.                                                    *)

Response == [code : Code \cup {500}, raw : Body \cup {NULL}, root : Node \cup {NULL}]
Answers == [code : Code \cup {500}, body : Body \cup {<<>>}]

CallOK ==
  /\ offer \in Answers /\ answer \in Answers
  /\ phase \in {"idle", "waiting", "answered"}
  /\ resp \in [Resp -> Response \cup {NULL}]
  /\ call \in [parse : BOOLEAN, res : Resp \cup {NULL}] \cup {NULL}
  /\ call = NULL <=> phase = "idle"

RootlessCall == Responded => resp[call.res] # NULL /\ resp[call.res].root = NULL

RootsDiffer ==
  \A r, s \in Resp :
    resp[r] # NULL /\ resp[s] # NULL /\ resp[r].root = resp[s].root /\ resp[r].root # NULL
    => r = s

ClientInv ==
  /\ Docs!IInv
  /\ RootsApart /\ RootsDiffer
  /\ root \notin Owned
  /\ CallOK /\ RootlessCall

(* What is owned is allocated, so a new node is not owned. *)
LEMMA OwnedLive ==
  ASSUME Docs!IInv
  PROVE  Owned \subseteq Live(heap) /\ Owned \subseteq Node
<1>1. Owned \subseteq Docs!Roots
  BY DEF Docs!Roots
<1>2. Docs!Roots \subseteq Live(heap)
  BY DocsReading DEF Docs!IInv, Docs!WellFormed, Docs!OneOwner
<1>3. QED BY <1>1, <1>2 DEF Live

(* The documents part of the invariant, from what the step is there. *)
LEMMA DocsStep ==
  ASSUME Docs!IInv, Docs!Next \/ (UNCHANGED <<vars, Owned>>)
  PROVE  Docs!IInv'
<1>1. [Docs!Next]_(Docs!vars)
  BY DEF vars, parserVars, Docs!vars
<1>2. QED BY <1>1, AddressAssumption, Docs!NextIInv

LEMMA ClientInitInv == ClientInit => ClientInv /\ Document!Init
<1> SUFFICES ASSUME ClientInit PROVE ClientInv /\ Document!Init
  OBVIOUS
<1>1. held = {} /\ ResponseRoots = {} /\ root = NULL /\ Owned = {}
  BY DEF ClientInit, Init, ResponseRoots, Owned
<1>2. Docs!Init /\ Document!Init
  BY <1>1 DEF ClientInit, Init, Docs!Init, Document!Init, Docs!EmptyHeap, Document!EmptyHeap, EmptyHeap
<1>3. Docs!IInv
  BY <1>2, AddressAssumption, Docs!InitIInv
<1>4. CallOK /\ RootlessCall /\ RootsDiffer
  BY DEF ClientInit, CallOK, RootlessCall, RootsDiffer, Responded, Answers,
         Exchange!Init, Exchange!Failure
<1>5. QED BY <1>1, <1>2, <1>3, <1>4 DEF ClientInv, RootsApart

----------------------------------------------------------------------------
(* The steps.  Each is one of the documents', or none. *)

Handled ==
  \/ Docs!Next /\ Document!Next
  \/ UNCHANGED <<heap, root, stack, gram, Owned>>

(* The constructors and the callbacks take nodes that are free. *)
LEMMA NewRoot ==
  ASSUME Docs!IInv, root \notin Owned, Callback
  PROVE  root' \notin Owned
<1>1. root' = root \/ root' \in FreshNodes(heap)
  BY DEF Callback, JsonScalar, JsonStartMap, JsonStartArray, JsonMapKey, JsonEndMap,
         JsonEndArray, RootAfter
<1>2. QED BY <1>1, OwnedLive DEF FreshNodes

(* The calls themselves keep their own books right. *)
LEMMA SameCalls ==
  ASSUME CallOK, RootlessCall, RootsDiffer, UNCHANGED <<resp, call, exchangeVars>>
  PROVE  /\ CallOK' /\ RootlessCall' /\ RootsDiffer'
         /\ ResponseRoots' = ResponseRoots
         /\ held' = held => Owned' = Owned
BY DEF CallOK, RootlessCall, RootsDiffer, Responded, exchangeVars, ResponseRoots, Owned

(* A call of a node function: what the program holds after it is what it held,
   or new.                                                                   *)
LEMMA ClientCallHolds ==
  ASSUME ClientCall
  PROVE  held' \subseteq held \cup FreshNodes(heap) /\ UNCHANGED parserVars
BY DEF ClientCall, PtNew, PtMapSet, PtMapUnset, PtArrayPushFront, PtArrayPushBack,
       PtArrayRemove, PtFreeNode

LEMMA WorkStep ==
  ASSUME ClientInv, Work
  PROVE  ClientInv' /\ Handled
<1>1. CallOK' /\ RootlessCall' /\ RootsDiffer' /\ ResponseRoots' = ResponseRoots
  BY SameCalls DEF Work, ClientInv
<1>2. Owned \subseteq Live(heap) /\ Owned \subseteq Node
  BY OwnedLive DEF ClientInv
<1>3. CASE ClientCall
  <2>1. Docs!Next /\ Document!Next
    BY <1>3, ClientCallMaps DEF Work, ClientInv, Docs!Next, Document!Next
  <2>2. Docs!IInv'
    BY <2>1, DocsStep DEF ClientInv
  <2>3. held' \subseteq held \cup FreshNodes(heap) /\ root' = root /\ gram' = gram
    BY <1>3, ClientCallHolds DEF parserVars
  <2>4. root = NULL
    <3>1. ~Docs!Parsing
      BY <1>3, DocsParser
         DEF ClientCall, PtNew, PtMapSet, PtMapUnset, PtArrayPushFront, PtArrayPushBack,
             PtArrayRemove, PtFreeNode, ClientTurn
    <3>2. QED BY <3>1 DEF ClientInv, Docs!IInv, Docs!StackFollowsGrammar
  <2>5. RootsApart'
    BY <1>1, <1>2, <2>3 DEF ClientInv, RootsApart, FreshNodes, Owned
  <2>6. root' \notin Owned'
    BY <2>3, <2>4, <2>5, AddressAssumption DEF RootsApart, Owned, ResponseRoots
  <2>7. QED BY <1>1, <2>1, <2>2, <2>5, <2>6 DEF ClientInv, Handled
<1>4. CASE PtFromJson
  <2>1. held' = held /\ ParseBegin /\ Owned' = Owned /\ root' = root
    BY <1>1, <1>4 DEF PtFromJson, ParseBegin, Owned
  <2>2. Docs!Next /\ Document!Next
    BY <2>1, DocsParser, DocumentParser DEF Docs!Next, Document!Next, Docs!PtFromJson, Document!PtFromJson
  <2>3. Docs!IInv'
    BY <2>2, DocsStep DEF ClientInv
  <2>4. QED BY <1>1, <2>1, <2>2, <2>3 DEF ClientInv, Handled, RootsApart
<1>5. CASE PtCallback
  <2>1. held' = held /\ Callback /\ Owned' = Owned
    BY <1>1, <1>5 DEF PtCallback, Owned
  <2>2. Docs!Next /\ Document!Next
    BY <2>1, DocsParser, DocumentParser DEF Docs!Next, Document!Next, Docs!PtCallback, Document!PtCallback
  <2>3. Docs!IInv'
    BY <2>2, DocsStep DEF ClientInv
  <2>4. root' \notin Owned'
    BY <2>1, NewRoot DEF ClientInv
  <2>5. QED BY <1>1, <2>1, <2>2, <2>3, <2>4 DEF ClientInv, Handled, RootsApart
<1>6. CASE PtFromJsonReturn
  <2>1. held' = held \cup ({root} \ {NULL}) /\ ParseReturn /\ root' = NULL
    BY <1>6 DEF PtFromJsonReturn, Roots, ParseReturn
  <2>2. Owned' = Docs!Roots /\ Owned' = Document!Roots
    BY <1>1, <2>1 DEF Owned, Docs!Roots, Document!Roots
  <2>3. Docs!Next /\ Document!Next
    BY <2>1, <2>2, DocsParser, DocumentParser
       DEF Docs!Next, Document!Next, Docs!PtFromJsonReturn, Document!PtFromJsonReturn
  <2>4. Docs!IInv'
    BY <2>3, DocsStep DEF ClientInv
  <2>5. root \in Node \cup {NULL}
    BY DEF ClientInv, Docs!IInv, Docs!ParserTypeOK
  <2>6. RootsApart'
    BY <1>1, <2>1, <2>5 DEF ClientInv, RootsApart, Owned, ResponseRoots
  <2>7. root' \notin Owned'
    BY <2>1, <2>6, AddressAssumption DEF RootsApart, Owned, ResponseRoots
  <2>8. QED BY <1>1, <2>3, <2>4, <2>6, <2>7 DEF ClientInv, Handled
<1>7. QED BY <1>3, <1>4, <1>5, <1>6 DEF Work

(* curl and http_operation do not touch the documents. *)
LEMMA NoDocumentStep ==
  ASSUME ClientInv, UNCHANGED vars, UNCHANGED ResponseRoots,
         CallOK', RootlessCall', RootsDiffer'
  PROVE  ClientInv' /\ Handled
<1>1. UNCHANGED <<heap, held, root, stack, gram, Owned>>
  BY DEF vars, Owned
<1>2. Docs!IInv'
  BY <1>1, DocsStep DEF vars, ClientInv
<1>3. QED BY <1>1, <1>2 DEF ClientInv, Handled, RootsApart

LEMMA CallBeginStep ==
  ASSUME ClientInv, NEW parse \in BOOLEAN, CallBegin(parse)
  PROVE  ClientInv' /\ Handled
<1>1. UNCHANGED vars /\ resp' = resp /\ ResponseRoots' = ResponseRoots
  BY DEF CallBegin, ResponseRoots
<1>2. call' = [parse |-> parse, res |-> NULL] /\ call' # NULL
  BY ClientAssumption DEF CallBegin
<1>3. offer' \in Answers /\ answer' \in Answers /\ phase' = "waiting"
  BY DEF CallBegin, Exchange!Ask, Exchange!Offer, ClientInv, CallOK, Answers
<1>4. CallOK'
  BY <1>1, <1>2, <1>3 DEF ClientInv, CallOK
<1>5. RootlessCall' /\ RootsDiffer'
  BY <1>1, <1>2 DEF ClientInv, RootlessCall, RootsDiffer, Responded
<1>6. QED BY <1>1, <1>4, <1>5, NoDocumentStep

LEMMA CallPerformStep ==
  ASSUME ClientInv, CallPerform
  PROVE  ClientInv' /\ Handled
<1>1. UNCHANGED vars /\ resp' = resp /\ call' = call /\ ResponseRoots' = ResponseRoots
  BY DEF CallPerform, ResponseRoots
<1>2. offer' \in Answers /\ answer' \in Answers /\ phase' = "answered" /\ phase = "waiting"
  BY DEF CallPerform, Exchange!Answer, Exchange!Failure, ClientInv, CallOK, Answers
<1>3. CallOK'
  BY <1>1, <1>2 DEF ClientInv, CallOK
<1>4. RootlessCall' /\ RootsDiffer'
  BY <1>1 DEF ClientInv, RootlessCall, RootsDiffer, Responded
<1>5. QED BY <1>1, <1>3, <1>4, NoDocumentStep

LEMMA CallRespondStep ==
  ASSUME ClientInv, NEW r \in Resp, CallRespond(r)
  PROVE  ClientInv' /\ Handled
<1> DEFINE new == [code |-> answer.code, root |-> NULL,
                   raw |-> IF answer.body = <<>> THEN NULL ELSE answer.body]
<1>1. UNCHANGED vars /\ resp[r] = NULL /\ resp' = [resp EXCEPT ![r] = new]
      /\ UNCHANGED <<phase, offer, answer>>
  BY DEF CallRespond, exchangeVars
<1>2. new \in Response /\ new # NULL /\ new.root = NULL
  <2>1. answer.code \in Code \cup {500} /\ answer.body \in Body \cup {<<>>}
    BY DEF ClientInv, CallOK, Answers
  <2>2. new \in Response
    BY <2>1 DEF Response
  <2>3. QED BY <2>2, ClientAssumption DEF Response
<1>3. /\ call # NULL /\ call \in [parse : BOOLEAN, res : Resp \cup {NULL}]
      /\ call' = [call EXCEPT !.res = r]
  BY DEF CallRespond, ClientInv, CallOK
<1>4. call' \in [parse : BOOLEAN, res : Resp \cup {NULL}] /\ call' # NULL /\ call'.res = r
  BY <1>3, ClientAssumption
<1>5. CallOK'
  BY <1>1, <1>2, <1>3, <1>4 DEF ClientInv, CallOK
<1>6. /\ resp'[r] = new
      /\ \A s \in Resp : s # r => resp'[s] = resp[s]
  BY <1>1 DEF ClientInv, CallOK
<1>7. RootlessCall' /\ RootsDiffer'
  BY <1>2, <1>4, <1>6 DEF ClientInv, RootlessCall, RootsDiffer, Responded
<1>8. ResponseRoots' = ResponseRoots
  BY <1>1, <1>2, <1>6 DEF ResponseRoots
<1>9. QED BY <1>1, <1>5, <1>7, <1>8, NoDocumentStep

LEMMA CallUnparsedStep ==
  ASSUME ClientInv, CallUnparsed
  PROVE  ClientInv' /\ Handled
<1>1. UNCHANGED vars /\ resp' = resp /\ call' = NULL /\ ResponseRoots' = ResponseRoots
  BY DEF CallUnparsed, ResponseRoots
<1>2. offer' \in Answers /\ answer' \in Answers /\ phase' = "idle"
  BY DEF CallUnparsed, Exchange!Forget, Exchange!Failure, ClientInv, CallOK, Answers
<1>3. CallOK'
  BY <1>1, <1>2 DEF ClientInv, CallOK
<1>4. RootlessCall' /\ RootsDiffer'
  BY <1>1 DEF ClientInv, RootlessCall, RootsDiffer, Responded
<1>5. QED BY <1>1, <1>3, <1>4, NoDocumentStep

(* The parse of a response is a pt_from_json. *)
LEMMA CallParseStep ==
  ASSUME ClientInv, CallParse
  PROVE  ClientInv' /\ Handled
<1>1. held' = held /\ ParseBegin /\ root' = root /\ UNCHANGED <<resp, call, exchangeVars>>
  BY DEF CallParse, ParseBegin
<1>2. CallOK' /\ RootlessCall' /\ RootsDiffer' /\ ResponseRoots' = ResponseRoots /\ Owned' = Owned
  BY <1>1, SameCalls DEF ClientInv
<1>3. Docs!Next /\ Document!Next
  BY <1>1, <1>2, DocsParser, DocumentParser
     DEF Docs!Next, Document!Next, Docs!PtFromJson, Document!PtFromJson
<1>4. Docs!IInv'
  BY <1>3, DocsStep DEF ClientInv
<1>5. QED BY <1>1, <1>2, <1>3, <1>4 DEF ClientInv, Handled, RootsApart

LEMMA CallCallbackStep ==
  ASSUME ClientInv, CallCallback
  PROVE  ClientInv' /\ Handled
<1>1. held' = held /\ Callback /\ UNCHANGED <<resp, call, exchangeVars>>
  BY DEF CallCallback
<1>2. CallOK' /\ RootlessCall' /\ RootsDiffer' /\ ResponseRoots' = ResponseRoots /\ Owned' = Owned
  BY <1>1, SameCalls DEF ClientInv
<1>3. Docs!Next /\ Document!Next
  BY <1>1, <1>2, DocsParser, DocumentParser
     DEF Docs!Next, Document!Next, Docs!PtCallback, Document!PtCallback
<1>4. Docs!IInv'
  BY <1>3, DocsStep DEF ClientInv
<1>5. root' \notin Owned'
  BY <1>1, <1>2, NewRoot DEF ClientInv
<1>6. QED BY <1>1, <1>2, <1>3, <1>4, <1>5 DEF ClientInv, Handled, RootsApart

(* What was parsed goes to the response, which has nothing yet. *)
LEMMA CallParsedStep ==
  ASSUME ClientInv, CallParsed
  PROVE  ClientInv' /\ Handled
<1> DEFINE r == call.res
<1>1. /\ r \in Resp /\ resp[r] # NULL /\ resp[r] \in Response /\ resp[r].root = NULL
      /\ root \in Node \cup {NULL}
  BY DEF CallParsed, Responded, ClientInv, CallOK, RootlessCall, Docs!IInv, Docs!ParserTypeOK
<1>2. /\ held' = held /\ ParseReturn /\ root' = NULL
      /\ resp' = [resp EXCEPT ![r].root = root] /\ call' = NULL
      /\ offer' \in Answers /\ answer' \in Answers /\ phase' = "idle"
  BY DEF CallParsed, ParseReturn, Exchange!Forget, Exchange!Failure, ClientInv, CallOK, Answers
<1>3. /\ resp'[r] \in Response /\ resp'[r] # NULL /\ resp'[r].root = root
      /\ \A s \in Resp : s # r => resp'[s] = resp[s]
  <2>1. resp'[r] = [resp[r] EXCEPT !.root = root] /\ \A s \in Resp : s # r => resp'[s] = resp[s]
    BY <1>1, <1>2 DEF ClientInv, CallOK
  <2>2. resp'[r] \in Response /\ resp'[r].root = root
    BY <1>1, <2>1 DEF Response
  <2>3. NULL \notin Response
    BY ClientAssumption DEF Response
  <2>4. resp'[r] # NULL
    BY <2>2, <2>3
  <2>5. QED BY <2>1, <2>2, <2>4
<1>4. CallOK' /\ RootlessCall'
  <2>1. resp' \in [Resp -> Response \cup {NULL}]
    BY <1>2, <1>3 DEF ClientInv, CallOK
  <2>2. QED BY <1>2, <2>1 DEF CallOK, RootlessCall, Responded
<1>5. ResponseRoots' = ResponseRoots \cup ({root} \ {NULL})
  BY <1>1, <1>3 DEF ResponseRoots
<1>6. Owned' = Docs!Roots /\ Owned' = Document!Roots
  BY <1>2, <1>5 DEF Owned, Docs!Roots, Document!Roots
<1>7. Docs!Next /\ Document!Next
  BY <1>2, <1>6, DocsParser, DocumentParser
     DEF Docs!Next, Document!Next, Docs!PtFromJsonReturn, Document!PtFromJsonReturn
<1>8. Docs!IInv'
  BY <1>7, DocsStep DEF ClientInv
<1>9. RootsApart'
  BY <1>1, <1>2, <1>5 DEF ClientInv, RootsApart, Owned
<1>10. RootsDiffer'
  <2>1. \A s \in Resp : resp[s] # NULL /\ root # NULL => resp[s].root # root
    BY DEF ClientInv, Owned, ResponseRoots
  <2>2. QED BY <1>1, <1>3, <2>1 DEF ClientInv, RootsDiffer
<1>11. root' \notin Owned'
  BY <1>2, <1>9, AddressAssumption DEF RootsApart, Owned, ResponseRoots
<1>12. QED BY <1>4, <1>7, <1>8, <1>9, <1>10, <1>11 DEF ClientInv, Handled

(* pt_free_response frees its own document, if it has one. *)
LEMMA PtFreeResponseStep ==
  ASSUME ClientInv, NEW r \in Resp, PtFreeResponse(r)
  PROVE  ClientInv' /\ Handled
<1> DEFINE n == resp[r].root
<1>1. /\ resp[r] # NULL /\ ClientTurn /\ heap' = FreeNode(heap, n)
      /\ resp' = [resp EXCEPT ![r] = NULL] /\ call = NULL
      /\ UNCHANGED <<held, root, stack, gram, call, phase, offer, answer>>
  BY DEF PtFreeResponse, parserVars, exchangeVars
<1>2. resp'[r] = NULL /\ \A s \in Resp : s # r => resp'[s] = resp[s]
  BY <1>1 DEF ClientInv, CallOK
<1>3. CallOK' /\ RootlessCall' /\ RootsDiffer'
  BY <1>1, <1>2 DEF ClientInv, CallOK, RootlessCall, RootsDiffer, Responded
<1>4. ResponseRoots' = ResponseRoots \ {n}
  BY <1>1, <1>2 DEF ClientInv, RootsDiffer, ResponseRoots
<1>5. Owned' = Owned \ {n}
  BY <1>1, <1>4, AddressAssumption DEF ClientInv, RootsApart, Owned, ResponseRoots
<1>6. RootsApart' /\ root' \notin Owned'
  BY <1>1, <1>4, <1>5 DEF ClientInv, RootsApart
<1>7. CASE n = NULL
  <2>1. heap' = heap
    BY <1>1, <1>7 DEF FreeNode
  <2>2. Owned' = Owned
    BY <1>5, <1>7, AddressAssumption DEF ClientInv, RootsApart, Owned, ResponseRoots
  <2>3. Docs!IInv'
    BY <1>1, <2>1, <2>2, DocsStep DEF ClientInv, vars, parserVars
  <2>4. QED BY <1>1, <1>3, <1>6, <2>1, <2>2, <2>3 DEF ClientInv, Handled
<1>8. CASE n # NULL
  <2>1. n \in Owned
    BY <1>1, <1>8 DEF Owned, ResponseRoots
  <2>2. Docs!PtFreeNode(n) /\ Document!PtFreeNode(n)
    BY <1>1, <1>5, PtFreeNodeMaps DEF parserVars
  <2>3. Docs!Next /\ Document!Next
    BY <2>1, <2>2 DEF Docs!Next, Document!Next, Docs!ClientCall, Document!ClientCall
  <2>4. Docs!IInv'
    BY <2>3, DocsStep DEF ClientInv
  <2>5. QED BY <1>3, <1>6, <2>3, <2>4 DEF ClientInv, Handled
<1>9. QED BY <1>7, <1>8

----------------------------------------------------------------------------

LEMMA ClientNextInv == ClientInv /\ [ClientNext]_clientVars => ClientInv' /\ Handled
<1> SUFFICES ASSUME ClientInv, [ClientNext]_clientVars PROVE ClientInv' /\ Handled
  OBVIOUS
<1>1. CASE UNCHANGED clientVars
  <2>1. UNCHANGED vars /\ UNCHANGED <<resp, call, exchangeVars>>
    BY <1>1 DEF clientVars
  <2>2. QED BY <2>1, SameCalls, NoDocumentStep DEF ClientInv
<1>2. CASE ClientNext
  BY <1>2, WorkStep, CallBeginStep, CallPerformStep, CallRespondStep, PtFreeResponseStep,
     CallParseStep, CallCallbackStep, CallParsedStep, CallUnparsedStep DEF ClientNext
<1>3. QED BY <1>1, <1>2

LEMMA SpecClientInv == ClientSpec => []ClientInv
<1>1. ClientInit => ClientInv
  BY ClientInitInv
<1>2. ClientInv /\ [ClientNext]_clientVars => ClientInv'
  BY ClientNextInv
<1>3. QED BY <1>1, <1>2, PTL DEF ClientSpec

(* A program that makes HTTP calls handles documents as one that gets them
   from pt_from_json and frees them with pt_free_node: the documents of the
   responses it holds are owned like its own, and pt_free_response frees one
   of them.                                                                  *)
THEOREM ClientHandlesDocuments == ClientSpec => ClientKeepsDocuments
<1>1. ClientInit => Document!Init
  BY ClientInitInv
<1>2. ClientInv /\ [ClientNext]_clientVars => [Document!Next]_(Document!vars)
  BY ClientNextInv DEF Handled, Document!vars
<1>3. QED BY <1>1, <1>2, SpecClientInv, PTL DEF ClientSpec, ClientKeepsDocuments, Document!Spec

(* So whatever calls and frees follow each other, nothing points to freed
   memory, and every allocation is reached from one owner, a response, the
   program or a parse in progress, that frees it once.                       *)
THEOREM ResponsesOwnTheirDocuments ==
  ClientSpec => [](/\ NoDangling(heap)
                   /\ OneOwner(heap, Owned \cup ({root} \ {NULL}))
                   /\ NoLeak(heap, Owned \cup ({root} \ {NULL})))
<1> DEFINE R == Owned \cup ({root} \ {NULL})
<1>1. ASSUME ClientInv PROVE NoDangling(heap) /\ OneOwner(heap, R)
  BY <1>1, DocsReading
     DEF ClientInv, Docs!IInv, Docs!WellFormed, Docs!Roots, Docs!NoDangling, NoDangling,
         Docs!OneOwner, OneOwner, Docs!Container, Container, Docs!IsInjective, IsInjective
<1>2. ASSUME ClientInv PROVE NoLeak(heap, R)
  BY <1>2, DocsReading
     DEF ClientInv, Docs!IInv, Docs!WellFormed, Docs!Roots, Docs!NoLeak, NoLeak,
         Docs!Reached, Reached
<1>3. QED BY <1>1, <1>2, SpecClientInv, PTL

=============================================================================
