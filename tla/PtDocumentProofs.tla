-------------------------- MODULE PtDocumentProofs --------------------------
(***************************************************************************)
(* Theorems about PtDocument, for any number of nodes, cells and keys.      *)
(*                                                                          *)
(* The inductive invariant is IInv: the heap is well formed relative to the *)
(* nodes that the program or a parse owns, and the parser's stack follows   *)
(* yajl's grammar.  The second part is what makes a callback put its node   *)
(* where the first part needs it.                                           *)
(***************************************************************************)
EXTENDS PtDocument, PtHeapProofs

IInv ==
  /\ WellFormed(heap, Roots)
  /\ held \subseteq Node
  /\ ParserTypeOK
  /\ StackFollowsGrammar

(* Between parses only the program owns nodes. *)
LEMMA IdleFacts ==
  ASSUME IInv, ~Parsing
  PROVE  stack = <<>> /\ root = NULL /\ Roots = held
<1>1. stack \in Seq(Frame) /\ Len(stack) = 0 /\ root = NULL
  BY DEF IInv, ParserTypeOK, StackFollowsGrammar
<1>2. stack = <<>>
  BY <1>1, EmptySeq
<1>3. QED BY <1>1, <1>2 DEF Roots

(* The parser's state is of no concern to a step of the program. *)
LEMMA ClientStep ==
  ASSUME IInv, ClientTurn, UNCHANGED parserVars,
         held' \subseteq Node, WellFormed(heap', held')
  PROVE  IInv'
<1>1. ~Parsing /\ ~Parsing' /\ root' = NULL /\ stack' = <<>> /\ stack = <<>>
  BY IdleFacts DEF ClientTurn, Parsing, parserVars
<1>2. Roots' = held'
  BY <1>1 DEF Roots
<1>3. ParserTypeOK'
  BY DEF IInv, ParserTypeOK, parserVars
<1>4. StackFollowsGrammar'
  <2>1. Len(stack') = 0
    BY <1>1, EmptySeq
  <2>2. QED BY <1>1, <2>1 DEF StackFollowsGrammar
<1>5. QED BY <1>2, <1>3, <1>4 DEF IInv

(* The invariant holds before the first call. *)
LEMMA InitIInv == Init => IInv
<1> SUFFICES ASSUME Init PROVE IInv
  OBVIOUS
<1>1. Roots = {} /\ ~Parsing
  BY DEF Init, Roots, Parsing
<1>2. ParserTypeOK
  BY EmptySeq DEF Init, ParserTypeOK
<1>3. StackFollowsGrammar
  <2>1. Len(stack) = 0
    BY EmptySeq DEF Init
  <2>2. QED BY <1>1, <2>1 DEF Init, StackFollowsGrammar
<1>4. QED BY <1>1, <1>2, <1>3, EmptyHeapWellFormed DEF Init, IInv

----------------------------------------------------------------------------
(* The program's calls *)

(* The constructors keep the invariant. *)
LEMMA PtNewInv ==
  ASSUME IInv, NEW n \in FreshNodes(heap), NEW t \in NodeType, PtNew(n, t)
  PROVE  IInv'
<1>1. Roots = held /\ WellFormed(heap, held)
  BY IdleFacts DEF IInv, PtNew, ClientTurn
<1>2. WellFormed(NewNode(heap, n, t), held \cup {n})
  BY <1>1, NewNodeWellFormed
<1>3. held' \subseteq Node
  BY DEF PtNew, IInv, FreshNodes
<1>4. QED BY <1>2, <1>3, ClientStep DEF PtNew

(* pt_map_set keeps it, for a new key and for one that is there. *)
LEMMA PtMapSetInv ==
  ASSUME IInv, NEW p \in Live(heap), NEW k \in CKey, NEW v \in Givable(p),
         PtMapSet(p, k, v)
  PROVE  IInv'
<1>0. ClientTurn /\ UNCHANGED parserVars /\ p \in Node /\ k \in Key
  BY AddressAssumption DEF PtMapSet, Live
<1>1. Roots = held /\ WellFormed(heap, held) /\ heap \in Heap /\ held \subseteq Node
  BY <1>0, IdleFacts, WellFormedParts DEF IInv, ClientTurn, HeapTypeOK
<1>2. CASE heap.type[p] = "MAP" /\ v # NULL
  <2>1. v \in held /\ p \notin Tree(heap, v) /\ held' = held \ {v}
    BY <1>2 DEF Givable, PtMapSet
  <2>2. ASSUME NEW c \in Matches(heap, p, k), MapReplace(c, v)
        PROVE  WellFormed(heap', held \ {v})
    <3> DEFINE g == FreeVal(heap, c)
    <3>1. c \in Cells(heap, p)
      BY DEF Matches
    <3>2. /\ WellFormed(g, held)
          /\ c \in Cells(g, p) /\ g.val[c] = NULL
          /\ \A x \in Node : Kids(g, x) \subseteq Kids(heap, x)
      BY <1>0, <1>1, <3>1, FreeValWellFormed
    <3> HIDE DEF g
    <3>3. p \notin Tree(g, v)
      <4>1. g \in Heap /\ v \in Node
        BY <1>1, <2>1, <3>2, WellFormedParts DEF HeapTypeOK
      <4>2. QED BY <1>1, <2>1, <3>2, <4>1, TreeMonotonic
    <3>4. WellFormed(SetVal(g, c, v), held \ {v})
      BY <1>0, <2>1, <3>2, <3>3, FillWellFormed
    <3>5. QED BY <2>2, <3>4 DEF MapReplace, g
  <2>3. ASSUME MapInsert(p, k, v)
        PROVE  WellFormed(heap', held \ {v})
    <3>1. PICK c \in FreshCells(heap) : heap' = SetVal(AddPair(heap, p, c, k), c, v)
      BY <2>3 DEF MapInsert
    <3> DEFINE g == AddPair(heap, p, c, k)
    <3>2. /\ WellFormed(g, held)
          /\ c \in Cells(g, p) /\ g.val = heap.val
          /\ \A x \in Node : Kids(g, x) = Kids(heap, x)
      BY <1>0, <1>1, <1>2, AddPairWellFormed
    <3> HIDE DEF g
    <3>3. heap.val[c] = NULL
      BY <1>1, WellFormedParts DEF HeapTypeOK, FreshCells
    <3>4. p \notin Tree(g, v)
      <4>1. g \in Heap /\ v \in Node
        BY <1>1, <2>1, <3>2, WellFormedParts DEF HeapTypeOK
      <4>2. QED BY <1>1, <2>1, <3>2, <4>1, TreeMonotonic
    <3>5. WellFormed(SetVal(g, c, v), held \ {v})
      BY <1>0, <2>1, <3>2, <3>3, <3>4, FillWellFormed
    <3>6. QED BY <3>1, <3>5 DEF g
  <2>4. WellFormed(heap', held')
    BY <1>2, <2>1, <2>2, <2>3 DEF PtMapSet
  <2>5. held' \subseteq Node
    BY <1>1, <2>1
  <2>6. QED BY <1>0, <2>4, <2>5, ClientStep
<1>3. CASE ~(heap.type[p] = "MAP" /\ v # NULL)
  <2>1. heap' = heap /\ held' = held
    BY <1>3 DEF PtMapSet
  <2>2. QED BY <1>0, <1>1, <2>1, ClientStep
<1>4. QED BY <1>2, <1>3

(* pt_map_unset keeps it. *)
LEMMA PtMapUnsetInv ==
  ASSUME IInv, NEW p \in Live(heap), NEW k \in CKey, PtMapUnset(p, k)
  PROVE  IInv'
<1>0. ClientTurn /\ UNCHANGED parserVars /\ p \in Node /\ held' = held
  BY DEF PtMapUnset, Live
<1>1. Roots = held /\ WellFormed(heap, held) /\ held \subseteq Node
  BY <1>0, IdleFacts DEF IInv, ClientTurn
<1>2. CASE heap.type[p] = "MAP" /\ Matches(heap, p, k) # {}
  <2>1. PICK c \in Matches(heap, p, k) : heap' = DropPair(FreeVal(heap, c), p, c)
    BY <1>2 DEF PtMapUnset
  <2> DEFINE g == FreeVal(heap, c)
  <2>2. /\ WellFormed(g, held) /\ g.type[p] = "MAP"
        /\ c \in Cells(g, p) /\ g.val[c] = NULL
    BY <1>0, <1>1, <1>2, FreeValWellFormed DEF Matches
  <2> HIDE DEF g
  <2>3. WellFormed(DropPair(g, p, c), held)
    BY <1>0, <2>2, DropPairWellFormed
  <2>4. QED BY <1>0, <1>1, <2>1, <2>3, ClientStep DEF g
<1>3. CASE ~(heap.type[p] = "MAP" /\ Matches(heap, p, k) # {})
  <2>1. heap' = heap
    BY <1>3 DEF PtMapUnset
  <2>2. QED BY <1>0, <1>1, <2>1, ClientStep
<1>4. QED BY <1>2, <1>3

(* g is the heap with a new element, in either place, in array p. *)
LEMMA PushedWellFormed ==
  ASSUME IInv, ClientTurn,
         NEW p \in Live(heap), NEW v \in Givable(p), NEW c \in FreshCells(heap),
         NEW g, WellFormed(g, held), g.val = heap.val, c \in Cells(g, p),
         \A x \in Node : Kids(g, x) = Kids(heap, x)
  PROVE  WellFormed(SetVal(g, c, v), held \ {v})
<1>1. heap \in Heap /\ g \in Heap /\ p \in Node /\ held \subseteq Node
  BY WellFormedParts DEF IInv, HeapTypeOK, Live
<1>2. g.val[c] = NULL
  BY WellFormedParts DEF IInv, HeapTypeOK, FreshCells
<1>3. v \in held \cup {NULL} /\ (v # NULL => p \notin Tree(heap, v))
  BY DEF Givable
<1>4. v # NULL => p \notin Tree(g, v)
  BY <1>1, <1>3, TreeMonotonic
<1>5. QED BY <1>1, <1>2, <1>3, <1>4, FillWellFormed

(* pt_array_push_front keeps it. *)
LEMMA PtArrayPushFrontInv ==
  ASSUME IInv, NEW p \in Live(heap), NEW v \in Givable(p), PtArrayPushFront(p, v)
  PROVE  IInv'
<1>0. ClientTurn /\ UNCHANGED parserVars /\ p \in Node
  BY DEF PtArrayPushFront, Live
<1>1. Roots = held /\ WellFormed(heap, held) /\ held \subseteq Node
  BY <1>0, IdleFacts DEF IInv, ClientTurn
<1>2. CASE heap.type[p] = "ARRAY"
  <2>1. PICK c \in FreshCells(heap) : heap' = SetVal(AddElemFront(heap, p, c), c, v)
    BY <1>2 DEF PtArrayPushFront
  <2> DEFINE g == AddElemFront(heap, p, c)
  <2>2. /\ WellFormed(g, held) /\ g.val = heap.val /\ c \in Cells(g, p)
        /\ \A x \in Node : Kids(g, x) = Kids(heap, x)
    BY <1>0, <1>1, <1>2, AddElemFrontWellFormed
  <2> HIDE DEF g
  <2>3. WellFormed(SetVal(g, c, v), held \ {v})
    BY <1>0, <2>2, PushedWellFormed
  <2>4. held' = held \ {v}
    BY <1>2 DEF PtArrayPushFront
  <2>5. QED BY <1>0, <1>1, <2>1, <2>3, <2>4, ClientStep DEF g
<1>3. CASE heap.type[p] # "ARRAY"
  <2>1. heap' = heap /\ held' = held
    BY <1>3 DEF PtArrayPushFront
  <2>2. QED BY <1>0, <1>1, <2>1, ClientStep
<1>4. QED BY <1>2, <1>3

(* pt_array_push_back keeps it. *)
LEMMA PtArrayPushBackInv ==
  ASSUME IInv, NEW p \in Live(heap), NEW v \in Givable(p), PtArrayPushBack(p, v)
  PROVE  IInv'
<1>0. ClientTurn /\ UNCHANGED parserVars /\ p \in Node
  BY DEF PtArrayPushBack, Live
<1>1. Roots = held /\ WellFormed(heap, held) /\ held \subseteq Node
  BY <1>0, IdleFacts DEF IInv, ClientTurn
<1>2. CASE heap.type[p] = "ARRAY"
  <2>1. PICK c \in FreshCells(heap) : heap' = SetVal(AddElemBack(heap, p, c), c, v)
    BY <1>2 DEF PtArrayPushBack
  <2> DEFINE g == AddElemBack(heap, p, c)
  <2>2. /\ WellFormed(g, held) /\ g.val = heap.val /\ c \in Cells(g, p)
        /\ \A x \in Node : Kids(g, x) = Kids(heap, x)
    BY <1>0, <1>1, <1>2, AddElemBackWellFormed
  <2> HIDE DEF g
  <2>3. WellFormed(SetVal(g, c, v), held \ {v})
    BY <1>0, <2>2, PushedWellFormed
  <2>4. held' = held \ {v}
    BY <1>2 DEF PtArrayPushBack
  <2>5. QED BY <1>0, <1>1, <2>1, <2>3, <2>4, ClientStep DEF g
<1>3. CASE heap.type[p] # "ARRAY"
  <2>1. heap' = heap /\ held' = held
    BY <1>3 DEF PtArrayPushBack
  <2>2. QED BY <1>0, <1>1, <2>1, ClientStep
<1>4. QED BY <1>2, <1>3

(* pt_array_remove keeps it. *)
LEMMA PtArrayRemoveInv ==
  ASSUME IInv, NEW p \in Live(heap), NEW x, PtArrayRemove(p, x)
  PROVE  IInv'
<1>0. ClientTurn /\ UNCHANGED parserVars /\ p \in Node /\ held' = held
  BY DEF PtArrayRemove, Live
<1>1. Roots = held /\ WellFormed(heap, held) /\ held \subseteq Node
  BY <1>0, IdleFacts DEF IInv, ClientTurn
<1>2. CASE heap.type[p] = "ARRAY" /\ \E c \in Cells(heap, p) : heap.val[c] = x
  <2>1. PICK c \in Cells(heap, p) : heap' = DropElem(FreeVal(heap, c), p, c)
    BY <1>2 DEF PtArrayRemove
  <2> DEFINE g == FreeVal(heap, c)
  <2>2. /\ WellFormed(g, held) /\ g.type[p] = "ARRAY"
        /\ c \in Cells(g, p) /\ g.val[c] = NULL
    BY <1>0, <1>1, <1>2, FreeValWellFormed
  <2> HIDE DEF g
  <2>3. WellFormed(DropElem(g, p, c), held)
    BY <1>0, <2>2, DropElemWellFormed
  <2>4. QED BY <1>0, <1>1, <2>1, <2>3, ClientStep DEF g
<1>3. CASE ~(heap.type[p] = "ARRAY" /\ \E c \in Cells(heap, p) : heap.val[c] = x)
  <2>1. heap' = heap
    BY <1>3 DEF PtArrayRemove
  <2>2. QED BY <1>0, <1>1, <2>1, ClientStep
<1>4. QED BY <1>2, <1>3

(* pt_free_node keeps it. *)
LEMMA PtFreeNodeInv ==
  ASSUME IInv, NEW n \in held, PtFreeNode(n)
  PROVE  IInv'
<1>0. ClientTurn /\ UNCHANGED parserVars /\ held' = held \ {n}
  BY DEF PtFreeNode
<1>1. Roots = held /\ WellFormed(heap, held) /\ held \subseteq Node
  BY <1>0, IdleFacts DEF IInv, ClientTurn
<1>2. heap' = FreeTree(heap, n)
  BY <1>1, AddressAssumption DEF PtFreeNode, FreeNode
<1>3. WellFormed(heap', held')
  BY <1>0, <1>1, <1>2, FreeTreeWellFormed
<1>4. QED BY <1>0, <1>1, <1>3, ClientStep

----------------------------------------------------------------------------
(* The parse *)

(* The library's facts on Head and Tail of a nonempty sequence, in one place. *)
LEMMA TailFacts ==
  ASSUME NEW S, NEW s \in Seq(S), s # <<>>
  PROVE  /\ Tail(s) \in Seq(S)
         /\ Len(Tail(s)) = Len(s) - 1
         /\ \A i \in 1..(Len(s) - 1) : Tail(s)[i] = s[i+1]
         /\ Len(s) \in Nat /\ Len(s) > 0
         /\ Head(s) = s[1] /\ Head(s) \in S
BY HeadTailProperties, LenProperties, EmptySeq

(* A sequence with an element put in front, position by position. *)
LEMMA ConsFacts ==
  ASSUME NEW S, NEW s \in Seq(S), NEW e \in S
  PROVE  /\ <<e>> \o s \in Seq(S)
         /\ Len(<<e>> \o s) = Len(s) + 1
         /\ (<<e>> \o s)[1] = e
         /\ \A i \in 2..(Len(s) + 1) : (<<e>> \o s)[i] = s[i-1]
         /\ <<e>> \o s # <<>>
<1> DEFINE t == <<e>> \o s
<1>1. <<e>> \in Seq(S) /\ Len(<<e>>) = 1 /\ <<e>>[1] = e
  OBVIOUS
<1>2. /\ t \in Seq(S)
      /\ Len(t) = Len(s) + 1
      /\ \A i \in 1..(Len(s)+1) : t[i] = IF i <= 1 THEN <<e>>[i] ELSE s[i-1]
      /\ Len(s) \in Nat
  BY <1>1, ConcatProperties, LenProperties
<1>3. t[1] = e
  BY <1>1, <1>2
<1> HIDE DEF t
<1>4. t # <<>>
  BY <1>2, EmptySeq
<1>5. \A i \in 2..(Len(s) + 1) : t[i] = s[i-1]
  BY <1>2
<1>6. QED BY <1>2, <1>3, <1>4, <1>5 DEF t

(* A pair is the concatenation of two singletons. *)
LEMMA PairIsConcat ==
  ASSUME NEW S, NEW q \in S, NEW a \in S
  PROVE  <<q>> \in Seq(S) /\ <<a>> \in Seq(S) /\ <<q>> \o <<a>> = <<q, a>>
<1>1. /\ <<q>> \in Seq(S) /\ Len(<<q>>) = 1 /\ <<q>>[1] = q
      /\ <<a>> \in Seq(S) /\ Len(<<a>>) = 1 /\ <<a>>[1] = a
      /\ <<q, a>> \in Seq(S) /\ Len(<<q, a>>) = 2
      /\ <<q, a>>[1] = q /\ <<q, a>>[2] = a
  OBVIOUS
<1> DEFINE t == <<q>> \o <<a>>
<1>2. /\ t \in Seq(S) /\ Len(t) = Len(<<q>>) + Len(<<a>>)
      /\ \A i \in 1..(Len(<<q>>) + Len(<<a>>)) :
           t[i] = IF i <= Len(<<q>>) THEN <<q>>[i] ELSE <<a>>[i - Len(<<q>>)]
  BY <1>1, ConcatProperties
<1> HIDE DEF t
<1>3. Len(t) = 2 /\ t[1] = q /\ t[2] = a
  BY <1>1, <1>2
<1>4. \A i \in 1..2 : t[i] = <<q, a>>[i]
  BY <1>1, <1>3
<1>5. t = <<q, a>>
  BY <1>1, <1>2, <1>3, <1>4, SeqEqual
<1>6. QED BY <1>1, <1>5 DEF t

(* The head of the grammar's stack is replaced. *)
LEMMA ReplaceHead ==
  ASSUME NEW S, NEW s \in Seq(S), s # <<>>, NEW e \in S
  PROVE  /\ <<e>> \o Tail(s) \in Seq(S)
         /\ Len(<<e>> \o Tail(s)) = Len(s)
         /\ (<<e>> \o Tail(s))[1] = e
         /\ \A i \in 2..Len(s) : (<<e>> \o Tail(s))[i] = s[i]
         /\ <<e>> \o Tail(s) # <<>>
         /\ Len(s) \in Nat /\ Len(s) > 0
<1> DEFINE u == Tail(s)
<1>1. /\ u \in Seq(S) /\ Len(u) = Len(s) - 1 /\ Len(s) \in Nat /\ Len(s) > 0
      /\ \A i \in 1..(Len(s) - 1) : u[i] = s[i+1]
  BY TailFacts
<1> HIDE DEF u
<1>2. /\ <<e>> \o u \in Seq(S)
      /\ Len(<<e>> \o u) = Len(u) + 1
      /\ (<<e>> \o u)[1] = e
      /\ \A i \in 2..(Len(u) + 1) : (<<e>> \o u)[i] = u[i-1]
      /\ <<e>> \o u # <<>>
  BY <1>1, ConsFacts
<1> DEFINE t == <<e>> \o u
<1> HIDE DEF t
<1>3. \A i \in 2..Len(s) : t[i] = s[i]
  <2> SUFFICES ASSUME NEW i \in 2..Len(s) PROVE t[i] = s[i]
    OBVIOUS
  <2>1. i - 1 \in 1..(Len(s) - 1) /\ (i - 1) + 1 = i /\ i \in 2..(Len(u) + 1)
    BY <1>1
  <2>2. t[i] = u[i-1]
    BY <1>2, <2>1 DEF t
  <2>3. QED BY <1>1, <2>1, <2>2
<1>4. QED BY <1>1, <1>2, <1>3 DEF t, u

(* What the grammar says about the stack when yajl passes on a value ... *)
LEMMA ValueFacts ==
  ASSUME IInv, ValueExpected
  PROVE  /\ gram \in Seq(Expect) /\ stack \in Seq(Frame) /\ gram # <<>>
         /\ Len(stack) = Len(gram) - 1
         /\ Head(gram) = gram[1]
         /\ AfterValue \in Expect \ {"PAIR", "VALUE"}
         /\ Head(gram) = "VALUE" => stack = <<>> /\ root = NULL /\ AfterValue = "DONE"
         /\ Head(gram) = "ITEM" => stack # <<>> /\ IntoArray
         /\ Head(gram) = "PAIR" =>
              /\ stack # <<>> /\ InContainer /\ ~IntoArray
              /\ Cur \in Cells(heap, Head(stack).container)
              /\ heap.val[Cur] = NULL
<1>1. /\ gram \in Seq(Expect) /\ stack \in Seq(Frame) /\ gram # <<>>
      /\ Len(stack) = Len(gram) - 1
      /\ gram[Len(gram)] = IF root = NULL THEN "VALUE" ELSE "DONE"
      /\ root = NULL => stack = <<>>
      /\ \A i \in 1..Len(stack) : FrameFits(heap, stack[i], gram[i])
  BY DEF IInv, ParserTypeOK, StackFollowsGrammar, ValueExpected, Parsing
<1>2. /\ Len(gram) \in Nat /\ Len(gram) > 0 /\ Len(stack) \in Nat
      /\ Head(gram) = gram[1]
      /\ stack # <<>> => Head(stack) = stack[1] /\ Len(stack) > 0
      /\ Len(stack) = 0 => stack = <<>>
  BY <1>1, LenProperties, EmptySeq
<1>3. AfterValue \in Expect \ {"PAIR", "VALUE"}
  BY DEF ValueExpected, AfterValue, Expect
<1>4. CASE Head(gram) = "VALUE"
  <2>1. ~FrameFits(heap, stack[1], "VALUE")
    BY DEF FrameFits
  <2>2. Len(stack) = 0
    BY <1>1, <1>2, <1>4, <2>1
  <2>3. gram[Len(gram)] = "VALUE"
    <3>1. Len(gram) = 1
      BY <1>1, <1>2, <2>2
    <3>2. QED BY <1>2, <1>4, <3>1
  <2>4. QED BY <1>1, <1>2, <1>3, <1>4, <2>2, <2>3 DEF AfterValue
<1>5. ASSUME Head(gram) \in {"ITEM", "PAIR"}
      PROVE  stack # <<>> /\ FrameFits(heap, Head(stack), Head(gram)) /\ Head(stack) \in Frame
  <2>1. Len(gram) # 1
    BY <1>1, <1>2, <1>5
  <2>2. Len(stack) > 0
    BY <1>1, <1>2, <2>1
  <2>3. stack # <<>>
    BY <2>2, EmptySeq
  <2>4. FrameFits(heap, stack[1], gram[1])
    BY <1>1, <1>2, <2>2
  <2>5. QED BY <1>1, <1>2, <2>2, <2>3, <2>4, ElementOfSeq
<1>6. CASE Head(gram) = "ITEM"
  <2>1. stack # <<>> /\ FrameFits(heap, Head(stack), "ITEM") /\ Head(stack).container \in Node
    BY <1>5, <1>6 DEF Frame
  <2>2. IntoArray
    BY <2>1, AddressAssumption DEF FrameFits, IntoArray, InContainer, Cur
  <2>3. QED BY <1>1, <1>2, <1>3, <1>6, <2>1, <2>2
<1>7. CASE Head(gram) = "PAIR"
  <2>1. stack # <<>> /\ FrameFits(heap, Head(stack), "PAIR") /\ Head(stack).container \in Node
    BY <1>5, <1>7 DEF Frame
  <2>2. /\ Cur \in Cells(heap, Head(stack).container)
        /\ Cur # NULL /\ heap.val[Cur] = NULL
    BY <2>1 DEF FrameFits, Cur
  <2>3. Cur \in Cell
    <3>1. heap \in Heap
      BY WellFormedParts DEF IInv, HeapTypeOK
    <3>2. QED BY <2>1, <2>2, <3>1, KidsInNode
  <2>4. Cur \notin Node
    BY <2>3, AddressAssumption
  <2>5. QED BY <1>1, <1>2, <1>3, <1>7, <2>1, <2>2, <2>4 DEF InContainer, IntoArray, Cur
<1>8. QED BY <1>4, <1>6, <1>7 DEF ValueExpected

(* ... and what adding the value, a new node, then does. *)
LEMMA ValueAdded ==
  ASSUME IInv, ValueExpected,
         NEW n \in FreshNodes(heap), NEW t \in NodeType, NEW c \in ElemCells,
         heap' = AddToContext(NewNode(heap, n, t), n, c),
         root' = RootAfter(n), held' = held
  PROVE  /\ WellFormed(heap', Roots')
         /\ held' \subseteq Node
         /\ root' \in Node
         /\ stack # <<>> => root' = root
         /\ heap'.type[n] = t
         /\ \A x \in Live(heap) : heap'.type[x] = heap.type[x]
         /\ \A x \in Node : Cells(heap, x) \subseteq Cells(heap', x)
<1> DEFINE g == NewNode(heap, n, t)
           Q == Roots \cup {n}
<1>0. /\ WellFormed(heap, Roots) /\ heap \in Heap /\ held \subseteq Node
      /\ root \in Node \cup {NULL} /\ n \in Node /\ n \notin Live(heap)
  BY WellFormedParts DEF IInv, HeapTypeOK, ParserTypeOK, FreshNodes
<1>1. WellFormed(g, Q) /\ n \notin Roots
  BY <1>0, NewNodeWellFormed
<1>2. /\ g.chain = heap.chain /\ g.val = heap.val /\ g.cells = heap.cells
      /\ g.type = [heap.type EXCEPT ![n] = t]
  BY <1>0 DEF NewNode, Heap
<1> HIDE DEF g
<1>3. /\ g.type[n] = t
      /\ \A x \in Live(heap) : g.type[x] = heap.type[x]
  BY <1>0, <1>2 DEF Heap, Live
<1>4. \A x \in Node : Cells(g, x) = Cells(heap, x) /\ Kids(g, x) = Kids(heap, x)
  BY <1>2 DEF Cells, Kids
<1>5. Kids(g, n) = {}
  BY <1>0, <1>4, FreeNodeIsLeaf
<1>6. g \in Heap /\ n \in Q
  BY <1>1, WellFormedParts DEF HeapTypeOK
<1>7. CASE Head(gram) = "VALUE"
  <2>1. stack = <<>> /\ root = NULL
    BY <1>7, ValueFacts
  <2>2. ~InContainer /\ ~IntoArray
    BY <2>1 DEF InContainer, IntoArray
  <2>3. heap' = g /\ root' = n
    BY <2>2 DEF AddToContext, RootAfter, g
  <2>4. Roots' = Q
    BY <1>0, <2>1, <2>3, AddressAssumption DEF Roots
  <2>5. QED BY <1>0, <1>1, <1>3, <1>4, <2>1, <2>3, <2>4
<1>8. ASSUME Head(gram) # "VALUE"
      PROVE  /\ InContainer /\ stack # <<>> /\ Head(stack) \in Frame
             /\ root' = root /\ root \in Node /\ Roots' = Roots /\ Q \ {n} = Roots
  <2>1. InContainer /\ stack # <<>>
    BY <1>8, ValueFacts DEF ValueExpected, IntoArray
  <2>2. root' = root
    BY <2>1 DEF RootAfter
  <2>3. Head(stack) \in Frame
    BY <2>1, ValueFacts, HeadTailProperties
  <2>4. root \in Node
    BY <1>0, <2>1 DEF IInv, StackFollowsGrammar
  <2>5. QED BY <1>1, <2>1, <2>2, <2>3, <2>4 DEF Roots
<1>9. CASE Head(gram) = "ITEM"
  <2>1. /\ IntoArray /\ Cur \in Node /\ heap.type[Cur] = "ARRAY"
        /\ c \in FreshCells(heap) /\ InContainer
    BY <1>9, ValueFacts DEF IntoArray, ElemCells
  <2>2. /\ Cur \in Live(heap) /\ Cur # n /\ g.type[Cur] = "ARRAY"
        /\ c \in FreshCells(g)
    BY <1>0, <1>2, <1>3, <2>1 DEF Live, FreshCells
  <2> DEFINE e == AddElemBack(g, Cur, c)
  <2>3. /\ WellFormed(e, Q) /\ e.type = g.type /\ e.val = g.val
        /\ c \in Cells(e, Cur)
        /\ \A x \in Node : Kids(e, x) = Kids(g, x)
    BY <1>1, <2>1, <2>2, AddElemBackWellFormed
  <2>4. \A x \in Node : Cells(g, x) \subseteq Cells(e, x)
    <3>1. e.chain = [g.chain EXCEPT ![Cur] = Append(@, c)]
      BY <1>6 DEF AddElemBack, Heap
    <3>2. g.chain[Cur] \in Seq(Cell) /\ c \in Cell
      BY <1>6, <2>1 DEF Heap, FreshCells
    <3>3. ToSet(Append(g.chain[Cur], c)) = ToSet(g.chain[Cur]) \cup {c}
      BY <3>2, ToSetAppend
    <3>4. \A x \in Node : e.chain[x] = IF x = Cur THEN Append(g.chain[x], c) ELSE g.chain[x]
      BY <1>6, <3>1 DEF Heap
    <3> HIDE DEF e
    <3>5. QED BY <3>3, <3>4 DEF Cells
  <2>5. heap' = SetVal(e, c, n)
    BY <2>1, AddressAssumption DEF AddToContext, g
  <2> HIDE DEF e
  <2>6. e \in Heap /\ e.val[c] = NULL
    <3>1. HeapTypeOK(heap)
      BY <1>0, WellFormedParts
    <3>2. QED BY <1>2, <2>1, <2>3, <3>1, WellFormedParts DEF HeapTypeOK, FreshCells
  <2>7. Tree(e, n) = {n}
    BY <1>0, <1>5, <2>3, <2>6, LeafTree
  <2>8. WellFormed(heap', Roots')
    <3>1. WellFormed(SetVal(e, c, n), Q \ {n})
      BY <1>6, <2>1, <2>2, <2>3, <2>6, <2>7, FillWellFormed
    <3>2. QED BY <1>8, <1>9, <2>5, <3>1
  <2>9. /\ heap'.type = e.type
        /\ \A x \in Node : Cells(heap', x) = Cells(e, x)
    <3>1. c \in Cell /\ n \in Node \cup {NULL}
      BY <1>0, <2>1 DEF FreshCells
    <3>2. QED BY <2>5, <2>6, <3>1, SetValFields
  <2>10. QED BY <1>0, <1>3, <1>4, <1>8, <1>9, <2>3, <2>4, <2>8, <2>9
<1>10. CASE Head(gram) = "PAIR"
  <2> DEFINE m == Head(stack).container
  <2>1. /\ InContainer /\ ~IntoArray /\ m \in Node
        /\ Cur \in Cells(heap, m) /\ heap.val[Cur] = NULL
    BY <1>8, <1>10, ValueFacts DEF Frame
  <2>2. Cur \in Cell
    BY <1>0, <2>1, KidsInNode
  <2>3. heap' = SetVal(g, Cur, n)
    BY <2>1, <2>2 DEF AddToContext, g
  <2>4. m # n
    BY <1>0, <2>1, FreeNodeIsLeaf
  <2> HIDE DEF m
  <2>5. WellFormed(heap', Roots')
    <3>1. Tree(g, n) = {n}
      BY <1>0, <1>5, <1>6, LeafTree
    <3>2. WellFormed(SetVal(g, Cur, n), Q \ {n})
      BY <1>1, <1>2, <1>4, <1>6, <2>1, <2>4, <3>1, FillWellFormed
    <3>3. QED BY <1>8, <1>10, <2>3, <3>2
  <2>6. /\ heap'.type = g.type
        /\ \A x \in Node : Cells(heap', x) = Cells(g, x)
    <3>1. n \in Node \cup {NULL}
      BY <1>0
    <3>2. QED BY <1>6, <2>2, <2>3, <3>1, SetValFields
  <2>7. QED BY <1>0, <1>3, <1>4, <1>8, <1>10, <2>5, <2>6
<1>11. QED BY <1>7, <1>9, <1>10 DEF ValueExpected

(* A frame whose container keeps its cells still fits, but for a pair that
   may have got its value.                                                 *)
LEMMA FrameKept ==
  ASSUME NEW h, NEW g, NEW f \in Frame, NEW e, e # "PAIR", FrameFits(h, f, e),
         g.type[f.container] = h.type[f.container],
         Cells(h, f.container) \subseteq Cells(g, f.container)
  PROVE  FrameFits(g, f, e)
BY DEF FrameFits

(* The container of a frame is live. *)
LEMMA FrameFacts ==
  ASSUME NEW h, NEW f \in Frame, NEW e, FrameFits(h, f, e)
  PROVE  /\ f.container \in Live(h)
         /\ e = "PAIR" => FrameFits(h, f, "KEY")
         /\ e # "VALUE" /\ e # "DONE"
BY DEF FrameFits, Frame, Live

(* The frames fit the grammar after a value was added. *)
LEMMA FramesAfterValue ==
  ASSUME IInv, ValueExpected, NEW g,
         \A x \in Live(heap) : g.type[x] = heap.type[x],
         \A x \in Node : Cells(heap, x) \subseteq Cells(g, x)
  PROVE  LET u == <<AfterValue>> \o Tail(gram)
         IN  /\ u \in Seq(Expect) /\ u # <<>> /\ Len(u) = Len(gram)
             /\ stack \in Seq(Frame) /\ Len(stack) = Len(u) - 1
             /\ \A i \in 1..Len(stack) : FrameFits(g, stack[i], u[i]) /\ u[i] # "PAIR"
             /\ u[Len(u)] = "DONE"
<1> DEFINE u == <<AfterValue>> \o Tail(gram)
<1>1. /\ gram \in Seq(Expect) /\ stack \in Seq(Frame) /\ gram # <<>>
      /\ Len(stack) = Len(gram) - 1
      /\ AfterValue \in Expect \ {"PAIR", "VALUE"}
      /\ Head(gram) = gram[1]
      /\ Head(gram) = "VALUE" => stack = <<>> /\ AfterValue = "DONE"
      /\ Head(gram) = "ITEM" => stack # <<>>
      /\ Head(gram) = "PAIR" => stack # <<>>
  BY ValueFacts
<1>2. /\ u \in Seq(Expect)
      /\ Len(u) = Len(gram)
      /\ u[1] = AfterValue
      /\ \A i \in 2..Len(gram) : u[i] = gram[i]
      /\ u # <<>>
      /\ Len(gram) \in Nat /\ Len(gram) > 0
  BY <1>1, ReplaceHead
<1> HIDE DEF u
<1>3. /\ \A i \in 1..Len(stack) : FrameFits(heap, stack[i], gram[i])
      /\ \A i \in 2..Len(stack) : gram[i] # "PAIR"
      /\ gram[Len(gram)] = IF root = NULL THEN "VALUE" ELSE "DONE"
      /\ root = NULL => stack = <<>>
  BY DEF IInv, StackFollowsGrammar, ValueExpected
<1>4. ASSUME NEW i \in 1..Len(stack) PROVE FrameFits(g, stack[i], u[i]) /\ u[i] # "PAIR"
  <2>1. stack[i] \in Frame /\ FrameFits(heap, stack[i], gram[i])
    BY <1>1, <1>3, ElementOfSeq
  <2>2. \A e : e # "PAIR" /\ FrameFits(heap, stack[i], e) => FrameFits(g, stack[i], e)
    BY <2>1, FrameFacts, FrameKept DEF Frame
  <2>3. CASE i = 1
    <3>1. CASE Head(gram) = "PAIR"
      <4>1. AfterValue = "KEY"
        BY <3>1 DEF AfterValue
      <4>2. FrameFits(heap, stack[i], "KEY")
        BY <1>1, <2>1, <2>3, <3>1, FrameFacts
      <4>3. QED BY <1>2, <2>2, <2>3, <4>1, <4>2
    <3>2. CASE Head(gram) = "ITEM"
      <4>1. AfterValue = "ITEM"
        BY <3>2 DEF AfterValue
      <4>2. QED BY <1>1, <1>2, <2>1, <2>2, <2>3, <3>2, <4>1
    <3>3. Head(gram) # "VALUE"
      BY <1>1, <2>1, <2>3, FrameFacts
    <3>4. QED BY <3>1, <3>2, <3>3 DEF ValueExpected
  <2>4. CASE i # 1
    <3>1. i \in 2..Len(stack) /\ i \in 2..Len(gram)
      BY <1>1, <1>2, <2>4
    <3>2. QED BY <1>2, <1>3, <2>1, <2>2, <3>1
  <2>5. QED BY <2>3, <2>4
<1>5. u[Len(u)] = "DONE"
  <2>1. CASE Len(gram) = 1
    <3>1. stack = <<>>
      BY <1>1, <2>1, EmptySeq
    <3>2. AfterValue = "DONE"
      BY <1>1, <3>1 DEF ValueExpected
    <3>3. QED BY <1>2, <2>1, <3>2
  <2>2. CASE Len(gram) # 1
    <3>1. stack # <<>>
      BY <1>1, <1>2, <2>2, EmptySeq
    <3>2. gram[Len(gram)] = "DONE" /\ Len(gram) \in 2..Len(gram)
      BY <1>2, <1>3, <2>2, <3>1
    <3>3. QED BY <1>2, <3>2
  <2>3. QED BY <2>1, <2>2
<1>6. QED BY <1>1, <1>2, <1>4, <1>5 DEF u

(* json_null, json_boolean, json_integer, json_double and json_string keep the
   invariant. *)
LEMMA JsonScalarInv ==
  ASSUME IInv, NEW n \in FreshNodes(heap), NEW t \in NodeType, NEW c \in ElemCells,
         JsonScalar(n, t, c), held' = held
  PROVE  IInv'
<1>1. /\ ValueExpected /\ stack' = stack
      /\ gram' = <<AfterValue>> \o Tail(gram)
      /\ heap' = AddToContext(NewNode(heap, n, t), n, c)
      /\ root' = RootAfter(n)
  BY DEF JsonScalar
<1>2. /\ WellFormed(heap', Roots') /\ held' \subseteq Node /\ root' \in Node
      /\ \A x \in Live(heap) : heap'.type[x] = heap.type[x]
      /\ \A x \in Node : Cells(heap, x) \subseteq Cells(heap', x)
  BY <1>1, ValueAdded
<1>3. /\ gram' \in Seq(Expect) /\ gram' # <<>> /\ Len(gram') = Len(gram)
      /\ stack' \in Seq(Frame) /\ Len(stack') = Len(gram') - 1
      /\ \A i \in 1..Len(stack') : FrameFits(heap', stack'[i], gram'[i]) /\ gram'[i] # "PAIR"
      /\ gram'[Len(gram')] = "DONE"
  BY <1>1, <1>2, FramesAfterValue
<1>4. StackFollowsGrammar'
  <2>1. Len(stack') \in Nat
    BY <1>3, LenProperties
  <2>2. root' # NULL
    BY <1>2, AddressAssumption
  <2>3. QED BY <1>3, <2>1, <2>2 DEF StackFollowsGrammar, Parsing
<1>5. QED BY <1>2, <1>3, <1>4 DEF IInv, ParserTypeOK

(* A container is opened: q is what the grammar first expects in it. *)
LEMMA OpenedInv ==
  ASSUME IInv, ValueExpected,
         NEW n \in FreshNodes(heap), NEW t \in Container, NEW c \in ElemCells,
         NEW f \in Frame, NEW q \in Expect \ {"PAIR"},
         heap' = AddToContext(NewNode(heap, n, t), n, c),
         root' = RootAfter(n),
         stack' = <<f>> \o stack,
         gram' = <<q, AfterValue>> \o Tail(gram),
         held' = held,
         heap'.type[n] = t => FrameFits(heap', f, q)
  PROVE  IInv'
<1> DEFINE u == <<AfterValue>> \o Tail(gram)
<1>1. t \in NodeType
  BY DEF Container, NodeType
<1>2. /\ WellFormed(heap', Roots') /\ held' \subseteq Node /\ root' \in Node
      /\ heap'.type[n] = t
      /\ \A x \in Live(heap) : heap'.type[x] = heap.type[x]
      /\ \A x \in Node : Cells(heap, x) \subseteq Cells(heap', x)
  BY <1>1, ValueAdded
<1>3. /\ u \in Seq(Expect) /\ u # <<>>
      /\ stack \in Seq(Frame) /\ Len(stack) = Len(u) - 1
      /\ \A i \in 1..Len(stack) : FrameFits(heap', stack[i], u[i]) /\ u[i] # "PAIR"
      /\ u[Len(u)] = "DONE"
  BY <1>2, FramesAfterValue
<1>4. gram' = <<q>> \o u
  <2> DEFINE a == AfterValue
             s == Tail(gram)
  <2>1. a \in Expect /\ gram \in Seq(Expect) /\ gram # <<>>
    BY ValueFacts
  <2>2. s \in Seq(Expect)
    BY <2>1, TailFacts
  <2>3. gram' = <<q, a>> \o s /\ u = <<a>> \o s
    OBVIOUS
  <2> HIDE DEF a, s, u
  <2>4. <<q>> \in Seq(Expect) /\ <<a>> \in Seq(Expect) /\ <<q>> \o <<a>> = <<q, a>>
    BY <2>1, PairIsConcat
  <2>5. (<<q>> \o <<a>>) \o s = <<q>> \o (<<a>> \o s)
    BY <2>2, <2>4, ConcatAssociative
  <2>6. QED BY <2>3, <2>4, <2>5
<1> HIDE DEF u
<1>5. /\ gram' \in Seq(Expect) /\ Len(gram') = Len(u) + 1
      /\ gram'[1] = q
      /\ \A i \in 2..(Len(u) + 1) : gram'[i] = u[i-1]
      /\ gram' # <<>>
  <2> DEFINE w == <<q>> \o u
  <2>1. /\ w \in Seq(Expect) /\ Len(w) = Len(u) + 1
        /\ w[1] = q
        /\ \A i \in 2..(Len(u) + 1) : w[i] = u[i-1]
        /\ w # <<>>
    BY <1>3, ConsFacts
  <2> HIDE DEF w
  <2>2. gram' = w
    BY <1>4 DEF w
  <2>3. QED BY <2>1, <2>2
<1>6. /\ stack' \in Seq(Frame) /\ Len(stack') = Len(stack) + 1
      /\ stack'[1] = f
      /\ \A i \in 2..(Len(stack) + 1) : stack'[i] = stack[i-1]
  BY <1>3, ConsFacts
<1>7. Len(stack) \in Nat /\ Len(u) \in Nat /\ Len(u) = Len(stack) + 1
  BY <1>3, LenProperties
<1>8. ASSUME NEW i \in 2..Len(stack')
      PROVE  FrameFits(heap', stack'[i], gram'[i]) /\ gram'[i] # "PAIR"
  <2>1. i - 1 \in 1..Len(stack) /\ i \in 2..(Len(stack) + 1) /\ i \in 2..(Len(u) + 1)
    BY <1>6, <1>7
  <2>2. stack'[i] = stack[i-1] /\ gram'[i] = u[i-1]
    BY <1>5, <1>6, <2>1
  <2>3. QED BY <1>3, <2>1, <2>2
<1>9. FrameFits(heap', stack'[1], gram'[1])
  BY <1>2, <1>5, <1>6
<1>10. gram'[Len(gram')] = "DONE"
  <2>1. Len(gram') \in 2..(Len(u) + 1) /\ Len(gram') - 1 = Len(u)
    BY <1>5, <1>7
  <2>2. QED BY <1>3, <1>5, <2>1
<1>11. StackFollowsGrammar'
  <2>1. Len(stack') = Len(gram') - 1
    BY <1>5, <1>6, <1>7
  <2>2. \A i \in 1..Len(stack') : FrameFits(heap', stack'[i], gram'[i])
    <3>1. \A i \in 1..Len(stack') : i = 1 \/ i \in 2..Len(stack')
      BY <1>6, <1>7
    <3>2. QED BY <1>8, <1>9, <3>1
  <2>3. root' # NULL
    BY <1>2, AddressAssumption
  <2>4. QED BY <1>5, <1>8, <1>10, <2>1, <2>2, <2>3 DEF StackFollowsGrammar, Parsing
<1>12. QED BY <1>2, <1>5, <1>6, <1>11 DEF IInv, ParserTypeOK

(* json_start_map keeps it. *)
LEMMA JsonStartMapInv ==
  ASSUME IInv, NEW n \in FreshNodes(heap), NEW c \in ElemCells,
         JsonStartMap(n, c), held' = held
  PROVE  IInv'
<1> DEFINE f == [container |-> n, cur |-> NULL]
<1>1. f \in Frame /\ "KEY" \in Expect \ {"PAIR"} /\ "MAP" \in Container
  BY DEF Frame, FreshNodes, Expect, Container
<1>2. heap'.type[n] = "MAP" => FrameFits(heap', f, "KEY")
  BY DEF FrameFits
<1> HIDE DEF f
<1>3. /\ ValueExpected
      /\ heap' = AddToContext(NewNode(heap, n, "MAP"), n, c)
      /\ root' = RootAfter(n)
      /\ stack' = <<f>> \o stack
      /\ gram' = <<"KEY", AfterValue>> \o Tail(gram)
  BY DEF JsonStartMap, f
<1>4. QED BY <1>1, <1>2, <1>3, OpenedInv

(* json_start_array keeps it. *)
LEMMA JsonStartArrayInv ==
  ASSUME IInv, NEW n \in FreshNodes(heap), NEW c \in ElemCells,
         JsonStartArray(n, c), held' = held
  PROVE  IInv'
<1> DEFINE f == [container |-> n, cur |-> n]
<1>1. f \in Frame /\ "ITEM" \in Expect \ {"PAIR"} /\ "ARRAY" \in Container
  BY DEF Frame, FreshNodes, Expect, Container
<1>2. heap'.type[n] = "ARRAY" => FrameFits(heap', f, "ITEM")
  BY DEF FrameFits
<1> HIDE DEF f
<1>3. /\ ValueExpected
      /\ heap' = AddToContext(NewNode(heap, n, "ARRAY"), n, c)
      /\ root' = RootAfter(n)
      /\ stack' = <<f>> \o stack
      /\ gram' = <<"ITEM", AfterValue>> \o Tail(gram)
  BY DEF JsonStartArray, f
<1>4. QED BY <1>1, <1>2, <1>3, OpenedInv

(* Where yajl takes a key or the end of a container, that container is on top
   of the stack. *)
LEMMA KeyFacts ==
  ASSUME IInv, Parsing, Head(gram) \in {"KEY", "ITEM"}
  PROVE  /\ gram \in Seq(Expect) /\ stack \in Seq(Frame)
         /\ gram # <<>> /\ stack # <<>>
         /\ Len(stack) = Len(gram) - 1 /\ Len(gram) \in Nat /\ Len(gram) > 1
         /\ Head(gram) = gram[1] /\ Head(stack) = stack[1] /\ Head(stack) \in Frame
         /\ FrameFits(heap, Head(stack), Head(gram))
         /\ gram[Len(gram)] = "DONE"
         /\ root \in Node
<1>1. /\ gram \in Seq(Expect) /\ stack \in Seq(Frame) /\ gram # <<>>
      /\ Len(stack) = Len(gram) - 1
      /\ \A i \in 1..Len(stack) : FrameFits(heap, stack[i], gram[i])
      /\ gram[Len(gram)] = IF root = NULL THEN "VALUE" ELSE "DONE"
      /\ root = NULL => stack = <<>>
      /\ root \in Node \cup {NULL}
  BY DEF IInv, ParserTypeOK, StackFollowsGrammar, Parsing
<1>2. Len(gram) \in Nat /\ Len(gram) > 0 /\ Head(gram) = gram[1]
  BY <1>1, TailFacts
<1>3. Len(gram) # 1
  BY <1>1, <1>2
<1>4. stack # <<>>
  BY <1>1, <1>2, <1>3, EmptySeq
<1>5. Head(stack) = stack[1] /\ Head(stack) \in Frame
  BY <1>1, <1>4, TailFacts
<1>6. FrameFits(heap, stack[1], gram[1])
  BY <1>1, <1>2, <1>3
<1>7. QED BY <1>1, <1>2, <1>3, <1>4, <1>5, <1>6

(* json_map_key keeps the invariant. *)
LEMMA JsonMapKeyInv ==
  ASSUME IInv, NEW c \in FreshCells(heap), NEW k \in Key,
         JsonMapKey(c, k), held' = held
  PROVE  IInv'
<1> DEFINE m == Head(stack).container
<1>1. /\ Parsing /\ Head(gram) = "KEY"
      /\ heap' = AddPair(heap, m, c, k)
      /\ stack' = [stack EXCEPT ![1].cur = c]
      /\ gram' = <<"PAIR">> \o Tail(gram)
      /\ root' = root
  BY DEF JsonMapKey
<1>2. /\ gram \in Seq(Expect) /\ stack \in Seq(Frame)
      /\ gram # <<>> /\ stack # <<>>
      /\ Len(stack) = Len(gram) - 1 /\ Len(gram) \in Nat /\ Len(gram) > 1
      /\ Head(stack) = stack[1] /\ stack[1] \in Frame
      /\ FrameFits(heap, stack[1], "KEY")
      /\ gram[Len(gram)] = "DONE"
      /\ root \in Node
  BY <1>1, KeyFacts
<1>3. m \in Node /\ heap.type[m] = "MAP" /\ c \in Cell
  BY <1>2 DEF Frame, FrameFits, FreshCells
<1>4. /\ WellFormed(heap, Roots) /\ heap \in Heap /\ heap.val[c] = NULL
      /\ held \subseteq Node
  BY WellFormedParts DEF IInv, HeapTypeOK, FreshCells
<1>5. /\ WellFormed(heap', Roots)
      /\ heap'.type = heap.type /\ heap'.val = heap.val
      /\ c \in Cells(heap', m)
  BY <1>1, <1>3, <1>4, AddPairWellFormed
<1>6. Roots' = Roots
  BY <1>1 DEF Roots
<1>7. \A x \in Node : Cells(heap, x) \subseteq Cells(heap', x)
  <2>1. heap'.chain = [heap.chain EXCEPT ![m] = Append(@, c)]
    BY <1>1, <1>4 DEF AddPair, Heap
  <2>2. heap.chain[m] \in Seq(Cell)
    BY <1>3, <1>4 DEF Heap
  <2>3. ToSet(Append(heap.chain[m], c)) = ToSet(heap.chain[m]) \cup {c}
    BY <1>3, <2>2, ToSetAppend
  <2>4. \A x \in Node : heap'.chain[x] = IF x = m THEN Append(heap.chain[x], c) ELSE heap.chain[x]
    BY <1>4, <2>1 DEF Heap
  <2>5. QED BY <2>3, <2>4 DEF Cells
<1>8. /\ gram' \in Seq(Expect) /\ Len(gram') = Len(gram)
      /\ gram'[1] = "PAIR"
      /\ \A i \in 2..Len(gram) : gram'[i] = gram[i]
      /\ gram' # <<>>
  <2>1. "PAIR" \in Expect
    BY DEF Expect
  <2>2. QED BY <1>1, <1>2, <2>1, ReplaceHead
<1> DEFINE f == [stack[1] EXCEPT !.cur = c]
<1>9. f \in Frame /\ f.container = m /\ f.cur = c
  BY <1>2, <1>3 DEF Frame
<1>10. /\ stack' \in Seq(Frame) /\ Len(stack') = Len(stack)
       /\ stack'[1] = f
       /\ \A i \in 2..Len(stack) : stack'[i] = stack[i]
  <2>1. stack' = [stack EXCEPT ![1] = f]
    BY <1>1
  <2>2. 1 \in 1..Len(stack)
    BY <1>2
  <2> HIDE DEF f
  <2>3. /\ [stack EXCEPT ![1] = f] \in Seq(Frame)
        /\ Len([stack EXCEPT ![1] = f]) = Len(stack)
        /\ \A j \in 1..Len(stack) : [stack EXCEPT ![1] = f][j] = IF j = 1 THEN f ELSE stack[j]
    BY <1>2, <1>9, <2>2, ExceptSeq
  <2>4. QED BY <2>1, <2>2, <2>3
<1>11. FrameFits(heap', f, "PAIR")
  BY <1>3, <1>4, <1>5, <1>9, AddressAssumption DEF FrameFits
<1> HIDE DEF f
<1>12. ASSUME NEW i \in 2..Len(stack)
       PROVE  FrameFits(heap', stack'[i], gram'[i]) /\ gram'[i] # "PAIR"
  <2>1. i \in 1..Len(stack) /\ i \in 2..Len(gram)
    BY <1>2
  <2>2. FrameFits(heap, stack[i], gram[i]) /\ gram[i] # "PAIR" /\ stack[i] \in Frame
    BY <1>1, <1>2, <2>1, ElementOfSeq DEF IInv, StackFollowsGrammar
  <2>3. FrameFits(heap', stack[i], gram[i])
    BY <1>5, <1>7, <2>2, FrameKept DEF Frame
  <2>4. QED BY <1>8, <1>10, <2>1, <2>2, <2>3
<1>13. StackFollowsGrammar'
  <2>1. Len(stack') = Len(gram') - 1
    BY <1>2, <1>8, <1>10
  <2>2. \A i \in 1..Len(stack') : FrameFits(heap', stack'[i], gram'[i])
    <3>1. \A i \in 1..Len(stack') : i = 1 \/ i \in 2..Len(stack)
      BY <1>2, <1>10
    <3>2. QED BY <1>8, <1>10, <1>11, <1>12, <3>1
  <2>3. gram'[Len(gram')] = "DONE"
    BY <1>2, <1>8
  <2>4. root' # NULL
    BY <1>1, <1>2, AddressAssumption
  <2>5. QED BY <1>8, <1>10, <1>12, <2>1, <2>2, <2>3, <2>4 DEF StackFollowsGrammar, Parsing
<1>14. QED
  BY <1>1, <1>2, <1>4, <1>5, <1>6, <1>8, <1>10, <1>13 DEF IInv, ParserTypeOK

(* The end of a map or of an array. *)
LEMMA ClosedInv ==
  ASSUME IInv, Parsing, Head(gram) \in {"KEY", "ITEM"},
         stack' = Tail(stack), gram' = Tail(gram), UNCHANGED <<heap, root, held>>
  PROVE  IInv'
<1>1. /\ gram \in Seq(Expect) /\ stack \in Seq(Frame)
      /\ gram # <<>> /\ stack # <<>>
      /\ Len(stack) = Len(gram) - 1 /\ Len(gram) \in Nat /\ Len(gram) > 1
      /\ gram[Len(gram)] = "DONE"
      /\ root \in Node
  BY KeyFacts
<1>2. /\ \A i \in 1..Len(stack) : FrameFits(heap, stack[i], gram[i])
      /\ \A i \in 2..Len(stack) : gram[i] # "PAIR"
  BY DEF IInv, StackFollowsGrammar
<1>3. /\ gram' \in Seq(Expect) /\ Len(gram') = Len(gram) - 1
      /\ \A i \in 1..(Len(gram) - 1) : gram'[i] = gram[i+1]
  BY <1>1, TailFacts
<1>4. /\ stack' \in Seq(Frame) /\ Len(stack') = Len(stack) - 1
      /\ \A i \in 1..(Len(stack) - 1) : stack'[i] = stack[i+1]
  BY <1>1, TailFacts
<1>5. ASSUME NEW i \in 1..Len(stack')
      PROVE  FrameFits(heap', stack'[i], gram'[i]) /\ gram'[i] # "PAIR"
  <2>1. /\ i + 1 \in 1..Len(stack) /\ i + 1 \in 2..Len(stack)
        /\ i \in 1..(Len(stack) - 1) /\ i \in 1..(Len(gram) - 1)
    BY <1>1, <1>4
  <2>2. QED BY <1>2, <1>3, <1>4, <2>1
<1>6. gram'[Len(gram')] = "DONE" /\ gram' # <<>>
  <2>1. Len(gram') \in 1..(Len(gram) - 1) /\ Len(gram') + 1 = Len(gram)
    BY <1>1, <1>3
  <2>2. QED BY <1>1, <1>3, <2>1, EmptySeq
<1>7. StackFollowsGrammar'
  <2>1. Len(stack') = Len(gram') - 1
    BY <1>1, <1>3, <1>4
  <2>2. root' # NULL
    BY <1>1, AddressAssumption
  <2>3. \A i \in 2..Len(stack') : i \in 1..Len(stack')
    BY <1>4, LenProperties
  <2>4. QED BY <1>5, <1>6, <2>1, <2>2, <2>3 DEF StackFollowsGrammar, Parsing
<1>8. QED BY <1>1, <1>3, <1>4, <1>7 DEF IInv, ParserTypeOK, Roots

(* The start of parse_json keeps it. *)
LEMMA ParseBeginInv ==
  ASSUME IInv, ParseBegin, held' = held
  PROVE  IInv'
<1>1. ~Parsing /\ gram' = <<"VALUE">> /\ UNCHANGED <<heap, root, stack, held>>
  BY DEF ParseBegin
<1>2. stack = <<>> /\ root = NULL
  BY <1>1, IdleFacts
<1>3. /\ gram' \in Seq(Expect) /\ Len(gram') = 1 /\ gram'[1] = "VALUE"
      /\ gram' # <<>>
  BY <1>1 DEF Expect
<1>4. StackFollowsGrammar'
  <2>1. Len(stack') = 0
    BY <1>1, <1>2, EmptySeq
  <2>2. QED BY <1>1, <1>2, <1>3, <2>1 DEF StackFollowsGrammar, Parsing
<1>5. QED BY <1>1, <1>3, <1>4 DEF IInv, ParserTypeOK, Roots

(* The end of parse_json keeps it, wherever yajl stopped. *)
LEMMA PtFromJsonReturnInv ==
  ASSUME IInv, PtFromJsonReturn
  PROVE  IInv'
<1>1. /\ root' = NULL /\ stack' = <<>> /\ gram' = <<>>
      /\ heap' = heap /\ held' = Roots
  BY DEF PtFromJsonReturn, ParseReturn
<1>2. Roots' = Roots
  BY <1>1 DEF Roots
<1>3. Roots \subseteq Node
  BY DEF IInv, Roots, ParserTypeOK
<1>4. ParserTypeOK'
  BY <1>1, EmptySeq DEF ParserTypeOK
<1>5. StackFollowsGrammar'
  <2>1. Len(stack') = 0
    BY <1>1, EmptySeq
  <2>2. QED BY <1>1, <2>1 DEF StackFollowsGrammar, Parsing
<1>6. QED BY <1>1, <1>2, <1>3, <1>4, <1>5 DEF IInv

----------------------------------------------------------------------------
(* Every step keeps IInv. *)
LEMMA NextIInv == IInv /\ [Next]_vars => IInv'
<1> SUFFICES ASSUME IInv, [Next]_vars PROVE IInv'
  OBVIOUS
<1>1. CASE ClientCall
  <2>1. ASSUME NEW n \in FreshNodes(heap), NEW t \in NodeType, PtNew(n, t) PROVE IInv'
    BY <2>1, PtNewInv
  <2>2. ASSUME NEW p \in Live(heap), NEW k \in CKey, NEW v \in Givable(p), PtMapSet(p, k, v)
        PROVE  IInv'
    BY <2>2, PtMapSetInv
  <2>3. ASSUME NEW p \in Live(heap), NEW k \in CKey, PtMapUnset(p, k) PROVE IInv'
    BY <2>3, PtMapUnsetInv
  <2>4. ASSUME NEW p \in Live(heap), NEW v \in Givable(p), PtArrayPushFront(p, v) PROVE IInv'
    BY <2>4, PtArrayPushFrontInv
  <2>5. ASSUME NEW p \in Live(heap), NEW v \in Givable(p), PtArrayPushBack(p, v) PROVE IInv'
    BY <2>5, PtArrayPushBackInv
  <2>6. ASSUME NEW p \in Live(heap), NEW x \in Node \cup {NULL}, PtArrayRemove(p, x) PROVE IInv'
    BY <2>6, PtArrayRemoveInv
  <2>7. ASSUME NEW n \in held, PtFreeNode(n) PROVE IInv'
    BY <2>7, PtFreeNodeInv
  <2>8. QED BY <1>1, <2>1, <2>2, <2>3, <2>4, <2>5, <2>6, <2>7 DEF ClientCall
<1>2. CASE PtFromJson
  BY <1>2, ParseBeginInv DEF PtFromJson
<1>3. CASE PtCallback
  <2>1. held' = held /\ Callback
    BY <1>3 DEF PtCallback
  <2>2. ASSUME NEW n \in FreshNodes(heap), NEW c \in ElemCells,
               NEW t \in NodeType \ Container, JsonScalar(n, t, c)
        PROVE  IInv'
    BY <2>1, <2>2, JsonScalarInv
  <2>3. ASSUME NEW n \in FreshNodes(heap), NEW c \in ElemCells, JsonStartMap(n, c)
        PROVE  IInv'
    BY <2>1, <2>3, JsonStartMapInv
  <2>4. ASSUME NEW n \in FreshNodes(heap), NEW c \in ElemCells, JsonStartArray(n, c)
        PROVE  IInv'
    BY <2>1, <2>4, JsonStartArrayInv
  <2>5. ASSUME NEW c \in FreshCells(heap), NEW k \in Key, JsonMapKey(c, k)
        PROVE  IInv'
    BY <2>1, <2>5, JsonMapKeyInv
  <2>6. CASE JsonEndMap
    BY <2>1, <2>6, ClosedInv DEF JsonEndMap
  <2>7. CASE JsonEndArray
    BY <2>1, <2>7, ClosedInv DEF JsonEndArray
  <2>8. QED BY <2>1, <2>2, <2>3, <2>4, <2>5, <2>6, <2>7 DEF Callback
<1>4. CASE PtFromJsonReturn
  BY <1>4, PtFromJsonReturnInv
<1>5. CASE UNCHANGED vars
  BY <1>5 DEF vars, IInv, Roots, ParserTypeOK, StackFollowsGrammar, Parsing
<1>6. QED BY <1>1, <1>2, <1>3, <1>4, <1>5 DEF Next

(* The inductive invariant holds in every state of every run of the program
   and of its parses.                                                      *)
THEOREM SpecIInv == Spec => []IInv
<1>1. Init => IInv
  BY InitIInv
<1>2. IInv /\ [Next]_vars => IInv'
  BY NextIInv
<1>3. QED BY <1>1, <1>2, PTL DEF Spec

(* Type correctness, and that free memory is blank. *)
THEOREM TypeCorrect == Spec => []TypeOK
<1>1. IInv => TypeOK
  BY WellFormedParts DEF IInv, TypeOK
<1>2. QED BY <1>1, SpecIInv, PTL

(* No node, cell or container ever points to memory that pt_free_node or a
   removal has freed.                                                      *)
THEOREM NeverDangling == Spec => []NoDanglingInv
<1>1. IInv => NoDanglingInv
  BY DEF IInv, NoDanglingInv, WellFormed
<1>2. QED BY <1>1, SpecIInv, PTL

(* Every node and cell has one owner, so that pt_free_node's recursion meets
   each allocation once.                                                   *)
THEOREM AlwaysOneOwner == Spec => []OneOwnerInv
<1>1. IInv => OneOwnerInv
  BY DEF IInv, OneOwnerInv, WellFormed
<1>2. QED BY <1>1, SpecIInv, PTL

(* Whatever a call, a removal or a parse cut short leaves allocated can be
   freed through a node the program holds, or the root of the parse.       *)
THEOREM NeverLeaks == Spec => []NoLeakInv
<1>1. IInv => NoLeakInv
  BY DEF IInv, NoLeakInv, WellFormed
<1>2. QED BY <1>1, SpecIInv, PTL

(* pt_array_len is the number of elements of the queue, and cells with and
   without key stay in maps and arrays.                                    *)
THEOREM ShapeKept == Spec => []ShapeInv
<1>1. IInv => ShapeInv
  BY DEF IInv, ShapeInv, WellFormed
<1>2. QED BY <1>1, SpecIInv, PTL

(* The assertions of the yajl callbacks hold, the "Shouldn't get here" branch
   of add_node_to_context_container is not taken, and no value replaces a
   root that is there.                                                     *)
THEOREM CallbacksFindTheirContainer == Spec => []StackFollowsGrammar
<1>1. IInv => StackFollowsGrammar
  BY DEF IInv
<1>2. QED BY <1>1, SpecIInv, PTL

----------------------------------------------------------------------------
(* What a step frees *)

(* Freeing a value frees no more than the document it was. *)
LEMMA FreeNodeLoses ==
  ASSUME NEW h \in Heap, NEW n \in Node \cup {NULL}
  PROVE  n # NULL => Live(h) \ Live(FreeNode(h, n)) \subseteq Tree(h, n)
BY DEF FreeNode, FreeTree, Live

LEMMA FreeValLoses ==
  ASSUME NEW h, NEW R, WellFormed(h, R), NEW p \in Node, NEW c \in Cells(h, p)
  PROVE  /\ h.val[c] = NULL => Live(FreeVal(h, c)) = Live(h)
         /\ h.val[c] # NULL => /\ h.val[c] \in Node
                               /\ Live(h) \ Live(FreeVal(h, c)) \subseteq Tree(h, h.val[c])
<1> DEFINE e == SetVal(h, c, NULL)
           v == h.val[c]
<1>1. h \in Heap /\ c \in Cell /\ c \in h.cells /\ v \in Node \cup {NULL}
  BY WellFormedParts DEF HeapTypeOK, NoDangling, Heap
<1>2. /\ e \in Heap /\ e.type = h.type /\ e.val[c] = NULL
      /\ \A d \in Cell \ {c} : e.val[d] = h.val[d]
      /\ \A x \in Node : Cells(e, x) = Cells(h, x)
  <2>1. NULL \in Node \cup {NULL}
    OBVIOUS
  <2>2. QED BY <1>1, <2>1, SetValFields
<1>3. FreeVal(h, c) = FreeNode(e, v) /\ Live(e) = Live(h)
  BY <1>2 DEF FreeVal, Live
<1> HIDE DEF e
<1>4. \A x \in Node : Kids(e, x) \subseteq Kids(h, x)
  BY <1>1, <1>2, KidsInNode DEF Kids
<1>5. v # NULL => Tree(e, v) \subseteq Tree(h, v)
  BY <1>1, <1>2, <1>4, TreeMonotonic
<1>6. QED BY <1>1, <1>2, <1>3, <1>5, FreeNodeLoses DEF FreeNode

(* The others free nothing. *)
LEMMA NothingLost ==
  ASSUME NEW h
  PROVE  /\ \A c, v : Live(SetVal(h, c, v)) = Live(h)
         /\ \A m, c, k : Live(AddPair(h, m, c, k)) = Live(h)
         /\ \A a, c : Live(AddElemBack(h, a, c)) = Live(h)
         /\ \A a, c : Live(AddElemFront(h, a, c)) = Live(h)
         /\ \A m, c : Live(DropPair(h, m, c)) = Live(h)
         /\ \A a, c : Live(DropElem(h, a, c)) = Live(h)
BY DEF SetVal, AddPair, AddElemBack, AddElemFront, DropPair, DropElem, Live

LEMMA CellGone ==
  ASSUME NEW h \in Heap, NEW n, NEW c
  PROVE  c \notin DropPair(h, n, c).cells /\ c \notin DropElem(h, n, c).cells
<1>1. DropPair(h, n, c).cells = h.cells \ {c}
  BY DEF DropPair, Heap
<1>2. DropElem(h, n, c).cells = h.cells \ {c}
  BY DEF DropElem, Heap
<1>3. QED BY <1>1, <1>2

LEMMA NewNodeLoses ==
  ASSUME NEW h \in Heap, NEW n, NEW t \in NodeType
  PROVE  Live(h) \subseteq Live(NewNode(h, n, t))
BY DEF NewNode, Live, NodeType, Heap

(* Borrowed(n) is what BorrowedStaysLive says of a node that is gone. *)
Overwritten(a) ==
  \E c \in heap.cells : heap.val[c] = a /\ (c \notin heap'.cells \/ heap'.val[c] # a)
GoneWith(n) == \E a \in Node : n \in Tree(heap, a) /\ (a \in held \ held' \/ Overwritten(a))

(* The value of a slot is freed and the slot is removed or gets another. *)
LEMMA SlotLoses ==
  ASSUME IInv, NEW p \in Node, NEW c \in Cells(heap, p),
         Live(heap') = Live(FreeVal(heap, c)),
         c \in heap'.cells => heap'.val[c] \in held \cup {NULL}
  PROVE  \A n \in Live(heap) \ Live(heap') : GoneWith(n)
<1>1. WellFormed(heap, Roots) /\ held \subseteq Roots
  BY DEF IInv, Roots
<1>2. c \in heap.cells /\ heap.val[c] \notin Roots
  BY <1>1, WellFormedParts DEF NoDangling, OneOwner
<1>3. SUFFICES ASSUME NEW n \in Live(heap) \ Live(heap') PROVE GoneWith(n)
  OBVIOUS
<1>4. heap.val[c] # NULL /\ heap.val[c] \in Node /\ n \in Tree(heap, heap.val[c])
  BY <1>1, <1>3, FreeValLoses
<1>5. Overwritten(heap.val[c])
  BY <1>1, <1>2, <1>4 DEF Overwritten
<1>6. QED BY <1>4, <1>5 DEF GoneWith

LEMMA ClientCallLoses ==
  ASSUME IInv, ClientCall
  PROVE  \A n \in Live(heap) \ Live(heap') : GoneWith(n)
<1>1. WellFormed(heap, Roots) /\ heap \in Heap /\ held \subseteq Node /\ Live(heap) \subseteq Node
  BY WellFormedParts DEF IInv, HeapTypeOK, Live
<1>0. ASSUME NEW p \in Node, NEW c \in Cells(heap, p) PROVE FreeVal(heap, c) \in Heap
  BY <1>0, <1>1, FreeValWellFormed, WellFormedParts DEF HeapTypeOK
<1>2. CASE \E n \in FreshNodes(heap), t \in NodeType : PtNew(n, t)
  BY <1>1, <1>2, NewNodeLoses DEF PtNew
<1>3. ASSUME NEW p \in Live(heap), NEW k \in CKey, NEW v \in Givable(p), PtMapSet(p, k, v)
      PROVE  \A n \in Live(heap) \ Live(heap') : GoneWith(n)
  <2>1. ASSUME NEW c \in Matches(heap, p, k), MapReplace(c, v)
        PROVE  \A n \in Live(heap) \ Live(heap') : GoneWith(n)
    <3>1. c \in Cells(heap, p) /\ p \in Node /\ v \in held \cup {NULL}
      BY <1>1, <2>1 DEF Matches, Givable
    <3>2. FreeVal(heap, c) \in Heap /\ c \in Cell /\ v \in Node \cup {NULL}
      BY <1>0, <1>1, <3>1, KidsInNode
    <3>3. heap'.val[c] = v /\ Live(heap') = Live(FreeVal(heap, c))
      BY <2>1, <3>2, SetValFields, NothingLost DEF MapReplace
    <3>4. QED BY <3>1, <3>3, SlotLoses
  <2>2. ASSUME MapInsert(p, k, v) PROVE Live(heap') = Live(heap)
    BY <2>2, NothingLost DEF MapInsert
  <2>3. QED BY <1>3, <2>1, <2>2 DEF PtMapSet
<1>4. ASSUME NEW p \in Live(heap), NEW k \in CKey, PtMapUnset(p, k)
      PROVE  \A n \in Live(heap) \ Live(heap') : GoneWith(n)
  <2>1. ASSUME NEW c \in Matches(heap, p, k), heap' = DropPair(FreeVal(heap, c), p, c)
        PROVE  \A n \in Live(heap) \ Live(heap') : GoneWith(n)
    <3>1. c \in Cells(heap, p) /\ p \in Node
      BY <1>1, <2>1 DEF Matches
    <3>2. c \notin heap'.cells /\ Live(heap') = Live(FreeVal(heap, c))
      BY <1>0, <2>1, <3>1, NothingLost, CellGone
    <3>3. QED BY <3>1, <3>2, SlotLoses
  <2>2. QED BY <1>4, <2>1 DEF PtMapUnset
<1>5. ASSUME NEW p \in Live(heap), NEW v \in Givable(p),
             PtArrayPushFront(p, v) \/ PtArrayPushBack(p, v)
      PROVE  Live(heap') = Live(heap)
  BY <1>5, NothingLost DEF PtArrayPushFront, PtArrayPushBack
<1>6. ASSUME NEW p \in Live(heap), NEW x \in Node \cup {NULL}, PtArrayRemove(p, x)
      PROVE  \A n \in Live(heap) \ Live(heap') : GoneWith(n)
  <2>1. ASSUME NEW c \in Cells(heap, p), heap' = DropElem(FreeVal(heap, c), p, c)
        PROVE  \A n \in Live(heap) \ Live(heap') : GoneWith(n)
    <3>1. c \notin heap'.cells /\ Live(heap') = Live(FreeVal(heap, c))
      BY <1>0, <1>1, <2>1, NothingLost, CellGone
    <3>2. QED BY <1>1, <2>1, <3>1, SlotLoses
  <2>2. QED BY <1>6, <2>1 DEF PtArrayRemove
<1>7. ASSUME NEW n \in held, PtFreeNode(n)
      PROVE  \A x \in Live(heap) \ Live(heap') : GoneWith(x)
  <2>1. n \in Node /\ n # NULL
    BY <1>1, AddressAssumption
  <2>2. Live(heap) \ Live(heap') \subseteq Tree(heap, n)
    BY <1>1, <1>7, <2>1, FreeNodeLoses DEF PtFreeNode
  <2>3. n \in held \ held'
    BY <1>7 DEF PtFreeNode
  <2>4. QED BY <2>1, <2>2, <2>3 DEF GoneWith
<1>8. QED BY <1>2, <1>3, <1>4, <1>5, <1>6, <1>7 DEF ClientCall

LEMMA ParseLosesNothing ==
  ASSUME IInv, PtFromJson \/ PtCallback \/ PtFromJsonReturn
  PROVE  Live(heap) \subseteq Live(heap')
<1>1. heap \in Heap
  BY WellFormedParts DEF IInv, HeapTypeOK
<1>2. \A h, v, c : Live(AddToContext(h, v, c)) = Live(h)
  <2> SUFFICES ASSUME NEW h, NEW v, NEW c PROVE Live(AddToContext(h, v, c)) = Live(h)
    OBVIOUS
  <2>1. CASE IntoArray
    BY <2>1, NothingLost DEF AddToContext
  <2>2. CASE ~IntoArray /\ InContainer /\ Cur \in Cell
    BY <2>2, NothingLost DEF AddToContext
  <2>3. CASE ~IntoArray /\ ~(InContainer /\ Cur \in Cell)
    BY <2>3 DEF AddToContext
  <2>4. QED BY <2>1, <2>2, <2>3
<1>3. CASE PtCallback
  <2>1. ASSUME NEW n, NEW t \in NodeType, NEW c, heap' = AddToContext(NewNode(heap, n, t), n, c)
        PROVE  Live(heap) \subseteq Live(heap')
    BY <1>1, <1>2, <2>1, NewNodeLoses
  <2>2. ASSUME NEW n, NEW c, JsonStartMap(n, c) \/ JsonStartArray(n, c)
        PROVE  Live(heap) \subseteq Live(heap')
    BY <2>1, <2>2 DEF JsonStartMap, JsonStartArray, NodeType
  <2>3. ASSUME NEW n, NEW c, NEW t \in NodeType \ Container, JsonScalar(n, t, c)
        PROVE  Live(heap) \subseteq Live(heap')
    BY <2>1, <2>3 DEF JsonScalar
  <2>4. ASSUME NEW c, NEW k, JsonMapKey(c, k) PROVE Live(heap) \subseteq Live(heap')
    BY <2>4, NothingLost DEF JsonMapKey
  <2>5. QED
    BY <1>3, <2>2, <2>3, <2>4 DEF PtCallback, Callback, JsonEndMap, JsonEndArray
<1>4. CASE PtFromJson \/ PtFromJsonReturn
  BY <1>4 DEF PtFromJson, PtFromJsonReturn, ParseBegin, ParseReturn
<1>5. QED BY <1>3, <1>4

(* A pointer into a document dies only with the slot of what it points to, or
   of something around that, or with the whole document: no call on another
   part, another document or a text touches it.                              *)
THEOREM BorrowedNodesStay == Spec => BorrowedStaysLive
<1>1. ASSUME IInv, [Next]_vars
      PROVE  \A n \in Live(heap) \ Live(heap') : GoneWith(n)
  <2>1. CASE ClientCall
    BY <1>1, <2>1, ClientCallLoses
  <2>2. CASE PtFromJson \/ PtCallback \/ PtFromJsonReturn
    BY <1>1, <2>2, ParseLosesNothing
  <2>3. CASE UNCHANGED vars
    BY <2>3 DEF vars
  <2>4. QED BY <1>1, <2>1, <2>2, <2>3 DEF Next
<1>2. IInv /\ [Next]_vars =>
        [\A n \in Live(heap) \ Live(heap') :
           \E a \in Node :
             /\ n \in Tree(heap, a)
             /\ \/ a \in held \ held'
                \/ \E c \in heap.cells :
                     heap.val[c] = a /\ (c \notin heap'.cells \/ heap'.val[c] # a)]_vars
  BY <1>1 DEF GoneWith, Overwritten
<1>3. QED BY <1>2, SpecIInv, PTL DEF Spec, BorrowedStaysLive

=============================================================================
