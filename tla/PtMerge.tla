------------------------------ MODULE PtMerge ------------------------------
(***************************************************************************)
(* pt_clone and pt_map_update of src/pillowtalk_impl.c: two recursions over *)
(* documents on the heap of PtHeap, made turn by turn.  stack is the C call *)
(* stack, the call at hand last; a frame has the container that is filled,  *)
(* the one that is read, and the loop's place in that.                      *)
(*                                                                          *)
(* The documents are any that can be in memory, root and additions may      *)
(* overlap, and pt_map_update frees what it replaces while it reads.        *)
(***************************************************************************)
EXTENDS PtHeap

CONSTANTS
  CStr,     \* the part of a key before its first NUL
  Load,     \* what the getters return of a leaf; it means nothing for a container
  Kind,     \* the type of a SCALAR with that load: null, boolean, integer or double
  Start,    \* what the program may have in memory: [heap, load, held]
  Args,     \* the pointers it passes
  MaxCalls  \* bound: the number of calls

ASSUME MergeAssumption ==
  /\ CStr \in [Key -> CKey] /\ \A k \in CKey : CStr[k] = k
  /\ Args \subseteq Node \cup {NULL}
  /\ MaxCalls \in Nat

(* which is what the node functions and parses leave behind: see PtDocument *)
ASSUME StartAssumption ==
  \A s \in Start : /\ WellFormed(s.heap, s.held)
                   /\ s.load \in [Node -> Load]

VARIABLES
  heap,
  load,    \* of each node
  held,    \* the nodes the program must free or give away
  stack,   \* the calls of pt_map_update and pt_clone under way
  call,    \* the last call by the program: [f, root, from], f is "none" at first
  calls,   \* their number
  ret,     \* what the last pt_map_update returned
  made,    \* what the last pt_clone returned
  stale,   \* freed memory was read: what comes then is undefined
  was,     \* history: heap, load, ret and call when the last call was made,
           \*   and the nodes of the documents it was passed, root and from
  copy,    \* history: the node that a node is a clone of, made in this call
  merged,  \* history: the pairs pt_map_update was called with in this call
  cut      \* history: those it returned 1 for

vars == <<heap, load, held, stack, call, calls, ret, made, stale, was, copy, merged, cut>>

Frame == [f : {"update", "clone"},
          to : Node, from : Node,
          at : Cell \cup {NULL},      \* key_value or elem
          slot : Cell \cup {NULL}]    \* the cell that pt_map_get found in to

----------------------------------------------------------------------------
(* Reading documents *)

FirstCell(h, n) == IF h.chain[n] = <<>> THEN NULL ELSE h.chain[n][1]

PlaceOf(h, n, c) == CHOOSE i \in DOMAIN h.chain[n] : h.chain[n][i] = c

(* hh.next of a pair, TAILQ_NEXT of an element *)
NextCell(h, n, c) ==
  LET i == PlaceOf(h, n, c) + 1 IN IF i <= Len(h.chain[n]) THEN h.chain[n][i] ELSE NULL

(* what HASH_FIND may return *)
Found(h, m, k) == IF Matches(h, m, k) = {} THEN {NULL} ELSE Matches(h, m, k)

Value(h, c) == IF c = NULL THEN NULL ELSE h.val[c]

IsMap(n) == n # NULL /\ heap.type[n] = "MAP"

TypesDiffer(m, n) ==
  \/ heap.type[m] # heap.type[n]
  \/ heap.type[n] = "SCALAR" /\ Kind[load[m]] # Kind[load[n]]

----------------------------------------------------------------------------
(* The call stack *)

Top == stack[Len(stack)]
Pop == SubSeq(stack, 1, Len(stack) - 1)

(* a key as strlen sees it *)
NameAt(h, c) == CStr[h.key[c]]

(* The loop of the call that is last in s goes on, on heap h: it reads the
   next cell from the one at hand.                                         *)
GoOn(h, s) ==
  LET F == s[Len(s)]
  IN  /\ heap' = h
      /\ IF F.at \in h.cells
         THEN stack' = [s EXCEPT ![Len(s)].at = NextCell(h, F.from, F.at)] /\ UNCHANGED stale
         ELSE stack' = s /\ stale' = TRUE

(* pt_clone of a node, up to its loop; for a leaf that is all of it *)
EnterClone(s, n, copies) ==
  \E m \in FreshNodes(heap) :
    /\ heap' = NewNode(heap, m, heap.type[n])
    /\ load' = [load EXCEPT ![m] = load[n]]
    /\ copy' = [copies EXCEPT ![m] = n]
    /\ stack' = Append(s, [f |-> "clone", to |-> m, from |-> n,
                           at |-> FirstCell(heap, n), slot |-> NULL])

(* a mutant: the arguments are swapped *)
EnterUpdateSwapped(s, r, a) ==
  stack' = Append(s, [f |-> "update", to |-> a, from |-> r,
                      at |-> FirstCell(heap, r), slot |-> NULL])

(* pt_map_update of two maps, up to its loop *)
EnterUpdate(s, r, a) ==
  stack' = Append(s, [f |-> "update", to |-> r, from |-> a,
                      at |-> FirstCell(heap, a), slot |-> NULL])

----------------------------------------------------------------------------
(* Calls by the program *)

Part(n) == IF n = NULL THEN {} ELSE Tree(heap, n)

CallBegins(f, root, from) ==
  /\ stack = <<>> /\ ~stale /\ calls < MaxCalls
  /\ call' = [f |-> f, root |-> root, from |-> from]
  /\ calls' = calls + 1
  /\ was' = [heap |-> heap, load |-> load, ret |-> ret, call |-> call,
             root |-> Part(root), from |-> Part(from)]
  /\ cut' = {}
  /\ UNCHANGED <<held, stale>>

NoCopies == [n \in Node |-> NULL]

PtMapUpdate(r, a) ==
  /\ CallBegins("update", r, a)
  /\ copy' = NoCopies
  /\ IF IsMap(r) /\ IsMap(a)
     THEN EnterUpdate(<<>>, r, a) /\ merged' = {<<r, a>>} /\ UNCHANGED ret
     ELSE ret' = 1 /\ merged' = {} /\ UNCHANGED stack
  /\ UNCHANGED <<heap, load, made>>

PtClone(n) ==
  /\ CallBegins("clone", NULL, n)
  /\ merged' = {}
  /\ IF n = NULL
     THEN made' = NULL /\ copy' = NoCopies /\ UNCHANGED <<heap, load, stack>>
     ELSE EnterClone(<<>>, n, NoCopies) /\ UNCHANGED made
  /\ UNCHANGED ret

----------------------------------------------------------------------------
(* pt_map_update *)

Updating == stack # <<>> /\ ~stale /\ Top.f = "update"

(* a mutant: what root has is left as it is *)
UpdateSkipExisting ==
  /\ Updating /\ Top.at # NULL
  /\ heap.val[Top.at] = NULL
       \/ \E c \in Matches(heap, Top.to, NameAt(heap, Top.at)) : heap.val[c] # NULL
  /\ GoOn(heap, stack)
  /\ UNCHANGED <<load, held, call, calls, ret, made, was, copy, merged, cut>>

(* a pair without a value is passed over *)
UpdateSkip ==
  /\ Updating /\ Top.at # NULL /\ heap.val[Top.at] = NULL
  /\ GoOn(heap, stack)
  /\ UNCHANGED <<load, held, call, calls, ret, made, was, copy, merged, cut>>

(* a mutant: a map is replaced, as the rest is *)
MergeableMaps(e, v) == e # NULL => ~TypesDiffer(e, v)

(* There is no existing value, or one of the same type that is replaced. *)
Mergeable(e, v) == e # NULL => ~TypesDiffer(e, v) /\ heap.type[v] # "MAP"

(* The value is cloned: there is none in root, or one that is to be replaced. *)
UpdateClone ==
  /\ Updating /\ Top.at # NULL /\ heap.val[Top.at] # NULL
  /\ \E c \in Found(heap, Top.to, NameAt(heap, Top.at)) :
       /\ Mergeable(Value(heap, c), heap.val[Top.at])
       /\ EnterClone([stack EXCEPT ![Len(stack)].slot = c], heap.val[Top.at], copy)
  /\ UNCHANGED <<held, call, calls, ret, made, stale, was, merged, cut>>

(* Two maps are merged. *)
UpdateNested ==
  /\ Updating /\ Top.at # NULL /\ IsMap(heap.val[Top.at])
  /\ \E c \in Matches(heap, Top.to, NameAt(heap, Top.at)) :
       /\ IsMap(heap.val[c])
       /\ EnterUpdate([stack EXCEPT ![Len(stack)].slot = c], heap.val[c], heap.val[Top.at])
       /\ merged' = merged \cup {<<heap.val[c], heap.val[Top.at]>>}
  /\ UNCHANGED <<heap, load, held, call, calls, ret, made, stale, was, copy, cut>>

(* pt_map_update returns: to the program, or to a loop that ignores what. *)
UpdateReturns(result) ==
  /\ IF Pop = <<>>
     THEN ret' = result /\ stack' = <<>> /\ UNCHANGED <<heap, stale>>
     ELSE GoOn(heap, Pop) /\ UNCHANGED ret
  /\ UNCHANGED <<load, held, call, calls, made, was, copy, merged>>

UpdateMismatch ==
  /\ Updating /\ Top.at # NULL /\ heap.val[Top.at] # NULL
  /\ \E c \in Matches(heap, Top.to, NameAt(heap, Top.at)) :
       heap.val[c] # NULL /\ TypesDiffer(heap.val[c], heap.val[Top.at])
  /\ cut' = cut \cup {<<Top.to, Top.from>>}
  /\ UpdateReturns(1)

UpdateEnd ==
  /\ Updating /\ Top.at = NULL
  /\ UNCHANGED cut
  /\ UpdateReturns(0)

----------------------------------------------------------------------------
(* pt_clone *)

Cloning == stack # <<>> /\ ~stale /\ Top.f = "clone"

CloneKid ==
  /\ Cloning /\ Top.at # NULL /\ heap.val[Top.at] # NULL
  /\ EnterClone(stack, heap.val[Top.at], copy)
  /\ UNCHANGED <<held, call, calls, ret, made, stale, was, merged, cut>>

(* mutants of MapSet: the pair is freed with its value, the value is not freed,
   the pair is unset and set, and what is there is not looked up             *)
MapSetFreed(m, k, slot, v) ==
  IF slot # NULL THEN {SetVal(DropPair(FreeVal(heap, slot), m, slot), slot, v)}
  ELSE {SetVal(AddPair(heap, m, c, k), c, v) : c \in FreshCells(heap)}
MapSetLeaking(m, k, slot, v) ==
  IF slot # NULL THEN {SetVal(heap, slot, v)}
  ELSE {SetVal(AddPair(heap, m, c, k), c, v) : c \in FreshCells(heap)}
MapSetMoving(m, k, slot, v) ==
  LET h == IF slot = NULL THEN heap ELSE DropPair(FreeVal(heap, slot), m, slot)
  IN  {SetVal(AddPair(h, m, c, k), c, v) : c \in FreshCells(heap)}
MapSetAppending(m, k, slot, v) ==
  {SetVal(AddPair(heap, m, c, k), c, v) : c \in FreshCells(heap)}

(* pt_map_set, when HASH_FIND has found slot or nothing *)
MapSet(m, k, slot, v) ==
  IF slot # NULL THEN {SetVal(FreeVal(heap, slot), slot, v)}
  ELSE {SetVal(AddPair(heap, m, c, k), c, v) : c \in FreshCells(heap)}

(* a mutant: at the wrong end *)
ArrayPushFront(a, v) == {SetVal(AddElemFront(heap, a, c), c, v) : c \in FreshCells(heap)}

ArrayPushBack(a, v) == {SetVal(AddElemBack(heap, a, c), c, v) : c \in FreshCells(heap)}

(* The loop of frame F puts v where it fills: pt_array_push_back takes NULL,
   pt_map_set does nothing with it.                                        *)
Put(F, v) ==
  IF heap.type[F.to] = "ARRAY" THEN ArrayPushBack(F.to, v)
  ELSE IF v = NULL THEN {heap}
  ELSE LET k == NameAt(heap, F.at)
           slots == IF F.f = "update" THEN {F.slot} ELSE Found(heap, F.to, k)
       IN  UNION {MapSet(F.to, k, slot, v) : slot \in slots}

CloneNull ==
  /\ Cloning /\ Top.at # NULL /\ heap.val[Top.at] = NULL
  /\ \E h \in Put(Top, NULL) : GoOn(h, stack)
  /\ UNCHANGED <<load, held, call, calls, ret, made, was, copy, merged, cut>>

(* pt_clone returns: to the program, or to a loop that puts the clone in. *)
CloneReturns ==
  /\ Cloning /\ Top.at = NULL
  /\ IF Pop = <<>>
     THEN made' = Top.to /\ held' = held \cup {Top.to} /\ stack' = <<>>
          /\ UNCHANGED <<heap, stale>>
     ELSE (\E h \in Put(Pop[Len(Pop)], Top.to) : GoOn(h, Pop)) /\ UNCHANGED <<made, held>>
  /\ UNCHANGED <<load, call, calls, ret, was, copy, merged, cut>>

----------------------------------------------------------------------------

Init ==
  /\ \E s \in Start : heap = s.heap /\ load = s.load /\ held = s.held
  /\ stack = <<>> /\ stale = FALSE
  /\ call = [f |-> "none", root |-> NULL, from |-> NULL] /\ calls = 0
  /\ ret = 0 /\ made = NULL
  /\ was = [heap |-> heap, load |-> load, ret |-> ret, call |-> call, root |-> {}, from |-> {}]
  /\ copy = NoCopies /\ merged = {} /\ cut = {}

(* what the program passes is live: a pointer to nothing is its own fault *)
Passed == Args \cap (Live(heap) \cup {NULL})

Next ==
  \/ \E n \in Passed : PtClone(n) \/ \E r \in Passed : PtMapUpdate(r, n)
  \/ UpdateSkip \/ UpdateClone \/ UpdateNested \/ UpdateMismatch \/ UpdateEnd
  \/ CloneKid \/ CloneNull \/ CloneReturns

Spec == Init /\ [][Next]_vars

----------------------------------------------------------------------------
(* the clones that are not part of anything yet *)
Filling == {stack[i].to : i \in {j \in DOMAIN stack : stack[j].f = "clone"}}
Owners == held \cup Filling

Done == stack = <<>> /\ ~stale

MergeTypeOK ==
  /\ HeapTypeOK(heap)
  /\ load \in [Node -> Load] /\ held \subseteq Node /\ stack \in Seq(Frame)
  /\ call \in [f : {"none", "update", "clone"}, root : Node \cup {NULL}, from : Node \cup {NULL}]
  /\ calls \in 0..MaxCalls /\ ret \in {0, 1} /\ made \in Node \cup {NULL} /\ stale \in BOOLEAN
  /\ copy \in [Node -> Node \cup {NULL}]
  /\ merged \subseteq Node \X Node /\ cut \subseteq merged

(* At every turn of the recursions each node has one owner, can be reached from
   one and is there: clones share nothing with what they are made of, and a
   merge loses and duplicates nothing, whether it ends early or not and also
   when root and additions overlap.                                         *)
DocumentsStayApart ==
  NoDangling(heap) /\ OneOwner(heap, Owners) /\ NoLeak(heap, Owners) /\ ShapeOK(heap)

(* The nodes that are reached from n through maps only. *)
ThroughMaps(h, n) ==
  {x \in Node : \A S \in SUBSET Node :
     n \in S /\ (\A y \in S : h.type[y] = "MAP" => Kids(h, y) \subseteq S) => x \in S}

(* With additions a part of root, the merge frees memory that it goes on to
   read; but only if an array is between the two, as maps are merged in place. *)
StaleOnlyThroughArrays ==
  stale => /\ call.f = "update"
           /\ call.from \in was.root \ ThroughMaps(was.heap, call.root)

Untouched(n) ==
  /\ heap.type[n] = was.heap.type[n] /\ heap.chain[n] = was.heap.chain[n] /\ load[n] = was.load[n]
  /\ \A c \in Cells(was.heap, n) : /\ c \in heap.cells /\ heap.key[c] = was.heap.key[c]
                                   /\ heap.val[c] = was.heap.val[c]

(* A call changes nothing outside root's part: pt_clone nothing at all. *)
RestIsUntouched ==
  \A n \in Live(was.heap) : merged = {} \/ n \notin was.root => Untouched(n)

(* root and additions have no part in common *)
Apart == was.root \cap was.from = {}

IsCopy(v, n) == IF n = NULL THEN v = NULL ELSE v # NULL /\ copy[v] = n

(* the i-th pair of n counts as one with key k *)
Names(n, i, k) ==
  LET c == heap.chain[n][i] IN NameAt(heap, c) = k /\ heap.val[c] # NULL

PlainMap(n) ==
  /\ \A c \in Cells(heap, n) : heap.key[c] \in CKey /\ heap.val[c] # NULL
  /\ \A c, d \in Cells(heap, n) : heap.key[c] = heap.key[d] => c = d

(* m is what cloning the first p cells of n makes: of an array, element by
   element, *)
SameElements(m, n, p) ==
  /\ Len(heap.chain[m]) = p
  /\ \A i \in 1..p : IsCopy(heap.val[heap.chain[m][i]], heap.val[heap.chain[n][i]])

(* of a map, for each key the last value, *)
LastValues(m, n, p) ==
  \A k \in CKey :
    /\ (\A i \in 1..p : ~Names(n, i, k)) => Matches(heap, m, k) = {}
    /\ \A i \in 1..p : Names(n, i, k) /\ (\A j \in (i + 1)..p : ~Names(n, j, k)) =>
         \E c \in Cells(heap, m) : /\ Matches(heap, m, k) = {c}
                                  /\ IsCopy(heap.val[c], heap.val[heap.chain[n][i]])

(* and if each counts, the keys in their order. *)
SameKeys(m, n, p) ==
  /\ Len(heap.chain[m]) = p
  /\ \A i \in 1..p : heap.key[heap.chain[m][i]] = heap.key[heap.chain[n][i]]

CopiedUpTo(m, n, p) ==
  /\ heap.type[m] = heap.type[n] /\ load[m] = load[n]
  /\ heap.type[n] = "ARRAY" => SameElements(m, n, p)
  /\ heap.type[n] = "MAP" => LastValues(m, n, p)
  /\ heap.type[n] = "MAP" /\ PlainMap(n) => SameKeys(m, n, p)

(* pt_clone of a document finds what the document does: the same node for node,
   and in an array place for place.  In a map each key has the clone of the last
   value that it has, pairs without a value are left out, and a key ends at a
   NUL; what has no such thing, keeps its pairs in their order.  The values that
   pt_map_update puts in are such clones too, until it merges into them.       *)
CloneFindsTheSame ==
  Apart =>
    /\ \A m \in Live(heap) \ (Filling \cup {q[1] : q \in merged}) :
         copy[m] # NULL => CopiedUpTo(m, copy[m], Len(heap.chain[copy[m]]))
    /\ Done /\ call.f = "clone" => IsCopy(made, call.from)

(* no map in additions has two keys that are one up to a NUL *)
NamesDiffer ==
  merged # {} =>
    \A n \in was.from : was.heap.type[n] = "MAP" =>
      \A c, d \in Cells(was.heap, n) : NameAt(was.heap, c) = NameAt(was.heap, d) => c = d

InProgress == {<<stack[i].to, stack[i].from>> : i \in {j \in DOMAIN stack : stack[j].f = "update"}}

(* A map that was merged and had no mismatch has every key of the additions,
   with a clone of the value there or, where both are maps, with these merged. *)
MergeIsUnion ==
  Apart /\ NamesDiffer =>
    \A q \in merged \ (cut \cup InProgress) : \A d \in Cells(heap, q[2]) :
      heap.val[d] # NULL =>
        \E c \in Cells(heap, q[1]) : /\ heap.key[c] = NameAt(heap, d)
                                   /\ \/ <<heap.val[c], heap.val[d]>> \in merged
                                      \/ IsCopy(heap.val[c], heap.val[d])

(* At any turn, and after a mismatch: maps are merged only with those that have
   their place in the additions; a map keeps the pairs it had, in their order,
   each with its value or a clone of what the additions have for the key; what
   was added is such a clone; and no other part of root was changed.           *)
HalfDoneIsSound ==
  Apart /\ NamesDiffer =>
    /\ \A q \in merged :
         /\ \/ q = <<call.root, call.from>>
            \/ \E p \in merged : \E c \in Cells(heap, p[1]), d \in Cells(heap, p[2]) :
                 heap.key[c] = NameAt(heap, d) /\ heap.val[c] = q[1] /\ heap.val[d] = q[2]
         /\ Len(was.heap.chain[q[1]]) <= Len(heap.chain[q[1]])
         /\ \A i \in DOMAIN heap.chain[q[1]] :
              LET c == heap.chain[q[1]][i]
                  old == i <= Len(was.heap.chain[q[1]])
              IN  /\ old => c = was.heap.chain[q[1]][i] /\ heap.key[c] = was.heap.key[c]
                  /\ \/ old /\ heap.val[c] = was.heap.val[c]
                     \/ \E d \in Cells(heap, q[2]) : /\ heap.key[c] = NameAt(heap, d)
                                                   /\ IsCopy(heap.val[c], heap.val[d])
    /\ \A n \in (Live(heap) \cap was.root) \ {q[1] : q \in merged} :
         copy[n] = NULL => Untouched(n)

----------------------------------------------------------------------------
(* pillowtalk.h says pt_map_update returns "a nonzero error code if something
   cannot properly be merged".  It returns 0 when that something is in a map
   within both.                                                             *)
MismatchIsReported == Done /\ cut # {} => ret # 0

=============================================================================
