--------------------------- MODULE PtMergeValues ---------------------------
(***************************************************************************)
(* What PtMerge does to documents as values, at every path.  For TLC: the   *)
(* operators are recursive.                                                 *)
(***************************************************************************)
EXTENDS PtMerge

CONSTANT Depth   \* bound: the keys of the longest path that is looked up

(* the document under n, as a value *)
RECURSIVE Doc(_, _, _)
Doc(h, ld, n) ==
  IF n = NULL THEN NULL
  ELSE [t |-> h.type[n], load |-> IF h.type[n] \in Container THEN NULL ELSE ld[n],
        kids |-> [i \in DOMAIN h.chain[n] |->
                    LET c == h.chain[n][i] IN [key |-> h.key[c], val |-> Doc(h, ld, h.val[c])]]]

Path == UNION {[1..d -> CKey] : d \in 0..Depth}

(* What a program finds in a document with one pair for each key: what is at a
   path, with a map's pairs left out.                                       *)
RECURSIVE At(_, _)
At(v, p) ==
  IF v = NULL THEN NULL
  ELSE IF p = <<>> THEN IF v.t = "MAP" THEN [v EXCEPT !.kids = <<>>] ELSE v
  ELSE LET i == IF v.t = "MAP" THEN SelectInSeq(v.kids, LAMBDA kid : kid.key = Head(p)) ELSE 0
       IN  IF i = 0 THEN NULL ELSE At(v.kids[i].val, Tail(p))

(* a document as the node functions build it: no key twice, none with a NUL,
   and a value for each                                                    *)
RECURSIVE Plain(_)
Plain(v) ==
  v.t = "MAP" =>
    /\ \A i \in DOMAIN v.kids :
         v.kids[i].key \in CKey /\ v.kids[i].val # NULL /\ Plain(v.kids[i].val)
    /\ \A i, j \in DOMAIN v.kids : v.kids[i].key = v.kids[j].key => i = j

Was(n) == Doc(was.heap, was.load, n)
Now(n) == Doc(heap, load, n)

Merged == Done /\ call.f = "update" /\ merged # {} /\ Apart

(* At every path the merged root has what additions has there, or, if that has
   nothing, what it had.                                                    *)
PathsAreMerged ==
  Merged /\ cut = {} /\ Plain(Was(call.root)) /\ Plain(Was(call.from)) =>
    LET x == Was(call.root)
        y == Was(call.from)
        z == Now(call.root)
    IN  ret = 0 /\ \A p \in Path : At(z, p) = IF At(y, p) # NULL THEN At(y, p) ELSE At(x, p)

(* no map in root has a key twice: HASH_FIND would be free to find either *)
RootKeysDiffer ==
  \A n \in was.root : was.heap.type[n] = "MAP" =>
    \A c, d \in Cells(was.heap, n) : was.heap.key[c] = was.heap.key[d] => c = d

(* To merge the same additions again changes nothing and reports the same. *)
AgainIsSame ==
  Merged /\ was.call = call /\ calls = 2 /\ RootKeysDiffer =>
    Now(call.root) = Was(call.root) /\ ret = was.ret

=============================================================================
