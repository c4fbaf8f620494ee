------------------------------ MODULE PtValues ------------------------------
(***************************************************************************)
(* What the node functions of pillowtalk promise to a program that does not *)
(* look at addresses: each document it holds is a value, a tree without     *)
(* sharing, and a call changes the one document it is made on, at one       *)
(* place, by the values of those it is given.                               *)
(***************************************************************************)
EXTENDS Naturals, Sequences, SequencesExt

CONSTANTS
  Node, CKey, NULL,
  NodeType

VARIABLE docs   \* from the documents the program holds to their values

(* A value is [t, kids], the kids a sequence of [key, val] in which val may be
   NULL.  A place in it is the sequence of positions on the way there.       *)
RECURSIVE Places(_)
Places(v) ==
  {<<>>} \cup UNION {{<<i>> \o p : p \in Places(v.kids[i].val)} :
                       i \in {j \in DOMAIN v.kids : v.kids[j].val # NULL}}

RECURSIVE At(_, _)
At(v, p) == IF p = <<>> THEN v ELSE At(v.kids[Head(p)].val, Tail(p))

RECURSIVE WithKids(_, _, _)
WithKids(v, p, kids) ==
  IF p = <<>> THEN [v EXCEPT !.kids = kids]
  ELSE [v EXCEPT !.kids[Head(p)].val = WithKids(@, Tail(p), kids)]

(* The kids at place p of document d change; the documents in given are its
   parts now.                                                              *)
Change(d, p, kids, given) ==
  docs' = [x \in DOMAIN docs \ given |->
             IF x = d THEN WithKids(docs[d], p, kids) ELSE docs[x]]

----------------------------------------------------------------------------

Init == docs = <<>>

New(n, t) ==
  /\ n \notin DOMAIN docs
  /\ docs' = [x \in DOMAIN docs \cup {n} |->
                IF x = n THEN [t |-> t, kids |-> <<>>] ELSE docs[x]]

(* the value of a key that is there changes where it is, a new key goes last *)
Set(d, p, k, x) ==
  LET kids == At(docs[d], p).kids
      hits == {i \in DOMAIN kids : kids[i].key = k}
  IN  /\ At(docs[d], p).t = "MAP" /\ x # d
      /\ \/ \E i \in hits : Change(d, p, [kids EXCEPT ![i].val = docs[x]], {x})
         \/ hits = {} /\ Change(d, p, Append(kids, [key |-> k, val |-> docs[x]]), {x})

Unset(d, p, k) ==
  LET kids == At(docs[d], p).kids
  IN  /\ At(docs[d], p).t = "MAP"
      /\ \E i \in DOMAIN kids : kids[i].key = k /\ Change(d, p, RemoveAt(kids, i), {})

Push(d, p, x) ==
  LET kids == At(docs[d], p).kids
      kid == [key |-> NULL, val |-> IF x = NULL THEN NULL ELSE docs[x]]
  IN  /\ At(docs[d], p).t = "ARRAY" /\ x # d
      /\ Change(d, p, <<kid>> \o kids, {x}) \/ Change(d, p, Append(kids, kid), {x})

(* any element that is a node, or the first that is NULL *)
TakeOut(d, p, i) ==
  LET kids == At(docs[d], p).kids
  IN  /\ At(docs[d], p).t = "ARRAY"
      /\ i \in DOMAIN kids
      /\ kids[i].val = NULL => \A j \in 1..(i - 1) : kids[j].val # NULL
      /\ Change(d, p, RemoveAt(kids, i), {})

Free(d) == docs' = [x \in DOMAIN docs \ {d} |-> docs[x]]

(* a parse gives one new document, of any value, or none *)
Receive(n) ==
  /\ n \notin DOMAIN docs /\ DOMAIN docs' = DOMAIN docs \cup {n}
  /\ \A x \in DOMAIN docs : docs'[x] = docs[x]

Next ==
  \/ \E n \in Node : Receive(n) \/ \E t \in NodeType : New(n, t)
  \/ \E d \in DOMAIN docs :
       \/ Free(d)
       \/ \E p \in Places(docs[d]) :
            \/ \E k \in CKey : Unset(d, p, k) \/ \E x \in DOMAIN docs : Set(d, p, k, x)
            \/ \E x \in DOMAIN docs \cup {NULL} : Push(d, p, x)
            \/ \E i \in DOMAIN At(docs[d], p).kids : TakeOut(d, p, i)

Spec == Init /\ [][Next]_docs

=============================================================================
