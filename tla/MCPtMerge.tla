----------------------------- MODULE MCPtMerge -----------------------------
EXTENDS PtMergeValues
CONSTANTS n1, n2, n3, n4, n5, n6, n7, n8, m1, m2, m3, c1, c2, c3, c4, c5, c6, c7, d1, d2, d3,
          k1, k2, k1nul, int1, int2, dbl, str1, str2

MCKey == {k1, k2, k1nul}
MCCKey == {k1, k2}
MCCStr == [k \in MCKey |-> IF k = k1nul THEN k1 ELSE k]
MCLoad == {int1, int2, dbl, str1, str2}
MCKind == [l \in MCLoad |-> CASE l \in {int1, int2} -> "integer" [] l = dbl -> "double"
                              [] OTHER -> "string"]

Nodes == <<n1, n2, n3, n4, n5, n6, n7, n8>>
CellsThere == <<c1, c2, c3, c4, c5, c6, c7>>
MCNode == ToSet(Nodes) \cup {m1, m2, m3}
MCCell == ToSet(CellsThere) \cup {d1, d2, d3}
MCArgs == {n1, n2, NULL}
Spares == Permutations({m1, m2, m3}) \cup Permutations({d1, d2, d3})

Map(kids) == [t |-> "MAP", load |-> int1, kids |-> kids]
Arr(vals) == [t |-> "ARRAY", load |-> int1, kids |-> [i \in DOMAIN vals |-> <<NULL, vals[i]>>]]
Leaf(l) == [t |-> IF MCKind[l] = "string" THEN "STRING" ELSE "SCALAR", load |-> l, kids |-> <<>>]

(* The nodes of D are laid out in memory, with numbers, and an array n8 of
   nothing, in the room that is left: what is free are the spares.            *)
Layout(D) ==
  LET used == FlattenSeq([i \in DOMAIN Nodes |->
                            IF Nodes[i] \in DOMAIN D THEN D[Nodes[i]].kids ELSE <<>>])
      E == [n \in ToSet(Nodes) |->
              IF n \in DOMAIN D THEN D[n]
              ELSE IF n = n8 THEN Arr([i \in 1..(Len(CellsThere) - Len(used)) |-> NULL])
              ELSE Leaf(int1)]
      KidsTo(i) == FlattenSeq([j \in 1..i |-> E[Nodes[j]].kids])
      Before(n) == Len(KidsTo((CHOOSE i \in DOMAIN Nodes : Nodes[i] = n) - 1))
      all == KidsTo(Len(Nodes))
      At1(c) == CHOOSE i \in DOMAIN CellsThere : CellsThere[i] = c
      low == ToSet(CellsThere)
  IN  [heap |->
         [type  |-> [n \in MCNode |-> IF n \in DOMAIN E THEN E[n].t ELSE "FREE"],
          chain |-> [n \in MCNode |->
                       IF n \in DOMAIN E
                       THEN SubSeq(CellsThere, Before(n) + 1, Before(n) + Len(E[n].kids))
                       ELSE <<>>],
          len   |-> [n \in MCNode |->
                       IF n \in DOMAIN E /\ E[n].t = "ARRAY" THEN Len(E[n].kids) ELSE 0],
          cells |-> low,
          key   |-> [c \in MCCell |-> IF c \in low THEN all[At1(c)][1] ELSE NULL],
          val   |-> [c \in MCCell |-> IF c \in low THEN all[At1(c)][2] ELSE NULL],
          text  |-> {n \in DOMAIN E : E[n].t = "STRING"}
                      \cup {c \in low : all[At1(c)][1] # NULL}],
       load |-> [n \in MCNode |-> IF n \in DOMAIN E THEN E[n].load ELSE int1],
       held |-> DOMAIN E \ {all[i][2] : i \in DOMAIN all}]

(* n1 and n2 are passed: root, most often, and additions *)
Memories == {
  \* replaced and added
  n1 :> Map(<<<<k1, n3>>>>) @@ n2 :> Map(<<<<k1, n4>>, <<k2, n5>>>>)
    @@ n3 :> Leaf(str1) @@ n4 :> Leaf(str2) @@ n5 :> Leaf(dbl),
  \* a map into a map
  n1 :> Map(<<<<k1, n3>>>>) @@ n3 :> Map(<<<<k1, n4>>>>) @@ n4 :> Leaf(int1)
    @@ n2 :> Map(<<<<k1, n5>>>>) @@ n5 :> Map(<<<<k1, n6>>, <<k2, n7>>>>)
    @@ n6 :> Leaf(int2) @@ n7 :> Arr(<<NULL>>),
  n1 :> Map(<<<<k1, n3>>>>) @@ n3 :> Map(<<<<k1, n4>>>>) @@ n4 :> Leaf(int1)
    @@ n2 :> Map(<<<<k1, n5>>>>) @@ n5 :> Map(<<<<k2, n6>>>>) @@ n6 :> Leaf(int2),
  \* a mismatch in there
  n1 :> Map(<<<<k1, n3>>>>) @@ n3 :> Map(<<<<k1, n4>>>>) @@ n4 :> Leaf(int1)
    @@ n2 :> Map(<<<<k1, n5>>, <<k2, n6>>>>) @@ n5 :> Map(<<<<k1, n7>>, <<k2, NULL>>>>)
    @@ n6 :> Leaf(int2) @@ n7 :> Leaf(str1),
  \* and at once, between two kinds of number
  n1 :> Map(<<<<k1, n3>>>>) @@ n2 :> Map(<<<<k2, n4>>, <<k1, n5>>>>)
    @@ n3 :> Leaf(int1) @@ n4 :> Leaf(str1) @@ n5 :> Leaf(dbl),
  \* arrays, and a pair of root without a value
  n1 :> Map(<<<<k1, n3>>, <<k2, NULL>>>>) @@ n3 :> Arr(<<n4>>) @@ n4 :> Leaf(int1)
    @@ n2 :> Map(<<<<k2, n6>>, <<k1, n5>>>>) @@ n5 :> Arr(<<NULL, n7>>)
    @@ n6 :> Leaf(str2) @@ n7 :> Leaf(str1),
  \* keys with a NUL, and one twice in root
  n1 :> Map(<<<<k1nul, n3>>>>) @@ n2 :> Map(<<<<k1nul, n4>>, <<k1, n5>>>>)
    @@ n3 :> Leaf(str1) @@ n4 :> Leaf(int1) @@ n5 :> Leaf(int2),
  n1 :> Map(<<<<k1, n3>>, <<k1, n4>>>>) @@ n3 :> Leaf(int1) @@ n4 :> Map(<<>>)
    @@ n2 :> Map(<<<<k1nul, n5>>>>) @@ n5 :> Map(<<<<k1, n6>>>>) @@ n6 :> Leaf(int2),
  \* one twice in additions
  n1 :> Map(<<>>) @@ n2 :> Map(<<<<k1, n3>>, <<k1, n4>>>>) @@ n3 :> Map(<<<<k1, n5>>>>)
    @@ n4 :> Map(<<<<k1, n6>>>>) @@ n5 :> Leaf(int1) @@ n6 :> Leaf(int2),
  \* additions in root, through maps
  n1 :> Map(<<<<k1, n2>>, <<k2, n5>>>>) @@ n2 :> Map(<<<<k1, n3>>, <<k2, n6>>>>)
    @@ n3 :> Map(<<<<k2, n4>>>>) @@ n4 :> Leaf(int1) @@ n5 :> Leaf(int1) @@ n6 :> Leaf(int2),
  \* through arrays
  n1 :> Map(<<<<k1, n3>>>>) @@ n3 :> Arr(<<n2>>) @@ n2 :> Map(<<<<k1, n4>>>>) @@ n4 :> Arr(<<>>),
  n1 :> Map(<<<<k1, n3>>>>) @@ n3 :> Map(<<<<k1, n4>>>>) @@ n4 :> Arr(<<n2>>)
    @@ n2 :> Map(<<<<k1, n5>>>>) @@ n5 :> Map(<<<<k1, n6>>, <<k2, n7>>>>)
    @@ n6 :> Arr(<<>>) @@ n7 :> Leaf(int2),
  \* root in additions
  n2 :> Map(<<<<k1, n1>>, <<k2, n5>>>>) @@ n1 :> Map(<<<<k1, n3>>>>) @@ n3 :> Map(<<<<k2, n4>>>>)
    @@ n4 :> Leaf(str1) @@ n5 :> Leaf(int2),
  \* no map
  n1 :> Arr(<<n3, NULL, n4>>) @@ n3 :> Arr(<<n5>>) @@ n4 :> Leaf(dbl) @@ n5 :> Leaf(str2)
    @@ n2 :> Leaf(str1) }

MCStart == {Layout(D) : D \in Memories}
=============================================================================
