---------------------------- MODULE MCPtGenerate ----------------------------
EXTENDS PtGenerate
CONSTANTS b1, b2, b1nul

MCBytes == {b1, b2, b1nul}
MCCBytes == {b1, b2}
MCCStr == [b \in MCBytes |-> IF b = b1nul THEN b1 ELSE b]

Containers(t, keys, values, sizes) ==
  {[t |-> t, v |-> NULL, kids |-> s] :
     s \in UNION {[1..n -> [key : keys, val : values]] : n \in sizes}}

(* texts: 5 is too wide for an int of 3 bits *)
TextLeaf == {Node("STRING", b1), Node("STRING", b1nul), Node("INTEGER", -4), Node("INTEGER", 5),
             Node("BOOLEAN", 1), Node("DOUBLE", -3), Node("NULL", NULL)}
TextInner == Containers("MAP", MCBytes, TextLeaf, {0, 1})
               \cup Containers("ARRAY", {NULL}, TextLeaf, {0, 1})
TextFew == {Node("STRING", b1nul), Node("BOOLEAN", 1)}
             \cup Containers("MAP", {b1}, {Node("INTEGER", 5)}, {1, 2})
             \cup Containers("ARRAY", {NULL}, {Node("NULL", NULL)}, {0, 2})
TextTrees ==
  {Node("NULL", NULL), Node("STRING", b1)}
    \cup Containers("MAP", MCBytes, TextLeaf \cup TextInner, {0, 1})
    \cup Containers("ARRAY", {NULL}, TextLeaf \cup TextInner, {0, 1})
    \cup Containers("MAP", MCBytes, TextFew, {2})
    \cup Containers("ARRAY", {NULL}, TextFew, {2})

RECURSIVE Text(_)
Text(n) ==
  CASE n.t = "MAP" ->
         <<Event("start_map", NULL)>>
           \o FlattenSeq([i \in DOMAIN n.kids |->
                <<Event("map_key", n.kids[i].key)>> \o Text(n.kids[i].val)])
           \o <<Event("end_map", NULL)>>
    [] n.t = "ARRAY" ->
         <<Event("start_array", NULL)>>
           \o FlattenSeq([i \in DOMAIN n.kids |-> Text(n.kids[i].val)])
           \o <<Event("end_array", NULL)>>
    [] OTHER -> <<Event(n.t, n.v)>>

(* whole, or cut short *)
MCTexts == UNION {Prefixes(Text(n)) : n \in TextTrees}

(* Documents that a program builds.  A text that is a number and nothing else
   is left out: yajl may not report a number before it sees where it ends, and
   parse_json does not tell it that the text is over.                        *)
DocLeaf == {Node("STRING", b1), Node("INTEGER", 3), Node("INTEGER", -4), Node("BOOLEAN", 2), Node("DOUBLE", 3),
            Node("NULL", NULL)}
DocInner == Containers("MAP", {b1, b2}, DocLeaf, {0, 1})
              \cup Containers("ARRAY", {NULL}, DocLeaf \cup {NULL}, {0, 1})
DocPairs(values) ==
  {[t |-> "MAP", v |-> NULL, kids |-> <<[key |-> k[1], val |-> x], [key |-> k[2], val |-> y]>>] :
     k \in {<<b1, b2>>, <<b2, b1>>}, x \in values, y \in values}
MCDocs ==
  {NULL, Node("STRING", b1), Node("BOOLEAN", 2), Node("NULL", NULL)}
    \cup Containers("MAP", {b1, b2}, DocLeaf \cup DocInner, {0, 1})
    \cup Containers("ARRAY", {NULL}, DocLeaf \cup DocInner \cup {NULL}, {0, 1})
    \cup DocPairs(DocLeaf \cup DocInner)
    \cup Containers("ARRAY", {NULL}, DocLeaf \cup {NULL}, {2})
=============================================================================
