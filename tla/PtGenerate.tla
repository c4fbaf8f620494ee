----------------------------- MODULE PtGenerate -----------------------------
(***************************************************************************)
(* pt_to_json and pt_from_json of src/pillowtalk_impl.c, one after the      *)
(* other: a program reads a text, writes the document, reads that again ... *)
(* The module keeps the values of scalars, which PtParser leaves out, and   *)
(* asks what of a document and of a text survives.                          *)
(*                                                                          *)
(* yajl is external.  A text is the sequence of its events, the order of    *)
(* calls to yajl_gen_* and to the callbacks, and yajl passes what they say  *)
(* as it is.  It is for TLC: the module has recursive operators.            *)
(***************************************************************************)
EXTENDS Integers, Sequences, SequencesExt

CONSTANTS
  Bytes,     \* keys and strings, as byte strings with a length
  CBytes,    \* those with no NUL byte
  CStr,      \* the part before the first NUL
  NULL,
  IntBits,   \* the width of an int
  Texts,     \* what a program may read first
  Docs       \* what it may have built with the node functions

ASSUME BytesAssumption ==
  /\ CBytes \subseteq Bytes
  /\ CStr \in [Bytes -> CBytes]
  /\ \A b \in CBytes : CStr[b] = b
ASSUME IntBitsAssumption == IntBits \in Nat \ {0}

VARIABLES
  json,     \* the text at hand, what is read next
  doc,      \* the document at hand: NULL, or [t, v, kids]
  turn,     \* "text" or "doc": which of the two is new
  read,     \* the text that doc was read from, or NULL
  written   \* the document that json was written from; <<>> if it was not

vars == <<json, doc, turn, read, written>>

Event(e, v) == [e |-> e, v |-> v]
Node(t, v) == [t |-> t, v |-> v, kids |-> <<>>]

(* a mutant: the int is unsigned *)
ToIntUnsigned(i) == i % (2 ^ IntBits)

(* an assignment of a long long to an int *)
ToInt(i) == LET half == 2 ^ (IntBits - 1) IN ((i + half) % (2 * half)) - half

----------------------------------------------------------------------------
(* Writing *)

(* a mutant: pairs without a value are skipped, but not their keys *)
RECURSIVE GenerateBare(_)
GenerateBare(n) ==
  IF n = NULL THEN <<>>
  ELSE CASE n.t = "MAP" ->
              <<Event("start_map", NULL)>>
                \o FlattenSeq([i \in DOMAIN n.kids |->
                     <<Event("map_key", CStr[n.kids[i].key])>> \o GenerateBare(n.kids[i].val)])
                \o <<Event("end_map", NULL)>>
         [] n.t = "ARRAY" ->
              <<Event("start_array", NULL)>>
                \o FlattenSeq([i \in DOMAIN n.kids |-> GenerateBare(n.kids[i].val)])
                \o <<Event("end_array", NULL)>>
         [] OTHER -> <<Event(n.t, n.v)>>

(* generate_node_json, generate_map_json and generate_array_json.  Keys and
   strings are written up to a NUL, NULL is written as null.                *)
RECURSIVE GenerateNode(_)
GenerateNode(n) ==
  IF n = NULL THEN <<Event("NULL", NULL)>>
  ELSE CASE n.t = "MAP" ->
              <<Event("start_map", NULL)>>
                \o FlattenSeq([i \in DOMAIN n.kids |->
                     <<Event("map_key", CStr[n.kids[i].key])>> \o GenerateNode(n.kids[i].val)])
                \o <<Event("end_map", NULL)>>
         [] n.t = "ARRAY" ->
              <<Event("start_array", NULL)>>
                \o FlattenSeq([i \in DOMAIN n.kids |-> GenerateNode(n.kids[i].val)])
                \o <<Event("end_array", NULL)>>
         [] n.t = "STRING" -> <<Event("STRING", CStr[n.v])>>
         [] n.t = "BOOLEAN" -> <<Event("BOOLEAN", IF n.v = 0 THEN 0 ELSE 1)>>
         [] n.t \in {"NULL", "INTEGER", "DOUBLE"} -> <<Event(n.t, n.v)>>

----------------------------------------------------------------------------
(* Reading: the parser's context p has the nodes made, in the order they were
   made and with kids as indices, the root, and the stack of containers.     *)

NewContext == [nodes |-> <<>>, root |-> 0, stack |-> <<>>]

(* a mutant: a second value for a key in the text goes to its first pair *)
AddNodeFirst(p, node) ==
  LET n == Len(p.nodes) + 1
      q == [p EXCEPT !.nodes = Append(@, node)]
      top == Head(p.stack)
      kids == p.nodes[top.container].kids
      pair == CHOOSE i \in DOMAIN kids : kids[i].key = kids[Len(kids)].key
  IN  IF p.stack = <<>> \/ top.cur = "NULL" THEN [q EXCEPT !.root = n]
      ELSE IF top.cur = "ARRAY"
        THEN [q EXCEPT !.nodes[top.container].kids = Append(@, [key |-> NULL, val |-> n])]
      ELSE [q EXCEPT !.nodes[top.container].kids[pair].val = n]

(* add_node_to_context_container, with a node that is made for it *)
AddNode(p, node) ==
  LET n == Len(p.nodes) + 1
      q == [p EXCEPT !.nodes = Append(@, node)]
      top == Head(p.stack)
      kids == p.nodes[top.container].kids
  IN  IF p.stack = <<>> \/ top.cur = "NULL" THEN [q EXCEPT !.root = n]
      ELSE IF top.cur = "ARRAY"
        THEN [q EXCEPT !.nodes[top.container].kids = Append(@, [key |-> NULL, val |-> n])]
      ELSE [q EXCEPT !.nodes[top.container].kids[Len(kids)].val = n]

(* json_map_key: the new pair, whose value is to come, is now cur *)
MapKey(p, k) ==
  [p EXCEPT !.nodes[Head(p.stack).container].kids = Append(@, [key |-> k, val |-> 0]),
            !.stack[1].cur = "PAIR"]

(* json_start_map, json_start_array *)
StartContainer(p, t, cur) ==
  LET q == AddNode(p, Node(t, NULL))
  IN  [q EXCEPT !.stack = <<[container |-> Len(q.nodes), cur |-> cur]>> \o @]

(* json_end_map, json_end_array *)
EndContainer(p) == [p EXCEPT !.stack = Tail(@)]

(* a mutant: a boolean keeps no value *)
ScalarForgetful(ev) == Node(ev.e, IF ev.e = "BOOLEAN" THEN 0 ELSE ev.v)

(* json_null, json_boolean, json_integer, json_double, json_string *)
Scalar(ev) == Node(ev.e, IF ev.e = "INTEGER" THEN ToInt(ev.v) ELSE ev.v)

Callback(p, ev) ==
  CASE ev.e = "start_map" -> StartContainer(p, "MAP", "NULL")
    [] ev.e = "start_array" -> StartContainer(p, "ARRAY", "ARRAY")
    [] ev.e \in {"end_map", "end_array"} -> EndContainer(p)
    [] ev.e = "map_key" -> MapKey(p, ev.v)
    [] OTHER -> AddNode(p, Scalar(ev))

RECURSIVE Tree(_, _)
Tree(nodes, n) ==
  IF n = 0 THEN NULL
  ELSE [nodes[n] EXCEPT !.kids =
          [i \in DOMAIN @ |-> [key |-> @[i].key, val |-> Tree(nodes, @[i].val)]]]

(* parse_json of a text that may end anywhere *)
ParseJson(text) ==
  LET p == FoldLeft(Callback, NewContext, text) IN Tree(p.nodes, p.root)

----------------------------------------------------------------------------

Init ==
  /\ \/ json \in Texts /\ doc = NULL /\ turn = "text"
     \/ json = <<>> /\ doc \in Docs /\ turn = "doc"
  /\ read = NULL /\ written = <<>>

PtFromJson ==
  /\ turn = "text" /\ turn' = "doc"
  /\ doc' = ParseJson(json)
  /\ read' = json
  /\ UNCHANGED <<json, written>>

PtToJson ==
  /\ turn = "doc" /\ turn' = "text"
  /\ json' = GenerateNode(doc)
  /\ written' = <<doc>>
  /\ UNCHANGED <<doc, read>>

Next == PtFromJson \/ PtToJson

Spec == Init /\ [][Next]_vars

----------------------------------------------------------------------------
(* What a program can tell of a document: the getters and the lookups.  A
   double is counted in halves.                                             *)

IsNull(n) == n = NULL \/ n.t = "NULL"

IsA(n, t) == n # NULL /\ n.t = t

BooleanGet(n) == IF IsA(n, "BOOLEAN") THEN n.v ELSE 0

(* a double is cut off towards zero *)
IntegerGet(n) ==
  IF IsA(n, "INTEGER") THEN n.v
  ELSE IF IsA(n, "DOUBLE") THEN IF n.v >= 0 THEN n.v \div 2 ELSE -((-n.v) \div 2)
  ELSE 0

DoubleGet(n) ==
  IF IsA(n, "DOUBLE") THEN n.v ELSE IF IsA(n, "INTEGER") THEN 2 * n.v ELSE 0

(* a const char*: what is after a NUL cannot be seen *)
StringGet(n) == IF IsA(n, "STRING") THEN CStr[n.v] ELSE NULL

ArrayLen(n) == IF IsA(n, "ARRAY") THEN Len(n.kids) ELSE 0

ArrayGet(n, i) == IF IsA(n, "ARRAY") /\ i < Len(n.kids) THEN n.kids[i + 1].val ELSE NULL

(* the pair that was added last is the first in its bucket *)
MapGet(n, k) ==
  LET i == IF IsA(n, "MAP") THEN SelectLastInSeq(n.kids, LAMBDA kid : kid.key = k) ELSE 0
  IN  IF i = 0 THEN NULL ELSE n.kids[i].val

Scalars(n) == <<IsNull(n), BooleanGet(n) # 0, IntegerGet(n), DoubleGet(n), StringGet(n)>>

RECURSIVE SameLook(_, _)
SameLook(m, n) ==
  /\ Scalars(m) = Scalars(n)
  /\ ArrayLen(m) = ArrayLen(n)
  /\ \A i \in 0..(ArrayLen(m) - 1) : SameLook(ArrayGet(m, i), ArrayGet(n, i))
  /\ \A k \in CBytes :
       MapGet(m, k) # NULL \/ MapGet(n, k) # NULL => SameLook(MapGet(m, k), MapGet(n, k))

RECURSIVE NoNulKeys(_)
NoNulKeys(n) ==
  n # NULL => \A i \in DOMAIN n.kids : /\ n.kids[i].key \in CBytes \cup {NULL}
                                      /\ NoNulKeys(n.kids[i].val)

(* JSON's grammar, as the contexts that are open before an event *)
GrammarStep(open, ev) ==
  LET now == Head(open)
      value == IF now = "VALUE" THEN Tail(open)
               ELSE IF now = "PAIR" THEN <<"KEY">> \o Tail(open)
               ELSE open
  IN  IF open = <<>> THEN <<"ERROR">>
      ELSE CASE ev.e = "map_key" /\ now = "KEY" -> <<"PAIR">> \o Tail(open)
             [] ev.e = "end_map" /\ now = "KEY" -> Tail(open)
             [] ev.e = "end_array" /\ now = "ITEM" -> Tail(open)
             [] ev.e = "start_map" /\ now \in {"VALUE", "PAIR", "ITEM"} -> <<"KEY">> \o value
             [] ev.e = "start_array" /\ now \in {"VALUE", "PAIR", "ITEM"} -> <<"ITEM">> \o value
             [] ev.e \in {"NULL", "BOOLEAN", "INTEGER", "DOUBLE", "STRING"}
                  /\ now \in {"VALUE", "PAIR", "ITEM"} -> value
             [] OTHER -> <<"ERROR">>

IsJson(text) == FoldLeft(GrammarStep, <<"VALUE">>, text) = <<>>

(* no NUL, and integers that fit *)
Fits(text) ==
  \A i \in DOMAIN text :
    /\ text[i].e \in {"map_key", "STRING"} => text[i].v \in CBytes
    /\ text[i].e = "INTEGER" => ToInt(text[i].v) = text[i].v

(* Whatever the document, that of a text cut short and one with NULL in it
   included, pt_to_json writes one JSON value that can be read without loss. *)
WritesJson == turn = "text" /\ written # <<>> => IsJson(json) /\ Fits(json)

(* A text that is JSON, has no NUL and no integer too wide for an int is
   written as it was read, keys that occur twice included.                  *)
TextPasses == turn = "text" /\ read # NULL /\ IsJson(read) /\ Fits(read) => json = read

(* From the first time it is written on, a document keeps its text. *)
TextSettles ==
  [][turn = "doc" /\ turn' = "text" /\ read # NULL /\ written # <<>> => json' = json]_vars

(* A document that was written and read again is the same to a program: each
   lookup finds a value of which each getter says the same.  Only for keys
   with a NUL is it otherwise.                                              *)
LooksTheSame ==
  turn = "doc" /\ written # <<>> /\ NoNulKeys(Head(written)) => SameLook(Head(written), doc)

=============================================================================
