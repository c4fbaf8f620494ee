------------------------------ MODULE PtParser ------------------------------
(***************************************************************************)
(* parse_json and the yajl callbacks of src/pillowtalk_impl.c.  yajl reads  *)
(* the text and calls back once per JSON event; the callbacks build the     *)
(* document on the heap, and find the place of the next value from a stack  *)
(* of containers.                                                           *)
(*                                                                          *)
(* yajl itself is external.  Of it the model keeps the order of events its  *)
(* grammar allows (the stack gram) and that it can stop after any event:    *)
(* at the end of the text, or at an error in it.                            *)
(***************************************************************************)
EXTENDS PtHeap

VARIABLES
  heap,
  root,    \* pt_parser_ctx_t.root
  stack,   \* pt_parser_ctx_t.stack, its head first
  gram     \* what yajl's grammar expects, innermost first; <<>> when idle

parserVars == <<root, stack, gram>>

(* pt_container_ctx_t *)
Frame == [container : Node, cur : Node \cup Cell \cup {NULL}]

(* "VALUE": the document itself.  "KEY": a key or the end of the map.
   "PAIR": the value of a key.  "ITEM": a value or the end of the array.
   "DONE": nothing more.                                                   *)
Expect == {"VALUE", "KEY", "PAIR", "ITEM", "DONE"}

Parsing == gram # <<>>

(* yajl passes on a value only where the grammar has one. *)
ValueExpected == Parsing /\ Head(gram) \in {"VALUE", "PAIR", "ITEM"}

AfterValue ==
  CASE Head(gram) = "VALUE" -> "DONE"
    [] Head(gram) = "PAIR"  -> "KEY"
    [] Head(gram) = "ITEM"  -> "ITEM"

----------------------------------------------------------------------------
(* add_node_to_context_container *)

InContainer == stack # <<>> /\ Head(stack).cur # NULL
Cur == Head(stack).cur
IntoArray == InContainer /\ Cur \in Node /\ heap.type[Cur] = "ARRAY"

(* the addresses malloc may return for the new element; no other branch
   of the routine allocates                                                *)
ElemCells == IF IntoArray THEN FreshCells(heap) ELSE {NULL}

(* The heap after value v, a node of heap h, is added; the third branch is
   the "Shouldn't get here" one, which drops v.                            *)
AddToContext(h, v, c) ==
  CASE IntoArray                 -> SetVal(AddElemBack(h, Cur, c), c, v)
    [] InContainer /\ Cur \in Cell -> SetVal(h, Cur, v)
    [] OTHER                     -> h

(* a mutant: every value becomes the root *)
RootAlways(v) == v

RootAfter(v) == IF InContainer THEN root ELSE v

----------------------------------------------------------------------------

(* parse_json, up to yajl_parse: a new context, with no stack and no root *)
ParseBegin ==
  /\ ~Parsing
  /\ gram' = <<"VALUE">>
  /\ UNCHANGED <<heap, root, stack>>

(* json_null, json_boolean, json_integer, json_double, json_string *)
JsonScalar(n, t, c) ==
  /\ ValueExpected
  /\ heap' = AddToContext(NewNode(heap, n, t), n, c)
  /\ root' = RootAfter(n)
  /\ gram' = <<AfterValue>> \o Tail(gram)
  /\ UNCHANGED stack

JsonStartMap(n, c) ==
  /\ ValueExpected
  /\ heap' = AddToContext(NewNode(heap, n, "MAP"), n, c)
  /\ root' = RootAfter(n)
  /\ stack' = <<[container |-> n, cur |-> NULL]>> \o stack
  /\ gram' = <<"KEY", AfterValue>> \o Tail(gram)

JsonStartArray(n, c) ==
  /\ ValueExpected
  /\ heap' = AddToContext(NewNode(heap, n, "ARRAY"), n, c)
  /\ root' = RootAfter(n)
  /\ stack' = <<[container |-> n, cur |-> n]>> \o stack
  /\ gram' = <<"ITEM", AfterValue>> \o Tail(gram)

(* The pair is added with no value yet, and with no look at the keys that
   are there: a key that occurs twice in the text is twice in the map.     *)
JsonMapKey(c, k) ==
  /\ Parsing /\ Head(gram) = "KEY"
  /\ heap' = AddPair(heap, Head(stack).container, c, k)
  /\ stack' = [stack EXCEPT ![1].cur = c]
  /\ gram' = <<"PAIR">> \o Tail(gram)
  /\ UNCHANGED root

(* a mutant: the container stays on the stack *)
JsonEndMapKept ==
  /\ Parsing /\ Head(gram) = "KEY"
  /\ gram' = Tail(gram)
  /\ UNCHANGED <<heap, root, stack>>

JsonEndMap ==
  /\ Parsing /\ Head(gram) = "KEY"
  /\ stack' = Tail(stack)
  /\ gram' = Tail(gram)
  /\ UNCHANGED <<heap, root>>

JsonEndArray ==
  /\ Parsing /\ Head(gram) = "ITEM"
  /\ stack' = Tail(stack)
  /\ gram' = Tail(gram)
  /\ UNCHANGED <<heap, root>>

(* yajl_parse has returned, with or without an error: free_parser_ctx frees
   what is left of the stack, and the caller gets whatever was built.      *)
ParseReturn ==
  /\ Parsing
  /\ root' = NULL
  /\ stack' = <<>>
  /\ gram' = <<>>
  /\ UNCHANGED heap

Callback ==
  \/ \E n \in FreshNodes(heap), c \in ElemCells :
       \/ \E t \in NodeType \ Container : JsonScalar(n, t, c)
       \/ JsonStartMap(n, c)
       \/ JsonStartArray(n, c)
  \/ \E c \in FreshCells(heap), k \in Key : JsonMapKey(c, k)
  \/ JsonEndMap
  \/ JsonEndArray

----------------------------------------------------------------------------
(* The stack of open containers follows yajl's grammar. *)

(* The frame a grammar state goes with: a frame of the container yajl is in,
   whose cur is the array itself, or, between a key and its value, the pair
   of that key, still without value.                                       *)
FrameFits(h, f, e) ==
  \/ /\ e = "ITEM"
     /\ h.type[f.container] = "ARRAY"
     /\ f.cur = f.container
  \/ /\ e \in {"KEY", "PAIR"}
     /\ h.type[f.container] = "MAP"
     /\ f.cur \in Cells(h, f.container) \cup {NULL}
     /\ e = "PAIR" => f.cur # NULL /\ h.val[f.cur] = NULL

ParserTypeOK ==
  /\ root \in Node \cup {NULL}
  /\ stack \in Seq(Frame)
  /\ gram \in Seq(Expect)

(* json_map_key and json_end_* assert that the container on top of the stack
   is of the kind yajl is in; add_node_to_context_container prints
   "Shouldn't get here" for a cur that is neither an array nor a pair, and
   would lose the value; a value that finds no cur replaces the root.  None
   of this can go wrong while the frames and the grammar agree.            *)
StackFollowsGrammar ==
  /\ Len(stack) = IF Parsing THEN Len(gram) - 1 ELSE 0
  /\ \A i \in 1..Len(stack) : FrameFits(heap, stack[i], gram[i])
  /\ \A i \in 2..Len(stack) : gram[i] # "PAIR"
  /\ Parsing => gram[Len(gram)] = IF root = NULL THEN "VALUE" ELSE "DONE"
  /\ root = NULL => stack = <<>>
  /\ ~Parsing => root = NULL

=============================================================================
