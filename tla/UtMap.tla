------------------------------- MODULE UtMap --------------------------------
(***************************************************************************)
(* What the hash table of a map promises to pillowtalk: its pairs in the    *)
(* order they were added in, which is the order they are walked in, and     *)
(* for a key one of the pairs with that key, as PtHeap has it.              *)
(***************************************************************************)
EXTENDS Naturals, Sequences, SequencesExt

CONSTANTS Item, Key, NULL

VARIABLES
  order,   \* the pairs of the map
  key,     \* their keys; NULL for a pair that is in no map
  dying    \* the map is being freed

Init == order = <<>> /\ key = [i \in Item |-> NULL] /\ dying = FALSE

Add(i, k) ==
  /\ ~dying /\ i \notin ToSet(order)
  /\ order' = Append(order, i)
  /\ key' = [key EXCEPT ![i] = k]
  /\ UNCHANGED dying

Delete(n) ==
  /\ order' = RemoveAt(order, n)
  /\ key' = [key EXCEPT ![order[n]] = NULL]
  /\ UNCHANGED dying

(* HASH_FIND, then HASH_DEL of what it found *)
Unset(k) == ~dying /\ \E n \in DOMAIN order : key[order[n]] = k /\ Delete(n)

(* free_map_node: HASH_DEL of the first, until there is none *)
FreeBegin == ~dying /\ order # <<>> /\ dying' = TRUE /\ UNCHANGED <<order, key>>
Drain == dying /\ order # <<>> /\ Delete(1)
FreeEnd == dying /\ order = <<>> /\ dying' = FALSE /\ UNCHANGED <<order, key>>

Next ==
  \/ \E i \in Item, k \in Key : Add(i, k)
  \/ \E k \in Key : Unset(k)
  \/ FreeBegin \/ Drain \/ FreeEnd

Spec == Init /\ [][Next]_<<order, key, dying>>
=============================================================================
