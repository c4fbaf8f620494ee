-------------------------- MODULE PtDocumentValues --------------------------
(***************************************************************************)
(* PtDocument, which works on addresses, keeps the promise of PtValues.     *)
(***************************************************************************)
EXTENDS PtDocument

RECURSIVE Value(_, _)
Value(h, n) ==
  IF n = NULL THEN NULL
  ELSE [t |-> h.type[n],
        kids |-> [i \in DOMAIN h.chain[n] |->
                    LET c == h.chain[n][i]
                    IN  [key |-> h.key[c], val |-> Value(h, h.val[c])]]]

Values == INSTANCE PtValues WITH docs <- [n \in held |-> Value(heap, n)]

(* To a program its documents are values: whatever it calls, and whatever is
   parsed, a document changes only by the calls made on it, at the place they
   name and in the order documented there, and shares nothing with another.  *)
KeepsValues == Values!Spec

=============================================================================
