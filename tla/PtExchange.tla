----------------------------- MODULE PtExchange -----------------------------
(***************************************************************************)
(* What a caller of pt_get, pt_unparsed_get, pt_put, pt_put_raw or          *)
(* pt_delete is promised.  The call comes back, unless the other end leaves *)
(* the exchange open for ever.  It comes back with the whole body that the  *)
(* server answered, and its code, or 500 when curl cannot tell the code;    *)
(* or, when the exchange failed, with 500 and no body.  Never with a part   *)
(* of a body, and never with another code than these.                       *)
(***************************************************************************)
EXTENDS Naturals, Sequences

CONSTANTS
  Code,    \* the status codes a server answers with
  Body     \* the bodies it may answer with, each a sequence of bytes

VARIABLES
  phase,   \* "idle", "waiting", "stalled" when nothing more comes from outside,
           \* or "answered" while the program has the response
  offer,   \* what the server answers, if the exchange succeeds
  answer   \* what the program got

exchangeVars == <<phase, offer, answer>>

Offer == [code : Code, body : Body]
Failure == [code |-> 500, body |-> <<>>]

Init == phase = "idle" /\ offer = Failure /\ answer = Failure

Ask ==
  /\ phase = "idle" /\ phase' = "waiting"
  /\ offer' \in Offer
  /\ UNCHANGED answer

Answer ==
  /\ phase = "waiting" /\ phase' = "answered"
  /\ answer' \in {offer, [offer EXCEPT !.code = 500], Failure}
  /\ UNCHANGED offer

Stall ==
  /\ phase = "waiting" /\ phase' = "stalled"
  /\ UNCHANGED <<offer, answer>>

(* the connection breaks at last *)
Break ==
  /\ phase = "stalled" /\ phase' = "answered"
  /\ answer' = Failure
  /\ UNCHANGED offer

Forget ==
  /\ phase = "answered" /\ phase' = "idle"
  /\ offer' = Failure /\ answer' = Failure

Next == Ask \/ Answer \/ Stall \/ Break \/ Forget

(* The caller is never left waiting, but by a stall. *)
Spec == Init /\ [][Next]_exchangeVars /\ WF_exchangeVars(Answer)

=============================================================================
