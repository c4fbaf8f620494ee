------------------------------ MODULE PtClient ------------------------------
(***************************************************************************)
(* A program that makes HTTP calls and works on documents: pt_get,          *)
(* pt_unparsed_get, pt_put, pt_put_raw and pt_delete as one whole, from the *)
(* request to the parsed response, and pt_free_response.  The exchange is   *)
(* that of PtExchange, which PtHttp implements; the documents are those of  *)
(* PtDocument, on one heap.                                                 *)
(*                                                                          *)
(* The program may hold any number of responses, and edit the documents in  *)
(* them in place.  Their roots stay theirs: to give one away, or to free it, *)
(* and then free the response would free it twice.                          *)
(***************************************************************************)
EXTENDS PtDocument

CONSTANTS
  Resp,        \* addresses of pt_response_t
  Code, Body   \* what servers answer

ASSUME ClientAssumption ==
  /\ NULL \notin Resp \cup Seq(Body)
  /\ NULL \notin [parse : BOOLEAN, res : Resp \cup {NULL}]
  /\ NULL \notin [code : Code \cup {500}, raw : Body \cup {NULL}, root : Node \cup {NULL}]

VARIABLES
  resp,    \* at each address a pt_response_t, or NULL
  call,    \* the call in progress: [parse, res], or NULL
  phase, offer, answer  \* its exchange

exchangeVars == <<phase, offer, answer>>
clientVars == <<vars, resp, call, exchangeVars>>

Exchange == INSTANCE PtExchange

----------------------------------------------------------------------------
(* The calls *)

(* Up to curl_easy_perform; pt_unparsed_get is the one that does not parse.
   There will be an address for the response.                              *)
CallBegin(parse) ==
  /\ call = NULL /\ ClientTurn
  /\ \E r \in Resp : resp[r] = NULL
  /\ Exchange!Ask
  /\ call' = [parse |-> parse, res |-> NULL]
  /\ UNCHANGED <<vars, resp>>

(* curl_easy_perform.  A call that stalls is one for which this does not come. *)
CallPerform ==
  /\ Exchange!Answer
  /\ UNCHANGED <<vars, resp, call>>

(* the rest of http_operation, with the response at address r *)
CallRespond(r) ==
  /\ phase = "answered" /\ call.res = NULL
  /\ resp[r] = NULL
  /\ resp' = [resp EXCEPT ![r] =
                [code |-> answer.code, root |-> NULL,
                 raw |-> IF answer.body = <<>> THEN NULL ELSE answer.body]]
  /\ call' = [call EXCEPT !.res = r]
  /\ UNCHANGED <<vars, exchangeVars>>

Responded == call # NULL /\ call.res # NULL

(* parse_json(res->raw_json, ...), also of a raw_json that is NULL ... *)
CallParse ==
  /\ Responded /\ call.parse
  /\ ParseBegin
  /\ UNCHANGED <<held, resp, call, exchangeVars>>

(* ... in which yajl then finds no value *)
CallCallback ==
  /\ Responded /\ resp[call.res].raw # NULL
  /\ Callback
  /\ UNCHANGED <<held, resp, call, exchangeVars>>

CallParsed ==
  /\ Responded
  /\ ParseReturn
  /\ resp' = [resp EXCEPT ![call.res].root = root]
  /\ call' = NULL
  /\ Exchange!Forget
  /\ UNCHANGED held

CallUnparsed ==
  /\ Responded /\ ~call.parse
  /\ call' = NULL
  /\ Exchange!Forget
  /\ UNCHANGED <<vars, resp>>

(* a mutant: the document is left to the program *)
PtFreeResponseShallow(r) ==
  /\ call = NULL /\ ClientTurn
  /\ resp[r] # NULL
  /\ resp' = [resp EXCEPT ![r] = NULL]
  /\ UNCHANGED <<vars, call, exchangeVars>>

PtFreeResponse(r) ==
  /\ call = NULL /\ ClientTurn
  /\ resp[r] # NULL
  /\ heap' = FreeNode(heap, resp[r].root)
  /\ resp' = [resp EXCEPT ![r] = NULL]
  /\ UNCHANGED <<held, parserVars, call, exchangeVars>>

----------------------------------------------------------------------------

ClientInit ==
  /\ Init /\ Exchange!Init
  /\ resp = [r \in Resp |-> NULL] /\ call = NULL

(* between its HTTP calls the program is that of PtDocument *)
Work ==
  /\ call = NULL
  /\ ClientCall \/ PtFromJson \/ PtCallback \/ PtFromJsonReturn
  /\ UNCHANGED <<resp, call, exchangeVars>>

ClientNext ==
  \/ Work
  \/ \E parse \in BOOLEAN : CallBegin(parse)
  \/ CallPerform
  \/ \E r \in Resp : CallRespond(r) \/ PtFreeResponse(r)
  \/ CallParse \/ CallCallback \/ CallParsed \/ CallUnparsed

ClientSpec == ClientInit /\ [][ClientNext]_clientVars

----------------------------------------------------------------------------
ResponseRoots == {resp[r].root : r \in {s \in Resp : resp[s] # NULL}} \ {NULL}

(* However calls, edits, parses and frees follow each other and however many
   responses are held, the documents are handled as by a program that gets
   them all from pt_from_json and frees them with pt_free_node: so all that
   holds of PtDocument holds here, for the documents in responses too, and
   pt_free_response frees its own document, whole, and no other.             *)
Owned == held \cup ResponseRoots
Document == INSTANCE PtDocument WITH held <- Owned
ClientKeepsDocuments == Document!Spec

=============================================================================
