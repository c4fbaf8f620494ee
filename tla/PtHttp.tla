------------------------------- MODULE PtHttp -------------------------------
(***************************************************************************)
(* http_operation of src/pillowtalk_impl.c and the calls made of it, one    *)
(* exchange at a time.  curl_easy_perform takes the request body piece by   *)
(* piece from send_memory_callback and hands the response body piece by     *)
(* piece to recv_memory_callback; it can fail in between.                   *)
(*                                                                          *)
(* curl and the server are external.  Of curl the model keeps that pieces   *)
(* come in order and have any size, that it succeeds only when the response *)
(* is complete, and that it goes on as long as the other end does; of the   *)
(* server, that it answers an upload with a success code only after the end *)
(* of the upload.  It may also go silent at any time, and stay so.          *)
(***************************************************************************)
EXTENDS Naturals, Sequences, FiniteSetsExt

CONSTANTS
  Byte, NUL, JUNK,  \* NUL ends a C string; JUNK is a byte nobody wrote
  STDIN,            \* a byte of the program's standard input
  NULL,
  Code, Body,       \* what servers answer
  Doc,              \* the data of uploads
  ReadMax, WriteMax,\* the largest pieces curl asks for and hands over
  ReallocMayFail    \* whether myrealloc can return NULL

ASSUME HttpAssumption ==
  /\ Code \subseteq Nat
  /\ Body \subseteq Seq(Byte) /\ Doc \subseteq Seq(Byte)
  /\ NULL \notin Seq(Byte \cup {NUL, JUNK})
  /\ NULL \notin [code : Nat, raw : Seq(Byte \cup {NUL, JUNK}) \cup {NULL},
                 len : Nat, root : {NULL, "DOC"}]
  /\ ReadMax \in Nat \ {0} /\ WriteMax \in Nat \ {0}
  /\ ReallocMayFail \in BOOLEAN

VARIABLES
  pc,       \* "idle", "perform", "stalled", "returned", "crashed"
  call,     \* the arguments: [upload, data, parse]
  send,     \* the send_chunk: [memory, offset, size]
  recv,     \* the recv_chunk: [memory, size]
  wire,     \* the request body as the server has it
  eof,      \* the read callback returned 0: the upload is complete
  offer,    \* the server's answer: [code, body]
  arrived,  \* how many bytes of its body curl has handed over
  res       \* the pt_response_t: [code, raw, len, root], or NULL

vars == <<pc, call, send, recv, wire, eof, offer, arrived, res>>

Failure == [code |-> 500, body |-> <<>>]
NoCall == [upload |-> FALSE, data |-> <<>>, parse |-> FALSE]
NoSend == [memory |-> NULL, offset |-> 0, size |-> 0]
NoRecv == [memory |-> NULL, size |-> 0]

Init ==
  /\ pc = "idle" /\ call = NoCall
  /\ send = NoSend /\ recv = NoRecv
  /\ wire = <<>> /\ eof = FALSE
  /\ offer = Failure /\ arrived = 0
  /\ res = NULL

----------------------------------------------------------------------------
(* The calls.  data is <<>> for a NULL or empty argument. *)

(* a mutant: data_len is taken to count a NUL *)
HttpOperationShort(upload, data, parse) ==
  /\ pc = "idle" /\ pc' = "perform"
  /\ call' = [upload |-> upload, data |-> data, parse |-> parse]
  /\ send' = IF data = <<>> THEN NoSend
             ELSE [memory |-> data, offset |-> 0, size |-> Len(data) - 1]
  /\ offer' \in [code : Code, body : Body]
  /\ UNCHANGED <<recv, wire, eof, arrived, res>>

(* http_operation, up to curl_easy_perform *)
HttpOperation(upload, data, parse) ==
  /\ pc = "idle" /\ pc' = "perform"
  /\ call' = [upload |-> upload, data |-> data, parse |-> parse]
  /\ send' = IF data = <<>> THEN NoSend
             ELSE [memory |-> data, offset |-> 0, size |-> Len(data)]
  /\ offer' \in [code : Code, body : Body]
  /\ UNCHANGED <<recv, wire, eof, arrived, res>>

PtGet == HttpOperation(FALSE, <<>>, TRUE)
PtUnparsedGet == HttpOperation(FALSE, <<>>, FALSE)
PtDelete == HttpOperation(FALSE, <<>>, TRUE)

(* pt_put_raw, and pt_put with the text of the document, or with no document *)
PtPut(data) == HttpOperation(TRUE, data, TRUE)

----------------------------------------------------------------------------
(* The callbacks, while curl performs *)

ToCopy(k) == IF send.size > k THEN k ELSE send.size

(* a mutant: offset stays *)
SendMemoryCallbackStuck(k) ==
  LET n == ToCopy(k)
  IN  /\ wire' = wire \o SubSeq(send.memory, send.offset + 1, send.offset + n)
      /\ send' = [send EXCEPT !.size = @ - n]
      /\ eof' = (n = 0)

(* curl asks for at most k bytes; to give none is to say that is all *)
SendMemoryCallback(k) ==
  LET n == ToCopy(k)
  IN  /\ wire' = wire \o SubSeq(send.memory, send.offset + 1, send.offset + n)
      /\ send' = [send EXCEPT !.offset = @ + n, !.size = @ - n]
      /\ eof' = (n = 0)

(* CURLOPT_UPLOAD with no read function set: curl's own, fread on stdin.
   One byte of it stands for any number.                                   *)
ReadStdin ==
  /\ \/ wire = <<>> /\ wire' = <<STDIN>> /\ UNCHANGED eof
     \/ eof' = TRUE /\ UNCHANGED wire
  /\ UNCHANGED send

CurlRead ==
  /\ pc = "perform" /\ call.upload /\ ~eof
  /\ IF send.memory = NULL THEN ReadStdin
     ELSE \E k \in 1..ReadMax : SendMemoryCallback(k)
  /\ UNCHANGED <<pc, call, recv, offer, arrived, res>>

(* What realloc keeps of the old block; what malloc gives is not written. *)
Kept ==
  IF recv.memory = NULL THEN [i \in 1..recv.size |-> JUNK]
  ELSE SubSeq(recv.memory, 1, recv.size)

(* a mutant: every piece is written to the start *)
RecvMemoryCallbackOver(s) ==
  recv' = [memory |-> s \o SubSeq(Kept, Len(s) + 1, recv.size) \o <<NUL>>,
           size |-> recv.size + Len(s)]

(* A failed realloc drops the block, and the callback says all is well. *)
RecvMemoryCallback(s) ==
  \/ recv' = [memory |-> Kept \o s \o <<NUL>>, size |-> recv.size + Len(s)]
  \/ ReallocMayFail /\ recv' = [recv EXCEPT !.memory = NULL]

(* The answer of success to an upload waits for its end. *)
Success(code) == code \in 200..299
Answering == call.upload /\ Success(offer.code) => eof

(* curl hands over the next bytes, or, once, none when the body is empty *)
CurlWrite ==
  /\ pc = "perform" /\ Answering
  /\ LET left == Len(offer.body) - arrived
     IN  \E k \in 0..Min({left, WriteMax}) :
           /\ k = 0 => offer.body = <<>> /\ recv.memory = NULL
           /\ RecvMemoryCallback(SubSeq(offer.body, arrived + 1, arrived + k))
           /\ arrived' = arrived + k
  /\ UNCHANGED <<pc, call, send, wire, eof, offer, res>>

----------------------------------------------------------------------------
(* The end of http_operation, and parse_json by the callers that parse *)

(* parse_json gives a document, or nothing for a text with no value in it *)
ParsedRoots(raw) == IF call.parse /\ raw # NULL THEN {NULL, "DOC"} ELSE {NULL}

Respond(code, raw, len) ==
  /\ \E root \in ParsedRoots(raw) :
       res' = [code |-> code, raw |-> raw, len |-> len, root |-> root]
  /\ pc' = "returned"

(* a mutant: no code is set, and calloc gave 0 *)
HttpFailedZero ==
  /\ Respond(0, NULL, 0)
  /\ send' = NoSend /\ recv' = NoRecv
  /\ UNCHANGED <<call, wire, eof, offer, arrived>>

(* a mutant: a failed exchange is tried again, however often it fails *)
HttpFailedRetry ==
  /\ arrived' = 0
  /\ recv' = NoRecv
  /\ UNCHANGED <<pc, call, send, wire, eof, offer, res>>

(* curl_easy_perform returned an error.  send's memory is freed; what recv
   has is lost with it.                                                    *)
HttpFailed ==
  /\ Respond(500, NULL, 0)
  /\ send' = NoSend /\ recv' = NoRecv
  /\ UNCHANGED <<call, wire, eof, offer, arrived>>

(* curl_easy_getinfo gives the server's code, or fails: then 500, and the body
   is kept                                                                  *)
ResponseCode == {offer.code, 500}

(* curl_easy_perform returned 0.  The NUL is written where the callback has
   put it; through a NULL pointer when the last realloc failed.            *)
HttpSucceeded ==
  /\ IF recv.size > 0 /\ recv.memory = NULL
     THEN pc' = "crashed" /\ UNCHANGED res
     ELSE \E code \in ResponseCode :
            IF recv.size > 0
            THEN Respond(code, [recv.memory EXCEPT ![recv.size + 1] = NUL], recv.size)
            ELSE Respond(code, NULL, 0)
  /\ send' = NoSend /\ recv' = NoRecv
  /\ UNCHANGED <<call, wire, eof, offer, arrived>>

CurlDone ==
  /\ pc = "perform"
  /\ \/ Answering /\ arrived = Len(offer.body) /\ HttpSucceeded
     \/ HttpFailed

(* The server goes silent, or standard input does not end.  CONNECTTIMEOUT
   bounds the connection only, so nothing in the code ends this.            *)
CurlStalls ==
  /\ pc = "perform" /\ pc' = "stalled"
  /\ UNCHANGED <<call, send, recv, wire, eof, offer, arrived, res>>

(* The connection may still break. *)
CurlBreaks == pc = "stalled" /\ HttpFailed

(* pt_free_response *)
PtFreeResponse ==
  /\ pc = "returned" /\ pc' = "idle"
  /\ res' = NULL
  /\ call' = NoCall /\ wire' = <<>> /\ eof' = FALSE
  /\ offer' = Failure /\ arrived' = 0
  /\ UNCHANGED <<send, recv>>

Call ==
  \/ PtGet
  \/ PtUnparsedGet
  \/ PtDelete
  \/ \E d \in Doc : PtPut(d)

Next ==
  \/ Call \/ CurlRead \/ CurlWrite \/ CurlDone \/ CurlStalls \/ CurlBreaks
  \/ PtFreeResponse

(* curl_easy_perform goes on until it returns or there is nothing to go on
   with.  That a stall ends, or that a program makes a call, is not assumed. *)
Spec == Init /\ [][Next]_vars /\ WF_vars(CurlRead \/ CurlWrite \/ CurlDone)

----------------------------------------------------------------------------
Text == Seq(Byte \cup {NUL, JUNK})

(* between the call of curl_easy_perform and its return *)
Underway == pc \in {"perform", "stalled"}

HttpTypeOK ==
  /\ pc \in {"idle", "perform", "stalled", "returned", "crashed"}
  /\ call \in [upload : BOOLEAN, data : Doc \cup {<<>>}, parse : BOOLEAN]
  /\ send \in [memory : Doc \cup {NULL}, offset : Nat, size : Nat]
  /\ recv \in [memory : Text \cup {NULL}, size : Nat]
  /\ wire \in Seq(Byte \cup {STDIN})
  /\ eof \in BOOLEAN
  /\ offer \in [code : Code \cup {500}, body : Body \cup {<<>>}]
  /\ arrived \in Nat
  /\ res = NULL \/ res \in [code : Code \cup {500}, raw : Text \cup {NULL},
                            len : Nat, root : {NULL, "DOC"}]

(* Between two callbacks the receive buffer is what arrived, ended by a NUL
   that is still inside the block: however the body was cut up, nothing is
   lost, moved or written past the end.                                    *)
ReceivedIsArrived ==
  Underway =>
    /\ recv.size = arrived
    /\ IF recv.memory = NULL THEN arrived = 0
       ELSE recv.memory = SubSeq(offer.body, 1, arrived) \o <<NUL>>

(* However curl asks for it, what the server has of an upload and what is
   yet to be sent make up the data; and the upload is not ended before the
   last of it.                                                             *)
SentIsData ==
  send.memory # NULL =>
    /\ send.offset + send.size = Len(call.data)
    /\ wire \o SubSeq(call.data, send.offset + 1, Len(call.data)) = call.data
    /\ eof => send.size = 0

(* A program that is told of success knows that the server has its document
   as it was passed, and that the body it got is the one the server gave.   *)
SuccessIsEndToEnd ==
  pc = "returned" /\ Success(res.code) =>
    /\ call.data # <<>> => wire = call.data
    /\ res.raw = IF offer.body = <<>> THEN NULL ELSE offer.body \o <<NUL>>

(* http_operation keeps the promise of PtExchange: the callbacks, the failures
   and the code that curl cannot tell included, the program gets a whole body
   or none, and only a stall keeps it waiting.                               *)
Exchange == INSTANCE PtExchange WITH
  phase <- CASE pc = "perform" -> "waiting" [] pc = "returned" -> "answered"
             [] OTHER -> pc,
  answer <- IF res = NULL THEN Failure
            ELSE [code |-> res.code,
                  body |-> IF res.raw = NULL THEN <<>> ELSE SubSeq(res.raw, 1, res.len)]

KeepsThePromise == Exchange!Spec

----------------------------------------------------------------------------
(* pillowtalk.h says of pt_unparsed_get that it is "useful for doing your own
   parsing with the resultant JSON".  What it returns is not the server's
   text when a realloc failed on the way and a later one did not.           *)
UnparsedIsTheText ==
  pc = "returned" /\ ~call.parse /\ Success(res.code) /\ res.raw # NULL =>
    SubSeq(res.raw, 1, res.len) = offer.body

=============================================================================
