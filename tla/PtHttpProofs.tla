---------------------------- MODULE PtHttpProofs ----------------------------
(***************************************************************************)
(* Theorems about PtHttp, for bodies of any length and pieces of any size.  *)
(* HttpInv holds whether realloc fails or not: the types, with what the     *)
(* arguments and the time between calls add to them, the size of the        *)
(* receive buffer, and the upload.  What is received is whole only as long  *)
(* as realloc does not fail; this is WholeInv.  SuccessIsEndToEnd, when     *)
(* curl returns, is what the two chunks were before they are freed.         *)
(***************************************************************************)
EXTENDS PtHttp, SequenceTheorems, TLAPS

(* what a call has set up, and what a response leaves *)
CallIsSetUp ==
  /\ Underway => send.memory = IF call.data = <<>> THEN NULL ELSE call.data
  /\ call.data # <<>> => call.upload
  /\ arrived <= Len(offer.body)
  /\ ~Underway => send = NoSend /\ recv = NoRecv
  /\ pc = "idle" => wire = <<>> /\ eof = FALSE /\ arrived = 0 /\ offer = Failure
  /\ pc # "returned" => res = NULL

(* the block is one longer than the text in it, also after a realloc failed *)
RoomForNul == recv.memory # NULL => Len(recv.memory) = recv.size + 1

HttpInv == HttpTypeOK /\ CallIsSetUp /\ RoomForNul /\ SentIsData

WholeInv == ReceivedIsArrived /\ SuccessIsEndToEnd /\ pc # "crashed"

----------------------------------------------------------------------------
(* Bytes *)

(* What comes from the outside are texts, and no text is a NULL pointer. *)
LEMMA ByteFacts ==
  /\ \A s \in Body \cup Doc \cup {<<>>} : s \in Seq(Byte)
  /\ \A s \in Seq(Byte) : s \in Text /\ s \in Seq(Byte \cup {STDIN}) /\ s # NULL
  /\ NULL \notin Text
<1>1. \A s \in Body \cup Doc \cup {<<>>} : s \in Seq(Byte)
  BY HttpAssumption, EmptySeq
<1>2. \A s \in Seq(Byte) : s \in Text /\ s \in Seq(Byte \cup {STDIN})
  BY SeqMonotonic DEF Text
<1>3. NULL \notin Text
  BY HttpAssumption DEF Text
<1>4. QED BY <1>1, <1>2, <1>3

(* A text and the NUL after it: the text is what is before the NUL, and to
   write the NUL again changes nothing.                                    *)
LEMMA EndedByNul ==
  ASSUME NEW s \in Seq(Byte), NEW t, t = s \o <<NUL>>
  PROVE  /\ t \in Text /\ t # NULL
         /\ SubSeq(t, 1, Len(s)) = s
         /\ [t EXCEPT ![Len(s) + 1] = NUL] = t
<1> DEFINE B == Byte \cup {NUL, JUNK}
<1>1. s \in Seq(B) /\ <<NUL>> \in Seq(B) /\ Len(<<NUL>>) = 1 /\ <<NUL>>[1] = NUL
  BY SeqMonotonic
<1>2. /\ t \in Seq(B)
      /\ Len(t) = Len(s) + 1
      /\ \A i \in 1..(Len(s) + 1) : t[i] = IF i <= Len(s) THEN s[i] ELSE <<NUL>>[i - Len(s)]
  BY <1>1, ConcatProperties
<1>3. Len(s) \in Nat
  BY LenProperties
<1>4. SubSeq(t, 1, Len(s)) = s
  <2>1. \A i \in 1..Len(s) : t[i] \in B
    BY <1>2, <1>3, ElementOfSeq
  <2>2. /\ SubSeq(t, 1, Len(s)) \in Seq(B)
        /\ Len(SubSeq(t, 1, Len(s))) = Len(s)
        /\ \A i \in 1..Len(s) : SubSeq(t, 1, Len(s))[i] = t[i]
    <3>1. /\ SubSeq(t, 1, Len(s)) \in Seq(B)
          /\ Len(SubSeq(t, 1, Len(s))) = IF 1 <= Len(s) THEN Len(s) - 1 + 1 ELSE 0
          /\ \A i \in 1..(Len(s) - 1 + 1) : SubSeq(t, 1, Len(s))[i] = t[1 + i - 1]
      BY <2>1, <1>3, SubSeqProperties
    <3>2. QED BY <3>1, <1>3
  <2>3. QED BY <2>2, <1>1, <1>2, <1>3, SeqEqual
<1>5. [t EXCEPT ![Len(s) + 1] = NUL] = t
  <2>1. t[Len(s) + 1] = NUL
    BY <1>1, <1>2, <1>3
  <2>2. t \in [1..Len(t) -> B]
    BY <1>2, LenProperties
  <2>3. QED BY <2>1, <2>2
<1>6. t \in Text /\ t # NULL
  BY <1>2, ByteFacts DEF Text
<1>7. QED BY <1>4, <1>5, <1>6

(* The piece of s after position m, put after what is before it. *)
LEMMA NextPiece ==
  ASSUME NEW s \in Seq(Byte), NEW m \in 0..Len(s), NEW n \in m..Len(s)
  PROVE  /\ SubSeq(s, 1, m) \o SubSeq(s, m + 1, n) = SubSeq(s, 1, n)
         /\ SubSeq(s, m + 1, n) \o SubSeq(s, n + 1, Len(s)) = SubSeq(s, m + 1, Len(s))
         /\ SubSeq(s, m + 1, n) \in Seq(Byte)
         /\ SubSeq(s, 1, n) \in Seq(Byte) /\ Len(SubSeq(s, 1, n)) = n
         /\ Len(SubSeq(s, m + 1, n)) = n - m
<1>1. Len(s) \in Nat
  BY LenProperties
<1>2. SubSeq(s, 1, m) \o SubSeq(s, m + 1, n) = SubSeq(s, 1, n)
  <2>1. 1 \in 1..(Len(s) + 1) /\ m \in (1 - 1)..Len(s) /\ n \in m..Len(s)
    BY <1>1
  <2>2. QED BY <2>1, ConcatAdjacentSubSeq
<1>3. SubSeq(s, m + 1, n) \o SubSeq(s, n + 1, Len(s)) = SubSeq(s, m + 1, Len(s))
  <2>1. m + 1 \in 1..(Len(s) + 1) /\ n \in ((m + 1) - 1)..Len(s) /\ Len(s) \in n..Len(s)
    BY <1>1
  <2>2. QED BY <2>1, ConcatAdjacentSubSeq
<1>4. SubSeq(s, m + 1, n) \in Seq(Byte) /\ Len(SubSeq(s, m + 1, n)) = n - m
  <2>1. m + 1 \in Int /\ n \in Int /\ \A i \in (m + 1)..n : s[i] \in Byte
    BY <1>1, ElementOfSeq
  <2>2. /\ SubSeq(s, m + 1, n) \in Seq(Byte)
        /\ Len(SubSeq(s, m + 1, n)) = IF m + 1 <= n THEN n - (m + 1) + 1 ELSE 0
    BY <2>1, SubSeqProperties
  <2>3. QED BY <2>2, <1>1
<1>5. SubSeq(s, 1, n) \in Seq(Byte) /\ Len(SubSeq(s, 1, n)) = n
  <2>1. 1 \in Int /\ n \in Int /\ \A i \in 1..n : s[i] \in Byte
    BY <1>1, ElementOfSeq
  <2>2. /\ SubSeq(s, 1, n) \in Seq(Byte)
        /\ Len(SubSeq(s, 1, n)) = IF 1 <= n THEN n - 1 + 1 ELSE 0
    BY <2>1, SubSeqProperties
  <2>3. QED BY <2>2, <1>1
<1>6. QED BY <1>2, <1>3, <1>4, <1>5

(* Before anything is received and sent. *)
LEMMA NothingYet ==
  ASSUME NEW s \in Seq(Byte)
  PROVE  /\ SubSeq(s, 1, 0) = <<>>
         /\ <<>> \o SubSeq(s, 0 + 1, Len(s)) = s
<1>1. SubSeq(s, 1, 0) = <<>>
  BY SubSeqEmpty
<1>2. SubSeq(s, 1, Len(s)) = s
  BY SubSeqFull
<1>3. <<>> \o s = s
  BY ConcatEmptySeq
<1>4. QED BY <1>1, <1>2, <1>3

(* A text of a given length, the next piece and a NUL are a text. *)
LEMMA TextGrows ==
  ASSUME NEW t \in Text, NEW s \in Seq(Byte)
  PROVE  /\ (t \o s) \o <<NUL>> \in Text
         /\ Len((t \o s) \o <<NUL>>) = Len(t) + Len(s) + 1
<1> DEFINE B == Byte \cup {NUL, JUNK}
<1>1. t \in Seq(B) /\ s \in Seq(B) /\ <<NUL>> \in Seq(B) /\ Len(<<NUL>>) = 1
  BY SeqMonotonic DEF Text
<1>2. t \o s \in Seq(B) /\ Len(t \o s) = Len(t) + Len(s)
  BY <1>1, ConcatProperties
<1>3. (t \o s) \o <<NUL>> \in Seq(B) /\ Len((t \o s) \o <<NUL>>) = Len(t \o s) + 1
  BY <1>1, <1>2, ConcatProperties
<1>4. QED BY <1>2, <1>3 DEF Text

(* What realloc keeps is as long as what was received. *)
LEMMA KeptFacts ==
  ASSUME HttpTypeOK, RoomForNul
  PROVE  Kept \in Text /\ Len(Kept) = recv.size
<1> DEFINE B == Byte \cup {NUL, JUNK}
<1>1. recv.size \in Nat /\ recv.memory \in Text \cup {NULL}
  BY DEF HttpTypeOK
<1>2. CASE recv.memory = NULL
  <2>1. Kept = [i \in 1..recv.size |-> JUNK]
    BY <1>2 DEF Kept
  <2>2. Kept \in [1..recv.size -> B]
    BY <2>1
  <2>3. Kept \in Seq(B)
    BY <1>1, <2>2, SeqDef
  <2>4. DOMAIN Kept = 1..recv.size
    BY <2>1
  <2>5. QED BY <1>1, <2>3, <2>4, LenProperties DEF Text
<1>3. CASE recv.memory # NULL
  <2> DEFINE t == recv.memory
             m == recv.size
  <2>1. t \in Seq(B) /\ Len(t) = m + 1 /\ m \in Nat /\ Kept = SubSeq(t, 1, m)
    BY <1>1, <1>3 DEF Text, RoomForNul, Kept
  <2> HIDE DEF t, m, B
  <2>2. 1 \in Int /\ m \in Int /\ \A i \in 1..m : t[i] \in B
    BY <2>1, ElementOfSeq
  <2>3. /\ SubSeq(t, 1, m) \in Seq(B)
        /\ Len(SubSeq(t, 1, m)) = IF 1 <= m THEN m - 1 + 1 ELSE 0
    BY <2>2, SubSeqProperties
  <2>4. QED BY <2>1, <2>3 DEF Text, B, m
<1>4. QED BY <1>2, <1>3

----------------------------------------------------------------------------
(* Each step keeps HttpInv, and, without a failure of realloc, WholeInv *)

(* It holds before the first call. *)
LEMMA InitHttpInv == Init => HttpInv /\ WholeInv
<1> SUFFICES ASSUME Init PROVE HttpInv /\ WholeInv
  OBVIOUS
<1>1. Len(<<>>) = 0 /\ <<>> \in Seq(Byte \cup {STDIN})
  BY EmptySeq
<1>2. HttpTypeOK
  BY <1>1 DEF Init, HttpTypeOK, NoCall, NoSend, NoRecv, Failure
<1>3. CallIsSetUp
  BY <1>1 DEF Init, CallIsSetUp, Underway, NoCall, NoSend, NoRecv, Failure
<1>4. RoomForNul /\ SentIsData
  BY DEF Init, RoomForNul, SentIsData, NoSend, NoRecv
<1>5. WholeInv
  BY DEF Init, WholeInv, ReceivedIsArrived, SuccessIsEndToEnd, Underway
<1>6. QED BY <1>2, <1>3, <1>4, <1>5 DEF HttpInv

(* The calls keep it: nothing has arrived, and all of the data is to be sent. *)
LEMMA HttpOperationInv ==
  ASSUME HttpInv, NEW upload \in BOOLEAN, NEW data \in Doc \cup {<<>>}, NEW parse \in BOOLEAN,
         data # <<>> => upload,
         HttpOperation(upload, data, parse)
  PROVE  HttpInv' /\ WholeInv'
<1>1. /\ pc = "idle" /\ pc' = "perform"
      /\ call' = [upload |-> upload, data |-> data, parse |-> parse]
      /\ send' = IF data = <<>> THEN NoSend ELSE [memory |-> data, offset |-> 0, size |-> Len(data)]
      /\ offer' \in [code : Code, body : Body]
      /\ UNCHANGED <<recv, wire, eof, arrived, res>>
  BY DEF HttpOperation
<1>2. /\ recv = NoRecv /\ wire = <<>> /\ eof = FALSE /\ arrived = 0 /\ res = NULL
  BY <1>1 DEF HttpInv, CallIsSetUp, Underway
<1>3. data \in Seq(Byte) /\ data # NULL /\ Len(data) \in Nat
      /\ offer'.body \in Seq(Byte) /\ Len(offer'.body) \in Nat
  BY <1>1, ByteFacts, LenProperties
<1>4. HttpTypeOK'
  BY <1>1, <1>3 DEF HttpInv, HttpTypeOK, NoSend
<1>5. CallIsSetUp'
  BY <1>1, <1>2, <1>3 DEF CallIsSetUp, Underway, NoSend
<1>6. ReceivedIsArrived' /\ RoomForNul'
  BY <1>1, <1>2 DEF ReceivedIsArrived, RoomForNul, NoRecv
<1>7. SentIsData'
  <2>1. CASE data = <<>>
    BY <2>1, <1>1 DEF SentIsData, NoSend
  <2>2. CASE data # <<>>
    <3>1. /\ send'.memory = data /\ send'.offset = 0 /\ send'.size = Len(data)
          /\ call'.data = data
      BY <2>2, <1>1
    <3>2. <<>> \o SubSeq(data, 0 + 1, Len(data)) = data
      BY <1>3, NothingYet
    <3>3. QED BY <3>1, <3>2, <1>1, <1>2, <1>3 DEF SentIsData
  <2>3. QED BY <2>1, <2>2
<1>8. SuccessIsEndToEnd'
  BY <1>1 DEF SuccessIsEndToEnd
<1>9. QED BY <1>1, <1>4, <1>5, <1>6, <1>7, <1>8 DEF HttpInv, WholeInv

(* A piece of the upload keeps it. *)
LEMMA CurlReadInv ==
  ASSUME HttpInv, CurlRead
  PROVE  HttpInv' /\ (WholeInv => WholeInv')
<1> DEFINE S == Byte \cup {STDIN}
<1>1. /\ pc = "perform" /\ call.upload /\ eof = FALSE
      /\ UNCHANGED <<pc, call, recv, offer, arrived, res>>
  BY DEF CurlRead, HttpInv, HttpTypeOK
<1>0. RoomForNul' /\ (WholeInv => WholeInv')
  BY <1>1 DEF HttpInv, RoomForNul, WholeInv, ReceivedIsArrived, SuccessIsEndToEnd, Underway
<1>2. CASE send.memory = NULL
  <2>1. ReadStdin
    BY <1>2 DEF CurlRead
  <2>2. send' = send /\ wire' \in Seq(S) /\ eof' \in BOOLEAN
    <3>1. wire \in Seq(S) /\ <<STDIN>> \in Seq(S) /\ eof \in BOOLEAN
      BY DEF HttpInv, HttpTypeOK
    <3>2. send' = send /\ (\/ wire' = <<STDIN>> /\ eof' = eof
                           \/ eof' = TRUE /\ wire' = wire)
      BY <2>1 DEF ReadStdin
    <3>3. QED BY <3>1, <3>2
  <2>3. HttpTypeOK'
    BY <1>1, <2>2 DEF HttpInv, HttpTypeOK
  <2>4. CallIsSetUp'
    BY <1>1, <2>2 DEF HttpInv, CallIsSetUp, Underway
  <2>5. SentIsData'
    BY <1>2, <2>2 DEF SentIsData
  <2>6. QED BY <1>1, <1>0, <2>3, <2>4, <2>5 DEF HttpInv
<1>3. CASE send.memory # NULL
  <2>1. PICK k \in 1..ReadMax : SendMemoryCallback(k)
    BY <1>3 DEF CurlRead
  <2> DEFINE n == ToCopy(k)
             d == call.data
             piece == SubSeq(d, send.offset + 1, send.offset + n)
             rest == SubSeq(d, (send.offset + n) + 1, Len(d))
  <2>2. send.offset \in Nat /\ send.size \in Nat /\ k \in Nat \ {0}
    <3>1. send \in [memory : Doc \cup {NULL}, offset : Nat, size : Nat]
      BY DEF HttpInv, HttpTypeOK
    <3>2. send.offset \in Nat /\ send.size \in Nat
      BY <3>1
    <3>3. ReadMax \in Nat
      BY HttpAssumption
    <3>4. QED BY <3>2, <3>3
  <2>3. n \in Nat /\ n <= send.size /\ (n = 0 => send.size = 0)
    BY <2>2 DEF ToCopy
  <2>4. /\ send.memory = d /\ d \in Seq(Byte) /\ Len(d) \in Nat
        /\ send.offset + send.size = Len(d)
        /\ wire \o SubSeq(d, send.offset + 1, Len(d)) = d
        /\ wire \in Seq(S)
    <3>1. call \in [upload : BOOLEAN, data : Doc \cup {<<>>}, parse : BOOLEAN] /\ wire \in Seq(S)
      BY DEF HttpInv, HttpTypeOK
    <3>2. d \in Seq(Byte) /\ Len(d) \in Nat
      BY <3>1, ByteFacts, LenProperties
    <3>3. send.memory = d
      BY <1>1, <1>3 DEF HttpInv, CallIsSetUp, Underway
    <3>4. /\ send.offset + send.size = Len(d)
          /\ wire \o SubSeq(d, send.offset + 1, Len(d)) = d
      BY <1>1, <1>3, <3>3 DEF HttpInv, SentIsData
    <3>5. QED BY <3>1, <3>2, <3>3, <3>4
  <2>5. /\ wire' = wire \o piece
        /\ send' = [send EXCEPT !.offset = @ + n, !.size = @ - n]
        /\ eof' = (n = 0)
    BY <2>1, <2>4 DEF SendMemoryCallback
  <2>6. /\ send'.memory = d /\ send'.offset = send.offset + n /\ send'.size = send.size - n
        /\ send'.offset \in Nat /\ send'.size \in Nat
        /\ send' \in [memory : Doc \cup {NULL}, offset : Nat, size : Nat]
    <3>1. send \in [memory : Doc \cup {NULL}, offset : Nat, size : Nat]
      BY DEF HttpInv, HttpTypeOK
    <3> HIDE DEF n
    <3>2. send' = [memory |-> send.memory, offset |-> send.offset + n, size |-> send.size - n]
      BY <3>1, <2>5
    <3>3. send.offset + n \in Nat /\ send.size - n \in Nat /\ send.memory \in Doc \cup {NULL}
      BY <3>1, <2>2, <2>3
    <3>4. QED BY <3>2, <3>3, <2>4
  <2>7. send.offset \in 0..Len(d) /\ send.offset + n \in send.offset..Len(d)
    BY <2>2, <2>3, <2>4
  <2>8. piece \o rest = SubSeq(d, send.offset + 1, Len(d)) /\ piece \in Seq(S)
    BY <2>4, <2>7, NextPiece, ByteFacts
  <2>9. rest \in Seq(S)
    <3>1. send.offset + n \in 0..Len(d) /\ Len(d) \in (send.offset + n)..Len(d)
      BY <2>2, <2>3, <2>4, <2>7
    <3>2. rest \in Seq(Byte)
      BY <3>1, <2>4, NextPiece
    <3>3. QED BY <3>2, ByteFacts
  <2>10. wire' \in Seq(S)
    BY <2>4, <2>5, <2>8, ConcatProperties
  <2>11. wire' \o rest = d
    <3>1. (wire \o piece) \o rest = wire \o (piece \o rest)
      <4>1. wire \in Seq(S) /\ piece \in Seq(S) /\ rest \in Seq(S)
        BY <2>4, <2>8, <2>9
      <4> HIDE DEF S, piece, rest
      <4>2. \A u, v, w \in Seq(S) : (u \o v) \o w = u \o (v \o w)
        BY ConcatAssociative
      <4>3. QED BY <4>1, <4>2
    <3>2. QED BY <3>1, <2>4, <2>5, <2>8
  <2>12. HttpTypeOK'
    BY <1>1, <2>3, <2>5, <2>6, <2>10 DEF HttpInv, HttpTypeOK
  <2>13. CallIsSetUp'
    BY <1>1, <1>3, <2>4, <2>6 DEF HttpInv, CallIsSetUp, Underway
  <2>14. SentIsData'
    <3>1. call'.data = d /\ send'.offset + send'.size = Len(d)
      BY <1>1, <2>2, <2>3, <2>4, <2>6
    <3>2. wire' \o SubSeq(d, send'.offset + 1, Len(d)) = d
      BY <2>6, <2>11
    <3>3. eof' => send'.size = 0
      <4>1. n = 0 => send'.size = 0
        BY <2>2, <2>3, <2>6
      <4> HIDE DEF n
      <4>2. eof' => n = 0
        BY <2>5, Zenon
      <4>3. QED BY <4>1, <4>2
    <3>4. QED BY <3>1, <3>2, <3>3 DEF SentIsData
  <2>15. QED BY <1>0, <2>12, <2>13, <2>14 DEF HttpInv
<1>4. QED BY <1>2, <1>3

(* What curl hands over is the next piece of the body, within it. *)
LEMMA PieceHandedOver ==
  ASSUME HttpInv, CurlWrite
  PROVE  /\ offer.body \in Seq(Byte) /\ Len(offer.body) \in Nat
         /\ \E k \in Nat :
              /\ RecvMemoryCallback(SubSeq(offer.body, arrived + 1, arrived + k))
              /\ arrived' = arrived + k
              /\ arrived \in 0..Len(offer.body) /\ arrived + k \in arrived..Len(offer.body)
<1> DEFINE b == offer.body
           left == Len(b) - arrived
<1>1. PICK k \in 0..Min({left, WriteMax}) :
        /\ RecvMemoryCallback(SubSeq(b, arrived + 1, arrived + k))
        /\ arrived' = arrived + k
  BY DEF CurlWrite
<1>2. /\ b \in Seq(Byte) /\ Len(b) \in Nat
      /\ arrived \in Nat /\ arrived <= Len(b) /\ WriteMax \in Nat
  BY ByteFacts, LenProperties, HttpAssumption DEF HttpInv, HttpTypeOK, CallIsSetUp
<1>3. k \in Nat /\ k <= left
  <2>1. \E x \in {left, WriteMax} : \A y \in {left, WriteMax} : x =< y
    BY <1>2
  <2>2. Min({left, WriteMax}) \in {left, WriteMax} /\ Min({left, WriteMax}) <= left
    BY <2>1 DEF Min
  <2>3. QED BY <1>2, <2>2
<1>4. arrived \in 0..Len(b) /\ arrived + k \in arrived..Len(b)
  BY <1>2, <1>3
<1>5. QED BY <1>1, <1>2, <1>3, <1>4

(* A piece of the response keeps HttpInv, also when realloc fails for it. *)
LEMMA CurlWriteInv ==
  ASSUME HttpInv, CurlWrite
  PROVE  HttpInv'
<1> DEFINE b == offer.body
<1>1. UNCHANGED <<pc, call, send, wire, eof, offer, res>>
  BY DEF CurlWrite
<1>2. b \in Seq(Byte) /\ Len(b) \in Nat
  BY PieceHandedOver
<1>3. PICK k \in Nat :
        /\ RecvMemoryCallback(SubSeq(b, arrived + 1, arrived + k))
        /\ arrived' = arrived + k
        /\ arrived \in 0..Len(b) /\ arrived + k \in arrived..Len(b)
  BY PieceHandedOver
<1> DEFINE piece == SubSeq(b, arrived + 1, arrived + k)
<1>4. piece \in Seq(Byte) /\ Len(piece) \in Nat
  BY <1>2, <1>3, NextPiece, LenProperties
<1>5. recv' \in [memory : Text \cup {NULL}, size : Nat] /\ RoomForNul'
  <2>1. recv \in [memory : Text \cup {NULL}, size : Nat]
    BY DEF HttpInv, HttpTypeOK
  <2>2. CASE recv' = [recv EXCEPT !.memory = NULL]
    <3>1. recv' = [memory |-> NULL, size |-> recv.size]
      BY <2>1, <2>2
    <3>2. QED BY <2>1, <3>1 DEF RoomForNul
  <2>3. CASE recv' = [memory |-> (Kept \o piece) \o <<NUL>>, size |-> recv.size + Len(piece)]
    <3>1. Kept \in Text /\ Len(Kept) = recv.size
      BY KeptFacts DEF HttpInv
    <3> HIDE DEF piece
    <3>2. /\ (Kept \o piece) \o <<NUL>> \in Text
          /\ Len((Kept \o piece) \o <<NUL>>) = recv.size + Len(piece) + 1
      BY <3>1, <1>4, TextGrows
    <3>3. recv'.memory = (Kept \o piece) \o <<NUL>> /\ recv'.size = recv.size + Len(piece)
      BY <2>3
    <3>4. recv.size + Len(piece) \in Nat
      BY <2>1, <1>4
    <3>5. QED BY <2>3, <3>2, <3>3, <3>4 DEF RoomForNul
  <2>4. QED BY <1>3, <2>2, <2>3 DEF RecvMemoryCallback
<1>6. arrived' \in Nat /\ arrived' <= Len(b)
  BY <1>2, <1>3
<1>7. HttpTypeOK'
  BY <1>1, <1>5, <1>6 DEF HttpInv, HttpTypeOK
<1>8. CallIsSetUp'
  <2>1. Underway
    BY DEF CurlWrite, Underway
  <2>2. QED BY <1>1, <1>6, <2>1 DEF HttpInv, CallIsSetUp, Underway
<1>9. QED BY <1>1, <1>5, <1>7, <1>8 DEF HttpInv, SentIsData

(* Without a failure of realloc the buffer has it after all that came before. *)
LEMMA CurlWriteWhole ==
  ASSUME HttpInv, WholeInv, ~ReallocMayFail, CurlWrite
  PROVE  WholeInv'
<1> DEFINE b == offer.body
<1>1. pc = "perform" /\ Underway /\ UNCHANGED <<pc, call, wire, offer, res>>
  BY DEF CurlWrite, Underway
<1>2. b \in Seq(Byte) /\ Len(b) \in Nat
  BY PieceHandedOver
<1>3. PICK k \in Nat :
        /\ RecvMemoryCallback(SubSeq(b, arrived + 1, arrived + k))
        /\ arrived' = arrived + k
        /\ arrived \in 0..Len(b) /\ arrived + k \in arrived..Len(b)
  BY PieceHandedOver
<1> DEFINE piece == SubSeq(b, arrived + 1, arrived + k)
<1>4. /\ SubSeq(b, 1, arrived) \o piece = SubSeq(b, 1, arrived + k)
      /\ Len(piece) = k
      /\ SubSeq(b, 1, arrived + k) \in Seq(Byte)
  <2>1. Len(piece) = (arrived + k) - arrived
    BY <1>2, <1>3, NextPiece
  <2>2. QED BY <2>1, <1>2, <1>3, NextPiece
<1>5. Kept = SubSeq(b, 1, arrived) /\ recv.size = arrived
  <2>1. recv.size = arrived
    BY <1>1 DEF WholeInv, ReceivedIsArrived
  <2>2. CASE recv.memory = NULL
    <3>1. arrived = 0
      BY <1>1, <2>2 DEF WholeInv, ReceivedIsArrived
    <3>2. Kept = [i \in 1..0 |-> JUNK]
      BY <2>1, <2>2, <3>1 DEF Kept
    <3>3. [i \in 1..0 |-> JUNK] = <<>>
      <4>1. JUNK \in {JUNK} /\ [i \in 1..0 |-> JUNK] \in Seq({JUNK})
        BY SeqDef, <1>2
      <4>2. Len([i \in 1..0 |-> JUNK]) = 0
        BY <4>1, LenProperties
      <4>3. QED BY <4>1, <4>2, EmptySeq
    <3>4. QED BY <2>1, <3>1, <3>2, <3>3, <1>2, NothingYet
  <2>3. CASE recv.memory # NULL
    <3>1. recv.memory = SubSeq(b, 1, arrived) \o <<NUL>>
      BY <1>1, <2>3 DEF WholeInv, ReceivedIsArrived
    <3>2. SubSeq(b, 1, arrived) \in Seq(Byte) /\ Len(SubSeq(b, 1, arrived)) = arrived
      <4>1. 0 \in 0..Len(b) /\ arrived \in 0..Len(b)
        BY <1>2, <1>3
      <4>2. QED BY <4>1, <1>2, NextPiece
    <3>3. SubSeq(recv.memory, 1, arrived) = SubSeq(b, 1, arrived)
      <4>1. SubSeq(recv.memory, 1, Len(SubSeq(b, 1, arrived))) = SubSeq(b, 1, arrived)
        BY <3>1, <3>2, EndedByNul
      <4>2. QED BY <4>1, <3>2
    <3>4. QED BY <2>1, <2>3, <3>3 DEF Kept
  <2>4. QED BY <2>2, <2>3
<1>6. recv' = [memory |-> SubSeq(b, 1, arrived + k) \o <<NUL>>, size |-> arrived + k]
  BY <1>3, <1>4, <1>5 DEF RecvMemoryCallback
<1>7. recv'.memory # NULL
  <2> DEFINE got == SubSeq(b, 1, arrived + k)
  <2>1. got \in Seq(Byte)
    BY <1>4
  <2> HIDE DEF got
  <2>2. got \o <<NUL>> # NULL
    BY <2>1, EndedByNul
  <2>3. QED BY <2>2, <1>6 DEF got
<1>8. ReceivedIsArrived'
  BY <1>1, <1>3, <1>6, <1>7 DEF ReceivedIsArrived
<1>9. QED BY <1>1, <1>8 DEF WholeInv, SuccessIsEndToEnd

(* A stall changes neither of the two chunks. *)
LEMMA CurlStallsInv ==
  ASSUME HttpInv, CurlStalls
  PROVE  HttpInv' /\ (WholeInv => WholeInv')
<1>1. /\ pc = "perform" /\ pc' = "stalled"
      /\ UNCHANGED <<call, send, recv, wire, eof, offer, arrived, res>>
  BY DEF CurlStalls
<1>2. HttpTypeOK'
  BY <1>1 DEF HttpInv, HttpTypeOK
<1>3. CallIsSetUp'
  BY <1>1 DEF HttpInv, CallIsSetUp, Underway
<1>4. RoomForNul' /\ SentIsData'
  BY <1>1 DEF HttpInv, RoomForNul, SentIsData
<1>5. WholeInv => WholeInv'
  BY <1>1 DEF WholeInv, ReceivedIsArrived, SuccessIsEndToEnd, Underway
<1>6. QED BY <1>2, <1>3, <1>4, <1>5 DEF HttpInv

(* What http_operation returns when curl succeeds: no text for an empty body. *)
WholeBody == IF offer.body = <<>> THEN NULL ELSE offer.body \o <<NUL>>

(* The whole body as a C string is a block of which the body is the start. *)
LEMMA WholeBodyIsText ==
  ASSUME offer.body \in Seq(Byte)
  PROVE  /\ offer.body \o <<NUL>> \in Text /\ offer.body \o <<NUL>> # NULL
         /\ SubSeq(offer.body \o <<NUL>>, 1, Len(offer.body)) = offer.body
         /\ [offer.body \o <<NUL>> EXCEPT ![Len(offer.body) + 1] = NUL] = offer.body \o <<NUL>>
<1> DEFINE b == offer.body
           whole == b \o <<NUL>>
<1>1. whole = b \o <<NUL>> /\ b \in Seq(Byte)
  OBVIOUS
<1>2. /\ whole \in Text /\ whole # NULL
      /\ SubSeq(whole, 1, Len(b)) = b
      /\ [whole EXCEPT ![Len(b) + 1] = NUL] = whole
  <2> HIDE DEF b, whole
  <2>1. QED BY <1>1, EndedByNul
<1>3. QED BY <1>2

(* When curl succeeds after the last byte, nothing crashes, and the response
   has the whole of the server's body, and its code or 500.                 *)
LEMMA SuccessResponds ==
  ASSUME HttpInv, WholeInv, pc = "perform", arrived = Len(offer.body), HttpSucceeded
  PROVE  \E code \in ResponseCode : Respond(code, WholeBody, Len(offer.body))
<1> DEFINE b == offer.body
<1>1. /\ b \in Seq(Byte) /\ Len(b) \in Nat /\ recv.size = Len(b)
      /\ recv.memory = NULL => Len(b) = 0
      /\ recv.memory # NULL => recv.memory = SubSeq(b, 1, Len(b)) \o <<NUL>>
  BY ByteFacts, LenProperties
     DEF HttpInv, HttpTypeOK, CallIsSetUp, WholeInv, ReceivedIsArrived, Underway
<1>2. CASE b = <<>>
  <2>1. Len(b) = 0
    BY <1>2, EmptySeq
  <2>2. QED BY <1>1, <1>2, <2>1 DEF HttpSucceeded, WholeBody
<1>3. CASE b # <<>>
  <2>1. Len(b) > 0
    BY <1>1, <1>3, EmptySeq
  <2>2. SubSeq(b, 1, Len(b)) = b
    BY <1>1, SubSeqFull
  <2>3. recv.memory = b \o <<NUL>> /\ recv.memory # NULL
    BY <1>1, <2>1, <2>2
  <2>4. [recv.memory EXCEPT ![Len(b) + 1] = NUL] = b \o <<NUL>>
    BY <1>1, <2>3, WholeBodyIsText
  <2>5. \E code \in ResponseCode :
          Respond(code, [recv.memory EXCEPT ![Len(b) + 1] = NUL], Len(b))
    BY <1>1, <2>1, <2>3 DEF HttpSucceeded
  <2>6. QED BY <1>3, <2>4, <2>5 DEF WholeBody
<1>4. QED BY <1>2, <1>3

(* What ends an exchange with a response that is well formed keeps HttpInv. *)
LEMMA RespondInv ==
  ASSUME HttpInv, NEW code \in Code \cup {500}, NEW r \in Text \cup {NULL}, NEW l \in Nat,
         Respond(code, r, l), send' = NoSend, recv' = NoRecv,
         UNCHANGED <<call, wire, eof, offer, arrived>>
  PROVE  /\ HttpInv' /\ pc' = "returned"
         /\ res'.code = code /\ res'.raw = r /\ res'.len = l
<1>1. PICK root \in {NULL, "DOC"} :
        res' = [code |-> code, raw |-> r, len |-> l, root |-> root]
  BY DEF Respond, ParsedRoots
<1>2. pc' = "returned"
  BY DEF Respond
<1>3. res' \in [code : Code \cup {500}, raw : Text \cup {NULL}, len : Nat, root : {NULL, "DOC"}]
  BY <1>1
<1>4. HttpTypeOK'
  <2>1. /\ NoSend \in [memory : Doc \cup {NULL}, offset : Nat, size : Nat]
        /\ NoRecv \in [memory : Text \cup {NULL}, size : Nat]
    BY DEF NoSend, NoRecv
  <2>2. QED BY <1>2, <1>3, <2>1 DEF HttpInv, HttpTypeOK
<1>5. CallIsSetUp'
  BY <1>2 DEF HttpInv, CallIsSetUp, Underway
<1>6. RoomForNul' /\ SentIsData'
  BY DEF RoomForNul, SentIsData, NoSend, NoRecv
<1>7. QED BY <1>1, <1>2, <1>4, <1>5, <1>6 DEF HttpInv

(* An exchange that failed: no text, and a code that is none of success. *)
LEMMA HttpFailedInv ==
  ASSUME HttpInv, HttpFailed
  PROVE  HttpInv' /\ WholeInv'
<1>1. HttpInv' /\ pc' = "returned" /\ res'.code = 500
  BY RespondInv DEF HttpFailed
<1>2. QED BY <1>1 DEF WholeInv, ReceivedIsArrived, SuccessIsEndToEnd, Success, Underway

(* One that succeeded keeps HttpInv, or crashes, after a realloc that failed. *)
LEMMA HttpSucceededInv ==
  ASSUME HttpInv, HttpSucceeded, pc = "perform"
  PROVE  HttpInv'
<1>1. send' = NoSend /\ recv' = NoRecv /\ UNCHANGED <<call, wire, eof, offer, arrived>>
  BY DEF HttpSucceeded
<1>2. CASE recv.size > 0 /\ recv.memory = NULL
  <2>1. pc' = "crashed" /\ res' = res /\ res = NULL
    BY <1>2 DEF HttpSucceeded, HttpInv, CallIsSetUp
  <2>2. /\ NoSend \in [memory : Doc \cup {NULL}, offset : Nat, size : Nat]
        /\ NoRecv \in [memory : Text \cup {NULL}, size : Nat]
    BY DEF NoSend, NoRecv
  <2>3. HttpTypeOK'
    BY <1>1, <2>1, <2>2 DEF HttpInv, HttpTypeOK
  <2>4. CallIsSetUp'
    BY <1>1, <2>1 DEF HttpInv, CallIsSetUp, Underway
  <2>5. QED BY <1>1, <2>3, <2>4 DEF HttpInv, RoomForNul, SentIsData, NoSend, NoRecv
<1>3. CASE ~(recv.size > 0 /\ recv.memory = NULL)
  <2>1. PICK code \in ResponseCode :
          IF recv.size > 0
          THEN Respond(code, [recv.memory EXCEPT ![recv.size + 1] = NUL], recv.size)
          ELSE Respond(code, NULL, 0)
    BY <1>3 DEF HttpSucceeded
  <2>2. code \in Code \cup {500} /\ recv.size \in Nat
    BY DEF HttpInv, HttpTypeOK, ResponseCode
  <2>3. CASE recv.size > 0
    <3> DEFINE B == Byte \cup {NUL, JUNK}
               t == recv.memory
    <3>1. t \in Seq(B)
      BY <1>3, <2>3 DEF HttpInv, HttpTypeOK, Text
    <3> HIDE DEF t
    <3>2. t \in [1..Len(t) -> B] /\ Len(t) \in Nat
      BY <3>1, LenProperties
    <3>3. [t EXCEPT ![recv.size + 1] = NUL] \in [1..Len(t) -> B]
      BY <3>2
    <3>4. [t EXCEPT ![recv.size + 1] = NUL] \in Text
      BY <3>2, <3>3, SeqDef DEF Text
    <3>5. QED BY <1>1, <2>1, <2>2, <2>3, <3>4, RespondInv DEF t
  <2>4. CASE ~(recv.size > 0)
    BY <1>1, <2>1, <2>2, <2>4, RespondInv
  <2>5. QED BY <2>3, <2>4
<1>4. QED BY <1>2, <1>3

(* An answer of success to an upload has waited for the last of the data. *)
LEMMA AnsweredUploadIsSent ==
  ASSUME HttpInv, pc = "perform", Answering, Success(offer.code), call.data # <<>>
  PROVE  wire = call.data
<1> DEFINE d == call.data
<1>1. /\ d \in Seq(Byte) /\ Len(d) \in Nat /\ send.memory = d /\ d # NULL
      /\ wire \in Seq(Byte \cup {STDIN}) /\ call.upload
      /\ send.offset \in Nat
  BY ByteFacts, LenProperties DEF HttpInv, HttpTypeOK, CallIsSetUp, Underway
<1>2. eof
  BY <1>1 DEF Answering
<1>3. /\ send.offset + send.size = Len(d) /\ send.size = 0
      /\ wire \o SubSeq(d, send.offset + 1, Len(d)) = d
  BY <1>1, <1>2 DEF HttpInv, SentIsData
<1>4. send.offset = Len(d)
  BY <1>1, <1>3
<1>5. SubSeq(d, Len(d) + 1, Len(d)) = <<>>
  BY <1>1, SubSeqEmpty
<1>6. wire \o <<>> = wire
  BY <1>1, ConcatEmptySeq
<1>7. QED BY <1>3, <1>4, <1>5, <1>6

(* The end of an exchange keeps it. *)
LEMMA CurlDoneInv ==
  ASSUME HttpInv, CurlDone
  PROVE  HttpInv'
BY HttpFailedInv, HttpSucceededInv DEF CurlDone

(* A failure is no success, and a success has the whole body, and the data on
   the wire.                                                                 *)
LEMMA CurlDoneWhole ==
  ASSUME HttpInv, WholeInv, CurlDone
  PROVE  WholeInv'
<1>1. CASE HttpFailed
  BY <1>1, HttpFailedInv
<1>2. CASE Answering /\ arrived = Len(offer.body) /\ HttpSucceeded
  <2>1. /\ pc = "perform" /\ send' = NoSend /\ recv' = NoRecv
        /\ UNCHANGED <<call, wire, eof, offer, arrived>>
    BY <1>2 DEF CurlDone, HttpSucceeded
  <2>2. /\ offer.body \in Seq(Byte) /\ Len(offer.body) \in Nat
        /\ offer.code \in Code \cup {500}
    BY ByteFacts, LenProperties DEF HttpInv, HttpTypeOK
  <2>3. WholeBody \in Text \cup {NULL}
    BY <2>2, WholeBodyIsText DEF WholeBody
  <2>4. PICK code \in ResponseCode : Respond(code, WholeBody, Len(offer.body))
    BY <1>2, <2>1, SuccessResponds
  <2>5. code = offer.code \/ code = 500
    BY DEF ResponseCode
  <2>6. pc' = "returned" /\ res'.code = code /\ res'.raw = WholeBody
    <3>1. code \in Code \cup {500}
      BY <2>2, <2>5
    <3> DEFINE r == WholeBody
               l == Len(offer.body)
    <3>2. r \in Text \cup {NULL} /\ l \in Nat /\ Respond(code, r, l)
      BY <2>2, <2>3, <2>4
    <3> HIDE DEF r, l
    <3>3. pc' = "returned" /\ res'.code = code /\ res'.raw = r
      BY <2>1, <3>1, <3>2, RespondInv
    <3>4. QED BY <3>3 DEF r
  <2>7. Success(code) => code = offer.code
    BY <2>5 DEF Success
  <2>8. Success(offer.code) /\ call.data # <<>> => wire = call.data
    BY <1>2, <2>1, AnsweredUploadIsSent
  <2>9. SuccessIsEndToEnd'
    BY <2>1, <2>6, <2>7, <2>8 DEF SuccessIsEndToEnd, Success, WholeBody
  <2>10. QED BY <2>6, <2>9 DEF WholeInv, ReceivedIsArrived, Underway
<1>3. QED BY <1>1, <1>2 DEF CurlDone

(* To free the response takes the client back to where it started. *)
LEMMA PtFreeResponseInv ==
  ASSUME HttpInv, PtFreeResponse
  PROVE  HttpInv' /\ WholeInv'
<1>1. /\ pc = "returned" /\ pc' = "idle" /\ res' = NULL
      /\ call' = NoCall /\ wire' = <<>> /\ eof' = FALSE
      /\ offer' = Failure /\ arrived' = 0
      /\ UNCHANGED <<send, recv>>
  BY DEF PtFreeResponse
<1>2. send = NoSend /\ recv = NoRecv
  BY <1>1 DEF HttpInv, CallIsSetUp, Underway
<1>3. Len(<<>>) = 0 /\ <<>> \in Seq(Byte \cup {STDIN})
  BY EmptySeq
<1>4. HttpTypeOK'
  <2>1. /\ send' \in [memory : Doc \cup {NULL}, offset : Nat, size : Nat]
        /\ recv' \in [memory : Text \cup {NULL}, size : Nat]
    BY <1>1 DEF HttpInv, HttpTypeOK
  <2>2. /\ call' \in [upload : BOOLEAN, data : Doc \cup {<<>>}, parse : BOOLEAN]
        /\ offer' \in [code : Code \cup {500}, body : Body \cup {<<>>}]
    BY <1>1 DEF NoCall, Failure
  <2>3. QED BY <1>1, <1>3, <2>1, <2>2 DEF HttpTypeOK
<1>5. CallIsSetUp'
  BY <1>1, <1>2, <1>3 DEF CallIsSetUp, Underway, NoCall, Failure
<1>6. RoomForNul' /\ SentIsData'
  BY <1>1, <1>2 DEF RoomForNul, SentIsData, NoSend, NoRecv
<1>7. WholeInv'
  BY <1>1 DEF WholeInv, ReceivedIsArrived, SuccessIsEndToEnd, Underway
<1>8. QED BY <1>4, <1>5, <1>6, <1>7 DEF HttpInv

(* Whatever the program asks for is an http_operation. *)
LEMMA CallInv ==
  ASSUME HttpInv, Call
  PROVE  HttpInv' /\ WholeInv'
<1>1. CASE PtGet
  BY <1>1, HttpOperationInv DEF PtGet
<1>2. CASE PtUnparsedGet
  BY <1>2, HttpOperationInv DEF PtUnparsedGet
<1>3. CASE PtDelete
  BY <1>3, HttpOperationInv DEF PtDelete
<1>4. CASE \E d \in Doc : PtPut(d)
  BY <1>4, HttpOperationInv DEF PtPut
<1>5. QED BY <1>1, <1>2, <1>3, <1>4 DEF Call

(* Every step keeps HttpInv. *)
LEMMA NextHttpInv ==
  ASSUME HttpInv, [Next]_vars
  PROVE  HttpInv'
<1>1. CASE UNCHANGED vars
  <2>1. HttpTypeOK' /\ CallIsSetUp'
    BY <1>1 DEF vars, HttpInv, HttpTypeOK, CallIsSetUp, Underway
  <2>2. RoomForNul' /\ SentIsData'
    BY <1>1 DEF vars, HttpInv, RoomForNul, SentIsData
  <2>3. QED BY <2>1, <2>2 DEF HttpInv
<1>2. CASE CurlBreaks
  BY <1>2, HttpFailedInv DEF CurlBreaks
<1>3. QED BY <1>1, <1>2, CallInv, CurlReadInv, CurlWriteInv, CurlDoneInv, CurlStallsInv,
             PtFreeResponseInv DEF Next

(* Every step keeps WholeInv, as long as realloc does not fail. *)
LEMMA NextWholeInv ==
  ASSUME HttpInv, WholeInv, ~ReallocMayFail, [Next]_vars
  PROVE  WholeInv'
<1>1. CASE UNCHANGED vars
  BY <1>1 DEF vars, WholeInv, ReceivedIsArrived, SuccessIsEndToEnd, Underway
<1>2. CASE CurlBreaks
  BY <1>2, HttpFailedInv DEF CurlBreaks
<1>3. QED BY <1>1, <1>2, CallInv, CurlReadInv, CurlWriteWhole, CurlDoneWhole, CurlStallsInv,
             PtFreeResponseInv DEF Next

----------------------------------------------------------------------------
(* The theorems *)

(* The inductive invariant, whether realloc fails or not. *)
THEOREM SpecHttpInv == Spec => []HttpInv
<1>1. Init => HttpInv
  BY InitHttpInv
<1>2. HttpInv /\ [Next]_vars => HttpInv'
  BY NextHttpInv
<1>3. QED BY <1>1, <1>2, PTL DEF Spec

(* Type correctness: no chunk is ever longer than its block, and nothing is
   left over from one call to the next, whether realloc fails or not.       *)
THEOREM HttpTypeCorrect == Spec => []HttpTypeOK
<1>1. HttpInv => HttpTypeOK
  BY DEF HttpInv
<1>2. QED BY <1>1, SpecHttpInv, PTL

(* However curl asks for the data, send_memory_callback gives each byte once
   and in order, and ends the upload only after the last.                   *)
THEOREM NothingSentIsLost == Spec => []SentIsData
<1>1. HttpInv => SentIsData
  BY DEF HttpInv
<1>2. QED BY <1>1, SpecHttpInv, PTL

(* The other invariants hold in a program whose reallocs do not fail; and such
   a program does not crash in http_operation.                              *)
THEOREM SpecWholeInv ==
  ASSUME ~ReallocMayFail
  PROVE  Spec => [](HttpInv /\ WholeInv)
<1>1. Init => HttpInv /\ WholeInv
  BY InitHttpInv
<1>2. HttpInv /\ WholeInv /\ [Next]_vars => HttpInv' /\ WholeInv'
  BY NextHttpInv, NextWholeInv
<1>3. QED BY <1>1, <1>2, PTL DEF Spec

(* However curl cuts up the body, recv_memory_callback has it whole so far,
   and the NUL inside the block.                                           *)
THEOREM NothingReceivedIsLost ==
  ASSUME ~ReallocMayFail
  PROVE  Spec => []ReceivedIsArrived
<1>1. WholeInv => ReceivedIsArrived
  BY DEF WholeInv
<1>2. QED BY <1>1, SpecWholeInv, PTL

(* A success code is the server's, its body is whole, and the server has the
   data.                                                                    *)
THEOREM SuccessMeansEndToEnd ==
  ASSUME ~ReallocMayFail
  PROVE  Spec => []SuccessIsEndToEnd
<1>1. WholeInv => SuccessIsEndToEnd
  BY DEF WholeInv
<1>2. QED BY <1>1, SpecWholeInv, PTL

----------------------------------------------------------------------------
(* What the caller is promised, safety only *)

PromiseStep == [Exchange!Next]_(Exchange!exchangeVars)
PromisedSafety == Exchange!Init /\ [][Exchange!Next]_(Exchange!exchangeVars)

(* A call is Ask, the end of an exchange is Answer, a stall is Stall, and its
   end Break, pt_free_response is Forget, and what happens between curl and
   the callbacks is not seen.                                               *)
LEMMA StepKeepsThePromise ==
  ASSUME HttpInv, WholeInv, [Next]_vars
  PROVE  PromiseStep
<1>1. CASE Call
  <2>1. /\ pc = "idle" /\ pc' = "perform"
        /\ offer' \in [code : Code, body : Body] /\ res' = res
    BY <1>1 DEF Call, PtGet, PtUnparsedGet, PtDelete, PtPut, HttpOperation
  <2>2. Exchange!Ask
    BY <2>1 DEF Exchange!Ask, Exchange!Offer
  <2>3. QED BY <2>2 DEF PromiseStep, Exchange!Next
<1>2. CASE CurlRead \/ CurlWrite \/ UNCHANGED vars
  <2>1. pc' = pc /\ offer' = offer /\ res' = res
    BY <1>2 DEF CurlRead, CurlWrite, vars
  <2>2. QED BY <2>1 DEF PromiseStep, Exchange!exchangeVars
<1>3. ASSUME NEW code \in Nat, NEW r \in Text \cup {NULL}, NEW l \in Nat,
             Respond(code, r, l)
      PROVE  /\ pc' = "returned" /\ res' # NULL
             /\ res'.code = code /\ res'.raw = r /\ res'.len = l
  <2>1. PICK root \in {NULL, "DOC"} :
          res' = [code |-> code, raw |-> r, len |-> l, root |-> root]
    BY <1>3 DEF Respond, ParsedRoots
  <2>2. res' # NULL
    BY <2>1, HttpAssumption DEF Text
  <2>3. QED BY <1>3, <2>1, <2>2 DEF Respond
<1>4. ASSUME HttpFailed
      PROVE  /\ pc' = "returned" /\ offer' = offer /\ res' # NULL
             /\ res'.code = 500 /\ res'.raw = NULL
  BY <1>3, <1>4 DEF HttpFailed
<1>5. CASE CurlDone
  <2>1. pc = "perform" /\ offer' = offer /\ res = NULL
    BY <1>5 DEF CurlDone, HttpSucceeded, HttpFailed, HttpInv, CallIsSetUp
  <2>2. /\ offer = [code |-> offer.code, body |-> offer.body]
        /\ offer.code \in Nat /\ offer.body \in Seq(Byte) /\ Len(offer.body) \in Nat
    <3>1. offer \in [code : Code \cup {500}, body : Body \cup {<<>>}]
      BY DEF HttpInv, HttpTypeOK
    <3>2. offer.code \in Nat /\ offer.body \in Seq(Byte)
      BY <3>1, ByteFacts, HttpAssumption
    <3>3. QED BY <3>1, <3>2, LenProperties
  <2>3. CASE HttpFailed
    <3>1. Exchange!Answer
      BY <1>4, <2>1, <2>3 DEF Exchange!Answer, Exchange!Failure, Failure
    <3>2. QED BY <3>1 DEF PromiseStep, Exchange!Next
  <2>4. CASE arrived = Len(offer.body) /\ HttpSucceeded
    <3>1. /\ WholeBody \in Text \cup {NULL}
          /\ IF WholeBody = NULL THEN offer.body = <<>>
             ELSE SubSeq(WholeBody, 1, Len(offer.body)) = offer.body
      BY <2>2, WholeBodyIsText DEF WholeBody
    <3>2. PICK code \in ResponseCode : Respond(code, WholeBody, Len(offer.body))
      BY <2>1, <2>4, SuccessResponds
    <3>3. code \in Nat /\ (code = offer.code \/ code = 500)
      BY <2>2 DEF ResponseCode
    <3>4. /\ pc' = "returned" /\ res' # NULL /\ res'.code = code
          /\ res'.raw = WholeBody /\ res'.len = Len(offer.body)
      BY <2>2, <1>3, <3>1, <3>2, <3>3
    <3>5. \/ [code |-> code, body |-> offer.body] = offer
          \/ [code |-> code, body |-> offer.body] = [offer EXCEPT !.code = 500]
      BY <2>2, <3>3
    <3>6. Exchange!Answer
      BY <2>1, <3>1, <3>4, <3>5 DEF Exchange!Answer
    <3>7. QED BY <3>6 DEF PromiseStep, Exchange!Next
  <2>5. QED BY <1>5, <2>3, <2>4 DEF CurlDone
<1>6. CASE CurlStalls
  <2>1. Exchange!Stall
    BY <1>6 DEF CurlStalls, Exchange!Stall
  <2>2. QED BY <2>1 DEF PromiseStep, Exchange!Next
<1>7. CASE CurlBreaks
  <2>1. Exchange!Break
    BY <1>4, <1>7 DEF CurlBreaks, Exchange!Break, Exchange!Failure, Failure
  <2>2. QED BY <2>1 DEF PromiseStep, Exchange!Next
<1>8. CASE PtFreeResponse
  <2>1. /\ pc = "returned" /\ pc' = "idle" /\ res' = NULL /\ offer' = Failure
    BY <1>8 DEF PtFreeResponse
  <2>2. Exchange!Forget
    BY <2>1 DEF Exchange!Forget, Exchange!Failure, Failure
  <2>3. QED BY <2>2 DEF PromiseStep, Exchange!Next
<1>9. QED BY <1>1, <1>2, <1>5, <1>6, <1>7, <1>8 DEF Next

(* http_operation implements the safety part of PtExchange: a program gets the
   server's body, whole, with the server's code or with 500, or else 500 and
   no body; nothing else, and nothing twice.                                 *)
THEOREM HttpKeepsThePromise ==
  ASSUME ~ReallocMayFail
  PROVE  Spec => PromisedSafety
<1>1. Init => Exchange!Init
  BY DEF Init, Exchange!Init, Exchange!Failure, Failure
<1>2. HttpInv /\ WholeInv /\ [Next]_vars => PromiseStep
  BY StepKeepsThePromise
<1>3. Spec => [](HttpInv /\ WholeInv)
  BY SpecWholeInv
<1>4. QED BY <1>1, <1>2, <1>3, PTL DEF Spec, PromisedSafety, PromiseStep

=============================================================================
