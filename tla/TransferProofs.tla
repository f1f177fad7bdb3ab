--------------------------- MODULE TransferProofs ---------------------------
(* Theorems about Transfer and Url: for any urls, bodies and answers, any    *)
(* sizes of blocks and buffers and any number of attempts.                   *)
EXTENDS Transfer, TLAPS, SequenceTheorems, WellOrder

(***************************************************************************)
(* The inductive invariants.                                                *)
(***************************************************************************)

Codes == {"Z_OK", "Z_STREAM_END", "Z_STREAM_ERROR", "Z_BUF_ERROR", "Z_DATA_ERROR"}

\* What kind of value each variable has.
Kinds ==
    /\ request \in Requests
    /\ pc \in Control
    /\ packed \in Nat /\ buffer \in Seq(Int) /\ ret \in Codes /\ inflated \in Seq(Int)
    /\ source \in [data : Seq(Int), read : Nat, encoding : {"none", "gzip"}]
    /\ DOMAIN server = DOMAIN NoServer
    /\ server.length \in Nat /\ server.body \in Seq(Int)
    /\ answer = NoAnswer \/ answer \in request.answers
    /\ sink \in [data : Seq(Int), compression : Encodings \cup {"none"}]
    /\ result \in Seq(Int)

\* The request body that is sent: as it is, or compressed as the policy says.
Chosen ==
    \/ source.encoding = "none" /\ source.data = Bytes(request.post)
    \/ /\ source.encoding = "gzip" /\ source.data = Compressed(packed)
       /\ \/ request.policy = "always"
          \/ request.policy = "when_better" /\ packed < request.post

\* How far the request body is on its way to the server.
Sending ==
    /\ pc = "compress" =>
           /\ request.policy # "never"
           /\ Len(buffer) <= packed /\ buffer = Compressed(Len(buffer))
           /\ ret = "Z_STREAM_END" => Len(buffer) = packed
    /\ pc \in {"headers", "body", "response"} =>
           Chosen /\ source.read <= Len(source.data)
    /\ pc = "headers" => source.read = 0
    /\ pc \in {"body", "response"} =>
           /\ server.length = Len(source.data)
           /\ server.body = SubSeq(source.data, 1, source.read)
    /\ pc = "response" => source.read = Len(source.data)

\* The sink has a beginning of the answer to this attempt and nothing else.
Sunk ==
    /\ pc \in {"compress", "headers", "body"} => answer = NoAnswer
    /\ answer = NoAnswer => sink = NoSink
    /\ Len(sink.data) <= answer.sent
    /\ IF answer.encoding \in Encodings
       THEN sink.data = Compressed(Len(sink.data)) /\ sink.compression = answer.encoding
       ELSE sink.data = Bytes(Len(sink.data)) /\ sink.compression = "none"

\* What the caller gets of an answer.
Delivered ==
    /\ answer.intact => Len(result) <= answer.size /\ result = Bytes(Len(result))
    /\ answer.encoding = "deflate" => result \in {<<>>, Bytes(answer.size)}
    /\ ec = "none" /\ answer.intact /\ answer.sent = answer.packed
          => result = Bytes(answer.size)

\* How far the answer is on its way to the caller.
Decoding ==
    /\ pc \in {"decode", "gunzip", "uncompress", "completed", "done"} /\ ec = "none" =>
           answer # NoAnswer /\ Len(sink.data) = answer.sent
    /\ pc \in {"gunzip", "uncompress"} =>
           /\ answer.encoding \in Encodings
           /\ answer.intact => inflated = Bytes(Inflatable)
    /\ pc = "gunzip" => answer.encoding = "gzip"
    /\ pc \in {"completed", "done"} => Delivered

TransferInv == Kinds /\ Sending /\ Sunk /\ Decoding

(***************************************************************************)
(* Bodies, and the pieces that they are cut into.                           *)
(***************************************************************************)

LEMMA BytesFacts ==
    ASSUME NEW n \in Nat
    PROVE  Bytes(n) \in Seq(Int) /\ Len(Bytes(n)) = n /\ DOMAIN Bytes(n) = 1..n
  BY DEF Bytes

LEMMA CompressedFacts ==
    ASSUME NEW n \in Nat
    PROVE  /\ Compressed(n) \in Seq(Int) /\ Len(Compressed(n)) = n
           /\ DOMAIN Compressed(n) = 1..n
  BY DEF Compressed

LEMMA NoBytes == Bytes(0) = <<>> /\ Compressed(0) = <<>>
<1>1. Bytes(0) \in Seq(Int) /\ Len(Bytes(0)) = 0
  BY BytesFacts
<1>2. Compressed(0) \in Seq(Int) /\ Len(Compressed(0)) = 0
  BY CompressedFacts
<1> QED BY <1>1, <1>2, EmptySeq

\* A beginning of a body.
LEMMA Beginnings ==
    ASSUME NEW m \in Nat, NEW n \in 0..m
    PROVE  SubSeq(Bytes(m), 1, n) = Bytes(n) /\ SubSeq(Compressed(m), 1, n) = Compressed(n)
<1>1. n \in Nat /\ 1..n \subseteq 1..m
  OBVIOUS
<1>2. \A i \in 1..n : Bytes(m)[i] = i /\ Compressed(m)[i] = -i
  BY <1>1 DEF Bytes, Compressed
<1>3. SubSeq(Bytes(m), 1, n) = [i \in 1..n |-> Bytes(m)[i]]
  BY <1>1, BytesFacts
<1>4. SubSeq(Compressed(m), 1, n) = [i \in 1..n |-> Compressed(m)[i]]
  BY <1>1, CompressedFacts
<1> QED BY <1>2, <1>3, <1>4 DEF Bytes, Compressed

\* A beginning and the piece that follows it are a beginning.
LEMMA NextPiece ==
    ASSUME NEW S, NEW s \in Seq(S), NEW m \in Nat, NEW n \in Nat, m + n <= Len(s)
    PROVE  /\ SubSeq(s, 1, m) \o SubSeq(s, m + 1, m + n) = SubSeq(s, 1, m + n)
           /\ SubSeq(s, 1, m + n) \in Seq(S) /\ Len(SubSeq(s, 1, m + n)) = m + n
<1>1. Len(s) \in Nat /\ \A i \in 1..Len(s) : s[i] \in S
  BY LenProperties, ElementOfSeq
<1>2. /\ 1 \in 1..(Len(s) + 1) /\ m \in 0..Len(s) /\ m + n \in m..Len(s)
      /\ \A i \in 1..(m + n) : s[i] \in S
  BY <1>1
<1>3. SubSeq(s, 1, m) \o SubSeq(s, m + 1, m + n) = SubSeq(s, 1, m + n)
  BY <1>2, ConcatAdjacentSubSeq
<1>4. SubSeq(s, 1, m + n) \in Seq(S) /\ Len(SubSeq(s, 1, m + n)) = m + n
  BY <1>2, SubSeqProperties
<1> QED BY <1>3, <1>4

(***************************************************************************)
(* Answers.                                                                 *)
(***************************************************************************)

LEMMA Quotients ==
    ASSUME NEW a \in Nat, NEW n \in Nat \ {0}, NEW k \in 0..n
    PROVE  (a * k) \div n \in 0..a /\ (a * n) \div n = a
<1>1. ASSUME NEW b \in Nat PROVE b \div n \in Nat /\ n * (b \div n) <= b /\ b < n * (b \div n) + n
  <2>1. b \div n \in Nat /\ b % n \in 0..(n - 1)
    OBVIOUS
  <2>2. b = n * (b \div n) + (b % n)
    OBVIOUS
  <2> QED BY <2>1, <2>2
<1>2. ASSUME NEW b \in Nat, NEW q \in Nat, n * q <= b, b <= n * a PROVE q <= a
  <2> SUFFICES ASSUME q > a PROVE FALSE
    OBVIOUS
  <2>1. PICK d \in Nat : q = a + 1 + d
    <3>1. q - a - 1 \in Nat /\ q = a + 1 + (q - a - 1)
      OBVIOUS
    <3> QED BY <3>1
  <2>2. n * (a + 1 + d) = n * a + n + n * d
    OBVIOUS
  <2>3. n * d \in Nat /\ n * a \in Nat
    OBVIOUS
  <2> QED BY <1>2, <2>1, <2>2, <2>3
<1>3. a * k \in Nat /\ a * n \in Nat /\ a * n = n * a
  OBVIOUS
<1>4. a * k <= n * a
  <2>1. PICK d \in Nat : n = k + d
    <3>1. n - k \in Nat /\ n = k + (n - k)
      OBVIOUS
    <3> QED BY <3>1
  <2>2. a * (k + d) = a * k + a * d /\ a * d \in Nat
    OBVIOUS
  <2> QED BY <1>3, <2>1, <2>2
<1>5. (a * k) \div n \in 0..a
  <2> DEFINE q == (a * k) \div n
  <2>1. q \in Nat /\ n * q <= a * k
    BY <1>1, <1>3
  <2> HIDE DEF q
  <2>2. q <= a
    BY <1>2, <1>3, <1>4, <2>1
  <2> QED BY <2>1, <2>2 DEF q
<1>6. (a * n) \div n = a
  <2> DEFINE q == (a * n) \div n
  <2>1. q \in Nat /\ n * q <= a * n /\ a * n < n * q + n
    BY <1>1, <1>3
  <2> HIDE DEF q
  <2>2. q <= a
    BY <1>2, <1>3, <2>1
  <2>3. ~(q < a)
    <3> SUFFICES ASSUME q < a PROVE FALSE
      OBVIOUS
    <3>1. PICK d \in Nat : a = q + 1 + d
      <4>1. a - q - 1 \in Nat /\ a = q + 1 + (a - q - 1)
        BY <2>1
      <4> QED BY <4>1
    <3>2. n * (q + 1 + d) = n * q + n + n * d /\ n * d \in Nat
      BY <2>1
    <3> QED BY <1>3, <2>1, <3>1, <3>2
  <2> QED BY <2>1, <2>2, <2>3 DEF q
<1> QED BY <1>5, <1>6

\* What is known of an answer, or of none.
LEMMA AnswerFacts ==
    ASSUME Kinds
    PROVE  /\ {answer.size, answer.packed, answer.sent} \subseteq Nat
           /\ answer.sent <= answer.packed /\ answer.intact \in BOOLEAN
           /\ answer.encoding \in Encodings => answer.packed > 0
           /\ answer.encoding \notin Encodings => answer.size = answer.packed
<1>1. CASE answer = NoAnswer
  <2>1. answer.size = 0 /\ answer.packed = 0 /\ answer.sent = 0 /\ answer.encoding = "unanswered"
    BY <1>1 DEF NoAnswer
  <2>2. answer.intact \in BOOLEAN
    BY <1>1 DEF NoAnswer
  <2>3. "unanswered" \notin Encodings
    BY DEF Encodings
  <2>4. /\ answer.size \in Nat /\ answer.packed \in Nat /\ answer.sent \in Nat
        /\ answer.sent <= answer.packed /\ answer.size = answer.packed
    BY <2>1, SMT
  <2> QED BY <2>1, <2>2, <2>3, <2>4
<1>2. CASE answer \in request.answers
  <2>1. IsAnswer(answer)
    BY <1>2, TransferConstants DEF Kinds, IsRequest
  <2> QED BY <2>1 DEF IsAnswer
<1> QED BY <1>1, <1>2 DEF Kinds

\* zlib inflates no more than the body, and all of it once it has it all.
LEMMA InflatableFacts ==
    ASSUME Kinds, Sunk, answer.encoding \in Encodings
    PROVE  /\ Inflatable \in 0..answer.size
           /\ Len(sink.data) = answer.packed => Inflatable = answer.size
<1>1. /\ answer.size \in Nat /\ answer.packed \in Nat \ {0}
      /\ answer.sent \in Nat /\ answer.sent <= answer.packed
  BY AnswerFacts
<1>2. Len(sink.data) \in Nat /\ Len(sink.data) <= answer.sent
  <2>1. sink.data \in Seq(Int)
    BY DEF Kinds
  <2> QED BY <2>1, LenProperties DEF Sunk
<1>3. Len(sink.data) \in 0..answer.packed
  BY <1>1, <1>2
<1> QED BY <1>1, <1>3, Quotients DEF Inflatable

(***************************************************************************)
(* Facts that most steps use.                                               *)
(***************************************************************************)

SourceType == [data : Seq(Int), read : Nat, encoding : {"none", "gzip"}]
SinkType == [data : Seq(Int), compression : Encodings \cup {"none"}]

LEMMA KindFacts ==
    ASSUME Kinds
    PROVE  /\ IsRequest(request) /\ request.post \in Nat
           /\ source.data \in Seq(Int) /\ source.read \in Nat /\ Len(source.data) \in Nat
           /\ sink.data \in Seq(Int) /\ Len(sink.data) \in Nat
           /\ Len(buffer) \in Nat /\ Len(result) \in Nat
<1>1. IsRequest(request)
  BY TransferConstants DEF Kinds
<1> QED BY <1>1, LenProperties DEF Kinds, IsRequest

LEMMA Nothing ==
    /\ NoSource \in SourceType /\ NoSource.data = <<>> /\ NoSource.read = 0
    /\ NoSource.encoding = "none"
    /\ DOMAIN NoServer = {"host", "port", "resource", "length", "body"}
    /\ NoServer.length = 0 /\ NoServer.body = <<>>
    /\ NoSink \in SinkType /\ NoSink.data = <<>> /\ NoSink.compression = "none"
    /\ NoAnswer.sent = 0 /\ NoAnswer.size = 0 /\ NoAnswer.packed = 0
    /\ NoAnswer.encoding \notin Encodings
    /\ <<>> \in Seq(Int) /\ Len(<<>>) = 0
<1>1. <<>> \in Seq(Int) /\ Len(<<>>) = 0
  BY EmptySeq
<1>2. NoSource \in SourceType /\ NoSource.data = <<>> /\ NoSource.read = 0 /\ NoSource.encoding = "none"
  BY <1>1 DEF NoSource, SourceType
<1>3. /\ DOMAIN NoServer = {"host", "port", "resource", "length", "body"}
      /\ NoServer.length = 0 /\ NoServer.body = <<>>
  BY DEF NoServer
<1>4. NoSink \in SinkType /\ NoSink.data = <<>> /\ NoSink.compression = "none"
  BY <1>1 DEF NoSink, SinkType
<1>5. /\ NoAnswer.sent = 0 /\ NoAnswer.size = 0 /\ NoAnswer.packed = 0
      /\ NoAnswer.encoding \notin Encodings
  BY DEF NoAnswer, Encodings
<1> QED BY <1>1, <1>2, <1>3, <1>4, <1>5

\* An answer that came is not the one that stands for none.
LEMMA Answered ==
    ASSUME NEW r \in Requests, NEW a \in r.answers
    PROVE  a # NoAnswer
<1>1. a.encoding # "unanswered"
  BY TransferConstants DEF IsRequest, IsAnswer
<1>2. NoAnswer.encoding = "unanswered"
  BY DEF NoAnswer
<1> QED BY <1>1, <1>2

LEMMA InitTransferInv == Init => TransferInv
<1> SUFFICES ASSUME Init PROVE TransferInv
  OBVIOUS
<1>1. /\ request \in Requests /\ pc \in {"thrown", "start"}
      /\ packed = 0 /\ buffer = <<>> /\ ret = "Z_OK"
      /\ source = NoSource /\ server = NoServer /\ answer = NoAnswer /\ sink = NoSink
      /\ inflated = <<>> /\ result = <<>>
  BY DEF Init
<1>2. Kinds
  BY <1>1, Nothing DEF Kinds, Control, Codes, SourceType, SinkType
<1>3. Sending
  BY <1>1 DEF Sending
<1>4. Sunk
  BY <1>1, Nothing, NoBytes DEF Sunk
<1>5. Decoding
  BY <1>1 DEF Decoding
<1> QED BY <1>2, <1>3, <1>4, <1>5 DEF TransferInv

(***************************************************************************)
(* The request body.                                                        *)
(***************************************************************************)

\* A source that was just made of the post data.
LEMMA PlainSource ==
    ASSUME NEW n \in Nat
    PROVE  LET s == [NoSource EXCEPT !.data = Bytes(n)]
           IN  /\ s \in SourceType /\ s.data = Bytes(n) /\ s.read = 0 /\ s.encoding = "none"
<1>1. Bytes(n) \in Seq(Int)
  BY BytesFacts
<1> QED BY <1>1 DEF NoSource, SourceType

LEMMA StartStep == ASSUME TransferInv, Start PROVE TransferInv'
<1>1. /\ pc = "start" /\ sink' = NoSink /\ answer' = NoAnswer /\ server' = NoServer
      /\ buffer' = <<>> /\ ret' = "Z_OK" /\ inflated' = <<>> /\ result' = <<>>
      /\ request' = request
  BY DEF Start
<1>2. Kinds /\ IsRequest(request) /\ request.post \in Nat
  BY KindFacts DEF TransferInv
<1>3. \/ /\ request.policy # "never" /\ packed' \in Packed /\ pc' = "compress" /\ source' = source
      \/ /\ source' = [NoSource EXCEPT !.data = Bytes(request.post)] /\ pc' = "headers"
         /\ packed' = packed
  BY DEF Start
<1>4. Kinds'
  <2>1. packed' \in Nat /\ pc' \in Control
    BY <1>2, <1>3, TransferConstants DEF Kinds, Control
  <2>2. source' \in SourceType
    BY <1>2, <1>3, PlainSource DEF Kinds, SourceType
  <2> QED BY <1>1, <1>2, <2>1, <2>2, Nothing DEF Kinds, Codes, SourceType, SinkType
<1>5. Sending'
  <2>1. CASE request.policy # "never" /\ packed' \in Packed /\ pc' = "compress"
    <3>1. Len(buffer') = 0 /\ buffer' = Compressed(Len(buffer')) /\ packed' \in Nat
      BY <1>1, <1>4, Nothing, NoBytes DEF Kinds
    <3> QED BY <1>1, <2>1, <3>1 DEF Sending
  <2>2. CASE source' = [NoSource EXCEPT !.data = Bytes(request.post)] /\ pc' = "headers"
    <3>1. /\ source'.data = Bytes(request.post) /\ source'.read = 0 /\ source'.encoding = "none"
          /\ Len(source'.data) \in Nat
      BY <1>2, <2>2, PlainSource, BytesFacts
    <3> QED BY <1>1, <2>2, <3>1 DEF Sending, Chosen
  <2> QED BY <1>3, <2>1, <2>2
<1>6. Sunk'
  BY <1>1, Nothing, NoBytes DEF Sunk
<1>7. Decoding'
  BY <1>3 DEF Decoding
<1> QED BY <1>4, <1>5, <1>6, <1>7 DEF TransferInv

\* The steps up to the response leave the sink as it is.
LEMMA KeepsSink ==
    ASSUME TransferInv, UNCHANGED incoming,
           pc' \in {"compress", "headers", "body"} =>
               pc \in {"compress", "headers", "body"}
    PROVE  Sunk'
  BY DEF TransferInv, Sunk, incoming

LEMMA SmallerFacts ==
    ASSUME NEW m \in Nat, NEW n \in Nat
    PROVE  Smaller(m, n) \in Nat /\ Smaller(m, n) <= m /\ Smaller(m, n) <= n
  BY DEF Smaller

LEMMA DeflateStep == ASSUME TransferInv, Deflate PROVE TransferInv'
<1> DEFINE out == Smaller(Len(buffer) + OutBuffer, packed)
<1>1. pc = "compress" /\ UNCHANGED <<request, pc, packed, inflated, source, server, answer,
                                       sink, result>>
  BY DEF Deflate, incoming
<1>2. Kinds /\ Len(buffer) \in Nat /\ packed \in Nat
  BY KindFacts DEF TransferInv, Kinds
<1>3. out \in Nat /\ out <= packed
  <2>1. OutBuffer \in Nat
    BY TransferConstants
  <2>2. Len(buffer) \in Nat
    BY <1>2
  <2>3. Len(buffer) + OutBuffer \in Nat
    BY <2>1, <2>2
  <2> QED BY <1>2, <2>3, SmallerFacts
<1>4. \/ /\ buffer' = Compressed(out)
         /\ ret' \in {"Z_OK", "Z_STREAM_END"} /\ (out < packed => ret' = "Z_OK")
      \/ buffer' = buffer /\ ret' = "Z_STREAM_ERROR"
  BY DEF Deflate
<1> HIDE DEF out
<1>5. /\ buffer' \in Seq(Int) /\ Len(buffer') <= packed
      /\ buffer' = Compressed(Len(buffer')) /\ ret' \in Codes
      /\ ret' = "Z_STREAM_END" => Len(buffer') = packed
  <2>1. CASE buffer' = buffer /\ ret' = "Z_STREAM_ERROR"
    BY <1>1, <1>2, <2>1 DEF TransferInv, Kinds, Sending, Codes
  <2>2. CASE /\ buffer' = Compressed(out)
             /\ ret' \in {"Z_OK", "Z_STREAM_END"} /\ (out < packed => ret' = "Z_OK")
    <3>1. buffer' \in Seq(Int) /\ Len(buffer') = out
      BY <1>3, <2>2, CompressedFacts
    <3> QED BY <1>2, <1>3, <2>2, <3>1 DEF Codes
  <2> QED BY <1>4, <2>1, <2>2
<1>6. Kinds'
  BY <1>1, <1>2, <1>5 DEF Kinds
<1>7. Sending'
  BY <1>1, <1>5 DEF TransferInv, Sending
<1>8. Sunk'
  BY <1>1, KeepsSink DEF incoming
<1>9. Decoding'
  BY <1>1 DEF Decoding
<1> QED BY <1>6, <1>7, <1>8, <1>9 DEF TransferInv

LEMMA ChooseStep == ASSUME TransferInv, Choose PROVE TransferInv'
<1> DEFINE gzip == CompressResult
<1>1. /\ pc = "compress" /\ pc' = "headers"
      /\ UNCHANGED <<request, packed, buffer, ret, inflated, server, answer, sink, result>>
  BY DEF Choose, zlib, incoming
<1>2. Kinds /\ IsRequest(request) /\ request.post \in Nat /\ packed \in Nat
  BY KindFacts DEF TransferInv, Kinds
<1>3. CASE source' = [data |-> gzip, read |-> 0, encoding |-> "gzip"] /\ Worthwhile(gzip, request.post)
  <2>1. gzip # <<>> /\ (request.policy = "always" \/ Len(gzip) < request.post)
    BY <1>3 DEF Worthwhile
  <2>2. ret = "Z_STREAM_END" /\ gzip = buffer
    BY <2>1 DEF CompressResult
  <2>3. gzip = Compressed(packed) /\ request.policy # "never"
    BY <1>1, <2>2 DEF TransferInv, Sending
  <2>4. gzip \in Seq(Int) /\ Len(gzip) = packed
    BY <1>2, <2>3, CompressedFacts
  <2> HIDE DEF gzip
  <2>5. /\ source' \in SourceType /\ source'.data = gzip /\ source'.read = 0
        /\ source'.encoding = "gzip"
    BY <1>3, <2>4 DEF SourceType
  <2>6. Chosen'
    BY <1>1, <1>2, <2>1, <2>3, <2>4, <2>5 DEF Chosen, IsRequest
  <2>7. Sending'
    BY <1>1, <1>2, <2>4, <2>5, <2>6 DEF Sending
  <2>8. Kinds'
    BY <1>1, <1>2, <2>5 DEF Kinds, Control, SourceType
  <2>9. Decoding' /\ Sunk'
    BY <1>1, KeepsSink DEF Decoding, incoming
  <2> QED BY <2>7, <2>8, <2>9 DEF TransferInv
<1>4. CASE source' = [NoSource EXCEPT !.data = Bytes(request.post)]
  <2>1. /\ source' \in SourceType /\ source'.data = Bytes(request.post) /\ source'.read = 0
        /\ source'.encoding = "none" /\ Len(source'.data) \in Nat
    BY <1>2, <1>4, PlainSource, BytesFacts
  <2>2. Sending'
    BY <1>1, <2>1 DEF Sending, Chosen
  <2>3. Kinds'
    BY <1>1, <1>2, <2>1 DEF Kinds, Control, SourceType
  <2>4. Decoding' /\ Sunk'
    BY <1>1, KeepsSink DEF Decoding, incoming
  <2> QED BY <2>2, <2>3, <2>4 DEF TransferInv
<1> QED BY <1>3, <1>4 DEF Choose

LEMMA WriteHeadersStep == ASSUME TransferInv, WriteHeaders PROVE TransferInv'
<1>1. /\ pc = "headers" /\ pc' = "body"
      /\ UNCHANGED <<request, packed, buffer, ret, inflated, source, answer, sink, result>>
  BY DEF WriteHeaders, zlib, incoming
<1>2. Kinds /\ source.data \in Seq(Int) /\ Len(source.data) \in Nat
  BY KindFacts DEF TransferInv
<1>3. /\ DOMAIN server' = DOMAIN NoServer /\ server'.length = Len(source.data)
      /\ server'.body = <<>>
  <2>1. server' = [NoServer EXCEPT !.host = target.host, !.port = target.port,
                                   !.resource = target.path, !.length = Len(source.data)]
    BY DEF WriteHeaders
  <2> QED BY <2>1 DEF NoServer
<1>4. Chosen /\ source.read = 0
  BY <1>1 DEF TransferInv, Sending
<1>5. SubSeq(source.data, 1, source.read) = <<>>
  BY <1>4, SubSeqEmpty
<1>6. Sending'
  BY <1>1, <1>2, <1>3, <1>4, <1>5 DEF Sending, Chosen
<1>7. Kinds'
  BY <1>1, <1>2, <1>3, Nothing DEF Kinds, Control
<1>8. Decoding' /\ Sunk'
  BY <1>1, KeepsSink DEF Decoding, incoming
<1> QED BY <1>6, <1>7, <1>8 DEF TransferInv

LEMMA OnWriteStep == ASSUME TransferInv, OnWrite PROVE TransferInv'
<1> DEFINE count == ReadCallback(source)
           block == SubSeq(source.data, source.read + 1, source.read + count)
<1>1. /\ pc = "body" /\ pc' = (IF count = 0 THEN "response" ELSE "body")
      /\ source' = [source EXCEPT !.read = @ + count]
      /\ server' = [server EXCEPT !.body = @ \o block]
      /\ UNCHANGED <<request, packed, buffer, ret, inflated, answer, sink, result>>
  BY DEF OnWrite, zlib, incoming
<1>2. /\ Kinds /\ source \in SourceType /\ source.data \in Seq(Int) /\ source.read \in Nat
      /\ Len(source.data) \in Nat
  BY KindFacts DEF TransferInv, Kinds, SourceType
<1>3. /\ Chosen /\ source.read <= Len(source.data) /\ server.length = Len(source.data)
      /\ server.body = SubSeq(source.data, 1, source.read)
  BY <1>1 DEF TransferInv, Sending
<1>4. /\ count \in Nat /\ source.read + count <= Len(source.data)
      /\ count = 0 => source.read = Len(source.data)
  <2>1. BlockSize \in Nat \ {0}
    BY TransferConstants
  <2> QED BY <1>2, <1>3, <2>1 DEF ReadCallback, Smaller
<1> HIDE DEF count
<1>5. /\ server.body \o block = SubSeq(source.data, 1, source.read + count)
      /\ SubSeq(source.data, 1, source.read + count) \in Seq(Int)
  <2>1. PICK s \in Seq(Int), m \in Nat, c \in Nat : s = source.data /\ m = source.read /\ c = count
    BY <1>2, <1>4
  <2>2. m + c <= Len(s)
    BY <1>4, <2>1
  <2>3. /\ SubSeq(s, 1, m) \o SubSeq(s, m + 1, m + c) = SubSeq(s, 1, m + c)
        /\ SubSeq(s, 1, m + c) \in Seq(Int)
    BY <2>2, NextPiece
  <2> QED BY <1>3, <2>1, <2>3
<1>6. /\ source' \in SourceType /\ source'.data = source.data
      /\ source'.read = source.read + count /\ source'.encoding = source.encoding
  BY <1>1, <1>2, <1>4 DEF SourceType
<1> HIDE DEF block
<1>7. /\ DOMAIN server' = DOMAIN NoServer /\ server'.length = server.length
      /\ server'.body = server.body \o block
  <2>1. DOMAIN server = {"host", "port", "resource", "length", "body"}
    BY <1>2, Nothing DEF Kinds
  <2> QED BY <1>1, <2>1, Nothing
<1>8. Kinds'
  <2>1. server'.length \in Nat /\ server'.body \in Seq(Int)
    BY <1>2, <1>5, <1>7 DEF Kinds
  <2>2. pc' \in Control
    BY <1>1 DEF Control
  <2>3. source' \in [data : Seq(Int), read : Nat, encoding : {"none", "gzip"}]
    BY <1>6 DEF SourceType
  <2> QED BY <1>1, <1>2, <1>7, <2>1, <2>2, <2>3 DEF Kinds
<1>9. Sending'
  <2>1. Chosen' /\ source'.read <= Len(source'.data)
    BY <1>1, <1>3, <1>4, <1>6 DEF Chosen
  <2>2. /\ server'.length = Len(source'.data)
        /\ server'.body = SubSeq(source'.data, 1, source'.read)
    BY <1>3, <1>5, <1>6, <1>7
  <2>3. pc' = "response" => source'.read = Len(source'.data)
    BY <1>1, <1>2, <1>4, <1>6
  <2> QED BY <1>1, <2>1, <2>2, <2>3 DEF Sending
<1>10. Decoding' /\ Sunk'
  BY <1>1, KeepsSink DEF Decoding, incoming
<1> QED BY <1>8, <1>9, <1>10 DEF TransferInv

(***************************************************************************)
(* The response body.                                                       *)
(***************************************************************************)

LEMMA KeepsSending ==
    ASSUME TransferInv, UNCHANGED <<request, packed, source, server>>, pc = "response",
           pc' \in {"response", "decode"}
    PROVE  Sending'
  BY DEF TransferInv, Sending, Chosen

LEMMA OnHeadersStep == ASSUME TransferInv, OnHeaders PROVE TransferInv'
<1>1. /\ pc = "response" /\ answer = NoAnswer
      /\ UNCHANGED <<request, pc, packed, buffer, ret, inflated, source, server, result>>
  BY DEF OnHeaders, zlib
<1>2. PICK a \in request.answers :
          /\ answer' = a
          /\ sink' = [sink EXCEPT !.compression = IF a.encoding \in Encodings THEN a.encoding ELSE "none"]
  BY DEF OnHeaders
<1>3. Kinds /\ request \in Requests
  BY DEF TransferInv, Kinds
<1>4. IsAnswer(a) /\ a # NoAnswer
  BY <1>3, Answered, TransferConstants DEF IsRequest
<1>5. sink = NoSink
  BY <1>1 DEF TransferInv, Sunk
<1>6. /\ sink' \in SinkType /\ sink'.data = <<>>
      /\ sink'.compression = IF a.encoding \in Encodings THEN a.encoding ELSE "none"
  BY <1>2, <1>5, Nothing DEF NoSink, SinkType
<1>7. Kinds'
  BY <1>1, <1>2, <1>3, <1>6 DEF Kinds, SinkType
<1>8. Sunk'
  <2>1. Len(sink'.data) = 0 /\ a.sent \in Nat
    BY <1>4, <1>6, Nothing DEF IsAnswer
  <2>2. sink'.data = Compressed(Len(sink'.data)) /\ sink'.data = Bytes(Len(sink'.data))
    BY <1>6, <2>1, NoBytes
  <2> QED BY <1>1, <1>2, <1>4, <1>6, <2>1, <2>2 DEF Sunk
<1>9. Sending' /\ Decoding'
  BY <1>1, KeepsSending DEF Decoding
<1> QED BY <1>7, <1>8, <1>9 DEF TransferInv

LEMMA OnBodyStep ==
    ASSUME TransferInv, NEW n \in 1..(answer.sent - Len(sink.data)), OnBody(n)
    PROVE  TransferInv'
<1> DEFINE b == BodyOf(answer)
           k == Len(sink.data)
<1>1. /\ pc = "response" /\ answer # NoAnswer
      /\ sink' = [sink EXCEPT !.data = sink.data \o SubSeq(b, Len(sink.data) + 1, Len(sink.data) + n)]
      /\ UNCHANGED <<request, pc, packed, buffer, ret, inflated, source, server, answer, result>>
  BY DEF OnBody, zlib
<1>2. /\ Kinds /\ sink.data \in Seq(Int) /\ k \in Nat /\ sink \in SinkType
      /\ answer.sent \in Nat /\ n \in Nat /\ k + n <= answer.sent
  BY KindFacts, AnswerFacts DEF TransferInv, Kinds, SinkType
<1>3. b \in Seq(Int) /\ Len(b) = answer.sent
  BY <1>2, BytesFacts, CompressedFacts DEF BodyOf
<1>4. SubSeq(b, 1, k) = sink.data
  <2>1. k \in 0..answer.sent
    BY <1>2
  <2>2. CASE answer.encoding \in Encodings
    BY <1>2, <2>1, <2>2, Beginnings DEF TransferInv, Sunk, BodyOf
  <2>3. CASE answer.encoding \notin Encodings
    BY <1>2, <2>1, <2>3, Beginnings DEF TransferInv, Sunk, BodyOf
  <2> QED BY <2>2, <2>3
<1>5. /\ sink.data \o SubSeq(b, k + 1, k + n) = SubSeq(b, 1, k + n)
      /\ SubSeq(b, 1, k + n) \in Seq(Int) /\ Len(SubSeq(b, 1, k + n)) = k + n
  <2>1. PICK s \in Seq(Int), m \in Nat, c \in Nat : s = b /\ m = k /\ c = n
    BY <1>2, <1>3
  <2>2. m + c <= Len(s)
    BY <1>2, <1>3, <2>1
  <2>3. /\ SubSeq(s, 1, m) \o SubSeq(s, m + 1, m + c) = SubSeq(s, 1, m + c)
        /\ SubSeq(s, 1, m + c) \in Seq(Int) /\ Len(SubSeq(s, 1, m + c)) = m + c
    BY <2>2, NextPiece
  <2> QED BY <1>4, <2>1, <2>3
<1>6. /\ sink' \in SinkType /\ sink'.data = SubSeq(b, 1, k + n)
      /\ sink'.compression = sink.compression
  <2> DEFINE d == sink.data \o SubSeq(b, k + 1, k + n)
  <2>1. d \in Seq(Int) /\ sink' = [sink EXCEPT !.data = d]
    BY <1>1, <1>5
  <2> HIDE DEF d
  <2>2. sink' \in SinkType /\ sink'.data = d /\ sink'.compression = sink.compression
    BY <1>2, <2>1 DEF SinkType
  <2> QED BY <1>5, <2>2 DEF d
<1>7. Len(sink'.data) = k + n
  BY <1>5, <1>6
<1>8. Sunk'
  <2>1. k + n \in 0..answer.sent
    BY <1>2
  <2>2. CASE answer.encoding \in Encodings
    <3>1. sink'.data = Compressed(k + n)
      BY <1>2, <1>6, <2>1, <2>2, Beginnings DEF BodyOf
    <3> QED BY <1>1, <1>2, <1>6, <1>7, <2>2, <3>1 DEF TransferInv, Sunk
  <2>3. CASE answer.encoding \notin Encodings
    <3>1. sink'.data = Bytes(k + n)
      BY <1>2, <1>6, <2>1, <2>3, Beginnings DEF BodyOf
    <3> QED BY <1>1, <1>2, <1>6, <1>7, <2>3, <3>1 DEF TransferInv, Sunk
  <2> QED BY <2>2, <2>3
<1>9. Kinds'
  BY <1>1, <1>2, <1>6 DEF Kinds, SinkType
<1>10. Sending' /\ Decoding'
  BY <1>1, KeepsSending DEF Decoding
<1> QED BY <1>8, <1>9, <1>10 DEF TransferInv

LEMMA CompleteRequestStep ==
    ASSUME TransferInv, NEW error, CompleteRequest(error) PROVE TransferInv'
<1>1. /\ ec' = error /\ pc' = "decode"
      /\ error = "none" => answer # NoAnswer /\ Len(sink.data) = answer.sent
      /\ UNCHANGED <<request, packed, buffer, ret, inflated, source, server, answer, sink, result>>
  BY DEF CompleteRequest, zlib, incoming
<1>2. Kinds'
  BY <1>1 DEF TransferInv, Kinds, Control
<1>3. Sunk'
  BY <1>1, KeepsSink DEF incoming
<1>4. Sending' /\ Decoding'
  BY <1>1 DEF Sending, Decoding
<1> QED BY <1>2, <1>3, <1>4 DEF TransferInv

LEMMA WrongFacts ==
    ASSUME NEW n \in Nat
    PROVE  Wrong(n) \in Seq(Int)
  BY DEF Wrong

\* What zlib may make of the sink is a sequence, and of intact bytes it is the
\* beginning of the body that they stand for.
LEMMA DecodingsFacts ==
    ASSUME Kinds, Sunk, answer.encoding \in Encodings, NEW d \in Decodings
    PROVE  d \in Seq(Int) /\ (answer.intact => d = Bytes(Inflatable))
<1>1. Inflatable \in Nat /\ MaxWrong \in Nat
  <2>1. answer.size \in Nat
    BY AnswerFacts
  <2> QED BY <2>1, InflatableFacts, TransferConstants
<1>2. CASE answer.intact
  BY <1>1, <1>2, BytesFacts DEF Decodings
<1>3. CASE ~answer.intact
  <2>1. PICK n \in 0..Inflatable, k \in 0..MaxWrong : d = Bytes(n) \o Wrong(k)
    BY <1>3 DEF Decodings
  <2>2. n \in Nat /\ k \in Nat
    BY <1>1
  <2>3. Bytes(n) \in Seq(Int) /\ Wrong(k) \in Seq(Int)
    BY <2>2, BytesFacts, WrongFacts
  <2> QED BY <1>3, <2>1, <2>3, ConcatProperties
<1> QED BY <1>2, <1>3

LEMMA GetDataStep == ASSUME TransferInv, GetData PROVE TransferInv'
<1>1. /\ pc = "decode" /\ buffer' = <<>> /\ ret' = "Z_OK"
      /\ UNCHANGED <<request, packed, source, server, answer, sink, ec>>
  BY DEF GetData, incoming
<1>2. /\ Kinds /\ Sunk /\ sink.data \in Seq(Int) /\ Len(sink.data) \in Nat
      /\ {answer.size, answer.packed, answer.sent} \subseteq Nat /\ answer.sent <= answer.packed
  BY KindFacts, AnswerFacts DEF TransferInv
<1>3. Len(sink.data) <= answer.sent
  BY <1>2 DEF Sunk
<1>4. /\ \/ sink.compression = "none" /\ result' = sink.data /\ pc' = "completed"
         \/ sink.compression = "gzip" /\ result' = result /\ pc' = "gunzip"
         \/ /\ sink.compression = "deflate" /\ result' = <<>>
            /\ pc' = IF sink.data = <<>> THEN "completed" ELSE "uncompress"
      /\ inflated' \in IF sink.compression = "none" THEN {<<>>} ELSE Decodings
  BY DEF GetData
<1>5. /\ sink.compression = "none" => answer.encoding \notin Encodings
      /\ sink.compression # "none" => /\ answer.encoding \in Encodings
                                      /\ answer.encoding = sink.compression
  BY <1>2 DEF Sunk, Encodings
<1>6. /\ inflated' \in Seq(Int)
      /\ sink.compression # "none" /\ answer.intact => inflated' = Bytes(Inflatable)
  <2>1. CASE sink.compression = "none"
    BY <1>4, <2>1, Nothing
  <2>2. CASE sink.compression # "none"
    BY <1>2, <1>4, <1>5, <2>2, DecodingsFacts
  <2> QED BY <2>1, <2>2
<1>7. Kinds'
  <2>1. result' \in Seq(Int) /\ pc' \in Control
    BY <1>2, <1>4, Nothing DEF Kinds, Control
  <2> QED BY <1>1, <1>2, <1>6, <2>1, Nothing DEF Kinds, Codes
<1>8. Sunk'
  BY <1>1, <1>4, KeepsSink DEF incoming
<1>9. Sending'
  BY <1>4 DEF Sending
<1>10. ec = "none" => answer # NoAnswer /\ Len(sink.data) = answer.sent
  BY <1>1 DEF TransferInv, Decoding
<1>11. Inflatable' = Inflatable
  BY <1>1 DEF Inflatable
<1>12. Decoding'
  <2>1. CASE sink.compression = "none" /\ result' = sink.data /\ pc' = "completed"
    <3>1. answer.encoding \notin Encodings /\ sink.data = Bytes(Len(sink.data))
      BY <1>2, <2>1 DEF Sunk, Encodings
    <3>2. answer.size = answer.packed /\ answer.encoding # "deflate"
      BY <1>2, <3>1, AnswerFacts DEF Encodings
    <3>3. Len(sink.data) <= answer.size
      BY <1>2, <1>3, <3>2
    <3>4. Delivered'
      BY <1>1, <1>10, <2>1, <3>1, <3>2, <3>3 DEF Delivered
    <3> QED BY <1>1, <1>10, <2>1, <3>4 DEF Decoding
  <2>2. CASE sink.compression = "gzip" /\ pc' = "gunzip"
    BY <1>1, <1>5, <1>6, <1>10, <1>11, <2>2 DEF Decoding
  <2>3. CASE sink.compression = "deflate" /\ result' = <<>> /\ pc' = "uncompress"
    BY <1>1, <1>5, <1>6, <1>10, <1>11, <2>3 DEF Decoding
  <2>4. CASE /\ sink.compression = "deflate" /\ result' = <<>> /\ pc' = "completed"
             /\ sink.data = <<>>
    <3>1. answer.packed > 0
      BY <1>2, <1>5, <2>4, AnswerFacts
    <3>2. ~(ec = "none" /\ answer.sent = answer.packed)
      BY <1>2, <1>10, <2>4, <3>1, Nothing
    <3>3. Len(result') = 0 /\ result' = Bytes(Len(result'))
      BY <2>4, Nothing, NoBytes
    <3>4. Len(result') <= answer.size
      BY <1>2, <3>3
    <3>5. Delivered'
      BY <1>1, <2>4, <3>2, <3>3, <3>4 DEF Delivered
    <3> QED BY <1>1, <1>10, <2>4, <3>5 DEF Decoding
  <2> QED BY <1>4, <2>1, <2>2, <2>3, <2>4
<1> QED BY <1>7, <1>8, <1>9, <1>12 DEF TransferInv

\* What zlib has made of intact bytes once it has come to their end.
LEMMA AllInflated ==
    ASSUME TransferInv, pc \in {"gunzip", "uncompress"}, answer.intact
    PROVE  /\ inflated = Bytes(Len(inflated)) /\ Len(inflated) <= answer.size
           /\ Len(sink.data) = answer.packed => inflated = Bytes(answer.size)
<1>1. Kinds /\ Sunk /\ answer.encoding \in Encodings /\ inflated = Bytes(Inflatable)
  BY DEF TransferInv, Decoding
<1>2. /\ answer.size \in Nat /\ Inflatable \in 0..answer.size
      /\ Len(sink.data) = answer.packed => Inflatable = answer.size
  BY <1>1, AnswerFacts, InflatableFacts
<1>3. Inflatable \in Nat /\ Inflatable <= answer.size
  BY <1>2
<1>4. Len(inflated) = Inflatable
  BY <1>1, <1>3, BytesFacts
<1> QED BY <1>1, <1>2, <1>3, <1>4

LEMMA InflateStep == ASSUME TransferInv, Inflate PROVE TransferInv'
<1> DEFINE out == Smaller(Len(buffer) + OutBuffer, Len(inflated))
<1>1. pc = "gunzip" /\ UNCHANGED <<request, packed, inflated, source, server, answer, sink, ec>>
  BY DEF Inflate, incoming
<1>2. Kinds /\ Sunk /\ Len(buffer) \in Nat /\ inflated \in Seq(Int) /\ Len(inflated) \in Nat
  <2>1. Kinds /\ Sunk /\ Len(buffer) \in Nat /\ inflated \in Seq(Int)
    BY KindFacts DEF TransferInv, Kinds
  <2> QED BY <2>1, LenProperties
<1>3. /\ answer.encoding \in Encodings /\ answer.encoding = "gzip"
      /\ answer.intact => inflated = Bytes(Inflatable)
      /\ ec = "none" => answer # NoAnswer /\ Len(sink.data) = answer.sent
  BY <1>1 DEF TransferInv, Decoding
<1>4. Inflatable' = Inflatable
  BY <1>1 DEF Inflatable
<1>5. out \in Nat /\ out <= Len(inflated)
  <2>1. OutBuffer \in Nat
    BY TransferConstants
  <2>2. Len(buffer) \in Nat
    BY <1>2
  <2>3. Len(buffer) + OutBuffer \in Nat
    BY <2>1, <2>2
  <2> QED BY <1>2, <2>3, SmallerFacts
<1>6. /\ buffer' = SubSeq(inflated, 1, out) /\ ret' \in Codes
      /\ out < Len(inflated) => ret' = "Z_OK"
      /\ pc' = (IF ret' = "Z_OK" THEN "gunzip" ELSE "completed")
      /\ result' = IF ret' = "Z_OK" THEN result ELSE buffer'
  BY DEF Inflate, Again, Codes
<1> HIDE DEF out
<1>7. buffer' \in Seq(Int)
  <2>1. \A i \in 1..out : inflated[i] \in Int
    BY <1>2, <1>5, ElementOfSeq
  <2>2. SubSeq(inflated, 1, out) = [i \in 1..out |-> inflated[i]]
    BY <1>2, <1>5
  <2> QED BY <1>5, <1>6, <2>1, <2>2
<1>8. Kinds'
  BY <1>1, <1>2, <1>6, <1>7 DEF Kinds, Control
<1>9. Sunk'
  BY <1>1, <1>6, KeepsSink DEF incoming
<1>10. Sending'
  BY <1>6 DEF Sending
<1>11. Decoding'
  <2>1. CASE ret' = "Z_OK"
    BY <1>1, <1>3, <1>4, <1>6, <2>1 DEF Decoding
  <2>2. CASE ret' # "Z_OK"
    <3>1. out = Len(inflated)
      BY <1>2, <1>5, <1>6, <2>2
    <3>2. result' = inflated
      BY <1>2, <1>6, <2>2, <3>1, SubSeqFull
    <3>3. answer.intact => /\ Len(result') <= answer.size /\ result' = Bytes(Len(result'))
                           /\ Len(sink.data) = answer.packed => result' = Bytes(answer.size)
      BY <1>1, <3>2, AllInflated
    <3>4. Delivered'
      BY <1>1, <1>3, <3>3 DEF Delivered
    <3> QED BY <1>1, <1>3, <1>6, <2>2, <3>4 DEF Decoding
  <2> QED BY <2>1, <2>2
<1> QED BY <1>8, <1>9, <1>10, <1>11 DEF TransferInv

LEMMA UncompressStep == ASSUME TransferInv, Uncompress PROVE TransferInv'
<1>1. /\ pc = "uncompress"
      /\ UNCHANGED <<request, packed, buffer, inflated, source, server, answer, sink, ec>>
  BY DEF Uncompress, incoming
<1>2. /\ Kinds /\ Sunk /\ {answer.size, answer.packed, answer.sent} \subseteq Nat
      /\ inflated \in Seq(Int)
  BY KindFacts, AnswerFacts DEF TransferInv, Kinds
<1>3. /\ answer.encoding \in Encodings
      /\ answer.intact => inflated = Bytes(Inflatable)
      /\ ec = "none" => answer # NoAnswer /\ Len(sink.data) = answer.sent
  BY <1>1 DEF TransferInv, Decoding
<1>4. /\ ret' \in {"Z_OK", "Z_BUF_ERROR", "Z_DATA_ERROR"}
      /\ Whole => ret' # "Z_DATA_ERROR"
      /\ ret' = "Z_OK" => Whole
      /\ pc' = (IF ret' = "Z_BUF_ERROR" THEN "uncompress" ELSE "completed")
      /\ result' = IF ret' = "Z_OK" THEN inflated ELSE <<>>
  BY DEF Uncompress
<1>5. /\ result' \in Seq(Int) /\ result' = Bytes(Len(result')) /\ Len(result') <= answer.size
      /\ result' \in {<<>>, Bytes(answer.size)}
      /\ ret' = "Z_OK" => result' = Bytes(answer.size)
  <2>1. CASE ret' = "Z_OK"
    <3>1. result' = Bytes(answer.size)
      BY <1>1, <1>4, <2>1, AllInflated DEF Whole
    <3>2. answer.size \in Nat
      BY <1>2
    <3> QED BY <3>1, <3>2, BytesFacts
  <2>2. CASE ret' # "Z_OK"
    BY <1>2, <1>4, <2>2, Nothing, NoBytes
  <2> QED BY <2>1, <2>2
<1>6. Kinds'
  <2>1. pc' \in Control /\ ret' \in Codes
    BY <1>4 DEF Control, Codes
  <2> QED BY <1>1, <1>2, <1>5, <2>1 DEF Kinds
<1>7. Sunk'
  BY <1>1, <1>4, KeepsSink DEF incoming
<1>8. Sending'
  BY <1>4 DEF Sending
<1>9. Decoding'
  <2>1. pc' = "completed" /\ ec = "none" /\ answer.intact /\ answer.sent = answer.packed
            => result' = Bytes(answer.size)
    BY <1>3, <1>4, <1>5 DEF Whole
  <2>2. pc' = "completed" => Delivered'
    BY <1>1, <1>5, <2>1 DEF Delivered
  <2>3. Inflatable' = Inflatable
    BY <1>1 DEF Inflatable
  <2> QED BY <1>1, <1>3, <1>4, <2>2, <2>3 DEF Decoding
<1> QED BY <1>6, <1>7, <1>8, <1>9 DEF TransferInv

LEMMA CompletedStep == ASSUME TransferInv, Completed PROVE TransferInv'
<1>1. /\ pc = "completed" /\ pc' \in {"start", "done"}
      /\ UNCHANGED <<request, packed, buffer, ret, inflated, source, server, answer, sink, ec, result>>
  BY DEF Completed, zlib, incoming
<1>2. Kinds'
  BY <1>1 DEF TransferInv, Kinds, Control
<1>3. Sunk'
  BY <1>1, KeepsSink DEF incoming
<1>4. Sending' /\ Decoding'
  BY <1>1 DEF TransferInv, Sending, Decoding, Delivered
<1> QED BY <1>2, <1>3, <1>4 DEF TransferInv

(***************************************************************************)
(* The request body arrives, and the response body with the caller.         *)
(***************************************************************************)

LEMMA NextTransferInv == TransferInv /\ [Next]_vars => TransferInv'
<1> SUFFICES ASSUME TransferInv, [Next]_vars PROVE TransferInv'
  OBVIOUS
<1>1. CASE UNCHANGED vars
  BY <1>1 DEF TransferInv, Kinds, Sending, Chosen, Sunk, Decoding, Delivered, Inflatable,
              vars, zlib, incoming
<1>2. CASE Start
  BY <1>2, StartStep
<1>3. CASE Deflate
  BY <1>3, DeflateStep
<1>4. CASE Choose
  BY <1>4, ChooseStep
<1>5. CASE WriteHeaders
  BY <1>5, WriteHeadersStep
<1>6. CASE OnWrite
  BY <1>6, OnWriteStep
<1>7. CASE OnHeaders
  BY <1>7, OnHeadersStep
<1>8. CASE \E n \in 1..(answer.sent - Len(sink.data)) : OnBody(n)
  BY <1>8, OnBodyStep
<1>9. CASE \E error \in {"none", "eof", "timed_out"} : CompleteRequest(error)
  BY <1>9, CompleteRequestStep
<1>10. CASE GetData
  BY <1>10, GetDataStep
<1>11. CASE Inflate
  BY <1>11, InflateStep
<1>12. CASE Uncompress
  BY <1>12, UncompressStep
<1>13. CASE Completed
  BY <1>13, CompletedStep
<1> QED BY <1>1, <1>2, <1>3, <1>4, <1>5, <1>6, <1>7, <1>8, <1>9, <1>10, <1>11, <1>12, <1>13
        DEF Next

LEMMA TransferInvariant == Spec => []TransferInv
  BY InitTransferInv, NextTransferInv, PTL DEF Spec

\* For every body, compressed size, policy and block size, in every attempt: the
\* loop of on_write over read_callback has sent the whole body of the request,
\* each byte once and in order and of the length announced, when the response is
\* awaited; and compress_data_source has compressed it only as the policy says.
THEOREM BodyCorrect == Spec => []BodyReceived
<1>1. TransferInv => BodyReceived
  <2> SUFFICES ASSUME TransferInv, pc = "response" PROVE BodyReceived
    BY DEF BodyReceived
  <2>1. /\ Chosen /\ server.length = Len(source.data)
        /\ server.body = SubSeq(source.data, 1, Len(source.data))
    BY DEF TransferInv, Sending
  <2>2. source.data \in Seq(Int)
    BY KindFacts DEF TransferInv
  <2>3. server.body = source.data
    BY <2>1, <2>2, SubSeqFull
  <2> QED BY <2>1, <2>3 DEF BodyReceived, Chosen
<1> QED BY <1>1, TransferInvariant, PTL

\* For every answer, however its body is cut into pieces and whatever the size of
\* outbuffer: write_callback and the loops of decompress_gzip over inflate and of
\* decompress_deflate over uncompress give the caller the bytes that the answer
\* stands for, as soon as all of it arrived undamaged; a beginning of them if it is
\* cut; and with deflate nothing if it is cut or damaged.  What inflate writes of
\* damaged data before it fails may be wrong and is handed over.
THEOREM DecodedCorrect == Spec => []DecodedFaithfully
<1>1. TransferInv => DecodedFaithfully
  BY DEF TransferInv, Decoding, Delivered, DecodedFaithfully
<1> QED BY <1>1, TransferInvariant, PTL

(***************************************************************************)
(* The characters of a url.                                                 *)
(***************************************************************************)

LEMMA TextFacts ==
    ASSUME NEW s \in Text
    PROVE  /\ s \in Seq(Char) /\ Len(s) \in Nat /\ DOMAIN s = 1..Len(s)
           /\ s = <<>> <=> Len(s) = 0
<1>1. s \in Seq(Char) /\ Len(s) \in Nat /\ DOMAIN s = 1..Len(s)
  BY LenProperties DEF Text
<1> QED BY <1>1, EmptySeq

\* Where the characters of two strings in a row are.
LEMMA Joined ==
    ASSUME NEW s \in Text, NEW t \in Text
    PROVE  LET w == s \o t
           IN  /\ w \in Text /\ Len(w) = Len(s) + Len(t)
               /\ \A i \in 1..Len(s) : w[i] = s[i]
               /\ \A i \in 1..Len(t) : w[Len(s) + i] = t[i]
<1>1. s \in Seq(Char) /\ t \in Seq(Char) /\ Len(s) \in Nat /\ Len(t) \in Nat
  BY TextFacts
<1>2. /\ s \o t \in Seq(Char) /\ Len(s \o t) = Len(s) + Len(t)
      /\ \A i \in 1..(Len(s) + Len(t)) : (s \o t)[i] = IF i <= Len(s) THEN s[i] ELSE t[i - Len(s)]
  BY <1>1, ConcatProperties
<1>3. \A i \in 1..Len(s) : i \in 1..(Len(s) + Len(t)) /\ i <= Len(s)
  BY <1>1
<1>4. \A i \in 1..Len(t) : /\ Len(s) + i \in 1..(Len(s) + Len(t)) /\ ~(Len(s) + i <= Len(s))
                           /\ (Len(s) + i) - Len(s) = i
  BY <1>1
<1> QED BY <1>2, <1>3, <1>4 DEF Text

\* And the characters of a part of one.
LEMMA Cut ==
    ASSUME NEW s \in Text, NEW m \in 0..Len(s), NEW n \in m..Len(s)
    PROVE  LET w == SubSeq(s, m + 1, n)
           IN  /\ w \in Text /\ Len(w) = n - m
               /\ \A i \in 1..(n - m) : w[i] = s[m + i]
<1>1. s \in Seq(Char) /\ Len(s) \in Nat /\ m \in Nat /\ n \in Nat /\ m <= n /\ n <= Len(s)
  BY TextFacts
<1>2. SubSeq(s, m + 1, n) = [i \in 1..(n - m) |-> s[m + i]]
  <2>1. \A i \in 1..(n - m) : i + (m + 1) - 1 = m + i
    BY <1>1
  <2> QED BY <1>1, <2>1
<1>3. \A i \in 1..(n - m) : m + i \in 1..Len(s)
  BY <1>1
<1>4. \A i \in 1..(n - m) : s[m + i] \in Char
  BY <1>1, <1>3, ElementOfSeq
<1>5. n - m \in Nat
  BY <1>1
<1> QED BY <1>2, <1>4, <1>5 DEF Text

\* Strings with the same characters are the same.
LEMMA SameText ==
    ASSUME NEW s \in Text, NEW t \in Text, Len(s) = Len(t), \A i \in 1..Len(s) : s[i] = t[i]
    PROVE  s = t
  BY TextFacts, SeqEqual

LEMMA BeforeIs ==
    ASSUME NEW s \in Text, NEW stops, NEW n \in 0..Len(s),
           \A k \in 1..n : s[k] \notin stops, n < Len(s) => s[n + 1] \in stops
    PROVE  Before(s, stops) = n
<1> DEFINE P(m) == /\ \A k \in 1..m : s[k] \notin stops
                   /\ m < Len(s) => s[m + 1] \in stops
<1>1. Len(s) \in Nat
  BY TextFacts
<1>2. P(n)
  OBVIOUS
<1>3. \A m \in 0..Len(s) : P(m) => m = n
  <2> SUFFICES ASSUME NEW m \in 0..Len(s), P(m), m # n PROVE FALSE
    OBVIOUS
  <2>1. CASE m < n
    <3>1. m + 1 \in 1..n /\ m < Len(s)
      BY <1>1, <2>1
    <3> QED BY <3>1
  <2>2. CASE n < m
    <3>1. n + 1 \in 1..m /\ n < Len(s)
      BY <1>1, <2>2
    <3> QED BY <3>1
  <2> QED BY <1>1, <2>1, <2>2
<1> HIDE DEF P
<1>4. (CHOOSE m \in 0..Len(s) : P(m)) = n
  BY <1>2, <1>3
<1> QED BY <1>4 DEF Before, P

LEMMA BeforeFacts ==
    ASSUME NEW s \in Text, NEW stops
    PROVE  LET n == Before(s, stops)
           IN  /\ n \in 0..Len(s) /\ \A k \in 1..n : s[k] \notin stops
               /\ n < Len(s) => s[n + 1] \in stops
<1> DEFINE T == {i \in 1..(Len(s) + 1) : i = Len(s) + 1 \/ s[i] \in stops}
<1>1. Len(s) \in Nat
  BY TextFacts
<1>2. T \subseteq Nat /\ Len(s) + 1 \in T
  BY <1>1
<1>3. PICK i \in T : \A j \in T : i <= j
  BY <1>2, Least
<1>4. i \in 1..(Len(s) + 1) /\ (i = Len(s) + 1 \/ s[i] \in stops)
  OBVIOUS
<1>5. PICK n \in 0..Len(s) : n + 1 = i
  <2>1. i - 1 \in 0..Len(s) /\ (i - 1) + 1 = i
    BY <1>1, <1>4
  <2> QED BY <2>1
<1>6. \A k \in 1..n : s[k] \notin stops
  <2> SUFFICES ASSUME NEW k \in 1..n, s[k] \in stops PROVE FALSE
    OBVIOUS
  <2>1. k \in 1..(Len(s) + 1) /\ ~(i <= k)
    BY <1>1, <1>5
  <2> QED BY <1>3, <2>1
<1>7. n < Len(s) => s[n + 1] \in stops
  BY <1>1, <1>4, <1>5
<1>8. Before(s, stops) = n
  BY <1>6, <1>7, BeforeIs
<1> QED BY <1>6, <1>7, <1>8

LEMMA Characters ==
    ASSUME NEW c
    PROVE  /\ IsDecimal(c) => c \notin {":", "/", "?"} /\ IsHostChar(c)
           /\ IsHostChar(c) => c \notin {":", "/", "?"}
<1>1. IsDecimal(c) => c \notin {":", "/", "?"}
  BY DEF IsDecimal, Decimals
<1>2. c \in HostWord => c \notin {":", "/", "?"}
  BY UrlConstants
<1> QED BY <1>1, <1>2 DEF IsHostChar

(***************************************************************************)
(* The four parts behind the protocol, and the expression that finds them.  *)
(***************************************************************************)

Fits(host, port, path, query) ==
    /\ {host, port, path, query} \subseteq Text
    /\ host # <<>> /\ \A i \in 1..Len(host) : IsHostChar(host[i])
    /\ port # <<>> =>
           Len(port) > 1 /\ port[1] = ":" /\ \A i \in 2..Len(port) : IsDecimal(port[i])
    /\ path # <<>> => path[1] = "/"
    /\ \A i \in 1..Len(path) : path[i] # "?"
    /\ query # <<>> => query[1] = "?"

\* Where the characters of the four parts are.
Placed(s, h, o, a, q) ==
    /\ s \in Text /\ Len(s) = Len(h) + Len(o) + Len(a) + Len(q)
    /\ \A i \in 1..Len(h) : s[i] = h[i]
    /\ \A i \in 1..Len(o) : s[Len(h) + i] = o[i]
    /\ \A i \in 1..Len(a) : s[Len(h) + Len(o) + i] = a[i]
    /\ \A i \in 1..Len(q) : s[Len(h) + Len(o) + Len(a) + i] = q[i]

LEMMA Places ==
    ASSUME NEW h \in Text, NEW o \in Text, NEW a \in Text, NEW q \in Text
    PROVE  Placed(h \o o \o a \o q, h, o, a, q)
<1>1. Len(h) \in Nat /\ Len(o) \in Nat /\ Len(a) \in Nat /\ Len(q) \in Nat
  BY TextFacts
<1>2. PICK x \in Text : /\ x = h \o o /\ Len(x) = Len(h) + Len(o)
                        /\ \A i \in 1..Len(h) : x[i] = h[i]
                        /\ \A i \in 1..Len(o) : x[Len(h) + i] = o[i]
  <2>1. /\ h \o o \in Text /\ Len(h \o o) = Len(h) + Len(o)
        /\ \A i \in 1..Len(h) : (h \o o)[i] = h[i]
        /\ \A i \in 1..Len(o) : (h \o o)[Len(h) + i] = o[i]
    BY Joined
  <2> QED BY <2>1, Zenon
<1>3. PICK y \in Text : /\ y = x \o a /\ Len(y) = Len(x) + Len(a)
                        /\ \A i \in 1..Len(x) : y[i] = x[i]
                        /\ \A i \in 1..Len(a) : y[Len(x) + i] = a[i]
  <2>1. /\ x \o a \in Text /\ Len(x \o a) = Len(x) + Len(a)
        /\ \A i \in 1..Len(x) : (x \o a)[i] = x[i]
        /\ \A i \in 1..Len(a) : (x \o a)[Len(x) + i] = a[i]
    BY Joined
  <2> QED BY <2>1, Zenon
<1>4. PICK z \in Text : /\ z = y \o q /\ Len(z) = Len(y) + Len(q)
                        /\ \A i \in 1..Len(y) : z[i] = y[i]
                        /\ \A i \in 1..Len(q) : z[Len(y) + i] = q[i]
  <2>1. /\ y \o q \in Text /\ Len(y \o q) = Len(y) + Len(q)
        /\ \A i \in 1..Len(y) : (y \o q)[i] = y[i]
        /\ \A i \in 1..Len(q) : (y \o q)[Len(y) + i] = q[i]
    BY Joined
  <2> QED BY <2>1, Zenon
<1>5. \A i \in 1..Len(h) : z[i] = h[i]
  BY <1>1, <1>2, <1>3, <1>4
<1>6. \A i \in 1..Len(o) : z[Len(h) + i] = o[i]
  <2> SUFFICES ASSUME NEW i \in 1..Len(o) PROVE z[Len(h) + i] = o[i]
    OBVIOUS
  <2>1. Len(h) + i \in 1..Len(x) /\ Len(h) + i \in 1..Len(y)
    BY <1>1, <1>2, <1>3
  <2> QED BY <1>2, <1>3, <1>4, <2>1
<1>7. \A i \in 1..Len(a) : z[Len(h) + Len(o) + i] = a[i]
  <2> SUFFICES ASSUME NEW i \in 1..Len(a) PROVE z[Len(h) + Len(o) + i] = a[i]
    OBVIOUS
  <2>1. Len(x) + i \in 1..Len(y) /\ Len(h) + Len(o) + i = Len(x) + i
    BY <1>1, <1>2, <1>3
  <2> QED BY <1>3, <1>4, <2>1
<1>8. Len(y) = Len(h) + Len(o) + Len(a)
  BY <1>1, <1>2, <1>3
<1>9. Placed(z, h, o, a, q)
  BY <1>4, <1>5, <1>6, <1>7, <1>8 DEF Placed
<1> QED BY <1>2, <1>3, <1>4, <1>9

LEMMA Ends ==
    ASSUME NEW h, NEW o, NEW a, NEW q, Fits(h, o, a, q)
    PROVE  LET s == h \o o \o a \o q
           IN  /\ s \in Text /\ Len(s) = Len(h) + Len(o) + Len(a) + Len(q) /\ Len(h) > 0
               /\ Before(s, {":", "/", "?"}) = Len(h)
               /\ Before(s, {"/", "?"}) = Len(h) + Len(o)
               /\ Before(s, {"?"}) = Len(h) + Len(o) + Len(a)
<1>1. /\ h \in Text /\ o \in Text /\ a \in Text /\ q \in Text
      /\ Len(h) \in Nat /\ Len(o) \in Nat /\ Len(a) \in Nat /\ Len(q) \in Nat /\ Len(h) > 0
  BY TextFacts DEF Fits
<1>2. PICK s \in Text : s = h \o o \o a \o q /\ Placed(s, h, o, a, q)
  <2>1. Placed(h \o o \o a \o q, h, o, a, q)
    BY <1>1, Places
  <2>2. h \o o \o a \o q \in Text
    BY <2>1 DEF Placed
  <2> QED BY <2>1, <2>2
<1>3. /\ Len(s) = Len(h) + Len(o) + Len(a) + Len(q)
      /\ \A i \in 1..Len(h) : s[i] = h[i]
      /\ \A i \in 1..Len(o) : s[Len(h) + i] = o[i]
      /\ \A i \in 1..Len(a) : s[Len(h) + Len(o) + i] = a[i]
      /\ \A i \in 1..Len(q) : s[Len(h) + Len(o) + Len(a) + i] = q[i]
  BY <1>2 DEF Placed
<1>4. /\ \A i \in 1..Len(h) : h[i] \notin {":", "/", "?"}
      /\ \A i \in 1..Len(o) : o[i] \notin {"/", "?"}
      /\ \A i \in 1..Len(a) : a[i] # "?"
      /\ Len(o) > 0 => o[1] = ":"
      /\ Len(a) > 0 => a[1] = "/"
      /\ Len(q) > 0 => q[1] = "?"
  <2>1. \A i \in 1..Len(h) : h[i] \notin {":", "/", "?"}
    BY Characters DEF Fits
  <2>2. (Len(o) > 0 => o # <<>>) /\ (Len(a) > 0 => a # <<>>) /\ (Len(q) > 0 => q # <<>>)
    BY <1>1, TextFacts
  <2>3. \A i \in 1..Len(o) : o[i] \notin {"/", "?"}
    <3> SUFFICES ASSUME NEW i \in 1..Len(o) PROVE o[i] \notin {"/", "?"}
      OBVIOUS
    <3>1. o[1] = ":" /\ \A j \in 2..Len(o) : IsDecimal(o[j])
      BY <1>1, <2>2 DEF Fits
    <3>2. i = 1 \/ i \in 2..Len(o)
      BY <1>1
    <3> QED BY <3>1, <3>2, Characters
  <2> QED BY <2>1, <2>2, <2>3 DEF Fits
<1>5. /\ \A k \in 1..Len(h) : s[k] \notin {":", "/", "?"}
      /\ \A k \in (Len(h) + 1)..(Len(h) + Len(o)) : s[k] \notin {"/", "?"}
      /\ \A k \in (Len(h) + Len(o) + 1)..(Len(h) + Len(o) + Len(a)) : s[k] # "?"
  <2>1. ASSUME NEW k \in (Len(h) + 1)..(Len(h) + Len(o)) PROVE s[k] \notin {"/", "?"}
    <3>1. k - Len(h) \in 1..Len(o) /\ Len(h) + (k - Len(h)) = k
      BY <1>1
    <3>2. PICK j \in 1..Len(o) : k = Len(h) + j
      BY <3>1
    <3>3. s[Len(h) + j] = o[j]
      BY <1>3, Zenon
    <3>4. o[j] \notin {"/", "?"}
      BY <1>4
    <3> QED BY <3>2, <3>3, <3>4
  <2>2. ASSUME NEW k \in (Len(h) + Len(o) + 1)..(Len(h) + Len(o) + Len(a)) PROVE s[k] # "?"
    <3>1. k - Len(h) - Len(o) \in 1..Len(a) /\ Len(h) + Len(o) + (k - Len(h) - Len(o)) = k
      BY <1>1
    <3>2. PICK j \in 1..Len(a) : k = Len(h) + Len(o) + j
      BY <3>1
    <3>3. s[Len(h) + Len(o) + j] = a[j]
      BY <1>3, Zenon
    <3>4. a[j] # "?"
      BY <1>4
    <3> QED BY <3>2, <3>3, <3>4
  <2>3. \A k \in 1..Len(h) : s[k] \notin {":", "/", "?"}
    BY <1>3, <1>4
  <2> QED BY <2>1, <2>2, <2>3
<1>6. /\ Len(o) > 0 => s[Len(h) + 1] = ":"
      /\ Len(a) > 0 => s[Len(h) + Len(o) + 1] = "/"
      /\ Len(q) > 0 => s[Len(h) + Len(o) + Len(a) + 1] = "?"
  <2>1. (Len(o) > 0 => 1 \in 1..Len(o)) /\ (Len(a) > 0 => 1 \in 1..Len(a)) /\ (Len(q) > 0 => 1 \in 1..Len(q))
    BY <1>1
  <2>2. /\ Len(o) > 0 => s[Len(h) + 1] = o[1]
        /\ Len(a) > 0 => s[Len(h) + Len(o) + 1] = a[1]
        /\ Len(q) > 0 => s[Len(h) + Len(o) + Len(a) + 1] = q[1]
    BY <1>3, <2>1, Zenon
  <2> QED BY <1>4, <2>2
<1>7. Before(s, {"?"}) = Len(h) + Len(o) + Len(a)
  <2> DEFINE n == Len(h) + Len(o) + Len(a)
  <2>1. n \in 0..Len(s) /\ (n < Len(s) => Len(q) > 0)
    BY <1>1, <1>3
  <2>2. \A k \in 1..n : s[k] \notin {"?"}
    <3> SUFFICES ASSUME NEW k \in 1..n PROVE s[k] \notin {"?"}
      OBVIOUS
    <3>1. \/ k \in 1..Len(h) \/ k \in (Len(h) + 1)..(Len(h) + Len(o))
          \/ k \in (Len(h) + Len(o) + 1)..(Len(h) + Len(o) + Len(a))
      BY <1>1
    <3> QED BY <1>5, <3>1
  <2>3. n < Len(s) => s[n + 1] \in {"?"}
    BY <1>6, <2>1
  <2> HIDE DEF n
  <2>4. Before(s, {"?"}) = n
    BY <2>1, <2>2, <2>3, BeforeIs
  <2> QED BY <2>4 DEF n
<1>8. Before(s, {"/", "?"}) = Len(h) + Len(o)
  <2> DEFINE n == Len(h) + Len(o)
  <2>1. n \in 0..Len(s) /\ (n < Len(s) => Len(a) > 0 \/ (Len(a) = 0 /\ Len(q) > 0))
    BY <1>1, <1>3
  <2>2. \A k \in 1..n : s[k] \notin {"/", "?"}
    <3> SUFFICES ASSUME NEW k \in 1..n PROVE s[k] \notin {"/", "?"}
      OBVIOUS
    <3>1. k \in 1..Len(h) \/ k \in (Len(h) + 1)..(Len(h) + Len(o))
      BY <1>1
    <3> QED BY <1>5, <3>1
  <2>3. n < Len(s) => s[n + 1] \in {"/", "?"}
    <3>1. Len(a) = 0 => Len(h) + Len(o) + Len(a) + 1 = n + 1
      BY <1>1
    <3> QED BY <1>6, <2>1, <3>1
  <2> HIDE DEF n
  <2>4. Before(s, {"/", "?"}) = n
    BY <2>1, <2>2, <2>3, BeforeIs
  <2> QED BY <2>4 DEF n
<1>9. Before(s, {":", "/", "?"}) = Len(h)
  <2> DEFINE n == Len(h)
  <2>1. /\ n \in 0..Len(s)
        /\ n < Len(s) => \/ Len(o) > 0 \/ (Len(o) = 0 /\ Len(a) > 0)
                         \/ (Len(o) = 0 /\ Len(a) = 0 /\ Len(q) > 0)
    BY <1>1, <1>3
  <2>2. \A k \in 1..n : s[k] \notin {":", "/", "?"}
    BY <1>5
  <2>3. n < Len(s) => s[n + 1] \in {":", "/", "?"}
    <3>1. /\ Len(o) = 0 => Len(h) + Len(o) + 1 = n + 1
          /\ Len(o) = 0 /\ Len(a) = 0 => Len(h) + Len(o) + Len(a) + 1 = n + 1
      BY <1>1
    <3> QED BY <1>6, <2>1, <3>1
  <2> HIDE DEF n
  <2>4. Before(s, {":", "/", "?"}) = n
    BY <2>1, <2>2, <2>3, BeforeIs
  <2> QED BY <2>4 DEF n
<1> QED BY <1>1, <1>2, <1>3, <1>7, <1>8, <1>9

\* The expression finds the four parts of a string that consists of them.
LEMMA Recognized ==
    ASSUME NEW h, NEW o, NEW a, NEW q, Fits(h, o, a, q)
    PROVE  LET s == h \o o \o a \o q
           IN  /\ s \in Text /\ Matches[s]
               /\ HostPart(s) = h /\ PortPart(s) = o /\ PathPart(s) = a /\ QueryPart(s) = q
<1>1. /\ h \in Text /\ o \in Text /\ a \in Text /\ q \in Text
      /\ Len(h) \in Nat /\ Len(o) \in Nat /\ Len(a) \in Nat /\ Len(q) \in Nat
  BY TextFacts DEF Fits
<1>2. PICK s \in Text : s = h \o o \o a \o q /\ Placed(s, h, o, a, q)
  <2>1. Placed(h \o o \o a \o q, h, o, a, q)
    BY <1>1, Places
  <2>2. h \o o \o a \o q \in Text
    BY <2>1 DEF Placed
  <2> QED BY <2>1, <2>2
<1>3. /\ Len(s) = Len(h) + Len(o) + Len(a) + Len(q) /\ Len(h) > 0
      /\ Before(s, {":", "/", "?"}) = Len(h)
      /\ Before(s, {"/", "?"}) = Len(h) + Len(o)
      /\ Before(s, {"?"}) = Len(h) + Len(o) + Len(a)
  BY <1>2, Ends
<1>4. HostPart(s) = h
  <2>1. 0 \in 0..Len(s) /\ Len(h) \in 0..Len(s) /\ Len(h) - 0 = Len(h) /\ 0 + 1 = 1
        /\ \A i \in 1..Len(h) : 0 + i = i
    BY <1>1, <1>3
  <2>2. PICK w \in Text : /\ w = SubSeq(s, 0 + 1, Len(h)) /\ Len(w) = Len(h) - 0
                          /\ \A i \in 1..(Len(h) - 0) : w[i] = s[0 + i]
    BY <2>1, Cut
  <2>3. \A i \in 1..Len(h) : w[i] = h[i]
    BY <1>2, <2>1, <2>2 DEF Placed
  <2>4. w = h
    BY <1>1, <2>1, <2>2, <2>3, SameText
  <2> QED BY <1>3, <2>1, <2>2, <2>4 DEF HostPart
<1>5. PortPart(s) = o
  <2> DEFINE m == Len(h)
             n == Len(h) + Len(o)
  <2>1. m \in 0..Len(s) /\ n \in m..Len(s) /\ n - m = Len(o)
    BY <1>1, <1>3
  <2>2. /\ SubSeq(s, m + 1, n) \in Text /\ Len(SubSeq(s, m + 1, n)) = n - m
        /\ \A i \in 1..(n - m) : SubSeq(s, m + 1, n)[i] = s[m + i]
    <3> HIDE DEF m, n
    <3> QED BY <2>1, Cut
  <2>3. \A i \in 1..Len(o) : SubSeq(s, m + 1, n)[i] = o[i]
    BY <1>2, <2>1, <2>2 DEF Placed
  <2>4. SubSeq(s, m + 1, n) = o
    BY <1>1, <2>1, <2>2, <2>3, SameText
  <2> QED BY <1>3, <2>4 DEF PortPart
<1>6. PathPart(s) = a
  <2> DEFINE m == Len(h) + Len(o)
             n == Len(h) + Len(o) + Len(a)
  <2>1. m \in 0..Len(s) /\ n \in m..Len(s) /\ n - m = Len(a)
    BY <1>1, <1>3
  <2>2. /\ SubSeq(s, m + 1, n) \in Text /\ Len(SubSeq(s, m + 1, n)) = n - m
        /\ \A i \in 1..(n - m) : SubSeq(s, m + 1, n)[i] = s[m + i]
    <3> HIDE DEF m, n
    <3> QED BY <2>1, Cut
  <2>3. \A i \in 1..Len(a) : SubSeq(s, m + 1, n)[i] = a[i]
    BY <1>2, <2>1, <2>2 DEF Placed
  <2>4. SubSeq(s, m + 1, n) = a
    BY <1>1, <2>1, <2>2, <2>3, SameText
  <2> QED BY <1>3, <2>4 DEF PathPart
<1>7. QueryPart(s) = q
  <2> DEFINE m == Len(h) + Len(o) + Len(a)
             n == Len(s)
  <2>1. m \in 0..Len(s) /\ n \in m..Len(s) /\ n - m = Len(q)
    BY <1>1, <1>3
  <2>2. /\ SubSeq(s, m + 1, n) \in Text /\ Len(SubSeq(s, m + 1, n)) = n - m
        /\ \A i \in 1..(n - m) : SubSeq(s, m + 1, n)[i] = s[m + i]
    <3> HIDE DEF m, n
    <3> QED BY <2>1, Cut
  <2>3. \A i \in 1..Len(q) : SubSeq(s, m + 1, n)[i] = q[i]
    BY <1>2, <2>1, <2>2 DEF Placed
  <2>4. SubSeq(s, m + 1, n) = q
    BY <1>1, <2>1, <2>2, <2>3, SameText
  <2> QED BY <1>3, <2>4 DEF QueryPart
<1>8. Matches[s]
  <2>1. Matches[s] = (/\ Before(s, {":", "/", "?"}) > 0
                      /\ \A i \in DOMAIN HostPart(s) : IsHostChar(s[i])
                      /\ PortPart(s) # <<>> =>
                             /\ Len(PortPart(s)) > 1
                             /\ \A i \in DOMAIN Tail(PortPart(s)) : IsDecimal(Tail(PortPart(s))[i]))
    BY DEF Matches
  <2>2. \A i \in DOMAIN HostPart(s) : IsHostChar(s[i])
    <3>1. DOMAIN h = 1..Len(h)
      BY <1>1, TextFacts
    <3> QED BY <1>2, <1>4, <3>1 DEF Fits, Placed
  <2>3. o # <<>> => Len(o) > 1 /\ \A i \in DOMAIN Tail(o) : IsDecimal(Tail(o)[i])
    <3> SUFFICES ASSUME o # <<>> PROVE Len(o) > 1 /\ \A i \in DOMAIN Tail(o) : IsDecimal(Tail(o)[i])
      OBVIOUS
    <3>1. Len(o) > 1 /\ \A i \in 2..Len(o) : IsDecimal(o[i])
      BY DEF Fits
    <3>2. /\ Tail(o) \in Seq(Char) /\ Len(Tail(o)) = Len(o) - 1
          /\ \A i \in 1..Len(Tail(o)) : Tail(o)[i] = o[i + 1]
      <4>1. o \in Seq(Char)
        BY <1>1, TextFacts
      <4> QED BY <4>1, HeadTailProperties
    <3>3. \A i \in 1..Len(Tail(o)) : i + 1 \in 2..Len(o)
      BY <1>1, <3>2
    <3>4. DOMAIN Tail(o) = 1..Len(Tail(o))
      BY <3>2, LenProperties
    <3> QED BY <3>1, <3>2, <3>3, <3>4
  <2> QED BY <1>3, <1>5, <2>1, <2>2, <2>3
<1> QED BY <1>2, <1>4, <1>5, <1>6, <1>7, <1>8

\* And what it finds are four such parts, of which the string consists.
LEMMA Recognizes ==
    ASSUME NEW s \in Text, Matches[s]
    PROVE  /\ Fits(HostPart(s), PortPart(s), PathPart(s), QueryPart(s))
           /\ s = HostPart(s) \o PortPart(s) \o PathPart(s) \o QueryPart(s)
<1> DEFINE m == Before(s, {":", "/", "?"})
           n == Before(s, {"/", "?"})
           k == Before(s, {"?"})
           h == HostPart(s)
           o == PortPart(s)
           a == PathPart(s)
           q == QueryPart(s)
<1>1. s \in Seq(Char) /\ Len(s) \in Nat
  BY TextFacts
<1>2. /\ m \in 0..Len(s) /\ \A i \in 1..m : s[i] \notin {":", "/", "?"}
      /\ m < Len(s) => s[m + 1] \in {":", "/", "?"}
  BY BeforeFacts
<1>3. /\ n \in 0..Len(s) /\ \A i \in 1..n : s[i] \notin {"/", "?"}
      /\ n < Len(s) => s[n + 1] \in {"/", "?"}
  BY BeforeFacts
<1>4. /\ k \in 0..Len(s) /\ \A i \in 1..k : s[i] \notin {"?"}
      /\ k < Len(s) => s[k + 1] \in {"?"}
  BY BeforeFacts
<1>5. h = SubSeq(s, 1, m) /\ o = SubSeq(s, m + 1, n) /\ a = SubSeq(s, n + 1, k) /\ q = SubSeq(s, k + 1, Len(s))
  BY DEF HostPart, PortPart, PathPart, QueryPart
<1>6. /\ m > 0 /\ \A i \in DOMAIN h : IsHostChar(s[i])
      /\ o # <<>> => Len(o) > 1 /\ \A i \in DOMAIN Tail(o) : IsDecimal(Tail(o)[i])
  <2>1. Matches[s] = (/\ Before(s, {":", "/", "?"}) > 0
                      /\ \A i \in DOMAIN HostPart(s) : IsHostChar(s[i])
                      /\ PortPart(s) # <<>> =>
                             /\ Len(PortPart(s)) > 1
                             /\ \A i \in DOMAIN Tail(PortPart(s)) : IsDecimal(Tail(PortPart(s))[i]))
    BY DEF Matches
  <2> QED BY <2>1
<1> HIDE DEF m, n, k, h, o, a, q
<1>7. m <= n /\ n <= k
  <2>1. ~(n < m)
    <3> SUFFICES ASSUME n < m PROVE FALSE
      OBVIOUS
    <3>1. n + 1 \in 1..m /\ n < Len(s)
      BY <1>1, <1>2, <1>3
    <3> QED BY <1>2, <1>3, <3>1
  <2>2. ~(k < n)
    <3> SUFFICES ASSUME k < n PROVE FALSE
      OBVIOUS
    <3>1. k + 1 \in 1..n /\ k < Len(s)
      BY <1>1, <1>4, <1>3
    <3> QED BY <1>4, <1>3, <3>1
  <2> QED BY <1>1, <1>2, <1>3, <1>4, <2>1, <2>2
<1>8. /\ h \in Text /\ Len(h) = m /\ \A i \in 1..m : h[i] = s[i]
      /\ o \in Text /\ Len(o) = n - m /\ \A i \in 1..(n - m) : o[i] = s[m + i]
      /\ a \in Text /\ Len(a) = k - n /\ \A i \in 1..(k - n) : a[i] = s[n + i]
      /\ q \in Text /\ Len(q) = Len(s) - k /\ \A i \in 1..(Len(s) - k) : q[i] = s[k + i]
  <2>1. /\ 0 \in 0..Len(s) /\ m \in 0..Len(s) /\ n \in m..Len(s) /\ n \in 0..Len(s)
        /\ k \in n..Len(s) /\ k \in 0..Len(s) /\ Len(s) \in k..Len(s)
    BY <1>1, <1>2, <1>3, <1>4, <1>7
  <2>2. h \in Text /\ Len(h) = m /\ \A i \in 1..m : h[i] = s[i]
    <3>1. /\ SubSeq(s, 0 + 1, m) \in Text /\ Len(SubSeq(s, 0 + 1, m)) = m - 0
          /\ \A i \in 1..(m - 0) : SubSeq(s, 0 + 1, m)[i] = s[0 + i]
      BY <2>1, Cut
    <3>2. 0 + 1 = 1 /\ m - 0 = m /\ \A i \in 1..m : 0 + i = i
      BY <2>1
    <3> QED BY <1>5, <3>1, <3>2
  <2>3. o \in Text /\ Len(o) = n - m /\ \A i \in 1..(n - m) : o[i] = s[m + i]
    BY <1>5, <2>1, Cut
  <2>4. a \in Text /\ Len(a) = k - n /\ \A i \in 1..(k - n) : a[i] = s[n + i]
    BY <1>5, <2>1, Cut
  <2>5. q \in Text /\ Len(q) = Len(s) - k /\ \A i \in 1..(Len(s) - k) : q[i] = s[k + i]
    BY <1>5, <2>1, Cut
  <2> QED BY <2>2, <2>3, <2>4, <2>5
<1>9. Fits(h, o, a, q)
  <2>1. h # <<>> /\ \A i \in 1..Len(h) : IsHostChar(h[i])
    <3>1. h # <<>> /\ DOMAIN h = 1..m
      BY <1>6, <1>8, TextFacts
    <3> QED BY <1>6, <1>8, <3>1
  <2>2. o # <<>> => Len(o) > 1 /\ o[1] = ":" /\ \A i \in 2..Len(o) : IsDecimal(o[i])
    <3> SUFFICES ASSUME o # <<>> PROVE Len(o) > 1 /\ o[1] = ":" /\ \A i \in 2..Len(o) : IsDecimal(o[i])
      OBVIOUS
    <3>1. Len(o) > 1 /\ \A i \in DOMAIN Tail(o) : IsDecimal(Tail(o)[i])
      BY <1>6
    <3>2. 1 \in 1..(n - m) /\ m < Len(s) /\ m + 1 \in 1..n /\ o[1] = s[m + 1]
      BY <1>1, <1>2, <1>3, <1>8, <3>1
    <3>3. o[1] = ":"
      BY <1>2, <1>3, <3>2
    <3>4. o \in Seq(Char) /\ Len(o) \in Nat
      BY <1>8, TextFacts
    <3>5. /\ Tail(o) \in Seq(Char) /\ Len(Tail(o)) = Len(o) - 1
          /\ \A i \in 1..Len(Tail(o)) : Tail(o)[i] = o[i + 1]
      BY <3>4, HeadTailProperties
    <3>6. DOMAIN Tail(o) = 1..Len(Tail(o))
      BY <3>5, LenProperties
    <3>7. ASSUME NEW i \in 2..Len(o) PROVE IsDecimal(o[i])
      <4>1. PICK j \in 1..Len(Tail(o)) : i = j + 1
        <5>1. i - 1 \in 1..Len(Tail(o)) /\ i = (i - 1) + 1
          BY <3>4, <3>5
        <5> QED BY <5>1
      <4> QED BY <3>1, <3>5, <3>6, <4>1
    <3> QED BY <3>1, <3>3, <3>7
  <2>3. a # <<>> => a[1] = "/"
    <3> SUFFICES ASSUME a # <<>> PROVE a[1] = "/"
      OBVIOUS
    <3>1. Len(a) # 0
      BY <1>8, TextFacts
    <3>2. 1 \in 1..(k - n) /\ n < Len(s) /\ n + 1 \in 1..k /\ a[1] = s[n + 1]
      BY <1>1, <1>4, <1>3, <1>7, <1>8, <3>1
    <3> QED BY <1>3, <1>4, <3>2
  <2>4. \A i \in 1..Len(a) : a[i] # "?"
    <3> SUFFICES ASSUME NEW i \in 1..Len(a) PROVE a[i] # "?"
      OBVIOUS
    <3>1. i \in 1..(k - n) /\ n + i \in 1..k /\ a[i] = s[n + i]
      BY <1>3, <1>4, <1>8
    <3> QED BY <1>4, <3>1
  <2>5. q # <<>> => q[1] = "?"
    <3> SUFFICES ASSUME q # <<>> PROVE q[1] = "?"
      OBVIOUS
    <3>1. Len(q) # 0
      BY <1>8, TextFacts
    <3>2. 1 \in 1..(Len(s) - k) /\ k < Len(s) /\ q[1] = s[k + 1]
      BY <1>1, <1>4, <1>8, <3>1
    <3> QED BY <1>4, <3>2
  <2> QED BY <1>8, <2>1, <2>2, <2>3, <2>4, <2>5 DEF Fits
<1>10. s = h \o o \o a \o q
  <2>1. PICK w \in Text : w = h \o o \o a \o q /\ Placed(w, h, o, a, q)
    <3>1. Placed(h \o o \o a \o q, h, o, a, q)
      BY <1>8, Places
    <3>2. h \o o \o a \o q \in Text
      BY <3>1 DEF Placed
    <3> QED BY <3>1, <3>2
  <2>2. Len(w) = Len(s)
    BY <1>1, <1>2, <1>3, <1>4, <1>8, <2>1 DEF Placed
  <2>3. ASSUME NEW i \in 1..Len(s) PROVE s[i] = w[i]
    <3>1. CASE i \in 1..m
      BY <1>8, <2>1, <3>1 DEF Placed
    <3>2. CASE i \in (m + 1)..n
      <4>1. PICK j \in 1..(n - m) : i = m + j
        <5>1. i - m \in 1..(n - m) /\ i = m + (i - m)
          BY <1>2, <1>3, <3>2
        <5> QED BY <5>1
      <4>2. j \in 1..Len(o) /\ o[j] = s[m + j] /\ Len(h) + j = m + j
        BY <1>8, <4>1
      <4>3. w[Len(h) + j] = o[j]
        BY <2>1, <4>2 DEF Placed
      <4> QED BY <4>1, <4>2, <4>3
    <3>3. CASE i \in (n + 1)..k
      <4>1. PICK j \in 1..(k - n) : i = n + j
        <5>1. i - n \in 1..(k - n) /\ i = n + (i - n)
          BY <1>4, <1>3, <3>3
        <5> QED BY <5>1
      <4>2. Len(h) + Len(o) + j = n + j
        BY <1>2, <1>3, <1>8
      <4>3. j \in 1..Len(a) /\ a[j] = s[n + j]
        BY <1>8, <4>1
      <4>4. w[Len(h) + Len(o) + j] = a[j]
        BY <2>1, <4>3 DEF Placed
      <4> QED BY <4>1, <4>2, <4>3, <4>4
    <3>4. CASE i \in (k + 1)..Len(s)
      <4>1. PICK j \in 1..(Len(s) - k) : i = k + j
        <5>1. i - k \in 1..(Len(s) - k) /\ i = k + (i - k)
          BY <1>1, <1>4, <3>4
        <5> QED BY <5>1
      <4>2. Len(h) + Len(o) + Len(a) + j = k + j
        BY <1>2, <1>3, <1>4, <1>8
      <4>3. j \in 1..Len(q) /\ q[j] = s[k + j]
        BY <1>8, <4>1
      <4>4. w[Len(h) + Len(o) + Len(a) + j] = q[j]
        BY <2>1, <4>3 DEF Placed
      <4> QED BY <4>1, <4>2, <4>3, <4>4
    <3> QED BY <1>1, <1>2, <1>3, <1>4, <3>1, <3>2, <3>3, <3>4
  <2>4. s = w
    BY <2>2, <2>3, SameText
  <2> QED BY <2>1, <2>4
<1> QED BY <1>9, <1>10 DEF h, o, a, q

(***************************************************************************)
(* Where the protocol ends.                                                 *)
(***************************************************************************)

LEMMA SchemeText ==
    /\ <<":", "/", "/">> \in Text /\ Len(<<":", "/", "/">>) = 3
    /\ <<":", "/", "/">>[1] = ":" /\ <<":", "/", "/">>[2] = "/" /\ <<":", "/", "/">>[3] = "/"
<1>1. ":" \in Char /\ "/" \in Char
  BY DEF Char
<1>2. \A a, b \in Char : <<a, b, b>> \in Seq(Char)
  OBVIOUS
<1>3. <<":", "/", "/">> \in Seq(Char)
  BY <1>1, <1>2
<1> QED BY <1>3 DEF Text

LEMMA SchemeAt ==
    ASSUME NEW s \in Text, NEW i \in 1..(Len(s) - 2)
    PROVE  SubSeq(s, i, i + 2) = <<":", "/", "/">> <=>
               s[i] = ":" /\ s[i + 1] = "/" /\ s[i + 2] = "/"
<1>1. Len(s) \in Nat
  BY TextFacts
<1>2. PICK m \in 0..Len(s), n \in Nat : n \in m..Len(s) /\ m + 1 = i /\ n = i + 2
  <2>1. i - 1 \in 0..Len(s) /\ i + 2 \in Nat /\ i + 2 \in (i - 1)..Len(s) /\ (i - 1) + 1 = i
    BY <1>1
  <2> QED BY <2>1
<1>3. PICK w \in Text : /\ w = SubSeq(s, m + 1, n) /\ Len(w) = n - m
                        /\ \A k \in 1..(n - m) : w[k] = s[m + k]
  BY <1>2, Cut
<1>4. n - m = 3 /\ m + 1 = i /\ m + 2 = i + 1 /\ m + 3 = i + 2
  BY <1>1, <1>2
<1>5. w[1] = s[i] /\ w[2] = s[i + 1] /\ w[3] = s[i + 2]
  <2>1. 1 \in 1..(n - m) /\ 2 \in 1..(n - m) /\ 3 \in 1..(n - m)
    BY <1>4
  <2>2. w[1] = s[m + 1] /\ w[2] = s[m + 2] /\ w[3] = s[m + 3]
    BY <1>3, <2>1
  <2> QED BY <1>4, <2>2
<1>6. PICK x \in Text : x = <<":", "/", "/">> /\ Len(x) = 3 /\ x[1] = ":" /\ x[2] = "/" /\ x[3] = "/"
  BY SchemeText
<1>7. w = x <=> w[1] = ":" /\ w[2] = "/" /\ w[3] = "/"
  <2>1. ASSUME w[1] = x[1], w[2] = x[2], w[3] = x[3] PROVE w = x
    <3>1. Len(w) = Len(x) /\ \A k \in 1..Len(w) : k = 1 \/ k = 2 \/ k = 3
      BY <1>3, <1>4, <1>6
    <3> QED BY <2>1, <3>1, SameText
  <2> QED BY <1>6, <2>1
<1> QED BY <1>2, <1>3, <1>5, <1>6, <1>7

LEMMA Halves ==
    ASSUME NEW x \in Text, NEW y \in Text
    PROVE  /\ SubSeq(x \o y, 1, Len(x)) = x
           /\ SubSeq(x \o y, Len(x) + 1, Len(x \o y)) = y
<1>1. Len(x) \in Nat /\ Len(y) \in Nat
  BY TextFacts
<1>2. PICK w \in Text : /\ w = x \o y /\ Len(w) = Len(x) + Len(y)
                        /\ \A i \in 1..Len(x) : w[i] = x[i]
                        /\ \A i \in 1..Len(y) : w[Len(x) + i] = y[i]
  <2>1. /\ x \o y \in Text /\ Len(x \o y) = Len(x) + Len(y)
        /\ \A i \in 1..Len(x) : (x \o y)[i] = x[i]
        /\ \A i \in 1..Len(y) : (x \o y)[Len(x) + i] = y[i]
    BY Joined
  <2> QED BY <2>1, Zenon
<1>3. SubSeq(w, 1, Len(x)) = x
  <2>1. /\ 0 \in 0..Len(w) /\ Len(x) \in 0..Len(w) /\ Len(x) - 0 = Len(x) /\ 0 + 1 = 1
        /\ \A i \in 1..Len(x) : 0 + i = i
    BY <1>1, <1>2
  <2>2. PICK v \in Text : /\ v = SubSeq(w, 0 + 1, Len(x)) /\ Len(v) = Len(x) - 0
                          /\ \A i \in 1..(Len(x) - 0) : v[i] = w[0 + i]
    BY <2>1, Cut
  <2>3. \A i \in 1..Len(x) : v[i] = x[i]
    BY <1>2, <2>1, <2>2
  <2>4. v = x
    BY <2>1, <2>2, <2>3, SameText
  <2> QED BY <2>1, <2>2, <2>4
<1>4. SubSeq(w, Len(x) + 1, Len(w)) = y
  <2>1. Len(x) \in 0..Len(w) /\ Len(w) \in Len(x)..Len(w) /\ Len(w) - Len(x) = Len(y)
    BY <1>1, <1>2
  <2>2. PICK v \in Text : /\ v = SubSeq(w, Len(x) + 1, Len(w)) /\ Len(v) = Len(w) - Len(x)
                          /\ \A i \in 1..(Len(w) - Len(x)) : v[i] = w[Len(x) + i]
    BY <2>1, Cut
  <2>3. \A i \in 1..Len(y) : v[i] = y[i]
    BY <1>2, <2>1, <2>2
  <2>4. v = y
    BY <2>1, <2>2, <2>3, SameText
  <2> QED BY <2>2, <2>4
<1> QED BY <1>2, <1>3, <1>4

\* A part of the end of a string is a part of the string.
LEMMA CutOfCut ==
    ASSUME NEW s \in Text, NEW m \in 0..Len(s), NEW r \in Text,
           r = SubSeq(s, m + 1, Len(s)),
           NEW i \in Nat \ {0}, NEW j \in Nat, i <= j + 1, j <= Len(r)
    PROVE  SubSeq(r, i, j) = SubSeq(s, m + i, m + j)
<1>1. Len(s) \in Nat /\ m \in Nat /\ Len(s) \in m..Len(s)
  BY TextFacts
<1>2. Len(r) = Len(s) - m /\ \A k \in 1..(Len(s) - m) : r[k] = s[m + k]
  BY <1>1, Cut
<1>3. PICK d \in 0..Len(r) : d + 1 = i
  <2>1. i - 1 \in 0..Len(r) /\ (i - 1) + 1 = i
    BY <1>1, <1>2
  <2> QED BY <2>1
<1>4. j \in d..Len(r) /\ d \in Nat /\ j \in Nat
  BY <1>1, <1>2, <1>3
<1>5. PICK v \in Text : /\ v = SubSeq(r, d + 1, j) /\ Len(v) = j - d
                        /\ \A k \in 1..(j - d) : v[k] = r[d + k]
  BY <1>4, Cut
<1>6. PICK e \in 0..Len(s), f \in Nat : f \in e..Len(s) /\ e = m + d /\ f = m + j
  <2>1. m + d \in 0..Len(s) /\ m + j \in Nat /\ m + j \in (m + d)..Len(s)
    BY <1>1, <1>2, <1>4
  <2> QED BY <2>1
<1>7. PICK w \in Text : /\ w = SubSeq(s, e + 1, f) /\ Len(w) = f - e
                        /\ \A k \in 1..(f - e) : w[k] = s[e + k]
  <2>1. f \in e..Len(s)
    BY <1>6
  <2>2. /\ SubSeq(s, e + 1, f) \in Text /\ Len(SubSeq(s, e + 1, f)) = f - e
        /\ \A k \in 1..(f - e) : SubSeq(s, e + 1, f)[k] = s[e + k]
    BY <2>1, Cut
  <2> QED BY <2>2, Zenon
<1>8. f - e = j - d /\ e + 1 = m + i /\ f = m + j
  BY <1>1, <1>3, <1>4, <1>6
<1>9. ASSUME NEW k \in 1..(j - d) PROVE v[k] = w[k]
  <2>1. d + k \in 1..(Len(s) - m) /\ m + (d + k) = e + k
    BY <1>1, <1>2, <1>4, <1>6
  <2>2. r[d + k] = s[m + (d + k)]
    BY <1>2, <2>1
  <2> QED BY <1>5, <1>7, <1>8, <2>1, <2>2
<1>10. v = w
  BY <1>5, <1>7, <1>8, <1>9, SameText
<1> QED BY <1>3, <1>5, <1>7, <1>8, <1>10

\* No "://" in r has a match behind it.
Quiet(r) ==
    \A i \in 1..(Len(r) - 3) :
        ~(SubSeq(r, i, i + 2) = <<":", "/", "/">> /\ Matches[SubSeq(r, i + 3, Len(r))])

\* That the end of a string is quiet says that no protocol reaches into it.
LEMMA QuietEnd ==
    ASSUME NEW s \in Text, NEW m \in 0..Len(s), NEW r \in Text,
           r = SubSeq(s, m + 1, Len(s))
    PROVE  /\ Quiet(r) => \A j \in SchemeEnds(s) : j <= m
           /\ m > 0 /\ (\A j \in SchemeEnds(s) : j <= m) => Quiet(r)
<1>1. Len(s) \in Nat /\ m \in Nat /\ Len(s) \in m..Len(s) /\ Len(r) \in Nat
  BY TextFacts
<1>2. Len(r) = Len(s) - m
  BY <1>1, Cut
<1>3. ASSUME NEW i \in 1..(Len(r) - 3)
      PROVE  /\ SubSeq(r, i, i + 2) = SubSeq(s, m + i, (m + i) + 2)
             /\ SubSeq(r, i + 3, Len(r)) = SubSeq(s, (m + i) + 3, Len(s))
  <2>1. /\ i \in Nat \ {0} /\ i + 2 \in Nat /\ i <= (i + 2) + 1 /\ i + 2 <= Len(r)
        /\ i + 3 \in Nat \ {0} /\ Len(r) \in Nat /\ i + 3 <= Len(r) + 1 /\ Len(r) <= Len(r)
    BY <1>1
  <2>2. m + (i + 2) = (m + i) + 2 /\ m + (i + 3) = (m + i) + 3 /\ m + Len(r) = Len(s)
    BY <1>1, <1>2
  <2>3. SubSeq(r, i, i + 2) = SubSeq(s, m + i, m + (i + 2))
    BY <2>1, CutOfCut
  <2>4. SubSeq(r, i + 3, Len(r)) = SubSeq(s, m + (i + 3), m + Len(r))
    BY <2>1, CutOfCut
  <2> QED BY <2>2, <2>3, <2>4
<1>4. ASSUME Quiet(r), NEW j \in SchemeEnds(s), ~(j <= m) PROVE FALSE
  <2>1. /\ j \in 2..(Len(s) - 3) /\ SubSeq(s, j, j + 2) = <<":", "/", "/">>
        /\ Matches[SubSeq(s, j + 3, Len(s))]
    BY <1>4 DEF SchemeEnds
  <2>2. PICK i \in 1..(Len(r) - 3) : m + i = j
    <3>1. j - m \in 1..(Len(r) - 3) /\ m + (j - m) = j
      BY <1>1, <1>2, <1>4, <2>1
    <3> QED BY <3>1
  <2>3. SubSeq(r, i, i + 2) = <<":", "/", "/">> /\ Matches[SubSeq(r, i + 3, Len(r))]
    BY <1>3, <2>1, <2>2
  <2> QED BY <1>4, <2>3 DEF Quiet
<1>5. ASSUME m > 0, \A j \in SchemeEnds(s) : j <= m PROVE Quiet(r)
  <2> SUFFICES ASSUME NEW i \in 1..(Len(r) - 3), SubSeq(r, i, i + 2) = <<":", "/", "/">>,
                      Matches[SubSeq(r, i + 3, Len(r))]
               PROVE  FALSE
    BY DEF Quiet
  <2>1. m + i \in 2..(Len(s) - 3) /\ ~(m + i <= m)
    BY <1>1, <1>2, <1>5
  <2>2. m + i \in SchemeEnds(s)
    BY <1>3, <2>1 DEF SchemeEnds
  <2> QED BY <1>5, <2>1, <2>2
<1> QED BY <1>4, <1>5

\* Neither the host nor the port of a url contains ":/".
LEMMA Colons ==
    ASSUME NEW h, NEW o, NEW a, NEW q, Fits(h, o, a, q), NEW s, s = h \o o \o a \o q,
           NEW i \in 1..(Len(h) + Len(o)), i < Len(s)
    PROVE  ~(s[i] = ":" /\ s[i + 1] = "/")
<1>1. /\ h \in Text /\ o \in Text /\ a \in Text /\ q \in Text
      /\ Len(h) \in Nat /\ Len(o) \in Nat /\ Len(a) \in Nat /\ Len(q) \in Nat
  BY TextFacts DEF Fits
<1>2. Placed(s, h, o, a, q)
  BY <1>1, Places
<1>3. CASE i \in 1..Len(h)
  <2>1. s[i] = h[i] /\ IsHostChar(h[i])
    BY <1>2, <1>3 DEF Placed, Fits
  <2> QED BY <2>1, Characters
<1>4. CASE i \in (Len(h) + 1)..(Len(h) + Len(o))
  <2>1. PICK j \in 1..Len(o) : i = Len(h) + j
    <3>1. i - Len(h) \in 1..Len(o) /\ i = Len(h) + (i - Len(h))
      BY <1>1, <1>4
    <3> QED BY <3>1
  <2>2. o # <<>>
    BY <1>1, <2>1, TextFacts
  <2>3. Len(o) > 1 /\ \A k \in 2..Len(o) : IsDecimal(o[k])
    BY <2>2 DEF Fits
  <2>4. \A k \in 1..Len(o) : s[Len(h) + k] = o[k]
    BY <1>2 DEF Placed
  <2>5. CASE j = 1
    <3>1. 2 \in 1..Len(o) /\ 2 \in 2..Len(o) /\ i + 1 = Len(h) + 2
      BY <1>1, <2>1, <2>3, <2>5
    <3>2. s[i + 1] = o[2] /\ IsDecimal(o[2])
      BY <2>3, <2>4, <3>1
    <3> QED BY <3>2, Characters
  <2>6. CASE j # 1
    <3>1. j \in 2..Len(o)
      BY <1>1, <2>6
    <3>2. s[i] = o[j] /\ IsDecimal(o[j])
      BY <2>1, <2>3, <2>4, <3>1
    <3> QED BY <3>2, Characters
  <2> QED BY <2>5, <2>6
<1> QED BY <1>1, <1>3, <1>4

\* A string without a protocol, as long as no "://" behind the port has a match
\* behind it.
LEMMA WithoutProtocol ==
    ASSUME NEW h, NEW o, NEW a, NEW q, Fits(h, o, a, q), Quiet(a \o q)
    PROVE  LET s == h \o o \o a \o q
           IN  get_url_components[s] = Components(PROTOCOL_HTTP, s)
<1>1. /\ h \in Text /\ o \in Text /\ a \in Text /\ q \in Text
      /\ Len(h) \in Nat /\ Len(o) \in Nat /\ Len(a) \in Nat /\ Len(q) \in Nat
  BY TextFacts DEF Fits
<1>2. PICK x \in Text : x = h \o o /\ Len(x) = Len(h) + Len(o)
  BY <1>1, Joined
<1>3. PICK r \in Text : r = a \o q
  BY <1>1, Joined
<1>4. PICK s \in Text : s = h \o o \o a \o q
  BY Recognized
<1>5. s = x \o r
  <2>1. x \in Seq(Char) /\ a \in Seq(Char) /\ q \in Seq(Char)
    BY <1>1, TextFacts
  <2>2. (x \o a) \o q = x \o (a \o q)
    BY <2>1, ConcatAssociative, SMTT(30)
  <2> QED BY <1>2, <1>3, <1>4, <2>2
<1>6. r = SubSeq(s, Len(x) + 1, Len(s)) /\ Len(x) \in 0..Len(s) /\ Len(s) \in Nat
  <2>1. Len(s) = Len(x) + Len(r) /\ Len(r) \in Nat /\ Len(x) \in Nat
    BY <1>5, Joined, TextFacts
  <2>2. Len(x) \in 0..Len(s) /\ Len(s) \in Nat
    BY <2>1
  <2> QED BY <1>5, <2>2, Halves
<1>7. \A j \in SchemeEnds(s) : j <= Len(x)
  BY <1>3, <1>6, QuietEnd
<1>8. SchemeEnds(s) = {}
  <2> SUFFICES ASSUME NEW j \in SchemeEnds(s) PROVE FALSE
    OBVIOUS
  <2>1. j \in 2..(Len(s) - 3) /\ SubSeq(s, j, j + 2) = <<":", "/", "/">>
    BY DEF SchemeEnds
  <2>2. j \in 1..(Len(s) - 2) /\ j \in 1..(Len(h) + Len(o)) /\ j < Len(s)
    BY <1>1, <1>2, <1>6, <1>7, <2>1
  <2>3. s[j] = ":" /\ s[j + 1] = "/"
    BY <2>1, <2>2, SchemeAt
  <2> QED BY <1>4, <2>2, <2>3, Colons
<1>9. get_url_components[s] = Components(PROTOCOL_HTTP, s)
  BY <1>8 DEF Scheme, get_url_components
<1> QED BY <1>4, <1>9

\* And one with a protocol.
LEMMA WithProtocol ==
    ASSUME NEW p \in Text, p # <<>>,
           NEW h, NEW o, NEW a, NEW q, Fits(h, o, a, q), Quiet(a \o q)
    PROVE  LET s == h \o o \o a \o q
           IN  get_url_components[(p \o <<":", "/", "/">>) \o s] = Components(p, s)
<1>1. /\ h \in Text /\ o \in Text /\ a \in Text /\ q \in Text
      /\ Len(h) \in Nat /\ Len(o) \in Nat /\ Len(a) \in Nat /\ Len(q) \in Nat
      /\ Len(p) \in Nat \ {0} /\ Len(h) > 0
  BY TextFacts DEF Fits
<1>2. PICK x \in Text : x = h \o o /\ Len(x) = Len(h) + Len(o)
  BY <1>1, Joined
<1>3. PICK r \in Text : r = a \o q
  BY <1>1, Joined
<1>4. PICK s \in Text : s = h \o o \o a \o q /\ Matches[s] /\ Len(s) = Len(h) + Len(o) + Len(a) + Len(q)
  <2> DEFINE w == h \o o \o a \o q
  <2>1. w \in Text /\ Matches[w]
    BY Recognized
  <2>2. Len(w) = Len(h) + Len(o) + Len(a) + Len(q)
    BY Ends
  <2> QED BY <2>1, <2>2
<1>5. PICK y \in Text : /\ y = p \o <<":", "/", "/">> /\ Len(y) = Len(p) + 3
                        /\ \A i \in 1..Len(p) : y[i] = p[i]
                        /\ y[Len(p) + 1] = ":" /\ y[Len(p) + 2] = "/" /\ y[Len(p) + 3] = "/"
  <2>1. PICK c \in Text : c = <<":", "/", "/">> /\ Len(c) = 3 /\ c[1] = ":" /\ c[2] = "/" /\ c[3] = "/"
    BY SchemeText
  <2>2. /\ p \o c \in Text /\ Len(p \o c) = Len(p) + Len(c)
        /\ \A i \in 1..Len(p) : (p \o c)[i] = p[i]
        /\ \A i \in 1..Len(c) : (p \o c)[Len(p) + i] = c[i]
    BY Joined
  <2>3. 1 \in 1..Len(c) /\ 2 \in 1..Len(c) /\ 3 \in 1..Len(c)
    BY <2>1
  <2>4. /\ (p \o c)[Len(p) + 1] = c[1] /\ (p \o c)[Len(p) + 2] = c[2]
        /\ (p \o c)[Len(p) + 3] = c[3]
    BY <2>2, <2>3, Zenon
  <2> QED BY <2>1, <2>2, <2>4, Zenon
<1>6. PICK t \in Text : /\ t = y \o s /\ Len(t) = Len(y) + Len(s)
                        /\ \A i \in 1..Len(y) : t[i] = y[i]
                        /\ \A i \in 1..Len(s) : t[Len(y) + i] = s[i]
  <2>1. /\ y \o s \in Text /\ Len(y \o s) = Len(y) + Len(s)
        /\ \A i \in 1..Len(y) : (y \o s)[i] = y[i]
        /\ \A i \in 1..Len(s) : (y \o s)[Len(y) + i] = s[i]
    BY Joined
  <2> QED BY <2>1, Zenon
<1>7. PICK z \in Text : z = y \o x /\ Len(z) = Len(y) + Len(x)
  BY Joined
<1>8. t = z \o r
  <2>1. /\ x \in Seq(Char) /\ a \in Seq(Char) /\ q \in Seq(Char) /\ y \in Seq(Char)
        /\ r \in Seq(Char)
    BY <1>1, TextFacts
  <2>2. (x \o a) \o q = x \o (a \o q)
    BY <2>1, ConcatAssociative, SMTT(30)
  <2>3. (y \o x) \o r = y \o (x \o r)
    BY <2>1, ConcatAssociative, SMTT(30)
  <2> QED BY <1>2, <1>3, <1>4, <1>6, <1>7, <2>2, <2>3
<1>9. r = SubSeq(t, Len(z) + 1, Len(t)) /\ Len(z) \in 0..Len(t) /\ Len(t) \in Nat
  <2>1. Len(t) = Len(z) + Len(r) /\ Len(r) \in Nat /\ Len(z) \in Nat
    BY <1>8, Joined, TextFacts
  <2>2. Len(z) \in 0..Len(t) /\ Len(t) \in Nat
    BY <2>1
  <2> QED BY <1>8, <2>2, Halves
<1>10. \A j \in SchemeEnds(t) : j <= Len(z)
  BY <1>3, <1>9, QuietEnd
<1>11. \A j \in SchemeEnds(t) : j <= Len(p) + 1
  <2> SUFFICES ASSUME NEW j \in SchemeEnds(t), ~(j <= Len(p) + 1) PROVE FALSE
    OBVIOUS
  <2>1. j \in 2..(Len(t) - 3) /\ SubSeq(t, j, j + 2) = <<":", "/", "/">>
    BY DEF SchemeEnds
  <2>2. j \in 1..(Len(t) - 2)
    BY <1>9, <2>1
  <2>3. t[j] = ":" /\ t[j + 1] = "/"
    BY <2>1, <2>2, SchemeAt
  <2>4. CASE j = Len(p) + 2 \/ j = Len(p) + 3
    <3>1. j \in 1..Len(y)
      BY <1>1, <1>5, <2>4
    <3>2. t[j] = "/"
      BY <1>5, <1>6, <2>4, <3>1
    <3> QED BY <2>3, <3>2
  <2>5. CASE j > Len(p) + 3
    <3>1. PICK i \in 1..(Len(h) + Len(o)) : j = Len(y) + i /\ i < Len(s)
      <4>1. /\ j - Len(y) \in 1..(Len(h) + Len(o)) /\ j = Len(y) + (j - Len(y))
            /\ j - Len(y) < Len(s)
        BY <1>1, <1>2, <1>4, <1>5, <1>6, <1>7, <1>10, <2>1, <2>5, SMTT(30)
      <4> QED BY <4>1
    <3>2. i \in 1..Len(s) /\ i + 1 \in 1..Len(s) /\ j + 1 = Len(y) + (i + 1)
      BY <1>1, <1>4, <1>5, <3>1
    <3>3. t[Len(y) + i] = s[i] /\ t[Len(y) + (i + 1)] = s[i + 1]
      BY <1>6, <3>2
    <3>4. s[i] = ":" /\ s[i + 1] = "/"
      BY <2>3, <3>1, <3>2, <3>3
    <3> QED BY <1>4, <3>1, <3>4, Colons
  <2> QED BY <1>1, <2>1, <2>4, <2>5
<1>12. Len(p) + 1 \in SchemeEnds(t)
  <2> DEFINE k == Len(p) + 1
  <2>1. /\ k \in 2..(Len(t) - 3) /\ k \in 1..(Len(t) - 2) /\ k + 1 = Len(p) + 2
        /\ k + 2 = Len(p) + 3 /\ k + 3 = Len(y) + 1
    BY <1>1, <1>4, <1>5, <1>6
  <2>2. Len(p) + 1 \in 1..Len(y) /\ Len(p) + 2 \in 1..Len(y) /\ Len(p) + 3 \in 1..Len(y)
    BY <1>1, <1>5
  <2>3. t[Len(p) + 1] = ":" /\ t[Len(p) + 2] = "/" /\ t[Len(p) + 3] = "/"
    BY <1>5, <1>6, <2>2
  <2>4. SubSeq(t, k, k + 2) = <<":", "/", "/">>
    <3>1. t[k] = ":" /\ t[k + 1] = "/" /\ t[k + 2] = "/"
      BY <2>1, <2>3
    <3> HIDE DEF k
    <3> QED BY <2>1, <3>1, SchemeAt
  <2>5. SubSeq(t, k + 3, Len(t)) = s
    BY <1>6, <2>1, Halves
  <2> HIDE DEF k
  <2>6. k \in SchemeEnds(t)
    BY <1>4, <2>1, <2>4, <2>5 DEF SchemeEnds
  <2> QED BY <2>6 DEF k
<1>13. Scheme[t] = Len(p) + 1
  <2> DEFINE M == SchemeEnds(t)
             k == Len(p) + 1
  <2>1. Scheme[t] = IF M = {} THEN 0 ELSE CHOOSE m \in M : \A n \in M : m >= n
    BY DEF Scheme, Max
  <2>2. k \in M /\ \A m \in M : m <= k
    BY <1>11, <1>12
  <2>3. M \subseteq Int
    BY <1>9 DEF SchemeEnds
  <2> HIDE DEF M, k
  <2>4. \A m \in M : (\A n \in M : m >= n) => m = k
    BY <2>2, <2>3
  <2>5. \A n \in M : k >= n
    BY <2>2, <2>3
  <2>6. Scheme[t] = k
    BY <2>1, <2>2, <2>4, <2>5
  <2> QED BY <2>6 DEF k
<1>14. SubSeq(t, 1, Scheme[t] - 1) = p
  <2>1. Scheme[t] - 1 = Len(p)
    BY <1>1, <1>13
  <2>2. PICK c \in Text : c = <<":", "/", "/">> \o s
    BY SchemeText, Joined
  <2>3. t = p \o c
    <3>1. p \in Seq(Char) /\ s \in Seq(Char) /\ <<":", "/", "/">> \in Seq(Char)
      BY TextFacts, SchemeText
    <3>2. (p \o <<":", "/", "/">>) \o s = p \o (<<":", "/", "/">> \o s)
      BY <3>1, ConcatAssociative
    <3> QED BY <1>5, <1>6, <2>2, <3>2
  <2> QED BY <2>1, <2>3, Halves
<1>15. SubSeq(t, Scheme[t] + 3, Len(t)) = s
  <2>1. Scheme[t] + 3 = Len(y) + 1
    BY <1>1, <1>5, <1>13
  <2> QED BY <1>6, <2>1, Halves
<1>16. get_url_components[t] = Components(p, s)
  <2>1. Scheme[t] # 0
    BY <1>1, <1>13
  <2> QED BY <1>14, <1>15, <2>1 DEF get_url_components
<1> QED BY <1>4, <1>5, <1>6, <1>16

(***************************************************************************)
(* Numbers and their digits.                                                *)
(***************************************************************************)

LEMMA DigitFacts ==
    /\ \A i \in 0..9 : /\ IsDecimal(Decimals[i + 1]) /\ Decimals[i + 1] \in Char
                       /\ DigitValue(Decimals[i + 1]) = i
    /\ \A c : IsDecimal(c) => DigitValue(c) \in 0..9 /\ c \in Char
<1>1. DOMAIN Decimals = 1..10
  BY DEF Decimals
<1>2. \A i, j \in 1..10 : Decimals[i] = Decimals[j] => i = j
  BY DEF Decimals
<1>3. ASSUME NEW c, IsDecimal(c) PROVE c \in Char /\ DigitValue(c) \in 0..9
  <2>1. \E i \in 1..10 : Decimals[i] = c
    BY <1>1, <1>3 DEF IsDecimal
  <2>2. c \in Char
    BY <2>1 DEF Char
  <2>3. (CHOOSE i \in 1..10 : Decimals[i] = c) \in 1..10
    BY <2>1
  <2>4. DigitValue(c) \in 0..9
    BY <2>3 DEF DigitValue
  <2> QED BY <2>2, <2>4
<1>4. ASSUME NEW i \in 0..9
      PROVE  IsDecimal(Decimals[i + 1]) /\ DigitValue(Decimals[i + 1]) = i
  <2>1. i + 1 \in 1..10
    OBVIOUS
  <2>2. IsDecimal(Decimals[i + 1])
    BY <1>1, <2>1 DEF IsDecimal
  <2> DEFINE P(j) == Decimals[j] = Decimals[i + 1]
             k == CHOOSE j \in 1..10 : P(j)
  <2>3. k \in 1..10 /\ P(k)
    <3>1. P(i + 1)
      OBVIOUS
    <3> HIDE DEF P
    <3> QED BY <2>1, <3>1
  <2>4. DigitValue(Decimals[i + 1]) = k - 1
    BY DEF DigitValue
  <2> HIDE DEF k
  <2>5. k = i + 1
    BY <1>2, <2>1, <2>3
  <2> QED BY <2>2, <2>4, <2>5
<1> QED BY <1>3, <1>4

AreDecimals(d) == d \in Text /\ \A i \in 1..Len(d) : IsDecimal(d[i])

\* The values of the beginnings of d.
AreValues(f, d, m) ==
    /\ f \in [0..m -> Nat] /\ f[0] = 0
    /\ \A n \in 1..m : f[n] = 10 * f[n - 1] + DigitValue(d[n])

LEMMA ValuesExist ==
    ASSUME NEW d, AreDecimals(d)
    PROVE  \E f : AreValues(f, d, Len(d))
<1>1. Len(d) \in Nat
  BY TextFacts DEF AreDecimals
<1> DEFINE T == {m \in 0..Len(d) : ~ \E f : AreValues(f, d, m)}
<1>2. CASE T = {}
  BY <1>1, <1>2
<1>3. CASE T # {}
  <2>1. T \subseteq Nat
    BY <1>1
  <2>2. PICK m \in T : \A k \in T : m <= k
    BY <1>3, <2>1, Least
  <2>3. CASE m = 0
    <3>1. AreValues([n \in 0..0 |-> 0], d, 0)
      BY DEF AreValues
    <3> QED BY <2>2, <2>3, <3>1
  <2>4. CASE m # 0
    <3>1. m \in 1..Len(d) /\ m - 1 \in 0..Len(d) /\ ~(m <= m - 1) /\ m - 1 \in Nat
      BY <1>1, <2>4
    <3>2. PICK f : AreValues(f, d, m - 1)
      BY <2>2, <3>1
    <3>3. DigitValue(d[m]) \in 0..9
      BY <3>1, DigitFacts DEF AreDecimals
    <3>4. PICK v \in Nat : v = 10 * f[m - 1] + DigitValue(d[m])
      <4>1. f[m - 1] \in Nat
        BY <3>1, <3>2 DEF AreValues
      <4> QED BY <3>3, <4>1
    <3> DEFINE g == [n \in 0..m |-> IF n = m THEN v ELSE f[n]]
    <3>5. \A n \in 0..m : n # m => n \in 0..(m - 1)
      BY <3>1
    <3>6. g \in [0..m -> Nat]
      BY <3>2, <3>5 DEF AreValues
    <3>7. g[0] = 0
      BY <3>1, <3>2, <3>5 DEF AreValues
    <3>8. ASSUME NEW n \in 1..m PROVE g[n] = 10 * g[n - 1] + DigitValue(d[n])
      <4>1. n \in 0..m /\ n - 1 \in 0..m /\ n - 1 # m
        BY <3>1
      <4>2. g[n - 1] = f[n - 1]
        BY <4>1
      <4>3. CASE n = m
        BY <3>4, <4>1, <4>2, <4>3
      <4>4. CASE n # m
        <5>1. n \in 1..(m - 1)
          BY <3>1, <4>4
        <5>2. g[n] = f[n]
          BY <4>1, <4>4
        <5>3. f[n] = 10 * f[n - 1] + DigitValue(d[n])
          BY <3>2, <5>1 DEF AreValues
        <5> QED BY <4>2, <5>2, <5>3
      <4> QED BY <4>3, <4>4
    <3> HIDE DEF g
    <3>9. AreValues(g, d, m)
      BY <3>6, <3>7, <3>8 DEF AreValues
    <3> QED BY <2>2, <3>9
  <2> QED BY <2>3, <2>4
<1> QED BY <1>2, <1>3

LEMMA NumberIs ==
    ASSUME NEW d, AreDecimals(d), NEW f, AreValues(f, d, Len(d))
    PROVE  Number(d) = f[Len(d)]
<1> DEFINE Same(g) == g = [n \in 0..Len(d) |-> IF n = 0 THEN 0 ELSE 10 * g[n - 1] + DigitValue(d[n])]
           v == CHOOSE g : Same(g)
<1>1. Len(d) \in Nat
  BY TextFacts DEF AreDecimals
<1>2. Same(f)
  <2>1. f \in [0..Len(d) -> Nat] /\ f[0] = 0
    BY DEF AreValues
  <2>2. \A n \in 0..Len(d) : n # 0 => n \in 1..Len(d)
    BY <1>1
  <2>3. \A n \in 0..Len(d) : f[n] = IF n = 0 THEN 0 ELSE 10 * f[n - 1] + DigitValue(d[n])
    BY <2>1, <2>2 DEF AreValues
  <2> QED BY <2>1, <2>3
<1>3. Same(v)
  <2> HIDE DEF Same
  <2> QED BY <1>2
<1>4. Number(d) = v[Len(d)]
  BY DEF Number
<1>5. \A n \in 0..Len(d) : v[n] = IF n = 0 THEN 0 ELSE 10 * v[n - 1] + DigitValue(d[n])
  <2> HIDE DEF v
  <2> QED BY <1>3
<1> HIDE DEF v, Same
<1> DEFINE T == {n \in 0..Len(d) : v[n] # f[n]}
<1>6. CASE T = {}
  <2>1. Len(d) \in 0..Len(d)
    BY <1>1
  <2> QED BY <1>4, <1>6, <2>1
<1>7. CASE T # {}
  <2>1. T \subseteq Nat
    BY <1>1
  <2>2. PICK m \in T : \A k \in T : m <= k
    BY <1>7, <2>1, Least
  <2>3. CASE m = 0
    <3>1. v[m] = 0 /\ f[m] = 0
      BY <1>5, <2>3 DEF AreValues
    <3> QED BY <3>1
  <2>4. CASE m # 0
    <3>1. m \in 1..Len(d) /\ m - 1 \in 0..Len(d) /\ ~(m <= m - 1)
      BY <1>1, <2>4
    <3>2. v[m - 1] = f[m - 1]
      BY <2>2, <3>1
    <3>3. v[m] = 10 * v[m - 1] + DigitValue(d[m]) /\ f[m] = 10 * f[m - 1] + DigitValue(d[m])
      BY <1>5, <2>4, <3>1 DEF AreValues
    <3> QED BY <3>2, <3>3
  <2> QED BY <2>3, <2>4
<1> QED BY <1>6, <1>7

LEMMA NumberFacts ==
    ASSUME NEW d, AreDecimals(d)
    PROVE  Number(d) \in Nat
<1>1. PICK f : AreValues(f, d, Len(d))
  BY ValuesExist
<1>2. Len(d) \in Nat
  BY TextFacts DEF AreDecimals
<1>3. Len(d) \in 0..Len(d)
  BY <1>2
<1>4. f[Len(d)] \in Nat
  BY <1>1, <1>3 DEF AreValues
<1> QED BY <1>1, <1>4, NumberIs

LEMMA OneDigit ==
    ASSUME NEW c, IsDecimal(c)
    PROVE  AreDecimals(<<c>>) /\ Number(<<c>>) = DigitValue(c)
<1>1. c \in Char /\ DigitValue(c) \in 0..9
  BY DigitFacts
<1>2. <<c>> \in Text /\ Len(<<c>>) = 1 /\ <<c>>[1] = c
  BY <1>1 DEF Text
<1>3. AreDecimals(<<c>>)
  BY <1>2 DEF AreDecimals
<1> DEFINE f == [n \in 0..1 |-> IF n = 0 THEN 0 ELSE DigitValue(c)]
<1>4. AreValues(f, <<c>>, 1)
  <2>1. f \in [0..1 -> Nat] /\ f[0] = 0 /\ f[1] = DigitValue(c)
    BY <1>1
  <2>2. \A n \in 1..1 : n = 1 /\ n - 1 = 0
    OBVIOUS
  <2> HIDE DEF f
  <2>3. f[1] = 10 * f[1 - 1] + DigitValue(<<c>>[1])
    BY <1>1, <1>2, <2>1
  <2> QED BY <2>1, <2>2, <2>3 DEF AreValues
<1>5. f[1] = DigitValue(c)
  OBVIOUS
<1> HIDE DEF f
<1>6. Number(<<c>>) = f[1]
  BY <1>2, <1>3, <1>4, NumberIs
<1> QED BY <1>3, <1>5, <1>6

LEMMA OneMoreDigit ==
    ASSUME NEW d, AreDecimals(d), NEW c, IsDecimal(c)
    PROVE  AreDecimals(Append(d, c)) /\ Number(Append(d, c)) = 10 * Number(d) + DigitValue(c)
<1> DEFINE e == Append(d, c)
           k == Len(d)
<1>1. c \in Char /\ DigitValue(c) \in 0..9
  BY DigitFacts
<1>2. d \in Seq(Char) /\ k \in Nat
  BY TextFacts DEF AreDecimals
<1>3. /\ e \in Seq(Char) /\ Len(e) = k + 1 /\ e[k + 1] = c
      /\ \A i \in 1..k : e[i] = d[i]
  BY <1>1, <1>2, AppendProperties
<1> HIDE DEF e
<1>4. AreDecimals(e)
  <2> SUFFICES ASSUME NEW i \in 1..Len(e) PROVE IsDecimal(e[i])
    BY <1>3 DEF AreDecimals, Text
  <2>1. i \in 1..k \/ i = k + 1
    BY <1>2, <1>3
  <2> QED BY <1>3, <2>1 DEF AreDecimals
<1>5. PICK f : AreValues(f, e, Len(e))
  BY <1>4, ValuesExist
<1> DEFINE g == [n \in 0..k |-> f[n]]
<1>6. AreValues(g, d, k)
  <2>1. \A n \in 0..k : n \in 0..Len(e)
    BY <1>2, <1>3
  <2>2. g \in [0..k -> Nat] /\ g[0] = 0
    BY <1>2, <1>5, <2>1 DEF AreValues
  <2>3. ASSUME NEW n \in 1..k PROVE g[n] = 10 * g[n - 1] + DigitValue(d[n])
    <3>1. n \in 1..Len(e) /\ n \in 0..k /\ n - 1 \in 0..k
      BY <1>2, <1>3
    <3>2. f[n] = 10 * f[n - 1] + DigitValue(e[n])
      BY <1>5, <3>1 DEF AreValues
    <3> QED BY <1>3, <3>1, <3>2
  <2> HIDE DEF g
  <2> QED BY <2>2, <2>3 DEF AreValues
<1>7. g[k] = f[k]
  BY <1>2
<1> HIDE DEF g
<1>8. Number(d) = g[k]
  BY <1>6, NumberIs
<1>9. Number(e) = f[k + 1]
  BY <1>3, <1>4, <1>5, NumberIs
<1>10. f[k + 1] = 10 * f[k] + DigitValue(c)
  <2>1. k + 1 \in 1..Len(e) /\ (k + 1) - 1 = k
    BY <1>2, <1>3
  <2>2. f[k + 1] = 10 * f[(k + 1) - 1] + DigitValue(e[k + 1])
    BY <1>5, <2>1 DEF AreValues
  <2> QED BY <1>3, <2>1, <2>2
<1> QED BY <1>4, <1>7, <1>8, <1>9, <1>10 DEF e

LEMMA Tens ==
    ASSUME NEW n \in Nat
    PROVE  /\ n \div 10 \in Nat /\ n % 10 \in 0..9 /\ n = 10 * (n \div 10) + (n % 10)
           /\ n >= 10 => n \div 10 < n
  OBVIOUS

\* What Printed says of the numbers up to m.
ArePrinted(g, m) ==
    /\ g \in [0..m -> Text]
    /\ \A n \in 0..m :
          g[n] = IF n < 10 THEN <<Decimals[n + 1]>>
                 ELSE Append(g[n \div 10], Decimals[(n % 10) + 1])

LEMMA OneChar == \A i \in 0..9 : <<Decimals[i + 1]>> \in Text
<1>1. \A i \in 0..9 : Decimals[i + 1] \in Char
  BY DigitFacts
<1>2. \A c \in Char : <<c>> \in Seq(Char)
  OBVIOUS
<1> QED BY <1>1, <1>2 DEF Text

LEMMA OneMoreChar == \A s \in Text : \A i \in 0..9 : Append(s, Decimals[i + 1]) \in Text
<1>1. \A i \in 0..9 : Decimals[i + 1] \in Char
  BY DigitFacts
<1>2. \A s \in Seq(Char), c \in Char : Append(s, c) \in Seq(Char)
  BY AppendProperties
<1> QED BY <1>1, <1>2 DEF Text

LEMMA PrintedExist ==
    ASSUME NEW m \in Nat
    PROVE  \E g : ArePrinted(g, m)
<1> DEFINE T == {k \in Nat : ~ \E g : ArePrinted(g, k)}
<1> SUFFICES ASSUME T # {} PROVE FALSE
  OBVIOUS
<1>1. PICK k \in T : \A j \in T : k <= j
  BY Least
<1>2. k \in Nat /\ ~ \E g : ArePrinted(g, k)
  OBVIOUS
<1>3. CASE k = 0
  <2> DEFINE g == [n \in 0..0 |-> <<Decimals[n + 1]>>]
  <2>1. \A n \in 0..0 : n < 10 /\ n \in 0..9
    OBVIOUS
  <2>2. g \in [0..0 -> Text]
    BY <2>1, OneChar
  <2>3. \A n \in 0..0 : g[n] = <<Decimals[n + 1]>>
    OBVIOUS
  <2> HIDE DEF g
  <2>4. ArePrinted(g, 0)
    BY <2>1, <2>2, <2>3 DEF ArePrinted
  <2> QED BY <1>2, <1>3, <2>4
<1>4. CASE k # 0
  <2>1. PICK j \in Nat : k = j + 1
    <3>1. k - 1 \in Nat /\ k = (k - 1) + 1
      BY <1>2, <1>4
    <3> QED BY <3>1
  <2>2. ~(k <= j)
    BY <2>1
  <2>3. PICK f : ArePrinted(f, j)
    BY <1>1, <2>2
  <2> DEFINE v == IF k < 10 THEN <<Decimals[k + 1]>> ELSE Append(f[k \div 10], Decimals[(k % 10) + 1])
             g == [n \in 0..k |-> IF n = k THEN v ELSE f[n]]
  <2>4. k >= 10 => k \div 10 \in 0..j
    BY <1>2, <2>1, Tens
  <2>5. v \in Text
    <3>1. CASE k < 10
      <4>1. k \in 0..9
        BY <1>2, <3>1
      <4> QED BY <3>1, <4>1, OneChar
    <3>2. CASE ~(k < 10)
      <4>1. k \div 10 \in 0..j /\ k % 10 \in 0..9
        BY <1>2, <2>4, <3>2, Tens
      <4>2. f[k \div 10] \in Text
        BY <2>3, <4>1 DEF ArePrinted
      <4> QED BY <3>2, <4>1, <4>2, OneMoreChar
    <3> QED BY <3>1, <3>2
  <2>6. \A n \in 0..k : n # k => n \in 0..j
    BY <1>2, <2>1
  <2>7. g \in [0..k -> Text]
    <3> HIDE DEF v
    <3> QED BY <2>3, <2>5, <2>6 DEF ArePrinted
  <2>8. \A n \in 0..j : n \in 0..k /\ g[n] = f[n]
    <3>1. \A n \in 0..j : n \in 0..k /\ n # k
      BY <2>1
    <3> HIDE DEF v
    <3> QED BY <3>1
  <2>9. ASSUME NEW n \in 0..k
        PROVE  g[n] = IF n < 10 THEN <<Decimals[n + 1]>>
                      ELSE Append(g[n \div 10], Decimals[(n % 10) + 1])
    <3>1. CASE n = k
      <4>1. g[n] = v
        BY <3>1
      <4>2. ~(k < 10) => g[k \div 10] = f[k \div 10]
        <5> HIDE DEF g
        <5> QED BY <1>2, <2>4, <2>8
      <4> HIDE DEF g
      <4> QED BY <3>1, <4>1, <4>2
    <3>2. CASE n # k
      <4>1. n \in 0..j /\ n \in Nat
        BY <2>6, <3>2
      <4>2. f[n] = IF n < 10 THEN <<Decimals[n + 1]>>
                   ELSE Append(f[n \div 10], Decimals[(n % 10) + 1])
        BY <2>3, <4>1 DEF ArePrinted
      <4>3. ~(n < 10) => n \div 10 \in 0..j
        BY <2>1, <4>1, Tens
      <4> HIDE DEF g
      <4> QED BY <2>8, <4>1, <4>2, <4>3
    <3> QED BY <3>1, <3>2
  <2> HIDE DEF g
  <2>10. ArePrinted(g, k)
    BY <2>7, <2>9 DEF ArePrinted
  <2> QED BY <1>2, <2>10
<1> QED BY <1>3, <1>4

LEMMA PrintedAgree ==
    ASSUME NEW i \in Nat, NEW j \in Nat, NEW f, ArePrinted(f, i), NEW g, ArePrinted(g, j),
           NEW n \in Nat, n <= i, n <= j
    PROVE  f[n] = g[n]
<1> DEFINE T == {k \in Nat : k <= i /\ k <= j /\ f[k] # g[k]}
<1> SUFFICES ASSUME T # {} PROVE FALSE
  OBVIOUS
<1>1. PICK k \in T : \A l \in T : k <= l
  BY Least
<1>2. k \in 0..i /\ k \in 0..j /\ k \in Nat
  OBVIOUS
<1>3. /\ f[k] = IF k < 10 THEN <<Decimals[k + 1]>> ELSE Append(f[k \div 10], Decimals[(k % 10) + 1])
      /\ g[k] = IF k < 10 THEN <<Decimals[k + 1]>> ELSE Append(g[k \div 10], Decimals[(k % 10) + 1])
  BY <1>2 DEF ArePrinted
<1>4. k >= 10 => f[k \div 10] = g[k \div 10]
  <2> SUFFICES ASSUME k >= 10 PROVE f[k \div 10] = g[k \div 10]
    OBVIOUS
  <2>1. PICK l \in Nat : l = k \div 10 /\ l < k
    BY <1>2, Tens
  <2>2. l <= i /\ l <= j /\ ~(k <= l)
    BY <1>2, <2>1
  <2>3. f[l] = g[l]
    BY <1>1, <2>2
  <2> QED BY <2>1, <2>3
<1>5. f[k] = g[k]
  BY <1>2, <1>3, <1>4
<1> QED BY <1>5

LEMMA PrintedIs ==
    \A n \in Nat : Printed[n] = IF n < 10 THEN <<Decimals[n + 1]>>
                                ELSE Append(Printed[n \div 10], Decimals[(n % 10) + 1])
<1> DEFINE Same(f) == f = [n \in Nat |-> IF n < 10 THEN <<Decimals[n + 1]>>
                                         ELSE Append(f[n \div 10], Decimals[(n % 10) + 1])]
           G(n) == CHOOSE g : ArePrinted(g, n)
           F == [n \in Nat |-> G(n)[n]]
<1>1. ASSUME NEW n \in Nat PROVE ArePrinted(G(n), n)
  BY PrintedExist
<1> HIDE DEF G
<1>2. ASSUME NEW n \in Nat
      PROVE  F[n] = IF n < 10 THEN <<Decimals[n + 1]>>
                    ELSE Append(F[n \div 10], Decimals[(n % 10) + 1])
  <2>1. F[n] = G(n)[n]
    OBVIOUS
  <2>2. G(n)[n] = IF n < 10 THEN <<Decimals[n + 1]>>
                  ELSE Append(G(n)[n \div 10], Decimals[(n % 10) + 1])
    <3>1. n \in 0..n
      OBVIOUS
    <3> QED BY <1>1, <3>1 DEF ArePrinted
  <2>3. CASE n >= 10
    <3>1. PICK l \in Nat : l = n \div 10 /\ l < n
      BY <2>3, Tens
    <3>2. l <= n /\ l <= l
      BY <3>1
    <3>3. G(n)[l] = G(l)[l]
      BY <1>1, <3>2, PrintedAgree
    <3>4. F[l] = G(l)[l]
      OBVIOUS
    <3> HIDE DEF F
    <3> QED BY <2>1, <2>2, <2>3, <3>1, <3>3, <3>4
  <2>4. CASE n < 10
    <3> HIDE DEF F
    <3> QED BY <2>1, <2>2, <2>4
  <2> QED BY <2>3, <2>4
<1>3. Same(F)
  <2>1. F = [n \in Nat |-> F[n]]
    OBVIOUS
  <2> HIDE DEF F
  <2> QED BY <1>2, <2>1
<1>4. Same(Printed)
  <2>1. Printed = CHOOSE f : Same(f)
    BY DEF Printed
  <2> HIDE DEF Same, F
  <2> QED BY <1>3, <2>1
<1> QED BY <1>4

\* The digits of a number stand for the number.
LEMMA PrintedFacts ==
    ASSUME NEW n \in Nat
    PROVE  /\ AreDecimals(Printed[n]) /\ Printed[n] # <<>> /\ Number(Printed[n]) = n
<1> DEFINE P(k) == AreDecimals(Printed[k]) /\ Printed[k] # <<>> /\ Number(Printed[k]) = k
           T == {k \in Nat : ~P(k)}
<1> SUFFICES ASSUME T # {} PROVE FALSE
  OBVIOUS
<1>1. PICK k \in T : \A l \in T : k <= l
  BY Least
<1>2. k \in Nat /\ ~P(k)
  OBVIOUS
<1>3. CASE k < 10
  <2>1. k \in 0..9 /\ Printed[k] = <<Decimals[k + 1]>>
    <3>1. k \in 0..9
      BY <1>2, <1>3
    <3>2. Printed[k] = IF k < 10 THEN <<Decimals[k + 1]>>
                       ELSE Append(Printed[k \div 10], Decimals[(k % 10) + 1])
      BY <1>2, PrintedIs
    <3> QED BY <1>3, <3>1, <3>2
  <2>2. IsDecimal(Decimals[k + 1]) /\ DigitValue(Decimals[k + 1]) = k
    BY <2>1, DigitFacts
  <2>3. AreDecimals(Printed[k]) /\ Number(Printed[k]) = k
    BY <2>1, <2>2, OneDigit
  <2>4. Printed[k] # <<>>
    <3>1. \A c : <<c>> # <<>>
      OBVIOUS
    <3> QED BY <2>1, <3>1
  <2> QED BY <1>2, <2>3, <2>4
<1>4. CASE ~(k < 10)
  <2>1. PICK l \in Nat, i \in 0..9 : l = k \div 10 /\ i = k % 10 /\ l < k /\ k = 10 * l + i
    BY <1>2, <1>4, Tens
  <2>2. ~(k <= l)
    BY <1>2, <2>1
  <2>3. P(l)
    BY <1>1, <2>2
  <2>4. Printed[k] = Append(Printed[l], Decimals[i + 1])
    BY <1>2, <1>4, <2>1, PrintedIs
  <2>5. IsDecimal(Decimals[i + 1]) /\ DigitValue(Decimals[i + 1]) = i
    BY DigitFacts
  <2>6. AreDecimals(Printed[k]) /\ Number(Printed[k]) = 10 * Number(Printed[l]) + i
    BY <2>3, <2>4, <2>5, OneMoreDigit
  <2>7. Printed[k] # <<>>
    <3>1. Printed[l] \in Seq(Char) /\ Len(Printed[l]) \in Nat
      BY <2>3, TextFacts DEF AreDecimals
    <3>2. Len(Append(Printed[l], Decimals[i + 1])) = Len(Printed[l]) + 1
      BY <3>1, DigitFacts, AppendProperties
    <3>3. Len(Printed[k]) # 0 /\ Len(<<>>) = 0
      BY <2>4, <3>1, <3>2, EmptySeq
    <3> QED BY <3>3
  <2> QED BY <1>2, <2>1, <2>3, <2>6, <2>7
<1> QED BY <1>3, <1>4

(***************************************************************************)
(* The url that the constructor makes.                                      *)
(***************************************************************************)

PortOf(protocol, port) == IF port = <<>> THEN DefaultPort(protocol) ELSE Number(Tail(port))

LEMMA DefaultPortFacts == \A p : DefaultPort(p) \in 0..MaxPort
  BY UrlConstants DEF DefaultPort

LEMMA PortFacts ==
    ASSUME NEW h, NEW o, NEW a, NEW q, Fits(h, o, a, q), NEW p
    PROVE  PortOf(p, o) \in Nat
<1>1. CASE o = <<>>
  <2>1. DefaultPort(p) \in 0..MaxPort /\ MaxPort \in Nat
    BY DefaultPortFacts, UrlConstants
  <2> QED BY <1>1, <2>1 DEF PortOf
<1>2. CASE o # <<>>
  <2>1. o \in Seq(Char) /\ Len(o) \in Nat /\ Len(o) > 1 /\ \A i \in 2..Len(o) : IsDecimal(o[i])
    BY <1>2, TextFacts DEF Fits
  <2>2. /\ Tail(o) \in Seq(Char) /\ Len(Tail(o)) = Len(o) - 1
        /\ \A i \in 1..Len(Tail(o)) : Tail(o)[i] = o[i + 1]
    BY <1>2, <2>1, HeadTailProperties
  <2>3. \A i \in 1..Len(Tail(o)) : i + 1 \in 2..Len(o)
    BY <2>1, <2>2
  <2>4. AreDecimals(Tail(o))
    BY <2>1, <2>2, <2>3 DEF AreDecimals, Text
  <2> QED BY <1>2, <2>4, NumberFacts DEF PortOf
<1> QED BY <1>1, <1>2

\* What the constructor makes of a protocol and four parts.
LEMMA ComponentsOf ==
    ASSUME NEW p \in Text, NEW h, NEW o, NEW a, NEW q, Fits(h, o, a, q)
    PROVE  Components(p, h \o o \o a \o q) =
               IF PortOf(p, o) > MaxPort THEN NoUrl
               ELSE [protocol |-> p, host |-> h, port |-> PortOf(p, o),
                     path |-> IF a = <<>> THEN <<"/">> ELSE a, query |-> q]
<1>1. PICK s \in Text : /\ s = h \o o \o a \o q /\ Matches[s]
                        /\ HostPart(s) = h /\ PortPart(s) = o /\ PathPart(s) = a /\ QueryPart(s) = q
  <2> DEFINE w == h \o o \o a \o q
  <2>1. /\ w \in Text /\ Matches[w]
        /\ HostPart(w) = h /\ PortPart(w) = o /\ PathPart(w) = a /\ QueryPart(w) = q
    BY Recognized
  <2> HIDE DEF w
  <2>2. PICK s \in Text : s = w
    BY <2>1
  <2> QED BY <2>1, <2>2 DEF w
<1>2. Components(p, s) =
          (LET port == IF PortPart(s) = <<>> THEN DefaultPort(p) ELSE Number(Tail(PortPart(s)))
           IN  IF ~Matches[s] \/ ~InRange(port)
               THEN NoUrl
               ELSE [protocol |-> p, host |-> HostPart(s), port |-> port,
                     path |-> IF PathPart(s) = <<>> THEN <<"/">> ELSE PathPart(s),
                     query |-> QueryPart(s)])
  BY DEF Components
<1>3. PortOf(p, o) \in Nat /\ MaxPort \in Nat
  BY PortFacts, UrlConstants
<1>4. InRange(PortOf(p, o)) <=> ~(PortOf(p, o) > MaxPort)
  BY <1>3 DEF InRange
<1>5. PortOf(p, o) = IF PortPart(s) = <<>> THEN DefaultPort(p) ELSE Number(Tail(PortPart(s)))
  BY <1>1 DEF PortOf
<1> QED BY <1>1, <1>2, <1>4, <1>5

Regroups(s, t, u) == (s \o t) \o u = s \o (t \o u)

LEMMA Associative ==
    ASSUME NEW s \in Text, NEW t \in Text, NEW u \in Text
    PROVE  Regroups(s, t, u)
  BY ConcatAssociative DEF Text, Regroups

\* What precedes the four parts of a url may be taken apart.
Separates(x, h, o, a, q) == x \o h \o o \o a \o q = x \o (h \o o \o a \o q)

LEMMA Separate ==
    ASSUME NEW x \in Text, NEW h \in Text, NEW o \in Text, NEW a \in Text, NEW q \in Text
    PROVE  Separates(x, h, o, a, q)
<1>1. PICK y \in Text : y = h \o o
  BY Joined
<1>2. PICK z \in Text : z = y \o a
  BY Joined
<1>3. Regroups(x, h, o) /\ Regroups(x, y, a) /\ Regroups(x, z, q)
  BY Associative
<1>4. (x \o h) \o o = x \o y
  BY <1>1, <1>3 DEF Regroups
<1>5. (x \o y) \o a = x \o z
  BY <1>2, <1>3 DEF Regroups
<1>6. (x \o z) \o q = x \o (z \o q)
  BY <1>3 DEF Regroups
<1> QED BY <1>1, <1>2, <1>4, <1>5, <1>6 DEF Separates

LEMMA HttpText == PROTOCOL_HTTP \in Text /\ PROTOCOL_HTTP # <<>>
<1>1. "http" \in Char
  BY UrlConstants DEF Char
<1>2. \A c \in Char : <<c>> \in Seq(Char) /\ <<c>> # <<>>
  OBVIOUS
<1> QED BY <1>1, <1>2 DEF Text, PROTOCOL_HTTP

LEMMA DocumentedUrl ==
    ASSUME NEW parts, IsUrl(parts), OneScheme(parts)
    PROVE  /\ get_url_components[Written(parts)] =
                  IF Meant(parts).port > MaxPort THEN NoUrl ELSE Meant(parts)
           /\ Meant(parts) # NoUrl
<1> DEFINE P == parts.protocol
           h == parts.host
           o == parts.port
           a == parts.path
           q == parts.query
           p == IF P = <<>> THEN PROTOCOL_HTTP ELSE SubSeq(P, 1, Len(P) - 3)
           s == h \o o \o a \o q
<1>1. P \in Text /\ Fits(h, o, a, q)
  <2>1. h \in Text /\ DOMAIN h = 1..Len(h) /\ a \in Text /\ DOMAIN a = 1..Len(a) /\ P \in Text
    BY TextFacts DEF IsUrl
  <2> QED BY <2>1 DEF IsUrl, Fits
<1>2. Quiet(a \o q)
  <2>1. PICK r \in Text : r = a \o q
    BY <1>1, Joined DEF Fits
  <2>2. Len(r) \in Nat
    BY TextFacts
  <2>3. \A i \in 1..(Len(r) - 2) : SubSeq(r, i, i + 2) # <<":", "/", "/">>
    BY <2>1 DEF OneScheme
  <2>4. \A i \in 1..(Len(r) - 3) : i \in 1..(Len(r) - 2)
    BY <2>2
  <2>5. Quiet(r)
    BY <2>3, <2>4 DEF Quiet
  <2> QED BY <2>1, <2>5
<1>3. h \in Text /\ o \in Text /\ a \in Text /\ q \in Text /\ h # <<>>
  BY <1>1 DEF Fits
<1>4. p \in Text /\ get_url_components[Written(parts)] = Components(p, s)
  <2>1. CASE P = <<>>
    <3>1. p = PROTOCOL_HTTP /\ p \in Text
      BY <2>1, HttpText
    <3>2. Written(parts) = s
      <4>1. h \in Seq(Char)
        BY <1>3, TextFacts
      <4>2. <<>> \o h = h
        BY <4>1, ConcatEmptySeq
      <4>3. Written(parts) = P \o h \o o \o a \o q
        BY DEF Written
      <4> QED BY <2>1, <4>2, <4>3
    <3>3. get_url_components[s] = Components(PROTOCOL_HTTP, s)
      <4> HIDE DEF h, o, a, q
      <4> QED BY <1>1, <1>2, WithoutProtocol
    <3> QED BY <3>1, <3>2, <3>3
  <2>2. CASE P # <<>>
    <3>1. /\ Len(P) > 3 /\ SubSeq(P, Len(P) - 2, Len(P)) = <<":", "/", "/">>
          /\ Len(P) \in Nat /\ P \in Seq(Char)
      BY <1>1, <2>2, TextFacts DEF IsUrl
    <3>2. PICK n \in 1..Len(P) : n = Len(P) - 3 /\ n \in Nat /\ n # 0
      <4>1. \A k \in Nat : k > 3 => k - 3 \in 1..k /\ k - 3 \in Nat /\ k - 3 # 0
        OBVIOUS
      <4>2. Len(P) - 3 \in 1..Len(P) /\ Len(P) - 3 \in Nat /\ Len(P) - 3 # 0
        BY <3>1, <4>1
      <4> QED BY <4>2
    <3>3. n \in 0..Len(P) /\ n + 1 = Len(P) - 2 /\ Len(P) \in n..Len(P) /\ n \in 0..Len(P)
      BY <3>1, <3>2
    <3>4. p = SubSeq(P, 1, n)
      BY <2>2, <3>2
    <3>5. PICK v \in Text : v = SubSeq(P, 1, n) /\ Len(v) = n
      <4>1. 0 \in 0..Len(P) /\ n \in 0..Len(P) /\ 0 + 1 = 1 /\ n - 0 = n
        BY <3>1
      <4>2. SubSeq(P, 0 + 1, n) \in Text /\ Len(SubSeq(P, 0 + 1, n)) = n - 0
        <5> HIDE DEF P
        <5> QED BY <1>1, <4>1, Cut
      <4> QED BY <4>1, <4>2
    <3>6. v \o SubSeq(P, n + 1, Len(P)) = P
      <4>1. SubSeq(P, 1, n) \o SubSeq(P, n + 1, Len(P)) = SubSeq(P, 1, Len(P))
        <5>1. 1 \in 1..(Len(P) + 1) /\ n \in (1 - 1)..Len(P) /\ Len(P) \in n..Len(P)
          BY <3>1
        <5> HIDE DEF P
        <5> QED BY <3>1, <5>1, ConcatAdjacentSubSeq
      <4>2. SubSeq(P, 1, Len(P)) = P
        <5> HIDE DEF P
        <5> QED BY <3>1, SubSeqFull
      <4> QED BY <3>5, <4>1, <4>2
    <3>7. P = v \o <<":", "/", "/">>
      BY <3>1, <3>3, <3>6
    <3>8. v # <<>>
      <4>1. Len(v) # 0
        BY <3>2, <3>5
      <4> QED BY <4>1, TextFacts
    <3>9. Written(parts) = P \o s
      <4>1. Written(parts) = P \o h \o o \o a \o q
        BY DEF Written
      <4> HIDE DEF P, h, o, a, q
      <4>2. Separates(P, h, o, a, q)
        BY <1>1, <1>3, Separate
      <4> QED BY <4>1, <4>2 DEF Separates
    <3>10. get_url_components[(v \o <<":", "/", "/">>) \o s] = Components(v, s)
      <4> HIDE DEF h, o, a, q
      <4> QED BY <1>1, <1>2, <3>8, WithProtocol
    <3> QED BY <3>4, <3>5, <3>7, <3>9, <3>10
  <2> QED BY <2>1, <2>2
<1>5. Meant(parts) = [protocol |-> p, host |-> h, port |-> PortOf(p, o),
                      path |-> IF a = <<>> THEN <<"/">> ELSE a, query |-> q]
  <2>1. PortOf(p, o) =
            (CASE o # <<>> -> Number(Tail(o))
               [] o = <<>> /\ p = <<"http">> -> DEFAULT_PORT_HTTP
               [] o = <<>> /\ p = <<"https">> -> DEFAULT_PORT_HTTPS
               [] OTHER -> 0)
    <3> HIDE DEF p, o
    <3> QED BY DEF PortOf, DefaultPort, PROTOCOL_HTTP, PROTOCOL_HTTPS
  <2> QED BY <2>1 DEF Meant
<1>6. Meant(parts).port = PortOf(p, o) /\ Meant(parts).host = h
  BY <1>5
<1>7. Meant(parts) # NoUrl
  BY <1>3, <1>6 DEF NoUrl
<1>8. Components(p, s) = IF PortOf(p, o) > MaxPort THEN NoUrl ELSE Meant(parts)
  <2> HIDE DEF p, h, o, a, q
  <2> QED BY <1>1, <1>4, <1>5, ComponentsOf
<1> QED BY <1>4, <1>6, <1>7, <1>8

(***************************************************************************)
(* A url keeps what the caller wrote.                                       *)
(***************************************************************************)

UrlInv ==
    /\ request \in Requests
    /\ target = get_url_components[Written(request.parts)]
    /\ pc = "thrown" <=> target = NoUrl

LEMMA UrlStep ==
    Next => UNCHANGED <<request, target>> /\ pc # "thrown" /\ pc' # "thrown"
<1>1. Start \/ Deflate \/ Choose =>
          UNCHANGED <<request, target>> /\ pc # "thrown" /\ pc' # "thrown"
  BY DEF Start, Deflate, Choose
<1>2. WriteHeaders \/ OnWrite \/ OnHeaders =>
          UNCHANGED <<request, target>> /\ pc # "thrown" /\ pc' # "thrown"
  BY DEF WriteHeaders, OnWrite, OnHeaders
<1>3. (\E n \in 1..(answer.sent - Len(sink.data)) : OnBody(n)) =>
          UNCHANGED <<request, target>> /\ pc # "thrown" /\ pc' # "thrown"
  BY DEF OnBody
<1>4. (\E error \in {"none", "eof", "timed_out"} : CompleteRequest(error)) =>
          UNCHANGED <<request, target>> /\ pc # "thrown" /\ pc' # "thrown"
  BY DEF CompleteRequest
<1>5. GetData => UNCHANGED <<request, target>> /\ pc # "thrown" /\ pc' # "thrown"
  BY DEF GetData
<1>6. Inflate \/ Uncompress \/ Completed =>
          UNCHANGED <<request, target>> /\ pc # "thrown" /\ pc' # "thrown"
  BY DEF Inflate, Uncompress, Completed
<1> QED BY <1>1, <1>2, <1>3, <1>4, <1>5, <1>6 DEF Next

LEMMA UrlInvariant == Spec => []UrlInv
<1>1. Init => UrlInv
  BY DEF Init, UrlInv
<1>2. UrlInv /\ [Next]_vars => UrlInv'
  <2> SUFFICES ASSUME UrlInv, [Next]_vars PROVE UrlInv'
    OBVIOUS
  <2>1. CASE Next
    BY <2>1, UrlStep DEF UrlInv
  <2>2. CASE UNCHANGED vars
    BY <2>2 DEF UrlInv, vars
  <2> QED BY <2>1, <2>2
<1> QED BY <1>1, <1>2, PTL DEF Spec

\* For every url of the documented format, whatever its characters: the
\* constructor of url (get_url_components) finds the parts that were written, with
\* the default port of the protocol and the path "/" where they are missing, and
\* throws exactly if the port does not fit into uint16_t, unless the path or the
\* query contains "://".
THEOREM UrlCorrect == Spec => []UrlAsDocumented
<1>1. UrlInv => UrlAsDocumented
  <2> SUFFICES ASSUME UrlInv, OneScheme(request.parts)
               PROVE  IF Meant(request.parts).port > MaxPort
                      THEN pc = "thrown"
                      ELSE pc # "thrown" /\ target = Meant(request.parts)
    BY DEF UrlAsDocumented
  <2>1. PICK parts : parts = request.parts /\ IsUrl(parts)
    BY TransferConstants DEF UrlInv, IsRequest
  <2>2. /\ get_url_components[Written(parts)] =
               IF Meant(parts).port > MaxPort THEN NoUrl ELSE Meant(parts)
        /\ Meant(parts) # NoUrl
    BY <2>1, DocumentedUrl
  <2> QED BY <2>1, <2>2 DEF UrlInv
<1> QED BY <1>1, UrlInvariant, PTL

LEMMA WrittenText ==
    ASSUME NEW parts, IsUrl(parts)
    PROVE  Written(parts) \in Text
<1>1. PICK p \in Text, h \in Text, o \in Text, a \in Text, q \in Text :
          /\ p = parts.protocol /\ h = parts.host /\ o = parts.port
          /\ a = parts.path /\ q = parts.query
  BY DEF IsUrl
<1>2. p \o h \in Text
  BY Joined
<1>3. (p \o h) \o o \in Text
  BY <1>2, Joined
<1>4. ((p \o h) \o o) \o a \in Text
  BY <1>3, Joined
<1>5. (((p \o h) \o o) \o a) \o q \in Text
  BY <1>4, Joined
<1> QED BY <1>1, <1>5 DEF Written

LEMMA SchemeFacts ==
    ASSUME NEW s \in Text
    PROVE  IF SchemeEnds(s) = {} THEN Scheme[s] = 0
           ELSE Scheme[s] \in SchemeEnds(s) /\ \A j \in SchemeEnds(s) : j <= Scheme[s]
<1> DEFINE M == SchemeEnds(s)
<1>1. Len(s) \in Nat
  BY TextFacts
<1>2. M \subseteq Nat /\ \A j \in M : j <= Len(s)
  BY <1>1 DEF SchemeEnds
<1>3. Scheme[s] = IF M = {} THEN 0 ELSE CHOOSE m \in M : \A n \in M : m >= n
  BY DEF Scheme, Max
<1> HIDE DEF M
<1>4. CASE M = {}
  BY <1>3, <1>4 DEF M
<1>5. CASE M # {}
  <2>1. PICK m \in M : \A n \in M : n <= m
    BY <1>1, <1>2, <1>5, Greatest
  <2>2. \A n \in M : m >= n
    BY <1>2, <2>1
  <2>3. Scheme[s] \in M /\ \A n \in M : Scheme[s] >= n
    BY <1>3, <1>5, <2>2
  <2>4. \A n \in M : n <= Scheme[s]
    BY <1>2, <2>3
  <2> QED BY <1>5, <2>3, <2>4 DEF M
<1> QED BY <1>4, <1>5

\* The constructor took a protocol and four parts, and no "://" behind the port
\* has a match behind it.
LEMMA Origin ==
    ASSUME NEW s \in Text, get_url_components[s] # NoUrl
    PROVE  \E p, h, o, a, q :
               /\ p \in Text /\ p # <<>> /\ Fits(h, o, a, q) /\ Quiet(a \o q)
               /\ get_url_components[s] = Components(p, h \o o \o a \o q)
<1>1. Len(s) \in Nat
  BY TextFacts
<1>2. PICK p \in Text, t \in Text, d \in 0..Len(s) :
          /\ p # <<>> /\ get_url_components[s] = Components(p, t)
          /\ t = SubSeq(s, d + 1, Len(s)) /\ \A j \in SchemeEnds(s) : j <= d
  <2>1. CASE SchemeEnds(s) = {}
    <3>1. get_url_components[s] = Components(PROTOCOL_HTTP, s)
      <4>1. Scheme[s] = 0
        BY <2>1, SchemeFacts
      <4> QED BY <4>1 DEF get_url_components
    <3>2. SubSeq(s, 0 + 1, Len(s)) = s /\ 0 \in 0..Len(s)
      <4>1. SubSeq(s, 1, Len(s)) = s
        BY TextFacts, SubSeqFull
      <4>2. 0 + 1 = 1 /\ 0 \in 0..Len(s)
        BY <1>1
      <4> QED BY <4>1, <4>2
    <3> QED BY <2>1, <3>1, <3>2, HttpText
  <2>2. CASE SchemeEnds(s) # {}
    <3>1. PICK k \in SchemeEnds(s) : k = Scheme[s] /\ \A j \in SchemeEnds(s) : j <= k
      BY <2>2, SchemeFacts
    <3>2. k \in 2..(Len(s) - 3)
      BY DEF SchemeEnds
    <3>3. get_url_components[s] = Components(SubSeq(s, 1, k - 1), SubSeq(s, k + 3, Len(s)))
      BY <1>1, <3>1, <3>2 DEF get_url_components
    <3>4. PICK d \in 0..Len(s) : d = k + 2
      <4>1. k + 2 \in 0..Len(s)
        BY <1>1, <3>2
      <4> QED BY <4>1
    <3>5. d + 1 = k + 3 /\ Len(s) \in d..Len(s) /\ \A j \in SchemeEnds(s) : j <= d
      <4>1. d + 1 = k + 3 /\ Len(s) \in d..Len(s)
        BY <1>1, <3>2, <3>4
      <4>2. \A j \in SchemeEnds(s) : j \in Nat
        BY <1>1 DEF SchemeEnds
      <4>3. \A j \in SchemeEnds(s) : j <= d
        BY <1>1, <3>1, <3>2, <3>4, <4>2
      <4> QED BY <4>1, <4>3
    <3>6. SubSeq(s, d + 1, Len(s)) \in Text
      BY <3>5, Cut
    <3>7. SubSeq(s, 1, k - 1) \in Text /\ SubSeq(s, 1, k - 1) # <<>>
      <4>1. 0 \in 0..Len(s) /\ k - 1 \in 0..Len(s) /\ 0 + 1 = 1 /\ (k - 1) - 0 # 0
        BY <1>1, <3>2
      <4>2. PICK e \in 0..Len(s) : e = k - 1
        BY <4>1
      <4>3. SubSeq(s, 0 + 1, e) \in Text /\ Len(SubSeq(s, 0 + 1, e)) = e - 0
        BY <4>1, Cut
      <4>4. SubSeq(s, 1, k - 1) \in Text /\ Len(SubSeq(s, 1, k - 1)) # 0
        BY <4>1, <4>2, <4>3
      <4> QED BY <4>4, TextFacts
    <3> QED BY <3>3, <3>5, <3>6, <3>7
  <2> QED BY <2>1, <2>2
<1>3. Matches[t]
  BY <1>2 DEF Components
<1>4. PICK h, o, a, q : Fits(h, o, a, q) /\ t = h \o o \o a \o q
  BY <1>3, Recognizes
<1>5. h \in Text /\ o \in Text /\ a \in Text /\ q \in Text /\ Len(h) \in Nat /\ Len(h) > 0
  BY <1>4, TextFacts DEF Fits
<1>6. PICK x \in Text : x = h \o o /\ Len(x) \in Nat /\ Len(x) > 0
  <2>1. h \o o \in Text /\ Len(h \o o) = Len(h) + Len(o) /\ Len(o) \in Nat
    BY <1>5, Joined, TextFacts
  <2>2. Len(h \o o) \in Nat /\ Len(h \o o) > 0
    BY <1>5, <2>1
  <2> QED BY <2>1, <2>2
<1>7. PICK r \in Text : r = a \o q /\ Len(r) \in Nat
  <2>1. a \o q \in Text
    BY <1>5, Joined
  <2> QED BY <2>1, TextFacts
<1>8. t = x \o r
  <2>1. Regroups(x, a, q)
    BY <1>5, Associative
  <2> QED BY <1>4, <1>6, <1>7, <2>1 DEF Regroups
<1>9. r = SubSeq(t, Len(x) + 1, Len(t)) /\ Len(t) = Len(x) + Len(r)
  BY <1>8, Halves, Joined
<1>10. r = SubSeq(s, (d + Len(x)) + 1, Len(s)) /\ d + Len(x) \in 0..Len(s)
  <2>1. Len(s) \in d..Len(s)
    BY <1>1
  <2>2. Len(t) = Len(s) - d
    BY <1>2, <2>1, Cut
  <2>3. /\ Len(x) + 1 \in Nat \ {0} /\ Len(t) \in Nat /\ Len(x) + 1 <= Len(t) + 1
        /\ Len(t) <= Len(t) /\ d + (Len(x) + 1) = (d + Len(x)) + 1 /\ d + Len(t) = Len(s)
        /\ d + Len(x) \in 0..Len(s)
    <3>1. Len(t) = Len(x) + Len(r)
      BY <1>9
    <3>2. Len(x) \in Nat
      BY <1>6
    <3>3. Len(r) \in Nat
      BY <1>7
    <3> QED BY <1>1, <2>2, <3>1, <3>2, <3>3
  <2>4. SubSeq(t, Len(x) + 1, Len(t)) = SubSeq(s, d + (Len(x) + 1), d + Len(t))
    BY <1>2, <2>3, CutOfCut
  <2> QED BY <1>9, <2>3, <2>4
<1>11. Quiet(r)
  <2>1. PICK m \in 0..Len(s) : m = d + Len(x)
    BY <1>10
  <2>2. m > 0 /\ \A j \in SchemeEnds(s) : j <= m
    <3>1. \A j \in SchemeEnds(s) : j \in Nat
      BY <1>1 DEF SchemeEnds
    <3> QED BY <1>1, <1>2, <1>6, <2>1, <3>1
  <2> QED BY <1>10, <2>1, <2>2, QuietEnd
<1> QED BY <1>2, <1>4, <1>7, <1>11

LEMMA Singles ==
    /\ <<"/">> \in Text /\ Len(<<"/">>) = 1 /\ <<"/">>[1] = "/" /\ <<"/">> # <<>>
    /\ <<":">> \in Text /\ Len(<<":">>) = 1 /\ <<":">>[1] = ":" /\ <<":">> # <<>>
<1>1. "/" \in Char /\ ":" \in Char
  BY DEF Char
<1>2. \A c \in Char : <<c>> \in Seq(Char) /\ Len(<<c>>) = 1 /\ <<c>>[1] = c /\ <<c>> # <<>>
  OBVIOUS
<1> QED BY <1>1, <1>2 DEF Text

LEMMA QuietSlash ==
    ASSUME NEW r \in Text, Quiet(r)
    PROVE  Quiet(<<"/">> \o r)
<1>1. PICK x \in Text : x = <<"/">> /\ Len(x) = 1 /\ x[1] = "/"
  BY Singles
<1>2. PICK s \in Text : s = x \o r
  BY Joined
<1>3. Len(r) \in Nat /\ Len(s) \in Nat
  BY TextFacts
<1>4. Len(s) = 1 + Len(r) /\ s[1] = "/"
  <2>1. Len(s) = Len(x) + Len(r) /\ \A i \in 1..Len(x) : s[i] = x[i]
    BY <1>2, Joined
  <2>2. 1 \in 1..Len(x)
    BY <1>1
  <2> QED BY <1>1, <2>1, <2>2
<1>5. 1 \in 0..Len(s) /\ r = SubSeq(s, 1 + 1, Len(s))
  <2>1. r = SubSeq(s, Len(x) + 1, Len(s))
    BY <1>2, Halves
  <2> QED BY <1>1, <1>3, <1>4, <2>1
<1>6. ASSUME NEW i \in 1..(Len(s) - 3), SubSeq(s, i, i + 2) = <<":", "/", "/">>,
             Matches[SubSeq(s, i + 3, Len(s))]
      PROVE  FALSE
  <2>1. i # 1
    <3>1. i \in 1..(Len(s) - 2)
      BY <1>3
    <3>2. s[i] = ":"
      BY <1>6, <3>1, SchemeAt
    <3> QED BY <1>4, <3>2
  <2>2. PICK j \in 1..(Len(r) - 3) : i = 1 + j
    <3>1. i - 1 \in 1..(Len(r) - 3) /\ i = 1 + (i - 1)
      BY <1>3, <1>4, <2>1
    <3> QED BY <3>1
  <2>3. /\ j \in Nat \ {0} /\ j + 2 \in Nat /\ j <= (j + 2) + 1 /\ j + 2 <= Len(r)
        /\ j + 3 \in Nat \ {0} /\ j + 3 <= Len(r) + 1 /\ Len(r) <= Len(r)
        /\ 1 + (j + 2) = i + 2 /\ 1 + (j + 3) = i + 3 /\ 1 + Len(r) = Len(s)
    BY <1>3, <1>4, <2>2
  <2>4. SubSeq(r, j, j + 2) = SubSeq(s, 1 + j, 1 + (j + 2))
    BY <1>5, <2>3, CutOfCut
  <2>5. SubSeq(r, j + 3, Len(r)) = SubSeq(s, 1 + (j + 3), 1 + Len(r))
    BY <1>3, <1>5, <2>3, CutOfCut
  <2>6. SubSeq(r, j, j + 2) = <<":", "/", "/">> /\ Matches[SubSeq(r, j + 3, Len(r))]
    BY <1>6, <2>2, <2>3, <2>4, <2>5
  <2> QED BY <2>6 DEF Quiet
<1>7. Quiet(s)
  BY <1>6 DEF Quiet
<1> QED BY <1>1, <1>2, <1>7

\* What to_string prints of a port.
LEMMA PrintedPort ==
    ASSUME NEW n \in Nat
    PROVE  LET o == <<":">> \o Printed[n]
           IN  /\ o \in Text /\ o # <<>> /\ Len(o) > 1 /\ o[1] = ":"
               /\ \A i \in 2..Len(o) : IsDecimal(o[i])
               /\ Number(Tail(o)) = n
<1>1. PICK d \in Text : /\ d = Printed[n] /\ AreDecimals(d) /\ d # <<>> /\ Number(d) = n
                        /\ Len(d) \in Nat /\ Len(d) # 0
  <2>1. AreDecimals(Printed[n]) /\ Printed[n] # <<>> /\ Number(Printed[n]) = n
    BY PrintedFacts
  <2>2. Printed[n] \in Text
    BY <2>1 DEF AreDecimals
  <2>3. Len(Printed[n]) \in Nat /\ Len(Printed[n]) # 0
    BY <2>1, <2>2, TextFacts
  <2> QED BY <2>1, <2>2, <2>3
<1>2. PICK x \in Text : x = <<":">> /\ Len(x) = 1 /\ x[1] = ":"
  BY Singles
<1>3. PICK o \in Text : o = x \o d
  BY Joined
<1>4. /\ Len(o) = Len(x) + Len(d) /\ \A i \in 1..Len(x) : o[i] = x[i]
      /\ \A i \in 1..Len(d) : o[Len(x) + i] = d[i]
  BY <1>3, Joined
<1>5. Len(o) = 1 + Len(d) /\ Len(o) > 1 /\ o[1] = ":" /\ \A i \in 1..Len(d) : o[1 + i] = d[i]
  <2>1. 1 \in 1..Len(x)
    BY <1>2
  <2>2. o[1] = ":"
    BY <1>2, <1>4, <2>1
  <2>3. \A i \in 1..Len(d) : o[1 + i] = d[i]
    BY <1>2, <1>4
  <2>4. Len(o) = 1 + Len(d) /\ Len(o) > 1
    BY <1>1, <1>2, <1>4
  <2> QED BY <2>2, <2>3, <2>4
<1>6. ASSUME NEW i \in 2..Len(o) PROVE IsDecimal(o[i])
  <2>1. PICK j \in 1..Len(d) : i = 1 + j
    <3>1. i - 1 \in 1..Len(d) /\ i = 1 + (i - 1)
      BY <1>1, <1>5
    <3> QED BY <3>1
  <2>2. o[1 + j] = d[j] /\ IsDecimal(d[j])
    BY <1>1, <1>5 DEF AreDecimals
  <2> QED BY <2>1, <2>2
<1>7. o # <<>>
  BY <1>1, <1>5, TextFacts
<1>8. Tail(o) = d
  <2>1. o \in Seq(Char)
    BY TextFacts
  <2>2. /\ Tail(o) \in Seq(Char) /\ Len(Tail(o)) = Len(o) - 1
        /\ \A i \in 1..Len(Tail(o)) : Tail(o)[i] = o[i + 1]
    BY <1>7, <2>1, HeadTailProperties
  <2>3. PICK w \in Text : w = Tail(o)
    BY <2>2 DEF Text
  <2>4. Len(w) = Len(d)
    BY <1>1, <1>5, <2>2, <2>3
  <2>5. \A i \in 1..Len(d) : i + 1 = 1 + i
    BY <1>1
  <2>6. \A i \in 1..Len(w) : w[i] = d[i]
    BY <1>5, <2>2, <2>3, <2>4, <2>5
  <2>7. w = d
    BY <2>4, <2>6, SameText
  <2> QED BY <2>3, <2>7
<1> QED BY <1>1, <1>2, <1>3, <1>5, <1>6, <1>7, <1>8

LEMMA RoundTrip ==
    ASSUME NEW s \in Text, NEW u, u = get_url_components[s], u # NoUrl,
           u.port # 0 \/ DefaultPort(u.protocol) = 0
    PROVE  get_url_components[to_string(u)] = u
<1>1. PICK p, h, o, a, q :
          /\ p \in Text /\ p # <<>> /\ Fits(h, o, a, q) /\ Quiet(a \o q)
          /\ u = Components(p, h \o o \o a \o q)
  BY Origin
<1>2. PICK n \in Nat : n = PortOf(p, o)
  BY <1>1, PortFacts
<1> DEFINE b == IF a = <<>> THEN <<"/">> ELSE a
           shown == n # 0 /\ n # DefaultPort(p)
           e == IF shown THEN <<":">> \o Printed[n] ELSE <<>>
<1>3. ~(n > MaxPort) /\ u = [protocol |-> p, host |-> h, port |-> n, path |-> b, query |-> q]
  <2>1. u = IF PortOf(p, o) > MaxPort THEN NoUrl
            ELSE [protocol |-> p, host |-> h, port |-> PortOf(p, o), path |-> b, query |-> q]
    BY <1>1, ComponentsOf
  <2> QED BY <1>2, <2>1
<1>4. h \in Text /\ o \in Text /\ a \in Text /\ q \in Text
  BY <1>1 DEF Fits
<1>5. /\ e \in Text
      /\ e # <<>> => Len(e) > 1 /\ e[1] = ":" /\ \A i \in 2..Len(e) : IsDecimal(e[i])
      /\ PortOf(p, e) = n
  <2>1. CASE shown
    <3>1. /\ e \in Text /\ e # <<>> /\ Len(e) > 1 /\ e[1] = ":"
          /\ \A i \in 2..Len(e) : IsDecimal(e[i]) /\ Number(Tail(e)) = n
      <4>1. e = <<":">> \o Printed[n]
        BY <2>1
      <4> HIDE DEF e
      <4>2. PICK w : w = <<":">> \o Printed[n]
        OBVIOUS
      <4>3. /\ w \in Text /\ w # <<>> /\ Len(w) > 1 /\ w[1] = ":"
            /\ \A i \in 2..Len(w) : IsDecimal(w[i])
            /\ Number(Tail(w)) = n
        BY <4>2, PrintedPort
      <4> QED BY <4>1, <4>2, <4>3
    <3> HIDE DEF e
    <3> QED BY <3>1 DEF PortOf
  <2>2. CASE ~shown
    <3>1. e = <<>> /\ <<>> \in Text
      BY <2>2, EmptySeq DEF Text
    <3>2. u.port = n /\ u.protocol = p
      BY <1>3
    <3>3. n = DefaultPort(p)
      BY <2>2, <3>2
    <3> HIDE DEF e
    <3> QED BY <3>1, <3>3 DEF PortOf
  <2> QED BY <2>1, <2>2
<1>6. b \in Text /\ b # <<>> /\ b[1] = "/" /\ \A i \in 1..Len(b) : b[i] # "?"
  <2>1. CASE a = <<>>
    <3>1. b = <<"/">>
      BY <2>1
    <3> HIDE DEF b
    <3>2. b \in Text /\ b # <<>> /\ Len(b) = 1 /\ b[1] = "/"
      BY <3>1, Singles
    <3>3. \A i \in 1..Len(b) : i = 1
      BY <3>2
    <3> QED BY <3>2, <3>3
  <2>2. CASE a # <<>>
    BY <1>1, <2>2 DEF Fits
  <2> QED BY <2>1, <2>2
<1>7. Quiet(b \o q)
  <2>1. CASE a = <<>>
    <3>1. a \o q = q
      <4>1. q \in Seq(Char)
        BY <1>4, TextFacts
      <4> QED BY <2>1, <4>1, ConcatEmptySeq
    <3>2. Quiet(q)
      BY <1>1, <3>1
    <3> QED BY <1>4, <2>1, <3>2, QuietSlash
  <2>2. CASE a # <<>>
    BY <1>1, <2>2
  <2> QED BY <2>1, <2>2
<1> HIDE DEF b
<1>8. to_string(u) = p \o <<":", "/", "/">> \o h \o e \o b \o q
  <2>1. u.protocol = p /\ u.host = h /\ u.port = n /\ u.path = b /\ u.query = q
    BY <1>3
  <2>2. ShowsPort(u) <=> shown
    BY <2>1 DEF ShowsPort
  <2>3. (IF ShowsPort(u) THEN <<":">> \o Printed[u.port] ELSE <<>>) = e
    BY <2>1, <2>2
  <2> HIDE DEF e, shown
  <2> QED BY <2>1, <2>3 DEF to_string
<1> HIDE DEF e
<1>9. Fits(h, e, b, q)
  BY <1>1, <1>5, <1>6 DEF Fits
<1>10. to_string(u) = (p \o <<":", "/", "/">>) \o (h \o e \o b \o q)
  <2>1. PICK y \in Text : y = p \o <<":", "/", "/">>
    BY <1>1, SchemeText, Joined
  <2>2. Separates(y, h, e, b, q)
    BY <1>4, <1>5, <1>6, Separate
  <2> QED BY <1>8, <2>1, <2>2 DEF Separates
<1>11. get_url_components[to_string(u)] = Components(p, h \o e \o b \o q)
  <2>1. get_url_components[(p \o <<":", "/", "/">>) \o (h \o e \o b \o q)]
            = Components(p, h \o e \o b \o q)
    BY <1>1, <1>7, <1>9, WithProtocol
  <2> QED BY <1>10, <2>1
<1>12. Components(p, h \o e \o b \o q) =
          IF PortOf(p, e) > MaxPort THEN NoUrl
          ELSE [protocol |-> p, host |-> h, port |-> PortOf(p, e),
                path |-> IF b = <<>> THEN <<"/">> ELSE b, query |-> q]
  BY <1>1, <1>9, ComponentsOf
<1> QED BY <1>3, <1>5, <1>6, <1>11, <1>12

\* For every url of the documented format: the string that to_string prints is
\* parsed into the url it was printed from, although the port is left out if it is
\* the default one, the path was added if it was missing, and the path or the query
\* may contain "://"; except that a port 0 that was asked for is not printed.
THEOREM RoundTripCorrect == Spec => []UrlRoundTrip
<1>1. UrlInv => UrlRoundTrip
  <2> SUFFICES ASSUME UrlInv, pc = "start", target.port # 0 \/ DefaultPort(target.protocol) = 0
               PROVE  get_url_components[to_string(target)] = target
    BY DEF UrlRoundTrip
  <2>1. PICK s \in Text : target = get_url_components[s]
    <3>1. IsUrl(request.parts)
      BY TransferConstants DEF UrlInv, IsRequest
    <3>2. Written(request.parts) \in Text
      BY <3>1, WrittenText
    <3> QED BY <3>2 DEF UrlInv
  <2>2. target # NoUrl
    BY DEF UrlInv
  <2>3. PICK u : u = target
    OBVIOUS
  <2>4. get_url_components[to_string(u)] = u
    BY <2>1, <2>2, <2>3, RoundTrip
  <2> QED BY <2>3, <2>4
<1> QED BY <1>1, UrlInvariant, PTL
=============================================================================
