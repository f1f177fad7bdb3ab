------------------------------ MODULE Transfer ------------------------------
(* What a request carries to the server and a response back to the caller:  *)
(* the url (Url), the body source and the compression of the request body   *)
(* (data_source.cpp, compression.cpp), print_request_headers and the loop   *)
(* of on_write (http_client_connection.h), and the body sink with the       *)
(* decompression of the response body (data_sink.cpp, compression.cpp), for *)
(* one request and the attempts the request manager makes at it.            *)
(*                                                                          *)
(* A body of n bytes is <<1, ..., n>>; its compressed form of c bytes is    *)
(* <<-1, ..., -c>>.  zlib is external: what it writes per call depends on   *)
(* the space it is given, and where it returns the end of the stream when   *)
(* the output fills that space exactly is left open.  It notices damaged    *)
(* input late, at an invalid code or at the checksum, and has then written  *)
(* bytes that nobody compressed (Wrong).                                    *)
EXTENDS Url

CONSTANTS
    Requests,     \* what callers ask for and servers may answer to it:
                  \* [parts, post, policy, answers], with a set of
                  \* answers [encoding, size, packed, sent, intact], where
                  \* intact is FALSE if its compressed data are damaged
    Packed,       \* sizes that a compressed body may have
    MaxWrong,     \* bound: wrong bytes that damaged input decodes to
    BlockSize,    \* stands for the 1024 bytes of on_write
    OutBuffer,    \* stands for the 32768 bytes of outbuffer
    MaxAttempts   \* bound: attempts at the request

\* The encodings that the body sink decodes.
Encodings == {"gzip", "deflate"}

\* An answer whose body of size bytes takes packed bytes on the wire, of which
\* sent are sent, in an encoding or, if it names none or one that the client
\* does not know, as it is.
IsAnswer(a) ==
    /\ a.encoding \in STRING /\ a.encoding # "unanswered"
    /\ {a.size, a.packed, a.sent} \subseteq Nat /\ a.sent <= a.packed
    /\ a.intact \in BOOLEAN
    /\ IF a.encoding \in Encodings THEN a.packed > 0 ELSE a.size = a.packed

\* The parts of a url as url.h documents it:
\* [protocol://]host[:port][/path][?query].
IsUrl(parts) ==
    /\ {parts.protocol, parts.host, parts.port, parts.path, parts.query} \subseteq Text
    /\ parts.protocol # <<>> =>
           /\ Len(parts.protocol) > 3
           /\ SubSeq(parts.protocol, Len(parts.protocol) - 2, Len(parts.protocol))
                  = <<":", "/", "/">>
    /\ parts.host # <<>> /\ \A i \in DOMAIN parts.host : IsHostChar(parts.host[i])
    /\ parts.port # <<>> =>
           /\ Len(parts.port) > 1 /\ parts.port[1] = ":"
           /\ \A i \in 2..Len(parts.port) : IsDecimal(parts.port[i])
    /\ parts.path # <<>> => parts.path[1] = "/"
    /\ \A i \in DOMAIN parts.path : parts.path[i] # "?"
    /\ parts.query # <<>> => parts.query[1] = "?"

IsRequest(r) ==
    /\ IsUrl(r.parts)
    /\ r.post \in Nat
    /\ r.policy \in {"never", "when_better", "always"}
    /\ \A a \in r.answers : IsAnswer(a)

ASSUME TransferConstants ==
    /\ {BlockSize, OutBuffer, MaxAttempts} \cup Packed \subseteq Nat \ {0}
    /\ MaxWrong \in Nat
    /\ \A r \in Requests : IsRequest(r)

VARIABLES
    request,    \* http_request, as the caller made it
    target,     \* m_url
    attempt,
    pc,         \* see Control
    packed,     \* zlib: size of the compressed form of what is being compressed
    buffer,     \* result in compress, decompress_gzip and decompress_deflate
    ret,        \* what the last call of zlib returned
    inflated,   \* zlib: what the sink's bytes decode to, up to their end or an error
    source,     \* m_body_source: m_data, how much was read, and the encoding
    server,     \* the request as it arrived on the connection of this attempt
    answer,     \* the response to this attempt
    sink,       \* m_body_sink
    size,       \* the size of the buffer in decompress_deflate
    ec,         \* what complete_request was called with
    result      \* m_result.data

zlib == <<packed, buffer, ret, inflated, size>>
incoming == <<answer, sink>>
vars == <<request, target, attempt, pc, zlib, source, server, incoming, ec, result>>

\* http_content::start; compress; headers are being
\* written; a block of the body is; waiting for the response and reading it;
\* get_data and its two loops; the completion; the caller has the result, or
\* the exception of url.
Control == {"start", "compress", "headers", "body", "response", "decode",
            "gunzip", "uncompress", "completed", "done", "thrown"}

Bytes(n) == [i \in 1..n |-> i]
Compressed(n) == [i \in 1..n |-> -i]
Wrong(n) == [i \in 1..n |-> 0]
Smaller(m, n) == IF m < n THEN m ELSE n

NoSource == [data |-> <<>>, read |-> 0, encoding |-> "none"]
NoServer == [host |-> <<>>, port |-> 0, resource |-> <<>>, length |-> 0, body |-> <<>>]
NoSink == [data |-> <<>>, compression |-> "none"]
NoAnswer == [encoding |-> "unanswered", size |-> 0, packed |-> 0, sent |-> 0, intact |-> TRUE]

\* The string the caller writes, in the format that url.h documents.
Written(parts) == parts.protocol \o parts.host \o parts.port \o parts.path \o parts.query

\* The caller has made the url, from which it makes the request.
Init ==
    /\ request \in Requests
    /\ target = get_url_components[Written(request.parts)]
    /\ attempt = 0
    /\ pc = IF target = NoUrl THEN "thrown" ELSE "start"
    /\ packed = 0 /\ buffer = <<>> /\ ret = "Z_OK" /\ inflated = <<>> /\ size = 0
    /\ source = NoSource /\ server = NoServer
    /\ answer = NoAnswer /\ sink = NoSink
    /\ ec = "none"
    /\ result = <<>>

-----------------------------------------------------------------------------
(* http_content::start and the body source.                                 *)

\* start: m_body_sink is new, and m_body_source is made of the post data again,
\* by way of compress unless the policy or an empty body rules it out.
Start ==
    /\ pc = "start"
    /\ attempt' = attempt + 1
    /\ sink' = NoSink /\ answer' = NoAnswer
    /\ server' = NoServer
    /\ buffer' = <<>> /\ ret' = "Z_OK" /\ inflated' = <<>> /\ size' = 0
    /\ ec' = "none" /\ result' = <<>>
    /\ IF request.policy # "never" /\ request.post # 0
       THEN /\ packed' \in Packed
            /\ pc' = "compress"
            /\ UNCHANGED source
       ELSE /\ source' = [NoSource EXCEPT !.data = Bytes(request.post)]
            /\ pc' = "headers"
            /\ UNCHANGED packed
    /\ UNCHANGED <<request, target>>

\* One call of deflate with Z_FINISH and what it added to the result.
Deflate ==
    /\ pc = "compress" /\ ret = "Z_OK"
    /\ LET out == Smaller(Len(buffer) + OutBuffer, packed)
       IN  \/ /\ buffer' = Compressed(out)
              /\ ret' \in IF out < packed THEN {"Z_OK"}
                          ELSE IF out = Len(buffer) + OutBuffer
                          THEN {"Z_OK", "Z_STREAM_END"} ELSE {"Z_STREAM_END"}
           \/ buffer' = buffer /\ ret' = "Z_STREAM_ERROR"
    /\ UNCHANGED <<request, target, attempt, pc, packed, inflated, size, source, server,
                   incoming, ec, result>>

\* compress_data_source keeps the compressed data.
Worthwhile(gzip, n) == gzip # <<>> /\ (request.policy = "always" \/ Len(gzip) < n)

\* What compress returns: nothing after an error.
CompressResult == IF ret = "Z_STREAM_END" THEN buffer ELSE <<>>

\* The source, once compress has ended.
Choose ==
    /\ pc = "compress" /\ ret # "Z_OK"
    /\ source' = IF Worthwhile(CompressResult, request.post)
                 THEN [data |-> CompressResult, read |-> 0, encoding |-> "gzip"]
                 ELSE [NoSource EXCEPT !.data = Bytes(request.post)]
    /\ pc' = "headers"
    /\ UNCHANGED <<request, target, attempt, zlib, server, incoming, ec, result>>

-----------------------------------------------------------------------------
(* http_client_connection.                                                  *)

\* write_headers: connect to the url's host and port, and print the method, the
\* path, Host and, for a body that is not empty, Content-Length.
WriteHeaders ==
    /\ pc = "headers"
    /\ server' = [NoServer EXCEPT !.host = target.host, !.port = target.port,
                                  !.resource = target.path,
                                  !.length = Len(source.data)]
    /\ pc' = "body"
    /\ UNCHANGED <<request, target, attempt, zlib, source, incoming, ec, result>>

\* Mutant of ReadCallback: a block that is not full is not seen.
ReadCallbackFull(s) ==
    IF s.read + BlockSize <= Len(s.data) THEN BlockSize ELSE 0

\* data_source::read_callback: how many bytes it reads.
ReadCallback(s) == Smaller(BlockSize, Len(s.data) - s.read)

\* on_write: the next block, or the response if there is none.
OnWrite ==
    /\ pc = "body"
    /\ LET count == ReadCallback(source)
           block == SubSeq(source.data, source.read + 1, source.read + count)
       IN  /\ pc' = IF count = 0 THEN "response" ELSE "body"
           /\ source' = [source EXCEPT !.read = @ + count]
           /\ server' = [server EXCEPT !.body = @ \o block]
    /\ UNCHANGED <<request, target, attempt, zlib, incoming, ec, result>>

\* The bytes of the body of an answer.
BodyOf(a) == IF a.encoding \in Encodings THEN Compressed(a.sent) ELSE Bytes(a.sent)

\* http_content::on_headers and data_sink::header_callback.
OnHeaders ==
    /\ pc = "response" /\ answer = NoAnswer
    /\ \E a \in request.answers :
          /\ answer' = a
          /\ sink' = [sink EXCEPT !.compression =
                          IF a.encoding \in Encodings THEN a.encoding ELSE "none"]
    /\ UNCHANGED <<request, target, attempt, pc, zlib, source, server, ec, result>>

\* on_body and data_sink::write_callback with the next n bytes.
OnBody(n) ==
    /\ pc = "response" /\ answer # NoAnswer
    /\ sink' = [sink EXCEPT !.data = @ \o SubSeq(BodyOf(answer), Len(@) + 1, Len(@) + n)]
    /\ UNCHANGED <<request, target, attempt, pc, zlib, source, server, answer, ec, result>>

\* complete_request: message_complete after the last byte of the body, or
\* on_error when the connection fails or the deadline passes.
CompleteRequest(error) ==
    /\ IF error = "none"
       THEN pc = "response" /\ answer # NoAnswer /\ Len(sink.data) = answer.sent
       ELSE pc \in {"headers", "body", "response"}
    /\ ec' = error
    /\ pc' = "decode"
    /\ UNCHANGED <<request, target, attempt, zlib, source, server, incoming, result>>

-----------------------------------------------------------------------------
(* data_sink::get_data.                                                     *)

\* zlib: how many bytes of the body the compressed bytes in the sink stand for.
Inflatable == (answer.size * Len(sink.data)) \div answer.packed
Whole == answer.intact /\ Len(sink.data) = answer.packed

\* zlib: what those bytes may decode to.  If they are damaged, that goes wrong
\* somewhere, or only the checksum does.
Decodings ==
    IF answer.intact
    THEN {Bytes(Inflatable)}
    ELSE {Bytes(n) \o Wrong(k) : n \in 0..Inflatable, k \in 0..MaxWrong}

GetData ==
    /\ pc = "decode"
    /\ buffer' = <<>> /\ ret' = "Z_OK"
    /\ size' = 2 * Len(sink.data)
    /\ inflated' \in IF sink.compression = "none" THEN {<<>>} ELSE Decodings
    /\ \/ /\ sink.compression = "none"
          /\ result' = sink.data /\ pc' = "completed"
       \/ /\ sink.compression = "gzip"
          /\ pc' = "gunzip" /\ UNCHANGED result
       \/ /\ sink.compression = "deflate"
          /\ pc' = IF sink.data = <<>> THEN "completed" ELSE "uncompress"
          /\ result' = <<>>
    /\ UNCHANGED <<request, target, attempt, packed, source, server, incoming, ec>>

\* Mutant of Again: the loop ends with the first block.
AgainNever(code) == FALSE

\* while (ret == Z_OK).
Again(code) == code = "Z_OK"

\* One call of inflate and what it added to the result.  With all its input it
\* ends the stream, perhaps in a further call if the output filled the buffer;
\* with a part of it, or with damaged input, it fails once it can go no further.
\* decompress_gzip returns what it has even then, right or wrong.
Inflate ==
    /\ pc = "gunzip"
    /\ LET out == Smaller(Len(buffer) + OutBuffer, Len(inflated))
           full == out = Len(buffer) + OutBuffer
       IN  /\ buffer' = SubSeq(inflated, 1, out)
           /\ ret' \in IF out < Len(inflated) THEN {"Z_OK"}
                       ELSE IF Whole
                       THEN IF full THEN {"Z_OK", "Z_STREAM_END"} ELSE {"Z_STREAM_END"}
                       ELSE IF out > Len(buffer) THEN {"Z_OK", "Z_DATA_ERROR"}
                       ELSE {"Z_BUF_ERROR", "Z_DATA_ERROR"}
    /\ pc' = IF Again(ret') THEN "gunzip" ELSE "completed"
    /\ result' = IF Again(ret') THEN result ELSE buffer'
    /\ UNCHANGED <<request, target, attempt, packed, inflated, size, source, server,
                   incoming, ec>>

\* Mutant of Larger: the buffer does not grow.
LargerSame(n) == n

Larger(n) == 2 * n

\* One call of uncompress into a buffer of twice the size: too small a buffer
\* is an error of its own, met before the end of damaged or cut input is.  The
\* checksum has been compared when it returns Z_OK, and only then is there a
\* result.
Uncompress ==
    /\ pc = "uncompress"
    /\ size' = Larger(size)
    /\ ret' \in (IF size' < Len(inflated) THEN {"Z_BUF_ERROR"}
                 ELSE IF Whole THEN {"Z_OK"}
                 ELSE IF size' = Len(inflated) THEN {"Z_BUF_ERROR", "Z_DATA_ERROR"}
                 ELSE {"Z_DATA_ERROR"})
    /\ pc' = IF ret' = "Z_BUF_ERROR" THEN "uncompress" ELSE "completed"
    /\ result' = IF ret' = "Z_OK" THEN inflated ELSE <<>>
    /\ UNCHANGED <<request, target, attempt, packed, buffer, inflated, source, server,
                   incoming, ec>>

\* on_request_completed: a lost connection is tried again, from start.
Completed ==
    /\ pc = "completed"
    /\ pc' = IF ec = "eof" /\ attempt < MaxAttempts THEN "start" ELSE "done"
    /\ UNCHANGED <<request, target, attempt, zlib, source, server, incoming, ec, result>>

Next ==
    \/ Start \/ Deflate \/ Choose
    \/ WriteHeaders \/ OnWrite \/ OnHeaders \/ (\E n \in 1..(answer.sent - Len(sink.data)) : OnBody(n))
    \/ \E error \in {"none", "eof", "timed_out"} : CompleteRequest(error)
    \/ GetData \/ Inflate \/ Uncompress \/ Completed

\* The steps of the client are taken; the server answers or the deadline, which
\* every attempt has, passes.
Spec == Init /\ [][Next]_vars /\ WF_vars(Next)

-----------------------------------------------------------------------------
(* Properties.                                                              *)

\* What the parts that the caller wrote mean.
Meant(parts) ==
    LET protocol == IF parts.protocol = <<>> THEN PROTOCOL_HTTP
                    ELSE SubSeq(parts.protocol, 1, Len(parts.protocol) - 3)
    IN  [protocol |-> protocol,
         host |-> parts.host,
         port |-> CASE parts.port # <<>> -> Number(Tail(parts.port))
                    [] parts.port = <<>> /\ protocol = <<"http">> -> DEFAULT_PORT_HTTP
                    [] parts.port = <<>> /\ protocol = <<"https">> -> DEFAULT_PORT_HTTPS
                    [] OTHER -> 0,
         path |-> IF parts.path = <<>> THEN <<"/">> ELSE parts.path,
         query |-> parts.query]

\* "://" only behind the protocol.
OneScheme(parts) ==
    LET rest == parts.path \o parts.query
    IN  \A i \in 1..(Len(rest) - 2) : SubSeq(rest, i, i + 2) # <<":", "/", "/">>

\* The constructor of url finds the parts that were written, with the defaults
\* for those that were not, or throws, exactly if the port is out of range: as
\* long as the path and the query do not contain "://", which the greedy first
\* group of the expression takes for the end of the protocol.
UrlAsDocumented ==
    OneScheme(request.parts) =>
        IF Meant(request.parts).port > MaxPort
        THEN pc = "thrown"
        ELSE pc # "thrown" /\ target = Meant(request.parts)

\* The string that a url prints stands for the same url, except that a port 0
\* that was asked for is not printed.
UrlRoundTrip ==
    pc = "start" /\ (target.port # 0 \/ DefaultPort(target.protocol) = 0)
        => get_url_components[to_string(target)] = target

\* In every attempt, the body that the server has received when it is asked for
\* its response is the whole body of the request: of the length announced, each
\* byte once and in order over all blocks, compressed only as the policy says.
BodyReceived ==
    pc = "response" =>
        /\ server.body = source.data /\ server.length = Len(server.body)
        /\ \/ source.encoding = "none" /\ server.body = Bytes(request.post)
           \/ /\ source.encoding = "gzip" /\ server.body = Compressed(packed)
              /\ \/ request.policy = "always"
                 \/ request.policy = "when_better" /\ packed < request.post

\* The caller gets the bytes that the response stands for, whatever the pieces
\* of its body and the blocks of its decompression; of a response that is cut, a
\* beginning of them and nothing else; and of one with deflate, cut or damaged,
\* nothing unless it gets all.  Of damaged gzip data decompress_gzip returns
\* what inflate made of them, about which nothing can be said.
DecodedFaithfully ==
    pc = "done" =>
        /\ answer.intact => Len(result) <= answer.size /\ result = Bytes(Len(result))
        /\ answer.encoding = "deflate" => result \in {<<>>, Bytes(answer.size)}
        /\ ec = "none" /\ answer.intact /\ answer.sent = answer.packed
              => result = Bytes(answer.size)

\* The loops of compression and decompression end, and so does every request.
TransferEnds == <>(pc \in {"done", "thrown"})

\* The server of the url is asked for what the url names: its path and query,
\* as the documented format of a url has them.
RequestArrives ==
    pc = "response" =>
        LET meant == Meant(request.parts)
        IN  /\ server.host = meant.host /\ server.port = meant.port
            /\ server.resource = meant.path \o meant.query
=============================================================================
