---------------------------- MODULE MCHttpParser ----------------------------
(* Responses for HttpParser: well-formed ones for each way to say a header,  *)
(* a length and what happens to the connection, lengths and headers at their *)
(* limits, and malformed ones.                                               *)
EXTENDS HttpParser

CONSTANT Strays  \* what is put in the place of a byte of a response

CRLF == <<"CR", "LF">>
Ok200 == <<"2", "0", "0">>
StatusLine(minor, code) ==
    <<"H", "T", "T", "P", "/", "1", ".", minor, " ">> \o code \o <<" ", "x">> \o CRLF

\* A header as it is meant, and as it is sent.
Sent(name, value, sent) ==
    [is |-> [first |-> name, second |-> value], sent |-> name \o <<":">> \o sent \o CRLF]
Plain(name, value) == Sent(name, value, <<" ">> \o value)

Code(code) == unhex(code[1]) * 100 + unhex(code[2]) * 10 + unhex(code[3])

\* A response with headers hs followed by rest, which carries the body.
Message(minor, code, hs, rest, body) ==
    [bytes |-> StatusLine(minor, code) \o hs[1].sent \o hs[2].sent \o CRLF \o rest,
     ok |-> TRUE, ends |-> TRUE, head |-> FALSE, persistent |-> minor = "1",
     surplus |-> 0, declared |-> -1,
     means |-> [status |-> Code(code), body |-> body,
                headers |-> SelectSeq(<<hs[1].is, hs[2].is>>, LAMBDA h : h.first # <<>>)]]

None == [is |-> NoHeader, sent |-> <<>>]
Length(digits) == Plain(CONTENT_LENGTH, digits)
Two == Length(<<"2">>)
Body == <<"a", "LF">>
Chunked == Plain(TRANSFER_ENCODING, CHUNKED)
LastChunk == <<"0">> \o CRLF \o CRLF

Simple == Message("1", Ok200, <<None, Two>>, Body, Body)

WithTrailer == Message("1", Ok200, <<None, Chunked>>,
    <<"1", " ">> \o CRLF \o <<"a">> \o CRLF \o <<"0">> \o CRLF
        \o <<"a", ":", "b">> \o CRLF \o CRLF, <<"a">>)

\* How a server says whether it closes the connection: header, closes, keeps.
ConnectionHeaders ==
    {<<Plain(CONNECTION, CLOSE), TRUE, FALSE>>,
     <<Plain(<<"C">> \o Tail(CONNECTION), <<"C", "l">>), TRUE, FALSE>>,
     <<Plain(CONNECTION, KEEP_ALIVE), FALSE, TRUE>>,
     <<Plain(PROXY_CONNECTION, CLOSE), TRUE, FALSE>>,
     <<Plain(CONNECTION, <<"x", ",", " ", "k", "a", ",", "x">>), FALSE, TRUE>>,
     <<Plain(CONNECTION, <<"c", "l", " ", ",", "u", "g">>), TRUE, FALSE>>,
     <<Plain(CONNECTION, <<"c", "l", "x">>), FALSE, FALSE>>,
     <<Plain(CONNECTION, <<"k", "x", ",", "c", "x">>), FALSE, FALSE>>,
     <<Plain(<<"c", "o", "n", "n", "x">>, CLOSE), FALSE, FALSE>>,
     <<Plain(<<"c", "x">>, CLOSE), FALSE, FALSE>>,
     <<Plain(CONNECTION \o <<"x">>, CLOSE), FALSE, FALSE>>}
Keeping ==
    {[Message(minor, Ok200, <<c[1], Two>>, Body, Body) EXCEPT
          !.persistent = IF minor = "1" THEN ~c[2] ELSE c[3]] :
        minor \in {"0", "1"}, c \in ConnectionHeaders}

\* Ways to write a header.
Headers ==
    {Sent(<<"a">>, <<>>, <<>>),
     Sent(<<"a", "b">>, <<>>, <<" ", "HT">>),
     Sent(<<"a", "b">>, <<"b", " ", "b">>, <<"HT", "b", " ", "b", " ", "HT">>),
     Sent(<<"a">>, <<"b", " ", "c">>, <<"b", "CR", "LF", " ", "c">>),
     Sent(<<"a">>, <<"b">>, <<"CR", "LF", " ", "b">>),
     [Plain(<<"t", "x">>, <<"y">>) EXCEPT !.sent = <<"t", "x", ":", "y", "LF">>],
     [Plain(<<"u">>, <<>>) EXCEPT !.sent = <<"u", ":", "LF">>]}
Written == {Message("1", Ok200, <<h, Two>>, Body, Body) : h \in Headers}
           \cup {Message("1", Ok200, <<Two, h>>, Body, Body) : h \in Headers}

\* Ways to say where the body ends.
Framed ==
    {Message("1", Ok200, <<None, Length(<<"0">>)>>, <<>>, <<>>),
     Message("1", <<"2", "0", "4">>, <<None, None>>, <<>>, <<>>),
     Message("1", <<"3", "0", "4">>, <<None, None>>, <<>>, <<>>),
     Message("1", <<"1", "0", "0">>, <<None, None>>, <<>>, <<>>),
     [Message("1", Ok200, <<None, Two>>, <<>>, <<>>) EXCEPT !.head = TRUE],
     [Message("1", Ok200, <<None, Chunked>>, <<>>, <<>>) EXCEPT !.head = TRUE],
     [Message("1", Ok200, <<None, None>>, Body, Body) EXCEPT
         !.ends = FALSE, !.persistent = FALSE],
     Message("1", <<"1", "0", "1">>, <<Plain(UPGRADE, <<"x">>), Plain(CONNECTION, UPGRADE)>>,
             <<>>, <<>>),
     Message("1", Ok200, <<None, Chunked>>, LastChunk, <<>>),
     Message("1", Ok200, <<None, Chunked>>,
             <<"2">> \o CRLF \o Body \o CRLF \o <<"0", "1", ";", "x">> \o CRLF
             \o <<"c">> \o CRLF \o LastChunk, Body \o <<"c">>),
     WithTrailer}

\* Bytes after the end of the response.
Followed ==
    {[Simple EXCEPT !.bytes = @ \o more, !.surplus = Len(more)] :
        more \in {CRLF, <<"x">>}}
    \cup {[Message("0", Ok200, <<None, Two>>, Body, Body) EXCEPT
              !.bytes = @ \o more, !.surplus = Len(more)] : more \in {CRLF, <<"x">>}}

\* Lengths about ULLONG_MAX, whose bodies never arrive.
Long ==
    {[Message("1", Ok200, <<None, Length(Append(d, e))>>, <<>>, <<>>) EXCEPT
         !.ok = FALSE,
         !.declared = unhex(d[1]) * 100 + unhex(d[2]) * 10 + unhex(e)] :
        d \in {<<"1", "1">>, <<"1", "2">>}, e \in {"0", "7", "8", "9"}}
    \cup {[Message("1", Ok200, <<None, Chunked>>, <<d, "f">> \o CRLF \o Body, <<>>) EXCEPT
              !.ok = FALSE, !.declared = unhex(d) * 16 + 15] : d \in {"6", "7", "8"}}

\* Headers that must be refused, whatever the cuts.
Refused ==
    {[Message("1", Ok200, hs, Body, Body) EXCEPT !.ok = FALSE] :
        hs \in {<<Two, Two>>, <<Two, Chunked>>}}
    \cup {[Message("1", Ok200, <<Plain(<<"a">>, [i \in 1..n |-> "b"]), Two>>, Body, Body)
              EXCEPT !.ok = FALSE] : n \in {HTTP_MAX_HEADER_SIZE - 30,
                                            HTTP_MAX_HEADER_SIZE - 29}}

\* A stray byte anywhere in a response, which ends the connection.
Malformed ==
    UNION {{[r EXCEPT !.ok = FALSE, !.persistent = FALSE, !.bytes = [@ EXCEPT ![i] = c]] :
               i \in DOMAIN r.bytes, c \in Strays} : r \in {Simple, WithTrailer}}

MCResponses == {Simple} \cup Keeping \cup Written \cup Framed \cup Followed \cup Long \cup Refused
               \cup Malformed
MCFollowUps == {Simple, WithTrailer} \cup {r \in Framed : Len(r.bytes) <= 20}
=============================================================================
