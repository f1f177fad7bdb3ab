----------------------------- MODULE HttpParser -----------------------------
(* The response parser http_parser_execute (http_parser/http_parser.c, built *)
(* with HTTP_PARSER_STRICT) and the callbacks and on_read of the layer that  *)
(* drives it (http_client_connection.h).                                     *)
(*                                                                           *)
(* A connection delivers the bytes of a response in reads of any size.  Each *)
(* read runs http_parser_execute once over its buffer; the parser keeps its  *)
(* state in struct http_parser between the calls, while the marks of the     *)
(* field, value, body or status it is in the middle of are local to a call.  *)
(* One step of the model handles one byte in one parser state, as one pass   *)
(* through the switch does.  The parser belongs to the stack: it is          *)
(* initialised once and parses the responses of every exchange on it.        *)
(*                                                                           *)
(* A byte is a string: a printable character, or "CR", "LF", "HT", "SOH" (a  *)
(* control character).  The names and values the parser looks for are cut to *)
(* the shortest words that its matching still tells apart.                   *)
EXTENDS Integers, Sequences, FiniteSets

CONSTANTS
    Responses,            \* what a server may answer first (see IsResponse)
    FollowUps,            \* what it may answer to a later request
    ReadSizes,            \* numbers of bytes that a read delivers, if they are there
    MaxExchanges,         \* bound: exchanges on the stack
    HTTP_MAX_HEADER_SIZE,
    ULLONG_MAX            \* stands for 2^64 - 1

VARIABLES
    response,       \* the response of the current exchange
    exchange,       \* how many exchanges the stack has begun
    wire,           \* the bytes of the connection that are not yet discarded
    parser,         \* struct http_parser
    data,           \* the buffer of the current call is wire[data .. last - 1]
    last,
    p,              \* the byte being looked at
    start,          \* where an inner loop of the switch began; 0 outside them
    mark,           \* the marks of the current call; 0 is NULL
    nsize,          \* what http_parser_execute returned
    pc,             \* see Control
    request,        \* m_current_request
    upper,          \* what on_headers and on_body have passed up so far
    delivered,      \* what was passed up when message_complete was called
    m_not_reusable

callbacks == <<mark, request, upper, delivered, m_not_reusable>>
connection == <<response, exchange, wire, data, last>>
vars == <<connection, parser, p, start, nsize, pc, callbacks>>

\* Waiting in lower_layer->read(); at the head of the loop over the buffer; in
\* the switch; back in on_read; m_state is done; on_error was called.
Control == {"read", "loop", "switch", "returned", "done", "stopped"}

-----------------------------------------------------------------------------
(* Characters and words.                                                    *)

Separators == {" ", ":", ",", ";", "/", ")"}
Controls == {"CR", "LF", "HT", "SOH"}
Upper == [C |-> "c", H |-> "h", K |-> "k", P |-> "p", T |-> "t", U |-> "u"]

\* c | 0x20, which also turns a tab into ")" and \x01 into "!".
LOWER(c) == CASE c \in DOMAIN Upper -> Upper[c]
              [] c = "HT" -> ")"
              [] c = "SOH" -> "!"
              [] OTHER -> c

\* "" stands for 0: the character is not allowed in a token.
TOKEN(c) == IF c \in Separators \cup Controls THEN "" ELSE LOWER(c)

Digits == <<"0", "1", "2", "3", "4", "5", "6", "7", "8", "9">>
HexDigits == Digits \o <<"a", "b", "c", "d", "e", "f">>
IS_NUM(c) == \E i \in 1..10 : Digits[i] = c
IsHex(c) == \E i \in 1..16 : HexDigits[i] = LOWER(c)
unhex(c) == (CHOOSE i \in 1..16 : HexDigits[i] = LOWER(c)) - 1
IS_HEADER_CHAR(c) == c # "SOH"
EOL == {"CR", "LF"}
Blank == {" ", "HT"}

CONNECTION == <<"c", "o", "n", "n", "e">>
CONTENT_LENGTH == <<"c", "o", "n", "t", "e">>
PROXY_CONNECTION == <<"p", "c">>
TRANSFER_ENCODING == <<"t", "e">>
UPGRADE == <<"u", "g">>
CHUNKED == <<"c", "h">>
KEEP_ALIVE == <<"k", "a">>
CLOSE == <<"c", "l">>

-----------------------------------------------------------------------------
(* struct http_parser.                                                      *)

ResponseLineStates ==
    {"s_dead", "s_start_res", "s_res_H", "s_res_HT", "s_res_HTT", "s_res_HTTP",
     "s_res_http_major", "s_res_http_dot", "s_res_http_minor", "s_res_http_end",
     "s_res_first_status_code", "s_res_status_code", "s_res_status_start",
     "s_res_status", "s_res_line_almost_done"}
HeaderStates ==
    {"s_header_field_start", "s_header_field", "s_header_value_discard_ws",
     "s_header_value_discard_ws_almost_done", "s_header_value_discard_lws",
     "s_header_value_start", "s_header_value", "s_header_value_lws",
     "s_header_almost_done", "s_chunk_size_start", "s_chunk_size",
     "s_chunk_parameters", "s_chunk_size_almost_done", "s_headers_almost_done",
     "s_headers_done"}
BodyStates ==
    {"s_chunk_data", "s_chunk_data_almost_done", "s_chunk_data_done",
     "s_body_identity", "s_body_identity_eof", "s_message_done"}
PARSING_HEADER(s) == s \notin BodyStates

header_states ==
    {"h_general", "h_C", "h_CO", "h_CON", "h_matching_connection",
     "h_matching_proxy_connection", "h_matching_content_length",
     "h_matching_transfer_encoding", "h_matching_upgrade", "h_connection",
     "h_content_length", "h_transfer_encoding", "h_upgrade",
     "h_matching_transfer_encoding_chunked", "h_matching_connection_token_start",
     "h_matching_connection_keep_alive", "h_matching_connection_close",
     "h_matching_connection_upgrade", "h_matching_connection_token",
     "h_transfer_encoding_chunked", "h_connection_keep_alive",
     "h_connection_close", "h_connection_upgrade"}

Flag == {"F_CHUNKED", "F_CONNECTION_KEEP_ALIVE", "F_CONNECTION_CLOSE",
         "F_CONNECTION_UPGRADE", "F_TRAILING", "F_UPGRADE", "F_SKIPBODY",
         "F_CONTENTLENGTH"}

http_errno ==
    {"HPE_OK", "HPE_HEADER_OVERFLOW", "HPE_CLOSED_CONNECTION",
     "HPE_INVALID_VERSION", "HPE_INVALID_STATUS", "HPE_LF_EXPECTED",
     "HPE_INVALID_HEADER_TOKEN", "HPE_INVALID_CONTENT_LENGTH",
     "HPE_UNEXPECTED_CONTENT_LENGTH", "HPE_INVALID_CHUNK_SIZE",
     "HPE_INVALID_CONSTANT", "HPE_STRICT"}

http_parser ==
    [state : ResponseLineStates \cup HeaderStates \cup BodyStates,
     header_state : header_states, flags : SUBSET Flag, index : 0..127,
     nread : Nat, content_length : 0..ULLONG_MAX, http_major : 0..9,
     http_minor : 0..9, status_code : 0..9999, upgrade : BOOLEAN,
     http_errno : http_errno]

\* http_parser_init for HTTP_RESPONSE.
NewParser ==
    [state |-> "s_start_res", header_state |-> "h_general", flags |-> {},
     index |-> 0, nread |-> 0, content_length |-> 0, http_major |-> 0,
     http_minor |-> 0, status_code |-> 0, upgrade |-> FALSE,
     http_errno |-> "HPE_OK"]

http_message_needs_eof(par) ==
    /\ par.status_code \div 100 # 1
    /\ par.status_code \notin {204, 304}
    /\ par.flags \cap {"F_SKIPBODY", "F_CHUNKED"} = {}
    /\ par.content_length = ULLONG_MAX

\* Mutant of http_should_keep_alive: every HTTP/1.x is taken for HTTP/1.1.
http_should_keep_alive_major(par) ==
    "F_CONNECTION_CLOSE" \notin par.flags /\ ~http_message_needs_eof(par)

http_should_keep_alive(par) ==
    /\ IF par.http_major > 0 /\ par.http_minor > 0
       THEN "F_CONNECTION_CLOSE" \notin par.flags
       ELSE "F_CONNECTION_KEEP_ALIVE" \in par.flags
    /\ ~http_message_needs_eof(par)

NEW_MESSAGE(par) ==
    IF http_should_keep_alive(par) THEN "s_start_res" ELSE "s_dead"

-----------------------------------------------------------------------------
(* The callbacks of http_client_connection.                                 *)

NoHeader == [first |-> <<>>, second |-> <<>>]

\* request_buffers as write_headers makes it.
NewRequest(head) == [head |-> head, m_current_header |-> NoHeader,
                     headers |-> <<>>, m_state |-> "in_progress"]
Nothing == [status |-> 0, headers |-> <<>>, body |-> <<>>]
NotDelivered == [Nothing EXCEPT !.status = -1]

\* Without the blanks and line ends at its end.
Trimmed(s) ==
    LET kept == {i \in DOMAIN s : s[i] \notin EOL \cup Blank}
    IN  SubSeq(s, 1, CHOOSE n \in 0..Len(s) :
                        /\ n = 0 \/ n \in kept
                        /\ \A i \in kept : i <= n)

PushCurrentHeader(r) ==
    [r EXCEPT !.headers = Append(@, [first |-> r.m_current_header.first,
                                     second |-> Trimmed(r.m_current_header.second)]),
              !.m_current_header = NoHeader]

\* Mutant of OnHeaderField: every piece of a field begins a header.
OnHeaderFieldPushes(r, at) ==
    LET q == IF r.m_current_header.first # <<>> THEN PushCurrentHeader(r) ELSE r
    IN  [q EXCEPT !.m_current_header.first = @ \o at]

OnHeaderField(r, at) ==
    LET q == IF r.m_current_header.second # <<>> THEN PushCurrentHeader(r) ELSE r
    IN  [q EXCEPT !.m_current_header.first = @ \o at]

OnHeaderValue(r, at) ==
    LET q == [r EXCEPT !.m_current_header.second = @ \o at]
    IN  IF q.m_current_header.second = <<>> THEN PushCurrentHeader(q) ELSE q

OnHeadersComplete(r) ==
    IF r.m_current_header.first # <<>> THEN PushCurrentHeader(r) ELSE r

NoCallback == UNCHANGED callbacks

\* CALLBACK_DATA_(kind): hand over the bytes from the mark up to byte q - 1.
CallbackData(kind, q) ==
    LET at == SubSeq(wire, mark[kind], q - 1)
    IN  IF mark[kind] = 0
        THEN NoCallback
        ELSE /\ mark' = [mark EXCEPT ![kind] = 0]
             /\ request' = CASE kind = "header_field" -> OnHeaderField(request, at)
                             [] kind = "header_value" -> OnHeaderValue(request, at)
                             [] OTHER -> request
             /\ upper' = IF kind = "body"
                         THEN [upper EXCEPT !.body = @ \o at] ELSE upper
             /\ UNCHANGED <<delivered, m_not_reusable>>

\* MARK(kind) is the only thing that happens to the client's state.
Mark(kind) ==
    /\ mark' = [mark EXCEPT ![kind] = IF @ = 0 THEN p ELSE @]
    /\ UNCHANGED <<request, upper, delivered, m_not_reusable>>

\* on_message_complete.
MessageComplete(par) ==
    /\ m_not_reusable' = (m_not_reusable \/ ~http_should_keep_alive(par))
    /\ request' = [request EXCEPT !.m_state = "done"]
    /\ delivered' = IF delivered = NotDelivered THEN upper ELSE delivered
    /\ upper' = Nothing
    /\ UNCHANGED mark

-----------------------------------------------------------------------------
(* Control inside http_parser_execute.                                      *)

ch == wire[p]
To(s) == [parser EXCEPT !.state = s]

\* break: on to the next byte.
Break(par) ==
    /\ parser' = par
    /\ p' = p + 1
    /\ pc' = "loop"
    /\ UNCHANGED <<start, nsize>>

REEXECUTE(par) ==
    /\ parser' = par
    /\ UNCHANGED <<p, start, nsize, pc>>

\* SET_ERRNO and goto error.  From then on nothing but http_errno is looked at,
\* so that what a case assigned before it failed is left out if no property
\* speaks of it.
FailWith(par, errno) ==
    /\ parser' = [par EXCEPT !.http_errno = errno]
    /\ nsize' = p - data
    /\ pc' = "returned"
    /\ start' = 0
    /\ UNCHANGED p

Fail(errno) == FailWith(parser, errno)

\* RETURN after the byte at p.
Return(par) ==
    /\ parser' = par
    /\ nsize' = p - data + 1
    /\ pc' = "returned"
    /\ UNCHANGED <<p, start>>

\* COUNT_HEADER_SIZE(n) would exceed the limit.
Overflow(n) == parser.nread + n > HTTP_MAX_HEADER_SIZE

\* In the switch, about to run the case of state s.
At(s) == pc = "switch" /\ parser.state = s

\* STRICT_CHECK(ch != c), then the state next.
Expect(c, next) ==
    /\ IF ch = c THEN Break(To(next)) ELSE Fail("HPE_STRICT")
    /\ NoCallback

\* The head of the loop: the next byte, or the end of the buffer, where the
\* callbacks for the marks that are left over run.
NextByte ==
    /\ pc = "loop" /\ p # last
    /\ LET n == IF PARSING_HEADER(parser.state) THEN 1 ELSE 0
       IN  IF Overflow(n)
           THEN Fail("HPE_HEADER_OVERFLOW")
           ELSE /\ parser' = [parser EXCEPT !.nread = @ + n]
                /\ pc' = "switch"
                /\ UNCHANGED <<p, start, nsize>>
    /\ NoCallback

EndOfBuffer ==
    /\ pc = "loop" /\ p = last
    /\ pc' = "returned"
    /\ nsize' = last - data
    /\ UNCHANGED <<parser, p, start>>
    /\ IF \E kind \in DOMAIN mark : mark[kind] # 0
       THEN \E kind \in DOMAIN mark :
                mark[kind] # 0 /\ CallbackData(kind, p)
       ELSE NoCallback

-----------------------------------------------------------------------------
(* The status line.                                                         *)

Dead ==
    /\ At("s_dead")
    /\ IF ch \in EOL THEN Break(parser) ELSE Fail("HPE_CLOSED_CONNECTION")
    /\ NoCallback

\* Mutant of Fresh: the flags of the previous response survive.
FreshKeepsFlags(par) == [par EXCEPT !.content_length = ULLONG_MAX]

\* The parser at the first byte of a response.
Fresh(par) == [par EXCEPT !.flags = {}, !.content_length = ULLONG_MAX]

StartRes ==
    /\ At("s_start_res")
    /\ LET par == Fresh(parser)
       IN  CASE ch = "H" -> Break([par EXCEPT !.state = "s_res_H"])
             [] ch \in EOL -> Break(par)
             [] OTHER -> Fail("HPE_INVALID_CONSTANT")
    /\ NoCallback

Protocol ==
    \/ At("s_res_H") /\ Expect("T", "s_res_HT")
    \/ At("s_res_HT") /\ Expect("T", "s_res_HTT")
    \/ At("s_res_HTT") /\ Expect("P", "s_res_HTTP")
    \/ At("s_res_HTTP") /\ Expect("/", "s_res_http_major")

\* A case that fails with errno unless ok holds.
Require(ok, errno, par) ==
    /\ IF ok THEN Break(par) ELSE Fail(errno)
    /\ NoCallback

Version ==
    \/ /\ At("s_res_http_major")
       /\ Require(IS_NUM(ch), "HPE_INVALID_VERSION",
                  [To("s_res_http_dot") EXCEPT !.http_major = unhex(ch)])
    \/ /\ At("s_res_http_dot")
       /\ Require(ch = ".", "HPE_INVALID_VERSION", To("s_res_http_minor"))
    \/ /\ At("s_res_http_minor")
       /\ Require(IS_NUM(ch), "HPE_INVALID_VERSION",
                  [To("s_res_http_end") EXCEPT !.http_minor = unhex(ch)])
    \/ /\ At("s_res_http_end")
       /\ Require(ch = " ", "HPE_INVALID_VERSION", To("s_res_first_status_code"))

FirstStatusCode ==
    /\ At("s_res_first_status_code")
    /\ CASE IS_NUM(ch) -> Break([To("s_res_status_code") EXCEPT
                                     !.status_code = unhex(ch)])
         [] ch = " " -> Break(parser)
         [] OTHER -> Fail("HPE_INVALID_STATUS")
    /\ NoCallback

\* Mutant of IsStatus: any number of digits.
IsStatusUnchecked(code) == TRUE

IsStatus(code) == code <= 999

StatusCode ==
    /\ At("s_res_status_code")
    /\ LET code == parser.status_code * 10 + unhex(ch)
       IN  CASE IS_NUM(ch) /\ IsStatus(code) ->
                    Break([parser EXCEPT !.status_code = code])
             [] IS_NUM(ch) /\ ~IsStatus(code) ->
                    FailWith([parser EXCEPT !.status_code = code], "HPE_INVALID_STATUS")
             [] ch = " " -> Break(To("s_res_status_start"))
             [] ch \in EOL -> REEXECUTE(To("s_res_status_start"))
             [] OTHER -> Fail("HPE_INVALID_STATUS")
    /\ NoCallback

StatusStart ==
    /\ At("s_res_status_start")
    /\ LET par == [To("s_res_status") EXCEPT !.index = 0]
       IN  IF ch \in EOL THEN REEXECUTE(par) ELSE Break(par)
    /\ Mark("status")

Status ==
    /\ At("s_res_status")
    /\ CASE ch = "CR" -> Break(To("s_res_line_almost_done"))
         [] ch = "LF" -> Break(To("s_header_field_start"))
         [] OTHER -> Break(parser)
    /\ IF ch \in EOL THEN CallbackData("status", p) ELSE NoCallback

LineAlmostDone ==
    At("s_res_line_almost_done") /\ Expect("LF", "s_header_field_start")

-----------------------------------------------------------------------------
(* Header fields.                                                           *)

FirstMatch(c) == CASE c = "c" -> "h_C"
                   [] c = "p" -> "h_matching_proxy_connection"
                   [] c = "t" -> "h_matching_transfer_encoding"
                   [] c = "u" -> "h_matching_upgrade"
                   [] OTHER -> "h_general"

HeaderFieldStart ==
    /\ At("s_header_field_start")
    /\ CASE ch = "CR" -> Break(To("s_headers_almost_done")) /\ NoCallback
         [] ch = "LF" -> REEXECUTE(To("s_headers_almost_done")) /\ NoCallback
         [] TOKEN(ch) # "" ->
                /\ Break([To("s_header_field") EXCEPT
                              !.index = 0, !.header_state = FirstMatch(TOKEN(ch))])
                /\ Mark("header_field")
         [] OTHER -> Fail("HPE_INVALID_HEADER_TOKEN") /\ NoCallback

\* c is the next character of word, counted from index 0: the state becomes
\* hit at the last character, and miss if c does not match.
MatchWord(par, word, c, hit, miss) ==
    LET i == par.index + 1
    IN  [par EXCEPT !.index = i,
                    !.header_state = CASE i >= Len(word) \/ c # word[i + 1] -> miss
                                       [] i = Len(word) - 1 -> hit
                                       [] OTHER -> @]

\* One character c of a header field.
MatchField(par, c) ==
    LET Next3(h) == [par EXCEPT !.index = @ + 1, !.header_state = h]
        Word(word, hit) == MatchWord(par, word, c, hit, "h_general")
    IN  CASE par.header_state = "h_C" ->
                 Next3(IF c = "o" THEN "h_CO" ELSE "h_general")
          [] par.header_state = "h_CO" ->
                 Next3(IF c = "n" THEN "h_CON" ELSE "h_general")
          [] par.header_state = "h_CON" ->
                 Next3(CASE c = "n" -> "h_matching_connection"
                         [] c = "t" -> "h_matching_content_length"
                         [] OTHER -> "h_general")
          [] par.header_state = "h_matching_connection" ->
                 Word(CONNECTION, "h_connection")
          [] par.header_state = "h_matching_proxy_connection" ->
                 Word(PROXY_CONNECTION, "h_connection")
          [] par.header_state = "h_matching_content_length" ->
                 Word(CONTENT_LENGTH, "h_content_length")
          [] par.header_state = "h_matching_transfer_encoding" ->
                 Word(TRANSFER_ENCODING, "h_transfer_encoding")
          [] par.header_state = "h_matching_upgrade" -> Word(UPGRADE, "h_upgrade")
          [] OTHER -> [par EXCEPT !.header_state = "h_general"]

\* Mutant of Passed: the bytes an inner loop has passed are not counted.
PassedUncounted == 0

\* The bytes an inner loop has passed, which it counts when it ends.
Passed == IF start = 0 THEN 0 ELSE p - start

\* An inner loop goes on to byte q.
Loop(par, q) ==
    /\ parser' = par
    /\ p' = q
    /\ start' = IF start = 0 THEN p ELSE start
    /\ UNCHANGED <<nsize, pc>>

\* An inner loop ends at byte p: count, then go to byte q in the state of par.
LeaveLoop(par, q, where) ==
    IF Overflow(Passed)
    THEN Fail("HPE_HEADER_OVERFLOW")
    ELSE /\ parser' = [par EXCEPT !.nread = @ + Passed]
         /\ p' = q
         /\ pc' = where
         /\ start' = 0
         /\ UNCHANGED nsize

\* With p at the end of the buffer an inner loop steps back to its last byte,
\* and the outer loop forward again.
HeaderField ==
    /\ At("s_header_field")
    /\ CASE p = last -> LeaveLoop(parser, p, "loop") /\ NoCallback
         [] p # last /\ TOKEN(ch) # "" ->
                Loop(MatchField(parser, TOKEN(ch)), p + 1) /\ NoCallback
         [] p # last /\ ch = ":" ->
                /\ LeaveLoop(To("s_header_value_discard_ws"), p + 1, "loop")
                /\ IF Overflow(Passed) THEN NoCallback
                   ELSE CallbackData("header_field", p)
         [] OTHER ->
                /\ Fail(IF Overflow(Passed) THEN "HPE_HEADER_OVERFLOW"
                        ELSE "HPE_INVALID_HEADER_TOKEN")
                /\ NoCallback

-----------------------------------------------------------------------------
(* Header values.                                                           *)

\* What the first character of the value of a Connection header may begin.
ConnectionToken(c, other) ==
    CASE c = "k" -> "h_matching_connection_keep_alive"
      [] c = "c" -> "h_matching_connection_close"
      [] c = "u" -> "h_matching_connection_upgrade"
      [] OTHER -> other

\* The case s_header_value_start: the first character of a value.
ValueStart ==
    LET par == [To("s_header_value") EXCEPT !.index = 0]
        h == parser.header_state
        c == LOWER(ch)
    IN  CASE h = "h_upgrade" ->
                 Break([par EXCEPT !.flags = @ \cup {"F_UPGRADE"},
                                   !.header_state = "h_general"])
          [] h = "h_transfer_encoding" ->
                 Break([par EXCEPT !.header_state =
                            IF c = "c" THEN "h_matching_transfer_encoding_chunked"
                            ELSE "h_general"])
          [] h = "h_content_length" ->
                 IF ~IS_NUM(ch) THEN Fail("HPE_INVALID_CONTENT_LENGTH")
                 ELSE IF "F_CONTENTLENGTH" \in parser.flags
                 THEN Fail("HPE_UNEXPECTED_CONTENT_LENGTH")
                 ELSE Break([par EXCEPT !.flags = @ \cup {"F_CONTENTLENGTH"},
                                        !.content_length = unhex(ch)])
          [] h = "h_connection" ->
                 Break([par EXCEPT !.header_state =
                            ConnectionToken(c, "h_matching_connection_token")])
          [] h = "h_matching_connection_token_start" -> Break(par)
          [] OTHER -> Break([par EXCEPT !.header_state = "h_general"])

HeaderValueDiscardWs ==
    /\ At("s_header_value_discard_ws")
    /\ CASE ch \in Blank -> Break(parser) /\ NoCallback
         [] ch = "CR" -> Break(To("s_header_value_discard_ws_almost_done"))
                         /\ NoCallback
         [] ch = "LF" -> Break(To("s_header_value_discard_lws")) /\ NoCallback
         [] OTHER -> ValueStart /\ Mark("header_value")

HeaderValueStart == At("s_header_value_start") /\ ValueStart /\ Mark("header_value")

\* h_state after one more character of the value, except for Content-Length.
FlagOf == [h_connection_keep_alive |-> "F_CONNECTION_KEEP_ALIVE",
           h_connection_close |-> "F_CONNECTION_CLOSE",
           h_connection_upgrade |-> "F_CONNECTION_UPGRADE",
           h_transfer_encoding_chunked |-> "F_CHUNKED"]

MatchValue(par) ==
    LET h == par.header_state
        c == LOWER(ch)
        General(next) == [par EXCEPT !.header_state = next]
        Token(word, hit) == MatchWord(par, word, c, hit, "h_matching_connection_token")
    IN  CASE h = "h_matching_transfer_encoding_chunked" ->
                 MatchWord(par, CHUNKED, c, "h_transfer_encoding_chunked", "h_general")
          [] h = "h_matching_connection_token_start" ->
                 General(ConnectionToken(c,
                     CASE TOKEN(c) # "" -> "h_matching_connection_token"
                       [] c \in Blank -> h
                       [] OTHER -> "h_general"))
          [] h = "h_matching_connection_keep_alive" ->
                 Token(KEEP_ALIVE, "h_connection_keep_alive")
          [] h = "h_matching_connection_close" -> Token(CLOSE, "h_connection_close")
          [] h = "h_matching_connection_upgrade" ->
                 Token(UPGRADE, "h_connection_upgrade")
          [] h = "h_matching_connection_token" ->
                 IF ch = "," THEN [par EXCEPT !.index = 0,
                                     !.header_state = "h_matching_connection_token_start"]
                 ELSE par
          [] h = "h_transfer_encoding_chunked" ->
                 IF ch = " " THEN par ELSE General("h_general")
          [] h \in DOMAIN FlagOf \ {"h_transfer_encoding_chunked"} ->
                 CASE ch = "," -> [par EXCEPT !.flags = @ \cup {FlagOf[h]}, !.index = 0,
                                     !.header_state = "h_matching_connection_token_start"]
                   [] ch = " " -> par
                   [] OTHER -> General("h_matching_connection_token")
          [] OTHER -> General("h_general")

\* Where the memchr calls find the end of the value, or the end of the buffer.
EndOfValue ==
    LET near == {q \in p..(last - 1) :
                    wire[q] \in EOL /\ q - p < HTTP_MAX_HEADER_SIZE}
    IN  IF near = {} THEN last
        ELSE CHOOSE q \in near : \A r \in near : q <= r

\* Mutant of LengthOverflows: the test forgets the digit to be added.
LengthOverflowsLate(length) == ULLONG_MAX \div 10 < length

\* The test, on a conservative limit, for a digit too many.
LengthOverflows(length) == (ULLONG_MAX - 10) \div 10 < length

\* One more character of the value of Content-Length.
MoreLength ==
    LET t == (parser.content_length * 10 + unhex(ch)) % (ULLONG_MAX + 1)
    IN  IF ch = " " THEN Loop(parser, p + 1)
        ELSE IF ~IS_NUM(ch) \/ LengthOverflows(parser.content_length)
        THEN Fail("HPE_INVALID_CONTENT_LENGTH")
        ELSE Loop([parser EXCEPT !.content_length = t], p + 1)

\* One character of a value.  The loop's local h_state is kept in header_state.
HeaderValueByte ==
    /\ At("s_header_value")
    /\ p # last /\ ch \notin EOL
    /\ IF ~IS_HEADER_CHAR(ch) THEN Fail("HPE_INVALID_HEADER_TOKEN")
       ELSE CASE parser.header_state = "h_general" -> Loop(parser, EndOfValue)
              [] parser.header_state = "h_content_length" -> MoreLength
              [] OTHER -> Loop(MatchValue(parser), p + 1)
    /\ NoCallback

\* The end of a value (CR, or LF alone), or of the buffer.  With CR the value
\* is handed over before it is counted, with LF after.
HeaderValueEnd ==
    /\ At("s_header_value")
    /\ \/ /\ p = last
          /\ LeaveLoop(parser, p, "loop")
          /\ NoCallback
       \/ /\ p # last /\ ch = "CR"
          /\ LeaveLoop(To("s_header_almost_done"), p + 1, "loop")
          /\ CallbackData("header_value", p)
       \/ /\ p # last /\ ch = "LF"
          /\ LeaveLoop(To("s_header_almost_done"), p, "switch")
          /\ IF Overflow(Passed) THEN NoCallback ELSE CallbackData("header_value", p)

HeaderAlmostDone ==
    /\ At("s_header_almost_done")
    /\ Require(ch = "LF", "HPE_LF_EXPECTED", To("s_header_value_lws"))

\* The header is complete: note what its value was found to say.
Finished(par) ==
    [par EXCEPT !.state = "s_header_field_start",
                !.flags = @ \cup IF par.header_state \in DOMAIN FlagOf
                                 THEN {FlagOf[par.header_state]} ELSE {}]

\* Mutant of HeaderValueLws: a continuation line is looked at again and again.
HeaderValueLwsStays ==
    /\ At("s_header_value_lws")
    /\ REEXECUTE(IF ch \in Blank THEN parser ELSE Finished(parser))
    /\ NoCallback

HeaderValueLws ==
    /\ At("s_header_value_lws")
    /\ REEXECUTE(IF ch \in Blank THEN To("s_header_value_start") ELSE Finished(parser))
    /\ NoCallback

DiscardWsAlmostDone ==
    At("s_header_value_discard_ws_almost_done") /\ Expect("LF", "s_header_value_discard_lws")

\* The value is empty unless the line is continued: MARK and CALLBACK_DATA
\* with nothing in between.
HeaderValueDiscardLws ==
    /\ At("s_header_value_discard_lws")
    /\ IF ch \in Blank
       THEN Break(To("s_header_value_discard_ws")) /\ NoCallback
       ELSE /\ REEXECUTE(Finished(parser))
            /\ request' = OnHeaderValue(request, <<>>)
            /\ UNCHANGED <<mark, upper, delivered, m_not_reusable>>

-----------------------------------------------------------------------------
(* The end of the headers.                                                  *)

HeadersAlmostDone ==
    /\ At("s_headers_almost_done")
    /\ CASE ch # "LF" -> Fail("HPE_STRICT") /\ NoCallback
         [] ch = "LF" /\ "F_TRAILING" \in parser.flags ->
                REEXECUTE(To("s_message_done")) /\ NoCallback
         [] ch = "LF" /\ "F_TRAILING" \notin parser.flags
                      /\ {"F_CHUNKED", "F_CONTENTLENGTH"} \subseteq parser.flags ->
                Fail("HPE_UNEXPECTED_CONTENT_LENGTH") /\ NoCallback
         [] OTHER ->
                /\ REEXECUTE([To("s_headers_done") EXCEPT
                       !.upgrade = /\ {"F_UPGRADE", "F_CONNECTION_UPGRADE"}
                                          \subseteq parser.flags
                                   /\ parser.status_code = 101,
                       !.flags = @ \cup IF request.head THEN {"F_SKIPBODY"} ELSE {}])
                /\ request' = OnHeadersComplete(request)
                /\ upper' = [upper EXCEPT !.status = parser.status_code,
                                          !.headers = request'.headers]
                /\ UNCHANGED <<mark, delivered, m_not_reusable>>

\* The same byte again: which body follows, if any.
HeadersDone ==
    /\ At("s_headers_done")
    /\ LET par == [parser EXCEPT !.nread = 0]
           length == par.content_length
           hasBody == "F_CHUNKED" \in par.flags \/ length \notin {0, ULLONG_MAX}
           next == [par EXCEPT !.state = NEW_MESSAGE(par)]
       IN  CASE ch # "LF" -> Fail("HPE_STRICT") /\ NoCallback
             [] ch = "LF" /\ par.upgrade /\ ("F_SKIPBODY" \in par.flags \/ ~hasBody) ->
                    Return(next) /\ MessageComplete(par)
             [] ch = "LF" /\ ~par.upgrade /\ "F_SKIPBODY" \in par.flags ->
                    Break(next) /\ MessageComplete(par)
             [] OTHER ->
                    CASE "F_CHUNKED" \in par.flags ->
                             /\ Break([par EXCEPT !.state = "s_chunk_size_start"])
                             /\ NoCallback
                      [] length = 0 /\ "F_CHUNKED" \notin par.flags ->
                             Break(next) /\ MessageComplete(par)
                      [] hasBody /\ "F_CHUNKED" \notin par.flags ->
                             /\ Break([par EXCEPT !.state = "s_body_identity"])
                             /\ NoCallback
                      [] OTHER ->
                             IF http_message_needs_eof(par)
                             THEN /\ Break([par EXCEPT !.state = "s_body_identity_eof"])
                                  /\ NoCallback
                             ELSE Break(next) /\ MessageComplete(par)

MessageDone ==
    /\ At("s_message_done")
    /\ IF parser.upgrade THEN Return(To(NEW_MESSAGE(parser)))
       ELSE Break(To(NEW_MESSAGE(parser)))
    /\ MessageComplete(parser)

-----------------------------------------------------------------------------
(* Bodies.                                                                  *)

ToRead == IF parser.content_length < last - p THEN parser.content_length ELSE last - p

\* The last byte of the body is looked at again as the end of the message.
BodyIdentity ==
    /\ At("s_body_identity")
    /\ LET left == parser.content_length - ToRead
           from == IF mark.body = 0 THEN p ELSE mark.body
       IN  IF left = 0
           THEN /\ parser' = [To("s_message_done") EXCEPT !.content_length = 0]
                /\ p' = p + ToRead - 1
                /\ upper' = [upper EXCEPT !.body = @ \o SubSeq(wire, from, p')]
                /\ mark' = [mark EXCEPT !.body = 0]
                /\ UNCHANGED <<pc, start, nsize, request, delivered, m_not_reusable>>
           ELSE /\ parser' = [parser EXCEPT !.content_length = left]
                /\ p' = p + ToRead
                /\ pc' = "loop"
                /\ Mark("body")
                /\ UNCHANGED <<start, nsize>>

BodyIdentityEof ==
    /\ At("s_body_identity_eof")
    /\ p' = last
    /\ pc' = "loop"
    /\ Mark("body")
    /\ UNCHANGED <<parser, start, nsize>>

ChunkSizeStart ==
    /\ At("s_chunk_size_start")
    /\ Require(IsHex(ch), "HPE_INVALID_CHUNK_SIZE",
               [To("s_chunk_size") EXCEPT !.content_length = unhex(ch)])

ChunkSize ==
    /\ At("s_chunk_size")
    /\ LET t == (parser.content_length * 16 + unhex(ch)) % (ULLONG_MAX + 1)
       IN  CASE ch = "CR" -> Break(To("s_chunk_size_almost_done"))
             [] ch \in {";", " "} -> Break(To("s_chunk_parameters"))
             [] ch \notin {"CR", ";", " "} /\ ~IsHex(ch) -> Fail("HPE_INVALID_CHUNK_SIZE")
             [] OTHER -> IF (ULLONG_MAX - 16) \div 16 < parser.content_length
                         THEN Fail("HPE_INVALID_CONTENT_LENGTH")
                         ELSE Break([parser EXCEPT !.content_length = t])
    /\ NoCallback

ChunkParameters ==
    /\ At("s_chunk_parameters")
    /\ Break(IF ch = "CR" THEN To("s_chunk_size_almost_done") ELSE parser)
    /\ NoCallback

ChunkSizeAlmostDone ==
    /\ At("s_chunk_size_almost_done")
    /\ Require(ch = "LF", "HPE_STRICT",
               IF parser.content_length = 0
               THEN [To("s_header_field_start") EXCEPT
                         !.nread = 0, !.flags = @ \cup {"F_TRAILING"}]
               ELSE [To("s_chunk_data") EXCEPT !.nread = 0])

\* Mutant of ChunkData: a chunk is taken to end with the buffer.
ChunkDataOneRead ==
    /\ At("s_chunk_data")
    /\ parser' = [To("s_chunk_data_almost_done") EXCEPT !.content_length = @ - ToRead]
    /\ p' = p + ToRead
    /\ pc' = "loop"
    /\ Mark("body")
    /\ UNCHANGED <<start, nsize>>

ChunkData ==
    /\ At("s_chunk_data")
    /\ LET left == parser.content_length - ToRead
       IN  parser' = [parser EXCEPT
                         !.content_length = left,
                         !.state = IF left = 0 THEN "s_chunk_data_almost_done" ELSE @]
    /\ p' = p + ToRead
    /\ pc' = "loop"
    /\ Mark("body")
    /\ UNCHANGED <<start, nsize>>

ChunkDataAlmostDone ==
    /\ At("s_chunk_data_almost_done")
    /\ IF ch = "CR"
       THEN Break(To("s_chunk_data_done")) /\ CallbackData("body", p)
       ELSE Fail("HPE_STRICT") /\ NoCallback

ChunkDataDone ==
    /\ At("s_chunk_data_done")
    /\ Require(ch = "LF", "HPE_STRICT",
               [To("s_chunk_size_start") EXCEPT !.nread = 0])

http_parser_execute ==
    /\ \/ NextByte \/ EndOfBuffer
       \/ Dead \/ StartRes \/ Protocol \/ Version
       \/ FirstStatusCode \/ StatusCode \/ StatusStart \/ Status \/ LineAlmostDone
       \/ HeaderFieldStart \/ HeaderField
       \/ HeaderValueDiscardWs \/ HeaderValueStart \/ HeaderValueByte
       \/ HeaderValueEnd \/ HeaderAlmostDone \/ HeaderValueLws
       \/ DiscardWsAlmostDone \/ HeaderValueDiscardLws
       \/ HeadersAlmostDone \/ HeadersDone \/ MessageDone
       \/ BodyIdentity \/ BodyIdentityEof
       \/ ChunkSizeStart \/ ChunkSize \/ ChunkParameters \/ ChunkSizeAlmostDone
       \/ ChunkData \/ ChunkDataAlmostDone \/ ChunkDataDone
    /\ UNCHANGED connection

-----------------------------------------------------------------------------
(* http_client_connection::on_read and write_headers, and the network.      *)

\* A response as its sender means it: the bytes it sends, and what they say.
\* ok: it is well formed, nothing stray precedes it on the connection, and its
\* header is less than half the limit.  ends: its bytes say where it ends.
\* head: it answers a HEAD request.  persistent: the connection stays open.
\* surplus: bytes that the server sends after the end of the response.
\* declared: the length it declares in Content-Length or its chunk size, or -1.
IsResponse(r) ==
    /\ DOMAIN r = {"bytes", "ok", "ends", "head", "persistent", "surplus",
                   "declared", "means"}
    /\ {r.ok, r.ends, r.head, r.persistent} \subseteq BOOLEAN
    /\ r.bytes \in Seq(STRING) /\ r.surplus \in Nat /\ r.declared \in Nat \cup {-1}
    /\ DOMAIN r.means = {"status", "headers", "body"}

ASSUME ParserConstants ==
    /\ \A r \in Responses \cup FollowUps : IsResponse(r)
    /\ FollowUps \subseteq Responses
    /\ ReadSizes \subseteq Nat \ {0}
    /\ HTTP_MAX_HEADER_SIZE \in Nat /\ MaxExchanges \in Nat \ {0}
    /\ ULLONG_MAX \in Nat /\ ULLONG_MAX >= 16

NoMarks == [status |-> 0, header_field |-> 0, header_value |-> 0, body |-> 0]

Init ==
    /\ response \in Responses
    /\ exchange = 1
    /\ wire = response.bytes
    /\ parser = NewParser
    /\ data = 1 /\ last = 1 /\ p = 1 /\ start = 0 /\ mark = NoMarks /\ nsize = 0
    /\ pc = "read"
    /\ request = NewRequest(response.head)
    /\ upper = Nothing /\ delivered = NotDelivered
    /\ m_not_reusable = FALSE

\* on_read with n bytes, or all there are: http_parser_execute begins, with the
\* mark of what its first byte continues.  After an error it does nothing.
OnRead(n) ==
    /\ pc = "read"
    /\ last <= Len(wire)
    /\ data' = last /\ p' = last
    /\ last' = IF last + n <= Len(wire) THEN last + n ELSE Len(wire) + 1
    /\ mark' = [kind \in DOMAIN NoMarks |->
                    IF \/ kind = "header_field" /\ parser.state = "s_header_field"
                       \/ kind = "header_value" /\ parser.state = "s_header_value"
                       \/ kind = "status" /\ parser.state = "s_res_status"
                    THEN last ELSE 0]
    /\ IF parser.http_errno = "HPE_OK"
       THEN pc' = "loop" /\ UNCHANGED nsize
       ELSE pc' = "returned" /\ nsize' = 0
    /\ UNCHANGED <<response, exchange, wire, parser, start, request, upper,
                   delivered, m_not_reusable>>

\* The rest of on_read: m_state is done, or the parser stopped before the end
\* of the buffer and on_error is called, or the next read begins.
AfterExecute ==
    /\ pc = "returned"
    /\ pc' = CASE request.m_state = "done" -> "done"
               [] request.m_state # "done" /\ nsize # last - data -> "stopped"
               [] OTHER -> "read"
    /\ nsize' = 0
    /\ mark' = NoMarks
    /\ UNCHANGED <<connection, parser, p, start, request, upper, delivered,
                   m_not_reusable>>

\* on_read with an error and no data: the connection was closed or was lost,
\* perhaps with bytes of the response on their way.  The parser is not told.
OnReadError ==
    /\ pc = "read"
    /\ m_not_reusable' = TRUE
    /\ pc' = "stopped"
    /\ UNCHANGED <<connection, parser, p, start, mark, nsize, request, upper,
                   delivered>>

\* write_headers for the next exchange on the connection, to which the server
\* sends its response.  The parser is not initialised again.
WriteHeaders ==
    /\ pc = "done"
    /\ exchange < MaxExchanges
    /\ response.persistent
    /\ \E r \in FollowUps :
          /\ response' = [r EXCEPT !.ok = @ /\ response.ok /\ response.surplus = 0]
          /\ wire' = SubSeq(wire, last, Len(wire)) \o r.bytes
          /\ request' = NewRequest(r.head)
    /\ exchange' = exchange + 1
    /\ data' = 1 /\ last' = 1 /\ p' = 1
    /\ upper' = Nothing /\ delivered' = NotDelivered
    /\ pc' = "read"
    /\ UNCHANGED <<parser, start, mark, nsize, m_not_reusable>>

Network == OnReadError \/ \E n \in ReadSizes : OnRead(n)

Next == http_parser_execute \/ AfterExecute \/ Network \/ WriteHeaders

\* The parser and on_read run to their ends; a read completes in the end, with
\* data or because the connection is closed or its deadline passes.
Fairness == WF_vars(http_parser_execute \/ AfterExecute \/ Network)

Spec == Init /\ [][Next]_vars /\ Fairness

-----------------------------------------------------------------------------
(* Properties.                                                              *)

Piece == Seq(STRING)
Header == [first : Piece, second : Piece]
Passed_up == [status : -1..999, headers : Seq(Header), body : Piece]

\* The type invariant; a status of more than three digits is an error.
TypeOK ==
    /\ IsResponse(response)
    /\ exchange \in 1..MaxExchanges
    /\ wire \in Piece
    /\ parser \in http_parser
    /\ parser.status_code > 999 => parser.http_errno = "HPE_INVALID_STATUS"
    /\ 1 <= data /\ data <= p + 1 /\ p <= last /\ last <= Len(wire) + 1
    /\ start \in 0..p
    /\ mark \in [DOMAIN NoMarks -> 0..p]
    /\ nsize \in 0..Len(wire)
    /\ pc \in Control
    /\ request \in [head : BOOLEAN, m_current_header : Header,
                    headers : Seq(Header), m_state : {"in_progress", "done"}]
    /\ upper \in Passed_up
    /\ delivered \in Passed_up
    /\ m_not_reusable \in BOOLEAN

\* Where the response of the current exchange ends on the wire.
EndOfResponse == Len(wire) - response.surplus

\* However its bytes are cut into reads, and whatever the stack parsed before,
\* a well-formed response is passed up with its own status, headers and body:
\* as soon as its last byte was parsed, and not before.
DeliversResponse ==
    response.ok =>
        /\ delivered # NotDelivered => delivered = response.means /\ p >= EndOfResponse
        /\ pc = "read" /\ response.ends => last <= EndOfResponse

\* The parser never refuses a well-formed response, on a new connection or on
\* one that was used before.
AcceptsResponse ==
    response.ok /\ parser.http_errno # "HPE_OK" => request.m_state = "done"

\* m_not_reusable is what the sender meant to do with the connection, however
\* it wrote its Connection headers, and the parser is dead exactly then.
ReusableIffPersistent ==
    pc = "done" /\ response.ok =>
        /\ m_not_reusable <=> ~response.persistent
        /\ response.surplus = 0 => (parser.state = "s_dead" <=> m_not_reusable)

\* No header longer than HTTP_MAX_HEADER_SIZE reaches on_headers for the request
\* that waits for it, although the parser counts bytes once per call and per
\* loop and resets the count, and whatever the connection held before.
HeaderBounded ==
    parser.state = "s_headers_done" /\ request.m_state = "in_progress"
        => p <= HTTP_MAX_HEADER_SIZE

\* A length that the parser accepts is the length that was sent: no overflow,
\* and never ULLONG_MAX, which stands for "no length".
LengthExact ==
    response.declared # -1 =>
        /\ parser.state = "s_headers_done" /\ "F_CONTENTLENGTH" \in parser.flags
              => parser.content_length = response.declared
        /\ parser.state = "s_chunk_size_almost_done"
              => parser.content_length \in {0, response.declared}
        /\ response.declared >= ULLONG_MAX => parser.state \notin BodyStates

\* The assertions in http_parser_execute hold for every input: on the header
\* state of a value, on nread and content_length, and at most one mark at the
\* end of a buffer.
AssertionsHold ==
    /\ parser.http_errno # "HPE_OK" => pc \in {"returned", "read", "done", "stopped"}
    /\ At("s_header_value") => parser.header_state \notin {"h_connection",
                                                           "h_transfer_encoding"}
    /\ At("s_chunk_size_start") => parser.nread = 1
    /\ parser.state \in {"s_chunk_size_start", "s_chunk_size", "s_chunk_parameters",
                         "s_chunk_size_almost_done", "s_chunk_data",
                         "s_chunk_data_almost_done", "s_chunk_data_done"}
          => "F_CHUNKED" \in parser.flags
    /\ parser.state \in {"s_body_identity", "s_chunk_data"}
          => parser.content_length \notin {0, ULLONG_MAX}
    /\ parser.state = "s_chunk_data_almost_done" => parser.content_length = 0
    /\ pc = "loop" /\ p = last
          => Cardinality({kind \in DOMAIN mark : mark[kind] # 0}) <= 1

\* Parsing a buffer ends, and so does every exchange: with the response, with a
\* parser error, or with the error of the connection when it is closed.
EveryExchangeEnds == pc = "read" ~> pc \in {"done", "stopped"}
=============================================================================
