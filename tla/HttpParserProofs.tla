-------------------------- MODULE HttpParserProofs --------------------------
(* Theorems about HttpParser, for any responses, well formed or not, cut     *)
(* into reads of any sizes, over any number of exchanges on a connection.    *)
EXTENDS HttpParser, TLAPS, SequenceTheorems, FiniteSetTheorems, WellOrder

(***************************************************************************)
(* The inductive invariant.                                                 *)
(***************************************************************************)

\* How far a word may have been matched: index never passes the end of it.
IndexBound(h) ==
    CASE h \in {"h_C", "h_matching_connection_token_start"} -> 0
      [] h \in {"h_CO", "h_matching_proxy_connection", "h_matching_transfer_encoding",
                "h_matching_upgrade", "h_matching_transfer_encoding_chunked",
                "h_matching_connection_keep_alive", "h_matching_connection_close",
                "h_matching_connection_upgrade"} -> 1
      [] h = "h_CON" -> 2
      [] h \in {"h_matching_connection", "h_matching_content_length"} -> 4
      [] OTHER -> 5

ChunkStates == {"s_chunk_size_start", "s_chunk_size", "s_chunk_parameters",
                "s_chunk_size_almost_done", "s_chunk_data", "s_chunk_data_almost_done",
                "s_chunk_data_done"}

\* What the fields of struct http_parser say of one another between two steps.
ParserOK(par) ==
    /\ par \in http_parser
    /\ par.status_code > 999 => par.http_errno = "HPE_INVALID_STATUS"
    /\ par.index <= IndexBound(par.header_state)
    /\ par.nread <= HTTP_MAX_HEADER_SIZE
    /\ par.state = "s_header_value" =>
           par.header_state \notin {"h_connection", "h_transfer_encoding"}
    /\ par.state \in ChunkStates => "F_CHUNKED" \in par.flags
    /\ par.state \in {"s_body_identity", "s_chunk_data"} =>
           par.content_length \notin {0, ULLONG_MAX}
    /\ par.state \in {"s_chunk_size", "s_chunk_parameters", "s_chunk_size_almost_done"} =>
           par.content_length # ULLONG_MAX
    /\ par.state = "s_chunk_data_almost_done" => par.content_length = 0

\* In the header of a message, not in a trailer.
InHeader(par) ==
    \/ par.state \in ResponseLineStates
    \/ par.state \in HeaderStates \ ChunkStates /\ "F_TRAILING" \notin par.flags

\* Where the parser is in the buffer.
Positions ==
    /\ {data, p, last, start, nsize} \subseteq Nat
    /\ 1 <= data /\ data <= p /\ p <= last /\ last <= Len(wire) + 1
    /\ nsize <= Len(wire)
    /\ pc \in {"read", "done", "stopped"} => nsize = 0
    /\ start <= p
    /\ pc = "switch" /\ start = 0 => p < last
    /\ start # 0 => pc = "switch" /\ parser.state \in {"s_header_field", "s_header_value"}

\* What the parser is doing there.
Doing ==
    /\ pc \in Control
    /\ pc \in {"loop", "switch"} => parser.http_errno = "HPE_OK"
    /\ parser.state = "s_chunk_size_start" /\ parser.http_errno = "HPE_OK" =>
           parser.nread = (IF pc = "switch" THEN 1 ELSE 0)
    /\ parser.state = "s_headers_done" =>
           pc = "switch" /\ ch = "LF" /\ "F_TRAILING" \notin parser.flags

\* Every byte of a header that is awaited has been counted.
Counted ==
    request.m_state = "in_progress" /\ InHeader(parser) /\ parser.http_errno = "HPE_OK" =>
        /\ pc = "switch" => p <= parser.nread + Passed
        /\ pc = "loop" => p <= parser.nread + 1
        /\ pc \in {"returned", "read"} => last <= parser.nread + 1

\* The states in which a mark may be set.
Marked(kind) ==
    CASE kind = "status" -> {"s_res_status"}
      [] kind = "header_field" -> {"s_header_field"}
      [] kind = "header_value" -> {"s_header_value"}
      [] OTHER -> {"s_body_identity", "s_body_identity_eof", "s_chunk_data",
                   "s_chunk_data_almost_done"}

Kinds == {"status", "header_field", "header_value", "body"}

Marks ==
    /\ mark \in [Kinds -> 0..p]
    /\ pc \in {"loop", "switch"} =>
           \A kind \in Kinds : mark[kind] # 0 => parser.state \in Marked(kind)
    /\ pc \in {"read", "done", "stopped"} => mark = NoMarks

Request == [head : BOOLEAN, m_current_header : Header, headers : Seq(Header),
            m_state : {"in_progress", "done"}]

Connected == IsResponse(response) /\ exchange \in 1..MaxExchanges /\ wire \in Piece

ClientOK ==
    /\ request \in Request
    /\ upper \in Passed_up
    /\ delivered \in Passed_up
    /\ m_not_reusable \in BOOLEAN

ParserInv ==
    /\ Connected /\ ParserOK(parser) /\ Positions /\ Doing /\ Counted
    /\ Marks /\ ClientOK

(***************************************************************************)
(* Characters.                                                              *)
(***************************************************************************)

LEMMA HexDigitValues ==
    /\ Len(HexDigits) = 16
    /\ \A i \in 1..10 : HexDigits[i] = Digits[i]
    /\ \A i \in 11..16 : HexDigits[i] \in {"a", "b", "c", "d", "e", "f"}
  BY SMT DEF HexDigits, Digits

LEMMA Numerals ==
    ASSUME NEW c
    PROVE  /\ IS_NUM(c) => unhex(c) \in 0..9
           /\ IsHex(c) => unhex(c) \in 0..15
<1>1. ASSUME IsHex(c) PROVE unhex(c) \in 0..15
  <2> DEFINE i == CHOOSE i \in 1..16 : HexDigits[i] = LOWER(c)
  <2>1. i \in 1..16
    BY <1>1 DEF IsHex
  <2> QED BY <2>1 DEF unhex
<1>2. ASSUME IS_NUM(c) PROVE unhex(c) \in 0..9
  <2>1. PICK k \in 1..10 : Digits[k] = c
    BY <1>2 DEF IS_NUM
  <2>2. c \in {"0", "1", "2", "3", "4", "5", "6", "7", "8", "9"}
    BY <2>1, SMT DEF Digits
  <2>3. LOWER(c) = c
    BY <2>2 DEF LOWER, Upper
  <2> DEFINE i == CHOOSE i \in 1..16 : HexDigits[i] = LOWER(c)
  <2>4. k \in 1..16 /\ HexDigits[k] = LOWER(c)
    BY <2>1, <2>3, HexDigitValues
  <2>5. i \in 1..16 /\ HexDigits[i] = c
    BY <2>3, <2>4
  <2> HIDE DEF i
  <2>6. i \notin 11..16
    BY <2>2, <2>5, HexDigitValues
  <2>7. i - 1 \in 0..9
    BY <2>5, <2>6
  <2> QED BY <2>7 DEF unhex, i
<1> QED BY <1>1, <1>2

(***************************************************************************)
(* Assignments to a field of struct http_parser keep its type.              *)
(***************************************************************************)

States == ResponseLineStates \cup HeaderStates \cup BodyStates

LEMMA SetState ==
    ASSUME NEW par \in http_parser, NEW x \in States
    PROVE  [par EXCEPT !.state = x] \in http_parser
  BY SMTT(60) DEF http_parser, States

LEMMA SetHeaderState ==
    ASSUME NEW par \in http_parser, NEW x \in header_states
    PROVE  [par EXCEPT !.header_state = x] \in http_parser
  BY SMTT(60) DEF http_parser

LEMMA SetFlags ==
    ASSUME NEW par \in http_parser, NEW x \in SUBSET Flag
    PROVE  [par EXCEPT !.flags = x] \in http_parser
  BY SMTT(60) DEF http_parser

LEMMA SetIndex ==
    ASSUME NEW par \in http_parser, NEW x \in Nat, x <= 127
    PROVE  [par EXCEPT !.index = x] \in http_parser
<1>1. x \in 0..127
  OBVIOUS
<1> QED BY <1>1, SMTT(60) DEF http_parser

LEMMA SetNread ==
    ASSUME NEW par \in http_parser, NEW x \in Nat
    PROVE  [par EXCEPT !.nread = x] \in http_parser
  BY SMTT(60) DEF http_parser

LEMMA SetContentLength ==
    ASSUME NEW par \in http_parser, NEW x \in 0..ULLONG_MAX
    PROVE  [par EXCEPT !.content_length = x] \in http_parser
  BY SMTT(60) DEF http_parser

LEMMA SetVersion ==
    ASSUME NEW par \in http_parser, NEW x \in 0..9
    PROVE  /\ [par EXCEPT !.http_major = x] \in http_parser
           /\ [par EXCEPT !.http_minor = x] \in http_parser
<1>1. [par EXCEPT !.http_major = x] \in http_parser
  BY SMTT(60) DEF http_parser
<1>2. [par EXCEPT !.http_minor = x] \in http_parser
  BY SMTT(60) DEF http_parser
<1> QED BY <1>1, <1>2

LEMMA SetStatusCode ==
    ASSUME NEW par \in http_parser, NEW x \in Nat, x <= 9999
    PROVE  [par EXCEPT !.status_code = x] \in http_parser
<1>1. x \in 0..9999
  OBVIOUS
<1> QED BY <1>1, SMTT(60) DEF http_parser

LEMMA SetUpgrade ==
    ASSUME NEW par \in http_parser, NEW x \in BOOLEAN
    PROVE  [par EXCEPT !.upgrade = x] \in http_parser
  BY SMTT(60) DEF http_parser

LEMMA SetErrno ==
    ASSUME NEW par \in http_parser, NEW x \in http_errno
    PROVE  [par EXCEPT !.http_errno = x] \in http_parser
  BY SMTT(60) DEF http_parser

\* The types of the fields.
LEMMA FieldTypes ==
    ASSUME NEW par \in http_parser
    PROVE  /\ par.state \in States /\ par.header_state \in header_states
           /\ par.flags \in SUBSET Flag /\ par.index \in 0..127 /\ par.nread \in Nat
           /\ par.content_length \in 0..ULLONG_MAX /\ par.status_code \in Nat
           /\ par.http_errno \in http_errno
<1>1. /\ par.state \in States /\ par.header_state \in header_states
      /\ par.flags \in SUBSET Flag /\ par.index \in 0..127 /\ par.nread \in Nat
      /\ par.content_length \in 0..ULLONG_MAX /\ par.http_errno \in http_errno
  BY SMTT(60) DEF http_parser, States
<1> DEFINE S == 0..9999
<1>2. par.status_code \in S
  BY SMTT(60) DEF http_parser
<1>3. \A x \in S : x \in Nat
  OBVIOUS
<1> HIDE DEF S
<1>4. par.status_code \in Nat
  BY <1>2, <1>3
<1> QED BY <1>1, <1>4

LEMMA IndexBounds == ASSUME NEW h PROVE IndexBound(h) \in 0..5
  BY SMT DEF IndexBound

(***************************************************************************)
(* What the callbacks do to the client.                                     *)
(***************************************************************************)

LEMMA PieceOf ==
    ASSUME NEW s \in Piece, NEW m \in Nat, m >= 1, NEW n \in Int, n <= Len(s)
    PROVE  SubSeq(s, m, n) \in Piece
<1>1. Len(s) \in Nat /\ \A i \in 1..Len(s) : s[i] \in STRING
  BY LenProperties, ElementOfSeq DEF Piece
<1>2. \A i \in m..n : s[i] \in STRING
  BY <1>1
<1> QED BY <1>2, SubSeqProperties DEF Piece

LEMMA TrimmedType ==
    ASSUME NEW s \in Piece
    PROVE  Trimmed(s) \in Piece
<1> DEFINE kept == {i \in DOMAIN s : s[i] \notin EOL \cup Blank}
           end(n) == (n = 0 \/ n \in kept) /\ \A i \in kept : i <= n
           n == CHOOSE n \in 0..Len(s) : end(n)
<1>1. Len(s) \in Nat /\ DOMAIN s = 1..Len(s)
  BY LenProperties DEF Piece
<1>2. \E k \in 0..Len(s) : end(k)
  <2>1. CASE kept = {}
    BY <1>1, <2>1
  <2>2. CASE kept # {}
    <3>1. kept \subseteq Nat /\ \A i \in kept : i <= Len(s) /\ i \in 0..Len(s)
      BY <1>1
    <3> HIDE DEF kept
    <3>2. PICK k \in kept : \A i \in kept : i <= k
      BY <1>1, <2>2, <3>1, Greatest
    <3> QED BY <3>1, <3>2
  <2> QED BY <2>1, <2>2
<1>3. n \in 0..Len(s)
  <2> HIDE DEF end
  <2> QED BY <1>2
<1>4. Trimmed(s) = SubSeq(s, 1, n)
  BY DEF Trimmed
<1> HIDE DEF n
<1>5. n \in Int /\ n <= Len(s) /\ 1 \in Nat /\ 1 >= 1
  BY <1>1, <1>3
<1> QED BY <1>4, <1>5, PieceOf

LEMMA SetRequest ==
    ASSUME NEW r \in Request
    PROVE  /\ r.m_current_header \in Header /\ r.headers \in Seq(Header)
           /\ r.m_current_header.first \in Piece /\ r.m_current_header.second \in Piece
           /\ r.m_state \in {"in_progress", "done"} /\ r.head \in BOOLEAN
           /\ \A x \in Seq(Header) : [r EXCEPT !.headers = x] \in Request
           /\ \A x \in Header : [r EXCEPT !.m_current_header = x] \in Request
           /\ [r EXCEPT !.m_state = "done"] \in Request
<1>1. /\ r.m_current_header \in Header /\ r.headers \in Seq(Header)
      /\ r.m_state \in {"in_progress", "done"} /\ r.head \in BOOLEAN
  BY SMT DEF Request
<1>2. r.m_current_header.first \in Piece /\ r.m_current_header.second \in Piece
  BY <1>1, SMT DEF Header
<1>3. ASSUME NEW x \in Seq(Header) PROVE [r EXCEPT !.headers = x] \in Request
  BY SMT DEF Request
<1>4. ASSUME NEW x \in Header PROVE [r EXCEPT !.m_current_header = x] \in Request
  BY SMT DEF Request
<1>5. [r EXCEPT !.m_state = "done"] \in Request
  BY SMT DEF Request
<1> QED BY <1>1, <1>2, <1>3, <1>4, <1>5

LEMMA SetHeader ==
    ASSUME NEW h \in Header, NEW x \in Piece
    PROVE  [h EXCEPT !.first = x] \in Header /\ [h EXCEPT !.second = x] \in Header
  BY SMT DEF Header

LEMMA PushType ==
    ASSUME NEW r \in Request
    PROVE  PushCurrentHeader(r) \in Request /\ PushCurrentHeader(r).m_state = r.m_state
<1> DEFINE h == [first |-> r.m_current_header.first, second |-> Trimmed(r.m_current_header.second)]
           q == [r EXCEPT !.headers = Append(@, h)]
<1>1. h \in Header
  BY SetRequest, TrimmedType DEF Header
<1>2. NoHeader \in Header
  BY EmptySeq DEF NoHeader, Header, Piece
<1> HIDE DEF h
<1>3. q \in Request
  <2>1. Append(r.headers, h) \in Seq(Header)
    BY <1>1, SetRequest, AppendProperties
  <2> QED BY <2>1, SetRequest
<1>4. q.m_state = r.m_state
  BY DEF Request
<1>5. PushCurrentHeader(r) = [q EXCEPT !.m_current_header = NoHeader]
  BY DEF PushCurrentHeader, h
<1> HIDE DEF q
<1>6. [q EXCEPT !.m_current_header = NoHeader] \in Request
  BY <1>2, <1>3, SetRequest
<1>7. [q EXCEPT !.m_current_header = NoHeader].m_state = q.m_state
  BY <1>3 DEF Request
<1> QED BY <1>4, <1>5, <1>6, <1>7

\* A piece of a field or of a value is appended to the current header.
LEMMA GrowHeader ==
    ASSUME NEW r \in Request, NEW at \in Piece
    PROVE  /\ [r EXCEPT !.m_current_header.first = @ \o at] \in Request
           /\ [r EXCEPT !.m_current_header.first = @ \o at].m_state = r.m_state
           /\ [r EXCEPT !.m_current_header.second = @ \o at] \in Request
           /\ [r EXCEPT !.m_current_header.second = @ \o at].m_state = r.m_state
<1> DEFINE h == r.m_current_header
           f == [h EXCEPT !.first = @ \o at]
           g == [h EXCEPT !.second = @ \o at]
<1>1. h \in Header /\ h.first \in Piece /\ h.second \in Piece
  BY SetRequest
<1>2. h.first \o at \in Piece /\ h.second \o at \in Piece
  BY <1>1, ConcatProperties DEF Piece
<1>3. f \in Header /\ g \in Header
  <2> HIDE DEF h
  <2> QED BY <1>1, <1>2, SetHeader
<1>4. /\ [r EXCEPT !.m_current_header.first = @ \o at] = [r EXCEPT !.m_current_header = f]
      /\ [r EXCEPT !.m_current_header.second = @ \o at] = [r EXCEPT !.m_current_header = g]
  OBVIOUS
<1> HIDE DEF f, g
<1>5. [r EXCEPT !.m_current_header = f] \in Request /\ [r EXCEPT !.m_current_header = g] \in Request
  BY <1>3, SetRequest
<1>6. /\ [r EXCEPT !.m_current_header = f].m_state = r.m_state
      /\ [r EXCEPT !.m_current_header = g].m_state = r.m_state
  BY DEF Request
<1> QED BY <1>4, <1>5, <1>6

LEMMA OnHeaderFieldType ==
    ASSUME NEW r \in Request, NEW at \in Piece
    PROVE  OnHeaderField(r, at) \in Request /\ OnHeaderField(r, at).m_state = r.m_state
<1> DEFINE q == IF r.m_current_header.second # <<>> THEN PushCurrentHeader(r) ELSE r
<1>1. q \in Request /\ q.m_state = r.m_state
  BY PushType
<1>2. OnHeaderField(r, at) = [q EXCEPT !.m_current_header.first = @ \o at]
  BY DEF OnHeaderField
<1> HIDE DEF q
<1> QED BY <1>1, <1>2, GrowHeader

LEMMA OnHeaderValueType ==
    ASSUME NEW r \in Request, NEW at \in Piece
    PROVE  OnHeaderValue(r, at) \in Request /\ OnHeaderValue(r, at).m_state = r.m_state
<1> DEFINE q == [r EXCEPT !.m_current_header.second = @ \o at]
<1>1. q \in Request /\ q.m_state = r.m_state
  BY GrowHeader
<1>2. OnHeaderValue(r, at) = IF q.m_current_header.second = <<>> THEN PushCurrentHeader(q) ELSE q
  BY DEF OnHeaderValue
<1> HIDE DEF q
<1> QED BY <1>1, <1>2, PushType

LEMMA SetUpper ==
    ASSUME NEW u \in Passed_up
    PROVE  /\ u.headers \in Seq(Header) /\ u.body \in Piece
           /\ \A x \in Piece : [u EXCEPT !.body = x] \in Passed_up
           /\ \A x \in Nat : x <= 999 => [u EXCEPT !.status = x] \in Passed_up
           /\ \A x \in Seq(Header) : [u EXCEPT !.headers = x] \in Passed_up
<1>1. u.headers \in Seq(Header) /\ u.body \in Piece
  BY SMT DEF Passed_up
<1> DEFINE S == -1..999
<1>0. \A x \in Nat : x <= 999 => x \in S
  OBVIOUS
<1> HIDE DEF S
<1>2. Passed_up = [status : S, headers : Seq(Header), body : Piece]
  BY DEF Passed_up, S
<1>3. ASSUME NEW x \in Piece PROVE [u EXCEPT !.body = x] \in Passed_up
  BY <1>2, SMT
<1>4. ASSUME NEW x \in S PROVE [u EXCEPT !.status = x] \in Passed_up
  BY <1>2, SMT
<1>5. ASSUME NEW x \in Seq(Header) PROVE [u EXCEPT !.headers = x] \in Passed_up
  BY <1>2, SMT
<1> QED BY <1>0, <1>1, <1>3, <1>4, <1>5

LEMMA NothingType == Nothing \in Passed_up /\ NotDelivered \in Passed_up
<1>1. <<>> \in Seq(Header) /\ <<>> \in Piece
  BY EmptySeq DEF Piece
<1>2. Nothing \in Passed_up
  BY <1>1 DEF Nothing, Passed_up
<1>3. NotDelivered = [status |-> -1, headers |-> <<>>, body |-> <<>>]
  BY DEF NotDelivered, Nothing
<1>4. [status |-> -1, headers |-> <<>>, body |-> <<>>] \in Passed_up
  BY <1>1 DEF Passed_up
<1> QED BY <1>2, <1>3, <1>4

LEMMA MarkKinds == DOMAIN NoMarks = Kinds /\ \A kind \in Kinds : NoMarks[kind] = 0
  BY DEF NoMarks, Kinds

\* No mark is set: what the callback of the only one leaves.
NoneMarked == mark \in [Kinds -> {0}]

LEMMA OtherMarks ==
    ASSUME ParserInv, pc \in {"loop", "switch"}, NEW kind \in Kinds, parser.state \in Marked(kind)
    PROVE  \A k \in Kinds : k # kind => mark[k] = 0
<1> SUFFICES ASSUME NEW k \in Kinds, k # kind, mark[k] # 0 PROVE FALSE
  OBVIOUS
<1>1. parser.state \in Marked(k)
  BY DEF ParserInv, Marks
<1> QED BY <1>1 DEF Marked, Kinds

LEMMA CallbackDataClient ==
    ASSUME ParserInv, pc \in {"loop", "switch"}, NEW kind \in Kinds, parser.state \in Marked(kind),
           CallbackData(kind, p)
    PROVE  ClientOK' /\ request'.m_state = request.m_state /\ NoneMarked'
<1> DEFINE at == SubSeq(wire, mark[kind], p - 1)
<1>1. /\ mark \in [Kinds -> 0..p] /\ p \in Nat /\ last \in Nat /\ p <= last
      /\ last <= Len(wire) + 1 /\ wire \in Piece /\ Len(wire) \in Nat
  BY LenProperties DEF ParserInv, Marks, Positions, Connected, Piece
<1>2. NoneMarked'
  <2>1. mark' = [mark EXCEPT ![kind] = 0] \/ (mark[kind] = 0 /\ mark' = mark)
    BY DEF CallbackData, NoCallback, callbacks
  <2> QED BY <1>1, <2>1, OtherMarks DEF NoneMarked
<1>3. CASE mark[kind] = 0
  BY <1>2, <1>3 DEF CallbackData, NoCallback, callbacks, ParserInv, ClientOK
<1>4. CASE mark[kind] # 0
  <2>1. at \in Piece
    <3>1. mark[kind] \in Nat /\ mark[kind] >= 1 /\ p - 1 \in Int /\ p - 1 <= Len(wire)
      BY <1>1, <1>4
    <3> QED BY <1>1, <3>1, PieceOf
  <2>2. /\ request' = CASE kind = "header_field" -> OnHeaderField(request, at)
                        [] kind = "header_value" -> OnHeaderValue(request, at)
                        [] OTHER -> request
        /\ upper' = IF kind = "body" THEN [upper EXCEPT !.body = @ \o at] ELSE upper
        /\ UNCHANGED <<delivered, m_not_reusable>>
    BY <1>4 DEF CallbackData
  <2> HIDE DEF at
  <2>3. request \in Request /\ upper \in Passed_up /\ delivered' \in Passed_up
        /\ m_not_reusable' \in BOOLEAN
    BY <2>2 DEF ParserInv, ClientOK
  <2>4. request' \in Request /\ request'.m_state = request.m_state
    BY <2>1, <2>2, <2>3, OnHeaderFieldType, OnHeaderValueType
  <2>5. upper' \in Passed_up
    <3>1. upper.body \o at \in Piece
      BY <2>1, <2>3, SetUpper, ConcatProperties DEF Piece
    <3> QED BY <2>2, <2>3, <3>1, SetUpper
  <2> QED BY <1>2, <2>3, <2>4, <2>5 DEF ClientOK
<1> QED BY <1>3, <1>4

LEMMA NoCallbackClient ==
    ASSUME ParserInv, NoCallback
    PROVE  ClientOK' /\ request' = request /\ mark' = mark
  BY DEF NoCallback, callbacks, ParserInv, ClientOK

LEMMA MarkClient ==
    ASSUME ParserInv, NEW kind \in Kinds, Mark(kind)
    PROVE  /\ ClientOK' /\ request' = request
           /\ mark' \in [Kinds -> 0..p] /\ \A k \in Kinds : k # kind => mark'[k] = mark[k]
<1>1. mark \in [Kinds -> 0..p] /\ p \in Nat
  BY DEF ParserInv, Marks, Positions
<1>2. mark' = [mark EXCEPT ![kind] = IF mark[kind] = 0 THEN p ELSE mark[kind]]
  BY DEF Mark
<1>3. ClientOK' /\ request' = request
  BY DEF Mark, ParserInv, ClientOK
<1> QED BY <1>1, <1>2, <1>3

LEMMA MessageCompleteClient ==
    ASSUME ParserInv, NEW par, MessageComplete(par)
    PROVE  ClientOK' /\ request'.m_state = "done" /\ mark' = mark
<1>1. /\ request \in Request /\ upper \in Passed_up /\ delivered \in Passed_up
      /\ m_not_reusable \in BOOLEAN
  BY DEF ParserInv, ClientOK
<1>2. request' \in Request /\ request'.m_state = "done"
  <2>1. request' = [request EXCEPT !.m_state = "done"]
    BY DEF MessageComplete
  <2>2. request' \in Request
    BY <1>1, <2>1, SetRequest
  <2> QED BY <1>1, <2>1, <2>2 DEF Request
<1>3. upper' \in Passed_up /\ delivered' \in Passed_up
  BY <1>1, NothingType DEF MessageComplete
<1>4. m_not_reusable' \in BOOLEAN
  <2>1. m_not_reusable' = (m_not_reusable \/ ~http_should_keep_alive(par))
    BY DEF MessageComplete
  <2> QED BY <2>1
<1>5. mark' = mark
  BY DEF MessageComplete
<1> QED BY <1>2, <1>3, <1>4, <1>5 DEF ClientOK

\* What the marks must satisfy after a step.
LEMMA MarksNext ==
    ASSUME ParserInv, mark' \in [Kinds -> 0..p], p' \in Nat, p <= p',
           pc' \in {"loop", "switch", "returned"},
           \A kind \in Kinds : mark'[kind] # 0 =>
               pc' = "returned" \/ parser'.state \in Marked(kind)
    PROVE  Marks'
<1>1. p \in Nat
  BY DEF ParserInv, Positions
<1>2. mark' \in [Kinds -> 0..p']
  BY <1>1
<1> QED BY <1>2 DEF Marks

MarkStates == UNION {Marked(kind) : kind \in Kinds}

\* No mark is set in the other states.
LEMMA Unmarked ==
    ASSUME ParserInv, pc \in {"loop", "switch"}, parser.state \notin MarkStates
    PROVE  NoneMarked
<1>1. mark \in [Kinds -> 0..p] /\ p \in Nat
  BY DEF ParserInv, Marks, Positions
<1>2. \A kind \in Kinds : mark[kind] = 0
  BY DEF ParserInv, Marks, MarkStates
<1> QED BY <1>1, <1>2 DEF NoneMarked

LEMMA MarksGone ==
    ASSUME ParserInv, NoneMarked', p' \in Nat, p <= p', pc' \in {"loop", "switch", "returned"}
    PROVE  Marks'
<1>1. p \in Nat
  BY DEF ParserInv, Positions
<1>2. mark' \in [Kinds -> 0..p] /\ \A kind \in Kinds : mark'[kind] = 0
  BY <1>1 DEF NoneMarked
<1> QED BY <1>2, MarksNext

(***************************************************************************)
(* How a case of the switch ends.                                           *)
(***************************************************************************)

Ctl == ParserOK(parser) /\ Positions /\ Doing /\ Counted

\* A value of struct http_parser to go on with.
Ready(par) ==
    /\ ParserOK(par)
    /\ par.http_errno = "HPE_OK"
    /\ par.state = "s_chunk_size_start" => par.nread = 0

\* A header that is awaited goes on, and what was counted stays counted.
Onward(par) ==
    request'.m_state = "in_progress" /\ InHeader(par) =>
        /\ request.m_state = "in_progress" /\ InHeader(parser)
        /\ par.nread = parser.nread

LEMMA SwitchFacts ==
    ASSUME ParserInv, pc = "switch"
    PROVE  /\ parser \in http_parser /\ ParserOK(parser) /\ parser.http_errno = "HPE_OK"
           /\ parser.status_code \in Nat /\ parser.status_code <= 999
           /\ {data, p, last, start, nsize} \subseteq Nat /\ Len(wire) \in Nat
           /\ 1 <= data /\ data <= p /\ p <= last /\ last <= Len(wire) + 1 /\ start <= p
           /\ start = 0 => p < last
           /\ parser.state \notin {"s_header_field", "s_header_value"} => start = 0
<1>1. parser \in http_parser /\ ParserOK(parser) /\ parser.http_errno = "HPE_OK"
  BY DEF ParserInv, ParserOK, Doing
<1>2. parser.status_code \in Nat /\ parser.status_code <= 999
  <2>1. parser.status_code \in Nat
    BY <1>1, FieldTypes
  <2>2. ~(parser.status_code > 999)
    BY <1>1 DEF ParserOK
  <2> QED BY <2>1, <2>2
<1>3. Len(wire) \in Nat
  BY LenProperties DEF ParserInv, Connected, Piece
<1> QED BY <1>1, <1>2, <1>3 DEF ParserInv, Positions

LEMMA BreakCtl ==
    ASSUME ParserInv, pc = "switch", start = 0, UNCHANGED connection, NEW par, Break(par),
           Ready(par), par.state # "s_headers_done", Onward(par)
    PROVE  Ctl' /\ p' \in Nat /\ p <= p' /\ pc' = "loop" /\ parser' = par
<1>1. parser' = par /\ p' = p + 1 /\ pc' = "loop" /\ UNCHANGED <<start, nsize, data, last, wire>>
  BY DEF Break, connection
<1>2. ParserOK(parser')
  BY <1>1 DEF Ready
<1>3. Positions'
  BY <1>1 DEF ParserInv, Positions
<1>4. Doing'
  BY <1>1 DEF Ready, Doing, Control
<1>5. Counted'
  <2> SUFFICES ASSUME request'.m_state = "in_progress", InHeader(par)
               PROVE  p' <= par.nread + 1
    BY <1>1 DEF Counted
  <2>1. p <= parser.nread + Passed /\ par.nread = parser.nread
    BY SwitchFacts DEF ParserInv, Counted, Onward
  <2>2. parser.nread \in Nat /\ p \in Nat /\ Passed = 0
    BY SwitchFacts, FieldTypes DEF Passed
  <2> QED BY <1>1, <2>1, <2>2
<1>6. p' \in Nat /\ p <= p'
  BY <1>1 DEF ParserInv, Positions
<1> QED BY <1>1, <1>2, <1>3, <1>4, <1>5, <1>6 DEF Ctl

LEMMA ReexecuteCtl ==
    ASSUME ParserInv, pc = "switch", start = 0, UNCHANGED connection, NEW par, REEXECUTE(par),
           ParserOK(par), par.http_errno = "HPE_OK", par.state # "s_chunk_size_start",
           par.state = "s_headers_done" => ch = "LF" /\ "F_TRAILING" \notin par.flags,
           Onward(par)
    PROVE  Ctl' /\ p' \in Nat /\ p <= p' /\ pc' = "switch" /\ parser' = par
<1>1. /\ parser' = par /\ p' = p /\ pc' = "switch"
      /\ UNCHANGED <<start, nsize, data, last, wire, pc, p>>
  BY DEF REEXECUTE, connection
<1>2. ParserOK(parser')
  BY <1>1
<1>3. Positions'
  BY <1>1 DEF ParserInv, Positions
<1>4. Doing'
  BY <1>1 DEF Doing, Control, ch
<1>5. Counted'
  <2> SUFFICES ASSUME request'.m_state = "in_progress", InHeader(par)
               PROVE  p' <= par.nread + Passed'
    BY <1>1 DEF Counted
  <2>1. p <= parser.nread + Passed /\ par.nread = parser.nread
    BY SwitchFacts DEF ParserInv, Counted, Onward
  <2> QED BY <1>1, <2>1 DEF Passed
<1>6. p' \in Nat /\ p <= p'
  BY <1>1 DEF ParserInv, Positions
<1> QED BY <1>1, <1>2, <1>3, <1>4, <1>5, <1>6 DEF Ctl

LEMMA ErrnoOK ==
    ASSUME NEW par \in http_parser, NEW errno \in http_errno,
           ParserOK([par EXCEPT !.status_code = 0]),
           par.status_code <= 999 \/ errno = "HPE_INVALID_STATUS"
    PROVE  ParserOK([par EXCEPT !.http_errno = errno])
<1> DEFINE q == [par EXCEPT !.http_errno = errno]
           z == [par EXCEPT !.status_code = 0]
<1>1. q \in http_parser
  BY SetErrno
<1>2. /\ q.http_errno = errno /\ q.state = par.state
      /\ q.header_state = par.header_state /\ q.flags = par.flags
      /\ q.index = par.index /\ q.nread = par.nread
      /\ q.content_length = par.content_length /\ q.status_code = par.status_code
  BY DEF http_parser
<1>3. /\ z.state = par.state /\ z.header_state = par.header_state /\ z.flags = par.flags
      /\ z.index = par.index /\ z.nread = par.nread /\ z.content_length = par.content_length
  BY DEF http_parser
<1>4. par.status_code \in Nat
  BY FieldTypes
<1>5. q.status_code > 999 => q.http_errno = "HPE_INVALID_STATUS"
  BY <1>2, <1>4
<1> HIDE DEF q, z
<1>6. ParserOK(z)
  BY DEF z
<1>7. ParserOK(q)
  BY <1>1, <1>2, <1>3, <1>5, <1>6 DEF ParserOK
<1> QED BY <1>7 DEF q

LEMMA FailWithCtl ==
    ASSUME ParserInv, pc \in {"loop", "switch"}, UNCHANGED connection,
           NEW errno \in http_errno \ {"HPE_OK"}, NEW par \in http_parser, FailWith(par, errno),
           ParserOK([par EXCEPT !.http_errno = errno]), par.state # "s_headers_done"
    PROVE  Ctl' /\ p' \in Nat /\ p <= p' /\ pc' = "returned"
<1>1. /\ parser' = [par EXCEPT !.http_errno = errno] /\ p' = p /\ pc' = "returned" /\ start' = 0
      /\ nsize' = p - data /\ UNCHANGED <<data, last, wire>>
  BY DEF FailWith, connection
<1>2. parser'.http_errno = errno /\ parser'.state = par.state
  BY <1>1 DEF http_parser
<1>3. ParserOK(parser')
  BY <1>1
<1>4. Len(wire) \in Nat
  BY LenProperties DEF ParserInv, Connected, Piece
<1>5. Positions'
  BY <1>1, <1>4 DEF ParserInv, Positions
<1>6. Doing' /\ Counted'
  BY <1>1, <1>2 DEF Doing, Control, Counted
<1>7. p' \in Nat /\ p <= p'
  BY <1>1 DEF ParserInv, Positions
<1> QED BY <1>1, <1>3, <1>5, <1>6, <1>7 DEF Ctl

\* Without a status code, what ParserOK says of the other fields.
LEMMA NoStatus ==
    ASSUME NEW par, ParserOK(par)
    PROVE  ParserOK([par EXCEPT !.status_code = 0])
<1> DEFINE z == [par EXCEPT !.status_code = 0]
<1>1. par \in http_parser
  BY DEF ParserOK
<1>2. z \in http_parser
  BY <1>1, SetStatusCode
<1>3. /\ z.state = par.state /\ z.header_state = par.header_state /\ z.flags = par.flags
      /\ z.index = par.index /\ z.nread = par.nread /\ z.content_length = par.content_length
      /\ z.status_code = 0
  BY <1>1 DEF http_parser
<1> HIDE DEF z
<1>4. ~(z.status_code > 999)
  BY <1>3
<1>5. ParserOK(z)
  BY <1>2, <1>3, <1>4 DEF ParserOK
<1> QED BY <1>5 DEF z

LEMMA FailCtl ==
    ASSUME ParserInv, pc \in {"loop", "switch"}, UNCHANGED connection,
           NEW errno \in http_errno \ {"HPE_OK"}, Fail(errno), parser.state # "s_headers_done"
    PROVE  Ctl' /\ p' \in Nat /\ p <= p' /\ pc' = "returned"
<1>1. FailWith(parser, errno)
  BY DEF Fail
<1>2. ParserOK(parser) /\ parser.http_errno = "HPE_OK" /\ parser \in http_parser
  BY DEF ParserInv, ParserOK, Doing
<1>3. parser.status_code <= 999
  <2>1. ~(parser.status_code > 999)
    BY <1>2 DEF ParserOK
  <2>2. parser.status_code \in Nat
    BY <1>2, FieldTypes
  <2> QED BY <2>1, <2>2
<1>4. ParserOK([parser EXCEPT !.http_errno = errno])
  BY <1>2, <1>3, ErrnoOK, NoStatus
<1> QED BY <1>1, <1>2, <1>4, FailWithCtl

\* RETURN, after on_message_complete.
LEMMA ReturnCtl ==
    ASSUME ParserInv, pc = "switch", start = 0, UNCHANGED connection, NEW par, Return(par),
           Ready(par), par.state # "s_headers_done", request'.m_state = "done"
    PROVE  Ctl' /\ p' \in Nat /\ p <= p' /\ pc' = "returned" /\ parser' = par
<1>1. /\ parser' = par /\ p' = p /\ pc' = "returned" /\ nsize' = p - data + 1
      /\ UNCHANGED <<start, data, last, wire>>
  BY DEF Return, connection
<1>2. ParserOK(parser') /\ Doing' /\ Counted'
  BY <1>1 DEF Ready, Doing, Control, Counted
<1>3. Positions'
  BY <1>1, SwitchFacts DEF ParserInv, Positions
<1>4. p' \in Nat /\ p <= p'
  BY <1>1 DEF ParserInv, Positions
<1> QED BY <1>1, <1>2, <1>3, <1>4 DEF Ctl

LEMMA StepInv ==
    ASSUME ParserInv, UNCHANGED connection, Ctl', Marks', ClientOK'
    PROVE  ParserInv'
<1>1. Connected'
  BY DEF ParserInv, Connected, connection
<1> QED BY <1>1 DEF Ctl, ParserInv

\* The states about which ParserOK says something of their own.
Special == ChunkStates \cup {"s_header_value", "s_body_identity"}

LEMMA PlainReady ==
    ASSUME NEW par \in http_parser, par.status_code <= 999, par.http_errno = "HPE_OK",
           par.index <= IndexBound(par.header_state), par.nread <= HTTP_MAX_HEADER_SIZE,
           par.state \notin Special
    PROVE  Ready(par)
<1>1. par.status_code \in Nat
  BY FieldTypes
<1>2. ~(par.status_code > 999)
  BY <1>1
<1>3. /\ par.state \notin ChunkStates /\ par.state # "s_header_value"
      /\ par.state # "s_body_identity" /\ par.state # "s_chunk_data"
      /\ par.state # "s_chunk_data_almost_done" /\ par.state # "s_chunk_size_start"
      /\ par.state \notin {"s_chunk_size", "s_chunk_parameters", "s_chunk_size_almost_done"}
  BY DEF Special, ChunkStates
<1> QED BY <1>2, <1>3 DEF Ready, ParserOK

LEMMA ToFields ==
    ASSUME parser \in http_parser, NEW s \in States
    PROVE  /\ To(s) \in http_parser /\ To(s).state = s
           /\ To(s).header_state = parser.header_state /\ To(s).flags = parser.flags
           /\ To(s).index = parser.index /\ To(s).nread = parser.nread
           /\ To(s).content_length = parser.content_length
           /\ To(s).status_code = parser.status_code /\ To(s).http_errno = parser.http_errno
           /\ To(s).upgrade = parser.upgrade
<1>1. To(s) \in http_parser
  BY SetState DEF To
<1>2. /\ To(s).state = s
      /\ To(s).header_state = parser.header_state /\ To(s).flags = parser.flags
      /\ To(s).index = parser.index /\ To(s).nread = parser.nread
      /\ To(s).content_length = parser.content_length
      /\ To(s).status_code = parser.status_code /\ To(s).http_errno = parser.http_errno
      /\ To(s).upgrade = parser.upgrade
  BY DEF To, http_parser
<1> QED BY <1>1, <1>2

LEMMA ToReady ==
    ASSUME ParserInv, pc = "switch", NEW s \in States \ Special
    PROVE  Ready(To(s)) /\ ParserOK(To(s))
<1>1. parser \in http_parser /\ parser.status_code <= 999 /\ parser.http_errno = "HPE_OK"
  BY SwitchFacts
<1>2. parser.index <= IndexBound(parser.header_state) /\ parser.nread <= HTTP_MAX_HEADER_SIZE
  BY DEF ParserInv, ParserOK
<1>3. Ready(To(s))
  BY <1>1, <1>2, ToFields, PlainReady
<1> QED BY <1>3 DEF Ready

\* From the status line to the headers, the count and the flags stay or grow.
LEMMA OnwardIf ==
    ASSUME request'.m_state = request.m_state, NEW par, par.nread = parser.nread,
           \/ parser.state \in ResponseLineStates
           \/ /\ parser.state \in HeaderStates \ ChunkStates
              /\ par.state \notin ResponseLineStates /\ parser.flags \subseteq par.flags
    PROVE  Onward(par)
  BY DEF Onward, InHeader

\* No mark, no callback.
LEMMA Quiet ==
    ASSUME ParserInv, pc = "switch", parser.state \notin MarkStates, NoCallback
    PROVE  ClientOK' /\ request' = request /\ NoneMarked'
<1>1. ClientOK' /\ request' = request /\ mark' = mark
  BY NoCallbackClient
<1>2. NoneMarked
  BY Unmarked
<1> QED BY <1>1, <1>2 DEF NoneMarked

LEMMA StateSets ==
    /\ MarkStates = {"s_res_status", "s_header_field", "s_header_value", "s_body_identity",
                     "s_body_identity_eof", "s_chunk_data", "s_chunk_data_almost_done"}
    /\ Special \cap ResponseLineStates = {}
    /\ ResponseLineStates \cup HeaderStates \subseteq States
<1>1. /\ Marked("status") = {"s_res_status"} /\ Marked("header_field") = {"s_header_field"}
      /\ Marked("header_value") = {"s_header_value"}
      /\ Marked("body") = {"s_body_identity", "s_body_identity_eof", "s_chunk_data",
                           "s_chunk_data_almost_done"}
  BY DEF Marked
<1>2. MarkStates = Marked("status") \cup Marked("header_field") \cup Marked("header_value")
                       \cup Marked("body")
  BY DEF MarkStates, Kinds
<1>3. MarkStates = {"s_res_status", "s_header_field", "s_header_value", "s_body_identity",
                    "s_body_identity_eof", "s_chunk_data", "s_chunk_data_almost_done"}
  BY <1>1, <1>2
<1>4. Special \cap ResponseLineStates = {}
  BY DEF Special, ResponseLineStates, ChunkStates
<1>5. ResponseLineStates \cup HeaderStates \subseteq States
  BY DEF States
<1> QED BY <1>3, <1>4, <1>5

LEMMA FailStep ==
    ASSUME ParserInv, pc \in {"loop", "switch"}, UNCHANGED connection,
           NEW errno \in http_errno \ {"HPE_OK"}, Fail(errno), NoCallback,
           parser.state # "s_headers_done"
    PROVE  ParserInv'
<1>1. Ctl' /\ p' \in Nat /\ p <= p' /\ pc' = "returned"
  BY FailCtl
<1>2. ClientOK' /\ mark' = mark
  BY NoCallbackClient
<1>3. Marks'
  BY <1>1, <1>2, MarksNext DEF ParserInv, Marks
<1> QED BY <1>1, <1>2, <1>3, StepInv

\* The step of a case outside the inner loops that leaves no mark.
LEMMA BreakStep ==
    ASSUME ParserInv, pc = "switch", parser.state \notin {"s_header_field", "s_header_value"},
           UNCHANGED connection, NEW par, Break(par), Ready(par),
           par.state # "s_headers_done", Onward(par), ClientOK', NoneMarked'
    PROVE  ParserInv'
<1>1. start = 0
  BY SwitchFacts
<1>2. Ctl' /\ p' \in Nat /\ p <= p' /\ pc' = "loop" /\ parser' = par
  BY <1>1, BreakCtl
<1>3. Marks'
  BY <1>2, MarksGone
<1> QED BY <1>2, <1>3, StepInv

LEMMA ReexecuteStep ==
    ASSUME ParserInv, pc = "switch", parser.state \notin {"s_header_field", "s_header_value"},
           UNCHANGED connection, NEW par, REEXECUTE(par), ParserOK(par),
           par.http_errno = "HPE_OK", par.state # "s_chunk_size_start",
           par.state = "s_headers_done" => ch = "LF" /\ "F_TRAILING" \notin par.flags,
           Onward(par), ClientOK', NoneMarked'
    PROVE  ParserInv'
<1>1. start = 0
  BY SwitchFacts
<1>2. Ctl' /\ p' \in Nat /\ p <= p' /\ pc' = "switch" /\ parser' = par
  BY <1>1, ReexecuteCtl
<1>3. Marks'
  BY <1>2, MarksGone
<1> QED BY <1>2, <1>3, StepInv

\* An assignment to fields that ParserOK does not relate to others, in the
\* status line or in the headers.
LEMMA PlainStep ==
    ASSUME ParserInv, pc = "switch", UNCHANGED connection, NEW par, Ready(par),
           par.state # "s_headers_done", par.nread = parser.nread,
           \/ parser.state \in ResponseLineStates
           \/ /\ parser.state \in HeaderStates \ ChunkStates
              /\ par.state \notin ResponseLineStates /\ parser.flags \subseteq par.flags,
           parser.state \notin MarkStates, Break(par) \/ REEXECUTE(par), NoCallback,
           par.state # "s_chunk_size_start"
    PROVE  ParserInv'
<1>1. ClientOK' /\ request' = request /\ NoneMarked'
  BY Quiet
<1>2. Onward(par)
  BY <1>1, OnwardIf
<1>3. parser.state \notin {"s_header_field", "s_header_value"}
  BY StateSets
<1>4. CASE Break(par)
  BY <1>1, <1>2, <1>3, <1>4, BreakStep
<1>5. CASE REEXECUTE(par)
  <2>1. ParserOK(par) /\ par.http_errno = "HPE_OK"
    BY DEF Ready
  <2> QED BY <1>1, <1>2, <1>3, <1>5, <2>1, ReexecuteStep
<1> QED BY <1>4, <1>5

\* The same for a step that only changes the state.
LEMMA ToStep ==
    ASSUME ParserInv, pc = "switch", UNCHANGED connection,
           NEW s \in (ResponseLineStates \cup HeaderStates) \ (Special \cup {"s_headers_done"}),
           \/ parser.state \in ResponseLineStates
           \/ parser.state \in HeaderStates \ ChunkStates /\ s \notin ResponseLineStates,
           parser.state \notin MarkStates, Break(To(s)) \/ REEXECUTE(To(s)), NoCallback
    PROVE  ParserInv'
<1>1. s \in States \ Special
  BY StateSets
<1>2. Ready(To(s))
  BY <1>1, ToReady
<1>3. To(s).state = s /\ To(s).nread = parser.nread /\ To(s).flags = parser.flags
  BY <1>1, SwitchFacts, ToFields
<1>4. s # "s_chunk_size_start"
  BY <1>1 DEF Special, ChunkStates
<1> QED BY <1>2, <1>3, <1>4, PlainStep

LEMMA ExpectStep ==
    ASSUME ParserInv, pc = "switch", UNCHANGED connection, NEW c,
           NEW s \in (ResponseLineStates \cup HeaderStates) \ (Special \cup {"s_headers_done"}),
           \/ parser.state \in ResponseLineStates
           \/ parser.state \in HeaderStates \ ChunkStates /\ s \notin ResponseLineStates,
           parser.state \notin MarkStates, parser.state # "s_headers_done", Expect(c, s)
    PROVE  ParserInv'
<1>1. NoCallback
  BY DEF Expect
<1>2. CASE ch = c
  BY <1>1, <1>2, ToStep DEF Expect
<1>3. CASE ch # c
  <2>1. Fail("HPE_STRICT") /\ "HPE_STRICT" \in http_errno \ {"HPE_OK"}
    BY <1>3 DEF Expect, http_errno
  <2> QED BY <1>1, <2>1, FailStep
<1> QED BY <1>2, <1>3

(***************************************************************************)
(* The cases of the status line.                                            *)
(***************************************************************************)

LEMMA DeadStep == ASSUME ParserInv, UNCHANGED connection, Dead PROVE ParserInv'
<1>1. pc = "switch" /\ parser.state = "s_dead" /\ NoCallback
  BY DEF Dead, At
<1>2. parser.state \in ResponseLineStates /\ parser.state \notin MarkStates \cup Special
  BY <1>1, StateSets DEF ResponseLineStates
<1>3. Ready(parser)
  BY <1>1, <1>2, SwitchFacts DEF Ready, ResponseLineStates
<1>4. CASE Break(parser)
  BY <1>1, <1>2, <1>3, <1>4, PlainStep
<1>5. CASE Fail("HPE_CLOSED_CONNECTION")
  <2>1. "HPE_CLOSED_CONNECTION" \in http_errno \ {"HPE_OK"}
    BY DEF http_errno
  <2> QED BY <1>1, <1>5, <2>1, FailStep
<1> QED BY <1>4, <1>5 DEF Dead

LEMMA StartResStep == ASSUME ParserInv, UNCHANGED connection, StartRes PROVE ParserInv'
<1> DEFINE par == Fresh(parser)
           q == [par EXCEPT !.state = "s_res_H"]
<1>1. pc = "switch" /\ parser.state = "s_start_res" /\ NoCallback
  BY DEF StartRes, At
<1>2. parser.state \in ResponseLineStates /\ parser.state \notin MarkStates
  BY <1>1, StateSets DEF ResponseLineStates
<1>3. parser \in http_parser /\ parser.status_code <= 999 /\ parser.http_errno = "HPE_OK"
      /\ parser.index <= IndexBound(parser.header_state) /\ parser.nread <= HTTP_MAX_HEADER_SIZE
  BY <1>1, SwitchFacts DEF ParserInv, ParserOK
<1>4. par \in http_parser
  <2>1. {} \in SUBSET Flag /\ ULLONG_MAX \in 0..ULLONG_MAX
    BY ParserConstants
  <2> QED BY <1>3, <2>1, SetFlags, SetContentLength DEF Fresh
<1>5. /\ par.state = "s_start_res" /\ par.nread = parser.nread /\ par.status_code = parser.status_code
      /\ par.http_errno = "HPE_OK" /\ par.index = parser.index
      /\ par.header_state = parser.header_state
  BY <1>1, <1>3 DEF Fresh, http_parser
<1> HIDE DEF par
<1>6. q \in http_parser
  <2>1. "s_res_H" \in States
    BY DEF States, ResponseLineStates
  <2> QED BY <1>4, <2>1, SetState
<1>7. /\ q.state = "s_res_H" /\ q.nread = parser.nread /\ q.status_code = parser.status_code
      /\ q.http_errno = "HPE_OK" /\ q.index = parser.index
      /\ q.header_state = parser.header_state
  BY <1>4, <1>5 DEF http_parser
<1>8. "s_start_res" \notin Special /\ "s_res_H" \notin Special
  BY StateSets DEF ResponseLineStates
<1>9. Ready(par)
  BY <1>3, <1>4, <1>5, <1>8, PlainReady
<1>10. Ready(q)
  <2> HIDE DEF q
  <2> QED BY <1>3, <1>6, <1>7, <1>8, PlainReady
<1> HIDE DEF q
<1>11. CASE Break(q)
  BY <1>1, <1>2, <1>7, <1>10, <1>11, PlainStep
<1>12. CASE Break(par)
  BY <1>1, <1>2, <1>5, <1>9, <1>12, PlainStep
<1>13. CASE Fail("HPE_INVALID_CONSTANT")
  <2>1. "HPE_INVALID_CONSTANT" \in http_errno \ {"HPE_OK"}
    BY DEF http_errno
  <2> QED BY <1>1, <1>13, <2>1, FailStep
<1>14. Break(q) \/ Break(par) \/ Fail("HPE_INVALID_CONSTANT")
  BY DEF StartRes, q, par
<1> QED BY <1>11, <1>12, <1>13, <1>14

LEMMA ProtocolStep == ASSUME ParserInv, UNCHANGED connection, Protocol PROVE ParserInv'
<1> DEFINE T == {"s_res_HT", "s_res_HTT", "s_res_HTTP", "s_res_http_major"}
<1>1. PICK s \in T, c \in {"T", "P", "/"} : Expect(c, s)
  BY DEF Protocol
<1>2. pc = "switch" /\ parser.state \in {"s_res_H", "s_res_HT", "s_res_HTT", "s_res_HTTP"}
  BY DEF Protocol, At
<1>3. /\ parser.state \in ResponseLineStates /\ parser.state \notin MarkStates
      /\ parser.state # "s_headers_done"
  BY <1>2, StateSets DEF ResponseLineStates
<1>4. s \in (ResponseLineStates \cup HeaderStates) \ (Special \cup {"s_headers_done"})
  BY StateSets DEF ResponseLineStates
<1> HIDE DEF T
<1> QED BY <1>1, <1>2, <1>3, <1>4, ExpectStep

LEMMA RequireStep ==
    ASSUME ParserInv, pc = "switch", UNCHANGED connection, NEW ok \in BOOLEAN,
           NEW errno \in http_errno \ {"HPE_OK"}, NEW par, Require(ok, errno, par),
           parser.state \notin MarkStates \cup {"s_headers_done"},
           ok => Ready(par) /\ par.state # "s_headers_done" /\ Onward(par)
    PROVE  ParserInv'
<1>1. NoCallback /\ (IF ok THEN Break(par) ELSE Fail(errno))
  BY DEF Require
<1>2. CASE ok
  <2>1. ClientOK' /\ NoneMarked'
    BY <1>1, Quiet
  <2>2. parser.state \notin {"s_header_field", "s_header_value"}
    BY StateSets
  <2> QED BY <1>1, <1>2, <2>1, <2>2, BreakStep
<1>3. CASE ~ok
  BY <1>1, <1>3, FailStep
<1> QED BY <1>2, <1>3

\* The state and one more field are assigned in the status line.
LEMMA LineReady ==
    ASSUME ParserInv, pc = "switch", NEW s \in ResponseLineStates, NEW q,
           \/ \E x \in 0..9 : q \in {[To(s) EXCEPT !.http_major = x], [To(s) EXCEPT !.http_minor = x]}
           \/ q = [To(s) EXCEPT !.index = 0]
    PROVE  Ready(q) /\ q.state = s /\ q.nread = parser.nread
<1> DEFINE par == To(s)
<1>1. s \in States /\ s \notin Special
  BY StateSets
<1>2. /\ parser \in http_parser /\ parser.status_code <= 999 /\ parser.http_errno = "HPE_OK"
      /\ parser.index <= IndexBound(parser.header_state) /\ parser.nread <= HTTP_MAX_HEADER_SIZE
  BY SwitchFacts DEF ParserInv, ParserOK
<1>3. /\ par \in http_parser /\ par.state = s /\ par.header_state = parser.header_state
      /\ par.index = parser.index /\ par.nread = parser.nread
      /\ par.status_code = parser.status_code /\ par.http_errno = "HPE_OK"
  BY <1>1, <1>2, ToFields
<1>4. par.status_code <= 999 /\ par.nread <= HTTP_MAX_HEADER_SIZE
      /\ par.index <= IndexBound(par.header_state)
  BY <1>2, <1>3
<1> HIDE DEF par
<1>5. CASE \E x \in 0..9 : q \in {[par EXCEPT !.http_major = x], [par EXCEPT !.http_minor = x]}
  <2>1. PICK x \in 0..9 : q \in {[par EXCEPT !.http_major = x], [par EXCEPT !.http_minor = x]}
    BY <1>5
  <2>2. q \in http_parser
    BY <1>3, <2>1, SetVersion
  <2>3. /\ q.state = par.state /\ q.header_state = par.header_state /\ q.index = par.index
        /\ q.nread = par.nread /\ q.status_code = par.status_code
        /\ q.http_errno = par.http_errno
    BY <1>3, <2>1 DEF http_parser
  <2> QED BY <1>1, <1>3, <1>4, <2>2, <2>3, PlainReady
<1>6. CASE q = [par EXCEPT !.index = 0]
  <2> DEFINE r == [par EXCEPT !.index = 0]
  <2>0. r \in http_parser
    BY <1>3, SetIndex
  <2> HIDE DEF r
  <2>1. q \in http_parser
    BY <1>6, <2>0 DEF r
  <2>2. /\ q.state = par.state /\ q.index = 0
        /\ q.nread = par.nread /\ q.status_code = par.status_code
        /\ q.http_errno = par.http_errno
    BY <1>3, <1>6 DEF http_parser
  <2>3. q.index <= IndexBound(q.header_state)
    BY <2>2, IndexBounds
  <2> QED BY <1>1, <1>3, <1>4, <2>1, <2>2, <2>3, PlainReady
<1> QED BY <1>5, <1>6 DEF par

LEMMA VersionStep == ASSUME ParserInv, UNCHANGED connection, Version PROVE ParserInv'
<1>1. /\ pc = "switch" /\ NoCallback
      /\ parser.state \in {"s_res_http_major", "s_res_http_dot", "s_res_http_minor", "s_res_http_end"}
  BY DEF Version, At, Require
<1>2. /\ parser.state \in ResponseLineStates /\ parser.state \notin MarkStates
      /\ parser.state # "s_headers_done"
  BY <1>1, StateSets DEF ResponseLineStates
<1>3. request'.m_state = request.m_state
  BY <1>1, NoCallbackClient
<1> DEFINE T == {"s_res_http_dot", "s_res_http_minor", "s_res_http_end", "s_res_first_status_code"}
<1>4. ASSUME NEW s \in T PROVE s \in ResponseLineStates /\ s # "s_headers_done" /\ s \notin Special
  BY StateSets DEF ResponseLineStates
<1>5. "HPE_INVALID_VERSION" \in http_errno \ {"HPE_OK"}
  BY DEF http_errno
<1>6. ASSUME NEW s \in T, NEW ok \in BOOLEAN, NEW par, Require(ok, "HPE_INVALID_VERSION", par),
             ok => Ready(par) /\ par.state = s /\ par.nread = parser.nread
      PROVE  ParserInv'
  <2>1. ok => Onward(par) /\ par.state # "s_headers_done"
    BY <1>2, <1>3, <1>4, <1>6, OnwardIf
  <2> QED BY <1>1, <1>2, <1>5, <1>6, <2>1, RequireStep
<1>7. ASSUME NEW s \in T PROVE Ready(To(s)) /\ To(s).state = s /\ To(s).nread = parser.nread
  <2>1. s \in States \ Special
    BY <1>4, StateSets
  <2> QED BY <1>1, <2>1, ToReady, ToFields, SwitchFacts
<1>8. CASE /\ At("s_res_http_major")
           /\ Require(IS_NUM(ch), "HPE_INVALID_VERSION",
                      [To("s_res_http_dot") EXCEPT !.http_major = unhex(ch)])
  <2> DEFINE q == [To("s_res_http_dot") EXCEPT !.http_major = unhex(ch)]
  <2>1. IS_NUM(ch) => Ready(q) /\ q.state = "s_res_http_dot" /\ q.nread = parser.nread
    BY <1>1, <1>4, Numerals, LineReady
  <2>2. IS_NUM(ch) \in BOOLEAN
    BY DEF IS_NUM
  <2> HIDE DEF q
  <2> QED BY <1>6, <1>8, <2>1, <2>2 DEF q
<1>9. CASE /\ At("s_res_http_dot")
           /\ Require(ch = ".", "HPE_INVALID_VERSION", To("s_res_http_minor"))
  BY <1>6, <1>7, <1>9
<1>10. CASE /\ At("s_res_http_minor")
            /\ Require(IS_NUM(ch), "HPE_INVALID_VERSION",
                       [To("s_res_http_end") EXCEPT !.http_minor = unhex(ch)])
  <2> DEFINE q == [To("s_res_http_end") EXCEPT !.http_minor = unhex(ch)]
  <2>1. IS_NUM(ch) => Ready(q) /\ q.state = "s_res_http_end" /\ q.nread = parser.nread
    BY <1>1, <1>4, Numerals, LineReady
  <2>2. IS_NUM(ch) \in BOOLEAN
    BY DEF IS_NUM
  <2> HIDE DEF q
  <2> QED BY <1>6, <1>10, <2>1, <2>2 DEF q
<1>11. CASE /\ At("s_res_http_end")
            /\ Require(ch = " ", "HPE_INVALID_VERSION", To("s_res_first_status_code"))
  BY <1>6, <1>7, <1>11
<1> QED BY <1>8, <1>9, <1>10, <1>11 DEF Version

\* The status code gets another digit.
LEMMA CodeFields ==
    ASSUME NEW par \in http_parser, NEW code \in Nat, code <= 9999
    PROVE  LET q == [par EXCEPT !.status_code = code]
           IN  /\ q \in http_parser /\ q.state = par.state /\ q.nread = par.nread
               /\ q.index = par.index /\ q.header_state = par.header_state
               /\ q.http_errno = par.http_errno /\ q.status_code = code
<1> DEFINE q == [par EXCEPT !.status_code = code]
<1>1. q \in http_parser
  BY SetStatusCode
<1>2. /\ q.state = par.state /\ q.header_state = par.header_state /\ q.index = par.index
      /\ q.nread = par.nread /\ q.http_errno = par.http_errno
  <2> HIDE DEF q
  <2>1. q = [par EXCEPT !.status_code = code]
    BY DEF q
  <2> QED BY <2>1 DEF http_parser
<1>3. q.status_code = code
  BY DEF http_parser
<1> QED BY <1>1, <1>2, <1>3

LEMMA FirstStatusCodeStep ==
    ASSUME ParserInv, UNCHANGED connection, FirstStatusCode PROVE ParserInv'
<1> DEFINE q == [To("s_res_status_code") EXCEPT !.status_code = unhex(ch)]
<1>1. pc = "switch" /\ parser.state = "s_res_first_status_code" /\ NoCallback
  BY DEF FirstStatusCode, At
<1>2. /\ parser.state \in ResponseLineStates /\ parser.state \notin MarkStates
      /\ parser.state # "s_headers_done" /\ "s_res_status_code" \in ResponseLineStates
      /\ parser.state # "s_chunk_size_start"
  BY <1>1, StateSets DEF ResponseLineStates
<1>3. CASE IS_NUM(ch) /\ Break(q)
  <2>1. unhex(ch) \in 0..9
    BY <1>3, Numerals
  <2>2. unhex(ch) \in Nat /\ unhex(ch) <= 9999 /\ unhex(ch) <= 999
    BY <2>1
  <2> DEFINE par == To("s_res_status_code")
  <2>a. /\ par \in http_parser /\ par.state = "s_res_status_code" /\ par.nread = parser.nread
        /\ par.header_state = parser.header_state /\ par.index = parser.index
        /\ par.http_errno = "HPE_OK"
    BY <1>1, <1>2, SwitchFacts, ToFields, StateSets
  <2>b. parser.index <= IndexBound(parser.header_state) /\ parser.nread <= HTTP_MAX_HEADER_SIZE
    BY DEF ParserInv, ParserOK
  <2> HIDE DEF par
  <2>c. /\ q \in http_parser /\ q.state = par.state /\ q.nread = par.nread
        /\ q.index = par.index /\ q.header_state = par.header_state
        /\ q.http_errno = par.http_errno /\ q.status_code = unhex(ch)
    BY <2>2, <2>a, CodeFields DEF par
  <2> HIDE DEF q
  <2>3. /\ q \in http_parser /\ q.state = "s_res_status_code" /\ q.nread = parser.nread
        /\ q.index <= IndexBound(q.header_state) /\ q.nread <= HTTP_MAX_HEADER_SIZE
        /\ q.http_errno = "HPE_OK" /\ q.status_code = unhex(ch)
    BY <2>a, <2>b, <2>c
  <2>4. "s_res_status_code" \notin Special
    BY <1>2, StateSets
  <2>5. Ready(q)
    BY <2>2, <2>3, <2>4, PlainReady
  <2> QED BY <1>1, <1>2, <1>3, <2>3, <2>5, PlainStep
<1>4. CASE Break(parser)
  <2>1. Ready(parser)
    BY <1>1, <1>2, SwitchFacts DEF Ready
  <2> QED BY <1>1, <1>2, <1>4, <2>1, PlainStep
<1>5. CASE Fail("HPE_INVALID_STATUS")
  <2>1. "HPE_INVALID_STATUS" \in http_errno \ {"HPE_OK"}
    BY DEF http_errno
  <2> QED BY <1>1, <1>2, <1>5, <2>1, FailStep
<1> QED BY <1>3, <1>4, <1>5 DEF FirstStatusCode

LEMMA StatusCodeStep == ASSUME ParserInv, UNCHANGED connection, StatusCode PROVE ParserInv'
<1> DEFINE code == parser.status_code * 10 + unhex(ch)
           q == [parser EXCEPT !.status_code = code]
<1>1. pc = "switch" /\ parser.state = "s_res_status_code" /\ NoCallback
  BY DEF StatusCode, At
<1>2. /\ parser.state \in ResponseLineStates /\ parser.state \notin MarkStates
      /\ parser.state # "s_headers_done" /\ parser.state \notin Special
      /\ parser.state # "s_chunk_size_start"
  BY <1>1, StateSets DEF ResponseLineStates
<1>3. /\ parser \in http_parser /\ parser.http_errno = "HPE_OK"
      /\ parser.status_code \in Nat /\ parser.status_code <= 999
      /\ parser.index <= IndexBound(parser.header_state) /\ parser.nread <= HTTP_MAX_HEADER_SIZE
  BY <1>1, SwitchFacts DEF ParserInv, ParserOK
<1>4. "HPE_INVALID_STATUS" \in http_errno \ {"HPE_OK"}
  BY DEF http_errno
<1>5. ASSUME IS_NUM(ch)
      PROVE  /\ code \in Nat /\ code <= 9999
             /\ q \in http_parser /\ q.state = parser.state /\ q.nread = parser.nread
             /\ q.index = parser.index /\ q.header_state = parser.header_state
             /\ q.http_errno = parser.http_errno /\ q.status_code = code
  <2>1. unhex(ch) \in 0..9
    BY <1>5, Numerals
  <2>2. code \in Nat /\ code <= 9999
    BY <1>3, <2>1
  <2> HIDE DEF code
  <2> QED BY <1>3, <2>2, CodeFields
<1>6. CASE IS_NUM(ch) /\ code <= 999 /\ Break(q)
  <2> HIDE DEF q
  <2>1. Ready(q)
    BY <1>2, <1>3, <1>5, <1>6, PlainReady
  <2> QED BY <1>1, <1>2, <1>5, <1>6, <2>1, PlainStep
<1>7. CASE IS_NUM(ch) /\ FailWith(q, "HPE_INVALID_STATUS")
  <2> DEFINE z == [q EXCEPT !.status_code = 0]
  <2>1. z = [parser EXCEPT !.status_code = 0]
    OBVIOUS
  <2>2. ParserOK(z)
    <3>1. ParserOK(parser)
      BY DEF ParserInv
    <3> HIDE DEF z
    <3> QED BY <2>1, <3>1, NoStatus
  <2> HIDE DEF q
  <2>3. ParserOK([q EXCEPT !.http_errno = "HPE_INVALID_STATUS"])
    BY <1>4, <1>5, <1>7, <2>2, ErrnoOK
  <2>4. Ctl' /\ p' \in Nat /\ p <= p' /\ pc' = "returned"
    BY <1>1, <1>2, <1>4, <1>5, <1>7, <2>3, FailWithCtl
  <2>5. ClientOK' /\ mark' = mark
    BY <1>1, NoCallbackClient
  <2>6. Marks'
    BY <2>4, <2>5, MarksNext DEF ParserInv, Marks
  <2> QED BY <2>4, <2>5, <2>6, StepInv
<1>8. CASE Break(To("s_res_status_start")) \/ REEXECUTE(To("s_res_status_start"))
  <2>1. "s_res_status_start" \in (ResponseLineStates \cup HeaderStates) \ (Special \cup {"s_headers_done"})
    BY StateSets DEF ResponseLineStates
  <2> QED BY <1>1, <1>2, <1>8, <2>1, ToStep
<1>9. CASE Fail("HPE_INVALID_STATUS")
  BY <1>1, <1>2, <1>4, <1>9, FailStep
<1> HIDE DEF q, code
<1>10. \/ IS_NUM(ch) /\ code <= 999 /\ Break(q)
       \/ IS_NUM(ch) /\ FailWith(q, "HPE_INVALID_STATUS")
       \/ Break(To("s_res_status_start")) \/ REEXECUTE(To("s_res_status_start"))
       \/ Fail("HPE_INVALID_STATUS")
  BY ZenonT(60) DEF StatusCode, IsStatus, q, code
<1> QED BY <1>6, <1>7, <1>8, <1>9, <1>10

\* A mark is set and the parser is then in a state for it.
LEMMA MarkedNext ==
    ASSUME ParserInv, pc = "switch", NEW kind \in Kinds, Mark(kind),
           parser.state \notin MarkStates \/ parser.state \in Marked(kind),
           p' \in Nat, p <= p', pc' \in {"loop", "switch", "returned"},
           pc' = "returned" \/ parser'.state \in Marked(kind)
    PROVE  Marks' /\ ClientOK' /\ request' = request
<1>1. /\ ClientOK' /\ request' = request
      /\ mark' \in [Kinds -> 0..p] /\ \A k \in Kinds : k # kind => mark'[k] = mark[k]
  BY MarkClient
<1>2. \A k \in Kinds : k # kind => mark[k] = 0
  BY OtherMarks, Unmarked DEF NoneMarked
<1> QED BY <1>1, <1>2, MarksNext

\* The state stays, and so do the marks.
LEMMA MarksStay ==
    ASSUME ParserInv, pc \in {"loop", "switch"}, mark' = mark, parser'.state = parser.state,
           p' \in Nat, p <= p', pc' \in {"loop", "switch", "returned"}
    PROVE  Marks'
<1>1. mark' \in [Kinds -> 0..p] /\ \A kind \in Kinds : mark'[kind] # 0 => parser'.state \in Marked(kind)
  BY DEF ParserInv, Marks
<1> QED BY <1>1, MarksNext

LEMMA StatusStartStep == ASSUME ParserInv, UNCHANGED connection, StatusStart PROVE ParserInv'
<1> DEFINE par == [To("s_res_status") EXCEPT !.index = 0]
<1>1. pc = "switch" /\ parser.state = "s_res_status_start" /\ Mark("status")
  BY DEF StatusStart, At
<1>2. /\ parser.state \in ResponseLineStates /\ parser.state \notin MarkStates
      /\ "s_res_status" \in ResponseLineStates /\ parser.state \notin {"s_header_field", "s_header_value"}
  BY <1>1, StateSets DEF ResponseLineStates
<1>3. Ready(par) /\ par.state = "s_res_status" /\ par.nread = parser.nread
  BY <1>1, <1>2, LineReady
<1> HIDE DEF par
<1>4. "status" \in Kinds /\ "s_res_status" \in Marked("status")
  BY DEF Kinds, Marked
<1>5. request' = request
  BY <1>1, <1>4, MarkClient
<1>6. Onward(par) /\ ParserOK(par) /\ par.http_errno = "HPE_OK" /\ start = 0
  BY <1>1, <1>2, <1>3, <1>5, OnwardIf, SwitchFacts DEF Ready
<1>7. Ctl' /\ p' \in Nat /\ p <= p' /\ pc' \in {"loop", "switch"} /\ parser' = par
  <2>1. CASE Break(par)
    BY <1>1, <1>3, <1>6, <2>1, BreakCtl
  <2>2. CASE REEXECUTE(par)
    BY <1>1, <1>3, <1>6, <2>2, ReexecuteCtl
  <2> QED BY <2>1, <2>2 DEF StatusStart, par
<1>8. Marks' /\ ClientOK'
  BY <1>1, <1>2, <1>3, <1>4, <1>7, MarkedNext
<1> QED BY <1>7, <1>8, StepInv

LEMMA StatusStep == ASSUME ParserInv, UNCHANGED connection, Status PROVE ParserInv'
<1>1. pc = "switch" /\ parser.state = "s_res_status"
  BY DEF Status, At
<1>2. /\ parser.state \in ResponseLineStates /\ parser.state \in Marked("status")
      /\ "status" \in Kinds /\ parser.state \notin {"s_header_field", "s_header_value"}
      /\ parser.state # "s_headers_done" /\ parser.state # "s_chunk_size_start"
  BY <1>1 DEF ResponseLineStates, Marked, Kinds
<1>3. CASE ch \in EOL
  <2>1. PICK s \in {"s_res_line_almost_done", "s_header_field_start"} : Break(To(s))
    BY <1>3 DEF Status, EOL
  <2>2. ClientOK' /\ request'.m_state = request.m_state /\ NoneMarked'
    BY <1>1, <1>2, <1>3, CallbackDataClient DEF Status
  <2>3. s \in States \ Special /\ s # "s_headers_done"
    BY DEF States, ResponseLineStates, HeaderStates, Special, ChunkStates
  <2>4. Ready(To(s)) /\ To(s).state = s /\ To(s).nread = parser.nread
    BY <1>1, <2>3, ToReady, ToFields, SwitchFacts
  <2>5. Onward(To(s))
    BY <1>2, <2>2, <2>4, OnwardIf
  <2> QED BY <1>1, <1>2, <2>1, <2>2, <2>3, <2>4, <2>5, BreakStep
<1>4. CASE ch \notin EOL
  <2>1. Break(parser) /\ NoCallback
    BY <1>4 DEF Status, EOL
  <2>2. ClientOK' /\ request' = request /\ mark' = mark
    BY <2>1, NoCallbackClient
  <2>3. Ready(parser) /\ Onward(parser) /\ start = 0
    BY <1>1, <1>2, <2>2, OnwardIf, SwitchFacts DEF Ready
  <2>4. Ctl' /\ p' \in Nat /\ p <= p' /\ pc' = "loop" /\ parser' = parser
    BY <1>1, <1>2, <2>1, <2>3, BreakCtl
  <2>5. Marks'
    BY <1>1, <2>2, <2>4, MarksStay
  <2> QED BY <2>2, <2>4, <2>5, StepInv
<1> QED BY <1>3, <1>4

LEMMA LineAlmostDoneStep == ASSUME ParserInv, UNCHANGED connection, LineAlmostDone PROVE ParserInv'
<1>1. /\ pc = "switch" /\ parser.state = "s_res_line_almost_done"
      /\ Expect("LF", "s_header_field_start")
  BY DEF LineAlmostDone, At
<1>2. /\ parser.state \in ResponseLineStates /\ parser.state \notin MarkStates
      /\ parser.state # "s_headers_done"
  BY <1>1, StateSets DEF ResponseLineStates
<1>3. "s_header_field_start" \in (ResponseLineStates \cup HeaderStates) \ (Special \cup {"s_headers_done"})
  BY DEF HeaderStates, Special, ChunkStates
<1> QED BY <1>1, <1>2, <1>3, ExpectStep

(***************************************************************************)
(* Matching header names and values.                                        *)
(***************************************************************************)

\* From par to q within a header: only index, header_state and the length
\* change, and flags are added.
Further(par, q) ==
    /\ ParserOK(q) /\ q.state = par.state /\ q.nread = par.nread
    /\ par.flags \subseteq q.flags /\ q.http_errno = par.http_errno

\* The states of a match that may not be those of a value.
FieldOnly == {"h_connection", "h_transfer_encoding"}

LEMMA MatchOK ==
    ASSUME NEW par, ParserOK(par), NEW h \in header_states, NEW i \in Nat, i <= IndexBound(h),
           NEW f \in SUBSET Flag, par.flags \subseteq f,
           par.state = "s_header_value" => h \notin FieldOnly
    PROVE  /\ Further(par, [par EXCEPT !.index = i, !.header_state = h])
           /\ Further(par, [par EXCEPT !.flags = f, !.index = i, !.header_state = h])
<1> DEFINE a == [par EXCEPT !.index = i, !.header_state = h]
           b == [par EXCEPT !.flags = f]
           c == [b EXCEPT !.index = i, !.header_state = h]
<1>1. par \in http_parser /\ i <= 127
  <2>1. IndexBound(h) \in 0..5
    BY IndexBounds
  <2>2. i <= 127
    BY <2>1
  <2> QED BY <2>2 DEF ParserOK
<1>2. ASSUME NEW r \in http_parser
      PROVE  LET q == [r EXCEPT !.index = i, !.header_state = h]
             IN  /\ q \in http_parser /\ q.index = i /\ q.header_state = h
                 /\ q.state = r.state /\ q.flags = r.flags /\ q.nread = r.nread
                 /\ q.content_length = r.content_length /\ q.status_code = r.status_code
                 /\ q.http_errno = r.http_errno
  <2> DEFINE q == [r EXCEPT !.index = i, !.header_state = h]
  <2>1. q \in http_parser
    BY <1>1, <1>2, SetIndex, SetHeaderState
  <2>2. /\ q.index = i /\ q.header_state = h
        /\ q.state = r.state /\ q.flags = r.flags /\ q.nread = r.nread
        /\ q.content_length = r.content_length /\ q.status_code = r.status_code
        /\ q.http_errno = r.http_errno
    BY <1>2 DEF http_parser
  <2> QED BY <2>1, <2>2
<1>3. b \in http_parser
  BY <1>1, SetFlags
<1>4. /\ b.state = par.state /\ b.flags = f /\ b.nread = par.nread
      /\ b.content_length = par.content_length /\ b.status_code = par.status_code
      /\ b.http_errno = par.http_errno
  BY <1>1 DEF http_parser
<1> HIDE DEF b
<1>5. /\ a \in http_parser /\ a.index = i /\ a.header_state = h
      /\ a.state = par.state /\ a.flags = par.flags /\ a.nread = par.nread
      /\ a.content_length = par.content_length /\ a.status_code = par.status_code
      /\ a.http_errno = par.http_errno
  BY <1>1, <1>2
<1>6. /\ c \in http_parser /\ c.index = i /\ c.header_state = h
      /\ c.state = par.state /\ c.flags = f /\ c.nread = par.nread
      /\ c.content_length = par.content_length /\ c.status_code = par.status_code
      /\ c.http_errno = par.http_errno
  BY <1>2, <1>3, <1>4
<1>7. c = [par EXCEPT !.flags = f, !.index = i, !.header_state = h]
  BY DEF b
<1> HIDE DEF a, c
<1>8. ParserOK(a)
  BY <1>5 DEF ParserOK, FieldOnly
<1>9. ParserOK(c)
  BY <1>6 DEF ParserOK, FieldOnly
<1>10. Further(par, a)
  BY <1>5, <1>8 DEF Further
<1>11. Further(par, c)
  BY <1>6, <1>9 DEF Further
<1> QED BY <1>7, <1>10, <1>11 DEF a

\* The match is given up or goes on in another state.
LEMMA ElsewhereOK ==
    ASSUME NEW par, ParserOK(par), NEW h \in header_states, par.index <= IndexBound(h),
           par.state = "s_header_value" => h \notin FieldOnly
    PROVE  Further(par, [par EXCEPT !.header_state = h])
<1> DEFINE a == [par EXCEPT !.header_state = h]
<1>1. par \in http_parser
  BY DEF ParserOK
<1>2. a \in http_parser
  BY <1>1, SetHeaderState
<1>3. /\ a.index = par.index /\ a.header_state = h
      /\ a.state = par.state /\ a.flags = par.flags /\ a.nread = par.nread
      /\ a.content_length = par.content_length /\ a.status_code = par.status_code
      /\ a.http_errno = par.http_errno
  BY <1>1 DEF http_parser
<1> HIDE DEF a
<1>4. ParserOK(a)
  BY <1>2, <1>3 DEF ParserOK, FieldOnly
<1>5. Further(par, a)
  BY <1>3, <1>4 DEF Further
<1> QED BY <1>5 DEF a

LEMMA IndexLow ==
    ASSUME NEW par, ParserOK(par)
    PROVE  /\ par \in http_parser /\ par.index \in Nat /\ par.index <= 5
           /\ par.index <= IndexBound(par.header_state) /\ par.header_state \in header_states
           /\ par.flags \in SUBSET Flag
<1>1. par \in http_parser /\ par.index <= IndexBound(par.header_state)
  BY DEF ParserOK
<1>2. par.index \in 0..127 /\ par.header_state \in header_states /\ par.flags \in SUBSET Flag
  BY <1>1, FieldTypes
<1>3. IndexBound(par.header_state) \in 0..5
  BY IndexBounds
<1> QED BY <1>1, <1>2, <1>3

\* The states that hit or miss a word are not matching one.
Settled == {"h_general", "h_connection", "h_content_length", "h_transfer_encoding", "h_upgrade",
            "h_matching_connection_token", "h_transfer_encoding_chunked",
            "h_connection_keep_alive", "h_connection_close", "h_connection_upgrade"}

LEMMA SettledBound ==
    \A h \in Settled : h \in header_states /\ IndexBound(h) = 5
  BY DEF Settled, header_states, IndexBound

LEMMA MatchWordOK ==
    ASSUME NEW par, ParserOK(par), NEW word, Len(word) \in 1..5,
           IndexBound(par.header_state) = Len(word) - 1, NEW c,
           NEW hit \in Settled, NEW miss \in Settled,
           par.state = "s_header_value" => hit \notin FieldOnly /\ miss \notin FieldOnly
    PROVE  Further(par, MatchWord(par, word, c, hit, miss))
<1> DEFINE i == par.index + 1
           h == CASE i >= Len(word) \/ c # word[i + 1] -> miss
                  [] i = Len(word) - 1 -> hit
                  [] OTHER -> par.header_state
<1>1. MatchWord(par, word, c, hit, miss) = [par EXCEPT !.index = i, !.header_state = h]
  BY DEF MatchWord
<1>2. i \in Nat /\ i <= 5 /\ i <= Len(word)
  <2> DEFINE k == par.index
             n == Len(word)
  <2>1. k \in Nat /\ k <= n - 1 /\ n \in 1..5
    BY IndexLow
  <2> HIDE DEF k, n
  <2>2. k + 1 \in Nat /\ k + 1 <= 5 /\ k + 1 <= n
    BY <2>1
  <2> QED BY <2>2 DEF k, n
<1>3. h \in {miss, hit} \/ (h = par.header_state /\ i < Len(word))
  BY <1>2
<1>4. h \in header_states /\ i <= IndexBound(h)
  <2> HIDE DEF h
  <2>1. CASE h \in {miss, hit}
    BY <1>2, <2>1, SettledBound
  <2>2. CASE h = par.header_state /\ i < Len(word)
    BY <1>2, <2>2, IndexLow
  <2> QED BY <1>3, <2>1, <2>2
<1>5. par.state = "s_header_value" => h \notin FieldOnly
  <2>1. par.state = "s_header_value" => par.header_state \notin FieldOnly
    BY DEF ParserOK, FieldOnly
  <2> HIDE DEF h
  <2> QED BY <1>3, <2>1
<1> HIDE DEF i, h
<1>6. Further(par, [par EXCEPT !.index = i, !.header_state = h])
  BY <1>2, <1>4, <1>5, IndexLow, MatchOK
<1> QED BY <1>1, <1>6

LEMMA Words ==
    /\ Len(CONNECTION) = 5 /\ Len(CONTENT_LENGTH) = 5 /\ Len(PROXY_CONNECTION) = 2
    /\ Len(TRANSFER_ENCODING) = 2 /\ Len(UPGRADE) = 2 /\ Len(CHUNKED) = 2
    /\ Len(KEEP_ALIVE) = 2 /\ Len(CLOSE) = 2
  BY DEF CONNECTION, CONTENT_LENGTH, PROXY_CONNECTION, TRANSFER_ENCODING, UPGRADE, CHUNKED,
         KEEP_ALIVE, CLOSE

LEMMA MatchBounds ==
    /\ IndexBound("h_C") = 0 /\ IndexBound("h_CO") = 1 /\ IndexBound("h_CON") = 2
    /\ IndexBound("h_matching_connection") = 4 /\ IndexBound("h_matching_content_length") = 4
    /\ IndexBound("h_matching_proxy_connection") = 1
    /\ IndexBound("h_matching_transfer_encoding") = 1 /\ IndexBound("h_matching_upgrade") = 1
    /\ IndexBound("h_matching_transfer_encoding_chunked") = 1
    /\ IndexBound("h_matching_connection_keep_alive") = 1
    /\ IndexBound("h_matching_connection_close") = 1
    /\ IndexBound("h_matching_connection_upgrade") = 1
    /\ IndexBound("h_matching_connection_token_start") = 0
    /\ IndexBound("h_general") = 5
  BY DEF IndexBound

LEMMA MatchFieldOK ==
    ASSUME NEW par, ParserOK(par), par.state = "s_header_field", NEW c
    PROVE  Further(par, MatchField(par, c))
<1> DEFINE h == par.header_state
           Next3(k) == [par EXCEPT !.index = @ + 1, !.header_state = k]
           Word(word, hit) == MatchWord(par, word, c, hit, "h_general")
<1>1. /\ par \in http_parser /\ par.index \in Nat /\ par.index <= 5 /\ par.index <= IndexBound(h)
      /\ h \in header_states /\ par.flags \in SUBSET Flag
  BY IndexLow
<1>2. par.state # "s_header_value"
  OBVIOUS
<1>3. ASSUME NEW k \in header_states, par.index + 1 <= IndexBound(k)
      PROVE  Further(par, Next3(k))
  <2> DEFINE i == par.index + 1
  <2>1. i \in Nat /\ i <= IndexBound(k)
    BY <1>1, <1>3
  <2> HIDE DEF i
  <2>2. Further(par, [par EXCEPT !.index = i, !.header_state = k])
    BY <1>1, <1>2, <2>1, MatchOK
  <2> QED BY <2>2 DEF i
<1>4. ASSUME NEW word, NEW hit \in Settled, Len(word) \in 1..5, IndexBound(h) = Len(word) - 1
      PROVE  Further(par, Word(word, hit))
  <2>1. "h_general" \in Settled
    BY DEF Settled
  <2> QED BY <1>2, <1>4, <2>1, MatchWordOK
<1>5. {"h_CO", "h_CON", "h_general", "h_matching_connection", "h_matching_content_length"}
          \subseteq header_states
  BY DEF header_states
<1>6. {"h_connection", "h_content_length", "h_transfer_encoding", "h_upgrade"} \subseteq Settled
  BY DEF Settled
<1> HIDE DEF Next3, Word
<1>7. CASE h = "h_C"
  <2>1. MatchField(par, c) = Next3(IF c = "o" THEN "h_CO" ELSE "h_general")
    BY <1>7 DEF MatchField, Next3
  <2>2. par.index + 1 <= IndexBound("h_CO") /\ par.index + 1 <= IndexBound("h_general")
    BY <1>1, <1>7, MatchBounds
  <2> QED BY <1>3, <1>5, <2>1, <2>2
<1>8. CASE h = "h_CO"
  <2>1. MatchField(par, c) = Next3(IF c = "n" THEN "h_CON" ELSE "h_general")
    BY <1>8 DEF MatchField, Next3
  <2>2. par.index + 1 <= IndexBound("h_CON") /\ par.index + 1 <= IndexBound("h_general")
    BY <1>1, <1>8, MatchBounds
  <2> QED BY <1>3, <1>5, <2>1, <2>2
<1>9. CASE h = "h_CON"
  <2>1. \E k \in {"h_matching_connection", "h_matching_content_length", "h_general"} :
            MatchField(par, c) = Next3(k)
    BY <1>9 DEF MatchField, Next3
  <2>2. \A k \in {"h_matching_connection", "h_matching_content_length", "h_general"} :
            par.index + 1 <= IndexBound(k)
    BY <1>1, <1>9, MatchBounds
  <2> QED BY <1>3, <1>5, <2>1, <2>2
<1>10. CASE h = "h_matching_connection"
  <2>1. MatchField(par, c) = Word(CONNECTION, "h_connection")
    BY <1>10 DEF MatchField, Word
  <2>2. Len(CONNECTION) \in 1..5 /\ IndexBound(h) = Len(CONNECTION) - 1
    BY <1>10, MatchBounds, Words
  <2> HIDE DEF h
  <2> QED BY <1>4, <1>6, <2>1, <2>2
<1>11. CASE h = "h_matching_proxy_connection"
  <2>1. MatchField(par, c) = Word(PROXY_CONNECTION, "h_connection")
    BY <1>11 DEF MatchField, Word
  <2>2. Len(PROXY_CONNECTION) \in 1..5 /\ IndexBound(h) = Len(PROXY_CONNECTION) - 1
    BY <1>11, MatchBounds, Words
  <2> HIDE DEF h
  <2> QED BY <1>4, <1>6, <2>1, <2>2
<1>12. CASE h = "h_matching_content_length"
  <2>1. MatchField(par, c) = Word(CONTENT_LENGTH, "h_content_length")
    BY <1>12 DEF MatchField, Word
  <2>2. Len(CONTENT_LENGTH) \in 1..5 /\ IndexBound(h) = Len(CONTENT_LENGTH) - 1
    BY <1>12, MatchBounds, Words
  <2> HIDE DEF h
  <2> QED BY <1>4, <1>6, <2>1, <2>2
<1>13. CASE h = "h_matching_transfer_encoding"
  <2>1. MatchField(par, c) = Word(TRANSFER_ENCODING, "h_transfer_encoding")
    BY <1>13 DEF MatchField, Word
  <2>2. Len(TRANSFER_ENCODING) \in 1..5 /\ IndexBound(h) = Len(TRANSFER_ENCODING) - 1
    BY <1>13, MatchBounds, Words
  <2> HIDE DEF h
  <2> QED BY <1>4, <1>6, <2>1, <2>2
<1>14. CASE h = "h_matching_upgrade"
  <2>1. MatchField(par, c) = Word(UPGRADE, "h_upgrade")
    BY <1>14 DEF MatchField, Word
  <2>2. Len(UPGRADE) \in 1..5 /\ IndexBound(h) = Len(UPGRADE) - 1
    BY <1>14, MatchBounds, Words
  <2> HIDE DEF h
  <2> QED BY <1>4, <1>6, <2>1, <2>2
<1>15. CASE h \notin {"h_C", "h_CO", "h_CON", "h_matching_connection", "h_matching_proxy_connection",
                      "h_matching_content_length", "h_matching_transfer_encoding",
                      "h_matching_upgrade"}
  <2>1. MatchField(par, c) = [par EXCEPT !.header_state = "h_general"]
    BY <1>15 DEF MatchField
  <2>2. par.index <= IndexBound("h_general")
    BY <1>1, MatchBounds
  <2> QED BY <1>2, <1>5, <2>1, <2>2, ElsewhereOK
<1> QED BY <1>7, <1>8, <1>9, <1>10, <1>11, <1>12, <1>13, <1>14, <1>15

LEMMA Connections ==
    ASSUME NEW c, NEW other \in header_states \ FieldOnly
    PROVE  ConnectionToken(c, other) \in header_states \ FieldOnly
  BY DEF ConnectionToken, header_states, FieldOnly

LEMMA FlagsOf ==
    /\ DOMAIN FlagOf = {"h_connection_keep_alive", "h_connection_close", "h_connection_upgrade",
                        "h_transfer_encoding_chunked"}
    /\ \A h \in DOMAIN FlagOf : FlagOf[h] \in Flag
  BY DEF FlagOf, Flag

LEMMA MatchValueOK ==
    ASSUME NEW par, ParserOK(par), par.state = "s_header_value"
    PROVE  Further(par, MatchValue(par))
<1> DEFINE h == par.header_state
           c == LOWER(ch)
           General(next) == [par EXCEPT !.header_state = next]
           Token(word, hit) == MatchWord(par, word, c, hit, "h_matching_connection_token")
<1>1. /\ par \in http_parser /\ par.index \in Nat /\ par.index <= 5 /\ par.index <= IndexBound(h)
      /\ h \in header_states /\ par.flags \in SUBSET Flag
  BY IndexLow
<1>2. h \notin FieldOnly
  BY DEF ParserOK, FieldOnly
<1>3. ASSUME NEW k \in header_states \ FieldOnly, par.index <= IndexBound(k)
      PROVE  Further(par, General(k))
  BY <1>3, ElsewhereOK
<1>4. ASSUME NEW word, NEW hit \in Settled \ FieldOnly, NEW miss \in Settled \ FieldOnly,
             Len(word) \in 1..5, IndexBound(h) = Len(word) - 1
      PROVE  Further(par, MatchWord(par, word, c, hit, miss))
  <2> HIDE DEF c
  <2> QED BY <1>4, MatchWordOK
<1>5. {"h_general", "h_matching_connection_token", "h_transfer_encoding_chunked",
       "h_connection_keep_alive", "h_connection_close", "h_connection_upgrade"}
          \subseteq Settled \ FieldOnly
  BY DEF Settled, FieldOnly
<1>6. {"h_general", "h_matching_connection_token"} \subseteq header_states \ FieldOnly
      /\ "h_matching_connection_token_start" \in header_states \ FieldOnly
  BY DEF header_states, FieldOnly
<1>7. /\ par.index <= IndexBound("h_general")
      /\ par.index <= IndexBound("h_matching_connection_token")
  BY <1>1, <1>5, SettledBound
<1>8. Further(par, par)
  BY DEF Further
<1>9. ASSUME NEW f \in SUBSET Flag, par.flags \subseteq f
      PROVE  /\ Further(par, [par EXCEPT !.index = 0,
                                        !.header_state = "h_matching_connection_token_start"])
             /\ Further(par, [par EXCEPT !.flags = f, !.index = 0,
                                        !.header_state = "h_matching_connection_token_start"])
  <2>1. 0 \in Nat /\ 0 <= IndexBound("h_matching_connection_token_start")
    BY MatchBounds
  <2> QED BY <1>6, <1>9, <2>1, MatchOK
<1> HIDE DEF c, General
<1>10. CASE h = "h_matching_transfer_encoding_chunked"
  <2>1. MatchValue(par) = MatchWord(par, CHUNKED, c, "h_transfer_encoding_chunked", "h_general")
    BY <1>10, FlagsOf DEF MatchValue, c
  <2>2. Len(CHUNKED) \in 1..5 /\ IndexBound(h) = Len(CHUNKED) - 1
    BY <1>10, MatchBounds, Words
  <2> HIDE DEF h
  <2> QED BY <1>4, <1>5, <2>1, <2>2
<1>11. CASE h = "h_matching_connection_token_start"
  <2> DEFINE k == ConnectionToken(c, CASE TOKEN(c) # "" -> "h_matching_connection_token"
                                       [] c \in Blank -> h
                                       [] OTHER -> "h_general")
  <2>1. MatchValue(par) = General(k)
    BY <1>11, FlagsOf DEF MatchValue, c, General
  <2>2. k \in header_states \ FieldOnly
    <3>1. (CASE TOKEN(c) # "" -> "h_matching_connection_token"
             [] c \in Blank -> h
             [] OTHER -> "h_general") \in header_states \ FieldOnly
      BY <1>1, <1>2, <1>6
    <3> QED BY <3>1, Connections
  <2> HIDE DEF k
  <2>3. par.index = 0
    BY <1>1, <1>11, MatchBounds
  <2>4. par.index <= IndexBound(k)
    BY <2>3, IndexBounds
  <2> QED BY <1>3, <2>1, <2>2, <2>4
<1>12. CASE h = "h_matching_connection_keep_alive"
  <2>1. MatchValue(par) = Token(KEEP_ALIVE, "h_connection_keep_alive")
    BY <1>12, FlagsOf DEF MatchValue, c
  <2>2. Len(KEEP_ALIVE) \in 1..5 /\ IndexBound(h) = Len(KEEP_ALIVE) - 1
    BY <1>12, MatchBounds, Words
  <2> HIDE DEF h
  <2> QED BY <1>4, <1>5, <2>1, <2>2
<1>13. CASE h = "h_matching_connection_close"
  <2>1. MatchValue(par) = Token(CLOSE, "h_connection_close")
    BY <1>13, FlagsOf DEF MatchValue, c
  <2>2. Len(CLOSE) \in 1..5 /\ IndexBound(h) = Len(CLOSE) - 1
    BY <1>13, MatchBounds, Words
  <2> HIDE DEF h
  <2> QED BY <1>4, <1>5, <2>1, <2>2
<1>14. CASE h = "h_matching_connection_upgrade"
  <2>1. MatchValue(par) = Token(UPGRADE, "h_connection_upgrade")
    BY <1>14, FlagsOf DEF MatchValue, c
  <2>2. Len(UPGRADE) \in 1..5 /\ IndexBound(h) = Len(UPGRADE) - 1
    BY <1>14, MatchBounds, Words
  <2> HIDE DEF h
  <2> QED BY <1>4, <1>5, <2>1, <2>2
<1>15. CASE h = "h_matching_connection_token"
  <2>1. \/ MatchValue(par) = par
        \/ MatchValue(par) = [par EXCEPT !.index = 0,
                                 !.header_state = "h_matching_connection_token_start"]
    BY <1>15, FlagsOf DEF MatchValue
  <2> QED BY <1>1, <1>8, <1>9, <2>1
<1>16. CASE h = "h_transfer_encoding_chunked"
  <2>1. MatchValue(par) = par \/ MatchValue(par) = General("h_general")
    BY <1>16, FlagsOf DEF MatchValue, General
  <2> QED BY <1>3, <1>6, <1>7, <1>8, <2>1
<1>17. CASE h \in DOMAIN FlagOf \ {"h_transfer_encoding_chunked"}
  <2>1. h \in {"h_connection_keep_alive", "h_connection_close", "h_connection_upgrade"}
    BY <1>17, FlagsOf
  <2> DEFINE f == par.flags \cup {FlagOf[h]}
  <2>2. f \in SUBSET Flag /\ par.flags \subseteq f
    BY <1>1, <1>17, FlagsOf
  <2>3. \/ MatchValue(par) = par \/ MatchValue(par) = General("h_matching_connection_token")
        \/ MatchValue(par) = [par EXCEPT !.flags = f, !.index = 0,
                                 !.header_state = "h_matching_connection_token_start"]
    BY <1>17, <2>1 DEF MatchValue, General
  <2> HIDE DEF f
  <2> QED BY <1>3, <1>6, <1>7, <1>8, <1>9, <2>2, <2>3
<1>18. CASE h \notin DOMAIN FlagOf \cup
                {"h_matching_transfer_encoding_chunked", "h_matching_connection_token_start",
                 "h_matching_connection_keep_alive", "h_matching_connection_close",
                 "h_matching_connection_upgrade", "h_matching_connection_token"}
  <2>1. MatchValue(par) = General("h_general")
    BY <1>18, FlagsOf DEF MatchValue, General
  <2> QED BY <1>3, <1>6, <1>7, <2>1
<1> QED BY <1>10, <1>11, <1>12, <1>13, <1>14, <1>15, <1>16, <1>17, <1>18, FlagsOf

(***************************************************************************)
(* The inner loops over a header field and over a value.                    *)
(***************************************************************************)

LEMMA InHeaderFurther ==
    ASSUME NEW q, Further(parser, q), InHeader(q)
    PROVE  InHeader(parser)
  BY DEF InHeader, Further

\* The loop passes the bytes up to q: none of them is counted yet, and all of
\* them are in Passed.
LEMMA LoopStep ==
    ASSUME ParserInv, pc = "switch", parser.state \in {"s_header_field", "s_header_value"},
           UNCHANGED connection, NEW par, NEW q \in Nat, Loop(par, q), p < q, q <= last,
           Further(parser, par), NoCallback
    PROVE  ParserInv'
<1>1. /\ parser' = par /\ p' = q /\ start' = (IF start = 0 THEN p ELSE start) /\ pc' = "switch"
      /\ UNCHANGED <<nsize, data, last, wire>>
  BY DEF Loop, connection
<1>2. /\ {data, p, last, start, nsize} \subseteq Nat /\ 1 <= data /\ data <= p /\ start <= p
      /\ parser.http_errno = "HPE_OK" /\ parser \in http_parser
      /\ last <= Len(wire) + 1 /\ nsize <= Len(wire)
  BY SwitchFacts DEF ParserInv, Positions
<1>3. /\ ParserOK(parser') /\ parser'.state = parser.state /\ parser'.nread = parser.nread
      /\ parser'.http_errno = "HPE_OK"
  BY <1>1, <1>2 DEF Further
<1>4. Positions'
  <2>1. start' \in Nat /\ start' # 0 /\ start' <= p'
    BY <1>1, <1>2
  <2>2. data <= q
    BY <1>2
  <2> QED BY <1>1, <1>2, <1>3, <2>1, <2>2 DEF Positions
<1>5. Doing'
  BY <1>1, <1>3 DEF Doing, Control
<1>6. ClientOK' /\ request' = request /\ mark' = mark
  BY NoCallbackClient
<1>7. Counted'
  <2> SUFFICES ASSUME request.m_state = "in_progress", InHeader(par)
               PROVE  q <= parser.nread + Passed'
    BY <1>1, <1>3, <1>6 DEF Counted
  <2>1. InHeader(parser)
    BY InHeaderFurther
  <2>2. p <= parser.nread + Passed
    BY <1>2, <2>1 DEF ParserInv, Counted
  <2>3. parser.nread \in Nat
    BY <1>2, FieldTypes
  <2>4. Passed' = q - (IF start = 0 THEN p ELSE start)
    BY <1>1, <1>2 DEF Passed
  <2>5. CASE start = 0
    <3>1. Passed = 0
      BY <2>5 DEF Passed
    <3> QED BY <1>2, <2>2, <2>3, <2>4, <2>5, <3>1
  <2>6. CASE start # 0
    <3>1. Passed = p - start
      BY <2>6 DEF Passed
    <3> QED BY <1>2, <2>2, <2>3, <2>4, <2>6, <3>1, SMTT(30)
  <2> QED BY <2>5, <2>6
<1>8. Marks'
  <2>1. p' \in Nat /\ p <= p' /\ pc' \in {"loop", "switch", "returned"}
    BY <1>1, <1>2
  <2> QED BY <1>3, <1>6, <2>1, MarksStay
<1> QED BY <1>3, <1>4, <1>5, <1>6, <1>7, <1>8, StepInv DEF Ctl

LEMMA NreadFields ==
    ASSUME NEW par, ParserOK(par), NEW n \in Nat, n <= HTTP_MAX_HEADER_SIZE
    PROVE  LET q == [par EXCEPT !.nread = n]
           IN  /\ ParserOK(q) /\ q.state = par.state /\ q.flags = par.flags /\ q.nread = n
               /\ q.http_errno = par.http_errno /\ q.content_length = par.content_length
               /\ q.upgrade = par.upgrade /\ q.status_code = par.status_code
<1> DEFINE q == [par EXCEPT !.nread = n]
<1>1. par \in http_parser
  BY DEF ParserOK
<1>2. q \in http_parser
  BY <1>1, SetNread
<1>3. /\ q.state = par.state /\ q.header_state = par.header_state /\ q.flags = par.flags
      /\ q.index = par.index /\ q.nread = n /\ q.content_length = par.content_length
      /\ q.status_code = par.status_code /\ q.http_errno = par.http_errno
      /\ q.upgrade = par.upgrade
  BY <1>1 DEF http_parser
<1> HIDE DEF q
<1>4. ParserOK(q)
  BY <1>2, <1>3 DEF ParserOK
<1>5. /\ ParserOK(q) /\ q.state = par.state /\ q.flags = par.flags /\ q.nread = n
      /\ q.http_errno = par.http_errno /\ q.content_length = par.content_length
      /\ q.upgrade = par.upgrade /\ q.status_code = par.status_code
  BY <1>3, <1>4
<1> QED BY <1>5 DEF q

\* The loop ends without an overflow: what it passed is counted.
LEMMA LeaveLoopCtl ==
    ASSUME ParserInv, pc = "switch", parser.state \in {"s_header_field", "s_header_value"},
           UNCHANGED connection, NEW s \in {"s_header_field", "s_header_value",
               "s_header_value_discard_ws", "s_header_almost_done"},
           ParserOK(To(s)), NEW q, NEW where, LeaveLoop(To(s), q, where), ~Overflow(Passed),
           request'.m_state = request.m_state,
           \/ where = "loop" /\ (q = p \/ (q = p + 1 /\ p < last))
           \/ where = "switch" /\ q = p /\ p < last
    PROVE  Ctl' /\ p' \in Nat /\ p <= p' /\ pc' = where /\ parser'.state = s
<1> DEFINE par == To(s)
           n == parser.nread + Passed
<1>1. /\ parser' = [par EXCEPT !.nread = par.nread + Passed] /\ p' = q /\ pc' = where /\ start' = 0
      /\ UNCHANGED <<nsize, data, last, wire>>
  BY DEF LeaveLoop, connection
<1>2. /\ {data, p, last, start, nsize} \subseteq Nat /\ 1 <= data /\ data <= p /\ start <= p
      /\ p <= last /\ parser.http_errno = "HPE_OK" /\ parser \in http_parser
      /\ last <= Len(wire) + 1 /\ nsize <= Len(wire)
  BY SwitchFacts DEF ParserInv, Positions
<1>3. s \in States
  BY DEF States, HeaderStates
<1>4. /\ par.state = s /\ par.nread = parser.nread /\ par.flags = parser.flags
      /\ par.http_errno = "HPE_OK"
  BY <1>2, <1>3, ToFields
<1>5. Passed \in Nat /\ parser.nread \in Nat
  BY <1>2, FieldTypes DEF Passed
<1>6. n \in Nat /\ n <= HTTP_MAX_HEADER_SIZE
  BY <1>5, ParserConstants DEF Overflow
<1> HIDE DEF par
<1>7. parser' = [par EXCEPT !.nread = n]
  BY <1>1, <1>4
<1> HIDE DEF n
<1>8. /\ ParserOK(parser') /\ parser'.state = s /\ parser'.flags = parser.flags
      /\ parser'.nread = n /\ parser'.http_errno = "HPE_OK"
  BY <1>4, <1>6, <1>7, NreadFields DEF par
<1>9. q \in Nat /\ p <= q /\ q <= last /\ data <= q /\ (where = "switch" => q < last)
  BY <1>2
<1>10. Positions'
  BY <1>1, <1>2, <1>9 DEF Positions
<1>11. s # "s_chunk_size_start" /\ s # "s_headers_done" /\ where \in {"loop", "switch"}
  OBVIOUS
<1>12. Doing'
  BY <1>1, <1>8, <1>11 DEF Doing, Control
<1>13. Counted'
  <2> SUFFICES ASSUME request.m_state = "in_progress", InHeader(parser')
               PROVE  /\ where = "switch" => q <= n + Passed'
                      /\ where = "loop" => q <= n + 1
    BY <1>1, <1>8, <1>11 DEF Counted
  <2>1. InHeader(parser)
    BY <1>8 DEF InHeader, HeaderStates, ResponseLineStates, ChunkStates
  <2>2. p <= n
    BY <1>2, <2>1 DEF ParserInv, Counted, n
  <2>3. Passed' = 0
    BY <1>1 DEF Passed
  <2> QED BY <1>2, <1>6, <2>2, <2>3
<1> QED BY <1>1, <1>8, <1>9, <1>10, <1>12, <1>13 DEF Ctl

LEMMA LeaveLoopFails ==
    ASSUME ParserInv, pc = "switch", parser.state \in {"s_header_field", "s_header_value"},
           UNCHANGED connection, NEW par, NEW q, NEW where, LeaveLoop(par, q, where),
           Overflow(Passed), ClientOK', mark' = mark \/ NoneMarked'
    PROVE  ParserInv'
<1>1. Fail("HPE_HEADER_OVERFLOW")
  BY DEF LeaveLoop
<1>2. "HPE_HEADER_OVERFLOW" \in http_errno \ {"HPE_OK"} /\ parser.state # "s_headers_done"
  BY DEF http_errno
<1>3. Ctl' /\ p' \in Nat /\ p <= p' /\ pc' = "returned"
  BY <1>1, <1>2, FailCtl
<1>4. Marks'
  <2>1. CASE mark' = mark
    BY <1>3, <2>1, MarksNext DEF ParserInv, Marks
  <2>2. CASE NoneMarked'
    BY <1>3, <2>2, MarksGone
  <2> QED BY <2>1, <2>2
<1> QED BY <1>3, <1>4, StepInv

\* The buffer ends in the loop.
LEMMA LeaveLoopAtEnd ==
    ASSUME ParserInv, pc = "switch", parser.state \in {"s_header_field", "s_header_value"},
           UNCHANGED connection, LeaveLoop(parser, p, "loop"), NoCallback
    PROVE  ParserInv'
<1>0. PICK s \in {"s_header_field", "s_header_value"} : parser.state = s
  OBVIOUS
<1>1. parser \in http_parser /\ ParserOK(parser)
  BY SwitchFacts
<1>2. To(s) = parser
  BY <1>0, <1>1 DEF To, http_parser
<1>3. ClientOK' /\ request' = request /\ mark' = mark
  BY NoCallbackClient
<1>4. CASE Overflow(Passed)
  BY <1>3, <1>4, LeaveLoopFails
<1>5. CASE ~Overflow(Passed)
  <2>1. request'.m_state = request.m_state /\ ParserOK(To(s))
    BY <1>1, <1>2, <1>3
  <2>2. LeaveLoop(To(s), p, "loop")
    BY <1>2
  <2>3. ASSUME NEW q, q = p, LeaveLoop(To(s), q, "loop")
        PROVE  Ctl' /\ p' \in Nat /\ p <= p' /\ pc' = "loop" /\ parser'.state = s
    <3>1. s \in {"s_header_field", "s_header_value", "s_header_value_discard_ws",
                 "s_header_almost_done"}
      OBVIOUS
    <3>2. "loop" = "loop" /\ (q = p \/ (q = p + 1 /\ p < last))
      BY <2>3
    <3> QED BY <1>5, <2>1, <2>3, <3>1, <3>2, LeaveLoopCtl
  <2>4. Ctl' /\ p' \in Nat /\ p <= p' /\ pc' = "loop" /\ parser'.state = s
    BY <2>2, <2>3
  <2>5. Marks'
    BY <1>0, <1>3, <2>4, MarksStay
  <2> QED BY <1>3, <2>4, <2>5, StepInv
<1> QED BY <1>4, <1>5

(***************************************************************************)
(* The cases of the header fields.                                          *)
(***************************************************************************)

LEMMA FirstMatches == \A c : FirstMatch(c) \in header_states
  BY DEF FirstMatch, header_states

LEMMA HeaderFieldStartStep ==
    ASSUME ParserInv, UNCHANGED connection, HeaderFieldStart PROVE ParserInv'
<1> DEFINE h == FirstMatch(TOKEN(ch))
           par == [To("s_header_field") EXCEPT !.index = 0, !.header_state = h]
<1>1. pc = "switch" /\ parser.state = "s_header_field_start"
  BY DEF HeaderFieldStart, At
<1>2. /\ parser.state \in HeaderStates \ ChunkStates /\ parser.state \notin MarkStates
      /\ parser.state # "s_headers_done" /\ parser.state \notin {"s_header_field", "s_header_value"}
  BY <1>1, StateSets DEF HeaderStates, ChunkStates
<1>3. CASE /\ Break(To("s_headers_almost_done")) \/ REEXECUTE(To("s_headers_almost_done"))
           /\ NoCallback
  <2>1. /\ "s_headers_almost_done" \in (ResponseLineStates \cup HeaderStates)
                                           \ (Special \cup {"s_headers_done"})
        /\ "s_headers_almost_done" \notin ResponseLineStates
    BY DEF HeaderStates, Special, ChunkStates, ResponseLineStates
  <2> QED BY <1>1, <1>2, <1>3, <2>1, ToStep
<1>4. CASE Break(par) /\ Mark("header_field")
  <2> DEFINE t == To("s_header_field")
  <2>1. "s_header_field" \in States \ Special
    BY DEF States, HeaderStates, Special, ChunkStates
  <2>2. /\ ParserOK(t) /\ t.state = "s_header_field" /\ t.flags = parser.flags
        /\ t.nread = parser.nread /\ t.http_errno = "HPE_OK"
    BY <1>1, <2>1, ToReady, ToFields, SwitchFacts
  <2>3. h \in header_states /\ 0 <= IndexBound(h) /\ 0 \in Nat
    BY FirstMatches, IndexBounds
  <2>4. t.flags \in SUBSET Flag
    BY <2>2, IndexLow
  <2> HIDE DEF h, t
  <2>5. Further(t, par)
    <3>1. Further(t, [t EXCEPT !.index = 0, !.header_state = h])
      BY <2>2, <2>3, <2>4, MatchOK
    <3> QED BY <3>1 DEF t
  <2> HIDE DEF par
  <2>6. /\ Ready(par) /\ par.state = "s_header_field" /\ parser.flags \subseteq par.flags
        /\ par.nread = parser.nread
    BY <2>2, <2>5 DEF Further, Ready
  <2>7. "header_field" \in Kinds /\ "s_header_field" \in Marked("header_field")
        /\ "s_header_field" \notin ResponseLineStates
    BY DEF Kinds, Marked, ResponseLineStates
  <2>8. request' = request
    BY <1>4, <2>7, MarkClient
  <2>9. Onward(par) /\ start = 0
    BY <1>1, <1>2, <2>6, <2>7, <2>8, OnwardIf, SwitchFacts
  <2>10. Ctl' /\ p' \in Nat /\ p <= p' /\ pc' = "loop" /\ parser' = par
    BY <1>1, <1>4, <2>6, <2>9, BreakCtl
  <2>11. Marks' /\ ClientOK'
    BY <1>1, <1>2, <1>4, <2>6, <2>7, <2>10, MarkedNext
  <2> QED BY <2>10, <2>11, StepInv
<1>5. CASE Fail("HPE_INVALID_HEADER_TOKEN") /\ NoCallback
  <2>1. "HPE_INVALID_HEADER_TOKEN" \in http_errno \ {"HPE_OK"}
    BY DEF http_errno
  <2> QED BY <1>1, <1>2, <1>5, <2>1, FailStep
<1> HIDE DEF par
<1> QED BY <1>3, <1>4, <1>5 DEF HeaderFieldStart, par

LEMMA HeaderFieldStep == ASSUME ParserInv, UNCHANGED connection, HeaderField PROVE ParserInv'
<1>1. pc = "switch" /\ parser.state = "s_header_field"
  BY DEF HeaderField, At
<1>2. /\ parser.state \in {"s_header_field", "s_header_value"} /\ parser.state # "s_headers_done"
      /\ "header_field" \in Kinds /\ parser.state \in Marked("header_field")
  BY <1>1 DEF Kinds, Marked
<1>3. /\ p \in Nat /\ last \in Nat /\ p <= last /\ parser \in http_parser /\ ParserOK(parser)
  BY <1>1, SwitchFacts
<1>4. /\ "s_header_field" \in States \ Special /\ "s_header_value_discard_ws" \in States \ Special
  BY DEF States, HeaderStates, Special, ChunkStates
<1>5. ParserOK(To("s_header_field")) /\ ParserOK(To("s_header_value_discard_ws"))
  BY <1>1, <1>4, ToReady
<1>6. CASE p = last /\ LeaveLoop(parser, p, "loop") /\ NoCallback
  BY <1>1, <1>2, <1>6, LeaveLoopAtEnd
<1>7. CASE p # last /\ Loop(MatchField(parser, TOKEN(ch)), p + 1) /\ NoCallback
  <2> DEFINE par == MatchField(parser, TOKEN(ch))
  <2>1. Further(parser, par)
    BY <1>1, <1>3, MatchFieldOK
  <2> HIDE DEF par
  <2>2. p + 1 \in Nat /\ p < p + 1 /\ p + 1 <= last
    BY <1>3, <1>7
  <2>3. Loop(par, p + 1)
    BY <1>7 DEF par
  <2> QED BY <1>1, <1>2, <1>7, <2>1, <2>2, <2>3, LoopStep
<1>8. CASE /\ p # last /\ LeaveLoop(To("s_header_value_discard_ws"), p + 1, "loop")
           /\ IF Overflow(Passed) THEN NoCallback ELSE CallbackData("header_field", p)
  <2>1. CASE Overflow(Passed)
    <3>1. ClientOK' /\ mark' = mark
      BY <1>8, <2>1, NoCallbackClient
    <3> QED BY <1>1, <1>2, <1>8, <2>1, <3>1, LeaveLoopFails
  <2>2. CASE ~Overflow(Passed)
    <3>1. ClientOK' /\ request'.m_state = request.m_state /\ NoneMarked'
      BY <1>1, <1>2, <1>8, <2>2, CallbackDataClient
    <3>2. p < last
      BY <1>3, <1>8
    <3>3. Ctl' /\ p' \in Nat /\ p <= p' /\ pc' = "loop"
      BY <1>1, <1>2, <1>5, <1>8, <2>2, <3>1, <3>2, LeaveLoopCtl
    <3>4. Marks'
      BY <3>1, <3>3, MarksGone
    <3> QED BY <3>1, <3>3, <3>4, StepInv
  <2> QED BY <2>1, <2>2
<1>9. CASE /\ Fail(IF Overflow(Passed) THEN "HPE_HEADER_OVERFLOW" ELSE "HPE_INVALID_HEADER_TOKEN")
           /\ NoCallback
  <2> DEFINE e == IF Overflow(Passed) THEN "HPE_HEADER_OVERFLOW" ELSE "HPE_INVALID_HEADER_TOKEN"
  <2>1. e \in http_errno \ {"HPE_OK"}
    BY DEF http_errno
  <2> HIDE DEF e
  <2>2. Fail(e)
    BY <1>9 DEF e
  <2> QED BY <1>1, <1>2, <1>9, <2>1, <2>2, FailStep
<1> QED BY <1>6, <1>7, <1>8, <1>9 DEF HeaderField

(***************************************************************************)
(* The cases of the header values.                                          *)
(***************************************************************************)

LEMMA ValueReady ==
    ASSUME ParserInv, pc = "switch", NEW q \in http_parser, q.state = "s_header_value",
           q.index = 0, q.header_state \notin FieldOnly, q.status_code = parser.status_code,
           q.nread = parser.nread, q.http_errno = parser.http_errno
    PROVE  Ready(q)
<1>1. parser.status_code \in Nat /\ parser.status_code <= 999 /\ parser.http_errno = "HPE_OK"
      /\ parser.nread <= HTTP_MAX_HEADER_SIZE
  BY SwitchFacts DEF ParserInv, ParserOK
<1>2. q.index <= IndexBound(q.header_state) /\ ~(q.status_code > 999)
  BY <1>1, IndexBounds
<1> QED BY <1>1, <1>2 DEF Ready, ParserOK, FieldOnly, ChunkStates

\* A value begins.
LEMMA ValueBreak ==
    ASSUME ParserInv, pc = "switch", UNCHANGED connection,
           parser.state \in {"s_header_value_discard_ws", "s_header_value_start"},
           NEW q \in http_parser, Break(q), q.state = "s_header_value",
           q.index = 0, q.header_state \notin FieldOnly, q.status_code = parser.status_code,
           q.nread = parser.nread, q.http_errno = parser.http_errno,
           parser.flags \subseteq q.flags, Mark("header_value")
    PROVE  ParserInv'
<1>1. /\ parser.state \in HeaderStates \ ChunkStates /\ parser.state \notin MarkStates
      /\ parser.state \notin {"s_header_field", "s_header_value"}
  BY StateSets DEF HeaderStates, ChunkStates
<1>2. /\ "header_value" \in Kinds /\ "s_header_value" \in Marked("header_value")
      /\ "s_header_value" \notin ResponseLineStates
  BY DEF Kinds, Marked, ResponseLineStates
<1>3. Ready(q)
  BY ValueReady
<1>4. request' = request
  BY <1>2, MarkClient
<1>5. Onward(q) /\ start = 0
  BY <1>1, <1>2, <1>4, OnwardIf, SwitchFacts
<1>6. Ctl' /\ p' \in Nat /\ p <= p' /\ pc' = "loop" /\ parser' = q
  BY <1>3, <1>5, BreakCtl
<1>7. Marks' /\ ClientOK'
  BY <1>1, <1>2, <1>6, MarkedNext
<1> QED BY <1>6, <1>7, StepInv

LEMMA ValueFails ==
    ASSUME ParserInv, pc = "switch", UNCHANGED connection,
           parser.state \in {"s_header_value_discard_ws", "s_header_value_start"},
           NEW errno \in http_errno \ {"HPE_OK"}, Fail(errno), Mark("header_value")
    PROVE  ParserInv'
<1>1. parser.state \notin MarkStates /\ parser.state # "s_headers_done" /\ "header_value" \in Kinds
  BY StateSets DEF Kinds
<1>2. Ctl' /\ p' \in Nat /\ p <= p' /\ pc' = "returned"
  BY <1>1, FailCtl
<1>3. Marks' /\ ClientOK'
  BY <1>1, <1>2, MarkedNext
<1> QED BY <1>2, <1>3, StepInv

LEMMA ValueStartStep ==
    ASSUME ParserInv, pc = "switch", UNCHANGED connection,
           parser.state \in {"s_header_value_discard_ws", "s_header_value_start"},
           ValueStart, Mark("header_value")
    PROVE  ParserInv'
<1> DEFINE t == To("s_header_value")
           par == [t EXCEPT !.index = 0]
           h == parser.header_state
           c == LOWER(ch)
<1>1. parser \in http_parser /\ "s_header_value" \in States
  BY SwitchFacts DEF States, HeaderStates
<1>2. /\ t \in http_parser /\ t.state = "s_header_value" /\ t.header_state = h
      /\ t.flags = parser.flags /\ t.nread = parser.nread
      /\ t.status_code = parser.status_code /\ t.http_errno = parser.http_errno
  BY <1>1, ToFields
<1> HIDE DEF t
<1>3. par \in http_parser
  <2>1. 0 \in Nat /\ 0 <= 127
    OBVIOUS
  <2>2. [t EXCEPT !.index = 0] \in http_parser
    BY <1>2, <2>1, SetIndex
  <2> QED BY <2>2
<1>4. /\ par.state = "s_header_value" /\ par.header_state = h /\ par.index = 0
      /\ par.flags = parser.flags /\ par.nread = parser.nread
      /\ par.status_code = parser.status_code /\ par.http_errno = parser.http_errno
  BY <1>2 DEF http_parser
<1>5. ValueStart = LET q == par IN
          CASE h = "h_upgrade" ->
                 Break([q EXCEPT !.flags = @ \cup {"F_UPGRADE"}, !.header_state = "h_general"])
            [] h = "h_transfer_encoding" ->
                 Break([q EXCEPT !.header_state =
                            IF c = "c" THEN "h_matching_transfer_encoding_chunked"
                            ELSE "h_general"])
            [] h = "h_content_length" ->
                 IF ~IS_NUM(ch) THEN Fail("HPE_INVALID_CONTENT_LENGTH")
                 ELSE IF "F_CONTENTLENGTH" \in parser.flags
                 THEN Fail("HPE_UNEXPECTED_CONTENT_LENGTH")
                 ELSE Break([q EXCEPT !.flags = @ \cup {"F_CONTENTLENGTH"},
                                      !.content_length = unhex(ch)])
            [] h = "h_connection" ->
                 Break([q EXCEPT !.header_state =
                            ConnectionToken(c, "h_matching_connection_token")])
            [] h = "h_matching_connection_token_start" -> Break(q)
            [] OTHER -> Break([q EXCEPT !.header_state = "h_general"])
  BY DEF ValueStart, t
<1> HIDE DEF par, h, c
<1>6. ASSUME NEW k \in header_states \ FieldOnly, Break([par EXCEPT !.header_state = k])
      PROVE  ParserInv'
  <2> DEFINE q == [par EXCEPT !.header_state = k]
  <2>1. q \in http_parser
    BY <1>3, SetHeaderState
  <2>2. /\ q.state = "s_header_value" /\ q.header_state = k /\ q.index = 0
        /\ q.flags = parser.flags /\ q.nread = parser.nread
        /\ q.status_code = parser.status_code /\ q.http_errno = parser.http_errno
    BY <1>3, <1>4 DEF http_parser
  <2> HIDE DEF q
  <2>3. Break(q)
    BY <1>6 DEF q
  <2> QED BY <2>1, <2>2, <2>3, ValueBreak
<1>7. {"h_general", "h_matching_transfer_encoding_chunked", "h_matching_connection_token"}
          \subseteq header_states \ FieldOnly
  BY DEF header_states, FieldOnly
<1>8. parser.flags \in SUBSET Flag /\ {"F_UPGRADE", "F_CONTENTLENGTH"} \subseteq Flag
  BY <1>1, FieldTypes DEF Flag
<1>9. CASE /\ h = "h_upgrade"
           /\ Break([par EXCEPT !.flags = @ \cup {"F_UPGRADE"}, !.header_state = "h_general"])
  <2> DEFINE f == parser.flags \cup {"F_UPGRADE"}
             q == [par EXCEPT !.flags = f, !.header_state = "h_general"]
  <2>1. f \in SUBSET Flag /\ parser.flags \subseteq f
    BY <1>8
  <2>2. Break(q)
    BY <1>4, <1>9
  <2> HIDE DEF f
  <2>3. q \in http_parser
    BY <1>3, <1>7, <2>1, SetFlags, SetHeaderState
  <2>4. /\ q.state = "s_header_value" /\ q.header_state = "h_general" /\ q.index = 0
        /\ q.flags = f /\ q.nread = parser.nread
        /\ q.status_code = parser.status_code /\ q.http_errno = parser.http_errno
    BY <1>3, <1>4 DEF http_parser
  <2> HIDE DEF q
  <2> QED BY <1>7, <2>1, <2>2, <2>3, <2>4, ValueBreak
<1>10. CASE /\ h = "h_content_length" /\ IS_NUM(ch)
            /\ Break([par EXCEPT !.flags = @ \cup {"F_CONTENTLENGTH"}, !.content_length = unhex(ch)])
  <2> DEFINE f == parser.flags \cup {"F_CONTENTLENGTH"}
             n == unhex(ch)
             q == [par EXCEPT !.flags = f, !.content_length = n]
  <2>1. f \in SUBSET Flag /\ parser.flags \subseteq f
    BY <1>8
  <2>2. Break(q)
    BY <1>4, <1>10
  <2>3. n \in 0..ULLONG_MAX
    BY <1>10, Numerals, ParserConstants
  <2> HIDE DEF f, n
  <2>4. q \in http_parser
    BY <1>3, <2>1, <2>3, SetFlags, SetContentLength
  <2>5. /\ q.state = "s_header_value" /\ q.header_state = h /\ q.index = 0
        /\ q.flags = f /\ q.nread = parser.nread
        /\ q.status_code = parser.status_code /\ q.http_errno = parser.http_errno
    BY <1>3, <1>4 DEF http_parser
  <2>6. h \notin FieldOnly
    BY <1>10 DEF FieldOnly
  <2> HIDE DEF q
  <2> QED BY <2>1, <2>2, <2>4, <2>5, <2>6, ValueBreak
<1>11. CASE h = "h_matching_connection_token_start" /\ Break(par)
  <2>1. h \notin FieldOnly
    BY <1>11 DEF FieldOnly
  <2> QED BY <1>3, <1>4, <1>11, <2>1, ValueBreak
<1>12. CASE Fail("HPE_INVALID_CONTENT_LENGTH") \/ Fail("HPE_UNEXPECTED_CONTENT_LENGTH")
  <2>1. {"HPE_INVALID_CONTENT_LENGTH", "HPE_UNEXPECTED_CONTENT_LENGTH"} \subseteq http_errno \ {"HPE_OK"}
    BY DEF http_errno
  <2> QED BY <1>12, <2>1, ValueFails
<1>13. CASE /\ h = "h_connection"
            /\ Break([par EXCEPT !.header_state = ConnectionToken(c, "h_matching_connection_token")])
  <2>1. ConnectionToken(c, "h_matching_connection_token") \in header_states \ FieldOnly
    BY <1>7, Connections
  <2> QED BY <1>6, <1>13, <2>1
<1>14. CASE \/ Break([par EXCEPT !.header_state = "h_general"])
            \/ Break([par EXCEPT !.header_state = "h_matching_transfer_encoding_chunked"])
  BY <1>6, <1>7, <1>14
<1> QED BY <1>5, <1>9, <1>10, <1>11, <1>12, <1>13, <1>14

(***************************************************************************)
(* Lengths.                                                                 *)
(***************************************************************************)

LEMMA SmallRemainder ==
    ASSUME NEW x \in Nat, NEW m \in Nat, x < m
    PROVE  x % m = x
  OBVIOUS

\* A digit that passes the test is added without an overflow, and the sum is
\* less than ULLONG_MAX.
LEMMA DigitFits ==
    ASSUME NEW base \in {10, 16}, NEW n \in Nat, NEW d \in 0..(base - 1),
           ~((ULLONG_MAX - base) \div base < n)
    PROVE  /\ (n * base + d) % (ULLONG_MAX + 1) \in 0..ULLONG_MAX
           /\ (n * base + d) % (ULLONG_MAX + 1) # ULLONG_MAX
           /\ (n * base + d) % (ULLONG_MAX + 1) = n * base + d
<1> DEFINE x == n * base + d
<1>1. ULLONG_MAX \in Nat /\ ULLONG_MAX >= 16
  BY ParserConstants
<1>2. x \in Nat /\ x <= ULLONG_MAX - 1
  <2>1. CASE base = 10
    <3>1. ~((ULLONG_MAX - 10) \div 10 < n) /\ d \in 0..9
      BY <2>1
    <3>2. n * 10 <= ULLONG_MAX - 10
      BY <1>1, <3>1
    <3>3. n * 10 + d \in Nat /\ n * 10 + d <= ULLONG_MAX - 1
      BY <1>1, <3>1, <3>2
    <3> QED BY <2>1, <3>3
  <2>2. CASE base = 16
    <3>1. ~((ULLONG_MAX - 16) \div 16 < n) /\ d \in 0..15
      BY <2>2
    <3>2. n * 16 <= ULLONG_MAX - 16
      BY <1>1, <3>1
    <3>3. n * 16 + d \in Nat /\ n * 16 + d <= ULLONG_MAX - 1
      BY <1>1, <3>1, <3>2
    <3> QED BY <2>2, <3>3
  <2> QED BY <2>1, <2>2
<1> HIDE DEF x
<1>3. x < ULLONG_MAX + 1 /\ ULLONG_MAX + 1 \in Nat /\ x # ULLONG_MAX
  BY <1>1, <1>2
<1>4. x % (ULLONG_MAX + 1) = x
  BY <1>2, <1>3, SmallRemainder
<1>5. x \in 0..ULLONG_MAX
  BY <1>1, <1>2
<1>6. x % (ULLONG_MAX + 1) \in 0..ULLONG_MAX /\ x % (ULLONG_MAX + 1) # ULLONG_MAX
  BY <1>3, <1>4, <1>5
<1> QED BY <1>4, <1>6 DEF x

\* The search for the end of a value goes forward and stays in the buffer.
LEMMA EndOfValueBounds ==
    ASSUME ParserInv, p # last, ch \notin EOL
    PROVE  EndOfValue \in Nat /\ p < EndOfValue /\ EndOfValue <= last
<1> DEFINE near == {q \in p..(last - 1) : wire[q] \in EOL /\ q - p < HTTP_MAX_HEADER_SIZE}
           e == CHOOSE q \in near : \A r \in near : q <= r
<1>1. p \in Nat /\ last \in Nat /\ p <= last
  BY DEF ParserInv, Positions
<1>2. EndOfValue = IF near = {} THEN last ELSE e
  BY DEF EndOfValue
<1>3. CASE near = {}
  BY <1>1, <1>2, <1>3
<1>4. CASE near # {}
  <2>1. near \subseteq Nat /\ p \notin near
    BY <1>1 DEF ch
  <2>2. \A q \in near : p <= q /\ q <= last /\ q \in Nat
    BY <1>1
  <2> HIDE DEF near
  <2>3. \E q \in near : \A r \in near : q <= r
    BY <1>4, <2>1, Least
  <2>4. e \in near
    BY <2>3
  <2> HIDE DEF e
  <2>5. e \in Nat /\ p <= e /\ e # p /\ e <= last
    BY <2>1, <2>2, <2>4
  <2> QED BY <1>1, <1>2, <1>4, <2>5
<1> QED BY <1>3, <1>4

LEMMA LengthFurther ==
    ASSUME NEW par, ParserOK(par), NEW n \in 0..ULLONG_MAX, par.state = "s_header_value"
    PROVE  Further(par, [par EXCEPT !.content_length = n])
<1> DEFINE q == [par EXCEPT !.content_length = n]
<1>1. par \in http_parser
  BY DEF ParserOK
<1>2. q \in http_parser
  BY <1>1, SetContentLength
<1>3. /\ q.state = par.state /\ q.header_state = par.header_state /\ q.flags = par.flags
      /\ q.index = par.index /\ q.nread = par.nread
      /\ q.status_code = par.status_code /\ q.http_errno = par.http_errno
  BY <1>1 DEF http_parser
<1> HIDE DEF q
<1>4. ParserOK(q)
  BY <1>2, <1>3 DEF ParserOK, ChunkStates
<1>5. Further(par, q)
  BY <1>3, <1>4 DEF Further
<1> QED BY <1>5 DEF q

LEMMA HeaderValueByteStep ==
    ASSUME ParserInv, UNCHANGED connection, HeaderValueByte PROVE ParserInv'
<1>1. /\ pc = "switch" /\ parser.state = "s_header_value" /\ p # last /\ ch \notin EOL /\ NoCallback
  BY DEF HeaderValueByte, At
<1>2. /\ parser.state \in {"s_header_field", "s_header_value"} /\ parser.state # "s_headers_done"
  BY <1>1
<1>3. /\ p \in Nat /\ last \in Nat /\ p <= last /\ parser \in http_parser /\ ParserOK(parser)
  BY <1>1, SwitchFacts
<1>4. p + 1 \in Nat /\ p < p + 1 /\ p + 1 <= last
  BY <1>1, <1>3
<1>5. Further(parser, parser)
  BY <1>3 DEF Further
<1>6. ASSUME NEW errno \in {"HPE_INVALID_HEADER_TOKEN", "HPE_INVALID_CONTENT_LENGTH"}, Fail(errno)
      PROVE  ParserInv'
  <2>1. errno \in http_errno \ {"HPE_OK"}
    BY DEF http_errno
  <2> QED BY <1>1, <1>2, <1>6, <2>1, FailStep
<1>7. ASSUME NEW par, Further(parser, par), Loop(par, p + 1)
      PROVE  ParserInv'
  BY <1>1, <1>2, <1>4, <1>7, LoopStep
<1>8. CASE Loop(parser, EndOfValue)
  <2>1. EndOfValue \in Nat /\ p < EndOfValue /\ EndOfValue <= last
    BY <1>1, EndOfValueBounds
  <2>2. PICK q \in Nat : q = EndOfValue
    BY <2>1
  <2>3. Loop(parser, q) /\ p < q /\ q <= last
    BY <1>8, <2>1, <2>2
  <2> QED BY <1>1, <1>2, <1>5, <2>3, LoopStep
<1>9. CASE MoreLength
  <2> DEFINE t == (parser.content_length * 10 + unhex(ch)) % (ULLONG_MAX + 1)
  <2>1. CASE Loop(parser, p + 1)
    BY <1>5, <1>7, <2>1
  <2>2. CASE Fail("HPE_INVALID_CONTENT_LENGTH")
    BY <1>6, <2>2
  <2>3. CASE /\ IS_NUM(ch) /\ ~LengthOverflows(parser.content_length)
             /\ Loop([parser EXCEPT !.content_length = t], p + 1)
    <3>1. parser.content_length \in Nat
      BY <1>3, FieldTypes, ParserConstants
    <3>2. unhex(ch) \in 0..(10 - 1)
      BY <2>3, Numerals
    <3>3. ~((ULLONG_MAX - 10) \div 10 < parser.content_length)
      BY <2>3 DEF LengthOverflows
    <3>4. t \in 0..ULLONG_MAX
      BY <3>1, <3>2, <3>3, DigitFits
    <3> HIDE DEF t
    <3>5. Further(parser, [parser EXCEPT !.content_length = t])
      BY <1>1, <1>3, <3>4, LengthFurther
    <3> QED BY <1>7, <2>3, <3>5
  <2> HIDE DEF t
  <2> QED BY <1>9, <2>1, <2>2, <2>3 DEF MoreLength, t
<1>10. CASE Loop(MatchValue(parser), p + 1)
  <2>1. Further(parser, MatchValue(parser))
    BY <1>1, <1>3, MatchValueOK
  <2> QED BY <1>7, <1>10, <2>1
<1>11. CASE Fail("HPE_INVALID_HEADER_TOKEN")
  BY <1>6, <1>11
<1> QED BY <1>8, <1>9, <1>10, <1>11 DEF HeaderValueByte

LEMMA HeaderValueEndStep ==
    ASSUME ParserInv, UNCHANGED connection, HeaderValueEnd PROVE ParserInv'
<1>1. pc = "switch" /\ parser.state = "s_header_value"
  BY DEF HeaderValueEnd, At
<1>2. /\ parser.state \in {"s_header_field", "s_header_value"}
      /\ "header_value" \in Kinds /\ parser.state \in Marked("header_value")
  BY <1>1 DEF Kinds, Marked
<1>3. /\ p \in Nat /\ last \in Nat /\ p <= last
  BY <1>1, SwitchFacts
<1>4. "s_header_almost_done" \in States \ Special
  BY DEF States, HeaderStates, Special, ChunkStates
<1>5. ParserOK(To("s_header_almost_done"))
  BY <1>1, <1>4, ToReady
<1>6. CASE p = last /\ LeaveLoop(parser, p, "loop") /\ NoCallback
  BY <1>1, <1>2, <1>6, LeaveLoopAtEnd
<1>7. ASSUME NEW q, NEW where, LeaveLoop(To("s_header_almost_done"), q, where), p # last,
             \/ q = p + 1 /\ where = "loop"
             \/ q = p /\ where = "switch",
             \/ CallbackData("header_value", p)
             \/ Overflow(Passed) /\ NoCallback
      PROVE  ParserInv'
  <2>1. CASE Overflow(Passed)
    <3>1. ClientOK' /\ (mark' = mark \/ NoneMarked')
      BY <1>1, <1>2, <1>7, NoCallbackClient, CallbackDataClient
    <3> QED BY <1>1, <1>2, <1>7, <2>1, <3>1, LeaveLoopFails
  <2>2. CASE ~Overflow(Passed)
    <3>1. ClientOK' /\ request'.m_state = request.m_state /\ NoneMarked'
      BY <1>1, <1>2, <1>7, <2>2, CallbackDataClient
    <3>2. p < last
      BY <1>3, <1>7
    <3>3. Ctl' /\ p' \in Nat /\ p <= p' /\ pc' = where
      BY <1>1, <1>2, <1>5, <1>7, <2>2, <3>1, <3>2, LeaveLoopCtl
    <3>4. pc' \in {"loop", "switch", "returned"}
      BY <1>7, <3>3
    <3>5. Marks'
      BY <3>1, <3>3, <3>4, MarksGone
    <3> QED BY <3>1, <3>3, <3>5, StepInv
  <2> QED BY <2>1, <2>2
<1>8. CASE /\ p # last /\ LeaveLoop(To("s_header_almost_done"), p + 1, "loop")
           /\ CallbackData("header_value", p)
  BY <1>7, <1>8
<1>9. CASE /\ p # last /\ LeaveLoop(To("s_header_almost_done"), p, "switch")
           /\ IF Overflow(Passed) THEN NoCallback ELSE CallbackData("header_value", p)
  BY <1>7, <1>9
<1> QED BY <1>6, <1>8, <1>9 DEF HeaderValueEnd

LEMMA HeaderValueDiscardWsStep ==
    ASSUME ParserInv, UNCHANGED connection, HeaderValueDiscardWs PROVE ParserInv'
<1>1. pc = "switch" /\ parser.state = "s_header_value_discard_ws"
  BY DEF HeaderValueDiscardWs, At
<1>2. /\ parser.state \in HeaderStates \ ChunkStates /\ parser.state \notin MarkStates
      /\ parser.state # "s_headers_done" /\ parser.state \notin ResponseLineStates
      /\ parser.state # "s_chunk_size_start"
  BY <1>1, StateSets DEF HeaderStates, ChunkStates, ResponseLineStates
<1>3. CASE Break(parser) /\ NoCallback
  <2>1. Ready(parser)
    BY <1>1, <1>2, SwitchFacts DEF Ready
  <2> QED BY <1>1, <1>2, <1>3, <2>1, PlainStep
<1>4. ASSUME NEW s \in {"s_header_value_discard_ws_almost_done", "s_header_value_discard_lws"},
             Break(To(s)), NoCallback
      PROVE  ParserInv'
  <2>1. /\ s \in (ResponseLineStates \cup HeaderStates) \ (Special \cup {"s_headers_done"})
        /\ s \notin ResponseLineStates
    BY DEF HeaderStates, Special, ChunkStates, ResponseLineStates
  <2> QED BY <1>1, <1>2, <1>4, <2>1, ToStep
<1>5. CASE ValueStart /\ Mark("header_value")
  BY <1>1, <1>5, ValueStartStep
<1> QED BY <1>3, <1>4, <1>5 DEF HeaderValueDiscardWs

LEMMA HeaderValueStartStep ==
    ASSUME ParserInv, UNCHANGED connection, HeaderValueStart PROVE ParserInv'
<1>1. /\ pc = "switch" /\ parser.state = "s_header_value_start"
      /\ ValueStart /\ Mark("header_value")
  BY DEF HeaderValueStart, At
<1> QED BY <1>1, ValueStartStep

LEMMA HeaderAlmostDoneStep ==
    ASSUME ParserInv, UNCHANGED connection, HeaderAlmostDone PROVE ParserInv'
<1>1. /\ pc = "switch" /\ parser.state = "s_header_almost_done"
      /\ Require(ch = "LF", "HPE_LF_EXPECTED", To("s_header_value_lws"))
  BY DEF HeaderAlmostDone, At
<1>2. /\ parser.state \in HeaderStates \ ChunkStates
      /\ parser.state \notin MarkStates \cup {"s_headers_done"}
  BY <1>1, StateSets DEF HeaderStates, ChunkStates
<1>3. /\ "s_header_value_lws" \in States \ Special /\ "s_header_value_lws" \notin ResponseLineStates
      /\ "HPE_LF_EXPECTED" \in http_errno \ {"HPE_OK"} /\ (ch = "LF") \in BOOLEAN
  BY DEF States, HeaderStates, Special, ChunkStates, ResponseLineStates, http_errno
<1> DEFINE par == To("s_header_value_lws")
<1>4. /\ Ready(par) /\ par.state = "s_header_value_lws" /\ par.nread = parser.nread
      /\ par.flags = parser.flags
  BY <1>1, <1>3, ToReady, ToFields, SwitchFacts
<1>5. request' = request
  BY <1>1, NoCallbackClient DEF Require
<1> HIDE DEF par
<1>6. Onward(par) /\ par.state # "s_headers_done"
  BY <1>2, <1>3, <1>4, <1>5, OnwardIf
<1> QED BY <1>1, <1>2, <1>3, <1>4, <1>6, RequireStep DEF par

LEMMA FinishedReady ==
    ASSUME ParserInv, pc = "switch"
    PROVE  LET q == Finished(parser)
           IN  /\ Ready(q) /\ q.state = "s_header_field_start" /\ q.nread = parser.nread
               /\ parser.flags \subseteq q.flags
<1> DEFINE f == parser.flags \cup IF parser.header_state \in DOMAIN FlagOf
                                  THEN {FlagOf[parser.header_state]} ELSE {}
           t == To("s_header_field_start")
           q == [t EXCEPT !.flags = f]
<1>1. "s_header_field_start" \in States /\ "s_header_field_start" \notin Special
  BY DEF States, HeaderStates, Special, ChunkStates
<1>2. /\ parser \in http_parser /\ parser.status_code <= 999 /\ parser.http_errno = "HPE_OK"
      /\ parser.index <= IndexBound(parser.header_state) /\ parser.nread <= HTTP_MAX_HEADER_SIZE
  BY SwitchFacts DEF ParserInv, ParserOK
<1>3. Finished(parser) = q
  BY DEF Finished, To
<1>4. f \in SUBSET Flag /\ parser.flags \subseteq f
  <2>1. parser.flags \in SUBSET Flag
    BY <1>2, FieldTypes
  <2> QED BY <2>1, FlagsOf
<1> HIDE DEF f
<1>5. /\ t \in http_parser /\ t.state = "s_header_field_start"
      /\ t.header_state = parser.header_state /\ t.index = parser.index
      /\ t.nread = parser.nread /\ t.status_code = parser.status_code
      /\ t.http_errno = parser.http_errno
  BY <1>1, <1>2, ToFields
<1> HIDE DEF t
<1>6. q \in http_parser
  BY <1>4, <1>5, SetFlags
<1>7. /\ q.state = "s_header_field_start" /\ q.flags = f
      /\ q.header_state = parser.header_state /\ q.index = parser.index
      /\ q.nread = parser.nread /\ q.status_code = parser.status_code
      /\ q.http_errno = parser.http_errno
  BY <1>5 DEF http_parser
<1> HIDE DEF q
<1>8. Ready(q)
  BY <1>1, <1>2, <1>6, <1>7, PlainReady
<1> QED BY <1>3, <1>4, <1>7, <1>8

LEMMA HeaderValueLwsStep ==
    ASSUME ParserInv, UNCHANGED connection, HeaderValueLws PROVE ParserInv'
<1>1. pc = "switch" /\ parser.state = "s_header_value_lws" /\ NoCallback
  BY DEF HeaderValueLws, At
<1>2. /\ parser.state \in HeaderStates \ ChunkStates /\ parser.state \notin MarkStates
  BY <1>1, StateSets DEF HeaderStates, ChunkStates
<1>3. CASE REEXECUTE(To("s_header_value_start"))
  <2>1. /\ "s_header_value_start" \in (ResponseLineStates \cup HeaderStates)
                                          \ (Special \cup {"s_headers_done"})
        /\ "s_header_value_start" \notin ResponseLineStates
    BY DEF HeaderStates, Special, ChunkStates, ResponseLineStates
  <2> QED BY <1>1, <1>2, <1>3, <2>1, ToStep
<1>4. CASE REEXECUTE(Finished(parser))
  <2> DEFINE q == Finished(parser)
  <2>1. /\ Ready(q) /\ q.state = "s_header_field_start" /\ q.nread = parser.nread
        /\ parser.flags \subseteq q.flags
    BY <1>1, FinishedReady
  <2>2. "s_header_field_start" \notin ResponseLineStates
    BY DEF ResponseLineStates
  <2> HIDE DEF q
  <2>3. REEXECUTE(q)
    BY <1>4 DEF q
  <2> QED BY <1>1, <1>2, <2>1, <2>2, <2>3, PlainStep
<1> QED BY <1>3, <1>4 DEF HeaderValueLws

LEMMA DiscardWsAlmostDoneStep ==
    ASSUME ParserInv, UNCHANGED connection, DiscardWsAlmostDone PROVE ParserInv'
<1>1. /\ pc = "switch" /\ parser.state = "s_header_value_discard_ws_almost_done"
      /\ Expect("LF", "s_header_value_discard_lws")
  BY DEF DiscardWsAlmostDone, At
<1>2. /\ parser.state \in HeaderStates \ ChunkStates /\ parser.state \notin MarkStates
      /\ parser.state # "s_headers_done"
  BY <1>1, StateSets DEF HeaderStates, ChunkStates
<1>3. /\ "s_header_value_discard_lws" \in (ResponseLineStates \cup HeaderStates)
                                              \ (Special \cup {"s_headers_done"})
      /\ "s_header_value_discard_lws" \notin ResponseLineStates
  BY DEF HeaderStates, Special, ChunkStates, ResponseLineStates
<1> QED BY <1>1, <1>2, <1>3, ExpectStep

LEMMA HeaderValueDiscardLwsStep ==
    ASSUME ParserInv, UNCHANGED connection, HeaderValueDiscardLws PROVE ParserInv'
<1>1. pc = "switch" /\ parser.state = "s_header_value_discard_lws"
  BY DEF HeaderValueDiscardLws, At
<1>2. /\ parser.state \in HeaderStates \ ChunkStates /\ parser.state \notin MarkStates
      /\ parser.state \notin {"s_header_field", "s_header_value"}
  BY <1>1, StateSets DEF HeaderStates, ChunkStates
<1>3. CASE Break(To("s_header_value_discard_ws")) /\ NoCallback
  <2>1. /\ "s_header_value_discard_ws" \in (ResponseLineStates \cup HeaderStates)
                                               \ (Special \cup {"s_headers_done"})
        /\ "s_header_value_discard_ws" \notin ResponseLineStates
    BY DEF HeaderStates, Special, ChunkStates, ResponseLineStates
  <2> QED BY <1>1, <1>2, <1>3, <2>1, ToStep
<1>4. CASE /\ REEXECUTE(Finished(parser))
           /\ request' = OnHeaderValue(request, <<>>)
           /\ UNCHANGED <<mark, upper, delivered, m_not_reusable>>
  <2> DEFINE q == Finished(parser)
  <2>1. /\ Ready(q) /\ q.state = "s_header_field_start" /\ q.nread = parser.nread
        /\ parser.flags \subseteq q.flags
    BY <1>1, FinishedReady
  <2>2. "s_header_field_start" \notin ResponseLineStates
    BY DEF ResponseLineStates
  <2> HIDE DEF q
  <2>3. REEXECUTE(q)
    BY <1>4 DEF q
  <2>4. <<>> \in Piece
    BY EmptySeq DEF Piece
  <2>5. request' \in Request /\ request'.m_state = request.m_state
    BY <1>4, <2>4, OnHeaderValueType DEF ParserInv, ClientOK
  <2>6. ClientOK'
    BY <1>4, <2>5 DEF ParserInv, ClientOK
  <2>7. NoneMarked'
    BY <1>1, <1>2, <1>4, Unmarked DEF NoneMarked
  <2>8. Onward(q)
    BY <1>2, <2>1, <2>2, <2>5, OnwardIf
  <2>9. ParserOK(q) /\ q.http_errno = "HPE_OK"
    BY <2>1 DEF Ready
  <2> QED BY <1>1, <1>2, <2>1, <2>3, <2>6, <2>7, <2>8, <2>9, ReexecuteStep
<1> QED BY <1>3, <1>4 DEF HeaderValueDiscardLws

(***************************************************************************)
(* The end of the headers and of the message.                               *)
(***************************************************************************)

LEMMA OnHeadersCompleteType ==
    ASSUME NEW r \in Request
    PROVE  OnHeadersComplete(r) \in Request /\ OnHeadersComplete(r).m_state = r.m_state
  BY PushType DEF OnHeadersComplete

\* on_headers passes the status and the headers up.
LEMMA UpperHeaders ==
    ASSUME NEW u \in Passed_up, NEW code \in Nat, code <= 999, NEW hs \in Seq(Header)
    PROVE  [u EXCEPT !.status = code, !.headers = hs] \in Passed_up
<1> DEFINE v == [u EXCEPT !.status = code]
<1>1. v \in Passed_up
  BY SetUpper
<1> HIDE DEF v
<1>2. [v EXCEPT !.headers = hs] \in Passed_up
  BY <1>1, SetUpper
<1> QED BY <1>2 DEF v

LEMMA HeadersAlmostDoneStep ==
    ASSUME ParserInv, UNCHANGED connection, HeadersAlmostDone PROVE ParserInv'
<1> DEFINE up == /\ {"F_UPGRADE", "F_CONNECTION_UPGRADE"} \subseteq parser.flags
                 /\ parser.status_code = 101
           f == parser.flags \cup IF request.head THEN {"F_SKIPBODY"} ELSE {}
           t == To("s_headers_done")
           q == [t EXCEPT !.upgrade = up, !.flags = f]
<1>1. pc = "switch" /\ parser.state = "s_headers_almost_done"
  BY DEF HeadersAlmostDone, At
<1>2. /\ parser.state \in HeaderStates \ ChunkStates /\ parser.state \notin MarkStates
      /\ parser.state \notin {"s_header_field", "s_header_value"} /\ parser.state # "s_headers_done"
  BY <1>1, StateSets DEF HeaderStates, ChunkStates
<1>3. CASE /\ Fail("HPE_STRICT") \/ Fail("HPE_UNEXPECTED_CONTENT_LENGTH")
           /\ NoCallback
  <2>1. {"HPE_STRICT", "HPE_UNEXPECTED_CONTENT_LENGTH"} \subseteq http_errno \ {"HPE_OK"}
    BY DEF http_errno
  <2> QED BY <1>1, <1>2, <1>3, <2>1, FailStep
<1>4. CASE REEXECUTE(To("s_message_done")) /\ NoCallback
  <2>1. "s_message_done" \in States \ Special /\ "s_message_done" \notin ResponseLineStates
    BY DEF States, BodyStates, Special, ChunkStates, ResponseLineStates
  <2>2. /\ Ready(To("s_message_done")) /\ To("s_message_done").state = "s_message_done"
        /\ To("s_message_done").nread = parser.nread /\ To("s_message_done").flags = parser.flags
    BY <1>1, <2>1, ToReady, ToFields, SwitchFacts
  <2> QED BY <1>1, <1>2, <1>4, <2>1, <2>2, PlainStep
<1>5. CASE /\ ch = "LF" /\ "F_TRAILING" \notin parser.flags /\ REEXECUTE(q)
           /\ request' = OnHeadersComplete(request)
           /\ upper' = [upper EXCEPT !.status = parser.status_code, !.headers = request'.headers]
           /\ UNCHANGED <<mark, delivered, m_not_reusable>>
  <2>1. "s_headers_done" \in States /\ "s_headers_done" \notin Special
        /\ "s_headers_done" \notin ResponseLineStates
    BY DEF States, HeaderStates, Special, ChunkStates, ResponseLineStates
  <2>2. /\ parser \in http_parser /\ parser.status_code \in Nat /\ parser.status_code <= 999
        /\ parser.http_errno = "HPE_OK" /\ parser.flags \in SUBSET Flag
        /\ parser.index <= IndexBound(parser.header_state) /\ parser.nread <= HTTP_MAX_HEADER_SIZE
    BY <1>1, SwitchFacts, FieldTypes DEF ParserInv, ParserOK
  <2>3. up \in BOOLEAN /\ f \in SUBSET Flag /\ parser.flags \subseteq f
    BY <2>2 DEF Flag
  <2>f. "F_TRAILING" \notin f
    BY <1>5
  <2>4. /\ t \in http_parser /\ t.state = "s_headers_done"
        /\ t.header_state = parser.header_state /\ t.index = parser.index
        /\ t.nread = parser.nread /\ t.status_code = parser.status_code
        /\ t.http_errno = parser.http_errno
    BY <2>1, <2>2, ToFields
  <2> HIDE DEF up, f, t
  <2>5. q \in http_parser
    BY <2>3, <2>4, SetUpgrade, SetFlags
  <2>6. /\ q.state = "s_headers_done" /\ q.flags = f
        /\ q.header_state = parser.header_state /\ q.index = parser.index
        /\ q.nread = parser.nread /\ q.status_code = parser.status_code
        /\ q.http_errno = parser.http_errno
    BY <2>4 DEF http_parser
  <2> HIDE DEF q
  <2>7. Ready(q)
    BY <2>1, <2>2, <2>5, <2>6, PlainReady
  <2>8. request' \in Request /\ request'.m_state = request.m_state
    BY <1>5, OnHeadersCompleteType DEF ParserInv, ClientOK
  <2>9. upper' \in Passed_up
    <3>1. upper \in Passed_up /\ request'.headers \in Seq(Header)
      BY <2>8, SetRequest DEF ParserInv, ClientOK
    <3> QED BY <1>5, <2>2, <3>1, UpperHeaders
  <2>10. ClientOK'
    BY <1>5, <2>8, <2>9 DEF ParserInv, ClientOK
  <2>11. NoneMarked'
    BY <1>1, <1>2, <1>5, Unmarked DEF NoneMarked
  <2>12. Onward(q)
    BY <1>2, <2>1, <2>3, <2>6, <2>8, OnwardIf
  <2>13. ParserOK(q) /\ q.http_errno = "HPE_OK" /\ q.state # "s_chunk_size_start"
    BY <2>6, <2>7 DEF Ready
  <2> QED BY <1>1, <1>2, <1>5, <2>6, <2>f, <2>10, <2>11, <2>12, <2>13, ReexecuteStep
<1>6. q = [t EXCEPT !.upgrade = up, !.flags = @ \cup IF request.head THEN {"F_SKIPBODY"} ELSE {}]
  <2> DEFINE w == [t EXCEPT !.upgrade = up]
  <2>1. parser \in http_parser
    BY <1>1, SwitchFacts
  <2>2. w.flags = parser.flags
    BY <2>1 DEF To, http_parser
  <2>3. q = [w EXCEPT !.flags = w.flags \cup IF request.head THEN {"F_SKIPBODY"} ELSE {}]
    BY <2>2
  <2> QED BY <2>3
<1> HIDE DEF q
<1> QED BY <1>3, <1>4, <1>5, <1>6 DEF HeadersAlmostDone

LEMMA NewMessages == \A par : NEW_MESSAGE(par) \in {"s_start_res", "s_dead"}
  BY DEF NEW_MESSAGE

\* on_message_complete is called: the next message begins.
LEMMA DoneStep ==
    ASSUME ParserInv, pc = "switch", UNCHANGED connection, parser.state \notin MarkStates,
           NEW par, Ready(par), par.state # "s_headers_done", Break(par) \/ Return(par),
           NEW z, MessageComplete(z)
    PROVE  ParserInv'
<1>1. ClientOK' /\ request'.m_state = "done" /\ mark' = mark
  BY MessageCompleteClient
<1>2. NoneMarked'
  BY <1>1, Unmarked DEF NoneMarked
<1>3. start = 0
  BY SwitchFacts, StateSets
<1>4. Onward(par)
  BY <1>1 DEF Onward
<1>5. Ctl' /\ p' \in Nat /\ p <= p' /\ pc' \in {"loop", "returned"}
  <2>1. CASE Break(par)
    BY <1>3, <1>4, <2>1, BreakCtl
  <2>2. CASE Return(par)
    BY <1>1, <1>3, <2>2, ReturnCtl
  <2> QED BY <2>1, <2>2
<1>6. Marks'
  BY <1>2, <1>5, MarksGone
<1> QED BY <1>1, <1>5, <1>6, StepInv

LEMMA StateFields ==
    ASSUME NEW par \in http_parser, NEW s \in States
    PROVE  LET q == [par EXCEPT !.state = s]
           IN  /\ q \in http_parser /\ q.state = s
               /\ q.header_state = par.header_state /\ q.flags = par.flags
               /\ q.index = par.index /\ q.nread = par.nread
               /\ q.content_length = par.content_length
               /\ q.status_code = par.status_code /\ q.http_errno = par.http_errno
<1> DEFINE q == [par EXCEPT !.state = s]
<1>1. q \in http_parser
  BY SetState
<1>2. /\ q.state = s /\ q.header_state = par.header_state /\ q.flags = par.flags
      /\ q.index = par.index /\ q.nread = par.nread /\ q.content_length = par.content_length
      /\ q.status_code = par.status_code /\ q.http_errno = par.http_errno
  BY DEF http_parser
<1> QED BY <1>1, <1>2

LEMMA HeadersDoneStep == ASSUME ParserInv, UNCHANGED connection, HeadersDone PROVE ParserInv'
<1> DEFINE par == [parser EXCEPT !.nread = 0]
           q(s) == [par EXCEPT !.state = s]
           length == par.content_length
           hasBody == "F_CHUNKED" \in par.flags \/ length \notin {0, ULLONG_MAX}
           next == [par EXCEPT !.state = NEW_MESSAGE(par)]
<1>1. pc = "switch" /\ parser.state = "s_headers_done"
  BY DEF HeadersDone, At
<1>2. ch = "LF"
  BY <1>1 DEF ParserInv, Doing
<1>3. /\ parser.state \notin MarkStates /\ parser.state \notin {"s_header_field", "s_header_value"}
  BY <1>1, StateSets
<1>4. /\ parser \in http_parser /\ parser.status_code <= 999 /\ parser.http_errno = "HPE_OK"
      /\ parser.status_code \in Nat
      /\ parser.index <= IndexBound(parser.header_state) /\ parser.nread <= HTTP_MAX_HEADER_SIZE
  BY <1>1, SwitchFacts DEF ParserInv, ParserOK
<1>5. par \in http_parser
  BY <1>4, SetNread
<1>6. /\ par.header_state = parser.header_state /\ par.flags = parser.flags
      /\ par.index = parser.index /\ par.nread = 0
      /\ par.content_length = parser.content_length
      /\ par.status_code = parser.status_code /\ par.http_errno = "HPE_OK"
  BY <1>4 DEF http_parser
<1>7. 0 <= HTTP_MAX_HEADER_SIZE
  BY ParserConstants
<1>8. \/ (Break(next) \/ Return(next)) /\ MessageComplete(par)
      \/ Break(q("s_chunk_size_start")) /\ "F_CHUNKED" \in par.flags /\ NoCallback
      \/ Break(q("s_body_identity")) /\ length \notin {0, ULLONG_MAX} /\ NoCallback
      \/ Break(q("s_body_identity_eof")) /\ NoCallback
  BY <1>2 DEF HeadersDone
<1> HIDE DEF par
<1>9. ASSUME NEW s \in States
      PROVE  /\ q(s) \in http_parser /\ q(s).state = s
             /\ q(s).header_state = parser.header_state /\ q(s).flags = par.flags
             /\ q(s).index = parser.index /\ q(s).nread = 0
             /\ q(s).content_length = par.content_length
             /\ q(s).status_code = parser.status_code /\ q(s).http_errno = "HPE_OK"
  BY <1>5, <1>6, StateFields
<1> HIDE DEF q
<1>10. ASSUME NEW s \in States \ Special PROVE Ready(q(s))
  BY <1>4, <1>7, <1>9, PlainReady
<1>11. CASE (Break(next) \/ Return(next)) /\ MessageComplete(par)
  <2>1. PICK s \in {"s_start_res", "s_dead"} : s = NEW_MESSAGE(par)
    BY NewMessages
  <2>2. s \in States \ Special /\ s # "s_headers_done"
    BY StateSets DEF ResponseLineStates
  <2>3. next = q(s)
    BY <2>1 DEF q
  <2>4. Ready(q(s)) /\ q(s).state = s
    BY <1>9, <1>10, <2>2
  <2>5. Break(q(s)) \/ Return(q(s))
    BY <1>11, <2>3
  <2> QED BY <1>1, <1>3, <1>11, <2>2, <2>4, <2>5, DoneStep
<1>12. ASSUME NEW s \in {"s_chunk_size_start", "s_body_identity", "s_body_identity_eof"},
              Break(q(s)), Ready(q(s)), NoCallback
       PROVE  ParserInv'
  <2>1. s \in States /\ s # "s_headers_done" /\ s \notin ResponseLineStates
        /\ s \notin HeaderStates \ ChunkStates
    BY DEF States, HeaderStates, BodyStates, ResponseLineStates, ChunkStates
  <2>2. q(s).state = s
    BY <1>9, <2>1
  <2>3. Onward(q(s))
    BY <2>1, <2>2 DEF Onward, InHeader
  <2>4. ClientOK' /\ NoneMarked'
    BY <1>1, <1>3, <1>12, Quiet
  <2> QED BY <1>1, <1>3, <1>12, <2>1, <2>2, <2>3, <2>4, BreakStep
<1>13. CASE Break(q("s_chunk_size_start")) /\ "F_CHUNKED" \in par.flags /\ NoCallback
  <2> DEFINE r == q("s_chunk_size_start")
  <2>1. "s_chunk_size_start" \in States
    BY DEF States, HeaderStates
  <2>2. /\ r \in http_parser /\ r.state = "s_chunk_size_start"
        /\ r.header_state = parser.header_state /\ r.flags = par.flags
        /\ r.index = parser.index /\ r.nread = 0
        /\ r.status_code = parser.status_code /\ r.http_errno = "HPE_OK"
    BY <1>9, <2>1
  <2>3. ~(r.status_code > 999) /\ r.nread <= HTTP_MAX_HEADER_SIZE
    BY <1>4, <1>7, <2>2
  <2> HIDE DEF r
  <2>4. Ready(r)
    BY <1>4, <1>13, <2>2, <2>3 DEF Ready, ParserOK
  <2> QED BY <1>12, <1>13, <2>4 DEF r
<1>14. CASE Break(q("s_body_identity")) /\ length \notin {0, ULLONG_MAX} /\ NoCallback
  <2> DEFINE r == q("s_body_identity")
  <2>1. "s_body_identity" \in States
    BY DEF States, BodyStates
  <2>2. /\ r \in http_parser /\ r.state = "s_body_identity"
        /\ r.header_state = parser.header_state /\ r.content_length = par.content_length
        /\ r.index = parser.index /\ r.nread = 0
        /\ r.status_code = parser.status_code /\ r.http_errno = "HPE_OK"
    BY <1>9, <2>1
  <2>3. ~(r.status_code > 999) /\ r.nread <= HTTP_MAX_HEADER_SIZE
    BY <1>4, <1>7, <2>2
  <2> HIDE DEF r
  <2>4. Ready(r)
    BY <1>4, <1>14, <2>2, <2>3 DEF Ready, ParserOK, ChunkStates
  <2> QED BY <1>12, <1>14, <2>4 DEF r
<1>15. CASE Break(q("s_body_identity_eof")) /\ NoCallback
  <2>1. "s_body_identity_eof" \in States \ Special
    BY DEF States, BodyStates, Special, ChunkStates
  <2> QED BY <1>10, <1>12, <1>15, <2>1
<1> HIDE DEF next, length
<1> QED BY <1>8, <1>11, <1>13, <1>14, <1>15

LEMMA MessageDoneStep == ASSUME ParserInv, UNCHANGED connection, MessageDone PROVE ParserInv'
<1>1. pc = "switch" /\ parser.state = "s_message_done" /\ MessageComplete(parser)
  BY DEF MessageDone, At
<1>2. PICK s \in {"s_start_res", "s_dead"} : s = NEW_MESSAGE(parser)
  BY NewMessages
<1>3. s \in States \ Special /\ s # "s_headers_done"
  BY StateSets DEF ResponseLineStates
<1>4. Ready(To(s)) /\ To(s).state = s
  BY <1>1, <1>3, ToReady, ToFields, SwitchFacts
<1>5. Break(To(s)) \/ Return(To(s))
  BY <1>2 DEF MessageDone
<1>6. parser.state \notin MarkStates
  BY <1>1, StateSets
<1> QED BY <1>1, <1>3, <1>4, <1>5, <1>6, DoneStep

(***************************************************************************)
(* The cases of the bodies.                                                 *)
(***************************************************************************)

LEMMA BodyCtl ==
    ASSUME ParserInv, pc = "switch", start = 0, UNCHANGED <<connection, start, nsize>>,
           ParserOK(parser'), parser'.http_errno = "HPE_OK", parser'.state \in BodyStates,
           p' \in Nat, p <= p', p' <= last, pc' = "loop" \/ (pc' = "switch" /\ p' < last)
    PROVE  Ctl'
<1>1. UNCHANGED <<data, last, wire, start, nsize>>
  BY DEF connection
<1>2. /\ {data, p, last, start, nsize} \subseteq Nat /\ 1 <= data /\ data <= p
      /\ last <= Len(wire) + 1 /\ nsize <= Len(wire)
  BY DEF ParserInv, Positions
<1>3. data <= p' /\ start' <= p'
  BY <1>1, <1>2
<1>4. Positions'
  BY <1>1, <1>2, <1>3 DEF Positions
<1>5. parser'.state \notin HeaderStates /\ parser'.state \notin ResponseLineStates
  BY DEF BodyStates, HeaderStates, ResponseLineStates
<1>6. Doing'
  BY <1>5 DEF Doing, Control, HeaderStates
<1>7. Counted'
  BY <1>5 DEF Counted, InHeader
<1> QED BY <1>4, <1>6, <1>7 DEF Ctl

LEMMA ToReadBounds ==
    ASSUME ParserInv, pc = "switch", parser.state \in {"s_body_identity", "s_chunk_data"}
    PROVE  /\ start = 0 /\ ToRead \in Nat /\ ToRead >= 1 /\ ToRead <= last - p
           /\ ToRead <= parser.content_length /\ parser.content_length \in Nat
           /\ parser.content_length < ULLONG_MAX
<1>1. start = 0 /\ p \in Nat /\ last \in Nat /\ p < last /\ parser \in http_parser
  BY SwitchFacts
<1>2. parser.content_length \in 0..ULLONG_MAX /\ parser.content_length \notin {0, ULLONG_MAX}
  <2>1. parser.content_length \in 0..ULLONG_MAX
    BY <1>1, FieldTypes
  <2>2. parser.content_length \notin {0, ULLONG_MAX}
    BY DEF ParserInv, ParserOK
  <2> QED BY <2>1, <2>2
<1>3. parser.content_length \in Nat /\ parser.content_length >= 1
      /\ parser.content_length < ULLONG_MAX
  BY <1>2, ParserConstants
<1> QED BY <1>1, <1>3 DEF ToRead

LEMMA LengthFields ==
    ASSUME NEW par \in http_parser, NEW n \in 0..ULLONG_MAX
    PROVE  LET q == [par EXCEPT !.content_length = n]
           IN  /\ q \in http_parser /\ q.state = par.state /\ q.content_length = n
               /\ q.header_state = par.header_state /\ q.flags = par.flags
               /\ q.index = par.index /\ q.nread = par.nread
               /\ q.status_code = par.status_code /\ q.http_errno = par.http_errno
<1> DEFINE q == [par EXCEPT !.content_length = n]
<1>1. q \in http_parser
  BY SetContentLength
<1>2. /\ q.state = par.state /\ q.content_length = n
      /\ q.header_state = par.header_state /\ q.flags = par.flags
      /\ q.index = par.index /\ q.nread = par.nread
      /\ q.status_code = par.status_code /\ q.http_errno = par.http_errno
  BY DEF http_parser
<1> QED BY <1>1, <1>2

LEMMA BodyIdentityStep == ASSUME ParserInv, UNCHANGED connection, BodyIdentity PROVE ParserInv'
<1> DEFINE left == parser.content_length - ToRead
           from == IF mark["body"] = 0 THEN p ELSE mark["body"]
<1>1. pc = "switch" /\ parser.state = "s_body_identity"
  BY DEF BodyIdentity, At
<1>2. /\ start = 0 /\ ToRead \in Nat /\ ToRead >= 1 /\ ToRead <= last - p
      /\ ToRead <= parser.content_length /\ parser.content_length \in Nat
      /\ parser.content_length < ULLONG_MAX
  BY <1>1, ToReadBounds
<1>3. /\ parser \in http_parser /\ ParserOK(parser) /\ parser.http_errno = "HPE_OK"
      /\ p \in Nat /\ last \in Nat /\ 1 <= p /\ p <= last
      /\ last <= Len(wire) + 1 /\ Len(wire) \in Nat
  <2>1. /\ parser \in http_parser /\ ParserOK(parser) /\ parser.http_errno = "HPE_OK"
        /\ {data, p, last} \subseteq Nat /\ 1 <= data /\ data <= p /\ p <= last
        /\ last <= Len(wire) + 1 /\ Len(wire) \in Nat
    BY <1>1, SwitchFacts
  <2> QED BY <2>1
<1>4. /\ "body" \in Kinds /\ parser.state \in Marked("body") /\ parser.state \in BodyStates
      /\ "s_message_done" \in States /\ "s_message_done" \in BodyStates
  BY <1>1 DEF Kinds, Marked, BodyStates, States
<1>5. left \in Nat /\ left < ULLONG_MAX /\ left \in 0..ULLONG_MAX
  BY <1>2, ParserConstants
<1>6. CASE left = 0
  <2>1. /\ parser' = [To("s_message_done") EXCEPT !.content_length = 0]
        /\ p' = p + ToRead - 1
        /\ upper' = [upper EXCEPT !.body = @ \o SubSeq(wire, from, p')]
        /\ mark' = [mark EXCEPT !["body"] = 0]
        /\ UNCHANGED <<pc, start, nsize, request, delivered, m_not_reusable>>
    BY <1>6 DEF BodyIdentity
  <2>2. p' \in Nat /\ p <= p' /\ p' < last /\ p' <= last /\ p' \in Int /\ p' <= Len(wire)
    BY <1>2, <1>3, <2>1
  <2>3. /\ parser' \in http_parser /\ parser'.state = "s_message_done"
        /\ parser'.header_state = parser.header_state
        /\ parser'.index = parser.index /\ parser'.nread = parser.nread
        /\ parser'.status_code = parser.status_code /\ parser'.http_errno = "HPE_OK"
    <3>1. 0 \in 0..ULLONG_MAX
      BY ParserConstants
    <3> DEFINE t == To("s_message_done")
    <3>2. /\ t \in http_parser /\ t.state = "s_message_done"
          /\ t.header_state = parser.header_state /\ t.index = parser.index
          /\ t.nread = parser.nread /\ t.status_code = parser.status_code
          /\ t.http_errno = "HPE_OK"
      BY <1>3, <1>4, ToFields
    <3> HIDE DEF t
    <3>3. parser' = [t EXCEPT !.content_length = 0]
      BY <2>1 DEF t
    <3> QED BY <3>1, <3>2, <3>3, LengthFields
  <2>4. ParserOK(parser')
    BY <1>3, <2>3 DEF ParserOK, ChunkStates
  <2>5. Ctl'
    BY <1>1, <1>2, <1>4, <2>1, <2>2, <2>3, <2>4, BodyCtl
  <2>6. mark \in [Kinds -> 0..p] /\ \A k \in Kinds : k # "body" => mark[k] = 0
    BY <1>1, <1>4, OtherMarks DEF ParserInv, Marks
  <2>7. NoneMarked'
    BY <1>4, <2>1, <2>6 DEF NoneMarked
  <2>8. Marks'
    BY <1>1, <2>1, <2>2, <2>7, MarksGone
  <2>9. upper' \in Passed_up
    <3>1. mark["body"] \in 0..p
      BY <1>4, <2>6
    <3>2. from \in Nat /\ from >= 1
      BY <1>3, <3>1
    <3> HIDE DEF from
    <3>3. SubSeq(wire, from, p') \in Piece
      BY <2>2, <3>2, PieceOf DEF ParserInv, Connected
    <3>4. upper \in Passed_up /\ upper.body \in Piece
      BY SetUpper DEF ParserInv, ClientOK
    <3>5. upper.body \o SubSeq(wire, from, p') \in Piece
      BY <3>3, <3>4, ConcatProperties DEF Piece
    <3> QED BY <2>1, <3>4, <3>5, SetUpper
  <2>10. ClientOK'
    BY <2>1, <2>9 DEF ParserInv, ClientOK
  <2> QED BY <2>5, <2>8, <2>10, StepInv
<1>7. CASE left # 0
  <2>1. /\ parser' = [parser EXCEPT !.content_length = left]
        /\ p' = p + ToRead /\ pc' = "loop" /\ Mark("body") /\ UNCHANGED <<start, nsize>>
    BY <1>7 DEF BodyIdentity
  <2>2. p' \in Nat /\ p <= p' /\ p' <= last
    BY <1>2, <1>3, <2>1
  <2> HIDE DEF left
  <2>3. /\ parser' \in http_parser /\ parser'.state = parser.state
        /\ parser'.content_length = left /\ parser'.header_state = parser.header_state
        /\ parser'.index = parser.index /\ parser'.nread = parser.nread
        /\ parser'.status_code = parser.status_code /\ parser'.http_errno = "HPE_OK"
    <3>1. parser' \in http_parser
      BY <1>3, <1>5, <2>1, SetContentLength
    <3>2. /\ parser'.state = parser.state
          /\ parser'.content_length = left /\ parser'.header_state = parser.header_state
          /\ parser'.index = parser.index /\ parser'.nread = parser.nread
          /\ parser'.status_code = parser.status_code /\ parser'.http_errno = "HPE_OK"
      BY <1>3, <2>1 DEF http_parser
    <3> QED BY <3>1, <3>2
  <2>4. left \notin {0, ULLONG_MAX}
    BY <1>5, <1>7, ParserConstants
  <2>5. ParserOK(parser')
    BY <1>1, <1>3, <2>3, <2>4 DEF ParserOK, ChunkStates
  <2>6. Ctl'
    BY <1>1, <1>2, <1>4, <2>1, <2>2, <2>3, <2>5, BodyCtl
  <2>7. Marks' /\ ClientOK'
    BY <1>1, <1>4, <2>1, <2>2, <2>3, MarkedNext
  <2> QED BY <2>6, <2>7, StepInv
<1> QED BY <1>6, <1>7

LEMMA BodyIdentityEofStep ==
    ASSUME ParserInv, UNCHANGED connection, BodyIdentityEof PROVE ParserInv'
<1>1. /\ pc = "switch" /\ parser.state = "s_body_identity_eof" /\ p' = last /\ pc' = "loop"
      /\ Mark("body") /\ UNCHANGED <<parser, start, nsize>>
  BY DEF BodyIdentityEof, At
<1>2. /\ start = 0 /\ ParserOK(parser) /\ parser.http_errno = "HPE_OK"
      /\ p \in Nat /\ last \in Nat /\ p <= last
  BY <1>1, SwitchFacts
<1>3. p' \in Nat /\ p <= p' /\ p' <= last
  BY <1>1, <1>2
<1>4. "body" \in Kinds /\ parser.state \in Marked("body") /\ parser'.state \in BodyStates
  BY <1>1 DEF Kinds, Marked, BodyStates
<1>5. Ctl'
  BY <1>1, <1>2, <1>3, <1>4, BodyCtl
<1>6. Marks' /\ ClientOK'
  BY <1>1, <1>3, <1>4, MarkedNext
<1> QED BY <1>5, <1>6, StepInv

LEMMA ChunkDataStep == ASSUME ParserInv, UNCHANGED connection, ChunkData PROVE ParserInv'
<1> DEFINE left == parser.content_length - ToRead
<1>1. /\ pc = "switch" /\ parser.state = "s_chunk_data" /\ p' = p + ToRead /\ pc' = "loop"
      /\ Mark("body") /\ UNCHANGED <<start, nsize>>
  BY DEF ChunkData, At
<1>2. /\ start = 0 /\ ToRead \in Nat /\ ToRead >= 1 /\ ToRead <= last - p
      /\ ToRead <= parser.content_length /\ parser.content_length \in Nat
      /\ parser.content_length < ULLONG_MAX
  BY <1>1, ToReadBounds
<1>3. /\ parser \in http_parser /\ ParserOK(parser) /\ parser.http_errno = "HPE_OK"
      /\ p \in Nat /\ last \in Nat
  BY <1>1, SwitchFacts
<1>4. left \in Nat /\ left < ULLONG_MAX /\ left \in 0..ULLONG_MAX
  BY <1>2, ParserConstants
<1>5. PICK s \in {"s_chunk_data", "s_chunk_data_almost_done"} :
          s = IF left = 0 THEN "s_chunk_data_almost_done" ELSE "s_chunk_data"
  OBVIOUS
<1>6. parser' = [parser EXCEPT !.content_length = left, !.state = s]
  <2>1. parser' = [parser EXCEPT !.content_length = left,
                                 !.state = IF left = 0 THEN "s_chunk_data_almost_done" ELSE @]
    BY DEF ChunkData
  <2> HIDE DEF left
  <2>2. [parser EXCEPT !.content_length = left].state = "s_chunk_data"
    BY <1>1, <1>3 DEF http_parser
  <2> QED BY <1>5, <2>1, <2>2
<1>7. p' \in Nat /\ p <= p' /\ p' <= last
  BY <1>1, <1>2, <1>3
<1>8. s \in States /\ s \in BodyStates /\ s \in Marked("body") /\ "body" \in Kinds
      /\ parser.state \in Marked("body")
  BY <1>1 DEF States, BodyStates, Marked, Kinds
<1> HIDE DEF left
<1>9. /\ parser' \in http_parser /\ parser'.state = s /\ parser'.content_length = left
      /\ parser'.header_state = parser.header_state /\ parser'.flags = parser.flags
      /\ parser'.index = parser.index /\ parser'.nread = parser.nread
      /\ parser'.status_code = parser.status_code /\ parser'.http_errno = "HPE_OK"
  <2> DEFINE w == [parser EXCEPT !.content_length = left]
  <2>1. /\ w \in http_parser /\ w.content_length = left
        /\ w.header_state = parser.header_state /\ w.flags = parser.flags
        /\ w.index = parser.index /\ w.nread = parser.nread
        /\ w.status_code = parser.status_code /\ w.http_errno = "HPE_OK"
    BY <1>3, <1>4, LengthFields
  <2>2. parser' = [w EXCEPT !.state = s]
    BY <1>6
  <2> HIDE DEF w
  <2> QED BY <1>8, <2>1, <2>2, StateFields
<1>10. left # ULLONG_MAX /\ (s = "s_chunk_data" => left # 0)
       /\ (s = "s_chunk_data_almost_done" => left = 0)
  BY <1>4, <1>5, ParserConstants
<1>11. ParserOK(parser')
  BY <1>1, <1>3, <1>9, <1>10 DEF ParserOK, ChunkStates
<1>12. Ctl'
  BY <1>1, <1>2, <1>7, <1>8, <1>9, <1>11, BodyCtl
<1>13. Marks' /\ ClientOK'
  BY <1>1, <1>7, <1>8, <1>9, MarkedNext
<1> QED BY <1>12, <1>13, StepInv

\* What a chunked body needs of the parser.
LEMMA ChunkReady ==
    ASSUME ParserInv, pc = "switch", parser.state \in ChunkStates, NEW q \in http_parser,
           q.state \in ChunkStates, q.flags = parser.flags, q.index = parser.index,
           q.header_state = parser.header_state, q.status_code = parser.status_code,
           q.http_errno = parser.http_errno, q.nread \in {0, parser.nread},
           q.state = "s_chunk_size_start" => q.nread = 0,
           q.state \in {"s_chunk_size", "s_chunk_parameters", "s_chunk_size_almost_done"}
               => q.content_length # ULLONG_MAX,
           q.state = "s_chunk_data" => q.content_length \notin {0, ULLONG_MAX},
           q.state = "s_chunk_data_almost_done" => q.content_length = 0
    PROVE  Ready(q) /\ Onward(q) /\ q.state # "s_headers_done"
<1>1. /\ parser.http_errno = "HPE_OK" /\ parser.status_code \in Nat /\ parser.status_code <= 999
      /\ parser.index <= IndexBound(parser.header_state) /\ parser.nread <= HTTP_MAX_HEADER_SIZE
      /\ "F_CHUNKED" \in parser.flags
  BY SwitchFacts DEF ParserInv, ParserOK
<1>2. ~(q.status_code > 999) /\ q.nread <= HTTP_MAX_HEADER_SIZE
  BY <1>1, ParserConstants
<1>3. q.state \notin {"s_header_value", "s_body_identity"} /\ q.state # "s_headers_done"
      /\ q.state \notin ResponseLineStates
  BY DEF ChunkStates, ResponseLineStates
<1>4. Ready(q)
  BY <1>1, <1>2, <1>3 DEF Ready, ParserOK
<1>5. Onward(q)
  BY <1>3 DEF Onward, InHeader
<1> QED BY <1>3, <1>4, <1>5

LEMMA ChunkFacts ==
    ASSUME ParserInv, pc = "switch", parser.state \in ChunkStates
    PROVE  /\ parser \in http_parser /\ parser.content_length \in 0..ULLONG_MAX
           /\ parser.state # "s_headers_done"
           /\ parser.state \notin {"s_header_field", "s_header_value"}
           /\ parser.flags \in SUBSET Flag /\ "F_CHUNKED" \in parser.flags
  BY SwitchFacts, FieldTypes DEF ParserInv, ParserOK, ChunkStates

LEMMA ChunkTo ==
    ASSUME ParserInv, pc = "switch", parser.state \in ChunkStates,
           NEW s \in {"s_chunk_size_almost_done", "s_chunk_parameters"},
           parser.content_length # ULLONG_MAX
    PROVE  Ready(To(s)) /\ Onward(To(s)) /\ To(s).state # "s_headers_done"
<1>1. s \in States /\ s \in ChunkStates /\ s # "s_chunk_size_start" /\ s # "s_chunk_data"
      /\ s # "s_chunk_data_almost_done"
  BY DEF States, HeaderStates, ChunkStates
<1> DEFINE q == To(s)
<1>2. /\ q \in http_parser /\ q.state = s
      /\ q.header_state = parser.header_state /\ q.flags = parser.flags
      /\ q.index = parser.index /\ q.nread = parser.nread
      /\ q.content_length = parser.content_length
      /\ q.status_code = parser.status_code /\ q.http_errno = parser.http_errno
  BY <1>1, ChunkFacts, ToFields
<1> HIDE DEF q
<1>3. Ready(q) /\ Onward(q) /\ q.state # "s_headers_done"
  BY <1>1, <1>2, ChunkReady
<1> QED BY <1>3 DEF q

LEMMA ChunkSizeStartStep ==
    ASSUME ParserInv, UNCHANGED connection, ChunkSizeStart PROVE ParserInv'
<1> DEFINE t == To("s_chunk_size")
           n == unhex(ch)
           q == [t EXCEPT !.content_length = n]
<1>1. /\ pc = "switch" /\ parser.state = "s_chunk_size_start"
      /\ Require(IsHex(ch), "HPE_INVALID_CHUNK_SIZE", q)
  BY DEF ChunkSizeStart, At
<1>2. /\ parser.state \in ChunkStates /\ parser.state \notin MarkStates \cup {"s_headers_done"}
      /\ "s_chunk_size" \in States /\ "s_chunk_size" \in ChunkStates
  BY <1>1, StateSets DEF ChunkStates, States, HeaderStates
<1>3. /\ t \in http_parser /\ t.state = "s_chunk_size"
      /\ t.header_state = parser.header_state /\ t.flags = parser.flags
      /\ t.index = parser.index /\ t.nread = parser.nread
      /\ t.status_code = parser.status_code /\ t.http_errno = parser.http_errno
  BY <1>1, <1>2, ChunkFacts, ToFields
<1>4. IsHex(ch) => n \in 0..ULLONG_MAX /\ n # ULLONG_MAX
  BY Numerals, ParserConstants
<1> HIDE DEF t, n
<1>5. ASSUME IsHex(ch) PROVE Ready(q) /\ q.state # "s_headers_done" /\ Onward(q)
  <2>1. /\ q \in http_parser /\ q.state = "s_chunk_size" /\ q.content_length = n
        /\ q.header_state = parser.header_state /\ q.flags = parser.flags
        /\ q.index = parser.index /\ q.nread = parser.nread
        /\ q.status_code = parser.status_code /\ q.http_errno = parser.http_errno
    BY <1>3, <1>4, <1>5, LengthFields
  <2> HIDE DEF q
  <2> QED BY <1>1, <1>2, <1>4, <1>5, <2>1, ChunkReady
<1> HIDE DEF q
<1>6. IsHex(ch) \in BOOLEAN /\ "HPE_INVALID_CHUNK_SIZE" \in http_errno \ {"HPE_OK"}
  BY DEF IsHex, http_errno
<1> QED BY <1>1, <1>2, <1>5, <1>6, RequireStep

LEMMA ChunkSizeStep == ASSUME ParserInv, UNCHANGED connection, ChunkSize PROVE ParserInv'
<1> DEFINE t == (parser.content_length * 16 + unhex(ch)) % (ULLONG_MAX + 1)
           q == [parser EXCEPT !.content_length = t]
<1>1. pc = "switch" /\ parser.state = "s_chunk_size" /\ NoCallback
  BY DEF ChunkSize, At
<1>2. /\ parser.state \in ChunkStates /\ parser.state \notin MarkStates
  BY <1>1, StateSets DEF ChunkStates
<1>3. parser.content_length # ULLONG_MAX
  BY <1>1 DEF ParserInv, ParserOK
<1>4. ASSUME NEW par, Break(par), Ready(par), Onward(par), par.state # "s_headers_done"
      PROVE  ParserInv'
  <2>1. ClientOK' /\ NoneMarked'
    BY <1>1, <1>2, Quiet
  <2> QED BY <1>1, <1>2, <1>4, <2>1, ChunkFacts, BreakStep
<1>5. ASSUME NEW s \in {"s_chunk_size_almost_done", "s_chunk_parameters"}, Break(To(s))
      PROVE  ParserInv'
  BY <1>1, <1>2, <1>3, <1>4, <1>5, ChunkTo
<1>6. ASSUME NEW errno \in {"HPE_INVALID_CHUNK_SIZE", "HPE_INVALID_CONTENT_LENGTH"}, Fail(errno)
      PROVE  ParserInv'
  <2>1. errno \in http_errno \ {"HPE_OK"}
    BY DEF http_errno
  <2> QED BY <1>1, <1>2, <1>6, <2>1, ChunkFacts, FailStep
<1>7. CASE /\ IsHex(ch) /\ ~((ULLONG_MAX - 16) \div 16 < parser.content_length)
           /\ Break(q)
  <2>1. parser.content_length \in Nat /\ unhex(ch) \in 0..(16 - 1)
    BY <1>1, <1>2, <1>7, ChunkFacts, Numerals, ParserConstants
  <2>2. t \in 0..ULLONG_MAX /\ t # ULLONG_MAX
    BY <1>7, <2>1, DigitFits
  <2> HIDE DEF t
  <2>3. /\ q \in http_parser /\ q.state = parser.state /\ q.content_length = t
        /\ q.header_state = parser.header_state /\ q.flags = parser.flags
        /\ q.index = parser.index /\ q.nread = parser.nread
        /\ q.status_code = parser.status_code /\ q.http_errno = parser.http_errno
    BY <1>1, <1>2, <2>2, ChunkFacts, LengthFields
  <2> HIDE DEF q
  <2>4. Ready(q) /\ Onward(q) /\ q.state # "s_headers_done"
    BY <1>1, <1>2, <2>2, <2>3, ChunkReady
  <2> QED BY <1>4, <1>7, <2>4
<1> HIDE DEF q
<1>8. \/ Break(To("s_chunk_size_almost_done")) \/ Break(To("s_chunk_parameters"))
      \/ Fail("HPE_INVALID_CHUNK_SIZE") \/ Fail("HPE_INVALID_CONTENT_LENGTH")
      \/ /\ IsHex(ch) /\ ~((ULLONG_MAX - 16) \div 16 < parser.content_length)
         /\ Break(q)
  BY DEF ChunkSize, q
<1> QED BY <1>5, <1>6, <1>7, <1>8

LEMMA ChunkParametersStep ==
    ASSUME ParserInv, UNCHANGED connection, ChunkParameters PROVE ParserInv'
<1>1. pc = "switch" /\ parser.state = "s_chunk_parameters" /\ NoCallback
  BY DEF ChunkParameters, At
<1>2. /\ parser.state \in ChunkStates /\ parser.state \notin MarkStates
  BY <1>1, StateSets DEF ChunkStates
<1>3. parser.content_length # ULLONG_MAX
  BY <1>1 DEF ParserInv, ParserOK
<1>4. ASSUME NEW par, Break(par), Ready(par), Onward(par), par.state # "s_headers_done"
      PROVE  ParserInv'
  <2>1. ClientOK' /\ NoneMarked'
    BY <1>1, <1>2, Quiet
  <2> QED BY <1>1, <1>2, <1>4, <2>1, ChunkFacts, BreakStep
<1>5. CASE Break(To("s_chunk_size_almost_done"))
  BY <1>1, <1>2, <1>3, <1>4, <1>5, ChunkTo
<1>6. CASE Break(parser)
  <2>1. Ready(parser) /\ Onward(parser) /\ parser.state # "s_headers_done"
    BY <1>1, <1>2, <1>3, ChunkFacts, ChunkReady
  <2> QED BY <1>4, <1>6, <2>1
<1> QED BY <1>5, <1>6 DEF ChunkParameters

LEMMA ChunkSizeAlmostDoneStep ==
    ASSUME ParserInv, UNCHANGED connection, ChunkSizeAlmostDone PROVE ParserInv'
<1> DEFINE f == parser.flags \cup {"F_TRAILING"}
           a == [To("s_header_field_start") EXCEPT !.nread = 0, !.flags = f]
           b == [To("s_chunk_data") EXCEPT !.nread = 0]
           q == IF parser.content_length = 0 THEN a ELSE b
<1>1. /\ pc = "switch" /\ parser.state = "s_chunk_size_almost_done"
  BY DEF ChunkSizeAlmostDone, At
<1>2. /\ parser.state \in ChunkStates /\ parser.state \notin MarkStates \cup {"s_headers_done"}
      /\ {"s_header_field_start", "s_chunk_data"} \subseteq States /\ "s_chunk_data" \in ChunkStates
      /\ "s_header_field_start" \notin Special /\ "s_header_field_start" \notin ResponseLineStates
  BY <1>1, StateSets
     DEF ChunkStates, States, HeaderStates, BodyStates, Special, ResponseLineStates
<1>3. parser.content_length # ULLONG_MAX
  BY <1>1 DEF ParserInv, ParserOK
<1>4. /\ parser \in http_parser /\ parser.flags \in SUBSET Flag
      /\ parser.status_code <= 999 /\ parser.http_errno = "HPE_OK"
      /\ parser.index <= IndexBound(parser.header_state)
  BY <1>1, <1>2, ChunkFacts, SwitchFacts DEF ParserInv, ParserOK
<1>5. ASSUME NEW s \in {"s_header_field_start", "s_chunk_data"}
      PROVE  /\ To(s) \in http_parser /\ To(s).state = s
             /\ To(s).header_state = parser.header_state /\ To(s).flags = parser.flags
             /\ To(s).index = parser.index /\ To(s).content_length = parser.content_length
             /\ To(s).status_code = parser.status_code /\ To(s).http_errno = parser.http_errno
  BY <1>2, <1>4, ToFields
<1>6. Ready(a) /\ Onward(a) /\ a.state # "s_headers_done"
  <2> DEFINE u == To("s_header_field_start")
  <2>1. f \in SUBSET Flag
    BY <1>4 DEF Flag
  <2> HIDE DEF f
  <2>2. /\ u \in http_parser /\ u.state = "s_header_field_start"
        /\ u.header_state = parser.header_state /\ u.index = parser.index
        /\ u.status_code = parser.status_code /\ u.http_errno = parser.http_errno
    BY <1>5
  <2> HIDE DEF u
  <2>3. a = [u EXCEPT !.nread = 0, !.flags = f]
    BY DEF u
  <2> HIDE DEF a
  <2>4. a \in http_parser
    BY <2>1, <2>2, <2>3, SetNread, SetFlags
  <2>5. /\ a.state = "s_header_field_start" /\ a.flags = f /\ a.nread = 0
        /\ a.header_state = parser.header_state /\ a.index = parser.index
        /\ a.status_code = parser.status_code /\ a.http_errno = parser.http_errno
    BY <2>2, <2>3 DEF http_parser
  <2>6. Ready(a)
    BY <1>2, <1>4, <2>4, <2>5, PlainReady, ParserConstants
  <2>7. Onward(a)
    BY <1>2, <2>5 DEF Onward, InHeader, f
  <2> QED BY <2>5, <2>6, <2>7
<1>7. ASSUME parser.content_length # 0 PROVE Ready(b) /\ Onward(b) /\ b.state # "s_headers_done"
  <2> DEFINE u == To("s_chunk_data")
  <2>2. /\ u \in http_parser /\ u.state = "s_chunk_data" /\ u.flags = parser.flags
        /\ u.header_state = parser.header_state /\ u.index = parser.index
        /\ u.content_length = parser.content_length
        /\ u.status_code = parser.status_code /\ u.http_errno = parser.http_errno
    BY <1>5
  <2> HIDE DEF u
  <2>3. b = [u EXCEPT !.nread = 0]
    BY DEF u
  <2> HIDE DEF b
  <2>4. b \in http_parser
    BY <2>2, <2>3, SetNread
  <2>5. /\ b.state = "s_chunk_data" /\ b.flags = parser.flags /\ b.nread = 0
        /\ b.header_state = parser.header_state /\ b.index = parser.index
        /\ b.content_length = parser.content_length
        /\ b.status_code = parser.status_code /\ b.http_errno = parser.http_errno
    BY <2>2, <2>3 DEF http_parser
  <2> QED BY <1>1, <1>2, <1>3, <1>7, <2>4, <2>5, ChunkReady
<1>8. Require(ch = "LF", "HPE_STRICT", q)
  <2> DEFINE u == To("s_header_field_start")
             w == [u EXCEPT !.nread = 0]
  <2>1. u \in http_parser /\ u.flags = parser.flags
    BY <1>5
  <2> HIDE DEF u
  <2>2. w.flags = parser.flags
    BY <2>1 DEF http_parser
  <2>3. [u EXCEPT !.nread = 0, !.flags = @ \cup {"F_TRAILING"}]
            = [w EXCEPT !.flags = w.flags \cup {"F_TRAILING"}]
    OBVIOUS
  <2>4. [To("s_header_field_start") EXCEPT !.nread = 0, !.flags = @ \cup {"F_TRAILING"}] = a
    BY <2>2, <2>3 DEF u
  <2> HIDE DEF a, b
  <2> QED BY <2>4 DEF ChunkSizeAlmostDone, b
<1> HIDE DEF a, b
<1>9. Ready(q) /\ Onward(q) /\ q.state # "s_headers_done"
  BY <1>6, <1>7
<1> HIDE DEF q
<1>10. "HPE_STRICT" \in http_errno \ {"HPE_OK"} /\ (ch = "LF") \in BOOLEAN
  BY DEF http_errno
<1> QED BY <1>1, <1>2, <1>8, <1>9, <1>10, RequireStep

LEMMA ChunkDataAlmostDoneStep ==
    ASSUME ParserInv, UNCHANGED connection, ChunkDataAlmostDone PROVE ParserInv'
<1>1. pc = "switch" /\ parser.state = "s_chunk_data_almost_done"
  BY DEF ChunkDataAlmostDone, At
<1>2. /\ parser.state \in ChunkStates /\ parser.state \in Marked("body") /\ "body" \in Kinds
      /\ "s_chunk_data_done" \in States /\ "s_chunk_data_done" \in ChunkStates
  BY <1>1 DEF ChunkStates, States, BodyStates, Marked, Kinds
<1>3. CASE Break(To("s_chunk_data_done")) /\ CallbackData("body", p)
  <2> DEFINE q == To("s_chunk_data_done")
  <2>1. /\ q \in http_parser /\ q.state = "s_chunk_data_done"
        /\ q.header_state = parser.header_state /\ q.flags = parser.flags
        /\ q.index = parser.index /\ q.nread = parser.nread
        /\ q.status_code = parser.status_code /\ q.http_errno = parser.http_errno
    BY <1>1, <1>2, ChunkFacts, ToFields
  <2> HIDE DEF q
  <2>2. Ready(q) /\ Onward(q) /\ q.state # "s_headers_done"
    BY <1>1, <1>2, <2>1, ChunkReady
  <2>3. ClientOK' /\ NoneMarked'
    BY <1>1, <1>2, <1>3, CallbackDataClient
  <2>4. Break(q)
    BY <1>3 DEF q
  <2> QED BY <1>1, <1>2, <2>2, <2>3, <2>4, ChunkFacts, BreakStep
<1>4. CASE Fail("HPE_STRICT") /\ NoCallback
  <2>1. "HPE_STRICT" \in http_errno \ {"HPE_OK"}
    BY DEF http_errno
  <2> QED BY <1>1, <1>2, <1>4, <2>1, ChunkFacts, FailStep
<1> QED BY <1>3, <1>4 DEF ChunkDataAlmostDone

LEMMA ChunkDataDoneStep ==
    ASSUME ParserInv, UNCHANGED connection, ChunkDataDone PROVE ParserInv'
<1> DEFINE t == To("s_chunk_size_start")
           q == [t EXCEPT !.nread = 0]
<1>1. /\ pc = "switch" /\ parser.state = "s_chunk_data_done"
      /\ Require(ch = "LF", "HPE_STRICT", q)
  BY DEF ChunkDataDone, At
<1>2. /\ parser.state \in ChunkStates /\ parser.state \notin MarkStates \cup {"s_headers_done"}
      /\ "s_chunk_size_start" \in States /\ "s_chunk_size_start" \in ChunkStates
  BY <1>1, StateSets DEF ChunkStates, States, HeaderStates
<1>3. /\ t \in http_parser /\ t.state = "s_chunk_size_start"
      /\ t.header_state = parser.header_state /\ t.flags = parser.flags
      /\ t.index = parser.index
      /\ t.status_code = parser.status_code /\ t.http_errno = parser.http_errno
  BY <1>1, <1>2, ChunkFacts, ToFields
<1> HIDE DEF t
<1>4. q \in http_parser
  BY <1>3, SetNread
<1>5. /\ q.state = "s_chunk_size_start" /\ q.nread = 0
      /\ q.header_state = parser.header_state /\ q.flags = parser.flags
      /\ q.index = parser.index
      /\ q.status_code = parser.status_code /\ q.http_errno = parser.http_errno
  BY <1>3 DEF http_parser
<1> HIDE DEF q
<1>6. Ready(q) /\ Onward(q) /\ q.state # "s_headers_done"
  BY <1>1, <1>2, <1>4, <1>5, ChunkReady
<1>7. "HPE_STRICT" \in http_errno \ {"HPE_OK"} /\ (ch = "LF") \in BOOLEAN
  BY DEF http_errno
<1> QED BY <1>1, <1>2, <1>6, <1>7, RequireStep

(***************************************************************************)
(* The head of the loop, on_read and write_headers.                         *)
(***************************************************************************)

LEMMA NextByteStep == ASSUME ParserInv, UNCHANGED connection, NextByte PROVE ParserInv'
<1> DEFINE n == IF PARSING_HEADER(parser.state) THEN 1 ELSE 0
<1>1. pc = "loop" /\ p # last /\ NoCallback
  BY DEF NextByte
<1>2. /\ parser \in http_parser /\ ParserOK(parser) /\ parser.http_errno = "HPE_OK"
      /\ parser.state # "s_headers_done" /\ parser.nread \in Nat /\ start = 0
      /\ parser.nread <= HTTP_MAX_HEADER_SIZE
  <2>1. /\ parser \in http_parser /\ ParserOK(parser) /\ parser.http_errno = "HPE_OK"
        /\ parser.state # "s_headers_done" /\ start = 0
        /\ parser.nread <= HTTP_MAX_HEADER_SIZE
    BY <1>1 DEF ParserInv, ParserOK, Doing, Positions
  <2> QED BY <2>1, FieldTypes
<1>3. CASE Fail("HPE_HEADER_OVERFLOW")
  <2>1. "HPE_HEADER_OVERFLOW" \in http_errno \ {"HPE_OK"}
    BY DEF http_errno
  <2> QED BY <1>1, <1>2, <1>3, <2>1, FailStep
<1>4. CASE /\ ~Overflow(n) /\ parser' = [parser EXCEPT !.nread = @ + n]
           /\ pc' = "switch" /\ UNCHANGED <<p, start, nsize>>
  <2> DEFINE k == parser.nread + n
  <2>1. k \in Nat /\ k <= HTTP_MAX_HEADER_SIZE
    BY <1>2, <1>4, ParserConstants DEF Overflow
  <2>2. parser' = [parser EXCEPT !.nread = k]
    BY <1>4
  <2> HIDE DEF k
  <2>3. /\ ParserOK(parser') /\ parser'.state = parser.state /\ parser'.flags = parser.flags
        /\ parser'.nread = k /\ parser'.http_errno = "HPE_OK"
    BY <1>2, <2>1, <2>2, NreadFields
  <2>4. UNCHANGED <<data, last, wire>>
    BY DEF connection
  <2>5. p \in Nat /\ last \in Nat /\ p <= last /\ p < last
    BY <1>1 DEF ParserInv, Positions
  <2>6. Positions'
    BY <1>2, <1>4, <2>4, <2>5 DEF ParserInv, Positions
  <2>7. ClientOK' /\ request' = request /\ mark' = mark
    BY <1>1, NoCallbackClient
  <2>8. Doing'
    <3>1. parser.state = "s_chunk_size_start" => k = 1
      <4> SUFFICES ASSUME parser.state = "s_chunk_size_start" PROVE k = 1
        OBVIOUS
      <4>1. parser.nread = 0
        BY <1>1, <1>2 DEF ParserInv, Doing
      <4>2. n = 1
        BY DEF PARSING_HEADER, BodyStates
      <4> QED BY <4>1, <4>2 DEF k
    <3> QED BY <1>2, <1>4, <2>3, <3>1 DEF Doing, Control
  <2>9. Counted'
    <3> SUFFICES ASSUME request.m_state = "in_progress", InHeader(parser')
                 PROVE  p <= k + Passed'
      BY <1>4, <2>3, <2>7 DEF Counted
    <3>1. InHeader(parser)
      BY <2>3 DEF InHeader
    <3>2. p <= parser.nread + 1
      BY <1>1, <1>2, <3>1 DEF ParserInv, Counted
    <3>3. n = 1
      BY <3>1 DEF PARSING_HEADER, InHeader, BodyStates, HeaderStates, ResponseLineStates
    <3>4. Passed' = 0
      BY <1>2, <1>4 DEF Passed
    <3>5. k = parser.nread + 1
      BY <3>3 DEF k
    <3> QED BY <1>2, <2>5, <3>2, <3>4, <3>5
  <2>10. p' \in Nat /\ p <= p' /\ pc' \in {"loop", "switch", "returned"}
    BY <1>4, <2>5
  <2>11. Marks'
    BY <1>1, <2>3, <2>7, <2>10, MarksStay
  <2> QED BY <2>3, <2>6, <2>7, <2>8, <2>9, <2>11, StepInv DEF Ctl
<1> QED BY <1>3, <1>4 DEF NextByte

LEMMA EndOfBufferStep == ASSUME ParserInv, UNCHANGED connection, EndOfBuffer PROVE ParserInv'
<1>1. /\ pc = "loop" /\ p = last /\ pc' = "returned" /\ nsize' = last - data
      /\ UNCHANGED <<parser, p, start>>
  BY DEF EndOfBuffer
<1>2. UNCHANGED <<data, last, wire>>
  BY DEF connection
<1>3. mark \in [Kinds -> 0..p]
  BY DEF ParserInv, Marks
<1>4. ClientOK' /\ request'.m_state = request.m_state /\ (mark' = mark \/ NoneMarked')
  <2>1. CASE NoCallback
    BY <2>1, NoCallbackClient
  <2>2. CASE \E kind \in DOMAIN mark : mark[kind] # 0 /\ CallbackData(kind, p)
    <3>1. PICK kind \in Kinds : mark[kind] # 0 /\ CallbackData(kind, p)
      BY <1>3, <2>2
    <3>2. parser.state \in Marked(kind)
      BY <1>1, <3>1 DEF ParserInv, Marks
    <3> QED BY <1>1, <3>1, <3>2, CallbackDataClient
  <2> QED BY <2>1, <2>2 DEF EndOfBuffer
<1>5. /\ {data, p, last} \subseteq Nat /\ 1 <= data /\ data <= p /\ last <= Len(wire) + 1
      /\ start = 0 /\ Len(wire) \in Nat
  BY <1>1, LenProperties DEF ParserInv, Positions, Connected, Piece
<1>6. nsize' \in Nat /\ nsize' <= Len(wire)
  BY <1>1, <1>5
<1>7. Positions'
  BY <1>1, <1>2, <1>5, <1>6 DEF ParserInv, Positions
<1>8. ParserOK(parser') /\ Doing'
  BY <1>1 DEF ParserInv, Doing, Control
<1>9. Counted'
  BY <1>1, <1>2, <1>4 DEF ParserInv, Counted, InHeader
<1>10. p' \in Nat /\ p <= p'
  BY <1>1, <1>5
<1>11. Marks'
  <2>1. CASE mark' = mark
    BY <1>1, <1>3, <1>10, <2>1, MarksNext
  <2>2. CASE NoneMarked'
    BY <1>1, <1>10, <2>2, MarksGone
  <2> QED BY <1>4, <2>1, <2>2
<1> QED BY <1>4, <1>7, <1>8, <1>9, <1>11, StepInv DEF Ctl

LEMMA OnReadStep == ASSUME ParserInv, NEW n \in ReadSizes, OnRead(n) PROVE ParserInv'
<1>1. /\ pc = "read" /\ last <= Len(wire) /\ data' = last /\ p' = last
      /\ last' = (IF last + n <= Len(wire) THEN last + n ELSE Len(wire) + 1)
      /\ UNCHANGED <<response, exchange, wire, parser, start, request, upper, delivered,
                     m_not_reusable>>
  BY DEF OnRead
<1>2. \/ parser.http_errno = "HPE_OK" /\ pc' = "loop" /\ nsize' = nsize
      \/ parser.http_errno # "HPE_OK" /\ pc' = "returned" /\ nsize' = 0
  BY DEF OnRead
<1>3. /\ last \in Nat /\ 1 <= last /\ start = 0 /\ nsize = 0 /\ Len(wire) \in Nat /\ n \in Nat
      /\ n >= 1
  <2>1. {data, p, last} \subseteq Nat /\ 1 <= data /\ data <= p /\ p <= last /\ start = 0 /\ nsize = 0
    BY <1>1 DEF ParserInv, Positions
  <2>2. Len(wire) \in Nat
    BY LenProperties DEF ParserInv, Connected, Piece
  <2>3. n \in Nat /\ n >= 1
    BY ParserConstants
  <2> QED BY <2>1, <2>2, <2>3
<1>4. Connected' /\ ClientOK' /\ ParserOK(parser')
  BY <1>1 DEF ParserInv, Connected, ClientOK
<1>5. last' \in Nat /\ last <= last' /\ last' <= Len(wire) + 1
  BY <1>1, <1>3
<1>6. Positions'
  BY <1>1, <1>2, <1>3, <1>5 DEF Positions
<1>7. Doing'
  BY <1>1, <1>2 DEF ParserInv, Doing, Control
<1>8. Counted'
  <2> SUFFICES ASSUME request.m_state = "in_progress", InHeader(parser), parser.http_errno = "HPE_OK"
               PROVE  last <= parser.nread + 1
    BY <1>1, <1>2 DEF Counted, InHeader
  <2> QED BY <1>1 DEF ParserInv, Counted
<1>9. Marks'
  <2>1. mark' = [kind \in Kinds |->
                    IF \/ kind = "header_field" /\ parser.state = "s_header_field"
                       \/ kind = "header_value" /\ parser.state = "s_header_value"
                       \/ kind = "status" /\ parser.state = "s_res_status"
                    THEN last ELSE 0]
    BY MarkKinds DEF OnRead
  <2>2. mark' \in [Kinds -> 0..last]
    BY <1>3, <2>1
  <2>3. \A kind \in Kinds : mark'[kind] # 0 => parser.state \in Marked(kind)
    BY <2>1 DEF Marked, Kinds
  <2> QED BY <1>1, <1>2, <2>2, <2>3 DEF Marks
<1> QED BY <1>4, <1>6, <1>7, <1>8, <1>9 DEF ParserInv

LEMMA AfterExecuteStep == ASSUME ParserInv, AfterExecute PROVE ParserInv'
<1>1. /\ pc = "returned" /\ nsize' = 0 /\ mark' = NoMarks
      /\ UNCHANGED <<connection, parser, p, start, request, upper, delivered, m_not_reusable>>
      /\ pc' \in {"done", "stopped", "read"}
  BY DEF AfterExecute
<1>2. Connected' /\ ClientOK' /\ ParserOK(parser')
  BY <1>1 DEF ParserInv, Connected, ClientOK, connection
<1>3. Positions'
  <2>1. start = 0 /\ Len(wire) \in Nat
    BY <1>1, LenProperties DEF ParserInv, Positions, Connected, Piece
  <2>2. UNCHANGED <<data, last, wire, p, start>>
    BY <1>1 DEF connection
  <2> QED BY <1>1, <2>1, <2>2 DEF ParserInv, Positions
<1>4. Doing'
  BY <1>1 DEF ParserInv, Doing, Control
<1>5. Counted'
  BY <1>1 DEF ParserInv, Counted, InHeader, connection
<1>6. Marks'
  <2>1. p' \in Nat
    BY <1>1 DEF ParserInv, Positions
  <2>2. NoMarks \in [Kinds -> {0}]
    BY DEF NoMarks, Kinds
  <2>3. mark' \in [Kinds -> 0..p']
    BY <1>1, <2>1, <2>2
  <2> QED BY <1>1, <2>3 DEF Marks
<1> QED BY <1>2, <1>3, <1>4, <1>5, <1>6 DEF ParserInv

LEMMA OnReadErrorStep == ASSUME ParserInv, OnReadError PROVE ParserInv'
<1>1. /\ pc = "read" /\ pc' = "stopped" /\ m_not_reusable' = TRUE
      /\ UNCHANGED <<connection, parser, p, start, mark, nsize, request, upper, delivered>>
  BY DEF OnReadError
<1>2. Connected' /\ ClientOK' /\ ParserOK(parser')
  BY <1>1 DEF ParserInv, Connected, ClientOK, connection
<1>3. Positions'
  BY <1>1 DEF ParserInv, Positions, connection
<1>4. Doing' /\ Counted'
  BY <1>1 DEF ParserInv, Doing, Control, Counted
<1>5. Marks'
  BY <1>1 DEF ParserInv, Marks
<1> QED BY <1>2, <1>3, <1>4, <1>5 DEF ParserInv

\* The bytes of a response.
LEMMA ResponseFacts ==
    ASSUME NEW r, IsResponse(r)
    PROVE  r.bytes \in Piece /\ r.head \in BOOLEAN
  BY DEF IsResponse, Piece

LEMMA NewRequestType ==
    ASSUME NEW head \in BOOLEAN
    PROVE  NewRequest(head) \in Request /\ NewRequest(head).m_state = "in_progress"
<1>1. <<>> \in Piece /\ <<>> \in Seq(Header)
  BY EmptySeq DEF Piece
<1>2. NoHeader \in Header
  BY <1>1 DEF NoHeader, Header
<1> QED BY <1>1, <1>2 DEF NewRequest, Request

LEMMA WriteHeadersStep == ASSUME ParserInv, WriteHeaders PROVE ParserInv'
<1>1. /\ pc = "done" /\ exchange < MaxExchanges /\ exchange' = exchange + 1
      /\ data' = 1 /\ last' = 1 /\ p' = 1 /\ upper' = Nothing /\ delivered' = NotDelivered
      /\ pc' = "read" /\ UNCHANGED <<parser, start, mark, nsize, m_not_reusable>>
  BY DEF WriteHeaders
<1>2. PICK r \in FollowUps :
          /\ response' = [r EXCEPT !.ok = @ /\ response.ok /\ response.surplus = 0]
          /\ wire' = SubSeq(wire, last, Len(wire)) \o r.bytes
          /\ request' = NewRequest(r.head)
  BY DEF WriteHeaders
<1>3. IsResponse(r)
  BY ParserConstants
<1>4. r.bytes \in Piece /\ r.head \in BOOLEAN
  BY <1>3, ResponseFacts
<1>5. IsResponse(response')
  <2> DEFINE b == r.ok /\ response.ok /\ response.surplus = 0
  <2>1. response' = [r EXCEPT !.ok = b] /\ b \in BOOLEAN
    BY <1>2
  <2> HIDE DEF b
  <2>2. /\ DOMAIN response' = DOMAIN r /\ response'.ok = b /\ response'.ends = r.ends
        /\ response'.head = r.head /\ response'.persistent = r.persistent
        /\ response'.bytes = r.bytes /\ response'.surplus = r.surplus
        /\ response'.declared = r.declared /\ response'.means = r.means
    BY <1>3, <2>1 DEF IsResponse
  <2> QED BY <1>3, <2>1, <2>2 DEF IsResponse
<1>6. wire' \in Piece
  <2>1. wire \in Piece /\ last \in Nat /\ last >= 1 /\ Len(wire) \in Nat
    <3>1. wire \in Piece /\ {data, p, last} \subseteq Nat /\ 1 <= data /\ data <= p /\ p <= last
      BY DEF ParserInv, Connected, Positions
    <3>2. Len(wire) \in Nat
      BY <3>1, LenProperties DEF Piece
    <3> QED BY <3>1, <3>2
  <2>2. SubSeq(wire, last, Len(wire)) \in Piece
    BY <2>1, PieceOf
  <2> QED BY <1>2, <1>4, <2>2, ConcatProperties DEF Piece
<1>7. Connected'
  <2>1. exchange' \in 1..MaxExchanges
    BY <1>1, ParserConstants DEF ParserInv, Connected
  <2> QED BY <1>5, <1>6, <2>1 DEF Connected
<1>8. ClientOK' /\ request'.m_state = "in_progress"
  BY <1>1, <1>2, <1>4, NewRequestType, NothingType DEF ParserInv, ClientOK
<1>9. ParserOK(parser') /\ Doing'
  BY <1>1 DEF ParserInv, Doing, Control
<1>10. Positions'
  <2>1. start = 0 /\ nsize = 0
    BY <1>1 DEF ParserInv, Positions
  <2>2. Len(wire') \in Nat
    BY <1>6, LenProperties DEF Piece
  <2> QED BY <1>1, <2>1, <2>2 DEF Positions
<1>11. Counted'
  <2>1. parser.nread \in Nat
    BY FieldTypes DEF ParserInv, ParserOK
  <2> QED BY <1>1, <2>1 DEF Counted
<1>12. Marks'
  <2>1. mark = NoMarks /\ NoMarks \in [Kinds -> {0}]
    BY <1>1 DEF ParserInv, Marks, NoMarks, Kinds
  <2>2. mark' \in [Kinds -> 0..p']
    BY <1>1, <2>1
  <2> QED BY <1>1, <2>1, <2>2 DEF Marks
<1> QED BY <1>7, <1>8, <1>9, <1>10, <1>11, <1>12 DEF ParserInv

-----------------------------------------------------------------------------
(* The theorems.                                                            *)

LEMMA InitParserInv == Init => ParserInv
<1> SUFFICES ASSUME Init PROVE ParserInv
  OBVIOUS
<1>1. /\ response \in Responses /\ exchange = 1 /\ wire = response.bytes
      /\ parser = NewParser /\ data = 1 /\ last = 1 /\ p = 1 /\ start = 0
      /\ mark = NoMarks /\ nsize = 0 /\ pc = "read"
      /\ request = NewRequest(response.head) /\ upper = Nothing
      /\ delivered = NotDelivered /\ m_not_reusable = FALSE
  BY DEF Init
<1>2. IsResponse(response)
  BY <1>1, ParserConstants
<1>3. response.bytes \in Piece /\ response.head \in BOOLEAN
  BY <1>2, ResponseFacts
<1>4. Connected
  <2>1. exchange \in 1..MaxExchanges
    BY <1>1, ParserConstants
  <2> QED BY <1>1, <1>2, <1>3, <2>1 DEF Connected
<1>5. /\ parser.state = "s_start_res" /\ parser.header_state = "h_general"
      /\ parser.index = 0 /\ parser.nread = 0 /\ parser.status_code = 0
      /\ parser.http_errno = "HPE_OK"
  BY <1>1 DEF NewParser
<1>6. parser \in http_parser
  <2>1. 0 \in 0..ULLONG_MAX /\ 0 \in 0..9 /\ 0 \in 0..127 /\ 0 \in 0..9999 /\ 0 \in Nat
    BY ParserConstants
  <2>2. /\ "s_start_res" \in ResponseLineStates \cup HeaderStates \cup BodyStates
        /\ "h_general" \in header_states /\ "HPE_OK" \in http_errno
        /\ {} \in SUBSET Flag /\ FALSE \in BOOLEAN
    BY DEF ResponseLineStates, header_states, http_errno
  <2> QED BY <1>1, <2>1, <2>2 DEF NewParser, http_parser
<1>7. ParserOK(parser)
  <2>1. 0 <= IndexBound(parser.header_state) /\ 0 <= HTTP_MAX_HEADER_SIZE
    BY <1>5, ParserConstants DEF IndexBound
  <2> QED BY <1>5, <1>6, <2>1 DEF ParserOK, ChunkStates
<1>8. Positions
  <2>1. Len(wire) \in Nat
    BY <1>4, LenProperties DEF Connected, Piece
  <2> QED BY <1>1, <2>1 DEF Positions
<1>9. Doing
  BY <1>1, <1>5 DEF Doing, Control
<1>10. Counted
  BY <1>1, <1>5 DEF Counted
<1>11. Marks
  <2>1. NoMarks \in [Kinds -> {0}]
    BY DEF NoMarks, Kinds
  <2>2. mark \in [Kinds -> 0..p]
    BY <1>1, <2>1
  <2> QED BY <1>1, <2>2 DEF Marks
<1>12. ClientOK
  BY <1>1, <1>3, NewRequestType, NothingType DEF ClientOK
<1> QED BY <1>4, <1>7, <1>8, <1>9, <1>10, <1>11, <1>12 DEF ParserInv

LEMMA NextParserInv == ParserInv /\ [Next]_vars => ParserInv'
<1> SUFFICES ASSUME ParserInv, [Next]_vars PROVE ParserInv'
  OBVIOUS
<1>1. CASE http_parser_execute
  <2>1. UNCHANGED connection
    BY <1>1 DEF http_parser_execute
  <2>2. CASE \/ Dead \/ StartRes \/ Protocol \/ Version \/ FirstStatusCode
             \/ StatusCode \/ StatusStart \/ Status \/ LineAlmostDone
    BY <2>1, <2>2, DeadStep, StartResStep, ProtocolStep, VersionStep,
       FirstStatusCodeStep, StatusCodeStep, StatusStartStep, StatusStep,
       LineAlmostDoneStep
  <2>3. CASE \/ HeaderFieldStart \/ HeaderField \/ HeaderValueDiscardWs
             \/ HeaderValueStart \/ HeaderValueByte \/ HeaderValueEnd
             \/ HeaderAlmostDone \/ HeaderValueLws \/ DiscardWsAlmostDone
             \/ HeaderValueDiscardLws
    BY <2>1, <2>3, HeaderFieldStartStep, HeaderFieldStep, HeaderValueDiscardWsStep,
       HeaderValueStartStep, HeaderValueByteStep, HeaderValueEndStep,
       HeaderAlmostDoneStep, HeaderValueLwsStep, DiscardWsAlmostDoneStep,
       HeaderValueDiscardLwsStep
  <2>4. CASE \/ HeadersAlmostDone \/ HeadersDone \/ MessageDone \/ BodyIdentity
             \/ BodyIdentityEof
    BY <2>1, <2>4, HeadersAlmostDoneStep, HeadersDoneStep, MessageDoneStep,
       BodyIdentityStep, BodyIdentityEofStep
  <2>5. CASE \/ ChunkSizeStart \/ ChunkSize \/ ChunkParameters
             \/ ChunkSizeAlmostDone \/ ChunkData \/ ChunkDataAlmostDone
             \/ ChunkDataDone
    BY <2>1, <2>5, ChunkSizeStartStep, ChunkSizeStep, ChunkParametersStep,
       ChunkSizeAlmostDoneStep, ChunkDataStep, ChunkDataAlmostDoneStep,
       ChunkDataDoneStep
  <2>6. CASE NextByte \/ EndOfBuffer
    BY <2>1, <2>6, NextByteStep, EndOfBufferStep
  <2> QED BY <1>1, <2>2, <2>3, <2>4, <2>5, <2>6 DEF http_parser_execute
<1>2. CASE AfterExecute
  BY <1>2, AfterExecuteStep
<1>3. CASE Network
  BY <1>3, OnReadStep, OnReadErrorStep DEF Network
<1>4. CASE WriteHeaders
  BY <1>4, WriteHeadersStep
<1>5. CASE UNCHANGED vars
  <2>1. /\ UNCHANGED <<response, exchange, wire, data, last>>
        /\ UNCHANGED <<parser, p, start, nsize, pc>>
        /\ UNCHANGED <<mark, request, upper, delivered, m_not_reusable>>
    BY <1>5 DEF vars, connection, callbacks
  <2>2. Connected' /\ ParserOK(parser)' /\ Positions' /\ Doing'
    BY <2>1 DEF ParserInv, Connected, ParserOK, Positions, Doing, ch
  <2>3. Counted' /\ Marks' /\ ClientOK'
    BY <2>1 DEF ParserInv, Counted, Passed, Marks, ClientOK
  <2> QED BY <2>2, <2>3 DEF ParserInv
<1> QED BY <1>1, <1>2, <1>3, <1>4, <1>5 DEF Next

\* Whatever the server sends, and however the network cuts it into reads, the
\* fields of http_parser and the positions, marks and counts of
\* http_parser_execute keep the relations of ParserInv, from one buffer to the
\* next and from one response to the next on a connection.
THEOREM ParserInvariant == Spec => []ParserInv
  BY InitParserInv, NextParserInv, PTL DEF Spec

\* Every variable keeps its type: the parser never stands outside of the buffer
\* it was given, no mark is ahead of it, and no status above 999 goes on.
THEOREM ParserTypeCorrect == Spec => []TypeOK
<1>1. ParserInv => TypeOK
  <2> SUFFICES ASSUME ParserInv PROVE TypeOK
    OBVIOUS
  <2>1. IsResponse(response) /\ exchange \in 1..MaxExchanges /\ wire \in Piece
    BY DEF ParserInv, Connected
  <2>2. /\ parser \in http_parser
        /\ parser.status_code > 999 => parser.http_errno = "HPE_INVALID_STATUS"
    BY DEF ParserInv, ParserOK
  <2>3. Len(wire) \in Nat
    BY <2>1, LenProperties DEF Piece
  <2>4. /\ 1 <= data /\ data <= p + 1 /\ p <= last /\ last <= Len(wire) + 1
        /\ start \in 0..p /\ nsize \in 0..Len(wire)
    BY <2>3 DEF ParserInv, Positions
  <2>5. mark \in [DOMAIN NoMarks -> 0..p]
    <3>1. DOMAIN NoMarks = Kinds
      BY DEF NoMarks, Kinds
    <3> QED BY <3>1 DEF ParserInv, Marks
  <2>6. pc \in Control
    BY DEF ParserInv, Doing
  <2>7. /\ request \in [head : BOOLEAN, m_current_header : Header,
                        headers : Seq(Header), m_state : {"in_progress", "done"}]
        /\ upper \in Passed_up /\ delivered \in Passed_up /\ m_not_reusable \in BOOLEAN
    BY DEF ParserInv, ClientOK, Request
  <2> QED BY <2>1, <2>2, <2>4, <2>5, <2>6, <2>7 DEF TypeOK
<1> QED BY <1>1, ParserInvariant, PTL

\* The assertions of http_parser_execute hold for every input, well formed or
\* not: an error ends the call, the header state of a value, nread and
\* content_length are what each state expects, and at most one mark is left for
\* the callback at the end of a buffer.
THEOREM AssertionsCorrect == Spec => []AssertionsHold
<1>1. ParserInv => AssertionsHold
  <2> SUFFICES ASSUME ParserInv PROVE AssertionsHold
    OBVIOUS
  <2>1. parser.http_errno # "HPE_OK" => pc \in {"returned", "read", "done", "stopped"}
    BY DEF ParserInv, Doing, Control
  <2>2. At("s_header_value") =>
            parser.header_state \notin {"h_connection", "h_transfer_encoding"}
    BY DEF ParserInv, ParserOK, At
  <2>3. At("s_chunk_size_start") => parser.nread = 1
    BY DEF ParserInv, Doing, At
  <2>4. /\ parser.state \in ChunkStates => "F_CHUNKED" \in parser.flags
        /\ parser.state \in {"s_body_identity", "s_chunk_data"}
              => parser.content_length \notin {0, ULLONG_MAX}
        /\ parser.state = "s_chunk_data_almost_done" => parser.content_length = 0
    BY DEF ParserInv, ParserOK
  <2>5. ASSUME pc = "loop"
        PROVE  Cardinality({kind \in DOMAIN mark : mark[kind] # 0}) <= 1
    <3> DEFINE M == {kind \in DOMAIN mark : mark[kind] # 0}
    <3>1. DOMAIN mark = Kinds
      BY DEF ParserInv, Marks
    <3>2. \A kind \in M : kind \in Kinds /\ parser.state \in Marked(kind)
      BY <2>5, <3>1 DEF ParserInv, Marks
    <3>3. \A j, k \in Kinds : j # k => Marked(j) \cap Marked(k) = {}
      BY DEF Kinds, Marked
    <3> HIDE DEF M
    <3>4. M = {} \/ \E kind : M = {kind}
      BY <3>2, <3>3
    <3>5. Cardinality(M) <= 1
      <4>1. CASE M = {}
        BY <4>1, FS_EmptySet
      <4>2. CASE \E kind : M = {kind}
        BY <4>2, FS_Singleton
      <4> QED BY <3>4, <4>1, <4>2
    <3> QED BY <3>5 DEF M
  <2> QED BY <2>1, <2>2, <2>3, <2>4, <2>5 DEF AssertionsHold, ChunkStates
<1> QED BY <1>1, ParserInvariant, PTL

\* A header is passed up only if its last byte is within the first
\* HTTP_MAX_HEADER_SIZE bytes of the response, although the parser counts some
\* bytes one by one and others in a run, and a header may come in many reads:
\* nread misses none of them.
THEOREM HeaderBoundCorrect == Spec => []HeaderBounded
<1>1. ParserInv => HeaderBounded
  <2> SUFFICES ASSUME ParserInv, parser.state = "s_headers_done",
                      request.m_state = "in_progress"
               PROVE  p <= HTTP_MAX_HEADER_SIZE
    BY DEF HeaderBounded
  <2>1. pc = "switch" /\ "F_TRAILING" \notin parser.flags /\ parser.http_errno = "HPE_OK"
    BY DEF ParserInv, Doing
  <2>2. start = 0 /\ p \in Nat
    BY DEF ParserInv, Positions
  <2>3. InHeader(parser)
    BY <2>1 DEF InHeader, HeaderStates, ChunkStates
  <2>4. p <= parser.nread + 0
    BY <2>1, <2>2, <2>3 DEF ParserInv, Counted, Passed
  <2>5. parser.nread \in Nat /\ parser.nread <= HTTP_MAX_HEADER_SIZE
    BY FieldTypes DEF ParserInv, ParserOK
  <2> QED BY <2>2, <2>4, <2>5, ParserConstants
<1> QED BY <1>1, ParserInvariant, PTL

(***************************************************************************)
(* The lengths, digit by digit.                                             *)
(***************************************************************************)

\* A step that changes the length while it is read appends one digit to it.
LengthRead ==
    /\ parser.state = "s_header_value" /\ parser'.content_length # parser.content_length =>
           /\ IS_NUM(ch)
           /\ parser'.content_length = parser.content_length * 10 + unhex(ch)
           /\ parser'.content_length < ULLONG_MAX
    /\ parser.state = "s_chunk_size" /\ parser'.content_length # parser.content_length =>
           /\ IsHex(ch)
           /\ parser'.content_length = parser.content_length * 16 + unhex(ch)
           /\ parser'.content_length < ULLONG_MAX

LEMMA SameLength ==
    ASSUME parser'.content_length = parser.content_length PROVE LengthRead
  BY DEF LengthRead

\* The only cases of the switch that run in these two states.
LEMMA LengthActions ==
    ASSUME http_parser_execute, parser.state \in {"s_header_value", "s_chunk_size"}
    PROVE  NextByte \/ EndOfBuffer \/ HeaderValueByte \/ HeaderValueEnd \/ ChunkSize
<1> DEFINE elsewhere == parser.state \notin {"s_header_value", "s_chunk_size"}
<1>1. Dead \/ StartRes \/ FirstStatusCode \/ StatusCode \/ StatusStart \/ Status => elsewhere
  BY DEF At, Dead, StartRes, FirstStatusCode, StatusCode, StatusStart, Status
<1>2. Protocol \/ Version \/ LineAlmostDone => elsewhere
  BY DEF At, Protocol, Version, LineAlmostDone
<1>3. \/ HeaderFieldStart \/ HeaderField \/ HeaderValueDiscardWs \/ HeaderValueStart
      => elsewhere
  BY DEF At, HeaderFieldStart, HeaderField, HeaderValueDiscardWs, HeaderValueStart
<1>4. \/ HeaderAlmostDone \/ HeaderValueLws \/ DiscardWsAlmostDone \/ HeaderValueDiscardLws
      => elsewhere
  BY DEF At, HeaderAlmostDone, HeaderValueLws, DiscardWsAlmostDone, HeaderValueDiscardLws
<1>5. HeadersAlmostDone \/ HeadersDone \/ MessageDone \/ BodyIdentity \/ BodyIdentityEof
      => elsewhere
  BY DEF At, HeadersAlmostDone, HeadersDone, MessageDone, BodyIdentity, BodyIdentityEof
<1>6. \/ ChunkSizeStart \/ ChunkParameters \/ ChunkSizeAlmostDone \/ ChunkData
      \/ ChunkDataAlmostDone \/ ChunkDataDone
      => elsewhere
  BY DEF At, ChunkSizeStart, ChunkParameters, ChunkSizeAlmostDone, ChunkData,
         ChunkDataAlmostDone, ChunkDataDone
<1> QED BY <1>1, <1>2, <1>3, <1>4, <1>5, <1>6 DEF http_parser_execute

LEMMA LengthKept ==
    ASSUME parser \in http_parser, NEW par,
           par.content_length = parser.content_length, par \in http_parser
    PROVE  /\ \A errno : Fail(errno) => parser'.content_length = parser.content_length
           /\ \A q, where : LeaveLoop(par, q, where) =>
                  parser'.content_length = parser.content_length
           /\ \A q : Loop(par, q) => parser'.content_length = parser.content_length
           /\ Break(par) => parser'.content_length = parser.content_length
<1>1. ASSUME NEW errno, Fail(errno) PROVE parser'.content_length = parser.content_length
  BY <1>1 DEF Fail, FailWith, http_parser
<1>2. ASSUME NEW q, NEW where, LeaveLoop(par, q, where)
      PROVE  parser'.content_length = parser.content_length
  <2>1. CASE Fail("HPE_HEADER_OVERFLOW")
    BY <1>1, <2>1
  <2>2. CASE parser' = [par EXCEPT !.nread = @ + Passed]
    BY <2>2 DEF http_parser
  <2> QED BY <1>2, <2>1, <2>2 DEF LeaveLoop
<1>3. ASSUME NEW q, Loop(par, q) PROVE parser'.content_length = parser.content_length
  BY <1>3 DEF Loop
<1>4. ASSUME Break(par) PROVE parser'.content_length = parser.content_length
  BY <1>4 DEF Break
<1> QED BY <1>1, <1>2, <1>3, <1>4

LEMMA MatchWordLength ==
    ASSUME NEW par \in http_parser, NEW word, NEW c, NEW hit, NEW miss
    PROVE  MatchWord(par, word, c, hit, miss).content_length = par.content_length
<1> DEFINE i == par.index + 1
           h == CASE i >= Len(word) \/ c # word[i + 1] -> miss
                  [] i = Len(word) - 1 -> hit
                  [] OTHER -> par.header_state
           q == [par EXCEPT !.index = i]
<1>1. MatchWord(par, word, c, hit, miss) = [q EXCEPT !.header_state = h]
  BY DEF MatchWord, http_parser
<1> HIDE DEF h, i
<1>2. [q EXCEPT !.header_state = h].content_length = par.content_length
  BY DEF http_parser
<1> QED BY <1>1, <1>2

LEMMA MatchValueLength ==
    ASSUME NEW par \in http_parser
    PROVE  MatchValue(par).content_length = par.content_length
<1> DEFINE h == par.header_state
           c == LOWER(ch)
           General(next) == [par EXCEPT !.header_state = next]
           Start(f) == [par EXCEPT !.flags = f, !.index = 0,
                                   !.header_state = "h_matching_connection_token_start"]
           Restart == [par EXCEPT !.index = 0, !.header_state = "h_matching_connection_token_start"]
<1>1. \A x : General(x).content_length = par.content_length
  BY DEF http_parser
<1>2. \A word, hit, miss : MatchWord(par, word, c, hit, miss).content_length = par.content_length
  BY MatchWordLength
<1>3. Restart.content_length = par.content_length
  BY DEF http_parser
<1>4. \A f : Start(f).content_length = par.content_length
  BY DEF http_parser
<1> HIDE DEF c, General, Start, Restart
<1>5. CASE h = "h_matching_transfer_encoding_chunked"
  <2>1. MatchValue(par) = MatchWord(par, CHUNKED, c, "h_transfer_encoding_chunked", "h_general")
    BY <1>5, FlagsOf DEF MatchValue, c
  <2> QED BY <1>2, <2>1
<1>6. CASE h = "h_matching_connection_token_start"
  <2>1. \E k : MatchValue(par) = General(k)
    BY <1>6, FlagsOf DEF MatchValue, General
  <2> QED BY <1>1, <2>1
<1>7. CASE h \in {"h_matching_connection_keep_alive", "h_matching_connection_close",
                  "h_matching_connection_upgrade"}
  <2>1. \/ MatchValue(par) = MatchWord(par, KEEP_ALIVE, c, "h_connection_keep_alive",
                                       "h_matching_connection_token")
        \/ MatchValue(par) = MatchWord(par, CLOSE, c, "h_connection_close",
                                       "h_matching_connection_token")
        \/ MatchValue(par) = MatchWord(par, UPGRADE, c, "h_connection_upgrade",
                                       "h_matching_connection_token")
    BY <1>7, FlagsOf DEF MatchValue, c
  <2> QED BY <1>2, <2>1
<1>8. CASE h = "h_matching_connection_token"
  <2>1. MatchValue(par) = par \/ MatchValue(par) = Restart
    BY <1>8, FlagsOf DEF MatchValue, Restart
  <2> QED BY <1>3, <2>1
<1>9. CASE h = "h_transfer_encoding_chunked"
  <2>1. MatchValue(par) = par \/ MatchValue(par) = General("h_general")
    BY <1>9, FlagsOf DEF MatchValue, General
  <2> QED BY <1>1, <2>1
<1>10. CASE h \in DOMAIN FlagOf \ {"h_transfer_encoding_chunked"}
  <2>1. h \in {"h_connection_keep_alive", "h_connection_close", "h_connection_upgrade"}
    BY <1>10, FlagsOf
  <2>2. \/ MatchValue(par) = par \/ MatchValue(par) = General("h_matching_connection_token")
        \/ MatchValue(par) = Start(par.flags \cup {FlagOf[h]})
    BY <1>10, <2>1 DEF MatchValue, General, Start
  <2> QED BY <1>1, <1>4, <2>2
<1>11. CASE h \notin DOMAIN FlagOf \cup
                {"h_matching_transfer_encoding_chunked", "h_matching_connection_token_start",
                 "h_matching_connection_keep_alive", "h_matching_connection_close",
                 "h_matching_connection_upgrade", "h_matching_connection_token"}
  <2>1. MatchValue(par) = General("h_general")
    BY <1>11, FlagsOf DEF MatchValue, General
  <2> QED BY <1>1, <2>1
<1> QED BY <1>5, <1>6, <1>7, <1>8, <1>9, <1>10, <1>11, FlagsOf

LEMMA ValueByteLength ==
    ASSUME ParserInv, HeaderValueByte PROVE LengthRead
<1>1. pc = "switch" /\ parser.state = "s_header_value"
  BY DEF HeaderValueByte, At
<1>2. parser \in http_parser /\ ParserOK(parser) /\ parser.content_length \in 0..ULLONG_MAX
  BY <1>1, SwitchFacts, FieldTypes
<1>3. CASE MoreLength
  <2> DEFINE t == (parser.content_length * 10 + unhex(ch)) % (ULLONG_MAX + 1)
  <2>1. CASE Loop(parser, p + 1) \/ Fail("HPE_INVALID_CONTENT_LENGTH")
    BY <1>2, <2>1, LengthKept, SameLength
  <2>2. CASE /\ IS_NUM(ch) /\ ~LengthOverflows(parser.content_length)
             /\ Loop([parser EXCEPT !.content_length = t], p + 1)
    <3>1. parser.content_length \in Nat /\ unhex(ch) \in 0..(10 - 1)
      BY <1>2, <2>2, Numerals, ParserConstants
    <3>2. ~((ULLONG_MAX - 10) \div 10 < parser.content_length)
      BY <2>2 DEF LengthOverflows
    <3>3. t \in 0..ULLONG_MAX /\ t # ULLONG_MAX /\ t = parser.content_length * 10 + unhex(ch)
      BY <3>1, <3>2, DigitFits
    <3> HIDE DEF t
    <3>4. parser'.content_length = t
      BY <1>2, <2>2 DEF Loop, http_parser
    <3>5. t < ULLONG_MAX
      BY <3>3, ParserConstants
    <3> QED BY <1>1, <2>2, <3>3, <3>4, <3>5 DEF LengthRead
  <2> HIDE DEF t
  <2> QED BY <1>3, <2>1, <2>2 DEF MoreLength, t
<1>4. CASE Loop(MatchValue(parser), p + 1)
  <2>1. MatchValue(parser) \in http_parser
    BY <1>1, <1>2, MatchValueOK DEF Further, ParserOK
  <2> QED BY <1>2, <1>4, <2>1, MatchValueLength, LengthKept, SameLength
<1>5. CASE Loop(parser, EndOfValue) \/ Fail("HPE_INVALID_HEADER_TOKEN")
  BY <1>2, <1>5, LengthKept, SameLength
<1> QED BY <1>3, <1>4, <1>5 DEF HeaderValueByte

LEMMA ChunkSizeLength ==
    ASSUME ParserInv, ChunkSize PROVE LengthRead
<1> DEFINE t == (parser.content_length * 16 + unhex(ch)) % (ULLONG_MAX + 1)
           q == [parser EXCEPT !.content_length = t]
<1>1. pc = "switch" /\ parser.state = "s_chunk_size"
  BY DEF ChunkSize, At
<1>2. parser \in http_parser /\ parser.content_length \in 0..ULLONG_MAX
  BY <1>1, SwitchFacts, FieldTypes
<1>3. CASE Break(To("s_chunk_size_almost_done")) \/ Break(To("s_chunk_parameters"))
  <2>1. {"s_chunk_size_almost_done", "s_chunk_parameters"} \subseteq States
    BY DEF States, HeaderStates
  <2> QED BY <1>2, <1>3, <2>1, ToFields, LengthKept, SameLength
<1>4. CASE Fail("HPE_INVALID_CHUNK_SIZE") \/ Fail("HPE_INVALID_CONTENT_LENGTH")
  BY <1>2, <1>4, LengthKept, SameLength
<1>5. CASE /\ IsHex(ch) /\ ~((ULLONG_MAX - 16) \div 16 < parser.content_length)
           /\ Break(q)
  <2>1. parser.content_length \in Nat /\ unhex(ch) \in 0..(16 - 1)
    BY <1>2, <1>5, Numerals, ParserConstants
  <2>2. t \in 0..ULLONG_MAX /\ t # ULLONG_MAX /\ t = parser.content_length * 16 + unhex(ch)
    BY <1>5, <2>1, DigitFits
  <2> HIDE DEF t
  <2>3. parser'.content_length = t
    BY <1>2, <1>5 DEF Break, http_parser
  <2>4. t < ULLONG_MAX
    BY <2>2, ParserConstants
  <2> QED BY <1>1, <1>5, <2>2, <2>3, <2>4 DEF LengthRead
<1> HIDE DEF q
<1> QED BY <1>3, <1>4, <1>5 DEF ChunkSize, q

\* A Content-Length or a chunk size is read without an overflow, for every width
\* of content_length: each step that changes it appends exactly the digit at p,
\* although the code computes modulo 2^64 and tests before it adds, and the sum
\* never is ULLONG_MAX, which would read as "no length".
THEOREM LengthsDoNotWrap == Spec => [][LengthRead]_vars
<1>1. ASSUME ParserInv, [Next]_vars PROVE [LengthRead]_vars
  <2>1. CASE parser.state \notin {"s_header_value", "s_chunk_size"}
    BY <2>1 DEF LengthRead
  <2>2. CASE parser.state \in {"s_header_value", "s_chunk_size"} /\ http_parser_execute
    <3>1. parser \in http_parser
      BY <1>1 DEF ParserInv, ParserOK
    <3>2. NextByte \/ EndOfBuffer \/ HeaderValueByte \/ HeaderValueEnd \/ ChunkSize
      BY <2>2, LengthActions
    <3>3. CASE NextByte
      <4>1. CASE Fail("HPE_HEADER_OVERFLOW")
        BY <3>1, <4>1, LengthKept, SameLength
      <4>2. CASE \E n : parser' = [parser EXCEPT !.nread = @ + n]
        <5>1. parser'.content_length = parser.content_length
          BY <3>1, <4>2 DEF http_parser
        <5> QED BY <5>1, SameLength
      <4> QED BY <3>3, <4>1, <4>2 DEF NextByte
    <3>4. CASE EndOfBuffer
      BY <3>4, SameLength DEF EndOfBuffer
    <3>5. CASE HeaderValueEnd
      <4>1. "s_header_almost_done" \in States
        BY DEF States, HeaderStates
      <4>2. PICK par, q, where : /\ par \in {parser, To("s_header_almost_done")}
                                 /\ LeaveLoop(par, q, where)
        BY <3>5 DEF HeaderValueEnd
      <4>3. par \in http_parser /\ par.content_length = parser.content_length
        <5>1. To("s_header_almost_done") \in http_parser
              /\ To("s_header_almost_done").content_length = parser.content_length
          BY <3>1, <4>1, ToFields
        <5> QED BY <3>1, <4>2, <5>1
      <4> QED BY <3>1, <4>2, <4>3, LengthKept, SameLength
    <3> QED BY <1>1, <3>2, <3>3, <3>4, <3>5, ValueByteLength, ChunkSizeLength
  <2>3. CASE AfterExecute \/ Network \/ WriteHeaders \/ UNCHANGED vars
    <3>1. UNCHANGED parser
      BY <2>3 DEF AfterExecute, Network, OnReadError, OnRead, WriteHeaders, vars
    <3> QED BY <3>1, SameLength
  <2> QED BY <1>1, <2>1, <2>2, <2>3 DEF Next
<1> QED BY <1>1, ParserInvariant, PTL DEF Spec

(***************************************************************************)
(* Fields and values in pieces.                                             *)
(***************************************************************************)

LEMMA PiecesJoin ==
    ASSUME NEW s \in Piece, NEW a \in Piece, NEW b \in Piece
    PROVE  (s \o a) \o b = s \o (a \o b) /\ s \o a \in Piece
<1>1. (s \o a) \o b = s \o (a \o b)
  BY ConcatAssociative DEF Piece
<1> QED BY <1>1, ConcatProperties DEF Piece

\* A request with another field, or another value, of its current header.
WithFirst(r, x) == [r EXCEPT !.m_current_header.first = x]
WithSecond(r, x) == [r EXCEPT !.m_current_header.second = x]

LEMMA Overwritten ==
    ASSUME NEW r \in Request, NEW x, NEW y
    PROVE  /\ WithFirst(r, x).m_current_header.first = x
           /\ WithFirst(r, x).m_current_header.second = r.m_current_header.second
           /\ WithSecond(r, x).m_current_header.second = x
           /\ WithFirst(WithFirst(r, x), y) = WithFirst(r, y)
           /\ WithSecond(WithSecond(r, x), y) = WithSecond(r, y)
<1>1. r.m_current_header \in Header
  BY SetRequest
<1>2. /\ WithFirst(r, x).m_current_header.first = x
      /\ WithFirst(r, x).m_current_header.second = r.m_current_header.second
      /\ WithSecond(r, x).m_current_header.second = x
  BY <1>1 DEF WithFirst, WithSecond, Request, Header
<1>3. WithFirst(WithFirst(r, x), y) = WithFirst(r, y)
  BY <1>1 DEF WithFirst, Request, Header
<1>4. WithSecond(WithSecond(r, x), y) = WithSecond(r, y)
  BY <1>1 DEF WithSecond, Request, Header
<1> QED BY <1>2, <1>3, <1>4

\* What the two callbacks do to the current header.
AddFirst(r, x) == WithFirst(r, r.m_current_header.first \o x)
AddSecond(r, x) == WithSecond(r, r.m_current_header.second \o x)

LEMMA Added ==
    \A r, x : /\ [r EXCEPT !.m_current_header.first = @ \o x] = AddFirst(r, x)
              /\ [r EXCEPT !.m_current_header.second = @ \o x] = AddSecond(r, x)
  BY DEF AddFirst, AddSecond, WithFirst, WithSecond

LEMMA Extended ==
    ASSUME NEW r \in Request, NEW a \in Piece, NEW b \in Piece
    PROVE  /\ AddFirst(AddFirst(r, a), b) = AddFirst(r, a \o b)
           /\ AddSecond(AddSecond(r, a), b) = AddSecond(r, a \o b)
           /\ AddFirst(r, a).m_current_header.second = r.m_current_header.second
<1>1. PICK f \in Piece : f = r.m_current_header.first
  BY SetRequest
<1>2. PICK s \in Piece : s = r.m_current_header.second
  BY SetRequest
<1>3. (f \o a) \o b = f \o (a \o b) /\ (s \o a) \o b = s \o (a \o b)
  <2>1. (f \o a) \o b = f \o (a \o b)
    BY PiecesJoin
  <2>2. (s \o a) \o b = s \o (a \o b)
    BY PiecesJoin
  <2> QED BY <2>1, <2>2
<1>4. PICK u, v : u = f \o a /\ v = s \o a
  OBVIOUS
<1>5. AddFirst(r, a) = WithFirst(r, u) /\ AddSecond(r, a) = WithSecond(r, v)
  BY <1>1, <1>2, <1>4 DEF AddFirst, AddSecond
<1>6. AddFirst(AddFirst(r, a), b) = WithFirst(WithFirst(r, u), u \o b)
  BY <1>5, Overwritten DEF AddFirst
<1>7. AddSecond(AddSecond(r, a), b) = WithSecond(WithSecond(r, v), v \o b)
  BY <1>5, Overwritten DEF AddSecond
<1>8. u \o b = f \o (a \o b) /\ v \o b = s \o (a \o b)
  BY <1>3, <1>4
<1>9. PICK m, n : m = u \o b /\ n = v \o b
  OBVIOUS
<1>10. AddFirst(AddFirst(r, a), b) = WithFirst(r, m) /\ AddSecond(AddSecond(r, a), b) = WithSecond(r, n)
  BY <1>6, <1>7, <1>9, Overwritten
<1>11. AddFirst(r, a \o b) = WithFirst(r, m) /\ AddSecond(r, a \o b) = WithSecond(r, n)
  BY <1>1, <1>2, <1>8, <1>9 DEF AddFirst, AddSecond
<1>12. AddFirst(r, a).m_current_header.second = r.m_current_header.second
  BY <1>5, Overwritten
<1> QED BY <1>10, <1>11, <1>12

LEMMA Pushed ==
    ASSUME NEW r \in Request
    PROVE  PushCurrentHeader(r).m_current_header.second = <<>>
  BY DEF PushCurrentHeader, NoHeader, Request

\* A header field that a read cuts in two comes to on_header_field in two pieces,
\* and leaves what the whole would have left: the first piece ends the header
\* before it, the second never does.
THEOREM FieldCuts ==
    ASSUME NEW r \in Request, NEW a \in Piece, NEW b \in Piece
    PROVE  OnHeaderField(OnHeaderField(r, a), b) = OnHeaderField(r, a \o b)
<1> DEFINE q == IF r.m_current_header.second # <<>> THEN PushCurrentHeader(r) ELSE r
<1>1. q \in Request /\ q.m_current_header.second = <<>>
  BY PushType, Pushed
<1>2. \A x : OnHeaderField(r, x) = AddFirst(q, x)
  BY Added DEF OnHeaderField
<1> HIDE DEF q
<1>3. OnHeaderField(r, a).m_current_header.second = <<>>
  BY <1>1, <1>2, Extended
<1>4. OnHeaderField(OnHeaderField(r, a), b) = AddFirst(OnHeaderField(r, a), b)
  BY <1>3, Added DEF OnHeaderField
<1> QED BY <1>1, <1>2, <1>4, Extended

\* The same for a value, once it has a character: on_header_value takes a value
\* that is empty so far for an empty header and ends it, so that the rest of the
\* value would begin a header without a name.
THEOREM ValueCuts ==
    ASSUME NEW r \in Request, NEW a \in Piece, NEW b \in Piece,
           r.m_current_header.second # <<>> \/ a # <<>>
    PROVE  OnHeaderValue(OnHeaderValue(r, a), b) = OnHeaderValue(r, a \o b)
<1>1. PICK s \in Piece : s = r.m_current_header.second
  BY SetRequest
<1>2. s \o a # <<>> /\ (s \o a) \o b # <<>>
  <2>1. /\ Len(s) \in Nat /\ Len(a) \in Nat /\ Len(b) \in Nat
        /\ s # <<>> => Len(s) # 0
        /\ a # <<>> => Len(a) # 0
    BY LenProperties, EmptySeq DEF Piece
  <2>2. Len(s) + Len(a) # 0 /\ (Len(s) + Len(a)) + Len(b) # 0
    BY <1>1, <2>1
  <2>3. /\ s \o a \in Piece /\ Len(s \o a) = Len(s) + Len(a)
        /\ Len((s \o a) \o b) = (Len(s) + Len(a)) + Len(b)
    BY ConcatProperties DEF Piece
  <2>4. Len(<<>>) = 0
    BY EmptySeq
  <2> QED BY <2>2, <2>3, <2>4
<1>3. PICK u, v : u = s \o a /\ v = s \o (a \o b)
  OBVIOUS
<1>4. u # <<>> /\ v # <<>>
  <2>1. (s \o a) \o b = s \o (a \o b)
    BY PiecesJoin
  <2> QED BY <1>2, <1>3, <2>1
<1>5. AddSecond(r, a) = WithSecond(r, u) /\ AddSecond(r, a \o b) = WithSecond(r, v)
  BY <1>1, <1>3 DEF AddSecond
<1>6. /\ AddSecond(r, a).m_current_header.second # <<>>
      /\ AddSecond(r, a \o b).m_current_header.second # <<>>
  BY <1>4, <1>5, Overwritten
<1>7. AddSecond(AddSecond(r, a), b) = AddSecond(r, a \o b)
  BY Extended
<1>8. \A q, x : AddSecond(q, x).m_current_header.second # <<>> =>
                    OnHeaderValue(q, x) = AddSecond(q, x)
  BY Added DEF OnHeaderValue
<1>9. OnHeaderValue(r, a) = AddSecond(r, a) /\ OnHeaderValue(r, a \o b) = AddSecond(r, a \o b)
  BY <1>6, <1>8
<1>10. OnHeaderValue(AddSecond(r, a), b) = AddSecond(r, a \o b)
  BY <1>6, <1>7, <1>8
<1> QED BY <1>9, <1>10

(***************************************************************************)
(* No value is cut before its first character.                              *)
(***************************************************************************)

\* In s_header_value the value has a character: one that was handed over, or one
\* that the mark of the current call is at.
Begun ==
    exchange = 1 /\ parser.state = "s_header_value" /\ parser.http_errno = "HPE_OK" =>
        \/ request.m_current_header.second # <<>>
        \/ pc \in {"loop", "switch"} /\ mark.header_value # 0 /\ mark.header_value < p

\* A step that does not go on in s_header_value.
Away == parser'.state # "s_header_value" \/ parser'.http_errno # "HPE_OK"

LEMMA AwayFacts ==
    ASSUME parser \in http_parser
    PROVE  /\ \A errno : Fail(errno) /\ errno # "HPE_OK" => Away
           /\ \A errno : \A par \in http_parser : FailWith(par, errno) /\ errno # "HPE_OK" => Away
           /\ \A par : par.state # "s_header_value" =>
                  /\ Break(par) => Away
                  /\ REEXECUTE(par) => Away
                  /\ Return(par) => Away
           /\ \A s : To(s).state = s
<1>1. ASSUME NEW par \in http_parser, NEW errno, FailWith(par, errno), errno # "HPE_OK"
      PROVE  Away
  BY <1>1 DEF FailWith, Away, http_parser
<1>2. ASSUME NEW errno, Fail(errno), errno # "HPE_OK" PROVE Away
  BY <1>1, <1>2 DEF Fail
<1>3. ASSUME NEW par, par.state # "s_header_value", Break(par) \/ REEXECUTE(par) \/ Return(par)
      PROVE  Away
  BY <1>3 DEF Break, REEXECUTE, Return, Away
<1>4. \A s : To(s).state = s
  BY DEF To, http_parser
<1> QED BY <1>1, <1>2, <1>3, <1>4

LEMMA LineAway ==
    ASSUME parser \in http_parser,
           \/ Dead \/ StartRes \/ Protocol \/ Version \/ FirstStatusCode \/ StatusCode
           \/ StatusStart \/ Status \/ LineAlmostDone
    PROVE  Away
<1>1. ASSUME NEW c, NEW next, next # "s_header_value", Expect(c, next) PROVE Away
  BY <1>1, AwayFacts DEF Expect
<1>2. ASSUME NEW ok, NEW errno, NEW par, errno # "HPE_OK", par.state # "s_header_value",
             Require(ok, errno, par)
      PROVE  Away
  BY <1>2, AwayFacts DEF Require
<1>3. CASE Dead
  BY <1>3, AwayFacts DEF Dead, At
<1>4. CASE StartRes
  <2> DEFINE par == Fresh(parser)
  <2>1. par.state = parser.state /\ [par EXCEPT !.state = "s_res_H"].state = "s_res_H"
    BY DEF Fresh, http_parser
  <2>2. parser.state = "s_start_res"
    BY <1>4 DEF StartRes, At
  <2> HIDE DEF par
  <2>3. \/ Break([par EXCEPT !.state = "s_res_H"]) \/ Break(par)
        \/ Fail("HPE_INVALID_CONSTANT")
    BY <1>4 DEF StartRes, par
  <2> QED BY <2>1, <2>2, <2>3, AwayFacts
<1>5. CASE Protocol \/ LineAlmostDone
  BY <1>1, <1>5 DEF Protocol, LineAlmostDone
<1>6. CASE Version
  <2>1. \A s, n : /\ [To(s) EXCEPT !.http_major = n].state = s
                  /\ [To(s) EXCEPT !.http_minor = n].state = s
    BY DEF To, http_parser
  <2>2. \E ok, s : /\ s # "s_header_value"
                   /\ \/ \E n : Require(ok, "HPE_INVALID_VERSION", [To(s) EXCEPT !.http_major = n])
                      \/ \E n : Require(ok, "HPE_INVALID_VERSION", [To(s) EXCEPT !.http_minor = n])
                      \/ Require(ok, "HPE_INVALID_VERSION", To(s))
    <3>1. CASE /\ At("s_res_http_major")
               /\ Require(IS_NUM(ch), "HPE_INVALID_VERSION",
                          [To("s_res_http_dot") EXCEPT !.http_major = unhex(ch)])
      BY <3>1
    <3>2. CASE /\ At("s_res_http_dot")
               /\ Require(ch = ".", "HPE_INVALID_VERSION", To("s_res_http_minor"))
      BY <3>2
    <3>3. CASE /\ At("s_res_http_minor")
               /\ Require(IS_NUM(ch), "HPE_INVALID_VERSION",
                          [To("s_res_http_end") EXCEPT !.http_minor = unhex(ch)])
      BY <3>3
    <3>4. CASE /\ At("s_res_http_end")
               /\ Require(ch = " ", "HPE_INVALID_VERSION", To("s_res_first_status_code"))
      BY <3>4
    <3> QED BY <1>6, <3>1, <3>2, <3>3, <3>4 DEF Version
  <2> QED BY <1>2, <2>1, <2>2, AwayFacts
<1>7. CASE FirstStatusCode
  <2>1. \A s, n : [To(s) EXCEPT !.status_code = n].state = s
    BY DEF To, http_parser
  <2>2. parser.state = "s_res_first_status_code"
    BY <1>7 DEF FirstStatusCode, At
  <2>3. \/ \E n : Break([To("s_res_status_code") EXCEPT !.status_code = n])
        \/ Break(parser) \/ Fail("HPE_INVALID_STATUS")
    BY <1>7 DEF FirstStatusCode
  <2> QED BY <2>1, <2>2, <2>3, AwayFacts
<1>8. CASE StatusCode
  <2> DEFINE code == parser.status_code * 10 + unhex(ch)
             par == [parser EXCEPT !.status_code = code]
  <2>1. parser.state = "s_res_status_code"
    BY <1>8 DEF StatusCode, At
  <2>2. par.state = parser.state /\ DOMAIN par = DOMAIN parser
    BY DEF http_parser
  <2>3. [par EXCEPT !.http_errno = "HPE_INVALID_STATUS"].http_errno = "HPE_INVALID_STATUS"
    BY DEF http_parser
  <2> HIDE DEF par
  <2>4. \/ Break(par) \/ FailWith(par, "HPE_INVALID_STATUS") \/ Fail("HPE_INVALID_STATUS")
        \/ Break(To("s_res_status_start")) \/ REEXECUTE(To("s_res_status_start"))
    BY <1>8 DEF StatusCode, par
  <2>5. FailWith(par, "HPE_INVALID_STATUS") => Away
    BY <2>3 DEF FailWith, Away
  <2> QED BY <2>1, <2>2, <2>4, <2>5, AwayFacts
<1>9. CASE StatusStart
  <2> DEFINE par == [To("s_res_status") EXCEPT !.index = 0]
  <2>1. par.state = "s_res_status"
    BY DEF To, http_parser
  <2> HIDE DEF par
  <2>2. REEXECUTE(par) \/ Break(par)
    BY <1>9 DEF StatusStart, par
  <2> QED BY <2>1, <2>2, AwayFacts
<1>10. CASE Status
  <2>1. parser.state = "s_res_status"
    BY <1>10 DEF Status, At
  <2>2. \/ Break(To("s_res_line_almost_done")) \/ Break(To("s_header_field_start"))
        \/ Break(parser)
    BY <1>10 DEF Status
  <2> QED BY <2>1, <2>2, AwayFacts
<1> QED BY <1>3, <1>4, <1>5, <1>6, <1>7, <1>8, <1>9, <1>10

LEMMA HeaderAway ==
    ASSUME ParserInv,
           \/ HeaderFieldStart \/ HeaderField \/ HeaderAlmostDone \/ HeaderValueLws
           \/ DiscardWsAlmostDone \/ HeaderValueDiscardLws
    PROVE  Away
<1>1. parser \in http_parser
  BY DEF ParserInv, ParserOK
<1>2. CASE HeaderFieldStart
  <2> DEFINE par == [To("s_header_field") EXCEPT !.index = 0,
                                                 !.header_state = FirstMatch(TOKEN(ch))]
  <2>1. par.state = "s_header_field"
    BY <1>1 DEF To, http_parser
  <2> HIDE DEF par
  <2>2. \/ Break(To("s_headers_almost_done")) \/ REEXECUTE(To("s_headers_almost_done"))
        \/ Break(par) \/ Fail("HPE_INVALID_HEADER_TOKEN")
    BY <1>2 DEF HeaderFieldStart, par
  <2> QED BY <1>1, <2>1, <2>2, AwayFacts
<1>3. CASE HeaderField
  <2>1. parser.state = "s_header_field" /\ ParserOK(parser)
    BY <1>3 DEF HeaderField, At, ParserInv
  <2>2. ASSUME NEW par, par \in http_parser, par.state # "s_header_value", NEW q, NEW where,
               LeaveLoop(par, q, where)
        PROVE  Away
    <3>1. CASE Fail("HPE_HEADER_OVERFLOW")
      BY <1>1, <3>1, AwayFacts
    <3>2. CASE parser' = [par EXCEPT !.nread = @ + Passed]
      BY <2>2, <3>2 DEF Away, http_parser
    <3> QED BY <2>2, <3>1, <3>2 DEF LeaveLoop
  <2>3. MatchField(parser, TOKEN(ch)).state = parser.state
    BY <2>1, MatchFieldOK DEF Further
  <2>4. To("s_header_value_discard_ws") \in http_parser
    BY <1>1, SetState DEF To, States, HeaderStates
  <2>5. \/ LeaveLoop(parser, p, "loop")
        \/ Loop(MatchField(parser, TOKEN(ch)), p + 1)
        \/ LeaveLoop(To("s_header_value_discard_ws"), p + 1, "loop")
        \/ Fail("HPE_HEADER_OVERFLOW") \/ Fail("HPE_INVALID_HEADER_TOKEN")
    BY <1>3 DEF HeaderField
  <2>6. CASE Loop(MatchField(parser, TOKEN(ch)), p + 1)
    <3>1. parser'.state = "s_header_field"
      BY <2>1, <2>3, <2>6 DEF Loop
    <3> QED BY <3>1 DEF Away
  <2>7. CASE LeaveLoop(parser, p, "loop")
    BY <1>1, <2>1, <2>2, <2>7
  <2>8. CASE LeaveLoop(To("s_header_value_discard_ws"), p + 1, "loop")
    BY <1>1, <2>2, <2>4, <2>8, AwayFacts
  <2> QED BY <1>1, <2>5, <2>6, <2>7, <2>8, AwayFacts
<1>4. CASE HeaderAlmostDone \/ DiscardWsAlmostDone
  <2>1. \/ Break(To("s_header_value_lws")) \/ Fail("HPE_LF_EXPECTED")
        \/ Break(To("s_header_value_discard_lws")) \/ Fail("HPE_STRICT")
    BY <1>4 DEF HeaderAlmostDone, DiscardWsAlmostDone, Require, Expect
  <2> QED BY <1>1, <2>1, AwayFacts
<1>5. Finished(parser).state = "s_header_field_start"
  BY <1>1 DEF Finished, http_parser
<1>6. CASE HeaderValueLws
  <2>1. \/ REEXECUTE(To("s_header_value_start"))
        \/ REEXECUTE(Finished(parser))
    BY <1>6 DEF HeaderValueLws
  <2> QED BY <1>1, <1>5, <2>1, AwayFacts
<1>7. CASE HeaderValueDiscardLws
  <2>1. Break(To("s_header_value_discard_ws")) \/ REEXECUTE(Finished(parser))
    BY <1>7 DEF HeaderValueDiscardLws
  <2> QED BY <1>1, <1>5, <2>1, AwayFacts
<1> QED BY <1>2, <1>3, <1>4, <1>6, <1>7

LEMMA BodyAway ==
    ASSUME parser \in http_parser,
           \/ HeadersAlmostDone \/ HeadersDone \/ MessageDone \/ BodyIdentity
           \/ BodyIdentityEof \/ ChunkSizeStart \/ ChunkSize \/ ChunkParameters
           \/ ChunkSizeAlmostDone \/ ChunkData \/ ChunkDataAlmostDone \/ ChunkDataDone
    PROVE  Away
<1>1. CASE HeadersAlmostDone
  <2> DEFINE par == [To("s_headers_done") EXCEPT
                       !.upgrade = /\ {"F_UPGRADE", "F_CONNECTION_UPGRADE"}
                                          \subseteq parser.flags
                                   /\ parser.status_code = 101,
                       !.flags = @ \cup IF request.head THEN {"F_SKIPBODY"} ELSE {}]
  <2>1. par.state = "s_headers_done"
    BY DEF To, http_parser
  <2> HIDE DEF par
  <2>2. \/ Fail("HPE_STRICT") \/ REEXECUTE(To("s_message_done"))
        \/ Fail("HPE_UNEXPECTED_CONTENT_LENGTH") \/ REEXECUTE(par)
    BY <1>1 DEF HeadersAlmostDone, par
  <2> QED BY <2>1, <2>2, AwayFacts
<1>2. CASE HeadersDone
  <2> DEFINE par == [parser EXCEPT !.nread = 0]
             with(s) == [par EXCEPT !.state = s]
  <2>1. \A s : with(s).state = s
    BY DEF http_parser
  <2>2. NEW_MESSAGE(par) # "s_header_value"
    BY NewMessages
  <2> HIDE DEF par
  <2>3. \/ Fail("HPE_STRICT") \/ Return(with(NEW_MESSAGE(par))) \/ Break(with(NEW_MESSAGE(par)))
        \/ Break(with("s_chunk_size_start")) \/ Break(with("s_body_identity"))
        \/ Break(with("s_body_identity_eof"))
    BY <1>2 DEF HeadersDone, par
  <2> HIDE DEF with
  <2> QED BY <2>1, <2>2, <2>3, AwayFacts
<1>3. CASE MessageDone
  <2>1. NEW_MESSAGE(parser) # "s_header_value"
    BY NewMessages
  <2> QED BY <1>3, <2>1, AwayFacts DEF MessageDone
<1>4. CASE BodyIdentity
  <2>1. parser.state = "s_body_identity"
    BY <1>4 DEF BodyIdentity, At
  <2>2. \/ parser' = [To("s_message_done") EXCEPT !.content_length = 0]
        \/ parser' = [parser EXCEPT !.content_length = parser.content_length - ToRead]
    BY <1>4 DEF BodyIdentity
  <2>3. /\ [To("s_message_done") EXCEPT !.content_length = 0].state = "s_message_done"
        /\ \A n : [parser EXCEPT !.content_length = n].state = parser.state
    BY DEF To, http_parser
  <2> QED BY <2>1, <2>2, <2>3 DEF Away
<1>5. CASE BodyIdentityEof
  BY <1>5 DEF BodyIdentityEof, At, Away
<1>6. CASE ChunkData
  <2>1. parser.state = "s_chunk_data"
    BY <1>6 DEF ChunkData, At
  <2>2. \E n : parser' = [parser EXCEPT
                             !.content_length = n,
                             !.state = IF n = 0 THEN "s_chunk_data_almost_done" ELSE @]
    BY <1>6 DEF ChunkData
  <2>3. parser'.state \in {"s_chunk_data_almost_done", "s_chunk_data"}
    BY <2>1, <2>2 DEF http_parser
  <2> QED BY <2>3 DEF Away
<1>7. CASE ChunkSizeStart \/ ChunkSizeAlmostDone \/ ChunkDataDone
  <2> DEFINE sized == [To("s_chunk_size") EXCEPT !.content_length = unhex(ch)]
             trailing == [To("s_header_field_start") EXCEPT
                             !.nread = 0, !.flags = @ \cup {"F_TRAILING"}]
             chunk(s) == [To(s) EXCEPT !.nread = 0]
  <2>1. /\ sized.state = "s_chunk_size" /\ trailing.state = "s_header_field_start"
        /\ \A s : chunk(s).state = s
    BY DEF To, http_parser
  <2> HIDE DEF sized, trailing, chunk
  <2>2. \/ Break(sized) \/ Fail("HPE_INVALID_CHUNK_SIZE") \/ Fail("HPE_STRICT")
        \/ Break(trailing) \/ Break(chunk("s_chunk_data")) \/ Break(chunk("s_chunk_size_start"))
    BY <1>7 DEF ChunkSizeStart, ChunkSizeAlmostDone, ChunkDataDone, Require,
                sized, trailing, chunk
  <2> QED BY <2>1, <2>2, AwayFacts
<1>8. CASE ChunkSize
  <2> DEFINE par == [parser EXCEPT !.content_length =
                        (parser.content_length * 16 + unhex(ch)) % (ULLONG_MAX + 1)]
  <2>1. parser.state = "s_chunk_size" /\ par.state = parser.state
    <3>1. \A n : [parser EXCEPT !.content_length = n].state = parser.state
      BY DEF http_parser
    <3>2. parser.state = "s_chunk_size"
      BY <1>8 DEF ChunkSize, At
    <3> QED BY <3>1, <3>2
  <2> HIDE DEF par
  <2>2. \/ Break(To("s_chunk_size_almost_done")) \/ Break(To("s_chunk_parameters"))
        \/ Fail("HPE_INVALID_CHUNK_SIZE") \/ Fail("HPE_INVALID_CONTENT_LENGTH")
        \/ Break(par)
    BY <1>8 DEF ChunkSize, par
  <2> QED BY <2>1, <2>2, AwayFacts
<1>9. CASE ChunkParameters \/ ChunkDataAlmostDone
  <2>1. parser.state # "s_header_value"
    BY <1>9 DEF ChunkParameters, ChunkDataAlmostDone, At
  <2>2. \/ Break(To("s_chunk_size_almost_done")) \/ Break(parser)
        \/ Break(To("s_chunk_data_done")) \/ Fail("HPE_STRICT")
    BY <1>9 DEF ChunkParameters, ChunkDataAlmostDone
  <2> QED BY <2>1, <2>2, AwayFacts
<1> QED BY <1>1, <1>2, <1>3, <1>4, <1>5, <1>6, <1>7, <1>8, <1>9

LEMMA GrownValue ==
    ASSUME NEW r \in Request, NEW at \in Piece, r.m_current_header.second # <<>> \/ at # <<>>
    PROVE  OnHeaderValue(r, at).m_current_header.second # <<>>
<1>1. PICK s \in Piece : s = r.m_current_header.second
  BY SetRequest
<1>2. PICK u : u = s \o at
  OBVIOUS
<1>3. u # <<>>
  <2>1. /\ Len(s) \in Nat /\ Len(at) \in Nat
        /\ s # <<>> => Len(s) # 0
        /\ at # <<>> => Len(at) # 0
    BY LenProperties, EmptySeq DEF Piece
  <2>2. Len(s) + Len(at) # 0
    BY <1>1, <2>1
  <2>3. Len(s \o at) = Len(s) + Len(at) /\ Len(<<>>) = 0
    BY ConcatProperties, EmptySeq DEF Piece
  <2> QED BY <1>2, <2>2, <2>3
<1>4. AddSecond(r, at) = WithSecond(r, u)
  BY <1>1, <1>2 DEF AddSecond
<1>5. AddSecond(r, at).m_current_header.second = u
  BY <1>4, Overwritten
<1>6. OnHeaderValue(r, at) = AddSecond(r, at)
  BY <1>3, <1>5, Added DEF OnHeaderValue
<1> QED BY <1>3, <1>5, <1>6

\* The end of a buffer in the middle of a value hands over what the mark is at.
LEMMA EndOfBufferBegun ==
    ASSUME ParserInv, Begun, UNCHANGED connection, EndOfBuffer PROVE Begun'
<1> SUFFICES ASSUME exchange = 1, parser.state = "s_header_value", parser.http_errno = "HPE_OK"
             PROVE  request'.m_current_header.second # <<>>
  BY DEF Begun, EndOfBuffer, connection
<1>1. pc = "loop" /\ p = last
  BY DEF EndOfBuffer
<1>2. /\ mark \in [Kinds -> 0..p] /\ request \in Request
      /\ \A kind \in Kinds : mark[kind] # 0 => parser.state \in Marked(kind)
  BY <1>1 DEF ParserInv, Marks, ClientOK
<1>3. \A kind \in Kinds : mark[kind] # 0 => kind = "header_value"
  BY <1>2 DEF Kinds, Marked
<1>4. DOMAIN mark = Kinds /\ "header_value" \in Kinds
  BY <1>2 DEF Kinds
<1>5. \/ request.m_current_header.second # <<>>
      \/ mark.header_value # 0 /\ mark.header_value < p
  BY <1>1 DEF Begun
<1>6. CASE mark.header_value = 0
  <2>1. ~\E kind \in DOMAIN mark : mark[kind] # 0
    BY <1>3, <1>4, <1>6
  <2>2. UNCHANGED request
    BY <2>1 DEF EndOfBuffer, NoCallback, callbacks
  <2> QED BY <1>5, <1>6, <2>2
<1>7. CASE mark.header_value # 0
  <2>1. PICK kind \in DOMAIN mark : mark[kind] # 0 /\ CallbackData(kind, p)
    BY <1>4, <1>7 DEF EndOfBuffer
  <2>2. kind = "header_value"
    BY <1>3, <1>4, <2>1
  <2> DEFINE at == SubSeq(wire, mark.header_value, p - 1)
  <2>3. request' = OnHeaderValue(request, at)
    BY <2>1, <2>2 DEF CallbackData
  <2>4. /\ mark.header_value \in Nat /\ mark.header_value >= 1 /\ mark.header_value <= p
        /\ p \in Nat /\ p - 1 \in Int /\ p - 1 <= Len(wire) /\ wire \in Piece
    <3>1. mark.header_value \in 0..p
      BY <1>2, <1>4
    <3>2. p \in Nat /\ last <= Len(wire) + 1 /\ wire \in Piece
      BY DEF ParserInv, Positions, Connected
    <3>3. Len(wire) \in Nat
      BY <3>2, LenProperties DEF Piece
    <3> QED BY <1>1, <1>7, <3>1, <3>2, <3>3
  <2>5. at \in Piece
    BY <2>4, PieceOf
  <2>6. mark.header_value < p => at # <<>>
    <3> SUFFICES ASSUME mark.header_value < p PROVE Len(at) # 0
      BY EmptySeq
    <3>1. Len(at) = (p - 1) - mark.header_value + 1
      BY <2>4, SubSeqProperties DEF Piece
    <3> QED BY <2>4, <3>1
  <2> HIDE DEF at
  <2>7. request.m_current_header.second # <<>> \/ at # <<>>
    BY <1>5, <2>6
  <2> QED BY <1>2, <2>3, <2>5, <2>7, GrownValue
<1> QED BY <1>6, <1>7

\* A value begins with a byte at p, and p moves behind it.
LEMMA ValueStartBegun ==
    ASSUME ParserInv, pc = "switch", ValueStart, Mark("header_value") PROVE Away \/ Begun'
<1>1. parser \in http_parser /\ p \in Nat /\ p >= 1
  BY DEF ParserInv, ParserOK, Positions
<1>2. mark \in [Kinds -> 0..p] /\ "header_value" \in Kinds
  BY DEF ParserInv, Marks, Kinds
<1>3. mark'.header_value # 0 /\ mark'.header_value <= p
  <2>1. mark.header_value \in 0..p
    BY <1>2
  <2>2. mark'.header_value = IF mark.header_value = 0 THEN p ELSE mark.header_value
    BY <1>2 DEF Mark
  <2> QED BY <1>1, <2>1, <2>2
<1>4. CASE \E par : Break(par)
  <2>1. p' = p + 1 /\ pc' = "loop"
    BY <1>4 DEF Break
  <2>2. mark'.header_value < p'
    <3>1. mark'.header_value \in Nat
      <4>1. mark.header_value \in 0..p
        BY <1>2
      <4>2. mark'.header_value = IF mark.header_value = 0 THEN p ELSE mark.header_value
        BY <1>2 DEF Mark
      <4> QED BY <1>1, <4>1, <4>2
    <3> QED BY <1>1, <1>3, <2>1, <3>1
  <2> QED BY <1>3, <2>1, <2>2 DEF Begun
<1>5. CASE Fail("HPE_INVALID_CONTENT_LENGTH") \/ Fail("HPE_UNEXPECTED_CONTENT_LENGTH")
  BY <1>1, <1>5, AwayFacts
<1>6. \/ \E par : Break(par) \/ Fail("HPE_INVALID_CONTENT_LENGTH")
      \/ Fail("HPE_UNEXPECTED_CONTENT_LENGTH")
  BY DEF ValueStart
<1> QED BY <1>4, <1>5, <1>6

\* Nothing is taken back while p goes forward.
LEMMA ForwardBegun ==
    ASSUME ParserInv, Begun, UNCHANGED <<exchange, mark, request>>, pc' \in {"loop", "switch"},
           parser.state = "s_header_value", parser.http_errno = "HPE_OK",
           p' \in Nat, p <= p'
    PROVE  Begun'
<1>1. p \in Nat /\ mark.header_value \in 0..p
  BY DEF ParserInv, Positions, Marks, Kinds
<1> SUFFICES ASSUME exchange = 1, request.m_current_header.second = <<>>
             PROVE  mark.header_value # 0 /\ mark.header_value < p'
  BY DEF Begun
<1>2. mark.header_value # 0 /\ mark.header_value < p
  BY DEF Begun
<1> QED BY <1>1, <1>2

LEMMA ValueBegun ==
    ASSUME ParserInv, Begun, UNCHANGED connection, HeaderValueByte \/ HeaderValueEnd
    PROVE  Away \/ Begun'
<1>1. pc = "switch" /\ parser.state = "s_header_value"
  BY DEF HeaderValueByte, HeaderValueEnd, At
<1>2. parser \in http_parser /\ parser.http_errno = "HPE_OK" /\ p \in Nat /\ last \in Nat
  BY <1>1, SwitchFacts
<1>3. UNCHANGED exchange
  BY DEF connection
<1>4. ASSUME NEW par, NEW q \in Nat, p <= q, Loop(par, q), NoCallback PROVE Begun'
  <2>1. p' = q /\ pc' = pc /\ UNCHANGED <<mark, request>>
    BY <1>4 DEF Loop, NoCallback, callbacks
  <2> QED BY <1>1, <1>2, <1>3, <1>4, <2>1, ForwardBegun
<1>5. CASE HeaderValueByte
  <2>1. NoCallback /\ p # last /\ ch \notin EOL
    BY <1>5 DEF HeaderValueByte
  <2>2. EndOfValue \in Nat /\ p <= EndOfValue
    <3>1. EndOfValue \in Nat /\ p < EndOfValue
      BY <2>1, EndOfValueBounds
    <3> QED BY <1>2, <3>1
  <2>3. p + 1 \in Nat /\ p <= p + 1
    BY <1>2
  <2>4. CASE \E par : Loop(par, p + 1)
    BY <1>4, <2>1, <2>3, <2>4
  <2>5. CASE Loop(parser, EndOfValue)
    BY <1>4, <2>1, <2>2, <2>5
  <2>6. CASE Fail("HPE_INVALID_HEADER_TOKEN") \/ Fail("HPE_INVALID_CONTENT_LENGTH")
    BY <1>2, <2>6, AwayFacts
  <2>7. \/ \E par : Loop(par, p + 1)
        \/ Loop(parser, EndOfValue)
        \/ Fail("HPE_INVALID_HEADER_TOKEN") \/ Fail("HPE_INVALID_CONTENT_LENGTH")
    BY <1>5 DEF HeaderValueByte, MoreLength
  <2> QED BY <2>4, <2>5, <2>6, <2>7
<1>6. CASE HeaderValueEnd
  <2>1. CASE LeaveLoop(parser, p, "loop") /\ NoCallback
    <3>1. CASE Fail("HPE_HEADER_OVERFLOW")
      BY <1>2, <3>1, AwayFacts
    <3>2. CASE p' = p /\ pc' = "loop"
      <4>1. p' \in Nat /\ p <= p' /\ UNCHANGED <<mark, request>>
        BY <1>2, <2>1, <3>2 DEF NoCallback, callbacks
      <4> QED BY <1>1, <1>2, <1>3, <3>2, <4>1, ForwardBegun
    <3> QED BY <2>1, <3>1, <3>2 DEF LeaveLoop
  <2>2. CASE \E q, where : LeaveLoop(To("s_header_almost_done"), q, where)
    <3>1. CASE Fail("HPE_HEADER_OVERFLOW")
      BY <1>2, <3>1, AwayFacts
    <3>2. CASE \E n : parser' = [To("s_header_almost_done") EXCEPT !.nread = @ + n]
      <4>1. parser'.state = "s_header_almost_done"
        BY <1>2, <3>2 DEF To, http_parser
      <4> QED BY <4>1 DEF Away
    <3> QED BY <2>2, <3>1, <3>2 DEF LeaveLoop
  <2> QED BY <1>6, <2>1, <2>2 DEF HeaderValueEnd
<1> QED BY <1>5, <1>6

LEMMA ExecuteBegun ==
    ASSUME ParserInv, Begun, http_parser_execute PROVE Begun'
<1>1. parser \in http_parser /\ UNCHANGED connection /\ UNCHANGED exchange
  BY DEF ParserInv, ParserOK, http_parser_execute, connection
<1>2. Away => Begun'
  BY DEF Away, Begun
<1>3. CASE \/ Dead \/ StartRes \/ Protocol \/ Version \/ FirstStatusCode \/ StatusCode
           \/ StatusStart \/ Status \/ LineAlmostDone
  BY <1>1, <1>2, <1>3, LineAway
<1>4. CASE \/ HeaderFieldStart \/ HeaderField \/ HeaderAlmostDone \/ HeaderValueLws
           \/ DiscardWsAlmostDone \/ HeaderValueDiscardLws
  BY <1>2, <1>4, HeaderAway
<1>5. CASE \/ HeadersAlmostDone \/ HeadersDone \/ MessageDone \/ BodyIdentity
           \/ BodyIdentityEof \/ ChunkSizeStart \/ ChunkSize \/ ChunkParameters
           \/ ChunkSizeAlmostDone \/ ChunkData \/ ChunkDataAlmostDone \/ ChunkDataDone
  BY <1>1, <1>2, <1>5, BodyAway
<1>6. CASE HeaderValueByte \/ HeaderValueEnd
  BY <1>1, <1>2, <1>6, ValueBegun
<1>7. CASE HeaderValueDiscardWs
  <2>1. pc = "switch" /\ parser.state = "s_header_value_discard_ws"
    BY <1>7 DEF HeaderValueDiscardWs, At
  <2>2. \/ Break(parser) \/ Break(To("s_header_value_discard_ws_almost_done"))
        \/ Break(To("s_header_value_discard_lws"))
        \/ ValueStart /\ Mark("header_value")
    BY <1>7 DEF HeaderValueDiscardWs
  <2> QED BY <1>1, <1>2, <2>1, <2>2, AwayFacts, ValueStartBegun
<1>8. CASE HeaderValueStart
  BY <1>2, <1>8, ValueStartBegun DEF HeaderValueStart, At
<1>9. CASE NextByte
  <2>1. CASE parser.state # "s_header_value"
    <3>1. CASE Fail("HPE_HEADER_OVERFLOW")
      BY <1>1, <1>2, <3>1, AwayFacts
    <3>2. CASE \E n : parser' = [parser EXCEPT !.nread = @ + n]
      <4>1. parser'.state = parser.state
        BY <1>1, <3>2 DEF http_parser
      <4> QED BY <1>2, <2>1, <4>1 DEF Away
    <3> QED BY <1>9, <3>1, <3>2 DEF NextByte
  <2>2. CASE parser.state = "s_header_value"
    <3>1. CASE Fail("HPE_HEADER_OVERFLOW")
      BY <1>1, <1>2, <3>1, AwayFacts
    <3>2. CASE pc' = "switch" /\ UNCHANGED p
      <4>1. p' \in Nat /\ p <= p' /\ parser.http_errno = "HPE_OK" /\ UNCHANGED <<mark, request>>
        BY <1>9, <3>2 DEF ParserInv, Positions, Doing, NextByte, NoCallback, callbacks
      <4> QED BY <1>1, <2>2, <3>2, <4>1, ForwardBegun
    <3> QED BY <1>9, <3>1, <3>2 DEF NextByte
  <2> QED BY <2>1, <2>2
<1>10. CASE EndOfBuffer
  BY <1>1, <1>10, EndOfBufferBegun
<1> QED BY <1>3, <1>4, <1>5, <1>6, <1>7, <1>8, <1>9, <1>10 DEF http_parser_execute

\* Wherever a read ends inside of a value, a character of it is in the current
\* header.
BegunAtCut ==
    exchange = 1 /\ pc = "read" /\ parser.state = "s_header_value"
            /\ parser.http_errno = "HPE_OK"
        => request.m_current_header.second # <<>>

\* However the first response on a connection is cut into reads, on_header_value
\* is not called with the beginning of a value that has no character yet. With
\* FieldCuts and ValueCuts: no cut splits a header in two. For a later exchange
\* this needs more than the code ensures: bytes that follow a response are parsed
\* with it, and write_headers then forgets a header that they began.
THEOREM CutsKeepHeaders == Spec => []BegunAtCut
<1>1. Init => Begun
  <2> SUFFICES ASSUME Init PROVE parser.state # "s_header_value"
    BY DEF Begun
  <2> QED BY DEF Init, NewParser
<1>2. ASSUME ParserInv, Begun, [Next]_vars PROVE Begun'
  <2>1. CASE http_parser_execute
    BY <1>2, <2>1, ExecuteBegun
  <2>2. CASE AfterExecute
    <3>1. pc = "returned" /\ UNCHANGED <<exchange, parser, request>>
      BY <2>2 DEF AfterExecute, connection
    <3> QED BY <1>2, <3>1 DEF Begun
  <2>3. CASE Network
    <3>1. pc = "read" /\ UNCHANGED <<exchange, parser, request>>
      BY <2>3 DEF Network, OnReadError, OnRead, connection
    <3> QED BY <1>2, <3>1 DEF Begun
  <2>4. CASE WriteHeaders
    <3>1. exchange' = exchange + 1 /\ exchange \in 1..MaxExchanges
      BY <1>2, <2>4 DEF WriteHeaders, ParserInv, Connected
    <3>2. exchange' # 1
      BY <3>1, ParserConstants
    <3> QED BY <3>2 DEF Begun
  <2>5. CASE UNCHANGED vars
    BY <1>2, <2>5 DEF vars, connection, callbacks, Begun
  <2> QED BY <1>2, <2>1, <2>2, <2>3, <2>4, <2>5 DEF Next
<1>3. Begun => BegunAtCut
  BY DEF Begun, BegunAtCut
<1> QED BY <1>1, <1>2, <1>3, ParserInvariant, PTL DEF Spec
=============================================================================
