----------------------------- MODULE HttpStack -----------------------------
(* One protocol stack of asio_http: http_content, encoding,                 *)
(* http_client_connection and the socket layer, with the deadline timer     *)
(* (implementation/interface/asio_http/internal/{http_content,encoding,     *)
(* http_client_connection,socket}.h), driven by the request manager and     *)
(* talking to a server over TCP.                                            *)
(*                                                                          *)
(* The stack's handlers run one at a time on its strand.  The timer handler *)
(* is not bound to the strand; one thread runs the io_context, so it is     *)
(* atomic too, and it runs before any handler that is posted after it was   *)
(* queued.  The manager executes exchanges 1, 2, ... on the stack: it       *)
(* starts the next one when the previous one completed without error, and   *)
(* drops the stack after an error.                                          *)
EXTENDS Naturals, Sequences, FiniteSets

CONSTANTS
    MaxExchanges,  \* bound: exchanges executed on the stack
    MaxCancels,    \* bound: cancel_async calls
    MaxBody,       \* bound: 1024-byte blocks of a request body
    MaxEndpoints,  \* bound: addresses a host name resolves to
    MaxInterim     \* bound: 1xx responses the server sends

ASSUME StackBounds ==
    /\ {MaxExchanges, MaxCancels, MaxBody, MaxInterim} \subseteq Nat
    /\ MaxEndpoints \in Nat \ {0}

VARIABLES
    ssl,             \* the transport is ssl_socket
    started,         \* exchanges the manager has started
    handled,         \* completions the manager has processed
    cancels,         \* history: exchanges for which cancel_async was called
    strand,          \* start and cancel handlers posted to the strand
    callback,        \* exchange of m_completed_request_callback, 0 when null
    current,         \* exchange of m_request and m_current_request
    m_state,         \* m_current_request.m_state
    body_left,       \* blocks left in m_body_source
    m_result,        \* exchange whose response headers m_result holds, or 0
    m_not_reusable,
    parser,          \* "start", inside a "message", or "dead"
    timer,           \* m_timer has a pending wait
    expired,         \* exchanges whose timer handler is queued
    socket,          \* m_socket.is_open()
    io,              \* asynchronous operations under way
    pending,         \* server: requests received on this connection
    wire,            \* response parts on their way to the client
    peer,            \* server: has not closed this connection
    interims,        \* 1xx responses sent so far
    completed        \* history: completions reported to the manager

content == <<callback, timer, completed, m_result>>
request == <<current, body_left>>
manager == <<started, handled, cancels>>
server == <<pending, wire, peer, interims>>
vars == <<ssl, manager, strand, content, request, m_state, m_not_reusable,
          parser, expired, socket, io, server>>

-----------------------------------------------------------------------------
NetworkError == {"eof", "failed"}
EC == NetworkError \cup {"none", "timed_out", "operation_aborted"}

\* An operation completes with an error for certain once the socket it was
\* started on has been closed, or if it is started on a closed one.
Operation == [op : {"resolve", "connect", "handshake", "write", "read"},
              endpoints : 0..MaxEndpoints,
              doom : {"no", "failed", "operation_aborted"}]

OnSocket(op) == [op |-> op, endpoints |-> 0,
                 doom |-> IF socket THEN "no" ELSE "failed"]
Resolve == [op |-> "resolve", endpoints |-> 0, doom |-> "no"]
Connect(k) == [op |-> "connect", endpoints |-> k, doom |-> "no"]

\* A response is a head (status line and headers) and a tail (the rest).
Part == [for : 1..MaxExchanges, part : {"head", "tail"}, close : BOOLEAN]
Response(x, close) == <<[for |-> x, part |-> "head", close |-> close],
                        [for |-> x, part |-> "tail", close |-> close]>>

Errors(o) == IF o.doom = "no" THEN NetworkError ELSE {o.doom}
Outcomes(o) == Errors(o) \cup (IF o.doom = "no" THEN {"none"} ELSE {})

Init ==
    /\ ssl \in BOOLEAN
    /\ started = 0 /\ handled = 0 /\ cancels = {}
    /\ strand = <<>>
    /\ callback = 0 /\ current = 0 /\ m_result = 0
    /\ m_state = "done"
    /\ body_left = 0
    /\ m_not_reusable = FALSE
    /\ parser = "start"
    /\ timer = FALSE
    /\ expired = {}
    /\ socket = FALSE
    /\ io = <<>>
    /\ pending = <<>> /\ wire = <<>> /\ peer = FALSE /\ interims = 0
    /\ completed = <<>>

-----------------------------------------------------------------------------
(* The request manager, as RequestManager models it.                        *)

\* The stack is new, or in the pool after a completion without error.
Pooled == handled = started /\ \A i \in DOMAIN completed : completed[i].ec = "none"

ManagerStart ==
    /\ Pooled
    /\ started < MaxExchanges
    /\ started' = started + 1
    /\ strand' = Append(strand, "start")
    /\ UNCHANGED <<ssl, handled, cancels, content, request, m_state,
                   m_not_reusable, parser, expired, socket, io, server>>

\* A request is cancelled while it is in progress, which it remains until the
\* manager has processed its completion.
ManagerCancel ==
    /\ handled < started
    /\ Cardinality({i \in DOMAIN strand : strand[i] = "cancel"}) < MaxCancels
    /\ cancels' = cancels \cup {started}
    /\ strand' = Append(strand, "cancel")
    /\ UNCHANGED <<ssl, started, handled, content, request, m_state,
                   m_not_reusable, parser, expired, socket, io, server>>

\* on_request_completed.  The one thread has by then run the timer handlers
\* that were queued when the completion was posted.
ManagerCompletion ==
    /\ handled < Len(completed)
    /\ expired = {}
    /\ handled' = handled + 1
    /\ UNCHANGED <<ssl, started, cancels, strand, content, request, m_state,
                   m_not_reusable, parser, expired, socket, io, server>>

-----------------------------------------------------------------------------
(* http_content.                                                            *)

\* Mutant of CompleteRequest: m_completed_request_callback is not cleared.
CompleteRequestKeepsCallback(ec, res, left) ==
    IF callback # 0
    THEN /\ timer' = FALSE
         /\ Len(completed) < 2 * MaxExchanges
         /\ completed' = Append(completed,
                [exchange |-> callback, ec |-> ec, response |-> res])
         /\ m_result' = left
         /\ UNCHANGED callback
    ELSE /\ m_result' = IF left # 0 THEN left ELSE res
         /\ UNCHANGED <<timer, completed, callback>>

\* Mutant of CompleteRequest: the timer is not cancelled.
CompleteRequestKeepsTimer(ec, res, left) ==
    IF callback # 0
    THEN /\ completed' = Append(completed,
                [exchange |-> callback, ec |-> ec, response |-> res])
         /\ callback' = 0
         /\ m_result' = left
         /\ UNCHANGED timer
    ELSE /\ m_result' = IF left # 0 THEN left ELSE res
         /\ UNCHANGED <<timer, completed, callback>>

\* Mutant of CompleteRequest: m_result is not reset.
CompleteRequestKeepsResult(ec, res, left) ==
    /\ m_result' = IF left # 0 THEN left ELSE res
    /\ IF callback # 0
       THEN /\ timer' = FALSE
            /\ completed' = Append(completed,
                   [exchange |-> callback, ec |-> ec, response |-> res])
            /\ callback' = 0
       ELSE UNCHANGED <<timer, completed, callback>>

\* complete_request, called when m_result holds response res.  The parser may
\* go on to store the head of a later response; left is that response, or 0.
CompleteRequest(ec, res, left) ==
    IF callback # 0
    THEN /\ timer' = FALSE
         /\ completed' = Append(completed,
                [exchange |-> callback, ec |-> ec, response |-> res])
         /\ callback' = 0
         /\ m_result' = left
    ELSE /\ m_result' = IF left # 0 THEN left ELSE res
         /\ UNCHANGED <<timer, completed, callback>>

\* A lower layer reports an error; encoding and http_content pass it on.
OnError(ec) == CompleteRequest(ec, m_result, 0)

\* http_client_connection hands the transport the next block to write; ops is
\* what is under way otherwise.  The server has request x when the last block
\* reaches it.
Write(ops, x, left) ==
    /\ io' = Append(ops, OnSocket("write"))
    /\ pending' = IF left = 0 /\ socket /\ peer THEN Append(pending, x) ELSE pending

\* http_client_connection::write_headers for exchange x with b blocks of body:
\* an open connection is used again, without looking at m_not_reusable.
WriteHeaders(x, b) ==
    /\ m_state' = "in_progress"
    /\ IF socket
       THEN Write(io, x, b)
       ELSE io' = Append(io, Resolve) /\ UNCHANGED pending

\* Mutant of StackStart: no deadline is set.
StackStartWithoutTimer ==
    /\ strand # <<>> /\ Head(strand) = "start"
    /\ strand' = Tail(strand)
    /\ current' = started
    /\ callback' = started
    /\ \E b \in 0..MaxBody : body_left' = b /\ WriteHeaders(started, b)
    /\ UNCHANGED <<ssl, manager, timer, completed, m_result, m_not_reusable,
                   parser, expired, socket, wire, peer, interims>>

\* http_content::start.
StackStart ==
    /\ strand # <<>> /\ Head(strand) = "start"
    /\ strand' = Tail(strand)
    /\ current' = started
    /\ callback' = started
    /\ timer' = TRUE
    /\ \E b \in 0..MaxBody : body_left' = b /\ WriteHeaders(started, b)
    /\ UNCHANGED <<ssl, manager, completed, m_result, m_not_reusable, parser,
                   expired, socket, wire, peer, interims>>

\* generic_stream::close and ssl_socket::close: nothing happens unless the
\* socket is open; operations on it are aborted.
Close ==
    /\ socket' = FALSE
    /\ io' = [i \in DOMAIN io |->
                 IF socket /\ io[i].op # "resolve"
                 THEN [io[i] EXCEPT !.doom = "operation_aborted"] ELSE io[i]]
    /\ peer' = (peer /\ ~socket)
    /\ pending' = IF socket THEN <<>> ELSE pending
    /\ wire' = IF socket THEN <<>> ELSE wire

\* Mutant of StackCancel: the cancelled exchange is not reported.
StackCancelCloses ==
    /\ strand # <<>> /\ Head(strand) = "cancel"
    /\ strand' = Tail(strand)
    /\ Close
    /\ UNCHANGED <<ssl, manager, content, request, m_state, m_not_reusable,
                   parser, expired, interims>>

\* http_content::cancel.
StackCancel ==
    /\ strand # <<>> /\ Head(strand) = "cancel"
    /\ strand' = Tail(strand)
    /\ CompleteRequest("operation_aborted", m_result, 0)
    /\ Close
    /\ UNCHANGED <<ssl, manager, request, m_state, m_not_reusable, parser,
                   expired, interims>>

\* The deadline passes: the handler is queued and can no longer be cancelled.
TimerExpires ==
    /\ timer
    /\ timer' = FALSE
    /\ expired' = expired \cup {current}
    /\ UNCHANGED <<ssl, manager, strand, callback, completed, m_result, request,
                   m_state, m_not_reusable, parser, socket, io, server>>

\* The timer handler of start.
TimerHandler ==
    /\ \E x \in expired : expired' = expired \ {x}
    /\ CompleteRequest("timed_out", m_result, 0)
    /\ UNCHANGED <<ssl, manager, strand, request, m_state, m_not_reusable,
                   parser, socket, io, server>>

-----------------------------------------------------------------------------
(* The transport's handlers and http_client_connection's on_* functions.    *)

\* The operation whose handler runs, and the others.
Completing(op) == io # <<>> /\ Head(io).op = op

\* http_client_connection::on_connected.
OnConnected(ec) ==
    IF ec = "none"
    THEN /\ Write(Tail(io), current, body_left)
         /\ UNCHANGED content
    ELSE /\ io' = Tail(io)
         /\ OnError(ec)
         /\ UNCHANGED pending

\* async_connect opens the socket if it is closed and starts a connection.
AsyncConnect(k) ==
    /\ socket' = TRUE
    /\ io' = Append(Tail(io), Connect(k))
    /\ peer' = TRUE
    /\ wire' = <<>>
    /\ pending' = <<>>
    /\ UNCHANGED content

\* resolve_handler, with the k addresses of the host.
ResolveHandler(ec, k) ==
    /\ Completing("resolve")
    /\ ec \in Outcomes(Head(io))
    /\ \/ ec = "none" /\ AsyncConnect(k - 1)
       \/ ec # "none" /\ OnConnected(ec) /\ UNCHANGED <<socket, peer, wire>>
    /\ UNCHANGED <<ssl, manager, strand, request, m_state, m_not_reusable,
                   parser, expired, interims>>

\* ssl_socket::connect_handler starts the TLS handshake.
AsyncHandshake ==
    /\ io' = Append(Tail(io), OnSocket("handshake"))
    /\ UNCHANGED <<content, pending>>

\* connect_handler: on an error the next endpoint is tried, if there is one.
ConnectHandler(ec) ==
    /\ Completing("connect")
    /\ ec \in Outcomes(Head(io))
    /\ \/ /\ ec # "none" /\ Head(io).endpoints > 0
          /\ AsyncConnect(Head(io).endpoints - 1)
       \/ /\ ec = "none" \/ Head(io).endpoints = 0
          /\ IF ec = "none" /\ ssl THEN AsyncHandshake ELSE OnConnected(ec)
          /\ UNCHANGED <<socket, peer, wire>>
    /\ UNCHANGED <<ssl, manager, strand, request, m_state, m_not_reusable,
                   parser, expired, interims>>

\* ssl_socket::handshake_handler.
HandshakeHandler(ec) ==
    /\ Completing("handshake")
    /\ ec \in Outcomes(Head(io))
    /\ OnConnected(ec)
    /\ UNCHANGED <<ssl, manager, strand, request, m_state, m_not_reusable,
                   parser, expired, socket, wire, peer, interims>>

\* Mutant of WriteHandler: the end of the body is not noticed.
WriteHandlerPastEnd(ec) ==
    /\ Completing("write")
    /\ ec \in Outcomes(Head(io))
    /\ IF ec = "none" THEN UNCHANGED content ELSE OnError(ec)
    /\ body_left' = body_left - 1
    /\ Write(Tail(io), current, body_left - 1)
    /\ UNCHANGED <<ssl, manager, strand, current, m_state, m_not_reusable,
                   parser, expired, socket, wire, peer, interims>>

\* http_client_connection::on_write, which goes on after an error too.
WriteHandler(ec) ==
    /\ Completing("write")
    /\ ec \in Outcomes(Head(io))
    /\ IF ec = "none" THEN UNCHANGED content ELSE OnError(ec)
    /\ IF body_left = 0
       THEN /\ io' = Append(Tail(io), OnSocket("read"))
            /\ UNCHANGED <<body_left, pending>>
       ELSE /\ body_left' = body_left - 1
            /\ Write(Tail(io), current, body_left - 1)
    /\ UNCHANGED <<ssl, manager, strand, current, m_state, m_not_reusable,
                   parser, expired, socket, wire, peer, interims>>

\* Mutant of ReadOn: on_read goes on reading after the message is complete.
ReadOnAlways(done) == io' = Append(Tail(io), OnSocket("read"))

\* on_read starts the next read unless the message is complete.
ReadOn(done) ==
    io' = IF done THEN Tail(io) ELSE Append(Tail(io), OnSocket("read"))

\* The response whose head is the last one in parts i..j, or otherwise.
LastHead(i, j, otherwise) ==
    LET heads == {x \in i..j : wire[x].part = "head"}
    IN IF heads = {} THEN otherwise
       ELSE wire[CHOOSE x \in heads : \A y \in heads : y <= x].for

\* http_client_connection::on_read with data that http_parser_execute accepts:
\* the first j parts.  Each head calls on_headers and each tail
\* on_message_complete.
ReadData(j) ==
    /\ Completing("read") /\ Head(io).doom = "no"
    /\ j \in DOMAIN wire
    /\ m_state = "in_progress"
    /\ parser = IF wire[1].part = "head" THEN "start" ELSE "message"
    /\ LET tails == {x \in 1..j : wire[x].part = "tail"}
           first == CHOOSE x \in tails : \A y \in tails : x <= y
           close == \E x \in tails : wire[x].close
       IN /\ IF tails = {}
             THEN /\ m_result' = LastHead(1, j, m_result)
                  /\ UNCHANGED <<callback, timer, completed, m_state>>
             ELSE /\ CompleteRequest("none", LastHead(1, first, m_result),
                                     LastHead(first + 1, j, 0))
                  /\ m_state' = "done"
          /\ ReadOn(tails # {})
          /\ m_not_reusable' = (m_not_reusable \/ close)
          /\ parser' = CASE close -> "dead"
                         [] ~close /\ wire[j].part = "tail" -> "start"
                         [] OTHER -> "message"
    /\ wire' = SubSeq(wire, j + 1, Len(wire))
    /\ UNCHANGED <<ssl, manager, strand, request, expired, socket, pending,
                   peer, interims>>

\* on_read with data the parser refuses: malformed, or after it is dead.
ReadRefused ==
    /\ Completing("read") /\ Head(io).doom = "no"
    /\ wire # <<>>
    /\ m_state = "in_progress"
    /\ io' = Tail(io)
    /\ OnError("failed")
    /\ parser' = "dead"
    /\ wire' = <<>>
    /\ UNCHANGED <<ssl, manager, strand, request, m_state, m_not_reusable,
                   expired, socket, pending, peer, interims>>

\* on_read with an error and no data.
ReadError(ec) ==
    /\ Completing("read")
    /\ ec \in Errors(Head(io))
    /\ io' = Tail(io)
    /\ m_not_reusable' = TRUE
    /\ IF m_state = "in_progress"
       THEN OnError(ec)
       ELSE UNCHANGED content
    /\ UNCHANGED <<ssl, manager, strand, request, m_state, parser, expired,
                   socket, server>>
-----------------------------------------------------------------------------
(* The server and the network.                                              *)

\* A 1xx response, which does not end the exchange for the server.
ServerInterim ==
    /\ peer /\ pending # <<>>
    /\ interims < MaxInterim
    /\ interims' = interims + 1
    /\ wire' = wire \o Response(Head(pending), FALSE)
    /\ UNCHANGED <<ssl, manager, strand, content, request, m_state,
                   m_not_reusable, parser, expired, socket, io, pending, peer>>

\* The response to the oldest request, after which the server may close.
ServerResponds(close) ==
    /\ peer /\ pending # <<>>
    /\ wire' = wire \o Response(Head(pending), close)
    /\ pending' = IF close THEN <<>> ELSE Tail(pending)
    /\ peer' = ~close
    /\ UNCHANGED <<ssl, manager, strand, content, request, m_state,
                   m_not_reusable, parser, expired, socket, io, interims>>

\* The server closes the connection of its own accord.
ServerCloses ==
    /\ peer
    /\ peer' = FALSE
    /\ pending' = <<>>
    /\ UNCHANGED <<ssl, manager, strand, content, request, m_state,
                   m_not_reusable, parser, expired, socket, io, wire, interims>>

-----------------------------------------------------------------------------
ManagerStep == ManagerStart \/ ManagerCancel

StrandStep == StackStart \/ StackCancel

TransportStep ==
    \/ \E ec \in EC, k \in 1..MaxEndpoints : ResolveHandler(ec, k)
    \/ \E ec \in EC :
           \/ ConnectHandler(ec)
           \/ HandshakeHandler(ec)
           \/ WriteHandler(ec)
           \/ ReadError(ec)
    \/ \E j \in 1..Len(wire) : ReadData(j)
    \/ ReadRefused

ServerStep ==
    \/ ServerInterim
    \/ \E close \in BOOLEAN : ServerResponds(close)
    \/ ServerCloses

Next ==
    \/ ManagerStep
    \/ ManagerCompletion
    \/ StrandStep
    \/ TimerExpires
    \/ TimerHandler
    \/ TransportStep
    \/ ServerStep

Spec == Init /\ [][Next]_vars

\* Posted handlers run and a deadline passes.  Nothing is assumed of the
\* network or of the server.
Fairness ==
    /\ WF_vars(StrandStep)
    /\ WF_vars(TimerExpires)
    /\ WF_vars(TimerHandler)
    /\ WF_vars(ManagerCompletion)

FairSpec == Spec /\ Fairness

-----------------------------------------------------------------------------
(* Properties.                                                              *)

TypeOK ==
    /\ ssl \in BOOLEAN
    /\ started \in 0..MaxExchanges /\ handled \in 0..started
    /\ cancels \subseteq 1..MaxExchanges
    /\ strand \in Seq({"start", "cancel"})
    /\ {callback, current, m_result} \subseteq 0..MaxExchanges
    /\ m_state \in {"in_progress", "done"}
    /\ body_left \in 0..MaxBody
    /\ m_not_reusable \in BOOLEAN
    /\ parser \in {"start", "message", "dead"}
    /\ timer \in BOOLEAN
    /\ expired \subseteq 1..MaxExchanges
    /\ socket \in BOOLEAN
    /\ io \in Seq(Operation)
    /\ pending \in Seq(1..MaxExchanges)
    /\ wire \in Seq(Part)
    /\ peer \in BOOLEAN
    /\ interims \in 0..MaxInterim
    /\ completed \in Seq([exchange : 1..MaxExchanges, ec : EC,
                          response : 0..MaxExchanges])

\* Never two asynchronous operations at once: async_write and async_read_some
\* use the one m_write_buffer and the one m_read_buffer of the stack
\* (socket.h:69,80), and on_write keeps going after an error.
OneOperation == Len(io) <= 1

\* The exchanges complete one after the other, each once: the manager is told
\* of exchange i exactly once and before exchange i + 1 starts.
CompletedInOrder ==
    /\ \A i \in DOMAIN completed : completed[i].exchange = i
    /\ Len(completed) \in {started - 1, started}

\* A pooled stack is quiet: nothing of the last exchange can run into the next
\* one, no operation, no armed timer and no queued timer handler.
PooledQuiet ==
    Pooled => /\ io = <<>> /\ callback = 0 /\ m_state = "done"
              /\ ~timer /\ expired = {}

\* What an exchange reports is the server's answer to its own request: all of
\* it when there is no error, and after an error the head of it or nothing
\* (process_errors looks at the status code and Location even then).
OwnResponse ==
    \A i \in DOMAIN completed :
        /\ completed[i].response \in {0, i}
        /\ completed[i].ec = "none" => completed[i].response = i

\* As long as servers send one response to each request, what an exchange
\* reports is the server's answer to its own request, or the head of it or
\* nothing after an error, also when earlier exchanges on the connection were
\* cancelled or have timed out half-way.
ResponseMatches == interims = 0 => OwnResponse

\* An exchange times out only when its own deadline has passed: a timer handler
\* that was queued when its exchange completed does not complete the next one.
OwnTimeout ==
    [][Len(completed') > Len(completed) /\ completed'[Len(completed')].ec = "timed_out"
           => callback \in expired]_vars

\* Every exchange that is started completes, whatever network and server do.
EveryExchangeCompletes == \A i \in 1..MaxExchanges : started = i ~> Len(completed) >= i

\* The stack keeps its promise to the request manager, interim responses and
\* lost connections included (the contract does not speak of contents).
Contract == INSTANCE StackContract WITH completed <-
    [i \in DOMAIN completed |->
        [exchange |-> completed[i].exchange, ec |-> completed[i].ec]]
ImplementsContract == Contract!Spec
=============================================================================
