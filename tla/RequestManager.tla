--------------------------- MODULE RequestManager ---------------------------
(* The request manager of asio_http: its queue of requests, its connection  *)
(* pool and the handlers that run on its strand                             *)
(* (implementation/request_manager.cpp, connection_pool.cpp,                *)
(* http_error_handling.cpp, http_client.cpp).                               *)
(*                                                                          *)
(* The manager's handlers run one at a time, in the order in which they     *)
(* were posted to m_strand; the variable strand is that queue.  Every       *)
(* protocol stack has a strand of its own, stack_strand[c], on which start  *)
(* and cancel run.  Of a stack this module keeps only what the manager can  *)
(* observe: whether a completion callback is armed, and for which request.  *)
(* The strands are run by any number of threads, so their steps interleave  *)
(* freely.  User code calls the public interface at any time.               *)
EXTENDS Naturals, Sequences, FiniteSets

CONSTANTS
    Request,      \* the requests user code may submit
    Conn,         \* heap identities of protocol stacks (a bound on live ones)
    Host,         \* the (host, port) pairs of request URLs and redirections
    Token,        \* cancellation tokens, ordered as strings are; 0 is ""
    Time,         \* values of m_creation_time
    MaxParallel,  \* http_client_settings::max_parallel_requests
    MaxAttempts,  \* http_client_settings::max_attempts
    Location,     \* Location headers a server may send
    Unbuildable,  \* requests for which create_stack throws
    MaxCancels,   \* bound: how often user code calls cancel_requests
    NoConn, NoRequest, NoLocation, NoHost,
    BadUrl        \* a Location header that url(location) cannot parse

ASSUME RequestAssumption == IsFiniteSet(Request) /\ NoRequest \notin Request
ASSUME ConnAssumption == NoConn \notin Conn
ASSUME OrderAssumption == Token \subseteq Nat /\ 0 \in Token /\ Time \subseteq Nat
ASSUME SettingsAssumption == MaxParallel \in Nat /\ MaxAttempts \in Nat
ASSUME LocationAssumption ==
    /\ Location \subseteq Host \cup {BadUrl}
    /\ NoLocation \notin Host \cup {BadUrl}
    /\ {BadUrl, NoHost} \cap Host = {}
ASSUME UnbuildableAssumption == Unbuildable \subseteq Request
ASSUME BoundAssumption == MaxCancels \in Nat

VARIABLES
    \* the fields of request_data, and where the request is
    request_state, m_connection, m_http_request, m_retries,
    m_cancellation_token, m_creation_time,
    pool,          \* connection_pool::m_connection_pool, top of stack last
    strand,        \* handlers posted to request_manager::m_strand
    stack_host,    \* http_content::m_host of each stack
    stack_strand,  \* handlers posted to each stack's strand
    callback,      \* the request of m_completed_request_callback
    open,          \* the http_client object has not been destroyed
    asked,         \* history: tokens given to cancel_requests
    cancelled,     \* history: requests a cancel_requests handler selected
    results        \* history: results passed to each completion handler

fields == <<m_http_request, m_retries, m_cancellation_token, m_creation_time>>
stacks == <<stack_strand, callback>>
history == <<asked, cancelled, results>>
vars == <<request_state, m_connection, fields, pool, strand, stack_host,
          stacks, open, history>>

-----------------------------------------------------------------------------
(* Data.                                                                    *)

\* Where a request_data object is: not created, captured by a posted handler,
\* in m_requests with its m_request_state, or erased from m_requests.
Queued == {"waiting_retry", "waiting"}
RequestState == {"unborn", "posted", "erased", "in_progress"} \cup Queued

\* The order of enum request_state.
Rank == [waiting_retry |-> 0, waiting |-> 1, in_progress |-> 2]

\* Error codes, up to what process_errors tells apart: "eof" stands for
\* broken_pipe, connection_reset, HPE_INVALID_EOF_STATE and eof; "failed" for
\* timed_out and every other error a stack reports by itself.
Retryable == {"eof"}
StackError == {"none", "failed"} \cup Retryable
EC == StackError \cup {"operation_aborted"}

MaybeLocation == Location \cup {NoLocation}

\* What a stack reports: the retryable errors make process_errors return
\* before it looks at the response.
Outcome == [ec : Retryable, location : {NoLocation}]
    \cup [ec : EC \ Retryable, location : MaybeLocation]

WakeUp == [op |-> "execute_waiting_requests"]
Completion == [op : {"on_request_completed"}, conn : Conn, req : Request,
               out : Outcome]
Message == [op : {"execute_request"}, req : Request]
    \cup [op : {"cancel_requests"}, token : Token]
    \cup Completion
    \cup {WakeUp}

Start(r) == [op |-> "start", req |-> r]
Cancel == [op |-> "cancel"]
StackMessage == {Start(r) : r \in Request} \cup {Cancel}

Elements(seq) == {seq[i] : i \in DOMAIN seq}
Top(stack) == stack[Len(stack)]
Pop(stack) == SubSeq(stack, 1, Len(stack) - 1)

Tracked(rs) == {r \in Request : rs[r] \in Queued \cup {"in_progress"}}
Waiting(rs) == {r \in Request : rs[r] \in Queued}
Active(rs) == {r \in Request : rs[r] = "in_progress"}

\* The stacks somebody holds a reference to; the others have been freed and a
\* new stack may get their address.
Referenced ==
    (UNION {Elements(pool[h]) : h \in Host})
    \cup {m_connection[r] : r \in Request}
    \cup {m.conn : m \in {n \in Elements(strand) : n.op = "on_request_completed"}}
    \cup {c \in Conn : stack_strand[c] # <<>> \/ callback[c] # NoRequest}

-----------------------------------------------------------------------------
Init ==
    /\ request_state = [r \in Request |-> "unborn"]
    /\ m_connection = [r \in Request |-> NoConn]
    /\ m_http_request = [r \in Request |-> NoHost]
    /\ m_retries = [r \in Request |-> 0]
    /\ m_cancellation_token = [r \in Request |-> 0]
    /\ m_creation_time = [r \in Request |-> 0]
    /\ pool = [h \in Host |-> <<>>]
    /\ strand = <<>>
    /\ stack_host = [c \in Conn |-> NoHost]
    /\ stack_strand = [c \in Conn |-> <<>>]
    /\ callback = [c \in Conn |-> NoRequest]
    /\ open = TRUE
    /\ asked = <<>>
    /\ cancelled = {}
    /\ results = [r \in Request |-> <<>>]
-----------------------------------------------------------------------------
(* http_client: what user code calls.                                       *)

\* http_client::execute_request: build the request_data, which stamps the
\* time, and post it.  Two threads may stamp in one order and post in the
\* other, so the time is any of Time.
ExecuteRequestAsync(r, h, t, now) ==
    /\ open
    /\ request_state[r] = "unborn"
    /\ request_state' = [request_state EXCEPT ![r] = "posted"]
    /\ m_http_request' = [m_http_request EXCEPT ![r] = h]
    /\ m_cancellation_token' = [m_cancellation_token EXCEPT ![r] = t]
    /\ m_creation_time' = [m_creation_time EXCEPT ![r] = now]
    /\ strand' = Append(strand, [op |-> "execute_request", req |-> r])
    /\ UNCHANGED <<m_connection, m_retries, pool, stack_host, stacks, open,
                   history>>

\* http_client::cancel_requests.
CancelRequestsAsync(t) ==
    /\ open
    /\ Len(asked) < MaxCancels
    /\ strand' = Append(strand, [op |-> "cancel_requests", token |-> t])
    /\ asked' = Append(asked, t)
    /\ UNCHANGED <<request_state, m_connection, fields, pool, stack_host,
                   stacks, open, cancelled, results>>

\* http_client::~http_client cancels every request.
DestroyClient ==
    /\ open
    /\ open' = FALSE
    /\ strand' = Append(strand, [op |-> "cancel_requests", token |-> 0])
    /\ asked' = Append(asked, 0)
    /\ UNCHANGED <<request_state, m_connection, fields, pool, stack_host,
                   stacks, cancelled, results>>

-----------------------------------------------------------------------------
(* request_manager::execute_waiting_requests and connection_pool.           *)

\* index_state.begin(): the smallest (state, creation time); ties are broken
\* by the history of the index, so either may come first.
NotAfter(rs, r, s) ==
    \/ Rank[rs[r]] < Rank[rs[s]]
    \/ /\ rs[r] = rs[s]
       /\ m_creation_time[r] <= m_creation_time[s]

Begin(rs) == {r \in Tracked(rs) : \A s \in Tracked(rs) : NotAfter(rs, r, s)}

\* Mutant of MayStart: one request too many.
MayStartOneMore(rs) ==
    {r \in Begin(rs) : /\ Cardinality(Active(rs)) <= MaxParallel
                       /\ rs[r] # "in_progress"}

\* The request that may be started now, if any.
MayStart(rs) ==
    {r \in Begin(rs) : /\ Cardinality(Active(rs)) < MaxParallel
                       /\ rs[r] # "in_progress"}

\* Mutant of PoolAfterGet: top() without pop().
PoolAfterTop(h) == pool

\* What get_connection leaves in the pool: it pops the stack it returns.
PoolAfterGet(h) == [pool EXCEPT ![h] = Pop(@)]

\* connection_pool::create_stack: c is a new stack for host h.
CreateStack(h, c) ==
    /\ c \notin Referenced
    /\ stack_host' = [stack_host EXCEPT ![c] = h]

\* Mutant of GetConnection: the pool is not looked up by host.
GetConnectionOfAnyHost(h, c) ==
    LET pooled == {g \in Host : pool[g] # <<>>}
    IN \/ /\ pooled = {}
          /\ CreateStack(h, c)
          /\ UNCHANGED pool
       \/ \E g \in pooled :
             /\ c = Top(pool[g])
             /\ pool' = PoolAfterGet(g)
             /\ UNCHANGED stack_host

\* Mutant of GetConnection: pooled stacks are never used again.
GetConnectionAlwaysNew(h, c) == CreateStack(h, c) /\ UNCHANGED pool

\* connection_pool::get_connection for host h returns c, which is pooled or new.
GetConnection(h, c) ==
    IF pool[h] = <<>>
    THEN CreateStack(h, c) /\ UNCHANGED pool
    ELSE /\ c = Top(pool[h])
         /\ pool' = PoolAfterGet(h)
         /\ UNCHANGED stack_host

\* Request r leaves the queue and is started on a stack.
StartRequest(rs, r) ==
    \E c \in Conn :
        /\ GetConnection(m_http_request[r], c)
        /\ request_state' = [rs EXCEPT ![r] = "in_progress"]
        /\ m_connection' = [m_connection EXCEPT ![r] = c]
        /\ stack_strand' = [stack_strand EXCEPT ![c] = Append(@, Start(r))]

\* create_stack throws before the request is touched.
CreateStackThrows(r) == r \in Unbuildable /\ pool[m_http_request[r]] = <<>>

\* At most one request is started.  rs is m_requests when the function is
\* called, which is not its value before the step when execute_request calls.
ExecuteWaitingRequests(rs) ==
    \/ \E r \in MayStart(rs) : ~CreateStackThrows(r) /\ StartRequest(rs, r)
    \/ /\ \/ MayStart(rs) = {}
          \/ \E r \in MayStart(rs) : CreateStackThrows(r)
       /\ request_state' = rs
       /\ UNCHANGED <<m_connection, pool, stack_host, stack_strand>>

-----------------------------------------------------------------------------
(* The handlers of the manager's strand.                                    *)

\* The handler at the head of the strand, which is taken off the queue.
Handling(op) == strand # <<>> /\ Head(strand).op = op

\* request_manager::execute_request.
ExecuteRequest ==
    /\ Handling("execute_request")
    /\ strand' = Tail(strand)
    /\ ExecuteWaitingRequests([request_state EXCEPT ![Head(strand).req] = "waiting"])
    /\ UNCHANGED <<fields, callback, open, history>>

\* The posted request_manager::execute_waiting_requests.
WakeUpHandler ==
    /\ Handling("execute_waiting_requests")
    /\ strand' = Tail(strand)
    /\ ExecuteWaitingRequests(request_state)
    /\ UNCHANGED <<fields, callback, open, history>>

\* The requests cancel_requests walks over: from find(token), or begin() for
\* the empty token, to the end of the index ordered by token.
Selected(t) ==
    {r \in Tracked(request_state) :
        \/ t = 0
        \/ /\ \E s \in Tracked(request_state) : m_cancellation_token[s] = t
           /\ m_cancellation_token[r] >= t}

\* Mutant of HandleCompleted: the request is not erased.
HandleCompletedKeeps(rs, ec) ==
    /\ results' = [r \in Request |->
           IF r \in rs THEN Append(results[r], ec) ELSE results[r]]
    /\ m_connection' = [r \in Request |->
           IF r \in rs THEN NoConn ELSE m_connection[r]]
    /\ strand' = Tail(strand) \o [i \in 1..Cardinality(rs) |-> WakeUp]
    /\ UNCHANGED request_state

\* handle_completed_request on every request of rs: the handler is invoked
\* with ec, the request is erased and one wake-up is posted.
HandleCompleted(rs, ec) ==
    /\ results' = [r \in Request |->
           IF r \in rs THEN Append(results[r], ec) ELSE results[r]]
    /\ request_state' = [r \in Request |->
           IF r \in rs THEN "erased" ELSE request_state[r]]
    /\ m_connection' = [r \in Request |->
           IF r \in rs THEN NoConn ELSE m_connection[r]]
    /\ strand' = Tail(strand) \o [i \in 1..Cardinality(rs) |-> WakeUp]

\* request_manager::cancel_requests and cancel_request: a request without a
\* stack is completed here, one with a stack has its stack cancelled.
CancelRequests ==
    /\ Handling("cancel_requests")
    /\ LET selected == Selected(Head(strand).token)
           idle == {r \in selected : m_connection[r] = NoConn}
           busy(c) == \E r \in selected : m_connection[r] = c
       IN /\ HandleCompleted(idle, "operation_aborted")
          /\ stack_strand' = [c \in Conn |->
                 IF busy(c) THEN Append(stack_strand[c], Cancel) ELSE stack_strand[c]]
          /\ cancelled' = cancelled \cup selected
    /\ UNCHANGED <<fields, pool, stack_host, callback, open, asked>>

\* connection_pool::release_connection: an error drops c and everything
\* pooled for its host.
ReleaseConnection(c, ec) ==
    pool' = [pool EXCEPT ![stack_host[c]] =
                IF ec = "none" THEN Append(@, c) ELSE <<>>]

\* process_errors: whether to execute again, and with which URL.
\* create_redirection throws on a Location that is no URL.
ExecuteAgain(out) == out.ec \in Retryable \/ out.location # NoLocation
NextUrl(out, h) == IF out.location = NoLocation THEN h ELSE out.location
RedirectionThrows(out) == out.location = BadUrl

\* Mutant of Retry: no wake-up is posted.
RetryWithoutPost(r, out) ==
    /\ m_http_request' = [m_http_request EXCEPT ![r] = NextUrl(out, @)]
    /\ m_connection' = [m_connection EXCEPT ![r] = NoConn]
    /\ request_state' = [request_state EXCEPT ![r] = "waiting_retry"]
    /\ m_retries' = [m_retries EXCEPT ![r] = @ + 1]
    /\ strand' = Tail(strand)
    /\ UNCHANGED results

\* Mutant of Retry: m_connection is not reset.
RetryKeepsConnection(r, out) ==
    /\ m_http_request' = [m_http_request EXCEPT ![r] = NextUrl(out, @)]
    /\ request_state' = [request_state EXCEPT ![r] = "waiting_retry"]
    /\ m_retries' = [m_retries EXCEPT ![r] = @ + 1]
    /\ strand' = Append(Tail(strand), WakeUp)
    /\ UNCHANGED <<m_connection, results>>

\* The retry branch of on_request_completed.
Retry(r, out) ==
    /\ m_http_request' = [m_http_request EXCEPT ![r] = NextUrl(out, @)]
    /\ m_connection' = [m_connection EXCEPT ![r] = NoConn]
    /\ request_state' = [request_state EXCEPT ![r] = "waiting_retry"]
    /\ m_retries' = [m_retries EXCEPT ![r] = @ + 1]
    /\ strand' = Append(Tail(strand), WakeUp)
    /\ UNCHANGED results

\* Mutant of AttemptsLeft: one more.
AttemptsLeftOneMore(r) == m_retries[r] <= MaxAttempts

\* Whether on_request_completed may execute r once more.
AttemptsLeft(r) == m_retries[r] < MaxAttempts

\* The answer branch of on_request_completed.
Answer(r, out) ==
    /\ HandleCompleted({r}, out.ec)
    /\ UNCHANGED <<m_http_request, m_retries>>

\* No request has the stack, or process_errors throws: only the pool changes.
Ignore ==
    /\ strand' = Tail(strand)
    /\ UNCHANGED <<request_state, m_connection, m_http_request, m_retries, results>>

\* request_manager::on_request_completed.  Several requests may have the same
\* stack only after process_errors has thrown; find() then returns any of them.
OnRequestCompleted ==
    /\ Handling("on_request_completed")
    /\ LET m == Head(strand)
           found == {r \in Request : m_connection[r] = m.conn}
       IN /\ ReleaseConnection(m.conn, m.out.ec)
          /\ \/ (found = {} \/ RedirectionThrows(m.out)) /\ Ignore
             \/ \E r \in found :
                  /\ ~RedirectionThrows(m.out)
                  /\ IF ExecuteAgain(m.out) /\ AttemptsLeft(r)
                     THEN Retry(r, m.out)
                     ELSE Answer(r, m.out)
    /\ UNCHANGED <<m_cancellation_token, m_creation_time, stack_host, stacks,
                   open, asked, cancelled>>

-----------------------------------------------------------------------------
(* The protocol stacks, as the manager sees them.                           *)

StackHandling(c, op) == stack_strand[c] # <<>> /\ Head(stack_strand[c]).op = op

TakeStackHandler(c) == stack_strand' = [stack_strand EXCEPT ![c] = Tail(@)]

\* Mutant of StackStart: start runs at once, before the cancels in the queue.
StackStartOvertakes(c) ==
    \E i \in DOMAIN stack_strand[c] :
        /\ stack_strand[c][i].op = "start"
        /\ stack_strand' = [stack_strand EXCEPT ![c] =
               SubSeq(@, 1, i - 1) \o SubSeq(@, i + 1, Len(@))]
        /\ callback' = [callback EXCEPT ![c] = stack_strand[c][i].req]
        /\ UNCHANGED <<request_state, m_connection, fields, pool, strand,
                       stack_host, open, history>>

\* http_content::start arms the completion callback.
StackStart(c) ==
    /\ StackHandling(c, "start")
    /\ TakeStackHandler(c)
    /\ callback' = [callback EXCEPT ![c] = Head(stack_strand[c]).req]
    /\ UNCHANGED <<request_state, m_connection, fields, pool, strand,
                   stack_host, open, history>>

\* http_content::complete_request with an armed callback: the manager's
\* on_request_completed is posted with the stack's handle.
Report(c, out) ==
    /\ strand' = Append(strand, [op |-> "on_request_completed", conn |-> c,
                                 req |-> callback[c], out |-> out])
    /\ callback' = [callback EXCEPT ![c] = NoRequest]

\* message_complete, on_error or the deadline timer completes the request.
StackComplete(c, out) ==
    /\ callback[c] # NoRequest
    /\ out.ec \in StackError
    /\ Report(c, out)
    /\ UNCHANGED <<request_state, m_connection, fields, pool, stack_host,
                   stack_strand, open, history>>

\* http_content::cancel: complete_request does nothing when no callback is
\* armed.
StackCancel(c, out) ==
    /\ StackHandling(c, "cancel")
    /\ out.ec = "operation_aborted"
    /\ TakeStackHandler(c)
    /\ IF callback[c] # NoRequest
       THEN Report(c, out)
       ELSE UNCHANGED <<strand, callback>>
    /\ UNCHANGED <<request_state, m_connection, fields, pool, stack_host,
                   open, history>>

-----------------------------------------------------------------------------
UserStep ==
    \/ \E r \in Request, h \in Host, t \in Token, now \in Time :
           ExecuteRequestAsync(r, h, t, now)
    \/ \E t \in Token : CancelRequestsAsync(t)
    \/ DestroyClient

ManagerStep ==
    \/ ExecuteRequest
    \/ WakeUpHandler
    \/ CancelRequests
    \/ OnRequestCompleted

StackStep(c) ==
    \/ StackStart(c)
    \/ \E out \in Outcome : StackComplete(c, out) \/ StackCancel(c, out)

Next == UserStep \/ ManagerStep \/ \E c \in Conn : StackStep(c)

Spec == Init /\ [][Next]_vars

\* The io_context is run, so the head of every strand is eventually handled,
\* and the deadline timer completes every request a stack has started.
Fairness == WF_vars(ManagerStep) /\ \A c \in Conn : WF_vars(StackStep(c))

FairSpec == Spec /\ Fairness
-----------------------------------------------------------------------------
(* Properties.                                                              *)

TypeOK ==
    /\ request_state \in [Request -> RequestState]
    /\ m_connection \in [Request -> Conn \cup {NoConn}]
    /\ m_http_request \in [Request -> Host \cup {NoHost}]
    /\ m_retries \in [Request -> 0..MaxAttempts]
    /\ m_cancellation_token \in [Request -> Token]
    /\ m_creation_time \in [Request -> Time \cup {0}]
    /\ pool \in [Host -> Seq(Conn)]
    /\ strand \in Seq(Message)
    /\ stack_host \in [Conn -> Host \cup {NoHost}]
    /\ stack_strand \in [Conn -> Seq(StackMessage)]
    /\ callback \in [Conn -> Request \cup {NoRequest}]
    /\ open \in BOOLEAN
    /\ asked \in Seq(Token)
    /\ cancelled \subseteq Request
    /\ results \in [Request -> Seq(EC)]

\* No more than max_parallel_requests requests are in progress, whatever the
\* order of submissions, completions, retries and wake-ups
\* (request_manager.cpp:129-132).
ParallelBound == Cardinality(Active(request_state)) <= MaxParallel

\* A stack is used by one request at a time: two requests in progress never
\* have the same one, and a pooled stack is pooled once, has no request and has
\* nothing left to do for an earlier one.
StackExclusive ==
    /\ \A r, s \in Active(request_state) :
           m_connection[r] = m_connection[s] => r = s
    /\ \A h \in Host : \A i, j \in DOMAIN pool[h] :
           pool[h][i] = pool[h][j] => i = j
    /\ \A h \in Host : \A c \in Elements(pool[h]) :
           /\ stack_host[c] = h
           /\ callback[c] = NoRequest
           /\ \A r \in Request : m_connection[r] # c /\ Start(r) \notin Elements(stack_strand[c])
           /\ \A m \in Elements(strand) : m.op = "on_request_completed" => m.conn # c

\* on_request_completed finds its request by the stack's handle: the request
\* found is the one the response is for, and there is only one
\* (request_manager.cpp:100-101).
AnswersOwnRequest ==
    \A i \in DOMAIN strand : strand[i].op = "on_request_completed" =>
        /\ {r \in Request : m_connection[r] = strand[i].conn} = {strand[i].req}
        /\ \A j \in DOMAIN strand :
               strand[j].op = "on_request_completed" /\ strand[j].conn = strand[i].conn
                   => i = j

\* http_content::start overwrites m_completed_request_callback without looking
\* at it (http_content.h:87): no start is queued on a stack whose callback is
\* armed, and never two.
NoCallbackOverwritten ==
    \A c \in Conn :
        LET starts == {i \in DOMAIN stack_strand[c] : stack_strand[c][i].op = "start"}
        IN Cardinality(starts) + (IF callback[c] # NoRequest THEN 1 ELSE 0) <= 1

\* execute_waiting_requests starts one request only, so every freed slot needs
\* a wake-up of its own: as long as requests wait and slots are free, enough
\* wake-ups are posted to fill the slots or empty the queue.
NoLostWakeup ==
    LET wakeups == Cardinality({i \in DOMAIN strand : strand[i] = WakeUp})
    IN \/ Cardinality(Waiting(request_state)) <= wakeups
       \/ MaxParallel <= Cardinality(Active(request_state)) + wakeups

\* A request runs on a stack connected to its own host and port, also after a
\* redirection has changed its URL.
StackServesHost ==
    \A r \in Active(request_state) : stack_host[m_connection[r]] = m_http_request[r]

\* The stacks pooled for a host and the ones in use for it are together at most
\* max_parallel_requests: the pool needs no limit of its own.
PoolBounded ==
    \A h \in Host :
        Len(pool[h]) + Cardinality({r \in Active(request_state) : m_http_request[r] = h})
            <= MaxParallel

\* A cancellation never hits a request it was not meant for: a cancel that is
\* still queued on a stack when its request completes does not abort the next
\* request on that stack.
AbortedOnlyIfCancelled ==
    /\ \A r \in Request : "operation_aborted" \in Elements(results[r]) => r \in cancelled
    /\ \A m \in Elements(strand) :
           m.op = "on_request_completed" /\ m.out.ec = "operation_aborted"
               => m.req \in cancelled

\* The completion handler is invoked at most once, and exactly when the request
\* leaves m_requests.
AnsweredOnce ==
    \A r \in Request : Len(results[r]) = (IF request_state[r] = "erased" THEN 1 ELSE 0)

\* Every request that is submitted is answered.
EveryRequestAnswered ==
    \A r \in Request : request_state[r] = "posted" ~> results[r] # <<>>

-----------------------------------------------------------------------------
(* The inductive invariant behind StackExclusive, AnswersOwnRequest,        *)
(* NoCallbackOverwritten and StackServesHost: an exchange is held by one    *)
(* request, and it is in one place at a time, a start in the queue of its   *)
(* stack, an armed callback or a completion in the queue of the manager.    *)

\* A request has a stack exactly while it is in progress.
HeldWhileActive ==
    \A r \in Request : m_connection[r] # NoConn <=> request_state[r] = "in_progress"

\* No stack has two holders.
OneHolder ==
    \A r, s \in Request :
        m_connection[r] = m_connection[s] /\ m_connection[r] # NoConn => r = s

\* A request has a URL from its creation on, and its stack is one for it.
HostKnown ==
    \A r \in Request :
        /\ request_state[r] # "unborn" => m_http_request[r] \in Host
        /\ m_connection[r] # NoConn => stack_host[m_connection[r]] = m_http_request[r]

\* A pooled stack is pooled once, for its own host, and has no holder.
PooledFree ==
    \A h \in Host : \A i \in DOMAIN pool[h] :
        /\ stack_host[pool[h][i]] = h
        /\ \A r \in Request : m_connection[r] # pool[h][i]
        /\ \A j \in DOMAIN pool[h] : pool[h][j] = pool[h][i] => j = i

\* A request is posted to the manager once.
PostedOnce ==
    \A i \in DOMAIN strand : strand[i].op = "execute_request" =>
        /\ request_state[strand[i].req] = "posted"
        /\ \A j \in DOMAIN strand :
               strand[j].op = "execute_request" /\ strand[j].req = strand[i].req => j = i

\* A queued start is for the holder of the stack, and the only one.
StartHeld ==
    \A c \in Conn : \A i \in DOMAIN stack_strand[c] : stack_strand[c][i].op = "start" =>
        /\ m_connection[stack_strand[c][i].req] = c
        /\ callback[c] = NoRequest
        /\ \A j \in DOMAIN stack_strand[c] : stack_strand[c][j].op = "start" => j = i

\* An armed callback is for the holder of the stack.
CallbackHeld ==
    \A c \in Conn : callback[c] # NoRequest => m_connection[callback[c]] = c

\* A queued completion is for the holder of the stack, which has nothing left
\* to do, and there is only one.
CompletionHeld ==
    \A i \in DOMAIN strand : strand[i].op = "on_request_completed" =>
        /\ m_connection[strand[i].req] = strand[i].conn
        /\ callback[strand[i].conn] = NoRequest
        /\ \A k \in DOMAIN stack_strand[strand[i].conn] :
               stack_strand[strand[i].conn][k].op # "start"
        /\ \A j \in DOMAIN strand :
               strand[j].op = "on_request_completed" /\ strand[j].conn = strand[i].conn
                   => j = i

\* Every exchange belongs to one request and is in one place (all the parts
\* above together).
Ownership ==
    /\ HeldWhileActive
    /\ OneHolder
    /\ HostKnown
    /\ PooledFree
    /\ PostedOnce
    /\ StartHeld
    /\ CallbackHeld
    /\ CompletionHeld

-----------------------------------------------------------------------------
(* What docs and tests say of the program and the code does not do.         *)

\* cancel_requests(token) cancels the requests that have the token
\* (test/http_test.cpp:114), or all of them when the token is empty.
CancelOnlyMatching ==
    \A r \in Request : "operation_aborted" \in Elements(results[r]) =>
        Elements(asked) \cap {0, m_cancellation_token[r]} # {}
=============================================================================
