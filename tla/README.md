# A TLA+ model of asio_http

asio_http is an asynchronous HTTP client built on Boost.Asio. User code gives it
requests; it queues them, executes a limited number at a time over a pool of
connections, retries and redirects, and hands each result to a completion
handler, a future or a coroutine. This directory models the parts of it that
are concurrent or keep state, checks them with TLC and proves the central
invariants with TLAPS.

All paths below are relative to the repository's root; `internal/` stands for
`implementation/interface/asio_http/internal/`.

## 1. Inventory

| Component | State | Operations | Interacts with |
|---|---|---|---|
| `http_client` (`interface/asio_http/http_client.h`, `implementation/http_client.cpp`) | a shared `request_manager` | `execute_request`, `get`, `post`, `cancel_requests`, destructor | posts handlers to the manager's strand |
| request manager (`implementation/request_manager.cpp`, `internal/request_manager.h`, `request_data.h`) | `m_requests`, a multi-index container by state and creation time, by cancellation token and by connection | `execute_request`, `cancel_requests`, `on_request_completed`, `execute_waiting_requests`, all on `m_strand` | takes stacks from the pool, posts `start` and `cancel` to them, receives their completions |
| connection pool (`implementation/connection_pool.cpp`) | `m_connection_pool`: per (host, port) a `std::stack` of idle stacks | `get_connection`, `create_stack`, `release_connection` | called by the manager |
| error handling (`implementation/http_error_handling.cpp`) | none | `process_errors`: execute again, redirect or answer | called by `on_request_completed` |
| protocol stack: `http_content`, `encoding`, `http_client_connection`, `generic_stream` or `ssl_socket` (`internal/*.h`) | callback, timer, result; request buffers, parser; socket, read and write buffers | `start`, `cancel`, timer, `write_headers`, `on_connected`, `on_write`, `on_read`, resolve, connect and handshake handlers, `close` | the manager above, the network and the server below |
| `tuple_ptr` (`internal/tuple_ptr.h`) | owner count and weak count of a stack | copy, move, destroy, `shared_from_this` | every handler of a stack holds one |
| completion tokens (`interface/asio_http/coro_handler.h`, `future_handler.h`) | what awaiter and handler share | `await_ready`, `await_suspend`, `await_resume`, the completion handler | user code and the manager |
| response parser (`http_parser/http_parser.c`, vendored) and the callbacks that `http_client_connection` gives it | `struct http_parser` per stack; the current header and the headers so far | `http_parser_execute` per read, `on_header_field`, `on_header_value`, `on_headers_complete`, `on_body`, `on_message_complete` | driven by `on_read`; passes up to `http_content` |
| `url`, `data_source`, `data_sink`, `compression`, request and result values | values, stream positions, and zlib streams | parse and print, compress, read and write blocks, decompress | the stack |

What is hard here:

* **Two kinds of strand.** The manager's strand and the strand of every stack
  run independently. A cancel, a completion and the next start of the same
  stack cross each other.
* **Lookups by handle.** A completion finds its request by the stack's handle
  only. That is right only as long as a stack has one holder.
* **Wake-ups.** `execute_waiting_requests` starts at most one request per call.
  The queue moves only if each freed slot posts its own call.
* **Deadlines.** `m_timer.cancel()` does not stop a handler that is already
  queued, and the handler does not say which exchange it is for.
* **Connections that outlive their exchange.** After a timeout the stack goes on
  reading and writing; after a cancel it may still be resolving or connecting.
* **Exceptions.** A `Location` that is no URL and a certificate that cannot be
  loaded throw in the middle of a handler of the manager.
* **Cuts.** TCP delivers a response in pieces cut anywhere. The parser keeps part
  of its state in a struct and part in marks that live for one call, and the
  struct lives on from one response to the next.
* **Limits.** The header size, 64-bit lengths, 16-bit ports, blocks of 1024 bytes
  and zlib's output buffer each have a boundary that tests hardly reach.
* **Lifetime.** Handlers on several threads share a stack through a
  hand-written reference count with two counters.

What makes each component correct:

| Component | Properties |
|---|---|
| request manager | `ParallelBound`, `NoLostWakeup`, `AnswersOwnRequest`, `AbortedOnlyIfCancelled`, `AnsweredOnce`, `EveryRequestAnswered` |
| connection pool | `StackExclusive`, `StackServesHost`, `PoolBounded` |
| manager and stacks together | `NoCallbackOverwritten`, `Ownership`; `ImplementsContract` |
| protocol stack | `OneOperation`, `CompletedInOrder`, `PooledQuiet`, `ResponseMatches`, `OwnTimeout`, `EveryExchangeCompletes` |
| response parser and its callbacks | `DeliversResponse`, `AcceptsResponse`, `ReusableIffPersistent`, `HeaderBounded`, `LengthExact`, `AssertionsHold`, `EveryExchangeEnds` |
| `url` | `UrlAsDocumented`, `UrlRoundTrip` |
| body source and sink, compression | `BodyReceived`, `DecodedFaithfully`, `TransferEnds` |
| `tuple_ptr` | `NoUseAfterFree`, `DestroyedOnce`, `NeverBadPtr`, `NoLeak`, `LifeCycle` |
| coroutine token | `ReceivesOwnResult`, `EveryAwaitResumes` |

`PROJECT.json` lists every component, the hazards at their lines, and for each
definition the lines it models.

## 2. Modules

```
RequestManager ---- MCRequestManager                      (TLC)
      \------------ RequestManagerProofs                  (TLAPS)
                        \-- RequestManagerResultsProofs   (TLAPS)
HttpStack --------- StackContract                         (refinement)
      \------------ HttpStackProofs                       (TLAPS)
TuplePtr ---------- MCTuplePtr                            (TLC)
      \------------ TuplePtrProofs                        (TLAPS)
Awaitable --------- MCAwaitable                           (TLC)
      \------------ AwaitableProofs                       (TLAPS)
HttpParser -------- MCHttpParser                          (TLC)
      \------------ HttpParserProofs                      (TLAPS)
Url --------------- Transfer --- MCTransfer               (TLC)
                       \-------- TransferProofs           (TLAPS)
WellOrder: least and greatest elements, for the proofs
```

### RequestManager

The manager, its pool, `process_errors` and the calls of `http_client`.

* `request_state`, `m_connection`, `m_http_request`, `m_retries`,
  `m_cancellation_token` and `m_creation_time` are the fields of `request_data`.
  `request_state` has three more values: a request is `unborn` before it is
  made, `posted` while a handler has it that has not run, and `erased` once it
  has left `m_requests`. `m_http_request` is reduced to the host and port of the
  URL, all that the pool looks at.
* `strand` is the queue of handlers posted to `m_strand`; the action for a
  handler takes it off the head. There is one action for each of
  `execute_request`, `cancel_requests`, `on_request_completed` and the posted
  `execute_waiting_requests`. The call of `execute_waiting_requests` inside
  `execute_request` is part of the same action, on the container as it is then
  (`ExecuteWaitingRequests(rs)`).
* `pool` maps hosts to sequences, top last. `GetConnection` takes the top or
  makes a stack whose identity no reference holds (`Referenced`): addresses are
  used again, as on the heap.
* Of a stack the module keeps its queue `stack_strand[c]` and its armed
  `callback[c]`. `StackStart`, `StackComplete` and `StackCancel` are what
  `StackContract` promises.
* Ties in the order by state and creation time are broken arbitrarily. The
  creation time is any of `Time`: two threads may stamp in one order and post in
  the other.
* Errors are reduced to what `process_errors` tells apart: retryable (`"eof"`),
  none, `"failed"`, `"operation_aborted"`. A response may have a `Location`,
  whatever the error. The status codes 301 to 308 with a `Location` are one case.
* An exception leaves the handler at the statement that throws and keeps what
  was done before (`CreateStackThrows`, `RedirectionThrows`). It propagates out
  of `io_context::run`; the model continues with the next handler, as it does
  when the program calls `run` again.

### HttpStack

One stack with both transports, its timer, the manager's side of the protocol,
the network and a server.

* The manager starts exchanges 1, 2, ... on the stack, the next one only after
  the completion of the previous one has been processed and had no error
  (`Pooled`): an error drops the stack.
* `io` is the sequence of asynchronous operations under way. `doom` records that
  an operation was started on a closed socket or that its socket was closed, so
  that it can only fail. Every other operation may succeed or fail with `"eof"`
  or `"failed"`.
* A response on the `wire` is a head and a tail. `ReadData(j)` is one call of
  `on_read` with the first `j` parts: one read may bring half a response, all of
  it, or the end of one and the start of the next. The parser's state decides
  whether the data is accepted.
* `close`, the `Connection: close` of a response, makes the parser refuse all
  later data, as `http_parser` in strict mode does (`dead`), and sets
  `m_not_reusable`, which nothing reads.
* `WriteHandler` reports an error and then goes on, as `on_write` does.
* `ConnectHandler` goes on to the next endpoint for any error, the abort by a
  cancel included, which opens the closed socket again.

The module assumes **one thread** that runs the `io_context`, as the tests and
the documentation do. The timer handler is not bound to the stack's strand; with
several threads it races with the handlers of the stack. With one thread the
handlers run in the order in which they are queued, so a timer handler that was
queued when its exchange completed has run before `on_request_completed`
(`expired = {}` in `ManagerCompletion`), and `OwnTimeout` shows that this is
what keeps it from the next exchange.

### StackContract

What the manager relies on: an exchange that was started is reported exactly
once, as aborted only by a cancel, and a stack with no armed callback ignores a
cancel. It says nothing of contents: `RequestManager` lets a completion carry
any outcome. `HttpStack` implements it with its own variables, the response
removed from `completed` (`ImplementsContract`, safety and fairness).

### TuplePtr

One control block, threads, and pointers to it. Every step is one atomic
operation or one destructor: `release_shared` is split at its decrement, at each
`delete` and at the load and the decrement of `release_weak`;
`shared_from_this` is split between the look at the count and the increment.
`holder` says which thread (which handler) has a pointer. The counts start at
zero for one owner, as in the code. A stack is made once (`block = "none"`
before), and what happens after `"freed"` is nothing: the run ends.

### Awaitable

`use_coro`: the shared state of awaiter and completion handler, several
coroutines and requests on one thread. `AwaitAtOnce` says whether every awaiter
is awaited where it is obtained (`co_await client.get(...)`), as in
`test/coro_test.cpp`. The result of a request is named after the request.

### HttpParser

`http_parser_execute` for responses, in the strict mode it is built in, with the
callbacks and the `on_read` of `http_client_connection`. `HttpStack` treats a
response as a head and a tail; this module is what happens to its bytes.

* One step handles one byte in one parser state, as one pass through the switch
  does; there is one action for each `case`, or for a group of cases that only
  expect the next character. The two inner loops (header field and header value)
  take one step per byte and remember where they began (`start`), since they
  count what they passed only when they end.
* `parser` is `struct http_parser`. It is initialised once and serves every
  exchange. `mark` holds the marks, which are local to a call: `OnRead` sets the
  one that the first byte continues, `EndOfBuffer` hands over what is left.
* The buffer of a call is `wire[data .. last - 1]`, a read of any of `ReadSizes`.
* Bytes are strings. The words that are looked for are cut to the shortest that
  the matching tells apart (`Connection` and `Content-Length` still share the
  three letters that the states `h_C`, `h_CO` and `h_CON` match). `LOWER` is
  `c | 0x20`, which is no lower case for control characters.
* `content_length` has the width of `ULLONG_MAX`, which stands for 2^64 - 1 and,
  as in the code, for "no length".
* `request`, `upper` and `delivered` are `m_current_request`, what `on_headers`
  and `on_body` passed up, and that at the time of `message_complete`.
* After an error the parser returns at once for ever, so only `http_errno` is
  kept exactly then.
* A response in `Responses` carries what its sender means by it. The reference
  that `DeliversResponse` compares with is therefore not computed by a parser.

### Url and Transfer

`Url` is `get_url_components` and `to_string` as operators on sequences of
characters. The regular expression is modelled by the cut it makes: the groups
for host, port, path and query cannot overlap, so each takes all it can; the
protocol is greedy and ends at the last `://` behind which the rest matches.
A string is over `Char`: the characters of a host name, among them words that
the expression treats alike (`HostWord`), the digits, the three separators, and
what only a path or a query has (`OtherChar`).

`Transfer` follows one request and its attempts. Its constants say what callers
write and servers answer: parts in the documented format (`IsUrl`), and a body of
which a beginning is sent, in an encoding or not (`IsAnswer`). The caller writes
the parts of a url, `Init` makes the url of them (or the constructor throws); each attempt
builds the source (`Start`, `Deflate`, `Choose`), sends request line, headers
and blocks (`WriteHeaders`, `OnWrite`), receives a response in pieces
(`OnHeaders`, `OnBody`) until it is complete or the connection or the deadline
ends it (`CompleteRequest`), and decodes what is in the sink (`GetData`,
`Inflate`, `Uncompress`), which `complete_request` does even after an error.
A body of `n` bytes is `<<1, ..., n>>`, and its compressed form is made of
negative numbers. zlib is external: per call it writes at most the space it is
given, and whether it reports the end of the stream at once when the output
fills that space exactly is left open, as is the size of what it compresses.
What the bytes in the sink decode to is chosen when decoding begins
(`Decodings`): for intact bytes it is the beginning of the body that they stand
for. zlib notices damage only at an invalid code or at the checksum, so damaged
bytes decode to a beginning and then to up to `MaxWrong` bytes that the server
did not compress, written as 0 whatever they are, and `decompress_gzip` returns
them. A damaged stream is taken to fail in the end: the checksum detects it.

## 3. Runs

| Run | Bounds | Distinct states | Shows |
|---|---|---|---|
| `manager_queue` | 3 requests, 2 slots, 1 retry, 1 host, 4 stacks, 2 creation times | 1.5 million | slots are not wasted (`NoLostWakeup`); stacks, callbacks and completions stay with their requests |
| `manager_hosts` | 2 requests, 2 slots, 2 hosts with redirections between them, 4 stacks | 213,279 | a request runs on a stack for its host; pool and users of a host are within the slots; the inductive invariant `Ownership` |
| `manager_cancel` | 2 requests, 1 slot, 2 tokens, 1 cancel and the destructor, 3 stacks | 652,919 | a late cancel does not abort the next request on the stack; every request is answered |
| `manager_faults` | 3 requests, one that cannot be built, 2 slots, a bad `Location`, 5 stacks | 483,390 | exceptions do not make the manager exceed its slots or answer twice |
| `stack_exchanges` | 3 exchanges, 2 queued cancels, 1 body block, 2 endpoints, 1 interim response | 169,164 | one operation at a time, exchanges in order, quiet when pooled, own answers, own deadlines, completion, the contract |
| `tuple_ptr` | 3 threads, 4 pointers, 4 layers | 1,214 | no use after free, destroyed once, no leak |
| `await` | 3 requests, 2 coroutines | 412 | each coroutine is resumed, with its own result |
| `parser` | 343 responses and 6 that may follow, reads of 1, 4 or all bytes in any order, 2 exchanges, header limit 90, lengths of 7 bits | 711,838 | however it is cut and whatever came before, a response is passed up whole, once complete; limits and assertions hold; parsing ends |
| `transfer` | 480 urls; bodies of 0 to 5 bytes in blocks of 2 under 3 policies; 170 answers, damaged ones with up to 3 wrong bytes; 2 attempts | 404,571 | urls are found and printed as documented, bodies arrive, responses are decoded, all loops end |
| `transfer_request` | as `transfer` | violated | see section 6 |
| `manager_cancel_token` | 2 requests, 3 tokens | violated | see section 6 |
| `await_later` | 2 requests, 1 coroutine | violated | see section 6 |

**Why the bounds are enough.** A race in the manager needs a request in progress,
one waiting, and one that arrives; with two slots, the third request makes the
queue and both orders of two completions happen. One retry tells
`waiting_retry` from `waiting`. The bound on stacks (`Conn`) limits live stacks
only and was checked never to hold up the manager: in each run there is always
an unreferenced identity when `create_stack` is called. On one stack a third
exchange follows one that was reused, so that what the first leaves behind may
meet a fresh and a used second. Two queued cancels reach a stack that has
nothing to do. Two endpoints make the retry loop of `connect_handler` run, one
block of body the write loop. The parser's responses have each form of header,
length, chunk and `Connection` value once, at both ends of the headers, and a
stray byte in every place of two of them; reads of 1 byte give every cut, reads
of 4 cuts inside and between words, and one read of all bytes the rest. The
limit of 90 bytes is just above and just below two of the headers, and seven
bits hold lengths just below, at and above the limit of the overflow test.
A second exchange meets what the first left in the parser. Blocks of 2 bytes and
bodies of up to 5 give empty, partial, full and several blocks; an output buffer
of 2 does the same for zlib, and answers of 9 bytes packed in 1 make the buffer
of `decompress_deflate` grow twice. In `transfer`, urls, bodies and answers do
not influence each other and are varied one after the other.
`tuple_ptr` needs a thread that releases, one that
copies and one that gets the pointer moved; its theorems hold for any number.

**Symmetry** is used for requests and stacks in the runs without liveness, for
stacks alone where one request is singled out.

**Deadlock** is not an error where the system comes to rest: all requests
answered, all exchanges done, the stack freed, the coroutines returned.

**Fairness.** `RequestManager`: the manager's strand and each stack make progress
(the `io_context` is run, and a stack completes what it started: this is
`EveryExchangeCompletes`). User code need do nothing. `HttpStack`: posted
handlers run, the deadline passes and the timer handler runs. Nothing is assumed
of the network or of the server, both of which may be silent for ever.
`HttpParser`: code that runs goes on, and a read completes in the end, with data
or an error, since the deadline of the exchange closes nothing but ends it.
`Transfer`: the steps of the client are taken, and an attempt ends by its
response, its connection or its deadline.
`TuplePtr`: a thread finishes the function it is in. `Awaitable`: a running
coroutine goes on, and every request completes (`EveryRequestAnswered`).

Each property of a passing run has a mutant, a plausible mistake in one of the
definitions (`Mutant of ...` in the modules), under which TLC finds the property
violated.

## 4. Proofs

TLAPS checks the following for every value of the constants (any number of
requests, stacks, hosts, tokens, slots; of exchanges, cancels, endpoints and
blocks; of threads, pointers and layers; any responses in reads of any sizes; any
urls, bodies, blocks and buffers),
from the named assumptions of the modules. Each inductive invariant was
first checked with TLC on the run of its module.

`RequestManagerProofs`:

* `TypeCorrect`: `Spec => []TypeOK`. It includes that `m_retries` never passes
  `max_attempts`.
* `ParallelCorrect`: `Spec => []ParallelBound`, with exceptions. The invariant is
  inductive with `TypeOK`: only `ExecuteWaitingRequests` adds to the active
  requests, after it has compared their number. `Request` is assumed finite, so
  that cardinalities are numbers.
* `OwnershipCorrect`: `Spec => []Ownership` if `BadUrl \notin Location`.
  `Ownership` is the strengthening that the next four need. `AnswersOwnRequest`
  is not inductive: whether a completion finds its request depends on who may
  still start the stack, have a callback on it, or take it from the pool.
  `Ownership` says that an exchange is in one place at a time - a `start` in the
  stack's queue, an armed callback, or a completion in the manager's queue -
  that the stack's only holder is its request, and that pooled stacks have no
  holder. Each action moves the exchange from one place to the next. The
  assumption is needed: when `create_redirection` throws, the stack is in the
  pool and still held by its request.
* `ExclusiveCorrect`, `AnswersCorrect`, `CallbackCorrect`, `HostCorrect`:
  `StackExclusive`, `AnswersOwnRequest`, `NoCallbackOverwritten` and
  `StackServesHost` follow from `Ownership`, under the same assumption.

`RequestManagerResultsProofs`:

* `AnsweredCorrect`: `Spec => []AnsweredOnce`, with exceptions and without an
  assumption. The invariant `Once` adds to it that a request has a stack exactly
  while it is in progress and is posted to the manager once (`OnceCorrect`). A
  completion for a stack that nobody holds is then for nobody, and only a request
  that is not erased is answered.
* `AbortedCorrect`: `Spec => []AbortedOnlyIfCancelled` if `BadUrl \notin Location`.
  The invariant follows an abort back to its origin (`Meant`): a result that was
  passed on, a completion in the manager's queue, and a `cancel` in the queue of
  a stack. The last is the argument: a `cancel` in a stack's queue was meant for
  the armed callback and for every `start` before it in the queue. With a `start`
  behind it, `Ownership` says that no callback is armed, and the cancel does
  nothing.

* `WakeupCorrect`: `Spec => []NoLostWakeup` if `Unbuildable = {}`. The invariant
  is inductive by counting: a handler that frees n slots or makes n requests wait
  posts n wake-ups or starts one itself. The lemmas about `WakeUps` say
  what a queue gains and loses with `Append` and `Tail`. The assumption is needed:
  a `create_stack` that throws uses a wake-up and starts nothing.
* `PoolCorrect`: `Spec => []PoolBounded` if `BadUrl \notin Location`. A stack is
  pooled in the same step in which its request stops being in progress, and
  a request that is redirected changes its host in that step too.

`TuplePtrProofs`:

* `TypeCorrect` and `LifeCycleCorrect`: `LifeCycle` says what the two counts
  count (`CountsRight`), that the stack is whole while there is a pointer, that
  one thread destroys it from the first element to the last and how far it has
  come (`Progress`). The decrements and the destruction cannot be proved apart:
  that the weak count is not zero before the last `release_weak` depends on
  which elements are gone.
* `UseAfterFreeCorrect`, `DestroyedOnceCorrect`, `BadPtrCorrect` follow from it.

`HttpStackProofs`:

* `TypesAndTurns`: `Spec => [](TypeOK /\ Turns)`. `Turns` says that the stack is
  in one of three turns and what is true in each: the start of its latest
  exchange is posted and everything before it is over (`Posted`); the exchange is
  armed and has its own deadline (`Armed`); or it was reported (`Ended`), and if
  nothing has failed so far, no operation is left. None of the properties below
  is inductive alone: that one operation at most is under way depends on
  the manager never using a stack again after an error, and that on the order of
  the reports.
* `OneOperationCorrect`, `OrderCorrect`, `QuietCorrect` follow from it;
  `TimeoutCorrect` is the action property `OwnTimeout`, from `Turns` for each step.
* `ContractCorrect`: `HttpStack` implements the safety part of `StackContract`
  under the mapping of `ImplementsContract`: the initial states map to initial
  states and each step to a step or a stutter. The fairness of the contract stays
  with TLC.
* `ResponseCorrect`: `Spec => []ResponseMatches`. Its invariant `Own` says where
  the one answer to the latest request is: not sent, on the wire, or read up to
  the end of its head; before the request was written it is nowhere.

`AwaitableProofs`: `ReceivesCorrect` (`ReceivesOwnResult`) and `ResumesCorrect`
(`m_coro.resume()` is only called on a coroutine that is suspended on that very
request), both from `AwaitInv`, and both for awaiters that are awaited late too.
What fails then is only liveness (`await_later`).

`HttpParserProofs`, for every sequence of bytes:

* `ParserInvariant`: `Spec => []ParserInv`. Its parts are `ParserOK` (what the
  fields of `struct http_parser` say of one another: how far `index` may be in
  each header state, in which states there is a length and `F_CHUNKED`, what
  cannot be while a value is read), `Positions`, `Doing`, `Counted` (every byte of
  the header that is awaited has been counted in `nread`, or is passed by an inner
  loop), `Marks` (a mark is set only in the states that go on with what it
  marks) and `ClientOK`. There is one lemma per action.
* `ParserTypeCorrect`, `AssertionsCorrect` and `HeaderBoundCorrect` follow from it.
  `HeaderBounded` speaks of the response that is awaited
  (`m_state` is `in_progress`): the header of a second response in the same read
  begins anywhere in the buffer, so its end says nothing of its length. That no
  byte is missed is `Counted`; that bytes are counted twice at a cut
  (section 6) does no harm to the bound.
* `LengthsDoNotWrap`: `Spec => [][LengthRead]_vars`. A step that changes
  `content_length` while a Content-Length or a chunk size is read appends the
  digit at `p`; the test before the addition is strict enough that the remainder
  modulo 2^64 is the sum and the sum is not `ULLONG_MAX`. This is the arithmetic of
  `LengthExact`, for every width.
* `FieldCuts`, `ValueCuts` and `CutsKeepHeaders` are about cuts. The first two
  say that `on_header_field` and `on_header_value` leave the same request for two
  pieces as for the whole, the latter if the value has a character already: of an
  empty piece it makes an empty header. The third says that this is so wherever a
  read ends, for the first exchange. Its invariant `Begun` adds where the
  character is inside of a call: behind the mark of the value. For later exchanges
  it does not hold without more: see section 6.

`TransferProofs`:

* `BodyCorrect` and `DecodedCorrect`: `Spec => []BodyReceived` and
  `Spec => []DecodedFaithfully`. The invariant `TransferInv` says how far the body
  has come: the compressor has a beginning of the compressed form, the blocks that
  were written and what the source has left are the source (`Sending`), the sink
  has a beginning of what the server sends, in the encoding it named (`Sunk`), and
  what intact bytes inflate to is a beginning of the body they stand for
  (`Decoding`). Neither property is inductive: both speak of the end only.
  `DecodedFaithfully` says nothing of the bytes of a damaged gzip response, which
  may be wrong (section 6); of a deflate response it says that `uncompress` gives
  all or nothing, damaged or not, since the checksum is compared before.
* `UrlCorrect`: `Spec => []UrlAsDocumented`. Nothing changes the url, so the
  proof is about `get_url_components`. `Recognizes` and `Recognized`: the
  expression matches a string exactly if it is made of four parts as documented
  (`Fits`), and finds those parts. `WithProtocol`, `WithoutProtocol`: the greedy
  first group ends at the protocol if nothing behind it could end it later
  (`Quiet`).
* `RoundTripCorrect`: `Spec => []UrlRoundTrip`. `Origin` says that a url that was
  constructed came from such parts, with `Quiet` for the path and the query
  although they may contain `://`; printing them again therefore keeps them apart.
  The port needs that the recursive functions `Printed` and `Number` exist and are
  inverse to each other. This is an induction over numbers and over digits,
  done by the least counterexample that `WellOrder` gives.

**Assumptions of single theorems.** `BadUrl \notin Location` (no `Location` header
makes `create_redirection` throw) and `Unbuildable = {}` (`create_stack` does not
throw) are stated with the theorems that need them. Both leave the interesting
behaviour in: redirections, retries, cancels and errors of every kind.
`manager_faults` runs without them.

**Only model-checked:** in `HttpParser`, what the bytes of a response mean
(`DeliversResponse`, `AcceptsResponse`, `ReusableIffPersistent`, `LengthExact`): the
constants give the meaning of each response beside its bytes and no assumption
ties the two together; a theorem would need a grammar of responses, which would
be a second parser. What of them can be said without a grammar is proved: the
digits, the cuts, the assertions and the bound. And everything about liveness:
`EveryRequestAnswered`, `EveryExchangeCompletes`, `EveryAwaitResumes`,
`EveryExchangeEnds`, `TransferEnds`, `NoLeak` and the fairness in
`ImplementsContract`. Liveness under fairness and `ENABLED` are out of the
prover's reach, as are `RECURSIVE` operators and the induction theorems with an
operator as parameter; where a proof needs an induction or a first or a last
element, `WellOrder` gives a least or greatest element of the set in question.

## 5. What is not modelled

* Of `http_parser`: requests, URLs, pausing, lenient headers and CONNECT, which
  the client never uses, and the call with no bytes that tells it of the end of
  the connection, which the client never makes.
* The request headers of the caller (printed as they are) and the names of
  status codes.
* What zlib computes; a failure to initialise it for decompression.
* The bodies of user callbacks; the executor a completion handler is dispatched
  to; handlers that throw.
* Several threads in `HttpStack` and `Awaitable`: the timer handler and the
  awaiter are not synchronised with the handlers of the other thread, so that is
  a data race.
* The pool's key ignores the protocol; `Host` stands for that key, and the
  transport of a stack is fixed when it is made.
* Redirections in `Transfer`; `RequestManager` has them, with the url reduced to
  its host and port.
* loguru is vendored, the test server is no part of the client, `error.h` and
  logging are tables and text.

## 6. Where code and documents disagree

Runs that TLC must find violated:

* `manager_cancel_token`: `cancel_requests(token)` walks from the first request
  with the token to the *end* of the index, so greater tokens are cancelled too
  (`implementation/request_manager.cpp:63-71`).
* `await_later`: `m_has_result` is never set, so a coroutine that awaits a request
  after it has completed is not resumed.
* `transfer_request`: `print_request_headers` prints `m_url.path` alone
  (`internal/http_client_connection.h:81`); the query of a url, which
  `interface/asio_http/url.h:19` documents and `url` keeps, is never sent:
  any url with a query is a counterexample.

The modules show further facts that no run of their own asks about:

* `m_retries` is compared with `max_attempts`
  (`implementation/request_manager.cpp:105`), so a request is executed
  `max_attempts + 1` times, where `readme.md:116` and `readme.md:125` speak of the
  maximum number of attempts. `TypeOK` bounds the retries and would not show it.
* A cancelled request whose connection fails with a retryable error before the
  cancel runs on its stack is executed again (`Retry` looks at no cancellation).
* A 1xx response ends the exchange, and the final response answers the next one
  on the connection: `ResponseMatches` fails without `interims = 0`.
* With a `Location` that is no URL, or a request whose stack cannot be built, a
  request is never answered, and the latter blocks the queue:
  `EveryRequestAnswered` fails with `Location` or `Unbuildable` as in
  `manager_faults`.
* `m_not_reusable` is written and never read: a stack whose connection the server
  has said it closes is pooled, and the next request on it ends in an error (and
  is executed again if that error is the end of the stream).
* A response whose body is delimited by the end of the connection is never
  complete: the parser waits for the call with no bytes
  (`http_parser/http_parser.c:654`), and `on_read` reports the end as an error
  (`internal/http_client_connection.h:242`), after which the request is executed
  again. In `DeliversResponse` these are the responses without `ends`.
* A header that exceeds the limit with the last byte of a read is noticed one
  read later: `http_parser_execute` then returns the length of the buffer, which
  `on_read` takes for success.
* Each cut inside a header field or value makes the parser count one byte more,
  and the count is not reset after trailers; `AcceptsResponse` therefore speaks
  of headers of less than half the limit.
* A byte other than CR or LF after a response is refused, and the error stays in
  the parser: the next exchange on the connection fails.
* A whole response that follows another in the same read is parsed for the
  request that is done. If the read ends inside of one of its headers,
  `write_headers` makes new `request_buffers`, and the rest of that header is the
  beginning of the next response; `CutsKeepHeaders` therefore speaks of the first
  exchange.
* A 304 with a Content-Length, which HTTP allows, makes the parser wait for a
  body.
* A control character in the value of a header the parser does not know is
  refused only where a read begins with it.
* The first group of the expression in `implementation/url.cpp:26` is greedy, so a
  path or query that contains `://` moves the end of the protocol: of
  `http://a/b://c` the host is `c`. The format in `interface/asio_http/url.h:19`
  does not exclude such strings. `UrlAsDocumented` speaks of the others, and
  fails without `OneScheme`, in the initial state, for `h/h://h`.
* A port 0 is not printed by `to_string`; `UrlRoundTrip` leaves it out.
* A compressed request body is sent without `Content-Encoding`:
  `get_encoding_headers` has no caller.
* A gzip response that is cut yields its beginning, and a damaged one whatever
  zlib wrote before it noticed, wrong bytes included, both without an error:
  `decompress_gzip` only logs the failure (`implementation/compression.cpp:110-116`).
  `result = Bytes(Len(result))` fails for damaged answers.

## 7. What could follow

1. `CutsKeepHeaders` for later exchanges, under the assumption that a server sends
   nothing before it is asked.
2. A grammar of responses as a second definition of what their bytes mean, and
   `DeliversResponse` against it instead of against the constants.
3. `RequestManager` composed with `StackContract` for each stack, so that the
   assumption of the one is the promise of the other in one specification.
