----------------------------- MODULE Awaitable -----------------------------
(* The use_coro completion token (interface/asio_http/coro_handler.h): how  *)
(* the result of a request reaches the coroutine that awaits it, and what   *)
(* is shared between the awaiter and the completion handler.                *)
(*                                                                          *)
(* A coroutine calls http_client::get or post with use_coro, which posts    *)
(* the request and returns an Awaiter, and awaits it.  Completion handlers  *)
(* are run by the only thread of the io_context, which runs the coroutines  *)
(* too.  The result of a request is named after it.                         *)
EXTENDS Naturals, Sequences

CONSTANTS
    Request,      \* requests made with use_coro
    Coroutine,    \* coroutines that make them
    AwaitAtOnce,  \* every awaiter is awaited before the coroutine goes on
    None

ASSUME NoneAssumption == None \notin Request \cup Coroutine
ASSUME ModeAssumption == AwaitAtOnce \in BOOLEAN

VARIABLES
    posted,        \* requests whose completion handler has yet to run
    awaiter,       \* who has the Awaiter of a request and has not awaited it
    m_result, m_has_result, m_coro, m_has_handle,  \* the shared_info of a request
    coroutine,     \* what a coroutine is doing, and with which request
    got            \* history: what each coroutine has received

shared_info == <<m_result, m_has_result, m_coro, m_has_handle>>
vars == <<posted, awaiter, shared_info, coroutine, got>>

-----------------------------------------------------------------------------
Running == [at |-> "running", request |-> None]
Executing(c) == coroutine[c].at \in {"running", "not_ready"}

Init ==
    /\ posted = {}
    /\ awaiter = [x \in Request |-> None]
    /\ m_result = [x \in Request |-> None]
    /\ m_has_result = [x \in Request |-> FALSE]
    /\ m_coro = [x \in Request |-> None]
    /\ m_has_handle = [x \in Request |-> FALSE]
    /\ coroutine = [c \in Coroutine |-> Running]
    /\ got = [c \in Coroutine |-> <<>>]

\* A request that has not been made yet: its result is neither awaited nor due.
Fresh(x) == x \notin posted /\ awaiter[x] = None /\ m_coro[x] = None /\ m_result[x] = None

\* http_client::execute_request with use_coro.
ExecuteRequest(c, x) ==
    /\ coroutine[c] = Running
    /\ Fresh(x)
    /\ AwaitAtOnce => \A y \in Request : awaiter[y] # c
    /\ posted' = posted \cup {x}
    /\ awaiter' = [awaiter EXCEPT ![x] = c]
    /\ UNCHANGED <<shared_info, coroutine, got>>

\* co_await continues in the coroutine: await_resume.
AwaitResume(c, x, result) ==
    /\ coroutine' = [coroutine EXCEPT ![c] = Running]
    /\ got' = [got EXCEPT ![c] = Append(@, <<x, result>>)]

\* co_await: await_ready.
AwaitReady(c, x) ==
    /\ coroutine[c] = Running
    /\ awaiter[x] = c
    /\ awaiter' = [awaiter EXCEPT ![x] = None]
    /\ IF m_has_result[x]
       THEN AwaitResume(c, x, m_result[x])
       ELSE /\ coroutine' = [coroutine EXCEPT ![c] = [at |-> "not_ready", request |-> x]]
            /\ UNCHANGED got
    /\ UNCHANGED <<posted, shared_info>>

\* Mutant of AwaitSuspend: the handle is not announced.
AwaitSuspendSilent(c) ==
    LET x == coroutine[c].request
    IN /\ coroutine[c].at = "not_ready"
       /\ m_coro' = [m_coro EXCEPT ![x] = c]
       /\ coroutine' = [coroutine EXCEPT ![c] = [at |-> "suspended", request |-> x]]
       /\ UNCHANGED <<posted, awaiter, m_result, m_has_result, m_has_handle, got>>

\* co_await: await_suspend, when await_ready has returned false.
AwaitSuspend(c) ==
    LET x == coroutine[c].request
    IN /\ coroutine[c].at = "not_ready"
       /\ m_coro' = [m_coro EXCEPT ![x] = c]
       /\ m_has_handle' = [m_has_handle EXCEPT ![x] = TRUE]
       /\ coroutine' = [coroutine EXCEPT ![c] = [at |-> "suspended", request |-> x]]
       /\ UNCHANGED <<posted, awaiter, m_result, m_has_result, got>>

\* Mutant of CompletionHandler: the coroutine is resumed before the result is
\* stored.
CompletionHandlerResumesFirst(x) ==
    /\ x \in posted
    /\ \A c \in Coroutine : ~Executing(c)
    /\ posted' = posted \ {x}
    /\ m_result' = [m_result EXCEPT ![x] = x]
    /\ IF m_has_handle[x]
       THEN AwaitResume(m_coro[x], x, m_result[x])
       ELSE UNCHANGED <<coroutine, got>>
    /\ UNCHANGED <<awaiter, m_has_result, m_coro, m_has_handle>>

\* completion_handler_type::operator(): the result is stored, m_has_result is
\* not touched, and the coroutine runs on inside the handler.
CompletionHandler(x) ==
    /\ x \in posted
    /\ \A c \in Coroutine : ~Executing(c)
    /\ posted' = posted \ {x}
    /\ m_result' = [m_result EXCEPT ![x] = x]
    /\ IF m_has_handle[x]
       THEN AwaitResume(m_coro[x], x, x)
       ELSE UNCHANGED <<coroutine, got>>
    /\ UNCHANGED <<awaiter, m_has_result, m_coro, m_has_handle>>

\* A coroutine returns, having awaited what it asked for.
Return(c) ==
    /\ coroutine[c] = Running
    /\ \A x \in Request : awaiter[x] # c
    /\ coroutine' = [coroutine EXCEPT ![c] = [at |-> "returned", request |-> None]]
    /\ UNCHANGED <<posted, awaiter, shared_info, got>>

-----------------------------------------------------------------------------
CoroutineStep(c) ==
    \/ \E x \in Request : ExecuteRequest(c, x) \/ AwaitReady(c, x)
    \/ AwaitSuspend(c)
    \/ Return(c)

Next ==
    \/ \E c \in Coroutine : CoroutineStep(c)
    \/ \E x \in Request : CompletionHandler(x)

\* A coroutine that runs goes on, and every request is answered
\* (EveryRequestAnswered of RequestManager).
Fairness ==
    /\ \A c \in Coroutine : WF_vars(CoroutineStep(c))
    /\ \A x \in Request : WF_vars(CompletionHandler(x))

Spec == Init /\ [][Next]_vars /\ Fairness

-----------------------------------------------------------------------------
(* Properties.                                                              *)

\* A coroutine receives the result of the very request it awaits, once, and
\* never the empty http_request_result of a new shared_info.
ReceivesOwnResult ==
    \A c, d \in Coroutine : \A i \in DOMAIN got[c], j \in DOMAIN got[d] :
        /\ got[c][i][2] = got[c][i][1]
        /\ got[c][i] = got[d][j] => c = d /\ i = j

\* Every coroutine that awaits a result is resumed.
EveryAwaitResumes ==
    \A c \in Coroutine, x \in Request :
        coroutine[c] = [at |-> "suspended", request |-> x] ~> coroutine[c] = Running
=============================================================================
