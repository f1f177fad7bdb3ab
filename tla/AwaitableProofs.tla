--------------------------- MODULE AwaitableProofs ---------------------------
(* Theorems about Awaitable, for any number of requests and coroutines and   *)
(* whether or not every awaiter is awaited at once.                          *)
EXTENDS Awaitable, TLAPS, SequenceTheorems

(***************************************************************************)
(* The inductive invariant.                                                 *)
(***************************************************************************)

Suspended(x) == [at |-> "suspended", request |-> x]

AwaitType ==
    /\ posted \subseteq Request
    /\ awaiter \in [Request -> Coroutine \cup {None}]
    /\ m_result \in [Request -> Request \cup {None}]
    /\ m_has_result = [x \in Request |-> FALSE]
    /\ m_coro \in [Request -> Coroutine \cup {None}]
    /\ m_has_handle \in [Request -> BOOLEAN]
    /\ coroutine \in [Coroutine -> [at : {"running", "not_ready", "suspended", "returned"},
                                    request : Request \cup {None}]]
    /\ got \in [Coroutine -> Seq(Request \X Request)]

\* A coroutine between await_ready and await_suspend has a request, and a
\* handle that is announced has been stored.
HandleStored ==
    /\ \A c \in Coroutine : coroutine[c].at = "not_ready" => coroutine[c].request \in Request
    /\ \A x \in Request : m_has_handle[x] => m_coro[x] \in Coroutine

\* The handler that is yet to run and will resume a coroutine finds it
\* suspended, and on the request of the handler (coro_handler.h:72-79): resuming
\* a coroutine that runs, or that waits for something else, is undefined.
ResumesSuspended ==
    \A x \in posted : m_has_handle[x] => coroutine[m_coro[x]] = Suspended(x)

\* A request whose result somebody has is over.
GotIsOver ==
    \A c \in Coroutine : \A i \in DOMAIN got[c] :
        LET x == got[c][i][1]
        IN x \notin posted /\ m_result[x] # None

AwaitInv == AwaitType /\ HandleStored /\ ResumesSuspended /\ GotIsOver /\ ReceivesOwnResult

(***************************************************************************)
(* Initially, and in every step.                                            *)
(***************************************************************************)

LEMMA InitAwait == Init => AwaitInv
<1> SUFFICES ASSUME Init PROVE AwaitInv
  OBVIOUS
<1>1. AwaitType
  BY EmptySeq DEF Init, AwaitType, Running
<1>2. HandleStored /\ ResumesSuspended
  BY DEF Init, HandleStored, ResumesSuspended, Running
<1>3. \A c \in Coroutine : DOMAIN got[c] = {}
  <2>1. DOMAIN <<>> = {}
    BY SMT
  <2> QED BY <2>1 DEF Init
<1>4. GotIsOver /\ ReceivesOwnResult
  BY <1>3 DEF GotIsOver, ReceivesOwnResult
<1> QED BY <1>1, <1>2, <1>4 DEF AwaitInv

LEMMA ExecuteRequestAwait ==
    ASSUME AwaitInv, NEW c \in Coroutine, NEW x \in Request, ExecuteRequest(c, x)
    PROVE  AwaitInv'
<1>1. /\ posted' = posted \cup {x} /\ Fresh(x)
      /\ awaiter' = [awaiter EXCEPT ![x] = c]
      /\ UNCHANGED <<m_result, m_has_result, m_coro, m_has_handle, coroutine, got>>
  BY DEF ExecuteRequest, shared_info
<1>2. AwaitType'
  BY <1>1 DEF AwaitInv, AwaitType
<1>3. ~m_has_handle[x]
  BY <1>1, NoneAssumption DEF AwaitInv, HandleStored, Fresh
<1>4. HandleStored' /\ ResumesSuspended' /\ ReceivesOwnResult'
  BY <1>1, <1>3 DEF AwaitInv, HandleStored, ResumesSuspended, ReceivesOwnResult, Suspended
<1>5. GotIsOver'
  BY <1>1 DEF AwaitInv, GotIsOver, Fresh
<1> QED BY <1>2, <1>4, <1>5 DEF AwaitInv

\* A coroutine that runs is not the one a handler will resume.
LEMMA RunningFree ==
    ASSUME AwaitInv, NEW c \in Coroutine, NEW s, coroutine[c].at # "suspended",
           coroutine' = [coroutine EXCEPT ![c] = s],
           NEW x \in posted, m_has_handle[x]
    PROVE  coroutine'[m_coro[x]] = Suspended(x)
<1>1. coroutine[m_coro[x]] = Suspended(x) /\ x \in Request
  BY DEF AwaitInv, ResumesSuspended, AwaitType
<1>2. m_coro[x] # c /\ m_coro[x] \in Coroutine
  BY <1>1 DEF AwaitInv, HandleStored, Suspended
<1> QED BY <1>1, <1>2 DEF AwaitInv, AwaitType

LEMMA AwaitReadyAwait ==
    ASSUME AwaitInv, NEW c \in Coroutine, NEW x \in Request, AwaitReady(c, x)
    PROVE  AwaitInv'
<1>1. ~m_has_result[x]
  BY DEF AwaitInv, AwaitType
<1>2. /\ coroutine[c] = Running
      /\ awaiter' = [awaiter EXCEPT ![x] = None]
      /\ coroutine' = [coroutine EXCEPT ![c] = [at |-> "not_ready", request |-> x]]
      /\ UNCHANGED <<posted, m_result, m_has_result, m_coro, m_has_handle, got>>
  BY <1>1 DEF AwaitReady, shared_info
<1>3. AwaitType'
  BY <1>2 DEF AwaitInv, AwaitType
<1>4. HandleStored'
  BY <1>2 DEF AwaitInv, AwaitType, HandleStored
<1>5. ResumesSuspended'
  <2>1. coroutine[c].at # "suspended"
    BY <1>2 DEF Running
  <2> QED BY <1>2, <2>1, RunningFree DEF ResumesSuspended
<1>6. GotIsOver' /\ ReceivesOwnResult'
  BY <1>2 DEF AwaitInv, GotIsOver, ReceivesOwnResult
<1> QED BY <1>3, <1>4, <1>5, <1>6 DEF AwaitInv

LEMMA AwaitSuspendAwait ==
    ASSUME AwaitInv, NEW c \in Coroutine, AwaitSuspend(c)
    PROVE  AwaitInv'
<1> DEFINE x == coroutine[c].request
<1>1. /\ coroutine[c].at = "not_ready"
      /\ m_coro' = [m_coro EXCEPT ![x] = c]
      /\ m_has_handle' = [m_has_handle EXCEPT ![x] = TRUE]
      /\ coroutine' = [coroutine EXCEPT ![c] = Suspended(x)]
      /\ UNCHANGED <<posted, awaiter, m_result, m_has_result, got>>
  BY DEF AwaitSuspend, Suspended
<1>2. x \in Request
  BY <1>1 DEF AwaitInv, HandleStored
<1> HIDE DEF x
<1>3. AwaitType'
  BY <1>1, <1>2 DEF AwaitInv, AwaitType, Suspended
<1>4. HandleStored'
  BY <1>1, <1>2 DEF AwaitInv, AwaitType, HandleStored, Suspended
<1>5. coroutine'[c] = Suspended(x) /\ m_coro'[x] = c
  BY <1>1, <1>2 DEF AwaitInv, AwaitType
<1>6. \A y \in Request : y # x => m_coro'[y] = m_coro[y] /\ m_has_handle'[y] = m_has_handle[y]
  BY <1>1 DEF AwaitInv, AwaitType
<1>7. ResumesSuspended'
  <2> SUFFICES ASSUME NEW y \in posted, m_has_handle'[y]
               PROVE  coroutine'[m_coro'[y]] = Suspended(y)
    BY <1>1 DEF ResumesSuspended
  <2>1. CASE y = x
    BY <1>5, <2>1
  <2>2. CASE y # x
    <3>1. y \in Request
      BY DEF AwaitInv, AwaitType
    <3>2. m_has_handle[y] /\ m_coro'[y] = m_coro[y]
      BY <1>6, <2>2, <3>1
    <3> QED BY <1>1, <3>2, RunningFree
  <2> QED BY <2>1, <2>2
<1>8. GotIsOver' /\ ReceivesOwnResult'
  BY <1>1 DEF AwaitInv, GotIsOver, ReceivesOwnResult
<1> QED BY <1>3, <1>4, <1>7, <1>8 DEF AwaitInv

\* A result is appended to what a coroutine has received.
LEMMA GotAppend ==
    ASSUME NEW S, NEW s \in Seq(S), NEW e \in S
    PROVE  \A i \in DOMAIN Append(s, e) :
               \/ i \in DOMAIN s /\ Append(s, e)[i] = s[i]
               \/ i = Len(s) + 1 /\ Append(s, e)[i] = e
  BY SMT

LEMMA CompletionHandlerAwait ==
    ASSUME AwaitInv, NEW x \in Request, CompletionHandler(x)
    PROVE  AwaitInv'
<1>1. /\ x \in posted /\ posted' = posted \ {x}
      /\ m_result' = [m_result EXCEPT ![x] = x]
      /\ UNCHANGED <<awaiter, m_has_result, m_coro, m_has_handle>>
  BY DEF CompletionHandler
<1>2. m_result'[x] = x /\ x # None /\ \A y \in Request : y # x => m_result'[y] = m_result[y]
  BY <1>1, NoneAssumption DEF AwaitInv, AwaitType
<1>3. CASE UNCHANGED <<coroutine, got>>
  <2>1. AwaitType'
    BY <1>1, <1>3 DEF AwaitInv, AwaitType
  <2>2. HandleStored' /\ ResumesSuspended' /\ ReceivesOwnResult'
    BY <1>1, <1>3 DEF AwaitInv, HandleStored, ResumesSuspended, ReceivesOwnResult, Suspended
  <2>3. GotIsOver'
    <3> SUFFICES ASSUME NEW c \in Coroutine, NEW i \in DOMAIN got[c]
                 PROVE  got[c][i][1] \notin posted' /\ m_result'[got[c][i][1]] # None
      BY <1>3 DEF GotIsOver
    <3>1. got[c][i][1] \in Request
      BY ElementOfSeq, LenProperties DEF AwaitInv, AwaitType
    <3> QED BY <1>1, <1>2, <3>1 DEF AwaitInv, GotIsOver
  <2> QED BY <2>1, <2>2, <2>3 DEF AwaitInv
<1>4. CASE m_has_handle[x] /\ AwaitResume(m_coro[x], x, x)
  <2> DEFINE d == m_coro[x]
             e == <<x, x>>
  <2>1. d \in Coroutine /\ coroutine[d] = Suspended(x)
    BY <1>1, <1>4 DEF AwaitInv, HandleStored, ResumesSuspended
  <2>2. /\ coroutine' = [coroutine EXCEPT ![d] = Running]
        /\ got' = [got EXCEPT ![d] = Append(@, e)]
    BY <1>4 DEF AwaitResume
  <2>3. /\ got \in [Coroutine -> Seq(Request \X Request)] /\ got[d] \in Seq(Request \X Request)
        /\ e \in Request \X Request
    BY <2>1 DEF AwaitInv, AwaitType
  <2> HIDE DEF d
  <2>4. Append(got[d], e) \in Seq(Request \X Request)
    BY <2>3, AppendProperties
  <2>5. AwaitType'
    <3>1. got' \in [Coroutine -> Seq(Request \X Request)]
      BY <2>2, <2>3, <2>4
    <3> QED BY <1>1, <2>2, <3>1 DEF AwaitInv, AwaitType, Running
  <2>6. HandleStored'
    BY <1>1, <2>1, <2>2 DEF AwaitInv, AwaitType, HandleStored, Running
  <2>7. ResumesSuspended'
    <3> SUFFICES ASSUME NEW y \in posted, y # x, m_has_handle[y]
                 PROVE  coroutine'[m_coro[y]] = Suspended(y)
      BY <1>1 DEF ResumesSuspended
    <3>1. y \in Request /\ coroutine[m_coro[y]] = Suspended(y)
      BY DEF AwaitInv, AwaitType, ResumesSuspended
    <3>2. m_coro[y] \in Coroutine /\ m_coro[y] # d
      BY <2>1, <3>1 DEF AwaitInv, HandleStored, Suspended
    <3> QED BY <2>2, <3>1, <3>2 DEF AwaitInv, AwaitType
  <2>8. \A c \in Coroutine : c # d => got'[c] = got[c]
    BY <2>2, <2>3
  <2>9. \A i \in DOMAIN got'[d] :
            \/ i \in DOMAIN got[d] /\ got'[d][i] = got[d][i]
            \/ i = Len(got[d]) + 1 /\ got'[d][i] = e
    <3>1. got'[d] = Append(got[d], e)
      BY <2>1, <2>2, <2>3
    <3> QED BY <2>3, <3>1, GotAppend
  <2>10. \A c \in Coroutine : \A i \in DOMAIN got'[c] :
             \/ i \in DOMAIN got[c] /\ got'[c][i] = got[c][i]
             \/ c = d /\ i = Len(got[d]) + 1 /\ got'[c][i] = e
    BY <2>1, <2>8, <2>9
  <2>11. \A c \in Coroutine : \A i \in DOMAIN got[c] :
             /\ got[c][i][1] \in Request /\ got[c][i][1] # x
             /\ got[c][i][1] \notin posted /\ m_result[got[c][i][1]] # None
             /\ got[c][i][2] = got[c][i][1]
    <3> SUFFICES ASSUME NEW c \in Coroutine, NEW i \in DOMAIN got[c]
                 PROVE  /\ got[c][i][1] \in Request /\ got[c][i][1] # x
                        /\ got[c][i][1] \notin posted /\ m_result[got[c][i][1]] # None
                        /\ got[c][i][2] = got[c][i][1]
      OBVIOUS
    <3>1. got[c][i][1] \in Request
      BY ElementOfSeq, LenProperties DEF AwaitInv, AwaitType
    <3> QED BY <1>1, <3>1 DEF AwaitInv, GotIsOver, ReceivesOwnResult
  <2>12. e[1] = x /\ e[2] = x
    OBVIOUS
  <2> HIDE DEF e
  <2>13. GotIsOver'
    <3> SUFFICES ASSUME NEW c \in Coroutine, NEW i \in DOMAIN got'[c]
                 PROVE  got'[c][i][1] \notin posted' /\ m_result'[got'[c][i][1]] # None
      BY DEF GotIsOver
    <3> QED BY <1>1, <1>2, <2>10, <2>11, <2>12
  <2>14. ReceivesOwnResult'
    <3> SUFFICES ASSUME NEW c \in Coroutine, NEW b \in Coroutine,
                        NEW i \in DOMAIN got'[c], NEW j \in DOMAIN got'[b]
                 PROVE  /\ got'[c][i][2] = got'[c][i][1]
                        /\ got'[c][i] = got'[b][j] => c = b /\ i = j
      BY DEF ReceivesOwnResult
    <3>1. got'[c][i][2] = got'[c][i][1]
      BY <2>10, <2>11, <2>12
    <3>2. CASE i \in DOMAIN got[c] /\ got'[c][i] = got[c][i]
               /\ j \in DOMAIN got[b] /\ got'[b][j] = got[b][j]
      BY <3>1, <3>2 DEF AwaitInv, ReceivesOwnResult
    <3>3. CASE i \in DOMAIN got[c] /\ got'[c][i] = got[c][i] /\ got'[b][j] = e
      BY <2>11, <2>12, <3>1, <3>3
    <3>4. CASE j \in DOMAIN got[b] /\ got'[b][j] = got[b][j] /\ got'[c][i] = e
      BY <2>11, <2>12, <3>1, <3>4
    <3>5. CASE c = d /\ i = Len(got[d]) + 1 /\ b = d /\ j = Len(got[d]) + 1
      BY <3>1, <3>5
    <3> QED BY <2>10, <3>2, <3>3, <3>4, <3>5
  <2> QED BY <2>5, <2>6, <2>7, <2>13, <2>14 DEF AwaitInv
<1> QED BY <1>3, <1>4 DEF CompletionHandler

LEMMA ReturnAwait ==
    ASSUME AwaitInv, NEW c \in Coroutine, Return(c)
    PROVE  AwaitInv'
<1>1. /\ coroutine[c] = Running
      /\ coroutine' = [coroutine EXCEPT ![c] = [at |-> "returned", request |-> None]]
      /\ UNCHANGED <<posted, awaiter, m_result, m_has_result, m_coro, m_has_handle, got>>
  BY DEF Return, shared_info
<1>2. coroutine[c].at # "suspended"
  BY <1>1 DEF Running
<1>3. AwaitType' /\ HandleStored'
  BY <1>1 DEF AwaitInv, AwaitType, HandleStored
<1>4. ResumesSuspended'
  BY <1>1, <1>2, RunningFree DEF ResumesSuspended
<1>5. GotIsOver' /\ ReceivesOwnResult'
  BY <1>1 DEF AwaitInv, GotIsOver, ReceivesOwnResult
<1> QED BY <1>3, <1>4, <1>5 DEF AwaitInv

LEMMA NextAwait == AwaitInv /\ [Next]_vars => AwaitInv'
<1> SUFFICES ASSUME AwaitInv, [Next]_vars PROVE AwaitInv'
  OBVIOUS
<1>1. CASE UNCHANGED vars
  BY <1>1 DEF vars, shared_info, AwaitInv, AwaitType, HandleStored, ResumesSuspended, GotIsOver,
              ReceivesOwnResult
<1> QED BY <1>1, ExecuteRequestAwait, AwaitReadyAwait, AwaitSuspendAwait, CompletionHandlerAwait,
           ReturnAwait DEF Next, CoroutineStep

(***************************************************************************)
(* The theorems.                                                            *)
(***************************************************************************)

\* A coroutine receives the result of the very request it awaits, and nobody
\* receives a result twice (coro_handler.h:52-58, 72-79), with any number of
\* coroutines and requests and however late the awaiters are awaited.
THEOREM ReceivesCorrect == Spec => []ReceivesOwnResult
<1>1. AwaitInv => ReceivesOwnResult
  BY DEF AwaitInv
<1> QED BY <1>1, InitAwait, NextAwait, PTL DEF Spec

\* m_coro.resume() is only ever called on a coroutine that is suspended, and
\* suspended on the request whose handler runs (coro_handler.h:75-78).
THEOREM ResumesCorrect == Spec => []ResumesSuspended
<1>1. AwaitInv => ResumesSuspended
  BY DEF AwaitInv
<1> QED BY <1>1, InitAwait, NextAwait, PTL DEF Spec
=============================================================================
