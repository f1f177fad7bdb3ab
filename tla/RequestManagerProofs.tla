------------------------ MODULE RequestManagerProofs ------------------------
(* Theorems about RequestManager, for every value of its constants.         *)
EXTENDS RequestManager, TLAPS, FiniteSetTheorems, SequenceTheorems

(***************************************************************************)
(* Facts about the operators the model is built from.                       *)
(***************************************************************************)

\* Popping a stack leaves a stack of the same elements.
LEMMA PopType ==
    ASSUME NEW S, NEW s \in Seq(S)
    PROVE  Pop(s) \in Seq(S)
<1>1. Len(s) - 1 <= Len(s)
  BY LenProperties
<1>2. CASE Len(s) = 0
  BY <1>2, SMT DEF Pop
<1>3. CASE Len(s) # 0
  <2>1. \A i \in 1..(Len(s) - 1) : s[i] \in S
    BY <1>3, ElementOfSeq, LenProperties
  <2> QED BY <1>3, <2>1, LenProperties, SMT DEF Pop
<1> QED BY <1>2, <1>3

\* The top of a stack that is not empty is one of its elements.
LEMMA TopType ==
    ASSUME NEW S, NEW s \in Seq(S), s # <<>>
    PROVE  Top(s) \in S
  BY ElementOfSeq, LenProperties, EmptySeq, SMT DEF Top

\* The sets a handler's messages and outcomes come from.
LEMMA MessageTypes ==
    /\ WakeUp \in Message
    /\ \A r \in Request : [op |-> "execute_request", req |-> r] \in Message
    /\ \A t \in Token : [op |-> "cancel_requests", token |-> t] \in Message
    /\ \A c \in Conn, r \in Request, out \in Outcome :
           [op |-> "on_request_completed", conn |-> c, req |-> r, out |-> out] \in Message
    /\ \A r \in Request : Start(r) \in StackMessage
    /\ Cancel \in StackMessage
  BY DEF Message, WakeUp, Completion, StackMessage, Start, Cancel

\* What a message carries, by its op.
LEMMA MessageParts ==
    ASSUME NEW m \in Message
    PROVE  /\ m.op = "execute_request" => m.req \in Request
           /\ m.op = "cancel_requests" => m.token \in Token
           /\ m.op = "on_request_completed" =>
                  m.conn \in Conn /\ m.req \in Request /\ m.out \in Outcome
  BY DEF Message, WakeUp, Completion

LEMMA OutcomeType ==
    ASSUME NEW out \in Outcome
    PROVE  /\ out.ec \in EC
           /\ out.location \in Host \cup {BadUrl, NoLocation}
  BY LocationAssumption DEF Outcome, EC, StackError, Retryable, MaybeLocation

\* n wake-ups are a sequence of messages.
LEMMA WakeUpsType ==
    ASSUME NEW n \in Nat
    PROVE  [i \in 1..n |-> WakeUp] \in Seq(Message)
  BY MessageTypes, SMT

(***************************************************************************)
(* Type correctness.                                                        *)
(***************************************************************************)

\* execute_waiting_requests, called with any contents of m_requests.
LEMMA ExecuteWaitingType ==
    ASSUME TypeOK, NEW rs \in [Request -> RequestState], ExecuteWaitingRequests(rs)
    PROVE  /\ request_state' \in [Request -> RequestState]
           /\ m_connection' \in [Request -> Conn \cup {NoConn}]
           /\ pool' \in [Host -> Seq(Conn)]
           /\ stack_host' \in [Conn -> Host \cup {NoHost}]
           /\ stack_strand' \in [Conn -> Seq(StackMessage)]
<1>1. CASE request_state' = rs /\ UNCHANGED <<m_connection, pool, stack_host, stack_strand>>
  BY <1>1 DEF TypeOK
<1>2. ASSUME NEW r \in MayStart(rs), StartRequest(rs, r)
      PROVE  /\ request_state' \in [Request -> RequestState]
             /\ m_connection' \in [Request -> Conn \cup {NoConn}]
             /\ pool' \in [Host -> Seq(Conn)]
             /\ stack_host' \in [Conn -> Host \cup {NoHost}]
             /\ stack_strand' \in [Conn -> Seq(StackMessage)]
  <2>1. r \in Request
    BY DEF MayStart, Begin, Tracked
  <2>2. PICK c \in Conn :
          /\ GetConnection(m_http_request[r], c)
          /\ request_state' = [rs EXCEPT ![r] = "in_progress"]
          /\ m_connection' = [m_connection EXCEPT ![r] = c]
          /\ stack_strand' = [stack_strand EXCEPT ![c] = Append(@, Start(r))]
    BY <1>2 DEF StartRequest
  <2>3. request_state' \in [Request -> RequestState]
    BY <2>2 DEF RequestState
  <2>4. m_connection' \in [Request -> Conn \cup {NoConn}]
    BY <2>2 DEF TypeOK
  <2>5. Append(stack_strand[c], Start(r)) \in Seq(StackMessage)
    BY <2>1, MessageTypes, AppendProperties DEF TypeOK
  <2>6. stack_strand' \in [Conn -> Seq(StackMessage)]
    BY <2>2, <2>5 DEF TypeOK
  <2>7. \A h \in Host : Pop(pool[h]) \in Seq(Conn)
    BY PopType DEF TypeOK
  <2>8. pool' \in [Host -> Seq(Conn)]
    <3>1. pool \in [Host -> Seq(Conn)]
      BY DEF TypeOK
    <3>2. pool' = pool \/ pool' = PoolAfterGet(m_http_request[r])
      BY <2>2 DEF GetConnection, CreateStack
    <3>3. PoolAfterGet(m_http_request[r]) \in [Host -> Seq(Conn)]
      BY <2>7, <3>1 DEF PoolAfterGet
    <3> QED BY <3>1, <3>2, <3>3
  <2>9. m_http_request[r] \in Host \cup {NoHost}
    BY <2>1 DEF TypeOK
  <2>10. stack_host' \in [Conn -> Host \cup {NoHost}]
    BY <2>2, <2>9 DEF TypeOK, GetConnection, CreateStack
  <2> QED BY <2>3, <2>4, <2>6, <2>8, <2>10
<1> QED BY <1>1, <1>2 DEF ExecuteWaitingRequests

\* handle_completed_request on a set of requests.
LEMMA HandleCompletedType ==
    ASSUME TypeOK, strand # <<>>, NEW rs \in SUBSET Request, NEW ec \in EC,
           HandleCompleted(rs, ec)
    PROVE  /\ request_state' \in [Request -> RequestState]
           /\ m_connection' \in [Request -> Conn \cup {NoConn}]
           /\ results' \in [Request -> Seq(EC)]
           /\ strand' \in Seq(Message)
<1>1. Cardinality(rs) \in Nat
  BY RequestAssumption, FS_Subset, FS_CardinalityType
<1>2. Tail(strand) \in Seq(Message)
  BY HeadTailProperties DEF TypeOK
<1>3. strand' \in Seq(Message)
  BY <1>1, <1>2, WakeUpsType, ConcatProperties DEF HandleCompleted
<1>4. \A r \in Request : Append(results[r], ec) \in Seq(EC)
  BY AppendProperties DEF TypeOK
<1>5. results' \in [Request -> Seq(EC)]
  BY <1>4 DEF TypeOK, HandleCompleted
<1>6. /\ request_state' \in [Request -> RequestState]
      /\ m_connection' \in [Request -> Conn \cup {NoConn}]
  BY DEF TypeOK, HandleCompleted, RequestState
<1> QED BY <1>3, <1>5, <1>6

LEMMA InitType == Init => TypeOK
  BY SettingsAssumption, OrderAssumption, EmptySeq
  DEF Init, TypeOK, RequestState, Queued

LEMMA NextType == TypeOK /\ [Next]_vars => TypeOK'
<1> SUFFICES ASSUME TypeOK, [Next]_vars PROVE TypeOK'
  OBVIOUS
<1>1. ASSUME NEW r \in Request, NEW h \in Host, NEW t \in Token, NEW now \in Time,
             ExecuteRequestAsync(r, h, t, now)
      PROVE  TypeOK'
  <2>1. strand' \in Seq(Message)
    BY <1>1, MessageTypes, AppendProperties DEF ExecuteRequestAsync, TypeOK
  <2> QED BY <1>1, <2>1 DEF ExecuteRequestAsync, TypeOK, RequestState, stacks, history
<1>2. ASSUME NEW t \in Token, CancelRequestsAsync(t) PROVE TypeOK'
  <2>1. strand' \in Seq(Message) /\ asked' \in Seq(Token)
    BY <1>2, MessageTypes, AppendProperties DEF CancelRequestsAsync, TypeOK
  <2> QED BY <1>2, <2>1 DEF CancelRequestsAsync, TypeOK, fields, stacks
<1>3. CASE DestroyClient
  <2>1. strand' \in Seq(Message) /\ asked' \in Seq(Token)
    BY <1>3, MessageTypes, OrderAssumption, AppendProperties DEF DestroyClient, TypeOK
  <2> QED BY <1>3, <2>1 DEF DestroyClient, TypeOK, fields, stacks
<1>4. CASE ExecuteRequest
  <2>1. strand # <<>> /\ Tail(strand) \in Seq(Message)
    BY <1>4, HeadTailProperties DEF ExecuteRequest, Handling, TypeOK
  <2>2. [request_state EXCEPT ![Head(strand).req] = "waiting"] \in [Request -> RequestState]
    BY DEF TypeOK, RequestState, Queued
  <2> QED BY <1>4, <2>1, <2>2, ExecuteWaitingType DEF ExecuteRequest, TypeOK, fields, history
<1>5. CASE WakeUpHandler
  <2>1. strand # <<>> /\ Tail(strand) \in Seq(Message)
    BY <1>5, HeadTailProperties DEF WakeUpHandler, Handling, TypeOK
  <2>2. request_state \in [Request -> RequestState]
    BY DEF TypeOK
  <2> QED BY <1>5, <2>1, <2>2, ExecuteWaitingType DEF WakeUpHandler, TypeOK, fields, history
<1>6. CASE CancelRequests
  <2> DEFINE selected == Selected(Head(strand).token)
             idle == {r \in selected : m_connection[r] = NoConn}
             busy(c) == \E r \in selected : m_connection[r] = c
  <2>1. strand # <<>>
    BY <1>6 DEF CancelRequests, Handling
  <2>2. selected \subseteq Request /\ idle \in SUBSET Request
    BY DEF Selected, Tracked
  <2>3. HandleCompleted(idle, "operation_aborted")
    BY <1>6 DEF CancelRequests
  <2>4. /\ request_state' \in [Request -> RequestState]
        /\ m_connection' \in [Request -> Conn \cup {NoConn}]
        /\ results' \in [Request -> Seq(EC)]
        /\ strand' \in Seq(Message)
    <3> HIDE DEF idle
    <3> QED BY <2>1, <2>2, <2>3, HandleCompletedType DEF EC
  <2>5. stack_strand' = [c \in Conn |->
            IF busy(c) THEN Append(stack_strand[c], Cancel) ELSE stack_strand[c]]
    BY <1>6 DEF CancelRequests
  <2>6. \A c \in Conn : Append(stack_strand[c], Cancel) \in Seq(StackMessage)
    BY MessageTypes, AppendProperties DEF TypeOK
  <2>7. stack_strand' \in [Conn -> Seq(StackMessage)]
    <3> HIDE DEF busy
    <3> QED BY <2>5, <2>6 DEF TypeOK
  <2>8. cancelled' \subseteq Request
    BY <1>6, <2>2 DEF CancelRequests, TypeOK
  <2> QED BY <1>6, <2>4, <2>7, <2>8 DEF CancelRequests, TypeOK, fields
<1>7. CASE OnRequestCompleted
  <2> DEFINE m == Head(strand)
             found == {r \in Request : m_connection[r] = m.conn}
  <2>1. strand # <<>> /\ Tail(strand) \in Seq(Message) /\ m \in Message
    BY <1>7, HeadTailProperties DEF OnRequestCompleted, Handling, TypeOK
  <2>2. m.conn \in Conn /\ m.out \in Outcome
    BY <1>7, <2>1, MessageParts DEF OnRequestCompleted, Handling
  <2>3. m.out.ec \in EC /\ m.out.location \in Host \cup {BadUrl, NoLocation}
    BY <2>2, OutcomeType
  <2>4. pool' \in [Host -> Seq(Conn)]
    <3>1. \A h \in Host : Append(pool[h], m.conn) \in Seq(Conn)
      BY <2>2, AppendProperties DEF TypeOK
    <3>2. ReleaseConnection(m.conn, m.out.ec)
      BY <1>7 DEF OnRequestCompleted
    <3> HIDE DEF m
    <3> QED BY <3>1, <3>2, EmptySeq DEF ReleaseConnection, TypeOK
  <2> DEFINE Changed == /\ request_state' \in [Request -> RequestState]
                        /\ m_connection' \in [Request -> Conn \cup {NoConn}]
                        /\ m_http_request' \in [Request -> Host \cup {NoHost}]
                        /\ m_retries' \in [Request -> 0..MaxAttempts]
                        /\ results' \in [Request -> Seq(EC)]
                        /\ strand' \in Seq(Message)
  <2>5. ASSUME Ignore PROVE Changed
    BY <2>1, <2>5 DEF Ignore, TypeOK
  <2>6. ASSUME NEW r \in found, ~RedirectionThrows(m.out), Retry(r, m.out), AttemptsLeft(r)
        PROVE  Changed
    <3>1. strand' \in Seq(Message)
      BY <2>1, <2>6, MessageTypes, AppendProperties DEF Retry
    <3>2. \A h \in Host \cup {NoHost} : NextUrl(m.out, h) \in Host \cup {NoHost}
      BY <2>3, <2>6 DEF NextUrl, RedirectionThrows
    <3>3. m_http_request' \in [Request -> Host \cup {NoHost}]
      <4> HIDE DEF m
      <4> QED BY <2>6, <3>2 DEF Retry, TypeOK
    <3>4. m_retries[r] + 1 \in 0..MaxAttempts
      BY <2>6, SettingsAssumption DEF AttemptsLeft, TypeOK
    <3>5. m_retries' \in [Request -> 0..MaxAttempts]
      BY <2>6, <3>4 DEF Retry, TypeOK
    <3> QED BY <2>6, <3>1, <3>3, <3>5 DEF Retry, TypeOK, RequestState, Queued
  <2>7. ASSUME NEW r \in found, Answer(r, m.out) PROVE Changed
    <3>1. HandleCompleted({r}, m.out.ec) /\ {r} \in SUBSET Request
      BY <2>7 DEF Answer
    <3>2. UNCHANGED <<m_http_request, m_retries>>
      BY <2>7 DEF Answer
    <3> HIDE DEF m
    <3> QED BY <2>1, <2>3, <3>1, <3>2, HandleCompletedType DEF TypeOK
  <2>8. Changed
    <3> HIDE DEF Changed
    <3> QED BY <1>7, <2>5, <2>6, <2>7 DEF OnRequestCompleted
  <2> QED BY <1>7, <2>4, <2>8 DEF OnRequestCompleted, TypeOK, stacks
<1>8. ASSUME NEW c \in Conn, StackStart(c) PROVE TypeOK'
  <2>1. /\ stack_strand[c] \in Seq(StackMessage) /\ stack_strand[c] # <<>>
        /\ Head(stack_strand[c]).op = "start"
    BY <1>8 DEF StackStart, StackHandling, TypeOK
  <2>2. Tail(stack_strand[c]) \in Seq(StackMessage) /\ Head(stack_strand[c]) \in StackMessage
    BY <2>1, HeadTailProperties
  <2>3. Head(stack_strand[c]).req \in Request
    BY <2>1, <2>2 DEF StackMessage, Start, Cancel
  <2> QED BY <1>8, <2>2, <2>3 DEF StackStart, TakeStackHandler, TypeOK, fields, history
<1>9. ASSUME NEW c \in Conn, NEW out \in Outcome, callback[c] # NoRequest, Report(c, out)
      PROVE  /\ strand' \in Seq(Message)
             /\ callback' \in [Conn -> Request \cup {NoRequest}]
  <2>1. callback[c] \in Request
    BY <1>9 DEF TypeOK
  <2> QED BY <1>9, <2>1, MessageTypes, AppendProperties DEF Report, TypeOK
<1>10. ASSUME NEW c \in Conn, NEW out \in Outcome, StackComplete(c, out) PROVE TypeOK'
  BY <1>9, <1>10 DEF StackComplete, TypeOK, fields, history
<1>11. ASSUME NEW c \in Conn, NEW out \in Outcome, StackCancel(c, out) PROVE TypeOK'
  <2>1. Tail(stack_strand[c]) \in Seq(StackMessage)
    BY <1>11, HeadTailProperties DEF StackCancel, StackHandling, TypeOK
  <2>2. stack_strand' \in [Conn -> Seq(StackMessage)]
    BY <1>11, <2>1 DEF StackCancel, TakeStackHandler, TypeOK
  <2>3. strand' \in Seq(Message) /\ callback' \in [Conn -> Request \cup {NoRequest}]
    BY <1>9, <1>11 DEF StackCancel, TypeOK
  <2> QED BY <1>11, <2>2, <2>3 DEF StackCancel, TypeOK, fields, history
<1>12. CASE UNCHANGED vars
  BY <1>12 DEF vars, fields, stacks, history, TypeOK
<1> QED
  BY <1>1, <1>2, <1>3, <1>4, <1>5, <1>6, <1>7, <1>8, <1>10, <1>11, <1>12
  DEF Next, UserStep, ManagerStep, StackStep

\* Every reachable state is well typed; in particular no request is retried
\* more than max_attempts times (request_manager.cpp:105).
THEOREM TypeCorrect == Spec => []TypeOK
  BY InitType, NextType, PTL DEF Spec

(***************************************************************************)
(* At most max_parallel_requests requests are in progress.                  *)
(***************************************************************************)

\* The number of requests in progress is a number, and fewer requests in
\* progress are not more.
LEMMA ActiveFinite ==
    ASSUME NEW rs, NEW ss
    PROVE  /\ IsFiniteSet(Active(rs)) /\ Cardinality(Active(rs)) \in Nat
           /\ Active(ss) \subseteq Active(rs) =>
                  Cardinality(Active(ss)) <= Cardinality(Active(rs))
<1>1. Active(rs) \subseteq Request
  BY DEF Active
<1>2. IsFiniteSet(Active(rs)) /\ Cardinality(Active(rs)) \in Nat
  BY <1>1, RequestAssumption, FS_Subset, FS_CardinalityType
<1> QED BY <1>2, FS_Subset

\* Starting a request keeps the bound.
LEMMA ExecuteWaitingParallel ==
    ASSUME TypeOK, ParallelBound, NEW rs \in [Request -> RequestState],
           Active(rs) \subseteq Active(request_state), ExecuteWaitingRequests(rs)
    PROVE  ParallelBound'
<1>1. CASE request_state' = rs
  BY <1>1, ActiveFinite, SettingsAssumption DEF ParallelBound
<1>2. ASSUME NEW r \in MayStart(rs), request_state' = [rs EXCEPT ![r] = "in_progress"]
      PROVE  ParallelBound'
  <2>1. Cardinality(Active(rs)) < MaxParallel
    BY DEF MayStart
  <2>2. Active(request_state') = Active(rs) \cup {r}
    BY <1>2 DEF Active, MayStart, Begin, Tracked
  <2>3. IsFiniteSet(Active(rs)) /\ Cardinality(Active(rs)) \in Nat
    BY ActiveFinite
  <2>4. Cardinality(Active(rs) \cup {r}) <= Cardinality(Active(rs)) + 1
    BY <2>3, FS_AddElement
  <2>5. Cardinality(Active(request_state')) \in Nat
    BY ActiveFinite
  <2> QED BY <2>1, <2>2, <2>3, <2>4, <2>5, SettingsAssumption DEF ParallelBound
<1> QED BY <1>1, <1>2 DEF ExecuteWaitingRequests, StartRequest

LEMMA NextParallel == TypeOK /\ ParallelBound /\ [Next]_vars => ParallelBound'
<1> SUFFICES ASSUME TypeOK, ParallelBound, [Next]_vars PROVE ParallelBound'
  OBVIOUS
<1>1. ASSUME Active(request_state') \subseteq Active(request_state) PROVE ParallelBound'
  BY <1>1, ActiveFinite, SettingsAssumption DEF ParallelBound
<1>2. CASE UserStep
  BY <1>1, <1>2
  DEF UserStep, ExecuteRequestAsync, CancelRequestsAsync, DestroyClient, Active, TypeOK
<1>3. CASE ExecuteRequest
  <2> DEFINE rs == [request_state EXCEPT ![Head(strand).req] = "waiting"]
  <2>1. rs \in [Request -> RequestState] /\ Active(rs) \subseteq Active(request_state)
    BY DEF TypeOK, RequestState, Queued, Active
  <2>2. ExecuteWaitingRequests(rs)
    BY <1>3 DEF ExecuteRequest
  <2> HIDE DEF rs
  <2> QED BY <2>1, <2>2, ExecuteWaitingParallel
<1>4. CASE WakeUpHandler
  BY <1>4, ExecuteWaitingParallel DEF WakeUpHandler, TypeOK
<1>5. CASE CancelRequests
  BY <1>1, <1>5 DEF CancelRequests, HandleCompleted, Active
<1>6. CASE OnRequestCompleted
  BY <1>1, <1>6
  DEF OnRequestCompleted, Ignore, Retry, Answer, HandleCompleted, Active, TypeOK
<1>7. ASSUME NEW c \in Conn, StackStep(c) PROVE ParallelBound'
  BY <1>1, <1>7 DEF StackStep, StackStart, StackComplete, StackCancel, Active
<1>8. CASE UNCHANGED vars
  BY <1>1, <1>8 DEF vars, Active
<1> QED BY <1>2, <1>3, <1>4, <1>5, <1>6, <1>7, <1>8 DEF Next, ManagerStep

\* No more than max_parallel_requests requests are ever in progress, for any
\* number of requests, hosts and stacks and whatever servers and users do
\* (request_manager.cpp:129-132).
THEOREM ParallelCorrect == Spec => []ParallelBound
<1>1. Init => ParallelBound
  <2> SUFFICES ASSUME Init PROVE ParallelBound
    OBVIOUS
  <2>1. Active(request_state) = {}
    BY DEF Init, Active
  <2> QED BY <2>1, FS_EmptySet, SettingsAssumption DEF ParallelBound
<1> QED BY <1>1, NextParallel, TypeCorrect, PTL DEF Spec

(***************************************************************************)
(* Every exchange belongs to one request and is in one place.               *)
(***************************************************************************)

\* What the manager's queue holds after a handler was taken off its head and
\* wake-ups were appended, and after message m was appended.
Popped ==
    \A i \in DOMAIN strand' :
        \/ i \in Nat /\ i # 0 /\ i + 1 \in DOMAIN strand /\ strand'[i] = strand[i + 1]
        \/ strand'[i] = WakeUp
Pushed(m) ==
    \A i \in DOMAIN strand' :
        \/ i \in DOMAIN strand /\ strand'[i] = strand[i]
        \/ i = Len(strand) + 1 /\ strand'[i] = m

LEMMA PoppedStrand ==
    ASSUME TypeOK, strand # <<>>, NEW n \in Nat,
           strand' = Tail(strand) \o [i \in 1..n |-> WakeUp]
    PROVE  Popped
<1>1. strand \in Seq(Message)
  BY DEF TypeOK
<1>2. [i \in 1..n |-> WakeUp] \in Seq(Message)
  BY WakeUpsType
<1> QED BY <1>1, <1>2, SMT DEF Popped

LEMMA PoppedTail ==
    ASSUME TypeOK, strand # <<>>, strand' = Tail(strand)
    PROVE  Popped
<1>1. strand \in Seq(Message)
  BY DEF TypeOK
<1> QED BY <1>1, SMT DEF Popped

LEMMA PoppedAppend ==
    ASSUME TypeOK, strand # <<>>, strand' = Append(Tail(strand), WakeUp)
    PROVE  Popped
<1>1. strand \in Seq(Message)
  BY DEF TypeOK
<1> QED BY <1>1, MessageTypes, SMT DEF Popped

LEMMA PushedStrand ==
    ASSUME TypeOK, NEW m \in Message, strand' = Append(strand, m)
    PROVE  Pushed(m)
<1>1. strand \in Seq(Message)
  BY DEF TypeOK
<1> QED BY <1>1, SMT DEF Pushed

\* The elements of a sequence that is longer by one, or shorter by its head or
\* by its last element.
LEMMA AppendElements ==
    ASSUME NEW S, NEW s \in Seq(S), NEW e \in S
    PROVE  \A i \in DOMAIN Append(s, e) :
               \/ i \in DOMAIN s /\ Append(s, e)[i] = s[i]
               \/ i = Len(s) + 1 /\ Append(s, e)[i] = e
  BY SMT

LEMMA TailElements ==
    ASSUME NEW S, NEW s \in Seq(S), s # <<>>
    PROVE  \A i \in DOMAIN Tail(s) :
               i \in Nat /\ i # 0 /\ i + 1 \in DOMAIN s /\ Tail(s)[i] = s[i + 1]
  BY SMT

LEMMA PopElements ==
    ASSUME NEW S, NEW s \in Seq(S), s # <<>>
    PROVE  /\ Len(s) \in DOMAIN s /\ Top(s) = s[Len(s)]
           /\ \A i \in DOMAIN Pop(s) : i \in DOMAIN s /\ i # Len(s) /\ Pop(s)[i] = s[i]
<1>1. Len(s) \in Nat /\ Len(s) # 0 /\ DOMAIN s = 1..Len(s)
  BY LenProperties, EmptySeq
<1>2. Pop(s) = [i \in 1..(Len(s) - 1) |-> s[i]]
  BY <1>1, SMT DEF Pop
<1> QED BY <1>1, <1>2, SMT DEF Top

\* The stack get_connection returns has no holder and nothing to do, and is no
\* longer in the pool.
LEMMA FreshStack ==
    ASSUME TypeOK, Ownership, NEW h \in Host, NEW c \in Conn, GetConnection(h, c)
    PROVE  /\ \A r \in Request : m_connection[r] # c
           /\ callback[c] = NoRequest
           /\ \A i \in DOMAIN stack_strand[c] : stack_strand[c][i].op # "start"
           /\ \A i \in DOMAIN strand :
                  strand[i].op = "on_request_completed" => strand[i].conn # c
           /\ \A g \in Host : \A i \in DOMAIN pool'[g] :
                  i \in DOMAIN pool[g] /\ pool'[g][i] = pool[g][i] /\ pool[g][i] # c
           /\ stack_host'[c] = h
           /\ \A d \in Conn : d # c => stack_host'[d] = stack_host[d]
<1>1. CASE pool[h] = <<>>
  <2>1. c \notin Referenced /\ pool' = pool /\ stack_host' = [stack_host EXCEPT ![c] = h]
    BY <1>1 DEF GetConnection, CreateStack
  <2>2. \A r \in Request : m_connection[r] # c
    BY <2>1 DEF Referenced
  <2>3. callback[c] = NoRequest /\ stack_strand[c] = <<>>
    BY <2>1 DEF Referenced
  <2>4. \A i \in DOMAIN strand :
            strand[i].op = "on_request_completed" => strand[i].conn # c
    BY <2>1 DEF Referenced, Elements
  <2>5. \A g \in Host : \A i \in DOMAIN pool[g] : pool[g][i] # c
    BY <2>1 DEF Referenced, Elements
  <2>6. stack_host'[c] = h /\ \A d \in Conn : d # c => stack_host'[d] = stack_host[d]
    BY <2>1 DEF TypeOK
  <2>7. \A i \in DOMAIN stack_strand[c] : stack_strand[c][i].op # "start"
    BY <2>3, SMT
  <2> QED BY <2>1, <2>2, <2>3, <2>4, <2>5, <2>6, <2>7
<1>2. CASE pool[h] # <<>>
  <2>1. c = Top(pool[h]) /\ pool' = [pool EXCEPT ![h] = Pop(@)] /\ stack_host' = stack_host
    BY <1>2 DEF GetConnection, PoolAfterGet
  <2>2. pool \in [Host -> Seq(Conn)] /\ pool[h] \in Seq(Conn)
    BY DEF TypeOK
  <2> DEFINE n == Len(pool[h])
  <2>3. /\ n \in DOMAIN pool[h] /\ c = pool[h][n]
        /\ \A i \in DOMAIN Pop(pool[h]) :
               i \in DOMAIN pool[h] /\ i # n /\ Pop(pool[h])[i] = pool[h][i]
    BY <1>2, <2>1, <2>2, PopElements
  <2> HIDE DEF n
  <2>4. stack_host[c] = h /\ \A r \in Request : m_connection[r] # c
    BY <2>3 DEF Ownership, PooledFree
  <2>5. \A i \in DOMAIN pool[h] : pool[h][i] = c => i = n
    BY <2>3 DEF Ownership, PooledFree
  <2>6. \A g \in Host : \A i \in DOMAIN pool[g] : pool[g][i] = c => g = h
    BY <2>4 DEF Ownership, PooledFree
  <2>7. \A g \in Host : \A i \in DOMAIN pool'[g] :
            i \in DOMAIN pool[g] /\ pool'[g][i] = pool[g][i] /\ pool[g][i] # c
    BY <2>1, <2>2, <2>3, <2>5, <2>6
  <2>8. callback[c] = NoRequest
    BY <2>4 DEF Ownership, CallbackHeld, TypeOK
  <2>9. \A i \in DOMAIN stack_strand[c] : stack_strand[c][i].op # "start"
    <3> SUFFICES ASSUME NEW i \in DOMAIN stack_strand[c], stack_strand[c][i].op = "start"
                 PROVE  FALSE
      OBVIOUS
    <3>1. m_connection[stack_strand[c][i].req] = c
      BY DEF Ownership, StartHeld
    <3>2. stack_strand[c][i] \in StackMessage
      BY ElementOfSeq, LenProperties DEF TypeOK
    <3>3. stack_strand[c][i].req \in Request
      BY <3>2 DEF StackMessage, Start, Cancel
    <3> QED BY <2>4, <3>1, <3>3
  <2>10. \A i \in DOMAIN strand :
            strand[i].op = "on_request_completed" => strand[i].conn # c
    <3> SUFFICES ASSUME NEW i \in DOMAIN strand, strand[i].op = "on_request_completed",
                        strand[i].conn = c
                 PROVE  FALSE
      OBVIOUS
    <3>1. m_connection[strand[i].req] = c
      BY DEF Ownership, CompletionHeld
    <3>2. strand[i] \in Message
      BY ElementOfSeq, LenProperties DEF TypeOK
    <3>3. strand[i].req \in Request
      BY <3>2, MessageParts
    <3> QED BY <2>4, <3>1, <3>3
  <2> QED BY <2>1, <2>4, <2>7, <2>8, <2>9, <2>10
<1> QED BY <1>1, <1>2

\* Every element of a queue is a message of that queue.
LEMMA QueueElements ==
    ASSUME TypeOK
    PROVE  /\ \A i \in DOMAIN strand : strand[i] \in Message
           /\ \A c \in Conn : \A i \in DOMAIN stack_strand[c] :
                  /\ stack_strand[c][i] \in StackMessage
                  /\ stack_strand[c][i].op = "start" => stack_strand[c][i].req \in Request
<1>1. \A i \in DOMAIN strand : strand[i] \in Message
  BY ElementOfSeq, LenProperties DEF TypeOK
<1>2. \A c \in Conn : \A i \in DOMAIN stack_strand[c] : stack_strand[c][i] \in StackMessage
  BY ElementOfSeq, LenProperties DEF TypeOK
<1> QED BY <1>1, <1>2 DEF StackMessage, Start, Cancel

\* execute_waiting_requests preserves the invariant.  rs is request_state, but
\* that execute_request has made the request at the head of the queue wait.
LEMMA ExecuteWaitingOwnership ==
    ASSUME TypeOK, Ownership, NEW rs \in [Request -> RequestState],
           \A r \in Request : rs[r] = "in_progress" <=> request_state[r] = "in_progress",
           \A r \in Request : rs[r] # "unborn" => m_http_request[r] \in Host,
           \A i \in DOMAIN strand : i # 1 /\ strand[i].op = "execute_request"
               => rs[strand[i].req] = "posted",
           ExecuteWaitingRequests(rs), Popped,
           UNCHANGED <<m_http_request, callback>>
    PROVE  Ownership'
<1>1. CASE request_state' = rs /\ UNCHANGED <<m_connection, pool, stack_host, stack_strand>>
  <2>1. HeldWhileActive' /\ OneHolder' /\ HostKnown' /\ PooledFree'
    BY <1>1 DEF Ownership, HeldWhileActive, OneHolder, HostKnown, PooledFree
  <2>2. PostedOnce'
    BY <1>1 DEF Ownership, PostedOnce, Popped, WakeUp
  <2>3. StartHeld' /\ CallbackHeld'
    BY <1>1 DEF Ownership, StartHeld, CallbackHeld
  <2>4. CompletionHeld'
    BY <1>1 DEF Ownership, CompletionHeld, Popped, WakeUp
  <2> QED BY <2>1, <2>2, <2>3, <2>4 DEF Ownership
<1>2. ASSUME NEW r \in MayStart(rs), StartRequest(rs, r)
      PROVE  Ownership'
  <2>1. r \in Request /\ rs[r] \in Queued
    BY DEF MayStart, Begin, Tracked
  <2>2. PICK c \in Conn :
          /\ GetConnection(m_http_request[r], c)
          /\ request_state' = [rs EXCEPT ![r] = "in_progress"]
          /\ m_connection' = [m_connection EXCEPT ![r] = c]
          /\ stack_strand' = [stack_strand EXCEPT ![c] = Append(@, Start(r))]
    BY <1>2 DEF StartRequest
  <2>3. m_http_request[r] \in Host
    BY <2>1 DEF Queued
  <2>4. /\ \A s \in Request : m_connection[s] # c
        /\ callback[c] = NoRequest
        /\ \A i \in DOMAIN stack_strand[c] : stack_strand[c][i].op # "start"
        /\ \A i \in DOMAIN strand :
               strand[i].op = "on_request_completed" => strand[i].conn # c
        /\ \A g \in Host : \A i \in DOMAIN pool'[g] :
               i \in DOMAIN pool[g] /\ pool'[g][i] = pool[g][i] /\ pool[g][i] # c
        /\ stack_host'[c] = m_http_request[r]
        /\ \A d \in Conn : d # c => stack_host'[d] = stack_host[d]
    BY <2>2, <2>3, FreshStack
  <2>5. m_connection[r] = NoConn
    BY <2>1 DEF Ownership, HeldWhileActive, Queued
  <2>6. /\ m_connection'[r] = c /\ c # NoConn
        /\ \A s \in Request : s # r => m_connection'[s] = m_connection[s]
    BY <2>1, <2>2, ConnAssumption DEF TypeOK
  <2>7. HeldWhileActive'
    BY <2>1, <2>2, <2>6 DEF Ownership, HeldWhileActive
  <2>8. OneHolder'
    BY <2>4, <2>6 DEF Ownership, OneHolder
  <2>9. HostKnown'
    <3>1. \A s \in Request : request_state'[s] # "unborn" => m_http_request'[s] \in Host
      BY <2>1, <2>2, <2>3
    <3>2. \A s \in Request :
              m_connection'[s] # NoConn => stack_host'[m_connection'[s]] = m_http_request'[s]
      <4> SUFFICES ASSUME NEW s \in Request, m_connection'[s] # NoConn
                   PROVE  stack_host'[m_connection'[s]] = m_http_request[s]
        OBVIOUS
      <4>1. CASE s = r
        BY <2>4, <2>6, <4>1
      <4>2. CASE s # r
        <5>1. m_connection'[s] = m_connection[s]
          BY <2>6, <4>2
        <5>2. m_connection[s] # c /\ m_connection[s] \in Conn
          BY <2>4, <5>1 DEF TypeOK
        <5>3. stack_host[m_connection[s]] = m_http_request[s]
          BY <5>1 DEF Ownership, HostKnown
        <5> QED BY <2>4, <5>1, <5>2, <5>3
      <4> QED BY <4>1, <4>2
    <3> QED BY <3>1, <3>2 DEF HostKnown
  <2>10. PooledFree'
    <3>1. \A g \in Host : \A i \in DOMAIN pool[g] : pool[g][i] \in Conn
      BY ElementOfSeq, LenProperties DEF TypeOK
    <3> QED BY <2>4, <2>6, <3>1 DEF Ownership, PooledFree
  <2>11. PostedOnce'
    <3>1. \A i \in DOMAIN strand' : strand'[i].op = "execute_request" =>
              i + 1 \in DOMAIN strand /\ i + 1 # 1 /\ strand'[i] = strand[i + 1] /\ i \in Nat
      BY DEF Popped, WakeUp
    <3>2. \A i \in DOMAIN strand' : strand'[i].op = "execute_request" =>
              request_state'[strand'[i].req] = "posted"
      BY <2>1, <2>2, <3>1 DEF Queued
    <3> QED BY <3>1, <3>2 DEF Ownership, PostedOnce
  <2>12. \A d \in Conn : \A i \in DOMAIN stack_strand'[d] :
            \/ i \in DOMAIN stack_strand[d] /\ stack_strand'[d][i] = stack_strand[d][i]
            \/ d = c /\ i = Len(stack_strand[c]) + 1 /\ stack_strand'[d][i] = Start(r)
    <3>1. stack_strand \in [Conn -> Seq(StackMessage)] /\ Start(r) \in StackMessage
      BY <2>1, MessageTypes DEF TypeOK
    <3>2. \A i \in DOMAIN Append(stack_strand[c], Start(r)) :
            \/ i \in DOMAIN stack_strand[c]
               /\ Append(stack_strand[c], Start(r))[i] = stack_strand[c][i]
            \/ i = Len(stack_strand[c]) + 1
               /\ Append(stack_strand[c], Start(r))[i] = Start(r)
      BY <3>1, AppendElements
    <3> QED BY <2>2, <3>1, <3>2
  <2>13. StartHeld'
    <3> SUFFICES ASSUME NEW d \in Conn, NEW i \in DOMAIN stack_strand'[d],
                        stack_strand'[d][i].op = "start"
                 PROVE  /\ m_connection'[stack_strand'[d][i].req] = d
                        /\ callback'[d] = NoRequest
                        /\ \A j \in DOMAIN stack_strand'[d] :
                               stack_strand'[d][j].op = "start" => j = i
      BY DEF StartHeld
    <3>1. CASE d = c
      BY <2>4, <2>6, <2>12, <3>1 DEF Start
    <3>2. CASE d # c
      <4>1. i \in DOMAIN stack_strand[d] /\ stack_strand'[d][i] = stack_strand[d][i]
        BY <2>12, <3>2
      <4>2. m_connection[stack_strand[d][i].req] = d /\ stack_strand[d][i].req \in Request
        BY <4>1, QueueElements DEF Ownership, StartHeld
      <4>3. m_connection'[stack_strand'[d][i].req] = d
        BY <2>5, <2>6, <4>1, <4>2, ConnAssumption
      <4> QED BY <2>12, <3>2, <4>1, <4>3 DEF Ownership, StartHeld
    <3> QED BY <3>1, <3>2
  <2>14. CallbackHeld'
    BY <2>5, <2>6, ConnAssumption DEF Ownership, CallbackHeld, TypeOK
  <2>15. CompletionHeld'
    <3>1. \A i \in DOMAIN strand' : strand'[i].op = "on_request_completed" =>
              /\ i \in Nat /\ i + 1 \in DOMAIN strand /\ strand'[i] = strand[i + 1]
              /\ strand'[i].conn # c /\ strand'[i].conn \in Conn /\ strand'[i].req \in Request
      BY <2>4, QueueElements, MessageParts DEF Popped, WakeUp
    <3>2. \A i \in DOMAIN strand' : strand'[i].op = "on_request_completed" =>
              m_connection'[strand'[i].req] = strand'[i].conn
      BY <2>5, <2>6, <3>1, ConnAssumption DEF Ownership, CompletionHeld
    <3>3. \A i \in DOMAIN strand' : strand'[i].op = "on_request_completed" =>
              \A k \in DOMAIN stack_strand'[strand'[i].conn] :
                  stack_strand'[strand'[i].conn][k].op # "start"
      <4> SUFFICES ASSUME NEW i \in DOMAIN strand', strand'[i].op = "on_request_completed",
                          NEW k \in DOMAIN stack_strand'[strand'[i].conn]
                   PROVE  stack_strand'[strand'[i].conn][k].op # "start"
        OBVIOUS
      <4> DEFINE d == strand'[i].conn
      <4>1. d # c /\ d \in Conn /\ d = strand[i + 1].conn /\ i + 1 \in DOMAIN strand
            /\ strand[i + 1].op = "on_request_completed"
        BY <3>1
      <4>2. \A l \in DOMAIN stack_strand[d] : stack_strand[d][l].op # "start"
        BY <4>1 DEF Ownership, CompletionHeld
      <4> HIDE DEF d
      <4>3. k \in DOMAIN stack_strand'[d]
        BY DEF d
      <4>4. k \in DOMAIN stack_strand[d] /\ stack_strand'[d][k] = stack_strand[d][k]
        BY <2>12, <4>1, <4>3
      <4>5. stack_strand'[d][k].op # "start"
        BY <4>2, <4>4
      <4> QED BY <4>5 DEF d
    <3> QED BY <3>1, <3>2, <3>3 DEF Ownership, CompletionHeld
  <2> QED BY <2>7, <2>8, <2>9, <2>10, <2>11, <2>13, <2>14, <2>15 DEF Ownership
<1> QED BY <1>1, <1>2 DEF ExecuteWaitingRequests

\* A message that is no completion and posts no request disturbs nothing.
LEMMA PushOwnership ==
    ASSUME TypeOK, Ownership, NEW m \in Message,
           m.op \notin {"execute_request", "on_request_completed"},
           strand' = Append(strand, m),
           UNCHANGED <<request_state, m_connection, m_http_request, pool, stack_host,
                       stack_strand, callback>>
    PROVE  Ownership'
<1>1. Pushed(m)
  BY PushedStrand
<1>2. HeldWhileActive' /\ OneHolder' /\ HostKnown' /\ PooledFree' /\ StartHeld' /\ CallbackHeld'
  BY DEF Ownership, HeldWhileActive, OneHolder, HostKnown, PooledFree, StartHeld, CallbackHeld
<1>3. PostedOnce'
  BY <1>1 DEF Ownership, PostedOnce, Pushed
<1>4. CompletionHeld'
  BY <1>1 DEF Ownership, CompletionHeld, Pushed
<1> QED BY <1>2, <1>3, <1>4 DEF Ownership

LEMMA ExecuteRequestAsyncOwnership ==
    ASSUME TypeOK, Ownership, NEW r \in Request, NEW h \in Host, NEW t \in Token,
           NEW now \in Time, ExecuteRequestAsync(r, h, t, now)
    PROVE  Ownership'
<1> DEFINE m == [op |-> "execute_request", req |-> r]
<1>1. Pushed(m)
  <2>1. m \in Message /\ strand' = Append(strand, m)
    BY MessageTypes DEF ExecuteRequestAsync
  <2> HIDE DEF m
  <2> QED BY <2>1, PushedStrand
<1>2. request_state[r] = "unborn" /\ m_connection[r] = NoConn
  BY DEF ExecuteRequestAsync, Ownership, HeldWhileActive
<1>3. /\ request_state' = [request_state EXCEPT ![r] = "posted"]
      /\ m_http_request' = [m_http_request EXCEPT ![r] = h]
      /\ UNCHANGED <<m_connection, pool, stack_host, stack_strand, callback>>
  BY DEF ExecuteRequestAsync, stacks
<1>4. HeldWhileActive' /\ OneHolder' /\ PooledFree' /\ StartHeld' /\ CallbackHeld'
  BY <1>2, <1>3 DEF Ownership, HeldWhileActive, OneHolder, PooledFree, StartHeld,
                    CallbackHeld, TypeOK
<1>5. HostKnown'
  BY <1>2, <1>3 DEF Ownership, HostKnown, TypeOK
<1>6. \A i \in DOMAIN strand : strand[i].op = "execute_request" =>
          strand[i].req # r /\ strand[i].req \in Request
  BY <1>2, QueueElements, MessageParts DEF Ownership, PostedOnce
<1>7. PostedOnce'
  BY <1>1, <1>3, <1>6 DEF Ownership, PostedOnce, Pushed, TypeOK
<1>8. CompletionHeld'
  BY <1>1, <1>3 DEF Ownership, CompletionHeld, Pushed
<1> QED BY <1>4, <1>5, <1>7, <1>8 DEF Ownership

LEMMA CancelRequestsOwnership ==
    ASSUME TypeOK, Ownership, CancelRequests
    PROVE  Ownership'
<1> DEFINE selected == Selected(Head(strand).token)
           idle == {r \in selected : m_connection[r] = NoConn}
           busy(c) == \E r \in selected : m_connection[r] = c
<1>1. /\ idle \subseteq Request
      /\ \A r \in idle : m_connection[r] = NoConn /\ request_state[r] \in Queued
  BY DEF Selected, Tracked, Ownership, HeldWhileActive
<1>2. /\ HandleCompleted(idle, "operation_aborted")
      /\ stack_strand' = [c \in Conn |->
             IF busy(c) THEN Append(stack_strand[c], Cancel) ELSE stack_strand[c]]
      /\ UNCHANGED <<m_http_request, pool, stack_host, callback>>
  BY DEF CancelRequests, fields
<1> HIDE DEF idle
<1>3. Popped
  <2>1. Cardinality(idle) \in Nat
    BY <1>1, RequestAssumption, FS_Subset, FS_CardinalityType
  <2> QED BY <1>2, <2>1, PoppedStrand DEF HandleCompleted, CancelRequests, Handling
<1>4. m_connection' = m_connection
  BY <1>1, <1>2 DEF HandleCompleted, TypeOK
<1>5. \A r \in Request :
          request_state'[r] = IF r \in idle THEN "erased" ELSE request_state[r]
  BY <1>2 DEF HandleCompleted
<1>6. HeldWhileActive' /\ OneHolder' /\ PooledFree' /\ CallbackHeld'
  BY <1>1, <1>2, <1>4, <1>5
  DEF Ownership, HeldWhileActive, OneHolder, PooledFree, CallbackHeld, Queued
<1>7. HostKnown'
  BY <1>1, <1>2, <1>4, <1>5 DEF Ownership, HostKnown, Queued
<1>8. PostedOnce'
  <2>1. \A i \in DOMAIN strand' : strand'[i].op = "execute_request" =>
            i \in Nat /\ i + 1 \in DOMAIN strand /\ strand'[i] = strand[i + 1]
    BY <1>3 DEF Popped, WakeUp
  <2>2. \A i \in DOMAIN strand' : strand'[i].op = "execute_request" =>
            request_state'[strand'[i].req] = "posted"
    BY <1>1, <1>5, <2>1, QueueElements, MessageParts DEF Ownership, PostedOnce, Queued
  <2> QED BY <2>1, <2>2 DEF Ownership, PostedOnce
<1>9. \A c \in Conn : \A i \in DOMAIN stack_strand'[c] :
          \/ i \in DOMAIN stack_strand[c] /\ stack_strand'[c][i] = stack_strand[c][i]
          \/ stack_strand'[c][i] = Cancel
  <2>1. \A c \in Conn : \A i \in DOMAIN Append(stack_strand[c], Cancel) :
            \/ i \in DOMAIN stack_strand[c]
               /\ Append(stack_strand[c], Cancel)[i] = stack_strand[c][i]
            \/ Append(stack_strand[c], Cancel)[i] = Cancel
    BY MessageTypes, AppendElements DEF TypeOK
  <2>2. \A c \in Conn : stack_strand'[c] \in {stack_strand[c], Append(stack_strand[c], Cancel)}
    BY <1>2
  <2> QED BY <2>1, <2>2
<1>10. StartHeld'
  BY <1>2, <1>4, <1>9 DEF Ownership, StartHeld, Cancel
<1>11. CompletionHeld'
  <2> SUFFICES ASSUME NEW i \in DOMAIN strand', strand'[i].op = "on_request_completed"
               PROVE  /\ m_connection[strand'[i].req] = strand'[i].conn
                      /\ callback[strand'[i].conn] = NoRequest
                      /\ \A k \in DOMAIN stack_strand'[strand'[i].conn] :
                             stack_strand'[strand'[i].conn][k].op # "start"
                      /\ \A j \in DOMAIN strand' :
                             strand'[j].op = "on_request_completed"
                             /\ strand'[j].conn = strand'[i].conn => j = i
    BY <1>2, <1>4 DEF CompletionHeld
  <2> DEFINE d == strand'[i].conn
  <2>1. /\ i \in Nat /\ i + 1 \in DOMAIN strand /\ strand'[i] = strand[i + 1]
    BY <1>3 DEF Popped, WakeUp
  <2>2. d \in Conn
    BY <2>1, QueueElements, MessageParts
  <2>3. \A k \in DOMAIN stack_strand[d] : stack_strand[d][k].op # "start"
    BY <2>1 DEF Ownership, CompletionHeld
  <2>4. \A k \in DOMAIN stack_strand'[d] : stack_strand'[d][k].op # "start"
    <3> HIDE DEF d
    <3> QED BY <1>9, <2>2, <2>3 DEF Cancel
  <2>5. \A j \in DOMAIN strand' :
            strand'[j].op = "on_request_completed" /\ strand'[j].conn = d => j = i
    BY <1>3, <2>1 DEF Ownership, CompletionHeld, Popped, WakeUp
  <2> QED BY <2>1, <2>4, <2>5 DEF Ownership, CompletionHeld
<1> QED BY <1>6, <1>7, <1>8, <1>10, <1>11 DEF Ownership

\* on_request_completed: the completion's request gives the stack up, and only
\* then is the stack pooled.
LEMMA OnRequestCompletedOwnership ==
    ASSUME TypeOK, Ownership, OnRequestCompleted, BadUrl \notin Location
    PROVE  Ownership'
<1> DEFINE m == Head(strand)
           r == m.req
           c == m.conn
           h == stack_host[c]
           found == {s \in Request : m_connection[s] = c}
<1>1. strand # <<>> /\ m.op = "on_request_completed"
  BY DEF OnRequestCompleted, Handling
<1>2. 1 \in DOMAIN strand /\ m = strand[1]
  <2>1. strand \in Seq(Message)
    BY DEF TypeOK
  <2> QED BY <1>1, <2>1, SMT
<1>3. m \in Message
  BY <1>2, QueueElements
<1>4. c \in Conn /\ r \in Request /\ m.out \in Outcome
  BY <1>1, <1>3, MessageParts
<1>5. /\ m_connection[r] = c /\ callback[c] = NoRequest
      /\ \A k \in DOMAIN stack_strand[c] : stack_strand[c][k].op # "start"
      /\ \A j \in DOMAIN strand :
             strand[j].op = "on_request_completed" /\ strand[j].conn = c => j = 1
  BY <1>1, <1>2 DEF Ownership, CompletionHeld
<1>6. request_state[r] = "in_progress" /\ h \in Host /\ m_http_request[r] \in Host
  <2>1. c # NoConn
    BY <1>4, ConnAssumption
  <2>2. request_state[r] = "in_progress"
    BY <1>4, <1>5, <2>1 DEF Ownership, HeldWhileActive
  <2>3. m_http_request[r] \in Host /\ stack_host[m_connection[r]] = m_http_request[r]
    BY <1>4, <1>5, <2>1, <2>2 DEF Ownership, HostKnown
  <2> QED BY <1>5, <2>2, <2>3
<1>7. found = {r}
  BY <1>4, <1>5, ConnAssumption DEF Ownership, OneHolder
<1>8. ~RedirectionThrows(m.out)
  BY <1>4, LocationAssumption DEF RedirectionThrows, Outcome, MaybeLocation
<1>9. Retry(r, m.out) \/ Answer(r, m.out)
  BY <1>7, <1>8 DEF OnRequestCompleted
<1>10. Popped
  <2>1. CASE Retry(r, m.out)
    BY <1>1, <2>1, PoppedAppend DEF Retry
  <2>2. CASE Answer(r, m.out)
    <3>1. strand' = Tail(strand) \o [i \in 1..Cardinality({r}) |-> WakeUp]
      BY <2>2 DEF Answer, HandleCompleted
    <3>2. Cardinality({r}) \in Nat
      <4>1. Cardinality({r}) = 1
        BY FS_Singleton, Zenon
      <4> QED BY <4>1
    <3> QED BY <1>1, <3>1, <3>2, PoppedStrand
  <2> QED BY <1>9, <2>1, <2>2
<1>11. NextUrl(m.out, m_http_request[r]) \in Host
  BY <1>4, <1>6, <1>8, OutcomeType DEF NextUrl, RedirectionThrows
<1>12. /\ request_state'[r] \in {"waiting_retry", "erased"}
       /\ m_connection'[r] = NoConn
       /\ m_http_request'[r] \in Host
       /\ \A s \in Request : s # r =>
              /\ request_state'[s] = request_state[s]
              /\ m_connection'[s] = m_connection[s]
              /\ m_http_request'[s] = m_http_request[s]
  <2> HIDE DEF m, r
  <2>1. CASE Retry(r, m.out)
    BY <1>4, <1>11, <2>1 DEF Retry, TypeOK
  <2>2. CASE Answer(r, m.out)
    BY <1>4, <1>6, <2>2 DEF Answer, HandleCompleted, TypeOK
  <2> QED BY <1>9, <2>1, <2>2
<1>13. UNCHANGED <<stack_host, stack_strand, callback>>
  BY DEF OnRequestCompleted, stacks
<1>14. \A g \in Host : \A i \in DOMAIN pool'[g] :
           \/ i \in DOMAIN pool[g] /\ pool'[g][i] = pool[g][i]
           \/ g = h /\ i = Len(pool[h]) + 1 /\ pool'[g][i] = c
  <2>1. pool \in [Host -> Seq(Conn)]
    BY DEF TypeOK
  <2>2. \A i \in DOMAIN Append(pool[h], c) :
            \/ i \in DOMAIN pool[h] /\ Append(pool[h], c)[i] = pool[h][i]
            \/ i = Len(pool[h]) + 1 /\ Append(pool[h], c)[i] = c
    BY <1>4, <1>6, <2>1, AppendElements
  <2>3. /\ pool'[h] = Append(pool[h], c) \/ pool'[h] = <<>>
        /\ \A g \in Host : g # h => pool'[g] = pool[g]
    BY <1>6, <2>1 DEF OnRequestCompleted, ReleaseConnection
  <2>4. DOMAIN << >> = {}
    BY SMT
  <2> HIDE DEF h, c
  <2> QED BY <2>2, <2>3, <2>4
<1> HIDE DEF m, r, c, h, found
<1>15. HeldWhileActive' /\ OneHolder'
  BY <1>4, <1>12 DEF Ownership, HeldWhileActive, OneHolder
<1>16. HostKnown'
  BY <1>4, <1>12, <1>13 DEF Ownership, HostKnown
<1>17. PooledFree'
  <2>1. \A g \in Host : \A i \in DOMAIN pool[g] : pool[g][i] # c
    BY <1>4, <1>5 DEF Ownership, PooledFree
  <2>2. \A s \in Request : m_connection'[s] # c
    BY <1>4, <1>5, <1>12, ConnAssumption DEF Ownership, OneHolder
  <2>3. stack_host'[c] = h
    BY <1>13 DEF h
  <2> SUFFICES ASSUME NEW g \in Host, NEW i \in DOMAIN pool'[g]
               PROVE  /\ stack_host'[pool'[g][i]] = g
                      /\ \A s \in Request : m_connection'[s] # pool'[g][i]
                      /\ \A j \in DOMAIN pool'[g] : pool'[g][j] = pool'[g][i] => j = i
    BY DEF PooledFree
  <2>4. CASE pool'[g][i] = c
    BY <1>14, <2>1, <2>2, <2>3, <2>4
  <2>5. CASE pool'[g][i] # c
    <3>1. i \in DOMAIN pool[g] /\ pool'[g][i] = pool[g][i]
      BY <1>14, <2>5
    <3>2. /\ stack_host[pool[g][i]] = g
          /\ \A s \in Request : m_connection[s] # pool[g][i]
          /\ \A j \in DOMAIN pool[g] : pool[g][j] = pool[g][i] => j = i
      BY <3>1 DEF Ownership, PooledFree
    <3>3. pool[g][i] # NoConn
      <4>1. pool[g] \in Seq(Conn)
        BY DEF TypeOK
      <4> QED BY <3>1, <4>1, ElementOfSeq, LenProperties, ConnAssumption
    <3>4. \A s \in Request : m_connection'[s] # pool[g][i]
      BY <1>12, <3>2, <3>3
    <3>5. \A j \in DOMAIN pool'[g] : pool'[g][j] = pool'[g][i] => j = i
      BY <1>14, <2>5, <3>1, <3>2
    <3> QED BY <1>13, <3>1, <3>2, <3>4, <3>5
  <2> QED BY <2>4, <2>5
<1>18. PostedOnce'
  <2>1. \A i \in DOMAIN strand' : strand'[i].op = "execute_request" =>
            i \in Nat /\ i + 1 \in DOMAIN strand /\ strand'[i] = strand[i + 1]
    BY <1>10 DEF Popped, WakeUp
  <2>2. \A i \in DOMAIN strand' : strand'[i].op = "execute_request" =>
            request_state'[strand'[i].req] = "posted"
    BY <1>6, <1>12, <2>1, QueueElements, MessageParts DEF Ownership, PostedOnce
  <2> QED BY <2>1, <2>2 DEF Ownership, PostedOnce
<1>19. StartHeld'
  <2>1. \A d \in Conn : \A i \in DOMAIN stack_strand[d] :
            stack_strand[d][i].op = "start" =>
                stack_strand[d][i].req # r /\ stack_strand[d][i].req \in Request
    BY <1>5, QueueElements DEF Ownership, StartHeld
  <2> QED BY <1>12, <1>13, <2>1 DEF Ownership, StartHeld
<1>20. CallbackHeld'
  BY <1>5, <1>12, <1>13 DEF Ownership, CallbackHeld, TypeOK
<1>21. CompletionHeld'
  <2>1. \A i \in DOMAIN strand' : strand'[i].op = "on_request_completed" =>
            /\ i \in Nat /\ i # 0 /\ i + 1 \in DOMAIN strand /\ strand'[i] = strand[i + 1]
            /\ strand'[i].req \in Request
    BY <1>10, QueueElements, MessageParts DEF Popped, WakeUp
  <2>2. \A i \in DOMAIN strand' : strand'[i].op = "on_request_completed" =>
            strand'[i].req # r
    BY <1>5, <2>1 DEF Ownership, CompletionHeld
  <2> QED BY <1>12, <1>13, <2>1, <2>2 DEF Ownership, CompletionHeld
<1> QED BY <1>15, <1>16, <1>17, <1>18, <1>19, <1>20, <1>21 DEF Ownership

\* execute_request: the request at the head of the queue joins m_requests.
LEMMA ExecuteRequestOwnership ==
    ASSUME TypeOK, Ownership, ExecuteRequest
    PROVE  Ownership'
<1> DEFINE r == Head(strand).req
           rs == [request_state EXCEPT ![r] = "waiting"]
<1>1. strand # <<>> /\ Head(strand).op = "execute_request" /\ strand' = Tail(strand)
  BY DEF ExecuteRequest, Handling
<1>2. 1 \in DOMAIN strand /\ Head(strand) = strand[1]
  <2>1. strand \in Seq(Message)
    BY DEF TypeOK
  <2> QED BY <1>1, <2>1, SMT
<1>3. r \in Request
  BY <1>1, <1>2, QueueElements, MessageParts
<1>4. request_state[r] = "posted" /\ m_http_request[r] \in Host
  <2>1. request_state[r] = "posted"
    BY <1>1, <1>2 DEF Ownership, PostedOnce
  <2> QED BY <1>3, <2>1 DEF Ownership, HostKnown
<1>5. \A i \in DOMAIN strand : i # 1 /\ strand[i].op = "execute_request" =>
          /\ strand[i].req # r
          /\ request_state[strand[i].req] = "posted"
          /\ strand[i].req \in Request
  BY <1>1, <1>2, QueueElements, MessageParts DEF Ownership, PostedOnce
<1>6. Popped
  BY <1>1, PoppedTail
<1>7. ExecuteWaitingRequests(rs) /\ UNCHANGED <<m_http_request, callback>>
  BY DEF ExecuteRequest, fields
<1> HIDE DEF r
<1>8. rs \in [Request -> RequestState]
  BY DEF TypeOK, RequestState, Queued
<1>9. \A s \in Request : rs[s] = IF s = r THEN "waiting" ELSE request_state[s]
  BY DEF TypeOK
<1> HIDE DEF rs
<1>10. \A s \in Request : rs[s] = "in_progress" <=> request_state[s] = "in_progress"
  BY <1>4, <1>9
<1>11. \A s \in Request : rs[s] # "unborn" => m_http_request[s] \in Host
  BY <1>4, <1>9 DEF Ownership, HostKnown
<1>12. \A i \in DOMAIN strand : i # 1 /\ strand[i].op = "execute_request"
           => rs[strand[i].req] = "posted"
  BY <1>5, <1>9
<1> QED BY <1>6, <1>7, <1>8, <1>10, <1>11, <1>12, ExecuteWaitingOwnership

LEMMA WakeUpOwnership ==
    ASSUME TypeOK, Ownership, WakeUpHandler
    PROVE  Ownership'
<1>1. strand # <<>> /\ strand' = Tail(strand)
  BY DEF WakeUpHandler, Handling
<1>2. Popped
  BY <1>1, PoppedTail
<1>3. ExecuteWaitingRequests(request_state) /\ UNCHANGED <<m_http_request, callback>>
  BY DEF WakeUpHandler, fields
<1>4. request_state \in [Request -> RequestState]
  BY DEF TypeOK
<1>5. \A s \in Request : request_state[s] # "unborn" => m_http_request[s] \in Host
  BY DEF Ownership, HostKnown
<1>6. \A i \in DOMAIN strand : i # 1 /\ strand[i].op = "execute_request"
          => request_state[strand[i].req] = "posted"
  BY DEF Ownership, PostedOnce
<1> QED BY <1>2, <1>3, <1>4, <1>5, <1>6, ExecuteWaitingOwnership

\* Taking the head off the queue of stack c adds nothing to any queue.
LEMMA TakenElements ==
    ASSUME TypeOK, NEW c \in Conn, stack_strand[c] # <<>>, TakeStackHandler(c)
    PROVE  /\ \A d \in Conn : d # c => stack_strand'[d] = stack_strand[d]
           /\ \A i \in DOMAIN stack_strand'[c] :
                  /\ i \in Nat /\ i # 0 /\ i + 1 \in DOMAIN stack_strand[c]
                  /\ stack_strand'[c][i] = stack_strand[c][i + 1]
<1>1. stack_strand \in [Conn -> Seq(StackMessage)] /\ stack_strand[c] \in Seq(StackMessage)
  BY DEF TypeOK
<1>2. /\ stack_strand'[c] = Tail(stack_strand[c])
      /\ \A d \in Conn : d # c => stack_strand'[d] = stack_strand[d]
  BY <1>1 DEF TakeStackHandler
<1>3. \A i \in DOMAIN Tail(stack_strand[c]) :
          /\ i \in Nat /\ i # 0 /\ i + 1 \in DOMAIN stack_strand[c]
          /\ Tail(stack_strand[c])[i] = stack_strand[c][i + 1]
  BY <1>1, TailElements
<1> QED BY <1>2, <1>3

\* start: the exchange moves from the queue of the stack to its callback.
LEMMA StackStartOwnership ==
    ASSUME TypeOK, Ownership, NEW c \in Conn, StackStart(c)
    PROVE  Ownership'
<1> DEFINE r == Head(stack_strand[c]).req
<1>1. stack_strand[c] # <<>> /\ Head(stack_strand[c]).op = "start" /\ TakeStackHandler(c)
  BY DEF StackStart, StackHandling
<1>2. 1 \in DOMAIN stack_strand[c] /\ Head(stack_strand[c]) = stack_strand[c][1]
  <2>1. stack_strand[c] \in Seq(StackMessage)
    BY DEF TypeOK
  <2> QED BY <1>1, <2>1, SMT
<1>3. r \in Request /\ m_connection[r] = c
      /\ \A j \in DOMAIN stack_strand[c] : stack_strand[c][j].op = "start" => j = 1
  BY <1>1, <1>2, QueueElements DEF Ownership, StartHeld
<1>4. /\ callback' = [callback EXCEPT ![c] = r]
      /\ UNCHANGED <<request_state, m_connection, m_http_request, pool, strand, stack_host>>
  BY DEF StackStart, fields
<1> HIDE DEF r
<1>5. /\ \A d \in Conn : d # c => stack_strand'[d] = stack_strand[d]
      /\ \A i \in DOMAIN stack_strand'[c] : stack_strand'[c][i].op # "start"
  <2>1. \A i \in DOMAIN stack_strand'[c] :
            /\ i \in Nat /\ i # 0 /\ i + 1 \in DOMAIN stack_strand[c]
            /\ stack_strand'[c][i] = stack_strand[c][i + 1]
    BY <1>1, TakenElements
  <2>2. \A d \in Conn : d # c => stack_strand'[d] = stack_strand[d]
    BY <1>1, TakenElements
  <2> QED BY <1>3, <2>1, <2>2
<1>6. callback'[c] = r /\ \A d \in Conn : d # c => callback'[d] = callback[d]
  BY <1>4 DEF TypeOK
<1>7. HeldWhileActive' /\ OneHolder' /\ HostKnown' /\ PooledFree' /\ PostedOnce'
  BY <1>4 DEF Ownership, HeldWhileActive, OneHolder, HostKnown, PooledFree, PostedOnce
<1>8. StartHeld'
  BY <1>4, <1>5, <1>6 DEF Ownership, StartHeld
<1>9. CallbackHeld'
  BY <1>3, <1>4, <1>6 DEF Ownership, CallbackHeld
<1>10. CompletionHeld'
  <2>1. \A i \in DOMAIN strand : strand[i].op = "on_request_completed" =>
            strand[i].conn # c /\ strand[i].conn \in Conn
    BY <1>1, <1>2, QueueElements, MessageParts DEF Ownership, CompletionHeld
  <2> QED BY <1>4, <1>5, <1>6, <2>1 DEF Ownership, CompletionHeld
<1> QED BY <1>7, <1>8, <1>9, <1>10 DEF Ownership

\* complete_request: the exchange moves from the callback of the stack to the
\* queue of the manager.  The caller may have taken a handler off the stack's
\* queue.
LEMMA ReportOwnership ==
    ASSUME TypeOK, Ownership, NEW c \in Conn, NEW out \in Outcome,
           callback[c] # NoRequest, Report(c, out),
           \A d \in Conn : d # c => stack_strand'[d] = stack_strand[d],
           \A i \in DOMAIN stack_strand'[c] : \E j \in DOMAIN stack_strand[c] :
               stack_strand'[c][i] = stack_strand[c][j],
           UNCHANGED <<request_state, m_connection, m_http_request, pool, stack_host>>
    PROVE  Ownership'
<1> DEFINE r == callback[c]
           m == [op |-> "on_request_completed", conn |-> c, req |-> r, out |-> out]
<1>1. r \in Request /\ m_connection[r] = c
  BY DEF TypeOK, Ownership, CallbackHeld
<1>2. Pushed(m)
  <2>1. m \in Message
    BY <1>1 DEF Message, Completion
  <2>2. strand' = Append(strand, m)
    BY DEF Report
  <2> HIDE DEF m
  <2> QED BY <2>1, <2>2, PushedStrand
<1>3. callback'[c] = NoRequest /\ \A d \in Conn : d # c => callback'[d] = callback[d]
  BY DEF Report, TypeOK
<1>4. \A i \in DOMAIN stack_strand'[c] : stack_strand'[c][i].op # "start"
  BY DEF Ownership, StartHeld
<1>5. \A i \in DOMAIN strand : strand[i].op = "on_request_completed" =>
          strand[i].conn # c /\ strand[i].conn \in Conn
  BY QueueElements, MessageParts DEF Ownership, CompletionHeld
<1>6. HeldWhileActive' /\ OneHolder' /\ HostKnown' /\ PooledFree'
  BY DEF Ownership, HeldWhileActive, OneHolder, HostKnown, PooledFree
<1>7. PostedOnce'
  BY <1>2 DEF Ownership, PostedOnce, Pushed
<1>8. StartHeld'
  BY <1>3, <1>4 DEF Ownership, StartHeld
<1>9. CallbackHeld'
  BY <1>3 DEF Ownership, CallbackHeld
<1>10. CompletionHeld'
  <2> SUFFICES ASSUME NEW i \in DOMAIN strand', strand'[i].op = "on_request_completed"
               PROVE  /\ m_connection[strand'[i].req] = strand'[i].conn
                      /\ callback'[strand'[i].conn] = NoRequest
                      /\ \A k \in DOMAIN stack_strand'[strand'[i].conn] :
                             stack_strand'[strand'[i].conn][k].op # "start"
                      /\ \A j \in DOMAIN strand' :
                             strand'[j].op = "on_request_completed"
                             /\ strand'[j].conn = strand'[i].conn => j = i
    BY DEF CompletionHeld
  <2>1. CASE i \in DOMAIN strand /\ strand'[i] = strand[i]
    <3>1. strand[i].conn # c /\ strand[i].conn \in Conn
      BY <1>5, <2>1
    <3>2. \A j \in DOMAIN strand' : strand'[j].op = "on_request_completed"
              /\ strand'[j].conn = strand'[i].conn => j = i
      BY <1>2, <2>1, <3>1 DEF Pushed, Ownership, CompletionHeld
    <3> QED BY <1>3, <2>1, <3>1, <3>2 DEF Ownership, CompletionHeld
  <2>2. CASE i = Len(strand) + 1 /\ strand'[i] = m
    <3>1. strand'[i].conn = c /\ strand'[i].req = r
      BY <2>2
    <3>2. \A j \in DOMAIN strand' : strand'[j].op = "on_request_completed"
              /\ strand'[j].conn = c => j = i
      BY <1>2, <1>5, <2>2 DEF Pushed
    <3> QED BY <1>1, <1>3, <1>4, <3>1, <3>2
  <2> HIDE DEF m
  <2> QED BY <1>2, <2>1, <2>2 DEF Pushed
<1> QED BY <1>6, <1>7, <1>8, <1>9, <1>10 DEF Ownership

LEMMA StackCancelOwnership ==
    ASSUME TypeOK, Ownership, NEW c \in Conn, NEW out \in Outcome, StackCancel(c, out)
    PROVE  Ownership'
<1>1. /\ \A d \in Conn : d # c => stack_strand'[d] = stack_strand[d]
      /\ \A i \in DOMAIN stack_strand'[c] :
             /\ i \in Nat /\ i # 0 /\ i + 1 \in DOMAIN stack_strand[c]
             /\ stack_strand'[c][i] = stack_strand[c][i + 1]
  BY TakenElements DEF StackCancel, StackHandling
<1>2. UNCHANGED <<request_state, m_connection, m_http_request, pool, stack_host>>
  BY DEF StackCancel, fields
<1>3. CASE callback[c] # NoRequest
  <2>1. Report(c, out)
    BY <1>3 DEF StackCancel
  <2> QED BY <1>1, <1>2, <1>3, <2>1, ReportOwnership
<1>4. CASE callback[c] = NoRequest
  <2>1. UNCHANGED <<strand, callback>>
    BY <1>4 DEF StackCancel
  <2>2. HeldWhileActive' /\ OneHolder' /\ HostKnown' /\ PooledFree' /\ PostedOnce'
        /\ CallbackHeld'
    BY <1>2, <2>1 DEF Ownership, HeldWhileActive, OneHolder, HostKnown, PooledFree,
                      PostedOnce, CallbackHeld
  <2>3. StartHeld'
    <3> SUFFICES ASSUME NEW d \in Conn, NEW i \in DOMAIN stack_strand'[d],
                        stack_strand'[d][i].op = "start"
                 PROVE  /\ m_connection[stack_strand'[d][i].req] = d
                        /\ callback[d] = NoRequest
                        /\ \A j \in DOMAIN stack_strand'[d] :
                               stack_strand'[d][j].op = "start" => j = i
      BY <1>2, <2>1 DEF StartHeld
    <3>1. CASE d = c
      BY <1>1, <3>1 DEF Ownership, StartHeld
    <3>2. CASE d # c
      BY <1>1, <3>2 DEF Ownership, StartHeld
    <3> QED BY <3>1, <3>2
  <2>4. CompletionHeld'
    <3>1. \A i \in DOMAIN strand : strand[i].op = "on_request_completed" =>
              \A k \in DOMAIN stack_strand'[strand[i].conn] :
                  stack_strand'[strand[i].conn][k].op # "start"
      <4> SUFFICES ASSUME NEW i \in DOMAIN strand, strand[i].op = "on_request_completed",
                          NEW k \in DOMAIN stack_strand'[strand[i].conn]
                   PROVE  stack_strand'[strand[i].conn][k].op # "start"
        OBVIOUS
      <4> DEFINE d == strand[i].conn
      <4>1. d \in Conn /\ \A l \in DOMAIN stack_strand[d] : stack_strand[d][l].op # "start"
        BY QueueElements, MessageParts DEF Ownership, CompletionHeld
      <4>2. k \in DOMAIN stack_strand'[d]
        OBVIOUS
      <4> HIDE DEF d
      <4>3. stack_strand'[d][k].op # "start"
        BY <1>1, <4>1, <4>2
      <4> QED BY <4>3 DEF d
    <3> QED BY <1>2, <2>1, <3>1 DEF Ownership, CompletionHeld
  <2> QED BY <2>2, <2>3, <2>4 DEF Ownership
<1> QED BY <1>3, <1>4

LEMMA InitOwnership == Init => Ownership
  BY SMT DEF Init, Ownership, HeldWhileActive, OneHolder, HostKnown, PooledFree, PostedOnce,
         StartHeld, CallbackHeld, CompletionHeld

LEMMA NextOwnership ==
    ASSUME TypeOK, Ownership, [Next]_vars, BadUrl \notin Location
    PROVE  Ownership'
<1>1. ASSUME NEW r \in Request, NEW h \in Host, NEW t \in Token, NEW now \in Time,
             ExecuteRequestAsync(r, h, t, now)
      PROVE  Ownership'
  BY <1>1, ExecuteRequestAsyncOwnership
<1>2. ASSUME NEW t \in Token, CancelRequestsAsync(t) \/ (DestroyClient /\ t = 0)
      PROVE  Ownership'
  <2> DEFINE m == [op |-> "cancel_requests", token |-> t]
  <2>1. m \in Message /\ m.op \notin {"execute_request", "on_request_completed"}
    BY MessageTypes
  <2>2. /\ strand' = Append(strand, m)
        /\ UNCHANGED <<request_state, m_connection, m_http_request, pool, stack_host,
                       stack_strand, callback>>
    BY <1>2 DEF CancelRequestsAsync, DestroyClient, fields, stacks
  <2> HIDE DEF m
  <2> QED BY <2>1, <2>2, PushOwnership
<1>3. CASE UserStep
  BY <1>1, <1>2, <1>3, OrderAssumption DEF UserStep
<1>4. CASE ManagerStep
  BY <1>4, ExecuteRequestOwnership, WakeUpOwnership, CancelRequestsOwnership,
     OnRequestCompletedOwnership DEF ManagerStep
<1>5. ASSUME NEW c \in Conn, NEW out \in Outcome, StackComplete(c, out)
      PROVE  Ownership'
  BY <1>5, ReportOwnership DEF StackComplete, fields
<1>6. ASSUME NEW c \in Conn, StackStep(c)
      PROVE  Ownership'
  BY <1>5, <1>6, StackStartOwnership, StackCancelOwnership DEF StackStep
<1>7. CASE UNCHANGED vars
  BY <1>7 DEF vars, fields, stacks, Ownership, HeldWhileActive, OneHolder, HostKnown,
              PooledFree, PostedOnce, StartHeld, CallbackHeld, CompletionHeld
<1> QED BY <1>3, <1>4, <1>6, <1>7 DEF Next

\* Every exchange belongs to one request and is in one place: a start in the
\* queue of its stack, the stack's armed callback or a completion in the queue
\* of the manager.  It rests on every Location header being a URL: on another
\* one create_redirection throws after the stack was pooled and before its
\* request gave it up (http_error_handling.cpp:27, request_manager.cpp:102-105).
THEOREM OwnershipCorrect ==
    ASSUME BadUrl \notin Location
    PROVE  Spec => []Ownership
<1>1. TypeOK /\ Ownership /\ [Next]_vars => Ownership'
  BY NextOwnership
<1> QED BY <1>1, InitOwnership, TypeCorrect, PTL DEF Spec

\* What the inductive invariant says of stacks, of completions and of callbacks.
LEMMA OwnershipExclusive == TypeOK /\ Ownership => StackExclusive
<1> SUFFICES ASSUME TypeOK, Ownership PROVE StackExclusive
  OBVIOUS
<1>1. \A r, s \in Active(request_state) : m_connection[r] = m_connection[s] => r = s
  BY DEF Active, Ownership, HeldWhileActive, OneHolder
<1>2. \A h \in Host : \A i, j \in DOMAIN pool[h] : pool[h][i] = pool[h][j] => i = j
  BY DEF Ownership, PooledFree
<1>3. ASSUME NEW h \in Host, NEW i \in DOMAIN pool[h]
      PROVE  LET c == pool[h][i]
             IN /\ stack_host[c] = h
                /\ callback[c] = NoRequest
                /\ \A r \in Request :
                       m_connection[r] # c /\ Start(r) \notin Elements(stack_strand[c])
                /\ \A m \in Elements(strand) : m.op = "on_request_completed" => m.conn # c
  <2> DEFINE c == pool[h][i]
  <2>1. c \in Conn
    <3>1. pool[h] \in Seq(Conn)
      BY DEF TypeOK
    <3> QED BY <3>1, ElementOfSeq, LenProperties
  <2>2. stack_host[c] = h /\ \A r \in Request : m_connection[r] # c
    BY DEF Ownership, PooledFree
  <2> HIDE DEF c
  <2>3. callback[c] = NoRequest
    BY <2>1, <2>2 DEF Ownership, CallbackHeld, TypeOK
  <2>4. \A k \in DOMAIN stack_strand[c] : stack_strand[c][k].op # "start"
    BY <2>1, <2>2, QueueElements DEF Ownership, StartHeld
  <2>5. \A r \in Request : Start(r) \notin Elements(stack_strand[c])
    BY <2>4 DEF Elements, Start
  <2>6. \A k \in DOMAIN strand : strand[k].op = "on_request_completed" => strand[k].conn # c
    BY <2>2, QueueElements, MessageParts DEF Ownership, CompletionHeld
  <2>7. \A m \in Elements(strand) : m.op = "on_request_completed" => m.conn # c
    BY <2>6 DEF Elements
  <2> QED BY <2>2, <2>3, <2>5, <2>7 DEF c
<1> QED BY <1>1, <1>2, <1>3 DEF StackExclusive, Elements

LEMMA OwnershipAnswers == TypeOK /\ Ownership => AnswersOwnRequest
<1> SUFFICES ASSUME TypeOK, Ownership,
                    NEW i \in DOMAIN strand, strand[i].op = "on_request_completed"
             PROVE  /\ {r \in Request : m_connection[r] = strand[i].conn} = {strand[i].req}
                    /\ \A j \in DOMAIN strand : strand[j].op = "on_request_completed"
                           /\ strand[j].conn = strand[i].conn => i = j
  BY DEF AnswersOwnRequest
<1>1. strand[i].req \in Request /\ strand[i].conn \in Conn
  BY QueueElements, MessageParts
<1>2. m_connection[strand[i].req] = strand[i].conn
  BY DEF Ownership, CompletionHeld
<1>3. {r \in Request : m_connection[r] = strand[i].conn} = {strand[i].req}
  BY <1>1, <1>2, ConnAssumption DEF Ownership, OneHolder
<1> QED BY <1>3 DEF Ownership, CompletionHeld

LEMMA OwnershipCallback == TypeOK /\ Ownership => NoCallbackOverwritten
<1> SUFFICES ASSUME TypeOK, Ownership, NEW c \in Conn
             PROVE  LET starts == {i \in DOMAIN stack_strand[c] :
                                       stack_strand[c][i].op = "start"}
                    IN Cardinality(starts) + (IF callback[c] # NoRequest THEN 1 ELSE 0) <= 1
  BY DEF NoCallbackOverwritten
<1> DEFINE starts == {i \in DOMAIN stack_strand[c] : stack_strand[c][i].op = "start"}
<1>1. CASE starts = {}
  <2>1. Cardinality(starts) = 0
    BY <1>1, FS_EmptySet
  <2> HIDE DEF starts
  <2>2. Cardinality(starts) + (IF callback[c] # NoRequest THEN 1 ELSE 0) <= 1
    BY <2>1
  <2> QED BY <2>2 DEF starts
<1>2. ASSUME NEW i \in starts
      PROVE  Cardinality(starts) + (IF callback[c] # NoRequest THEN 1 ELSE 0) <= 1
  <2>1. starts = {i} /\ callback[c] = NoRequest
    BY DEF Ownership, StartHeld
  <2>2. Cardinality({i}) = 1
    BY FS_Singleton, Zenon
  <2>3. Cardinality(starts) = 1
    BY <2>1, <2>2
  <2> HIDE DEF starts
  <2> QED BY <2>1, <2>3
<1> QED BY <1>1, <1>2

LEMMA OwnershipHost == TypeOK /\ Ownership => StackServesHost
<1> SUFFICES ASSUME TypeOK, Ownership PROVE StackServesHost
  OBVIOUS
<1>1. \A r \in Active(request_state) : r \in Request /\ m_connection[r] # NoConn
  BY DEF Active, Ownership, HeldWhileActive
<1> QED BY <1>1 DEF StackServesHost, Ownership, HostKnown

\* A stack is used by one request at a time, and a pooled stack has nothing
\* left to do for an earlier request (connection_pool.cpp:119-137, 164-180).
THEOREM ExclusiveCorrect ==
    ASSUME BadUrl \notin Location
    PROVE  Spec => []StackExclusive
  BY OwnershipCorrect, TypeCorrect, OwnershipExclusive, PTL

\* on_request_completed finds by the stack's handle the very request the
\* response is for (request_manager.cpp:100-101).
THEOREM AnswersCorrect ==
    ASSUME BadUrl \notin Location
    PROVE  Spec => []AnswersOwnRequest
  BY OwnershipCorrect, TypeCorrect, OwnershipAnswers, PTL

\* start never overwrites an armed callback (http_content.h:87), so no request
\* loses its completion.
THEOREM CallbackCorrect ==
    ASSUME BadUrl \notin Location
    PROVE  Spec => []NoCallbackOverwritten
  BY OwnershipCorrect, TypeCorrect, OwnershipCallback, PTL

\* A request runs on a stack for its own host and port, also after a
\* redirection (connection_pool.cpp:119-137).
THEOREM HostCorrect ==
    ASSUME BadUrl \notin Location
    PROVE  Spec => []StackServesHost
  BY OwnershipCorrect, TypeCorrect, OwnershipHost, PTL
=============================================================================
