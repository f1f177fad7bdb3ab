--------------------- MODULE RequestManagerResultsProofs ---------------------
(* Theorems about what RequestManager does for its requests: one result for *)
(* each, "operation_aborted" only for a request that was cancelled, a       *)
(* wake-up for every slot that could be filled, and no more stacks than     *)
(* slots for a host.                                                        *)
EXTENDS RequestManagerProofs, WellOrder

(***************************************************************************)
(* One result for each request.  Nothing is assumed of Location headers or  *)
(* of create_stack.                                                         *)
(***************************************************************************)

\* The inductive invariant: a request is answered when it is erased, and a
\* completion or a cancel only reaches a request that is not.
Once == HeldWhileActive /\ PostedOnce /\ AnsweredOnce

\* The requests posted to the manager keep their state while handlers of other
\* requests run.
LEMMA PoppedPosted ==
    ASSUME TypeOK, Once, Popped,
           \A i \in DOMAIN strand : i # 1 /\ strand[i].op = "execute_request"
               => request_state'[strand[i].req] = "posted"
    PROVE  PostedOnce'
<1>1. \A i \in DOMAIN strand' : strand'[i].op = "execute_request" =>
          i \in Nat /\ i + 1 \in DOMAIN strand /\ i + 1 # 1 /\ strand'[i] = strand[i + 1]
  BY DEF Popped, WakeUp
<1> QED BY <1>1 DEF Once, PostedOnce

\* execute_waiting_requests answers nobody.
LEMMA ExecuteWaitingOnce ==
    ASSUME TypeOK, Once, NEW rs \in [Request -> RequestState],
           \A r \in Request : rs[r] = "in_progress" <=> request_state[r] = "in_progress",
           \A r \in Request : rs[r] = "erased" <=> request_state[r] = "erased",
           \A i \in DOMAIN strand : i # 1 /\ strand[i].op = "execute_request"
               => rs[strand[i].req] = "posted",
           ExecuteWaitingRequests(rs), Popped, UNCHANGED results
    PROVE  Once'
<1>1. CASE request_state' = rs /\ UNCHANGED m_connection
  BY <1>1, PoppedPosted DEF Once, HeldWhileActive, AnsweredOnce
<1>2. ASSUME NEW r \in MayStart(rs), StartRequest(rs, r) PROVE Once'
  <2>1. r \in Request /\ rs[r] \in Queued
    BY DEF MayStart, Begin, Tracked
  <2>2. PICK c \in Conn : /\ request_state' = [rs EXCEPT ![r] = "in_progress"]
                          /\ m_connection' = [m_connection EXCEPT ![r] = c]
    BY <1>2 DEF StartRequest
  <2>3. HeldWhileActive'
    BY <2>1, <2>2, ConnAssumption DEF Once, HeldWhileActive, TypeOK
  <2>4. AnsweredOnce'
    BY <2>1, <2>2 DEF Once, AnsweredOnce, Queued
  <2>5. PostedOnce'
    <3>1. \A i \in DOMAIN strand : i # 1 /\ strand[i].op = "execute_request"
              => request_state'[strand[i].req] = "posted"
      BY <2>1, <2>2 DEF Queued
    <3> QED BY <3>1, PoppedPosted
  <2> QED BY <2>3, <2>4, <2>5 DEF Once
<1> QED BY <1>1, <1>2 DEF ExecuteWaitingRequests

LEMMA ExecuteRequestOnce == ASSUME TypeOK, Once, ExecuteRequest PROVE Once'
<1> DEFINE r == Head(strand).req
           rs == [request_state EXCEPT ![r] = "waiting"]
<1>1. strand # <<>> /\ Head(strand).op = "execute_request" /\ strand' = Tail(strand)
  BY DEF ExecuteRequest, Handling
<1>2. 1 \in DOMAIN strand /\ Head(strand) = strand[1]
  <2>1. strand \in Seq(Message)
    BY DEF TypeOK
  <2> QED BY <1>1, <2>1, SMT
<1>3. r \in Request /\ request_state[r] = "posted"
  BY <1>1, <1>2, QueueElements, MessageParts DEF Once, PostedOnce
<1>4. \A i \in DOMAIN strand : i # 1 /\ strand[i].op = "execute_request" =>
          /\ strand[i].req # r
          /\ request_state[strand[i].req] = "posted"
          /\ strand[i].req \in Request
  BY <1>1, <1>2, QueueElements, MessageParts DEF Once, PostedOnce
<1>5. Popped
  BY <1>1, PoppedTail
<1>6. ExecuteWaitingRequests(rs) /\ UNCHANGED results
  BY DEF ExecuteRequest, history
<1> HIDE DEF r
<1>7. rs \in [Request -> RequestState]
  BY DEF TypeOK, RequestState, Queued
<1>8. \A s \in Request : rs[s] = IF s = r THEN "waiting" ELSE request_state[s]
  BY DEF TypeOK
<1> HIDE DEF rs
<1>9. /\ \A s \in Request : rs[s] = "in_progress" <=> request_state[s] = "in_progress"
      /\ \A s \in Request : rs[s] = "erased" <=> request_state[s] = "erased"
      /\ \A i \in DOMAIN strand : i # 1 /\ strand[i].op = "execute_request"
             => rs[strand[i].req] = "posted"
  BY <1>3, <1>4, <1>8
<1> QED BY <1>5, <1>6, <1>7, <1>9, ExecuteWaitingOnce

LEMMA WakeUpOnce == ASSUME TypeOK, Once, WakeUpHandler PROVE Once'
<1>1. Popped
  BY PoppedTail DEF WakeUpHandler, Handling
<1>2. ExecuteWaitingRequests(request_state) /\ UNCHANGED results
  BY DEF WakeUpHandler, history
<1>3. request_state \in [Request -> RequestState]
  BY DEF TypeOK
<1>4. \A i \in DOMAIN strand : i # 1 /\ strand[i].op = "execute_request"
          => request_state[strand[i].req] = "posted"
  BY DEF Once, PostedOnce
<1> QED BY <1>1, <1>2, <1>3, <1>4, ExecuteWaitingOnce

\* handle_completed_request on requests that are in m_requests.
LEMMA HandleCompletedOnce ==
    ASSUME TypeOK, Once, strand # <<>>, NEW rs \in SUBSET Request, NEW ec \in EC,
           \A r \in rs : request_state[r] \in Queued \cup {"in_progress"},
           HandleCompleted(rs, ec)
    PROVE  Once'
<1>1. Popped
  <2>1. Cardinality(rs) \in Nat
    BY RequestAssumption, FS_Subset, FS_CardinalityType
  <2> QED BY <2>1, PoppedStrand DEF HandleCompleted
<1>2. \A r \in Request :
          /\ request_state'[r] = IF r \in rs THEN "erased" ELSE request_state[r]
          /\ m_connection'[r] = IF r \in rs THEN NoConn ELSE m_connection[r]
          /\ results'[r] = IF r \in rs THEN Append(results[r], ec) ELSE results[r]
  BY DEF HandleCompleted
<1>3. HeldWhileActive'
  BY <1>2 DEF Once, HeldWhileActive
<1>4. AnsweredOnce'
  <2> SUFFICES ASSUME NEW r \in Request
               PROVE  Len(results'[r]) = IF request_state'[r] = "erased" THEN 1 ELSE 0
    BY DEF AnsweredOnce
  <2>1. Len(results[r]) = IF request_state[r] = "erased" THEN 1 ELSE 0
    BY DEF Once, AnsweredOnce
  <2>2. Len(Append(results[r], ec)) = Len(results[r]) + 1
    <3>1. results[r] \in Seq(EC)
      BY DEF TypeOK
    <3> QED BY <3>1, AppendProperties
  <2>3. CASE r \in rs
    <3>1. Len(results[r]) = 0
      BY <2>1, <2>3 DEF Queued
    <3>2. results'[r] = Append(results[r], ec) /\ request_state'[r] = "erased"
      BY <1>2, <2>3
    <3>3. Len(results'[r]) = 1
      BY <2>2, <3>1, <3>2
    <3> QED BY <3>2, <3>3
  <2>4. CASE r \notin rs
    BY <1>2, <2>1, <2>4
  <2> QED BY <2>3, <2>4
<1>5. PostedOnce'
  <2>1. \A i \in DOMAIN strand : i # 1 /\ strand[i].op = "execute_request"
            => request_state'[strand[i].req] = "posted"
    BY <1>2, QueueElements, MessageParts DEF Once, PostedOnce, Queued
  <2> QED BY <1>1, <2>1, PoppedPosted
<1> QED BY <1>3, <1>4, <1>5 DEF Once

LEMMA CancelRequestsOnce == ASSUME TypeOK, Once, CancelRequests PROVE Once'
<1> DEFINE idle == {r \in Selected(Head(strand).token) : m_connection[r] = NoConn}
<1>1. HandleCompleted(idle, "operation_aborted") /\ strand # <<>>
  BY DEF CancelRequests, Handling
<1>2. idle \in SUBSET Request /\ \A r \in idle : request_state[r] \in Queued \cup {"in_progress"}
  BY DEF Selected, Tracked
<1>3. "operation_aborted" \in EC
  BY DEF EC
<1> HIDE DEF idle
<1> QED BY <1>1, <1>2, <1>3, HandleCompletedOnce

LEMMA OnRequestCompletedOnce == ASSUME TypeOK, Once, OnRequestCompleted PROVE Once'
<1> DEFINE m == Head(strand)
           found == {r \in Request : m_connection[r] = m.conn}
<1>1. strand # <<>> /\ m \in Message /\ m.op = "on_request_completed"
  BY HeadTailProperties DEF OnRequestCompleted, Handling, TypeOK
<1>2. m.conn \in Conn /\ m.out.ec \in EC
  BY <1>1, MessageParts, OutcomeType
<1>3. \A r \in found : r \in Request /\ request_state[r] = "in_progress"
  BY <1>2, ConnAssumption DEF Once, HeldWhileActive
<1>4. CASE Ignore
  <2>1. Popped /\ UNCHANGED <<request_state, m_connection, results>>
    BY <1>1, <1>4, PoppedTail DEF Ignore
  <2>2. PostedOnce'
    BY <2>1, PoppedPosted DEF Once, PostedOnce
  <2> QED BY <2>1, <2>2 DEF Once, HeldWhileActive, AnsweredOnce
<1>5. ASSUME NEW r \in found, Answer(r, m.out) PROVE Once'
  <2>1. HandleCompleted({r}, m.out.ec)
    BY <1>5 DEF Answer
  <2>2. {r} \in SUBSET Request /\ \A s \in {r} : request_state[s] \in Queued \cup {"in_progress"}
    BY <1>3
  <2> HIDE DEF m
  <2> QED BY <1>1, <1>2, <2>1, <2>2, HandleCompletedOnce
<1>6. ASSUME NEW r \in found, Retry(r, m.out) PROVE Once'
  <2>1. Popped
    BY <1>1, <1>6, PoppedAppend DEF Retry
  <2>2. /\ request_state'[r] = "waiting_retry" /\ m_connection'[r] = NoConn
        /\ \A s \in Request : s # r => /\ request_state'[s] = request_state[s]
                                       /\ m_connection'[s] = m_connection[s]
        /\ results' = results
    BY <1>3, <1>6 DEF Retry, TypeOK
  <2>3. HeldWhileActive' /\ AnsweredOnce'
    BY <1>3, <2>2 DEF Once, HeldWhileActive, AnsweredOnce
  <2>4. PostedOnce'
    <3>1. \A i \in DOMAIN strand : strand[i].op = "execute_request" =>
              strand[i].req \in Request /\ strand[i].req # r
      BY <1>3, QueueElements, MessageParts DEF Once, PostedOnce
    <3>2. \A i \in DOMAIN strand : strand[i].op = "execute_request"
              => request_state'[strand[i].req] = "posted"
      BY <2>2, <3>1 DEF Once, PostedOnce
    <3> QED BY <2>1, <3>2, PoppedPosted
  <2> QED BY <2>3, <2>4 DEF Once
<1> QED BY <1>4, <1>5, <1>6 DEF OnRequestCompleted

\* Everything else only posts to the manager's queue.
LEMMA PushOnce ==
    ASSUME TypeOK, Once, NEW m \in Message, m.op # "execute_request",
           strand' = Append(strand, m), UNCHANGED <<request_state, m_connection, results>>
    PROVE  Once'
<1>1. Pushed(m)
  BY PushedStrand
<1> QED BY <1>1 DEF Once, HeldWhileActive, PostedOnce, AnsweredOnce, Pushed

LEMMA ExecuteRequestAsyncOnce ==
    ASSUME TypeOK, Once, NEW r \in Request, NEW h \in Host, NEW t \in Token, NEW now \in Time,
           ExecuteRequestAsync(r, h, t, now)
    PROVE  Once'
<1> DEFINE m == [op |-> "execute_request", req |-> r]
<1>1. Pushed(m)
  <2>1. m \in Message /\ strand' = Append(strand, m)
    BY MessageTypes DEF ExecuteRequestAsync
  <2> HIDE DEF m
  <2> QED BY <2>1, PushedStrand
<1>2. /\ request_state[r] = "unborn"
      /\ request_state' = [request_state EXCEPT ![r] = "posted"]
      /\ UNCHANGED <<m_connection, results>>
  BY DEF ExecuteRequestAsync, history
<1>3. \A i \in DOMAIN strand : strand[i].op = "execute_request" =>
          strand[i].req # r /\ strand[i].req \in Request
  BY <1>2, QueueElements, MessageParts DEF Once, PostedOnce
<1>4. PostedOnce'
  BY <1>1, <1>2, <1>3 DEF Once, PostedOnce, Pushed, TypeOK
<1>5. HeldWhileActive' /\ AnsweredOnce'
  BY <1>2 DEF Once, HeldWhileActive, AnsweredOnce, TypeOK
<1> QED BY <1>4, <1>5 DEF Once

LEMMA NextOnce == ASSUME TypeOK, Once, [Next]_vars PROVE Once'
<1>1. ASSUME NEW t \in Token, CancelRequestsAsync(t) \/ (DestroyClient /\ t = 0) PROVE Once'
  <2> DEFINE m == [op |-> "cancel_requests", token |-> t]
  <2>1. /\ m \in Message /\ m.op # "execute_request"
        /\ strand' = Append(strand, m) /\ UNCHANGED <<request_state, m_connection, results>>
    BY <1>1, MessageTypes DEF CancelRequestsAsync, DestroyClient
  <2> HIDE DEF m
  <2> QED BY <2>1, PushOnce
<1>2. CASE UserStep
  BY <1>1, <1>2, OrderAssumption, ExecuteRequestAsyncOnce DEF UserStep
<1>3. CASE ManagerStep
  BY <1>3, ExecuteRequestOnce, WakeUpOnce, CancelRequestsOnce, OnRequestCompletedOnce
     DEF ManagerStep
<1>4. ASSUME NEW c \in Conn, StackStep(c) PROVE Once'
  <2>1. UNCHANGED <<request_state, m_connection, results>>
    BY <1>4 DEF StackStep, StackStart, StackComplete, StackCancel, history
  <2>2. CASE UNCHANGED strand
    BY <2>1, <2>2 DEF Once, HeldWhileActive, PostedOnce, AnsweredOnce
  <2>3. CASE ~UNCHANGED strand
    <3>1. PICK out \in Outcome : Report(c, out) /\ callback[c] # NoRequest
      BY <1>4, <2>3 DEF StackStep, StackStart, StackComplete, StackCancel
    <3> DEFINE m == [op |-> "on_request_completed", conn |-> c, req |-> callback[c],
                     out |-> out]
    <3>2. m \in Message /\ m.op # "execute_request" /\ strand' = Append(strand, m)
      BY <3>1, MessageTypes DEF Report, TypeOK
    <3> HIDE DEF m
    <3> QED BY <2>1, <3>2, PushOnce
  <2> QED BY <2>2, <2>3
<1>5. CASE UNCHANGED vars
  BY <1>5 DEF vars, history, Once, HeldWhileActive, PostedOnce, AnsweredOnce
<1> QED BY <1>2, <1>3, <1>4, <1>5 DEF Next

LEMMA InitOnce == Init => Once
  BY SMT DEF Init, Once, HeldWhileActive, PostedOnce, AnsweredOnce

\* A request has a stack exactly while it is in progress, is posted to the
\* manager once and is answered once, whatever servers send and throw
\* (request_manager.cpp:56-123).
THEOREM OnceCorrect == Spec => []Once
<1>1. TypeOK /\ Once /\ [Next]_vars => Once'
  BY NextOnce
<1> QED BY <1>1, InitOnce, TypeCorrect, PTL DEF Spec

\* The completion handler of a request is invoked at most once, and exactly
\* when handle_completed_request erases the request from m_requests: a retry, a
\* second cancel, a completion that comes after a cancel, a URL that cannot be
\* parsed and a create_stack that throws included (request_manager.cpp:82-92, 118-121).
THEOREM AnsweredCorrect == Spec => []AnsweredOnce
<1>1. Once => AnsweredOnce
  BY DEF Once
<1> QED BY <1>1, OnceCorrect, PTL

(***************************************************************************)
(* A cancellation never hits a request it was not meant for.                *)
(***************************************************************************)

\* A cancel in the queue of a stack is meant for the request whose callback is
\* armed and for the one whose start is queued before it, if there are such
\* requests.
CancelMeant ==
    \A c \in Conn : \A k \in DOMAIN stack_strand[c] : stack_strand[c][k].op = "cancel" =>
        /\ callback[c] # NoRequest => callback[c] \in cancelled
        /\ \A i \in DOMAIN stack_strand[c] :
               i < k /\ stack_strand[c][i].op = "start" => stack_strand[c][i].req \in cancelled

\* A queued completion with "operation_aborted" is for a cancelled request.
QueuedAborts ==
    \A i \in DOMAIN strand :
        strand[i].op = "on_request_completed" /\ strand[i].out.ec = "operation_aborted"
            => strand[i].req \in cancelled

\* So is an answer with it.
AnsweredAborts ==
    \A r \in Request : \A i \in DOMAIN results[r] :
        results[r][i] = "operation_aborted" => r \in cancelled

Meant == CancelMeant /\ QueuedAborts /\ AnsweredAborts

LEMMA MeantAborted == Meant => AbortedOnlyIfCancelled
  BY DEF Meant, QueuedAborts, AnsweredAborts, AbortedOnlyIfCancelled, Elements

LEMMA PoppedAborts ==
    ASSUME QueuedAborts, Popped, cancelled \subseteq cancelled'
    PROVE  QueuedAborts'
  BY DEF QueuedAborts, Popped, WakeUp

LEMMA PushedAborts ==
    ASSUME TypeOK, QueuedAborts, UNCHANGED cancelled, NEW m \in Message,
           strand' = Append(strand, m),
           m.op = "on_request_completed" /\ m.out.ec = "operation_aborted"
               => m.req \in cancelled
    PROVE  QueuedAborts'
<1>1. Pushed(m)
  BY PushedStrand
<1> QED BY <1>1 DEF QueuedAborts, Pushed

\* An answer with ec to the requests of rs.
LEMMA AppendedAborts ==
    ASSUME TypeOK, AnsweredAborts, NEW rs \in SUBSET Request, NEW ec \in EC,
           ec = "operation_aborted" => rs \subseteq cancelled', cancelled \subseteq cancelled',
           \A r \in Request :
               results'[r] = IF r \in rs THEN Append(results[r], ec) ELSE results[r]
    PROVE  AnsweredAborts'
<1> SUFFICES ASSUME NEW r \in Request, NEW i \in DOMAIN results'[r],
                    results'[r][i] = "operation_aborted"
             PROVE  r \in cancelled'
  BY DEF AnsweredAborts
<1>1. CASE r \notin rs
  BY <1>1 DEF AnsweredAborts
<1>2. CASE r \in rs
  <2>1. results[r] \in Seq(EC) /\ results'[r] = Append(results[r], ec)
    BY <1>2 DEF TypeOK
  <2>2. \/ i \in DOMAIN results[r] /\ results'[r][i] = results[r][i]
        \/ results'[r][i] = ec
    BY <2>1, AppendElements
  <2> QED BY <1>2, <2>2 DEF AnsweredAborts
<1> QED BY <1>1, <1>2

\* execute_waiting_requests starts a request behind every queued cancel.
LEMMA ExecuteWaitingMeant ==
    ASSUME TypeOK, Meant, NEW rs, ExecuteWaitingRequests(rs), Popped,
           UNCHANGED <<callback, cancelled, results>>
    PROVE  Meant'
<1>1. QueuedAborts' /\ AnsweredAborts'
  BY PoppedAborts DEF Meant, AnsweredAborts
<1>2. CASE UNCHANGED stack_strand
  BY <1>1, <1>2 DEF Meant, CancelMeant
<1>3. ASSUME NEW r \in MayStart(rs), StartRequest(rs, r) PROVE Meant'
  <2>1. r \in Request
    BY DEF MayStart, Begin, Tracked
  <2>2. PICK c \in Conn : stack_strand' = [stack_strand EXCEPT ![c] = Append(@, Start(r))]
    BY <1>3 DEF StartRequest
  <2>3. /\ stack_strand \in [Conn -> Seq(StackMessage)] /\ Start(r) \in StackMessage
        /\ stack_strand[c] \in Seq(StackMessage)
    BY <2>1, MessageTypes DEF TypeOK
  <2>4. \A d \in Conn : d # c => stack_strand'[d] = stack_strand[d]
    BY <2>2, <2>3
  <2>5. /\ Len(stack_strand[c]) \in Nat /\ DOMAIN stack_strand[c] = 1..Len(stack_strand[c])
        /\ \A i \in DOMAIN stack_strand'[c] :
               \/ i \in DOMAIN stack_strand[c] /\ stack_strand'[c][i] = stack_strand[c][i]
               \/ i = Len(stack_strand[c]) + 1 /\ stack_strand'[c][i] = Start(r)
    BY <2>2, <2>3, AppendElements, LenProperties
  <2> SUFFICES ASSUME NEW d \in Conn, NEW k \in DOMAIN stack_strand'[d],
                      stack_strand'[d][k].op = "cancel"
               PROVE  /\ callback[d] # NoRequest => callback[d] \in cancelled
                      /\ \A i \in DOMAIN stack_strand'[d] :
                             i < k /\ stack_strand'[d][i].op = "start"
                                 => stack_strand'[d][i].req \in cancelled
    BY <1>1 DEF Meant, CancelMeant
  <2>6. CASE d # c
    BY <2>4, <2>6 DEF Meant, CancelMeant
  <2>7. CASE d = c
    <3>1. k \in DOMAIN stack_strand[c] /\ stack_strand'[c][k] = stack_strand[c][k]
      BY <2>5, <2>7 DEF Start
    <3>2. \A i \in DOMAIN stack_strand'[c] : i < k =>
              i \in DOMAIN stack_strand[c] /\ stack_strand'[c][i] = stack_strand[c][i]
      BY <2>5, <3>1
    <3> QED BY <2>7, <3>1, <3>2 DEF Meant, CancelMeant
  <2> QED BY <2>6, <2>7
<1> QED BY <1>2, <1>3 DEF ExecuteWaitingRequests

LEMMA CancelRequestsMeant ==
    ASSUME TypeOK, Ownership, Meant, CancelRequests
    PROVE  Meant'
<1> DEFINE selected == Selected(Head(strand).token)
           idle == {r \in selected : m_connection[r] = NoConn}
           busy(c) == \E r \in selected : m_connection[r] = c
<1>1. /\ HandleCompleted(idle, "operation_aborted") /\ strand # <<>>
      /\ stack_strand' = [c \in Conn |->
             IF busy(c) THEN Append(stack_strand[c], Cancel) ELSE stack_strand[c]]
      /\ cancelled' = cancelled \cup selected
      /\ callback' = callback
  BY DEF CancelRequests, Handling
<1>2. /\ selected \subseteq Request /\ idle \in SUBSET Request
      /\ idle \subseteq cancelled' /\ cancelled \subseteq cancelled'
  BY <1>1 DEF Selected, Tracked
<1>3. AnsweredAborts'
  <2>1. \A r \in Request : results'[r] =
            IF r \in idle THEN Append(results[r], "operation_aborted") ELSE results[r]
    BY <1>1 DEF HandleCompleted
  <2>2. "operation_aborted" \in EC
    BY DEF EC
  <2> HIDE DEF idle
  <2> QED BY <1>2, <2>1, <2>2, AppendedAborts DEF Meant
<1>4. QueuedAborts'
  <2> HIDE DEF idle
  <2>1. Cardinality(idle) \in Nat
    BY <1>2, RequestAssumption, FS_Subset, FS_CardinalityType
  <2>2. Popped
    BY <1>1, <2>1, PoppedStrand DEF HandleCompleted
  <2> QED BY <1>2, <2>2, PoppedAborts DEF Meant
<1>5. CancelMeant'
  <2> SUFFICES ASSUME NEW c \in Conn, NEW k \in DOMAIN stack_strand'[c],
                      stack_strand'[c][k].op = "cancel"
               PROVE  /\ callback[c] # NoRequest => callback[c] \in cancelled'
                      /\ \A i \in DOMAIN stack_strand'[c] :
                             i < k /\ stack_strand'[c][i].op = "start"
                                 => stack_strand'[c][i].req \in cancelled'
    BY <1>1 DEF CancelMeant
  <2>1. CASE ~busy(c)
    <3>1. stack_strand'[c] = stack_strand[c]
      BY <1>1, <2>1
    <3> QED BY <1>2, <3>1 DEF Meant, CancelMeant
  <2>2. CASE busy(c)
    <3>1. PICK r \in selected : m_connection[r] = c
      BY <2>2
    <3>2. r \in Request /\ r \in cancelled' /\ c # NoConn
      BY <1>1, <1>2, <3>1, ConnAssumption
    <3>3. callback[c] # NoRequest => callback[c] = r
      BY <3>1, <3>2 DEF Ownership, CallbackHeld, OneHolder, TypeOK
    <3>4. \A i \in DOMAIN stack_strand[c] : stack_strand[c][i].op = "start" =>
              stack_strand[c][i].req = r
      BY <3>1, <3>2, QueueElements DEF Ownership, StartHeld, OneHolder
    <3>5. stack_strand'[c] = Append(stack_strand[c], Cancel)
      BY <1>1, <2>2
    <3>6. \A i \in DOMAIN stack_strand'[c] :
              \/ i \in DOMAIN stack_strand[c] /\ stack_strand'[c][i] = stack_strand[c][i]
              \/ stack_strand'[c][i] = Cancel
      <4>1. stack_strand[c] \in Seq(StackMessage) /\ Cancel \in StackMessage
        BY MessageTypes DEF TypeOK
      <4> QED BY <3>5, <4>1, AppendElements
    <3> QED BY <3>2, <3>3, <3>4, <3>6 DEF Cancel
  <2> QED BY <2>1, <2>2
<1> QED BY <1>3, <1>4, <1>5 DEF Meant

LEMMA OnRequestCompletedMeant ==
    ASSUME TypeOK, Ownership, Meant, OnRequestCompleted
    PROVE  Meant'
<1> DEFINE m == Head(strand)
           found == {r \in Request : m_connection[r] = m.conn}
<1>1. strand # <<>> /\ m.op = "on_request_completed"
  BY DEF OnRequestCompleted, Handling
<1>2. 1 \in DOMAIN strand /\ m = strand[1]
  <2>1. strand \in Seq(Message)
    BY DEF TypeOK
  <2> QED BY <1>1, <2>1, SMT
<1>3. m \in Message /\ m.out.ec \in EC /\ m.req \in Request
  BY <1>1, <1>2, QueueElements, MessageParts, OutcomeType
<1>4. found = {m.req}
  BY <1>1, <1>2, OwnershipAnswers DEF AnswersOwnRequest
<1>5. m.out.ec = "operation_aborted" => m.req \in cancelled
  BY <1>1, <1>2 DEF Meant, QueuedAborts
<1>6. UNCHANGED <<stack_strand, callback, cancelled>>
  BY DEF OnRequestCompleted, stacks
<1>7. Ignore \/ Retry(m.req, m.out) \/ Answer(m.req, m.out)
  BY <1>4 DEF OnRequestCompleted
<1>8. Popped /\ AnsweredAborts'
  <2>1. CASE Ignore
    BY <1>1, <1>6, <2>1, PoppedTail DEF Ignore, Meant, AnsweredAborts
  <2>2. CASE Retry(m.req, m.out)
    BY <1>1, <1>6, <2>2, PoppedAppend DEF Retry, Meant, AnsweredAborts
  <2>3. CASE Answer(m.req, m.out)
    <3>1. HandleCompleted({m.req}, m.out.ec)
      BY <2>3 DEF Answer
    <3>2. Cardinality({m.req}) \in Nat
      <4>1. Cardinality({m.req}) = 1
        BY FS_Singleton, Zenon
      <4> QED BY <4>1
    <3> HIDE DEF m
    <3>3. Popped
      BY <1>1, <3>1, <3>2, PoppedStrand DEF HandleCompleted
    <3>4. \A r \in Request : results'[r] =
              IF r \in {m.req} THEN Append(results[r], m.out.ec) ELSE results[r]
      BY <3>1 DEF HandleCompleted
    <3>5. {m.req} \in SUBSET Request
          /\ (m.out.ec = "operation_aborted" => {m.req} \subseteq cancelled')
      BY <1>3, <1>5, <1>6
    <3>6. AnsweredAborts'
      BY <1>3, <1>6, <3>4, <3>5, AppendedAborts DEF Meant
    <3> QED BY <3>3, <3>6
  <2> QED BY <1>7, <2>1, <2>2, <2>3
<1> QED BY <1>6, <1>8, PoppedAborts DEF Meant, CancelMeant

\* The head is taken off the queue of stack c: the cancels behind it keep what
\* they are meant for, and the one at the head had it.
LEMMA TakenMeant ==
    ASSUME TypeOK, CancelMeant, NEW c \in Conn, stack_strand[c] # <<>>, TakeStackHandler(c),
           UNCHANGED cancelled,
           \A d \in Conn : d # c => callback'[d] = callback[d],
           \/ callback'[c] \in {callback[c], NoRequest}
           \/ Head(stack_strand[c]).op = "start" /\ callback'[c] = Head(stack_strand[c]).req
    PROVE  CancelMeant'
<1>1. /\ \A d \in Conn : d # c => stack_strand'[d] = stack_strand[d]
      /\ \A i \in DOMAIN stack_strand'[c] :
             /\ i \in Nat /\ i # 0 /\ i + 1 \in DOMAIN stack_strand[c]
             /\ stack_strand'[c][i] = stack_strand[c][i + 1]
  BY TakenElements
<1>2. 1 \in DOMAIN stack_strand[c] /\ Head(stack_strand[c]) = stack_strand[c][1]
  <2>1. stack_strand[c] \in Seq(StackMessage)
    BY DEF TypeOK
  <2> QED BY <2>1, SMT
<1> SUFFICES ASSUME NEW d \in Conn, NEW k \in DOMAIN stack_strand'[d],
                    stack_strand'[d][k].op = "cancel"
             PROVE  /\ callback'[d] # NoRequest => callback'[d] \in cancelled
                    /\ \A i \in DOMAIN stack_strand'[d] :
                           i < k /\ stack_strand'[d][i].op = "start"
                               => stack_strand'[d][i].req \in cancelled
  BY DEF CancelMeant
<1>3. CASE d # c
  BY <1>1, <1>3 DEF CancelMeant
<1>4. CASE d = c
  <2>1. /\ k \in Nat /\ k # 0 /\ k + 1 \in DOMAIN stack_strand[c]
        /\ stack_strand[c][k + 1].op = "cancel"
    BY <1>1, <1>4
  <2>2. \A i \in DOMAIN stack_strand[c] :
            i < k + 1 /\ stack_strand[c][i].op = "start" => stack_strand[c][i].req \in cancelled
    BY <2>1 DEF CancelMeant
  <2>3. \A i \in DOMAIN stack_strand'[c] :
            i < k /\ stack_strand'[c][i].op = "start" => stack_strand'[c][i].req \in cancelled
    BY <1>1, <2>1, <2>2
  <2>4. callback'[c] # NoRequest => callback'[c] \in cancelled
    <3>1. 1 < k + 1
      BY <2>1
    <3> QED BY <1>2, <2>1, <2>2, <3>1 DEF CancelMeant
  <2> QED BY <1>4, <2>3, <2>4
<1> QED BY <1>3, <1>4

LEMMA StackMeant ==
    ASSUME TypeOK, Ownership, Meant, NEW c \in Conn, StackStep(c)
    PROVE  Meant'
<1>1. UNCHANGED <<cancelled, results>>
  BY DEF StackStep, StackStart, StackComplete, StackCancel, history
<1>2. AnsweredAborts'
  BY <1>1 DEF Meant, AnsweredAborts
<1>3. ASSUME NEW out \in Outcome, callback[c] # NoRequest, Report(c, out),
             out.ec = "operation_aborted" => callback[c] \in cancelled
      PROVE  /\ QueuedAborts'
             /\ callback'[c] = NoRequest /\ \A d \in Conn : d # c => callback'[d] = callback[d]
  <2> DEFINE m == [op |-> "on_request_completed", conn |-> c, req |-> callback[c],
                   out |-> out]
  <2>1. /\ m \in Message /\ strand' = Append(strand, m)
        /\ m.op = "on_request_completed" /\ m.out.ec = "operation_aborted"
               => m.req \in cancelled
    BY <1>3, MessageTypes DEF Report, TypeOK
  <2>2. callback'[c] = NoRequest /\ \A d \in Conn : d # c => callback'[d] = callback[d]
    BY <1>3 DEF Report, TypeOK
  <2> HIDE DEF m
  <2> QED BY <1>1, <2>1, <2>2, PushedAborts DEF Meant
<1>4. CASE StackStart(c)
  <2>1. /\ stack_strand[c] # <<>> /\ Head(stack_strand[c]).op = "start" /\ TakeStackHandler(c)
        /\ UNCHANGED strand
        /\ callback' = [callback EXCEPT ![c] = Head(stack_strand[c]).req]
    BY <1>4 DEF StackStart, StackHandling
  <2>2. /\ callback'[c] = Head(stack_strand[c]).req
        /\ \A d \in Conn : d # c => callback'[d] = callback[d]
    BY <2>1 DEF TypeOK
  <2>3. CancelMeant'
    BY <1>1, <2>1, <2>2, TakenMeant DEF Meant
  <2> QED BY <1>1, <1>2, <2>1, <2>3 DEF Meant, QueuedAborts
<1>5. ASSUME NEW out \in Outcome, StackComplete(c, out) PROVE Meant'
  <2>1. /\ callback[c] # NoRequest /\ Report(c, out) /\ UNCHANGED stack_strand
        /\ out.ec # "operation_aborted"
    BY <1>5 DEF StackComplete, StackError, Retryable
  <2> QED BY <1>1, <1>2, <1>3, <2>1 DEF Meant, CancelMeant
<1>6. ASSUME NEW out \in Outcome, StackCancel(c, out) PROVE Meant'
  <2>1. stack_strand[c] # <<>> /\ Head(stack_strand[c]).op = "cancel" /\ TakeStackHandler(c)
    BY <1>6 DEF StackCancel, StackHandling
  <2>2. callback[c] # NoRequest => callback[c] \in cancelled
    <3>1. stack_strand[c] \in Seq(StackMessage)
      BY DEF TypeOK
    <3>2. 1 \in DOMAIN stack_strand[c] /\ Head(stack_strand[c]) = stack_strand[c][1]
      BY <2>1, <3>1, SMT
    <3> QED BY <2>1, <3>2 DEF Meant, CancelMeant
  <2>3. CASE callback[c] # NoRequest
    <3>1. Report(c, out)
      BY <1>6, <2>3 DEF StackCancel
    <3> QED BY <1>1, <1>2, <1>3, <2>1, <2>2, <2>3, <3>1, TakenMeant DEF Meant
  <2>4. CASE callback[c] = NoRequest
    <3>1. UNCHANGED <<strand, callback>>
      BY <1>6, <2>4 DEF StackCancel
    <3> QED BY <1>1, <1>2, <2>1, <3>1, TakenMeant DEF Meant, QueuedAborts
  <2> QED BY <2>3, <2>4
<1> QED BY <1>4, <1>5, <1>6 DEF StackStep

LEMMA UserMeant == ASSUME TypeOK, Meant, UserStep PROVE Meant'
<1>1. UNCHANGED <<stack_strand, callback, cancelled, results>>
  BY DEF UserStep, ExecuteRequestAsync, CancelRequestsAsync, DestroyClient, stacks, history
<1>2. PICK m \in Message : strand' = Append(strand, m) /\ m.op # "on_request_completed"
  BY MessageTypes, OrderAssumption
     DEF UserStep, ExecuteRequestAsync, CancelRequestsAsync, DestroyClient
<1> QED BY <1>1, <1>2, PushedAborts DEF Meant, CancelMeant, AnsweredAborts

LEMMA NextMeant == ASSUME TypeOK, Ownership, Meant, [Next]_vars PROVE Meant'
<1>1. CASE ExecuteRequest \/ WakeUpHandler
  <2>1. Popped /\ UNCHANGED <<callback, cancelled, results>>
    BY <1>1, PoppedTail DEF ExecuteRequest, WakeUpHandler, Handling, history
  <2> QED BY <1>1, <2>1, ExecuteWaitingMeant DEF ExecuteRequest, WakeUpHandler
<1>2. CASE UNCHANGED vars
  BY <1>2 DEF vars, stacks, history, Meant, CancelMeant, QueuedAborts, AnsweredAborts
<1> QED BY <1>1, <1>2, CancelRequestsMeant, OnRequestCompletedMeant, StackMeant, UserMeant
        DEF Next, ManagerStep

\* A request is reported as "operation_aborted" only if a cancel_requests
\* handler selected it: a cancel that is still queued on a stack when its
\* request completes does not abort the next request on that stack
\* (request_manager.cpp:63-84, http_content.h:143-148).
THEOREM AbortedCorrect ==
    ASSUME BadUrl \notin Location
    PROVE  Spec => []AbortedOnlyIfCancelled
<1>1. Init => Meant
  BY SMT DEF Init, Meant, CancelMeant, QueuedAborts, AnsweredAborts
<1>2. TypeOK /\ Ownership /\ Meant /\ [Next]_vars => Meant'
  BY NextMeant
<1> QED BY <1>1, <1>2, MeantAborted, TypeCorrect, OwnershipCorrect, PTL DEF Spec

(***************************************************************************)
(* How many wake-ups a queue holds.                                         *)
(***************************************************************************)

WakeUps(s) == {i \in DOMAIN s : s[i] = WakeUp}

LEMMA WakeUpsFinite ==
    ASSUME NEW S, NEW s \in Seq(S)
    PROVE  IsFiniteSet(WakeUps(s)) /\ Cardinality(WakeUps(s)) \in Nat
<1>1. Len(s) \in Nat /\ DOMAIN s = 1..Len(s)
  BY LenProperties
<1>2. IsFiniteSet(1..Len(s))
  BY <1>1, FS_Interval
<1>3. WakeUps(s) \in SUBSET (1..Len(s))
  BY <1>1 DEF WakeUps
<1>4. IsFiniteSet(WakeUps(s))
  BY <1>2, <1>3, FS_Subset
<1> QED BY <1>4, FS_CardinalityType

LEMMA WakeUpsAppend ==
    ASSUME NEW S, NEW s \in Seq(S), NEW m \in S
    PROVE  Cardinality(WakeUps(Append(s, m))) =
               Cardinality(WakeUps(s)) + (IF m = WakeUp THEN 1 ELSE 0)
<1> DEFINE n == Len(s) + 1
<1>1. /\ Len(s) \in Nat /\ n \notin DOMAIN s /\ DOMAIN s = 1..Len(s)
      /\ DOMAIN Append(s, m) = DOMAIN s \cup {n}
      /\ \A i \in DOMAIN s : Append(s, m)[i] = s[i]
      /\ Append(s, m)[n] = m
  BY AppendProperties, LenProperties, SMT
<1>2. IsFiniteSet(WakeUps(s)) /\ Cardinality(WakeUps(s)) \in Nat
  BY WakeUpsFinite
<1> HIDE DEF n
<1>3. CASE m = WakeUp
  <2>1. WakeUps(Append(s, m)) = WakeUps(s) \cup {n} /\ n \notin WakeUps(s)
    BY <1>1, <1>3 DEF WakeUps
  <2> QED BY <1>2, <1>3, <2>1, FS_AddElement
<1>4. CASE m # WakeUp
  <2>1. WakeUps(Append(s, m)) = WakeUps(s)
    BY <1>1, <1>4 DEF WakeUps
  <2> QED BY <1>2, <1>4, <2>1
<1> QED BY <1>3, <1>4

LEMMA WakeUpsTail ==
    ASSUME NEW S, NEW s \in Seq(S), s # <<>>
    PROVE  /\ Tail(s) \in Seq(S)
           /\ Cardinality(WakeUps(Tail(s))) =
                  Cardinality(WakeUps(s)) - (IF Head(s) = WakeUp THEN 1 ELSE 0)
<1> DEFINE T == WakeUps(s) \ {1}
           f == [i \in WakeUps(Tail(s)) |-> i + 1]
<1>1. /\ Tail(s) \in Seq(S) /\ Len(s) \in Nat /\ Len(s) >= 1 /\ DOMAIN s = 1..Len(s)
      /\ DOMAIN Tail(s) = 1..(Len(s) - 1) /\ Head(s) = s[1]
  BY HeadTailProperties, LenProperties, EmptySeq, SMT
<1>2. \A i \in 1..(Len(s) - 1) : Tail(s)[i] = s[i + 1]
  BY <1>1, HeadTailProperties, SMT
<1>3. /\ WakeUps(Tail(s)) = {i \in 1..(Len(s) - 1) : s[i + 1] = WakeUp}
      /\ WakeUps(s) = {i \in 1..Len(s) : s[i] = WakeUp}
  BY <1>1, <1>2 DEF WakeUps
<1>4. f \in Bijection(WakeUps(Tail(s)), T)
  <2>1. \A i \in WakeUps(Tail(s)) : i \in Nat /\ i + 1 \in T
    BY <1>1, <1>3
  <2>2. \A j \in T : j \in Nat /\ j - 1 \in WakeUps(Tail(s)) /\ (j - 1) + 1 = j
    BY <1>1, <1>3
  <2> HIDE DEF T
  <2>3. f \in [WakeUps(Tail(s)) -> T]
    BY <2>1
  <2>4. \A i, j \in WakeUps(Tail(s)) : f[i] = f[j] => i = j
    BY <2>1
  <2>5. \A j \in T : \E i \in WakeUps(Tail(s)) : f[i] = j
    BY <2>2
  <2> HIDE DEF f
  <2> QED BY <2>3, <2>4, <2>5, Zenon DEF Bijection, Injection, Surjection, IsInjective
<1>5. IsFiniteSet(WakeUps(s)) /\ Cardinality(WakeUps(s)) \in Nat /\ IsFiniteSet(WakeUps(Tail(s)))
  BY <1>1, WakeUpsFinite
<1>6. Cardinality(T) = Cardinality(WakeUps(Tail(s)))
  <2> HIDE DEF T, f
  <2> QED BY <1>4, <1>5, FS_Bijection DEF ExistsBijection
<1>7. Cardinality(T) = IF 1 \in WakeUps(s) THEN Cardinality(WakeUps(s)) - 1
                                           ELSE Cardinality(WakeUps(s))
  BY <1>5, FS_RemoveElement
<1>8. 1 \in WakeUps(s) <=> Head(s) = WakeUp
  BY <1>1, <1>3
<1> HIDE DEF T
<1> QED BY <1>1, <1>5, <1>6, <1>7, <1>8

LEMMA WakeUpsConcat ==
    ASSUME NEW s \in Seq(Message), NEW n \in Nat
    PROVE  Cardinality(WakeUps(s \o [i \in 1..n |-> WakeUp])) = Cardinality(WakeUps(s)) + n
<1> DEFINE w == [i \in 1..n |-> WakeUp]
           k == Len(s)
           new == (k + 1)..(k + n)
<1>1. w \in Seq(Message)
  BY WakeUpsType
<1>2. DOMAIN w = 1..n /\ \A i \in 1..n : w[i] = WakeUp
  OBVIOUS
<1> HIDE DEF w
<1>3. Len(w) = n
  BY <1>1, <1>2, LenProperties, SMT
<1>4. k \in Nat /\ DOMAIN s = 1..k
  BY LenProperties
<1>5. /\ s \o w \in Seq(Message) /\ Len(s \o w) = k + n
      /\ \A i \in 1..(k + n) : (s \o w)[i] = IF i <= k THEN s[i] ELSE w[i - k]
  <2>1. /\ s \o w \in Seq(Message) /\ Len(s \o w) = k + Len(w)
        /\ \A i \in 1..(k + Len(w)) : (s \o w)[i] = IF i <= k THEN s[i] ELSE w[i - k]
    BY <1>1, ConcatProperties, Zenon
  <2> QED BY <1>3, <2>1
<1>6. DOMAIN (s \o w) = 1..(k + n)
  BY <1>5, LenProperties
<1> HIDE DEF k
<1>7. \A i \in 1..k : i \in 1..(k + n) /\ (s \o w)[i] = s[i]
  BY <1>4, <1>5
<1>8. \A i \in new : i \in 1..(k + n) /\ (s \o w)[i] = WakeUp
  BY <1>2, <1>4, <1>5
<1>9. \A i \in 1..(k + n) : i \in 1..k \/ i \in new
  BY <1>4
<1>10. \A i \in 1..k : i \notin new
  BY <1>4
<1>11. IsFiniteSet(new) /\ Cardinality(new) = n
  <2>1. k + 1 \in Int /\ k + n \in Int /\ (k + n) - (k + 1) + 1 = n
    BY <1>4
  <2>2. IsFiniteSet(new) /\ Cardinality(new) = IF k + 1 > k + n THEN 0 ELSE (k + n) - (k + 1) + 1
    BY <2>1, FS_Interval
  <2> QED BY <1>4, <2>2
<1>12. IsFiniteSet(WakeUps(s)) /\ Cardinality(WakeUps(s)) \in Nat
  BY WakeUpsFinite
<1> HIDE DEF new
<1>13. WakeUps(s \o w) = WakeUps(s) \cup new /\ WakeUps(s) \cap new = {}
  BY <1>4, <1>6, <1>7, <1>8, <1>9, <1>10, Zenon DEF WakeUps
<1>14. Cardinality(WakeUps(s) \cup new) =
          Cardinality(WakeUps(s)) + Cardinality(new) - Cardinality(WakeUps(s) \cap new)
  BY <1>11, <1>12, FS_Union
<1>15. Cardinality(WakeUps(s) \cap new) = 0
  BY <1>13, FS_EmptySet
<1>16. Cardinality(WakeUps(s \o w)) = Cardinality(WakeUps(s)) + n
  BY <1>11, <1>12, <1>13, <1>14, <1>15
<1> QED BY <1>16, Zenon DEF w

(***************************************************************************)
(* How many requests wait and how many are in progress.                     *)
(***************************************************************************)

LEMMA Counts ==
    ASSUME NEW rs
    PROVE  /\ IsFiniteSet(Waiting(rs)) /\ Cardinality(Waiting(rs)) \in Nat
           /\ IsFiniteSet(Active(rs)) /\ Cardinality(Active(rs)) \in Nat
<1>1. Waiting(rs) \subseteq Request /\ Active(rs) \subseteq Request
  BY DEF Waiting, Active
<1>2. IsFiniteSet(Waiting(rs)) /\ IsFiniteSet(Active(rs))
  BY <1>1, FS_Subset, RequestAssumption
<1> QED BY <1>2, FS_CardinalityType

\* The front of the index is a request that waits, as long as one does
\* (request_manager.cpp:129-134): with a slot free, one may start.
LEMMA MayStartExists ==
    ASSUME TypeOK, NEW rs \in [Request -> RequestState], Waiting(rs) # {},
           Cardinality(Active(rs)) < MaxParallel
    PROVE  MayStart(rs) # {}
<1> DEFINE retry == {r \in Request : rs[r] = "waiting_retry"}
           first == IF retry # {} THEN retry ELSE Waiting(rs)
           times == {m_creation_time[r] : r \in first}
<1>1. first # {} /\ first \subseteq Request /\ first \subseteq Waiting(rs)
  BY DEF Waiting, Queued
<1>2. \A r \in Request : m_creation_time[r] \in Nat
  BY OrderAssumption DEF TypeOK
<1>3. times \subseteq Nat /\ times # {}
  BY <1>1, <1>2
<1>4. \A r, s \in first : rs[r] = rs[s]
  BY DEF Waiting, Queued
<1>5. \A r \in first, s \in Tracked(rs) : s \notin first =>
          \/ rs[r] = "waiting_retry" /\ rs[s] \in {"waiting", "in_progress"}
          \/ rs[r] = "waiting" /\ rs[s] = "in_progress"
  BY DEF Waiting, Tracked, Queued
<1>6. PICK x \in times : \A y \in times : x <= y
  <2> HIDE DEF times
  <2> QED BY <1>3, Least
<1>7. PICK r \in first : x = m_creation_time[r]
  BY <1>6
<1>8. \A s \in first : m_creation_time[r] <= m_creation_time[s]
  BY <1>6, <1>7
<1>9. Rank["waiting_retry"] < Rank["waiting"] /\ Rank["waiting_retry"] < Rank["in_progress"]
      /\ Rank["waiting"] < Rank["in_progress"]
  BY DEF Rank
<1> HIDE DEF first
<1>10. \A s \in Tracked(rs) : NotAfter(rs, r, s)
  BY <1>4, <1>5, <1>7, <1>8, <1>9 DEF NotAfter
<1>11. r \in Tracked(rs) /\ rs[r] # "in_progress"
  BY <1>1, <1>7 DEF Waiting, Tracked, Queued
<1> QED BY <1>10, <1>11 DEF MayStart, Begin

\* A request that waits is started: one less waits and one more is in progress.
LEMMA StartCounts ==
    ASSUME NEW rs \in [Request -> RequestState], NEW r \in Waiting(rs),
           NEW ss, ss = [rs EXCEPT ![r] = "in_progress"]
    PROVE  /\ Cardinality(Waiting(ss)) = Cardinality(Waiting(rs)) - 1
           /\ Cardinality(Active(ss)) = Cardinality(Active(rs)) + 1
<1>1. Waiting(ss) = Waiting(rs) \ {r}
  BY DEF Waiting, Queued
<1>2. Active(ss) = Active(rs) \cup {r} /\ r \notin Active(rs)
  BY DEF Waiting, Active, Queued
<1>3. IsFiniteSet(Waiting(rs)) /\ IsFiniteSet(Active(rs))
  BY Counts
<1>4. Cardinality(Waiting(rs) \ {r}) = Cardinality(Waiting(rs)) - 1
  BY <1>3, FS_RemoveElement
<1>5. Cardinality(Active(rs) \cup {r}) = Cardinality(Active(rs)) + 1
  BY <1>2, <1>3, FS_AddElement
<1> QED BY <1>1, <1>2, <1>4, <1>5

\* execute_waiting_requests starts a request, or none waits, or no slot is
\* free.
LEMMA ExecuteWaitingCounts ==
    ASSUME TypeOK, Unbuildable = {}, NEW rs \in [Request -> RequestState],
           ExecuteWaitingRequests(rs)
    PROVE  \/ /\ Cardinality(Waiting(request_state')) = Cardinality(Waiting(rs)) - 1
              /\ Cardinality(Active(request_state')) = Cardinality(Active(rs)) + 1
           \/ /\ request_state' = rs
              /\ Cardinality(Waiting(rs)) = 0 \/ MaxParallel <= Cardinality(Active(rs))
<1>1. \A r \in MayStart(rs) : ~CreateStackThrows(r)
  BY DEF CreateStackThrows
<1>2. CASE \E r \in MayStart(rs) : StartRequest(rs, r)
  <2>1. PICK r \in MayStart(rs) : request_state' = [rs EXCEPT ![r] = "in_progress"]
    BY <1>2 DEF StartRequest
  <2>2. r \in Waiting(rs)
    BY DEF MayStart, Begin, Tracked, Waiting
  <2> QED BY <2>1, <2>2, StartCounts
<1>3. CASE MayStart(rs) = {} /\ request_state' = rs
  <2>1. Waiting(rs) = {} \/ MaxParallel <= Cardinality(Active(rs))
    BY <1>3, MayStartExists, Counts, SettingsAssumption
  <2> QED BY <1>3, <2>1, FS_EmptySet
<1> QED BY <1>1, <1>2, <1>3 DEF ExecuteWaitingRequests

(***************************************************************************)
(* No wake-up is lost.                                                      *)
(***************************************************************************)

\* Enough wake-ups for w requests that wait and a in progress.
Enough(w, a, k) == w <= k \/ MaxParallel <= a + k

LEMMA EnoughWakeUps ==
    /\ NoLostWakeup <=> Enough(Cardinality(Waiting(request_state)),
                               Cardinality(Active(request_state)),
                               Cardinality(WakeUps(strand)))
    /\ NoLostWakeup' <=> Enough(Cardinality(Waiting(request_state')),
                                Cardinality(Active(request_state')),
                                Cardinality(WakeUps(strand')))
  BY Zenon DEF NoLostWakeup, Enough, WakeUps

\* Only the posted execute_waiting_requests is a wake-up.
LEMMA WakeUpOp ==
    ASSUME NEW m \in Message
    PROVE  m = WakeUp <=> m.op = "execute_waiting_requests"
  BY DEF Message, WakeUp, Completion

\* The handler at the head of the strand is taken off.
LEMMA HandledWakeUps ==
    ASSUME TypeOK, NEW op, Handling(op)
    PROVE  /\ Head(strand) \in Message /\ strand[1] = Head(strand) /\ 1 \in DOMAIN strand
           /\ Tail(strand) \in Seq(Message)
           /\ Cardinality(WakeUps(strand)) \in Nat
           /\ Cardinality(WakeUps(Tail(strand))) \in Nat
           /\ op # "execute_waiting_requests" =>
                  Cardinality(WakeUps(Tail(strand))) = Cardinality(WakeUps(strand))
           /\ op = "execute_waiting_requests" =>
                  Cardinality(WakeUps(Tail(strand))) = Cardinality(WakeUps(strand)) - 1
<1>1. strand \in Seq(Message) /\ strand # <<>> /\ Head(strand).op = op
  BY DEF TypeOK, Handling
<1>2. Head(strand) \in Message /\ strand[1] = Head(strand) /\ 1 \in DOMAIN strand
  BY <1>1, HeadTailProperties, LenProperties, EmptySeq, SMT
<1>3. /\ Tail(strand) \in Seq(Message)
      /\ Cardinality(WakeUps(Tail(strand))) =
             Cardinality(WakeUps(strand)) - (IF Head(strand) = WakeUp THEN 1 ELSE 0)
  BY <1>1, WakeUpsTail
<1>4. Cardinality(WakeUps(strand)) \in Nat /\ Cardinality(WakeUps(Tail(strand))) \in Nat
  BY <1>1, <1>3, WakeUpsFinite
<1>5. Head(strand) = WakeUp <=> op = "execute_waiting_requests"
  BY <1>1, <1>2, WakeUpOp
<1> QED BY <1>2, <1>3, <1>4, <1>5

LEMMA ExecuteRequestWakeup ==
    ASSUME TypeOK, Once, NoLostWakeup, Unbuildable = {}, ExecuteRequest
    PROVE  NoLostWakeup'
<1> DEFINE r == Head(strand).req
           rs == [request_state EXCEPT ![r] = "waiting"]
           W == Cardinality(Waiting(request_state))
           A == Cardinality(Active(request_state))
           K == Cardinality(WakeUps(strand))
<1>1. /\ Handling("execute_request") /\ Head(strand).op = "execute_request"
      /\ strand' = Tail(strand) /\ ExecuteWaitingRequests(rs)
  BY DEF ExecuteRequest, Handling
<1>2. K \in Nat /\ Cardinality(WakeUps(strand')) = K /\ r \in Request
      /\ request_state[r] = "posted"
  <2>1. "execute_request" # "execute_waiting_requests"
    OBVIOUS
  <2> QED BY <1>1, <2>1, HandledWakeUps, MessageParts DEF Once, PostedOnce
<1>3. request_state \in [Request -> RequestState] /\ rs \in [Request -> RequestState]
  BY <1>2 DEF TypeOK, RequestState, Queued
<1>4. /\ Waiting(rs) = Waiting(request_state) \cup {r} /\ r \notin Waiting(request_state)
      /\ Active(rs) = Active(request_state)
  BY <1>2, <1>3 DEF Waiting, Active, Queued
<1>5. W \in Nat /\ A \in Nat /\ IsFiniteSet(Waiting(request_state))
  BY Counts
<1>6. Cardinality(Waiting(rs)) = W + 1 /\ Cardinality(Active(rs)) = A
  BY <1>4, <1>5, FS_AddElement
<1> HIDE DEF rs
<1>7. \/ /\ Cardinality(Waiting(request_state')) = Cardinality(Waiting(rs)) - 1
         /\ Cardinality(Active(request_state')) = Cardinality(Active(rs)) + 1
      \/ /\ request_state' = rs
         /\ Cardinality(Waiting(rs)) = 0 \/ MaxParallel <= Cardinality(Active(rs))
  BY <1>1, <1>3, ExecuteWaitingCounts
<1>8. Enough(W, A, K)
  BY EnoughWakeUps
<1> HIDE DEF W, A, K
<1>9. Enough(Cardinality(Waiting(request_state')), Cardinality(Active(request_state')), K)
  BY <1>2, <1>5, <1>6, <1>7, <1>8, SettingsAssumption DEF Enough
<1> QED BY <1>2, <1>9, EnoughWakeUps

LEMMA WakeUpHandlerWakeup ==
    ASSUME TypeOK, NoLostWakeup, Unbuildable = {}, WakeUpHandler
    PROVE  NoLostWakeup'
<1> DEFINE W == Cardinality(Waiting(request_state))
           A == Cardinality(Active(request_state))
           K == Cardinality(WakeUps(strand))
<1>1. /\ Handling("execute_waiting_requests")
      /\ strand' = Tail(strand) /\ ExecuteWaitingRequests(request_state)
  BY DEF WakeUpHandler
<1>2. K \in Nat /\ Cardinality(WakeUps(strand')) = K - 1 /\ K - 1 \in Nat
  BY <1>1, HandledWakeUps
<1>3. W \in Nat /\ A \in Nat
  BY Counts
<1>4. \/ /\ Cardinality(Waiting(request_state')) = W - 1
         /\ Cardinality(Active(request_state')) = A + 1
      \/ /\ request_state' = request_state
         /\ W = 0 \/ MaxParallel <= A
  BY <1>1, ExecuteWaitingCounts DEF TypeOK
<1>5. Enough(W, A, K)
  BY EnoughWakeUps
<1>6. \/ /\ Cardinality(Waiting(request_state')) = W - 1
         /\ Cardinality(Active(request_state')) = A + 1
      \/ /\ Cardinality(Waiting(request_state')) = W
         /\ Cardinality(Active(request_state')) = A
         /\ W = 0 \/ MaxParallel <= A
  BY <1>4
<1> HIDE DEF W, A, K
<1>7. Enough(Cardinality(Waiting(request_state')), Cardinality(Active(request_state')), K - 1)
  BY <1>2, <1>3, <1>5, <1>6, SettingsAssumption DEF Enough
<1> QED BY <1>2, <1>7, EnoughWakeUps

\* Every request that handle_completed_request erases posts a wake-up.
LEMMA HandleCompletedWakeup ==
    ASSUME TypeOK, NoLostWakeup, NEW op, Handling(op), op # "execute_waiting_requests",
           NEW gone, NEW ec, HandleCompleted(gone, ec),
           \/ gone \subseteq Waiting(request_state)
           \/ \E r \in Active(request_state) : gone = {r}
    PROVE  NoLostWakeup'
<1> DEFINE W == Cardinality(Waiting(request_state))
           A == Cardinality(Active(request_state))
           K == Cardinality(WakeUps(strand))
           n == Cardinality(gone)
<1>1. gone \subseteq Request
  BY DEF Waiting, Active
<1>2. IsFiniteSet(gone) /\ n \in Nat
  BY <1>1, FS_Subset, FS_CardinalityType, RequestAssumption
<1>3. W \in Nat /\ A \in Nat /\ IsFiniteSet(Waiting(request_state))
      /\ IsFiniteSet(Active(request_state))
  BY Counts
<1>4. /\ strand' = Tail(strand) \o [i \in 1..n |-> WakeUp]
      /\ request_state' = [r \in Request |-> IF r \in gone THEN "erased" ELSE request_state[r]]
  BY DEF HandleCompleted
<1>5. K \in Nat /\ Tail(strand) \in Seq(Message) /\ Cardinality(WakeUps(Tail(strand))) = K
  BY HandledWakeUps
<1>6. Cardinality(WakeUps(strand')) = K + n
  <2> HIDE DEF n, K
  <2> QED BY <1>2, <1>4, <1>5, WakeUpsConcat
<1>7. /\ Waiting(request_state') = Waiting(request_state) \ gone
      /\ Active(request_state') = Active(request_state) \ gone
  BY <1>1, <1>4 DEF Waiting, Active, Queued
<1>8. Enough(W, A, K)
  BY EnoughWakeUps
<1>9. CASE gone \subseteq Waiting(request_state)
  <2>1. Active(request_state') = Active(request_state)
    BY <1>7, <1>9 DEF Waiting, Active, Queued
  <2>2. Waiting(request_state) \cap gone = gone
    BY <1>9
  <2>3. Cardinality(Waiting(request_state) \ gone) =
            W - Cardinality(Waiting(request_state) \cap gone)
    BY <1>2, <1>3, FS_Difference
  <2>4. Cardinality(Waiting(request_state')) = W - n /\ Cardinality(Active(request_state')) = A
    BY <1>7, <2>1, <2>2, <2>3
  <2> HIDE DEF W, A, K, n
  <2>5. Enough(W - n, A, K + n)
    BY <1>2, <1>3, <1>5, <1>8, SettingsAssumption DEF Enough
  <2> QED BY <1>6, <2>4, <2>5, EnoughWakeUps
<1>10. ASSUME NEW r \in Active(request_state), gone = {r} PROVE NoLostWakeup'
  <2>1. Waiting(request_state') = Waiting(request_state)
    BY <1>7, <1>10 DEF Waiting, Active, Queued
  <2>2. n = 1
    BY <1>10, FS_Singleton
  <2>3. Cardinality(Active(request_state) \ {r}) = A - 1
    BY <1>3, FS_RemoveElement
  <2>4. Cardinality(Waiting(request_state')) = W /\ Cardinality(Active(request_state')) = A - 1
    BY <1>7, <1>10, <2>1, <2>3
  <2> HIDE DEF W, A, K, n
  <2>5. Enough(W, A - 1, K + n)
    BY <1>3, <1>5, <1>8, <2>2, SettingsAssumption DEF Enough
  <2> QED BY <1>6, <2>4, <2>5, EnoughWakeUps
<1> QED BY <1>9, <1>10

LEMMA CancelRequestsWakeup ==
    ASSUME TypeOK, Once, NoLostWakeup, CancelRequests
    PROVE  NoLostWakeup'
<1> DEFINE idle == {r \in Selected(Head(strand).token) : m_connection[r] = NoConn}
<1>1. /\ Handling("cancel_requests") /\ "cancel_requests" # "execute_waiting_requests"
      /\ HandleCompleted(idle, "operation_aborted")
  BY DEF CancelRequests
<1>2. idle \subseteq Waiting(request_state)
  BY DEF Selected, Tracked, Waiting, Once, HeldWhileActive
<1> HIDE DEF idle
<1> QED BY <1>1, <1>2, HandleCompletedWakeup

LEMMA OnRequestCompletedWakeup ==
    ASSUME TypeOK, Once, NoLostWakeup, OnRequestCompleted
    PROVE  NoLostWakeup'
<1> DEFINE m == Head(strand)
           W == Cardinality(Waiting(request_state))
           A == Cardinality(Active(request_state))
           K == Cardinality(WakeUps(strand))
<1>1. /\ Handling("on_request_completed") /\ "on_request_completed" # "execute_waiting_requests"
      /\ m.op = "on_request_completed"
  BY DEF OnRequestCompleted, Handling
<1>2. /\ m \in Message /\ K \in Nat /\ Tail(strand) \in Seq(Message)
      /\ Cardinality(WakeUps(Tail(strand))) = K
  BY <1>1, HandledWakeUps
<1>3. m.conn # NoConn
  BY <1>1, <1>2, MessageParts, ConnAssumption
<1>4. Enough(W, A, K)
  BY EnoughWakeUps
<1>5. CASE Ignore
  <2>1. /\ Cardinality(WakeUps(strand')) = K /\ Cardinality(Waiting(request_state')) = W
        /\ Cardinality(Active(request_state')) = A
    BY <1>2, <1>5 DEF Ignore
  <2> HIDE DEF W, A, K
  <2> QED BY <1>4, <2>1, EnoughWakeUps
<1>6. ASSUME NEW r \in Request, m_connection[r] = m.conn, Answer(r, m.out)
      PROVE  NoLostWakeup'
  <2>1. r \in Active(request_state) /\ HandleCompleted({r}, m.out.ec)
    BY <1>3, <1>6 DEF Answer, Active, Once, HeldWhileActive
  <2> QED BY <1>1, <2>1, HandleCompletedWakeup
<1>7. ASSUME NEW r \in Request, m_connection[r] = m.conn, Retry(r, m.out)
      PROVE  NoLostWakeup'
  <2>1. r \in Active(request_state)
    BY <1>3, <1>7 DEF Active, Once, HeldWhileActive
  <2>2. /\ request_state' = [request_state EXCEPT ![r] = "waiting_retry"]
        /\ strand' = Append(Tail(strand), WakeUp)
        /\ request_state \in [Request -> RequestState]
    BY <1>7 DEF Retry, TypeOK
  <2>3. /\ Waiting(request_state') = Waiting(request_state) \cup {r}
        /\ r \notin Waiting(request_state)
        /\ Active(request_state') = Active(request_state) \ {r}
    BY <2>1, <2>2 DEF Waiting, Active, Queued
  <2>4. W \in Nat /\ A \in Nat /\ IsFiniteSet(Waiting(request_state))
        /\ IsFiniteSet(Active(request_state))
    BY Counts
  <2>5. Cardinality(Waiting(request_state')) = W + 1
    BY <2>3, <2>4, FS_AddElement
  <2>6. Cardinality(Active(request_state')) = A - 1
    BY <2>1, <2>3, <2>4, FS_RemoveElement
  <2>7. Cardinality(WakeUps(strand')) = K + 1
    BY <1>2, <2>2, MessageTypes, WakeUpsAppend
  <2> HIDE DEF W, A, K
  <2>8. Enough(W + 1, A - 1, K + 1)
    BY <1>2, <1>4, <2>4, SettingsAssumption DEF Enough
  <2> QED BY <2>5, <2>6, <2>7, <2>8, EnoughWakeUps
<1> QED BY <1>5, <1>6, <1>7 DEF OnRequestCompleted

\* The other steps post no wake-up, take none and move no request.
LEMMA StrandGrowsWakeup ==
    ASSUME TypeOK, NoLostWakeup,
           \/ UNCHANGED strand
           \/ \E m \in Message : strand' = Append(strand, m) /\ m # WakeUp,
           Waiting(request_state') = Waiting(request_state),
           Active(request_state') = Active(request_state)
    PROVE  NoLostWakeup'
<1>1. strand \in Seq(Message) /\ Cardinality(WakeUps(strand)) \in Nat
  BY WakeUpsFinite DEF TypeOK
<1>2. Cardinality(WakeUps(strand')) = Cardinality(WakeUps(strand))
  <2>1. ASSUME NEW m \in Message, strand' = Append(strand, m), m # WakeUp
        PROVE  Cardinality(WakeUps(strand')) = Cardinality(WakeUps(strand))
    BY <1>1, <2>1, WakeUpsAppend
  <2> QED BY <2>1
<1> QED BY <1>2, EnoughWakeUps

LEMMA NextWakeup ==
    ASSUME TypeOK, Once, NoLostWakeup, Unbuildable = {}, [Next]_vars
    PROVE  NoLostWakeup'
<1>1. CASE UserStep
  <2>1. \E m \in Message : strand' = Append(strand, m) /\ m # WakeUp
    BY <1>1, MessageTypes, OrderAssumption
       DEF UserStep, ExecuteRequestAsync, CancelRequestsAsync, DestroyClient, WakeUp
  <2>2. /\ Waiting(request_state') = Waiting(request_state)
        /\ Active(request_state') = Active(request_state)
    <3>1. ASSUME NEW r \in Request, request_state[r] = "unborn",
                 request_state' = [request_state EXCEPT ![r] = "posted"]
          PROVE  /\ Waiting(request_state') = Waiting(request_state)
                 /\ Active(request_state') = Active(request_state)
      BY <3>1 DEF Waiting, Active, Queued, TypeOK
    <3> QED BY <1>1, <3>1
            DEF UserStep, ExecuteRequestAsync, CancelRequestsAsync, DestroyClient
  <2> QED BY <2>1, <2>2, StrandGrowsWakeup
<1>2. ASSUME NEW c \in Conn, StackStep(c) PROVE NoLostWakeup'
  <2>1. UNCHANGED request_state
    BY <1>2 DEF StackStep, StackStart, StackComplete, StackCancel
  <2>2. ASSUME NEW out \in Outcome, callback[c] # NoRequest, Report(c, out)
        PROVE  \E m \in Message : strand' = Append(strand, m) /\ m # WakeUp
    <3> DEFINE m == [op |-> "on_request_completed", conn |-> c, req |-> callback[c], out |-> out]
    <3>1. callback[c] \in Request
      BY <2>2 DEF TypeOK
    <3>2. m \in Message /\ m # WakeUp
      BY <3>1, MessageTypes DEF WakeUp
    <3> QED BY <2>2, <3>2 DEF Report
  <2>3. UNCHANGED strand \/ \E m \in Message : strand' = Append(strand, m) /\ m # WakeUp
    BY <1>2, <2>2 DEF StackStep, StackStart, StackComplete, StackCancel
  <2> QED BY <2>1, <2>3, StrandGrowsWakeup
<1>3. CASE UNCHANGED vars
  BY <1>3, StrandGrowsWakeup DEF vars
<1> QED BY <1>1, <1>2, <1>3, ExecuteRequestWakeup, WakeUpHandlerWakeup, CancelRequestsWakeup,
           OnRequestCompletedWakeup DEF Next, ManagerStep

\* No freed slot is forgotten: execute_waiting_requests starts one request at a
\* time (request_manager.cpp:126-152), and for any number of requests, retries,
\* cancellations and errors there are wake-ups posted for all that could start,
\* as long as create_stack does not throw.
THEOREM WakeupCorrect ==
    ASSUME Unbuildable = {}
    PROVE  Spec => []NoLostWakeup
<1>1. Init => NoLostWakeup
  <2> SUFFICES ASSUME Init PROVE NoLostWakeup
    OBVIOUS
  <2>1. Waiting(request_state) = {} /\ strand \in Seq(Message)
    BY EmptySeq DEF Init, Waiting, Queued
  <2>2. Cardinality(Waiting(request_state)) = 0 /\ Cardinality(WakeUps(strand)) \in Nat
    BY <2>1, FS_EmptySet, WakeUpsFinite
  <2>3. Enough(Cardinality(Waiting(request_state)), Cardinality(Active(request_state)),
               Cardinality(WakeUps(strand)))
    BY <2>2 DEF Enough
  <2> QED BY <2>3, EnoughWakeUps
<1>2. TypeOK /\ Once /\ NoLostWakeup /\ [Next]_vars => NoLostWakeup'
  BY NextWakeup
<1> QED BY <1>1, <1>2, TypeCorrect, OnceCorrect, PTL DEF Spec

(***************************************************************************)
(* The pool is bounded.                                                     *)
(***************************************************************************)

\* The requests in progress for host h.
InUse(rs, url, h) == {r \in Active(rs) : url[r] = h}

LEMMA InUseFinite ==
    ASSUME NEW rs, NEW url, NEW h
    PROVE  /\ IsFiniteSet(InUse(rs, url, h)) /\ Cardinality(InUse(rs, url, h)) \in Nat
           /\ Cardinality(InUse(rs, url, h)) <= Cardinality(Active(rs))
<1>1. InUse(rs, url, h) \subseteq Active(rs)
  BY DEF InUse
<1> QED BY <1>1, Counts, FS_Subset, FS_CardinalityType

LEMMA PoolCounted ==
    /\ PoolBounded <=> \A h \in Host :
           Len(pool[h]) + Cardinality(InUse(request_state, m_http_request, h)) <= MaxParallel
    /\ PoolBounded' <=> \A h \in Host :
           Len(pool'[h]) + Cardinality(InUse(request_state', m_http_request', h)) <= MaxParallel
  BY Zenon DEF PoolBounded, InUse

\* A step that leaves the pool and the requests in progress alone.
LEMMA PoolKept ==
    ASSUME PoolBounded, UNCHANGED pool,
           \A h \in Host : InUse(request_state', m_http_request', h) =
                               InUse(request_state, m_http_request, h)
    PROVE  PoolBounded'
  BY PoolCounted

\* A request is started on a pooled stack, or none is pooled for its host.
LEMMA ExecuteWaitingPool ==
    ASSUME TypeOK, PoolBounded, ParallelBound', NEW rs \in [Request -> RequestState],
           Active(rs) = Active(request_state), UNCHANGED m_http_request,
           \A r \in Request : rs[r] # "unborn" => m_http_request[r] \in Host,
           ExecuteWaitingRequests(rs)
    PROVE  PoolBounded'
<1>1. CASE request_state' = rs /\ UNCHANGED pool
  BY <1>1, PoolKept DEF InUse
<1>2. ASSUME NEW r \in MayStart(rs), StartRequest(rs, r) PROVE PoolBounded'
  <2> DEFINE g == m_http_request[r]
             U == InUse(request_state, m_http_request, g)
  <2>1. r \in Request /\ rs[r] \in Queued
    BY DEF MayStart, Begin, Tracked
  <2>2. g \in Host
    BY <2>1 DEF Queued
  <2>3. PICK c \in Conn : GetConnection(g, c) /\ request_state' = [rs EXCEPT ![r] = "in_progress"]
    BY <1>2 DEF StartRequest
  <2>4. Active(request_state') = Active(request_state) \cup {r} /\ r \notin Active(request_state)
    <3>1. Active(request_state') = Active(rs) \cup {r} /\ r \notin Active(rs)
      BY <2>1, <2>3 DEF Active, Queued
    <3> QED BY <3>1
  <2>5. InUse(request_state', m_http_request', g) = U \cup {r} /\ r \notin U
    BY <2>4 DEF InUse
  <2>6. \A h \in Host : h # g => InUse(request_state', m_http_request', h) =
                                     InUse(request_state, m_http_request, h)
    BY <2>4 DEF InUse
  <2>7. pool \in [Host -> Seq(Conn)] /\ pool[g] \in Seq(Conn)
    BY <2>2 DEF TypeOK
  <2>8. \A h \in Host : h # g => pool'[h] = pool[h]
    BY <2>3, <2>7 DEF GetConnection, PoolAfterGet
  <2>9. IsFiniteSet(U) /\ Cardinality(U) \in Nat
    BY InUseFinite
  <2>10. Cardinality(InUse(request_state', m_http_request', g)) = Cardinality(U) + 1
    BY <2>5, <2>9, FS_AddElement
  <2>11. Len(pool[g]) + Cardinality(U) <= MaxParallel
    BY <2>2, PoolCounted
  <2>12. Len(pool'[g]) + Cardinality(InUse(request_state', m_http_request', g)) <= MaxParallel
    <3>1. CASE pool[g] = <<>>
      <4>1. Len(pool'[g]) = 0
        BY <2>3, <3>1 DEF GetConnection
      <4>2. Cardinality(InUse(request_state', m_http_request', g)) \in Nat
            /\ Cardinality(Active(request_state')) \in Nat
            /\ Cardinality(InUse(request_state', m_http_request', g))
                   <= Cardinality(Active(request_state'))
        BY InUseFinite, Counts
      <4> QED BY <4>1, <4>2, SettingsAssumption DEF ParallelBound
    <3>2. CASE pool[g] # <<>>
      <4>1. pool'[g] = Pop(pool[g])
        BY <2>2, <2>3, <2>7, <3>2 DEF GetConnection, PoolAfterGet
      <4>2. Len(pool[g]) \in Nat /\ Len(pool[g]) >= 1
        BY <2>7, <3>2, LenProperties, EmptySeq
      <4>3. Len(Pop(pool[g])) = Len(pool[g]) - 1
        BY <2>7, <4>2, SubSeqProperties DEF Pop
      <4> HIDE DEF U
      <4> QED BY <2>9, <2>10, <2>11, <4>1, <4>2, <4>3, SettingsAssumption
    <3> QED BY <3>1, <3>2
  <2> HIDE DEF g, U
  <2>13. \A h \in Host : Len(pool'[h]) + Cardinality(InUse(request_state', m_http_request', h))
                             <= MaxParallel
    BY <2>6, <2>8, <2>12, PoolCounted
  <2> QED BY <2>13, PoolCounted
<1> QED BY <1>1, <1>2 DEF ExecuteWaitingRequests

\* A stack that is given back was in use for its host.
LEMMA OnRequestCompletedPool ==
    ASSUME TypeOK, Ownership, PoolBounded, OnRequestCompleted, BadUrl \notin Location
    PROVE  PoolBounded'
<1> DEFINE m == Head(strand)
           r == m.req
           c == m.conn
           g == stack_host[c]
           U == InUse(request_state, m_http_request, g)
<1>1. Handling("on_request_completed") /\ m.op = "on_request_completed"
  BY DEF OnRequestCompleted, Handling
<1>2. m \in Message /\ strand[1] = m /\ 1 \in DOMAIN strand
  BY <1>1, HandledWakeUps
<1>3. c \in Conn /\ r \in Request /\ m.out \in Outcome /\ c # NoConn
  BY <1>1, <1>2, MessageParts, ConnAssumption
<1>4. m_connection[r] = c
  BY <1>1, <1>2 DEF Ownership, CompletionHeld
<1>5. \A s \in Request : m_connection[s] = c => s = r
  BY <1>3, <1>4 DEF Ownership, OneHolder
<1>6. request_state[r] = "in_progress" /\ m_http_request[r] = g /\ g \in Host
  BY <1>3, <1>4 DEF Ownership, HeldWhileActive, HostKnown
<1>7. ~RedirectionThrows(m.out)
  BY <1>3, LocationAssumption DEF RedirectionThrows, Outcome, MaybeLocation
<1>8. Retry(r, m.out) \/ Answer(r, m.out)
  <2>1. r \in {s \in Request : m_connection[s] = m.conn}
    BY <1>3, <1>4
  <2> HIDE DEF m
  <2> QED BY <1>5, <1>7, <2>1 DEF OnRequestCompleted, m
<1>9. /\ \A s \in Request \ {r} : /\ request_state'[s] = request_state[s]
                                  /\ m_http_request'[s] = m_http_request[s]
      /\ request_state'[r] # "in_progress"
  <2>1. CASE Retry(r, m.out)
    BY <1>3, <2>1 DEF Retry, TypeOK
  <2>2. CASE Answer(r, m.out)
    BY <1>3, <2>2 DEF Answer, HandleCompleted
  <2> QED BY <1>8, <2>1, <2>2
<1>10. \A h \in Host : InUse(request_state', m_http_request', h) =
                           InUse(request_state, m_http_request, h) \ {r}
  BY <1>9 DEF InUse, Active
<1>11. r \in U
  BY <1>3, <1>6 DEF InUse, Active
<1>12. \A h \in Host : h # g => r \notin InUse(request_state, m_http_request, h)
  BY <1>6 DEF InUse
<1>13. IsFiniteSet(U) /\ Cardinality(U) \in Nat
  BY InUseFinite
<1>14. Cardinality(InUse(request_state', m_http_request', g)) = Cardinality(U) - 1
  BY <1>6, <1>10, <1>11, <1>13, FS_RemoveElement
<1>15. pool \in [Host -> Seq(Conn)] /\ pool[g] \in Seq(Conn)
  BY <1>6 DEF TypeOK
<1>16. pool' = [pool EXCEPT ![g] = IF m.out.ec = "none" THEN Append(@, c) ELSE <<>>]
  BY DEF OnRequestCompleted, ReleaseConnection
<1>17. Len(pool'[g]) \in {0, Len(pool[g]) + 1} /\ Len(pool[g]) \in Nat
  BY <1>3, <1>6, <1>15, <1>16, AppendProperties, LenProperties
<1>18. \A h \in Host : h # g => pool'[h] = pool[h]
  BY <1>15, <1>16
<1>19. Len(pool[g]) + Cardinality(U) <= MaxParallel
  BY <1>6, PoolCounted
<1> HIDE DEF U, g, r, c, m
<1>20. Len(pool'[g]) + Cardinality(InUse(request_state', m_http_request', g)) <= MaxParallel
  BY <1>13, <1>14, <1>17, <1>19, SettingsAssumption
<1>21. \A h \in Host : h # g => InUse(request_state', m_http_request', h) =
                                    InUse(request_state, m_http_request, h)
  BY <1>10, <1>12
<1>22. \A h \in Host : Len(pool'[h]) + Cardinality(InUse(request_state', m_http_request', h))
                           <= MaxParallel
  BY <1>18, <1>20, <1>21, PoolCounted
<1> QED BY <1>22, PoolCounted

LEMMA NextPool ==
    ASSUME TypeOK, Ownership, ParallelBound', PoolBounded, [Next]_vars, BadUrl \notin Location
    PROVE  PoolBounded'
<1>1. CASE UserStep
  <2>1. UNCHANGED pool
    BY <1>1 DEF UserStep, ExecuteRequestAsync, CancelRequestsAsync, DestroyClient
  <2>2. ASSUME NEW r \in Request, NEW h \in Host, NEW t \in Token, NEW now \in Time,
               ExecuteRequestAsync(r, h, t, now), NEW g
        PROVE  InUse(request_state', m_http_request', g) = InUse(request_state, m_http_request, g)
    <3>1. /\ request_state[r] = "unborn" /\ request_state'[r] = "posted"
          /\ \A s \in Request : s # r => /\ request_state'[s] = request_state[s]
                                         /\ m_http_request'[s] = m_http_request[s]
      BY <2>2 DEF ExecuteRequestAsync, TypeOK
    <3> QED BY <3>1 DEF InUse, Active
  <2>3. ASSUME NEW t, CancelRequestsAsync(t) \/ DestroyClient
        PROVE  UNCHANGED <<request_state, m_http_request>>
    BY <2>3 DEF CancelRequestsAsync, DestroyClient, fields
  <2> QED BY <1>1, <2>1, <2>2, <2>3, PoolKept DEF UserStep
<1>2. CASE ExecuteRequest
  <2> DEFINE r == Head(strand).req
             rs == [request_state EXCEPT ![r] = "waiting"]
  <2>1. /\ Handling("execute_request") /\ Head(strand).op = "execute_request"
        /\ ExecuteWaitingRequests(rs) /\ UNCHANGED m_http_request
    BY <1>2 DEF ExecuteRequest, Handling, fields
  <2>2. r \in Request /\ request_state[r] = "posted"
    BY <2>1, HandledWakeUps, MessageParts DEF Ownership, PostedOnce
  <2>3. request_state \in [Request -> RequestState] /\ rs \in [Request -> RequestState]
    BY <2>2 DEF TypeOK, RequestState, Queued
  <2>4. Active(rs) = Active(request_state)
    BY <2>2, <2>3 DEF Active
  <2>5. \A s \in Request : rs[s] # "unborn" => m_http_request[s] \in Host
    BY <2>2, <2>3 DEF Ownership, HostKnown
  <2> HIDE DEF rs
  <2> QED BY <2>1, <2>3, <2>4, <2>5, ExecuteWaitingPool
<1>3. CASE WakeUpHandler
  <2>1. ExecuteWaitingRequests(request_state) /\ UNCHANGED m_http_request
    BY <1>3 DEF WakeUpHandler, fields
  <2>2. request_state \in [Request -> RequestState]
    BY DEF TypeOK
  <2>3. \A s \in Request : request_state[s] # "unborn" => m_http_request[s] \in Host
    BY DEF Ownership, HostKnown
  <2> QED BY <2>1, <2>2, <2>3, ExecuteWaitingPool
<1>4. CASE CancelRequests
  <2> DEFINE idle == {r \in Selected(Head(strand).token) : m_connection[r] = NoConn}
  <2>1. /\ UNCHANGED <<pool, m_http_request>>
        /\ request_state' = [r \in Request |-> IF r \in idle THEN "erased" ELSE request_state[r]]
    BY <1>4 DEF CancelRequests, HandleCompleted, fields
  <2>2. \A r \in idle : r \in Request /\ request_state[r] # "in_progress"
    BY DEF Ownership, HeldWhileActive, Selected, Tracked
  <2> HIDE DEF idle
  <2>3. Active(request_state') = Active(request_state)
    BY <2>1, <2>2 DEF Active
  <2> QED BY <2>1, <2>3, PoolKept DEF InUse
<1>5. CASE \E c \in Conn : StackStep(c)
  <2>1. UNCHANGED <<request_state, m_http_request, pool>>
    BY <1>5 DEF StackStep, StackStart, StackComplete, StackCancel, fields
  <2> QED BY <2>1, PoolKept
<1>6. CASE UNCHANGED vars
  BY <1>6, PoolKept DEF vars, fields
<1> QED BY <1>1, <1>2, <1>3, <1>4, <1>5, <1>6, OnRequestCompletedPool DEF Next, ManagerStep

\* The stacks pooled for a host and the ones in use for it never exceed
\* max_parallel_requests, for any number of hosts, requests and stacks
\* (connection_pool.cpp:155-187), as long as no Location header makes
\* create_redirection throw.
THEOREM PoolCorrect ==
    ASSUME BadUrl \notin Location
    PROVE  Spec => []PoolBounded
<1>1. Init => PoolBounded
  <2> SUFFICES ASSUME Init, NEW h \in Host
               PROVE  Len(pool[h]) + Cardinality(InUse(request_state, m_http_request, h))
                          <= MaxParallel
    BY PoolCounted
  <2>1. InUse(request_state, m_http_request, h) = {} /\ pool[h] = <<>>
    BY DEF Init, InUse, Active
  <2> QED BY <2>1, FS_EmptySet, SettingsAssumption
<1>2. TypeOK /\ Ownership /\ ParallelBound' /\ PoolBounded /\ [Next]_vars => PoolBounded'
  BY NextPool
<1> QED BY <1>1, <1>2, TypeCorrect, OwnershipCorrect, ParallelCorrect, PTL DEF Spec
=============================================================================
