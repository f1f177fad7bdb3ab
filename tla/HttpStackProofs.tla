-------------------------- MODULE HttpStackProofs --------------------------
(* Theorems about HttpStack, for every number of exchanges, cancels, body   *)
(* blocks, endpoints and interim responses.                                 *)
EXTENDS HttpStack, TLAPS, SequenceTheorems, WellOrder

(***************************************************************************)
(* The inductive invariant: whose turn it is.                               *)
(***************************************************************************)

\* No exchange of the stack has ended with an error.
Healthy == \A i \in DOMAIN completed : completed[i].ec = "none"

NoStart == \A i \in DOMAIN strand : strand[i] # "start"
OneStart == \E i \in DOMAIN strand :
                /\ strand[i] = "start"
                /\ \A j \in DOMAIN strand : strand[j] = "start" => j = i

\* The manager has posted the start of the latest exchange; the stack has
\* nothing to do but the cancels that are left over.
Posted ==
    /\ callback = 0 /\ ~timer /\ expired = {}
    /\ started = Len(completed) + 1 /\ handled = Len(completed)
    /\ OneStart
    /\ Healthy /\ io = <<>> /\ m_state = "done"

\* The latest exchange runs, with its own deadline, and was not cancelled.
Armed ==
    /\ callback = started /\ current = started
    /\ started = Len(completed) + 1 /\ handled = Len(completed)
    /\ NoStart
    /\ Healthy /\ m_state = "in_progress"
    /\ \A i \in DOMAIN io : io[i].doom # "operation_aborted"
    /\ expired \subseteq {started} /\ (timer => expired = {})

\* The latest exchange was reported.  Only after an error, when it will not be
\* used again, may the stack still be busy.
Ended ==
    /\ callback = 0 /\ ~timer
    /\ Len(completed) = started /\ handled \in {started - 1, started}
    /\ NoStart
    /\ Healthy => io = <<>> /\ m_state = "done"
    /\ handled = started => expired = {}
    /\ expired \subseteq {started}

Turns ==
    /\ Len(io) <= 1
    /\ io # <<>> => current # 0
    /\ \A i \in DOMAIN completed : completed[i].exchange = i
    /\ Posted \/ Armed \/ Ended

(***************************************************************************)
(* Facts about the operators the model is built from.                       *)
(***************************************************************************)

\* The operations, the parts of a response and the outcomes have their types.
LEMMA OperationTypes ==
    /\ socket \in BOOLEAN => \A op \in {"handshake", "write", "read"} :
           OnSocket(op) \in Operation /\ OnSocket(op).doom # "operation_aborted"
    /\ Resolve \in Operation /\ Resolve.doom # "operation_aborted"
    /\ \A k \in 0..MaxEndpoints :
           Connect(k) \in Operation /\ Connect(k).doom # "operation_aborted"
  BY StackBounds DEF Operation, OnSocket, Resolve, Connect

LEMMA OutcomeTypes ==
    ASSUME NEW o \in Operation
    PROVE  /\ Errors(o) \subseteq NetworkError \cup {"operation_aborted"}
           /\ o.doom # "operation_aborted" => Errors(o) \subseteq NetworkError
           /\ Outcomes(o) \subseteq Errors(o) \cup {"none"}
           /\ o.endpoints \in 0..MaxEndpoints
  BY DEF Operation, Errors, Outcomes, NetworkError

LEMMA ResponseType ==
    ASSUME NEW x \in 1..MaxExchanges, NEW close \in BOOLEAN
    PROVE  Response(x, close) \in Seq(Part)
  BY SMT DEF Response, Part

\* A queue without its head, with one more element, or with another head.
LEMMA QueueTypes ==
    ASSUME NEW S, NEW s \in Seq(S), NEW e \in S
    PROVE  /\ Append(s, e) \in Seq(S) /\ Len(Append(s, e)) = Len(s) + 1
           /\ s # <<>> => /\ Tail(s) \in Seq(S) /\ Len(Tail(s)) = Len(s) - 1
                          /\ Head(s) \in S /\ Len(s) >= 1
                          /\ Append(Tail(s), e) \in Seq(S)
                          /\ Len(Append(Tail(s), e)) = Len(s)
  BY AppendProperties, HeadTailProperties, LenProperties, EmptySeq

LEMMA EmptyQueue == \A S : <<>> \in Seq(S)
  BY EmptySeq

\* complete_request keeps the types of what http_content holds.
LEMMA CompleteRequestType ==
    ASSUME TypeOK, NEW ec \in EC, NEW res \in 0..MaxExchanges, NEW left \in 0..MaxExchanges,
           CompleteRequest(ec, res, left)
    PROVE  /\ callback' \in 0..MaxExchanges /\ timer' \in BOOLEAN
           /\ m_result' \in 0..MaxExchanges
           /\ completed' \in Seq([exchange : 1..MaxExchanges, ec : EC,
                                  response : 0..MaxExchanges])
<1> DEFINE R == [exchange : 1..MaxExchanges, ec : EC, response : 0..MaxExchanges]
<1>1. completed \in Seq(R) /\ callback \in 0..MaxExchanges /\ timer \in BOOLEAN
  BY DEF TypeOK
<1>2. CASE callback # 0
  <2>1. [exchange |-> callback, ec |-> ec, response |-> res] \in R
    BY <1>1, <1>2, StackBounds
  <2> HIDE DEF R
  <2>2. completed' \in Seq(R)
    BY <1>1, <1>2, <2>1, QueueTypes DEF CompleteRequest
  <2>3. callback' = 0 /\ timer' = FALSE /\ m_result' = left
    BY <1>2 DEF CompleteRequest
  <2>4. 0 \in 0..MaxExchanges
    BY StackBounds
  <2> QED BY <2>2, <2>3, <2>4, Zenon DEF R
<1>3. CASE callback = 0
  BY <1>1, <1>3 DEF CompleteRequest
<1> QED BY <1>2, <1>3

\* The last head of a piece of the wire names an exchange.
LEMMA LastHeadType ==
    ASSUME TypeOK, NEW i \in Nat, NEW j \in Nat, i >= 1, j <= Len(wire),
           NEW otherwise \in 0..MaxExchanges
    PROVE  LastHead(i, j, otherwise) \in 0..MaxExchanges
<1> DEFINE heads == {x \in i..j : wire[x].part = "head"}
           last == CHOOSE x \in heads : \A y \in heads : y <= x
<1>1. wire \in Seq(Part)
  BY DEF TypeOK
<1>2. CASE heads = {}
  BY <1>2 DEF LastHead
<1>3. CASE heads # {}
  <2>1. \E x \in heads : \A y \in heads : y <= x
    <3>1. heads \subseteq Nat /\ \A y \in heads : y <= j
      OBVIOUS
    <3> QED BY <1>3, <3>1, Greatest
  <2>2. last \in heads
    BY <2>1
  <2>3. last \in 1..Len(wire)
    BY <2>2
  <2>4. wire[last] \in Part
    BY <1>1, <2>3, ElementOfSeq
  <2>5. LastHead(i, j, otherwise) = wire[last].for
    BY <1>3 DEF LastHead
  <2> QED BY <2>4, <2>5, StackBounds DEF Part
<1> QED BY <1>2, <1>3

(***************************************************************************)
(* What a handler of the transport does to the stack.                       *)
(***************************************************************************)

\* The completion of the operation under way is the end of it, or starts one
\* more; it reports an error, or the end of the response after which nothing is
\* under way, or nothing.
Effect ==
    /\ UNCHANGED <<ssl, started, handled, cancels, strand, current, expired, interims>>
    /\ io # <<>>
    /\ \/ io' = Tail(io)
       \/ \E o \in Operation : io' = Append(Tail(io), o) /\ o.doom # "operation_aborted"
    /\ \/ UNCHANGED <<callback, timer, completed, m_state>>
       \/ UNCHANGED m_state /\ \E ec \in Errors(Head(io)) : CompleteRequest(ec, m_result, 0)
       \/ /\ m_state' = "done" /\ io' = Tail(io)
          /\ \E res, left \in 0..MaxExchanges : CompleteRequest("none", res, left)

LEMMA OnConnectedEffect ==
    ASSUME TypeOK, io # <<>>, NEW ec \in Outcomes(Head(io)), OnConnected(ec)
    PROVE  /\ \/ io' = Tail(io)
              \/ \E o \in Operation : io' = Append(Tail(io), o) /\ o.doom # "operation_aborted"
           /\ \/ UNCHANGED <<callback, timer, completed>>
              \/ \E e \in Errors(Head(io)) : CompleteRequest(e, m_result, 0)
<1>1. Head(io) \in Operation
  BY HeadTailProperties DEF TypeOK
<1>2. CASE ec = "none"
  <2>1. io' = Append(Tail(io), OnSocket("write")) /\ UNCHANGED <<callback, timer, completed>>
    BY <1>2 DEF OnConnected, Write, content
  <2>2. OnSocket("write") \in Operation /\ OnSocket("write").doom # "operation_aborted"
    BY OperationTypes DEF TypeOK
  <2> QED BY <2>1, <2>2
<1>3. CASE ec # "none"
  <2>1. io' = Tail(io) /\ CompleteRequest(ec, m_result, 0)
    BY <1>3 DEF OnConnected, OnError
  <2>2. ec \in Errors(Head(io))
    BY <1>1, <1>3, OutcomeTypes
  <2> QED BY <2>1, <2>2
<1> QED BY <1>2, <1>3

LEMMA AsyncConnectEffect ==
    ASSUME TypeOK, NEW k \in 0..MaxEndpoints, AsyncConnect(k)
    PROVE  /\ \E o \in Operation : io' = Append(Tail(io), o) /\ o.doom # "operation_aborted"
           /\ UNCHANGED <<callback, timer, completed>>
  BY OperationTypes DEF AsyncConnect, content

LEMMA ReadDataEffect ==
    ASSUME TypeOK, NEW j \in 1..Len(wire), ReadData(j)
    PROVE  Effect
<1> DEFINE tails == {x \in 1..j : wire[x].part = "tail"}
           first == CHOOSE x \in tails : \A y \in tails : x <= y
           res == LastHead(1, first, m_result)
           left == LastHead(first + 1, j, 0)
<1>1. /\ UNCHANGED <<ssl, started, handled, cancels, strand, current, expired, interims>>
      /\ io # <<>>
  BY DEF ReadData, Completing, manager, request
<1>2. Len(wire) \in Nat
  BY LenProperties DEF TypeOK
<1>3. OnSocket("read") \in Operation /\ OnSocket("read").doom # "operation_aborted"
  BY OperationTypes DEF TypeOK
<1>4. CASE tails = {}
  <2>1. UNCHANGED <<callback, timer, completed, m_state>>
    BY <1>4 DEF ReadData
  <2>2. io' = Append(Tail(io), OnSocket("read"))
    BY <1>4 DEF ReadData, ReadOn
  <2> QED BY <1>1, <1>3, <2>1, <2>2 DEF Effect
<1>5. CASE tails # {}
  <2>1. /\ CompleteRequest("none", res, left)
        /\ m_state' = "done" /\ io' = Tail(io)
    BY <1>5 DEF ReadData, ReadOn
  <2>2. \E x \in tails : \A y \in tails : x <= y
    <3>1. tails \subseteq Nat
      OBVIOUS
    <3> HIDE DEF tails
    <3> QED BY <1>5, <3>1, Least
  <2>3. first \in tails
    BY <2>2
  <2>4. /\ first \in Nat /\ first + 1 \in Nat /\ first + 1 >= 1 /\ first <= Len(wire)
        /\ j \in Nat /\ j <= Len(wire) /\ 1 \in Nat /\ 1 >= 1
    BY <1>2, <2>3
  <2> HIDE DEF first
  <2>5. 0 \in 0..MaxExchanges /\ m_result \in 0..MaxExchanges
    BY StackBounds DEF TypeOK
  <2>6. res \in 0..MaxExchanges
    BY <2>4, <2>5, LastHeadType
  <2>7. left \in 0..MaxExchanges
    BY <2>4, <2>5, LastHeadType
  <2> QED BY <1>1, <2>1, <2>6, <2>7 DEF Effect
<1> QED BY <1>4, <1>5

LEMMA TransportEffect ==
    ASSUME TypeOK, TransportStep
    PROVE  Effect
<1> DEFINE Kept == UNCHANGED <<ssl, started, handled, cancels, strand, current, expired,
                               interims>>
<1>0. io # <<>> => Head(io) \in Operation
  BY HeadTailProperties DEF TypeOK
<1>1. ASSUME NEW ec \in EC, NEW k \in 1..MaxEndpoints, ResolveHandler(ec, k)
      PROVE  Effect
  <2>1. Kept /\ UNCHANGED m_state /\ io # <<>> /\ ec \in Outcomes(Head(io))
    BY <1>1 DEF ResolveHandler, Completing, manager, request
  <2>2. CASE AsyncConnect(k - 1)
    <3>1. k - 1 \in 0..MaxEndpoints
      BY StackBounds
    <3> QED BY <2>1, <2>2, <3>1, AsyncConnectEffect DEF Effect
  <2>3. CASE OnConnected(ec)
    BY <2>1, <2>3, OnConnectedEffect DEF Effect
  <2> QED BY <1>1, <2>2, <2>3 DEF ResolveHandler
<1>2. ASSUME NEW ec \in EC, ConnectHandler(ec)
      PROVE  Effect
  <2>1. Kept /\ UNCHANGED m_state /\ io # <<>> /\ ec \in Outcomes(Head(io))
    BY <1>2 DEF ConnectHandler, Completing, manager, request
  <2>2. CASE Head(io).endpoints > 0 /\ AsyncConnect(Head(io).endpoints - 1)
    <3>1. Head(io).endpoints \in 0..MaxEndpoints
      BY <1>0, <2>1, OutcomeTypes
    <3>2. Head(io).endpoints - 1 \in 0..MaxEndpoints
      BY <2>2, <3>1, StackBounds
    <3> QED BY <2>1, <2>2, <3>2, AsyncConnectEffect DEF Effect
  <2>3. CASE AsyncHandshake
    BY <2>1, <2>3, OperationTypes DEF AsyncHandshake, Effect, content, TypeOK
  <2>4. CASE OnConnected(ec)
    BY <2>1, <2>4, OnConnectedEffect DEF Effect
  <2> QED BY <1>2, <2>2, <2>3, <2>4 DEF ConnectHandler
<1>3. ASSUME NEW ec \in EC, HandshakeHandler(ec)
      PROVE  Effect
  <2>1. Kept /\ UNCHANGED m_state /\ io # <<>> /\ ec \in Outcomes(Head(io)) /\ OnConnected(ec)
    BY <1>3 DEF HandshakeHandler, Completing, manager, request
  <2> QED BY <2>1, OnConnectedEffect DEF Effect
<1>4. ASSUME NEW ec \in EC, WriteHandler(ec)
      PROVE  Effect
  <2>1. Kept /\ UNCHANGED m_state /\ io # <<>> /\ ec \in Outcomes(Head(io))
    BY <1>4 DEF WriteHandler, Completing, manager, request
  <2>2. \E o \in Operation : io' = Append(Tail(io), o) /\ o.doom # "operation_aborted"
    <3>1. io' \in {Append(Tail(io), OnSocket("read")), Append(Tail(io), OnSocket("write"))}
      BY <1>4 DEF WriteHandler, Write
    <3> QED BY <3>1, OperationTypes DEF TypeOK
  <2>3. CASE ec = "none"
    <3>1. UNCHANGED <<callback, timer, completed>>
      BY <1>4, <2>3 DEF WriteHandler, content
    <3> QED BY <2>1, <2>2, <3>1 DEF Effect
  <2>4. CASE ec # "none"
    <3>1. CompleteRequest(ec, m_result, 0)
      BY <1>4, <2>4 DEF WriteHandler, OnError
    <3>2. ec \in Errors(Head(io))
      BY <1>0, <2>1, <2>4, OutcomeTypes
    <3> QED BY <2>1, <2>2, <3>1, <3>2 DEF Effect
  <2> QED BY <2>3, <2>4
<1>5. ASSUME NEW ec \in EC, ReadError(ec)
      PROVE  Effect
  <2>1. Kept /\ UNCHANGED m_state /\ io # <<>> /\ ec \in Errors(Head(io)) /\ io' = Tail(io)
    BY <1>5 DEF ReadError, Completing, manager, request, server
  <2>2. CASE m_state = "in_progress"
    <3>1. CompleteRequest(ec, m_result, 0)
      BY <1>5, <2>2 DEF ReadError, OnError
    <3> QED BY <2>1, <3>1 DEF Effect
  <2>3. CASE m_state # "in_progress"
    <3>1. UNCHANGED <<callback, timer, completed>>
      BY <1>5, <2>3 DEF ReadError, content
    <3> QED BY <2>1, <3>1 DEF Effect
  <2> QED BY <2>2, <2>3
<1>6. CASE ReadRefused
  <2>1. /\ Kept /\ UNCHANGED m_state /\ io # <<>> /\ Head(io).doom = "no" /\ io' = Tail(io)
        /\ CompleteRequest("failed", m_result, 0)
    BY <1>6 DEF ReadRefused, Completing, OnError, manager, request
  <2>2. "failed" \in Errors(Head(io))
    BY <2>1 DEF Errors, NetworkError
  <2> QED BY <2>1, <2>2 DEF Effect
<1> QED BY <1>1, <1>2, <1>3, <1>4, <1>5, <1>6, ReadDataEffect DEF TransportStep

(***************************************************************************)
(* The turns are kept.                                                      *)
(***************************************************************************)

\* The queue of the strand when a handler is posted or taken off.
LEMMA StrandAppend ==
    ASSUME TypeOK, NEW m \in {"start", "cancel"}, strand' = Append(strand, m)
    PROVE  /\ m = "cancel" /\ NoStart => NoStart'
           /\ m = "cancel" /\ OneStart => OneStart'
           /\ m = "start" /\ NoStart => OneStart'
<1>1. strand \in Seq({"start", "cancel"})
  BY DEF TypeOK
<1>2. /\ Len(strand) \in Nat /\ DOMAIN strand = 1..Len(strand)
      /\ DOMAIN strand' = 1..(Len(strand) + 1)
      /\ \A i \in DOMAIN strand : strand'[i] = strand[i]
      /\ strand'[Len(strand) + 1] = m
  BY <1>1, SMT
<1> QED BY <1>2, SMT DEF NoStart, OneStart

LEMMA StrandTail ==
    ASSUME TypeOK, strand # <<>>, strand' = Tail(strand)
    PROVE  /\ NoStart => NoStart' /\ Head(strand) # "start"
           /\ OneStart /\ Head(strand) = "cancel" => OneStart'
           /\ OneStart /\ Head(strand) = "start" => NoStart'
<1>1. strand \in Seq({"start", "cancel"})
  BY DEF TypeOK
<1>2. /\ Len(strand) \in Nat /\ Len(strand) >= 1 /\ DOMAIN strand = 1..Len(strand)
      /\ DOMAIN strand' = 1..(Len(strand) - 1)
      /\ \A i \in DOMAIN strand' : strand'[i] = strand[i + 1]
      /\ Head(strand) = strand[1]
  BY <1>1, SMT
<1>3. NoStart => NoStart' /\ Head(strand) # "start"
  BY <1>2, SMT DEF NoStart
<1>4. ASSUME OneStart, Head(strand) = "start" PROVE NoStart'
  BY <1>2, <1>4, SMT DEF NoStart, OneStart
<1>5. ASSUME OneStart, Head(strand) = "cancel" PROVE OneStart'
  <2>1. PICK i \in DOMAIN strand : /\ strand[i] = "start"
                                   /\ \A j \in DOMAIN strand : strand[j] = "start" => j = i
    BY <1>5 DEF OneStart
  <2>2. i - 1 \in DOMAIN strand' /\ strand'[i - 1] = "start"
    BY <1>2, <1>5, <2>1, SMT
  <2>3. \A j \in DOMAIN strand' : strand'[j] = "start" => j = i - 1
    BY <1>2, <2>1, SMT
  <2> QED BY <2>2, <2>3 DEF OneStart
<1> QED BY <1>3, <1>4, <1>5

\* complete_request with an armed callback adds one completion.
LEMMA Reported ==
    ASSUME TypeOK, callback # 0, NEW ec, NEW res, NEW left, CompleteRequest(ec, res, left)
    PROVE  /\ callback' = 0 /\ ~timer' /\ m_result' = left
           /\ Len(completed) \in Nat /\ Len(completed') = Len(completed) + 1
           /\ DOMAIN completed = 1..Len(completed)
           /\ DOMAIN completed' = 1..(Len(completed) + 1)
           /\ \A i \in DOMAIN completed : completed'[i] = completed[i]
           /\ completed'[Len(completed) + 1] =
                  [exchange |-> callback, ec |-> ec, response |-> res]
<1> DEFINE e == [exchange |-> callback, ec |-> ec, response |-> res]
<1>1. completed' = Append(completed, e) /\ callback' = 0 /\ ~timer' /\ m_result' = left
  BY DEF CompleteRequest
<1>2. \E S : completed \in Seq(S)
  BY DEF TypeOK
<1> HIDE DEF e
<1>3. /\ Len(completed) \in Nat /\ Len(completed') = Len(completed) + 1
      /\ DOMAIN completed = 1..Len(completed)
      /\ DOMAIN completed' = 1..(Len(completed) + 1)
      /\ \A i \in DOMAIN completed : completed'[i] = completed[i]
      /\ completed'[Len(completed) + 1] = e
  BY <1>1, <1>2, SMT
<1> QED BY <1>1, <1>3 DEF e

\* The exchange that runs is reported: its turn has ended.
LEMMA TurnEnds ==
    ASSUME TypeOK, Turns, Armed, NEW ec, NEW res, NEW left, CompleteRequest(ec, res, left),
           UNCHANGED <<started, handled, current>>, NoStart', Len(io') <= 1,
           io' # <<>> => io # <<>>, expired' \subseteq expired,
           ec = "none" => io' = <<>> /\ m_state' = "done"
    PROVE  Turns' /\ Ended'
<1>1. /\ callback = started /\ started = Len(completed) + 1 /\ handled = Len(completed)
      /\ started # 0 /\ Healthy /\ expired \subseteq {started}
  BY LenProperties DEF Armed, TypeOK
<1>2. /\ callback' = 0 /\ ~timer'
      /\ Len(completed) \in Nat /\ Len(completed') = Len(completed) + 1
      /\ DOMAIN completed = 1..Len(completed)
      /\ DOMAIN completed' = 1..(Len(completed) + 1)
      /\ \A i \in DOMAIN completed : completed'[i] = completed[i]
      /\ completed'[Len(completed) + 1] =
             [exchange |-> callback, ec |-> ec, response |-> res]
  BY <1>1, Reported
<1>3. \A i \in DOMAIN completed' : completed'[i].exchange = i
  BY <1>1, <1>2, SMT DEF Turns
<1>4. Healthy' => ec = "none"
  BY <1>2, SMT DEF Healthy
<1>5. handled' = started' - 1 /\ handled' # started'
  BY <1>1, <1>2, SMT
<1>6. Ended'
  BY <1>1, <1>2, <1>4, <1>5 DEF Ended
<1> QED BY <1>3, <1>6 DEF Turns

\* What the three turns say of the counts.
LEMMA TurnCounts ==
    ASSUME TypeOK, Turns
    PROVE  /\ Len(completed) \in Nat /\ started \in Nat /\ handled \in Nat
           /\ Posted \/ Armed => started >= 1 /\ handled = Len(completed)
                                 /\ started = Len(completed) + 1 /\ handled # started
           /\ Armed <=> callback # 0
           /\ timer => Armed
           /\ Pooled => Ended /\ Healthy
<1>1. Len(completed) \in Nat /\ started \in Nat /\ handled \in Nat
  BY LenProperties, StackBounds DEF TypeOK
<1>2. Posted \/ Armed => started >= 1 /\ handled = Len(completed)
                         /\ started = Len(completed) + 1 /\ handled # started
  BY <1>1, SMT DEF Posted, Armed
<1>3. Armed => callback # 0
  BY <1>1, <1>2 DEF Armed
<1>4. Posted \/ Ended => callback = 0 /\ ~timer
  BY DEF Posted, Ended
<1>5. Pooled => handled = started /\ Healthy
  BY DEF Pooled, Healthy
<1> QED BY <1>1, <1>2, <1>3, <1>4, <1>5 DEF Turns

LEMMA ManagerStartTurns == ASSUME TypeOK, Turns, ManagerStart PROVE Turns'
<1>1. Ended /\ Healthy /\ handled = started
  BY TurnCounts DEF ManagerStart, Pooled
<1>2. /\ started' = started + 1 /\ strand' = Append(strand, "start")
      /\ UNCHANGED <<handled, callback, timer, completed, current, m_state, expired, io>>
  BY DEF ManagerStart, content, request
<1>3. OneStart'
  BY <1>1, <1>2, StrandAppend DEF Ended
<1>4. started \in Nat
  BY TurnCounts
<1>5. Posted'
  BY <1>1, <1>2, <1>3, <1>4 DEF Ended, Posted, Healthy
<1> QED BY <1>2, <1>5 DEF Turns

LEMMA ManagerCancelTurns == ASSUME TypeOK, Turns, ManagerCancel PROVE Turns'
<1>1. /\ strand' = Append(strand, "cancel")
      /\ UNCHANGED <<started, handled, callback, timer, completed, current, m_state,
                     expired, io>>
  BY DEF ManagerCancel, content, request
<1>2. (NoStart => NoStart') /\ (OneStart => OneStart')
  BY <1>1, StrandAppend
<1> QED BY <1>1, <1>2 DEF Turns, Posted, Armed, Ended, Healthy

LEMMA ManagerCompletionTurns == ASSUME TypeOK, Turns, ManagerCompletion PROVE Turns'
<1>1. /\ handled < Len(completed) /\ expired = {} /\ handled' = handled + 1
      /\ UNCHANGED <<started, strand, callback, timer, completed, current, m_state,
                     expired, io>>
  BY DEF ManagerCompletion, content, request
<1>2. Ended
  BY <1>1, TurnCounts DEF Turns
<1>3. handled' = started
  BY <1>1, <1>2, TurnCounts DEF Ended
<1>4. Ended'
  BY <1>1, <1>2, <1>3 DEF Ended, NoStart, Healthy
<1> QED BY <1>1, <1>4 DEF Turns

LEMMA StackStartTurns == ASSUME TypeOK, Turns, StackStart PROVE Turns'
<1>1. /\ strand # <<>> /\ Head(strand) = "start" /\ strand' = Tail(strand)
      /\ current' = started /\ callback' = started /\ timer' = TRUE
      /\ m_state' = "in_progress"
      /\ UNCHANGED <<started, handled, completed, expired>>
      /\ \E o \in {OnSocket("write"), Resolve} : io' = Append(io, o)
  BY DEF StackStart, manager, WriteHeaders, Write
<1>2. Posted
  BY <1>1, StrandTail DEF Turns, Armed, Ended
<1>3. NoStart'
  BY <1>1, <1>2, StrandTail DEF Posted
<1>4. PICK o \in Operation : io' = <<o>> /\ o.doom # "operation_aborted"
  <2>1. \A o \in {OnSocket("write"), Resolve} :
            o \in Operation /\ o.doom # "operation_aborted"
    BY OperationTypes DEF TypeOK
  <2>2. \A o : Append(<<>>, o) = <<o>>
    BY SMT
  <2> QED BY <1>1, <1>2, <2>1, <2>2 DEF Posted
<1>5. Len(io') = 1 /\ \A i \in DOMAIN io' : io'[i].doom # "operation_aborted"
  <2> HIDE DEF Operation
  <2> QED BY <1>4, SMT
<1>6. started # 0
  BY <1>2, TurnCounts
<1>7. Armed'
  BY <1>1, <1>2, <1>3, <1>5 DEF Posted, Armed, Healthy
<1> QED BY <1>1, <1>5, <1>6, <1>7 DEF Turns

\* Closing the socket leaves as many operations as there were.
LEMMA CloseOperations ==
    ASSUME TypeOK, Close
    PROVE  /\ io' \in Seq(Operation) /\ Len(io') = Len(io)
           /\ io = <<>> <=> io' = <<>>
<1>1. io \in Seq(Operation)
  BY DEF TypeOK
<1> DEFINE Shut(i) == IF socket /\ io[i].op # "resolve"
                      THEN [io[i] EXCEPT !.doom = "operation_aborted"] ELSE io[i]
<1>2. \A i \in DOMAIN io : Shut(i) \in Operation
  <2>1. \A i \in DOMAIN io : io[i] \in Operation
    BY <1>1, ElementOfSeq, LenProperties
  <2> QED BY <2>1 DEF Operation
<1>3. io' = [i \in 1..Len(io) |-> Shut(i)] /\ Len(io) \in Nat
  BY <1>1, LenProperties DEF Close
<1> HIDE DEF Shut
<1>4. io' \in Seq(Operation) /\ Len(io') = Len(io)
  BY <1>1, <1>2, <1>3, LenProperties, SMT
<1> QED BY <1>1, <1>4, EmptySeq, SMT

LEMMA StackCancelTurns == ASSUME TypeOK, Turns, StackCancel PROVE Turns'
<1>1. /\ strand # <<>> /\ Head(strand) = "cancel" /\ strand' = Tail(strand)
      /\ CompleteRequest("operation_aborted", m_result, 0) /\ Close
      /\ UNCHANGED <<started, handled, current, m_state, expired>>
  BY DEF StackCancel, manager, request
<1>2. (NoStart => NoStart') /\ (OneStart => OneStart')
  BY <1>1, StrandTail
<1>3. Len(io') <= 1 /\ (io = <<>> <=> io' = <<>>)
  BY <1>1, CloseOperations DEF Turns
<1>4. CASE Armed
  <2>1. NoStart'
    BY <1>2, <1>4 DEF Armed
  <2> QED BY <1>1, <1>3, <1>4, <2>1, TurnEnds
<1>5. CASE ~Armed
  <2>1. UNCHANGED <<callback, timer, completed>>
    BY <1>1, <1>5, TurnCounts DEF CompleteRequest
  <2> QED BY <1>1, <1>2, <1>3, <1>5, <2>1 DEF Turns, Posted, Ended, Healthy
<1> QED BY <1>4, <1>5

LEMMA TimerExpiresTurns == ASSUME TypeOK, Turns, TimerExpires PROVE Turns'
<1>1. /\ timer /\ ~timer' /\ expired' = expired \cup {current}
      /\ UNCHANGED <<started, handled, strand, callback, completed, current, m_state, io>>
  BY DEF TimerExpires, manager, request
<1>2. Armed
  BY <1>1, TurnCounts
<1>3. Armed'
  BY <1>1, <1>2 DEF Armed, NoStart, Healthy
<1> QED BY <1>1, <1>3 DEF Turns

LEMMA TimerHandlerTurns == ASSUME TypeOK, Turns, TimerHandler PROVE Turns'
<1>1. /\ expired # {} /\ expired' \subseteq expired
      /\ CompleteRequest("timed_out", m_result, 0)
      /\ UNCHANGED <<started, handled, strand, current, m_state, io>>
  BY DEF TimerHandler, manager, request
<1>2. (NoStart => NoStart') /\ (OneStart => OneStart')
  BY <1>1 DEF NoStart, OneStart
<1>3. CASE Armed
  BY <1>1, <1>2, <1>3, TurnEnds DEF Armed, Turns
<1>4. CASE ~Armed
  <2>1. UNCHANGED <<callback, timer, completed>>
    BY <1>1, <1>4, TurnCounts DEF CompleteRequest
  <2> QED BY <1>1, <1>2, <1>4, <2>1 DEF Turns, Posted, Ended, Healthy
<1> QED BY <1>3, <1>4

LEMMA TransportTurns == ASSUME TypeOK, Turns, TransportStep PROVE Turns'
<1>1. Effect
  BY TransportEffect
<1>2. /\ UNCHANGED <<started, handled, strand, current, expired>> /\ io # <<>>
      /\ (NoStart => NoStart')
  BY <1>1 DEF Effect, NoStart
<1>3. /\ io \in Seq(Operation) /\ Len(io) = 1
      /\ Head(io) \in Operation /\ Tail(io) \in Seq(Operation) /\ Tail(io) = <<>>
  <2> HIDE DEF Operation
  <2>1. io \in Seq(Operation) /\ Len(io) <= 1 /\ io # <<>>
    BY <1>2 DEF TypeOK, Turns
  <2>2. /\ Head(io) \in Operation /\ Tail(io) \in Seq(Operation)
        /\ Len(io) >= 1 /\ Len(Tail(io)) = Len(io) - 1
    BY <2>1, QueueTypes
  <2>3. Len(io) = 1 /\ Len(Tail(io)) = 0
    BY <2>1, <2>2, LenProperties
  <2> QED BY <2>1, <2>2, <2>3, EmptySeq
<1>4. \A o : Append(Tail(io), o) = <<o>>
  <2>1. \A o : Append(<<>>, o) = <<o>>
    BY SMT
  <2> QED BY <1>3, <2>1
<1>5. /\ Len(io') <= 1
      /\ \A i \in DOMAIN io' : io'[i].doom # "operation_aborted"
  <2>1. CASE io' = <<>>
    BY <2>1, SMT
  <2>2. ASSUME NEW o \in Operation, io' = <<o>>, o.doom # "operation_aborted"
        PROVE  Len(io') <= 1 /\ \A i \in DOMAIN io' : io'[i].doom # "operation_aborted"
    <3> HIDE DEF Operation
    <3> QED BY <2>2, SMT
  <2> QED BY <1>1, <1>4, <2>1, <2>2 DEF Effect
<1>6. CASE Armed
  <2>1. CASE UNCHANGED <<callback, timer, completed, m_state>>
    BY <1>2, <1>5, <1>6, <2>1 DEF Turns, Armed, Healthy
  <2>2. ASSUME NEW ec \in Errors(Head(io)), CompleteRequest(ec, m_result, 0)
        PROVE  Turns'
    <3>1. ec # "none"
      BY <1>3, OutcomeTypes DEF NetworkError
    <3> QED BY <1>2, <1>5, <1>6, <2>2, <3>1, TurnEnds DEF Armed
  <2>3. ASSUME m_state' = "done", io' = Tail(io), NEW res, NEW left,
               CompleteRequest("none", res, left)
        PROVE  Turns'
    BY <1>2, <1>4, <1>5, <1>6, <2>3, TurnEnds DEF Armed
  <2> QED BY <1>1, <2>1, <2>2, <2>3 DEF Effect
<1>7. CASE ~Armed
  <2>1. Ended /\ ~Healthy
    BY <1>2, <1>7 DEF Turns, Posted, Ended
  <2>2. UNCHANGED <<callback, timer, completed>>
    BY <1>1, <1>7, TurnCounts DEF CompleteRequest, Effect
  <2> QED BY <1>2, <1>5, <2>1, <2>2 DEF Turns, Ended, Healthy
<1> QED BY <1>6, <1>7

LEMMA ServerTurns == ASSUME TypeOK, Turns, ServerStep PROVE Turns'
<1>1. UNCHANGED <<started, handled, strand, callback, timer, completed, current, m_state,
                  expired, io>>
  BY DEF ServerStep, ServerInterim, ServerResponds, ServerCloses, manager, content, request
<1> QED BY <1>1 DEF Turns, Posted, Armed, Ended, NoStart, OneStart, Healthy

LEMMA NextTurns == ASSUME TypeOK, Turns, [Next]_vars PROVE Turns'
<1>1. CASE UNCHANGED vars
  BY <1>1 DEF vars, manager, content, request, Turns, Posted, Armed, Ended, NoStart, OneStart,
              Healthy
<1> QED BY <1>1, ManagerStartTurns, ManagerCancelTurns, ManagerCompletionTurns,
           StackStartTurns, StackCancelTurns, TimerExpiresTurns, TimerHandlerTurns,
           TransportTurns, ServerTurns DEF Next, ManagerStep, StrandStep

(***************************************************************************)
(* The types are kept, given whose turn it is.                              *)
(***************************************************************************)

\* A block of exchange x is written.
LEMMA WriteType ==
    ASSUME TypeOK, NEW ops \in Seq(Operation), NEW x \in 1..MaxExchanges, NEW left,
           Write(ops, x, left)
    PROVE  io' \in Seq(Operation) /\ pending' \in Seq(1..MaxExchanges)
<1>1. OnSocket("write") \in Operation /\ pending \in Seq(1..MaxExchanges)
  BY OperationTypes DEF TypeOK
<1> HIDE DEF Operation
<1>2. io' = Append(ops, OnSocket("write")) /\ pending' \in {Append(pending, x), pending}
  BY DEF Write
<1> QED BY <1>1, <1>2, QueueTypes

LEMMA ManagerTypes ==
    ASSUME TypeOK, Turns, ManagerStep \/ ManagerCompletion
    PROVE  TypeOK'
<1>1. /\ Len(completed) \in Nat /\ started \in 0..MaxExchanges /\ handled \in 0..started
      /\ Len(completed) <= started /\ MaxExchanges \in Nat
  <2>1. /\ Len(completed) \in Nat /\ started \in 0..MaxExchanges /\ handled \in 0..started
        /\ MaxExchanges \in Nat
    BY TurnCounts, StackBounds DEF TypeOK
  <2>2. CASE Posted \/ Armed
    BY <2>1, <2>2, TurnCounts
  <2>3. CASE Ended
    BY <2>1, <2>3 DEF Ended
  <2> QED BY <2>2, <2>3 DEF Turns
<1>2. \A m \in {"start", "cancel"} : Append(strand, m) \in Seq({"start", "cancel"})
  BY QueueTypes DEF TypeOK
<1>3. CASE ManagerStart
  <2>1. /\ started' = started + 1 /\ started < MaxExchanges /\ strand' = Append(strand, "start")
        /\ UNCHANGED <<ssl, handled, cancels, content, request, m_state, m_not_reusable,
                       parser, expired, socket, io, server>>
    BY <1>3 DEF ManagerStart
  <2>2. started' \in 0..MaxExchanges /\ handled' \in 0..started'
    BY <1>1, <2>1
  <2> QED BY <1>2, <2>1, <2>2 DEF TypeOK, content, request, server
<1>4. CASE ManagerCancel
  <2>1. /\ handled < started /\ strand' = Append(strand, "cancel")
        /\ cancels' = cancels \cup {started}
        /\ UNCHANGED <<ssl, started, handled, content, request, m_state, m_not_reusable,
                       parser, expired, socket, io, server>>
    BY <1>4 DEF ManagerCancel
  <2>2. started \in 1..MaxExchanges
    BY <1>1, <2>1
  <2> QED BY <1>2, <2>1, <2>2 DEF TypeOK, content, request, server
<1>5. CASE ManagerCompletion
  <2>1. /\ handled < Len(completed) /\ handled' = handled + 1
        /\ UNCHANGED <<ssl, started, cancels, strand, content, request, m_state,
                       m_not_reusable, parser, expired, socket, io, server>>
    BY <1>5 DEF ManagerCompletion
  <2>2. handled' \in 0..started'
    BY <1>1, <2>1
  <2> QED BY <2>1, <2>2 DEF TypeOK, content, request, server
<1> QED BY <1>3, <1>4, <1>5 DEF ManagerStep

LEMMA StackStartTypes == ASSUME TypeOK, Turns, StackStart PROVE TypeOK'
<1>1. /\ strand # <<>> /\ Head(strand) = "start" /\ strand' = Tail(strand)
      /\ current' = started /\ callback' = started /\ timer' = TRUE
      /\ UNCHANGED <<ssl, started, handled, cancels, completed, m_result, m_not_reusable,
                     parser, expired, socket, wire, peer, interims>>
  BY DEF StackStart, manager
<1>2. PICK b \in 0..MaxBody : body_left' = b /\ WriteHeaders(started, b)
  BY DEF StackStart
<1>3. Posted
  BY <1>1, StrandTail DEF Turns, Armed, Ended
<1>4. started \in 0..MaxExchanges /\ started \in 1..MaxExchanges
  BY <1>3, TurnCounts, StackBounds DEF TypeOK
<1>5. strand' \in Seq({"start", "cancel"})
  BY <1>1, HeadTailProperties DEF TypeOK
<1>6. io' \in Seq(Operation) /\ pending' \in Seq(1..MaxExchanges)
  <2>1. io \in Seq(Operation) /\ pending \in Seq(1..MaxExchanges)
    BY DEF TypeOK
  <2>2. Append(io, Resolve) \in Seq(Operation)
    <3>1. Resolve \in Operation
      BY OperationTypes
    <3> HIDE DEF Operation
    <3> QED BY <2>1, <3>1, QueueTypes
  <2> QED BY <1>2, <1>4, <2>1, <2>2, WriteType DEF WriteHeaders
<1>7. m_state' = "in_progress"
  BY <1>2 DEF WriteHeaders
<1> QED BY <1>1, <1>2, <1>4, <1>5, <1>6, <1>7 DEF TypeOK

LEMMA StackCancelTypes == ASSUME TypeOK, StackCancel PROVE TypeOK'
<1>1. /\ strand # <<>> /\ strand' = Tail(strand)
      /\ CompleteRequest("operation_aborted", m_result, 0) /\ Close
      /\ UNCHANGED <<ssl, started, handled, cancels, current, body_left, m_state,
                     m_not_reusable, parser, expired, interims>>
  BY DEF StackCancel, manager, request
<1>2. strand' \in Seq({"start", "cancel"})
  BY <1>1, HeadTailProperties DEF TypeOK
<1>3. /\ callback' \in 0..MaxExchanges /\ timer' \in BOOLEAN /\ m_result' \in 0..MaxExchanges
      /\ completed' \in Seq([exchange : 1..MaxExchanges, ec : EC, response : 0..MaxExchanges])
  <2>1. "operation_aborted" \in EC /\ m_result \in 0..MaxExchanges /\ 0 \in 0..MaxExchanges
    BY StackBounds DEF TypeOK, EC
  <2> QED BY <1>1, <2>1, CompleteRequestType
<1>4. io' \in Seq(Operation)
  BY <1>1, CloseOperations
<1>5. /\ socket' \in BOOLEAN /\ peer' \in BOOLEAN
      /\ pending' \in Seq(1..MaxExchanges) /\ wire' \in Seq(Part)
  <2>1. /\ socket' = FALSE /\ peer' = (peer /\ ~socket)
        /\ pending' \in {<<>>, pending} /\ wire' \in {<<>>, wire}
    BY <1>1 DEF Close
  <2>2. peer \in BOOLEAN /\ pending \in Seq(1..MaxExchanges) /\ wire \in Seq(Part)
    BY DEF TypeOK
  <2>3. <<>> \in Seq(1..MaxExchanges) /\ <<>> \in Seq(Part)
    BY EmptyQueue, Zenon
  <2> QED BY <2>1, <2>2, <2>3, Zenon
<1> QED BY <1>1, <1>2, <1>3, <1>4, <1>5 DEF TypeOK

LEMMA TimerTypes ==
    ASSUME TypeOK, Turns, TimerExpires \/ TimerHandler
    PROVE  TypeOK'
<1>1. CASE TimerExpires
  <2>1. /\ timer /\ timer' = FALSE /\ expired' = expired \cup {current}
        /\ UNCHANGED <<ssl, started, handled, cancels, strand, callback, completed, m_result,
                       current, body_left, m_state, m_not_reusable, parser, socket, io,
                       pending, wire, peer, interims>>
    BY <1>1 DEF TimerExpires, manager, request, server
  <2>2. current = started /\ started \in 1..MaxExchanges
    BY <2>1, TurnCounts, StackBounds DEF Armed, TypeOK
  <2> QED BY <2>1, <2>2 DEF TypeOK
<1>2. CASE TimerHandler
  <2>1. /\ expired' \subseteq expired /\ CompleteRequest("timed_out", m_result, 0)
        /\ UNCHANGED <<ssl, started, handled, cancels, strand, current, body_left, m_state,
                       m_not_reusable, parser, socket, io, pending, wire, peer, interims>>
    BY <1>2 DEF TimerHandler, manager, request, server
  <2>2. "timed_out" \in EC /\ m_result \in 0..MaxExchanges /\ 0 \in 0..MaxExchanges
    BY StackBounds DEF TypeOK, EC
  <2> QED BY <2>1, <2>2, CompleteRequestType DEF TypeOK
<1> QED BY <1>1, <1>2

LEMMA ServerTypes == ASSUME TypeOK, ServerStep PROVE TypeOK'
<1> DEFINE Kept == UNCHANGED <<ssl, started, handled, cancels, strand, callback, timer,
                               completed, m_result, current, body_left, m_state,
                               m_not_reusable, parser, expired, socket, io>>
<1>0. /\ pending \in Seq(1..MaxExchanges) /\ wire \in Seq(Part)
      /\ pending # <<>> => /\ Head(pending) \in 1..MaxExchanges
                           /\ Tail(pending) \in Seq(1..MaxExchanges)
  BY HeadTailProperties DEF TypeOK
<1>e. <<>> \in Seq(1..MaxExchanges)
  BY EmptyQueue, Zenon
<1>1. CASE ServerInterim
  <2>1. /\ Kept /\ UNCHANGED <<pending, peer>> /\ pending # <<>>
        /\ interims < MaxInterim /\ interims' = interims + 1
        /\ wire' = wire \o Response(Head(pending), FALSE)
    BY <1>1 DEF ServerInterim, manager, content, request
  <2>2. wire' \in Seq(Part)
    <3>1. Response(Head(pending), FALSE) \in Seq(Part)
      BY <1>0, <2>1, ResponseType
    <3> HIDE DEF Part
    <3> QED BY <1>0, <2>1, <3>1, ConcatProperties
  <2>3. interims' \in 0..MaxInterim
    BY <2>1, StackBounds DEF TypeOK
  <2> QED BY <2>1, <2>2, <2>3 DEF TypeOK
<1>2. ASSUME NEW close \in BOOLEAN, ServerResponds(close) PROVE TypeOK'
  <2>1. /\ Kept /\ UNCHANGED interims /\ pending # <<>> /\ peer' = ~close
        /\ wire' = wire \o Response(Head(pending), close)
        /\ pending' \in {<<>>, Tail(pending)}
    BY <1>2 DEF ServerResponds, manager, content, request
  <2>2. wire' \in Seq(Part)
    <3>1. Response(Head(pending), close) \in Seq(Part)
      BY <1>0, <2>1, ResponseType
    <3> HIDE DEF Part
    <3> QED BY <1>0, <2>1, <3>1, ConcatProperties
  <2> QED BY <1>0, <1>e, <2>1, <2>2 DEF TypeOK
<1>3. CASE ServerCloses
  BY <1>e, <1>3 DEF ServerCloses, TypeOK, manager, content, request
<1> QED BY <1>1, <1>2, <1>3 DEF ServerStep

\* What on_connected writes or reports, and what on_read reports.
LEMMA OnConnectedTypes ==
    ASSUME TypeOK, Turns, io # <<>>, NEW ec \in EC, OnConnected(ec)
    PROVE  /\ io' \in Seq(Operation) /\ pending' \in Seq(1..MaxExchanges)
           /\ callback' \in 0..MaxExchanges /\ timer' \in BOOLEAN
           /\ m_result' \in 0..MaxExchanges
           /\ completed' \in Seq([exchange : 1..MaxExchanges, ec : EC,
                                  response : 0..MaxExchanges])
<1>1. Tail(io) \in Seq(Operation) /\ current \in 1..MaxExchanges
  BY HeadTailProperties, StackBounds DEF TypeOK, Turns
<1>2. CASE ec = "none"
  <2>1. Write(Tail(io), current, body_left) /\ UNCHANGED <<callback, timer, completed, m_result>>
    BY <1>2 DEF OnConnected, content
  <2> QED BY <1>1, <2>1, WriteType DEF TypeOK
<1>3. CASE ec # "none"
  <2>1. io' = Tail(io) /\ CompleteRequest(ec, m_result, 0) /\ UNCHANGED pending
    BY <1>3 DEF OnConnected, OnError
  <2>2. m_result \in 0..MaxExchanges /\ 0 \in 0..MaxExchanges
    BY StackBounds DEF TypeOK
  <2>3. pending' \in Seq(1..MaxExchanges)
    BY <2>1 DEF TypeOK
  <2> QED BY <1>1, <2>1, <2>2, <2>3, CompleteRequestType, Zenon
<1> QED BY <1>2, <1>3

\* A connection is started, with k addresses left to try.
LEMMA AsyncConnectTypes ==
    ASSUME TypeOK, io # <<>>, NEW k \in 0..MaxEndpoints, AsyncConnect(k)
    PROVE  /\ io' \in Seq(Operation) /\ pending' \in Seq(1..MaxExchanges)
           /\ wire' \in Seq(Part) /\ socket' \in BOOLEAN /\ peer' \in BOOLEAN
           /\ UNCHANGED <<callback, timer, completed, m_result>>
<1>1. /\ io' = Append(Tail(io), Connect(k)) /\ pending' = <<>> /\ wire' = <<>>
      /\ socket' = TRUE /\ peer' = TRUE
      /\ UNCHANGED <<callback, timer, completed, m_result>>
  BY DEF AsyncConnect, content
<1>2. Connect(k) \in Operation /\ io \in Seq(Operation)
  BY OperationTypes DEF TypeOK
<1>3. io' \in Seq(Operation)
  <2> HIDE DEF Operation
  <2> QED BY <1>1, <1>2, QueueTypes
<1>4. <<>> \in Seq(1..MaxExchanges) /\ <<>> \in Seq(Part)
  BY EmptyQueue, Zenon
<1> QED BY <1>1, <1>3, <1>4, Zenon

LEMMA ConnectTypes ==
    ASSUME TypeOK, Turns, NEW ec \in EC, NEW k \in 1..MaxEndpoints,
           ResolveHandler(ec, k) \/ ConnectHandler(ec) \/ HandshakeHandler(ec)
    PROVE  TypeOK'
<1>1. /\ UNCHANGED <<ssl, started, handled, cancels, strand, current, body_left, m_state,
                     m_not_reusable, parser, expired, interims>>
      /\ io # <<>>
      /\ Head(io) \in Operation
  <2>1. /\ UNCHANGED <<ssl, started, handled, cancels, strand, current, body_left, m_state,
                       m_not_reusable, parser, expired, interims>>
        /\ io # <<>>
    BY DEF ResolveHandler, ConnectHandler, HandshakeHandler, Completing, manager, request
  <2> QED BY <2>1, HeadTailProperties DEF TypeOK
<1>2. CASE OnConnected(ec) /\ UNCHANGED <<socket, peer, wire>>
  BY <1>1, <1>2, OnConnectedTypes DEF TypeOK
<1>3. ASSUME NEW m \in 0..MaxEndpoints, AsyncConnect(m) PROVE TypeOK'
  BY <1>1, <1>3, AsyncConnectTypes DEF TypeOK
<1>4. CASE AsyncHandshake /\ UNCHANGED <<socket, peer, wire>>
  <2>1. io' = Append(Tail(io), OnSocket("handshake"))
        /\ UNCHANGED <<callback, timer, completed, m_result, pending>>
    BY <1>4 DEF AsyncHandshake, content
  <2>2. OnSocket("handshake") \in Operation /\ io \in Seq(Operation)
    BY OperationTypes DEF TypeOK
  <2>3. io' \in Seq(Operation)
    <3> HIDE DEF Operation
    <3> QED BY <1>1, <2>1, <2>2, QueueTypes
  <2> QED BY <1>1, <1>4, <2>1, <2>3 DEF TypeOK
<1>5. CASE ResolveHandler(ec, k)
  <2>1. k - 1 \in 0..MaxEndpoints
    BY StackBounds
  <2> QED BY <1>2, <1>3, <1>5, <2>1 DEF ResolveHandler
<1>6. CASE ConnectHandler(ec)
  <2>1. Head(io).endpoints \in 0..MaxEndpoints
    BY <1>1, OutcomeTypes
  <2>2. Head(io).endpoints > 0 => Head(io).endpoints - 1 \in 0..MaxEndpoints
    BY <2>1, StackBounds
  <2> QED BY <1>2, <1>3, <1>4, <1>6, <2>2 DEF ConnectHandler
<1>7. CASE HandshakeHandler(ec)
  BY <1>2, <1>7 DEF HandshakeHandler
<1> QED BY <1>5, <1>6, <1>7

LEMMA WriteHandlerTypes ==
    ASSUME TypeOK, Turns, NEW ec \in EC, WriteHandler(ec)
    PROVE  TypeOK'
<1>1. /\ UNCHANGED <<ssl, started, handled, cancels, strand, current, m_state, m_not_reusable,
                     parser, expired, socket, wire, peer, interims>>
      /\ io # <<>>
  BY DEF WriteHandler, Completing, manager
<1>2. /\ io \in Seq(Operation) /\ Tail(io) \in Seq(Operation) /\ current \in 1..MaxExchanges
      /\ OnSocket("read") \in Operation
  BY <1>1, HeadTailProperties, StackBounds, OperationTypes DEF TypeOK, Turns
<1>3. /\ callback' \in 0..MaxExchanges /\ timer' \in BOOLEAN /\ m_result' \in 0..MaxExchanges
      /\ completed' \in Seq([exchange : 1..MaxExchanges, ec : EC, response : 0..MaxExchanges])
  <2>1. m_result \in 0..MaxExchanges /\ 0 \in 0..MaxExchanges
    BY StackBounds DEF TypeOK
  <2>2. UNCHANGED <<callback, timer, completed, m_result>> \/ CompleteRequest(ec, m_result, 0)
    BY DEF WriteHandler, OnError, content
  <2>3. CASE UNCHANGED <<callback, timer, completed, m_result>>
    BY <2>3 DEF TypeOK
  <2>4. CASE CompleteRequest(ec, m_result, 0)
    BY <2>1, <2>4, CompleteRequestType, Zenon
  <2> QED BY <2>2, <2>3, <2>4
<1>4. /\ io' \in Seq(Operation) /\ pending' \in Seq(1..MaxExchanges)
      /\ body_left' \in 0..MaxBody
  <2>1. CASE body_left = 0
    <3>1. io' = Append(Tail(io), OnSocket("read")) /\ UNCHANGED <<body_left, pending>>
      BY <2>1 DEF WriteHandler
    <3>2. io' \in Seq(Operation)
      <4> HIDE DEF Operation
      <4> QED BY <1>1, <1>2, <3>1, QueueTypes
    <3> QED BY <3>1, <3>2 DEF TypeOK
  <2>2. CASE body_left # 0
    <3>1. body_left' = body_left - 1 /\ Write(Tail(io), current, body_left - 1)
      BY <2>2 DEF WriteHandler
    <3>2. body_left' \in 0..MaxBody
      BY <2>2, <3>1, StackBounds DEF TypeOK
    <3> QED BY <1>2, <3>1, <3>2, WriteType, Zenon
  <2> QED BY <2>1, <2>2
<1> QED BY <1>1, <1>3, <1>4 DEF TypeOK

LEMMA ReadTypes ==
    ASSUME TypeOK, Turns,
           (\E ec \in EC : ReadError(ec)) \/ ReadRefused
               \/ (\E j \in 1..Len(wire) : ReadData(j))
    PROVE  TypeOK'
<1> DEFINE Kept == UNCHANGED <<ssl, started, handled, cancels, strand, current, body_left,
                               expired, socket, pending, peer, interims>>
           ContentTypes ==
               /\ callback' \in 0..MaxExchanges /\ timer' \in BOOLEAN
               /\ m_result' \in 0..MaxExchanges
               /\ completed' \in Seq([exchange : 1..MaxExchanges, ec : EC,
                                      response : 0..MaxExchanges])
<1>1. m_result \in 0..MaxExchanges /\ 0 \in 0..MaxExchanges
  BY StackBounds DEF TypeOK
<1>2. UNCHANGED <<callback, timer, completed, m_result>> => ContentTypes
  BY DEF TypeOK
<1>3. ASSUME NEW ec \in EC, ReadError(ec) PROVE TypeOK'
  <2>1. /\ Kept /\ UNCHANGED <<m_state, parser, wire>> /\ io # <<>> /\ io' = Tail(io)
        /\ m_not_reusable' = TRUE
        /\ UNCHANGED <<callback, timer, completed, m_result>> \/ CompleteRequest(ec, m_result, 0)
    BY <1>3 DEF ReadError, Completing, OnError, manager, request, server, content
  <2>2. ContentTypes
    BY <1>1, <1>2, <2>1, CompleteRequestType, Zenon
  <2>3. io' \in Seq(Operation)
    BY <2>1, HeadTailProperties DEF TypeOK
  <2> QED BY <2>1, <2>2, <2>3 DEF TypeOK
<1>4. CASE ReadRefused
  <2>1. /\ Kept /\ UNCHANGED <<m_state, m_not_reusable>> /\ io # <<>> /\ io' = Tail(io)
        /\ parser' = "dead" /\ wire' = <<>>
        /\ CompleteRequest("failed", m_result, 0)
    BY <1>4 DEF ReadRefused, Completing, OnError, manager, request
  <2>2. "failed" \in EC
    BY DEF EC, NetworkError
  <2>3. ContentTypes
    BY <1>1, <2>1, <2>2, CompleteRequestType, Zenon
  <2>4. io' \in Seq(Operation)
    BY <2>1, HeadTailProperties DEF TypeOK
  <2>5. wire' \in Seq(Part)
    BY <2>1, EmptyQueue, Zenon
  <2> QED BY <2>1, <2>3, <2>4, <2>5 DEF TypeOK
<1>5. ASSUME NEW j \in 1..Len(wire), ReadData(j) PROVE TypeOK'
  <2>1. Kept /\ wire' = SubSeq(wire, j + 1, Len(wire))
    BY <1>5 DEF ReadData, manager, request
  <2>2. /\ parser' \in {"start", "message", "dead"} /\ m_not_reusable' \in BOOLEAN
        /\ m_state' \in {"in_progress", "done"}
    BY <1>5 DEF ReadData, TypeOK
  <2>3. wire' \in Seq(Part)
    <3>1. wire \in Seq(Part)
      BY DEF TypeOK
    <3> HIDE DEF Part
    <3>2. \A x \in (j + 1)..Len(wire) : wire[x] \in Part
      BY <3>1, ElementOfSeq, LenProperties
    <3> QED BY <2>1, <3>1, <3>2, SubSeqProperties, LenProperties
  <2>4. Effect
    BY <1>5, ReadDataEffect
  <2>5. io' \in Seq(Operation)
    <3>1. io \in Seq(Operation) /\ io # <<>>
      BY <2>4 DEF TypeOK, Effect
    <3> HIDE DEF Operation
    <3> QED BY <2>4, <3>1, QueueTypes DEF Effect
  <2>6. ContentTypes
    <3>1. "none" \in EC
      BY DEF EC
    <3> DEFINE tails == {x \in 1..j : wire[x].part = "tail"}
    <3>2. CASE tails = {}
      <4>1. m_result' = LastHead(1, j, m_result) /\ UNCHANGED <<callback, timer, completed>>
        BY <1>5, <3>2 DEF ReadData
      <4>2. j \in Nat /\ 1 \in Nat /\ 1 >= 1 /\ j <= Len(wire)
        BY LenProperties DEF TypeOK
      <4>3. m_result' \in 0..MaxExchanges
        BY <1>1, <4>1, <4>2, LastHeadType
      <4> QED BY <4>1, <4>3 DEF TypeOK
    <3>3. CASE tails # {}
      <4>1. ~UNCHANGED m_state
        BY <1>5, <3>3 DEF ReadData
      <4>2. PICK res \in 0..MaxExchanges, left \in 0..MaxExchanges :
                CompleteRequest("none", res, left)
        BY <2>4, <4>1 DEF Effect
      <4> QED BY <3>1, <4>2, CompleteRequestType, Zenon
    <3> QED BY <3>2, <3>3
  <2> QED BY <2>1, <2>2, <2>3, <2>5, <2>6 DEF TypeOK
<1> QED BY <1>3, <1>4, <1>5

LEMMA NextTypes == ASSUME TypeOK, Turns, [Next]_vars PROVE TypeOK'
<1>1. CASE UNCHANGED vars
  BY <1>1 DEF vars, manager, content, request, server, TypeOK
<1>2. CASE TransportStep
  <2>1. 1 \in 1..MaxEndpoints
    BY StackBounds
  <2> QED BY <1>2, <2>1, ConnectTypes, WriteHandlerTypes, ReadTypes DEF TransportStep
<1> QED BY <1>1, <1>2, ManagerTypes, StackStartTypes, StackCancelTypes, TimerTypes,
           ServerTypes DEF Next, StrandStep

(***************************************************************************)
(* The invariants.                                                          *)
(***************************************************************************)

LEMMA InitTypesTurns == ASSUME Init PROVE TypeOK /\ Turns
<1>1. /\ 0 \in 0..MaxExchanges /\ 0 \in 0..0 /\ 0 \in 0..MaxBody /\ 0 \in 0..MaxInterim
      /\ Len(<<>>) = 0 /\ DOMAIN <<>> = {} /\ 0 <= 1
  BY StackBounds
<1>2. /\ <<>> \in Seq({"start", "cancel"}) /\ <<>> \in Seq(Operation)
      /\ <<>> \in Seq(1..MaxExchanges) /\ <<>> \in Seq(Part)
      /\ <<>> \in Seq([exchange : 1..MaxExchanges, ec : EC, response : 0..MaxExchanges])
  BY EmptyQueue, Zenon
<1>3. TypeOK
  BY <1>1, <1>2 DEF Init, TypeOK
<1>4. Ended
  BY <1>1 DEF Init, Ended, NoStart
<1> QED BY <1>1, <1>3, <1>4 DEF Init, Turns

\* Every variable keeps its type, and the stack is always in one of its three
\* turns: the start of the latest exchange is posted, the exchange runs with
\* its own deadline, or it was reported (http_content::start, complete_request
\* and cancel, the timer handler, and every handler of the transport).
THEOREM TypesAndTurns == Spec => [](TypeOK /\ Turns)
<1>1. Init => TypeOK /\ Turns
  BY InitTypesTurns
<1>2. TypeOK /\ Turns /\ [Next]_vars => (TypeOK /\ Turns)'
  BY NextTypes, NextTurns
<1> QED BY <1>1, <1>2, PTL DEF Spec

\* Every variable keeps its type: the exchange that a handler works for exists,
\* whatever is left over from a cancel, a timeout or a lost connection.
THEOREM TypeCorrect == Spec => []TypeOK
  BY TypesAndTurns, PTL

\* The stack never has two asynchronous operations under way, which would share
\* m_write_buffer or m_read_buffer (socket.h).
THEOREM OneOperationCorrect == Spec => []OneOperation
<1>1. Turns => OneOperation
  BY DEF Turns, OneOperation
<1> QED BY <1>1, TypesAndTurns, PTL

\* The manager is told of each exchange exactly once, in order, and before the
\* next one starts.
THEOREM OrderCorrect == Spec => []CompletedInOrder
<1>1. TypeOK /\ Turns => CompletedInOrder
  <2> SUFFICES ASSUME TypeOK, Turns PROVE CompletedInOrder
    OBVIOUS
  <2>1. Len(completed) \in Nat /\ started \in Nat
    BY TurnCounts
  <2>2. CASE Posted \/ Armed
    BY <2>1, <2>2, TurnCounts DEF Turns, CompletedInOrder
  <2>3. CASE Ended
    BY <2>1, <2>3 DEF Ended, Turns, CompletedInOrder
  <2> QED BY <2>2, <2>3 DEF Turns
<1> QED BY <1>1, TypesAndTurns, PTL

\* A stack goes back to the pool quiet: no operation, armed callback, timer or
\* queued timer handler of its last exchange is left to run into the next one.
THEOREM QuietCorrect == Spec => []PooledQuiet
<1>1. TypeOK /\ Turns => PooledQuiet
  <2> SUFFICES ASSUME TypeOK, Turns, Pooled
               PROVE  io = <<>> /\ callback = 0 /\ m_state = "done" /\ ~timer /\ expired = {}
    BY DEF PooledQuiet
  <2>1. Ended /\ Healthy /\ handled = started
    BY TurnCounts DEF Pooled
  <2> QED BY <2>1 DEF Ended
<1> QED BY <1>1, TypesAndTurns, PTL

(***************************************************************************)
(* A timeout belongs to the exchange that is reported.                      *)
(***************************************************************************)

\* A step reports a timeout only for the exchange whose handler was queued.
TimesOutOwn ==
    Len(completed') > Len(completed) /\ completed'[Len(completed')].ec = "timed_out"
        => callback \in expired

LEMMA ReportedCode ==
    ASSUME TypeOK, Turns, NEW ec, NEW res, NEW left, CompleteRequest(ec, res, left),
           Len(completed') > Len(completed)
    PROVE  Armed /\ completed'[Len(completed')].ec = ec
<1>1. callback # 0
  BY TurnCounts DEF CompleteRequest
<1>2. /\ Len(completed') = Len(completed) + 1
      /\ completed'[Len(completed) + 1] = [exchange |-> callback, ec |-> ec, response |-> res]
  BY <1>1, Reported
<1> QED BY <1>1, <1>2, TurnCounts

LEMMA StepTimesOutOwn == ASSUME TypeOK, Turns, [Next]_vars PROVE TimesOutOwn
<1> SUFFICES ASSUME Len(completed') > Len(completed),
                    completed'[Len(completed')].ec = "timed_out"
             PROVE  callback \in expired
  BY DEF TimesOutOwn
<1>0. Len(completed) \in Nat
  BY TurnCounts
<1>1. ~UNCHANGED completed
  BY <1>0
<1>2. CASE StackCancel
  BY <1>2, ReportedCode DEF StackCancel
<1>3. CASE TimerHandler
  <2>1. Armed /\ expired # {}
    BY <1>3, ReportedCode DEF TimerHandler
  <2> QED BY <2>1 DEF Armed
<1>4. CASE TransportStep
  <2>1. Effect
    BY <1>4, TransportEffect
  <2>2. Head(io) \in Operation
    BY <2>1, HeadTailProperties DEF Effect, TypeOK
  <2>3. "timed_out" \notin Errors(Head(io))
    BY <2>2, OutcomeTypes DEF NetworkError
  <2>4. PICK ec \in Errors(Head(io)) \cup {"none"} :
            \E res, left : CompleteRequest(ec, res, left)
    BY <1>1, <2>1 DEF Effect
  <2> QED BY <2>3, <2>4, ReportedCode
<1>5. CASE UNCHANGED vars
  BY <1>1, <1>5 DEF vars, content
<1> QED BY <1>1, <1>2, <1>3, <1>4, <1>5
        DEF Next, ManagerStep, StrandStep, ServerStep, ManagerStart, ManagerCancel,
            ManagerCompletion, StackStart, TimerExpires, ServerInterim, ServerResponds,
            ServerCloses, content

\* An exchange is reported as timed out only when its own deadline has passed:
\* a timer handler that is queued when complete_request cancels the timer never
\* completes a later exchange.
THEOREM TimeoutCorrect == Spec => OwnTimeout
<1>1. TypeOK /\ Turns /\ [Next]_vars => [TimesOutOwn]_vars
  BY StepTimesOutOwn
<1>2. [][TimesOutOwn]_vars => OwnTimeout
  BY DEF TimesOutOwn, OwnTimeout
<1> QED BY <1>1, <1>2, TypesAndTurns, PTL DEF Spec

(***************************************************************************)
(* The stack implements its contract.                                       *)
(***************************************************************************)

\* The completions as StackContract has them, without the response.
Outcome == [i \in DOMAIN completed |->
               [exchange |-> completed[i].exchange, ec |-> completed[i].ec]]

\* StackContract without its fairness.
ContractSafety == Contract!Init /\ [][Contract!Next]_(Contract!vars)

LEMMA OutcomeAppend ==
    ASSUME TypeOK, callback # 0, NEW ec, NEW res, NEW left, CompleteRequest(ec, res, left)
    PROVE  Outcome' = Append(Outcome, [exchange |-> callback, ec |-> ec]) /\ callback' = 0
<1> DEFINE e == [exchange |-> callback, ec |-> ec]
           F(i) == [exchange |-> completed[i].exchange, ec |-> completed[i].ec]
           G(i) == [exchange |-> completed'[i].exchange, ec |-> completed'[i].ec]
           n == Len(completed)
<1>1. /\ callback' = 0 /\ n \in Nat
      /\ DOMAIN completed = 1..n /\ DOMAIN completed' = 1..(n + 1)
      /\ \A i \in DOMAIN completed : completed'[i] = completed[i]
      /\ completed'[n + 1] = [exchange |-> callback, ec |-> ec, response |-> res]
  BY Reported
<1>2. /\ Outcome = [i \in 1..n |-> F(i)] /\ Outcome' = [i \in 1..(n + 1) |-> G(i)]
      /\ \A i \in 1..n : G(i) = F(i)
      /\ G(n + 1) = e
  BY <1>1 DEF Outcome
<1> HIDE DEF e, F, G, n
<1>3. Append(Outcome, e) = [i \in 1..(n + 1) |-> IF i = n + 1 THEN e ELSE F(i)]
  BY <1>1, <1>2, SMT
<1>4. \A i \in 1..(n + 1) : (IF i = n + 1 THEN e ELSE F(i)) = G(i)
  BY <1>1, <1>2, SMT
<1>5. Append(Outcome, e) = Outcome'
  BY <1>2, <1>3, <1>4
<1> QED BY <1>1, <1>5 DEF e

LEMMA InitContract == ASSUME Init PROVE Contract!Init
<1>1. completed = <<>> /\ DOMAIN <<>> = {}
  BY DEF Init
<1>2. Outcome = <<>>
  BY <1>1, SMT DEF Outcome
<1> QED BY <1>2 DEF Init, Contract!Init, Outcome

\* complete_request is a report of the contract, or nothing.
LEMMA ReportContract ==
    ASSUME TypeOK, NEW ec, NEW res, NEW left, CompleteRequest(ec, res, left)
    PROVE  \/ Contract!Report(ec)
           \/ callback = 0 /\ UNCHANGED <<callback, completed>>
<1>1. CASE callback # 0
  <2>1. Outcome' = Append(Outcome, [exchange |-> callback, ec |-> ec]) /\ callback' = 0
    BY <1>1, OutcomeAppend
  <2> QED BY <1>1, <2>1, Zenon DEF Outcome, Contract!Report
<1>2. CASE callback = 0
  BY <1>2 DEF CompleteRequest
<1> QED BY <1>1, <1>2

LEMMA NextContract ==
    ASSUME TypeOK, Turns, [Next]_vars
    PROVE  [Contract!Next]_(Contract!vars)
<1> DEFINE Manager == <<started, handled, cancels, strand>>
<1>1. UNCHANGED <<Manager, callback, completed>> => UNCHANGED Contract!vars
  BY DEF Contract!vars
<1>2. CASE ManagerStart
  BY <1>2 DEF ManagerStart, Pooled, content, Contract!StartAsync, Contract!Next
<1>3. CASE ManagerCancel
  <2>1. /\ handled < started
        /\ Cardinality({i \in DOMAIN strand : strand[i] = "cancel"}) < MaxCancels
        /\ cancels' = cancels \cup {started} /\ strand' = Append(strand, "cancel")
        /\ started' = started /\ handled' = handled /\ callback' = callback
        /\ completed' = completed
    BY <1>3 DEF ManagerCancel, content
  <2>2. Outcome' = Outcome
    BY <2>1 DEF Outcome
  <2>3. Cardinality({i \in DOMAIN strand : strand[i] = "cancel"})
        = Contract!Cardinality({i \in DOMAIN strand : strand[i] = "cancel"})
    BY Zenon DEF Cardinality, Contract!Cardinality
  <2>4. Contract!CancelAsync
    BY <2>1, <2>2, <2>3 DEF Outcome, Contract!CancelAsync
  <2> QED BY <2>4 DEF Contract!Next
<1>4. CASE ManagerCompletion
  <2>1. Len(Outcome) = Len(completed)
    <3>1. completed \in Seq([exchange : 1..MaxExchanges, ec : EC, response : 0..MaxExchanges])
      BY DEF TypeOK
    <3>2. Len(completed) \in Nat /\ DOMAIN Outcome = 1..Len(completed)
      BY <3>1, LenProperties DEF Outcome
    <3> QED BY <3>2, SMT DEF Outcome
  <2> QED BY <1>4, <2>1 DEF ManagerCompletion, content, Outcome, Contract!Handle, Contract!Next
<1>5. CASE StackStart
  <2>1. callback = 0
    BY <1>5, StrandTail DEF StackStart, Turns, Posted, Armed, Ended
  <2> QED BY <1>5, <2>1 DEF StackStart, manager, Contract!Start, Contract!StackStep, Contract!Next
<1>6. CASE StackCancel
  <2>1. \/ Contract!Report("operation_aborted")
        \/ callback = 0 /\ UNCHANGED <<callback, completed>>
    BY <1>6, ReportContract DEF StackCancel
  <2> QED BY <1>6, <2>1 DEF StackCancel, manager, Contract!Cancel, Contract!StackStep,
                            Contract!Next
<1>7. ASSUME NEW ec \in Contract!StackError, NEW res, NEW left,
             CompleteRequest(ec, res, left), UNCHANGED Manager
      PROVE  [Contract!Next]_(Contract!vars)
  BY <1>1, <1>7, ReportContract DEF Contract!Complete, Contract!StackStep, Contract!Next
<1>8. CASE TimerHandler
  <2>1. "timed_out" \in Contract!StackError
    BY DEF Contract!StackError
  <2> QED BY <1>7, <1>8, <2>1 DEF TimerHandler, manager
<1>9. CASE TransportStep
  <2>1. Effect
    BY <1>9, TransportEffect
  <2>2. UNCHANGED Manager
    BY <2>1 DEF Effect
  <2>3. CASE UNCHANGED <<callback, completed>>
    BY <1>1, <2>2, <2>3
  <2>4. CASE ~UNCHANGED <<callback, completed>>
    <3>1. PICK ec \in Errors(Head(io)) \cup {"none"} :
              \E res, left : CompleteRequest(ec, res, left)
      BY <2>1, <2>4 DEF Effect
    <3>2. Armed
      BY <2>4, <3>1, TurnCounts DEF CompleteRequest
    <3>3. Head(io) \in Operation /\ Head(io).doom # "operation_aborted"
      <4>1. io \in Seq(Operation) /\ io # <<>>
        BY <2>1 DEF Effect, TypeOK
      <4>2. Head(io) \in Operation /\ Head(io) = io[1] /\ 1 \in DOMAIN io
        BY <4>1, HeadTailProperties, LenProperties, EmptySeq
      <4> QED BY <3>2, <4>2 DEF Armed
    <3>4. ec \in Contract!StackError
      BY <3>1, <3>3, OutcomeTypes DEF NetworkError, Contract!StackError
    <3> QED BY <1>7, <2>2, <3>1, <3>4
  <2> QED BY <2>3, <2>4
<1>10. CASE TimerExpires \/ ServerStep \/ UNCHANGED vars
  BY <1>1, <1>10 DEF TimerExpires, ServerStep, ServerInterim, ServerResponds, ServerCloses,
                     vars, manager, content
<1> QED BY <1>2, <1>3, <1>4, <1>5, <1>6, <1>8, <1>9, <1>10 DEF Next, ManagerStep, StrandStep

\* Every behaviour of the stack is one the request manager is promised by
\* StackContract: an exchange is reported once, when its callback is armed, and
\* as aborted only by a cancel, whatever network and server do.
THEOREM ContractCorrect == Spec => ContractSafety
<1>1. Init => Contract!Init
  BY InitContract
<1>2. TypeOK /\ Turns /\ [Next]_vars => [Contract!Next]_(Contract!vars)
  BY NextContract
<1> QED BY <1>1, <1>2, TypesAndTurns, PTL DEF Spec, ContractSafety

(***************************************************************************)
(* What an exchange reports is the answer to its own request.               *)
(***************************************************************************)

\* Nothing of an answer is anywhere on the connection or in the parser.
Quiet == wire = <<>> /\ pending = <<>> /\ m_result = 0 /\ parser # "message"

\* The last block of the request was written.
Asked == io # <<>> /\ Head(io).op \in {"write", "read"} /\ body_left = 0

TailPart(close) == [for |-> started, part |-> "tail", close |-> close]

\* Where the one answer to the latest request is: not yet sent, on the wire, or
\* read up to the end of its head.
Waiting ==
    /\ wire = <<>> /\ pending \in {<<>>, <<started>>}
    /\ m_result = 0 /\ parser # "message"
Sent ==
    /\ pending = <<>> /\ m_result = 0 /\ parser # "message"
    /\ \E close \in BOOLEAN : wire = Response(started, close)
HalfRead ==
    /\ pending = <<>> /\ m_result = started /\ parser = "message"
    /\ wire = <<>> \/ \E close \in BOOLEAN : wire = <<TailPart(close)>>

Answer == Waiting \/ Sent \/ HalfRead

\* Where answers are while no exchange has failed.
Located ==
    /\ callback = 0 => Quiet
    /\ callback # 0 => io # <<>> /\ (Asked => Answer) /\ (~Asked => Quiet)

\* Once the server has sent an interim response nothing more is claimed.
Own == interims = 0 => OwnResponse /\ (Healthy => Located)

\* A failed stack reports nothing more.
LEMMA FailedIsSilent ==
    ASSUME TypeOK, Turns, ~Healthy, [Next]_vars
    PROVE  UNCHANGED completed
<1>1. callback = 0
  BY TurnCounts DEF Armed
<1>2. CASE TransportStep
  BY <1>1, <1>2, TransportEffect DEF Effect, CompleteRequest
<1>3. CASE StackCancel \/ TimerHandler
  BY <1>1, <1>3 DEF StackCancel, TimerHandler, CompleteRequest
<1> QED BY <1>2, <1>3
        DEF Next, ManagerStep, StrandStep, ServerStep, ManagerStart, ManagerCancel,
            ManagerCompletion, StackStart, TimerExpires, ServerInterim, ServerResponds,
            ServerCloses, content, vars

\* The running exchange is reported, with its own response, or with what has
\* come of it before an error.
LEMMA ReportsOwn ==
    ASSUME TypeOK, Turns, Armed, OwnResponse, NEW ec, NEW res, NEW left,
           CompleteRequest(ec, res, left), res \in {0, started}, ec = "none" => res = started
    PROVE  OwnResponse' /\ (ec # "none" => ~Healthy') /\ callback' = 0 /\ m_result' = left
<1>1. callback # 0 /\ started = Len(completed) + 1 /\ callback = started
  BY TurnCounts DEF Armed
<1>2. /\ Len(completed) \in Nat /\ callback' = 0 /\ m_result' = left
      /\ DOMAIN completed = 1..Len(completed)
      /\ DOMAIN completed' = 1..(Len(completed) + 1)
      /\ \A i \in DOMAIN completed : completed'[i] = completed[i]
      /\ completed'[Len(completed) + 1] =
             [exchange |-> callback, ec |-> ec, response |-> res]
  BY <1>1, Reported
<1>3. OwnResponse'
  <2> SUFFICES ASSUME NEW i \in DOMAIN completed'
               PROVE  /\ completed'[i].response \in {0, i}
                      /\ completed'[i].ec = "none" => completed'[i].response = i
    BY DEF OwnResponse
  <2>1. CASE i \in DOMAIN completed
    BY <1>2, <2>1 DEF OwnResponse
  <2>2. CASE i = Len(completed) + 1
    BY <1>1, <1>2, <2>2
  <2> QED BY <1>2, <2>1, <2>2
<1>4. ec # "none" => ~Healthy'
  BY <1>2 DEF Healthy
<1> QED BY <1>2, <1>3, <1>4

\* The result held while an exchange runs is its own.
LEMMA HeldResult == ASSUME Armed, callback # 0, Located PROVE m_result \in {0, started}
  BY DEF Located, Quiet, Answer, Waiting, Sent, HalfRead

\* An error is reported: nothing is claimed of the connection any more.
LEMMA ErrorOwn ==
    ASSUME TypeOK, Turns, callback # 0, OwnResponse, Located, NEW ec,
           CompleteRequest(ec, m_result, 0), ec # "none"
    PROVE  Own'
<1>1. Armed
  BY TurnCounts
<1> QED BY <1>1, HeldResult, ReportsOwn DEF Own

\* Nothing that is claimed changes.
LEMMA SameOwn ==
    ASSUME Own, UNCHANGED <<started, completed, callback, io, body_left, m_result, parser,
                            wire, pending, interims>>
    PROVE  Own'
  BY DEF Own, OwnResponse, Healthy, Located, Quiet, Asked, Answer, Waiting, Sent, HalfRead,
         TailPart, Response

LEMMA ManagerOwn ==
    ASSUME TypeOK, Turns, Own, ManagerStep \/ ManagerCompletion \/ TimerExpires
    PROVE  Own'
<1>1. CASE ManagerStart
  <2>1. Ended /\ Healthy
    BY <1>1, TurnCounts DEF ManagerStart
  <2>2. UNCHANGED <<completed, callback, io, body_left, m_result, parser, wire, pending,
                    interims>>
    BY <1>1 DEF ManagerStart, content, request, server
  <2> QED BY <2>1, <2>2 DEF Own, OwnResponse, Healthy, Ended, Located, Quiet
<1>2. CASE ManagerCancel \/ ManagerCompletion \/ TimerExpires
  BY <1>2, SameOwn DEF ManagerCancel, ManagerCompletion, TimerExpires, content, request,
                       server, manager
<1> QED BY <1>1, <1>2 DEF ManagerStep

\* The last block of exchange started may be among what is written.
LEMMA WriteLocated ==
    ASSUME TypeOK, Quiet, NEW left, Write(<<>>, started, left), body_left' = left,
           UNCHANGED <<started, m_result, parser, wire>>
    PROVE  io' # <<>> /\ (Asked' => Answer') /\ (~Asked' => Quiet')
<1>1. \A o : Append(<<>>, o) = <<o>> /\ Head(<<o>>) = o /\ <<o>> # <<>>
  BY SMT
<1>2. /\ io' = <<OnSocket("write")>> /\ OnSocket("write").op = "write"
      /\ pending' \in {<<>>, <<started>>} /\ (left # 0 => pending' = <<>>)
  BY <1>1 DEF Write, Quiet, OnSocket
<1>3. io' # <<>> /\ Head(io').op = "write"
  BY <1>1, <1>2
<1>4. Asked' <=> left = 0
  BY <1>3 DEF Asked
<1> QED BY <1>2, <1>3, <1>4 DEF Quiet, Answer, Waiting

LEMMA StackStartOwn == ASSUME TypeOK, Turns, Own, StackStart PROVE Own'
<1> SUFFICES ASSUME interims' = 0 PROVE OwnResponse' /\ Located'
  BY DEF Own
<1>1. /\ strand # <<>> /\ Head(strand) = "start" /\ strand' = Tail(strand)
      /\ callback' = started
      /\ UNCHANGED <<started, completed, m_result, parser, wire, interims>>
  BY DEF StackStart, manager
<1>2. Posted
  BY <1>1, StrandTail DEF Turns, Armed, Ended
<1>3. callback = 0 /\ Healthy /\ io = <<>> /\ started # 0
  BY <1>2, TurnCounts DEF Posted
<1>4. OwnResponse /\ Quiet
  BY <1>1, <1>3 DEF Own, Located
<1>5. PICK b \in 0..MaxBody : body_left' = b /\ WriteHeaders(started, b)
  BY DEF StackStart
<1>6. io' # <<>> /\ (Asked' => Answer') /\ (~Asked' => Quiet')
  <2>1. CASE socket
    BY <1>1, <1>3, <1>4, <1>5, <2>1, WriteLocated DEF WriteHeaders
  <2>2. CASE ~socket
    <3>1. io' = Append(<<>>, Resolve) /\ UNCHANGED pending
      BY <1>3, <1>5, <2>2 DEF WriteHeaders
    <3>2. \A o : Append(<<>>, o) = <<o>> /\ Head(<<o>>) = o /\ <<o>> # <<>>
      BY SMT
    <3>3. io' # <<>> /\ Head(io').op = "resolve"
      BY <3>1, <3>2 DEF Resolve
    <3> QED BY <1>1, <1>4, <3>1, <3>3 DEF Asked, Quiet
  <2> QED BY <2>1, <2>2
<1>7. OwnResponse'
  BY <1>1, <1>4 DEF OwnResponse
<1> QED BY <1>1, <1>3, <1>6, <1>7 DEF Located

LEMMA StackCancelOwn == ASSUME TypeOK, Turns, Own, Healthy, StackCancel PROVE Own'
<1>1. /\ CompleteRequest("operation_aborted", m_result, 0)
      /\ Close /\ UNCHANGED <<parser, interims>>
  BY DEF StackCancel
<1> SUFFICES ASSUME interims = 0 PROVE Own'
  BY <1>1 DEF Own
<1>2. OwnResponse /\ Located
  BY DEF Own
<1>3. CASE callback # 0
  BY <1>1, <1>2, <1>3, ErrorOwn
<1>4. CASE callback = 0
  <2>1. UNCHANGED <<completed, callback, m_result>> /\ Quiet
    BY <1>1, <1>2, <1>4, StackBounds DEF CompleteRequest, Located
  <2>2. Quiet'
    BY <1>1, <2>1 DEF Close, Quiet
  <2> QED BY <1>2, <1>4, <2>1, <2>2 DEF Own, OwnResponse, Located
<1> QED BY <1>3, <1>4

LEMMA TimerHandlerOwn == ASSUME TypeOK, Turns, Own, TimerHandler PROVE Own'
<1>1. /\ CompleteRequest("timed_out", m_result, 0)
      /\ UNCHANGED <<started, io, body_left, parser, wire, pending, interims>>
  BY DEF TimerHandler, manager, request, server
<1>2. CASE callback = 0
  BY <1>1, <1>2, SameOwn DEF CompleteRequest
<1>3. CASE callback # 0
  BY <1>1, <1>3, ErrorOwn, TurnCounts DEF Own, Armed
<1> QED BY <1>2, <1>3

\* The operation under way is the only one.
LEMMA OnlyOperation ==
    ASSUME TypeOK, Turns, io # <<>>
    PROVE  /\ Tail(io) = <<>> /\ Head(io) \in Operation
           /\ \A o : /\ Append(Tail(io), o) = <<o>>
                     /\ <<o>> # <<>> /\ Head(<<o>>) = o
<1> HIDE DEF Operation
<1>1. io \in Seq(Operation) /\ Len(io) <= 1
  BY DEF TypeOK, Turns
<1>2. /\ Head(io) \in Operation /\ Tail(io) \in Seq(Operation)
      /\ Len(io) >= 1 /\ Len(Tail(io)) = Len(io) - 1
  BY <1>1, QueueTypes
<1>3. Len(Tail(io)) = 0
  BY <1>1, <1>2, LenProperties
<1>4. Tail(io) = <<>>
  BY <1>2, <1>3, EmptySeq
<1>5. \A o : Append(<<>>, o) = <<o>> /\ <<o>> # <<>> /\ Head(<<o>>) = o
  BY SMT
<1> QED BY <1>2, <1>4, <1>5

LEMMA OnConnectedOwn ==
    ASSUME TypeOK, Turns, Armed, OwnResponse, Located, io # <<>>,
           Head(io).op \notin {"write", "read"}, NEW ec \in EC, OnConnected(ec),
           UNCHANGED <<started, body_left, parser, wire>>
    PROVE  Own'
<1>1. callback # 0 /\ current = started
  BY TurnCounts DEF Armed
<1>2. Quiet /\ Tail(io) = <<>>
  BY <1>1, OnlyOperation DEF Located, Asked
<1>3. CASE ec = "none"
  <2>1. /\ Write(<<>>, started, body_left)
        /\ UNCHANGED <<callback, completed, m_result>>
    BY <1>1, <1>2, <1>3 DEF OnConnected, content
  <2>2. io' # <<>> /\ (Asked' => Answer') /\ (~Asked' => Quiet')
    BY <1>2, <2>1, WriteLocated
  <2> QED BY <1>1, <2>1, <2>2 DEF Own, OwnResponse, Located
<1>4. CASE ec # "none"
  BY <1>1, <1>4, ErrorOwn DEF OnConnected, OnError
<1> QED BY <1>3, <1>4

LEMMA ConnectOwn ==
    ASSUME TypeOK, Turns, Own, Healthy, interims = 0, NEW ec \in EC, NEW k,
           ResolveHandler(ec, k) \/ ConnectHandler(ec) \/ HandshakeHandler(ec)
    PROVE  Own'
<1>1. /\ UNCHANGED <<started, body_left, parser, interims>>
      /\ io # <<>> /\ Head(io).op \notin {"write", "read"}
  BY DEF ResolveHandler, ConnectHandler, HandshakeHandler, Completing, manager, request
<1>2. Armed /\ callback # 0
  BY <1>1, TurnCounts DEF Turns, Posted, Ended
<1>3. OwnResponse /\ Located
  BY DEF Own
<1>4. CASE OnConnected(ec) /\ UNCHANGED <<socket, peer, wire>>
  BY <1>1, <1>2, <1>3, <1>4, OnConnectedOwn
<1>5. Quiet
  BY <1>1, <1>2, <1>3 DEF Located, Asked
<1>6. ASSUME NEW o, io' = Append(Tail(io), o), o.op \notin {"write", "read"},
             UNCHANGED <<callback, completed, m_result>>,
             wire' = <<>>, pending' = <<>>
      PROVE  Own'
  <2>1. io' # <<>> /\ Head(io') = o
    BY <1>1, <1>6, OnlyOperation
  <2>2. ~Asked' /\ Quiet'
    BY <1>1, <1>5, <1>6, <2>1 DEF Asked, Quiet
  <2> QED BY <1>2, <1>3, <1>6, <2>1, <2>2 DEF Own, OwnResponse, Located
<1>7. ASSUME NEW m, AsyncConnect(m) PROVE Own'
  <2>1. Connect(m).op = "connect"
    BY DEF Connect
  <2> QED BY <1>6, <1>7, <2>1 DEF AsyncConnect, content
<1>8. CASE AsyncHandshake /\ UNCHANGED <<socket, peer, wire>>
  <2>1. OnSocket("handshake").op = "handshake"
    BY DEF OnSocket
  <2> QED BY <1>5, <1>6, <1>8, <2>1 DEF AsyncHandshake, Quiet, content
<1> QED BY <1>4, <1>7, <1>8 DEF ResolveHandler, ConnectHandler, HandshakeHandler

LEMMA WriteHandlerOwn ==
    ASSUME TypeOK, Turns, Own, Healthy, interims = 0, NEW ec \in EC, WriteHandler(ec)
    PROVE  Own'
<1>1. /\ UNCHANGED <<started, current, parser, wire, interims>>
      /\ io # <<>> /\ Head(io).op = "write"
      /\ ec = "none" => UNCHANGED <<callback, completed, m_result>>
      /\ ec # "none" => CompleteRequest(ec, m_result, 0)
  BY DEF WriteHandler, Completing, manager, OnError, content
<1>2. Armed /\ callback # 0 /\ current = started
  BY <1>1, TurnCounts DEF Turns, Posted, Ended, Armed
<1>3. OwnResponse /\ Located
  BY DEF Own
<1>4. CASE ec # "none"
  BY <1>1, <1>2, <1>3, <1>4, ErrorOwn
<1>5. CASE ec = "none" /\ body_left = 0
  <2>1. io' = Append(Tail(io), OnSocket("read")) /\ UNCHANGED <<body_left, pending>>
    BY <1>5 DEF WriteHandler
  <2>2. io' # <<>> /\ Head(io').op = "read"
    <3>1. OnSocket("read").op = "read"
      BY DEF OnSocket
    <3>2. io' = <<OnSocket("read")>>
      BY <1>1, <2>1, OnlyOperation
    <3> HIDE DEF OnSocket
    <3> QED BY <3>1, <3>2, SMT
  <2>3. Answer /\ Asked'
    BY <1>1, <1>2, <1>3, <1>5, <2>1, <2>2 DEF Located, Asked
  <2>4. Answer'
    BY <1>1, <1>5, <2>1, <2>3 DEF Answer, Waiting, Sent, HalfRead, TailPart, Response
  <2> QED BY <1>1, <1>2, <1>3, <1>5, <2>2, <2>3, <2>4 DEF Own, OwnResponse, Located
<1>6. CASE ec = "none" /\ body_left # 0
  <2>1. /\ body_left' = body_left - 1
        /\ Write(<<>>, started, body_left - 1)
    BY <1>1, <1>2, <1>6, OnlyOperation DEF WriteHandler
  <2>2. Quiet
    BY <1>2, <1>3, <1>6 DEF Located, Asked
  <2>3. io' # <<>> /\ (Asked' => Answer') /\ (~Asked' => Quiet')
    BY <1>1, <1>6, <2>1, <2>2, WriteLocated
  <2> QED BY <1>1, <1>2, <1>3, <1>6, <2>3 DEF Own, OwnResponse, Located
<1> QED BY <1>4, <1>5, <1>6

\* The head a piece of the wire leaves in m_result.
LEMMA NoHead ==
    ASSUME NEW i, NEW j, NEW m, \A x \in i..j : wire[x].part # "head"
    PROVE  LastHead(i, j, m) = m
  BY DEF LastHead

LEMMA OneHead ==
    ASSUME NEW j \in Nat, j >= 1, NEW m, wire[1].part = "head",
           \A x \in 2..j : wire[x].part # "head"
    PROVE  LastHead(1, j, m) = wire[1].for
<1> DEFINE heads == {x \in 1..j : wire[x].part = "head"}
<1>1. heads = {1}
  BY SMT
<1>2. (CHOOSE x \in heads : \A y \in heads : y <= x) = 1
  BY <1>1
<1> QED BY <1>1, <1>2 DEF LastHead

\* The whole answer was read: the exchange is reported with it.
LEMMA AnswerRead ==
    ASSUME TypeOK, Turns, Armed, OwnResponse, UNCHANGED <<started, pending, interims>>,
           CompleteRequest("none", started, 0), pending = <<>>, wire' = <<>>,
           parser' # "message"
    PROVE  Own'
<1>1. OwnResponse' /\ callback' = 0 /\ m_result' = 0
  BY ReportsOwn
<1> QED BY <1>1 DEF Own, Located, Quiet

\* on_read with j parts of the answer.
LEMMA ReadDataOwn ==
    ASSUME TypeOK, Turns, Own, Healthy, interims = 0, NEW j \in 1..Len(wire), ReadData(j)
    PROVE  Own'
<1> DEFINE tails == {x \in 1..j : wire[x].part = "tail"}
           first == CHOOSE x \in tails : \A y \in tails : x <= y
<1>1. /\ UNCHANGED <<started, body_left, pending, interims>>
      /\ io # <<>> /\ Head(io).op = "read" /\ j \in DOMAIN wire
      /\ parser = IF wire[1].part = "head" THEN "start" ELSE "message"
      /\ tails = {} => /\ m_result' = LastHead(1, j, m_result)
                       /\ UNCHANGED <<callback, completed>>
                       /\ io' = Append(Tail(io), OnSocket("read"))
      /\ tails # {} => CompleteRequest("none", LastHead(1, first, m_result),
                                       LastHead(first + 1, j, 0))
      /\ wire[j].part = "tail" => parser' # "message"
      /\ tails = {} => parser' = IF wire[j].part = "tail" THEN "start" ELSE "message"
      /\ wire' = SubSeq(wire, j + 1, Len(wire))
  BY DEF ReadData, Completing, manager, request, ReadOn
<1>2. Armed /\ callback # 0
  BY <1>1, TurnCounts DEF Turns, Posted, Ended, Armed
<1>3. OwnResponse /\ Located /\ wire # <<>>
  BY <1>1 DEF Own
<1>4. pending = <<>> /\ body_left = 0 /\ (Sent \/ HalfRead)
  BY <1>1, <1>2, <1>3 DEF Located, Quiet, Asked, Answer, Waiting, Sent, HalfRead
<1>5. CASE Sent
  <2>1. PICK close \in BOOLEAN : wire = Response(started, close)
    BY <1>5 DEF Sent
  <2>2. /\ wire = <<[for |-> started, part |-> "head", close |-> close], TailPart(close)>>
        /\ m_result = 0
    BY <1>5, <2>1 DEF Response, TailPart, Sent
  <2>3. /\ Len(wire) = 2 /\ wire[1].part = "head" /\ wire[1].for = started
        /\ wire[2] = TailPart(close) /\ wire[2].part = "tail"
    BY <2>2, SMT DEF TailPart
  <2>4. CASE j = 1
    <3>1. tails = {}
      BY <2>3, <2>4
    <3>2. LastHead(1, 1, m_result) = started
      BY <2>3, OneHead
    <3>3. wire' = <<TailPart(close)>>
      <4>1. wire' = SubSeq(wire, 2, 2) /\ wire \in Seq(Part)
        BY <1>1, <2>3, <2>4 DEF TypeOK
      <4>2. SubSeq(wire, 2, 2) = [i \in 1..1 |-> wire[i + 1]]
        BY <4>1, <2>3, SubSeqProperties
      <4>3. <<wire[2]>> = [i \in 1..1 |-> wire[i + 1]]
        BY SMT
      <4> QED BY <2>3, <4>1, <4>2, <4>3
    <3>4. io' # <<>> /\ Head(io').op = "read"
      <4>1. OnSocket("read").op = "read"
        BY DEF OnSocket
      <4>2. io' = <<OnSocket("read")>>
        BY <1>1, <3>1, OnlyOperation
      <4> HIDE DEF OnSocket
      <4> QED BY <4>1, <4>2, SMT
    <3>5. m_result' = started /\ parser' = "message" /\ UNCHANGED <<callback, completed>>
      BY <1>1, <2>3, <2>4, <3>1, <3>2
    <3>6. HalfRead'
      <4> HIDE DEF tails
      <4> QED BY <1>1, <1>4, <3>3, <3>5 DEF HalfRead, TailPart
    <3>7. Asked'
      BY <1>1, <1>4, <3>4 DEF Asked
    <3> QED BY <1>2, <1>3, <3>4, <3>5, <3>6, <3>7 DEF Own, OwnResponse, Located, Answer
  <2>5. CASE j = 2
    <3>1. tails = {2}
      BY <2>3, <2>5, SMT
    <3>2. first = 2
      BY <3>1
    <3>3. LastHead(1, 2, m_result) = started
      BY <2>3, OneHead
    <3>4. LastHead(3, 2, 0) = 0
      BY NoHead
    <3>5. CompleteRequest("none", started, 0)
      BY <1>1, <2>5, <3>1, <3>2, <3>3, <3>4
    <3>6. wire' = <<>>
      BY <1>1, <2>3, <2>5, SMT
    <3> HIDE DEF tails, first
    <3> QED BY <1>1, <1>2, <1>3, <1>4, <2>3, <2>5, <3>5, <3>6, AnswerRead
  <2> QED BY <2>3, <2>4, <2>5
<1>6. CASE HalfRead
  <2>1. PICK close \in BOOLEAN : wire = <<TailPart(close)>>
    BY <1>3, <1>6 DEF HalfRead
  <2>2. Len(wire) = 1 /\ wire[1].part = "tail" /\ m_result = started /\ j = 1
    BY <1>6, <2>1, SMT DEF TailPart, HalfRead
  <2>3. tails = {1}
    BY <2>2, SMT
  <2>4. first = 1
    BY <2>3
  <2>5. LastHead(1, 1, m_result) = started
    BY <2>2, NoHead
  <2>6. LastHead(2, 1, 0) = 0
    BY NoHead
  <2>7. CompleteRequest("none", started, 0)
    BY <1>1, <2>2, <2>3, <2>4, <2>5, <2>6
  <2>8. wire' = <<>>
    BY <1>1, <2>2, SMT
  <2> HIDE DEF tails, first
  <2> QED BY <1>1, <1>2, <1>3, <1>4, <2>2, <2>7, <2>8, AnswerRead
<1> QED BY <1>4, <1>5, <1>6

LEMMA ReadOwn ==
    ASSUME TypeOK, Turns, Own, Healthy, interims = 0,
           (\E ec \in EC : ReadError(ec)) \/ ReadRefused
    PROVE  Own'
<1>1. io # <<>>
  BY DEF ReadError, ReadRefused, Completing
<1>2. Armed /\ callback # 0 /\ m_state = "in_progress"
  BY <1>1, TurnCounts DEF Turns, Posted, Ended, Armed
<1>3. OwnResponse /\ Located
  BY DEF Own
<1>4. CASE ReadRefused
  BY <1>2, <1>3, <1>4, ErrorOwn DEF ReadRefused, OnError
<1>5. ASSUME NEW ec \in EC, ReadError(ec) PROVE Own'
  <2>1. ec \in Errors(Head(io)) /\ CompleteRequest(ec, m_result, 0)
    BY <1>2, <1>5 DEF ReadError, OnError
  <2>2. ec # "none"
    BY <1>1, <2>1, OnlyOperation, OutcomeTypes DEF NetworkError
  <2> QED BY <1>2, <1>3, <2>1, <2>2, ErrorOwn
<1> QED BY <1>4, <1>5

LEMMA ServerOwn ==
    ASSUME TypeOK, Turns, Own, Healthy, interims = 0, ServerStep
    PROVE  Own'
<1>1. UNCHANGED <<started, callback, completed, m_result, body_left, parser, io>>
  BY DEF ServerStep, ServerInterim, ServerResponds, ServerCloses, manager, content, request
<1>2. OwnResponse /\ Located
  BY DEF Own
<1>3. CASE ServerInterim
  BY <1>3 DEF ServerInterim, Own
<1>4. ASSUME NEW close \in BOOLEAN, ServerResponds(close) PROVE Own'
  <2>1. /\ pending # <<>> /\ wire' = wire \o Response(Head(pending), close)
        /\ pending' \in {<<>>, Tail(pending)} /\ UNCHANGED interims
    BY <1>4 DEF ServerResponds
  <2>2. callback # 0 /\ io # <<>> /\ Asked /\ pending = <<started>> /\ Waiting
    BY <1>2, <2>1 DEF Located, Quiet, Answer, Waiting, Sent, HalfRead
  <2>3. Head(<<started>>) = started /\ Tail(<<started>>) = <<>>
    BY SMT
  <2>4. <<>> \o Response(started, close) = Response(started, close)
    BY SMT DEF Response
  <2>5. Sent'
    BY <1>1, <2>1, <2>2, <2>3, <2>4 DEF Sent, Waiting, Response
  <2> QED BY <1>1, <1>2, <2>2, <2>5 DEF Own, OwnResponse, Located, Asked, Answer
<1>5. CASE ServerCloses
  <2>1. pending' = <<>> /\ UNCHANGED <<wire, interims>>
    BY <1>5 DEF ServerCloses
  <2> QED BY <1>1, <1>2, <2>1 DEF Own, OwnResponse, Located, Quiet, Asked, Answer, Waiting,
                                 Sent, HalfRead, TailPart, Response
<1> QED BY <1>3, <1>4, <1>5 DEF ServerStep

LEMMA NextOwn == ASSUME TypeOK, Turns, Own, [Next]_vars PROVE Own'
<1>1. CASE interims' # 0
  BY <1>1 DEF Own
<1>2. CASE interims' = 0
  <2>1. interims = 0
    <3>1. CASE ServerInterim
      BY <1>2, <3>1, StackBounds DEF ServerInterim, TypeOK
    <3>2. CASE TransportStep
      BY <1>2, <3>2, TransportEffect DEF Effect
    <3>3. CASE ~ServerInterim /\ ~TransportStep
      BY <1>2, <3>3
         DEF Next, ManagerStep, StrandStep, ServerStep, ManagerStart, ManagerCancel,
             ManagerCompletion, StackStart, StackCancel, TimerExpires, TimerHandler,
             ServerResponds, ServerCloses, server, vars
    <3> QED BY <3>1, <3>2, <3>3
  <2>2. CASE ~Healthy
    <3>1. UNCHANGED completed
      BY <2>2, FailedIsSilent
    <3> QED BY <2>1, <2>2, <3>1 DEF Own, OwnResponse, Healthy
  <2>3. CASE Healthy
    <3>1. CASE UNCHANGED vars
      BY <3>1, SameOwn DEF vars, manager, content, request, server
    <3>2. CASE TransportStep
      BY <2>1, <2>3, <3>2, ConnectOwn, WriteHandlerOwn, ReadOwn, ReadDataOwn DEF TransportStep
    <3> QED BY <2>1, <2>3, <3>1, <3>2, ManagerOwn, StackStartOwn, StackCancelOwn,
               TimerHandlerOwn, ServerOwn DEF Next, StrandStep
  <2> QED BY <2>2, <2>3
<1> QED BY <1>1, <1>2

\* As long as the server sends one response to each request, what an exchange
\* reports is the answer to its own request, or after an error the head of it
\* or nothing: m_result, the parser and the connection are handed from one
\* exchange to the next without a trace of the earlier one, and a stack with
\* such a trace reports nothing any more.
THEOREM ResponseCorrect == Spec => []ResponseMatches
<1>1. Init => Own
  <2> SUFFICES ASSUME Init PROVE Own
    OBVIOUS
  <2>1. DOMAIN <<>> = {}
    BY SMT
  <2> QED BY <2>1 DEF Init, Own, OwnResponse, Located, Quiet
<1>2. TypeOK /\ Turns /\ Own /\ [Next]_vars => Own'
  BY NextOwn
<1>3. Own => ResponseMatches
  BY DEF Own, ResponseMatches
<1> QED BY <1>1, <1>2, <1>3, TypesAndTurns, PTL DEF Spec
=============================================================================
