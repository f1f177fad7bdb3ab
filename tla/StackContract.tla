--------------------------- MODULE StackContract ---------------------------
(* What a protocol stack promises to the request manager, through the       *)
(* functions of http_stack_interface (http_content.h:38-48): every exchange *)
(* that is started is completed, once, and is reported as aborted only by a *)
(* cancel, whatever server and network do.  RequestManager uses stacks in   *)
(* exactly this way (StackStart, StackComplete and StackCancel there);      *)
(* HttpStack implements it.                                                 *)
EXTENDS Naturals, Sequences, FiniteSets

CONSTANTS MaxExchanges, MaxCancels

VARIABLES
    started,    \* exchanges the manager has started
    handled,    \* completions the manager has processed
    cancels,    \* exchanges for which cancel_async was called
    strand,     \* start and cancel handlers posted to the stack
    callback,   \* the exchange whose completion callback is armed, or 0
    completed   \* the completions reported

vars == <<started, handled, cancels, strand, callback, completed>>

StackError == {"none", "eof", "failed", "timed_out"}

Init ==
    /\ started = 0 /\ handled = 0 /\ cancels = {}
    /\ strand = <<>>
    /\ callback = 0
    /\ completed = <<>>

\* start_async on a new or pooled stack.
StartAsync ==
    /\ handled = started
    /\ \A i \in DOMAIN completed : completed[i].ec = "none"
    /\ started < MaxExchanges
    /\ started' = started + 1
    /\ strand' = Append(strand, "start")
    /\ UNCHANGED <<handled, cancels, callback, completed>>

\* cancel_async on a stack in use.
CancelAsync ==
    /\ handled < started
    /\ Cardinality({i \in DOMAIN strand : strand[i] = "cancel"}) < MaxCancels
    /\ cancels' = cancels \cup {started}
    /\ strand' = Append(strand, "cancel")
    /\ UNCHANGED <<started, handled, callback, completed>>

\* The manager processes a completion.
Handle ==
    /\ handled < Len(completed)
    /\ handled' = handled + 1
    /\ UNCHANGED <<started, cancels, strand, callback, completed>>

Start ==
    /\ strand # <<>> /\ Head(strand) = "start"
    /\ strand' = Tail(strand)
    /\ callback = 0
    /\ callback' = started
    /\ UNCHANGED <<started, handled, cancels, completed>>

\* The armed exchange is reported.
Report(ec) ==
    /\ callback # 0
    /\ completed' = Append(completed, [exchange |-> callback, ec |-> ec])
    /\ callback' = 0

Complete ==
    /\ \E ec \in StackError : Report(ec)
    /\ UNCHANGED <<started, handled, cancels, strand>>

Cancel ==
    /\ strand # <<>> /\ Head(strand) = "cancel"
    /\ strand' = Tail(strand)
    /\ \/ Report("operation_aborted")
       \/ callback = 0 /\ UNCHANGED <<callback, completed>>
    /\ UNCHANGED <<started, handled, cancels>>

StackStep == Start \/ Complete \/ Cancel

Next == StartAsync \/ CancelAsync \/ Handle \/ StackStep

Spec == Init /\ [][Next]_vars /\ WF_vars(StackStep) /\ WF_vars(Handle)
=============================================================================
