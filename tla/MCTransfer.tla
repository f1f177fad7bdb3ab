----------------------------- MODULE MCTransfer -----------------------------
(* Requests and answers for Transfer: every combination of the parts of a    *)
(* url with no body, one url with bodies at and about the block sizes, and   *)
(* one with every answer.                                                    *)
EXTENDS Transfer

Scheme3 == <<":", "/", "/">>
Parts == [protocol : {<<>>, <<"http">> \o Scheme3, <<"https">> \o Scheme3, <<"x">> \o Scheme3},
          host : {<<"h">>, <<"h", "8">>},
          port : {<<>>, <<":", "0">>, <<":", "8">>, <<":", "0", "9">>, <<":", "1", "0", "0">>},
          path : {<<>>, <<"/">>, <<"/", "%", "/", ":">>, <<"/", "h">> \o Scheme3 \o <<"h">>},
          query : {<<>>, <<"?">>, <<"?", "/", "?", ":", "8">>}]
OneUrl == [protocol |-> <<>>, host |-> <<"h">>, port |-> <<>>, path |-> <<>>, query |-> <<>>]

\* The body as it is (or in an encoding the client does not know), or compressed
\* to packed bytes, of which sent are sent.
PlainAnswers ==
    {a \in [encoding : {"none", "br"}, size : 0..4, packed : 0..4, sent : 0..4, intact : {TRUE}] :
        a.sent = a.packed /\ a.size = a.packed}
PackedAnswers ==
    {a \in [encoding : {"gzip", "deflate"}, size : {0, 2, 3, 9}, packed : {1, 2, 4},
            sent : 0..4, intact : BOOLEAN] : a.sent <= a.packed}

\* One that is gunzipped in two blocks.
OneAnswer == [encoding |-> "gzip", size |-> 3, packed |-> 2, sent |-> 2, intact |-> TRUE]

MCRequests ==
    [parts : Parts, post : {0}, policy : {"never"}, answers : {{OneAnswer}}]
    \cup [parts : {OneUrl}, post : 0..5, policy : {"never", "when_better", "always"},
          answers : {{OneAnswer}}]
    \cup [parts : {OneUrl}, post : {0, 3}, policy : {"when_better"},
          answers : {PlainAnswers \cup PackedAnswers}]
=============================================================================
