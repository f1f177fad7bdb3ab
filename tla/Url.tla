-------------------------------- MODULE Url --------------------------------
(* The class url (interface/asio_http/url.h, implementation/url.cpp): what  *)
(* its constructor makes of a string, and the string it prints.             *)
(*                                                                          *)
(* A string is a sequence of characters and of words that the regular       *)
(* expression treats as one character of a host name.                       *)
EXTENDS Integers, Sequences, FiniteSetsExt

CONSTANTS
    DEFAULT_PORT_HTTP,   \* stands for 80
    DEFAULT_PORT_HTTPS,  \* stands for 443
    MaxPort,             \* the largest uint16_t
    HostWord,            \* the characters of a host name that are no digits, and
                         \* words of them
    OtherChar            \* the characters that only a path or a query has

ASSUME UrlConstants ==
    /\ MaxPort \in Nat
    /\ {DEFAULT_PORT_HTTP, DEFAULT_PORT_HTTPS} \subseteq 1..MaxPort
    /\ {"http", "https"} \subseteq HostWord
    /\ HostWord \cap {":", "/", "?"} = {}

PROTOCOL_HTTP == <<"http">>
PROTOCOL_HTTPS == <<"https">>

Decimals == <<"0", "1", "2", "3", "4", "5", "6", "7", "8", "9">>
IsDecimal(c) == \E i \in DOMAIN Decimals : Decimals[i] = c
IsHostChar(c) == c \in HostWord \/ IsDecimal(c)

DigitValue(c) == (CHOOSE i \in 1..10 : Decimals[i] = c) - 1

\* The number that decimal digits stand for, and the digits of a number.
Number(digits) ==
    LET value[n \in 0..Len(digits)] ==
            IF n = 0 THEN 0 ELSE 10 * value[n - 1] + DigitValue(digits[n])
    IN  value[Len(digits)]
Printed[n \in Nat] ==
    IF n < 10 THEN <<Decimals[n + 1]>>
    ELSE Append(Printed[n \div 10], Decimals[(n % 10) + 1])

-----------------------------------------------------------------------------
(* The regular expression.                                                   *)

Char == HostWord \cup OtherChar \cup {":", "/", "?"} \cup {Decimals[i] : i \in 1..10}
Text == Seq(Char)

\* How many characters of s precede the first of stops.
Before(s, stops) ==
    CHOOSE n \in 0..Len(s) :
        /\ \A k \in 1..n : s[k] \notin stops
        /\ n < Len(s) => s[n + 1] \in stops

\* The groups 3, 4, 6 and 7.  The host has none of the characters that the others
\* begin with, the port neither "/" nor "?", the path no "?".
HostPart(s) == SubSeq(s, 1, Before(s, {":", "/", "?"}))
PortPart(s) == SubSeq(s, Before(s, {":", "/", "?"}) + 1, Before(s, {"/", "?"}))
PathPart(s) == SubSeq(s, Before(s, {"/", "?"}) + 1, Before(s, {"?"}))
QueryPart(s) == SubSeq(s, Before(s, {"?"}) + 1, Len(s))

Matches[s \in Text] ==
    /\ Before(s, {":", "/", "?"}) > 0
    /\ \A i \in DOMAIN HostPart(s) : IsHostChar(s[i])
    /\ PortPart(s) # <<>> =>
           Len(PortPart(s)) > 1 /\ \A i \in DOMAIN Tail(PortPart(s)) : IsDecimal(Tail(PortPart(s))[i])

\* Where "://" begins, with a protocol before it and a match behind it.
SchemeEnds(s) ==
    {i \in 2..(Len(s) - 3) :
        /\ SubSeq(s, i, i + 2) = <<":", "/", "/">>
        /\ Matches[SubSeq(s, i + 3, Len(s))]}

\* The first group is greedy: it takes as much as it can, and is absent only if
\* nothing matches with it.
Scheme[s \in Text] ==
    IF SchemeEnds(s) = {} THEN 0 ELSE Max(SchemeEnds(s))

NoUrl == [protocol |-> <<>>, host |-> <<>>, port |-> 0, path |-> <<>>, query |-> <<>>]

\* Mutant of DefaultPort: https gets the port of http.
DefaultPortSame(protocol) ==
    IF protocol \in {PROTOCOL_HTTP, PROTOCOL_HTTPS} THEN DEFAULT_PORT_HTTP ELSE 0

DefaultPort(protocol) ==
    CASE protocol = PROTOCOL_HTTP -> DEFAULT_PORT_HTTP
      [] protocol = PROTOCOL_HTTPS -> DEFAULT_PORT_HTTPS
      [] OTHER -> 0

\* lexical_cast<uint16_t> throws otherwise.
InRange(port) == port <= MaxPort

\* The components of a url whose string goes on with rest behind the protocol;
\* NoUrl stands for an exception.
Components(protocol, rest) ==
    LET port == IF PortPart(rest) = <<>> THEN DefaultPort(protocol)
                ELSE Number(Tail(PortPart(rest)))
    IN  IF ~Matches[rest] \/ ~InRange(port)
        THEN NoUrl
        ELSE [protocol |-> protocol, host |-> HostPart(rest), port |-> port,
              path |-> IF PathPart(rest) = <<>> THEN <<"/">> ELSE PathPart(rest),
              query |-> QueryPart(rest)]

get_url_components[s \in Text] ==
    IF Scheme[s] = 0 THEN Components(PROTOCOL_HTTP, s)
    ELSE Components(SubSeq(s, 1, Scheme[s] - 1), SubSeq(s, Scheme[s] + 3, Len(s)))

\* Mutant of ShowsPort: no protocol shows the port of http.
ShowsPortExceptHttp(u) == u.port \notin {0, DEFAULT_PORT_HTTP}

ShowsPort(u) == u.port # 0 /\ u.port # DefaultPort(u.protocol)

\* The string without a port that is the default one.
to_string(u) ==
    u.protocol \o <<":", "/", "/">> \o u.host
    \o (IF ShowsPort(u) THEN <<":">> \o Printed[u.port] ELSE <<>>)
    \o u.path \o u.query
=============================================================================
