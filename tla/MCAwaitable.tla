---------------------------- MODULE MCAwaitable ----------------------------
(* Instances of Awaitable for TLC.                                          *)
EXTENDS Awaitable

CONSTANTS x1, x2, x3, c1, c2

ThreeRequests == {x1, x2, x3}
TwoRequests == {x1, x2}
TwoCoroutines == {c1, c2}
OneCoroutine == {c1}
=============================================================================
