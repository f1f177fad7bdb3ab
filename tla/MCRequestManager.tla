-------------------------- MODULE MCRequestManager --------------------------
(* Instances of RequestManager for TLC.                                     *)
EXTENDS RequestManager, TLC

CONSTANTS r1, r2, r3, c1, c2, c3, c4, c5, h1, h2

ThreeRequests == {r1, r2, r3}
TwoRequests == {r1, r2}
TwoConns == {c1, c2}
ThreeConns == {c1, c2, c3}
FourConns == {c1, c2, c3, c4}
FiveConns == {c1, c2, c3, c4, c5}
OneHost == {h1}
TwoHosts == {h1, h2}
BadRedirection == {h1, BadUrl}

\* Requests and stacks are interchangeable where no liveness is checked.
StackSymmetry == Permutations(Conn)
Symmetry == Permutations(Request) \cup Permutations(Conn)
=============================================================================
