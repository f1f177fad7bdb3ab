----------------------------- MODULE MCTuplePtr -----------------------------
(* TuplePtr for TLC: a stack of four layers, as create_stack makes it.      *)
EXTENDS TuplePtr

CONSTANTS t1, t2, t3, r1, r2, r3, r4

Threads == {t1, t2, t3}
Refs == {r1, r2, r3, r4}
Layers == 1..4
=============================================================================
