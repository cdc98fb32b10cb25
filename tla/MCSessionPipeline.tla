------------------------- MODULE MCSessionPipeline --------------------------
(* Instances of SessionPipeline for TLC.                                   *)
EXTENDS SessionPipeline

CONSTANTS c1, c2, c3, k1, b1, b2

\* All calls are for one session.
OneKey   == [c \in Calls |-> k1]

AllBills == [c \in Calls |-> Bills]

\* c1 has both bills, c2 and c3 one each.
MixedBills == [c \in Calls |-> CASE c = c1 -> Bills [] c = c2 -> {b1} [] c = c3 -> {b2}]
=============================================================================
