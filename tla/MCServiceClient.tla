-------------------------- MODULE MCServiceClient --------------------------
(* ServiceClient with three calls at a time: two make the circuit open, and *)
(* one more is under way all along.                                         *)
EXTENDS ServiceClient

CONSTANTS c1, c2, c3

ThreeCalls == {c1, c2, c3}
=============================================================================
