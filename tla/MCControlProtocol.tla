------------------------- MODULE MCControlProtocol -------------------------
(* Model-checking instance of ControlProtocol: a session, and a client that *)
(* connects meanwhile.                                                      *)
EXTENDS ControlProtocol

CONSTANTS c1, c2

Runs == {c1, c2}
Sessions == [c \in Runs |-> IF c = c1 THEN 4 ELSE 1]
============================================================================
