----------------------------- MODULE MCFrontend -----------------------------
(* Instances of Frontend for TLC. *)
EXTENDS Frontend

CONSTANTS c1, c2, w1, w2

TwoConns == {c1, c2}
TwoWorkers == {w1, w2}
=============================================================================
