---------------------------- MODULE MCWorkerLink ----------------------------
(* An instance of WorkerLink for TLC. *)
EXTENDS WorkerLink

CONSTANTS q1, q2

TwoRequests == {q1, q2}
=============================================================================
