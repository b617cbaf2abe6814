--------------------------- MODULE MCWorkerSession ---------------------------
(* Instances of WorkerSession for TLC: one session, two stations. *)
EXTENDS WorkerSession

CONSTANTS s1, here, there

OneSession == {s1}
TwoStations == {here, there}
AnyRefusal == {"refusal"}
NoRefusal == {}
=============================================================================
