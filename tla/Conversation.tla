---------------------------- MODULE Conversation ----------------------------
(***************************************************************************)
(* What a dialogue with the skill promises, whatever tables the worker     *)
(* holds and however it keeps its sessions: every address at which stations *)
(* call is in one mode, requests to it alone change that, and a mode can be *)
(* left only the way the worker's questions announce.                       *)
(***************************************************************************)
CONSTANT Addresses

VARIABLE mode

Modes == {"idle", "direction", "again", "facts"}

(* After "which direction?" the speaker stays with the question, hears the  *)
(* answer and is asked whether to go on, or is dismissed; and so on.       *)
Follows(m) == CASE m = "idle" -> {"idle", "direction", "facts"}
                [] m = "direction" -> {"direction", "again", "idle"}
                [] m = "again" -> {"direction", "idle"}
                [] m = "facts" -> {"facts", "idle"}

Init == mode = [a \in Addresses |-> "idle"]

Turn(a) == \E m \in Follows(mode[a]) : mode' = [mode EXCEPT ![a] = m]

Next == \E a \in Addresses : Turn(a)

Spec == Init /\ [][Next]_mode
=============================================================================
