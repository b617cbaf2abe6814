------------------------------ MODULE Frontend ------------------------------
(***************************************************************************)
(* The HTTPS server of MainServer (Modules/HTTPSServer): the Listener with *)
(* its pool of sessions and its sweep timer, and one Session per station   *)
(* that connects.  The worker server it asks is a WorkerPool.              *)
(*                                                                         *)
(* A session has one asynchronous operation at a time; its completion and  *)
(* the handler that runs then are one action, named for the handler.  The  *)
(* station is the environment: it may fail any operation or let it run     *)
(* into the timeout of the stream, which fails it too.                     *)
(***************************************************************************)
EXTENDS Naturals, Sequences, SequencesExt

CONSTANTS Conns,        \* the sessions the run may create, one request each
          NoConn,       \* the empty callback of a worker session
          Sess,         \* the worker's sessions
          ReconnectMax  \* __RECONNECT_MAX

ASSUME FrontendAssumption == NoConn \notin Conns /\ ReconnectMax \in Nat

VARIABLES sessions,     \* __sessions of the Listener
          conn,         \* the state of every Session object
          listening,    \* an accept is pending
          process,      \* "runs", "ended", or "undefined" after a use of freed memory
          mixed,        \* history: worker sessions asked while they owed an answer
          pool, made, live, cb, owed, got       \* the worker server

workers == <<pool, made, live, cb, owed, got>>
vars == <<sessions, conn, listening, process, mixed, workers>>

W == INSTANCE WorkerPool WITH Stations <- Conns, NoStation <- NoConn

-----------------------------------------------------------------------------
(* A session.  One that has been swept is kept by the handler of its       *)
(* pending operation; without one it is freed.                             *)
Operations == {"none", "run", "handshake", "read", "write", "shutdown"}

Session ==
    [ op    : Operations,           \* the operation that is pending
      known : BOOLEAN,              \* the object has been made
      live  : BOOLEAN,              \* __is_live
      tries : 0..ReconnectMax,      \* __reconnect_count
      keep  : BOOLEAN,              \* keep_alive of __req or of the response
      early : BOOLEAN,              \* history: swept before its handshake was over
      asked : SUBSET Sess,          \* history: the worker that was given its request
      sent  : Nat ]                 \* history: the responses begun

NewSession == [op |-> "none", known |-> FALSE, live |-> FALSE, tries |-> 0,
               keep |-> TRUE, early |-> FALSE, asked |-> {}, sent |-> 0]

Allocated(h) == h \in Range(sessions) \/ conn[h].op # "none"

Init ==
    /\ sessions = <<>>
    /\ conn = [h \in Conns |-> NewSession]
    /\ listening = TRUE
    /\ process = "runs"
    /\ mixed = {}
    /\ W!Init

Update(h, r) == conn' = [conn EXCEPT ![h] = r]
Pending(h, op) == process = "runs" /\ conn[h].op = op

(* Listener::__onAccept: an error ends the listening, no accept follows. *)
OnAccept(h) ==
    /\ process = "runs" /\ listening /\ ~ conn[h].known
    /\ sessions' = Append(sessions, h)
    /\ Update(h, [conn[h] EXCEPT !.known = TRUE, !.op = "run"])
    /\ UNCHANGED <<listening, process, mixed, workers>>

OnAcceptFailed ==
    /\ process = "runs" /\ listening
    /\ listening' = FALSE
    /\ UNCHANGED <<sessions, conn, process, mixed, workers>>

(* Mutant of KillSession: the oldest session is erased, live or not. *)
KillSessionAny ==
    /\ process = "runs" /\ sessions # <<>>
    /\ sessions' = Tail(sessions)
    /\ UNCHANGED <<conn, listening, process, mixed, workers>>

(* Listener::__killSession: one session is erased, the timer is set again. *)
KillSession ==
    /\ process = "runs"
    /\ \E i \in DOMAIN sessions :
        LET h == sessions[i]
        IN  /\ ~ conn[h].live
            /\ \A j \in 1..(i - 1) : conn[sessions[j]].live
            /\ sessions' = RemoveAt(sessions, i)
            /\ Update(h, [conn[h] EXCEPT !.early = @ \/ conn[h].op \in {"run", "handshake"}])
    /\ UNCHANGED <<listening, process, mixed, workers>>

OnRun(h) ==
    /\ Pending(h, "run")
    /\ Update(h, [conn[h] EXCEPT !.op = "handshake"])
    /\ UNCHANGED <<sessions, listening, process, mixed, workers>>

(* Mutant of OnHandshake: the session is not marked live. *)
OnHandshakeNotLive(h) ==
    /\ Pending(h, "handshake")
    /\ Update(h, [conn[h] EXCEPT !.op = "read"])
    /\ UNCHANGED <<sessions, listening, process, mixed, workers>>

OnHandshake(h) ==
    /\ Pending(h, "handshake")
    /\ Update(h, [conn[h] EXCEPT !.live = TRUE, !.op = "read"])
    /\ UNCHANGED <<sessions, listening, process, mixed, workers>>

(* Mutant of OnHandshakeFailed: one attempt too many. *)
OnHandshakeFailedOnce(h) ==
    /\ Pending(h, "handshake")
    /\ conn[h].tries <= ReconnectMax
    /\ Update(h, [conn[h] EXCEPT !.tries = @ + 1])
    /\ UNCHANGED <<sessions, listening, process, mixed, workers>>

(* The certificate is loaded again; a file that cannot be read throws an   *)
(* exception that leaves io_context::run.                                  *)
OnHandshakeFailed(h) ==
    /\ Pending(h, "handshake")
    /\ \/ /\ process' = "ended"
          /\ UNCHANGED conn
       \/ /\ conn[h].tries < ReconnectMax
          /\ Update(h, [conn[h] EXCEPT !.tries = @ + 1])
          /\ UNCHANGED process
       \/ /\ conn[h].tries = ReconnectMax
          /\ Update(h, [conn[h] EXCEPT !.live = FALSE, !.op = "none"])
          /\ UNCHANGED process
    /\ UNCHANGED <<sessions, listening, mixed, workers>>

SendResponse(r, keep) == [r EXCEPT !.op = "write", !.keep = keep, !.sent = @ + 1]
DoClose(r) == [r EXCEPT !.live = FALSE, !.op = "shutdown"]
GiveUp(r) == [r EXCEPT !.live = FALSE, !.op = "none", !.keep = TRUE]

(* Session::__onRead without a request to analyse. *)
OnReadFailed(h) ==
    /\ Pending(h, "read")
    /\ \/ Update(h, DoClose(conn[h]))           \* end_of_stream
       \/ Update(h, GiveUp(conn[h]))
    /\ UNCHANGED <<sessions, listening, process, mixed, workers>>

(* Mutant of OnReadOther: OPTIONS does not return, a worker is asked too. *)
OnReadOtherFallsThrough(h) ==
    /\ Pending(h, "read")
    /\ Update(h, SendResponse(conn[h], TRUE))
    /\ \E s \in Range(pool) : W!StartCommand(s, h)
    /\ UNCHANGED <<sessions, listening, process, mixed>>

(* __analizeRequest for a method other than POST. *)
OnReadOther(h) ==
    /\ Pending(h, "read")
    /\ \/ Update(h, SendResponse([conn[h] EXCEPT !.live = FALSE], FALSE))   \* __badRequest
       \/ Update(h, SendResponse(conn[h], TRUE))                            \* OPTIONS
    /\ UNCHANGED <<sessions, listening, process, mixed, workers>>

(* __analizeRequest for a POST: the first worker of the pool with memory   *)
(* left, whichever that is; past the last one at() throws.  The search for *)
(* the worker that has the station already never ends it (==).  Without a  *)
(* worker the code calls __callbackWorkerMarussia itself, with a value in  *)
(* which at("response") throws: what was prepared is not sent.             *)
OnReadPost(h) ==
    /\ Pending(h, "read")
    /\ \E keep \in BOOLEAN, pos \in 1..(Len(pool) + 1) :
        LET r == [conn[h] EXCEPT !.op = "none", !.keep = keep]
        IN  IF pos > Len(pool)
            THEN /\ Update(h, r)
                 /\ UNCHANGED <<mixed, workers>>
            ELSE /\ Update(h, [r EXCEPT !.asked = {pool[pos]}])
                 /\ mixed' = IF owed[pool[pos]] = {} THEN mixed ELSE mixed \cup {pool[pos]}
                 /\ W!StartCommand(pool[pos], h)
    /\ UNCHANGED <<sessions, listening, process>>

(* __callbackWorkerMarussia for the answer of a worker session, which keeps *)
(* a plain pointer.  A second write on top of a first one, or a session     *)
(* that is freed, is undefined.                                            *)
Callback(s, st) ==
    LET h == cb[s]
    IN  /\ process = "runs"
        /\ W!Reply(s, st)
        /\ IF Allocated(h) /\ conn[h].op = "none"
           THEN Update(h, SendResponse(conn[h], conn[h].keep)) /\ UNCHANGED process
           ELSE process' = "undefined" /\ UNCHANGED conn
        /\ UNCHANGED <<sessions, listening, mixed>>

(* Mutant of OnWrite: a connection that is kept alive stays live. *)
OnWriteStaysLive(h) ==
    /\ Pending(h, "write")
    /\ \/ Update(h, GiveUp(conn[h]))
       \/ ~ conn[h].keep /\ Update(h, DoClose(conn[h]))
       \/ conn[h].keep /\ Update(h, [conn[h] EXCEPT !.op = "none"])
    /\ UNCHANGED <<sessions, listening, process, mixed, workers>>

OnWrite(h) ==
    /\ Pending(h, "write")
    /\ \/ Update(h, GiveUp(conn[h]))            \* an error
       \/ ~ conn[h].keep /\ Update(h, DoClose(conn[h]))
       \/ conn[h].keep /\ Update(h, GiveUp(conn[h]))
    /\ UNCHANGED <<sessions, listening, process, mixed, workers>>

OnShutdown(h) ==
    /\ Pending(h, "shutdown")
    /\ Update(h, GiveUp(conn[h]))
    /\ UNCHANGED <<sessions, listening, process, mixed, workers>>

(* The worker server goes on as it likes. *)
WorkerServer ==
    /\ process = "runs"
    /\ \/ W!Sweep
       \/ \E s \in Sess : W!Accept(s) \/ \E up \in BOOLEAN : W!Turn(s, up)
    /\ UNCHANGED <<sessions, conn, listening, process, mixed>>

RunHandler(h) ==
    \/ OnRun(h) \/ OnHandshake(h) \/ OnHandshakeFailed(h)
    \/ OnReadFailed(h) \/ OnReadOther(h) \/ OnReadPost(h)
    \/ OnWrite(h) \/ OnShutdown(h)

Next ==
    \/ OnAcceptFailed \/ KillSession \/ WorkerServer
    \/ \E h \in Conns : OnAccept(h) \/ RunHandler(h)
    \/ \E s \in Sess, h \in Conns : Callback(s, h)

Spec == Init /\ [][Next]_vars

(* Every operation of a session ends, by the 30 seconds of its stream at    *)
(* the latest, and the sweep recurs.  Nothing is assumed of the workers.    *)
Fairness ==
    /\ WF_vars(KillSession)
    /\ \A h \in Conns : WF_vars(RunHandler(h))

FairSpec == Spec /\ Fairness

-----------------------------------------------------------------------------
(* Properties. *)

(* Every variable has its type; a handshake is tried again at most          *)
(* __RECONNECT_MAX times.                                                   *)
TypeOK ==
    /\ sessions \in Seq(Conns)
    /\ conn \in [Conns -> Session]
    /\ listening \in BOOLEAN
    /\ process \in {"runs", "ended", "undefined"}
    /\ mixed \in SUBSET Sess
    /\ W!TypeOK

(* The plain pointer a worker session holds: while the answer to a          *)
(* session's request may still come to it, the session is allocated, live   *)
(* and without an operation, so that the answer can be written.  It may not *)
(* be when the sweep took it during its handshake, or when it was given      *)
(* another's answer.                                                        *)
OwnedCallback ==
    \A s \in Sess, h \in Conns :
        h \in owed[s] /\ cb[s] = h /\ got[h] = <<>> /\ ~ conn[h].early =>
            h \in Range(sessions) /\ conn[h].live /\ conn[h].op = "none"

(* A station whose worker was never asked while it owed an answer gets at   *)
(* most one response, and no other station's.                               *)
AnsweredOnce ==
    \A h \in Conns : conn[h].asked \cap mixed = {} =>
                        got[h] \in {<<>>, <<h>>} /\ conn[h].sent <= 1

(* Freed memory is used, or two writes meet on one stream, only after one   *)
(* of two causes: a session was swept during its handshake, or a worker was *)
(* asked while it owed an answer.                                           *)
UndefinedHasCause ==
    process = "undefined" => mixed # {} \/ \E h \in Conns : conn[h].early

(* A connection is let go - out of the pool and without operation - unless  *)
(* its request has been left to the workers, or dropped for want of one, in *)
(* which case nothing in the server watches it.                             *)
LetGo(h) == h \notin Range(sessions) /\ conn[h].op = "none"
LeftWaiting(h) == conn[h].live /\ conn[h].op = "none" /\ conn[h].sent = 0
ConnectionLetGo ==
    \A h \in Conns :
        conn[h].known ~> LetGo(h) \/ LeftWaiting(h) \/ process # "runs"
=============================================================================
