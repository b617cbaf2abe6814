---------------------------- MODULE WorkerSession ----------------------------
(***************************************************************************)
(* The worker server of MainServer (Modules/Worker/Worker.cpp): the Server *)
(* object with its pool of sessions and its sweep timer, and the           *)
(* SessionMarusia objects, one per connected MarusiaWorker.                *)
(*                                                                         *)
(* A completed asynchronous operation waits in its session's queue `ready` *)
(* until the io_context runs its handler; one handler is one action.  A    *)
(* send moves its data when it is started (the first write is speculative) *)
(* and its completion is queued.  The peer is the environment: it answers  *)
(* what it was sent, may fall silent and may close the connection.         *)
(*                                                                         *)
(* What the server writes is a sequence of units, n of them for a message  *)
(* of length n, so that a short write and the tail of an overwritten send  *)
(* buffer are sequences of units too.  What it reads are whole messages,   *)
(* delivered several at a time or cut in the middle of one.                *)
(***************************************************************************)
EXTENDS Naturals, Sequences, SequencesExt

CONSTANTS Sess,         \* the Session objects the run may create
          Stations,     \* callers of startCommand, one request each
          NoStation,    \* the empty callback
          Refusals,     \* kinds of bad answer a worker may give to a ping
          ShortWrites,  \* whether a write may take only part of the buffer
          MaxTemp       \* bound: no junk is sent from further than this

ASSUME SessionAssumption ==
    /\ NoStation \notin Stations
    /\ Refusals \subseteq {"refusal"}
    /\ ShortWrites \in BOOLEAN
    /\ MaxTemp \in Nat

VARIABLES pool,     \* __sessions: the vector of sessions the server owns
          sess,     \* the state of every Session object
          temp,     \* static temp_send_byte of _sendCommand, shared by all
          asked,    \* history: the stations that have called startCommand
          got       \* history: the replies each station's callback received, in order

vars == <<pool, sess, temp, asked, got>>

-----------------------------------------------------------------------------
(* Messages and their units. *)

Signals == {"none", "connect", "connected", "ping", "pong", "refusal"}
Msg == [kind : Signals, st : {NoStation}]
           \cup [kind : {"request", "static"}, st : Stations]

M(kind) == [kind |-> kind, st |-> NoStation]
Request(st) == [kind |-> "request", st |-> st]
Static(st) == [kind |-> "static", st |-> st]

(* Lengths are told apart only as far as the code compares them: an empty *)
(* buffer, a short message, a longer one.                                  *)
Size(m) == CASE m.kind = "none" -> 0
             [] m.kind \in {"request", "static"} -> 2
             [] OTHER -> 1

Unit == [msg : Msg, part : Nat]
Units(m) == [i \in 1..Size(m) |-> [msg |-> m, part |-> i]]
(* A completed operation: its kind, its error code (ok), the units a send *)
(* has written, the first message a receive has completed.  "part" is a   *)
(* receive that ends inside a message.  Later messages of one receive are *)
(* not kept: _reciveCommand handles the front of _buf_json_recive and     *)
(* empties it.                                                             *)
Handler == [op : {"send", "recv", "part", "ping", "dead"}, ok : BOOLEAN,
            n : Nat, msg : Msg]
Done(op, ok) == [op |-> op, ok |-> ok, n |-> 0, msg |-> M("none")]
Sent(n) == [op |-> "send", ok |-> n # 0, n |-> n, msg |-> M("none")]
Received(op, m) == [op |-> op, ok |-> TRUE, n |-> 0, msg |-> m]

-----------------------------------------------------------------------------
(* A session and the operations its handlers are made of. *)

Session ==
    [ peer  : {"none", "up", "silent", "closed"},  \* the worker's end
      open  : BOOLEAN,              \* _socket.is_open()
      live  : BOOLEAN,              \* _is_live
      pong  : BOOLEAN,              \* _ping_success
      next  : BOOLEAN,              \* _next_recive
      pingT : BOOLEAN,              \* a wait on _ping_timer is pending
      deadT : BOOLEAN,              \* a wait on _dead_ping_timer is pending
      buf   : Msg,                  \* _buf_send
      cb    : Stations \cup {NoStation},    \* _callback
      reads : Nat,                  \* receives that are pending
      front : Msg,                  \* front of _buf_json_recive
      ready : Seq(Handler),         \* completed, handler not yet run
      in    : Seq(Msg),             \* sent by the worker, not yet read
      half  : BOOLEAN,              \* part of Head(in) has been read
      out   : Seq(Unit),            \* written to the worker
      rough : BOOLEAN,              \* history: a send was begun over another, or cut short
      mixed : BOOLEAN ]             \* history: asked while it owed an answer

NewSession(peer, open) ==
    [ peer |-> peer, open |-> open, live |-> FALSE, pong |-> FALSE,
      next |-> FALSE, pingT |-> FALSE, deadT |-> FALSE, buf |-> M("none"),
      cb |-> NoStation, reads |-> 0, front |-> M("none"),
      ready |-> <<>>, in |-> <<>>, half |-> FALSE, out |-> <<>>,
      rough |-> FALSE, mixed |-> FALSE ]

Post(r, h) == [r EXCEPT !.ready = Append(@, h)]
Queued(r, op) == \E i \in DOMAIN r.ready : r.ready[i].op = op

(* deadline_timer::cancel: a pending wait completes with an error; a wait *)
(* that has expired already is not affected.                               *)
CancelPing(r) == IF r.pingT THEN Post([r EXCEPT !.pingT = FALSE], Done("ping", FALSE))
                            ELSE r
CancelDead(r) == IF r.deadT THEN Post([r EXCEPT !.deadT = FALSE], Done("dead", FALSE))
                            ELSE r

(* expires_from_now cancels the pending wait, async_wait starts a new one. *)
ArmPing(r) == [CancelPing(r) EXCEPT !.pingT = TRUE]
ArmDead(r) == [CancelDead(r) EXCEPT !.deadT = TRUE]

(* Mutants of Close: only one receive is given up; none is. *)
CloseOneRead(r) ==
    [r EXCEPT !.open = FALSE, !.reads = @ - 1, !.in = <<>>, !.half = FALSE,
              !.out = <<>>, !.ready = Append(@, Done("recv", FALSE))]
CloseWithoutCancel(r) ==
    [r EXCEPT !.open = FALSE, !.in = <<>>, !.half = FALSE, !.out = <<>>]

(* _socket.close(): every pending receive completes with an error, and    *)
(* what is in the connection is lost.                                      *)
Close(r) ==
    [r EXCEPT !.open = FALSE, !.reads = 0, !.in = <<>>, !.half = FALSE,
              !.out = <<>>,
              !.ready = @ \o [i \in 1..r.reads |-> Done("recv", FALSE)]]

(* Mutant of Stop: the socket is not closed. *)
StopWithoutClose(r) == CancelDead(CancelPing([r EXCEPT !.live = FALSE]))

Stop(r) == Close(CancelDead(CancelPing([r EXCEPT !.live = FALSE])))

AsyncReceive(r) == IF r.open THEN [r EXCEPT !.reads = @ + 1]
                             ELSE Post(r, Done("recv", FALSE))

(* async_send of _buf_send from offset `from` on: how many units may be   *)
(* written, 0 standing for an error.  Past the end of the buffer the size *)
(* has wrapped around, and the call fails or sends memory that follows.   *)
Outcomes(r, from) ==
    LET rest == Size(r.buf) - from
    IN  CASE ~ r.open -> {0}
          [] r.open /\ from > Size(r.buf) -> IF from < MaxTemp THEN {0, 1} ELSE {0}
          [] r.open /\ from <= Size(r.buf) ->
                (IF r.peer = "closed" THEN {0} ELSE {})
                    \cup (IF ShortWrites THEN 1..rest ELSE {rest})

(* The units that reach a worker that still reads. *)
Written(r, from, n) ==
    CASE r.peer # "up" -> <<>>
      [] r.peer = "up" /\ from > Size(r.buf) -> [i \in 1..n |-> [msg |-> M("none"), part |-> i]]
      [] r.peer = "up" /\ from <= Size(r.buf) -> SubSeq(Units(r.buf), from + 1, from + n)

AsyncSend(r, from, n) ==
    [Post(r, Sent(n)) EXCEPT !.out = @ \o Written(r, from, n),
                             !.rough = @ \/ Queued(r, "send") \/ n \notin {0, Size(r.buf)}]

-----------------------------------------------------------------------------
Init ==
    /\ pool = <<>>
    /\ sess = [s \in Sess |-> NewSession("none", FALSE)]
    /\ temp = 0
    /\ asked = {}
    /\ got = [st \in Stations |-> <<>>]

Update(s, r) == sess' = [sess EXCEPT ![s] = r]

(* The completion at the head of the session's queue, and the session     *)
(* without it.                                                             *)
Due(s, op) == sess[s].ready # <<>> /\ Head(sess[s].ready).op = op
This(s) == Head(sess[s].ready)
Rest(s) == [sess[s] EXCEPT !.ready = Tail(@)]

(* Server::__accept: the session is pushed and started even when accept   *)
(* failed, on a socket that is not open then.                              *)
Accept(s) ==
    /\ sess[s].peer = "none"
    /\ pool' = Append(pool, s)
    /\ \/ Update(s, AsyncReceive(NewSession("up", TRUE)))
       \/ Update(s, AsyncReceive(NewSession("closed", FALSE)))
    /\ UNCHANGED <<temp, asked, got>>

(* Server::__killSession: the first session that is not live is stopped   *)
(* and erased; the timer is armed again, so the next one follows.          *)
KillSession ==
    \E i \in DOMAIN pool :
        /\ ~ sess[pool[i]].live
        /\ \A j \in 1..(i - 1) : sess[pool[j]].live
        /\ Update(pool[i], Stop(sess[pool[i]]))
        /\ pool' = RemoveAt(pool, i)
        /\ UNCHANGED <<temp, asked, got>>

(* The answers a session may still give: their requests or the answers      *)
(* themselves are on their way, and no caller has been given them.          *)
InFlight(r) ==
    {st \in Stations :
        \/ Request(st) = r.buf
        \/ Static(st) = r.front
        \/ \E i \in DOMAIN r.out : r.out[i].msg = Request(st)
        \/ \E i \in DOMAIN r.in : r.in[i] = Static(st)
        \/ \E i \in DOMAIN r.ready : r.ready[i].msg = Static(st)}
Given == UNION {Range(got[st]) : st \in Stations}

(* Mutant of StartCommand: a callback that is set already is kept. *)
StartCommandKeepsCallback(s, st) ==
    /\ s \in Range(pool) /\ st \notin asked /\ sess[s].live
    /\ asked' = asked \cup {st}
    /\ LET r == [sess[s] EXCEPT !.cb = IF @ = NoStation THEN st ELSE @,
                                !.buf = Request(st), !.next = TRUE,
                                !.mixed = @ \/ ~ InFlight(sess[s]) \subseteq Given]
       IN  \E n \in Outcomes(r, 0) : Update(s, AsyncSend(r, 0, n))
    /\ UNCHANGED <<pool, temp, got>>

(* SessionMarusia::startCommand, called by an HTTPS session for a session *)
(* of the pool; it does nothing when that session is not live.             *)
StartCommand(s, st) ==
    /\ s \in Range(pool) /\ st \notin asked
    /\ asked' = asked \cup {st}
    /\ IF sess[s].live
       THEN LET r == [sess[s] EXCEPT !.cb = st, !.buf = Request(st), !.next = TRUE,
                                     !.mixed = @ \/ ~ InFlight(sess[s]) \subseteq Given]
            IN  \E n \in Outcomes(r, 0) : Update(s, AsyncSend(r, 0, n))
       ELSE UNCHANGED sess
    /\ UNCHANGED <<pool, temp, got>>

(* Mutants of _sendCommand: a failed send closes the socket and leaves the *)
(* session live; the counter of sent bytes is not reset.                    *)
OnSendFailedStaysLive(s) ==
    /\ Due(s, "send") /\ (~ This(s).ok \/ ~ sess[s].live)
    /\ Update(s, Close(Rest(s)))
    /\ UNCHANGED <<pool, temp, asked, got>>

OnSendCompleteKeepsCount(s) ==
    LET r == [Rest(s) EXCEPT !.buf = M("none"), !.next = FALSE]
    IN  /\ Due(s, "send") /\ This(s).ok /\ sess[s].live
        /\ temp + This(s).n = Size(sess[s].buf)
        /\ temp' = temp + This(s).n
        /\ Update(s, IF sess[s].next THEN AsyncReceive(r) ELSE r)
        /\ UNCHANGED <<pool, asked, got>>

(* Session::_sendCommand with _sendCheck. *)
OnSendFailed(s) ==
    /\ Due(s, "send") /\ (~ This(s).ok \/ ~ sess[s].live)
    /\ Update(s, Stop(Rest(s)))
    /\ UNCHANGED <<pool, temp, asked, got>>

OnSendMismatch(s) ==
    LET total == temp + This(s).n
    IN  /\ Due(s, "send") /\ This(s).ok /\ sess[s].live
        /\ total # Size(sess[s].buf)
        /\ temp' = total
        /\ \E n \in Outcomes(Rest(s), total) : Update(s, AsyncSend(Rest(s), total, n))
        /\ UNCHANGED <<pool, asked, got>>

OnSendComplete(s) ==
    LET r == [Rest(s) EXCEPT !.buf = M("none"), !.next = FALSE]
    IN  /\ Due(s, "send") /\ This(s).ok /\ sess[s].live
        /\ temp + This(s).n = Size(sess[s].buf)
        /\ temp' = 0
        /\ Update(s, IF sess[s].next THEN AsyncReceive(r) ELSE r)
        /\ UNCHANGED <<pool, asked, got>>

(* Session::_reciveCommand with _reciveCheck. *)
OnReceiveFailed(s) ==
    /\ Due(s, "recv") /\ ~ This(s).ok
    /\ Update(s, Stop(Rest(s)))
    /\ UNCHANGED <<pool, temp, asked, got>>

(* The front of _buf_json_recive once the completed receive is parsed. *)
Foremost(s) == IF sess[s].front # M("none") THEN sess[s].front ELSE This(s).msg

(* Mutant of OnReceivePartial: the rest of the message is not read. *)
OnReceivePartialOnly(s) ==
    /\ Due(s, "part")
    /\ Update(s, [Rest(s) EXCEPT !.front = Foremost(s)])
    /\ UNCHANGED <<pool, temp, asked, got>>

(* The receive ends inside a message: what is complete is kept and the    *)
(* same handler reads on.                                                  *)
OnReceivePartial(s) ==
    /\ Due(s, "part")
    /\ Update(s, AsyncReceive([Rest(s) EXCEPT !.front = Foremost(s)]))
    /\ UNCHANGED <<pool, temp, asked, got>>

(* Mutant of AnalizePing: the next ping is not planned. *)
AnalizePingWithoutNext(r, m) ==
    IF m.kind = "pong" THEN CancelDead([r EXCEPT !.pong = TRUE]) ELSE Stop(r)

(* Session::_analizePing. *)
AnalizePing(r, m) ==
    IF m.kind = "pong" THEN ArmPing(CancelDead([r EXCEPT !.pong = TRUE]))
                       ELSE Stop(r)

(* Mutant of Called: the callback is called once more with the same answer. *)
CalledTwice(cb, m) ==
    IF cb = NoStation THEN got ELSE [got EXCEPT ![cb] = @ \o <<m.st, m.st>>]

(* __staticMessage calls the callback with what it was sent; the empty     *)
(* callback does nothing.                                                  *)
Called(cb, m) == IF cb = NoStation THEN got ELSE [got EXCEPT ![cb] = Append(@, m.st)]

(* SessionMarusia::_commandAnalize looks at the first message only; the   *)
(* queue is emptied whatever else it holds.                                *)
OnReceive(s) ==
    LET m == Foremost(s)
        r == [Rest(s) EXCEPT !.front = M("none")]
    IN  /\ Due(s, "recv") /\ This(s).ok
        /\ \/ /\ m.kind \in {"pong", "refusal"}
              /\ Update(s, AnalizePing(r, m))
              /\ UNCHANGED got
           \/ /\ m.kind = "static"           \* __staticMessage
              /\ Update(s, r)
              /\ got' = Called(r.cb, m)
           \/ /\ m.kind = "connect"          \* _autorization
              /\ LET a == ArmPing([r EXCEPT !.live = TRUE, !.buf = M("connected")])
                 IN  \E n \in Outcomes(a, 0) : Update(s, AsyncSend(a, 0, n))
              /\ UNCHANGED got
        /\ UNCHANGED <<pool, temp, asked>>

(* Mutant of OnPing: _ping_success is not reset. *)
OnPingKeepsSuccess(s) ==
    /\ Due(s, "ping") /\ This(s).ok /\ sess[s].live
    /\ LET r == ArmDead([Rest(s) EXCEPT !.buf = M("ping"), !.next = TRUE])
       IN  \E n \in Outcomes(r, 0) : Update(s, AsyncSend(r, 0, n))
    /\ UNCHANGED <<pool, temp, asked, got>>

(* Session::_ping. *)
OnPing(s) ==
    /\ Due(s, "ping")
    /\ \/ /\ ~ This(s).ok
          /\ Update(s, Stop(Rest(s)))
       \/ /\ This(s).ok /\ ~ sess[s].live
          /\ Update(s, Rest(s))
       \/ /\ This(s).ok /\ sess[s].live
          /\ LET r == ArmDead([Rest(s) EXCEPT !.buf = M("ping"), !.next = TRUE,
                                              !.pong = FALSE])
             IN  \E n \in Outcomes(r, 0) : Update(s, AsyncSend(r, 0, n))
    /\ UNCHANGED <<pool, temp, asked, got>>

(* Session::_deadPing does not look at the error before it stops. *)
OnDeadPing(s) ==
    /\ Due(s, "dead")
    /\ Update(s, IF sess[s].pong THEN Rest(s) ELSE Stop(Rest(s)))
    /\ UNCHANGED <<pool, temp, asked, got>>

(* The io_context: a timer expires, a pending receive completes with a    *)
(* part of what has arrived, or with an error once the peer has closed.    *)
PingExpires(s) ==
    /\ sess[s].pingT
    /\ Update(s, Post([sess[s] EXCEPT !.pingT = FALSE], Done("ping", TRUE)))
    /\ UNCHANGED <<pool, temp, asked, got>>

DeadPingExpires(s) ==
    /\ sess[s].deadT
    /\ Update(s, Post([sess[s] EXCEPT !.deadT = FALSE], Done("dead", TRUE)))
    /\ UNCHANGED <<pool, temp, asked, got>>

ReceiveQueued(r) == \E i \in DOMAIN r.ready : r.ready[i].op \in {"recv", "part"}

Deliver(s) ==
    LET r == sess[s]
        Read(k, half) == [r EXCEPT !.reads = @ - 1, !.half = half,
                                   !.in = SubSeq(@, k + 1, Len(@))]
        first(k) == IF k = 0 THEN M("none") ELSE r.in[1]
    IN  /\ r.reads > 0 /\ ~ ReceiveQueued(r)
        /\ \E k \in 0..Len(r.in) :
              \/ /\ k > 0
                 /\ Update(s, Post(Read(k, FALSE), Received("recv", first(k))))
              \/ /\ k < Len(r.in) /\ (k > 0 \/ ~ r.half)
                 /\ Update(s, Post(Read(k, TRUE), Received("part", first(k))))
        /\ UNCHANGED <<pool, temp, asked, got>>

DeliverEnd(s) ==
    /\ sess[s].reads > 0 /\ sess[s].in = <<>> /\ sess[s].peer = "closed"
    /\ Update(s, Post([sess[s] EXCEPT !.reads = @ - 1], Done("recv", FALSE)))
    /\ UNCHANGED <<pool, temp, asked, got>>

-----------------------------------------------------------------------------
(* The worker at the other end (external: modelled from WorkerM.cpp). *)

Say(r, m) == [r EXCEPT !.in = Append(@, m)]

(* The worker introduces itself once, before it has been sent anything. *)
WorkerConnect(s) ==
    /\ sess[s].peer = "up" /\ sess[s].open /\ ~ sess[s].live
    /\ sess[s].in = <<>> /\ sess[s].reads > 0
    /\ Update(s, Say(sess[s], M("connect")))
    /\ UNCHANGED <<pool, temp, asked, got>>

(* It answers whole messages in order and makes nothing of junk.  It drops  *)
(* what it reads together with the greeting, after a part of a message, or  *)
(* while its parser is stuck, and a request that throws (see WorkerLink).   *)
Answers(m) == IF m.kind = "ping" THEN {M(kind) : kind \in {"pong"} \cup Refusals}
                                 ELSE {Static(m.st)}

WorkerAnswer(s) ==
    LET m == Head(sess[s].out).msg
        r == [sess[s] EXCEPT !.out = SubSeq(@, Size(m) + 1, Len(@))]
    IN  /\ sess[s].peer = "up" /\ sess[s].out # <<>>
        /\ IsPrefix(Units(m), sess[s].out)
        /\ \/ Update(s, r)
           \/ /\ m.kind \in {"ping", "request"}
              /\ \E a \in Answers(m) : Update(s, Say(r, a))
        /\ UNCHANGED <<pool, temp, asked, got>>

WorkerFails(s) ==
    /\ sess[s].peer = "up"
    /\ \E p \in {"silent", "closed"} : Update(s, [sess[s] EXCEPT !.peer = p, !.out = <<>>])
    /\ UNCHANGED <<pool, temp, asked, got>>

-----------------------------------------------------------------------------
RunHandler(s) ==
    \/ OnSendFailed(s) \/ OnSendMismatch(s) \/ OnSendComplete(s)
    \/ OnReceiveFailed(s) \/ OnReceivePartial(s) \/ OnReceive(s)
    \/ OnPing(s) \/ OnDeadPing(s)

Next ==
    \/ KillSession
    \/ \E s \in Sess :
        \/ Accept(s)
        \/ RunHandler(s)
        \/ PingExpires(s) \/ DeadPingExpires(s) \/ Deliver(s) \/ DeliverEnd(s)
        \/ WorkerConnect(s) \/ WorkerAnswer(s) \/ WorkerFails(s)
        \/ \E st \in Stations : StartCommand(s, st)

Spec == Init /\ [][Next]_vars

(* The io_context keeps running: a queued handler is run, an armed timer  *)
(* expires, arrived data are delivered and the sweep recurs.  Nothing is  *)
(* assumed of the worker or of the callers.                                *)
Fairness ==
    /\ WF_vars(KillSession)
    /\ \A s \in Sess :
        /\ WF_vars(RunHandler(s))
        /\ WF_vars(PingExpires(s))
        /\ WF_vars(DeadPingExpires(s))
        /\ WF_vars(Deliver(s))
        /\ WF_vars(DeliverEnd(s))

FairSpec == Spec /\ Fairness

-----------------------------------------------------------------------------
(* Properties. *)

(* Every variable has its type; worker_server's objects hold what their    *)
(* fields are declared to hold.                                            *)
TypeOK ==
    /\ pool \in Seq(Sess)
    /\ sess \in [Sess -> Session]
    /\ temp \in Nat
    /\ asked \in SUBSET Stations
    /\ got \in [Stations -> Seq(Stations)]

FailureQueued(r) == \E i \in DOMAIN r.ready : r.ready[i].op = "send" /\ ~ r.ready[i].ok

(* A live session is always watched: either the next ping is on its way    *)
(* (its timer runs or its handler is queued), or a ping is unanswered and   *)
(* the dead-ping timer runs or its handler is queued.  _ping, _analizePing *)
(* and _autorization hand the watch from one timer to the other, with      *)
(* cancelled waits and expired ones still in the queue.                     *)
PingDue(r) == r.pingT \/ Queued(r, "ping")
DeadPingDue(r) == ~ r.pong /\ (r.deadT \/ Queued(r, "dead"))
WatchedSession(r) == r.live => PingDue(r) \/ DeadPingDue(r)
Watched == \A s \in Sess : WatchedSession(sess[s])

(* A session that is live without a socket - it authorised itself from a   *)
(* receive that completed before stop() closed it - has the failure of its *)
(* own reply queued already, and that handler stops it again.               *)
DoomedSession(r) == r.live /\ ~ r.open => FailureQueued(r)
ResurrectedIsDoomed == \A s \in Sess : DoomedSession(sess[s])

(* A callback is given one answer at most, the one to its own station's     *)
(* request, unless some session was asked while it owed an answer:          *)
(* _callback and the receive queue know nothing of which request is being    *)
(* answered.                                                               *)
RightStation ==
    \/ \E s \in Sess : sess[s].mixed
    \/ \A st \in Stations : got[st] \in {<<>>, <<st>>}

(* The counter that all sessions share is left at zero by every handler,   *)
(* unless one of two things has happened to some session: a send was begun *)
(* before its last one had completed, or a write took only a part.  Failed *)
(* sends, sends completed on a stopped session and sessions that die in     *)
(* the middle of one leave no count behind for another session.            *)
CounterAtRest == temp = 0 \/ \E s \in Sess : sess[s].rough

Pool == INSTANCE WorkerPool WITH
            made <- {s \in Sess : sess[s].peer # "none"},
            live <- [s \in Sess |-> sess[s].live],
            cb <- [s \in Sess |-> sess[s].cb],
            owed <- [s \in Sess |-> InFlight(sess[s]) \ Given]

(* The worker server keeps what WorkerPool promises: a caller that reaches *)
(* a live session becomes its callback, an answer is given once and to the  *)
(* callback of the moment, and only sessions that are not live are swept,   *)
(* however sends, cut messages and stopped sessions overlap.                *)
ImplementsPool == Pool!Spec

(* What a worker has sent does not stay unread for ever: it is read, or the *)
(* connection is closed in the end.  A send that another one has spoiled    *)
(* may never post the receive its request needs (_next_recive is one flag,  *)
(* the counter of sent bytes and the buffer are shared), but then a send    *)
(* that fails or the dead-ping timer stops the session and closes it.       *)
NothingStaysUnread ==
    \A s \in Sess : sess[s].in # <<>> ~> sess[s].in = <<>> \/ ~ sess[s].open

(* A worker that falls silent or closes its connection loses its session:  *)
(* it leaves the pool from which HTTPS sessions choose, whatever was in     *)
(* flight when it failed.                                                   *)
FailedIsSwept ==
    \A s \in Sess : sess[s].peer \in {"silent", "closed"} ~> s \notin Range(pool)

(* The handlers hold the session's shared_ptr: once its socket is closed   *)
(* they all run out, no timer is armed for good, and the object is freed.   *)
Released(r) == r.ready = <<>> /\ r.reads = 0 /\ ~ r.pingT /\ ~ r.deadT
ClosedIsReleased ==
    \A s \in Sess : sess[s].peer # "none" /\ ~ sess[s].open ~> Released(sess[s])
=============================================================================
