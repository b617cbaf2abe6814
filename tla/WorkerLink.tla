----------------------------- MODULE WorkerLink -----------------------------
(***************************************************************************)
(* The worker's link to the main server (MarusiaWorker, WorkerM.cpp        *)
(* 187-410): connect, introduce itself, read requests, answer, reconnect.  *)
(*                                                                         *)
(* A completed operation waits in `ready` until the io_context runs its    *)
(* handler; one handler is one action.  A send moves its data when it is   *)
(* started.  The main server is the environment: it greets a worker that   *)
(* has introduced itself, then pings and sends requests at any time; it    *)
(* may close the connection, and the network may drop it without a word.   *)
(***************************************************************************)
EXTENDS Integers, Sequences, SequencesExt

CONSTANTS Requests,     \* the requests of stations
          NoRequest,
          ShortWrites,  \* whether a write may take only part of the buffer
          MaxTemp,      \* bound of the counters and of where junk is sent from
          MaxFaults     \* bound: closed and dropped connections

ASSUME LinkAssumption ==
    /\ NoRequest \notin Requests
    /\ ShortWrites \in BOOLEAN
    /\ MaxTemp > 2 /\ MaxTemp \in Nat /\ MaxFaults \in Nat

VARIABLES link,     \* the WorkerM object, its socket and the connection
          from,     \* history: the connection a request was sent on, 0 for none
          faults    \* how many faults there have been

vars == <<link, from, faults>>

-----------------------------------------------------------------------------
(* Messages have lengths as far as the code compares them. *)
Kinds == {"none", "connect", "connected", "ping", "pong"}
Msg == [kind : Kinds, id : {NoRequest}] \cup [kind : {"request", "static"}, id : Requests]

M(kind) == [kind |-> kind, id |-> NoRequest]
Request(id) == [kind |-> "request", id |-> id]
Static(id) == [kind |-> "static", id |-> id]
Size(m) == CASE m.kind = "none" -> 0
             [] m.kind \in {"request", "static"} -> 2
             [] OTHER -> 1

(* A completed operation, named for its handler: its error code (ok), the *)
(* units a send has written, the messages a receive has completed, and     *)
(* whether it ends inside a further one.                                   *)
Receives == {"reciveCommand", "sendResponse"}
Sends == {"reciveConnect", "reciveAnswer"}
Handler == [op : {"sendConnect"} \cup Receives \cup Sends, ok : BOOLEAN, n : Nat,
            msgs : Seq(Msg), cut : BOOLEAN]
Done(op, ok) == [op |-> op, ok |-> ok, n |-> 0, msgs |-> <<>>, cut |-> FALSE]
Sent(op, n) == [Done(op, n # -1) EXCEPT !.n = IF n = -1 THEN 0 ELSE n]
Received(op, msgs, cut) == [Done(op, TRUE) EXCEPT !.msgs = msgs, !.cut = cut]

Link ==
    [ open       : BOOLEAN,         \* __socket->is_open()
      connecting : BOOLEAN,         \* a connect is pending
      reads      : Seq(Receives),   \* receives that are pending, by handler
      ready      : Seq(Handler),
      parser     : {"clean", "half", "stuck"},      \* __parser
      dirty      : BOOLEAN,         \* __buf_recive has not been zeroed yet
      json       : Seq(Msg),        \* __buf_json_recive
      buf        : Msg,             \* __buf_send
      endSend    : BOOLEAN,         \* __flag_end_send
      tempC      : Nat,             \* static temp_send of __reciveConnect
      tempA      : Nat,             \* static temp_send of __reciveAnswer
      peer       : {"none", "up", "closed", "reset", "gone"},   \* the connection
      no         : Nat,             \* its number
      known      : {"no", "introduced", "greeted"},     \* to the main server
      in         : Seq(Msg),        \* sent by the main server, not yet read
      half       : BOOLEAN,         \* part of Head(in) has been read
      log        : SUBSET [id : Requests, no : Nat],  \* history: answers that arrived
      twice      : SUBSET Requests, \* history: those that arrived more than once
      dropped    : SUBSET Requests, \* history: read and left without an answer
      batched    : BOOLEAN,         \* history: a send was started on top of another
      forked     : BOOLEAN ]        \* history: a request threw that was read
                                    \* together with others

Init ==
    /\ link = [open |-> TRUE, connecting |-> TRUE, reads |-> <<>>, ready |-> <<>>,
               parser |-> "clean", dirty |-> TRUE, json |-> <<>>, buf |-> M("none"),
               endSend |-> FALSE, tempC |-> 0, tempA |-> 0, peer |-> "none", no |-> 0,
               known |-> "no", in |-> <<>>, half |-> FALSE, log |-> {}, twice |-> {},
               dropped |-> {}, batched |-> FALSE, forked |-> FALSE]
    /\ from = [id \in Requests |-> 0]
    /\ faults = 0

-----------------------------------------------------------------------------
(* The operations the handlers are made of. *)

Post(r, h) == [r EXCEPT !.ready = Append(@, h)]
Ids(msgs) == {m.id : m \in Range(msgs)} \cap Requests

(* A connection that ends takes what is in it along, and leaves a parser    *)
(* that holds the first part of a message with a text that nothing of a    *)
(* later connection completes.                                             *)
Ended(r) ==
    [r EXCEPT !.peer = "none", !.known = "no", !.in = <<>>, !.half = FALSE,
              !.parser = IF @ = "half" THEN "stuck" ELSE @]

(* WorkerM::stop: pending operations complete with an error. *)
Stop(r) ==
    IF ~ r.open THEN r
    ELSE [Ended(r) EXCEPT !.open = FALSE, !.connecting = FALSE, !.reads = <<>>,
            !.ready = @ \o (IF r.connecting THEN <<Done("sendConnect", FALSE)>> ELSE <<>>)
                        \o [i \in DOMAIN r.reads |-> Done(r.reads[i], FALSE)]]

(* Mutant of ConnectToMS: a closed socket is not opened again. *)
ConnectToMSKeepsSocket(r) == [r EXCEPT !.connecting = TRUE]

(* __connectToMS: async_connect opens a closed socket again. *)
ConnectToMS(r) == [r EXCEPT !.open = TRUE, !.connecting = TRUE]

AsyncReceive(r, op) ==
    IF r.peer = "none" THEN Post(r, Done(op, FALSE)) ELSE [r EXCEPT !.reads = Append(@, op)]

(* async_send of __buf_send from offset `from` on: how many units may be   *)
(* written, -1 standing for an error, which is final for a connection.     *)
(* Past the end of the buffer the size has wrapped around, and the call    *)
(* fails or sends memory that follows.                                     *)
Outcomes(r, off) ==
    LET rest == Size(r.buf) - off
        taken == IF rest > 1 /\ ShortWrites THEN 1..rest ELSE {rest}
    IN  CASE r.peer \in {"none", "reset"} -> {-1}
          [] r.peer \in {"up", "closed", "gone"} /\ off > Size(r.buf) ->
                IF off < MaxTemp THEN {-1, 1} ELSE {-1}
          [] r.peer = "closed" /\ off <= Size(r.buf) -> {-1} \cup taken
          [] r.peer \in {"up", "gone"} /\ off <= Size(r.buf) -> taken

Answered(r, id) == \E a \in r.log : a.id = id

(* A message has reached the main server when its last unit is written. *)
Arrives(r) ==
    CASE r.buf.kind = "connect" /\ r.known = "no" -> [r EXCEPT !.known = "introduced"]
      [] r.buf.kind = "static" ->
            [r EXCEPT !.log = @ \cup {[id |-> r.buf.id, no |-> r.no]},
                      !.twice = IF Answered(r, r.buf.id) THEN @ \cup {r.buf.id} ELSE @]
      [] OTHER -> r

AsyncSend(r, op, off, n) ==
    LET p == Post(r, Sent(op, n))
    IN  CASE n = -1 -> IF r.peer = "closed" THEN [p EXCEPT !.peer = "reset", !.in = <<>>] ELSE p
          [] n # -1 -> IF r.peer = "up" /\ off + n = Size(r.buf) THEN Arrives(p) ELSE p

AsyncSends(r, op, off) == {AsyncSend(r, op, off, n) : n \in Outcomes(r, off)}

-----------------------------------------------------------------------------
Due(op) == link.ready # <<>> /\ Head(link.ready).op = op
This == Head(link.ready)
Rest == [link EXCEPT !.ready = Tail(@)]
Keep == UNCHANGED <<from, faults>>

(* A counter of sent bytes; beyond MaxTemp all its values act alike. *)
Total(temp) == IF temp + This.n < MaxTemp THEN temp + This.n ELSE MaxTemp

(* __sendConnect. *)
OnConnect ==
    /\ Due("sendConnect")
    /\ IF This.ok
       THEN link' \in AsyncSends([Rest EXCEPT !.buf = M("connect")], "reciveConnect", 0)
       ELSE link' = ConnectToMS(Stop(Rest))
    /\ Keep

(* __reciveConnect: after an error it sends again on the same socket. *)
OnConnectSent ==
    LET total == Total(link.tempC)
    IN  /\ Due("reciveConnect")
        /\ \/ /\ ~ This.ok
              /\ link' \in AsyncSends(Rest, "reciveConnect", 0)
           \/ /\ This.ok /\ total # Size(link.buf)
              /\ link' \in AsyncSends([Rest EXCEPT !.tempC = total], "reciveConnect", total)
           \/ /\ This.ok /\ total = Size(link.buf)
              /\ link' = AsyncReceive([Rest EXCEPT !.tempC = 0, !.buf = M("none")],
                                      "reciveCommand")
        /\ Keep

(* Mutant of OnReceiveFailed: the socket is closed and that is all. *)
OnReceiveFailedStops ==
    /\ \E op \in Receives : Due(op)
    /\ ~ This.ok
    /\ link' = Stop(Rest)
    /\ Keep

(* An error in __reciveCommand or __sendResponse. *)
OnReceiveFailed ==
    /\ \E op \in Receives : Due(op)
    /\ ~ This.ok
    /\ link' = ConnectToMS(Stop(Rest))
    /\ Keep

(* Both parse what has arrived into the queue.  The first receive finds     *)
(* memory behind it that was never written: a message that is cut there is  *)
(* parsed together with that, unless it begins with a zero.  One whose      *)
(* connection has ended meanwhile is never completed.                       *)
Complete == link.parser # "stuck" /\ ~ This.cut
Leaves ==
    {p \in {"clean", "half", "stuck"} :
        IF link.parser = "stuck" THEN p = "stuck"
        ELSE /\ (p = "clean") = ~ This.cut
             /\ p = "half" => link.half
             /\ p = "stuck" => link.dirty \/ ~ link.half}
Parsed(p) ==
    IF link.parser = "stuck" THEN [Rest EXCEPT !.dirty = FALSE, !.dropped = @ \cup Ids(This.msgs)]
    ELSE [Rest EXCEPT !.dirty = FALSE, !.json = @ \o This.msgs, !.parser = p]

(* Mutant of OnReceivePart: it goes on to what it has read. *)
OnResponsePartTwice ==
    /\ \E op \in Receives : Due(op)
    /\ This.ok /\ ~ Complete
    /\ \E p \in Leaves :
          link' = AsyncReceive(AsyncReceive(Parsed(p), "reciveCommand"), "sendResponse")
    /\ Keep

(* Either reads on in __reciveCommand when the text is not complete. *)
OnReceivePart ==
    /\ \E op \in Receives : Due(op)
    /\ This.ok /\ ~ Complete
    /\ \E p \in Leaves : link' = AsyncReceive(Parsed(p), "reciveCommand")
    /\ Keep

(* __reciveCommand expects the greeting and drops whatever it has read. *)
OnCommand ==
    /\ Due("reciveCommand") /\ This.ok /\ Complete
    /\ LET r == Parsed("clean")
       IN  link' = AsyncReceive([r EXCEPT !.json = <<>>, !.dropped = @ \cup Ids(r.json)],
                                "sendResponse")
    /\ Keep

(* One turn of the loop in __sendResponse: the answer is put into the one   *)
(* buffer and its send started; a request may throw instead, and then a     *)
(* receive is posted even when further messages follow.                     *)
Reply(r, m) == CASE m.kind = "ping" -> M("pong")
                 [] m.kind = "request" -> Static(m.id)
                 [] OTHER -> r.buf

SendQueued(r) == \E i \in DOMAIN r.ready : r.ready[i].op \in Sends

AnswerOne(r, m, last) ==
    AsyncSends([r EXCEPT !.buf = Reply(r, m), !.endSend = @ \/ last,
                         !.batched = @ \/ SendQueued(r)], "reciveAnswer", 0)
        \cup (IF m.kind # "request" THEN {}
              ELSE {AsyncReceive([r EXCEPT !.dropped = @ \cup {m.id},
                                           !.forked = @ \/ ~ last \/ SendQueued(r)],
                                 "sendResponse")})

(* __sendResponse answers all messages of the queue. *)
Responses(r0, msgs) ==
    LET after[i \in 0..Len(msgs)] ==
            IF i = 0 THEN {r0}
            ELSE UNION {AnswerOne(r, msgs[i], i = Len(msgs)) : r \in after[i - 1]}
    IN  after[Len(msgs)]

OnResponse ==
    /\ Due("sendResponse") /\ This.ok /\ Complete
    /\ LET r == Parsed("clean") IN link' \in Responses([r EXCEPT !.json = <<>>], r.json)
    /\ Keep

(* Mutants of OnAnswerSent: the rest is sent from the start of the buffer;  *)
(* the counter is not reset; no receive follows.                            *)
OnAnswerSentFromStart ==
    LET total == Total(link.tempA)
    IN  /\ Due("reciveAnswer") /\ This.ok
        /\ IF total = Size(link.buf)
           THEN link' = AsyncReceive([Rest EXCEPT !.tempA = 0, !.buf = M("none"),
                                                  !.endSend = FALSE], "sendResponse")
           ELSE link' \in AsyncSends([Rest EXCEPT !.tempA = total], "reciveAnswer", 0)
        /\ Keep

OnAnswerSentKeepsCount ==
    LET total == Total(link.tempA)
    IN  /\ Due("reciveAnswer") /\ This.ok /\ total = Size(link.buf)
        /\ link' = AsyncReceive([Rest EXCEPT !.tempA = total, !.buf = M("none"),
                                             !.endSend = FALSE], "sendResponse")
        /\ Keep

OnAnswerSentIsLast ==
    LET total == Total(link.tempA)
    IN  /\ Due("reciveAnswer") /\ This.ok /\ total = Size(link.buf)
        /\ link' = [Rest EXCEPT !.tempA = 0, !.buf = M("none"), !.endSend = FALSE]
        /\ Keep

(* __reciveAnswer. *)
OnAnswerSent ==
    LET total == Total(link.tempA)
        r == [Rest EXCEPT !.tempA = 0, !.buf = M("none"), !.endSend = FALSE]
    IN  /\ Due("reciveAnswer")
        /\ \/ /\ ~ This.ok
              /\ link' \in AsyncSends(Rest, "reciveAnswer", 0)
           \/ /\ This.ok /\ total # Size(link.buf)
              /\ link' \in AsyncSends([Rest EXCEPT !.tempA = total], "reciveAnswer", total)
           \/ /\ This.ok /\ total = Size(link.buf)
              /\ link' = IF link.endSend THEN AsyncReceive(r, "sendResponse") ELSE r
        /\ Keep

-----------------------------------------------------------------------------
(* The io_context: a connect and a receive complete. *)

ConnectDone ==
    /\ link.connecting /\ link.no <= MaxFaults
    /\ link' = [Post(link, Done("sendConnect", TRUE)) EXCEPT
                    !.connecting = FALSE, !.peer = "up", !.no = @ + 1]
    /\ Keep

ConnectRefused ==
    /\ link.connecting
    /\ link' = [Post(link, Done("sendConnect", FALSE)) EXCEPT !.connecting = FALSE]
    /\ Keep

ReceiveQueued == \E i \in DOMAIN link.ready : link.ready[i].op \in Receives
Reading == link.reads # <<>> /\ ~ ReceiveQueued

(* A receive completes with some whole messages, and perhaps a part. *)
Deliver ==
    /\ Reading
    /\ \E k \in 0..Len(link.in), cut \in BOOLEAN :
        /\ IF cut THEN k < Len(link.in) /\ (k > 0 \/ ~ link.half) ELSE k > 0
        /\ link' = [Post(link, Received(Head(link.reads), SubSeq(link.in, 1, k), cut)) EXCEPT
                        !.reads = Tail(@), !.in = SubSeq(@, k + 1, Len(@)), !.half = cut]
    /\ Keep

DeliverEnd ==
    /\ Reading
    /\ link.peer \in {"closed", "reset"} /\ link.in = <<>>
    /\ link' = [Post(link, Done(Head(link.reads), FALSE)) EXCEPT !.reads = Tail(@)]
    /\ Keep

(* The main server (external: modelled from Worker.cpp). *)
Say(m) == link' = [link EXCEPT !.in = Append(@, m)]

MainGreets ==
    /\ link.peer = "up" /\ link.known = "introduced"
    /\ link' = [link EXCEPT !.in = Append(@, M("connected")), !.known = "greeted"]
    /\ Keep

MainPings ==
    /\ link.peer = "up" /\ link.known = "greeted" /\ M("ping") \notin Range(link.in)
    /\ Say(M("ping"))
    /\ Keep

MainAsks ==
    /\ link.peer = "up" /\ link.known = "greeted"
    /\ \E id \in Requests :
        /\ from[id] = 0
        /\ from' = [from EXCEPT ![id] = link.no]
        /\ Say(Request(id))
    /\ UNCHANGED faults

ConnectionFails ==
    /\ link.peer = "up" /\ faults < MaxFaults
    /\ \E p \in {"closed", "gone"} :
        link' = [link EXCEPT !.peer = p, !.in = IF p = "gone" THEN <<>> ELSE @]
    /\ faults' = faults + 1
    /\ UNCHANGED from

-----------------------------------------------------------------------------
RunHandler ==
    \/ OnConnect \/ OnConnectSent
    \/ OnReceiveFailed \/ OnReceivePart \/ OnCommand \/ OnResponse
    \/ OnAnswerSent

Next ==
    \/ RunHandler
    \/ ConnectDone \/ ConnectRefused \/ Deliver \/ DeliverEnd
    \/ MainGreets \/ MainPings \/ MainAsks \/ ConnectionFails

Spec == Init /\ [][Next]_vars

(* The io_context keeps running, and a main server that is there accepts a  *)
(* worker that tries again and again.  Nothing else is assumed of it.       *)
Fairness ==
    /\ WF_vars(RunHandler)
    /\ SF_vars(ConnectDone)
    /\ WF_vars(Deliver)
    /\ WF_vars(DeliverEnd)

FairSpec == Spec /\ Fairness
-----------------------------------------------------------------------------
(* Properties. *)

(* Every variable has its type, and a connect is pending on an open socket  *)
(* only.                                                                    *)
TypeOK ==
    /\ link \in Link
    /\ link.connecting => link.open
    /\ from \in [Requests -> Nat]
    /\ faults \in 0..MaxFaults

(* Two messages that arrive together are answered on top of each other      *)
(* (batched), or one of them throws and posts a receive of its own while    *)
(* others are answered (forked).  What that does to the one buffer, the     *)
(* counters and the chain of operations is never put right; the properties  *)
(* say what holds until then, and that nothing else leads there.            *)
Damaged == link.batched \/ link.forked

(* The worker has one thing to wait for at a time - a connect, a receive,   *)
(* or a completed operation - so that __buf_recive, __buf_send and the      *)
(* parser have one user, until messages were once answered on top of each   *)
(* other or one of several threw.                                           *)
Chains == (IF link.connecting THEN 1 ELSE 0) + Len(link.reads) + Len(link.ready)
OneChain == Chains = 1 \/ Damaged

(* Between sends both static counters are zero, however a write was split:  *)
(* the next answer is not taken for the rest of an earlier one, until       *)
(* answers were once started on top of each other or one of several         *)
(* requests threw.                                                          *)
CounterAtRest == SendQueued(link) \/ Damaged \/ (link.tempC = 0 /\ link.tempA = 0)

(* Until messages were once answered on top of each other, or one of        *)
(* several threw, an answer goes out once, over the connection its request  *)
(* came from: the queue, the buffer and the parser outlive a connection,    *)
(* what they hold is not answered on the next one.  After that the same     *)
(* answer may go out again and again (WorkerM.cpp 383-391).                 *)
AnsweredOnceWhereAsked ==
    \/ Damaged
    \/ link.twice = {} /\ \A a \in link.log : a.no = from[a.id]

(* A connection that the main server closes is replaced and the worker      *)
(* introduces itself on the new one, also when connects are refused in      *)
(* between, with three exceptions: it notices by a send that fails, which   *)
(* is then repeated on the dead socket; the new connection drops without a  *)
(* word, which nothing in the worker notices; or one of several requests    *)
(* has thrown, and of the two receives that are pending since each, when it *)
(* fails, stops the connect of the other.                                   *)
Reconnects ==
    link.peer = "closed" ~>
        \/ link.peer = "up" /\ link.known # "no"
        \/ link.peer \in {"reset", "gone"}
        \/ link.forked /\ Chains > 1

(* A request is answered as long as its connection stays up, with three     *)
(* exceptions: it was dropped (read together with the greeting or after a   *)
(* part of a message, or left by an exception); the parser is stuck; or     *)
(* messages were answered on top of each other, or one of several threw,    *)
(* before it was answered.                                                  *)
RequestServed ==
    \A id \in Requests :
        from[id] # 0 ~> \/ Answered(link, id) \/ id \in link.dropped
                        \/ link.no # from[id] \/ link.peer # "up"
                        \/ link.parser = "stuck" \/ Damaged
=============================================================================
