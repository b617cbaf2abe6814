------------------------ MODULE WorkerSession_proofs ------------------------
(***************************************************************************)
(* TypeOK, Watched and ResurrectedIsDoomed of WorkerSession for any number *)
(* of sessions and stations, proved as one inductive invariant.            *)
(***************************************************************************)
EXTENDS WorkerSession, SequenceTheorems, FiniteSetTheorems, TLAPS

Sound(r) == r \in Session /\ WatchedSession(r) /\ DoomedSession(r)
SessInv == sess \in [Sess -> Session] /\ \A s \in Sess : Sound(sess[s])

-----------------------------------------------------------------------------
(* Messages and the units written. *)

LEMMA SizeType ==
    ASSUME NEW m \in Msg
    PROVE  Size(m) \in Nat /\ Size(m) <= 2
BY DEF Size

LEMMA MType ==
    ASSUME NEW kind \in Signals
    PROVE  M(kind) \in Msg
BY DEF M, Msg

LEMMA FunctionIsSeq ==
    ASSUME NEW S, NEW n \in Nat, NEW f \in [1..n -> S]
    PROVE  f \in Seq(S) /\ Len(f) = n
OBVIOUS

LEMMA UnitsType ==
    ASSUME NEW m \in Msg
    PROVE  Units(m) \in Seq(Unit) /\ Len(Units(m)) = Size(m)
<1>1. Units(m) \in [1..Size(m) -> Unit]
  BY SizeType DEF Units, Unit
<1> QED
  BY <1>1, SizeType, FunctionIsSeq

LEMMA SubSeqType ==
    ASSUME NEW S, NEW q \in Seq(S), NEW i \in Nat \ {0}, NEW j \in Nat, j <= Len(q)
    PROVE  SubSeq(q, i, j) \in Seq(S)
OBVIOUS

(* What async_send may return is a count the buffer can cover. *)
LEMMA OutcomesBound ==
    ASSUME NEW r \in Session, NEW from \in Nat, NEW n \in Outcomes(r, from)
    PROVE  n \in Nat /\ (from <= Size(r.buf) => from + n <= Size(r.buf))
<1>1. Size(r.buf) \in Nat
  BY SizeType DEF Session
<1>2. CASE ~ r.open
  BY <1>1, <1>2 DEF Outcomes
<1>3. CASE r.open /\ from > Size(r.buf)
  BY <1>1, <1>3 DEF Outcomes
<1>4. CASE r.open /\ from <= Size(r.buf)
  <2>1. n \in {0} \cup 1..(Size(r.buf) - from) \cup {Size(r.buf) - from}
    BY <1>1, <1>4 DEF Outcomes
  <2> QED
    BY <1>1, <1>4, <2>1
<1> QED
  BY <1>1, <1>2, <1>3, <1>4 DEF Session

LEMMA WrittenType ==
    ASSUME NEW r \in Session, NEW from \in Nat, NEW n \in Outcomes(r, from)
    PROVE  Written(r, from, n) \in Seq(Unit)
<1>1. n \in Nat /\ (from <= Size(r.buf) => from + n <= Size(r.buf))
  BY OutcomesBound
<1>2. r.buf \in Msg /\ Size(r.buf) \in Nat
  BY SizeType DEF Session
<1>3. CASE r.peer # "up"
  BY <1>3 DEF Written
<1>4. CASE r.peer = "up" /\ from > Size(r.buf)
  <2>1. [i \in 1..n |-> [msg |-> M("none"), part |-> i]] \in Seq(Unit)
    BY <1>1, MType DEF Unit, Signals
  <2> QED
    BY <1>2, <1>4, <2>1 DEF Written
<1>5. CASE r.peer = "up" /\ from <= Size(r.buf)
  <2>1. SubSeq(Units(r.buf), from + 1, from + n) \in Seq(Unit)
    BY <1>1, <1>2, <1>5, UnitsType, SubSeqType
  <2> QED
    BY <1>2, <1>5, <2>1 DEF Written
<1> QED
  BY <1>2, <1>3, <1>4, <1>5

-----------------------------------------------------------------------------
(* The operations on a session keep its type. *)

LEMMA DoneType ==
    ASSUME NEW op \in {"send", "recv", "part", "ping", "dead"}, NEW ok \in BOOLEAN
    PROVE  Done(op, ok) \in Handler
BY MType DEF Done, Handler, Signals

LEMMA SentType ==
    ASSUME NEW n \in Nat
    PROVE  Sent(n) \in Handler
BY MType DEF Sent, Handler, Signals

LEMMA ReceivedType ==
    ASSUME NEW op \in {"recv", "part"}, NEW m \in Msg
    PROVE  Received(op, m) \in Handler
BY DEF Received, Handler

LEMMA PostType ==
    ASSUME NEW r \in Session, NEW h \in Handler
    PROVE  Post(r, h) \in Session
<1> DEFINE queue == Append(r.ready, h)
<1>1. queue \in Seq(Handler)
  BY DEF Session
<1>2. Post(r, h) = [r EXCEPT !.ready = queue]
  BY DEF Post
<1> HIDE DEF queue
<1> QED
  BY <1>1, <1>2 DEF Session

LEMMA CancelPingType ==
    ASSUME NEW r \in Session
    PROVE  CancelPing(r) \in Session
<1>1. [r EXCEPT !.pingT = FALSE] \in Session
  BY DEF Session
<1> QED
  BY <1>1, DoneType, PostType DEF CancelPing

LEMMA CancelDeadType ==
    ASSUME NEW r \in Session
    PROVE  CancelDead(r) \in Session
<1>1. [r EXCEPT !.deadT = FALSE] \in Session
  BY DEF Session
<1> QED
  BY <1>1, DoneType, PostType DEF CancelDead

LEMMA CloseType ==
    ASSUME NEW r \in Session
    PROVE  Close(r) \in Session
<1> DEFINE aborted == [i \in 1..r.reads |-> Done("recv", FALSE)]
<1>1. aborted \in Seq(Handler)
  <2>1. r.reads \in Nat /\ aborted \in [1..r.reads -> Handler]
    BY DoneType DEF Session
  <2> QED
    BY <2>1, FunctionIsSeq
<1> DEFINE queue == r.ready \o aborted
<1>2. queue \in Seq(Handler)
  BY <1>1, ConcatProperties DEF Session
<1>3. Close(r) = [r EXCEPT !.open = FALSE, !.reads = 0, !.in = <<>>,
                           !.half = FALSE, !.out = <<>>, !.ready = queue]
  BY DEF Close
<1>4. 0 \in Nat /\ <<>> \in Seq(Msg) /\ <<>> \in Seq(Unit)
  OBVIOUS
<1> DEFINE q == [r EXCEPT !.open = FALSE, !.half = FALSE]
           q1 == [q EXCEPT !.reads = 0, !.in = <<>>, !.out = <<>>]
<1> HIDE DEF queue
<1>5. q \in Session
  BY DEF Session
<1>6. Close(r) = [q1 EXCEPT !.ready = queue]
  BY <1>3
<1> HIDE DEF q
<1>7. q1 \in Session
  BY <1>4, <1>5 DEF Session
<1> HIDE DEF q1
<1> QED
  BY <1>2, <1>6, <1>7 DEF Session

LEMMA StopType ==
    ASSUME NEW r \in Session
    PROVE  Stop(r) \in Session /\ Stop(r).live = FALSE
<1> DEFINE r0 == [r EXCEPT !.live = FALSE]
           r1 == CancelPing(r0)
           r2 == CancelDead(r1)
<1>1. r0 \in Session /\ r0.live = FALSE
  BY DEF Session
<1> HIDE DEF r0
<1>2. r1 \in Session /\ r1.live = FALSE
  BY <1>1, CancelPingType DEF CancelPing, Post, Session
<1> HIDE DEF r1
<1>3. r2 \in Session /\ r2.live = FALSE
  BY <1>2, CancelDeadType DEF CancelDead, Post, Session
<1> HIDE DEF r2
<1>4. Stop(r) = Close(r2)
  BY DEF Stop, r0, r1, r2
<1>5. Close(r2).live = FALSE
  BY <1>3 DEF Close, Session
<1> QED
  BY <1>3, <1>4, <1>5, CloseType

LEMMA AsyncReceiveType ==
    ASSUME NEW r \in Session
    PROVE  AsyncReceive(r) \in Session
<1> DEFINE more == r.reads + 1
           r1 == [r EXCEPT !.reads = more]
<1>1. more \in Nat
  BY DEF Session
<1>2. AsyncReceive(r) = r1 \/ AsyncReceive(r) = Post(r, Done("recv", FALSE))
  BY DEF AsyncReceive
<1> HIDE DEF more
<1>3. r1 \in Session
  BY <1>1 DEF Session
<1> QED
  BY <1>2, <1>3, DoneType, PostType

LEMMA AsyncSendType ==
    ASSUME NEW r \in Session, NEW from \in Nat, NEW n \in Outcomes(r, from)
    PROVE  AsyncSend(r, from, n) \in Session
<1> DEFINE w == Written(r, from, n)
           p == Post(r, Sent(n))
           b == r.rough \/ Queued(r, "send") \/ n \notin {0, Size(r.buf)}
<1>1. w \in Seq(Unit)
  BY WrittenType
<1>2. p \in Session
  BY OutcomesBound, SentType, PostType
<1>3. AsyncSend(r, from, n) = [p EXCEPT !.out = @ \o w, !.rough = b]
  BY DEF AsyncSend, Post
<1>5. b \in BOOLEAN
  OBVIOUS
<1> HIDE DEF w, p, b
<1>4. p.out \o w \in Seq(Unit)
  BY <1>1, <1>2, ConcatProperties DEF Session
<1> QED
  BY <1>2, <1>3, <1>4, <1>5 DEF Session

-----------------------------------------------------------------------------
(* What the operations do to the watch and to the doom of a session. *)

LEMMA StopSound ==
    ASSUME NEW r \in Session
    PROVE  Sound(Stop(r))
BY StopType DEF Sound, WatchedSession, DoomedSession

(* Posting a completion takes no watch away. *)
LEMMA PostKeeps ==
    ASSUME NEW r \in Session, NEW h \in Handler
    PROVE  /\ \A op : Queued(r, op) \/ h.op = op <=> Queued(Post(r, h), op)
           /\ FailureQueued(r) => FailureQueued(Post(r, h))
           /\ h.op = "send" /\ ~ h.ok => FailureQueued(Post(r, h))
<1> DEFINE p == Post(r, h)
<1>1. /\ r.ready \in Seq(Handler)
      /\ p.ready = Append(r.ready, h)
  BY DEF Post, Session
<1>2. /\ DOMAIN r.ready = 1..Len(r.ready) /\ DOMAIN p.ready = 1..(Len(r.ready) + 1)
      /\ Len(r.ready) \in Nat
      /\ \A i \in DOMAIN r.ready : p.ready[i] = r.ready[i]
      /\ p.ready[Len(r.ready) + 1] = h
  BY <1>1
<1> HIDE DEF p
<1>3. \A i \in DOMAIN p.ready : i \in DOMAIN r.ready \/ i = Len(r.ready) + 1
  BY <1>2
<1>4. DOMAIN r.ready \subseteq DOMAIN p.ready /\ Len(r.ready) + 1 \in DOMAIN p.ready
  BY <1>2
<1>5. \A op : Queued(r, op) \/ h.op = op <=> Queued(p, op)
  BY <1>2, <1>3, <1>4 DEF Queued
<1>6. FailureQueued(r) => FailureQueued(p)
  BY <1>2, <1>4 DEF FailureQueued
<1>7. h.op = "send" /\ ~ h.ok => FailureQueued(p)
  BY <1>2, <1>4 DEF FailureQueued
<1> QED
  BY <1>5, <1>6, <1>7 DEF p

(* Running the handler at the head takes only that completion away. *)
LEMMA RestKeeps ==
    ASSUME NEW r \in Session, r.ready # <<>>, NEW q, q = [r EXCEPT !.ready = Tail(@)]
    PROVE  /\ q \in Session /\ Head(r.ready) \in Handler
           /\ \A op : Queued(r, op) => Queued(q, op) \/ Head(r.ready).op = op
           /\ FailureQueued(r) =>
                 FailureQueued(q) \/ (Head(r.ready).op = "send" /\ ~ Head(r.ready).ok)
<1>1. r.ready \in Seq(Handler)
  BY DEF Session
<1>2. /\ Head(r.ready) \in Handler /\ Head(r.ready) = r.ready[1]
      /\ Tail(r.ready) \in Seq(Handler)
      /\ Len(Tail(r.ready)) = Len(r.ready) - 1
      /\ \A i \in 1..Len(Tail(r.ready)) : Tail(r.ready)[i] = r.ready[i + 1]
  BY <1>1, HeadTailProperties
<1>3. q \in Session /\ q.ready = Tail(r.ready)
  BY <1>2 DEF Session
<1>4. \A i \in DOMAIN r.ready : i = 1 \/ (i - 1 \in DOMAIN q.ready /\ q.ready[i - 1] = r.ready[i])
  BY <1>1, <1>2, <1>3
<1>5. \A op : Queued(r, op) => Queued(q, op) \/ Head(r.ready).op = op
  BY <1>2, <1>4 DEF Queued
<1>6. FailureQueued(r) => FailureQueued(q) \/ (Head(r.ready).op = "send" /\ ~ Head(r.ready).ok)
  BY <1>2, <1>4 DEF FailureQueued
<1> QED
  BY <1>2, <1>3, <1>5, <1>6

(* Soundness looks at six fields only. *)
LEMMA SameSound ==
    ASSUME NEW r, NEW q \in Session, Sound(r),
           q.live = r.live, q.open = r.open, q.pong = r.pong,
           q.pingT = r.pingT, q.deadT = r.deadT, q.ready = r.ready
    PROVE  Sound(q)
BY DEF Sound, WatchedSession, DoomedSession, PingDue, DeadPingDue, Queued, FailureQueued

LEMMA PostSound ==
    ASSUME NEW r, Sound(r), NEW h \in Handler
    PROVE  Sound(Post(r, h))
<1>1. r \in Session /\ Post(r, h) \in Session
  BY PostType DEF Sound
<1>2. /\ Post(r, h).live = r.live /\ Post(r, h).open = r.open
      /\ Post(r, h).pong = r.pong
      /\ Post(r, h).pingT = r.pingT /\ Post(r, h).deadT = r.deadT
  BY <1>1 DEF Post, Session
<1>3. /\ Queued(r, "ping") => Queued(Post(r, h), "ping")
      /\ Queued(r, "dead") => Queued(Post(r, h), "dead")
      /\ FailureQueued(r) => FailureQueued(Post(r, h))
  BY <1>1, PostKeeps
<1> QED
  BY <1>1, <1>2, <1>3 DEF Sound, WatchedSession, DoomedSession, PingDue, DeadPingDue

LEMMA AsyncReceiveSound ==
    ASSUME NEW r, Sound(r)
    PROVE  Sound(AsyncReceive(r))
<1> DEFINE r1 == [r EXCEPT !.reads = @ + 1]
<1>1. r \in Session /\ AsyncReceive(r) \in Session
  BY AsyncReceiveType DEF Sound
<1>2. CASE ~ r.open
  BY <1>1, <1>2, DoneType, PostSound DEF AsyncReceive
<1>3. CASE r.open
  <2>1. AsyncReceive(r) = r1
    BY <1>3 DEF AsyncReceive
  <2>2. /\ r1.live = r.live /\ r1.open = r.open /\ r1.pong = r.pong
        /\ r1.pingT = r.pingT /\ r1.deadT = r.deadT /\ r1.ready = r.ready
    BY <1>1 DEF Session
  <2> HIDE DEF r1
  <2> QED
    BY <1>1, <2>1, <2>2, SameSound
<1> QED
  BY <1>2, <1>3

(* A send on a closed socket queues the failure that stops the session. *)
LEMMA AsyncSendSound ==
    ASSUME NEW r \in Session, WatchedSession(r),
           NEW from \in Nat, NEW n \in Outcomes(r, from)
    PROVE  Sound(AsyncSend(r, from, n))
<1> DEFINE p == Post(r, Sent(n))
           q == AsyncSend(r, from, n)
<1>1. n \in Nat /\ Sent(n) \in Handler /\ p \in Session /\ q \in Session
  BY OutcomesBound, SentType, PostType, AsyncSendType
<1>2. /\ p.live = r.live /\ p.open = r.open /\ p.pong = r.pong
      /\ p.pingT = r.pingT /\ p.deadT = r.deadT
  BY <1>1 DEF Post, Session
<1>3. WatchedSession(p)
  BY <1>1, <1>2, PostKeeps DEF WatchedSession, PingDue, DeadPingDue
<1>4. DoomedSession(p)
  <2>1. CASE r.open
    BY <1>2, <2>1 DEF DoomedSession
  <2>2. CASE ~ r.open
    <3>1. n = 0
      BY <2>2 DEF Outcomes
    <3>2. Sent(n).op = "send" /\ ~ Sent(n).ok
      BY <3>1, Zenon DEF Sent
    <3> QED
      BY <1>1, <3>2, PostKeeps DEF DoomedSession
  <2> QED
    BY <2>1, <2>2
<1>5. /\ q.live = p.live /\ q.open = p.open /\ q.pong = p.pong
      /\ q.pingT = p.pingT /\ q.deadT = p.deadT /\ q.ready = p.ready
  BY <1>1 DEF AsyncSend, Session
<1>6. Sound(p)
  BY <1>1, <1>3, <1>4 DEF Sound
<1> HIDE DEF p, q
<1> QED
  BY <1>1, <1>5, <1>6, SameSound DEF q

LEMMA CancelKeeps ==
    ASSUME NEW r \in Session
    PROVE  /\ CancelPing(r).live = r.live /\ CancelPing(r).open = r.open
           /\ CancelPing(r).pong = r.pong
           /\ FailureQueued(r) => FailureQueued(CancelPing(r))
           /\ CancelDead(r).live = r.live /\ CancelDead(r).open = r.open
           /\ CancelDead(r).pong = r.pong
           /\ FailureQueued(r) => FailureQueued(CancelDead(r))
<1> DEFINE p == [r EXCEPT !.pingT = FALSE]
           d == [r EXCEPT !.deadT = FALSE]
<1>1. /\ p \in Session /\ d \in Session
      /\ p.live = r.live /\ p.open = r.open /\ p.pong = r.pong /\ p.ready = r.ready
      /\ d.live = r.live /\ d.open = r.open /\ d.pong = r.pong /\ d.ready = r.ready
  BY DEF Session
<1>2. /\ CancelPing(r) = r \/ CancelPing(r) = Post(p, Done("ping", FALSE))
      /\ CancelDead(r) = r \/ CancelDead(r) = Post(d, Done("dead", FALSE))
  BY DEF CancelPing, CancelDead
<1> HIDE DEF p, d
<1>3. \A q \in Session, h \in Handler :
        /\ Post(q, h).live = q.live /\ Post(q, h).open = q.open /\ Post(q, h).pong = q.pong
        /\ FailureQueued(q) => FailureQueued(Post(q, h))
  BY PostKeeps DEF Post, Session
<1>4. (FailureQueued(r) => FailureQueued(p)) /\ (FailureQueued(r) => FailureQueued(d))
  BY <1>1 DEF FailureQueued
<1>5. /\ Done("ping", FALSE) \in Handler /\ Done("dead", FALSE) \in Handler
  BY DoneType
<1> DEFINE pp == Post(p, Done("ping", FALSE))
           dd == Post(d, Done("dead", FALSE))
<1>6. /\ pp.live = r.live /\ pp.open = r.open /\ pp.pong = r.pong
      /\ FailureQueued(r) => FailureQueued(pp)
  BY <1>1, <1>3, <1>4, <1>5
<1>7. /\ dd.live = r.live /\ dd.open = r.open /\ dd.pong = r.pong
      /\ FailureQueued(r) => FailureQueued(dd)
  BY <1>1, <1>3, <1>4, <1>5
<1> HIDE DEF pp, dd
<1> QED
  BY <1>2, <1>6, <1>7 DEF pp, dd

(* Arming a timer starts a watch and leaves the doom alone. *)
LEMMA ArmPingSound ==
    ASSUME NEW r \in Session
    PROVE  /\ ArmPing(r) \in Session /\ WatchedSession(ArmPing(r))
           /\ ArmPing(r).live = r.live /\ ArmPing(r).open = r.open
           /\ DoomedSession(r) => DoomedSession(ArmPing(r))
<1> DEFINE c == CancelPing(r)
           p == [c EXCEPT !.pingT = TRUE]
<1>1. c \in Session /\ ArmPing(r) = p
  BY CancelPingType DEF ArmPing
<1>2. /\ c.live = r.live /\ c.open = r.open
      /\ FailureQueued(r) => FailureQueued(c)
  BY CancelKeeps
<1> HIDE DEF c
<1>3. /\ p \in Session /\ p.pingT = TRUE
      /\ p.live = c.live /\ p.open = c.open /\ p.ready = c.ready
  BY <1>1 DEF Session
<1> HIDE DEF p
<1>4. FailureQueued(c) => FailureQueued(p)
  BY <1>3 DEF FailureQueued
<1> QED
  BY <1>1, <1>2, <1>3, <1>4 DEF WatchedSession, PingDue, DoomedSession

LEMMA ArmDeadWatched ==
    ASSUME NEW r \in Session, ~ r.pong
    PROVE  ArmDead(r) \in Session /\ WatchedSession(ArmDead(r))
<1> DEFINE c == CancelDead(r)
           p == [c EXCEPT !.deadT = TRUE]
<1>1. c \in Session /\ c.pong = r.pong /\ ArmDead(r) = p
  BY CancelDeadType, CancelKeeps DEF ArmDead
<1> HIDE DEF c
<1>2. p \in Session /\ p.deadT = TRUE /\ p.pong = c.pong
  BY <1>1 DEF Session
<1> HIDE DEF p
<1> QED
  BY <1>1, <1>2 DEF WatchedSession, DeadPingDue

-----------------------------------------------------------------------------
(* Every action leaves the session it changes sound. *)

LEMMA UpdateSound ==
    ASSUME SessInv, NEW s \in Sess, NEW r, Sound(r), Update(s, r)
    PROVE  SessInv'
BY DEF SessInv, Sound, Update

LEMMA InvGives ==
    ASSUME SessInv, NEW s \in Sess
    PROVE  sess[s] \in Session /\ Sound(sess[s])
BY DEF SessInv, Sound

(* Taking the head off keeps soundness unless it was the watch or the doom. *)
LEMMA RestSound ==
    ASSUME SessInv, NEW s \in Sess, sess[s].ready # <<>>
    PROVE  /\ Rest(s) \in Session /\ This(s) \in Handler
           /\ Rest(s).live = sess[s].live /\ Rest(s).open = sess[s].open
           /\ Rest(s).pong = sess[s].pong
           /\ This(s).op \notin {"ping", "dead"} => WatchedSession(Rest(s))
           /\ This(s).op = "dead" /\ sess[s].pong => WatchedSession(Rest(s))
           /\ This(s).op # "send" \/ This(s).ok => DoomedSession(Rest(s))
<1>1. sess[s] \in Session /\ Sound(sess[s])
  BY InvGives
<1> DEFINE q == Rest(s)
<1>0. q = [sess[s] EXCEPT !.ready = Tail(@)]
  BY DEF Rest
<1>a. This(s) = Head(sess[s].ready)
  BY DEF This
<1> HIDE DEF q
<1>b. /\ q \in Session /\ Head(sess[s].ready) \in Handler
      /\ \A op : Queued(sess[s], op) => Queued(q, op) \/ Head(sess[s].ready).op = op
      /\ FailureQueued(sess[s]) =>
            FailureQueued(q) \/ (Head(sess[s].ready).op = "send" /\ ~ Head(sess[s].ready).ok)
  BY <1>0, <1>1, RestKeeps
<1>2. /\ Rest(s) \in Session /\ This(s) \in Handler
      /\ \A op : Queued(sess[s], op) => Queued(Rest(s), op) \/ This(s).op = op
      /\ FailureQueued(sess[s]) =>
            FailureQueued(Rest(s)) \/ (This(s).op = "send" /\ ~ This(s).ok)
  BY <1>a, <1>b DEF q
<1>3. /\ Rest(s).live = sess[s].live /\ Rest(s).open = sess[s].open
      /\ Rest(s).pong = sess[s].pong
      /\ Rest(s).pingT = sess[s].pingT /\ Rest(s).deadT = sess[s].deadT
  BY <1>1 DEF Rest, Session
<1>4. This(s).op \notin {"ping", "dead"} => WatchedSession(Rest(s))
  BY <1>1, <1>2, <1>3 DEF Sound, WatchedSession, PingDue, DeadPingDue
<1>5. This(s).op = "dead" /\ sess[s].pong => WatchedSession(Rest(s))
  BY <1>1, <1>2, <1>3 DEF Sound, WatchedSession, PingDue, DeadPingDue
<1>6. This(s).op # "send" \/ This(s).ok => DoomedSession(Rest(s))
  BY <1>1, <1>2, <1>3 DEF Sound, DoomedSession
<1> QED
  BY <1>2, <1>3, <1>4, <1>5, <1>6

LEMMA AcceptStep ==
    ASSUME SessInv, NEW s \in Sess, Accept(s)
    PROVE  SessInv'
<1>1. \A p \in {"up", "closed"}, o \in BOOLEAN : Sound(NewSession(p, o))
  <2> SUFFICES ASSUME NEW p \in {"up", "closed"}, NEW o \in BOOLEAN
               PROVE  Sound(NewSession(p, o))
    OBVIOUS
  <2>1. M("none") \in Msg /\ 0 \in Nat /\ <<>> \in Seq(Msg) /\ <<>> \in Seq(Unit)
        /\ <<>> \in Seq(Handler)
    BY MType DEF Signals
  <2>2. NewSession(p, o) \in Session /\ NewSession(p, o).live = FALSE
    BY <2>1 DEF NewSession, Session
  <2> QED
    BY <2>2 DEF Sound, WatchedSession, DoomedSession
<1>2. Sound(AsyncReceive(NewSession("up", TRUE))) /\ Sound(AsyncReceive(NewSession("closed", FALSE)))
  BY <1>1, AsyncReceiveSound
<1> QED
  BY <1>2, UpdateSound DEF Accept

LEMMA KillSessionStep ==
    ASSUME SessInv, pool \in Seq(Sess), KillSession
    PROVE  SessInv' /\ pool' \in Seq(Sess)
<1>1. PICK i \in DOMAIN pool : /\ Update(pool[i], Stop(sess[pool[i]]))
                              /\ pool' = RemoveAt(pool, i)
  BY DEF KillSession
<1>2. pool[i] \in Sess /\ i \in 1..Len(pool) /\ Len(pool) \in Nat
  BY <1>1
<1>3. SessInv'
  BY <1>1, <1>2, InvGives, StopSound, UpdateSound
<1>4. SubSeq(pool, 1, i - 1) \in Seq(Sess) /\ SubSeq(pool, i + 1, Len(pool)) \in Seq(Sess)
  <2>1. \A j \in 1..(i - 1) : pool[j] \in Sess
    BY <1>2
  <2>2. \A j \in (i + 1)..Len(pool) : pool[j] \in Sess
    BY <1>2
  <2> QED
    BY <1>2, <2>1, <2>2, SubSeqProperties
<1> QED
  BY <1>1, <1>3, <1>4, ConcatProperties DEF RemoveAt

LEMMA StartCommandStep ==
    ASSUME SessInv, NEW s \in Sess, NEW st \in Stations, StartCommand(s, st)
    PROVE  SessInv'
<1> DEFINE b == sess[s].mixed \/ ~ InFlight(sess[s]) \subseteq Given
           r == [sess[s] EXCEPT !.cb = st, !.buf = Request(st), !.next = TRUE,
                                !.mixed = b]
<1>1. sess[s] \in Session /\ Sound(sess[s])
  BY InvGives
<1>2. CASE sess[s].live
  <2>1. Request(st) \in Msg
    BY DEF Request, Msg
  <2>2. /\ r \in Session /\ r.live = sess[s].live /\ r.open = sess[s].open
        /\ r.pong = sess[s].pong /\ r.pingT = sess[s].pingT
        /\ r.deadT = sess[s].deadT /\ r.ready = sess[s].ready
    <3>1. b \in BOOLEAN
      OBVIOUS
    <3> HIDE DEF b
    <3> QED
      BY <1>1, <2>1, <3>1 DEF Session
  <2>3. PICK n \in Outcomes(r, 0) : Update(s, AsyncSend(r, 0, n))
    BY <1>2 DEF StartCommand
  <2> HIDE DEF r
  <2>4. Sound(r)
    BY <1>1, <2>2, SameSound
  <2>5. Sound(AsyncSend(r, 0, n))
    BY <2>2, <2>3, <2>4, AsyncSendSound DEF Sound
  <2> QED
    BY <2>3, <2>5, UpdateSound
<1>3. CASE ~ sess[s].live
  BY <1>3 DEF StartCommand, SessInv
<1> QED
  BY <1>2, <1>3

(* Session::_sendCommand: the error, the mismatch, the complete send. *)
LEMMA SendStep ==
    ASSUME SessInv, temp \in Nat, NEW s \in Sess,
           OnSendFailed(s) \/ OnSendMismatch(s) \/ OnSendComplete(s)
    PROVE  SessInv' /\ temp' \in Nat
<1>1. sess[s] \in Session /\ Sound(sess[s])
  BY InvGives
<1>2. sess[s].ready # <<>> /\ This(s).op = "send"
  BY DEF OnSendFailed, OnSendMismatch, OnSendComplete, Due, This
<1>3. Rest(s) \in Session /\ WatchedSession(Rest(s)) /\ This(s).n \in Nat
  BY <1>2, RestSound DEF Handler
<1>4. CASE OnSendFailed(s)
  BY <1>3, <1>4, StopSound, UpdateSound DEF OnSendFailed
<1>5. CASE OnSendMismatch(s)
  <2> DEFINE total == temp + This(s).n
  <2>1. total \in Nat /\ temp' = total
    BY <1>3, <1>5 DEF OnSendMismatch
  <2>2. PICK n \in Outcomes(Rest(s), total) : Update(s, AsyncSend(Rest(s), total, n))
    BY <1>5 DEF OnSendMismatch
  <2> HIDE DEF total
  <2>3. Sound(AsyncSend(Rest(s), total, n))
    BY <1>3, <2>1, <2>2, AsyncSendSound
  <2> QED
    BY <2>1, <2>2, <2>3, UpdateSound
<1>6. CASE OnSendComplete(s)
  <2> DEFINE r == [Rest(s) EXCEPT !.buf = M("none"), !.next = FALSE]
  <2>1. This(s).ok /\ DoomedSession(Rest(s))
    BY <1>2, <1>6, RestSound DEF OnSendComplete
  <2>2. M("none") \in Msg
    BY MType DEF Signals
  <2>3. /\ r \in Session /\ r.live = Rest(s).live /\ r.open = Rest(s).open
        /\ r.pong = Rest(s).pong /\ r.pingT = Rest(s).pingT
        /\ r.deadT = Rest(s).deadT /\ r.ready = Rest(s).ready
    BY <1>3, <2>2 DEF Session
  <2>4. Update(s, r) \/ Update(s, AsyncReceive(r))
    BY <1>6 DEF OnSendComplete
  <2> HIDE DEF r
  <2>5. Sound(r)
    BY <1>3, <2>1, <2>3, SameSound DEF Sound
  <2>6. SessInv'
    BY <2>4, <2>5, AsyncReceiveSound, UpdateSound
  <2> QED
    BY <1>6, <2>6 DEF OnSendComplete
<1> QED
  BY <1>4, <1>5, <1>6, <1>3, <1>1 DEF OnSendFailed

(* Session::_reciveCommand, with what _commandAnalize dispatches to. *)
LEMMA ReceiveStep ==
    ASSUME SessInv, got \in [Stations -> Seq(Stations)], NEW s \in Sess,
           OnReceiveFailed(s) \/ OnReceivePartial(s) \/ OnReceive(s)
    PROVE  SessInv' /\ got' \in [Stations -> Seq(Stations)]
<1>1. sess[s] \in Session /\ Sound(sess[s])
  BY InvGives
<1>2. sess[s].ready # <<>> /\ This(s).op \in {"recv", "part"}
  BY DEF OnReceiveFailed, OnReceivePartial, OnReceive, Due, This
<1>3. /\ Rest(s) \in Session /\ Sound(Rest(s)) /\ This(s).msg \in Msg
      /\ Foremost(s) \in Msg /\ M("none") \in Msg
  BY <1>1, <1>2, RestSound, MType DEF Handler, Sound, Foremost, Session, Signals
<1>4. ASSUME NEW m \in Msg
      PROVE  Sound([Rest(s) EXCEPT !.front = m])
  <2> DEFINE r == [Rest(s) EXCEPT !.front = m]
  <2>1. /\ r \in Session /\ r.live = Rest(s).live /\ r.open = Rest(s).open
        /\ r.pong = Rest(s).pong /\ r.pingT = Rest(s).pingT
        /\ r.deadT = Rest(s).deadT /\ r.ready = Rest(s).ready
    BY <1>3, <1>4 DEF Session
  <2> HIDE DEF r
  <2>2. Sound(r)
    BY <1>3, <2>1, SameSound
  <2> QED
    BY <2>2 DEF r
<1>5. CASE OnReceiveFailed(s)
  BY <1>3, <1>5, StopSound, UpdateSound DEF OnReceiveFailed
<1>6. CASE OnReceivePartial(s)
  <2>1. Sound(AsyncReceive([Rest(s) EXCEPT !.front = Foremost(s)]))
    BY <1>3, <1>4, AsyncReceiveSound
  <2> QED
    BY <1>6, <2>1, UpdateSound DEF OnReceivePartial
<1>7. CASE OnReceive(s)
  <2> DEFINE m == Foremost(s)
             r == [Rest(s) EXCEPT !.front = M("none")]
  <2>1. Sound(r) /\ r \in Session /\ m \in Msg
    BY <1>3, <1>4 DEF Sound
  <2>2. CASE Update(s, AnalizePing(r, m)) /\ UNCHANGED got
    <3> HIDE DEF r, m
    <3>1. CASE m.kind = "pong"
      <4> DEFINE r1 == [r EXCEPT !.pong = TRUE]
                 r2 == CancelDead(r1)
      <4>1. /\ r1 \in Session /\ r1.live = r.live /\ r1.open = r.open
            /\ r1.ready = r.ready
        BY <2>1 DEF Session
      <4>2. DoomedSession(r1)
        BY <2>1, <4>1 DEF Sound, DoomedSession, FailureQueued
      <4> HIDE DEF r1
      <4>3. r2 \in Session /\ DoomedSession(r2)
        BY <4>1, <4>2, CancelDeadType, CancelKeeps DEF DoomedSession
      <4> HIDE DEF r2
      <4>4. Sound(ArmPing(r2))
        BY <4>3, ArmPingSound DEF Sound
      <4>5. AnalizePing(r, m) = ArmPing(r2)
        BY <3>1 DEF AnalizePing, r1, r2
      <4> QED
        BY <2>2, <4>4, <4>5, UpdateSound
    <3>2. CASE m.kind # "pong"
      BY <2>1, <2>2, <3>2, StopSound, UpdateSound DEF AnalizePing
    <3> QED
      BY <3>1, <3>2
  <2>3. CASE /\ m.kind = "static" /\ Update(s, r)
             /\ got' = Called(r.cb, m)
    <3>1. m.st \in Stations /\ r.cb \in Stations \cup {NoStation}
      <4> HIDE DEF r, m
      <4> QED
        BY <2>1, <2>3 DEF Msg, Signals, Session
    <3>2. SessInv'
      BY <2>1, <2>3, UpdateSound
    <3>3. ASSUME NEW st \in Stations PROVE Append(got[st], m.st) \in Seq(Stations)
      <4> HIDE DEF m
      <4> QED
        BY <3>1
    <3> HIDE DEF r, m
    <3>4. CASE r.cb = NoStation
      BY <2>3, <3>2, <3>4 DEF Called
    <3>5. CASE r.cb # NoStation
      <4>1. r.cb \in Stations
        BY <3>1, <3>5
      <4> DEFINE e == Append(got[r.cb], m.st)
      <4>2. e \in Seq(Stations) /\ got' = [got EXCEPT ![r.cb] = e]
        BY <2>3, <3>3, <3>5, <4>1 DEF Called
      <4> HIDE DEF e
      <4> QED
        BY <3>2, <4>1, <4>2
    <3> QED
      BY <3>4, <3>5
  <2>4. CASE /\ LET a == ArmPing([r EXCEPT !.live = TRUE, !.buf = M("connected")])
                IN  \E n \in Outcomes(a, 0) : Update(s, AsyncSend(a, 0, n))
             /\ UNCHANGED got
    <3> DEFINE b == [r EXCEPT !.live = TRUE, !.buf = M("connected")]
               a == ArmPing(b)
    <3>1. M("connected") \in Msg
      BY MType DEF Signals
    <3> HIDE DEF r, m
    <3>2. b \in Session
      BY <2>1, <3>1 DEF Session
    <3>3. PICK n \in Outcomes(a, 0) : Update(s, AsyncSend(a, 0, n))
      BY <2>4
    <3> HIDE DEF b
    <3>4. a \in Session /\ WatchedSession(a)
      BY <3>2, ArmPingSound
    <3> HIDE DEF a
    <3> QED
      BY <2>4, <3>3, <3>4, AsyncSendSound, UpdateSound
  <2> QED
    BY <1>7, <2>2, <2>3, <2>4 DEF OnReceive
<1> QED
  BY <1>5, <1>6, <1>7 DEF OnReceiveFailed, OnReceivePartial

(* Session::_ping and Session::_deadPing. *)
LEMMA PingStep ==
    ASSUME SessInv, NEW s \in Sess, OnPing(s) \/ OnDeadPing(s)
    PROVE  SessInv'
<1>1. sess[s] \in Session /\ Sound(sess[s]) /\ sess[s].ready # <<>>
  BY InvGives DEF OnPing, OnDeadPing, Due
<1>2. Rest(s) \in Session /\ Rest(s).live = sess[s].live
  BY <1>1, RestSound
<1>3. CASE OnPing(s)
  <2>1. CASE Update(s, Stop(Rest(s)))
    BY <1>2, <2>1, StopSound, UpdateSound
  <2>2. CASE ~ sess[s].live /\ Update(s, Rest(s))
    <3>1. Sound(Rest(s))
      BY <1>2, <2>2 DEF Sound, WatchedSession, DoomedSession
    <3> QED
      BY <2>2, <3>1, UpdateSound
  <2>3. CASE LET r == ArmDead([Rest(s) EXCEPT !.buf = M("ping"), !.next = TRUE,
                                              !.pong = FALSE])
             IN  \E n \in Outcomes(r, 0) : Update(s, AsyncSend(r, 0, n))
    <3> DEFINE b == [Rest(s) EXCEPT !.buf = M("ping"), !.next = TRUE, !.pong = FALSE]
               r == ArmDead(b)
    <3>1. M("ping") \in Msg
      BY MType DEF Signals
    <3>2. b \in Session /\ ~ b.pong
      BY <1>2, <3>1 DEF Session
    <3>3. PICK n \in Outcomes(r, 0) : Update(s, AsyncSend(r, 0, n))
      BY <2>3
    <3> HIDE DEF b
    <3>4. r \in Session /\ WatchedSession(r)
      BY <3>2, ArmDeadWatched
    <3> HIDE DEF r
    <3> QED
      BY <3>3, <3>4, AsyncSendSound, UpdateSound
  <2> QED
    BY <1>3, <2>1, <2>2, <2>3 DEF OnPing
<1>4. CASE OnDeadPing(s)
  <2>1. CASE sess[s].pong
    <3>1. Sound(Rest(s))
      BY <1>1, <1>4, <2>1, RestSound DEF OnDeadPing, Due, This, Sound
    <3> QED
      BY <1>4, <2>1, <3>1, UpdateSound DEF OnDeadPing
  <2>2. CASE ~ sess[s].pong
    BY <1>2, <1>4, <2>2, StopSound, UpdateSound DEF OnDeadPing
  <2> QED
    BY <2>1, <2>2
<1> QED
  BY <1>3, <1>4

(* A timer that expires passes its watch to the handler it queues. *)
LEMMA TimerStep ==
    ASSUME SessInv, NEW s \in Sess, PingExpires(s) \/ DeadPingExpires(s)
    PROVE  SessInv'
<1>1. sess[s] \in Session /\ Sound(sess[s])
  BY InvGives
<1> DEFINE p == [sess[s] EXCEPT !.pingT = FALSE]
           d == [sess[s] EXCEPT !.deadT = FALSE]
           hp == Done("ping", TRUE)
           hd == Done("dead", TRUE)
<1>2. hp \in Handler /\ hp.op = "ping" /\ hd \in Handler /\ hd.op = "dead"
  BY DoneType DEF Done
<1>3. Update(s, Post(p, hp)) \/ (sess[s].deadT /\ Update(s, Post(d, hd)))
  BY DEF PingExpires, DeadPingExpires
<1>4. /\ p \in Session /\ p.live = sess[s].live /\ p.open = sess[s].open
      /\ p.ready = sess[s].ready
      /\ d \in Session /\ d.live = sess[s].live /\ d.open = sess[s].open
      /\ d.pong = sess[s].pong /\ d.pingT = sess[s].pingT /\ d.ready = sess[s].ready
  BY <1>1 DEF Session
<1> HIDE DEF p, d, hp, hd
<1>5. Sound(Post(p, hp))
  <2> DEFINE q == Post(p, hp)
  <2>1. q \in Session /\ q.live = p.live /\ q.open = p.open
    BY <1>2, <1>4, PostType DEF Post, Session
  <2>2. Queued(q, "ping") /\ (FailureQueued(p) => FailureQueued(q))
    BY <1>2, <1>4, PostKeeps
  <2> HIDE DEF q
  <2>3. FailureQueued(sess[s]) => FailureQueued(p)
    BY <1>4 DEF FailureQueued
  <2> QED
    BY <1>1, <1>4, <2>1, <2>2, <2>3 DEF Sound, WatchedSession, PingDue, DoomedSession, q
<1>6. Sound(Post(d, hd))
  <2> DEFINE q == Post(d, hd)
  <2>1. /\ q \in Session /\ q.live = d.live /\ q.open = d.open
        /\ q.pong = d.pong /\ q.pingT = d.pingT
    BY <1>2, <1>4, PostType DEF Post, Session
  <2>2. /\ Queued(q, "dead") /\ (Queued(d, "ping") => Queued(q, "ping"))
        /\ FailureQueued(d) => FailureQueued(q)
    BY <1>2, <1>4, PostKeeps
  <2> HIDE DEF q
  <2>3. /\ Queued(sess[s], "ping") => Queued(d, "ping")
        /\ FailureQueued(sess[s]) => FailureQueued(d)
    BY <1>4 DEF Queued, FailureQueued
  <2>4. WatchedSession(q)
    BY <1>1, <1>4, <2>1, <2>2, <2>3 DEF Sound, WatchedSession, PingDue, DeadPingDue
  <2>5. DoomedSession(q)
    BY <1>1, <1>4, <2>1, <2>2, <2>3 DEF Sound, DoomedSession
  <2> QED
    BY <2>1, <2>4, <2>5 DEF Sound, q
<1> QED
  BY <1>3, <1>5, <1>6, UpdateSound

(* The connection and the worker change what can be read and written only. *)
LEMMA DeliverStep ==
    ASSUME SessInv, NEW s \in Sess, Deliver(s) \/ DeliverEnd(s)
    PROVE  SessInv'
<1>1. sess[s] \in Session /\ Sound(sess[s])
  BY InvGives
<1> DEFINE less == sess[s].reads - 1
<1>2. less \in Nat /\ M("none") \in Msg
  <2>1. sess[s].reads > 0
    BY DEF Deliver, DeliverEnd
  <2>2. sess[s].reads \in Nat
    BY <1>1 DEF Session
  <2>3. M("none") \in Msg
    BY MType DEF Signals
  <2> QED
    BY <2>1, <2>2, <2>3
<1>3. ASSUME NEW q \in Seq(Msg), NEW b \in BOOLEAN
      PROVE  Sound([sess[s] EXCEPT !.reads = less, !.half = b, !.in = q])
  <2> HIDE DEF less
  <2> DEFINE r == [sess[s] EXCEPT !.reads = less, !.half = b, !.in = q]
  <2>1. /\ r \in Session /\ r.live = sess[s].live /\ r.open = sess[s].open
        /\ r.pong = sess[s].pong /\ r.pingT = sess[s].pingT
        /\ r.deadT = sess[s].deadT /\ r.ready = sess[s].ready
    BY <1>1, <1>2, <1>3 DEF Session
  <2> HIDE DEF r
  <2>2. Sound(r)
    BY <1>1, <2>1, SameSound
  <2> QED
    BY <2>2 DEF r
<1>4. CASE Deliver(s)
  <2> DEFINE first(k) == IF k = 0 THEN M("none") ELSE sess[s].in[1]
             Read(k, b) == [sess[s] EXCEPT !.reads = less, !.half = b,
                                           !.in = SubSeq(@, k + 1, Len(@))]
  <2>1. PICK k \in 0..Len(sess[s].in), op \in {"recv", "part"}, b \in BOOLEAN :
           Update(s, Post(Read(k, b), Received(op, first(k))))
    BY <1>4 DEF Deliver
  <2>2. sess[s].in \in Seq(Msg) /\ Len(sess[s].in) \in Nat
    BY <1>1 DEF Session
  <2>3. first(k) \in Msg
    BY <1>2, <2>1, <2>2
  <2>4. SubSeq(sess[s].in, k + 1, Len(sess[s].in)) \in Seq(Msg)
    BY <2>1, <2>2, SubSeqType
  <2>5. Sound(Read(k, b))
    BY <1>3, <2>4
  <2> HIDE DEF first, Read
  <2>6. Sound(Post(Read(k, b), Received(op, first(k))))
    BY <2>3, <2>5, ReceivedType, PostSound
  <2> QED
    BY <2>1, <2>6, UpdateSound
<1>5. CASE DeliverEnd(s)
  <2> DEFINE r == [sess[s] EXCEPT !.reads = less]
  <2>1. /\ r \in Session /\ r.live = sess[s].live /\ r.open = sess[s].open
        /\ r.pong = sess[s].pong /\ r.pingT = sess[s].pingT
        /\ r.deadT = sess[s].deadT /\ r.ready = sess[s].ready
    <3> HIDE DEF less
    <3> QED
      BY <1>1, <1>2 DEF Session
  <2>2. Update(s, Post(r, Done("recv", FALSE)))
    BY <1>5 DEF DeliverEnd
  <2> HIDE DEF r
  <2>3. Sound(Post(r, Done("recv", FALSE)))
    BY <1>1, <2>1, SameSound, DoneType, PostSound
  <2> QED
    BY <2>2, <2>3, UpdateSound
<1> QED
  BY <1>4, <1>5

LEMMA WorkerStep ==
    ASSUME SessInv, NEW s \in Sess,
           WorkerConnect(s) \/ WorkerAnswer(s) \/ WorkerFails(s)
    PROVE  SessInv'
<1>1. sess[s] \in Session /\ Sound(sess[s])
  BY InvGives
<1>2. ASSUME NEW r \in Session,
             r.live = sess[s].live, r.open = sess[s].open, r.pong = sess[s].pong,
             r.pingT = sess[s].pingT, r.deadT = sess[s].deadT, r.ready = sess[s].ready,
             Update(s, r)
      PROVE  SessInv'
  BY <1>1, <1>2, SameSound, UpdateSound
<1>3. ASSUME NEW r \in Session, NEW m \in Msg
      PROVE  /\ Say(r, m) \in Session
             /\ Say(r, m).live = r.live /\ Say(r, m).open = r.open
             /\ Say(r, m).pong = r.pong /\ Say(r, m).pingT = r.pingT
             /\ Say(r, m).deadT = r.deadT /\ Say(r, m).ready = r.ready
  <2> DEFINE q == Append(r.in, m)
  <2>1. q \in Seq(Msg)
    BY <1>3 DEF Session
  <2>2. Say(r, m) = [r EXCEPT !.in = q]
    BY DEF Say
  <2> HIDE DEF q
  <2> QED
    BY <1>3, <2>1, <2>2 DEF Session
<1>4. CASE WorkerConnect(s)
  <2>1. M("connect") \in Msg
    BY MType DEF Signals
  <2> DEFINE r == Say(sess[s], M("connect"))
  <2>2. /\ r \in Session /\ r.live = sess[s].live /\ r.open = sess[s].open
        /\ r.pong = sess[s].pong /\ r.pingT = sess[s].pingT
        /\ r.deadT = sess[s].deadT /\ r.ready = sess[s].ready
    BY <1>1, <1>3, <2>1
  <2>3. Update(s, r)
    BY <1>4 DEF WorkerConnect
  <2> HIDE DEF r
  <2> QED
    BY <1>2, <2>2, <2>3
<1>5. CASE WorkerAnswer(s)
  <2> DEFINE m == Head(sess[s].out).msg
             left == SubSeq(sess[s].out, Size(m) + 1, Len(sess[s].out))
             r == [sess[s] EXCEPT !.out = left]
  <2>1. sess[s].out \in Seq(Unit) /\ sess[s].out # <<>>
    BY <1>1, <1>5 DEF Session, WorkerAnswer
  <2>2. m \in Msg
    <3>1. Head(sess[s].out) \in Unit
      BY <2>1
    <3> QED
      BY <3>1 DEF Unit
  <2>3. left \in Seq(Unit)
    BY <2>1, <2>2, SizeType, SubSeqType
  <2> HIDE DEF left
  <2>4. /\ r \in Session /\ r.live = sess[s].live /\ r.open = sess[s].open
        /\ r.pong = sess[s].pong /\ r.pingT = sess[s].pingT
        /\ r.deadT = sess[s].deadT /\ r.ready = sess[s].ready
    BY <1>1, <2>3 DEF Session
  <2> HIDE DEF m, r
  <2>5. \/ Update(s, r)
        \/ m.kind \in {"ping", "request"} /\ \E a \in Answers(m) : Update(s, Say(r, a))
    BY <1>5 DEF WorkerAnswer, r, left, m
  <2>6. CASE Update(s, r)
    BY <1>2, <2>4, <2>6
  <2>7. CASE m.kind \in {"ping", "request"} /\ \E a \in Answers(m) : Update(s, Say(r, a))
    <3>1. PICK a \in Answers(m) : Update(s, Say(r, a))
      BY <2>7
    <3>2. a \in Msg
      <4>1. CASE m.kind = "ping"
        <5>1. PICK kind \in {"pong"} \cup Refusals : a = M(kind)
          BY <3>1, <4>1 DEF Answers
        <5> QED
          BY <5>1, MType, SessionAssumption DEF SessionAssumption, Signals
      <4>2. CASE m.kind # "ping"
        <5>1. a = Static(m.st) /\ m.kind = "request"
          BY <2>7, <3>1, <4>2 DEF Answers
        <5> QED
          BY <2>2, <5>1 DEF Static, Msg, Signals
      <4> QED
        BY <4>1, <4>2
    <3> DEFINE q == Say(r, a)
    <3>3. /\ q \in Session /\ q.live = sess[s].live /\ q.open = sess[s].open
          /\ q.pong = sess[s].pong /\ q.pingT = sess[s].pingT
          /\ q.deadT = sess[s].deadT /\ q.ready = sess[s].ready
      BY <1>3, <2>4, <3>2
    <3> HIDE DEF q
    <3> QED
      BY <1>2, <3>1, <3>3 DEF q
  <2> QED
    BY <2>5, <2>6, <2>7
<1>6. CASE WorkerFails(s)
  <2>1. PICK p \in {"silent", "closed"} :
           Update(s, [sess[s] EXCEPT !.peer = p, !.out = <<>>])
    BY <1>6 DEF WorkerFails
  <2> DEFINE r == [sess[s] EXCEPT !.peer = p, !.out = <<>>]
  <2>2. <<>> \in Seq(Unit)
    OBVIOUS
  <2>3. /\ r \in Session /\ r.live = sess[s].live /\ r.open = sess[s].open
        /\ r.pong = sess[s].pong /\ r.pingT = sess[s].pingT
        /\ r.deadT = sess[s].deadT /\ r.ready = sess[s].ready
    BY <1>1, <2>2 DEF Session
  <2> HIDE DEF r
  <2> QED
    BY <1>2, <2>1, <2>3 DEF r
<1> QED
  BY <1>4, <1>5, <1>6

-----------------------------------------------------------------------------
(* The invariant and the theorems. *)

Inv ==
    /\ pool \in Seq(Sess) /\ temp \in Nat
    /\ asked \in SUBSET Stations /\ got \in [Stations -> Seq(Stations)]
    /\ SessInv

LEMMA InitInv == Init => Inv
<1> SUFFICES ASSUME Init PROVE Inv
  OBVIOUS
<1>1. M("none") \in Msg /\ 0 \in Nat /\ <<>> \in Seq(Msg) /\ <<>> \in Seq(Unit)
      /\ <<>> \in Seq(Handler)
  BY MType DEF Signals
<1> DEFINE r == NewSession("none", FALSE)
<1>2. r \in Session /\ r.live = FALSE
  BY <1>1 DEF NewSession, Session
<1>3. sess = [s \in Sess |-> r]
  BY DEF Init
<1> HIDE DEF r
<1>4. SessInv
  BY <1>2, <1>3 DEF SessInv, Sound, WatchedSession, DoomedSession
<1> QED
  BY <1>4 DEF Init, Inv

LEMMA NextInv == Inv /\ [Next]_vars => Inv'
<1> SUFFICES ASSUME Inv, [Next]_vars PROVE Inv'
  OBVIOUS
<1> USE DEF Inv
<1>1. CASE UNCHANGED vars
  BY <1>1 DEF vars, SessInv
<1>2. CASE KillSession
  BY <1>2, KillSessionStep DEF KillSession
<1>3. ASSUME NEW s \in Sess, Accept(s) PROVE Inv'
  <2>1. Append(pool, s) \in Seq(Sess)
    OBVIOUS
  <2> QED
    BY <1>3, <2>1, AcceptStep DEF Accept
<1>4. ASSUME NEW s \in Sess, OnSendFailed(s) \/ OnSendMismatch(s) \/ OnSendComplete(s)
      PROVE  Inv'
  BY <1>4, SendStep DEF OnSendFailed, OnSendMismatch, OnSendComplete
<1>5. ASSUME NEW s \in Sess, OnReceiveFailed(s) \/ OnReceivePartial(s) \/ OnReceive(s)
      PROVE  Inv'
  BY <1>5, ReceiveStep DEF OnReceiveFailed, OnReceivePartial, OnReceive
<1>6. ASSUME NEW s \in Sess, OnPing(s) \/ OnDeadPing(s) PROVE Inv'
  BY <1>6, PingStep DEF OnPing, OnDeadPing
<1>7. ASSUME NEW s \in Sess, PingExpires(s) \/ DeadPingExpires(s) PROVE Inv'
  BY <1>7, TimerStep DEF PingExpires, DeadPingExpires
<1>8. ASSUME NEW s \in Sess, Deliver(s) \/ DeliverEnd(s) PROVE Inv'
  BY <1>8, DeliverStep DEF Deliver, DeliverEnd
<1>9. ASSUME NEW s \in Sess, WorkerConnect(s) \/ WorkerAnswer(s) \/ WorkerFails(s)
      PROVE  Inv'
  BY <1>9, WorkerStep DEF WorkerConnect, WorkerAnswer, WorkerFails
<1>10. ASSUME NEW s \in Sess, NEW st \in Stations, StartCommand(s, st) PROVE Inv'
  BY <1>10, StartCommandStep DEF StartCommand
<1> QED
  BY <1>1, <1>2, <1>3, <1>4, <1>5, <1>6, <1>7, <1>8, <1>9, <1>10 DEF Next, RunHandler

LEMMA Invariance == Spec => []Inv
BY InitInv, NextInv, PTL DEF Spec

(* Every object of the worker server keeps its type, for any number of     *)
(* sessions, stations and pending operations.                               *)
THEOREM TypeCorrect == Spec => []TypeOK
<1>1. Inv => TypeOK
  BY DEF Inv, SessInv, TypeOK
<1> QED
  BY <1>1, Invariance, PTL

(* A live session always has a ping or a dead-ping timer running, or the   *)
(* handler of one queued: _ping, _analizePing, _autorization and _deadPing *)
(* never leave it without a supervisor.                                     *)
THEOREM AlwaysWatched == Spec => []Watched
<1>1. Inv => Watched
  BY DEF Inv, SessInv, Sound, Watched
<1> QED
  BY <1>1, Invariance, PTL

(* A session that _autorization revives after stop() has the failure that  *)
(* will stop it again in its queue.                                         *)
THEOREM RevivedIsDoomed == Spec => []ResurrectedIsDoomed
<1>1. Inv => ResurrectedIsDoomed
  BY DEF Inv, SessInv, Sound, ResurrectedIsDoomed
<1> QED
  BY <1>1, Invariance, PTL
=============================================================================
