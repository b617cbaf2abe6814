---------------------------- MODULE DbLoad_proofs ----------------------------
(***************************************************************************)
(* TypeOK and OneChainPerLoad of DbLoad for any tables; when loads do not   *)
(* overlap also SingleFile, RowsOfTable and LossCostsOneTable, that DbLoad  *)
(* implements Loader, and what holds of one load that loses no connection:  *)
(* NoSessionLeftBehind and OneLoadKeepsServing.                             *)
(***************************************************************************)
EXTENDS DbLoad, SequenceTheorems, FiniteSetTheorems, TLAPS

(* Until the first table is asked for no message names one; as long as      *)
(* loads do not overlap, a message that names a table names the last one    *)
(* asked for.                                                               *)
Known(c) == {m \in Message : \/ m.of = NoTable
                             \/ c.table # NoTable /\ (~ Overlap => m.of = c.table)}
HandlerOf(c) == {h \in Handler : h.msg \in Known(c)}

ClientOK(c) ==
    /\ c \in Client /\ c.ready \in Seq(HandlerOf(c))
    /\ c.conn => c.sock = "connecting"
    /\ c.recv > 0 => c.sock = "up"

(* Only the latest connection carries messages, as long as it is up.        *)
Silent(d) == d.in = <<>> /\ d.out = <<>>
SessionsOK(c, d) ==
    /\ d \in Seq(DataBase)
    /\ c.sock = "up" => d # <<>>
    /\ \A k \in DOMAIN d : d[k].in \in Seq(Known(c)) /\ d[k].out \in Seq(Known(c))
    /\ \A k \in DOMAIN d : Silent(d[k]) \/ (k = Len(d) /\ c.sock = "up")

OthersOK ==
    /\ resp \in [Table -> Table \cup {NoTable}]
    /\ serving \in BOOLEAN
    /\ pool \in Seq(DOMAIN db) /\ IsInjective(pool)
    /\ fresh \subseteq Table
    /\ {loads, losses, done} \subseteq Nat

(* The client's operations and handlers, and what is under way.             *)
Bit(b) == IF b THEN 1 ELSE 0
Count(c) == Len(c.ready) + c.recv + Bit(c.conn)
Messages(b) == Len(b.in) + Len(b.out)
Under(d) == IF d = <<>> THEN 0 ELSE Messages(d[Len(d)])

(* The next handler has a connection before it on which nothing is under    *)
(* way: one just made, or one whose answer it holds.                        *)
Free(c) ==
    /\ c.ready # <<>>
    /\ LET h == Head(c.ready)
       IN  h.ok /\ (h.op = "connect" \/ (h.op = "recv" /\ ~ h.part))

(* A load that no other disturbs.                                           *)
Alone(c, d) == Count(c) <= 1 /\ Under(d) <= 1 /\ (Free(c) => Under(d) = 0)

Inv ==
    /\ ClientOK(cli) /\ SessionsOK(cli, db) /\ OthersOK
    /\ Count(cli) <= loads
    /\ ~ Overlap => Alone(cli, db) /\ RowsOfTable

LEMMA InvTypes == Inv => TypeOK /\ OneChainPerLoad
<1>1. Operations = Count(cli)
  BY Zenon DEF Operations, Count, Bit
<1> QED
  BY <1>1 DEF Inv, ClientOK, SessionsOK, OthersOK, TypeOK, OneChainPerLoad

LEMMA BitType == \A b : Bit(b) \in {0, 1} /\ Bit(TRUE) = 1 /\ Bit(FALSE) = 0
BY DEF Bit

-----------------------------------------------------------------------------
(* Messages and handlers. *)

LEMMA MType ==
    ASSUME NEW kind \in {"connect", "disconnect", "success", "fail", "bye"}, NEW c
    PROVE  M(kind) \in Message /\ M(kind) \in Known(c) /\ M(kind).kind = kind
BY DEF M, Message, Known

LEMMA DoneType ==
    ASSUME NEW op \in {"connect", "send", "recv"}, NEW ok \in BOOLEAN, NEW c
    PROVE  Done(op, ok) \in HandlerOf(c)
BY MType DEF Done, HandlerOf, Handler

LEMMA KnownOnly ==
    ASSUME NEW c
    PROVE  HandlerOf(c) \subseteq Handler /\ Known(c) \subseteq Message
BY DEF HandlerOf, Known

(* Another client record with the same table knows the same messages.       *)
LEMMA SameKnown ==
    ASSUME NEW c, NEW d, c.table = d.table
    PROVE  Known(c) = Known(d) /\ HandlerOf(c) = HandlerOf(d)
BY DEF HandlerOf, Known

LEMMA AppendType ==
    ASSUME NEW S, NEW q \in Seq(S), NEW e \in S
    PROVE  Append(q, e) \in Seq(S) /\ Len(Append(q, e)) = Len(q) + 1
OBVIOUS

LEMMA TailType ==
    ASSUME NEW S, NEW q \in Seq(S), q # <<>>
    PROVE  Tail(q) \in Seq(S) /\ Len(Tail(q)) = Len(q) - 1 /\ Head(q) \in S /\ Len(q) > 0
OBVIOUS

LEMMA RepeatType ==
    ASSUME NEW S, NEW y \in S, NEW n \in Nat
    PROVE  [i \in 1..n |-> y] \in Seq(S) /\ Len([i \in 1..n |-> y]) = n
OBVIOUS

-----------------------------------------------------------------------------
(* The operations on the client's record. *)

LEMMA CountType ==
    ASSUME NEW c, ClientOK(c)
    PROVE  /\ Count(c) \in Nat /\ Len(c.ready) \in Nat /\ c.recv \in Nat
           /\ Bit(c.conn) \in {0, 1} /\ Len(c.ready) <= Count(c)
<1> DEFINE l == Len(c.ready)
           b == Bit(c.conn)
<1>1. l \in Nat /\ c.recv \in Nat /\ b \in {0, 1}
  BY LenProperties, BitType DEF ClientOK, Client
<1>2. Count(c) = l + c.recv + b
  BY DEF Count
<1> HIDE DEF l, b
<1>3. Count(c) \in Nat /\ l <= Count(c)
  BY <1>1, <1>2
<1> QED
  BY <1>1, <1>3 DEF l, b

LEMMA CountZero ==
    ASSUME NEW c, ClientOK(c), Count(c) = 0
    PROVE  c.ready = <<>>
<1>1. Len(c.ready) = 0
  BY CountType
<1>2. c.ready \in Seq(Handler)
  BY DEF ClientOK, Client
<1> QED
  BY <1>1, <1>2

LEMMA PostType ==
    ASSUME NEW c, ClientOK(c), NEW h \in HandlerOf(c)
    PROVE  /\ ClientOK(Post(c, h)) /\ Count(Post(c, h)) = Count(c) + 1
           /\ Post(c, h) = [c EXCEPT !.ready = Append(c.ready, h)]
<1> DEFINE q == Append(c.ready, h)
           r == [c EXCEPT !.ready = q]
<1>1. q \in Seq(HandlerOf(c)) /\ Len(q) = Len(c.ready) + 1
  BY AppendType DEF ClientOK
<1>2. q \in Seq(Handler)
  BY <1>1, KnownOnly, SeqMonotonic
<1>3. Post(c, h) = r
  BY DEF Post
<1> HIDE DEF q
<1>4. r \in Client /\ r.ready = q /\ r.table = c.table
  BY <1>2 DEF ClientOK, Client
<1>5. ClientOK(r)
  BY <1>1, <1>4, SameKnown DEF ClientOK, Client
<1>6. Count(r) = Count(c) + 1
  <2>1. Len(c.ready) \in Nat /\ c.recv \in Nat /\ r.recv = c.recv /\ r.conn = c.conn
    BY DEF ClientOK, Client
  <2>2. Bit(c.conn) \in {0, 1}
    BY BitType
  <2> QED
    BY <1>1, <1>4, <2>1, <2>2 DEF Count
<1> QED
  BY <1>3, <1>5, <1>6 DEF q

LEMMA OneOrNone ==
    ASSUME NEW S, NEW x \in S, NEW b \in BOOLEAN
    PROVE  LET u == IF b THEN <<x>> ELSE <<>>
           IN  u \in Seq(S) /\ Len(u) = Bit(b)
<1>1. <<x>> \in Seq(S) /\ Len(<<x>>) = 1 /\ <<>> \in Seq(S) /\ Len(<<>>) = 0
  OBVIOUS
<1>2. CASE b
  BY <1>1, <1>2, BitType
<1>3. CASE ~ b
  BY <1>1, <1>3, BitType
<1> QED
  BY <1>2, <1>3

LEMMA StopType ==
    ASSUME NEW c, ClientOK(c)
    PROVE  /\ ClientOK(Stop(c)) /\ Count(Stop(c)) = Count(c)
           /\ Stop(c).sock = "closed" /\ ~ Stop(c).conn /\ Stop(c).recv = 0
           /\ Stop(c).table = c.table /\ Stop(c).queue = c.queue
           /\ Stop(c).disconnect = c.disconnect /\ Stop(c).connet = c.connet
           /\ Stop(c).parser = c.parser
<1> DEFINE u == IF c.conn THEN <<Done("connect", FALSE)>> ELSE <<>>
           v == [i \in 1..c.recv |-> Done("recv", FALSE)]
           w == u \o v
           q == c.ready \o w
           r == [c EXCEPT !.sock = "closed", !.conn = FALSE, !.recv = 0, !.ready = q]
<1>1. Stop(c) = r
  BY DEF Stop
<1>2. c.recv \in Nat /\ c.conn \in BOOLEAN /\ c.ready \in Seq(HandlerOf(c))
  BY DEF ClientOK, Client
<1>3. Done("connect", FALSE) \in HandlerOf(c) /\ Done("recv", FALSE) \in HandlerOf(c)
  BY DoneType
<1>4. q \in Seq(HandlerOf(c)) /\ Len(q) = Len(c.ready) + Bit(c.conn) + c.recv
  <2>1. u \in Seq(HandlerOf(c)) /\ Len(u) = Bit(c.conn)
    BY <1>3, OneOrNone DEF Bit
  <2>2. v \in Seq(HandlerOf(c)) /\ Len(v) = c.recv
    BY <1>2, <1>3, RepeatType
  <2> HIDE DEF u, v
  <2>3. w \in Seq(HandlerOf(c)) /\ Len(w) = Len(u) + Len(v)
    BY <2>1, <2>2, ConcatProperties
  <2> HIDE DEF w
  <2>4. q \in Seq(HandlerOf(c)) /\ Len(q) = Len(c.ready) + Len(w)
    BY <1>2, <2>3, ConcatProperties
  <2>5. Len(c.ready) \in Nat /\ Bit(c.conn) \in Nat
    BY <1>2, LenProperties, BitType
  <2> QED
    BY <1>2, <2>1, <2>2, <2>3, <2>4, <2>5
<1> HIDE DEF q
<1>5. q \in Seq(Handler)
  BY <1>4, KnownOnly, SeqMonotonic
<1>6. r \in Client /\ r.ready = q /\ r.table = c.table /\ r.recv = 0 /\ ~ r.conn
      /\ r.sock = "closed" /\ r.queue = c.queue /\ r.disconnect = c.disconnect
      /\ r.connet = c.connet /\ r.parser = c.parser
  BY <1>5 DEF ClientOK, Client
<1> HIDE DEF r
<1>7. r.ready \in Seq(HandlerOf(r))
  BY <1>4, <1>6, SameKnown
<1>8. ClientOK(r)
  BY <1>6, <1>7 DEF ClientOK
<1>9. Count(r) = Count(c)
  <2>1. Len(c.ready) \in Nat
    BY <1>2, LenProperties
  <2>2. Bit(c.conn) \in {0, 1} /\ Bit(r.conn) = 0
    <3>1. r.conn = FALSE
      BY <1>6
    <3> QED
      BY <3>1, BitType
  <2> QED
    BY <1>2, <1>4, <1>6, <2>1, <2>2 DEF Count
<1> QED
  BY <1>1, <1>6, <1>8, <1>9

LEMMA StartType ==
    ASSUME NEW c, ClientOK(c)
    PROVE  /\ ClientOK(Start(c)) /\ Count(Start(c)) = Count(c) + 1
           /\ Start(c).table = c.table /\ Start(c).queue = c.queue
           /\ (Start(c).sock = "up") <=> (c.sock = "up")
           /\ ~ Start(c).connet /\ ~ Start(c).disconnect
<1> DEFINE d == [c EXCEPT !.connet = FALSE, !.disconnect = FALSE]
           r == [d EXCEPT !.sock = "connecting", !.conn = TRUE]
<1>1. d \in Client /\ d.ready = c.ready /\ d.table = c.table /\ d.recv = c.recv
      /\ d.conn = c.conn /\ d.sock = c.sock /\ d.queue = c.queue
      /\ ~ d.connet /\ ~ d.disconnect
  BY DEF ClientOK, Client
<1>2. ClientOK(d) /\ Count(d) = Count(c)
  BY <1>1, SameKnown DEF ClientOK, Count
<1>3. CASE c.sock = "closed"
  <2>1. Start(c) = r
    BY <1>1, <1>3 DEF Start
  <2>2. ~ c.conn /\ c.recv = 0 /\ Len(c.ready) \in Nat
    BY <1>3 DEF ClientOK, Client
  <2>3. r \in Client /\ r.ready = c.ready /\ r.table = c.table /\ r.recv = c.recv
        /\ r.conn /\ r.sock = "connecting" /\ r.queue = c.queue
        /\ ~ r.connet /\ ~ r.disconnect
    BY <1>1 DEF ClientOK, Client
  <2> HIDE DEF r
  <2>4. ClientOK(r)
    <3>1. r.ready \in Seq(HandlerOf(r))
      BY <2>3, SameKnown DEF ClientOK
    <3> QED
      BY <2>2, <2>3, <3>1 DEF ClientOK
  <2>5. Count(r) = Count(c) + 1
    <3>1. Bit(r.conn) = 1 /\ Bit(c.conn) = 0
      BY <2>2, <2>3 DEF Bit
    <3>2. Count(r) = Len(c.ready) + 0 + 1 /\ Count(c) = Len(c.ready) + 0 + 0
      BY <2>2, <2>3, <3>1, Zenon DEF Count
    <3> QED
      BY <2>2, <3>2
  <2> QED
    BY <1>3, <2>1, <2>3, <2>4, <2>5
<1>4. CASE c.sock # "closed"
  <2> DEFINE h == Done("connect", FALSE)
             s == Start(c)
             q == Append(d.ready, h)
  <2>1. s = Post(d, h)
    BY <1>1, <1>4 DEF Start
  <2>2. h \in HandlerOf(d)
    BY DoneType
  <2> HIDE DEF d, h
  <2>3. ClientOK(s) /\ Count(s) = Count(d) + 1 /\ s = [d EXCEPT !.ready = q]
    BY <1>2, <2>1, <2>2, PostType
  <2> HIDE DEF s, q
  <2>4. /\ s.table = c.table /\ s.queue = c.queue /\ (s.sock = "up" <=> c.sock = "up")
        /\ ~ s.connet /\ ~ s.disconnect
    BY <1>1, <2>3 DEF Client
  <2> QED
    BY <1>2, <2>3, <2>4 DEF s
<1> QED
  BY <1>3, <1>4

LEMMA ReceiveType ==
    ASSUME NEW c, ClientOK(c)
    PROVE  /\ ClientOK(AsyncReceive(c)) /\ Count(AsyncReceive(c)) = Count(c) + 1
           /\ AsyncReceive(c).table = c.table /\ AsyncReceive(c).sock = c.sock
           /\ AsyncReceive(c).queue = c.queue
<1> DEFINE r == [c EXCEPT !.recv = @ + 1]
<1>1. CASE c.sock = "up"
  <2>1. AsyncReceive(c) = r
    BY <1>1 DEF AsyncReceive
  <2>2. r \in Client /\ r.ready = c.ready /\ r.table = c.table /\ r.recv = c.recv + 1
        /\ r.conn = c.conn /\ r.sock = c.sock /\ r.queue = c.queue /\ c.recv \in Nat
        /\ Len(c.ready) \in Nat
    BY DEF ClientOK, Client
  <2> HIDE DEF r
  <2>3. ClientOK(r)
    BY <1>1, <2>2, SameKnown DEF ClientOK
  <2>4. Count(r) = Count(c) + 1
    BY <2>2, BitType DEF Count
  <2> QED
    BY <2>1, <2>2, <2>3, <2>4
<1>2. CASE c.sock # "up"
  <2>1. AsyncReceive(c) = Post(c, Done("recv", FALSE))
    BY <1>2 DEF AsyncReceive
  <2>2. ClientOK(AsyncReceive(c)) /\ Count(AsyncReceive(c)) = Count(c) + 1
        /\ AsyncReceive(c) = [c EXCEPT !.ready = Append(c.ready, Done("recv", FALSE))]
    BY <2>1, DoneType, PostType
  <2> QED
    BY <2>2 DEF ClientOK, Client
<1> QED
  BY <1>1, <1>2

-----------------------------------------------------------------------------
(* The sessions. *)

LEMMA MessagesType ==
    ASSUME NEW b \in DataBase
    PROVE  Messages(b) \in Nat /\ (Messages(b) = 0 <=> Silent(b))
<1> DEFINE i == Len(b.in)
           o == Len(b.out)
<1>1. b.in \in Seq(Message) /\ b.out \in Seq(Message)
  BY DEF DataBase
<1>2. i \in Nat /\ o \in Nat
  BY <1>1, LenProperties
<1>3. Silent(b) <=> i = 0 /\ o = 0
  BY <1>1 DEF Silent
<1>4. Messages(b) = i + o
  BY DEF Messages
<1> HIDE DEF i, o
<1> QED
  BY <1>2, <1>3, <1>4

LEMMA UnderType ==
    ASSUME NEW c, NEW d, SessionsOK(c, d)
    PROVE  Under(d) \in Nat /\ (c.sock # "up" => Under(d) = 0)
<1>1. CASE d = <<>>
  BY <1>1 DEF Under
<1>2. CASE d # <<>>
  <2>1. Len(d) \in DOMAIN d /\ d[Len(d)] \in DataBase
    BY <1>2 DEF SessionsOK
  <2>2. Under(d) = Messages(d[Len(d)])
    BY <1>2 DEF Under
  <2>3. c.sock # "up" => Silent(d[Len(d)])
    BY <2>1 DEF SessionsOK
  <2> QED
    BY <2>1, <2>2, <2>3, MessagesType
<1> QED
  BY <1>1, <1>2

LEMMA AllSilent ==
    ASSUME NEW c, NEW d, SessionsOK(c, d), Under(d) = 0
    PROVE  \A k \in DOMAIN d : Silent(d[k])
<1>1. CASE d = <<>>
  BY <1>1
<1>2. CASE d # <<>>
  <2>1. Len(d) \in DOMAIN d /\ d[Len(d)] \in DataBase
    BY <1>2 DEF SessionsOK
  <2>2. Messages(d[Len(d)]) = 0
    BY <1>2 DEF Under
  <2>3. Silent(d[Len(d)])
    BY <2>1, <2>2, MessagesType
  <2> QED
    BY <2>3 DEF SessionsOK
<1> QED
  BY <1>1, <1>2

LEMMA BrokenType ==
    ASSUME NEW d \in DataBase
    PROVE  /\ Broken(d) \in DataBase /\ Broken(d).in = <<>> /\ Broken(d).out = <<>>
           /\ Broken(d).phase = d.phase /\ Broken(d).exit = d.exit /\ Broken(d).wrong = d.wrong
<1>1. <<>> \in Seq(Message)
  OBVIOUS
<1> QED
  BY <1>1 DEF Broken, DataBase

(* Another client record with the same table and connection has the same    *)
(* sessions.                                                                *)
LEMMA SameSessions ==
    ASSUME NEW c, NEW e, NEW d, SessionsOK(c, d), e.table = c.table,
           (e.sock = "up") <=> (c.sock = "up")
    PROVE  SessionsOK(e, d)
BY SameKnown DEF SessionsOK

(* HangUp leaves nothing under way.                                         *)
LEMMA HangUpType ==
    ASSUME NEW c, SessionsOK(c, db), c.sock = cli.sock,
           NEW e, e.table = c.table, e.sock # "up"
    PROVE  SessionsOK(e, HangUp) /\ DOMAIN HangUp = DOMAIN db /\ Under(HangUp) = 0
<1>1. SessionsOK(e, HangUp) /\ DOMAIN HangUp = DOMAIN db
  <2>1. CASE cli.sock # "up"
    BY <2>1, SameSessions DEF HangUp
  <2>2. CASE cli.sock = "up"
    <3> DEFINE n == Len(db)
               b == Broken(db[n])
               d == [db EXCEPT ![n] = b]
    <3>1. n \in DOMAIN db /\ db \in Seq(DataBase) /\ db[n] \in DataBase
      BY <2>2 DEF SessionsOK
    <3>2. b \in DataBase /\ b.in = <<>> /\ b.out = <<>>
      BY <3>1, BrokenType
    <3>3. HangUp = d
      BY <2>2 DEF HangUp
    <3> HIDE DEF b
    <3>4. d \in Seq(DataBase) /\ Len(d) = Len(db) /\ DOMAIN d = DOMAIN db
      BY <3>1, <3>2
    <3>5. \A k \in DOMAIN db : d[k] = IF k = n THEN b ELSE db[k]
      BY <3>1
    <3> HIDE DEF d
    <3>6. \A k \in DOMAIN d : d[k].in = <<>> /\ d[k].out = <<>>
      BY <3>2, <3>4, <3>5 DEF SessionsOK, Silent
    <3>7. <<>> \in Seq(Known(e))
      OBVIOUS
    <3> QED
      BY <3>3, <3>4, <3>6, <3>7 DEF SessionsOK, Silent
  <2> QED
    BY <2>1, <2>2
<1> QED
  BY <1>1, UnderType

(* One session is given another record.                                     *)
Put(d, k, b) == [d EXCEPT ![k] = b]
Fits(c, d, k, b) ==
    /\ k \in DOMAIN d /\ b \in DataBase
    /\ b.in \in Seq(Known(c)) /\ b.out \in Seq(Known(c))
    /\ Silent(b) \/ (k = Len(d) /\ c.sock = "up")

LEMMA PutType ==
    ASSUME NEW c, NEW d, NEW k, NEW b, SessionsOK(c, d), Fits(c, d, k, b)
    PROVE  /\ SessionsOK(c, Put(d, k, b)) /\ DOMAIN Put(d, k, b) = DOMAIN d
           /\ k = Len(d) => Under(Put(d, k, b)) = Messages(b)
           /\ k # Len(d) => Under(Put(d, k, b)) = Under(d)
           /\ Under(d) = Messages(d[Len(d)])
<1> DEFINE e == [d EXCEPT ![k] = b]
<1>0. Put(d, k, b) = e
  BY DEF Put
<1>1. d \in Seq(DataBase) /\ k \in 1..Len(d) /\ Len(d) \in Nat /\ DOMAIN d = 1..Len(d)
  BY LenProperties DEF SessionsOK, Fits
<1>2. e \in Seq(DataBase) /\ Len(e) = Len(d) /\ DOMAIN e = DOMAIN d
  BY <1>1 DEF Fits
<1>3. \A j \in DOMAIN d : e[j] = IF j = k THEN b ELSE d[j]
  BY <1>1
<1> HIDE DEF e
<1>4. SessionsOK(c, e)
  <2>1. \A j \in DOMAIN e : e[j].in \in Seq(Known(c)) /\ e[j].out \in Seq(Known(c))
    BY <1>2, <1>3 DEF SessionsOK, Fits
  <2>2. \A j \in DOMAIN e : Silent(e[j]) \/ (j = Len(e) /\ c.sock = "up")
    BY <1>2, <1>3 DEF SessionsOK, Fits
  <2>3. c.sock = "up" => e # <<>>
    BY <1>1, <1>2
  <2> QED
    BY <1>2, <2>1, <2>2, <2>3 DEF SessionsOK
<1>5. Under(e) = Messages(e[Len(d)]) /\ Under(d) = Messages(d[Len(d)])
  <2>1. d # <<>> /\ e # <<>>
    BY <1>1, <1>2
  <2> QED
    BY <1>2, <2>1, Zenon DEF Under
<1>6. Len(d) \in DOMAIN d
  BY <1>1
<1> QED
  BY <1>0, <1>2, <1>3, <1>4, <1>5, <1>6

-----------------------------------------------------------------------------
(* What a handler leaves. *)

Result(n) ==
    /\ ClientOK(cli') /\ SessionsOK(cli', db') /\ DOMAIN db' = DOMAIN db
    /\ Count(cli') <= n
    /\ ~ Overlap => Alone(cli', db')

LEMMA SendStep ==
    ASSUME NEW c, ClientOK(c), SessionsOK(c, db), ~ Overlap => Count(c) = 0 /\ Under(db) = 0,
           NEW m \in Known(c), Send(c, m)
    PROVE  Result(Count(c) + 1)
<1>1. Count(c) \in Nat /\ Under(db) \in Nat
  BY CountType, UnderType
<1>2. \A ok \in BOOLEAN : Done("send", ok) \in HandlerOf(c) /\ Done("send", ok).op = "send"
  BY DoneType DEF Done
<1>3. PICK ok \in BOOLEAN : cli' = Post(c, Done("send", ok))
  BY DEF Send
<1>4. /\ ClientOK(cli') /\ Count(cli') = Count(c) + 1
      /\ cli' = [c EXCEPT !.ready = Append(c.ready, Done("send", ok))]
  BY <1>2, <1>3, PostType
<1>5. cli'.table = c.table /\ cli'.sock = c.sock /\ cli'.ready = Append(c.ready, Done("send", ok))
  BY <1>4 DEF ClientOK, Client
<1>6. ~ Overlap => ~ Free(cli')
  <2>1. ~ Overlap => c.ready = <<>>
    BY CountZero
  <2>2. ~ Overlap => Head(cli'.ready) = Done("send", ok)
    BY <1>5, <2>1
  <2> QED
    BY <1>2, <2>2 DEF Free
<1>7. CASE UNCHANGED db
  <2>1. SessionsOK(cli', db)
    BY <1>5, SameSessions
  <2>2. Count(cli') <= Count(c) + 1 /\ (~ Overlap => Count(cli') <= 1 /\ Under(db) <= 1)
    BY <1>1, <1>4
  <2> QED
    BY <1>4, <1>6, <1>7, <2>1, <2>2 DEF Result, Alone
<1>8. CASE /\ c.sock = "up" /\ db[Len(db)].link
           /\ db' = [db EXCEPT ![Len(db)].in = Append(@, m)]
  <2> DEFINE k == Len(db)
             b == [db[k] EXCEPT !.in = Append(db[k].in, m)]
  <2>1. k \in DOMAIN db /\ db[k] \in DataBase /\ db \in Seq(DataBase)
    BY <1>8 DEF SessionsOK
  <2>2. db[k].in \in Seq(Known(c)) /\ db[k].out \in Seq(Known(c))
    BY <2>1 DEF SessionsOK
  <2>3. Append(db[k].in, m) \in Seq(Known(c)) /\ Len(Append(db[k].in, m)) = Len(db[k].in) + 1
    BY <2>2, AppendType
  <2>4. Append(db[k].in, m) \in Seq(Message)
    BY <2>3, KnownOnly, SeqMonotonic
  <2>5. b \in DataBase /\ b.in = Append(db[k].in, m) /\ b.out = db[k].out
    BY <2>1, <2>4 DEF DataBase
  <2>6. db' = Put(db, k, b)
    BY <1>8 DEF Put
  <2> HIDE DEF b
  <2>7. Silent(b) \/ (k = Len(db) /\ c.sock = "up")
    BY <1>8
  <2>8. b.in \in Seq(Known(c)) /\ b.out \in Seq(Known(c))
    BY <2>2, <2>3, <2>5
  <2>9. /\ SessionsOK(c, db') /\ DOMAIN db' = DOMAIN db
        /\ Under(db') = Messages(b) /\ Under(db) = Messages(db[k])
    <3>1. Fits(c, db, k, b)
      BY <2>1, <2>5, <2>7, <2>8 DEF Fits
    <3> QED
      BY <3>1, <2>6, PutType
  <2>10. Len(db[k].in) \in Nat /\ Len(db[k].out) \in Nat
    BY <2>2, LenProperties
  <2>11. Messages(b) = Messages(db[k]) + 1
    <3> DEFINE i == Len(db[k].in)
               o == Len(db[k].out)
    <3>1. Messages(b) = (i + 1) + o
      BY <2>3, <2>5, Zenon DEF Messages
    <3>2. Messages(db[k]) = i + o /\ i \in Nat /\ o \in Nat
      BY <2>10, Zenon DEF Messages
    <3> HIDE DEF i, o
    <3> QED
      BY <3>1, <3>2
  <2>12. SessionsOK(cli', db')
    BY <1>5, <2>9, SameSessions
  <2>13. Count(cli') <= Count(c) + 1 /\ (~ Overlap => Count(cli') <= 1 /\ Under(db') <= 1)
    BY <1>1, <1>4, <2>9, <2>11
  <2> QED
    BY <1>4, <1>6, <2>9, <2>12, <2>13 DEF Result, Alone
<1> QED
  BY <1>7, <1>8 DEF Send

LEMMA StopStep ==
    ASSUME NEW c, ClientOK(c), SessionsOK(c, db), c.sock = cli.sock,
           ~ Overlap => Count(c) = 0 /\ Under(db) = 0,
           cli' = Stop(c), db' = HangUp
    PROVE  Result(Count(c) + 1)
<1>1. ClientOK(cli') /\ Count(cli') = Count(c) /\ cli'.sock # "up" /\ cli'.table = c.table
  BY StopType
<1>2. SessionsOK(cli', db') /\ DOMAIN db' = DOMAIN db /\ Under(db') = 0
  BY <1>1, HangUpType
<1>3. Count(c) \in Nat
  BY CountType
<1> QED
  BY <1>1, <1>2, <1>3 DEF Result, Alone

(* A table is taken from the queue.  When loads do not overlap there is no  *)
(* message left that names the table before it.                             *)
LEMMA NextTable ==
    ASSUME NEW c, ClientOK(c), SessionsOK(c, db),
           ~ Overlap => Count(c) = 0 /\ Under(db) = 0, c.queue # <<>>,
           NEW e, e = [c EXCEPT !.table = Head(c.queue), !.queue = Tail(c.queue)]
    PROVE  /\ ClientOK(e) /\ SessionsOK(e, db) /\ Count(e) = Count(c) /\ e.sock = c.sock
           /\ [kind |-> "query", of |-> Head(c.queue)] \in Known(e)
<1>1. Head(c.queue) \in Table /\ Tail(c.queue) \in Seq(Table)
  BY DEF ClientOK, Client
<1>2. /\ e \in Client /\ e.table = Head(c.queue) /\ e.ready = c.ready /\ e.sock = c.sock
      /\ e.recv = c.recv /\ e.conn = c.conn
  BY <1>1 DEF ClientOK, Client
<1>3. e.table # NoTable
  BY <1>1, <1>2, DbLoadAssumption
<1>4. Overlap => Known(c) \subseteq Known(e) /\ HandlerOf(c) \subseteq HandlerOf(e)
  BY <1>3 DEF Known, HandlerOf
<1>5. [kind |-> "query", of |-> Head(c.queue)] \in Known(e)
  BY <1>1, <1>2, <1>3 DEF Known, Message
<1>6. ClientOK(e)
  <2>1. CASE Overlap
    BY <1>2, <1>4, <2>1, SeqMonotonic DEF ClientOK
  <2>2. CASE ~ Overlap
    <3>1. c.ready = <<>>
      BY <2>2, CountZero
    <3>2. <<>> \in Seq(HandlerOf(e))
      OBVIOUS
    <3> QED
      BY <1>2, <3>1, <3>2 DEF ClientOK
  <2> QED
    BY <2>1, <2>2
<1>7. SessionsOK(e, db)
  <2>1. CASE Overlap
    <3>1. Seq(Known(c)) \subseteq Seq(Known(e))
      BY <1>4, <2>1, SeqMonotonic
    <3> QED
      BY <1>2, <3>1 DEF SessionsOK
  <2>2. CASE ~ Overlap
    <3>1. \A k \in DOMAIN db : Silent(db[k])
      BY <2>2, AllSilent
    <3>2. <<>> \in Seq(Known(e))
      OBVIOUS
    <3> QED
      BY <1>2, <3>1, <3>2 DEF SessionsOK, Silent
  <2> QED
    BY <2>1, <2>2
<1> QED
  BY <1>2, <1>5, <1>6, <1>7, Zenon DEF Count

LEMMA CheckConnectStep ==
    ASSUME NEW c, ClientOK(c), SessionsOK(c, db), c.sock = cli.sock,
           ~ Overlap => Count(c) = 0 /\ Under(db) = 0,
           CheckConnect(c)
    PROVE  Result(Count(c) + 1) /\ done' \in {done, done + 1}
<1>1. CASE cli' = Stop(c) /\ db' = HangUp /\ done' \in {done, done + 1}
  BY <1>1, StopStep
<1>2. ASSUME NEW kind \in {"connect", "disconnect"}, Send(c, M(kind)), UNCHANGED done
      PROVE  Result(Count(c) + 1)
  <2>1. M(kind) \in Known(c)
    BY MType
  <2> QED
    BY <1>2, <2>1, SendStep
<1>3. CASE /\ c.queue # <<>> /\ UNCHANGED done
           /\ Send([c EXCEPT !.table = Head(c.queue), !.queue = Tail(c.queue)],
                   [kind |-> "query", of |-> Head(c.queue)])
  <2> DEFINE e == [c EXCEPT !.table = Head(c.queue), !.queue = Tail(c.queue)]
             m == [kind |-> "query", of |-> Head(c.queue)]
  <2>1. /\ ClientOK(e) /\ SessionsOK(e, db) /\ Count(e) = Count(c) /\ m \in Known(e)
    BY <1>3, NextTable
  <2>2. Send(e, m)
    BY <1>3
  <2> HIDE DEF e, m
  <2>3. Result(Count(e) + 1)
    BY <2>1, <2>2, SendStep
  <2> QED
    BY <1>3, <2>1, <2>3
<1>4. CASE Send(c, M("connect")) /\ UNCHANGED done
  BY <1>2, <1>4
<1>5. CASE Send(c, M("disconnect")) /\ UNCHANGED done
  BY <1>2, <1>5
<1> QED
  BY <1>1, <1>3, <1>4, <1>5 DEF CheckConnect, QueryGenerator

(* What a handler starts from: its operation has left the queue.            *)
LEMMA RestType ==
    ASSUME Inv, cli.ready # <<>>
    PROVE  /\ ClientOK(Rest) /\ SessionsOK(Rest, db) /\ Count(cli) = Count(Rest) + 1
           /\ Rest.sock = cli.sock /\ Rest.table = cli.table /\ Rest.parser = cli.parser
           /\ Rest.connet = cli.connet /\ Rest.disconnect = cli.disconnect
           /\ This \in HandlerOf(cli)
           /\ ~ Overlap => Count(Rest) = 0 /\ Under(db) <= 1 /\ (Free(cli) => Under(db) = 0)
<1> DEFINE q == Tail(cli.ready)
<1>1. ClientOK(cli) /\ SessionsOK(cli, db) /\ cli.ready \in Seq(HandlerOf(cli))
  BY DEF Inv, ClientOK
<1>2. q \in Seq(HandlerOf(cli)) /\ Len(q) = Len(cli.ready) - 1 /\ This \in HandlerOf(cli)
  BY <1>1, TailType DEF This
<1>3. q \in Seq(Handler)
  BY <1>2, KnownOnly, SeqMonotonic
<1> HIDE DEF q
<1>4. Rest = [cli EXCEPT !.ready = q]
  BY DEF Rest, q
<1>5. /\ Rest \in Client /\ Rest.ready = q /\ Rest.sock = cli.sock /\ Rest.table = cli.table
      /\ Rest.parser = cli.parser /\ Rest.recv = cli.recv /\ Rest.conn = cli.conn
      /\ Rest.connet = cli.connet /\ Rest.disconnect = cli.disconnect
  BY <1>1, <1>3, <1>4 DEF ClientOK, Client
<1>6. ClientOK(Rest) /\ SessionsOK(Rest, db)
  <2>1. q \in Seq(HandlerOf(Rest))
    BY <1>2, <1>5, SameKnown
  <2> QED
    BY <1>1, <1>5, <2>1, SameSessions DEF ClientOK
<1>7. Count(cli) = Count(Rest) + 1
  <2> DEFINE l == Len(cli.ready)
             k == Len(q)
             b == Bit(cli.conn)
  <2>1. Count(cli) = l + cli.recv + b /\ Count(Rest) = k + cli.recv + b
    BY <1>5, Zenon DEF Count
  <2>2. l \in Nat /\ cli.recv \in Nat /\ b \in {0, 1} /\ k = l - 1
    BY <1>1, <1>2, CountType
  <2> HIDE DEF l, k, b
  <2> QED
    BY <2>1, <2>2
<1>8. ~ Overlap => Count(Rest) = 0 /\ Under(db) <= 1 /\ (Free(cli) => Under(db) = 0)
  <2>1. Count(Rest) \in Nat
    BY <1>6, CountType
  <2> QED
    BY <1>7, <2>1 DEF Inv, Alone
<1> QED
  BY <1>2, <1>5, <1>6, <1>7, <1>8

-----------------------------------------------------------------------------
(* The handlers of the client. *)

LEMMA AfterHandler ==
    ASSUME Inv, Result(Count(cli)), UNCHANGED <<serving, pool, loads>>, losses' \in Nat,
           done' \in {done, done + 1}, fresh' \subseteq Table,
           resp' \in [Table -> Table \cup {NoTable}], ~ Overlap => RowsOfTable'
    PROVE  Inv'
<1>1. OthersOK'
  BY DEF Inv, OthersOK, Result
<1>2. Count(cli') <= loads'
  <2>1. Count(cli) \in Nat /\ Count(cli') \in Nat /\ loads \in Nat
    BY CountType DEF Inv, OthersOK, Result
  <2> QED
    BY <2>1 DEF Inv, Result
<1> QED
  BY <1>1, <1>2 DEF Inv, Result

LEMMA OnErrorInv == ASSUME Inv, OnError PROVE Inv'
<1> DEFINE c == Rest
           d == Stop(c)
           e == Start(d)
<1>1. ClientOK(c) /\ SessionsOK(c, db) /\ c.sock = cli.sock /\ Count(cli) = Count(c) + 1
      /\ (~ Overlap => Count(c) = 0)
  BY RestType DEF OnError
<1> HIDE DEF c
<1>2. ClientOK(d) /\ Count(d) = Count(c) /\ d.sock # "up" /\ d.table = c.table
  BY <1>1, StopType
<1> HIDE DEF d
<1>3. ClientOK(e) /\ Count(e) = Count(d) + 1 /\ e.sock # "up" /\ e.table = d.table
  BY <1>2, StartType
<1> HIDE DEF e
<1>4. SessionsOK(e, HangUp) /\ DOMAIN HangUp = DOMAIN db /\ Under(HangUp) = 0
  BY <1>1, <1>2, <1>3, HangUpType
<1>5. cli' = e /\ db' = HangUp
  BY DEF OnError, c, d, e
<1>6. Count(e) = Count(cli) /\ Count(e) \in Nat /\ (~ Overlap => Count(e) = 1)
  BY <1>1, <1>2, <1>3, CountType
<1>7. Result(Count(cli))
  BY <1>3, <1>4, <1>5, <1>6 DEF Result, Alone
<1> QED
  BY <1>7, AfterHandler DEF OnError, Inv, OthersOK, RowsOfTable

LEMMA OnConnectInv == ASSUME Inv, OnConnect PROVE Inv'
<1> DEFINE c == Rest
<1>1. ClientOK(c) /\ SessionsOK(c, db) /\ c.sock = cli.sock /\ Count(cli) = Count(c) + 1
      /\ (~ Overlap => Count(c) = 0 /\ (Free(cli) => Under(db) = 0))
  BY RestType DEF OnConnect, Due
<1>2. CheckConnect(c)
  BY DEF OnConnect
<1>3. Free(cli)
  <2>1. This \in Handler
    BY RestType, KnownOnly DEF OnConnect, Due
  <2> QED
    BY <2>1 DEF OnConnect, Due, This, Free
<1> HIDE DEF c
<1>4. Result(Count(c) + 1) /\ done' \in {done, done + 1}
  BY <1>1, <1>2, <1>3, CheckConnectStep
<1> QED
  BY <1>1, <1>4, AfterHandler DEF OnConnect, Inv, OthersOK, RowsOfTable

(* A receive that is started on what a handler left.                        *)
LEMMA ReceiveStep ==
    ASSUME Inv, NEW c, ClientOK(c), SessionsOK(c, db), Count(cli) = Count(c) + 1,
           ~ Overlap => Count(c) = 0 /\ Under(db) <= 1,
           cli' = AsyncReceive(c), UNCHANGED db
    PROVE  Result(Count(cli))
<1>1. /\ ClientOK(cli') /\ Count(cli') = Count(c) + 1 /\ cli'.table = c.table
      /\ cli'.sock = c.sock
  BY ReceiveType
<1>2. SessionsOK(cli', db')
  BY <1>1, SameSessions
<1>3. ~ Overlap => ~ Free(cli')
  <2>1. CASE c.sock = "up" /\ ~ Overlap
    <3>1. cli'.ready = c.ready
      BY <2>1 DEF AsyncReceive, ClientOK, Client
    <3>2. c.ready = <<>>
      BY <2>1, CountZero
    <3> QED
      BY <3>1, <3>2 DEF Free
  <2>2. CASE c.sock # "up" /\ ~ Overlap
    <3>1. cli'.ready = Append(c.ready, Done("recv", FALSE))
      BY <2>2 DEF AsyncReceive, Post, ClientOK, Client
    <3>2. c.ready = <<>>
      BY <2>2, CountZero
    <3>3. Head(cli'.ready) = Done("recv", FALSE)
      BY <3>1, <3>2
    <3> QED
      BY <3>3 DEF Free, Done
  <2> QED
    BY <2>1, <2>2
<1>4. Count(c) \in Nat
  BY CountType
<1> QED
  BY <1>1, <1>2, <1>3, <1>4 DEF Result, Alone

LEMMA OnSendInv == ASSUME Inv, OnSend PROVE Inv'
<1> DEFINE c == Rest
<1>1. ClientOK(c) /\ SessionsOK(c, db) /\ Count(cli) = Count(c) + 1
      /\ (~ Overlap => Count(c) = 0 /\ Under(db) <= 1)
  BY RestType DEF OnSend, Due
<1>2. cli' = AsyncReceive(c)
  BY DEF OnSend
<1> HIDE DEF c
<1>3. Result(Count(cli))
  BY <1>1, <1>2, ReceiveStep DEF OnSend
<1> QED
  BY <1>3, AfterHandler DEF OnSend, Inv, OthersOK, RowsOfTable

LEMMA OnReceivePartInv == ASSUME Inv, OnReceivePart PROVE Inv'
<1> DEFINE p == IF Rest.parser = 0 THEN This.conn ELSE Rest.parser
           c == [Rest EXCEPT !.parser = p]
<1>1. ClientOK(Rest) /\ SessionsOK(Rest, db) /\ Count(cli) = Count(Rest) + 1
      /\ This \in HandlerOf(cli)
      /\ (~ Overlap => Count(Rest) = 0 /\ Under(db) <= 1)
  BY RestType DEF OnReceivePart, Due
<1>2. p \in Nat
  <2>1. This \in Handler
    BY <1>1, KnownOnly
  <2> QED
    BY <1>1, <2>1 DEF ClientOK, Client, Handler
<1>3. cli' = AsyncReceive(c)
  BY DEF OnReceivePart
<1> HIDE DEF p
<1>4. /\ c \in Client /\ c.ready = Rest.ready /\ c.sock = Rest.sock /\ c.recv = Rest.recv
      /\ c.conn = Rest.conn /\ c.table = Rest.table
  BY <1>1, <1>2 DEF ClientOK, Client
<1> HIDE DEF c
<1>5. ClientOK(c) /\ SessionsOK(c, db) /\ Count(c) = Count(Rest)
  <2>1. ClientOK(c)
    BY <1>1, <1>4, SameKnown DEF ClientOK
  <2>2. Count(c) = Count(Rest)
    BY <1>4, Zenon DEF Count
  <2> QED
    BY <1>1, <1>4, <2>1, <2>2, SameSessions
<1>6. Result(Count(cli))
  BY <1>1, <1>3, <1>5, ReceiveStep DEF OnReceivePart
<1> QED
  BY <1>6, AfterHandler DEF OnReceivePart, Inv, OthersOK, RowsOfTable

(* The flags of the client have no part in the invariant.                   *)
LEMMA FlagsType ==
    ASSUME NEW d, ClientOK(d), SessionsOK(d, db), NEW f \in BOOLEAN, NEW g \in BOOLEAN,
           NEW c, c = [d EXCEPT !.parser = 0, !.connet = f, !.disconnect = g]
    PROVE  /\ ClientOK(c) /\ SessionsOK(c, db) /\ Count(c) = Count(d)
           /\ c.sock = d.sock /\ c.table = d.table
<1>1. /\ c \in Client /\ c.ready = d.ready /\ c.sock = d.sock /\ c.recv = d.recv
      /\ c.conn = d.conn /\ c.table = d.table
  BY DEF ClientOK, Client
<1>2. ClientOK(c)
  BY <1>1, SameKnown DEF ClientOK
<1>3. Count(c) = Count(d)
  BY <1>1, Zenon DEF Count
<1> QED
  BY <1>1, <1>2, <1>3, SameSessions

LEMMA OnReceiveInv == ASSUME Inv, OnReceive PROVE Inv'
<1>1. ClientOK(Rest) /\ SessionsOK(Rest, db) /\ Count(cli) = Count(Rest) + 1
      /\ This \in HandlerOf(cli) /\ Rest.sock = cli.sock /\ Rest.table = cli.table
      /\ (~ Overlap => Count(Rest) = 0 /\ (Free(cli) => Under(db) = 0))
  BY RestType DEF OnReceive, Due
<1>2. Free(cli)
  BY DEF OnReceive, Due, This, Parsed, Free
<1>3. Rest.connet \in BOOLEAN /\ Rest.disconnect \in BOOLEAN
  BY <1>1 DEF ClientOK, Client
<1>4. PICK f \in BOOLEAN, g \in BOOLEAN :
         CheckConnect([Rest EXCEPT !.parser = 0, !.connet = f, !.disconnect = g])
  <2> DEFINE c == [Rest EXCEPT !.parser = 0]
  <2>1. /\ [c EXCEPT !.connet = TRUE, !.disconnect = FALSE]
             = [Rest EXCEPT !.parser = 0, !.connet = TRUE, !.disconnect = FALSE]
        /\ [c EXCEPT !.disconnect = TRUE]
             = [Rest EXCEPT !.parser = 0, !.connet = Rest.connet, !.disconnect = TRUE]
        /\ c = [Rest EXCEPT !.parser = 0, !.connet = Rest.connet, !.disconnect = Rest.disconnect]
    BY <1>1 DEF ClientOK, Client
  <2>2. \/ CheckConnect([c EXCEPT !.connet = TRUE, !.disconnect = FALSE])
        \/ CheckConnect([c EXCEPT !.disconnect = TRUE])
        \/ CheckConnect(c)
    BY DEF OnReceive
  <2> HIDE DEF c
  <2> QED
    BY <1>3, <2>1, <2>2
<1> DEFINE c == [Rest EXCEPT !.parser = 0, !.connet = f, !.disconnect = g]
<1>5. CheckConnect(c)
  BY <1>4
<1>6. /\ ClientOK(c) /\ SessionsOK(c, db) /\ Count(c) = Count(Rest) /\ c.sock = Rest.sock
  BY <1>1, FlagsType
<1> HIDE DEF c
<1>7. Result(Count(c) + 1) /\ done' \in {done, done + 1}
  BY <1>1, <1>2, <1>5, <1>6, CheckConnectStep
<1>8. /\ fresh' \subseteq Table /\ resp' \in [Table -> Table \cup {NoTable}]
      /\ ~ Overlap => RowsOfTable'
  <2>1. CASE UNCHANGED <<resp, fresh>>
    BY <2>1 DEF Inv, OthersOK, RowsOfTable
  <2>2. CASE /\ This.msg.kind = "rows" /\ resp' = [resp EXCEPT ![cli.table] = This.msg.of]
             /\ fresh' = fresh \cup {cli.table}
    <3>1. This.msg \in Known(cli) /\ This.msg \in Message
      BY <1>1 DEF HandlerOf, Known
    <3>2. This.msg.of \in Table /\ cli.table # NoTable /\ (~ Overlap => This.msg.of = cli.table)
      BY <2>2, <3>1, DbLoadAssumption DEF Known, Message
    <3>3. cli.table \in Table
      BY <3>2 DEF Inv, ClientOK, Client
    <3> QED
      BY <2>2, <3>2, <3>3 DEF Inv, OthersOK, RowsOfTable
  <2> QED
    BY <1>1, <2>1, <2>2 DEF OnReceive
<1> QED
  BY <1>1, <1>6, <1>7, <1>8, AfterHandler DEF OnReceive, Inv, OthersOK

-----------------------------------------------------------------------------
(* The refresh and the sockets. *)

LEMMA ConnectToDBInv == ASSUME Inv, ConnectToDB PROVE Inv'
<1> DEFINE c == [cli EXCEPT !.queue = Tables]
           e == Start(c)
<1>1. ClientOK(cli) /\ SessionsOK(cli, db) /\ Tables \in Seq(Table)
  BY DbLoadAssumption DEF Inv
<1>2. /\ c \in Client /\ c.ready = cli.ready /\ c.sock = cli.sock /\ c.recv = cli.recv
      /\ c.conn = cli.conn /\ c.table = cli.table
  BY <1>1 DEF ClientOK, Client
<1>3. cli' = e
  BY DEF ConnectToDB
<1> HIDE DEF c
<1>4. ClientOK(c) /\ SessionsOK(c, db) /\ Count(c) = Count(cli)
  <2>1. ClientOK(c)
    BY <1>1, <1>2, SameKnown DEF ClientOK
  <2>2. Count(c) = Count(cli)
    BY <1>2, Zenon DEF Count
  <2> QED
    BY <1>1, <1>2, <2>1, <2>2, SameSessions
<1>5. ClientOK(e) /\ Count(e) = Count(c) + 1 /\ e.table = c.table
      /\ ((e.sock = "up") <=> (c.sock = "up"))
  BY <1>4, StartType
<1>6. SessionsOK(e, db)
  BY <1>4, <1>5, SameSessions
<1>7. ~ Overlap => Count(cli) = 0
  <2>1. Idle => Len(cli.ready) = 0 /\ Bit(cli.conn) = 0 /\ cli.recv = 0
    BY DEF Idle, Bit
  <2>2. Idle => Count(cli) = 0 + 0 + 0
    BY <2>1, Zenon DEF Count
  <2> QED
    BY <2>2 DEF ConnectToDB
<1>8. ~ Overlap => ~ Free(e)
  <2>1. SUFFICES ASSUME ~ Overlap PROVE ~ Free(e)
    OBVIOUS
  <2>2. c.ready = <<>>
    BY <1>4, <1>7, <2>1, CountZero
  <2>3. CASE c.sock = "closed"
    <3>1. e.ready = <<>>
      BY <1>2, <2>2, <2>3 DEF e, Start, ClientOK, Client
    <3> QED
      BY <3>1 DEF Free
  <2>4. CASE c.sock # "closed"
    <3>1. e.ready = Append(c.ready, Done("connect", FALSE))
      BY <1>2, <2>4 DEF e, Start, Post, Client
    <3>2. Head(e.ready) = Done("connect", FALSE)
      BY <2>2, <3>1
    <3> QED
      BY <3>2 DEF Free, Done
  <2> QED
    BY <2>3, <2>4
<1> HIDE DEF e
<1>9. Count(e) <= loads' /\ (~ Overlap => Count(e) <= 1)
  <2>1. Count(cli) \in Nat /\ loads \in Nat /\ loads' = loads + 1 /\ Count(cli) <= loads
    BY <1>1, CountType DEF Inv, OthersOK, ConnectToDB
  <2>2. Count(e) = Count(cli) + 1
    BY <1>4, <1>5
  <2> QED
    BY <1>7, <2>1, <2>2
<1>10. OthersOK'
  BY DEF ConnectToDB, Inv, OthersOK
<1>11. ~ Overlap => Alone(cli', db') /\ RowsOfTable'
  BY <1>3, <1>8, <1>9 DEF ConnectToDB, Inv, Alone, RowsOfTable
<1> QED
  BY <1>3, <1>5, <1>6, <1>9, <1>10, <1>11 DEF ConnectToDB, Inv

(* A pending operation completes: its handler takes its place.              *)
Completed(c) ==
    \/ cli.conn /\ \E s \in {"up", "connecting"} : c = [cli EXCEPT !.conn = FALSE, !.sock = s]
    \/ cli.recv > 0 /\ c = [cli EXCEPT !.recv = @ - 1]

LEMMA CompleteType ==
    ASSUME ClientOK(cli), NEW c, NEW h \in HandlerOf(cli), Completed(c)
    PROVE  /\ ClientOK(Post(c, h)) /\ Count(Post(c, h)) = Count(cli)
           /\ Post(c, h).table = cli.table /\ Post(c, h).sock = c.sock
           /\ Post(c, h).ready = Append(cli.ready, h)
<1>1. /\ c \in Client /\ c.ready = cli.ready /\ c.table = cli.table
      /\ c.conn => c.sock = "connecting"
      /\ c.recv > 0 => c.sock = "up"
  <2>1. CASE cli.conn /\ \E s \in {"up", "connecting"} : c = [cli EXCEPT !.conn = FALSE, !.sock = s]
    <3>1. cli.recv = 0
      BY <2>1 DEF ClientOK, Client
    <3> QED
      BY <2>1, <3>1 DEF ClientOK, Client
  <2>2. CASE cli.recv > 0 /\ c = [cli EXCEPT !.recv = cli.recv - 1]
    <3>1. cli.recv \in Nat /\ cli.recv - 1 \in Nat /\ cli.sock = "up"
      BY <2>2 DEF ClientOK, Client
    <3> QED
      BY <2>2, <3>1 DEF ClientOK, Client
  <2> QED
    BY <2>1, <2>2 DEF Completed
<1>2. ClientOK(c)
  BY <1>1, SameKnown DEF ClientOK
<1>3. Count(cli) = Count(c) + 1
  <2> DEFINE l == Len(cli.ready)
             r == cli.recv
             b == Bit(cli.conn)
  <2>1. l \in Nat /\ r \in Nat /\ b \in {0, 1} /\ Count(cli) = l + r + b
    BY CountType DEF Count
  <2>2. CASE cli.conn /\ c.conn = FALSE /\ c.recv = cli.recv
    <3>1. b = 1 /\ Bit(c.conn) = 0
      BY <2>2 DEF Bit
    <3>2. Count(c) = l + r + 0
      BY <1>1, <2>2, <3>1, Zenon DEF Count
    <3> HIDE DEF l, r, b
    <3> QED
      BY <2>1, <3>1, <3>2
  <2>3. CASE c.conn = cli.conn /\ c.recv = r - 1
    <3>1. Count(c) = l + (r - 1) + b
      BY <1>1, <2>3, Zenon DEF Count
    <3> HIDE DEF l, r, b
    <3> QED
      BY <2>1, <3>1
  <2> QED
    BY <2>2, <2>3 DEF ClientOK, Client, Completed
<1>4. h \in HandlerOf(c)
  BY <1>1, SameKnown
<1>5. /\ ClientOK(Post(c, h)) /\ Count(Post(c, h)) = Count(c) + 1
      /\ Post(c, h) = [c EXCEPT !.ready = Append(c.ready, h)]
  BY <1>2, <1>4, PostType
<1> QED
  BY <1>1, <1>3, <1>5 DEF Client

(* The handler of a completed operation is the only one that a load that is *)
(* not disturbed has.                                                       *)
LEMMA OnlyHandler ==
    ASSUME Inv, ~ Overlap, cli.conn \/ cli.recv > 0, NEW h, NEW e, e.ready = Append(cli.ready, h)
    PROVE  Head(e.ready) = h /\ (Free(e) <=> h.ok /\ (h.op = "connect" \/ (h.op = "recv" /\ ~ h.part)))
<1>1. ClientOK(cli) /\ Count(cli) <= 1
  BY DEF Inv, Alone
<1>2. cli.ready = <<>>
  <2> DEFINE l == Len(cli.ready)
             b == Bit(cli.conn)
  <2>1. l \in Nat /\ cli.recv \in Nat /\ b \in {0, 1} /\ Count(cli) = l + cli.recv + b
    BY <1>1, CountType DEF Count
  <2>2. cli.conn => b = 1
    BY DEF Bit
  <2> HIDE DEF b
  <2>3. l = 0 /\ cli.ready \in Seq(Handler)
    BY <1>1, <2>1, <2>2 DEF ClientOK, Client
  <2> QED
    BY <2>3
<1>3. Head(e.ready) = h /\ e.ready # <<>>
  BY <1>2
<1> QED
  BY <1>3 DEF Free

LEMMA ConnectRefusedInv == ASSUME Inv, ConnectRefused PROVE Inv'
<1> DEFINE c == [cli EXCEPT !.conn = FALSE]
           h == Done("connect", FALSE)
<1>1. ClientOK(cli) /\ SessionsOK(cli, db) /\ cli.conn /\ cli.sock = "connecting"
  BY DEF Inv, ConnectRefused, ClientOK
<1>2. Completed(c)
  BY <1>1 DEF ClientOK, Client, Completed
<1>3. cli' = Post(c, h) /\ db' = db
  BY DEF ConnectRefused
<1>4. h \in HandlerOf(cli) /\ ~ h.ok
  BY DoneType DEF Done
<1> HIDE DEF h
<1>5. c.sock = cli.sock
  BY <1>1 DEF ClientOK, Client
<1> HIDE DEF c
<1>6. /\ ClientOK(cli') /\ Count(cli') = Count(cli) /\ cli'.table = cli.table
      /\ cli'.sock = cli.sock /\ cli'.ready = Append(cli.ready, h)
  BY <1>1, <1>2, <1>3, <1>4, <1>5, CompleteType
<1>7. SessionsOK(cli', db')
  BY <1>1, <1>3, <1>6, SameSessions
<1>8. ~ Overlap => ~ Free(cli')
  BY <1>1, <1>4, <1>6, OnlyHandler
<1> QED
  BY <1>3, <1>6, <1>7, <1>8 DEF ConnectRefused, Inv, OthersOK, Alone, RowsOfTable

LEMMA ReceivedType ==
    ASSUME Inv, NEW h \in HandlerOf(cli), ~ h.ok \/ h.part, h.op = "recv", cli.recv > 0,
           cli' = Post([cli EXCEPT !.recv = @ - 1], h),
           UNCHANGED <<resp, db, serving, pool, loads, fresh, losses, done>>
    PROVE  Inv'
<1> DEFINE c == [cli EXCEPT !.recv = @ - 1]
<1>1. ClientOK(cli) /\ SessionsOK(cli, db)
  BY DEF Inv
<1>2. Completed(c) /\ c.sock = cli.sock /\ cli' = Post(c, h)
  BY <1>1 DEF ClientOK, Client, Completed
<1> HIDE DEF c
<1>3. /\ ClientOK(cli') /\ Count(cli') = Count(cli) /\ cli'.table = cli.table
      /\ cli'.sock = cli.sock /\ cli'.ready = Append(cli.ready, h)
  <2>1. /\ ClientOK(Post(c, h)) /\ Count(Post(c, h)) = Count(cli)
        /\ Post(c, h).table = cli.table /\ Post(c, h).sock = c.sock
        /\ Post(c, h).ready = Append(cli.ready, h)
    BY <1>1, <1>2, CompleteType, Zenon
  <2> QED
    BY <1>2, <2>1, Zenon
<1>4. SessionsOK(cli', db')
  BY <1>1, <1>3, SameSessions
<1>5. ~ Overlap => ~ Free(cli')
  BY <1>3, OnlyHandler
<1> QED
  BY <1>3, <1>4, <1>5 DEF Inv, OthersOK, Alone, RowsOfTable

LEMMA DeliverEndInv == ASSUME Inv, DeliverEnd PROVE Inv'
<1>1. Done("recv", FALSE) \in HandlerOf(cli) /\ ~ Done("recv", FALSE).ok
      /\ Done("recv", FALSE).op = "recv"
  BY DoneType DEF Done
<1> QED
  BY <1>1, ReceivedType DEF DeliverEnd

LEMMA DeliverInv == ASSUME Inv, Deliver PROVE Inv'
<1> DEFINE k == Len(db)
           m == Head(db[k].out)
<1>1. ClientOK(cli) /\ SessionsOK(cli, db) /\ cli.recv > 0 /\ cli.sock = "up"
  BY DEF Inv, Deliver, ClientOK
<1>2. k \in DOMAIN db /\ db[k] \in DataBase /\ k \in Nat
  BY <1>1 DEF SessionsOK
<1>3. db[k].in \in Seq(Known(cli)) /\ db[k].out \in Seq(Known(cli)) /\ db[k].out # <<>>
  BY <1>1, <1>2 DEF SessionsOK, Deliver
<1>4. m \in Known(cli) /\ Tail(db[k].out) \in Seq(Known(cli))
      /\ Len(Tail(db[k].out)) = Len(db[k].out) - 1
  BY <1>3, TailType
<1>5. \A part \in BOOLEAN : /\ Received(part, m) \in HandlerOf(cli)
                            /\ Received(part, m).op = "recv" /\ Received(part, m).part = part
  BY <1>2, <1>4, KnownOnly DEF Received, HandlerOf, Handler
<1>6. CASE /\ cli' = Post([cli EXCEPT !.recv = @ - 1], Received(TRUE, m))
           /\ UNCHANGED db
  BY <1>1, <1>5, <1>6, ReceivedType DEF Deliver
<1>7. CASE /\ cli' = Post([cli EXCEPT !.recv = @ - 1], Received(FALSE, m))
           /\ db' = [db EXCEPT ![k].out = Tail(@)]
  <2> DEFINE c == [cli EXCEPT !.recv = @ - 1]
             h == Received(FALSE, m)
             b == [db[k] EXCEPT !.out = Tail(db[k].out)]
  <2>1. Completed(c) /\ c.sock = cli.sock /\ cli' = Post(c, h) /\ h \in HandlerOf(cli)
    BY <1>1, <1>5, <1>7 DEF ClientOK, Client, Completed
  <2> HIDE DEF c, h
  <2>2. /\ ClientOK(cli') /\ Count(cli') = Count(cli) /\ cli'.table = cli.table
        /\ cli'.sock = cli.sock
    BY <1>1, <2>1, CompleteType
  <2>3. Tail(db[k].out) \in Seq(Message)
    BY <1>4, KnownOnly, SeqMonotonic
  <2>4. b \in DataBase /\ b.in = db[k].in /\ b.out = Tail(db[k].out)
    BY <1>2, <2>3 DEF DataBase
  <2>5. db' = Put(db, k, b)
    BY <1>7 DEF Put
  <2> HIDE DEF b
  <2>6. Fits(cli, db, k, b)
    BY <1>1, <1>2, <1>3, <1>4, <2>4 DEF Fits
  <2>7. /\ SessionsOK(cli, db') /\ DOMAIN db' = DOMAIN db
        /\ Under(db') = Messages(b) /\ Under(db) = Messages(db[k])
    BY <1>1, <2>5, <2>6, PutType
  <2>8. Messages(db[k]) = Messages(b) + 1
    <3> DEFINE i == Len(db[k].in)
               o == Len(db[k].out)
    <3>1. Messages(b) = i + (o - 1) /\ Messages(db[k]) = i + o
      BY <1>4, <2>4, Zenon DEF Messages
    <3>2. i \in Nat /\ o \in Nat
      BY <1>3, LenProperties
    <3> HIDE DEF i, o
    <3> QED
      BY <3>1, <3>2
  <2>9. Messages(b) \in Nat
    BY <2>4, MessagesType
  <2>10. SessionsOK(cli', db')
    BY <2>2, <2>7, SameSessions
  <2>11. ~ Overlap => Under(db') = 0
    BY <2>7, <2>8, <2>9 DEF Inv, Alone
  <2> QED
    BY <2>2, <2>7, <2>10, <2>11 DEF Deliver, Inv, OthersOK, Alone, RowsOfTable
<1> QED
  BY <1>6, <1>7 DEF Deliver

LEMMA ConnectedInv == ASSUME Inv, Connected PROVE Inv'
<1> DEFINE c == [cli EXCEPT !.conn = FALSE, !.sock = "up"]
           h == Done("connect", TRUE)
<1>1. ClientOK(cli) /\ SessionsOK(cli, db) /\ cli.conn /\ cli.sock = "connecting"
      /\ db \in Seq(DataBase)
  BY DEF Inv, Connected, ClientOK, SessionsOK
<1>2. Completed(c) /\ c.sock = "up" /\ cli' = Post(c, h)
  BY <1>1 DEF ClientOK, Client, Completed, Connected
<1>3. h \in HandlerOf(cli)
  BY DoneType
<1> HIDE DEF h, c
<1>4. /\ ClientOK(cli') /\ Count(cli') = Count(cli) /\ cli'.table = cli.table
      /\ cli'.sock = "up"
  BY <1>1, <1>2, <1>3, CompleteType
<1>5. NewDataBase \in DataBase /\ NewDataBase.in = <<>> /\ NewDataBase.out = <<>>
  <2>1. <<>> \in Seq(Message)
    OBVIOUS
  <2> QED
    BY <2>1 DEF NewDataBase, DataBase
<1>6. db' = Append(db, NewDataBase) /\ pool' = Append(pool, Len(db'))
  BY DEF Connected
<1>7. /\ db' \in Seq(DataBase) /\ Len(db') = Len(db) + 1 /\ db' # <<>>
      /\ \A k \in DOMAIN db' : db'[k] = IF k \in DOMAIN db THEN db[k] ELSE NewDataBase
      /\ DOMAIN db = 1 .. Len(db) /\ DOMAIN db' = 1 .. Len(db) + 1 /\ Len(db) \in Nat
  BY <1>1, <1>5, <1>6
<1>8. \A k \in DOMAIN db' : Silent(db'[k])
  BY <1>1, <1>5, <1>7 DEF SessionsOK, Silent
<1>9. SessionsOK(cli', db')
  <2>1. <<>> \in Seq(Known(cli'))
    OBVIOUS
  <2> QED
    BY <1>7, <1>8, <2>1 DEF SessionsOK, Silent
<1>10. Under(db') = 0
  <2>1. Len(db') \in DOMAIN db' /\ db'[Len(db')] \in DataBase
    BY <1>7
  <2> QED
    BY <1>7, <1>8, <2>1, MessagesType DEF Under
<1>11. pool' \in Seq(DOMAIN db') /\ IsInjective(pool')
  <2>1. pool \in Seq(DOMAIN db) /\ IsInjective(pool)
    BY DEF Inv, OthersOK
  <2>2. \A i \in DOMAIN pool : pool[i] \in 1 .. Len(db)
    BY <1>7, <2>1
  <2>3. pool \in Seq(DOMAIN db')
    BY <1>7, <2>1
  <2>4. Len(db') \in DOMAIN db' /\ \A i \in DOMAIN pool : pool[i] # Len(db')
    BY <1>7, <2>2
  <2>5. /\ pool' \in Seq(DOMAIN db') /\ DOMAIN pool' = 1 .. Len(pool) + 1 /\ DOMAIN pool = 1 .. Len(pool)
        /\ \A i \in DOMAIN pool' : pool'[i] = IF i \in DOMAIN pool THEN pool[i] ELSE Len(db')
        /\ Len(pool) \in Nat
    BY <1>6, <2>3, <2>4
  <2>6. \A i, j \in DOMAIN pool' : pool'[i] = pool'[j] => i = j
    BY <2>1, <2>4, <2>5 DEF IsInjective
  <2> QED
    BY <2>5, <2>6 DEF IsInjective
<1>12. UNCHANGED <<resp, serving, loads, fresh, losses, done>>
  BY DEF Connected
<1>13. OthersOK'
  BY <1>11, <1>12 DEF Inv, OthersOK
<1>14. ~ Overlap => Alone(cli', db') /\ RowsOfTable'
  BY <1>4, <1>10, <1>12 DEF Inv, Alone, RowsOfTable
<1> QED
  BY <1>4, <1>9, <1>12, <1>13, <1>14 DEF Inv

-----------------------------------------------------------------------------
(* The sessions of SQLiteWebWrapper. *)

LEMMA SessionStep ==
    ASSUME Inv, NEW k, NEW b, Fits(cli, db, k, b), db' = Put(db, k, b),
           Messages(b) <= Messages(db[k]), losses' \in Nat,
           UNCHANGED <<cli, resp, serving, pool, loads, fresh, done>>
    PROVE  Inv'
<1>1. /\ SessionsOK(cli, db') /\ DOMAIN db' = DOMAIN db
      /\ k = Len(db) => Under(db') = Messages(b)
      /\ k # Len(db) => Under(db') = Under(db)
      /\ Under(db) = Messages(db[Len(db)])
  BY PutType DEF Inv
<1>2. Messages(b) \in Nat /\ Under(db) \in Nat
  BY MessagesType, UnderType DEF Fits, Inv
<1>3. ~ Overlap => Alone(cli', db')
  BY <1>1, <1>2 DEF Inv, Alone
<1>4. OthersOK'
  BY <1>1 DEF Inv, OthersOK
<1> QED
  BY <1>1, <1>3, <1>4 DEF Inv, RowsOfTable

LEMMA CrashInv ==
    ASSUME Inv, Crash, UNCHANGED <<cli, resp, loads, fresh, done>>
    PROVE  Inv'
<1>1. SessionsOK(cli, db) /\ db \in Seq(DataBase)
  BY DEF Inv, SessionsOK
<1>2. \A k \in DOMAIN db : [Broken(db[k]) EXCEPT !.phase = "gone"] \in DataBase
                            /\ Silent([Broken(db[k]) EXCEPT !.phase = "gone"])
  <2>1. SUFFICES ASSUME NEW k \in DOMAIN db
                 PROVE  [Broken(db[k]) EXCEPT !.phase = "gone"] \in DataBase
                        /\ Silent([Broken(db[k]) EXCEPT !.phase = "gone"])
    OBVIOUS
  <2> DEFINE b == Broken(db[k])
  <2>2. b \in DataBase /\ Silent(b)
    BY <1>1, BrokenType DEF Silent
  <2> HIDE DEF b
  <2>3. [b EXCEPT !.phase = "gone"] \in DataBase /\ Silent([b EXCEPT !.phase = "gone"])
    BY <2>2 DEF DataBase, Silent
  <2> QED
    BY <2>3 DEF b
<1>3. db' = [k \in DOMAIN db |-> [Broken(db[k]) EXCEPT !.phase = "gone"]]
  BY DEF Crash
<1>4. db' \in Seq(DataBase) /\ Len(db') = Len(db) /\ DOMAIN db' = DOMAIN db
  BY <1>1, <1>2, <1>3
<1>5. \A k \in DOMAIN db' : Silent(db'[k])
  BY <1>2, <1>3
<1>6. SessionsOK(cli, db')
  <2>1. <<>> \in Seq(Known(cli)) /\ (cli.sock = "up" => db' # <<>>)
    BY <1>1, <1>4 DEF SessionsOK
  <2> QED
    BY <1>4, <1>5, <2>1 DEF SessionsOK, Silent
<1>7. Under(db') = 0
  <2>1. CASE db' = <<>>
    BY <2>1 DEF Under
  <2>2. CASE db' # <<>>
    <3>1. Len(db') \in DOMAIN db' /\ db'[Len(db')] \in DataBase
      BY <1>4, <2>2
    <3> QED
      BY <1>5, <2>2, <3>1, MessagesType DEF Under
  <2> QED
    BY <2>1, <2>2
<1>8. OthersOK'
  <2>1. <<>> \in Seq(DOMAIN db') /\ IsInjective(<<>>)
    BY DEF IsInjective
  <2>2. pool' = <<>> /\ serving' = FALSE /\ losses' = losses + 1
    BY DEF Crash
  <2>3. resp' = resp /\ fresh' = fresh /\ loads' = loads /\ done' = done
    OBVIOUS
  <2>4. pool' \in Seq(DOMAIN db') /\ IsInjective(pool')
    BY <2>1, <2>2
  <2>5. {loads', losses', done'} \subseteq Nat
    BY <2>2, <2>3 DEF Inv, OthersOK
  <2> QED
    BY <2>2, <2>3, <2>4, <2>5 DEF Inv, OthersOK
<1>9. ~ Overlap => Alone(cli', db') /\ RowsOfTable'
  BY <1>7 DEF Inv, Alone, RowsOfTable
<1> QED
  BY <1>6, <1>8, <1>9 DEF Inv

LEMMA AnswerInv ==
    ASSUME Inv, NEW k \in DOMAIN db, db[k].in # <<>>,
           NEW phase \in {"auth_sent", "sent"}, NEW m \in Known(cli), NEW wrong \in BOOLEAN,
           Answer(k, phase, m, wrong), Unaffected
    PROVE  Inv'
<1>1. SessionsOK(cli, db) /\ db[k] \in DataBase /\ k = Len(db) /\ cli.sock = "up"
  BY DEF Inv, SessionsOK, Silent
<1> DEFINE q == Tail(db[k].in)
           r == Append(db[k].out, m)
           b == [db[k] EXCEPT !.phase = phase, !.wrong = wrong, !.half = FALSE, !.in = q, !.out = r]
<1>2. db[k].in \in Seq(Known(cli)) /\ db[k].out \in Seq(Known(cli))
  BY <1>1 DEF SessionsOK
<1>3. q \in Seq(Known(cli)) /\ Len(q) = Len(db[k].in) - 1
  BY <1>2, TailType
<1>4. r \in Seq(Known(cli)) /\ Len(r) = Len(db[k].out) + 1
  BY <1>2, AppendType
<1>5. db' = Put(db, k, b)
  BY DEF Answer, Put
<1> HIDE DEF q, r
<1>6. q \in Seq(Message) /\ r \in Seq(Message)
  BY <1>3, <1>4, KnownOnly, SeqMonotonic
<1>7. b \in DataBase /\ b.in = q /\ b.out = r
  BY <1>1, <1>6 DEF DataBase
<1> HIDE DEF b
<1>8. Fits(cli, db, k, b)
  BY <1>1, <1>3, <1>4, <1>7 DEF Fits
<1>9. Messages(b) <= Messages(db[k])
  <2> DEFINE i == Len(db[k].in)
             o == Len(db[k].out)
  <2>1. i \in Nat /\ o \in Nat /\ Messages(db[k]) = i + o
    BY <1>2, LenProperties DEF Messages
  <2>2. Messages(b) = (i - 1) + (o + 1)
    BY <1>3, <1>4, <1>7, Zenon DEF Messages
  <2> HIDE DEF i, o
  <2> QED
    BY <2>1, <2>2
<1> QED
  BY <1>5, <1>8, <1>9, SessionStep DEF Answer, Unaffected, Inv, OthersOK

(* A session changes what does not concern its messages, or drops one.      *)
LEMMA QuietStep ==
    ASSUME Inv, NEW k \in DOMAIN db, NEW b \in DataBase, db' = Put(db, k, b),
           \/ b.in = db[k].in /\ b.out = db[k].out
           \/ db[k].in # <<>> /\ b.in = Tail(db[k].in) /\ b.out = db[k].out
           \/ Silent(b),
           losses' \in Nat, UNCHANGED <<cli, resp, serving, pool, loads, fresh, done>>
    PROVE  Inv'
<1>1. SessionsOK(cli, db) /\ db[k] \in DataBase
      /\ db[k].in \in Seq(Known(cli)) /\ db[k].out \in Seq(Known(cli))
  BY DEF Inv, SessionsOK
<1> DEFINE i == Len(db[k].in)
           o == Len(db[k].out)
<1>2. i \in Nat /\ o \in Nat /\ Messages(db[k]) = i + o
  BY <1>1, LenProperties DEF Messages
<1>3. CASE b.in = db[k].in /\ b.out = db[k].out
  <2>1. Fits(cli, db, k, b)
    BY <1>1, <1>3 DEF Fits, SessionsOK, Silent
  <2>2. Messages(b) <= Messages(db[k])
    <3>1. Messages(b) = Messages(db[k])
      BY <1>3, Zenon DEF Messages
    <3> QED
      BY <1>1, <3>1, MessagesType
  <2> QED
    BY <2>1, <2>2, SessionStep
<1>4. CASE db[k].in # <<>> /\ b.in = Tail(db[k].in) /\ b.out = db[k].out
  <2>1. Tail(db[k].in) \in Seq(Known(cli)) /\ Len(Tail(db[k].in)) = i - 1
    BY <1>1, <1>4, TailType
  <2>2. Fits(cli, db, k, b)
    BY <1>1, <1>4, <2>1 DEF Fits, SessionsOK, Silent
  <2>3. Messages(b) = (i - 1) + o
    BY <1>4, <2>1, Zenon DEF Messages
  <2> HIDE DEF i, o
  <2>4. Messages(b) <= Messages(db[k])
    BY <1>2, <2>3
  <2> QED
    BY <2>2, <2>4, SessionStep
<1>5. CASE Silent(b)
  <2>1. <<>> \in Seq(Known(cli))
    OBVIOUS
  <2>2. Fits(cli, db, k, b)
    BY <1>5, <2>1 DEF Fits, Silent
  <2>3. Messages(b) = 0 /\ Messages(db[k]) \in Nat
    BY <1>1, <1>5, MessagesType
  <2>4. Messages(b) <= Messages(db[k])
    BY <2>3
  <2> QED
    BY <2>2, <2>4, SessionStep
<1> QED
  BY <1>3, <1>4, <1>5

LEMMA ReceivePartInv == ASSUME Inv, NEW k \in DOMAIN db, ReceivePart(k) PROVE Inv'
<1>1. db[k] \in DataBase /\ losses \in Nat
  BY DEF Inv, SessionsOK, OthersOK
<1>2. PICK junk \in BOOLEAN :
        db' = [db EXCEPT ![k].half = TRUE, ![k].phase = "auth", ![k].junk = @ \/ junk]
  BY DEF ReceivePart
<1> DEFINE b == [db[k] EXCEPT !.half = TRUE, !.phase = "auth", !.junk = db[k].junk \/ junk]
<1>3. b \in DataBase /\ b.in = db[k].in /\ b.out = db[k].out
  BY <1>1 DEF DataBase
<1>4. db' = Put(db, k, b)
  BY <1>1, <1>2 DEF Put, DataBase, Inv, SessionsOK
<1> HIDE DEF b
<1> QED
  BY <1>1, <1>3, <1>4, QuietStep DEF ReceivePart, Unaffected

LEMMA ConnectAnalizeInv == ASSUME Inv, NEW k \in DOMAIN db, ConnectAnalize(k) PROVE Inv'
<1>1. db[k] \in DataBase /\ losses \in Nat /\ db[k].in # <<>>
  BY DEF Inv, SessionsOK, OthersOK, ConnectAnalize
<1>2. CASE /\ db' = [db EXCEPT ![k].half = FALSE, ![k].in = Tail(@)]
           /\ UNCHANGED <<serving, pool, losses>>
  <2> DEFINE b == [db[k] EXCEPT !.half = FALSE, !.in = Tail(db[k].in)]
  <2>1. b \in DataBase /\ b.in = Tail(db[k].in) /\ b.out = db[k].out
    <3>1. Tail(db[k].in) \in Seq(Message)
      BY <1>1, TailType DEF DataBase
    <3> QED
      BY <1>1, <3>1 DEF DataBase
  <2>2. db' = Put(db, k, b)
    BY <1>1, <1>2 DEF Put, DataBase, Inv, SessionsOK
  <2> HIDE DEF b
  <2> QED
    BY <1>1, <1>2, <2>1, <2>2, QuietStep DEF ConnectAnalize, Unaffected
<1>3. CASE CheckLogin(k)
  <2>1. M("success") \in Known(cli) /\ M("fail") \in Known(cli)
    BY MType
  <2>2. CASE Answer(k, "auth_sent", M("success"), FALSE)
    BY <1>1, <2>1, <2>2, AnswerInv DEF ConnectAnalize
  <2>3. CASE Answer(k, "auth_sent", M("fail"), TRUE)
    BY <1>1, <2>1, <2>3, AnswerInv DEF ConnectAnalize
  <2>4. CASE Crash
    BY <2>4, CrashInv DEF ConnectAnalize, Unaffected
  <2>5. CASE AnswerNothing(k)
    <3> DEFINE b == [db[k] EXCEPT !.phase = "auth_sent", !.half = FALSE, !.in = Tail(db[k].in)]
    <3>1. b \in DataBase /\ b.in = Tail(db[k].in) /\ b.out = db[k].out
      <4>1. Tail(db[k].in) \in Seq(Message)
        BY <1>1, TailType DEF DataBase
      <4> QED
        BY <1>1, <4>1 DEF DataBase
    <3>2. db' = Put(db, k, b) /\ UNCHANGED <<serving, pool, losses>>
      BY <1>1, <2>5 DEF AnswerNothing, Put, DataBase, Inv, SessionsOK
    <3> HIDE DEF b
    <3> QED
      BY <1>1, <3>1, <3>2, QuietStep DEF ConnectAnalize, Unaffected
  <2> QED
    BY <1>3, <2>2, <2>3, <2>4, <2>5 DEF CheckLogin
<1> QED
  BY <1>2, <1>3 DEF ConnectAnalize

LEMMA ResAutentificationInv == ASSUME Inv, NEW k \in DOMAIN db, ResAutentification(k) PROVE Inv'
<1>1. db[k] \in DataBase /\ losses \in Nat
  BY DEF Inv, SessionsOK, OthersOK
<1> DEFINE x == db[k].exit \/ db[k].wrong
           l == db[k].link /\ ~ db[k].wrong
           b == [db[k] EXCEPT !.phase = "wait", !.wrong = FALSE, !.exit = x, !.link = l]
<1>2. db' = [db EXCEPT ![k].phase = "wait", ![k].wrong = FALSE, ![k].exit = x, ![k].link = l]
  BY <1>1 DEF ResAutentification, DataBase, Inv, SessionsOK
<1>3. x \in BOOLEAN /\ l \in BOOLEAN
  BY <1>1 DEF DataBase
<1> HIDE DEF x, l
<1>4. b \in DataBase /\ b.in = db[k].in /\ b.out = db[k].out
  BY <1>1, <1>3 DEF DataBase
<1>5. db' = Put(db, k, b)
  BY <1>1, <1>2 DEF Put, DataBase, Inv, SessionsOK
<1> HIDE DEF b
<1> QED
  BY <1>1, <1>4, <1>5, QuietStep DEF ResAutentification, Unaffected

(* __sendCommand gives its session another record.                          *)
LEMMA SendCommandPut ==
    ASSUME db \in Seq(DataBase), NEW k \in DOMAIN db, SendCommand(k)
    PROVE  LET p == IF db[k].wrong THEN "gone" ELSE "wait"
               x == db[k].exit \/ db[k].wrong
               l == db[k].link /\ ~ db[k].wrong
           IN  db' = Put(db, k, [db[k] EXCEPT !.phase = p, !.exit = x, !.wrong = FALSE, !.link = l])
<1> DEFINE p == IF db[k].wrong THEN "gone" ELSE "wait"
           x == db[k].exit \/ db[k].wrong
           l == db[k].link /\ ~ db[k].wrong
<1>1. db' = [db EXCEPT ![k].phase = p, ![k].exit = x, ![k].wrong = FALSE, ![k].link = l]
  BY DEF SendCommand
<1> HIDE DEF p, x, l
<1>2. db' = Put(db, k, [db[k] EXCEPT !.phase = p, !.exit = x, !.wrong = FALSE, !.link = l])
  BY <1>1 DEF Put, DataBase
<1> QED
  BY <1>2 DEF p, x, l

LEMMA SendCommandInv == ASSUME Inv, NEW k \in DOMAIN db, SendCommand(k) PROVE Inv'
<1>1. db \in Seq(DataBase) /\ db[k] \in DataBase /\ losses \in Nat
  BY DEF Inv, SessionsOK, OthersOK
<1> DEFINE x == db[k].exit \/ db[k].wrong
           l == db[k].link /\ ~ db[k].wrong
           p == IF db[k].wrong THEN "gone" ELSE "wait"
           b == [db[k] EXCEPT !.phase = p, !.exit = x, !.wrong = FALSE, !.link = l]
<1>2. db' = Put(db, k, b)
  BY <1>1, SendCommandPut
<1>3. x \in BOOLEAN /\ l \in BOOLEAN /\ p \in {"gone", "wait"}
  BY <1>1 DEF DataBase
<1> HIDE DEF x, l, p
<1>4. b \in DataBase /\ b.in = db[k].in /\ b.out = db[k].out
  BY <1>1, <1>3 DEF DataBase
<1> HIDE DEF b
<1> QED
  BY <1>1, <1>2, <1>4, QuietStep DEF SendCommand, Unaffected

LEMMA WaitCommandInv == ASSUME Inv, NEW k \in DOMAIN db, WaitCommand(k) PROVE Inv'
<1>1. db[k] \in DataBase /\ db[k].in # <<>> /\ db[k].in \in Seq(Known(cli))
  BY DEF Inv, SessionsOK, WaitCommand
<1> DEFINE m == Head(db[k].in)
<1>2. m \in Known(cli)
  BY <1>1, TailType
<1>3. M("bye") \in Known(cli)
  BY MType
<1>4. CASE Answer(k, "sent", M("bye"), TRUE)
  BY <1>1, <1>3, <1>4, AnswerInv DEF WaitCommand
<1>5. CASE Crash
  BY <1>5, CrashInv DEF WaitCommand, Unaffected
<1>6. CASE m.kind = "query" /\ Answer(k, "sent", [kind |-> "rows", of |-> m.of], FALSE)
  <2> DEFINE r == [kind |-> "rows", of |-> m.of]
  <2>1. r \in Known(cli)
    BY <1>2, <1>6 DEF Known, Message
  <2> HIDE DEF r
  <2> QED
    BY <1>1, <1>6, <2>1, AnswerInv DEF WaitCommand, r
<1> QED
  BY <1>4, <1>5, <1>6 DEF WaitCommand, MakeQuery

LEMMA SweepInv == ASSUME Inv, Sweep PROVE Inv'
<1>1. CASE Crash
  BY <1>1, CrashInv DEF Sweep, Unaffected
<1>2. CASE pool # <<>> /\ pool' = Front(pool) /\ UNCHANGED <<db, serving, losses>>
  <2>1. pool \in Seq(DOMAIN db) /\ IsInjective(pool)
    BY DEF Inv, OthersOK
  <2>2. /\ Front(pool) \in Seq(DOMAIN db) /\ DOMAIN Front(pool) \subseteq DOMAIN pool
        /\ \A i \in DOMAIN Front(pool) : Front(pool)[i] = pool[i]
    BY <1>2, <2>1 DEF Front
  <2>3. pool' \in Seq(DOMAIN db) /\ IsInjective(pool')
    BY <1>2, <2>1, <2>2 DEF IsInjective
  <2> QED
    BY <1>2, <2>3 DEF Sweep, Unaffected, Inv, OthersOK, RowsOfTable
<1> QED
  BY <1>1, <1>2 DEF Sweep

LEMMA LoseInv == ASSUME Inv, Lose PROVE Inv'
<1> DEFINE k == Len(db)
           b == Broken(db[k])
<1>1. k \in DOMAIN db /\ db[k] \in DataBase /\ losses \in Nat
  BY DEF Lose, Inv, SessionsOK, OthersOK
<1>2. b \in DataBase /\ Silent(b)
  BY <1>1, BrokenType DEF Silent
<1>3. db' = Put(db, k, b)
  BY DEF Lose, Put
<1> HIDE DEF b
<1> QED
  BY <1>1, <1>2, <1>3, QuietStep DEF Lose

LEMMA RestartInv == ASSUME Inv, Restart PROVE Inv'
BY DEF Restart, Inv, OthersOK, RowsOfTable

-----------------------------------------------------------------------------
LEMMA InitInv == ASSUME Init PROVE Inv
<1>1. cli \in Client /\ cli.ready = <<>> /\ ~ cli.conn /\ cli.recv = 0 /\ cli.sock = "closed"
  <2>1. <<>> \in Seq(Table) /\ <<>> \in Seq(Handler)
    OBVIOUS
  <2> QED
    BY <2>1 DEF Init, Client
<1>2. ClientOK(cli)
  <2>1. <<>> \in Seq(HandlerOf(cli))
    OBVIOUS
  <2> QED
    BY <1>1, <2>1 DEF ClientOK
<1>3. SessionsOK(cli, db) /\ Under(db) = 0
  <2>1. db = <<>> /\ <<>> \in Seq(DataBase)
    BY DEF Init
  <2> QED
    BY <1>1, <2>1 DEF SessionsOK, Under
<1>4. Count(cli) = 0
  <2>1. Len(cli.ready) = 0 /\ Bit(cli.conn) = 0
    BY <1>1 DEF Bit
  <2>2. Count(cli) = 0 + 0 + 0
    BY <1>1, <2>1, Zenon DEF Count
  <2> QED
    BY <2>2
<1>5. OthersOK
  <2>1. pool = <<>> /\ <<>> \in Seq(DOMAIN db) /\ IsInjective(<<>>)
    BY DEF Init, IsInjective
  <2> QED
    BY <2>1 DEF Init, OthersOK
<1>6. RowsOfTable
  BY DEF Init, RowsOfTable
<1> QED
  BY <1>2, <1>3, <1>4, <1>5, <1>6 DEF Inv, Alone, Init

LEMMA NextInv == ASSUME Inv, [Next]_vars PROVE Inv'
<1>1. CASE UNCHANGED vars
  BY <1>1 DEF vars, Inv, OthersOK, RowsOfTable
<1>2. CASE RunHandler
  BY <1>2, OnErrorInv, OnConnectInv, OnSendInv, OnReceivePartInv, OnReceiveInv DEF RunHandler
<1>3. CASE \E k \in DOMAIN db : RunSession(k)
  BY <1>3, ReceivePartInv, ConnectAnalizeInv, ResAutentificationInv, WaitCommandInv,
     SendCommandInv DEF RunSession
<1> QED
  BY <1>1, <1>2, <1>3, ConnectToDBInv, ConnectedInv, ConnectRefusedInv, DeliverInv, DeliverEndInv,
     LoseInv, RestartInv, SweepInv DEF Next

THEOREM Invariance == Spec => []Inv
<1>1. Init => Inv
  BY InitInv
<1>2. Inv /\ [Next]_vars => Inv'
  BY NextInv
<1> QED
  BY <1>1, <1>2, PTL DEF Spec

(* What ClientDB and the sessions keep is of its type, for any tables and   *)
(* any number of loads, losses and connections: in particular no table is   *)
(* taken from an empty queue, and the pool of sessions holds none twice.    *)
THEOREM TypeCorrect == Spec => []TypeOK
BY Invariance, InvTypes, PTL

(* However often the refresh starts the client while a load still runs, it  *)
(* has at most one operation or handler for each load begun.                *)
THEOREM OneChain == Spec => []OneChainPerLoad
BY Invariance, InvTypes, PTL

LEMMA InvSingleFile == ASSUME Inv, ~ Overlap PROVE SingleFile
<1>1. ClientOK(cli) /\ SessionsOK(cli, db) /\ Alone(cli, db)
  BY DEF Inv
<1>2. Operations = Count(cli)
  BY Zenon DEF Operations, Count, Bit
<1>3. UnderWay = Under(db) /\ Under(db) \in Nat /\ Under(db) <= 1
  <2>1. UnderWay = Under(db)
    BY Zenon DEF UnderWay, Under, Messages
  <2> QED
    BY <1>1, <2>1, UnderType DEF Alone
<1>4. cli.ready \in Seq(Handler) /\ Len(cli.ready) \in {0, 1}
  <2> DEFINE l == Len(cli.ready)
  <2>1. l \in Nat /\ l <= Count(cli) /\ Count(cli) \in Nat /\ Count(cli) <= 1
    BY <1>1, CountType DEF Alone
  <2>2. cli.ready \in Seq(Handler)
    BY <1>1 DEF ClientOK, Client
  <2> HIDE DEF l
  <2>3. l \in {0, 1}
    BY <2>1
  <2> QED
    BY <2>2, <2>3 DEF l
<1>5. CASE Answered = {}
  <2>1. Cardinality(Answered) = 0
    BY <1>5, FS_EmptySet
  <2> QED
    BY <1>1, <1>2, <1>3, <2>1 DEF SingleFile, Alone
<1>6. CASE Answered # {}
  <2>1. PICK i \in DOMAIN cli.ready : Answers(cli.ready[i])
    BY <1>6 DEF Answered
  <2>2. DOMAIN cli.ready = {1} /\ i = 1 /\ cli.ready # <<>> /\ Head(cli.ready) = cli.ready[1]
    BY <1>4, <2>1
  <2>3. Answered = {1}
    BY <2>1, <2>2 DEF Answered
  <2>4. Cardinality(Answered) = 1
    BY <2>3, FS_Singleton
  <2>5. Free(cli)
    BY <2>1, <2>2 DEF Free, Answers
  <2>6. Under(db) = 0
    BY <1>1, <2>5 DEF Alone
  <2> QED
    BY <1>1, <1>2, <1>3, <2>4, <2>6 DEF SingleFile, Alone
<1> QED
  BY <1>5, <1>6

(* A load that no refresh disturbs goes one step at a time through both     *)
(* processes, whatever connections it loses and however it is answered.     *)
THEOREM LoadInSingleFile == ~ Overlap => (Spec => []SingleFile)
<1>1. SUFFICES ASSUME ~ Overlap PROVE Spec => []SingleFile
  OBVIOUS
<1>2. Inv => SingleFile
  BY <1>1, InvSingleFile
<1> QED
  BY <1>2, Invariance, PTL

(* And it keeps for every table that table's rows only, although an answer  *)
(* does not say which query it answers.                                     *)
THEOREM RowsKeptForTheirTable == ~ Overlap => (Spec => []RowsOfTable)
<1>1. SUFFICES ASSUME ~ Overlap PROVE Spec => []RowsOfTable
  OBVIOUS
<1>2. Inv => RowsOfTable
  BY <1>1 DEF Inv
<1> QED
  BY <1>2, Invariance, PTL

-----------------------------------------------------------------------------
(* A load that loses no connection.                                         *)

(* A load that loses no connection has one connection only.  While it talks *)
(* on it nothing has failed; once its session is told to end, or ends, the  *)
(* farewell is on its way to the client, which then hangs up for good.      *)
Farewell(c, b) ==
    \/ b.out # <<>> /\ Head(b.out).kind = "bye"
    \/ c.ready # <<>> /\ Answers(Head(c.ready)) /\ Head(c.ready).msg.kind = "bye"

Open(b) == b.link /\ ~ b.wrong /\ b.phase # "gone"

Cheerful(h) == h.ok /\ (h.op = "recv" => h.conn = 1 /\ h.msg.kind # "fail")

Connecting(c) ==
    /\ c.sock = "connecting" /\ c.ready = <<>> /\ c.recv = 0
    /\ ~ c.disconnect /\ c.parser = 0

Talking(c, b) ==
    /\ c.sock = "up" /\ ~ c.disconnect /\ c.parser \in {0, 1}
    /\ c.ready # <<>> => Cheerful(Head(c.ready))
    /\ b.out # <<>> => Head(b.out).kind # "fail"
    /\ IF Farewell(c, b) THEN Ended(b) ELSE Open(b)

HungUp(c, b) == c.sock = "closed" /\ c.ready = <<>> /\ Ended(b)

Lone ==
    /\ loads = 0 => db = <<>> /\ serving /\ cli.sock = "closed" /\ cli.parser = 0
    /\ losses = 0 /\ loads = 1 =>
          /\ serving
          /\ \/ db = <<>> /\ Connecting(cli)
             \/ Len(db) = 1 /\ (Talking(cli, db[1]) \/ HungUp(cli, db[1]))

(* Lone, once the load has begun. *)
Lonely ==
    /\ serving
    /\ \/ db = <<>> /\ Connecting(cli)
       \/ Len(db) = 1 /\ (Talking(cli, db[1]) \/ HungUp(cli, db[1]))

LEMMA OneLeft ==
    ASSUME NEW S, NEW q \in Seq(S), Len(q) = 1
    PROVE  Tail(q) = <<>>
<1> DEFINE t == Tail(q)
<1>1. q # <<>>
  OBVIOUS
<1>2. t \in Seq(S) /\ Len(t) = 0
  BY <1>1, TailType
<1> HIDE DEF t
<1>3. t = <<>>
  BY <1>2
<1> QED
  BY <1>3 DEF t

(* There is one thing at a time on the client's side ...                    *)
LEMMA OneOperation ==
    ASSUME Inv, ~ Overlap
    PROVE  /\ cli \in Client /\ cli.recv \in Nat
           /\ cli.ready # <<>> => Tail(cli.ready) = <<>> /\ cli.recv = 0 /\ ~ cli.conn
           /\ cli.recv > 0 => cli.ready = <<>> /\ cli.recv = 1 /\ ~ cli.conn /\ cli.sock = "up"
           /\ cli.conn => cli.ready = <<>> /\ cli.recv = 0 /\ cli.sock = "connecting"
<1> DEFINE l == Len(cli.ready)
           b == Bit(cli.conn)
<1>1. ClientOK(cli) /\ cli \in Client /\ cli.ready \in Seq(Handler) /\ cli.conn \in BOOLEAN
  BY DEF Inv, ClientOK, Client
<1>2. l \in Nat /\ cli.recv \in Nat /\ b \in {0, 1} /\ Count(cli) = l + cli.recv + b
  BY <1>1, CountType DEF Count
<1>3. Count(cli) <= 1
  BY DEF Inv, Alone
<1>4. (cli.conn => b = 1) /\ (~ cli.conn => b = 0)
  BY DEF Bit
<1>5. (cli.ready # <<>> => l > 0) /\ (l = 0 => cli.ready = <<>>)
  BY <1>1
<1>6. l = 1 => Tail(cli.ready) = <<>>
  BY <1>1, OneLeft
<1> HIDE DEF l, b
<1>7. /\ l > 0 => l = 1 /\ cli.recv = 0 /\ b = 0
      /\ cli.recv > 0 => l = 0 /\ cli.recv = 1 /\ b = 0
      /\ b = 1 => l = 0 /\ cli.recv = 0
  BY <1>2, <1>3
<1> QED
  BY <1>1, <1>2, <1>4, <1>5, <1>6, <1>7 DEF ClientOK

(* ... and on its connection.                                               *)
LEMMA OneMessage ==
    ASSUME Inv, ~ Overlap, Len(db) = 1
    PROVE  /\ DOMAIN db = {1} /\ db \in Seq(DataBase) /\ db[1] \in DataBase
           /\ db[1].in \in Seq(Message) /\ db[1].out \in Seq(Message)
           /\ db[1].in # <<>> => db[1].out = <<>> /\ cli.sock = "up" /\ ~ Free(cli)
           /\ db[1].out # <<>> => Tail(db[1].out) = <<>> /\ ~ Free(cli)
           /\ cli.sock # "up" => Silent(db[1])
<1> DEFINE i == Len(db[1].in)
           o == Len(db[1].out)
<1>1. SessionsOK(cli, db) /\ db \in Seq(DataBase) /\ Alone(cli, db)
  BY DEF Inv, SessionsOK
<1>2. DOMAIN db = {1} /\ db # <<>> /\ db[1] \in DataBase
  BY <1>1
<1>3. db[1].in \in Seq(Message) /\ db[1].out \in Seq(Message)
  BY <1>2 DEF DataBase
<1>4. i \in Nat /\ o \in Nat /\ Under(db) = i + o
  <2>1. Under(db) = i + o
    BY <1>2, Zenon DEF Under, Messages
  <2> QED
    BY <1>3, <2>1, LenProperties
<1>5. (db[1].in # <<>> => i > 0) /\ (db[1].out # <<>> => o > 0) /\ (o = 0 => db[1].out = <<>>)
  BY <1>3
<1>6. o = 1 => Tail(db[1].out) = <<>>
  BY <1>3, OneLeft
<1>7. Under(db) <= 1 /\ (Free(cli) => Under(db) = 0)
  BY <1>1 DEF Alone
<1>8. cli.sock # "up" => Silent(db[1])
  BY <1>1, <1>2 DEF SessionsOK
<1> HIDE DEF i, o
<1>9. /\ i > 0 => o = 0 /\ ~ Free(cli)
      /\ o > 0 => o = 1 /\ ~ Free(cli)
  BY <1>4, <1>7
<1>10. db[1].in # <<>> => cli.sock = "up"
  BY <1>8 DEF Silent
<1> QED
  BY <1>1, <1>2, <1>3, <1>5, <1>6, <1>8, <1>9, <1>10

(* What the client says on an open connection arrives.                      *)
LEMMA SendLone ==
    ASSUME NEW c \in Client, c.ready = <<>>, c.sock = "up", ~ c.disconnect, c.parser \in {0, 1},
           db \in Seq(DataBase), Len(db) = 1, db[1].out = <<>>, Open(db[1]),
           NEW m \in Message, Send(c, m)
    PROVE  Len(db') = 1 /\ Talking(cli', db'[1])
<1> DEFINE q == Append(db[1].in, m)
           b == [db[1] EXCEPT !.in = q]
           h == Done("send", TRUE)
<1>1. db[1] \in DataBase /\ db[1].link
  <2>1. 1 \in DOMAIN db
    OBVIOUS
  <2>2. db[1] \in DataBase
    BY <2>1
  <2> QED
    BY <2>2 DEF Open
<1>2. cli' = Post(c, h) /\ db' = [db EXCEPT ![1].in = Append(@, m)]
  BY <1>1 DEF Send
<1>3. q \in Seq(Message)
  BY <1>1 DEF DataBase
<1>4. db' = [db EXCEPT ![1] = b]
  BY <1>2
<1> HIDE DEF q
<1>5. b.out = <<>> /\ b.link = db[1].link /\ b.wrong = db[1].wrong /\ b.phase = db[1].phase
  BY <1>1 DEF DataBase
<1> HIDE DEF b
<1>6. Len(db') = 1 /\ db'[1] = b
  BY <1>4
<1>7. /\ cli'.ready = Append(c.ready, h) /\ cli'.sock = c.sock /\ cli'.disconnect = c.disconnect
      /\ cli'.parser = c.parser
  BY <1>2 DEF Post, Client
<1> HIDE DEF h
<1>8. cli'.ready # <<>> /\ Head(cli'.ready) = h
  BY <1>7
<1>9. h.ok /\ h.op = "send"
  BY DEF h, Done
<1>10. ~ Farewell(cli', b) /\ Open(b)
  BY <1>5, <1>8, <1>9 DEF Farewell, Answers, Open
<1> QED
  BY <1>5, <1>6, <1>7, <1>8, <1>9, <1>10 DEF Talking, Cheerful

LEMMA CheckConnectLone ==
    ASSUME NEW c \in Client, c.ready = <<>>, c.sock = "up", ~ c.disconnect, c.parser \in {0, 1},
           db \in Seq(DataBase), Len(db) = 1, db[1].out = <<>>, Open(db[1]), CheckConnect(c)
    PROVE  Len(db') = 1 /\ Talking(cli', db'[1])
<1>1. CASE /\ c.queue # <<>>
           /\ Send([c EXCEPT !.table = Head(c.queue), !.queue = Tail(c.queue)],
                   [kind |-> "query", of |-> Head(c.queue)])
  <2> DEFINE x == Head(c.queue)
             y == Tail(c.queue)
             e == [c EXCEPT !.table = x, !.queue = y]
             m == [kind |-> "query", of |-> x]
  <2>1. x \in Table /\ y \in Seq(Table)
    BY <1>1 DEF Client
  <2>2. Send(e, m)
    BY <1>1
  <2> HIDE DEF x, y
  <2>3. /\ e \in Client /\ e.ready = <<>> /\ e.sock = "up" /\ ~ e.disconnect
        /\ e.parser \in {0, 1}
    BY <2>1 DEF Client
  <2>4. m \in Message
    BY <2>1 DEF Message
  <2> HIDE DEF e, m
  <2> QED
    BY <2>2, <2>3, <2>4, SendLone
<1>2. ASSUME NEW kind \in {"connect", "disconnect"}, Send(c, M(kind))
      PROVE  Len(db') = 1 /\ Talking(cli', db'[1])
  <2>1. M(kind) \in Message
    BY MType
  <2> QED
    BY <1>2, <2>1, SendLone
<1> QED
  BY <1>1, <1>2 DEF CheckConnect, QueryGenerator

(* The client hangs up on a session that has ended.                         *)
LEMMA StopLone ==
    ASSUME NEW c, ClientOK(c), Count(c) = 0, cli.sock = "up",
           db \in Seq(DataBase), Len(db) = 1, Ended(db[1]), cli' = Stop(c), db' = HangUp
    PROVE  Len(db') = 1 /\ HungUp(cli', db'[1])
<1>1. ClientOK(cli') /\ Count(cli') = 0 /\ cli'.sock = "closed"
  BY StopType
<1>2. cli'.ready = <<>>
  BY <1>1, CountZero
<1> DEFINE b == Broken(db[1])
<1>3. db[1] \in DataBase
  <2>1. db \in Seq(DataBase) /\ 1 \in 1..Len(db)
    OBVIOUS
  <2> QED
    BY ONLY <2>1, ElementOfSeq
<1>4. b.phase = db[1].phase /\ b.wrong = db[1].wrong
  BY <1>3, BrokenType
<1>5. db' = [db EXCEPT ![1] = b]
  BY DEF HangUp
<1> HIDE DEF b
<1>6. Len(db') = 1 /\ db'[1] = b
  BY <1>5
<1> QED
  BY <1>1, <1>2, <1>4, <1>6 DEF HungUp, Ended

-----------------------------------------------------------------------------
(* The client's handlers. *)

(* What a handler starts from.                                              *)
LEMMA HandlerLone ==
    ASSUME Inv, ~ Overlap, Lonely, cli.ready # <<>>
    PROVE  /\ Len(db) = 1 /\ Talking(cli, db[1]) /\ cli.sock = "up" /\ Cheerful(This)
           /\ This \in Handler
           /\ Rest \in Client /\ Rest.ready = <<>> /\ Rest.sock = "up" /\ Rest.recv = 0
           /\ ~ Rest.conn /\ ~ Rest.disconnect /\ Rest.parser \in {0, 1}
           /\ ClientOK(Rest) /\ Count(Rest) = 0
<1>1. Len(db) = 1 /\ Talking(cli, db[1])
  BY DEF Lonely, Connecting, HungUp
<1>2. Tail(cli.ready) = <<>> /\ cli.recv = 0 /\ ~ cli.conn /\ cli \in Client
  BY OneOperation
<1>3. Rest = [cli EXCEPT !.ready = <<>>]
  BY <1>2 DEF Rest
<1>4. /\ Rest.ready = <<>> /\ Rest.sock = cli.sock /\ Rest.recv = cli.recv /\ Rest.conn = cli.conn
      /\ Rest.disconnect = cli.disconnect /\ Rest.parser = cli.parser
  BY <1>2, <1>3 DEF Client
<1>5. ClientOK(Rest) /\ Count(Rest) = 0 /\ Rest \in Client /\ This \in Handler
  BY RestType, KnownOnly DEF ClientOK
<1> QED
  BY <1>1, <1>2, <1>4, <1>5 DEF Talking, This

LEMMA OnErrorLone == ASSUME Inv, ~ Overlap, Lonely, OnError PROVE FALSE
BY HandlerLone DEF OnError, Cheerful

LEMMA OnConnectLone == ASSUME Inv, ~ Overlap, Lonely, OnConnect PROVE Lonely'
<1> DEFINE c == Rest
<1>1. cli.ready # <<>> /\ This.op = "connect" /\ This.ok /\ CheckConnect(c) /\ serving' = serving
  BY DEF OnConnect, Due, This
<1>2. /\ Len(db) = 1 /\ Talking(cli, db[1]) /\ c \in Client /\ c.ready = <<>> /\ c.sock = "up"
      /\ ~ c.disconnect /\ c.parser \in {0, 1}
  BY <1>1, HandlerLone
<1>3. db \in Seq(DataBase) /\ db[1].out = <<>>
  <2>1. Free(cli)
    BY <1>1 DEF Free, This
  <2> QED
    BY <1>2, <2>1, OneMessage
<1>4. Open(db[1])
  <2>1. ~ Farewell(cli, db[1])
    BY <1>1, <1>3 DEF Farewell, Answers, This
  <2> QED
    BY <1>2, <2>1 DEF Talking
<1> HIDE DEF c
<1>5. Len(db') = 1 /\ Talking(cli', db'[1])
  BY <1>1, <1>2, <1>3, <1>4, CheckConnectLone
<1> QED
  BY <1>1, <1>5 DEF Lonely

(* A receive is started, after a send or a part of an answer.               *)
LEMMA ReceiveLone ==
    ASSUME Inv, ~ Overlap, Lonely, cli.ready # <<>>, ~ Answers(This), NEW p \in {0, 1},
           NEW c, c = [Rest EXCEPT !.parser = p], cli' = AsyncReceive(c), UNCHANGED <<db, serving>>
    PROVE  Lonely'
<1>1. /\ Len(db) = 1 /\ Talking(cli, db[1])
      /\ Rest \in Client /\ Rest.ready = <<>> /\ Rest.sock = "up" /\ ~ Rest.disconnect
  BY HandlerLone
<1>2. c \in Client /\ c.ready = <<>> /\ c.sock = "up" /\ ~ c.disconnect /\ c.parser = p
  BY <1>1 DEF Client
<1>3. cli' = [c EXCEPT !.recv = @ + 1]
  BY <1>2 DEF AsyncReceive
<1>4. cli'.ready = <<>> /\ cli'.sock = "up" /\ ~ cli'.disconnect /\ cli'.parser = p
  BY <1>2, <1>3 DEF Client
<1>5. Farewell(cli', db[1]) <=> Farewell(cli, db[1])
  BY <1>4 DEF Farewell, This
<1>6. Talking(cli', db[1])
  BY <1>1, <1>4, <1>5 DEF Talking
<1> QED
  BY <1>1, <1>6 DEF Lonely

LEMMA OnSendLone == ASSUME Inv, ~ Overlap, Lonely, OnSend PROVE Lonely'
<1> DEFINE c == [Rest EXCEPT !.parser = Rest.parser]
<1>1. /\ cli.ready # <<>> /\ ~ Answers(This) /\ cli' = AsyncReceive(Rest)
      /\ UNCHANGED <<db, serving>>
  BY DEF OnSend, Due, Answers, This
<1>2. Rest \in Client /\ Rest.parser \in {0, 1}
  BY <1>1, HandlerLone
<1>3. c = Rest
  BY <1>2 DEF Client
<1> HIDE DEF c
<1> QED
  BY <1>1, <1>2, <1>3, ReceiveLone DEF c

LEMMA OnReceivePartLone == ASSUME Inv, ~ Overlap, Lonely, OnReceivePart PROVE Lonely'
<1> DEFINE p == IF Rest.parser = 0 THEN This.conn ELSE Rest.parser
           c == [Rest EXCEPT !.parser = p]
<1>1. /\ cli.ready # <<>> /\ This.op = "recv" /\ This.ok /\ ~ Parsed
      /\ cli' = AsyncReceive([Rest EXCEPT !.parser = IF @ = 0 THEN This.conn ELSE @])
      /\ UNCHANGED <<db, serving>>
  BY DEF OnReceivePart, Due, This
<1>2. Rest \in Client /\ Rest.parser \in {0, 1} /\ This.conn = 1 /\ cli.parser \in {0, 1}
  BY <1>1, HandlerLone DEF Cheerful, Talking
<1>3. ~ Answers(This)
  BY <1>1, <1>2 DEF Parsed, Answers
<1>4. cli' = AsyncReceive(c)
  BY <1>1
<1>5. p \in {0, 1}
  BY <1>2
<1> HIDE DEF p
<1> QED
  BY <1>1, <1>3, <1>4, <1>5, ReceiveLone

LEMMA OnReceiveLone == ASSUME Inv, ~ Overlap, Lonely, OnReceive PROVE Lonely'
<1> DEFINE c == [Rest EXCEPT !.parser = 0]
<1>1. cli.ready # <<>> /\ Answers(This) /\ serving' = serving
  BY DEF OnReceive, Due, Parsed, Answers, This
<1>2. /\ Len(db) = 1 /\ Talking(cli, db[1]) /\ Rest \in Client /\ Rest.ready = <<>>
      /\ Rest.sock = "up" /\ ~ Rest.disconnect /\ ClientOK(Rest) /\ Count(Rest) = 0
      /\ cli.sock = "up" /\ This.op = "recv" /\ This.msg.kind # "fail"
  BY <1>1, HandlerLone DEF Cheerful, Answers
<1>3. db \in Seq(DataBase) /\ db[1].out = <<>> /\ SessionsOK(Rest, db)
  <2>1. Free(cli)
    BY <1>1 DEF Free, This, Answers
  <2> QED
    BY <1>1, <1>2, <2>1, OneMessage, RestType
<1>4. Farewell(cli, db[1]) <=> This.msg.kind = "bye"
  BY <1>1, <1>3 DEF Farewell, This
<1>5. CASE This.msg.kind = "bye"
  <2> DEFINE e == [Rest EXCEPT !.parser = 0, !.connet = Rest.connet, !.disconnect = TRUE]
  <2>1. CheckConnect([c EXCEPT !.disconnect = TRUE])
    BY <1>5 DEF OnReceive
  <2>2. /\ [c EXCEPT !.disconnect = TRUE] = e /\ e.disconnect /\ Rest.connet \in BOOLEAN
        /\ e = [Rest EXCEPT !.parser = 0, !.connet = Rest.connet, !.disconnect = TRUE]
    BY <1>2 DEF Client
  <2> HIDE DEF c, e
  <2>3. ClientOK(e) /\ Count(e) = 0
    <3>1. PICK f \in BOOLEAN, g \in BOOLEAN : f = Rest.connet /\ g = TRUE
      BY <2>2
    <3>2. e = [Rest EXCEPT !.parser = 0, !.connet = f, !.disconnect = g]
      BY <2>2, <3>1
    <3>3. ClientOK(Rest) /\ SessionsOK(Rest, db) /\ Count(Rest) = 0
      BY <1>2, <1>3
    <3>4. ClientOK(e) /\ Count(e) = Count(Rest)
      BY <3>1, <3>2, <3>3, FlagsType
    <3> QED
      BY <3>3, <3>4
  <2>4. CheckConnect(e) /\ e.disconnect
    BY <2>1, <2>2
  <2>5. cli' = Stop(e) /\ db' = HangUp
    BY <2>4 DEF CheckConnect, QueryGenerator
  <2>6. Ended(db[1])
    BY <1>2, <1>4, <1>5 DEF Talking
  <2>7. Len(db') = 1 /\ HungUp(cli', db'[1])
    BY <1>2, <1>3, <2>3, <2>5, <2>6, StopLone
  <2> QED
    BY <1>1, <2>7 DEF Lonely
<1>6. CASE This.msg.kind # "bye"
  <2>1. Open(db[1])
    BY <1>2, <1>4, <1>6 DEF Talking
  <2> DEFINE e == [c EXCEPT !.connet = TRUE, !.disconnect = FALSE]
  <2>2. CheckConnect(c) \/ CheckConnect(e)
    BY <1>2, <1>6 DEF OnReceive
  <2>3. /\ c \in Client /\ c.ready = <<>> /\ c.sock = "up" /\ ~ c.disconnect /\ c.parser = 0
        /\ e \in Client /\ e.ready = <<>> /\ e.sock = "up" /\ ~ e.disconnect /\ e.parser = 0
    BY <1>2 DEF Client
  <2> HIDE DEF c, e
  <2>4. Len(db') = 1 /\ Talking(cli', db'[1])
    BY <1>2, <1>3, <2>1, <2>2, <2>3, CheckConnectLone
  <2> QED
    BY <1>1, <2>4 DEF Lonely
<1> QED
  BY <1>5, <1>6

-----------------------------------------------------------------------------
(* The sockets between them. *)

LEMMA ConnectToDBLone ==
    ASSUME Inv, ~ Overlap, Lone, loads = 0, ConnectToDB
    PROVE  Lonely'
<1>1. db = <<>> /\ serving /\ cli.sock = "closed" /\ cli.parser = 0
  BY DEF Lone
<1>2. cli \in Client /\ cli.ready = <<>> /\ ~ cli.conn /\ cli.recv = 0
  BY OneOperation DEF ConnectToDB, Idle
<1> DEFINE c == [cli EXCEPT !.queue = Tables]
           d == [c EXCEPT !.connet = FALSE, !.disconnect = FALSE]
           e == [d EXCEPT !.sock = "connecting", !.conn = TRUE]
<1>3. Tables \in Seq(Table)
  BY DbLoadAssumption
<1>4. /\ c \in Client /\ c.ready = <<>> /\ c.recv = 0 /\ c.sock = "closed" /\ c.parser = 0
      /\ cli' = Start(c)
  BY <1>1, <1>2, <1>3 DEF Client, ConnectToDB
<1> HIDE DEF c
<1>5. /\ d \in Client /\ d.ready = <<>> /\ d.recv = 0 /\ d.sock = "closed" /\ d.parser = 0
      /\ ~ d.disconnect
  BY <1>4 DEF Client
<1>6. cli' = e
  BY <1>4, <1>5 DEF Start
<1> HIDE DEF d
<1>7. Connecting(cli')
  BY <1>5, <1>6 DEF Client, Connecting
<1> QED
  BY <1>1, <1>7 DEF ConnectToDB, Lonely

LEMMA ConnectedLone == ASSUME Inv, ~ Overlap, Lonely, Connected PROVE Lonely'
<1>1. cli.conn /\ cli.sock = "connecting" /\ cli \in Client /\ cli.ready = <<>>
  BY OneOperation DEF Connected
<1>2. db = <<>> /\ Connecting(cli)
  BY <1>1 DEF Lonely, Talking, HungUp
<1> DEFINE h == Done("connect", TRUE)
           c == [cli EXCEPT !.conn = FALSE, !.sock = "up"]
<1>3. cli' = Post(c, h)
  BY DEF Connected
<1>4. /\ cli'.ready = Append(<<>>, h) /\ cli'.sock = "up" /\ ~ cli'.disconnect /\ cli'.parser = 0
  BY <1>1, <1>2, <1>3 DEF Post, Client, Connecting
<1>5. h.ok /\ h.op = "connect"
  BY DEF Done
<1> HIDE DEF h
<1>6. cli'.ready # <<>> /\ Head(cli'.ready) = h
  BY <1>4
<1>7. Len(db') = 1 /\ db'[1] = NewDataBase
  BY <1>2 DEF Connected
<1>8. Talking(cli', NewDataBase)
  BY <1>4, <1>5, <1>6 DEF Talking, Farewell, Answers, Open, NewDataBase, Cheerful
<1> QED
  BY <1>7, <1>8 DEF Lonely, Connected

LEMMA DeliverLone == ASSUME Inv, ~ Overlap, Lonely, Deliver PROVE Lonely'
<1>1. /\ cli.recv > 0 /\ cli.recv \in Nat /\ cli.ready = <<>> /\ cli \in Client /\ cli.sock = "up"
  BY OneOperation DEF Deliver
<1>2. Len(db) = 1 /\ Talking(cli, db[1]) /\ serving' = serving /\ serving
  BY <1>1 DEF Lonely, Connecting, HungUp, Deliver
<1>3. /\ db[1].out # <<>> /\ db \in Seq(DataBase) /\ db[1] \in DataBase
      /\ Tail(db[1].out) = <<>>
  BY <1>2, OneMessage DEF Deliver
<1> DEFINE m == Head(db[1].out)
           h(part) == Received(part, m)
           c == [cli EXCEPT !.recv = @ - 1]
<1>4. ASSUME NEW part \in BOOLEAN, cli' = Post(c, h(part))
      PROVE  /\ cli'.ready # <<>> /\ Head(cli'.ready) = h(part) /\ cli'.sock = "up"
             /\ ~ cli'.disconnect /\ cli'.parser \in {0, 1} /\ Cheerful(h(part))
             /\ Answers(h(part)) <=> ~ part
  <2>1. cli'.ready = Append(<<>>, h(part)) /\ cli'.sock = cli.sock
        /\ cli'.disconnect = cli.disconnect /\ cli'.parser = cli.parser
    BY <1>1, <1>4 DEF Post, Client
  <2>2. h(part).ok /\ h(part).op = "recv" /\ h(part).conn = 1 /\ h(part).msg = m
        /\ h(part).part = part
    BY <1>2 DEF Received
  <2>3. m.kind # "fail"
    BY <1>2, <1>3 DEF Talking
  <2> HIDE DEF h, m
  <2> QED
    BY <1>1, <1>2, <2>1, <2>2, <2>3 DEF Talking, Cheerful, Answers
<1>5. \A part : h(part).msg = m
  BY DEF Received
<1>6. CASE cli' = Post(c, h(TRUE)) /\ UNCHANGED db
  <2>1. Farewell(cli', db[1]) <=> Farewell(cli, db[1])
    BY <1>1, <1>4, <1>6 DEF Farewell
  <2>2. Talking(cli', db[1])
    BY <1>2, <1>4, <1>6, <2>1 DEF Talking
  <2> QED
    BY <1>2, <1>6, <2>2 DEF Lonely
<1>7. CASE cli' = Post(c, h(FALSE)) /\ db' = [db EXCEPT ![1].out = Tail(@)]
  <2> DEFINE b == [db[1] EXCEPT !.out = <<>>]
  <2>1. db' = [db EXCEPT ![1] = b]
    BY <1>3, <1>7
  <2>2. /\ b.out = <<>> /\ b.link = db[1].link /\ b.wrong = db[1].wrong
        /\ b.phase = db[1].phase
    BY <1>3 DEF DataBase
  <2> HIDE DEF b
  <2>3. Len(db') = 1 /\ db'[1] = b
    BY <1>2, <1>3, <2>1
  <2>4. Farewell(cli', b) <=> Farewell(cli, db[1])
    BY <1>1, <1>3, <1>4, <1>5, <1>7, <2>2 DEF Farewell
  <2>5. Talking(cli', b)
    BY <1>2, <1>4, <1>7, <2>2, <2>4 DEF Talking, Ended, Open
  <2> QED
    BY <1>2, <2>3, <2>5 DEF Lonely
<1> QED
  BY <1>2, <1>6, <1>7 DEF Deliver

LEMMA DeliverEndLone == ASSUME Inv, ~ Overlap, Lonely, DeliverEnd PROVE FALSE
<1>1. cli.ready = <<>> /\ cli.sock = "up"
  BY OneOperation DEF DeliverEnd
<1>2. Len(db) = 1 /\ Talking(cli, db[1])
  BY <1>1 DEF Lonely, Connecting, HungUp
<1> QED
  BY <1>1, <1>2 DEF DeliverEnd, Talking, Farewell, Open

-----------------------------------------------------------------------------
(* The sessions. *)

(* A session changes what does not concern its client.                      *)
LEMMA QuietLone ==
    ASSUME Inv, ~ Overlap, Lonely, NEW k \in DOMAIN db, NEW b, db' = Put(db, k, b),
           b.out = db[k].out, Open(db[k]) => Open(b), Ended(db[k]) => Ended(b),
           UNCHANGED <<cli, serving>>
    PROVE  Lonely'
<1>1. db # <<>>
  OBVIOUS
<1>2. Len(db) = 1 /\ (Talking(cli, db[1]) \/ HungUp(cli, db[1]))
  BY <1>1 DEF Lonely
<1>3. k = 1 /\ db \in Seq(DataBase)
  BY <1>2, OneMessage
<1>4. Len(db') = 1 /\ db'[1] = b
  BY <1>2, <1>3 DEF Put
<1>5. Farewell(cli, b) <=> Farewell(cli, db[1])
  BY <1>3 DEF Farewell
<1>6. Talking(cli, db[1]) => Talking(cli, b)
  BY <1>3, <1>5 DEF Talking
<1>7. HungUp(cli, db[1]) => HungUp(cli, b)
  BY <1>3 DEF HungUp
<1> QED
  BY <1>2, <1>4, <1>6, <1>7 DEF Lonely

(* A session answers; its farewell is its last word.                        *)
LEMMA AnswerLone ==
    ASSUME Inv, ~ Overlap, Lonely, NEW k \in DOMAIN db, db[k].in # <<>>,
           NEW phase \in {"auth_sent", "sent"}, NEW m, NEW wrong \in BOOLEAN,
           Answer(k, phase, m, wrong), Unaffected, m.kind # "fail",
           wrong <=> m.kind = "bye", wrong => phase = "sent"
    PROVE  Lonely'
<1>1. db # <<>>
  OBVIOUS
<1>2. Len(db) = 1 /\ (Talking(cli, db[1]) \/ HungUp(cli, db[1]))
  BY <1>1 DEF Lonely
<1>3. /\ k = 1 /\ db \in Seq(DataBase) /\ db[1] \in DataBase /\ db[1].out = <<>>
      /\ cli.sock = "up" /\ ~ Free(cli)
  BY <1>2, OneMessage
<1> DEFINE q == Tail(db[1].in)
           r == Append(db[1].out, m)
           b == [db[1] EXCEPT !.phase = phase, !.wrong = wrong, !.half = FALSE, !.in = q, !.out = r]
<1>4. db' = [db EXCEPT ![1] = b] /\ UNCHANGED <<cli, serving>>
  BY <1>3 DEF Answer, Unaffected
<1>5. r # <<>> /\ Head(r) = m
  BY <1>3
<1> HIDE DEF q, r
<1>6. b.phase = phase /\ b.wrong = wrong /\ b.link = db[1].link /\ b.out = r
  BY <1>3 DEF DataBase
<1> HIDE DEF b
<1>7. Len(db') = 1 /\ db'[1] = b
  BY <1>2, <1>3, <1>4
<1>8. Talking(cli, db[1]) /\ ~ Farewell(cli, db[1]) /\ Open(db[1])
  <2>1. Talking(cli, db[1])
    BY <1>2, <1>3 DEF HungUp
  <2>2. ~ Farewell(cli, db[1])
    BY <1>3 DEF Farewell, Answers, Free
  <2> QED
    BY <2>1, <2>2 DEF Talking
<1>9. Farewell(cli, b) <=> wrong
  BY <1>5, <1>6, <1>8 DEF Farewell
<1>10. Talking(cli, b)
  BY <1>5, <1>6, <1>8, <1>9 DEF Talking, Open, Ended
<1> QED
  BY <1>4, <1>7, <1>10 DEF Lonely

LEMMA CrashCounts == ASSUME Inv, Crash, losses' = 0 PROVE FALSE
BY DEF Inv, OthersOK, Crash

LEMMA ReceivePartLone ==
    ASSUME Inv, ~ Overlap, Lonely, NEW k \in DOMAIN db, ReceivePart(k)
    PROVE  Lonely'
<1>1. db \in Seq(DataBase) /\ db[k] \in DataBase /\ UNCHANGED <<cli, serving>>
      /\ db[k].phase \in {"auth", "wait"}
  BY DEF Inv, SessionsOK, ReceivePart, Unaffected
<1>2. PICK junk \in BOOLEAN :
        db' = [db EXCEPT ![k].half = TRUE, ![k].phase = "auth", ![k].junk = @ \/ junk]
  BY DEF ReceivePart
<1> DEFINE j == db[k].junk \/ junk
           b == [db[k] EXCEPT !.half = TRUE, !.phase = "auth", !.junk = j]
<1>3. db' = Put(db, k, b)
  BY <1>1, <1>2 DEF Put, DataBase
<1> HIDE DEF j
<1>4. b.out = db[k].out /\ b.phase = "auth" /\ b.link = db[k].link /\ b.wrong = db[k].wrong
  BY <1>1 DEF DataBase
<1> HIDE DEF b
<1>5. (Open(db[k]) => Open(b)) /\ (Ended(db[k]) => Ended(b))
  BY <1>1, <1>4 DEF Open, Ended
<1> QED
  BY <1>1, <1>3, <1>4, <1>5, QuietLone

LEMMA ConnectAnalizeLone ==
    ASSUME Inv, ~ Overlap, "fail" \notin Verdicts, Lonely, NEW k \in DOMAIN db,
           ConnectAnalize(k), losses' = 0
    PROVE  Lonely'
<1>1. db \in Seq(DataBase) /\ db[k] \in DataBase /\ Unaffected
      /\ db[k].phase = "auth" /\ db[k].in # <<>>
  BY DEF Inv, SessionsOK, ConnectAnalize
<1>2. CASE /\ db' = [db EXCEPT ![k].half = FALSE, ![k].in = Tail(@)]
           /\ UNCHANGED <<serving, pool, losses>>
  <2> DEFINE q == Tail(db[k].in)
             b == [db[k] EXCEPT !.half = FALSE, !.in = q]
  <2>1. db' = Put(db, k, b)
    BY <1>1, <1>2 DEF Put
  <2> HIDE DEF q
  <2>2. b.out = db[k].out /\ b.phase = db[k].phase /\ b.link = db[k].link /\ b.wrong = db[k].wrong
    BY <1>1 DEF DataBase
  <2> HIDE DEF b
  <2>3. (Open(db[k]) => Open(b)) /\ (Ended(db[k]) => Ended(b))
    BY <2>2 DEF Open, Ended
  <2> QED
    BY <1>1, <1>2, <2>1, <2>2, <2>3, QuietLone DEF Unaffected
<1>3. CASE Answer(k, "auth_sent", M("success"), FALSE)
  <2>1. M("success").kind = "success"
    BY DEF M
  <2> QED
    BY <1>1, <1>3, <2>1, AnswerLone
<1>4. CASE Crash
  BY <1>4, CrashCounts
<1>5. CASE AnswerNothing(k)
  <2> DEFINE q == Tail(db[k].in)
             b == [db[k] EXCEPT !.phase = "auth_sent", !.half = FALSE, !.in = q]
  <2>1. db' = Put(db, k, b) /\ serving' = serving
    BY <1>1, <1>5 DEF AnswerNothing, Put
  <2> HIDE DEF q
  <2>2. b.out = db[k].out /\ b.phase = "auth_sent" /\ b.link = db[k].link /\ b.wrong = db[k].wrong
    BY <1>1 DEF DataBase
  <2> HIDE DEF b
  <2>3. (Open(db[k]) => Open(b)) /\ (Ended(db[k]) => Ended(b))
    BY <1>1, <2>2 DEF Open, Ended
  <2> QED
    BY <1>1, <2>1, <2>2, <2>3, QuietLone DEF Unaffected
<1> QED
  BY <1>2, <1>3, <1>4, <1>5 DEF ConnectAnalize, CheckLogin

LEMMA ResAutentificationLone ==
    ASSUME Inv, ~ Overlap, Lonely, NEW k \in DOMAIN db, ResAutentification(k)
    PROVE  Lonely'
<1>1. db \in Seq(DataBase) /\ db[k] \in DataBase /\ UNCHANGED <<cli, serving>>
      /\ db[k].phase = "auth_sent"
  BY DEF Inv, SessionsOK, ResAutentification, Unaffected
<1> DEFINE x == db[k].exit \/ db[k].wrong
           l == db[k].link /\ ~ db[k].wrong
           b == [db[k] EXCEPT !.phase = "wait", !.wrong = FALSE, !.exit = x, !.link = l]
<1>2. db' = Put(db, k, b)
  BY <1>1 DEF ResAutentification, DataBase, Put
<1>3. l <=> db[k].link /\ ~ db[k].wrong
  OBVIOUS
<1> HIDE DEF x, l
<1>4. b.out = db[k].out /\ b.phase = "wait" /\ b.link = l /\ b.wrong = FALSE
  BY <1>1 DEF DataBase
<1> HIDE DEF b
<1>5. (Open(db[k]) => Open(b)) /\ (Ended(db[k]) => Ended(b))
  BY <1>1, <1>3, <1>4 DEF Open, Ended
<1> QED
  BY <1>1, <1>2, <1>4, <1>5, QuietLone

LEMMA SendCommandLone ==
    ASSUME Inv, ~ Overlap, Lonely, NEW k \in DOMAIN db, SendCommand(k)
    PROVE  Lonely'
<1>1. db \in Seq(DataBase) /\ db[k] \in DataBase /\ UNCHANGED <<cli, serving>>
      /\ db[k].phase = "sent"
  BY DEF Inv, SessionsOK, SendCommand, Unaffected
<1> DEFINE x == db[k].exit \/ db[k].wrong
           l == db[k].link /\ ~ db[k].wrong
           p == IF db[k].wrong THEN "gone" ELSE "wait"
           b == [db[k] EXCEPT !.phase = p, !.exit = x, !.wrong = FALSE, !.link = l]
<1>2. db' = Put(db, k, b)
  BY <1>1, SendCommandPut
<1>3. /\ l <=> db[k].link /\ ~ db[k].wrong
      /\ db[k].wrong => p = "gone"
      /\ ~ db[k].wrong => p = "wait"
  OBVIOUS
<1> HIDE DEF x, l, p
<1>4. b.out = db[k].out /\ b.phase = p /\ b.link = l /\ b.wrong = FALSE
  BY <1>1 DEF DataBase
<1> HIDE DEF b
<1>5. (Open(db[k]) => Open(b)) /\ (Ended(db[k]) => Ended(b))
  BY <1>1, <1>3, <1>4 DEF Open, Ended
<1> QED
  BY <1>1, <1>2, <1>4, <1>5, QuietLone

LEMMA WaitCommandLone ==
    ASSUME Inv, ~ Overlap, Lonely, NEW k \in DOMAIN db, WaitCommand(k), losses' = 0
    PROVE  Lonely'
<1>1. db[k].in # <<>> /\ Unaffected
  BY DEF WaitCommand
<1>2. CASE Answer(k, "sent", M("bye"), TRUE)
  <2>1. M("bye").kind = "bye"
    BY DEF M
  <2> QED
    BY <1>1, <1>2, <2>1, AnswerLone
<1>3. CASE \E t : Answer(k, "sent", [kind |-> "rows", of |-> t], FALSE)
  <2>1. PICK t : Answer(k, "sent", [kind |-> "rows", of |-> t], FALSE)
    BY <1>3
  <2> DEFINE m == [kind |-> "rows", of |-> t]
  <2>2. m.kind = "rows" /\ Answer(k, "sent", m, FALSE)
    BY <2>1
  <2> HIDE DEF m
  <2> QED
    BY <1>1, <2>2, AnswerLone
<1>4. CASE Crash
  BY <1>4, CrashCounts
<1> QED
  BY <1>2, <1>3, <1>4 DEF WaitCommand, MakeQuery

-----------------------------------------------------------------------------
(* Before the load nothing can happen but its beginning.                    *)
LEMMA LoadFirst ==
    ASSUME Inv, ~ Overlap, Lone, loads = 0, Next
    PROVE  ConnectToDB
<1>1. db = <<>> /\ serving
  BY DEF Lone
<1>2. cli.ready = <<>> /\ cli.recv = 0 /\ ~ cli.conn
  <2>1. Count(cli) = 0 /\ ClientOK(cli)
    BY CountType DEF Inv
  <2>2. cli.ready = <<>> /\ Len(cli.ready) = 0
    BY <2>1, CountZero
  <2> DEFINE b == Bit(cli.conn)
  <2>3. Count(cli) = 0 + cli.recv + b /\ cli.recv \in Nat /\ b \in {0, 1}
    BY <2>1, <2>2, CountType DEF Count
  <2>4. cli.conn => b = 1
    BY DEF Bit
  <2> HIDE DEF b
  <2>5. cli.recv = 0 /\ b = 0
    BY <2>1, <2>3
  <2> QED
    BY <2>2, <2>4, <2>5
<1>3. DOMAIN db = {}
  BY <1>1
<1>4. pool = <<>>
  BY <1>3 DEF Inv, OthersOK
<1>5. ~ RunHandler
  BY <1>2 DEF RunHandler, OnError, OnConnect, OnSend, OnReceivePart, OnReceive, Due
<1>6. ~ Connected /\ ~ ConnectRefused /\ ~ Deliver /\ ~ DeliverEnd
  <2>1. ~ Connected /\ ~ ConnectRefused
    BY <1>2 DEF Connected, ConnectRefused
  <2>2. ~ (cli.recv > 0)
    BY <1>2
  <2> QED
    BY <2>1, <2>2 DEF Deliver, DeliverEnd
<1>7. ~ Lose /\ ~ Restart
  BY <1>1 DEF Lose, Restart
<1>8. ~ Sweep
  BY <1>4 DEF Sweep
<1> QED
  BY <1>3, <1>5, <1>6, <1>7, <1>8 DEF Next

LEMMA LonelyInv ==
    ASSUME Inv, ~ Overlap, "fail" \notin Verdicts, Lonely, losses = 0, losses' = 0, Next,
           ~ ConnectToDB
    PROVE  Lonely'
<1>1. CASE RunHandler
  BY <1>1, OnErrorLone, OnConnectLone, OnSendLone, OnReceivePartLone, OnReceiveLone DEF RunHandler
<1>2. CASE \E k \in DOMAIN db : RunSession(k)
  BY <1>2, ReceivePartLone, ConnectAnalizeLone, ResAutentificationLone, WaitCommandLone,
     SendCommandLone DEF RunSession
<1>3. CASE Sweep
  <2>1. UNCHANGED <<cli, db, serving>>
    BY <1>3, CrashCounts DEF Sweep, Unaffected
  <2> QED
    BY <2>1 DEF Lonely
<1>4. ~ Lose
  BY DEF Lose
<1>5. ~ ConnectRefused /\ ~ Restart
  BY DEF Lonely, ConnectRefused, Restart
<1> QED
  BY <1>1, <1>2, <1>3, <1>4, <1>5, ConnectedLone, DeliverLone, DeliverEndLone DEF Next

LEMMA LoadsCount ==
    ASSUME Inv, Next, ~ ConnectToDB
    PROVE  loads' = loads /\ (losses' = 0 => losses = 0)
<1>1. losses \in Nat
  BY DEF Inv, OthersOK
<1>2. CASE RunHandler
  BY <1>2 DEF RunHandler, OnError, OnConnect, OnSend, OnReceivePart, OnReceive
<1>3. CASE Unaffected /\ (Crash \/ UNCHANGED losses)
  BY <1>1, <1>3 DEF Crash, Unaffected
<1>4. CASE \E k \in DOMAIN db : RunSession(k)
  <2>1. PICK k \in DOMAIN db : RunSession(k)
    BY <1>4
  <2>2. ASSUME NEW phase, NEW m, NEW wrong, Answer(k, phase, m, wrong) PROVE UNCHANGED losses
    BY <2>2 DEF Answer
  <2>3. CASE ReceivePart(k) \/ ResAutentification(k) \/ SendCommand(k)
    BY <1>3, <2>3 DEF ReceivePart, ResAutentification, SendCommand
  <2>4. CASE ConnectAnalize(k)
    BY <1>3, <2>2, <2>4 DEF ConnectAnalize, CheckLogin, AnswerNothing
  <2>5. CASE WaitCommand(k)
    BY <1>3, <2>2, <2>5 DEF WaitCommand, MakeQuery
  <2> QED
    BY <2>1, <2>3, <2>4, <2>5 DEF RunSession
<1>5. CASE Sweep
  BY <1>3, <1>5 DEF Sweep
<1>6. CASE Lose
  BY <1>1, <1>6 DEF Lose
<1>7. CASE Connected \/ ConnectRefused \/ Deliver \/ DeliverEnd \/ Restart
  BY <1>7 DEF Connected, ConnectRefused, Deliver, DeliverEnd, Restart
<1> QED
  BY <1>2, <1>4, <1>5, <1>6, <1>7 DEF Next

LEMMA NextLone ==
    ASSUME Inv, ~ Overlap, "fail" \notin Verdicts, Lone, [Next]_vars
    PROVE  Lone'
<1>1. loads \in Nat /\ (Lone <=> /\ loads = 0 => db = <<>> /\ serving /\ cli.sock = "closed"
                                                 /\ cli.parser = 0
                                 /\ losses = 0 /\ loads = 1 => Lonely)
  BY DEF Inv, OthersOK, Lone, Lonely
<1>2. CASE UNCHANGED vars
  BY <1>2 DEF vars, Lone
<1>3. CASE Next /\ ConnectToDB
  <2>1. loads' = loads + 1
    BY <1>3 DEF ConnectToDB
  <2>2. loads = 0 => Lonely'
    BY <1>3, ConnectToDBLone
  <2>3. loads' # 0 /\ (loads' = 1 => loads = 0)
    BY <1>1, <2>1
  <2> QED
    BY <2>2, <2>3 DEF Lone, Lonely
<1>4. CASE Next /\ ~ ConnectToDB
  <2>1. loads # 0
    BY <1>4, LoadFirst
  <2>2. loads' = loads /\ (losses' = 0 => losses = 0)
    BY <1>4, LoadsCount
  <2>3. losses' = 0 /\ loads = 1 => Lonely'
    BY <1>1, <1>4, <2>2, LonelyInv
  <2> QED
    BY <2>1, <2>2, <2>3 DEF Lone, Lonely
<1> QED
  BY <1>2, <1>3, <1>4

LEMMA LoneSessions == Lone => NoSessionLeftBehind
BY DEF Lone, NoSessionLeftBehind, Connecting, Talking, HungUp, Open

THEOREM LoneInvariance == ~ Overlap /\ "fail" \notin Verdicts => (Spec => [](Inv /\ Lone))
<1>1. SUFFICES ASSUME ~ Overlap, "fail" \notin Verdicts PROVE Spec => [](Inv /\ Lone)
  OBVIOUS
<1>2. Init => Inv /\ Lone
  BY InitInv DEF Init, Lone
<1>3. Inv /\ Lone /\ [Next]_vars => (Inv /\ Lone)'
  BY <1>1, NextInv, NextLone
<1> QED
  BY <1>2, <1>3, PTL DEF Spec

(* A load that loses no connection and is let in, for any tables and any    *)
(* answers to its queries, leaves no session behind in SQLiteWebWrapper     *)
(* that goes on reading from a closed socket.                               *)
THEOREM NothingLeftBehind == ~ Overlap /\ "fail" \notin Verdicts => (Spec => []NoSessionLeftBehind)
<1>1. SUFFICES ASSUME ~ Overlap, "fail" \notin Verdicts PROVE Spec => []NoSessionLeftBehind
  OBVIOUS
<1>2. Inv /\ Lone => NoSessionLeftBehind
  BY LoneSessions
<1>3. Spec => [](Inv /\ Lone)
  BY <1>1, LoneInvariance
<1> QED
  BY <1>2, <1>3, PTL

(* The sweep never meets a finished session before the last of the vector.  *)
LEMMA LoneSweep ==
    ASSUME Inv, Lone, losses = 0, loads <= 1, Sweep, ~ serving'
    PROVE  ~ serving
<1>1. Crash \/ ~ serving
  BY DEF Sweep
<1>2. CASE \E i \in DOMAIN pool : i < Len(pool) /\ Finished(i)
  <2>1. PICK i \in DOMAIN pool : i < Len(pool)
    BY <1>2
  <2>2. pool \in Seq(DOMAIN db) /\ IsInjective(pool) /\ loads \in Nat
    BY DEF Inv, OthersOK
  <2>3. i \in DOMAIN pool /\ i + 1 \in DOMAIN pool /\ i # i + 1
    BY <2>1, <2>2
  <2>4. DOMAIN db \subseteq {1}
    <3>1. Len(db) = 1 \/ db = <<>>
      BY <2>2 DEF Lone
    <3>2. db \in Seq(DataBase)
      BY DEF Inv, SessionsOK
    <3> QED
      BY <3>1, <3>2
  <2>5. pool[i] = 1 /\ pool[i + 1] = 1
    BY <2>2, <2>3, <2>4
  <2> QED
    BY <2>2, <2>3, <2>5 DEF IsInjective
<1> QED
  BY <1>2 DEF Sweep

LEMMA LoneServes ==
    ASSUME Inv, Lone, "crash" \notin Verdicts, Empty \subseteq Refused, [Next]_vars,
           losses = 0, loads <= 1, serving, ~ serving'
    PROVE  FALSE
<1>1. CASE UNCHANGED vars
  BY <1>1 DEF vars
<1>2. CASE RunHandler
  BY <1>2 DEF RunHandler, OnError, OnConnect, OnSend, OnReceivePart, OnReceive
<1>3. CASE \E k \in DOMAIN db : RunSession(k)
  BY <1>3 DEF RunSession, ReceivePart, ConnectAnalize, ResAutentification, WaitCommand,
     SendCommand, CheckLogin, MakeQuery, Answer, AnswerNothing
<1>4. CASE Sweep
  BY <1>4, LoneSweep
<1> QED
  BY <1>1, <1>2, <1>3, <1>4
     DEF Next, ConnectToDB, Connected, ConnectRefused, Deliver, DeliverEnd, Lose, Restart

(* One load that loses no connection does not bring SQLiteWebWrapper down   *)
(* through the sweep of its vector, when logins are known and every query   *)
(* finds a row or is refused.                                               *)
THEOREM LoadKeepsServing ==
    ~ Overlap /\ Verdicts \subseteq {"success", "none"} /\ Empty \subseteq Refused
        => (Spec => OneLoadKeepsServing)
<1>1. SUFFICES ASSUME ~ Overlap, Verdicts \subseteq {"success", "none"}, Empty \subseteq Refused
               PROVE  Spec => OneLoadKeepsServing
  OBVIOUS
<1>2. Inv /\ Lone /\ [Next]_vars => [serving /\ ~ serving' => losses > 0 \/ loads > 1]_vars
  <2>1. Inv => losses \in Nat /\ loads \in Nat
    BY DEF Inv, OthersOK
  <2> QED
    BY <1>1, <2>1, LoneServes
<1>3. Spec => [](Inv /\ Lone)
  BY <1>1, LoneInvariance
<1> QED
  BY <1>2, <1>3, PTL DEF Spec, OneLoadKeepsServing

-----------------------------------------------------------------------------
(* What a load costs that loses connections. *)

(* What has left the queue and is not stored; without the table asked for.  *)
Missing(f, c) == Table \ (f \cup Range(c.queue))
Owed(f, c) == IF c.connet THEN Missing(f, c) \ {c.table} ELSE Missing(f, c)

(* One for each loss, and one less when the last loss has cost none yet.    *)
Within(S, n, dead) == Cardinality(S) <= n /\ (dead => Cardinality(S) < n)

(* What is said to a session, and what the session tells.                   *)
Said(b, kind) == b.in # <<>> /\ Head(b.in).kind = kind
Told(c, b, kind) ==
    \/ b.out # <<>> /\ Head(b.out).kind = kind
    \/ c.ready # <<>> /\ Answers(Head(c.ready)) /\ Head(c.ready).msg.kind = kind
Parting(c, b) == Told(c, b, "bye") \/ Told(c, b, "fail")

(* The connection is lost, and the client will learn of it by an error.     *)
Dead(c, b) == ~ b.link /\ ~ Parting(c, b)

(* An answer that was begun on another connection is never completed.       *)
Stuck(c, d) == c.parser # 0 /\ (c.sock = "up" => c.parser # Len(d))

(* The client's flags and handlers follow its socket.                       *)
InStep(c, n) ==
    /\ c.parser <= n
    /\ c.sock # "closed" => ~ c.disconnect
    /\ c.sock = "connecting" => ~ c.connet
    /\ c.sock = "closed" => c.ready = <<>>
    /\ c.sock = "up" => c.ready # <<>> \/ c.recv > 0
    /\ c.ready # <<>> =>
          LET h == Head(c.ready)
          IN  /\ h.op = "connect" => ~ c.connet
              /\ h.ok => c.sock = "up" /\ (h.op = "recv" => h.conn = n)

(* Of a connection that stands only the table asked for may be missing, and *)
(* none is once the session is told to end.                                 *)
Accounts(c, b, f, n) ==
    /\ Within(Owed(f, c), n, Dead(c, b))
    /\ Said(b, "disconnect") \/ (Told(c, b, "bye") /\ c.table \notin Refused) =>
          c.queue = <<>> /\ Cardinality(Missing(f, c)) <= n
    /\ Said(b, "connect") \/ Told(c, b, "success") \/ Told(c, b, "fail") => ~ c.connet
    /\ Said(b, "query") \/ Said(b, "disconnect") \/ Told(c, b, "bye") => c.connet
    /\ Told(c, b, "fail") => "fail" \in Verdicts
    /\ b.link /\ b.wrong => Parting(c, b)
    /\ ~ b.link => b.in = <<>>
    /\ c.ready # <<>> /\ ~ Head(c.ready).ok => ~ b.link /\ b.out = <<>>

Books(c, d, f, n) ==
    /\ c.sock = "connecting" => Within(Owed(f, c), n, FALSE)
    /\ c.sock = "up" => Accounts(c, d[Len(d)], f, n)

Budget ==
    /\ InStep(cli, Len(db))
    /\ Stuck(cli, db) \/ Books(cli, db, fresh, losses)

LEMMA TableFinite == IsFiniteSet(Table)
<1> DEFINE n == Len(Tables)
<1>1. n \in Nat /\ DOMAIN Tables = 1..n /\ Tables \in [1..n -> Table]
  BY DbLoadAssumption
<1>2. Table = {Tables[i] : i \in 1..n}
  BY <1>1 DEF Table, Range
<1> HIDE DEF n
<1>3. Tables \in Surjection(1..n, Table)
  BY <1>1, <1>2, Zenon DEF Surjection
<1>4. IsFiniteSet(1..n)
  BY <1>1, FS_Interval
<1> QED
  BY <1>3, <1>4, FS_Surjection

LEMMA CardType ==
    ASSUME NEW T, T \subseteq Table
    PROVE  IsFiniteSet(T) /\ Cardinality(T) \in Nat
BY TableFinite, FS_Subset, FS_CardinalityType

(* Fewer tables are within the same number, and one more is when the last   *)
(* loss is spent on it.                                                     *)
LEMMA WithinLess ==
    ASSUME NEW T, T \subseteq Table, NEW S, S \subseteq T, NEW n \in Nat,
           NEW p \in BOOLEAN, NEW q \in BOOLEAN, Within(T, n, p), q => p
    PROVE  Within(S, n, q)
<1>1. IsFiniteSet(T) /\ Cardinality(T) \in Nat /\ Cardinality(S) \in Nat
  BY CardType
<1>2. Cardinality(S) <= Cardinality(T)
  BY <1>1, FS_Subset
<1> QED
  BY <1>1, <1>2 DEF Within

LEMMA WithinMore ==
    ASSUME NEW T, T \subseteq Table, NEW x, NEW n \in Nat, Within(T \ {x}, n, TRUE)
    PROVE  Within(T, n, FALSE)
<1> DEFINE S == T \ {x}
<1>1. IsFiniteSet(S) /\ Cardinality(S) \in Nat /\ Cardinality(T) \in Nat
  BY CardType
<1>2. CASE x \in T
  <2>1. T = S \cup {x} /\ x \notin S
    BY <1>2
  <2> HIDE DEF S
  <2>2. Cardinality(T) = Cardinality(S) + 1
    BY <1>1, <2>1, FS_AddElement
  <2> QED
    BY <1>1, <2>2 DEF Within, S
<1>3. CASE x \notin T
  BY <1>1, <1>3 DEF Within
<1> QED
  BY <1>2, <1>3

(* A loss pays for a table.                                                 *)
LEMMA WithinLoss ==
    ASSUME NEW T, T \subseteq Table, NEW n \in Nat, NEW p, NEW q, Within(T, n, p)
    PROVE  Within(T, n + 1, q)
BY CardType DEF Within

LEMMA OwedType ==
    ASSUME NEW f, NEW c
    PROVE  Missing(f, c) \subseteq Table /\ Owed(f, c) \subseteq Missing(f, c)
BY DEF Missing, Owed

(* The last connection carries one message.                                 *)
LEMMA LastMessage ==
    ASSUME Inv, ~ Overlap, db # <<>>
    PROVE  LET k == Len(db)
           IN  /\ k \in DOMAIN db /\ k \in Nat /\ db \in Seq(DataBase) /\ db[k] \in DataBase
               /\ db[k].in \in Seq(Known(cli)) /\ db[k].out \in Seq(Message)
               /\ db[k].in # <<>> => db[k].out = <<>> /\ cli.sock = "up" /\ ~ Free(cli)
               /\ db[k].out # <<>> => Tail(db[k].out) = <<>> /\ db[k].in = <<>> /\ ~ Free(cli)
<1> DEFINE k == Len(db)
           i == Len(db[k].in)
           o == Len(db[k].out)
<1>1. SessionsOK(cli, db) /\ db \in Seq(DataBase) /\ Alone(cli, db)
  BY DEF Inv, SessionsOK
<1>2. k \in DOMAIN db /\ db[k] \in DataBase /\ k \in Nat /\ db[k].in \in Seq(Known(cli))
  BY <1>1 DEF SessionsOK
<1>3. db[k].in \in Seq(Message) /\ db[k].out \in Seq(Message)
  BY <1>2 DEF DataBase
<1>4. i \in Nat /\ o \in Nat /\ Under(db) = i + o
  <2>1. Under(db) = i + o
    BY Zenon DEF Under, Messages
  <2> QED
    BY <1>3, <2>1, LenProperties
<1>5. (db[k].in # <<>> => i > 0) /\ (db[k].out # <<>> => o > 0) /\ (o = 0 => db[k].out = <<>>)
  BY <1>3
<1>6. o = 1 => Tail(db[k].out) = <<>>
  BY <1>3, OneLeft
<1>7. Under(db) <= 1 /\ (Free(cli) => Under(db) = 0)
  BY <1>1 DEF Alone
<1>8. cli.sock # "up" => db[k].in = <<>>
  BY <1>1, <1>2 DEF SessionsOK, Silent
<1> HIDE DEF i, o
<1>9. /\ i > 0 => o = 0 /\ ~ Free(cli)
      /\ o > 0 => o = 1 /\ i = 0 /\ ~ Free(cli)
  BY <1>4, <1>7
<1> QED
  BY <1>1, <1>2, <1>3, <1>5, <1>6, <1>8, <1>9

(* What a handler starts from.                                              *)
LEMMA HandlerBudget ==
    ASSUME Inv, ~ Overlap, Budget, cli.ready # <<>>
    PROVE  /\ Rest \in Client /\ Rest.ready = <<>> /\ Rest.recv = 0 /\ ~ Rest.conn
           /\ Rest.sock = cli.sock /\ Rest.parser = cli.parser /\ Rest.connet = cli.connet
           /\ Rest.disconnect = cli.disconnect /\ Rest.queue = cli.queue
           /\ Rest.table = cli.table /\ cli \in Client
           /\ ClientOK(Rest) /\ Count(Rest) = 0 /\ This \in Handler /\ SessionsOK(Rest, db)
           /\ This.ok => cli.sock = "up" /\ ~ cli.disconnect /\ db # <<>>
<1>1. Tail(cli.ready) = <<>> /\ cli.recv = 0 /\ ~ cli.conn /\ cli \in Client
  BY OneOperation
<1>2. Rest = [cli EXCEPT !.ready = <<>>]
  BY <1>1 DEF Rest
<1>3. /\ Rest.ready = <<>> /\ Rest.sock = cli.sock /\ Rest.recv = cli.recv /\ Rest.conn = cli.conn
      /\ Rest.disconnect = cli.disconnect /\ Rest.parser = cli.parser /\ Rest.table = cli.table
      /\ Rest.connet = cli.connet /\ Rest.queue = cli.queue
  BY <1>1, <1>2 DEF Client
<1>4. /\ ClientOK(Rest) /\ Count(Rest) = 0 /\ Rest \in Client /\ This \in Handler
      /\ SessionsOK(Rest, db)
  BY RestType, KnownOnly DEF ClientOK
<1>5. This.ok => cli.sock = "up" /\ ~ cli.disconnect
  BY DEF Budget, InStep, This
<1>6. cli.sock = "up" => db # <<>>
  BY DEF Inv, SessionsOK
<1> QED
  BY <1>1, <1>3, <1>4, <1>5, <1>6

(* What the client says on its connection arrives, or the connection is     *)
(* lost.                                                                    *)
LEMMA SendBudget ==
    ASSUME NEW c \in Client, c.ready = <<>>, c.sock = "up", ~ c.disconnect, c.parser <= Len(db),
           db \in Seq(DataBase), db # <<>>, NEW m \in Message, Send(c, m)
    PROVE  /\ Len(db') = Len(db) /\ InStep(cli', Len(db'))
           /\ cli'.parser = c.parser /\ cli'.sock = "up"
           /\ LET b == db[Len(db)]
              IN  /\ b.in = <<>> /\ b.out = <<>> /\ (b.link => ~ b.wrong)
                  /\ Within(Owed(fresh', c), losses', ~ b.link)
                  /\ m.kind \in {"connect", "query", "disconnect"}
                  /\ m.kind = "connect" <=> ~ c.connet
                  /\ m.kind = "disconnect" =>
                         c.queue = <<>> /\ Cardinality(Missing(fresh', c)) <= losses'
                  => Accounts(cli', db'[Len(db')], fresh', losses')
<1> DEFINE k == Len(db)
           q == Append(db[k].in, m)
           b == [db[k] EXCEPT !.in = q]
<1>1. k \in DOMAIN db /\ db[k] \in DataBase /\ k \in Nat
  OBVIOUS
<1>2. PICK ok \in BOOLEAN :
         /\ cli' = Post(c, Done("send", ok))
         /\ \/ ok /\ db[k].link /\ db' = [db EXCEPT ![k].in = Append(@, m)]
            \/ ~ db[k].link /\ db' = db
  BY DEF Send
<1> DEFINE h == Done("send", ok)
<1>3. /\ cli'.ready = Append(c.ready, h) /\ cli'.sock = c.sock /\ cli'.disconnect = c.disconnect
      /\ cli'.parser = c.parser /\ cli'.connet = c.connet /\ cli'.queue = c.queue
      /\ cli'.table = c.table
  BY <1>2 DEF Post, Client
<1>4. h.ok = ok /\ h.op = "send"
  BY DEF Done
<1> HIDE DEF h
<1>5. cli'.ready # <<>> /\ Head(cli'.ready) = h
  BY <1>3
<1>6. b \in DataBase /\ b.in = q /\ b.out = db[k].out /\ b.link = db[k].link /\ b.wrong = db[k].wrong
  <2>1. q \in Seq(Message)
    BY <1>1 DEF DataBase
  <2> HIDE DEF q
  <2> QED
    BY <1>1, <2>1 DEF DataBase
<1>7. db[k].in = <<>> => q # <<>> /\ Head(q) = m
  OBVIOUS
<1>8. /\ Len(db') = Len(db)
      /\ (ok /\ db[k].link /\ db'[k] = b) \/ (~ db[k].link /\ db'[k] = db[k])
  <2>1. CASE ok /\ db[k].link /\ db' = [db EXCEPT ![k].in = Append(@, m)]
    <3>1. db' = [db EXCEPT ![k] = b]
      BY <2>1
    <3> HIDE DEF b
    <3> QED
      BY <1>1, <1>6, <2>1, <3>1
  <2>2. CASE ~ db[k].link /\ db' = db
    BY <2>2
  <2> QED
    BY <1>2, <2>1, <2>2
<1> HIDE DEF b, q
<1>9. InStep(cli', Len(db'))
  BY <1>3, <1>4, <1>5, <1>8 DEF InStep
<1>10. ASSUME db[k].in = <<>>, db[k].out = <<>>, db[k].link => ~ db[k].wrong,
              Within(Owed(fresh', c), losses', ~ db[k].link),
              m.kind \in {"connect", "query", "disconnect"}, m.kind = "connect" <=> ~ c.connet,
              m.kind = "disconnect" =>
                  c.queue = <<>> /\ Cardinality(Missing(fresh', c)) <= losses'
       PROVE  Accounts(cli', db'[k], fresh', losses')
  <2> DEFINE d == db'[k]
  <2>1. Missing(fresh', cli') = Missing(fresh', c) /\ Owed(fresh', cli') = Owed(fresh', c)
    BY <1>3 DEF Missing, Owed
  <2>2. /\ d.out = <<>> /\ d.link = db[k].link /\ d.wrong = db[k].wrong
        /\ d.in = <<>> \/ (ok /\ d.link /\ Head(d.in) = m)
        /\ ~ ok => ~ d.link
    BY <1>6, <1>7, <1>8, <1>10
  <2> HIDE DEF d
  <2>3. \A kind : ~ Told(cli', d, kind)
    BY <1>4, <1>5, <2>2 DEF Told, Answers
  <2>4. Dead(cli', d) <=> ~ db[k].link
    BY <2>2, <2>3 DEF Dead, Parting
  <2>5. Within(Owed(fresh', cli'), losses', Dead(cli', d))
    BY <1>10, <2>1, <2>4 DEF Within
  <2>6. Said(d, "disconnect") => c.queue = <<>> /\ Cardinality(Missing(fresh', c)) <= losses'
    BY <1>10, <2>2 DEF Said
  <2>7. /\ Said(d, "connect") => ~ c.connet
        /\ Said(d, "query") \/ Said(d, "disconnect") => c.connet
    BY <1>10, <2>2 DEF Said
  <2> QED
    BY <1>3, <1>4, <1>5, <1>10, <2>1, <2>2, <2>3, <2>5, <2>6, <2>7 DEF Accounts, d
<1> QED
  BY <1>3, <1>8, <1>9, <1>10

LEMMA CheckConnectBudget ==
    ASSUME NEW c \in Client, c.ready = <<>>, c.sock = "up", ~ c.disconnect, c.parser <= Len(db),
           db \in Seq(DataBase), db # <<>>, CheckConnect(c), losses' \in Nat
    PROVE  /\ Len(db') = Len(db) /\ InStep(cli', Len(db')) /\ done' = done
           /\ cli'.parser = c.parser /\ cli'.sock = "up"
           /\ LET b == db[Len(db)]
              IN  /\ b.in = <<>> /\ b.out = <<>> /\ (b.link => ~ b.wrong)
                  /\ Within(Missing(fresh', c), losses', ~ b.link)
                  => Accounts(cli', db'[Len(db')], fresh', losses')
<1> DEFINE b == db[Len(db)]
<1>1. Missing(fresh', c) \subseteq Table /\ Owed(fresh', c) \subseteq Missing(fresh', c)
      /\ b.link \in BOOLEAN
  <2>1. b \in DataBase
    OBVIOUS
  <2> QED
    BY <2>1, OwedType DEF DataBase
<1>2. Within(Missing(fresh', c), losses', ~ b.link) =>
          /\ Within(Owed(fresh', c), losses', ~ b.link)
          /\ Cardinality(Missing(fresh', c)) <= losses'
  BY <1>1, WithinLess DEF Within
<1> HIDE DEF b
<1>3. CASE c.connet /\ c.queue # <<>>
  <2> DEFINE x == Head(c.queue)
             y == Tail(c.queue)
             e == [c EXCEPT !.table = x, !.queue = y]
             m == [kind |-> "query", of |-> x]
  <2>1. Send(e, m) /\ done' = done
    BY <1>3 DEF CheckConnect, QueryGenerator
  <2>2. x \in Table /\ y \in Seq(Table) /\ Range(c.queue) \subseteq Range(y) \cup {x}
    <3>1. c.queue \in Seq(Table)
      BY DEF Client
    <3>2. x \in Table /\ y \in Seq(Table)
      BY <1>3, <3>1
    <3>3. ASSUME NEW i \in DOMAIN c.queue
          PROVE  c.queue[i] \in Range(y) \cup {x}
      <4>1. CASE i = 1
        BY <4>1
      <4>2. CASE i # 1
        <5>1. i - 1 \in DOMAIN y /\ y[i - 1] = c.queue[i]
          BY <1>3, <3>1, <4>2
        <5> QED
          BY <5>1 DEF Range
      <4> QED
        BY <4>1, <4>2
    <3> QED
      BY <3>2, <3>3 DEF Range
  <2> HIDE DEF x, y
  <2>3. /\ e \in Client /\ e.ready = <<>> /\ e.sock = "up" /\ ~ e.disconnect
        /\ e.parser = c.parser /\ e.connet /\ e.table = x /\ e.queue = y
    BY <1>3, <2>2 DEF Client
  <2>4. m \in Message /\ m.kind = "query"
    BY <2>2 DEF Message
  <2> HIDE DEF e, m
  <2>5. Owed(fresh', e) \subseteq Missing(fresh', c)
    BY <2>2, <2>3 DEF Owed, Missing
  <2>6. Within(Missing(fresh', c), losses', ~ b.link) => Within(Owed(fresh', e), losses', ~ b.link)
    BY <1>1, <2>5, WithinLess
  <2>7. /\ Len(db') = Len(db) /\ InStep(cli', Len(db'))
        /\ cli'.parser = e.parser /\ cli'.sock = "up"
        /\ /\ b.in = <<>> /\ b.out = <<>> /\ (b.link => ~ b.wrong)
           /\ Within(Owed(fresh', e), losses', ~ b.link)
           => Accounts(cli', db'[Len(db')], fresh', losses')
    BY <2>1, <2>3, <2>4, SendBudget DEF b
  <2> QED
    BY <2>1, <2>3, <2>6, <2>7 DEF b
<1>4. CASE ~ c.connet \/ c.queue = <<>>
  <2>1. PICK kind \in {"connect", "disconnect"} :
           /\ Send(c, M(kind)) /\ done' = done
           /\ kind = "connect" <=> ~ c.connet
           /\ kind = "disconnect" => c.queue = <<>>
    BY <1>4 DEF CheckConnect, QueryGenerator
  <2>2. M(kind) \in Message /\ M(kind).kind = kind
    BY MType
  <2>3. /\ Len(db') = Len(db) /\ InStep(cli', Len(db'))
        /\ cli'.parser = c.parser /\ cli'.sock = "up"
        /\ /\ b.in = <<>> /\ b.out = <<>> /\ (b.link => ~ b.wrong)
           /\ Within(Owed(fresh', c), losses', ~ b.link)
           /\ Cardinality(Missing(fresh', c)) <= losses'
           => Accounts(cli', db'[Len(db')], fresh', losses')
    BY <2>1, <2>2, SendBudget DEF b
  <2> QED
    BY <1>2, <2>1, <2>3 DEF b
<1> QED
  BY <1>3, <1>4

(* What is left when the client has stopped.                                *)
LEMMA StopBudget ==
    ASSUME NEW c, ClientOK(c), Count(c) = 0, c.parser <= Len(db), db \in Seq(DataBase),
           cli.sock = "up" => db # <<>>, cli' = Stop(c), db' = HangUp
    PROVE  Budget'
<1>1. /\ ClientOK(cli') /\ Count(cli') = 0 /\ cli'.sock = "closed" /\ cli'.parser = c.parser
  BY StopType
<1>2. cli'.ready = <<>>
  BY <1>1, CountZero
<1>3. Len(db') = Len(db)
  <2>1. CASE cli.sock = "up"
    BY <2>1 DEF HangUp
  <2>2. CASE cli.sock # "up"
    BY <2>2 DEF HangUp
  <2> QED
    BY <2>1, <2>2
<1>4. InStep(cli', Len(db')) /\ Books(cli', db', fresh', losses')
  BY <1>1, <1>2, <1>3 DEF InStep, Books
<1> QED
  BY <1>4 DEF Budget

LEMMA OnErrorBudget == ASSUME Inv, ~ Overlap, Budget, OnError PROVE Budget'
<1> DEFINE c == Stop(Rest)
           d == [c EXCEPT !.connet = FALSE, !.disconnect = FALSE]
           e == [d EXCEPT !.sock = "connecting", !.conn = TRUE]
<1>1. cli.ready # <<>> /\ ~ This.ok /\ cli' = Start(c) /\ db' = HangUp
      /\ fresh' = fresh /\ losses' = losses
  BY DEF OnError
<1>2. /\ Rest.sock = cli.sock /\ Rest.parser = cli.parser /\ Rest.queue = cli.queue
      /\ ClientOK(Rest) /\ Count(Rest) = 0
  BY <1>1, HandlerBudget
<1>3. /\ ClientOK(c) /\ Count(c) = 0 /\ c.sock = "closed" /\ c.parser = cli.parser
      /\ c.queue = cli.queue
  BY <1>2, StopType
<1>4. c \in Client /\ c.ready = <<>>
  BY <1>3, CountZero DEF ClientOK
<1> HIDE DEF c
<1>5. /\ d \in Client /\ d.ready = <<>> /\ d.sock = "closed" /\ d.parser = cli.parser
      /\ d.queue = cli.queue /\ ~ d.connet /\ ~ d.disconnect
  BY <1>3, <1>4 DEF Client
<1>6. cli' = e
  BY <1>1, <1>5 DEF Start
<1> HIDE DEF d
<1>7. /\ cli'.ready = <<>> /\ cli'.sock = "connecting" /\ cli'.parser = cli.parser
      /\ cli'.queue = cli.queue /\ ~ cli'.connet /\ ~ cli'.disconnect
  BY <1>5, <1>6 DEF Client
<1> HIDE DEF e
<1>8. Len(db') = Len(db)
  <2>1. db \in Seq(DataBase) /\ (cli.sock = "up" => db # <<>>)
    BY DEF Inv, SessionsOK
  <2>2. CASE cli.sock = "up"
    BY <1>1, <2>1, <2>2 DEF HangUp
  <2>3. CASE cli.sock # "up"
    BY <1>1, <2>3 DEF HangUp
  <2> QED
    BY <2>2, <2>3
<1>9. InStep(cli', Len(db'))
  BY <1>7, <1>8 DEF InStep, Budget
<1>10. Stuck(cli, db) => Stuck(cli', db')
  BY <1>7 DEF Stuck
<1>11. Owed(fresh', cli') = Missing(fresh, cli) /\ Missing(fresh, cli) \subseteq Table
  BY <1>1, <1>7, OwedType DEF Owed, Missing
<1>12. losses \in Nat
  BY DEF Inv, OthersOK
<1>13. ASSUME Books(cli, db, fresh, losses) PROVE Within(Missing(fresh, cli), losses, FALSE)
  <2>1. CASE cli.sock = "connecting"
    <3>1. ~ cli.connet
      BY <2>1 DEF Budget, InStep
    <3> QED
      BY <1>13, <2>1, <3>1 DEF Books, Owed
  <2>2. CASE cli.sock = "up"
    <3> DEFINE b == db[Len(db)]
    <3>1. Accounts(cli, b, fresh, losses)
      BY <1>13, <2>2 DEF Books
    <3> HIDE DEF b
    <3>2. ~ b.link /\ b.out = <<>>
      BY <1>1, <3>1 DEF Accounts, This
    <3>3. Dead(cli, b)
      BY <1>1, <3>2 DEF Dead, Parting, Told, Answers, This
    <3>4. Within(Owed(fresh, cli), losses, TRUE)
      BY <3>1, <3>3 DEF Accounts, Within
    <3>5. CASE cli.connet
      BY <1>11, <1>12, <3>4, <3>5, WithinMore DEF Owed
    <3>6. CASE ~ cli.connet
      BY <3>4, <3>6 DEF Owed, Within
    <3> QED
      BY <3>5, <3>6
  <2>3. cli.sock # "closed" /\ cli \in Client
    BY <1>1 DEF Budget, InStep, Inv, ClientOK
  <2> QED
    BY <2>1, <2>2, <2>3 DEF Client
<1>14. Books(cli, db, fresh, losses) => Books(cli', db', fresh', losses')
  BY <1>1, <1>7, <1>11, <1>13 DEF Books
<1> QED
  BY <1>9, <1>10, <1>14 DEF Budget

(* A handler that leaves the socket and the parser as they are.             *)
LEMMA AfterBudget ==
    ASSUME Budget, InStep(cli', Len(db')), Len(db') = Len(db), cli'.sock = "up", cli.sock = "up",
           cli'.parser = cli.parser,
           Accounts(cli, db[Len(db)], fresh, losses)
               => Accounts(cli', db'[Len(db')], fresh', losses')
    PROVE  Budget'
<1>1. Stuck(cli, db) => Stuck(cli', db')
  BY DEF Stuck
<1>2. Books(cli, db, fresh, losses) => Books(cli', db', fresh', losses')
  BY DEF Books
<1> QED
  BY <1>1, <1>2 DEF Budget

LEMMA OnConnectBudget == ASSUME Inv, ~ Overlap, Budget, OnConnect PROVE Budget'
<1> DEFINE c == Rest
           b == db[Len(db)]
<1>1. /\ cli.ready # <<>> /\ This.op = "connect" /\ This.ok /\ CheckConnect(c)
      /\ fresh' = fresh /\ losses' = losses
  BY DEF OnConnect, Due, This
<1>2. /\ c \in Client /\ c.ready = <<>> /\ c.sock = "up" /\ ~ c.disconnect /\ cli.sock = "up"
      /\ c.parser = cli.parser /\ c.connet = cli.connet /\ c.queue = cli.queue /\ db # <<>>
  BY <1>1, HandlerBudget
<1>3. c.parser <= Len(db) /\ ~ cli.connet
  BY <1>1, <1>2 DEF Budget, InStep, This
<1>4. db \in Seq(DataBase) /\ b.in = <<>> /\ b.out = <<>> /\ losses \in Nat
  <2>1. Free(cli)
    BY <1>1 DEF Free, This
  <2> QED
    BY <1>2, <2>1, LastMessage DEF Inv, OthersOK
<1> HIDE DEF c, b
<1>5. /\ Len(db') = Len(db) /\ InStep(cli', Len(db'))
      /\ cli'.parser = c.parser /\ cli'.sock = "up"
      /\ (b.link => ~ b.wrong) /\ Within(Missing(fresh, c), losses, ~ b.link)
            => Accounts(cli', db'[Len(db')], fresh', losses')
  BY <1>1, <1>2, <1>3, <1>4, CheckConnectBudget DEF b
<1>6. ASSUME Accounts(cli, b, fresh, losses)
      PROVE  (b.link => ~ b.wrong) /\ Within(Missing(fresh, c), losses, ~ b.link)
  <2>1. ~ Parting(cli, b)
    BY <1>1, <1>4 DEF Parting, Told, Answers, This
  <2>2. Owed(fresh, cli) = Missing(fresh, c)
    BY <1>2, <1>3 DEF Owed, Missing
  <2> QED
    BY <1>6, <2>1, <2>2 DEF Accounts, Dead, Within
<1> QED
  BY <1>2, <1>5, <1>6, AfterBudget DEF b

(* A receive is started, after a send or a part of an answer.               *)
LEMMA ReceiveBudget ==
    ASSUME Inv, ~ Overlap, Budget, cli.ready # <<>>, This.ok, ~ Answers(This),
           NEW p \in Nat, p <= Len(db), Stuck(cli, db) => p = cli.parser,
           NEW c, c = [Rest EXCEPT !.parser = p], cli' = AsyncReceive(c),
           UNCHANGED <<db, fresh, losses>>
    PROVE  Budget'
<1>1. /\ Rest \in Client /\ Rest.ready = <<>> /\ Rest.recv = 0 /\ Rest.sock = "up"
      /\ Rest.connet = cli.connet /\ Rest.queue = cli.queue /\ Rest.table = cli.table
      /\ ~ Rest.disconnect /\ cli.sock = "up"
  BY HandlerBudget
<1>2. /\ c \in Client /\ c.ready = <<>> /\ c.recv = 0 /\ c.sock = "up"
      /\ c.connet = cli.connet /\ c.queue = cli.queue /\ c.table = cli.table
      /\ ~ c.disconnect /\ c.parser = p
  BY <1>1 DEF Client
<1>3. cli' = [c EXCEPT !.recv = c.recv + 1] /\ c.recv + 1 = 1
  BY <1>2 DEF AsyncReceive
<1>4. /\ cli'.ready = <<>> /\ cli'.recv = 1 /\ cli'.sock = "up"
      /\ cli'.connet = cli.connet /\ cli'.queue = cli.queue /\ cli'.table = cli.table
      /\ ~ cli'.disconnect /\ cli'.parser = p
  BY <1>2, <1>3 DEF Client
<1>5. InStep(cli', Len(db'))
  BY <1>4 DEF InStep
<1>6. Stuck(cli, db) => Stuck(cli', db')
  BY <1>1, <1>4 DEF Stuck
<1>7. Owed(fresh, cli') = Owed(fresh, cli) /\ Missing(fresh, cli') = Missing(fresh, cli)
  BY <1>4 DEF Owed, Missing
<1> DEFINE b == db[Len(db)]
<1>8. Accounts(cli, b, fresh, losses) => Accounts(cli', b, fresh, losses)
  <2>1. \A kind : Told(cli', b, kind) <=> Told(cli, b, kind)
    BY <1>4 DEF Told, This
  <2>2. Dead(cli', b) <=> Dead(cli, b)
    BY <2>1 DEF Dead, Parting
  <2> HIDE DEF b
  <2> QED
    BY <1>4, <1>7, <2>1, <2>2 DEF Accounts, Parting, Within
<1>9. Books(cli, db, fresh, losses) => Books(cli', db', fresh', losses')
  BY <1>1, <1>4, <1>8 DEF Books
<1> QED
  BY <1>5, <1>6, <1>9 DEF Budget

LEMMA OnSendBudget == ASSUME Inv, ~ Overlap, Budget, OnSend PROVE Budget'
<1> DEFINE c == [Rest EXCEPT !.parser = cli.parser]
<1>1. /\ cli.ready # <<>> /\ This.ok /\ ~ Answers(This) /\ cli' = AsyncReceive(Rest)
      /\ UNCHANGED <<db, fresh, losses>>
  BY DEF OnSend, Due, Answers, This
<1>2. Rest \in Client /\ Rest.parser = cli.parser /\ cli.parser \in Nat
  BY <1>1, HandlerBudget DEF Client
<1>3. c = Rest
  BY <1>2 DEF Client
<1>4. cli.parser <= Len(db)
  BY DEF Budget, InStep
<1> DEFINE p == cli.parser
<1>5. p \in Nat /\ p <= Len(db) /\ c = [Rest EXCEPT !.parser = p]
  BY <1>2, <1>4
<1>6. cli' = AsyncReceive(c)
  BY <1>1, <1>3
<1> HIDE DEF c
<1> QED
  BY <1>1, <1>5, <1>6, ReceiveBudget

LEMMA OnReceivePartBudget == ASSUME Inv, ~ Overlap, Budget, OnReceivePart PROVE Budget'
<1> DEFINE p == IF Rest.parser = 0 THEN This.conn ELSE Rest.parser
           c == [Rest EXCEPT !.parser = p]
<1>1. /\ cli.ready # <<>> /\ This.op = "recv" /\ This.ok /\ ~ Parsed
      /\ cli' = AsyncReceive([Rest EXCEPT !.parser = IF @ = 0 THEN This.conn ELSE @])
      /\ UNCHANGED <<db, fresh, losses>>
  BY DEF OnReceivePart, Due, This
<1>2. Rest \in Client /\ Rest.parser = cli.parser /\ This \in Handler /\ cli.sock = "up"
  BY <1>1, HandlerBudget
<1>3. This.conn = Len(db) /\ cli.parser <= Len(db) /\ This.conn \in Nat /\ cli.parser \in Nat
  BY <1>1, <1>2 DEF Budget, InStep, This, Handler, Client
<1>4. cli' = AsyncReceive(c)
  BY <1>1
<1>5. p \in Nat /\ p <= Len(db) /\ (Stuck(cli, db) => p = cli.parser)
  BY <1>2, <1>3 DEF Stuck
<1>6. CASE ~ Answers(This)
  <2> HIDE DEF p
  <2> QED
    BY <1>1, <1>4, <1>5, <1>6, ReceiveBudget
<1>7. CASE Answers(This)
  <2>1. Stuck(cli, db) /\ p = cli.parser
    BY <1>1, <1>2, <1>3, <1>7 DEF Parsed, Answers, Stuck
  <2> HIDE DEF p
  <2>2. /\ Rest.ready = <<>> /\ Rest.recv = 0 /\ Rest.sock = "up" /\ ~ Rest.disconnect
    BY <1>1, <1>2, HandlerBudget
  <2>3. /\ c \in Client /\ c.ready = <<>> /\ c.recv = 0 /\ c.sock = "up" /\ ~ c.disconnect
        /\ c.parser = cli.parser
    BY <1>2, <1>5, <2>1, <2>2 DEF Client
  <2> HIDE DEF c
  <2>4. cli' = [c EXCEPT !.recv = @ + 1]
    BY <1>4, <2>3 DEF AsyncReceive
  <2>5. /\ cli'.ready = <<>> /\ cli'.recv = 1 /\ cli'.sock = "up" /\ ~ cli'.disconnect
        /\ cli'.parser = cli.parser
    BY <2>3, <2>4 DEF Client
  <2>6. InStep(cli', Len(db')) /\ Stuck(cli', db')
    BY <1>1, <1>2, <1>3, <2>1, <2>5 DEF InStep, Stuck
  <2> QED
    BY <2>6 DEF Budget
<1> QED
  BY <1>6, <1>7

(* An answer that is read is the one awaited.                               *)
LEMMA AnswerBudget ==
    ASSUME Inv, ~ Overlap, Budget, OnReceive
    PROVE  LET b == db[Len(db)]
               c == [Rest EXCEPT !.parser = 0]
           IN  /\ cli.ready # <<>> /\ Answers(This) /\ cli.sock = "up" /\ db # <<>>
               /\ db \in Seq(DataBase) /\ b.in = <<>> /\ b.out = <<>> /\ losses \in Nat
               /\ Accounts(cli, b, fresh, losses) /\ losses' = losses
               /\ \A kind : Told(cli, b, kind) <=> This.msg.kind = kind
               /\ c \in Client /\ c.ready = <<>> /\ c.sock = "up" /\ ~ c.disconnect
               /\ c.connet = cli.connet /\ c.queue = cli.queue /\ c.table = cli.table
               /\ c.parser = 0 /\ Rest.connet = cli.connet /\ Len(db) \in Nat
               /\ ClientOK(Rest) /\ Count(Rest) = 0 /\ SessionsOK(Rest, db) /\ Rest \in Client
               /\ This.msg.kind = "rows" => This.msg.of = cli.table /\ cli.table \in Table
<1> DEFINE b == db[Len(db)]
           c == [Rest EXCEPT !.parser = 0]
<1>1. cli.ready # <<>> /\ Answers(This) /\ losses' = losses /\ Parsed
  BY DEF OnReceive, Due, Parsed, Answers, This
<1>2. This.ok /\ This.op = "recv" /\ ~ This.part
  BY <1>1 DEF Answers
<1>3. /\ Rest \in Client /\ Rest.ready = <<>> /\ Rest.sock = "up" /\ ~ Rest.disconnect
      /\ Rest.connet = cli.connet /\ Rest.queue = cli.queue /\ Rest.table = cli.table
      /\ cli.sock = "up" /\ db # <<>> /\ ClientOK(Rest) /\ Count(Rest) = 0 /\ SessionsOK(Rest, db)
  BY <1>1, <1>2, HandlerBudget
<1>4. /\ c \in Client /\ c.ready = <<>> /\ c.sock = "up" /\ ~ c.disconnect /\ c.parser = 0
      /\ c.connet = cli.connet /\ c.queue = cli.queue /\ c.table = cli.table
  BY <1>3 DEF Client
<1>5. db \in Seq(DataBase) /\ b.in = <<>> /\ b.out = <<>> /\ losses \in Nat /\ Len(db) \in Nat
  <2>1. Free(cli)
    BY <1>1, <1>2 DEF Free, This
  <2> QED
    BY <1>3, <2>1, LastMessage DEF Inv, OthersOK
<1>6. This.conn = Len(db)
  BY <1>1, <1>2, <1>3 DEF Budget, InStep, This
<1>7. ~ Stuck(cli, db)
  BY <1>1, <1>3, <1>6 DEF Stuck, Parsed
<1>8. Accounts(cli, b, fresh, losses)
  BY <1>3, <1>7 DEF Budget, Books
<1>9. \A kind : Told(cli, b, kind) <=> This.msg.kind = kind
  BY <1>1, <1>5 DEF Told, This
<1>10. This.msg.kind = "rows" => This.msg.of = cli.table /\ cli.table \in Table
  <2>1. This \in HandlerOf(cli)
    BY <1>1, RestType
  <2>2. This.msg \in Known(cli) /\ This.msg \in Message
    BY <2>1 DEF HandlerOf, Known
  <2>3. This.msg.kind = "rows" => This.msg.of \in Table
    BY <2>2 DEF Message
  <2> QED
    BY <2>2, <2>3, DbLoadAssumption DEF Known
<1> QED
  BY <1>1, <1>3, <1>4, <1>5, <1>8, <1>9, <1>10

LEMMA OnReceiveBudget == ASSUME Inv, ~ Overlap, Budget, OnReceive PROVE Budget'
<1> DEFINE b == db[Len(db)]
           c == [Rest EXCEPT !.parser = 0]
<1>1. /\ cli.ready # <<>> /\ Answers(This) /\ cli.sock = "up" /\ db # <<>>
      /\ db \in Seq(DataBase) /\ b.in = <<>> /\ b.out = <<>> /\ losses \in Nat
      /\ Accounts(cli, b, fresh, losses) /\ losses' = losses
      /\ \A kind : Told(cli, b, kind) <=> This.msg.kind = kind
      /\ c \in Client /\ c.ready = <<>> /\ c.sock = "up" /\ ~ c.disconnect
      /\ c.connet = cli.connet /\ c.queue = cli.queue /\ c.table = cli.table
      /\ c.parser = 0 /\ Rest.connet = cli.connet /\ Len(db) \in Nat
      /\ ClientOK(Rest) /\ Count(Rest) = 0 /\ SessionsOK(Rest, db) /\ Rest \in Client
      /\ This.msg.kind = "rows" => This.msg.of = cli.table /\ cli.table \in Table
  BY AnswerBudget
<1> DEFINE s == [c EXCEPT !.connet = TRUE, !.disconnect = FALSE]
           g == [c EXCEPT !.disconnect = TRUE]
<1>2. CASE This.msg.kind \in {"fail", "bye"}
  <2>1. CheckConnect(g)
    BY <1>2 DEF OnReceive
  <2>2. /\ g = [Rest EXCEPT !.parser = 0, !.connet = Rest.connet, !.disconnect = TRUE]
        /\ g.disconnect /\ Rest.connet \in BOOLEAN /\ g.parser = 0
    BY <1>1 DEF Client
  <2> HIDE DEF c, g
  <2>3. ClientOK(g) /\ Count(g) = 0
    <3>1. PICK x \in BOOLEAN, y \in BOOLEAN : x = Rest.connet /\ y = TRUE
      BY <2>2
    <3>2. g = [Rest EXCEPT !.parser = 0, !.connet = x, !.disconnect = y]
      BY <2>2, <3>1
    <3>3. ClientOK(Rest) /\ SessionsOK(Rest, db) /\ Count(Rest) = 0
      BY <1>1
    <3>4. ClientOK(g) /\ Count(g) = Count(Rest)
      BY <3>1, <3>2, <3>3, FlagsType
    <3> QED
      BY <3>3, <3>4
  <2>4. cli' = Stop(g) /\ db' = HangUp
    BY <2>1, <2>2 DEF CheckConnect, QueryGenerator
  <2>5. g.parser <= Len(db)
    BY <1>1, <2>2
  <2> QED
    BY <1>1, <2>3, <2>4, <2>5, StopBudget
<1>3. /\ s \in Client /\ s.ready = <<>> /\ s.sock = "up" /\ ~ s.disconnect
      /\ s.queue = cli.queue /\ s.parser = 0
  BY <1>1 DEF Client
<1>4. ~ Parting(cli, b) /\ b.link \in BOOLEAN
      => (b.link => ~ b.wrong) /\ Within(Owed(fresh, cli), losses, ~ b.link)
  BY <1>1 DEF Accounts, Dead, Within
<1>5. b.link \in BOOLEAN
  <2>1. b \in DataBase
    BY <1>1
  <2> QED
    BY <2>1 DEF DataBase
<1>6. ASSUME NEW e \in {c, s}, CheckConnect(e), This.msg.kind \notin {"fail", "bye"},
             Within(Missing(fresh', e), losses, ~ b.link)
      PROVE  Budget'
  <2>1. ~ Parting(cli, b)
    BY <1>1, <1>6 DEF Parting
  <2>2. b.link => ~ b.wrong
    BY <1>4, <1>5, <2>1
  <2>3. /\ e \in Client /\ e.ready = <<>> /\ e.sock = "up" /\ ~ e.disconnect /\ e.parser = 0
    BY <1>1, <1>3, <1>6
  <2>4. e.parser <= Len(db)
    BY <1>1, <2>3
  <2> HIDE DEF c, s, b
  <2>5. /\ Len(db') = Len(db) /\ InStep(cli', Len(db')) /\ cli'.parser = e.parser /\ cli'.sock = "up"
        /\ /\ b.in = <<>> /\ b.out = <<>> /\ (b.link => ~ b.wrong)
           /\ Within(Missing(fresh', e), losses', ~ b.link)
           => Accounts(cli', db'[Len(db')], fresh', losses')
    BY <1>1, <1>6, <2>3, <2>4, CheckConnectBudget DEF b
  <2>6. Accounts(cli', db'[Len(db')], fresh', losses')
    BY <1>1, <1>6, <2>2, <2>5
  <2> QED
    BY <2>5, <2>6 DEF Budget, Books
<1>7. CASE This.msg.kind = "success"
  <2>1. CheckConnect(s) /\ fresh' = fresh
    BY <1>7 DEF OnReceive
  <2>2. ~ cli.connet
    BY <1>1, <1>7 DEF Accounts
  <2>3. Missing(fresh', s) = Owed(fresh, cli)
    BY <1>3, <2>1, <2>2 DEF Missing, Owed
  <2>4. ~ Parting(cli, b)
    BY <1>1, <1>7 DEF Parting
  <2> QED
    BY <1>4, <1>5, <1>6, <1>7, <2>1, <2>3, <2>4
<1>8. CASE This.msg.kind = "rows"
  <2>1. Fields[c.table] \subseteq Fields[This.msg.of]
    BY <1>1, <1>8
  <2>2. CheckConnect(c) /\ fresh' = fresh \cup {c.table}
    BY <1>8, <2>1 DEF OnReceive
  <2>3. Missing(fresh', c) \subseteq Owed(fresh, cli)
    BY <1>1, <2>2 DEF Missing, Owed
  <2>4. ~ Parting(cli, b)
    BY <1>1, <1>8 DEF Parting
  <2>5. Within(Missing(fresh', c), losses, ~ b.link)
    <3>1. Within(Owed(fresh, cli), losses, ~ b.link) /\ Owed(fresh, cli) \subseteq Table
      BY <1>4, <1>5, <2>4, OwedType
    <3> HIDE DEF c, b
    <3> QED
      BY <1>1, <1>5, <2>3, <3>1, WithinLess
  <2> QED
    BY <1>6, <1>8, <2>2, <2>5
<1> QED
  BY <1>2, <1>7, <1>8 DEF OnReceive

(* The refresh: nothing is missing yet.                                     *)
LEMMA ConnectToDBBudget == ASSUME Inv, ~ Overlap, Budget, ConnectToDB PROVE Budget'
<1> DEFINE c == [cli EXCEPT !.queue = Tables]
           d == [c EXCEPT !.connet = FALSE, !.disconnect = FALSE]
           h == Done("connect", FALSE)
<1>1. /\ cli.ready = <<>> /\ cli.recv = 0 /\ cli' = Start(c) /\ db' = db
      /\ fresh' = {} /\ losses' = 0
  BY DEF ConnectToDB, Idle
<1>2. cli \in Client /\ Tables \in Seq(Table)
  BY DbLoadAssumption DEF Inv, ClientOK
<1>3. cli.sock # "up"
  BY <1>1 DEF Budget, InStep
<1>4. /\ c \in Client /\ c.ready = <<>> /\ c.sock = cli.sock /\ c.parser = cli.parser
      /\ c.queue = Tables
  BY <1>1, <1>2 DEF Client
<1> HIDE DEF c
<1>5. /\ d \in Client /\ d.ready = <<>> /\ d.sock = cli.sock /\ d.parser = cli.parser
      /\ d.queue = Tables /\ ~ d.connet /\ ~ d.disconnect
  BY <1>4 DEF Client
<1>6. cli' = IF d.sock = "closed" THEN [d EXCEPT !.sock = "connecting", !.conn = TRUE] ELSE Post(d, h)
  BY <1>1 DEF Start
<1> HIDE DEF d
<1>7. h.op = "connect" /\ ~ h.ok
  BY DEF Done
<1> HIDE DEF h
<1>8. /\ cli'.sock = "connecting" /\ cli'.parser = cli.parser /\ cli'.queue = Tables
      /\ ~ cli'.connet /\ ~ cli'.disconnect
      /\ cli'.ready = <<>> \/ cli'.ready = Append(<<>>, h)
  <2>1. CASE d.sock = "closed"
    BY <1>5, <1>6, <2>1 DEF Client
  <2>2. CASE d.sock = "connecting"
    BY <1>5, <1>6, <2>2 DEF Client, Post
  <2> QED
    BY <1>3, <1>5, <2>1, <2>2 DEF Client
<1>9. InStep(cli', Len(db'))
  <2>1. cli'.ready # <<>> => Head(cli'.ready) = h
    BY <1>8
  <2>2. cli.parser <= Len(db)
    BY DEF Budget, InStep
  <2> QED
    BY <1>1, <1>7, <1>8, <2>1, <2>2 DEF InStep
<1>10. Owed(fresh', cli') = {}
  BY <1>1, <1>8 DEF Owed, Missing, Table
<1>11. Within(Owed(fresh', cli'), losses', FALSE)
  BY <1>1, <1>10, FS_EmptySet DEF Within
<1> QED
  BY <1>8, <1>9, <1>11 DEF Budget, Books

LEMMA ConnectedBudget == ASSUME Inv, ~ Overlap, Budget, Connected PROVE Budget'
<1> DEFINE h == Done("connect", TRUE)
           c == [cli EXCEPT !.conn = FALSE, !.sock = "up"]
<1>1. cli.conn /\ cli.sock = "connecting" /\ cli \in Client /\ cli.ready = <<>> /\ cli.recv = 0
  BY OneOperation DEF Connected
<1>2. /\ cli' = Post(c, h) /\ db' = Append(db, NewDataBase) /\ fresh' = fresh /\ losses' = losses
      /\ db \in Seq(DataBase) /\ losses \in Nat /\ ~ cli.connet /\ ~ cli.disconnect
      /\ cli.parser <= Len(db) /\ cli.parser \in Nat
  BY <1>1 DEF Connected, Inv, SessionsOK, OthersOK, Budget, InStep, Client
<1>3. /\ cli'.ready = Append(<<>>, h) /\ cli'.sock = "up" /\ cli'.parser = cli.parser
      /\ cli'.queue = cli.queue /\ ~ cli'.connet /\ ~ cli'.disconnect
  BY <1>1, <1>2 DEF Post, Client
<1>4. h.ok /\ h.op = "connect"
  BY DEF Done
<1> HIDE DEF h
<1>5. cli'.ready # <<>> /\ Head(cli'.ready) = h
  BY <1>3
<1>6. Len(db') = Len(db) + 1 /\ db'[Len(db')] = NewDataBase /\ Len(db) \in Nat
  BY <1>2
<1>7. InStep(cli', Len(db'))
  BY <1>2, <1>3, <1>4, <1>5, <1>6 DEF InStep
<1>8. Stuck(cli, db) => Stuck(cli', db')
  BY <1>2, <1>3, <1>6 DEF Stuck
<1>9. Owed(fresh', cli') = Owed(fresh, cli)
  BY <1>2, <1>3 DEF Owed, Missing
<1>10. ASSUME Books(cli, db, fresh, losses)
       PROVE  Books(cli', db', fresh', losses')
  <2>1. Within(Owed(fresh, cli), losses, FALSE)
    BY <1>1, <1>10 DEF Books
  <2> DEFINE b == NewDataBase
  <2>2. b.in = <<>> /\ b.out = <<>> /\ b.link /\ ~ b.wrong
    BY DEF NewDataBase
  <2> HIDE DEF b
  <2>3. \A kind : ~ Told(cli', b, kind)
    BY <1>4, <1>5, <2>2 DEF Told, Answers
  <2>4. Accounts(cli', b, fresh', losses')
    BY <1>2, <1>4, <1>5, <1>9, <2>1, <2>2, <2>3 DEF Accounts, Said, Dead, Within
  <2> QED
    BY <1>3, <1>6, <2>4 DEF Books, b
<1> QED
  BY <1>7, <1>8, <1>10 DEF Budget

LEMMA ConnectRefusedBudget == ASSUME Inv, ~ Overlap, Budget, ConnectRefused PROVE Budget'
<1> DEFINE h == Done("connect", FALSE)
           c == [cli EXCEPT !.conn = FALSE]
<1>1. cli.conn /\ cli.sock = "connecting" /\ cli \in Client /\ cli.ready = <<>>
  BY OneOperation DEF ConnectRefused
<1>2. cli' = Post(c, h) /\ UNCHANGED <<db, fresh, losses>>
  BY DEF ConnectRefused
<1>3. /\ cli'.ready = Append(<<>>, h) /\ cli'.sock = cli.sock /\ cli'.parser = cli.parser
      /\ cli'.queue = cli.queue /\ cli'.connet = cli.connet /\ cli'.disconnect = cli.disconnect
      /\ cli'.table = cli.table
  BY <1>1, <1>2 DEF Post, Client
<1>4. ~ h.ok /\ h.op = "connect"
  BY DEF Done
<1> HIDE DEF h
<1>5. cli'.ready # <<>> /\ Head(cli'.ready) = h
  BY <1>3
<1>6. InStep(cli', Len(db'))
  BY <1>1, <1>2, <1>3, <1>4, <1>5 DEF Budget, InStep
<1>7. Owed(fresh', cli') = Owed(fresh, cli)
  BY <1>2, <1>3 DEF Owed, Missing
<1>8. Stuck(cli, db) => Stuck(cli', db')
  BY <1>1, <1>3 DEF Stuck
<1>9. Books(cli, db, fresh, losses) => Books(cli', db', fresh', losses')
  BY <1>1, <1>2, <1>3, <1>7 DEF Books
<1> QED
  BY <1>6, <1>8, <1>9 DEF Budget

(* A receive completes; what is told moves from the connection to the       *)
(* handler.                                                                 *)
LEMMA ReceivedBudget ==
    ASSUME Inv, ~ Overlap, Budget, cli.recv > 0, NEW h, h.op = "recv",
           cli' = Post([cli EXCEPT !.recv = @ - 1], h), Len(db') = Len(db),
           fresh' = fresh, losses' = losses,
           h.ok => h.conn = Len(db),
           LET b == db[Len(db)]
               e == db'[Len(db)]
           IN  /\ e.in = b.in /\ e.link = b.link /\ e.wrong = b.wrong
               /\ \A kind : Told(cli, b, kind) <=>
                               \/ e.out # <<>> /\ Head(e.out).kind = kind
                               \/ Answers(h) /\ h.msg.kind = kind
               /\ ~ h.ok => ~ e.link /\ e.out = <<>>
    PROVE  Budget'
<1> DEFINE b == db[Len(db)]
           e == db'[Len(db)]
<1>1. cli \in Client /\ cli.ready = <<>> /\ cli.recv = 1 /\ cli.sock = "up"
  BY OneOperation
<1>2. /\ cli'.ready = Append(<<>>, h) /\ cli'.sock = "up" /\ cli'.parser = cli.parser
      /\ cli'.queue = cli.queue /\ cli'.connet = cli.connet /\ cli'.disconnect = cli.disconnect
      /\ cli'.table = cli.table
  BY <1>1 DEF Post, Client
<1>3. cli'.ready # <<>> /\ Head(cli'.ready) = h
  BY ONLY <1>2
<1>4. InStep(cli', Len(db'))
  BY <1>1, <1>2, <1>3 DEF Budget, InStep
<1>5. Owed(fresh', cli') = Owed(fresh, cli) /\ Missing(fresh', cli') = Missing(fresh, cli)
  BY <1>2 DEF Owed, Missing
<1>6. /\ e.in = b.in /\ e.link = b.link /\ e.wrong = b.wrong
      /\ ~ h.ok => ~ e.link /\ e.out = <<>>
  OBVIOUS
<1>7. \A kind : Told(cli', e, kind) <=> Told(cli, b, kind)
  BY <1>3 DEF Told
<1> HIDE DEF b, e
<1>8. Dead(cli', e) <=> Dead(cli, b)
  BY <1>6, <1>7 DEF Dead, Parting
<1>9. Accounts(cli, b, fresh, losses) => Accounts(cli', e, fresh', losses')
  BY <1>2, <1>3, <1>5, <1>6, <1>7, <1>8 DEF Accounts, Said, Parting, Within
<1> QED
  BY <1>1, <1>2, <1>4, <1>9, AfterBudget DEF b, e

LEMMA DeliverBudget == ASSUME Inv, ~ Overlap, Budget, Deliver PROVE Budget'
<1> DEFINE k == Len(db)
           b == db[k]
           e == db'[k]
<1>1. cli.recv > 0 /\ b.out # <<>> /\ fresh' = fresh /\ losses' = losses
  BY DEF Deliver
<1>2. cli.ready = <<>> /\ cli.sock = "up"
  BY <1>1, OneOperation
<1>3. db # <<>>
  BY <1>2 DEF Inv, SessionsOK
<1>4. /\ k \in DOMAIN db /\ db \in Seq(DataBase) /\ b \in DataBase /\ Tail(b.out) = <<>>
  BY <1>1, <1>3, LastMessage
<1>5. PICK part \in BOOLEAN :
         /\ cli' = Post([cli EXCEPT !.recv = @ - 1], Received(part, Head(b.out)))
         /\ part => db' = db
         /\ ~ part => db' = [db EXCEPT ![k].out = Tail(@)]
  BY DEF Deliver
<1> DEFINE h == Received(part, Head(b.out))
<1>6. /\ h.op = "recv" /\ h.ok /\ h.conn = k /\ h.part = part /\ h.msg = Head(b.out)
  BY DEF Received
<1>7. cli' = Post([cli EXCEPT !.recv = @ - 1], h)
  BY <1>5
<1> HIDE DEF h
<1>8. Len(db') = Len(db)
  BY <1>4, <1>5
<1>9. /\ e.in = b.in /\ e.link = b.link /\ e.wrong = b.wrong
      /\ e.out = IF part THEN b.out ELSE <<>>
  <2>1. CASE part
    BY <1>5, <2>1
  <2>2. CASE ~ part
    <3>1. e = [b EXCEPT !.out = <<>>]
      BY <1>4, <1>5, <2>2
    <3> HIDE DEF e, b
    <3> QED
      BY <1>4, <2>2, <3>1 DEF DataBase
  <2> QED
    BY <2>1, <2>2
<1> HIDE DEF b, e
<1>10. Answers(h) <=> ~ part
  BY <1>6 DEF Answers
<1>11. \A kind : Told(cli, b, kind) <=>
                   \/ e.out # <<>> /\ Head(e.out).kind = kind
                   \/ Answers(h) /\ h.msg.kind = kind
  BY <1>1, <1>2, <1>6, <1>9, <1>10 DEF Told
<1> QED
  BY <1>1, <1>6, <1>7, <1>8, <1>9, <1>11, ReceivedBudget DEF b, e

LEMMA DeliverEndBudget == ASSUME Inv, ~ Overlap, Budget, DeliverEnd PROVE Budget'
<1> DEFINE b == db[Len(db)]
           h == Done("recv", FALSE)
<1>1. /\ cli.recv > 0 /\ b.out = <<>> /\ ~ b.link /\ UNCHANGED <<db, fresh, losses>>
      /\ cli' = Post([cli EXCEPT !.recv = @ - 1], h)
  BY DEF DeliverEnd
<1>2. cli.ready = <<>>
  BY <1>1, OneOperation
<1>3. h.op = "recv" /\ ~ h.ok /\ ~ Answers(h)
  BY DEF Done, Answers
<1> HIDE DEF h
<1>4. \A kind : ~ Told(cli, b, kind)
  BY <1>1, <1>2 DEF Told
<1> QED
  BY <1>1, <1>3, <1>4, ReceivedBudget

(* A loss ends what was under way, and may cost a table.                    *)
LEMMA LossBudget ==
    ASSUME Inv, Budget, UNCHANGED <<cli, fresh>>, losses' = losses + 1, Len(db') = Len(db),
           db # <<>> => /\ ~ db'[Len(db)].link
                        /\ db'[Len(db)].in = <<>> /\ db'[Len(db)].out = <<>>
    PROVE  Budget'
<1>1. losses \in Nat /\ (cli.sock = "up" => db # <<>>)
  BY DEF Inv, OthersOK, SessionsOK
<1>2. InStep(cli', Len(db')) /\ (Stuck(cli, db) => Stuck(cli', db'))
  BY DEF Budget, Stuck
<1>3. Owed(fresh, cli) \subseteq Table /\ Missing(fresh, cli) \subseteq Table
  BY OwedType
<1>4. ASSUME Books(cli, db, fresh, losses) PROVE Books(cli', db', fresh', losses')
  <2>1. cli.sock = "connecting" => Within(Owed(fresh, cli), losses + 1, FALSE)
    BY <1>1, <1>3, <1>4, WithinLoss DEF Books
  <2>2. CASE cli.sock = "up"
    <3> DEFINE b == db[Len(db)]
               e == db'[Len(db)]
    <3>1. Accounts(cli, b, fresh, losses) /\ ~ e.link /\ e.in = <<>> /\ e.out = <<>>
      BY <1>1, <1>4, <2>2 DEF Books
    <3> HIDE DEF b, e
    <3>2. Within(Owed(fresh, cli), losses, Dead(cli, b))
      BY <3>1 DEF Accounts
    <3>3. Within(Owed(fresh, cli), losses + 1, Dead(cli, e))
      BY <1>1, <1>3, <3>2, WithinLoss
    <3>4. \A kind : Told(cli, e, kind) => Told(cli, b, kind)
      BY <3>1 DEF Told
    <3>5. /\ ~ Said(e, "disconnect") /\ ~ Said(e, "connect") /\ ~ Said(e, "query")
          /\ Told(cli, e, "bye") /\ cli.table \notin Refused =>
               cli.queue = <<>> /\ Cardinality(Missing(fresh, cli)) <= losses + 1
      <4>1. Cardinality(Missing(fresh, cli)) \in Nat
        BY <1>3, CardType
      <4> QED
        BY <1>1, <3>1, <3>4, <4>1 DEF Accounts, Said
    <3>6. /\ Told(cli, e, "success") \/ Told(cli, e, "fail") => ~ cli.connet
          /\ Told(cli, e, "bye") => cli.connet
          /\ Told(cli, e, "fail") => "fail" \in Verdicts
      BY <3>1, <3>4 DEF Accounts
    <3>7. Accounts(cli, e, fresh, losses + 1)
      BY <3>1, <3>3, <3>5, <3>6 DEF Accounts
    <3> QED
      BY <2>2, <3>7 DEF Books, e
  <2> QED
    BY <2>1, <2>2 DEF Books
<1> QED
  BY <1>2, <1>4 DEF Budget

LEMMA CrashBudget ==
    ASSUME Inv, Budget, Crash, UNCHANGED <<cli, fresh>>
    PROVE  Budget'
<1>1. db \in Seq(DataBase)
  BY DEF Inv, SessionsOK
<1>2. db' = [k \in DOMAIN db |-> [Broken(db[k]) EXCEPT !.phase = "gone"]] /\ losses' = losses + 1
  BY DEF Crash
<1>3. Len(db') = Len(db)
  BY <1>1, <1>2
<1>4. ASSUME db # <<>>
      PROVE  ~ db'[Len(db)].link /\ db'[Len(db)].in = <<>> /\ db'[Len(db)].out = <<>>
  <2> DEFINE k == Len(db)
             b == db[k]
             x == Broken(b)
  <2>1. k \in DOMAIN db /\ b \in DataBase
    BY <1>1, <1>4
  <2>2. db'[k] = [x EXCEPT !.phase = "gone"]
    BY <1>2, <2>1
  <2> HIDE DEF b
  <2>3. x \in DataBase /\ x.in = <<>> /\ x.out = <<>> /\ ~ x.link
    BY <2>1, BrokenType DEF Broken, DataBase
  <2> HIDE DEF x
  <2> QED
    BY <2>2, <2>3 DEF DataBase
<1> QED
  BY <1>2, <1>3, <1>4, LossBudget

LEMMA LoseBudget == ASSUME Inv, Budget, Lose PROVE Budget'
<1> DEFINE k == Len(db)
           x == Broken(db[k])
<1>1. k \in DOMAIN db /\ db[k] \in DataBase /\ db \in Seq(DataBase) /\ db # <<>>
  BY DEF Lose, Inv, SessionsOK
<1>2. db' = [db EXCEPT ![k] = x] /\ losses' = losses + 1 /\ UNCHANGED <<cli, fresh>>
  BY DEF Lose
<1>3. x.in = <<>> /\ x.out = <<>> /\ ~ x.link
  BY <1>1, BrokenType DEF Broken, DataBase
<1> HIDE DEF x
<1>4. Len(db') = Len(db) /\ db'[k] = x
  BY <1>1, <1>2
<1> QED
  BY <1>2, <1>3, <1>4, LossBudget

-----------------------------------------------------------------------------
(* The sessions: what they change matters to the client on the last         *)
(* connection only.                                                         *)
LEMMA SessionBudget ==
    ASSUME Inv, Budget, NEW k \in DOMAIN db, NEW b, db' = Put(db, k, b),
           UNCHANGED <<cli, fresh, losses>>,
           k = Len(db) /\ cli.sock = "up" /\ Accounts(cli, db[k], fresh, losses)
               => Accounts(cli, b, fresh, losses)
    PROVE  Budget'
<1>1. db \in Seq(DataBase)
  BY DEF Inv, SessionsOK
<1>2. /\ Len(db') = Len(db)
      /\ k # Len(db) => db'[Len(db)] = db[Len(db)]
      /\ k = Len(db) => db'[Len(db)] = b
  BY <1>1 DEF Put
<1>3. InStep(cli', Len(db')) /\ (Stuck(cli, db) => Stuck(cli', db'))
  BY <1>2 DEF Budget, Stuck
<1>4. Books(cli, db, fresh, losses) => Books(cli', db', fresh', losses')
  <2>1. CASE k = Len(db)
    BY <1>2, <2>1 DEF Books
  <2>2. CASE k # Len(db)
    <3>1. db'[Len(db')] = db[Len(db)]
      BY <1>2, <2>2
    <3> QED
      BY <3>1 DEF Books
  <2> QED
    BY <2>1, <2>2
<1> QED
  BY <1>3, <1>4 DEF Budget

(* A session goes on, drops a request, or closes after its farewell.        *)
LEMMA QuietBudget ==
    ASSUME Inv, ~ Overlap, Budget, NEW k \in DOMAIN db, NEW b \in DataBase, db' = Put(db, k, b),
           UNCHANGED <<cli, fresh, losses>>, b.out = db[k].out,
           b.in = db[k].in \/ b.in = <<>>,
           \/ b.link = db[k].link /\ b.wrong = db[k].wrong
           \/ b.link = (db[k].link /\ ~ db[k].wrong) /\ ~ b.wrong
    PROVE  Budget'
<1> DEFINE d == db[k]
<1>1. d \in DataBase
  BY DEF Inv, SessionsOK
<1>2. d.link \in BOOLEAN /\ b.link \in BOOLEAN /\ d.wrong \in BOOLEAN /\ b.wrong \in BOOLEAN
  BY <1>1 DEF DataBase
<1>3. \A kind : Told(cli, b, kind) <=> Told(cli, d, kind)
  BY DEF Told
<1>4. \A kind : Said(b, kind) => Said(d, kind)
  BY DEF Said
<1>5. (d.link => b.link \/ d.wrong) /\ (b.link => d.link) /\ (b.wrong => d.wrong)
  BY <1>2
<1>6. b.out = d.out
  OBVIOUS
<1>7. k = Len(db) /\ Parting(cli, d) => d.in = <<>>
  <2>1. db # <<>>
    OBVIOUS
  <2>2. k = Len(db) /\ (d.out # <<>> \/ Free(cli)) => d.in = <<>>
    BY <2>1, LastMessage
  <2> QED
    BY <2>2 DEF Parting, Told, Answers, Free
<1>8. b.in = d.in \/ b.in = <<>>
  OBVIOUS
<1> HIDE DEF d
<1>9. ASSUME Accounts(cli, d, fresh, losses), k = Len(db) PROVE Accounts(cli, b, fresh, losses)
  <2>1. ~ b.link => b.in = <<>>
    BY <1>5, <1>9, <1>7, <1>8 DEF Accounts
  <2>2. Dead(cli, b) => Dead(cli, d)
    BY <1>3, <1>5, <1>9 DEF Dead, Parting, Accounts
  <2> QED
    BY <1>3, <1>4, <1>5, <1>6, <1>9, <2>1, <2>2 DEF Accounts, Parting, Within
<1> QED
  BY <1>9, SessionBudget DEF d

(* A session that is asked is the last one, and is asked one thing.         *)
LEMMA OneRequest ==
    ASSUME Inv, ~ Overlap, NEW k \in DOMAIN db, db[k].in # <<>>
    PROVE  k = Len(db) /\ Tail(db[k].in) = <<>>
<1> DEFINE i == Len(db[k].in)
           o == Len(db[k].out)
<1>1. db # <<>> /\ SessionsOK(cli, db) /\ db \in Seq(DataBase)
  BY DEF Inv, SessionsOK
<1>2. k = Len(db) /\ db[k] \in DataBase
  BY <1>1 DEF SessionsOK, Silent
<1>3. db[k].in \in Seq(Message) /\ i \in Nat
  BY <1>2 DEF DataBase
<1>4. o = 0
  BY <1>1, <1>2, LastMessage
<1>5. Under(db) = i + o
  BY <1>1, <1>2, Zenon DEF Under, Messages
<1>6. Under(db) <= 1
  BY DEF Inv, Alone
<1> HIDE DEF o
<1>7. i # 0
  BY <1>3
<1> HIDE DEF i
<1>8. i = 1
  BY <1>3, <1>4, <1>5, <1>6, <1>7
<1> QED
  BY <1>2, <1>3, <1>8, OneLeft DEF i

LEMMA TalkBudget ==
    ASSUME Inv, ~ Overlap, Budget, NEW k \in DOMAIN db, db[k].in # <<>>,
           NEW phase \in {"auth_sent", "sent"}, NEW m \in Message, NEW wrong \in BOOLEAN,
           Answer(k, phase, m, wrong), UNCHANGED <<cli, fresh>>,
           wrong <=> m.kind \in {"bye", "fail"},
           m.kind \in {"success", "fail"} => Said(db[k], "connect"),
           m.kind = "fail" => "fail" \in Verdicts,
           m.kind = "bye" => \/ Said(db[k], "disconnect")
                             \/ Said(db[k], "query") /\ cli.table \in Refused
    PROVE  Budget'
<1>1. db # <<>> /\ SessionsOK(cli, db) /\ db \in Seq(DataBase)
  BY DEF Inv, SessionsOK
<1>2. k = Len(db) /\ cli.sock = "up" /\ db[k] \in DataBase
  BY <1>1 DEF SessionsOK, Silent
<1>3. db[k].out = <<>> /\ Tail(db[k].in) = <<>> /\ ~ Free(cli)
  <2>1. db[k].out = <<>> /\ ~ Free(cli)
    BY <1>1, <1>2, LastMessage
  <2>2. Tail(db[k].in) = <<>>
    BY OneRequest
  <2> QED
    BY <2>1, <2>2
<1> DEFINE d == db[k]
           q == Tail(d.in)
           r == Append(d.out, m)
           b == [d EXCEPT !.phase = phase, !.wrong = wrong, !.half = FALSE, !.in = q, !.out = r]
<1>4. db' = Put(db, k, b) /\ UNCHANGED <<cli, fresh, losses>>
  BY DEF Answer, Put
<1>5. r # <<>> /\ Head(r) = m /\ q = <<>>
  BY <1>3
<1> HIDE DEF q, r
<1>6. b.wrong = wrong /\ b.link = d.link /\ b.out = r /\ b.in = q /\ d.out = <<>>
  BY <1>2, <1>3 DEF DataBase
<1> HIDE DEF b, d
<1>7. \A kind : (Told(cli, b, kind) <=> m.kind = kind) /\ ~ Told(cli, d, kind)
  BY <1>3, <1>5, <1>6 DEF Told, Answers, Free
<1>8. ASSUME Accounts(cli, d, fresh, losses) PROVE Accounts(cli, b, fresh, losses)
  <2>1. Dead(cli, b) => Dead(cli, d)
    BY <1>6, <1>7 DEF Dead, Parting
  <2>2. Within(Owed(fresh, cli), losses, Dead(cli, b))
    BY <1>8, <2>1 DEF Accounts, Within
  <2>3. \A kind : ~ Said(b, kind)
    BY <1>5, <1>6 DEF Said
  <2>4. Told(cli, b, "bye") /\ cli.table \notin Refused =>
            cli.queue = <<>> /\ Cardinality(Missing(fresh, cli)) <= losses
    BY <1>7, <1>8 DEF Accounts, d
  <2>5. /\ Told(cli, b, "success") \/ Told(cli, b, "fail") => ~ cli.connet
        /\ Told(cli, b, "bye") => cli.connet
        /\ Told(cli, b, "fail") => "fail" \in Verdicts
    BY <1>7, <1>8 DEF Accounts, d
  <2>6. b.link /\ b.wrong => Parting(cli, b)
    BY <1>6, <1>7 DEF Parting
  <2>7. d.link
    <3>1. d.in # <<>>
      BY DEF d
    <3> QED
      BY <1>8, <3>1 DEF Accounts
  <2>8. ~ (cli.ready # <<>> /\ ~ Head(cli.ready).ok)
    BY <1>8, <2>7 DEF Accounts
  <2> QED
    BY <2>2, <2>3, <2>4, <2>5, <2>6, <2>7, <2>8, <1>6 DEF Accounts
<1> QED
  BY <1>2, <1>4, <1>8, SessionBudget DEF d

LEMMA ReceivePartBudget ==
    ASSUME Inv, ~ Overlap, Budget, NEW k \in DOMAIN db, ReceivePart(k)
    PROVE  Budget'
<1>1. db \in Seq(DataBase) /\ db[k] \in DataBase /\ UNCHANGED <<cli, fresh, losses>>
  BY DEF Inv, SessionsOK, ReceivePart, Unaffected
<1>2. PICK junk \in BOOLEAN :
        db' = [db EXCEPT ![k].half = TRUE, ![k].phase = "auth", ![k].junk = @ \/ junk]
  BY DEF ReceivePart
<1> DEFINE j == db[k].junk \/ junk
           b == [db[k] EXCEPT !.half = TRUE, !.phase = "auth", !.junk = j]
<1>3. db' = Put(db, k, b)
  BY <1>1, <1>2 DEF Put, DataBase
<1>4. j \in BOOLEAN
  BY <1>1 DEF DataBase
<1> HIDE DEF j
<1>5. /\ b \in DataBase /\ b.out = db[k].out /\ b.in = db[k].in
      /\ b.link = db[k].link /\ b.wrong = db[k].wrong
  BY <1>1, <1>4 DEF DataBase
<1> HIDE DEF b
<1> QED
  BY <1>1, <1>3, <1>5, QuietBudget

LEMMA ResAutentificationBudget ==
    ASSUME Inv, ~ Overlap, Budget, NEW k \in DOMAIN db, ResAutentification(k)
    PROVE  Budget'
<1>1. db \in Seq(DataBase) /\ db[k] \in DataBase /\ UNCHANGED <<cli, fresh, losses>>
  BY DEF Inv, SessionsOK, ResAutentification, Unaffected
<1> DEFINE x == db[k].exit \/ db[k].wrong
           l == db[k].link /\ ~ db[k].wrong
           b == [db[k] EXCEPT !.phase = "wait", !.wrong = FALSE, !.exit = x, !.link = l]
<1>2. db' = Put(db, k, b)
  BY <1>1 DEF ResAutentification, DataBase, Put
<1>3. x \in BOOLEAN /\ l \in BOOLEAN /\ l = (db[k].link /\ ~ db[k].wrong)
  BY <1>1 DEF DataBase
<1> HIDE DEF x, l
<1>4. b \in DataBase /\ b.out = db[k].out /\ b.in = db[k].in /\ b.link = l /\ ~ b.wrong
  BY <1>1, <1>3 DEF DataBase
<1> HIDE DEF b
<1>5. b.link = (db[k].link /\ ~ db[k].wrong) /\ ~ b.wrong
  BY <1>3, <1>4
<1> QED
  BY <1>1, <1>2, <1>4, <1>5, QuietBudget

LEMMA SendCommandBudget ==
    ASSUME Inv, ~ Overlap, Budget, NEW k \in DOMAIN db, SendCommand(k)
    PROVE  Budget'
<1>1. db \in Seq(DataBase) /\ db[k] \in DataBase /\ UNCHANGED <<cli, fresh, losses>>
  BY DEF Inv, SessionsOK, SendCommand, Unaffected
<1> DEFINE x == db[k].exit \/ db[k].wrong
           l == db[k].link /\ ~ db[k].wrong
           p == IF db[k].wrong THEN "gone" ELSE "wait"
           b == [db[k] EXCEPT !.phase = p, !.exit = x, !.wrong = FALSE, !.link = l]
<1>2. db' = Put(db, k, b)
  BY <1>1, SendCommandPut
<1>3. /\ x \in BOOLEAN /\ l \in BOOLEAN /\ l = (db[k].link /\ ~ db[k].wrong)
      /\ p \in {"gone", "wait"}
  BY <1>1 DEF DataBase
<1> HIDE DEF x, l, p
<1>4. b \in DataBase /\ b.out = db[k].out /\ b.in = db[k].in /\ b.link = l /\ ~ b.wrong
  BY <1>1, <1>3 DEF DataBase
<1> HIDE DEF b
<1>5. b.link = (db[k].link /\ ~ db[k].wrong) /\ ~ b.wrong
  BY <1>3, <1>4
<1> QED
  BY <1>1, <1>2, <1>4, <1>5, QuietBudget

LEMMA ConnectAnalizeBudget ==
    ASSUME Inv, ~ Overlap, Budget, NEW k \in DOMAIN db, ConnectAnalize(k)
    PROVE  Budget'
<1>1. db \in Seq(DataBase) /\ db[k] \in DataBase /\ UNCHANGED <<cli, fresh>> /\ db[k].in # <<>>
  BY DEF Inv, SessionsOK, ConnectAnalize, Unaffected
<1>2. CASE /\ db' = [db EXCEPT ![k].half = FALSE, ![k].in = Tail(@)]
           /\ UNCHANGED <<serving, pool, losses>>
  <2> DEFINE q == Tail(db[k].in)
             b == [db[k] EXCEPT !.half = FALSE, !.in = q]
  <2>1. db' = Put(db, k, b)
    BY <1>1, <1>2 DEF Put
  <2>2. q = <<>> /\ q \in Seq(Message)
    <3>1. q = <<>>
      BY <1>1, OneRequest
    <3>2. q \in Seq(Message)
      BY <1>1, TailType DEF DataBase
    <3> QED
      BY <3>1, <3>2
  <2> HIDE DEF q
  <2>3. /\ b \in DataBase /\ b.out = db[k].out /\ b.in = <<>>
        /\ b.link = db[k].link /\ b.wrong = db[k].wrong
    BY <1>1, <2>2 DEF DataBase
  <2> HIDE DEF b
  <2> QED
    BY <1>1, <1>2, <2>1, <2>3, QuietBudget
<1>3. ASSUME NEW kind \in {"success", "fail"} \cap Verdicts, NEW wrong \in BOOLEAN,
             wrong <=> kind = "fail", Head(db[k].in).kind = "connect",
             Answer(k, "auth_sent", M(kind), wrong)
      PROVE  Budget'
  <2> DEFINE m == M(kind)
  <2>1. m \in Message /\ m.kind = kind
    BY MType
  <2>2. Answer(k, "auth_sent", m, wrong) /\ Said(db[k], "connect")
    BY <1>1, <1>3 DEF Said
  <2> HIDE DEF m
  <2> QED
    BY <1>1, <1>3, <2>1, <2>2, TalkBudget
<1>4. CASE Crash
  BY <1>1, <1>4, CrashBudget
<1>8. CASE AnswerNothing(k)
  <2> DEFINE q == Tail(db[k].in)
             b == [db[k] EXCEPT !.phase = "auth_sent", !.half = FALSE, !.in = q]
  <2>1. db' = Put(db, k, b) /\ losses' = losses
    BY <1>1, <1>8 DEF AnswerNothing, Put
  <2>2. q = <<>> /\ q \in Seq(Message)
    <3>1. q = <<>>
      BY <1>1, OneRequest
    <3>2. q \in Seq(Message)
      BY <1>1, TailType DEF DataBase
    <3> QED
      BY <3>1, <3>2
  <2> HIDE DEF q
  <2>3. /\ b \in DataBase /\ b.out = db[k].out /\ b.in = <<>>
        /\ b.link = db[k].link /\ b.wrong = db[k].wrong
    BY <1>1, <2>2 DEF DataBase
  <2> HIDE DEF b
  <2> QED
    BY <1>1, <2>1, <2>3, QuietBudget
<1>5. ConnectAnalize(k) =>
        \/ /\ db' = [db EXCEPT ![k].half = FALSE, ![k].in = Tail(@)]
           /\ UNCHANGED <<serving, pool, losses>>
        \/ /\ Head(db[k].in).kind = "connect"
           /\ \/ "success" \in Verdicts /\ Answer(k, "auth_sent", M("success"), FALSE)
              \/ "fail" \in Verdicts /\ Answer(k, "auth_sent", M("fail"), TRUE)
              \/ AnswerNothing(k) \/ Crash
  BY Zenon DEF ConnectAnalize, CheckLogin
<1>6. CASE /\ Head(db[k].in).kind = "connect" /\ "success" \in Verdicts
           /\ Answer(k, "auth_sent", M("success"), FALSE)
  <2>1. "success" \in {"success", "fail"} \cap Verdicts /\ (FALSE <=> "success" = "fail")
    BY <1>6
  <2> QED
    BY <1>3, <1>6, <2>1
<1>7. CASE /\ Head(db[k].in).kind = "connect" /\ "fail" \in Verdicts
           /\ Answer(k, "auth_sent", M("fail"), TRUE)
  <2>1. "fail" \in {"success", "fail"} \cap Verdicts /\ (TRUE <=> "fail" = "fail")
    BY <1>7
  <2> QED
    BY <1>3, <1>7, <2>1
<1> QED
  BY <1>2, <1>4, <1>5, <1>6, <1>7, <1>8

LEMMA WaitCommandBudget ==
    ASSUME Inv, ~ Overlap, Budget, NEW k \in DOMAIN db, WaitCommand(k)
    PROVE  Budget'
<1> DEFINE q == Head(db[k].in)
<1>1. db[k].in # <<>> /\ UNCHANGED <<cli, fresh>>
  BY DEF WaitCommand, Unaffected
<1>2. q \in Message /\ (q.kind = "query" => q.of \in Table /\ q.of = cli.table)
  <2>1. db[k].in \in Seq(Known(cli))
    BY DEF Inv, SessionsOK
  <2>2. q \in Known(cli)
    BY <1>1, <2>1
  <2> HIDE DEF q
  <2>3. q \in Message
    BY <2>2 DEF Known
  <2>4. q.kind = "query" => q.of \in Table
    BY <2>3 DEF Message
  <2> QED
    BY <2>2, <2>3, <2>4, DbLoadAssumption DEF Known
<1>3. ASSUME Answer(k, "sent", M("bye"), TRUE),
             \/ Said(db[k], "disconnect")
             \/ Said(db[k], "query") /\ cli.table \in Refused
      PROVE  Budget'
  <2> DEFINE m == M("bye")
  <2>1. m \in Message /\ m.kind = "bye" /\ Answer(k, "sent", m, TRUE)
    BY <1>3, MType
  <2> HIDE DEF m
  <2> QED
    BY <1>1, <1>3, <2>1, TalkBudget
<1>4. ASSUME NEW t \in Table, Answer(k, "sent", [kind |-> "rows", of |-> t], FALSE)
      PROVE  Budget'
  <2> DEFINE m == [kind |-> "rows", of |-> t]
  <2>1. m \in Message /\ m.kind = "rows" /\ Answer(k, "sent", m, FALSE)
    BY <1>4 DEF Message
  <2> HIDE DEF m
  <2> QED
    BY <1>1, <2>1, TalkBudget
<1>5. CASE Crash
  BY <1>1, <1>5, CrashBudget
<1>6. CASE q.kind = "query" /\ MakeQuery(k, q.of)
  <2>1. CASE Answer(k, "sent", [kind |-> "rows", of |-> q.of], FALSE)
    BY <1>2, <1>4, <1>6, <2>1
  <2>2. CASE q.of \in Refused /\ Answer(k, "sent", M("bye"), TRUE)
    BY <1>1, <1>2, <1>3, <1>6, <2>2 DEF Said
  <2> QED
    BY <1>5, <1>6, <2>1, <2>2 DEF MakeQuery
<1>7. CASE q.kind = "disconnect" /\ Answer(k, "sent", M("bye"), TRUE)
  BY <1>1, <1>3, <1>7 DEF Said
<1> QED
  BY <1>6, <1>7 DEF WaitCommand

LEMMA SweepBudget == ASSUME Inv, Budget, Sweep PROVE Budget'
<1>1. CASE Crash
  BY <1>1, CrashBudget DEF Sweep, Unaffected
<1>2. CASE UNCHANGED <<cli, db, fresh, losses>>
  BY <1>2 DEF Budget, Stuck
<1> QED
  BY <1>1, <1>2 DEF Sweep, Unaffected

LEMMA InitBudget == ASSUME Init PROVE Budget
<1>1. /\ cli.sock = "closed" /\ cli.ready = <<>> /\ cli.parser = 0 /\ Len(db) = 0
  BY DEF Init
<1>2. InStep(cli, Len(db)) /\ Books(cli, db, fresh, losses)
  BY <1>1 DEF InStep, Books
<1> QED
  BY <1>2 DEF Budget

LEMMA NextBudget == ASSUME Inv, ~ Overlap, Budget, [Next]_vars PROVE Budget'
<1>1. CASE UNCHANGED vars
  BY <1>1 DEF vars, Budget, Stuck
<1>2. CASE RunHandler
  BY <1>2, OnErrorBudget, OnConnectBudget, OnSendBudget, OnReceivePartBudget, OnReceiveBudget
     DEF RunHandler
<1>3. CASE \E k \in DOMAIN db : RunSession(k)
  BY <1>3, ReceivePartBudget, ConnectAnalizeBudget, ResAutentificationBudget, WaitCommandBudget,
     SendCommandBudget DEF RunSession
<1>4. CASE Restart
  BY <1>4 DEF Restart, Budget, Stuck
<1> QED
  BY <1>1, <1>2, <1>3, <1>4, ConnectToDBBudget, ConnectedBudget, ConnectRefusedBudget,
     DeliverBudget, DeliverEndBudget, LoseBudget, SweepBudget DEF Next

-----------------------------------------------------------------------------
(* The callback is called when the farewell is read, and only then.         *)
LEMMA NotDone ==
    ASSUME NEW c, CheckConnect(c), ~ c.disconnect
    PROVE  done' = done
BY DEF CheckConnect, QueryGenerator

LEMMA ReceiveDone ==
    ASSUME Inv, ~ Overlap, Budget, OnReceive, done' # done
    PROVE  Cardinality(Table \ fresh') <= losses' \/ cli.table \in Refused
<1> DEFINE b == db[Len(db)]
           c == [Rest EXCEPT !.parser = 0]
           s == [c EXCEPT !.connet = TRUE, !.disconnect = FALSE]
           g == [c EXCEPT !.disconnect = TRUE]
<1>1. /\ Accounts(cli, b, fresh, losses) /\ losses' = losses
      /\ \A kind : Told(cli, b, kind) <=> This.msg.kind = kind
      /\ c \in Client /\ ~ c.disconnect /\ c.connet = cli.connet
  BY AnswerBudget
<1>2. CASE This.msg.kind = "bye"
  <2>1. fresh' = fresh
    BY <1>2 DEF OnReceive
  <2>2. CASE cli.table \notin Refused
    <3>1. cli.queue = <<>> /\ Cardinality(Missing(fresh, cli)) <= losses
      BY <1>1, <1>2, <2>2 DEF Accounts
    <3>2. Missing(fresh, cli) = Table \ fresh
      BY <3>1 DEF Missing, Range
    <3> QED
      BY <1>1, <2>1, <3>1, <3>2
  <2> QED
    BY <2>2
<1>3. CASE This.msg.kind = "fail"
  <2>1. CheckConnect(g)
    BY <1>3 DEF OnReceive
  <2>2. ~ cli.connet
    BY <1>1, <1>3 DEF Accounts
  <2>3. ~ g.connet
    BY <1>1, <2>2 DEF Client
  <2> HIDE DEF g
  <2>4. done' = done
    BY <2>1, <2>3 DEF CheckConnect
  <2> QED
    BY <2>4
<1>4. CASE This.msg.kind = "success"
  <2>1. CheckConnect(s) /\ ~ s.disconnect
    BY <1>1, <1>4 DEF OnReceive, Client
  <2> HIDE DEF s
  <2> QED
    BY <2>1, NotDone
<1>5. CASE This.msg.kind = "rows"
  <2>1. CheckConnect(c)
    BY <1>5 DEF OnReceive
  <2> HIDE DEF c
  <2> QED
    BY <1>1, <2>1, NotDone
<1> QED
  BY <1>2, <1>3, <1>4, <1>5 DEF OnReceive

LEMMA NextDone ==
    ASSUME Inv, ~ Overlap, Budget, [Next]_vars, done' # done
    PROVE  Cardinality(Table \ fresh') <= losses' \/ cli.table \in Refused
<1>1. ~ UNCHANGED vars
  BY DEF vars
<1>2. CASE RunHandler
  <2>1. ~ OnConnect
    <3>1. SUFFICES ASSUME OnConnect PROVE FALSE
      OBVIOUS
    <3>2. cli.ready # <<>> /\ This.ok /\ CheckConnect(Rest)
      BY <3>1 DEF OnConnect, Due
    <3>3. ~ Rest.disconnect
      BY <3>2, HandlerBudget
    <3> QED
      BY <3>2, <3>3, NotDone
  <2>2. ~ OnError /\ ~ OnSend /\ ~ OnReceivePart
    BY DEF OnError, OnSend, OnReceivePart
  <2> QED
    BY <1>2, <2>1, <2>2, ReceiveDone DEF RunHandler
<1>3. ~ \E k \in DOMAIN db : RunSession(k)
  BY DEF RunSession, ReceivePart, ConnectAnalize, ResAutentification, WaitCommand, SendCommand,
     Unaffected
<1>4. ~ Sweep
  BY DEF Sweep, Unaffected
<1> QED
  BY <1>1, <1>2, <1>3, <1>4
     DEF Next, ConnectToDB, Connected, ConnectRefused, Deliver, DeliverEnd, Lose, Restart

(* Inv and Budget together are kept by every step, as long as no refresh    *)
(* disturbs a load.                                                         *)
THEOREM BudgetInvariance == ~ Overlap => (Spec => [](Inv /\ Budget))
<1>1. SUFFICES ASSUME ~ Overlap PROVE Spec => [](Inv /\ Budget)
  OBVIOUS
<1>2. Init => Inv /\ Budget
  BY InitInv, InitBudget
<1>3. Inv /\ Budget /\ [Next]_vars => (Inv /\ Budget)'
  BY <1>1, NextInv, NextBudget
<1> QED
  BY <1>2, <1>3, PTL DEF Spec

(* When the callback is given the data, for any tables and any number of    *)
(* losses, crashes and cut messages, no more tables are missing than        *)
(* connections were lost, unless SQLite has refused the last query.         *)
THEOREM LossCostsATable == ~ Overlap => (Spec => LossCostsOneTable)
<1>1. SUFFICES ASSUME ~ Overlap PROVE Spec => LossCostsOneTable
  OBVIOUS
<1>2. Inv /\ Budget /\ [Next]_vars
        => [done' # done => \/ Cardinality(Table \ fresh') <= losses'
                            \/ cli.table \in Refused]_vars
  BY <1>1, NextDone
<1>3. Spec => [](Inv /\ Budget)
  BY <1>1, BudgetInvariance
<1> QED
  BY <1>2, <1>3, PTL DEF Spec, LossCostsOneTable

-----------------------------------------------------------------------------
(* Loader: what a step leaves of the load that is under way. *)
Rested(c) == c.ready = <<>> /\ ~ c.conn /\ c.recv = 0

LEMMA PostsOn ==
    ASSUME NEW c \in Client, NEW h, cli' = Post(c, h)
    PROVE  ~ Rested(cli') /\ cli'.queue = c.queue /\ cli'.table = c.table
<1> DEFINE q == Append(c.ready, h)
<1>1. q # <<>> /\ cli' = [c EXCEPT !.ready = q]
  BY DEF Post, Client
<1> HIDE DEF q
<1> QED
  BY <1>1 DEF Rested, Client

LEMMA SendsOn ==
    ASSUME NEW c \in Client, NEW m, Send(c, m)
    PROVE  ~ Rested(cli') /\ cli'.queue = c.queue /\ cli'.table = c.table
<1>1. PICK ok : cli' = Post(c, Done("send", ok))
  BY DEF Send
<1> DEFINE h == Done("send", ok)
<1>2. cli' = Post(c, h)
  BY <1>1
<1> HIDE DEF h
<1> QED
  BY <1>2, PostsOn

LEMMA ReadsOn ==
    ASSUME NEW c \in Client, cli' = AsyncReceive(c)
    PROVE  ~ Rested(cli') /\ cli'.queue = c.queue /\ cli'.table = c.table
<1>1. CASE c.sock = "up"
  <2> DEFINE n == c.recv + 1
  <2>1. n # 0 /\ cli' = [c EXCEPT !.recv = n]
    BY <1>1 DEF AsyncReceive, Client
  <2> HIDE DEF n
  <2> QED
    BY <2>1 DEF Rested, Client
<1>2. CASE c.sock # "up"
  BY <1>2, PostsOn DEF AsyncReceive
<1> QED
  BY <1>1, <1>2

LEMMA StartsOn ==
    ASSUME NEW c \in Client, cli' = Start(c)
    PROVE  ~ Rested(cli') /\ cli'.queue = c.queue /\ cli'.table = c.table
<1> DEFINE d == [c EXCEPT !.connet = FALSE, !.disconnect = FALSE]
           h == Done("connect", FALSE)
<1>1. d \in Client /\ d.queue = c.queue /\ d.table = c.table
  BY DEF Client
<1>2. cli' = IF d.sock = "closed" THEN [d EXCEPT !.sock = "connecting", !.conn = TRUE]
                                  ELSE Post(d, h)
  BY DEF Start
<1> HIDE DEF d, h
<1>3. CASE d.sock = "closed"
  BY <1>1, <1>2, <1>3 DEF Rested, Client
<1>4. CASE d.sock # "closed"
  BY <1>1, <1>2, <1>4, PostsOn
<1> QED
  BY <1>3, <1>4

LEMMA StopsThere ==
    ASSUME NEW c, ClientOK(c), Count(c) = 0, cli' = Stop(c)
    PROVE  Rested(cli') /\ cli'.queue = c.queue /\ cli'.table = c.table
<1>1. /\ ClientOK(cli') /\ Count(cli') = 0 /\ ~ cli'.conn /\ cli'.recv = 0
      /\ cli'.queue = c.queue /\ cli'.table = c.table
  BY StopType
<1> QED
  BY <1>1, CountZero DEF Rested

(* A handler that has not been told goodbye goes on, perhaps with the next  *)
(* table.                                                                   *)
LEMMA TurnsOn ==
    ASSUME NEW c \in Client, CheckConnect(c), ~ c.disconnect
    PROVE  /\ ~ Rested(cli') /\ done' = done
           /\ \/ cli'.queue = c.queue /\ cli'.table = c.table
              \/ /\ c.connet /\ c.queue # <<>>
                 /\ cli'.table = Head(c.queue) /\ cli'.queue = Tail(c.queue)
<1>1. done' = done
  BY NotDone
<1>2. CASE c.connet /\ c.queue # <<>>
  <2> DEFINE x == Head(c.queue)
             y == Tail(c.queue)
             e == [c EXCEPT !.table = x, !.queue = y]
             m == [kind |-> "query", of |-> x]
  <2>1. Send(e, m)
    BY <1>2 DEF CheckConnect, QueryGenerator
  <2>2. x \in Table /\ y \in Seq(Table)
    BY <1>2 DEF Client
  <2> HIDE DEF x, y, m
  <2>3. e \in Client /\ e.table = x /\ e.queue = y
    BY <2>2 DEF Client
  <2> HIDE DEF e
  <2> QED
    BY <1>1, <1>2, <2>1, <2>3, SendsOn DEF x, y
<1>3. CASE ~ c.connet \/ c.queue = <<>>
  <2>1. PICK kind : Send(c, M(kind))
    BY <1>3 DEF CheckConnect, QueryGenerator
  <2> DEFINE m == M(kind)
  <2>2. Send(c, m)
    BY <2>1
  <2> HIDE DEF m
  <2> QED
    BY <1>1, <2>2, SendsOn
<1> QED
  BY <1>2, <1>3

LEMMA StillLoading ==
    ASSUME ~ Rested(cli), ~ Rested(cli'), cli'.queue = cli.queue, cli'.table = cli.table,
           UNCHANGED <<resp, fresh, losses, done>>
    PROVE  UNCHANGED Load!vars
BY DEF Load!vars, Idle, Rested

(* The operators that Loader brings along are those of this module.         *)
LEMMA SameTables == Load!Range(Tables) = Table
BY DEF Load!Range, Range, Table

LEMMA SameSize == \A S : Load!Cardinality(S) = Cardinality(S)
BY DEF Load!Cardinality, Cardinality

LEMMA InitLoad == ASSUME Init PROVE Load!Init
<1>1. cli.ready = <<>> /\ ~ cli.conn /\ cli.recv = 0 /\ cli.queue = <<>> /\ cli.table = NoTable
  BY DEF Init
<1>2. Idle /\ resp = [t \in Table |-> NoTable] /\ fresh = {} /\ losses = 0 /\ done = 0
  BY <1>1 DEF Init, Idle
<1>3. (~ Idle) = FALSE
  BY <1>2
<1> QED
  BY <1>1, <1>2, <1>3, SameTables DEF Load!Init

LEMMA BeginLoad == ASSUME Inv, ~ Overlap, ConnectToDB PROVE Load!Begin
<1> DEFINE c == [cli EXCEPT !.queue = Tables]
<1>1. /\ Rested(cli) /\ cli' = Start(c) /\ fresh' = {} /\ losses' = 0
      /\ UNCHANGED <<resp, done>>
  BY DEF ConnectToDB, Idle, Rested
<1>2. cli \in Client /\ Tables \in Seq(Table)
  BY DbLoadAssumption DEF Inv, ClientOK
<1>3. c \in Client /\ c.queue = Tables /\ c.table = cli.table
  BY <1>2 DEF Client
<1> HIDE DEF c
<1>4. ~ Rested(cli') /\ cli'.queue = Tables /\ cli'.table = cli.table
  BY <1>1, <1>3, StartsOn
<1> QED
  BY <1>1, <1>4 DEF Load!Begin, Idle, Rested

LEMMA OnErrorLoad == ASSUME Inv, ~ Overlap, Budget, OnError PROVE UNCHANGED Load!vars
<1> DEFINE c == Stop(Rest)
<1>1. cli.ready # <<>> /\ cli' = Start(c) /\ UNCHANGED <<resp, fresh, losses, done>>
  BY DEF OnError
<1>2. ClientOK(Rest) /\ Rest.queue = cli.queue /\ Rest.table = cli.table
  BY <1>1, HandlerBudget
<1>3. c \in Client /\ c.queue = cli.queue /\ c.table = cli.table
  BY <1>2, StopType DEF ClientOK
<1> HIDE DEF c
<1>4. ~ Rested(cli') /\ cli'.queue = cli.queue /\ cli'.table = cli.table
  BY <1>1, <1>3, StartsOn
<1> QED
  BY <1>1, <1>4, StillLoading DEF Rested

LEMMA OnConnectLoad == ASSUME Inv, ~ Overlap, Budget, OnConnect PROVE UNCHANGED Load!vars
<1>1. /\ cli.ready # <<>> /\ This.ok /\ This.op = "connect" /\ CheckConnect(Rest)
      /\ UNCHANGED <<resp, fresh, losses>>
  BY DEF OnConnect, Due, This
<1>2. /\ Rest \in Client /\ Rest.queue = cli.queue /\ Rest.table = cli.table
      /\ ~ Rest.disconnect /\ Rest.connet = cli.connet
  BY <1>1, HandlerBudget
<1>3. ~ Rest.connet
  BY <1>1, <1>2 DEF Budget, InStep, This
<1>4. /\ ~ Rested(cli') /\ done' = done
      /\ cli'.queue = cli.queue /\ cli'.table = cli.table
  BY <1>1, <1>2, <1>3, TurnsOn
<1> QED
  BY <1>1, <1>4, StillLoading DEF Rested

LEMMA OnSendLoad == ASSUME Inv, ~ Overlap, Budget, OnSend PROVE UNCHANGED Load!vars
<1>1. cli.ready # <<>> /\ cli' = AsyncReceive(Rest) /\ UNCHANGED <<resp, fresh, losses, done>>
  BY DEF OnSend, Due
<1>2. Rest \in Client /\ Rest.queue = cli.queue /\ Rest.table = cli.table
  BY <1>1, HandlerBudget
<1>3. ~ Rested(cli') /\ cli'.queue = cli.queue /\ cli'.table = cli.table
  BY <1>1, <1>2, ReadsOn
<1> QED
  BY <1>1, <1>3, StillLoading DEF Rested

LEMMA OnReceivePartLoad == ASSUME Inv, ~ Overlap, Budget, OnReceivePart PROVE UNCHANGED Load!vars
<1> DEFINE p == IF Rest.parser = 0 THEN This.conn ELSE Rest.parser
           c == [Rest EXCEPT !.parser = p]
<1>1. cli.ready # <<>> /\ cli' = AsyncReceive(c) /\ UNCHANGED <<resp, fresh, losses, done>>
  BY DEF OnReceivePart, Due
<1>2. Rest \in Client /\ Rest.queue = cli.queue /\ Rest.table = cli.table /\ This \in Handler
  BY <1>1, HandlerBudget
<1>3. p \in Nat
  BY <1>2 DEF Client, Handler
<1> HIDE DEF p
<1>4. c \in Client /\ c.queue = cli.queue /\ c.table = cli.table
  BY <1>2, <1>3 DEF Client
<1> HIDE DEF c
<1>5. ~ Rested(cli') /\ cli'.queue = cli.queue /\ cli'.table = cli.table
  BY <1>1, <1>4, ReadsOn
<1> QED
  BY <1>1, <1>5, StillLoading DEF Rested

(* A farewell is reported, a refused login ends the load.                   *)
LEMMA EndLoad ==
    ASSUME Inv, ~ Overlap, Budget, OnReceive, This.msg.kind \in {"fail", "bye"}
    PROVE  Load!Report \/ Load!GiveUp
<1> DEFINE b == db[Len(db)]
           c == [Rest EXCEPT !.parser = 0]
           g == [c EXCEPT !.disconnect = TRUE]
<1>1. /\ Accounts(cli, b, fresh, losses) /\ losses' = losses /\ cli.ready # <<>>
      /\ \A kind : Told(cli, b, kind) <=> This.msg.kind = kind
      /\ c \in Client /\ c.connet = cli.connet /\ c.queue = cli.queue /\ c.table = cli.table
      /\ Rest.connet = cli.connet /\ Rest \in Client
      /\ ClientOK(Rest) /\ Count(Rest) = 0 /\ SessionsOK(Rest, db)
  BY AnswerBudget
<1>2. CheckConnect(g) /\ UNCHANGED <<resp, fresh>>
  BY DEF OnReceive
<1>3. /\ g = [Rest EXCEPT !.parser = 0, !.connet = Rest.connet, !.disconnect = TRUE]
      /\ g.disconnect /\ Rest.connet \in BOOLEAN /\ g.connet = cli.connet
      /\ g.queue = cli.queue /\ g.table = cli.table
  BY <1>1 DEF Client
<1> HIDE DEF c, g
<1>4. ClientOK(g) /\ Count(g) = 0
  <2>1. PICK x \in BOOLEAN, y \in BOOLEAN : x = Rest.connet /\ y = TRUE
    BY <1>3
  <2>2. g = [Rest EXCEPT !.parser = 0, !.connet = x, !.disconnect = y]
    BY <1>3, <2>1
  <2>3. ClientOK(Rest) /\ SessionsOK(Rest, db) /\ Count(Rest) = 0
    BY <1>1
  <2>4. ClientOK(g) /\ Count(g) = Count(Rest)
    BY <2>1, <2>2, <2>3, FlagsType
  <2> QED
    BY <2>3, <2>4
<1>5. /\ cli' = Stop(g)
      /\ done' = IF cli.connet THEN done + 1 ELSE done
  BY <1>2, <1>3 DEF CheckConnect, QueryGenerator
<1>6. Rested(cli') /\ cli'.queue = cli.queue /\ cli'.table = cli.table
  BY <1>3, <1>4, <1>5, StopsThere
<1>7. ~ Idle /\ Idle'
  BY <1>1, <1>6 DEF Idle, Rested
<1>8. CASE This.msg.kind = "bye"
  <2>1. cli.connet
    BY <1>1, <1>8 DEF Accounts
  <2>2. \/ cli.table \in Refused
        \/ cli.queue = <<>> /\ Cardinality(Table \ fresh) <= losses
    <3>1. CASE cli.table \notin Refused
      <4>1. cli.queue = <<>> /\ Cardinality(Missing(fresh, cli)) <= losses
        BY <1>1, <1>8, <3>1 DEF Accounts
      <4>2. Missing(fresh, cli) = Table \ fresh
        BY <4>1 DEF Missing, Range
      <4> QED
        BY <4>1, <4>2
    <3> QED
      BY <3>1
  <2> QED
    <3>1. done' = done + 1 /\ UNCHANGED <<cli.queue, cli.table, resp, fresh, losses>>
      BY <1>1, <1>2, <1>5, <1>6, <2>1
    <3>2. (~ Idle') = FALSE
      BY <1>7
    <3>3. \/ cli.queue = <<>> /\ Load!Cardinality(Load!Range(Tables) \ fresh) <= losses
          \/ cli.table \in Refused
      BY <2>2, SameTables, SameSize
    <3>4. Load!Report
      BY <1>7, <3>1, <3>2, <3>3 DEF Load!Report
    <3> QED
      BY <3>4
<1>9. CASE This.msg.kind = "fail"
  <2>1. ~ cli.connet /\ "fail" \in Verdicts
    BY <1>1, <1>9 DEF Accounts
  <2> QED
    BY <1>1, <1>2, <1>5, <1>6, <1>7, <2>1 DEF Load!GiveUp
<1> QED
  BY <1>8, <1>9

LEMMA OnReceiveLoad ==
    ASSUME Inv, ~ Overlap, Budget, OnReceive
    PROVE  [Load!Next]_(Load!vars)
<1> DEFINE c == [Rest EXCEPT !.parser = 0]
           s == [c EXCEPT !.connet = TRUE, !.disconnect = FALSE]
<1>1. /\ losses' = losses /\ cli.ready # <<>>
      /\ c \in Client /\ ~ c.disconnect /\ c.queue = cli.queue /\ c.table = cli.table
      /\ This.msg.kind = "rows" => This.msg.of = cli.table /\ cli.table \in Table
  BY AnswerBudget
<1>2. ~ Idle /\ ~ Rested(cli)
  BY <1>1 DEF Idle, Rested
<1>3. CASE This.msg.kind = "success"
  <2>1. CheckConnect(s) /\ UNCHANGED <<resp, fresh>>
    BY <1>3 DEF OnReceive
  <2>2. s \in Client /\ ~ s.disconnect /\ s.queue = cli.queue /\ s.table = cli.table
    BY <1>1 DEF Client
  <2> HIDE DEF s
  <2>3. /\ ~ Rested(cli') /\ done' = done
        /\ \/ cli'.queue = cli.queue /\ cli'.table = cli.table
           \/ /\ cli.queue # <<>>
              /\ cli'.table = Head(cli.queue) /\ cli'.queue = Tail(cli.queue)
    BY <2>1, <2>2, TurnsOn
  <2>4. ~ Idle'
    BY <2>3 DEF Idle, Rested
  <2>5. CASE cli'.queue = cli.queue /\ cli'.table = cli.table
    BY <1>1, <1>2, <2>1, <2>3, <2>5, StillLoading
  <2>6. CASE cli.queue # <<>> /\ cli'.table = Head(cli.queue) /\ cli'.queue = Tail(cli.queue)
    <3>1. Load!Ask
      BY <1>1, <1>2, <2>1, <2>3, <2>4, <2>6 DEF Load!Ask, Load!Turn
    <3> QED
      BY <3>1 DEF Load!Next
  <2> QED
    BY <2>3, <2>5, <2>6
<1>4. CASE This.msg.kind = "rows"
  <2>1. Fields[c.table] \subseteq Fields[This.msg.of]
    BY <1>1, <1>4
  <2>2. /\ CheckConnect(c) /\ resp' = [resp EXCEPT ![c.table] = This.msg.of]
        /\ fresh' = fresh \cup {c.table}
    BY <1>4, <2>1 DEF OnReceive
  <2> HIDE DEF c
  <2>3. /\ ~ Rested(cli') /\ done' = done
        /\ \/ cli'.queue = cli.queue /\ cli'.table = cli.table
           \/ /\ cli.queue # <<>>
              /\ cli'.table = Head(cli.queue) /\ cli'.queue = Tail(cli.queue)
    BY <1>1, <2>2, TurnsOn
  <2>4. ~ Idle'
    BY <2>3 DEF Idle, Rested
  <2>5. /\ cli.table # NoTable /\ resp' = [resp EXCEPT ![cli.table] = cli.table]
        /\ fresh' = fresh \cup {cli.table}
    BY <1>1, <1>4, <2>2, DbLoadAssumption
  <2>6. Load!Store
    BY <1>1, <1>2, <2>3, <2>4, <2>5 DEF Load!Store, Load!Turn
  <2> QED
    BY <2>6 DEF Load!Next
<1>5. CASE This.msg.kind \in {"fail", "bye"}
  BY <1>5, EndLoad DEF Load!Next
<1> QED
  BY <1>3, <1>4, <1>5 DEF OnReceive

LEMMA NetworkLoad ==
    ASSUME Inv, Connected \/ ConnectRefused \/ Deliver \/ DeliverEnd
    PROVE  UNCHANGED Load!vars
<1>1. cli \in Client /\ cli.recv \in Nat
  BY DEF Inv, ClientOK, Client
<1>2. ~ Rested(cli) /\ UNCHANGED <<resp, fresh, losses, done>>
  <2>1. CASE Connected
    BY <2>1 DEF Rested, Connected
  <2>2. CASE ConnectRefused
    BY <2>2 DEF Rested, ConnectRefused
  <2>3. CASE Deliver
    BY <2>3 DEF Rested, Deliver
  <2>4. CASE DeliverEnd
    BY <2>4 DEF Rested, DeliverEnd
  <2> QED
    BY <2>1, <2>2, <2>3, <2>4
<1>3. PICK c, h : /\ cli' = Post(c, h)
                  /\ \/ c = [cli EXCEPT !.conn = FALSE, !.sock = "up"]
                     \/ c = [cli EXCEPT !.conn = FALSE]
                     \/ cli.recv > 0 /\ c = [cli EXCEPT !.recv = @ - 1]
  BY DEF Connected, ConnectRefused, Deliver, DeliverEnd
<1>4. c \in Client /\ c.queue = cli.queue /\ c.table = cli.table
  <2>1. CASE c = [cli EXCEPT !.conn = FALSE, !.sock = "up"] \/ c = [cli EXCEPT !.conn = FALSE]
    BY <1>1, <2>1 DEF Client
  <2>2. CASE cli.recv > 0 /\ c = [cli EXCEPT !.recv = @ - 1]
    <3> DEFINE n == cli.recv - 1
    <3>1. n \in Nat /\ c = [cli EXCEPT !.recv = n]
      BY <1>1, <2>2 DEF Client
    <3> HIDE DEF n
    <3> QED
      BY <1>1, <3>1 DEF Client
  <2> QED
    BY <1>3, <2>1, <2>2
<1>5. ~ Rested(cli') /\ cli'.queue = cli.queue /\ cli'.table = cli.table
  BY <1>3, <1>4, PostsOn
<1> QED
  BY <1>2, <1>5, StillLoading

(* Whatever the sessions do, the load knows of connections lost only.       *)
LEMMA SessionLoad ==
    ASSUME UNCHANGED <<cli, resp, fresh, done>>, losses' = losses \/ losses' = losses + 1
    PROVE  [Load!Next]_(Load!vars)
<1>1. Idle' = Idle
  BY DEF Idle
<1>2. CASE losses' = losses
  BY <1>1, <1>2 DEF Load!vars
<1>3. CASE losses' = losses + 1
  <2>1. Load!Lose
    BY <1>1, <1>3 DEF Load!Lose
  <2> QED
    BY <2>1 DEF Load!Next
<1> QED
  BY <1>2, <1>3

LEMMA NextLoad ==
    ASSUME Inv, ~ Overlap, Budget, [Next]_vars
    PROVE  [Load!Next]_(Load!vars)
<1>1. CASE UNCHANGED vars
  BY <1>1, SessionLoad DEF vars
<1>2. CASE RunHandler
  BY <1>2, OnErrorLoad, OnConnectLoad, OnSendLoad, OnReceivePartLoad, OnReceiveLoad DEF RunHandler
<1>3. CASE ConnectToDB
  BY <1>3, BeginLoad DEF Load!Next
<1>4. CASE Connected \/ ConnectRefused \/ Deliver \/ DeliverEnd
  BY <1>4, NetworkLoad
<1>5. CASE Lose \/ Restart
  BY <1>5, SessionLoad DEF Lose, Restart
<1>6. CASE Sweep
  BY <1>6, SessionLoad DEF Sweep, Crash, Unaffected
<1>7. CASE \E k \in DOMAIN db : RunSession(k)
  <2>1. PICK k \in DOMAIN db : RunSession(k)
    BY <1>7
  <2>2. Unaffected /\ (losses' = losses \/ losses' = losses + 1)
    <3>1. CASE ReceivePart(k) \/ ResAutentification(k) \/ SendCommand(k)
      BY <3>1 DEF ReceivePart, ResAutentification, SendCommand
    <3>2. CASE ConnectAnalize(k)
      BY <3>2 DEF ConnectAnalize, CheckLogin, Answer, AnswerNothing, Crash
    <3>3. CASE WaitCommand(k)
      BY <3>3 DEF WaitCommand, MakeQuery, Answer, Crash
    <3> QED
      BY <2>1, <3>1, <3>2, <3>3 DEF RunSession
  <2> QED
    BY <2>2, SessionLoad DEF Unaffected
<1> QED
  BY <1>1, <1>2, <1>3, <1>4, <1>5, <1>6, <1>7 DEF Next

(* As long as loads do not overlap, ClientDB and the sessions it talks to   *)
(* implement Loader, for any tables and answers and whatever is lost.       *)
THEOREM LoaderRefined == ~ Overlap => (Spec => ImplementsLoader)
<1>1. SUFFICES ASSUME ~ Overlap PROVE Spec => ImplementsLoader
  OBVIOUS
<1>2. Init => Load!Init
  BY InitLoad
<1>3. Inv /\ Budget /\ [Next]_vars => [Load!Next]_(Load!vars)
  BY <1>1, NextLoad
<1>4. Spec => [](Inv /\ Budget)
  BY <1>1, BudgetInvariance
<1> QED
  BY <1>2, <1>3, <1>4, PTL DEF Spec, ImplementsLoader, Load!Spec
=============================================================================
