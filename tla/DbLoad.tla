------------------------------- MODULE DbLoad -------------------------------
(***************************************************************************)
(* The load of the tables: ClientDB (lib/GlobalModules/ClientDB) in the    *)
(* MarusiaWorker process, and the DataBase sessions of SQLiteWebWrapper     *)
(* (Modules/Server/DataBaseServer.cpp) it talks to, one per connection.     *)
(*                                                                         *)
(* The client's completed operations wait in `ready` until the io_context   *)
(* runs their handlers.  A DataBase session has one operation at a time:    *)
(* its completion and its handler are one step.  Writes are whole; what is  *)
(* read may be cut anywhere.  What is in flight is lost with a connection,  *)
(* unless the session closes it itself.                                     *)
(***************************************************************************)
EXTENDS Naturals, Sequences, FiniteSets, SequencesExt

CONSTANTS Tables,     \* __queue_tables, in order: a sequence of names
          NoTable,
          Fields,       \* table -> the names of its fields
          Refused,    \* tables whose query SQLite refuses
          Empty,      \* tables without a row
          Verdicts,   \* outcomes of DataBase::__checkConnect
          Splits,     \* what may arrive in parts: "request", "answer"
          Overlap,    \* whether the refresh may find a load that still runs
          MaxLosses, MaxLoads, MaxConns   \* bounds of the instance

Table == Range(Tables)

ASSUME DbLoadAssumption ==
    /\ Tables \in Seq(Table) /\ NoTable \notin Table /\ DOMAIN Fields = Table
    /\ Refused \subseteq Table /\ Empty \subseteq Table
    /\ Verdicts \subseteq {"success", "fail", "none", "crash"}
    /\ Splits \subseteq {"request", "answer"}
    /\ Overlap \in BOOLEAN
    /\ {MaxLosses, MaxLoads, MaxConns} \subseteq Nat

VARIABLES cli,      \* the ClientDB object and its socket
          resp,     \* __resp_data: table -> whose rows are kept for it
          db,       \* the DataBase sessions, one for each connection
          serving,  \* the SQLiteWebWrapper process runs
          pool,     \* Server::__sessions, by their place in db
          loads,    \* history: loads begun
          fresh,    \* history: tables stored since the last load began
          losses,   \* history: connections lost since the last load began
          done      \* history: calls of the worker's callback

vars == <<cli, resp, db, serving, pool, loads, fresh, losses, done>>

(* What is sent: a request or an answer, of a table when it is a query's.  *)
Message == [kind : {"connect", "disconnect", "success", "fail", "bye"}, of : {NoTable}]
               \cup [kind : {"query", "rows"}, of : Table]
M(kind) == [kind |-> kind, of |-> NoTable]

(* part: a receive that ends inside an answer.  conn: its connection. *)
Handler == [op : {"connect", "send", "recv"}, ok : BOOLEAN, part : BOOLEAN,
            conn : Nat, msg : Message]
Done(op, ok) == [op |-> op, ok |-> ok, part |-> FALSE, conn |-> 0, msg |-> M("bye")]
Received(part, m) == [op |-> "recv", ok |-> TRUE, part |-> part, conn |-> Len(db), msg |-> m]

Client ==
    [ sock       : {"closed", "connecting", "up"},  \* *__socket
      connet     : BOOLEAN,                 \* __flag_connet
      disconnect : BOOLEAN,                 \* __flag_disconnect
      queue      : Seq(Table),              \* __queue_tables
      table      : Table \cup {NoTable},    \* __table_name_send
      parser     : Nat,           \* connection whose answer is begun, or 0
      conn       : BOOLEAN,       \* a connect is pending
      recv       : Nat,           \* receives that are pending
      ready      : Seq(Handler) ]

DataBase ==
    [ phase : {"auth", "auth_sent", "wait", "sent", "gone"},  \* its operation
      link  : BOOLEAN,            \* the connection stands
      half  : BOOLEAN,            \* part of Head(in) is in the parser
      junk  : BOOLEAN,            \* the parser has failed
      wrong : BOOLEAN,            \* __flag_wrong_connect
      exit  : BOOLEAN,            \* __flag_exit: DataBase::stop was called
      in    : Seq(Message), out : Seq(Message) ]

-----------------------------------------------------------------------------
(* The client's socket. *)

Post(c, h) == [c EXCEPT !.ready = Append(@, h)]

(* Mutant of Stop: only one receive is taken to be pending. *)
StopOneRead(c) == [c EXCEPT !.sock = "closed", !.conn = FALSE, !.recv = @ - 1,
                            !.ready = Append(@, Done("recv", FALSE))]

(* Closing fails what is pending; a completed operation stays as it is. *)
Stop(c) ==
    LET failed == (IF c.conn THEN <<Done("connect", FALSE)>> ELSE <<>>)
                      \o [i \in 1..c.recv |-> Done("recv", FALSE)]
    IN  [c EXCEPT !.sock = "closed", !.conn = FALSE, !.recv = 0, !.ready = @ \o failed]

(* What is in flight is lost with the connection. *)
Broken(d) == [d EXCEPT !.link = FALSE, !.in = <<>>, !.out = <<>>, !.half = FALSE]

HangUp == IF cli.sock = "up" THEN [db EXCEPT ![Len(db)] = Broken(@)] ELSE db

(* Mutant of Start: the front of the queue is discarded. *)
StartDropsFront(c) == [c EXCEPT !.connet = FALSE, !.disconnect = FALSE, !.conn = TRUE,
                                !.queue = IF @ = <<>> THEN @ ELSE Tail(@),
                                !.sock = "connecting"]

(* async_connect fails at once on a socket that connects or is connected. *)
Start(c) ==
    LET d == [c EXCEPT !.connet = FALSE, !.disconnect = FALSE]
    IN  IF d.sock = "closed" THEN [d EXCEPT !.sock = "connecting", !.conn = TRUE]
                             ELSE Post(d, Done("connect", FALSE))

AsyncReceive(c) == IF c.sock = "up" THEN [c EXCEPT !.recv = @ + 1]
                                    ELSE Post(c, Done("recv", FALSE))

(* A send on a connection that is lost already may still succeed. *)
Send(c, m) ==
    \/ /\ c.sock = "up" /\ db[Len(db)].link
       /\ cli' = Post(c, Done("send", TRUE))
       /\ db' = [db EXCEPT ![Len(db)].in = Append(@, m)]
    \/ /\ c.sock = "up" => ~ db[Len(db)].link
       /\ \E ok \in (IF c.sock = "up" THEN BOOLEAN ELSE {FALSE}) : cli' = Post(c, Done("send", ok))
       /\ UNCHANGED db

-----------------------------------------------------------------------------
(* ClientDB. *)

(* Mutant of QueryGenerator: the name of the first table is kept. *)
QueryGeneratorKeepsName(c) ==
    /\ ~ c.disconnect /\ c.queue # <<>>
    /\ Send([c EXCEPT !.table = IF @ = NoTable THEN Head(c.queue) ELSE @,
                      !.queue = Tail(c.queue)],
            [kind |-> "query", of |-> Head(c.queue)])
    /\ UNCHANGED done

(* __queryGenerator: the table leaves the queue before it is answered. *)
QueryGenerator(c) ==
    \/ /\ ~ c.disconnect /\ c.queue # <<>>
       /\ Send([c EXCEPT !.table = Head(c.queue), !.queue = Tail(c.queue)],
               [kind |-> "query", of |-> Head(c.queue)])
       /\ UNCHANGED done
    \/ /\ ~ c.disconnect /\ c.queue = <<>>
       /\ Send(c, M("disconnect"))
       /\ UNCHANGED done
    \/ /\ c.disconnect
       /\ done' = done + 1
       /\ cli' = Stop(c) /\ db' = HangUp

(* __checkConnect without an error. *)
CheckConnect(c) ==
    \/ /\ ~ c.connet /\ c.disconnect
       /\ cli' = Stop(c) /\ db' = HangUp
       /\ UNCHANGED done
    \/ /\ ~ c.connet /\ ~ c.disconnect
       /\ Send(c, M("connect"))
       /\ UNCHANGED done
    \/ c.connet /\ QueryGenerator(c)

Due(op) == cli.ready # <<>> /\ Head(cli.ready).op = op
This == Head(cli.ready)
Rest == [cli EXCEPT !.ready = Tail(@)]

(* Mutant of OnError: the load begins again. *)
OnErrorBeginsAgain ==
    /\ cli.ready # <<>> /\ ~ This.ok
    /\ cli' = [Start(Stop(Rest)) EXCEPT !.queue = Tables] /\ db' = HangUp
    /\ UNCHANGED <<resp, serving, pool, loads, fresh, losses, done>>

(* Every handler meets an error the same way: stop, then start. *)
OnError ==
    /\ cli.ready # <<>> /\ ~ This.ok
    /\ cli' = Start(Stop(Rest)) /\ db' = HangUp
    /\ UNCHANGED <<resp, serving, pool, loads, fresh, losses, done>>

OnConnect ==
    /\ Due("connect") /\ This.ok
    /\ CheckConnect(Rest)
    /\ UNCHANGED <<resp, serving, pool, loads, fresh, losses>>

(* Mutant of OnSend: the receive is started twice. *)
OnSendTwice ==
    /\ Due("send") /\ This.ok
    /\ cli' = AsyncReceive(AsyncReceive(Rest))
    /\ UNCHANGED <<resp, db, serving, pool, loads, fresh, losses, done>>

(* __sendCommand. *)
OnSend ==
    /\ Due("send") /\ This.ok
    /\ cli' = AsyncReceive(Rest)
    /\ UNCHANGED <<resp, db, serving, pool, loads, fresh, losses, done>>

(* What the parser makes of a receive: only the rest of the answer it has   *)
(* begun completes it; it keeps what it holds across connections.           *)
Parsed == ~ This.part /\ cli.parser \in {0, This.conn}

(* Mutant of OnReceivePart: the rest is not read. *)
OnReceivePartOnly ==
    /\ Due("recv") /\ This.ok /\ ~ Parsed
    /\ cli' = [Rest EXCEPT !.parser = IF @ = 0 THEN This.conn ELSE @]
    /\ UNCHANGED <<resp, db, serving, pool, loads, fresh, losses, done>>

(* __reciveCommand, "JSON not full". *)
OnReceivePart ==
    /\ Due("recv") /\ This.ok /\ ~ Parsed
    /\ cli' = AsyncReceive([Rest EXCEPT !.parser = IF @ = 0 THEN This.conn ELSE @])
    /\ UNCHANGED <<resp, db, serving, pool, loads, fresh, losses, done>>

(* __reciveCommand and __commandAnalize.  An answer is taken for the last   *)
(* table asked for, if it has that table's fields.                          *)
OnReceive ==
    LET m == This.msg
        c == [Rest EXCEPT !.parser = 0]
    IN  /\ Due("recv") /\ This.ok /\ Parsed
        /\ \/ /\ m.kind = "success"
              /\ CheckConnect([c EXCEPT !.connet = TRUE, !.disconnect = FALSE])
              /\ UNCHANGED <<resp, fresh>>
           \/ /\ m.kind \in {"fail", "bye"}
              /\ CheckConnect([c EXCEPT !.disconnect = TRUE])
              /\ UNCHANGED <<resp, fresh>>
           \/ /\ m.kind = "rows" /\ Fields[c.table] \subseteq Fields[m.of]
              /\ resp' = [resp EXCEPT ![c.table] = m.of]
              /\ fresh' = fresh \cup {c.table}
              /\ CheckConnect(c)
           \/ /\ m.kind = "rows" /\ ~ Fields[c.table] \subseteq Fields[m.of]
              /\ CheckConnect(c)
              /\ UNCHANGED <<resp, fresh>>
        /\ UNCHANGED <<serving, pool, loads, losses>>

(* WorkerM::__connectToDB, at the start and every 24 hours: the queue is    *)
(* filled again and the client started, whatever it is doing.               *)
Idle == cli.ready = <<>> /\ ~ cli.conn /\ cli.recv = 0

ConnectToDB ==
    /\ loads < MaxLoads /\ (Overlap \/ Idle)
    /\ cli' = Start([cli EXCEPT !.queue = Tables])
    /\ loads' = loads + 1 /\ fresh' = {} /\ losses' = 0
    /\ UNCHANGED <<resp, db, serving, pool, done>>

-----------------------------------------------------------------------------
(* The sockets between them. *)

NewDataBase == [phase |-> "auth", link |-> TRUE, half |-> FALSE, junk |-> FALSE,
                wrong |-> FALSE, exit |-> FALSE, in |-> <<>>, out |-> <<>>]

Connected ==
    /\ cli.conn /\ serving /\ Len(db) < MaxConns
    /\ cli' = Post([cli EXCEPT !.conn = FALSE, !.sock = "up"], Done("connect", TRUE))
    /\ db' = Append(db, NewDataBase) /\ pool' = Append(pool, Len(db'))
    /\ UNCHANGED <<resp, serving, loads, fresh, losses, done>>

ConnectRefused ==
    /\ cli.conn /\ ~ serving
    /\ cli' = Post([cli EXCEPT !.conn = FALSE], Done("connect", FALSE))
    /\ UNCHANGED <<resp, db, serving, pool, loads, fresh, losses, done>>

Deliver ==
    LET k == Len(db)
    IN  /\ cli.recv > 0 /\ db[k].out # <<>>
        /\ \/ /\ cli' = Post([cli EXCEPT !.recv = @ - 1], Received(FALSE, Head(db[k].out)))
              /\ db' = [db EXCEPT ![k].out = Tail(@)]
           \/ /\ "answer" \in Splits /\ cli.parser = 0
              /\ cli' = Post([cli EXCEPT !.recv = @ - 1], Received(TRUE, Head(db[k].out)))
              /\ UNCHANGED db
        /\ UNCHANGED <<resp, serving, pool, loads, fresh, losses, done>>

DeliverEnd ==
    /\ cli.recv > 0 /\ db[Len(db)].out = <<>> /\ ~ db[Len(db)].link
    /\ cli' = Post([cli EXCEPT !.recv = @ - 1], Done("recv", FALSE))
    /\ UNCHANGED <<resp, db, serving, pool, loads, fresh, losses, done>>

Lose ==
    /\ losses < MaxLosses /\ db # <<>> /\ db[Len(db)].link
    /\ db' = [db EXCEPT ![Len(db)] = Broken(@)]
    /\ losses' = losses + 1
    /\ UNCHANGED <<cli, resp, serving, pool, loads, fresh, done>>

Restart ==
    /\ ~ serving /\ serving' = TRUE
    /\ UNCHANGED <<cli, resp, db, pool, loads, fresh, losses, done>>

-----------------------------------------------------------------------------
(* The DataBase sessions. *)

Unaffected == UNCHANGED <<cli, resp, loads, fresh, done>>

(* An exception that no handler catches, or a wild read. *)
Crash ==
    /\ serving' = FALSE /\ pool' = <<>>
    /\ db' = [k \in DOMAIN db |-> [Broken(db[k]) EXCEPT !.phase = "gone"]]
    /\ losses' = losses + 1

Answer(k, phase, m, wrong) ==
    /\ LET d == db[k]
       IN  db' = [db EXCEPT ![k] = [d EXCEPT !.phase = phase, !.wrong = wrong, !.half = FALSE,
                                             !.in = Tail(d.in), !.out = Append(d.out, m)]]
    /\ UNCHANGED <<serving, pool, losses>>

(* __connectAnalize and __waitCommand, "json not full": both read on with  *)
(* __connectAnalize.  The first buffer is not cleared: what follows a part *)
(* in it may break the parser.                                              *)
ReceivePart(k) ==
    /\ db[k].phase \in {"auth", "wait"} /\ db[k].in # <<>> /\ ~ db[k].half
    /\ "request" \in Splits
    /\ \E junk \in (IF Head(db[k].in).kind = "connect" THEN BOOLEAN ELSE {FALSE}) :
          db' = [db EXCEPT ![k].half = TRUE, ![k].phase = "auth", ![k].junk = @ \/ junk]
    /\ UNCHANGED <<serving, pool, losses>> /\ Unaffected

(* The answer has no byte: it is sent, and nothing reaches the client. *)
AnswerNothing(k) ==
    /\ db' = [db EXCEPT ![k].phase = "auth_sent", ![k].half = FALSE, ![k].in = Tail(@)]
    /\ UNCHANGED <<serving, pool, losses>>

(* __checkConnect of the session: an unknown login reads before the start  *)
(* of the list of passwords, and where no account is kept at("login")       *)
(* throws before an answer is made.                                        *)
CheckLogin(k) ==
    \/ "success" \in Verdicts /\ Answer(k, "auth_sent", M("success"), FALSE)
    \/ "fail" \in Verdicts /\ Answer(k, "auth_sent", M("fail"), TRUE)
    \/ "none" \in Verdicts /\ AnswerNothing(k)
    \/ "crash" \in Verdicts /\ losses < MaxLosses /\ Crash

(* __connectAnalize: what is not a connect has no login; it is dropped. *)
ConnectAnalize(k) ==
    LET m == Head(db[k].in)
    IN  /\ db[k].phase = "auth" /\ db[k].in # <<>>
        /\ \/ /\ m.kind # "connect" \/ db[k].junk
              /\ db' = [db EXCEPT ![k].half = FALSE, ![k].in = Tail(@)]
              /\ UNCHANGED <<serving, pool, losses>>
           \/ /\ m.kind = "connect" /\ ~ db[k].junk
              /\ CheckLogin(k)
        /\ Unaffected

(* __resAutentification: a session that refused closes its socket and then *)
(* reads from it all the same, for ever.                                    *)
ResAutentification(k) ==
    /\ db[k].phase = "auth_sent"
    /\ db' = [db EXCEPT ![k].phase = "wait", ![k].wrong = FALSE,
                        ![k].exit = @ \/ db[k].wrong, ![k].link = @ /\ ~ db[k].wrong]
    /\ UNCHANGED <<serving, pool, losses>> /\ Unaffected

(* __makeQuery: a query that SQLite refuses is answered with a disconnect, *)
(* one that finds no row has no field to look up.                           *)
MakeQuery(k, table) ==
    \/ /\ table \notin Refused \cup Empty
       /\ Answer(k, "sent", [kind |-> "rows", of |-> table], FALSE)
    \/ /\ table \in Refused
       /\ Answer(k, "sent", M("bye"), TRUE)
    \/ /\ table \in Empty \ Refused
       /\ Crash

(* __waitCommand. *)
WaitCommand(k) ==
    LET m == Head(db[k].in)
    IN  /\ db[k].phase = "wait" /\ db[k].in # <<>>
        /\ \/ /\ m.kind = "query" /\ MakeQuery(k, m.of)
           \/ /\ m.kind = "disconnect"             \* __makeDisconnect
              /\ Answer(k, "sent", M("bye"), TRUE)
        /\ Unaffected

(* Mutant of SendCommand: the session waits on after a disconnect. *)
SendCommandWaits(k) ==
    /\ db[k].phase = "sent"
    /\ db' = [db EXCEPT ![k].phase = "wait", ![k].wrong = FALSE]
    /\ UNCHANGED <<serving, pool, losses>> /\ Unaffected

(* Mutant of SendCommand: every answer ends the session. *)
SendCommandEnds(k) ==
    /\ db[k].phase = "sent"
    /\ db' = [db EXCEPT ![k].phase = "gone", ![k].exit = TRUE,
                        ![k].wrong = FALSE, ![k].link = FALSE]
    /\ UNCHANGED <<serving, pool, losses>> /\ Unaffected

(* __sendCommand. *)
SendCommand(k) ==
    /\ db[k].phase = "sent"
    /\ db' = [db EXCEPT ![k].phase = IF db[k].wrong THEN "gone" ELSE "wait",
                        ![k].exit = @ \/ db[k].wrong,
                        ![k].wrong = FALSE, ![k].link = @ /\ ~ db[k].wrong]
    /\ UNCHANGED <<serving, pool, losses>> /\ Unaffected

Finished(i) == db[pool[i]].exit

(* Mutant of Sweep: only the first session is looked at. *)
SweepFront ==
    /\ pool # <<>> /\ Finished(1)
    /\ pool' = Tail(pool)
    /\ UNCHANGED <<db, serving, losses>> /\ Unaffected

(* __resetTimer: a finished session is erased by the loop that walks over   *)
(* the vector; unless it was the last one, the loop goes on to the slot     *)
(* that the erasure has emptied.                                            *)
Sweep ==
    /\ \/ /\ \E i \in DOMAIN pool : i < Len(pool) /\ Finished(i)
          /\ Crash
       \/ /\ pool # <<>> /\ Finished(Len(pool))
          /\ \A i \in DOMAIN pool : i < Len(pool) => ~ Finished(i)
          /\ pool' = Front(pool)
          /\ UNCHANGED <<db, serving, losses>>
    /\ Unaffected

-----------------------------------------------------------------------------
Init ==
    /\ cli = [sock |-> "closed", connet |-> FALSE, disconnect |-> FALSE, queue |-> <<>>,
              table |-> NoTable, parser |-> 0, conn |-> FALSE, recv |-> 0, ready |-> <<>>]
    /\ resp = [t \in Table |-> NoTable]
    /\ db = <<>>
    /\ serving = TRUE /\ pool = <<>>
    /\ loads = 0 /\ fresh = {} /\ losses = 0 /\ done = 0

RunHandler == OnError \/ OnConnect \/ OnSend \/ OnReceivePart \/ OnReceive

RunSession(k) ==
    ReceivePart(k) \/ ConnectAnalize(k) \/ ResAutentification(k) \/ WaitCommand(k) \/ SendCommand(k)

Next ==
    \/ ConnectToDB \/ RunHandler
    \/ Connected \/ ConnectRefused \/ Deliver \/ DeliverEnd \/ Lose \/ Restart \/ Sweep
    \/ \E k \in DOMAIN db : RunSession(k)

Spec == Init /\ [][Next]_vars

(* Both processes run the handlers and timers that are due, and the network *)
(* delivers.  Over a connection that is gone a session may try to send the  *)
(* same answer for ever (the error branches of __resAutentification and     *)
(* __sendCommand), so nothing is assumed of it.                             *)
Fairness ==
    /\ WF_vars(RunHandler) /\ WF_vars(Connected) /\ WF_vars(ConnectRefused)
    /\ WF_vars(Deliver) /\ WF_vars(DeliverEnd) /\ WF_vars(Sweep)
    /\ \A k \in 1..MaxConns : WF_vars(k \in DOMAIN db /\ db[k].link /\ RunSession(k))

FairSpec == Spec /\ Fairness

-----------------------------------------------------------------------------
(* Properties. *)

(* The fields of ClientDB and of its sessions hold what they are declared  *)
(* to hold; in particular no table is taken from an empty queue.            *)
TypeOK ==
    /\ cli \in Client
    /\ resp \in [Table -> Table \cup {NoTable}]
    /\ db \in Seq(DataBase)
    /\ serving \in BOOLEAN
    /\ pool \in Seq(DOMAIN db) /\ IsInjective(pool)
    /\ fresh \subseteq Table
    /\ {loads, losses, done} \subseteq Nat

(* What is kept for a table are its own rows, although an answer does not   *)
(* say which query it answers: it is taken for __table_name_send's.         *)
RowsOfTable == \A t \in Table : resp[t] \in {NoTable, t}

(* A load that the refresh does not disturb goes one step at a time through *)
(* both processes - one operation or handler, one message under way - so    *)
(* that one buffer, one parser and one __table_name_send are enough.        *)
Operations == Len(cli.ready) + cli.recv + (IF cli.conn THEN 1 ELSE 0)
UnderWay == IF db = <<>> THEN 0 ELSE Len(db[Len(db)].in) + Len(db[Len(db)].out)
Answers(h) == h.op = "recv" /\ h.ok /\ ~ h.part
Answered == {i \in DOMAIN cli.ready : Answers(cli.ready[i])}
SingleFile == Operations <= 1 /\ UnderWay + Cardinality(Answered) <= 1

(* A refresh that finds a load still running adds a second chain of         *)
(* operations to it, and however the two stop and start each other the      *)
(* chains never multiply.                                                   *)
OneChainPerLoad == Operations <= loads

(* When the callback is given the data, no more tables are missing than     *)
(* connections were lost, unless SQLite has refused a query.                *)
LossCostsOneTable ==
    [][done' # done => \/ Cardinality(Table \ fresh') <= losses'
                       \/ cli.table \in Refused]_vars

(* A load that loses no connection and is let in leaves no session behind   *)
(* in SQLiteWebWrapper that goes on reading from a closed socket.           *)
Ended(d) == d.phase = "gone" \/ (d.phase = "sent" /\ d.wrong)
NoSessionLeftBehind ==
    losses = 0 /\ loads = 1 => \A k \in DOMAIN db : ~ db[k].link => Ended(db[k])

(* The sweep of the finished sessions walks over the vector it erases from. *)
(* One load that loses no connection never meets what is wrong with that:   *)
(* its session is the last one until it has left the vector.                *)
OneLoadKeepsServing ==
    [][serving /\ ~ serving' => losses > 0 \/ loads > 1]_vars

(* A session that has finished leaves the vector, and its memory, in the    *)
(* end: by the sweep or with the process.                                   *)
FinishedIsSwept ==
    \A k \in 1..MaxConns : (k \in DOMAIN db /\ db[k].exit) ~> (k \notin Range(pool))

(* A load ends with a call of the callback, whatever connections are lost,  *)
(* unless an answer was cut short by a loss (the client's parser keeps the  *)
(* first part), a request arrived in parts (the session drops it), the      *)
(* login was refused (the client stops without a call) or not answered      *)
(* (there is no account), or SQLiteWebWrapper is down.                      *)
CutShort ==
    /\ cli.parser # 0 /\ cli.ready = <<>>
    /\ ~ db[cli.parser].link /\ db[cli.parser].out = <<>>
Misread ==
    /\ cli.sock = "up"
    /\ LET d == db[Len(db)] IN d.junk \/ (cli.connet /\ d.phase = "auth")
RefusedLogin == Idle /\ ~ cli.connet /\ cli.disconnect
UnansweredLogin ==
    /\ cli.sock = "up" /\ ~ cli.connet /\ cli.ready = <<>>
    /\ LET d == db[Len(db)] IN d.link /\ d.phase = "wait" /\ d.in \o d.out = <<>>
LoadEnds ==
    \A k \in 1..MaxLoads :
        loads >= k ~> \/ done >= k \/ CutShort \/ Misread
                      \/ RefusedLogin \/ UnansweredLogin \/ ~ serving

(* As long as loads do not overlap, both processes together do for the      *)
(* worker what Loader promises: every table is asked for once, rows are     *)
(* kept under the table asked for, and a load calls back at most once, with *)
(* no more missing than was lost.                                           *)
Load == INSTANCE Loader WITH running <- ~ Idle, left <- cli.queue, asked <- cli.table,
                             kept <- resp, stored <- fresh
ImplementsLoader == Load!Spec
=============================================================================
