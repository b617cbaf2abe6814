# Verification of VoiceAssistantSkill

TLA+ models of the programs behind a voice skill of a university, the TLC runs
that check them on small instances, and proofs that TLAPS checks for all values
of the constants. Paths are relative to `src/src/`.

## The system

Three processes talk JSON over TCP, each with a boost::asio `io_context` that
`Count_threads` threads run.

    station --HTTPS--> MainServer <--TCP-- MarusiaWorker --TCP--> SQLiteWebWrapper
                       https_server         WorkerM, ClientDB      DataBase sessions
                       worker_server

| Component | State | Operations | What makes it correct |
|---|---|---|---|
| `worker_server` (`Applications/MainServer/Modules/Worker`) | pool of sessions; per session a socket, ping and dead-ping timers, `_is_live`, `_ping_success`, `_next_recive`, one send buffer, one callback, parsed messages; a static counter of sent bytes | accept, sweep, authorise, ping, dead ping, send and receive handlers, `startCommand` | a live session is always watched; a dead one leaves the pool; answers are read and reach the caller, once |
| `https_server` (`.../HTTPSServer`) | pool of HTTPS sessions, SSL stream, request, `__is_live`, position in the pool of workers | accept, handshake with retries, read, route to a worker, answer from the callback, sweep | an answer finds its session alive and idle; each request is answered once, by its own answer; connections are let go |
| `MainServer` | the two servers, a database client that is never started | init, start, stop | starts and stops what it owns |
| dialogue engine (`Applications/MarusiaWorker/Modules/Worker/WorkerM.cpp:104-185, 445-712`, `ScheduleManager`) | tables of the database, lists of key words, `__active_dialog_sessions` | `setDbInfo`, `__analizeRequest` and what it calls | what was last said fits what the next words are taken for; a dialogue is with one station; every request is answered |
| link to the main server (`WorkerM.cpp:187-410`) | socket, parser, queue of parsed messages, one send buffer, `__flag_end_send`, two static counters | connect, introduce, receive, answer, reconnect | one operation at a time; a request is answered once, on the connection it came from; a closed connection is replaced |
| `ClientDB` (`lib/GlobalModules/ClientDB`) | queue of tables, last table asked for, flags, parser, `__resp_data` | start, stop, connect, query, receive, callback | rows are kept under their table; a load ends |
| `DataBase` and its `Server` (`Applications/SQLiteWebWrapper/Modules/Server`) | per connection a socket, parser, `__flag_wrong_connect`, `__flag_send`; the pool and its timer | authenticate, wait, query, answer, refuse, sweep | a query is answered by its rows; sessions end |
| `Logger` (`lib/GlobalModules/Logger`) | queue of messages, name of the current file | log, write out, rotate | the log keeps every message, in order, in files below a limit |
| `Configer`, `JSONFormatter`, `SystemStat`, `SSLSertificate` | none that changes | | |

How they interact: an HTTPS session picks a worker session of the pool and calls
`startCommand` with a callback; the worker session writes the request to its
worker, whose engine answers; the answer calls the callback. Every ten seconds
a worker session pings its worker. The worker loads eight tables from
SQLiteWebWrapper when it starts and every 24 hours; each load is one connection
with a login, a query per table and a disconnect, and its end calls `setDbInfo`.

What is hard here: sends that overlap on one buffer and one static counter;
messages that arrive together or in parts; cancelled and expired timers whose
handlers are queued already; handlers that run after `stop()`; reconnects that
keep a parser, a queue and flags; a refresh on top of a load; dialogues whose
tables are replaced in the middle. `PROJECT.json` lists the hazards line by line
with the properties that cover them.

## Modules

| Module | Models |
|---|---|
| `WorkerPool` | abstract: what the worker server promises to the HTTPS sessions |
| `WorkerSession` | `worker_server`: pool, sweep, sessions, timers, and the worker as environment; implements `WorkerPool` |
| `Frontend` | `https_server`: listener, sweep and sessions, on top of a `WorkerPool` |
| `WorkerLink` | the worker's link to the main server, with the main server as environment |
| `Conversation` | abstract: what a dialogue promises each address at which stations call |
| `Dialog` | the dialogue engine, which implements `Conversation` |
| `Loader` | abstract: what a load of the tables promises the worker |
| `DbLoad` | `ClientDB` in the worker and the `DataBase` sessions it talks to with their pool, composed over a connection; implements `Loader` |
| `Logger` | the log of all three processes |
| `MCWorkerSession`, `MCFrontend`, `MCWorkerLink`, `MCDialog`, `MCDbLoad`, `MCLogger` | values of the constants for TLC |
| `WorkerSession_proofs`, `WorkerPool_proofs`, `Frontend_proofs`, `WorkerLink_proofs`, `Dialog_proofs`, `DbLoad_proofs`, `Logger_proofs` | theorems and proofs |
| `Induction` | induction on numbers, for the proofs about recursive functions |

The main server is two specifications joined by a third: `WorkerSession`
implements `WorkerPool` (`ImplementsPool`), and `Frontend` is built on an
instance of `WorkerPool`, which may do anything that promise allows. So what
holds of `Frontend` does not rest on one way in which workers behave.

Operators named `XWithout...`, `XKeeps...` and the like next to an operator `X`
and introduced as mutants are not used by the specifications. They say what a
plausible mistake in `X` would be, and each property is known to fail when `X`
is replaced by its mutant.

### WorkerSession

`sess[s]` holds the fields of a `SessionMarusia` and its connection, `pool` is
`__sessions`, `temp` the static `temp_send_byte` of `_sendCommand`. A completed
operation waits in `ready`, with its error code and bytes, until its handler
runs; one handler is one action (`OnSendFailed`, `OnSendMismatch` and
`OnSendComplete` are `_sendCommand` with `_sendCheck`; `OnReceiveFailed`,
`OnReceivePartial` and `OnReceive` are `_reciveCommand` with `_reciveCheck` and
`_commandAnalize`; `OnPing`, `OnDeadPing`, `KillSession`, `Accept`,
`StartCommand` have the code's names). `cancel()` and `expires_from_now()` put a
handler with an error into the queue and leave one that has expired alone.
Messages have a length of 0, 1 or 2 units, enough to tell apart an empty
buffer, a ping and a request of another length; a short write leaves a proper
prefix, and the next write starts at `temp`, which may lie behind the end of a
buffer that was replaced meanwhile. Incoming messages are whole values that a
receive may take several at a time or cut. `got[st]` is the sequence of answers
that `st`'s callback was called with (`Called`), so that a second call with the
same answer shows. Two fields are history: `rough` says that a send was begun
over another or cut short, `mixed` that the session was asked while it owed an
answer.

Abstractions: a handler runs as one step and the handlers of a session in the
order in which they complete, as one thread of the `io_context` runs them. With
several threads the code has data races and no behaviour of its own to model.
The worker answers whole messages in order, as `WorkerM::__sendResponse` does,
and connects once, before it is sent anything. A sweep may come at any time.
What an HTTPS session does between two calls of `startCommand` is left open:
`StartCommand` is possible for any session of the pool, the one it would pick
included. `Server::stop` and the figures of a ping are left out.

### WorkerPool and Frontend

`WorkerPool` says of a worker session only whether it is in the pool, whether it
is live, whom it calls back (`cb`) and whose answers it may still give (`owed`).
`Reply` appends an answer to what the caller in `cb` was given, whoever asked for
it: that is what one `_callback` can promise. A second call with an answer that
was given is no step of `WorkerPool`. Answers may be lost at any step, so that
the refinement says nothing of a callback that is never called. In
`WorkerSession` the answers owed are read off from the buffers on both sides.

`Frontend` has one asynchronous operation per session (`op`); its completion and
the handler it runs are one action. `KillSession` is `__killSession`, which
erases one session per turn. A handler of a session that was erased holds the
session alive until it has run; the callback given to `startCommand` holds a
plain pointer. `Callback` to a session that is freed, or that has an operation
already, makes `process` "undefined"; a certificate that cannot be read again
makes it "ended". Both stop the model.

Abstractions: every session carries one request (a kept-alive connection is not
read again: after the answer `__onWrite` ends the session either way). Which
worker has memory left is open. Verbs are told apart as POST, OPTIONS and the
rest. When an answer comes later than the 30 seconds of the stream, its write
fails; `OnWrite` may fail at any time. One handler runs at a time, as with one
thread.

### WorkerLink

`link` is the `WorkerM` object with its socket and the connection it has.
`OnConnect`, `OnConnectSent`, `OnCommand`, `OnResponse` and `OnAnswerSent` are
`__sendConnect`, `__reciveConnect`, `__reciveCommand`, `__sendResponse` and
`__reciveAnswer`; `OnReceiveFailed` and `OnReceivePart` are the branches which
the two receiving handlers share. `tempC` and `tempA` are their static counters.
A send moves its units when it is started, so that replacing `__buf_send` later
changes what the completion compares and not what was sent; a send that starts
behind the end of the buffer (the size has wrapped around) fails or sends what
follows in memory. `parser` says whether the stream parser is clean, holds the
first part of a message that is still coming, or is stuck with one nothing
completes; a first receive that cuts a message leaves either, since its buffer
holds whatever the memory held. `Responses` is the loop of `__sendResponse` over the queue, each turn
of which may end in more than one state. The main server greets, pings and asks
at any time; it may close the
connection, and the network may drop it without a word (`gone`), which no
handler is told of. Two fields are history: `batched` says that messages were
once answered on top of each other, `forked` that one of several threw. From then
on (`Damaged`) the code shares `__buf_send` and `tempA` between sends, or has two
receives pending, and may send one answer over and over
(`WorkerM.cpp:383-391`): the safety properties claim nothing any more, and their
comments say so.

Abstractions: messages have one or two units. A request gets an answer or an
exception, either at any time; `Dialog` says which. `disconnect`, which the main
server never sends, is left out. A counter acts alike beyond `MaxTemp`, which
exceeds the longest message.

### Conversation and Dialog

A command is the set of the key words that occur in it, so that
`command.find(word)` is membership; `YesWords` are the words in which "да"
occurs. That includes "преподаватель", which `MCDialog` has. Tables are present
or missing: no loaded table is empty, since a query without rows does not
return (see DbLoad). A text is named by what it says. `Serialized` and `Stripped` keep the one thing about quotes that
matters, whether the value has them. `SetDbInfo` takes any of `Loads`, since a
load may lose any table; a missing table of key words ends the process.
`MCLoads` has all 8 ways to lose those tables no key words are parsed from, each
table of key words alone, and nothing at all.

A dialogue belongs to an address. `HTTPSServer.cpp:401` hands on
`local_endpoint().address()`, the end of the connection that is the server's own,
as `station_ip`, and `WorkerM.cpp:576` keeps `__active_dialog_sessions` by it.
`LocalEndpoint` gives the address that a station calls, `Key(st)` is what the
engine knows of `st`; in the instance two stations share an address and a third
has its own, as with a server of two interfaces. `dialog` is
`__active_dialog_sessions` by address, `None` for no entry; `told` is the last
answer given at an address and `listener` the station it was given to; `silent`
has the stations whose last request was left without an answer by an exception.
So the properties of the dialogue are about addresses, and what a station would
expect, that its words are the answer to what it was asked itself, is `OwnWords`,
which the program violates (see Findings).

A request is a command or `Malformed`, a body that is no JSON or lacks one of the
fields that `__analizeRequest` reads. Nothing checks it before
(`HTTPSServer.cpp:176-195` is commented out); the exception leaves the handler
after `__clearZombieSessions` and before an answer, and is caught in
`__sendResponse` (`WorkerM.cpp:371-375`).

`Conversation` has one variable, the mode of each address, and says which mode
may follow which. `Dialog` maps a dialogue to its mode; a finished one that
still waits for `__clearZombieSessions` is idle.

One worker is modelled. With several, the next request of a station may go to
another (`HTTPSServer.cpp:213`), which has dialogues of its own; `PromptFitsState`
is about what each says and hears itself.

### Loader and DbLoad

`Loader` is a load as the worker sees it: it begins when none is under way, asks
for each table once and in order, keeps rows under the table it asked for last,
and ends with one call of the callback, or silently when the login was refused.
Connections may be lost at any time (`Lose`); at the call no more tables are
missing than that, unless SQLite refused a query. How tables get lost, and all
of sessions and sockets, is left to `DbLoad`, whose `Load` maps it: a load is under
way while the client has anything pending or ready (`~ Idle`).

`cli` holds the fields of `ClientDB` and its socket, with completed operations in
`ready` as above; `db` holds a `DataBase` session per connection, whose current
operation is `phase`. `CheckConnect` and `QueryGenerator` are the client's
functions of those names and are called from the handlers `OnConnect`, `OnSend`
and `OnReceive`; `OnError` is the stop and start that all handlers share.
`CheckLogin`, `ConnectAnalize`, `MakeQuery`, `WaitCommand`, `SendCommand` and
`ResAutentification` are the session's. A login is accepted, refused, not
answered (`AnswerNothing`: without an account `at("login")` throws and an empty
buffer is sent, `DataBaseServer.cpp:391-394`), or ends the process, since an
unknown login reads before the first password; `Verdicts` says which of them an
instance has. An answer does not carry its table's
name to the client: the field `of` is only used to say whose rows they are and
which fields they have. `Lose` breaks a connection with what is in flight, `Crash`
ends the process of all sessions, `Restart` is its supervisor.

Abstractions: the order of errors inside a session is the code's; the pauses of
one and two seconds take no time; writes are whole (the static counters in
`ClientDB.cpp:164` and `DataBaseServer.cpp:21,213` are not modelled here, the
same construction is in `WorkerSession` and `WorkerLink`); a session whose
connection broke goes on sending or reading for ever, which changes nothing but
that it never finishes. Commands that
`ClientDB` never sends, a failed accept and a database file that cannot be
opened are left out.

`pool` is `__sessions` of SQLiteWebWrapper. `Sweep` is the timer's loop, which
erases from the vector it iterates over: when a finished session is not the
last, the loop goes on into the slot that the erasure has emptied, and the model
takes the process for gone (`Crash`). One load cannot get there; loads that
follow a loss can, since a broken session stays in the vector for ever.

### Logger

Messages are their numbers, in the order in which they were logged; `files` has
every file, the current one last. `named` is false when `__filename` is that of
a file which could not be made. `WriteLog` is `writeLog` with `__writeLogQueue`:
nothing is written (`NothingWritten`), or the file is open (`Written`) and some
first part of the queue reaches it before the stream fails. A rotation within
the millisecond of the last one gives the old name again.

## Runs

All runs say `CHECK_DEADLOCK FALSE`: the system stops when the bounded number of
sessions, loads or losses of the instance is used up, or when the worker's
process has ended.

| Run | Instance | Shows |
|---|---|---|
| `session_any` | 1 session, 2 stations, short writes, refused pings | `TypeOK`, `Watched`, `ResurrectedIsDoomed`, `RightStation`, `CounterAtRest`, `ImplementsPool` |
| `session_live` | 1 session, 2 stations, short writes, fairness | `FailedIsSwept`, `ClosedIsReleased`, `NothingStaysUnread` |
| `https_main` | 2 stations, 2 worker sessions, 1 further attempt at a handshake, fairness | `TypeOK`, `OwnedCallback`, `AnsweredOnce`, `UndefinedHasCause`, `ConnectionLetGo` |
| `link_main` | 2 requests, short writes, 1 closed or dropped connection, any refused connects, fairness | `TypeOK`, `OneChain`, `CounterAtRest`, `AnsweredOnceWhereAsked`, `Reconnects`, `RequestServed` |
| `dialog_main` | 3 stations at 2 addresses, 17 commands and a malformed request, 14 sets of tables | `TypeOK`, `PromptFitsState`, `SilentForWantOfFacts`, `ImplementsConversation` |
| `db_any` | 4 tables, 2 loads, 1 loss each, all verdicts and splits, a refused and an empty table | `TypeOK`, `RowsOfTable`, `SingleFile`, `LossCostsOneTable`, `ImplementsLoader` |
| `db_live` | 3 tables, 1 load, 2 losses, logins accepted, refused or not answered, fairness | `LossCostsOneTable`, `LoadEnds`, `FinishedIsSwept` |
| `db_overlap` | 2 tables, 2 loads that may overlap, 1 loss, logins accepted or not answered | `OneChainPerLoad`, `NoSessionLeftBehind`, `OneLoadKeepsServing` |
| `logger_main` | 7 messages of 3 sizes, queue of 2, files of 6, 2 faults | `TypeOK`, `LogInOrder`, `FileWithinLimit` |

Bounds. A session sees at most `Stations` requests but any number of pings;
junk from behind a buffer is sent from offsets below `MaxTemp` only, which is 3 in
`session_any` and 2 in `session_live`: a send that starts behind an empty or a
one-unit buffer may send what follows it, one that starts further on fails, and
the counter goes no further. `link_main` has 3, one more than the longest message. Two stations are enough for an answer to meet the wrong
callback. One session is enough to see a count left in `temp`: `CounterAtRest` is
about what a handler leaves behind, whoever finds it; several sessions are covered
by its proof. In `MCDialog` each table of key words has one or two rows,
enough for a first and a later hit, and the commands hold every kind of word
alone and the combinations that matter. Two tables of the same fields and one or
two of others are enough for rows to be taken for those of another table; `MaxConns` is
enough for a reconnect after each loss (each loss costs a connection and may
refuse one login).

In `https_main` two stations can
exchange their answers at one worker, and two workers let a station ask one that
owes nothing while the other does. One fault of `link_main` (a connection closed by
the main server or dropped) makes two connections, enough for what the first
leaves behind in parser, queue and buffer to meet the second, with any number of
refused connects before each; two requests are enough to be read together, apart, or each with the greeting.
Seven messages fill the queue of `logger_main` three times, so that a file is
changed and an attempt that failed is made up for; a file of 6 with a margin of
4 can be overrun by two messages of 3 and by none of 2.

What the properties except. Where the code really goes wrong in a way no text of
the repository excludes, there is a hazard in `PROJECT.json` and no finding, and
the property says that nothing else does. All exceptions:

| Property | Claims nothing |
|---|---|
| `RightStation` | once a session was asked while it owed an answer (`mixed`) |
| `CounterAtRest` of `WorkerSession` | once a send was begun over another or took only a part (`rough`) |
| `NothingStaysUnread` | of a connection that is closed in the end |
| `AnsweredOnce` | of a station whose worker was asked while it owed an answer |
| `UndefinedHasCause`, `OwnedCallback` | after a sweep during a handshake; the first also after requests that overlap at a worker |
| `ConnectionLetGo` | of a session whose request is with the workers, or was dropped for want of one: nothing in the server watches it |
| `OneChain`, `CounterAtRest`, `AnsweredOnceWhereAsked` of `WorkerLink` | once messages were answered on top of each other, or one of several threw (`Damaged`), for the rest of the run |
| `RequestServed` | the same, or the connection is gone, the request was dropped, or the parser is stuck |
| `Reconnects` | when the end is noticed by a send, which is repeated on the dead socket for ever (`WorkerM.cpp:213-218`); when the new connection drops without a word, which takes a second fault and is not in the instance; when one of several requests threw and two receives are pending, each of which stops the connect of the other when it fails |
| `SilentForWantOfFacts` | of a request that cannot be read |
| `LossCostsOneTable` | when SQLite refused the last query |
| `NoSessionLeftBehind`, `OneLoadKeepsServing` | after a loss or a first load; and instances with a refused login have the first violated, since that session is left behind (`DataBaseServer.cpp:32`) |
| `LoadEnds` | see Fairness |

`RowsOfTable` fails with overlapping loads (`Overlap = TRUE`): the refresh adds a
second chain of operations, and an answer to one chain's query is kept under the
other's table. `AnsweredOnce` takes from `WorkerPool` that a request's answer is
given once, which `got` as a sequence tells from twice;
`AnsweredOnceWhereAsked` is that promise on the worker's side.

Findings. Three runs check what the repository says of the program and find that
it does otherwise; each has its own configuration of `MCDialog`.

| Run | Said | Done |
|---|---|---|
| `dialog_direction` | the number of places and the passing score of a direction are told | quotes differ, the row is never found; one field's name is misspelt |
| `dialog_incomplete` | incomplete data are refused | they replace the tables, and the process may end |
| `dialog_shared` | the address handed on is the client's (`HTTPSServer.cpp:206`, `station_ip`) | it is the server's; the words of one station are taken for the answer to what another was asked |

Since no row is ever found, no dialogue of the program reaches its second
question ("Рассказать ещё?"): the branches of `DirectionStep` for step 2 are
translated and covered by the proofs, which do not know that, and TLC never
takes them.

Three more were seen on the way and have no run: `Opportunities.json` promises the
schedule of a certain day, and `getSchedule` tells the whole week
(`ScheduleManager.cpp:48`); `Opportunities.json` says that a
group's current class is told, and `__findSchedule` refuses a request without a
day (`WorkerM.cpp:678-681`); "Попробуем ещё?" (`WorkerM.cpp:456`) is asked again
of a station that says no.

### Fairness

`session_live`, `db_live`, `https_main` and `link_main` assume weak
fairness of the `io_context`: a queued handler is run, an armed timer expires,
what has arrived is delivered to a pending receive, a refused or accepted connect
completes. The timers of the sweeps are armed again by their own handlers
(`Worker.cpp:65-72`, and likewise in the other two servers). In `https_main`
every operation of a session ends, since the stream expires after 30 seconds. In
`link_main` a main server that is there accepts a worker that tries again and
again (strong fairness of `ConnectDone`, since each refusal ends the attempt). A
session of SQLiteWebWrapper is treated fairly as long as its connection stands;
once it is broken its handlers fail and repeat themselves, and no step is assumed
of it. Nothing is assumed of what workers, stations and the main server say, of
the network's losses or of the supervisor.

A load ends with a call of the callback, unless (`LoadEnds`) an answer was cut
short by a loss and the client's parser keeps its first part (`CutShort`,
`ClientDB.cpp:193`); a request arrived in parts and the session drops it or
parses it together with old memory (`Misread`, `DataBaseServer.cpp:146, 432`); the
login was refused, at which the client stops without a call (`RefusedLogin`,
`ClientDB.cpp:79-109`); the login was not answered (`UnansweredLogin`,
`DataBaseServer.cpp:391-394`); or SQLiteWebWrapper is down. `db_live` has all five.

## Proofs

The theorems hold for every set of sessions, stations, requests, commands and
tables and for every bound; they assume only the named assumptions of the
modules: `SessionAssumption` (the empty callback is no station, the switches are
Boolean), `RequestAssumption` and `LoadsAssumption` (a malformed request is no
command, a load brings tables the worker has), `FrontendAssumption` (the empty callback is no session, the number of
attempts is natural), `LinkAssumption` (no request is the empty one, `MaxTemp` is
longer than the longest message), `PhrasesAssumption` (the table of phrases names
response types the worker knows), `DbLoadAssumption` (the list of tables is a
sequence of tables, each of which has fields) and `LoggerAssumption` (sizes and
limits are natural, the margin is within the limit of a file, as
`__DELTA_FILESIZE` is within `MAX_FILESIZE`).

`WorkerSession_proofs`: `Watched` and `ResurrectedIsDoomed` are not inductive
alone. The invariant `Inv` is their conjunction with `TypeOK`, session by
session: `TypeOK` bounds what a handler can find, and a session that is live
without a socket must be known to have a failed send in its queue when the
queue's head is taken. The lemmas go from the inside out: types of messages and
units, what each operation of a session (`Post`, `Stop`, `AsyncSend`, `ArmPing`
and so on) keeps of a sound session, then one lemma for each group of actions.
Two facts carry the argument. First, taking a handler from the queue cannot end
the watch except for the ping and dead-ping handlers, each of which arms the
other timer or stops the session. Second, when `ArmDead` replaces a pending
deadline it does so with `_ping_success` reset, so the cancelled handler counts
as a deadline too.

`Frontend_proofs`: `TypeOK`, `OwnedCallback`, `AnsweredOnce` and
`UndefinedHasCause` are parts of one invariant `Inv`. What makes it inductive is
the relation between the two sides of a call: only the worker that was given a
session's request has it as its callback or owes it an answer (`AskedWhoOwes`),
a worker that was never asked while it owed an answer owes at most one, to its
callback (`OwesOne`), and a session that waits for that answer has sent nothing
(`NotAnsweredYet`). The pool's side says that a session which is live, or on its
way to it, is in the pool unless a sweep took it during its handshake
(`InPool`). There is a lemma for each group of actions; the handlers which only
move a session on share one (`RunHandlerStep`), and `CallbackStep` is the one
that uses all parts.

`Dialog_proofs`: `Inv` is `TypeOK` and `PromptFitsState`; it is inductive since
every branch of the engine leaves the address with an answer and a step that
fit (`LeaveStep`), or throws and leaves both (`ThrowStep`). `StepRefines` maps
each step to a step of `Conversation` or a stutter; it needs `Inv` to know that
no session has a step its type does not know. `AnsweredWithFacts` follows
step by step.

`WorkerPool_proofs`: `PoolRefined` says that `WorkerSession` implements
`WorkerPool`, so that what is proved of `Frontend` holds on top of the real worker
server. A step maps to a turn of one session, a sweep, a started command, a
reply or a stutter. The difficult part is that no caller is given two answers,
although a request may be sent in parts, again, or from behind its end. The
invariant `Owing` says why: of each caller one thing is left from which an answer
can come (`OneToken`), the first unit of its request on the way to the worker or
the answer on the way back, at one session only, and none once the answer was
given. A handler that has taken nothing completes with an error (`Counted`), so
a send that is started again has not sent the first unit before.
`RightStation` (theorem `OwnAnswersOnly`) follows from the steps of `WorkerPool` and
one more invariant (`Own`): as long as no session was asked while it owed an
answer, a session owes at most one, to its present callback, and `Owing` says that
it was not given before. `CounterAtRest` (`CounterRests`) follows from what each
step keeps of the history of a session (`AtRest`): while no send was begun over
another or cut short, at most one is under way, it takes all of the buffer it
finds, and its completion resets the counter in the same handler that adds to it.

`WorkerLink_proofs`: as long as no messages were answered on top of each other and
none of several threw (`Orderly`), `Sequential` holds: a connect, a receive or one completed handler,
with the counters and buffer that each finds. On that rests the ledger: a message
that is unanswered, in the parser, in a handler or on its way, is of this
connection, occurs once and has no answer yet (`Owed`); answers that arrived went
out on their request's connection (`Paid`); a half-written answer may still be
completed (`Partly`). That the loop of `__sendResponse` keeps to this for any
number of messages is an induction over the recursive function in `Responses`:
after two turns two sends are queued or one of them threw, and the history
variables `batched` and `forked` say so. `OneChain`, `CounterAtRest` and
`AnsweredOnceWhereAsked` follow.

`DbLoad_proofs`: `Inv` joins the types of both processes with a count: the
client's operations are no more than the loads begun (`OneChainPerLoad`), which
needs that every handler, `OnError`'s stop and start included, begins one
operation for the one it ends. When loads do not overlap, the operation and the
message under way in both processes are one (`Alone`), every message that names a
table names the last one asked for (`Known`), and only the latest connection
carries any (`SessionsOK`); `SingleFile` and `RowsOfTable` follow.

`LossCostsATable` (loads that do not overlap; any tables, verdicts, losses,
crashes, cut messages) needs accounts of every connection (`Budget`). The client
takes a table from its queue before it is answered, so the table asked for may be
missing without a loss (`Owed`); it must not be once the connection is given up
for a new one. Hence a connection that is lost, and has not said its farewell,
leaves a loss that is not spent yet (`Dead` in `Within`), and the table asked for
is charged to it when the client learns of it by an error (`WithinMore`). What is
said and told bounds where the farewell can come from (`Accounts`): the client
says goodbye only with an empty queue and nothing owed, a session only in answer
to that or to a query that SQLite refuses. After the parser has kept the first
part of an answer of a lost connection (`Stuck`) no answer is read any more, and
nothing is claimed. The accounts also tell that a farewell meets a client that
was let in and that only a login is refused, which is what `LoaderRefined`, the
refinement of `Loader` step by step, needs besides.

`NothingLeftBehind` and `LoadKeepsServing` are about the first load while it loses
no connection. `Lone` says where it can be: connecting, talking to the one session
there is, which is open until its farewell is under way, or hung up. A refused
login is excepted in the first (`"fail" \notin Verdicts`), since that session
is left behind by the code (`DataBaseServer.cpp:32`). The second, which is about
the sweep, is for logins that are accepted or not answered and queries that find a
row or are refused (`Verdicts \subseteq {"success", "none"}`,
`Empty \subseteq Refused`): unknown logins and queries without a row end the
process by themselves.

`Logger_proofs`: `TypeOK`, `LogInOrder` and `FileWithinLimit` are inductive
together, with the fact that queue and files hold numbers of messages only
(`Numbers`). `TypeOK` says that a queue at its limit has failed to be written, so
what is written otherwise is no longer than `MaxQueueSize`; `BytesBound` makes of
that a bound on what a file grows by, and the size looked at before
(`Full`) leaves room for it. What is kept of a queue is a first part of it, hence
files and queue stay a sequence of growing numbers (`OrderOfFirst`). `Bytes` and
`FlattenSeq` are recursive functions; that they exist and what they make of a
text that grows is shown by induction on sets of numbers (`Induction`), since
the library's induction theorems cannot be cited here.

Only model-checked: the liveness properties `FailedIsSwept`, `ClosedIsReleased`,
`NothingStaysUnread`, `ConnectionLetGo`, `Reconnects`, `RequestServed`, `LoadEnds`
and `FinishedIsSwept` (liveness under fairness is out of reach of the prover), and
that the three findings are violated. Every invariant, action property and
refinement that a passing run checks is proved, those of `DbLoad` under the
conditions named here, and all with the exceptions that the properties state.

## Not modelled

- Several threads (`Count_threads` above one). Handlers of one object, and of
  the vectors the servers keep, then run in parallel without a strand: undefined
  behaviour, about which a model could only say that anything may happen. All
  models take a handler as one step.
- The life of the processes. Each starts its modules in one fixed order and
  stops them in one; there is no other order to check. Seen while reading: a
  failed `init` leaves objects without their parts, which the destructor uses,
  and `Server::stop` of the worker server stops the last session only.
- Second pending accepts of SQLiteWebWrapper after one has failed, and the
  `disconnect` command of the main server, which it never sends.
- Several workers that hold dialogues. `HTTPSServer.cpp:213` compares where it
  should assign, so that no station is kept with its worker: in `Frontend` any
  worker may be asked next, `Dialog` is the engine of one. Several clients of
  SQLiteWebWrapper at a time are not modelled either.
- A session of SQLiteWebWrapper that repeats a send on a broken connection
  (`DataBaseServer.cpp:12-19, 202-212`): it never finishes, which no fairness
  excludes in `DbLoad`.
- `Configer`, `SystemStat` and `SSLSertificate` only read files and counters;
  `JSONFormatter` is modelled as far as its messages are told apart.

## Plan

1. (done) `WorkerSession`, `Conversation`, `Dialog`, `DbLoad` with their runs;
   proofs for `WorkerSession` and `Dialog`.
2. (done) `WorkerPool`, implemented by `WorkerSession` and used by `Frontend`;
   `WorkerLink`; the pool of database sessions in `DbLoad`; `Logger`; proofs for
   `Frontend`.
3. (done) Proofs for `DbLoad`, `WorkerLink` and `Logger`, and the refinement of
   `WorkerPool`.
4. (done) `Loader`, an abstract load, which `DbLoad` implements, with its proof.
5. (left) `WorkerLink` and `WorkerSession` over one connection, in place of the two
   environments that stand for each other now.
