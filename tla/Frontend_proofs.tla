-------------------------- MODULE Frontend_proofs --------------------------
(***************************************************************************)
(* TypeOK, OwnedCallback, AnsweredOnce and UndefinedHasCause of Frontend    *)
(* for any number of stations and workers, proved as one inductive          *)
(* invariant.                                                              *)
(***************************************************************************)
EXTENDS Frontend, SequenceTheorems, TLAPS

(* A session that has not read its request has not asked a worker, and has  *)
(* not been answered; only one that has asked is a worker's callback, or is *)
(* owed an answer.                                                          *)
NotReadYet(h) ==
    ~ conn[h].known \/ conn[h].op \in {"run", "handshake", "read"} =>
        conn[h].asked = {} /\ conn[h].sent = 0
NotAskedNotAnswered(h) == conn[h].asked = {} => got[h] = <<>>
AskedWhoOwes(h) == \A s \in Sess : h \in owed[s] \/ cb[s] = h => conn[h].asked = {s}

(* A worker that was never asked while it owed an answer owes one at most,  *)
(* to its callback, which has had no answer.                                *)
OwesOne == \A s \in Sess \ mixed : owed[s] \subseteq {cb[s]}
NotAnsweredYet(h) ==
    \A s \in Sess \ mixed : h \in owed[s] => conn[h].sent = 0 /\ got[h] = <<>>

(* A session that is live, or will be, is in the pool of the listener.      *)
ReadsLive(h) == conn[h].op = "read" => conn[h].live
InPool(h) ==
    ~ conn[h].early /\ (conn[h].live \/ conn[h].op \in {"run", "handshake"}) =>
        h \in Range(sessions)
BusyIsKnown(h) == conn[h].op # "none" => conn[h].known

Owned(h) ==
    \A s \in Sess :
        h \in owed[s] /\ cb[s] = h /\ got[h] = <<>> /\ ~ conn[h].early =>
            conn[h].live /\ conn[h].op = "none"

Answered(h) == conn[h].asked \cap mixed = {} => got[h] \in {<<>>, <<h>>} /\ conn[h].sent <= 1

Sound(h) ==
    /\ NotReadYet(h) /\ NotAskedNotAnswered(h) /\ AskedWhoOwes(h)
    /\ NotAnsweredYet(h) /\ ReadsLive(h) /\ InPool(h) /\ BusyIsKnown(h)
    /\ Owned(h) /\ Answered(h)

Inv == TypeOK /\ OwesOne /\ UndefinedHasCause /\ \A h \in Conns : Sound(h)

-----------------------------------------------------------------------------
(* Sequences. *)

LEMMA AppendFirst ==
    ASSUME NEW S, NEW q \in Seq(S), NEW x \in S
    PROVE  Append(q, x) # <<>> /\ (q = <<>> => Append(q, x) = <<x>>)
<1>1. Len(Append(q, x)) = Len(q) + 1 /\ Len(q) \in Nat
  BY AppendProperties
<1>2. Append(q, x) # <<>>
  BY <1>1
<1>3. Append(<<>>, x) = <<x>>
  OBVIOUS
<1> QED
  BY <1>2, <1>3

LEMMA RemoveAtType ==
    ASSUME NEW S, NEW q \in Seq(S), NEW i \in DOMAIN q
    PROVE  RemoveAt(q, i) \in Seq(S)
<1>1. i \in 1..Len(q) /\ Len(q) \in Nat
  OBVIOUS
<1>2. \A j \in 1..(i - 1) : q[j] \in S
  BY <1>1
<1>3. \A j \in (i + 1)..Len(q) : q[j] \in S
  BY <1>1
<1>4. SubSeq(q, 1, i - 1) \in Seq(S) /\ SubSeq(q, i + 1, Len(q)) \in Seq(S)
  BY <1>1, <1>2, <1>3, SubSeqProperties
<1> QED
  BY <1>4, ConcatProperties DEF RemoveAt

LEMMA RemoveAtKeeps ==
    ASSUME NEW S, NEW q \in Seq(S), NEW i \in DOMAIN q, NEW x \in Range(q), x # q[i]
    PROVE  x \in Range(RemoveAt(q, i))
<1> DEFINE a == SubSeq(q, 1, i - 1)
           b == SubSeq(q, i + 1, Len(q))
<1>1. i \in 1..Len(q) /\ Len(q) \in Nat
  OBVIOUS
<1>2. PICK j \in DOMAIN q : q[j] = x
  BY DEF Range
<1>3. j \in 1..Len(q) /\ j # i
  BY <1>2
<1>4. a \in Seq(S) /\ b \in Seq(S)
  <2>1. \A k \in 1..(i - 1) : q[k] \in S
    BY <1>1
  <2>2. \A k \in (i + 1)..Len(q) : q[k] \in S
    BY <1>1
  <2> QED
    BY <1>1, <2>1, <2>2, SubSeqProperties
<1>5. Len(a) = i - 1 /\ \A k \in 1..(i - 1) : a[k] = q[k]
  BY <1>1, SubSeqProperties
<1>6. Len(b) = Len(q) - i /\ \A k \in 1..(Len(q) - i) : b[k] = q[i + k]
  BY <1>1, SubSeqProperties
<1> HIDE DEF a, b
<1>7. CASE j < i
  <2>1. j \in DOMAIN (a \o b) /\ (a \o b)[j] = x
    BY <1>1, <1>2, <1>3, <1>4, <1>5, <1>6, <1>7, ConcatProperties
  <2> QED
    BY <2>1 DEF RemoveAt, Range, a, b
<1>8. CASE j > i
  <2>1. j - 1 \in DOMAIN (a \o b) /\ (a \o b)[j - 1] = b[j - i]
    BY <1>1, <1>2, <1>3, <1>4, <1>5, <1>6, <1>8, ConcatProperties
  <2>2. b[j - i] = x
    BY <1>1, <1>2, <1>3, <1>6, <1>8
  <2> QED
    BY <2>1, <2>2 DEF RemoveAt, Range, a, b
<1> QED
  BY <1>1, <1>3, <1>7, <1>8

LEMMA AppendKeeps ==
    ASSUME NEW S, NEW q \in Seq(S), NEW x \in S
    PROVE  /\ Append(q, x) \in Seq(S)
           /\ Range(q) \subseteq Range(Append(q, x))
           /\ x \in Range(Append(q, x))
BY DEF Range

-----------------------------------------------------------------------------
(* The worker server keeps its types. *)

LEMMA WorkersAccept ==
    ASSUME W!TypeOK, NEW s \in Sess, W!Accept(s)
    PROVE  W!TypeOK'
<1>1. Append(pool, s) \in Seq(Sess)
  BY AppendKeeps DEF W!TypeOK
<1> QED
  BY <1>1 DEF W!TypeOK, W!Accept

LEMMA WorkersTurn ==
    ASSUME W!TypeOK, NEW s \in Sess, NEW up \in BOOLEAN, W!Turn(s, up)
    PROVE  W!TypeOK' /\ \A t \in Sess : owed'[t] \subseteq owed[t]
BY DEF W!TypeOK, W!Turn, W!OwesSome

LEMMA WorkersSweep ==
    ASSUME W!TypeOK, W!Sweep
    PROVE  W!TypeOK' /\ \A t \in Sess : owed'[t] \subseteq owed[t]
<1>1. PICK i \in DOMAIN pool :
        /\ pool' = RemoveAt(pool, i)
        /\ W!OwesSome(pool[i], owed[pool[i]])
        /\ UNCHANGED <<made, live, cb, got>>
  BY DEF W!Sweep, W!RemoveAt, RemoveAt
<1>2. pool' \in Seq(Sess) /\ pool[i] \in Sess
  BY <1>1, RemoveAtType DEF W!TypeOK
<1> QED
  BY <1>1, <1>2 DEF W!TypeOK, W!OwesSome

LEMMA WorkersStart ==
    ASSUME W!TypeOK, NEW s \in Sess, NEW h \in Conns, W!StartCommand(s, h)
    PROVE  /\ W!TypeOK' /\ got' = got
           /\ \/ cb' = [cb EXCEPT ![s] = h] /\ owed'[s] \subseteq owed[s] \cup {h}
              \/ cb' = cb /\ owed'[s] = owed[s]
           /\ \A t \in Sess \ {s} : owed'[t] = owed[t]
<1> DEFINE pools == Seq(Sess)
           gots == [Conns -> Seq(Conns)]
<1>0. pool \in pools /\ got \in gots /\ pool' = pool /\ made' = made /\ live' = live /\ got' = got
  BY DEF W!TypeOK, W!StartCommand
<1>1. CASE live[s]
  <2> HIDE DEF pools, gots
  <2>0. PICK some \in SUBSET (owed[s] \cup {h}) : owed' = [owed EXCEPT ![s] = some]
    BY <1>1 DEF W!StartCommand, W!OwesSome
  <2>o. owed \in [Sess -> SUBSET Conns]
    BY DEF W!TypeOK
  <2>t. some \in SUBSET Conns
    BY <2>0, <2>o
  <2>1. cb' = [cb EXCEPT ![s] = h] /\ owed' \in [Sess -> SUBSET Conns]
        /\ owed'[s] \subseteq owed[s] \cup {h} /\ \A t \in Sess \ {s} : owed'[t] = owed[t]
    BY <1>1, <2>0, <2>o, <2>t DEF W!StartCommand
  <2>2. cb' \in [Sess -> Conns \cup {NoConn}]
    BY <2>1 DEF W!TypeOK
  <2> QED
    BY <1>0, <2>1, <2>2 DEF W!TypeOK, pools, gots
<1>2. CASE ~ live[s]
  BY <1>0, <1>2 DEF W!TypeOK, W!StartCommand
<1> QED
  BY <1>1, <1>2

LEMMA WorkersReply ==
    ASSUME W!TypeOK, NEW s \in Sess, NEW st \in Conns, W!Reply(s, st)
    PROVE  /\ W!TypeOK' /\ cb' = cb
           /\ st \in owed[s] /\ cb[s] \in Conns
           /\ got' = [got EXCEPT ![cb[s]] = Append(@, st)]
           /\ owed'[s] \subseteq owed[s] \ {st}
           /\ \A t \in Sess \ {s} : owed'[t] = owed[t]
<1>1. cb[s] \in Conns
  BY DEF W!TypeOK, W!Reply
<1> QED
  BY <1>1 DEF W!TypeOK, W!Reply, W!OwesSome

-----------------------------------------------------------------------------
(* What keeps Inv. *)

OwnType ==
    /\ sessions \in Seq(Conns)
    /\ conn \in [Conns -> Session]
    /\ listening \in BOOLEAN
    /\ process \in {"runs", "ended", "undefined"}
    /\ mixed \in SUBSET Sess

LEMMA TypeParts == TypeOK <=> OwnType /\ W!TypeOK
BY DEF TypeOK, OwnType

(* The workers may lose answers. *)
LEMMA OwesLess ==
    ASSUME Inv, \A s \in Sess : owed'[s] \subseteq owed[s],
           UNCHANGED <<sessions, conn, mixed, cb, got>>
    PROVE  OwesOne' /\ \A h \in Conns : Sound(h)'
<1>1. OwesOne'
  BY DEF Inv, OwesOne
<1>2. ASSUME NEW h \in Conns PROVE Sound(h)'
  <2>1. Sound(h)
    BY DEF Inv
  <2>2. NotReadYet(h)' /\ NotAskedNotAnswered(h)' /\ ReadsLive(h)' /\ InPool(h)'
        /\ BusyIsKnown(h)' /\ Answered(h)'
    BY <2>1 DEF Sound, NotReadYet, NotAskedNotAnswered, ReadsLive, InPool, BusyIsKnown, Answered
  <2>3. AskedWhoOwes(h)' /\ NotAnsweredYet(h)' /\ Owned(h)'
    BY <2>1 DEF Sound, AskedWhoOwes, NotAnsweredYet, Owned
  <2> QED
    BY <2>2, <2>3 DEF Sound
<1> QED
  BY <1>1, <1>2

(* A handler moves its own session from one operation to the next, and      *)
(* begins an answer only when it has read a request.                        *)
Early == {"run", "handshake", "read"}
Moved(c, r) ==
    /\ c.op # "none" /\ r \in Session
    /\ r.known = c.known /\ r.asked = c.asked /\ r.early = c.early
    /\ r.op \in Early => c.op \in Early /\ r.sent = c.sent
    /\ r.sent = c.sent \/ (c.op = "read" /\ r.sent = c.sent + 1)
    /\ r.op = "read" => r.live
    /\ r.live \/ r.op \in {"run", "handshake"} => c.live \/ c.op \in {"run", "handshake"}

LEMMA HandlerMoves ==
    ASSUME Inv, NEW h \in Conns, NEW r, Moved(conn[h], r), Update(h, r),
           UNCHANGED <<sessions, listening, mixed, workers>>,
           process' = process \/ process' = "ended"
    PROVE  Inv'
<1> DEFINE c == conn[h]
<1>1. conn' = [conn EXCEPT ![h] = r] /\ conn \in [Conns -> Session] /\ r \in Session
  BY DEF Update, Inv, TypeOK, Moved
<1>2. UNCHANGED <<cb, owed, got, pool, made, live>>
  BY DEF workers
<1>3. TypeOK'
  <2>1. OwnType'
    BY <1>1, TypeParts DEF Inv, OwnType
  <2>2. W!TypeOK'
    BY <1>2, TypeParts DEF Inv, W!TypeOK
  <2> QED
    BY <2>1, <2>2, TypeParts DEF TypeOK, OwnType
<1>4. OwesOne'
  BY <1>2 DEF Inv, OwesOne
<1>5. ASSUME NEW g \in Conns \ {h} PROVE Sound(g)'
  <2>1. Sound(g) /\ conn'[g] = conn[g]
    BY <1>1, <1>5 DEF Inv
  <2>2. NotReadYet(g)' /\ NotAskedNotAnswered(g)' /\ ReadsLive(g)' /\ InPool(g)'
        /\ BusyIsKnown(g)' /\ Answered(g)'
    BY <1>2, <2>1 DEF Sound, NotReadYet, NotAskedNotAnswered, ReadsLive, InPool, BusyIsKnown, Answered
  <2>3. AskedWhoOwes(g)' /\ NotAnsweredYet(g)' /\ Owned(g)'
    BY <1>2, <2>1 DEF Sound, AskedWhoOwes, NotAnsweredYet, Owned
  <2> QED
    BY <2>2, <2>3 DEF Sound
<1>6. Sound(h)'
  <2>1. Sound(h) /\ conn'[h] = r /\ c \in Session
    BY <1>1 DEF Inv
  <2>2. c.known
    BY <2>1 DEF Sound, BusyIsKnown, Moved
  <2>3. NotReadYet(h)' /\ BusyIsKnown(h)' /\ ReadsLive(h)' /\ InPool(h)'
    BY <2>1, <2>2 DEF Sound, NotReadYet, BusyIsKnown, ReadsLive, InPool, Moved, Early
  <2>4. NotAskedNotAnswered(h)' /\ AskedWhoOwes(h)'
    BY <1>2, <2>1 DEF Sound, NotAskedNotAnswered, AskedWhoOwes, Moved
  <2>5. NotAnsweredYet(h)'
    <3>1. c.op = "read" => \A s \in Sess : h \notin owed[s]
      BY <2>1 DEF Sound, NotReadYet, AskedWhoOwes
    <3> QED
      BY <1>2, <2>1, <3>1 DEF Sound, NotAnsweredYet, Moved
  <2>6. Owned(h)'
    BY <1>2, <2>1 DEF Sound, Owned, Moved
  <2>7. Answered(h)'
    <3>1. c.op = "read" => c.sent = 0
      BY <2>1 DEF Sound, NotReadYet
    <3>2. c.sent \in Nat
      BY <2>1 DEF Session
    <3> QED
      BY <1>2, <2>1, <3>1, <3>2 DEF Sound, Answered, Moved
  <2> QED
    BY <2>3, <2>4, <2>5, <2>6, <2>7 DEF Sound
<1>7. UndefinedHasCause'
  <2>1. \A g \in Conns : conn[g].early => conn'[g].early
    BY <1>1 DEF Moved
  <2> QED
    BY <2>1 DEF Inv, UndefinedHasCause
<1> QED
  BY <1>3, <1>4, <1>5, <1>6, <1>7 DEF Inv

-----------------------------------------------------------------------------
(* The actions. *)

LEMMA InitInv == Init => Inv
<1> SUFFICES ASSUME Init PROVE Inv
  OBVIOUS
<1>1. TypeOK
  BY FrontendAssumption DEF Init, TypeOK, Session, NewSession, Operations, W!Init, W!TypeOK
<1>2. OwesOne /\ UndefinedHasCause
  BY DEF Init, OwesOne, UndefinedHasCause, W!Init
<1>3. ASSUME NEW h \in Conns PROVE Sound(h)
  <2>1. conn[h] = NewSession /\ mixed = {} /\ got[h] = <<>>
    BY DEF Init, W!Init
  <2>2. \A s \in Sess : owed[s] = {} /\ cb[s] # h
    BY FrontendAssumption DEF Init, W!Init
  <2> QED
    BY <2>1, <2>2 DEF Sound, NotReadYet, NotAskedNotAnswered, AskedWhoOwes, NotAnsweredYet,
       ReadsLive, InPool, BusyIsKnown, Owned, Answered, NewSession
<1> QED
  BY <1>1, <1>2, <1>3 DEF Inv

LEMMA OnAcceptStep ==
    ASSUME Inv, NEW h \in Conns, OnAccept(h)
    PROVE  Inv'
<1> DEFINE r == [conn[h] EXCEPT !.known = TRUE, !.op = "run"]
<1>1. /\ conn' = [conn EXCEPT ![h] = r] /\ sessions' = Append(sessions, h)
      /\ UNCHANGED <<listening, process, mixed, cb, owed, got, pool, made, live>>
      /\ ~ conn[h].known
  BY DEF OnAccept, Update, workers
<1>2. conn \in [Conns -> Session] /\ sessions \in Seq(Conns)
  BY DEF Inv, TypeOK
<1>3. /\ sessions' \in Seq(Conns) /\ Range(sessions) \subseteq Range(sessions')
      /\ h \in Range(sessions')
  BY <1>1, <1>2, AppendKeeps
<1>4. r \in Session
  BY <1>2 DEF Session, Operations
<1>5. TypeOK'
  BY <1>1, <1>2, <1>3, <1>4 DEF Inv, TypeOK, W!TypeOK
<1>6. OwesOne'
  BY <1>1 DEF Inv, OwesOne
<1>7. UndefinedHasCause'
  BY <1>1, <1>2 DEF Inv, UndefinedHasCause, Session
<1>8. ASSUME NEW g \in Conns \ {h} PROVE Sound(g)'
  <2>1. Sound(g) /\ conn'[g] = conn[g]
    BY <1>1, <1>2 DEF Inv
  <2>2. NotReadYet(g)' /\ NotAskedNotAnswered(g)' /\ ReadsLive(g)' /\ InPool(g)'
        /\ BusyIsKnown(g)' /\ Answered(g)'
    BY <1>1, <1>3, <2>1
       DEF Sound, NotReadYet, NotAskedNotAnswered, ReadsLive, InPool, BusyIsKnown, Answered
  <2>3. AskedWhoOwes(g)' /\ NotAnsweredYet(g)' /\ Owned(g)'
    BY <1>1, <2>1 DEF Sound, AskedWhoOwes, NotAnsweredYet, Owned
  <2> QED
    BY <2>2, <2>3 DEF Sound
<1>9. Sound(h)'
  <2>1. Sound(h) /\ conn'[h] = r /\ conn[h] \in Session
    BY <1>1, <1>2 DEF Inv
  <2>2. conn[h].asked = {} /\ conn[h].sent = 0
    BY <1>1, <2>1 DEF Sound, NotReadYet
  <2>3. \A s \in Sess : h \notin owed[s] /\ cb[s] # h
    BY <2>1, <2>2 DEF Sound, AskedWhoOwes
  <2>4. /\ r.asked = {} /\ r.sent = 0 /\ r.op = "run" /\ r.known /\ r.live = conn[h].live
        /\ got'[h] = <<>>
    BY <1>1, <2>1, <2>2 DEF Sound, NotAskedNotAnswered, Session
  <2> HIDE DEF r
  <2> QED
    BY <1>1, <1>3, <2>1, <2>3, <2>4 DEF Sound, NotReadYet, NotAskedNotAnswered, AskedWhoOwes,
       NotAnsweredYet, ReadsLive, InPool, BusyIsKnown, Owned, Answered
<1> QED
  BY <1>5, <1>6, <1>7, <1>8, <1>9 DEF Inv

LEMMA KillSessionStep ==
    ASSUME Inv, KillSession
    PROVE  Inv'
<1>0. PICK i \in DOMAIN sessions :
        /\ ~ conn[sessions[i]].live
        /\ sessions' = RemoveAt(sessions, i)
        /\ Update(sessions[i], [conn[sessions[i]] EXCEPT !.early =
                        @ \/ conn[sessions[i]].op \in {"run", "handshake"}])
  BY DEF KillSession
<1>1. PICK h \in Conns : h = sessions[i]
  BY <1>0 DEF Inv, TypeOK
<1> DEFINE r == [conn[h] EXCEPT !.early = @ \/ conn[h].op \in {"run", "handshake"}]
<1>2. /\ conn \in [Conns -> Session] /\ sessions \in Seq(Conns)
      /\ conn[h] \in Session /\ ~ conn[h].live
  BY <1>0, <1>1 DEF Inv, TypeOK
<1>3. /\ conn' = [conn EXCEPT ![h] = r] /\ sessions' \in Seq(Conns)
      /\ UNCHANGED <<listening, process, mixed, cb, owed, got, pool, made, live>>
  BY <1>0, <1>1, <1>2, RemoveAtType DEF KillSession, Update, workers
<1>4. \A g \in Conns \ {h} : g \in Range(sessions) => g \in Range(sessions')
  BY <1>0, <1>1, <1>2, RemoveAtKeeps
<1>5. /\ r \in Session /\ r.op = conn[h].op /\ r.known = conn[h].known
      /\ r.live = conn[h].live /\ r.asked = conn[h].asked /\ r.sent = conn[h].sent
      /\ conn[h].early => r.early
      /\ conn[h].op \in {"run", "handshake"} => r.early
  BY <1>2 DEF Session
<1> HIDE DEF r
<1>6. TypeOK'
  BY <1>2, <1>3, <1>5 DEF Inv, TypeOK, W!TypeOK
<1>7. OwesOne' /\ UndefinedHasCause'
  BY <1>2, <1>3, <1>5 DEF Inv, OwesOne, UndefinedHasCause
<1>8. ASSUME NEW g \in Conns \ {h} PROVE Sound(g)'
  <2>1. Sound(g) /\ conn'[g] = conn[g]
    BY <1>2, <1>3 DEF Inv
  <2>2. NotReadYet(g)' /\ NotAskedNotAnswered(g)' /\ ReadsLive(g)' /\ InPool(g)'
        /\ BusyIsKnown(g)' /\ Answered(g)'
    BY <1>3, <1>4, <2>1
       DEF Sound, NotReadYet, NotAskedNotAnswered, ReadsLive, InPool, BusyIsKnown, Answered
  <2>3. AskedWhoOwes(g)' /\ NotAnsweredYet(g)' /\ Owned(g)'
    BY <1>3, <2>1 DEF Sound, AskedWhoOwes, NotAnsweredYet, Owned
  <2> QED
    BY <2>2, <2>3 DEF Sound
<1>9. Sound(h)'
  <2>1. Sound(h) /\ conn'[h] = r
    BY <1>2, <1>3 DEF Inv
  <2>2. NotReadYet(h)' /\ NotAskedNotAnswered(h)' /\ ReadsLive(h)' /\ InPool(h)'
        /\ BusyIsKnown(h)' /\ Answered(h)'
    BY <1>2, <1>3, <1>5, <2>1
       DEF Sound, NotReadYet, NotAskedNotAnswered, ReadsLive, InPool, BusyIsKnown, Answered
  <2>3. AskedWhoOwes(h)' /\ NotAnsweredYet(h)' /\ Owned(h)'
    BY <1>3, <1>5, <2>1 DEF Sound, AskedWhoOwes, NotAnsweredYet, Owned
  <2> QED
    BY <2>2, <2>3 DEF Sound
<1> QED
  BY <1>6, <1>7, <1>8, <1>9 DEF Inv

(* A request is given to a worker: whichever it is, the session is its      *)
(* callback or the worker has failed.                                       *)
LEMMA AskStep ==
    ASSUME Inv, NEW h \in Conns, NEW s \in Sess, NEW keep \in BOOLEAN,
           Pending(h, "read"), W!StartCommand(s, h),
           Update(h, [conn[h] EXCEPT !.op = "none", !.keep = keep, !.asked = {s}]),
           mixed' = IF owed[s] = {} THEN mixed ELSE mixed \cup {s},
           UNCHANGED <<sessions, listening, process>>
    PROVE  Inv'
<1> DEFINE r == [conn[h] EXCEPT !.op = "none", !.keep = keep, !.asked = {s}]
<1>1. /\ conn \in [Conns -> Session] /\ conn[h] \in Session /\ conn' = [conn EXCEPT ![h] = r]
      /\ mixed \in SUBSET Sess /\ mixed' \in SUBSET Sess /\ mixed \subseteq mixed'
      /\ W!TypeOK
  BY DEF Inv, TypeOK, Update
<1>2. /\ r \in Session /\ r.op = "none" /\ r.asked = {s} /\ r.sent = conn[h].sent
      /\ r.known = conn[h].known /\ r.live = conn[h].live /\ r.early = conn[h].early
  BY <1>1 DEF Session, Operations
<1> HIDE DEF r
<1>3. /\ W!TypeOK' /\ got' = got
      /\ \/ cb' = [cb EXCEPT ![s] = h] /\ owed'[s] \subseteq owed[s] \cup {h}
         \/ cb' = cb /\ owed'[s] = owed[s]
      /\ \A t \in Sess \ {s} : owed'[t] = owed[t]
  BY <1>1, WorkersStart
<1>4. cb \in [Sess -> Conns \cup {NoConn}] /\ got \in [Conns -> Seq(Conns)]
  BY <1>1 DEF W!TypeOK
<1>5. TypeOK'
  BY <1>1, <1>2, <1>3 DEF Inv, TypeOK
<1>6. OwesOne'
  <2>1. ASSUME NEW t \in Sess \ mixed', t # s PROVE owed'[t] \subseteq {cb'[t]}
    BY <1>1, <1>3, <1>4, <2>1 DEF Inv, OwesOne
  <2>2. s \notin mixed' => owed'[s] \subseteq {cb'[s]}
    BY <1>3, <1>4
  <2> QED
    BY <2>1, <2>2 DEF OwesOne
<1>7. UndefinedHasCause'
  BY <1>1, <1>2 DEF Inv, UndefinedHasCause
<1>8. ASSUME NEW g \in Conns \ {h} PROVE Sound(g)'
  <2>1. Sound(g) /\ conn'[g] = conn[g]
    BY <1>1 DEF Inv
  <2>2. \A t \in Sess : /\ g \in owed'[t] => g \in owed[t]
                        /\ cb'[t] = g => cb[t] = g
    BY <1>3, <1>4
  <2>3. NotReadYet(g)' /\ NotAskedNotAnswered(g)' /\ ReadsLive(g)' /\ InPool(g)'
        /\ BusyIsKnown(g)'
    BY <1>3, <2>1 DEF Sound, NotReadYet, NotAskedNotAnswered, ReadsLive, InPool, BusyIsKnown
  <2>4. AskedWhoOwes(g)' /\ NotAnsweredYet(g)' /\ Owned(g)'
    BY <1>1, <1>3, <2>1, <2>2 DEF Sound, AskedWhoOwes, NotAnsweredYet, Owned
  <2>5. Answered(g)'
    BY <1>1, <1>3, <2>1 DEF Sound, Answered
  <2> QED
    BY <2>3, <2>4, <2>5 DEF Sound
<1>9. Sound(h)'
  <2>1. Sound(h) /\ conn'[h] = r /\ conn[h].op = "read"
    BY <1>1 DEF Inv, Pending
  <2>2. conn[h].asked = {} /\ conn[h].sent = 0 /\ conn[h].live /\ conn[h].known /\ got[h] = <<>>
    BY <2>1 DEF Sound, NotReadYet, ReadsLive, BusyIsKnown, NotAskedNotAnswered
  <2>3. \A t \in Sess : h \notin owed[t] /\ cb[t] # h
    BY <2>1, <2>2 DEF Sound, AskedWhoOwes
  <2>4. \A t \in Sess : h \in owed'[t] \/ cb'[t] = h => t = s
    BY <1>3, <1>4, <2>3
  <2>5. NotReadYet(h)' /\ NotAskedNotAnswered(h)' /\ AskedWhoOwes(h)'
    BY <1>2, <2>1, <2>2, <2>4 DEF NotReadYet, NotAskedNotAnswered, AskedWhoOwes
  <2>6. ReadsLive(h)' /\ InPool(h)' /\ BusyIsKnown(h)'
    BY <1>2, <2>1, <2>2 DEF Sound, ReadsLive, InPool, BusyIsKnown
  <2>7. /\ conn'[h].sent = 0 /\ conn'[h].live /\ conn'[h].op = "none"
        /\ got'[h] = <<>>
    BY <1>2, <1>3, <2>1, <2>2
  <2>8. NotAnsweredYet(h)'
    BY <2>7 DEF NotAnsweredYet
  <2>9. Owned(h)'
    BY <2>7 DEF Owned
  <2>10. Answered(h)'
    BY <2>7 DEF Answered
  <2> QED
    BY <2>5, <2>6, <2>8, <2>9, <2>10 DEF Sound
<1> QED
  BY <1>5, <1>6, <1>7, <1>8, <1>9 DEF Inv

(* A worker's answer: without another's in the way it is the one that the   *)
(* session waits for, and the session is there and free to write it.        *)
LEMMA CallbackStep ==
    ASSUME Inv, NEW s \in Sess, NEW st \in Conns, Callback(s, st)
    PROVE  Inv'
<1>1. /\ W!TypeOK /\ conn \in [Conns -> Session] /\ mixed \in SUBSET Sess
      /\ UNCHANGED <<sessions, listening, mixed>>
  BY DEF Inv, TypeOK, Callback
<1>2. /\ W!TypeOK' /\ cb' = cb /\ st \in owed[s] /\ cb[s] \in Conns
      /\ got' = [got EXCEPT ![cb[s]] = Append(@, st)]
      /\ owed'[s] \subseteq owed[s] \ {st}
      /\ \A t \in Sess \ {s} : owed'[t] = owed[t]
  BY <1>1, WorkersReply DEF Callback
<1>3. PICK h \in Conns : h = cb[s]
  BY <1>2
<1> DEFINE r == SendResponse(conn[h], conn[h].keep)
<1>4. /\ process = "runs"
      /\ \/ /\ Allocated(h) /\ conn[h].op = "none"
            /\ conn' = [conn EXCEPT ![h] = r] /\ process' = process
         \/ /\ ~ (Allocated(h) /\ conn[h].op = "none")
            /\ conn' = conn /\ process' = "undefined"
  BY <1>3 DEF Callback, Update
<1>5. /\ r \in Session /\ r.op = "write" /\ r.sent = conn[h].sent + 1
      /\ r.known = conn[h].known /\ r.live = conn[h].live /\ r.early = conn[h].early
      /\ r.asked = conn[h].asked
  <2>1. conn[h] \in Session
    BY <1>1
  <2>2. conn[h].sent + 1 \in Nat /\ conn[h].keep \in BOOLEAN
    BY <2>1 DEF Session
  <2> QED
    BY <2>1, <2>2 DEF Session, Operations, SendResponse
<1> HIDE DEF r
<1>6. got \in [Conns -> Seq(Conns)] /\ got'[h] = Append(got[h], st)
      /\ \A g \in Conns \ {h} : got'[g] = got[g] /\ conn'[g] = conn[g]
  BY <1>1, <1>2, <1>3, <1>4 DEF W!TypeOK
<1>7. conn'[h] = conn[h] \/ conn'[h] = r
  BY <1>1, <1>4
<1>8. Sound(h) /\ conn[h].asked = {s} /\ conn[h].known
  BY <1>3 DEF Inv, Sound, AskedWhoOwes, NotReadYet
<1>9. \A t \in Sess : owed'[t] \subseteq owed[t]
  BY <1>2
<1>10. s \notin mixed => /\ st = h /\ owed[s] \subseteq {h}
                         /\ conn[h].sent = 0 /\ got[h] = <<>>
  BY <1>2, <1>3, <1>8 DEF Inv, OwesOne, Sound, NotAnsweredYet
<1>11. TypeOK'
  BY <1>1, <1>2, <1>4, <1>5 DEF Inv, TypeOK
<1>12. OwesOne'
  BY <1>1, <1>2, <1>9 DEF Inv, OwesOne
<1>13. UndefinedHasCause'
  <2> SUFFICES ASSUME process' = "undefined", mixed' = {}, \A g \in Conns : ~ conn'[g].early
               PROVE  FALSE
    BY DEF UndefinedHasCause
  <2>1. s \notin mixed /\ ~ conn[h].early
    BY <1>1, <1>5, <1>7
  <2>2. h \in owed[s] /\ cb[s] = h /\ got[h] = <<>>
    BY <1>2, <1>3, <1>10, <2>1
  <2>3. conn[h].live /\ conn[h].op = "none"
    BY <1>8, <2>1, <2>2 DEF Sound, Owned
  <2>4. Allocated(h)
    BY <1>8, <2>1, <2>3 DEF Sound, InPool, Allocated
  <2> QED
    BY <1>4, <2>3, <2>4
<1>14. ASSUME NEW g \in Conns \ {h} PROVE Sound(g)'
  <2>1. Sound(g) /\ conn'[g] = conn[g] /\ got'[g] = got[g]
    BY <1>6 DEF Inv
  <2>2. NotReadYet(g)' /\ NotAskedNotAnswered(g)' /\ ReadsLive(g)' /\ InPool(g)'
        /\ BusyIsKnown(g)' /\ Answered(g)'
    BY <1>1, <2>1
       DEF Sound, NotReadYet, NotAskedNotAnswered, ReadsLive, InPool, BusyIsKnown, Answered
  <2>3. AskedWhoOwes(g)' /\ NotAnsweredYet(g)' /\ Owned(g)'
    BY <1>1, <1>2, <1>9, <2>1 DEF Sound, AskedWhoOwes, NotAnsweredYet, Owned
  <2> QED
    BY <2>2, <2>3 DEF Sound
<1>15. Sound(h)'
  <2>got. got'[h] # <<>> /\ (got[h] = <<>> => got'[h] = <<st>>)
    <3>1. st \in Conns /\ got[h] \in Seq(Conns)
      BY <1>1, <1>2, <1>6 DEF W!TypeOK
    <3> DEFINE q == got[h]
    <3>2. q \in Seq(Conns) /\ got'[h] = Append(q, st) /\ Len(q) \in Nat
      BY <1>6, <3>1
    <3> HIDE DEF q
    <3>3. Append(q, st) # <<>> /\ (q = <<>> => Append(q, st) = <<st>>)
      BY <3>1, <3>2, AppendFirst
    <3> QED
      BY <3>2, <3>3 DEF q
  <2>1. NotReadYet(h)' /\ NotAskedNotAnswered(h)'
    BY <1>5, <1>7, <1>8 DEF Sound, NotReadYet, NotAskedNotAnswered
  <2>2. AskedWhoOwes(h)'
    BY <1>2, <1>5, <1>7, <1>8, <1>9 DEF Sound, AskedWhoOwes
  <2>3. ReadsLive(h)' /\ InPool(h)' /\ BusyIsKnown(h)'
    BY <1>1, <1>5, <1>7, <1>8 DEF Sound, ReadsLive, InPool, BusyIsKnown
  <2>4. NotAnsweredYet(h)'
    <3> SUFFICES ASSUME NEW t \in Sess \ mixed, h \in owed'[t] PROVE FALSE
      BY <1>1 DEF NotAnsweredYet
    <3>1. t = s
      BY <1>8, <1>9 DEF Sound, AskedWhoOwes
    <3> QED
      BY <1>2, <1>10, <3>1
  <2>5. Owned(h)'
    BY <1>6, <2>got DEF Owned
  <2>6. Answered(h)'
    <3> SUFFICES ASSUME s \notin mixed
                 PROVE  got'[h] \in {<<>>, <<h>>} /\ conn'[h].sent <= 1
      BY <1>1, <1>5, <1>7, <1>8 DEF Answered
    <3>1. st = h /\ conn[h].sent = 0 /\ got[h] = <<>>
      BY <1>10
    <3>2. got'[h] = <<h>>
      BY <2>got, <3>1
    <3>3. conn'[h].sent \in {0, 1}
      BY <1>5, <1>7, <3>1
    <3> QED
      BY <3>2, <3>3
  <2> QED
    BY <2>1, <2>2, <2>3, <2>4, <2>5, <2>6 DEF Sound
<1> QED
  BY <1>11, <1>12, <1>13, <1>14, <1>15 DEF Inv

LEMMA ConnType ==
    ASSUME Inv, NEW h \in Conns
    PROVE  /\ conn[h] \in Session /\ conn[h].sent \in Nat /\ conn[h].sent + 1 \in Nat
           /\ conn[h].tries \in 0..ReconnectMax /\ ReconnectMax \in Nat
           /\ conn[h].known \in BOOLEAN /\ conn[h].keep \in BOOLEAN
           /\ ReadsLive(h) /\ NotReadYet(h)
<1>1. conn[h] \in Session
  BY DEF Inv, TypeOK
<1>2. conn[h].sent \in Nat
  BY <1>1 DEF Session
<1> QED
  BY <1>1, <1>2, FrontendAssumption DEF Inv, Sound, Session

(* What the handlers make of a session that is theirs. *)
LEMMA ResponseMoves ==
    ASSUME Inv, NEW h \in Conns, NEW keep \in BOOLEAN, conn[h].op = "read"
    PROVE  /\ Moved(conn[h], SendResponse(conn[h], keep))
           /\ Moved(conn[h], SendResponse([conn[h] EXCEPT !.live = FALSE], keep))
<1>1. SendResponse(conn[h], keep) \in Session
  BY ConnType DEF SendResponse, Session, Operations
<1>2. SendResponse([conn[h] EXCEPT !.live = FALSE], keep) \in Session
  BY ConnType DEF SendResponse, Session, Operations
<1> QED
  BY <1>1, <1>2, ConnType DEF SendResponse, Moved, Early, Session, ReadsLive

LEMMA CloseMoves ==
    ASSUME Inv, NEW h \in Conns, conn[h].op # "none"
    PROVE  Moved(conn[h], DoClose(conn[h])) /\ Moved(conn[h], GiveUp(conn[h]))
<1>1. DoClose(conn[h]) \in Session /\ GiveUp(conn[h]) \in Session
  BY ConnType DEF DoClose, GiveUp, Session, Operations
<1> QED
  BY <1>1, ConnType DEF DoClose, GiveUp, Moved, Early, Session

LEMMA RunHandlerStep ==
    ASSUME Inv, NEW h \in Conns, RunHandler(h)
    PROVE  Inv'
<1> DEFINE c == conn[h]
<1>1. CASE OnRun(h)
  <2> DEFINE r == [c EXCEPT !.op = "handshake"]
  <2>1. r \in Session
    BY ConnType DEF Session, Operations
  <2>2. Moved(c, r)
    BY <1>1, <2>1, ConnType DEF OnRun, Pending, Moved, Early, Session
  <2> QED
    BY <1>1, <2>2, HandlerMoves DEF OnRun
<1>2. CASE OnHandshake(h)
  <2> DEFINE r == [c EXCEPT !.live = TRUE, !.op = "read"]
  <2>1. r \in Session
    BY ConnType DEF Session, Operations
  <2>2. Moved(c, r)
    BY <1>2, <2>1, ConnType DEF OnHandshake, Pending, Moved, Early, Session
  <2> QED
    BY <1>2, <2>2, HandlerMoves DEF OnHandshake
<1>3. CASE OnHandshakeFailed(h)
  <2>1. CASE process' = "ended" /\ UNCHANGED conn
    <3>1. c = [c EXCEPT !.op = c.op] /\ conn' = [conn EXCEPT ![h] = c]
      BY <2>1, ConnType DEF Inv, TypeOK, Session
    <3>2. Moved(c, c)
      BY <1>3, ConnType DEF OnHandshakeFailed, Pending, Moved, Early, ReadsLive, Session
    <3> QED
      BY <1>3, <2>1, <3>1, <3>2, HandlerMoves DEF OnHandshakeFailed, Update
  <2>2. CASE /\ c.tries < ReconnectMax
             /\ Update(h, [c EXCEPT !.tries = @ + 1])
             /\ UNCHANGED process
    <3> DEFINE r == [c EXCEPT !.tries = @ + 1]
    <3>1. c.tries + 1 \in 0..ReconnectMax
      BY <2>2, ConnType
    <3>2. r \in Session
      BY <3>1, ConnType DEF Session
    <3>3. Moved(c, r)
      BY <1>3, <3>2, ConnType DEF OnHandshakeFailed, Pending, Moved, Early, Session
    <3> QED
      BY <1>3, <2>2, <3>3, HandlerMoves DEF OnHandshakeFailed
  <2>3. CASE /\ Update(h, [c EXCEPT !.live = FALSE, !.op = "none"])
             /\ UNCHANGED process
    <3> DEFINE r == [c EXCEPT !.live = FALSE, !.op = "none"]
    <3>1. r \in Session
      BY ConnType DEF Session, Operations
    <3>2. Moved(c, r)
      BY <1>3, <3>1, ConnType DEF OnHandshakeFailed, Pending, Moved, Early, Session
    <3> QED
      BY <1>3, <2>3, <3>2, HandlerMoves DEF OnHandshakeFailed
  <2> QED
    BY <1>3, <2>1, <2>2, <2>3 DEF OnHandshakeFailed
<1>4. CASE OnReadFailed(h)
  BY <1>4, CloseMoves, HandlerMoves DEF OnReadFailed, Pending
<1>5. CASE OnReadOther(h)
  BY <1>5, ResponseMoves, HandlerMoves DEF OnReadOther, Pending
<1>6. CASE OnReadPost(h)
  <2>1. PICK keep \in BOOLEAN, pos \in 1..(Len(pool) + 1) :
          LET r == [c EXCEPT !.op = "none", !.keep = keep]
          IN  IF pos > Len(pool)
              THEN /\ Update(h, r)
                   /\ UNCHANGED <<mixed, workers>>
              ELSE /\ Update(h, [r EXCEPT !.asked = {pool[pos]}])
                   /\ mixed' = IF owed[pool[pos]] = {} THEN mixed
                               ELSE mixed \cup {pool[pos]}
                   /\ W!StartCommand(pool[pos], h)
    BY <1>6 DEF OnReadPost
  <2> DEFINE r == [c EXCEPT !.op = "none", !.keep = keep]
  <2>2. CASE pos > Len(pool)
    <3>1. r \in Session
      BY ConnType DEF Session, Operations
    <3>2. Moved(c, r)
      BY <1>6, <3>1, ConnType DEF OnReadPost, Pending, Moved, Early, ReadsLive, Session
    <3> QED
      BY <1>6, <2>1, <2>2, <3>2, HandlerMoves DEF OnReadPost
  <2>3. CASE ~ pos > Len(pool)
    <3>1. pool[pos] \in Sess
      BY <2>1, <2>3 DEF Inv, TypeOK, W!TypeOK
    <3>2. [r EXCEPT !.asked = {pool[pos]}]
            = [c EXCEPT !.op = "none", !.keep = keep, !.asked = {pool[pos]}]
      BY ConnType DEF Session
    <3> QED
      BY <1>6, <2>1, <2>3, <3>1, <3>2, AskStep DEF OnReadPost
  <2> QED
    BY <2>2, <2>3
<1>7. CASE OnWrite(h)
  BY <1>7, CloseMoves, HandlerMoves DEF OnWrite, Pending
<1>8. CASE OnShutdown(h)
  BY <1>8, CloseMoves, HandlerMoves DEF OnShutdown, Pending
<1> QED
  BY <1>1, <1>2, <1>3, <1>4, <1>5, <1>6, <1>7, <1>8 DEF RunHandler

LEMMA WorkerServerStep ==
    ASSUME Inv, WorkerServer
    PROVE  Inv'
<1>1. /\ W!TypeOK /\ UNCHANGED <<sessions, conn, listening, process, mixed>>
  BY DEF Inv, TypeOK, WorkerServer
<1>2. /\ W!TypeOK' /\ UNCHANGED <<cb, got>>
      /\ \A s \in Sess : owed'[s] \subseteq owed[s]
  <2>1. CASE W!Sweep
    BY <1>1, <2>1, WorkersSweep DEF W!Sweep
  <2>2. ASSUME NEW s \in Sess, W!Accept(s)
        PROVE  /\ W!TypeOK' /\ UNCHANGED <<cb, got>>
               /\ \A t \in Sess : owed'[t] \subseteq owed[t]
    BY <1>1, <2>2, WorkersAccept DEF W!Accept
  <2>3. ASSUME NEW s \in Sess, NEW up \in BOOLEAN, W!Turn(s, up)
        PROVE  /\ W!TypeOK' /\ UNCHANGED <<cb, got>>
               /\ \A t \in Sess : owed'[t] \subseteq owed[t]
    BY <1>1, <2>3, WorkersTurn DEF W!Turn
  <2> QED
    BY <2>1, <2>2, <2>3 DEF WorkerServer
<1>3. OwesOne' /\ \A h \in Conns : Sound(h)'
  BY <1>1, <1>2, OwesLess
<1> QED
  BY <1>1, <1>2, <1>3 DEF Inv, TypeOK, UndefinedHasCause

LEMMA NextInv == Inv /\ [Next]_vars => Inv'
<1> SUFFICES ASSUME Inv, [Next]_vars PROVE Inv'
  OBVIOUS
<1>1. CASE UNCHANGED vars
  <2>1. UNCHANGED <<sessions, conn, listening, process, mixed, pool, made, live, cb, owed, got>>
    BY <1>1 DEF vars, workers
  <2>2. OwesOne' /\ \A h \in Conns : Sound(h)'
    BY <2>1, OwesLess
  <2> QED
    BY <2>1, <2>2 DEF Inv, TypeOK, W!TypeOK, UndefinedHasCause
<1>2. CASE OnAcceptFailed
  <2>1. /\ UNCHANGED <<sessions, conn, process, mixed, pool, made, live, cb, owed, got>>
        /\ listening' = FALSE
    BY <1>2 DEF OnAcceptFailed, workers
  <2>2. OwesOne' /\ \A h \in Conns : Sound(h)'
    BY <2>1, OwesLess
  <2> QED
    BY <2>1, <2>2 DEF Inv, TypeOK, W!TypeOK, UndefinedHasCause
<1>3. CASE KillSession
  BY <1>3, KillSessionStep
<1>4. CASE WorkerServer
  BY <1>4, WorkerServerStep
<1>5. ASSUME NEW h \in Conns, OnAccept(h) PROVE Inv'
  BY <1>5, OnAcceptStep
<1>6. ASSUME NEW h \in Conns, RunHandler(h) PROVE Inv'
  BY <1>6, RunHandlerStep
<1>7. ASSUME NEW s \in Sess, NEW st \in Conns, Callback(s, st) PROVE Inv'
  BY <1>7, CallbackStep
<1> QED
  BY <1>1, <1>2, <1>3, <1>4, <1>5, <1>6, <1>7 DEF Next

LEMMA Invariance == Spec => []Inv
BY InitInv, NextInv, PTL DEF Spec

(* Every object of the HTTPS server keeps its type, for any number of       *)
(* stations and workers; a handshake is tried __RECONNECT_MAX times again.  *)
THEOREM TypeCorrect == Spec => []TypeOK
<1>1. Inv => TypeOK
  BY DEF Inv
<1> QED
  BY <1>1, Invariance, PTL

(* The plain pointer that a worker session calls back is that of a session  *)
(* that is in the pool, live and free to write, unless the sweep took it    *)
(* during its handshake.                                                    *)
THEOREM CallbackOwned == Spec => []OwnedCallback
<1>1. Inv => OwnedCallback
  <2> SUFFICES ASSUME Inv, NEW s \in Sess, NEW h \in Conns,
                      h \in owed[s] /\ cb[s] = h /\ got[h] = <<>> /\ ~ conn[h].early
               PROVE  h \in Range(sessions) /\ conn[h].live /\ conn[h].op = "none"
    BY DEF OwnedCallback
  <2>1. conn[h].live /\ conn[h].op = "none"
    BY DEF Inv, Sound, Owned
  <2> QED
    BY <2>1 DEF Inv, Sound, InPool
<1> QED
  BY <1>1, Invariance, PTL

(* A station whose worker was only asked when it owed no answer gets one    *)
(* response at most, and its own.                                           *)
THEOREM OneAnswer == Spec => []AnsweredOnce
<1>1. Inv => AnsweredOnce
  BY DEF Inv, Sound, Answered, AnsweredOnce
<1> QED
  BY <1>1, Invariance, PTL

(* No answer meets a freed session, or a stream that is being written, but  *)
(* for a sweep during a handshake or a worker that was asked while it owed  *)
(* an answer.                                                               *)
THEOREM CausesKnown == Spec => []UndefinedHasCause
<1>1. Inv => UndefinedHasCause
  BY DEF Inv
<1> QED
  BY <1>1, Invariance, PTL
=============================================================================
