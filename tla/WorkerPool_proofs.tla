-------------------------- MODULE WorkerPool_proofs --------------------------
(***************************************************************************)
(* WorkerSession implements WorkerPool, for any sessions, stations, short   *)
(* writes and refusals.  The mapping gives a session the callers whose      *)
(* requests or answers it still holds; that an answer is given once rests   *)
(* on there being one thing, a whole request or an answer, from which an    *)
(* answer to a caller can still come.                                       *)
(* What is proved of WorkerPool's steps gives RightStation, and the history  *)
(* of a session that each step keeps gives CounterAtRest.                    *)
(***************************************************************************)
EXTENDS WorkerSession_proofs

Has(q, x) == \E i \in DOMAIN q : q[i] = x
HasMsg(q, x) == \E i \in DOMAIN q : q[i].msg = x
Once(q, x) == \A i, j \in DOMAIN q : q[i] = x /\ q[j] = x => i = j
OnceMsg(q, x) == \A i, j \in DOMAIN q : q[i].msg = x /\ q[j].msg = x => i = j

(* Without its first unit a request is never taken for one by the worker.  *)
First(st) == [msg |-> Request(st), part |-> 1]

(* What an answer to st can still come from: a request of which the first  *)
(* unit is written, or the answer itself.                                  *)
HasAnswer(r, st) == \/ Has(r.in, Static(st)) \/ HasMsg(r.ready, Static(st))
                    \/ r.front = Static(st)
HasToken(r, st) == Has(r.out, First(st)) \/ HasAnswer(r, st)
OneToken(r, st) ==
    /\ Once(r.out, First(st)) /\ Once(r.in, Static(st)) /\ OnceMsg(r.ready, Static(st))
    /\ Has(r.out, First(st)) => ~ HasAnswer(r, st)
    /\ Has(r.in, Static(st)) => ~ HasMsg(r.ready, Static(st)) /\ r.front # Static(st)
    /\ HasMsg(r.ready, Static(st)) => r.front # Static(st)

(* A send of which nothing was taken has completed with an error.          *)
CountedHandler(h) == h.op = "send" /\ h.ok => h.n # 0
Counted(r) == \A i \in DOMAIN r.ready : CountedHandler(r.ready[i])

(* The inductive invariant: what a session holds of a caller is of one that *)
(* has called, no other session holds of it, nothing is left from which it  *)
(* could be answered a second time.                                         *)
Owing ==
    /\ Given \subseteq asked
    /\ \A i \in DOMAIN pool : sess[pool[i]].peer # "none"
    /\ \A s \in Sess :
        /\ sess[s].peer = "none" => sess[s] = NewSession("none", FALSE)
        /\ Counted(sess[s])
        /\ InFlight(sess[s]) \subseteq asked
        /\ \A t \in Sess : s # t => InFlight(sess[s]) \cap InFlight(sess[t]) = {}
        /\ \A st \in Stations : /\ OneToken(sess[s], st)
                                /\ st \in Given => ~ HasToken(sess[s], st)

-----------------------------------------------------------------------------
(* What is left of a sequence, and what is added to one. *)

(* p holds nothing that q does not hold, and nothing more often.            *)
Fewer(p, q) == \A x : (Has(p, x) => Has(q, x)) /\ (Once(q, x) => Once(p, x))
FewerMsg(p, q) == \A x : (HasMsg(p, x) => HasMsg(q, x)) /\ (OnceMsg(q, x) => OnceMsg(p, x))

LEMMA EmptyFewer == \A q : Fewer(<<>>, q) /\ FewerMsg(<<>>, q)
BY DEF Fewer, FewerMsg, Has, HasMsg, Once, OnceMsg

LEMMA SameFewer == \A q : Fewer(q, q) /\ FewerMsg(q, q)
BY DEF Fewer, FewerMsg

LEMMA SuffixFewer ==
    ASSUME NEW S, NEW q \in Seq(S), NEW k \in Nat, k <= Len(q), NEW p, p = SubSeq(q, k + 1, Len(q))
    PROVE  /\ Fewer(p, q) /\ FewerMsg(p, q)
           /\ \A x : \A i \in 1..k : q[i] = x /\ Once(q, x) => ~ Has(p, x)
           /\ \A x : \A i \in 1..k : q[i].msg = x /\ OnceMsg(q, x) => ~ HasMsg(p, x)
<1>1. /\ Len(q) \in Nat /\ DOMAIN q = 1..Len(q) /\ DOMAIN p = 1..(Len(q) - k)
      /\ \A i \in 1..(Len(q) - k) : p[i] = q[k + i]
  OBVIOUS
<1>2. \A i \in DOMAIN p : k + i \in DOMAIN q /\ p[i] = q[k + i] /\ i \in Nat /\ k + i > k
  BY <1>1
<1>3. \A i, j \in DOMAIN p : k + i = k + j => i = j
  BY <1>2
<1>4. \A i \in 1..k : i \in DOMAIN q
  BY <1>1
<1>5. Fewer(p, q)
  BY <1>2, <1>3 DEF Fewer, Has, Once
<1>6. FewerMsg(p, q)
  BY <1>2, <1>3 DEF FewerMsg, HasMsg, OnceMsg
<1>7. \A x : \A i \in 1..k : q[i] = x /\ Once(q, x) => ~ Has(p, x)
  BY <1>2, <1>4 DEF Has, Once
<1>8. \A x : \A i \in 1..k : q[i].msg = x /\ OnceMsg(q, x) => ~ HasMsg(p, x)
  BY <1>2, <1>4 DEF HasMsg, OnceMsg
<1> QED
  BY <1>5, <1>6, <1>7, <1>8

(* What a sequence holds, and what one that is longer by an element holds. *)
LEMMA RangeOf ==
    /\ Range(<<>>) = {}
    /\ \A S : \A q \in Seq(S) : \A e \in S : Range(Append(q, e)) = Range(q) \cup {e}
<1>1. Range(<<>>) = {}
  BY DEF Range
<1>2. ASSUME NEW S, NEW q \in Seq(S), NEW e \in S
      PROVE  Range(Append(q, e)) = Range(q) \cup {e}
  <2> DEFINE p == Append(q, e)
             n == Len(q) + 1
  <2>1. /\ \A i \in DOMAIN p : i = n \/ (i \in DOMAIN q /\ p[i] = q[i])
        /\ \A i \in DOMAIN q : i \in DOMAIN p /\ p[i] = q[i]
        /\ n \in DOMAIN p /\ p[n] = e
    OBVIOUS
  <2> HIDE DEF p, n
  <2>2. ASSUME NEW x PROVE x \in Range(p) <=> x \in Range(q) \/ x = e
    BY <2>1 DEF Range
  <2>3. Range(p) = Range(q) \cup {e}
    BY <2>2
  <2> QED
    BY <2>3 DEF p
<1> QED
  BY <1>1, <1>2

LEMMA TailFewer ==
    ASSUME NEW S, NEW q \in Seq(S), q # <<>>
    PROVE  /\ Fewer(Tail(q), q) /\ FewerMsg(Tail(q), q)
           /\ \A x : Head(q) = x => Has(q, x) /\ (Once(q, x) => ~ Has(Tail(q), x))
           /\ \A x : Head(q).msg = x => HasMsg(q, x) /\ (OnceMsg(q, x) => ~ HasMsg(Tail(q), x))
<1>1. Tail(q) = SubSeq(q, 1 + 1, Len(q)) /\ 1 <= Len(q) /\ Head(q) = q[1] /\ 1 \in DOMAIN q
  OBVIOUS
<1> DEFINE p == Tail(q)
<1>2. p = SubSeq(q, 1 + 1, Len(q))
  BY <1>1
<1> HIDE DEF p
<1>3. /\ Fewer(p, q) /\ FewerMsg(p, q)
      /\ \A x : \A i \in 1..1 : q[i] = x /\ Once(q, x) => ~ Has(p, x)
      /\ \A x : \A i \in 1..1 : q[i].msg = x /\ OnceMsg(q, x) => ~ HasMsg(p, x)
  BY <1>1, <1>2, SuffixFewer
<1>4. 1 \in 1..1
  OBVIOUS
<1>5. \A x : Head(q) = x => Has(q, x) /\ (Once(q, x) => ~ Has(p, x))
  BY <1>1, <1>3, <1>4 DEF Has
<1>6. \A x : Head(q).msg = x => HasMsg(q, x) /\ (OnceMsg(q, x) => ~ HasMsg(p, x))
  BY <1>1, <1>3, <1>4 DEF HasMsg
<1> QED
  BY <1>3, <1>5, <1>6 DEF p

LEMMA AppendHas ==
    ASSUME NEW S, NEW q \in Seq(S), NEW e, NEW p, p = Append(q, e)
    PROVE  /\ \A x : Has(p, x) <=> Has(q, x) \/ e = x
           /\ \A x : HasMsg(p, x) <=> HasMsg(q, x) \/ e.msg = x
           /\ \A x : Once(q, x) /\ ~ (Has(q, x) /\ e = x) => Once(p, x)
           /\ \A x : OnceMsg(q, x) /\ ~ (HasMsg(q, x) /\ e.msg = x) => OnceMsg(p, x)
<1> DEFINE n == Len(q) + 1
<1>1. /\ Len(q) \in Nat /\ DOMAIN q = 1..Len(q) /\ DOMAIN p = 1..n
      /\ \A i \in 1..Len(q) : p[i] = q[i]
      /\ p[n] = e
  OBVIOUS
<1>2. /\ \A i \in DOMAIN p : i \in DOMAIN q \/ i = n
      /\ n \in DOMAIN p /\ n \notin DOMAIN q
      /\ \A i \in DOMAIN q : i \in DOMAIN p /\ p[i] = q[i]
      /\ p[n] = e
  BY <1>1
<1> HIDE DEF n
<1>3. \A x : Has(p, x) <=> Has(q, x) \/ e = x
  BY <1>2 DEF Has
<1>4. \A x : HasMsg(p, x) <=> HasMsg(q, x) \/ e.msg = x
  BY <1>2 DEF HasMsg
<1>5. \A x : Once(q, x) /\ ~ (Has(q, x) /\ e = x) => Once(p, x)
  BY <1>2 DEF Has, Once
<1>6. \A x : OnceMsg(q, x) /\ ~ (HasMsg(q, x) /\ e.msg = x) => OnceMsg(p, x)
  BY <1>2 DEF HasMsg, OnceMsg
<1> QED
  BY <1>3, <1>4, <1>5, <1>6

LEMMA ConcatHas ==
    ASSUME NEW S, NEW q \in Seq(S), NEW T, NEW w \in Seq(T), NEW p, p = q \o w
    PROVE  /\ \A x : Has(p, x) <=> Has(q, x) \/ Has(w, x)
           /\ \A x : HasMsg(p, x) <=> HasMsg(q, x) \/ HasMsg(w, x)
           /\ \A x : Once(q, x) /\ Once(w, x) /\ ~ (Has(q, x) /\ Has(w, x)) => Once(p, x)
           /\ \A x : OnceMsg(q, x) /\ OnceMsg(w, x) /\ ~ (HasMsg(q, x) /\ HasMsg(w, x)) => OnceMsg(p, x)
<1> DEFINE n == Len(q)
<1>1. /\ n \in Nat /\ Len(w) \in Nat /\ DOMAIN q = 1..n /\ DOMAIN w = 1..Len(w)
      /\ DOMAIN p = 1..(n + Len(w))
      /\ \A i \in 1..(n + Len(w)) : p[i] = IF i <= n THEN q[i] ELSE w[i - n]
  OBVIOUS
<1> HIDE DEF n
<1>2. /\ \A i \in DOMAIN p : \/ i \in DOMAIN q /\ p[i] = q[i]
                             \/ i - n \in DOMAIN w /\ p[i] = w[i - n]
      /\ \A i \in DOMAIN q : i \in DOMAIN p /\ p[i] = q[i]
      /\ \A i \in DOMAIN w : n + i \in DOMAIN p /\ p[n + i] = w[i]
      /\ \A i, j \in DOMAIN p : i - n = j - n => i = j
  <2>1. \A i \in DOMAIN p : \/ i \in DOMAIN q /\ p[i] = q[i]
                            \/ i - n \in DOMAIN w /\ p[i] = w[i - n]
    BY <1>1
  <2>2. \A i \in DOMAIN q : i \in DOMAIN p /\ p[i] = q[i]
    BY <1>1
  <2>3. \A i \in DOMAIN w : n + i \in DOMAIN p /\ p[n + i] = w[i]
    BY <1>1
  <2>4. \A i, j \in DOMAIN p : i - n = j - n => i = j
    BY <1>1
  <2> QED
    BY <2>1, <2>2, <2>3, <2>4
<1>3. \A x : Has(p, x) <=> Has(q, x) \/ Has(w, x)
  <2> SUFFICES ASSUME NEW x PROVE Has(p, x) <=> Has(q, x) \/ Has(w, x)
    OBVIOUS
  <2>1. ASSUME NEW i \in DOMAIN p, p[i] = x PROVE Has(q, x) \/ Has(w, x)
    BY <1>2, <2>1 DEF Has
  <2>2. ASSUME NEW i \in DOMAIN q, q[i] = x PROVE Has(p, x)
    BY <1>2, <2>2 DEF Has
  <2>3. ASSUME NEW i \in DOMAIN w, w[i] = x PROVE Has(p, x)
    BY <1>2, <2>3 DEF Has
  <2> QED
    BY <2>1, <2>2, <2>3 DEF Has
<1>4. \A x : HasMsg(p, x) <=> HasMsg(q, x) \/ HasMsg(w, x)
  <2> SUFFICES ASSUME NEW x PROVE HasMsg(p, x) <=> HasMsg(q, x) \/ HasMsg(w, x)
    OBVIOUS
  <2>1. ASSUME NEW i \in DOMAIN p, p[i].msg = x PROVE HasMsg(q, x) \/ HasMsg(w, x)
    BY <1>2, <2>1 DEF HasMsg
  <2>2. ASSUME NEW i \in DOMAIN q, q[i].msg = x PROVE HasMsg(p, x)
    BY <1>2, <2>2 DEF HasMsg
  <2>3. ASSUME NEW i \in DOMAIN w, w[i].msg = x PROVE HasMsg(p, x)
    BY <1>2, <2>3 DEF HasMsg
  <2> QED
    BY <2>1, <2>2, <2>3 DEF HasMsg
<1>5. \A x : Once(q, x) /\ Once(w, x) /\ ~ (Has(q, x) /\ Has(w, x)) => Once(p, x)
  BY <1>2 DEF Has, Once
<1>6. \A x : OnceMsg(q, x) /\ OnceMsg(w, x) /\ ~ (HasMsg(q, x) /\ HasMsg(w, x)) => OnceMsg(p, x)
  BY <1>2 DEF HasMsg, OnceMsg
<1> QED
  BY <1>3, <1>4, <1>5, <1>6

-----------------------------------------------------------------------------
(* What a step does to what a session holds. *)

(* q holds nothing that r does not; what is still in the send buffer may   *)
(* have been written, but for its first unit.                               *)
KeepsOf(q, r, st) ==
    /\ q.buf = Request(st) => r.buf = Request(st)
    /\ q.front = Static(st) => r.front = Static(st)
    /\ HasMsg(q.out, Request(st)) => HasMsg(r.out, Request(st)) \/ r.buf = Request(st)
    /\ Has(q.out, First(st)) => Has(r.out, First(st))
    /\ Once(r.out, First(st)) => Once(q.out, First(st))
    /\ Has(q.in, Static(st)) => Has(r.in, Static(st))
    /\ Once(r.in, Static(st)) => Once(q.in, Static(st))
    /\ HasMsg(q.ready, Static(st)) => HasMsg(r.ready, Static(st))
    /\ OnceMsg(r.ready, Static(st)) => OnceMsg(q.ready, Static(st))
Older(q, r) == (r.rough => q.rough) /\ (r.mixed => q.mixed)
SameCaller(q, r) ==
    /\ q.cb = r.cb /\ (r.peer # "none" => q.peer # "none")
    /\ Counted(r) => Counted(q)
    /\ Older(q, r)
Keeps(q, r) == SameCaller(q, r) /\ \A st \in Stations : KeepsOf(q, r, st)

(* q is owed to no more callers than r, and can answer none more often.     *)
ShedsOf(q, r, st) ==
    /\ st \in InFlight(q) => st \in InFlight(r)
    /\ HasToken(q, st) => HasToken(r, st)
    /\ OneToken(r, st) => OneToken(q, st)
Sheds(q, r) == SameCaller(q, r) /\ \A st \in Stations : ShedsOf(q, r, st)

LEMMA InFlightIs ==
    ASSUME NEW r, NEW st \in Stations
    PROVE  st \in InFlight(r) <=>
              \/ r.buf = Request(st) \/ r.front = Static(st)
              \/ HasMsg(r.out, Request(st)) \/ Has(r.in, Static(st))
              \/ HasMsg(r.ready, Static(st))
BY DEF InFlight, Has, HasMsg

LEMMA KeepsSheds ==
    ASSUME NEW q, NEW r, Keeps(q, r)
    PROVE  Sheds(q, r)
<1> SUFFICES ASSUME NEW st \in Stations PROVE ShedsOf(q, r, st)
  BY DEF Keeps, Sheds
<1>1. KeepsOf(q, r, st)
  BY DEF Keeps
<1>2. st \in InFlight(q) => st \in InFlight(r)
  BY <1>1, InFlightIs DEF KeepsOf
<1>3. HasToken(q, st) => HasToken(r, st)
  BY <1>1 DEF KeepsOf, HasToken, HasAnswer
<1>4. OneToken(r, st) => OneToken(q, st)
  BY <1>1 DEF KeepsOf, OneToken, HasAnswer
<1> QED
  BY <1>2, <1>3, <1>4 DEF ShedsOf

LEMMA KeepsTransitive ==
    ASSUME NEW p, NEW q, NEW r, Keeps(p, q), Keeps(q, r)
    PROVE  Keeps(p, r)
<1> SUFFICES ASSUME NEW st \in Stations PROVE KeepsOf(p, r, st)
  BY DEF Keeps, SameCaller, Older
<1>1. KeepsOf(p, q, st) /\ KeepsOf(q, r, st)
  BY DEF Keeps
<1> QED
  BY <1>1 DEF KeepsOf

LEMMA ShedsTransitive ==
    ASSUME NEW p, NEW q, NEW r, Sheds(p, q), Sheds(q, r)
    PROVE  Sheds(p, r)
<1> SUFFICES ASSUME NEW st \in Stations PROVE ShedsOf(p, r, st)
  BY DEF Sheds, SameCaller, Older
<1>1. ShedsOf(p, q, st) /\ ShedsOf(q, r, st)
  BY DEF Sheds
<1> QED
  BY <1>1 DEF ShedsOf

(* A session of which the traces are the same, or fewer of them.           *)
LEMMA FewerKeeps ==
    ASSUME NEW q, NEW r, q.cb = r.cb, q.peer = r.peer \/ q.peer # "none",
           q.buf = r.buf \/ \A st \in Stations : q.buf # Request(st),
           q.front = r.front \/ \A st \in Stations : q.front # Static(st),
           Fewer(q.in, r.in), Fewer(q.out, r.out), FewerMsg(q.out, r.out),
           FewerMsg(q.ready, r.ready), Counted(r) => Counted(q), Older(q, r)
    PROVE  Keeps(q, r)
<1> SUFFICES ASSUME NEW st \in Stations PROVE KeepsOf(q, r, st)
  BY DEF Keeps, SameCaller
<1> QED
  BY DEF KeepsOf, Fewer, FewerMsg

LEMMA SignalIsNoTrace ==
    ASSUME NEW kind \in Signals, NEW st \in Stations
    PROVE  M(kind) # Request(st) /\ M(kind) # Static(st) /\ Request(st) # Static(st)
BY DEF M, Signals, Request, Static

LEMMA RequestsDiffer ==
    ASSUME NEW st, NEW t, Request(st) = Request(t) \/ Static(st) = Static(t)
    PROVE  st = t
<1>1. Request(st).st = st /\ Request(t).st = t /\ Static(st).st = st /\ Static(t).st = t
  BY DEF Request, Static
<1> QED
  BY <1>1

-----------------------------------------------------------------------------
(* The operations that handlers are made of. *)

LEMMA PostHolds ==
    ASSUME NEW r \in Session, NEW h \in Handler, CountedHandler(h),
           \A st \in Stations : h.msg # Static(st)
    PROVE  Keeps(Post(r, h), r)
<1> DEFINE p == Post(r, h)
<1>1. /\ p.rough = r.rough /\ p.mixed = r.mixed
      /\ p.cb = r.cb /\ p.peer = r.peer /\ p.buf = r.buf /\ p.front = r.front
      /\ p.in = r.in /\ p.out = r.out /\ p.ready = Append(r.ready, h)
      /\ r.ready \in Seq(Handler)
  BY DEF Post, Session
<1> HIDE DEF p
<1>2. /\ \A x : HasMsg(p.ready, x) <=> HasMsg(r.ready, x) \/ h.msg = x
      /\ \A x : OnceMsg(r.ready, x) /\ ~ (HasMsg(r.ready, x) /\ h.msg = x) => OnceMsg(p.ready, x)
  <2> DEFINE before == r.ready
             after == p.ready
  <2>1. before \in Seq(Handler) /\ after = Append(before, h)
    BY <1>1
  <2> HIDE DEF before, after
  <2>2. /\ \A x : HasMsg(after, x) <=> HasMsg(before, x) \/ h.msg = x
        /\ \A x : OnceMsg(before, x) /\ ~ (HasMsg(before, x) /\ h.msg = x) => OnceMsg(after, x)
    BY <2>1, AppendHas
  <2> QED
    BY <2>2 DEF before, after
<1>3. Counted(r) => Counted(p)
  <2> DEFINE n == Len(r.ready) + 1
  <2>1. /\ \A i \in DOMAIN p.ready : i \in DOMAIN r.ready \/ i = n
        /\ \A i \in DOMAIN r.ready : p.ready[i] = r.ready[i]
        /\ p.ready[n] = h
    BY <1>1
  <2> HIDE DEF n
  <2> QED
    BY <2>1 DEF Counted
<1> SUFFICES ASSUME NEW st \in Stations PROVE KeepsOf(p, r, st)
  BY <1>1, <1>3 DEF Keeps, SameCaller, p, Older
<1> QED
  BY <1>1, <1>2 DEF KeepsOf

LEMMA DoneHolds ==
    ASSUME NEW op \in {"send", "recv", "part", "ping", "dead"}, NEW ok \in BOOLEAN,
           op = "send" => ~ ok
    PROVE  /\ Done(op, ok) \in Handler /\ CountedHandler(Done(op, ok))
           /\ \A st \in Stations : Done(op, ok).msg # Static(st)
<1>1. Done(op, ok).msg = M("none") /\ Done(op, ok).op = op /\ Done(op, ok).ok = ok
  BY DEF Done
<1>2. \A st \in Stations : M("none") # Static(st)
  BY SignalIsNoTrace DEF Signals
<1> QED
  BY <1>1, <1>2, DoneType DEF CountedHandler

(* A session that differs from r in what Keeps does not look at.            *)
LEMMA SameKeeps ==
    ASSUME NEW q, NEW r, q.cb = r.cb, q.peer = r.peer, q.buf = r.buf, q.front = r.front,
           q.in = r.in, q.out = r.out, q.ready = r.ready, Older(q, r)
    PROVE  Keeps(q, r)
<1>1. Counted(r) => Counted(q)
  BY DEF Counted
<1> QED
  BY <1>1, SameFewer, FewerKeeps DEF Older

LEMMA CancelHolds ==
    ASSUME NEW r \in Session
    PROVE  Keeps(CancelPing(r), r) /\ Keeps(CancelDead(r), r)
<1> DEFINE p == [r EXCEPT !.pingT = FALSE]
           d == [r EXCEPT !.deadT = FALSE]
<1>1. CancelPing(r) \in {r, Post(p, Done("ping", FALSE))}
  BY DEF CancelPing
<1>2. CancelDead(r) \in {r, Post(d, Done("dead", FALSE))}
  BY DEF CancelDead
<1>3. /\ p \in Session /\ p.rough = r.rough /\ p.mixed = r.mixed
      /\ p.cb = r.cb /\ p.peer = r.peer /\ p.buf = r.buf
      /\ p.front = r.front /\ p.in = r.in /\ p.out = r.out /\ p.ready = r.ready
  BY DEF Session
<1>4. /\ d \in Session /\ d.rough = r.rough /\ d.mixed = r.mixed
      /\ d.cb = r.cb /\ d.peer = r.peer /\ d.buf = r.buf
      /\ d.front = r.front /\ d.in = r.in /\ d.out = r.out /\ d.ready = r.ready
  BY DEF Session
<1> HIDE DEF p, d
<1>5. Keeps(p, r) /\ Keeps(d, r) /\ Keeps(r, r)
  BY <1>3, <1>4, SameKeeps DEF Older
<1>6. Keeps(Post(p, Done("ping", FALSE)), p)
  BY <1>3, DoneHolds, PostHolds
<1>7. Keeps(Post(d, Done("dead", FALSE)), d)
  BY <1>4, DoneHolds, PostHolds
<1>8. Keeps(Post(p, Done("ping", FALSE)), r) /\ Keeps(Post(d, Done("dead", FALSE)), r)
  BY <1>5, <1>6, <1>7, KeepsTransitive
<1> QED
  BY <1>1, <1>2, <1>5, <1>8

LEMMA ArmHolds ==
    ASSUME NEW r \in Session
    PROVE  /\ ArmPing(r) \in Session /\ Keeps(ArmPing(r), r)
           /\ ArmDead(r) \in Session /\ Keeps(ArmDead(r), r)
<1> DEFINE p == CancelPing(r)
           d == CancelDead(r)
<1>1. p \in Session /\ d \in Session /\ Keeps(p, r) /\ Keeps(d, r)
  BY CancelPingType, CancelDeadType, CancelHolds
<1>2. ArmPing(r) = [p EXCEPT !.pingT = TRUE] /\ ArmDead(r) = [d EXCEPT !.deadT = TRUE]
  BY DEF ArmPing, ArmDead
<1> HIDE DEF p, d
<1> DEFINE pp == [p EXCEPT !.pingT = TRUE]
           dd == [d EXCEPT !.deadT = TRUE]
<1>3. /\ pp \in Session /\ pp.rough = p.rough /\ pp.mixed = p.mixed
      /\ pp.cb = p.cb /\ pp.peer = p.peer /\ pp.buf = p.buf
      /\ pp.front = p.front /\ pp.in = p.in /\ pp.out = p.out /\ pp.ready = p.ready
  BY <1>1 DEF Session
<1>4. /\ dd \in Session /\ dd.rough = d.rough /\ dd.mixed = d.mixed
      /\ dd.cb = d.cb /\ dd.peer = d.peer /\ dd.buf = d.buf
      /\ dd.front = d.front /\ dd.in = d.in /\ dd.out = d.out /\ dd.ready = d.ready
  BY <1>1 DEF Session
<1> HIDE DEF pp, dd
<1>5. Keeps(pp, p) /\ Keeps(dd, d)
  BY <1>3, <1>4, SameKeeps DEF Older
<1>6. Keeps(pp, r) /\ Keeps(dd, r)
  BY <1>1, <1>5, KeepsTransitive
<1> QED
  BY <1>2, <1>3, <1>4, <1>6 DEF pp, dd

LEMMA CloseHolds ==
    ASSUME NEW r \in Session
    PROVE  Keeps(Close(r), r)
<1> DEFINE aborted == [i \in 1..r.reads |-> Done("recv", FALSE)]
           q == Close(r)
<1>0. Done("recv", FALSE) \in Handler /\ CountedHandler(Done("recv", FALSE))
      /\ \A st \in Stations : Done("recv", FALSE).msg # Static(st)
  BY DoneHolds
<1>1. aborted \in Seq(Handler)
  <2>1. r.reads \in Nat /\ aborted \in [1..r.reads -> Handler]
    BY <1>0 DEF Session
  <2> QED
    BY <2>1, FunctionIsSeq
<1>2. \A i \in DOMAIN aborted : aborted[i] = Done("recv", FALSE)
  OBVIOUS
<1> HIDE DEF aborted
<1>3. /\ q.rough = r.rough /\ q.mixed = r.mixed
      /\ q.cb = r.cb /\ q.peer = r.peer /\ q.buf = r.buf /\ q.front = r.front
      /\ q.in = <<>> /\ q.out = <<>> /\ r.ready \in Seq(Handler)
  BY DEF Close, Session
<1>a. q.ready = r.ready \o aborted
  BY DEF Close, aborted, Session
<1> HIDE DEF q
<1>4. /\ \A x : HasMsg(q.ready, x) <=> HasMsg(r.ready, x) \/ HasMsg(aborted, x)
      /\ \A x : OnceMsg(r.ready, x) /\ OnceMsg(aborted, x) /\ ~ (HasMsg(r.ready, x) /\ HasMsg(aborted, x))
                  => OnceMsg(q.ready, x)
  BY <1>1, <1>3, <1>a, ConcatHas
<1>5. \A st \in Stations : ~ HasMsg(aborted, Static(st)) /\ OnceMsg(aborted, Static(st))
  BY <1>0, <1>2 DEF HasMsg, OnceMsg
<1>6. Counted(r) => Counted(q)
  <2> DEFINE n == Len(r.ready)
  <2>1. \A i \in DOMAIN q.ready : \/ i \in DOMAIN r.ready /\ q.ready[i] = r.ready[i]
                                  \/ i - n \in DOMAIN aborted /\ q.ready[i] = aborted[i - n]
    BY <1>1, <1>3, <1>a
  <2> HIDE DEF n
  <2>2. \A i \in DOMAIN aborted : CountedHandler(aborted[i])
    BY <1>0, <1>2
  <2> QED
    BY <2>1, <2>2 DEF Counted
<1> SUFFICES ASSUME NEW st \in Stations PROVE KeepsOf(q, r, st)
  BY <1>3, <1>6 DEF Keeps, SameCaller, q, Older
<1> QED
  BY <1>3, <1>4, <1>5, EmptyFewer DEF KeepsOf, Fewer, FewerMsg

LEMMA StopHolds ==
    ASSUME NEW r \in Session
    PROVE  Keeps(Stop(r), r)
<1> DEFINE r0 == [r EXCEPT !.live = FALSE]
           r1 == CancelPing(r0)
           r2 == CancelDead(r1)
<1>1. /\ r0 \in Session /\ r0.rough = r.rough /\ r0.mixed = r.mixed
      /\ r0.cb = r.cb /\ r0.peer = r.peer /\ r0.buf = r.buf
      /\ r0.front = r.front /\ r0.in = r.in /\ r0.out = r.out /\ r0.ready = r.ready
  BY DEF Session
<1>2. Stop(r) = Close(r2)
  BY DEF Stop
<1> HIDE DEF r0
<1>3. Keeps(r0, r)
  BY <1>1, SameKeeps DEF Older
<1>4. r1 \in Session /\ Keeps(r1, r)
  BY <1>1, <1>3, CancelPingType, CancelHolds, KeepsTransitive
<1> HIDE DEF r1
<1>5. r2 \in Session /\ Keeps(r2, r)
  BY <1>4, CancelDeadType, CancelHolds, KeepsTransitive
<1> HIDE DEF r2
<1> QED
  BY <1>2, <1>5, CloseHolds, KeepsTransitive

LEMMA AsyncReceiveHolds ==
    ASSUME NEW r \in Session
    PROVE  AsyncReceive(r) \in Session /\ Keeps(AsyncReceive(r), r)
<1> DEFINE more == r.reads + 1
           q == [r EXCEPT !.reads = more]
<1>1. AsyncReceive(r) \in {q, Post(r, Done("recv", FALSE))}
  BY DEF AsyncReceive
<1> HIDE DEF more
<1>2. /\ q.rough = r.rough /\ q.mixed = r.mixed
      /\ q.cb = r.cb /\ q.peer = r.peer /\ q.buf = r.buf
      /\ q.front = r.front /\ q.in = r.in /\ q.out = r.out /\ q.ready = r.ready
  BY DEF Session
<1> HIDE DEF q
<1>3. Keeps(q, r)
  BY <1>2, SameKeeps DEF Older
<1>4. Keeps(Post(r, Done("recv", FALSE)), r)
  BY DoneHolds, PostHolds
<1> QED
  BY <1>1, <1>3, <1>4, AsyncReceiveType

(* What async_send writes is of the message in the buffer, from the offset *)
(* on, or memory that follows it.                                           *)
LEMMA WrittenOnce ==
    ASSUME NEW r \in Session, NEW from \in Nat, NEW n \in Outcomes(r, from),
           NEW w, w = Written(r, from, n)
    PROVE  /\ w \in Seq(Unit)
           /\ \A i \in DOMAIN w :
                 \/ w[i].msg = M("none")
                 \/ w[i].msg = r.buf /\ w[i].part = from + i
           /\ \A x : Once(w, x)
<1>1. w \in Seq(Unit) /\ n \in Nat /\ (from <= Size(r.buf) => from + n <= Size(r.buf))
  BY WrittenType, OutcomesBound
<1>2. Size(r.buf) \in Nat
  BY SizeType DEF Session
<1>3. CASE r.peer # "up"
  <2>1. w = <<>>
    BY <1>3 DEF Written
  <2> QED
    BY <1>1, <2>1 DEF Once
<1>4. CASE r.peer = "up" /\ from > Size(r.buf)
  <2>1. w = [i \in 1..n |-> [msg |-> M("none"), part |-> i]]
    BY <1>2, <1>4 DEF Written
  <2>2. \A i \in DOMAIN w : w[i].msg = M("none") /\ w[i].part = i
    BY <2>1
  <2> QED
    BY <1>1, <2>2 DEF Once
<1>5. CASE r.peer = "up" /\ from <= Size(r.buf)
  <2> DEFINE u == Units(r.buf)
  <2>a. r.peer = "up" /\ ~ (from > Size(r.buf)) /\ ~ (r.peer # "up")
    BY <1>2, <1>5
  <2>1. w = SubSeq(u, from + 1, from + n)
    BY <1>5, <2>a, Zenon DEF Written
  <2>2. u \in Seq(Unit) /\ Len(u) = Size(r.buf)
    BY UnitsType DEF Session
  <2>3. \A i \in 1..Size(r.buf) : u[i].msg = r.buf /\ u[i].part = i
    BY DEF Units
  <2> HIDE DEF u
  <2>4. \A i \in DOMAIN w : w[i] = u[from + i] /\ from + i \in 1..Size(r.buf) /\ i \in Nat
    BY <1>1, <1>2, <1>5, <2>1, <2>2
  <2>5. \A i \in DOMAIN w : w[i].msg = r.buf /\ w[i].part = from + i /\ i \in Nat
    BY <2>3, <2>4
  <2>6. \A x : Once(w, x)
    <3>1. \A i, j \in DOMAIN w : w[i] = w[j] => from + i = from + j
      BY <2>5
    <3>2. \A i, j \in DOMAIN w : from + i = from + j => i = j
      BY <2>5
    <3> QED
      BY <3>1, <3>2 DEF Once
  <2> QED
    BY <1>1, <2>5, <2>6
<1> QED
  BY <1>2, <1>3, <1>4, <1>5

(* What a send adds: units of the buffer, the first one only from offset 0. *)
LEMMA AsyncSendAdds ==
    ASSUME NEW r \in Session, NEW from \in Nat, NEW n \in Outcomes(r, from),
           NEW q, q = AsyncSend(r, from, n)
    PROVE  /\ q \in Session /\ SameCaller(q, r) /\ q.live = r.live
           /\ q.buf = r.buf /\ q.front = r.front /\ q.in = r.in
           /\ \A st \in Stations :
                /\ HasMsg(q.ready, Static(st)) => HasMsg(r.ready, Static(st))
                /\ OnceMsg(r.ready, Static(st)) => OnceMsg(q.ready, Static(st))
                /\ HasMsg(q.out, Request(st)) => HasMsg(r.out, Request(st)) \/ r.buf = Request(st)
                /\ Has(q.out, First(st)) =>
                      Has(r.out, First(st)) \/ (from = 0 /\ r.buf = Request(st))
                /\ Once(r.out, First(st)) /\ ~ (Has(r.out, First(st)) /\ from = 0 /\ r.buf = Request(st))
                      => Once(q.out, First(st))
<1> DEFINE w == Written(r, from, n)
           p == Post(r, Sent(n))
<1>1. n \in Nat /\ Sent(n) \in Handler /\ q \in Session /\ p \in Session
  BY OutcomesBound, SentType, AsyncSendType, PostType
<1>2. /\ CountedHandler(Sent(n)) /\ Sent(n).msg = M("none")
      /\ \A st \in Stations : Sent(n).msg # Static(st)
  <2>1. Sent(n).msg = M("none") /\ Sent(n).n = n /\ Sent(n).ok = (n # 0)
    BY Zenon DEF Sent
  <2>2. \A st \in Stations : M("none") # Static(st)
    BY SignalIsNoTrace DEF Signals
  <2> QED
    BY <2>1, <2>2 DEF CountedHandler
<1>3. Keeps(p, r)
  BY <1>1, <1>2, PostHolds
<1>4. /\ p.rough = r.rough /\ p.mixed = r.mixed
      /\ p.cb = r.cb /\ p.peer = r.peer /\ p.live = r.live /\ p.buf = r.buf /\ p.front = r.front
      /\ p.in = r.in /\ p.out = r.out
  BY <1>1 DEF Post, Session
<1>5. /\ w \in Seq(Unit)
      /\ \A i \in DOMAIN w :
            \/ w[i].msg = M("none")
            \/ w[i].msg = r.buf /\ w[i].part = from + i
      /\ \A x : Once(w, x)
  BY WrittenOnce
<1> DEFINE b == r.rough \/ Queued(r, "send") \/ n \notin {0, Size(r.buf)}
<1>6. q = [p EXCEPT !.out = @ \o w, !.rough = b] /\ (r.rough => b)
  <2>1. p.rough = r.rough
    BY <1>4
  <2> QED
    BY <2>1 DEF AsyncSend, Post
<1> HIDE DEF w, p, b
<1> DEFINE before == r.out
           after == q.out
<1>7. /\ (r.rough => q.rough) /\ q.mixed = p.mixed
      /\ q.cb = p.cb /\ q.peer = p.peer /\ q.live = p.live /\ q.buf = p.buf /\ q.front = p.front
      /\ q.in = p.in /\ q.ready = p.ready
      /\ before \in Seq(Unit) /\ after = before \o w
  BY <1>1, <1>4, <1>6 DEF Session
<1>8. SameCaller(q, r)
  BY <1>3, <1>4, <1>7 DEF Keeps, SameCaller, Counted, Older
<1> HIDE DEF before, after
<1>9. /\ \A x : Has(after, x) <=> Has(before, x) \/ Has(w, x)
      /\ \A x : HasMsg(after, x) <=> HasMsg(before, x) \/ HasMsg(w, x)
      /\ \A x : Once(before, x) /\ Once(w, x) /\ ~ (Has(before, x) /\ Has(w, x)) => Once(after, x)
  BY <1>5, <1>7, ConcatHas
<1>10. \A st \in Stations : /\ HasMsg(w, Request(st)) => r.buf = Request(st)
                            /\ Has(w, First(st)) => from = 0 /\ r.buf = Request(st)
  <2> SUFFICES ASSUME NEW st \in Stations
               PROVE  /\ HasMsg(w, Request(st)) => r.buf = Request(st)
                      /\ Has(w, First(st)) => from = 0 /\ r.buf = Request(st)
    OBVIOUS
  <2>1. M("none") # Request(st)
    BY SignalIsNoTrace DEF Signals
  <2>2. HasMsg(w, Request(st)) => r.buf = Request(st)
    BY <1>5, <2>1 DEF HasMsg
  <2>3. ASSUME NEW i \in DOMAIN w, w[i] = First(st)
        PROVE  from = 0 /\ r.buf = Request(st)
    <3>1. w[i].msg = Request(st) /\ w[i].part = 1 /\ i \in Nat \ {0}
      BY <1>5, <2>3 DEF First
    <3>2. r.buf = Request(st) /\ from + i = 1
      BY <1>5, <2>1, <3>1
    <3> QED
      BY <3>1, <3>2
  <2> QED
    BY <2>2, <2>3 DEF Has
<1>11. \A st \in Stations :
          /\ HasMsg(q.ready, Static(st)) => HasMsg(r.ready, Static(st))
          /\ OnceMsg(r.ready, Static(st)) => OnceMsg(q.ready, Static(st))
  BY <1>3, <1>7 DEF Keeps, KeepsOf
<1>12. \A st \in Stations :
          /\ HasMsg(after, Request(st)) => HasMsg(before, Request(st)) \/ r.buf = Request(st)
          /\ Has(after, First(st)) => Has(before, First(st)) \/ (from = 0 /\ r.buf = Request(st))
          /\ Once(before, First(st)) /\ ~ (Has(before, First(st)) /\ from = 0 /\ r.buf = Request(st))
                => Once(after, First(st))
  BY <1>5, <1>9, <1>10
<1> QED
  BY <1>1, <1>4, <1>7, <1>8, <1>11, <1>12 DEF before, after

(* A send from further on, or of a signal, adds nothing to what is owed.    *)
LEMMA AsyncSendHolds ==
    ASSUME NEW r \in Session, NEW from \in Nat, NEW n \in Outcomes(r, from),
           from # 0 \/ \A st \in Stations : r.buf # Request(st)
    PROVE  AsyncSend(r, from, n) \in Session /\ Keeps(AsyncSend(r, from, n), r)
<1> DEFINE q == AsyncSend(r, from, n)
<1>1. /\ q \in Session /\ SameCaller(q, r) /\ q.live = r.live
      /\ q.buf = r.buf /\ q.front = r.front /\ q.in = r.in
      /\ \A st \in Stations :
           /\ HasMsg(q.ready, Static(st)) => HasMsg(r.ready, Static(st))
           /\ OnceMsg(r.ready, Static(st)) => OnceMsg(q.ready, Static(st))
           /\ HasMsg(q.out, Request(st)) => HasMsg(r.out, Request(st)) \/ r.buf = Request(st)
           /\ Has(q.out, First(st)) =>
                 Has(r.out, First(st)) \/ (from = 0 /\ r.buf = Request(st))
           /\ Once(r.out, First(st)) /\ ~ (Has(r.out, First(st)) /\ from = 0 /\ r.buf = Request(st))
                 => Once(q.out, First(st))
  BY AsyncSendAdds
<1> HIDE DEF q
<1> SUFFICES ASSUME NEW st \in Stations PROVE KeepsOf(q, r, st)
  BY <1>1 DEF Keeps, q
<1> QED
  BY <1>1 DEF KeepsOf

(* Taking the head off a session's queue. *)
LEMMA RestHolds ==
    ASSUME NEW s \in Sess, sess[s] \in Session, sess[s].ready # <<>>
    PROVE  /\ Rest(s) \in Session /\ This(s) \in Handler /\ Keeps(Rest(s), sess[s])
           /\ Counted(sess[s]) => CountedHandler(This(s))
           /\ Rest(s).buf = sess[s].buf /\ Rest(s).front = sess[s].front
           /\ Rest(s).in = sess[s].in /\ Rest(s).out = sess[s].out
           /\ Rest(s).rough = sess[s].rough /\ Rest(s).mixed = sess[s].mixed
           /\ Rest(s).cb = sess[s].cb /\ Rest(s).live = sess[s].live
           /\ Rest(s).peer = sess[s].peer
           /\ FewerMsg(Rest(s).ready, sess[s].ready)
           /\ HasMsg(sess[s].ready, This(s).msg)
           /\ OnceMsg(sess[s].ready, This(s).msg) => ~ HasMsg(Rest(s).ready, This(s).msg)
<1> DEFINE before == sess[s].ready
           after == Rest(s).ready
<1>1. before \in Seq(Handler) /\ before # <<>> /\ after = Tail(before) /\ This(s) = Head(before)
  BY DEF Rest, Session, This
<1>2. /\ Head(before) \in Handler /\ Head(before) = before[1] /\ 1 \in DOMAIN before
      /\ Tail(before) \in Seq(Handler)
      /\ \A i \in DOMAIN Tail(before) : i + 1 \in DOMAIN before /\ Tail(before)[i] = before[i + 1]
  BY <1>1
<1>3. /\ Rest(s) \in Session
      /\ Rest(s).buf = sess[s].buf /\ Rest(s).front = sess[s].front
      /\ Rest(s).in = sess[s].in /\ Rest(s).out = sess[s].out
      /\ Rest(s).rough = sess[s].rough /\ Rest(s).mixed = sess[s].mixed
      /\ Rest(s).cb = sess[s].cb /\ Rest(s).live = sess[s].live
      /\ Rest(s).peer = sess[s].peer
  BY <1>1, <1>2 DEF Rest, Session
<1>4. Counted(sess[s]) => Counted(Rest(s)) /\ CountedHandler(This(s))
  BY <1>1, <1>2 DEF Counted
<1> HIDE DEF before, after
<1>5. /\ FewerMsg(after, before)
      /\ HasMsg(before, This(s).msg)
      /\ OnceMsg(before, This(s).msg) => ~ HasMsg(after, This(s).msg)
  BY <1>1, TailFewer
<1>6. /\ FewerMsg(Rest(s).ready, sess[s].ready)
      /\ HasMsg(sess[s].ready, This(s).msg)
      /\ OnceMsg(sess[s].ready, This(s).msg) => ~ HasMsg(Rest(s).ready, This(s).msg)
  BY <1>5 DEF before, after
<1>7. Keeps(Rest(s), sess[s])
  BY <1>3, <1>4, <1>6, SameFewer, FewerKeeps DEF Older
<1> QED
  BY <1>1, <1>2, <1>3, <1>4, <1>6, <1>7

-----------------------------------------------------------------------------
(* One session is updated: the invariant, and the mapping. *)

LEMMA TokenInFlight ==
    ASSUME NEW r, NEW st \in Stations, HasToken(r, st)
    PROVE  st \in InFlight(r)
<1>1. Has(r.out, First(st)) => HasMsg(r.out, Request(st))
  <2>1. First(st).msg = Request(st)
    BY DEF First
  <2> QED
    BY <2>1 DEF Has, HasMsg
<1> QED
  BY <1>1, InFlightIs DEF HasToken, HasAnswer

LEMMA UpdateGives ==
    ASSUME Inv, NEW s \in Sess, NEW q, Update(s, q)
    PROVE  /\ sess'[s] = q /\ \A t \in Sess : t # s => sess'[t] = sess[t]
           /\ \A t \in Sess : sess[t] \in Session
BY DEF Inv, SessInv, Update

LEMMA OwingStep ==
    ASSUME Inv, Owing, NEW s \in Sess, NEW q, Update(s, q), q.peer # "none", Counted(q),
           asked \subseteq asked', Given' \subseteq asked',
           Given' \subseteq Given \cup InFlight(sess[s]),
           InFlight(q) \subseteq InFlight(sess[s]) \cup (asked' \ asked),
           InFlight(q) \subseteq asked',
           \A i \in DOMAIN pool' : \E j \in DOMAIN pool : pool'[i] = pool[j],
           \A st \in Stations : OneToken(q, st) /\ (st \in Given' => ~ HasToken(q, st))
    PROVE  Owing'
<1>1. sess'[s] = q /\ \A t \in Sess : t # s => sess'[t] = sess[t]
  BY UpdateGives
<1>2. \A i \in DOMAIN pool' : sess'[pool'[i]].peer # "none"
  <2> SUFFICES ASSUME NEW i \in DOMAIN pool' PROVE sess'[pool'[i]].peer # "none"
    OBVIOUS
  <2>1. PICK j \in DOMAIN pool : pool'[i] = pool[j]
    OBVIOUS
  <2>2. pool[j] \in Sess /\ sess[pool[j]].peer # "none"
    BY <2>1 DEF Inv, Owing
  <2> QED
    BY <1>1, <2>1, <2>2
<1>3. ASSUME NEW t \in Sess, t # s
      PROVE  /\ sess[t].peer = "none" => sess[t] = NewSession("none", FALSE)
             /\ Counted(sess[t])
             /\ InFlight(sess[t]) \subseteq asked
             /\ InFlight(sess[t]) \cap InFlight(sess[s]) = {}
             /\ InFlight(sess[t]) \cap InFlight(q) = {}
             /\ \A st \in Stations : /\ OneToken(sess[t], st)
                                     /\ st \in Given' => ~ HasToken(sess[t], st)
  <2>1. /\ sess[t].peer = "none" => sess[t] = NewSession("none", FALSE)
        /\ Counted(sess[t])
        /\ InFlight(sess[t]) \subseteq asked
        /\ InFlight(sess[t]) \cap InFlight(sess[s]) = {}
        /\ \A st \in Stations : /\ OneToken(sess[t], st)
                                /\ st \in Given => ~ HasToken(sess[t], st)
    BY <1>3 DEF Owing
  <2>2. InFlight(sess[t]) \cap InFlight(q) = {}
    BY <2>1
  <2>3. \A st \in Stations : st \in Given' => ~ HasToken(sess[t], st)
    BY <2>1, TokenInFlight
  <2> QED
    BY <2>1, <2>2, <2>3
<1>4. ASSUME NEW t \in Sess
      PROVE  /\ sess'[t].peer = "none" => sess'[t] = NewSession("none", FALSE)
             /\ Counted(sess'[t])
             /\ InFlight(sess'[t]) \subseteq asked'
             /\ \A st \in Stations : /\ OneToken(sess'[t], st)
                                     /\ st \in Given' => ~ HasToken(sess'[t], st)
  BY <1>1, <1>3
<1>5. ASSUME NEW t \in Sess, NEW u \in Sess, t # u
      PROVE  InFlight(sess'[t]) \cap InFlight(sess'[u]) = {}
  <2>1. CASE t = s
    BY <1>1, <1>3, <1>5, <2>1
  <2>2. CASE u = s
    BY <1>1, <1>3, <1>5, <2>2
  <2>3. CASE t # s /\ u # s
    BY <1>1, <1>5, <2>3 DEF Owing
  <2> QED
    BY <2>1, <2>2, <2>3
<1>6. Owing' <=> /\ Given' \subseteq asked'
                 /\ \A i \in DOMAIN pool' : sess'[pool'[i]].peer # "none"
                 /\ \A t \in Sess :
                     /\ sess'[t].peer = "none" => sess'[t] = NewSession("none", FALSE)
                     /\ Counted(sess'[t])
                     /\ InFlight(sess'[t]) \subseteq asked'
                     /\ \A u \in Sess : t # u => InFlight(sess'[t]) \cap InFlight(sess'[u]) = {}
                     /\ \A st \in Stations : /\ OneToken(sess'[t], st)
                                             /\ st \in Given' => ~ HasToken(sess'[t], st)
  BY DEF Owing
<1> QED
  BY <1>2, <1>4, <1>5, <1>6

(* The state of WorkerPool. *)
Made == {s \in Sess : sess[s].peer # "none"}
Lives == [s \in Sess |-> sess[s].live]
Callbacks == [s \in Sess |-> sess[s].cb]
Owed == [s \in Sess |-> InFlight(sess[s]) \ Given]

LEMMA MapStep ==
    ASSUME Inv, NEW s \in Sess, NEW q, Update(s, q), q.peer # "none", sess[s].peer # "none"
    PROVE  /\ s \in Made /\ Made' = Made
           /\ Lives' = [Lives EXCEPT ![s] = q.live]
           /\ Callbacks' = [Callbacks EXCEPT ![s] = q.cb]
           /\ \A t \in Sess : Owed'[t] = InFlight(sess'[t]) \ Given'
           /\ Owed'[s] = InFlight(q) \ Given'
           /\ \A t \in Sess : t # s => Owed'[t] = InFlight(sess[t]) \ Given'
           /\ Owed' \in [Sess -> SUBSET Stations]
<1>1. /\ sess'[s] = q /\ \A t \in Sess : t # s => sess'[t] = sess[t]
      /\ \A t \in Sess : sess[t] \in Session
  BY UpdateGives
<1>2. Made' = {t \in Sess : sess'[t].peer # "none"} /\ Lives' = [t \in Sess |-> sess'[t].live]
  BY DEF Made, Lives
<1>3. Callbacks' = [t \in Sess |-> sess'[t].cb] /\ Owed' = [t \in Sess |-> InFlight(sess'[t]) \ Given']
  BY DEF Callbacks, Owed
<1>4. \A t : InFlight(sess'[t]) \subseteq Stations
  BY DEF InFlight
<1>5. s \in Made /\ Made' = Made
  BY <1>1, <1>2 DEF Made
<1>6. Lives' = [Lives EXCEPT ![s] = q.live]
  BY <1>1, <1>2 DEF Lives
<1>7. Callbacks' = [Callbacks EXCEPT ![s] = q.cb]
  BY <1>1, <1>3 DEF Callbacks
<1> QED
  BY <1>1, <1>3, <1>4, <1>5, <1>6, <1>7

(* No step forgets the history of a session.                               *)
Aged == \A t \in Sess : Older(sess'[t], sess[t])

LEMMA AgedStep ==
    ASSUME Inv, NEW s \in Sess, NEW q, Update(s, q), Older(q, sess[s])
    PROVE  Aged
BY UpdateGives DEF Aged, Older

(* What a session that sheds shows of itself: it turns. *)
LEMMA ShedStep ==
    ASSUME Inv, Owing, NEW s \in Sess, NEW q, Update(s, q), Sheds(q, sess[s]),
           sess[s].peer # "none", got' = got, asked' = asked,
           \A i \in DOMAIN pool' : \E j \in DOMAIN pool : pool'[i] = pool[j]
    PROVE  /\ Owing' /\ s \in Made /\ Made' = Made /\ Callbacks' = Callbacks
           /\ Lives' = [Lives EXCEPT ![s] = q.live]
           /\ \E some \in SUBSET Owed[s] : Owed' = [Owed EXCEPT ![s] = some]
<1>1. Given' = Given
  BY DEF Given
<1>2. q.peer # "none" /\ q.cb = sess[s].cb /\ Counted(q)
  BY DEF Sheds, SameCaller, Owing, Older
<1>3. InFlight(q) \subseteq InFlight(sess[s])
  <2>1. InFlight(q) \subseteq Stations
    BY DEF InFlight
  <2> QED
    BY <2>1 DEF Sheds, ShedsOf
<1>4. \A st \in Stations : OneToken(q, st) /\ (st \in Given => ~ HasToken(q, st))
  BY DEF Sheds, ShedsOf, Owing
<1>5. InFlight(sess[s]) \subseteq asked /\ Given \subseteq asked
  BY DEF Owing
<1>6. Owing'
  BY <1>1, <1>2, <1>3, <1>4, <1>5, OwingStep
<1>7. /\ s \in Made /\ Made' = Made
      /\ Lives' = [Lives EXCEPT ![s] = q.live]
      /\ Callbacks' = [Callbacks EXCEPT ![s] = q.cb]
      /\ Owed'[s] = InFlight(q) \ Given'
      /\ \A t \in Sess : t # s => Owed'[t] = InFlight(sess[t]) \ Given'
      /\ Owed' \in [Sess -> SUBSET Stations]
  BY <1>2, MapStep
<1>8. Callbacks' = Callbacks
  BY <1>2, <1>7 DEF Callbacks
<1>9. Owed'[s] \in SUBSET Owed[s]
  BY <1>1, <1>3, <1>7 DEF Owed
<1>10. Owed' = [Owed EXCEPT ![s] = Owed'[s]]
  BY <1>1, <1>7 DEF Owed
<1> QED
  BY <1>6, <1>7, <1>8, <1>9, <1>10

LEMMA TurnStep ==
    ASSUME Inv, Owing, NEW s \in Sess, NEW q \in Session, Update(s, q), Sheds(q, sess[s]),
           sess[s].peer # "none", UNCHANGED <<pool, asked, got>>
    PROVE  Owing' /\ Pool!Turn(s, q.live)
<1>1. \A i \in DOMAIN pool' : \E j \in DOMAIN pool : pool'[i] = pool[j]
  OBVIOUS
<1>2. /\ Owing' /\ s \in Made /\ Made' = Made /\ Callbacks' = Callbacks
      /\ Lives' = [Lives EXCEPT ![s] = q.live]
      /\ \E some \in SUBSET Owed[s] : Owed' = [Owed EXCEPT ![s] = some]
  BY <1>1, ShedStep
<1> QED
  BY <1>2 DEF Pool!Turn, Pool!OwesSome, Made, Lives, Callbacks, Owed

-----------------------------------------------------------------------------
(* The steps of the abstract pool. *)

Turned(s) == Owing' /\ Aged /\ \E up \in BOOLEAN : Pool!Turn(s, up)

LEMMA ShedsTurned ==
    ASSUME Inv, Owing, NEW s \in Sess, NEW q \in Session, Update(s, q), Sheds(q, sess[s]),
           sess[s].peer # "none", UNCHANGED <<pool, asked, got>>
    PROVE  Turned(s)
<1>1. q.live \in BOOLEAN
  BY DEF Session
<1>2. Aged
  BY AgedStep DEF Sheds, SameCaller
<1> QED
  BY <1>1, <1>2, TurnStep DEF Turned

LEMMA KeepsTurned ==
    ASSUME Inv, Owing, NEW s \in Sess, NEW q \in Session, Update(s, q), Keeps(q, sess[s]),
           sess[s].peer # "none", UNCHANGED <<pool, asked, got>>
    PROVE  Turned(s)
BY KeepsSheds, ShedsTurned

(* Nothing happens to a session that has not been accepted. *)
LEMMA FreshIsIdle ==
    ASSUME Owing, NEW s \in Sess, sess[s].peer = "none"
    PROVE  /\ sess[s].ready = <<>> /\ sess[s].reads = 0 /\ ~ sess[s].pingT /\ ~ sess[s].deadT
           /\ ~ sess[s].live /\ sess[s].cb = NoStation
<1>1. sess[s] = NewSession("none", FALSE)
  BY DEF Owing
<1> QED
  BY <1>1 DEF NewSession

LEMMA NewIsEmpty ==
    ASSUME NEW p \in {"none", "up", "closed"}, NEW o \in BOOLEAN, NEW r, r = NewSession(p, o)
    PROVE  /\ r \in Session /\ r.peer = p /\ ~ r.live /\ r.cb = NoStation
           /\ Counted(r) /\ InFlight(r) = {}
           /\ \A st \in Stations : OneToken(r, st) /\ ~ HasToken(r, st)
<1>1. M("none") \in Msg /\ 0 \in Nat /\ <<>> \in Seq(Msg) /\ <<>> \in Seq(Unit)
      /\ <<>> \in Seq(Handler)
  BY MType DEF Signals
<1>2. r \in Session /\ r.peer = p /\ ~ r.live /\ r.cb = NoStation
  BY <1>1 DEF NewSession, Session
<1>3. r.ready = <<>> /\ r.in = <<>> /\ r.out = <<>> /\ r.front = M("none") /\ r.buf = M("none")
  BY DEF NewSession
<1>4. Counted(r)
  BY <1>3 DEF Counted
<1>5. \A x : /\ ~ Has(<<>>, x) /\ ~ HasMsg(<<>>, x)
             /\ Once(<<>>, x) /\ OnceMsg(<<>>, x)
  BY DEF Has, HasMsg, Once, OnceMsg
<1>6. \A st \in Stations : r.front # Static(st) /\ r.buf # Request(st)
  BY <1>3, SignalIsNoTrace DEF Signals
<1>7. \A st \in Stations : st \notin InFlight(r)
  BY <1>3, <1>5, <1>6, InFlightIs
<1>8. InFlight(r) = {}
  <2>1. InFlight(r) \subseteq Stations
    BY DEF InFlight
  <2> QED
    BY <1>7, <2>1
<1>9. \A st \in Stations : OneToken(r, st) /\ ~ HasToken(r, st)
  BY <1>3, <1>5, <1>6 DEF OneToken, HasToken, HasAnswer
<1> QED
  BY <1>2, <1>4, <1>8, <1>9

LEMMA AcceptPool ==
    ASSUME Inv, Owing, NEW s \in Sess, Accept(s)
    PROVE  Owing' /\ Aged /\ Pool!Accept(s)
<1>1. PICK p \in {"up", "closed"}, o \in BOOLEAN : Update(s, AsyncReceive(NewSession(p, o)))
  BY DEF Accept
<1>2. /\ sess[s].peer = "none" /\ pool' = Append(pool, s) /\ UNCHANGED <<asked, got>>
      /\ pool \in Seq(Sess)
  BY DEF Accept, Inv
<1> DEFINE r == NewSession(p, o)
           q == AsyncReceive(r)
<1>3. /\ r \in Session /\ r.peer = p /\ ~ r.live /\ r.cb = NoStation
      /\ Counted(r) /\ InFlight(r) = {}
      /\ \A st \in Stations : OneToken(r, st) /\ ~ HasToken(r, st)
  BY NewIsEmpty
<1> HIDE DEF r
<1>4. q \in Session /\ Keeps(q, r) /\ q.live = r.live
  BY <1>3, AsyncReceiveHolds DEF AsyncReceive, Post, Session
<1>5. Update(s, q)
  BY <1>1 DEF r
<1> HIDE DEF q
<1>6. Sheds(q, r)
  BY <1>4, KeepsSheds
<1>7. q.peer # "none" /\ q.cb = NoStation /\ ~ q.live /\ Counted(q)
  BY <1>3, <1>4, <1>6 DEF Sheds, SameCaller, Older
<1>8. InFlight(q) = {} /\ \A st \in Stations : OneToken(q, st) /\ ~ HasToken(q, st)
  <2>1. InFlight(q) \subseteq Stations
    BY DEF InFlight
  <2> QED
    BY <1>3, <1>6, <2>1 DEF Sheds, ShedsOf
<1>9. /\ sess'[s] = q /\ \A t \in Sess : t # s => sess'[t] = sess[t]
      /\ \A t \in Sess : sess[t] \in Session
  BY <1>5, UpdateGives
<1>10. Given' = Given /\ Given \subseteq asked
  BY <1>2 DEF Given, Owing
<1>11. sess[s] = NewSession("none", FALSE)
  BY <1>2 DEF Owing
<1>12. ~ sess[s].live /\ sess[s].cb = NoStation /\ InFlight(sess[s]) = {}
  BY <1>11, NewIsEmpty
<1>13. /\ ~ sess[s].live /\ sess[s].cb = NoStation /\ sess[s].live = q.live /\ sess[s].cb = q.cb
  <2>1. sess[s].live \in BOOLEAN /\ q.live \in BOOLEAN
    BY <1>4, <1>9 DEF Session
  <2> QED
    BY <1>7, <1>12, <2>1
<1>14. Made' = Made \cup {s} /\ s \notin Made
  BY <1>2, <1>7, <1>9 DEF Made
<1>15. Lives' = Lives /\ Callbacks' = Callbacks /\ Owed' = Owed
  BY <1>8, <1>9, <1>10, <1>12, <1>13 DEF Lives, Callbacks, Owed
<1>16. Pool!Accept(s)
  BY <1>2, <1>14, <1>15 DEF Pool!Accept, Made, Lives, Callbacks, Owed
<1>17. Owing'
  <2>1. \A i \in DOMAIN pool' : sess'[pool'[i]].peer # "none"
    <3>1. \A i \in DOMAIN pool' : pool'[i] = s \/ (i \in DOMAIN pool /\ pool'[i] = pool[i])
      BY <1>2
    <3>2. \A i \in DOMAIN pool : pool[i] \in Sess /\ sess[pool[i]].peer # "none"
      BY <1>2 DEF Owing
    <3> QED
      BY <1>7, <1>9, <3>1, <3>2
  <2>2. \A t \in Sess :
           /\ sess'[t].peer = "none" => sess'[t] = NewSession("none", FALSE)
           /\ Counted(sess'[t])
           /\ InFlight(sess'[t]) \subseteq asked
           /\ \A st \in Stations : /\ OneToken(sess'[t], st)
                                   /\ st \in Given => ~ HasToken(sess'[t], st)
    BY <1>7, <1>8, <1>9 DEF Owing
  <2>3. \A t, u \in Sess : t # u => InFlight(sess'[t]) \cap InFlight(sess'[u]) = {}
    BY <1>8, <1>9 DEF Owing
  <2>4. /\ Given' \subseteq asked'
        /\ \A t \in Sess :
            /\ sess'[t].peer = "none" => sess'[t] = NewSession("none", FALSE)
            /\ Counted(sess'[t])
            /\ InFlight(sess'[t]) \subseteq asked'
            /\ \A u \in Sess : t # u => InFlight(sess'[t]) \cap InFlight(sess'[u]) = {}
            /\ \A st \in Stations : /\ OneToken(sess'[t], st)
                                    /\ st \in Given' => ~ HasToken(sess'[t], st)
    BY <1>2, <1>10, <2>2, <2>3
  <2> QED
    BY <2>1, <2>4 DEF Owing
<1>18. Aged
  <2>1. ~ sess[s].rough /\ ~ sess[s].mixed
    BY <1>11 DEF NewSession
  <2> QED
    BY <1>5, <2>1, AgedStep DEF Older
<1> QED
  BY <1>16, <1>17, <1>18

LEMMA KillSessionPool ==
    ASSUME Inv, Owing, KillSession
    PROVE  Owing' /\ Aged /\ Pool!Sweep
<1>1. PICK i \in DOMAIN pool : /\ ~ sess[pool[i]].live
                               /\ \A j \in 1..(i - 1) : sess[pool[j]].live
                               /\ Update(pool[i], Stop(sess[pool[i]]))
                               /\ pool' = RemoveAt(pool, i)
                               /\ UNCHANGED <<temp, asked, got>>
  BY DEF KillSession
<1> DEFINE s == pool[i]
           q == Stop(sess[s])
<1>2. /\ pool \in Seq(Sess) /\ \A j \in DOMAIN pool : pool[j] \in Sess
      /\ s \in Sess /\ sess[s].peer # "none"
  BY DEF Inv, Owing
<1>3. sess[s] \in Session
  BY <1>1, <1>2, UpdateGives
<1>4. q \in Session /\ q.live = FALSE /\ Sheds(q, sess[s])
  BY <1>3, StopType, StopHolds, KeepsSheds
<1>5. \A j \in DOMAIN pool' : \E k \in DOMAIN pool : pool'[j] = pool[k]
  <2> DEFINE a == SubSeq(pool, 1, i - 1)
             b == SubSeq(pool, i + 1, Len(pool))
  <2>1. /\ a \in Seq(Sess) /\ b \in Seq(Sess)
        /\ \A j \in DOMAIN a : j \in DOMAIN pool /\ a[j] = pool[j]
        /\ \A j \in DOMAIN b : i + j \in DOMAIN pool /\ b[j] = pool[i + j]
    BY <1>2
  <2>2. pool' = a \o b
    BY <1>1 DEF RemoveAt
  <2> HIDE DEF a, b
  <2>3. \A j \in DOMAIN pool' : \/ j \in DOMAIN a /\ pool'[j] = a[j]
                                \/ j - Len(a) \in DOMAIN b /\ pool'[j] = b[j - Len(a)]
    BY <2>1, <2>2
  <2> QED
    BY <2>1, <2>3
<1>6. Update(s, q) /\ got' = got /\ asked' = asked
  BY <1>1
<1> HIDE DEF q
<1>7. /\ Owing' /\ s \in Made /\ Made' = Made /\ Callbacks' = Callbacks
      /\ Lives' = [Lives EXCEPT ![s] = q.live]
      /\ \E some \in SUBSET Owed[s] : Owed' = [Owed EXCEPT ![s] = some]
  BY <1>2, <1>4, <1>5, <1>6, ShedStep
<1>8. Lives' = Lives
  <2>1. sess[s].live \in BOOLEAN
    BY <1>3 DEF Session
  <2>2. Lives[s] = FALSE
    BY <1>1, <1>2, <2>1 DEF Lives
  <2> QED
    BY <1>4, <1>7, <2>2 DEF Lives
<1>9. ~ Lives[s] /\ \A j \in 1..(i - 1) : Lives[pool[j]]
  <2>1. \A j \in 1..(i - 1) : j \in DOMAIN pool
    BY <1>2
  <2> QED
    BY <1>1, <1>2, <2>1 DEF Lives
<1>10. Pool!Sweep
  <2>1. Pool!OwesSome(s, Owed[s])
    BY <1>7 DEF Pool!OwesSome, Owed
  <2>2. /\ ~ Lives[pool[i]] /\ \A j \in 1..(i - 1) : Lives[pool[j]]
        /\ pool' = RemoveAt(pool, i) /\ Pool!OwesSome(pool[i], Owed[pool[i]])
        /\ Made' = Made /\ Lives' = Lives /\ Callbacks' = Callbacks /\ got' = got
    BY <1>1, <1>7, <1>8, <1>9, <2>1
  <2>3. Pool!Sweep <=>
          \E k \in DOMAIN pool :
             /\ ~ Lives[pool[k]] /\ \A j \in 1..(k - 1) : Lives[pool[j]]
             /\ pool' = RemoveAt(pool, k) /\ Pool!OwesSome(pool[k], Owed[pool[k]])
             /\ Made' = Made /\ Lives' = Lives /\ Callbacks' = Callbacks /\ got' = got
    BY DEF Pool!Sweep, Pool!RemoveAt, RemoveAt, Made, Lives, Callbacks, Owed
  <2> QED
    BY <2>2, <2>3
<1>11. Aged
  BY <1>2, <1>4, <1>6, AgedStep DEF Sheds, SameCaller
<1> QED
  BY <1>7, <1>10, <1>11

(* A caller that has not asked before: nothing of it is in flight yet.      *)
LEMMA StartCommandPool ==
    ASSUME Inv, Owing, NEW s \in Sess, NEW st \in Stations, StartCommand(s, st)
    PROVE  /\ Owing' /\ Aged /\ Pool!StartCommand(s, st)
           /\ sess[s].live /\ ~ InFlight(sess[s]) \subseteq Given => sess'[s].mixed
<1>1. /\ s \in Range(pool) /\ st \notin asked /\ asked' = asked \cup {st}
      /\ pool' = pool /\ got' = got
  BY DEF StartCommand
<1>2. sess[s] \in Session /\ sess[s].live \in BOOLEAN /\ asked \subseteq Stations
  BY DEF Inv, SessInv, Session
<1>3. Given' = Given /\ Given \subseteq asked /\ InFlight(sess[s]) \subseteq asked
  BY <1>1 DEF Given, Owing
<1>4. s \in Pool!Range(pool)
  BY <1>1 DEF Range, Pool!Range
<1>5. CASE ~ sess[s].live
  <2>1. sess' = sess
    BY <1>5 DEF StartCommand
  <2>2. Owing'
    BY <1>1, <1>3, <2>1 DEF Owing
  <2>3. Made' = Made /\ Lives' = Lives /\ Callbacks' = Callbacks /\ Owed' = Owed
    BY <1>3, <2>1 DEF Made, Lives, Callbacks, Owed
  <2>4. ~ Lives[s]
    BY <1>5 DEF Lives
  <2>5. Pool!StartCommand(s, st)
    BY <1>1, <1>4, <2>3, <2>4 DEF Pool!StartCommand, Made, Lives, Callbacks, Owed
  <2>6. Aged
    BY <2>1 DEF Aged, Older
  <2> QED
    BY <1>5, <2>2, <2>5, <2>6
<1>6. CASE sess[s].live
  <2> DEFINE more == sess[s].mixed \/ ~ InFlight(sess[s]) \subseteq Given
             r == [sess[s] EXCEPT !.cb = st, !.buf = Request(st), !.next = TRUE,
                                  !.mixed = more]
  <2>1. PICK n \in Outcomes(r, 0) : Update(s, AsyncSend(r, 0, n))
    BY <1>6 DEF StartCommand
  <2>2. Request(st) \in Msg
    BY DEF Request, Msg
  <2>3. /\ r \in Session /\ r.cb = st /\ r.buf = Request(st) /\ r.front = sess[s].front
        /\ r.peer = sess[s].peer /\ r.live = sess[s].live
        /\ r.in = sess[s].in /\ r.out = sess[s].out /\ r.ready = sess[s].ready
        /\ r.rough = sess[s].rough /\ r.mixed = more
    BY <1>2, <2>2 DEF Session
  <2> HIDE DEF r
  <2> DEFINE q == AsyncSend(r, 0, n)
  <2>4. /\ q \in Session /\ SameCaller(q, r) /\ q.live = r.live
        /\ q.buf = r.buf /\ q.front = r.front /\ q.in = r.in
        /\ \A t \in Stations :
             /\ HasMsg(q.ready, Static(t)) => HasMsg(r.ready, Static(t))
             /\ OnceMsg(r.ready, Static(t)) => OnceMsg(q.ready, Static(t))
             /\ HasMsg(q.out, Request(t)) => HasMsg(r.out, Request(t)) \/ r.buf = Request(t)
             /\ Has(q.out, First(t)) =>
                   Has(r.out, First(t)) \/ (0 = 0 /\ r.buf = Request(t))
             /\ Once(r.out, First(t)) /\ ~ (Has(r.out, First(t)) /\ 0 = 0 /\ r.buf = Request(t))
                   => Once(q.out, First(t))
    BY <2>3, AsyncSendAdds
  <2>5. Update(s, q)
    BY <2>1
  <2> HIDE DEF q
  <2>6. sess[s].peer # "none" /\ Counted(sess[s])
    BY <1>6, FreshIsIdle DEF Owing
  <2>7. q.peer # "none" /\ q.cb = st /\ Counted(q)
    BY <2>3, <2>4, <2>6 DEF SameCaller, Counted, Older
  <2>8. ASSUME NEW t \in Stations, t # st
        PROVE  /\ OneToken(q, t) /\ (HasToken(q, t) => HasToken(sess[s], t))
               /\ t \in InFlight(q) => t \in InFlight(sess[s])
    <3>1. q.buf # Request(t) /\ r.buf # Request(t)
      BY <2>3, <2>4, <2>8, RequestsDiffer
    <3>2. KeepsOf(q, sess[s], t)
      BY <2>3, <2>4, <3>1 DEF KeepsOf
    <3>3. t \in InFlight(q) => t \in InFlight(sess[s])
      BY <3>2, InFlightIs DEF KeepsOf
    <3>4. HasToken(q, t) => HasToken(sess[s], t)
      BY <3>2 DEF KeepsOf, HasToken, HasAnswer
    <3>5. OneToken(sess[s], t)
      BY DEF Owing
    <3>6. OneToken(q, t)
      BY <3>2, <3>5 DEF KeepsOf, OneToken, HasAnswer
    <3> QED
      BY <3>3, <3>4, <3>6
  <2>9. OneToken(q, st)
    <3>1. st \notin InFlight(sess[s])
      BY <1>1, <1>3
    <3>2. /\ sess[s].front # Static(st) /\ ~ HasMsg(sess[s].out, Request(st))
          /\ ~ Has(sess[s].in, Static(st)) /\ ~ HasMsg(sess[s].ready, Static(st))
          /\ ~ HasToken(sess[s], st) /\ OneToken(sess[s], st)
      BY <3>1, InFlightIs, TokenInFlight DEF Owing
    <3>3. ~ Has(sess[s].out, First(st))
      BY <3>2 DEF HasToken
    <3> QED
      BY <2>3, <2>4, <3>2, <3>3 DEF OneToken, HasAnswer
  <2>10. \A t \in Stations : OneToken(q, t) /\ (t \in Given => ~ HasToken(q, t))
    <3>1. \A t \in Stations : t \in Given => ~ HasToken(sess[s], t)
      BY DEF Owing
    <3> QED
      BY <1>1, <1>3, <2>8, <2>9, <3>1
  <2>11. InFlight(q) \subseteq InFlight(sess[s]) \cup {st}
    <3>1. InFlight(q) \subseteq Stations
      BY DEF InFlight
    <3> QED
      BY <2>8, <3>1
  <2>12. \A i \in DOMAIN pool' : \E j \in DOMAIN pool : pool'[i] = pool[j]
    BY <1>1
  <2>13. Owing'
    <3>1. /\ asked \subseteq asked' /\ Given' \subseteq asked'
          /\ Given' \subseteq Given \cup InFlight(sess[s])
          /\ InFlight(q) \subseteq InFlight(sess[s]) \cup (asked' \ asked)
          /\ InFlight(q) \subseteq asked'
      BY <1>1, <1>3, <2>11
    <3> QED
      BY <1>3, <2>5, <2>7, <2>10, <2>12, <3>1, OwingStep
  <2>14. /\ s \in Made /\ Made' = Made
         /\ Lives' = [Lives EXCEPT ![s] = q.live]
         /\ Callbacks' = [Callbacks EXCEPT ![s] = q.cb]
         /\ Owed'[s] = InFlight(q) \ Given'
         /\ \A t \in Sess : t # s => Owed'[t] = InFlight(sess[t]) \ Given'
         /\ Owed' \in [Sess -> SUBSET Stations]
    BY <2>5, <2>6, <2>7, MapStep
  <2>15. Lives' = Lives /\ Lives[s]
    BY <1>6, <2>3, <2>4, <2>14 DEF Lives
  <2>16. Owed' = [Owed EXCEPT ![s] = Owed'[s]] /\ Owed'[s] \in SUBSET (Owed[s] \cup {st})
    BY <1>3, <2>11, <2>14 DEF Owed
  <2>17. Pool!OwesSome(s, Owed[s] \cup {st})
    BY <2>16 DEF Pool!OwesSome, Owed
  <2>18. Pool!StartCommand(s, st)
    BY <1>1, <1>4, <2>7, <2>14, <2>15, <2>17 DEF Pool!StartCommand, Made, Lives, Callbacks, Owed
  <2>19. Older(q, sess[s]) /\ (more => q.mixed)
    BY <2>3, <2>4 DEF SameCaller, Older
  <2>20. Aged /\ (more => sess'[s].mixed)
    BY <2>5, <2>19, AgedStep, UpdateGives
  <2> QED
    BY <2>13, <2>18, <2>20
<1> QED
  BY <1>2, <1>5, <1>6

-----------------------------------------------------------------------------
(* The handlers: each is a turn of its session, or a reply. *)

LEMMA Busy ==
    ASSUME Inv, Owing, NEW s \in Sess, NEW op, Due(s, op)
    PROVE  /\ sess[s] \in Session /\ sess[s].ready # <<>> /\ sess[s].peer # "none"
           /\ This(s).op = op
           /\ Rest(s) \in Session /\ This(s) \in Handler /\ Keeps(Rest(s), sess[s])
           /\ CountedHandler(This(s))
<1>1. sess[s] \in Session /\ sess[s].ready # <<>> /\ This(s).op = op /\ Counted(sess[s])
  BY DEF Inv, SessInv, Due, This, Owing
<1>2. sess[s].peer # "none"
  BY <1>1, FreshIsIdle
<1> QED
  BY <1>1, <1>2, RestHolds

LEMMA StopTurned ==
    ASSUME Inv, Owing, NEW s \in Sess, NEW op, Due(s, op), Update(s, Stop(Rest(s))),
           UNCHANGED <<pool, asked, got>>
    PROVE  Turned(s)
<1>1. /\ sess[s].peer # "none" /\ Rest(s) \in Session /\ Keeps(Rest(s), sess[s])
  BY Busy
<1> DEFINE q == Stop(Rest(s))
<1>2. q \in Session /\ Keeps(q, Rest(s)) /\ Update(s, q)
  BY <1>1, StopType, StopHolds
<1> HIDE DEF q
<1>3. Keeps(q, sess[s])
  BY <1>1, <1>2, KeepsTransitive
<1> QED
  BY <1>1, <1>2, <1>3, KeepsTurned

LEMMA SendPool ==
    ASSUME Inv, Owing, NEW s \in Sess,
           OnSendFailed(s) \/ OnSendMismatch(s) \/ OnSendComplete(s)
    PROVE  Turned(s)
<1>1. Due(s, "send") /\ UNCHANGED <<pool, asked, got>>
  BY DEF OnSendFailed, OnSendMismatch, OnSendComplete
<1>2. /\ sess[s].peer # "none" /\ This(s).op = "send"
      /\ Rest(s) \in Session /\ This(s) \in Handler /\ Keeps(Rest(s), sess[s])
      /\ CountedHandler(This(s))
  BY <1>1, Busy
<1>3. CASE OnSendFailed(s)
  BY <1>1, <1>3, StopTurned DEF OnSendFailed
<1>4. CASE OnSendMismatch(s)
  <2> DEFINE total == temp + This(s).n
  <2>1. total \in Nat \ {0}
    <3>1. temp \in Nat /\ This(s).n \in Nat /\ This(s).ok
      BY <1>2, <1>4 DEF Inv, Handler, OnSendMismatch
    <3>2. This(s).n # 0
      BY <1>2, <3>1 DEF CountedHandler
    <3> QED
      BY <3>1, <3>2
  <2>2. PICK n \in Outcomes(Rest(s), total) : Update(s, AsyncSend(Rest(s), total, n))
    BY <1>4 DEF OnSendMismatch
  <2> HIDE DEF total
  <2> DEFINE q == AsyncSend(Rest(s), total, n)
  <2>3. q \in Session /\ Keeps(q, Rest(s))
    BY <1>2, <2>1, <2>2, AsyncSendHolds
  <2>4. Update(s, q)
    BY <2>2
  <2> HIDE DEF q
  <2>5. Keeps(q, sess[s])
    BY <1>2, <2>3, KeepsTransitive
  <2> QED
    BY <1>1, <1>2, <2>3, <2>4, <2>5, KeepsTurned
<1>5. CASE OnSendComplete(s)
  <2> DEFINE r == [Rest(s) EXCEPT !.buf = M("none"), !.next = FALSE]
  <2>1. M("none") \in Msg /\ \A st \in Stations : M("none") # Request(st)
    BY MType, SignalIsNoTrace DEF Signals
  <2>2. Update(s, r) \/ Update(s, AsyncReceive(r))
    BY <1>5 DEF OnSendComplete
  <2>3. /\ r \in Session /\ r.rough = Rest(s).rough /\ r.mixed = Rest(s).mixed
        /\ r.cb = Rest(s).cb /\ r.peer = Rest(s).peer /\ r.buf = M("none")
        /\ r.front = Rest(s).front /\ r.in = Rest(s).in /\ r.out = Rest(s).out
        /\ r.ready = Rest(s).ready
    BY <1>2, <2>1 DEF Session
  <2> HIDE DEF r
  <2>4. Keeps(r, Rest(s))
    BY <2>1, <2>3, SameFewer, FewerKeeps DEF Counted, Older
  <2>5. Keeps(r, sess[s])
    BY <1>2, <2>4, KeepsTransitive
  <2>6. AsyncReceive(r) \in Session /\ Keeps(AsyncReceive(r), sess[s])
    BY <2>3, <2>5, AsyncReceiveHolds, KeepsTransitive
  <2> QED
    BY <1>1, <1>2, <2>2, <2>3, <2>5, <2>6, KeepsTurned
<1> QED
  BY <1>3, <1>4, <1>5

LEMMA PingPool ==
    ASSUME Inv, Owing, NEW s \in Sess, OnPing(s) \/ OnDeadPing(s)
    PROVE  Turned(s)
<1>1. PICK op \in {"ping", "dead"} : Due(s, op)
  BY DEF OnPing, OnDeadPing
<1>2. UNCHANGED <<pool, asked, got>>
  BY DEF OnPing, OnDeadPing
<1>3. /\ sess[s].peer # "none" /\ Rest(s) \in Session /\ Keeps(Rest(s), sess[s])
  BY <1>1, Busy
<1>4. CASE Update(s, Stop(Rest(s)))
  BY <1>1, <1>2, <1>4, StopTurned
<1>5. CASE Update(s, Rest(s))
  BY <1>2, <1>3, <1>5, KeepsTurned
<1>6. CASE LET r == ArmDead([Rest(s) EXCEPT !.buf = M("ping"), !.next = TRUE,
                                            !.pong = FALSE])
           IN  \E n \in Outcomes(r, 0) : Update(s, AsyncSend(r, 0, n))
  <2> DEFINE b == [Rest(s) EXCEPT !.buf = M("ping"), !.next = TRUE, !.pong = FALSE]
             r == ArmDead(b)
  <2>1. M("ping") \in Msg /\ \A st \in Stations : M("ping") # Request(st)
    BY MType, SignalIsNoTrace DEF Signals
  <2>2. PICK n \in Outcomes(r, 0) : Update(s, AsyncSend(r, 0, n))
    BY <1>6
  <2>3. /\ b \in Session /\ b.rough = Rest(s).rough /\ b.mixed = Rest(s).mixed
        /\ b.cb = Rest(s).cb /\ b.peer = Rest(s).peer /\ b.buf = M("ping")
        /\ b.front = Rest(s).front /\ b.in = Rest(s).in /\ b.out = Rest(s).out
        /\ b.ready = Rest(s).ready
    BY <1>3, <2>1 DEF Session
  <2>a. r.buf = b.buf
    BY <2>3 DEF ArmDead, CancelDead, Post, Session
  <2> HIDE DEF b
  <2>4. Keeps(b, Rest(s))
    BY <2>1, <2>3, SameFewer, FewerKeeps DEF Counted, Older
  <2>5. r \in Session /\ Keeps(r, b)
    BY <2>3, ArmHolds
  <2> HIDE DEF r
  <2>6. Keeps(r, sess[s])
    BY <1>3, <2>4, <2>5, KeepsTransitive
  <2> DEFINE q == AsyncSend(r, 0, n)
  <2>7. q \in Session /\ Keeps(q, r)
    BY <2>1, <2>2, <2>3, <2>5, <2>a, AsyncSendHolds
  <2>8. Update(s, q)
    BY <2>2
  <2> HIDE DEF q
  <2>9. Keeps(q, sess[s])
    BY <2>6, <2>7, KeepsTransitive
  <2> QED
    BY <1>2, <1>3, <2>7, <2>8, <2>9, KeepsTurned
<1> QED
  BY <1>4, <1>5, <1>6 DEF OnPing, OnDeadPing

LEMMA TimerPool ==
    ASSUME Inv, Owing, NEW s \in Sess, PingExpires(s) \/ DeadPingExpires(s) \/ DeliverEnd(s)
    PROVE  Turned(s)
<1>1. sess[s] \in Session /\ UNCHANGED <<pool, asked, got>>
  BY DEF Inv, SessInv, PingExpires, DeadPingExpires, DeliverEnd
<1>2. sess[s].peer # "none"
  BY FreshIsIdle DEF PingExpires, DeadPingExpires, DeliverEnd
<1>3. ASSUME NEW r \in Session, NEW op \in {"ping", "dead", "recv"}, NEW ok \in BOOLEAN,
             Update(s, Post(r, Done(op, ok))), Keeps(r, sess[s])
      PROVE  Turned(s)
  <2> DEFINE q == Post(r, Done(op, ok))
  <2>1. q \in Session /\ Keeps(q, r) /\ Update(s, q)
    BY <1>3, DoneHolds, PostHolds, PostType
  <2> HIDE DEF q
  <2>2. Keeps(q, sess[s])
    BY <1>3, <2>1, KeepsTransitive
  <2> QED
    BY <1>1, <1>2, <2>1, <2>2, KeepsTurned
<1> DEFINE p == [sess[s] EXCEPT !.pingT = FALSE]
           d == [sess[s] EXCEPT !.deadT = FALSE]
           less == sess[s].reads - 1
           e == [sess[s] EXCEPT !.reads = less]
<1>4. Keeps(p, sess[s]) /\ p \in Session
  <2>1. /\ p \in Session /\ p.rough = sess[s].rough /\ p.mixed = sess[s].mixed
        /\ p.cb = sess[s].cb /\ p.peer = sess[s].peer /\ p.buf = sess[s].buf
        /\ p.front = sess[s].front /\ p.in = sess[s].in /\ p.out = sess[s].out
        /\ p.ready = sess[s].ready
    BY <1>1 DEF Session
  <2> QED
    BY <2>1, SameKeeps DEF Older
<1>5. Keeps(d, sess[s]) /\ d \in Session
  <2>1. /\ d \in Session /\ d.rough = sess[s].rough /\ d.mixed = sess[s].mixed
        /\ d.cb = sess[s].cb /\ d.peer = sess[s].peer /\ d.buf = sess[s].buf
        /\ d.front = sess[s].front /\ d.in = sess[s].in /\ d.out = sess[s].out
        /\ d.ready = sess[s].ready
    BY <1>1 DEF Session
  <2> QED
    BY <2>1, SameKeeps DEF Older
<1>6. CASE PingExpires(s)
  BY <1>3, <1>4, <1>6 DEF PingExpires
<1>7. CASE DeadPingExpires(s)
  BY <1>3, <1>5, <1>7 DEF DeadPingExpires
<1>8. CASE DeliverEnd(s)
  <2>1. sess[s].reads > 0 /\ sess[s].reads \in Nat /\ Update(s, Post(e, Done("recv", FALSE)))
    BY <1>1, <1>8 DEF DeliverEnd, Session
  <2>2. less \in Nat
    BY <2>1
  <2> HIDE DEF less
  <2>3. /\ e \in Session /\ e.rough = sess[s].rough /\ e.mixed = sess[s].mixed
        /\ e.cb = sess[s].cb /\ e.peer = sess[s].peer /\ e.buf = sess[s].buf
        /\ e.front = sess[s].front /\ e.in = sess[s].in /\ e.out = sess[s].out
        /\ e.ready = sess[s].ready
    BY <1>1, <2>2 DEF Session
  <2> HIDE DEF e
  <2>4. Keeps(e, sess[s])
    BY <2>3, SameKeeps DEF Older
  <2> QED
    BY <1>3, <2>1, <2>3, <2>4
<1> QED
  BY <1>6, <1>7, <1>8

(* A message that is delivered passes from the connection to the queue.     *)
LEMMA DeliverPool ==
    ASSUME Inv, Owing, NEW s \in Sess, Deliver(s)
    PROVE  Turned(s)
<1>1. sess[s] \in Session /\ UNCHANGED <<pool, asked, got>>
  BY DEF Inv, SessInv, Deliver
<1>2. sess[s].peer # "none"
  BY FreshIsIdle DEF Deliver
<1> DEFINE less == sess[s].reads - 1
           first(k) == IF k = 0 THEN M("none") ELSE sess[s].in[1]
           Read(k, b) == [sess[s] EXCEPT !.reads = less, !.half = b,
                                         !.in = SubSeq(@, k + 1, Len(@))]
<1>3. PICK k \in 0..Len(sess[s].in), op \in {"recv", "part"}, b \in BOOLEAN :
         Update(s, Post(Read(k, b), Received(op, first(k))))
  BY DEF Deliver
<1>4. sess[s].in \in Seq(Msg) /\ Len(sess[s].in) \in Nat /\ M("none") \in Msg
      /\ less \in Nat
  <2>1. sess[s].reads > 0 /\ sess[s].reads \in Nat
    BY <1>1 DEF Deliver, Session
  <2> QED
    BY <1>1, <2>1, MType DEF Session, Signals
<1> DEFINE left == SubSeq(sess[s].in, k + 1, Len(sess[s].in))
           m == first(k)
           h == Received(op, m)
           p == [sess[s] EXCEPT !.reads = less, !.half = b, !.in = left]
           q == Post(p, h)
<1>5. m \in Msg /\ left \in Seq(Msg)
  BY <1>3, <1>4, SubSeqType
<1>6. /\ Fewer(left, sess[s].in)
      /\ \A st \in Stations : m = Static(st) =>
            /\ Has(sess[s].in, Static(st))
            /\ Once(sess[s].in, Static(st)) => ~ Has(left, Static(st))
  <2> DEFINE arrived == sess[s].in
  <2>1. arrived \in Seq(Msg) /\ k \in Nat /\ k <= Len(arrived) /\ left = SubSeq(arrived, k + 1, Len(arrived))
    BY <1>3, <1>4
  <2>2. k # 0 => m = arrived[1] /\ 1 \in 1..k /\ 1 \in DOMAIN arrived
    BY <2>1
  <2>3. k = 0 => \A st \in Stations : m # Static(st)
    BY SignalIsNoTrace DEF Signals
  <2> HIDE DEF arrived, left, m
  <2>4. /\ Fewer(left, arrived)
        /\ \A x : \A i \in 1..k : arrived[i] = x /\ Once(arrived, x) => ~ Has(left, x)
    BY <2>1, SuffixFewer
  <2>5. k # 0 => Has(arrived, m) /\ (Once(arrived, m) => ~ Has(left, m))
    BY <2>2, <2>4 DEF Has
  <2>6. \A st \in Stations : m = Static(st) =>
            /\ Has(arrived, Static(st))
            /\ Once(arrived, Static(st)) => ~ Has(left, Static(st))
    BY <2>3, <2>5
  <2> QED
    BY <2>4, <2>6 DEF arrived
<1>7. Update(s, q)
  BY <1>3
<1> HIDE DEF left, m, less, first, Read
<1>8. /\ p \in Session /\ p.rough = sess[s].rough /\ p.mixed = sess[s].mixed
      /\ p.cb = sess[s].cb /\ p.peer = sess[s].peer /\ p.buf = sess[s].buf
      /\ p.front = sess[s].front /\ p.in = left /\ p.out = sess[s].out
      /\ p.ready = sess[s].ready
  BY <1>1, <1>4, <1>5 DEF Session
<1> HIDE DEF p
<1>9. /\ h \in Handler /\ h.msg = m /\ CountedHandler(h)
  BY <1>5, ReceivedType DEF Received, CountedHandler
<1> HIDE DEF h
<1>10. /\ q \in Session /\ q.rough = p.rough /\ q.mixed = p.mixed
       /\ q.cb = p.cb /\ q.peer = p.peer /\ q.buf = p.buf
       /\ q.front = p.front /\ q.in = p.in /\ q.out = p.out /\ q.ready = Append(p.ready, h)
       /\ p.ready \in Seq(Handler)
  BY <1>8, <1>9, PostType DEF Post, Session
<1> HIDE DEF q
<1> DEFINE before == p.ready
           after == q.ready
<1>11. before \in Seq(Handler) /\ after = Append(before, h)
  BY <1>10
<1>12. Counted(p) => Counted(q)
  <2> DEFINE n == Len(before) + 1
  <2>1. /\ \A i \in DOMAIN after : i \in DOMAIN before \/ i = n
        /\ \A i \in DOMAIN before : after[i] = before[i]
        /\ after[n] = h
    BY <1>11
  <2> HIDE DEF n
  <2> QED
    BY <1>9, <2>1 DEF Counted
<1> HIDE DEF before, after
<1>13. /\ \A x : HasMsg(after, x) <=> HasMsg(before, x) \/ h.msg = x
       /\ \A x : OnceMsg(before, x) /\ ~ (HasMsg(before, x) /\ h.msg = x) => OnceMsg(after, x)
  BY <1>11, AppendHas
<1>14. SameCaller(q, sess[s])
  BY <1>8, <1>10, <1>12 DEF SameCaller, Counted, Older
<1>15. ASSUME NEW st \in Stations
       PROVE  ShedsOf(q, sess[s], st)
  <2>1. /\ Has(left, Static(st)) => Has(sess[s].in, Static(st))
        /\ Once(sess[s].in, Static(st)) => Once(left, Static(st))
        /\ m = Static(st) => /\ Has(sess[s].in, Static(st))
                             /\ Once(sess[s].in, Static(st)) => ~ Has(left, Static(st))
    BY <1>6 DEF Fewer
  <2>2. /\ HasMsg(q.ready, Static(st)) <=> HasMsg(sess[s].ready, Static(st)) \/ m = Static(st)
        /\ OnceMsg(sess[s].ready, Static(st)) /\ ~ (HasMsg(sess[s].ready, Static(st)) /\ m = Static(st))
              => OnceMsg(q.ready, Static(st))
    BY <1>8, <1>9, <1>13 DEF before, after
  <2>3. st \in InFlight(q) => st \in InFlight(sess[s])
    BY <1>8, <1>10, <2>1, <2>2, InFlightIs
  <2>4. HasToken(q, st) => HasToken(sess[s], st)
    BY <1>8, <1>10, <2>1, <2>2 DEF HasToken, HasAnswer
  <2>5. OneToken(sess[s], st) => OneToken(q, st)
    BY <1>8, <1>10, <2>1, <2>2 DEF OneToken, HasAnswer
  <2> QED
    BY <2>3, <2>4, <2>5 DEF ShedsOf
<1>16. Sheds(q, sess[s])
  BY <1>14, <1>15 DEF Sheds
<1> QED
  BY <1>1, <1>2, <1>7, <1>10, <1>16, ShedsTurned

LEMMA SayType ==
    ASSUME NEW r \in Session, NEW m \in Msg, NEW q, q = Say(r, m)
    PROVE  /\ q \in Session /\ q.rough = r.rough /\ q.mixed = r.mixed
           /\ q.cb = r.cb /\ q.peer = r.peer /\ q.buf = r.buf
           /\ q.front = r.front /\ q.out = r.out /\ q.ready = r.ready
           /\ \A x : Has(q.in, x) <=> Has(r.in, x) \/ m = x
           /\ \A x : Once(r.in, x) /\ ~ (Has(r.in, x) /\ m = x) => Once(q.in, x)
<1> DEFINE before == r.in
           after == Append(r.in, m)
<1>1. before \in Seq(Msg) /\ after = Append(before, m) /\ after \in Seq(Msg)
  BY DEF Session
<1>2. q = [r EXCEPT !.in = after]
  BY DEF Say
<1> HIDE DEF before, after
<1>3. /\ \A x : Has(after, x) <=> Has(before, x) \/ m = x
      /\ \A x : Once(before, x) /\ ~ (Has(before, x) /\ m = x) => Once(after, x)
  BY <1>1, AppendHas
<1>4. /\ q \in Session /\ q.rough = r.rough /\ q.mixed = r.mixed
      /\ q.cb = r.cb /\ q.peer = r.peer /\ q.buf = r.buf
      /\ q.front = r.front /\ q.out = r.out /\ q.ready = r.ready /\ q.in = after
  BY <1>1, <1>2 DEF Session
<1> QED
  BY <1>3, <1>4 DEF before

(* An answer takes the place of the request it answers. *)
LEMMA WorkerTurns ==
    ASSUME Inv, Owing, NEW s \in Sess,
           WorkerConnect(s) \/ WorkerAnswer(s) \/ WorkerFails(s)
    PROVE  Turned(s)
<1>1. sess[s] \in Session /\ UNCHANGED <<pool, asked, got>>
  BY DEF Inv, SessInv, WorkerConnect, WorkerAnswer, WorkerFails
<1>2. sess[s].peer # "none"
  BY DEF WorkerConnect, WorkerAnswer, WorkerFails
<1>3. ASSUME NEW r \in Session, Keeps(r, sess[s]), NEW m \in Msg, Update(s, Say(r, m)),
             \A st \in Stations : m # Static(st)
      PROVE  Turned(s)
  <2> DEFINE q == Say(r, m)
  <2>1. Update(s, q)
    BY <1>3
  <2>2. /\ q \in Session /\ q.rough = r.rough /\ q.mixed = r.mixed
        /\ q.cb = r.cb /\ q.peer = r.peer /\ q.buf = r.buf
        /\ q.front = r.front /\ q.out = r.out /\ q.ready = r.ready
        /\ \A x : Has(q.in, x) <=> Has(r.in, x) \/ m = x
        /\ \A x : Once(r.in, x) /\ ~ (Has(r.in, x) /\ m = x) => Once(q.in, x)
    BY <1>3, SayType
  <2> HIDE DEF q
  <2>3. Keeps(q, r)
    BY <1>3, <2>2 DEF Keeps, KeepsOf, SameCaller, Counted, Older
  <2>4. Keeps(q, sess[s])
    BY <1>3, <2>3, KeepsTransitive
  <2> QED
    BY <1>1, <1>2, <2>1, <2>2, <2>4, KeepsTurned
<1>4. CASE WorkerConnect(s)
  <2>1. M("connect") \in Msg /\ \A st \in Stations : M("connect") # Static(st)
    BY MType, SignalIsNoTrace DEF Signals
  <2>2. Keeps(sess[s], sess[s])
    BY SameKeeps DEF Older
  <2> QED
    BY <1>1, <1>3, <1>4, <2>1, <2>2 DEF WorkerConnect
<1>5. CASE WorkerFails(s)
  <2>1. PICK p \in {"silent", "closed"} :
           Update(s, [sess[s] EXCEPT !.peer = p, !.out = <<>>])
    BY <1>5 DEF WorkerFails
  <2> DEFINE r == [sess[s] EXCEPT !.peer = p, !.out = <<>>]
  <2>2. <<>> \in Seq(Unit)
    OBVIOUS
  <2>3. /\ r \in Session /\ r.rough = sess[s].rough /\ r.mixed = sess[s].mixed
        /\ r.cb = sess[s].cb /\ r.peer = p /\ r.buf = sess[s].buf
        /\ r.front = sess[s].front /\ r.in = sess[s].in /\ r.out = <<>>
        /\ r.ready = sess[s].ready
    BY <1>1, <2>2 DEF Session
  <2> HIDE DEF r
  <2>4. Keeps(r, sess[s])
    BY <2>1, <2>3, SameFewer, EmptyFewer, FewerKeeps DEF Counted, Older
  <2> QED
    BY <1>1, <1>2, <2>1, <2>3, <2>4, KeepsTurned DEF r
<1>6. CASE WorkerAnswer(s)
  <2> DEFINE written == sess[s].out
             m == Head(written).msg
             n == Size(m)
             left == SubSeq(written, n + 1, Len(written))
             r == [sess[s] EXCEPT !.out = left]
  <2>1. written \in Seq(Unit) /\ written # <<>> /\ IsPrefix(Units(m), written)
    BY <1>1, <1>6 DEF Session, WorkerAnswer
  <2>2. m \in Msg
    <3>1. Head(written) \in Unit
      BY <2>1
    <3> QED
      BY <3>1 DEF Unit
  <2>3. n \in Nat /\ n <= Len(written) /\ left \in Seq(Unit)
        /\ (n # 0 => written[1] = [msg |-> m, part |-> 1])
    <3>1. Units(m) \in Seq(Unit) /\ Len(Units(m)) = n /\ n \in Nat
      BY <2>2, UnitsType, SizeType
    <3>2. n <= Len(written) /\ \A i \in 1..n : Units(m)[i] = written[i]
      BY <2>1, <3>1 DEF IsPrefix
    <3>3. n # 0 => 1 \in 1..n /\ Units(m)[1] = [msg |-> m, part |-> 1]
      BY <3>1 DEF Units
    <3>4. left \in Seq(Unit)
      BY <2>1, <3>1, SubSeqType
    <3> QED
      BY <3>1, <3>2, <3>3, <3>4
  <2>4. \/ Update(s, r)
        \/ m.kind \in {"ping", "request"} /\ \E a \in Answers(m) : Update(s, Say(r, a))
    BY <1>6 DEF WorkerAnswer
  <2> HIDE DEF written, m, n
  <2>5. /\ Fewer(left, written) /\ FewerMsg(left, written)
        /\ \A x : \A i \in 1..n : written[i] = x /\ Once(written, x) => ~ Has(left, x)
    BY <2>1, <2>3, SuffixFewer
  <2> HIDE DEF left
  <2>6. /\ r \in Session /\ r.rough = sess[s].rough /\ r.mixed = sess[s].mixed
        /\ r.cb = sess[s].cb /\ r.peer = sess[s].peer /\ r.buf = sess[s].buf
        /\ r.front = sess[s].front /\ r.in = sess[s].in /\ r.out = left
        /\ r.ready = sess[s].ready
    BY <1>1, <2>3 DEF Session
  <2> HIDE DEF r
  <2>7. Keeps(r, sess[s])
    BY <2>5, <2>6, SameFewer, FewerKeeps DEF Counted, written, Older
  <2>8. CASE Update(s, r)
    BY <1>1, <1>2, <2>6, <2>7, <2>8, KeepsTurned
  <2>9. CASE m.kind = "ping" /\ \E a \in Answers(m) : Update(s, Say(r, a))
    <3>1. PICK a \in Answers(m) : Update(s, Say(r, a))
      BY <2>9
    <3>2. PICK kind \in Signals : a = M(kind)
      BY <2>9, <3>1, SessionAssumption DEF Answers, SessionAssumption, Signals
    <3>3. a \in Msg /\ \A st \in Stations : a # Static(st)
      BY <3>2, MType, SignalIsNoTrace
    <3> QED
      BY <1>3, <2>6, <2>7, <3>1, <3>3
  <2>10. CASE m.kind = "request" /\ \E a \in Answers(m) : Update(s, Say(r, a))
    <3> DEFINE c == m.st
               a == Static(c)
    <3>1. c \in Stations /\ m = Request(c) /\ a \in Msg
      BY <2>2, <2>10 DEF Msg, Signals, Request, Static
    <3>2. n # 0
      <4>1. n = Size(m) /\ m.kind = "request"
        BY <2>10 DEF n
      <4> QED
        BY <4>1 DEF Size
    <3>3. written[1] = First(c) /\ 1 \in 1..n /\ 1 \in DOMAIN written
      BY <2>1, <2>3, <3>1, <3>2 DEF First
    <3>4. /\ Has(written, First(c)) /\ HasMsg(written, Request(c))
          /\ Once(written, First(c)) => ~ Has(left, First(c))
      <4>1. First(c).msg = Request(c)
        BY DEF First
      <4> QED
        BY <2>5, <3>3, <4>1 DEF Has, HasMsg
    <3>5. Update(s, Say(r, a))
      <4>1. Answers(m) = {a}
        BY <2>10 DEF Answers
      <4> QED
        BY <2>10, <4>1
    <3> HIDE DEF a
    <3> DEFINE q == Say(r, a)
    <3>6. /\ q \in Session /\ q.rough = r.rough /\ q.mixed = r.mixed
          /\ q.cb = r.cb /\ q.peer = r.peer /\ q.buf = r.buf
          /\ q.front = r.front /\ q.out = r.out /\ q.ready = r.ready
          /\ \A x : Has(q.in, x) <=> Has(r.in, x) \/ a = x
          /\ \A x : Once(r.in, x) /\ ~ (Has(r.in, x) /\ a = x) => Once(q.in, x)
      BY <2>6, <3>1, SayType
    <3> HIDE DEF q
    <3>7. SameCaller(q, sess[s])
      BY <2>7, <3>6 DEF Keeps, SameCaller, Counted, Older
    <3>8. ASSUME NEW st \in Stations
          PROVE  ShedsOf(q, sess[s], st)
      <4>1. a = Static(st) => st = c
        BY RequestsDiffer DEF a
      <4>2. /\ Has(left, First(st)) => Has(written, First(st))
            /\ HasMsg(left, Request(st)) => HasMsg(written, Request(st))
            /\ Once(written, First(st)) => Once(left, First(st))
        BY <2>5 DEF Fewer, FewerMsg
      <4>3. a = Static(st) => /\ Has(written, First(st)) /\ HasMsg(written, Request(st))
                              /\ Once(written, First(st)) => ~ Has(left, First(st))
        BY <3>4, <4>1
      <4>4. /\ Has(q.in, Static(st)) <=> Has(sess[s].in, Static(st)) \/ a = Static(st)
            /\ Once(sess[s].in, Static(st)) /\ ~ (Has(sess[s].in, Static(st)) /\ a = Static(st))
                 => Once(q.in, Static(st))
            /\ q.out = left /\ sess[s].out = written
            /\ q.buf = sess[s].buf /\ q.front = sess[s].front /\ q.ready = sess[s].ready
        BY <2>6, <3>6 DEF written
      <4>5. st \in InFlight(q) => st \in InFlight(sess[s])
        BY <4>2, <4>3, <4>4, InFlightIs
      <4>6. HasToken(q, st) => HasToken(sess[s], st)
        BY <4>2, <4>3, <4>4 DEF HasToken, HasAnswer
      <4>7. OneToken(sess[s], st) => OneToken(q, st)
        BY <4>2, <4>3, <4>4 DEF OneToken, HasAnswer
      <4> QED
        BY <4>5, <4>6, <4>7 DEF ShedsOf
    <3>9. Sheds(q, sess[s]) /\ Update(s, q)
      BY <3>5, <3>7, <3>8 DEF Sheds, q
    <3> QED
      BY <1>1, <1>2, <3>6, <3>9, ShedsTurned
  <2> QED
    BY <2>4, <2>8, <2>9, <2>10
<1> QED
  BY <1>4, <1>5, <1>6

(* The session once its handler has taken the front of the queue.           *)
LEMMA FrontTaken ==
    ASSUME Inv, Owing, NEW s \in Sess, NEW op, Due(s, op),
           NEW r, r = [Rest(s) EXCEPT !.front = M("none")]
    PROVE  /\ r \in Session /\ Keeps(r, sess[s])
           /\ r.rough = sess[s].rough /\ r.mixed = sess[s].mixed
           /\ r.cb = sess[s].cb /\ r.live = sess[s].live
           /\ r.buf = sess[s].buf /\ r.front = M("none") /\ r.in = sess[s].in
           /\ r.out = sess[s].out /\ r.ready = Rest(s).ready /\ r.peer = sess[s].peer
<1>1. /\ sess[s] \in Session /\ Rest(s) \in Session /\ Keeps(Rest(s), sess[s])
      /\ sess[s].ready # <<>>
  BY Busy
<1>2. /\ Rest(s).buf = sess[s].buf /\ Rest(s).in = sess[s].in /\ Rest(s).out = sess[s].out
      /\ Rest(s).rough = sess[s].rough /\ Rest(s).mixed = sess[s].mixed
      /\ Rest(s).cb = sess[s].cb /\ Rest(s).live = sess[s].live /\ Rest(s).peer = sess[s].peer
  BY <1>1, RestHolds
<1>3. M("none") \in Msg /\ \A st \in Stations : M("none") # Static(st)
  BY MType, SignalIsNoTrace DEF Signals
<1>4. /\ r \in Session
      /\ r.rough = Rest(s).rough /\ r.mixed = Rest(s).mixed
      /\ r.cb = Rest(s).cb /\ r.live = Rest(s).live /\ r.buf = Rest(s).buf
      /\ r.front = M("none") /\ r.in = Rest(s).in /\ r.out = Rest(s).out
      /\ r.ready = Rest(s).ready /\ r.peer = Rest(s).peer
  BY <1>1, <1>3 DEF Session
<1>5. Keeps(r, Rest(s))
  BY <1>3, <1>4, SameFewer, FewerKeeps DEF Counted, Older
<1> QED
  BY <1>1, <1>2, <1>4, <1>5, KeepsTransitive

(* A cut receive keeps the first message it has completed. *)
LEMMA PartialPool ==
    ASSUME Inv, Owing, NEW s \in Sess, OnReceivePartial(s)
    PROVE  Turned(s)
<1>1. Due(s, "part") /\ UNCHANGED <<pool, asked, got>>
  BY DEF OnReceivePartial
<1>2. /\ sess[s] \in Session /\ sess[s].ready # <<>> /\ sess[s].peer # "none"
      /\ Rest(s) \in Session /\ This(s) \in Handler /\ Keeps(Rest(s), sess[s])
  BY <1>1, Busy
<1>3. /\ Rest(s).buf = sess[s].buf /\ Rest(s).in = sess[s].in /\ Rest(s).out = sess[s].out
      /\ FewerMsg(Rest(s).ready, sess[s].ready)
      /\ HasMsg(sess[s].ready, This(s).msg)
      /\ OnceMsg(sess[s].ready, This(s).msg) => ~ HasMsg(Rest(s).ready, This(s).msg)
  BY <1>2, RestHolds
<1> DEFINE m == Foremost(s)
           r == [Rest(s) EXCEPT !.front = m]
           q == AsyncReceive(r)
<1>4. m \in Msg /\ (m = sess[s].front \/ m = This(s).msg)
  BY <1>2 DEF Foremost, Session, Handler
<1>5. Update(s, q)
  BY DEF OnReceivePartial
<1> HIDE DEF m
<1>6. /\ r \in Session /\ r.cb = Rest(s).cb /\ r.buf = Rest(s).buf /\ r.peer = Rest(s).peer
      /\ r.rough = Rest(s).rough /\ r.mixed = Rest(s).mixed
      /\ r.front = m /\ r.in = Rest(s).in /\ r.out = Rest(s).out /\ r.ready = Rest(s).ready
  BY <1>2, <1>4 DEF Session
<1> HIDE DEF r
<1>7. q \in Session /\ Keeps(q, r)
  BY <1>6, AsyncReceiveHolds
<1> HIDE DEF q
<1>8. SameCaller(r, sess[s])
  BY <1>2, <1>6 DEF Keeps, SameCaller, Counted, Older
<1>9. ASSUME NEW st \in Stations
      PROVE  ShedsOf(r, sess[s], st)
  <2>1. /\ r.buf = sess[s].buf /\ r.in = sess[s].in /\ r.out = sess[s].out
        /\ HasMsg(r.ready, Static(st)) => HasMsg(sess[s].ready, Static(st))
        /\ OnceMsg(sess[s].ready, Static(st)) => OnceMsg(r.ready, Static(st))
    BY <1>3, <1>6 DEF FewerMsg
  <2>2. r.front = Static(st) =>
           \/ sess[s].front = Static(st)
           \/ /\ HasMsg(sess[s].ready, Static(st))
              /\ OnceMsg(sess[s].ready, Static(st)) => ~ HasMsg(r.ready, Static(st))
    BY <1>3, <1>4, <1>6
  <2>3. st \in InFlight(r) => st \in InFlight(sess[s])
    BY <2>1, <2>2, InFlightIs
  <2>4. HasToken(r, st) => HasToken(sess[s], st)
    BY <2>1, <2>2 DEF HasToken, HasAnswer
  <2>5. OneToken(sess[s], st) => OneToken(r, st)
    BY <2>1, <2>2 DEF OneToken, HasAnswer
  <2> QED
    BY <2>3, <2>4, <2>5 DEF ShedsOf
<1>10. Sheds(r, sess[s])
  BY <1>8, <1>9 DEF Sheds
<1>11. Sheds(q, sess[s])
  BY <1>7, <1>10, KeepsSheds, ShedsTransitive
<1> QED
  BY <1>1, <1>2, <1>5, <1>7, <1>11, ShedsTurned

(* The answer that is given was the only thing left to answer st from.      *)
LEMMA ReplyPool ==
    ASSUME Inv, Owing, NEW s \in Sess, Due(s, "recv"), NEW r,
           r = [Rest(s) EXCEPT !.front = M("none")], NEW st \in Stations,
           Foremost(s) = Static(st), Update(s, r), sess[s].cb # NoStation,
           got' = [got EXCEPT ![sess[s].cb] = Append(@, st)], UNCHANGED <<pool, asked>>
    PROVE  Owing' /\ Aged /\ Pool!Reply(s, st)
<1>1. /\ sess[s] \in Session /\ sess[s].ready # <<>> /\ sess[s].peer # "none"
  BY Busy
<1>2. /\ r \in Session /\ Keeps(r, sess[s])
      /\ r.rough = sess[s].rough /\ r.mixed = sess[s].mixed
      /\ r.cb = sess[s].cb /\ r.live = sess[s].live
      /\ r.buf = sess[s].buf /\ r.front = M("none") /\ r.in = sess[s].in
      /\ r.out = sess[s].out /\ r.ready = Rest(s).ready /\ r.peer = sess[s].peer
  BY FrontTaken
<1>3. /\ FewerMsg(Rest(s).ready, sess[s].ready)
      /\ HasMsg(sess[s].ready, This(s).msg)
      /\ OnceMsg(sess[s].ready, This(s).msg) => ~ HasMsg(Rest(s).ready, This(s).msg)
  BY <1>1, RestHolds
<1>4. /\ sess[s].front = Static(st) \/ (sess[s].front = M("none") /\ This(s).msg = Static(st))
      /\ M("none") # Static(st)
  BY SignalIsNoTrace DEF Foremost, Signals
<1>5. HasAnswer(sess[s], st) /\ OneToken(sess[s], st)
  BY <1>3, <1>4 DEF HasAnswer, Owing
<1>6. st \in InFlight(sess[s]) /\ st \notin Given
  BY <1>5, TokenInFlight DEF HasToken, Owing
<1>7. ~ HasToken(r, st)
  <2>1. ~ Has(r.out, First(st)) /\ r.front # Static(st)
    BY <1>2, <1>4, <1>5 DEF OneToken
  <2>2. ~ Has(r.in, Static(st))
    BY <1>2, <1>3, <1>4, <1>5 DEF OneToken
  <2>3. ~ HasMsg(r.ready, Static(st))
    BY <1>2, <1>3, <1>4, <1>5 DEF OneToken, FewerMsg
  <2> QED
    BY <2>1, <2>2, <2>3 DEF HasToken, HasAnswer
<1>8. Given' = Given \cup {st}
  <2>1. got \in [Stations -> Seq(Stations)] /\ sess[s].cb \in Stations
    BY <1>1 DEF Inv, Session
  <2>2. Range(got'[sess[s].cb]) = Range(got[sess[s].cb]) \cup {st}
        /\ \A t \in Stations : t # sess[s].cb => got'[t] = got[t]
    BY <2>1, RangeOf
  <2>3. ASSUME NEW x PROVE x \in Given' <=> x \in Given \/ x = st
    <3>1. x \in Given' <=> \E t \in Stations : x \in Range(got'[t])
      BY DEF Given
    <3>2. x \in Given <=> \E t \in Stations : x \in Range(got[t])
      BY DEF Given
    <3> QED
      BY <2>1, <2>2, <3>1, <3>2
  <2> QED
    BY <2>3
<1>9. /\ Sheds(r, sess[s]) /\ Counted(r) /\ r.peer # "none"
  BY <1>1, <1>2, KeepsSheds DEF Sheds, SameCaller, Owing, Older
<1>10. InFlight(r) \subseteq InFlight(sess[s])
  <2>1. InFlight(r) \subseteq Stations
    BY DEF InFlight
  <2> QED
    BY <1>9, <2>1 DEF Sheds, ShedsOf
<1>11. \A t \in Stations : OneToken(r, t) /\ (t \in Given' => ~ HasToken(r, t))
  <2>1. \A t \in Stations : OneToken(r, t) /\ (t \in Given => ~ HasToken(r, t))
    BY <1>9 DEF Sheds, ShedsOf, Owing
  <2> QED
    BY <1>7, <1>8, <2>1
<1>12. InFlight(sess[s]) \subseteq asked /\ Given \subseteq asked
  BY DEF Owing
<1>13. \A i \in DOMAIN pool' : \E j \in DOMAIN pool : pool'[i] = pool[j]
  OBVIOUS
<1>14. Owing'
  <2>1. /\ asked \subseteq asked' /\ Given' \subseteq asked'
        /\ Given' \subseteq Given \cup InFlight(sess[s])
        /\ InFlight(r) \subseteq InFlight(sess[s]) \cup (asked' \ asked)
        /\ InFlight(r) \subseteq asked'
    BY <1>6, <1>8, <1>10, <1>12
  <2> QED
    BY <1>9, <1>11, <1>13, <2>1, OwingStep
<1>15. /\ s \in Made /\ Made' = Made
       /\ Lives' = [Lives EXCEPT ![s] = r.live]
       /\ Callbacks' = [Callbacks EXCEPT ![s] = r.cb]
       /\ Owed'[s] = InFlight(r) \ Given'
       /\ \A t \in Sess : t # s => Owed'[t] = InFlight(sess[t]) \ Given'
       /\ Owed' \in [Sess -> SUBSET Stations]
  BY <1>1, <1>9, MapStep
<1>16. Lives' = Lives /\ Callbacks' = Callbacks
  BY <1>2, <1>15 DEF Lives, Callbacks
<1>17. Owed'[s] \in SUBSET (Owed[s] \ {st})
  BY <1>8, <1>10, <1>15 DEF Owed
<1>18. Owed' = [Owed EXCEPT ![s] = Owed'[s]]
  <2>1. \A t \in Sess : t # s => st \notin InFlight(sess[t])
    BY <1>6 DEF Owing
  <2>2. \A t \in Sess : t # s => Owed'[t] = Owed[t]
    BY <1>8, <1>15, <2>1 DEF Owed
  <2>3. Owed = [t \in Sess |-> Owed[t]]
    BY DEF Owed
  <2> HIDE DEF Owed
  <2> QED
    BY <1>15, <2>2, <2>3
<1>19. Pool!OwesSome(s, Owed[s] \ {st})
  BY <1>17, <1>18 DEF Pool!OwesSome, Owed
<1>20. st \in Owed[s] /\ Callbacks[s] = sess[s].cb
  BY <1>6 DEF Owed, Callbacks
<1>21. Pool!Reply(s, st)
  BY <1>15, <1>16, <1>19, <1>20 DEF Pool!Reply, Made, Lives, Callbacks, Owed
<1>22. Aged
  BY <1>9, AgedStep DEF Sheds, SameCaller
<1> QED
  BY <1>14, <1>21, <1>22

LEMMA ReceivePool ==
    ASSUME Inv, Owing, NEW s \in Sess,
           OnReceiveFailed(s) \/ OnReceivePartial(s) \/ OnReceive(s)
    PROVE  Turned(s) \/ (Owing' /\ Aged /\ \E st \in Stations : Pool!Reply(s, st))
<1>1. CASE OnReceiveFailed(s)
  BY <1>1, StopTurned DEF OnReceiveFailed
<1>2. CASE OnReceivePartial(s)
  BY <1>2, PartialPool
<1>3. CASE OnReceive(s)
  <2> DEFINE m == Foremost(s)
             r == [Rest(s) EXCEPT !.front = M("none")]
  <2>1. Due(s, "recv") /\ UNCHANGED <<pool, asked>>
    BY <1>3 DEF OnReceive
  <2>2. /\ sess[s] \in Session /\ sess[s].peer # "none" /\ This(s) \in Handler
    BY <2>1, Busy
  <2>3. /\ r \in Session /\ Keeps(r, sess[s]) /\ r.cb = sess[s].cb
    BY <2>1, FrontTaken
  <2>4. m \in Msg
    BY <2>2 DEF Foremost, Session, Handler
  <2>5. \/ Update(s, AnalizePing(r, m)) /\ got' = got
        \/ /\ m.kind = "static" /\ Update(s, r)
           /\ got' = Called(r.cb, m)
        \/ /\ LET a == ArmPing([r EXCEPT !.live = TRUE, !.buf = M("connected")])
              IN  \E n \in Outcomes(a, 0) : Update(s, AsyncSend(a, 0, n))
           /\ got' = got
    BY <1>3 DEF OnReceive
  <2>6. CASE /\ m.kind = "static" /\ Update(s, r)
             /\ got' = Called(r.cb, m)
    <3>1. CASE r.cb = NoStation
      BY <2>1, <2>2, <2>3, <2>6, <3>1, KeepsTurned DEF Called
    <3>2. CASE r.cb # NoStation
      <4> DEFINE st == m.st
      <4>1. st \in Stations /\ m = Static(st)
        <5> HIDE DEF m
        <5> QED
          BY <2>4, <2>6 DEF Msg, Signals, Static
      <4>2. /\ Foremost(s) = Static(st) /\ Update(s, r) /\ sess[s].cb # NoStation
            /\ got' = [got EXCEPT ![sess[s].cb] = Append(@, st)]
        BY <2>3, <2>6, <3>2, <4>1 DEF Called
      <4> HIDE DEF st, m
      <4>3. Owing' /\ Aged /\ Pool!Reply(s, st)
        BY <2>1, <4>1, <4>2, ReplyPool
      <4> QED
        BY <4>1, <4>3
    <3> QED
      BY <3>1, <3>2
  <2> HIDE DEF m, r
  <2>7. CASE Update(s, AnalizePing(r, m)) /\ got' = got
    <3>1. CASE m.kind # "pong"
      <4> DEFINE q == Stop(r)
      <4>1. q \in Session /\ Keeps(q, r) /\ Update(s, q)
        BY <2>3, <2>7, <3>1, StopType, StopHolds DEF AnalizePing
      <4> HIDE DEF q
      <4>2. Keeps(q, sess[s])
        BY <2>3, <4>1, KeepsTransitive
      <4> QED
        BY <2>1, <2>2, <2>7, <4>1, <4>2, KeepsTurned
    <3>2. CASE m.kind = "pong"
      <4> DEFINE r1 == [r EXCEPT !.pong = TRUE]
                 r2 == CancelDead(r1)
                 q == ArmPing(r2)
      <4>1. Update(s, q)
        BY <2>7, <3>2 DEF AnalizePing
      <4>2. /\ r1 \in Session /\ r1.rough = r.rough /\ r1.mixed = r.mixed
            /\ r1.cb = r.cb /\ r1.peer = r.peer /\ r1.buf = r.buf
            /\ r1.front = r.front /\ r1.in = r.in /\ r1.out = r.out /\ r1.ready = r.ready
        BY <2>3 DEF Session
      <4> HIDE DEF r1
      <4>3. Keeps(r1, sess[s])
        BY <2>3, <4>2, SameKeeps, KeepsTransitive DEF Older
      <4>4. r2 \in Session /\ Keeps(r2, sess[s])
        BY <4>2, <4>3, CancelDeadType, CancelHolds, KeepsTransitive
      <4> HIDE DEF r2
      <4>5. q \in Session /\ Keeps(q, sess[s])
        BY <4>4, ArmHolds, KeepsTransitive
      <4> HIDE DEF q
      <4> QED
        BY <2>1, <2>2, <2>7, <4>1, <4>5, KeepsTurned
    <3> QED
      BY <3>1, <3>2
  <2>8. CASE /\ LET a == ArmPing([r EXCEPT !.live = TRUE, !.buf = M("connected")])
                IN  \E n \in Outcomes(a, 0) : Update(s, AsyncSend(a, 0, n))
             /\ got' = got
    <3> DEFINE b == [r EXCEPT !.live = TRUE, !.buf = M("connected")]
               a == ArmPing(b)
    <3>1. M("connected") \in Msg /\ \A st \in Stations : M("connected") # Request(st)
      BY MType, SignalIsNoTrace DEF Signals
    <3>2. PICK n \in Outcomes(a, 0) : Update(s, AsyncSend(a, 0, n))
      BY <2>8
    <3>3. /\ b \in Session /\ b.rough = r.rough /\ b.mixed = r.mixed
          /\ b.cb = r.cb /\ b.peer = r.peer /\ b.buf = M("connected")
          /\ b.front = r.front /\ b.in = r.in /\ b.out = r.out /\ b.ready = r.ready
      BY <2>3, <3>1 DEF Session
    <3>4. a.buf = b.buf
      BY <3>3 DEF ArmPing, CancelPing, Post, Session
    <3> HIDE DEF b
    <3>5. Keeps(b, r)
      BY <3>1, <3>3, SameFewer, FewerKeeps DEF Counted, Older
    <3>6. a \in Session /\ Keeps(a, b)
      BY <3>3, ArmHolds
    <3> HIDE DEF a
    <3>7. Keeps(a, sess[s])
      BY <2>3, <3>5, <3>6, KeepsTransitive
    <3> DEFINE q == AsyncSend(a, 0, n)
    <3>8. q \in Session /\ Keeps(q, a) /\ Update(s, q)
      BY <3>1, <3>2, <3>3, <3>4, <3>6, AsyncSendHolds
    <3> HIDE DEF q
    <3>9. Keeps(q, sess[s])
      BY <3>7, <3>8, KeepsTransitive
    <3> QED
      BY <2>1, <2>2, <2>8, <3>8, <3>9, KeepsTurned
  <2> QED
    BY <2>5, <2>6, <2>7, <2>8 DEF m, r
<1> QED
  BY <1>1, <1>2, <1>3

-----------------------------------------------------------------------------
(* The refinement. *)

LEMMA InitPool == Init => Owing /\ Pool!Init
<1> SUFFICES ASSUME Init PROVE Owing /\ Pool!Init
  OBVIOUS
<1>1. /\ pool = <<>> /\ asked = {} /\ got = [st \in Stations |-> <<>>]
      /\ \A s \in Sess : sess[s] = NewSession("none", FALSE)
  BY DEF Init
<1>2. \A s \in Sess : /\ sess[s].peer = "none" /\ ~ sess[s].live /\ sess[s].cb = NoStation
                      /\ sess[s].live \in BOOLEAN
                      /\ Counted(sess[s]) /\ InFlight(sess[s]) = {}
                      /\ \A st \in Stations : OneToken(sess[s], st) /\ ~ HasToken(sess[s], st)
  <2> DEFINE r == NewSession("none", FALSE)
  <2>1. /\ r \in Session /\ r.peer = "none" /\ ~ r.live /\ r.cb = NoStation
        /\ Counted(r) /\ InFlight(r) = {}
        /\ \A st \in Stations : OneToken(r, st) /\ ~ HasToken(r, st)
    BY NewIsEmpty
  <2>2. r.live \in BOOLEAN
    BY <2>1 DEF Session
  <2> HIDE DEF r
  <2> QED
    BY <1>1, <2>1, <2>2 DEF r
<1>3. Given = {}
  BY <1>1, RangeOf DEF Given
<1>4. Owing
  <2>1. \A i \in DOMAIN pool : sess[pool[i]].peer # "none"
    BY <1>1
  <2> QED
    BY <1>1, <1>2, <1>3, <2>1 DEF Owing
<1>5. /\ Made = {} /\ Lives = [s \in Sess |-> FALSE] /\ Callbacks = [s \in Sess |-> NoStation]
      /\ Owed = [s \in Sess |-> {}]
  BY <1>2, <1>3 DEF Made, Lives, Callbacks, Owed
<1>6. Pool!Init
  BY <1>1, <1>5 DEF Pool!Init, Made, Lives, Callbacks, Owed
<1> QED
  BY <1>4, <1>6

LEMMA NextPool == Inv /\ Owing /\ [Next]_vars => Owing' /\ Aged /\ [Pool!Next]_(Pool!vars)
<1> SUFFICES ASSUME Inv, Owing, [Next]_vars PROVE Owing' /\ Aged /\ [Pool!Next]_(Pool!vars)
  OBVIOUS
<1>1. CASE UNCHANGED vars
  <2>1. pool' = pool /\ sess' = sess /\ asked' = asked /\ got' = got
    BY <1>1 DEF vars
  <2>2. Given' = Given
    BY <2>1 DEF Given
  <2>3. Owing'
    BY <2>1, <2>2 DEF Owing
  <2>4. UNCHANGED Pool!vars
    BY <2>1, <2>2 DEF Pool!vars
  <2>5. Aged
    BY <2>1 DEF Aged, Older
  <2> QED
    BY <2>3, <2>4, <2>5
<1>2. CASE KillSession
  BY <1>2, KillSessionPool DEF Pool!Next
<1>3. ASSUME NEW s \in Sess, Accept(s)
      PROVE  Owing' /\ Aged /\ Pool!Next
  BY <1>3, AcceptPool DEF Pool!Next
<1>4. ASSUME NEW s \in Sess, NEW st \in Stations, StartCommand(s, st)
      PROVE  Owing' /\ Aged /\ Pool!Next
  BY <1>4, StartCommandPool DEF Pool!Next
<1>5. ASSUME NEW s \in Sess, Turned(s)
      PROVE  Owing' /\ Aged /\ Pool!Next
  BY <1>5 DEF Turned, Pool!Next
<1>6. ASSUME NEW s \in Sess, NEW st \in Stations, Owing', Aged, Pool!Reply(s, st)
      PROVE  Owing' /\ Aged /\ Pool!Next
  BY <1>6 DEF Pool!Next
<1>7. ASSUME NEW s \in Sess, RunHandler(s)
      PROVE  Owing' /\ Aged /\ Pool!Next
  BY <1>5, <1>6, <1>7, SendPool, ReceivePool, PingPool DEF RunHandler
<1>8. ASSUME NEW s \in Sess,
             \/ PingExpires(s) \/ DeadPingExpires(s) \/ Deliver(s) \/ DeliverEnd(s)
             \/ WorkerConnect(s) \/ WorkerAnswer(s) \/ WorkerFails(s)
      PROVE  Owing' /\ Aged /\ Pool!Next
  BY <1>5, <1>8, TimerPool, DeliverPool, WorkerTurns
<1> QED
  BY <1>1, <1>2, <1>3, <1>4, <1>7, <1>8 DEF Next

LEMMA AlwaysOwing == Spec => []Owing
BY InitPool, NextPool, Invariance, PTL DEF Spec

(* The worker server does what WorkerPool says and nothing else, for any   *)
(* number of sessions and callers, whatever writes are short and whatever  *)
(* the workers do: startCommand makes its caller the callback of a live     *)
(* session, __staticMessage gives an answer once and to the callback of the *)
(* moment, and __killSession sweeps only what is not live.                  *)
THEOREM PoolRefined == Spec => ImplementsPool
<1>1. Init => Pool!Init
  BY InitPool
<1>2. Inv /\ Owing /\ [Next]_vars => [Pool!Next]_(Pool!vars)
  BY NextPool
<1> QED
  BY <1>1, <1>2, Invariance, AlwaysOwing, PTL DEF Spec, ImplementsPool, Pool!Spec

-----------------------------------------------------------------------------
(* RightStation, from the steps of the abstract pool: as long as no session *)
(* is asked while it owes an answer, one owes an answer to its callback only *)
(* and to one that has been given none.                                     *)

Answered == \A st \in Stations : got[st] \in {<<>>, <<st>>}
Own == Answered /\ \A s \in Sess : Owed[s] \subseteq {Callbacks[s]}
Mixed == \E s \in Sess : sess[s].mixed

LEMMA OwnKept ==
    ASSUME Inv, Own, NEW s \in Sess, NEW some \in SUBSET Owed[s],
           Owed' = [Owed EXCEPT ![s] = some], Callbacks' = Callbacks, got' = got
    PROVE  Own'
<1>1. Answered'
  BY DEF Own, Answered
<1>2. Owed = [t \in Sess |-> Owed[t]]
  BY DEF Owed
<1> HIDE DEF Owed, Callbacks
<1>3. \A t \in Sess : Owed'[t] \subseteq Owed[t]
  BY <1>2
<1>4. \A t \in Sess : Owed[t] \subseteq {Callbacks[t]}
  BY DEF Own
<1>5. \A t \in Sess : Owed'[t] \subseteq {Callbacks'[t]}
  BY <1>3, <1>4
<1> QED
  BY <1>1, <1>5 DEF Own

(* A session that is asked and not mixed then owes nothing.                *)
LEMMA OwnCommand ==
    ASSUME Inv, Own, NEW s \in Sess, NEW st \in Stations,
           StartCommand(s, st), Pool!StartCommand(s, st),
           sess[s].live => InFlight(sess[s]) \subseteq Given
    PROVE  Own'
<1>1. got' = got
  BY DEF StartCommand
<1>2. Answered'
  BY <1>1 DEF Own, Answered
<1>3. CASE Lives[s]
  <2>1. /\ Callbacks' = [Callbacks EXCEPT ![s] = st]
        /\ \E some \in SUBSET (Owed[s] \cup {st}) : Owed' = [Owed EXCEPT ![s] = some]
    BY <1>3 DEF Pool!StartCommand, Pool!OwesSome, Lives, Callbacks, Owed
  <2>2. Owed[s] = {}
    BY <1>3 DEF Owed, Lives
  <2>3. Owed = [t \in Sess |-> Owed[t]] /\ Callbacks = [t \in Sess |-> Callbacks[t]]
    BY DEF Owed, Callbacks
  <2> HIDE DEF Owed, Callbacks
  <2>4. Owed'[s] \subseteq {st} /\ Callbacks'[s] = st
    BY <2>1, <2>2, <2>3
  <2>5. \A t \in Sess : t # s => Owed'[t] = Owed[t] /\ Callbacks'[t] = Callbacks[t]
    BY <2>1, <2>3
  <2>6. \A t \in Sess : Owed[t] \subseteq {Callbacks[t]}
    BY DEF Own
  <2>7. \A t \in Sess : Owed'[t] \subseteq {Callbacks'[t]}
    BY <2>4, <2>5, <2>6
  <2> QED
    BY <1>2, <2>7 DEF Own
<1>4. CASE ~ Lives[s]
  <2>1. Callbacks' = Callbacks /\ Owed' = Owed
    BY <1>4 DEF Pool!StartCommand, Lives, Callbacks, Owed
  <2> HIDE DEF Owed, Callbacks
  <2> QED
    BY <1>2, <2>1 DEF Own
<1> QED
  BY <1>3, <1>4

LEMMA OwnReply ==
    ASSUME Inv, Own, NEW s \in Sess, NEW st \in Stations, Pool!Reply(s, st)
    PROVE  Own'
<1>1. /\ st \in Owed[s] /\ Callbacks' = Callbacks
      /\ got' = [got EXCEPT ![Callbacks[s]] = Append(@, st)]
      /\ \E some \in SUBSET (Owed[s] \ {st}) : Owed' = [Owed EXCEPT ![s] = some]
  BY DEF Pool!Reply, Pool!OwesSome, Callbacks, Owed
<1>2. got \in [Stations -> Seq(Stations)] /\ (st \in Owed[s] => st \notin Range(got[st]))
  BY DEF Inv, Owed, Given
<1>3. Owed = [t \in Sess |-> Owed[t]]
  BY DEF Owed
<1> HIDE DEF Owed, Callbacks
<1>4. \A t \in Sess : Owed[t] \subseteq {Callbacks[t]}
  BY DEF Own
<1>5. Callbacks[s] = st
  BY <1>1, <1>4
<1>6. Answered'
  <2>1. got[st] = <<>>
    <3>1. got[st] \in {<<>>, <<st>>} /\ st \in Range(<<st>>)
      BY DEF Own, Answered, Range
    <3> QED
      BY <1>1, <1>2, <3>1
  <2>2. got' = [got EXCEPT ![st] = <<st>>]
    BY <1>1, <1>5, <2>1
  <2> QED
    BY <1>2, <2>2 DEF Own, Answered
<1>7. \A t \in Sess : Owed'[t] \subseteq Owed[t]
  BY <1>1, <1>3
<1>8. \A t \in Sess : Owed'[t] \subseteq {Callbacks'[t]}
  BY <1>1, <1>4, <1>7
<1> QED
  BY <1>6, <1>8 DEF Own

LEMMA InitOwn == Init => Own
<1> SUFFICES ASSUME Init PROVE Own
  OBVIOUS
<1>1. \A s \in Sess : Owed[s] = {}
  <2>1. \A s \in Sess : sess[s] = NewSession("none", FALSE)
    BY DEF Init
  <2>2. InFlight(NewSession("none", FALSE)) = {}
    BY NewIsEmpty
  <2> QED
    BY <2>1, <2>2 DEF Owed
<1>2. Answered
  BY DEF Init, Answered
<1> QED
  BY <1>1, <1>2 DEF Own

LEMMA NextOwn == Inv /\ Owing /\ (Mixed \/ Own) /\ [Next]_vars => (Mixed \/ Own)'
<1> SUFFICES ASSUME Inv, Owing, Own, [Next]_vars, ~ Mixed' PROVE Own'
  BY NextPool DEF Mixed, Aged, Older
<1>1. CASE UNCHANGED vars
  <2>1. Owed' = Owed /\ Callbacks' = Callbacks /\ got' = got
    BY <1>1 DEF vars, Owed, Callbacks, Given
  <2> HIDE DEF Owed, Callbacks
  <2> QED
    BY <2>1 DEF Own, Answered
<1>2. CASE KillSession
  <2>1. Pool!Sweep
    BY <1>2, KillSessionPool
  <2>2. PICK i \in DOMAIN pool :
           /\ \E some \in SUBSET Owed[pool[i]] : Owed' = [Owed EXCEPT ![pool[i]] = some]
           /\ Callbacks' = Callbacks /\ got' = got
    BY <2>1 DEF Pool!Sweep, Pool!OwesSome, Owed, Callbacks
  <2>3. pool[i] \in Sess
    BY DEF Inv
  <2> QED
    BY <2>2, <2>3, OwnKept
<1>3. ASSUME NEW s \in Sess, Accept(s) PROVE Own'
  <2>1. Owed' = Owed /\ Callbacks' = Callbacks /\ got' = got
    BY <1>3, AcceptPool DEF Pool!Accept, Owed, Callbacks
  <2> HIDE DEF Owed, Callbacks
  <2> QED
    BY <2>1 DEF Own, Answered
<1>4. ASSUME NEW s \in Sess, NEW st \in Stations, StartCommand(s, st) PROVE Own'
  BY <1>4, StartCommandPool, OwnCommand DEF Mixed
<1>5. ASSUME NEW s \in Sess, Turned(s) PROVE Own'
  <2>1. /\ \E some \in SUBSET Owed[s] : Owed' = [Owed EXCEPT ![s] = some]
        /\ Callbacks' = Callbacks /\ got' = got
    BY <1>5 DEF Turned, Pool!Turn, Pool!OwesSome, Owed, Callbacks
  <2> QED
    BY <2>1, OwnKept
<1>6. ASSUME NEW s \in Sess, RunHandler(s) PROVE Own'
  BY <1>5, <1>6, SendPool, ReceivePool, PingPool, OwnReply DEF RunHandler
<1>7. ASSUME NEW s \in Sess,
             \/ PingExpires(s) \/ DeadPingExpires(s) \/ Deliver(s) \/ DeliverEnd(s)
             \/ WorkerConnect(s) \/ WorkerAnswer(s) \/ WorkerFails(s)
      PROVE  Own'
  BY <1>5, <1>7, TimerPool, DeliverPool, WorkerTurns
<1> QED
  BY <1>1, <1>2, <1>3, <1>4, <1>6, <1>7 DEF Next

(* A callback is called once, with the answer to its own station's request, *)
(* as long as no session was asked while it owed an answer, however short    *)
(* the writes are and however many sessions there are.                       *)
THEOREM OwnAnswersOnly == Spec => []RightStation
<1>1. Init => Own
  BY InitOwn
<1>2. Inv /\ Owing /\ (Mixed \/ Own) /\ [Next]_vars => (Mixed \/ Own)'
  BY NextOwn
<1>3. Mixed \/ Own => RightStation
  BY DEF Own, Mixed, Answered, RightStation
<1> QED
  BY <1>1, <1>2, <1>3, Invariance, AlwaysOwing, PTL DEF Spec

-----------------------------------------------------------------------------
(* CounterAtRest: as long as no send was begun over another one or wrote    *)
(* only a part, a session has one send in its queue at most, and that one   *)
(* has written the whole buffer.                                            *)

Lone(r) ==
    \A i \in DOMAIN r.ready : r.ready[i].op = "send" =>
        /\ r.ready[i].ok => r.ready[i].n = Size(r.buf)
        /\ \A j \in DOMAIN r.ready : r.ready[j].op = "send" => i = j
Rough == \E s \in Sess : sess[s].rough
AtRest == temp = 0 /\ \A s \in Sess : Lone(sess[s])

LEMMA PostLone ==
    ASSUME NEW r \in Session, NEW h \in Handler, Lone(r),
           h.op # "send" \/ (~ Queued(r, "send") /\ (h.ok => h.n = Size(r.buf)))
    PROVE  Lone(Post(r, h))
<1> DEFINE before == r.ready
           after == Post(r, h).ready
           n == Len(before) + 1
<1>1. before \in Seq(Handler) /\ after = Append(before, h) /\ Post(r, h).buf = r.buf
  BY DEF Post, Session
<1>2. /\ \A i \in DOMAIN after : (i = n /\ after[i] = h) \/ (i \in DOMAIN before /\ after[i] = before[i])
      /\ n \notin DOMAIN before
  BY <1>1
<1>3. \A i \in DOMAIN before : before[i].op = "send" =>
          /\ before[i].ok => before[i].n = Size(r.buf)
          /\ \A j \in DOMAIN before : before[j].op = "send" => i = j
  BY DEF Lone
<1>4. h.op = "send" => \A i \in DOMAIN before : before[i].op # "send"
  BY DEF Queued
<1> HIDE DEF before, after, n
<1>5. \A i \in DOMAIN after : after[i].op = "send" =>
          /\ after[i].ok => after[i].n = Size(r.buf)
          /\ \A j \in DOMAIN after : after[j].op = "send" => i = j
  BY <1>2, <1>3, <1>4
<1> QED
  BY <1>1, <1>5 DEF Lone, after

LEMMA SameLone ==
    ASSUME NEW q, NEW r, q.ready = r.ready, Lone(r), q.buf = r.buf \/ ~ Queued(r, "send")
    PROVE  Lone(q)
BY DEF Lone, Queued

(* A send begun with none queued that writes the whole buffer, or fails.    *)
LEMMA AsyncSendLone ==
    ASSUME NEW r \in Session, NEW from \in Nat, NEW n \in Outcomes(r, from),
           NEW q, q = AsyncSend(r, from, n), ~ q.rough
    PROVE  Lone(q)
<1> DEFINE p == Post(r, Sent(n))
           w == Written(r, from, n)
           b == r.rough \/ Queued(r, "send") \/ n \notin {0, Size(r.buf)}
<1>1. n \in Nat /\ Sent(n) \in Handler /\ p \in Session /\ p.buf = r.buf
  BY OutcomesBound, SentType, PostType DEF Post, Session
<1>2. p.rough = r.rough
  BY DEF Post, Session
<1>3. q = [p EXCEPT !.out = @ \o w, !.rough = b]
  BY <1>2 DEF AsyncSend, Post
<1>4. Sent(n).n = n /\ Sent(n).op = "send" /\ Sent(n).ok = (n # 0)
  BY Zenon DEF Sent
<1> HIDE DEF p, w, b
<1>5. q.ready = p.ready /\ q.buf = p.buf /\ q.rough = b
  BY <1>1, <1>3 DEF Session
<1>6. ~ Queued(r, "send") /\ n \in {0, Size(r.buf)}
  BY <1>5 DEF b
<1>7. Lone(r)
  BY <1>6 DEF Lone, Queued
<1>8. Lone(p)
  BY <1>1, <1>4, <1>6, <1>7, PostLone DEF p
<1> QED
  BY <1>5, <1>8, SameLone

LEMMA DoneLone ==
    ASSUME NEW op \in {"recv", "part", "ping", "dead"}, NEW ok \in BOOLEAN
    PROVE  Done(op, ok) \in Handler /\ Done(op, ok).op # "send"
BY DoneType DEF Done

LEMMA CancelLone ==
    ASSUME NEW r \in Session, Lone(r)
    PROVE  Lone(CancelPing(r)) /\ Lone(CancelDead(r))
<1> DEFINE p == [r EXCEPT !.pingT = FALSE]
           d == [r EXCEPT !.deadT = FALSE]
<1>1. CancelPing(r) \in {r, Post(p, Done("ping", FALSE))}
      /\ CancelDead(r) \in {r, Post(d, Done("dead", FALSE))}
  BY DEF CancelPing, CancelDead
<1>2. /\ p \in Session /\ p.ready = r.ready /\ p.buf = r.buf
      /\ d \in Session /\ d.ready = r.ready /\ d.buf = r.buf
  BY DEF Session
<1> HIDE DEF p, d
<1>3. Lone(p) /\ Lone(d)
  BY <1>2, SameLone
<1> QED
  BY <1>1, <1>2, <1>3, DoneLone, PostLone

LEMMA ArmLone ==
    ASSUME NEW r \in Session, Lone(r)
    PROVE  Lone(ArmPing(r))
<1> DEFINE p == CancelPing(r)
           q == [p EXCEPT !.pingT = TRUE]
<1>1. p \in Session /\ Lone(p) /\ ArmPing(r) = q
  BY CancelPingType, CancelLone DEF ArmPing
<1> HIDE DEF p
<1>2. q.ready = p.ready /\ q.buf = p.buf
  BY <1>1 DEF Session
<1> HIDE DEF q
<1> QED
  BY <1>1, <1>2, SameLone

LEMMA CloseLone ==
    ASSUME NEW r \in Session, Lone(r)
    PROVE  Lone(Close(r))
<1> DEFINE aborted == [i \in 1..r.reads |-> Done("recv", FALSE)]
           before == r.ready
           after == Close(r).ready
           n == Len(before)
<1>1. aborted \in Seq(Handler) /\ \A i \in DOMAIN aborted : aborted[i].op = "recv"
  <2>1. r.reads \in Nat /\ aborted \in [1..r.reads -> Handler]
    BY DoneLone DEF Session
  <2>2. \A i \in DOMAIN aborted : aborted[i] = Done("recv", FALSE)
    OBVIOUS
  <2>3. Done("recv", FALSE).op = "recv"
    BY DEF Done
  <2> HIDE DEF aborted
  <2> QED
    BY <2>1, <2>2, <2>3, FunctionIsSeq
<1>2. after = before \o aborted /\ Close(r).buf = r.buf /\ before \in Seq(Handler)
  BY DEF Close, Session
<1> HIDE DEF aborted, before, after
<1>3. \A i \in DOMAIN after : \/ i \in DOMAIN before /\ after[i] = before[i]
                              \/ i - n \in DOMAIN aborted /\ after[i] = aborted[i - n]
  BY <1>1, <1>2
<1> HIDE DEF n
<1>4. \A i \in DOMAIN after : after[i].op = "send" => i \in DOMAIN before /\ after[i] = before[i]
  BY <1>1, <1>3
<1>5. \A i \in DOMAIN before : before[i].op = "send" =>
          /\ before[i].ok => before[i].n = Size(r.buf)
          /\ \A j \in DOMAIN before : before[j].op = "send" => i = j
  BY DEF Lone, before
<1>6. \A i \in DOMAIN after : after[i].op = "send" =>
          /\ after[i].ok => after[i].n = Size(r.buf)
          /\ \A j \in DOMAIN after : after[j].op = "send" => i = j
  BY <1>4, <1>5
<1> QED
  BY <1>2, <1>6 DEF Lone, after

LEMMA StopLone ==
    ASSUME NEW r \in Session, Lone(r)
    PROVE  Lone(Stop(r))
<1> DEFINE a == [r EXCEPT !.live = FALSE]
<1>1. a \in Session /\ a.ready = r.ready /\ a.buf = r.buf
  BY DEF Session
<1>2. Stop(r) = Close(CancelDead(CancelPing(a)))
  BY DEF Stop
<1> HIDE DEF a
<1>3. Lone(a)
  BY <1>1, SameLone
<1> QED
  BY <1>1, <1>2, <1>3, CancelLone, CancelPingType, CancelDeadType, CloseLone

LEMMA AsyncReceiveLone ==
    ASSUME NEW r \in Session, Lone(r)
    PROVE  Lone(AsyncReceive(r))
<1>1. AsyncReceive(r) \in {[r EXCEPT !.reads = @ + 1], Post(r, Done("recv", FALSE))}
  BY DEF AsyncReceive
<1>2. [r EXCEPT !.reads = @ + 1].ready = r.ready /\ [r EXCEPT !.reads = @ + 1].buf = r.buf
  BY DEF Session
<1> QED
  BY <1>1, <1>2, SameLone, DoneLone, PostLone

LEMMA RestLone ==
    ASSUME NEW s \in Sess, sess[s] \in Session, sess[s].ready # <<>>, Lone(sess[s])
    PROVE  /\ Lone(Rest(s)) /\ Rest(s) \in Session
           /\ This(s).op = "send" => /\ ~ Queued(Rest(s), "send")
                                     /\ This(s).ok => This(s).n = Size(sess[s].buf)
<1> DEFINE before == sess[s].ready
           after == Rest(s).ready
<1>1. /\ before \in Seq(Handler) /\ before # <<>> /\ after = Tail(before)
      /\ This(s) = Head(before) /\ Rest(s).buf = sess[s].buf /\ Rest(s) \in Session
  BY RestHolds DEF Rest, Session, This
<1>2. /\ Head(before) = before[1] /\ 1 \in DOMAIN before
      /\ \A i \in DOMAIN after : i + 1 \in DOMAIN before /\ after[i] = before[i + 1]
                                 /\ i + 1 # 1 /\ i \in Nat
  BY <1>1
<1>3. \A i \in DOMAIN before : before[i].op = "send" =>
          /\ before[i].ok => before[i].n = Size(sess[s].buf)
          /\ \A j \in DOMAIN before : before[j].op = "send" => i = j
  BY DEF Lone
<1> HIDE DEF before, after
<1>4. \A i, j \in DOMAIN after : i + 1 = j + 1 => i = j
  BY <1>2
<1>5. \A i \in DOMAIN after : after[i].op = "send" =>
          /\ after[i].ok => after[i].n = Size(sess[s].buf)
          /\ \A j \in DOMAIN after : after[j].op = "send" => i = j
  BY <1>2, <1>3, <1>4
<1>6. This(s).op = "send" => \A i \in DOMAIN after : after[i].op # "send"
  BY <1>1, <1>2, <1>3
<1> QED
  BY <1>1, <1>2, <1>3, <1>5, <1>6 DEF Lone, Queued, after

-----------------------------------------------------------------------------
(* Every step, as long as it leaves no session rough. *)

LEMMA RestStep ==
    ASSUME Inv, AtRest, NEW s \in Sess, NEW q, Update(s, q), Lone(q), temp' = 0
    PROVE  AtRest'
BY UpdateGives DEF AtRest

LEMMA SendRest ==
    ASSUME Inv, AtRest, NEW s \in Sess, ~ Rough',
           OnSendFailed(s) \/ OnSendMismatch(s) \/ OnSendComplete(s)
    PROVE  AtRest'
<1>1. /\ sess[s] \in Session /\ sess[s].ready # <<>> /\ This(s).op = "send"
      /\ Lone(sess[s]) /\ temp = 0
  BY DEF Inv, SessInv, AtRest, OnSendFailed, OnSendMismatch, OnSendComplete, Due, This
<1>2. /\ Lone(Rest(s)) /\ Rest(s) \in Session /\ ~ Queued(Rest(s), "send")
      /\ This(s).ok => This(s).n = Size(sess[s].buf)
  BY <1>1, RestLone
<1>3. CASE OnSendFailed(s)
  BY <1>1, <1>2, <1>3, StopLone, RestStep DEF OnSendFailed
<1>4. CASE OnSendMismatch(s)
  <2>1. This(s).n \in Nat /\ This(s).n = Size(sess[s].buf)
    BY <1>1, <1>2, <1>4, RestHolds DEF OnSendMismatch, Handler
  <2> QED
    BY <1>1, <1>4, <2>1 DEF OnSendMismatch
<1>5. CASE OnSendComplete(s)
  <2> DEFINE r == [Rest(s) EXCEPT !.buf = M("none"), !.next = FALSE]
  <2>1. Update(s, r) \/ Update(s, AsyncReceive(r))
    BY <1>5 DEF OnSendComplete
  <2>2. r \in Session /\ r.ready = Rest(s).ready
    BY <1>2, MType DEF Session, Signals
  <2>3. temp' = 0
    BY <1>5 DEF OnSendComplete
  <2> HIDE DEF r
  <2>4. Lone(r)
    BY <1>2, <2>2, SameLone
  <2> QED
    BY <2>1, <2>2, <2>3, <2>4, AsyncReceiveLone, RestStep
<1> QED
  BY <1>3, <1>4, <1>5

(* A handler that sends leaves its session not rough, so with one send.     *)
LEMMA SendingRest ==
    ASSUME Inv, AtRest, NEW s \in Sess, ~ Rough', temp' = temp, NEW r \in Session,
           NEW n \in Outcomes(r, 0), Update(s, AsyncSend(r, 0, n))
    PROVE  AtRest'
<1> DEFINE q == AsyncSend(r, 0, n)
<1>1. sess'[s] = q
  BY UpdateGives
<1>2. ~ q.rough
  BY <1>1 DEF Rough
<1>3. Lone(q)
  BY <1>2, AsyncSendLone
<1> HIDE DEF q
<1> QED
  BY <1>3, RestStep DEF AtRest, q

LEMMA ReceiveRest ==
    ASSUME Inv, AtRest, NEW s \in Sess, ~ Rough',
           OnReceiveFailed(s) \/ OnReceivePartial(s) \/ OnReceive(s)
    PROVE  AtRest'
<1>1. sess[s] \in Session /\ sess[s].ready # <<>> /\ Lone(sess[s]) /\ temp = 0 /\ temp' = 0
  BY DEF Inv, SessInv, AtRest, OnReceiveFailed, OnReceivePartial, OnReceive, Due
<1>2. /\ Lone(Rest(s)) /\ Rest(s) \in Session /\ Foremost(s) \in Msg /\ M("none") \in Msg
  <2>1. This(s) \in Handler
    BY <1>1, RestHolds
  <2> QED
    BY <1>1, <2>1, RestLone, MType DEF Foremost, Session, Handler, Signals
<1>3. ASSUME NEW m \in Msg
      PROVE  Lone([Rest(s) EXCEPT !.front = m]) /\ [Rest(s) EXCEPT !.front = m] \in Session
  <2> DEFINE r == [Rest(s) EXCEPT !.front = m]
  <2>1. r \in Session /\ r.ready = Rest(s).ready /\ r.buf = Rest(s).buf
    BY <1>2, <1>3 DEF Session
  <2> HIDE DEF r
  <2>2. Lone(r) /\ r \in Session
    BY <1>2, <2>1, SameLone
  <2> QED
    BY <2>2 DEF r
<1>4. CASE OnReceiveFailed(s)
  BY <1>1, <1>2, <1>4, StopLone, RestStep DEF OnReceiveFailed
<1>5. CASE OnReceivePartial(s)
  BY <1>1, <1>2, <1>3, <1>5, AsyncReceiveLone, RestStep DEF OnReceivePartial
<1>6. CASE OnReceive(s)
  <2> DEFINE r == [Rest(s) EXCEPT !.front = M("none")]
             b == [r EXCEPT !.live = TRUE, !.buf = M("connected")]
             a == ArmPing(b)
             m == Foremost(s)
  <2>1. Lone(r) /\ r \in Session
    BY <1>2, <1>3
  <2>2. b \in Session
    <3> HIDE DEF r
    <3> QED
      BY <2>1, MType DEF Session, Signals
  <2>3. \/ Update(s, AnalizePing(r, m))
        \/ Update(s, r)
        \/ \E n \in Outcomes(a, 0) : Update(s, AsyncSend(a, 0, n))
    BY <1>6 DEF OnReceive
  <2> HIDE DEF r, m
  <2>4. CASE Update(s, AnalizePing(r, m))
    <3>1. CASE m.kind = "pong"
      <4> DEFINE p == [r EXCEPT !.pong = TRUE]
      <4>1. p \in Session /\ p.ready = r.ready /\ p.buf = r.buf
        BY <2>1 DEF Session
      <4>2. Lone(p)
        BY <2>1, <4>1, SameLone
      <4>3. Update(s, ArmPing(CancelDead(p)))
        BY <2>4, <3>1 DEF AnalizePing
      <4> HIDE DEF p
      <4>4. Lone(CancelDead(p)) /\ CancelDead(p) \in Session
        BY <4>1, <4>2, CancelLone, CancelDeadType
      <4>5. Lone(ArmPing(CancelDead(p)))
        BY <4>4, ArmLone
      <4> QED
        BY <1>1, <4>3, <4>5, RestStep
    <3>2. CASE m.kind # "pong"
      BY <1>1, <2>1, <2>4, <3>2, StopLone, RestStep DEF AnalizePing
    <3> QED
      BY <3>1, <3>2
  <2>5. CASE Update(s, r)
    BY <1>1, <2>1, <2>5, RestStep
  <2>6. CASE \E n \in Outcomes(a, 0) : Update(s, AsyncSend(a, 0, n))
    <3> HIDE DEF b
    <3>1. a \in Session
      BY <2>2, ArmHolds
    <3> HIDE DEF a
    <3> QED
      BY <1>1, <2>6, <3>1, SendingRest
  <2> QED
    BY <2>3, <2>4, <2>5, <2>6
<1> QED
  BY <1>4, <1>5, <1>6

LEMMA PingRest ==
    ASSUME Inv, AtRest, NEW s \in Sess, ~ Rough', OnPing(s) \/ OnDeadPing(s)
    PROVE  AtRest'
<1>1. sess[s] \in Session /\ sess[s].ready # <<>> /\ Lone(sess[s]) /\ temp = 0 /\ temp' = 0
  BY DEF Inv, SessInv, AtRest, OnPing, OnDeadPing, Due
<1>2. Lone(Rest(s)) /\ Rest(s) \in Session /\ M("ping") \in Msg
  BY <1>1, RestLone, MType DEF Signals
<1> DEFINE b == [Rest(s) EXCEPT !.buf = M("ping"), !.next = TRUE, !.pong = FALSE]
           r == ArmDead(b)
<1>3. \/ Update(s, Rest(s)) \/ Update(s, Stop(Rest(s)))
      \/ \E n \in Outcomes(r, 0) : Update(s, AsyncSend(r, 0, n))
  BY DEF OnPing, OnDeadPing
<1>4. b \in Session
  BY <1>2 DEF Session
<1> HIDE DEF b
<1>5. r \in Session
  BY <1>4, ArmHolds
<1> HIDE DEF r
<1>6. CASE \E n \in Outcomes(r, 0) : Update(s, AsyncSend(r, 0, n))
  BY <1>1, <1>5, <1>6, SendingRest
<1>7. CASE Update(s, Rest(s)) \/ Update(s, Stop(Rest(s)))
  BY <1>1, <1>2, <1>7, StopLone, RestStep
<1> QED
  BY <1>3, <1>6, <1>7

LEMMA StartCommandRest ==
    ASSUME Inv, AtRest, NEW s \in Sess, NEW st \in Stations, ~ Rough', StartCommand(s, st)
    PROVE  AtRest'
<1>1. sess[s] \in Session /\ Lone(sess[s]) /\ temp = 0 /\ temp' = 0
  BY DEF Inv, SessInv, AtRest, StartCommand
<1> DEFINE b == sess[s].mixed \/ ~ InFlight(sess[s]) \subseteq Given
           r == [sess[s] EXCEPT !.cb = st, !.buf = Request(st), !.next = TRUE, !.mixed = b]
<1>2. sess' = sess \/ \E n \in Outcomes(r, 0) : Update(s, AsyncSend(r, 0, n))
  BY DEF StartCommand
<1>3. r \in Session
  <2>1. Request(st) \in Msg /\ b \in BOOLEAN
    BY DEF Request, Msg
  <2> HIDE DEF b
  <2> QED
    BY <1>1, <2>1 DEF Session
<1> HIDE DEF r
<1>4. CASE sess' = sess
  BY <1>1, <1>4 DEF AtRest
<1> QED
  BY <1>1, <1>2, <1>3, <1>4, SendingRest

(* The io_context and the worker add no send.                               *)
LEMMA QuietRest ==
    ASSUME Inv, AtRest, NEW s \in Sess,
           \/ PingExpires(s) \/ DeadPingExpires(s) \/ Deliver(s) \/ DeliverEnd(s)
           \/ WorkerConnect(s) \/ WorkerAnswer(s) \/ WorkerFails(s)
    PROVE  AtRest'
<1>1. sess[s] \in Session /\ Lone(sess[s]) /\ temp' = 0
  BY DEF Inv, SessInv, AtRest, PingExpires, DeadPingExpires, Deliver, DeliverEnd,
         WorkerConnect, WorkerAnswer, WorkerFails
<1>2. ASSUME NEW r \in Session, r.ready = sess[s].ready, r.buf = sess[s].buf,
             NEW h \in Handler, h.op # "send", Update(s, Post(r, h))
      PROVE  AtRest'
  <2>1. Lone(Post(r, h))
    BY <1>1, <1>2, SameLone, PostLone
  <2> QED
    BY <1>1, <1>2, <2>1, RestStep
<1>3. ASSUME NEW r, r.ready = sess[s].ready, r.buf = sess[s].buf, Update(s, r)
      PROVE  AtRest'
  BY <1>1, <1>3, SameLone, RestStep
<1>4. CASE PingExpires(s) \/ DeadPingExpires(s)
  <2> DEFINE p == [sess[s] EXCEPT !.pingT = FALSE]
             d == [sess[s] EXCEPT !.deadT = FALSE]
  <2>1. /\ p \in Session /\ p.ready = sess[s].ready /\ p.buf = sess[s].buf
        /\ d \in Session /\ d.ready = sess[s].ready /\ d.buf = sess[s].buf
    BY <1>1 DEF Session
  <2>2. Update(s, Post(p, Done("ping", TRUE))) \/ Update(s, Post(d, Done("dead", TRUE)))
    BY <1>4 DEF PingExpires, DeadPingExpires
  <2> HIDE DEF p, d
  <2> QED
    BY <1>2, <2>1, <2>2, DoneLone
<1>5. CASE Deliver(s)
  <2>1. sess[s].reads \in Nat /\ sess[s].reads > 0 /\ sess[s].in \in Seq(Msg)
    BY <1>1, <1>5 DEF Deliver, Session
  <2>2. PICK k \in 0..Len(sess[s].in), half \in BOOLEAN, op \in {"recv", "part"} :
          Update(s, Post([sess[s] EXCEPT !.reads = @ - 1, !.half = half,
                                         !.in = SubSeq(@, k + 1, Len(@))],
                         Received(op, IF k = 0 THEN M("none") ELSE sess[s].in[1])))
    BY <1>5 DEF Deliver
  <2> DEFINE less == sess[s].reads - 1
             left == SubSeq(sess[s].in, k + 1, Len(sess[s].in))
             m == IF k = 0 THEN M("none") ELSE sess[s].in[1]
             r == [sess[s] EXCEPT !.reads = less, !.half = half, !.in = left]
  <2>3. less \in Nat /\ left \in Seq(Msg) /\ m \in Msg
    BY <2>1, <2>2, SubSeqType, MType DEF Signals
  <2>4. Update(s, Post(r, Received(op, m)))
    BY <2>2
  <2> HIDE DEF less, left, m
  <2>5. r \in Session /\ r.ready = sess[s].ready /\ r.buf = sess[s].buf
    BY <1>1, <2>3 DEF Session
  <2>6. Received(op, m) \in Handler /\ Received(op, m).op # "send"
    BY <2>3, ReceivedType DEF Received
  <2> HIDE DEF r
  <2> QED
    BY <1>2, <2>4, <2>5, <2>6
<1>6. CASE DeliverEnd(s)
  <2> DEFINE less == sess[s].reads - 1
             r == [sess[s] EXCEPT !.reads = less]
  <2>a. Update(s, Post(r, Done("recv", FALSE))) /\ sess[s].reads > 0
    BY <1>6 DEF DeliverEnd
  <2>b. sess[s].reads \in Nat
    BY <1>1 DEF Session
  <2>1. less \in Nat
    BY <2>a, <2>b
  <2>c. Update(s, Post(r, Done("recv", FALSE)))
    BY <2>a
  <2> HIDE DEF less
  <2>2. r \in Session /\ r.ready = sess[s].ready /\ r.buf = sess[s].buf
    BY <1>1, <2>1 DEF Session
  <2> HIDE DEF r
  <2> QED
    BY <1>2, <2>c, <2>2, DoneLone
<1>7. CASE WorkerConnect(s) \/ WorkerAnswer(s) \/ WorkerFails(s)
  <2>1. ASSUME NEW out, NEW in, Update(s, [[sess[s] EXCEPT !.out = out] EXCEPT !.in = in])
        PROVE  AtRest'
    <3> DEFINE a == [sess[s] EXCEPT !.out = out]
               r == [a EXCEPT !.in = in]
    <3>1. a.ready = sess[s].ready /\ a.buf = sess[s].buf
      BY <1>1 DEF Session
    <3>2. r.ready = a.ready /\ r.buf = a.buf
      BY <1>1 DEF Session
    <3>3. Update(s, r)
      BY <2>1
    <3> HIDE DEF r, a
    <3> QED
      BY <1>3, <3>1, <3>2, <3>3
  <2>2. CASE WorkerFails(s)
    <3>1. PICK p \in {"silent", "closed"} : Update(s, [sess[s] EXCEPT !.peer = p, !.out = <<>>])
      BY <2>2 DEF WorkerFails
    <3> DEFINE r == [sess[s] EXCEPT !.peer = p, !.out = <<>>]
    <3>2. r.ready = sess[s].ready /\ r.buf = sess[s].buf
      BY <1>1 DEF Session
    <3> HIDE DEF r
    <3> QED
      BY <1>3, <3>1, <3>2 DEF r
  <2>3. CASE WorkerConnect(s)
    <3> DEFINE in == Append(sess[s].in, M("connect"))
               r == [sess[s] EXCEPT !.in = in]
    <3>1. Update(s, r)
      BY <2>3 DEF WorkerConnect, Say
    <3> HIDE DEF in
    <3>2. r.ready = sess[s].ready /\ r.buf = sess[s].buf
      BY <1>1 DEF Session
    <3> HIDE DEF r
    <3> QED
      BY <1>3, <3>1, <3>2
  <2>4. CASE WorkerAnswer(s)
    <3> DEFINE left == SubSeq(sess[s].out, Size(Head(sess[s].out).msg) + 1, Len(sess[s].out))
               r == [sess[s] EXCEPT !.out = left]
    <3>1. Update(s, r) \/ \E m : Update(s, Say(r, m))
      BY <2>4 DEF WorkerAnswer
    <3> HIDE DEF left
    <3>2. CASE Update(s, r)
      <4>1. r.ready = sess[s].ready /\ r.buf = sess[s].buf
        BY <1>1 DEF Session
      <4> HIDE DEF r
      <4> QED
        BY <1>3, <3>2, <4>1
    <3>3. ASSUME NEW m, Update(s, Say(r, m)) PROVE AtRest'
      <4> DEFINE in == Append(r.in, m)
      <4>1. Update(s, [[sess[s] EXCEPT !.out = left] EXCEPT !.in = in])
        BY <3>3 DEF Say
      <4> HIDE DEF in
      <4> QED
        BY <2>1, <4>1
    <3> QED
      BY <3>1, <3>2, <3>3
  <2> QED
    BY <1>7, <2>2, <2>3, <2>4
<1> QED
  BY <1>4, <1>5, <1>6, <1>7

LEMMA NextRest == Inv /\ Owing /\ (Rough \/ AtRest) /\ [Next]_vars => (Rough \/ AtRest)'
<1> SUFFICES ASSUME Inv, Owing, AtRest, [Next]_vars, ~ Rough' PROVE AtRest'
  BY NextPool DEF Rough, Aged, Older
<1>1. CASE UNCHANGED vars
  BY <1>1 DEF vars, AtRest
<1>2. CASE KillSession
  <2>1. PICK i \in DOMAIN pool : Update(pool[i], Stop(sess[pool[i]])) /\ temp' = temp
    BY <1>2 DEF KillSession
  <2>2. pool[i] \in Sess
    BY DEF Inv
  <2>3. sess[pool[i]] \in Session /\ Lone(sess[pool[i]]) /\ temp = 0
    BY <2>2 DEF Inv, SessInv, AtRest
  <2> QED
    BY <2>1, <2>2, <2>3, StopLone, RestStep
<1>3. ASSUME NEW s \in Sess, Accept(s) PROVE AtRest'
  <2>1. PICK p \in {"up", "closed"}, o \in BOOLEAN : Update(s, AsyncReceive(NewSession(p, o)))
    BY <1>3 DEF Accept
  <2>2. NewSession(p, o) \in Session
    BY NewIsEmpty
  <2>3. Lone(NewSession(p, o))
    BY DEF NewSession, Lone
  <2>4. temp' = 0
    BY <1>3 DEF Accept, AtRest
  <2> QED
    BY <2>1, <2>2, <2>3, <2>4, AsyncReceiveLone, RestStep
<1>4. ASSUME NEW s \in Sess, RunHandler(s) PROVE AtRest'
  BY <1>4, SendRest, ReceiveRest, PingRest DEF RunHandler
<1> QED
  BY <1>1, <1>2, <1>3, <1>4, StartCommandRest, QuietRest DEF Next

(* Only a send begun over another one, or one that writes a part, leaves    *)
(* temp_send_byte counted, for any number of sessions: a send that fails, a *)
(* session that is stopped or swept in the middle of one and a completion   *)
(* that comes after the session has failed leave nothing in it.             *)
THEOREM CounterRests == Spec => []CounterAtRest
<1>1. Init => AtRest
  BY DEF Init, AtRest, Lone, NewSession
<1>2. Inv /\ Owing /\ (Rough \/ AtRest) /\ [Next]_vars => (Rough \/ AtRest)'
  BY NextRest
<1>3. Rough \/ AtRest => CounterAtRest
  BY DEF Rough, AtRest, CounterAtRest
<1> QED
  BY <1>1, <1>2, <1>3, Invariance, AlwaysOwing, PTL DEF Spec
=============================================================================
