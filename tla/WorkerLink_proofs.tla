-------------------------- MODULE WorkerLink_proofs --------------------------
(***************************************************************************)
(* TypeOK, OneChain, CounterAtRest and AnsweredOnceWhereAsked of WorkerLink *)
(* for any requests, short writes and faults.  As long as no messages were  *)
(* answered on top of each other and none of several threw, the link does   *)
(* one thing at a time, and then a ledger can be kept of what it has read   *)
(* and not answered yet.  Of what it does afterwards only the types are     *)
(* proved.                                                                  *)
(***************************************************************************)
EXTENDS WorkerLink, Induction, SequenceTheorems

Orderly(r) == ~ r.batched /\ ~ r.forked

(* What the next receive to complete will be parsed behind: nothing of it  *)
(* is ever read when the parser is stuck.                                   *)
Jsons(r) == IF r.parser = "stuck" THEN <<>> ELSE r.json
Held(r) == IF r.ready = <<>> THEN <<>> ELSE Head(r.ready).msgs

(* Sent by the main server and not answered yet.                            *)
Unanswered(r) == (Jsons(r) \o Held(r)) \o r.in

-----------------------------------------------------------------------------
(* One thing at a time. *)

(* Nothing parsed waits while the parser is clean.                          *)
Clean(r) == r.parser = "clean" => r.json = <<>>
Resting(r) == r.tempC = 0 /\ r.tempA = 0 /\ r.buf = M("none")
Bare(r) == r.open /\ ~ r.connecting /\ r.reads = <<>> /\ r.ready = <<>>

Connecting(r) ==
    /\ r.connecting /\ r.reads = <<>> /\ r.ready = <<>>
    /\ r.peer = "none" /\ r.in = <<>> /\ Jsons(r) = <<>> /\ Resting(r)

Receiving(r) ==
    /\ ~ r.connecting /\ r.ready = <<>> /\ Resting(r)
    /\ \E op \in Receives : r.reads = <<op>>

Written(temp, h, r) == IF h.ok THEN temp + h.n <= Size(r.buf) ELSE r.peer \in {"none", "reset"}
Completed(r, h) ==
    /\ h.op \in Receives => /\ Resting(r)
                            /\ h.ok /\ ~ h.cut => h.msgs # <<>>
                            /\ ~ h.ok => h.msgs = <<>>
    /\ h.op \notin Receives => h.msgs = <<>> /\ Jsons(r) = <<>>
    /\ h.op = "sendConnect" => Resting(r)
    /\ h.op = "reciveConnect" => r.buf = M("connect") /\ r.tempA = 0 /\ Written(r.tempC, h, r)
    /\ h.op = "reciveAnswer" => r.endSend /\ r.tempC = 0 /\ Written(r.tempA, h, r)

Handling(r) ==
    /\ ~ r.connecting /\ r.reads = <<>>
    /\ Len(r.ready) = 1 /\ Completed(r, Head(r.ready))

Sequential(r) ==
    /\ Clean(r)
    /\ Connecting(r) \/ Receiving(r) \/ Handling(r)

-----------------------------------------------------------------------------
(* The ledger: u is what is to be answered, f the connection a request came *)
(* over.                                                                    *)

Has(q, x) == \E i \in DOMAIN q : q[i] = x
Once(q, x) == \A i, j \in DOMAIN q : q[i] = x /\ q[j] = x => i = j

(* A request that may still be answered: asked on this connection.          *)
Open(r, f, id) == f[id] = r.no /\ r.no # 0 /\ ~ Answered(r, id)

Owed(r, f, u) ==
    \A id \in Requests : Has(u, Request(id)) =>
        Open(r, f, id) /\ r.buf # Static(id) /\ Once(u, Request(id))

(* Answers that have arrived, and the one in the buffer.                    *)
Paid(r, f) ==
    /\ r.twice = {}
    /\ \A a \in r.log : a.no = f[a.id] /\ f[a.id] # 0
    /\ \A id \in Requests : r.buf = Static(id) => f[id] # 0
    /\ r.peer = "up" => r.no # 0

(* Part of an answer is written.                                            *)
Partly(r, f) ==
    LET h == Head(r.ready)
    IN  \A id \in Requests :
            /\ r.ready # <<>> /\ h.op = "reciveAnswer" /\ h.ok
            /\ r.buf = Static(id) /\ r.tempA + h.n < Size(r.buf)
            => Open(r, f, id)

Ledger(r, f) ==
    /\ Owed(r, f, Unanswered(r)) /\ Paid(r, f) /\ Partly(r, f)

(* Between two operations, inside a handler.                                *)
Between(r, f) == r \in Link /\ r.open /\ (Orderly(r) => Bare(r) /\ Clean(r) /\ Ledger(r, f))

LinkOK(r, f) == r \in Link /\ r.open /\ (Orderly(r) => Sequential(r) /\ Ledger(r, f))

Inv ==
    /\ LinkOK(link, from)
    /\ from \in [Requests -> Nat] /\ faults \in 0..MaxFaults

-----------------------------------------------------------------------------
(* Sequences. *)

LEMMA SingleSeq ==
    ASSUME NEW S, NEW q \in Seq(S)
    PROVE  /\ Len(q) = 0 <=> q = <<>>
           /\ Len(q) = 1 => /\ q = <<q[1]>> /\ Head(q) = q[1] /\ q[1] \in S
                            /\ Tail(q) = <<>> /\ Has(q, q[1])
           /\ q # <<>> => Head(q) \in S /\ Tail(q) \in Seq(S) /\ Len(q) >= 1
<1>1. Len(q) = 0 <=> q = <<>>
  OBVIOUS
<1>2. ASSUME Len(q) = 1
      PROVE  q = <<q[1]>> /\ Head(q) = q[1] /\ q[1] \in S /\ Tail(q) = <<>> /\ Has(q, q[1])
  <2>1. DOMAIN q = {1} /\ q[1] \in S /\ Head(q) = q[1]
    BY <1>2
  <2>2. <<q[1]>> \in Seq(S) /\ Len(<<q[1]>>) = 1 /\ <<q[1]>>[1] = q[1]
    BY <2>1
  <2>3. q = <<q[1]>>
    BY <1>2, <2>1, <2>2, SeqEqual
  <2>4. Tail(q) \in Seq(S) /\ Len(Tail(q)) = 0
    BY <1>2
  <2>5. Tail(q) = <<>>
    BY <2>4, EmptySeq
  <2> QED
    BY <2>1, <2>3, <2>5 DEF Has
<1>3. q # <<>> => Head(q) \in S /\ Tail(q) \in Seq(S) /\ Len(q) >= 1
  OBVIOUS
<1> QED
  BY <1>1, <1>2, <1>3

LEMMA AppendOne ==
    ASSUME NEW e
    PROVE  /\ Append(<<>>, e) = <<e>> /\ <<e>> # <<>> /\ Len(<<e>>) = 1 /\ Head(<<e>>) = e
           /\ <<e>>[1] = e
OBVIOUS

LEMMA EmptyHas ==
    \A x : ~ Has(<<>>, x) /\ Once(<<>>, x)
BY DEF Has, Once

LEMMA AppendHas ==
    ASSUME NEW S, NEW q \in Seq(S), NEW e, NEW p, p = Append(q, e)
    PROVE  /\ \A x : Has(p, x) <=> Has(q, x) \/ e = x
           /\ \A x : Once(q, x) /\ ~ (Has(q, x) /\ e = x) => Once(p, x)
<1> DEFINE n == Len(q) + 1
<1>1. /\ Len(q) \in Nat /\ DOMAIN q = 1..Len(q) /\ DOMAIN p = 1..n
      /\ \A i \in 1..Len(q) : p[i] = q[i]
      /\ p[n] = e
  OBVIOUS
<1>2. /\ \A i \in DOMAIN p : i \in DOMAIN q \/ i = n
      /\ n \in DOMAIN p /\ n \notin DOMAIN q
      /\ \A i \in DOMAIN q : i \in DOMAIN p /\ p[i] = q[i]
      /\ p[n] = e
  BY <1>1
<1> HIDE DEF n
<1>3. \A x : Has(p, x) <=> Has(q, x) \/ e = x
  BY <1>2 DEF Has
<1>4. \A x : Once(q, x) /\ ~ (Has(q, x) /\ e = x) => Once(p, x)
  BY <1>2 DEF Has, Once
<1> QED
  BY <1>3, <1>4

(* The last part of a sequence holds no more than the whole, and what is    *)
(* there once and in the first part is not in the last.                     *)
LEMMA ConcatHas ==
    ASSUME NEW S, NEW q \in Seq(S), NEW w \in Seq(S), NEW p, p = q \o w
    PROVE  /\ \A x : Has(q, x) \/ Has(w, x) => Has(p, x)
           /\ \A x : Once(p, x) => Once(q, x) /\ Once(w, x) /\ ~ (Has(q, x) /\ Has(w, x))
<1> DEFINE n == Len(q)
<1>1. /\ n \in Nat /\ Len(w) \in Nat /\ DOMAIN q = 1..n /\ DOMAIN w = 1..Len(w)
      /\ DOMAIN p = 1..(n + Len(w))
      /\ \A i \in 1..(n + Len(w)) : p[i] = IF i <= n THEN q[i] ELSE w[i - n]
  OBVIOUS
<1> HIDE DEF n
<1>2. /\ \A i \in DOMAIN q : i \in DOMAIN p /\ p[i] = q[i]
      /\ \A i \in DOMAIN w : n + i \in DOMAIN p /\ p[n + i] = w[i]
  BY <1>1
<1>3. \A i, j \in DOMAIN w : n + i = n + j => i = j
  BY <1>1
<1>4. \A i \in DOMAIN q, j \in DOMAIN w : i # n + j
  BY <1>1
<1>5. \A x : Has(q, x) \/ Has(w, x) => Has(p, x)
  BY <1>2 DEF Has
<1>6. \A x : Once(p, x) => Once(q, x) /\ Once(w, x)
  BY <1>2, <1>3 DEF Once
<1>7. \A x : Once(p, x) => ~ (Has(q, x) /\ Has(w, x))
  BY <1>2, <1>4 DEF Once, Has
<1> QED
  BY <1>5, <1>6, <1>7

LEMMA ConcatEmpty ==
    ASSUME NEW S, NEW q \in Seq(S)
    PROVE  q \o <<>> = q /\ <<>> \o q = q
BY ConcatEmptySeq

-----------------------------------------------------------------------------
(* Types. *)

LEMMA MsgFacts ==
    /\ \A kind \in Kinds : M(kind) \in Msg
    /\ \A id \in Requests : Request(id) \in Msg /\ Static(id) \in Msg
    /\ \A kind \in Kinds, id \in Requests : M(kind) # Static(id) /\ M(kind) # Request(id)
    /\ \A id, jd \in Requests : Request(id) # Static(jd)
    /\ \A id, jd \in Requests : Static(id) = Static(jd) => id = jd
    /\ \A id, jd \in Requests : Request(id) = Request(jd) => id = jd
    /\ \A id \in Requests : /\ Static(id).id = id /\ Static(id).kind = "static"
                            /\ Request(id).id = id /\ Request(id).kind = "request"
    /\ \A kind : M(kind).kind = kind
    /\ \A m \in Msg : m.kind = "request" => m.id \in Requests /\ m = Request(m.id)
    /\ \A m \in Msg : m.kind = "static" => m.id \in Requests /\ m = Static(m.id)
BY DEF M, Msg, Kinds, Request, Static

LEMMA SizeType ==
    /\ \A m \in Msg : Size(m) \in 0..2
    /\ Size(M("none")) = 0 /\ Size(M("connect")) = 1
    /\ \A id \in Requests : Size(Static(id)) = 2
BY DEF Size, M, Msg, Kinds, Static

LEMMA DoneType ==
    /\ \A op \in {"sendConnect"} \cup Receives \cup Sends, ok \in BOOLEAN :
          /\ Done(op, ok) \in Handler /\ Done(op, ok).op = op /\ Done(op, ok).ok = ok
          /\ Done(op, ok).msgs = <<>> /\ Done(op, ok).cut = FALSE
    /\ \A op \in Sends, n \in Nat \cup {-1} :
          /\ Sent(op, n) \in Handler /\ Sent(op, n).op = op /\ Sent(op, n).ok = (n # -1)
          /\ Sent(op, n).msgs = <<>> /\ (n # -1 => Sent(op, n).n = n)
    /\ \A op \in Receives, q \in Seq(Msg), cut \in BOOLEAN :
          /\ Received(op, q, cut) \in Handler /\ Received(op, q, cut).op = op
          /\ Received(op, q, cut).ok = TRUE /\ Received(op, q, cut).msgs = q
          /\ Received(op, q, cut).cut = cut
<1>1. <<>> \in Seq(Msg)
  OBVIOUS
<1>2. \A op \in {"sendConnect"} \cup Receives \cup Sends, ok \in BOOLEAN :
          /\ Done(op, ok) \in Handler /\ Done(op, ok).op = op /\ Done(op, ok).ok = ok
          /\ Done(op, ok).msgs = <<>> /\ Done(op, ok).cut = FALSE
  BY <1>1 DEF Done, Handler
<1>3. \A op \in Sends, n \in Nat \cup {-1} :
          /\ Sent(op, n) \in Handler /\ Sent(op, n).op = op /\ Sent(op, n).ok = (n # -1)
          /\ Sent(op, n).msgs = <<>> /\ (n # -1 => Sent(op, n).n = n)
  BY <1>1 DEF Sent, Done, Handler
<1>4. \A op \in Receives, q \in Seq(Msg), cut \in BOOLEAN :
          /\ Received(op, q, cut) \in Handler /\ Received(op, q, cut).op = op
          /\ Received(op, q, cut).ok = TRUE /\ Received(op, q, cut).msgs = q
          /\ Received(op, q, cut).cut = cut
  BY <1>1 DEF Received, Done, Handler
<1> QED
  BY <1>2, <1>3, <1>4

-----------------------------------------------------------------------------
(* The ledger under changes of the link. *)

Fewer(p, q) == \A x : (Has(p, x) => Has(q, x)) /\ (Once(q, x) => Once(p, x))

LEMMA FewerParts ==
    /\ \A q : Fewer(q, q) /\ Fewer(<<>>, q)
    /\ \A p, q, u : Fewer(p, q) /\ Fewer(q, u) => Fewer(p, u)
BY EmptyHas DEF Fewer

LEMMA FewerConcat ==
    ASSUME NEW S, NEW q \in Seq(S), NEW w \in Seq(S)
    PROVE  Fewer(q, q \o w) /\ Fewer(w, q \o w)
BY ConcatHas DEF Fewer

LEMMA OwedLess ==
    ASSUME NEW r, NEW x, NEW f, NEW u, NEW w, Owed(r, f, u), Fewer(w, u),
           x.no = r.no, x.log = r.log,
           x.buf = r.buf \/ (\A id \in Requests : x.buf # Static(id))
    PROVE  Owed(x, f, w)
BY DEF Owed, Fewer, Open, Answered

LEMMA PaidSame ==
    ASSUME NEW r, NEW x, NEW f, Paid(r, f), x.log = r.log, x.twice = r.twice, x.no = r.no,
           x.peer = "up" => r.peer = "up",
           x.buf = r.buf \/ (\A id \in Requests : x.buf # Static(id))
    PROVE  Paid(x, f)
BY DEF Paid

LEMMA BareFacts ==
    ASSUME NEW r \in Link, Bare(r)
    PROVE  /\ Held(r) = <<>> /\ Unanswered(r) = Jsons(r) \o r.in
           /\ Jsons(r) \in Seq(Msg) /\ r.in \in Seq(Msg)
           /\ \A f : Partly(r, f)
<1>1. Jsons(r) \in Seq(Msg) /\ r.in \in Seq(Msg) /\ r.ready = <<>>
  BY DEF Jsons, Link, Bare
<1>2. Held(r) = <<>>
  BY <1>1 DEF Held
<1>3. Jsons(r) \o <<>> = Jsons(r)
  BY <1>1, ConcatEmpty
<1> QED
  BY <1>1, <1>2, <1>3 DEF Unanswered, Partly

(* What is owed of the parts of a bare link.                                *)
LEMMA BareLedger ==
    ASSUME NEW r \in Link, Bare(r), NEW f
    PROVE  Ledger(r, f) <=> Owed(r, f, Jsons(r) \o r.in) /\ Paid(r, f)
BY BareFacts DEF Ledger

(* A link that has changed in what the ledger does not count.               *)
LEMMA BareChanged ==
    ASSUME NEW r \in Link, Bare(r), NEW f, Ledger(r, f), NEW x \in Link, Bare(x),
           x.no = r.no, x.log = r.log, x.twice = r.twice, x.in = r.in,
           Jsons(x) = Jsons(r), x.peer = "up" => r.peer = "up",
           x.buf = r.buf \/ (\A id \in Requests : x.buf # Static(id))
    PROVE  Ledger(x, f)
<1> DEFINE u == Jsons(r) \o r.in
<1>1. Owed(r, f, u) /\ Paid(r, f)
  BY BareLedger
<1>2. Fewer(u, u)
  BY FewerParts
<1> HIDE DEF u
<1>3. Owed(x, f, u) /\ Paid(x, f)
  BY <1>1, <1>2, OwedLess, PaidSame
<1> QED
  BY <1>3, BareLedger DEF u

-----------------------------------------------------------------------------
(* The operations that start something. *)

LEMMA PostType ==
    ASSUME NEW r \in Link, NEW h \in Handler
    PROVE  /\ Post(r, h) \in Link
           /\ Post(r, h) = [r EXCEPT !.ready = Append(r.ready, h)]
           /\ Append(r.ready, h) \in Seq(Handler)
<1> DEFINE q == Append(r.ready, h)
<1>1. q \in Seq(Handler)
  BY DEF Link
<1> HIDE DEF q
<1>2. [r EXCEPT !.ready = q] \in Link
  BY <1>1 DEF Link
<1>3. Post(r, h) = [r EXCEPT !.ready = q]
  BY DEF Post, q
<1> QED
  BY <1>1, <1>2, <1>3 DEF q

LEMMA ReceiveType ==
    ASSUME NEW r \in Link, r.open, NEW op \in Receives, NEW x, x = AsyncReceive(r, op)
    PROVE  /\ x \in Link /\ x.open /\ x.batched = r.batched /\ x.forked = r.forked
           /\ \/ r.peer = "none" /\ x = [r EXCEPT !.ready = Append(r.ready, Done(op, FALSE))]
              \/ r.peer # "none" /\ x = [r EXCEPT !.reads = Append(r.reads, op)]
<1>1. CASE r.peer = "none"
  <2> DEFINE q == Append(r.ready, Done(op, FALSE))
  <2>1. Done(op, FALSE) \in Handler
    BY DoneType
  <2>2. x = Post(r, Done(op, FALSE))
    BY <1>1 DEF AsyncReceive
  <2>3. x = [r EXCEPT !.ready = q] /\ x \in Link
    BY <2>1, <2>2, PostType
  <2> HIDE DEF q
  <2>4. x.open /\ x.batched = r.batched /\ x.forked = r.forked
    BY <2>3 DEF Link
  <2> QED
    BY <1>1, <2>3, <2>4 DEF q
<1>2. CASE r.peer # "none"
  <2> DEFINE q == Append(r.reads, op)
  <2>1. q \in Seq(Receives)
    BY DEF Link
  <2>2. x = [r EXCEPT !.reads = q]
    BY <1>2 DEF AsyncReceive
  <2> HIDE DEF q
  <2>3. x \in Link /\ x.open /\ x.batched = r.batched /\ x.forked = r.forked
    BY <2>1, <2>2 DEF Link
  <2> QED
    BY <1>2, <2>2, <2>3 DEF q
<1> QED
  BY <1>1, <1>2

LEMMA ReceiveStep ==
    ASSUME NEW r, NEW f, Between(r, f), Orderly(r) => Resting(r), NEW op \in Receives
    PROVE  LinkOK(AsyncReceive(r, op), f)
<1> DEFINE x == AsyncReceive(r, op)
<1>1. /\ x \in Link /\ x.open /\ x.batched = r.batched /\ x.forked = r.forked
      /\ \/ r.peer = "none" /\ x = [r EXCEPT !.ready = Append(r.ready, Done(op, FALSE))]
         \/ r.peer # "none" /\ x = [r EXCEPT !.reads = Append(r.reads, op)]
  BY ReceiveType DEF Between
<1> HIDE DEF x
<1>2. ASSUME Orderly(x) PROVE Sequential(x) /\ Ledger(x, f)
  <2>1. r \in Link /\ Orderly(r) /\ Bare(r) /\ Clean(r) /\ Resting(r) /\ Ledger(r, f)
    BY <1>1, <1>2 DEF Orderly, Between
  <2> DEFINE h == Done(op, FALSE)
             u == Jsons(r) \o r.in
  <2>2. h \in Handler /\ h.op = op /\ h.ok = FALSE /\ h.msgs = <<>>
    BY DoneType
  <2>3. Owed(r, f, u) /\ Paid(r, f) /\ Jsons(r) \in Seq(Msg)
    BY <2>1, BareLedger, BareFacts
  <2> HIDE DEF h, u
  <2>4. op \notin Sends /\ op # "sendConnect"
    BY DEF Receives, Sends
  <2>5. /\ x.no = r.no /\ x.log = r.log /\ x.twice = r.twice /\ x.in = r.in /\ x.buf = r.buf
        /\ x.peer = r.peer /\ x.parser = r.parser /\ x.json = r.json
        /\ x.connecting = r.connecting /\ x.tempC = r.tempC /\ x.tempA = r.tempA
        /\ \/ x.ready = <<h>> /\ x.reads = <<>>
           \/ x.ready = <<>> /\ x.reads = <<op>>
    <3>1. r.ready = <<>> /\ r.reads = <<>>
      BY <2>1 DEF Bare
    <3>2. Append(r.ready, h) = <<h>> /\ Append(r.reads, op) = <<op>>
      BY <3>1, AppendOne
    <3>3. x = [r EXCEPT !.ready = <<h>>] \/ x = [r EXCEPT !.reads = <<op>>]
      BY <1>1, <3>2 DEF h
    <3> QED
      BY <2>1, <3>1, <3>3 DEF Link
  <2>6. Jsons(x) = Jsons(r) /\ Clean(x) /\ Resting(x)
    BY <2>1, <2>5 DEF Jsons, Clean, Resting
  <2>7. Held(x) = <<>> /\ Partly(x, f)
    <3>1. CASE x.ready = <<h>>
      <4>1. Head(x.ready) = h /\ x.ready # <<>>
        BY <3>1, AppendOne
      <4> QED
        BY <4>1, <2>2 DEF Held, Partly, Receives
    <3>2. CASE x.ready = <<>>
      BY <3>2 DEF Held, Partly
    <3> QED
      BY <2>5, <3>1, <3>2
  <2>8. Unanswered(x) = u
    BY <2>3, <2>5, <2>6, <2>7, ConcatEmpty DEF Unanswered, u
  <2>9. Ledger(x, f)
    <3>1. Fewer(u, u)
      BY FewerParts
    <3>2. Owed(x, f, u) /\ Paid(x, f)
      BY <2>3, <2>5, <3>1, OwedLess, PaidSame
    <3> QED
      BY <2>7, <2>8, <3>2 DEF Ledger
  <2>10. Receiving(x) \/ Handling(x)
    <3>1. ~ x.connecting
      BY <2>1, <2>5 DEF Bare
    <3>2. CASE x.ready = <<h>> /\ x.reads = <<>>
      <4>1. Head(x.ready) = h /\ Len(x.ready) = 1
        BY <3>2, AppendOne
      <4>2. Completed(x, h)
        BY <2>2, <2>4, <2>6 DEF Completed, Receives
      <4> QED
        BY <3>1, <3>2, <4>1, <4>2 DEF Handling
    <3>3. CASE x.ready = <<>> /\ x.reads = <<op>>
      BY <2>6, <3>1, <3>3 DEF Receiving
    <3> QED
      BY <2>5, <3>2, <3>3
  <2> QED
    BY <2>6, <2>9, <2>10 DEF Sequential
<1> QED
  BY <1>1, <1>2 DEF LinkOK, x

-----------------------------------------------------------------------------
(* Sends. *)

(* What a send may take: an error (-1), or units.                           *)
LEMMA OutcomesType ==
    ASSUME NEW r \in Link, NEW off \in Nat, NEW n \in Outcomes(r, off)
    PROVE  /\ n \in Nat \cup {-1}
           /\ off <= Size(r.buf) /\ n # -1 => off + n <= Size(r.buf)
           /\ n # -1 => r.peer \notin {"none", "reset"}
           /\ off <= Size(r.buf) /\ n = -1 => r.peer \in {"none", "reset", "closed"}
<1> DEFINE z == Size(r.buf)
           rest == z - off
           taken == IF rest > 1 /\ ShortWrites THEN 1..rest ELSE {rest}
<1>1. z \in 0..2 /\ r.peer \in {"none", "up", "closed", "reset", "gone"}
  BY SizeType DEF Link
<1>2. off <= z => \A k \in taken : k \in Nat /\ off + k <= z
  BY <1>1
<1>3. \/ r.peer \in {"none", "reset"} /\ n = -1
      \/ r.peer \in {"up", "closed", "gone"} /\ off > z /\ n \in {-1, 1}
      \/ r.peer = "closed" /\ off <= z /\ (n = -1 \/ n \in taken)
      \/ r.peer \in {"up", "gone"} /\ off <= z /\ n \in taken
  <2> HIDE DEF taken
  <2>1. Outcomes(r, off) = CASE r.peer \in {"none", "reset"} -> {-1}
          [] r.peer \in {"up", "closed", "gone"} /\ off > z ->
                IF off < MaxTemp THEN {-1, 1} ELSE {-1}
          [] r.peer = "closed" /\ off <= z -> {-1} \cup taken
          [] r.peer \in {"up", "gone"} /\ off <= z -> taken
    BY Zenon DEF Outcomes, z, rest, taken
  <2> HIDE DEF z
  <2>2. CASE r.peer \in {"none", "reset"}
    BY <2>1, <2>2
  <2>3. CASE r.peer \in {"up", "closed", "gone"} /\ off > z
    BY <1>1, <2>1, <2>3
  <2>4. CASE r.peer = "closed" /\ off <= z
    BY <1>1, <2>1, <2>4
  <2>5. CASE r.peer \in {"up", "gone"} /\ off <= z
    BY <1>1, <2>1, <2>5
  <2> QED
    BY <1>1, <2>2, <2>3, <2>4, <2>5
<1> HIDE DEF taken, rest
<1>4. off <= z /\ off > z => FALSE
  BY <1>1
<1> HIDE DEF z
<1>5. CASE r.peer \in {"none", "reset"} /\ n = -1
  BY <1>5 DEF z
<1>6. CASE r.peer \in {"up", "closed", "gone"} /\ off > z /\ n \in {-1, 1}
  BY <1>4, <1>6 DEF z
<1>7. CASE r.peer = "closed" /\ off <= z /\ (n = -1 \/ n \in taken)
  BY <1>2, <1>7 DEF z
<1>8. CASE r.peer \in {"up", "gone"} /\ off <= z /\ n \in taken
  <2>1. n \in Nat /\ off + n <= z
    BY <1>2, <1>8
  <2>2. n # -1
    BY <2>1
  <2> QED
    BY <1>8, <2>1, <2>2 DEF z
<1> QED
  BY <1>3, <1>5, <1>6, <1>7, <1>8

(* A message that arrives changes what is known of the worker, or is the    *)
(* answer in the buffer.                                                    *)
LEMMA ArrivesType ==
    ASSUME NEW r \in Link
    PROVE  /\ Arrives(r) \in Link
           /\ \/ Arrives(r) = r
              \/ Arrives(r) = [r EXCEPT !.known = "introduced"]
              \/ /\ r.buf.kind = "static"
                 /\ Arrives(r) =
                      [r EXCEPT !.log = @ \cup {[id |-> r.buf.id, no |-> r.no]},
                                !.twice = IF Answered(r, r.buf.id) THEN @ \cup {r.buf.id} ELSE @]
           /\ r.buf.kind \notin {"connect", "static"} => Arrives(r) = r
           /\ r.buf.kind = "connect" => Arrives(r) \in {r, [r EXCEPT !.known = "introduced"]}
<1>1. r.buf \in Msg
  BY DEF Link
<1>2. CASE r.buf.kind = "connect" /\ r.known = "no"
  <2>1. Arrives(r) = [r EXCEPT !.known = "introduced"]
    BY <1>2 DEF Arrives
  <2> QED
    BY <1>2, <2>1 DEF Link
<1>3. CASE r.buf.kind = "static"
  <2> DEFINE l == r.log \cup {[id |-> r.buf.id, no |-> r.no]}
             t == IF Answered(r, r.buf.id) THEN r.twice \cup {r.buf.id} ELSE r.twice
  <2>1. Arrives(r) = [r EXCEPT !.log = l, !.twice = t]
    BY <1>3 DEF Arrives
  <2>2. r.buf.id \in Requests
    BY <1>1, <1>3, MsgFacts
  <2>3. l \in SUBSET [id : Requests, no : Nat] /\ t \in SUBSET Requests
    BY <2>2 DEF Link
  <2> HIDE DEF l, t
  <2>4. [r EXCEPT !.log = l, !.twice = t] \in Link
    BY <2>3 DEF Link
  <2> QED
    BY <1>3, <2>1, <2>4 DEF l, t
<1>4. CASE ~ (r.buf.kind = "connect" /\ r.known = "no") /\ r.buf.kind # "static"
  <2>1. Arrives(r) = r
    BY <1>4 DEF Arrives
  <2> QED
    BY <1>4, <2>1
<1> QED
  BY <1>2, <1>3, <1>4

(* The outcomes of a send that has been posted, one by one.                 *)
SendResult(r, off, n, p, x) ==
    \/ n = -1 /\ r.peer # "closed" /\ x = p
    \/ n = -1 /\ r.peer = "closed" /\ x = [p EXCEPT !.peer = "reset", !.in = <<>>]
    \/ n # -1 /\ ~ (r.peer = "up" /\ off + n = Size(r.buf)) /\ x = p
    \/ n # -1 /\ r.peer = "up" /\ off + n = Size(r.buf) /\ x = Arrives(p)

LEMMA SendCases ==
    ASSUME NEW r \in Link, NEW op \in Sends, NEW off \in Nat, NEW x \in AsyncSends(r, op, off)
    PROVE  \E n \in Outcomes(r, off) : \E p \in Link :
              /\ n \in Nat \cup {-1}
              /\ p = [r EXCEPT !.ready = Append(r.ready, Sent(op, n))]
              /\ SendResult(r, off, n, p, x)
<1>1. PICK n \in Outcomes(r, off) : x = AsyncSend(r, op, off, n)
  BY DEF AsyncSends
<1> DEFINE p == Post(r, Sent(op, n))
<1>2. n \in Nat \cup {-1}
  BY OutcomesType
<1>3. Sent(op, n) \in Handler
  BY <1>2, DoneType
<1>4. p \in Link /\ p = [r EXCEPT !.ready = Append(r.ready, Sent(op, n))]
  BY <1>3, PostType
<1>5. x = CASE n = -1 -> IF r.peer = "closed" THEN [p EXCEPT !.peer = "reset", !.in = <<>>] ELSE p
            [] n # -1 -> IF r.peer = "up" /\ off + n = Size(r.buf) THEN Arrives(p) ELSE p
  BY <1>1, Zenon DEF AsyncSend, p
<1> HIDE DEF p
<1>6. CASE n = -1
  <2>1. x = IF r.peer = "closed" THEN [p EXCEPT !.peer = "reset", !.in = <<>>] ELSE p
    BY <1>5, <1>6
  <2>2. r.peer = "closed" \/ r.peer # "closed"
    OBVIOUS
  <2>3. \/ n = -1 /\ r.peer # "closed" /\ x = p
        \/ n = -1 /\ r.peer = "closed" /\ x = [p EXCEPT !.peer = "reset", !.in = <<>>]
    BY <1>6, <2>1, <2>2
  <2> QED
    BY <1>2, <1>4, <2>3 DEF SendResult
<1>7. CASE n # -1
  <2>1. x = IF r.peer = "up" /\ off + n = Size(r.buf) THEN Arrives(p) ELSE p
    BY <1>5, <1>7
  <2>2. \/ n # -1 /\ ~ (r.peer = "up" /\ off + n = Size(r.buf)) /\ x = p
        \/ n # -1 /\ r.peer = "up" /\ off + n = Size(r.buf) /\ x = Arrives(p)
    BY <1>7, <2>1
  <2> QED
    BY <1>2, <1>4, <2>2 DEF SendResult
<1> QED
  BY <1>6, <1>7

LEMMA AppendAny ==
    ASSUME NEW S, NEW q \in Seq(S), NEW e \in S
    PROVE  /\ Append(q, e) \in Seq(S) /\ Len(q) + 1 \in DOMAIN Append(q, e)
           /\ Append(q, e)[Len(q) + 1] = e
OBVIOUS

LEMMA SendType ==
    ASSUME NEW r \in Link, r.open, NEW op \in Sends, NEW off \in Nat,
           NEW x \in AsyncSends(r, op, off)
    PROVE  /\ x \in Link /\ x.open /\ x.batched = r.batched /\ x.forked = r.forked
           /\ SendQueued(x)
<1>1. PICK n \in Outcomes(r, off) : \E p \in Link :
              /\ n \in Nat \cup {-1}
              /\ p = [r EXCEPT !.ready = Append(r.ready, Sent(op, n))]
              /\ SendResult(r, off, n, p, x)
  BY SendCases
<1> DEFINE h == Sent(op, n)
           q == Append(r.ready, h)
<1>2. h \in Handler /\ h.op \in Sends
  BY <1>1, DoneType
<1>3. r.ready \in Seq(Handler)
  BY DEF Link
<1> HIDE DEF h
<1>4. q \in Seq(Handler) /\ Len(r.ready) + 1 \in DOMAIN q /\ q[Len(r.ready) + 1].op \in Sends
  BY <1>2, <1>3, AppendAny
<1> HIDE DEF q
<1>5. PICK p \in Link :
              /\ p = [r EXCEPT !.ready = q]
              /\ \/ x = p
                 \/ x = [p EXCEPT !.peer = "reset", !.in = <<>>]
                 \/ x = Arrives(p)
  BY <1>1 DEF q, h, SendResult
<1>6. p.open /\ p.batched = r.batched /\ p.forked = r.forked /\ p.ready = q
  BY <1>4, <1>5 DEF Link
<1>7. x \in Link /\ x.open /\ x.batched = p.batched /\ x.forked = p.forked /\ x.ready = p.ready
  <2>1. CASE x = p
    BY <1>6, <2>1
  <2>2. CASE x = [p EXCEPT !.peer = "reset", !.in = <<>>]
    <3>1. <<>> \in Seq(Msg)
      OBVIOUS
    <3> QED
      BY <1>6, <2>2, <3>1 DEF Link
  <2>3. CASE x = Arrives(p)
    <3> DEFINE l == p.log \cup {[id |-> p.buf.id, no |-> p.no]}
               t == IF Answered(p, p.buf.id) THEN p.twice \cup {p.buf.id} ELSE p.twice
    <3>1. \/ x = p \/ x = [p EXCEPT !.known = "introduced"]
          \/ x = [p EXCEPT !.log = l, !.twice = t]
      BY <2>3, ArrivesType
    <3> HIDE DEF l, t
    <3>2. x.open = p.open /\ x.batched = p.batched /\ x.forked = p.forked /\ x.ready = p.ready
      BY <3>1 DEF Link
    <3> QED
      BY <1>6, <2>3, <3>2, ArrivesType
  <2> QED
    BY <1>5, <2>1, <2>2, <2>3
<1> QED
  BY <1>4, <1>6, <1>7 DEF SendQueued

(* What a send must find when the link does one thing at a time: the        *)
(* counter is where the data start, and the answer in the buffer is due.    *)
Counter(r, op) == IF op = "reciveConnect" THEN r.tempC ELSE r.tempA
Fit(r, op, off, f) ==
    /\ Jsons(r) = <<>> /\ off <= Size(r.buf)
    /\ op = "reciveConnect" => r.buf = M("connect") /\ r.tempA = 0
    /\ op = "reciveAnswer" => r.endSend /\ r.tempC = 0
    /\ r.peer \notin {"none", "reset"} =>
          /\ off = Counter(r, op)
          /\ \A id \in Requests : r.buf = Static(id) => Open(r, f, id)

(* The link after a send: the handler that was posted, and an answer that   *)
(* has arrived.                                                             *)
SendGives(r, op, off, h, n, x) ==
    /\ h.op = op /\ h.ok = (n # -1) /\ h.msgs = <<>> /\ (n # -1 => h.n = n)
    /\ n # -1 => off + n <= Size(r.buf) /\ r.peer \notin {"none", "reset"}
    /\ n # -1 => x.peer = r.peer
    /\ n = -1 => x.peer \in {"none", "reset"}
    /\ x.ready = <<h>> /\ ~ x.connecting /\ x.reads = <<>>
    /\ x.parser = r.parser /\ x.json = r.json /\ x.buf = r.buf /\ x.no = r.no
    /\ x.endSend = r.endSend /\ x.tempC = r.tempC /\ x.tempA = r.tempA
    /\ x.in \in {r.in, <<>>}
    /\ \/ x.log = r.log /\ x.twice = r.twice
       \/ /\ n # -1 /\ off + n = Size(r.buf) /\ r.buf.kind = "static"
          /\ x.log = r.log \cup {[id |-> r.buf.id, no |-> r.no]}
          /\ ~ Answered(r, r.buf.id) => x.twice = r.twice

LEMMA SendFields ==
    ASSUME NEW r \in Link, Bare(r), NEW op \in Sends, NEW off \in Nat, off <= Size(r.buf),
           NEW x \in AsyncSends(r, op, off)
    PROVE  \E h \in Handler, n \in Nat \cup {-1} : SendGives(r, op, off, h, n, x)
<1>1. PICK n \in Outcomes(r, off) : \E p \in Link :
              /\ n \in Nat \cup {-1}
              /\ p = [r EXCEPT !.ready = Append(r.ready, Sent(op, n))]
              /\ SendResult(r, off, n, p, x)
  BY SendCases
<1> DEFINE h == Sent(op, n)
<1>2. /\ h \in Handler /\ h.op = op /\ h.ok = (n # -1) /\ h.msgs = <<>> /\ (n # -1 => h.n = n)
  BY <1>1, DoneType
<1>3. /\ n # -1 => off + n <= Size(r.buf) /\ r.peer \notin {"none", "reset"}
      /\ n = -1 => r.peer \in {"none", "reset", "closed"}
  BY OutcomesType
<1>4. Append(r.ready, h) = <<h>>
  BY AppendOne DEF Bare
<1>5. PICK p \in Link : p = [r EXCEPT !.ready = <<h>>] /\ SendResult(r, off, n, p, x)
  BY <1>1, <1>4
<1> HIDE DEF h
<1>6. /\ p.ready = <<h>> /\ ~ p.connecting /\ p.reads = <<>>
      /\ p.parser = r.parser /\ p.json = r.json /\ p.buf = r.buf /\ p.no = r.no
      /\ p.endSend = r.endSend /\ p.tempC = r.tempC /\ p.tempA = r.tempA
      /\ p.in = r.in /\ p.peer = r.peer /\ p.log = r.log /\ p.twice = r.twice
  BY <1>5 DEF Bare, Link
<1>7. /\ n # -1 => x.peer = r.peer
      /\ n = -1 => x.peer \in {"none", "reset"}
      /\ x.ready = <<h>> /\ ~ x.connecting /\ x.reads = <<>>
      /\ x.parser = r.parser /\ x.json = r.json /\ x.buf = r.buf /\ x.no = r.no
      /\ x.endSend = r.endSend /\ x.tempC = r.tempC /\ x.tempA = r.tempA
      /\ x.in \in {r.in, <<>>}
      /\ \/ x.log = r.log /\ x.twice = r.twice
         \/ /\ n # -1 /\ off + n = Size(r.buf) /\ r.buf.kind = "static"
            /\ x.log = r.log \cup {[id |-> r.buf.id, no |-> r.no]}
            /\ ~ Answered(r, r.buf.id) => x.twice = r.twice
  <2>1. CASE n = -1 /\ r.peer # "closed" /\ x = p
    BY <1>3, <1>6, <2>1
  <2>2. CASE n = -1 /\ r.peer = "closed" /\ x = [p EXCEPT !.peer = "reset", !.in = <<>>]
    BY <1>5, <1>6, <2>2 DEF Link
  <2>3. CASE n # -1 /\ ~ (r.peer = "up" /\ off + n = Size(r.buf)) /\ x = p
    BY <1>6, <2>3
  <2>4. CASE n # -1 /\ r.peer = "up" /\ off + n = Size(r.buf) /\ x = Arrives(p)
    <3>1. CASE x = p
      BY <1>6, <2>4, <3>1
    <3>2. CASE x = [p EXCEPT !.known = "introduced"]
      BY <1>5, <1>6, <2>4, <3>2 DEF Link
    <3>3. CASE /\ p.buf.kind = "static"
               /\ x = [p EXCEPT !.log = @ \cup {[id |-> p.buf.id, no |-> p.no]},
                                !.twice = IF Answered(p, p.buf.id) THEN @ \cup {p.buf.id} ELSE @]
      <4> DEFINE l == p.log \cup {[id |-> p.buf.id, no |-> p.no]}
                 t == IF Answered(p, p.buf.id) THEN p.twice \cup {p.buf.id} ELSE p.twice
      <4>1. l = r.log \cup {[id |-> r.buf.id, no |-> r.no]}
        BY <1>6
      <4>2. ~ Answered(r, r.buf.id) => t = r.twice
        BY <1>6 DEF Answered
      <4>3. x = [p EXCEPT !.log = l, !.twice = t]
        BY <3>3
      <4> HIDE DEF l, t
      <4>4. /\ x.log = l /\ x.twice = t /\ x.peer = p.peer /\ x.ready = p.ready
            /\ x.connecting = p.connecting /\ x.reads = p.reads
            /\ x.parser = p.parser /\ x.json = p.json /\ x.buf = p.buf /\ x.no = p.no
            /\ x.endSend = p.endSend /\ x.tempC = p.tempC /\ x.tempA = p.tempA /\ x.in = p.in
        BY <1>5, <4>3 DEF Link
      <4> QED
        BY <1>6, <2>4, <3>3, <4>1, <4>2, <4>4
    <3> QED
      BY <1>5, <2>4, <3>1, <3>2, <3>3, ArrivesType
  <2> QED
    BY <1>5, <2>1, <2>2, <2>3, <2>4 DEF SendResult
<1> QED
  BY <1>1, <1>2, <1>3, <1>7 DEF SendGives

LEMMA SendSequential ==
    ASSUME NEW r \in Link, NEW f, Bare(r), Clean(r), Ledger(r, f),
           NEW op \in Sends, NEW off \in Nat, Fit(r, op, off, f), NEW x \in AsyncSends(r, op, off)
    PROVE  Sequential(x) /\ Ledger(x, f)
<1>1. Jsons(r) = <<>> /\ off <= Size(r.buf)
  BY DEF Fit
<1>2. PICK h \in Handler, n \in Nat \cup {-1} : SendGives(r, op, off, h, n, x)
  BY <1>1, SendFields
<1>3. /\ h.op = op /\ h.ok = (n # -1) /\ h.msgs = <<>> /\ (n # -1 => h.n = n)
      /\ n # -1 => off + n <= Size(r.buf) /\ r.peer \notin {"none", "reset"}
      /\ n # -1 => x.peer = r.peer
      /\ n = -1 => x.peer \in {"none", "reset"}
      /\ x.ready = <<h>> /\ ~ x.connecting /\ x.reads = <<>>
      /\ x.parser = r.parser /\ x.json = r.json /\ x.buf = r.buf /\ x.no = r.no
      /\ x.endSend = r.endSend /\ x.tempC = r.tempC /\ x.tempA = r.tempA
      /\ x.in \in {r.in, <<>>}
      /\ \/ x.log = r.log /\ x.twice = r.twice
         \/ /\ n # -1 /\ off + n = Size(r.buf) /\ r.buf.kind = "static"
            /\ x.log = r.log \cup {[id |-> r.buf.id, no |-> r.no]}
            /\ ~ Answered(r, r.buf.id) => x.twice = r.twice
  BY <1>2 DEF SendGives
<1>4. Head(x.ready) = h /\ x.ready # <<>> /\ Len(x.ready) = 1
  BY <1>3, AppendOne
<1>5. Jsons(x) = <<>> /\ Held(x) = <<>> /\ Clean(x)
  BY <1>1, <1>3, <1>4 DEF Jsons, Held, Clean
<1>6. Unanswered(x) = x.in /\ Owed(r, f, r.in) /\ Paid(r, f)
  <2>1. r.in \in Seq(Msg) /\ x.in \in Seq(Msg)
    <3>1. r.in \in Seq(Msg) /\ <<>> \in Seq(Msg)
      BY DEF Link
    <3> QED
      BY <1>3, <3>1
  <2>2. <<>> \o <<>> = <<>>
    BY ConcatEmpty
  <2>3. <<>> \o x.in = x.in /\ <<>> \o r.in = r.in
    BY <2>1, ConcatEmpty
  <2> QED
    BY <1>1, <1>5, <2>2, <2>3, BareLedger DEF Unanswered
<1>7. Fewer(x.in, r.in)
  BY <1>3, FewerParts
<1>8. n # -1 => off = Counter(r, op) /\ \A id \in Requests : r.buf = Static(id) => Open(r, f, id)
  BY <1>3 DEF Fit
<1>9. Ledger(x, f)
  <2>1. CASE x.log = r.log /\ x.twice = r.twice
    <3>1. Owed(x, f, x.in)
      BY <1>3, <1>6, <1>7, <2>1, OwedLess
    <3>2. x.peer = "up" => r.peer = "up"
      BY <1>3
    <3>3. Paid(x, f)
      BY <1>3, <1>6, <2>1, <3>2, PaidSame
    <3>4. Partly(x, f)
      BY <1>3, <1>4, <1>8, <2>1 DEF Partly, Open, Answered
    <3> QED
      BY <1>6, <3>1, <3>3, <3>4 DEF Ledger
  <2>2. CASE /\ n # -1 /\ off + n = Size(r.buf) /\ r.buf.kind = "static"
             /\ x.log = r.log \cup {[id |-> r.buf.id, no |-> r.no]}
             /\ ~ Answered(r, r.buf.id) => x.twice = r.twice
    <3>1. PICK id \in Requests : r.buf = Static(id) /\ r.buf.id = id
      BY <2>2, MsgFacts DEF Link
    <3>2. Open(r, f, id) /\ off = Counter(r, op)
      BY <1>8, <2>2, <3>1
    <3>3. /\ x.log = r.log \cup {[id |-> id, no |-> r.no]} /\ x.twice = r.twice
      BY <2>2, <3>1, <3>2 DEF Open
    <3>4. \A jd : Answered(x, jd) <=> Answered(r, jd) \/ jd = id
      <4> DEFINE a == [id |-> id, no |-> r.no]
      <4>1. a.id = id /\ x.log = r.log \cup {a}
        BY <3>3
      <4> HIDE DEF a
      <4> QED
        BY <4>1 DEF Answered
    <3>5. Owed(x, f, x.in)
      BY <1>3, <1>6, <1>7, <3>1, <3>4 DEF Owed, Open, Fewer
    <3>6. Paid(x, f)
      <4>1. \A a \in x.log : a.no = f[a.id] /\ f[a.id] # 0
        BY <1>6, <3>2, <3>3 DEF Paid, Open
      <4>2. x.twice = {} /\ (x.peer = "up" => x.no # 0)
        BY <1>3, <1>6, <3>3 DEF Paid
      <4>3. \A jd \in Requests : x.buf = Static(jd) => f[jd] # 0
        BY <1>3, <1>6 DEF Paid
      <4> QED
        BY <4>1, <4>2, <4>3 DEF Paid
    <3>7. Partly(x, f)
      <4>1. op = "reciveAnswer" => ~ (x.tempA + h.n < Size(x.buf))
        <5>1. CASE op = "reciveAnswer"
          <6>1. off = r.tempA /\ h.n = n /\ n \in Nat
            BY <1>3, <2>2, <3>2, <5>1 DEF Counter
          <6>2. x.tempA + h.n = Size(x.buf)
            BY <1>3, <2>2, <6>1
          <6>3. Size(x.buf) \in Nat
            <7>1. x.buf = r.buf /\ r.buf \in Msg
              BY <1>3 DEF Link
            <7>2. Size(r.buf) \in 0..2
              BY <7>1, SizeType
            <7> QED
              BY <7>1, <7>2
          <6> QED
            BY <6>2, <6>3
        <5> QED
          BY <5>1
      <4> QED
        BY <1>3, <1>4, <4>1 DEF Partly
    <3> QED
      BY <1>6, <3>5, <3>6, <3>7 DEF Ledger
  <2> QED
    BY <1>3, <2>1, <2>2
<1>10. Completed(x, h)
  <2>1. h.op \notin Receives /\ h.op # "sendConnect"
    BY <1>3 DEF Receives, Sends
  <2>2. op = "reciveConnect" => /\ x.buf = M("connect") /\ x.tempA = 0
                                /\ Written(x.tempC, h, x)
    BY <1>3, <1>8 DEF Fit, Written, Counter
  <2>3. op = "reciveAnswer" => x.endSend /\ x.tempC = 0 /\ Written(x.tempA, h, x)
    BY <1>3, <1>8 DEF Fit, Written, Counter
  <2> QED
    BY <1>3, <1>5, <2>1, <2>2, <2>3 DEF Completed
<1> QED
  BY <1>3, <1>4, <1>5, <1>9, <1>10 DEF Sequential, Handling

LEMMA SendStep ==
    ASSUME NEW r, NEW f, Between(r, f), NEW op \in Sends, NEW off \in Nat,
           Orderly(r) => Fit(r, op, off, f), NEW x \in AsyncSends(r, op, off)
    PROVE  LinkOK(x, f)
<1>1. x \in Link /\ x.open /\ x.batched = r.batched /\ x.forked = r.forked
  BY SendType DEF Between
<1>2. ASSUME Orderly(x) PROVE Sequential(x) /\ Ledger(x, f)
  <2>1. Orderly(r)
    BY <1>1, <1>2 DEF Orderly
  <2> QED
    BY <2>1, SendSequential DEF Between
<1> QED
  BY <1>1, <1>2 DEF LinkOK

-----------------------------------------------------------------------------
(* The end of a connection. *)

LEMMA StopType ==
    ASSUME NEW r \in Link, r.open, NEW x, x = ConnectToMS(Stop(r))
    PROVE  /\ x \in Link /\ x.open /\ x.batched = r.batched /\ x.forked = r.forked
           /\ x.connecting /\ x.reads = <<>> /\ x.in = <<>> /\ x.peer = "none"
           /\ x.parser = IF r.parser = "half" THEN "stuck" ELSE r.parser
           /\ x.json = r.json /\ x.buf = r.buf /\ x.tempC = r.tempC /\ x.tempA = r.tempA
           /\ x.no = r.no /\ x.log = r.log /\ x.twice = r.twice
           /\ Bare(r) => x.ready = <<>>
<1> DEFINE a == IF r.connecting THEN <<Done("sendConnect", FALSE)>> ELSE <<>>
           b == [i \in DOMAIN r.reads |-> Done(r.reads[i], FALSE)]
           q == r.ready \o a \o b
           s == IF r.parser = "half" THEN "stuck" ELSE r.parser
           e == [r EXCEPT !.peer = "none", !.known = "no", !.in = <<>>, !.half = FALSE,
                          !.parser = s]
<1>1. a \in Seq(Handler)
  <2>1. Done("sendConnect", FALSE) \in Handler
    BY DoneType
  <2> DEFINE h == Done("sendConnect", FALSE)
  <2> HIDE DEF h
  <2>2. h \in Handler
    BY <2>1 DEF h
  <2>3. <<h>> \in Seq(Handler) /\ <<>> \in Seq(Handler)
    BY <2>2
  <2> QED
    BY <2>3 DEF h
<1>2. b \in Seq(Handler)
  <2>1. r.reads \in Seq(Receives) /\ DOMAIN r.reads = 1..Len(r.reads) /\ Len(r.reads) \in Nat
    BY DEF Link
  <2>2. \A op \in Receives : Done(op, FALSE) \in Handler
    BY DoneType
  <2>3. \A i \in 1..Len(r.reads) : r.reads[i] \in Receives
    BY <2>1, ElementOfSeq
  <2>4. \A i \in 1..Len(r.reads) : Done(r.reads[i], FALSE) \in Handler
    BY <2>2, <2>3, Zenon
  <2>5. b \in [1..Len(r.reads) -> Handler]
    BY <2>1, <2>4, Zenon
  <2> HIDE DEF b
  <2> QED
    BY <2>1, <2>5
<1>3. q \in Seq(Handler)
  <2>1. r.ready \in Seq(Handler)
    BY DEF Link
  <2> HIDE DEF a, b
  <2> QED
    BY <1>1, <1>2, <2>1, ConcatProperties
<1>4. Bare(r) => q = <<>>
  <2>1. ASSUME Bare(r) PROVE a = <<>> /\ b = <<>> /\ r.ready = <<>>
    <3>1. DOMAIN r.reads = {}
      BY <2>1 DEF Bare
    <3> QED
      BY <2>1, <3>1 DEF Bare
  <2> HIDE DEF a, b
  <2>2. <<>> \o <<>> = <<>>
    BY ConcatEmpty
  <2> QED
    BY <2>1, <2>2
<1>5. s \in {"clean", "half", "stuck"}
  BY DEF Link
<1>6. <<>> \in Seq(Msg) /\ <<>> \in Seq(Receives)
  OBVIOUS
<1>7. e = Ended(r)
  BY DEF Ended
<1> HIDE DEF a, b, s
<1>8. /\ e \in Link /\ e.batched = r.batched /\ e.forked = r.forked
      /\ e.in = <<>> /\ e.peer = "none" /\ e.parser = s /\ e.json = r.json /\ e.buf = r.buf
      /\ e.tempC = r.tempC /\ e.tempA = r.tempA
      /\ e.no = r.no /\ e.log = r.log /\ e.twice = r.twice
  BY <1>5, <1>6 DEF Link
<1> HIDE DEF e
<1>9. x = [e EXCEPT !.open = TRUE, !.connecting = TRUE, !.reads = <<>>, !.ready = q]
  <2>1. e.ready = r.ready /\ e.open
    BY <1>5, <1>6 DEF e, Link
  <2>2. Stop(r) = [Ended(r) EXCEPT !.open = FALSE, !.connecting = FALSE, !.reads = <<>>,
                                   !.ready = @ \o a \o b]
    BY DEF Stop, a, b
  <2>3. Stop(r) = [e EXCEPT !.open = FALSE, !.connecting = FALSE, !.reads = <<>>, !.ready = q]
    BY <1>7, <1>8, <2>1, <2>2
  <2> HIDE DEF q
  <2>4. x = [Stop(r) EXCEPT !.open = TRUE, !.connecting = TRUE]
    BY DEF ConnectToMS
  <2> QED
    BY <1>3, <1>6, <1>8, <2>3, <2>4 DEF Link
<1> HIDE DEF q
<1>10. /\ x \in Link /\ x.open /\ x.batched = e.batched /\ x.forked = e.forked
       /\ x.connecting /\ x.reads = <<>> /\ x.ready = q /\ x.in = e.in /\ x.peer = e.peer
       /\ x.parser = e.parser /\ x.json = e.json /\ x.buf = e.buf
       /\ x.tempC = e.tempC /\ x.tempA = e.tempA
       /\ x.no = e.no /\ x.log = e.log /\ x.twice = e.twice
  <2>1. x \in Link
    <3>1. e \in Link
      BY <1>8
    <3> DEFINE z == <<>>
               y == [e EXCEPT !.reads = z, !.ready = q]
    <3>2. z \in Seq(Receives)
      BY <1>6
    <3> HIDE DEF z
    <3>3. y \in Link
      BY <1>3, <3>1, <3>2 DEF Link
    <3>4. x = [y EXCEPT !.open = TRUE, !.connecting = TRUE]
      BY <1>9, <3>1 DEF z, Link
    <3> HIDE DEF y
    <3> QED
      BY <3>3, <3>4 DEF Link
  <2>2. x.open /\ x.connecting /\ x.reads = <<>> /\ x.ready = q
    BY <1>8, <1>9 DEF Link
  <2>3. /\ x.batched = e.batched /\ x.forked = e.forked /\ x.in = e.in /\ x.peer = e.peer
        /\ x.parser = e.parser /\ x.json = e.json /\ x.buf = e.buf
        /\ x.tempC = e.tempC /\ x.tempA = e.tempA
        /\ x.no = e.no /\ x.log = e.log /\ x.twice = e.twice
    BY <1>8, <1>9 DEF Link
  <2> QED
    BY <2>1, <2>2, <2>3
<1> QED
  BY <1>4, <1>8, <1>10 DEF s

LEMMA StopStep ==
    ASSUME NEW r, NEW f, Between(r, f), Orderly(r) => Resting(r)
    PROVE  LinkOK(ConnectToMS(Stop(r)), f)
<1> DEFINE x == ConnectToMS(Stop(r))
<1>1. /\ x \in Link /\ x.open /\ x.batched = r.batched /\ x.forked = r.forked
      /\ x.connecting /\ x.reads = <<>> /\ x.in = <<>> /\ x.peer = "none"
      /\ x.parser = IF r.parser = "half" THEN "stuck" ELSE r.parser
      /\ x.json = r.json /\ x.buf = r.buf /\ x.tempC = r.tempC /\ x.tempA = r.tempA
      /\ x.no = r.no /\ x.log = r.log /\ x.twice = r.twice
      /\ Bare(r) => x.ready = <<>>
  BY StopType DEF Between
<1> HIDE DEF x
<1>2. ASSUME Orderly(x) PROVE Sequential(x) /\ Ledger(x, f)
  <2>1. r \in Link /\ Bare(r) /\ Clean(r) /\ Resting(r) /\ Ledger(r, f)
    BY <1>1, <1>2 DEF Orderly, Between
  <2>2. x.ready = <<>> /\ Paid(r, f)
    BY <1>1, <2>1 DEF Ledger
  <2>3. x.parser = "stuck" \/ (x.parser = "clean" /\ x.json = <<>>)
    BY <1>1, <2>1 DEF Clean, Link
  <2>4. Jsons(x) = <<>> /\ Held(x) = <<>> /\ Clean(x) /\ Partly(x, f)
    BY <2>2, <2>3 DEF Jsons, Held, Clean, Partly
  <2>5. Unanswered(x) = <<>>
    BY <1>1, <2>4, ConcatEmpty DEF Unanswered
  <2>6. Owed(x, f, <<>>)
    BY EmptyHas DEF Owed
  <2>7. Paid(x, f)
    BY <1>1, <2>2, PaidSame
  <2>8. Connecting(x)
    BY <1>1, <2>1, <2>2, <2>4 DEF Connecting, Resting
  <2> QED
    BY <2>4, <2>5, <2>6, <2>7, <2>8 DEF Sequential, Ledger
<1> QED
  BY <1>1, <1>2 DEF LinkOK, x

-----------------------------------------------------------------------------
(* What a handler starts from. *)

LEMMA RestType ==
    ASSUME Inv, link.ready # <<>>
    PROVE  /\ Rest \in Link /\ This \in Handler
           /\ Rest.open /\ Rest.batched = link.batched /\ Rest.forked = link.forked
           /\ Rest.parser = link.parser /\ Rest.json = link.json /\ Rest.dirty = link.dirty
           /\ Rest.buf = link.buf /\ Rest.endSend = link.endSend
           /\ Rest.tempC = link.tempC /\ Rest.tempA = link.tempA
           /\ Rest.peer = link.peer /\ Rest.no = link.no /\ Rest.in = link.in
           /\ Rest.log = link.log /\ Rest.twice = link.twice /\ Rest.dropped = link.dropped
           /\ Orderly(link) =>
                /\ Bare(Rest) /\ Clean(Rest) /\ Completed(link, This) /\ Held(link) = This.msgs
                /\ Owed(link, from, (Jsons(link) \o This.msgs) \o link.in)
                /\ Paid(Rest, from) /\ Partly(link, from)
<1> DEFINE t == Tail(link.ready)
<1>1. link \in Link /\ link.open /\ link.ready \in Seq(Handler)
  BY DEF Inv, LinkOK, Link
<1>2. t \in Seq(Handler) /\ This \in Handler /\ Rest = [link EXCEPT !.ready = t]
  BY <1>1, SingleSeq DEF This, Rest
<1>3. Len(link.ready) = 1 => t = <<>>
  BY <1>1, SingleSeq
<1> HIDE DEF t
<1>4. /\ Rest \in Link /\ Rest.ready = t
      /\ Rest.open /\ Rest.batched = link.batched /\ Rest.forked = link.forked
      /\ Rest.connecting = link.connecting /\ Rest.reads = link.reads
      /\ Rest.parser = link.parser /\ Rest.json = link.json /\ Rest.dirty = link.dirty
      /\ Rest.buf = link.buf /\ Rest.endSend = link.endSend
      /\ Rest.tempC = link.tempC /\ Rest.tempA = link.tempA
      /\ Rest.peer = link.peer /\ Rest.no = link.no /\ Rest.in = link.in
      /\ Rest.log = link.log /\ Rest.twice = link.twice /\ Rest.dropped = link.dropped
  BY <1>1, <1>2 DEF Link
<1>5. ASSUME Orderly(link)
      PROVE  /\ Bare(Rest) /\ Clean(Rest) /\ Completed(link, This) /\ Held(link) = This.msgs
             /\ Owed(link, from, (Jsons(link) \o This.msgs) \o link.in)
             /\ Paid(Rest, from) /\ Partly(link, from)
  <2>1. Sequential(link) /\ Ledger(link, from)
    BY <1>5 DEF Inv, LinkOK
  <2>2. Handling(link)
    BY <2>1 DEF Sequential, Connecting, Receiving
  <2>3. Bare(Rest) /\ Completed(link, This)
    BY <1>3, <1>4, <2>2 DEF Handling, Bare, This
  <2>4. Held(link) = This.msgs
    BY DEF Held, This
  <2>5. Clean(Rest)
    BY <1>4, <2>1 DEF Sequential, Clean
  <2>6. Paid(Rest, from)
    BY <1>4, <2>1, PaidSame DEF Ledger
  <2> QED
    BY <2>1, <2>3, <2>4, <2>5, <2>6 DEF Ledger, Unanswered
<1> QED
  BY <1>2, <1>4, <1>5

(* A handler that has read nothing.                                         *)
LEMMA RestBetween ==
    ASSUME Inv, link.ready # <<>>, Orderly(link) => This.msgs = <<>>
    PROVE  Between(Rest, from)
<1>1. Rest \in Link /\ Rest.open /\ (Orderly(Rest) <=> Orderly(link))
  BY RestType DEF Orderly
<1>2. ASSUME Orderly(link) PROVE Bare(Rest) /\ Clean(Rest) /\ Ledger(Rest, from)
  <2>1. /\ Bare(Rest) /\ Clean(Rest) /\ Paid(Rest, from)
        /\ Owed(link, from, (Jsons(link) \o <<>>) \o link.in)
    BY <1>2, RestType
  <2>2. Rest.in = link.in /\ Jsons(Rest) = Jsons(link)
    BY RestType DEF Jsons
  <2>3. Owed(link, from, Jsons(Rest) \o Rest.in)
    BY <1>1, <2>1, <2>2, BareFacts, ConcatEmpty
  <2> DEFINE u == Jsons(Rest) \o Rest.in
  <2>4. Owed(link, from, u) /\ Fewer(u, u)
    BY <2>3, FewerParts
  <2> HIDE DEF u
  <2>5. Owed(Rest, from, u)
    BY <2>4, RestType, OwedLess
  <2> QED
    BY <1>1, <2>1, <2>5, BareLedger DEF u
<1> QED
  BY <1>1, <1>2 DEF Between

-----------------------------------------------------------------------------
(* What a receive has read. *)

LEMMA ParsedType ==
    ASSUME Inv, link.ready # <<>>, NEW p \in Leaves
    PROVE  /\ Parsed(p) \in Link /\ Parsed(p).open
           /\ Parsed(p).batched = link.batched /\ Parsed(p).forked = link.forked
           /\ Parsed(p).connecting = Rest.connecting /\ Parsed(p).reads = Rest.reads
           /\ Parsed(p).ready = Rest.ready /\ Parsed(p).buf = link.buf
           /\ Parsed(p).tempC = link.tempC /\ Parsed(p).tempA = link.tempA
           /\ Parsed(p).peer = link.peer /\ Parsed(p).no = link.no /\ Parsed(p).in = link.in
           /\ Parsed(p).log = link.log /\ Parsed(p).twice = link.twice
           /\ link.parser = "stuck" => Parsed(p).parser = "stuck"
           /\ link.parser # "stuck" =>
                /\ Parsed(p).json = link.json \o This.msgs
                /\ ~ This.cut => Parsed(p).parser = "clean"
                /\ This.cut => Parsed(p).parser \in {"stuck", "half"}
<1>1. /\ Rest \in Link /\ This \in Handler
      /\ Rest.open /\ Rest.batched = link.batched /\ Rest.forked = link.forked
      /\ Rest.parser = link.parser /\ Rest.json = link.json
      /\ Rest.buf = link.buf
      /\ Rest.tempC = link.tempC /\ Rest.tempA = link.tempA
      /\ Rest.peer = link.peer /\ Rest.no = link.no /\ Rest.in = link.in
      /\ Rest.log = link.log /\ Rest.twice = link.twice
  BY RestType
<1> DEFINE d == Rest.dropped \cup Ids(This.msgs)
           q == Rest.json \o This.msgs
<1>2. d \in SUBSET Requests
  BY <1>1 DEF Link, Ids
<1>3. q \in Seq(Msg)
  BY <1>1, ConcatProperties DEF Link, Handler
<1>4. /\ p \in {"clean", "half", "stuck"}
      /\ link.parser # "stuck" => (~ This.cut => p = "clean") /\ (This.cut => p # "clean")
  <2>1. This.cut \in BOOLEAN
    BY <1>1 DEF Handler
  <2> QED
    BY <2>1 DEF Leaves
<1>5. \/ link.parser = "stuck" /\ Parsed(p) = [Rest EXCEPT !.dirty = FALSE, !.dropped = d]
      \/ link.parser # "stuck"
         /\ Parsed(p) = [Rest EXCEPT !.dirty = FALSE, !.json = q, !.parser = p]
  BY DEF Parsed
<1> DEFINE x == Parsed(p)
           g == Rest
<1>6. q = link.json \o This.msgs
  BY <1>1
<1>7. \/ link.parser = "stuck" /\ x = [g EXCEPT !.dirty = FALSE, !.dropped = d]
      \/ link.parser # "stuck" /\ x = [g EXCEPT !.dirty = FALSE, !.json = q, !.parser = p]
  BY <1>5
<1>8. g \in Link /\ g.parser = link.parser
  BY <1>1
<1> HIDE DEF d, q, x, g
<1>9. /\ x \in Link
      /\ x.open = g.open /\ x.batched = g.batched /\ x.forked = g.forked
      /\ x.connecting = g.connecting /\ x.reads = g.reads
      /\ x.ready = g.ready /\ x.buf = g.buf
      /\ x.tempC = g.tempC /\ x.tempA = g.tempA
      /\ x.peer = g.peer /\ x.no = g.no /\ x.in = g.in
      /\ x.log = g.log /\ x.twice = g.twice
      /\ link.parser = "stuck" => x.parser = "stuck"
      /\ link.parser # "stuck" => x.json = q /\ x.parser = p
  <2>1. CASE link.parser = "stuck" /\ x = [g EXCEPT !.dirty = FALSE, !.dropped = d]
    BY <1>2, <1>8, <2>1 DEF Link
  <2>2. CASE /\ link.parser # "stuck"
             /\ x = [g EXCEPT !.dirty = FALSE, !.json = q, !.parser = p]
    BY <1>3, <1>4, <1>8, <2>2 DEF Link
  <2> QED
    BY <1>7, <2>1, <2>2
<1> QED
  BY <1>1, <1>4, <1>6, <1>9 DEF x, g

(* Nothing is lost from the ledger while a text is not complete.            *)
LEMMA ParsedOrderly ==
    ASSUME Inv, link.ready # <<>>, This.op \in Receives, This.ok, Orderly(link),
           NEW p \in Leaves
    PROVE  /\ Bare(Parsed(p)) /\ Resting(Parsed(p)) /\ Paid(Parsed(p), from)
           /\ Complete => Parsed(p).json # <<>> /\ Owed(Parsed(p), from, Parsed(p).json \o Parsed(p).in)
           /\ ~ Complete => Clean(Parsed(p)) /\ Ledger(Parsed(p), from)
<1> DEFINE x == Parsed(p)
           v == Jsons(link) \o This.msgs
           u == v \o link.in
<1>1. /\ x \in Link /\ x.open
      /\ x.batched = link.batched /\ x.forked = link.forked
      /\ x.connecting = Rest.connecting /\ x.reads = Rest.reads
      /\ x.ready = Rest.ready /\ x.buf = link.buf
      /\ x.tempC = link.tempC /\ x.tempA = link.tempA
      /\ x.peer = link.peer /\ x.no = link.no /\ x.in = link.in
      /\ x.log = link.log /\ x.twice = link.twice
      /\ link.parser = "stuck" => x.parser = "stuck"
      /\ link.parser # "stuck" =>
           /\ x.json = link.json \o This.msgs
           /\ ~ This.cut => x.parser = "clean"
           /\ This.cut => x.parser \in {"stuck", "half"}
  BY ParsedType
<1> HIDE DEF x
<1>2. /\ Bare(Rest) /\ Completed(link, This) /\ Paid(Rest, from) /\ Owed(link, from, u)
      /\ This \in Handler
  BY RestType
<1>3. Bare(x) /\ Resting(x)
  BY <1>1, <1>2 DEF Bare, Resting, Completed
<1>4. Paid(x, from)
  <2>1. /\ Rest.buf = link.buf /\ Rest.peer = link.peer /\ Rest.no = link.no
        /\ Rest.log = link.log /\ Rest.twice = link.twice
    BY RestType
  <2> QED
    BY <1>1, <1>2, <2>1, PaidSame
<1>5. v \in Seq(Msg) /\ link.in \in Seq(Msg) /\ This.msgs \in Seq(Msg) /\ link.json \in Seq(Msg)
  <2>1. link.in \in Seq(Msg) /\ link.json \in Seq(Msg) /\ This.msgs \in Seq(Msg)
    BY <1>2 DEF Inv, LinkOK, Link, Handler
  <2>2. Jsons(link) \in Seq(Msg)
    BY <2>1 DEF Jsons
  <2> QED
    BY <2>1, <2>2, ConcatProperties
<1>6. link.parser # "stuck" => v = x.json
  BY <1>1 DEF Jsons
<1> HIDE DEF v
<1>7. Fewer(u, u) /\ Fewer(link.in, u)
  BY <1>5, FewerParts, FewerConcat
<1> HIDE DEF u
<1>8. Owed(x, from, u) /\ Owed(x, from, x.in)
  BY <1>1, <1>2, <1>7, OwedLess
<1>9. ASSUME Complete PROVE x.json # <<>> /\ Owed(x, from, x.json \o x.in)
  <2>1. link.parser # "stuck" /\ ~ This.cut /\ This.msgs # <<>>
    BY <1>2, <1>9 DEF Complete, Completed
  <2>2. x.json = link.json \o This.msgs
    BY <1>1, <2>1
  <2>3. x.json # <<>>
    BY <1>5, <2>1, <2>2, ConcatEqualIffEmpty, ConcatProperties, EmptySeq
  <2> QED
    BY <1>1, <1>6, <1>8, <2>1, <2>3 DEF u
<1>10. ASSUME ~ Complete PROVE Clean(x) /\ Ledger(x, from)
  <2>1. x.parser \in {"stuck", "half"}
    BY <1>1, <1>10 DEF Complete
  <2>2. Clean(x)
    BY <2>1 DEF Clean
  <2>3. Owed(x, from, Jsons(x) \o x.in)
    <3>1. CASE x.parser = "stuck"
      <4>1. Jsons(x) = <<>>
        BY <3>1 DEF Jsons
      <4>2. <<>> \o x.in = x.in
        BY <1>1, <1>5, ConcatEmpty
      <4> QED
        BY <1>8, <4>1, <4>2
    <3>2. CASE x.parser = "half"
      <4>1. Jsons(x) = x.json /\ link.parser # "stuck"
        BY <1>1, <3>2 DEF Jsons
      <4> QED
        BY <1>1, <1>6, <1>8, <4>1 DEF u
    <3> QED
      BY <2>1, <3>1, <3>2
  <2> QED
    BY <1>1, <1>3, <1>4, <2>2, <2>3, BareLedger
<1> QED
  BY <1>3, <1>4, <1>9, <1>10 DEF x

LEMMA CleanLeft == ASSUME Complete PROVE "clean" \in Leaves
BY DEF Complete, Leaves

(* When the parsed messages have been taken, what is owed is what is still  *)
(* in the connection; a single message taken is none of that.               *)
LEMMA Emptied ==
    ASSUME Inv, link.ready # <<>>, This.op \in Receives, This.ok, Complete,
           NEW d \in SUBSET Requests, NEW r, r = [Parsed("clean") EXCEPT !.json = <<>>, !.dropped = d]
    PROVE  /\ Between(r, from)
           /\ Orderly(r) <=> Orderly(link)
           /\ Orderly(r) =>
                /\ Resting(r) /\ Jsons(r) = <<>> /\ Parsed("clean").json # <<>>
                /\ Len(Parsed("clean").json) = 1 => \A id \in Requests : Parsed("clean").json[1] = Request(id) =>
                      Open(r, from, id) /\ ~ Has(r.in, Request(id))
<1> DEFINE x == Parsed("clean")
<1>1. x \in Link /\ x.open /\ x.batched = link.batched /\ x.forked = link.forked
  BY CleanLeft, ParsedType
<1>2. Orderly(link) => /\ Bare(x) /\ Resting(x) /\ Paid(x, from)
                       /\ x.json # <<>> /\ Owed(x, from, x.json \o x.in)
  BY CleanLeft, ParsedOrderly
<1>3. r = [x EXCEPT !.json = <<>>, !.dropped = d]
  OBVIOUS
<1> HIDE DEF x
<1>4. r \in Link
  <2>1. <<>> \in Seq(Msg)
    OBVIOUS
  <2> QED
    BY <1>1, <1>3, <2>1 DEF Link
<1>5. /\ r.open /\ r.batched = x.batched /\ r.forked = x.forked
      /\ r.connecting = x.connecting /\ r.reads = x.reads /\ r.ready = x.ready
      /\ r.json = <<>> /\ r.buf = x.buf /\ r.tempC = x.tempC /\ r.tempA = x.tempA
      /\ r.peer = x.peer /\ r.no = x.no /\ r.in = x.in /\ r.log = x.log /\ r.twice = x.twice
  BY <1>1, <1>3 DEF Link
<1>6. Orderly(r) <=> Orderly(link)
  BY <1>1, <1>5 DEF Orderly
<1>7. ASSUME Orderly(r)
      PROVE  /\ Bare(r) /\ Clean(r) /\ Ledger(r, from)
             /\ Resting(r) /\ Jsons(r) = <<>> /\ x.json # <<>>
             /\ Len(x.json) = 1 => \A id \in Requests : x.json[1] = Request(id) =>
                   Open(r, from, id) /\ ~ Has(r.in, Request(id))
  <2>1. /\ Bare(x) /\ Resting(x) /\ Paid(x, from)
        /\ x.json # <<>> /\ Owed(x, from, x.json \o x.in)
    BY <1>2, <1>6, <1>7
  <2>2. Bare(r) /\ Clean(r) /\ Resting(r) /\ Jsons(r) = <<>>
    BY <1>5, <2>1 DEF Bare, Clean, Resting, Jsons
  <2>3. x.json \in Seq(Msg) /\ x.in \in Seq(Msg)
    BY <1>1 DEF Link
  <2> DEFINE u == x.json \o x.in
  <2>4. /\ Fewer(x.in, u)
        /\ \A y : Has(x.json, y) \/ Has(x.in, y) => Has(u, y)
        /\ \A y : Once(u, y) => ~ (Has(x.json, y) /\ Has(x.in, y))
    <3>1. Fewer(x.in, u)
      BY <2>3, FewerConcat
    <3> DEFINE q == x.json
               w == x.in
    <3>2. q \in Seq(Msg) /\ w \in Seq(Msg) /\ u = q \o w
      BY <2>3
    <3> HIDE DEF q, w, u
    <3>3. /\ \A y : Has(q, y) \/ Has(w, y) => Has(u, y)
          /\ \A y : Once(u, y) => Once(q, y) /\ Once(w, y) /\ ~ (Has(q, y) /\ Has(w, y))
      BY <3>2, ConcatHas
    <3> QED
      BY <3>1, <3>3 DEF q, w
  <2> HIDE DEF u
  <2>5. Owed(x, from, u)
    BY <2>1 DEF u
  <2>6. Owed(r, from, r.in) /\ Paid(r, from)
    BY <1>5, <2>1, <2>4, <2>5, OwedLess, PaidSame
  <2>7. Ledger(r, from)
    <3>1. <<>> \o r.in = r.in
      BY <1>5, <2>3, ConcatEmpty
    <3> QED
      BY <1>4, <2>2, <2>6, <3>1, BareLedger
  <2>8. ASSUME Len(x.json) = 1, NEW id \in Requests, x.json[1] = Request(id)
        PROVE  Open(r, from, id) /\ ~ Has(r.in, Request(id))
    <3>1. Has(x.json, Request(id))
      BY <2>3, <2>8, SingleSeq
    <3>2. Has(u, Request(id))
      BY <2>4, <3>1
    <3>3. Open(x, from, id) /\ Once(u, Request(id))
      BY <2>5, <3>2 DEF Owed
    <3>4. ~ Has(x.in, Request(id))
      BY <2>4, <3>1, <3>3
    <3> QED
      BY <1>5, <3>3, <3>4 DEF Open, Answered
  <2> QED
    BY <2>1, <2>2, <2>7, <2>8
<1> QED
  BY <1>4, <1>5, <1>6, <1>7 DEF Between, x

-----------------------------------------------------------------------------
(* One turn of the loop that answers. *)

LEMMA ReplyType ==
    ASSUME NEW r \in Link, NEW m \in Msg
    PROVE  /\ Reply(r, m) \in Msg
           /\ \A id \in Requests : Reply(r, m) = Static(id) => m = Request(id) \/ r.buf = Static(id)
<1>1. CASE m.kind = "ping"
  <2>1. Reply(r, m) = M("pong") /\ "pong" \in Kinds
    BY <1>1 DEF Reply, Kinds
  <2> QED
    BY <2>1, MsgFacts
<1>2. CASE m.kind = "request"
  <2>1. Reply(r, m) = Static(m.id) /\ m.id \in Requests /\ m = Request(m.id)
    BY <1>2, MsgFacts DEF Reply
  <2> QED
    BY <2>1, MsgFacts
<1>3. CASE m.kind # "ping" /\ m.kind # "request"
  <2>1. Reply(r, m) = r.buf
    BY <1>3 DEF Reply
  <2> QED
    BY <2>1 DEF Link
<1> QED
  BY <1>1, <1>2, <1>3

(* The two ways of a turn: a send, or an exception and a receive.           *)
TurnGives(r, m, last, e, b, d, x) ==
    /\ e = (r.endSend \/ last)
    /\ \/ /\ b = (r.batched \/ SendQueued(r))
          /\ x \in AsyncSends([r EXCEPT !.buf = Reply(r, m), !.endSend = e,
                                        !.batched = b], "reciveAnswer", 0)
       \/ /\ b = (r.forked \/ ~ last \/ SendQueued(r))
          /\ x = AsyncReceive([r EXCEPT !.dropped = d, !.forked = b], "sendResponse")

LEMMA TurnCases ==
    ASSUME NEW r \in Link, r.open, NEW m \in Msg, NEW last \in BOOLEAN,
           NEW x \in AnswerOne(r, m, last)
    PROVE  \E e \in BOOLEAN, b \in BOOLEAN, d \in SUBSET Requests :
              TurnGives(r, m, last, e, b, d, x)
<1> DEFINE e == r.endSend \/ last
           b1 == r.batched \/ SendQueued(r)
           b2 == r.forked \/ ~ last \/ SendQueued(r)
           d == r.dropped \cup {m.id}
<1>1. e \in BOOLEAN /\ b1 \in BOOLEAN /\ b2 \in BOOLEAN
  OBVIOUS
<1>2. x \in AsyncSends([r EXCEPT !.buf = Reply(r, m), !.endSend = @ \/ last,
                                 !.batched = @ \/ SendQueued(r)], "reciveAnswer", 0)
          \cup (IF m.kind # "request" THEN {}
                ELSE {AsyncReceive([r EXCEPT !.dropped = @ \cup {m.id},
                                             !.forked = @ \/ ~ last \/ SendQueued(r)],
                                   "sendResponse")})
  BY DEF AnswerOne
<1>3. \/ x \in AsyncSends([r EXCEPT !.buf = Reply(r, m), !.endSend = e, !.batched = b1],
                          "reciveAnswer", 0)
      \/ m.kind = "request"
         /\ x = AsyncReceive([r EXCEPT !.dropped = d, !.forked = b2], "sendResponse")
  BY <1>2
<1>4. m.kind = "request" => d \in SUBSET Requests
  BY MsgFacts DEF Link
<1>5. {} \in SUBSET Requests
  OBVIOUS
<1> HIDE DEF e, b1, b2, d
<1> QED
  BY <1>1, <1>3, <1>4, <1>5, Zenon DEF TurnGives, e, b1, b2

LEMMA TurnType ==
    ASSUME NEW r \in Link, r.open, NEW m \in Msg, NEW last \in BOOLEAN,
           NEW x \in AnswerOne(r, m, last)
    PROVE  /\ x \in Link /\ x.open
           /\ Orderly(x) => Orderly(r) /\ ~ SendQueued(r)
           /\ ~ last => SendQueued(x) \/ x.forked
<1>1. PICK e \in BOOLEAN, b \in BOOLEAN, d \in SUBSET Requests :
              TurnGives(r, m, last, e, b, d, x)
  BY TurnCases
<1>2. CASE /\ b = (r.batched \/ SendQueued(r))
           /\ x \in AsyncSends([r EXCEPT !.buf = Reply(r, m), !.endSend = e,
                                         !.batched = b], "reciveAnswer", 0)
  <2> DEFINE s == [r EXCEPT !.buf = Reply(r, m), !.endSend = e, !.batched = b]
  <2>1. Reply(r, m) \in Msg
    BY ReplyType
  <2>2. s \in Link /\ s.open /\ s.batched = b /\ s.forked = r.forked
    BY <2>1 DEF Link
  <2>3. x \in AsyncSends(s, "reciveAnswer", 0)
    BY <1>2
  <2> HIDE DEF s
  <2>4. "reciveAnswer" \in Sends
    BY DEF Sends
  <2>5. x \in Link /\ x.open /\ x.batched = b /\ x.forked = r.forked /\ SendQueued(x)
    BY <2>2, <2>3, <2>4, SendType
  <2> QED
    BY <1>2, <2>5 DEF Orderly
<1>3. CASE /\ b = (r.forked \/ ~ last \/ SendQueued(r))
           /\ x = AsyncReceive([r EXCEPT !.dropped = d, !.forked = b], "sendResponse")
  <2> DEFINE s == [r EXCEPT !.dropped = d, !.forked = b]
  <2>1. s \in Link /\ s.open /\ s.batched = r.batched /\ s.forked = b
    BY DEF Link
  <2>2. x = AsyncReceive(s, "sendResponse")
    BY <1>3
  <2> HIDE DEF s
  <2>3. "sendResponse" \in Receives
    BY DEF Receives
  <2>4. x \in Link /\ x.open /\ x.batched = r.batched /\ x.forked = b
    BY <2>1, <2>2, <2>3, ReceiveType
  <2> QED
    BY <1>3, <2>4 DEF Orderly
<1> QED
  BY <1>1, <1>2, <1>3 DEF TurnGives

(* The only message of a queue is answered, or its exception leaves the     *)
(* link reading.                                                            *)
LEMMA TurnStep ==
    ASSUME NEW r, NEW f, Between(r, f), NEW m \in Msg, NEW x \in AnswerOne(r, m, TRUE),
           Orderly(r) => /\ Resting(r) /\ Jsons(r) = <<>>
                         /\ \A id \in Requests : m = Request(id) =>
                               Open(r, f, id) /\ ~ Has(r.in, Request(id))
    PROVE  LinkOK(x, f)
<1>1. r \in Link /\ r.open
  BY DEF Between
<1>2. PICK e \in BOOLEAN, b \in BOOLEAN, d \in SUBSET Requests :
              TurnGives(r, m, TRUE, e, b, d, x)
  BY <1>1, TurnCases
<1>3. e = TRUE
  BY <1>2 DEF TurnGives
<1>4. CASE /\ b = (r.batched \/ SendQueued(r))
           /\ x \in AsyncSends([r EXCEPT !.buf = Reply(r, m), !.endSend = e,
                                         !.batched = b], "reciveAnswer", 0)
  <2> DEFINE a == Reply(r, m)
             s == [r EXCEPT !.buf = a, !.endSend = e, !.batched = b]
  <2>1. a \in Msg /\ \A id \in Requests : a = Static(id) => m = Request(id) \/ r.buf = Static(id)
    BY <1>1, ReplyType
  <2>2. x \in AsyncSends(s, "reciveAnswer", 0)
    BY <1>4
  <2> HIDE DEF a
  <2>3. /\ s \in Link /\ s.open /\ s.batched = b /\ s.forked = r.forked
        /\ s.buf = a /\ s.endSend = e /\ s.connecting = r.connecting /\ s.reads = r.reads
        /\ s.ready = r.ready /\ s.parser = r.parser /\ s.json = r.json /\ s.tempC = r.tempC
        /\ s.tempA = r.tempA /\ s.peer = r.peer /\ s.no = r.no /\ s.in = r.in
        /\ s.log = r.log /\ s.twice = r.twice
    BY <1>1, <2>1 DEF Link
  <2> HIDE DEF s
  <2>4. "reciveAnswer" \in Sends
    BY DEF Sends
  <2>5. ASSUME Orderly(s) PROVE Bare(s) /\ Clean(s) /\ Ledger(s, f) /\ Fit(s, "reciveAnswer", 0, f)
    <3>1. Orderly(r)
      BY <1>4, <2>3, <2>5 DEF Orderly
    <3>2. /\ Bare(r) /\ Clean(r) /\ Ledger(r, f) /\ Resting(r) /\ Jsons(r) = <<>>
          /\ \A id \in Requests : m = Request(id) =>
                Open(r, f, id) /\ ~ Has(r.in, Request(id))
      BY <3>1 DEF Between
    <3>3. Bare(s) /\ Clean(s) /\ Jsons(s) = <<>>
      BY <2>3, <3>2 DEF Bare, Clean, Jsons
    <3>4. \A id \in Requests : a = Static(id) => Open(r, f, id) /\ ~ Has(r.in, Request(id))
      <4>1. "none" \in Kinds
        BY DEF Kinds
      <4>2. \A id \in Requests : r.buf # Static(id)
        BY <3>2, <4>1, MsgFacts DEF Resting
      <4> QED
        BY <2>1, <3>2, <4>2
    <3>5. <<>> \o r.in = r.in
      BY <1>1, ConcatEmpty DEF Link
    <3>6. Owed(r, f, r.in) /\ Paid(r, f)
      BY <1>1, <3>2, <3>5, BareLedger
    <3>7. Owed(s, f, s.in)
      BY <2>3, <3>4, <3>6 DEF Owed, Open, Answered
    <3>8. Paid(s, f)
      BY <2>3, <3>4, <3>6 DEF Paid, Open
    <3>9. Ledger(s, f)
      BY <2>3, <3>3, <3>5, <3>7, <3>8, BareLedger
    <3>10. Fit(s, "reciveAnswer", 0, f)
      <4>1. \A id \in Requests : s.buf = Static(id) => Open(s, f, id)
        BY <2>3, <3>4 DEF Open, Answered
      <4>2. s.endSend /\ s.tempC = 0 /\ s.tempA = 0
        BY <1>3, <2>3, <3>2 DEF Resting
      <4>3. 0 <= Size(s.buf)
        BY <2>1, <2>3, SizeType
      <4> QED
        BY <3>3, <4>1, <4>2, <4>3 DEF Fit, Counter
    <3> QED
      BY <3>3, <3>9, <3>10
  <2> QED
    BY <2>2, <2>3, <2>4, <2>5, SendStep DEF Between
<1>5. CASE /\ b = (r.forked \/ ~ TRUE \/ SendQueued(r))
           /\ x = AsyncReceive([r EXCEPT !.dropped = d, !.forked = b], "sendResponse")
  <2> DEFINE s == [r EXCEPT !.dropped = d, !.forked = b]
  <2>1. /\ s \in Link /\ s.open /\ s.batched = r.batched /\ s.forked = b
        /\ s.buf = r.buf /\ s.connecting = r.connecting /\ s.reads = r.reads
        /\ s.ready = r.ready /\ s.parser = r.parser /\ s.json = r.json /\ s.tempC = r.tempC
        /\ s.tempA = r.tempA /\ s.peer = r.peer /\ s.no = r.no /\ s.in = r.in
        /\ s.log = r.log /\ s.twice = r.twice
    BY <1>1 DEF Link
  <2>2. x = AsyncReceive(s, "sendResponse")
    BY <1>5
  <2> HIDE DEF s
  <2>3. "sendResponse" \in Receives
    BY DEF Receives
  <2>4. ASSUME Orderly(s) PROVE Bare(s) /\ Clean(s) /\ Ledger(s, f) /\ Resting(s)
    <3>1. Orderly(r)
      BY <1>5, <2>1, <2>4 DEF Orderly
    <3>2. Bare(r) /\ Clean(r) /\ Ledger(r, f) /\ Resting(r)
      BY <3>1 DEF Between
    <3>3. Bare(s) /\ Clean(s) /\ Resting(s) /\ Jsons(s) = Jsons(r)
      BY <2>1, <3>2 DEF Bare, Clean, Resting, Jsons
    <3>4. Ledger(s, f)
      BY <1>1, <2>1, <3>2, <3>3, BareChanged
    <3> QED
      BY <3>3, <3>4
  <2> QED
    BY <2>1, <2>2, <2>3, <2>4, ReceiveStep DEF Between
<1> QED
  BY <1>2, <1>4, <1>5 DEF TurnGives

-----------------------------------------------------------------------------
(* All turns of the loop. *)

Turns(S, msgs, i) == UNION {AnswerOne(r, msgs[i], i = Len(msgs)) : r \in S}
IsAfter(g, r0, msgs, k) ==
    g = [i \in 0..k |-> IF i = 0 THEN {r0} ELSE Turns(g[i - 1], msgs, i)]

LEMMA AfterFacts ==
    ASSUME NEW g, NEW r0, NEW msgs, NEW k \in Nat, IsAfter(g, r0, msgs, k)
    PROVE  /\ g[0] = {r0}
           /\ \A i \in 1..k : g[i] = Turns(g[i - 1], msgs, i)
<1>1. 0 \in 0..k /\ \A i \in 1..k : i \in 0..k /\ i # 0
  OBVIOUS
<1>2. \A i \in 0..k : g[i] = IF i = 0 THEN {r0} ELSE Turns(g[i - 1], msgs, i)
  BY Zenon DEF IsAfter
<1> QED
  BY <1>1, <1>2

LEMMA AfterExists ==
    ASSUME NEW r0, NEW msgs
    PROVE  \A k \in Nat : \E g : IsAfter(g, r0, msgs, k)
<1> DEFINE S == {k \in Nat : \E g : IsAfter(g, r0, msgs, k)}
<1>1. 0 \in S
  <2> DEFINE g == [i \in 0..0 |-> {r0}]
  <2>1. g = [i \in 0..0 |-> IF i = 0 THEN {r0} ELSE Turns(g[i - 1], msgs, i)]
    <3>1. \A i \in 0..0 : i = 0
      OBVIOUS
    <3> QED
      BY <3>1
  <2> HIDE DEF g
  <2>2. IsAfter(g, r0, msgs, 0)
    BY <2>1, Zenon DEF IsAfter
  <2> QED
    BY <2>2
<1>2. ASSUME NEW k \in S PROVE k + 1 \in S
  <2>1. k \in Nat
    OBVIOUS
  <2>2. PICK g : IsAfter(g, r0, msgs, k)
    OBVIOUS
  <2> DEFINE last == Turns(g[k], msgs, k + 1)
             h == [i \in 0..(k + 1) |-> IF i = k + 1 THEN last ELSE g[i]]
  <2>3. g[0] = {r0} /\ \A i \in 1..k : g[i] = Turns(g[i - 1], msgs, i)
    BY <2>1, <2>2, AfterFacts
  <2> HIDE DEF last
  <2>4. \A i \in 0..(k + 1) : h[i] = IF i = k + 1 THEN last ELSE g[i]
    OBVIOUS
  <2>5. h = [i \in 0..(k + 1) |-> h[i]]
    OBVIOUS
  <2> HIDE DEF h
  <2>6. \A i \in 0..(k + 1) : h[i] = IF i = 0 THEN {r0} ELSE Turns(h[i - 1], msgs, i)
    <3> SUFFICES ASSUME NEW i \in 0..(k + 1)
                 PROVE  h[i] = IF i = 0 THEN {r0} ELSE Turns(h[i - 1], msgs, i)
      OBVIOUS
    <3>1. CASE i = 0
      BY <2>1, <2>3, <2>4, <3>1
    <3>2. CASE i = k + 1
      <4>1. i # 0 /\ i - 1 = k /\ k \in 0..(k + 1) /\ k # k + 1
        BY <2>1, <3>2
      <4>2. h[i] = last /\ h[i - 1] = g[k]
        BY <2>4, <3>2, <4>1
      <4> QED
        BY <3>2, <4>1, <4>2 DEF last
    <3>3. CASE i # 0 /\ i # k + 1
      <4>1. i \in 1..k /\ i - 1 \in 0..(k + 1) /\ i - 1 # k + 1
        BY <2>1, <3>3
      <4>2. h[i] = g[i] /\ h[i - 1] = g[i - 1]
        BY <2>4, <3>3, <4>1
      <4> QED
        BY <2>3, <3>3, <4>1, <4>2
    <3> QED
      BY <3>1, <3>2, <3>3
  <2>7. IsAfter(h, r0, msgs, k + 1)
    BY <2>5, <2>6, Zenon DEF IsAfter
  <2> QED
    BY <2>1, <2>7
<1> HIDE DEF S
<1>3. S \in SUBSET Nat
  BY DEF S
<1>4. S = Nat
  BY <1>1, <1>2, <1>3, SetInduction
<1> QED
  BY <1>4 DEF S

LEMMA ResponsesAre ==
    ASSUME NEW r0, NEW msgs, Len(msgs) \in Nat
    PROVE  \E g : IsAfter(g, r0, msgs, Len(msgs)) /\ Responses(r0, msgs) = g[Len(msgs)]
<1> DEFINE g == CHOOSE a : IsAfter(a, r0, msgs, Len(msgs))
<1>1. Responses(r0, msgs) = g[Len(msgs)]
  BY Zenon DEF Responses, IsAfter, Turns
<1>2. \E a : IsAfter(a, r0, msgs, Len(msgs))
  BY AfterExists
<1>3. IsAfter(g, r0, msgs, Len(msgs))
  BY <1>2
<1> QED
  BY <1>1, <1>3

(* Whatever becomes of the messages: two of them are answered on top of     *)
(* each other, or the first has thrown.                                     *)
LEMMA ResponsesType ==
    ASSUME NEW r0 \in Link, r0.open, NEW msgs \in Seq(Msg), NEW x \in Responses(r0, msgs)
    PROVE  /\ x \in Link /\ x.open
           /\ Orderly(x) => Orderly(r0) /\ Len(msgs) <= 1
           /\ Len(msgs) = 1 => x \in AnswerOne(r0, msgs[1], TRUE)
<1> DEFINE n == Len(msgs)
<1>1. n \in Nat /\ \A i \in 1..n : msgs[i] \in Msg
  BY LenProperties, ElementOfSeq
<1>2. PICK g : IsAfter(g, r0, msgs, n) /\ Responses(r0, msgs) = g[n]
  BY <1>1, ResponsesAre
<1>3. g[0] = {r0} /\ \A i \in 1..n : g[i] = Turns(g[i - 1], msgs, i)
  BY <1>1, <1>2, AfterFacts
<1> DEFINE Sound(i, r) == /\ r \in Link /\ r.open
                          /\ Orderly(r) => Orderly(r0) /\ i <= 1
                          /\ 1 <= i /\ i < n => SendQueued(r) \/ r.forked
           S == {i \in Nat : i <= n => \A r \in g[i] : Sound(i, r)}
<1>4. 0 \in S
  BY <1>3
<1>5. ASSUME NEW i \in S PROVE i + 1 \in S
  <2> SUFFICES ASSUME i + 1 <= n, NEW r \in g[i + 1] PROVE Sound(i + 1, r)
    OBVIOUS
  <2>1. i \in Nat /\ i <= n /\ i + 1 \in 1..n /\ (i + 1) - 1 = i
    BY <1>1
  <2>2. r \in Turns(g[i], msgs, i + 1)
    BY <1>3, <2>1
  <2>3. PICK s \in g[i] : r \in AnswerOne(s, msgs[i + 1], i + 1 = n)
    BY <2>2 DEF Turns
  <2>4. Sound(i, s) /\ msgs[i + 1] \in Msg
    BY <1>1, <2>1
  <2>5. PICK last \in BOOLEAN : last = (i + 1 = n)
    OBVIOUS
  <2>6. /\ r \in Link /\ r.open
        /\ Orderly(r) => Orderly(s) /\ ~ SendQueued(s)
        /\ ~ last => SendQueued(r) \/ r.forked
    BY <2>3, <2>4, <2>5, TurnType
  <2>7. Orderly(r) => i < 1
    BY <2>1, <2>4, <2>6 DEF Orderly
  <2>8. i + 1 < n => SendQueued(r) \/ r.forked
    <3>1. i + 1 < n => ~ (i + 1 = n)
      BY <1>1, <2>1
    <3>2. i + 1 < n => ~ last
      BY <2>5, <3>1, Zenon
    <3> QED
      BY <2>6, <3>2
  <2> QED
    BY <2>1, <2>4, <2>6, <2>7, <2>8
<1>6. S = Nat
  <2>1. S \in SUBSET Nat
    OBVIOUS
  <2> HIDE DEF S
  <2> QED
    BY <1>4, <1>5, <2>1, SetInduction
<1>7. Sound(n, x)
  BY <1>1, <1>2, <1>6
<1>8. ASSUME n = 1 PROVE x \in AnswerOne(r0, msgs[1], TRUE)
  <2>1. x \in Turns(g[0], msgs, 1)
    <3>1. 1 \in 1..n /\ 1 - 1 = 0 /\ x \in g[1]
      BY <1>2, <1>8
    <3>2. g[1] = Turns(g[1 - 1], msgs, 1)
      BY <1>3, <3>1
    <3> QED
      BY <3>1, <3>2
  <2>2. PICK s \in {r0} : x \in AnswerOne(s, msgs[1], 1 = Len(msgs))
    BY <1>3, <2>1 DEF Turns
  <2>3. (1 = Len(msgs)) = TRUE
    BY <1>8
  <2> QED
    BY <2>2, <2>3
<1> QED
  BY <1>7, <1>8

-----------------------------------------------------------------------------
(* The handlers. *)

LEMMA InvStep ==
    ASSUME Inv, LinkOK(link', from), Keep
    PROVE  Inv'
BY DEF Inv, Keep

LEMMA InvFacts ==
    ASSUME Inv
    PROVE  link \in Link /\ link.open
BY DEF Inv, LinkOK

LEMMA BetweenChanged ==
    ASSUME NEW r, NEW f, Between(r, f), NEW x \in Link, x.open = r.open,
           x.batched = r.batched, x.forked = r.forked,
           x.connecting = r.connecting, x.reads = r.reads, x.ready = r.ready,
           x.parser = r.parser, x.json = r.json, x.in = r.in, x.peer = r.peer,
           x.no = r.no, x.log = r.log, x.twice = r.twice,
           x.buf = r.buf \/ (\A id \in Requests : x.buf # Static(id))
    PROVE  Between(x, f) /\ (Orderly(x) <=> Orderly(r)) /\ Jsons(x) = Jsons(r)
<1>1. (Orderly(x) <=> Orderly(r)) /\ Jsons(x) = Jsons(r)
  BY DEF Orderly, Jsons
<1>2. ASSUME Orderly(x) PROVE Bare(x) /\ Clean(x) /\ Ledger(x, f)
  <2>1. r \in Link /\ Bare(r) /\ Clean(r) /\ Ledger(r, f)
    BY <1>1, <1>2 DEF Between
  <2>2. Bare(x) /\ Clean(x)
    BY <2>1 DEF Bare, Clean
  <2> QED
    BY <1>1, <2>1, <2>2, BareChanged
<1> QED
  BY <1>1, <1>2 DEF Between

LEMMA NoStatic ==
    \A kind \in {"none", "connect"} :
        M(kind) \in Msg /\ \A id \in Requests : M(kind) # Static(id)
BY MsgFacts DEF Kinds

(* While one thing is done at a time the counter never meets its bound.     *)
LEMMA TotalType ==
    ASSUME NEW temp \in Nat, This \in Handler
    PROVE  /\ Total(temp) \in Nat
           /\ \A z \in 0..2 : temp + This.n <= z => Total(temp) = temp + This.n
<1>1. This.n \in Nat
  BY DEF Handler
<1> QED
  BY <1>1, LinkAssumption DEF Total

LEMMA OnConnectInv == ASSUME Inv, OnConnect PROVE Inv'
<1>1. link.ready # <<>> /\ This.op = "sendConnect" /\ This.op \notin Receives
  BY DEF OnConnect, Due, This, Receives
<1>2. Orderly(link) => This.msgs = <<>> /\ Jsons(link) = <<>> /\ Resting(link)
  BY <1>1, RestType DEF Completed
<1>3. Between(Rest, from)
  BY <1>1, <1>2, RestBetween
<1>4. /\ Rest \in Link /\ (Orderly(Rest) <=> Orderly(link)) /\ Jsons(Rest) = Jsons(link)
      /\ Orderly(link) => Resting(Rest)
  BY <1>1, <1>2, RestType DEF Orderly, Resting, Jsons
<1>5. CASE This.ok
  <2> DEFINE g == Rest
             c == M("connect")
             r == [g EXCEPT !.buf = c]
  <2>1. link' \in AsyncSends(r, "reciveConnect", 0)
    BY <1>1, <1>5 DEF OnConnect
  <2>2. c \in Msg /\ \A id \in Requests : c # Static(id)
    BY NoStatic
  <2>3. g \in Link /\ Between(g, from)
    BY <1>3, <1>4
  <2>4. Orderly(g) => Jsons(g) = <<>> /\ Resting(g)
    BY <1>2, <1>4
  <2> HIDE DEF g, c
  <2>5. /\ r \in Link /\ r.open = g.open /\ r.buf = c
        /\ r.batched = g.batched /\ r.forked = g.forked
        /\ r.connecting = g.connecting /\ r.reads = g.reads /\ r.ready = g.ready
        /\ r.parser = g.parser /\ r.json = g.json /\ r.in = g.in /\ r.peer = g.peer
        /\ r.no = g.no /\ r.log = g.log /\ r.twice = g.twice
        /\ r.tempC = g.tempC /\ r.tempA = g.tempA
    BY <2>2, <2>3 DEF Link
  <2> HIDE DEF r
  <2>6. Between(r, from) /\ (Orderly(r) <=> Orderly(g)) /\ Jsons(r) = Jsons(g)
    BY <2>2, <2>3, <2>5, BetweenChanged
  <2>7. Orderly(r) => Fit(r, "reciveConnect", 0, from)
    <3>1. Size(r.buf) \in 0..2
      BY <2>2, <2>5, SizeType
    <3> QED
      BY <2>2, <2>4, <2>5, <2>6, <3>1 DEF Fit, Resting, Counter, c
  <2>8. "reciveConnect" \in Sends
    BY DEF Sends
  <2>9. LinkOK(link', from)
    BY <2>1, <2>6, <2>7, <2>8, SendStep
  <2> QED
    BY <2>9, InvStep DEF OnConnect
<1>6. CASE ~ This.ok
  <2>1. link' = ConnectToMS(Stop(Rest))
    BY <1>6 DEF OnConnect
  <2>2. LinkOK(link', from)
    BY <1>3, <1>4, <2>1, StopStep
  <2> QED
    BY <2>2, InvStep DEF OnConnect
<1> QED
  BY <1>5, <1>6

LEMMA OnConnectSentInv == ASSUME Inv, OnConnectSent PROVE Inv'
<1> DEFINE total == Total(link.tempC)
           g == Rest
<1>1. link.ready # <<>> /\ This.op = "reciveConnect" /\ This.op \notin Receives
  BY DEF OnConnectSent, Due, This, Receives
<1>2. Orderly(link) => /\ This.msgs = <<>> /\ Jsons(link) = <<>> /\ link.buf = M("connect")
                       /\ link.tempA = 0 /\ Written(link.tempC, This, link)
  BY <1>1, RestType DEF Completed
<1>3. Between(g, from)
  BY <1>1, <1>2, RestBetween
<1>4. /\ g \in Link /\ (Orderly(g) <=> Orderly(link)) /\ Jsons(g) = Jsons(link)
      /\ g.buf = link.buf /\ g.tempC = link.tempC /\ g.tempA = link.tempA /\ g.peer = link.peer
      /\ link.tempC \in Nat /\ This \in Handler
  BY <1>1, InvFacts, RestType DEF Orderly, Jsons, Link
<1>5. /\ total \in Nat
      /\ Orderly(link) /\ This.ok => total <= Size(link.buf) /\ Size(link.buf) \in 0..2
  <2>1. Size(link.buf) \in 0..2
    BY InvFacts, SizeType DEF Link
  <2> QED
    BY <1>2, <1>4, <2>1, TotalType DEF Written
<1>6. \A id \in Requests : M("connect") # Static(id)
  BY NoStatic
<1>7. "reciveConnect" \in Sends /\ "reciveCommand" \in Receives
  BY DEF Sends, Receives
<1>8. /\ \/ /\ ~ This.ok
            /\ link' \in AsyncSends(g, "reciveConnect", 0)
         \/ /\ This.ok /\ total # Size(link.buf)
            /\ link' \in AsyncSends([g EXCEPT !.tempC = total], "reciveConnect", total)
         \/ /\ This.ok /\ total = Size(link.buf)
            /\ link' = AsyncReceive([g EXCEPT !.tempC = 0, !.buf = M("none")], "reciveCommand")
      /\ Keep
  BY DEF OnConnectSent
<1> HIDE DEF total, g
<1>9. CASE ~ This.ok /\ link' \in AsyncSends(g, "reciveConnect", 0)
  <2>1. Orderly(g) => Fit(g, "reciveConnect", 0, from)
    <3>1. Size(g.buf) \in 0..2
      BY <1>4, SizeType DEF Link
    <3> QED
      BY <1>2, <1>4, <1>9, <3>1 DEF Fit, Written
  <2>2. LinkOK(link', from)
    BY <1>3, <1>7, <1>9, <2>1, SendStep
  <2> QED
    BY <1>8, <2>2, InvStep
<1>10. CASE /\ This.ok /\ total # Size(link.buf)
            /\ link' \in AsyncSends([g EXCEPT !.tempC = total], "reciveConnect", total)
  <2> DEFINE r == [g EXCEPT !.tempC = total]
  <2>1. link' \in AsyncSends(r, "reciveConnect", total)
    BY <1>10
  <2>2. /\ r \in Link /\ r.open = g.open /\ r.buf = g.buf
        /\ r.batched = g.batched /\ r.forked = g.forked
        /\ r.connecting = g.connecting /\ r.reads = g.reads /\ r.ready = g.ready
        /\ r.parser = g.parser /\ r.json = g.json /\ r.in = g.in /\ r.peer = g.peer
        /\ r.no = g.no /\ r.log = g.log /\ r.twice = g.twice
        /\ r.tempC = total /\ r.tempA = g.tempA
    BY <1>4, <1>5 DEF Link
  <2> HIDE DEF r
  <2>3. Between(r, from) /\ (Orderly(r) <=> Orderly(g)) /\ Jsons(r) = Jsons(g)
    BY <1>3, <2>2, BetweenChanged
  <2>4. Orderly(r) => Fit(r, "reciveConnect", total, from)
    BY <1>2, <1>4, <1>5, <1>6, <1>10, <2>2, <2>3 DEF Fit, Counter
  <2>5. LinkOK(link', from)
    BY <1>5, <1>7, <2>1, <2>3, <2>4, SendStep
  <2> QED
    BY <1>8, <2>5, InvStep
<1>11. CASE /\ This.ok /\ total = Size(link.buf)
            /\ link' = AsyncReceive([g EXCEPT !.tempC = 0, !.buf = M("none")], "reciveCommand")
  <2> DEFINE c == M("none")
             r == [g EXCEPT !.tempC = 0, !.buf = c]
  <2>1. link' = AsyncReceive(r, "reciveCommand")
    BY <1>11
  <2>2. c \in Msg /\ \A id \in Requests : c # Static(id)
    BY NoStatic
  <2> HIDE DEF c
  <2>3. /\ r \in Link /\ r.open = g.open /\ r.buf = c
        /\ r.batched = g.batched /\ r.forked = g.forked
        /\ r.connecting = g.connecting /\ r.reads = g.reads /\ r.ready = g.ready
        /\ r.parser = g.parser /\ r.json = g.json /\ r.in = g.in /\ r.peer = g.peer
        /\ r.no = g.no /\ r.log = g.log /\ r.twice = g.twice
        /\ r.tempC = 0 /\ r.tempA = g.tempA
    BY <1>4, <2>2 DEF Link
  <2> HIDE DEF r
  <2>4. Between(r, from) /\ (Orderly(r) <=> Orderly(g))
    BY <1>3, <2>2, <2>3, BetweenChanged
  <2>5. Orderly(r) => Resting(r)
    BY <1>2, <1>4, <2>3, <2>4 DEF Resting, c
  <2>6. LinkOK(link', from)
    BY <1>7, <2>1, <2>4, <2>5, ReceiveStep
  <2> QED
    BY <1>8, <2>6, InvStep
<1> QED
  BY <1>8, <1>9, <1>10, <1>11

LEMMA OnReceiveFailedInv == ASSUME Inv, OnReceiveFailed PROVE Inv'
<1>1. link.ready # <<>> /\ This.op \in Receives /\ ~ This.ok
  BY DEF OnReceiveFailed, Due, This
<1>2. Orderly(link) => This.msgs = <<>> /\ Resting(link)
  BY <1>1, RestType DEF Completed
<1>3. Between(Rest, from)
  BY <1>1, <1>2, RestBetween
<1>4. Orderly(Rest) => Resting(Rest)
  BY <1>1, <1>2, RestType DEF Orderly, Resting
<1>5. LinkOK(link', from)
  BY <1>3, <1>4, StopStep DEF OnReceiveFailed
<1> QED
  BY <1>5, InvStep DEF OnReceiveFailed

LEMMA OnReceivePartInv == ASSUME Inv, OnReceivePart PROVE Inv'
<1>1. link.ready # <<>> /\ This.op \in Receives /\ This.ok /\ ~ Complete
  BY DEF OnReceivePart, Due, This
<1>2. PICK p \in Leaves : link' = AsyncReceive(Parsed(p), "reciveCommand")
  BY DEF OnReceivePart
<1> DEFINE x == Parsed(p)
<1>3. x \in Link /\ x.open /\ (Orderly(x) <=> Orderly(link))
  BY <1>1, ParsedType DEF Orderly
<1>4. Orderly(link) => Bare(x) /\ Resting(x) /\ Clean(x) /\ Ledger(x, from)
  BY <1>1, ParsedOrderly
<1> HIDE DEF x
<1>5. Between(x, from)
  BY <1>3, <1>4 DEF Between
<1>6. "reciveCommand" \in Receives
  BY DEF Receives
<1>7. LinkOK(AsyncReceive(x, "reciveCommand"), from)
  BY <1>3, <1>4, <1>5, <1>6, ReceiveStep
<1> QED
  BY <1>2, <1>7, InvStep DEF OnReceivePart, x

LEMMA OnCommandInv == ASSUME Inv, OnCommand PROVE Inv'
<1>1. link.ready # <<>> /\ This.op \in Receives /\ This.ok /\ Complete
  BY DEF OnCommand, Due, This, Receives
<1> DEFINE d == Parsed("clean").dropped \cup Ids(Parsed("clean").json)
           r == [Parsed("clean") EXCEPT !.json = <<>>, !.dropped = d]
<1>2. link' = AsyncReceive(r, "sendResponse") /\ Keep
  BY DEF OnCommand
<1>3. d \in SUBSET Requests
  BY <1>1, CleanLeft, ParsedType DEF Ids, Link
<1> HIDE DEF d
<1>4. Between(r, from) /\ (Orderly(r) => Resting(r))
  BY <1>1, <1>3, Emptied
<1>5. "sendResponse" \in Receives
  BY DEF Receives
<1> HIDE DEF r
<1>6. LinkOK(link', from)
  BY <1>2, <1>4, <1>5, ReceiveStep
<1> QED
  BY <1>2, <1>6, InvStep

LEMMA OnResponseInv == ASSUME Inv, OnResponse PROVE Inv'
<1>1. link.ready # <<>> /\ This.op \in Receives /\ This.ok /\ Complete
  BY DEF OnResponse, Due, This, Receives
<1> DEFINE x == Parsed("clean")
           d == x.dropped
           q == x.json
           r == [x EXCEPT !.json = <<>>, !.dropped = d]
<1>2. x \in Link
  BY <1>1, CleanLeft, ParsedType
<1>3. r = [Parsed("clean") EXCEPT !.json = <<>>]
  <2> HIDE DEF x
  <2>1. r = [x EXCEPT !.json = <<>>]
    BY <1>2 DEF Link
  <2> QED
    BY <2>1 DEF x
<1>4. link' \in Responses(r, q) /\ Keep
  BY <1>3 DEF OnResponse
<1>5. d \in SUBSET Requests /\ q \in Seq(Msg)
  BY <1>2 DEF Link
<1>6. /\ Between(r, from)
      /\ Orderly(r) =>
           /\ Resting(r) /\ Jsons(r) = <<>> /\ q # <<>>
           /\ Len(q) = 1 => \A id \in Requests : q[1] = Request(id) =>
                 Open(r, from, id) /\ ~ Has(r.in, Request(id))
  BY <1>1, <1>5, Emptied
<1> HIDE DEF x, d, q, r
<1>7. r \in Link /\ r.open
  BY <1>6 DEF Between
<1>8. /\ link' \in Link /\ link'.open
      /\ Orderly(link') => Orderly(r) /\ Len(q) <= 1
      /\ Len(q) = 1 => link' \in AnswerOne(r, q[1], TRUE)
  BY <1>4, <1>5, <1>7, ResponsesType
<1>9. ASSUME Orderly(link') PROVE LinkOK(link', from)
  <2>1. Len(q) = 1 /\ q[1] \in Msg
    <3>1. Orderly(r) /\ Len(q) <= 1 /\ q # <<>>
      BY <1>6, <1>8, <1>9
    <3>2. Len(q) = 1
      <4>1. Len(q) \in Nat /\ Len(q) >= 1
        BY <1>5, <3>1, SingleSeq, LenProperties
      <4> DEFINE n == Len(q)
      <4>2. n \in Nat /\ n >= 1 /\ n <= 1
        BY <3>1, <4>1
      <4> HIDE DEF n
      <4>3. n = 1
        BY <4>2
      <4> QED
        BY <4>3 DEF n
    <3> QED
      BY <1>5, <3>2, SingleSeq
  <2>2. link' \in AnswerOne(r, q[1], TRUE)
    BY <1>8, <2>1
  <2>3. Orderly(r) => /\ Resting(r) /\ Jsons(r) = <<>>
                      /\ \A id \in Requests : q[1] = Request(id) =>
                            Open(r, from, id) /\ ~ Has(r.in, Request(id))
    BY <1>6, <2>1
  <2> QED
    BY <1>6, <2>1, <2>2, <2>3, TurnStep
<1>10. LinkOK(link', from)
  BY <1>8, <1>9 DEF LinkOK
<1> QED
  BY <1>4, <1>10, InvStep

LEMMA OnAnswerSentInv == ASSUME Inv, OnAnswerSent PROVE Inv'
<1> DEFINE total == Total(link.tempA)
           g == Rest
           c == M("none")
           r0 == [g EXCEPT !.tempA = 0, !.buf = c, !.endSend = FALSE]
<1>1. link.ready # <<>> /\ This.op = "reciveAnswer" /\ This.op \notin Receives
  BY DEF OnAnswerSent, Due, This, Receives
<1>2. Orderly(link) => /\ This.msgs = <<>> /\ Jsons(link) = <<>> /\ link.endSend
                       /\ link.tempC = 0 /\ Written(link.tempA, This, link)
                       /\ Partly(link, from)
  BY <1>1, RestType DEF Completed
<1>3. Between(g, from)
  BY <1>1, <1>2, RestBetween
<1>4. /\ g \in Link /\ (Orderly(g) <=> Orderly(link)) /\ Jsons(g) = Jsons(link)
      /\ g.buf = link.buf /\ g.tempC = link.tempC /\ g.tempA = link.tempA /\ g.peer = link.peer
      /\ g.endSend = link.endSend /\ g.no = link.no /\ g.log = link.log
      /\ link.tempA \in Nat /\ This \in Handler
  BY <1>1, InvFacts, RestType DEF Orderly, Jsons, Link
<1>5. /\ total \in Nat /\ Size(link.buf) \in 0..2
      /\ Orderly(link) /\ This.ok =>
            total <= Size(link.buf) /\ total = link.tempA + This.n
  <2>1. Size(link.buf) \in 0..2
    BY InvFacts, SizeType DEF Link
  <2> QED
    BY <1>2, <1>4, <2>1, TotalType DEF Written
<1>6. "reciveAnswer" \in Sends /\ "sendResponse" \in Receives
  BY DEF Sends, Receives
<1>7. Keep /\ \/ /\ ~ This.ok
                 /\ link' \in AsyncSends(g, "reciveAnswer", 0)
              \/ /\ This.ok /\ total # Size(link.buf)
                 /\ link' \in AsyncSends([g EXCEPT !.tempA = total], "reciveAnswer", total)
              \/ /\ This.ok /\ total = Size(link.buf)
                 /\ link' = IF link.endSend THEN AsyncReceive(r0, "sendResponse") ELSE r0
  BY DEF OnAnswerSent
<1>8. This = Head(link.ready)
  BY DEF This
<1> HIDE DEF total, g
<1>9. CASE ~ This.ok /\ link' \in AsyncSends(g, "reciveAnswer", 0)
  <2>1. Orderly(g) => Fit(g, "reciveAnswer", 0, from)
    BY <1>2, <1>4, <1>5, <1>9 DEF Fit, Written
  <2>2. LinkOK(link', from)
    BY <1>3, <1>6, <1>9, <2>1, SendStep
  <2> QED
    BY <1>7, <2>2, InvStep
<1>10. CASE /\ This.ok /\ total # Size(link.buf)
            /\ link' \in AsyncSends([g EXCEPT !.tempA = total], "reciveAnswer", total)
  <2> DEFINE r == [g EXCEPT !.tempA = total]
  <2>1. link' \in AsyncSends(r, "reciveAnswer", total)
    BY <1>10
  <2>2. /\ r \in Link /\ r.open = g.open /\ r.buf = g.buf /\ r.endSend = g.endSend
        /\ r.batched = g.batched /\ r.forked = g.forked
        /\ r.connecting = g.connecting /\ r.reads = g.reads /\ r.ready = g.ready
        /\ r.parser = g.parser /\ r.json = g.json /\ r.in = g.in /\ r.peer = g.peer
        /\ r.no = g.no /\ r.log = g.log /\ r.twice = g.twice
        /\ r.tempA = total /\ r.tempC = g.tempC
    BY <1>4, <1>5 DEF Link
  <2> HIDE DEF r
  <2>3. Between(r, from) /\ (Orderly(r) <=> Orderly(g)) /\ Jsons(r) = Jsons(g)
    BY <1>3, <2>2, BetweenChanged
  <2>4. ASSUME Orderly(r), NEW id \in Requests, r.buf = Static(id) PROVE Open(r, from, id)
    <3>1. Orderly(link) /\ link.buf = Static(id)
      BY <1>4, <2>2, <2>3, <2>4
    <3>2. link.tempA + This.n < Size(link.buf)
      BY <1>5, <1>10, <3>1
    <3>3. Open(link, from, id)
      BY <1>1, <1>2, <1>8, <1>10, <3>1, <3>2 DEF Partly
    <3> QED
      BY <1>4, <2>2, <3>3 DEF Open, Answered
  <2>5. Orderly(r) => Fit(r, "reciveAnswer", total, from)
    BY <1>2, <1>4, <1>5, <1>10, <2>2, <2>3, <2>4 DEF Fit, Counter
  <2>6. LinkOK(link', from)
    BY <1>5, <1>6, <2>1, <2>3, <2>5, SendStep
  <2> QED
    BY <1>7, <2>6, InvStep
<1>11. CASE /\ This.ok /\ total = Size(link.buf)
            /\ link' = IF link.endSend THEN AsyncReceive(r0, "sendResponse") ELSE r0
  <2>1. c \in Msg /\ \A id \in Requests : c # Static(id)
    BY NoStatic
  <2> HIDE DEF c
  <2>2. /\ r0 \in Link /\ r0.open = g.open /\ r0.buf = c
        /\ r0.batched = g.batched /\ r0.forked = g.forked
        /\ r0.connecting = g.connecting /\ r0.reads = g.reads /\ r0.ready = g.ready
        /\ r0.parser = g.parser /\ r0.json = g.json /\ r0.in = g.in /\ r0.peer = g.peer
        /\ r0.no = g.no /\ r0.log = g.log /\ r0.twice = g.twice
        /\ r0.tempA = 0 /\ r0.tempC = g.tempC
    BY <1>4, <2>1 DEF Link
  <2> HIDE DEF r0
  <2>3. Between(r0, from) /\ (Orderly(r0) <=> Orderly(g))
    BY <1>3, <2>1, <2>2, BetweenChanged
  <2>4. Orderly(r0) => Resting(r0)
    BY <1>2, <1>4, <2>2, <2>3 DEF Resting, c
  <2>5. CASE link.endSend
    <3>1. link' = AsyncReceive(r0, "sendResponse")
      BY <1>11, <2>5
    <3>2. LinkOK(link', from)
      BY <1>6, <2>3, <2>4, <3>1, ReceiveStep
    <3> QED
      BY <1>7, <3>2, InvStep
  <2>6. CASE ~ link.endSend
    <3>1. link' = r0 /\ ~ Orderly(r0)
      BY <1>2, <1>4, <1>11, <2>3, <2>6
    <3>2. LinkOK(r0, from)
      BY <2>3, <3>1 DEF LinkOK, Between
    <3>3. LinkOK(link', from)
      BY <3>1, <3>2
    <3> QED
      BY <1>7, <3>3, InvStep
  <2> QED
    BY <2>5, <2>6
<1> QED
  BY <1>7, <1>9, <1>10, <1>11

-----------------------------------------------------------------------------
(* The io_context. *)

(* An operation completes that was the only thing under way; what it brings *)
(* was in the connection.                                                   *)
LEMMA CompletedStep ==
    ASSUME Inv, NEW h \in Handler, NEW x \in Link, x.open,
           x.batched = link.batched, x.forked = link.forked,
           Orderly(link) =>
              /\ x.ready = <<h>> /\ ~ x.connecting /\ x.reads = <<>>
              /\ Jsons(x) \o (h.msgs \o x.in) = Jsons(link) \o link.in
              /\ Completed(x, h) /\ h.op # "reciveAnswer",
           x.parser = link.parser, x.json = link.json, x.buf = link.buf,
           x.no = link.no \/ (Orderly(link) => Unanswered(link) = <<>>),
           x.no # 0 \/ (x.no = link.no /\ x.peer = link.peer),
           x.log = link.log, x.twice = link.twice,
           Orderly(link) => link.ready = <<>>
    PROVE  LinkOK(x, from)
<1>1. ASSUME Orderly(x) PROVE Sequential(x) /\ Ledger(x, from)
  <2>1. Orderly(link) /\ link \in Link /\ Sequential(link) /\ Ledger(link, from)
    BY <1>1 DEF Inv, LinkOK, Orderly
  <2>2. /\ Head(x.ready) = h /\ Len(x.ready) = 1 /\ x.ready # <<>>
    BY <2>1, AppendOne
  <2>3. Clean(x) /\ Handling(x)
    BY <2>1, <2>2 DEF Sequential, Clean, Handling
  <2>4. Jsons(x) = Jsons(link) /\ Held(x) = h.msgs /\ Held(link) = <<>>
    BY <2>1, <2>2 DEF Jsons, Held
  <2>5. /\ Jsons(link) \in Seq(Msg) /\ link.in \in Seq(Msg) /\ x.in \in Seq(Msg)
        /\ h.msgs \in Seq(Msg)
    BY <2>1 DEF Jsons, Link, Handler
  <2>6. Unanswered(link) = Jsons(link) \o link.in
    BY <2>4, <2>5, ConcatEmpty DEF Unanswered
  <2>7. Unanswered(x) = Jsons(x) \o (h.msgs \o x.in)
    <3> DEFINE j == Jsons(x)
               m == h.msgs
               w == x.in
    <3>1. Unanswered(x) = (j \o m) \o w
      BY <2>4 DEF Unanswered
    <3>2. j \in Seq(Msg) /\ m \in Seq(Msg) /\ w \in Seq(Msg)
      BY <2>4, <2>5
    <3> HIDE DEF j, m, w
    <3>3. (j \o m) \o w = j \o (m \o w)
      BY <3>2, ConcatAssociative
    <3> QED
      BY <3>1, <3>3 DEF j, m, w
  <2>8. Unanswered(x) = Unanswered(link)
    BY <2>1, <2>6, <2>7
  <2> DEFINE u == Unanswered(link)
  <2>9. Owed(link, from, u) /\ Paid(link, from)
    BY <2>1 DEF Ledger
  <2> HIDE DEF u
  <2>10. Owed(x, from, u)
    <3>1. CASE x.no = link.no
      BY <2>9, <3>1, FewerParts, OwedLess
    <3>2. CASE u = <<>>
      BY <3>2, EmptyHas DEF Owed
    <3> QED
      BY <2>1, <3>1, <3>2 DEF u
  <2>11. Paid(x, from)
    BY <2>9 DEF Paid
  <2>12. Partly(x, from)
    BY <2>1, <2>2 DEF Partly
  <2> QED
    BY <2>3, <2>8, <2>10, <2>11, <2>12 DEF Sequential, Ledger, u
<1> QED
  BY <1>1 DEF LinkOK

LEMMA ConnectDoneInv == ASSUME Inv, ConnectDone PROVE Inv'
<1> DEFINE h == Done("sendConnect", TRUE)
           p == Post(link, h)
           n == link.no + 1
           x == [p EXCEPT !.connecting = FALSE, !.peer = "up", !.no = n]
<1>1. link' = x /\ Keep
  <2>1. link.no \in Nat /\ p.no = link.no
    BY InvFacts DEF Link, Post
  <2> HIDE DEF h
  <2>2. link' = [p EXCEPT !.connecting = FALSE, !.peer = "up", !.no = @ + 1] /\ Keep
    BY DEF ConnectDone, h
  <2> HIDE DEF p
  <2> QED
    BY <2>1, <2>2
<1>2. /\ h \in Handler /\ h.op = "sendConnect" /\ h.ok = TRUE /\ h.msgs = <<>>
  BY DoneType
<1> HIDE DEF h
<1>3. /\ p \in Link /\ p = [link EXCEPT !.ready = Append(link.ready, h)]
      /\ Append(link.ready, h) \in Seq(Handler)
  BY <1>2, InvFacts, PostType
<1> DEFINE q == Append(link.ready, h)
<1>4. link.no \in Nat /\ n \in Nat /\ n # 0 /\ link.ready = <<>> => q = <<h>>
  BY InvFacts, AppendOne DEF Link
<1> HIDE DEF p, n, q
<1>5. /\ p.ready = q /\ p.open = link.open /\ p.batched = link.batched /\ p.forked = link.forked
      /\ p.reads = link.reads /\ p.in = link.in
      /\ p.parser = link.parser /\ p.json = link.json /\ p.buf = link.buf
      /\ p.tempC = link.tempC /\ p.tempA = link.tempA
      /\ p.log = link.log /\ p.twice = link.twice
  BY <1>3, InvFacts DEF Link, q
<1>6. link.no + 1 \in Nat /\ n \in Nat /\ n # 0
  BY InvFacts DEF Link, n
<1>7. /\ x \in Link /\ x.connecting = FALSE /\ x.peer = "up" /\ x.no = n
      /\ x.ready = p.ready /\ x.open = p.open /\ x.batched = p.batched /\ x.forked = p.forked
      /\ x.reads = p.reads /\ x.in = p.in
      /\ x.parser = p.parser /\ x.json = p.json /\ x.buf = p.buf
      /\ x.tempC = p.tempC /\ x.tempA = p.tempA
      /\ x.log = p.log /\ x.twice = p.twice
  <2>1. x = [p EXCEPT !.connecting = FALSE, !.peer = "up", !.no = n]
    OBVIOUS
  <2> HIDE DEF x
  <2>2. x \in Link
    BY <1>3, <1>6, <2>1 DEF Link
  <2>3. /\ x.connecting = FALSE /\ x.peer = "up" /\ x.no = n
        /\ x.ready = p.ready /\ x.open = p.open /\ x.batched = p.batched
        /\ x.forked = p.forked /\ x.reads = p.reads /\ x.in = p.in
        /\ x.parser = p.parser /\ x.json = p.json /\ x.buf = p.buf
        /\ x.tempC = p.tempC /\ x.tempA = p.tempA
        /\ x.log = p.log /\ x.twice = p.twice
    BY <1>3, <2>1 DEF Link
  <2> QED
    BY <2>2, <2>3
<1> HIDE DEF x
<1>8. ASSUME Orderly(link)
      PROVE  /\ x.ready = <<h>> /\ ~ x.connecting /\ x.reads = <<>>
             /\ Jsons(x) \o (h.msgs \o x.in) = Jsons(link) \o link.in
             /\ Completed(x, h) /\ h.op # "reciveAnswer"
             /\ Unanswered(link) = <<>> /\ link.ready = <<>>
  <2>1. Connecting(link)
    BY <1>8 DEF Inv, LinkOK, Sequential, Receiving, Handling, ConnectDone
  <2>2. x.ready = <<h>> /\ ~ x.connecting /\ x.reads = <<>> /\ link.ready = <<>>
    BY <1>5, <1>7, <2>1, AppendOne DEF Connecting, q
  <2>3. Jsons(x) = <<>> /\ Jsons(link) = <<>> /\ x.in = <<>> /\ link.in = <<>>
    BY <1>5, <1>7, <2>1 DEF Connecting, Jsons
  <2>4. <<>> \o <<>> = <<>>
    BY ConcatEmpty
  <2>5. Completed(x, h)
    BY <1>2, <1>5, <1>7, <2>1, <2>3 DEF Completed, Connecting, Resting, Receives
  <2>6. Unanswered(link) = <<>>
    BY <2>2, <2>3, <2>4 DEF Unanswered, Held
  <2> QED
    BY <1>2, <2>2, <2>3, <2>4, <2>5, <2>6
<1>9. LinkOK(x, from)
  <2>1. x.open /\ x.no # 0
    BY <1>5, <1>6, <1>7, InvFacts
  <2> QED
    BY <1>2, <1>5, <1>7, <1>8, <2>1, CompletedStep
<1> QED
  BY <1>1, <1>9, InvStep

LEMMA ConnectRefusedInv == ASSUME Inv, ConnectRefused PROVE Inv'
<1> DEFINE h == Done("sendConnect", FALSE)
           p == Post(link, h)
           x == [p EXCEPT !.connecting = FALSE]
<1>1. link' = x /\ faults' \in 0..MaxFaults /\ from' = from
  BY LinkAssumption DEF ConnectRefused, Keep, Inv
<1>2. /\ h \in Handler /\ h.op = "sendConnect" /\ h.ok = FALSE /\ h.msgs = <<>>
  BY DoneType
<1> HIDE DEF h
<1>3. /\ p \in Link /\ p = [link EXCEPT !.ready = Append(link.ready, h)]
      /\ Append(link.ready, h) \in Seq(Handler)
  BY <1>2, InvFacts, PostType
<1> DEFINE q == Append(link.ready, h)
<1> HIDE DEF p, q
<1>4. /\ p.ready = q /\ p.open = link.open /\ p.batched = link.batched /\ p.forked = link.forked
      /\ p.reads = link.reads /\ p.in = link.in /\ p.peer = link.peer /\ p.no = link.no
      /\ p.parser = link.parser /\ p.json = link.json /\ p.buf = link.buf
      /\ p.tempC = link.tempC /\ p.tempA = link.tempA
      /\ p.log = link.log /\ p.twice = link.twice
  BY <1>3, InvFacts DEF Link, q
<1>5. /\ x \in Link /\ x.connecting = FALSE
      /\ x.ready = p.ready /\ x.open = p.open /\ x.batched = p.batched /\ x.forked = p.forked
      /\ x.reads = p.reads /\ x.in = p.in /\ x.peer = p.peer /\ x.no = p.no
      /\ x.parser = p.parser /\ x.json = p.json /\ x.buf = p.buf
      /\ x.tempC = p.tempC /\ x.tempA = p.tempA
      /\ x.log = p.log /\ x.twice = p.twice
  BY <1>3 DEF Link
<1> HIDE DEF x
<1>6. ASSUME Orderly(link)
      PROVE  /\ x.ready = <<h>> /\ ~ x.connecting /\ x.reads = <<>>
             /\ Jsons(x) \o (h.msgs \o x.in) = Jsons(link) \o link.in
             /\ Completed(x, h) /\ h.op # "reciveAnswer" /\ link.ready = <<>>
  <2>1. Connecting(link)
    BY <1>6 DEF Inv, LinkOK, Sequential, Receiving, Handling, ConnectRefused
  <2>2. x.ready = <<h>> /\ ~ x.connecting /\ x.reads = <<>> /\ link.ready = <<>>
    BY <1>4, <1>5, <2>1, AppendOne DEF Connecting, q
  <2>3. Jsons(x) = <<>> /\ Jsons(link) = <<>> /\ x.in = <<>> /\ link.in = <<>>
    BY <1>4, <1>5, <2>1 DEF Connecting, Jsons
  <2>4. <<>> \o <<>> = <<>>
    BY ConcatEmpty
  <2>5. Completed(x, h)
    BY <1>2, <1>4, <1>5, <2>1, <2>3 DEF Completed, Connecting, Resting, Receives
  <2> QED
    BY <1>2, <2>2, <2>3, <2>4, <2>5
<1>7. LinkOK(x, from)
  <2>1. x.open
    BY <1>4, <1>5, InvFacts
  <2> QED
    BY <1>2, <1>4, <1>5, <1>6, <2>1, CompletedStep
<1> QED
  BY <1>1, <1>7 DEF Inv

(* A pending receive and what it completes with.                            *)
LEMMA ReadStep ==
    ASSUME Inv, Reading, NEW h \in Handler, h.op = Head(link.reads),
           h.ok /\ ~ h.cut => h.msgs # <<>>, ~ h.ok => h.msgs = <<>>,
           NEW w \in Seq(Msg), h.msgs \o w = link.in, NEW c \in BOOLEAN, NEW x,
           x = [Post(link, h) EXCEPT !.reads = Tail(link.reads), !.in = w, !.half = c]
    PROVE  LinkOK(x, from)
<1> DEFINE p == Post(link, h)
           t == Tail(link.reads)
           q == Append(link.ready, h)
<1>1. /\ p \in Link /\ p = [link EXCEPT !.ready = q]
  BY InvFacts, PostType
<1>2. link.reads # <<>> /\ t \in Seq(Receives) /\ h.op \in Receives
  <2>1. link.reads \in Seq(Receives) /\ link.reads # <<>>
    BY InvFacts DEF Link, Reading
  <2> QED
    BY <2>1, SingleSeq
<1>3. x = [p EXCEPT !.reads = t, !.in = w, !.half = c]
  OBVIOUS
<1> HIDE DEF p, t, q
<1>4. /\ p.ready = q /\ p.open = link.open /\ p.batched = link.batched /\ p.forked = link.forked
      /\ p.connecting = link.connecting /\ p.peer = link.peer /\ p.no = link.no
      /\ p.parser = link.parser /\ p.json = link.json /\ p.buf = link.buf
      /\ p.tempC = link.tempC /\ p.tempA = link.tempA
      /\ p.log = link.log /\ p.twice = link.twice
  BY <1>1, InvFacts DEF Link, q
<1>5. /\ x \in Link /\ x.reads = t /\ x.in = w
      /\ x.ready = p.ready /\ x.open = p.open /\ x.batched = p.batched /\ x.forked = p.forked
      /\ x.connecting = p.connecting /\ x.peer = p.peer /\ x.no = p.no
      /\ x.parser = p.parser /\ x.json = p.json /\ x.buf = p.buf
      /\ x.tempC = p.tempC /\ x.tempA = p.tempA
      /\ x.log = p.log /\ x.twice = p.twice
  <2>1. x \in Link
    <3> DEFINE y == [p EXCEPT !.reads = t, !.in = w]
    <3>1. p \in Link /\ t \in Seq(Receives)
      BY <1>1, <1>2
    <3>2. y \in Link
      BY <3>1 DEF Link
    <3>3. x = [y EXCEPT !.half = c]
      BY <1>3, <3>1 DEF Link
    <3> HIDE DEF y
    <3> QED
      BY <3>2, <3>3 DEF Link
  <2>2. /\ x.reads = t /\ x.in = w
        /\ x.ready = p.ready /\ x.open = p.open /\ x.batched = p.batched
        /\ x.forked = p.forked
        /\ x.connecting = p.connecting /\ x.peer = p.peer /\ x.no = p.no
        /\ x.parser = p.parser /\ x.json = p.json /\ x.buf = p.buf
        /\ x.tempC = p.tempC /\ x.tempA = p.tempA
        /\ x.log = p.log /\ x.twice = p.twice
    BY <1>1, <1>3 DEF Link
  <2> QED
    BY <2>1, <2>2
<1>6. ASSUME Orderly(link)
      PROVE  /\ x.ready = <<h>> /\ ~ x.connecting /\ x.reads = <<>>
             /\ Jsons(x) \o (h.msgs \o x.in) = Jsons(link) \o link.in
             /\ Completed(x, h) /\ h.op # "reciveAnswer" /\ link.ready = <<>>
  <2>1. Receiving(link)
    BY <1>2, <1>6 DEF Inv, LinkOK, Sequential, Connecting, Handling
  <2>2. PICK op \in Receives : link.reads = <<op>>
    BY <2>1 DEF Receiving
  <2>3. t = <<>>
    BY <2>2 DEF t
  <2>4. x.ready = <<h>> /\ ~ x.connecting /\ x.reads = <<>> /\ link.ready = <<>>
    BY <1>4, <1>5, <2>1, <2>3, AppendOne DEF Receiving, q
  <2>5. Jsons(x) = Jsons(link) /\ h.msgs \o x.in = link.in
    BY <1>4, <1>5 DEF Jsons
  <2>6. h.op \notin Sends /\ h.op # "sendConnect"
    BY <1>2 DEF Receives, Sends
  <2>7. Completed(x, h)
    BY <1>2, <1>4, <1>5, <2>1, <2>6 DEF Completed, Receiving, Resting, Sends
  <2> QED
    BY <2>4, <2>5, <2>6, <2>7 DEF Sends
<1>7. x.open
  BY <1>4, <1>5, InvFacts
<1> QED
  BY <1>4, <1>5, <1>6, <1>7, CompletedStep

LEMMA DeliverInv == ASSUME Inv, Deliver PROVE Inv'
<1>1. PICK k \in 0..Len(link.in), cut \in BOOLEAN :
        /\ IF cut THEN k < Len(link.in) /\ (k > 0 \/ ~ link.half) ELSE k > 0
        /\ link' = [Post(link, Received(Head(link.reads), SubSeq(link.in, 1, k), cut)) EXCEPT
                        !.reads = Tail(@), !.in = SubSeq(@, k + 1, Len(@)), !.half = cut]
  BY DEF Deliver
<1> DEFINE i == link.in
           m == SubSeq(i, 1, k)
           w == SubSeq(i, k + 1, Len(i))
           o == Head(link.reads)
           h == Received(o, m, cut)
<1>2. i \in Seq(Msg) /\ Len(i) \in Nat /\ link.reads \in Seq(Receives) /\ link.reads # <<>>
  BY InvFacts, LenProperties DEF Link, Deliver, Reading
<1>3. o \in Receives
  BY <1>2, SingleSeq
<1>4. m \in Seq(Msg) /\ w \in Seq(Msg) /\ m \o w = i /\ (~ cut => m # <<>>)
  <2>0. k \in 0..Len(i) /\ (~ cut => k > 0)
    BY <1>1
  <2> HIDE DEF i
  <2>1. m \in Seq(Msg) /\ w \in Seq(Msg) /\ Len(m) = k
    BY <1>2, <2>0
  <2>2. m \o w = i
    <3>1. 1 \in 1..(Len(i) + 1) /\ k \in (1 - 1)..Len(i) /\ Len(i) \in k..Len(i)
      BY <1>2, <2>0
    <3>2. m \o w = SubSeq(i, 1, Len(i))
      BY <1>2, <3>1, ConcatAdjacentSubSeq
    <3>3. SubSeq(i, 1, Len(i)) = i
      BY <1>2, SubSeqFull
    <3> QED
      BY <3>2, <3>3
  <2>3. ~ cut => m # <<>>
    BY <2>0, <2>1
  <2> QED
    BY <2>1, <2>2, <2>3
<1>5. link' = [Post(link, h) EXCEPT !.reads = Tail(link.reads), !.in = w, !.half = cut]
  <2>1. Post(link, h).reads = link.reads /\ Post(link, h).in = i
    BY InvFacts DEF Post, Link
  <2> HIDE DEF h
  <2> DEFINE p == Post(link, h)
  <2>2. link' = [p EXCEPT !.reads = Tail(@), !.in = SubSeq(@, k + 1, Len(@)), !.half = cut]
    BY <1>1 DEF h
  <2>3. p.reads = link.reads /\ p.in = i
    BY <2>1
  <2> HIDE DEF p
  <2>4. link' = [p EXCEPT !.reads = Tail(p.reads), !.in = SubSeq(p.in, k + 1, Len(p.in)),
                          !.half = cut]
    BY <2>2
  <2> QED
    BY <2>3, <2>4 DEF p
<1> HIDE DEF m, w, o
<1>6. h \in Handler /\ h.op = o /\ h.ok = TRUE /\ h.msgs = m /\ h.cut = cut
  BY <1>3, <1>4, DoneType
<1> HIDE DEF h
<1>7. LinkOK(link', from)
  BY <1>4, <1>5, <1>6, ReadStep DEF Deliver, o
<1> QED
  BY <1>7, InvStep DEF Deliver

LEMMA DeliverEndInv == ASSUME Inv, DeliverEnd PROVE Inv'
<1> DEFINE o == Head(link.reads)
           h == Done(o, FALSE)
           c == link.half
           w == link.in
<1>1. w = <<>> /\ w \in Seq(Msg) /\ c \in BOOLEAN /\ o \in Receives
  <2>1. link.reads \in Seq(Receives) /\ link.reads # <<>> /\ w = <<>> /\ c \in BOOLEAN
    BY InvFacts DEF Link, DeliverEnd, Reading
  <2> QED
    BY <2>1, SingleSeq
<1>2. h \in Handler /\ h.op = o /\ h.ok = FALSE /\ h.msgs = <<>>
  BY <1>1, DoneType
<1>3. h.msgs \o w = link.in
  BY <1>1, <1>2, ConcatEmpty
<1> HIDE DEF h
<1>4. link' = [Post(link, h) EXCEPT !.reads = Tail(link.reads), !.in = w, !.half = c]
  <2> DEFINE p == Post(link, h)
  <2>1. p \in Link /\ p.reads = link.reads /\ p.in = w /\ p.half = c
    BY <1>2, InvFacts, PostType DEF Post, Link
  <2>2. link' = [p EXCEPT !.reads = Tail(@)]
    BY DEF DeliverEnd, h
  <2> HIDE DEF p, w, c
  <2>3. link' = [p EXCEPT !.reads = Tail(link.reads), !.in = w, !.half = c]
    BY <2>1, <2>2 DEF Link
  <2> QED
    BY <2>3 DEF p
<1>5. LinkOK(link', from)
  BY <1>1, <1>2, <1>3, <1>4, ReadStep DEF DeliverEnd
<1> QED
  BY <1>5, InvStep DEF DeliverEnd

-----------------------------------------------------------------------------
(* The main server and the network. *)

(* The connection changes and nothing else; no message is added that is not *)
(* in the ledger of the connections f.                                      *)
LEMMA PeerStep ==
    ASSUME Inv, link.peer = "up", NEW x \in Link, NEW f,
           x.open = link.open, x.connecting = link.connecting, x.reads = link.reads,
           x.ready = link.ready, x.parser = link.parser, x.json = link.json,
           x.buf = link.buf, x.endSend = link.endSend,
           x.tempC = link.tempC, x.tempA = link.tempA, x.no = link.no,
           x.log = link.log, x.twice = link.twice,
           x.batched = link.batched, x.forked = link.forked,
           \A id \in Requests : from[id] # 0 => f[id] = from[id],
           Orderly(link) => Owed(x, f, Unanswered(x))
    PROVE  LinkOK(x, f)
<1>1. ASSUME Orderly(x) PROVE Sequential(x) /\ Ledger(x, f)
  <2>1. Orderly(link) /\ link \in Link /\ Sequential(link) /\ Ledger(link, from)
    BY <1>1 DEF Inv, LinkOK, Orderly
  <2>2. Jsons(x) = Jsons(link)
    BY DEF Jsons
  <2>3. Receiving(link) \/ Handling(link)
    BY <2>1 DEF Sequential, Connecting
  <2>4. Receiving(link) => Receiving(x)
    BY DEF Receiving, Resting
  <2>5. Handling(link) => Handling(x)
    BY <2>2 DEF Handling, Completed, Resting, Written
  <2>6. Sequential(x)
    BY <2>1, <2>3, <2>4, <2>5 DEF Sequential, Clean
  <2>7. /\ Paid(link, from) /\ Partly(link, from)
        /\ \A a \in link.log : a.id \in Requests
    BY <2>1 DEF Ledger, Link
  <2>8. Paid(x, f)
    BY <2>7 DEF Paid
  <2>9. Partly(x, f)
    BY <2>7 DEF Partly, Open, Answered
  <2> QED
    BY <2>1, <2>6, <2>8, <2>9 DEF Ledger
<1> QED
  BY <1>1, InvFacts DEF LinkOK

LEMMA UnansweredType ==
    ASSUME NEW r \in Link
    PROVE  Jsons(r) \o Held(r) \in Seq(Msg) /\ r.in \in Seq(Msg) /\ Unanswered(r) \in Seq(Msg)
<1>1. r.json \in Seq(Msg) /\ r.in \in Seq(Msg) /\ <<>> \in Seq(Msg) /\ r.ready \in Seq(Handler)
  BY DEF Link
<1>2. Held(r) \in Seq(Msg)
  <2>1. CASE r.ready = <<>>
    BY <1>1, <2>1 DEF Held
  <2>2. CASE r.ready # <<>>
    <3>1. Head(r.ready) \in Handler
      BY <1>1, <2>2, SingleSeq
    <3> QED
      BY <2>2, <3>1 DEF Held, Handler
  <2> QED
    BY <2>1, <2>2
<1>3. Jsons(r) \in Seq(Msg)
  BY <1>1 DEF Jsons
<1> QED
  BY <1>1, <1>2, <1>3, ConcatProperties DEF Unanswered

(* The main server sends a message; a request is one it has not sent yet.   *)
LEMMA SayStep ==
    ASSUME Inv, link.peer = "up", NEW m \in Msg, NEW f, NEW k \in {"no", "introduced", "greeted"},
           NEW x, x = [link EXCEPT !.in = Append(link.in, m), !.known = k],
           \A id \in Requests : from[id] # 0 => f[id] = from[id],
           \A id \in Requests : m = Request(id) => from[id] = 0 /\ f[id] = link.no
    PROVE  LinkOK(x, f)
<1> DEFINE i == Append(link.in, m)
<1>1. link \in Link /\ link.in \in Seq(Msg) /\ i \in Seq(Msg)
  BY InvFacts DEF Link
<1>2. x = [link EXCEPT !.in = i, !.known = k]
  OBVIOUS
<1> HIDE DEF i
<1>3. /\ x \in Link /\ x.in = i
      /\ x.open = link.open /\ x.connecting = link.connecting /\ x.reads = link.reads
      /\ x.ready = link.ready /\ x.parser = link.parser /\ x.json = link.json
      /\ x.buf = link.buf /\ x.endSend = link.endSend
      /\ x.tempC = link.tempC /\ x.tempA = link.tempA /\ x.no = link.no
      /\ x.log = link.log /\ x.twice = link.twice
      /\ x.batched = link.batched /\ x.forked = link.forked
  <2>1. x \in Link
    BY <1>1, <1>2 DEF Link
  <2>2. /\ x.in = i
        /\ x.open = link.open /\ x.connecting = link.connecting /\ x.reads = link.reads
        /\ x.ready = link.ready /\ x.parser = link.parser /\ x.json = link.json
        /\ x.buf = link.buf /\ x.endSend = link.endSend
        /\ x.tempC = link.tempC /\ x.tempA = link.tempA /\ x.no = link.no
        /\ x.log = link.log /\ x.twice = link.twice
        /\ x.batched = link.batched /\ x.forked = link.forked
    BY <1>1, <1>2 DEF Link
  <2> QED
    BY <2>1, <2>2
<1>4. ASSUME Orderly(link) PROVE Owed(x, f, Unanswered(x))
  <2> DEFINE v == Jsons(link) \o Held(link)
             u == v \o link.in
  <2>1. Owed(link, from, u) /\ Paid(link, from)
    BY <1>4 DEF Inv, LinkOK, Ledger, Unanswered
  <2>2. v \in Seq(Msg) /\ u \in Seq(Msg)
    BY <1>1, UnansweredType DEF Unanswered
  <2>3. Unanswered(x) = v \o i
    <3>1. Jsons(x) = Jsons(link) /\ Held(x) = Held(link)
      BY <1>3 DEF Jsons, Held
    <3>2. Unanswered(x) = (Jsons(x) \o Held(x)) \o x.in
      BY DEF Unanswered
    <3>3. x.in = i
      BY <1>3
    <3> QED
      BY <3>1, <3>2, <3>3
  <2>4. v \o i = Append(u, m)
    <3> HIDE DEF v
    <3> DEFINE q == link.in
    <3>1. q \in Seq(Msg) /\ <<m>> \in Seq(Msg)
      BY <1>1
    <3> HIDE DEF q
    <3>2. i = q \o <<m>>
      BY <3>1, AppendIsConcat DEF i, q
    <3>3. v \o (q \o <<m>>) = (v \o q) \o <<m>>
      BY <2>2, <3>1, ConcatAssociative
    <3>4. v \o q \in Seq(Msg)
      BY <2>2 DEF q
    <3>5. Append(v \o q, m) = (v \o q) \o <<m>>
      BY <3>4, AppendIsConcat
    <3> QED
      BY <3>2, <3>3, <3>5 DEF q
  <2> HIDE DEF v, u
  <2> DEFINE p == Unanswered(x)
  <2>5. p = Append(u, m)
    BY <2>3, <2>4
  <2> HIDE DEF p
  <2>6. /\ \A y : Has(p, y) <=> Has(u, y) \/ m = y
        /\ \A y : Once(u, y) /\ ~ (Has(u, y) /\ m = y) => Once(p, y)
    BY <2>2, <2>5, AppendHas
  <2>7. ASSUME NEW id \in Requests, Has(p, Request(id))
        PROVE  Open(x, f, id) /\ x.buf # Static(id) /\ Once(p, Request(id))
    <3>1. CASE Has(u, Request(id))
      <4>1. Open(link, from, id) /\ link.buf # Static(id) /\ Once(u, Request(id))
        BY <2>1, <3>1 DEF Owed
      <4>2. from[id] # 0
        BY <4>1 DEF Open
      <4>3. m # Request(id)
        BY <4>2
      <4> QED
        BY <1>3, <2>6, <4>1, <4>2, <4>3 DEF Open, Answered
    <3>2. CASE m = Request(id) /\ ~ Has(u, Request(id))
      <4>1. from[id] = 0 /\ f[id] = link.no
        BY <3>2
      <4>2. link.no # 0 /\ ~ Answered(link, id) /\ link.buf # Static(id)
        BY <2>1, <4>1 DEF Paid, Answered
      <4>3. Once(u, Request(id))
        BY <3>2 DEF Once, Has
      <4> QED
        BY <1>3, <2>6, <3>2, <4>1, <4>2, <4>3 DEF Open, Answered
    <3> QED
      BY <2>6, <2>7, <3>1, <3>2
  <2> QED
    BY <2>7 DEF Owed, p
<1> DEFINE u == Unanswered(x)
<1>5. Orderly(link) => Owed(x, f, u)
  BY <1>4
<1>6. link.peer = "up" /\ \A id \in Requests : from[id] # 0 => f[id] = from[id]
  OBVIOUS
<1>7. x \in Link
  BY <1>3
<1> QED
  BY ONLY Inv, <1>3, <1>5, <1>6, <1>7, PeerStep

LEMMA MainInv == ASSUME Inv, MainGreets \/ MainPings \/ MainAsks PROVE Inv'
<1>1. link \in Link /\ link.known \in {"no", "introduced", "greeted"}
  BY InvFacts DEF Link
<1>2. CASE MainGreets
  <2> DEFINE m == M("connected")
             k == "greeted"
  <2>1. m \in Msg /\ \A id \in Requests : m # Request(id)
    BY MsgFacts DEF Kinds
  <2>2. link' = [link EXCEPT !.in = Append(link.in, m), !.known = k] /\ link.peer = "up" /\ Keep
    BY <1>2 DEF MainGreets
  <2>3. k \in {"no", "introduced", "greeted"}
    OBVIOUS
  <2> HIDE DEF m, k
  <2>4. LinkOK(link', from)
    BY <2>1, <2>2, <2>3, SayStep
  <2> QED
    BY <2>2, <2>4, InvStep
<1>3. CASE MainPings
  <2> DEFINE m == M("ping")
             k == link.known
  <2>1. m \in Msg /\ \A id \in Requests : m # Request(id)
    BY MsgFacts DEF Kinds
  <2>2. link' = [link EXCEPT !.in = Append(@, m)] /\ link.peer = "up" /\ Keep
    BY <1>3 DEF MainPings, Say
  <2> HIDE DEF m
  <2>3. link' = [link EXCEPT !.in = Append(link.in, m), !.known = k]
    BY <1>1, <2>2 DEF Link
  <2> HIDE DEF k
  <2>4. k \in {"no", "introduced", "greeted"}
    BY <1>1 DEF k
  <2>5. LinkOK(link', from)
    BY <2>1, <2>2, <2>3, <2>4, SayStep
  <2> QED
    BY <2>2, <2>5, InvStep
<1>4. CASE MainAsks
  <2>1. PICK id \in Requests : /\ from[id] = 0 /\ from' = [from EXCEPT ![id] = link.no]
                               /\ Say(Request(id))
    BY <1>4 DEF MainAsks
  <2> DEFINE m == Request(id)
             k == link.known
  <2>2. m \in Msg /\ \A jd \in Requests : m = Request(jd) => jd = id
    BY MsgFacts
  <2>3. link' = [link EXCEPT !.in = Append(@, m)] /\ link.peer = "up" /\ faults' = faults
    BY <1>4, <2>1 DEF MainAsks, Say
  <2> HIDE DEF m
  <2>4. link' = [link EXCEPT !.in = Append(link.in, m), !.known = k]
    BY <1>1, <2>3 DEF Link
  <2> HIDE DEF k
  <2>5. k \in {"no", "introduced", "greeted"}
    BY <1>1 DEF k
  <2>6. from \in [Requests -> Nat] /\ link.no \in Nat
    BY <1>1 DEF Inv, Link
  <2>7. /\ from' \in [Requests -> Nat] /\ from'[id] = link.no
        /\ \A jd \in Requests : jd # id => from'[jd] = from[jd]
    BY <2>1, <2>6
  <2>8. /\ \A jd \in Requests : from[jd] # 0 => from'[jd] = from[jd]
        /\ \A jd \in Requests : m = Request(jd) => from[jd] = 0 /\ from'[jd] = link.no
    BY <2>1, <2>2, <2>7
  <2>9. LinkOK(link', from')
    BY <2>2, <2>3, <2>4, <2>5, <2>8, SayStep
  <2> QED
    BY <2>3, <2>7, <2>9 DEF Inv
<1> QED
  BY <1>2, <1>3, <1>4

LEMMA ConnectionFailsInv == ASSUME Inv, ConnectionFails PROVE Inv'
<1>1. PICK p \in {"closed", "gone"} :
        link' = [link EXCEPT !.peer = p, !.in = IF p = "gone" THEN <<>> ELSE @]
  BY DEF ConnectionFails
<1>2. link.peer = "up" /\ from' = from /\ faults' \in 0..MaxFaults
  BY LinkAssumption DEF ConnectionFails, Inv
<1> DEFINE i == IF p = "gone" THEN <<>> ELSE link.in
<1>3. link \in Link /\ link.in \in Seq(Msg) /\ i \in Seq(Msg) /\ i \in {<<>>, link.in}
  <2>1. link \in Link /\ link.in \in Seq(Msg) /\ <<>> \in Seq(Msg)
    BY InvFacts DEF Link
  <2>2. i = <<>> \/ i = link.in
    OBVIOUS
  <2> HIDE DEF i
  <2> QED
    BY <2>1, <2>2
<1>4. link' = [link EXCEPT !.peer = p, !.in = i]
  BY <1>1
<1> HIDE DEF i
<1> DEFINE x == [link EXCEPT !.peer = p, !.in = i]
<1>5. x \in Link
  BY <1>3 DEF Link
<1>6. /\ x.in = i
      /\ x.open = link.open /\ x.connecting = link.connecting /\ x.reads = link.reads
      /\ x.ready = link.ready /\ x.parser = link.parser /\ x.json = link.json
      /\ x.buf = link.buf /\ x.endSend = link.endSend
      /\ x.tempC = link.tempC /\ x.tempA = link.tempA /\ x.no = link.no
      /\ x.log = link.log /\ x.twice = link.twice
      /\ x.batched = link.batched /\ x.forked = link.forked
  BY <1>3 DEF Link
<1> HIDE DEF x
<1>7. ASSUME Orderly(link) PROVE Owed(x, from, Unanswered(x))
  <2> DEFINE v == Jsons(link) \o Held(link)
             u == v \o link.in
  <2>1. Owed(link, from, u)
    BY <1>7 DEF Inv, LinkOK, Ledger, Unanswered
  <2>2. v \in Seq(Msg)
    BY <1>3, UnansweredType
  <2>3. Unanswered(x) = v \o i
    BY <1>6 DEF Unanswered, Jsons, Held
  <2> HIDE DEF v
  <2>4. Fewer(v \o i, u)
    <3>1. CASE i = <<>>
      BY <1>3, <2>2, <3>1, ConcatEmpty, FewerConcat
    <3>2. CASE i = link.in
      BY <3>2, FewerParts
    <3> QED
      BY <1>3, <3>1, <3>2
  <2> HIDE DEF u
  <2> QED
    BY <1>6, <2>1, <2>3, <2>4, OwedLess
<1>8. LinkOK(x, from)
  BY <1>2, <1>5, <1>6, <1>7, PeerStep
<1> QED
  BY <1>2, <1>4, <1>8 DEF Inv, x

-----------------------------------------------------------------------------
(* The invariant. *)

LEMMA InitInv == ASSUME Init PROVE Inv
<1>1. <<>> \in Seq(Msg) /\ <<>> \in Seq(Handler) /\ <<>> \in Seq(Receives)
  OBVIOUS
<1>2. M("none") \in Msg /\ \A id \in Requests : M("none") # Static(id)
  BY NoStatic
<1> DEFINE none == M("none")
<1>3. /\ link \in Link /\ link.open /\ link.connecting /\ link.reads = <<>> /\ link.ready = <<>>
      /\ link.parser = "clean" /\ link.json = <<>> /\ link.buf = none
      /\ link.tempC = 0 /\ link.tempA = 0 /\ link.peer = "none" /\ link.in = <<>>
      /\ link.log = {} /\ link.twice = {}
  <2>1. link = [open |-> TRUE, connecting |-> TRUE, reads |-> <<>>, ready |-> <<>>,
                parser |-> "clean", dirty |-> TRUE, json |-> <<>>, buf |-> none,
                endSend |-> FALSE, tempC |-> 0, tempA |-> 0, peer |-> "none", no |-> 0,
                known |-> "no", in |-> <<>>, half |-> FALSE, log |-> {}, twice |-> {},
                dropped |-> {}, batched |-> FALSE, forked |-> FALSE]
    BY DEF Init
  <2>2. none \in Msg
    BY <1>2
  <2> HIDE DEF none
  <2> QED
    BY <1>1, <2>1, <2>2 DEF Link
<1>4. Jsons(link) = <<>> /\ Held(link) = <<>> /\ Unanswered(link) = <<>>
  BY <1>3, ConcatEmpty DEF Jsons, Held, Unanswered
<1>5. Sequential(link)
  BY <1>3, <1>4 DEF Sequential, Clean, Connecting, Resting
<1>6. Ledger(link, from)
  <2>1. Owed(link, from, <<>>)
    BY EmptyHas DEF Owed
  <2>2. Paid(link, from) /\ Partly(link, from)
    BY <1>2, <1>3 DEF Paid, Partly
  <2> QED
    BY <1>4, <2>1, <2>2 DEF Ledger
<1>7. from \in [Requests -> Nat] /\ faults \in 0..MaxFaults
  BY LinkAssumption DEF Init
<1> QED
  BY <1>3, <1>5, <1>6, <1>7 DEF Inv, LinkOK

LEMMA NextInv == ASSUME Inv, [Next]_vars PROVE Inv'
<1>1. CASE RunHandler
  BY <1>1, OnConnectInv, OnConnectSentInv, OnReceiveFailedInv, OnReceivePartInv, OnCommandInv,
     OnResponseInv, OnAnswerSentInv DEF RunHandler
<1>2. CASE ConnectDone \/ ConnectRefused \/ Deliver \/ DeliverEnd
  BY <1>2, ConnectDoneInv, ConnectRefusedInv, DeliverInv, DeliverEndInv
<1>3. CASE MainGreets \/ MainPings \/ MainAsks \/ ConnectionFails
  BY <1>3, MainInv, ConnectionFailsInv
<1>4. CASE UNCHANGED vars
  BY <1>4 DEF vars, Inv
<1> QED
  BY <1>1, <1>2, <1>3, <1>4 DEF Next

(* The invariant holds throughout every behaviour of the link.              *)
THEOREM Invariance == Spec => []Inv
<1>1. Init => Inv
  BY InitInv
<1>2. Inv /\ [Next]_vars => Inv'
  BY NextInv
<1> QED
  BY <1>1, <1>2, PTL DEF Spec

-----------------------------------------------------------------------------
(* The properties. *)

(* Every field keeps its type, and __connectToMS has opened the socket      *)
(* whenever a connect is pending.                                           *)
THEOREM TypeCorrect == Spec => []TypeOK
<1>1. Inv => TypeOK
  BY DEF Inv, LinkOK, TypeOK
<1> QED
  BY <1>1, Invariance, PTL

(* Until messages were once answered on top of each other, or one of        *)
(* several threw, the link has exactly one operation, completed handler or  *)
(* pending connect: __buf_recive, __buf_send and the parser have one user.  *)
THEOREM OneThingAtATime == Spec => []OneChain
<1>1. ASSUME Inv PROVE OneChain
  <2> DEFINE b == IF link.connecting THEN 1 ELSE 0
             k == Len(link.reads)
             n == Len(link.ready)
  <2>1. ASSUME Orderly(link) PROVE b + k + n = 1
    <3>1. Connecting(link) \/ Receiving(link) \/ Handling(link)
      BY <1>1, <2>1 DEF Inv, LinkOK, Sequential
    <3>2. CASE Connecting(link)
      <4>1. b = 1 /\ k = 0 /\ n = 0
        BY <3>2 DEF Connecting
      <4> HIDE DEF b, k, n
      <4> QED
        BY <4>1
    <3>3. CASE Receiving(link)
      <4>1. b = 0 /\ k = 1 /\ n = 0
        BY <3>3, AppendOne DEF Receiving
      <4> HIDE DEF b, k, n
      <4> QED
        BY <4>1
    <3>4. CASE Handling(link)
      <4>1. b = 0 /\ k = 0 /\ n = 1
        BY <3>4 DEF Handling
      <4> HIDE DEF b, k, n
      <4> QED
        BY <4>1
    <3> QED
      BY <3>1, <3>2, <3>3, <3>4
  <2>2. Chains = b + k + n
    BY Zenon DEF Chains
  <2> HIDE DEF b, k, n
  <2> QED
    BY <2>1, <2>2 DEF OneChain, Damaged, Orderly
<1> QED
  BY <1>1, Invariance, PTL

(* Until messages were once answered on top of each other, or one of        *)
(* several threw, the static counters of __reciveConnect and __reciveAnswer *)
(* are zero when no send is queued, however the writes before were split    *)
(* and whichever connection they were on.                                   *)
THEOREM CountersRest == Spec => []CounterAtRest
<1>1. ASSUME Inv PROVE CounterAtRest
  <2>1. ASSUME Orderly(link), ~ SendQueued(link) PROVE link.tempC = 0 /\ link.tempA = 0
    <3>1. Connecting(link) \/ Receiving(link) \/ Handling(link)
      BY <1>1, <2>1 DEF Inv, LinkOK, Sequential
    <3>2. CASE Handling(link)
      <4> DEFINE h == Head(link.ready)
      <4>1. link.ready \in Seq(Handler) /\ Len(link.ready) = 1 /\ Completed(link, h)
        BY <1>1, <3>2, InvFacts DEF Handling, Link
      <4>2. h \in Handler /\ 1 \in DOMAIN link.ready /\ link.ready[1] = h
        BY <4>1
      <4> HIDE DEF h
      <4>3. h.op \notin Sends
        BY <2>1, <4>2 DEF SendQueued
      <4>4. h.op = "sendConnect" \/ h.op \in Receives
        BY <4>2, <4>3 DEF Handler
      <4> QED
        BY <4>1, <4>4 DEF Completed, Resting
    <3> QED
      BY <3>1, <3>2 DEF Connecting, Receiving, Resting
  <2> QED
    BY <2>1 DEF CounterAtRest, Damaged, Orderly
<1> QED
  BY <1>1, Invariance, PTL

(* Until messages were once answered on top of each other, or one of        *)
(* several threw, no answer arrives twice, and none over another connection *)
(* than its request, whatever of an earlier connection is left in parser,   *)
(* queue and buffer.                                                        *)
THEOREM AnsweredOnce == Spec => []AnsweredOnceWhereAsked
<1>1. Inv => AnsweredOnceWhereAsked
  BY DEF Inv, LinkOK, Ledger, Paid, Orderly, AnsweredOnceWhereAsked, Damaged
<1> QED
  BY <1>1, Invariance, PTL
=============================================================================
