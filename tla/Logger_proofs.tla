---------------------------- MODULE Logger_proofs ----------------------------
(***************************************************************************)
(* TypeOK, LogInOrder and FileWithinLimit of Logger for messages of any     *)
(* sizes, a queue and files of any limits, and any number of faults.  The   *)
(* three together are inductive; what has to be shown first is what the     *)
(* recursive functions of Bytes and FlattenSeq make of a text that grows.   *)
(***************************************************************************)
EXTENDS Logger, Induction, SequenceTheorems

-----------------------------------------------------------------------------
(* The bytes of a text. *)

IsSum(g, z, t, k) == g = [i \in 0..k |-> IF i = 0 THEN 0 ELSE g[i - 1] + z[t[i]]]

LEMMA SumFacts ==
    ASSUME NEW g, NEW z, NEW t, NEW k \in Nat, IsSum(g, z, t, k)
    PROVE  /\ g[0] = 0
           /\ \A i \in 1..k : g[i] = g[i - 1] + z[t[i]]
<1>1. 0 \in 0..k /\ \A i \in 1..k : i \in 0..k /\ i # 0
  OBVIOUS
<1>2. \A i \in 0..k : g[i] = IF i = 0 THEN 0 ELSE g[i - 1] + z[t[i]]
  BY Zenon DEF IsSum
<1> QED
  BY <1>1, <1>2

LEMMA SumExists ==
    ASSUME NEW z, NEW t
    PROVE  \A k \in Nat : \E g : IsSum(g, z, t, k)
<1> DEFINE S == {k \in Nat : \E g : IsSum(g, z, t, k)}
<1>1. 0 \in S
  <2> DEFINE g == [i \in 0..0 |-> 0]
  <2>1. g = [i \in 0..0 |-> IF i = 0 THEN 0 ELSE g[i - 1] + z[t[i]]]
    <3>1. \A i \in 0..0 : i = 0
      OBVIOUS
    <3> QED
      BY <3>1
  <2> HIDE DEF g
  <2>2. IsSum(g, z, t, 0)
    BY <2>1, Zenon DEF IsSum
  <2> QED
    BY <2>2
<1>2. ASSUME NEW k \in S PROVE k + 1 \in S
  <2>1. k \in Nat
    OBVIOUS
  <2>2. PICK g : IsSum(g, z, t, k)
    OBVIOUS
  <2> DEFINE last == g[k] + z[t[k + 1]]
             h == [i \in 0..(k + 1) |-> IF i = k + 1 THEN last ELSE g[i]]
  <2>3. g[0] = 0 /\ \A i \in 1..k : g[i] = g[i - 1] + z[t[i]]
    BY <2>1, <2>2, SumFacts
  <2> HIDE DEF last
  <2>4. \A i \in 0..(k + 1) : h[i] = IF i = k + 1 THEN last ELSE g[i]
    OBVIOUS
  <2>5. h = [i \in 0..(k + 1) |-> h[i]]
    OBVIOUS
  <2> HIDE DEF h
  <2>6. \A i \in 0..(k + 1) : h[i] = IF i = 0 THEN 0 ELSE h[i - 1] + z[t[i]]
    <3> SUFFICES ASSUME NEW i \in 0..(k + 1)
                 PROVE  h[i] = IF i = 0 THEN 0 ELSE h[i - 1] + z[t[i]]
      OBVIOUS
    <3>1. CASE i = 0
      BY <2>1, <2>3, <2>4, <3>1
    <3>2. CASE i = k + 1
      <4>1. i # 0 /\ i - 1 = k /\ k \in 0..(k + 1) /\ k # k + 1
        BY <2>1, <3>2
      <4>2. h[i] = last /\ h[i - 1] = g[k]
        BY <2>4, <3>2, <4>1
      <4> QED
        BY <3>2, <4>1, <4>2 DEF last
    <3>3. CASE i # 0 /\ i # k + 1
      <4>1. i \in 1..k /\ i - 1 \in 0..(k + 1) /\ i - 1 # k + 1
        BY <2>1, <3>3
      <4>2. h[i] = g[i] /\ h[i - 1] = g[i - 1]
        BY <2>4, <3>3, <4>1
      <4> QED
        BY <2>3, <3>3, <4>1, <4>2
    <3> QED
      BY <3>1, <3>2, <3>3
  <2>7. IsSum(h, z, t, k + 1)
    BY <2>5, <2>6, Zenon DEF IsSum
  <2> QED
    BY <2>1, <2>7
<1> HIDE DEF S
<1>3. S \in SUBSET Nat
  BY DEF S
<1>4. S = Nat
  BY <1>1, <1>2, <1>3, SetInduction
<1> QED
  BY <1>4 DEF S

LEMMA BytesAre ==
    ASSUME NEW z, NEW t, Len(t) \in Nat
    PROVE  \E g : IsSum(g, z, t, Len(t)) /\ Bytes(z, t) = g[Len(t)]
<1> DEFINE g == CHOOSE a : IsSum(a, z, t, Len(t))
<1>1. Bytes(z, t) = g[Len(t)]
  BY Zenon DEF Bytes, IsSum
<1>2. \E a : IsSum(a, z, t, Len(t))
  BY SumExists
<1>3. IsSum(g, z, t, Len(t))
  BY <1>2
<1> QED
  BY <1>1, <1>3

(* Two sums over the same sizes agree.                                      *)
LEMMA SumUnique ==
    ASSUME NEW g, NEW z, NEW t, NEW k \in Nat, IsSum(g, z, t, k),
           NEW h, NEW y, NEW u, NEW m \in Nat, IsSum(h, y, u, m),
           NEW n \in Nat, n <= k, n <= m,
           \A i \in 1..n : z[t[i]] = y[u[i]]
    PROVE  g[n] = h[n]
<1> DEFINE S == {i \in Nat : i <= n => g[i] = h[i]}
<1>1. /\ g[0] = 0 /\ \A i \in 1..k : g[i] = g[i - 1] + z[t[i]]
      /\ h[0] = 0 /\ \A i \in 1..m : h[i] = h[i - 1] + y[u[i]]
  BY SumFacts
<1>2. 0 \in S
  BY <1>1
<1>3. ASSUME NEW i \in S PROVE i + 1 \in S
  <2> SUFFICES ASSUME i + 1 <= n PROVE g[i + 1] = h[i + 1]
    OBVIOUS
  <2>1. i + 1 \in 1..n /\ i + 1 \in 1..k /\ i + 1 \in 1..m /\ (i + 1) - 1 = i /\ i <= n
    OBVIOUS
  <2>2. g[i] = h[i]
    BY <2>1
  <2>3. g[i + 1] = g[i] + z[t[i + 1]] /\ h[i + 1] = h[i] + y[u[i + 1]]
    BY <1>1, <2>1
  <2> QED
    BY <2>1, <2>2, <2>3
<1>4. S \in SUBSET Nat
  OBVIOUS
<1> HIDE DEF S
<1>5. S = Nat
  BY <1>2, <1>3, <1>4, SetInduction
<1> QED
  BY <1>5 DEF S

LEMMA SumType ==
    ASSUME NEW g, NEW z, NEW t, NEW k \in Nat, IsSum(g, z, t, k),
           \A i \in 1..k : z[t[i]] \in Nat
    PROVE  \A i \in 0..k : g[i] \in Nat
<1> DEFINE S == {i \in Nat : i <= k => g[i] \in Nat}
<1>1. g[0] = 0 /\ \A i \in 1..k : g[i] = g[i - 1] + z[t[i]]
  BY SumFacts
<1>2. 0 \in S
  BY <1>1
<1>3. ASSUME NEW i \in S PROVE i + 1 \in S
  <2> SUFFICES ASSUME i + 1 <= k PROVE g[i + 1] \in Nat
    OBVIOUS
  <2>1. i + 1 \in 1..k /\ (i + 1) - 1 = i /\ i <= k
    OBVIOUS
  <2>2. g[i] \in Nat /\ z[t[i + 1]] \in Nat
    BY <2>1
  <2>3. g[i + 1] = g[i] + z[t[i + 1]]
    BY <1>1, <2>1
  <2> QED
    BY <2>2, <2>3
<1>4. S \in SUBSET Nat
  OBVIOUS
<1> HIDE DEF S
<1>5. S = Nat
  BY <1>2, <1>3, <1>4, SetInduction
<1> QED
  BY <1>5 DEF S

(* A message more changes no size that was counted.                         *)
LEMMA BytesSame ==
    ASSUME NEW z, NEW y, NEW t, Len(t) \in Nat, \A i \in 1..Len(t) : z[t[i]] = y[t[i]]
    PROVE  Bytes(z, t) = Bytes(y, t)
<1> DEFINE n == Len(t)
<1>1. PICK g : IsSum(g, z, t, n) /\ Bytes(z, t) = g[n]
  BY BytesAre
<1>2. PICK h : IsSum(h, y, t, n) /\ Bytes(y, t) = h[n]
  BY BytesAre
<1>3. n \in Nat /\ n <= n /\ \A i \in 1..n : z[t[i]] = y[t[i]]
  OBVIOUS
<1> HIDE DEF n
<1>4. g[n] = h[n]
  BY <1>1, <1>2, <1>3, SumUnique
<1> QED
  BY <1>1, <1>2, <1>4

LEMMA BytesType ==
    ASSUME NEW z, NEW t, Len(t) \in Nat, \A i \in 1..Len(t) : z[t[i]] \in Nat
    PROVE  Bytes(z, t) \in Nat
<1> DEFINE n == Len(t)
<1>1. PICK g : IsSum(g, z, t, n) /\ Bytes(z, t) = g[n]
  BY BytesAre
<1>2. n \in Nat /\ n \in 0..n /\ \A i \in 1..n : z[t[i]] \in Nat
  OBVIOUS
<1> HIDE DEF n
<1>3. g[n] \in Nat
  BY <1>1, <1>2, SumType
<1> QED
  BY <1>1, <1>3

LEMMA BytesEmpty == \A z : Bytes(z, <<>>) = 0
<1> SUFFICES ASSUME NEW z PROVE Bytes(z, <<>>) = 0
  OBVIOUS
<1> DEFINE t == <<>>
<1>1. Len(t) = 0
  OBVIOUS
<1> HIDE DEF t
<1>2. PICK g : IsSum(g, z, t, 0) /\ Bytes(z, t) = g[0]
  BY <1>1, BytesAre
<1>3. g[0] = 0
  BY <1>2, SumFacts
<1> QED
  BY <1>2, <1>3 DEF t

LEMMA TimesMonotonic ==
    ASSUME NEW a \in Nat, NEW b \in Nat, NEW c \in Nat, a <= b
    PROVE  a * c <= b * c
<1>1. PICK d \in Nat : b = a + d
  <2>1. b - a \in Nat /\ b = a + (b - a)
    OBVIOUS
  <2> QED
    BY <2>1
<1>2. d * c \in Nat
  OBVIOUS
<1>3. (a + d) * c = a * c + d * c
  OBVIOUS
<1> QED
  BY <1>1, <1>2, <1>3

LEMMA TimesCancel ==
    ASSUME NEW a \in Nat, NEW b \in Nat, NEW c \in Nat, c # 0, a * c <= b * c
    PROVE  a <= b
<1> SUFFICES ASSUME ~ (a <= b) PROVE FALSE
  OBVIOUS
<1>1. b + 1 \in Nat /\ b + 1 <= a
  OBVIOUS
<1>2. (b + 1) * c <= a * c
  BY <1>1, TimesMonotonic
<1>3. (b + 1) * c = b * c + c
  OBVIOUS
<1>4. b * c \in Nat /\ a * c \in Nat
  OBVIOUS
<1> QED
  BY <1>2, <1>3, <1>4

(* What q messages of at most d / q bytes add to a text.                    *)
LEMMA BytesBound ==
    ASSUME NEW S, NEW z, \A m \in S : z[m] \in Nat, NEW t \in Seq(S), NEW w \in Seq(S),
           NEW d \in Nat, NEW q \in Nat, q # 0, Len(w) <= q,
           \A i \in 1..Len(w) : z[w[i]] * q <= d
    PROVE  Bytes(z, t \o w) <= Bytes(z, t) + d
<1> DEFINE u == t \o w
           l == Len(t)
           n == Len(w)
<1>1. l \in Nat /\ n \in Nat /\ Len(u) = l + n
  BY ConcatProperties, LenProperties
<1>2. /\ \A i \in 1..l : t[i] \in S /\ u[i] = t[i]
      /\ \A i \in 1..n : w[i] \in S /\ u[l + i] = w[i]
  BY ConcatProperties, LenProperties
<1>3. \A i \in 1..(l + n) : z[u[i]] \in Nat
  <2>1. \A i \in 1..(l + n) : u[i] \in S
    BY ConcatProperties, LenProperties
  <2> QED
    BY <2>1
<1>4. /\ \A i \in 1..n : z[w[i]] * q <= d
      /\ n <= q /\ \A i \in 1..n : z[w[i]] \in Nat
  BY <1>2
<1> HIDE DEF u
<1>5. PICK g : IsSum(g, z, t, l) /\ Bytes(z, t) = g[l]
  BY <1>1, BytesAre
<1>6. PICK h : IsSum(h, z, u, l + n) /\ Bytes(z, u) = h[l + n]
  BY <1>1, BytesAre
<1> HIDE DEF l, n
<1>7. g[l] = h[l]
  <2>1. l + n \in Nat /\ l <= l /\ l <= l + n /\ \A i \in 1..l : z[t[i]] = z[u[i]]
    BY <1>1, <1>2
  <2> QED
    BY <1>1, <1>5, <1>6, <2>1, SumUnique
<1>8. \A i \in 0..(l + n) : h[i] \in Nat
  <2>1. l + n \in Nat
    BY <1>1
  <2> QED
    BY <1>3, <1>6, <2>1, SumType
<1>9. \A i \in 1..(l + n) : h[i] = h[i - 1] + z[u[i]]
  <2>1. l + n \in Nat
    BY <1>1
  <2> QED
    BY <1>6, <2>1, SumFacts
<1> DEFINE K == {k \in Nat : k <= n => h[l + k] * q <= h[l] * q + k * d}
<1>10. h[l] \in Nat
  BY <1>1, <1>8
<1>11. 0 \in K
  <2>1. l + 0 = l /\ 0 * d = 0 /\ h[l] * q \in Nat
    BY <1>1, <1>10
  <2> QED
    BY <2>1
<1>12. ASSUME NEW k \in K PROVE k + 1 \in K
  <2> SUFFICES ASSUME k + 1 <= n PROVE h[l + (k + 1)] * q <= h[l] * q + (k + 1) * d
    OBVIOUS
  <2>1. /\ k \in Nat /\ k <= n /\ k + 1 \in 1..n /\ l + k \in 0..(l + n)
        /\ l + (k + 1) \in 1..(l + n) /\ (l + (k + 1)) - 1 = l + k
    BY <1>1
  <2>2. h[l + k] * q <= h[l] * q + k * d
    BY <2>1
  <2> DEFINE a == h[l + k]
             b == z[w[k + 1]]
             c == h[l]
  <2>3. h[l + (k + 1)] = a + b
    BY <1>2, <1>9, <2>1
  <2>4. a \in Nat /\ b \in Nat /\ c \in Nat /\ b * q <= d
    BY <1>4, <1>8, <1>10, <2>1
  <2> HIDE DEF a, b, c
  <2>5. (a + b) * q = a * q + b * q /\ (k + 1) * d = k * d + d
    BY <2>1, <2>4
  <2>6. a * q \in Nat /\ b * q \in Nat /\ c * q \in Nat /\ k * d \in Nat
    BY <2>1, <2>4
  <2>7. a * q <= c * q + k * d
    BY <2>2 DEF a, c
  <2>8. a * q + b * q <= c * q + (k * d + d)
    BY <2>4, <2>6, <2>7
  <2> QED
    BY <2>3, <2>5, <2>8 DEF c
<1>13. n \in K
  <2>1. K \in SUBSET Nat
    OBVIOUS
  <2> HIDE DEF K
  <2>2. K = Nat
    BY <1>11, <1>12, <2>1, SetInduction
  <2> QED
    BY <1>1, <2>2
<1>14. h[l + n] <= h[l] + d
  <2> DEFINE a == h[l + n]
             c == h[l]
  <2>1. a \in Nat /\ c \in Nat
    BY <1>1, <1>8
  <2>2. a * q <= c * q + n * d
    BY <1>1, <1>13
  <2> HIDE DEF a, c, K
  <2>3. n * d <= q * d
    BY <1>1, <1>4, TimesMonotonic
  <2>4. (c + d) * q = c * q + q * d
    BY <2>1
  <2>5. a * q \in Nat /\ c * q \in Nat /\ n * d \in Nat /\ q * d \in Nat
    BY <1>1, <2>1
  <2>6. a * q <= c * q + q * d
    BY <2>2, <2>3, <2>5
  <2>7. a * q <= (c + d) * q /\ c + d \in Nat
    BY <2>1, <2>4, <2>6
  <2>8. a <= c + d
    BY <2>1, <2>7, TimesCancel
  <2> QED
    BY <2>8 DEF a, c
<1> QED
  BY <1>5, <1>6, <1>7, <1>14 DEF u

-----------------------------------------------------------------------------
(* All texts one after the other. *)

IsFlat(g, s, k) == g = [i \in 1..k |-> IF i = 1 THEN s[i] ELSE g[i - 1] \o s[i]]

Joined(g, s, k) == /\ 1 <= k => g[1] = s[1]
                   /\ \A i \in 2..k : g[i] = g[i - 1] \o s[i]

LEMMA FlatFacts ==
    ASSUME NEW g, NEW s, NEW k \in Nat, IsFlat(g, s, k)
    PROVE  Joined(g, s, k)
<1>1. (1 <= k => 1 \in 1..k) /\ \A i \in 2..k : i \in 1..k /\ i # 1
  OBVIOUS
<1>2. \A i \in 1..k : g[i] = IF i = 1 THEN s[i] ELSE g[i - 1] \o s[i]
  BY Zenon DEF IsFlat
<1>3. ASSUME 1 <= k PROVE g[1] = s[1]
  <2>1. 1 \in 1..k
    BY <1>1, <1>3
  <2> QED
    BY <1>2, <2>1, Zenon
<1>4. ASSUME NEW i \in 2..k PROVE g[i] = g[i - 1] \o s[i]
  <2>1. i \in 1..k /\ i # 1
    BY <1>1
  <2> QED
    BY <1>2, <2>1, Zenon
<1> QED
  BY <1>3, <1>4 DEF Joined

LEMMA FlatExists ==
    ASSUME NEW s
    PROVE  \A k \in Nat : \E g : IsFlat(g, s, k)
<1> DEFINE S == {k \in Nat : \E g : IsFlat(g, s, k)}
<1>1. 0 \in S
  <2> DEFINE g == [i \in 1..0 |-> s[i]]
  <2>1. g = [i \in 1..0 |-> IF i = 1 THEN s[i] ELSE g[i - 1] \o s[i]]
    <3>1. 1..0 = {}
      OBVIOUS
    <3> QED
      BY <3>1, Zenon
  <2> HIDE DEF g
  <2>2. IsFlat(g, s, 0)
    BY <2>1, Zenon DEF IsFlat
  <2> QED
    BY <2>2
<1>2. ASSUME NEW k \in S PROVE k + 1 \in S
  <2>1. k \in Nat
    OBVIOUS
  <2>2. PICK g : IsFlat(g, s, k)
    OBVIOUS
  <2> DEFINE last == IF k = 0 THEN s[k + 1] ELSE g[k] \o s[k + 1]
             h == [i \in 1..(k + 1) |-> IF i = k + 1 THEN last ELSE g[i]]
  <2>3. (1 <= k => g[1] = s[1]) /\ \A i \in 2..k : g[i] = g[i - 1] \o s[i]
    BY <2>1, <2>2, FlatFacts DEF Joined
  <2>4. \A i \in 1..(k + 1) : h[i] = IF i = k + 1 THEN last ELSE g[i]
    BY Zenon
  <2>5. h = [i \in 1..(k + 1) |-> h[i]]
    BY Zenon
  <2> HIDE DEF h
  <2>6. \A i \in 1..(k + 1) : h[i] = IF i = 1 THEN s[i] ELSE h[i - 1] \o s[i]
    <3> SUFFICES ASSUME NEW i \in 1..(k + 1)
                 PROVE  h[i] = IF i = 1 THEN s[i] ELSE h[i - 1] \o s[i]
      OBVIOUS
    <3>1. CASE k = 0
      <4>1. i = 1 /\ i = k + 1
        BY <3>1
      <4>2. h[i] = last /\ last = s[i]
        BY <2>4, <3>1, <4>1
      <4> QED
        BY <4>1, <4>2
    <3>2. CASE k # 0 /\ i = k + 1
      <4>1. i # 1 /\ i - 1 = k /\ k \in 1..(k + 1) /\ k # k + 1
        BY <2>1, <3>2
      <4>2. h[i] = last /\ h[i - 1] = g[k] /\ last = g[k] \o s[i]
        BY <2>4, <3>2, <4>1
      <4> QED
        BY <4>1, <4>2
    <3>3. CASE i # k + 1 /\ i = 1
      <4>1. 1 <= k /\ 1 \in 1..(k + 1)
        BY <2>1, <3>3
      <4>2. h[i] = g[1]
        BY <2>4, <3>3
      <4> QED
        BY <2>3, <3>3, <4>1, <4>2
    <3>4. CASE i # k + 1 /\ i # 1
      <4>1. i \in 2..k /\ i - 1 \in 1..(k + 1) /\ i - 1 # k + 1
        BY <2>1, <3>4
      <4>2. h[i] = g[i] /\ h[i - 1] = g[i - 1]
        BY <2>4, <3>4, <4>1
      <4> QED
        BY <2>3, <3>4, <4>1, <4>2
    <3>5. k = 0 \/ k # 0
      OBVIOUS
    <3> QED
      BY <3>1, <3>2, <3>3, <3>4, <3>5
  <2>7. IsFlat(h, s, k + 1)
    BY <2>5, <2>6, Zenon DEF IsFlat
  <2> QED
    BY <2>1, <2>7
<1> HIDE DEF S
<1>3. S \in SUBSET Nat
  BY DEF S
<1>4. S = Nat
  BY <1>1, <1>2, <1>3, SetInduction
<1> QED
  BY <1>4 DEF S

LEMMA FlatIs ==
    ASSUME NEW s, Len(s) \in Nat, Len(s) # 0
    PROVE  \E g : IsFlat(g, s, Len(s)) /\ FlattenSeq(s) = g[Len(s)]
<1> DEFINE g == CHOOSE a : IsFlat(a, s, Len(s))
<1>1. FlattenSeq(s) = g[Len(s)]
  BY Zenon DEF FlattenSeq, IsFlat
<1>2. \E a : IsFlat(a, s, Len(s))
  BY FlatExists
<1>3. IsFlat(g, s, Len(s))
  BY <1>2
<1> QED
  BY <1>1, <1>3

LEMMA FlatUnique ==
    ASSUME NEW g, NEW s, NEW k \in Nat, IsFlat(g, s, k),
           NEW h, NEW u, NEW m \in Nat, IsFlat(h, u, m),
           NEW n \in Nat, n # 0, n <= k, n <= m,
           \A i \in 1..n : s[i] = u[i]
    PROVE  g[n] = h[n]
<1> DEFINE S == {i \in Nat : i <= n /\ i # 0 => g[i] = h[i]}
<1>1. /\ g[1] = s[1] /\ \A i \in 2..k : g[i] = g[i - 1] \o s[i]
      /\ h[1] = u[1] /\ \A i \in 2..m : h[i] = h[i - 1] \o u[i]
  <2>1. 1 <= k /\ 1 <= m
    OBVIOUS
  <2>2. Joined(g, s, k) /\ Joined(h, u, m)
    BY FlatFacts
  <2> QED
    BY <2>1, <2>2 DEF Joined
<1>2. 0 \in S
  OBVIOUS
<1>3. ASSUME NEW i \in S PROVE i + 1 \in S
  <2> SUFFICES ASSUME i + 1 <= n PROVE g[i + 1] = h[i + 1]
    OBVIOUS
  <2>1. CASE i = 0
    <3>1. 1 \in 1..n /\ i + 1 = 1
      BY <2>1
    <3> QED
      BY <1>1, <3>1
  <2>2. CASE i # 0
    <3>1. i + 1 \in 1..n /\ i + 1 \in 2..k /\ i + 1 \in 2..m /\ (i + 1) - 1 = i /\ i <= n
      BY <2>2
    <3>2. g[i] = h[i]
      BY <2>2, <3>1
    <3>3. g[i + 1] = g[i] \o s[i + 1] /\ h[i + 1] = h[i] \o u[i + 1]
      BY <1>1, <3>1
    <3> QED
      BY <3>1, <3>2, <3>3
  <2> QED
    BY <2>1, <2>2
<1>4. S \in SUBSET Nat
  OBVIOUS
<1> HIDE DEF S
<1>5. S = Nat
  BY <1>2, <1>3, <1>4, SetInduction
<1> QED
  BY <1>5 DEF S

LEMMA FlatTypes ==
    ASSUME NEW T, NEW g, NEW s, NEW k \in Nat, IsFlat(g, s, k), \A i \in 1..k : s[i] \in Seq(T)
    PROVE  \A i \in 1..k : g[i] \in Seq(T)
<1> DEFINE S == {i \in Nat : i <= k /\ i # 0 => g[i] \in Seq(T)}
<1>1. (1 <= k => g[1] = s[1]) /\ \A i \in 2..k : g[i] = g[i - 1] \o s[i]
  BY FlatFacts DEF Joined
<1>2. 0 \in S
  OBVIOUS
<1>3. ASSUME NEW i \in S PROVE i + 1 \in S
  <2> SUFFICES ASSUME i + 1 <= k PROVE g[i + 1] \in Seq(T)
    OBVIOUS
  <2>1. CASE i = 0
    <3>1. 1 \in 1..k /\ i + 1 = 1 /\ 1 <= k
      BY <2>1
    <3> QED
      BY <1>1, <3>1
  <2>2. CASE i # 0
    <3>1. i + 1 \in 1..k /\ i + 1 \in 2..k /\ (i + 1) - 1 = i /\ i <= k
      BY <2>2
    <3>2. g[i] \in Seq(T) /\ s[i + 1] \in Seq(T)
      BY <2>2, <3>1
    <3>3. g[i + 1] = g[i] \o s[i + 1]
      BY <1>1, <3>1
    <3> QED
      BY <3>2, <3>3, ConcatProperties
  <2> QED
    BY <2>1, <2>2
<1>4. S \in SUBSET Nat
  OBVIOUS
<1> HIDE DEF S
<1>5. S = Nat
  BY <1>2, <1>3, <1>4, SetInduction
<1> QED
  BY <1>5 DEF S

LEMMA FlattenType ==
    ASSUME NEW T, NEW s \in Seq(Seq(T))
    PROVE  FlattenSeq(s) \in Seq(T)
<1>1. Len(s) \in Nat /\ \A i \in 1..Len(s) : s[i] \in Seq(T)
  BY LenProperties, ElementOfSeq
<1>2. CASE Len(s) = 0
  <2>1. FlattenSeq(s) = s /\ s = <<>>
    BY <1>2 DEF FlattenSeq
  <2> QED
    BY <2>1
<1>3. CASE Len(s) # 0
  <2> DEFINE n == Len(s)
  <2>1. PICK g : IsFlat(g, s, n) /\ FlattenSeq(s) = g[n]
    BY <1>1, <1>3, FlatIs
  <2>2. n \in Nat /\ n \in 1..n /\ \A i \in 1..n : s[i] \in Seq(T)
    BY <1>1, <1>3
  <2> HIDE DEF n
  <2>3. g[n] \in Seq(T)
    BY <2>1, <2>2, FlatTypes
  <2> QED
    BY <2>1, <2>3
<1> QED
  BY <1>2, <1>3

(* What is added to the last text is added to all of them.                  *)
LEMMA FlattenLast ==
    ASSUME NEW T, NEW s \in Seq(Seq(T)), NEW u \in Seq(Seq(T)), NEW q \in Seq(T),
           NEW n \in Nat, n # 0, Len(s) = n, Len(u) = n,
           \A i \in 1..n : i # n => u[i] = s[i],
           u[n] = s[n] \o q
    PROVE  FlattenSeq(u) = FlattenSeq(s) \o q
<1>1. \A i \in 1..n : s[i] \in Seq(T) /\ u[i] \in Seq(T)
  BY ElementOfSeq
<1>2. PICK g : IsFlat(g, s, n) /\ FlattenSeq(s) = g[n]
  BY FlatIs
<1>3. PICK h : IsFlat(h, u, n) /\ FlattenSeq(u) = h[n]
  BY FlatIs
<1>4. /\ g[1] = s[1] /\ \A i \in 2..n : g[i] = g[i - 1] \o s[i]
      /\ h[1] = u[1] /\ \A i \in 2..n : h[i] = h[i - 1] \o u[i]
  <2>1. 1 <= n
    OBVIOUS
  <2>2. Joined(g, s, n) /\ Joined(h, u, n)
    BY <1>2, <1>3, FlatFacts
  <2> QED
    BY <2>1, <2>2 DEF Joined
<1>5. CASE n = 1
  BY <1>2, <1>3, <1>4, <1>5
<1>6. CASE n # 1
  <2> DEFINE m == n - 1
             a == g[m]
             b == s[n]
  <2>1. m \in Nat /\ m # 0 /\ m <= n /\ n \in 2..n /\ m \in 1..n /\ n \in 1..n
    BY <1>6
  <2>2. \A i \in 1..m : s[i] = u[i]
    OBVIOUS
  <2>3. g[m] = h[m]
    <3>1. IsFlat(g, s, n) /\ IsFlat(h, u, n)
      BY <1>2, <1>3
    <3>2. m <= n /\ m \in Nat /\ m # 0
      BY <2>1
    <3> HIDE DEF m
    <3> QED
      BY ONLY n \in Nat, <2>2, <3>1, <3>2, FlatUnique
  <2>4. a \in Seq(T)
    <3> HIDE DEF m
    <3> QED
      BY <1>1, <1>2, <2>1, FlatTypes DEF a
  <2>5. b \in Seq(T)
    BY <1>1, <2>1
  <2>6. g[n] = a \o b /\ h[n] = a \o (b \o q)
    BY <1>4, <2>1, <2>3
  <2> HIDE DEF a, b, m
  <2>7. (a \o b) \o q = a \o (b \o q)
    BY ONLY q \in Seq(T), <2>4, <2>5, ConcatAssociative
  <2> QED
    BY <1>2, <1>3, <2>6, <2>7
<1> QED
  BY <1>5, <1>6

LEMMA FlattenAppend ==
    ASSUME NEW T, NEW s \in Seq(Seq(T)), NEW t \in Seq(T)
    PROVE  FlattenSeq(Append(s, t)) = FlattenSeq(s) \o t
<1> DEFINE u == Append(s, t)
           n == Len(s)
<1>1. /\ n \in Nat /\ Len(u) = n + 1 /\ u[n + 1] = t
      /\ \A i \in 1..n : u[i] = s[i]
  BY AppendProperties, LenProperties
<1> HIDE DEF u
<1>2. n + 1 \in Nat /\ n + 1 # 0
  BY <1>1
<1>3. PICK h : IsFlat(h, u, n + 1) /\ FlattenSeq(u) = h[n + 1]
  BY <1>1, <1>2, FlatIs
<1>4. /\ h[1] = u[1] /\ \A i \in 2..(n + 1) : h[i] = h[i - 1] \o u[i]
  <2>1. 1 <= n + 1
    BY <1>1
  <2>2. Joined(h, u, n + 1)
    BY <1>2, <1>3, FlatFacts
  <2> QED
    BY <2>1, <2>2 DEF Joined
<1>5. CASE n = 0
  <2>1. s = <<>> /\ FlattenSeq(s) = <<>>
    BY <1>5 DEF FlattenSeq
  <2>2. h[n + 1] = t
    BY <1>1, <1>4, <1>5
  <2>3. <<>> \o t = t
    BY ConcatEmptySeq
  <2> QED
    BY <1>3, <2>1, <2>2, <2>3 DEF u
<1>6. CASE n # 0
  <2>1. PICK g : IsFlat(g, s, n) /\ FlattenSeq(s) = g[n]
    BY <1>1, <1>6, FlatIs
  <2> HIDE DEF n
  <2>2. n <= n /\ n <= n + 1 /\ n + 1 \in 2..(n + 1) /\ (n + 1) - 1 = n
    BY <1>1, <1>6
  <2>3. g[n] = h[n]
    BY <1>1, <1>2, <1>3, <1>6, <2>1, <2>2, FlatUnique
  <2>4. h[n + 1] = h[n] \o t
    BY <1>1, <1>4, <2>2
  <2> QED
    BY <1>3, <2>1, <2>3, <2>4 DEF u
<1> QED
  BY <1>5, <1>6

-----------------------------------------------------------------------------
(* The files. *)

Texts(f) == [i \in DOMAIN f |-> f[i].text]
Flat(f) == FlattenSeq(Texts(f))

LEMMA FileFacts ==
    /\ NewFile \in File /\ NewFile.text = <<>> /\ ~ NewFile.late
    /\ \A x \in File : x.text \in Seq(Nat) /\ x.late \in BOOLEAN /\ x.exists \in BOOLEAN
BY DEF NewFile, File

LEMMA TextsType ==
    ASSUME NEW f \in Seq(File)
    PROVE  /\ Texts(f) \in Seq(Seq(Nat)) /\ Len(Texts(f)) = Len(f)
           /\ \A i \in 1..Len(f) : Texts(f)[i] = f[i].text
           /\ Flat(f) \in Seq(Nat)
<1> DEFINE n == Len(f)
           t == Texts(f)
<1>1. n \in Nat /\ DOMAIN f = 1..n /\ \A i \in 1..n : f[i].text \in Seq(Nat)
  BY LenProperties, ElementOfSeq, FileFacts
<1>2. t = [i \in 1..n |-> f[i].text]
  BY <1>1 DEF Texts
<1>3. t \in [1..n -> Seq(Nat)] /\ \A i \in 1..n : t[i] = f[i].text
  BY <1>1, <1>2
<1> HIDE DEF t, n
<1>4. t \in Seq(Seq(Nat)) /\ Len(t) = n
  BY <1>1, <1>3
<1>5. FlattenSeq(t) \in Seq(Nat)
  BY <1>4, FlattenType
<1> QED
  BY <1>3, <1>4, <1>5 DEF t, n, Flat

(* A new file adds nothing, a text that grows adds what it grows by.        *)
LEMMA FlatNew ==
    ASSUME NEW f \in Seq(File)
    PROVE  Flat(Append(f, NewFile)) = Flat(f)
<1> DEFINE g == Append(f, NewFile)
           n == Len(f)
           t == Texts(f)
           e == <<>>
<1>1. /\ g \in Seq(File) /\ Len(g) = n + 1 /\ n \in Nat /\ g[n + 1] = NewFile
      /\ \A i \in 1..n : g[i] = f[i]
  BY AppendProperties, LenProperties, FileFacts
<1> HIDE DEF g
<1>2. /\ t \in Seq(Seq(Nat)) /\ Len(t) = n /\ e \in Seq(Nat)
      /\ \A i \in 1..n : t[i] = f[i].text
  BY TextsType
<1> HIDE DEF t, n
<1>3. Texts(g) \in Seq(Seq(Nat)) /\ Len(Texts(g)) = n + 1 /\ \A i \in 1..(n + 1) : Texts(g)[i] = g[i].text
  <2>1. /\ Texts(g) \in Seq(Seq(Nat)) /\ Len(Texts(g)) = Len(g)
        /\ \A i \in 1..Len(g) : Texts(g)[i] = g[i].text
    BY <1>1, TextsType
  <2> QED
    BY <1>1, <2>1
<1>4. /\ Append(t, e) \in Seq(Seq(Nat)) /\ Len(Append(t, e)) = n + 1 /\ Append(t, e)[n + 1] = e
      /\ \A i \in 1..n : Append(t, e)[i] = t[i]
  <2> HIDE DEF e
  <2> QED
    BY <1>1, <1>2, AppendProperties
<1> DEFINE a == Append(t, e)
           b == Texts(g)
<1>5. \A i \in 1..(n + 1) : a[i] = b[i]
  <2> SUFFICES ASSUME NEW i \in 1..(n + 1) PROVE a[i] = b[i]
    OBVIOUS
  <2>1. b[i] = g[i].text
    BY <1>3
  <2>2. CASE i = n + 1
    <3>1. g[i] = NewFile /\ a[i] = e
      BY <1>1, <1>4, <2>2
    <3>2. NewFile.text = e
      BY FileFacts
    <3> HIDE DEF a, b, e
    <3> QED
      BY <2>1, <3>1, <3>2
  <2>3. CASE i # n + 1
    <3>1. i \in 1..n
      BY <1>1, <2>3
    <3>2. a[i] = t[i] /\ t[i] = f[i].text /\ g[i] = f[i]
      BY <1>1, <1>2, <1>4, <3>1
    <3> HIDE DEF a, b
    <3> QED
      BY <2>1, <3>2
  <2> QED
    BY <2>2, <2>3
<1>6. a = b
  <2>1. a \in Seq(Seq(Nat)) /\ b \in Seq(Seq(Nat)) /\ Len(a) = n + 1 /\ Len(b) = n + 1
    BY <1>3, <1>4
  <2> HIDE DEF a, b
  <2> QED
    BY <1>5, <2>1, SeqEqual
<1>7. FlattenSeq(a) = FlattenSeq(t) \o e
  <2> HIDE DEF e
  <2> QED
    BY <1>2, FlattenAppend
<1>8. FlattenSeq(t) \in Seq(Nat)
  BY <1>2, FlattenType
<1>9. FlattenSeq(t) \o e = FlattenSeq(t)
  BY <1>8, ConcatEmptySeq
<1> QED
  BY <1>6, <1>7, <1>9 DEF Flat, t, g

LEMMA FlatGrows ==
    ASSUME NEW f \in Seq(File), f # <<>>, NEW q \in Seq(Nat), NEW x \in File,
           x.text = f[Len(f)].text \o q
    PROVE  Flat([f EXCEPT ![Len(f)] = x]) = Flat(f) \o q
<1> DEFINE n == Len(f)
           g == [f EXCEPT ![n] = x]
           t == Texts(f)
           u == Texts(g)
<1>1. n \in Nat /\ n # 0 /\ n \in 1..n
  BY EmptySeq
<1>2. /\ g \in Seq(File) /\ Len(g) = n
      /\ \A i \in 1..n : g[i] = IF i = n THEN x ELSE f[i]
  BY <1>1, ExceptSeq
<1>3. t \in Seq(Seq(Nat)) /\ Len(t) = n /\ \A i \in 1..n : t[i] = f[i].text
  BY TextsType
<1> HIDE DEF g
<1>4. u \in Seq(Seq(Nat)) /\ Len(u) = n /\ \A i \in 1..n : u[i] = g[i].text
  <2>1. u \in Seq(Seq(Nat)) /\ Len(u) = Len(g) /\ \A i \in 1..Len(g) : u[i] = g[i].text
    BY <1>2, TextsType
  <2> QED
    BY <1>2, <2>1
<1> HIDE DEF t, u, n
<1>5. \A i \in 1..n : i # n => u[i] = t[i]
  BY <1>2, <1>3, <1>4
<1>6. u[n] = t[n] \o q
  <2>1. x.text = f[n].text \o q
    BY DEF n
  <2>2. u[n] = x.text /\ t[n] = f[n].text
    BY <1>1, <1>2, <1>3, <1>4
  <2> QED
    BY <2>1, <2>2, Zenon
<1>7. FlattenSeq(u) = FlattenSeq(t) \o q
  BY <1>1, <1>3, <1>4, <1>5, <1>6, FlattenLast
<1> QED
  BY <1>7 DEF Flat, t, u, g, n

-----------------------------------------------------------------------------
(* The order of messages. *)

InOrder(w, D) ==
    /\ \A i, j \in DOMAIN w : i < j => w[i] < w[j]
    /\ Range(w) = D

LEMMA OrderOfMore ==
    ASSUME NEW w \in Seq(Nat), NEW D, InOrder(w, D), NEW n \in Nat, D \subseteq 1..n
    PROVE  InOrder(Append(w, n + 1), D \cup {n + 1})
<1> DEFINE v == Append(w, n + 1)
           l == Len(w)
<1>1. /\ l \in Nat /\ DOMAIN w = 1..l /\ DOMAIN v = 1..(l + 1)
      /\ \A i \in 1..l : v[i] = w[i]
      /\ v[l + 1] = n + 1
  <2>1. n + 1 \in Nat /\ w \in Seq(Nat)
    OBVIOUS
  <2>2. v \in Seq(Nat) /\ Len(v) = l + 1 /\ v[l + 1] = n + 1 /\ \A i \in 1..l : v[i] = w[i]
    BY <2>1, AppendProperties
  <2> QED
    BY <2>2, LenProperties
<1> HIDE DEF v, l
<1>2. Range(w) = D
  BY DEF InOrder
<1>3. \A i \in 1..l : w[i] \in 1..n
  BY <1>1, <1>2 DEF Range
<1>4. \A i, j \in 1..(l + 1) : i < j => v[i] < v[j]
  <2> SUFFICES ASSUME NEW i \in 1..(l + 1), NEW j \in 1..(l + 1), i < j PROVE v[i] < v[j]
    OBVIOUS
  <2>1. i \in 1..l
    BY <1>1
  <2>2. CASE j = l + 1
    BY <1>1, <1>3, <2>1, <2>2
  <2>3. CASE j # l + 1
    <3>1. j \in 1..l
      BY <1>1, <2>3
    <3> QED
      BY <1>1, <2>1, <3>1 DEF InOrder
  <2> QED
    BY <2>2, <2>3
<1>5. Range(v) = D \cup {n + 1}
  <2>1. \A i \in 1..(l + 1) : i = l + 1 \/ i \in 1..l
    BY <1>1
  <2>2. l + 1 \in 1..(l + 1) /\ \A i \in 1..l : i \in 1..(l + 1)
    BY <1>1
  <2>3. Range(v) \subseteq D \cup {n + 1}
    BY <1>1, <1>2, <2>1 DEF Range
  <2>4. D \subseteq Range(v)
    <3>1. \A y \in D : \E i \in 1..l : w[i] = y
      BY <1>1, <1>2 DEF Range
    <3> QED
      BY <1>1, <2>2, <3>1 DEF Range
  <2>5. n + 1 \in Range(v)
    BY <1>1, <2>2 DEF Range
  <2> QED
    BY <2>3, <2>4, <2>5
<1> QED
  BY <1>1, <1>4, <1>5 DEF InOrder, v

LEMMA OrderOfFirst ==
    ASSUME NEW a \in Seq(Nat), NEW b \in Seq(Nat), NEW D, InOrder(a \o b, D),
           NEW k \in 0..Len(b)
    PROVE  InOrder(a \o SubSeq(b, 1, k), D \ {b[i] : i \in (k + 1)..Len(b)})
<1> DEFINE p == SubSeq(b, 1, k)
           w == a \o b
           v == a \o p
           l == Len(a)
           n == Len(b)
           R == {b[i] : i \in (k + 1)..n}
<1>1. /\ l \in Nat /\ n \in Nat /\ k \in Nat /\ k <= n
      /\ p \in Seq(Nat) /\ Len(p) = k /\ \A i \in 1..k : p[i] = b[i]
  <2>1. n \in Nat /\ l \in Nat
    BY LenProperties
  <2>2. k \in Nat /\ k <= n /\ \A i \in 1..k : b[i] \in Nat
    BY <2>1
  <2> QED
    BY <2>1, <2>2
<1> HIDE DEF p
<1>2. /\ w \in Seq(Nat) /\ Len(w) = l + n
      /\ \A i \in 1..l : w[i] = a[i]
      /\ \A i \in 1..n : w[l + i] = b[i]
  <2>1. /\ w \in Seq(Nat) /\ Len(w) = l + n
        /\ \A i \in 1..(l + n) : w[i] = IF i <= l THEN a[i] ELSE b[i - l]
    BY ConcatProperties
  <2>2. \A i \in 1..n : l + i \in 1..(l + n) /\ ~ (l + i <= l) /\ (l + i) - l = i
    BY <1>1
  <2>3. \A i \in 1..l : i \in 1..(l + n) /\ i <= l
    BY <1>1
  <2> HIDE DEF w, l, n
  <2> QED
    BY <2>1, <2>2, <2>3
<1>3. /\ v \in Seq(Nat) /\ Len(v) = l + k
      /\ \A i \in 1..l : v[i] = a[i]
      /\ \A i \in 1..k : v[l + i] = p[i]
  <2>1. /\ v \in Seq(Nat) /\ Len(v) = l + k
        /\ \A i \in 1..(l + k) : v[i] = IF i <= l THEN a[i] ELSE p[i - l]
    BY <1>1, ConcatProperties
  <2>2. \A i \in 1..k : l + i \in 1..(l + k) /\ ~ (l + i <= l) /\ (l + i) - l = i
    BY <1>1
  <2>3. \A i \in 1..l : i \in 1..(l + k) /\ i <= l
    BY <1>1
  <2> HIDE DEF v, l
  <2> QED
    BY <2>1, <2>2, <2>3
<1>4. DOMAIN w = 1..(l + n) /\ DOMAIN v = 1..(l + k)
  <2> HIDE DEF w, v
  <2> QED
    BY <1>2, <1>3, LenProperties
<1>5. InOrder(w, D)
  OBVIOUS
<1> HIDE DEF w, v, l, n
<1>6. \A i \in 1..(l + k) : i \in 1..(l + n) /\ v[i] = w[i]
  <2> SUFFICES ASSUME NEW i \in 1..(l + k) PROVE i \in 1..(l + n) /\ v[i] = w[i]
    OBVIOUS
  <2>1. i \in 1..(l + n)
    BY <1>1
  <2>2. CASE i <= l
    <3>1. i \in 1..l
      BY <1>1, <2>2
    <3> QED
      BY <1>2, <1>3, <2>1, <3>1
  <2>3. CASE ~ (i <= l)
    <3>1. PICK j \in 1..k : i = l + j
      <4>1. i - l \in 1..k /\ i = l + (i - l)
        BY <1>1, <2>3
      <4> QED
        BY <4>1
    <3>2. j \in 1..n
      BY <1>1
    <3> QED
      BY <1>1, <1>2, <1>3, <2>1, <3>1, <3>2
  <2> QED
    BY <2>2, <2>3
<1>7. \A i, j \in 1..(l + k) : i < j => v[i] < v[j]
  BY <1>4, <1>5, <1>6 DEF InOrder
<1>8. \A i \in 1..(l + n) : i \in 1..(l + k) \/ w[i] \in R
  <2> SUFFICES ASSUME NEW i \in 1..(l + n), i \notin 1..(l + k) PROVE w[i] \in R
    OBVIOUS
  <2>1. i - l \in (k + 1)..n /\ i - l \in 1..n /\ i = l + (i - l)
    BY <1>1
  <2>2. w[i] = b[i - l]
    BY <1>2, <2>1
  <2> QED
    BY <2>1, <2>2
<1>9. \A i \in 1..(l + k) : v[i] \notin R
  <2> SUFFICES ASSUME NEW i \in 1..(l + k), NEW j \in (k + 1)..n, v[i] = b[j] PROVE FALSE
    OBVIOUS
  <2>1. j \in 1..n /\ l + j \in 1..(l + n) /\ i < l + j /\ i \in 1..(l + n)
    BY <1>1
  <2>2. w[i] = w[l + j]
    BY <1>2, <1>6, <2>1
  <2>3. w[i] < w[l + j]
    BY <1>4, <1>5, <2>1 DEF InOrder
  <2>4. w[i] \in Nat
    BY <1>2, <1>4, <2>1
  <2> QED
    BY <2>2, <2>3, <2>4
<1>10. Range(v) = D \ R
  <2>1. Range(w) = D
    BY <1>5 DEF InOrder
  <2> HIDE DEF R
  <2> QED
    BY <1>4, <1>6, <1>8, <1>9, <2>1 DEF Range
<1> QED
  BY <1>4, <1>7, <1>10 DEF InOrder, v, p, n

-----------------------------------------------------------------------------
(* The invariant. *)

(* Every number in the queue and in the files is that of a message.         *)
Numbers(D) ==
    /\ queue \in Seq(D)
    /\ \A i \in DOMAIN files : files[i].text \in Seq(D)

Inv == TypeOK /\ LogInOrder /\ FileWithinLimit /\ Numbers(DOMAIN size)

(* What FileWithinLimit says of one file.                                   *)
Long(z, t) == \E k \in DOMAIN t : z[t[k]] * MaxQueueSize > DeltaFileSize
Within(z, x) == x.late \/ Long(z, x.text) \/ Bytes(z, x.text) <= MaxFileSize

LEMMA LoggedIs == Logged = Flat(files) \o queue
BY DEF Logged, Flat, Texts

LEMMA Numbered ==
    ASSUME TypeOK, LogInOrder
    PROVE  InOrder(Flat(files) \o queue, DOMAIN size \ lost)
BY LoggedIs DEF LogInOrder, InOrder

LEMMA Limited == FileWithinLimit <=> \A i \in DOMAIN files : Within(size, files[i])
BY DEF FileWithinLimit, Within, Long

LEMMA InvFacts ==
    ASSUME Inv
    PROVE  /\ queue \in Seq(Nat) /\ files \in Seq(File) /\ files # <<>>
           /\ named \in BOOLEAN /\ failed \in BOOLEAN /\ faults \in 0..MaxFaults
           /\ size \in Seq(Sizes) /\ Len(size) \in Nat /\ DOMAIN size = 1..Len(size)
           /\ \A i \in DOMAIN size : size[i] \in Nat
           /\ Len(queue) \in Nat /\ (Len(queue) >= MaxQueueSize => failed)
           /\ Flat(files) \in Seq(Nat)
           /\ lost \subseteq DOMAIN size
<1>1. /\ queue \in Seq(Nat) /\ files \in Seq(File) /\ files # <<>>
      /\ named \in BOOLEAN /\ failed \in BOOLEAN /\ faults \in 0..MaxFaults
      /\ size \in Seq(Sizes) /\ (Len(queue) >= MaxQueueSize => failed)
      /\ lost \subseteq DOMAIN size
  BY DEF Inv, TypeOK
<1>2. /\ Len(size) \in Nat /\ DOMAIN size = 1..Len(size) /\ Len(queue) \in Nat
      /\ \A i \in 1..Len(size) : size[i] \in Sizes
  BY <1>1, LenProperties, ElementOfSeq
<1>3. Flat(files) \in Seq(Nat)
  BY <1>1, TextsType
<1> QED
  BY <1>1, <1>2, <1>3, LoggerAssumption

LEMMA InitInv == Init => Inv
<1> SUFFICES ASSUME Init PROVE Inv
  OBVIOUS
<1>1. queue = <<>> /\ size = <<>> /\ lost = {} /\ files = <<NewFile>>
  BY DEF Init
<1> DEFINE none == <<>>
<1>2. none \in Seq(File) /\ files = Append(none, NewFile)
  BY <1>1
<1>3. Texts(none) = <<>>
  <2>1. Texts(none) \in Seq(Seq(Nat)) /\ Len(Texts(none)) = 0
    BY <1>2, TextsType
  <2> HIDE DEF none
  <2> QED
    BY <2>1, EmptySeq
<1>4. Flat(none) = <<>>
  BY <1>3 DEF Flat, FlattenSeq
<1> HIDE DEF none
<1>5. Flat(files) = <<>>
  BY <1>2, <1>4, FlatNew
<1>6. Logged = <<>>
  <2>1. <<>> \in Seq(Nat)
    OBVIOUS
  <2> QED
    BY <1>1, <1>5, <2>1, LoggedIs, ConcatEmptySeq
<1>7. LogInOrder
  <2>1. DOMAIN Logged = {} /\ DOMAIN size = {}
    BY <1>1, <1>6
  <2>2. Range(Logged) = {}
    BY <2>1 DEF Range
  <2> QED
    BY <1>1, <2>1, <2>2 DEF LogInOrder
<1>8. DOMAIN files = {1} /\ files[1] = NewFile
  BY <1>1
<1>9. FileWithinLimit
  <2>1. Within(size, NewFile)
    BY FileFacts, BytesEmpty, LoggerAssumption DEF Within
  <2> QED
    BY <1>8, <2>1, Limited
<1>10. TypeOK
  <2>1. files \in Seq(File) /\ files # <<>>
    BY <1>1, FileFacts
  <2>2. size \in Seq(Sizes) /\ queue \in Seq(Nat) /\ Len(queue) = 0
    BY <1>1
  <2>3. MaxQueueSize \in Nat /\ MaxQueueSize # 0 /\ MaxFaults \in Nat
    BY LoggerAssumption
  <2>4. named = TRUE /\ failed = FALSE /\ faults = 0
    BY DEF Init
  <2>5. lost \subseteq DOMAIN size
    BY <1>1, Zenon
  <2>6. faults \in 0..MaxFaults /\ ~ (Len(queue) >= MaxQueueSize)
    BY <2>2, <2>3, <2>4
  <2> QED
    BY <2>1, <2>2, <2>4, <2>5, <2>6, Zenon DEF TypeOK
<1>11. Numbers(DOMAIN size)
  <2>1. queue \in Seq(DOMAIN size) /\ NewFile.text \in Seq(DOMAIN size)
    BY <1>1, FileFacts
  <2> QED
    BY <1>8, <2>1 DEF Numbers
<1> QED
  BY <1>7, <1>9, <1>10, <1>11 DEF Inv

-----------------------------------------------------------------------------
(* A message is logged. *)

(* What is waiting with it: the log is in order with all of it, and no file *)
(* is larger for it.                                                        *)
LEMMA MessageStep ==
    ASSUME Inv, NEW n \in Sizes, NEW z, z = Append(size, n),
           NEW w, w = Append(queue, Len(size) + 1)
    PROVE  /\ z \in Seq(Sizes) /\ DOMAIN size \subseteq DOMAIN z
           /\ \A i \in DOMAIN z : z[i] \in Nat
           /\ \A i \in DOMAIN size : z[i] = size[i]
           /\ w \in Seq(Nat) /\ w \in Seq(DOMAIN z) /\ Len(w) = Len(queue) + 1
           /\ InOrder(Flat(files) \o w, DOMAIN z \ lost)
           /\ Numbers(DOMAIN z)
<1> DEFINE l == Len(size)
           q == Flat(files)
<1>1. /\ size \in Seq(Sizes) /\ queue \in Seq(Nat) /\ l \in Nat /\ DOMAIN size = 1..l
      /\ q \in Seq(Nat) /\ lost \subseteq 1..l /\ \A i \in 1..l : size[i] \in Nat
  BY InvFacts
<1>2. /\ z \in Seq(Sizes) /\ Len(z) = l + 1 /\ z[l + 1] = n
      /\ \A i \in 1..l : z[i] = size[i]
  BY <1>1, AppendProperties
<1>3. DOMAIN z = 1..(l + 1)
  BY <1>2, LenProperties
<1>4. DOMAIN z = (1..l) \cup {l + 1} /\ DOMAIN size \subseteq DOMAIN z
  BY <1>1, <1>3
<1>5. \A i \in DOMAIN z : z[i] \in Nat
  BY <1>1, <1>2, <1>4, LoggerAssumption
<1>6. /\ queue \in Seq(DOMAIN size)
      /\ \A i \in DOMAIN files : files[i].text \in Seq(DOMAIN size)
  BY DEF Inv, Numbers
<1>7. Numbers(DOMAIN z)
  BY <1>4, <1>6, SeqMonotonic DEF Numbers
<1>8. w \in Seq(Nat) /\ w \in Seq(DOMAIN z) /\ Len(w) = Len(queue) + 1
  <2>1. l + 1 \in Nat /\ l + 1 \in DOMAIN z /\ queue \in Seq(DOMAIN z)
    BY <1>1, <1>4, <1>7 DEF Numbers
  <2> QED
    BY <1>1, <2>1, AppendProperties
<1> HIDE DEF q, l
<1> DEFINE e == <<l + 1>>
           v == q \o queue
           D == DOMAIN size \ lost
<1>9. q \o w = Append(v, l + 1)
  <2>1. e \in Seq(Nat) /\ l + 1 \in Nat
    BY <1>1
  <2> HIDE DEF e
  <2>2. w = queue \o e
    BY <1>1, <2>1, AppendIsConcat DEF e, l
  <2>3. v \in Seq(Nat)
    BY <1>1, ConcatProperties
  <2>4. Append(v, l + 1) = v \o e
    <3> HIDE DEF v
    <3> QED
      BY <2>1, <2>3, AppendIsConcat DEF e
  <2>5. v \o e = q \o (queue \o e)
    BY <1>1, <2>1, ConcatAssociative
  <2> HIDE DEF v
  <2> QED
    BY <2>2, <2>4, <2>5
<1>10. InOrder(v, D) /\ v \in Seq(Nat) /\ D \subseteq 1..l
  BY <1>1, Numbered, ConcatProperties DEF Inv, q
<1>11. InOrder(Append(v, l + 1), D \cup {l + 1})
  <2> HIDE DEF v, D
  <2> QED
    BY <1>1, <1>10, OrderOfMore
<1>12. D \cup {l + 1} = DOMAIN z \ lost
  <2>1. l + 1 \notin lost
    BY <1>1
  <2> QED
    BY <1>1, <1>4, <2>1
<1>13. InOrder(q \o w, DOMAIN z \ lost)
  BY <1>9, <1>11, <1>12
<1> QED
  BY <1>1, <1>2, <1>4, <1>5, <1>7, <1>8, <1>13 DEF q

LEMMA WithinSame ==
    ASSUME Inv, NEW z, \A i \in DOMAIN size : z[i] = size[i], NEW i \in DOMAIN files
    PROVE  /\ Bytes(z, files[i].text) = Bytes(size, files[i].text)
           /\ Bytes(size, files[i].text) \in Nat
           /\ Within(z, files[i])
<1> DEFINE t == files[i].text
<1>1. t \in Seq(DOMAIN size) /\ Within(size, files[i])
  BY Limited DEF Inv, Numbers
<1>2. Len(t) \in Nat /\ DOMAIN t = 1..Len(t) /\ \A k \in 1..Len(t) : t[k] \in DOMAIN size
  BY <1>1, LenProperties, ElementOfSeq
<1> HIDE DEF t
<1>3. \A k \in 1..Len(t) : z[t[k]] = size[t[k]] /\ size[t[k]] \in Nat
  BY <1>2, InvFacts
<1>4. Bytes(z, t) = Bytes(size, t)
  BY <1>2, <1>3, BytesSame
<1>5. Bytes(size, t) \in Nat
  BY <1>2, <1>3, BytesType
<1>6. Long(size, t) => Long(z, t)
  BY <1>2, <1>3 DEF Long
<1> QED
  BY <1>1, <1>4, <1>5, <1>6 DEF Within, t

(* It goes into the queue and stays there, for there is room, or the        *)
(* attempt to write it out fails.                                           *)
LEMMA WaitStep ==
    ASSUME Inv, NEW n \in Sizes, size' = Append(size, n),
           queue' = Append(queue, Len(size) + 1), UNCHANGED <<files, lost>>,
           named' \in BOOLEAN, failed' \in BOOLEAN, faults' \in 0..MaxFaults,
           Len(queue') >= MaxQueueSize => failed'
    PROVE  Inv'
<1> DEFINE z == size'
           w == queue'
<1>1. /\ z \in Seq(Sizes) /\ DOMAIN size \subseteq DOMAIN z
      /\ \A i \in DOMAIN size : z[i] = size[i]
      /\ w \in Seq(Nat) /\ w \in Seq(DOMAIN z)
      /\ InOrder(Flat(files) \o w, DOMAIN z \ lost)
      /\ Numbers(DOMAIN z)
  BY MessageStep
<1>2. TypeOK'
  <2>1. files' \in Seq(File) /\ files' # <<>>
    BY InvFacts
  <2>2. lost' \subseteq DOMAIN z
    BY <1>1, InvFacts
  <2> QED
    BY <1>1, <2>1, <2>2, Zenon DEF TypeOK
<1>3. LogInOrder'
  <2>1. files' = files /\ lost' = lost
    OBVIOUS
  <2>2. Logged' = Flat(files) \o w
    BY <2>1, Zenon DEF Logged, Flat, Texts
  <2> QED
    BY <1>1, <2>1, <2>2 DEF LogInOrder, InOrder
<1>4. FileWithinLimit'
  <2>1. \A i \in DOMAIN files : Within(z, files[i])
    BY <1>1, WithinSame
  <2> QED
    BY <2>1 DEF FileWithinLimit, Within, Long
<1>5. Numbers(DOMAIN size)'
  BY <1>1 DEF Numbers
<1> QED
  BY <1>2, <1>3, <1>4, <1>5 DEF Inv

(* The part of the queue that is written out: in the last file, or in the   *)
(* first of a new name.                                                     *)
LEMMA KeptStep ==
    ASSUME Inv, NEW n \in Sizes, NEW z, z = Append(size, n),
           NEW w, w = Append(queue, Len(size) + 1),
           NEW k \in 0..Len(w), NEW p, p = SubSeq(w, 1, k),
           NEW renamed \in BOOLEAN,
           NEW more, more = IF renamed THEN Append(files, NewFile) ELSE files,
           NEW old, old = more[Len(more)],
           NEW late \in BOOLEAN, late = (old.late \/ failed \/ (Full /\ ~ renamed)),
           NEW x \in File, x.text = old.text \o p, x.late = late
    PROVE  Within(z, x)
<1> SUFFICES ASSUME ~ late, ~ Long(z, x.text) PROVE Bytes(z, x.text) <= MaxFileSize
  BY DEF Within
<1>1. /\ z \in Seq(Sizes) /\ DOMAIN size \subseteq DOMAIN z
      /\ \A i \in DOMAIN z : z[i] \in Nat
      /\ \A i \in DOMAIN size : z[i] = size[i]
      /\ w \in Seq(DOMAIN z) /\ Len(w) = Len(queue) + 1
      /\ Numbers(DOMAIN z)
  BY MessageStep
<1>2. ~ old.late /\ ~ failed /\ (~ Full \/ renamed)
  OBVIOUS
<1>3. /\ MaxFileSize \in Nat /\ DeltaFileSize \in Nat /\ DeltaFileSize <= MaxFileSize
      /\ MaxQueueSize \in Nat /\ MaxQueueSize # 0
  BY LoggerAssumption
<1>4. Len(w) <= MaxQueueSize /\ Len(w) \in Nat
  BY <1>1, <1>2, <1>3, InvFacts
<1>5. p \in Seq(DOMAIN z) /\ Len(p) = k /\ k <= MaxQueueSize
  <2>1. k \in Nat /\ k <= Len(w) /\ \A i \in 1..k : w[i] \in DOMAIN z
    BY <1>1, <1>4
  <2> QED
    BY <1>3, <1>4, <2>1
<1>6. /\ old.text \in Seq(DOMAIN z) /\ Bytes(z, old.text) \in Nat
      /\ Bytes(z, old.text) <= MaxFileSize - DeltaFileSize
  <2>1. CASE renamed
    <3>1. old = NewFile
      <4>1. files \in Seq(File) /\ more = Append(files, NewFile)
        BY <2>1, InvFacts
      <4>2. Len(more) = Len(files) + 1 /\ more[Len(files) + 1] = NewFile
        BY <4>1, FileFacts, AppendProperties
      <4> QED
        BY <4>2
    <3>2. old.text = <<>>
      BY <3>1, FileFacts
    <3>3. old.text \in Seq(DOMAIN z)
      BY <3>2, EmptySeq, Zenon
    <3>4. Bytes(z, old.text) = 0
      BY <3>2, BytesEmpty
    <3> QED
      BY <1>3, <3>3, <3>4
  <2>2. CASE ~ renamed
    <3>1. more = files /\ files \in Seq(File) /\ files # <<>>
      BY <2>2, InvFacts
    <3>2. Len(files) \in DOMAIN files /\ old = files[Len(files)] /\ old = Last(files)
      BY <3>1, EmptySeq, LenProperties DEF Last
    <3> DEFINE i == Len(files)
    <3>3. /\ Bytes(z, old.text) = Bytes(size, old.text)
          /\ Bytes(size, old.text) \in Nat /\ old.text \in Seq(DOMAIN z)
      <4>1. i \in DOMAIN files /\ old = files[i]
        BY <3>2
      <4> HIDE DEF i
      <4>2. old.text \in Seq(DOMAIN z)
        BY <1>1, <4>1 DEF Numbers
      <4>3. /\ Bytes(z, files[i].text) = Bytes(size, files[i].text)
            /\ Bytes(size, files[i].text) \in Nat
        BY <1>1, <4>1, WithinSame
      <4> QED
        BY <4>1, <4>2, <4>3
    <3>4. ~ (Bytes(size, old.text) > MaxFileSize - DeltaFileSize)
      BY <1>2, <2>2, <3>2 DEF Full
    <3> QED
      BY <1>3, <3>3, <3>4
  <2> QED
    BY <2>1, <2>2
<1>7. \A i \in 1..Len(p) : z[p[i]] * MaxQueueSize <= DeltaFileSize
  <2> SUFFICES ASSUME NEW i \in 1..Len(p) PROVE z[p[i]] * MaxQueueSize <= DeltaFileSize
    OBVIOUS
  <2> DEFINE t == x.text
             l == Len(old.text)
  <2>1. /\ l \in Nat /\ Len(p) \in Nat /\ Len(t) = l + Len(p) /\ t \in Seq(DOMAIN z)
        /\ t[l + i] = p[i]
    <3>1. /\ t \in Seq(DOMAIN z) /\ Len(t) = l + Len(p)
          /\ \A j \in 1..(l + Len(p)) : t[j] = IF j <= l THEN old.text[j] ELSE p[j - l]
      <4> DEFINE o == old.text
                 D == DOMAIN z
      <4>1. o \in Seq(D) /\ p \in Seq(D) /\ t = o \o p /\ l = Len(o)
        BY <1>5, <1>6
      <4> HIDE DEF o, t, l, D
      <4>2. /\ o \o p \in Seq(D) /\ Len(o \o p) = Len(o) + Len(p)
            /\ \A j \in 1..(Len(o) + Len(p)) :
                    (o \o p)[j] = IF j <= Len(o) THEN o[j] ELSE p[j - Len(o)]
        BY ONLY <4>1, ConcatProperties
      <4> QED
        BY <4>1, <4>2, Zenon DEF o, D
    <3>2. l \in Nat /\ Len(p) \in Nat
      BY <1>5, <1>6, LenProperties
    <3> HIDE DEF t, l
    <3>3. l + i \in 1..(l + Len(p)) /\ ~ (l + i <= l) /\ (l + i) - l = i
      BY <3>2
    <3> QED
      BY <3>1, <3>2, <3>3
  <2> HIDE DEF t, l
  <2>2. l + i \in DOMAIN t
    <3>1. DOMAIN t = 1..Len(t)
      BY <2>1, LenProperties
    <3> QED
      BY <2>1, <3>1
  <2>3. ~ (z[t[l + i]] * MaxQueueSize > DeltaFileSize)
    BY <2>2 DEF Long, t
  <2> DEFINE b == z[p[i]]
  <2>4. b \in Nat /\ b = z[t[l + i]]
    <3>1. p[i] \in DOMAIN z
      BY <1>5, ElementOfSeq
    <3> QED
      BY <1>1, <2>1, <3>1
  <2> HIDE DEF b
  <2>5. ~ (b * MaxQueueSize > DeltaFileSize)
    BY <2>3, <2>4
  <2>6. b * MaxQueueSize \in Nat
    BY ONLY <1>3, <2>4
  <2>7. b * MaxQueueSize <= DeltaFileSize
    BY <1>3, <2>5, <2>6
  <2> QED
    BY <2>7 DEF b
<1>8. Bytes(z, old.text \o p) <= Bytes(z, old.text) + DeltaFileSize
  <2> DEFINE S == DOMAIN z
             o == old.text
  <2>1. \A m \in S : z[m] \in Nat
    BY <1>1
  <2>2. o \in Seq(S) /\ p \in Seq(S) /\ Len(p) <= MaxQueueSize
    BY <1>5, <1>6
  <2> HIDE DEF S, o
  <2>3. Bytes(z, o \o p) <= Bytes(z, o) + DeltaFileSize
    BY <1>3, <1>7, <2>1, <2>2, BytesBound
  <2> QED
    BY <2>3 DEF o
<1>9. Bytes(z, x.text) \in Nat
  <2>1. x.text \in Seq(DOMAIN z)
    BY <1>5, <1>6, ConcatProperties
  <2>2. Len(x.text) \in Nat /\ \A i \in 1..Len(x.text) : z[x.text[i]] \in Nat
    BY <1>1, <2>1, LenProperties, ElementOfSeq
  <2> QED
    BY <2>2, BytesType
<1> QED
  BY <1>3, <1>6, <1>8, <1>9

LEMMA WrittenStep ==
    ASSUME Inv, NEW n \in Sizes, size' = Append(size, n),
           Written(Append(queue, Len(size) + 1))
    PROVE  Inv'
<1> DEFINE z == size'
           w == Append(queue, Len(size) + 1)
<1>1. /\ z \in Seq(Sizes) /\ DOMAIN size \subseteq DOMAIN z
      /\ \A i \in DOMAIN size : z[i] = size[i]
      /\ w \in Seq(Nat) /\ w \in Seq(DOMAIN z) /\ Len(w) = Len(queue) + 1
      /\ InOrder(Flat(files) \o w, DOMAIN z \ lost)
      /\ Numbers(DOMAIN z)
  BY MessageStep
<1>2. queue' = <<>> /\ failed' = FALSE /\ named' = named
  BY DEF Written
<1>3. PICK k \in 0..Len(w), renamed \in (IF Full THEN BOOLEAN ELSE {FALSE}) :
        LET more == IF renamed THEN Append(files, NewFile) ELSE files
        IN  /\ files' = [more EXCEPT ![Len(more)] =
                            [Last(more) EXCEPT !.text = @ \o SubSeq(w, 1, k),
                                               !.late = @ \/ failed \/ (Full /\ ~ renamed)]]
            /\ lost' = lost \cup {w[i] : i \in (k + 1)..Len(w)}
            /\ IF k < Len(w) THEN Fault ELSE UNCHANGED faults
  BY Zenon DEF Written
<1> DEFINE more == IF renamed THEN Append(files, NewFile) ELSE files
           p == SubSeq(w, 1, k)
           rest == {w[i] : i \in (k + 1)..Len(w)}
           old == more[Len(more)]
           late == old.late \/ failed \/ (Full /\ ~ renamed)
           x == [old EXCEPT !.text = @ \o p, !.late = late]
<1>4. /\ files' = [more EXCEPT ![Len(more)] =
                        [Last(more) EXCEPT !.text = @ \o p,
                                           !.late = @ \/ failed \/ (Full /\ ~ renamed)]]
      /\ lost' = lost \cup rest
      /\ IF k < Len(w) THEN Fault ELSE UNCHANGED faults
  BY <1>3
<1>5. renamed \in BOOLEAN
  BY <1>3
<1>6. k \in Nat /\ k \in 0..Len(w) /\ Len(w) \in Nat
  BY <1>1, LenProperties
<1> HIDE DEF w, z
<1>7. p \in Seq(Nat) /\ p \in Seq(DOMAIN z)
  <2>1. \A i \in 1..k : w[i] \in Nat /\ w[i] \in DOMAIN z
    BY <1>1, <1>6
  <2> QED
    BY <1>6, <2>1, SubSeqProperties
<1> HIDE DEF p
<1>8. /\ more \in Seq(File) /\ more # <<>> /\ Flat(more) = Flat(files)
      /\ \A i \in DOMAIN more : Within(z, more[i]) /\ more[i].text \in Seq(DOMAIN z)
  <2>1. /\ files \in Seq(File) /\ files # <<>>
        /\ \A i \in DOMAIN files : Within(z, files[i]) /\ files[i].text \in Seq(DOMAIN z)
    BY <1>1, InvFacts, WithinSame DEF Numbers
  <2>2. CASE ~ renamed
    BY <2>1, <2>2
  <2>3. CASE renamed
    <3>1. more = Append(files, NewFile)
      BY <2>3
    <3>2. /\ more \in Seq(File) /\ more # <<>> /\ Len(more) = Len(files) + 1
          /\ more[Len(files) + 1] = NewFile
          /\ \A i \in 1..Len(files) : more[i] = files[i]
      BY <2>1, <3>1, FileFacts, AppendProperties
    <3>3. Flat(more) = Flat(files)
      BY <2>1, <3>1, FlatNew
    <3>4. Within(z, NewFile) /\ NewFile.text \in Seq(DOMAIN z)
      BY FileFacts, BytesEmpty, EmptySeq, LoggerAssumption DEF Within
    <3> HIDE DEF more
    <3>5. /\ Len(files) \in Nat /\ DOMAIN files = 1..Len(files)
          /\ DOMAIN more = 1..(Len(files) + 1)
      BY <2>1, <3>2, LenProperties
    <3>6. \A i \in 1..(Len(files) + 1) : i = Len(files) + 1 \/ i \in 1..Len(files)
      BY <3>5
    <3> QED
      BY <2>1, <3>2, <3>3, <3>4, <3>5, <3>6
  <2> QED
    BY <2>2, <2>3
<1> DEFINE m == Len(more)
<1>9. m \in Nat /\ m # 0 /\ m \in 1..m /\ DOMAIN more = 1..m /\ old \in File
  <2> HIDE DEF more
  <2>1. m \in Nat /\ m # 0 /\ DOMAIN more = 1..m
    BY <1>8, EmptySeq, LenProperties
  <2>2. m \in 1..m
    BY <2>1
  <2> QED
    BY <1>8, <2>1, <2>2, ElementOfSeq
<1>10. late \in BOOLEAN
  <2>1. old.late \in BOOLEAN /\ failed \in BOOLEAN
    BY <1>9, FileFacts, InvFacts
  <2> QED
    BY <1>5, <2>1, Zenon
<1>11. /\ x \in File /\ x.text = old.text \o p /\ x.late = late
  <2> DEFINE t == old.text \o p
  <2>1. old.text \in Seq(Nat)
    BY <1>9, FileFacts
  <2>2. t \in Seq(Nat)
    BY <1>7, <2>1, ConcatProperties
  <2>3. x = [old EXCEPT !.text = t, !.late = late]
    BY <1>9 DEF File
  <2> HIDE DEF t, late, old, x
  <2>4. x \in File /\ x.text = t /\ x.late = late
    BY <1>9, <1>10, <2>2, <2>3 DEF File
  <2> QED
    BY <2>4 DEF t
<1>12. files' = [more EXCEPT ![m] = x]
  <2> HIDE DEF more
  <2>1. Last(more) = old
    BY DEF Last
  <2>2. x = [Last(more) EXCEPT !.text = @ \o p, !.late = @ \/ failed \/ (Full /\ ~ renamed)]
    BY <2>1, Zenon
  <2> HIDE DEF x
  <2> QED
    BY <1>4, <2>2, Zenon
<1> HIDE DEF x
<1>13. Within(z, x)
  BY <1>1, <1>5, <1>6, <1>10, <1>11, KeptStep DEF z, w, p
<1>14. Flat(files') = Flat(files) \o p
  <2> HIDE DEF old, more
  <2>1. x.text = more[Len(more)].text \o p
    BY <1>11 DEF old
  <2>2. Flat([more EXCEPT ![Len(more)] = x]) = Flat(more) \o p
    BY <1>7, <1>8, <1>11, <2>1, FlatGrows
  <2> QED
    BY <1>8, <1>12, <2>2, Zenon
<1>15. TypeOK'
  <2>1. files' \in Seq(File) /\ files' # <<>>
    <3> HIDE DEF more, m
    <3>1. files' \in Seq(File) /\ Len(files') = m
      BY <1>8, <1>9, <1>11, <1>12, ExceptSeq DEF m
    <3> QED
      BY <1>9, <3>1, EmptySeq
  <2>2. lost' \subseteq DOMAIN z
    <3>1. \A i \in (k + 1)..Len(w) : w[i] \in DOMAIN z
      BY <1>1, <1>6
    <3>2. rest \subseteq DOMAIN z
      BY <3>1
    <3>3. lost \subseteq DOMAIN z
      BY <1>1, InvFacts
    <3> HIDE DEF rest
    <3> QED
      BY <1>4, <3>2, <3>3
  <2>3. faults' \in 0..MaxFaults
    <3>1. CASE k < Len(w)
      <4>1. faults < MaxFaults /\ faults' = faults + 1
        BY <1>4, <3>1 DEF Fault
      <4> QED
        BY <4>1, InvFacts, LoggerAssumption
    <3>2. CASE ~ (k < Len(w))
      BY <1>4, <3>2, InvFacts
    <3> QED
      BY <3>1, <3>2
  <2>4. queue' \in Seq(Nat) /\ ~ (Len(queue') >= MaxQueueSize)
    BY <1>2, LoggerAssumption
  <2>5. named' \in BOOLEAN /\ failed' \in BOOLEAN /\ size' \in Seq(Sizes)
    BY <1>1, <1>2, InvFacts DEF z
  <2> QED
    BY <2>1, <2>2, <2>3, <2>4, <2>5, Zenon DEF TypeOK, z
<1>16. LogInOrder'
  <2> DEFINE a == Flat(files)
             v == Flat(files')
  <2>1. InOrder(a \o w, DOMAIN z \ lost) /\ a \in Seq(Nat)
    BY <1>1, InvFacts
  <2> HIDE DEF a, v
  <2>2. InOrder(a \o p, (DOMAIN z \ lost) \ rest)
    BY <1>1, <1>6, <2>1, OrderOfFirst DEF p
  <2>3. v = a \o p /\ v \in Seq(Nat)
    BY <1>7, <1>14, <2>1, ConcatProperties DEF a, v
  <2>4. v \o queue' = v
    BY <1>2, <2>3, ConcatEmptySeq
  <2>5. Logged' = v \o queue'
    BY Zenon DEF Logged, v, Flat, Texts
  <2>6. (DOMAIN z \ lost) \ rest = DOMAIN z \ lost'
    <3> HIDE DEF rest
    <3> QED
      BY <1>4
  <2>7. InOrder(Logged', DOMAIN z \ lost')
    BY <2>2, <2>3, <2>4, <2>5, <2>6, Zenon
  <2> QED
    BY <2>7 DEF LogInOrder, InOrder, z
<1>17. DOMAIN files' = DOMAIN more /\ \A i \in DOMAIN more : files'[i] = IF i = m THEN x ELSE more[i]
  <2> HIDE DEF more, m
  <2> QED
    BY <1>12
<1> HIDE DEF more, m, old
<1>18. FileWithinLimit'
  <2>1. \A i \in DOMAIN files' : Within(z, files'[i])
    BY <1>8, <1>13, <1>17
  <2> QED
    BY <2>1, Zenon DEF FileWithinLimit, Within, Long, z
<1>19. Numbers(DOMAIN size)'
  <2>1. queue' \in Seq(DOMAIN z)
    BY <1>2, EmptySeq
  <2>2. x.text \in Seq(DOMAIN z)
    <3> DEFINE o == old.text
               D == DOMAIN z
    <3>1. o \in Seq(D) /\ p \in Seq(D) /\ x.text = o \o p
      BY <1>7, <1>8, <1>9, <1>11 DEF old, m
    <3> HIDE DEF o, D
    <3> QED
      BY <3>1, ConcatProperties DEF D
  <2>3. \A i \in DOMAIN files' : files'[i].text \in Seq(DOMAIN z)
    BY <1>8, <1>17, <2>2
  <2> QED
    BY <2>1, <2>3, Zenon DEF Numbers, z
<1> QED
  BY <1>15, <1>16, <1>18, <1>19 DEF Inv

LEMMA WriteLogInv == ASSUME Inv, WriteLog PROVE Inv'
<1>1. PICK n \in Sizes : size' = Append(size, n)
  BY DEF WriteLog
<1> DEFINE w == Append(queue, Len(size) + 1)
<1>2. Len(w) = Len(queue) + 1 /\ Len(queue) \in Nat
  BY <1>1, MessageStep, InvFacts
<1>3. \/ NothingWritten(w) \/ Written(w)
      \/ /\ ~ (Len(w) >= MaxQueueSize) /\ queue' = w
         /\ UNCHANGED <<files, named, lost, failed, faults>>
  BY DEF WriteLog
<1>4. CASE Written(w)
  BY <1>1, <1>4, WrittenStep
<1>5. CASE NothingWritten(w)
  <2>1. queue' = w /\ failed' = TRUE /\ UNCHANGED <<files, lost>>
    BY <1>5 DEF NothingWritten
  <2>2. named' \in BOOLEAN /\ faults' \in 0..MaxFaults
    <3>1. \/ UNCHANGED <<named, faults>>
          \/ Fault /\ named' \in (IF Full THEN BOOLEAN ELSE {TRUE})
      BY <1>5 DEF NothingWritten
    <3>2. named \in BOOLEAN /\ faults \in 0..MaxFaults /\ MaxFaults \in Nat
      BY InvFacts, LoggerAssumption
    <3>3. named' \in BOOLEAN
      BY <3>1, <3>2, Zenon
    <3>4. faults' = faults \/ (faults < MaxFaults /\ faults' = faults + 1)
      BY <3>1 DEF Fault
    <3>5. faults' \in 0..MaxFaults
      BY <3>2, <3>4
    <3> QED
      BY <3>3, <3>5
  <2> QED
    BY <1>1, <2>1, <2>2, WaitStep
<1>6. CASE /\ ~ (Len(w) >= MaxQueueSize) /\ queue' = w
           /\ UNCHANGED <<files, named, lost, failed, faults>>
  <2>1. ~ (Len(queue') >= MaxQueueSize) /\ queue' = w
    BY <1>6
  <2>2. named' \in BOOLEAN /\ failed' \in BOOLEAN /\ faults' \in 0..MaxFaults
    BY <1>6, InvFacts
  <2>3. UNCHANGED <<files, lost>>
    BY <1>6
  <2> QED
    BY <1>1, <2>1, <2>2, <2>3, WaitStep
<1> QED
  BY <1>3, <1>4, <1>5, <1>6

-----------------------------------------------------------------------------
(* A file is removed. *)

LEMMA RemovedInv == ASSUME Inv, Removed PROVE Inv'
<1> DEFINE m == Len(files)
           old == files[m]
           x == [old EXCEPT !.exists = FALSE]
<1>1. /\ files' = [files EXCEPT ![m].exists = FALSE] /\ Fault
      /\ UNCHANGED <<queue, named, size, lost, failed>>
  BY DEF Removed
<1>2. /\ files \in Seq(File) /\ files # <<>> /\ m \in 1..m /\ DOMAIN files = 1..m
      /\ m \in Nat /\ m # 0 /\ old \in File
  <2>1. files \in Seq(File) /\ files # <<>>
    BY InvFacts
  <2>2. m \in Nat /\ m # 0 /\ DOMAIN files = 1..m
    BY <2>1, EmptySeq, LenProperties
  <2>3. m \in 1..m
    BY <2>2
  <2> QED
    BY <2>1, <2>2, <2>3, ElementOfSeq
<1>3. files' = [files EXCEPT ![m] = x]
  BY <1>1, Zenon
<1>4. x \in File /\ x.text = old.text /\ x.late = old.late
  <2> HIDE DEF old
  <2> QED
    BY <1>2 DEF File
<1>5. /\ files' \in Seq(File) /\ Len(files') = m /\ DOMAIN files' = 1..m
      /\ \A i \in 1..m : files'[i] = IF i = m THEN x ELSE files[i]
  <2> HIDE DEF x, m
  <2>1. /\ files' \in Seq(File) /\ Len(files') = m
        /\ \A i \in 1..m : files'[i] = IF i = m THEN x ELSE files[i]
    BY <1>2, <1>3, <1>4, ExceptSeq DEF m
  <2> QED
    BY <2>1, LenProperties
<1> HIDE DEF x
<1>6. \A i \in DOMAIN files : /\ files'[i].text = files[i].text
                              /\ files'[i].late = files[i].late
  BY <1>2, <1>4, <1>5
<1>7. DOMAIN files' = DOMAIN files
  BY <1>2, <1>5
<1>8. TypeOK'
  <2>1. files' \in Seq(File) /\ files' # <<>>
    <3> HIDE DEF m
    <3> QED
      BY <1>2, <1>5, EmptySeq
  <2>2. faults' \in 0..MaxFaults
    BY <1>1, InvFacts, LoggerAssumption DEF Fault
  <2>3. TypeOK
    BY DEF Inv
  <2> QED
    BY <1>1, <2>1, <2>2, <2>3 DEF TypeOK
<1>9. LogInOrder'
  <2>1. [i \in DOMAIN files' |-> files'[i].text] = [i \in DOMAIN files |-> files[i].text]
    BY <1>6, <1>7
  <2>2. Logged' = Logged
    BY <1>1, <2>1, Zenon DEF Logged
  <2>3. LogInOrder
    BY DEF Inv
  <2> QED
    BY <1>1, <2>2, <2>3, Zenon DEF LogInOrder
<1>10. FileWithinLimit'
  <2>1. \A i \in DOMAIN files : Within(size, files[i])
    BY Limited DEF Inv
  <2>2. \A i \in DOMAIN files' : Within(size, files'[i])
    BY <1>6, <1>7, <2>1 DEF Within
  <2>3. size' = size
    BY <1>1
  <2> QED
    BY <2>2, <2>3 DEF FileWithinLimit, Within, Long
<1>11. Numbers(DOMAIN size)'
  <2>1. Numbers(DOMAIN size)
    BY DEF Inv
  <2> QED
    BY <1>1, <1>6, <1>7, <2>1 DEF Numbers
<1> QED
  BY <1>8, <1>9, <1>10, <1>11 DEF Inv

-----------------------------------------------------------------------------
(* The theorems. *)

LEMMA NextInv == ASSUME Inv, [Next]_vars PROVE Inv'
<1>1. CASE WriteLog
  BY <1>1, WriteLogInv
<1>2. CASE Removed
  BY <1>2, RemovedInv
<1>3. CASE UNCHANGED vars
  BY <1>3 DEF vars, Inv, TypeOK, LogInOrder, Logged, FileWithinLimit, Numbers
<1> QED
  BY <1>1, <1>2, <1>3 DEF Next

(* The invariant holds in every state of the log.                           *)
THEOREM Invariance == Spec => []Inv
<1>1. Inv /\ [Next]_vars => Inv'
  BY NextInv
<1> QED
  BY <1>1, InitInv, PTL DEF Spec

(* Every variable keeps its type, and a queue at its limit is one whose     *)
(* last attempt to be written out has failed.                               *)
THEOREM TypeCorrect == Spec => []TypeOK
<1>1. Inv => TypeOK
  BY DEF Inv
<1> QED
  BY <1>1, Invariance, PTL

(* The files and the queue hold the messages in their order, each once, but *)
(* for those that a failed write has swallowed.                             *)
THEOREM NothingLost == Spec => []LogInOrder
<1>1. Inv => LogInOrder
  BY DEF Inv
<1> QED
  BY <1>1, Invariance, PTL

(* MAX_FILESIZE bounds a file, for any limits and sizes, unless a message   *)
(* is longer than its share of __DELTA_FILESIZE, an attempt has failed      *)
(* before, or a new name was the old one.                                   *)
THEOREM FilesLimited == Spec => []FileWithinLimit
<1>1. Inv => FileWithinLimit
  BY DEF Inv
<1> QED
  BY <1>1, Invariance, PTL
=============================================================================
