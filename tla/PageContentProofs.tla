------------------------- MODULE PageContentProofs -------------------------
(***************************************************************************)
(* What is proved of PageContent for any page of any length, any links and *)
(* any words: the loop over the links, what a browser would make of them,  *)
(* and that the two replacements leave the words that a reader sees.       *)
(***************************************************************************)
EXTENDS PageContent, FiniteSetTheorems, TLAPS

-----------------------------------------------------------------------------
(* Induction over a bounded range of numbers.  The prover instantiates no
   predicate, so what is to be shown of each number is put as a set.       *)
LEMMA LeastOf ==
  ASSUME NEW T, T \subseteq Nat, T # {}
  PROVE  \E n \in T : \A m \in T : n <= m
<1>1. PICK n \in T : \A m \in T : ~ (<<m, n>> \in OpToRel(<, Nat))
  BY NatLessThanWellFounded, WFMin
<1>2. ASSUME NEW m \in T PROVE n <= m
  <2>1. ~ (<<m, n>> \in {ss \in Nat \X Nat : ss[1] < ss[2]})
    BY <1>1 DEF OpToRel
  <2> QED
    BY <2>1
<1> QED
  BY <1>2

LEMMA Upward ==
  ASSUME NEW n \in Nat, NEW G, 0 \in G,
         \A i \in 0..n - 1 : i \in G => i + 1 \in G
  PROVE  0..n \subseteq G
<1> DEFINE Bad == 0..n \ G
<1>1. SUFFICES ASSUME Bad # {} PROVE FALSE
  OBVIOUS
<1>2. PICK k \in Bad : \A m \in Bad : k <= m
  <2>1. Bad \subseteq Nat
    OBVIOUS
  <2> HIDE DEF Bad
  <2> QED
    BY <1>1, <2>1, LeastOf
<1>3. k # 0 /\ k - 1 \in 0..n - 1 /\ k - 1 \notin Bad
  BY <1>2
<1> QED
  BY <1>2, <1>3

LEMMA Downward ==
  ASSUME NEW n \in Nat, NEW G, n \in G,
         \A i \in 0..n - 1 : i + 1..n \subseteq G => i \in G
  PROVE  0..n \subseteq G
<1> DEFINE Bad == {k \in 0..n : n - k \notin G}
<1>1. SUFFICES ASSUME Bad # {} PROVE FALSE
  <2>1. ASSUME NEW i \in 0..n, Bad = {} PROVE i \in G
    <3>1. n - i \in 0..n /\ n - (n - i) = i
      OBVIOUS
    <3>2. n - i \notin Bad
      BY <2>1
    <3> QED
      BY <3>1, <3>2
  <2> QED
    BY <2>1
<1>2. PICK k \in Bad : \A m \in Bad : k <= m
  <2>1. Bad \subseteq Nat
    OBVIOUS
  <2> HIDE DEF Bad
  <2> QED
    BY <1>1, <2>1, LeastOf
<1> DEFINE i == n - k
<1>3. i \in 0..n /\ i # n /\ i \notin G
  BY <1>2
<1>4. ASSUME NEW j \in i + 1..n PROVE j \in G
  <2>1. n - j \in 0..n /\ ~ (k <= n - j) /\ n - (n - j) = j
    BY <1>3
  <2> QED
    BY <1>2, <2>1
<1> QED
  BY <1>3, <1>4

LEMMA MinFacts ==
  ASSUME NEW T, T \subseteq Nat, T # {}
  PROVE  Min(T) \in T /\ \A m \in T : Min(T) <= m
BY LeastOf DEF Min

LEMMA MaxFacts ==
  ASSUME NEW n \in Nat, NEW T, T \subseteq 0..n, T # {}
  PROVE  Max(T) \in T /\ \A m \in T : Max(T) >= m
<1> DEFINE D == {n - m : m \in T}
<1>1. PICK d \in D : \A e \in D : d <= e
  <2>1. \A m \in T : n - m \in Nat
    BY T \subseteq 0..n
  <2>2. D \subseteq Nat /\ D # {}
    BY <2>1
  <2> HIDE DEF D
  <2> QED
    BY <2>2, LeastOf
<1>2. PICK k \in T : d = n - k
  BY <1>1
<1>3. ASSUME NEW m \in T PROVE k >= m
  <2>1. n - k <= n - m
    BY <1>1, <1>2
  <2> QED
    BY <2>1
<1>4. \E x \in T : \A m \in T : x >= m
  BY <1>3
<1> QED
  BY <1>4 DEF Max

-----------------------------------------------------------------------------
(* s stands in t, after its first k.                                       *)
Stands(t, k, s) == \A j \in 1..Len(s) : t[k + j] = s[j]

(* t is the n pieces of p one after another, the i-th of them, after the
   h-th, ending at b[i].                                                   *)
IsJoin(t, n, p, b) ==
  /\ b \in [0..n -> Nat]
  /\ b[0] = 0
  /\ b[n] = Len(t)
  /\ \A h, i \in 0..n : i = h + 1 => b[i] = b[h] + Len(p[i]) /\ Stands(t, b[h], p[i])

LEMMA Concat ==
  ASSUME NEW S, NEW s \in Seq(S), NEW t \in Seq(S)
  PROVE  /\ s \o t \in Seq(S)
         /\ Len(s) \in Nat /\ Len(t) \in Nat /\ Len(s \o t) = Len(s) + Len(t)
         /\ \A j \in 1..Len(s) : (s \o t)[j] = s[j]
         /\ \A j \in 1..Len(t) : (s \o t)[Len(s) + j] = t[j]
OBVIOUS

LEMMA Pair ==
  ASSUME NEW x, NEW y
  PROVE  <<x>> \o <<y>> = <<x, y>>
<1> DEFINE s == <<x>> \o <<y>>
           t == <<x, y>>
<1>1. s \in Seq({x, y}) /\ t \in Seq({x, y})
  OBVIOUS
<1>2. Len(s) = 2 /\ Len(t) = 2 /\ s[1] = x /\ t[1] = x /\ s[2] = y /\ t[2] = y
  OBVIOUS
<1> HIDE DEF s, t
<1>3. \A i \in 1..Len(s) : s[i] = t[i]
  BY <1>2
<1>4. s = t
  BY <1>1, <1>2, <1>3
<1> QED
  BY <1>4 DEF s, t

LEMMA JoinBounds ==
  ASSUME NEW S, NEW n \in Nat, NEW p \in [1..n -> Seq(S)], NEW t, NEW b, IsJoin(t, n, p, b),
         NEW i \in 0..n, NEW k \in 0..n, i <= k
  PROVE  b[i] <= b[k]
<1> DEFINE G == {m \in 0..n - i : b[i] <= b[i + m]}
<1>0. b \in [0..n -> Nat] /\ \A g, h \in 0..n : h = g + 1 => b[h] = b[g] + Len(p[h])
  BY DEF IsJoin
<1>1. n - i \in Nat /\ k - i \in 0..n - i /\ i + (k - i) = k
  OBVIOUS
<1>2. 0 \in G
  <2>1. i + 0 = i /\ b[i] \in Nat
    BY <1>0
  <2> QED
    BY <1>1, <2>1
<1>3. ASSUME NEW m \in 0..(n - i) - 1, m \in G PROVE m + 1 \in G
  <2>1. i + m \in 0..n /\ i + m + 1 \in 0..n /\ i + m + 1 \in 1..n /\ m + 1 \in 0..n - i
        /\ i + (m + 1) = i + m + 1
    BY <1>1
  <2>2. b[i + m + 1] = b[i + m] + Len(p[i + m + 1])
    BY <2>1, <1>0
  <2>3. p[i + m + 1] \in Seq(S)
    BY <2>1
  <2>4. Len(p[i + m + 1]) \in Nat
    BY <2>3
  <2>5. b[i + m] \in Nat /\ b[i] \in Nat /\ b[i] <= b[i + m]
    BY <1>3, <2>1, <1>0
  <2>6. b[i] <= b[i + m + 1]
    BY <2>2, <2>4, <2>5
  <2> QED
    BY <2>1, <2>6
<1>4. 0..n - i \subseteq G
  <2> HIDE DEF G
  <2> QED
    BY <1>1, <1>2, <1>3, Upward
<1> QED
  BY <1>4, <1>1

LEMMA JoinEnds ==
  ASSUME NEW S, NEW n \in Nat, NEW p \in [1..n -> Seq(S)], NEW t, NEW b, IsJoin(t, n, p, b),
         NEW i \in 0..n
  PROVE  b[i] \in Nat /\ Len(t) \in Nat /\ b[i] <= Len(t)
<1>1. b \in [0..n -> Nat] /\ b[n] = Len(t)
  BY DEF IsJoin
<1>2. n \in 0..n /\ i <= n
  OBVIOUS
<1>3. b[i] <= b[n]
  BY <1>2, JoinBounds
<1> QED
  BY <1>1, <1>2, <1>3

(* What is put together from the end, each piece in front of what follows. *)
Tails(n, p, d) == d[n] = <<>> /\ \A h, i \in 0..n : i = h + 1 => d[h] = p[i] \o d[i]

Before(t, s) == Len(t) - Len(s)

EndsWith(t, s) == Len(s) <= Len(t) /\ Stands(t, Before(t, s), s)

LEMMA TailStep ==
  ASSUME NEW S, NEW t \in Seq(S), NEW s \in Seq(S), NEW r \in Seq(S), EndsWith(t, s \o r)
  PROVE  /\ EndsWith(t, r)
         /\ Before(t, r) = Before(t, s \o r) + Len(s)
         /\ Stands(t, Before(t, s \o r), s)
<1> DEFINE u == s \o r
           k == Len(s)
           m == Len(r)
<1>1. /\ k \in Nat /\ m \in Nat /\ Len(t) \in Nat /\ Len(u) = k + m
      /\ \A j \in 1..k : u[j] = s[j]
      /\ \A j \in 1..m : u[k + j] = r[j]
  BY Concat
<1>2. Len(u) <= Len(t) /\ \A j \in 1..Len(u) : t[Len(t) - Len(u) + j] = u[j]
  BY DEF EndsWith, Before, Stands
<1> HIDE DEF u, k, m
<1>3. ASSUME NEW j \in 1..m PROVE t[Len(t) - m + j] = r[j]
  <2>1. k + j \in 1..Len(u) /\ Len(t) - Len(u) + (k + j) = Len(t) - m + j
    BY <1>1
  <2>2. t[Len(t) - Len(u) + (k + j)] = u[k + j]
    BY <1>2, <2>1
  <2> QED
    BY <1>1, <2>1, <2>2
<1>4. EndsWith(t, r)
  BY <1>1, <1>2, <1>3 DEF EndsWith, Before, Stands, m
<1>5. Before(t, r) = Before(t, u) + k
  BY <1>1, <1>2 DEF Before, m
<1>6. Stands(t, Before(t, u), s)
  <2>1. ASSUME NEW j \in 1..k PROVE t[Len(t) - Len(u) + j] = s[j]
    <3>1. j \in 1..Len(u)
      BY <1>1
    <3> QED
      BY <3>1, <1>1, <1>2
  <2> QED
    BY <2>1 DEF Stands, Before, k
<1> QED
  BY <1>4, <1>5, <1>6 DEF u, k

LEMMA TailsJoin ==
  ASSUME NEW S, NEW n \in Nat, NEW p \in [1..n -> Seq(S)], NEW d \in [0..n -> Seq(S)],
         Tails(n, p, d)
  PROVE  \E b : IsJoin(d[0], n, p, b)
<1> DEFINE t == d[0]
           G == {i \in 0..n : EndsWith(t, d[i])}
           b == [i \in 0..n |-> Before(t, d[i])]
<1>1. 0 \in 0..n /\ n \in 0..n /\ t \in Seq(S) /\ Len(t) \in Nat
  OBVIOUS
<1>2. ASSUME NEW h \in 0..n, NEW i \in 0..n, i = h + 1
      PROVE  p[i] \in Seq(S) /\ d[i] \in Seq(S) /\ d[h] = p[i] \o d[i]
  <2>1. i \in 1..n
    BY <1>2
  <2> QED
    BY <1>2, <2>1 DEF Tails
<1>3. 0 \in G
  BY <1>1 DEF EndsWith
<1>4. ASSUME NEW i \in 0..n - 1, i \in G PROVE i + 1 \in G
  <2>1. i \in 0..n /\ i + 1 \in 0..n
    OBVIOUS
  <2>2. EndsWith(t, d[i + 1])
    <3>1. p[i + 1] \in Seq(S) /\ d[i + 1] \in Seq(S) /\ d[i] = p[i + 1] \o d[i + 1]
      BY <1>2, <2>1
    <3>2. EndsWith(t, p[i + 1] \o d[i + 1])
      BY <1>4, <3>1
    <3> HIDE DEF t
    <3> QED
      BY <1>1, <3>1, <3>2, TailStep
  <2> QED
    BY <2>1, <2>2
<1>5. \A i \in 0..n : EndsWith(t, d[i])
  <2> HIDE DEF G
  <2>1. 0..n \subseteq G
    BY <1>3, <1>4, Upward
  <2> QED
    BY <2>1 DEF G
<1>6. b \in [0..n -> Nat] /\ b[0] = 0 /\ b[n] = Len(t)
  <2>1. ASSUME NEW i \in 0..n PROVE Before(t, d[i]) \in Nat
    <3>1. Len(d[i]) \in Nat
      OBVIOUS
    <3> QED
      BY <3>1, <1>1, <1>5 DEF EndsWith, Before
  <2>2. Len(d[n]) = 0
    BY DEF Tails
  <2> QED
    BY <2>1, <2>2, <1>1 DEF Before
<1>7. ASSUME NEW h \in 0..n, NEW i \in 0..n, i = h + 1
      PROVE  b[i] = b[h] + Len(p[i]) /\ Stands(t, b[h], p[i])
  <2>1. p[i] \in Seq(S) /\ d[i] \in Seq(S) /\ d[h] = p[i] \o d[i]
    BY <1>2, <1>7
  <2>2. EndsWith(t, p[i] \o d[i])
    BY <1>5, <2>1
  <2> HIDE DEF t
  <2>3. Before(t, d[i]) = Before(t, d[h]) + Len(p[i]) /\ Stands(t, Before(t, d[h]), p[i])
    BY <1>1, <2>1, <2>2, TailStep
  <2> QED
    BY <2>3
<1>8. IsJoin(t, n, p, b)
  <2> HIDE DEF b
  <2> QED
    BY <1>6, <1>7 DEF IsJoin
<1> QED
  BY <1>8

(* What is put together from the front, as FlattenSeq does.                *)
Heads(n, p, d) == d[0] = <<>> /\ \A h, i \in 0..n : i = h + 1 => d[i] = d[h] \o p[i]

BeginsWith(t, s) == Len(s) <= Len(t) /\ \A j \in 1..Len(s) : t[j] = s[j]

LEMMA HeadStep ==
  ASSUME NEW S, NEW t \in Seq(S), NEW s \in Seq(S), NEW r \in Seq(S), BeginsWith(t, s \o r)
  PROVE  /\ BeginsWith(t, s)
         /\ Len(s \o r) = Len(s) + Len(r)
         /\ Stands(t, Len(s), r)
<1> DEFINE u == s \o r
           k == Len(s)
           m == Len(r)
<1>1. /\ k \in Nat /\ m \in Nat /\ Len(t) \in Nat /\ Len(u) = k + m
      /\ \A j \in 1..k : u[j] = s[j]
      /\ \A j \in 1..m : u[k + j] = r[j]
  BY Concat
<1>2. Len(u) <= Len(t) /\ \A j \in 1..Len(u) : t[j] = u[j]
  BY DEF BeginsWith
<1> HIDE DEF u, k, m
<1>3. BeginsWith(t, s)
  BY <1>1, <1>2 DEF BeginsWith, k
<1>4. ASSUME NEW j \in 1..m PROVE t[k + j] = r[j]
  <2>1. k + j \in 1..Len(u)
    BY <1>1
  <2> QED
    BY <1>1, <1>2, <2>1
<1> QED
  BY <1>1, <1>3, <1>4 DEF u, k, m, Stands

LEMMA HeadsJoin ==
  ASSUME NEW S, NEW n \in Nat, NEW p \in [1..n -> Seq(S)], NEW d \in [0..n -> Seq(S)],
         Heads(n, p, d)
  PROVE  \E b : IsJoin(d[n], n, p, b)
<1> DEFINE t == d[n]
           G == {i \in 0..n : BeginsWith(t, d[i])}
           b == [i \in 0..n |-> Len(d[i])]
<1>1. 0 \in 0..n /\ n \in 0..n /\ t \in Seq(S) /\ Len(t) \in Nat
  OBVIOUS
<1>2. ASSUME NEW h \in 0..n, NEW i \in 0..n, i = h + 1
      PROVE  p[i] \in Seq(S) /\ d[h] \in Seq(S) /\ d[i] = d[h] \o p[i]
  <2>1. i \in 1..n
    BY <1>2
  <2> QED
    BY <1>2, <2>1 DEF Heads
<1>3. n \in G
  BY <1>1 DEF BeginsWith
<1>4. ASSUME NEW i \in 0..n - 1, i + 1..n \subseteq G PROVE i \in G
  <2>1. i \in 0..n /\ i + 1 \in 0..n /\ i + 1 \in i + 1..n
    OBVIOUS
  <2>2. BeginsWith(t, d[i + 1])
    BY <1>4, <2>1
  <2>3. BeginsWith(t, d[i])
    <3>1. p[i + 1] \in Seq(S) /\ d[i] \in Seq(S) /\ d[i + 1] = d[i] \o p[i + 1]
      BY <1>2, <2>1
    <3>2. BeginsWith(t, d[i] \o p[i + 1])
      BY <2>2, <3>1
    <3> HIDE DEF t
    <3> QED
      BY <1>1, <3>1, <3>2, HeadStep
  <2> QED
    BY <2>1, <2>3
<1>5. \A i \in 0..n : BeginsWith(t, d[i])
  <2> HIDE DEF G
  <2>1. 0..n \subseteq G
    BY <1>3, <1>4, Downward
  <2> QED
    BY <2>1 DEF G
<1>6. b \in [0..n -> Nat] /\ b[0] = 0 /\ b[n] = Len(t)
  <2>1. ASSUME NEW i \in 0..n PROVE Len(d[i]) \in Nat
    OBVIOUS
  <2>2. Len(d[0]) = 0
    BY DEF Heads
  <2> QED
    BY <2>1, <2>2, <1>1
<1>7. ASSUME NEW h \in 0..n, NEW i \in 0..n, i = h + 1
      PROVE  b[i] = b[h] + Len(p[i]) /\ Stands(t, b[h], p[i])
  <2>1. p[i] \in Seq(S) /\ d[h] \in Seq(S) /\ d[i] = d[h] \o p[i]
    BY <1>2, <1>7
  <2>2. BeginsWith(t, d[h] \o p[i])
    BY <1>5, <2>1
  <2>3. Len(d[i]) = Len(d[h]) + Len(p[i]) /\ Stands(t, Len(d[h]), p[i])
    BY <1>1, <2>1, <2>2, HeadStep
  <2> HIDE DEF t
  <2> QED
    BY <2>3
<1>8. IsJoin(t, n, p, b)
  <2> HIDE DEF b
  <2> QED
    BY <1>6, <1>7 DEF IsJoin
<1> QED
  BY <1>8

LEMMA FlattenJoins ==
  ASSUME NEW S, NEW n \in Nat, NEW p \in [1..n -> Seq(S)]
  PROVE  FlattenSeq(p) \in Seq(S) /\ \E b : IsJoin(FlattenSeq(p), n, p, b)
<1> DEFINE Put(g) == [i \in 1..n |-> IF i = 1 THEN p[i] ELSE g[i - 1] \o p[i]]
           f == CHOOSE g : g = Put(g)
           t == FlattenSeq(p)
<1>1. p \in Seq(Seq(S)) /\ Len(p) = n
  OBVIOUS
<1>2. CASE n = 0
  <2>1. t = p /\ p = <<>>
    BY <1>1, <1>2 DEF FlattenSeq
  <2>2. IsJoin(<<>>, 0, p, [i \in 0..0 |-> 0])
    BY DEF IsJoin
  <2>3. <<>> \in Seq(S)
    OBVIOUS
  <2> QED
    BY <1>2, <2>1, <2>2, <2>3
<1>3. CASE n # 0
  <2>1. t = f[n]
    BY <1>1, <1>3 DEF FlattenSeq
  <2> DEFINE Fits(k, g) ==
               \A i \in 1..k : g[i] = IF i = 1 THEN p[i] ELSE g[i - 1] \o p[i]
             G == {k \in 0..n : \E g \in [1..k -> Seq(S)] : Fits(k, g)}
  <2>2. 0 \in G
    <3>1. [i \in 1..0 |-> <<>>] \in [1..0 -> Seq(S)] /\ 0 \in 0..n /\ 1..0 = {}
      OBVIOUS
    <3> QED
      BY <3>1
  <2>3. ASSUME NEW k \in 0..n - 1, k \in G PROVE k + 1 \in G
    <3>1. PICK g \in [1..k -> Seq(S)] : Fits(k, g)
      BY <2>3
    <3> DEFINE last == IF k = 0 THEN p[k + 1] ELSE g[k] \o p[k + 1]
               h == [i \in 1..k + 1 |-> IF i = k + 1 THEN last ELSE g[i]]
    <3>2. k \in Nat /\ k + 1 \in 0..n /\ p[k + 1] \in Seq(S) /\ (k # 0 => g[k] \in Seq(S))
      OBVIOUS
    <3>3. last \in Seq(S)
      BY <3>2, Concat
    <3>4. \A i \in 1..k + 1 : i # k + 1 => i \in 1..k
      BY <3>2
    <3>5. h \in [1..k + 1 -> Seq(S)]
      <4> HIDE DEF last
      <4> QED
        BY <3>3, <3>4
    <3>6. ASSUME NEW i \in 1..k + 1
          PROVE  h[i] = IF i = 1 THEN p[i] ELSE h[i - 1] \o p[i]
      <4>1. CASE i = k + 1
        <5>1. h[i] = last /\ (i = 1 <=> k = 0)
          BY <4>1, <3>2
        <5>2. i # 1 => i - 1 \in 1..k + 1 /\ i - 1 # k + 1 /\ i - 1 = k
          BY <4>1, <3>2
        <5>3. i # 1 => h[i - 1] = g[k]
          BY <5>2
        <5> HIDE DEF h
        <5> QED
          BY <4>1, <5>1, <5>3
      <4>2. CASE i # k + 1
        <5>1. i \in 1..k /\ h[i] = g[i]
          BY <4>2, <3>4
        <5>2. i # 1 => i - 1 \in 1..k + 1 /\ i - 1 # k + 1
          BY <4>2, <3>2
        <5>3. i # 1 => h[i - 1] = g[i - 1]
          BY <5>2
        <5> HIDE DEF h
        <5> QED
          BY <3>1, <5>1, <5>3
      <4> QED
        BY <4>1, <4>2
    <3>7. Fits(k + 1, h)
      <4> HIDE DEF h
      <4> QED
        BY <3>6
    <3> HIDE DEF h, Fits
    <3> QED
      BY <3>2, <3>5, <3>7
  <2>4. PICK g \in [1..n -> Seq(S)] : Fits(n, g)
    <3>1. n \in 0..n
      OBVIOUS
    <3>2. n \in G
      <4> HIDE DEF G
      <4> QED
        BY <2>2, <2>3, <3>1, Upward
    <3> QED
      BY <3>2
  <2>5. g = Put(g)
    BY <2>4
  <2>6. f = Put(f)
    BY <2>5
  <2> HIDE DEF f
  <2>7. \A i \in 1..n : f[i] = IF i = 1 THEN p[i] ELSE f[i - 1] \o p[i]
    BY <2>6
  <2> DEFINE d == [i \in 0..n |-> IF i = 0 THEN <<>> ELSE f[i]]
  <2>8. d[0] = <<>> /\ d[n] = t
    BY <1>3, <2>1
  <2>9. ASSUME NEW h \in 0..n, NEW i \in 0..n, i = h + 1, d[h] \in Seq(S)
        PROVE  d[i] = d[h] \o p[i]
    <3>1. i \in 1..n /\ i # 0 /\ d[i] = f[i] /\ (i = 1 <=> h = 0) /\ i - 1 = h
      BY <2>9
    <3>2. p[i] \in Seq(S)
      BY <3>1
    <3>3. CASE h = 0
      <4>1. f[i] = p[i] /\ d[h] = <<>>
        BY <3>1, <3>3, <2>7
      <4>2. <<>> \o p[i] = p[i]
        BY <3>2
      <4> HIDE DEF d
      <4> QED
        BY <3>1, <4>1, <4>2
    <3>4. CASE h # 0
      <4>1. f[i] = f[h] \o p[i] /\ d[h] = f[h]
        BY <3>1, <3>4, <2>7
      <4> HIDE DEF d
      <4> QED
        BY <3>1, <4>1
    <3> QED
      BY <3>3, <3>4
  <2> DEFINE H == {i \in 0..n : d[i] \in Seq(S)}
  <2>10. 0 \in H
    <3> HIDE DEF d
    <3>1. <<>> \in Seq(S) /\ 0 \in 0..n
      OBVIOUS
    <3> QED
      BY <2>8, <3>1
  <2>11. ASSUME NEW i \in 0..n - 1, i \in H PROVE i + 1 \in H
    <3> HIDE DEF d
    <3>1. i \in 0..n /\ i + 1 \in 0..n /\ p[i + 1] \in Seq(S) /\ d[i] \in Seq(S)
      BY <2>11
    <3>2. d[i + 1] = d[i] \o p[i + 1]
      BY <2>9, <3>1
    <3>3. d[i + 1] \in Seq(S)
      BY <3>1, <3>2, Concat
    <3> QED
      BY <3>1, <3>3
  <2>12. \A i \in 0..n : d[i] \in Seq(S)
    <3> HIDE DEF H
    <3>1. 0..n \subseteq H
      BY <2>10, <2>11, Upward
    <3> QED
      BY <3>1 DEF H
  <2>13. d \in [0..n -> Seq(S)]
    BY <2>12
  <2> HIDE DEF d
  <2>14. Heads(n, p, d)
    BY <2>8, <2>9, <2>12 DEF Heads
  <2>15. \E b : IsJoin(d[n], n, p, b)
    BY <2>13, <2>14, HeadsJoin
  <2> QED
    BY <2>8, <2>12, <2>15
<1> QED
  BY <1>2, <1>3

-----------------------------------------------------------------------------
(* What Without leaves: r[i] of t from its i-th token on.                   *)
EndsOf(t, pairs, i) == {j \in i + 1..Len(t) : <<t[i], t[j]>> \in pairs}

LeftAt(t, pairs, r, i) ==
  IF i > Len(t) THEN <<>>
  ELSE IF EndsOf(t, pairs, i) # {} THEN r[Min(EndsOf(t, pairs, i)) + 1]
  ELSE <<t[i]>> \o r[i + 1]

Leaves(t, pairs, r) == \A i \in 1..Len(t) + 1 : r[i] = LeftAt(t, pairs, r, i)

LEMMA EndsFacts ==
  ASSUME NEW S, NEW t \in Seq(S), NEW pairs, NEW i \in 1..Len(t), EndsOf(t, pairs, i) # {}
  PROVE  /\ Min(EndsOf(t, pairs, i)) \in i + 1..Len(t)
         /\ <<t[i], t[Min(EndsOf(t, pairs, i))]>> \in pairs
         /\ \A j \in i + 1..Len(t) :
              <<t[i], t[j]>> \in pairs => Min(EndsOf(t, pairs, i)) <= j
<1>1. EndsOf(t, pairs, i) \subseteq Nat
  BY DEF EndsOf
<1>2. /\ Min(EndsOf(t, pairs, i)) \in EndsOf(t, pairs, i)
      /\ \A m \in EndsOf(t, pairs, i) : Min(EndsOf(t, pairs, i)) <= m
  BY <1>1, MinFacts
<1> QED
  BY <1>2 DEF EndsOf

LEMMA LeftAtDepends ==
  ASSUME NEW S, NEW t \in Seq(S), NEW pairs, NEW i \in 1..Len(t) + 1, NEW g, NEW h,
         \A j \in i + 1..Len(t) + 1 : g[j] = h[j]
  PROVE  LeftAt(t, pairs, g, i) = LeftAt(t, pairs, h, i)
<1>1. CASE i > Len(t)
  BY <1>1 DEF LeftAt
<1>2. CASE ~ (i > Len(t)) /\ EndsOf(t, pairs, i) # {}
  <2> DEFINE m == Min(EndsOf(t, pairs, i))
  <2>1. m \in i + 1..Len(t)
    <3>1. i \in 1..Len(t)
      BY <1>2
    <3> QED
      BY <1>2, <3>1, EndsFacts
  <2> HIDE DEF m
  <2>2. m + 1 \in i + 1..Len(t) + 1
    BY <2>1
  <2>3. LeftAt(t, pairs, g, i) = g[m + 1] /\ LeftAt(t, pairs, h, i) = h[m + 1]
    BY <1>2 DEF LeftAt, m
  <2> QED
    BY <2>2, <2>3
<1>3. CASE ~ (i > Len(t)) /\ EndsOf(t, pairs, i) = {}
  <2>1. i + 1 \in i + 1..Len(t) + 1
    BY <1>3
  <2> QED
    BY <1>3, <2>1 DEF LeftAt
<1> QED
  BY <1>1, <1>2, <1>3

LEMMA LeftAtType ==
  ASSUME NEW S, NEW t \in Seq(S), NEW pairs, NEW i \in 1..Len(t) + 1, NEW g,
         \A j \in i + 1..Len(t) + 1 : g[j] \in Seq(S)
  PROVE  LeftAt(t, pairs, g, i) \in Seq(S)
<1>1. CASE i > Len(t)
  BY <1>1 DEF LeftAt
<1>2. CASE ~ (i > Len(t)) /\ EndsOf(t, pairs, i) # {}
  <2> DEFINE m == Min(EndsOf(t, pairs, i))
  <2>1. m \in i + 1..Len(t)
    <3>1. i \in 1..Len(t)
      BY <1>2
    <3> QED
      BY <1>2, <3>1, EndsFacts
  <2> HIDE DEF m
  <2>2. m + 1 \in i + 1..Len(t) + 1
    BY <2>1
  <2>3. LeftAt(t, pairs, g, i) = g[m + 1]
    BY <1>2 DEF LeftAt, m
  <2> QED
    BY <2>2, <2>3
<1>3. CASE ~ (i > Len(t)) /\ EndsOf(t, pairs, i) = {}
  <2>1. i + 1 \in i + 1..Len(t) + 1 /\ i \in 1..Len(t)
    BY <1>3
  <2>2. <<t[i]>> \in Seq(S) /\ g[i + 1] \in Seq(S)
    BY <2>1
  <2>3. <<t[i]>> \o g[i + 1] \in Seq(S)
    BY <2>2, Concat
  <2> QED
    BY <1>3, <2>3 DEF LeftAt
<1> QED
  BY <1>1, <1>2, <1>3

LEMMA WithoutLeaves ==
  ASSUME NEW S, NEW t \in Seq(S), NEW pairs
  PROVE  \E r \in [1..Len(t) + 1 -> Seq(S)] : Leaves(t, pairs, r) /\ Without(t, pairs) = r[1]
<1> DEFINE L == Len(t)
           Body(g) == [i \in 1..L + 1 |-> LeftAt(t, pairs, g, i)]
           f == CHOOSE g : g = Body(g)
           Fits(i, g) == \A j \in i + 1..L + 1 : g[j] = LeftAt(t, pairs, g, j)
           G == {i \in 0..L : \E g \in [i + 1..L + 1 -> Seq(S)] : Fits(i, g)}
<1>1. L \in Nat /\ 0 \in 0..L /\ L \in 0..L
  OBVIOUS
<1> HIDE DEF L
<1>2. Without(t, pairs) = f[1]
  BY DEF Without, L, LeftAt, EndsOf
<1>3. L \in G
  <2> DEFINE g == [i \in L + 1..L + 1 |-> <<>>]
  <2>1. g \in [L + 1..L + 1 -> Seq(S)]
    OBVIOUS
  <2>2. Fits(L, g)
    <3>1. ASSUME NEW j \in L + 1..L + 1 PROVE g[j] = LeftAt(t, pairs, g, j)
      <4>1. j > Len(t)
        BY <1>1 DEF L
      <4> QED
        BY <4>1 DEF LeftAt
    <3> QED
      BY <3>1
  <2> HIDE DEF g, Fits
  <2> QED
    BY <2>1, <2>2, <1>1
<1>4. ASSUME NEW i \in 0..L - 1, i + 1..L \subseteq G PROVE i \in G
  <2>1. i \in 0..L /\ i + 1 \in i + 1..L /\ i + 1 \in 1..L + 1
    BY <1>1
  <2>2. PICK g \in [i + 1 + 1..L + 1 -> Seq(S)] : Fits(i + 1, g)
    BY <1>4, <2>1
  <2> DEFINE first == LeftAt(t, pairs, g, i + 1)
             h == [j \in i + 1..L + 1 |-> IF j = i + 1 THEN first ELSE g[j]]
  <2>3. \A j \in i + 1..L + 1 : j # i + 1 => j \in i + 1 + 1..L + 1
    BY <1>1
  <2>4. first \in Seq(S)
    <3>1. \A j \in i + 1 + 1..L + 1 : g[j] \in Seq(S)
      OBVIOUS
    <3> QED
      BY <2>1, <3>1, LeftAtType DEF L
  <2> HIDE DEF first
  <2>5. h \in [i + 1..L + 1 -> Seq(S)]
    BY <2>3, <2>4
  <2>6. \A j \in i + 1 + 1..L + 1 : g[j] = h[j]
    <3>1. \A j \in i + 1 + 1..L + 1 : j \in i + 1..L + 1 /\ j # i + 1
      BY <1>1
    <3> QED
      BY <3>1
  <2>7. h[i + 1] = first
    <3>1. i + 1 \in i + 1..L + 1
      BY <1>1
    <3> QED
      BY <3>1
  <2> HIDE DEF h
  <2>8. ASSUME NEW j \in i + 1..L + 1 PROVE h[j] = LeftAt(t, pairs, h, j)
    <3>1. j \in 1..L + 1 /\ \A k \in j + 1..L + 1 : k \in i + 1 + 1..L + 1
      BY <1>1
    <3>2. LeftAt(t, pairs, g, j) = LeftAt(t, pairs, h, j)
      <4>1. \A k \in j + 1..L + 1 : g[k] = h[k]
        BY <2>6, <3>1
      <4> QED
        BY <3>1, <4>1, LeftAtDepends DEF L
    <3>3. CASE j = i + 1
      BY <3>2, <3>3, <2>7 DEF first
    <3>4. CASE j # i + 1
      <4>1. j \in i + 1 + 1..L + 1
        BY <3>4, <2>3
      <4>2. g[j] = LeftAt(t, pairs, g, j)
        BY <2>2, <4>1
      <4> QED
        BY <3>2, <4>1, <4>2, <2>6
    <3> QED
      BY <3>3, <3>4
  <2> QED
    BY <2>1, <2>5, <2>8
<1>5. PICK g \in [1..L + 1 -> Seq(S)] : \A j \in 1..L + 1 : g[j] = LeftAt(t, pairs, g, j)
  <2>1. 0 \in G
    <3> HIDE DEF G
    <3> QED
      BY <1>1, <1>3, <1>4, Downward
  <2>2. 0 + 1 = 1
    OBVIOUS
  <2> QED
    BY <2>1, <2>2
<1>6. g = Body(g)
  BY <1>5
<1>7. f = Body(f)
  BY <1>6
<1> HIDE DEF f
<1>8. \A i \in 1..L + 1 : f[i] = LeftAt(t, pairs, f, i)
  BY <1>7
<1> DEFINE H == {i \in 0..L : f[i + 1] \in Seq(S)}
<1>9. L \in H
  <2>1. L + 1 \in 1..L + 1 /\ L + 1 > Len(t)
    BY <1>1 DEF L
  <2>2. f[L + 1] = <<>>
    BY <2>1, <1>8 DEF LeftAt
  <2>3. <<>> \in Seq(S)
    OBVIOUS
  <2> QED
    BY <2>2, <2>3, <1>1
<1>10. ASSUME NEW i \in 0..L - 1, i + 1..L \subseteq H PROVE i \in H
  <2>1. i \in 0..L /\ i + 1 \in 1..L + 1
    BY <1>1
  <2>2. ASSUME NEW j \in i + 1 + 1..L + 1 PROVE f[j] \in Seq(S)
    <3>1. j - 1 \in i + 1..L /\ j - 1 + 1 = j
      BY <1>1
    <3> QED
      BY <1>10, <3>1
  <2>3. LeftAt(t, pairs, f, i + 1) \in Seq(S)
    BY <2>1, <2>2, LeftAtType DEF L
  <2> QED
    BY <2>1, <2>3, <1>8
<1>11. \A i \in 1..L + 1 : f[i] \in Seq(S)
  <2>1. 0..L \subseteq H
    <3> HIDE DEF H
    <3> QED
      BY <1>1, <1>9, <1>10, Downward
  <2>2. ASSUME NEW i \in 1..L + 1 PROVE f[i] \in Seq(S)
    <3>1. i - 1 \in 0..L /\ i - 1 + 1 = i
      BY <1>1
    <3> QED
      BY <2>1, <3>1
  <2> QED
    BY <2>2
<1>12. f \in [1..L + 1 -> Seq(S)]
  BY <1>7, <1>11
<1> QED
  BY <1>2, <1>8, <1>12 DEF L, Leaves

(* A stretch that nothing in it begins a match of stays as it is.          *)
LEMMA Copied ==
  ASSUME NEW S, NEW t \in Seq(S), NEW pairs, NEW r \in [1..Len(t) + 1 -> Seq(S)],
         Leaves(t, pairs, r), NEW k \in Nat, NEW s \in Seq(S), k + Len(s) <= Len(t),
         Stands(t, k, s), \A j \in 1..Len(s) : \A x : <<s[j], x>> \notin pairs
  PROVE  r[k + 1] = s \o r[k + Len(s) + 1]
<1> DEFINE m == Len(s)
           rest == r[k + m + 1]
           G == {j \in 0..m : r[k + j + 1] = SubSeq(s, j + 1, m) \o rest}
<1>1. m \in Nat /\ Len(t) \in Nat /\ k + m + 1 \in 1..Len(t) + 1
  OBVIOUS
<1>2. rest \in Seq(S)
  BY <1>1
<1>3. m \in G
  <2>1. SubSeq(s, m + 1, m) = <<>>
    BY <1>1
  <2>2. <<>> \o rest = rest
    BY <1>2
  <2> HIDE DEF rest, m
  <2> QED
    BY <1>1, <2>1, <2>2 DEF rest
<1>4. ASSUME NEW j \in 0..m - 1, j + 1..m \subseteq G PROVE j \in G
  <2> DEFINE i == k + j + 1
  <2>1. /\ j \in 0..m /\ j + 1 \in 1..m /\ j + 1 \in j + 1..m /\ i \in 1..Len(t) + 1
        /\ ~ (i > Len(t)) /\ i \in 1..Len(t) /\ i = k + (j + 1) /\ i + 1 = k + (j + 1) + 1
    BY <1>1
  <2>2. t[i] = s[j + 1]
    BY <2>1 DEF Stands
  <2>3. EndsOf(t, pairs, i) = {}
    BY <2>1, <2>2 DEF EndsOf
  <2>4. r[i] = <<t[i]>> \o r[i + 1]
    BY <2>1, <2>3 DEF Leaves, LeftAt
  <2>5. r[i + 1] = SubSeq(s, j + 1 + 1, m) \o rest
    BY <1>4, <2>1
  <2>6. SubSeq(s, j + 1, m) = <<s[j + 1]>> \o SubSeq(s, j + 1 + 1, m)
        /\ SubSeq(s, j + 1 + 1, m) \in Seq(S) /\ s[j + 1] \in S
    BY <2>1, <1>1
  <2>7. <<s[j + 1]>> \o (SubSeq(s, j + 1 + 1, m) \o rest)
          = (<<s[j + 1]>> \o SubSeq(s, j + 1 + 1, m)) \o rest
    <3> HIDE DEF m, rest
    <3> DEFINE v == SubSeq(s, j + 1 + 1, m)
               x == s[j + 1]
    <3>1. v \in Seq(S) /\ x \in S
      BY <2>6
    <3> HIDE DEF v, x
    <3>2. <<x>> \o (v \o rest) = (<<x>> \o v) \o rest
      BY <3>1, <1>2
    <3> QED
      BY <3>2 DEF v, x
  <2> HIDE DEF rest, m, i
  <2>8. r[i] = SubSeq(s, j + 1, m) \o rest
    BY <2>2, <2>4, <2>5, <2>6, <2>7
  <2> QED
    BY <2>1, <2>8 DEF i
<1>5. 0 \in G
  <2>1. 0 \in 0..m
    BY <1>1
  <2> HIDE DEF G, m
  <2> QED
    BY <1>1, <1>3, <1>4, <2>1, Downward
<1>6. SubSeq(s, 1, m) = s /\ k + 0 + 1 = k + 1 /\ 0 + 1 = 1
  OBVIOUS
<1> HIDE DEF rest
<1>7. r[k + 1] = s \o rest
  BY <1>5, <1>6
<1> QED
  BY <1>7 DEF rest

(* Where each piece of t leaves a piece of v, what is left is v joined.    *)
LeftBy(n, r, b, v) == \A h, i \in 0..n : i = h + 1 => r[b[h] + 1] = v[i] \o r[b[i] + 1]

LEMMA Passed ==
  ASSUME NEW S, NEW t \in Seq(S), NEW pairs, NEW r \in [1..Len(t) + 1 -> Seq(S)],
         Leaves(t, pairs, r), NEW n \in Nat, NEW p \in [1..n -> Seq(S)],
         NEW v \in [1..n -> Seq(S)], NEW b, IsJoin(t, n, p, b),
         LeftBy(n, r, b, v)
  PROVE  \E c : IsJoin(r[1], n, v, c)
<1> DEFINE d == [i \in 0..n |-> r[b[i] + 1]]
<1>1. b \in [0..n -> Nat] /\ b[0] = 0 /\ b[n] = Len(t) /\ Len(t) \in Nat /\ n \in 0..n /\ 0 \in 0..n
  BY DEF IsJoin
<1>2. \A i \in 0..n : b[i] + 1 \in 1..Len(t) + 1
  <2>1. ASSUME NEW i \in 0..n PROVE b[i] + 1 \in 1..Len(t) + 1
    <3>1. b[i] \in Nat /\ b[i] <= Len(t)
      BY JoinEnds
    <3> QED
      BY <1>1, <3>1
  <2> QED
    BY <2>1
<1>3. d \in [0..n -> Seq(S)]
  BY <1>2
<1>4. d[n] = <<>>
  <2>1. Len(t) + 1 \in 1..Len(t) + 1 /\ Len(t) + 1 > Len(t)
    BY <1>1
  <2>2. r[Len(t) + 1] = <<>>
    BY <2>1 DEF Leaves, LeftAt
  <2> QED
    BY <1>1, <2>2
<1>5. d[0] = r[1]
  BY <1>1
<1>6. Tails(n, v, d)
  BY <1>4 DEF Tails, LeftBy
<1> HIDE DEF d
<1>7. \E c : IsJoin(d[0], n, v, c)
  BY <1>3, <1>6, TailsJoin
<1> QED
  BY <1>5, <1>7

-----------------------------------------------------------------------------
(* Wherever s stands in t, v is left of it.                                *)
Becomes(t, r, s, v) ==
  \A k \in Nat : k + Len(s) <= Len(t) /\ Stands(t, k, s) => r[k + 1] = v \o r[k + Len(s) + 1]

LEMMA Stays ==
  ASSUME NEW S, NEW t \in Seq(S), NEW pairs, NEW r \in [1..Len(t) + 1 -> Seq(S)],
         Leaves(t, pairs, r), NEW s \in Seq(S), \A j \in 1..Len(s) : \A x : <<s[j], x>> \notin pairs
  PROVE  Becomes(t, r, s, s)
BY Copied DEF Becomes

LEMMA Both ==
  ASSUME NEW S, NEW t \in Seq(S), NEW r \in [1..Len(t) + 1 -> Seq(S)],
         NEW s \in Seq(S), NEW u \in Seq(S), NEW v \in Seq(S), NEW w \in Seq(S),
         Becomes(t, r, s, v), Becomes(t, r, u, w)
  PROVE  Becomes(t, r, s \o u, v \o w)
<1> SUFFICES ASSUME NEW k \in Nat, k + Len(s \o u) <= Len(t), Stands(t, k, s \o u)
             PROVE  r[k + 1] = (v \o w) \o r[k + Len(s \o u) + 1]
  BY DEF Becomes
<1> DEFINE su == s \o u
           m == Len(s)
           l == Len(u)
<1>1. /\ su \in Seq(S) /\ m \in Nat /\ l \in Nat /\ Len(su) = m + l
      /\ \A j \in 1..m : su[j] = s[j]
      /\ \A j \in 1..l : su[m + j] = u[j]
  BY Concat
<1>2. Len(t) \in Nat /\ k + Len(su) <= Len(t) /\ \A j \in 1..Len(su) : t[k + j] = su[j]
  BY DEF Stands
<1> HIDE DEF su, m, l
<1>3. Stands(t, k, s)
  <2>1. ASSUME NEW j \in 1..m PROVE t[k + j] = s[j]
    <3>1. j \in 1..Len(su)
      BY <1>1
    <3> QED
      BY <1>1, <1>2, <3>1
  <2> QED
    BY <2>1 DEF Stands, m
<1>4. Stands(t, k + m, u)
  <2>1. ASSUME NEW j \in 1..l PROVE t[k + m + j] = u[j]
    <3>1. m + j \in 1..Len(su) /\ k + m + j = k + (m + j)
      BY <1>1
    <3> QED
      BY <1>1, <1>2, <3>1
  <2> QED
    BY <2>1 DEF Stands, l
<1>5. k + m \in Nat /\ k + m <= Len(t) /\ k + m + l <= Len(t) /\ k + m + l = k + Len(su)
      /\ k + m + l + 1 \in 1..Len(t) + 1
  <2> DEFINE n == Len(t)
             i == Len(su)
  <2>1. m \in Nat /\ l \in Nat /\ n \in Nat /\ i = m + l /\ k + i <= n
    BY <1>1, <1>2
  <2> HIDE DEF n, i
  <2>2. k + m \in Nat /\ k + m <= n /\ k + m + l <= n /\ k + m + l = k + i
        /\ k + m + l + 1 \in 1..n + 1
    BY ONLY k \in Nat, <2>1
  <2> QED
    BY <2>2 DEF n, i
<1>6. r[k + 1] = v \o r[k + m + 1]
  BY <1>3, <1>5 DEF Becomes, m
<1>7. r[k + m + 1] = w \o r[k + m + l + 1]
  BY <1>4, <1>5 DEF Becomes, l
<1> DEFINE z == r[k + m + l + 1]
<1>8. z \in Seq(S)
  BY <1>5
<1> HIDE DEF z
<1>9. v \o (w \o z) = (v \o w) \o z
  BY ONLY v \in Seq(S), w \in Seq(S), <1>8
<1> QED
  BY <1>5, <1>6, <1>7, <1>9 DEF z, su

(* From a to z, with w between them.                                       *)
Wrap(a, w, z) == <<a>> \o w \o <<z>>

LEMMA WrapFacts ==
  ASSUME NEW S, NEW a \in S, NEW w \in Seq(S), NEW z \in S
  PROVE  /\ Wrap(a, w, z) \in Seq(S) /\ Len(w) \in Nat /\ Len(Wrap(a, w, z)) = Len(w) + 2
         /\ Wrap(a, w, z)[1] = a /\ Wrap(a, w, z)[Len(w) + 2] = z
         /\ \A j \in 1..Len(w) : Wrap(a, w, z)[j + 1] = w[j]
BY DEF Wrap

(* A stretch whose first token begins a match that its last one ends goes. *)
LEMMA Vanishes ==
  ASSUME NEW S, NEW t \in Seq(S), NEW pairs, NEW r \in [1..Len(t) + 1 -> Seq(S)],
         Leaves(t, pairs, r), NEW s \in Seq(S), Len(s) > 1, <<s[1], s[Len(s)]>> \in pairs,
         \A j \in 2..Len(s) - 1 : <<s[1], s[j]>> \notin pairs
  PROVE  Becomes(t, r, s, <<>>)
<1> SUFFICES ASSUME NEW k \in Nat, k + Len(s) <= Len(t), Stands(t, k, s)
             PROVE  r[k + 1] = <<>> \o r[k + Len(s) + 1]
  BY DEF Becomes
<1> DEFINE m == Len(s)
           i == k + 1
<1>1. /\ m \in Nat /\ Len(t) \in Nat /\ 1 \in 1..m /\ m \in 1..m
      /\ i \in 1..Len(t) /\ i \in 1..Len(t) + 1 /\ ~ (i > Len(t)) /\ k + m \in i + 1..Len(t)
      /\ k + m + 1 \in 1..Len(t) + 1
  OBVIOUS
<1>2. t[i] = s[1] /\ t[k + m] = s[m]
  BY <1>1 DEF Stands
<1>3. <<t[i], t[k + m]>> \in pairs
  BY <1>2
<1>4. k + m \in EndsOf(t, pairs, i)
  BY <1>1, <1>3 DEF EndsOf
<1> DEFINE e == Min(EndsOf(t, pairs, i))
<1>5. e \in i + 1..Len(t) /\ <<t[i], t[e]>> \in pairs /\ e <= k + m
  BY <1>1, <1>3, <1>4, EndsFacts
<1> HIDE DEF e
<1>6. e = k + m
  <2>1. SUFFICES ASSUME e # k + m PROVE FALSE
    OBVIOUS
  <2>2. e - k \in 2..m - 1 /\ e - k \in 1..m /\ k + (e - k) = e
    <3>1. e \in Nat /\ e >= k + 2 /\ e <= k + m /\ e # k + m
      BY <1>1, <1>5, <2>1
    <3> HIDE DEF m
    <3> QED
      BY <1>1, <3>1
  <2>3. t[e] = s[e - k]
    BY <2>2 DEF Stands
  <2> QED
    BY <1>2, <1>5, <2>2, <2>3
<1>7. r[i] = r[e + 1]
  BY <1>1, <1>4 DEF Leaves, LeftAt, e
<1> DEFINE y == r[k + m + 1]
<1>8. y \in Seq(S)
  BY <1>1
<1> HIDE DEF y, m
<1>9. <<>> \o y = y
  BY <1>8
<1> QED
  BY <1>6, <1>7, <1>9 DEF y, m

LEMMA Goes ==
  ASSUME NEW S, NEW t \in Seq(S), NEW pairs, NEW r \in [1..Len(t) + 1 -> Seq(S)],
         Leaves(t, pairs, r), NEW a \in S, NEW w \in Seq(S), NEW z \in S,
         <<a, z>> \in pairs, \A j \in 1..Len(w) : <<a, w[j]>> \notin pairs
  PROVE  Becomes(t, r, Wrap(a, w, z), <<>>)
<1> DEFINE s == Wrap(a, w, z)
           m == Len(w)
<1>1. /\ s \in Seq(S) /\ m \in Nat /\ Len(s) = m + 2 /\ s[1] = a /\ s[m + 2] = z
      /\ \A j \in 1..m : s[j + 1] = w[j]
  BY WrapFacts
<1> HIDE DEF s
<1>2. \A j \in 2..Len(s) - 1 : <<s[1], s[j]>> \notin pairs
  <2>1. ASSUME NEW j \in 2..Len(s) - 1 PROVE <<s[1], s[j]>> \notin pairs
    <3>1. j - 1 \in 1..m /\ j - 1 + 1 = j
      BY <1>1
    <3>2. s[j] = w[j - 1]
      BY <1>1, <3>1
    <3> QED
      BY <1>1, <3>1, <3>2
  <2> QED
    BY <2>1
<1>3. Len(s) > 1 /\ <<s[1], s[Len(s)]>> \in pairs
  BY <1>1
<1>4. Becomes(t, r, s, <<>>)
  BY <1>1, <1>2, <1>3, Vanishes
<1> QED
  BY <1>4 DEF s

-----------------------------------------------------------------------------
(* What the two replacements make of an element.                           *)
Kept(e) == IF e.kind \in {"script", "style"} THEN <<">">> ELSE Written(e)

Shown(e) ==
  CASE e.kind \in {"text", "title"} -> e.words
    [] e.kind \in {"script", "style"} -> <<">">>
    [] e.kind \in {"anchor", "tag"} -> <<>>

LEMMA ElementFacts ==
  ASSUME NEW e \in Element
  PROVE  /\ e.kind \in {"anchor", "text", "title", "tag", "script", "style"}
         /\ e.kind \in WithHref => e.href \in Text
         /\ e.kind = "text" => e.words \in Seq(Name \cup {">"})
         /\ e.kind \in {"title", "tag"} => e.words \in Seq(Name)
         /\ e.kind = "script" => e.words \in Seq(Token \ {"</script"})
         /\ e.kind = "style" => e.words \in Seq(Token \ {"</style"})
BY DEF Element, WithHref

LEMMA SeqMono ==
  ASSUME NEW S, NEW T, S \subseteq T, NEW s \in Seq(S)
  PROVE  s \in Seq(T) /\ \A j \in 1..Len(s) : s[j] \in S
OBVIOUS

LEMMA WordsType ==
  ASSUME NEW e \in Element, e.kind # "anchor"
  PROVE  e.words \in Seq(Token)
<1>1. Name \subseteq Token /\ Name \cup {">"} \subseteq Token /\ Token \ {"</script"} \subseteq Token
      /\ Token \ {"</style"} \subseteq Token
  BY DEF Token, Markup
<1> QED
  BY <1>1, ElementFacts, SeqMono

(* The rows of Written, put together of what stays and what goes.          *)
LEMMA WrittenRows ==
  ASSUME NEW e \in Element
  PROVE  /\ e.kind = "anchor" => Written(e) = Wrap("<", <<>>, ">")
         /\ e.kind = "text" => Written(e) = e.words
         /\ e.kind = "tag" => Written(e) = Wrap("<", e.words, ">")
         /\ e.kind = "title" =>
              Written(e) = Wrap("<", <<>>, ">") \o e.words \o Wrap("<", <<>>, ">")
         /\ e.kind = "script" =>
              Written(e) = Wrap("<script", <<">">> \o e.words, "</script") \o <<">">>
         /\ e.kind = "style" =>
              Written(e) = Wrap("<style", <<">">> \o e.words, "</style") \o <<">">>
<1>1. Wrap("<", <<>>, ">") = <<"<", ">">>
  <2>1. <<"<">> \o <<>> = <<"<">>
    OBVIOUS
  <2>2. <<"<">> \o <<">">> = <<"<", ">">>
    BY Pair
  <2> QED
    BY <2>1, <2>2 DEF Wrap
<1>2. ASSUME NEW w \in Seq(Token), NEW a \in Token, NEW z \in Token
      PROVE  <<a, ">">> \o w \o <<z, ">">> = Wrap(a, <<">">> \o w, z) \o <<">">>
  <2>1. ">" \in Token
    BY DEF Token, Markup
  <2>2. <<a, ">">> \o w = <<a>> \o (<<">">> \o w)
    BY <2>1
  <2> DEFINE v == <<">">> \o w
  <2>3. v \in Seq(Token)
    BY <2>1
  <2> HIDE DEF v
  <2>4. (<<a>> \o v) \o <<z, ">">> = (<<a>> \o v \o <<z>>) \o <<">">>
    BY <2>1, <2>3
  <2> QED
    BY <2>2, <2>4 DEF Wrap, v
<1>3. {"<script", "</script", "<style", "</style"} \subseteq Token
  BY DEF Token, Markup
<1>4. CASE e.kind = "anchor"
  BY <1>1, <1>4 DEF Written
<1>5. CASE e.kind = "text"
  BY <1>5 DEF Written
<1>6. CASE e.kind = "tag"
  BY <1>6 DEF Written, Wrap
<1>7. CASE e.kind = "title"
  BY <1>1, <1>7 DEF Written
<1>8. CASE e.kind = "script"
  <2>1. e.words \in Seq(Token)
    BY <1>8, WordsType
  <2>2. Written(e) = <<"<script", ">">> \o e.words \o <<"</script", ">">>
    BY <1>8 DEF Written
  <2>3. Written(e) = Wrap("<script", <<">">> \o e.words, "</script") \o <<">">>
    BY <1>2, <1>3, <2>1, <2>2
  <2> QED
    BY <1>8, <2>3
<1>9. CASE e.kind = "style"
  <2>1. e.words \in Seq(Token)
    BY <1>9, WordsType
  <2>2. Written(e) = <<"<style", ">">> \o e.words \o <<"</style", ">">>
    BY <1>9 DEF Written
  <2>3. Written(e) = Wrap("<style", <<">">> \o e.words, "</style") \o <<">">>
    BY <1>2, <1>3, <2>1, <2>2
  <2> QED
    BY <1>9, <2>3
<1> QED
  BY <1>4, <1>5, <1>6, <1>7, <1>8, <1>9, ElementFacts

LEMMA Marks ==
  /\ {"<", ">", "<script", "</script", "<style", "</style"} \subseteq Token
  /\ Name \subseteq Token
  /\ \A n \in Name : n \notin {"<", ">", "<script", "</script", "<style", "</style"}
  /\ \A x, y : <<x, y>> \in Blocks <=>
       \/ x = "<script" /\ y = "</script"
       \/ x = "<style" /\ y = "</style"
  /\ \A x, y : <<x, y>> \in Tags <=>
       x \in {"<", "<script", "</script", "<style", "</style"} /\ y = ">"
<1>1. {"<", ">", "<script", "</script", "<style", "</style"} \subseteq Token /\ Name \subseteq Token
  BY DEF Token, Markup
<1>2. \A n \in Name : n \notin {"<", ">", "<script", "</script", "<style", "</style"}
  BY ContentConstants DEF Markup
<1>3. \A x, y : <<x, y>> \in Blocks <=>
        \/ x = "<script" /\ y = "</script"
        \/ x = "<style" /\ y = "</style"
  BY DEF Blocks
<1>4. \A x, y : <<x, y>> \in Tags <=>
        x \in {"<", "<script", "</script", "<style", "</style"} /\ y = ">"
  BY DEF Tags, Markup
<1> QED
  BY <1>1, <1>2, <1>3, <1>4

LEMMA WrittenType ==
  ASSUME NEW e \in Element
  PROVE  Written(e) \in Seq(Token) /\ Kept(e) \in Seq(Token) /\ Shown(e) \in Seq(Name \cup {">"})
<1>1. e.kind # "anchor" => e.words \in Seq(Token)
  BY WordsType
<1>2. Wrap("<", <<>>, ">") \in Seq(Token)
  <2>1. <<>> \in Seq(Token)
    OBVIOUS
  <2> QED
    BY <2>1, Marks, WrapFacts
<1>3. /\ <<">">> \in Seq(Token)
      /\ \A w \in Seq(Token) : <<">">> \o w \in Seq(Token)
  BY Marks
<1>4. Written(e) \in Seq(Token)
  <2>1. CASE e.kind = "anchor"
    BY <1>2, <2>1, WrittenRows
  <2>2. CASE e.kind = "text"
    BY <1>1, <2>2, WrittenRows
  <2>3. CASE e.kind = "tag"
    <3>1. Wrap("<", e.words, ">") \in Seq(Token)
      BY <1>1, <2>3, WrapFacts, Marks
    <3> QED
      BY <3>1, <2>3, WrittenRows
  <2>4. CASE e.kind = "title"
    <3>1. Wrap("<", <<>>, ">") \o e.words \in Seq(Token)
      BY <1>1, <1>2, <2>4, Concat
    <3> QED
      BY <3>1, <1>2, <2>4, WrittenRows, Concat
  <2>5. CASE e.kind = "script"
    <3>1. Wrap("<script", <<">">> \o e.words, "</script") \in Seq(Token)
      BY <1>1, <1>3, <2>5, WrapFacts, Marks
    <3>2. Wrap("<script", <<">">> \o e.words, "</script") \o <<">">> \in Seq(Token)
      BY <3>1, <1>3, Concat
    <3> QED
      BY <3>2, <2>5, WrittenRows
  <2>6. CASE e.kind = "style"
    <3>1. Wrap("<style", <<">">> \o e.words, "</style") \in Seq(Token)
      BY <1>1, <1>3, <2>6, WrapFacts, Marks
    <3>2. Wrap("<style", <<">">> \o e.words, "</style") \o <<">">> \in Seq(Token)
      BY <3>1, <1>3, Concat
    <3> QED
      BY <3>2, <2>6, WrittenRows
  <2> QED
    BY <2>1, <2>2, <2>3, <2>4, <2>5, <2>6, ElementFacts
<1>5. Kept(e) \in Seq(Token)
  BY <1>4, Marks DEF Kept
<1>6. Shown(e) \in Seq(Name \cup {">"})
  <2>1. CASE e.kind = "text"
    BY <2>1, ElementFacts DEF Shown
  <2>2. CASE e.kind = "title"
    <3>1. Name \subseteq Name \cup {">"}
      OBVIOUS
    <3>2. e.words \in Seq(Name \cup {">"})
      BY <2>2, <3>1, ElementFacts, SeqMono
    <3> QED
      BY <2>2, <3>2 DEF Shown
  <2>3. CASE e.kind \in {"anchor", "tag"}
    <3>1. Shown(e) = <<>>
      BY <2>3 DEF Shown
    <3> QED
      BY <3>1
  <2>4. CASE e.kind \in {"script", "style"}
    <3>1. Shown(e) = <<">">>
      BY <2>4 DEF Shown
    <3> QED
      BY <3>1
  <2> QED
    BY <2>1, <2>2, <2>3, <2>4, ElementFacts
<1> QED
  BY <1>4, <1>5, <1>6

(* The first replacement takes scripts and style sheets, and nothing else. *)
LEMMA ScriptsGo ==
  ASSUME NEW t \in Seq(Token), NEW r \in [1..Len(t) + 1 -> Seq(Token)], Leaves(t, Blocks, r),
         NEW e \in Element
  PROVE  Becomes(t, r, Written(e), Kept(e))
<1> DEFINE Plain == Token \ {"<script", "<style"}
<1>1. ASSUME NEW s \in Seq(Plain) PROVE Becomes(t, r, s, s)
  <2>1. Plain \subseteq Token
    OBVIOUS
  <2>2. s \in Seq(Token) /\ \A j \in 1..Len(s) : s[j] \in Plain
    <3> HIDE DEF Plain
    <3> QED
      BY <2>1, SeqMono
  <2>3. \A j \in 1..Len(s) : \A x : <<s[j], x>> \notin Blocks
    BY <2>2, Marks
  <2> QED
    BY <2>2, <2>3, Stays
<1>2. {"<", ">"} \subseteq Plain /\ Name \subseteq Plain /\ Name \cup {">"} \subseteq Plain
  BY Marks
<1>3. Wrap("<", <<>>, ">") \in Seq(Plain)
  <2>1. <<>> \in Seq(Plain)
    OBVIOUS
  <2> HIDE DEF Plain
  <2> QED
    BY <1>2, <2>1, WrapFacts
<1>4. <<">">> \in Seq(Plain) /\ <<">">> \in Seq(Token)
  BY <1>2, Marks
<1>5. ASSUME e.kind \in {"anchor", "text", "tag", "title"} PROVE Written(e) \in Seq(Plain)
  <2> HIDE DEF Plain
  <2>1. CASE e.kind = "anchor"
    BY <1>3, <2>1, WrittenRows
  <2>2. CASE e.kind = "text"
    BY <1>2, <2>2, WrittenRows, ElementFacts, SeqMono
  <2>3. CASE e.kind = "tag"
    <3>1. e.words \in Seq(Plain)
      BY <1>2, <2>3, ElementFacts, SeqMono
    <3>2. Wrap("<", e.words, ">") \in Seq(Plain)
      BY <3>1, <1>2, WrapFacts
    <3> QED
      BY <2>3, <3>2, WrittenRows
  <2>4. CASE e.kind = "title"
    <3>1. e.words \in Seq(Plain)
      BY <1>2, <2>4, ElementFacts, SeqMono
    <3>2. Wrap("<", <<>>, ">") \o e.words \in Seq(Plain)
      BY <3>1, <1>3, Concat
    <3> QED
      BY <1>3, <2>4, <3>2, WrittenRows, Concat
  <2> QED
    BY <1>5, <2>1, <2>2, <2>3, <2>4
<1>6. CASE e.kind \in {"anchor", "text", "tag", "title"}
  <2>1. Kept(e) = Written(e)
    BY <1>6 DEF Kept
  <2> HIDE DEF Plain
  <2> QED
    BY <1>1, <1>5, <1>6, <2>1
<1>7. ASSUME NEW a \in Token, NEW z \in Token, <<a, z>> \in Blocks,
             NEW w \in Seq(Token \ {z})
      PROVE  Becomes(t, r, Wrap(a, <<">">> \o w, z) \o <<">">>, <<">">>)
  <2> DEFINE v == <<">">> \o w
  <2>1. w \in Seq(Token) /\ \A j \in 1..Len(w) : w[j] \in Token \ {z}
    <3>1. Token \ {z} \subseteq Token
      OBVIOUS
    <3> QED
      BY <3>1, SeqMono
  <2>2. v \in Seq(Token) /\ Len(v) = Len(w) + 1 /\ v[1] = ">" /\ Len(w) \in Nat
        /\ \A j \in 1..Len(w) : v[1 + j] = w[j]
    BY <2>1, <1>4, Concat
  <2> HIDE DEF v
  <2>3. \A j \in 1..Len(v) : <<a, v[j]>> \notin Blocks
    <3>1. ASSUME NEW j \in 1..Len(v) PROVE v[j] # z
      <4>1. CASE j = 1
        BY <1>7, <2>2, <4>1, Marks
      <4>2. CASE j # 1
        <5>1. j - 1 \in 1..Len(w) /\ 1 + (j - 1) = j
          BY <2>2, <4>2
        <5>2. v[j] = w[j - 1]
          BY <2>2, <5>1
        <5> QED
          BY <2>1, <5>1, <5>2
      <4> QED
        BY <4>1, <4>2
    <3> QED
      BY <3>1, <1>7, Marks
  <2>4. Becomes(t, r, Wrap(a, v, z), <<>>)
    BY <1>7, <2>2, <2>3, Goes
  <2>5. Becomes(t, r, <<">">>, <<">">>)
    <3> HIDE DEF Plain
    <3> QED
      BY <1>1, <1>4
  <2>6. Wrap(a, v, z) \in Seq(Token)
    BY <2>2, WrapFacts
  <2>7. <<>> \in Seq(Token) /\ <<>> \o <<">">> = <<">">>
    OBVIOUS
  <2>8. Becomes(t, r, Wrap(a, v, z) \o <<">">>, <<>> \o <<">">>)
    BY <1>4, <2>4, <2>5, <2>6, <2>7, Both
  <2> QED
    BY <2>7, <2>8 DEF v
<1>8. CASE e.kind = "script"
  <2>1. Becomes(t, r, Wrap("<script", <<">">> \o e.words, "</script") \o <<">">>, <<">">>)
    <3>1. <<"<script", "</script">> \in Blocks /\ "<script" \in Token /\ "</script" \in Token
      BY Marks
    <3>2. e.words \in Seq(Token \ {"</script"})
      BY <1>8, ElementFacts
    <3> QED
      BY <3>1, <3>2, <1>7
  <2> QED
    BY <2>1, <1>8, WrittenRows DEF Kept
<1>9. CASE e.kind = "style"
  <2>1. Becomes(t, r, Wrap("<style", <<">">> \o e.words, "</style") \o <<">">>, <<">">>)
    <3>1. <<"<style", "</style">> \in Blocks /\ "<style" \in Token /\ "</style" \in Token
      BY Marks
    <3>2. e.words \in Seq(Token \ {"</style"})
      BY <1>9, ElementFacts
    <3> QED
      BY <3>1, <3>2, <1>7
  <2> QED
    BY <2>1, <1>9, WrittenRows DEF Kept
<1> QED
  BY <1>6, <1>8, <1>9, ElementFacts

(* The second takes the tags, and of the words none but those within them. *)
LEMMA TagsGo ==
  ASSUME NEW t \in Seq(Token), NEW r \in [1..Len(t) + 1 -> Seq(Token)], Leaves(t, Tags, r),
         NEW e \in Element
  PROVE  Becomes(t, r, Kept(e), Shown(e))
<1>1. ASSUME NEW s \in Seq(Name \cup {">"}) PROVE Becomes(t, r, s, s) /\ s \in Seq(Token)
  <2>1. Name \cup {">"} \subseteq Token
    BY Marks
  <2>2. s \in Seq(Token) /\ \A j \in 1..Len(s) : s[j] \in Name \cup {">"}
    BY <2>1, SeqMono
  <2>3. \A j \in 1..Len(s) : \A x : <<s[j], x>> \notin Tags
    BY <2>2, Marks
  <2> QED
    BY <2>2, <2>3, Stays
<1>2. ASSUME NEW w \in Seq(Name) PROVE Becomes(t, r, Wrap("<", w, ">"), <<>>) /\ w \in Seq(Token)
  <2>1. w \in Seq(Token) /\ \A j \in 1..Len(w) : w[j] \in Name
    BY Marks, SeqMono
  <2>2. <<"<", ">">> \in Tags /\ \A j \in 1..Len(w) : <<"<", w[j]>> \notin Tags
    BY <2>1, Marks
  <2>3. "<" \in Token /\ ">" \in Token
    BY Marks
  <2> QED
    BY <2>1, <2>2, <2>3, Goes
<1>3. <<>> \in Seq(Name) /\ <<>> \in Seq(Token)
  OBVIOUS
<1>4. CASE e.kind = "anchor"
  BY <1>2, <1>3, <1>4, WrittenRows DEF Kept, Shown
<1>5. CASE e.kind = "text"
  BY <1>1, <1>5, WrittenRows, ElementFacts DEF Kept, Shown
<1>6. CASE e.kind = "tag"
  BY <1>2, <1>6, WrittenRows, ElementFacts DEF Kept, Shown
<1>7. CASE e.kind = "title"
  <2> DEFINE w == e.words
             q == Wrap("<", <<>>, ">")
  <2>1. Becomes(t, r, q, <<>>) /\ q \in Seq(Token)
    BY <1>2, <1>3, WrapFacts, Marks
  <2>2. w \in Seq(Name) /\ w \in Seq(Name \cup {">"})
    <3>1. Name \subseteq Name \cup {">"}
      OBVIOUS
    <3> QED
      BY <3>1, <1>7, ElementFacts, SeqMono
  <2>3. Becomes(t, r, w, w) /\ w \in Seq(Token)
    BY <1>1, <2>2
  <2>4. Kept(e) = q \o w \o q /\ Shown(e) = w
    BY <1>7, WrittenRows DEF Kept, Shown
  <2> HIDE DEF q, w
  <2>5. q \o w \in Seq(Token) /\ <<>> \o w = w /\ w \o <<>> = w
    BY <2>1, <2>3
  <2>6. Becomes(t, r, q \o w, <<>> \o w)
    BY <2>1, <2>3, <1>3, Both
  <2>7. Becomes(t, r, q \o w \o q, w \o <<>>)
    BY <2>1, <2>3, <2>5, <2>6, <1>3, Both
  <2> QED
    BY <2>4, <2>5, <2>7
<1>8. CASE e.kind \in {"script", "style"}
  <2>1. <<">">> \in Seq(Name \cup {">"})
    OBVIOUS
  <2> QED
    BY <1>1, <1>8, <2>1 DEF Kept, Shown
<1> QED
  BY <1>4, <1>5, <1>6, <1>7, <1>8, ElementFacts

-----------------------------------------------------------------------------
(* One replacement over a page: what each piece becomes, joined.           *)
LEMMA OnePass ==
  ASSUME NEW S, NEW t \in Seq(S), NEW pairs, NEW n \in Nat, NEW p \in [1..n -> Seq(S)],
         NEW v \in [1..n -> Seq(S)], NEW b, IsJoin(t, n, p, b),
         \A r \in [1..Len(t) + 1 -> Seq(S)] :
           Leaves(t, pairs, r) => \A i \in 1..n : Becomes(t, r, p[i], v[i])
  PROVE  Without(t, pairs) \in Seq(S) /\ \E c : IsJoin(Without(t, pairs), n, v, c)
<1>1. PICK r \in [1..Len(t) + 1 -> Seq(S)] : Leaves(t, pairs, r) /\ Without(t, pairs) = r[1]
  BY WithoutLeaves
<1>2. \A i \in 1..n : Becomes(t, r, p[i], v[i])
  BY <1>1
<1>3. b \in [0..n -> Nat] /\ b[n] = Len(t) /\ Len(t) \in Nat
  BY DEF IsJoin
<1>4. ASSUME NEW h \in 0..n, NEW i \in 0..n, i = h + 1
      PROVE  r[b[h] + 1] = v[i] \o r[b[i] + 1]
  <2>1. i \in 1..n
    BY <1>4
  <2>2. b[i] = b[h] + Len(p[i]) /\ Stands(t, b[h], p[i]) /\ b[h] \in Nat /\ b[i] \in Nat
    BY <1>4 DEF IsJoin
  <2>3. b[i] <= Len(t)
    BY JoinEnds
  <2> QED
    BY <1>2, <2>1, <2>2, <2>3 DEF Becomes
<1>5. 1 \in 1..Len(t) + 1
  BY <1>3
<1>6. LeftBy(n, r, b, v)
  BY <1>4 DEF LeftBy
<1>7. \E c : IsJoin(r[1], n, v, c)
  <2>1. Leaves(t, pairs, r)
    BY <1>1
  <2> QED
    BY <2>1, <1>6, Passed, Zenon
<1> QED
  BY <1>1, <1>5, <1>7

(* What a reader sees of each element, joined, is what CleanText leaves.   *)
LEMMA CleanedPage ==
  ASSUME NEW h \in Seq(Element)
  PROVE  /\ WithoutTag(WithoutScript(Tokens(h))) \in Seq(Token)
         /\ \E b : IsJoin(WithoutTag(WithoutScript(Tokens(h))), Len(h),
                          [i \in 1..Len(h) |-> Shown(h[i])], b)
<1> DEFINE n == Len(h)
           w == [i \in 1..n |-> Written(h[i])]
           k == [i \in 1..n |-> Kept(h[i])]
           v == [i \in 1..n |-> Shown(h[i])]
           t == Tokens(h)
           u == WithoutScript(t)
<1>1. n \in Nat /\ DOMAIN h = 1..n /\ \A i \in 1..n : h[i] \in Element
  OBVIOUS
<1>2. w \in [1..n -> Seq(Token)] /\ k \in [1..n -> Seq(Token)] /\ v \in [1..n -> Seq(Token)]
  <2>1. \A i \in 1..n : Written(h[i]) \in Seq(Token) /\ Kept(h[i]) \in Seq(Token)
    BY <1>1, WrittenType
  <2>2. \A i \in 1..n : Shown(h[i]) \in Seq(Token)
    <3>1. Name \cup {">"} \subseteq Token
      BY Marks
    <3> QED
      BY <1>1, <3>1, WrittenType, SeqMono
  <2> QED
    BY <2>1, <2>2
<1>3. t = FlattenSeq(w)
  BY <1>1 DEF Tokens
<1>4. \A i \in 1..n : w[i] = Written(h[i]) /\ k[i] = Kept(h[i]) /\ v[i] = Shown(h[i])
  OBVIOUS
<1> HIDE DEF n, w, k, v, t, u
<1>5. t \in Seq(Token) /\ \E b : IsJoin(t, n, w, b)
  BY <1>1, <1>2, <1>3, FlattenJoins
<1>6. u \in Seq(Token) /\ \E b : IsJoin(u, n, k, b)
  <2>1. PICK b : IsJoin(t, n, w, b)
    BY <1>5
  <2>2. ASSUME NEW r \in [1..Len(t) + 1 -> Seq(Token)], Leaves(t, Blocks, r), NEW i \in 1..n
        PROVE  Becomes(t, r, w[i], k[i])
    BY <1>1, <1>4, <1>5, <2>2, ScriptsGo
  <2>3. \A r \in [1..Len(t) + 1 -> Seq(Token)] :
          Leaves(t, Blocks, r) => \A i \in 1..n : Becomes(t, r, w[i], k[i])
    BY <2>2
  <2>4. Without(t, Blocks) \in Seq(Token) /\ \E c : IsJoin(Without(t, Blocks), n, k, c)
    BY <1>1, <1>2, <1>5, <2>1, <2>3, OnePass
  <2> QED
    BY <2>4 DEF u, WithoutScript
<1>7. WithoutTag(u) \in Seq(Token) /\ \E b : IsJoin(WithoutTag(u), n, v, b)
  <2>1. PICK b : IsJoin(u, n, k, b)
    BY <1>6
  <2>2. ASSUME NEW r \in [1..Len(u) + 1 -> Seq(Token)], Leaves(u, Tags, r), NEW i \in 1..n
        PROVE  Becomes(u, r, k[i], v[i])
    BY <1>1, <1>4, <1>6, <2>2, TagsGo
  <2>3. \A r \in [1..Len(u) + 1 -> Seq(Token)] :
          Leaves(u, Tags, r) => \A i \in 1..n : Becomes(u, r, k[i], v[i])
    BY <2>2
  <2>4. Without(u, Tags) \in Seq(Token) /\ \E c : IsJoin(Without(u, Tags), n, v, c)
    BY <1>1, <1>2, <1>6, <2>1, <2>3, OnePass
  <2> QED
    BY <2>4 DEF WithoutTag
<1> QED
  BY <1>7 DEF n, v, t, u

-----------------------------------------------------------------------------
(* The j-th of the i-th piece stands at q in the whole.                    *)
Spot(n, p, b, i, j, q) == i \in 1..n /\ j \in 1..Len(p[i]) /\ q = b[i - 1] + j

LEMMA SpotFacts ==
  ASSUME NEW S, NEW n \in Nat, NEW p \in [1..n -> Seq(S)], NEW t, NEW b, IsJoin(t, n, p, b),
         NEW i, NEW j, NEW q, Spot(n, p, b, i, j, q)
  PROVE  /\ q \in 1..Len(t) /\ t[q] = p[i][j]
         /\ i \in 1..n /\ j \in 1..Len(p[i]) /\ j \in Nat
<1> DEFINE h == i - 1
<1>1. h \in 0..n /\ i \in 0..n /\ i = h + 1 /\ i \in 1..n /\ j \in 1..Len(p[i]) /\ q = b[h] + j
  BY DEF Spot
<1> HIDE DEF h
<1>2. b[i] = b[h] + Len(p[i]) /\ Stands(t, b[h], p[i])
  BY <1>1 DEF IsJoin
<1>3. b[h] \in Nat /\ b[i] <= Len(t) /\ Len(t) \in Nat
  BY <1>1, JoinEnds
<1>4. Len(p[i]) \in Nat
  BY <1>1
<1>5. t[q] = p[i][j]
  BY <1>1, <1>2 DEF Stands
<1>6. q \in 1..Len(t) /\ j \in Nat
  BY <1>1, <1>2, <1>3, <1>4
<1> QED
  BY <1>1, <1>5, <1>6

LEMMA SpotExists ==
  ASSUME NEW S, NEW n \in Nat, NEW p \in [1..n -> Seq(S)], NEW t \in Seq(S), NEW b,
         IsJoin(t, n, p, b), NEW q \in 1..Len(t)
  PROVE  \E i, j : Spot(n, p, b, i, j, q)
<1> DEFINE E == {i \in 0..n : b[i] >= q}
<1>1. b \in [0..n -> Nat] /\ b[0] = 0 /\ b[n] = Len(t) /\ Len(t) \in Nat
  BY DEF IsJoin
<1>2. PICK i \in E : \A m \in E : i <= m
  <2>1. E \subseteq Nat /\ n \in E
    BY <1>1
  <2> HIDE DEF E
  <2> QED
    BY <2>1, LeastOf
<1>3. i \in 0..n /\ i # 0 /\ b[i] >= q
  BY <1>1, <1>2
<1> DEFINE h == i - 1
<1>4. h \in 0..n /\ i = h + 1 /\ i \in 1..n /\ h \notin E
  BY <1>2, <1>3
<1>5. b[h] < q /\ b[h] \in Nat
  BY <1>1, <1>4
<1> HIDE DEF h
<1>6. b[i] = b[h] + Len(p[i]) /\ Len(p[i]) \in Nat
  BY <1>4 DEF IsJoin
<1>7. q - b[h] \in 1..Len(p[i]) /\ b[h] + (q - b[h]) = q
  BY <1>3, <1>5, <1>6
<1>8. Spot(n, p, b, i, q - b[h], q)
  BY <1>4, <1>7 DEF Spot, h
<1> QED
  BY <1>8

LEMMA SpotInOrder ==
  ASSUME NEW S, NEW n \in Nat, NEW p \in [1..n -> Seq(S)], NEW t, NEW b, IsJoin(t, n, p, b),
         NEW i, NEW j, NEW k, NEW l, NEW q, NEW r,
         Spot(n, p, b, i, j, q), Spot(n, p, b, k, l, r), i < k
  PROVE  q < r
<1> DEFINE h == i - 1
           g == k - 1
           m == Len(p[i])
<1>1. /\ h \in 0..n /\ i \in 0..n /\ i = h + 1 /\ q = b[h] + j /\ j \in 1..m
      /\ g \in 0..n /\ r = b[g] + l /\ l \in Nat /\ l >= 1 /\ i \in 1..n /\ i <= g
  BY DEF Spot
<1> HIDE DEF h, g
<1>2. b[i] = b[h] + m
  BY <1>1 DEF IsJoin
<1>3. b[i] <= b[g]
  BY <1>1, JoinBounds
<1>4. m \in Nat
  BY <1>1
<1>5. b[h] \in Nat /\ b[g] \in Nat
  BY <1>1, JoinEnds
<1>6. j <= m
  BY <1>1, <1>4
<1> DEFINE x == b[h]
           y == b[g]
           z == b[i]
<1>7. /\ q = x + j /\ r = y + l /\ z = x + m /\ z <= y /\ j \in Nat
      /\ x \in Nat /\ y \in Nat /\ m \in Nat /\ l \in Nat /\ l >= 1 /\ j <= m
  BY <1>1, <1>2, <1>3, <1>4, <1>5, <1>6
<1> HIDE DEF m, x, y, z
<1> QED
  BY ONLY <1>7

LEMMA SpotUnique ==
  ASSUME NEW S, NEW n \in Nat, NEW p \in [1..n -> Seq(S)], NEW t, NEW b, IsJoin(t, n, p, b),
         NEW i, NEW j, NEW k, NEW l, NEW q, Spot(n, p, b, i, j, q), Spot(n, p, b, k, l, q)
  PROVE  i = k /\ j = l
<1>1. i \in Nat /\ k \in Nat /\ j \in Nat /\ l \in Nat /\ i - 1 \in 0..n /\ q = b[i - 1] + j
      /\ q = b[k - 1] + l
  BY DEF Spot
<1>2. b[i - 1] \in Nat
  BY <1>1, JoinEnds
<1>3. q \in Nat
  BY <1>1, <1>2
<1>4. ~ (i < k)
  <2>1. i < k => q < q
    BY SpotInOrder
  <2> QED
    BY <1>3, <2>1
<1>5. ~ (k < i)
  <2>1. k < i => q < q
    BY SpotInOrder
  <2> QED
    BY <1>3, <2>1
<1>6. i = k
  BY <1>1, <1>4, <1>5
<1> QED
  BY <1>1, <1>2, <1>6

Standing(t, X) == {q \in 1..Len(t) : t[q] \in X}

Within(n, p, X) == {c \in (1..n) \X Nat : c[2] \in 1..Len(p[c[1]]) /\ p[c[1]][c[2]] \in X}

(* So what stands in the whole is counted in the pieces.                   *)
LEMMA JoinCount ==
  ASSUME NEW S, NEW n \in Nat, NEW p \in [1..n -> Seq(S)], NEW t \in Seq(S), NEW b,
         IsJoin(t, n, p, b), NEW X
  PROVE  /\ IsFiniteSet(Standing(t, X))
         /\ IsFiniteSet(Within(n, p, X))
         /\ Cardinality(Within(n, p, X)) = Cardinality(Standing(t, X))
<1> DEFINE All == {q \in 1..Len(t) : t[q] \in X}
           W == Within(n, p, X)
           f == [c \in W |-> b[c[1] - 1] + c[2]]
<1>1. IsFiniteSet(All)
  <2>1. Len(t) \in Nat /\ All \in SUBSET (1..Len(t))
    OBVIOUS
  <2>2. IsFiniteSet(1..Len(t))
    BY <2>1, FS_Interval
  <2> HIDE DEF All
  <2> QED
    BY <2>1, <2>2, FS_Subset
<1>2. ASSUME NEW c \in W
      PROVE  Spot(n, p, b, c[1], c[2], f[c]) /\ p[c[1]][c[2]] \in X /\ c = <<c[1], c[2]>>
  BY DEF Within, Spot
<1>3. ASSUME NEW i, NEW j, NEW q, Spot(n, p, b, i, j, q), t[q] \in X
      PROVE  <<i, j>> \in W /\ f[<<i, j>>] = q
  <2>1. i \in 1..n /\ j \in Nat /\ j \in 1..Len(p[i]) /\ p[i][j] \in X
    <3>1. t[q] = p[i][j] /\ i \in 1..n /\ j \in Nat /\ j \in 1..Len(p[i])
      BY <1>3, SpotFacts
    <3> QED
      BY <1>3, <3>1
  <2>2. <<i, j>> \in W
    BY <2>1 DEF Within
  <2>3. f[<<i, j>>] = b[i - 1] + j
    BY <2>2
  <2> QED
    BY <1>3, <2>2, <2>3 DEF Spot
<1>4. f = [c \in W |-> f[c]]
  OBVIOUS
<1> HIDE DEF f, W
<1>5. ASSUME NEW c \in W PROVE f[c] \in All
  <2> DEFINE q == f[c]
             i == c[1]
             j == c[2]
  <2>1. Spot(n, p, b, i, j, q) /\ p[i][j] \in X
    BY <1>2
  <2> HIDE DEF q, i, j
  <2>2. q \in 1..Len(t) /\ t[q] = p[i][j]
    BY <2>1, SpotFacts
  <2>3. q \in All
    BY <2>1, <2>2
  <2> QED
    BY <2>3 DEF q
<1>6. f \in [W -> All]
  <2> HIDE DEF All
  <2> QED
    BY <1>4, <1>5
<1>7. ASSUME NEW c \in W, NEW d \in W, f[c] = f[d] PROVE c = d
  <2>1. Spot(n, p, b, c[1], c[2], f[c]) /\ Spot(n, p, b, d[1], d[2], f[c])
    BY <1>2, <1>7
  <2>2. c[1] = d[1] /\ c[2] = d[2]
    BY <2>1, SpotUnique
  <2> QED
    BY <1>2, <2>2
<1>8. ASSUME NEW q \in All PROVE \E c \in W : f[c] = q
  <2>1. q \in 1..Len(t) /\ t[q] \in X
    OBVIOUS
  <2>2. PICK i, j : Spot(n, p, b, i, j, q)
    BY <2>1, SpotExists
  <2>3. <<i, j>> \in W /\ f[<<i, j>>] = q
    BY <1>3, <2>1, <2>2
  <2> QED
    BY <2>3
<1>9. f \in Injection(W, All) /\ f \in Surjection(W, All)
  <2> HIDE DEF All
  <2> QED
    BY <1>6, <1>7, <1>8 DEF Injection, IsInjective, Surjection
<1> HIDE DEF All
<1>10. IsFiniteSet(W) /\ Cardinality(W) = Cardinality(All)
  BY <1>1, <1>9, FS_Injection
<1> QED
  BY <1>1, <1>10 DEF W, All, Standing

-----------------------------------------------------------------------------
(* A word is counted as often as it is seen.                               *)
LEMMA AtFacts ==
  ASSUME NEW t \in Seq(Token), NEW x
  PROVE  /\ At(t, x) = {q \in 1..Len(t) : t[q] \in {y \in Name : LowerOf[y] = x}}
         /\ IsFiniteSet(At(t, x))
         /\ Cardinality(At(t, x)) \in Nat
         /\ At(t, x) # {} => Cardinality(At(t, x)) \in Nat \ {0}
<1>1. At(t, x) = {q \in 1..Len(t) : t[q] \in {y \in Name : LowerOf[y] = x}}
  BY DEF At
<1>2. Len(t) \in Nat /\ At(t, x) \in SUBSET (1..Len(t))
  BY <1>1
<1>3. IsFiniteSet(1..Len(t))
  BY <1>2, FS_Interval
<1>4. IsFiniteSet(At(t, x))
  BY <1>2, <1>3, FS_Subset
<1>5. Cardinality(At(t, x)) \in Nat
  BY <1>4, FS_CardinalityType
<1>6. At(t, x) # {} => Cardinality(At(t, x)) # 0
  BY <1>4, FS_EmptySet
<1> QED
  BY <1>1, <1>4, <1>5, <1>6

LEMMA CountedType ==
  ASSUME NEW t \in Seq(Token)
  PROVE  AreCounts(Counted(t))
BY AtFacts DEF AreCounts, Counted

Cleaned(h) == WithoutTag(WithoutScript(Tokens(h)))

LEMMA SeenIsWithin ==
  ASSUME html \in Seq(Element), NEW x
  PROVE  Seen(x) = Within(Len(html), [i \in 1..Len(html) |-> Shown(html[i])],
                          {y \in Name : LowerOf[y] = x})
<1> DEFINE n == Len(html)
           v == [i \in 1..n |-> Shown(html[i])]
           X == {y \in Name : LowerOf[y] = x}
           W == Within(n, v, X)
<1>1. n \in Nat /\ DOMAIN html = 1..n /\ \A i \in 1..n : html[i] \in Element /\ v[i] = Shown(html[i])
  OBVIOUS
<1> HIDE DEF n, v
<1>2. ASSUME NEW i \in 1..n, html[i].kind \in {"text", "title"}
      PROVE  \A j : j \in Places(html[i], x) <=>
               j \in Nat /\ j \in 1..Len(v[i]) /\ v[i][j] \in X
  <2> DEFINE w == html[i].words
  <2>1. v[i] = w
    BY <1>1, <1>2 DEF Shown
  <2>2. w \in Seq(Token)
    <3>1. html[i].kind # "anchor"
      BY <1>2
    <3> QED
      BY <1>1, <3>1, WordsType
  <2>3. Len(w) \in Nat /\ DOMAIN w = 1..Len(w)
    BY <2>2
  <2>4. Places(html[i], x) = {j \in DOMAIN w : w[j] \in Name /\ LowerOf[w[j]] = x}
    BY DEF Places
  <2> HIDE DEF w
  <2> QED
    BY <2>1, <2>3, <2>4
<1>3. ASSUME NEW i \in 1..n, html[i].kind \notin {"text", "title"}
      PROVE  \A j \in 1..Len(v[i]) : v[i][j] \notin X
  <2>1. html[i].kind \in {"anchor", "tag", "script", "style"}
    BY <1>1, <1>3, ElementFacts
  <2>2. v[i] = <<>> \/ v[i] = <<">">>
    BY <1>1, <2>1 DEF Shown
  <2>3. ">" \notin X
    BY Marks
  <2>4. \A j \in 1..Len(<<">">>) : <<">">>[j] = ">"
    OBVIOUS
  <2>5. 1..Len(<<>>) = {}
    OBVIOUS
  <2> QED
    BY <2>2, <2>3, <2>4, <2>5
<1>4. ASSUME NEW c \in Seen(x) PROVE c \in W
  <2>1. PICK i \in 1..n : /\ html[i].kind \in {"text", "title"}
                          /\ \E j \in Places(html[i], x) : c = <<i, j>>
    BY <1>1 DEF Seen
  <2>2. PICK j \in Places(html[i], x) : c = <<i, j>>
    BY <2>1
  <2>3. j \in Nat /\ j \in 1..Len(v[i]) /\ v[i][j] \in X
    BY <1>2, <2>1
  <2> QED
    BY <2>2, <2>3 DEF Within
<1>5. ASSUME NEW c \in W PROVE c \in Seen(x)
  <2>1. PICK i \in 1..n, j \in Nat : c = <<i, j>> /\ j \in 1..Len(v[i]) /\ v[i][j] \in X
    BY DEF Within
  <2>2. html[i].kind \in {"text", "title"}
    BY <1>3, <2>1
  <2>3. j \in Places(html[i], x)
    BY <1>2, <2>1, <2>2
  <2> QED
    BY <1>1, <2>1, <2>2, <2>3 DEF Seen
<1>6. Seen(x) = W
  BY <1>4, <1>5
<1> QED
  BY <1>6 DEF n, v

LEMMA SeenIsCounted ==
  ASSUME html \in Seq(Element), NEW x
  PROVE  /\ Cardinality(Seen(x)) = Cardinality(At(Cleaned(html), x))
         /\ Seen(x) # {} <=> At(Cleaned(html), x) # {}
<1> DEFINE n == Len(html)
           v == [i \in 1..n |-> Shown(html[i])]
           X == {y \in Name : LowerOf[y] = x}
           t == Cleaned(html)
<1>1. t \in Seq(Token) /\ \E b : IsJoin(t, n, v, b)
  BY CleanedPage DEF Cleaned
<1>2. PICK b : IsJoin(t, n, v, b)
  BY <1>1
<1>3. n \in Nat /\ v \in [1..n -> Seq(Name \cup {">"})] /\ v \in [1..n -> Seq(Token)]
  <2>1. n \in Nat /\ \A i \in 1..n : html[i] \in Element
    OBVIOUS
  <2>2. \A i \in 1..n : Shown(html[i]) \in Seq(Name \cup {">"})
    BY <2>1, WrittenType
  <2>3. Name \cup {">"} \subseteq Token
    BY Marks
  <2>4. \A i \in 1..n : Shown(html[i]) \in Seq(Token)
    BY <2>2, <2>3, SeqMono
  <2> QED
    BY <2>1, <2>2, <2>4
<1>4. Seen(x) = Within(n, v, X)
  BY SeenIsWithin
<1> HIDE DEF n, v, X, t
<1>5. /\ IsFiniteSet(Standing(t, X))
      /\ IsFiniteSet(Within(n, v, X))
      /\ Cardinality(Within(n, v, X)) = Cardinality(Standing(t, X))
  <2>1. t \in Seq(Token) /\ n \in Nat /\ v \in [1..n -> Seq(Token)]
    BY <1>1, <1>3
  <2> QED
    BY <2>1, <1>2, JoinCount
<1>6. At(t, x) = Standing(t, X)
  BY <1>1, AtFacts DEF X, Standing
<1>7. Cardinality(Seen(x)) = Cardinality(At(t, x))
  BY <1>4, <1>5, <1>6
<1>8. Seen(x) # {} <=> At(t, x) # {}
  BY <1>4, <1>5, <1>6, <1>7, FS_EmptySet
<1> QED
  BY <1>7, <1>8 DEF t

-----------------------------------------------------------------------------
(* Links.                                                                  *)
LEMMA TextFacts ==
  ASSUME NEW l \in Text
  PROVE  /\ l \in Seq(Piece) /\ Len(l) \in Nat /\ Len(l) >= 1
         /\ \A i \in 1..Len(l) : l[i] \in Seq(Name)
         /\ Tail(l) \in Seq(Piece) /\ Len(Tail(l)) = Len(l) - 1
         /\ \A i \in 1..Len(l) - 1 : Tail(l)[i] = l[i + 1]
<1>1. l \in Seq(Piece) /\ l # <<>>
  BY DEF Text
<1> QED
  BY <1>1 DEF Piece

LEMMA UrlFacts ==
  ASSUME NEW u \in PageUrls
  PROVE  u \in Text /\ Len(u) >= 3 /\ u[2] = <<>> /\ \E n \in HttpNames : u[1] = <<n>>
BY ContentConstants

(* An authority has one name that is its host.                             *)
LEMMA HostType ==
  ASSUME NEW u \in PageUrls
  PROVE  Host(u[3]) \in Seq(Name)
<1> DEFINE p == u[3]
<1>1. p \in Seq(Name)
  BY UrlFacts, TextFacts
<1>2. \E i \in DOMAIN p : p[i] \notin Aside
  BY ContentConstants
<1> HIDE DEF p
<1>3. PICK i \in DOMAIN p : i = CHOOSE k \in DOMAIN p : p[k] \notin Aside
  BY <1>2
<1>4. p[i] \in Name
  BY <1>1
<1>5. Host(p) = <<p[i]>>
  BY <1>3 DEF Host
<1> QED
  BY <1>4, <1>5 DEF p

LEMMA UpsFacts ==
  ASSUME NEW l \in Text, StartsUp(l)
  PROVE  Ups(l) \in 1..Len(l) - 1 /\ l[Ups(l)] = Up /\ \A k \in 1..Len(l) - 1 : l[k] = Up => k <= Ups(l)
<1> DEFINE T == {k \in 1..Len(l) - 1 : l[k] = Up}
<1>1. Len(l) \in Nat /\ 1 \in T /\ T \subseteq 0..Len(l)
  BY TextFacts DEF StartsUp
<1> HIDE DEF T
<1>2. Max(T) \in T /\ \A m \in T : Max(T) >= m
  BY <1>1, MaxFacts
<1>3. Ups(l) = Max(T)
  BY DEF Ups, T
<1>4. Max(T) \in Nat /\ T \subseteq Nat
  <2>1. 0..Len(l) \subseteq Nat
    BY <1>1
  <2> QED
    BY <1>1, <1>2, <2>1
<1> HIDE DEF Ups
<1> QED
  BY <1>2, <1>3, <1>4 DEF T

(* The branches of the loop over the links exclude one another.            *)
LEMMA Branches ==
  ASSUME NEW l \in Text
  PROVE  /\ StartsHttp(l) => /\ ~ StartsTwoSlashes(l) /\ ~ StartsUp(l)
                             /\ ~ IsHere(l) /\ ~ StartsSlash(l)
         /\ StartsTwoSlashes(l) => ~ StartsUp(l) /\ ~ IsHere(l) /\ ~ StartsSlash(l)
         /\ StartsUp(l) => ~ IsHere(l) /\ ~ StartsSlash(l)
         /\ IsHere(l) => ~ StartsSlash(l)
         /\ IsAbsolute(l) => StartsHttp(l)
         /\ StartsTwoSlashes(l) \/ StartsUp(l) \/ IsHere(l) \/ StartsSlash(l) => ~ HasScheme(l)
<1> DEFINE x == l[1]
<1>1. StartsHttp(l) => x # <<>> /\ x[1] # "." /\ x[1] # ".."
  BY ContentConstants DEF StartsHttp
<1>2. StartsTwoSlashes(l) => x = <<>>
  BY DEF StartsTwoSlashes
<1>3. StartsUp(l) => x = <<"..">>
  BY DEF StartsUp, Up
<1>4. IsHere(l) => x = <<".">>
  BY DEF IsHere
<1>5. StartsSlash(l) => x = <<>> /\ ~ StartsTwoSlashes(l)
  BY DEF StartsSlash
<1>6. HasScheme(l) => x # <<>> /\ x[1] # "." /\ x[1] # ".."
  BY ContentConstants DEF HasScheme
<1>7. IsAbsolute(l) => StartsHttp(l)
  <2> SUFFICES ASSUME NEW n \in HttpNames, x = <<n>> PROVE x # <<>> /\ x[1] \in HttpNames
    BY DEF IsAbsolute, StartsHttp
  <2> HIDE DEF x
  <2> QED
    OBVIOUS
<1>8. <<"..">> # <<".">> /\ <<"..">> # <<>> /\ <<".">> # <<>> /\ <<".">>[1] = "." /\ <<"..">>[1] = ".."
  OBVIOUS
<1> HIDE DEF x
<1> QED
  BY <1>1, <1>2, <1>3, <1>4, <1>5, <1>6, <1>7, <1>8

LEMMA ResolvedCases ==
  ASSUME NEW l \in Text, NEW u
  PROVE  /\ StartsHttp(l) => Resolved(u, l) = l
         /\ StartsTwoSlashes(l) => Resolved(u, l) = <<u[1]>> \o Tail(l)
         /\ StartsUp(l) => Resolved(u, l) = Climbed(u, l)
         /\ IsHere(l) => Resolved(u, l) = Cut(u, 1) \o Tail(l)
         /\ StartsSlash(l) => Resolved(u, l) = <<u[1], <<>>, Lower(Host(u[3]))>> \o Tail(l)
         /\ \/ StartsHttp(l) \/ StartsTwoSlashes(l) \/ StartsUp(l) \/ IsHere(l) \/ StartsSlash(l)
            \/ Resolved(u, l) = Glued(u, l)
BY Branches DEF Resolved

LEMMA LowerType ==
  ASSUME NEW p \in Seq(Name)
  PROVE  Lower(p) \in Seq(Name) /\ Lower(Lower(p)) = Lower(p)
<1>1. Len(p) \in Nat /\ DOMAIN p = 1..Len(p) /\ \A i \in 1..Len(p) : p[i] \in Name
  OBVIOUS
<1>2. \A i \in 1..Len(p) : LowerOf[p[i]] \in Name /\ LowerOf[LowerOf[p[i]]] = LowerOf[p[i]]
  BY <1>1, ContentConstants
<1>3. Lower(p) = [i \in 1..Len(p) |-> LowerOf[p[i]]]
  BY <1>1 DEF Lower
<1>4. Lower(p) \in Seq(Name) /\ DOMAIN Lower(p) = 1..Len(p)
  BY <1>1, <1>2, <1>3
<1>5. Lower(Lower(p)) = [i \in 1..Len(p) |-> LowerOf[Lower(p)[i]]]
  BY <1>4 DEF Lower
<1>6. \A i \in 1..Len(p) : LowerOf[Lower(p)[i]] = LowerOf[p[i]]
  BY <1>2, <1>3
<1> QED
  BY <1>3, <1>4, <1>5, <1>6

LEMMA ResolvedType ==
  ASSUME NEW u \in PageUrls, NEW l \in Text, ~ Throws(u, l)
  PROVE  Resolved(u, l) \in Text
<1>1. u \in Text /\ Len(u) >= 3 /\ u \in Seq(Piece) /\ Len(u) \in Nat
      /\ u[1] \in Seq(Name) /\ u[2] = <<>> /\ u[3] \in Seq(Name)
  BY UrlFacts, TextFacts
<1>2. l \in Seq(Piece) /\ Len(l) \in Nat /\ Len(l) >= 1 /\ Tail(l) \in Seq(Piece)
  BY TextFacts
<1>3. ASSUME NEW s \in Seq(Piece), Len(s) >= 1, NEW r \in Seq(Piece) PROVE s \o r \in Text
  <2>1. s \o r \in Seq(Piece) /\ Len(s \o r) = Len(s) + Len(r) /\ Len(s) \in Nat /\ Len(r) \in Nat
    BY Concat
  <2>2. s \o r # <<>>
    <3>1. Len(<<>>) = 0
      OBVIOUS
    <3> QED
      BY <1>3, <2>1, <3>1
  <2> QED
    BY <2>1, <2>2 DEF Text
<1>4. CASE StartsHttp(l)
  BY <1>4, ResolvedCases
<1>5. CASE StartsTwoSlashes(l)
  <2>1. <<u[1]>> \in Seq(Piece) /\ Len(<<u[1]>>) >= 1
    BY <1>1 DEF Piece
  <2>2. <<u[1]>> \o Tail(l) \in Text
    BY <1>2, <1>3, <2>1
  <2> QED
    BY <1>5, <2>2, ResolvedCases
<1>6. CASE StartsUp(l)
  <2> DEFINE n == Ups(l)
  <2>1. n \in 1..Len(l) - 1 /\ n + 1 < Len(u)
    <3>1. n \in 1..Len(l) - 1
      BY <1>6, UpsFacts
    <3>2. ~ (n + 1 >= Len(u))
      BY <1>6 DEF Throws, CutThrows
    <3> HIDE DEF n
    <3> QED
      BY <1>1, <1>2, <3>1, <3>2
  <2> HIDE DEF n
  <2>2. /\ SubSeq(u, 1, Len(u) - (n + 1)) \in Seq(Piece)
        /\ Len(SubSeq(u, 1, Len(u) - (n + 1))) = Len(u) - (n + 1)
    BY <1>1, <2>1
  <2>3. SubSeq(l, n + 1, Len(l)) \in Seq(Piece)
    BY <1>2, <2>1
  <2>4. Len(u) - (n + 1) >= 1
    BY <1>1, <2>1
  <2>5. SubSeq(u, 1, Len(u) - (n + 1)) \o SubSeq(l, n + 1, Len(l)) \in Text
    BY <1>3, <2>2, <2>3, <2>4
  <2> QED
    BY <1>6, <2>5, ResolvedCases DEF Climbed, Cut, AfterUps, n
<1>7. CASE IsHere(l)
  <2>1. SubSeq(u, 1, Len(u) - 1) \in Seq(Piece) /\ Len(SubSeq(u, 1, Len(u) - 1)) >= 1
    BY <1>1
  <2>2. Cut(u, 1) \o Tail(l) \in Text
    BY <1>2, <1>3, <2>1 DEF Cut
  <2> QED
    BY <1>7, <2>2, ResolvedCases
<1>8. CASE StartsSlash(l)
  <2> DEFINE y == Lower(Host(u[3]))
             x == u[1]
  <2>1. x \in Piece /\ <<>> \in Piece /\ y \in Piece
    BY <1>1, HostType, LowerType DEF Piece
  <2> HIDE DEF x, y
  <2> DEFINE z == <<x, <<>>, y>>
  <2>2. z \in Seq(Piece) /\ Len(z) >= 1
    BY <2>1
  <2>3. z \o Tail(l) \in Text
    <3> HIDE DEF z
    <3> QED
      BY <1>2, <1>3, <2>2
  <2> QED
    BY <1>8, <2>3, ResolvedCases DEF x, y
<1>9. CASE Resolved(u, l) = Glued(u, l)
  <2> DEFINE x == u[Len(u)]
             y == l[1]
             f == SubSeq(u, 1, Len(u) - 1)
             m == <<x \o y>>
  <2>1. f \in Seq(Piece) /\ Len(f) >= 1
    BY <1>1
  <2>2. x \in Seq(Name) /\ y \in Seq(Name)
    BY <1>1, <1>2, TextFacts
  <2>3. m \in Seq(Piece)
    BY <2>2 DEF Piece
  <2> HIDE DEF f, m
  <2>4. f \o m \in Seq(Piece) /\ Len(f \o m) = Len(f) + Len(m) /\ Len(f) \in Nat /\ Len(m) \in Nat
    BY <2>1, <2>3, Concat
  <2>5. (f \o m) \o Tail(l) \in Text
    <3> DEFINE z == f \o m
    <3>1. z \in Seq(Piece) /\ Len(z) >= 1
      BY <2>1, <2>4
    <3> HIDE DEF z
    <3>2. z \o Tail(l) \in Text
      BY <1>2, <1>3, <3>1
    <3> QED
      BY <3>2 DEF z
  <2>6. Glued(u, l) = (f \o m) \o Tail(l)
    <3>1. Head(l) = l[1]
      BY <1>2
    <3> QED
      BY <3>1 DEF Glued, Front, Last, f, m
  <2> QED
    BY <1>9, <2>5, <2>6
<1> QED
  BY <1>4, <1>5, <1>6, <1>7, <1>8, <1>9, ResolvedCases

-----------------------------------------------------------------------------
(* The inductive invariant of the text: which step has worked out what.    *)
TextInv ==
  /\ pc \in {"count", "store", "done"} => text = Cleaned(html)
  /\ pc \in {"store", "done"} => words = Counted(text)
  /\ stored # NoWords => pc = "done" /\ stored.words = words

LEMMA TitleType ==
  ASSUME NEW h \in Seq(Element)
  PROVE  Title(h) \in Seq(Name)
<1> DEFINE T == {i \in DOMAIN h : h[i].kind = "title"}
<1>1. CASE T = {}
  BY <1>1 DEF Title
<1>2. CASE T # {}
  <2>1. T \subseteq Nat
    OBVIOUS
  <2> HIDE DEF T
  <2>2. Min(T) \in T
    BY <1>2, <2>1, MinFacts
  <2>3. h[Min(T)].words \in Seq(Name)
    <3>1. h[Min(T)] \in Element /\ h[Min(T)].kind = "title"
      BY <2>2 DEF T
    <3> QED
      BY <3>1, ElementFacts
  <2> QED
    BY <1>2, <2>3 DEF Title, T
<1> QED
  BY <1>1, <1>2

LEMMA PageFacts ==
  ASSUME html \in Htmls
  PROVE  /\ html \in Seq(Element) /\ Len(html) \in Nat /\ DOMAIN html = 1..Len(html)
         /\ Given \subseteq 1..Len(html) /\ IsFiniteSet(Given)
         /\ \A i \in Given : html[i] \in Element /\ html[i].kind \in WithHref
                             /\ html[i].href \in Text /\ html[i].href # <<<<>>>>
<1>1. html \in Seq(Element)
  BY ContentConstants
<1>2. Len(html) \in Nat /\ DOMAIN html = 1..Len(html) /\ \A i \in 1..Len(html) : html[i] \in Element
  BY <1>1
<1>3. Given \in SUBSET (1..Len(html))
  BY <1>2 DEF Given
<1>4. IsFiniteSet(Given)
  <2>1. IsFiniteSet(1..Len(html))
    BY <1>2, FS_Interval
  <2> QED
    BY <1>3, <2>1, FS_Subset
<1>5. \A i \in Given : html[i] \in Element /\ html[i].kind \in WithHref
                       /\ html[i].href \in Text /\ html[i].href # <<<<>>>>
  BY <1>2, <1>3, ElementFacts DEF Given, HasLink
<1> QED
  BY <1>1, <1>2, <1>3, <1>4, <1>5

LEMMA ContentInit ==
  ASSUME Init
  PROVE  ContentTypeOK /\ TextInv
<1>1. Len(html) \in Nat
  BY PageFacts DEF Init
<1> QED
  BY <1>1 DEF Init, ContentTypeOK, TextInv

LEMMA ContentStep ==
  ASSUME ContentTypeOK, TextInv, [Next]_vars
  PROVE  ContentTypeOK' /\ TextInv'
<1> USE DEF Goto
<1>1. html \in Seq(Element) /\ Len(html) \in Nat
  BY PageFacts DEF ContentTypeOK
<1>2. CASE LastLevel
  BY <1>2 DEF LastLevel, ContentTypeOK, TextInv
<1>3. CASE SkipElement
  <2>1. next + 1 \in 1..Len(html) + 1
    BY <1>1, <1>3 DEF SkipElement, AtElement, ContentTypeOK
  <2> QED
    BY <1>3, <2>1 DEF SkipElement, AtElement, ContentTypeOK, TextInv
<1>4. CASE ResolveLink
  <2> USE DEF ResolveLink, NextLink, AtLink, AtElement
  <2>1. next + 1 \in 1..Len(html) + 1 /\ next \in DOMAIN html
    BY <1>1, <1>4 DEF ContentTypeOK
  <2>2. html[next].href \in Text
    BY <1>4, <2>1, PageFacts DEF ContentTypeOK, Given
  <2>3. Resolved(url, html[next].href) \in Text
    BY <1>4, <2>2, ResolvedType DEF ContentTypeOK
  <2>4. links' \in Seq(Text)
    BY <1>4, <2>3 DEF ContentTypeOK
  <2> QED
    BY <1>4, <2>1, <2>4 DEF ContentTypeOK, TextInv
<1>5. CASE ResolveThrows
  BY <1>5 DEF ResolveThrows, ContentTypeOK, TextInv
<1>6. CASE SubmitLinks
  BY <1>6 DEF SubmitLinks, ContentTypeOK, TextInv
<1>7. CASE CleanText
  <2>1. text' = Cleaned(html)
    BY <1>7 DEF CleanText, Cleaned
  <2>2. text' \in Seq(Token)
    BY <1>1, <2>1, CleanedPage DEF Cleaned
  <2> QED
    BY <1>7, <2>1, <2>2 DEF CleanText, ContentTypeOK, TextInv
<1>8. CASE CleaningThrows
  BY <1>8 DEF CleaningThrows, ContentTypeOK, TextInv
<1>9. CASE CountWords
  <2>1. AreCounts(words')
    BY <1>9, CountedType DEF CountWords, ContentTypeOK
  <2> QED
    BY <1>9, <2>1 DEF CountWords, ContentTypeOK, TextInv
<1>10. CASE AddOnePageData
  <2>1. AreCounts(words)
    BY <1>10, CountedType DEF AddOnePageData, TextInv, ContentTypeOK
  <2>2. Title(html) \in Seq(Name)
    BY <1>1, TitleType
  <2>3. stored'.title = Title(html) /\ stored'.words = words
    BY <1>10 DEF AddOnePageData
  <2> QED
    BY <1>10, <2>1, <2>2, <2>3 DEF AddOnePageData, ContentTypeOK, TextInv
<1>11. CASE UNCHANGED vars
  BY <1>11 DEF vars, ContentTypeOK, TextInv
<1> QED
  BY <1>2, <1>3, <1>4, <1>5, <1>6, <1>7, <1>8, <1>9, <1>10, <1>11 DEF Next

(* Types: of any page, the links come out as URLs and the words as counts
   of words of more than two bytes, whatever was resolved or cleaned
   (parseOnePage, lines 112-206).                                           *)
THEOREM ContentTypeCorrect == Spec => []ContentTypeOK
<1>1. Init => ContentTypeOK /\ TextInv
  BY ContentInit
<1>2. (ContentTypeOK /\ TextInv) /\ [Next]_vars => (ContentTypeOK /\ TextInv)'
  BY ContentStep
<1> QED
  BY <1>1, <1>2, PTL DEF Spec

(* On any page, each word of more than two bytes is stored with as many
   occurrences as a reader sees in its title and its text, none of a tag, a
   script or a style sheet (lines 161-206).                                 *)
THEOREM VisibleWordsCounted == Spec => []VisibleWordsCount
<1>1. Init => ContentTypeOK /\ TextInv
  BY ContentInit
<1>2. (ContentTypeOK /\ TextInv) /\ [Next]_vars => (ContentTypeOK /\ TextInv)'
  BY ContentStep
<1>3. ContentTypeOK /\ TextInv => VisibleWordsCount
  <2> SUFFICES ASSUME ContentTypeOK, TextInv, stored # NoWords
               PROVE  /\ DOMAIN stored.words = {x \in Long : Seen(x) # {}}
                      /\ \A x \in DOMAIN stored.words : stored.words[x] = Cardinality(Seen(x))
    BY DEF VisibleWordsCount
  <2>1. html \in Seq(Element)
    BY PageFacts DEF ContentTypeOK
  <2> DEFINE t == Cleaned(html)
  <2>2. stored.words = Counted(t)
    BY DEF TextInv
  <2> HIDE DEF t
  <2>3. DOMAIN Counted(t) = {y \in Long : At(t, y) # {}}
        /\ \A x \in DOMAIN Counted(t) : Counted(t)[x] = Cardinality(At(t, x))
    BY DEF Counted
  <2>4. \A x : /\ Cardinality(Seen(x)) = Cardinality(At(t, x))
               /\ Seen(x) # {} <=> At(t, x) # {}
    BY <2>1, SeenIsCounted DEF t
  <2> QED
    BY <2>2, <2>3, <2>4
<1> QED
  BY <1>1, <1>2, <1>3, PTL DEF Spec

-----------------------------------------------------------------------------
(* The inductive invariant of the links: those before next are resolved,
   in order, and are submitted when next has passed the last.              *)
Reached == {j \in Given : j < next}

LinksResolved ==
  /\ Len(links) = Cardinality(Reached)
  /\ \A i \in Reached : /\ Rank(i) \in 1..Len(links)
                        /\ ~ Throws(url, html[i].href)
                        /\ links[Rank(i)] = Resolved(url, html[i].href)

Submitted == submitted = links /\ next > Len(html)

LinksInv ==
  /\ LinksResolved
  /\ pc = "links" => submitted = <<>>
  /\ pc # "links" /\ ~ Deep => submitted = <<>>
  /\ pc \in {"clean", "count", "store", "done"} /\ Deep => Submitted
  /\ pc = "caught" /\ Deep =>
       \/ Submitted
       \/ /\ submitted = <<>>
          /\ \E i \in Given : Throws(url, html[i].href)

LEMMA RankFacts ==
  ASSUME html \in Htmls, next \in 1..Len(html) + 1
  PROVE  /\ IsFiniteSet(Reached) /\ Cardinality(Reached) \in Nat
         /\ next > Len(html) => Reached = Given
         /\ next \in Given => Rank(next) = Cardinality(Reached) + 1
         /\ \A i \in Reached : Rank(i) \in 1..Cardinality(Reached)
<1>1. Given \subseteq 1..Len(html) /\ IsFiniteSet(Given) /\ Len(html) \in Nat
  BY PageFacts
<1>2. Reached \in SUBSET Given
  BY DEF Reached
<1>3. IsFiniteSet(Reached)
  BY <1>1, <1>2, FS_Subset
<1>4. Cardinality(Reached) \in Nat
  BY <1>3, FS_CardinalityType
<1>20. next \in Nat /\ \A j \in Given : j \in Nat /\ j <= Len(html)
  BY <1>1
<1>5. next > Len(html) => Reached = Given
  <2>1. next > Len(html) => \A j \in Given : j < next
    BY <1>1, <1>20
  <2> QED
    BY <2>1 DEF Reached
<1>6. ASSUME next \in Given PROVE Rank(next) = Cardinality(Reached) + 1
  <2>0. ~ (next < next) /\ \A j \in Given : j <= next <=> j < next \/ j = next
    BY <1>20
  <2>1. {j \in Given : j <= next} = Reached \cup {next} /\ next \notin Reached
    BY <1>6, <2>0 DEF Reached
  <2>2. Cardinality(Reached \cup {next}) = Cardinality(Reached) + 1
    BY <1>3, <2>1, FS_AddElement
  <2> QED
    BY <2>1, <2>2 DEF Rank
<1>7. ASSUME NEW i \in Reached PROVE Rank(i) \in 1..Cardinality(Reached)
  <2> DEFINE T == {j \in Given : j <= i}
  <2>0. i \in Given /\ i < next
    BY DEF Reached
  <2>9. i <= i /\ \A j \in Given : j <= i => j < next
    BY <1>20, <2>0
  <2>1. i \in T /\ T \in SUBSET Reached
    BY <2>0, <2>9 DEF Reached
  <2> HIDE DEF T
  <2>2. IsFiniteSet(T) /\ Cardinality(T) <= Cardinality(Reached)
    BY <1>3, <2>1, FS_Subset
  <2>3. Cardinality(T) \in Nat /\ Cardinality(T) # 0
    BY <2>1, <2>2, FS_CardinalityType, FS_EmptySet
  <2> QED
    BY <1>4, <2>2, <2>3 DEF T, Rank
<1> QED
  BY <1>3, <1>4, <1>5, <1>6, <1>7

LEMMA LinksInit ==
  ASSUME Init
  PROVE  LinksInv
<1>1. Given \subseteq 1..Len(html) /\ Len(html) \in Nat
  BY PageFacts DEF Init
<1>20. \A j \in Given : ~ (j < 1)
  BY <1>1
<1>2. Reached = {}
  BY <1>20 DEF Init, Reached
<1>3. Len(links) = 0 /\ Cardinality({}) = 0
  BY FS_EmptySet DEF Init
<1>4. LinksResolved
  BY <1>2, <1>3 DEF LinksResolved
<1> QED
  BY <1>4 DEF Init, LinksInv

LEMMA LinksStep ==
  ASSUME ContentTypeOK, LinksInv, [Next]_vars
  PROVE  LinksInv'
<1> USE DEF Goto
<1>1. html \in Htmls /\ next \in 1..Len(html) + 1 /\ Given \subseteq 1..Len(html) /\ Len(html) \in Nat
  BY PageFacts DEF ContentTypeOK
<1>20. next \in Nat /\ \A j \in Given : j \in Nat /\ (j < next + 1 <=> j < next \/ j = next)
  BY <1>1
<1>2. ASSUME UNCHANGED <<url, html, next, links>> PROVE LinksResolved'
  <2>1. Given' = Given /\ Reached' = Reached
    BY <1>2 DEF Given, Reached
  <2>2. \A i : Rank(i)' = Rank(i)
    BY <1>2, <2>1 DEF Rank
  <2> QED
    BY <1>2, <2>1, <2>2 DEF LinksInv, LinksResolved
<1>3. CASE LastLevel
  BY <1>2, <1>3 DEF LastLevel, LinksInv, Deep, Submitted
<1>4. CASE SkipElement
  <2> USE DEF SkipElement, AtElement
  <2>1. next \notin Given /\ Given' = Given
    BY <1>4 DEF Given
  <2>0. Reached' = {j \in Given : j < next + 1}
    BY <1>4, <2>1 DEF Reached
  <2>2. Reached' = Reached
    BY <1>20, <2>0, <2>1 DEF Reached
  <2>3. \A i : Rank(i)' = Rank(i)
    BY <2>1 DEF Rank
  <2>4. LinksResolved'
    BY <1>4, <2>2, <2>3 DEF LinksInv, LinksResolved
  <2> QED
    BY <1>4, <2>4 DEF LinksInv
<1>5. CASE ResolveLink
  <2> USE DEF ResolveLink, NextLink, AtLink, AtElement
  <2> DEFINE n == Cardinality(Reached)
             new == Resolved(url, html[next].href)
  <2>1. next \in Given /\ Given' = Given
    BY <1>1, <1>5, PageFacts DEF Given
  <2>0. Reached' = {j \in Given : j < next + 1} /\ ~ (next < next)
    BY <1>20, <1>5, <2>1 DEF Reached
  <2>2. Reached' = Reached \cup {next} /\ next \notin Reached
    BY <1>20, <2>0, <2>1 DEF Reached
  <2>3. IsFiniteSet(Reached) /\ n \in Nat /\ Rank(next) = n + 1
        /\ \A i \in Reached : Rank(i) \in 1..n
    BY <1>1, <2>1, RankFacts
  <2>4. Cardinality(Reached') = n + 1
    BY <2>2, <2>3, FS_AddElement
  <2>5. \A i : Rank(i)' = Rank(i)
    BY <2>1 DEF Rank
  <2>6. links \in Seq(Text) /\ Len(links) = n /\ links' = Append(links, new)
    BY <1>5 DEF ContentTypeOK, LinksInv, LinksResolved
  <2> HIDE DEF n, new
  <2>7. Len(links') = n + 1 /\ links'[n + 1] = new /\ \A k \in 1..n : links'[k] = links[k]
    BY <2>3, <2>6
  <2>8. ASSUME NEW i \in Reached'
        PROVE  /\ Rank(i) \in 1..n + 1 /\ ~ Throws(url, html[i].href)
               /\ links'[Rank(i)] = Resolved(url, html[i].href)
    <3>1. CASE i = next
      BY <1>5, <2>3, <2>7, <3>1 DEF new
    <3>2. CASE i \in Reached
      <4>1. ~ Throws(url, html[i].href) /\ links[Rank(i)] = Resolved(url, html[i].href)
        BY <3>2 DEF LinksInv, LinksResolved
      <4>2. Rank(i) \in 1..n /\ Rank(i) \in 1..n + 1
        BY <2>3, <3>2
      <4> QED
        BY <2>7, <4>1, <4>2
    <3> QED
      BY <2>2, <3>1, <3>2
  <2>9. LinksResolved'
    BY <1>5, <2>4, <2>5, <2>7, <2>8 DEF LinksResolved
  <2> QED
    BY <1>5, <2>9 DEF LinksInv
<1>6. CASE ResolveThrows
  <2>1. next \in Given /\ Given' = Given /\ Throws(url, html[next].href)
    BY <1>1, <1>6, PageFacts DEF ResolveThrows, AtLink, AtElement, Given
  <2> QED
    BY <1>2, <1>6, <2>1 DEF ResolveThrows, LinksInv, Deep, AtLink, AtElement
<1>7. CASE SubmitLinks
  BY <1>2, <1>7 DEF SubmitLinks, LinksInv, Submitted, Deep
<1>8. CASE CleanText
  BY <1>2, <1>8 DEF CleanText, LinksInv, Submitted, Deep
<1>9. CASE CleaningThrows
  BY <1>2, <1>9 DEF CleaningThrows, LinksInv, Submitted, Deep
<1>10. CASE CountWords
  BY <1>2, <1>10 DEF CountWords, LinksInv, Submitted, Deep
<1>11. CASE AddOnePageData
  BY <1>2, <1>11 DEF AddOnePageData, LinksInv, Submitted, Deep
<1>12. CASE UNCHANGED vars
  <2>0. /\ url' = url /\ depth' = depth /\ html' = html /\ pc' = pc
        /\ next' = next /\ links' = links /\ submitted' = submitted
    BY <1>12 DEF vars
  <2>1. Given' = Given
    BY <2>0 DEF Given
  <2>2. LinksResolved'
    BY <1>2, <2>0
  <2>3. Deep' = Deep /\ Submitted' = Submitted
    BY <2>0 DEF Deep, Submitted
  <2>4. (\E i \in Given : Throws(url, html[i].href))'
        <=> \E i \in Given : Throws(url, html[i].href)
    BY <2>0, <2>1
  <2> QED
    BY <2>0, <2>2, <2>3, <2>4, Zenon DEF LinksInv
<1> QED
  BY <1>3, <1>4, <1>5, <1>6, <1>7, <1>8, <1>9, <1>10, <1>11, <1>12 DEF Next

(* A link that climbs past the top is no sound one.                        *)
LEMMA ThrownIsUnsound ==
  ASSUME NEW u \in PageUrls, NEW l \in Text, Throws(u, l)
  PROVE  StartsUp(l) /\ ~ Sound(u, l)
<1>1. StartsUp(l) /\ Ups(l) + 1 >= Len(u)
  BY DEF Throws, CutThrows
<1>2. ~ StartsHttp(l) /\ ~ StartsTwoSlashes(l) /\ ~ StartsSlash(l)
  BY <1>1, Branches
<1>3. Ups(l) \in Nat /\ Len(u) \in Nat
  <2>1. Ups(l) \in 1..Len(l) - 1 /\ Len(l) \in Nat
    BY <1>1, UpsFacts, TextFacts
  <2> HIDE DEF Ups
  <2> QED
    BY <2>1, UrlFacts, TextFacts
<1>4. ~ (Ups(l) + 4 <= Len(u))
  BY <1>1, <1>3
<1> QED
  BY <1>1, <1>2, <1>4, Branches DEF Sound

(* All of a page's links are submitted, or none and one of them throws.    *)
LEMMA LinksAreAllOrNone ==
  ASSUME ContentTypeOK, TextInv, LinksInv
  PROVE  AllLinksOrNone
<1> DEFINE all == Len(submitted) = Cardinality(Given)
<1>1. url \in PageUrls /\ html \in Htmls
      /\ pc \in {"links", "clean", "count", "store", "done", "caught"}
  BY DEF ContentTypeOK
<1>2. Submitted => all
  <2>1. next > Len(html) => Reached = Given
    BY RankFacts DEF ContentTypeOK
  <2> QED
    BY <2>1 DEF Submitted, LinksInv, LinksResolved
<1>3. \A i \in Given : Throws(url, html[i].href) =>
                         StartsUp(html[i].href) /\ ~ Sound(url, html[i].href)
  BY <1>1, PageFacts, ThrownIsUnsound
<1>4. stored # NoWords => pc = "done"
  BY DEF TextInv
<1>5. submitted # <<>> => all
  BY <1>1, <1>2 DEF LinksInv
<1>6. stored # NoWords /\ Deep => all
  BY <1>2, <1>4 DEF LinksInv
<1>7. pc = "caught" /\ Deep /\ ~ all =>
        submitted = <<>> /\ \E i \in Given : ~ Sound(url, html[i].href) /\ StartsUp(html[i].href)
  BY <1>2, <1>3 DEF LinksInv
<1> HIDE DEF all
<1> QED
  BY <1>5, <1>6, <1>7 DEF AllLinksOrNone, all

(* Of no page some links are submitted and others are not, and a page that
   has lost its links lost them to one that climbs past the top, whatever
   the page and its links (lines 129, 154-158).                            *)
THEOREM AllLinksOrNoLink == Spec => []AllLinksOrNone
<1>1. Init => ContentTypeOK /\ TextInv /\ LinksInv
  BY ContentInit, LinksInit
<1>2. ContentTypeOK /\ TextInv /\ LinksInv /\ [Next]_vars => (ContentTypeOK /\ TextInv /\ LinksInv)'
  BY ContentStep, LinksStep
<1>3. ContentTypeOK /\ TextInv /\ LinksInv => AllLinksOrNone
  BY LinksAreAllOrNone
<1> QED
  BY <1>1, <1>2, <1>3, PTL DEF Spec

-----------------------------------------------------------------------------
(* The walk along a path.  FoldLeft folds over a set of places, of which it
   takes the last first; the fixed point it names is shown to exist.       *)
WalkBody(g, s, D) ==
  [c \in SUBSET D |-> IF c = {} THEN <<>> ELSE Walk(g[c \ {Max(c)}], s[Max(c)])]

LEMMA WalkUnfold ==
  ASSUME NEW s
  PROVE  FoldLeft(Walk, <<>>, s) = (CHOOSE g : g = WalkBody(g, s, DOMAIN s))[DOMAIN s]
BY DEF FoldLeft, MapThenFoldSet, WalkBody

LEMMA MaxOfRange ==
  ASSUME NEW n \in Nat, NEW c \in SUBSET (1..n + 1), n + 1 \in c
  PROVE  Max(c) = n + 1 /\ c \ {n + 1} \in SUBSET (1..n)
<1>1. c \subseteq 0..n + 1 /\ c # {} /\ n + 1 \in Nat
  OBVIOUS
<1>2. Max(c) \in c /\ Max(c) >= n + 1
  BY <1>1, MaxFacts
<1>3. Max(c) \in 1..n + 1
  BY <1>2
<1>4. Max(c) = n + 1
  <2> DEFINE m == Max(c)
  <2>1. m \in 1..n + 1 /\ m >= n + 1
    BY <1>2, <1>3
  <2> HIDE DEF m
  <2>2. m = n + 1
    BY <2>1
  <2> QED
    BY <2>2 DEF m
<1> QED
  BY <1>4

LEMMA MaxIsIn ==
  ASSUME NEW n \in Nat, NEW c \in SUBSET (1..n), c # {}
  PROVE  Max(c) \in c
<1>1. c \subseteq 0..n
  OBVIOUS
<1> QED
  BY <1>1, MaxFacts

LEMMA WalkExists ==
  ASSUME NEW s, NEW n \in Nat
  PROVE  \E g : g = WalkBody(g, s, 1..n)
<1> DEFINE G == {k \in 0..n : \E g : g = WalkBody(g, s, 1..k)}
<1>1. 0 \in G
  <2> DEFINE g == [c \in SUBSET {} |-> <<>>]
  <2>1. g = WalkBody(g, s, {}) /\ 1..0 = {}
    BY DEF WalkBody
  <2> QED
    BY <2>1
<1>2. ASSUME NEW k \in 0..n - 1, k \in G PROVE k + 1 \in G
  <2>1. PICK g : g = WalkBody(g, s, 1..k)
    BY <1>2
  <2> DEFINE h == [c \in SUBSET (1..k + 1) |->
                     IF k + 1 \in c THEN Walk(g[c \ {k + 1}], s[k + 1]) ELSE g[c]]
  <2>2. k \in Nat /\ k + 1 \in 0..n /\ k + 1 \notin 1..k /\ 1..k \subseteq 1..k + 1
    BY n \in Nat
  <2>3. ASSUME NEW c \in SUBSET (1..k) PROVE h[c] = g[c] /\ c \in SUBSET (1..k + 1)
    BY <2>2
  <2>4. ASSUME NEW c \in SUBSET (1..k + 1)
        PROVE  h[c] = IF c = {} THEN <<>> ELSE Walk(h[c \ {Max(c)}], s[Max(c)])
    <3>1. CASE k + 1 \in c
      <4>1. Max(c) = k + 1 /\ c \ {k + 1} \in SUBSET (1..k)
        BY <2>2, <3>1, MaxOfRange
      <4>2. h[c] = Walk(g[c \ {k + 1}], s[k + 1])
        BY <3>1
      <4>3. h[c \ {k + 1}] = g[c \ {k + 1}]
        BY <2>3, <4>1
      <4> HIDE DEF h
      <4> QED
        BY <3>1, <4>1, <4>2, <4>3
    <3>2. CASE k + 1 \notin c
      <4>1. c \in SUBSET (1..k)
        BY <2>2, <3>2
      <4>2. h[c] = g[c] /\ g[c] = IF c = {} THEN <<>> ELSE Walk(g[c \ {Max(c)}], s[Max(c)])
        <5>1. WalkBody(g, s, 1..k)[c] = IF c = {} THEN <<>> ELSE Walk(g[c \ {Max(c)}], s[Max(c)])
          BY <4>1 DEF WalkBody
        <5> QED
          BY <2>1, <2>3, <4>1, <5>1
      <4>3. h[c \ {Max(c)}] = g[c \ {Max(c)}]
        <5>1. c \ {Max(c)} \in SUBSET (1..k)
          BY <4>1
        <5> QED
          BY <2>3, <5>1
      <4> HIDE DEF h
      <4> QED
        BY <4>2, <4>3
    <3> QED
      BY <3>1, <3>2
  <2>5. h = WalkBody(h, s, 1..k + 1)
    <3>1. h = [c \in SUBSET (1..k + 1) |-> h[c]]
      OBVIOUS
    <3> HIDE DEF h
    <3> QED
      BY <2>4, <3>1 DEF WalkBody
  <2> HIDE DEF h
  <2> QED
    BY <2>2, <2>5
<1>3. 0..n \subseteq G
  <2> HIDE DEF G
  <2> QED
    BY <1>1, <1>2, Upward
<1>4. n \in 0..n
  OBVIOUS
<1> QED
  BY <1>3, <1>4

(* w[k] is the path after the first k pieces of s.                         *)
IsWalk(w, s) ==
  /\ DOMAIN w = 0..Len(s)
  /\ w[0] = <<>>
  /\ \A h, k \in 0..Len(s) : k = h + 1 => w[k] = Walk(w[h], s[k])

LEMMA WalkSteps ==
  ASSUME NEW s \in Seq(Piece)
  PROVE  \E w : IsWalk(w, s) /\ FoldLeft(Walk, <<>>, s) = w[Len(s)]
<1> DEFINE n == Len(s)
           g == CHOOSE g : g = WalkBody(g, s, 1..n)
           w == [k \in 0..n |-> g[1..k]]
<1>1. n \in Nat /\ DOMAIN s = 1..n
  OBVIOUS
<1>2. g = WalkBody(g, s, 1..n)
  BY <1>1, WalkExists
<1>3. FoldLeft(Walk, <<>>, s) = g[1..n]
  BY <1>1, WalkUnfold
<1> HIDE DEF g
<1>4. \A c \in SUBSET (1..n) : g[c] = IF c = {} THEN <<>> ELSE Walk(g[c \ {Max(c)}], s[Max(c)])
  <2> TAKE c \in SUBSET (1..n)
  <2>1. WalkBody(g, s, 1..n)[c] = IF c = {} THEN <<>> ELSE Walk(g[c \ {Max(c)}], s[Max(c)])
    BY DEF WalkBody
  <2> QED
    BY <1>2, <2>1
<1>5. w[0] = <<>>
  <2>1. 1..0 = {} /\ 0 \in 0..n
    BY <1>1
  <2> QED
    BY <1>4, <2>1
<1>6. ASSUME NEW h \in 0..n, NEW k \in 0..n, k = h + 1
      PROVE  w[k] = Walk(w[h], s[k])
  <2>5. h \in Nat /\ h + 1 \in 1..k /\ \A j \in 1..k : j \in 1..n
    BY <1>1, <1>6
  <2>1. h \in Nat /\ 1..k \in SUBSET (1..n) /\ h + 1 \in 1..k /\ 1..k # {}
    BY <2>5
  <2>4. (1..k) \ {k} = 1..h
    <3>1. \A j : j \in 1..h <=> j \in 1..k /\ j # k
      BY <1>6, <2>1
    <3> QED
      BY <3>1
  <2>2. Max(1..k) = k
    <3>1. 1..k \in SUBSET (1..h + 1)
      BY <1>6
    <3> QED
      BY <1>6, <2>1, <3>1, MaxOfRange
  <2>3. g[1..k] = Walk(g[1..h], s[k])
    BY <1>4, <2>1, <2>2, <2>4
  <2> QED
    BY <2>3
<1>7. IsWalk(w, s) /\ w[n] = g[1..n]
  <2>1. DOMAIN w = 0..n /\ n \in 0..n
    BY <1>1
  <2>2. w[n] = g[1..n]
    BY <2>1
  <2> HIDE DEF w
  <2> QED
    BY <1>5, <1>6, <2>1, <2>2 DEF IsWalk
<1> QED
  BY <1>3, <1>7

LEMMA WalkType ==
  ASSUME NEW s \in Seq(Piece), NEW w, IsWalk(w, s)
  PROVE  \A k \in 0..Len(s) : w[k] \in Seq(Piece)
<1> DEFINE n == Len(s)
           G == {k \in 0..n : w[k] \in Seq(Piece)}
<1>1. n \in Nat /\ \A k \in 1..n : s[k] \in Piece
  OBVIOUS
<1>2. 0 \in G
  <2>1. <<>> \in Seq(Piece) /\ 0 \in 0..n
    BY <1>1
  <2> QED
    BY <2>1 DEF IsWalk
<1>3. ASSUME NEW i \in 0..n - 1, i \in G PROVE i + 1 \in G
  <2>1. i \in 0..n /\ i + 1 \in 0..n /\ i + 1 \in 1..n
    BY <1>1
  <2>2. w[i + 1] = Walk(w[i], s[i + 1])
    BY <2>1 DEF IsWalk
  <2>3. w[i] \in Seq(Piece) /\ s[i + 1] \in Piece
    BY <1>1, <1>3, <2>1
  <2>4. ASSUME NEW v \in Seq(Piece), NEW p \in Piece PROVE Walk(v, p) \in Seq(Piece)
    <3>1. Append(v, p) \in Seq(Piece) /\ (v # <<>> => Front(v) \in Seq(Piece))
      BY DEF Front
    <3> QED
      BY <3>1 DEF Walk
  <2>5. w[i + 1] \in Seq(Piece)
    BY <2>2, <2>3, <2>4
  <2> QED
    BY <2>1, <2>5
<1>4. 0..n \subseteq G
  <2> HIDE DEF G
  <2> QED
    BY <1>1, <1>2, <1>3, Upward
<1> QED
  BY <1>4

(* Two paths that have come to the same place and go on alike, s from a to
   x and t from b to y.                                                    *)
Alike(s, a, x, t, b, y) ==
  /\ a \in Nat /\ x \in Nat /\ b \in Nat /\ y \in Nat
  /\ a <= x /\ x - a = y - b
  /\ x <= Len(s) /\ y <= Len(t)
  /\ \A j \in 1..x - a : s[a + j] = t[b + j]

LEMMA WalkAlike ==
  ASSUME NEW s \in Seq(Piece), NEW t \in Seq(Piece), NEW v, NEW w,
         NEW a, NEW x, NEW b, NEW y,
         IsWalk(v, s), IsWalk(w, t), Alike(s, a, x, t, b, y), v[a] = w[b]
  PROVE  v[x] = w[y]
<1> DEFINE m == x - a
           G == {j \in 0..m : v[a + j] = w[b + j]}
<1>1. a \in Nat /\ b \in Nat /\ m \in Nat /\ Len(s) \in Nat /\ Len(t) \in Nat
      /\ a + m = x /\ b + m = y /\ a + m <= Len(s) /\ b + m <= Len(t)
      /\ \A j \in 1..m : s[a + j] = t[b + j]
  BY DEF Alike
<1> HIDE DEF m
<1>2. 0 \in G
  <2>1. a + 0 = a /\ b + 0 = b /\ 0 \in 0..m
    BY <1>1
  <2> QED
    BY <2>1
<1>3. ASSUME NEW i \in 0..m - 1, i \in G PROVE i + 1 \in G
  <2>1. /\ a + i \in 0..Len(s) /\ a + (i + 1) \in 0..Len(s) /\ a + (i + 1) = (a + i) + 1
        /\ b + i \in 0..Len(t) /\ b + (i + 1) \in 0..Len(t) /\ b + (i + 1) = (b + i) + 1
        /\ i + 1 \in 1..m /\ i + 1 \in 0..m
    BY <1>1
  <2>2. v[a + (i + 1)] = Walk(v[a + i], s[a + (i + 1)])
    BY <2>1 DEF IsWalk
  <2>3. w[b + (i + 1)] = Walk(w[b + i], t[b + (i + 1)])
    BY <2>1 DEF IsWalk
  <2>4. s[a + (i + 1)] = t[b + (i + 1)]
    BY <1>1, <2>1
  <2>5. v[a + i] = w[b + i]
    BY <1>3
  <2> QED
    BY <2>1, <2>2, <2>3, <2>4, <2>5
<1>4. 0..m \subseteq G
  <2> HIDE DEF G
  <2> QED
    BY <1>1, <1>2, <1>3, Upward
<1>5. m \in 0..m
  BY <1>1
<1> QED
  BY <1>1, <1>4, <1>5

(* Two such paths of which one more piece is walked lead to the same end.  *)
LEMMA WalkedAlike ==
  ASSUME NEW s \in Seq(Piece), NEW t \in Seq(Piece), NEW v, NEW w, NEW a, NEW b,
         IsWalk(v, s), IsWalk(w, t), FoldLeft(Walk, <<>>, s) = v[Len(s)],
         FoldLeft(Walk, <<>>, t) = w[Len(t)],
         Alike(s, a, Len(s), t, b, Len(t)), v[a] = w[b], a # Len(s)
  PROVE  Walked(s) = Walked(t)
<1>1. v[Len(s)] = w[Len(t)]
  BY WalkAlike
<1>2. Last(s) = Last(t) /\ Len(s) # 0 /\ Len(t) # 0
  <2> DEFINE m == Len(s) - a
  <2>1. m \in Nat /\ m # 0 /\ a + m = Len(s) /\ b + m = Len(t) /\ a \in Nat /\ b \in Nat
        /\ \A j \in 1..m : s[a + j] = t[b + j]
    BY DEF Alike
  <2> HIDE DEF m
  <2>2. m \in 1..m
    BY <2>1
  <2>3. s[a + m] = t[b + m]
    BY <2>1, <2>2
  <2> QED
    BY <2>1, <2>3 DEF Last
<1>3. s # <<>> /\ t # <<>>
  BY <1>2
<1> HIDE DEF Last
<1> QED
  BY <1>1, <1>2, <1>3 DEF Walked

(* A path without dots is where it leads to, and "../" goes up from it.    *)
LEMMA WalkCopies ==
  ASSUME NEW s \in Seq(Piece), NEW w, IsWalk(w, s), NEW n \in 0..Len(s),
         \A k \in 1..n : s[k] \notin {Up, <<".">>}
  PROVE  w[n] = SubSeq(s, 1, n)
<1> DEFINE G == {k \in 0..n : w[k] = SubSeq(s, 1, k)}
<1>1. Len(s) \in Nat /\ n \in Nat
  OBVIOUS
<1>2. 0 \in G
  <2>1. SubSeq(s, 1, 0) = <<>> /\ 0 \in 0..n
    BY <1>1
  <2> QED
    BY <2>1 DEF IsWalk
<1>3. ASSUME NEW i \in 0..n - 1, i \in G PROVE i + 1 \in G
  <2>1. i \in Nat /\ i \in 0..Len(s) /\ i + 1 \in 0..Len(s) /\ i + 1 \in 1..n /\ i + 1 \in 0..n
    BY <1>1
  <2>2. w[i + 1] = Walk(w[i], s[i + 1])
    BY <2>1 DEF IsWalk
  <2>3. w[i + 1] = Append(SubSeq(s, 1, i), s[i + 1])
    BY <1>3, <2>1, <2>2 DEF Walk
  <2>4. SubSeq(s, 1, i + 1) = Append(SubSeq(s, 1, i), s[i + 1])
    BY <1>1, <2>1
  <2> QED
    BY <2>1, <2>3, <2>4
<1>4. 0..n \subseteq G
  <2> HIDE DEF G
  <2> QED
    BY <1>1, <1>2, <1>3, Upward
<1>5. n \in 0..n
  BY <1>1
<1> QED
  BY <1>4, <1>5

Climb(s, n, m, x, y) ==
  /\ n \in Nat /\ m \in Nat /\ m <= n /\ x = n + m /\ y = n - m
  /\ x <= Len(s)
  /\ \A j \in 1..m : s[n + j] = Up

LEMMA WalkClimbs ==
  ASSUME NEW s \in Seq(Piece), NEW w, IsWalk(w, s), NEW n, NEW m,
         NEW x, NEW y, w[n] = SubSeq(s, 1, n), Climb(s, n, m, x, y)
  PROVE  w[x] = SubSeq(s, 1, y)
<1> DEFINE G == {k \in 0..m : w[n + k] = SubSeq(s, 1, n - k)}
<1>1. Len(s) \in Nat /\ n \in Nat /\ m \in Nat /\ m <= n /\ n + m <= Len(s)
      /\ \A j \in 1..m : s[n + j] = Up
  BY DEF Climb
<1>2. 0 \in G
  <2>1. n + 0 = n /\ n - 0 = n /\ 0 \in 0..m
    BY <1>1
  <2> QED
    BY <2>1
<1>3. ASSUME NEW i \in 0..m - 1, i \in G PROVE i + 1 \in G
  <2>1. /\ n + i \in 0..Len(s) /\ n + (i + 1) \in 0..Len(s) /\ n + (i + 1) = (n + i) + 1
        /\ i + 1 \in 1..m /\ i + 1 \in 0..m /\ n - i \in 1..Len(s) /\ n - (i + 1) = (n - i) - 1
    BY <1>1
  <2>2. w[n + (i + 1)] = Walk(w[n + i], s[n + (i + 1)])
    BY <2>1 DEF IsWalk
  <2>3. s[n + (i + 1)] = Up /\ w[n + i] = SubSeq(s, 1, n - i)
    BY <1>1, <1>3, <2>1
  <2> DEFINE e == n - i
             r == SubSeq(s, 1, e)
  <2>4. r \in Seq(Piece) /\ Len(r) = e
    BY <2>1
  <2>5. r # <<>>
    BY <2>1, <2>4
  <2>6. Up # <<".">>
    BY DEF Up
  <2>7. Walk(r, Up) = Front(r)
    BY <2>5, <2>6 DEF Walk
  <2>8. Front(r) = SubSeq(s, 1, e - 1)
    <3>1. e \in 1..Len(s)
      BY <2>1
    <3> HIDE DEF e
    <3>2. SubSeq(SubSeq(s, 1, e), 1, e - 1) = SubSeq(s, 1, e - 1)
      BY <3>1
    <3> QED
      BY <2>4, <3>2 DEF Front
  <2> QED
    BY <2>1, <2>2, <2>3, <2>7, <2>8
<1>4. 0..m \subseteq G
  <2> HIDE DEF G
  <2> QED
    BY <1>1, <1>2, <1>3, Upward
<1>5. m \in 0..m
  BY <1>1
<1> QED
  BY <1>4, <1>5 DEF Climb

-----------------------------------------------------------------------------
(* A sound link is resolved as a browser would                             *)

IsConcat(c, s, t) ==
  /\ Len(c) = Len(s) + Len(t) /\ Len(s) \in Nat /\ Len(t) \in Nat
  /\ \A j \in 1..Len(s) : c[j] = s[j]
  /\ \A j \in 1..Len(t) : c[Len(s) + j] = t[j]

LEMMA ConcatIs ==
  ASSUME NEW S, NEW s \in Seq(S), NEW t \in Seq(S), NEW c, c = s \o t
  PROVE  c \in Seq(S) /\ IsConcat(c, s, t)
BY DEF IsConcat

LEMMA HostAndPath ==
  ASSUME NEW q \in Seq(Piece), Len(q) = 3, NEW r \in Seq(Piece)
  PROVE  Normal(q \o r) = <<q[1], q[2], Lower(q[3])>> \o Walked(r)
<1> DEFINE u == q \o r
<1>5. /\ u \in Seq(Piece) /\ Len(u) = Len(q) + Len(r) /\ Len(r) \in Nat
      /\ \A j \in 1..Len(q) : u[j] = q[j]
      /\ \A j \in 1..Len(r) : u[Len(q) + j] = r[j]
  <2>1. u = q \o r
    OBVIOUS
  <2> HIDE DEF u
  <2>2. u \in Seq(Piece) /\ IsConcat(u, q, r)
    BY <2>1, ConcatIs
  <2> QED
    BY <2>2 DEF IsConcat
<1> HIDE DEF u
<1>1. u[1] = q[1] /\ u[2] = q[2] /\ u[3] = q[3]
  <2>1. 1 \in 1..3 /\ 2 \in 1..3 /\ 3 \in 1..3
    OBVIOUS
  <2>2. \A j \in 1..3 : u[j] = q[j]
    BY <1>5
  <2> QED
    BY <2>1, <2>2
<1>4. u \in Seq(Piece) /\ Len(r) \in Nat /\ Len(u) = 3 + Len(r)
      /\ \A j \in 1..Len(r) : u[3 + j] = r[j]
  BY <1>5
<1>2. SubSeq(u, 4, Len(u)) = r
  <2> DEFINE v == SubSeq(u, 4, Len(u))
  <2>1. v \in Seq(Piece) /\ Len(v) = Len(r) /\ \A j \in 1..Len(r) : v[j] = u[3 + j]
    BY <1>4
  <2> HIDE DEF v
  <2>2. \A j \in 1..Len(r) : v[j] = r[j]
    BY <1>4, <2>1
  <2>3. v = r
    BY <2>1, <2>2
  <2> QED
    BY <2>3 DEF v
<1>3. Normal(u) = <<q[1], q[2], Lower(q[3])>> \o Walked(r)
  BY <1>1, <1>2 DEF Normal
<1> QED
  BY <1>3 DEF u

UpsInFront(l) == \A k \in 2..Len(l) - 1 : l[k] = Up => l[k - 1] = Up

LEMMA UpsStandInFront ==
  ASSUME NEW l \in Text, StartsUp(l), UpsInFront(l)
  PROVE  \A j \in 1..Ups(l) : l[j] = Up
<1> DEFINE k == Ups(l)
           G == {i \in 0..k - 1 : l[k - i] = Up}
<1>1. k \in 1..Len(l) - 1 /\ l[k] = Up /\ Len(l) \in Nat
  BY UpsFacts, TextFacts
<1> HIDE DEF k
<1>2. 0 \in G
  <2>1. k - 0 = k /\ 0 \in 0..k - 1
    BY <1>1
  <2> QED
    BY <1>1, <2>1
<1>3. ASSUME NEW i \in 0..(k - 1) - 1, i \in G PROVE i + 1 \in G
  <2>1. k - i \in 2..Len(l) - 1 /\ k - (i + 1) = (k - i) - 1 /\ i + 1 \in 0..k - 1
    BY <1>1
  <2>2. l[(k - i) - 1] = Up
    BY <1>3, <2>1 DEF UpsInFront
  <2> QED
    BY <2>1, <2>2
<1>4. 0..k - 1 \subseteq G
  <2>1. k - 1 \in Nat
    BY <1>1
  <2> HIDE DEF G
  <2> QED
    BY <1>2, <1>3, <2>1, Upward
<1>5. ASSUME NEW j \in 1..k PROVE l[j] = Up
  <2>1. k - j \in 0..k - 1 /\ k - (k - j) = j
    BY <1>1
  <2> QED
    BY <1>4, <2>1
<1> QED
  BY <1>5 DEF k

(* The host of a page and the path up to its last "/".                     *)
Origin(u) == SubSeq(u, 1, 3)
Dir(u) == SubSeq(u, 4, Len(u) - 1)

LEMMA HostAndDir ==
  ASSUME NEW u \in PageUrls
  PROVE  /\ u \in Seq(Piece) /\ Len(u) \in Nat /\ Len(u) >= 3
         /\ Origin(u) \in Seq(Piece) /\ Len(Origin(u)) = 3
         /\ Origin(u)[1] = u[1] /\ Origin(u)[2] = u[2] /\ Origin(u)[3] = u[3]
         /\ Dir(u) \in Seq(Piece)
         /\ Len(u) > 3 => Len(Dir(u)) = Len(u) - 4 /\ \A j \in 1..Len(u) - 4 : Dir(u)[j] = u[3 + j]
<1>1. u \in Seq(Piece) /\ Len(u) \in Nat /\ Len(u) >= 3
  BY UrlFacts, TextFacts
<1>2. Origin(u) \in Seq(Piece) /\ Len(Origin(u)) = 3
      /\ Origin(u)[1] = u[1] /\ Origin(u)[2] = u[2] /\ Origin(u)[3] = u[3]
  BY <1>1 DEF Origin
<1>3. Dir(u) \in Seq(Piece)
  BY <1>1 DEF Dir
<1>4. ASSUME Len(u) > 3
      PROVE  Len(Dir(u)) = Len(u) - 4 /\ \A j \in 1..Len(u) - 4 : Dir(u)[j] = u[3 + j]
  <2> DEFINE n == Len(u)
  <2>1. n \in Nat /\ n > 3
    BY <1>1, <1>4
  <2> HIDE DEF n
  <2>2. Len(SubSeq(u, 4, n - 1)) = n - 4
    <3>1. n - 1 \in Int /\ (4 <= n - 1 => (n - 1) - 4 + 1 = n - 4) /\ (~ (4 <= n - 1) => n - 4 = 0)
      BY <2>1
    <3>2. Len(SubSeq(u, 4, n - 1)) = IF 4 <= n - 1 THEN (n - 1) - 4 + 1 ELSE 0
      BY <1>1, <2>1, <3>1 DEF n
    <3> QED
      BY <3>1, <3>2
  <2>3. \A j \in 1..n - 4 : SubSeq(u, 4, n - 1)[j] = u[3 + j]
    <3>1. ASSUME NEW j \in 1..n - 4 PROVE SubSeq(u, 4, n - 1)[j] = u[3 + j]
      <4>1. 4 + j - 1 = 3 + j /\ j \in 1..(n - 1) - 4 + 1
        BY <2>1
      <4>2. SubSeq(u, 4, n - 1)[j] = u[4 + j - 1]
        BY <1>1, <2>1, <4>1 DEF n
      <4> QED
        BY <4>1, <4>2
    <3> QED
      BY <3>1
  <2> QED
    BY <2>2, <2>3 DEF Dir, n
<1> QED
  BY <1>1, <1>2, <1>3, <1>4

LEMMA TargetCases ==
  ASSUME NEW l \in Text, NEW u
  PROVE  /\ IsAbsolute(l) => Target(u, l) = Normal(l)
         /\ StartsTwoSlashes(l) => Target(u, l) = Normal(<<u[1]>> \o Tail(l))
         /\ StartsSlash(l) => Target(u, l) = Normal(Origin(u) \o Tail(l))
         /\ ~ StartsHttp(l) /\ ~ HasScheme(l) /\ ~ StartsTwoSlashes(l) /\ ~ StartsSlash(l) =>
              Target(u, l) = Normal(Origin(u) \o Dir(u) \o l)
BY Branches DEF Target, Origin, Dir

(* From the top of the site.                                               *)
LEMMA SlashIsSound ==
  ASSUME NEW u \in PageUrls, NEW l \in Text, StartsSlash(l), Host(u[3]) = u[3]
  PROVE  Normal(Resolved(u, l)) = Target(u, l)
<1> DEFINE low == Lower(u[3])
           q == <<u[1], <<>>, low>>
           r == Tail(l)
<1>1. u[1] \in Piece /\ <<>> \in Piece /\ u[3] \in Piece /\ u[2] = <<>>
  <2>1. u[1] \in Piece /\ u[3] \in Piece /\ u[2] = <<>>
    BY HostAndDir, UrlFacts
  <2> QED
    BY <2>1 DEF Piece
<1>2. low \in Piece /\ Lower(low) = low
  BY <1>1, LowerType DEF Piece
<1>3. r \in Seq(Piece)
  BY TextFacts
<1>4. Resolved(u, l) = q \o r /\ Target(u, l) = Normal(Origin(u) \o r)
  BY ResolvedCases, TargetCases
<1>5. Normal(Origin(u) \o r) = <<u[1], u[2], low>> \o Walked(r)
  <2>1. Origin(u) \in Seq(Piece) /\ Len(Origin(u)) = 3
        /\ Origin(u)[1] = u[1] /\ Origin(u)[2] = u[2] /\ Origin(u)[3] = u[3]
    BY HostAndDir
  <2> QED
    BY <1>3, <2>1, HostAndPath
<1> HIDE DEF low, r
<1>6. q \in Seq(Piece) /\ Len(q) = 3 /\ q[1] = u[1] /\ q[2] = <<>> /\ q[3] = low
  <2> DEFINE x == u[1]
             y == <<>>
  <2>1. x \in Piece /\ y \in Piece
    BY <1>1
  <2> HIDE DEF x, y
  <2>2. /\ <<x, y, low>> \in Seq(Piece) /\ Len(<<x, y, low>>) = 3
        /\ <<x, y, low>>[1] = x /\ <<x, y, low>>[2] = y /\ <<x, y, low>>[3] = low
    BY <1>2, <2>1
  <2> QED
    BY <2>2 DEF x, y
<1> HIDE DEF q
<1>7. Normal(q \o r) = <<u[1], <<>>, Lower(low)>> \o Walked(r)
  BY <1>3, <1>6, HostAndPath
<1> QED
  BY <1>1, <1>2, <1>4, <1>5, <1>7

LEMMA SameSeq ==
  ASSUME NEW S, NEW s \in Seq(S), NEW t \in Seq(S), Len(s) = Len(t),
         \A j \in 1..Len(s) : s[j] = t[j]
  PROVE  s = t
OBVIOUS

(* c is the n pieces of s after its first a.                               *)
IsPart(c, s, a, n) ==
  /\ Len(c) = n
  /\ \A j \in 1..n : c[j] = s[a + j]

LEMMA PartIs ==
  ASSUME NEW S, NEW s \in Seq(S), NEW a \in Nat, NEW n \in Nat, a + n <= Len(s),
         NEW i, i = a + 1, NEW e, e = a + n, NEW c, c = SubSeq(s, i, e)
  PROVE  c \in Seq(S) /\ IsPart(c, s, a, n)
<1>1. c \in Seq(S)
  BY Len(s) \in Nat
<1>2. Len(c) = n
  <2>1. i \in Int /\ e \in Int /\ (i <= e => e - i + 1 = n) /\ (~ (i <= e) => n = 0)
    OBVIOUS
  <2>2. Len(c) = IF i <= e THEN e - i + 1 ELSE 0
    BY <2>1
  <2> QED
    BY <2>1, <2>2
<1>3. ASSUME NEW j \in 1..n PROVE c[j] = s[a + j]
  <2>1. j \in 1..e - i + 1 /\ i + j - 1 = a + j /\ i \in Int /\ e \in Int
    OBVIOUS
  <2>2. SubSeq(s, i, e)[j] = s[i + j - 1]
    BY <2>1
  <2> QED
    BY <2>1, <2>2
<1> QED
  BY <1>1, <1>2, <1>3 DEF IsPart

LEMMA HostFirst ==
  ASSUME NEW u \in PageUrls, NEW b \in 3..Len(u)
  PROVE  /\ SubSeq(u, 4, b) \in Seq(Piece)
         /\ SubSeq(u, 1, b) = Origin(u) \o SubSeq(u, 4, b)
<1> DEFINE p == SubSeq(u, 4, b)
           q == SubSeq(u, 1, b)
           c == Origin(u) \o p
           h == Origin(u)
<1>1. u \in Seq(Piece) /\ Len(u) \in Nat /\ Len(u) >= 3 /\ h \in Seq(Piece)
  BY HostAndDir
<1>2. /\ 3 \in Nat /\ b - 3 \in Nat /\ 3 + (b - 3) <= Len(u) /\ 4 = 3 + 1 /\ b = 3 + (b - 3)
      /\ 0 \in Nat /\ b \in Nat /\ 0 + b <= Len(u) /\ 1 = 0 + 1 /\ b = 0 + b /\ 0 + 3 <= Len(u) /\ 3 = 0 + 3
  BY <1>1
<1>3. h = SubSeq(u, 1, 3)
  BY DEF Origin
<1>4. p = SubSeq(u, 4, b) /\ q = SubSeq(u, 1, b) /\ c = h \o p
  OBVIOUS
<1> HIDE DEF p, q, c, h
<1>5. p \in Seq(Piece) /\ IsPart(p, u, 3, b - 3)
  BY <1>1, <1>2, <1>4, PartIs
<1>6. q \in Seq(Piece) /\ IsPart(q, u, 0, b)
  BY <1>1, <1>2, <1>4, PartIs
<1>7. IsPart(h, u, 0, 3)
  BY <1>1, <1>2, <1>3, PartIs
<1>8. c \in Seq(Piece) /\ IsConcat(c, h, p)
  BY <1>1, <1>4, <1>5, ConcatIs
<1>9. Len(c) = Len(q)
  BY <1>2, <1>5, <1>6, <1>7, <1>8 DEF IsPart, IsConcat
<1>10. ASSUME NEW j \in 1..Len(q) PROVE q[j] = c[j]
  <2>1. j \in 1..b /\ q[j] = u[j]
    BY <1>2, <1>6 DEF IsPart
  <2>2. CASE j \in 1..3
    <3>1. h[j] = u[j] /\ c[j] = h[j]
      BY <2>2, <1>7, <1>8 DEF IsPart, IsConcat
    <3> QED
      BY <2>1, <3>1
  <2>3. CASE j \notin 1..3
    <3>1. j - 3 \in 1..b - 3 /\ 3 + (j - 3) = j /\ Len(p) = b - 3 /\ Len(h) = 3
      BY <2>1, <2>3, <1>2, <1>5, <1>7 DEF IsPart
    <3>2. p[j - 3] = u[3 + (j - 3)]
      BY <1>5, <3>1 DEF IsPart
    <3>3. c[3 + (j - 3)] = p[j - 3]
      BY <1>8, <3>1 DEF IsConcat
    <3> QED
      BY <2>1, <3>1, <3>2, <3>3
  <2> QED
    BY <2>2, <2>3
<1>11. q = c
  BY <1>6, <1>8, <1>9, <1>10, SameSeq
<1> QED
  BY <1>5, <1>11 DEF p, q, c, h

LEMMA FrontIsDir ==
  ASSUME NEW u \in PageUrls, Len(u) > 3
  PROVE  SubSeq(u, 1, Len(u) - 1) = Origin(u) \o Dir(u)
<1>1. Len(u) - 1 \in 3..Len(u)
  BY HostAndDir
<1> QED
  BY <1>1, HostFirst DEF Dir

(* The two paths from the same host.                                       *)
LEMMA FromHost ==
  ASSUME NEW u \in PageUrls, NEW l \in Text, NEW s \in Seq(Piece),
         ~ StartsHttp(l), ~ HasScheme(l), ~ StartsTwoSlashes(l), ~ StartsSlash(l),
         Resolved(u, l) = Origin(u) \o s,
         Walked(s) = Walked(Dir(u) \o l)
  PROVE  Normal(Resolved(u, l)) = Target(u, l)
<1> DEFINE t == Dir(u) \o l
<1>1. /\ Origin(u) \in Seq(Piece) /\ Len(Origin(u)) = 3 /\ Dir(u) \in Seq(Piece)
      /\ l \in Seq(Piece)
  BY HostAndDir, TextFacts
<1>2. t \in Seq(Piece)
  BY <1>1
<1>3. (Origin(u) \o Dir(u)) \o l = Origin(u) \o t
  <2> DEFINE a == Origin(u)
             d == Dir(u)
  <2>1. a \in Seq(Piece) /\ d \in Seq(Piece) /\ l \in Seq(Piece)
    BY <1>1
  <2> HIDE DEF a, d
  <2>2. (a \o d) \o l = a \o (d \o l)
    BY ONLY <2>1
  <2> QED
    BY <2>2 DEF a, d
<1>4. Target(u, l) = Normal((Origin(u) \o Dir(u)) \o l)
  BY TargetCases
<1>5. Target(u, l) = Normal(Origin(u) \o t)
  BY <1>3, <1>4
<1> HIDE DEF t
<1>6. Normal(Origin(u) \o s) = Normal(Origin(u) \o t)
  <2> DEFINE a == <<Origin(u)[1], Origin(u)[2], Lower(Origin(u)[3])>>
  <2>1. Normal(Origin(u) \o s) = a \o Walked(s)
    BY <1>1, HostAndPath
  <2>2. Normal(Origin(u) \o t) = a \o Walked(t)
    BY <1>1, <1>2, HostAndPath
  <2>3. Walked(s) = Walked(t)
    BY DEF t
  <2> QED
    BY <2>1, <2>2, <2>3
<1> QED
  BY <1>5, <1>6

(* A name or a path, glued to a directory.                                 *)
LEMMA NameIsSound ==
  ASSUME NEW u \in PageUrls, NEW l \in Text, Len(u) > 3, Last(u) = <<>>,
         ~ StartsHttp(l), ~ HasScheme(l), ~ StartsTwoSlashes(l), ~ StartsSlash(l),
         Resolved(u, l) = Glued(u, l)
  PROVE  Normal(Resolved(u, l)) = Target(u, l)
<1>1. /\ l \in Seq(Piece) /\ Len(l) \in Nat /\ Len(l) >= 1 /\ l[1] \in Seq(Name)
      /\ Tail(l) \in Seq(Piece)
  BY TextFacts
<1>2. /\ Origin(u) \in Seq(Piece) /\ Dir(u) \in Seq(Piece) /\ u \in Seq(Piece) /\ Len(u) \in Nat
  BY HostAndDir
<1>3. Last(u) \o Head(l) = l[1]
  <2>1. Head(l) = l[1]
    BY <1>1
  <2>2. <<>> \o l[1] = l[1]
    BY <1>1
  <2> QED
    BY <2>1, <2>2
<1>4. <<l[1]>> \o Tail(l) = l
  <2> DEFINE x == l[1]
  <2>1. x \in Piece
    BY <1>1
  <2> QED
    BY <1>1, <2>1
<1>5. Front(u) = Origin(u) \o Dir(u)
  BY FrontIsDir DEF Front
<1> DEFINE d == Dir(u)
           f == Origin(u) \o d
           x == <<l[1]>>
           r == Tail(l)
<1>6. x \in Seq(Piece) /\ f \in Seq(Piece) /\ d \in Seq(Piece)
  <2>1. l[1] \in Piece
    BY <1>1
  <2> QED
    BY <1>2, <2>1
<1>7. Glued(u, l) = (f \o x) \o r
  BY <1>3, <1>5 DEF Glued
<1>8. (f \o x) \o r = f \o (x \o r)
  <2>1. r \in Seq(Piece)
    BY <1>1
  <2> HIDE DEF f, x, r
  <2> QED
    BY <1>6, <2>1
<1>9. f \o l = Origin(u) \o (d \o l)
  <2>1. Origin(u) \in Seq(Piece) /\ d \in Seq(Piece) /\ l \in Seq(Piece)
    BY <1>1, <1>2
  <2> HIDE DEF d
  <2> QED
    BY <2>1
<1>10. Resolved(u, l) = Origin(u) \o (d \o l)
  BY <1>4, <1>7, <1>8, <1>9
<1>11. d \o l \in Seq(Piece)
  BY <1>1, <1>6
<1> QED
  BY <1>10, <1>11, FromHost

(* "./" on a directory.                                                    *)
LEMMA HereIsSound ==
  ASSUME NEW u \in PageUrls, NEW l \in Text, Len(u) > 3, Last(u) = <<>>, IsHere(l)
  PROVE  Normal(Resolved(u, l)) = Target(u, l)
<1> DEFINE d == Dir(u)
           n == Len(d)
           x == <<<<>>>>
           s == d \o x
           t == d \o l
<1>1. /\ Origin(u) \in Seq(Piece) /\ d \in Seq(Piece) /\ n \in Nat
  BY HostAndDir
<1>2. /\ <<>> \in Piece /\ x \in Seq(Piece) /\ Len(x) = 1 /\ x[1] = <<>>
  <2>1. <<>> \in Piece
    BY DEF Piece
  <2> QED
    BY <2>1
<1>3. l \in Seq(Piece) /\ Len(l) = 2 /\ l[1] = <<".">> /\ l[2] = <<>> /\ Tail(l) = x
  <2>1. l \in Seq(Piece)
    BY TextFacts
  <2> QED
    BY <2>1 DEF IsHere
<1>4. Resolved(u, l) = (Origin(u) \o d) \o x
  <2>1. Cut(u, 1) = Origin(u) \o d
    BY FrontIsDir DEF Cut
  <2> QED
    BY <1>3, <2>1, ResolvedCases
<1> HIDE DEF d, x
<1>5. (Origin(u) \o d) \o x = Origin(u) \o s
  BY <1>1, <1>2
<1>6. s = d \o x /\ t = d \o l
  OBVIOUS
<1> HIDE DEF s, t
<1>7. s \in Seq(Piece) /\ IsConcat(s, d, x) /\ t \in Seq(Piece) /\ IsConcat(t, d, l)
  BY <1>1, <1>2, <1>3, <1>6, ConcatIs
<1>8. /\ Len(s) = n + 1 /\ Len(t) = n + 2
      /\ \A j \in 1..n : s[j] = t[j]
      /\ s[n + 1] = <<>> /\ t[n + 1] = <<".">> /\ t[n + 2] = <<>>
  <2>1. 1 \in 1..1 /\ 1 \in 1..2 /\ 2 \in 1..2
    OBVIOUS
  <2> QED
    BY <1>2, <1>3, <1>7, <2>1 DEF IsConcat
<1> HIDE DEF n
<1>9. PICK v : IsWalk(v, s) /\ FoldLeft(Walk, <<>>, s) = v[Len(s)]
  BY <1>7, WalkSteps
<1>10. PICK w : IsWalk(w, t) /\ FoldLeft(Walk, <<>>, t) = w[Len(t)]
  BY <1>7, WalkSteps
<1>11. v[n] = w[n]
  <2>1. Alike(s, 0, n, t, 0, n)
    <3>1. n - 0 = n /\ \A j \in 1..n : 0 + j = j
      BY <1>1
    <3> QED
      BY <1>1, <1>8, <3>1 DEF Alike
  <2>2. v[0] = w[0]
    BY <1>1, <1>9, <1>10 DEF IsWalk
  <2> QED
    BY <1>7, <1>9, <1>10, <2>1, <2>2, WalkAlike
<1>12. w[n + 1] = w[n]
  <2>1. n \in 0..Len(t) /\ n + 1 \in 0..Len(t)
    BY <1>1, <1>8
  <2>2. w[n + 1] = Walk(w[n], t[n + 1])
    BY <1>10, <2>1 DEF IsWalk
  <2> QED
    BY <1>8, <2>2 DEF Walk
<1>13. Alike(s, n, Len(s), t, n + 1, Len(t)) /\ n # Len(s)
  <2>1. /\ n + 1 \in Nat /\ n + 2 \in Nat /\ (n + 2) - (n + 1) = 1 /\ (n + 1) - n = 1
        /\ n <= n + 1 /\ n + 1 <= n + 1 /\ n + 2 <= n + 2 /\ n # n + 1
    BY <1>1
  <2>2. \A j \in 1..1 : s[n + j] = t[(n + 1) + j]
    <3>1. (n + 1) + 1 = n + 2 /\ \A j \in 1..1 : j = 1
      BY <1>1
    <3> QED
      BY <1>8, <3>1
  <2> QED
    BY <1>1, <1>8, <2>1, <2>2 DEF Alike
<1>14. Walked(s) = Walked(t)
  BY <1>7, <1>9, <1>10, <1>11, <1>12, <1>13, WalkedAlike
<1>15. ~ StartsHttp(l) /\ ~ HasScheme(l) /\ ~ StartsTwoSlashes(l) /\ ~ StartsSlash(l)
  BY Branches
<1> QED
  BY <1>4, <1>5, <1>6, <1>7, <1>14, <1>15, FromHost DEF d

(* "../" at most once per level of a path without dots.                    *)
LEMMA UpIsSound ==
  ASSUME NEW u \in PageUrls, NEW l \in Text, StartsUp(l), UpsInFront(l),
         Ups(l) + 4 <= Len(u), \A k \in 4..Len(u) : u[k] \notin {Up, <<".">>}
  PROVE  Normal(Resolved(u, l)) = Target(u, l)
<1> DEFINE k == Ups(l)
           b == Len(u) - (k + 1)
           d == Dir(u)
           n == Len(d)
           c == SubSeq(u, 4, b)
           m == Len(l) - k
           r == SubSeq(l, k + 1, Len(l))
           s == c \o r
           t == d \o l
<1>1. k \in 1..Len(l) - 1 /\ l \in Seq(Piece) /\ Len(l) \in Nat /\ \A j \in 1..k : l[j] = Up
  BY UpsFacts, TextFacts, UpsStandInFront
<1>2. u \in Seq(Piece) /\ Len(u) \in Nat /\ Origin(u) \in Seq(Piece) /\ d \in Seq(Piece) /\ n \in Nat
  BY HostAndDir
<1>26. k + 4 <= Len(u)
  OBVIOUS
<1>3. Resolved(u, l) = SubSeq(u, 1, b) \o r
  BY ResolvedCases DEF Climbed, Cut, AfterUps
<1> HIDE DEF k
<1>4. Len(u) > 3
  BY <1>1, <1>2, <1>26
<1>5. n = Len(u) - 4 /\ \A j \in 1..n : d[j] = u[3 + j]
  BY <1>4, HostAndDir
<1> HIDE DEF d, n
<1>6. b \in 3..Len(u) /\ n - k \in Nat /\ n - k <= n /\ b = 3 + (n - k) /\ 3 + (n - k) <= Len(u)
      /\ m \in Nat /\ m # 0 /\ k \in Nat /\ k + m = Len(l) /\ k + 1 \in Nat /\ k \in 0..n
  BY <1>1, <1>2, <1>26, <1>5
<1>7. c \in Seq(Piece) /\ SubSeq(u, 1, b) = Origin(u) \o c
  BY <1>6, HostFirst
<1>8. c = SubSeq(u, 4, b) /\ r = SubSeq(l, k + 1, Len(l)) /\ s = c \o r /\ t = d \o l
  OBVIOUS
<1> HIDE DEF b, m, c, r
<1>9. IsPart(c, u, 3, n - k)
  <2>1. 3 \in Nat /\ 4 = 3 + 1
    OBVIOUS
  <2> QED
    BY <1>2, <1>6, <1>8, <2>1, PartIs
<1>10. r \in Seq(Piece) /\ IsPart(r, l, k, m)
  <2>1. Len(l) = k + m /\ k + m <= Len(l)
    BY <1>1, <1>6
  <2> QED
    BY <1>1, <1>6, <1>8, <2>1, PartIs
<1>11. (Origin(u) \o c) \o r = Origin(u) \o s
  BY <1>2, <1>7, <1>10
<1> HIDE DEF s, t
<1>12. s \in Seq(Piece) /\ IsConcat(s, c, r) /\ t \in Seq(Piece) /\ IsConcat(t, d, l)
  BY <1>1, <1>2, <1>7, <1>8, <1>10, ConcatIs
<1>13. /\ Len(c) = n - k /\ Len(r) = m /\ Len(s) = (n - k) + m /\ Len(t) = n + Len(l)
       /\ n + k <= Len(t) /\ (n + k) + m = Len(t)
  <2>1. Len(c) = n - k /\ Len(r) = m /\ Len(s) = Len(c) + Len(r)
    BY <1>9, <1>10, <1>12 DEF IsPart, IsConcat
  <2>2. Len(t) = n + Len(l)
    BY <1>12 DEF IsConcat, n
  <2>3. n \in Nat /\ Len(l) = k + m
    BY <1>2, <1>6
  <2> QED
    BY <1>6, <2>1, <2>2, <2>3
<1>14. \A j \in 1..n - k : s[j] = u[3 + j] /\ t[j] = u[3 + j]
  <2> TAKE j \in 1..n - k
  <2>1. c[j] = u[3 + j] /\ s[j] = c[j]
    BY <1>9, <1>12, <1>13 DEF IsPart, IsConcat
  <2>2. j \in 1..n
    BY <1>2, <1>6
  <2>3. t[j] = d[j]
    BY <1>12, <2>2 DEF IsConcat, n
  <2> QED
    BY <1>5, <2>1, <2>2, <2>3
<1>15. \A j \in 1..n : t[j] = u[3 + j] /\ t[j] \notin {Up, <<".">>}
  <2> TAKE j \in 1..n
  <2>1. t[j] = d[j]
    BY <1>12 DEF IsConcat, n
  <2>2. 3 + j \in 4..Len(u)
    BY <1>2, <1>5
  <2> QED
    BY <1>5, <2>1, <2>2
<1>16. \A j \in 1..n - k : s[j] \notin {Up, <<".">>}
  <2> TAKE j \in 1..n - k
  <2>1. 3 + j \in 4..Len(u)
    BY <1>2, <1>5, <1>6
  <2> QED
    BY <1>14, <2>1
<1>17. PICK v : IsWalk(v, s) /\ FoldLeft(Walk, <<>>, s) = v[Len(s)]
  BY <1>12, WalkSteps
<1>18. PICK w : IsWalk(w, t) /\ FoldLeft(Walk, <<>>, t) = w[Len(t)]
  BY <1>12, WalkSteps
<1>19. v[n - k] = SubSeq(s, 1, n - k)
  <2>1. n - k \in 0..Len(s)
    BY <1>6, <1>13
  <2> QED
    BY <1>12, <1>16, <1>17, <2>1, WalkCopies
<1>20. w[n] = SubSeq(t, 1, n)
  <2>1. n \in 0..Len(t)
    BY <1>1, <1>2, <1>13
  <2> QED
    BY <1>12, <1>15, <1>18, <2>1, WalkCopies
<1>21. w[n + k] = SubSeq(t, 1, n - k)
  <2>1. ASSUME NEW j \in 1..k PROVE t[n + j] = Up
    <3>1. j \in 1..Len(l) /\ l[j] = Up
      BY <1>1
    <3> QED
      BY <1>12, <3>1 DEF IsConcat, n
  <2>2. Climb(t, n, k, n + k, n - k)
    BY <1>2, <1>6, <1>13, <2>1 DEF Climb
  <2> QED
    BY <1>12, <1>18, <1>20, <2>2, WalkClimbs
<1>22. SubSeq(s, 1, n - k) = SubSeq(t, 1, n - k)
  <2> DEFINE e == n - k
             x == SubSeq(s, 1, e)
             y == SubSeq(t, 1, e)
  <2>1. /\ 0 \in Nat /\ e \in Nat /\ 0 + e = e /\ 0 + 1 = 1
        /\ 0 + e <= Len(s) /\ 0 + e <= Len(t) /\ x = SubSeq(s, 1, e) /\ y = SubSeq(t, 1, e)
        /\ \A j \in 1..e : 0 + j = j /\ s[j] = t[j]
    BY <1>1, <1>2, <1>6, <1>13, <1>14
  <2> HIDE DEF e, x, y
  <2>2. x \in Seq(Piece) /\ IsPart(x, s, 0, e)
    BY <1>12, <2>1, PartIs
  <2>3. y \in Seq(Piece) /\ IsPart(y, t, 0, e)
    BY <1>12, <2>1, PartIs
  <2>4. Len(x) = Len(y) /\ \A j \in 1..Len(x) : x[j] = y[j]
    BY <2>1, <2>2, <2>3 DEF IsPart
  <2>5. x = y
    BY <2>2, <2>3, <2>4, SameSeq
  <2> QED
    BY <2>5 DEF x, y, e
<1>23. Alike(s, n - k, Len(s), t, n + k, Len(t)) /\ n - k # Len(s)
  <2>1. ASSUME NEW j \in 1..m PROVE s[(n - k) + j] = t[(n + k) + j]
    <3>1. k + j \in 1..Len(l) /\ n + (k + j) = (n + k) + j
      BY <1>2, <1>6
    <3>2. r[j] = l[k + j]
      BY <1>10 DEF IsPart
    <3>3. s[(n - k) + j] = r[j]
      BY <1>12, <1>13 DEF IsConcat
    <3>4. t[n + (k + j)] = l[k + j]
      BY <1>12, <3>1 DEF IsConcat, n
    <3> QED
      BY <3>1, <3>2, <3>3, <3>4
  <2>3. /\ Len(s) = (n - k) + m /\ Len(t) = (n + k) + m
        /\ n \in Nat /\ k \in Nat /\ n - k \in Nat /\ m \in Nat /\ m # 0
    BY <1>2, <1>6, <1>13
  <2>2. /\ n - k \in Nat /\ n + k \in Nat /\ Len(s) \in Nat /\ Len(t) \in Nat
        /\ Len(s) - (n - k) = m /\ Len(t) - (n + k) = m /\ m \in Nat /\ m # 0
        /\ n - k <= Len(s) /\ Len(s) <= Len(s) /\ Len(t) <= Len(t) /\ n - k # Len(s)
    BY <2>3
  <2> QED
    BY <2>1, <2>2 DEF Alike
<1>24. Walked(s) = Walked(t)
  <2>1. v[n - k] = w[n + k]
    BY <1>19, <1>21, <1>22
  <2> QED
    BY <1>12, <1>17, <1>18, <1>23, <2>1, WalkedAlike
<1>25. ~ StartsHttp(l) /\ ~ HasScheme(l) /\ ~ StartsTwoSlashes(l) /\ ~ StartsSlash(l)
  BY Branches
<1>27. Resolved(u, l) = Origin(u) \o s
  BY <1>3, <1>7, <1>11
<1>28. t = Dir(u) \o l
  BY <1>8 DEF d
<1>29. s \in Seq(Piece) /\ Walked(s) = Walked(Dir(u) \o l)
  BY <1>12, <1>24, <1>28
<1> QED
  BY ONLY u \in PageUrls, l \in Text, <1>25, <1>27, <1>29, FromHost, Zenon

(* Every sound link that does not throw leads where a browser would go.    *)
LEMMA SoundIsResolved ==
  ASSUME NEW u \in PageUrls, NEW l \in Text, UpsInFront(l), Sound(u, l)
  PROVE  Normal(Resolved(u, l)) = Target(u, l)
<1>1. CASE IsAbsolute(l)
  <2>1. StartsHttp(l)
    BY <1>1, Branches
  <2>2. Resolved(u, l) = l
    BY <2>1, ResolvedCases
  <2>3. Target(u, l) = Normal(l)
    BY <1>1, TargetCases
  <2> QED
    BY <2>2, <2>3
<1>2. CASE StartsTwoSlashes(l)
  <2>1. Resolved(u, l) = <<u[1]>> \o Tail(l)
    BY <1>2, ResolvedCases
  <2>2. Target(u, l) = Normal(<<u[1]>> \o Tail(l))
    BY <1>2, TargetCases
  <2> QED
    BY <2>1, <2>2
<1>3. CASE StartsSlash(l) /\ Host(u[3]) = u[3]
  BY <1>3, SlashIsSound
<1>4. CASE StartsUp(l) /\ Ups(l) + 4 <= Len(u) /\ \A k \in 4..Len(u) : u[k] \notin {Up, <<".">>}
  BY <1>4, UpIsSound
<1>5. CASE /\ ~ StartsUp(l) /\ ~ StartsSlash(l) /\ ~ StartsHttp(l) /\ ~ HasScheme(l)
           /\ Len(u) > 3 /\ Last(u) = <<>>
  <2>1. CASE IsHere(l)
    BY <1>5, <2>1, HereIsSound
  <2>2. CASE ~ IsHere(l) /\ ~ StartsTwoSlashes(l)
    BY <1>5, <2>2, ResolvedCases, NameIsSound
  <2> QED
    BY <1>2, <2>1, <2>2
<1> QED
  BY <1>1, <1>2, <1>3, <1>4, <1>5 DEF Sound

(* Whatever the page and its links: once a page's links are submitted, each
   sound one is submitted at its place, and as the URL a browser would go
   to (lines 112-158).                                                     *)
THEOREM SoundLinksLeadThere == Spec => []SoundLinksLead
<1>1. Init => ContentTypeOK /\ TextInv /\ LinksInv
  BY ContentInit, LinksInit
<1>2. ContentTypeOK /\ TextInv /\ LinksInv /\ [Next]_vars => (ContentTypeOK /\ TextInv /\ LinksInv)'
  BY ContentStep, LinksStep
<1>3. ContentTypeOK /\ TextInv /\ LinksInv => SoundLinksLead
  <2> SUFFICES ASSUME ContentTypeOK, LinksInv, submitted # <<>>,
                      NEW i \in Given, Sound(url, html[i].href)
               PROVE  Normal(submitted[Rank(i)]) = Target(url, html[i].href)
    BY DEF SoundLinksLead
  <2> DEFINE l == html[i].href
  <2>1. url \in PageUrls /\ html \in Htmls /\ next \in 1..Len(html) + 1
    BY DEF ContentTypeOK
  <2>2. Submitted
    <3>1. pc \in {"links", "clean", "count", "store", "done", "caught"}
      BY DEF ContentTypeOK
    <3> QED
      BY <3>1 DEF LinksInv
  <2>3. i \in Reached
    BY <2>1, <2>2, RankFacts DEF Submitted
  <2>4. submitted[Rank(i)] = Resolved(url, l)
    BY <2>2, <2>3 DEF Submitted, LinksInv, LinksResolved
  <2>5. l \in Text /\ UpsInFront(l)
    <3>1. i \in DOMAIN html /\ html[i].kind \in WithHref /\ l \in Text
      BY <2>1, PageFacts
    <3> QED
      BY <2>1, <3>1, ContentConstants DEF UpsInFront
  <2> HIDE DEF l
  <2>6. Sound(url, l)
    BY DEF l
  <2>7. Normal(Resolved(url, l)) = Target(url, l)
    BY <2>1, <2>5, <2>6, SoundIsResolved
  <2> QED
    BY <2>4, <2>7 DEF l
<1> QED
  BY <1>1, <1>2, <1>3, PTL DEF Spec
=============================================================================
