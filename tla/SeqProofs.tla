---------------------------- MODULE SeqProofs ------------------------------
(***************************************************************************)
(* What the proofs about the components share: induction, loops, division, *)
(* and what Without and Flatten compute, for every sequence.  Induction is *)
(* stated about sets of numbers: it follows from the well-foundedness of   *)
(* the natural numbers.                                                    *)
(***************************************************************************)
EXTENDS SeqParts, WellFoundedInduction, TLAPS

\* The positions of a sequence are numbers and what it holds comes from its set.
LEMMA SeqElements ==
  ASSUME NEW S, NEW t \in Seq(S)
  PROVE  Len(t) \in Nat /\ DOMAIN t = 1..Len(t) /\ \A i \in 1..Len(t) : t[i] \in S
OBVIOUS

\* A set of numbers that is not empty has a least element.
LEMMA Least ==
  ASSUME NEW T \in SUBSET Nat, T # {}
  PROVE  \E x \in T : \A y \in T : x <= y
<1>1. PICK x \in T : \A y \in T : ~(<<y, x>> \in OpToRel(<, Nat))
  BY NatLessThanWellFounded, WFMin, Zenon
<1>2. \A y \in T : ~(y < x) BY <1>1 DEF OpToRel
<1>3. QED BY <1>2

\* A bounded set of numbers that is not empty has a greatest element.
LEMMA Greatest ==
  ASSUME NEW n \in Nat, NEW T \in SUBSET (0..n), T # {}
  PROVE  \E x \in T : \A y \in T : y <= x
<1> DEFINE D == {n - x : x \in T}
<1>1. D \in SUBSET Nat /\ D # {}
  <2>1. \A x \in T : n - x \in Nat OBVIOUS
  <2>2. PICK x \in T : TRUE OBVIOUS
  <2>3. n - x \in D OBVIOUS
  <2>4. QED BY <2>1, <2>3
<1>2. PICK d \in D : \A y \in D : d <= y BY <1>1, Least
<1>3. PICK x \in T : d = n - x BY <1>2
<1>4. \A y \in T : n - x <= n - y BY <1>2, <1>3
<1>5. QED BY <1>3, <1>4

\* Induction: a set that holds 0 and, with each number, the next one.
LEMMA SetInduction ==
  ASSUME NEW T, 0 \in T, \A i \in Nat : i \in T => i + 1 \in T
  PROVE  Nat \subseteq T
<1>1. SUFFICES ASSUME NEW k \in Nat \ T PROVE FALSE OBVIOUS
<1>2. PICK x \in Nat \ T : \A y \in Nat \ T : x <= y BY Least
<1>3. x # 0 /\ x - 1 \in Nat BY <1>2
<1>4. x - 1 \in T BY <1>2, <1>3
<1>5. x - 1 + 1 \in T BY <1>3, <1>4
<1>6. QED BY <1>2, <1>3, <1>5

\* The values of f come from base by the steps of g.
Follows(f, base, n, g) == f[0] = base /\ \A i \in 1..n : f[i] = g[i][f[i - 1]]

\* Recursion: a step from each value to the next defines a function.
LEMMA Recursion ==
  ASSUME NEW S, NEW base \in S, NEW n \in Nat, NEW g \in [1..n -> [S -> S]]
  PROVE  \E f \in [0..n -> S] : Follows(f, base, n, g)
<1> DEFINE Upto(m) == \E f \in [0..m -> S] : f[0] = base /\ \A i \in 1..m : f[i] = g[i][f[i - 1]]
           T == {m \in Nat : m <= n => Upto(m)}
<1>1. 0 \in T
  <2> DEFINE h == [i \in 0..0 |-> base]
  <2>1. h \in [0..0 -> S] /\ h[0] = base OBVIOUS
  <2>2. \A i \in 1..0 : h[i] = g[i][h[i - 1]] OBVIOUS
  <2>3. HIDE DEF h
  <2>4. Upto(0) BY <2>1, <2>2, Zenon
  <2>5. QED BY <2>4
<1>2. ASSUME NEW m \in Nat, m \in T PROVE m + 1 \in T
  <2>1. SUFFICES ASSUME m + 1 <= n PROVE Upto(m + 1) OBVIOUS
  <2>2. PICK f \in [0..m -> S] : f[0] = base /\ \A i \in 1..m : f[i] = g[i][f[i - 1]]
    BY <1>2, <2>1
  <2> DEFINE v == g[m + 1][f[m]]
             h == [i \in 0..(m + 1) |-> IF i <= m THEN f[i] ELSE v]
  <2>3. v \in S BY <2>1, <2>2
  <2>4. HIDE DEF v
  <2>5. h \in [0..(m + 1) -> S] BY <2>2, <2>3
  <2>6. h[0] = base /\ h[m + 1] = v /\ \A i \in 0..m : h[i] = f[i] BY <2>2
  <2>7. ASSUME NEW i \in 1..(m + 1) PROVE h[i] = g[i][h[i - 1]]
    <3>1. CASE i <= m
      <4>1. i \in 1..m /\ i \in 0..m /\ i - 1 \in 0..m BY <3>1
      <4>2. QED BY <4>1, <2>2, <2>6
    <3>2. CASE i = m + 1
      <4>1. i - 1 = m /\ m \in 0..m BY <3>2
      <4>2. h[i - 1] = f[m] BY <4>1, <2>6
      <4>3. QED BY <4>2, <3>2, <2>6 DEF v
    <3>3. QED BY <3>1, <3>2
  <2>8. HIDE DEF h
  <2>9. QED BY <2>5, <2>6, <2>7
<1>3. HIDE DEF T
<1>4. Nat \subseteq T BY <1>1, <1>2, SetInduction
<1>5. n \in T BY <1>4
<1>6. QED BY <1>5 DEF T, Follows

\* f holds what the steps of g make of base, and nothing else.
Turns(f, base, n, g) ==
  f = [i \in 0..n |-> f[i]] /\ f[0] = base /\ \A i \in 1..n : f[i] = g[i][f[i - 1]]

\* Recursion, when the values the loop may have after i turns are the ones
\* of V[i].
LEMMA LoopRuns ==
  ASSUME NEW n \in Nat, NEW V, NEW base \in V[0], NEW g,
         \A i \in 1..n : \A x \in V[i - 1] : g[i][x] \in V[i]
  PROVE  \E f : Turns(f, base, n, g) /\ \A i \in 0..n : f[i] \in V[i]
<1> DEFINE S == UNION {V[i] : i \in 0..n}
           h == [i \in 1..n |-> [x \in S |-> IF x \in V[i - 1] THEN g[i][x] ELSE base]]
<1>1. \A i \in 0..n : V[i] \subseteq S OBVIOUS
<1>2. base \in S BY <1>1
<1>3. \A i \in 1..n : i \in 0..n /\ i - 1 \in 0..n OBVIOUS
<1>4. h \in [1..n -> [S -> S]]
  <2>1. \A i \in 1..n : \A x \in S : (IF x \in V[i - 1] THEN g[i][x] ELSE base) \in S
    BY <1>1, <1>2, <1>3
  <2> HIDE DEF S
  <2>2. QED BY <2>1
<1>5. \E f \in [0..n -> S] : Follows(f, base, n, h)
  <2> HIDE DEF h, S
  <2>1. QED BY <1>2, <1>4, Recursion
<1>6. PICK f \in [0..n -> S] : f[0] = base /\ \A i \in 1..n : f[i] = h[i][f[i - 1]]
  BY <1>5 DEF Follows
<1>7. ASSUME NEW i \in 1..n, f[i - 1] \in V[i - 1] PROVE f[i] \in V[i] /\ f[i] = g[i][f[i - 1]]
  <2>1. f[i - 1] \in S BY <1>1, <1>3, <1>7
  <2>2. h[i][f[i - 1]] = g[i][f[i - 1]] BY <1>7, <2>1
  <2>3. QED BY <1>6, <1>7, <2>2
<1> DEFINE T == {i \in Nat : i <= n => f[i] \in V[i]}
<1>8. 0 \in T BY <1>6
<1>9. ASSUME NEW i \in Nat, i \in T PROVE i + 1 \in T
  <2>1. SUFFICES ASSUME i + 1 <= n PROVE f[i + 1] \in V[i + 1] OBVIOUS
  <2>2. i + 1 \in 1..n /\ (i + 1) - 1 = i /\ f[i] \in V[i] BY <1>9, <2>1
  <2>3. QED BY <1>7, <2>2
<1> HIDE DEF T, h, S
<1>10. Nat \subseteq T BY <1>8, <1>9, SetInduction
<1>11. \A i \in 0..n : f[i] \in V[i] BY <1>10 DEF T
<1>12. \A i \in 1..n : f[i] = g[i][f[i - 1]] BY <1>3, <1>7, <1>11
<1>13. Turns(f, base, n, g) BY <1>6, <1>12 DEF Turns
<1>14. QED BY <1>11, <1>13

\* What each turn keeps holds at the end.
LEMMA LoopKeeps ==
  ASSUME NEW n \in Nat, NEW V, NEW f, f[0] \in V[0],
         \A i \in 1..n : f[i - 1] \in V[i - 1] => f[i] \in V[i]
  PROVE  f[n] \in V[n]
<1> DEFINE T == {i \in Nat : i <= n => f[i] \in V[i]}
<1>1. 0 \in T OBVIOUS
<1>2. ASSUME NEW i \in Nat, i \in T PROVE i + 1 \in T
  <2>1. SUFFICES ASSUME i + 1 <= n PROVE f[i + 1] \in V[i + 1] OBVIOUS
  <2>2. i + 1 \in 1..n /\ (i + 1) - 1 = i /\ f[i] \in V[i] BY <1>2, <2>1
  <2>3. QED BY <2>2
<1> HIDE DEF T
<1>3. Nat \subseteq T BY <1>1, <1>2, SetInduction
<1>4. QED BY <1>3 DEF T

\* t has different values at different places.
OneToOne(t, n) == \A i, j \in 1..n : t[i] = t[j] => i = j

\* The numbers below N are different values for N places at most.
LEMMA Pigeonhole ==
  ASSUME NEW N \in Nat, NEW n \in Nat, NEW t \in [1..n -> 0..(N - 1)], OneToOne(t, n)
  PROVE  n <= N
<1> DEFINE T == {m \in Nat : \A k \in Nat : \A f \in [1..k -> 0..(m - 1)] : OneToOne(f, k) => k <= m}
<1>1. 0 \in T
  <2>1. SUFFICES ASSUME NEW k \in Nat, NEW f \in [1..k -> 0..(0 - 1)] PROVE k <= 0 OBVIOUS
  <2>2. k > 0 => f[1] \in 0..(0 - 1) OBVIOUS
  <2>3. QED BY <2>2
<1>2. ASSUME NEW m \in Nat, m \in T PROVE m + 1 \in T
  <2>1. SUFFICES ASSUME NEW k \in Nat, NEW f \in [1..k -> 0..((m + 1) - 1)], OneToOne(f, k)
                 PROVE  k <= m + 1
    OBVIOUS
  <2>2. SUFFICES ASSUME k > 0 PROVE k - 1 <= m OBVIOUS
  <2>3. \A i \in 1..k : f[i] \in 0..m OBVIOUS
  <2>4. \A i, j \in 1..k : f[i] = f[j] => i = j BY <2>1 DEF OneToOne
  <2> DEFINE v == f[k]
             g == [i \in 1..(k - 1) |-> IF f[i] = m THEN v ELSE f[i]]
  <2>5. \A i \in 1..(k - 1) : i \in 1..k /\ f[i] # v /\ v \in 0..m BY <2>2, <2>3, <2>4
  <2> HIDE DEF v
  <2>6. g \in [1..(k - 1) -> 0..(m - 1)] BY <2>3, <2>5
  <2>7. OneToOne(g, k - 1) BY <2>4, <2>5 DEF OneToOne
  <2> HIDE DEF g
  <2>8. k - 1 \in Nat BY <2>2
  <2>9. QED BY <1>2, <2>6, <2>7, <2>8
<1> HIDE DEF T
<1>3. Nat \subseteq T BY <1>1, <1>2, SetInduction
<1>4. QED BY <1>3 DEF T

\* f[i] is what is kept of the first i elements of s.
Computes(f, s, T) ==
  /\ f[0] = <<>>
  /\ \A i \in 1..Len(s) : f[i] = IF s[i] \in T THEN f[i - 1] ELSE Append(f[i - 1], s[i])
  /\ Without(s, T) = f[Len(s)]

\* Without is what its steps compute: from the sequence kept so far to the
\* next one.
LEMMA WithoutSteps ==
  ASSUME NEW S, NEW s \in Seq(S), NEW T
  PROVE  \E f \in [0..Len(s) -> Seq(S)] : Computes(f, s, T)
<1> DEFINE n == Len(s)
           g == [i \in 1..n |-> [q \in Seq(S) |-> IF s[i] \in T THEN q ELSE Append(q, s[i])]]
           K(f) == [i \in 0..n |-> IF i = 0 THEN <<>>
                      ELSE IF s[i] \in T THEN f[i - 1] ELSE Append(f[i - 1], s[i])]
           kept == CHOOSE f : f = K(f)
<1>1. n \in Nat /\ \A i \in 1..n : s[i] \in S OBVIOUS
<1>2. g \in [1..n -> [Seq(S) -> Seq(S)]] BY <1>1
<1>3. <<>> \in Seq(S) OBVIOUS
<1>4. \E f \in [0..n -> Seq(S)] : f[0] = <<>> /\ \A i \in 1..n : f[i] = g[i][f[i - 1]]
  <2> DEFINE V == Seq(S)
             e == <<>>
  <2>1. e \in V /\ n \in Nat /\ g \in [1..n -> [V -> V]] BY <1>1, <1>2, <1>3
  <2> HIDE DEF g, n, V, e
  <2>2. \E f \in [0..n -> V] : Follows(f, e, n, g) BY <2>1, Recursion
  <2>3. QED BY <2>2 DEF V, e, Follows
<1>5. PICK f \in [0..n -> Seq(S)] : f[0] = <<>> /\ \A i \in 1..n : f[i] = g[i][f[i - 1]]
  BY <1>4
<1>6. \A i \in 1..n : f[i] = IF s[i] \in T THEN f[i - 1] ELSE Append(f[i - 1], s[i])
  <2>1. TAKE i \in 1..n
  <2>2. f[i - 1] \in Seq(S) BY <1>1, <1>5
  <2>3. g[i][f[i - 1]] = IF s[i] \in T THEN f[i - 1] ELSE Append(f[i - 1], s[i]) BY <2>2
  <2>4. QED BY <2>3, <1>5
<1>7. f = K(f)
  <2>1. \A i \in 0..n : i = 0 \/ i \in 1..n BY <1>1
  <2>2. K(f)[0] = <<>> BY <1>1
  <2>3. \A i \in 1..n : K(f)[i] = IF s[i] \in T THEN f[i - 1] ELSE Append(f[i - 1], s[i])
    BY <1>1
  <2>4. \A i \in 0..n : f[i] = K(f)[i] BY <2>1, <2>2, <2>3, <1>5, <1>6
  <2>5. QED BY <2>4, <1>5
<1>8. kept = K(kept) BY <1>7
<1>9. Without(s, T) = kept[n] BY DEF Without
<1> HIDE DEF kept
<1>10. /\ kept[0] = <<>>
       /\ \A i \in 1..n : kept[i] = IF s[i] \in T THEN kept[i - 1] ELSE Append(kept[i - 1], s[i])
  <2>1. K(kept)[0] = <<>> BY <1>1
  <2>2. \A i \in 1..n : K(kept)[i] = IF s[i] \in T THEN kept[i - 1] ELSE Append(kept[i - 1], s[i])
    BY <1>1
  <2> HIDE DEF K
  <2>3. QED BY <1>8, <2>1, <2>2
<1>11. kept \in [0..n -> Seq(S)]
  <2> DEFINE U == {i \in Nat : i <= n => kept[i] \in Seq(S)}
  <2>1. 0 \in U BY <1>3, <1>10
  <2>2. ASSUME NEW i \in Nat, i \in U PROVE i + 1 \in U
    <3>1. SUFFICES ASSUME i + 1 <= n PROVE kept[i + 1] \in Seq(S) OBVIOUS
    <3>2. kept[i] \in Seq(S) /\ i + 1 \in 1..n /\ (i + 1) - 1 = i BY <1>1, <2>2, <3>1
    <3>3. Append(kept[i], s[i + 1]) \in Seq(S) BY <1>1, <3>2
    <3>4. QED BY <1>10, <3>2, <3>3
  <2> HIDE DEF U
  <2>3. Nat \subseteq U BY <2>1, <2>2, SetInduction
  <2>4. \A i \in 0..n : kept[i] \in Seq(S) BY <1>1, <2>3 DEF U
  <2>5. kept = [i \in 0..n |-> kept[i]] BY <1>8
  <2>6. QED BY <2>4, <2>5
<1>12. QED BY <1>9, <1>10, <1>11 DEF Computes

\* h picks, in order, the places of the first m elements of s that w keeps.
Picks(h, w, s, m, T) ==
  /\ h \in [1..Len(w) -> 1..m]
  /\ \A i, j \in 1..Len(w) : i < j => h[i] < h[j]
  /\ \A i \in 1..Len(w) : w[i] = s[h[i]] /\ w[i] \notin T
  /\ \A k \in 1..m : s[k] \notin T => \E i \in 1..Len(w) : h[i] = k

\* The result of Without is the elements of s outside T, each once for each of
\* its places, in their order.
LEMMA WithoutPicks ==
  ASSUME NEW S, NEW s \in Seq(S), NEW T
  PROVE  Without(s, T) \in Seq(S) /\ \E h : Picks(h, Without(s, T), s, Len(s), T)
<1> DEFINE n == Len(s)
<1>1. n \in Nat /\ \A i \in 1..n : s[i] \in S OBVIOUS
<1>a. PICK f \in [0..n -> Seq(S)] : Computes(f, s, T) BY WithoutSteps
<1>2. /\ f \in [0..n -> Seq(S)]
      /\ f[0] = <<>>
      /\ \A i \in 1..n : f[i] = IF s[i] \in T THEN f[i - 1] ELSE Append(f[i - 1], s[i])
      /\ Without(s, T) = f[n]
  BY <1>a DEF Computes
<1> DEFINE U == {m \in Nat : m <= n => \E h : Picks(h, f[m], s, m, T)}
<1>3. 0 \in U
  <2>1. Len(f[0]) = 0 /\ 1..0 = {} BY <1>2
  <2>2. Picks([i \in 1..0 |-> i], f[0], s, 0, T) BY <2>1 DEF Picks
  <2>3. QED BY <2>2
<1>4. ASSUME NEW m \in Nat, m \in U PROVE m + 1 \in U
  <2>1. SUFFICES ASSUME m + 1 <= n PROVE \E h : Picks(h, f[m + 1], s, m + 1, T) OBVIOUS
  <2>2. m + 1 \in 1..n /\ (m + 1) - 1 = m /\ m \in 0..n BY <1>1, <2>1
  <2>3. PICK h : Picks(h, f[m], s, m, T) BY <1>1, <1>4, <2>1
  <2> DEFINE w == f[m]
             L == Len(w)
  <2>4. w \in Seq(S) /\ L \in Nat
    <3>1. w \in Seq(S) BY <1>2, <2>2
    <3> HIDE DEF w
    <3>2. QED BY <3>1
  <2>5. CASE s[m + 1] \in T
    <3>1. f[m + 1] = w BY <1>2, <2>2, <2>5
    <3>2. Picks(h, w, s, m + 1, T)
      <4>1. h \in [1..L -> 1..(m + 1)] BY <2>3 DEF Picks
      <4>2. \A k \in 1..(m + 1) : s[k] \notin T => k \in 1..m BY <2>5
      <4>3. QED BY <2>3, <4>1, <4>2 DEF Picks
    <3>3. QED BY <3>1, <3>2
  <2>6. CASE s[m + 1] \notin T
    <3> DEFINE v == f[m + 1]
               e == [i \in 1..(L + 1) |-> IF i <= L THEN h[i] ELSE m + 1]
    <3>1. v = Append(w, s[m + 1]) BY <1>2, <2>2, <2>6
    <3>2. /\ Len(v) = L + 1 /\ v[L + 1] = s[m + 1]
          /\ \A i \in 1..L : v[i] = w[i]
      BY <1>1, <2>2, <2>4, <3>1
    <3>3. /\ h \in [1..L -> 1..m]
          /\ \A i, j \in 1..L : i < j => h[i] < h[j]
          /\ \A i \in 1..L : w[i] = s[h[i]] /\ w[i] \notin T
          /\ \A k \in 1..m : s[k] \notin T => \E i \in 1..L : h[i] = k
      BY <2>3 DEF Picks
    <3> HIDE DEF L, v, w
    <3>4. /\ e \in [1..(L + 1) -> 1..(m + 1)]
          /\ e[L + 1] = m + 1 /\ \A i \in 1..L : e[i] = h[i] /\ e[i] < m + 1
      BY <2>4, <3>3
    <3> HIDE DEF e
    <3>5. \A i \in 1..(L + 1) : i \in 1..L \/ i = L + 1 BY <2>4
    <3>6. \A i, j \in 1..(L + 1) : i < j => e[i] < e[j]
      <4>1. TAKE i, j \in 1..(L + 1)
      <4>2. HAVE i < j
      <4>3. i \in 1..L BY <2>4, <4>2
      <4>4. QED BY <3>3, <3>4, <3>5, <4>2, <4>3
    <3>7. \A i \in 1..(L + 1) : v[i] = s[e[i]] /\ v[i] \notin T
      BY <2>6, <3>2, <3>3, <3>4, <3>5
    <3>8. \A k \in 1..(m + 1) : s[k] \notin T => \E i \in 1..(L + 1) : e[i] = k
      <4>1. TAKE k \in 1..(m + 1)
      <4>2. HAVE s[k] \notin T
      <4>3. CASE k = m + 1 BY <2>4, <3>4, <4>3
      <4>4. CASE k # m + 1
        <5>1. k \in 1..m BY <4>4
        <5>2. PICK i \in 1..L : h[i] = k BY <3>3, <4>2, <5>1
        <5>3. i \in 1..(L + 1) /\ e[i] = k BY <2>4, <3>4, <5>2
        <5>4. QED BY <5>3
      <4>5. QED BY <4>3, <4>4
    <3>9. Picks(e, v, s, m + 1, T) BY <3>2, <3>4, <3>6, <3>7, <3>8 DEF Picks
    <3>10. QED BY <3>9 DEF v
  <2>7. QED BY <2>5, <2>6
<1> HIDE DEF U
<1>5. Nat \subseteq U BY <1>3, <1>4, SetInduction
<1>6. \E h : Picks(h, f[n], s, n, T) BY <1>1, <1>5 DEF U
<1>7. QED BY <1>1, <1>2, <1>6

\* Flatten joins sequences to a sequence.
LEMMA FlattenTyped ==
  ASSUME NEW S, NEW ss \in Seq(Seq(S))
  PROVE  Flatten(ss) \in Seq(S)
<1> DEFINE n == Len(ss)
           V == Seq(S)
           e == <<>>
           g == [i \in 1..n |-> [q \in V |-> q \o ss[i]]]
           K(f) == [i \in 0..n |-> IF i = 0 THEN <<>> ELSE f[i - 1] \o ss[i]]
           upto == CHOOSE f : f = K(f)
<1>1. n \in Nat /\ \A i \in 1..n : ss[i] \in V OBVIOUS
<1>2. \A q \in V, i \in 1..n : q \o ss[i] \in V BY <1>1
<1>3. e \in V OBVIOUS
<1>4. g \in [1..n -> [V -> V]] BY <1>2
<1>5. \E f \in [0..n -> V] : f[0] = e /\ \A i \in 1..n : f[i] = g[i][f[i - 1]]
  <2>1. e \in V /\ n \in Nat /\ g \in [1..n -> [V -> V]] BY <1>1, <1>3, <1>4
  <2> HIDE DEF g, n, V, e
  <2>2. \E f \in [0..n -> V] : Follows(f, e, n, g) BY <2>1, Recursion
  <2>3. QED BY <2>2 DEF Follows
<1>6. PICK f \in [0..n -> V] : f[0] = e /\ \A i \in 1..n : f[i] = g[i][f[i - 1]] BY <1>5
<1>a. \A i \in 1..n : i - 1 \in 0..n /\ i \in 0..n /\ i # 0 BY <1>1
<1>7. f = K(f)
  <2>1. \A i \in 0..n : i = 0 \/ i \in 1..n BY <1>1
  <2>2. \A i \in 1..n : f[i] = f[i - 1] \o ss[i] /\ i # 0
    <3>1. TAKE i \in 1..n
    <3>2. f[i - 1] \in V /\ i # 0 BY <1>a, <1>6
    <3>3. QED BY <1>6, <3>2
  <2>3. \A i \in 0..n : f[i] = K(f)[i] BY <1>6, <2>1, <2>2
  <2>4. QED BY <1>6, <2>3
<1>8. upto = K(upto) BY <1>7
<1>9. Flatten(ss) = upto[n] BY DEF Flatten
<1> HIDE DEF upto
<1>10. upto[0] = <<>> /\ \A i \in 1..n : upto[i] = upto[i - 1] \o ss[i]
  <2>1. K(upto)[0] = <<>> BY <1>1
  <2>2. \A i \in 1..n : K(upto)[i] = upto[i - 1] \o ss[i] BY <1>a
  <2> HIDE DEF K
  <2>3. QED BY <1>8, <2>1, <2>2
<1> DEFINE U == {i \in Nat : i <= n => upto[i] \in V}
<1>11. 0 \in U BY <1>3, <1>10
<1>12. ASSUME NEW i \in Nat, i \in U PROVE i + 1 \in U
  <2>1. SUFFICES ASSUME i + 1 <= n PROVE upto[i + 1] \in V OBVIOUS
  <2>2. upto[i] \in V /\ i + 1 \in 1..n /\ (i + 1) - 1 = i BY <1>1, <1>12, <2>1
  <2> HIDE DEF V, n
  <2>3. QED BY <1>2, <1>10, <2>2
<1> HIDE DEF U
<1>13. Nat \subseteq U BY <1>11, <1>12, SetInduction
<1>14. QED BY <1>1, <1>9, <1>13 DEF U

-----------------------------------------------------------------------------
\* Division with remainder.
LEMMA Division ==
  ASSUME NEW a \in Nat, NEW k \in Nat \ {0}, NEW q, q = a \div k, NEW r, r = a % k
  PROVE  q \in Nat /\ r \in Nat /\ r < k /\ a = k * q + r
<1>1. q \in Nat /\ r \in Nat /\ r < k OBVIOUS
<1>2. a = k * q + r BY <1>1
<1>3. QED BY <1>1, <1>2

\* Quotient and remainder are unique.
LEMMA Quotient ==
  ASSUME NEW k \in Nat \ {0}, NEW q \in Nat, NEW p \in Nat, NEW r \in Nat, NEW s \in Nat,
         k * q + r = k * p + s, r < k, s < k
  PROVE  q = p /\ r = s
<1>1. ~(q < p)
  <2>1. SUFFICES ASSUME q < p PROVE FALSE OBVIOUS
  <2>2. k * (q + 1) <= k * p BY <2>1
  <2>3. QED BY <2>2
<1>2. ~(p < q)
  <2>1. SUFFICES ASSUME p < q PROVE FALSE OBVIOUS
  <2>2. k * (p + 1) <= k * q BY <2>1
  <2>3. QED BY <2>2
<1>3. QED BY <1>1, <1>2

\* A multiple has no remainder.
LEMMA Multiple ==
  ASSUME NEW k \in Nat \ {0}, NEW q \in Nat
  PROVE  (k * q) % k = 0
<1> DEFINE x == k * q
           p == x \div k
           r == x % k
<1>1. x \in Nat OBVIOUS
<1> HIDE DEF x
<1>2. p \in Nat /\ r \in Nat /\ r < k /\ x = k * p + r
  <2> HIDE DEF p, r
  <2>1. p = x \div k /\ r = x % k BY DEF p, r
  <2>2. QED BY <1>1, <2>1, Division
<1> HIDE DEF p, r
<1>3. k * p + r = k * q + 0 /\ 0 < k BY <1>2 DEF x
<1>4. r = 0 BY <1>2, <1>3, Quotient
<1>5. QED BY <1>4 DEF r, x

\* A number without remainder is a multiple.
LEMMA NoRemainder ==
  ASSUME NEW k \in Nat \ {0}, NEW x \in Nat, x % k = 0
  PROVE  \E q \in Nat : x = k * q
<1> DEFINE p == x \div k
           r == x % k
<1>1. p \in Nat /\ r \in Nat /\ r < k /\ x = k * p + r
  <2> HIDE DEF p, r
  <2>1. p = x \div k /\ r = x % k BY DEF p, r
  <2>2. QED BY <2>1, Division
<1>2. r = 0 OBVIOUS
<1> HIDE DEF p, r
<1>3. x = k * p BY <1>1, <1>2
<1>4. QED BY <1>1, <1>3
=============================================================================
