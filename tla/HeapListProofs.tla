--------------------------- MODULE HeapListProofs ---------------------------
(***************************************************************************)
(* Lemmas about the free list of the kernel heap (src/list.rs and          *)
(* src/mem/alloc.rs), for any set of free blocks.                          *)
(*                                                                         *)
(* A walk along pointers that make a ring in address order visits the free *)
(* blocks in that order (Walks).  Linking, removing and absorbing a node   *)
(* keep the ring (LinkSound, RemoveSound, AbsorbSound), so                 *)
(* insert_and_coalesce does (InsertSound).  align_up is the least multiple *)
(* (AlignLeast).  A block put back on the list of a sound heap leaves a    *)
(* sound heap (FreeBlock).                                                 *)
(***************************************************************************)
EXTENDS Heap, SeqProofs, FiniteSetTheorems

\* A loop over the nodes of t, which ends at head.
Visits(t, following, start, head) ==
  /\ start = IF Len(t) = 0 THEN head ELSE t[1]
  /\ \A i \in 1..Len(t) :
       /\ t[i] \notin {head, Null}
       /\ following[t[i]] = IF i = Len(t) THEN head ELSE t[i + 1]

\* The loop of list_for_each visits the nodes it is led to by the pointers.
LEMMA LoopVisits ==
  ASSUME NEW S, NEW t \in Seq(S), NEW following, NEW start, NEW head, NEW most \in Nat,
         Visits(t, following, start, head), Len(t) <= most
  PROVE  Loop(following, start, head, most) = t
<1> DEFINE n == Len(t)
           K(f) == [i \in 0..most |->
                      IF i = 0 THEN start
                      ELSE IF f[i - 1] \in {head, Null} THEN f[i - 1] ELSE following[f[i - 1]]]
           at == CHOOSE f : f = K(f)
           g == [i \in 0..most |-> IF i < n THEN t[i + 1] ELSE head]
           turns == Min({i \in 0..most : at[i] = head} \cup {most + 1})
<1>1. n \in Nat /\ n <= most OBVIOUS
<1>2. /\ start = IF n = 0 THEN head ELSE t[1]
      /\ \A i \in 1..n : /\ t[i] \notin {head, Null}
                         /\ following[t[i]] = IF i = n THEN head ELSE t[i + 1]
  BY DEF Visits
<1>3. Loop(following, start, head, most) = [i \in 1..turns |-> at[i - 1]] BY DEF Loop
<1>4. g = K(g)
  <2>1. ASSUME NEW i \in 0..most PROVE g[i] = K(g)[i]
    <3>1. CASE i = 0 BY <1>1, <1>2, <3>1
    <3>2. CASE i \in 1..n
      <4>1. i - 1 \in 0..most /\ i - 1 < n /\ (i - 1) + 1 = i /\ i # 0 BY <1>1, <3>2
      <4>2. g[i - 1] = t[i] BY <4>1
      <4>3. K(g)[i] = following[t[i]] BY <4>1, <4>2, <1>2, <3>2
      <4>4. g[i] = IF i = n THEN head ELSE t[i + 1] BY <1>1, <3>2
      <4>5. QED BY <4>3, <4>4, <1>2, <3>2
    <3>3. CASE i > n
      <4>1. i - 1 \in 0..most /\ ~(i - 1 < n) /\ ~(i < n) /\ i # 0 BY <1>1, <3>3
      <4>2. g[i - 1] = head /\ g[i] = head BY <4>1
      <4>3. K(g)[i] = head BY <4>1, <4>2
      <4>4. QED BY <4>2, <4>3
    <3>4. QED BY <1>1, <3>1, <3>2, <3>3
  <2>2. QED BY <2>1
<1>5. at = K(at) BY <1>4, Zenon
<1> HIDE DEF at
<1>6. /\ at[0] = start
      /\ \A i \in 1..most : at[i] = IF at[i - 1] \in {head, Null} THEN at[i - 1]
                                    ELSE following[at[i - 1]]
  <2>1. K(at)[0] = start OBVIOUS
  <2>2. \A i \in 1..most : K(at)[i] = IF at[i - 1] \in {head, Null} THEN at[i - 1]
                                      ELSE following[at[i - 1]]
    OBVIOUS
  <2> HIDE DEF K
  <2>3. QED BY <1>5, <2>1, <2>2
<1> DEFINE U == {i \in Nat : i <= n => at[i] = IF i < n THEN t[i + 1] ELSE head}
<1>7. 0 \in U BY <1>1, <1>2, <1>6
<1>8. ASSUME NEW i \in Nat, i \in U PROVE i + 1 \in U
  <2>1. SUFFICES ASSUME i + 1 <= n PROVE at[i + 1] = IF i + 1 < n THEN t[(i + 1) + 1] ELSE head
    OBVIOUS
  <2>2. at[i] = t[i + 1] /\ i + 1 \in 1..n /\ i + 1 \in 1..most /\ (i + 1) - 1 = i
    BY <1>1, <1>8, <2>1
  <2>3. at[i + 1] = following[t[i + 1]] BY <1>2, <1>6, <2>2
  <2>4. QED BY <1>1, <1>2, <2>2, <2>3
<1> HIDE DEF U
<1>9. Nat \subseteq U BY <1>7, <1>8, SetInduction
<1>10. at[n] = head /\ \A i \in 0..(n - 1) : at[i] = t[i + 1] /\ at[i] # head
  <2>1. at[n] = head BY <1>1, <1>9 DEF U
  <2>2. ASSUME NEW i \in 0..(n - 1) PROVE at[i] = t[i + 1] /\ at[i] # head
    <3>1. i \in Nat /\ i < n /\ i + 1 \in 1..n BY <1>1
    <3>2. at[i] = t[i + 1] BY <1>9, <3>1 DEF U
    <3>3. QED BY <1>2, <3>1, <3>2
  <2>3. QED BY <2>1, <2>2
<1>11. turns = n
  <2> DEFINE E == {i \in 0..most : at[i] = head} \cup {most + 1}
  <2>1. n \in E BY <1>1, <1>10
  <2>2. \A i \in E : n <= i
    <3>1. TAKE i \in E
    <3>2. i \in Nat /\ (i = most + 1 \/ at[i] = head) OBVIOUS
    <3>3. i \notin 0..(n - 1) BY <1>1, <1>10, <3>2
    <3>4. QED BY <1>1, <3>2, <3>3
  <2>3. \A i \in E : i \in Nat OBVIOUS
  <2> HIDE DEF E
  <2>4. Min(E) = n
    <3>1. \A x \in E : (\A y \in E : x <= y) => x = n BY <1>1, <2>1, <2>2, <2>3
    <3>2. QED BY <2>1, <2>2, <3>1 DEF Min
  <2>5. QED BY <2>4 DEF E
<1> HIDE DEF turns
<1>12. [i \in 1..n |-> at[i - 1]] = t
  <2>1. \A i \in 1..n : at[i - 1] = t[i]
    <3>1. TAKE i \in 1..n
    <3>2. i - 1 \in 0..(n - 1) /\ (i - 1) + 1 = i BY <1>1
    <3>3. QED BY <1>10, <3>2
  <2>2. t = [i \in 1..n |-> t[i]] OBVIOUS
  <2> HIDE DEF n
  <2>3. QED BY <2>1, <2>2
<1>13. QED BY <1>3, <1>11, <1>12

\* t lists the numbers of F in ascending order.
Enumerates(t, F) ==
  /\ t \in Seq(F)
  /\ \A x \in F : \E i \in 1..Len(t) : t[i] = x
  /\ \A i, j \in 1..Len(t) : i < j => t[i] < t[j]
  /\ Len(t) = Cardinality(F)

\* Every finite set of numbers has such a list.
LEMMA Enumeration ==
  ASSUME NEW F \in SUBSET Nat, IsFiniteSet(F)
  PROVE  \E t : Enumerates(t, F)
<1> DEFINE T == {n \in Nat : \A G \in SUBSET Nat :
                   IsFiniteSet(G) /\ Cardinality(G) = n => \E t : Enumerates(t, G)}
<1>1. 0 \in T
  <2>1. SUFFICES ASSUME NEW G \in SUBSET Nat, IsFiniteSet(G), Cardinality(G) = 0
                 PROVE  \E t : Enumerates(t, G)
    OBVIOUS
  <2>2. G = {} BY <2>1, FS_EmptySet
  <2>3. Enumerates(<<>>, G) BY <2>1, <2>2 DEF Enumerates
  <2>4. QED BY <2>3
<1>2. ASSUME NEW n \in Nat, n \in T PROVE n + 1 \in T
  <2>1. SUFFICES ASSUME NEW G \in SUBSET Nat, IsFiniteSet(G), Cardinality(G) = n + 1
                 PROVE  \E t : Enumerates(t, G)
    OBVIOUS
  <2>2. G # {} BY <2>1, FS_EmptySet
  <2>3. PICK x \in G : \A y \in G : x <= y BY <2>2, Least
  <2> DEFINE H == G \ {x}
  <2>4. IsFiniteSet(H) /\ Cardinality(H) = n
    <3>1. IsFiniteSet(H) /\ Cardinality(H) = Cardinality(G) - 1
      BY <2>1, <2>3, FS_RemoveElement, Zenon
    <3>2. QED BY <2>1, <3>1
  <2>5. PICK t : Enumerates(t, H) BY <1>2, <2>4
  <2> DEFINE L == Len(t)
             u == [i \in 1..(L + 1) |-> IF i = 1 THEN x ELSE t[i - 1]]
  <2>6. /\ t \in Seq(H) /\ L \in Nat /\ L = n
        /\ \A i \in 1..L : t[i] \in H
        /\ \A y \in H : \E i \in 1..L : t[i] = y
        /\ \A i, j \in 1..L : i < j => t[i] < t[j]
    BY <2>4, <2>5, SeqElements, Zenon DEF Enumerates
  <2> HIDE DEF L
  <2>7. /\ u \in [1..(L + 1) -> G] /\ u[1] = x
        /\ \A i \in 2..(L + 1) : u[i] = t[i - 1] /\ i - 1 \in 1..L
    BY <2>6
  <2>8. u \in Seq(G) /\ Len(u) = L + 1
    <3>1. L + 1 \in Nat BY <2>6
    <3> HIDE DEF u
    <3>2. u \in Seq(G) BY <2>7, <3>1
    <3>3. QED BY <3>1, <3>2, <2>7
  <2> HIDE DEF u
  <2>9. \A y \in G : \E i \in 1..(L + 1) : u[i] = y
    <3>1. TAKE y \in G
    <3>2. CASE y = x BY <2>6, <2>7, <3>2
    <3>3. CASE y # x
      <4>1. PICK i \in 1..L : t[i] = y BY <2>6, <3>3
      <4>2. i + 1 \in 2..(L + 1) /\ (i + 1) - 1 = i BY <2>6
      <4>3. u[i + 1] = y BY <2>7, <4>1, <4>2
      <4>4. QED BY <2>6, <4>2, <4>3
    <3>4. QED BY <3>2, <3>3
  <2>10. \A i, j \in 1..(L + 1) : i < j => u[i] < u[j]
    <3>1. TAKE i, j \in 1..(L + 1)
    <3>2. HAVE i < j
    <3>3. j \in 2..(L + 1) /\ u[j] = t[j - 1] /\ j - 1 \in 1..L BY <2>6, <2>7, <3>2
    <3>4. CASE i = 1
      <4>1. u[j] \in G /\ u[j] # x /\ x <= u[j] BY <2>3, <2>6, <3>3, Zenon
      <4>2. u[j] \in Nat /\ x \in Nat BY <4>1, Zenon
      <4>3. x < u[j] BY <4>1, <4>2
      <4>4. QED BY <2>7, <3>4, <4>3
    <3>5. CASE i # 1
      <4>1. u[i] = t[i - 1] /\ i - 1 \in 1..L /\ i - 1 < j - 1 BY <2>6, <2>7, <3>2, <3>5
      <4>2. QED BY <2>6, <3>3, <4>1
    <3>6. QED BY <3>4, <3>5
  <2>11. Enumerates(u, G)
    BY <2>1, <2>6, <2>8, <2>9, <2>10 DEF Enumerates
  <2>12. QED BY <2>11
<1> HIDE DEF T
<1>3. Nat \subseteq T BY <1>1, <1>2, SetInduction
<1>4. Cardinality(F) \in Nat BY FS_CardinalityType
<1>5. QED BY <1>3, <1>4 DEF T
-----------------------------------------------------------------------------
\* HeapNodes with their pointers; the nodes of blocks lie at numbers.
Pointer == Nat \cup {ListHead, Null}
Memory(m) ==
  /\ m \in [DOMAIN m -> [size : Nat, next : Pointer, prev : Pointer]]
  /\ ListHead \in DOMAIN m
  /\ DOMAIN m \subseteq Nat \cup {ListHead}
  /\ IsFiniteSet(DOMAIN m)

\* y comes next after x in the ring of F in address order, which begins and
\* ends at the head of the list.
Adjacent(F, x, y) ==
  /\ x \in F \cup {ListHead} /\ y \in F \cup {ListHead}
  /\ x = ListHead \/ y = ListHead \/ x < y
  /\ \A z \in F : ~((x = ListHead \/ x < z) /\ (y = ListHead \/ z < y))

\* The pointers make the ring of F.
Linked(m, F) ==
  /\ F \subseteq DOMAIN m \cap Nat
  /\ \A x \in F \cup {ListHead} : Adjacent(F, x, m[x].next) /\ Adjacent(F, m[x].prev, x)

USE HeadAssumption

\* A node of the ring has one successor and one predecessor.
LEMMA AdjacentUnique ==
  ASSUME NEW F \in SUBSET Nat, NEW x, NEW y, NEW z
  PROVE  /\ Adjacent(F, x, y) /\ Adjacent(F, x, z) => y = z
         /\ Adjacent(F, x, z) /\ Adjacent(F, y, z) => x = y
<1>1. ASSUME Adjacent(F, x, y), Adjacent(F, x, z) PROVE y = z
  BY <1>1 DEF Adjacent
<1>2. ASSUME Adjacent(F, x, z), Adjacent(F, y, z) PROVE x = y
  BY <1>2 DEF Adjacent
<1>3. QED BY <1>1, <1>2

\* The i-th element of t, with the head of the list at both ends.
At(t, i) == IF i \in 1..Len(t) THEN t[i] ELSE ListHead

\* Neighbours in the list of F are neighbours in its ring.
LEMMA EnumeratedAdjacent ==
  ASSUME NEW F \in SUBSET Nat, NEW t, Enumerates(t, F)
  PROVE  \A i \in 0..Len(t) : Adjacent(F, At(t, i), At(t, i + 1))
<1> DEFINE n == Len(t)
<1>1. /\ n \in Nat
      /\ \A i \in 1..n : t[i] \in F /\ t[i] \in Nat /\ t[i] # ListHead
      /\ \A x \in F : \E i \in 1..n : t[i] = x
      /\ \A i, j \in 1..n : i < j => t[i] < t[j]
  BY SeqElements, Zenon DEF Enumerates
<1>2. \A i \in 1..n : At(t, i) = t[i] BY DEF At
<1>3. At(t, 0) = ListHead /\ At(t, n + 1) = ListHead BY <1>1 DEF At
<1> HIDE DEF n
<1>4. SUFFICES ASSUME NEW i \in 0..n PROVE Adjacent(F, At(t, i), At(t, i + 1)) BY DEF n
<1> DEFINE x == At(t, i)
           y == At(t, i + 1)
<1>5. i = 0 \/ i \in 1..n BY <1>1
<1>6. i = n \/ i + 1 \in 1..n BY <1>1
<1>7. x \in F \cup {ListHead} /\ y \in F \cup {ListHead} BY <1>1, <1>2, <1>3, <1>5, <1>6
<1>8. x = ListHead \/ y = ListHead \/ x < y BY <1>1, <1>2, <1>3, <1>5, <1>6
<1>9. ASSUME NEW z \in F, x = ListHead \/ x < z, y = ListHead \/ z < y PROVE FALSE
  <2>1. PICK k \in 1..n : t[k] = z BY <1>1
  <2>2. ~(k <= i)
    <3>1. SUFFICES ASSUME k <= i PROVE FALSE OBVIOUS
    <3>2. i \in 1..n BY <3>1, <1>1
    <3>3. x = t[i] /\ t[i] < z /\ t[i] \in Nat /\ z \in Nat BY <1>1, <1>2, <1>9, <3>2
    <3>4. k = i \/ t[k] < t[i] BY <1>1, <3>1, <3>2
    <3>5. QED BY <2>1, <3>3, <3>4
  <2>3. ~(k > i)
    <3>1. SUFFICES ASSUME k > i PROVE FALSE OBVIOUS
    <3>2. i + 1 \in 1..n BY <3>1, <1>1
    <3>3. y = t[i + 1] /\ z < t[i + 1] /\ t[i + 1] \in Nat /\ z \in Nat
      BY <1>1, <1>2, <1>9, <3>2
    <3>4. k = i + 1 \/ t[i + 1] < t[k] BY <1>1, <3>1, <3>2
    <3>5. QED BY <2>1, <3>3, <3>4
  <2>4. QED BY <1>1, <2>2, <2>3
<1>10. QED BY <1>7, <1>8, <1>9 DEF Adjacent

\* t backwards.
Backwards(t) == [i \in DOMAIN t |-> t[Len(t) + 1 - i]]

\* Both walks along the ring visit the blocks of F in their order.
LEMMA Walks ==
  ASSUME NEW m, NEW F, NEW t, Memory(m), Linked(m, F), Enumerates(t, F)
  PROVE  /\ list_for_each(m, ListHead) = t
         /\ list_backward(m, ListHead) = Backwards(t)
         /\ list_empty(m, ListHead) <=> t = <<>>
<1> DEFINE n == Len(t)
           most == Cardinality(DOMAIN m)
           forth == [x \in DOMAIN m |-> m[x].next]
           back == [x \in DOMAIN m |-> m[x].prev]
           w == Backwards(t)
<1>1. /\ F \in SUBSET Nat /\ F \subseteq DOMAIN m /\ ListHead \in DOMAIN m /\ ListHead \notin F
      /\ \A x \in F \cup {ListHead} : Adjacent(F, x, m[x].next) /\ Adjacent(F, m[x].prev, x)
  BY DEF Memory, Linked
<1>2. /\ n \in Nat /\ t \in Seq(F)
      /\ \A i \in 1..n : t[i] \in F /\ t[i] \notin {ListHead, Null}
      /\ t = [i \in 1..n |-> t[i]]
  BY <1>1 DEF Enumerates
<1>3. most \in Nat /\ n <= most
  <2>1. IsFiniteSet(DOMAIN m) BY DEF Memory
  <2>2. Cardinality(F) <= most /\ most \in Nat BY <1>1, <2>1, FS_Subset, FS_CardinalityType, Zenon
  <2>3. QED BY <2>2 DEF Enumerates
<1>4. \A i \in 0..n : Adjacent(F, At(t, i), At(t, i + 1)) BY <1>1, EnumeratedAdjacent
<1>5. \A i \in 0..(n + 1) : At(t, i) \in F \cup {ListHead} BY <1>2 DEF At
<1>6. \A i \in 0..n : m[At(t, i)].next = At(t, i + 1)
  <2>1. TAKE i \in 0..n
  <2>2. At(t, i) \in F \cup {ListHead} BY <1>5
  <2> DEFINE x == At(t, i)
             y == m[x].next
             z == At(t, i + 1)
  <2>3. Adjacent(F, x, y) /\ Adjacent(F, x, z) BY <1>1, <1>4, <2>2, Zenon
  <2> HIDE DEF x, y, z
  <2>4. y = z BY <1>1, <2>3, AdjacentUnique
  <2>5. QED BY <2>4 DEF x, y, z
<1>7. \A i \in 1..(n + 1) : m[At(t, i)].prev = At(t, i - 1)
  <2>1. TAKE i \in 1..(n + 1)
  <2>2. i - 1 \in 0..n /\ (i - 1) + 1 = i /\ i \in 0..(n + 1) BY <1>2
  <2>3. At(t, i) \in F \cup {ListHead} BY <1>5, <2>2
  <2>4. Adjacent(F, At(t, i - 1), At(t, i)) BY <1>4, <2>2
  <2> DEFINE z == At(t, i)
             x == m[z].prev
             y == At(t, i - 1)
  <2>5. Adjacent(F, x, z) /\ Adjacent(F, y, z) BY <1>1, <2>3, <2>4, Zenon
  <2> HIDE DEF x, y, z
  <2>6. x = y BY <1>1, <2>5, AdjacentUnique, Zenon
  <2>7. QED BY <2>6 DEF x, y, z
<1>8. /\ \A i \in 1..n : At(t, i) = t[i]
      /\ At(t, 0) = ListHead /\ At(t, n + 1) = ListHead
  BY <1>2 DEF At
<1>9. list_for_each(m, ListHead) = t
  <2>1. m[ListHead].next = IF n = 0 THEN ListHead ELSE t[1]
    <3>1. m[ListHead].next = At(t, 1) BY <1>2, <1>6, <1>8
    <3>2. QED BY <1>2, <1>8, <3>1
  <2>2. ASSUME NEW i \in 1..n
        PROVE  forth[t[i]] = IF i = n THEN ListHead ELSE t[i + 1]
    <3>1. i \in 0..n /\ t[i] \in DOMAIN m BY <1>1, <1>2
    <3>2. forth[t[i]] = At(t, i + 1) BY <3>1, <1>6, <1>8
    <3>3. i = n \/ i + 1 \in 1..n BY <1>2
    <3>4. QED BY <1>2, <1>8, <3>2, <3>3
  <2>3. Visits(t, forth, m[ListHead].next, ListHead) BY <1>2, <2>1, <2>2 DEF Visits
  <2> HIDE DEF forth, most
  <2>4. Loop(forth, m[ListHead].next, ListHead, most) = t BY <1>2, <1>3, <2>3, LoopVisits
  <2>5. QED BY <2>4 DEF list_for_each, forth, most
<1>10. w \in Seq(F) /\ Len(w) = n /\ \A i \in 1..n : w[i] = t[n + 1 - i] /\ n + 1 - i \in 1..n
  <2>1. DOMAIN t = 1..n BY <1>2
  <2>2. \A i \in 1..n : n + 1 - i \in 1..n BY <1>2
  <2>3. w = [i \in 1..n |-> t[n + 1 - i]] BY <2>1 DEF Backwards
  <2>4. w \in [1..n -> F] BY <1>2, <2>2, <2>3
  <2>5. w \in Seq(F) /\ Len(w) = n
    <3> HIDE DEF w, n
    <3>1. w \in Seq(F) BY <1>2, <2>4
    <3>2. QED BY <1>2, <2>4, <3>1
  <2>6. QED BY <2>2, <2>3, <2>5
<1>11. list_backward(m, ListHead) = w
  <2>1. m[ListHead].prev = IF n = 0 THEN ListHead ELSE w[1]
    <3>1. m[ListHead].prev = At(t, n)
      <4>1. n + 1 \in 1..(n + 1) /\ (n + 1) - 1 = n BY <1>2
      <4>2. QED BY <1>7, <1>8, <4>1
    <3>2. CASE n = 0 BY <1>8, <3>1, <3>2
    <3>3. CASE n # 0
      <4>1. 1 \in 1..n /\ n \in 1..n /\ n + 1 - 1 = n BY <1>2, <3>3
      <4>2. w[1] = t[n] BY <1>10, <4>1
      <4>3. QED BY <1>8, <3>1, <3>3, <4>1, <4>2
    <3>4. QED BY <3>2, <3>3
  <2>2. ASSUME NEW i \in 1..n
        PROVE  back[w[i]] = IF i = n THEN ListHead ELSE w[i + 1]
    <3> DEFINE k == n + 1 - i
    <3>a. k \in 1..n /\ w[i] = t[k] BY <1>10
    <3>b. k \in 1..(n + 1) BY <1>2, <3>a
    <3>c. t[k] \in DOMAIN m BY <1>1, <1>2, <3>a
    <3>1. k \in 1..n /\ k \in 1..(n + 1) /\ w[i] = t[k] /\ t[k] \in DOMAIN m BY <3>a, <3>b, <3>c
    <3>2. back[w[i]] = At(t, k - 1) BY <3>1, <1>7, <1>8
    <3>3. CASE i = n
      <4>1. k - 1 = 0 BY <1>2, <3>3
      <4>2. QED BY <1>8, <3>2, <3>3, <4>1
    <3>4. CASE i # n
      <4>1. i + 1 \in 1..n /\ n + 1 - (i + 1) = k - 1 /\ k - 1 \in 1..n BY <1>2, <3>4
      <4>2. w[i + 1] = t[k - 1] BY <1>10, <4>1
      <4>3. QED BY <1>8, <3>2, <3>4, <4>1, <4>2
    <3>5. QED BY <3>3, <3>4
  <2>3. \A i \in 1..n : w[i] \notin {ListHead, Null} BY <1>2, <1>10
  <2> HIDE DEF back, most, w
  <2>4. Visits(w, back, m[ListHead].prev, ListHead) BY <1>10, <2>1, <2>2, <2>3 DEF Visits
  <2>5. Loop(back, m[ListHead].prev, ListHead, most) = w BY <1>3, <1>10, <2>4, LoopVisits
  <2>6. QED BY <2>5 DEF list_backward, back, most
<1>12. list_empty(m, ListHead) <=> t = <<>>
  <2>1. m[ListHead].next = At(t, 1) /\ m[ListHead].prev = At(t, n)
    <3>1. n + 1 \in 1..(n + 1) /\ (n + 1) - 1 = n /\ 0 \in 0..n /\ 0 + 1 = 1 BY <1>2
    <3>2. QED BY <1>6, <1>7, <1>8, <3>1
  <2>2. CASE n = 0
    <3>1. m[ListHead].next = ListHead /\ m[ListHead].prev = ListHead BY <1>8, <2>1, <2>2
    <3>2. t = <<>> BY <1>2, <2>2
    <3>3. QED BY <3>1, <3>2 DEF list_empty
  <2>3. CASE n # 0
    <3>1. 1 \in 1..n /\ n \in 1..n BY <1>2, <2>3
    <3>2. m[ListHead].next \notin {ListHead, Null} /\ m[ListHead].prev \notin {ListHead, Null}
      BY <1>2, <1>8, <2>1, <3>1
    <3>3. t # <<>> BY <2>3
    <3>4. QED BY <3>2, <3>3 DEF list_empty
  <2>4. QED BY <2>2, <2>3
<1>13. QED BY <1>9, <1>11, <1>12

\* r is m with v as the pointer of x forwards, or backwards.
NextSet(m, r, x, v) ==
  /\ Memory(r) /\ DOMAIN r = DOMAIN m
  /\ \A y \in DOMAIN m : /\ r[y].size = m[y].size /\ r[y].prev = m[y].prev
                         /\ r[y].next = IF y = x THEN v ELSE m[y].next
PrevSet(m, r, x, v) ==
  /\ Memory(r) /\ DOMAIN r = DOMAIN m
  /\ \A y \in DOMAIN m : /\ r[y].size = m[y].size /\ r[y].next = m[y].next
                         /\ r[y].prev = IF y = x THEN v ELSE m[y].prev

\* An assignment to a pointer of a node.
LEMMA SetNext ==
  ASSUME NEW m, Memory(m), NEW x \in DOMAIN m, NEW v \in Pointer
  PROVE  NextSet(m, [m EXCEPT ![x].next = v], x, v)
<1> DEFINE r == [m EXCEPT ![x].next = v]
<1>1. DOMAIN r = DOMAIN m OBVIOUS
<1>2. m \in [DOMAIN m -> [size : Nat, next : Pointer, prev : Pointer]] BY DEF Memory
<1>3. \A y \in DOMAIN m : /\ r[y].size = m[y].size /\ r[y].prev = m[y].prev
                          /\ r[y].next = IF y = x THEN v ELSE m[y].next
  BY <1>2
<1>4. r \in [DOMAIN m -> [size : Nat, next : Pointer, prev : Pointer]] BY <1>2
<1>5. Memory(r) BY <1>1, <1>4 DEF Memory
<1>6. QED BY <1>1, <1>3, <1>5 DEF NextSet

\* The same for the pointers backwards.
LEMMA SetPrev ==
  ASSUME NEW m, Memory(m), NEW x \in DOMAIN m, NEW v \in Pointer
  PROVE  PrevSet(m, [m EXCEPT ![x].prev = v], x, v)
<1> DEFINE r == [m EXCEPT ![x].prev = v]
<1>1. DOMAIN r = DOMAIN m OBVIOUS
<1>2. m \in [DOMAIN m -> [size : Nat, next : Pointer, prev : Pointer]] BY DEF Memory
<1>3. \A y \in DOMAIN m : /\ r[y].size = m[y].size /\ r[y].next = m[y].next
                          /\ r[y].prev = IF y = x THEN v ELSE m[y].prev
  BY <1>2
<1>4. r \in [DOMAIN m -> [size : Nat, next : Pointer, prev : Pointer]] BY <1>2
<1>5. Memory(r) BY <1>1, <1>4 DEF Memory
<1>6. QED BY <1>1, <1>3, <1>5 DEF PrevSet

\* r is m with b linked in between p and c.
Between(m, r, b, p, c) ==
  /\ Memory(r) /\ DOMAIN r = DOMAIN m
  /\ \A y \in DOMAIN m :
       /\ r[y].size = m[y].size
       /\ r[y].next = IF y = p THEN b ELSE IF y = b THEN c ELSE m[y].next
       /\ r[y].prev = IF y = c THEN b ELSE IF y = b THEN p ELSE m[y].prev

\* r is m with the ring closed over b.
Removed(m, r, b) ==
  /\ Memory(r) /\ DOMAIN r = DOMAIN m
  /\ \A y \in DOMAIN m :
       /\ r[y].size = m[y].size
       /\ r[y].next = IF y = b THEN b ELSE IF y = m[b].prev THEN m[b].next ELSE m[y].next
       /\ r[y].prev = IF y = b THEN b ELSE IF y = m[b].next THEN m[b].prev ELSE m[y].prev

\* A node between two others.
LEMMA LinkBetween ==
  ASSUME NEW m, Memory(m), NEW b \in DOMAIN m, NEW p \in DOMAIN m, NEW c \in DOMAIN m,
         p # b, c # b
  PROVE  Between(m, Link(m, b, p, c), b, p, c)
<1> DEFINE m1 == [m EXCEPT ![b].prev = p]
           m2 == [m1 EXCEPT ![b].next = c]
           m3 == [m2 EXCEPT ![p].next = b]
           m4 == [m3 EXCEPT ![c].prev = b]
<1>1. b \in Pointer /\ p \in Pointer /\ c \in Pointer BY DEF Memory, Pointer
<1>a. b \in DOMAIN m /\ p \in DOMAIN m /\ c \in DOMAIN m OBVIOUS
<1>2. Link(m, b, p, c) = m4 BY DEF Link
<1>3. PrevSet(m, m1, b, p)
  <2>1. Memory(m) /\ b \in DOMAIN m /\ p \in Pointer BY <1>1, <1>a
  <2>2. QED BY <2>1, SetPrev
<1> HIDE DEF m1
<1>4. NextSet(m1, m2, b, c)
  <2>1. Memory(m1) /\ b \in DOMAIN m1 /\ c \in Pointer BY <1>1, <1>a, <1>3 DEF NextSet, PrevSet
  <2>2. QED BY <2>1, SetNext
<1> HIDE DEF m2
<1>5. NextSet(m2, m3, p, b)
  <2>1. Memory(m2) /\ p \in DOMAIN m2 /\ b \in Pointer
    BY <1>1, <1>a, <1>3, <1>4 DEF NextSet, PrevSet
  <2>2. QED BY <2>1, SetNext
<1> HIDE DEF m3
<1>6. PrevSet(m3, m4, c, b)
  <2>1. Memory(m3) /\ c \in DOMAIN m3 /\ b \in Pointer
    BY <1>1, <1>a, <1>3, <1>4, <1>5 DEF NextSet, PrevSet
  <2>2. QED BY <2>1, SetPrev
<1> HIDE DEF m4
<1>7. \A y \in DOMAIN m : /\ m4[y].size = m[y].size
                          /\ m4[y].next = IF y = p THEN b ELSE IF y = b THEN c ELSE m[y].next
                          /\ m4[y].prev = IF y = c THEN b ELSE IF y = b THEN p ELSE m[y].prev
  BY <1>3, <1>4, <1>5, <1>6 DEF NextSet, PrevSet
<1>8. Memory(m4) /\ DOMAIN m4 = DOMAIN m BY <1>3, <1>4, <1>5, <1>6 DEF NextSet, PrevSet
<1>9. QED BY <1>2, <1>7, <1>8 DEF Between

\* list_remove closes the ring over a node, which then points to itself.
LEMMA ListRemoves ==
  ASSUME NEW m, Memory(m), NEW b \in DOMAIN m, m[b].prev \in DOMAIN m, m[b].next \in DOMAIN m
  PROVE  Removed(m, list_remove(m, b), b)
<1> DEFINE p == m[b].prev
           c == m[b].next
           m1 == [m EXCEPT ![p].next = c]
           m2 == [m1 EXCEPT ![c].prev = p]
           m3 == [m2 EXCEPT ![b].next = b]
           m4 == [m3 EXCEPT ![b].prev = b]
<1>1. b \in Pointer /\ p \in Pointer /\ c \in Pointer BY DEF Memory, Pointer
<1>2. list_remove(m, b) = m4 BY DEF list_remove, unlink, init_at
<1> HIDE DEF p, c
<1>a. b \in DOMAIN m /\ p \in DOMAIN m /\ c \in DOMAIN m BY DEF p, c
<1>3. NextSet(m, m1, p, c)
  <2>1. Memory(m) /\ p \in DOMAIN m /\ c \in Pointer BY <1>1, <1>a
  <2>2. QED BY <2>1, SetNext
<1> HIDE DEF m1
<1>4. PrevSet(m1, m2, c, p)
  <2>1. Memory(m1) /\ c \in DOMAIN m1 /\ p \in Pointer BY <1>1, <1>a, <1>3 DEF NextSet, PrevSet
  <2>2. QED BY <2>1, SetPrev
<1> HIDE DEF m2
<1>5. NextSet(m2, m3, b, b)
  <2>1. Memory(m2) /\ b \in DOMAIN m2 /\ b \in Pointer
    BY <1>1, <1>a, <1>3, <1>4 DEF NextSet, PrevSet
  <2>2. QED BY <2>1, SetNext
<1> HIDE DEF m3
<1>6. PrevSet(m3, m4, b, b)
  <2>1. Memory(m3) /\ b \in DOMAIN m3 /\ b \in Pointer
    BY <1>1, <1>a, <1>3, <1>4, <1>5 DEF NextSet, PrevSet
  <2>2. QED BY <2>1, SetPrev
<1> HIDE DEF m4
<1>7. \A y \in DOMAIN m : /\ m4[y].size = m[y].size
                          /\ m4[y].next = IF y = b THEN b ELSE IF y = p THEN c ELSE m[y].next
                          /\ m4[y].prev = IF y = b THEN b ELSE IF y = c THEN p ELSE m[y].prev
  BY <1>3, <1>4, <1>5, <1>6 DEF NextSet, PrevSet
<1>8. Memory(m4) /\ DOMAIN m4 = DOMAIN m BY <1>3, <1>4, <1>5, <1>6 DEF NextSet, PrevSet
<1>9. QED BY <1>2, <1>7, <1>8 DEF Removed, p, c

\* The place of b in the ring of F is between p and c.
Place(F, b, p, c) ==
  /\ Adjacent(F, p, c)
  /\ p = ListHead \/ p < b
  /\ c = ListHead \/ b < c

\* A block that is linked in at its place extends the ring.
LEMMA LinkSound ==
  ASSUME NEW m, NEW r, NEW F, NEW b, NEW p, NEW c, Memory(m), Linked(m, F),
         b \in DOMAIN m, b \in Nat, b \notin F, Place(F, b, p, c), Between(m, r, b, p, c)
  PROVE  Linked(r, F \cup {b})
<1> DEFINE G == F \cup {b}
<1>1. /\ F \subseteq DOMAIN m /\ F \subseteq Nat /\ ListHead \notin F /\ b # ListHead
      /\ ListHead \in DOMAIN m
      /\ \A x \in F \cup {ListHead} : Adjacent(F, x, m[x].next) /\ Adjacent(F, m[x].prev, x)
  BY DEF Linked, Memory
<1>2. p \in F \cup {ListHead} /\ c \in F \cup {ListHead} /\ p # b /\ c # b
  BY <1>1 DEF Place, Adjacent
<1>3. Adjacent(G, p, b) /\ Adjacent(G, b, c)
  <2>1. Adjacent(G, p, b) BY <1>1, <1>2 DEF Place, Adjacent
  <2>2. Adjacent(G, b, c) BY <1>1, <1>2 DEF Place, Adjacent
  <2>3. QED BY <2>1, <2>2
<1>4. ASSUME NEW x, NEW y, Adjacent(F, x, y), x # p \/ y # c PROVE Adjacent(G, x, y)
  <2>1. x # p /\ y # c
    <3>1. Adjacent(F, p, c) BY DEF Place
    <3>2. F \in SUBSET Nat BY <1>1
    <3>3. QED BY <1>4, <3>1, <3>2, AdjacentUnique
  <2>2. ~((x = ListHead \/ x < b) /\ (y = ListHead \/ b < y))
    <3>1. SUFFICES ASSUME x = ListHead \/ x < b, y = ListHead \/ b < y PROVE FALSE OBVIOUS
    <3>2. x = p
      BY <1>1, <1>2, <1>4, <3>1 DEF Place, Adjacent
    <3>3. QED BY <2>1, <3>2
  <2>3. QED BY <1>1, <1>4, <2>2 DEF Adjacent
<1>5. ASSUME NEW x \in G \cup {ListHead} PROVE Adjacent(G, x, r[x].next)
  <2>1. x \in DOMAIN m BY <1>1
  <2>2. r[x].next = IF x = p THEN b ELSE IF x = b THEN c ELSE m[x].next BY <2>1 DEF Between
  <2>3. CASE x = p BY <1>3, <2>2, <2>3
  <2>4. CASE x = b BY <1>2, <1>3, <2>2, <2>4
  <2>5. CASE x # p /\ x # b
    <3>1. Adjacent(F, x, m[x].next) BY <1>1, <2>5
    <3>2. QED BY <1>4, <2>2, <2>5, <3>1
  <2>6. QED BY <2>3, <2>4, <2>5
<1>6. ASSUME NEW x \in G \cup {ListHead} PROVE Adjacent(G, r[x].prev, x)
  <2>1. x \in DOMAIN m BY <1>1
  <2>2. r[x].prev = IF x = c THEN b ELSE IF x = b THEN p ELSE m[x].prev BY <2>1 DEF Between
  <2>3. CASE x = c BY <1>3, <2>2, <2>3
  <2>4. CASE x = b BY <1>2, <1>3, <2>2, <2>4
  <2>5. CASE x # c /\ x # b
    <3>1. Adjacent(F, m[x].prev, x) BY <1>1, <2>5
    <3>2. QED BY <1>4, <2>2, <2>5, <3>1
  <2>6. QED BY <2>3, <2>4, <2>5
<1>7. G \subseteq DOMAIN r \cap Nat BY <1>1 DEF Between
<1>8. QED BY <1>5, <1>6, <1>7, Zenon DEF Linked

\* A block that is removed leaves the ring of the others.
LEMMA RemoveSound ==
  ASSUME NEW m, NEW F, NEW b \in F, Memory(m), Linked(m, F)
  PROVE  Removed(m, list_remove(m, b), b) /\ Linked(list_remove(m, b), F \ {b})
<1> DEFINE G == F \ {b}
           r == list_remove(m, b)
           p == m[b].prev
           c == m[b].next
<1> HIDE DEF G, r, p, c
<1>1. /\ F \subseteq DOMAIN m /\ F \subseteq Nat /\ ListHead \notin F /\ b # ListHead
      /\ ListHead \in DOMAIN m /\ b \in Nat /\ b \in DOMAIN m
      /\ \A x \in F \cup {ListHead} : Adjacent(F, x, m[x].next) /\ Adjacent(F, m[x].prev, x)
  BY DEF Linked, Memory
<1>2. Adjacent(F, p, b) /\ Adjacent(F, b, c) BY <1>1 DEF p, c
<1>3. p \in F \cup {ListHead} /\ c \in F \cup {ListHead} /\ p # b /\ c # b
  BY <1>1, <1>2 DEF Adjacent
<1>4. p \in DOMAIN m /\ c \in DOMAIN m BY <1>1, <1>3
<1>5. Removed(m, r, b) BY <1>1, <1>4, ListRemoves DEF r, p, c
<1>6. \A y \in DOMAIN m :
        /\ r[y].next = IF y = b THEN b ELSE IF y = p THEN c ELSE m[y].next
        /\ r[y].prev = IF y = b THEN b ELSE IF y = c THEN p ELSE m[y].prev
  BY <1>5 DEF Removed, p, c
<1>7. Adjacent(G, p, c) BY <1>1, <1>2, <1>3 DEF Adjacent, G
<1>8. ASSUME NEW x, NEW y, Adjacent(F, x, y), x # b, y # b PROVE Adjacent(G, x, y)
  BY <1>1, <1>8, Zenon DEF Adjacent, G
<1>a. F \in SUBSET Nat BY <1>1
<1>9. ASSUME NEW x \in G \cup {ListHead} PROVE Adjacent(G, x, r[x].next)
  <2>1. x \in DOMAIN m /\ x # b /\ x \in F \cup {ListHead} BY <1>1 DEF G
  <2>2. CASE x = p BY <1>6, <1>7, <2>1, <2>2
  <2>3. CASE x # p
    <3> DEFINE y == m[x].next
    <3> HIDE DEF y
    <3>1. r[x].next = y /\ Adjacent(F, x, y) BY <1>1, <1>6, <2>1, <2>3, Zenon DEF y
    <3>2. y # b BY <1>a, <1>2, <2>3, <3>1, AdjacentUnique, Zenon
    <3>3. QED BY <1>8, <2>1, <3>1, <3>2
  <2>4. QED BY <2>2, <2>3
<1>10. ASSUME NEW x \in G \cup {ListHead} PROVE Adjacent(G, r[x].prev, x)
  <2>1. x \in DOMAIN m /\ x # b /\ x \in F \cup {ListHead} BY <1>1 DEF G
  <2>2. CASE x = c BY <1>6, <1>7, <2>1, <2>2
  <2>3. CASE x # c
    <3> DEFINE y == m[x].prev
    <3> HIDE DEF y
    <3>1. r[x].prev = y /\ Adjacent(F, y, x) BY <1>1, <1>6, <2>1, <2>3, Zenon DEF y
    <3>2. y # b BY <1>a, <1>2, <2>3, <3>1, AdjacentUnique, Zenon
    <3>3. QED BY <1>8, <2>1, <3>1, <3>2
  <2>4. QED BY <2>2, <2>3
<1>11. G \subseteq DOMAIN r \cap Nat BY <1>1, <1>5 DEF Removed, G
<1>12. Linked(r, G) BY <1>9, <1>10, <1>11 DEF Linked
<1>13. QED BY <1>5, <1>12 DEF r, G

-----------------------------------------------------------------------------
\* Room for a free block is not nothing.
LEMMA MinFreePositive == MinFree \in Nat /\ MinFree > 0
BY GeometryAssumption DEF MinFree

\* The words of a block, and of the blocks in S.
Cells(m, x) == x..(x + m[x].size - 1)
Cover(m, S) == UNION {Cells(m, x) : x \in S}

\* The words of blocks that have not changed.
LEMMA CoverSame ==
  ASSUME NEW m, NEW r, NEW S, \A x \in S : Cells(r, x) = Cells(m, x)
  PROVE  Cover(r, S) = Cover(m, S)
BY DEF Cover

\* The words of one block more.
LEMMA CoverAdd ==
  ASSUME NEW m, NEW S, NEW x
  PROVE  Cover(m, S \cup {x}) = Cover(m, S) \cup Cells(m, x)
BY DEF Cover

\* r is m with the block right taken over by its neighbour left.
Merged(m, r, left, right) ==
  /\ Memory(r) /\ DOMAIN r = DOMAIN m \ {right}
  /\ \A y \in DOMAIN r : r[y].size = IF y = left THEN m[left].size + m[right].size ELSE m[y].size

\* The sizes of nodes can change without the ring.
LEMMA LinkedSame ==
  ASSUME NEW m, NEW r, NEW F, Linked(m, F), F \subseteq DOMAIN r,
         \A x \in F \cup {ListHead} : r[x].next = m[x].next /\ r[x].prev = m[x].prev
  PROVE  Linked(r, F)
BY DEF Linked

\* r is m with v as the size of x.
SizeSet(m, r, x, v) ==
  /\ Memory(r) /\ DOMAIN r = DOMAIN m
  /\ \A y \in DOMAIN m : /\ r[y].next = m[y].next /\ r[y].prev = m[y].prev
                         /\ r[y].size = IF y = x THEN v ELSE m[y].size

\* An assignment to the size of a node.
LEMMA SetSize ==
  ASSUME NEW m, Memory(m), NEW x \in DOMAIN m, NEW v \in Nat
  PROVE  SizeSet(m, [m EXCEPT ![x].size = v], x, v)
<1> DEFINE r == [m EXCEPT ![x].size = v]
<1>1. DOMAIN r = DOMAIN m OBVIOUS
<1>2. m \in [DOMAIN m -> [size : Nat, next : Pointer, prev : Pointer]] BY DEF Memory
<1>3. \A y \in DOMAIN m : /\ r[y].next = m[y].next /\ r[y].prev = m[y].prev
                          /\ r[y].size = IF y = x THEN v ELSE m[y].size
  BY <1>2
<1>4. r \in [DOMAIN m -> [size : Nat, next : Pointer, prev : Pointer]] BY <1>2
<1>5. Memory(r) BY <1>1, <1>4 DEF Memory
<1>6. QED BY <1>1, <1>3, <1>5 DEF SizeSet

\* Two neighbours that touch become one block, and the ring closes.
LEMMA AbsorbSound ==
  ASSUME NEW m, NEW F, NEW l, NEW x, Memory(m), Linked(m, F), Adjacent(F, l, x),
         l \in Nat, x \in Nat, l + m[l].size = x
  PROVE  Merged(m, Absorb(m, l, x), l, x) /\ Linked(Absorb(m, l, x), F \ {x})
<1> DEFINE v == m[l].size + m[x].size
           g == [m EXCEPT ![l].size = v]
           s == list_remove(g, x)
           r == Restrict(s, DOMAIN m \ {x})
<1>1. /\ F \subseteq DOMAIN m /\ F \subseteq Nat /\ ListHead \notin F /\ ListHead \in DOMAIN m
      /\ l \in F /\ x \in F /\ l # x /\ l # ListHead /\ x # ListHead
  BY DEF Memory, Linked, Adjacent
<1>2. Absorb(m, l, x) = r BY <1>1 DEF Absorb, blocks_are_adjacent
<1>3. v \in Nat BY <1>1 DEF Memory
<1> HIDE DEF v
<1>4. /\ Memory(g) /\ DOMAIN g = DOMAIN m
      /\ \A y \in DOMAIN m : /\ g[y].next = m[y].next /\ g[y].prev = m[y].prev
                             /\ g[y].size = IF y = l THEN v ELSE m[y].size
  <2>1. SizeSet(m, g, l, v) BY <1>1, <1>3, SetSize
  <2>2. QED BY <2>1 DEF SizeSet
<1> HIDE DEF g
<1>5. Linked(g, F) BY <1>1, <1>4, LinkedSame
<1>6. Removed(g, s, x) /\ Linked(s, F \ {x}) BY <1>1, <1>4, <1>5, RemoveSound
<1> HIDE DEF s
<1>7. Memory(s) /\ DOMAIN s = DOMAIN m /\ \A y \in DOMAIN m : s[y].size = g[y].size
  BY <1>4, <1>6 DEF Removed
<1>8. DOMAIN r = DOMAIN m \ {x} /\ \A y \in DOMAIN r : r[y] = s[y] BY DEF Restrict
<1> HIDE DEF r
<1>9. Memory(r)
  <2>1. r = [y \in DOMAIN r |-> r[y]] BY DEF r, Restrict
  <2>2. \A y \in DOMAIN r : r[y] \in [size : Nat, next : Pointer, prev : Pointer]
    BY <1>7, <1>8 DEF Memory
  <2>3. IsFiniteSet(DOMAIN r) BY <1>7, <1>8, FS_Subset DEF Memory
  <2>4. ListHead \in DOMAIN r /\ DOMAIN r \subseteq Nat \cup {ListHead} BY <1>1, <1>8 DEF Memory
  <2>5. r \in [DOMAIN r -> [size : Nat, next : Pointer, prev : Pointer]] BY <2>1, <2>2
  <2>6. QED BY <2>3, <2>4, <2>5 DEF Memory
<1>10. \A y \in DOMAIN r : r[y].size = IF y = l THEN v ELSE m[y].size BY <1>4, <1>7, <1>8
<1>11. Merged(m, r, l, x) BY <1>8, <1>9, <1>10 DEF Merged, v
<1>12. Linked(r, F \ {x})
  <2>1. F \ {x} \subseteq DOMAIN r BY <1>1, <1>8
  <2>2. \A y \in (F \ {x}) \cup {ListHead} : r[y].next = s[y].next /\ r[y].prev = s[y].prev
    BY <1>1, <1>8
  <2>3. QED BY <1>6, <2>1, <2>2, LinkedSame
<1>13. QED BY <1>2, <1>11, <1>12

\* Merging keeps the words that the blocks cover.
LEMMA MergedCover ==
  ASSUME NEW m, NEW r, NEW F, NEW l \in F, NEW x \in F, Memory(m), F \subseteq DOMAIN m,
         F \subseteq Nat, l # x, Merged(m, r, l, x), l + m[l].size = x
  PROVE  Cover(r, F \ {x}) = Cover(m, F)
<1> DEFINE a == m[l].size
           b == m[x].size
<1>1. a \in Nat /\ b \in Nat /\ l \in Nat /\ x = l + a BY DEF Memory
<1>2. /\ F \ {x} \subseteq DOMAIN r
      /\ r[l].size = a + b /\ \A y \in F \ {x, l} : r[y].size = m[y].size
  BY DEF Merged
<1>3. \A y \in F \ {x, l} : Cells(r, y) = Cells(m, y) BY <1>2 DEF Cells
<1>4. Cells(r, l) = l..(l + (a + b) - 1) BY <1>2 DEF Cells
<1>5. Cells(m, l) = l..(l + a - 1) /\ Cells(m, x) = x..(x + b - 1) BY DEF Cells
<1> HIDE DEF a, b
<1>6. Cells(r, l) = Cells(m, l) \cup Cells(m, x) BY <1>1, <1>4, <1>5
<1> HIDE DEF Cells
<1>7. QED BY <1>3, <1>6 DEF Cover

-----------------------------------------------------------------------------
\* The loop of insert_and_coalesce stops at the place of the block.
LEMMA PlaceFound ==
  ASSUME NEW F \in SUBSET Nat, NEW t, Enumerates(t, F), NEW b \in Nat, b \notin F,
         NEW i, i = Min({j \in DOMAIN t : t[j] >= b} \cup {Len(t) + 1})
  PROVE  Place(F, b, IF i = 1 THEN ListHead ELSE t[i - 1], IF i > Len(t) THEN ListHead ELSE t[i])
<1> DEFINE n == Len(t)
           E == {j \in DOMAIN t : t[j] >= b} \cup {n + 1}
<1>1. /\ n \in Nat /\ DOMAIN t = 1..n
      /\ \A j \in 1..n : t[j] \in F /\ t[j] \in Nat
      /\ \A j, k \in 1..n : j < k => t[j] < t[k]
  BY SeqElements, Zenon DEF Enumerates
<1>2. E \in SUBSET Nat /\ E # {} BY <1>1
<1>3. n + 1 \in E /\ \A j \in 1..n : t[j] >= b <=> j \in E BY <1>1
<1>4. E \subseteq 1..(n + 1) BY <1>1
<1>5. i \in E /\ \A j \in E : i <= j
  <2>1. \E j \in E : \A k \in E : j <= k BY <1>2, Least, Zenon
  <2> HIDE DEF E
  <2>2. Min(E) \in E /\ \A k \in E : Min(E) <= k BY <2>1 DEF Min
  <2>3. QED BY <2>2 DEF E
<1>6. i \in 1..(n + 1) BY <1>4, <1>5
<1> HIDE DEF E
<1>7. \A k \in 0..n : Adjacent(F, At(t, k), At(t, k + 1)) BY EnumeratedAdjacent
<1>8. Adjacent(F, At(t, i - 1), At(t, i))
  <2>1. i - 1 \in 0..n /\ (i - 1) + 1 = i BY <1>1, <1>6
  <2>2. QED BY <1>7, <2>1
<1>9. At(t, i - 1) = (IF i = 1 THEN ListHead ELSE t[i - 1]) BY <1>1, <1>6 DEF At
<1>10. At(t, i) = (IF i > n THEN ListHead ELSE t[i]) BY <1>1, <1>6 DEF At
<1>11. i = 1 \/ t[i - 1] < b
  <2>1. SUFFICES ASSUME i # 1 PROVE t[i - 1] < b OBVIOUS
  <2>2. i - 1 \in 1..n /\ ~(i <= i - 1) BY <1>1, <1>6, <2>1
  <2>3. i - 1 \notin E BY <1>5, <2>2
  <2>4. t[i - 1] \in Nat /\ ~(t[i - 1] >= b) BY <1>1, <1>3, <2>2, <2>3
  <2>5. QED BY <2>4
<1>12. i > n \/ b < t[i]
  <2>1. SUFFICES ASSUME ~(i > n) PROVE b < t[i] OBVIOUS
  <2>2. i \in 1..n BY <1>1, <1>6, <2>1
  <2>3. t[i] \in Nat /\ t[i] >= b /\ t[i] # b BY <1>1, <1>3, <1>5, <2>2
  <2>4. QED BY <2>3
<1>13. QED BY <1>8, <1>9, <1>10, <1>11, <1>12 DEF Place

\* Free blocks have room for a header, and no two of them touch.
Gaps(m, F) ==
  /\ \A x \in F : m[x].size >= MinFree
  /\ \A x, y \in F : x < y => x + m[x].size < y

\* The same while the block q may still touch the one above it.
GapsBut(m, F, q) ==
  /\ \A x \in F : m[x].size >= MinFree
  /\ \A x, y \in F : x < y => x + m[x].size <= y /\ (x # q => x + m[x].size < y)

\* b is a block beside those of F.
Beside(m, F, b) ==
  /\ b \in DOMAIN m /\ b \in Nat /\ b \notin F
  /\ m[b].size >= MinFree
  /\ \A x \in F : x + m[x].size <= b \/ b + m[b].size <= x

\* r is m with b among the free blocks G, merged into the block q.
FreedInto(m, F, b, r, G, q) ==
  /\ Memory(r) /\ Linked(r, G)
  /\ G \subseteq F \cup {b} /\ q \in G
  /\ q <= b /\ b + m[b].size <= q + r[q].size
  /\ DOMAIN r = (DOMAIN m \ (F \cup {b})) \cup G
  /\ \A x \in DOMAIN m \ (F \cup {b}) : r[x].size = m[x].size
  /\ Cover(r, G) = Cover(m, F) \cup Cells(m, b)

\* Linking the block in and merging it with its left neighbour.
LEMMA JoinLeft ==
  ASSUME NEW m, NEW F, NEW b, NEW p, NEW c, Memory(m), Linked(m, F), Gaps(m, F),
         Beside(m, F, b), Place(F, b, p, c),
         NEW r, r = Absorb(Link(m, b, p, c), p, b),
         NEW q, q = IF b \in DOMAIN r THEN b ELSE p
  PROVE  \E G : FreedInto(m, F, b, r, G, q) /\ GapsBut(r, G, q)
<1> DEFINE k == Link(m, b, p, c)
           H == F \cup {b}
<1> HIDE DEF k, H
<1>1. /\ F \subseteq DOMAIN m /\ F \subseteq Nat /\ ListHead \notin F /\ ListHead \in DOMAIN m
      /\ b \in DOMAIN m /\ b \in Nat /\ b \notin F /\ b # ListHead
  BY DEF Memory, Linked, Beside
<1>2. p \in F \cup {ListHead} /\ c \in F \cup {ListHead} /\ p # b /\ c # b
  BY <1>1 DEF Place, Adjacent
<1>3. Between(m, k, b, p, c)
  <2>1. p \in DOMAIN m /\ c \in DOMAIN m BY <1>1, <1>2
  <2>2. QED BY <1>1, <1>2, <2>1, LinkBetween DEF k, H
<1>4. Linked(k, H) BY <1>1, <1>3, LinkSound DEF H
<1>5. Memory(k) /\ DOMAIN k = DOMAIN m /\ \A y \in DOMAIN m : k[y].size = m[y].size
  BY <1>3 DEF Between
<1>6. Cover(k, H) = Cover(m, F) \cup Cells(m, b)
  <2>1. \A y \in H : Cells(k, y) = Cells(m, y) BY <1>1, <1>5 DEF Cells, H
  <2>2. QED BY <2>1 DEF Cover, H
<1>7. \A y \in DOMAIN m : m[y].size \in Nat BY DEF Memory
<1>8. Adjacent(H, p, b) BY <1>1, <1>2 DEF Place, Adjacent, H
<1>9. /\ \A x \in F : m[x].size >= MinFree
      /\ \A x, y \in F : x < y => x + m[x].size < y
      /\ m[b].size >= MinFree
      /\ \A x \in F : x + m[x].size <= b \/ b + m[b].size <= x
  BY DEF Gaps, Beside
<1>10. MinFree \in Nat /\ MinFree > 0 BY MinFreePositive
<1>11. \A x \in F : x < b => x + m[x].size <= b
  <2>1. TAKE x \in F
  <2>2. HAVE x < b
  <2> DEFINE sx == m[x].size
             sb == m[b].size
  <2> HIDE DEF sx, sb
  <2>3. sx \in Nat /\ sb \in Nat /\ x \in Nat /\ (x + sx <= b \/ b + sb <= x)
    BY <1>1, <1>7, <1>9 DEF sx, sb
  <2>4. x + sx <= b BY <1>1, <2>2, <2>3
  <2>5. QED BY <2>4 DEF sx
<1>12. \A x \in F : x > b => b + m[b].size <= x
  <2>1. TAKE x \in F
  <2>2. HAVE x > b
  <2> DEFINE sx == m[x].size
             sb == m[b].size
  <2> HIDE DEF sx, sb
  <2>3. sx \in Nat /\ sb \in Nat /\ x \in Nat /\ (x + sx <= b \/ b + sb <= x)
    BY <1>1, <1>7, <1>9 DEF sx, sb
  <2>4. b + sb <= x BY <1>1, <2>2, <2>3
  <2>5. QED BY <2>4 DEF sb
<1>13. CASE p # ListHead /\ p + m[p].size = b
  <2>1. p \in F /\ p \in Nat /\ p + k[p].size = b BY <1>1, <1>2, <1>5, <1>13
  <2>2. Merged(k, r, p, b) /\ Linked(r, H \ {b})
    BY <1>1, <1>4, <1>5, <1>8, <2>1, AbsorbSound, Zenon DEF k
  <2>3. H \ {b} = F BY <1>1 DEF H
  <2>4. /\ Memory(r) /\ DOMAIN r = DOMAIN m \ {b} /\ Linked(r, F)
        /\ \A y \in DOMAIN r : r[y].size = IF y = p THEN m[p].size + m[b].size ELSE m[y].size
    BY <1>1, <1>5, <2>1, <2>2, <2>3, ZenonT(30) DEF Merged
  <2>5. q = p BY <2>4
  <2>6. Cover(r, F) = Cover(m, F) \cup Cells(m, b)
    <3>1. H \subseteq DOMAIN k /\ H \subseteq Nat /\ p \in H /\ b \in H BY <1>1, <1>5, <2>1 DEF H
    <3>2. Cover(r, H \ {b}) = Cover(k, H) BY <1>2, <1>5, <2>1, <2>2, <3>1, MergedCover
    <3>3. QED BY <1>6, <2>3, <3>2
  <2>7. r[p].size = m[p].size + m[b].size /\ \A y \in F : y # p => r[y].size = m[y].size
    BY <1>1, <2>1, <2>4
  <2>8. p <= b /\ b + m[b].size = p + r[p].size
    <3> DEFINE sp == m[p].size
               sb == m[b].size
    <3> HIDE DEF sp, sb
    <3>1. sp \in Nat /\ sb \in Nat /\ r[p].size = sp + sb /\ p + sp = b
      BY <1>1, <1>7, <1>13, <2>1, <2>7 DEF sp, sb
    <3>2. p <= b /\ b + sb = p + (sp + sb) BY <1>1, <2>1, <3>1
    <3>3. QED BY <3>1, <3>2 DEF sb
  <2>9. FreedInto(m, F, b, r, F, q)
    <3>1. DOMAIN r = (DOMAIN m \ (F \cup {b})) \cup F BY <1>1, <2>4
    <3>2. \A x \in DOMAIN m \ (F \cup {b}) : r[x].size = m[x].size BY <2>1, <2>4
    <3>3. b + m[b].size <= p + r[p].size
      <4>1. b + m[b].size \in Nat BY <1>1, <1>7
      <4>2. QED BY <2>8, <4>1
    <3>4. QED BY <2>1, <2>4, <2>5, <2>6, <2>8, <3>1, <3>2, <3>3 DEF FreedInto
  <2>10. GapsBut(r, F, q)
    <3>1. ASSUME NEW x \in F PROVE r[x].size >= MinFree
      <4>1. CASE x # p BY <1>9, <2>7, <4>1
      <4>2. CASE x = p
        <5> DEFINE sp == m[p].size
                   sb == m[b].size
        <5> HIDE DEF sp, sb
        <5>1. sp \in Nat /\ sb \in Nat /\ r[p].size = sp + sb /\ sp >= MinFree
          BY <1>1, <1>7, <1>9, <2>1, <2>7 DEF sp, sb
        <5>2. sp + sb >= MinFree BY <1>10, <5>1
        <5>3. QED BY <4>2, <5>1, <5>2
      <4>3. QED BY <4>1, <4>2
    <3>2. ASSUME NEW x \in F, NEW y \in F, x < y
          PROVE  x + r[x].size <= y /\ (x # q => x + r[x].size < y)
      <4>1. CASE x # p
        <5> DEFINE sx == m[x].size
        <5> HIDE DEF sx
        <5>1. sx \in Nat /\ x \in Nat /\ y \in Nat /\ x + sx < y /\ r[x].size = sx
          BY <1>1, <1>7, <1>9, <2>7, <3>2, <4>1 DEF sx
        <5>2. x + sx <= y BY <5>1
        <5>3. QED BY <5>1, <5>2
      <4>2. CASE x = p
        <5>1. y > b
          <6>1. y \in H /\ y \in Nat /\ ~(p < y /\ y < b) /\ y # b
            BY <1>1, <1>8 DEF Adjacent, H
          <6>2. QED BY <1>1, <3>2, <4>2, <6>1
        <5>2. b + m[b].size <= y BY <1>12, <5>1
        <5>3. QED BY <2>5, <2>8, <4>2, <5>2
      <4>3. QED BY <4>1, <4>2
    <3>3. QED BY <3>1, <3>2 DEF GapsBut
  <2>11. QED BY <2>9, <2>10
<1>14. CASE ~(p # ListHead /\ p + m[p].size = b)
  <2>1. r = k
    <3>1. p = ListHead \/ (p # ListHead /\ p \in DOMAIN m /\ ~(p + k[p].size = b))
      BY <1>1, <1>2, <1>5, <1>14
    <3>2. QED BY <3>1 DEF k, Absorb, blocks_are_adjacent
  <2>2. q = b BY <1>1, <1>5, <2>1
  <2>3. FreedInto(m, F, b, r, H, q)
    <3>1. DOMAIN r = (DOMAIN m \ (F \cup {b})) \cup H BY <1>1, <1>5, <2>1, Zenon DEF H
    <3>2. b <= b /\ b + m[b].size <= b + r[b].size
      <4>1. b + m[b].size \in Nat /\ r[b].size = m[b].size BY <1>1, <1>5, <1>7, <2>1
      <4>2. QED BY <1>1, <4>1
    <3>3. QED BY <1>4, <1>5, <1>6, <2>1, <2>2, <3>1, <3>2, Zenon DEF FreedInto, H
  <2>4. GapsBut(r, H, q)
    <3>1. \A x \in H : r[x].size >= MinFree BY <1>1, <1>5, <1>9, <2>1 DEF H
    <3>2. ASSUME NEW x \in H, NEW y \in H, x < y
          PROVE  x + r[x].size <= y /\ (x # q => x + r[x].size < y)
      <4> DEFINE sx == m[x].size
      <4> HIDE DEF sx
      <4>1. sx \in Nat /\ x \in Nat /\ y \in Nat /\ r[x].size = sx
        BY <1>1, <1>5, <1>7, <2>1 DEF H, sx
      <4>2. CASE x = b
        <5>1. y \in F /\ y > b BY <1>1, <3>2, <4>1, <4>2 DEF H, sx
        <5>2. x + sx <= y BY <1>12, <4>2, <5>1 DEF sx
        <5>3. QED BY <2>2, <4>1, <4>2, <5>2
      <4>3. CASE x # b /\ y # b
        <5>1. x + sx < y BY <1>9, <3>2, <4>3 DEF H, sx
        <5>2. x + sx <= y BY <4>1, <5>1
        <5>3. QED BY <4>1, <5>1, <5>2
      <4>4. CASE x # b /\ y = b
        <5>1. x \in F /\ x + sx <= b BY <1>11, <3>2, <4>4 DEF H, sx
        <5>2. x + sx # b
          <6>1. CASE x = p BY <1>1, <1>14, <5>1, <6>1 DEF sx
          <6>2. CASE x # p
            <7>1. p \in F /\ p \in Nat /\ x < p /\ p < b
              BY <1>1, <1>2, <1>8, <3>2, <4>1, <4>4, <5>1, <6>2 DEF Adjacent
            <7>2. x + sx < p BY <1>9, <5>1, <7>1 DEF sx
            <7>3. QED BY <1>1, <4>1, <7>1, <7>2
          <6>3. QED BY <6>1, <6>2
        <5>3. x + sx < b BY <1>1, <4>1, <5>1, <5>2
        <5>4. QED BY <4>1, <4>4, <5>1, <5>3
      <4>5. QED BY <4>2, <4>3, <4>4
    <3>3. QED BY <3>1, <3>2 DEF GapsBut
  <2>5. QED BY <2>3, <2>4
<1>15. QED BY <1>13, <1>14

\* Merging the block with its right neighbour, which leaves no blocks that
\* touch.
LEMMA JoinRight ==
  ASSUME NEW m, NEW F, NEW b, NEW k, NEW H, NEW q, FreedInto(m, F, b, k, H, q),
         GapsBut(k, H, q), F \subseteq Nat, F \subseteq DOMAIN m, b \in DOMAIN m, b \in Nat,
         m[b].size \in Nat, ListHead \in DOMAIN m, NEW r, r = Absorb(k, q, k[q].next)
  PROVE  \E G : FreedInto(m, F, b, r, G, q) /\ Gaps(r, G)
<1> DEFINE c == k[q].next
<1> HIDE DEF c
<1>1. /\ Memory(k) /\ Linked(k, H)
      /\ H \subseteq F \cup {b} /\ q \in H
      /\ q <= b /\ b + m[b].size <= q + k[q].size
      /\ DOMAIN k = (DOMAIN m \ (F \cup {b})) \cup H
      /\ \A x \in DOMAIN m \ (F \cup {b}) : k[x].size = m[x].size
      /\ Cover(k, H) = Cover(m, F) \cup Cells(m, b)
  BY DEF FreedInto
<1>2. /\ H \subseteq Nat /\ H \subseteq DOMAIN k /\ ListHead \notin H
      /\ q \in Nat /\ q # ListHead /\ \A x \in DOMAIN k : k[x].size \in Nat
  BY <1>1 DEF Memory
<1>3. Adjacent(H, q, c) BY <1>1 DEF Linked, c
<1>4. /\ \A x \in H : k[x].size >= MinFree
      /\ \A x, y \in H : x < y => x + k[x].size <= y /\ (x # q => x + k[x].size < y)
  BY DEF GapsBut
<1>5. MinFree \in Nat /\ MinFree > 0 BY MinFreePositive
<1>6. c = ListHead \/ (c \in H /\ c \in Nat /\ q < c) BY <1>2, <1>3 DEF Adjacent
<1>7. CASE c # ListHead /\ q + k[q].size = c
  <2>1. c \in H /\ c \in Nat /\ q < c /\ q # c BY <1>2, <1>6, <1>7
  <2>2. Merged(k, r, q, c) /\ Linked(r, H \ {c})
    BY <1>1, <1>2, <1>3, <1>7, <2>1, AbsorbSound, Zenon DEF c
  <2> DEFINE G == H \ {c}
             sq == k[q].size
             sc == k[c].size
  <2> HIDE DEF G, sq, sc
  <2>3. /\ Memory(r) /\ DOMAIN r = DOMAIN k \ {c}
        /\ r[q].size = sq + sc /\ \A y \in DOMAIN r : y # q => r[y].size = k[y].size
    BY <1>1, <1>2, <2>1, <2>2 DEF Merged, sq, sc
  <2>4. sq \in Nat /\ sc \in Nat /\ q + sq = c /\ sq >= MinFree
    BY <1>1, <1>2, <1>4, <1>7, <2>1 DEF sq, sc
  <2>5. Cover(r, G) = Cover(m, F) \cup Cells(m, b)
    <3>1. /\ q \in H /\ c \in H /\ Memory(k) /\ H \subseteq DOMAIN k /\ H \subseteq Nat
          /\ q # c /\ Merged(k, r, q, c) /\ q + k[q].size = c
      BY <1>1, <1>2, <1>7, <2>1, <2>2
    <3>2. Cover(r, H \ {c}) = Cover(k, H) BY <3>1, MergedCover
    <3>3. QED BY <1>1, <3>2, Zenon DEF G
  <2>6. b + m[b].size <= q + r[q].size
    <3> DEFINE e == b + m[b].size
    <3> HIDE DEF e
    <3>1. e \in Nat /\ e <= q + sq BY <1>1 DEF sq, e
    <3>2. e <= q + (sq + sc) BY <1>2, <2>4, <3>1
    <3>3. QED BY <2>3, <3>2 DEF e
  <2>7. FreedInto(m, F, b, r, G, q)
    <3>1. c \in F \cup {b} BY <1>1, <2>1
    <3>2. DOMAIN r = (DOMAIN m \ (F \cup {b})) \cup G BY <1>1, <2>3, <3>1 DEF G
    <3>3. q \in F \cup {b} BY <1>1
    <3>4. \A x \in DOMAIN m \ (F \cup {b}) : r[x].size = m[x].size BY <1>1, <2>3, <3>2, <3>3
    <3>5. QED BY <1>1, <2>1, <2>2, <2>3, <2>5, <2>6, <3>2, <3>4, Zenon DEF FreedInto, G, sq, sc
  <2>8. Gaps(r, G)
    <3>0. G \subseteq DOMAIN r BY <1>2, <2>3, Zenon DEF G
    <3>1. ASSUME NEW x \in G PROVE r[x].size >= MinFree
      <4>1. CASE x # q BY <1>4, <2>3, <3>0, <4>1 DEF G, sq, sc
      <4>2. CASE x = q
        <5>1. sq + sc >= MinFree BY <1>5, <2>4
        <5>2. QED BY <2>3, <4>2, <5>1
      <4>3. QED BY <4>1, <4>2
    <3>2. ASSUME NEW x \in G, NEW y \in G, x < y PROVE x + r[x].size < y
      <4>1. CASE x # q BY <1>4, <2>3, <3>0, <3>2, <4>1 DEF G, sq, sc
      <4>2. CASE x = q
        <5>1. c < y BY <1>2, <1>3, <2>1, <3>2, <4>2 DEF Adjacent, G
        <5>2. c + sc < y BY <1>4, <2>1, <5>1 DEF G, sq, sc
        <5>3. y \in Nat BY <1>2, Zenon DEF G, sq, sc
        <5>4. q + (sq + sc) < y BY <1>2, <2>1, <2>4, <5>2, <5>3
        <5>5. QED BY <2>3, <4>2, <5>4
      <4>3. QED BY <4>1, <4>2
    <3>3. QED BY <3>1, <3>2 DEF Gaps
  <2>9. QED BY <2>7, <2>8
<1>8. CASE ~(c # ListHead /\ q + k[q].size = c)
  <2>1. r = k
    <3>1. c = ListHead \/ (c # ListHead /\ q # ListHead /\ ~(q + k[q].size = c)) BY <1>2, <1>8
    <3>2. r = Absorb(k, q, c) BY DEF c
    <3>3. QED BY <1>2, <3>1, <3>2 DEF Absorb, blocks_are_adjacent
  <2>2. ASSUME NEW x \in H, NEW y \in H, x < y PROVE x + k[x].size < y
    <3>1. CASE x # q BY <1>4, <2>2, <3>1
    <3>2. CASE x = q
      <4>1. c # ListHead /\ c \in H /\ c \in Nat /\ q < c /\ c <= y
        BY <1>2, <1>3, <1>6, <2>2, <3>2 DEF Adjacent
      <4> DEFINE sq == k[q].size
      <4> HIDE DEF sq
      <4>2. sq \in Nat /\ q + sq <= c /\ q + sq # c /\ y \in Nat
        BY <1>1, <1>2, <1>4, <1>8, <4>1 DEF sq
      <4>3. q + sq < y BY <1>2, <4>1, <4>2
      <4>4. QED BY <3>2, <4>3 DEF sq
    <3>3. QED BY <3>1, <3>2
  <2>3. Gaps(r, H) BY <1>4, <2>1, <2>2 DEF Gaps
  <2>4. QED BY <2>1, <2>3
<1>9. QED BY <1>7, <1>8

\* r is m with b among the free blocks G.
Freed(m, F, b, r, G) ==
  /\ Gaps(r, G)
  /\ \E q : FreedInto(m, F, b, r, G, q)

\* insert_and_coalesce makes the block a free one: the ring stays in address
\* order, no two free blocks touch, and no word is lost or won.
LEMMA InsertSound ==
  ASSUME NEW m, NEW F, NEW b, Memory(m), Linked(m, F), Gaps(m, F), Beside(m, F, b)
  PROVE  \E G : Freed(m, F, b, insert_and_coalesce(m, b), G)
<1>1. /\ F \subseteq Nat /\ F \subseteq DOMAIN m /\ IsFiniteSet(F) /\ ListHead \in DOMAIN m
      /\ b \in DOMAIN m /\ b \in Nat /\ b \notin F /\ m[b].size \in Nat
  <2>1. IsFiniteSet(F) BY FS_Subset DEF Memory, Linked
  <2>2. QED BY <2>1 DEF Memory, Linked, Beside
<1>2. PICK t : Enumerates(t, F) BY <1>1, Enumeration
<1>3. list_for_each(m, ListHead) = t BY <1>2, Walks
<1> DEFINE i == Min({j \in DOMAIN t : t[j] >= b} \cup {Len(t) + 1})
           p == IF i = 1 THEN ListHead ELSE t[i - 1]
           c == IF i > Len(t) THEN ListHead ELSE t[i]
           k == Absorb(Link(m, b, p, c), p, b)
           q == IF b \in DOMAIN k THEN b ELSE p
           r == Absorb(k, q, k[q].next)
<1> HIDE DEF i, p, c, k, q, r
<1>4. insert_and_coalesce(m, b) = r BY <1>3, ZenonT(30) DEF insert_and_coalesce, r, k, q, p, c, i
<1>5. Place(F, b, p, c)
  <2>1. i = Min({j \in DOMAIN t : t[j] >= b} \cup {Len(t) + 1}) BY DEF i
  <2>2. QED BY <1>1, <1>2, <2>1, PlaceFound, Zenon DEF p, c, k, q, r
<1>6. PICK H : FreedInto(m, F, b, k, H, q) /\ GapsBut(k, H, q)
  <2>1. k = Absorb(Link(m, b, p, c), p, b) /\ q = IF b \in DOMAIN k THEN b ELSE p BY DEF k, q
  <2>2. QED BY <1>5, <2>1, JoinLeft
<1>7. PICK G : FreedInto(m, F, b, r, G, q) /\ Gaps(r, G)
  <2>1. r = Absorb(k, q, k[q].next) BY DEF r
  <2>2. QED BY <1>1, <1>6, <2>1, JoinRight, Zenon
<1>8. QED BY <1>4, <1>7 DEF Freed

-----------------------------------------------------------------------------
\* align_up returns the least multiple that is not below its argument.
LEMMA AlignLeast ==
  ASSUME NEW a \in Nat, NEW k \in Nat \ {0}
  PROVE  \E q \in Nat : AlignUp(a, k) = k * q /\ a <= k * q /\ k * q < a + k
<1> DEFINE x == a + k - 1
           q == x \div k
           r == x % k
<1>1. x \in Nat OBVIOUS
<1>2. q \in Nat /\ r \in Nat /\ r < k /\ x = k * q + r
  <2> HIDE DEF q, r, x
  <2>1. q = x \div k /\ r = x % k BY DEF q, r
  <2>2. QED BY <1>1, <2>1, Division
<1>3. AlignUp(a, k) = q * k BY DEF AlignUp
<1> HIDE DEF q, r
<1>4. q * k = k * q /\ k * q \in Nat BY <1>2
<1>5. a <= k * q /\ k * q < a + k BY <1>2, <1>4
<1>6. QED BY <1>2, <1>3, <1>4, <1>5

\* align_up does not go down, and returns a multiple.
LEMMA AlignBounds ==
  ASSUME NEW a \in Nat, NEW k \in Nat \ {0}
  PROVE  AlignUp(a, k) \in Nat /\ a <= AlignUp(a, k) /\ AlignUp(a, k) % k = 0
<1>1. PICK q \in Nat : AlignUp(a, k) = k * q /\ a <= k * q BY AlignLeast, Zenon
<1>2. k * q \in Nat /\ (k * q) % k = 0 BY <1>1, Multiple
<1>3. QED BY <1>1, <1>2

\* A multiple of k that is not below a is not below align_up of a.
LEMMA AlignBelow ==
  ASSUME NEW a \in Nat, NEW k \in Nat \ {0}, NEW p \in Nat, a <= k * p
  PROVE  AlignUp(a, k) <= k * p
<1>1. PICK q \in Nat : AlignUp(a, k) = k * q /\ a <= k * q /\ k * q < a + k BY AlignLeast, Zenon
<1>2. ~(p < q)
  <2>1. SUFFICES ASSUME p < q PROVE FALSE OBVIOUS
  <2>2. k * (p + 1) <= k * q BY <2>1
  <2>3. k * (p + 1) = k * p + k BY <1>1
  <2> DEFINE u == k * p
             v == k * q
  <2>4. u \in Nat /\ v \in Nat /\ u + k <= v /\ v < a + k /\ a <= u BY <1>1, <2>2, <2>3
  <2> HIDE DEF u, v
  <2>5. QED BY <2>4
<1>3. k * q <= k * p BY <1>2
<1>4. QED BY <1>1, <1>3

\* Moving the start of a block down to s does not move the user's memory in
\* it up, relative to a chunk at a multiple of the alignment.
LEMMA AlignShift ==
  ASSUME NEW k \in Nat \ {0}, NEW p \in Nat, NEW s \in Nat, s <= k * p, NEW x \in Nat
  PROVE  AlignUp(s + x, k) <= k * p + AlignUp(x, k)
<1>1. PICK q \in Nat : AlignUp(x, k) = k * q /\ x <= k * q BY AlignLeast, Zenon
<1>2. p + q \in Nat /\ s + x \in Nat OBVIOUS
<1>3. k * (p + q) = k * p + k * q BY <1>1
<1>4. s + x <= k * (p + q)
  <2> DEFINE u == k * p
             v == k * q
  <2>1. u \in Nat /\ v \in Nat /\ s <= u /\ x <= v BY <1>1
  <2> HIDE DEF u, v
  <2>2. s + x <= u + v BY <2>1
  <2>3. QED BY <1>3, <2>2 DEF u, v
<1>5. AlignUp(s + x, k) <= k * (p + q) BY <1>2, <1>4, AlignBelow
<1>6. QED BY <1>1, <1>3, <1>5

\* Different multiples are at least their unit apart.
LEMMA MultiplesApart ==
  ASSUME NEW k \in Nat \ {0}, NEW c \in Nat, NEW d \in Nat, c % k = 0, d % k = 0, c < d
  PROVE  c + k <= d
<1>1. PICK p \in Nat : c = k * p BY NoRemainder, Zenon
<1>2. PICK q \in Nat : d = k * q BY NoRemainder, Zenon
<1>3. p < q
  <2>1. SUFFICES ASSUME q <= p PROVE FALSE BY <1>1, <1>2
  <2>2. k * q <= k * p BY <2>1
  <2>3. QED BY <1>1, <1>2, <2>2
<1>4. k * (p + 1) <= k * q BY <1>3
<1>5. k * (p + 1) = k * p + k BY <1>1
<1>6. QED BY <1>1, <1>2, <1>4, <1>5

\* A multiple of a multiple is a multiple.
LEMMA MultipleOfMultiple ==
  ASSUME NEW k \in Nat \ {0}, NEW n \in Nat \ {0}, NEW c \in Nat, c % n = 0, n % k = 0
  PROVE  \E p \in Nat : c = k * p
<1>1. PICK p \in Nat : c = n * p BY NoRemainder, Zenon
<1>2. PICK q \in Nat : n = k * q BY NoRemainder, Zenon
<1>3. (k * q) * p = k * (q * p) BY <1>1, <1>2
<1>4. q * p \in Nat BY <1>1, <1>2
<1>5. QED BY <1>1, <1>2, <1>3, <1>4

-----------------------------------------------------------------------------
\* The blocks of S lie apart from each other, in the words of O.
Laid(m, S, O) ==
  /\ \A x, y \in S : x # y => Cells(m, x) \cap Cells(m, y) = {}
  /\ \A x \in S : Cells(m, x) \subseteq O

\* The heap is sound: the free blocks F and the blocks L that are handed out
\* are all there are, each with its header, in the words of O.
Sound(m, F, L, O) ==
  /\ Memory(m) /\ Linked(m, F) /\ Gaps(m, F)
  /\ DOMAIN m = {ListHead} \cup F \cup L /\ F \cap L = {} /\ L \subseteq Nat
  /\ \A x \in L : m[x].size >= MinFree
  /\ Laid(m, F \cup L, O)

\* Two blocks that share no word lie one below the other.
LEMMA ApartOrdered ==
  ASSUME NEW m, NEW x \in Nat, NEW y \in Nat, m[x].size \in Nat, m[y].size \in Nat,
         m[x].size > 0, m[y].size > 0, Cells(m, x) \cap Cells(m, y) = {}
  PROVE  x + m[x].size <= y \/ y + m[y].size <= x
<1> DEFINE a == m[x].size
           b == m[y].size
<1>1. a \in Nat /\ b \in Nat /\ a > 0 /\ b > 0 /\ (x..(x + a - 1)) \cap (y..(y + b - 1)) = {}
  BY DEF Cells
<1> HIDE DEF a, b
<1>2. SUFFICES ASSUME ~(x + a <= y), ~(y + b <= x) PROVE FALSE BY DEF a, b
<1>3. CASE x <= y
  <2>1. y \in x..(x + a - 1) /\ y \in y..(y + b - 1) BY <1>1, <1>2, <1>3
  <2>2. QED BY <1>1, <2>1
<1>4. CASE y <= x
  <2>1. x \in x..(x + a - 1) /\ x \in y..(y + b - 1) BY <1>1, <1>2, <1>4
  <2>2. QED BY <1>1, <2>1
<1>5. QED BY <1>3, <1>4

\* Free blocks with gaps, in words that no block handed out has, lie apart.
LEMMA GapsLaid ==
  ASSUME NEW r, NEW G, NEW L, NEW O, G \subseteq Nat, \A x \in G : r[x].size \in Nat,
         Gaps(r, G), Laid(r, L, O), Cover(r, G) \subseteq O,
         \A y \in L : Cells(r, y) \cap Cover(r, G) = {}
  PROVE  Laid(r, G \cup L, O)
<1>1. \A x \in G : Cells(r, x) \subseteq Cover(r, G) BY DEF Cover
<1>2. ASSUME NEW x \in G, NEW y \in G, x < y PROVE Cells(r, x) \cap Cells(r, y) = {}
  <2> DEFINE a == r[x].size
             b == r[y].size
  <2>1. a \in Nat /\ b \in Nat /\ x \in Nat /\ y \in Nat /\ x + a < y BY <1>2 DEF Gaps
  <2>2. Cells(r, x) = x..(x + a - 1) /\ Cells(r, y) = y..(y + b - 1) BY DEF Cells
  <2> HIDE DEF a, b
  <2>3. QED BY <2>1, <2>2
<1>3. ASSUME NEW x \in G, NEW y \in G, x # y PROVE Cells(r, x) \cap Cells(r, y) = {}
  <2>1. x < y \/ y < x BY <1>3
  <2>2. QED BY <1>2, <2>1, Zenon
<1>4. \A x, y \in L : x # y => Cells(r, x) \cap Cells(r, y) = {} BY DEF Laid
<1>5. \A x \in G, y \in L : Cells(r, x) \cap Cells(r, y) = {} BY <1>1
<1>6. \A x \in G \cup L : Cells(r, x) \subseteq O BY <1>1 DEF Laid
<1> HIDE DEF Cells
<1>7. \A x, y \in G \cup L : x # y => Cells(r, x) \cap Cells(r, y) = {} BY <1>3, <1>4, <1>5
<1>8. QED BY <1>6, <1>7 DEF Laid

\* r is m with the block b freed: the heap is sound, the blocks L are as they
\* were, no word is lost, and some free block holds the words of b.
Returned(m, F, L, b, O, r, G) ==
  /\ Sound(r, G, L, O)
  /\ \A x \in L : r[x].size = m[x].size
  /\ Cover(r, G) = Cover(m, F) \cup Cells(m, b)
  /\ \E q \in G : q <= b /\ b + m[b].size <= q + r[q].size

\* A block that lies apart from all others can be freed.
LEMMA FreeBlock ==
  ASSUME NEW m, NEW F, NEW L, NEW b, NEW O, Memory(m), Linked(m, F), Gaps(m, F),
         b \in Nat, b \notin F \cup L, F \cap L = {}, L \subseteq Nat,
         DOMAIN m = {ListHead} \cup F \cup L \cup {b},
         \A x \in L \cup {b} : m[x].size >= MinFree, Laid(m, (F \cup L) \cup {b}, O)
  PROVE  \E G : Returned(m, F, L, b, O, insert_and_coalesce(m, b), G)
<1> DEFINE r == insert_and_coalesce(m, b)
<1> HIDE DEF r
<1>1. F \subseteq Nat /\ F \subseteq DOMAIN m /\ \A x \in DOMAIN m : m[x].size \in Nat
  BY DEF Linked, Memory
<1>2. MinFree \in Nat /\ MinFree > 0 BY MinFreePositive
<1>3. /\ \A x, y \in (F \cup L) \cup {b} : x # y => Cells(m, x) \cap Cells(m, y) = {}
      /\ \A x \in (F \cup L) \cup {b} : Cells(m, x) \subseteq O
  BY DEF Laid
<1>4. Beside(m, F, b)
  <2>1. ASSUME NEW x \in F PROVE x + m[x].size <= b \/ b + m[b].size <= x
    <3>1. x \in Nat /\ m[x].size \in Nat /\ m[b].size \in Nat /\ Cells(m, x) \cap Cells(m, b) = {}
      BY <1>1, <1>3
    <3>2. m[x].size > 0 /\ m[b].size > 0
      <4> DEFINE s == m[x].size
                 u == m[b].size
      <4> HIDE DEF s, u
      <4>1. s \in Nat /\ u \in Nat /\ s >= MinFree /\ u >= MinFree BY <3>1 DEF Gaps, s, u
      <4>2. s > 0 /\ u > 0 BY <1>2, <4>1
      <4>3. QED BY <4>2 DEF s, u
    <3>3. QED BY <3>1, <3>2, ApartOrdered
  <2>2. QED BY <2>1 DEF Beside
<1>5. PICK G : Freed(m, F, b, r, G) BY <1>4, InsertSound DEF r
<1>6. PICK q : FreedInto(m, F, b, r, G, q) BY <1>5 DEF Freed
<1>7. /\ Memory(r) /\ Linked(r, G) /\ Gaps(r, G) /\ G \subseteq F \cup {b}
      /\ q \in G /\ q <= b /\ b + m[b].size <= q + r[q].size
      /\ DOMAIN r = (DOMAIN m \ (F \cup {b})) \cup G
      /\ \A x \in DOMAIN m \ (F \cup {b}) : r[x].size = m[x].size
      /\ Cover(r, G) = Cover(m, F) \cup Cells(m, b)
  BY <1>5, <1>6 DEF Freed, FreedInto
<1>8. ListHead \notin F /\ ListHead # b BY <1>1, Zenon
<1>9. DOMAIN r = {ListHead} \cup G \cup L /\ G \cap L = {}
  <2>1. DOMAIN m \ (F \cup {b}) = {ListHead} \cup L BY <1>8
  <2>2. G \cap L = {} BY <1>7
  <2>3. QED BY <1>7, <2>1, <2>2, Zenon
<1>10. \A x \in L : x \in DOMAIN m \ (F \cup {b}) /\ r[x].size = m[x].size BY <1>7
<1>11. \A x \in L : Cells(r, x) = Cells(m, x) BY <1>10 DEF Cells
<1>12. Laid(r, G \cup L, O)
  <2>1. G \subseteq Nat /\ \A x \in G : r[x].size \in Nat BY <1>1, <1>7, <1>9 DEF Memory
  <2> HIDE DEF Cells
  <2>2. Laid(r, L, O) BY <1>3, <1>11 DEF Laid
  <2>3. Cover(m, F) \cup Cells(m, b) \subseteq O BY <1>3 DEF Cover
  <2>4. \A y \in L : Cells(m, y) \cap (Cover(m, F) \cup Cells(m, b)) = {} BY <1>3 DEF Cover
  <2>5. QED BY <1>7, <1>11, <2>1, <2>2, <2>3, <2>4, GapsLaid, ZenonT(30)
<1>13. Sound(r, G, L, O) BY <1>7, <1>9, <1>10, <1>12 DEF Sound
<1>14. QED BY <1>7, <1>10, <1>13 DEF Returned, r
=============================================================================
