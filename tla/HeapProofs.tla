----------------------------- MODULE HeapProofs -----------------------------
(***************************************************************************)
(* Proofs about the kernel heap (src/mem/alloc.rs), for any number of      *)
(* blocks, chunks and layouts.                                             *)
(*                                                                         *)
(* From the lemmas of HeapListProofs about the free list, each operation   *)
(* takes a sound heap to a sound heap and says which words it covers       *)
(* (DeallocSound, GrowSound, TakeSound).  The invariant IInv and the       *)
(* theorems follow from these.                                             *)
(***************************************************************************)
EXTENDS HeapListProofs

USE HeadAssumption

\* dealloc: a block handed out is freed.
LEMMA DeallocSound ==
  ASSUME NEW m, NEW F, NEW L, NEW O, NEW b \in L, Sound(m, F, L, O)
  PROVE  \E G : Returned(m, F, L \ {b}, b, O, insert_and_coalesce(init_at(m, b), b), G)
<1> DEFINE s == [m EXCEPT ![b].next = b]
           k == [s EXCEPT ![b].prev = b]
           r == insert_and_coalesce(k, b)
           M == L \ {b}
<1> HIDE DEF s, k, r, M
<1>1. init_at(m, b) = k BY DEF init_at, k, s
<1>2. /\ Memory(m) /\ Linked(m, F) /\ Gaps(m, F)
      /\ DOMAIN m = {ListHead} \cup F \cup L /\ F \cap L = {} /\ L \subseteq Nat
      /\ \A x \in L : m[x].size >= MinFree
      /\ Laid(m, F \cup L, O)
  BY Zenon DEF Sound
<1>3. b \in DOMAIN m /\ b \in Nat /\ b \in Pointer /\ b \notin F BY <1>2 DEF Pointer
<1>4. NextSet(m, s, b, b) BY <1>2, <1>3, SetNext, Zenon DEF s
<1>5. PrevSet(s, k, b, b)
  <2>1. Memory(s) /\ b \in DOMAIN s BY <1>3, <1>4 DEF NextSet
  <2>2. QED BY <1>3, <2>1, SetPrev DEF k, r, M
<1>6. /\ Memory(k) /\ DOMAIN k = DOMAIN m
      /\ \A y \in DOMAIN m : /\ k[y].size = m[y].size
                             /\ y # b => k[y].next = m[y].next /\ k[y].prev = m[y].prev
  BY <1>4, <1>5 DEF NextSet, PrevSet
<1>7. Linked(k, F)
  <2>1. F \subseteq DOMAIN k /\ b # ListHead /\ ListHead \in DOMAIN m BY <1>2, <1>3, <1>6
  <2>2. \A x \in F \cup {ListHead} : k[x].next = m[x].next /\ k[x].prev = m[x].prev
    BY <1>2, <1>3, <1>6, <2>1
  <2>3. QED BY <1>2, <2>1, <2>2, LinkedSame
<1>8. \A x \in F \cup L : k[x].size = m[x].size /\ Cells(k, x) = Cells(m, x)
  BY <1>2, <1>6 DEF Cells
<1>9. Gaps(k, F) BY <1>2, <1>8 DEF Gaps
<1> HIDE DEF Cells
<1>10. (F \cup M) \cup {b} = F \cup L BY DEF M
<1>11. Laid(k, (F \cup M) \cup {b}, O) BY <1>2, <1>8, <1>10 DEF Laid
<1>12. PICK G : Returned(k, F, M, b, O, r, G)
  <2>1. /\ b \notin F \cup M /\ F \cap M = {} /\ M \subseteq Nat
        /\ DOMAIN k = {ListHead} \cup F \cup M \cup {b}
        /\ \A x \in M \cup {b} : k[x].size >= MinFree
    BY <1>2, <1>3, <1>6, <1>8 DEF M
  <2>2. QED BY <1>3, <1>6, <1>7, <1>9, <1>11, <2>1, FreeBlock, ZenonT(30) DEF r
<1>13. Cover(k, F) = Cover(m, F) /\ Cells(k, b) = Cells(m, b) /\ k[b].size = m[b].size
  BY <1>8 DEF Cover
<1>14. Returned(m, F, M, b, O, r, G) BY <1>8, <1>12, <1>13 DEF Returned, M
<1>15. QED BY <1>1, <1>14 DEF r, M

\* r is m with a new node at b, of the given size, in no list.
Created(m, r, b, size) ==
  /\ Memory(r) /\ DOMAIN r = DOMAIN m \cup {b}
  /\ r[b].size = size
  /\ \A y \in DOMAIN m : y # b => r[y] = m[y]

\* HeapNode::init_at
LEMMA CreateSound ==
  ASSUME NEW m, Memory(m), NEW b \in Nat, NEW size \in Nat
  PROVE  Created(m, Create(m, b, size), b, size)
<1> DEFINE n == [y \in DOMAIN m \cup {b} |-> IF y = b THEN uninit(size) ELSE m[y]]
           s == [n EXCEPT ![b].next = b]
           k == [s EXCEPT ![b].prev = b]
<1>1. Create(m, b, size) = k BY DEF Create, init_at
<1>2. b \in Pointer /\ Null \in Pointer BY DEF Pointer
<1>3. Memory(n) /\ DOMAIN n = DOMAIN m \cup {b} /\ n[b] = uninit(size)
  <2>1. DOMAIN n = DOMAIN m \cup {b} OBVIOUS
  <2>2. uninit(size) \in [size : Nat, next : Pointer, prev : Pointer] BY <1>2 DEF uninit
  <2>3. \A y \in DOMAIN m : m[y] \in [size : Nat, next : Pointer, prev : Pointer] BY DEF Memory
  <2>4. n \in [DOMAIN m \cup {b} -> [size : Nat, next : Pointer, prev : Pointer]] BY <2>2, <2>3
  <2>5. IsFiniteSet(DOMAIN m \cup {b}) BY FS_AddElement DEF Memory
  <2>6. DOMAIN m \cup {b} \subseteq Nat \cup {ListHead} BY DEF Memory
  <2>7. ListHead \in DOMAIN m \cup {b} BY DEF Memory
  <2> HIDE DEF n
  <2>8. Memory(n) BY <2>1, <2>4, <2>5, <2>6, <2>7 DEF Memory
  <2>9. QED BY <2>1, <2>8 DEF n
<1>4. \A y \in DOMAIN m : y # b => n[y] = m[y] OBVIOUS
<1> HIDE DEF n
<1>5. NextSet(n, s, b, b) BY <1>2, <1>3, SetNext, Zenon
<1>6. \A y \in DOMAIN n : y # b => s[y] = n[y] OBVIOUS
<1> HIDE DEF s
<1>7. PrevSet(s, k, b, b)
  <2>1. Memory(s) /\ b \in DOMAIN s BY <1>3, <1>5 DEF NextSet
  <2>2. QED BY <1>2, <2>1, SetPrev
<1>8. \A y \in DOMAIN s : y # b => k[y] = s[y] OBVIOUS
<1> HIDE DEF k
<1>9. Memory(k) /\ DOMAIN k = DOMAIN m \cup {b} BY <1>3, <1>5, <1>7 DEF NextSet, PrevSet
<1>10. k[b].size = n[b].size BY <1>3, <1>5, <1>7 DEF NextSet, PrevSet
<1>11. n[b].size = size BY <1>3 DEF uninit
<1>12. \A y \in DOMAIN m : y # b => k[y] = m[y]
  BY <1>3, <1>4, <1>5, <1>6, <1>8 DEF NextSet
<1>13. QED BY <1>1, <1>9, <1>10, <1>11, <1>12 DEF Created

\* r is m with the chunk c as one free block more, or as a part of one.
Grown(m, F, L, O, c, r, G) ==
  /\ Sound(r, G, L, O \cup c..(c + ChunkSize - 1))
  /\ \A x \in L : r[x].size = m[x].size
  /\ Cover(r, G) = Cover(m, F) \cup c..(c + ChunkSize - 1)
  /\ \E q \in G : q <= c /\ c + ChunkSize <= q + r[q].size

\* grow_heap: the words of a chunk that is not the heap's yet become free.
LEMMA GrowSound ==
  ASSUME NEW m, NEW F, NEW L, NEW O, Sound(m, F, L, O), NEW c \in Nat, ChunkSize >= MinFree,
         (c..(c + ChunkSize - 1)) \cap O = {}
  PROVE  \E G : Grown(m, F, L, O, c, grow_heap(m, c), G)
<1> DEFINE k == Create(m, c, ChunkSize)
           r == insert_and_coalesce(k, c)
           C == c..(c + ChunkSize - 1)
           P == O \cup C
<1> HIDE DEF k, r, C, P
<1>1. /\ Memory(m) /\ Linked(m, F) /\ Gaps(m, F)
      /\ DOMAIN m = {ListHead} \cup F \cup L /\ F \cap L = {} /\ L \subseteq Nat
      /\ \A x \in L : m[x].size >= MinFree
      /\ Laid(m, F \cup L, O)
  BY Zenon DEF Sound
<1>2. ChunkSize \in Nat /\ ChunkSize > 0 /\ MinFree \in Nat /\ MinFree > 0
  BY GeometryAssumption DEF MinFree
<1>3. F \subseteq Nat /\ \A x \in F \cup L : x \in Nat /\ m[x].size \in Nat /\ m[x].size >= MinFree
  BY <1>1 DEF Linked, Memory, Gaps
<1>4. \A x \in F \cup L : x \in O
  <2>1. TAKE x \in F \cup L
  <2> DEFINE s == m[x].size
  <2> HIDE DEF s
  <2>2. s \in Nat /\ s >= MinFree /\ x \in Nat /\ x..(x + s - 1) \subseteq O
    BY <1>1, <1>3 DEF Laid, Cells, s
  <2>3. x \in x..(x + s - 1) BY <1>2, <2>2
  <2>4. QED BY <2>2, <2>3
<1>5. c \in C BY <1>2 DEF C
<1>6. c \notin F \cup L /\ c # ListHead BY <1>4, <1>5 DEF C
<1>7. Created(m, k, c, ChunkSize) BY <1>1, <1>2, CreateSound DEF k
<1>8. grow_heap(m, c) = r BY DEF grow_heap, r, k
<1>9. /\ Memory(k) /\ DOMAIN k = ({ListHead} \cup F \cup L) \cup {c} /\ k[c].size = ChunkSize
      /\ \A y \in {ListHead} \cup F \cup L : k[y] = m[y]
  BY <1>1, <1>6, <1>7 DEF Created
<1>10. Linked(k, F)
  <2>1. F \subseteq DOMAIN k BY <1>9
  <2>2. \A x \in F \cup {ListHead} : k[x].next = m[x].next /\ k[x].prev = m[x].prev BY <1>9
  <2>3. QED BY <1>1, <2>1, <2>2, LinkedSame
<1>11. Gaps(k, F) BY <1>1, <1>9 DEF Gaps
<1>12. \A x \in F \cup L : Cells(k, x) = Cells(m, x) BY <1>9 DEF Cells
<1>13. Cells(k, c) = C BY <1>9 DEF Cells, C
<1> HIDE DEF Cells
<1>14. Laid(k, (F \cup L) \cup {c}, P)
  <2>1. /\ \A x, y \in F \cup L : x # y => Cells(k, x) \cap Cells(k, y) = {}
        /\ \A x \in F \cup L : Cells(k, x) \subseteq O
    BY <1>1, <1>12 DEF Laid
  <2>2. C \cap O = {} BY DEF C
  <2>3. QED BY <1>13, <2>1, <2>2 DEF Laid, r, P
<1>15. PICK G : Returned(k, F, L, c, P, r, G)
  <2>1. /\ DOMAIN k = {ListHead} \cup F \cup L \cup {c}
        /\ \A x \in L \cup {c} : k[x].size >= MinFree
    BY <1>1, <1>9
  <2>2. QED BY <1>1, <1>6, <1>9, <1>10, <1>11, <1>14, <2>1, FreeBlock, ZenonT(30) DEF r
<1>16. Sound(r, G, L, P) BY <1>15 DEF Returned
<1>17. \A x \in L : r[x].size = m[x].size BY <1>9, <1>15 DEF Returned
<1>18. Cover(r, G) = Cover(m, F) \cup C BY <1>12, <1>13, <1>15, Zenon DEF Returned, Cover
<1>19. \E q \in G : q <= c /\ c + ChunkSize <= q + r[q].size BY <1>9, <1>15 DEF Returned
<1>20. QED BY <1>8, <1>16, <1>17, <1>18, <1>19 DEF P, C, Grown

-----------------------------------------------------------------------------
\* A layout as normalize_layout returns it.
Normal(l) == l[1] \in Nat \ {0} /\ l[2] \in Nat \ {0}

\* Where a block places the user's memory, and how much of it is used.
LEMMA Placement ==
  ASSUME NEW x \in Nat, NEW l, Normal(l), NEW u, u = user_ptr_for_block(x, l)
  PROVE  /\ u \in Nat /\ u % l[2] = 0 /\ u >= x + Header + BackPtr
         /\ required(x, l) \in Nat /\ required(x, l) >= MinFree
         /\ x + required(x, l) = u + l[1]
<1> DEFINE a == x + Header + BackPtr
           k == l[2]
           n == l[1]
<1>1. a \in Nat /\ k \in Nat \ {0} /\ n \in Nat \ {0} /\ Header \in Nat /\ BackPtr \in Nat
  BY GeometryAssumption DEF Normal
<1>2. u = AlignUp(a, k) BY DEF user_ptr_for_block
<1> HIDE DEF k, n
<1>3. u \in Nat /\ a <= u /\ u % k = 0
  <2> HIDE DEF a
  <2>1. QED BY <1>1, <1>2, AlignBounds
<1>4. required(x, l) = u + n - x BY DEF required, n
<1>5. u + n - x \in Nat /\ u + n - x >= Header + BackPtr + 1 /\ x + (u + n - x) = u + n
  BY <1>1, <1>3
<1>6. QED BY <1>3, <1>4, <1>5 DEF MinFree, k, n

\* The search through the free list finds a block if there is one that fits.
LEMMA FirstFitFound ==
  ASSUME NEW m, NEW F, NEW l, Memory(m), Linked(m, F)
  PROVE  /\ Fitting(m, l) # {} => /\ FirstFit(m, l) \in F
                                  /\ required(FirstFit(m, l), l) <= m[FirstFit(m, l)].size
         /\ \A x \in F : required(x, l) <= m[x].size => Fitting(m, l) # {}
<1>1. F \subseteq Nat /\ IsFiniteSet(F)
  <2>1. IsFiniteSet(F) BY FS_Subset DEF Memory, Linked
  <2>2. QED BY <2>1 DEF Linked
<1>2. PICK t : Enumerates(t, F) BY <1>1, Enumeration
<1>3. list_for_each(m, ListHead) = t BY <1>2, Walks
<1> DEFINE S == {i \in DOMAIN t : required(t[i], l) <= m[t[i]].size}
<1>4. Fitting(m, l) = S BY <1>3 DEF Fitting
<1>5. FirstFit(m, l) = t[Min(S)] BY <1>3, <1>4 DEF FirstFit
<1>6. /\ Len(t) \in Nat /\ DOMAIN t = 1..Len(t) /\ \A i \in 1..Len(t) : t[i] \in F
      /\ \A x \in F : \E i \in 1..Len(t) : t[i] = x
  BY <1>2 DEF Enumerates
<1>7. ASSUME S # {} PROVE t[Min(S)] \in F /\ required(t[Min(S)], l) <= m[t[Min(S)]].size
  <2>1. S \in SUBSET Nat BY <1>6
  <2>2. \E i \in S : \A j \in S : i <= j
    <3> HIDE DEF S
    <3>1. QED BY <1>7, <2>1, Least
  <2>3. Min(S) \in S
    <3> HIDE DEF S
    <3>1. QED BY <2>2 DEF Min
  <2>4. QED BY <1>6, <2>3, Zenon
<1>8. ASSUME NEW x \in F, required(x, l) <= m[x].size PROVE S # {}
  <2>1. PICK i \in 1..Len(t) : t[i] = x BY <1>6
  <2>2. i \in S BY <1>6, <1>8, <2>1
  <2>3. QED BY <2>2
<1> HIDE DEF S
<1>9. QED BY <1>4, <1>5, <1>7, <1>8

\* a is what alloc returns and leaves: a free block of m has become one that
\* is handed out and holds the user's memory, and less than a header's room
\* is lost.
Taken(m, F, L, O, l, a, G) ==
  /\ a.back \in F
  /\ Sound(a.mem, G, L \cup {a.back}, O)
  /\ \A x \in L : a.mem[x].size = m[x].size
  /\ a.user \in Nat /\ a.user % l[2] = 0 /\ a.user >= a.back + Header + BackPtr
  /\ a.user + l[1] = a.back + a.mem[a.back].size
  /\ Cover(a.mem, G \cup {a.back}) \subseteq Cover(m, F)
  /\ \E u \in Nat : Cover(m, F) \subseteq Cover(a.mem, G \cup {a.back}) \cup u..(u + MinFree - 2)

\* cut is m with the block x off the free list, and with words of it from the
\* used ones on among the free blocks G.
TakenOff(m, F, L, x, used, cut, G) ==
  /\ Memory(cut) /\ Linked(cut, G) /\ Gaps(cut, G)
  /\ G \subseteq Nat /\ x \notin G /\ G \cap L = {}
  /\ DOMAIN cut = ({ListHead} \cup G \cup L) \cup {x}
  /\ \A y \in L : cut[y].size = m[y].size
  /\ Cover(cut, G) \subseteq Cover(m, F \ {x}) \cup ((x + used)..(x + m[x].size - 1))

\* r is cut with x handed out.
HandedOut(m, L, O, x, used, cut, G, r) ==
  /\ Sound(r, G, L \cup {x}, O) /\ r[x].size = used
  /\ \A y \in L : r[y].size = m[y].size
  /\ Cover(r, G \cup {x}) = Cover(cut, G) \cup x..(x + used - 1)

\* A block taken off the list, with what is left of it in the list or not: the
\* cases of allocate_from_free_list come together here.
LEMMA CutSound ==
  ASSUME NEW m, NEW F, NEW L, NEW O, Sound(m, F, L, O), NEW x \in F, NEW used \in Nat,
         used >= MinFree, used <= m[x].size, NEW cut, NEW G, TakenOff(m, F, L, x, used, cut, G)
  PROVE  HandedOut(m, L, O, x, used, cut, G, [cut EXCEPT ![x].size = used])
<1> DEFINE z == m[x].size
           r == [cut EXCEPT ![x].size = used]
<1> HIDE DEF z, r
<1>0. /\ Memory(cut) /\ Linked(cut, G) /\ Gaps(cut, G)
      /\ G \subseteq Nat /\ x \notin G /\ G \cap L = {}
      /\ DOMAIN cut = ({ListHead} \cup G \cup L) \cup {x}
      /\ \A y \in L : cut[y].size = m[y].size
      /\ Cover(cut, G) \subseteq Cover(m, F \ {x}) \cup ((x + used)..(x + z - 1))
  BY Zenon DEF TakenOff, z
<1>1. /\ Memory(m) /\ Linked(m, F) /\ Gaps(m, F)
      /\ DOMAIN m = {ListHead} \cup F \cup L /\ F \cap L = {} /\ L \subseteq Nat
      /\ \A y \in L : m[y].size >= MinFree
      /\ Laid(m, F \cup L, O)
  BY DEF Sound
<1>2. F \subseteq Nat /\ x \in Nat /\ z \in Nat /\ x \in DOMAIN cut /\ x # ListHead /\ x \notin L
  BY <1>0, <1>1 DEF Linked, Memory, z
<1>3. /\ Memory(r) /\ DOMAIN r = DOMAIN cut
      /\ \A y \in DOMAIN cut : /\ r[y].next = cut[y].next /\ r[y].prev = cut[y].prev
                               /\ r[y].size = IF y = x THEN used ELSE cut[y].size
  <2>1. SizeSet(cut, r, x, used) BY <1>0, <1>2, SetSize, Zenon DEF r
  <2>2. QED BY <2>1 DEF SizeSet
<1>4. Linked(r, G)
  <2>1. G \subseteq DOMAIN r BY <1>0, <1>3
  <2>2. \A y \in G \cup {ListHead} : r[y].next = cut[y].next /\ r[y].prev = cut[y].prev
    BY <1>0, <1>3
  <2>3. QED BY <1>0, <2>1, <2>2, LinkedSame, ZenonT(30)
<1>5. r[x].size = used /\ \A y \in G \cup L : r[y].size = cut[y].size BY <1>0, <1>2, <1>3
<1>6. Gaps(r, G) BY <1>0, <1>5 DEF Gaps
<1>7. \A y \in L : r[y].size = m[y].size BY <1>0, <1>5, Zenon
<1>8. /\ Cells(r, x) = x..(x + used - 1)
      /\ \A y \in G : Cells(r, y) = Cells(cut, y)
      /\ \A y \in L : Cells(r, y) = Cells(m, y)
  BY <1>5, <1>7 DEF Cells
<1>9. Cover(r, G) = Cover(cut, G) BY <1>8, CoverSame
<1>10. Cover(r, G \cup {x}) = Cover(cut, G) \cup x..(x + used - 1)
  <2>1. Cover(r, G \cup {x}) = Cover(r, G) \cup Cells(r, x) BY CoverAdd, Zenon
  <2>2. QED BY <1>8, <1>9, <2>1, Zenon
<1>11. Cells(m, x) = (x..(x + used - 1)) \cup ((x + used)..(x + z - 1))
       /\ (x..(x + used - 1)) \cap ((x + used)..(x + z - 1)) = {}
  <2>1. Cells(m, x) = x..(x + z - 1) BY DEF Cells, z
  <2>2. used <= z BY DEF z
  <2>3. QED BY <1>2, <2>1, <2>2
<1> DEFINE low == x..(x + used - 1)
           high == (x + used)..(x + z - 1)
<1> HIDE DEF low, high
<1>12. Cover(cut, G) \subseteq Cover(m, F \ {x}) \cup high BY <1>0, ZenonT(30) DEF high
<1>13. Cells(m, x) = low \cup high /\ low \cap high = {} BY <1>11 DEF low, high
<1>14. Cells(r, x) = low BY <1>8 DEF low
<1> HIDE DEF Cells
<1>15. /\ \A y, w \in F \cup L : y # w => Cells(m, y) \cap Cells(m, w) = {}
       /\ \A y \in F \cup L : Cells(m, y) \subseteq O
  BY <1>1 DEF Laid
<1>16. Laid(r, L \cup {x}, O)
  <2>1. \A y \in L : Cells(r, y) \cap Cells(r, x) = {}
    BY <1>2, <1>8, <1>13, <1>14, <1>15, ZenonT(30)
  <2>2. \A y, w \in L : y # w => Cells(r, y) \cap Cells(r, w) = {} BY <1>8, <1>15
  <2>3. \A y \in L \cup {x} : Cells(r, y) \subseteq O BY <1>8, <1>13, <1>14, <1>15
  <2>4. QED BY <2>1, <2>2, <2>3 DEF Laid
<1>17. Laid(r, G \cup (L \cup {x}), O)
  <2>1. Cover(r, G) \subseteq O
    <3>1. Cover(m, F \ {x}) \subseteq O BY <1>15 DEF Cover
    <3>2. high \subseteq O BY <1>13, <1>15
    <3>3. QED BY <1>9, <1>12, <3>1, <3>2
  <2>2. ASSUME NEW y \in L \cup {x} PROVE Cells(r, y) \cap Cover(r, G) = {}
    <3>1. CASE y = x
      <4>1. Cells(m, x) \cap Cover(m, F \ {x}) = {} BY <1>15 DEF Cover
      <4>2. QED BY <1>9, <1>12, <1>13, <1>14, <3>1, <4>1
    <3>2. CASE y \in L
      <4>1. Cells(m, y) \cap Cover(m, F \ {x}) = {} BY <1>1, <1>15, <3>2 DEF Cover
      <4>2. Cells(m, y) \cap Cells(m, x) = {} BY <1>2, <1>15, <3>2
      <4>3. QED BY <1>8, <1>9, <1>12, <1>13, <3>2, <4>1, <4>2, Zenon
    <3>3. QED BY <3>1, <3>2
  <2>3. \A y \in G : r[y].size \in Nat BY <1>0, <1>3 DEF Memory
  <2>4. QED BY <1>0, <1>6, <1>16, <2>1, <2>2, <2>3, GapsLaid, Zenon
<1>18. /\ DOMAIN r = {ListHead} \cup G \cup (L \cup {x}) /\ G \cap (L \cup {x}) = {}
       /\ L \cup {x} \subseteq Nat /\ \A y \in L \cup {x} : r[y].size >= MinFree
  <2>1. DOMAIN r = {ListHead} \cup G \cup (L \cup {x}) BY <1>0, <1>3
  <2>2. G \cap (L \cup {x}) = {} BY <1>0
  <2>3. L \cup {x} \subseteq Nat BY <1>1, <1>2
  <2>4. \A y \in L : r[y].size >= MinFree BY <1>1, <1>7
  <2>5. r[x].size >= MinFree BY <1>5
  <2>6. QED BY <2>1, <2>2, <2>3, <2>4, <2>5
<1>19. Sound(r, G, L \cup {x}, O) BY <1>3, <1>4, <1>6, <1>17, <1>18, ZenonT(30) DEF Sound
<1>20. QED BY <1>5, <1>7, <1>10, <1>19, Zenon DEF HandedOut, r

\* The same, with all these words among the free blocks.
RestOff(m, F, L, x, used, cut, G) ==
  /\ TakenOff(m, F, L, x, used, cut, G)
  /\ Cover(cut, G) = Cover(m, F \ {x}) \cup ((x + used)..(x + m[x].size - 1))

\* What is left of a block, when it has room for a header, is freed again.
LEMMA RestFreed ==
  ASSUME NEW m, NEW F, NEW L, NEW O, Sound(m, F, L, O), NEW x \in F, NEW used \in Nat,
         NEW left \in Nat, used > 0, left >= MinFree, used + left = m[x].size,
         NEW cut, cut = insert_and_coalesce(Create(list_remove(m, x), x + used, left), x + used)
  PROVE  \E G : RestOff(m, F, L, x, used, cut, G)
<1> DEFINE z == m[x].size
           E == F \ {x}
           rest == x + used
           s == list_remove(m, x)
           k == Create(s, rest, left)
<1> HIDE DEF z, E, rest, s, k
<1>1. /\ Memory(m) /\ Linked(m, F) /\ Gaps(m, F)
      /\ DOMAIN m = {ListHead} \cup F \cup L /\ F \cap L = {} /\ L \subseteq Nat
      /\ \A y \in L : m[y].size >= MinFree
      /\ Laid(m, F \cup L, O)
  BY DEF Sound
<1>2. F \subseteq Nat /\ x \in Nat /\ z \in Nat /\ \A y \in F \cup L : y \in Nat /\ m[y].size \in Nat
  BY <1>1 DEF Linked, Memory, z
<1>3. MinFree \in Nat /\ MinFree > 0 BY MinFreePositive
<1>4. rest \in Nat /\ rest > x /\ rest \in Cells(m, x)
  <2>1. Cells(m, x) = x..(x + z - 1) BY DEF Cells, z
  <2>2. z = used + left BY DEF z
  <2>3. QED BY <1>2, <1>3, <2>1, <2>2 DEF E, rest, s, k
<1>5. \A y \in F \cup L : y \in Cells(m, y)
  <2>1. TAKE y \in F \cup L
  <2> DEFINE a == m[y].size
  <2> HIDE DEF a
  <2>2. y \in Nat /\ a \in Nat /\ a >= MinFree BY <1>1, <1>2 DEF Gaps, a
  <2>3. Cells(m, y) = y..(y + a - 1) BY DEF Cells, a
  <2>4. QED BY <1>3, <2>2, <2>3
<1>6. rest \notin F \cup L
  <2>1. SUFFICES ASSUME rest \in F \cup L PROVE FALSE OBVIOUS
  <2>2. rest # x BY <1>2, <1>4
  <2>3. rest \in Cells(m, rest) BY <1>5, <2>1
  <2>4. Cells(m, rest) \cap Cells(m, x) = {} BY <1>1, <2>1, <2>2 DEF Laid
  <2>5. QED BY <1>4, <2>3, <2>4
<1>7. Removed(m, s, x) /\ Linked(s, E) BY <1>1, RemoveSound DEF E, s
<1>8. Memory(s) /\ DOMAIN s = DOMAIN m /\ \A y \in DOMAIN m : s[y].size = m[y].size
  BY <1>7 DEF Removed
<1>9. Created(s, k, rest, left) BY <1>4, <1>8, CreateSound DEF k
<1>10. /\ Memory(k) /\ DOMAIN k = ({ListHead} \cup F \cup L) \cup {rest} /\ k[rest].size = left
       /\ \A y \in {ListHead} \cup F \cup L : k[y] = s[y] /\ k[y].size = m[y].size
  <2>1. rest # ListHead BY <1>4
  <2>2. QED BY <1>1, <1>6, <1>8, <1>9, <2>1, Zenon DEF Created
<1>11. Linked(k, E)
  <2>1. E \subseteq DOMAIN k BY <1>10 DEF E
  <2>2. \A y \in E \cup {ListHead} : k[y].next = s[y].next /\ k[y].prev = s[y].prev BY <1>10 DEF E
  <2>3. QED BY <1>7, <2>1, <2>2, LinkedSame
<1>12. Gaps(k, E) BY <1>1, <1>10 DEF Gaps, E
<1>13. Beside(k, E, rest)
  <2>1. ASSUME NEW y \in E PROVE y + k[y].size <= rest \/ rest + k[rest].size <= y
    <3> DEFINE a == m[y].size
    <3> HIDE DEF a
    <3>1. a \in Nat /\ y \in Nat /\ y # x /\ k[y].size = a /\ (y < x => y + a < x) /\ (x < y => x + z < y)
      BY <1>1, <1>2, <1>10 DEF Gaps, z, E, a
    <3>2. k[rest].size = left /\ rest = x + used /\ z = used + left BY <1>10 DEF rest, z
    <3>3. y + a <= rest \/ rest + left <= y BY <1>2, <3>1, <3>2
    <3>4. QED BY <3>1, <3>2, <3>3
  <2>2. QED BY <1>4, <1>6, <1>10, <2>1 DEF Beside, E
<1>14. PICK G : Freed(k, E, rest, cut, G)
  <2>1. cut = insert_and_coalesce(k, rest) BY DEF k, s, rest
  <2>2. Memory(k) BY <1>10
  <2>3. \E G : Freed(k, E, rest, insert_and_coalesce(k, rest), G)
    BY <1>11, <1>12, <1>13, <2>2, InsertSound
  <2>4. QED BY <2>1, <2>3
<1>15. PICK q : FreedInto(k, E, rest, cut, G, q) BY <1>14 DEF Freed
<1>16. /\ Memory(cut) /\ Linked(cut, G) /\ Gaps(cut, G) /\ G \subseteq E \cup {rest}
       /\ DOMAIN cut = (DOMAIN k \ (E \cup {rest})) \cup G
       /\ \A y \in DOMAIN k \ (E \cup {rest}) : cut[y].size = k[y].size
       /\ Cover(cut, G) = Cover(k, E) \cup Cells(k, rest)
  BY <1>14, <1>15, ZenonT(30) DEF Freed, FreedInto
<1>17. G \subseteq Nat /\ x \notin G /\ G \cap L = {}
  BY <1>1, <1>2, <1>4, <1>6, <1>16, Zenon DEF z, E
<1>18. ListHead \notin F /\ ListHead # rest BY <1>2, <1>4, Zenon
<1>19. DOMAIN cut = ({ListHead} \cup G \cup L) \cup {x}
  BY <1>1, <1>6, <1>10, <1>16, <1>18, ZenonT(30) DEF E
<1>20. \A y \in L : cut[y].size = m[y].size
  <2>1. \A y \in L : y \in DOMAIN k \ (E \cup {rest}) BY <1>1, <1>6, <1>10, ZenonT(30) DEF E
  <2>2. QED BY <1>10, <1>16, <2>1, ZenonT(30)
<1>21. Cover(k, E) = Cover(m, E)
  <2>1. \A y \in E : Cells(k, y) = Cells(m, y) BY <1>10 DEF Cells, E
  <2>2. QED BY <2>1, CoverSame
<1>22. Cells(k, rest) = (x + used)..(x + m[x].size - 1)
  <2>1. Cells(k, rest) = rest..(rest + left - 1) BY <1>10 DEF Cells
  <2>2. rest = x + used /\ z = used + left /\ m[x].size = z BY DEF rest, z
  <2>3. rest + left - 1 = x + z - 1 BY <1>2, <2>2
  <2>4. QED BY <2>1, <2>2, <2>3
<1>23. QED BY <1>16, <1>17, <1>19, <1>20, <1>21, <1>22, ZenonT(30) DEF RestOff, TakenOff, E

\* allocate_from_free_list hands out the first block that fits.
LEMMA TakeSound ==
  ASSUME NEW m, NEW F, NEW L, NEW O, Sound(m, F, L, O), NEW l, Normal(l), Fitting(m, l) # {},
         NEW a, a = allocate_from_free_list(m, l)
  PROVE  \E G : Taken(m, F, L, O, l, a, G)
<1> DEFINE x == FirstFit(m, l)
           used == required(x, l)
           z == m[x].size
           left == z - used
           s == list_remove(m, x)
           cut == IF left < MinFree THEN s
                  ELSE insert_and_coalesce(Create(s, x + used, left), x + used)
           r == [cut EXCEPT ![x].size = used]
           low == x..(x + used - 1)
           high == (x + used)..(x + z - 1)
<1> HIDE DEF x, used, z, left, s, cut, r, low, high
<1>1. /\ Memory(m) /\ Linked(m, F) /\ Gaps(m, F)
      /\ DOMAIN m = {ListHead} \cup F \cup L /\ F \cap L = {} /\ L \subseteq Nat
  BY DEF Sound
<1>2. x \in F /\ used <= z BY <1>1, FirstFitFound, Zenon DEF x, used, z
<1>3. a.mem = r /\ a.user = user_ptr_for_block(x, l) /\ a.back = x
  BY DEF allocate_from_free_list, x, r, used, cut, left, s, z
<1>4. F \subseteq Nat /\ x \in Nat /\ z \in Nat /\ x \in DOMAIN m
  BY <1>1, <1>2 DEF Linked, Memory, z
<1>5. /\ a.user \in Nat /\ a.user % l[2] = 0 /\ a.user >= x + Header + BackPtr
      /\ used \in Nat /\ used >= MinFree /\ x + used = a.user + l[1]
  BY <1>3, <1>4, Placement DEF used
<1>6. MinFree \in Nat /\ MinFree > 0 BY MinFreePositive
<1>7. left \in Nat /\ used + left = z /\ used > 0
  <2>1. QED BY <1>2, <1>4, <1>5, <1>6 DEF left, s, cut, r, low, high
<1>8. Cover(m, F) = Cover(m, F \ {x}) \cup Cells(m, x)
  <2>1. F = (F \ {x}) \cup {x} BY <1>2
  <2>2. QED BY <2>1, CoverAdd
<1>9. Cells(m, x) = low \cup high
  <2>1. Cells(m, x) = x..(x + z - 1) BY DEF Cells, z
  <2>2. QED BY <1>2, <1>4, <1>5, <2>1 DEF left, s, cut, r, low, high
<1>10. ASSUME NEW G, Sound(r, G, L \cup {x}, O), r[x].size = used, \A y \in L : r[y].size = m[y].size,
              NEW C, Cover(r, G \cup {x}) = C \cup low, C \subseteq Cover(m, F \ {x}) \cup high,
              NEW u \in Nat, Cover(m, F \ {x}) \cup high \subseteq C \cup u..(u + MinFree - 2)
       PROVE  Taken(m, F, L, O, l, a, G)
  <2>1. /\ a.back \in F /\ Sound(a.mem, G, L \cup {a.back}, O)
        /\ \A y \in L : a.mem[y].size = m[y].size
    BY <1>2, <1>3, <1>10
  <2>2. /\ a.user \in Nat /\ a.user % l[2] = 0 /\ a.user >= a.back + Header + BackPtr
        /\ a.user + l[1] = a.back + a.mem[a.back].size
    BY <1>3, <1>5, <1>10
  <2>3. Cover(r, G \cup {x}) \subseteq Cover(m, F) BY <1>8, <1>9, <1>10, Zenon
  <2>4. Cover(m, F) \subseteq Cover(r, G \cup {x}) \cup u..(u + MinFree - 2)
    BY <1>8, <1>9, <1>10, ZenonT(30)
  <2>5. Cover(a.mem, G \cup {a.back}) = Cover(r, G \cup {x}) BY <1>3
  <2>6. QED BY <2>1, <2>2, <2>3, <2>4, <2>5, ZenonT(30) DEF Taken
<1>11. CASE left < MinFree
  <2> DEFINE G == F \ {x}
  <2> HIDE DEF G
  <2>1. cut = s BY <1>11 DEF s, cut
  <2>2. Removed(m, s, x) /\ Linked(s, G) BY <1>1, <1>2, RemoveSound DEF s, G
  <2>3. Memory(s) /\ DOMAIN s = DOMAIN m /\ \A y \in DOMAIN m : s[y].size = m[y].size
    BY <2>2, ZenonT(30) DEF Removed
  <2>4. Gaps(s, G) BY <1>1, <2>3 DEF Gaps, G
  <2>5. Cover(s, G) = Cover(m, G)
    <3>1. \A y \in G : Cells(s, y) = Cells(m, y) BY <1>1, <2>3 DEF Cells, G
    <3>2. QED BY <3>1, CoverSame
  <2>6. /\ G \subseteq Nat /\ x \notin G /\ G \cap L = {}
        /\ DOMAIN s = ({ListHead} \cup G \cup L) \cup {x}
        /\ \A y \in L : s[y].size = m[y].size
    BY <1>1, <1>2, <1>4, <2>3 DEF G
  <2>7. Cover(s, G) \subseteq Cover(m, F \ {x}) \cup ((x + used)..(x + m[x].size - 1))
    BY <2>5 DEF G
  <2>8. r = [s EXCEPT ![x].size = used] BY <2>1 DEF r
  <2>9. /\ Sound(r, G, L \cup {x}, O) /\ r[x].size = used
        /\ \A y \in L : r[y].size = m[y].size
        /\ Cover(r, G \cup {x}) = Cover(s, G) \cup x..(x + used - 1)
    <3>1. TakenOff(m, F, L, x, used, s, G) BY <2>2, <2>3, <2>4, <2>6, <2>7, Zenon DEF TakenOff
    <3>2. HandedOut(m, L, O, x, used, s, G, r)
      BY <1>2, <1>5, <2>8, <3>1, CutSound, ZenonT(30) DEF z
    <3>3. QED BY <3>2, Zenon DEF HandedOut
  <2>10. high \subseteq (x + used)..((x + used) + MinFree - 2) /\ x + used \in Nat
    <3>1. left \in Nat /\ z = used + left /\ left <= MinFree - 1 BY <1>6, <1>7, <1>11
    <3>2. QED BY <1>4, <1>5, <1>6, <3>1 DEF cut, low, high
  <2>11. Taken(m, F, L, O, l, a, G)
    <3>1. Cover(s, G) = Cover(m, F \ {x}) BY <2>5 DEF G
    <3> DEFINE C == Cover(s, G)
               u == x + used
    <3> HIDE DEF C, u
    <3>2. C \subseteq Cover(m, F \ {x}) \cup high BY <3>1 DEF C
    <3>3. Cover(m, F \ {x}) \cup high \subseteq C \cup u..(u + MinFree - 2)
      BY <2>10, <3>1, Zenon DEF C, u
    <3>4. u \in Nat BY <2>10 DEF u
    <3>5. Cover(r, G \cup {x}) = C \cup low BY <2>9, Zenon DEF low, C
    <3>6. QED BY <1>10, <2>9, <3>2, <3>3, <3>4, <3>5, Zenon
  <2>12. QED BY <2>11
<1>12. CASE ~(left < MinFree)
  <2>1. cut = insert_and_coalesce(Create(s, x + used, left), x + used) BY <1>12 DEF left, s, cut
  <2>2. left >= MinFree /\ used + left = m[x].size
    <3>1. used + left = m[x].size BY <1>7 DEF left, z
    <3>2. left >= MinFree BY <1>6, <1>7, <1>12
    <3>3. QED BY <3>1, <3>2
  <2>3. PICK G : /\ TakenOff(m, F, L, x, used, cut, G)
                 /\ Cover(cut, G) = Cover(m, F \ {x}) \cup ((x + used)..(x + m[x].size - 1))
    <3>1. cut = insert_and_coalesce(Create(list_remove(m, x), x + used, left), x + used)
      BY <2>1 DEF s
    <3>2. x \in F /\ used \in Nat /\ left \in Nat /\ used > 0 BY <1>2, <1>5, <1>7
    <3>3. \E G : RestOff(m, F, L, x, used, cut, G) BY <2>2, <3>1, <3>2, RestFreed, Zenon
    <3>4. QED BY <3>3, Zenon DEF RestOff
  <2>4. r = [cut EXCEPT ![x].size = used] BY DEF cut, r
  <2>5. HandedOut(m, L, O, x, used, cut, G, r) BY <1>2, <1>5, <2>3, <2>4, CutSound, Zenon DEF z
  <2>6. /\ Sound(r, G, L \cup {x}, O) /\ r[x].size = used
        /\ \A y \in L : r[y].size = m[y].size
        /\ Cover(r, G \cup {x}) = Cover(cut, G) \cup x..(x + used - 1)
    BY <2>5, ZenonT(30) DEF HandedOut
  <2>7. Taken(m, F, L, O, l, a, G)
    <3> DEFINE C == Cover(cut, G)
    <3> HIDE DEF C
    <3>1. C = Cover(m, F \ {x}) \cup high BY <2>3 DEF high, C, z
    <3>2. Cover(r, G \cup {x}) = C \cup low BY <2>6, Zenon DEF low, C
    <3>3. 0 \in Nat /\ Cover(m, F \ {x}) \cup high \subseteq C \cup 0..(0 + MinFree - 2) BY <3>1
    <3>4. C \subseteq Cover(m, F \ {x}) \cup high BY <3>1
    <3>5. QED BY <1>10, <2>6, <3>2, <3>3, <3>4, Zenon
  <2>8. QED BY <2>7
<1>13. QED BY <1>11, <1>12

-----------------------------------------------------------------------------
\* The blocks behind the memory of B.
Back(B) == {b.back : b \in B}

\* Every user's memory in B lies in its block, which is its own.
Handed(m, B) ==
  /\ \A b \in B : /\ b.user % b.layout[2] = 0
                  /\ b.user >= b.back + Header + BackPtr
                  /\ b.user + b.layout[1] <= b.back + m[b.back].size
  /\ \A b, c \in B : b # c => b.back # c.back

FreeBlocks == Blocks \ Back(live)

\* The inductive invariant: with its head initialised, the heap is sound in
\* the words of its chunks, and the users' memory lies in their blocks.
IInv ==
  /\ Memory(node)
  /\ Sound(Ready, FreeBlocks, Back(live), Owned)
  /\ Handed(node, live)
  /\ chunks \subseteq Chunks /\ IsFiniteSet(Owned)

\* The head of the list is initialised; nothing else is touched.
HeadReady(m, r) ==
  /\ Memory(r) /\ DOMAIN r = DOMAIN m
  /\ \A x \in DOMAIN m : r[x].size = m[x].size
  /\ m[ListHead].next = Null => r[ListHead].next = ListHead /\ r[ListHead].prev = ListHead

\* ensure_head_initialized
LEMMA HeadInitialised ==
  ASSUME NEW m, Memory(m)
  PROVE  HeadReady(m, ensure_head_initialized(m))
<1> DEFINE s == [m EXCEPT ![ListHead].next = ListHead]
           k == [s EXCEPT ![ListHead].prev = ListHead]
<1>1. init_at(m, ListHead) = k BY DEF init_at
<1>2. ListHead \in DOMAIN m /\ ListHead \in Pointer BY DEF Memory, Pointer
<1>3. NextSet(m, s, ListHead, ListHead) BY <1>2, SetNext
<1> HIDE DEF s
<1>4. PrevSet(s, k, ListHead, ListHead)
  <2>1. Memory(s) /\ ListHead \in DOMAIN s BY <1>2, <1>3 DEF NextSet
  <2>2. QED BY <1>2, <2>1, SetPrev
<1> HIDE DEF k
<1>5. HeadReady(m, k) BY <1>2, <1>3, <1>4 DEF NextSet, PrevSet, HeadReady
<1>6. m[ListHead].next # Null => HeadReady(m, m) BY DEF HeadReady
<1>7. QED BY <1>1, <1>5, <1>6 DEF ensure_head_initialized

\* In a sound heap it is already, and the free blocks are those not handed out.
LEMMA Settled ==
  ASSUME NEW n, NEW G, NEW L, NEW O, Sound(n, G, L, O)
  PROVE  ensure_head_initialized(n) = n /\ (DOMAIN n \ {ListHead}) \ L = G
<1>1. /\ Linked(n, G) /\ DOMAIN n = {ListHead} \cup G \cup L /\ G \cap L = {} /\ L \subseteq Nat
  BY DEF Sound
<1>2. G \subseteq Nat /\ Adjacent(G, ListHead, n[ListHead].next)
      /\ Adjacent(G, n[ListHead].prev, ListHead)
  BY <1>1 DEF Linked
<1>3. n[ListHead].next \in G \cup {ListHead} /\ n[ListHead].prev \in G \cup {ListHead}
  BY <1>2 DEF Adjacent
<1>4. n[ListHead].next # Null /\ n[ListHead].prev # Null BY <1>2, <1>3, Zenon
<1>5. ensure_head_initialized(n) = n BY <1>4 DEF ensure_head_initialized
<1>6. (DOMAIN n \ {ListHead}) \ L = G BY <1>1, <1>2, Zenon
<1>7. QED BY <1>5, <1>6

\* What a step has to show.
LEMMA Established ==
  ASSUME NEW G, Sound(node', G, Back(live'), Owned'), Handed(node', live'),
         chunks' \subseteq Chunks, IsFiniteSet(Owned')
  PROVE  IInv'
<1> DEFINE n == node'
           L == Back(live')
           O == Owned'
<1>1. ensure_head_initialized(n) = n /\ (DOMAIN n \ {ListHead}) \ L = G
  <2>1. Sound(n, G, L, O) OBVIOUS
  <2> HIDE DEF n, L, O
  <2>2. QED BY <2>1, Settled
<1>2. Ready' = node' BY <1>1 DEF Ready
<1>3. FreeBlocks' = G BY <1>1 DEF FreeBlocks, Blocks, Back
<1>4. Memory(node') BY DEF Sound
<1>5. Sound(Ready', FreeBlocks', Back(live'), Owned') BY <1>2, <1>3
<1>6. QED BY <1>4, <1>5 DEF IInv

-----------------------------------------------------------------------------
\* The words of all blocks.
Covered(m, F, L) == Cover(m, F) \cup Cover(m, L)

\* The words of two sets of blocks.
LEMMA CoverUnion ==
  ASSUME NEW m, NEW F, NEW L
  PROVE  Cover(m, F \cup L) = Covered(m, F, L)
BY DEF Cover, Covered

\* What is lost in a state of the invariant.
LEMMA LostReady ==
  ASSUME IInv
  PROVE  Lost = Owned \ Covered(Ready, FreeBlocks, Back(live))
<1>1. /\ Memory(node)
      /\ DOMAIN Ready = {ListHead} \cup FreeBlocks \cup Back(live) /\ Back(live) \subseteq Nat
  BY DEF IInv, Sound
<1>2. DOMAIN Ready = DOMAIN node /\ \A x \in DOMAIN node : Ready[x].size = node[x].size
  BY <1>1, HeadInitialised DEF Ready, HeadReady
<1>3. Blocks = FreeBlocks \cup Back(live) BY <1>1, <1>2 DEF Blocks, FreeBlocks
<1>4. \A x \in Blocks : Cells(Ready, x) = Span(x) BY <1>2 DEF Blocks, Cells, Span
<1>5. UNION {Span(x) : x \in Blocks} = Cover(Ready, FreeBlocks \cup Back(live))
  BY <1>3, <1>4 DEF Cover
<1>6. QED BY <1>5, CoverUnion DEF Lost

\* What is lost after a step.
LEMMA LostAfter ==
  ASSUME NEW G, Sound(node', G, Back(live'), Owned')
  PROVE  Lost' = Owned' \ Covered(node', G, Back(live'))
<1>1. DOMAIN node' = {ListHead} \cup G \cup Back(live') /\ Back(live') \subseteq Nat
      /\ G \subseteq Nat
  BY DEF Sound, Linked
<1>2. Blocks' = G \cup Back(live') BY <1>1, Zenon DEF Blocks
<1>3. \A x \in Blocks' : Cells(node', x) = x..(x + node'[x].size - 1) BY DEF Cells
<1>4. UNION {x..(x + node'[x].size - 1) : x \in Blocks'} = Cover(node', G \cup Back(live'))
  BY <1>2, <1>3, Zenon DEF Cover
<1>5. Lost' = Owned' \ UNION {x..(x + node'[x].size - 1) : x \in Blocks'} BY DEF Lost, Span
<1>6. QED BY <1>4, <1>5, CoverUnion

\* What a step may lose.
Conserved ==
  /\ Lost \subseteq Lost'
  /\ Cardinality(Lost') < Cardinality(Lost) + MinFree
  /\ live' \subseteq live => Lost' = Lost

\* The words D are covered by the words E but for less than a header's room.
NearlyAll(D, E) == E \subseteq D /\ \E u \in Nat : D \subseteq E \cup u..(u + MinFree - 2)

\* Then few words of O are lost.
LEMMA FewLost ==
  ASSUME NEW O, IsFiniteSet(O), NEW D, NEW E, NearlyAll(D, E)
  PROVE  O \ D \subseteq O \ E /\ Cardinality(O \ E) < Cardinality(O \ D) + MinFree
<1>1. MinFree \in Nat /\ MinFree >= 1 BY GeometryAssumption DEF MinFree
<1>2. PICK u \in Nat : D \subseteq E \cup u..(u + MinFree - 2) BY DEF NearlyAll
<1> DEFINE A == O \ D
           B == O \ E
           I == u..(u + MinFree - 2)
<1> HIDE DEF A, B, I
<1>3. A \subseteq B /\ B \subseteq A \cup I BY <1>2 DEF NearlyAll, A, B, I
<1>4. IsFiniteSet(A) BY FS_Difference, Zenon DEF A
<1>5. IsFiniteSet(I) /\ Cardinality(I) <= MinFree - 1
  <2>1. u + MinFree - 2 \in Int /\ u \in Int BY <1>1
  <2>2. IsFiniteSet(I) /\ Cardinality(I) = IF u > u + MinFree - 2 THEN 0
                                           ELSE (u + MinFree - 2) - u + 1
    BY <2>1, FS_Interval DEF I
  <2>3. QED BY <1>1, <2>2
<1>6. IsFiniteSet(A \cup I) /\ Cardinality(A \cup I) <= Cardinality(A) + Cardinality(I)
  <2>1. IsFiniteSet(A \cup I)
        /\ Cardinality(A \cup I) = Cardinality(A) + Cardinality(I) - Cardinality(A \cap I)
    BY <1>4, <1>5, FS_Union
  <2>2. IsFiniteSet(A \cap I) BY <1>4, FS_Intersection
  <2>3. Cardinality(A \cap I) \in Nat /\ Cardinality(A) \in Nat /\ Cardinality(I) \in Nat
    BY <1>4, <1>5, <2>2, FS_CardinalityType
  <2>4. QED BY <2>1, <2>3
<1>7. IsFiniteSet(B) /\ Cardinality(B) <= Cardinality(A \cup I) BY <1>3, <1>6, FS_Subset
<1>8. /\ Cardinality(A) \in Nat /\ Cardinality(B) \in Nat /\ Cardinality(I) \in Nat
      /\ Cardinality(A \cup I) \in Nat
  BY <1>4, <1>5, <1>6, <1>7, FS_CardinalityType
<1>9. Cardinality(B) < Cardinality(A) + MinFree BY <1>1, <1>5, <1>6, <1>7, <1>8
<1>10. QED BY <1>3, <1>9 DEF A, B

-----------------------------------------------------------------------------
\* normalize_layout keeps the alignment and asks for no less.
LEMMA Normalised ==
  ASSUME NEW layout \in Layouts, NEW l, l = normalize_layout(layout)
  PROVE  Normal(l) /\ l[2] = layout[2] /\ layout[1] <= l[1] /\ layout[1] \in Nat
<1>1. layout[1] \in Nat /\ layout[2] \in Nat \ {0} BY LayoutsAssumption
<1>2. l[1] = (IF layout[1] = 0 THEN 1 ELSE layout[1]) /\ l[2] = layout[2]
  BY DEF normalize_layout
<1> DEFINE x == layout[1]
           y == l[1]
<1>3. x \in Nat /\ y = IF x = 0 THEN 1 ELSE x BY <1>1, <1>2
<1> HIDE DEF x, y
<1>4. y \in Nat \ {0} /\ x <= y BY <1>3
<1>5. QED BY <1>1, <1>2, <1>4 DEF x, y, Normal

\* What a successful alloc does to the heap m in the words of O.
Allocated(m, F, O, G) ==
  /\ Sound(node', G, Back(live'), O) /\ Handed(node', live')
  /\ NearlyAll(Covered(m, F, Back(live)), Covered(node', G, Back(live')))
  /\ ~(live' \subseteq live)

\* The memory allocate_from_free_list returns joins the users' memory.
LEMMA TakeStep ==
  ASSUME NEW m, NEW F, NEW O, Sound(m, F, Back(live), O), Handed(m, live),
         NEW layout \in Layouts, Fitting(m, normalize_layout(layout)) # {}, Take(m, layout)
  PROVE  \E G : Allocated(m, F, O, G)
<1> DEFINE l == normalize_layout(layout)
           L == Back(live)
           a == allocate_from_free_list(m, l)
           e == [user |-> a.user, layout |-> layout, back |-> a.back]
<1> HIDE DEF l, L, a, e
<1>1. node' = a.mem /\ live' = live \cup {e} BY DEF Take, a, e, l
<1>2. Normal(l) /\ l[2] = layout[2] /\ layout[1] <= l[1] /\ layout[1] \in Nat BY Normalised DEF l
<1>3. Fitting(m, l) # {} BY DEF l
<1>4. e.user = a.user /\ e.layout = layout /\ e.back = a.back BY DEF a, e
<1>5. PICK G : Taken(m, F, L, O, l, a, G)
  <2>1. a = allocate_from_free_list(m, l) BY DEF a
  <2>2. Sound(m, F, L, O) BY DEF L
  <2>3. QED BY <1>2, <1>3, <2>1, <2>2, TakeSound
<1>6. /\ a.back \in F /\ Sound(node', G, L \cup {a.back}, O)
      /\ \A x \in L : node'[x].size = m[x].size
      /\ a.user \in Nat /\ a.user % l[2] = 0 /\ a.user >= a.back + Header + BackPtr
      /\ a.user + l[1] = a.back + node'[a.back].size
      /\ Cover(node', G \cup {a.back}) \subseteq Cover(m, F)
  BY <1>1, <1>5, ZenonT(30) DEF Taken
<1>7. PICK u \in Nat : Cover(m, F) \subseteq Cover(node', G \cup {a.back}) \cup u..(u + MinFree - 2)
  BY <1>1, <1>5, ZenonT(30) DEF Taken
<1>8. Back(live') = L \cup {a.back} BY <1>1, <1>4 DEF Back, L
<1>9. F \cap L = {} /\ a.back \notin L BY <1>6, Zenon DEF Sound, L
<1>10. e \notin live
  <2>1. \A b \in live : b.back \in L BY ZenonT(30) DEF Back, L
  <2>2. QED BY <1>4, <1>9, <2>1, ZenonT(30)
<1>11. Handed(node', live')
  <2>1. \A b \in live : b.back \in L /\ node'[b.back].size = m[b.back].size BY <1>6 DEF Back, L
  <2>2. ASSUME NEW b \in live
        PROVE  /\ b.user % b.layout[2] = 0
               /\ b.user >= b.back + Header + BackPtr
               /\ b.user + b.layout[1] <= b.back + node'[b.back].size
    BY <2>1 DEF Handed
  <2>3. /\ e.user % e.layout[2] = 0 /\ e.user >= e.back + Header + BackPtr
        /\ e.user + e.layout[1] <= e.back + node'[e.back].size
    <3>1. e.user % e.layout[2] = 0 /\ e.user >= e.back + Header + BackPtr BY <1>2, <1>4, <1>6
    <3> DEFINE user == a.user
               n == l[1]
               k == layout[1]
               end == a.back + node'[a.back].size
    <3> HIDE DEF user, n, k, end
    <3>2. user \in Nat /\ n \in Nat /\ k \in Nat /\ k <= n /\ user + n = end
      BY <1>2, <1>6, Zenon DEF Normal, user, n, k, end
    <3>3. user + k <= end BY <3>2
    <3>4. e.user + e.layout[1] <= e.back + node'[e.back].size BY <1>4, <3>3 DEF user, k, end
    <3>5. QED BY <3>1, <3>4
  <2>4. \A b, c \in live' : b # c => b.back # c.back
    <3>1. \A b, c \in live : b # c => b.back # c.back BY DEF Handed
    <3>2. QED BY <1>1, <1>4, <1>9, <2>1, <3>1
  <2>5. ASSUME NEW b \in live'
        PROVE  /\ b.user % b.layout[2] = 0
               /\ b.user >= b.back + Header + BackPtr
               /\ b.user + b.layout[1] <= b.back + node'[b.back].size
    <3>1. b \in live \/ b = e BY <1>1
    <3>2. CASE b = e BY <2>3, <3>2
    <3>3. QED BY <2>2, <3>1, <3>2, Zenon
  <2>6. QED BY <2>4, <2>5 DEF Handed
<1>12. NearlyAll(Covered(m, F, L), Covered(node', G, Back(live')))
  <2> DEFINE C == Cover(m, L)
             A == Cover(m, F)
             B == Cover(node', G \cup {a.back})
             I == u..(u + MinFree - 2)
  <2> HIDE DEF C, A, B, I
  <2>1. Cover(node', L) = C BY <1>6, Zenon DEF Cover, Cells, L, C
  <2>2. Covered(node', G, L \cup {a.back}) = B \cup C
    BY <2>1 DEF Covered, Cover, L, C, B
  <2>3. Covered(m, F, L) = A \cup C BY DEF Covered, L, C, A
  <2>4. B \subseteq A /\ A \subseteq B \cup I BY <1>6, <1>7, Zenon DEF A, B, I
  <2>5. B \cup C \subseteq A \cup C /\ A \cup C \subseteq (B \cup C) \cup I BY <2>4
  <2>6. NearlyAll(A \cup C, B \cup C) BY <2>5 DEF NearlyAll, I
  <2>7. QED BY <1>8, <2>2, <2>3, <2>6
<1>13. ~(live' \subseteq live) BY <1>1, <1>10
<1>14. QED BY <1>6, <1>8, <1>11, <1>12, <1>13, ZenonT(30) DEF Allocated, L

\* The users' memory lies in its blocks before and after the head is
\* initialised.
LEMMA ReadyHanded ==
  ASSUME IInv
  PROVE  Handed(Ready, live)
<1>1. Memory(node) /\ Handed(node, live) /\ DOMAIN Ready = {ListHead} \cup FreeBlocks \cup Back(live)
  BY DEF IInv, Sound
<1>2. DOMAIN Ready = DOMAIN node /\ \A x \in DOMAIN node : Ready[x].size = node[x].size
  BY <1>1, HeadInitialised DEF Ready, HeadReady
<1>3. \A b \in live : b.back \in DOMAIN node BY <1>1, <1>2 DEF Back
<1>4. \A b \in live : Ready[b.back].size = node[b.back].size BY <1>2, <1>3
<1>5. QED BY <1>1, <1>4 DEF Handed

\* A chunk that is not the heap's has no word of it.
LEMMA ChunkApart ==
  ASSUME chunks \subseteq Chunks, NEW c \in Chunks \ chunks
  PROVE  c \in Nat /\ (c..(c + ChunkSize - 1)) \cap Owned = {}
<1>1. ChunkSize \in Nat \ {0} /\ c \in Nat /\ c % ChunkSize = 0 BY GeometryAssumption
<1>2. ASSUME NEW d \in chunks PROVE (c..(c + ChunkSize - 1)) \cap (d..(d + ChunkSize - 1)) = {}
  <2>1. d \in Nat /\ d % ChunkSize = 0 /\ d # c BY GeometryAssumption
  <2>2. c + ChunkSize <= d \/ d + ChunkSize <= c
    <3>1. CASE c < d BY <1>1, <2>1, <3>1, MultiplesApart, Zenon
    <3>2. CASE d < c BY <1>1, <2>1, <3>2, MultiplesApart, Zenon
    <3>3. QED BY <1>1, <2>1, <3>1, <3>2
  <2>3. QED BY <1>1, <2>1, <2>2
<1>3. QED BY <1>1, <1>2 DEF Owned

\* A block that holds a whole chunk fits a request that is not refused,
\* wherever in the block the chunk lies.
LEMMA ChunkFits ==
  ASSUME NEW l, Normal(l), ChunkSize % l[2] = 0 \/ l[2] % ChunkSize = 0,
         required(0, l) <= ChunkSize, NEW c \in Nat, c % ChunkSize = 0, NEW q \in Nat, q <= c,
         NEW size \in Nat, c + ChunkSize <= q + size
  PROVE  required(q, l) <= size
<1> DEFINE x == Header + BackPtr
           n == l[1]
           k == l[2]
           low == AlignUp(x, k)
           user == AlignUp(q + x, k)
<1> HIDE DEF x, n, k, low, user
<1>1. x \in Nat /\ x > 0 /\ n \in Nat \ {0} /\ k \in Nat \ {0} /\ ChunkSize \in Nat \ {0}
  BY GeometryAssumption DEF Normal, x, n, k
<1>2. required(0, l) = low + n /\ required(q, l) = user + n - q
  <2>1. Header \in Nat /\ BackPtr \in Nat BY GeometryAssumption
  <2>2. 0 + Header + BackPtr = x /\ q + Header + BackPtr = q + x BY <2>1 DEF x
  <2>3. required(0, l) = low + n - 0 /\ required(q, l) = user + n - q
    BY <2>2 DEF required, user_ptr_for_block, n, low, user, x, k
  <2>4. low \in Nat BY <1>1, AlignBounds DEF low
  <2>5. QED BY <1>1, <2>3, <2>4
<1>3. PICK j \in Nat : low = k * j /\ x <= k * j BY <1>1, AlignLeast, Zenon DEF x, k, low
<1>4. k <= low
  <2>1. j # 0 BY <1>1, <1>3
  <2>2. k * 1 <= k * j BY <1>1, <1>3, <2>1
  <2>3. QED BY <1>1, <1>3, <2>2
<1>5. low \in Nat /\ k < ChunkSize
  <2>1. low \in Nat BY <1>1, <1>3
  <2>2. QED BY <1>1, <1>2, <1>4, <2>1
<1>6. ChunkSize % k = 0
  <2>1. SUFFICES ASSUME k % ChunkSize = 0 PROVE FALSE BY DEF k
  <2>2. PICK i \in Nat : k = ChunkSize * i BY <1>1, <2>1, NoRemainder
  <2>3. i # 0 BY <1>1, <2>2
  <2>4. ChunkSize * 1 <= ChunkSize * i BY <1>1, <2>3
  <2>5. QED BY <1>1, <1>5, <2>2, <2>4
<1>7. PICK p \in Nat : c = k * p
  <2>1. QED BY <1>1, <1>6, MultipleOfMultiple, Zenon
<1>8. user <= c + low
  <2>1. QED BY <1>1, <1>7, AlignShift, Zenon DEF n, low, user
<1>9. user \in Nat
  <2>1. q + x \in Nat BY <1>1
  <2>2. QED BY <1>1, <2>1, AlignBounds DEF n, low, user
<1>10. user + n - q <= size BY <1>1, <1>2, <1>5, <1>8, <1>9
<1>11. QED BY <1>2, <1>10

\* What growing the heap by the chunk c makes of it.
GrownFor(layout, c, G) ==
  /\ Grown(Ready, FreeBlocks, Back(live), Owned, c, grow_heap(Ready, c), G)
  /\ Fitting(grow_heap(Ready, c), normalize_layout(layout)) # {}

\* One chunk more is enough for a request that is not refused.
LEMMA OneChunk ==
  ASSUME IInv, NEW layout \in Layouts, NEW c \in Chunks \ chunks, ~TooLarge(layout)
  PROVE  \E G : GrownFor(layout, c, G)
<1> DEFINE l == normalize_layout(layout)
           r == grow_heap(Ready, c)
<1> HIDE DEF l, r
<1>1. Sound(Ready, FreeBlocks, Back(live), Owned) /\ chunks \subseteq Chunks BY DEF IInv
<1>2. c \in Nat /\ (c..(c + ChunkSize - 1)) \cap Owned = {} BY <1>1, ChunkApart
<1>3. Normal(l) /\ l[2] = layout[2] BY Normalised DEF l
<1>4. ChunkSize \in Nat \ {0} /\ c % ChunkSize = 0 /\ MinFree \in Nat
  BY GeometryAssumption DEF MinFree
<1>5. ChunkSize % l[2] = 0 \/ l[2] % ChunkSize = 0 BY <1>3, LayoutsAssumption
<1>6. required(0, l) \in Nat /\ required(0, l) >= MinFree
  <2>1. 0 \in Nat OBVIOUS
  <2>2. QED BY <1>3, <2>1, Placement
<1>7. required(0, l) <= ChunkSize BY <1>4, <1>6 DEF TooLarge, l
<1>8. ChunkSize >= MinFree BY <1>4, <1>6, <1>7
<1>9. PICK G : Grown(Ready, FreeBlocks, Back(live), Owned, c, r, G)
  BY <1>1, <1>2, <1>8, GrowSound DEF r
<1>10. PICK q \in G : q <= c /\ c + ChunkSize <= q + r[q].size BY <1>9 DEF Grown
<1>11. Memory(r) /\ Linked(r, G) BY <1>9 DEF Grown, Sound
<1>12. q \in Nat /\ q \in DOMAIN r /\ r[q].size \in Nat BY <1>11 DEF Memory, Linked
<1>13. required(q, l) <= r[q].size
  <2> DEFINE size == r[q].size
  <2> HIDE DEF size
  <2>1. size \in Nat /\ c + ChunkSize <= q + size BY <1>10, <1>12 DEF size
  <2>2. required(q, l) <= size BY <1>2, <1>3, <1>4, <1>5, <1>7, <1>10, <1>12, <2>1, ChunkFits
  <2>3. QED BY <2>2 DEF size
<1>14. Fitting(r, l) # {} BY <1>11, <1>13, FirstFitFound, Zenon
<1>15. QED BY <1>9, <1>14 DEF GrownFor, l, r

-----------------------------------------------------------------------------
\* A new heap has no blocks.
LEMMA InitInv ==
  ASSUME Init
  PROVE  IInv
<1>1. node = [n \in {ListHead} |-> uninit(0)] /\ live = {} /\ chunks = {} BY DEF Init
<1>2. DOMAIN node = {ListHead} /\ node[ListHead] = uninit(0) BY <1>1
<1>3. Memory(node)
  <2>1. uninit(0) \in [size : Nat, next : Pointer, prev : Pointer] BY DEF uninit, Pointer
  <2>2. IsFiniteSet({ListHead}) BY FS_Singleton, Zenon
  <2>3. QED BY <1>1, <1>2, <2>1, <2>2 DEF Memory
<1>4. node[ListHead].next = Null BY <1>2 DEF uninit
<1>5. /\ Memory(Ready) /\ DOMAIN Ready = {ListHead}
      /\ Ready[ListHead].next = ListHead /\ Ready[ListHead].prev = ListHead
  BY <1>2, <1>3, <1>4, HeadInitialised DEF Ready, HeadReady
<1>6. Back(live) = {} /\ FreeBlocks = {} BY <1>1, <1>2 DEF Back, FreeBlocks, Blocks
<1>7. Linked(Ready, {}) BY <1>5 DEF Linked, Adjacent
<1>8. Sound(Ready, {}, {}, Owned) BY <1>5, <1>7 DEF Sound, Gaps, Laid
<1>9. Owned = {} BY <1>1 DEF Owned
<1>10. IsFiniteSet(Owned) BY <1>9, FS_EmptySet
<1>11. Handed(node, live) BY <1>1 DEF Handed
<1>12. QED BY <1>1, <1>3, <1>6, <1>8, <1>10, <1>11 DEF IInv

\* A step from the words D to the words E conserves memory if it drops at most
\* a remainder, and that only when it hands memory out.
LEMMA Conserves ==
  ASSUME NEW O, IsFiniteSet(O), NEW D, NEW E, NearlyAll(D, E), Lost = O \ D, Lost' = O \ E,
         live' \subseteq live => E = D
  PROVE  Conserved
<1>1. O \ D \subseteq O \ E /\ Cardinality(O \ E) < Cardinality(O \ D) + MinFree BY FewLost, Zenon
<1>2. QED BY <1>1 DEF Conserved

\* alloc from the free list.
LEMMA AllocStep ==
  ASSUME IInv, NEW layout \in Layouts, Alloc(layout)
  PROVE  IInv' /\ Conserved
<1>1. /\ Sound(Ready, FreeBlocks, Back(live), Owned) /\ Handed(Ready, live)
      /\ chunks \subseteq Chunks /\ IsFiniteSet(Owned)
  BY ReadyHanded DEF IInv
<1>2. /\ Fitting(Ready, normalize_layout(layout)) # {} /\ Take(Ready, layout)
      /\ chunks' = chunks /\ Owned' = Owned
  BY DEF Alloc, HasRoom, Owned
<1>3. PICK G : Allocated(Ready, FreeBlocks, Owned, G) BY <1>1, <1>2, TakeStep
<1>4. /\ Sound(node', G, Back(live'), Owned') /\ Handed(node', live')
      /\ NearlyAll(Covered(Ready, FreeBlocks, Back(live)), Covered(node', G, Back(live')))
      /\ ~(live' \subseteq live)
  BY <1>2, <1>3 DEF Allocated
<1>5. IInv' BY <1>1, <1>2, <1>4, Established
<1>6. Lost = Owned \ Covered(Ready, FreeBlocks, Back(live)) BY LostReady
<1>7. Lost' = Owned \ Covered(node', G, Back(live')) BY <1>2, <1>4, LostAfter
<1>8. Conserved BY <1>1, <1>4, <1>6, <1>7, Conserves
<1>9. QED BY <1>5, <1>8

\* alloc after growing the heap: the chunk itself adds no lost word.
LEMMA GrowStep ==
  ASSUME IInv, NEW layout \in Layouts, AllocGrows(layout)
  PROVE  IInv' /\ Conserved
<1>1. /\ Sound(Ready, FreeBlocks, Back(live), Owned) /\ Handed(Ready, live)
      /\ chunks \subseteq Chunks /\ IsFiniteSet(Owned)
  BY ReadyHanded DEF IInv
<1>2. PICK c \in Chunks \ chunks : chunks' = chunks \cup {c} /\ Take(grow_heap(Ready, c), layout)
  BY DEF AllocGrows
<1> DEFINE C == c..(c + ChunkSize - 1)
           O == Owned \cup C
           r == grow_heap(Ready, c)
           L == Back(live)
<1> HIDE DEF C, O, r, L
<1>3. Owned' = O BY <1>2 DEF Owned, O, C
<1>4. c \in Nat /\ C \cap Owned = {} BY <1>1, <1>2, ChunkApart DEF C
<1>5. IsFiniteSet(O)
  <2>1. c \in Int /\ c + ChunkSize - 1 \in Int BY <1>4, GeometryAssumption
  <2>2. IsFiniteSet(C) BY <2>1, FS_Interval DEF C
  <2>3. QED BY <1>1, <2>2, FS_Union, Zenon DEF C, O, r, L
<1>6. ~TooLarge(layout) BY DEF AllocGrows
<1>7. PICK F : GrownFor(layout, c, F) BY <1>2, <1>6, OneChunk
<1>8. /\ Sound(r, F, L, O) /\ \A x \in L : r[x].size = Ready[x].size
      /\ Cover(r, F) = Cover(Ready, FreeBlocks) \cup C
      /\ Fitting(r, normalize_layout(layout)) # {} /\ Take(r, layout)
  BY <1>2, <1>7, ZenonT(30) DEF GrownFor, Grown, C, O, r, L
<1>9. Handed(r, live)
  <2>1. \A b \in live : r[b.back].size = Ready[b.back].size BY <1>8 DEF Back, L
  <2>2. QED BY <1>1, <2>1 DEF Handed
<1>10. PICK G : Allocated(r, F, O, G)
  <2>1. QED BY <1>8, <1>9, TakeStep DEF L
<1>11. /\ Sound(node', G, Back(live'), Owned') /\ Handed(node', live')
       /\ NearlyAll(Covered(r, F, L), Covered(node', G, Back(live')))
       /\ ~(live' \subseteq live)
  BY <1>3, <1>10 DEF Allocated, L
<1>12. chunks' \subseteq Chunks BY <1>1, <1>2
<1>13. IInv' BY <1>3, <1>5, <1>11, <1>12, Established
<1>14. Lost = O \ Covered(r, F, L)
  <2>1. Cover(r, L) = Cover(Ready, L) BY <1>8 DEF Cover, Cells
  <2>2. Lost = Owned \ (Cover(Ready, FreeBlocks) \cup Cover(Ready, L)) BY LostReady DEF Covered, L
  <2>3. Covered(r, F, L) = (Cover(Ready, FreeBlocks) \cup C) \cup Cover(Ready, L)
    BY <1>8, <2>1 DEF Covered
  <2>4. QED BY <1>4, <2>2, <2>3 DEF O
<1>15. Lost' = O \ Covered(node', G, Back(live')) BY <1>3, <1>11, LostAfter
<1>16. Conserved BY <1>5, <1>11, <1>14, <1>15, Conserves
<1>17. QED BY <1>13, <1>16

\* alloc that returns null leaves the heap with its head initialised.
LEMMA FailStep ==
  ASSUME IInv, NEW layout \in Layouts, AllocFails(layout)
  PROVE  IInv' /\ Conserved
<1>1. /\ Sound(Ready, FreeBlocks, Back(live), Owned) /\ Handed(Ready, live)
      /\ chunks \subseteq Chunks /\ IsFiniteSet(Owned)
  BY ReadyHanded DEF IInv
<1>2. node' = Ready /\ live' = live /\ chunks' = chunks /\ Owned' = Owned
  BY DEF AllocFails, Owned
<1> DEFINE D == Covered(Ready, FreeBlocks, Back(live))
<1>3. Sound(node', FreeBlocks, Back(live'), Owned') /\ Handed(node', live') BY <1>1, <1>2
<1>4. IInv' BY <1>1, <1>2, <1>3, Established
<1>5. Lost = Owned \ D BY LostReady
<1>6. Lost' = Owned \ D
  <2>1. Lost' = Owned' \ Covered(node', FreeBlocks, Back(live')) BY <1>3, LostAfter
  <2>2. QED BY <1>2, <2>1
<1>7. NearlyAll(D, D) BY DEF NearlyAll
<1> HIDE DEF D
<1>8. Conserved BY <1>1, <1>5, <1>6, <1>7, Conserves
<1>9. QED BY <1>4, <1>8

\* dealloc loses nothing.
LEMMA DeallocStep ==
  ASSUME IInv, NEW b \in live, Dealloc(b)
  PROVE  IInv' /\ Conserved
<1>1. /\ Sound(Ready, FreeBlocks, Back(live), Owned) /\ Handed(Ready, live)
      /\ chunks \subseteq Chunks /\ IsFiniteSet(Owned)
  BY ReadyHanded DEF IInv
<1>2. /\ node' = insert_and_coalesce(init_at(Ready, b.back), b.back)
      /\ live' = live \ {b} /\ chunks' = chunks /\ Owned' = Owned
  BY DEF Dealloc, Owned
<1> DEFINE x == b.back
           L == Back(live)
           M == L \ {x}
<1> HIDE DEF x, L, M
<1>3. x \in L BY DEF Back, x, L
<1>4. Back(live') = M
  <2>1. \A c \in live : c # b => c.back # b.back BY <1>1 DEF Handed
  <2>2. QED BY <1>2, <2>1 DEF Back, x, L, M
<1>5. PICK G : Returned(Ready, FreeBlocks, M, x, Owned, node', G)
  <2>1. \E G : Returned(Ready, FreeBlocks, L \ {x}, x, Owned,
                        insert_and_coalesce(init_at(Ready, x), x), G)
    BY <1>1, <1>3, DeallocSound DEF L
  <2>2. QED BY <1>2, <2>1 DEF M, x
<1>6. /\ Sound(node', G, Back(live'), Owned')
      /\ \A y \in M : node'[y].size = Ready[y].size
      /\ Cover(node', G) = Cover(Ready, FreeBlocks) \cup Cells(Ready, x)
  BY <1>2, <1>4, <1>5 DEF Returned
<1>7. Handed(node', live')
  <2>1. \A c \in live' : c \in live /\ node'[c.back].size = Ready[c.back].size
    BY <1>2, <1>4, <1>6, ZenonT(30) DEF Back
  <2>2. QED BY <1>1, <2>1 DEF Handed
<1>8. IInv' BY <1>1, <1>2, <1>6, <1>7, Established
<1> DEFINE D == Covered(Ready, FreeBlocks, Back(live))
<1> HIDE DEF D
<1>9. Covered(node', G, Back(live')) = D
  <2>1. Cover(node', M) = Cover(Ready, M) BY <1>6 DEF Cover, Cells
  <2>2. Cover(Ready, L) = Cover(Ready, M) \cup Cells(Ready, x)
    <3>1. L = M \cup {x} BY <1>3 DEF M
    <3>2. QED BY <3>1, CoverAdd
  <2>3. QED BY <1>4, <1>6, <2>1, <2>2, ZenonT(30) DEF Covered, L, D
<1>10. Lost = Owned \ D BY LostReady DEF D
<1>11. Lost' = Owned \ D
  <2>1. Lost' = Owned' \ Covered(node', G, Back(live')) BY <1>6, LostAfter
  <2>2. QED BY <1>2, <1>9, <2>1
<1>12. NearlyAll(D, D) BY DEF NearlyAll
<1>13. Conserved BY <1>1, <1>10, <1>11, <1>12, Conserves
<1>14. QED BY <1>8, <1>13

-----------------------------------------------------------------------------
\* Every step of the heap keeps the invariant and conserves memory.
LEMMA StepInv ==
  ASSUME IInv, Next
  PROVE  IInv' /\ Conserved
<1>1. ASSUME NEW layout \in Layouts, Alloc(layout) PROVE IInv' /\ Conserved BY <1>1, AllocStep
<1>2. ASSUME NEW layout \in Layouts, AllocGrows(layout) PROVE IInv' /\ Conserved BY <1>2, GrowStep
<1>3. ASSUME NEW layout \in Layouts, AllocFails(layout) PROVE IInv' /\ Conserved BY <1>3, FailStep
<1>4. ASSUME NEW b \in live, Dealloc(b) PROVE IInv' /\ Conserved BY <1>4, DeallocStep
<1>5. QED BY <1>1, <1>2, <1>3, <1>4 DEF Next

\* Whatever is allocated and freed in whatever order, the free list is a ring
\* in address order through all blocks that are not handed out, no two of its
\* blocks touch, no two blocks overlap, and the users' memory lies in theirs.
THEOREM HeapInvariance == Spec => []IInv
<1>1. Init => IInv BY InitInv
<1>2. IInv /\ [Next]_vars => IInv'
  <2>1. ASSUME IInv, Next PROVE IInv' BY <2>1, StepInv
  <2>2. ASSUME IInv, UNCHANGED vars PROVE IInv'
    BY <2>2 DEF vars, IInv, Ready, FreeBlocks, Blocks, Owned
  <2>3. QED BY <2>1, <2>2
<1>3. QED BY <1>1, <1>2, PTL DEF Spec

\* What both walks along the free list see in a state of the invariant.
LEMMA FreeListWalk ==
  ASSUME IInv
  PROVE  /\ Holds(Ready, ListHead, FreeList) /\ Enumerates(FreeList, FreeBlocks)
         /\ \A x \in Blocks : Ready[x].size = node[x].size
<1>1. Memory(node) /\ Memory(Ready) /\ Linked(Ready, FreeBlocks) BY DEF IInv, Sound
<1>2. FreeBlocks \in SUBSET Nat /\ IsFiniteSet(FreeBlocks)
  <2>1. IsFiniteSet(DOMAIN Ready) /\ FreeBlocks \subseteq DOMAIN Ready BY <1>1 DEF Memory, Linked
  <2>2. IsFiniteSet(FreeBlocks) BY <2>1, FS_Subset
  <2>3. QED BY <1>1, <2>2 DEF Linked
<1>3. PICK t : Enumerates(t, FreeBlocks) BY <1>2, Enumeration
<1>4. /\ list_for_each(Ready, ListHead) = t /\ list_backward(Ready, ListHead) = Backwards(t)
      /\ list_empty(Ready, ListHead) <=> t = <<>>
  BY <1>1, <1>3, Walks
<1>5. FreeList = t BY <1>4 DEF FreeList
<1>6. Holds(Ready, ListHead, t) BY <1>4 DEF Holds, Backwards
<1>7. \A x \in Blocks : Ready[x].size = node[x].size
  BY <1>1, HeadInitialised DEF Ready, HeadReady, Blocks
<1>8. QED BY <1>3, <1>5, <1>6, <1>7

\* The pointers of the free list stay a ring through every removal and
\* insertion in its middle (insert_and_coalesce, allocate_from_free_list), for
\* any number of blocks.
THEOREM RingStaysSound == Spec => []RingSound
<1>1. IInv => RingSound
  <2>1. SUFFICES ASSUME IInv PROVE RingSound OBVIOUS
  <2>2. Holds(Ready, ListHead, FreeList) /\ Enumerates(FreeList, FreeBlocks) BY <2>1, FreeListWalk
  <2> DEFINE t == FreeList
  <2>3. /\ DOMAIN t = 1..Len(t) /\ \A i \in 1..Len(t) : t[i] \in FreeBlocks
        /\ \A x \in FreeBlocks : \E i \in 1..Len(t) : t[i] = x
        /\ Len(t) = Cardinality(FreeBlocks)
    BY <2>2 DEF Enumerates
  <2>4. Range(t) = FreeBlocks
    <3> HIDE DEF t
    <3>1. QED BY <2>3 DEF Range
  <2>5. Back(live) \subseteq Blocks
    <3>1. /\ Memory(node) /\ Back(live) \subseteq Nat
          /\ DOMAIN Ready = {ListHead} \cup FreeBlocks \cup Back(live)
      BY <2>1 DEF IInv, Sound
    <3>2. DOMAIN Ready = DOMAIN node BY <3>1, HeadInitialised DEF Ready, HeadReady
    <3>3. QED BY <3>1, <3>2 DEF Blocks
  <2>6. Back(live) \cap FreeBlocks = {} /\ Back(live) \cup FreeBlocks = Blocks
    BY <2>5 DEF FreeBlocks
  <2>7. QED BY <2>2, <2>3, <2>4, <2>6 DEF RingSound, Back
<1>2. QED BY <1>1, HeapInvariance, PTL

\* The free list stays in address order, its blocks merged as far as they
\* touch and each large enough for a header (insert_and_coalesce).
THEOREM FreeListStaysSound == Spec => []FreeListSound
<1>1. IInv => FreeListSound
  <2>1. SUFFICES ASSUME IInv PROVE FreeListSound OBVIOUS
  <2>2. Enumerates(FreeList, FreeBlocks) /\ \A x \in Blocks : Ready[x].size = node[x].size
    BY <2>1, FreeListWalk
  <2> DEFINE t == FreeList
  <2>3. /\ DOMAIN t = 1..Len(t) /\ \A i \in 1..Len(t) : t[i] \in FreeBlocks
        /\ \A i, j \in 1..Len(t) : i < j => t[i] < t[j]
    BY <2>2 DEF Enumerates
  <2>4. Gaps(Ready, FreeBlocks) BY <2>1 DEF IInv, Sound
  <2>5. \A x \in FreeBlocks : Ready[x].size = node[x].size BY <2>2 DEF FreeBlocks
  <2> HIDE DEF t
  <2>6. \A i \in DOMAIN t : node[t[i]].size >= MinFree BY <2>3, <2>4, <2>5 DEF Gaps
  <2>7. \A i, j \in DOMAIN t : i < j => t[i] + node[t[i]].size < t[j]
    BY <2>3, <2>4, <2>5 DEF Gaps
  <2>8. QED BY <2>6, <2>7 DEF FreeListSound, t
<1>2. QED BY <1>1, HeapInvariance, PTL

\* Blocks never overlap and stay within the heap's chunks, through every cut
\* and every merge.
THEOREM BlocksStayDisjoint == Spec => []BlocksDisjoint
<1>1. IInv => BlocksDisjoint
  <2>1. SUFFICES ASSUME IInv PROVE BlocksDisjoint OBVIOUS
  <2>2. \A x \in Blocks : Ready[x].size = node[x].size BY <2>1, FreeListWalk
  <2>3. Laid(Ready, FreeBlocks \cup Back(live), Owned) BY <2>1, Zenon DEF IInv, Sound
  <2>4. Blocks \subseteq FreeBlocks \cup Back(live) BY DEF FreeBlocks
  <2>5. \A x \in Blocks : Span(x) = Cells(Ready, x) BY <2>2 DEF Span, Cells
  <2> HIDE DEF Span, Cells
  <2>6. QED BY <2>3, <2>4, <2>5 DEF Laid, BlocksDisjoint
<1>2. QED BY <1>1, HeapInvariance, PTL

\* What alloc hands out is aligned as asked and lies in a block of its own,
\* above its header and its back pointer, until dealloc takes it back.
THEOREM UserMemoryIsSafe == Spec => []UserMemoryInBlock
<1>1. IInv => UserMemoryInBlock BY DEF IInv, Handed, UserMemoryInBlock
<1>2. QED BY <1>1, HeapInvariance, PTL

\* The loop of alloc ends after one turn of grow_heap: a request that is not
\* refused fits then, whatever the chunk is merged with.
THEOREM GrowingSuffices == Spec => []OneChunkSuffices
<1>1. IInv => OneChunkSuffices
  <2>1. SUFFICES ASSUME IInv, NEW layout \in Layouts, NEW c \in Chunks \ chunks, ~TooLarge(layout)
                 PROVE  Fitting(grow_heap(Ready, c), normalize_layout(layout)) # {}
    BY DEF OneChunkSuffices
  <2>2. PICK G : GrownFor(layout, c, G) BY <2>1, OneChunk
  <2>3. QED BY <2>2 DEF GrownFor
<1>2. QED BY <1>1, HeapInvariance, PTL

\* dealloc and a failing alloc lose no word of the heap's chunks, and an alloc
\* less than MIN_FREE_BLOCK_SIZE: the remainder that allocate_from_free_list
\* does not put back.
THEOREM MemoryIsConserved == Spec => MemoryConserved
<1>1. IInv /\ [Next]_vars => [Conserved]_vars
  <2>1. ASSUME IInv, Next PROVE Conserved BY <2>1, StepInv
  <2>2. QED BY <2>1
<1>2. Spec => [][Conserved]_vars BY <1>1, HeapInvariance, PTL DEF Spec
<1>3. QED BY <1>2 DEF MemoryConserved, Conserved
=============================================================================
