------------------------------- MODULE Buddy -------------------------------
(***************************************************************************)
(* The buddy page-frame allocator of src/mem/page/pagealloc.rs.            *)
(*                                                                         *)
(* buddy is the BuddyAllocator: the PageInfo of every frame and the heads  *)
(* of the free lists.  Its methods are operators from one such record to   *)
(* the next; they run under BUDDY_ALLOCATOR's lock, so each public method  *)
(* is one step.  owned is what callers hold: the blocks they were given,   *)
(* with the limit they asked for.                                          *)
(***************************************************************************)
EXTENDS Naturals, FiniteSets, SequencesExt

CONSTANTS
  TotalPages,   \* metadata.len()
  MaxOrder,     \* MAX_ORDER, orders are 0..MaxOrder-1
  PageSize,     \* in the units of the memory map
  MemoryMaps,   \* pairs of available areas and reserved ranges: <<start, end>>
  Limits,       \* limits for allocate_below
  MaxOwned      \* bound on blocks handed out at a time

ASSUME TotalPagesAssumption == TotalPages \in Nat \ {0}
ASSUME MaxOrderAssumption == MaxOrder \in Nat \ {0}
ASSUME PageSizeAssumption == PageSize \in Nat \ {0}
ASSUME RangesAssumption ==
  \A map \in MemoryMaps : \A r \in map[1] \cup map[2] : r[1] \in Nat /\ r[2] \in Nat

Frames == 0..(TotalPages - 1)
Orders == 0..(MaxOrder - 1)
NoFrame == TotalPages          \* PageInfo::NONE, Option::None
NoOrder == 255
NoLimit == TotalPages * PageSize

VARIABLES buddy, owned, boot   \* boot: the memory map handed to new
vars == <<buddy, owned, boot>>

BuddyOf(pfn, o) == IF (pfn \div 2^o) % 2 = 0 THEN pfn + 2^o ELSE pfn - 2^o
Block(pfn, o) == pfn..(pfn + 2^o - 1)

(***************************************************************************)
(* The free lists, linked through the PageInfo of the block heads.         *)
(***************************************************************************)
SetPrev(b, pfn, v) == IF pfn = NoFrame THEN b ELSE [b EXCEPT !.meta[pfn].prev = v]
SetNext(b, pfn, v) == IF pfn = NoFrame THEN b ELSE [b EXCEPT !.meta[pfn].next = v]

\* Mutant of push_free: the old head's prev is not set.
push_freeNoPrev(b, pfn, o) ==
  [b EXCEPT !.meta[pfn].free = TRUE, !.meta[pfn].next = b.heads[o],
            !.meta[pfn].prev = NoFrame, !.heads[o] = pfn]

push_free(b, pfn, o) ==
  LET old == b.heads[o]
      p == [b EXCEPT !.meta[pfn].free = TRUE, !.meta[pfn].next = old,
                     !.meta[pfn].prev = NoFrame]
  IN  [SetPrev(p, old, pfn) EXCEPT !.heads[o] = pfn]

remove_from_free(b, pfn, o) ==
  LET prev == b.meta[pfn].prev
      next == b.meta[pfn].next
      unlinked == IF prev # NoFrame THEN SetNext(b, prev, next)
                                    ELSE [b EXCEPT !.heads[o] = next]
  IN  SetPrev(unlinked, next, prev)

\* The i-th node met when a list is walked from its head.
Walk(b, o) ==
  LET w[i \in 1..TotalPages] ==
        IF i = 1 THEN b.heads[o]
        ELSE IF w[i - 1] = NoFrame THEN NoFrame ELSE b.meta[w[i - 1]].next
  IN  w

ListOf(b, o) == SelectSeq(Walk(b, o), LAMBDA f : f # NoFrame)

\* The first block of the list that satisfies the caller's predicate:
\* 2^order pages from its start must end at or below the limit.
Fits(pfn, order, limit) == (pfn + 2^order) * PageSize <= limit

find_free(b, o, order, limit) ==
  LET fitting == SelectSeq(ListOf(b, o), LAMBDA f : Fits(f, order, limit))
  IN  IF fitting = <<>> THEN NoFrame ELSE Head(fitting)

\* order, head flag and free flag of all pages of a block.
Mark(b, pfn, o, isFree) ==
  [b EXCEPT !.meta = [f \in Frames |->
     IF f \in Block(pfn, o)
     THEN [@[f] EXCEPT !.order = o, !.head = (f = pfn), !.free = isFree]
     ELSE @[f]]]

(***************************************************************************)
(* new and add_region.                                                     *)
(***************************************************************************)
AlignUp(a) == ((a + PageSize - 1) \div PageSize) * PageSize
AlignDown(a) == (a \div PageSize) * PageSize

EmptyBuddy ==
  [meta |-> [f \in Frames |-> [order |-> NoOrder, head |-> FALSE, free |-> FALSE,
                               next |-> NoFrame, prev |-> NoFrame]],
   heads |-> [o \in Orders |-> NoFrame]]

Smallest(S) == CHOOSE x \in S : \A y \in S : x <= y
Largest(S) == CHOOSE x \in S : \A y \in S : x >= y

\* The largest order the address is aligned to and the pages suffice for.
RegionOrder(start, pages) ==
  Largest({o \in Orders : (start \div PageSize) % 2^o = 0 /\ 2^o <= pages})

Clear(b, pfn, o) ==
  [b EXCEPT !.meta = [f \in Frames |->
     IF f \in Block(pfn, o) THEN [@[f] EXCEPT !.next = NoFrame, !.prev = NoFrame]
                            ELSE @[f]]]

\* One turn of add_region's loop over [start, end); reserved is a sequence
\* because the first range that holds start decides where to go on.
RegionStep(r, end, reserved) ==
  LET inside == SelectSeq(reserved, LAMBDA x : r.start >= x[1] /\ r.start < x[2])
      boundary == Smallest({end} \cup {x \in {reserved[i][1] : i \in 1..Len(reserved)} :
                                         x > r.start /\ x < end})
      pages == (boundary - r.start) \div PageSize
      order == RegionOrder(r.start, pages)
      pfn == r.start \div PageSize
  IN  IF r.start >= end THEN r
      ELSE IF inside # <<>> THEN [r EXCEPT !.start = AlignUp(inside[1][2])]
      ELSE IF pages = 0 THEN [r EXCEPT !.start = @ + PageSize]
      ELSE IF pfn + 2^order > TotalPages THEN [r EXCEPT !.start = end]
      ELSE [start |-> r.start + 2^order * PageSize,
            b |-> push_free(Clear(Mark(r.b, pfn, order, TRUE), pfn, order), pfn, order)]

add_region(b, area, reserved) ==
  LET end == AlignDown(area[2])
      turns == end + Len(reserved)   \* every turn moves start forward
      loop[i \in 0..turns] ==
        IF i = 0 THEN [start |-> AlignUp(area[1]), b |-> b]
                 ELSE RegionStep(loop[i - 1], end, reserved)
  IN  loop[turns].b

new(areas, reserved) ==
  FoldLeft(LAMBDA b, a : add_region(b, a, reserved), EmptyBuddy, areas)

(***************************************************************************)
(* allocate, allocate_below and deallocate.                                *)
(***************************************************************************)
\* The buddies of pfn, from the block's order down to the one asked for,
\* become free blocks.
Split(b, pfn, from, to) ==
  FoldLeft(LAMBDA x, s : push_free(Mark(x, BuddyOf(pfn, s), s, TRUE), BuddyOf(pfn, s), s),
           b, [i \in 1..(from - to) |-> from - i])

\* The order of the list that allocate_where takes a block from.
TakeOrder(b, order, limit) ==
  LET found == {o \in order..(MaxOrder - 1) : find_free(b, o, order, limit) # NoFrame}
  IN  IF found = {} THEN NoOrder ELSE Smallest(found)

\* Mutant of allocate_where: the block handed out keeps its old order.
allocate_whereStaleOrder(b, pfn, o, order) ==
  [Split(remove_from_free(b, pfn, o), pfn, o, order)
     EXCEPT !.meta[pfn].free = FALSE, !.meta[pfn].next = NoFrame,
            !.meta[pfn].prev = NoFrame]

allocate_where(b, pfn, o, order) ==
  LET removed == remove_from_free(b, pfn, o)
      taken == [removed EXCEPT !.meta[pfn].free = FALSE, !.meta[pfn].next = NoFrame,
                               !.meta[pfn].prev = NoFrame]
  IN  Mark(Split(taken, pfn, o, order), pfn, order, FALSE)

Allocate(order, limit) ==
  LET o == TakeOrder(buddy, order, limit)
      pfn == find_free(buddy, o, order, limit)
  IN  /\ Cardinality(owned) < MaxOwned
      /\ o # NoOrder
      /\ buddy' = allocate_where(buddy, pfn, o, order)
      /\ owned' = owned \cup {[pfn |-> pfn, order |-> order, limit |-> limit]}
      /\ UNCHANGED boot

AllocateFails(order, limit) ==
  /\ TakeOrder(buddy, order, limit) = NoOrder
  /\ UNCHANGED vars

\* Mutant of MergeStep: a free buddy is joined whatever its order.
MergeStepAnyOrder(m) ==
  LET mate == BuddyOf(m.pfn, m.order)
      stop == \/ m.order + 1 >= MaxOrder
              \/ mate >= TotalPages
              \/ ~m.b.meta[mate].free
  IN  IF stop THEN m
      ELSE [pfn |-> IF mate < m.pfn THEN mate ELSE m.pfn, order |-> m.order + 1,
            b |-> remove_from_free(m.b, mate, m.order)]

\* Mutant of MergeStep: nothing is joined.
MergeStepNever(m) == m

\* One turn of deallocate's loop: join the buddy if it is a free block of
\* the same order.
MergeStep(m) ==
  LET mate == BuddyOf(m.pfn, m.order)
      stop == \/ m.order + 1 >= MaxOrder
              \/ mate >= TotalPages
              \/ ~m.b.meta[mate].free
              \/ m.b.meta[mate].order # m.order
              \/ ~m.b.meta[mate].head
  IN  IF stop THEN m
      ELSE [pfn |-> IF mate < m.pfn THEN mate ELSE m.pfn, order |-> m.order + 1,
            b |-> remove_from_free(m.b, mate, m.order)]

deallocate(b, pfn) ==
  LET merge[i \in 0..MaxOrder] ==
        IF i = 0 THEN [pfn |-> pfn, order |-> b.meta[pfn].order, b |-> b]
                 ELSE MergeStep(merge[i - 1])
      m == merge[MaxOrder]
  IN  push_free(Mark(m.b, m.pfn, m.order, TRUE), m.pfn, m.order)

\* The caller returns the address it was given.
Deallocate(block) ==
  /\ buddy' = deallocate(buddy, block.pfn)
  /\ owned' = owned \ {block}
  /\ UNCHANGED boot

Init ==
  /\ \E map \in MemoryMaps : boot = [areas |-> map[1], reserved |-> map[2]]
  /\ buddy = new(SetToSeq(boot.areas), SetToSeq(boot.reserved))
  /\ owned = {}

Next ==
  \/ \E order \in Orders, limit \in Limits \cup {NoLimit} :
       Allocate(order, limit) \/ AllocateFails(order, limit)
  \/ \E block \in owned : Deallocate(block)

Spec == Init /\ [][Next]_vars

-----------------------------------------------------------------------------
\* The frames that lie wholly in an available area and touch no reserved
\* byte: what the allocator ought to manage.
Overlaps(f, r) == f * PageSize < r[2] /\ r[1] < (f + 1) * PageSize
Usable ==
  {f \in Frames :
     /\ \E a \in boot.areas : a[1] <= f * PageSize /\ (f + 1) * PageSize <= a[2]
     /\ \A r \in boot.reserved : ~Overlaps(f, r)}

OwnedFrames == UNION {Block(x.pfn, x.order) : x \in owned}
FreeHeads(o) == {f \in Frames : /\ buddy.meta[f].free /\ buddy.meta[f].head
                                /\ buddy.meta[f].order = o}
FreeBlocks == {<<f, o>> \in Frames \X Orders : f \in FreeHeads(o)}

\* Free blocks and blocks handed out tile the usable frames: no frame is
\* lost, given out twice or both free and in use, and no reserved frame
\* (kernel image, boot page tables, multiboot information) is ever managed.
FramesTiled ==
  LET blocks == {<<x.pfn, x.order>> : x \in owned} \cup FreeBlocks IN
  /\ Cardinality(blocks) = Cardinality(owned) + Cardinality(FreeBlocks)
  /\ UNION {Block(x[1], x[2]) : x \in blocks} = Usable
  /\ \A x, y \in blocks : x # y => Block(x[1], x[2]) \cap Block(y[1], y[2]) = {}
  /\ \A x \in blocks : x[1] % 2^x[2] = 0

\* Each free list holds the free blocks of its order, once each, and can be
\* walked both ways: no stale next or prev of a block that was merged or
\* handed out is ever followed.
ListsSound ==
  \A o \in Orders :
    LET l == ListOf(buddy, o) IN
    /\ IsInjective(l)
    /\ Range(l) = FreeHeads(o)
    /\ \A i \in 1..Len(l) :
         buddy.meta[l[i]].prev = IF i = 1 THEN NoFrame ELSE l[i - 1]

\* allocate and allocate_below fail only when no aligned run of free frames
\* exists (below the limit).
FindsEveryRun ==
  \A order \in Orders, limit \in Limits \cup {NoLimit} :
    TakeOrder(buddy, order, limit) # NoOrder <=>
      \E f \in Frames : /\ f % 2^order = 0
                        /\ Fits(f, order, limit)
                        /\ Block(f, order) \subseteq Usable \ OwnedFrames

\* A page table asked for with allocate_below is where the boot mapping can
\* reach it.
BelowLimit == \A x \in owned : Fits(x.pfn, x.order, x.limit)

\* deallocate's asserts ("must free block head", "double free") hold for
\* every block a caller can return, whatever was split or merged around it.
OwnedAreFreeable ==
  \A x \in owned : /\ buddy.meta[x.pfn].head /\ ~buddy.meta[x.pfn].free
                   /\ buddy.meta[x.pfn].order = x.order

\* What callers hold can be given back, and lies below the limit that
\* allocate_below was called with.
OwnedSound == OwnedAreFreeable /\ BelowLimit
=============================================================================
