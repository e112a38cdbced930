-------------------------------- MODULE Heap --------------------------------
(***************************************************************************)
(* The kernel heap of src/mem/alloc.rs with the placement arithmetic of    *)
(* src/alloc_layout.rs: a free list in address order, first fit, and whole *)
(* chunks from the buddy allocator when nothing fits.                      *)
(*                                                                         *)
(* Addresses and sizes are in words of 8 bytes, the alignment of a         *)
(* HeapNode, to which every block is rounded.  A block starts with its     *)
(* HeapNode, which holds the pointers of the free list (IntrusiveList);    *)
(* the back pointer lies just below the user's memory.  alloc and dealloc  *)
(* hold the heap's lock from start to end, so each is a step.              *)
(***************************************************************************)
EXTENDS IntrusiveList

CONSTANTS
  ListHead,    \* the list head in the allocator itself
  Header,      \* size_of::<HeapNode>()
  BackPtr,     \* BACK_PTR_SIZE
  ChunkSize,   \* CHUNK_SIZE
  Chunks,      \* where chunks from the buddy allocator can lie
  Layouts,     \* the layouts asked for: <<size, align>>
  MaxLive      \* bound on the blocks allocated at a time

ASSUME GeometryAssumption ==
  /\ Header \in Nat /\ BackPtr \in Nat \ {0} /\ ChunkSize \in Nat \ {0}
  /\ \A c \in Chunks : c \in Nat /\ c % ChunkSize = 0
\* Alignments and the chunk size are powers of two.
ASSUME LayoutsAssumption ==
  \A l \in Layouts : /\ l[1] \in Nat /\ l[2] \in Nat \ {0}
                     /\ ChunkSize % l[2] = 0 \/ l[2] % ChunkSize = 0

\* The head of the list is not in a chunk.
ASSUME HeadAssumption == ListHead \notin Nat /\ Null \notin Nat \cup {ListHead}

\* MIN_FREE_BLOCK_SIZE is one byte more than header and back pointer.
MinFree == Header + BackPtr + 1

VARIABLES
  node,    \* the HeapNode at the start of each block, and the list head
  live,    \* memory handed out: [user, layout, back], back the back pointer
  chunks   \* chunks taken from the buddy allocator

vars == <<node, live, chunks>>

\* HeapNode::new; the head of the list has no size.
uninit(size) == [size |-> size, next |-> Null, prev |-> Null]

Init == node = [n \in {ListHead} |-> uninit(0)] /\ live = {} /\ chunks = {}

\* HeapNode::init_at
Create(m, block, size) ==
  init_at([n \in DOMAIN m \cup {block} |-> IF n = block THEN uninit(size) ELSE m[n]], block)

ensure_head_initialized(m) ==
  IF m[ListHead].next = Null \/ m[ListHead].prev = Null THEN init_at(m, ListHead) ELSE m

AlignUp(a, align) == ((a + align - 1) \div align) * align

\* Mutant of user_ptr_for_block: no room for the back pointer.
user_ptrNoBackPtr(start, layout) == AlignUp(start + Header, layout[2])

user_ptr_for_block(start, layout) == AlignUp(start + Header + BackPtr, layout[2])

\* allocation_for_block's used_size, and required_block_size.
required(start, layout) == user_ptr_for_block(start, layout) + layout[1] - start

normalize_layout(layout) == <<IF layout[1] = 0 THEN 1 ELSE layout[1], layout[2]>>

blocks_are_adjacent(m, left, right) == left + m[left].size = right

\* The left block takes over the right one, whose header is then only bytes
\* inside a free block.
Absorb(m, left, right) ==
  IF left = ListHead \/ right = ListHead THEN m
  ELSE IF ~blocks_are_adjacent(m, left, right) THEN m
  ELSE LET grown == [m EXCEPT ![left].size = @ + m[right].size]
       IN  Restrict(list_remove(grown, right), DOMAIN m \ {right})

\* Mutant of Link: the new node is not linked backwards.
LinkForward(m, block, prev, current) ==
  [m EXCEPT ![block].prev = prev, ![block].next = current, ![prev].next = block]

Link(m, block, prev, current) ==
  [m EXCEPT ![block].prev = prev, ![block].next = current,
            ![prev].next = block, ![current].prev = block]

\* Mutant of insert_and_coalesce: the left neighbour is not joined.
insert_and_coalesceRight(m, block) ==
  LET list == list_for_each(m, ListHead)
      i == Min({j \in DOMAIN list : list[j] >= block} \cup {Len(list) + 1})
      prev == IF i = 1 THEN ListHead ELSE list[i - 1]
      current == IF i > Len(list) THEN ListHead ELSE list[i]
  IN  Absorb(Link(m, block, prev, current), block, current)

\* The block goes before the first one that lies higher, and is then merged
\* with its neighbours on both sides.
insert_and_coalesce(m, block) ==
  LET list == list_for_each(m, ListHead)
      i == Min({j \in DOMAIN list : list[j] >= block} \cup {Len(list) + 1})
      prev == IF i = 1 THEN ListHead ELSE list[i - 1]
      current == IF i > Len(list) THEN ListHead ELSE list[i]
      left == Absorb(Link(m, block, prev, current), prev, block)
      merged == IF block \in DOMAIN left THEN block ELSE prev
  IN  Absorb(left, merged, left[merged].next)

\* Mutant of Fitting: the overhead is forgotten.
FittingBySize(m, layout) ==
  LET list == list_for_each(m, ListHead)
  IN  {i \in DOMAIN list : layout[1] <= m[list[i]].size}

\* Where in the free list the blocks are that allocation_for_block accepts.
Fitting(m, layout) ==
  LET list == list_for_each(m, ListHead)
  IN  {i \in DOMAIN list : required(list[i], layout) <= m[list[i]].size}

\* The first of them.
FirstFit(m, layout) == list_for_each(m, ListHead)[Min(Fitting(m, layout))]

\* Mutant of allocate_from_free_list: a remainder needs room for two headers.
allocate_wasteful(m, layout) ==
  LET block == FirstFit(m, layout)
      used == required(block, layout)
      remaining == m[block].size - used
      rest == block + used
      removed == list_remove(m, block)
      cut == IF remaining < MinFree + Header THEN removed
             ELSE insert_and_coalesce(Create(removed, rest, remaining), rest)
  IN  [mem |-> [cut EXCEPT ![block].size = used],
       user |-> user_ptr_for_block(block, layout), back |-> block]

\* Cut the first block that fits; what is left is a free block if it is
\* large enough.
allocate_from_free_list(m, layout) ==
  LET block == FirstFit(m, layout)
      used == required(block, layout)
      remaining == m[block].size - used
      rest == block + used
      removed == list_remove(m, block)
      cut == IF remaining < MinFree THEN removed
             ELSE insert_and_coalesce(Create(removed, rest, remaining), rest)
  IN  [mem |-> [cut EXCEPT ![block].size = used],
       user |-> user_ptr_for_block(block, layout), back |-> block]

\* Mutant of grow_heap: the overhead is subtracted from the chunk as well.
grow_heapLess(m, chunk) ==
  insert_and_coalesce(Create(m, chunk, ChunkSize - Header - BackPtr), chunk)

grow_heap(m, chunk) == insert_and_coalesce(Create(m, chunk, ChunkSize), chunk)

(***************************************************************************)
(* alloc and dealloc.                                                      *)
(***************************************************************************)
Ready == ensure_head_initialized(node)
HasRoom(layout) == Fitting(Ready, normalize_layout(layout)) # {}
TooLarge(layout) == required(0, normalize_layout(layout)) > ChunkSize

Take(m, layout) ==
  \E a \in {allocate_from_free_list(m, normalize_layout(layout))} :
    /\ node' = a.mem
    /\ live' = live \cup {[user |-> a.user, layout |-> layout, back |-> a.back]}

Alloc(layout) ==
  /\ Cardinality(live) < MaxLive
  /\ HasRoom(layout)
  /\ Take(Ready, layout)
  /\ UNCHANGED chunks

\* The free list has no room: one chunk more, and try again.
AllocGrows(layout) ==
  /\ Cardinality(live) < MaxLive
  /\ ~HasRoom(layout)
  /\ ~TooLarge(layout)
  /\ \E c \in Chunks \ chunks :
       /\ chunks' = chunks \cup {c}
       /\ Take(grow_heap(Ready, c), layout)

\* No room, and the request is too large or the buddy allocator has none:
\* alloc returns null.
AllocFails(layout) ==
  /\ ~HasRoom(layout)
  /\ TooLarge(layout) \/ chunks = Chunks
  /\ node' = Ready
  /\ UNCHANGED <<live, chunks>>

\* The back pointer leads from the user's pointer to the block.
Dealloc(b) ==
  /\ node' = insert_and_coalesce(init_at(Ready, b.back), b.back)
  /\ live' = live \ {b}
  /\ UNCHANGED chunks

Next ==
  \/ \E layout \in Layouts : Alloc(layout) \/ AllocGrows(layout) \/ AllocFails(layout)
  \/ \E b \in live : Dealloc(b)

Spec == Init /\ [][Next]_vars

-----------------------------------------------------------------------------
Blocks == DOMAIN node \ {ListHead}
Span(block) == block..(block + node[block].size - 1)
Owned == UNION {c..(c + ChunkSize - 1) : c \in chunks}
FreeList == list_for_each(Ready, ListHead)

\* The pointers of the free list stay a ring through every removal and
\* insertion in its middle: forward and backward it holds the same blocks,
\* each once, and they are all the blocks that are not handed out.
RingSound ==
  /\ Holds(Ready, ListHead, FreeList)
  /\ Len(FreeList) = Cardinality(Range(FreeList))
  /\ {b.back : b \in live} \cap Range(FreeList) = {}
  /\ {b.back : b \in live} \cup Range(FreeList) = Blocks

\* Free blocks and blocks handed out never overlap and lie in chunks the
\* heap owns, so a HeapNode written into a free block never hits a user's
\* memory.
BlocksDisjoint ==
  /\ \A x, y \in Blocks : x # y => Span(x) \cap Span(y) = {}
  /\ \A x \in Blocks : Span(x) \subseteq Owned

\* The user's memory is aligned as asked, lies in its block and leaves the
\* header and the back pointer alone, and no two users share a block.
UserMemoryInBlock ==
  /\ \A b \in live : /\ b.user % b.layout[2] = 0
                     /\ b.user >= b.back + Header + BackPtr
                     /\ b.user + b.layout[1] <= b.back + node[b.back].size
  /\ \A b, c \in live : b # c => b.back # c.back

\* The free list is in address order, no two neighbours touch, and every
\* block has room for its header, whatever the order in which blocks come
\* back and chunks arrive.
FreeListSound ==
  /\ \A i \in DOMAIN FreeList : node[FreeList[i]].size >= MinFree
  /\ \A i, j \in DOMAIN FreeList :
       i < j => FreeList[i] + node[FreeList[i]].size < FreeList[j]

Lost == Owned \ UNION {Span(block) : block \in Blocks}

\* Memory is conserved: cutting, merging and returning blocks loses no word,
\* except that an alloc may drop a remainder too small for a header
\* (MIN_FREE_BLOCK_SIZE), which is then lost for good.
MemoryConserved ==
  [][/\ Lost \subseteq Lost'
     /\ Cardinality(Lost') < Cardinality(Lost) + MinFree
     /\ live' \subseteq live => Lost' = Lost]_vars

\* alloc's loop ends: a request that is not refused fits once the heap has
\* grown by one chunk, wherever the chunk lies and whatever it merges with.
OneChunkSuffices ==
  \A layout \in Layouts, c \in Chunks \ chunks :
    ~TooLarge(layout) => Fitting(grow_heap(Ready, c), normalize_layout(layout)) # {}
=============================================================================
