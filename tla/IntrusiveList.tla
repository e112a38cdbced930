--------------------------- MODULE IntrusiveList ---------------------------
(***************************************************************************)
(* The circular doubly linked list of src/list.rs, at the level of its     *)
(* pointers.                                                               *)
(*                                                                         *)
(* The memory m is a function from the addresses of nodes to records with  *)
(* the fields next and prev, and possibly those of the container: going    *)
(* from a node to its container (container_of_mut) keeps the address.  A   *)
(* list is known by its head, a node like the others.  Every function is   *)
(* an operator from a memory to a memory.                                  *)
(***************************************************************************)
EXTENDS Naturals, Sequences, FiniteSetsExt

CONSTANT Null   \* the null pointer

init_at(m, n) == [m EXCEPT ![n].next = n, ![n].prev = n]

list_empty(m, head) ==
  \/ head = Null
  \/ m[head].prev = Null \/ m[head].next = Null
  \/ m[head].next = head /\ m[head].prev = head

\* _list_insert and _list_remove; the assignments happen from left to right.
insert_between(m, n, prev, next) ==
  [m EXCEPT ![prev].next = n, ![next].prev = n, ![n].prev = prev, ![n].next = next]
unlink(m, prev, next) == [m EXCEPT ![prev].next = next, ![next].prev = prev]

list_add(m, n, head) == insert_between(m, n, head, m[head].next)
list_append(m, n, head) == insert_between(m, n, m[head].prev, head)
list_remove(m, n) == init_at(unlink(m, m[n].prev, m[n].next), n)
list_move(m, n, head) == list_add(list_remove(m, n), n, head)
list_move_tail(m, n, head) == list_append(list_remove(m, n), n, head)

\* The nodes that a loop meets from one node on until it comes back to head.
\* One that meets more nodes than there are never ends.
Loop(following, start, head, most) ==
  LET at[i \in 0..most] ==
        IF i = 0 THEN start
        ELSE IF at[i - 1] \in {head, Null} THEN at[i - 1] ELSE following[at[i - 1]]
      turns == Min({i \in 0..most : at[i] = head} \cup {most + 1})
  IN  [i \in 1..turns |-> at[i - 1]]

\* list_for_each, list_for_each_entry, and the same loop backwards.
list_for_each(m, head) ==
  Loop([n \in DOMAIN m |-> m[n].next], m[head].next, head, Cardinality(DOMAIN m))
list_backward(m, head) ==
  Loop([n \in DOMAIN m |-> m[n].prev], m[head].prev, head, Cardinality(DOMAIN m))

\* list_for_each_safe with a body that removes what it visits: the nodes it
\* visits and the memory it leaves.
list_drain(m, head) ==
  LET turn(s) == IF s.pos = head THEN s
                 ELSE [pos |-> s.mem[s.pos].next, mem |-> list_remove(s.mem, s.pos),
                       visited |-> Append(s.visited, s.pos)]
      after[i \in 0..Cardinality(DOMAIN m)] ==
        IF i = 0 THEN [pos |-> m[head].next, mem |-> m, visited |-> <<>>]
        ELSE turn(after[i - 1])
  IN  after[Cardinality(DOMAIN m)]

-----------------------------------------------------------------------------
\* head is the head of a list that holds the nodes of seq in this order: both
\* directions visit them and come back, and a node of no list points to itself.
Holds(m, head, seq) ==
  /\ list_for_each(m, head) = seq
  /\ list_backward(m, head) = [i \in DOMAIN seq |-> seq[Len(seq) + 1 - i]]
  /\ list_empty(m, head) <=> seq = <<>>
=============================================================================
