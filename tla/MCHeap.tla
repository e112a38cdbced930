------------------------------- MODULE MCHeap -------------------------------
(***************************************************************************)
(* Heap with two neighbouring chunks of 16 words and one further away.     *)
(***************************************************************************)
EXTENDS Heap, SequencesExt

MCChunks == {16, 32, 64}
MCLayouts == {<<0, 1>>, <<5, 8>>, <<13, 1>>}

\* What each function does to the lists, on two lists of distinct nodes: the
\* reference is the same operation on sequences.
ListsBehave(head, other, nodes) ==
  \A one \in UNION {[1..k -> nodes] : k \in 0..Cardinality(nodes)} :
    IsInjective(one) =>
      LET rest == SetToSeq(nodes \ ToSet(one))
          blank == [n \in nodes \cup {head, other} |-> [next |-> Null, prev |-> Null]]
          empty == init_at(init_at(blank, head), other)
          m1 == FoldLeft(LAMBDA m, n : list_append(m, n, head), empty, one)
          m == FoldRight(LAMBDA n, x : list_add(x, n, other), rest, m1)
          drained == list_drain(m, head)
      IN  /\ list_empty(blank, head)
          /\ Holds(m, head, one) /\ Holds(m, other, rest)
          /\ drained.visited = one /\ Holds(drained.mem, head, <<>>)
          /\ \A i \in DOMAIN one :
               LET without == RemoveAt(one, i)
               IN  /\ Holds(list_remove(m, one[i]), head, without)
                   /\ list_remove(m, one[i])[one[i]] = [next |-> one[i], prev |-> one[i]]
                   /\ Holds(list_move(m, one[i], other), other, <<one[i]>> \o rest)
                   /\ Holds(list_move_tail(m, one[i], other), other, Append(rest, one[i]))
                   /\ Holds(list_move_tail(m, one[i], other), head, without)
                   /\ Holds(list_move(m, one[i], head), head, <<one[i]>> \o without)

\* The functions of the list against their reference, on up to four nodes.
ASSUME ListReference == ListsBehave(5, 6, 1..4)
=============================================================================
