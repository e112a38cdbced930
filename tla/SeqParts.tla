------------------------------ MODULE SeqParts ------------------------------
(***************************************************************************)
(* Parts of sequences, for the modules that have proofs.  Filtering and    *)
(* joining go along the sequence with a function, which the prover can     *)
(* unfold (it cannot SelectSeq); the others are those of SequencesExt,     *)
(* without the modules that one brings into every proof.                   *)
(***************************************************************************)
EXTENDS Naturals, Sequences

Front(s) == SubSeq(s, 1, Len(s) - 1)
Last(s) == s[Len(s)]
IsPrefix(s, t) == Len(s) <= Len(t) /\ SubSeq(s, 1, Len(s)) = SubSeq(t, 1, Len(s))

\* s without its i-th element.
RemoveAt(s, i) == SubSeq(s, 1, i - 1) \o SubSeq(s, i + 1, Len(s))

\* s without its elements that are in T, the others in their order.
Without(s, T) ==
  LET kept[i \in 0..Len(s)] ==
        IF i = 0 THEN <<>>
        ELSE IF s[i] \in T THEN kept[i - 1] ELSE Append(kept[i - 1], s[i])
  IN  kept[Len(s)]

\* The sequences in ss, one after the other.
Flatten(ss) ==
  LET upto[i \in 0..Len(ss)] == IF i = 0 THEN <<>> ELSE upto[i - 1] \o ss[i]
  IN  upto[Len(ss)]
=============================================================================
