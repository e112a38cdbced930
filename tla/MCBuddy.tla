------------------------------ MODULE MCBuddy ------------------------------
(***************************************************************************)
(* Buddy on small memory maps, and its refinement of PageFrames.           *)
(***************************************************************************)
EXTENDS Buddy

\* Seven frames, all of them or without a reserved range that starts and
\* ends inside a page; the last block is cut off by the end of memory.
Whole == {<<{<<0, 15>>}, r>> : r \in {{}, {<<5, 7>>}}}

\* Four frames, in areas that start or end inside a page, with every pair of
\* reserved ranges.
AllRanges == {<<s, e>> \in (0..8) \X (0..8) : s < e}
Unaligned == {{<<0, 8>>}, {<<1, 8>>}, {<<0, 7>>}, {<<3, 8>>}}
MCMaps == Whole \cup {<<a, {r, q}>> : a \in Unaligned, r \in AllRanges, q \in AllRanges}

PF == INSTANCE PageFrames WITH
  PFOrders <- Orders, usable <- Usable,
  blocks <- {Block(x.pfn, x.order) : x \in owned}

\* The buddy allocator implements PageFrames.
ImplementsPageFrames == PF!PFSpec
=============================================================================
