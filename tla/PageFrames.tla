----------------------------- MODULE PageFrames -----------------------------
(***************************************************************************)
(* What a page-frame allocator promises: it hands out aligned blocks of    *)
(* 2^order usable frames that are not in use, and takes them back.         *)
(***************************************************************************)
EXTENDS Naturals

CONSTANT PFOrders
VARIABLES usable, blocks

BlockAt(pfn, o) == pfn..(pfn + 2^o - 1)

PFInit == blocks = {}

Hand(pfn, o) ==
  /\ pfn % 2^o = 0
  /\ BlockAt(pfn, o) \subseteq usable \ UNION blocks
  /\ blocks' = blocks \cup {BlockAt(pfn, o)}
  /\ UNCHANGED usable

TakeBack(b) ==
  /\ blocks' = blocks \ {b}
  /\ UNCHANGED usable

PFNext ==
  \/ \E pfn \in usable, o \in PFOrders : Hand(pfn, o)
  \/ \E b \in blocks : TakeBack(b)

PFSpec == PFInit /\ [][PFNext]_<<usable, blocks>>
=============================================================================
