--------------------------- MODULE MCAddressSpace ---------------------------
(***************************************************************************)
(* AddressSpace with tables of four entries and 62 frames: room for two    *)
(* processes and part of a third.  Files are loaded at pages 5, inside     *)
(* bootdata, as the first seven programs are; 7, behind it; 118, in the    *)
(* stack of process 2; and in the upper half, which starts at 128: 130, in *)
(* the direct map; 190, behind it in the same tables; 200, where the       *)
(* kernel has no tables.                                                   *)
(***************************************************************************)
EXTENDS AddressSpace
=============================================================================
