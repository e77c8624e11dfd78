-------------------------- MODULE MCBlockAllocator --------------------------
(***************************************************************************)
(* Instances of BlockAllocator for TLC: a manager header of 40 bytes, so   *)
(* that the first block starts at 48, and a segment that holds up to five  *)
(* blocks.                                                                 *)
(***************************************************************************)
EXTENDS BlockAllocator

(* No step and no property looks at the header of a payload that nobody    *)
(* holds: states that differ only there are alike.                         *)
LiveView ==
  <<segment_size, size, is_free, free_list, live,
    [p \in live \cap DOMAIN header |-> header[p]], batch>>
=============================================================================
