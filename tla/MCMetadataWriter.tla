-------------------------- MODULE MCMetadataWriter --------------------------
(***************************************************************************)
(* MetadataWriter on blocks of a few bytes.                                *)
(***************************************************************************)
EXTENDS MetadataWriter, TLC

(* Items shorter than a block, as long as one, and longer than two.        *)
SmallSizes == {1, 2, 5}
=============================================================================
