-------------------------- MODULE MCSquashfsImage --------------------------
(***************************************************************************)
(* Small trees for SquashfsImage: data blocks of two bytes.                *)
(***************************************************************************)
EXTENDS SquashfsImage

(* Fragments, of which two fit in a block; files of two blocks.            *)
DataContents == {<<1>>, <<2>>, <<3>>, <<1, 2, 1>>, <<0, 0, 1>>}

(* What the proofs need of contents holds of these.                        *)
ASSUME ContentsAssumption == \A c \in DataContents : SparseIsWhole(c)

(* A file that ends in a block of zeros that is not whole.                 *)
SparseTail == {<<1, 1, 0>>}
=============================================================================
