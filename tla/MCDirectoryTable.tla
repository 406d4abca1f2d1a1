-------------------------- MODULE MCDirectoryTable --------------------------
(***************************************************************************)
(* A directory of five entries over blocks of eight bytes.                 *)
(***************************************************************************)
EXTENDS DirectoryTable

(* A short name and one that, with its header, fills a block.              *)
ShortAndLong == {2, 6}
=============================================================================
