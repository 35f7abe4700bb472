----------------------------- MODULE MCFileData -----------------------------
(***************************************************************************)
(* Instance of FileData: two writers, two open files and three inodes, one *)
(* of them the root directory, one a file of mkfs with an indirect block.  *)
(***************************************************************************)
EXTENDS FileData, TLC

CONSTANTS f1, f2

MCFiles == << <<3, 3, 3>> >>
Symmetry == Permutations({f1, f2})
=============================================================================
