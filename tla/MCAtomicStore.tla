----------------------------- MODULE MCAtomicStore -----------------------------
(* Constants for model checking AtomicStore: two writers and one reader of *)
(* the same file.  Three inodes allow three saves, one more than writers,  *)
(* so that a save can follow two that overlapped.                          *)
EXTENDS AtomicStore, TLC

Symmetry ==
    Permutations(Inode) \cup Permutations(TempName)
    \cup Permutations(Writer) \cup Permutations(Data)
===============================================================================
