--------------------------- MODULE MCFileTransfer ---------------------------
(* Instances of FileTransfer for TLC.                                      *)
EXTENDS FileTransfer, TLC

(* Threads, folders, contents and ids are interchangeable. For safety only.*)
Symmetry ==
  Permutations(Threads) \cup Permutations(Folders)
    \cup Permutations(Values) \cup Permutations(RequestIds)

=============================================================================
