--------------------------- MODULE MCCommandExec ---------------------------
(* Instances of CommandExec for TLC.                                       *)
EXTENDS CommandExec, TLC

(* Commands and request threads are interchangeable. For safety only.      *)
Symmetry == Permutations(Cmds) \cup Permutations(Threads)

=============================================================================
