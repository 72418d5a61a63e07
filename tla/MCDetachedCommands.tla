------------------------ MODULE MCDetachedCommands ------------------------
(* Instances of DetachedCommands for TLC.                                  *)
EXTENDS DetachedCommands, TLC

(* Pids and request threads are interchangeable. Used for safety only.     *)
Symmetry == Permutations(Pids) \cup Permutations(Handlers)

=============================================================================
