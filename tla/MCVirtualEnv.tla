---------------------------- MODULE MCVirtualEnv ----------------------------
(* Instances of VirtualEnv, with its history variables, for TLC.           *)
EXTENDS VirtualEnvHistory, TLC

(* Request threads, and the values that clients send, are interchangeable. *)
Symmetry == Permutations(Threads) \cup Permutations(Requested)

=============================================================================
