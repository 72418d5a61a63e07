---------------------------- MODULE Environment ----------------------------
(***************************************************************************)
(* What the environment promises to the threads that share it, although    *)
(* src/rest/environment/environment.py has no lock: every set_env_var is   *)
(* decided at one moment, by what is set at that moment, and so is every   *)
(* clear. What it does not promise is that the size test and the           *)
(* assignment are one: a new name may be set although others have used up  *)
(* the room meanwhile, but never by more than the other threads.           *)
(***************************************************************************)
EXTENDS Naturals, Sequences, FiniteSets

CONSTANTS
  Keys,       \* names of variables
  Values,     \* their values
  Forbidden,  \* names that are never set: the system's, and the empty one
  Initial,    \* what is set before the first request
  MaxSize,    \* VIRTUAL_ENV_MAX_SIZE
  Threads     \* request threads of the agent

VARIABLES
  venv,      \* the virtual variables: a function on a finite set of names
  todo,      \* for every thread the pairs that it is still to set, in order
  accepted   \* and the names for which set_env_var has returned True

vars == <<venv, todo, accepted>>

Pair == [key : Keys, value : Values]

Names == DOMAIN venv
Full == Cardinality(Names) >= MaxSize
Overfull == Cardinality(Names) >= MaxSize + Cardinality(Threads) - 1

Init ==
  /\ venv = Initial
  /\ todo = [t \in Threads |-> <<>>]
  /\ accepted = [t \in Threads |-> {}]

(* A request arrives.                                                      *)
Ask(t) ==
  /\ todo[t] = <<>> /\ accepted[t] = {}
  /\ todo'[t] \in Seq(Pair)
  /\ todo' = [todo EXCEPT ![t] = todo'[t]]
  /\ UNCHANGED <<venv, accepted>>

(* set_env_var assigns and returns True.                                   *)
Set(t) ==
  /\ todo[t] # <<>>
  /\ LET k == Head(todo[t]).key IN
     /\ k \notin Forbidden
     /\ k \in Names \/ ~Overfull
     /\ venv' = [n \in Names \cup {k} |-> IF n = k THEN Head(todo[t]).value ELSE venv[n]]
     /\ accepted' = [accepted EXCEPT ![t] = @ \cup {k}]
  /\ todo' = [todo EXCEPT ![t] = Tail(@)]

(* It returns False. The name need not be new: another thread may have set *)
(* it after the test for it and before the test of the size.               *)
Refuse(t) ==
  /\ todo[t] # <<>>
  /\ Head(todo[t]).key \in Forbidden \/ Full
  /\ todo' = [todo EXCEPT ![t] = Tail(@)]
  /\ UNCHANGED <<venv, accepted>>

(* clear_virtual_env, by a thread that sets nothing.                       *)
Clear(t) ==
  /\ todo[t] = <<>> /\ accepted[t] = {}
  /\ venv' = [k \in {} |-> k]
  /\ UNCHANGED <<todo, accepted>>

(* The response: every pair has been set or refused.                       *)
Respond(t) ==
  /\ todo[t] = <<>>
  /\ accepted' = [accepted EXCEPT ![t] = {}]
  /\ UNCHANGED <<venv, todo>>

Next ==
  \E t \in Threads : Ask(t) \/ Set(t) \/ Refuse(t) \/ Clear(t) \/ Respond(t)

Spec == Init /\ [][Next]_vars

=============================================================================
