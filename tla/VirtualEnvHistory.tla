------------------------- MODULE VirtualEnvHistory -------------------------
(* VirtualEnv with what a request cannot see: for every request thread the *)
(* pairs it came with, the names that were set all the time since, and     *)
(* whether other threads have left the environment alone meanwhile.        *)
EXTENDS VirtualEnv

VARIABLES asked, known, alone

historyVars == <<vars, asked, known, alone>>

(* Kept for a thread while it has a request, renewed when one arrives.     *)
During(t, arrived, kept, without) ==
  CASE req'[t].pc = "idle" -> without
    [] req'[t].pc # "idle" /\ At(t, "idle") -> arrived
    [] OTHER -> kept

HistoryInit ==
  /\ Init
  /\ asked = [t \in Threads |-> <<>>]
  /\ known = [t \in Threads |-> {}]
  /\ alone = [t \in Threads |-> TRUE]

HistoryNext ==
  /\ Next
  /\ asked' = [t \in Threads |-> During(t, req'[t].todo, asked[t], <<>>)]
  /\ known' = [t \in Threads |-> During(t, Names, known[t] \cap Names', {})]
  /\ alone' = [t \in Threads |->
                 During(t, TRUE, alone[t] /\ (venv' = venv \/ req'[t] # req[t]), TRUE)]

HistorySpec == HistoryInit /\ [][HistoryNext]_historyVars

---------------------------------------------------------------------------

(* A name that was set all along can be given a new value, also when the   *)
(* environment is full (set_env_var tests for the name before the size).   *)
OverridesAccepted ==
  \A t \in Threads :
     req[t].op = "set" /\ At(t, "reply") =>
        \A i \in DOMAIN asked[t] :
           asked[t][i].key \in known[t] => asked[t][i].key \in req[t].accepted

(* The value that the pairs give to k: that of the last pair of k.         *)
ValueIn(pairs, k) ==
  LET last == CHOOSE i \in DOMAIN pairs :
                 /\ pairs[i].key = k
                 /\ \A j \in DOMAIN pairs : pairs[j].key = k => j <= i
  IN pairs[last].value

(* A render that no other request disturbs uses the template and the       *)
(* variables that it was asked for, unless the system sets them; when the  *)
(* environment has no room for them it finds none, never those of another  *)
(* request. With other requests at work there is no such guarantee.        *)
Rightful(t, k) ==
  CASE k \in SystemNames -> Default
    [] k \notin SystemNames /\ k \in req[t].accepted -> ValueIn(asked[t], k)
    [] OTHER -> None

RenderIsItsOwn ==
  \A t \in Threads :
     req[t].op = "render" /\ At(t, "reply") /\ alone[t] =>
        /\ req[t].template = Rightful(t, Template)
        /\ req[t].variables = Rightful(t, Variables)

=============================================================================
