----------------------------- MODULE RunReport -----------------------------
(***************************************************************************)
(* What the file of a command id promises to those who poll it, as a       *)
(* function of the list of commands and of how many records the run has    *)
(* written: cmd_info_<id>.json of src/rest/api/command/command.py.         *)
(*                                                                         *)
(* Record 0 of a run has all of its commands scheduled, record 2i - 1 the  *)
(* i-th one in progress, record 2i the i-th one finished, and the last one *)
(* closes the run. Equal commands share an entry.                          *)
(***************************************************************************)
EXTENDS Naturals, Sequences

CONSTANTS
  Cmds,     \* command lines
  MaxCmds,  \* bound: command lines of one run
  MaxRuns   \* bound: runs of the id

VARIABLES
  run,    \* the latest run of the id, 0 before the first
  list,   \* its commands
  next,   \* the number of the record that it writes next
  file    \* cmd_info_<id>.json

vars == <<run, list, next, file>>

Lists == UNION {[1..n -> Cmds] : n \in 1..MaxCmds}
Asked(l) == {l[i] : i \in DOMAIN l}
LastRecord(l) == 2 * Len(l) + 1

(* The i-th execution of a run.                                            *)
Execs == (1..MaxRuns) \X (1..MaxCmds)

(* The entry of a command: by are the executions whose output its details  *)
(* show.                                                                   *)
Entry == [status : {"scheduled", "in progress", "finished"}, by : SUBSET Execs]

Scheduled == [status |-> "scheduled", by |-> {}]
InProgress == [status |-> "in progress", by |-> {}]
Finished(execs) == [status |-> "finished", by |-> execs]

NoFile == [st |-> "absent"]
EmptyFile == [st |-> "empty"]
RecordOf(r, finished, entries) ==
  [st |-> "record", run |-> r, finished |-> finished, entries |-> entries]

(* The executions of c, and those of them that record k reports.           *)
Places(l, c) == {i \in DOMAIN l : l[i] = c}
Over(l, k, c) == {i \in Places(l, c) : 2 * i <= k}

EntryOf(r, l, k, c) ==
  CASE \E i \in Places(l, c) : k = 2 * i - 1 -> InProgress
    [] Over(l, k, c) # {} /\ (\A i \in Places(l, c) : k # 2 * i - 1) ->
         Finished({<<r, i>> : i \in {j \in Over(l, k, c) : \A h \in Over(l, k, c) : h <= j}})
    [] OTHER -> Scheduled

Report(r, l, k) ==
  RecordOf(r, k = LastRecord(l), [c \in Asked(l) |-> EntryOf(r, l, k, c)])

---------------------------------------------------------------------------
Init ==
  /\ run = 0
  /\ list = <<>>
  /\ next = 0
  /\ file = NoFile

(* A run takes over the file that the one before it has left.              *)
Launch ==
  /\ run < MaxRuns
  /\ run' = run + 1
  /\ list' \in Lists
  /\ next' = 0
  /\ UNCHANGED file

(* Until the next record is there, readers find an empty file.             *)
Truncate ==
  /\ run > 0
  /\ next <= LastRecord(list)
  /\ file' = EmptyFile
  /\ UNCHANGED <<run, list, next>>

Publish ==
  /\ file = EmptyFile
  /\ next <= LastRecord(list)
  /\ file' = Report(run, list, next)
  /\ next' = next + 1
  /\ UNCHANGED <<run, list>>

Next == Launch \/ Truncate \/ Publish

Spec == Init /\ [][Next]_vars

=============================================================================
