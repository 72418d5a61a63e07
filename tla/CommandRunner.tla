--------------------------- MODULE CommandRunner ---------------------------
(***************************************************************************)
(* One run of detached commands after the other, all of one id: the runner *)
(* (Command of src/rest/api/command/command.py), which executes a list of  *)
(* commands and reports on them in cmd_info_<id>.json, the files to which  *)
(* the commands write their output (src/rest/utils/cmd_utils.py), and      *)
(* GET /commanddetached/<id> (src/rest/api/routes.py), which reads both.   *)
(*                                                                         *)
(* A command has two streams, .out and .err, that are treated alike: there *)
(* is one here. Commands leave children behind that keep writing, and      *)
(* outlive a runner that is killed. How runs are found and killed, and     *)
(* what happens when two of them overlap, is DetachedCommands.             *)
(***************************************************************************)
EXTENDS Naturals, Sequences

CONSTANTS
  Cmds,     \* command lines
  MaxCmds,  \* bound: command lines of one run
  MaxRuns   \* bound: runs of the id

ASSUME RunBounds == MaxCmds \in Nat \ {0} /\ MaxRuns \in Nat

VARIABLES
  runner,  \* the runner of the latest run
  file,    \* cmd_info_<id>.json
  stream,  \* the stream file of every command
  get      \* a GET of the id

vars == <<runner, file, stream, get>>

(* The record that the runner writes next.                                 *)
NextRecord ==
  LET i == runner.i IN
  CASE runner.at = "schedule" -> 0
    [] runner.at = "progress" -> 2 * i - 1
    [] runner.at \in {"delete", "create", "launch", "wait", "complete"} -> 2 * i
    [] runner.at = "final" -> 2 * Len(runner.list) + 1
    [] OTHER -> 2 * Len(runner.list) + 2

R == INSTANCE RunReport WITH
       run <- runner.run, list <- runner.list, next <- NextRecord

---------------------------------------------------------------------------
Writes == {"schedule", "progress", "complete", "final"}
Steps == Writes \cup {"delete", "create", "launch", "wait", "exit"}

(* A run: its list, the step at its i-th command, the dictionary that it   *)
(* reports, whether it has truncated the file, and whether its shell lives.*)
Runner ==
  [run : 0..MaxRuns, list : R!Lists \cup {<<>>}, at : Steps, i : 1..MaxCmds,
   opened : BOOLEAN, dict : [R!Asked(runner.list) -> R!Entry], shell : BOOLEAN,
   alive : BOOLEAN]

(* A stream: text are the executions whose output is in it, writers those  *)
(* that have it open. Who has a deleted one open writes to nowhere.        *)
Stream == [there : BOOLEAN, text : SUBSET R!Execs, writers : SUBSET R!Execs]

NoStream == [there |-> FALSE, text |-> {}, writers |-> {}]
NewStream == [there |-> TRUE, text |-> {}, writers |-> {}]

Command == runner.list[runner.i]
Exec == <<runner.run, runner.i>>

NoGet == [at |-> "idle", record |-> R!NoFile, todo |-> {}, alone |-> FALSE]

Init ==
  /\ runner = [run |-> 0, list |-> <<>>, at |-> "schedule", i |-> 1, opened |-> FALSE,
               dict |-> [c \in {} |-> R!Scheduled], shell |-> FALSE, alive |-> FALSE]
  /\ file = R!NoFile
  /\ stream = [c \in Cmds |-> NoStream]
  /\ get = NoGet

---------------------------------------------------------------------------
(* POST /commanddetached/<id>, once the previous run is no more: run_commands *)
(* begins with a dictionary in which all commands are scheduled.           *)
Start ==
  /\ ~runner.alive
  /\ runner.run < MaxRuns
  /\ \E l \in R!Lists :
       runner' = [run |-> runner.run + 1, list |-> l, at |-> "schedule", i |-> 1,
                  opened |-> FALSE, dict |-> [c \in R!Asked(l) |-> R!Scheduled],
                  shell |-> FALSE, alive |-> TRUE]
  /\ get' = [get EXCEPT !.alone = FALSE]
  /\ UNCHANGED <<file, stream>>

(* A start or a stop has found the pid of the run in the file, or DELETE   *)
(* /commanddetached takes all children of the agent, and it is killed. The *)
(* shell may outlive it.                                                   *)
Kill ==
  /\ runner.alive
  /\ runner' = [runner EXCEPT !.alive = FALSE, !.shell = FALSE]
  /\ \/ UNCHANGED stream
     \/ /\ runner.shell
        /\ stream' = [stream EXCEPT ![Command].writers = @ \ {Exec}]
  /\ UNCHANGED <<file, get>>

At(step) == runner.alive /\ runner.at = step

(* write_to_file_dict opens the file, which empties it. The dictionary has *)
(* been changed before: the command of a new step has a fresh entry.       *)
Open ==
  /\ runner.alive
  /\ runner.at \in Writes
  /\ ~runner.opened
  /\ runner' = [runner EXCEPT !.opened = TRUE,
                              !.dict = IF runner.at # "progress" THEN @
                                       ELSE [@ EXCEPT ![Command] = R!InProgress]]
  /\ file' = R!EmptyFile
  /\ UNCHANGED <<stream, get>>

(* Mutant of AfterWrite: the last command is not waited for.               *)
AfterWriteShort(step) ==
  CASE step = "schedule" -> "progress"
    [] step = "progress" /\ runner.i < Len(runner.list) -> "delete"
    [] step = "complete" /\ runner.i < Len(runner.list) -> "progress"
    [] step \in {"progress", "complete"} /\ runner.i = Len(runner.list) -> "final"
    [] OTHER -> "exit"

AfterWrite(step) ==
  CASE step = "schedule" -> "progress"
    [] step = "progress" -> "delete"
    [] step = "complete" /\ runner.i < Len(runner.list) -> "progress"
    [] step = "complete" /\ runner.i = Len(runner.list) -> "final"
    [] OTHER -> "exit"

Write ==
  /\ runner.alive
  /\ runner.opened
  /\ file' = R!RecordOf(runner.run, runner.at = "final", runner.dict)
  /\ runner' = [runner EXCEPT !.opened = FALSE,
                              !.at = AfterWrite(@),
                              !.i = IF AfterWrite(runner.at) = "progress" /\ runner.at = "complete"
                                    THEN @ + 1 ELSE @]
  /\ UNCHANGED <<stream, get>>

(* Mutant of Delete: the stream of an earlier execution stays.             *)
DeleteNothing ==
  /\ At("delete")
  /\ runner' = [runner EXCEPT !.at = "create"]
  /\ UNCHANGED <<file, stream, get>>

(* recreate_files deletes the stream that is there, and makes a new one.   *)
Delete ==
  /\ At("delete")
  /\ stream' = [stream EXCEPT ![Command] = NoStream]
  /\ runner' = [runner EXCEPT !.at = "create"]
  /\ UNCHANGED <<file, get>>

Create ==
  /\ At("create")
  /\ stream' = [stream EXCEPT ![Command] = IF @.there THEN @ ELSE NewStream]
  /\ runner' = [runner EXCEPT !.at = "launch"]
  /\ UNCHANGED <<file, get>>

(* The stream is opened for writing, which empties it, and handed to the   *)
(* shell of the command.                                                   *)
Launch ==
  /\ At("launch")
  /\ stream' = [stream EXCEPT ![Command].text = {}, ![Command].writers = @ \cup {Exec}]
  /\ runner' = [runner EXCEPT !.at = "wait", !.shell = TRUE]
  /\ UNCHANGED <<file, get>>

(* The name of the stream is the command in base 64: it may be too long,   *)
(* or have a "/" in it and name a directory that does not exist. Or Popen  *)
(* raises; or the stream of a command that has ended is no text in UTF-8.  *)
(* Nobody catches it, and the run ends where it is.                        *)
Fail ==
  /\ runner.alive
  /\ \/ runner.at \in {"delete", "create", "launch"}
     \/ runner.at = "wait" /\ ~runner.shell
  /\ runner' = [runner EXCEPT !.alive = FALSE]
  /\ UNCHANGED <<file, stream, get>>

(* Mutants of Resume: a status that no client knows, or the runner waits   *)
(* for all who have the stream open.                                       *)
ResumeUnknown ==
  /\ At("wait")
  /\ ~runner.shell
  /\ runner' = [runner EXCEPT !.at = "complete",
                              !.dict[Command] = [status |-> "completed",
                                                 by |-> stream[Command].text]]
  /\ UNCHANGED <<file, stream, get>>

ResumeAtEndOfStream ==
  /\ At("wait")
  /\ ~runner.shell
  /\ stream[Command].writers = {}
  /\ runner' = [runner EXCEPT !.at = "complete",
                              !.dict[Command] = R!Finished(stream[Command].text)]
  /\ UNCHANGED <<file, stream, get>>

(* communicate() returns when the shell has ended; the stream is read into *)
(* the details of the command.                                             *)
Resume ==
  /\ At("wait")
  /\ ~runner.shell
  /\ runner' = [runner EXCEPT !.at = "complete",
                              !.dict[Command] = R!Finished(stream[Command].text)]
  /\ UNCHANGED <<file, stream, get>>

Exit ==
  /\ At("exit")
  /\ runner' = [runner EXCEPT !.alive = FALSE]
  /\ UNCHANGED <<file, stream, get>>

RunnerStep == Open \/ Write \/ Delete \/ Create \/ Launch \/ Resume \/ Exit

---------------------------------------------------------------------------
(* Who has a stream open writes to it: the shell of the command, or what   *)
(* it has left behind.                                                     *)
Output ==
  /\ \E c \in Cmds : \E e \in stream[c].writers \ stream[c].text :
       stream' = [stream EXCEPT ![c].text = @ \cup {e}]
  /\ UNCHANGED <<runner, file, get>>

(* A shell ends when its output is in the stream; its children may go on.  *)
ShellEnds ==
  /\ runner.alive
  /\ runner.shell
  /\ Exec \in stream[Command].text
  /\ runner' = [runner EXCEPT !.shell = FALSE]
  /\ \/ UNCHANGED stream
     \/ stream' = [stream EXCEPT ![Command].writers = @ \ {Exec}]
  /\ UNCHANGED <<file, get>>

---------------------------------------------------------------------------
(* GET /commanddetached/<id> reads and parses the file, or fails; then it  *)
(* reads the stream of each of its commands over the details.              *)
GetFile ==
  /\ get.at = "idle"
  /\ file.st = "record"
  /\ get' = [at |-> "streams", record |-> file, todo |-> DOMAIN file.entries,
             alone |-> file.run = runner.run]
  /\ UNCHANGED <<runner, file, stream>>

Answered == get.at = "streams" /\ get.todo = {}

(* A stream that is not there leaves the details as they are.              *)
GetStream ==
  /\ get.at = "streams"
  /\ \E c \in get.todo :
       get' = [get EXCEPT !.todo = @ \ {c},
                          !.record.entries[c].by = IF stream[c].there THEN stream[c].text ELSE @]
  /\ UNCHANGED <<runner, file, stream>>

GetReturns ==
  /\ Answered
  /\ get' = NoGet
  /\ UNCHANGED <<runner, file, stream>>

Get == GetFile \/ GetStream \/ GetReturns

Next == Start \/ Kill \/ RunnerStep \/ Fail \/ Output \/ ShellEnds \/ Get

Spec == Init /\ [][Next]_vars

(* The runner is scheduled, and its commands produce their output and end. *)
(* Nothing need ever fail.                                                 *)
FairSpec == Spec /\ WF_vars(RunnerStep) /\ WF_vars(Output) /\ WF_vars(ShellEnds)

---------------------------------------------------------------------------
(* Properties.                                                             *)

TypeOK ==
  /\ runner \in Runner
  /\ \/ file \in {R!NoFile, R!EmptyFile}
     \/ /\ file = R!RecordOf(file.run, file.finished, file.entries)
        /\ file.run \in 1..runner.run /\ file.finished \in BOOLEAN
        /\ DOMAIN file.entries \subseteq Cmds
        /\ file.entries \in [DOMAIN file.entries -> R!Entry]
  /\ stream \in [Cmds -> Stream]
  /\ get.at \in {"idle", "streams"}

(* No stream ever holds the output of two executions, although what an     *)
(* earlier run or an earlier equal command has left behind goes on         *)
(* writing (recreate_files).                                               *)
StreamsNeverMix ==
  \A c \in Cmds : \A d, e \in stream[c].text : d = e

(* A GET that answers with a finished run, no newer run having been        *)
(* started meanwhile, shows every command as finished and next to it the   *)
(* output of its last execution in that very run (get_cmd_detached_info_id).*)
AnswerIsOfItsRun ==
  Answered /\ get.alone /\ get.record.finished =>
    \A c \in R!Asked(runner.list) :
       get.record.entries[c] =
         R!Finished({<<runner.run, i>> : i \in
           {j \in R!Places(runner.list, c) : \A h \in R!Places(runner.list, c) : h <= j}})

(* The runner, which edits a dictionary that has one entry for equal       *)
(* commands and reads streams that others write, reports what RunReport    *)
(* promises as a function of the list of commands.                         *)
ImplementsRunReport == R!Spec

(* A run ends, whatever its commands leave behind; and if it was neither   *)
(* killed nor failed, the file then says that it is finished.              *)
RunIsReported ==
  runner.alive ~>
    /\ ~runner.alive
    /\ runner.at = "exit" => /\ file.st = "record"
                             /\ file.run = runner.run
                             /\ file.finished

=============================================================================
