------------------------- MODULE DetachedCommands -------------------------
(***************************************************************************)
(* Detached commands of the agent: the REST handlers of                    *)
(* src/rest/api/routes.py that start, inspect and stop command runs by id, *)
(* the runner process that executes the commands of one run                *)
(* (src/rest/api/command/command.py), the JSON file through which the two  *)
(* communicate (cmd_info_<id>.json), and the operating system's process    *)
(* table that src/rest/utils/process_utils.py reads and signals.           *)
(*                                                                         *)
(* Flask serves every request on a thread of its own, so a handler is a    *)
(* sequence of atomic steps that interleave with the steps of the other    *)
(* handlers, of the runners and of the commands' shells.                   *)
(***************************************************************************)
EXTENDS Naturals, FiniteSets

CONSTANTS
  Ids,         \* command ids a client can name in a URL
  InitialId,   \* the id "_" that StateHolder holds before any start
  Pids,        \* process ids
  NoPid,       \* no process: the agent is down, or a file holds no pid
  Reaper,      \* the process that adopts orphans (init), never in Pids
  Handlers,    \* request threads of the agent
  Ops,         \* the kinds of request clients send
  MaxCmds,     \* bound: commands of one start request
  Recycle,     \* may the kernel give a pid to a second process?
  Stubborn,    \* may a command ignore SIGTERM?
  Crashes      \* may the agent die and be started again?

ASSUME InitialIdAssumption == InitialId \in Ids
ASSUME PidAssumption == NoPid \notin Pids /\ Reaper \notin Pids /\ NoPid # Reaper
ASSUME OpsAssumption == Ops \subseteq {"start", "stop", "stopAll", "info", "infoLast"}
ASSUME MaxCmdsAssumption == MaxCmds \in Nat
ASSUME SwitchAssumption ==
  /\ Recycle \in BOOLEAN
  /\ Stubborn \in BOOLEAN
  /\ Crashes \in BOOLEAN

VARIABLES
  agent,   \* pid of the agent process, NoPid while it is down
  proc,    \* the process table
  file,    \* cmd_info_<id>.json, for every id
  last,    \* StateHolder: the id whose file GET /commanddetached reads
  req      \* what each request thread is doing

vars == <<agent, proc, file, last, req>>

---------------------------------------------------------------------------
(* The process table.                                                      *)

(* A process: its state, what it is, its parent, the command id it works   *)
(* for and whether it ignores SIGTERM; for a runner also the step it is    *)
(* at, whether it has truncated the file of that step already, and how     *)
(* many commands it still has to run.                                      *)
WritingSteps == {"schedule", "progress", "complete", "final"}
RunnerSteps == WritingSteps \cup {"shell", "wait", "exit"}

Process ==
  [st : {"unused", "live", "zombie", "gone"},
   kind : {"none", "agent", "runner", "shell"},
   parent : Pids \cup {Reaper},
   cid : Ids,
   hard : BOOLEAN,
   at : RunnerSteps \cup {"none", "exited", "killed"},
   opened : BOOLEAN,
   left : 0..MaxCmds]

Unborn == [st |-> "unused", kind |-> "none", parent |-> Reaper, cid |-> InitialId,
           hard |-> FALSE, at |-> "none", opened |-> FALSE, left |-> 0]

AgentProcess == [st |-> "live", kind |-> "agent", parent |-> Reaper, cid |-> InitialId,
                 hard |-> FALSE, at |-> "none", opened |-> FALSE, left |-> 0]

Runner(id, n) ==
  [st |-> "live", kind |-> "runner", parent |-> agent, cid |-> id,
   hard |-> FALSE, at |-> "schedule", opened |-> FALSE, left |-> n]

Shell(p, ignoresTerm) ==
  [st |-> "live", kind |-> "shell", parent |-> p, cid |-> proc[p].cid,
   hard |-> ignoresTerm, at |-> "none", opened |-> FALSE, left |-> 0]

Live(p) == proc[p].st = "live"
Exists(p) == proc[p].st \in {"live", "zombie"}

(* The pids fork() may return: without recycling, a pid is used once.      *)
FreePids ==
  {p \in Pids : proc[p].st = "unused" \/ (Recycle /\ proc[p].st = "gone")}

Children(p) == {q \in Pids : Exists(q) /\ proc[q].parent = p}
Descendants(p) == Children(p) \cup UNION {Children(q) : q \in Children(p)}

(* Mutant of Dead: a runner does not wait for the shell of its command.    *)
DeadUnwaited(p, how) ==
  [st |-> "zombie", kind |-> proc[p].kind, parent |-> proc[p].parent,
   cid |-> proc[p].cid, hard |-> FALSE, at |-> how, opened |-> FALSE, left |-> 0]

(* The record of a process that has ended: a child of the agent stays a    *)
(* zombie until the agent reaps it, other parents reap at once.            *)
Dead(p, how) ==
  LET waitedFor == proc[p].parent = agent IN
  [st |-> IF waitedFor THEN "zombie" ELSE "gone", kind |-> proc[p].kind,
   parent |-> IF waitedFor THEN agent ELSE Reaper, cid |-> proc[p].cid,
   hard |-> FALSE, at |-> how, opened |-> FALSE, left |-> 0]

(* The table after p has ended: its children are adopted by Reaper.        *)
Ended(p, how) ==
  [q \in Pids |-> CASE q = p -> Dead(p, how)
                    [] q # p /\ proc[q].parent = p -> [proc[q] EXCEPT !.parent = Reaper]
                    [] OTHER -> proc[q]]

(* The table after the agent has waited for the processes ps.              *)
Reaped(ps) ==
  [q \in Pids |-> IF q \in ps /\ proc[q].st = "zombie"
                  THEN [proc[q] EXCEPT !.st = "gone", !.parent = Reaper]
                  ELSE proc[q]]

---------------------------------------------------------------------------
(* The file of an id: absent, empty (truncated by open('w')), mixed (two   *)
(* writers overlapped and left no JSON), or a JSON record. "init" is the   *)
(* initial record that the agent writes, "started" and "finished" are the  *)
(* records of a runner; each holds the pid of the process that wrote it.   *)

Parsed == {"init", "started", "finished"}
FileRecord ==
  [st : {"absent", "empty", "mixed"}, pid : {NoPid}] \cup [st : Parsed, pid : Pids]

NoFile == [st |-> "absent", pid |-> NoPid]
EmptyFile == [st |-> "empty", pid |-> NoPid]
MixedFile == [st |-> "mixed", pid |-> NoPid]

Parses(id) == file[id].st \in Parsed

(* write_to_file_dict opens the file, which empties it, and then writes.   *)
Truncate(id) == file' = [file EXCEPT ![id] = EmptyFile]

(* The write of one that has the file open: over bytes that another writer *)
(* has put there since, the result is a record followed by what is longer. *)
Put(id, status, pid) ==
  \E result \in {[st |-> status, pid |-> pid]}
                \cup (IF file[id].st = "empty" THEN {} ELSE {MixedFile}) :
     file' = [file EXCEPT ![id] = result]

---------------------------------------------------------------------------
(* Request threads.                                                        *)

Pcs == {"idle", "check", "initopen", "initput", "read", "snapshot",
        "signal", "wait", "spawn", "setlast", "reply"}
Replies == {"none", "ok", "fail", "raw500", "rejected"}

(* op, id and n are the request; root is the pid read from the file, and   *)
(* todo and targets are psutil's process objects still to be signalled     *)
(* and to be waited for.                                                   *)
Request ==
  [op : Ops \cup {"none"}, id : Ids, n : 0..MaxCmds, pc : Pcs,
   root : Pids \cup {NoPid}, todo : SUBSET Pids, targets : SUBSET Pids,
   reply : Replies]

(* A request as it arrives, with the step that its handler begins with.    *)
Asking(op, id, n, pc, root, reply) ==
  [op |-> op, id |-> id, n |-> n, pc |-> pc, root |-> root,
   todo |-> {}, targets |-> {}, reply |-> reply]

Idle == Asking("none", InitialId, 0, "idle", NoPid, "none")

At(h, pc) == req[h].pc = pc
Goto(h, pc) == req' = [req EXCEPT ![h].pc = pc]
Answer(h, reply) == req' = [req EXCEPT ![h].pc = "reply", ![h].reply = reply]

(* Mutant of Forgetting: a pid is taken for the process that had it.       *)
RememberingPid(r, p) == r

(* A psutil process object stays bound to the process it was made for:     *)
(* once the kernel gives its pid to another, it no longer names anything.  *)
Forgetting(r, p) == [r EXCEPT !.todo = @ \ {p}, !.targets = @ \ {p}]

---------------------------------------------------------------------------
Init ==
  /\ \E p \in Pids :
        /\ agent = p
        /\ proc = [q \in Pids |-> IF q = p THEN AgentProcess ELSE Unborn]
  /\ file = [id \in Ids |-> NoFile]
  /\ last = InitialId
  /\ req = [h \in Handlers |-> Idle]

Receive(h, request) ==
  /\ agent # NoPid
  /\ At(h, "idle")
  /\ request.op \in Ops
  /\ req' = [req EXCEPT ![h] = request]
  /\ UNCHANGED <<agent, proc, file, last>>

(* POST, DELETE and GET /commanddetached/<id> begin with the file of the   *)
(* id, as does POST /commanddetachedyaml/<id> when its YAML and its        *)
(* variables are accepted. A start without commands is refused at once.    *)
ReceiveStart(h) ==
  \E id \in Ids, n \in 1..MaxCmds :
     Receive(h, Asking("start", id, n, "read", NoPid, "none"))

ReceiveEmptyStart(h) ==
  \E id \in Ids : Receive(h, Asking("start", id, 0, "reply", NoPid, "rejected"))

ReceiveById(h) ==
  \E op \in {"stop", "info"}, id \in Ids :
     Receive(h, Asking(op, id, 0, "read", NoPid, "none"))

(* GET /commanddetached asks StateHolder for the file first.               *)
ReceiveInfoLast(h) == Receive(h, Asking("infoLast", last, 0, "check", NoPid, "none"))

(* DELETE /commanddetached kills the tree below the agent itself.          *)
ReceiveStopAll(h) ==
  Receive(h, Asking("stopAll", InitialId, 0, "snapshot", agent, "none"))

(* GET /commanddetached writes the initial record when there is no file.   *)
CheckFile(h) ==
  /\ At(h, "check")
  /\ Goto(h, IF file[req[h].id].st = "absent" THEN "initopen" ELSE "read")
  /\ UNCHANGED <<agent, proc, file, last>>

InitOpen(h) ==
  /\ At(h, "initopen")
  /\ Truncate(req[h].id)
  /\ Goto(h, "initput")
  /\ UNCHANGED <<agent, proc, last>>

InitPut(h) ==
  /\ At(h, "initput")
  /\ Put(req[h].id, "init", agent)
  /\ Goto(h, "read")
  /\ UNCHANGED <<agent, proc, last>>

(* A GET reads and parses the file and answers. When that fails, the       *)
(* handler of the last command raises with an enum in place of the code,   *)
(* which the error handler cannot serialise: a bare 500.                   *)
ReadInfo(h) ==
  /\ At(h, "read")
  /\ req[h].op \in {"info", "infoLast"}
  /\ Answer(h, CASE Parses(req[h].id) -> "ok"
                 [] ~Parses(req[h].id) /\ req[h].op = "info" -> "fail"
                 [] OTHER -> "raw500")
  /\ UNCHANGED <<agent, proc, file, last>>

(* Mutant of ReadPid: the pid comes from the file of the last start.       *)
ReadPidOfLast(h) ==
  /\ At(h, "read")
  /\ req[h].op \in {"start", "stop"}
  /\ IF Parses(last)
     THEN req' = [req EXCEPT ![h].pc = "snapshot", ![h].root = file[last].pid]
     ELSE IF req[h].op = "start" THEN Goto(h, "spawn") ELSE Answer(h, "fail")
  /\ UNCHANGED <<agent, proc, file, last>>

(* A stop reads the pid of the run from the file; a start, which stops the *)
(* previous run of its id, swallows the failure and goes on.               *)
ReadPid(h) ==
  /\ At(h, "read")
  /\ req[h].op \in {"start", "stop"}
  /\ \/ /\ Parses(req[h].id)
        /\ req' = [req EXCEPT ![h].pc = "snapshot", ![h].root = file[req[h].id].pid]
     \/ /\ ~Parses(req[h].id)
        /\ req[h].op = "start"
        /\ Goto(h, "spawn")
     \/ /\ ~Parses(req[h].id)
        /\ req[h].op = "stop"
        /\ Answer(h, "fail")
  /\ UNCHANGED <<agent, proc, file, last>>

(* Mutants of KillTargets: including the agent, or without the root.       *)
KillTargetsWithAgent(root) == Descendants(root) \cup {root}
KillTargetsBelowRoot(root) == Descendants(root)

(* kill_proc_tree up to its loop: the processes below the root, and the    *)
(* root itself unless it is the agent.                                     *)
KillTargets(root) ==
  Descendants(root) \cup (IF root = agent THEN {} ELSE {root})

SnapshotTree(h) ==
  /\ At(h, "snapshot")
  /\ Exists(req[h].root)
  /\ req' = [req EXCEPT ![h].pc = "signal",
                        ![h].todo = KillTargets(req[h].root),
                        ![h].targets = KillTargets(req[h].root)]
  /\ UNCHANGED <<agent, proc, file, last>>

(* psutil.Process(pid) raises when no such process exists.                 *)
SnapshotFails(h) ==
  /\ At(h, "snapshot")
  /\ ~Exists(req[h].root)
  /\ IF req[h].op = "start" THEN Goto(h, "spawn") ELSE Answer(h, "fail")
  /\ UNCHANGED <<agent, proc, file, last>>

(* The loop signals the processes one after the other: a parent before its *)
(* children, the root last. A process that is gone is only logged.         *)
NextToSignal(h, p) ==
  LET r == req[h] IN
  /\ p \in r.todo
  /\ p = r.root => r.todo = {p}
  /\ proc[p].parent \in r.todo => proc[p].parent = r.root

Signal(h) ==
  /\ At(h, "signal")
  /\ \E p \in Pids :
       /\ NextToSignal(h, p)
       /\ proc' = IF Live(p) /\ ~proc[p].hard THEN Ended(p, "killed") ELSE proc
       /\ req' = [req EXCEPT ![h].todo = @ \ {p}]
  /\ UNCHANGED <<agent, file, last>>

(* Mutant of SignalsSent: the loop is left before its end.                 *)
SignalsSentEarly(h) ==
  /\ At(h, "signal")
  /\ Goto(h, "wait")
  /\ UNCHANGED <<agent, proc, file, last>>

SignalsSent(h) ==
  /\ At(h, "signal")
  /\ req[h].todo = {}
  /\ Goto(h, "wait")
  /\ UNCHANGED <<agent, proc, file, last>>

(* wait_procs returns when every process is gone or after five seconds; it *)
(* reaps the agent's children among them, and nobody reads its result.     *)
WaitDone(h) ==
  /\ proc' = Reaped(req[h].targets)
  /\ IF req[h].op = "start" THEN Goto(h, "spawn") ELSE Answer(h, "ok")
  /\ UNCHANGED <<agent, file, last>>

WaitGone(h) ==
  /\ At(h, "wait")
  /\ \A p \in req[h].targets : ~Live(p)
  /\ WaitDone(h)

(* Mutant of WaitTimeout: wait_procs without a timeout.                    *)
WaitForEver(h) == At(h, "wait") /\ req[h].targets = {} /\ WaitDone(h)

WaitTimeout(h) ==
  /\ At(h, "wait")
  /\ \E p \in req[h].targets : Live(p)
  /\ WaitDone(h)

(* Popen first reaps the children that have ended, then forks the runner.  *)
Spawn(h) ==
  /\ At(h, "spawn")
  /\ \E p \in FreePids :
       /\ proc' = [Reaped(Pids) EXCEPT ![p] = Runner(req[h].id, req[h].n)]
       /\ req' = [g \in Handlers |->
                    [Forgetting(req[g], p) EXCEPT !.pc = IF g = h THEN "setlast" ELSE @]]
  /\ UNCHANGED <<agent, file, last>>

(* Mutant of SpawnFails: the id is remembered before the Popen.            *)
SpawnFailsRemembering(h) ==
  /\ At(h, "spawn")
  /\ last' = req[h].id
  /\ Answer(h, "fail")
  /\ UNCHANGED <<agent, proc, file>>

(* The chmod fails, or the Popen does.                                     *)
SpawnFails(h) ==
  /\ At(h, "spawn")
  /\ proc' \in {proc, Reaped(Pids)}
  /\ Answer(h, "fail")
  /\ UNCHANGED <<agent, file, last>>

SetLast(h) ==
  /\ At(h, "setlast")
  /\ last' = req[h].id
  /\ Answer(h, "ok")
  /\ UNCHANGED <<agent, proc, file>>

Respond(h) ==
  /\ At(h, "reply")
  /\ req' = [req EXCEPT ![h] = Idle]
  /\ UNCHANGED <<agent, proc, file, last>>

Accept(h) ==
  \/ ReceiveStart(h) \/ ReceiveEmptyStart(h) \/ ReceiveById(h)
  \/ ReceiveInfoLast(h) \/ ReceiveStopAll(h)

Handle(h) ==
  \/ CheckFile(h) \/ InitOpen(h) \/ InitPut(h)
  \/ ReadInfo(h) \/ ReadPid(h)
  \/ SnapshotTree(h) \/ SnapshotFails(h)
  \/ Signal(h) \/ SignalsSent(h) \/ WaitGone(h) \/ WaitTimeout(h)
  \/ Spawn(h) \/ SpawnFails(h) \/ SetLast(h)
  \/ Respond(h)

---------------------------------------------------------------------------
(* The runner: Command.run_commands. It records the run as scheduled, for  *)
(* each command records that it is in progress, runs it in a shell, waits  *)
(* and records that it is done, and at last records the run as finished.   *)

IsRunnerAt(p, at) == Live(p) /\ proc[p].kind = "runner" /\ proc[p].at = at

RunnerOpens(p) ==
  /\ \E at \in WritingSteps : IsRunnerAt(p, at)
  /\ ~proc[p].opened
  /\ Truncate(proc[p].cid)
  /\ proc' = [proc EXCEPT ![p].opened = TRUE]
  /\ UNCHANGED <<agent, last, req>>

(* Mutants of StepAfter: one command too many, or no final record.         *)
StepAfterOnceMore(at, n) ==
  CASE at = "schedule" -> "progress"
    [] at = "progress" -> "shell"
    [] at = "complete" -> IF n >= 0 THEN "progress" ELSE "final"
    [] at = "final" -> "exit"

StepAfterUnfinished(at, n) ==
  CASE at = "schedule" -> "progress"
    [] at = "progress" -> "shell"
    [] at = "complete" -> IF n > 0 THEN "progress" ELSE "exit"
    [] at = "final" -> "exit"

(* The step after the record of step "at" is written, when n commands are  *)
(* left to run.                                                            *)
StepAfter(at, n) ==
  CASE at = "schedule" -> "progress"
    [] at = "progress" -> "shell"
    [] at = "complete" -> IF n > 0 THEN "progress" ELSE "final"
    [] at = "final" -> "exit"

(* Mutant of RunnerWrites: the record never reaches the file.              *)
RunnerWritesNothing(p) ==
  \E at \in WritingSteps :
    /\ IsRunnerAt(p, at)
    /\ proc[p].opened
    /\ proc' = [proc EXCEPT ![p].opened = FALSE, ![p].at = StepAfter(at, proc[p].left)]
    /\ UNCHANGED <<agent, file, last, req>>

RunnerWrites(p) ==
  \E at \in WritingSteps :
    /\ IsRunnerAt(p, at)
    /\ proc[p].opened
    /\ Put(proc[p].cid, IF at = "final" THEN "finished" ELSE "started", p)
    /\ proc' = [proc EXCEPT ![p].opened = FALSE, ![p].at = StepAfter(at, proc[p].left)]
    /\ UNCHANGED <<agent, last, req>>

RunnerForks(p) ==
  /\ IsRunnerAt(p, "shell")
  /\ \E s \in FreePids, ignoresTerm \in {FALSE, Stubborn} :
       /\ proc' = [proc EXCEPT ![p].at = "wait", ![s] = Shell(p, ignoresTerm)]
       /\ req' = [h \in Handlers |-> Forgetting(req[h], s)]
  /\ UNCHANGED <<agent, file, last>>

(* The Popen of the shell raises: the runner ends with the exception.      *)
RunnerAborts(p) ==
  /\ IsRunnerAt(p, "shell")
  /\ proc' = Ended(p, "killed")
  /\ UNCHANGED <<agent, file, last, req>>

(* Mutant of RunnerResumes: the runner does not wait for its shell.        *)
RunnerResumesAtOnce(p) ==
  /\ IsRunnerAt(p, "wait")
  /\ proc' = [proc EXCEPT ![p].at = "complete", ![p].left = @ - 1]
  /\ UNCHANGED <<agent, file, last, req>>

(* communicate() returns when the shell has ended.                         *)
RunnerResumes(p) ==
  /\ IsRunnerAt(p, "wait")
  /\ Children(p) = {}
  /\ proc' = [proc EXCEPT ![p].at = "complete", ![p].left = @ - 1]
  /\ UNCHANGED <<agent, file, last, req>>

RunnerExits(p) ==
  /\ IsRunnerAt(p, "exit")
  /\ proc' = Ended(p, "exited")
  /\ UNCHANGED <<agent, file, last, req>>

RunnerStep(p) ==
  \/ RunnerOpens(p) \/ RunnerWrites(p)
  \/ RunnerForks(p) \/ RunnerAborts(p) \/ RunnerResumes(p)
  \/ RunnerExits(p)

(* A command ends by itself.                                               *)
ShellExits(p) ==
  /\ Live(p)
  /\ proc[p].kind = "shell"
  /\ proc' = Ended(p, "exited")
  /\ UNCHANGED <<agent, file, last, req>>

---------------------------------------------------------------------------
(* The agent dies with its requests and its memory; the runs and the files *)
(* stay. A new agent starts with the initial StateHolder.                  *)
Crash ==
  /\ Crashes
  /\ agent # NoPid
  /\ agent' = NoPid
  /\ proc' = [q \in Pids |->
                CASE q = agent -> [proc[q] EXCEPT !.st = "gone", !.at = "killed"]
                  [] q # agent /\ proc[q].parent = agent ->
                       [proc[q] EXCEPT !.parent = Reaper,
                                       !.st = IF @ = "zombie" THEN "gone" ELSE @]
                  [] OTHER -> proc[q]]
  /\ req' = [h \in Handlers |-> Idle]
  /\ UNCHANGED <<file, last>>

Restart ==
  /\ agent = NoPid
  /\ \E p \in FreePids :
       /\ agent' = p
       /\ proc' = [proc EXCEPT ![p] = AgentProcess]
  /\ last' = InitialId
  /\ UNCHANGED <<file, req>>

---------------------------------------------------------------------------
Next ==
  \/ \E h \in Handlers : Accept(h) \/ Handle(h)
  \/ \E p \in Pids : RunnerStep(p) \/ ShellExits(p)
  \/ Crash \/ Restart

Spec == Init /\ [][Next]_vars

(* Handlers, runners and the operating system keep going.                  *)
HandlersFairness == \A h \in Handlers : WF_vars(Handle(h))

(* Runners keep going, and every command that they execute ends some day.  *)
CommandsFairness == \A p \in Pids : WF_vars(RunnerStep(p)) /\ WF_vars(ShellExits(p))

FairSpec == Spec /\ HandlersFairness

---------------------------------------------------------------------------
(* Properties.                                                             *)

(* The runs of an id.                                                      *)
Runs(id) == {p \in Pids : proc[p].kind = "runner" /\ proc[p].cid = id}

TypeOK ==
  /\ agent \in Pids \cup {NoPid}
  /\ proc \in [Pids -> Process]
  /\ file \in [Ids -> FileRecord]
  /\ last \in Ids
  /\ req \in [Handlers -> Request]

(* kill_proc_tree never signals the agent itself, although the pid in the  *)
(* file may be the agent's own (GET /commanddetached puts it there), that  *)
(* of an earlier agent, or one that the kernel has given away again.       *)
AgentNeverTargeted == \A h \in Handlers : agent \notin req[h].targets

(* A stop or a restart by id signals processes of that id only, unless the *)
(* file sent it to the agent's own pid. Files survive the agent, so the    *)
(* pid may be stale; this is for pids that are not recycled.               *)
StopScope ==
  \A h \in Handlers :
     req[h].op \in {"start", "stop"} /\ req[h].root # agent =>
        \A p \in req[h].targets : proc[p].cid = req[h].id

(* Once kill_proc_tree is past its loop, what is still alive of the tree   *)
(* it took ignores SIGTERM.                                                *)
SignalledAreDead ==
  \A h \in Handlers :
     req[h].pc \in {"wait", "spawn", "setlast", "reply"} =>
        \A p \in req[h].targets : Live(p) => proc[p].hard

(* The run that the file named when a start or a stop by id read it is     *)
(* dead before the start launches the new run, and before a stop answers.  *)
(* Holds whatever the answer, for pids that are not recycled.              *)
KilledRunIsDead ==
  \A h \in Handlers :
     /\ req[h].op \in {"start", "stop"}
     /\ req[h].pc \in {"wait", "spawn", "setlast", "reply"}
     /\ req[h].root # NoPid
     /\ proc[req[h].root].kind = "runner"
     => ~Live(req[h].root)

(* While a file says that a run is finished, no command of that run is     *)
(* executing: clients poll for it before they read the results.            *)
FinishedMeansQuiet ==
  \A id \in Ids : file[id].st = "finished" => Children(file[id].pid) = {}

(* A run that went through to its end is never left behind as "started":   *)
(* while the file names it, the file says that it is finished.             *)
NormalExitIsPublished ==
  \A id \in Ids :
     /\ file[id].st = "started"
     /\ proc[file[id].pid].kind = "runner"
     => proc[file[id].pid].at # "exited"

(* A file that is empty is being written, or its writer was killed between *)
(* the open that truncates it and the write.                               *)
EmptyFileHasWriter ==
  \A id \in Ids :
     file[id].st = "empty" =>
        \/ \E p \in Pids : /\ proc[p].kind = "runner"
                           /\ proc[p].cid = id
                           /\ proc[p].opened \/ proc[p].at = "killed"
        \/ \E h \in Handlers : req[h].id = id /\ At(h, "initput")
        \/ \E p \in Pids : proc[p].kind = "agent" /\ ~Live(p)

(* The run that GET /commanddetached reports on was launched: a start that *)
(* failed never becomes the last one, whatever other starts are doing. For *)
(* pids that are not recycled.                                             *)
LastWasLaunched == last # InitialId => Runs(last) # {}

(* Every request is answered: also a stop whose commands ignore SIGTERM    *)
(* and never end, as wait_procs gives up after its timeout.                *)
EveryRequestAnswered ==
  \A h \in Handlers : ~At(h, "idle") ~> At(h, "idle")

(* If the commands end, so does every run.                                 *)
EveryRunEnds ==
  CommandsFairness =>
    \A p \in Pids : Live(p) /\ proc[p].kind = "runner" ~> ~Live(p)

---------------------------------------------------------------------------
(* The inductive invariants behind the theorems of DetachedCommandsProofs. *)

AgentIsAlive ==
  /\ agent # NoPid => /\ Live(agent)
                      /\ proc[agent].kind = "agent"
                      /\ proc[agent].parent = Reaper
  /\ agent = NoPid => \A h \in Handlers : req[h] = Idle

SoundRequest(r) ==
  /\ r.op = "start" /\ r.pc # "reply" => r.n > 0
  /\ r.pc \in {"spawn", "setlast"} => r.op = "start"
  /\ r.pc = "snapshot" => r.root \in Pids
  /\ r.todo \subseteq r.targets

RequestsAreSound == \A h \in Handlers : SoundRequest(req[h])

(* The commands a runner still counts are there to be run.                 *)
RunnersAreSound ==
  \A p \in Pids :
     proc[p].at \in {"schedule", "progress", "shell", "wait"} => proc[p].left > 0

BasicInv ==
  /\ TypeOK
  /\ AgentIsAlive
  /\ RequestsAreSound
  /\ RunnersAreSound
  /\ AgentNeverTargeted

(* A request has targets only once its handler has taken the snapshot, and *)
(* those that have been signalled and are still alive ignore SIGTERM.      *)
SignalsAreSound ==
  \A h \in Handlers :
     /\ req[h].pc \in {"idle", "check", "initopen", "initput", "read", "snapshot"} =>
           req[h].targets = {}
     /\ req[h].pc = "signal" =>
           \A p \in req[h].targets \ req[h].todo : Live(p) => proc[p].hard

KillInv == BasicInv /\ SignalsAreSound /\ SignalledAreDead

(* With pids that are used once, parents, files and requests name the      *)
(* process that they were meant for.                                       *)
ProcessesAreSound ==
  /\ \A p \in Pids : Exists(p) /\ proc[p].kind = "agent" => p = agent
  /\ \A p \in Pids : proc[p].kind = "none" <=> proc[p].st = "unused"
  /\ \A p \in Pids : proc[p].kind = "runner" => ~proc[p].hard

(* A shell works for its runner; a runner belongs to the agent.            *)
FamilyIsSound ==
  \A p \in Pids :
     proc[p].parent # Reaper =>
        LET parent == proc[proc[p].parent] IN
        \/ parent.kind = "agent" /\ proc[p].kind = "runner"
        \/ parent.kind = "runner" /\ proc[p].kind = "shell" /\ parent.cid = proc[p].cid

(* p is an agent, or a run of this id.                                     *)
MayBeNamedBy(id, p) ==
  \/ proc[p].kind = "agent"
  \/ proc[p].kind = "runner" /\ proc[p].cid = id

FilesAreSound == \A id \in Ids : Parses(id) => MayBeNamedBy(id, file[id].pid)

RootsAreSound ==
  \A h \in Handlers :
     /\ req[h].pc \in {"check", "initopen", "initput", "read"} => req[h].root = NoPid
     /\ req[h].op \in {"start", "stop"} /\ req[h].root # NoPid =>
           MayBeNamedBy(req[h].id, req[h].root)

TargetsAreSound ==
  \A h \in Handlers :
     req[h].op \in {"start", "stop"} /\ req[h].root # agent =>
        \A p \in req[h].targets :
           proc[p].kind # "none" /\ proc[p].cid = req[h].id

(* A root that is alive while its tree is signalled is still to come.      *)
RootIsPending ==
  \A h \in Handlers :
     /\ req[h].op \in {"start", "stop"}
     /\ req[h].pc = "signal"
     /\ req[h].root # NoPid
     /\ proc[req[h].root].kind = "runner"
     /\ Live(req[h].root)
     => req[h].root \in req[h].todo

ScopeInv ==
  /\ BasicInv
  /\ ProcessesAreSound
  /\ FamilyIsSound
  /\ FilesAreSound
  /\ RootsAreSound
  /\ TargetsAreSound
  /\ RootIsPending
  /\ KilledRunIsDead

---------------------------------------------------------------------------
(* Claims of the repository's documentation and tests that the code does   *)
(* not keep; each has a run that shows how.                                *)

(* A stop by the id of a run leaves the runs of other ids alone            *)
(* (tests/rest/flask_rest_test.py, test_command_stop_by_id_p).             *)
StopByIdStaysInId ==
  \A h \in Handlers :
     req[h].op = "stop" /\ Runs(req[h].id) # {} =>
        \A p \in req[h].targets : proc[p].cid = req[h].id

(* Once the run of an id has ended by itself, and no request is being      *)
(* served, its file reports it as finished.                                *)
EndedRunIsReported ==
  \A id \in Ids :
     /\ Runs(id) # {}
     /\ \A p \in Runs(id) : proc[p].at = "exited"
     /\ \A h \in Handlers : At(h, "idle")
     => file[id].st = "finished"

=============================================================================
