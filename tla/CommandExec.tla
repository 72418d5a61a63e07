---------------------------- MODULE CommandExec ----------------------------
(***************************************************************************)
(* Commands that a client waits for: POST /command and /commandyaml, which *)
(* run them one after the other (command_in_memory.py), and                *)
(* /commandparallel, which runs them in an event loop of its own           *)
(* (command_in_parallel.py).                                               *)
(*                                                                         *)
(* All of them keep their results in one module-level dictionary,          *)
(* command_detached_init of src/rest/api/definitions.py, and answer with   *)
(* what it holds at the end. Every request has a thread, and each          *)
(* statement that reads or writes the dictionary is a step.                *)
(***************************************************************************)
EXTENDS Naturals, Sequences

CONSTANTS
  Cmds,         \* command lines
  Threads,      \* request threads of the agent
  MaxCmds,      \* bound: command lines of one request
  MaxRequests,  \* bound: requests that the agent receives
  NoResult      \* the details of a command that has none yet

ASSUME BoundsAssumption == MaxCmds \in Nat /\ MaxRequests \in Nat
ASSUME ResultAssumption == NoResult \notin [by : Threads, cmd : Cmds]

VARIABLES
  record,      \* command_detached_init
  req,         \* what each request thread is doing
  received,    \* counter: how many requests have been received
  overlapped,  \* history: threads whose request was not alone all the time
  failed       \* history: has a request failed in the middle?

vars == <<record, req, received, overlapped, failed>>

---------------------------------------------------------------------------
(* The dictionary.                                                         *)

(* The result of a command, and which request had it run. An entry that    *)
(* /commandparallel has just made has no status at all.                    *)
Result == [by : Threads, cmd : Cmds]
Entry ==
  [st : {"none", "scheduled", "progress", "finished"}, result : Result \cup {NoResult}]

(* Python's booleans, and the strings that CommandInParallel writes.       *)
Flags == {"False", "True", "false", "true"}

(* shared are the keys whose value is still the one object that            *)
(* dict.fromkeys has made for all of them.                                 *)
IsRecord(r) ==
  /\ DOMAIN r = {"started", "finished", "commands", "shared"}
  /\ {r.started, r.finished} \subseteq Flags
  /\ DOMAIN r.commands \subseteq Cmds
  /\ r.commands \in [DOMAIN r.commands -> Entry]
  /\ r.shared \subseteq Cmds

Scheduled == [st |-> "scheduled", result |-> NoResult]

(* Mutant of FreshEntry: a status that no client knows.                    *)
FreshEntryOpened(kind) == [st |-> "opened", result |-> NoResult]

(* What run_command assigns to its command before it changes the status.   *)
FreshEntry(kind) ==
  [st |-> IF kind = "sequential" THEN "scheduled" ELSE "none", result |-> NoResult]

Keys == DOMAIN record.commands

(* Mutant of Assigned: the entry of a command is changed in place.         *)
AssignedInPlace(c, entry) ==
  [record EXCEPT !.commands =
     [d \in Keys \cup {c} |->
        IF d = c \/ {c, d} \subseteq record.shared THEN entry ELSE record.commands[d]]]

(* commands[c] = entry: from now on the key has an object of its own.      *)
Assigned(c, entry) ==
  [record EXCEPT !.shared = @ \ {c},
                 !.commands = [d \in Keys \cup {c} |->
                                 IF d = c THEN entry ELSE record.commands[d]]]

(* commands[c][...] = ...: seen by every key that has the same object.     *)
Changed(c, entry) ==
  [record EXCEPT !.commands =
     [d \in Keys |-> IF d = c \/ {c, d} \subseteq record.shared
                     THEN entry ELSE record.commands[d]]]

---------------------------------------------------------------------------
(* Requests.                                                               *)

Kinds == {"sequential", "parallel"}
Pcs == {"idle", "begin", "open", "reset", "tasks", "close", "closed", "serialise", "reply"}
Tasks == {"new", "opened", "running", "launched", "half", "done", "missing", "unlaunched"}
Replies == {"none", "ok", "rejected", "missing", "unlaunched"}

Lists == UNION {[1..n -> Cmds] : n \in 1..MaxCmds}

Asking(kind, cmds, pc, reply) ==
  [kind |-> kind, cmds |-> cmds, pc |-> pc, task |-> [i \in DOMAIN cmds |-> "new"],
   reply |-> reply]

Idle == Asking("none", <<>>, "idle", "none")

At(t, pc) == req[t].pc = pc
Answer(t, reply) == req' = [req EXCEPT ![t] = Asking("none", <<>>, "reply", reply)]
Goto(t, pc) == req' = [req EXCEPT ![t].pc = pc]
Asked(t) == {req[t].cmds[i] : i \in DOMAIN req[t].cmds}

Init ==
  /\ record = [started |-> "False", finished |-> "False",
               commands |-> [c \in {} |-> Scheduled], shared |-> {}]
  /\ req = [t \in Threads |-> Idle]
  /\ received = 0
  /\ overlapped = {}
  /\ failed = FALSE

Receive(t, request) ==
  LET others == {u \in Threads \ {t} : ~At(u, "idle")} IN
  /\ At(t, "idle")
  /\ received < MaxRequests
  /\ received' = received + 1
  /\ req' = [req EXCEPT ![t] = request]
  /\ overlapped' = IF others = {} THEN overlapped \ {t}
                   ELSE overlapped \cup others \cup {t}
  /\ UNCHANGED <<record, failed>>

ReceiveSequential(t) ==
  \E cmds \in Lists : Receive(t, Asking("sequential", cmds, "begin", "none"))

ReceiveParallel(t) ==
  \E cmds \in Lists : Receive(t, Asking("parallel", cmds, "reset", "none"))

(* An empty body, or a YAML text without a script.                         *)
ReceiveRejected(t) ==
  Receive(t, Asking("none", <<>>, "reply", "rejected"))

---------------------------------------------------------------------------
(* run_commands up to its first command.                                   *)

SetStarted(t) ==
  /\ At(t, "begin")
  /\ record' = [record EXCEPT !.started = "True"]
  /\ Goto(t, "open")
  /\ UNCHANGED <<received, overlapped, failed>>

ClearFinished(t) ==
  /\ At(t, "open")
  /\ record' = [record EXCEPT !.finished = "False"]
  /\ Goto(t, "reset")
  /\ UNCHANGED <<received, overlapped, failed>>

(* Mutant of ResetCommands: the commands are added to those of before.     *)
AddCommands(t) ==
  /\ At(t, "reset")
  /\ record' = [record EXCEPT !.commands = [c \in Keys \cup Asked(t) |-> Scheduled],
                              !.shared = Asked(t)]
  /\ Goto(t, "tasks")
  /\ UNCHANGED <<received, overlapped, failed>>

ResetCommands(t) ==
  /\ At(t, "reset")
  /\ record' = [record EXCEPT !.commands = [c \in Asked(t) |-> Scheduled],
                              !.shared = Asked(t)]
  /\ Goto(t, "tasks")
  /\ UNCHANGED <<received, overlapped, failed>>

---------------------------------------------------------------------------
(* run_command for the i-th command of t.                                  *)

(* The commands of a sequential request run in their order; the coroutines *)
(* of a parallel one give way to each other only while a process runs.     *)
MayRun(t, i) ==
  IF req[t].kind = "sequential"
  THEN \A j \in 1..(i - 1) : req[t].task[j] = "done"
  ELSE \A j \in DOMAIN req[t].task \ {i} : req[t].task[j] \notin {"opened", "half"}

(* Task i of t goes from one of its states to another, with c its command. *)
Steps(t, i, from, to) ==
  /\ At(t, "tasks")
  /\ req[t].task[i] = from
  /\ MayRun(t, i)
  /\ req' = [req EXCEPT ![t].task[i] = to]
  /\ UNCHANGED <<received, overlapped, failed>>

OpenEntry(t, i) ==
  /\ Steps(t, i, "new", "opened")
  /\ record' = Assigned(req[t].cmds[i], FreshEntry(req[t].kind))

(* Mutant of Edit: a command whose entry is missing is begun anew.         *)
EditOrReopen(t, i, from, to, st, result) ==
  LET c == req[t].cmds[i] IN
  \/ /\ c \in Keys
     /\ Steps(t, i, from, to)
     /\ LET entry == record.commands[c] IN
        record' = Changed(c, [st |-> IF st = "same" THEN entry.st ELSE st,
                              result |-> IF result = NoResult THEN entry.result ELSE result])
  \/ /\ c \notin Keys
     /\ Steps(t, i, from, "new")
     /\ UNCHANGED record

(* The entry of c gets a new status or result; it may be missing since     *)
(* another request has put a dictionary of its own in the place of the one *)
(* that held it, which is a KeyError.                                      *)
Edit(t, i, from, to, st, result) ==
  LET c == req[t].cmds[i] IN
  \/ /\ c \in Keys
     /\ Steps(t, i, from, to)
     /\ LET entry == record.commands[c] IN
        record' = Changed(c, [st |-> IF st = "same" THEN entry.st ELSE st,
                              result |-> IF result = NoResult THEN entry.result ELSE result])
  \/ /\ c \notin Keys
     /\ Steps(t, i, from, "missing")
     /\ UNCHANGED record

MarkInProgress(t, i) == Edit(t, i, "opened", "running", "progress", NoResult)

(* The process of the command is launched, or cannot be.                   *)
Launch(t, i) == Steps(t, i, "running", "launched") /\ UNCHANGED record
LaunchFails(t, i) == Steps(t, i, "running", "unlaunched") /\ UNCHANGED record

(* Its process has ended: the status and the result, in the order of the   *)
(* class.                                                                  *)
MarkFinished(t, i) ==
  IF req[t].kind = "sequential"
  THEN Edit(t, i, "launched", "half", "finished", NoResult)
  ELSE Edit(t, i, "half", "done", "finished", NoResult)

PutResult(t, i) ==
  LET result == [by |-> t, cmd |-> req[t].cmds[i]] IN
  IF req[t].kind = "sequential"
  THEN Edit(t, i, "half", "done", "same", result)
  ELSE Edit(t, i, "launched", "half", "same", result)

RunCommand(t) ==
  \E i \in DOMAIN req[t].cmds :
     \/ OpenEntry(t, i) \/ MarkInProgress(t, i) \/ Launch(t, i) \/ LaunchFails(t, i)
     \/ MarkFinished(t, i) \/ PutResult(t, i)

(* Mutant of Abort: the failure is seen when all other tasks are done.     *)
AbortAtTheEnd(t) ==
  /\ At(t, "tasks")
  /\ \E i \in DOMAIN req[t].task :
       /\ req[t].task[i] \in {"missing", "unlaunched"}
       /\ \A j \in DOMAIN req[t].task \ {i} : req[t].task[j] = "done"
       /\ Answer(t, req[t].task[i])
  /\ failed' = TRUE
  /\ UNCHANGED <<record, received, overlapped>>

(* A failed command ends run_commands, and the request with a 500. The     *)
(* other coroutines are never resumed; the record stays as it is.          *)
Abort(t) ==
  /\ At(t, "tasks")
  /\ \E i \in DOMAIN req[t].task :
       /\ req[t].task[i] \in {"missing", "unlaunched"}
       /\ Answer(t, req[t].task[i])
  /\ failed' = TRUE
  /\ UNCHANGED <<record, received, overlapped>>

AllDone(t) ==
  /\ At(t, "tasks")
  /\ \A i \in DOMAIN req[t].task : req[t].task[i] = "done"
  /\ Goto(t, "close")
  /\ UNCHANGED <<record, received, overlapped, failed>>

---------------------------------------------------------------------------
(* run_commands after its last command. The two classes write the flags in *)
(* different orders, and one of them as strings.                           *)

WriteFirstFlag(t) ==
  /\ At(t, "close")
  /\ record' = IF req[t].kind = "sequential" THEN [record EXCEPT !.started = "False"]
                                             ELSE [record EXCEPT !.finished = "true"]
  /\ Goto(t, "closed")
  /\ UNCHANGED <<received, overlapped, failed>>

WriteSecondFlag(t) ==
  /\ At(t, "closed")
  /\ record' = IF req[t].kind = "sequential" THEN [record EXCEPT !.finished = "True"]
                                             ELSE [record EXCEPT !.started = "false"]
  /\ Goto(t, "serialise")
  /\ UNCHANGED <<received, overlapped, failed>>

(* json.dumps of the shared dictionary, in one step of the interpreter:    *)
(* the response is the record as it is in the state before.                *)
Serialise(t) ==
  /\ At(t, "serialise")
  /\ Answer(t, "ok")
  /\ UNCHANGED <<record, received, overlapped, failed>>

Respond(t) ==
  /\ At(t, "reply")
  /\ req' = [req EXCEPT ![t] = Idle]
  /\ UNCHANGED <<record, received, overlapped, failed>>

Accept(t) == ReceiveSequential(t) \/ ReceiveParallel(t) \/ ReceiveRejected(t)

Handle(t) ==
  \/ SetStarted(t) \/ ClearFinished(t) \/ ResetCommands(t)
  \/ RunCommand(t) \/ Abort(t) \/ AllDone(t)
  \/ WriteFirstFlag(t) \/ WriteSecondFlag(t) \/ Serialise(t)
  \/ Respond(t)

Next == \E t \in Threads : Accept(t) \/ Handle(t)

Spec == Init /\ [][Next]_vars

---------------------------------------------------------------------------
(* Properties.                                                             *)

TypeOK ==
  /\ IsRecord(record)
  /\ req \in [Threads ->
       [kind : Kinds \cup {"none"}, cmds : Lists \cup {<<>>}, pc : Pcs,
        task : UNION {[1..n -> Tasks] : n \in 0..MaxCmds},
        reply : Replies]]
  /\ received \in 0..MaxRequests
  /\ overlapped \subseteq Threads
  /\ failed \in BOOLEAN

Closed(r) == r.started \in {"False", "false"} /\ r.finished \in {"True", "true"}

(* The record holds these commands, each finished with its own result.     *)
Holds(r, cmds) ==
  /\ DOMAIN r.commands = cmds
  /\ \A c \in cmds : /\ r.commands[c].st = "finished"
                     /\ r.commands[c].result # NoResult
                     /\ r.commands[c].result.cmd = c

(* A request that no other one overlaps never loses its commands, and its  *)
(* response is about them and nothing else, whatever earlier requests have *)
(* left in the dictionary, those that failed in the middle included.       *)
AloneIsExact ==
  \A t \in Threads \ overlapped :
     /\ req[t].reply # "missing"
     /\ At(t, "serialise") =>
          /\ Closed(record)
          /\ Holds(record, Asked(t))
          /\ \A c \in Asked(t) : record.commands[c].result.by = t

(* Whatever requests overlapped: if none of them failed, the dictionary    *)
(* that they leave behind, which GET /commanddetached may still write to a *)
(* file, is closed, and every result in it is that of its command.         *)
QuietIsConsistent ==
  Keys # {} /\ ~failed /\ (\A t \in Threads : At(t, "idle")) =>
     Closed(record) /\ Holds(record, Keys)

(* A request is never stuck, also when it has lost its commands to another *)
(* or cannot launch one.                                                   *)
NeverStuck == \A t \in Threads : ~At(t, "idle") => ENABLED Handle(t)

(* How many steps are left at most: of the request, and of each of its     *)
(* tasks. Ahead(r) has an element for each of them.                        *)
StepsLeft ==
  [begin |-> 8, open |-> 7, reset |-> 6, tasks |-> 5, close |-> 4, closed |-> 3,
   serialise |-> 2, reply |-> 1, idle |-> 0]

TaskStepsLeft ==
  [new |-> 5, opened |-> 4, running |-> 3, launched |-> 2, half |-> 1, done |-> 0,
   missing |-> 0, unlaunched |-> 0]

Ahead(r) ==
  {<<0, k>> : k \in 1..StepsLeft[r.pc]}
    \cup UNION {{<<i, k>> : k \in 1..TaskStepsLeft[r.task[i]]} : i \in DOMAIN r.task}

(* With each step it comes closer to its answer, whatever other requests do*)
(* to the dictionary: a command whose entry is gone is not begun anew, so  *)
(* that two requests cannot keep each other at it for ever (run_commands,  *)
(* which lets the KeyError end the request).                               *)
ComesCloser ==
  [][\A t \in Threads :
       ~At(t, "idle") /\ req'[t] # req[t] =>
         Ahead(req'[t]) \subseteq Ahead(req[t]) /\ Ahead(req'[t]) # Ahead(req[t])]_vars

---------------------------------------------------------------------------
(* The tests read the result of a command at its key of the response       *)
(* (tests/rest/flask_rest_test.py, test_executecommand_p): what is there   *)
(* when the response is made is the result of that command.                *)
ResultsAreOfTheirCommands ==
  \A t \in Threads :
     At(t, "serialise") =>
        \A c \in Keys :
           record.commands[c].result # NoResult => record.commands[c].result.cmd = c

=============================================================================
