-------------------------- MODULE CommandExecProofs --------------------------
(* Proofs about CommandExec, for any number of commands, request threads   *)
(* and requests.                                                           *)
EXTENDS CommandExec, TLAPS

Requests ==
  [kind : Kinds \cup {"none"}, cmds : Lists \cup {<<>>}, pc : Pcs,
   task : UNION {[1..n -> Tasks] : n \in 0..MaxCmds}, reply : Replies]

Running == {"reset", "tasks", "close", "closed", "serialise"}

(* What a request is while its handler is at work on the dictionary.       *)
RequestIsSound(t) ==
  LET r == req[t] IN
  /\ DOMAIN r.task = DOMAIN r.cmds
  /\ r.pc \in {"begin", "open"} \cup Running => r.kind \in Kinds /\ r.reply = "none"
  /\ r.pc = "idle" => r.reply = "none"
  /\ r.pc \in {"begin", "open", "reset"} => \A i \in DOMAIN r.task : r.task[i] = "new"
  /\ r.pc \in {"close", "closed", "serialise"} => \A i \in DOMAIN r.task : r.task[i] = "done"

(* The commands of a sequential request are begun in their order, each when*)
(* all before it are done.                                                 *)
InTurn(r) ==
  r.kind = "sequential" =>
    \A i \in DOMAIN r.task :
       r.task[i] # "new" => \A j \in 1..(i - 1) : r.task[j] = "done"

---------------------------------------------------------------------------
(* A request that is alone: nobody else has any business with the record.  *)

Complete(t, c) ==
  /\ record.commands[c].st = "finished"
  /\ record.commands[c].result = [by |-> t, cmd |-> c]

(* The keys of a request that is alone are its commands; one that has been *)
(* opened is on its own, and is complete when no task for it is left.      *)
TasksAreSound(t) ==
  LET r == req[t] IN
  /\ Keys = Asked(t)
  /\ \A i \in DOMAIN r.task :
       /\ r.task[i] # "missing"
       /\ r.task[i] # "new" => r.cmds[i] \notin record.shared
       /\ r.kind = "sequential" /\ r.task[i] # "new" => \A j \in 1..(i - 1) : r.task[j] = "done"
       /\ r.task[i] = "half" =>
            IF r.kind = "sequential" THEN record.commands[r.cmds[i]].st = "finished"
            ELSE record.commands[r.cmds[i]].result = [by |-> t, cmd |-> r.cmds[i]]
  /\ \A c \in Asked(t) :
       (\A i \in DOMAIN r.task : r.cmds[i] = c => r.task[i] = "done") => Complete(t, c)

AloneIsSound(t) ==
  t \notin overlapped /\ ~At(t, "idle") =>
    /\ \A u \in Threads \ {t} : At(u, "idle")
    /\ req[t].reply # "missing"
    /\ req[t].pc \in {"tasks", "close", "closed", "serialise"} => TasksAreSound(t)
    /\ At(t, "closed") => IF req[t].kind = "sequential" THEN record.started = "False"
                                                       ELSE record.finished = "true"
    /\ At(t, "serialise") => Closed(record)

---------------------------------------------------------------------------
(* Requests that overlap: whatever is amiss with the record, somebody owes *)
(* what will mend it.                                                      *)

OwesStarted(t) ==
  \/ req[t].pc \in {"open", "reset", "tasks", "close"}
  \/ At(t, "closed") /\ req[t].kind = "parallel"

OwesFinished(t) ==
  \/ req[t].pc \in {"reset", "tasks", "close"}
  \/ At(t, "closed") /\ req[t].kind = "sequential"

(* Task i of t is for c, and is yet to give it an object of its own, a     *)
(* status or a result.                                                     *)
TaskFor(t, i, c) == At(t, "tasks") /\ i \in DOMAIN req[t].task /\ req[t].cmds[i] = c

OwesEntry(t, i, c) == TaskFor(t, i, c) /\ req[t].task[i] = "new"

OwesStatus(t, i, c) ==
  /\ TaskFor(t, i, c)
  /\ \/ req[t].task[i] \in {"opened", "running", "launched", "unlaunched"}
     \/ req[t].task[i] = "half" /\ req[t].kind = "parallel"

OwesResult(t, i, c) ==
  /\ TaskFor(t, i, c)
  /\ \/ req[t].task[i] \in {"opened", "running", "launched", "unlaunched"}
     \/ req[t].task[i] = "half" /\ req[t].kind = "sequential"

KeyIsOwed(c) ==
  IF c \in record.shared THEN \E t \in Threads : \E i \in DOMAIN req[t].task : OwesEntry(t, i, c)
  ELSE /\ record.commands[c].st # "finished" =>
            \E t \in Threads : \E i \in DOMAIN req[t].task : OwesStatus(t, i, c)
       /\ IF record.commands[c].result = NoResult
          THEN \E t \in Threads : \E i \in DOMAIN req[t].task : OwesResult(t, i, c)
          ELSE record.commands[c].result.cmd = c

RecordIsOwed ==
  /\ record.shared \subseteq Keys
  /\ record.started \notin {"False", "false"} => \E t \in Threads : OwesStarted(t)
  /\ Keys # {} /\ record.finished \notin {"True", "true"} => \E t \in Threads : OwesFinished(t)
  /\ \A c \in Keys : KeyIsOwed(c)

ExecInv ==
  /\ TypeOK
  /\ \A t \in Threads : RequestIsSound(t) /\ AloneIsSound(t)
  /\ ~failed => RecordIsOwed

---------------------------------------------------------------------------
(* The records that the steps of a request make.                           *)

LEMMA AskingIsRequest ==
  ASSUME NEW kind \in Kinds \cup {"none"}, NEW cmds \in Lists \cup {<<>>}, NEW pc \in Pcs,
         NEW reply \in Replies
  PROVE  LET r == Asking(kind, cmds, pc, reply)
         IN  /\ r \in Requests
             /\ r.kind = kind /\ r.cmds = cmds /\ r.pc = pc /\ r.reply = reply
             /\ DOMAIN r.task = DOMAIN cmds
             /\ \A i \in DOMAIN cmds : r.task[i] = "new"
<1>1. PICK n \in 0..MaxCmds : DOMAIN cmds = 1..n
  <2>1. CASE cmds \in Lists
    BY <2>1, BoundsAssumption DEF Lists
  <2>2. CASE cmds = <<>>
    <3>1. DOMAIN cmds = 1..0
      BY <2>2
    <3> QED BY <3>1, BoundsAssumption
  <2> QED BY <2>1, <2>2
<1> DEFINE task == [i \in DOMAIN cmds |-> "new"]
<1>2. task \in [1..n -> Tasks]
  BY <1>1 DEF Tasks
<1>3. task \in UNION {[1..m -> Tasks] : m \in 0..MaxCmds}
  BY <1>2
<1>4. DOMAIN task = DOMAIN cmds /\ \A i \in DOMAIN cmds : task[i] = "new"
  OBVIOUS
<1>5. Asking(kind, cmds, pc, reply) =
        [kind |-> kind, cmds |-> cmds, pc |-> pc, task |-> task, reply |-> reply]
  BY DEF Asking
<1> HIDE DEF task
<1> QED BY <1>3, <1>4, <1>5 DEF Requests

LEMMA PcReplaced ==
  ASSUME NEW q \in Requests, NEW pc \in Pcs
  PROVE  LET r == [q EXCEPT !.pc = pc]
         IN  /\ r \in Requests /\ r.pc = pc
             /\ r.kind = q.kind /\ r.cmds = q.cmds /\ r.task = q.task /\ r.reply = q.reply
BY DEF Requests

LEMMA TaskReplaced ==
  ASSUME NEW q \in Requests, NEW i \in DOMAIN q.task, NEW to \in Tasks
  PROVE  LET r == [q EXCEPT !.task[i] = to]
         IN  /\ r \in Requests /\ r.pc = q.pc
             /\ r.kind = q.kind /\ r.cmds = q.cmds /\ r.reply = q.reply
             /\ DOMAIN r.task = DOMAIN q.task /\ r.task[i] = to
             /\ \A j \in DOMAIN q.task \ {i} : r.task[j] = q.task[j]
<1> DEFINE task == [q.task EXCEPT ![i] = to]
<1>1. PICK n \in 0..MaxCmds : q.task \in [1..n -> Tasks]
  BY DEF Requests
<1>2. /\ task \in [1..n -> Tasks] /\ DOMAIN task = DOMAIN q.task /\ task[i] = to
      /\ \A j \in DOMAIN q.task \ {i} : task[j] = q.task[j]
  BY <1>1
<1>3. task \in UNION {[1..m -> Tasks] : m \in 0..MaxCmds}
  BY <1>2
<1>4. [q EXCEPT !.task[i] = to] = [q EXCEPT !.task = task]
  BY DEF Requests
<1>5. LET r == [q EXCEPT !.task = task]
      IN  /\ r \in Requests /\ r.pc = q.pc /\ r.task = task
          /\ r.kind = q.kind /\ r.cmds = q.cmds /\ r.reply = q.reply
  <2> HIDE DEF task
  <2> QED BY <1>3 DEF Requests
<1> QED BY <1>2, <1>4, <1>5

LEMMA RequestReplaced ==
  ASSUME req \in [Threads -> Requests], NEW t \in Threads, NEW r \in Requests,
         req' = [req EXCEPT ![t] = r]
  PROVE  /\ req' \in [Threads -> Requests] /\ req'[t] = r
         /\ \A u \in Threads \ {t} : req'[u] = req[u]
BY DEF Requests

---------------------------------------------------------------------------
(* What the steps do to the dictionary, field by field.                    *)

LEMMA FlagsChanged ==
  ASSUME IsRecord(record), NEW flag \in Flags
  PROVE  /\ LET r == [record EXCEPT !.started = flag]
            IN  /\ IsRecord(r) /\ r.started = flag
                /\ r.finished = record.finished /\ r.commands = record.commands
                /\ r.shared = record.shared
         /\ LET r == [record EXCEPT !.finished = flag]
            IN  /\ IsRecord(r) /\ r.finished = flag
                /\ r.started = record.started /\ r.commands = record.commands
                /\ r.shared = record.shared
BY DEF IsRecord

LEMMA ScheduledIsEntry == Scheduled \in Entry
BY DEF Scheduled, Entry

LEMMA CommandsReset ==
  ASSUME IsRecord(record), NEW cmds \in SUBSET Cmds
  PROVE  LET r == [record EXCEPT !.commands = [c \in cmds |-> Scheduled], !.shared = cmds]
         IN  /\ IsRecord(r) /\ r.started = record.started /\ r.finished = record.finished
             /\ DOMAIN r.commands = cmds /\ r.shared = cmds
             /\ \A c \in cmds : r.commands[c] = Scheduled
<1> DEFINE commands == [c \in cmds |-> Scheduled]
<1>1. /\ commands \in [cmds -> Entry] /\ DOMAIN commands = cmds
      /\ \A c \in cmds : commands[c] = Scheduled
  BY ScheduledIsEntry
<1> HIDE DEF commands
<1>2. LET r == [record EXCEPT !.commands = commands, !.shared = cmds]
      IN  /\ DOMAIN r = {"started", "finished", "commands", "shared"}
          /\ r.started = record.started /\ r.finished = record.finished
          /\ r.commands = commands /\ r.shared = cmds
  BY DEF IsRecord
<1> QED BY <1>1, <1>2 DEF IsRecord, commands

LEMMA EntryAssigned ==
  ASSUME IsRecord(record), NEW c \in Cmds, NEW entry \in Entry
  PROVE  LET r == Assigned(c, entry)
         IN  /\ IsRecord(r) /\ r.started = record.started /\ r.finished = record.finished
             /\ DOMAIN r.commands = Keys \cup {c} /\ r.shared = record.shared \ {c}
             /\ r.commands[c] = entry
             /\ \A d \in Keys \ {c} : r.commands[d] = record.commands[d]
<1> DEFINE commands == [d \in Keys \cup {c} |-> IF d = c THEN entry ELSE record.commands[d]]
           shared == record.shared \ {c}
<1>1. /\ commands \in [Keys \cup {c} -> Entry] /\ DOMAIN commands = Keys \cup {c}
      /\ commands[c] = entry
      /\ \A d \in Keys \ {c} : commands[d] = record.commands[d]
  BY DEF IsRecord, Keys
<1>2. shared \subseteq Cmds /\ Keys \subseteq Cmds
  BY DEF IsRecord, Keys
<1>3. Assigned(c, entry) = [record EXCEPT !.shared = shared, !.commands = commands]
  BY DEF Assigned, IsRecord
<1> HIDE DEF commands, shared
<1>4. LET r == [record EXCEPT !.shared = shared, !.commands = commands]
      IN  /\ DOMAIN r = {"started", "finished", "commands", "shared"}
          /\ r.started = record.started /\ r.finished = record.finished
          /\ r.commands = commands /\ r.shared = shared
  BY DEF IsRecord
<1> QED BY <1>1, <1>2, <1>3, <1>4 DEF IsRecord, shared

(* A change is seen at every key that shares its object with c.            *)
LEMMA EntryChanged ==
  ASSUME IsRecord(record), NEW c \in Keys, NEW entry \in Entry
  PROVE  LET r == Changed(c, entry)
         IN  /\ IsRecord(r) /\ r.started = record.started /\ r.finished = record.finished
             /\ DOMAIN r.commands = Keys /\ r.shared = record.shared
             /\ r.commands[c] = entry
             /\ \A d \in Keys \ {c} :
                  ~ {c, d} \subseteq record.shared => r.commands[d] = record.commands[d]
<1> DEFINE commands == [d \in Keys |-> IF d = c \/ {c, d} \subseteq record.shared
                                       THEN entry ELSE record.commands[d]]
<1>1. /\ commands \in [Keys -> Entry] /\ DOMAIN commands = Keys
      /\ commands[c] = entry
      /\ \A d \in Keys \ {c} :
           ~ {c, d} \subseteq record.shared => commands[d] = record.commands[d]
  BY DEF IsRecord, Keys
<1>2. record.shared \subseteq Cmds /\ Keys \subseteq Cmds
  BY DEF IsRecord, Keys
<1>3. Changed(c, entry) = [record EXCEPT !.commands = commands]
  BY DEF Changed
<1> HIDE DEF commands
<1>4. LET r == [record EXCEPT !.commands = commands]
      IN  /\ DOMAIN r = {"started", "finished", "commands", "shared"}
          /\ r.started = record.started /\ r.finished = record.finished
          /\ r.commands = commands /\ r.shared = record.shared
  BY DEF IsRecord
<1> QED BY <1>1, <1>2, <1>3, <1>4 DEF IsRecord

---------------------------------------------------------------------------
(* Facts about the invariant.                                              *)

LEMMA TypeFacts ==
  ASSUME TypeOK
  PROVE  /\ req \in [Threads -> Requests] /\ IsRecord(record)
         /\ \A t \in Threads : \A i \in DOMAIN req[t].cmds : req[t].cmds[i] \in Cmds
         /\ \A t \in Threads : Asked(t) \in SUBSET Cmds
<1>1. req \in [Threads -> Requests] /\ IsRecord(record)
  BY DEF TypeOK, Requests
<1>2. ASSUME NEW t \in Threads, NEW i \in DOMAIN req[t].cmds
      PROVE  req[t].cmds[i] \in Cmds
  <2>1. req[t].cmds \in Lists \cup {<<>>}
    BY <1>1 DEF Requests
  <2>2. CASE req[t].cmds \in Lists
    BY <2>2 DEF Lists
  <2>3. CASE req[t].cmds = <<>>
    BY <2>3
  <2> QED BY <2>1, <2>2, <2>3
<1> QED BY <1>1, <1>2 DEF Asked

LEMMA TypesKept ==
  ASSUME req' \in [Threads -> Requests], IsRecord(record)', received' \in 0..MaxRequests,
         overlapped' \subseteq Threads, failed' \in BOOLEAN
  PROVE  TypeOK'
BY DEF TypeOK, Requests

(* While a request is at work, no other one is alone.                      *)
LEMMA OthersStaySound ==
  ASSUME ExecInv, NEW t \in Threads, ~At(t, "idle"), overlapped' = overlapped,
         \A u \in Threads \ {t} : req'[u] = req[u]
  PROVE  \A u \in Threads \ {t} : RequestIsSound(u)' /\ AloneIsSound(u)'
BY DEF ExecInv, RequestIsSound, AloneIsSound, At

(* A key whose entry does not change is owed the same, as long as nobody   *)
(* forgets what they owe it.                                               *)
LEMMA KeyStaysOwed ==
  ASSUME NEW c, KeyIsOwed(c),
         record'.commands[c] = record.commands[c],
         c \in record'.shared <=> c \in record.shared,
         NEW t \in Threads, \A u \in Threads \ {t} : req'[u] = req[u],
         \A i \in DOMAIN req[t].task :
           /\ OwesEntry(t, i, c) => OwesEntry(t, i, c)'
           /\ OwesStatus(t, i, c) => OwesStatus(t, i, c)'
           /\ OwesResult(t, i, c) => OwesResult(t, i, c)'
  PROVE  KeyIsOwed(c)'
<1> USE DEF KeyIsOwed
<1>1. \A u \in Threads : \A i \in DOMAIN req[u].task :
        /\ OwesEntry(u, i, c) => i \in DOMAIN req'[u].task /\ OwesEntry(u, i, c)'
        /\ OwesStatus(u, i, c) => i \in DOMAIN req'[u].task /\ OwesStatus(u, i, c)'
        /\ OwesResult(u, i, c) => i \in DOMAIN req'[u].task /\ OwesResult(u, i, c)'
  BY DEF OwesEntry, OwesStatus, OwesResult, TaskFor, At
<1>2. CASE c \in record.shared
  <2>1. PICK u \in Threads : \E i \in DOMAIN req[u].task : OwesEntry(u, i, c)
    BY <1>2
  <2> QED BY <1>1, <1>2, <2>1
<1>3. CASE c \notin record.shared
  <2>1. ASSUME record.commands[c].st # "finished"
        PROVE  \E u \in Threads : \E i \in DOMAIN req'[u].task : OwesStatus(u, i, c)'
    BY <1>1, <1>3, <2>1
  <2>2. ASSUME record.commands[c].result = NoResult
        PROVE  \E u \in Threads : \E i \in DOMAIN req'[u].task : OwesResult(u, i, c)'
    BY <1>1, <1>3, <2>2
  <2> QED BY <1>3, <2>1, <2>2
<1> QED BY <1>2, <1>3

---------------------------------------------------------------------------
(* Arrivals.                                                               *)
LEMMA AcceptPreserves ==
  ASSUME ExecInv, NEW t \in Threads, Accept(t)
  PROVE  ExecInv'
<1>1. req \in [Threads -> Requests] /\ IsRecord(record)
  BY TypeFacts DEF ExecInv
<1>2. PICK r \in Requests :
        /\ Receive(t, r)
        /\ r.pc \in {"begin", "reset", "reply"} /\ DOMAIN r.task = DOMAIN r.cmds
        /\ r.pc # "reply" => r.kind \in Kinds /\ r.reply = "none"
        /\ r.reply # "missing"
        /\ \A i \in DOMAIN r.task : r.task[i] = "new"
  <2>1. CASE ReceiveSequential(t)
    <3>1. PICK cmds \in Lists : Receive(t, Asking("sequential", cmds, "begin", "none"))
      BY <2>1 DEF ReceiveSequential
    <3>2. "sequential" \in Kinds /\ "begin" \in Pcs /\ "none" \in Replies
      BY DEF Kinds, Pcs, Replies
    <3> QED BY <3>1, <3>2, AskingIsRequest
  <2>2. CASE ReceiveParallel(t)
    <3>1. PICK cmds \in Lists : Receive(t, Asking("parallel", cmds, "reset", "none"))
      BY <2>2 DEF ReceiveParallel
    <3>2. "parallel" \in Kinds /\ "reset" \in Pcs /\ "none" \in Replies
      BY DEF Kinds, Pcs, Replies
    <3> QED BY <3>1, <3>2, AskingIsRequest
  <2>3. CASE ReceiveRejected(t)
    <3>1. Receive(t, Asking("none", <<>>, "reply", "rejected"))
      BY <2>3 DEF ReceiveRejected
    <3>2. "reply" \in Pcs /\ "rejected" \in Replies
      BY DEF Pcs, Replies
    <3> QED BY <3>1, <3>2, AskingIsRequest
  <2> QED BY <2>1, <2>2, <2>3 DEF Accept
<1> DEFINE others == {u \in Threads \ {t} : ~At(u, "idle")}
<1>3. /\ At(t, "idle") /\ received < MaxRequests /\ received' = received + 1
      /\ req' = [req EXCEPT ![t] = r]
      /\ overlapped' = IF others = {} THEN overlapped \ {t}
                       ELSE overlapped \cup others \cup {t}
      /\ UNCHANGED <<record, failed>>
  BY <1>2 DEF Receive
<1>4. /\ req' \in [Threads -> Requests] /\ req'[t] = r
      /\ \A u \in Threads \ {t} : req'[u] = req[u]
  BY <1>1, <1>3, RequestReplaced
<1>5. TypeOK'
  BY <1>1, <1>3, <1>4, TypesKept, BoundsAssumption DEF ExecInv, TypeOK, IsRecord
<1>6. RequestIsSound(t)' /\ AloneIsSound(t)'
  BY <1>2, <1>3, <1>4 DEF RequestIsSound, AloneIsSound, At, Running
<1>7. \A u \in Threads \ {t} : RequestIsSound(u)' /\ AloneIsSound(u)'
  BY <1>3, <1>4 DEF ExecInv, RequestIsSound, AloneIsSound, At
<1>8. ~failed' => RecordIsOwed'
  <2> SUFFICES ASSUME ~failed
               PROVE  RecordIsOwed'
    BY <1>3
  <2>1. RecordIsOwed
    BY DEF ExecInv
  <2>2. \A c \in Keys : KeyIsOwed(c)'
    BY <1>3, <1>4, <2>1, KeyStaysOwed
       DEF RecordIsOwed, OwesEntry, OwesStatus, OwesResult, TaskFor, At
  <2> QED BY <1>3, <1>4, <2>1, <2>2 DEF RecordIsOwed, OwesStarted, OwesFinished, At, Keys
<1> QED BY <1>5, <1>6, <1>7, <1>8 DEF ExecInv

---------------------------------------------------------------------------
(* Steps that change the flags of the dictionary at most.                  *)
FlagStep(t, from, to) ==
  /\ At(t, from)
  /\ Goto(t, to)
  /\ record'.commands = record.commands /\ record'.shared = record.shared
  /\ UNCHANGED <<received, overlapped, failed>>

LEMMA FlagStepSound ==
  ASSUME ExecInv, NEW t \in Threads, NEW from \in Pcs \ {"idle"}, NEW to \in Pcs,
         FlagStep(t, from, to),
         from = "tasks" => \A i \in DOMAIN req[t].task : req[t].task[i] = "done"
  PROVE  /\ req' \in [Threads -> Requests]
         /\ req'[t].pc = to /\ req'[t].kind = req[t].kind /\ req'[t].task = req[t].task
         /\ req'[t].cmds = req[t].cmds /\ req'[t].reply = req[t].reply
         /\ \A u \in Threads \ {t} : req'[u] = req[u]
         /\ \A u \in Threads \ {t} : RequestIsSound(u)' /\ AloneIsSound(u)'
         /\ Keys' = Keys
         /\ TasksAreSound(t) => TasksAreSound(t)'
         /\ to # "tasks" => \A c \in Keys : KeyIsOwed(c) => KeyIsOwed(c)'
<1> DEFINE r == [req[t] EXCEPT !.pc = to]
<1>1. req \in [Threads -> Requests]
  BY TypeFacts DEF ExecInv
<1>2. /\ r \in Requests /\ r.pc = to
      /\ r.kind = req[t].kind /\ r.cmds = req[t].cmds /\ r.task = req[t].task
      /\ r.reply = req[t].reply
  BY <1>1, PcReplaced
<1>3. req' = [req EXCEPT ![t] = r]
  BY DEF FlagStep, Goto
<1> HIDE DEF r
<1>4. /\ req' \in [Threads -> Requests] /\ req'[t] = r
      /\ \A u \in Threads \ {t} : req'[u] = req[u]
  BY <1>1, <1>2, <1>3, RequestReplaced
<1>5. \A u \in Threads \ {t} : RequestIsSound(u)' /\ AloneIsSound(u)'
  BY <1>4, OthersStaySound DEF FlagStep, At
<1>6. Keys' = Keys /\ Asked(t)' = Asked(t)
  BY <1>2, <1>4 DEF FlagStep, Keys, Asked
<1>7. TasksAreSound(t) => TasksAreSound(t)'
  BY <1>2, <1>4, <1>6 DEF TasksAreSound, Complete, FlagStep
<1>8. ASSUME NEW c \in Keys, KeyIsOwed(c)
      PROVE  KeyIsOwed(c)'
  <2>1. \A i \in DOMAIN req[t].task :
          ~OwesEntry(t, i, c) /\ ~OwesStatus(t, i, c) /\ ~OwesResult(t, i, c)
    BY DEF FlagStep, OwesEntry, OwesStatus, OwesResult, TaskFor, At
  <2> QED BY <1>4, <1>8, <2>1, KeyStaysOwed DEF FlagStep
<1> QED BY <1>2, <1>4, <1>5, <1>6, <1>7, <1>8

LEMMA FlagStepsPreserve ==
  ASSUME ExecInv, NEW t \in Threads,
         SetStarted(t) \/ ClearFinished(t) \/ AllDone(t) \/ WriteFirstFlag(t) \/ WriteSecondFlag(t)
  PROVE  ExecInv'
<1>1. IsRecord(record) /\ RequestIsSound(t) /\ AloneIsSound(t)
  BY TypeFacts DEF ExecInv
<1>2. PICK from \in {"begin", "open", "tasks", "close", "closed"},
           to \in {"open", "reset", "close", "closed", "serialise"} :
        /\ FlagStep(t, from, to)
        /\ IsRecord(record)'
        /\ \/ /\ from = "begin" /\ to = "open"
              /\ record'.started = "True" /\ record'.finished = record.finished
           \/ /\ from = "open" /\ to = "reset"
              /\ record'.started = record.started /\ record'.finished = "False"
           \/ /\ from = "tasks" /\ to = "close"
              /\ record'.started = record.started /\ record'.finished = record.finished
              /\ \A i \in DOMAIN req[t].task : req[t].task[i] = "done"
           \/ /\ from = "close" /\ to = "closed"
              /\ IF req[t].kind = "sequential"
                 THEN record'.started = "False" /\ record'.finished = record.finished
                 ELSE record'.started = record.started /\ record'.finished = "true"
           \/ /\ from = "closed" /\ to = "serialise"
              /\ IF req[t].kind = "sequential"
                 THEN record'.started = record.started /\ record'.finished = "True"
                 ELSE record'.started = "false" /\ record'.finished = record.finished
  <2> USE DEF FlagStep
  <2>1. {"True", "False", "true", "false"} \subseteq Flags
    BY DEF Flags
  <2>2. CASE SetStarted(t)
    BY <1>1, <2>1, <2>2, FlagsChanged DEF SetStarted
  <2>3. CASE ClearFinished(t)
    BY <1>1, <2>1, <2>3, FlagsChanged DEF ClearFinished
  <2>4. CASE AllDone(t)
    BY <1>1, <2>4 DEF AllDone
  <2>5. CASE WriteFirstFlag(t)
    BY <1>1, <2>1, <2>5, FlagsChanged DEF WriteFirstFlag
  <2>6. CASE WriteSecondFlag(t)
    BY <1>1, <2>1, <2>6, FlagsChanged DEF WriteSecondFlag
  <2> QED BY <2>2, <2>3, <2>4, <2>5, <2>6
<1>3. /\ req' \in [Threads -> Requests]
      /\ req'[t].pc = to /\ req'[t].kind = req[t].kind /\ req'[t].task = req[t].task
      /\ req'[t].cmds = req[t].cmds /\ req'[t].reply = req[t].reply
      /\ \A u \in Threads \ {t} : req'[u] = req[u]
      /\ \A u \in Threads \ {t} : RequestIsSound(u)' /\ AloneIsSound(u)'
      /\ Keys' = Keys
      /\ TasksAreSound(t) => TasksAreSound(t)'
      /\ \A c \in Keys : KeyIsOwed(c) => KeyIsOwed(c)'
  <2>1. from \in Pcs \ {"idle"} /\ to \in Pcs /\ to # "tasks"
    BY DEF Pcs
  <2>2. from = "tasks" => \A i \in DOMAIN req[t].task : req[t].task[i] = "done"
    BY <1>2
  <2> QED BY <1>2, <2>1, <2>2, FlagStepSound
<1>4. req[t].pc = from /\ UNCHANGED <<received, overlapped, failed>>
      /\ record'.commands = record.commands /\ record'.shared = record.shared
  BY <1>2 DEF FlagStep, At
<1>5. TypeOK'
  BY <1>2, <1>3, <1>4, TypesKept DEF ExecInv, TypeOK
<1>6. RequestIsSound(t)'
  BY <1>1, <1>2, <1>3, <1>4 DEF RequestIsSound, Running
<1>7. AloneIsSound(t)'
  BY <1>1, <1>2, <1>3, <1>4 DEF AloneIsSound, At, Closed, RequestIsSound, Running, Kinds
<1>8. ~failed' => RecordIsOwed'
  <2> SUFFICES ASSUME ~failed
               PROVE  RecordIsOwed'
    BY <1>4
  <2>1. RecordIsOwed
    BY DEF ExecInv
  <2>2. record'.started \notin {"False", "false"} => \E u \in Threads : OwesStarted(u)'
    BY <1>1, <1>2, <1>3, <1>4, <2>1
    DEF RecordIsOwed, OwesStarted, At, RequestIsSound, Running, Kinds
  <2>3. Keys # {} /\ record'.finished \notin {"True", "true"} =>
          \E u \in Threads : OwesFinished(u)'
    BY <1>1, <1>2, <1>3, <1>4, <2>1
    DEF RecordIsOwed, OwesFinished, At, RequestIsSound, Running, Kinds
  <2> QED BY <1>3, <1>4, <2>1, <2>2, <2>3 DEF RecordIsOwed
<1> QED BY <1>3, <1>5, <1>6, <1>7, <1>8 DEF ExecInv

(* The dictionary is replaced: from now on it is about the commands of t.  *)
LEMMA ResetPreserves ==
  ASSUME ExecInv, NEW t \in Threads, ResetCommands(t)
  PROVE  ExecInv'
<1> DEFINE r == [req[t] EXCEPT !.pc = "tasks"]
<1>1. /\ req \in [Threads -> Requests] /\ IsRecord(record) /\ Asked(t) \in SUBSET Cmds
      /\ RequestIsSound(t) /\ AloneIsSound(t) /\ req[t].pc = "reset"
      /\ UNCHANGED <<received, overlapped, failed>>
  BY TypeFacts DEF ExecInv, ResetCommands, At
<1>2. /\ r \in Requests /\ r.pc = "tasks"
      /\ r.kind = req[t].kind /\ r.cmds = req[t].cmds /\ r.task = req[t].task
      /\ r.reply = req[t].reply
  BY <1>1, PcReplaced DEF Pcs
<1>3. req' = [req EXCEPT ![t] = r]
  BY DEF ResetCommands, Goto
<1> HIDE DEF r
<1>4. /\ req' \in [Threads -> Requests] /\ req'[t] = r
      /\ \A u \in Threads \ {t} : req'[u] = req[u]
  BY <1>1, <1>2, <1>3, RequestReplaced
<1>5. /\ IsRecord(record)'
      /\ record'.started = record.started /\ record'.finished = record.finished
      /\ Keys' = Asked(t) /\ record'.shared = Asked(t)
  BY <1>1, CommandsReset DEF ResetCommands, Keys
<1>6. \A u \in Threads \ {t} : RequestIsSound(u)' /\ AloneIsSound(u)'
  BY <1>1, <1>4, OthersStaySound DEF At
<1>7. TypeOK'
  BY <1>1, <1>4, <1>5, TypesKept DEF ExecInv, TypeOK
<1>8. RequestIsSound(t)'
  BY <1>1, <1>2, <1>4 DEF RequestIsSound, Running
<1>9. \A c \in Asked(t) : \E i \in DOMAIN req[t].task : req[t].cmds[i] = c /\ req[t].task[i] = "new"
  BY <1>1 DEF Asked, RequestIsSound
<1>10. AloneIsSound(t)'
  <2>1. Asked(t)' = Asked(t)
    BY <1>2, <1>4 DEF Asked
  <2>2. \A i \in DOMAIN req[t].task : req[t].task[i] = "new"
    BY <1>1 DEF RequestIsSound
  <2>3. TasksAreSound(t)'
    BY <1>2, <1>4, <1>5, <1>9, <2>1, <2>2 DEF TasksAreSound
  <2> QED BY <1>1, <1>2, <1>4, <2>3 DEF AloneIsSound, At
<1>11. ~failed' => RecordIsOwed'
  <2> SUFFICES ASSUME ~failed
               PROVE  RecordIsOwed'
    BY <1>1
  <2>1. OwesStarted(t)' /\ OwesFinished(t)'
    BY <1>2, <1>4 DEF OwesStarted, OwesFinished
  <2>2. ASSUME NEW c \in Asked(t)
        PROVE  KeyIsOwed(c)'
    BY <1>2, <1>4, <1>5, <1>9 DEF KeyIsOwed, OwesEntry, TaskFor, At
  <2> QED BY <1>5, <2>1, <2>2 DEF RecordIsOwed
<1> QED BY <1>4, <1>6, <1>7, <1>8, <1>10, <1>11 DEF ExecInv

---------------------------------------------------------------------------
(* One step of a task.                                                     *)

(* The tasks of a request are numbered from 1.                             *)
LEMMA TasksAreCounted ==
  ASSUME req \in [Threads -> Requests], NEW t \in Threads
  PROVE  \A i \in DOMAIN req[t].task : i \in Nat \ {0} /\ 1..(i - 1) \subseteq DOMAIN req[t].task
<1>1. PICK n \in 0..MaxCmds : req[t].task \in [1..n -> Tasks]
  BY DEF Requests
<1>2. n \in Nat /\ DOMAIN req[t].task = 1..n
  BY <1>1, BoundsAssumption
<1> QED BY <1>2

LEMMA StepsFacts ==
  ASSUME ExecInv, NEW t \in Threads, NEW i \in DOMAIN req[t].cmds, NEW from, NEW to \in Tasks,
         Steps(t, i, from, to)
  PROVE  /\ req[t].pc = "tasks" /\ req[t].task[i] = from /\ MayRun(t, i)
         /\ i \in DOMAIN req[t].task /\ req[t].cmds[i] \in Asked(t)
         /\ req' \in [Threads -> Requests]
         /\ req'[t].pc = "tasks" /\ req'[t].kind = req[t].kind /\ req'[t].cmds = req[t].cmds
         /\ req'[t].reply = req[t].reply
         /\ DOMAIN req'[t].task = DOMAIN req[t].task /\ req'[t].task[i] = to
         /\ \A j \in DOMAIN req[t].task \ {i} : req'[t].task[j] = req[t].task[j]
         /\ \A u \in Threads \ {t} : req'[u] = req[u]
         /\ \A u \in Threads \ {t} : RequestIsSound(u)' /\ AloneIsSound(u)'
         /\ RequestIsSound(t)'
         /\ Asked(t)' = Asked(t)
         /\ UNCHANGED <<received, overlapped, failed>>
<1> DEFINE r == [req[t] EXCEPT !.task[i] = to]
<1>1. /\ req \in [Threads -> Requests]
      /\ req[t].pc = "tasks" /\ req[t].task[i] = from /\ MayRun(t, i)
      /\ UNCHANGED <<received, overlapped, failed>>
      /\ RequestIsSound(t)
  BY TypeFacts DEF ExecInv, Steps, At
<1>2. i \in DOMAIN req[t].task /\ DOMAIN req[t].task = DOMAIN req[t].cmds
  BY <1>1 DEF RequestIsSound
<1>3. /\ r \in Requests /\ r.pc = "tasks"
      /\ r.kind = req[t].kind /\ r.cmds = req[t].cmds /\ r.reply = req[t].reply
      /\ DOMAIN r.task = DOMAIN req[t].task /\ r.task[i] = to
      /\ \A j \in DOMAIN req[t].task \ {i} : r.task[j] = req[t].task[j]
  BY <1>1, <1>2, TaskReplaced
<1>4. req' = [req EXCEPT ![t] = r]
  BY DEF Steps
<1> HIDE DEF r
<1>5. /\ req' \in [Threads -> Requests] /\ req'[t] = r
      /\ \A u \in Threads \ {t} : req'[u] = req[u]
  BY <1>1, <1>3, <1>4, RequestReplaced
<1>6. \A u \in Threads \ {t} : RequestIsSound(u)' /\ AloneIsSound(u)'
  BY <1>1, <1>5, OthersStaySound DEF At
<1>7. RequestIsSound(t)'
  BY <1>1, <1>2, <1>3, <1>5 DEF RequestIsSound, Running
<1>8. Asked(t)' = Asked(t)
  BY <1>3, <1>5 DEF Asked
<1> QED BY <1>1, <1>2, <1>3, <1>5, <1>6, <1>7, <1>8 DEF Asked

(* The tasks of a sequential request go on one at a time.                  *)
LEMMA StepKeepsTurns ==
  ASSUME ExecInv, NEW t \in Threads, NEW i \in DOMAIN req[t].cmds,
         NEW from \in Tasks \ {"done"}, NEW to \in Tasks, Steps(t, i, from, to),
         InTurn(req[t])
  PROVE  InTurn(req'[t])
<1>1. /\ req[t].task[i] = from /\ MayRun(t, i) /\ i \in DOMAIN req[t].task
      /\ req'[t].task[i] = to /\ req'[t].kind = req[t].kind
      /\ DOMAIN req'[t].task = DOMAIN req[t].task
      /\ \A j \in DOMAIN req[t].task \ {i} : req'[t].task[j] = req[t].task[j]
  BY StepsFacts
<1>2. \A j \in DOMAIN req[t].task : j \in Nat \ {0} /\ 1..(j - 1) \subseteq DOMAIN req[t].task
  BY TypeFacts, TasksAreCounted DEF ExecInv
<1>3. CASE req[t].kind = "sequential"
  <2>1. \A j \in 1..(i - 1) : req[t].task[j] = "done" /\ req'[t].task[j] = "done"
    BY <1>1, <1>2, <1>3 DEF MayRun
  <2>2. ASSUME NEW j \in DOMAIN req[t].task, j # i, req[t].task[j] # "new"
        PROVE  j \in 1..(i - 1)
    <3>1. \A k \in 1..(j - 1) : req[t].task[k] = "done"
      BY <1>3, <2>2 DEF InTurn
    <3> QED BY <1>1, <1>2, <2>2, <3>1
  <2>3. ASSUME NEW j \in DOMAIN req[t].task, req'[t].task[j] # "new", NEW k \in 1..(j - 1)
        PROVE  req'[t].task[k] = "done"
    <3>1. CASE j = i
      BY <2>1, <3>1
    <3>2. CASE j # i
      <4>1. j \in 1..(i - 1)
        BY <1>1, <2>2, <2>3, <3>2
      <4>2. k \in 1..(i - 1)
        BY <1>1, <1>2, <4>1
      <4> QED BY <2>1, <4>2
    <3> QED BY <3>1, <3>2
  <2> QED BY <1>1, <2>3 DEF InTurn
<1> QED BY <1>1, <1>3 DEF InTurn

(* When t is alone, its other tasks are not in the middle of their ends,   *)
(* and those of a sequential request that are under way are the next ones. *)
LEMMA TasksTakeTurns ==
  ASSUME ExecInv, NEW t \in Threads, NEW i \in DOMAIN req[t].cmds,
         NEW from \in Tasks \ {"done"}, NEW to \in Tasks, Steps(t, i, from, to),
         TasksAreSound(t)
  PROVE  /\ \A j \in DOMAIN req[t].task \ {i} : req[t].task[j] # "half"
         /\ req[t].kind = "sequential" =>
              \A j \in DOMAIN req[t].task :
                req'[t].task[j] # "new" => \A k \in 1..(j - 1) : req'[t].task[k] = "done"
<1>1. /\ req[t].task[i] = from /\ MayRun(t, i) /\ i \in DOMAIN req[t].task
      /\ req'[t].kind = req[t].kind /\ DOMAIN req'[t].task = DOMAIN req[t].task
  BY StepsFacts
<1>2. \A j \in DOMAIN req[t].task : j \in Nat \ {0} /\ 1..(j - 1) \subseteq DOMAIN req[t].task
  BY TypeFacts, TasksAreCounted DEF ExecInv
<1>3. InTurn(req[t])
  BY DEF TasksAreSound, InTurn
<1>4. InTurn(req'[t])
  BY <1>3, StepKeepsTurns
<1>5. ASSUME NEW j \in DOMAIN req[t].task, j # i
      PROVE  req[t].task[j] # "half"
  <2>1. CASE req[t].kind = "sequential"
    <3>1. \A k \in 1..(i - 1) : req[t].task[k] = "done"
      BY <2>1, <1>1 DEF MayRun
    <3>2. req[t].task[j] # "new" => \A k \in 1..(j - 1) : req[t].task[k] = "done"
      BY <2>1, <1>3 DEF InTurn
    <3> QED BY <1>1, <1>2, <1>5, <3>1, <3>2
  <2>2. CASE req[t].kind # "sequential"
    BY <1>1, <1>5, <2>2 DEF MayRun
  <2> QED BY <2>1, <2>2
<1> QED BY <1>1, <1>4, <1>5 DEF InTurn

(* The keys of other commands are owed what they were owed.                *)
LEMMA OtherKeysStayOwed ==
  ASSUME ExecInv, NEW t \in Threads, NEW i \in DOMAIN req[t].cmds, NEW from, NEW to \in Tasks,
         Steps(t, i, from, to),
         NEW c, c # req[t].cmds[i], KeyIsOwed(c),
         record'.commands[c] = record.commands[c] \/ c \in record.shared,
         c \in record'.shared <=> c \in record.shared
  PROVE  KeyIsOwed(c)'
<1>1. \A j \in DOMAIN req[t].task :
        /\ OwesEntry(t, j, c) => OwesEntry(t, j, c)'
        /\ OwesStatus(t, j, c) => OwesStatus(t, j, c)'
        /\ OwesResult(t, j, c) => OwesResult(t, j, c)'
  BY StepsFacts DEF OwesEntry, OwesStatus, OwesResult, TaskFor, At
<1>2. \A u \in Threads \ {t} : req'[u] = req[u]
  BY StepsFacts
<1>3. CASE c \in record.shared
  <2>1. PICK u \in Threads : \E j \in DOMAIN req[u].task : OwesEntry(u, j, c)
    BY <1>3 DEF KeyIsOwed
  <2>2. \E j \in DOMAIN req'[u].task : OwesEntry(u, j, c)'
    BY <1>1, <1>2, <2>1 DEF OwesEntry, TaskFor, At
  <2> QED BY <1>3, <2>2 DEF KeyIsOwed
<1>4. CASE c \notin record.shared
  BY <1>1, <1>2, <1>4, KeyStaysOwed
<1> QED BY <1>3, <1>4

LEMMA OpenEntryPreserves ==
  ASSUME ExecInv, NEW t \in Threads, NEW i \in DOMAIN req[t].cmds, OpenEntry(t, i)
  PROVE  ExecInv'
<1> DEFINE c == req[t].cmds[i]
           entry == FreshEntry(req[t].kind)
<1>1. Steps(t, i, "new", "opened") /\ "opened" \in Tasks
  BY DEF OpenEntry, Tasks
<1>2. /\ req[t].pc = "tasks" /\ req[t].task[i] = "new" /\ MayRun(t, i)
      /\ i \in DOMAIN req[t].task /\ c \in Asked(t)
      /\ req' \in [Threads -> Requests]
      /\ req'[t].pc = "tasks" /\ req'[t].kind = req[t].kind /\ req'[t].cmds = req[t].cmds
      /\ req'[t].reply = req[t].reply
      /\ DOMAIN req'[t].task = DOMAIN req[t].task /\ req'[t].task[i] = "opened"
      /\ \A j \in DOMAIN req[t].task \ {i} : req'[t].task[j] = req[t].task[j]
      /\ \A u \in Threads \ {t} : req'[u] = req[u]
      /\ \A u \in Threads \ {t} : RequestIsSound(u)' /\ AloneIsSound(u)'
      /\ RequestIsSound(t)' /\ Asked(t)' = Asked(t)
      /\ UNCHANGED <<received, overlapped, failed>>
  BY <1>1, StepsFacts
<1>3. /\ req \in [Threads -> Requests] /\ IsRecord(record) /\ c \in Cmds
      /\ RequestIsSound(t) /\ AloneIsSound(t)
  BY TypeFacts DEF ExecInv
<1>4. entry \in Entry /\ entry.result = NoResult
  BY DEF FreshEntry, Entry
<1>5. /\ IsRecord(record)'
      /\ record'.started = record.started /\ record'.finished = record.finished
      /\ Keys' = Keys \cup {c} /\ record'.shared = record.shared \ {c}
      /\ record'.commands[c] = entry
      /\ \A d \in Keys \ {c} : record'.commands[d] = record.commands[d]
  BY <1>3, <1>4, EntryAssigned DEF OpenEntry, Keys
<1> HIDE DEF c, entry
<1>6. TypeOK'
  BY <1>2, <1>5, TypesKept DEF ExecInv, TypeOK
<1>7. AloneIsSound(t)'
  <2> SUFFICES ASSUME t \notin overlapped
               PROVE  AloneIsSound(t)'
    BY <1>2 DEF AloneIsSound
  <2>1. TasksAreSound(t) /\ \A u \in Threads \ {t} : At(u, "idle")
    BY <1>2, <1>3 DEF AloneIsSound, At
  <2>2. Keys' = Asked(t)'
    BY <1>2, <1>5, <2>1 DEF TasksAreSound
  <2>3. /\ \A j \in DOMAIN req[t].task \ {i} : req[t].task[j] # "half"
        /\ req[t].kind = "sequential" =>
             \A j \in DOMAIN req[t].task :
               req'[t].task[j] # "new" => \A k \in 1..(j - 1) : req'[t].task[k] = "done"
    BY <1>1, <2>1, TasksTakeTurns DEF Tasks
  <2>4. ASSUME NEW j \in DOMAIN req[t].task
        PROVE  /\ req'[t].task[j] # "missing"
               /\ req'[t].task[j] # "new" => req'[t].cmds[j] \notin record'.shared
               /\ req'[t].kind = "sequential" /\ req'[t].task[j] # "new" =>
                    \A k \in 1..(j - 1) : req'[t].task[k] = "done"
               /\ req'[t].task[j] # "half"
    <3>1. CASE j = i
      BY <1>2, <1>5, <2>3, <3>1 DEF c
    <3>2. CASE j # i
      <4>1. req[t].task[j] # "new" => req[t].cmds[j] \notin record.shared
        BY <2>1 DEF TasksAreSound
      <4>2. req[t].task[j] # "missing" /\ req[t].task[j] # "half"
        BY <2>1, <2>3, <3>2 DEF TasksAreSound
      <4> QED BY <1>2, <1>5, <2>3, <3>2, <4>1, <4>2
    <3> QED BY <3>1, <3>2
  <2>5. ASSUME NEW d \in Asked(t),
               \A j \in DOMAIN req[t].task : req[t].cmds[j] = d => req'[t].task[j] = "done"
        PROVE  Complete(t, d)'
    <3>1. d # c /\ d \in Keys
      BY <1>2, <2>1, <2>5 DEF c, TasksAreSound
    <3>2. \A j \in DOMAIN req[t].task : req[t].cmds[j] = d => req[t].task[j] = "done"
      BY <1>2, <2>5, <3>1 DEF c
    <3> QED BY <1>5, <2>1, <3>1, <3>2 DEF TasksAreSound, Complete
  <2>6. TasksAreSound(t)'
    BY <1>2, <2>2, <2>4, <2>5 DEF TasksAreSound
  <2> QED BY <1>2, <1>3, <2>1, <2>6 DEF AloneIsSound, At
<1>8. ~failed' => RecordIsOwed'
  <2> SUFFICES ASSUME ~failed
               PROVE  RecordIsOwed'
    BY <1>2
  <2>1. RecordIsOwed
    BY DEF ExecInv
  <2>2. OwesStarted(t)' /\ OwesFinished(t)'
    BY <1>2 DEF OwesStarted, OwesFinished
  <2>3. ASSUME NEW d \in Keys'
        PROVE  KeyIsOwed(d)'
    <3>1. CASE d = c
      <4>1. OwesStatus(t, i, d)' /\ OwesResult(t, i, d)'
        BY <1>2, <3>1 DEF OwesStatus, OwesResult, TaskFor, At, c
      <4> QED BY <1>2, <1>4, <1>5, <3>1, <4>1 DEF KeyIsOwed
    <3>2. CASE d # c
      BY <1>1, <1>5, <2>1, <3>2, OtherKeysStayOwed DEF RecordIsOwed, c
    <3> QED BY <3>1, <3>2
  <2> QED BY <1>5, <2>1, <2>2, <2>3 DEF RecordIsOwed
<1> QED BY <1>2, <1>6, <1>7, <1>8 DEF ExecInv

(* Mends is what one of the five ways to edit an entry does for those who  *)
(* wait for it: what task i of t owed and owes no more is there.           *)
Mends(t, from, to, st, result, own) ==
  \/ from = "opened" /\ to = "running" /\ st = "progress" /\ result = NoResult
  \/ /\ req[t].kind = "sequential"
     /\ \/ from = "launched" /\ to = "half" /\ st = "finished" /\ result = NoResult
        \/ from = "half" /\ to = "done" /\ st = "same" /\ result = own
  \/ /\ req[t].kind # "sequential"
     /\ \/ from = "launched" /\ to = "half" /\ st = "same" /\ result = own
        \/ from = "half" /\ to = "done" /\ st = "finished" /\ result = NoResult

LEMMA EditIsSound ==
  ASSUME ExecInv, NEW t \in Threads, NEW i \in DOMAIN req[t].cmds,
         NEW from, NEW to, NEW st, NEW result, NEW c \in Keys, c = req[t].cmds[i],
         Mends(t, from, to, st, result, [by |-> t, cmd |-> c]),
         Edit(t, i, from, to, st, result)
  PROVE  ExecInv'
<1> DEFINE own == [by |-> t, cmd |-> c]
           old == record.commands[c]
           entry == [st |-> IF st = "same" THEN old.st ELSE st,
                     result |-> IF result = NoResult THEN old.result ELSE result]
<1>1. /\ Steps(t, i, from, to)
      /\ from \in Tasks \ {"new", "done"} /\ to \in Tasks \ {"new", "missing"}
      /\ record' = Changed(c, entry)
  BY DEF Edit, Mends, Tasks
<1>2. /\ req[t].pc = "tasks" /\ req[t].task[i] = from
      /\ i \in DOMAIN req[t].task /\ c \in Asked(t)
      /\ req' \in [Threads -> Requests]
      /\ req'[t].pc = "tasks" /\ req'[t].kind = req[t].kind /\ req'[t].cmds = req[t].cmds
      /\ req'[t].reply = req[t].reply
      /\ DOMAIN req'[t].task = DOMAIN req[t].task /\ req'[t].task[i] = to
      /\ \A j \in DOMAIN req[t].task \ {i} : req'[t].task[j] = req[t].task[j]
      /\ \A u \in Threads \ {t} : req'[u] = req[u]
      /\ \A u \in Threads \ {t} : RequestIsSound(u)' /\ AloneIsSound(u)'
      /\ RequestIsSound(t)' /\ Asked(t)' = Asked(t)
      /\ UNCHANGED <<received, overlapped, failed>>
  BY <1>1, StepsFacts
<1>3. /\ req \in [Threads -> Requests] /\ IsRecord(record) /\ c \in Cmds
      /\ RequestIsSound(t) /\ AloneIsSound(t) /\ req[t].kind \in Kinds
  BY <1>2, TypeFacts DEF ExecInv, RequestIsSound, Running
<1>4. own \in Result /\ own # NoResult /\ own.cmd = c
  BY <1>3, ResultAssumption DEF Result
<1>5. /\ entry \in Entry
      /\ entry.st = IF st = "same" THEN old.st ELSE st
      /\ entry.result = IF result = NoResult THEN old.result ELSE result
  <2>1. old \in Entry
    BY <1>3 DEF IsRecord, Keys
  <2> HIDE DEF own, old
  <2> QED BY <1>4, <2>1 DEF Entry, Mends, own
<1> HIDE DEF entry
<1>6. /\ IsRecord(record)'
      /\ record'.started = record.started /\ record'.finished = record.finished
      /\ Keys' = Keys /\ record'.shared = record.shared
      /\ record'.commands[c] = entry
      /\ \A d \in Keys \ {c} :
           ~ {c, d} \subseteq record.shared => record'.commands[d] = record.commands[d]
  BY <1>1, <1>3, <1>5, EntryChanged DEF Keys
<1>7. Mends(t, from, to, st, result, own)
  OBVIOUS
<1> HIDE DEF own, old
<1>8. TypeOK'
  BY <1>2, <1>6, TypesKept DEF ExecInv, TypeOK
<1>9. AloneIsSound(t)'
  <2> SUFFICES ASSUME t \notin overlapped
               PROVE  AloneIsSound(t)'
    BY <1>2 DEF AloneIsSound
  <2>1. TasksAreSound(t) /\ \A u \in Threads \ {t} : At(u, "idle")
    BY <1>2, <1>3 DEF AloneIsSound, At
  <2>2. Keys' = Asked(t)' /\ c \notin record.shared
    BY <1>1, <1>2, <1>6, <2>1 DEF TasksAreSound
  <2>3. /\ \A j \in DOMAIN req[t].task \ {i} : req[t].task[j] # "half"
        /\ req[t].kind = "sequential" =>
             \A j \in DOMAIN req[t].task :
               req'[t].task[j] # "new" => \A k \in 1..(j - 1) : req'[t].task[k] = "done"
    BY <1>1, <2>1, TasksTakeTurns
  <2>4. ASSUME NEW j \in DOMAIN req[t].task
        PROVE  /\ req'[t].task[j] # "missing"
               /\ req'[t].task[j] # "new" => req'[t].cmds[j] \notin record'.shared
               /\ req'[t].task[j] = "half" => j = i
    <3>1. CASE j = i
      BY <1>1, <1>2, <1>6, <2>2, <3>1
    <3>2. CASE j # i
      BY <1>2, <1>6, <2>1, <2>3, <3>2 DEF TasksAreSound
    <3> QED BY <3>1, <3>2
  <2>5. from = "half" => IF req[t].kind = "sequential" THEN old.st = "finished"
                                                       ELSE old.result = own
    BY <1>2, <2>1 DEF TasksAreSound, old, own
  <2>6. to = "half" => IF req[t].kind = "sequential" THEN entry.st = "finished"
                                                     ELSE entry.result = own
    BY <1>4, <1>5, <1>7 DEF Mends
  <2>7. to = "done" => entry.st = "finished" /\ entry.result = own
    BY <1>4, <1>5, <1>7, <2>5 DEF Mends
  <2>8. ASSUME NEW d \in Asked(t),
               \A j \in DOMAIN req[t].task : req[t].cmds[j] = d => req'[t].task[j] = "done"
        PROVE  Complete(t, d)'
    <3>1. CASE d = c
      BY <1>2, <1>6, <2>7, <2>8, <3>1 DEF Complete, own
    <3>2. CASE d # c
      <4>1. d \in Keys /\ record'.commands[d] = record.commands[d]
        BY <1>6, <2>1, <2>2, <3>2 DEF TasksAreSound
      <4>2. \A j \in DOMAIN req[t].task : req[t].cmds[j] = d => req[t].task[j] = "done"
        BY <1>2, <2>8, <3>2
      <4> QED BY <2>1, <4>1, <4>2 DEF TasksAreSound, Complete
    <3> QED BY <3>1, <3>2
  <2>9. req'[t].task[i] = "half" =>
          IF req'[t].kind = "sequential" THEN record'.commands[req'[t].cmds[i]].st = "finished"
          ELSE record'.commands[req'[t].cmds[i]].result = [by |-> t, cmd |-> req'[t].cmds[i]]
    BY <1>2, <1>6, <2>6 DEF own
  <2>10. TasksAreSound(t)'
    BY <1>2, <2>2, <2>3, <2>4, <2>8, <2>9 DEF TasksAreSound
  <2> QED BY <1>2, <1>3, <2>1, <2>10 DEF AloneIsSound, At
<1>10. ASSUME ~failed
       PROVE  RecordIsOwed'
  <2>1. RecordIsOwed
    BY <1>10 DEF ExecInv
  <2>2. OwesStarted(t)' /\ OwesFinished(t)'
    BY <1>2 DEF OwesStarted, OwesFinished
  <2>3. \A u \in Threads : \A j \in DOMAIN req[u].task :
          /\ j \in DOMAIN req'[u].task
          /\ OwesEntry(u, j, c) => OwesEntry(u, j, c)'
          /\ OwesStatus(u, j, c) /\ entry.st # "finished" => OwesStatus(u, j, c)'
          /\ OwesResult(u, j, c) /\ entry.result = NoResult => OwesResult(u, j, c)'
    <3>1. ASSUME NEW u \in Threads, NEW j \in DOMAIN req[u].task, u # t \/ j # i
          PROVE  /\ j \in DOMAIN req'[u].task
                 /\ OwesEntry(u, j, c) => OwesEntry(u, j, c)'
                 /\ OwesStatus(u, j, c) => OwesStatus(u, j, c)'
                 /\ OwesResult(u, j, c) => OwesResult(u, j, c)'
      <4>1. CASE u = t
        BY <1>2, <3>1, <4>1 DEF OwesEntry, OwesStatus, OwesResult, TaskFor, At
      <4>2. CASE u # t
        BY <1>2, <4>2 DEF OwesEntry, OwesStatus, OwesResult, TaskFor, At
      <4> QED BY <4>1, <4>2
    <3>2. /\ ~OwesEntry(t, i, c)
          /\ OwesStatus(t, i, c) /\ entry.st # "finished" => OwesStatus(t, i, c)'
          /\ OwesResult(t, i, c) /\ entry.result = NoResult => OwesResult(t, i, c)'
      BY <1>1, <1>2, <1>3, <1>4, <1>5, <1>7
      DEF Mends, OwesEntry, OwesStatus, OwesResult, TaskFor, At, Kinds
    <3> QED BY <1>2, <3>1, <3>2
  <2>4. KeyIsOwed(c)'
    <3>1. KeyIsOwed(c)
      BY <2>1 DEF RecordIsOwed
    <3>2. ASSUME c \in record.shared
          PROVE  \E u \in Threads : \E j \in DOMAIN req'[u].task : OwesEntry(u, j, c)'
      BY <2>3, <3>1, <3>2 DEF KeyIsOwed
    <3>3. ASSUME c \notin record.shared, entry.st # "finished"
          PROVE  \E u \in Threads : \E j \in DOMAIN req'[u].task : OwesStatus(u, j, c)'
      <4>1. CASE old.st # "finished"
        BY <2>3, <3>1, <3>3, <4>1 DEF KeyIsOwed, old
      <4>2. CASE old.st = "finished"
        <5>1. from = "opened" /\ to = "running"
          BY <1>5, <1>7, <3>3, <4>2 DEF Mends
        <5>2. OwesStatus(t, i, c)'
          BY <1>2, <5>1 DEF OwesStatus, TaskFor, At
        <5> QED BY <1>2, <5>2
      <4> QED BY <4>1, <4>2
    <3>4. ASSUME c \notin record.shared, entry.result = NoResult
          PROVE  \E u \in Threads : \E j \in DOMAIN req'[u].task : OwesResult(u, j, c)'
      <4>1. old.result = NoResult
        BY <1>4, <1>5, <1>7, <3>4 DEF Mends
      <4> QED BY <2>3, <3>1, <3>4, <4>1 DEF KeyIsOwed, old
    <3>5. ASSUME c \notin record.shared, entry.result # NoResult
          PROVE  entry.result.cmd = c
      BY <1>4, <1>5, <1>7, <3>1, <3>5 DEF Mends, KeyIsOwed, old
    <3> QED BY <1>6, <3>2, <3>3, <3>4, <3>5 DEF KeyIsOwed
  <2>5. ASSUME NEW d \in Keys, d # c
        PROVE  KeyIsOwed(d)'
    BY <1>1, <1>6, <2>1, <2>5, OtherKeysStayOwed DEF RecordIsOwed
  <2> QED BY <1>6, <2>1, <2>2, <2>4, <2>5 DEF RecordIsOwed
<1> QED BY <1>2, <1>8, <1>9, <1>10 DEF ExecInv

(* A step that changes no entry: its process is launched, or cannot be, or *)
(* the entry of the command is gone.                                       *)
LEMMA BareStepIsSound ==
  ASSUME ExecInv, NEW t \in Threads, NEW i \in DOMAIN req[t].cmds, NEW c, c = req[t].cmds[i],
         NEW from \in Tasks \ {"new", "done"}, NEW to \in {"launched", "unlaunched", "missing"},
         Steps(t, i, from, to), UNCHANGED record,
         IF to = "missing" THEN c \notin Keys ELSE from = "running"
  PROVE  ExecInv'
<1>1. /\ req[t].pc = "tasks" /\ req[t].task[i] = from
      /\ i \in DOMAIN req[t].task /\ c \in Asked(t)
      /\ req' \in [Threads -> Requests]
      /\ req'[t].pc = "tasks" /\ req'[t].kind = req[t].kind /\ req'[t].cmds = req[t].cmds
      /\ req'[t].reply = req[t].reply
      /\ DOMAIN req'[t].task = DOMAIN req[t].task /\ req'[t].task[i] = to
      /\ \A j \in DOMAIN req[t].task \ {i} : req'[t].task[j] = req[t].task[j]
      /\ \A u \in Threads \ {t} : req'[u] = req[u]
      /\ \A u \in Threads \ {t} : RequestIsSound(u)' /\ AloneIsSound(u)'
      /\ RequestIsSound(t)' /\ Asked(t)' = Asked(t)
      /\ UNCHANGED <<received, overlapped, failed>>
  <2>1. to \in Tasks
    BY DEF Tasks
  <2> QED BY <2>1, StepsFacts
<1>2. IsRecord(record) /\ AloneIsSound(t) /\ Keys' = Keys
  BY TypeFacts DEF ExecInv, Keys
<1>3. TypeOK'
  BY <1>1, <1>2, TypesKept DEF ExecInv, TypeOK
<1>4. AloneIsSound(t)'
  <2> SUFFICES ASSUME t \notin overlapped
               PROVE  AloneIsSound(t)'
    BY <1>1 DEF AloneIsSound
  <2>1. TasksAreSound(t) /\ \A u \in Threads \ {t} : At(u, "idle")
    BY <1>1, <1>2 DEF AloneIsSound, At
  <2>2. Keys' = Asked(t)' /\ c \in Keys /\ c \notin record.shared
    BY <1>1, <1>2, <2>1 DEF TasksAreSound
  <2>3. /\ \A j \in DOMAIN req[t].task \ {i} : req[t].task[j] # "half"
        /\ req[t].kind = "sequential" =>
             \A j \in DOMAIN req[t].task :
               req'[t].task[j] # "new" => \A k \in 1..(j - 1) : req'[t].task[k] = "done"
    BY <2>1, TasksTakeTurns DEF Tasks
  <2>4. ASSUME NEW j \in DOMAIN req[t].task
        PROVE  /\ req'[t].task[j] # "missing" /\ req'[t].task[j] # "half"
               /\ req'[t].task[j] # "new" => req'[t].cmds[j] \notin record'.shared
    <3>1. CASE j = i
      BY <1>1, <2>2, <3>1
    <3>2. CASE j # i
      <4>1. req[t].task[j] # "new" => req[t].cmds[j] \notin record.shared
        BY <2>1 DEF TasksAreSound
      <4>2. req[t].task[j] # "missing" /\ req[t].task[j] # "half"
        BY <2>1, <2>3, <3>2 DEF TasksAreSound
      <4> QED BY <1>1, <3>2, <4>1, <4>2
    <3> QED BY <3>1, <3>2
  <2>5. ASSUME NEW d \in Asked(t),
               \A j \in DOMAIN req[t].task : req[t].cmds[j] = d => req'[t].task[j] = "done"
        PROVE  Complete(t, d)'
    <3>1. d # c
      BY <1>1, <2>5
    <3>2. \A j \in DOMAIN req[t].task : req[t].cmds[j] = d => req[t].task[j] = "done"
      BY <1>1, <2>5, <3>1
    <3> QED BY <2>1, <3>2 DEF TasksAreSound, Complete
  <2>6. TasksAreSound(t)'
    BY <1>1, <2>2, <2>3, <2>4, <2>5 DEF TasksAreSound
  <2> QED BY <1>1, <1>2, <2>1, <2>6 DEF AloneIsSound, At
<1>5. ASSUME ~failed
      PROVE  RecordIsOwed'
  <2>1. RecordIsOwed
    BY <1>5 DEF ExecInv
  <2>2. OwesStarted(t)' /\ OwesFinished(t)'
    BY <1>1 DEF OwesStarted, OwesFinished
  <2>3. ASSUME NEW d \in Keys
        PROVE  KeyIsOwed(d)'
    <3>1. CASE d = c
      <4>1. from = "running" /\ to \in {"launched", "unlaunched"}
        BY <3>1
      <4>2. \A j \in DOMAIN req[t].task :
              /\ OwesEntry(t, j, d) => OwesEntry(t, j, d)'
              /\ OwesStatus(t, j, d) => OwesStatus(t, j, d)'
              /\ OwesResult(t, j, d) => OwesResult(t, j, d)'
        BY <1>1, <4>1 DEF OwesEntry, OwesStatus, OwesResult, TaskFor, At
      <4> QED BY <1>1, <2>1, <2>3, <4>2, KeyStaysOwed DEF RecordIsOwed
    <3>2. CASE d # c
      BY <2>1, <3>2, OtherKeysStayOwed DEF RecordIsOwed, Tasks
    <3> QED BY <3>1, <3>2
  <2> QED BY <1>2, <2>1, <2>2, <2>3 DEF RecordIsOwed
<1> QED BY <1>1, <1>3, <1>4, <1>5 DEF ExecInv

LEMMA EditPreserves ==
  ASSUME ExecInv, NEW t \in Threads, NEW i \in DOMAIN req[t].cmds,
         NEW from, NEW to, NEW st, NEW result,
         Mends(t, from, to, st, result, [by |-> t, cmd |-> req[t].cmds[i]]),
         Edit(t, i, from, to, st, result)
  PROVE  ExecInv'
<1>1. PICK c \in Cmds : c = req[t].cmds[i]
  BY TypeFacts DEF ExecInv
<1>2. CASE c \in Keys
  BY <1>1, <1>2, EditIsSound
<1>3. CASE c \notin Keys
  <2>1. Steps(t, i, from, "missing") /\ UNCHANGED record
    BY <1>1, <1>3 DEF Edit
  <2>2. from \in Tasks \ {"new", "done"}
    BY <1>1, <1>3 DEF Mends, Tasks
  <2> QED BY <1>1, <1>3, <2>1, <2>2, BareStepIsSound
<1> QED BY <1>2, <1>3

LEMMA RunCommandPreserves ==
  ASSUME ExecInv, NEW t \in Threads, RunCommand(t)
  PROVE  ExecInv'
<1>1. PICK i \in DOMAIN req[t].cmds :
        \/ OpenEntry(t, i) \/ MarkInProgress(t, i) \/ Launch(t, i) \/ LaunchFails(t, i)
        \/ MarkFinished(t, i) \/ PutResult(t, i)
  BY DEF RunCommand
<1>2. CASE OpenEntry(t, i)
  BY <1>2, OpenEntryPreserves
<1>3. CASE MarkInProgress(t, i)
  <2>1. Mends(t, "opened", "running", "progress", NoResult, [by |-> t, cmd |-> req[t].cmds[i]])
    BY DEF Mends
  <2> QED BY <1>3, <2>1, EditPreserves DEF MarkInProgress
<1>4. CASE Launch(t, i) \/ LaunchFails(t, i)
  <2>1. PICK to \in {"launched", "unlaunched"} : Steps(t, i, "running", to) /\ UNCHANGED record
    BY <1>4 DEF Launch, LaunchFails
  <2>2. PICK c \in Cmds : c = req[t].cmds[i]
    BY TypeFacts DEF ExecInv
  <2> QED BY <2>1, <2>2, BareStepIsSound DEF Tasks
<1>5. CASE MarkFinished(t, i)
  <2>1. CASE req[t].kind = "sequential"
    <3>1. Mends(t, "launched", "half", "finished", NoResult, [by |-> t, cmd |-> req[t].cmds[i]])
      BY <2>1 DEF Mends
    <3> QED BY <1>5, <2>1, <3>1, EditPreserves DEF MarkFinished
  <2>2. CASE req[t].kind # "sequential"
    <3>1. Mends(t, "half", "done", "finished", NoResult, [by |-> t, cmd |-> req[t].cmds[i]])
      BY <2>2 DEF Mends
    <3> QED BY <1>5, <2>2, <3>1, EditPreserves DEF MarkFinished
  <2> QED BY <2>1, <2>2
<1>6. CASE PutResult(t, i)
  <2> DEFINE own == [by |-> t, cmd |-> req[t].cmds[i]]
  <2>1. CASE req[t].kind = "sequential"
    <3>1. Mends(t, "half", "done", "same", own, own)
      BY <2>1 DEF Mends
    <3>2. Edit(t, i, "half", "done", "same", own)
      BY <1>6, <2>1 DEF PutResult
    <3> QED BY <3>1, <3>2, EditPreserves
  <2>2. CASE req[t].kind # "sequential"
    <3>1. Mends(t, "launched", "half", "same", own, own)
      BY <2>2 DEF Mends
    <3>2. Edit(t, i, "launched", "half", "same", own)
      BY <1>6, <2>2 DEF PutResult
    <3> QED BY <3>1, <3>2, EditPreserves
  <2> QED BY <2>1, <2>2
<1> QED BY <1>1, <1>2, <1>3, <1>4, <1>5, <1>6

(* A request keeps its commands, and their order, as long as it runs them. *)
LEMMA TasksKeepTurns ==
  ASSUME ExecInv, NEW t \in Threads, RunCommand(t)
  PROVE  /\ req'[t].kind = req[t].kind /\ req'[t].cmds = req[t].cmds
         /\ InTurn(req[t]) => InTurn(req'[t])
<1>1. ASSUME NEW i \in DOMAIN req[t].cmds, NEW from \in Tasks \ {"done"}, NEW to \in Tasks,
             Steps(t, i, from, to)
      PROVE  /\ req'[t].kind = req[t].kind /\ req'[t].cmds = req[t].cmds
             /\ InTurn(req[t]) => InTurn(req'[t])
  BY <1>1, StepsFacts, StepKeepsTurns
<1>2. PICK i \in DOMAIN req[t].cmds :
        \/ OpenEntry(t, i) \/ MarkInProgress(t, i) \/ Launch(t, i) \/ LaunchFails(t, i)
        \/ MarkFinished(t, i) \/ PutResult(t, i)
  BY DEF RunCommand
<1>3. \A from, to, st, result :
        Edit(t, i, from, to, st, result) => Steps(t, i, from, to) \/ Steps(t, i, from, "missing")
  BY DEF Edit
<1>4. \E from \in Tasks \ {"done"}, to \in Tasks : Steps(t, i, from, to)
  <2>1. CASE OpenEntry(t, i) \/ Launch(t, i) \/ LaunchFails(t, i)
    BY <2>1 DEF OpenEntry, Launch, LaunchFails, Tasks
  <2>2. CASE MarkInProgress(t, i) \/ MarkFinished(t, i) \/ PutResult(t, i)
    <3>1. \E from \in {"opened", "launched", "half"}, to \in {"running", "half", "done"} :
            \E st, result : Edit(t, i, from, to, st, result)
      BY <2>2, Zenon DEF MarkInProgress, MarkFinished, PutResult
    <3> QED BY <1>3, <3>1 DEF Tasks
  <2> QED BY <1>2, <2>1, <2>2
<1> QED BY <1>1, <1>4

LEMMA HandlingKeepsTurns ==
  ASSUME ExecInv, NEW t \in Threads, Handle(t)
  PROVE  /\ req[t].pc # "idle" /\ \A u \in Threads \ {t} : req'[u] = req[u]
         /\ \/ req'[t].pc \in {"idle", "reply"}
            \/ /\ req'[t].kind = req[t].kind /\ req'[t].cmds = req[t].cmds
               /\ req[t].pc # "reply"
         /\ InTurn(req[t]) => InTurn(req'[t])
<1>1. req \in [Threads -> Requests]
  BY TypeFacts DEF ExecInv
<1>2. CASE RunCommand(t)
  <2>1. PICK i, to : req' = [req EXCEPT ![t].task[i] = to] /\ At(t, "tasks")
    BY <1>2, Zenon DEF RunCommand, OpenEntry, MarkInProgress, Launch, LaunchFails, MarkFinished,
       PutResult, Edit, Steps
  <2> QED BY <1>1, <1>2, <2>1, TasksKeepTurns DEF At
<1>3. ASSUME NEW from \in Running \cup {"begin", "open"}, NEW to, At(t, from), Goto(t, to)
      PROVE  /\ req[t].pc \notin {"idle", "reply"} /\ \A u \in Threads \ {t} : req'[u] = req[u]
             /\ req'[t].kind = req[t].kind /\ req'[t].cmds = req[t].cmds
             /\ req'[t].task = req[t].task
  BY <1>1, <1>3 DEF At, Goto, Requests, Running
<1>4. CASE \/ SetStarted(t) \/ ClearFinished(t) \/ ResetCommands(t) \/ AllDone(t)
           \/ WriteFirstFlag(t) \/ WriteSecondFlag(t)
  <2>1. \E from \in Running \cup {"begin", "open"} : \E to : At(t, from) /\ Goto(t, to)
    BY <1>4 DEF SetStarted, ClearFinished, ResetCommands, AllDone, WriteFirstFlag,
       WriteSecondFlag, Running
  <2> QED BY <1>3, <2>1 DEF InTurn
<1>5. CASE Abort(t) \/ Serialise(t) \/ Respond(t)
  <2>1. PICK pc, reply : /\ pc \in {"idle", "reply"}
                        /\ req' = [req EXCEPT ![t] = Asking("none", <<>>, pc, reply)]
    BY <1>5 DEF Abort, Serialise, Respond, Answer, Idle
  <2>2. req'[t].pc = pc /\ req'[t].kind = "none" /\ \A u \in Threads \ {t} : req'[u] = req[u]
    BY <1>1, <2>1 DEF Asking
  <2>3. req[t].pc # "idle"
    BY <1>5 DEF Abort, Serialise, Respond, At
  <2> QED BY <2>1, <2>2, <2>3 DEF InTurn
<1> QED BY <1>2, <1>4, <1>5 DEF Handle

---------------------------------------------------------------------------
(* Answers.                                                                *)

(* A thread that is at work goes on with r, which holds no commands.       *)
Leaves(t, r) ==
  /\ req' = [req EXCEPT ![t] = r]
  /\ UNCHANGED <<record, received, overlapped>>
  /\ ~At(t, "idle")
  /\ failed' \in BOOLEAN

(* A request that owes nothing any more, or one that has failed, can leave *)
(* its thread.                                                             *)
LEMMA LeavingIsSound ==
  ASSUME ExecInv, NEW t \in Threads, NEW pc \in {"reply", "idle"}, NEW reply \in Replies,
         Leaves(t, Asking("none", <<>>, pc, reply)),
         pc = "idle" => reply = "none",
         t \notin overlapped => reply # "missing",
         failed' = TRUE \/ (UNCHANGED failed /\ req[t].pc \in {"serialise", "reply"})
  PROVE  ExecInv'
<1> DEFINE r == Asking("none", <<>>, pc, reply)
<1>1. /\ r \in Requests /\ r.pc = pc /\ r.reply = reply /\ r.kind = "none"
      /\ DOMAIN r.task = DOMAIN r.cmds /\ DOMAIN r.task = {}
  <2>1. pc \in Pcs
    BY DEF Pcs
  <2>2. DOMAIN <<>> = {}
    OBVIOUS
  <2> HIDE DEF r
  <2>3. r.cmds = <<>>
    BY <2>1, AskingIsRequest DEF r
  <2> QED BY <2>1, <2>2, <2>3, AskingIsRequest DEF r
<1>2. req' = [req EXCEPT ![t] = r]
  BY DEF Leaves
<1> HIDE DEF r
<1>3. req \in [Threads -> Requests] /\ IsRecord(record)
  BY TypeFacts DEF ExecInv
<1>4. /\ req' \in [Threads -> Requests] /\ req'[t] = r
      /\ \A u \in Threads \ {t} : req'[u] = req[u]
  BY <1>1, <1>2, <1>3, RequestReplaced
<1>5. \A u \in Threads \ {t} : RequestIsSound(u)' /\ AloneIsSound(u)'
  BY <1>4, OthersStaySound DEF Leaves
<1>6. TypeOK'
  BY <1>3, <1>4, TypesKept DEF ExecInv, TypeOK, Leaves
<1>7. RequestIsSound(t)'
  BY <1>1, <1>4 DEF RequestIsSound, Running
<1>8. AloneIsSound(t)'
  BY <1>1, <1>4 DEF AloneIsSound, At, Leaves, ExecInv
<1>9. ~failed' => RecordIsOwed'
  <2> SUFFICES ASSUME ~failed'
               PROVE  RecordIsOwed'
    OBVIOUS
  <2>1. RecordIsOwed /\ req[t].pc \in {"serialise", "reply"} /\ UNCHANGED record
    BY DEF ExecInv, Leaves
  <2>2. \A u \in Threads : /\ OwesStarted(u) => OwesStarted(u)'
                           /\ OwesFinished(u) => OwesFinished(u)'
    BY <1>4, <2>1 DEF OwesStarted, OwesFinished, At
  <2>3. \A c, i :
          ~OwesEntry(t, i, c) /\ ~OwesStatus(t, i, c) /\ ~OwesResult(t, i, c)
    BY <2>1 DEF OwesEntry, OwesStatus, OwesResult, TaskFor, At
  <2>4. ASSUME NEW c \in Keys
        PROVE  KeyIsOwed(c)'
    BY <1>4, <2>1, <2>3, KeyStaysOwed DEF RecordIsOwed
  <2> QED BY <2>1, <2>2, <2>4 DEF RecordIsOwed, Keys
<1> QED BY <1>4, <1>5, <1>6, <1>7, <1>8, <1>9 DEF ExecInv

LEMMA LeavePreserves ==
  ASSUME ExecInv, NEW t \in Threads, Abort(t) \/ Serialise(t) \/ Respond(t)
  PROVE  ExecInv'
<1>1. /\ failed \in BOOLEAN /\ AloneIsSound(t)
      /\ {"none", "ok", "missing", "unlaunched"} \subseteq Replies
  BY DEF ExecInv, TypeOK, Replies
<1>2. CASE Abort(t)
  <2>1. PICK reply \in {"missing", "unlaunched"} :
          (\E i \in DOMAIN req[t].task : req[t].task[i] = reply) /\ Answer(t, reply)
    BY <1>2 DEF Abort
  <2>2. t \notin overlapped => reply # "missing"
    BY <1>1, <1>2, <2>1 DEF Abort, At, AloneIsSound, TasksAreSound
  <2>3. Leaves(t, Asking("none", <<>>, "reply", reply)) /\ failed' = TRUE
    BY <1>2, <2>1 DEF Abort, Answer, Leaves, At
  <2>4. reply \in Replies
    BY <1>1
  <2> QED BY <2>2, <2>3, <2>4, LeavingIsSound
<1>3. CASE Serialise(t)
  <2>1. Leaves(t, Asking("none", <<>>, "reply", "ok"))
    BY <1>1, <1>3 DEF Serialise, Answer, Leaves, At
  <2> QED BY <1>1, <1>3, <2>1, LeavingIsSound DEF Serialise, At
<1>4. CASE Respond(t)
  <2>1. Leaves(t, Asking("none", <<>>, "idle", "none"))
    BY <1>1, <1>4 DEF Respond, Idle, Leaves, At
  <2> QED BY <1>1, <1>4, <2>1, LeavingIsSound DEF Respond, At
<1> QED BY <1>2, <1>3, <1>4

---------------------------------------------------------------------------
(* The invariant.                                                          *)

LEMMA ExecInit == Init => ExecInv
<1> SUFFICES ASSUME Init
             PROVE  ExecInv
  OBVIOUS
<1>1. /\ Idle \in Requests /\ Idle.pc = "idle" /\ Idle.reply = "none"
      /\ DOMAIN Idle.task = DOMAIN Idle.cmds
  BY AskingIsRequest DEF Idle, Pcs, Replies
<1>2. /\ req \in [Threads -> Requests] /\ \A t \in Threads : req[t] = Idle
      /\ Keys = {} /\ record.shared = {} /\ record.started = "False"
  BY <1>1 DEF Init, Keys
<1>3. IsRecord(record)
  <2> DEFINE none == [c \in {} |-> Scheduled]
  <2>1. none \in [DOMAIN none -> Entry] /\ DOMAIN none = {}
    OBVIOUS
  <2>2. record = [started |-> "False", finished |-> "False", commands |-> none, shared |-> {}]
    BY DEF Init
  <2> HIDE DEF none
  <2> QED BY <2>1, <2>2 DEF IsRecord, Flags
<1>4. TypeOK
  <2>1. received \in 0..MaxRequests /\ overlapped \subseteq Threads /\ failed \in BOOLEAN
    <3>1. received = 0 /\ overlapped = {} /\ failed = FALSE
      BY DEF Init
    <3>2. received \in 0..MaxRequests
      BY <3>1, BoundsAssumption
    <3>3. overlapped \subseteq Threads
      BY <3>1
    <3>4. failed \in BOOLEAN
      BY <3>1
    <3> QED BY <3>2, <3>3, <3>4
  <2> QED BY <1>2, <1>3, <2>1 DEF TypeOK, Requests
<1>5. \A t \in Threads : RequestIsSound(t) /\ AloneIsSound(t)
  BY <1>1, <1>2 DEF RequestIsSound, AloneIsSound, At, Running
<1>6. RecordIsOwed
  BY <1>2 DEF RecordIsOwed
<1> QED BY <1>4, <1>5, <1>6 DEF ExecInv

LEMMA ExecStutters ==
  ASSUME ExecInv, UNCHANGED vars
  PROVE  ExecInv'
<1>1. UNCHANGED <<record, req, received, overlapped, failed>>
  BY DEF vars
<1>2. TypeOK'
  BY <1>1 DEF ExecInv, TypeOK
<1>3. ASSUME NEW t \in Threads
      PROVE  RequestIsSound(t)' /\ AloneIsSound(t)'
  <2>1. RequestIsSound(t) /\ AloneIsSound(t)
    BY DEF ExecInv
  <2>2. TasksAreSound(t) => TasksAreSound(t)'
    BY <1>1 DEF TasksAreSound, Complete, Keys, Asked
  <2> QED BY <1>1, <2>1, <2>2 DEF RequestIsSound, AloneIsSound, At
<1>4. RecordIsOwed => RecordIsOwed'
  <2>1. \A t \in Threads : OwesStarted(t)' = OwesStarted(t) /\ OwesFinished(t)' = OwesFinished(t)
    BY <1>1 DEF OwesStarted, OwesFinished, At
  <2>2. \A c : KeyIsOwed(c) => KeyIsOwed(c)'
    BY <1>1 DEF KeyIsOwed, OwesEntry, OwesStatus, OwesResult, TaskFor, At
  <2> QED BY <1>1, <2>1, <2>2 DEF RecordIsOwed, Keys
<1> QED BY <1>1, <1>2, <1>3, <1>4 DEF ExecInv

LEMMA ExecPreserved == ExecInv /\ [Next]_vars => ExecInv'
<1> SUFFICES ASSUME ExecInv, [Next]_vars
             PROVE  ExecInv'
  OBVIOUS
<1>1. CASE UNCHANGED vars
  BY <1>1, ExecStutters
<1>2. ASSUME NEW t \in Threads, Accept(t)
      PROVE  ExecInv'
  BY <1>2, AcceptPreserves
<1>3. ASSUME NEW t \in Threads, Handle(t)
      PROVE  ExecInv'
  BY <1>3, FlagStepsPreserve, ResetPreserves, RunCommandPreserves, LeavePreserves DEF Handle
<1> QED BY <1>1, <1>2, <1>3 DEF Next

LEMMA TurnsAreKept ==
  ASSUME ExecInv, [Next]_vars, \A t \in Threads : InTurn(req[t])
  PROVE  \A t \in Threads : InTurn(req'[t])
<1>1. CASE UNCHANGED vars
  BY <1>1 DEF vars
<1>2. ASSUME NEW t \in Threads, Handle(t)
      PROVE  \A u \in Threads : InTurn(req'[u])
  BY <1>2, HandlingKeepsTurns
<1>3. ASSUME NEW t \in Threads, Accept(t)
      PROVE  \A u \in Threads : InTurn(req'[u])
  <2>1. PICK kind, cmds, pc, reply : req' = [req EXCEPT ![t] = Asking(kind, cmds, pc, reply)]
    BY <1>3 DEF Accept, ReceiveSequential, ReceiveParallel, ReceiveRejected, Receive
  <2>2. req \in [Threads -> Requests]
    BY TypeFacts DEF ExecInv
  <2>3. \A i \in DOMAIN req'[t].task : req'[t].task[i] = "new"
    BY <2>1, <2>2 DEF Asking
  <2> QED BY <2>1, <2>2, <2>3 DEF InTurn
<1> QED BY <1>1, <1>2, <1>3 DEF Next

(* Throughout, the dictionary, the requests and the counters have the      *)
(* types that TypeOK gives them (all of                                    *)
(* src/rest/api/command/command_in_*.py).                                  *)
THEOREM ExecTypes == Spec => []TypeOK
<1>1. ExecInv => TypeOK
  BY DEF ExecInv
<1> QED BY <1>1, ExecInit, ExecPreserved, PTL DEF Spec

LEMMA ExecInvImpliesAlone == ExecInv => AloneIsExact
<1> SUFFICES ASSUME ExecInv, NEW t \in Threads \ overlapped
             PROVE  /\ req[t].reply # "missing"
                    /\ At(t, "serialise") =>
                         /\ Closed(record)
                         /\ Holds(record, Asked(t))
                         /\ \A c \in Asked(t) : record.commands[c].result.by = t
  BY DEF AloneIsExact
<1>1. RequestIsSound(t) /\ AloneIsSound(t) /\ req[t] \in Requests
      /\ \A i \in DOMAIN req[t].cmds : req[t].cmds[i] \in Cmds
  BY TypeFacts DEF ExecInv
<1>2. req[t].reply # "missing"
  BY <1>1 DEF RequestIsSound, AloneIsSound, At
<1>3. ASSUME At(t, "serialise")
      PROVE  /\ Closed(record)
             /\ Holds(record, Asked(t))
             /\ \A c \in Asked(t) : record.commands[c].result.by = t
  <2>1. TasksAreSound(t) /\ Closed(record) /\ \A i \in DOMAIN req[t].task : req[t].task[i] = "done"
    BY <1>1, <1>3 DEF AloneIsSound, RequestIsSound, At
  <2>2. \A c \in Asked(t) : Complete(t, c) /\ c \in Cmds
    BY <1>1, <2>1 DEF TasksAreSound, Asked
  <2>3. \A c \in Cmds : LET own == [by |-> t, cmd |-> c]
                        IN  own # NoResult /\ own.by = t /\ own.cmd = c
    BY ResultAssumption
  <2>4. \A c \in Asked(t) :
          /\ record.commands[c].st = "finished"
          /\ record.commands[c].result # NoResult
          /\ record.commands[c].result.cmd = c
          /\ record.commands[c].result.by = t
    <3> SUFFICES ASSUME NEW c \in Asked(t)
                 PROVE  /\ record.commands[c].st = "finished"
                        /\ record.commands[c].result # NoResult
                        /\ record.commands[c].result.cmd = c
                        /\ record.commands[c].result.by = t
      OBVIOUS
    <3> DEFINE own == [by |-> t, cmd |-> c]
    <3>1. own # NoResult /\ own.by = t /\ own.cmd = c
      BY <2>2, <2>3
    <3>2. record.commands[c].st = "finished" /\ record.commands[c].result = own
      BY <2>2 DEF Complete
    <3> HIDE DEF own
    <3> QED BY <3>1, <3>2
  <2> QED BY <2>1, <2>4 DEF Holds, TasksAreSound, Keys
<1> QED BY <1>2, <1>3

(* The response to a request that is alone is about its own commands, each *)
(* with a result of its own, and closed (run_commands of                   *)
(* src/rest/api/command/command_in_memory.py and command_in_parallel.py).  *)
THEOREM AloneIsExactAlways == Spec => []AloneIsExact
BY ExecInvImpliesAlone, ExecInit, ExecPreserved, PTL DEF Spec

LEMMA ExecInvImpliesQuiet == ExecInv => QuietIsConsistent
<1> SUFFICES ASSUME ExecInv, Keys # {}, ~failed, \A t \in Threads : At(t, "idle")
             PROVE  Closed(record) /\ Holds(record, Keys)
  BY DEF QuietIsConsistent
<1>1. RecordIsOwed
  BY DEF ExecInv
<1>2. \A t \in Threads : ~OwesStarted(t) /\ ~OwesFinished(t)
  BY DEF OwesStarted, OwesFinished, At
<1>3. \A t \in Threads : \A i \in DOMAIN req[t].task : \A c \in Keys :
        ~OwesEntry(t, i, c) /\ ~OwesStatus(t, i, c) /\ ~OwesResult(t, i, c)
  BY DEF OwesEntry, OwesStatus, OwesResult, TaskFor, At
<1>4. \A c \in Keys : /\ record.commands[c].st = "finished"
                      /\ record.commands[c].result # NoResult
                      /\ record.commands[c].result.cmd = c
  BY <1>1, <1>3 DEF RecordIsOwed, KeyIsOwed
<1> QED BY <1>1, <1>2, <1>4 DEF RecordIsOwed, Closed, Holds, Keys

(* Whatever requests overlapped, the dictionary that they leave behind is  *)
(* closed and each result in it is its command's, if none of them failed   *)
(* (definitions.py:16, which GET /commanddetached may still save).         *)
THEOREM QuietIsConsistentAlways == Spec => []QuietIsConsistent
BY ExecInvImpliesQuiet, ExecInit, ExecPreserved, PTL DEF Spec

---------------------------------------------------------------------------
(* Requests come to an end.                                                *)

(* To have fewer steps left, and no task with more, is to come closer.     *)
LEMMA FewerSteps ==
  ASSUME NEW r \in Requests, NEW s \in Requests, StepsLeft[s.pc] < StepsLeft[r.pc],
         s.task = r.task \/ DOMAIN s.task = {}
  PROVE  Ahead(s) \subseteq Ahead(r) /\ Ahead(s) # Ahead(r)
<1>1. \A p \in Pcs : StepsLeft[p] \in Nat
  BY DEF StepsLeft, Pcs
<1>2. r.pc \in Pcs /\ s.pc \in Pcs
  BY DEF Requests
<1> DEFINE m == StepsLeft[r.pc]
           n == StepsLeft[s.pc]
           tasks(x) == UNION {{<<i, k>> : k \in 1..TaskStepsLeft[x.task[i]]} : i \in DOMAIN x.task}
<1>3. m \in Nat /\ n \in Nat /\ n < m
  BY <1>1, <1>2
<1>4. /\ Ahead(r) = {<<0, k>> : k \in 1..m} \cup tasks(r)
      /\ Ahead(s) = {<<0, k>> : k \in 1..n} \cup tasks(s)
  BY DEF Ahead
<1>5. tasks(s) \subseteq tasks(r)
  OBVIOUS
<1>6. <<0, m>> \notin tasks(r)
  <2>1. \A i \in DOMAIN r.task : i # 0
    <3>1. PICK n1 \in 0..MaxCmds : r.task \in [1..n1 -> Tasks]
      BY DEF Requests
    <3> QED BY <3>1, BoundsAssumption
  <2> QED BY <2>1
<1> HIDE DEF m, n, tasks
<1>7. {<<0, k>> : k \in 1..n} \subseteq {<<0, k>> : k \in 1..m}
  BY <1>3
<1>8. <<0, m>> \in {<<0, k>> : k \in 1..m} /\ <<0, m>> \notin {<<0, k>> : k \in 1..n}
  BY <1>3
<1> QED BY <1>4, <1>5, <1>6, <1>7, <1>8

LEMMA FewerTaskSteps ==
  ASSUME NEW r \in Requests, NEW s \in Requests, s.pc = r.pc, DOMAIN s.task = DOMAIN r.task,
         NEW i \in DOMAIN r.task, TaskStepsLeft[s.task[i]] < TaskStepsLeft[r.task[i]],
         \A j \in DOMAIN r.task \ {i} : s.task[j] = r.task[j]
  PROVE  Ahead(s) \subseteq Ahead(r) /\ Ahead(s) # Ahead(r)
<1>1. \A a \in Tasks : TaskStepsLeft[a] \in Nat
  BY DEF TaskStepsLeft, Tasks
<1>2. \A j \in DOMAIN r.task : r.task[j] \in Tasks /\ s.task[j] \in Tasks /\ j # 0
  <2>1. PICK n \in 0..MaxCmds : r.task \in [1..n -> Tasks]
    BY DEF Requests
  <2>2. PICK m \in 0..MaxCmds : s.task \in [1..m -> Tasks]
    BY DEF Requests
  <2> QED BY <2>1, <2>2, BoundsAssumption
<1> DEFINE m(j) == TaskStepsLeft[r.task[j]]
           n(j) == TaskStepsLeft[s.task[j]]
<1>3. \A j \in DOMAIN r.task : m(j) \in Nat /\ n(j) \in Nat /\ n(j) <= m(j)
  BY <1>1, <1>2
<1>4. n(i) < m(i)
  OBVIOUS
<1>5. /\ Ahead(r) = {<<0, k>> : k \in 1..StepsLeft[r.pc]}
                      \cup UNION {{<<j, k>> : k \in 1..m(j)} : j \in DOMAIN r.task}
      /\ Ahead(s) = {<<0, k>> : k \in 1..StepsLeft[r.pc]}
                      \cup UNION {{<<j, k>> : k \in 1..n(j)} : j \in DOMAIN r.task}
  BY DEF Ahead
<1> HIDE DEF m, n
<1>6. Ahead(s) \subseteq Ahead(r)
  <2>1. \A j \in DOMAIN r.task : {<<j, k>> : k \in 1..n(j)} \subseteq {<<j, k>> : k \in 1..m(j)}
    BY <1>3
  <2> QED BY <1>5, <2>1
<1>7. <<i, m(i)>> \in Ahead(r)
  <2>1. m(i) \in 1..m(i)
    BY <1>3, <1>4
  <2> QED BY <1>5, <2>1
<1>8. <<i, m(i)>> \notin Ahead(s)
  <2>1. m(i) \notin 1..n(i) /\ i # 0
    BY <1>2, <1>3, <1>4
  <2> QED BY <1>5, <2>1
<1> QED BY <1>6, <1>7, <1>8

LEMMA TasksComeCloser ==
  ASSUME ExecInv, NEW t \in Threads, RunCommand(t)
  PROVE  Ahead(req'[t]) \subseteq Ahead(req[t]) /\ Ahead(req'[t]) # Ahead(req[t])
<1> DEFINE Later == {<<"new", "opened">>, <<"opened", "running">>, <<"running", "launched">>,
                     <<"running", "unlaunched">>, <<"launched", "half">>, <<"half", "done">>,
                     <<"opened", "missing">>, <<"launched", "missing">>, <<"half", "missing">>}
<1>1. PICK i \in DOMAIN req[t].cmds :
        \/ OpenEntry(t, i) \/ MarkInProgress(t, i) \/ Launch(t, i) \/ LaunchFails(t, i)
        \/ MarkFinished(t, i) \/ PutResult(t, i)
  BY DEF RunCommand
<1>2. \A from, to, st, result :
        Edit(t, i, from, to, st, result) => Steps(t, i, from, to) \/ Steps(t, i, from, "missing")
  BY DEF Edit
<1>3. \E from, to : <<from, to>> \in Later /\ Steps(t, i, from, to)
  <2>1. CASE OpenEntry(t, i) \/ Launch(t, i) \/ LaunchFails(t, i)
    BY <2>1 DEF OpenEntry, Launch, LaunchFails
  <2>2. CASE MarkInProgress(t, i) \/ MarkFinished(t, i) \/ PutResult(t, i)
    <3>1. \E st, result : \/ Edit(t, i, "opened", "running", st, result)
                          \/ Edit(t, i, "launched", "half", st, result)
                          \/ Edit(t, i, "half", "done", st, result)
      BY <2>2, Zenon DEF MarkInProgress, MarkFinished, PutResult
    <3> QED BY <1>2, <3>1
  <2> QED BY <1>1, <2>1, <2>2
<1>4. PICK from, to : <<from, to>> \in Later /\ Steps(t, i, from, to)
  BY <1>3
<1>5. from \in Tasks /\ to \in Tasks /\ TaskStepsLeft[to] < TaskStepsLeft[from]
  BY <1>4 DEF Tasks, TaskStepsLeft
<1>6. /\ req[t] \in Requests /\ req'[t] \in Requests /\ req'[t].pc = req[t].pc
      /\ req[t].task[i] = from /\ i \in DOMAIN req[t].task /\ req'[t].task[i] = to
      /\ DOMAIN req'[t].task = DOMAIN req[t].task
      /\ \A j \in DOMAIN req[t].task \ {i} : req'[t].task[j] = req[t].task[j]
  BY <1>4, <1>5, StepsFacts, TypeFacts DEF ExecInv
<1> QED BY <1>5, <1>6, FewerTaskSteps

LEMMA HandlingComesCloser ==
  ASSUME ExecInv, NEW t \in Threads, Handle(t)
  PROVE  Ahead(req'[t]) \subseteq Ahead(req[t]) /\ Ahead(req'[t]) # Ahead(req[t])
<1>1. req \in [Threads -> Requests] /\ req[t] \in Requests
  BY TypeFacts DEF ExecInv
<1>2. req'[t] \in Requests
  <2>1. ExecInv'
    BY ExecPreserved DEF Next
  <2> QED BY <2>1 DEF ExecInv, TypeOK, Requests
<1>3. ASSUME NEW from \in Pcs, NEW to \in Pcs, At(t, from), Goto(t, to),
             StepsLeft[to] < StepsLeft[from]
      PROVE  Ahead(req'[t]) \subseteq Ahead(req[t]) /\ Ahead(req'[t]) # Ahead(req[t])
  <2>1. req'[t].pc = to /\ req'[t].task = req[t].task /\ req[t].pc = from
    BY <1>1, <1>3 DEF At, Goto, Requests
  <2> QED BY <1>1, <1>2, <1>3, <2>1, FewerSteps
<1>4. CASE \/ SetStarted(t) \/ ClearFinished(t) \/ ResetCommands(t) \/ AllDone(t)
           \/ WriteFirstFlag(t) \/ WriteSecondFlag(t)
  <2>1. \E from, to \in Pcs : At(t, from) /\ Goto(t, to) /\ StepsLeft[to] < StepsLeft[from]
    BY <1>4 DEF SetStarted, ClearFinished, ResetCommands, AllDone, WriteFirstFlag,
       WriteSecondFlag, Pcs, StepsLeft
  <2> QED BY <1>3, <2>1
<1>5. CASE Abort(t) \/ Serialise(t) \/ Respond(t)
  <2>1. PICK pc, reply : /\ pc \in {"idle", "reply"}
                        /\ req' = [req EXCEPT ![t] = Asking("none", <<>>, pc, reply)]
                        /\ StepsLeft[pc] < StepsLeft[req[t].pc]
    BY <1>5 DEF Abort, Serialise, Respond, Answer, Idle, At, StepsLeft
  <2>2. req'[t].pc = pc /\ DOMAIN req'[t].task = {}
    BY <1>1, <2>1 DEF Asking
  <2> QED BY <1>1, <1>2, <2>1, <2>2, FewerSteps
<1> QED BY <1>4, <1>5, TasksComeCloser DEF Handle

(* Every step of a request takes something from what it has ahead of it, a *)
(* finite set, and nothing that others do to the dictionary puts anything  *)
(* back: a request that goes on comes to its answer (run_commands of       *)
(* src/rest/api/command/command_in_memory.py and command_in_parallel.py).  *)
THEOREM RequestsComeCloser == Spec => ComesCloser
<1> DEFINE Closer == \A t \in Threads :
             ~At(t, "idle") /\ req'[t] # req[t] =>
               Ahead(req'[t]) \subseteq Ahead(req[t]) /\ Ahead(req'[t]) # Ahead(req[t])
<1>1. ExecInv /\ [Next]_vars => [Closer]_vars
  <2> SUFFICES ASSUME ExecInv, Next
               PROVE  Closer
    OBVIOUS
  <2>1. PICK t \in Threads : Accept(t) \/ Handle(t)
    BY DEF Next
  <2>2. CASE Handle(t)
    BY <2>2, HandlingComesCloser, HandlingKeepsTurns
  <2>3. CASE Accept(t)
    <3>1. At(t, "idle") /\ \E r : req' = [req EXCEPT ![t] = r]
      BY <2>3 DEF Accept, ReceiveSequential, ReceiveParallel, ReceiveRejected, Receive
    <3>2. \A u \in Threads \ {t} : req'[u] = req[u]
      BY <3>1, TypeFacts DEF ExecInv
    <3> QED BY <3>1, <3>2
  <2> QED BY <2>1, <2>2, <2>3
<1> QED BY <1>1, ExecInit, ExecPreserved, PTL DEF Spec, ComesCloser

=============================================================================
