------------------------- MODULE DetachedRunsProofs -------------------------
(* Proofs about DetachedCommands for a kernel that does not recycle pids:  *)
(* what a stop or a restart by id may reach, and that it ends the run; what*)
(* cmd_info_<id>.json and StateHolder say of the runs, and when.           *)
EXTENDS DetachedCommandsProofs

---------------------------------------------------------------------------
(* Processes, and what requests do to them.                                *)

(* What one step can do to the entry p of the process table.               *)
EntryKept(p) ==
  /\ proc[p].kind # "none"
  /\ proc'[p].kind = proc[p].kind
  /\ proc'[p].cid = proc[p].cid
  /\ proc'[p].hard => proc[p].hard
  /\ proc'[p].parent \in {proc[p].parent, Reaper}
  /\ proc'[p].st # "unused"
  /\ Live(p)' => Live(p)
  /\ Exists(p)' => Exists(p) /\ (p = agent => agent' = agent)

EntryCreated(p) ==
  /\ proc[p].st = "unused"
  /\ proc'[p].st = "live"
  /\ \/ /\ proc'[p].kind = "agent" /\ agent' = p
        /\ proc'[p].parent = Reaper
     \/ /\ proc'[p].kind = "runner" /\ ~proc'[p].hard
        /\ proc'[p].parent = agent /\ agent # NoPid
     \/ /\ proc'[p].kind = "shell"
        /\ \E q \in Pids : /\ proc[q].kind = "runner"
                           /\ proc'[p].parent = q
                           /\ proc'[p].cid = proc[q].cid

EntryUnused(p) ==
  proc[p].kind = "none" /\ proc'[p] = proc[p]

(* A table in which nothing is created.                                    *)
LEMMA EntrySame ==
  ASSUME ScopeInv, NEW p \in Pids, proc'[p] = proc[p], agent' = agent
  PROVE  EntryKept(p) \/ EntryUnused(p)
BY DEF EntryKept, EntryUnused, ScopeInv, ProcessesAreSound, BasicInv, TypeOK, Process,
       Live, Exists

(* The end of a process creates nothing.                                   *)
LEMMA EntryEnded ==
  ASSUME ScopeInv, NEW p \in Pids, NEW q \in Pids, NEW how, Live(q),
         proc' = Ended(q, how), agent' = agent
  PROVE  EntryKept(p) \/ EntryUnused(p)
<1>1. TypeOK
  BY DEF ScopeInv, BasicInv
<1>2. CASE p = q
  <2>1. proc[p].kind # "none"
    BY <1>2 DEF ScopeInv, ProcessesAreSound, Live
  <2>2. /\ proc'[p].kind = proc[p].kind
        /\ proc'[p].cid = proc[p].cid
        /\ ~proc'[p].hard
        /\ proc'[p].st \in {"zombie", "gone"}
        /\ proc'[p].parent \in {proc[p].parent, Reaper}
    BY <1>2, EndedSelf
  <2> QED BY <1>2, <2>1, <2>2 DEF EntryKept, Live, Exists
<1>3. CASE p # q /\ proc[p].kind # "none"
  <2>1. /\ proc'[p].kind = proc[p].kind
        /\ proc'[p].cid = proc[p].cid
        /\ proc'[p].hard = proc[p].hard
        /\ proc'[p].st = proc[p].st
        /\ proc'[p].parent \in {proc[p].parent, Reaper}
    BY <1>1, <1>3, EndedOther
  <2>2. proc[p].st # "unused"
    BY <1>3 DEF ScopeInv, ProcessesAreSound
  <2> QED BY <1>3, <2>1, <2>2 DEF EntryKept, Live, Exists
<1>4. CASE p # q /\ proc[p].kind = "none"
  <2>1. proc[p].parent # q
    BY <1>1, <1>4, Constants DEF ScopeInv, FamilyIsSound
  <2>2. proc'[p] = proc[p]
    BY <1>4, <2>1 DEF Ended
  <2> QED BY <1>4, <2>2 DEF EntryUnused
<1> QED BY <1>2, <1>3, <1>4

(* A wait creates nothing.                                                 *)
LEMMA EntryReaped ==
  ASSUME ScopeInv, NEW p \in Pids, NEW ps, proc'[p] = Reaped(ps)[p], agent' = agent
  PROVE  EntryKept(p) \/ EntryUnused(p)
<1>1. TypeOK
  BY DEF ScopeInv, BasicInv
<1>2. CASE proc[p].kind = "none"
  <2>1. proc[p].st = "unused"
    BY <1>2 DEF ScopeInv, ProcessesAreSound
  <2> QED BY <1>2, <2>1 DEF EntryUnused, Reaped
<1>3. CASE proc[p].kind # "none"
  <2>1. proc[p].st # "unused"
    BY <1>3 DEF ScopeInv, ProcessesAreSound
  <2> QED BY <1>1, <1>3, <2>1, ReapedFields DEF EntryKept, Live, Exists
<1> QED BY <1>2, <1>3

(* A pid that a fork returns was never used.                               *)
LEMMA FreeIsUnused ==
  ASSUME ~Recycle, NEW p \in FreePids
  PROVE  p \in Pids /\ proc[p].st = "unused"
BY DEF FreePids

(* Entry by entry, what a step of a handler does to the table.             *)
LEMMA HandleEntries ==
  ASSUME ScopeInv, ~Recycle, NEW p \in Pids, NEW h \in Handlers, Handle(h)
  PROVE  EntryKept(p) \/ EntryCreated(p) \/ EntryUnused(p)
<1>1. TypeOK /\ agent' = agent
  BY DEF ScopeInv, BasicInv, Handle, CheckFile, InitOpen, InitPut, ReadInfo, ReadPid,
         SnapshotTree, SnapshotFails, Signal, SignalsSent, WaitGone, WaitTimeout, WaitDone,
         Spawn, SpawnFails, SetLast, Respond
<1>2. CASE Spawn(h)
  <2>1. PICK s \in FreePids :
          proc' = [Reaped(Pids) EXCEPT ![s] = Runner(req[h].id, req[h].n)]
    BY <1>2 DEF Spawn
  <2>2. s \in Pids /\ proc[s].st = "unused"
    BY FreeIsUnused
  <2>3. CASE p = s
    <3>1. proc'[p] = Runner(req[h].id, req[h].n)
      BY <1>1, <2>1, <2>2, <2>3, ReapedType
    <3>2. agent # NoPid
      BY <1>2, AtWork DEF Spawn, At, ScopeInv
    <3> QED BY <2>2, <2>3, <3>1, <3>2 DEF EntryCreated, Runner
  <2>4. CASE p # s
    <3>1. proc'[p] = Reaped(Pids)[p]
      BY <1>1, <2>1, <2>2, <2>4, ReapedType
    <3> QED BY <1>1, <3>1, EntryReaped
  <2> QED BY <2>3, <2>4
<1>3. CASE SpawnFails(h) \/ WaitGone(h) \/ WaitTimeout(h)
  BY <1>1, <1>3, EntrySame, EntryReaped DEF SpawnFails, WaitGone, WaitTimeout, WaitDone
<1>4. CASE Signal(h)
  BY <1>1, <1>4, EntrySame, EntryEnded DEF Signal
<1>5. CASE ~(Spawn(h) \/ SpawnFails(h) \/ WaitGone(h) \/ WaitTimeout(h) \/ Signal(h))
  <2>1. proc' = proc
    BY <1>5 DEF Handle, CheckFile, InitOpen, InitPut, ReadInfo, ReadPid, SnapshotTree,
                SnapshotFails, SignalsSent, SetLast, Respond
  <2> QED BY <1>1, <2>1, EntrySame
<1> QED BY <1>2, <1>3, <1>4, <1>5

(* Entry by entry, what a step of a runner or a shell does to it.          *)
LEMMA ProcessEntries ==
  ASSUME ScopeInv, ~Recycle, NEW p \in Pids, NEW q \in Pids, RunnerStep(q) \/ ShellExits(q)
  PROVE  EntryKept(p) \/ EntryCreated(p) \/ EntryUnused(p)
<1> USE DEF IsRunnerAt
<1>1. TypeOK /\ agent' = agent /\ Live(q) /\ proc[q] \in Process /\ proc[q].kind # "none"
  BY DEF ScopeInv, BasicInv, TypeOK, RunnerStep, RunnerOpens, RunnerWrites, RunnerForks,
         RunnerAborts, RunnerResumes, RunnerExits, ShellExits
<1>2. CASE RunnerAborts(q) \/ RunnerExits(q) \/ ShellExits(q)
  BY <1>1, <1>2, EntryEnded DEF RunnerAborts, RunnerExits, ShellExits
<1>3. ASSUME NEW r, p = q, proc'[p] = r,
             r.st = proc[q].st, r.kind = proc[q].kind, r.parent = proc[q].parent,
             r.cid = proc[q].cid, r.hard = proc[q].hard
      PROVE  EntryKept(p)
  BY <1>1, <1>3 DEF EntryKept, Live, Exists
<1>4. CASE RunnerOpens(q) \/ RunnerWrites(q) \/ RunnerResumes(q)
  <2>1. CASE p = q
    <3>1. /\ proc'[p].st = proc[q].st /\ proc'[p].kind = proc[q].kind
          /\ proc'[p].parent = proc[q].parent /\ proc'[p].cid = proc[q].cid
          /\ proc'[p].hard = proc[q].hard
      BY <1>1, <1>4, <2>1 DEF RunnerOpens, RunnerWrites, RunnerResumes, TypeOK, Process
    <3> QED BY <1>3, <2>1, <3>1
  <2>2. CASE p # q
    <3>1. proc'[p] = proc[p]
      BY <1>1, <1>4, <2>2 DEF RunnerOpens, RunnerWrites, RunnerResumes, TypeOK
    <3> QED BY <1>1, <3>1, EntrySame
  <2> QED BY <2>1, <2>2
<1>5. CASE RunnerForks(q)
  <2>1. PICK s \in FreePids, ignoresTerm \in {FALSE, Stubborn} :
          proc' = [proc EXCEPT ![q].at = "wait", ![s] = Shell(q, ignoresTerm)]
    BY <1>5 DEF RunnerForks
  <2>2. s \in Pids /\ proc[s].st = "unused" /\ s # q /\ proc[q].kind = "runner"
    BY <1>1, <1>5, FreeIsUnused DEF RunnerForks, Live
  <2>3. CASE p = s
    <3>1. proc'[p] = Shell(q, ignoresTerm)
      BY <1>1, <2>1, <2>2, <2>3 DEF TypeOK
    <3> QED BY <2>2, <2>3, <3>1 DEF EntryCreated, Shell
  <2>4. CASE p = q
    <3>1. /\ proc'[p].st = proc[q].st /\ proc'[p].kind = proc[q].kind
          /\ proc'[p].parent = proc[q].parent /\ proc'[p].cid = proc[q].cid
          /\ proc'[p].hard = proc[q].hard
      BY <1>1, <2>1, <2>2, <2>4 DEF TypeOK, Process
    <3> QED BY <1>3, <2>4, <3>1
  <2>5. CASE p # s /\ p # q
    <3>1. proc'[p] = proc[p]
      BY <1>1, <2>1, <2>2, <2>5 DEF TypeOK
    <3> QED BY <1>1, <3>1, EntrySame
  <2> QED BY <2>3, <2>4, <2>5
<1> QED BY <1>2, <1>4, <1>5 DEF RunnerStep

(* Entry by entry, what any step does to the process table.                *)
LEMMA Entries ==
  ASSUME ScopeInv, ~Recycle, [Next]_vars, NEW p \in Pids
  PROVE  EntryKept(p) \/ EntryCreated(p) \/ EntryUnused(p)
<1>1. CASE UNCHANGED vars
  BY <1>1, EntrySame DEF vars
<1>2. ASSUME NEW h \in Handlers, Accept(h)
      PROVE  EntryKept(p) \/ EntryCreated(p) \/ EntryUnused(p)
  <2>1. UNCHANGED <<agent, proc>>
    BY <1>2 DEF Accept, ReceiveStart, ReceiveEmptyStart, ReceiveById, ReceiveInfoLast,
                ReceiveStopAll, Receive
  <2> QED BY <2>1, EntrySame
<1>3. CASE Crash
  <2>1. /\ proc[p] \in Process /\ agent \in Pids /\ agent' # agent
        /\ proc[agent].kind = "agent" /\ proc[agent].parent = Reaper
        /\ (proc[p].kind = "none" <=> proc[p].st = "unused")
    BY <1>3 DEF Crash, ScopeInv, BasicInv, TypeOK, AgentIsAlive, ProcessesAreSound
  <2>2. CASE p = agent
    <3>1. proc'[p] = [proc[p] EXCEPT !.st = "gone", !.at = "killed"]
      BY <1>3, <2>2 DEF Crash
    <3>2. /\ proc'[p].kind = proc[p].kind /\ proc'[p].cid = proc[p].cid
          /\ proc'[p].hard = proc[p].hard /\ proc'[p].parent = proc[p].parent
          /\ proc'[p].st = "gone"
      BY <2>1, <3>1 DEF Process
    <3> QED BY <2>1, <2>2, <3>2 DEF EntryKept, Live, Exists
  <2>3. CASE p # agent /\ proc[p].parent = agent
    <3>1. proc'[p] = [proc[p] EXCEPT !.parent = Reaper,
                                     !.st = IF @ = "zombie" THEN "gone" ELSE @]
      BY <1>3, <2>3 DEF Crash
    <3>2. /\ proc'[p].kind = proc[p].kind /\ proc'[p].cid = proc[p].cid
          /\ proc'[p].hard = proc[p].hard /\ proc'[p].parent = Reaper
          /\ proc'[p].st \in {proc[p].st, "gone"}
      BY <2>1, <3>1 DEF Process
    <3>3. proc[p].kind # "none"
      BY <2>1, <2>3, Constants DEF ScopeInv, FamilyIsSound
    <3> QED BY <2>1, <2>3, <3>2, <3>3 DEF EntryKept, Live, Exists
  <2>4. CASE p # agent /\ proc[p].parent # agent
    <3>1. proc'[p] = proc[p]
      BY <1>3, <2>4 DEF Crash
    <3> QED BY <2>1, <2>4, <3>1 DEF EntryKept, EntryUnused, Live, Exists
  <2> QED BY <2>2, <2>3, <2>4
<1>4. CASE Restart
  <2>1. PICK s \in FreePids : agent' = s /\ proc' = [proc EXCEPT ![s] = AgentProcess]
    BY <1>4 DEF Restart
  <2>2. s \in Pids /\ proc[s].st = "unused"
    BY FreeIsUnused
  <2>3. CASE p = s
    BY <2>1, <2>2, <2>3 DEF EntryCreated, AgentProcess, ScopeInv, BasicInv, TypeOK
  <2>4. CASE p # s
    <3>1. proc'[p] = proc[p] /\ p # agent
      BY <1>4, <2>1, <2>2, <2>4, Constants DEF Restart, ScopeInv, BasicInv, TypeOK
    <3>2. proc[p].kind = "none" <=> proc[p].st = "unused"
      BY DEF ScopeInv, ProcessesAreSound
    <3> QED BY <3>1, <3>2 DEF EntryKept, EntryUnused, Live, Exists
  <2> QED BY <2>3, <2>4
<1> QED BY <1>1, <1>2, <1>3, <1>4, HandleEntries, ProcessEntries DEF Next

---------------------------------------------------------------------------
(* Processes, families and files.                                          *)

(* Every step keeps what is known of the processes.                        *)
LEMMA ProcessesNext ==
  ASSUME ScopeInv, ~Recycle, [Next]_vars
  PROVE  ProcessesAreSound'
<1> SUFFICES ASSUME NEW p \in Pids
             PROVE  /\ Exists(p)' /\ proc'[p].kind = "agent" => p = agent'
                    /\ proc'[p].kind = "none" <=> proc'[p].st = "unused"
                    /\ proc'[p].kind = "runner" => ~proc'[p].hard
  BY DEF ProcessesAreSound
<1>1. /\ Exists(p) /\ proc[p].kind = "agent" => p = agent
      /\ proc[p].kind = "none" <=> proc[p].st = "unused"
      /\ proc[p].kind = "runner" => ~proc[p].hard
  BY DEF ScopeInv, ProcessesAreSound
<1>2. CASE EntryKept(p)
  BY <1>1, <1>2 DEF EntryKept
<1>3. CASE EntryCreated(p)
  BY <1>3 DEF EntryCreated
<1>4. CASE EntryUnused(p)
  BY <1>1, <1>4 DEF EntryUnused, Exists
<1> QED BY <1>2, <1>3, <1>4, Entries

(* Every step keeps parents and children matched.                          *)
LEMMA FamilyNext ==
  ASSUME ScopeInv, ~Recycle, [Next]_vars
  PROVE  FamilyIsSound'
<1> DEFINE Family(p) ==
      \/ proc[proc[p].parent].kind = "agent" /\ proc[p].kind = "runner"
      \/ /\ proc[proc[p].parent].kind = "runner" /\ proc[p].kind = "shell"
         /\ proc[proc[p].parent].cid = proc[p].cid
<1> SUFFICES ASSUME NEW p \in Pids, proc'[p].parent # Reaper
             PROVE  Family(p)'
  BY DEF FamilyIsSound
<1>1. /\ proc[p].parent # Reaper => Family(p)
      /\ proc[p].parent # Reaper => proc[p].parent \in Pids
  BY DEF ScopeInv, FamilyIsSound, BasicInv, TypeOK, Process
<1>2. ASSUME NEW q \in Pids, proc[q].kind # "none"
      PROVE  proc'[q].kind = proc[q].kind /\ proc'[q].cid = proc[q].cid
  <2>1. proc[q].st # "unused"
    BY <1>2 DEF ScopeInv, ProcessesAreSound
  <2> QED BY <1>2, <2>1, Entries DEF EntryKept, EntryCreated, EntryUnused
<1>3. CASE EntryKept(p)
  <2>1. proc'[p].parent = proc[p].parent /\ Family(p) /\ proc[p].parent \in Pids
    BY <1>1, <1>3 DEF EntryKept
  <2>2. /\ proc'[proc[p].parent].kind = proc[proc[p].parent].kind
        /\ proc'[proc[p].parent].cid = proc[proc[p].parent].cid
    BY <1>2, <2>1
  <2> QED BY <1>3, <2>1, <2>2 DEF EntryKept
<1>4. CASE EntryCreated(p)
  <2>1. CASE proc'[p].kind = "runner"
    <3>1. proc'[p].parent = agent /\ agent \in Pids /\ proc[agent].kind = "agent"
      BY <1>4, <2>1 DEF EntryCreated, ScopeInv, BasicInv, TypeOK, AgentIsAlive
    <3> QED BY <1>2, <2>1, <3>1
  <2>2. CASE proc'[p].kind = "shell"
    <3>1. PICK q \in Pids : /\ proc[q].kind = "runner"
                            /\ proc'[p].parent = q
                            /\ proc'[p].cid = proc[q].cid
      BY <1>4, <2>2 DEF EntryCreated
    <3> QED BY <1>2, <2>2, <3>1
  <2> QED BY <1>4, <2>1, <2>2 DEF EntryCreated
<1>5. CASE EntryUnused(p)
  BY <1>1, <1>5 DEF EntryUnused
<1> QED BY <1>3, <1>4, <1>5, Entries

(* A process that may be named by an id may be named by it ever after.     *)
LEMMA NamesPersist ==
  ASSUME ScopeInv, ~Recycle, [Next]_vars, NEW p \in Pids, NEW id, MayBeNamedBy(id, p)
  PROVE  MayBeNamedBy(id, p)' /\ proc'[p].kind = proc[p].kind /\ (Live(p)' => Live(p))
<1>1. proc[p].kind # "none" /\ proc[p].st # "unused"
  BY DEF MayBeNamedBy, ScopeInv, ProcessesAreSound
<1>2. EntryKept(p)
  BY <1>1, Entries DEF EntryCreated, EntryUnused, EntryKept, ScopeInv, ProcessesAreSound,
                       Live, Exists
<1> QED BY <1>2 DEF EntryKept, MayBeNamedBy

(* Every step keeps files naming runs of their id, or agents.              *)
LEMMA FilesNext ==
  ASSUME ScopeInv, ~Recycle, [Next]_vars
  PROVE  FilesAreSound'
<1> SUFFICES ASSUME NEW id \in Ids, Parses(id)'
             PROVE  MayBeNamedBy(id, file[id].pid)'
  BY DEF FilesAreSound
<1>1. /\ TypeOK /\ TypeOK' /\ BasicInv
      /\ Parses(id) => MayBeNamedBy(id, file[id].pid) /\ file[id].pid \in Pids
  BY BasicNext DEF ScopeInv, BasicInv, FilesAreSound, TypeOK, FileRecord, Parses, Parsed
<1>2. CASE file'[id] = file[id]
  BY <1>1, <1>2, NamesPersist DEF Parses, MayBeNamedBy
<1>3. ASSUME NEW i \in Ids, Truncate(i) PROVE file'[id] = file[id]
  BY <1>1, <1>3 DEF Truncate, EmptyFile, Parses, Parsed, TypeOK
<1>4. ASSUME NEW i \in Ids, NEW status, NEW pid \in Pids, Put(i, status, pid),
             MayBeNamedBy(i, pid)
      PROVE  MayBeNamedBy(id, file[id].pid)'
  <2>1. CASE id # i
    <3>1. file'[id] = file[id]
      BY <1>1, <1>4, <2>1 DEF Put, TypeOK
    <3> QED BY <1>2, <3>1
  <2>2. CASE id = i
    <3>1. file'[id].st = "mixed" \/ file'[id].pid = pid
      BY <1>1, <1>4, <2>2 DEF Put, MixedFile, TypeOK
    <3>2. file'[id].pid = pid
      BY <3>1 DEF Parses, Parsed
    <3> QED BY <1>4, <2>2, <3>2, NamesPersist DEF MayBeNamedBy
  <2> QED BY <2>1, <2>2
<1>5. ASSUME NEW h \in Handlers, Handle(h) PROVE MayBeNamedBy(id, file[id].pid)'
  <2>1. CASE InitOpen(h)
    <3>1. req[h].id \in Ids
      BY <1>1 DEF TypeOK, Request
    <3> QED BY <1>2, <1>3, <2>1, <3>1 DEF InitOpen
  <2>2. CASE InitPut(h)
    <3>1. req[h].id \in Ids /\ agent \in Pids
      BY <1>1, <2>2, AtWork DEF TypeOK, Request, InitPut, At
    <3>2. MayBeNamedBy(req[h].id, agent)
      BY <1>1, <3>1, Constants DEF MayBeNamedBy, BasicInv, AgentIsAlive
    <3> QED BY <1>4, <2>2, <3>1, <3>2 DEF InitPut
  <2>3. CASE ~(InitOpen(h) \/ InitPut(h))
    <3>1. file' = file
      BY <1>5, <2>3
         DEF Handle, CheckFile, ReadInfo, ReadPid, SnapshotTree, SnapshotFails, Signal,
             SignalsSent, WaitGone, WaitTimeout, WaitDone, Spawn, SpawnFails, SetLast, Respond
    <3> QED BY <1>2, <3>1
  <2> QED BY <2>1, <2>2, <2>3
<1>6. ASSUME NEW p \in Pids, RunnerStep(p) PROVE MayBeNamedBy(id, file[id].pid)'
  <2>1. proc[p].cid \in Ids
    BY <1>1 DEF TypeOK, Process
  <2>2. CASE RunnerOpens(p)
    BY <1>2, <1>3, <2>1, <2>2 DEF RunnerOpens
  <2>3. CASE RunnerWrites(p)
    <3>1. MayBeNamedBy(proc[p].cid, p)
      BY <2>3 DEF RunnerWrites, IsRunnerAt, MayBeNamedBy
    <3> QED BY <1>4, <2>1, <2>3, <3>1 DEF RunnerWrites
  <2>4. CASE ~(RunnerOpens(p) \/ RunnerWrites(p))
    <3>1. file' = file
      BY <1>6, <2>4 DEF RunnerStep, RunnerForks, RunnerAborts, RunnerResumes, RunnerExits
    <3> QED BY <1>2, <3>1
  <2> QED BY <2>2, <2>3, <2>4
<1>7. CASE \/ UNCHANGED vars
           \/ \E h \in Handlers : Accept(h)
           \/ \E p \in Pids : ShellExits(p)
           \/ Crash \/ Restart
  <2>1. file' = file
    BY <1>7 DEF vars, Accept, ReceiveStart, ReceiveEmptyStart, ReceiveById, ReceiveInfoLast,
                ReceiveStopAll, Receive, ShellExits, Crash, Restart
  <2> QED BY <1>2, <2>1
<1> QED BY <1>5, <1>6, <1>7 DEF Next


---------------------------------------------------------------------------
(* Requests: the conjuncts of ScopeInv about them, for one thread.         *)

ByIdOp(h) == req[h].op \in {"start", "stop"}

RootOf(h) ==
  /\ req[h].pc \in {"check", "initopen", "initput", "read"} => req[h].root = NoPid
  /\ ByIdOp(h) /\ req[h].root # NoPid => MayBeNamedBy(req[h].id, req[h].root)

TargetsOf(h) ==
  ByIdOp(h) /\ req[h].root # agent =>
     \A p \in req[h].targets : proc[p].kind # "none" /\ proc[p].cid = req[h].id

(* The root is a run, alive only as long as it is still to be signalled.   *)
RootRuns(h) == req[h].root # NoPid /\ proc[req[h].root].kind = "runner"

FateOf(h) ==
  ByIdOp(h) /\ RootRuns(h) =>
     /\ req[h].pc = "signal" /\ Live(req[h].root) => req[h].root \in req[h].todo
     /\ req[h].pc \in {"wait", "spawn", "setlast", "reply"} => ~Live(req[h].root)

ScopeOf(h) == RootOf(h) /\ TargetsOf(h) /\ FateOf(h)

(* The conjuncts about requests, thread by thread.                         *)
LEMMA ScopeOfAll ==
  RootsAreSound /\ TargetsAreSound /\ RootIsPending /\ KilledRunIsDead
    <=> \A h \in Handlers : ScopeOf(h)
BY DEF RootsAreSound, TargetsAreSound, RootIsPending, KilledRunIsDead,
       ScopeOf, RootOf, TargetsOf, FateOf, RootRuns, ByIdOp

(* An idle thread satisfies them.                                          *)
LEMMA IdleScope ==
  ASSUME NEW h \in Handlers, req'[h] = Idle
  PROVE  ScopeOf(h)'
BY DEF ScopeOf, RootOf, TargetsOf, FateOf, RootRuns, ByIdOp, Idle, Asking

(* A thread keeps its request, and goes on in a way that does not hurt.    *)
LEMMA ScopeKept ==
  ASSUME ScopeInv, ~Recycle, [Next]_vars, NEW h \in Handlers, agent' = agent,
         req'[h].op = req[h].op, req'[h].id = req[h].id, req'[h].root = req[h].root,
         req'[h].targets \subseteq req[h].targets,
         req'[h].pc \in {"check", "initopen", "initput", "read"} => req[h].root = NoPid,
         \/ req[h].root = NoPid
         \/ ~ByIdOp(h)
         \/ /\ req'[h].pc = req[h].pc
            /\ \A p \in req[h].todo \ req'[h].todo : proc[p].kind # "runner" \/ ~Live(p)'
         \/ req'[h].pc \notin {"signal", "wait", "spawn", "setlast", "reply"}
         \/ /\ req[h].pc = "signal" /\ req[h].todo = {}
            /\ req'[h].pc = "wait"
         \/ /\ req[h].pc \in {"wait", "spawn", "setlast"}
            /\ req'[h].pc \in {"spawn", "setlast", "reply"}
         \/ /\ ~Live(req[h].root)
            /\ req'[h].pc \in {"spawn", "reply"}
  PROVE  ScopeOf(h)'
<1>1. /\ ScopeOf(h) /\ req[h] \in Request
      /\ \A p \in req[h].targets : p \in Pids
  BY ScopeOfAll DEF ScopeInv, BasicInv, TypeOK, Request
<1>2. RootOf(h)'
  <2>1. CASE ByIdOp(h) /\ req[h].root # NoPid
    <3>1. req[h].root \in Pids /\ MayBeNamedBy(req[h].id, req[h].root)
      BY <1>1, <2>1 DEF ScopeOf, RootOf, Request
    <3>2. MayBeNamedBy(req[h].id, req[h].root)'
      BY <3>1, NamesPersist DEF MayBeNamedBy
    <3> QED BY <2>1, <3>2 DEF RootOf, ByIdOp
  <2>2. CASE ~(ByIdOp(h) /\ req[h].root # NoPid)
    BY <2>2 DEF RootOf, ByIdOp
  <2> QED BY <2>1, <2>2
<1>3. TargetsOf(h)'
  <2>1. ASSUME ByIdOp(h), req[h].root # agent, NEW p \in req[h].targets
        PROVE  proc'[p].kind # "none" /\ proc'[p].cid = req[h].id
    <3>1. p \in Pids /\ proc[p].kind # "none" /\ proc[p].cid = req[h].id
      BY <1>1, <2>1 DEF ScopeOf, TargetsOf
    <3>2. proc[p].st # "unused"
      BY <3>1 DEF ScopeInv, ProcessesAreSound
    <3> QED BY <3>1, <3>2, Entries DEF EntryKept, EntryCreated, EntryUnused
  <2> QED BY <2>1 DEF TargetsOf, ByIdOp
<1>4. FateOf(h)'
  <2> SUFFICES ASSUME ByIdOp(h), req[h].root # NoPid, RootRuns(h)'
               PROVE  FateOf(h)'
    BY DEF FateOf, ByIdOp, RootRuns
  <2>1. req[h].root \in Pids /\ MayBeNamedBy(req[h].id, req[h].root)
    BY <1>1 DEF ScopeOf, RootOf, Request
  <2>2. /\ proc'[req[h].root].kind = proc[req[h].root].kind
        /\ Live(req[h].root)' => Live(req[h].root)
    BY <2>1, NamesPersist DEF Live
  <2>3. proc'[req[h].root].kind = "runner" /\ proc[req[h].root].kind = "runner"
    BY <2>2 DEF RootRuns
  <2>4. /\ req[h].pc = "signal" /\ Live(req[h].root) => req[h].root \in req[h].todo
        /\ req[h].pc \in {"wait", "spawn", "setlast", "reply"} => ~Live(req[h].root)
    BY <1>1, <2>3 DEF ScopeOf, FateOf, RootRuns
  <2>5. /\ req'[h].pc = "signal" /\ Live(req[h].root)' => req[h].root \in req'[h].todo
        /\ req'[h].pc \in {"wait", "spawn", "setlast", "reply"} => ~Live(req[h].root)'
    BY <2>2, <2>3, <2>4
  <2> QED BY <2>5 DEF FateOf, Live
<1> QED BY <1>2, <1>3, <1>4 DEF ScopeOf

(* The tree of a run are its shells: a snapshot by id stays within the id. *)
LEMMA SnapshotScope ==
  ASSUME ScopeInv, NEW h \in Handlers, SnapshotTree(h)
  PROVE  ScopeOf(h)'
<1> DEFINE root == req[h].root
<1>1. /\ ScopeOf(h) /\ req[h] \in Request /\ req \in [Handlers -> Request]
      /\ req[h].pc = "snapshot" /\ UNCHANGED <<agent, proc>>
      /\ root \in Pids /\ agent \in Pids /\ Exists(root)
      /\ req'[h] = [req[h] EXCEPT !.pc = "signal", !.todo = KillTargets(root),
                                  !.targets = KillTargets(root)]
      /\ proc[agent].kind = "agent"
  BY ScopeOfAll, AtWork, Constants
     DEF SnapshotTree, At, ScopeInv, BasicInv, TypeOK, SoundRequest, AgentIsAlive
<1>2. /\ req'[h].op = req[h].op /\ req'[h].id = req[h].id /\ req'[h].root = root
      /\ req'[h].pc = "signal"
      /\ req'[h].todo = KillTargets(root) /\ req'[h].targets = KillTargets(root)
  BY <1>1 DEF Request
<1>3. RootOf(h)'
  BY <1>1, <1>2 DEF ScopeOf, RootOf, ByIdOp, MayBeNamedBy
<1>4. ASSUME ByIdOp(h), root # agent
      PROVE  /\ proc[root].kind = "runner" /\ proc[root].cid = req[h].id
             /\ \A p \in KillTargets(root) : proc[p].kind # "none" /\ proc[p].cid = req[h].id
  <2>1. proc[root].kind = "runner" /\ proc[root].cid = req[h].id
    BY <1>1, <1>4, Constants
       DEF ScopeOf, RootOf, MayBeNamedBy, ScopeInv, ProcessesAreSound
  <2>2. \A p \in Children(root) : proc[p].kind = "shell" /\ proc[p].cid = req[h].id
    BY <1>1, <2>1, Constants DEF Children, ScopeInv, FamilyIsSound
  <2>3. \A p \in Children(root) : Children(p) = {}
    BY <1>1, <2>2, Constants DEF Children, ScopeInv, FamilyIsSound
  <2>4. KillTargets(root) = Children(root) \cup {root}
    BY <1>4, <2>3 DEF KillTargets, Descendants
  <2> QED BY <2>1, <2>2, <2>4
<1>5. TargetsOf(h)'
  BY <1>1, <1>2, <1>4 DEF TargetsOf, ByIdOp
<1>6. root # agent => root \in KillTargets(root)
  BY DEF KillTargets
<1>7. FateOf(h)'
  BY <1>1, <1>2, <1>6 DEF FateOf, RootRuns, ByIdOp, Live
<1> QED BY <1>3, <1>5, <1>7 DEF ScopeOf


(* A thread that the step leaves alone, or from which it takes a process   *)
(* object whose pid was free.                                              *)
LEMMA OtherScope ==
  ASSUME ScopeInv, ~Recycle, [Next]_vars, NEW g \in Handlers, agent' = agent,
         \/ req'[g] = req[g]
         \/ \E p \in FreePids : req'[g] = Forgetting(req[g], p)
  PROVE  ScopeOf(g)'
<1>1. req[g] \in Request /\ RootOf(g)
  BY ScopeOfAll DEF ScopeInv, BasicInv, TypeOK, ScopeOf
<1>2. CASE req'[g] = req[g]
  BY <1>1, <1>2, ScopeKept DEF RootOf
<1>3. CASE \E p \in FreePids : req'[g] = Forgetting(req[g], p)
  <2>1. PICK p \in FreePids : req'[g] = Forgetting(req[g], p)
    BY <1>3
  <2>2. proc[p].kind # "runner"
    BY FreeIsUnused DEF ScopeInv, ProcessesAreSound
  <2>3. /\ req'[g].op = req[g].op /\ req'[g].id = req[g].id /\ req'[g].root = req[g].root
        /\ req'[g].pc = req[g].pc
        /\ req'[g].todo = req[g].todo \ {p} /\ req'[g].targets = req[g].targets \ {p}
    BY <1>1, <2>1 DEF Forgetting, Request
  <2> QED BY <1>1, <2>2, <2>3, ScopeKept DEF RootOf
<1> QED BY <1>2, <1>3

(* The loop of kill_proc_tree ends every runner that it signals.           *)
LEMMA SignalScope ==
  ASSUME ScopeInv, ~Recycle, NEW h \in Handlers, Signal(h)
  PROVE  ScopeOf(h)'
<1>1. /\ TypeOK /\ req[h] \in Request /\ req \in [Handlers -> Request]
      /\ req[h].pc = "signal" /\ agent' = agent /\ [Next]_vars
  BY DEF ScopeInv, BasicInv, TypeOK, Signal, At, Next, Handle
<1>2. PICK p \in Pids :
        /\ proc' = IF Live(p) /\ ~proc[p].hard THEN Ended(p, "killed") ELSE proc
        /\ req' = [req EXCEPT ![h].todo = @ \ {p}]
  BY DEF Signal
<1>3. /\ req'[h].op = req[h].op /\ req'[h].id = req[h].id /\ req'[h].root = req[h].root
      /\ req'[h].pc = req[h].pc /\ req'[h].targets = req[h].targets
      /\ req'[h].todo = req[h].todo \ {p}
  BY <1>1, <1>2 DEF Request
<1>4. proc[p].kind = "runner" => ~Live(p)'
  <2>1. CASE Live(p) /\ proc[p].kind = "runner"
    <3>1. proc' = Ended(p, "killed")
      BY <1>2, <2>1 DEF ScopeInv, ProcessesAreSound
    <3>2. proc'[p].st \in {"zombie", "gone"}
      BY <1>1, <3>1, EndedSelf
    <3> QED BY <3>2 DEF Live
  <2>2. CASE ~Live(p)
    BY <1>2, <2>2 DEF Live
  <2> QED BY <2>1, <2>2
<1> QED BY <1>1, <1>3, <1>4, ScopeKept

(* A stop or a start takes the root that the file of its id names.         *)
LEMMA ReadScope ==
  ASSUME ScopeInv, ~Recycle, NEW h \in Handlers, ReadPid(h)
  PROVE  ScopeOf(h)'
<1>1. /\ ScopeOf(h) /\ req[h] \in Request /\ req \in [Handlers -> Request]
      /\ req[h].id \in Ids /\ req[h].root = NoPid /\ agent # NoPid
      /\ UNCHANGED <<agent, proc>> /\ [Next]_vars
  BY ScopeOfAll, AtWork
     DEF ReadPid, At, ScopeInv, BasicInv, TypeOK, Request, ScopeOf, RootOf, Next, Handle
<1>2. CASE Parses(req[h].id)
  <2>1. req' = [req EXCEPT ![h].pc = "snapshot", ![h].root = file[req[h].id].pid]
    BY <1>2 DEF ReadPid
  <2>2. /\ req'[h].op = req[h].op /\ req'[h].id = req[h].id
        /\ req'[h].pc = "snapshot" /\ req'[h].root = file[req[h].id].pid
        /\ req'[h].targets = req[h].targets
    BY <1>1, <2>1 DEF Request
  <2>3. MayBeNamedBy(req[h].id, req'[h].root)
    BY <1>1, <1>2, <2>2 DEF ScopeInv, FilesAreSound
  <2>4. RootOf(h)'
    BY <1>1, <2>2, <2>3 DEF RootOf, MayBeNamedBy
  <2>5. TargetsOf(h)'
    BY <1>1, <2>2 DEF ScopeOf, TargetsOf, ByIdOp
  <2>6. FateOf(h)'
    BY <2>2 DEF FateOf
  <2> QED BY <2>4, <2>5, <2>6 DEF ScopeOf
<1>3. CASE ~Parses(req[h].id)
  <2>1. \/ req' = [req EXCEPT ![h].pc = "spawn"]
        \/ req' = [req EXCEPT ![h].pc = "reply", ![h].reply = "fail"]
    BY <1>3 DEF ReadPid, Goto, Answer
  <2>2. /\ req'[h].op = req[h].op /\ req'[h].id = req[h].id
        /\ req'[h].pc \in {"spawn", "reply"} /\ req'[h].root = req[h].root
        /\ req'[h].targets = req[h].targets
    BY <1>1, <2>1 DEF Request
  <2> QED BY <1>1, <2>2, ScopeKept
<1> QED BY <1>2, <1>3

(* The steps that only move a handler on.                                  *)
LEMMA MoveScope ==
  ASSUME ScopeInv, ~Recycle, [Next]_vars, NEW h \in Handlers, agent' = agent,
         NEW pc, Goto(h, pc) \/ (pc = "reply" /\ \E reply : Answer(h, reply)),
         \/ pc \in {"initopen", "initput", "read"} /\ req[h].root = NoPid
         \/ ~ByIdOp(h) /\ pc = "reply"
         \/ req[h].pc = "signal" /\ req[h].todo = {} /\ pc = "wait"
         \/ /\ req[h].pc \in {"wait", "spawn", "setlast"}
            /\ pc \in {"spawn", "setlast", "reply"}
         \/ ~Live(req[h].root) /\ pc \in {"spawn", "reply"}
  PROVE  ScopeOf(h)'
<1>1. req[h] \in Request /\ req \in [Handlers -> Request]
  BY DEF ScopeInv, BasicInv, TypeOK
<1>2. /\ req'[h].op = req[h].op /\ req'[h].id = req[h].id /\ req'[h].root = req[h].root
      /\ req'[h].pc = pc /\ req'[h].targets = req[h].targets
  BY <1>1 DEF Request, Goto, Answer
<1> QED BY <1>2, ScopeKept

(* A step of a handler keeps the scope of its own request.                 *)
LEMMA HandlerScope ==
  ASSUME ScopeInv, ~Recycle, NEW h \in Handlers, Handle(h)
  PROVE  ScopeOf(h)'
<1> USE DEF At
<1>1. /\ RootOf(h) /\ req[h] \in Request /\ req \in [Handlers -> Request]
      /\ agent' = agent /\ [Next]_vars
  BY ScopeOfAll
     DEF ScopeOf, ScopeInv, BasicInv, TypeOK, Next, Handle, CheckFile, InitOpen,
         InitPut, ReadInfo, ReadPid, SnapshotTree, SnapshotFails, Signal, SignalsSent,
         WaitGone, WaitTimeout, WaitDone, Spawn, SpawnFails, SetLast, Respond
<1>2. CASE CheckFile(h) \/ InitOpen(h) \/ InitPut(h)
  BY <1>1, <1>2, MoveScope DEF CheckFile, InitOpen, InitPut, RootOf
<1>3. CASE ReadInfo(h)
  BY <1>1, <1>3, MoveScope DEF ReadInfo, ByIdOp
<1>4. CASE SnapshotFails(h)
  <2>1. ~Live(req[h].root)
    BY <1>4 DEF SnapshotFails, Exists, Live
  <2> QED BY <1>1, <1>4, <2>1, MoveScope DEF SnapshotFails
<1>5. CASE SignalsSent(h)
  BY <1>1, <1>5, MoveScope DEF SignalsSent
<1>6. CASE WaitGone(h) \/ WaitTimeout(h)
  BY <1>1, <1>6, MoveScope DEF WaitGone, WaitTimeout, WaitDone
<1>7. CASE SpawnFails(h) \/ SetLast(h)
  BY <1>1, <1>7, MoveScope DEF SpawnFails, SetLast
<1>8. CASE Spawn(h)
  <2>1. PICK p \in FreePids : req'[h] = [Forgetting(req[h], p) EXCEPT !.pc = "setlast"]
    BY <1>8 DEF Spawn
  <2>2. /\ req'[h].op = req[h].op /\ req'[h].id = req[h].id /\ req'[h].root = req[h].root
        /\ req'[h].pc = "setlast" /\ req[h].pc = "spawn"
        /\ req'[h].targets = req[h].targets \ {p}
    BY <1>1, <1>8, <2>1 DEF Forgetting, Request, Spawn
  <2> QED BY <1>1, <2>2, ScopeKept
<1>9. CASE Respond(h)
  BY <1>1, <1>9, IdleScope DEF Respond
<1> QED
  BY <1>2, <1>3, <1>4, <1>5, <1>6, <1>7, <1>8, <1>9, SignalScope, ReadScope, SnapshotScope
     DEF Handle

(* A request that arrives has no targets and, if it is by id, no root.     *)
LEMMA AcceptScope ==
  ASSUME ScopeInv, NEW h \in Handlers, Accept(h)
  PROVE  ScopeOf(h)'
<1>1. req \in [Handlers -> Request]
  BY DEF ScopeInv, BasicInv, TypeOK
<1>2. PICK r : /\ Receive(h, r) /\ r.targets = {}
               /\ r.root = NoPid \/ (r.op = "stopAll" /\ r.pc = "snapshot")
  <2> USE DEF Asking
  <2>1. CASE ReceiveStart(h)
    <3>1. PICK id \in Ids, n \in 1..MaxCmds :
            Receive(h, Asking("start", id, n, "read", NoPid, "none"))
      BY <2>1 DEF ReceiveStart
    <3> QED BY <3>1
  <2>2. CASE ReceiveEmptyStart(h)
    <3>1. PICK id \in Ids : Receive(h, Asking("start", id, 0, "reply", NoPid, "rejected"))
      BY <2>2 DEF ReceiveEmptyStart
    <3> QED BY <3>1
  <2>3. CASE ReceiveById(h)
    <3>1. PICK op \in {"stop", "info"}, id \in Ids :
            Receive(h, Asking(op, id, 0, "read", NoPid, "none"))
      BY <2>3 DEF ReceiveById
    <3> QED BY <3>1
  <2>4. CASE ReceiveInfoLast(h)
    BY <2>4 DEF ReceiveInfoLast
  <2>5. CASE ReceiveStopAll(h)
    BY <2>5 DEF ReceiveStopAll
  <2> QED BY <2>1, <2>2, <2>3, <2>4, <2>5 DEF Accept
<1>3. req'[h] = r
  BY <1>1, <1>2 DEF Receive
<1> QED BY <1>2, <1>3 DEF ScopeOf, RootOf, TargetsOf, FateOf, ByIdOp, RootRuns

(* Every step keeps the invariant.                                         *)
LEMMA ScopeNext ==
  ASSUME ScopeInv, ~Recycle, [Next]_vars
  PROVE  ScopeInv'
<1>1. req \in [Handlers -> Request]
  BY DEF ScopeInv, BasicInv, TypeOK
<1>2. BasicInv' /\ ProcessesAreSound' /\ FamilyIsSound' /\ FilesAreSound'
  BY BasicNext, ProcessesNext, FamilyNext, FilesNext DEF ScopeInv
<1>3. ASSUME NEW g \in Handlers PROVE ScopeOf(g)'
  <2>1. CASE UNCHANGED vars
    BY <2>1, OtherScope DEF vars
  <2>2. ASSUME NEW h \in Handlers, Accept(h) PROVE ScopeOf(g)'
    <3>1. CASE g = h
      BY <2>2, <3>1, AcceptScope
    <3>2. CASE g # h
      <4>1. req'[g] = req[g] /\ agent' = agent
        BY <1>1, <2>2, <3>2
           DEF Accept, ReceiveStart, ReceiveEmptyStart, ReceiveById, ReceiveInfoLast,
               ReceiveStopAll, Receive
      <4> QED BY <4>1, OtherScope
    <3> QED BY <3>1, <3>2
  <2>3. ASSUME NEW h \in Handlers, Handle(h) PROVE ScopeOf(g)'
    <3>1. CASE g = h
      BY <2>3, <3>1, HandlerScope
    <3>2. CASE g # h /\ ~Spawn(h)
      <4>1. req'[g] = req[g] /\ agent' = agent
        BY <1>1, <2>3, <3>2
           DEF Handle, CheckFile, InitOpen, InitPut, ReadInfo, ReadPid, SnapshotTree,
               SnapshotFails, Signal, SignalsSent, WaitGone, WaitTimeout, WaitDone,
               SpawnFails, SetLast, Respond, Goto, Answer
      <4> QED BY <4>1, OtherScope
    <3>3. CASE g # h /\ Spawn(h)
      <4>1. PICK p \in FreePids : req'[g] = [Forgetting(req[g], p) EXCEPT !.pc = @]
        BY <3>3 DEF Spawn
      <4>2. req'[g] = Forgetting(req[g], p)
        BY <1>1, <4>1 DEF Forgetting, Request
      <4>3. agent' = agent
        BY <3>3 DEF Spawn
      <4> QED BY <4>2, <4>3, OtherScope
    <3> QED BY <3>1, <3>2, <3>3
  <2>4. ASSUME NEW p \in Pids, RunnerStep(p) \/ ShellExits(p) PROVE ScopeOf(g)'
    <3>1. \/ req'[g] = req[g]
          \/ \E s \in FreePids : req'[g] = Forgetting(req[g], s)
      BY <2>4 DEF RunnerStep, RunnerOpens, RunnerWrites, RunnerForks, RunnerAborts,
                  RunnerResumes, RunnerExits, ShellExits
    <3>2. agent' = agent
      BY <2>4 DEF RunnerStep, RunnerOpens, RunnerWrites, RunnerForks, RunnerAborts,
                  RunnerResumes, RunnerExits, ShellExits
    <3> QED BY <3>1, <3>2, OtherScope
  <2>5. CASE Crash
    BY <2>5, IdleScope DEF Crash
  <2>6. CASE Restart
    BY <2>6, IdleScope DEF Restart, ScopeInv, BasicInv, AgentIsAlive
  <2> QED BY <2>1, <2>2, <2>3, <2>4, <2>5, <2>6 DEF Next
<1>4. RootsAreSound' /\ TargetsAreSound' /\ RootIsPending' /\ KilledRunIsDead'
  <2>1. (\A h \in Handlers : ScopeOf(h))'
    BY <1>3
  <2> QED BY <2>1, ScopeOfAll, PTL
<1> QED BY <1>2, <1>4 DEF ScopeInv

(* The invariant holds when the agent has started.                         *)
LEMMA ScopeInit ==
  ASSUME Init
  PROVE  ScopeInv
<1>1. BasicInv
  BY BasicInit
<1>2. PICK a \in Pids : agent = a /\ proc = [q \in Pids |-> IF q = a THEN AgentProcess ELSE Unborn]
  BY DEF Init
<1>3. ProcessesAreSound /\ FamilyIsSound
  BY <1>2 DEF ProcessesAreSound, FamilyIsSound, AgentProcess, Unborn, Exists
<1>4. FilesAreSound
  BY DEF Init, FilesAreSound, Parses, Parsed, NoFile
<1>5. RootsAreSound /\ TargetsAreSound /\ RootIsPending /\ KilledRunIsDead
  BY DEF Init, RootsAreSound, TargetsAreSound, RootIsPending, KilledRunIsDead, Idle, Asking
<1> QED BY <1>1, <1>3, <1>4, <1>5 DEF ScopeInv

(* On a kernel that does not recycle pids, the invariant that ties files,  *)
(* roots and targets to the id they belong to holds for ever.              *)
THEOREM ScopeInvariance == ASSUME ~Recycle PROVE Spec => []ScopeInv
<1>1. ScopeInv /\ [Next]_vars => ScopeInv'
  BY ScopeNext
<1> QED BY <1>1, ScopeInit, PTL DEF Spec

(* A stop or a restart by id only ever signals processes of that id, for   *)
(* any number of requests, runs, crashes and restarts of the agent, unless *)
(* the file of the id names the agent itself (kill_proc_tree and the pid   *)
(* of cmd_info_<id>.json).                                                 *)
THEOREM StopsStayInScope == ASSUME ~Recycle PROVE Spec => []StopScope
<1>1. ScopeInv => StopScope
  BY DEF ScopeInv, TargetsAreSound, StopScope
<1> QED BY <1>1, ScopeInvariance, PTL

(* When a start launches its runner, and when a stop by id answers, the    *)
(* run that the file named is dead, whatever its commands do with SIGTERM. *)
THEOREM RestartsKillTheOldRun == ASSUME ~Recycle PROVE Spec => []KilledRunIsDead
<1>1. ScopeInv => KilledRunIsDead
  BY DEF ScopeInv
<1> QED BY <1>1, ScopeInvariance, PTL

---------------------------------------------------------------------------
(* Files, and what they say of the runs.                                   *)

(* The steps of a runner that has written its last record.                 *)
Ending == {"exit", "exited", "killed"}

(* A runner that is about to exit has nothing left to write.               *)
ExitIsClean ==
  \A p \in Pids : proc[p].kind = "runner" /\ proc[p].at = "exit" => ~proc[p].opened

(* A runner whose shell exists waits for it.                               *)
ShellsAreAwaited ==
  \A p, q \in Pids :
     Exists(q) /\ proc[q].parent = p /\ proc[p].kind = "runner" => proc[p].at = "wait"

(* What a file says of the run that it names: a run that the file calls    *)
(* finished has nothing left to do but exit, and a run that is about to    *)
(* exit, or has, is not called started.                                    *)
RecordsAreTrue ==
  \A id \in Ids :
     LET p == file[id].pid IN
     /\ file[id].st = "finished" => proc[p].kind = "runner" /\ proc[p].at \in Ending
     /\ file[id].st = "started" /\ proc[p].kind = "runner" =>
           proc[p].at \notin {"exit", "exited"}

(* The run of a start that has still to set the last id was launched.      *)
LaunchesAreSound ==
  \A h \in Handlers : At(h, "setlast") => Runs(req[h].id) # {}

RunsInv ==
  /\ ScopeInv
  /\ ExitIsClean
  /\ ShellsAreAwaited
  /\ RecordsAreTrue
  /\ EmptyFileHasWriter
  /\ LaunchesAreSound
  /\ LastWasLaunched

---------------------------------------------------------------------------
(* The steps of the runners.                                               *)

(* What any step does to the step that the runner p is at.                 *)
StepKept(p) == proc'[p].at = proc[p].at /\ proc'[p].opened = proc[p].opened

Killed(p) ==
  /\ proc'[p].at = "killed"
  /\ ~proc'[p].opened
  /\ \A q \in Pids : proc'[q].parent # p

(* The end of a process is the killing of it and leaves others' steps.     *)
LEMMA FateEnded ==
  ASSUME ScopeInv, NEW p \in Pids, NEW q \in Pids, proc[p].kind = "runner",
         NEW how, proc' = Ended(q, how), q = p => how = "killed"
  PROVE  StepKept(p) \/ Killed(p)
<1>1. TypeOK
  BY DEF ScopeInv, BasicInv
<1>2. CASE p # q
  BY <1>1, <1>2, EndedOther DEF StepKept
<1>3. CASE p = q
  <2>1. proc'[p].at = "killed" /\ ~proc'[p].opened
    BY <1>3, EndedSelf
  <2>2. agent # p /\ p # Reaper
    BY <1>1, Constants DEF ScopeInv, BasicInv, AgentIsAlive
  <2>3. ASSUME NEW r \in Pids PROVE proc'[r].parent # p
    <3>1. CASE r = p
      BY <1>3, <2>2, <3>1, EndedSelf
    <3>2. CASE r # p
      <4>1. proc'[r].parent = IF proc[r].parent = p THEN Reaper ELSE proc[r].parent
        BY <1>1, <1>3, <3>2, EndedOther
      <4> QED BY <2>2, <4>1
    <3> QED BY <3>1, <3>2
  <2> QED BY <2>1, <2>3 DEF Killed
<1> QED BY <1>2, <1>3

(* A step keeps the step of a runner, kills it, or is its own.             *)
LEMMA RunnerFate ==
  ASSUME ScopeInv, ~Recycle, [Next]_vars, NEW p \in Pids, proc[p].kind = "runner"
  PROVE  StepKept(p) \/ Killed(p) \/ RunnerStep(p)
<1>1. TypeOK /\ proc[p].st # "unused" /\ (agent # NoPid => agent # p)
  BY DEF ScopeInv, BasicInv, ProcessesAreSound, AgentIsAlive
<1>2. ASSUME proc' = proc PROVE StepKept(p)
  BY <1>2 DEF StepKept
<1>3. ASSUME NEW h \in Handlers, Handle(h) PROVE StepKept(p) \/ Killed(p)
  <2>1. CASE Spawn(h)
    <3>1. PICK s \in FreePids :
            proc' = [Reaped(Pids) EXCEPT ![s] = Runner(req[h].id, req[h].n)]
      BY <2>1 DEF Spawn
    <3>2. s # p
      BY <1>1, FreeIsUnused
    <3>3. proc'[p] = Reaped(Pids)[p]
      BY <1>1, <3>1, <3>2, ReapedType
    <3> QED BY <1>1, <3>3, ReapedFields DEF StepKept
  <2>2. CASE SpawnFails(h) \/ WaitGone(h) \/ WaitTimeout(h)
    BY <1>1, <1>2, <2>2, ReapedFields
       DEF StepKept, SpawnFails, WaitGone, WaitTimeout, WaitDone
  <2>3. CASE Signal(h)
    <3>1. PICK q \in Pids : proc' = proc \/ proc' = Ended(q, "killed")
      BY <2>3 DEF Signal
    <3>2. CASE proc' = Ended(q, "killed")
      BY <3>2, FateEnded
    <3> QED BY <1>2, <3>1, <3>2
  <2>4. CASE ~(Spawn(h) \/ SpawnFails(h) \/ WaitGone(h) \/ WaitTimeout(h) \/ Signal(h))
    <3>1. proc' = proc
      BY <1>3, <2>4
         DEF Handle, CheckFile, InitOpen, InitPut, ReadInfo, ReadPid, SnapshotTree,
             SnapshotFails, SignalsSent, SetLast, Respond
    <3> QED BY <1>2, <3>1
  <2> QED BY <2>1, <2>2, <2>3, <2>4
<1>4. ASSUME NEW q \in Pids, RunnerStep(q), q # p PROVE StepKept(p) \/ Killed(p)
  <2>1. CASE RunnerAborts(q) \/ RunnerExits(q)
    BY <1>4, <2>1, FateEnded DEF RunnerAborts, RunnerExits
  <2>2. CASE RunnerOpens(q) \/ RunnerWrites(q) \/ RunnerResumes(q)
    <3>1. proc'[p] = proc[p]
      BY <1>1, <1>4, <2>2 DEF RunnerOpens, RunnerWrites, RunnerResumes, TypeOK
    <3> QED BY <3>1 DEF StepKept
  <2>3. CASE RunnerForks(q)
    <3>1. PICK s \in FreePids, ignoresTerm \in {FALSE, Stubborn} :
            proc' = [proc EXCEPT ![q].at = "wait", ![s] = Shell(q, ignoresTerm)]
      BY <2>3 DEF RunnerForks
    <3>2. s # p
      BY <1>1, FreeIsUnused
    <3>3. proc'[p] = proc[p]
      BY <1>1, <1>4, <3>1, <3>2 DEF TypeOK
    <3> QED BY <3>3 DEF StepKept
  <2> QED BY <1>4, <2>1, <2>2, <2>3 DEF RunnerStep
<1>5. ASSUME NEW q \in Pids, ShellExits(q) PROVE StepKept(p) \/ Killed(p)
  BY <1>5, FateEnded DEF ShellExits
<1>6. CASE Crash
  <2>1. p # agent
    BY <1>1, <1>6 DEF Crash
  <2> QED BY <1>1, <1>6, <2>1 DEF Crash, StepKept, TypeOK, Process
<1>7. CASE Restart
  <2>1. PICK s \in FreePids : proc' = [proc EXCEPT ![s] = AgentProcess]
    BY <1>7 DEF Restart
  <2>2. s # p
    BY <1>1, FreeIsUnused
  <2> QED BY <1>1, <2>1, <2>2 DEF StepKept, TypeOK
<1>8. ASSUME NEW h \in Handlers, Accept(h) PROVE proc' = proc
  BY <1>8 DEF Accept, ReceiveStart, ReceiveEmptyStart, ReceiveById, ReceiveInfoLast,
              ReceiveStopAll, Receive
<1>9. CASE UNCHANGED vars
  BY <1>2, <1>9 DEF vars
<1> QED BY <1>2, <1>3, <1>4, <1>5, <1>6, <1>7, <1>8, <1>9 DEF Next

(* A run is a run of its id ever after.                                    *)
LEMMA RunPersists ==
  ASSUME ScopeInv, ~Recycle, [Next]_vars, NEW p \in Pids, proc[p].kind = "runner"
  PROVE  proc'[p].kind = "runner" /\ proc'[p].cid = proc[p].cid
<1>1. proc[p].st # "unused"
  BY DEF ScopeInv, ProcessesAreSound
<1>2. EntryKept(p)
  BY <1>1, Entries DEF EntryCreated, EntryUnused
<1> QED BY <1>2 DEF EntryKept

(* The end of a process brings none to life.                               *)
LEMMA StillNotLive ==
  ASSUME TypeOK, NEW p \in Pids, NEW q \in Pids, proc[p].st = "unused"
  PROVE  /\ Ended(q, "exited")[p].st # "live"
         /\ Ended(q, "killed")[p].st # "live"
<1>1. CASE p = q
  BY <1>1, EndedSelf
<1>2. CASE p # q
  BY <1>2, EndedOther
<1> QED BY <1>1, <1>2

(* A shell that comes into being is that of a runner that now waits for    *)
(* it; a runner that does has its first record to write.                   *)
ShellStarts(p) ==
  proc'[p].kind = "shell" /\ \E q \in Pids : proc'[p].parent = q /\ proc'[q].at = "wait"
OtherStarts(p) == proc'[p].kind # "shell" /\ proc'[p].at \in {"schedule", "none"}

LEMMA Newborn ==
  ASSUME ScopeInv, ~Recycle, [Next]_vars, NEW p \in Pids, EntryCreated(p)
  PROVE  ShellStarts(p) \/ OtherStarts(p)
<1>1. TypeOK /\ proc[p].st = "unused" /\ proc'[p].st = "live"
  BY DEF EntryCreated, ScopeInv, BasicInv
<1>2. ASSUME NEW q \in Pids, RunnerForks(q)
      PROVE  ShellStarts(p)
  <2>1. PICK s \in FreePids, ignoresTerm \in {FALSE, Stubborn} :
          proc' = [proc EXCEPT ![q].at = "wait", ![s] = Shell(q, ignoresTerm)]
    BY <1>2 DEF RunnerForks
  <2>2. s \in Pids /\ s # q
    BY <1>2, FreeIsUnused DEF RunnerForks, IsRunnerAt, Live
  <2>3. p = s
    <3>1. p # s => proc'[p].st = proc[p].st
      BY <1>1, <2>1, <2>2 DEF TypeOK, Process
    <3> QED BY <1>1, <3>1
  <2>4. proc'[p].parent = q /\ proc'[q].at = "wait"
    BY <1>1, <2>1, <2>2, <2>3 DEF TypeOK, Process, Shell
  <2>5. proc'[p].kind = "shell"
    BY <1>1, <2>1, <2>2, <2>3 DEF TypeOK, Shell
  <2> QED BY <2>4, <2>5 DEF ShellStarts
<1>3. ASSUME NEW h \in Handlers, Handle(h) PROVE OtherStarts(p)
  <2>1. CASE Spawn(h)
    <3>1. PICK s \in FreePids :
            proc' = [Reaped(Pids) EXCEPT ![s] = Runner(req[h].id, req[h].n)]
      BY <2>1 DEF Spawn
    <3>2. CASE p = s
      BY <1>1, <3>1, <3>2, ReapedType DEF Runner, OtherStarts
    <3>3. CASE p # s
      <4>1. proc'[p] = Reaped(Pids)[p]
        BY <1>1, <3>1, <3>3, ReapedType DEF FreePids
      <4> QED BY <1>1, <4>1, ReapedFields
    <3> QED BY <3>2, <3>3
  <2>2. CASE SpawnFails(h) \/ WaitGone(h) \/ WaitTimeout(h)
    BY <1>1, <2>2, ReapedFields DEF SpawnFails, WaitGone, WaitTimeout, WaitDone
  <2>3. CASE Signal(h)
    <3>1. PICK q \in Pids : proc' = proc \/ proc' = Ended(q, "killed")
      BY <2>3 DEF Signal
    <3>2. proc'[p].st # "live"
      BY <1>1, <3>1, StillNotLive
    <3> QED BY <1>1, <3>2
  <2>4. CASE ~(Spawn(h) \/ SpawnFails(h) \/ WaitGone(h) \/ WaitTimeout(h) \/ Signal(h))
    <3>1. proc' = proc
      BY <1>3, <2>4
         DEF Handle, CheckFile, InitOpen, InitPut, ReadInfo, ReadPid, SnapshotTree,
             SnapshotFails, SignalsSent, SetLast, Respond
    <3> QED BY <1>1, <3>1
  <2> QED BY <2>1, <2>2, <2>3, <2>4
<1>4. ASSUME NEW q \in Pids, RunnerStep(q) \/ ShellExits(q), ~RunnerForks(q) PROVE FALSE
  <2>1. CASE RunnerAborts(q) \/ RunnerExits(q) \/ ShellExits(q)
    <3>1. PICK how \in {"exited", "killed"} : proc' = Ended(q, how)
      BY <2>1 DEF RunnerAborts, RunnerExits, ShellExits
    <3>2. proc'[p].st # "live"
      BY <1>1, <3>1, StillNotLive
    <3> QED BY <1>1, <3>2
  <2>2. CASE RunnerOpens(q) \/ RunnerWrites(q) \/ RunnerResumes(q)
    <3>1. proc'[p].st = proc[p].st
      BY <1>1, <2>2 DEF RunnerOpens, RunnerWrites, RunnerResumes, TypeOK, Process
    <3> QED BY <1>1, <3>1
  <2> QED BY <1>4, <2>1, <2>2 DEF RunnerStep
<1>5. ASSUME Crash PROVE FALSE
  <2>1. CASE p = agent
    BY <1>1, <1>5, <2>1 DEF Crash, ScopeInv, BasicInv, AgentIsAlive, Live
  <2>2. CASE p # agent /\ proc[p].parent = agent
    BY <1>1, <1>5, <2>2 DEF Crash, TypeOK, Process
  <2>3. CASE p # agent /\ proc[p].parent # agent
    BY <1>1, <1>5, <2>3 DEF Crash
  <2> QED BY <2>1, <2>2, <2>3
<1>6. ASSUME Restart PROVE OtherStarts(p)
  BY <1>1, <1>6 DEF Restart, TypeOK, AgentProcess, OtherStarts
<1>7. ASSUME NEW h \in Handlers, Accept(h) PROVE FALSE
  BY <1>1, <1>7 DEF Accept, ReceiveStart, ReceiveEmptyStart, ReceiveById, ReceiveInfoLast,
                    ReceiveStopAll, Receive
<1>8. CASE UNCHANGED vars
  BY <1>1, <1>8 DEF vars
<1> QED BY <1>2, <1>3, <1>4, <1>5, <1>6, <1>7, <1>8 DEF Next

(* Every step keeps runners with shells waiting.                           *)
LEMMA AwaitedNext ==
  ASSUME RunsInv, ~Recycle, [Next]_vars
  PROVE  ShellsAreAwaited'
<1> SUFFICES ASSUME NEW p \in Pids, NEW q \in Pids,
                    Exists(q)', proc'[q].parent = p, proc'[p].kind = "runner"
             PROVE  proc'[p].at = "wait"
  BY DEF ShellsAreAwaited
<1>1. ScopeInv /\ TypeOK /\ p # Reaper /\ FamilyIsSound'
  BY ScopeNext, Constants DEF RunsInv, ScopeInv, BasicInv
<1>2. CASE EntryCreated(q)
  <2>1. proc'[q].kind = "shell"
    BY <1>1 DEF FamilyIsSound
  <2> QED BY <1>1, <1>2, <2>1, Newborn DEF ShellStarts, OtherStarts
<1>3. CASE EntryKept(q)
  <2>1. Exists(q) /\ proc[q].parent = p
    BY <1>1, <1>3 DEF EntryKept
  <2>2. proc[p].kind = "runner"
    <3>1. MayBeNamedBy(proc[p].cid, p) \/ proc[p].kind # "agent"
      BY DEF MayBeNamedBy
    <3>2. proc[p].kind \in {"agent", "runner"} /\ proc[p].kind # "none"
      BY <1>1, <2>1 DEF ScopeInv, FamilyIsSound
    <3>3. proc'[p].kind = proc[p].kind
      BY <1>1, <3>1, <3>2, NamesPersist DEF MayBeNamedBy
    <3> QED BY <3>3
  <2>3. proc[p].at = "wait"
    BY <2>1, <2>2 DEF RunsInv, ShellsAreAwaited
  <2>4. ~Killed(p)
    BY DEF Killed
  <2>5. CASE RunnerStep(p)
    <3>1. Children(p) # {}
      BY <2>1 DEF Children
    <3> QED BY <2>3, <2>5, <3>1
         DEF RunnerStep, RunnerOpens, RunnerWrites, RunnerForks, RunnerAborts,
             RunnerResumes, RunnerExits, IsRunnerAt, WritingSteps
  <2> QED BY <1>1, <2>2, <2>3, <2>4, <2>5, RunnerFate DEF StepKept
<1>4. CASE EntryUnused(q)
  BY <1>1, <1>4 DEF EntryUnused, ScopeInv, ProcessesAreSound, Exists
<1> QED BY <1>1, <1>2, <1>3, <1>4, Entries

---------------------------------------------------------------------------
(* The files.                                                              *)

(* What any step does to the file of an id.                                *)
Opened(id) ==
  /\ file'[id] = EmptyFile
  /\ \/ \E h \in Handlers : req'[h].id = id /\ req'[h].pc = "initput"
     \/ \E p \in Pids : RunnerOpens(p) /\ proc[p].cid = id

Recorded(id) ==
  \E p \in Pids, at \in WritingSteps :
     /\ proc[p].kind = "runner" /\ proc[p].cid = id /\ proc[p].at = at
     /\ proc'[p].at = StepAfter(at, proc[p].left)
     /\ file'[id] = [st |-> IF at = "final" THEN "finished" ELSE "started", pid |-> p]

(* A write of an open file leaves a record, or what does not parse.        *)
LEMMA PutFate ==
  ASSUME TypeOK, NEW i \in Ids, NEW status, NEW pid, Put(i, status, pid)
  PROVE  /\ file'[i] \in {MixedFile, [st |-> status, pid |-> pid]}
         /\ \A id \in Ids : id # i => file'[id] = file[id]
BY DEF Put, TypeOK

(* A step leaves a file alone, empties it, or writes it: a runner its      *)
(* records, the agent its initial one.                                     *)
LEMMA FileFate ==
  ASSUME ScopeInv, [Next]_vars, NEW id \in Ids
  PROVE  file'[id] = file[id] \/ Opened(id) \/ Recorded(id) \/ file'[id].st \in {"mixed", "init"}
<1>1. TypeOK
  BY DEF ScopeInv, BasicInv
<1>2. ASSUME NEW h \in Handlers, Handle(h)
      PROVE  file'[id] = file[id] \/ Opened(id) \/ file'[id].st \in {"mixed", "init"}
  <2>1. CASE InitOpen(h)
    <3>1. /\ req'[h].id = req[h].id /\ req'[h].pc = "initput"
          /\ file' = [file EXCEPT ![req[h].id] = EmptyFile]
      BY <1>1, <2>1 DEF InitOpen, Goto, Truncate, TypeOK, Request
    <3>2. CASE id = req[h].id
      BY <1>1, <3>1, <3>2 DEF Opened, TypeOK
    <3>3. CASE id # req[h].id
      BY <1>1, <3>1, <3>3 DEF TypeOK
    <3> QED BY <3>2, <3>3
  <2>2. CASE InitPut(h)
    <3>1. req[h].id \in Ids /\ Put(req[h].id, "init", agent)
      BY <1>1, <2>2 DEF InitPut, TypeOK, Request
    <3> QED BY <1>1, <3>1, PutFate DEF MixedFile
  <2>3. CASE ~(InitOpen(h) \/ InitPut(h))
    <3>1. file' = file
      BY <1>2, <2>3
         DEF Handle, CheckFile, ReadInfo, ReadPid, SnapshotTree, SnapshotFails, Signal,
             SignalsSent, WaitGone, WaitTimeout, WaitDone, Spawn, SpawnFails, SetLast, Respond
    <3> QED BY <3>1
  <2> QED BY <2>1, <2>2, <2>3
<1>3. ASSUME NEW p \in Pids, RunnerStep(p)
      PROVE  file'[id] = file[id] \/ Opened(id) \/ Recorded(id) \/ file'[id].st = "mixed"
  <2>1. proc[p].cid \in Ids
    BY <1>1 DEF TypeOK, Process
  <2>2. CASE RunnerOpens(p)
    <3>1. file' = [file EXCEPT ![proc[p].cid] = EmptyFile]
      BY <2>2 DEF RunnerOpens, Truncate
    <3>2. CASE id = proc[p].cid
      BY <1>1, <2>2, <3>1, <3>2 DEF Opened, TypeOK
    <3>3. CASE id # proc[p].cid
      BY <1>1, <3>1, <3>3 DEF TypeOK
    <3> QED BY <3>2, <3>3
  <2>3. CASE RunnerWrites(p)
    <3>1. PICK at \in WritingSteps :
            /\ IsRunnerAt(p, at)
            /\ Put(proc[p].cid, IF at = "final" THEN "finished" ELSE "started", p)
            /\ proc' = [proc EXCEPT ![p].opened = FALSE, ![p].at = StepAfter(at, proc[p].left)]
      BY <2>3 DEF RunnerWrites
    <3>2. proc'[p].at = StepAfter(at, proc[p].left) /\ proc[p].kind = "runner" /\ proc[p].at = at
      BY <1>1, <3>1 DEF IsRunnerAt, TypeOK, Process
    <3>3. /\ file'[proc[p].cid] \in
                {MixedFile, [st |-> IF at = "final" THEN "finished" ELSE "started", pid |-> p]}
          /\ id # proc[p].cid => file'[id] = file[id]
      BY <1>1, <2>1, <3>1, PutFate
    <3> QED BY <3>2, <3>3 DEF MixedFile, Recorded
  <2>4. CASE ~(RunnerOpens(p) \/ RunnerWrites(p))
    <3>1. file' = file
      BY <1>3, <2>4 DEF RunnerStep, RunnerForks, RunnerAborts, RunnerResumes, RunnerExits
    <3> QED BY <3>1
  <2> QED BY <2>2, <2>3, <2>4
<1>4. CASE \/ UNCHANGED vars
           \/ \E h \in Handlers : Accept(h)
           \/ \E p \in Pids : ShellExits(p)
           \/ Crash \/ Restart
  <2>1. file' = file
    BY <1>4 DEF vars, Accept, ReceiveStart, ReceiveEmptyStart, ReceiveById, ReceiveInfoLast,
                ReceiveStopAll, Receive, ShellExits, Crash, Restart
  <2> QED BY <2>1
<1> QED BY <1>2, <1>3, <1>4 DEF Next

(* Where a step of its own takes a runner: only its last record takes it   *)
(* to its exit.                                                            *)
LEMMA OwnSteps ==
  ASSUME ScopeInv, NEW p \in Pids, RunnerStep(p)
  PROVE  /\ proc[p].at \notin {"exited", "killed"}
         /\ proc[p].at = "exit" => proc'[p].at = "exited" /\ file' = file
         /\ proc'[p].at = "exited" => proc[p].at = "exit"
         /\ proc'[p].at = "exit" =>
              ~proc'[p].opened /\ proc[p].at = "final" /\ RunnerWrites(p)
<1>1. TypeOK /\ proc[p] \in Process
  BY DEF ScopeInv, BasicInv, TypeOK
<1>2. CASE RunnerOpens(p)
  BY <1>1, <1>2 DEF RunnerOpens, IsRunnerAt, WritingSteps, TypeOK, Process
<1>3. CASE RunnerWrites(p)
  <2>1. PICK at \in WritingSteps :
          /\ IsRunnerAt(p, at)
          /\ proc' = [proc EXCEPT ![p].opened = FALSE, ![p].at = StepAfter(at, proc[p].left)]
    BY <1>3 DEF RunnerWrites
  <2>2. /\ proc[p].at = at /\ proc'[p].at = StepAfter(at, proc[p].left) /\ ~proc'[p].opened
    BY <1>1, <2>1 DEF IsRunnerAt, TypeOK, Process
  <2>3. StepAfter(at, proc[p].left) # "exited"
        /\ (StepAfter(at, proc[p].left) = "exit" => at = "final")
    BY DEF StepAfter, WritingSteps
  <2> QED BY <1>3, <2>2, <2>3 DEF WritingSteps
<1>4. CASE RunnerForks(p)
  <2>1. PICK s \in FreePids, ignoresTerm \in {FALSE, Stubborn} :
          proc' = [proc EXCEPT ![p].at = "wait", ![s] = Shell(p, ignoresTerm)]
    BY <1>4 DEF RunnerForks
  <2>2. proc[p].at = "shell"
    BY <1>4 DEF RunnerForks, IsRunnerAt
  <2>3. proc'[p].at \in {"wait", "none"}
    <3>1. CASE s = p
      BY <1>1, <2>1, <3>1 DEF TypeOK, Process, Shell
    <3>2. CASE s # p
      BY <1>1, <2>1, <3>2 DEF TypeOK, Process, FreePids
    <3> QED BY <3>1, <3>2
  <2> QED BY <2>2, <2>3
<1>5. CASE RunnerAborts(p)
  <2>1. proc[p].at = "shell" /\ proc'[p].at = "killed"
    BY <1>5, EndedSelf DEF RunnerAborts, IsRunnerAt
  <2> QED BY <2>1
<1>6. CASE RunnerResumes(p)
  BY <1>1, <1>6 DEF RunnerResumes, IsRunnerAt, TypeOK, Process
<1>7. CASE RunnerExits(p)
  <2>1. proc[p].at = "exit" /\ proc'[p].at = "exited" /\ file' = file
    BY <1>7, EndedSelf DEF RunnerExits, IsRunnerAt
  <2> QED BY <2>1
<1> QED BY <1>2, <1>3, <1>4, <1>5, <1>6, <1>7 DEF RunnerStep

(* Every step keeps a runner that is about to exit from writing.           *)
LEMMA ExitNext ==
  ASSUME RunsInv, ~Recycle, [Next]_vars
  PROVE  ExitIsClean'
<1> SUFFICES ASSUME NEW p \in Pids, proc'[p].kind = "runner", proc'[p].at = "exit"
             PROVE  ~proc'[p].opened
  BY DEF ExitIsClean
<1>1. ScopeInv /\ (proc[p].kind = "runner" /\ proc[p].at = "exit" => ~proc[p].opened)
  BY DEF RunsInv, ExitIsClean
<1>2. CASE EntryCreated(p)
  BY <1>1, <1>2, Newborn DEF ShellStarts, OtherStarts
<1>3. CASE EntryKept(p)
  <2>1. proc[p].kind = "runner"
    BY <1>3 DEF EntryKept
  <2> QED BY <1>1, <2>1, RunnerFate, OwnSteps DEF StepKept, Killed
<1>4. CASE EntryUnused(p)
  BY <1>1, <1>4 DEF EntryUnused
<1> QED BY <1>1, <1>2, <1>3, <1>4, Entries

(* Every step keeps the records of the files true.                         *)
LEMMA RecordsNext ==
  ASSUME RunsInv, ~Recycle, [Next]_vars
  PROVE  RecordsAreTrue'
<1> SUFFICES ASSUME NEW id \in Ids, NEW p, p = file'[id].pid,
                    file'[id].st \in {"finished", "started"}
             PROVE  /\ file'[id].st = "finished" =>
                          proc'[p].kind = "runner" /\ proc'[p].at \in Ending
                    /\ file'[id].st = "started" /\ proc'[p].kind = "runner" =>
                          proc'[p].at \notin {"exit", "exited"}
  BY DEF RecordsAreTrue
<1>1. ScopeInv /\ TypeOK
  BY DEF RunsInv, ScopeInv, BasicInv
<1>2. CASE file'[id] = file[id]
  <2>1. Parses(id) /\ p = file[id].pid /\ p \in Pids
    BY <1>1, <1>2 DEF Parses, Parsed, TypeOK, FileRecord
  <2>2. MayBeNamedBy(id, p) /\ proc'[p].kind = proc[p].kind
    <3>1. MayBeNamedBy(id, p)
      BY <1>1, <2>1 DEF ScopeInv, FilesAreSound
    <3> QED BY <1>1, <2>1, <3>1, NamesPersist
  <2>3. /\ file[id].st = "finished" => proc[p].kind = "runner" /\ proc[p].at \in Ending
        /\ file[id].st = "started" /\ proc[p].kind = "runner" =>
              proc[p].at \notin {"exit", "exited"}
    BY <2>1 DEF RunsInv, RecordsAreTrue
  <2>4. CASE proc[p].kind = "runner" /\ ~RunnerStep(p)
    <3>1. StepKept(p) \/ Killed(p)
      BY <1>1, <2>1, <2>4, RunnerFate
    <3> QED BY <1>2, <2>2, <2>3, <2>4, <3>1 DEF StepKept, Killed, Ending
  <2>5. CASE proc[p].kind = "runner" /\ RunnerStep(p)
    <3>1. /\ proc[p].at \notin {"exited", "killed"}
          /\ proc[p].at = "exit" => proc'[p].at = "exited"
          /\ proc'[p].at = "exited" => proc[p].at = "exit"
          /\ proc'[p].at = "exit" => proc[p].at = "final" /\ RunnerWrites(p)
      BY <1>1, <2>1, <2>5, OwnSteps
    <3>2. CASE file[id].st = "finished"
      BY <1>2, <2>2, <2>3, <2>5, <3>1, <3>2 DEF Ending
    <3>3. CASE file[id].st = "started" /\ proc'[p].at # "exit"
      BY <1>2, <2>3, <2>5, <3>1, <3>3
    <3>4. CASE file[id].st = "started" /\ proc'[p].at = "exit"
      <4>1. proc[p].cid = id /\ proc[p].at = "final" /\ RunnerWrites(p)
        BY <2>2, <2>5, <3>1, <3>4 DEF MayBeNamedBy
      <4>2. Put(id, "finished", p)
        BY <4>1 DEF RunnerWrites, IsRunnerAt
      <4>3. file'[id] \in {MixedFile, [st |-> "finished", pid |-> p]}
        BY <1>1, <4>2, PutFate
      <4> QED BY <1>2, <3>4, <4>3 DEF MixedFile
    <3> QED BY <1>2, <3>2, <3>3, <3>4
  <2>6. CASE proc[p].kind # "runner"
    BY <1>2, <2>2, <2>3, <2>6
  <2> QED BY <2>4, <2>5, <2>6
<1>3. CASE Recorded(id)
  <2>1. PICK q \in Pids, at \in WritingSteps :
          /\ proc[q].kind = "runner" /\ proc[q].cid = id /\ proc[q].at = at
          /\ proc'[q].at = StepAfter(at, proc[q].left)
          /\ file'[id] = [st |-> IF at = "final" THEN "finished" ELSE "started", pid |-> q]
    BY <1>3 DEF Recorded
  <2>2. p = q /\ (file'[id].st = "finished" <=> at = "final")
    BY <2>1
  <2>3. proc'[p].kind = "runner"
    BY <1>1, <2>1, <2>2, RunPersists
  <2>4. /\ at = "final" => StepAfter(at, proc[q].left) = "exit"
        /\ at # "final" => StepAfter(at, proc[q].left) \notin {"exit", "exited"}
    BY DEF StepAfter, WritingSteps
  <2> QED BY <2>1, <2>2, <2>3, <2>4 DEF Ending
<1>4. ~Opened(id)
  BY DEF Opened, EmptyFile
<1> QED BY <1>1, <1>2, <1>3, <1>4, FileFate

(* The writer of an empty file, or what is left of it.                     *)
RunnerOwes(id, p) ==
  proc[p].kind = "runner" /\ proc[p].cid = id /\ (proc[p].opened \/ proc[p].at = "killed")

HandlerOwes(id, h) == req[h].id = id /\ At(h, "initput")

AgentDied(p) == proc[p].kind = "agent" /\ ~Live(p)

LEMMA WritersOfEmpty ==
  EmptyFileHasWriter <=>
    \A id \in Ids : file[id].st = "empty" =>
       \/ \E p \in Pids : RunnerOwes(id, p)
       \/ \E h \in Handlers : HandlerOwes(id, h)
       \/ \E p \in Pids : AgentDied(p)
BY DEF EmptyFileHasWriter, RunnerOwes, HandlerOwes, AgentDied

(* A runner that owes the file of its id a record writes it or is killed.  *)
LEMMA RunnerStillOwes ==
  ASSUME RunsInv, ~Recycle, [Next]_vars, NEW id \in Ids, NEW p \in Pids,
         RunnerOwes(id, p), file'[id] = file[id], file[id].st = "empty"
  PROVE  RunnerOwes(id, p)'
<1>1. ScopeInv /\ TypeOK /\ proc[p].kind = "runner" /\ proc[p].cid = id
  BY DEF RunsInv, ScopeInv, BasicInv, RunnerOwes
<1>2. proc'[p].kind = "runner" /\ proc'[p].cid = id
  BY <1>1, RunPersists
<1>3. CASE StepKept(p) \/ Killed(p)
  BY <1>2, <1>3 DEF StepKept, Killed, RunnerOwes
<1>4. CASE RunnerStep(p)
  <2>1. proc[p].opened /\ proc[p].at # "exit"
    BY <1>1, <1>4, OwnSteps DEF RunnerOwes, RunsInv, ExitIsClean
  <2>2. CASE RunnerForks(p)
    <3>1. PICK s \in FreePids, ignoresTerm \in {FALSE, Stubborn} :
            proc' = [proc EXCEPT ![p].at = "wait", ![s] = Shell(p, ignoresTerm)]
      BY <2>2 DEF RunnerForks
    <3>2. s # p
      BY <1>1, FreeIsUnused DEF ScopeInv, ProcessesAreSound
    <3>3. proc'[p].opened = proc[p].opened
      BY <1>1, <3>1, <3>2 DEF TypeOK, Process
    <3> QED BY <1>2, <2>1, <3>3 DEF RunnerOwes
  <2>3. CASE RunnerAborts(p)
    <3>1. proc'[p].at = "killed"
      BY <2>3, EndedSelf DEF RunnerAborts
    <3> QED BY <1>2, <3>1 DEF RunnerOwes
  <2>4. CASE RunnerResumes(p)
    <3>1. proc'[p].opened = proc[p].opened
      BY <1>1, <2>4 DEF RunnerResumes, TypeOK, Process
    <3> QED BY <1>2, <2>1, <3>1 DEF RunnerOwes
  <2>5. ~RunnerWrites(p)
    <3> SUFFICES ASSUME RunnerWrites(p) PROVE FALSE
      OBVIOUS
    <3>1. PICK status \in {"started", "finished"} : Put(id, status, p)
      BY <1>1 DEF RunnerWrites
    <3>2. file'[id] \in {MixedFile, [st |-> status, pid |-> p]}
      BY <1>1, <3>1, PutFate
    <3> QED BY <3>2 DEF MixedFile
  <2>6. ~RunnerOpens(p) /\ ~RunnerExits(p)
    BY <2>1 DEF RunnerOpens, RunnerExits, IsRunnerAt
  <2> QED BY <1>4, <2>2, <2>3, <2>4, <2>5, <2>6 DEF RunnerStep
<1> QED BY <1>1, <1>3, <1>4, RunnerFate

(* A request that owes a file the initial record writes it, or the agent   *)
(* dies.                                                                   *)
LEMMA HandlerStillOwes ==
  ASSUME RunsInv, ~Recycle, [Next]_vars, NEW id \in Ids, NEW h \in Handlers,
         HandlerOwes(id, h), file'[id] = file[id], file[id].st = "empty"
  PROVE  HandlerOwes(id, h)' \/ \E p \in Pids : AgentDied(p)'
<1>1. TypeOK /\ req[h] \in Request /\ req[h].pc = "initput" /\ req[h].id = id
  BY DEF RunsInv, ScopeInv, BasicInv, TypeOK, HandlerOwes, At
<1>2. ASSUME req'[h] = req[h] PROVE HandlerOwes(id, h)'
  BY <1>1, <1>2 DEF HandlerOwes, At
<1>3. ASSUME NEW s, req'[h] = Forgetting(req[h], s) PROVE HandlerOwes(id, h)'
  BY <1>1, <1>3, ForgettingFields DEF HandlerOwes, At
<1>4. ASSUME NEW g \in Handlers, Accept(g) PROVE req'[h] = req[h]
  BY <1>1, <1>4 DEF Accept, ReceiveStart, ReceiveEmptyStart, ReceiveById, ReceiveInfoLast,
                    ReceiveStopAll, Receive, At, TypeOK
<1>5. ASSUME NEW g \in Handlers, Handle(g) PROVE HandlerOwes(id, h)'
  <2>1. CASE g = h
    <3>1. InitPut(h)
      BY <1>1, <1>5, <2>1
         DEF Handle, CheckFile, InitOpen, InitPut, ReadInfo, ReadPid, SnapshotTree,
             SnapshotFails, Signal, SignalsSent, WaitGone, WaitTimeout, Spawn, SpawnFails,
             SetLast, Respond, At
    <3>2. file'[id] \in {MixedFile, [st |-> "init", pid |-> agent]}
      BY <1>1, <3>1, PutFate DEF InitPut
    <3> QED BY <3>2 DEF MixedFile
  <2>2. CASE g # h /\ Spawn(g)
    <3>1. PICK s \in FreePids : req'[h] = [Forgetting(req[h], s) EXCEPT !.pc = @]
      BY <2>2 DEF Spawn
    <3>2. req'[h] = Forgetting(req[h], s)
      BY <1>1, <3>1 DEF Forgetting, Request
    <3> QED BY <1>3, <3>2
  <2>3. CASE g # h /\ ~Spawn(g)
    <3>1. req'[h] = req[h]
      BY <1>1, <1>5, <2>3
         DEF Handle, CheckFile, InitOpen, InitPut, ReadInfo, ReadPid, SnapshotTree,
             SnapshotFails, Signal, SignalsSent, WaitGone, WaitTimeout, WaitDone, SpawnFails,
             SetLast, Respond, Goto, Answer, TypeOK
    <3> QED BY <1>2, <3>1
  <2> QED BY <2>1, <2>2, <2>3
<1>6. ASSUME NEW p \in Pids, RunnerStep(p) \/ ShellExits(p) PROVE HandlerOwes(id, h)'
  <2>1. \/ req'[h] = req[h]
        \/ \E s \in FreePids : req'[h] = Forgetting(req[h], s)
    BY <1>6 DEF RunnerStep, RunnerOpens, RunnerWrites, RunnerForks, RunnerAborts,
                RunnerResumes, RunnerExits, ShellExits
  <2> QED BY <1>2, <1>3, <2>1
<1>7. ASSUME Crash PROVE \E p \in Pids : AgentDied(p)'
  <2>1. agent \in Pids /\ proc[agent].kind = "agent"
    BY <1>1, <1>7 DEF Crash, TypeOK, RunsInv, ScopeInv, BasicInv, AgentIsAlive
  <2>2. proc'[agent] = [proc[agent] EXCEPT !.st = "gone", !.at = "killed"]
    BY <1>7, <2>1 DEF Crash
  <2>3. proc'[agent].st = "gone" /\ proc'[agent].kind = "agent"
    BY <1>1, <2>1, <2>2 DEF TypeOK, Process
  <2>4. PICK p \in Pids : p = agent
    BY <2>1
  <2>5. AgentDied(p)'
    BY <2>3, <2>4 DEF AgentDied, Live
  <2> QED BY <2>5
<1>8. CASE Restart \/ UNCHANGED vars
  BY <1>2, <1>8 DEF Restart, vars
<1> QED BY <1>2, <1>4, <1>5, <1>6, <1>7, <1>8 DEF Next

(* A file that a step empties has a writer.                                *)
LEMMA OpenerOwes ==
  ASSUME RunsInv, ~Recycle, [Next]_vars, NEW id \in Ids, Opened(id)
  PROVE  \/ \E p \in Pids : RunnerOwes(id, p)'
         \/ \E h \in Handlers : HandlerOwes(id, h)'
<1>1. ScopeInv /\ TypeOK
  BY DEF RunsInv, ScopeInv, BasicInv
<1>2. CASE \E h \in Handlers : req'[h].id = id /\ req'[h].pc = "initput"
  BY <1>2 DEF HandlerOwes, At
<1>3. ASSUME NEW p \in Pids, RunnerOpens(p), proc[p].cid = id PROVE RunnerOwes(id, p)'
  <2>1. proc'[p].opened /\ proc'[p].kind = "runner" /\ proc'[p].cid = id
    BY <1>1, <1>3 DEF RunnerOpens, IsRunnerAt, TypeOK, Process
  <2> QED BY <2>1 DEF RunnerOwes
<1> QED BY <1>2, <1>3 DEF Opened

(* Every step keeps an empty file with its writer.                         *)
LEMMA EmptyNext ==
  ASSUME RunsInv, ~Recycle, [Next]_vars
  PROVE  EmptyFileHasWriter'
<1> SUFFICES ASSUME NEW id \in Ids, file'[id].st = "empty"
             PROVE  \/ \E p \in Pids : RunnerOwes(id, p)'
                    \/ \E h \in Handlers : HandlerOwes(id, h)'
                    \/ \E p \in Pids : AgentDied(p)'
  BY WritersOfEmpty DEF EmptyFileHasWriter, RunnerOwes, HandlerOwes, AgentDied
<1>1. ScopeInv
  BY DEF RunsInv
<1>2. CASE Opened(id)
  BY <1>2, OpenerOwes
<1>3. CASE file'[id] = file[id]
  <2>1. \/ \E p \in Pids : RunnerOwes(id, p)
        \/ \E h \in Handlers : HandlerOwes(id, h)
        \/ \E p \in Pids : AgentDied(p)
    BY <1>3, WritersOfEmpty DEF RunsInv
  <2>2. ASSUME NEW p \in Pids, RunnerOwes(id, p) PROVE RunnerOwes(id, p)'
    BY <1>3, <2>2, RunnerStillOwes
  <2>3. ASSUME NEW h \in Handlers, HandlerOwes(id, h)
        PROVE  HandlerOwes(id, h)' \/ \E p \in Pids : AgentDied(p)'
    BY <1>3, <2>3, HandlerStillOwes
  <2>4. ASSUME NEW p \in Pids, AgentDied(p) PROVE AgentDied(p)'
    BY <1>1, <2>4, NamesPersist DEF AgentDied, MayBeNamedBy
  <2> QED BY <2>1, <2>2, <2>3, <2>4
<1>4. ASSUME Recorded(id) PROVE FALSE
  <2>1. PICK status \in {"finished", "started"}, p \in Pids :
          file'[id] = [st |-> status, pid |-> p]
    BY <1>4 DEF Recorded
  <2> QED BY <2>1
<1> QED BY <1>1, <1>2, <1>3, <1>4, FileFate

---------------------------------------------------------------------------
(* The last run.                                                           *)

(* A run that was launched for an id stays one.                            *)
LEMMA RunsPersist ==
  ASSUME ScopeInv, ~Recycle, [Next]_vars, NEW id \in Ids, Runs(id) # {}
  PROVE  Runs(id)' # {}
<1>1. PICK p \in Pids : proc[p].kind = "runner" /\ proc[p].cid = id
  BY DEF Runs
<1>2. proc'[p].kind = "runner" /\ proc'[p].cid = id
  BY <1>1, RunPersists
<1> QED BY <1>1, <1>2 DEF Runs

(* A step leaves a request at its launch, or takes it there by launching.  *)
LEMMA LaunchFate ==
  ASSUME ScopeInv, [Next]_vars, NEW g \in Handlers, req'[g].pc = "setlast"
  PROVE  \/ At(g, "setlast") /\ req'[g].id = req[g].id
         \/ Spawn(g)
<1>1. TypeOK /\ req[g] \in Request
  BY DEF ScopeInv, BasicInv, TypeOK
<1>2. ASSUME req'[g] = req[g] PROVE At(g, "setlast") /\ req'[g].id = req[g].id
  BY <1>2 DEF At
<1>3. ASSUME NEW s, req'[g] = Forgetting(req[g], s)
      PROVE  At(g, "setlast") /\ req'[g].id = req[g].id
  BY <1>1, <1>3, ForgettingFields DEF At
<1>4. ASSUME NEW h \in Handlers, Accept(h) PROVE req'[g] = req[g]
  BY <1>1, <1>4 DEF Accept, ReceiveStart, ReceiveEmptyStart, ReceiveById, ReceiveInfoLast,
                    ReceiveStopAll, Receive, Asking, TypeOK
<1>5. ASSUME NEW h \in Handlers, Handle(h), ~Spawn(h)
      PROVE  req'[g] = req[g]
  <2>1. CASE h # g
    BY <1>1, <1>5, <2>1
       DEF Handle, CheckFile, InitOpen, InitPut, ReadInfo, ReadPid, SnapshotTree,
           SnapshotFails, Signal, SignalsSent, WaitGone, WaitTimeout, WaitDone, SpawnFails,
           SetLast, Respond, Goto, Answer, TypeOK
  <2>2. CASE h = g
    <3>1. CASE SnapshotTree(g) \/ ReadPid(g) \/ Signal(g)
      BY <1>1, <3>1 DEF SnapshotTree, ReadPid, Signal, Goto, Answer, TypeOK, Request, At
    <3>2. CASE WaitGone(g) \/ WaitTimeout(g) \/ SnapshotFails(g) \/ SignalsSent(g)
      BY <1>1, <3>2
         DEF WaitGone, WaitTimeout, WaitDone, SnapshotFails, SignalsSent, Goto, Answer,
             TypeOK, Request
    <3>3. CASE SpawnFails(g) \/ SetLast(g) \/ Respond(g) \/ ReadInfo(g)
      BY <1>1, <3>3
         DEF SpawnFails, SetLast, Respond, ReadInfo, Idle, Asking, Answer, TypeOK, Request
    <3>4. CASE CheckFile(g) \/ InitOpen(g) \/ InitPut(g)
      BY <1>1, <3>4 DEF CheckFile, InitOpen, InitPut, Goto, TypeOK, Request
    <3> QED BY <1>5, <2>2, <3>1, <3>2, <3>3, <3>4 DEF Handle
  <2> QED BY <2>1, <2>2
<1>6. ASSUME NEW h \in Handlers, Spawn(h), h # g
      PROVE  At(g, "setlast") /\ req'[g].id = req[g].id
  <2>1. PICK s \in FreePids : req'[g] = [Forgetting(req[g], s) EXCEPT !.pc = @]
    BY <1>6 DEF Spawn
  <2>2. req'[g] = Forgetting(req[g], s)
    BY <1>1, <2>1 DEF Forgetting, Request
  <2> QED BY <1>3, <2>2
<1>7. ASSUME NEW p \in Pids, RunnerStep(p) \/ ShellExits(p)
      PROVE  At(g, "setlast") /\ req'[g].id = req[g].id
  <2>1. \/ req'[g] = req[g]
        \/ \E s \in FreePids : req'[g] = Forgetting(req[g], s)
    BY <1>7 DEF RunnerStep, RunnerOpens, RunnerWrites, RunnerForks, RunnerAborts,
                RunnerResumes, RunnerExits, ShellExits
  <2> QED BY <1>2, <1>3, <2>1
<1>8. ASSUME Crash PROVE FALSE
  <2>1. req'[g] = Idle
    BY <1>8 DEF Crash
  <2> QED BY <2>1 DEF Idle, Asking
<1>9. CASE Restart \/ UNCHANGED vars
  BY <1>2, <1>9 DEF Restart, vars
<1> QED BY <1>2, <1>4, <1>5, <1>6, <1>7, <1>8, <1>9 DEF Next

(* Every step keeps what was launched before it is remembered.             *)
LEMMA LaunchNext ==
  ASSUME RunsInv, ~Recycle, [Next]_vars
  PROVE  LaunchesAreSound'
<1> SUFFICES ASSUME NEW g \in Handlers, req'[g].pc = "setlast"
             PROVE  (Runs(req[g].id) # {})'
  BY DEF LaunchesAreSound, At
<1>1. ScopeInv /\ TypeOK /\ req[g].id \in Ids
  BY DEF RunsInv, ScopeInv, BasicInv, TypeOK, Request
<1>2. CASE At(g, "setlast") /\ req'[g].id = req[g].id
  <2>1. PICK id \in Ids : id = req[g].id
    BY <1>1
  <2>2. Runs(id)' # {}
    BY <1>1, <1>2, <2>1, RunsPersist DEF RunsInv, LaunchesAreSound
  <2> QED BY <1>2, <2>1, <2>2
<1>3. CASE Spawn(g)
  <2>1. PICK s \in FreePids :
          /\ proc' = [Reaped(Pids) EXCEPT ![s] = Runner(req[g].id, req[g].n)]
          /\ req'[g] = [Forgetting(req[g], s) EXCEPT !.pc = "setlast"]
    BY <1>3 DEF Spawn
  <2>2. s \in Pids /\ req'[g].id = req[g].id
    BY <1>1, <2>1 DEF FreePids, TypeOK, Forgetting, Request
  <2>3. proc'[s] = Runner(req[g].id, req[g].n)
    BY <1>1, <2>1, <2>2, ReapedType
  <2>4. proc'[s].kind = "runner" /\ proc'[s].cid = req'[g].id
    BY <2>2, <2>3 DEF Runner
  <2> QED BY <2>2, <2>4 DEF Runs
<1> QED BY <1>1, <1>2, <1>3, LaunchFate

(* Every step keeps the last run a run that was launched.                  *)
LEMMA LastNext ==
  ASSUME RunsInv, ~Recycle, [Next]_vars
  PROVE  LastWasLaunched'
<1> SUFFICES ASSUME last' # InitialId PROVE (Runs(last) # {})'
  BY DEF LastWasLaunched
<1>1. ScopeInv /\ TypeOK
  BY DEF RunsInv, ScopeInv, BasicInv
<1>2. CASE last' = last
  <2>1. last \in Ids /\ Runs(last) # {}
    BY <1>1, <1>2 DEF RunsInv, LastWasLaunched, TypeOK
  <2>2. PICK id \in Ids : id = last
    BY <2>1
  <2>3. Runs(id)' # {}
    BY <1>1, <2>1, <2>2, RunsPersist
  <2> QED BY <1>2, <2>2, <2>3
<1>3. ASSUME NEW h \in Handlers, SetLast(h) PROVE (Runs(last) # {})'
  <2>1. At(h, "setlast") /\ req[h].id \in Ids /\ last' = req[h].id
    BY <1>1, <1>3 DEF SetLast, TypeOK, Request
  <2>2. PICK id \in Ids : id = req[h].id
    BY <2>1
  <2>3. Runs(id)' # {}
    BY <1>1, <2>1, <2>2, RunsPersist DEF RunsInv, LaunchesAreSound
  <2> QED BY <2>1, <2>2, <2>3
<1>4. ASSUME NEW h \in Handlers, Handle(h), ~SetLast(h) PROVE last' = last
  BY <1>4
     DEF Handle, CheckFile, InitOpen, InitPut, ReadInfo, ReadPid, SnapshotTree, SnapshotFails,
         Signal, SignalsSent, WaitGone, WaitTimeout, WaitDone, Spawn, SpawnFails, Respond
<1>5. ASSUME NEW h \in Handlers, Accept(h) PROVE last' = last
  BY <1>5 DEF Accept, ReceiveStart, ReceiveEmptyStart, ReceiveById, ReceiveInfoLast,
              ReceiveStopAll, Receive
<1>6. ASSUME NEW p \in Pids, RunnerStep(p) \/ ShellExits(p) PROVE last' = last
  BY <1>6 DEF RunnerStep, RunnerOpens, RunnerWrites, RunnerForks, RunnerAborts,
              RunnerResumes, RunnerExits, ShellExits
<1>7. ~Restart
  BY DEF Restart
<1>8. CASE Crash \/ UNCHANGED vars
  BY <1>2, <1>8 DEF Crash, vars
<1> QED BY <1>2, <1>3, <1>4, <1>5, <1>6, <1>7, <1>8 DEF Next

---------------------------------------------------------------------------
(* The theorems.                                                           *)

(* The invariant holds when the agent has started.                         *)
LEMMA RunsInit ==
  ASSUME Init
  PROVE  RunsInv
<1>1. ScopeInv
  BY ScopeInit
<1>2. PICK a \in Pids : proc = [q \in Pids |-> IF q = a THEN AgentProcess ELSE Unborn]
  BY DEF Init
<1>3. ExitIsClean /\ ShellsAreAwaited
  BY <1>2 DEF ExitIsClean, ShellsAreAwaited, AgentProcess, Unborn
<1>4. RecordsAreTrue /\ EmptyFileHasWriter
  BY DEF Init, RecordsAreTrue, EmptyFileHasWriter, NoFile
<1>5. LaunchesAreSound /\ LastWasLaunched
  BY DEF Init, LaunchesAreSound, LastWasLaunched, At, Idle, Asking
<1> QED BY <1>1, <1>3, <1>4, <1>5 DEF RunsInv

(* What the files and StateHolder say of the runs stays true, for any      *)
(* number of ids, requests, runs, crashes and restarts of the agent.       *)
THEOREM RunsInvariance == ASSUME ~Recycle PROVE Spec => []RunsInv
<1>1. ASSUME RunsInv, [Next]_vars PROVE RunsInv'
  <2>1. ScopeInv'
    BY <1>1, ScopeNext DEF RunsInv
  <2>2. ExitIsClean' /\ ShellsAreAwaited' /\ RecordsAreTrue'
    BY <1>1, ExitNext, AwaitedNext, RecordsNext
  <2>3. EmptyFileHasWriter' /\ LaunchesAreSound' /\ LastWasLaunched'
    BY <1>1, EmptyNext, LaunchNext, LastNext
  <2> QED BY <2>1, <2>2, <2>3 DEF RunsInv
<1> QED BY <1>1, RunsInit, PTL DEF Spec

(* A client that reads "finished" finds no command of the run executing:   *)
(* the last record of run_commands is written when no shell is left.       *)
THEOREM FinishedRunsAreQuiet == ASSUME ~Recycle PROVE Spec => []FinishedMeansQuiet
<1>1. ASSUME RunsInv PROVE FinishedMeansQuiet
  <2> SUFFICES ASSUME NEW id \in Ids, file[id].st = "finished",
                      NEW q \in Pids, Exists(q), proc[q].parent = file[id].pid
               PROVE  FALSE
    BY DEF FinishedMeansQuiet, Children
  <2>1. file[id].pid \in Pids
    BY <1>1 DEF RunsInv, ScopeInv, BasicInv, TypeOK, FileRecord
  <2>2. proc[file[id].pid].kind = "runner" /\ proc[file[id].pid].at \in Ending
    BY <1>1 DEF RunsInv, RecordsAreTrue
  <2>3. proc[file[id].pid].at = "wait"
    BY <1>1, <2>1, <2>2 DEF RunsInv, ShellsAreAwaited
  <2> QED BY <2>2, <2>3 DEF Ending
<1> QED BY <1>1, RunsInvariance, PTL

(* A run that went through to its end is not left behind as "started".     *)
THEOREM NormalExitsArePublished == ASSUME ~Recycle PROVE Spec => []NormalExitIsPublished
<1>1. RunsInv => NormalExitIsPublished
  BY DEF RunsInv, RecordsAreTrue, NormalExitIsPublished
<1> QED BY <1>1, RunsInvariance, PTL

(* A file is empty only between an open and the write that belongs to it,  *)
(* or when the process that had it open has died there.                    *)
THEOREM EmptyFilesHaveWriters == ASSUME ~Recycle PROVE Spec => []EmptyFileHasWriter
<1>1. RunsInv => EmptyFileHasWriter
  BY DEF RunsInv
<1> QED BY <1>1, RunsInvariance, PTL

(* GET /commanddetached reports on a run that was launched: a start that   *)
(* failed never becomes the last one.                                      *)
THEOREM LastIsLaunched == ASSUME ~Recycle PROVE Spec => []LastWasLaunched
<1>1. RunsInv => LastWasLaunched
  BY DEF RunsInv
<1> QED BY <1>1, RunsInvariance, PTL

=============================================================================
