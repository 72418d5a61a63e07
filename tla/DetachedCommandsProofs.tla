----------------------- MODULE DetachedCommandsProofs -----------------------
(* Proofs about DetachedCommands, for every value of its constants.        *)
EXTENDS DetachedCommands, TLAPS

(* The facts about the constants that the proofs use.                      *)
LEMMA Constants ==
  /\ NoPid \notin Pids /\ Reaper \notin Pids /\ NoPid # Reaper
  /\ InitialId \in Ids
  /\ MaxCmds \in Nat
  /\ Stubborn \in BOOLEAN /\ Recycle \in BOOLEAN
  /\ Ops \subseteq {"start", "stop", "stopAll", "info", "infoLast"}
BY InitialIdAssumption, PidAssumption, OpsAssumption, MaxCmdsAssumption, SwitchAssumption

(* An entry of the table that was never used is well typed.                *)
LEMMA UnbornType == Unborn \in Process
BY Constants DEF Unborn, Process

(* The request of an idle thread is well typed.                            *)
LEMMA IdleType == Idle \in Request
BY Constants DEF Idle, Asking, Request, Pcs, Replies

---------------------------------------------------------------------------
(* What the operators of the process table return.                         *)

(* The table after the end of a process is well typed.                     *)
LEMMA EndedType ==
  ASSUME TypeOK, NEW p \in Pids, NEW how \in {"exited", "killed"}
  PROVE  Ended(p, how) \in [Pids -> Process]
<1>1. Dead(p, how) \in Process
  BY Constants DEF Dead, Process, TypeOK
<1>2. \A q \in Pids : [proc[q] EXCEPT !.parent = Reaper] \in Process
  BY DEF Process, TypeOK
<1> QED BY <1>1, <1>2 DEF Ended, TypeOK

(* What is left of the process that has ended.                             *)
LEMMA EndedSelf ==
  ASSUME NEW p \in Pids, NEW how
  PROVE  /\ Ended(p, how)[p].kind = proc[p].kind
         /\ Ended(p, how)[p].cid = proc[p].cid
         /\ Ended(p, how)[p].at = how
         /\ Ended(p, how)[p].hard = FALSE
         /\ Ended(p, how)[p].opened = FALSE
         /\ Ended(p, how)[p].st \in {"zombie", "gone"}
         /\ Ended(p, how)[p].parent =
              IF proc[p].parent = agent THEN agent ELSE Reaper
<1>1. Ended(p, how)[p] = Dead(p, how)
  BY DEF Ended
<1> QED BY <1>1 DEF Dead

(* The end of a process changes nothing but the parent of another.         *)
LEMMA EndedOther ==
  ASSUME TypeOK, NEW p \in Pids, NEW how, NEW q \in Pids, q # p
  PROVE  /\ Ended(p, how)[q].kind = proc[q].kind
         /\ Ended(p, how)[q].cid = proc[q].cid
         /\ Ended(p, how)[q].st = proc[q].st
         /\ Ended(p, how)[q].at = proc[q].at
         /\ Ended(p, how)[q].left = proc[q].left
         /\ Ended(p, how)[q].hard = proc[q].hard
         /\ Ended(p, how)[q].opened = proc[q].opened
         /\ Ended(p, how)[q].parent =
              IF proc[q].parent = p THEN Reaper ELSE proc[q].parent
<1>1. CASE proc[q].parent = p
  <2>1. Ended(p, how)[q] = [proc[q] EXCEPT !.parent = Reaper]
    BY <1>1 DEF Ended
  <2> QED BY <1>1, <2>1 DEF TypeOK, Process
<1>2. CASE proc[q].parent # p
  <2>1. Ended(p, how)[q] = proc[q]
    BY <1>2 DEF Ended
  <2> QED BY <1>2, <2>1
<1> QED BY <1>1, <1>2

(* The table after a wait is well typed.                                   *)
LEMMA ReapedType ==
  ASSUME TypeOK, NEW ps
  PROVE  Reaped(ps) \in [Pids -> Process]
BY DEF Reaped, TypeOK, Process

(* A wait changes zombies only: who they were, not what lives.             *)
LEMMA ReapedFields ==
  ASSUME TypeOK, NEW ps, NEW q \in Pids
  PROVE  /\ Reaped(ps)[q].kind = proc[q].kind
         /\ Reaped(ps)[q].cid = proc[q].cid
         /\ Reaped(ps)[q].at = proc[q].at
         /\ Reaped(ps)[q].left = proc[q].left
         /\ Reaped(ps)[q].hard = proc[q].hard
         /\ Reaped(ps)[q].opened = proc[q].opened
         /\ Reaped(ps)[q].parent \in {proc[q].parent, Reaper}
         /\ Reaped(ps)[q].st # proc[q].st =>
              Reaped(ps)[q].st = "gone" /\ proc[q].st = "zombie"
BY DEF Reaped, TypeOK, Process

(* A truncated file is well typed.                                         *)
LEMMA TruncateType ==
  ASSUME TypeOK, NEW id \in Ids, Truncate(id)
  PROVE  file' \in [Ids -> FileRecord]
<1>1. EmptyFile \in FileRecord
  BY DEF EmptyFile, FileRecord
<1> QED BY <1>1 DEF Truncate, TypeOK

(* A written file is well typed.                                           *)
LEMMA PutType ==
  ASSUME TypeOK, NEW id \in Ids, NEW status \in Parsed, NEW pid \in Pids,
         Put(id, status, pid)
  PROVE  file' \in [Ids -> FileRecord]
<1>1. [st |-> status, pid |-> pid] \in FileRecord
  BY DEF FileRecord
<1>2. MixedFile \in FileRecord
  BY DEF MixedFile, FileRecord
<1> QED BY <1>1, <1>2 DEF Put, TypeOK

(* Forgetting a process object only takes it out of two sets.              *)
LEMMA ForgettingFields ==
  ASSUME NEW r \in Request, NEW p
  PROVE  /\ Forgetting(r, p) \in Request
         /\ Forgetting(r, p).op = r.op
         /\ Forgetting(r, p).id = r.id
         /\ Forgetting(r, p).n = r.n
         /\ Forgetting(r, p).pc = r.pc
         /\ Forgetting(r, p).root = r.root
         /\ Forgetting(r, p).reply = r.reply
         /\ Forgetting(r, p).todo = r.todo \ {p}
         /\ Forgetting(r, p).targets = r.targets \ {p}
BY DEF Forgetting, Request

(* The processes below a process, and those of its tree to kill, are pids. *)
LEMMA DescendantsType ==
  ASSUME NEW p \in Pids
  PROVE  Descendants(p) \subseteq Pids /\ KillTargets(p) \subseteq Pids
BY DEF Descendants, Children, KillTargets

---------------------------------------------------------------------------
(* The basic invariant, action by action.                                  *)

(* The invariant holds when the agent has started.                         *)
LEMMA BasicInit == Init => BasicInv
<1> SUFFICES ASSUME Init PROVE BasicInv
  OBVIOUS
<1>1. PICK p \in Pids : /\ agent = p
                        /\ proc = [q \in Pids |-> IF q = p THEN AgentProcess ELSE Unborn]
  BY DEF Init
<1>2. AgentProcess \in Process
  BY Constants DEF AgentProcess, Process
<1>3. NoFile \in FileRecord
  BY DEF NoFile, FileRecord
<1>4. TypeOK
  BY <1>1, <1>2, <1>3, UnbornType, IdleType, Constants DEF Init, TypeOK
<1>5. AgentIsAlive
  BY <1>1, Constants DEF AgentIsAlive, AgentProcess, Live
<1>6. RequestsAreSound /\ AgentNeverTargeted
  BY <1>1, Constants DEF Init, RequestsAreSound, AgentNeverTargeted, SoundRequest, Idle, Asking
<1>7. RunnersAreSound
  BY <1>1 DEF RunnersAreSound, AgentProcess, Unborn
<1> QED BY <1>4, <1>5, <1>6, <1>7 DEF BasicInv

(* What a step of the agent's threads, of a runner or of a shell has to    *)
(* keep for the basic invariant to be kept.                                *)
LEMMA BasicStep ==
  ASSUME BasicInv,
         agent' = agent, last' \in Ids,
         proc' \in [Pids -> Process],
         file' \in [Ids -> FileRecord],
         req' \in [Handlers -> Request],
         agent # NoPid => /\ proc'[agent].st = "live"
                          /\ proc'[agent].kind = "agent"
                          /\ proc'[agent].parent = Reaper
                          /\ \A h \in Handlers : agent \notin req'[h].targets,
         agent = NoPid => req' = req,
         \A h \in Handlers : SoundRequest(req'[h]),
         RunnersAreSound'
  PROVE  BasicInv'
<1>1. TypeOK'
  BY DEF BasicInv, TypeOK
<1>2. AgentIsAlive'
  BY DEF BasicInv, AgentIsAlive, Live
<1>3. RequestsAreSound'
  BY DEF RequestsAreSound, SoundRequest
<1>4. AgentNeverTargeted'
  BY DEF BasicInv, AgentNeverTargeted
<1> QED BY <1>1, <1>2, <1>3, <1>4 DEF BasicInv

(* A step of thread h that leaves the process table alone.                 *)
LEMMA RequestStep ==
  ASSUME BasicInv, NEW h \in Handlers, NEW r \in Request,
         agent # NoPid, last' \in Ids, file' \in [Ids -> FileRecord],
         UNCHANGED <<agent, proc>>,
         req' = [req EXCEPT ![h] = r],
         SoundRequest(r), agent \notin r.targets
  PROVE  BasicInv'
<1>1. req' \in [Handlers -> Request]
  BY DEF BasicInv, TypeOK
<1>2. \A g \in Handlers : SoundRequest(req'[g]) /\ agent \notin req'[g].targets
  BY DEF BasicInv, TypeOK, RequestsAreSound, AgentNeverTargeted
<1>3. RunnersAreSound'
  BY DEF BasicInv, RunnersAreSound
<1> QED BY <1>1, <1>2, <1>3, BasicStep DEF BasicInv, TypeOK, AgentIsAlive, Live

(* A thread that is at work has an agent, and what is known of its request.*)
LEMMA AtWork ==
  ASSUME BasicInv, NEW h \in Handlers, req[h].pc # "idle"
  PROVE  /\ agent # NoPid /\ agent \in Pids
         /\ req[h] \in Request
         /\ SoundRequest(req[h])
         /\ agent \notin req[h].targets
BY Constants DEF BasicInv, AgentIsAlive, Idle, Asking, TypeOK, RequestsAreSound, AgentNeverTargeted

(* A request that arrives keeps the invariant.                             *)
LEMMA AcceptBasic ==
  ASSUME BasicInv, NEW h \in Handlers, Accept(h)
  PROVE  BasicInv'
<1> DEFINE Sound(r) == r \in Request /\ SoundRequest(r) /\ r.targets = {}
<1>1. PICK r : Receive(h, r) /\ Sound(r)
  <2> USE Constants DEF Asking, Request, Pcs, Replies, SoundRequest
  <2>1. CASE ReceiveStart(h)
    <3>1. PICK id \in Ids, n \in 1..MaxCmds :
            Receive(h, Asking("start", id, n, "read", NoPid, "none"))
      BY <2>1 DEF ReceiveStart
    <3>2. "start" \in Ops
      BY <3>1 DEF Receive
    <3>3. Sound(Asking("start", id, n, "read", NoPid, "none"))
      BY <3>2
    <3> QED BY <3>1, <3>3
  <2>2. CASE ReceiveEmptyStart(h)
    <3>1. PICK id \in Ids : Receive(h, Asking("start", id, 0, "reply", NoPid, "rejected"))
      BY <2>2 DEF ReceiveEmptyStart
    <3>2. "start" \in Ops
      BY <3>1 DEF Receive
    <3>3. Sound(Asking("start", id, 0, "reply", NoPid, "rejected"))
      BY <3>2
    <3> QED BY <3>1, <3>3
  <2>3. CASE ReceiveById(h)
    <3>1. PICK op \in {"stop", "info"}, id \in Ids :
            Receive(h, Asking(op, id, 0, "read", NoPid, "none"))
      BY <2>3 DEF ReceiveById
    <3>2. op \in Ops
      BY <3>1 DEF Receive
    <3>3. Sound(Asking(op, id, 0, "read", NoPid, "none"))
      BY <3>2
    <3> QED BY <3>1, <3>3
  <2>4. CASE ReceiveInfoLast(h)
    <3>1. Receive(h, Asking("infoLast", last, 0, "check", NoPid, "none"))
      BY <2>4 DEF ReceiveInfoLast
    <3>2. "infoLast" \in Ops /\ last \in Ids
      BY <3>1 DEF Receive, BasicInv, TypeOK
    <3>3. Sound(Asking("infoLast", last, 0, "check", NoPid, "none"))
      BY <3>2
    <3> QED BY <3>1, <3>3
  <2>5. CASE ReceiveStopAll(h)
    <3>1. Receive(h, Asking("stopAll", InitialId, 0, "snapshot", agent, "none"))
      BY <2>5 DEF ReceiveStopAll
    <3>2. "stopAll" \in Ops /\ agent \in Pids
      BY <3>1 DEF Receive, BasicInv, TypeOK
    <3>3. Sound(Asking("stopAll", InitialId, 0, "snapshot", agent, "none"))
      BY <3>2
    <3> QED BY <3>1, <3>3
  <2> QED BY <2>1, <2>2, <2>3, <2>4, <2>5 DEF Accept
<1>2. /\ agent # NoPid
      /\ UNCHANGED <<agent, proc, file, last>>
      /\ req' = [req EXCEPT ![h] = r]
  BY <1>1 DEF Receive
<1>3. last' \in Ids /\ file' \in [Ids -> FileRecord]
  BY <1>2 DEF BasicInv, TypeOK
<1> QED BY <1>1, <1>2, <1>3, RequestStep

(* A handler that only moves on keeps the invariant.                       *)
LEMMA GotoStep ==
  ASSUME BasicInv, NEW h \in Handlers, NEW pc \in Pcs, Goto(h, pc),
         req[h].pc \notin {"idle", "reply"},
         UNCHANGED <<agent, proc>>, last' \in Ids, file' \in [Ids -> FileRecord],
         pc \in {"spawn", "setlast"} => req[h].op = "start",
         pc # "snapshot"
  PROVE  BasicInv'
<1> DEFINE r == [req[h] EXCEPT !.pc = pc]
<1>1. req' = [req EXCEPT ![h] = r]
  BY DEF Goto
<1>2. r \in Request /\ SoundRequest(r) /\ agent \notin r.targets /\ agent # NoPid
  BY AtWork DEF Request, SoundRequest
<1> QED BY <1>1, <1>2, RequestStep

(* A handler that answers keeps the invariant.                             *)
LEMMA AnswerStep ==
  ASSUME BasicInv, NEW h \in Handlers, NEW reply \in Replies, Answer(h, reply),
         req[h].pc # "idle",
         UNCHANGED <<agent, proc>>, last' \in Ids, file' \in [Ids -> FileRecord]
  PROVE  BasicInv'
<1> DEFINE r == [req[h] EXCEPT !.pc = "reply", !.reply = reply]
<1>1. req' = [req EXCEPT ![h] = r]
  BY DEF Answer
<1>2. r \in Request /\ SoundRequest(r) /\ agent \notin r.targets /\ agent # NoPid
  BY AtWork DEF Request, SoundRequest, Pcs
<1> QED BY <1>1, <1>2, RequestStep

(* The steps of a handler that leave the process table alone.              *)
LEMMA FileAndReplyStepsBasic ==
  ASSUME BasicInv, NEW h \in Handlers,
         \/ CheckFile(h) \/ InitOpen(h) \/ InitPut(h) \/ ReadInfo(h)
         \/ SnapshotFails(h) \/ SignalsSent(h) \/ SetLast(h) \/ Respond(h)
  PROVE  BasicInv'
<1> USE DEF At
<1>1. /\ file \in [Ids -> FileRecord] /\ last \in Ids
      /\ req[h].pc # "idle" => /\ req[h].id \in Ids
                               /\ agent \in Pids
                               /\ SoundRequest(req[h])
  BY AtWork DEF BasicInv, TypeOK, Request
<1>2. CASE CheckFile(h)
  BY <1>1, <1>2, GotoStep DEF CheckFile, Pcs
<1>3. CASE InitOpen(h)
  <2>1. file' \in [Ids -> FileRecord]
    BY <1>1, <1>3, TruncateType DEF InitOpen, BasicInv
  <2> QED BY <1>1, <1>3, <2>1, GotoStep DEF InitOpen, Pcs
<1>4. CASE InitPut(h)
  <2>1. file' \in [Ids -> FileRecord]
    BY <1>1, <1>4, PutType DEF InitPut, BasicInv, Parsed
  <2> QED BY <1>1, <1>4, <2>1, GotoStep DEF InitPut, Pcs
<1>5. CASE ReadInfo(h)
  <2>1. PICK reply \in Replies : Answer(h, reply)
    BY <1>5 DEF ReadInfo, Replies
  <2> QED BY <1>1, <1>5, <2>1, AnswerStep DEF ReadInfo
<1>6. CASE SnapshotFails(h)
  <2>1. CASE req[h].op = "start"
    BY <1>1, <1>6, <2>1, GotoStep DEF SnapshotFails, Pcs
  <2>2. CASE req[h].op # "start"
    BY <1>1, <1>6, <2>2, AnswerStep DEF SnapshotFails, Replies
  <2> QED BY <2>1, <2>2
<1>7. CASE SignalsSent(h)
  BY <1>1, <1>7, GotoStep DEF SignalsSent, Pcs
<1>8. CASE SetLast(h)
  BY <1>1, <1>8, AnswerStep DEF SetLast, Replies
<1>9. CASE Respond(h)
  <2>1. SoundRequest(Idle) /\ Idle.targets = {} /\ agent # NoPid
    BY <1>9, AtWork DEF Respond, SoundRequest, Idle, Asking
  <2> QED BY <1>1, <1>9, <2>1, IdleType, RequestStep DEF Respond
<1> QED BY <1>2, <1>3, <1>4, <1>5, <1>6, <1>7, <1>8, <1>9

(* Reading the pid of a run keeps the invariant.                           *)
LEMMA ReadPidBasic ==
  ASSUME BasicInv, NEW h \in Handlers, ReadPid(h)
  PROVE  BasicInv'
<1> USE DEF At
<1>1. /\ file' \in [Ids -> FileRecord] /\ last' \in Ids
      /\ req[h].pc = "read" /\ req[h] \in Request
      /\ UNCHANGED <<agent, proc>> /\ agent # NoPid
  BY AtWork DEF ReadPid, BasicInv, TypeOK
<1>2. CASE /\ Parses(req[h].id)
           /\ req' = [req EXCEPT ![h].pc = "snapshot", ![h].root = file[req[h].id].pid]
  <2> DEFINE r == [req[h] EXCEPT !.pc = "snapshot", !.root = file[req[h].id].pid]
  <2>1. file[req[h].id].pid \in Pids
    BY <1>1, <1>2 DEF Parses, Parsed, FileRecord, BasicInv, TypeOK, Request
  <2>2. r \in Request /\ SoundRequest(r) /\ agent \notin r.targets
    BY <1>1, <2>1, AtWork DEF Request, SoundRequest, Pcs
  <2>3. req' = [req EXCEPT ![h] = r]
    BY <1>2
  <2> QED BY <1>1, <2>2, <2>3, RequestStep
<1>3. CASE req[h].op = "start" /\ Goto(h, "spawn")
  BY <1>1, <1>3, GotoStep DEF Pcs
<1>4. CASE Answer(h, "fail")
  BY <1>1, <1>4, AnswerStep DEF Replies
<1> QED BY <1>2, <1>3, <1>4 DEF ReadPid

(* The agent is below no process of the table, so it is no target.         *)
LEMMA SnapshotTreeBasic ==
  ASSUME BasicInv, NEW h \in Handlers, SnapshotTree(h)
  PROVE  BasicInv'
<1> USE DEF At
<1> DEFINE targets == KillTargets(req[h].root)
           r == [req[h] EXCEPT !.pc = "signal", !.todo = targets, !.targets = targets]
<1>1. /\ file' \in [Ids -> FileRecord] /\ last' \in Ids
      /\ req[h].pc = "snapshot" /\ req[h] \in Request /\ SoundRequest(req[h])
      /\ UNCHANGED <<agent, proc>> /\ agent # NoPid /\ agent \in Pids
      /\ req' = [req EXCEPT ![h] = r]
  BY AtWork DEF SnapshotTree, BasicInv, TypeOK
<1>2. req[h].root \in Pids /\ targets \subseteq Pids
  BY <1>1, DescendantsType DEF SoundRequest
<1>3. agent \notin targets
  BY <1>1, <1>2, Constants DEF KillTargets, Descendants, Children, BasicInv, AgentIsAlive
<1>4. r \in Request /\ SoundRequest(r) /\ agent \notin r.targets
  BY <1>1, <1>2, <1>3 DEF Request, SoundRequest, Pcs
<1> QED BY <1>1, <1>4, RequestStep


---------------------------------------------------------------------------
(* Steps that end or reap processes: the agent is not among them.          *)

(* The end of a process other than the agent keeps the invariant.          *)
LEMMA EndedBasic ==
  ASSUME BasicInv, NEW p \in Pids, NEW how \in {"exited", "killed"}, p # agent,
         proc' = Ended(p, how), agent' = agent, last' = last, file' = file,
         req' \in [Handlers -> Request],
         agent = NoPid => req' = req,
         \A h \in Handlers : /\ SoundRequest(req'[h])
                             /\ req'[h].targets \subseteq req[h].targets
  PROVE  BasicInv'
<1>1. TypeOK
  BY DEF BasicInv
<1>2. proc' \in [Pids -> Process] /\ last' \in Ids /\ file' \in [Ids -> FileRecord]
  BY <1>1, EndedType DEF TypeOK
<1>3. agent # NoPid => /\ proc'[agent].st = "live"
                       /\ proc'[agent].kind = "agent"
                       /\ proc'[agent].parent = Reaper
                       /\ \A h \in Handlers : agent \notin req'[h].targets
  <2> SUFFICES ASSUME agent # NoPid
               PROVE  /\ proc'[agent].st = "live"
                      /\ proc'[agent].kind = "agent"
                      /\ proc'[agent].parent = Reaper
                      /\ \A h \in Handlers : agent \notin req'[h].targets
    OBVIOUS
  <2>1. /\ agent \in Pids
        /\ proc[agent].st = "live"
        /\ proc[agent].kind = "agent"
        /\ proc[agent].parent = Reaper
        /\ \A h \in Handlers : agent \notin req[h].targets
    BY DEF BasicInv, AgentIsAlive, AgentNeverTargeted, Live, TypeOK
  <2>2. /\ Ended(p, how)[agent].kind = proc[agent].kind
        /\ Ended(p, how)[agent].st = proc[agent].st
        /\ Ended(p, how)[agent].parent = proc[agent].parent
    BY <1>1, <2>1, EndedOther, Constants
  <2> QED BY <2>1, <2>2
<1>4. RunnersAreSound'
  <2> SUFFICES ASSUME NEW q \in Pids
               PROVE  proc'[q].at \in {"schedule", "progress", "shell", "wait"}
                        => proc'[q].left > 0
    BY DEF RunnersAreSound
  <2>1. CASE q = p
    <3>1. proc'[q].at = how
      BY <2>1, EndedSelf
    <3> QED BY <3>1
  <2>2. CASE q # p
    <3>1. proc'[q].at = proc[q].at /\ proc'[q].left = proc[q].left
      BY <1>1, <2>2, EndedOther
    <3> QED BY <3>1 DEF BasicInv, RunnersAreSound
  <2> QED BY <2>1, <2>2
<1> QED BY <1>2, <1>3, <1>4, BasicStep

(* Reaping children of the agent keeps the invariant.                      *)
LEMMA ReapedBasic ==
  ASSUME BasicInv, NEW ps, proc' = Reaped(ps), agent' = agent, last' = last, file' = file,
         req' \in [Handlers -> Request],
         agent # NoPid,
         \A h \in Handlers : /\ SoundRequest(req'[h])
                             /\ req'[h].targets \subseteq req[h].targets
  PROVE  BasicInv'
<1>1. TypeOK
  BY DEF BasicInv
<1>2. proc' \in [Pids -> Process] /\ last' \in Ids /\ file' \in [Ids -> FileRecord]
  BY <1>1, ReapedType DEF TypeOK
<1>3. /\ proc'[agent].st = "live"
      /\ proc'[agent].kind = "agent"
      /\ proc'[agent].parent = Reaper
      /\ \A h \in Handlers : agent \notin req'[h].targets
  BY <1>1, ReapedFields, Constants
     DEF BasicInv, AgentIsAlive, AgentNeverTargeted, Live, TypeOK
<1>4. RunnersAreSound'
  BY <1>1, ReapedFields DEF BasicInv, RunnersAreSound
<1> QED BY <1>2, <1>3, <1>4, BasicStep

(* A signal keeps the invariant: it never goes to the agent.               *)
LEMMA SignalBasic ==
  ASSUME BasicInv, NEW h \in Handlers, Signal(h)
  PROVE  BasicInv'
<1>1. PICK p \in Pids :
        /\ NextToSignal(h, p)
        /\ proc' = IF Live(p) /\ ~proc[p].hard THEN Ended(p, "killed") ELSE proc
        /\ req' = [req EXCEPT ![h].todo = @ \ {p}]
  BY DEF Signal
<1>2. /\ req[h] \in Request /\ SoundRequest(req[h]) /\ agent # NoPid
      /\ agent \notin req[h].targets /\ req[h].pc = "signal"
      /\ UNCHANGED <<agent, file, last>>
  BY AtWork DEF Signal, At
<1> DEFINE r == [req[h] EXCEPT !.todo = @ \ {p}]
<1>3. /\ req' = [req EXCEPT ![h] = r]
      /\ r \in Request /\ SoundRequest(r) /\ r.targets = req[h].targets
  BY <1>1, <1>2 DEF Request, SoundRequest
<1>4. p # agent
  BY <1>1, <1>2 DEF NextToSignal, SoundRequest
<1>5. /\ req' \in [Handlers -> Request]
      /\ \A g \in Handlers : /\ SoundRequest(req'[g])
                             /\ req'[g].targets \subseteq req[g].targets
  BY <1>2, <1>3 DEF BasicInv, TypeOK, RequestsAreSound
<1>6. CASE proc' = Ended(p, "killed")
  BY <1>2, <1>4, <1>5, <1>6, EndedBasic
<1>7. CASE proc' = proc
  BY <1>2, <1>3, <1>7, RequestStep DEF BasicInv, TypeOK
<1> QED BY <1>1, <1>6, <1>7

(* Both ends of wait_procs keep the invariant.                             *)
LEMMA WaitDoneBasic ==
  ASSUME BasicInv, NEW h \in Handlers, WaitGone(h) \/ WaitTimeout(h)
  PROVE  BasicInv'
<1>1. /\ req[h] \in Request /\ SoundRequest(req[h]) /\ agent # NoPid
      /\ req[h].pc = "wait" /\ WaitDone(h)
  BY AtWork DEF WaitGone, WaitTimeout, At
<1>2. PICK pc \in {"spawn", "reply"}, reply \in {"ok", req[h].reply} :
        /\ pc = "spawn" => req[h].op = "start"
        /\ req' = [req EXCEPT ![h] = [req[h] EXCEPT !.pc = pc, !.reply = reply]]
  <2>1. CASE req[h].op = "start"
    <3>1. req' = [req EXCEPT ![h] = [req[h] EXCEPT !.pc = "spawn"]]
      BY <1>1, <2>1 DEF WaitDone, Goto
    <3>2. [req[h] EXCEPT !.pc = "spawn"]
            = [req[h] EXCEPT !.pc = "spawn", !.reply = req[h].reply]
      BY <1>1 DEF Request
    <3> QED BY <2>1, <3>1, <3>2
  <2>2. CASE req[h].op # "start"
    BY <1>1, <2>2 DEF WaitDone, Answer
  <2> QED BY <2>1, <2>2
<1> DEFINE r == [req[h] EXCEPT !.pc = pc, !.reply = reply]
<1>3. r \in Request /\ SoundRequest(r) /\ r.targets = req[h].targets
  BY <1>1, <1>2 DEF Request, SoundRequest, Pcs, Replies
<1>4. /\ req' \in [Handlers -> Request]
      /\ \A g \in Handlers : /\ SoundRequest(req'[g])
                             /\ req'[g].targets \subseteq req[g].targets
  BY <1>2, <1>3 DEF BasicInv, TypeOK, RequestsAreSound
<1> QED BY <1>1, <1>4, ReapedBasic DEF WaitDone

(* A start that fails keeps the invariant.                                 *)
LEMMA SpawnFailsBasic ==
  ASSUME BasicInv, NEW h \in Handlers, SpawnFails(h)
  PROVE  BasicInv'
<1>1. /\ req[h] \in Request /\ SoundRequest(req[h]) /\ agent # NoPid
      /\ req[h].pc = "spawn" /\ UNCHANGED <<agent, file, last>>
  BY AtWork DEF SpawnFails, At
<1> DEFINE r == [req[h] EXCEPT !.pc = "reply", !.reply = "fail"]
<1>2. /\ req' = [req EXCEPT ![h] = r]
      /\ r \in Request /\ SoundRequest(r) /\ r.targets = req[h].targets
  BY <1>1 DEF SpawnFails, Answer, Request, SoundRequest, Pcs, Replies
<1>3. CASE proc' = proc
  BY <1>1, <1>3, AnswerStep DEF SpawnFails, Replies, BasicInv, TypeOK
<1>4. CASE proc' = Reaped(Pids)
  <2>1. /\ req' \in [Handlers -> Request]
        /\ \A g \in Handlers : /\ SoundRequest(req'[g])
                               /\ req'[g].targets \subseteq req[g].targets
    BY <1>2 DEF BasicInv, TypeOK, RequestsAreSound
  <2> QED BY <1>1, <1>4, <2>1, ReapedBasic
<1> QED BY <1>3, <1>4 DEF SpawnFails


---------------------------------------------------------------------------
(* Steps that create processes, and the steps of the runner.               *)

(* A pid that a fork can return names nothing that exists.                 *)
LEMMA FreeIsNotLive ==
  ASSUME NEW p \in FreePids
  PROVE  p \in Pids /\ proc[p].st \notin {"live", "zombie"}
BY DEF FreePids

(* The launch of a runner keeps the invariant.                             *)
LEMMA SpawnBasic ==
  ASSUME BasicInv, NEW h \in Handlers, Spawn(h)
  PROVE  BasicInv'
<1>1. PICK p \in FreePids :
        /\ proc' = [Reaped(Pids) EXCEPT ![p] = Runner(req[h].id, req[h].n)]
        /\ req' = [g \in Handlers |->
                    [Forgetting(req[g], p) EXCEPT !.pc = IF g = h THEN "setlast" ELSE @]]
  BY DEF Spawn
<1>2. /\ req[h] \in Request /\ SoundRequest(req[h]) /\ agent # NoPid /\ agent \in Pids
      /\ req[h].pc = "spawn" /\ UNCHANGED <<agent, file, last>>
      /\ TypeOK
  BY AtWork DEF Spawn, At, BasicInv
<1>3. p \in Pids /\ p # agent
  BY <1>2, FreeIsNotLive DEF BasicInv, AgentIsAlive, Live
<1>4. Runner(req[h].id, req[h].n) \in Process /\ req[h].n > 0
  BY <1>2 DEF Runner, Process, Request, SoundRequest, RunnerSteps, WritingSteps
<1>5. proc' \in [Pids -> Process]
  BY <1>1, <1>2, <1>4, ReapedType
<1>6. \A g \in Handlers : /\ req'[g] \in Request
                          /\ SoundRequest(req'[g])
                          /\ req'[g].targets \subseteq req[g].targets
  <2> SUFFICES ASSUME NEW g \in Handlers
               PROVE  /\ req'[g] \in Request
                      /\ SoundRequest(req'[g])
                      /\ req'[g].targets \subseteq req[g].targets
    OBVIOUS
  <2> DEFINE f == Forgetting(req[g], p)
  <2>1. req[g] \in Request /\ SoundRequest(req[g])
    BY DEF BasicInv, TypeOK, RequestsAreSound
  <2>2. f \in Request /\ SoundRequest(f) /\ f.targets \subseteq req[g].targets
        /\ f.pc = req[g].pc /\ f.op = req[g].op
    BY <2>1, ForgettingFields DEF SoundRequest
  <2>3. req'[g] = [f EXCEPT !.pc = IF g = h THEN "setlast" ELSE @]
    BY <1>1
  <2> HIDE DEF f
  <2>4. CASE g = h
    BY <1>2, <2>2, <2>3, <2>4 DEF Request, SoundRequest, Pcs
  <2>5. CASE g # h
    <3>1. req'[g] = f
      BY <2>2, <2>3, <2>5 DEF Request
    <3> QED BY <2>2, <3>1
  <2> QED BY <2>4, <2>5
<1>7. req' \in [Handlers -> Request]
  BY <1>1, <1>6
<1>8. /\ proc'[agent].st = "live"
      /\ proc'[agent].kind = "agent"
      /\ proc'[agent].parent = Reaper
  <2>1. proc'[agent] = Reaped(Pids)[agent]
    BY <1>1, <1>2, <1>3, ReapedType
  <2> QED BY <1>2, <2>1, ReapedFields DEF BasicInv, AgentIsAlive, Live
<1>9. RunnersAreSound'
  <2> SUFFICES ASSUME NEW q \in Pids
               PROVE  proc'[q].at \in {"schedule", "progress", "shell", "wait"}
                        => proc'[q].left > 0
    BY DEF RunnersAreSound
  <2>1. CASE q = p
    BY <1>1, <1>2, <1>4, <2>1, ReapedType DEF Runner
  <2>2. CASE q # p
    <3>1. proc'[q] = Reaped(Pids)[q]
      BY <1>1, <1>2, <2>2, ReapedType
    <3> QED BY <1>2, <3>1, ReapedFields DEF BasicInv, RunnersAreSound
  <2> QED BY <2>1, <2>2
<1> QED
  BY <1>2, <1>5, <1>6, <1>7, <1>8, <1>9, BasicStep
     DEF BasicInv, TypeOK, AgentNeverTargeted

(* A step that changes only a runner's own entry of the table.             *)
LEMMA RunnerBasic ==
  ASSUME BasicInv, NEW p \in Pids, proc[p].kind = "runner", NEW r \in Process,
         proc' = [proc EXCEPT ![p] = r],
         r.at \in {"schedule", "progress", "shell", "wait"} => r.left > 0,
         file' \in [Ids -> FileRecord],
         UNCHANGED <<agent, last, req>>
  PROVE  BasicInv'
<1>1. agent # NoPid => p # agent /\ agent \in Pids
  BY DEF BasicInv, AgentIsAlive, TypeOK
<1>2. proc' \in [Pids -> Process]
  BY DEF BasicInv, TypeOK
<1>3. RunnersAreSound'
  BY DEF BasicInv, TypeOK, RunnersAreSound
<1> QED
  BY <1>1, <1>2, <1>3, BasicStep
     DEF BasicInv, TypeOK, AgentIsAlive, AgentNeverTargeted, RequestsAreSound, Live

(* Every step of a runner keeps the invariant.                             *)
LEMMA RunnerStepBasic ==
  ASSUME BasicInv, NEW p \in Pids, RunnerStep(p)
  PROVE  BasicInv'
<1> USE DEF IsRunnerAt
<1>1. /\ proc[p] \in Process /\ proc \in [Pids -> Process]
      /\ file \in [Ids -> FileRecord]
      /\ req \in [Handlers -> Request]
      /\ proc[p].cid \in Ids
      /\ \A h \in Handlers : SoundRequest(req[h])
      /\ proc[p].at \in {"schedule", "progress", "shell", "wait"} => proc[p].left > 0
  BY DEF BasicInv, TypeOK, Process, RequestsAreSound, RunnersAreSound
<1>2. CASE RunnerOpens(p)
  <2> DEFINE r == [proc[p] EXCEPT !.opened = TRUE]
  <2>1. r \in Process /\ r.at = proc[p].at /\ r.left = proc[p].left
    BY <1>1 DEF Process
  <2>2. proc' = [proc EXCEPT ![p] = r] /\ proc[p].kind = "runner"
    BY <1>2 DEF RunnerOpens
  <2>3. file' \in [Ids -> FileRecord]
    BY <1>1, <1>2, TruncateType DEF RunnerOpens, BasicInv
  <2> QED BY <1>1, <1>2, <2>1, <2>2, <2>3, RunnerBasic DEF RunnerOpens
<1>3. CASE RunnerWrites(p)
  <2>1. PICK at \in WritingSteps :
          /\ IsRunnerAt(p, at)
          /\ Put(proc[p].cid, IF at = "final" THEN "finished" ELSE "started", p)
          /\ proc' = [proc EXCEPT ![p].opened = FALSE, ![p].at = StepAfter(at, proc[p].left)]
          /\ UNCHANGED <<agent, last, req>>
    BY <1>3 DEF RunnerWrites
  <2> DEFINE r == [proc[p] EXCEPT !.opened = FALSE, !.at = StepAfter(at, proc[p].left)]
  <2>2. /\ StepAfter(at, proc[p].left) \in RunnerSteps
        /\ StepAfter(at, proc[p].left) \in {"schedule", "progress", "shell", "wait"}
             => proc[p].left > 0
    BY <1>1, <2>1 DEF StepAfter, WritingSteps, RunnerSteps
  <2>3. /\ r \in Process
        /\ r.at \in {"schedule", "progress", "shell", "wait"} => r.left > 0
    BY <1>1, <2>2 DEF Process
  <2>4. file' \in [Ids -> FileRecord]
    BY <1>1, <2>1, PutType DEF Parsed, BasicInv
  <2>5. proc' = [proc EXCEPT ![p] = r]
    BY <2>1
  <2> QED BY <2>1, <2>3, <2>4, <2>5, RunnerBasic
<1>4. CASE RunnerForks(p)
  <2>1. PICK s \in FreePids, ignoresTerm \in {FALSE, Stubborn} :
          /\ proc' = [proc EXCEPT ![p].at = "wait", ![s] = Shell(p, ignoresTerm)]
          /\ req' = [h \in Handlers |-> Forgetting(req[h], s)]
    BY <1>4 DEF RunnerForks
  <2>2. s \in Pids /\ s # p /\ (agent # NoPid => s # agent /\ p # agent)
    <3>1. s \in Pids /\ proc[s].st # "live"
      BY <2>1, FreeIsNotLive
    <3>2. proc[p].st = "live" /\ proc[p].kind = "runner"
      BY <1>4 DEF RunnerForks, Live
    <3>3. agent # NoPid => proc[agent].st = "live" /\ proc[agent].kind = "agent"
      BY DEF BasicInv, AgentIsAlive, Live
    <3> QED BY <3>1, <3>2, <3>3
  <2>3. Shell(p, ignoresTerm) \in Process /\ [proc[p] EXCEPT !.at = "wait"] \in Process
    <3>1. ignoresTerm \in BOOLEAN
      BY Constants
    <3>2. Shell(p, ignoresTerm) \in Process
      BY <1>1, <3>1, Constants DEF Shell, Process
    <3>3. [proc[p] EXCEPT !.at = "wait"] \in Process
      BY <1>1 DEF Process, RunnerSteps
    <3> QED BY <3>2, <3>3
  <2>4. proc' \in [Pids -> Process]
    BY <1>1, <2>1, <2>2, <2>3
  <2>5. \A h \in Handlers : /\ req'[h] \in Request /\ SoundRequest(req'[h])
                            /\ req'[h].targets \subseteq req[h].targets
    BY <1>1, <2>1, ForgettingFields DEF SoundRequest
  <2>6. req' \in [Handlers -> Request]
    BY <2>1, <2>5
  <2>7. agent = NoPid => req' = req
    <3>1. Forgetting(Idle, s) = Idle
      <4>1. Idle.todo \ {s} = Idle.todo /\ Idle.targets \ {s} = Idle.targets
        BY DEF Idle, Asking
      <4>2. Forgetting(Idle, s) = [Idle EXCEPT !.todo = Idle.todo, !.targets = Idle.targets]
        BY <4>1 DEF Forgetting
      <4>3. [Idle EXCEPT !.todo = Idle.todo, !.targets = Idle.targets] = Idle
        BY DEF Idle, Asking
      <4> QED BY <4>2, <4>3
    <3>2. agent = NoPid => \A h \in Handlers : req[h] = Idle
      BY DEF BasicInv, AgentIsAlive
    <3>3. agent = NoPid => \A h \in Handlers : req'[h] = req[h]
      BY <2>1, <3>1, <3>2
    <3> QED BY <1>1, <2>6, <3>3
  <2>8. RunnersAreSound'
    <3> SUFFICES ASSUME NEW q \in Pids
                 PROVE  proc'[q].at \in {"schedule", "progress", "shell", "wait"}
                          => proc'[q].left > 0
      BY DEF RunnersAreSound
    <3>1. CASE q = p
      <4>1. proc'[q].left = proc[p].left /\ proc[p].at = "shell"
        BY <1>1, <1>4, <2>1, <2>2, <3>1 DEF RunnerForks, Process
      <4> QED BY <1>1, <4>1
    <3>2. CASE q = s
      BY <1>1, <2>1, <2>2, <3>2 DEF Shell
    <3>3. CASE q # p /\ q # s
      BY <1>1, <2>1, <3>3 DEF RunnersAreSound, BasicInv
    <3> QED BY <3>1, <3>2, <3>3
  <2>9. UNCHANGED <<agent, file, last>>
    BY <1>4 DEF RunnerForks
  <2> QED
    BY <1>1, <2>1, <2>2, <2>4, <2>5, <2>6, <2>7, <2>8, <2>9, BasicStep
       DEF BasicInv, TypeOK, AgentIsAlive, AgentNeverTargeted, Live
<1>5. CASE RunnerAborts(p) \/ RunnerExits(p)
  <2>1. proc[p].kind = "runner" /\ UNCHANGED <<agent, file, last, req>>
    BY <1>5 DEF RunnerAborts, RunnerExits
  <2>2. p # agent
    BY <2>1, Constants DEF BasicInv, AgentIsAlive
  <2>3. PICK how \in {"exited", "killed"} : proc' = Ended(p, how)
    BY <1>5 DEF RunnerAborts, RunnerExits
  <2> QED BY <1>1, <2>1, <2>2, <2>3, EndedBasic
<1>6. CASE RunnerResumes(p)
  <2> DEFINE r == [proc[p] EXCEPT !.at = "complete", !.left = @ - 1]
  <2>1. proc[p].left \in Nat /\ proc[p].left > 0 /\ proc[p].left <= MaxCmds
    BY <1>1, <1>6, Constants DEF RunnerResumes, Process
  <2>2. r \in Process /\ r.at = "complete"
    <3>1. proc[p].left - 1 \in 0..MaxCmds
      BY <2>1, Constants
    <3> QED BY <1>1, <3>1 DEF Process, RunnerSteps, WritingSteps
  <2>3. proc' = [proc EXCEPT ![p] = r] /\ proc[p].kind = "runner"
    BY <1>6 DEF RunnerResumes
  <2> QED BY <1>1, <1>6, <2>2, <2>3, RunnerBasic DEF RunnerResumes
<1> QED BY <1>2, <1>3, <1>4, <1>5, <1>6 DEF RunnerStep

(* The end of a command keeps the invariant.                               *)
LEMMA ShellExitsBasic ==
  ASSUME BasicInv, NEW p \in Pids, ShellExits(p)
  PROVE  BasicInv'
<1>1. agent = p => FALSE
  BY Constants DEF ShellExits, BasicInv, AgentIsAlive
<1> QED
  BY <1>1, EndedBasic DEF ShellExits, BasicInv, TypeOK, RequestsAreSound


---------------------------------------------------------------------------
(* The agent dies, and is started again.                                   *)

(* The death of the agent keeps the invariant.                             *)
LEMMA CrashBasic ==
  ASSUME BasicInv, Crash
  PROVE  BasicInv'
<1>1. /\ proc \in [Pids -> Process] /\ agent \in Pids
      /\ proc[agent].kind = "agent" /\ proc[agent].parent = Reaper
  BY DEF Crash, BasicInv, TypeOK, AgentIsAlive
<1>2. \A q \in Pids :
        /\ proc'[q] \in Process
        /\ q # agent => proc'[q].at = proc[q].at /\ proc'[q].left = proc[q].left
        /\ q = agent => proc'[q].at = "killed"
  <2> SUFFICES ASSUME NEW q \in Pids
               PROVE  /\ proc'[q] \in Process
                      /\ q # agent => proc'[q].at = proc[q].at /\ proc'[q].left = proc[q].left
                      /\ q = agent => proc'[q].at = "killed"
    OBVIOUS
  <2>1. CASE q = agent
    <3>1. proc'[q] = [proc[q] EXCEPT !.st = "gone", !.at = "killed"]
      BY <2>1 DEF Crash
    <3>2. proc[q] \in Process
      BY <1>1
    <3>3. proc'[q] \in Process
      BY <3>1, <3>2 DEF Process
    <3>4. proc'[q].at = "killed"
      BY <3>1, <3>2 DEF Process
    <3> QED BY <2>1, <3>3, <3>4
  <2>2. CASE q # agent /\ proc[q].parent = agent
    <3>1. proc'[q] = [proc[q] EXCEPT !.parent = Reaper,
                                     !.st = IF @ = "zombie" THEN "gone" ELSE @]
      BY <2>2 DEF Crash
    <3>2. proc[q] \in Process
      BY <1>1
    <3>3. proc'[q] \in Process
      BY <3>1, <3>2 DEF Process
    <3>4. proc'[q].at = proc[q].at /\ proc'[q].left = proc[q].left
      BY <3>1, <3>2 DEF Process
    <3> QED BY <2>2, <3>3, <3>4
  <2>3. CASE q # agent /\ proc[q].parent # agent
    <3>1. proc'[q] = proc[q]
      BY <2>3 DEF Crash
    <3> QED BY <1>1, <2>3, <3>1
  <2> QED BY <2>1, <2>2, <2>3
<1>3. TypeOK'
  <2>1. proc' \in [Pids -> Process]
    BY <1>2 DEF Crash
  <2>2. req' \in [Handlers -> Request]
    BY IdleType DEF Crash
  <2> QED BY <2>1, <2>2 DEF Crash, BasicInv, TypeOK
<1>4. AgentIsAlive'
  BY DEF Crash, AgentIsAlive
<1>5. RequestsAreSound' /\ AgentNeverTargeted'
  BY DEF Crash, RequestsAreSound, SoundRequest, AgentNeverTargeted, Idle, Asking
<1>6. RunnersAreSound'
  BY <1>2 DEF BasicInv, RunnersAreSound
<1> QED BY <1>3, <1>4, <1>5, <1>6 DEF BasicInv

(* A new agent keeps the invariant.                                        *)
LEMMA RestartBasic ==
  ASSUME BasicInv, Restart
  PROVE  BasicInv'
<1>1. PICK p \in FreePids : agent' = p /\ proc' = [proc EXCEPT ![p] = AgentProcess]
  BY DEF Restart
<1>2. p \in Pids /\ p # NoPid /\ AgentProcess \in Process
  BY <1>1, FreeIsNotLive, Constants DEF AgentProcess, Process
<1>3. /\ agent = NoPid /\ UNCHANGED <<file, req>> /\ last' = InitialId
      /\ \A h \in Handlers : req[h] = Idle
  BY DEF Restart, BasicInv, AgentIsAlive
<1>4. TypeOK'
  BY <1>1, <1>2, <1>3, Constants DEF BasicInv, TypeOK
<1>5. AgentIsAlive'
  BY <1>1, <1>2 DEF AgentIsAlive, AgentProcess, Live, BasicInv, TypeOK
<1>6. RequestsAreSound' /\ AgentNeverTargeted'
  BY <1>3 DEF BasicInv, RequestsAreSound, SoundRequest, AgentNeverTargeted, Idle, Asking
<1>7. RunnersAreSound'
  BY <1>1, <1>2 DEF RunnersAreSound, AgentProcess, BasicInv, TypeOK
<1> QED BY <1>4, <1>5, <1>6, <1>7 DEF BasicInv

(* A step that changes nothing keeps the invariant.                        *)
LEMMA BasicStutters ==
  ASSUME BasicInv, UNCHANGED vars
  PROVE  BasicInv'
BY DEF vars, BasicInv, TypeOK, AgentIsAlive, RequestsAreSound, SoundRequest,
       RunnersAreSound, AgentNeverTargeted, Live

(* Every step keeps the invariant.                                         *)
LEMMA BasicNext ==
  ASSUME BasicInv, [Next]_vars
  PROVE  BasicInv'
<1>1. CASE UNCHANGED vars
  BY <1>1, BasicStutters
<1>2. ASSUME NEW h \in Handlers, Accept(h) PROVE BasicInv'
  BY <1>2, AcceptBasic
<1>3. ASSUME NEW h \in Handlers, Handle(h) PROVE BasicInv'
  BY <1>3, FileAndReplyStepsBasic, ReadPidBasic, SnapshotTreeBasic, SignalBasic,
     WaitDoneBasic, SpawnBasic, SpawnFailsBasic DEF Handle
<1>4. ASSUME NEW p \in Pids, RunnerStep(p) PROVE BasicInv'
  BY <1>4, RunnerStepBasic
<1>5. ASSUME NEW p \in Pids, ShellExits(p) PROVE BasicInv'
  BY <1>5, ShellExitsBasic
<1>6. CASE Crash
  BY <1>6, CrashBasic
<1>7. CASE Restart
  BY <1>7, RestartBasic
<1> QED BY <1>1, <1>2, <1>3, <1>4, <1>5, <1>6, <1>7 DEF Next

(* The inductive invariant: types, a live agent that no request targets,   *)
(* requests and runners that are where their handlers can have left them.  *)
THEOREM BasicInvariance == Spec => []BasicInv
<1>1. Init => BasicInv
  BY BasicInit
<1>2. BasicInv /\ [Next]_vars => BasicInv'
  BY BasicNext
<1> QED BY <1>1, <1>2, PTL DEF Spec

(* Type correctness: whatever the numbers of ids, pids, threads and        *)
(* commands, every variable stays in the set that the model gives it.      *)
THEOREM TypeCorrectness == Spec => []TypeOK
<1>1. BasicInv => TypeOK
  BY DEF BasicInv
<1> QED BY <1>1, BasicInvariance, PTL

(* kill_proc_tree never signals the agent: with any number of concurrent   *)
(* requests, crashes of the agent and recycled pids.                       *)
THEOREM AgentIsSpared == Spec => []AgentNeverTargeted
<1>1. BasicInv => AgentNeverTargeted
  BY DEF BasicInv
<1> QED BY <1>1, BasicInvariance, PTL


---------------------------------------------------------------------------
(* Signalled processes.                                                    *)

(* A process that stays a target of a request across a step was alive      *)
(* before the step if it is after it: a pid that is given to a new process *)
(* is no longer a target.                                                  *)
LEMMA StillTargeted ==
  ASSUME BasicInv, [Next]_vars, NEW g \in Handlers,
         NEW p \in req[g].targets, p \in req'[g].targets,
         Live(p)'
  PROVE  Live(p) /\ proc'[p].hard = proc[p].hard
<1> USE DEF Live
<1>1. TypeOK /\ p \in Pids
  BY DEF BasicInv, TypeOK, Request
<1>2. CASE proc' = proc
  BY <1>2
<1>3. ASSUME NEW ps, proc' = Reaped(ps) PROVE Live(p) /\ proc'[p].hard = proc[p].hard
  BY <1>1, <1>3, ReapedFields
<1>4. ASSUME NEW q \in Pids, NEW how, proc' = Ended(q, how)
      PROVE  Live(p) /\ proc'[p].hard = proc[p].hard
  <2>1. p # q
    BY <1>4, EndedSelf
  <2> QED BY <1>1, <1>4, <2>1, EndedOther
<1>5. ASSUME NEW h \in Handlers, Handle(h)
      PROVE  Live(p) /\ proc'[p].hard = proc[p].hard
  <2>1. CASE Signal(h)
    BY <1>2, <1>4, <2>1 DEF Signal
  <2>2. CASE WaitGone(h) \/ WaitTimeout(h)
    BY <1>3, <2>2 DEF WaitGone, WaitTimeout, WaitDone
  <2>3. CASE SpawnFails(h)
    BY <1>2, <1>3, <2>3 DEF SpawnFails
  <2>4. CASE Spawn(h)
    <3>1. PICK s \in FreePids :
            /\ proc' = [Reaped(Pids) EXCEPT ![s] = Runner(req[h].id, req[h].n)]
            /\ req' = [f \in Handlers |->
                        [Forgetting(req[f], s) EXCEPT !.pc = IF f = h THEN "setlast" ELSE @]]
      BY <2>4 DEF Spawn
    <3>2. req[g] \in Request
      BY <1>1 DEF TypeOK
    <3>3. req'[g].targets = req[g].targets \ {s}
      BY <3>1, <3>2, ForgettingFields DEF Request
    <3>4. proc'[p] = Reaped(Pids)[p]
      BY <1>1, <3>1, <3>3, ReapedType
    <3> QED BY <1>1, <3>4, ReapedFields
  <2>5. CASE ~(Signal(h) \/ WaitGone(h) \/ WaitTimeout(h) \/ SpawnFails(h) \/ Spawn(h))
    BY <1>2, <1>5, <2>5
       DEF Handle, CheckFile, InitOpen, InitPut, ReadInfo, ReadPid, SnapshotTree,
           SnapshotFails, SignalsSent, SetLast, Respond
  <2> QED BY <2>1, <2>2, <2>3, <2>4, <2>5
<1>6. ASSUME NEW q \in Pids, RunnerStep(q) \/ ShellExits(q)
      PROVE  Live(p) /\ proc'[p].hard = proc[p].hard
  <2> USE DEF IsRunnerAt
  <2>1. CASE RunnerAborts(q) \/ RunnerExits(q) \/ ShellExits(q)
    BY <1>4, <2>1 DEF RunnerAborts, RunnerExits, ShellExits
  <2>2. CASE RunnerForks(q)
    <3>1. PICK s \in FreePids, ignoresTerm \in {FALSE, Stubborn} :
            /\ proc' = [proc EXCEPT ![q].at = "wait", ![s] = Shell(q, ignoresTerm)]
            /\ req' = [h \in Handlers |-> Forgetting(req[h], s)]
      BY <2>2 DEF RunnerForks
    <3>2. req[g] \in Request
      BY <1>1 DEF TypeOK
    <3>3. req'[g].targets = req[g].targets \ {s}
      BY <3>1, <3>2, ForgettingFields DEF Request
    <3>4. proc'[p] = IF p = q THEN [proc[p] EXCEPT !.at = "wait"] ELSE proc[p]
      BY <1>1, <3>1, <3>3 DEF TypeOK
    <3> QED BY <1>1, <3>4 DEF TypeOK, Process
  <2>3. CASE RunnerOpens(q) \/ RunnerWrites(q) \/ RunnerResumes(q)
    BY <1>1, <2>3 DEF RunnerOpens, RunnerWrites, RunnerResumes, TypeOK, Process
  <2> QED BY <1>6, <2>1, <2>2, <2>3 DEF RunnerStep
<1>7. ASSUME NEW h \in Handlers, Accept(h) PROVE proc' = proc
  BY <1>7 DEF Accept, ReceiveStart, ReceiveEmptyStart, ReceiveById, ReceiveInfoLast,
              ReceiveStopAll, Receive
<1>8. CASE Crash \/ Restart
  <2>1. req'[g] = Idle
    BY <1>8 DEF Crash, Restart, BasicInv, AgentIsAlive
  <2> QED BY <2>1 DEF Idle, Asking
<1>9. CASE UNCHANGED vars
  BY <1>2, <1>9 DEF vars
<1> QED BY <1>2, <1>5, <1>6, <1>7, <1>8, <1>9 DEF Next


(* SignalsAreSound and SignalledAreDead, for one request thread.           *)
SignalsOf(h) ==
  /\ req[h].pc \in {"idle", "check", "initopen", "initput", "read", "snapshot"} =>
        req[h].targets = {}
  /\ req[h].pc = "signal" =>
        \A p \in req[h].targets \ req[h].todo : Live(p) => proc[p].hard
  /\ req[h].pc \in {"wait", "spawn", "setlast", "reply"} =>
        \A p \in req[h].targets : Live(p) => proc[p].hard

(* The invariant about signals, thread by thread.                          *)
LEMMA SignalsOfAll ==
  SignalsAreSound /\ SignalledAreDead <=> \A h \in Handlers : SignalsOf(h)
BY DEF SignalsAreSound, SignalledAreDead, SignalsOf

(* A thread that stays where it is, or whose handler goes on without new   *)
(* targets once all the signals are sent.                                  *)
LEMMA SignalsKept ==
  ASSUME BasicInv, [Next]_vars, NEW g \in Handlers, SignalsOf(g),
         \/ req'[g].targets = {}
         \/ /\ req'[g].targets \subseteq req[g].targets
            /\ req'[g].pc = req[g].pc
            /\ req'[g].todo = req[g].todo \cap req'[g].targets
         \/ /\ req'[g].targets = req[g].targets
            /\ req[g].pc = "signal" /\ req[g].todo = {}
            /\ req'[g].pc = "wait"
         \/ /\ req'[g].targets = req[g].targets
            /\ req[g].pc \in {"wait", "spawn", "setlast", "reply"}
            /\ req'[g].pc \in {"spawn", "setlast", "reply"}
  PROVE  SignalsOf(g)'
<1>1. CASE req'[g].targets = {}
  BY <1>1 DEF SignalsOf
<1>2. CASE req'[g].targets \subseteq req[g].targets
  <2>1. \A p \in req'[g].targets : Live(p)' => Live(p) /\ proc'[p].hard = proc[p].hard
    BY <1>2, StillTargeted
  <2> QED BY <1>2, <2>1 DEF SignalsOf
<1> QED BY <1>1, <1>2

(* A step of a handler keeps what is known of its own signals.             *)
LEMMA HandleSignals ==
  ASSUME KillInv, NEW h \in Handlers, Handle(h), NEW g \in Handlers
  PROVE  SignalsOf(g)'
<1> USE DEF At
<1>1. /\ BasicInv /\ [Next]_vars /\ SignalsOf(g) /\ SignalsOf(h)
      /\ req[g] \in Request /\ req[h] \in Request /\ SoundRequest(req[g])
      /\ req \in [Handlers -> Request]
  BY SignalsOfAll DEF KillInv, Next, BasicInv, TypeOK, RequestsAreSound
<1>2. CASE g # h
  <2>1. CASE Spawn(h)
    <3>1. PICK s \in FreePids :
            req' = [f \in Handlers |->
                      [Forgetting(req[f], s) EXCEPT !.pc = IF f = h THEN "setlast" ELSE @]]
      BY <2>1 DEF Spawn
    <3>2. /\ req'[g].targets = req[g].targets \ {s}
          /\ req'[g].todo = req[g].todo \ {s}
          /\ req'[g].pc = req[g].pc
      BY <1>1, <1>2, <3>1, ForgettingFields DEF Request
    <3> QED BY <1>1, <3>2, SignalsKept DEF SoundRequest
  <2>2. CASE ~Spawn(h)
    <3>1. req'[g] = req[g]
      BY <1>1, <1>2, <2>2
         DEF Handle, CheckFile, InitOpen, InitPut, ReadInfo, ReadPid, SnapshotTree,
             SnapshotFails, Signal, SignalsSent, WaitGone, WaitTimeout, WaitDone,
             SpawnFails, SetLast, Respond, Goto, Answer
    <3> QED BY <1>1, <3>1, SignalsKept DEF SoundRequest
  <2> QED BY <2>1, <2>2
<1>3. CASE g = h
  <2>1. CASE CheckFile(h) \/ InitOpen(h) \/ InitPut(h) \/ ReadInfo(h) \/ ReadPid(h)
             \/ SnapshotFails(h)
    <3>1. req'[h].targets = req[h].targets /\ req[h].targets = {}
      BY <1>1, <2>1
         DEF CheckFile, InitOpen, InitPut, ReadInfo, ReadPid, SnapshotFails, Goto, Answer,
             SignalsOf, Request
    <3> QED BY <1>1, <1>3, <3>1, SignalsKept
  <2>2. CASE SnapshotTree(h)
    BY <1>1, <1>3, <2>2 DEF SnapshotTree, SignalsOf, Request
  <2>3. CASE Signal(h)
    <3>1. PICK p \in Pids :
            /\ NextToSignal(h, p)
            /\ proc' = IF Live(p) /\ ~proc[p].hard THEN Ended(p, "killed") ELSE proc
            /\ req' = [req EXCEPT ![h].todo = @ \ {p}]
      BY <2>3 DEF Signal
    <3>2. /\ req'[h].targets = req[h].targets /\ req'[h].pc = "signal" /\ req[h].pc = "signal"
          /\ req'[h].todo = req[h].todo \ {p}
      BY <1>1, <2>3, <3>1 DEF Signal, Request
    <3>3. \A q \in req[h].targets \ req[h].todo : Live(q)' => proc'[q].hard
      BY <1>1, <3>2, StillTargeted DEF SignalsOf
    <3>4. Live(p)' => proc'[p].hard
      BY <3>1, EndedSelf DEF Live
    <3>5. \A q \in req'[h].targets \ req'[h].todo : Live(q)' => proc'[q].hard
      BY <3>2, <3>3, <3>4
    <3> QED BY <1>3, <3>2, <3>5 DEF SignalsOf
  <2>4. CASE SignalsSent(h)
    BY <1>1, <1>3, <2>4, SignalsKept DEF SignalsSent, Goto, Request
  <2>5. CASE WaitGone(h) \/ WaitTimeout(h) \/ SpawnFails(h) \/ SetLast(h)
    <3>1. /\ req'[h].targets = req[h].targets
          /\ req[h].pc \in {"wait", "spawn", "setlast"}
          /\ req'[h].pc \in {"spawn", "reply"}
      BY <1>1, <2>5
         DEF WaitGone, WaitTimeout, WaitDone, SpawnFails, SetLast, Goto, Answer, Request
    <3> QED BY <1>1, <1>3, <3>1, SignalsKept
  <2>6. CASE Spawn(h)
    <3>1. PICK s \in FreePids :
            req' = [f \in Handlers |->
                      [Forgetting(req[f], s) EXCEPT !.pc = IF f = h THEN "setlast" ELSE @]]
      BY <2>6 DEF Spawn
    <3>2. req'[h].targets = req[h].targets \ {s} /\ req[h].pc = "spawn"
          /\ req'[h].pc = "setlast"
      BY <1>1, <2>6, <3>1, ForgettingFields DEF Spawn, Request
    <3>3. \A q \in req'[h].targets : Live(q)' => proc'[q].hard
      BY <1>1, <3>2, StillTargeted DEF SignalsOf
    <3> QED BY <1>3, <3>2, <3>3 DEF SignalsOf
  <2>7. CASE Respond(h)
    BY <1>1, <1>3, <2>7, SignalsKept DEF Respond, Idle, Asking
  <2> QED BY <2>1, <2>2, <2>3, <2>4, <2>5, <2>6, <2>7 DEF Handle
<1> QED BY <1>2, <1>3

(* Every step keeps the invariant about signals.                           *)
LEMMA KillNext ==
  ASSUME KillInv, [Next]_vars
  PROVE  KillInv'
<1>1. BasicInv /\ BasicInv'
  BY BasicNext DEF KillInv
<1>2. /\ req \in [Handlers -> Request]
      /\ \A g \in Handlers : SignalsOf(g) /\ SoundRequest(req[g])
  BY SignalsOfAll DEF KillInv, BasicInv, TypeOK, RequestsAreSound
<1>3. ASSUME NEW g \in Handlers PROVE SignalsOf(g)'
  <2>1. ASSUME NEW h \in Handlers, Handle(h) PROVE SignalsOf(g)'
    BY <1>3, <2>1, HandleSignals
  <2>2. ASSUME NEW h \in Handlers, Accept(h) PROVE SignalsOf(g)'
    <3>1. req'[g] = req[g] \/ req'[g].targets = {}
      BY <1>2, <2>2
         DEF Accept, ReceiveStart, ReceiveEmptyStart, ReceiveById, ReceiveInfoLast,
             ReceiveStopAll, Receive, Asking
    <3> QED BY <1>1, <1>2, <1>3, <3>1, SignalsKept DEF SoundRequest
  <2>3. ASSUME NEW p \in Pids, RunnerStep(p) \/ ShellExits(p) PROVE SignalsOf(g)'
    <3>1. CASE RunnerForks(p)
      <4>1. PICK s \in FreePids : req' = [h \in Handlers |-> Forgetting(req[h], s)]
        BY <3>1 DEF RunnerForks
      <4>2. /\ req'[g].targets = req[g].targets \ {s}
            /\ req'[g].todo = req[g].todo \ {s}
            /\ req'[g].pc = req[g].pc
        BY <1>2, <1>3, <4>1, ForgettingFields
      <4> QED BY <1>1, <1>2, <1>3, <4>2, SignalsKept DEF SoundRequest
    <3>2. CASE req' = req
      BY <1>1, <1>2, <1>3, <3>2, SignalsKept DEF SoundRequest
    <3> QED
      BY <2>3, <3>1, <3>2
         DEF RunnerStep, RunnerOpens, RunnerWrites, RunnerAborts, RunnerResumes, RunnerExits,
             ShellExits
  <2>4. CASE Crash \/ Restart
    <3>1. req'[g] = Idle
      BY <1>1, <1>3, <2>4 DEF Crash, Restart, BasicInv, AgentIsAlive
    <3> QED BY <3>1 DEF SignalsOf, Idle, Asking
  <2>5. CASE UNCHANGED vars
    BY <1>1, <1>2, <1>3, <2>5, SignalsKept DEF SoundRequest, vars
  <2> QED BY <2>1, <2>2, <2>3, <2>4, <2>5 DEF Next
<1>4. SignalsAreSound' /\ SignalledAreDead'
  BY <1>3 DEF SignalsOf, SignalsAreSound, SignalledAreDead
<1> QED BY <1>1, <1>4 DEF KillInv

(* No process of a tree that was signalled is alive and heeds SIGTERM, at  *)
(* any point of the loop of kill_proc_tree: also when other requests kill  *)
(* and start processes meanwhile and the kernel recycles the pids.         *)
THEOREM KillInvariance == Spec => []KillInv
<1>1. Init => KillInv
  <2> SUFFICES ASSUME Init PROVE KillInv
    OBVIOUS
  <2>1. BasicInv
    BY BasicInit
  <2>2. \A h \in Handlers : req[h] = Idle
    BY DEF Init
  <2>3. SignalsAreSound /\ SignalledAreDead
    BY <2>2 DEF SignalsAreSound, SignalledAreDead, Idle, Asking
  <2> QED BY <2>1, <2>3 DEF KillInv
<1>2. KillInv /\ [Next]_vars => KillInv'
  BY KillNext
<1> QED BY <1>1, <1>2, PTL DEF Spec

(* After the loop of kill_proc_tree, no process that it took for the tree  *)
(* is alive unless it ignores SIGTERM.                                     *)
THEOREM KillsAreEffective == Spec => []SignalledAreDead
<1>1. KillInv => SignalledAreDead
  BY DEF KillInv
<1> QED BY <1>1, KillInvariance, PTL

=============================================================================
