------------------------- MODULE YamlRequestsProofs -------------------------
(* Proofs about YamlRequests, for any number of threads, texts, variables  *)
(* and commands. It is composed of VirtualEnv and CommandExec: its steps   *)
(* are steps of theirs, and what was proved of them holds of it.           *)
EXTENDS YamlRequests, YamlCommandsProofs

(* The pairs that a request has come with: those of the text, if it can be *)
(* run, and before them those that the handler sets itself.                *)
OwnPairs == <<[key |-> "TEMPLATE", value |-> "own"], [key |-> "VARIABLES", value |-> "own"]>>
Before(kind) == IF kind = "memory" THEN OwnPairs ELSE <<>>
PairsWith(kind, config) == Before(kind) \o PairsOf(config)
Came(t) == PairsWith(job[t].kind, job[t].config)

(* The proofs of the parts. Of the history of VirtualEnv only its lemmas   *)
(* about single requests are used here.                                    *)
EnvP == INSTANCE VirtualEnvProofs WITH
  req <- envReq, Keys <- EnvKeys, NoKey <- "", Template <- "TEMPLATE",
  Variables <- "VARIABLES", TemplatesDir <- "TEMPLATES_DIR",
  Requested <- {"text", "number"}, Own <- "own", Default <- "default", None <- "none",
  asked <- [t \in Threads |-> Came(t)], known <- [t \in Threads |-> {}],
  alone <- [t \in Threads |-> job[t].lone]

ExecP == INSTANCE CommandExecProofs WITH req <- execReq

---------------------------------------------------------------------------
(* The assumptions of the parts.                                           *)

LEMMA EnvAssumptions ==
  /\ EnvP!KeysAssumption /\ EnvP!ValuesAssumption
  /\ EnvP!SizeAssumption /\ EnvP!ThreadsAssumption
<1>1. EnvP!KeysAssumption
  BY KeysAssumption DEF EnvP!KeysAssumption
<1>2. EnvP!ValuesAssumption
  BY DEF EnvP!ValuesAssumption
<1>3. EnvP!SizeAssumption
  BY BoundsAssumption
     DEF EnvP!SizeAssumption, EnvP!IsFiniteSet, IsFiniteSet, EnvP!Cardinality, Cardinality
<1>4. EnvP!ThreadsAssumption
  BY ThreadsAssumption DEF EnvP!ThreadsAssumption, EnvP!IsFiniteSet, IsFiniteSet
<1> QED BY <1>1, <1>2, <1>3, <1>4

LEMMA ExecAssumptions == ExecP!BoundsAssumption /\ ExecP!ResultAssumption
BY BoundsAssumption, ResultAssumption DEF ExecP!BoundsAssumption, ExecP!ResultAssumption

---------------------------------------------------------------------------
(* The steps of the parts.                                                 *)

LEMMA PairsAreABody ==
  ASSUME NEW config \in Configs
  PROVE  PairsOf(config) \in EnvP!Bodies
<1>1. Env!Bodies = EnvP!Bodies
  BY DEF Env!Bodies, EnvP!Bodies
<1>2. config.env \in EnvP!Bodies
  BY <1>1, ConfigsAssumption DEF IsConfig
<1>3. <<>> \in EnvP!Bodies
  <2>1. <<>> \in [1..0 -> [key : EnvKeys, value : {"text", "number"}]] /\ 0 \in 0..MaxPairs
    BY BoundsAssumption
  <2> QED BY <2>1 DEF EnvP!Bodies
<1> QED BY <1>2, <1>3 DEF PairsOf

LEMMA ReceivedYaml ==
  ASSUME NEW t \in Threads, NEW config \in Configs,
         Env!Receive(t, Env!Asking("command", "member", OwnPairs \o PairsOf(config)))
  PROVE  EnvP!ReceiveCommand(t)
<1>1. EnvP!Receive(t, EnvP!Asking("command", "member", OwnPairs \o PairsOf(config)))
  BY DEF Env!Receive, EnvP!Receive, Env!Asking, EnvP!Asking, Env!At, EnvP!At
<1> QED BY <1>1, PairsAreABody DEF EnvP!ReceiveCommand, OwnPairs

LEMMA ReceivedDetachedYaml ==
  ASSUME NEW t \in Threads, NEW config \in Configs,
         Env!Receive(t, Env!Asking("set", Env!NextPc("set", PairsOf(config)), PairsOf(config)))
  PROVE  EnvP!ReceiveSet(t)
<1>1. EnvP!Receive(t, EnvP!Asking("set", EnvP!NextPc("set", PairsOf(config)), PairsOf(config)))
  BY DEF Env!Receive, EnvP!Receive, Env!Asking, EnvP!Asking, Env!At, EnvP!At,
         Env!NextPc, EnvP!NextPc
<1> QED BY <1>1, PairsAreABody DEF EnvP!ReceiveSet

LEMMA EnvSteps ==
  ASSUME NEW t \in Threads
  PROVE  /\ Env!TestMember(t) => EnvP!TestMember(t)
         /\ Env!TestSize(t) => EnvP!TestSize(t)
         /\ Env!Write(t) => EnvP!Write(t)
         /\ Env!Clear(t) => EnvP!Clear(t)
         /\ Env!ReceiveClear(t) => EnvP!ReceiveClear(t)
         /\ Env!Respond(t) => EnvP!Respond(t)
<1> USE DEF Env!At, EnvP!At, Env!Goto, EnvP!Goto, Env!Current, EnvP!Current, Env!Names,
            EnvP!Names, Env!Return, EnvP!Return, Env!NextPc, EnvP!NextPc
<1>1. Env!TestMember(t) => EnvP!TestMember(t)
  BY ZenonT(60) DEF Env!TestMember, EnvP!TestMember
<1>2. Env!TestSize(t) => EnvP!TestSize(t)
  BY ZenonT(60) DEF Env!TestSize, EnvP!TestSize, Env!Cardinality, EnvP!Cardinality
<1>3. Env!Write(t) => EnvP!Write(t)
  BY DEF Env!Write, EnvP!Write, Env!Assign, EnvP!Assign
<1>4. Env!Clear(t) => EnvP!Clear(t)
  BY DEF Env!Clear, EnvP!Clear
<1>5. /\ Env!ReceiveClear(t) => EnvP!ReceiveClear(t)
      /\ Env!Respond(t) => EnvP!Respond(t)
  BY DEF Env!ReceiveClear, EnvP!ReceiveClear, Env!Receive, EnvP!Receive, Env!Respond,
         EnvP!Respond, Env!Asking, EnvP!Asking, Env!Idle, EnvP!Idle
<1> QED BY <1>1, <1>2, <1>3, <1>4, <1>5, SMTT(30)

(* What a step of YamlRequests is to the environment.                      *)
LEMMA EnvStepOf ==
  ASSUME [Next]_vars
  PROVE  [EnvP!Next]_(EnvP!vars)
<1>1. CASE UNCHANGED envVars
  BY <1>1 DEF envVars, EnvP!vars
<1>2. ASSUME NEW t \in Threads, ReceiveYaml(t) PROVE EnvP!ReceiveCommand(t)
  BY <1>2, ReceivedYaml DEF ReceiveYaml, OwnPairs
<1>3. ASSUME NEW t \in Threads, ReceiveDetachedYaml(t) PROVE EnvP!ReceiveSet(t)
  BY <1>3, ReceivedDetachedYaml DEF ReceiveDetachedYaml
<1>4. ASSUME NEW t \in Threads, SetVariables(t) \/ ReceiveClear(t) \/ Respond(t)
      PROVE  EnvP!Next
  BY <1>4, EnvSteps DEF SetVariables, ReceiveClear, Respond, EnvP!Next
<1>5. ASSUME NEW t \in Threads,
             RunCommands(t) \/ RefuseYaml(t) \/ StartDetached(t) \/ ExecuteCommands(t)
      PROVE  UNCHANGED envVars
  BY <1>5 DEF RunCommands, RefuseYaml, StartDetached, ExecuteCommands
<1>6. UNCHANGED vars => UNCHANGED envVars
  BY DEF vars
<1> QED BY <1>1, <1>2, <1>3, <1>4, <1>5, <1>6 DEF Next, EnvP!Next

LEMMA LinesAreAList ==
  ASSUME NEW t \in Threads, job[t].config \in Configs, Valid(job[t].config)
  PROVE  LinesOf(t) \in ExecP!Lists
BY LinesAssumption DEF LinesOf, Exec!Lists, ExecP!Lists

LEMMA ExecSteps ==
  ASSUME NEW t \in Threads
  PROVE  /\ ExecuteCommands(t) => ExecP!Handle(t)
         /\ Exec!Respond(t) => ExecP!Handle(t)
         /\ Exec!ReceiveRejected(t) => ExecP!Accept(t)
         /\ RunCommands(t) /\ LinesOf(t) \in ExecP!Lists => ExecP!Accept(t)
<1> USE DEF Exec!At, ExecP!At, Exec!Goto, ExecP!Goto, Exec!Answer, ExecP!Answer,
            Exec!Asking, ExecP!Asking
<1>1. /\ Exec!SetStarted(t) => ExecP!SetStarted(t)
      /\ Exec!ClearFinished(t) => ExecP!ClearFinished(t)
      /\ Exec!ResetCommands(t) => ExecP!ResetCommands(t)
  BY DEF Exec!SetStarted, ExecP!SetStarted, Exec!ClearFinished, ExecP!ClearFinished,
         Exec!ResetCommands, ExecP!ResetCommands, Exec!Asked, ExecP!Asked,
         Exec!Scheduled, ExecP!Scheduled
<1>2. /\ Exec!Abort(t) => ExecP!Abort(t)
      /\ Exec!AllDone(t) => ExecP!AllDone(t)
      /\ Exec!WriteFirstFlag(t) => ExecP!WriteFirstFlag(t)
      /\ Exec!WriteSecondFlag(t) => ExecP!WriteSecondFlag(t)
      /\ Exec!Serialise(t) => ExecP!Serialise(t)
  BY DEF Exec!Abort, ExecP!Abort, Exec!AllDone, ExecP!AllDone, Exec!WriteFirstFlag,
         ExecP!WriteFirstFlag, Exec!WriteSecondFlag, ExecP!WriteSecondFlag,
         Exec!Serialise, ExecP!Serialise
<1>3. RunCommand(t) => ExecP!RunCommand(t)
  <2>1. \A i, from, to : Exec!Steps(t, i, from, to) => ExecP!Steps(t, i, from, to)
    BY DEF Exec!Steps, ExecP!Steps, Exec!MayRun, ExecP!MayRun
  <2>2. \A i, from, to, st, result :
          Exec!Edit(t, i, from, to, st, result) => ExecP!Edit(t, i, from, to, st, result)
    <3>1. \A c, entry : Exec!Changed(c, entry) = ExecP!Changed(c, entry)
      BY DEF Exec!Changed, ExecP!Changed, Exec!Keys, ExecP!Keys
    <3>2. Exec!Keys = ExecP!Keys
      BY DEF Exec!Keys, ExecP!Keys
    <3> QED BY <2>1, <3>1, <3>2 DEF Exec!Edit, ExecP!Edit
  <2>3. \A i : Exec!OpenEntry(t, i) => ExecP!OpenEntry(t, i)
    BY <2>1 DEF Exec!OpenEntry, ExecP!OpenEntry, Exec!Assigned, ExecP!Assigned, Exec!Keys,
                ExecP!Keys, Exec!FreshEntry, ExecP!FreshEntry
  <2>4. \A i : /\ Exec!Launch(t, i) => ExecP!Launch(t, i)
               /\ Exec!LaunchFails(t, i) => ExecP!LaunchFails(t, i)
    BY <2>1 DEF Exec!Launch, ExecP!Launch, Exec!LaunchFails, ExecP!LaunchFails
  <2>5. \A i : /\ Exec!MarkInProgress(t, i) => ExecP!MarkInProgress(t, i)
               /\ Exec!MarkFinished(t, i) => ExecP!MarkFinished(t, i)
               /\ Exec!PutResult(t, i) => ExecP!PutResult(t, i)
    BY <2>2 DEF Exec!MarkInProgress, ExecP!MarkInProgress, Exec!MarkFinished,
                ExecP!MarkFinished, Exec!PutResult, ExecP!PutResult
  <2> QED BY <2>3, <2>4, <2>5 DEF RunCommand, ExecP!RunCommand
<1>4. Exec!Respond(t) => ExecP!Respond(t)
  BY DEF Exec!Respond, ExecP!Respond, Exec!Idle, ExecP!Idle
<1>5. \A r : Exec!Receive(t, r) => ExecP!Receive(t, r)
  BY DEF Exec!Receive, ExecP!Receive
<1>6. Exec!ReceiveRejected(t) => ExecP!ReceiveRejected(t)
  BY <1>5 DEF Exec!ReceiveRejected, ExecP!ReceiveRejected
<1>7. RunCommands(t) /\ LinesOf(t) \in ExecP!Lists => ExecP!ReceiveSequential(t)
  BY <1>5 DEF RunCommands, ExecP!ReceiveSequential
<1> QED
  BY <1>1, <1>2, <1>3, <1>4, <1>6, <1>7 DEF ExecuteCommands, ExecP!Handle, ExecP!Accept

---------------------------------------------------------------------------
(* The invariant.                                                          *)

Job ==
  [kind : {"none", "memory", "detached", "clear"}, config : Configs \cup {NoConfig},
   lines : Seq(Cmds), lone : BOOLEAN, numbers : BOOLEAN]

HasText(t) == job[t].kind \in {"memory", "detached"}

(* Where the parts of a request are. Its commands run when its variables   *)
(* have been set, and only if its text is valid.                           *)
JobIsSound(t) ==
  /\ ~Busy(t) => /\ job[t].config = NoConfig /\ job[t].lines = <<>> /\ ~job[t].lone
                 /\ envReq[t] = EnvP!Idle /\ execReq[t].pc = "idle"
  /\ Busy(t) => envReq[t].pc # "idle"
  /\ HasText(t) => job[t].config \in Configs
  /\ envReq[t].op # "render"
  /\ envReq[t].pc = "clear" => Is(t, "clear")
  /\ execReq[t].pc = "idle" => execReq[t] = ExecP!Idle
  /\ execReq[t].pc # "idle" => Is(t, "memory") /\ envReq[t].pc = "reply"
  /\ execReq[t].pc \notin {"idle", "reply"} => Valid(job[t].config)
  /\ job[t].lines # <<>> => HasText(t) /\ Valid(job[t].config) /\ envReq[t].pc = "reply"
  /\ job[t].lone => \A u \in Threads \ {t} : ~Busy(u)

(* What the request has set of its variables is what set_env_var does.     *)
Story(t) == EnvP!StoryOf(envReq[t], Came(t), {}, job[t].lone, venv)

(* A pair that was refused had no name for it, or no room.                 *)
Refused(r, pairs, names) ==
  \A i \in 1..EnvP!Done(r, pairs) :
     pairs[i].key \notin r.accepted \cup SystemNames \cup {""} =>
       Cardinality(names) >= MaxSize

(* A number that is still there is yet to be replaced by a text.           *)
Owed(todo, env) ==
  /\ \A i \in 1..Len(todo) : todo[i].value # "number"
  /\ \A k \in DOMAIN env : env[k] = "number" => \E i \in 1..Len(todo) : todo[i].key = k

RefusedForRoom(t) == Refused(envReq[t], Came(t), Env!Names)
NumbersAreOwed(t) == Owed(envReq[t].todo, venv)

LoneIsSound(t) ==
  job[t].lone =>
    /\ HasText(t) => RefusedForRoom(t)
    /\ HasText(t) /\ Valid(job[t].config) /\ ~job[t].numbers => NumbersAreOwed(t)

YamlInv ==
  /\ EnvP!EnvInv /\ ExecP!ExecInv
  /\ job \in [Threads -> Job]
  /\ \A t \in Threads : JobIsSound(t) /\ Story(t) /\ LoneIsSound(t)

---------------------------------------------------------------------------
(* The parts keep their invariants.                                        *)

LEMMA InvTypes ==
  ASSUME YamlInv
  PROVE  /\ job \in [Threads -> Job]
         /\ envReq \in [Threads -> EnvP!Request]
         /\ execReq \in [Threads -> ExecP!Requests]
         /\ IsFiniteSet(Env!Names) /\ Cardinality(Env!Names) \in Nat
         /\ Env!Names = DOMAIN venv
         /\ Env!Names \cap (SystemNames \cup {""}) = {}
<1>1. EnvP!TypeOK /\ EnvP!NothingShadowed /\ ExecP!TypeOK
  BY DEF YamlInv, EnvP!EnvInv, ExecP!ExecInv
<1>2. Env!Names = DOMAIN venv /\ EnvP!Names = DOMAIN venv
  BY DEF Env!Names, EnvP!Names
<1>3. IsFiniteSet(Env!Names)
  BY <1>1, <1>2 DEF EnvP!TypeOK, EnvP!IsFiniteSet, IsFiniteSet
<1>4. Cardinality(Env!Names) \in Nat
  BY <1>3, FS_CardinalityType
<1> QED
  BY <1>1, <1>2, <1>3, <1>4
     DEF YamlInv, EnvP!TypeOK, EnvP!NothingShadowed, ExecP!TypeOK, ExecP!Requests

(* What a step of YamlRequests is to the record of the commands.           *)
LEMMA ExecStepOf ==
  ASSUME YamlInv, [Next]_vars
  PROVE  [ExecP!Next]_(ExecP!vars)
<1>1. UNCHANGED execVars => UNCHANGED ExecP!vars
  BY DEF execVars, ExecP!vars
<1>2. ASSUME NEW t \in Threads, RunCommands(t) PROVE ExecP!Accept(t)
  <2>1. job[t].config \in Configs /\ Valid(job[t].config)
    BY <1>2 DEF YamlInv, JobIsSound, HasText, RunCommands, Is
  <2> QED BY <1>2, <2>1, LinesAreAList, ExecSteps
<1>3. ASSUME NEW t \in Threads, RefuseYaml(t) \/ ExecuteCommands(t) \/ Respond(t)
      PROVE  [ExecP!Next]_(ExecP!vars)
  <2>1. ExecP!Accept(t) \/ ExecP!Handle(t) \/ UNCHANGED execVars
    BY <1>3, ExecSteps, SMTT(30) DEF RefuseYaml, Respond
  <2> QED BY <1>1, <2>1 DEF ExecP!Next
<1>4. ASSUME NEW t \in Threads,
             \/ ReceiveYaml(t) \/ ReceiveDetachedYaml(t) \/ ReceiveClear(t)
             \/ SetVariables(t) \/ StartDetached(t)
      PROVE  UNCHANGED execVars
  BY <1>4 DEF ReceiveYaml, ReceiveDetachedYaml, ReceiveClear, Arrive, SetVariables,
              StartDetached
<1>5. UNCHANGED vars => UNCHANGED execVars
  BY DEF vars
<1> QED BY <1>1, <1>2, <1>3, <1>4, <1>5 DEF Next, ExecP!Next

LEMMA PartsNext ==
  ASSUME YamlInv, [Next]_vars
  PROVE  EnvP!EnvInv' /\ ExecP!ExecInv'
<1>1. EnvP!EnvInv'
  BY EnvStepOf, EnvP!EnvStep, EnvAssumptions DEF YamlInv
<1>2. ExecP!ExecInv'
  BY ExecStepOf, ExecP!ExecPreserved, ExecAssumptions DEF YamlInv
<1> QED BY <1>1, <1>2

---------------------------------------------------------------------------
(* The requests that do not move: they are not alone.                      *)

Moves(t) ==
  \A u \in Threads \ {t} :
     /\ envReq'[u] = envReq[u] /\ execReq'[u] = execReq[u]
     /\ job'[u] = job[u] \/ job'[u] = [job[u] EXCEPT !.lone = FALSE]
     /\ ~job'[u].lone

ThreadIsSound(t) == JobIsSound(t) /\ Story(t) /\ LoneIsSound(t)

Moved(t) == Moves(t) /\ ThreadIsSound(t)' /\ job' \in [Threads -> Job]

LEMMA OthersStaySound ==
  ASSUME YamlInv, NEW t \in Threads, Moves(t), NEW u \in Threads \ {t}
  PROVE  ThreadIsSound(u)'
<1>1. /\ job[u] \in Job /\ JobIsSound(u) /\ Story(u)
      /\ envReq'[u] = envReq[u] /\ execReq'[u] = execReq[u] /\ ~job'[u].lone
  BY InvTypes DEF YamlInv, Moves
<1>2. /\ job'[u].kind = job[u].kind /\ job'[u].config = job[u].config
      /\ job'[u].lines = job[u].lines
  BY <1>1 DEF Moves, Job
<1>3. JobIsSound(u)'
  BY <1>1, <1>2 DEF JobIsSound, Busy, Is, HasText
<1>4. Story(u)'
  <2>1. Came(u)' = Came(u)
    BY <1>2 DEF Came
  <2>2. EnvP!StoryOf(envReq[u], Came(u), {}, job[u].lone, venv)
    BY <1>1 DEF Story
  <2>3. EnvP!StoryOf(envReq[u], Came(u), {}, job'[u].lone, venv')
    BY <1>1, <2>2 DEF EnvP!StoryOf, EnvP!Kept
  <2> QED BY <1>1, <2>1, <2>3 DEF Story
<1>5. LoneIsSound(u)'
  BY <1>1 DEF LoneIsSound
<1> QED BY <1>3, <1>4, <1>5 DEF ThreadIsSound

(* The step of a request that is there already.                            *)
LEMMA OwnMoves ==
  ASSUME YamlInv, NEW t \in Threads, Busy(t),
         \A u \in Threads \ {t} :
            envReq'[u] = envReq[u] /\ execReq'[u] = execReq[u] /\ job'[u] = job[u]
  PROVE  Moves(t)
BY DEF YamlInv, JobIsSound, Moves

---------------------------------------------------------------------------
(* A request that arrives.                                                 *)

LEMMA CameIsASequence ==
  ASSUME NEW kind, NEW config \in Configs \cup {NoConfig}
  PROVE  /\ Before(kind) \in Seq(EnvP!Pair) /\ PairsOf(config) \in Seq(EnvP!Pair)
         /\ Len(Before(kind)) \in {0, 2}
         /\ \A i \in 1..Len(Before(kind)) : Before(kind)[i].value = "own"
<1>1. /\ OwnPairs \in Seq(EnvP!Pair) /\ Len(OwnPairs) = 2
      /\ \A i \in 1..Len(OwnPairs) : OwnPairs[i].value = "own"
  <2> DEFINE a == [key |-> "TEMPLATE", value |-> "own"]
             b == [key |-> "VARIABLES", value |-> "own"]
  <2>1. /\ a \in EnvP!Pair /\ a.value = "own"
        /\ b \in EnvP!Pair /\ b.value = "own"
    BY KeysAssumption DEF EnvP!Pair, EnvP!Values
  <2>2. OwnPairs = <<a, b>>
    BY DEF OwnPairs
  <2> HIDE DEF a, b
  <2>3. <<a, b>> \in Seq(EnvP!Pair) /\ Len(<<a, b>>) = 2 /\ <<a, b>>[1] = a /\ <<a, b>>[2] = b
    BY <2>1
  <2> QED BY <2>1, <2>2, <2>3
<1>2. PairsOf(config) \in Seq(EnvP!Pair)
  <2>1. CASE config \in Configs
    <3>1. PairsOf(config) \in EnvP!Bodies
      BY <2>1, PairsAreABody
    <3> QED BY <3>1, EnvP!BodiesAreSequences, EnvAssumptions
  <2>2. CASE config = NoConfig
    BY <2>2 DEF PairsOf, Valid, NoConfig
  <2> QED BY <2>1, <2>2
<1>3. <<>> \in Seq(EnvP!Pair) /\ Len(<<>>) = 0
  OBVIOUS
<1>4. CASE kind = "memory"
  <2>1. Before(kind) = OwnPairs
    BY <1>4 DEF Before
  <2> QED BY <1>1, <1>2, <2>1
<1>5. CASE kind # "memory"
  <2>1. Before(kind) = <<>>
    BY <1>5 DEF Before
  <2> QED BY <1>2, <1>3, <2>1
<1> QED BY <1>4, <1>5

LEMMA NothingCame ==
  ASSUME NEW kind, kind # "memory"
  PROVE  PairsWith(kind, NoConfig) = <<>>
BY DEF PairsWith, Before, PairsOf, Valid, NoConfig

(* The fields of the job, and those of the others.                         *)
LEMMA ArrivedJob ==
  ASSUME job \in [Threads -> Job], NEW t \in Threads, NEW config \in Configs \cup {NoConfig},
         NEW kind \in {"memory", "detached", "clear"}, Arrive(t, kind, config)
  PROVE  /\ job' \in [Threads -> Job]
         /\ job'[t].kind = kind /\ job'[t].config = config /\ job'[t].lines = <<>>
         /\ job'[t].lone => \A u \in Threads : ~Busy(u)
         /\ job'[t].numbers = NumbersFor(config.env)
         /\ \A u \in Threads \ {t} : job'[u] = [job[u] EXCEPT !.lone = FALSE]
<1> DEFINE lone == \A v \in Threads : ~Busy(v)
           j == [NoJob EXCEPT !.kind = kind, !.config = config, !.lone = lone,
                              !.numbers = NumbersFor(config.env)]
<1>1. job' = [u \in Threads |-> IF u = t THEN j ELSE [job[u] EXCEPT !.lone = FALSE]]
  BY DEF Arrive
<1>2. /\ lone \in BOOLEAN /\ NumbersFor(config.env) \in BOOLEAN
      /\ <<>> \in Seq(Cmds)
  BY DEF NumbersFor
<1>3. /\ j \in Job /\ j.kind = kind /\ j.config = config /\ j.lines = <<>>
      /\ j.lone = lone /\ j.numbers = NumbersFor(config.env)
  BY <1>2 DEF NoJob, Job
<1> HIDE DEF j
<1>4. \A u \in Threads : [job[u] EXCEPT !.lone = FALSE] \in Job
  BY DEF Job
<1> QED BY <1>1, <1>3, <1>4

LEMMA NumbersOnArrival ==
  ASSUME NEW kind, NEW config \in Configs, Valid(config), ~NumbersFor(config.env)
  PROVE  Owed(PairsWith(kind, config), venv)
<1> DEFINE first == Before(kind)
           env == config.env
           todo == first \o env
<1>1. /\ first \in Seq(EnvP!Pair) /\ env \in Seq(EnvP!Pair) /\ PairsOf(config) = env
      /\ Len(first) \in {0, 2}
      /\ \A i \in 1..Len(first) : first[i].value = "own"
  BY CameIsASequence DEF PairsOf
<1>2. /\ \A i \in DOMAIN env : env[i].value # "number"
      /\ \A k \in Env!Names : venv[k] = "number" => \E i \in DOMAIN env : env[i].key = k
  BY DEF NumbersFor, BringsNumber, Replaced
<1> HIDE DEF first, env
<1>3. /\ DOMAIN env = 1..Len(env) /\ Len(env) \in Nat /\ Len(first) \in Nat
      /\ Len(todo) = Len(first) + Len(env)
      /\ \A i \in 1..Len(first) : todo[i] = first[i]
      /\ \A i \in 1..Len(env) : todo[i + Len(first)] = env[i]
  BY <1>1
<1>4. ASSUME NEW i \in 1..Len(todo) PROVE todo[i].value # "number"
  <2>1. CASE i <= Len(first)
    BY <1>1, <1>3, <2>1
  <2>2. CASE i > Len(first)
    <3>1. i - Len(first) \in 1..Len(env) /\ todo[i] = env[i - Len(first)]
      BY <1>1, <1>3, <2>2
    <3> QED BY <1>2, <1>3, <3>1
  <2> QED BY <1>3, <2>1, <2>2
<1>5. ASSUME NEW k \in Env!Names, venv[k] = "number"
      PROVE  \E i \in 1..Len(todo) : todo[i].key = k
  <2>1. PICK i \in 1..Len(env) : env[i].key = k
    BY <1>2, <1>3, <1>5
  <2>2. i + Len(first) \in 1..Len(todo) /\ todo[i + Len(first)].key = k
    BY <1>3, <2>1
  <2> QED BY <2>2
<1>6. PairsWith(kind, config) = todo
  BY <1>1 DEF PairsWith, first
<1> QED BY <1>4, <1>5, <1>6 DEF Owed, Env!Names

LEMMA Arrived ==
  ASSUME YamlInv, NEW t \in Threads, NEW config \in Configs \cup {NoConfig},
         NEW kind \in {"memory", "detached", "clear"}, Arrive(t, kind, config),
         kind # "clear" => config \in Configs,
         NEW op, op # "render", NEW pc \in {"member", "reply", "clear"}, NEW todo,
         todo = PairsWith(kind, config),
         pc # "member" => todo = <<>>, pc = "clear" => kind = "clear",
         envReq' = [envReq EXCEPT ![t] = EnvP!Asking(op, pc, todo)], venv' = venv
  PROVE  Moved(t)
<1>1. /\ job' \in [Threads -> Job]
      /\ job'[t].kind = kind /\ job'[t].config = config /\ job'[t].lines = <<>>
      /\ job'[t].lone => \A u \in Threads : ~Busy(u)
      /\ job'[t].numbers = NumbersFor(config.env)
      /\ \A u \in Threads \ {t} : job'[u] = [job[u] EXCEPT !.lone = FALSE]
  <2>1. job \in [Threads -> Job]
    BY InvTypes
  <2> HIDE DEF Job
  <2> QED BY <2>1, ArrivedJob, SMTT(30)
<1>2. execReq' = execReq /\ execReq[t].pc = "idle" /\ execReq[t] = ExecP!Idle
  BY DEF Arrive, execVars, YamlInv, JobIsSound
<1>3. /\ envReq'[t] = EnvP!Asking(op, pc, todo)
      /\ \A u \in Threads \ {t} : envReq'[u] = envReq[u]
  BY InvTypes
<1>4. /\ envReq'[t].op = op /\ envReq'[t].pc = pc /\ envReq'[t].todo = todo
      /\ envReq'[t].accepted = {}
  BY <1>3 DEF EnvP!Asking
<1>5. \A u \in Threads \ {t} : job'[u].kind = job[u].kind /\ ~job'[u].lone
  BY <1>1, InvTypes, ZenonT(60) DEF Job
<1>6. Moves(t)
  BY <1>1, <1>2, <1>3, <1>5 DEF Moves
<1>7. Came(t)' = todo
  BY <1>1 DEF Came
<1>8. todo \in Seq(EnvP!Pair) /\ Len(todo) \in Nat
  <2>1. Before(kind) \in Seq(EnvP!Pair) /\ PairsOf(config) \in Seq(EnvP!Pair)
    BY CameIsASequence
  <2> QED BY <2>1 DEF PairsWith
<1>9. JobIsSound(t)'
  <2>1. Busy(t)' /\ (job'[t].lone => \A u \in Threads \ {t} : ~Busy(u)')
    BY <1>1, <1>5 DEF Busy, Is
  <2>2. execReq'[t].pc = "idle" /\ execReq'[t] = ExecP!Idle
    BY <1>2
  <2>3. envReq'[t].pc \notin {"idle"} /\ envReq'[t].op # "render"
        /\ (envReq'[t].pc = "clear" => kind = "clear")
    BY <1>4
  <2>4. HasText(t)' => config \in Configs
    BY <1>1 DEF HasText
  <2> QED BY <1>1, <2>1, <2>2, <2>3, <2>4 DEF JobIsSound, Is
<1> DEFINE r == envReq'[t]
<1>10. EnvP!Done(r, todo) = 0
  BY <1>4, <1>8 DEF EnvP!Done
<1>11. Story(t)'
  <2> HIDE DEF r
  <2>1. r.todo = todo /\ r.accepted = {} /\ r.pc = pc /\ r.op # "render"
    BY <1>4 DEF r
  <2>2. EnvP!Told(r, todo)
    BY <1>8, <1>10, <2>1 DEF EnvP!Told
  <2>3. EnvP!Kept(r, todo, {}, venv')
    BY <1>10, <2>1 DEF EnvP!Kept
  <2>4. EnvP!Undisturbed(r, todo, venv')
    BY <1>10, <2>1 DEF EnvP!Undisturbed
  <2>5. EnvP!StoryOf(r, todo, {}, job'[t].lone, venv')
    BY <2>2, <2>3, <2>4 DEF EnvP!StoryOf
  <2> QED BY <1>7, <2>5 DEF Story, r
<1>12. LoneIsSound(t)'
  <2>1. RefusedForRoom(t)'
    <3>1. EnvP!Done(envReq[t], Came(t))' = 0
      BY <1>4, <1>7, <1>8 DEF EnvP!Done
    <3>2. \A i \in 1..0 : FALSE
      OBVIOUS
    <3> QED BY <3>1, <3>2 DEF RefusedForRoom, Refused
  <2>2. kind \in {"memory", "detached"} /\ Valid(config) /\ ~job'[t].numbers
          => NumbersAreOwed(t)'
    <3> SUFFICES ASSUME kind # "clear", Valid(config), ~NumbersFor(config.env)
                 PROVE  NumbersAreOwed(t)'
      BY <1>1
    <3>1. Owed(todo, venv)
      BY NumbersOnArrival
    <3> QED BY <1>4, <3>1 DEF NumbersAreOwed
  <2> QED BY <1>1, <2>1, <2>2 DEF LoneIsSound, HasText
<1> QED BY <1>1, <1>6, <1>9, <1>11, <1>12 DEF Moved, ThreadIsSound

---------------------------------------------------------------------------
(* A request that sets its variables.                                      *)

GoesTo(t, q) ==
  /\ envReq[t].pc \in {"member", "size", "write", "clear"}
  /\ envReq' = [envReq EXCEPT ![t] = q]
  /\ UNCHANGED <<execVars, job>>
  /\ q.pc \notin {"idle", "clear"} /\ q.op = envReq[t].op
  /\ EnvP!StoryOf(q, Came(t), {}, job[t].lone, venv')
  /\ job[t].lone /\ HasText(t) => Refused(q, Came(t), DOMAIN venv')
  /\ job[t].lone /\ HasText(t) /\ Valid(job[t].config) /\ ~job[t].numbers =>
       Owed(q.todo, venv')

LEMMA EnvMoves ==
  ASSUME YamlInv, NEW t \in Threads, NEW q, GoesTo(t, q)
  PROVE  Moved(t)
<1> USE DEF GoesTo
<1>1. /\ JobIsSound(t) /\ LoneIsSound(t) /\ job' = job /\ execReq' = execReq
      /\ job \in [Threads -> Job]
  BY DEF YamlInv, execVars
<1>2. envReq'[t] = q /\ \A u \in Threads \ {t} : envReq'[u] = envReq[u]
  BY InvTypes
<1>3. Busy(t) /\ execReq[t].pc = "idle" /\ job[t].lines = <<>>
  BY <1>1 DEF JobIsSound, EnvP!Idle, EnvP!Asking
<1>4. Moves(t)
  BY <1>1, <1>2, <1>3, OwnMoves
<1>5. JobIsSound(t)'
  BY <1>1, <1>2, <1>3 DEF JobIsSound, Busy, Is, HasText
<1>6. Came(t)' = Came(t)
  BY <1>1 DEF Came
<1>7. Story(t)'
  BY <1>1, <1>2, <1>6 DEF Story
<1>8. LoneIsSound(t)'
  <2>1. /\ RefusedForRoom(t)' = Refused(q, Came(t), DOMAIN venv')
        /\ NumbersAreOwed(t)' = Owed(q.todo, venv')
    BY <1>1, <1>2, <1>6 DEF RefusedForRoom, NumbersAreOwed, Env!Names
  <2> QED BY <1>1, <2>1 DEF LoneIsSound, HasText
<1> QED BY <1>1, <1>4, <1>5, <1>7, <1>8 DEF Moved, ThreadIsSound

(* set_env_var returns: what was owed and what was refused, without the    *)
(* first of the pairs.                                                     *)
NoNewNumbers(key, env, env2) ==
  \A k \in DOMAIN env2 :
     env2[k] = "number" => k # key /\ k \in DOMAIN env /\ env[k] = "number"

LEMMA StillOwed ==
  ASSUME NEW todo \in Seq(EnvP!Pair), todo # <<>>, NEW env, NEW env2, Owed(todo, env),
         NoNewNumbers(Head(todo).key, env, env2)
  PROVE  Owed(Tail(todo), env2)
<1> USE DEF NoNewNumbers
<1>1. /\ Len(todo) \in Nat /\ Len(Tail(todo)) = Len(todo) - 1
      /\ \A j \in 1..Len(Tail(todo)) : Tail(todo)[j] = todo[j + 1]
      /\ Head(todo) = todo[1]
  OBVIOUS
<1>2. ASSUME NEW j \in 1..Len(Tail(todo)) PROVE Tail(todo)[j].value # "number"
  BY <1>1 DEF Owed
<1>3. ASSUME NEW k \in DOMAIN env2, env2[k] = "number"
      PROVE  \E j \in 1..Len(Tail(todo)) : Tail(todo)[j].key = k
  <2>1. PICK i \in 1..Len(todo) : todo[i].key = k
    BY <1>3 DEF Owed
  <2>2. i # 1
    BY <1>1, <1>3, <2>1
  <2>3. i - 1 \in 1..Len(Tail(todo)) /\ Tail(todo)[i - 1] = todo[i]
    BY <1>1, <2>2
  <2> QED BY <2>1, <2>3
<1> QED BY <1>2, <1>3 DEF Owed

(* What VirtualEnvProofs has on a pair that is done.                       *)
LEMMA PairIsDone ==
  ASSUME NEW r \in EnvP!Request, NEW pairs, NEW accepted, EnvP!Told(r, pairs), r.todo # <<>>
  PROVE  /\ EnvP!Done(r, pairs) \in Nat
         /\ EnvP!Done(EnvP!Returned(r, accepted), pairs) = EnvP!Done(r, pairs) + 1
         /\ pairs[EnvP!Done(r, pairs) + 1] = Head(r.todo)
         /\ EnvP!Returned(r, accepted).todo = Tail(r.todo)
         /\ EnvP!Returned(r, accepted).accepted = r.accepted \cup accepted
         /\ EnvP!Returned(r, accepted).op = r.op
         /\ EnvP!Returned(r, accepted).pc \in {"member", "template", "reply"}
<1> DEFINE s == EnvP!Returned(r, accepted)
<1>1. /\ EnvP!Done(r, pairs) \in Nat
      /\ pairs[EnvP!Done(r, pairs) + 1] = Head(r.todo)
      /\ s.accepted = r.accepted \cup accepted
      /\ s.op = r.op
      /\ s.pc \in {"member", "template", "reply"}
  BY EnvAssumptions, EnvP!ReturnedFields, ZenonT(60)
<1>2. s.todo = Tail(r.todo)
  BY DEF EnvP!Returned, EnvP!Request
<1>3. r.todo \in Seq(EnvP!Pair) /\ pairs \in Seq(EnvP!Pair)
  BY DEF EnvP!Request, EnvP!Told
<1> HIDE DEF s
<1>4. EnvP!Done(s, pairs) = EnvP!Done(r, pairs) + 1
  <2>1. Len(Tail(r.todo)) = Len(r.todo) - 1 /\ Len(r.todo) \in Nat /\ Len(pairs) \in Nat
    BY <1>3
  <2>2. Len(s.todo) = Len(r.todo) - 1
    BY <1>2, <2>1
  <2>3. \A m, n \in Nat : m - (n - 1) = (m - n) + 1
    OBVIOUS
  <2>4. Len(pairs) - Len(s.todo) = (Len(pairs) - Len(r.todo)) + 1
    BY <2>1, <2>2, <2>3, Zenon
  <2> QED BY <2>4, Zenon DEF EnvP!Done
<1> QED BY <1>1, <1>2, <1>4 DEF s

LEMMA LastOrBefore == \A n \in Nat : \A i \in 1..(n + 1) : i \in 1..n \/ i = n + 1
OBVIOUS

LEMMA StillRefused ==
  ASSUME NEW r \in EnvP!Request, NEW pairs, NEW accepted, NEW names, NEW names2,
         EnvP!Told(r, pairs), r.todo # <<>>, Refused(r, pairs, names),
         Cardinality(names) >= MaxSize => Cardinality(names2) >= MaxSize,
         Head(r.todo).key \notin accepted \cup SystemNames \cup {""} =>
           Cardinality(names2) >= MaxSize
  PROVE  Refused(EnvP!Returned(r, accepted), pairs, names2)
<1> DEFINE s == EnvP!Returned(r, accepted)
           n == EnvP!Done(r, pairs)
<1>1. /\ n \in Nat /\ EnvP!Done(s, pairs) = n + 1 /\ pairs[n + 1] = Head(r.todo)
      /\ s.accepted = r.accepted \cup accepted
  BY PairIsDone, ZenonT(60)
<1> HIDE DEF s, n
<1>2. ASSUME NEW i \in 1..(n + 1), pairs[i].key \notin s.accepted \cup SystemNames \cup {""}
      PROVE  Cardinality(names2) >= MaxSize
  <2>1. CASE i = n + 1
    BY <1>1, <1>2, <2>1
  <2>2. CASE i \in 1..n
    <3>1. pairs[i].key \notin r.accepted \cup SystemNames \cup {""}
      BY <1>1, <1>2
    <3> QED BY <2>2, <3>1 DEF Refused, n
  <2> QED BY <1>1, <2>1, <2>2, LastOrBefore
<1> QED BY <1>1, <1>2 DEF Refused, s

LEMMA EnvFacts ==
  ASSUME YamlInv, NEW t \in Threads
  PROVE  /\ envReq[t] \in EnvP!Request /\ EnvP!SoundRequest(envReq[t])
         /\ EnvP!StoryOf(envReq[t], Came(t), {}, job[t].lone, venv)
         /\ EnvP!Told(envReq[t], Came(t))
         /\ job[t].lone => EnvP!Undisturbed(envReq[t], Came(t), venv)
         /\ job[t].lone /\ HasText(t) => Refused(envReq[t], Came(t), DOMAIN venv)
         /\ job[t].lone /\ HasText(t) /\ Valid(job[t].config) /\ ~job[t].numbers =>
              Owed(envReq[t].todo, venv)
         /\ envReq[t].op # "render"
<1>1. envReq[t] \in EnvP!Request /\ EnvP!SoundRequest(envReq[t])
  BY InvTypes DEF YamlInv, EnvP!EnvInv, EnvP!RequestsAreSound
<1>2. EnvP!StoryOf(envReq[t], Came(t), {}, job[t].lone, venv)
  BY DEF YamlInv, Story
<1>3. /\ EnvP!Told(envReq[t], Came(t))
      /\ job[t].lone => EnvP!Undisturbed(envReq[t], Came(t), venv)
  BY <1>2 DEF EnvP!StoryOf
<1>4. /\ job[t].lone /\ HasText(t) => Refused(envReq[t], Came(t), DOMAIN venv)
      /\ job[t].lone /\ HasText(t) /\ Valid(job[t].config) /\ ~job[t].numbers =>
           Owed(envReq[t].todo, venv)
  BY DEF YamlInv, LoneIsSound, RefusedForRoom, NumbersAreOwed, Env!Names
<1>5. envReq[t].op # "render"
  BY DEF YamlInv, JobIsSound
<1> QED BY <1>1, <1>2, <1>3, <1>4, <1>5

(* A test that the name passes.                                            *)
LEMMA GoesOn ==
  ASSUME YamlInv, NEW t \in Threads, envReq[t].pc \in {"member", "size"},
         NEW pc \in {"size", "write"}, EnvP!Goto(t, pc), venv' = venv,
         UNCHANGED <<execVars, job>>,
         pc = "size" => Head(envReq[t].todo).key \notin DOMAIN venv
  PROVE  Moved(t)
<1> DEFINE r == envReq[t]
           q == [r EXCEPT !.pc = pc]
<1>1. r \in EnvP!Request /\ EnvP!StoryOf(r, Came(t), {}, job[t].lone, venv)
  BY EnvFacts
<1>2. EnvP!StoryOf(q, Came(t), {}, job[t].lone, venv')
  BY <1>1, EnvAssumptions, EnvP!StoryOfTest, Zenon
<1>3. q.pc = pc /\ q.op = r.op /\ q.todo = r.todo /\ q.accepted = r.accepted
  BY <1>1 DEF EnvP!Request
<1>4. envReq' = [envReq EXCEPT ![t] = q]
  BY InvTypes DEF EnvP!Goto
<1> HIDE DEF q
<1>5. Refused(r, Came(t), DOMAIN venv) => Refused(q, Came(t), DOMAIN venv')
  BY <1>3 DEF Refused, EnvP!Done
<1>6. /\ job[t].lone /\ HasText(t) => Refused(q, Came(t), DOMAIN venv')
      /\ job[t].lone /\ HasText(t) /\ Valid(job[t].config) /\ ~job[t].numbers =>
           Owed(q.todo, venv')
  BY <1>3, <1>5, EnvFacts
<1>7. GoesTo(t, q)
  BY <1>2, <1>3, <1>4, <1>6 DEF GoesTo
<1> QED BY <1>7, EnvMoves

(* A name is refused.                                                      *)
LEMMA Refuses ==
  ASSUME YamlInv, NEW t \in Threads, envReq[t].pc \in {"member", "size"},
         EnvP!Return(t, {}), venv' = venv, UNCHANGED <<execVars, job>>,
         job[t].lone => Head(envReq[t].todo).key \notin DOMAIN venv,
         Head(envReq[t].todo).key \notin SystemNames \cup {""} =>
           Cardinality(DOMAIN venv) >= MaxSize
  PROVE  Moved(t)
<1> DEFINE r == envReq[t]
           q == EnvP!Returned(r, {})
<1>1. /\ r \in EnvP!Request /\ EnvP!StoryOf(r, Came(t), {}, job[t].lone, venv)
      /\ r.todo # <<>> /\ EnvP!Told(r, Came(t)) /\ r.op # "render"
  BY EnvFacts DEF EnvP!SoundRequest
<1>2. EnvP!StoryOf(q, Came(t), {}, job[t].lone, venv')
  BY <1>1, EnvAssumptions, EnvP!StoryOfRefusal, Zenon
<1>3. /\ q.op = r.op /\ q.todo = Tail(r.todo) /\ q.pc \in {"member", "template", "reply"}
  <2>1. r \in EnvP!Request /\ EnvP!Told(r, Came(t)) /\ r.todo # <<>>
    BY <1>1
  <2> HIDE DEF r
  <2> QED BY <2>1, PairIsDone, ZenonT(60)
<1>4. envReq' = [envReq EXCEPT ![t] = q]
  BY <1>1, InvTypes DEF EnvP!Return, EnvP!Returned
<1>5. job[t].lone /\ HasText(t) => Refused(q, Came(t), DOMAIN venv')
  BY <1>1, EnvFacts, StillRefused
<1>6. job[t].lone /\ Owed(r.todo, venv) => Owed(q.todo, venv')
  <2>1. r.todo \in Seq(EnvP!Pair)
    BY <1>1 DEF EnvP!Request
  <2>2. job[t].lone => NoNewNumbers(Head(r.todo).key, venv, venv')
    BY DEF NoNewNumbers
  <2> QED BY <1>1, <1>3, <2>1, <2>2, StillOwed
<1> HIDE DEF q
<1>7. job[t].lone /\ HasText(t) /\ Valid(job[t].config) /\ ~job[t].numbers =>
        Owed(q.todo, venv')
  BY <1>6, EnvFacts
<1>8. GoesTo(t, q)
  BY <1>2, <1>3, <1>4, <1>5, <1>7 DEF GoesTo
<1> QED BY <1>8, EnvMoves

(* A name gets its value.                                                  *)
LEMMA Writes ==
  ASSUME YamlInv, NEW t \in Threads, EnvP!Write(t), UNCHANGED <<execVars, job>>
  PROVE  Moved(t)
<1> DEFINE r == envReq[t]
           pair == Head(r.todo)
           q == EnvP!Returned(r, {pair.key})
<1>1. /\ r \in EnvP!Request /\ EnvP!StoryOf(r, Came(t), {}, job[t].lone, venv)
      /\ r.pc = "write" /\ r.todo # <<>> /\ pair.key \notin SystemNames
      /\ EnvP!Told(r, Came(t)) /\ r.op # "render"
  BY EnvFacts DEF EnvP!SoundRequest, EnvP!Write, EnvP!At
<1>2. venv' = [k \in DOMAIN venv \cup {pair.key} |-> IF k = pair.key THEN pair.value ELSE venv[k]]
  BY DEF EnvP!Write, EnvP!Assign, EnvP!Current, EnvP!Names
<1>3. EnvP!StoryOf(q, Came(t), {}, job[t].lone, venv')
  BY <1>1, <1>2, EnvAssumptions, EnvP!StoryOfWrite, Zenon
<1>4. /\ q.op = r.op /\ q.todo = Tail(r.todo) /\ q.pc \in {"member", "template", "reply"}
  <2>1. r \in EnvP!Request /\ EnvP!Told(r, Came(t)) /\ r.todo # <<>>
    BY <1>1
  <2> HIDE DEF r, pair
  <2> QED BY <2>1, PairIsDone, ZenonT(60)
<1>5. envReq' = [envReq EXCEPT ![t] = q]
  BY <1>1, InvTypes DEF EnvP!Write, EnvP!Return, EnvP!Returned, EnvP!Current
<1> HIDE DEF q
<1>6. Cardinality(DOMAIN venv) >= MaxSize => Cardinality(DOMAIN venv') >= MaxSize
  <2>1. IsFiniteSet(DOMAIN venv) /\ DOMAIN venv' = DOMAIN venv \cup {pair.key}
    BY <1>2, InvTypes
  <2>2. /\ Cardinality(DOMAIN venv) \in Nat /\ Cardinality(DOMAIN venv') \in Nat
        /\ Cardinality(DOMAIN venv) <= Cardinality(DOMAIN venv')
    <3>1. IsFiniteSet(DOMAIN venv') /\ DOMAIN venv \in SUBSET (DOMAIN venv')
      BY <2>1, FS_AddElement
    <3> QED BY <3>1, FS_Subset, FS_CardinalityType
  <2> QED BY <2>2, BoundsAssumption
<1>7. job[t].lone /\ HasText(t) => Refused(q, Came(t), DOMAIN venv')
  <2>1. Refused(r, Came(t), DOMAIN venv) => Refused(q, Came(t), DOMAIN venv')
    <3>1. pair.key \in {pair.key}
      OBVIOUS
    <3> HIDE DEF r
    <3> QED BY <1>1, <1>6, <3>1, StillRefused DEF q
  <2> QED BY <2>1, EnvFacts
<1>8. job[t].lone /\ HasText(t) /\ Valid(job[t].config) /\ ~job[t].numbers =>
        Owed(q.todo, venv')
  <2> SUFFICES ASSUME Owed(r.todo, venv)
               PROVE  Owed(Tail(r.todo), venv')
    BY <1>4, EnvFacts
  <2>1. r.todo \in Seq(EnvP!Pair) /\ Len(r.todo) \in Nat \ {0} /\ pair = r.todo[1]
    BY <1>1 DEF EnvP!Request
  <2>2. pair.value # "number"
    BY <2>1 DEF Owed
  <2>3. NoNewNumbers(pair.key, venv, venv')
    BY <1>2, <2>2 DEF NoNewNumbers
  <2> HIDE DEF r
  <2> QED BY <1>1, <2>1, <2>3, StillOwed
<1>9. GoesTo(t, q)
  BY <1>1, <1>3, <1>4, <1>5, <1>7, <1>8 DEF GoesTo
<1> QED BY <1>9, EnvMoves

(* The variables are cleared: not by a request with a text.                *)
LEMMA Clears ==
  ASSUME YamlInv, NEW t \in Threads, EnvP!Clear(t), UNCHANGED <<execVars, job>>
  PROVE  Moved(t)
<1> DEFINE r == envReq[t]
           q == [r EXCEPT !.pc = "reply"]
<1>1. /\ r \in EnvP!Request /\ EnvP!StoryOf(r, Came(t), {}, job[t].lone, venv)
      /\ r.pc = "clear"
  BY EnvFacts DEF EnvP!Clear, EnvP!At
<1>2. EnvP!StoryOf(q, Came(t), {}, job[t].lone, venv')
  BY <1>1, EnvAssumptions, EnvP!StoryOfClear, Zenon
<1>3. envReq' = [envReq EXCEPT ![t] = q] /\ q.pc = "reply" /\ q.op = r.op
  BY <1>1, InvTypes DEF EnvP!Clear, EnvP!Goto, EnvP!Request
<1>4. ~HasText(t)
  BY <1>1 DEF YamlInv, JobIsSound, HasText, Is
<1> HIDE DEF q
<1>5. GoesTo(t, q)
  BY <1>1, <1>2, <1>3, <1>4 DEF GoesTo
<1> QED BY <1>5, EnvMoves

LEMMA SetVariablesMoves ==
  ASSUME YamlInv, NEW t \in Threads, SetVariables(t)
  PROVE  Moved(t)
<1> DEFINE key == Head(envReq[t].todo).key
<1>1. UNCHANGED <<execVars, job>>
  BY DEF SetVariables
<1>2. DOMAIN venv \cap (SystemNames \cup {""}) = {} /\ Cardinality(DOMAIN venv) \in Nat
  BY InvTypes
<1>3. job[t].lone => EnvP!Undisturbed(envReq[t], Came(t), venv)
  BY EnvFacts
<1> HIDE DEF key
<1>4. CASE EnvP!TestMember(t)
  <2>1. envReq[t].pc \in {"member", "size"} /\ venv' = venv
    BY <1>4 DEF EnvP!TestMember, EnvP!At
  <2>2. CASE key \in SystemNames
    <3>1. EnvP!Return(t, {})
      BY <1>4, <2>2 DEF EnvP!TestMember, EnvP!Current, key
    <3> QED BY <1>1, <1>2, <2>1, <2>2, <3>1, Refuses DEF key
  <2>3. CASE key \notin SystemNames /\ key \in DOMAIN venv
    <3>1. EnvP!Goto(t, "write")
      BY <1>2, <1>4, <2>3 DEF EnvP!TestMember, EnvP!Current, EnvP!Names, key
    <3> QED BY <1>1, <2>1, <3>1, GoesOn
  <2>4. CASE key \notin SystemNames /\ key \notin DOMAIN venv
    <3>1. EnvP!Goto(t, "size")
      BY <1>4, <2>4 DEF EnvP!TestMember, EnvP!Current, EnvP!Names, key
    <3> QED BY <1>1, <2>1, <2>4, <3>1, GoesOn DEF key
  <2> QED BY <2>2, <2>3, <2>4
<1>5. CASE EnvP!TestSize(t)
  <2>1. envReq[t].pc = "size" /\ venv' = venv
    BY <1>5 DEF EnvP!TestSize, EnvP!At
  <2>2. CASE EnvP!Goto(t, "write")
    BY <1>1, <2>1, <2>2, GoesOn
  <2>3. CASE EnvP!Return(t, {}) /\ ~(Cardinality(DOMAIN venv) < MaxSize /\ key # "")
    <3>1. job[t].lone => key \notin DOMAIN venv
      BY <1>3, <2>1 DEF EnvP!Undisturbed, key
    <3>2. key # "" => Cardinality(DOMAIN venv) >= MaxSize
      <4>1. \A n, m \in Nat : ~(n < m) => n >= m
        OBVIOUS
      <4>2. MaxSize \in Nat
        BY BoundsAssumption
      <4> QED BY <1>2, <2>3, <4>1, <4>2
    <3> QED BY <1>1, <2>1, <2>3, <3>1, <3>2, Refuses DEF key
  <2>4. EnvP!Cardinality(DOMAIN venv) = Cardinality(DOMAIN venv)
    BY DEF EnvP!Cardinality, Cardinality
  <2> QED BY <1>5, <2>2, <2>3, <2>4 DEF EnvP!TestSize, EnvP!Current, EnvP!Names, key
<1> QED BY <1>1, <1>4, <1>5, EnvSteps, Writes, Clears DEF SetVariables

---------------------------------------------------------------------------
(* A request whose variables are set, and which has its commands run.      *)

WorksOn(t, r, lines) ==
  /\ HasText(t) /\ envReq[t].pc = "reply" /\ UNCHANGED envVars
  /\ execReq' = [execReq EXCEPT ![t] = r]
  /\ job' = [job EXCEPT ![t].lines = lines]
  /\ lines \in Seq(Cmds) /\ (lines # <<>> => Valid(job[t].config))
  /\ r.pc # "idle" => Is(t, "memory")
  /\ r.pc = "idle" => r = ExecP!Idle
  /\ r.pc \notin {"idle", "reply"} => Valid(job[t].config)

LEMMA WorkMoves ==
  ASSUME YamlInv, NEW t \in Threads, NEW r, NEW lines, WorksOn(t, r, lines)
  PROVE  Moved(t)
<1>1. /\ JobIsSound(t) /\ LoneIsSound(t) /\ Story(t)
      /\ job \in [Threads -> Job] /\ envReq' = envReq /\ venv' = venv
  BY DEF YamlInv, WorksOn, envVars
<1>2. execReq'[t] = r /\ \A u \in Threads \ {t} : execReq'[u] = execReq[u]
  BY InvTypes DEF WorksOn
<1>3. /\ job' \in [Threads -> Job] /\ \A u \in Threads \ {t} : job'[u] = job[u]
      /\ job'[t].kind = job[t].kind /\ job'[t].config = job[t].config
      /\ job'[t].lone = job[t].lone /\ job'[t].numbers = job[t].numbers
      /\ job'[t].lines = lines
  BY <1>1 DEF WorksOn, Job
<1>4. Busy(t)
  BY DEF WorksOn, HasText, Busy, Is
<1>5. Moves(t)
  BY <1>1, <1>2, <1>3, <1>4, OwnMoves
<1>6. JobIsSound(t)'
  <2>1. job'[t].lone => \A u \in Threads \ {t} : ~Busy(u)'
    BY <1>1, <1>3 DEF JobIsSound, Busy, Is
  <2> QED
    BY <1>1, <1>2, <1>3, <1>4, <2>1 DEF JobIsSound, WorksOn, Busy, Is, HasText
<1>7. Came(t)' = Came(t)
  BY <1>3 DEF Came
<1>8. Story(t)'
  BY <1>1, <1>3, <1>7 DEF Story
<1>9. LoneIsSound(t)'
  <2>1. /\ RefusedForRoom(t)' = RefusedForRoom(t)
        /\ NumbersAreOwed(t)' = NumbersAreOwed(t)
    BY <1>1, <1>7 DEF RefusedForRoom, NumbersAreOwed, Env!Names
  <2> QED BY <1>1, <1>3, <2>1 DEF LoneIsSound, HasText
<1> QED BY <1>3, <1>5, <1>6, <1>8, <1>9 DEF Moved, ThreadIsSound

(* Without numbers in the text, and alone, a request that has set its      *)
(* variables leaves none: nothing is left to be set.                       *)
LEMMA LoneLeavesNoNumber ==
  ASSUME YamlInv, NEW t \in Threads, HasText(t), Valid(job[t].config), envReq[t].pc = "reply",
         job[t].lone, ~job[t].numbers
  PROVE  ~HasNumber
<1>1. Owed(envReq[t].todo, venv) /\ envReq[t].todo = <<>>
  BY EnvFacts DEF EnvP!Told
<1>2. Len(<<>>) = 0 /\ \A i \in 1..0 : FALSE
  OBVIOUS
<1> QED BY <1>1, <1>2 DEF Owed, HasNumber, Env!Names

LEMMA ReadyFacts ==
  ASSUME YamlInv, NEW t \in Threads, HasText(t)
  PROVE  /\ job[t].config \in Configs
         /\ execReq[t] \in ExecP!Requests
         /\ execReq[t].pc = "idle" => execReq[t] = ExecP!Idle
<1>1. JobIsSound(t)
  BY DEF YamlInv
<1> QED BY <1>1, InvTypes DEF JobIsSound

LEMMA LinesAreASequence ==
  ASSUME NEW lines \in ExecP!Lists
  PROVE  lines \in Seq(Cmds)
BY BoundsAssumption DEF ExecP!Lists

LEMMA StartsWork ==
  ASSUME YamlInv, NEW t \in Threads, RunCommands(t) \/ RefuseYaml(t) \/ StartDetached(t)
  PROVE  Moved(t)
<1>1. /\ envReq[t].pc = "reply" /\ execReq[t].pc = "idle" /\ job[t].lines = <<>>
      /\ HasText(t) /\ UNCHANGED envVars
  BY DEF RunCommands, RefuseYaml, StartDetached, Ready, Env!At, Exec!At, HasText, Is
<1>2. Valid(job[t].config) => LinesOf(t) \in Seq(Cmds)
  BY <1>1, ReadyFacts, LinesAreAList, LinesAreASequence
<1>3. CASE RunCommands(t)
  <2> DEFINE r == Exec!Asking("sequential", LinesOf(t), "begin", "none")
  <2>1. /\ Is(t, "memory") /\ Valid(job[t].config)
        /\ execReq' = [execReq EXCEPT ![t] = r]
        /\ job' = [job EXCEPT ![t].lines = LinesOf(t)]
    BY <1>3 DEF RunCommands, Exec!Receive, Hand
  <2>2. r.pc = "begin"
    BY DEF Exec!Asking
  <2> HIDE DEF r
  <2>3. WorksOn(t, r, LinesOf(t))
    BY <1>1, <1>2, <2>1, <2>2 DEF WorksOn
  <2> QED BY <2>3, WorkMoves
<1>4. CASE RefuseYaml(t)
  <2> DEFINE r == Exec!Asking("none", <<>>, "reply", "rejected")
  <2>1. /\ Is(t, "memory") /\ execReq' = [execReq EXCEPT ![t] = r] /\ job' = job
    BY <1>4 DEF RefuseYaml, Exec!ReceiveRejected, Exec!Receive
  <2>2. job' = [job EXCEPT ![t].lines = <<>>]
    BY <1>1, <2>1, InvTypes DEF Job
  <2>3. r.pc = "reply"
    BY DEF Exec!Asking
  <2>4. <<>> \in Seq(Cmds)
    OBVIOUS
  <2> HIDE DEF r
  <2>5. WorksOn(t, r, <<>>)
    BY <1>1, <2>1, <2>2, <2>3, <2>4 DEF WorksOn
  <2> QED BY <2>5, WorkMoves
<1>5. CASE StartDetached(t)
  <2>1. /\ Valid(job[t].config) /\ execReq' = execReq
        /\ job' = [job EXCEPT ![t].lines = LinesOf(t)]
    BY <1>5 DEF StartDetached, Hand, execVars
  <2>2. execReq' = [execReq EXCEPT ![t] = execReq[t]]
    BY <2>1, InvTypes
  <2>3. WorksOn(t, execReq[t], LinesOf(t))
    BY <1>1, <1>2, <2>1, <2>2, ReadyFacts DEF WorksOn
  <2> QED BY <2>3, WorkMoves
<1> QED BY <1>3, <1>4, <1>5

LEMMA RunsTask ==
  ASSUME NEW t \in Threads, RunCommand(t)
  PROVE  \E i, to : /\ execReq' = [execReq EXCEPT ![t].task[i] = to]
                    /\ execReq[t].pc = "tasks"
<1>1. ASSUME NEW i, NEW from, NEW to, Exec!Steps(t, i, from, to)
      PROVE  execReq' = [execReq EXCEPT ![t].task[i] = to] /\ execReq[t].pc = "tasks"
  BY <1>1 DEF Exec!Steps, Exec!At
<1>2. PICK i \in DOMAIN execReq[t].cmds :
        \/ Exec!OpenEntry(t, i) \/ Exec!MarkInProgress(t, i)
        \/ Exec!Launch(t, i) \/ Exec!LaunchFails(t, i)
        \/ Exec!MarkFinished(t, i) \/ Exec!PutResult(t, i)
  BY DEF RunCommand
<1>3. CASE Exec!OpenEntry(t, i) \/ Exec!Launch(t, i) \/ Exec!LaunchFails(t, i)
  <2>1. \/ Exec!Steps(t, i, "new", "opened") \/ Exec!Steps(t, i, "running", "launched")
        \/ Exec!Steps(t, i, "running", "unlaunched")
    BY <1>3 DEF Exec!OpenEntry, Exec!Launch, Exec!LaunchFails
  <2> QED BY <1>1, <2>1
<1>4. ASSUME NEW from, NEW to, NEW st, NEW result, Exec!Edit(t, i, from, to, st, result)
      PROVE  \E to2 : /\ execReq' = [execReq EXCEPT ![t].task[i] = to2]
                      /\ execReq[t].pc = "tasks"
  <2>1. Exec!Steps(t, i, from, to) \/ Exec!Steps(t, i, from, "missing")
    BY <1>4 DEF Exec!Edit
  <2> QED BY <1>1, <2>1
<1>5. CASE Exec!MarkInProgress(t, i) \/ Exec!MarkFinished(t, i) \/ Exec!PutResult(t, i)
  <2> DEFINE own == [by |-> t, cmd |-> execReq[t].cmds[i]]
  <2>1. \/ Exec!Edit(t, i, "opened", "running", "progress", NoResult)
        \/ Exec!Edit(t, i, "launched", "half", "finished", NoResult)
        \/ Exec!Edit(t, i, "half", "done", "finished", NoResult)
        \/ Exec!Edit(t, i, "half", "done", "same", own)
        \/ Exec!Edit(t, i, "launched", "half", "same", own)
    BY <1>5, Zenon DEF Exec!MarkInProgress, Exec!MarkFinished, Exec!PutResult
  <2> HIDE DEF own
  <2> QED BY <1>4, <2>1
<1> QED BY <1>2, <1>3, <1>5

LEMMA WorkGoesOn ==
  ASSUME YamlInv, NEW t \in Threads, ExecuteCommands(t)
  PROVE  Moved(t)
<1> DEFINE r == execReq[t]
<1>1. UNCHANGED envVars /\ job' = job
  BY DEF ExecuteCommands
<1>2. r.pc \notin {"idle", "reply"}
  BY RunsTask DEF ExecuteCommands, Exec!SetStarted, Exec!ClearFinished, Exec!ResetCommands,
     Exec!Abort, Exec!AllDone, Exec!WriteFirstFlag, Exec!WriteSecondFlag, Exec!Serialise,
     Exec!At
<1>3. /\ Is(t, "memory") /\ HasText(t) /\ envReq[t].pc = "reply" /\ Valid(job[t].config)
      /\ job[t].lines \in Seq(Cmds) /\ job' = [job EXCEPT ![t].lines = job[t].lines]
  BY <1>1, <1>2, InvTypes, ZenonT(60) DEF YamlInv, JobIsSound, HasText, Is, Job
<1>4. r \in ExecP!Requests
  BY InvTypes
<1>5. ASSUME NEW s, execReq' = [execReq EXCEPT ![t] = s], s.pc # "idle"
      PROVE  Moved(t)
  <2>1. WorksOn(t, s, job[t].lines)
    BY <1>1, <1>3, <1>5 DEF WorksOn
  <2> QED BY <2>1, WorkMoves
<1>6. ASSUME NEW pc \in ExecP!Pcs \ {"idle"}, Exec!Goto(t, pc)
      PROVE  Moved(t)
  <2> DEFINE s == [r EXCEPT !.pc = pc]
  <2>1. execReq' = [execReq EXCEPT ![t] = s] /\ s.pc = pc
    BY <1>4, <1>6, InvTypes DEF Exec!Goto, ExecP!Requests
  <2> HIDE DEF s
  <2> QED BY <1>5, <2>1
<1>7. ASSUME NEW reply, Exec!Answer(t, reply)
      PROVE  Moved(t)
  <2> DEFINE s == Exec!Asking("none", <<>>, "reply", reply)
  <2>1. execReq' = [execReq EXCEPT ![t] = s] /\ s.pc = "reply"
    BY <1>7 DEF Exec!Answer, Exec!Asking
  <2> HIDE DEF s
  <2> QED BY <1>5, <2>1
<1>8. CASE RunCommand(t)
  <2>1. PICK i, to : execReq' = [execReq EXCEPT ![t].task[i] = to] /\ r.pc = "tasks"
    BY <1>8, RunsTask
  <2> DEFINE s == [r EXCEPT !.task[i] = to]
  <2>2. execReq' = [execReq EXCEPT ![t] = s] /\ s.pc = r.pc
    BY <1>4, <2>1, InvTypes DEF ExecP!Requests
  <2> HIDE DEF s
  <2> QED BY <1>5, <2>1, <2>2
<1>9. CASE Exec!Abort(t)
  BY <1>7, <1>9 DEF Exec!Abort
<1>10. CASE Exec!Serialise(t)
  BY <1>7, <1>10 DEF Exec!Serialise
<1>11. CASE \/ Exec!SetStarted(t) \/ Exec!ClearFinished(t) \/ Exec!ResetCommands(t)
            \/ Exec!AllDone(t) \/ Exec!WriteFirstFlag(t) \/ Exec!WriteSecondFlag(t)
  <2>1. \E pc \in ExecP!Pcs \ {"idle"} : Exec!Goto(t, pc)
    BY <1>11 DEF Exec!SetStarted, Exec!ClearFinished, Exec!ResetCommands, Exec!AllDone,
       Exec!WriteFirstFlag, Exec!WriteSecondFlag, ExecP!Pcs
  <2> QED BY <1>6, <2>1
<1> QED BY <1>8, <1>9, <1>10, <1>11 DEF ExecuteCommands

(* The answer.                                                             *)
LEMMA Leaves ==
  ASSUME YamlInv, NEW t \in Threads, Respond(t)
  PROVE  Moved(t)
<1>1. /\ job \in [Threads -> Job] /\ envReq[t].pc = "reply" /\ JobIsSound(t)
      /\ envReq' = [envReq EXCEPT ![t] = EnvP!Idle] /\ venv' = venv
      /\ job' = [job EXCEPT ![t] = NoJob]
  BY EnvSteps DEF YamlInv, Respond, EnvP!Respond, EnvP!At
<1>2. Busy(t)
  BY <1>1 DEF JobIsSound, EnvP!Idle, EnvP!Asking
<1>3. execReq'[t] = ExecP!Idle /\ \A u \in Threads \ {t} : execReq'[u] = execReq[u]
  <2>1. CASE Exec!Respond(t)
    BY <2>1, InvTypes DEF Exec!Respond, Exec!Idle, ExecP!Idle, Exec!Asking, ExecP!Asking
  <2>2. CASE UNCHANGED execVars /\ (Is(t, "clear") \/ Is(t, "detached"))
    BY <1>1, <2>2 DEF execVars, JobIsSound, Is
  <2> QED BY <2>1, <2>2 DEF Respond
<1>4. NoJob \in Job /\ NoJob.kind = "none" /\ NoJob.config = NoConfig
      /\ NoJob.lines = <<>> /\ NoJob.lone = FALSE
  <2>1. <<>> \in Seq(Cmds)
    OBVIOUS
  <2> HIDE DEF NoConfig
  <2> QED BY <2>1 DEF NoJob, Job
<1>5. /\ job'[t] = NoJob /\ job' \in [Threads -> Job]
      /\ envReq'[t] = EnvP!Idle
      /\ \A u \in Threads \ {t} : envReq'[u] = envReq[u] /\ job'[u] = job[u]
  BY <1>1, <1>4, InvTypes
<1>6. Moves(t)
  BY <1>2, <1>3, <1>5, OwnMoves
<1>7. JobIsSound(t)'
  <2>1. EnvP!Idle.op = "none" /\ EnvP!Idle.pc = "idle" /\ ExecP!Idle.pc = "idle"
    BY DEF EnvP!Idle, EnvP!Asking, ExecP!Idle, ExecP!Asking
  <2> QED BY <1>3, <1>4, <1>5, <2>1 DEF JobIsSound, Busy, Is, HasText
<1>8. Story(t)'
  <2>1. Came(t)' = <<>>
    BY <1>4, <1>5, NothingCame DEF Came
  <2>2. EnvP!StoryOf(EnvP!Idle, <<>>, {}, FALSE, venv)
    <3>1. /\ EnvP!Idle.op = "none" /\ EnvP!Idle.pc = "idle" /\ EnvP!Idle.todo = <<>>
          /\ EnvP!Idle.accepted = {}
      BY DEF EnvP!Idle, EnvP!Asking
    <3>2. EnvP!Idle.op # "render"
      BY <3>1
    <3> HIDE DEF EnvP!Idle
    <3> QED BY <3>1, <3>2, EnvAssumptions, EnvP!StoryOfIdle, Zenon
  <2> QED BY <1>1, <1>4, <1>5, <2>1, <2>2 DEF Story
<1>9. LoneIsSound(t)'
  BY <1>4, <1>5 DEF LoneIsSound
<1> QED BY <1>5, <1>6, <1>7, <1>8, <1>9 DEF Moved, ThreadIsSound

(* The three kinds of requests that arrive.                                *)
LEMMA Arrives ==
  ASSUME YamlInv, NEW t \in Threads,
         ReceiveYaml(t) \/ ReceiveDetachedYaml(t) \/ ReceiveClear(t)
  PROVE  Moved(t)
<1>1. \A op, pc, todo : Env!Asking(op, pc, todo) = EnvP!Asking(op, pc, todo)
  BY DEF Env!Asking, EnvP!Asking
<1>2. CASE ReceiveYaml(t)
  <2>1. PICK config \in Configs :
          /\ Arrive(t, "memory", config)
          /\ Env!Receive(t, Env!Asking("command", "member", PairsWith("memory", config)))
    BY <1>2 DEF ReceiveYaml, PairsWith, Before, OwnPairs
  <2>2. /\ envReq' = [envReq EXCEPT ![t] =
                        EnvP!Asking("command", "member", PairsWith("memory", config))]
        /\ venv' = venv
    BY <1>1, <2>1 DEF Env!Receive
  <2> QED BY <2>1, <2>2, Arrived
<1>3. CASE ReceiveDetachedYaml(t)
  <2>1. PICK config \in Configs :
          /\ Arrive(t, "detached", config)
          /\ Env!Receive(t, Env!Asking("set", Env!NextPc("set", PairsOf(config)), PairsOf(config)))
    BY <1>3 DEF ReceiveDetachedYaml
  <2> DEFINE pc == Env!NextPc("set", PairsOf(config))
  <2>2. PairsWith("detached", config) = PairsOf(config)
    BY CameIsASequence DEF PairsWith, Before
  <2>3. pc \in {"member", "reply"} /\ (pc # "member" => PairsOf(config) = <<>>)
    BY DEF Env!NextPc
  <2> HIDE DEF pc
  <2>4. /\ envReq' = [envReq EXCEPT ![t] =
                        EnvP!Asking("set", pc, PairsWith("detached", config))]
        /\ venv' = venv
    BY <1>1, <2>1, <2>2 DEF Env!Receive, pc
  <2> QED BY <2>1, <2>2, <2>3, <2>4, Arrived
<1>4. CASE ReceiveClear(t)
  <2>1. /\ Arrive(t, "clear", NoConfig) /\ venv' = venv
        /\ envReq' = [envReq EXCEPT ![t] = EnvP!Asking("clear", "clear", <<>>)]
    BY <1>1, <1>4 DEF ReceiveClear, Env!ReceiveClear, Env!Receive
  <2>2. PairsWith("clear", NoConfig) = <<>>
    BY NothingCame
  <2> HIDE DEF NoConfig
  <2> QED BY <2>1, <2>2, Arrived
<1> QED BY <1>2, <1>3, <1>4

---------------------------------------------------------------------------
(* The invariant holds.                                                    *)

LEMMA YamlInit == Init => YamlInv
<1> SUFFICES ASSUME Init
             PROVE  YamlInv
  OBVIOUS
<1>1. EnvP!EnvInv
  <2>1. EnvP!Init
    BY DEF Init, Env!Init, EnvP!Init, Env!Idle, EnvP!Idle, Env!Asking, EnvP!Asking
  <2> QED BY <2>1, EnvP!EnvInit, EnvAssumptions
<1>2. ExecP!ExecInv
  <2>1. ExecP!Init
    BY DEF Init, Exec!Init, ExecP!Init, Exec!Idle, ExecP!Idle, Exec!Asking, ExecP!Asking,
           Exec!Scheduled, ExecP!Scheduled
  <2> QED BY <2>1, ExecP!ExecInit, ExecAssumptions
<1>3. NoJob \in Job /\ NoJob.kind = "none" /\ NoJob.config = NoConfig
      /\ NoJob.lines = <<>> /\ NoJob.lone = FALSE
  <2>1. <<>> \in Seq(Cmds)
    OBVIOUS
  <2> HIDE DEF NoConfig
  <2> QED BY <2>1 DEF NoJob, Job
<1>4. /\ job \in [Threads -> Job]
      /\ \A t \in Threads : job[t] = NoJob /\ envReq[t] = EnvP!Idle /\ execReq[t] = ExecP!Idle
  BY <1>3 DEF Init, Env!Init, Exec!Init, Env!Idle, EnvP!Idle, Env!Asking, EnvP!Asking,
     Exec!Idle, ExecP!Idle, Exec!Asking, ExecP!Asking
<1>5. /\ EnvP!Idle.op = "none" /\ EnvP!Idle.pc = "idle" /\ EnvP!Idle.todo = <<>>
      /\ EnvP!Idle.accepted = {} /\ ExecP!Idle.pc = "idle"
  BY DEF EnvP!Idle, EnvP!Asking, ExecP!Idle, ExecP!Asking
<1>6. ASSUME NEW t \in Threads PROVE JobIsSound(t) /\ Story(t) /\ LoneIsSound(t)
  <2>1. JobIsSound(t)
    BY <1>3, <1>4, <1>5 DEF JobIsSound, Busy, Is, HasText
  <2>2. Story(t)
    <3>1. Came(t) = <<>>
      BY <1>3, <1>4, NothingCame DEF Came
    <3>2. EnvP!StoryOf(EnvP!Idle, <<>>, {}, FALSE, venv)
      <4>1. EnvP!Idle.op # "render"
        BY <1>5
      <4> QED BY <1>5, <4>1, EnvAssumptions, EnvP!StoryOfIdle, Zenon
    <3> QED BY <1>3, <1>4, <3>1, <3>2 DEF Story
  <2>3. LoneIsSound(t)
    BY <1>3, <1>4 DEF LoneIsSound
  <2> QED BY <2>1, <2>2, <2>3
<1> QED BY <1>1, <1>2, <1>4, <1>6 DEF YamlInv

LEMMA YamlStep == YamlInv /\ [Next]_vars => YamlInv'
<1> SUFFICES ASSUME YamlInv, [Next]_vars
             PROVE  YamlInv'
  OBVIOUS
<1>1. EnvP!EnvInv' /\ ExecP!ExecInv'
  BY PartsNext
<1>2. ASSUME NEW t \in Threads, Moved(t) PROVE YamlInv'
  <2>1. \A u \in Threads : ThreadIsSound(u)'
    BY <1>2, OthersStaySound DEF Moved
  <2> QED BY <1>1, <1>2, <2>1 DEF YamlInv, Moved, ThreadIsSound
<1>3. CASE Next
  <2>1. PICK t \in Threads :
          \/ ReceiveYaml(t) \/ ReceiveDetachedYaml(t) \/ ReceiveClear(t)
          \/ SetVariables(t) \/ RunCommands(t) \/ RefuseYaml(t) \/ StartDetached(t)
          \/ ExecuteCommands(t) \/ Respond(t)
    BY <1>3 DEF Next
  <2> QED BY <1>2, <2>1, Arrives, SetVariablesMoves, StartsWork, WorkGoesOn, Leaves
<1>4. CASE UNCHANGED vars
  <2>1. /\ venv' = venv /\ envReq' = envReq /\ execReq' = execReq /\ job' = job
    BY <1>4 DEF vars, envVars, execVars
  <2>2. ASSUME NEW t \in Threads PROVE ThreadIsSound(t)'
    <3>1. ThreadIsSound(t)
      BY DEF YamlInv, ThreadIsSound
    <3>2. Came(t)' = Came(t)
      BY <2>1 DEF Came
    <3>3. JobIsSound(t)' /\ Story(t)'
      BY <2>1, <3>1, <3>2 DEF ThreadIsSound, JobIsSound, Busy, Is, HasText, Story
    <3>4. LoneIsSound(t)'
      BY <2>1, <3>1, <3>2 DEF ThreadIsSound, LoneIsSound, HasText, RefusedForRoom,
         NumbersAreOwed, Env!Names
    <3> QED BY <3>3, <3>4 DEF ThreadIsSound
  <2>3. job' \in [Threads -> Job]
    BY <2>1 DEF YamlInv
  <2> QED BY <1>1, <2>2, <2>3 DEF YamlInv, ThreadIsSound
<1> QED BY <1>3, <1>4

(* The invariant of the composition: that of each part, where the parts of *)
(* a request are, what it has set of its variables, and what a number that *)
(* is still among them waits for (execute_command_yaml, set_env_var).      *)
THEOREM YamlInvariance == Spec => []YamlInv
<1> QED BY YamlInit, YamlStep, PTL DEF Spec

(* The handlers of the YAML requests implement the environment and the     *)
(* shared record of the commands, neither of which knows of the other: what*)
(* is proved of VirtualEnv and of CommandExec holds of their composition   *)
(* (execute_command_yaml, command_detached_start_yaml).                    *)
THEOREM PartsAreImplemented == Spec => EnvP!Spec /\ ExecP!Spec
<1>1. Init => EnvP!Init /\ ExecP!Init
  BY DEF Init, Env!Init, EnvP!Init, Env!Idle, EnvP!Idle, Env!Asking, EnvP!Asking,
         Exec!Init, ExecP!Init, Exec!Idle, ExecP!Idle, Exec!Asking, ExecP!Asking,
         Exec!Scheduled, ExecP!Scheduled
<1>2. YamlInv /\ [Next]_vars => [EnvP!Next]_(EnvP!vars) /\ [ExecP!Next]_(ExecP!vars)
  BY EnvStepOf, ExecStepOf
<1> QED BY <1>1, <1>2, YamlInvariance, PTL DEF Spec, EnvP!Spec, ExecP!Spec

(* So the environment that YAML requests share with each other and with    *)
(* DELETE /env is one in which each call is a single step (set_env_var).   *)
THEOREM YamlCallsAreSteps == Spec => EnvP!ImplementsEnvironment
BY PartsAreImplemented, EnvAssumptions, EnvP!EnvironmentIsImplemented, PTL

(* Type correctness: the state of both parts, and the YAML request of every*)
(* thread with the command lines that it has handed over (routes.py).      *)
THEOREM YamlTypes == Spec => []TypeOK
<1>1. YamlInv => TypeOK
  <2> SUFFICES ASSUME YamlInv
               PROVE  TypeOK
    OBVIOUS
  <2>1. Env!TypeOK
    <3>1. EnvP!TypeOK
      BY DEF YamlInv, EnvP!EnvInv
    <3>2. EnvP!Request = Env!Request
      BY DEF EnvP!Request, Env!Request, EnvP!Ops, Env!Ops, EnvP!Pcs, Env!Pcs, EnvP!Pair,
             Env!Pair, EnvP!Values, Env!Values
    <3> QED
      BY <3>1, <3>2 DEF EnvP!TypeOK, Env!TypeOK, EnvP!Names, Env!Names, EnvP!Values, Env!Values,
             EnvP!IsFiniteSet, Env!IsFiniteSet
  <2>2. Exec!TypeOK
    <3>1. ExecP!TypeOK
      BY DEF YamlInv, ExecP!ExecInv
    <3>2. ExecP!IsRecord(record) => Exec!IsRecord(record)
      BY DEF ExecP!IsRecord, Exec!IsRecord, ExecP!Flags, Exec!Flags, ExecP!Entry, Exec!Entry,
             ExecP!Result, Exec!Result
    <3> QED
      BY <3>1, <3>2 DEF ExecP!TypeOK, Exec!TypeOK, ExecP!Kinds, Exec!Kinds, ExecP!Lists,
             Exec!Lists, ExecP!Pcs, Exec!Pcs, ExecP!Tasks, Exec!Tasks, ExecP!Replies, Exec!Replies
  <2> QED BY <2>1, <2>2, InvTypes DEF TypeOK, Job
<1> QED BY <1>1, YamlInvariance, PTL

(* A number among the variables never outlives its replacement: when a     *)
(* request that is alone, brings no number and has a text for every number *)
(* that there was hands its commands over, there is none left, although    *)
(* each of its texts may find the environment full (set_env_var).          *)
THEOREM NumbersAlwaysReplaceable == Spec => []NumbersCanBeReplaced
<1>1. YamlInv => NumbersCanBeReplaced
  <2> SUFFICES ASSUME YamlInv, NEW t \in Threads,
                      job[t].lone, ~job[t].numbers, job[t].lines # <<>>
               PROVE  ~HasNumber
    BY DEF NumbersCanBeReplaced
  <2>1. HasText(t) /\ Valid(job[t].config) /\ envReq[t].pc = "reply"
    BY DEF YamlInv, JobIsSound
  <2> QED BY <2>1, LoneLeavesNoNumber
<1> QED BY <1>1, YamlInvariance, PTL

---------------------------------------------------------------------------
(* What the commands see.                                                  *)

(* The pairs of a text come last, and its names are distinct.              *)
LEMMA TextComesLast ==
  ASSUME NEW kind, NEW config \in Configs, Valid(config), NEW i \in DOMAIN config.env
  PROVE  LET pairs == PairsWith(kind, config)
             b == Len(Before(kind))
             n == Len(pairs) IN
         /\ n \in Nat /\ b + i \in 1..n /\ pairs[b + i] = config.env[i]
         /\ \A j \in 1..n : pairs[j].key = config.env[i].key /\ j >= b + i => j = b + i
<1> DEFINE first == Before(kind)
           env == config.env
           pairs == first \o env
           b == Len(first)
           n == Len(pairs)
<1>1. /\ first \in Seq(EnvP!Pair) /\ PairsOf(config) = env /\ env \in Seq(EnvP!Pair)
  BY CameIsASequence DEF PairsOf
<1>2. \A k, l \in DOMAIN env : env[k].key = env[l].key => k = l
  <2>1. env \in EnvP!Bodies
    BY <1>1, PairsAreABody
  <2> QED BY <2>1 DEF EnvP!Bodies
<1>3. PairsWith(kind, config) = pairs
  BY <1>1 DEF PairsWith
<1>4. i \in DOMAIN env
  OBVIOUS
<1> HIDE DEF first, env
<1>5. /\ DOMAIN env = 1..Len(env) /\ Len(env) \in Nat /\ b \in Nat /\ n = b + Len(env)
      /\ \A j \in 1..Len(env) : pairs[j + b] = env[j]
  BY <1>1
<1> HIDE DEF pairs, b, n
<1>6. n \in Nat /\ b + i \in 1..n /\ b + i = i + b
  BY <1>4, <1>5
<1>7. pairs[b + i] = env[i]
  BY <1>4, <1>5, <1>6
<1>8. ASSUME NEW j \in 1..n, pairs[j].key = env[i].key, j >= b + i PROVE j = b + i
  <2>1. j - b \in 1..Len(env) /\ (j - b) + b = j
    BY <1>4, <1>5, <1>8
  <2>2. pairs[j] = env[j - b]
    BY <1>5, <2>1
  <2>3. j - b = i
    BY <1>2, <1>4, <1>5, <1>8, <2>1, <2>2
  <2> QED BY <1>4, <1>5, <2>1, <2>3
<1> QED BY <1>3, <1>6, <1>7, <1>8 DEF env, b, n, first

(* While it is alone, the variables that a request with commands has set   *)
(* are those that its commands get, and no others of its text (only env    *)
(* vars that were set: command_detached_start_yaml).                       *)
THEOREM VariablesAreSeen == Spec => []CommandsSeeTheirVariables
<1>1. ASSUME YamlInv, NEW t \in Threads, job[t].lone, job[t].lines # <<>>,
             NEW i \in DOMAIN job[t].config.env
      PROVE  LET pair == job[t].config.env[i] IN
             IF pair.key \in envReq[t].accepted
             THEN pair.key \in Env!Names /\ venv[pair.key] = pair.value
             ELSE /\ pair.key \notin Env!Names
                  /\ pair.key \notin SystemNames \cup {""} => Cardinality(Env!Names) >= MaxSize
  <2> DEFINE config == job[t].config
             r == envReq[t]
             pairs == Came(t)
             b == Len(Before(job[t].kind))
             n == Len(pairs)
             pair == config.env[i]
  <2>1. HasText(t) /\ Valid(config) /\ r.pc = "reply" /\ config \in Configs
    BY <1>1 DEF YamlInv, JobIsSound
  <2>2. /\ n \in Nat /\ b + i \in 1..n /\ pairs[b + i] = pair
        /\ \A j \in 1..n : pairs[j].key = pair.key /\ j >= b + i => j = b + i
    BY <1>1, <2>1, TextComesLast, ZenonT(60) DEF Came
  <2>3. /\ EnvP!Told(r, pairs) /\ EnvP!Undisturbed(r, pairs, venv)
        /\ Refused(r, pairs, DOMAIN venv)
    BY <1>1, <2>1, EnvFacts
  <2>4. DOMAIN venv \cap (SystemNames \cup {""}) = {} /\ Env!Names = DOMAIN venv
    BY <1>1, InvTypes
  <2> HIDE DEF r, pairs, b, n, pair
  <2>5. EnvP!Done(r, pairs) = n
    <3>1. r.todo = <<>> /\ Len(<<>>) = 0
      BY <2>1, <2>3 DEF EnvP!Told
    <3> QED BY <2>2, <3>1 DEF EnvP!Done, n
  <2>6. ASSUME pair.key \in r.accepted
        PROVE  pair.key \in DOMAIN venv /\ venv[pair.key] = pair.value
    <3>1. PICK j \in 1..n : EnvP!LastOf(n, pairs, pair.key, j) /\ venv[pair.key] = pairs[j].value
      BY <2>3, <2>5, <2>6 DEF EnvP!Undisturbed
    <3>2. pairs[j].key = pair.key /\ b + i <= j
      BY <2>2, <3>1 DEF EnvP!LastOf
    <3>3. j = b + i
      BY <2>2, <3>2
    <3> QED BY <2>2, <2>3, <2>6, <3>1, <3>3 DEF EnvP!Undisturbed
  <2>7. ASSUME pair.key \notin r.accepted
        PROVE  /\ pair.key \notin DOMAIN venv
               /\ pair.key \notin SystemNames \cup {""} => Cardinality(DOMAIN venv) >= MaxSize
    <3>1. pair.key \notin SystemNames => pair.key \notin DOMAIN venv
      BY <2>2, <2>3, <2>5, <2>7 DEF EnvP!Undisturbed
    <3>2. pair.key \notin SystemNames \cup {""} => Cardinality(DOMAIN venv) >= MaxSize
      BY <2>2, <2>3, <2>5, <2>7 DEF Refused
    <3> QED BY <2>4, <3>1, <3>2
  <2> QED BY <2>4, <2>6, <2>7 DEF r, pair
<1>2. YamlInv => CommandsSeeTheirVariables
  BY <1>1 DEF CommandsSeeTheirVariables
<1> QED BY <1>2, YamlInvariance, PTL

---------------------------------------------------------------------------
(* The order of the commands.                                              *)

(* What is handed over is the text's, and it is what runs, in turn.        *)
RunsItsLines(t) ==
  /\ job[t].lines # <<>> => HasText(t) /\ job[t].lines = LinesOf(t)
  /\ execReq[t].pc \notin {"idle", "reply"} =>
       execReq[t].kind = "sequential" /\ execReq[t].cmds = job[t].lines

OrderInv ==
  /\ YamlInv
  /\ \A t \in Threads : RunsItsLines(t) /\ ExecP!InTurn(execReq[t])

LEMMA LinesAreKept ==
  ASSUME NEW t \in Threads, RunsItsLines(t), execReq'[t] = execReq[t],
         job'[t].kind = job[t].kind, job'[t].config = job[t].config,
         job'[t].lines = job[t].lines
  PROVE  RunsItsLines(t)'
BY DEF RunsItsLines, HasText, LinesOf

LEMMA LinesAreRun ==
  ASSUME OrderInv, NEW t \in Threads,
         \/ ReceiveYaml(t) \/ ReceiveDetachedYaml(t) \/ ReceiveClear(t)
         \/ SetVariables(t) \/ RunCommands(t) \/ RefuseYaml(t) \/ StartDetached(t)
         \/ ExecuteCommands(t) \/ Respond(t)
  PROVE  \A u \in Threads : RunsItsLines(u)'
<1>1. /\ job \in [Threads -> Job] /\ execReq \in [Threads -> ExecP!Requests]
      /\ JobIsSound(t) /\ \A u \in Threads : RunsItsLines(u)
  BY InvTypes DEF OrderInv, YamlInv
<1>2. Moves(t)
  BY Arrives, SetVariablesMoves, StartsWork, WorkGoesOn, Leaves DEF Moved, OrderInv
<1>3. ASSUME NEW u \in Threads \ {t} PROVE RunsItsLines(u)'
  <2>1. /\ execReq'[u] = execReq[u]
        /\ job'[u] = job[u] \/ job'[u] = [job[u] EXCEPT !.lone = FALSE]
    BY <1>2 DEF Moves
  <2>2. /\ job'[u].kind = job[u].kind /\ job'[u].config = job[u].config
        /\ job'[u].lines = job[u].lines
    BY <1>1, <2>1 DEF Job
  <2> QED BY <1>1, <2>1, <2>2, LinesAreKept
<1> SUFFICES RunsItsLines(t)'
  BY <1>3
<1>4. CASE ReceiveYaml(t) \/ ReceiveDetachedYaml(t) \/ ReceiveClear(t)
  <2>1. PICK kind \in {"memory", "detached", "clear"}, config \in Configs \cup {NoConfig} :
          Arrive(t, kind, config)
    BY <1>4 DEF ReceiveYaml, ReceiveDetachedYaml, ReceiveClear
  <2>2. job'[t].lines = <<>>
    BY <1>1, <2>1, ArrivedJob
  <2>3. ~Busy(t) /\ execReq' = execReq
    BY <2>1 DEF Arrive, execVars
  <2> QED BY <1>1, <2>2, <2>3 DEF JobIsSound, RunsItsLines
<1>5. CASE SetVariables(t)
  <2>1. execReq' = execReq /\ job' = job
    BY <1>5 DEF SetVariables, execVars
  <2> QED BY <1>1, <2>1, LinesAreKept
<1>6. CASE RunCommands(t) \/ StartDetached(t)
  <2>1. /\ job' = [job EXCEPT ![t].lines = LinesOf(t)] /\ HasText(t)
        /\ execReq[t].pc = "idle"
    BY <1>6 DEF RunCommands, StartDetached, Hand, HasText, Is, Ready, Exec!At
  <2>2. /\ job'[t].lines = LinesOf(t) /\ job'[t].kind = job[t].kind
        /\ job'[t].config = job[t].config /\ LinesOf(t)' = LinesOf(t)
    BY <1>1, <2>1 DEF Job, LinesOf
  <2>3. \/ execReq'[t].kind = "sequential" /\ execReq'[t].cmds = LinesOf(t)
        \/ execReq' = execReq
    BY <1>1, <1>6 DEF RunCommands, StartDetached, execVars, Exec!Receive, Exec!Asking
  <2> QED BY <2>1, <2>2, <2>3 DEF RunsItsLines, HasText
<1>7. CASE RefuseYaml(t)
  <2>1. execReq'[t].pc = "reply" /\ job' = job
    BY <1>1, <1>7 DEF RefuseYaml, Exec!ReceiveRejected, Exec!Receive, Exec!Asking
  <2> QED BY <1>1, <2>1 DEF RunsItsLines, HasText, LinesOf
<1>8. CASE ExecuteCommands(t)
  <2>1. job' = job /\ ExecP!Handle(t)
    BY <1>8, ExecSteps DEF ExecuteCommands
  <2>2. /\ execReq[t].pc # "idle"
        /\ \/ execReq'[t].pc \in {"idle", "reply"}
           \/ /\ execReq'[t].kind = execReq[t].kind /\ execReq'[t].cmds = execReq[t].cmds
              /\ execReq[t].pc # "reply"
    BY <2>1, ExecAssumptions, ExecP!HandlingKeepsTurns DEF OrderInv, YamlInv
  <2> QED BY <1>1, <2>1, <2>2 DEF RunsItsLines, HasText, LinesOf
<1>9. CASE Respond(t)
  <2>1. job'[t].lines = <<>> /\ execReq'[t].pc \in {"idle", "reply"}
    <3>1. job'[t] = NoJob
      BY <1>1, <1>9 DEF Respond
    <3>2. JobIsSound(t)' /\ ~Busy(t)'
      BY <1>9, <3>1, Leaves DEF OrderInv, Moved, ThreadIsSound, NoJob, Busy, Is
    <3> QED BY <3>2 DEF JobIsSound
  <2> QED BY <2>1 DEF RunsItsLines
<1> QED BY <1>3, <1>4, <1>5, <1>6, <1>7, <1>8, <1>9

LEMMA OrderStep == OrderInv /\ [Next]_vars => OrderInv'
<1> SUFFICES ASSUME OrderInv, [Next]_vars
             PROVE  OrderInv'
  OBVIOUS
<1>1. YamlInv'
  BY YamlStep DEF OrderInv
<1>2. \A t \in Threads : ExecP!InTurn(execReq'[t])
  <2>1. [ExecP!Next]_(ExecP!vars)
    BY ExecStepOf DEF OrderInv
  <2> QED BY <2>1, ExecAssumptions, ExecP!TurnsAreKept DEF OrderInv, YamlInv
<1>3. \A t \in Threads : RunsItsLines(t)'
  <2>1. CASE Next
    BY <2>1, LinesAreRun DEF Next
  <2>2. CASE UNCHANGED vars
    <3>1. execReq' = execReq /\ job' = job
      BY <2>2 DEF vars, execVars
    <3> QED BY <3>1, LinesAreKept DEF OrderInv
  <2> QED BY <2>1, <2>2
<1> QED BY <1>1, <1>2, <1>3 DEF OrderInv

LEMMA OrderInit == Init => OrderInv
<1> SUFFICES ASSUME Init
             PROVE  OrderInv
  OBVIOUS
<1>1. ASSUME NEW t \in Threads
      PROVE  RunsItsLines(t) /\ ExecP!InTurn(execReq[t])
  <2>1. job[t].lines = <<>>
    BY DEF Init, NoJob
  <2>2. execReq[t].pc = "idle" /\ execReq[t].kind = "none"
    BY DEF Init, Exec!Init, Exec!Idle, Exec!Asking
  <2> QED BY <2>1, <2>2 DEF RunsItsLines, ExecP!InTurn
<1> QED BY <1>1, YamlInit DEF OrderInv

LEMMA OrderInvImpliesOrder == OrderInv => RunsInSectionOrder
<1> SUFFICES ASSUME OrderInv, NEW t \in Threads, job[t].lines # <<>>,
                    Lines(job[t].config.sections) # <<EmptyLine>>
             PROVE  LET s == job[t].config.sections
                        task == execReq[t].task IN
                    /\ Len(job[t].lines) = Cardinality(Places(s))
                    /\ \A p \in Places(s) : job[t].lines[Rank(s, p)] = Strip(LineAt(s, p))
                    /\ Exec!At(t, "tasks") =>
                         \A p, q \in Places(s) :
                            NotAfter(p, q) /\ p # q /\ task[Rank(s, q)] # "new" =>
                              task[Rank(s, p)] = "done"
  BY DEF RunsInSectionOrder
<1> DEFINE s == job[t].config.sections
           r == execReq[t]
<1>1. RunsItsLines(t) /\ ExecP!InTurn(r) /\ JobIsSound(t) /\ ExecP!RequestIsSound(t)
  BY DEF OrderInv, YamlInv, ExecP!ExecInv
<1>2. /\ DOMAIN job[t].lines = DOMAIN Lines(s)
      /\ \A i \in DOMAIN Lines(s) : job[t].lines[i] = Strip(Lines(s)[i])
  BY <1>1 DEF RunsItsLines, LinesOf, Commands
<1>3. AreSections(s, Cmds)
  <2>1. IsConfig(job[t].config)
    BY <1>1, ConfigsAssumption DEF RunsItsLines, JobIsSound
  <2> QED BY <2>1 DEF IsConfig, AreSections
<1> HIDE DEF s, r
<1>4. /\ Lines(s) \in Seq(Cmds) /\ Len(Lines(s)) = Cardinality(Places(s))
      /\ \A p \in Places(s) : /\ Rank(s, p) \in 1..Len(Lines(s))
                              /\ Lines(s)[Rank(s, p)] = LineAt(s, p)
      /\ \A p, q \in Places(s) : NotAfter(p, q) /\ p # q => Rank(s, p) < Rank(s, q)
  BY <1>3, LinesAreInOrder
<1>5. ASSUME Exec!At(t, "tasks"), NEW p \in Places(s), NEW q \in Places(s),
             NotAfter(p, q), p # q, r.task[Rank(s, q)] # "new"
      PROVE  r.task[Rank(s, p)] = "done"
  <2>1. r.kind = "sequential" /\ r.cmds = job[t].lines
    BY <1>1, <1>5 DEF RunsItsLines, Exec!At, r
  <2>2. DOMAIN r.task = 1..Len(Lines(s))
    BY <1>1, <1>2, <1>4, <2>1 DEF ExecP!RequestIsSound, r
  <2>3. Rank(s, p) \in 1..(Rank(s, q) - 1) /\ Rank(s, q) \in DOMAIN r.task
    BY <1>4, <1>5, <2>2
  <2> QED BY <1>1, <1>5, <2>1, <2>3 DEF ExecP!InTurn
<1>6. Len(job[t].lines) = Len(Lines(s))
  <2>1. job[t].lines \in Seq(Cmds)
    BY InvTypes DEF OrderInv, Job
  <2> QED BY <1>2, <1>4, <2>1
<1>7. \A p \in Places(s) : job[t].lines[Rank(s, p)] = Strip(LineAt(s, p))
  BY <1>2, <1>4
<1> QED BY <1>4, <1>5, <1>6, <1>7 DEF s, r

(* The commands of a YAML text are the lines of its sections, stripped of  *)
(* blanks, none missing and none twice, in the documented order of the     *)
(* sections, and one that comes later in this order is not begun before the*)
(* earlier ones are done, whatever other requests there are                *)
(* (get_cmds_in_order, run_commands).                                      *)
THEOREM LinesRunInOrder == Spec => []RunsInSectionOrder
BY OrderInit, OrderStep, OrderInvImpliesOrder, PTL DEF Spec

=============================================================================
