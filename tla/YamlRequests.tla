---------------------------- MODULE YamlRequests ----------------------------
(***************************************************************************)
(* Commands with an environment: the handlers of /commandyaml and          *)
(* /commanddetachedyaml of src/rest/api/routes.py, composed of those that  *)
(* they call. A YAML text first sets the variables of its env section in   *)
(* the environment that all requests share (VirtualEnv); then its command  *)
(* lines, in the order of its sections (YamlCommands), run one after the   *)
(* other and write their shared record (CommandExec), or are handed to the *)
(* executable runcmd (DetachedCommands has what becomes of them). DELETE   *)
(* /env may clear the variables at any time.                               *)
(*                                                                         *)
(* Each command gets the variables as they are when it is launched. YAML   *)
(* has numbers, and nothing turns them into texts: Popen refuses an        *)
(* environment that holds one. It also refuses some names, and may fail    *)
(* for reasons that are not those of the environment.                      *)
(***************************************************************************)
EXTENDS YamlCommands

CONSTANTS
  Threads,      \* request threads of the agent
  EnvKeys,      \* names of variables, the empty name among them
  SystemNames,  \* the names in os.environ when the agent started
  FileNames,    \* the names in environment.properties
  Unusable,     \* names that Popen refuses: with a "=" in them, or no texts
  Cmds,         \* command lines, the empty one and those of Body among them
  Body,         \* the lines of a YAML text, where they are taken for commands
  Configs,      \* the YAML texts that clients send
  MaxSize,      \* VIRTUAL_ENV_MAX_SIZE
  MaxPairs,     \* bound: variables of one text
  MaxCmds,      \* bound: command lines of one request
  MaxRequests,  \* bound: requests of /commandyaml
  NoResult      \* the details of a command that has none yet

VARIABLES
  venv, envReq,                                   \* of VirtualEnv
  record, execReq, received, overlapped, failed,  \* of CommandExec
  job                                             \* the YAML request of a thread

Env == INSTANCE VirtualEnv WITH
  req <- envReq, Keys <- EnvKeys, NoKey <- "", Template <- "TEMPLATE",
  Variables <- "VARIABLES", TemplatesDir <- "TEMPLATES_DIR",
  Requested <- {"text", "number"}, Own <- "own", Default <- "default", None <- "none"

Exec == INSTANCE CommandExec WITH req <- execReq

envVars == <<venv, envReq>>
execVars == <<record, execReq, received, overlapped, failed>>
vars == <<envVars, execVars, job>>

---------------------------------------------------------------------------
(* A YAML text: whether it is a mapping at all, its sections, and the      *)
(* variables of its env section, a mapping like the body of POST /env.     *)
IsConfig(config) ==
  /\ DOMAIN config = {"parses", "sections", "env"}
  /\ config.parses \in BOOLEAN
  /\ DOMAIN config.sections \subseteq Fields
  /\ \A f \in DOMAIN config.sections : config.sections[f] \in Seq(Seq(Cmds))
  /\ config.env \in Env!Bodies

Valid(config) == config.parses /\ IsComplete(config.sections)

ASSUME ThreadsAssumption == IsFiniteSet(Threads) /\ Threads # {}
ASSUME KeysAssumption ==
  /\ {"", "TEMPLATE", "VARIABLES", "TEMPLATES_DIR"} \subseteq EnvKeys
  /\ SystemNames \subseteq EnvKeys \ {""}
  /\ FileNames \subseteq EnvKeys \ {""}
  /\ Unusable \subseteq EnvKeys
ASSUME BoundsAssumption ==
  /\ MaxSize \in Nat \ {0} /\ MaxPairs \in Nat /\ MaxCmds \in Nat /\ MaxRequests \in Nat
  /\ IsFiniteSet(FileNames)
  /\ Cardinality(FileNames \cup {"TEMPLATES_DIR"}) <= MaxSize
ASSUME ResultAssumption == NoResult \notin [by : Threads, cmd : Cmds]
ASSUME ConfigsAssumption == \A config \in Configs : IsConfig(config)

(* A text that can be run has a line at least, and MaxCmds at most.        *)
ASSUME LinesAssumption ==
  /\ {EmptyLine, BlankLine} \subseteq Cmds /\ Body \in Seq(Cmds)
  /\ \A config \in Configs : Valid(config) => Commands(config.sections, Body) \in Exec!Lists

(* lines are the command lines that have been handed over. lone and        *)
(* numbers are history: no other request was in the agent since this one   *)
(* has arrived; a number was among the variables, or came with the text.   *)
NoConfig == [parses |-> FALSE, sections |-> [f \in {} |-> <<>>], env |-> <<>>]
NoJob == [kind |-> "none", config |-> NoConfig, lines |-> <<>>,
          lone |-> FALSE, numbers |-> FALSE]

Is(t, kind) == job[t].kind = kind
Busy(t) == ~Is(t, "none")

(* Popen raises for an environment that has a value which is no text, or a *)
(* name that no variable can have. Only DELETE /env takes a name away.     *)
HasNumber == \E k \in Env!Names : venv[k] = "number"
Poisoned == HasNumber \/ Env!Names \cap Unusable # {}

BringsNumber(env) == \E i \in DOMAIN env : env[i].value = "number"
Replaced(env) == {env[i].key : i \in DOMAIN env}
NumbersFor(env) ==
  BringsNumber(env) \/ \E k \in Env!Names \ Replaced(env) : venv[k] = "number"

Init ==
  /\ Env!Init
  /\ Exec!Init
  /\ job = [t \in Threads |-> NoJob]

Arrive(t, kind, config) ==
  /\ ~Busy(t)
  /\ job' = [u \in Threads |->
               IF u = t THEN [NoJob EXCEPT !.kind = kind, !.config = config,
                                           !.lone = \A v \in Threads : ~Busy(v),
                                           !.numbers = NumbersFor(config.env)]
               ELSE [job[u] EXCEPT !.lone = FALSE]]
  /\ UNCHANGED execVars

(* The variables of a text that is not valid are not set.                  *)
PairsOf(config) == IF Valid(config) THEN config.env ELSE <<>>

(* /commandyaml names its template before it looks at the text.            *)
ReceiveYaml(t) ==
  /\ received < MaxRequests
  /\ \E config \in Configs :
       /\ Arrive(t, "memory", config)
       /\ Env!Receive(t, Env!Asking("command", "member",
                                    <<[key |-> "TEMPLATE", value |-> "own"],
                                      [key |-> "VARIABLES", value |-> "own"]>>
                                      \o PairsOf(config)))

ReceiveDetachedYaml(t) ==
  \E config \in Configs :
     /\ Arrive(t, "detached", config)
     /\ Env!Receive(t, LET pairs == PairsOf(config) IN
                       Env!Asking("set", Env!NextPc("set", pairs), pairs))

ReceiveClear(t) == Arrive(t, "clear", NoConfig) /\ Env!ReceiveClear(t)

SetVariables(t) ==
  /\ Env!TestMember(t) \/ Env!TestSize(t) \/ Env!Write(t) \/ Env!Clear(t)
  /\ UNCHANGED <<execVars, job>>

---------------------------------------------------------------------------
(* The variables are set: envReq[t] stays at its reply, with what was      *)
(* accepted, until the commands have ended and the answer is made.         *)

(* Mutant of Ready: the commands do not wait for the variables.            *)
ReadyAtOnce(t) == Busy(t) /\ Exec!At(t, "idle") /\ job[t].lines = <<>>

Ready(t) == Env!At(t, "reply") /\ Exec!At(t, "idle") /\ job[t].lines = <<>>

Hand(t, lines) == job' = [job EXCEPT ![t].lines = lines]

LinesOf(t) == Commands(job[t].config.sections, Body)

RunCommands(t) ==
  /\ Ready(t)
  /\ Is(t, "memory")
  /\ Valid(job[t].config)
  /\ Exec!Receive(t, Exec!Asking("sequential", LinesOf(t), "begin", "none"))
  /\ Hand(t, LinesOf(t))
  /\ UNCHANGED envVars

RefuseYaml(t) ==
  /\ Ready(t)
  /\ Is(t, "memory")
  /\ ~Valid(job[t].config)
  /\ Exec!ReceiveRejected(t)
  /\ UNCHANGED <<envVars, job>>

(* runcmd is launched like a command. If it is not, because of the         *)
(* environment or because chmod or Popen fails, the request is answered    *)
(* without this step.                                                      *)
StartDetached(t) ==
  /\ Ready(t)
  /\ Is(t, "detached")
  /\ Valid(job[t].config)
  /\ ~Poisoned
  /\ Hand(t, LinesOf(t))
  /\ UNCHANGED <<envVars, execVars>>

(* Every command is launched with the environment of that moment. It may   *)
(* also fail to be launched whatever the environment is, as in CommandExec.*)
RunCommand(t) ==
  \E i \in DOMAIN execReq[t].cmds :
     \/ Exec!OpenEntry(t, i) \/ Exec!MarkInProgress(t, i)
     \/ ~Poisoned /\ Exec!Launch(t, i)
     \/ Exec!LaunchFails(t, i)
     \/ Exec!MarkFinished(t, i) \/ Exec!PutResult(t, i)

ExecuteCommands(t) ==
  /\ \/ Exec!SetStarted(t) \/ Exec!ClearFinished(t) \/ Exec!ResetCommands(t)
     \/ RunCommand(t) \/ Exec!Abort(t) \/ Exec!AllDone(t)
     \/ Exec!WriteFirstFlag(t) \/ Exec!WriteSecondFlag(t) \/ Exec!Serialise(t)
  /\ UNCHANGED <<envVars, job>>

(* The answer to a /commandyaml that has ended, or to another request whose*)
(* variables are set or cleared: to a /commanddetachedyaml also when it    *)
(* could not be started.                                                   *)
Respond(t) ==
  /\ Env!Respond(t)
  /\ \/ Is(t, "memory") /\ Exec!Respond(t)
     \/ (Is(t, "clear") \/ Is(t, "detached")) /\ UNCHANGED execVars
  /\ job' = [job EXCEPT ![t] = NoJob]

Next ==
  \E t \in Threads :
     \/ ReceiveYaml(t) \/ ReceiveDetachedYaml(t) \/ ReceiveClear(t)
     \/ SetVariables(t) \/ RunCommands(t) \/ RefuseYaml(t) \/ StartDetached(t)
     \/ ExecuteCommands(t) \/ Respond(t)

Spec == Init /\ [][Next]_vars

---------------------------------------------------------------------------
(* Properties.                                                             *)

TypeOK ==
  /\ Env!TypeOK
  /\ Exec!TypeOK
  /\ job \in [Threads ->
       [kind : {"none", "memory", "detached", "clear"}, config : Configs \cup {NoConfig},
        lines : Seq(Cmds), lone : BOOLEAN, numbers : BOOLEAN]]

(* The lines that are handed over are those of the text without the blanks *)
(* around them, section by section in the documented order, except where   *)
(* the one line of a text is empty, and each waits for all lines before it *)
(* (yaml_cmds_splitter).                                                   *)
RunsInSectionOrder ==
  \A t \in Threads :
     LET s == job[t].config.sections
         task == execReq[t].task IN
     job[t].lines # <<>> /\ Lines(s) # <<EmptyLine>> =>
       /\ Len(job[t].lines) = Cardinality(Places(s))
       /\ \A p \in Places(s) : job[t].lines[Rank(s, p)] = Strip(LineAt(s, p))
       /\ Exec!At(t, "tasks") =>
            \A p, q \in Places(s) :
               NotAfter(p, q) /\ p # q /\ task[Rank(s, q)] # "new" =>
                 task[Rank(s, p)] = "done"

(* The commands of a request that is alone get the variables of its own    *)
(* text, unless there is no room for them, or they have no name or one of  *)
(* the system's; and those that it reports to have been set ("only env vars*)
(* that were set") are those that they got (execute_command_yaml,          *)
(* command_detached_start_yaml).                                           *)
CommandsSeeTheirVariables ==
  \A t \in Threads :
     job[t].lone /\ job[t].lines # <<>> =>
       \A i \in DOMAIN job[t].config.env :
          LET pair == job[t].config.env[i] IN
          IF pair.key \in envReq[t].accepted
          THEN pair.key \in Env!Names /\ venv[pair.key] = pair.value
          ELSE /\ pair.key \notin Env!Names
               /\ pair.key \notin SystemNames \cup {""} => Cardinality(Env!Names) >= MaxSize

(* A number among the variables makes every command fail, of whatever      *)
(* request, but no longer than until it is replaced or cleared: no number  *)
(* is left from when the commands of a request are handed over, if the     *)
(* request is alone, brings none, and has a text for every number that     *)
(* there was, however full the environment is (set_env_var).               *)
NumbersCanBeReplaced ==
  \A t \in Threads :
     job[t].lone /\ ~job[t].numbers /\ job[t].lines # <<>> => ~HasNumber

=============================================================================
