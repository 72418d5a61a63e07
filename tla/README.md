# A verification project for estuary-agent

estuary-agent is a Flask service that exposes the command line of a machine as a
REST API: clients start commands that run detached from their request, wait for
others, keep a set of environment variables on the agent, and render templates.
This directory holds TLA+ modules that model the agent, TLC configurations that
check them on small instances, and theorems that TLAPS proves for every size of
instance. Line numbers refer to the files under `src/`.

Modules and configurations are run from this directory:

    tlc -workers 2 -config DetachedKills.cfg MCDetachedCommands.tla
    tlapm DetachedRunsProofs.tla

## 1. Inventory

### How the parts interact

`main.py:46` runs the Flask application with its defaults, so every request has a
thread of its own, and all threads share the module-level objects below without a
lock. A detached run is a process of its own (`runcmd`), a child of the agent; the
agent and the run communicate only through a JSON file and through signals.

| Component | State it keeps | Operations |
|---|---|---|
| Detached commands: `routes.py:198-370`, `process_utils.py`, `state_holder.py`, `command.py`, `io_utils.py` | `StateHolder.__command` (the file of the last start); `cmds/cmd_info_<id>.json` (pid, flags and records of a run); the process table | start, inspect, stop by id; inspect the last, stop all; the runner's records, shells, exit; death and restart of the agent |
| Virtual environment: `environment.py`, `env_init.py`, `routes.py:110-127`, `168-195` | `__virtual_env`, at most 500 names beside a copy of `os.environ` | set one or several variables, read, clear |
| Template rendering: `render.py`, `routes.py:145-165` | none of its own: it leaves TEMPLATE and VARIABLES in the virtual environment and reads them back | render |
| Commands in memory and in parallel: `command_in_memory.py`, `command_in_parallel.py`, `cmd_utils*.py`, `routes.py:441-526` | `command_detached_init` of `definitions.py:16`, one dictionary for all requests | run a list of commands and answer with the dictionary |
| Records and streams of a run: `command.py`, `command_hasher.py`, `cmd_utils.py:25-49` | one record per distinct command; `cmds/streams/<hash>_<id>.out` and `.err` | scheduled, in progress, finished; recreate, fill and read the streams |
| YAML commands: `yaml_cmds_splitter.py`, `config_loader.py`, `config_descriptor.py`, `routes.py:333-370`, `464-502` | none | parse, check, flatten the sections in order |
| Request pipeline: `routes.py:54-102`, `message_dumper.py`, `fluentd.py`, `http_response.py` | `message_dumper.response_headers`, one dictionary for all requests | authenticate, tag with a request id, log, turn exceptions into responses |
| File transfer: `routes.py:373-438`, `io_utils.py` | the file system; `/tmp/results.zip`, one for all requests | upload, download, zip a folder |
| Startup and registration: `main.py`, `env_startup.py`, `env_init.py`, `eureka.py` | configuration read once from the environment | read configuration, create directories, register |
| API description and wrappers: `swagger.py`, `restapi.py`, `flask_config.py` | none | constant text and wiring |

### What is hard, and what makes each component correct

**Detached commands.** A start by id first stops the previous run of the id with
`kill_proc_tree`: it reads a pid from the file, takes a snapshot of the tree below
it, signals its processes one by one, waits at most five seconds and drops the
result. Meanwhile runs fork and exit, orphans go to init, other requests do the
same, and the kernel may give a pid to somebody else. Files outlive runs and
agents, so a pid in a file may be stale; `GET /commanddetached` even writes the
agent's own pid to a file. Writes truncate first, and writers overlap.
Correct means: the agent is never signalled; a kill by id stays within the id; past
the loop nothing that was taken is alive unless it ignores SIGTERM; the old run is
dead when the new one is launched; a file that says "finished" is believed by
clients that then read the results; a run that ends by itself has said so; every
request is answered and every run ends.

**Virtual environment.** `set_env_var` tests for the name, tests the size and
assigns in separate steps. Correct means: no system variable is hidden, whatever
interleaves; the size stays bounded; a name that is set keeps accepting values when
the environment is full; a render uses what its own request named.

**Commands in memory and in parallel.** Every request resets the one dictionary,
adds its records to whatever dictionary is there, and serialises what is there at
the end. `dict.fromkeys` gives all commands one common value, so the entries alias
each other until `run_command` replaces them. Correct means: a request that is alone
is answered about its own commands and nothing else, overlapping requests leave a
consistent dictionary, and failures neither hang a request nor show in later ones.

**Records and streams of a run.** The entries of equal commands are one, the streams of
a command have the same name in every run of the id, and what a command leaves behind
keeps writing to them, past the end of its shell and of a killed runner. Correct means:
the report is a function of the list of commands and of how far the run is; no stream
holds the output of two executions; an answer about a finished run shows the output of
that run; a run ends whatever its commands leave behind.

**YAML commands.** A text sets variables in the environment that all share, then runs
its lines. Correct means: the lines run in the order of the sections, with the variables
of their text as long as nobody else is at work; a number among the variables, which
YAML has and Popen refuses, can be replaced however full the environment is.

**Request pipeline.** The request id passes from `before_request` to `after_request`
through one dictionary for all threads, which logging iterates over. Correct means: a
request that is alone gets its own id back whatever earlier ones left there, and no
iteration is ever disturbed.

**File transfer.** Uploads write in place; every zip has one name; zipping changes the
working directory of the process. Correct means: the last undisturbed upload is there; a
folder asked for alone comes back whole; the agent returns to its directory also when
zipping fails.

The hazards list of `PROJECT.json` names the lines where each of these can go wrong.

## 2. Modules

| Module | What it models |
|---|---|
| `DetachedCommands` | handlers, runners, shells, files, process table, agent crash and restart |
| `MCDetachedCommands` | its instances for TLC (symmetry of pids and of threads) |
| `DetachedCommandsProofs` | types, the agent is spared, kills are effective |
| `DetachedRunsProofs` | kills by id stay in the id, the old run is dead; what a file says of its run is true, empty files have writers, the last id was launched |
| `Environment` | abstract: an environment in which every call of a thread is one step |
| `VirtualEnv` | `EnvironmentSingleton` and the requests that set, clear and render; implements `Environment` |
| `VirtualEnvHistory` | history variables for what a request cannot see itself |
| `MCVirtualEnv` | their instances for TLC |
| `VirtualEnvProofs` | types, bounded size, nothing is shadowed; the refinement of `Environment`; with the history: overrides are accepted, renders are their own |
| `CommandExec` | the dictionary of `/command`, `/commandyaml`, `/commandparallel` |
| `MCCommandExec` | its instances for TLC |
| `CommandExecProofs` | types, a request alone is exact, what overlapping ones leave behind is consistent, requests come to an end |
| `RunReport` | abstract: what the file of an id says, as a function of the commands and of the number of records written |
| `CommandRunner` | `Command`, the streams of its commands and who writes to them, `GET /commanddetached/<id>`; implements `RunReport` |
| `CommandRunnerProofs` | types, streams never mix, answers are of their run; the refinement of `RunReport` |
| `RequestPipeline` | `before_request`, `after_request`, the shared `MessageDumper`, error handling |
| `FileTransfer` | `/file` and `/folder` inside the pipeline, of which it has an instance |
| `FileTransferProofs` | types, the dictionary of headers while it is logged, the id of a lone request; uploads, archives, the way back to the agent's directory |
| `YamlCommands` | operators: from the sections of a text to command lines, and a reference definition |
| `YamlCommandsProofs` | the lines of a text are those of its sections, in their order, however many there are |
| `YamlRequests` | `/commandyaml` and `/commanddetachedyaml`: the composition of `VirtualEnv` and `CommandExec` with `YamlCommands` |
| `YamlRequestsProofs` | its steps are steps of its parts; types, no number outlasts its replacement, commands see their variables and run in order |
| `MCCommandRunner`, `MCFileTransfer`, `MCYamlRequests` | their instances for TLC |

### DetachedCommands and the code

A request thread is a record `req[h]`: the operation, the id, the pid that it read
(`root`), and psutil's process objects (`todo` to be signalled, `targets` to be
waited for). Its `pc` names the next call of the handler that touches shared state.

| Action | Code |
|---|---|
| `ReceiveStart`, `ReceiveEmptyStart`, `ReceiveById`, `ReceiveInfoLast`, `ReceiveStopAll` | dispatch and the early returns of the five routes |
| `CheckFile`, `InitOpen`, `InitPut` | `routes.py:205-206`, with the two halves of `write_to_file_dict` |
| `ReadInfo`, `ReadPid` | `read_file` and `json.loads`; a start swallows the failure (`:274-277`) |
| `SnapshotTree`, `SnapshotFails` | `psutil.Process(pid)` and `children(recursive=True)` |
| `Signal`, `SignalsSent`, `WaitGone`, `WaitTimeout` | the loop and `wait_procs` of `process_utils.py:48-55` |
| `Spawn`, `SpawnFails`, `SetLast`, `Respond` | `chmod`, `Popen`, `set_last_command`, the response |
| `RunnerOpens`, `RunnerWrites`, `RunnerForks`, `RunnerAborts`, `RunnerResumes`, `RunnerExits` | `Command.run_commands` and `__run_command` |
| `ShellExits`, `Crash`, `Restart` | the operating system |

The file of an id is absent, empty (truncated), mixed (two writers overlapped and
left no JSON) or a record "init", "started" or "finished" with the pid of its
writer. A child of the agent that ended is a zombie until `Popen` or `wait_procs`
reaps it. A psutil object is bound to the process it was made for: when a pid is
given away, it is taken out of `todo` and `targets` (`Forgetting`). `runcmd` is an
executable that is not in the repository; `Command` is the Python form of what it
does, and is what the runner models. `Descendants` has
children and their children: below the agent there are a runner and its shell, and what a
shell starts is not modelled. Equal commands, the records of single commands and the
streams are left to `CommandRunner`.

### VirtualEnv and the code

`venv` is the dictionary, a function on the names that are set. A request is its
list of pairs still to be set; `TestMember`, `TestSize` and `Write` are the three
steps of `set_env_var`, `ReadTemplate`, `ReadVariables` and `ReadDir` the lookups
of a render. System variables never change; the names of `environment.properties`
and the directories that `EnvInit` sets are there from the start. Values are
abstract: those clients send, those the agent sets itself, those that were there.

`Environment` is what callers can count on: per thread the pairs still to be set and the
names accepted so far, and single steps that set, refuse, clear and respond. A set takes
effect at `Write`, a refusal at the test that fails; `TestMember` and `TestSize` that
pass, and the reads of a render, are stutters. It does not promise more than the code
keeps. A new name may be set when the environment is full, as long as it is not over its
size by all the other threads; and a name that is set may be refused, since another
thread may have set it between this one's test for it and its test of the size.

### CommandExec and the code

`record` is `command_detached_init`: two flags, the dictionary of commands, and
`shared`, the keys whose value is still the common object of `dict.fromkeys`.
`Assigned` is an assignment to a key, `Changed` one through a key, which every alias
sees. Each command of a request is a task that steps through `run_command`. The
tasks of a sequential request run one after the other; those of a parallel one
interleave where they await, that is, while a process runs. A key that another
request has taken away is a KeyError ("missing"), a process that cannot be launched
another failure; both end the request with a 500 and leave the record as it is.
`overlapped` and `failed` are history variables.

### CommandRunner and the code

`runner` is the process of the latest run: the step of `Command` it is at, the
dictionary it reports (`dict`), whether it has truncated the file but not written it yet
(`opened`), and whether the shell of its command lives. `stream[c]` is the file that
`CommandHasher` names for command c and this id (one for `.out` and `.err`, which the
code treats alike): the executions whose output is in it, and those that have it open.

| Action | Code |
|---|---|
| `Start`, `Exit` | `command.py:19-28`, `33-40` |
| `Open`, `Write` | the changes of the dictionary and the two halves of `write_to_file_dict` |
| `Delete`, `Create`, `Launch` | `recreate_files`, the `open`, and `Popen` (`cmd_utils.py:25-33`) |
| `Resume` | `communicate` and `read_file` (`:69-78`) |
| `Fail` | an exception in any of these, which nothing catches |
| `Kill` | a start or a stop of the id, or DELETE of all, from outside, at any step |
| `Output`, `ShellEnds` | the operating system |
| `GetFile`, `GetStream`, `GetReturns` | `routes.py:230-257` |

A run starts when the one before it is dead: how that comes about, and what happens when
it does not, is `DetachedCommands`. A GET of a file that does not parse changes nothing
and is left out. That deleting one's own stream fails (`io_utils.py:67`) is left out too.

`RunReport` is what a client may rely on. It knows no dictionary and no streams: record k
of a run is a function of its list of commands and of k. `ImplementsRunReport` is its
specification, with `NextRecord` for the number of the next record.

### RequestPipeline, FileTransfer and the code

`http[t]` is where a request is between `before_request` and its response: `SetRequestId`
and `SetRequestUri` write the shared dictionary, `Admit` and `Refuse` log and compare the
token (the text "None" when neither side has one, `env_startup.py:36-38`), `Handled` is
the end of the handler, `Stamp` and `LogResponse` are `after_request`, which reads the
body of the response in order to log it. Requests that draw or send equal ids cannot be
told apart by anybody, so ids are distinct; whether a client reuses one is not modelled.
`docs` is not a kind of request: `routes.py:78` looks for the path of the documentation
anywhere in the path and the query, so any handler may run without the token.

`FileTransfer` adds what the handlers of `/file` and `/folder` do at "handle", and lets
any other handler do nothing to files. A file is absent, open (as one writer has left it
so far), whole or mixed. `FolderBegins` to `LeaveAfterFailure` are the steps of
`shutil.make_archive` on Python up to 3.10, where it changes the working directory of
the process (the alpine 3.11 of the Dockerfile has Python 3.8); later versions do without
for zip, and only the races on the archive remain. The walk over the folder
is one step, and a relative path is resolved at that step.

### YamlCommands, YamlRequests and the code

A section is a sequence of items, an item a sequence of lines, because the code joins
items with newlines and splits the result again. `job[t]` is the YAML request of a
thread. Its variables are set by the actions of `VirtualEnv`; then `RunCommands` hands
the lines to `CommandExec`, whose actions run them, or `StartDetached` to `runcmd`
(`DetachedCommands` has what becomes of them). Popen raises when the environment is
`Poisoned`: when a value is a number, or a name is one that no process can have
(`Unusable`: with a "=" in it, or a number in YAML). Then no command is launched; and one
may fail to be launched at any time for other reasons (`LaunchFails`: a NUL, too long a
list of arguments, a failing fork), in a request that is alone, too. A detached start
that fails for any of these is answered without `StartDetached`.

Lines are stripped (`Strip`). When the joined text is empty, `execute_command` takes it
for no argument and runs the request's body instead (`Commands`); a line of blanks is
not empty at that point and runs as the empty command. The env section is a mapping, so
a text names each variable once, like the body of POST /env (`IsConfig`).

## 3. Runs

| Run | What it shows |
|---|---|
| `detached_kills` | `SignalledAreDead`, `KilledRunIsDead`, and the inductive invariants `KillInv` and `ScopeInv`, with two concurrent starts and stops, DELETE of all, crashes; `FinishedMeansQuiet`, `NormalExitIsPublished`: what a file says of its run is true |
| `detached_ids` | `StopScope`, `LastWasLaunched`, `EmptyFileHasWriter` with two ids and two concurrent requests |
| `detached_liveness` | every kind of request, recycled pids, crashes and restarts: `AgentNeverTargeted`, `SignalledAreDead`, and `EveryRequestAnswered`, `EveryRunEnds` under the fairness of section 5 |
| `virtual_env` | `NothingShadowed`, `SizeIsBounded`, `OverridesAccepted`, `RenderIsItsOwn`, `ImplementsEnvironment` and the invariant `EnvInv` |
| `command_exec` | `AloneIsExact`, `QuietIsConsistent`, `NeverStuck`, `ComesCloser` |
| `command_runner` | `ImplementsRunReport`, `StreamsNeverMix`, `AnswerIsOfItsRun`, `RunIsReported` |
| `file_transfer` | `LoneResponseHasItsId`, `DumpIsNeverDisturbed` of the pipeline; `LastUploadIsThere`, `LoneArchiveIsOfItsFolder`, `AgentReturnsHome` |
| `yaml_requests` | `RunsInSectionOrder`, `CommandsSeeTheirVariables`, `NumbersCanBeReplaced` |
| `detached_stop_other_id`, `detached_info_overwrites`, `command_exec_results`, `file_transfer_archive` | four statements of tests and of the API description that the code does not keep (section 7) |

Each module's type invariant is checked once (`TypeOK`, alone or as a part of the
inductive invariants). `NeverStuck` and `ComesCloser` together stand for liveness in
`CommandExec`: a step of a request is always possible, and each takes something from the
finite set of those that it has ahead, so it is answered if its thread goes on.

## 4. Bounds

* Pids: the agent, a run and its shell need three; four leave room for the run that
  replaces it while the old shell still lives. Without recycling a process table of
  four pids bounds the behaviours, and the system stops when they are used up: that
  is why `detached_kills`, which has crashes, does not check for deadlock. With recycling three pids go on for ever.
* Threads: two. The races of the handlers are between two of them; the proofs are
  for any number.
* Ids: one, where requests are to meet, and two in the runs about ids.
* `MaxCmds`: one command is enough for a kill to race with the fork of a shell; lists of
  two, where the steps of a run are the question, are those of `command_runner`.
* `virtual_env`: room for one name while clients set three, with one pair beside
  TEMPLATE and VARIABLES, so that the environment is full while requests are at
  work, and two threads overshoot. TEMPLATES_DIR is both the system's and in
  `environment.properties`.
* `command_exec`: two command lines, lists of up to two of them, equal ones
  included, and three requests: two that overlap, and one before or after them.
  The bound on requests is the reason for not checking deadlock there.
* `command_runner`: two runs, so that the second meets the file, the streams and the
  writers of the first, each of up to two commands of two (`c, c` included). The bound on
  runs is the reason for not checking deadlock.
* `file_transfer`: two threads; one folder beside the agent's own directory, which is
  enough for the wrong one to be zipped; three ids, of which one is always free; one
  content. Requests go on for ever.
* `yaml_requests`: an environment with room for three, so that the variable of a text may
  find it full or, after DELETE /env, not. A name with a "=" in it comes from
  `environment.properties` (escaped there), so no command can be launched before the
  first DELETE /env, and numbers come and go after it. Two requests in memory, any
  number of others; the three texts that the module names, with one variable (`MaxPairs`),
  to which /commandyaml adds its two. The system has no variables of its own there, since
  `virtual_env` has them. Left out, for the number of states, are a text that does not
  parse (an empty script takes the same path), one whose only line is empty, and sections
  before the script; the proofs have every text, and `YamlCommandsProofs` every section.

## 5. Fairness

`FairSpec` has `HandlersFairness`: weak fairness of each request thread's handler (not
of the arrival of requests). Threads are scheduled by the operating system, none
waits for a lock, and the one wait they have, `wait_procs`, has a timeout; commands
may ignore SIGTERM and run for ever, and requests are answered all the same. That a
run ends depends on its commands, which the code cannot promise: `EveryRunEnds` has
`CommandsFairness` (runners are scheduled, commands end) as its hypothesis. Nothing
is assumed of crashes and restarts.

`FairSpec` of `CommandRunner` has weak fairness of the runner's steps, of the output of
commands and of the end of shells, for the same reasons; `Fail` and `Kill` need never
happen. That children of a command stop writing is not assumed: `RunIsReported` says that
a run ends all the same.

## 6. Proofs

All proofs are for arbitrary sets of ids, pids, threads and paths and any bound on
commands, from the assumptions that the modules name (`PidAssumption`,
`SizeAssumption` and the like: distinct special values, finite sets of names). Every
inductive invariant was given to TLC on the instances of section 3 before it was proved.

* **The agent is spared** (`AgentIsSpared`). Inductive invariant `BasicInv`: types, a
  live agent whose parent is init, requests and runners where their handlers can
  have left them, and no request that has the agent among its targets. The agent is
  nobody's child, so it is in no tree; as a root it is left out. This holds with
  recycled pids, crashes and restarts: a new agent finds no request.
* **Kills are effective** (`KillsAreEffective`). `SignalsAreSound` is what
  `SignalledAreDead` needs to be inductive: during the loop, what has left `todo`
  is dead or ignores SIGTERM. Only a fork could bring a target back to life, and a
  fork takes the pid out of the targets. The whole invariant is `KillInv`
  (`KillInvariance`).
* **Kills stay in scope, restarts kill the old run** (`StopsStayInScope`,
  `RestartsKillTheOldRun`), for a kernel that does not recycle pids (`~Recycle`).
  `ScopeInv` ties the pieces together: a shell works for its runner's id, a runner
  is the agent's child (`FamilyIsSound`); a file names a run of its id or an agent
  (`FilesAreSound`); so does a root (`RootsAreSound`); targets are of the id
  (`TargetsAreSound`); a root that is alive during the loop is still to be signalled
  (`RootIsPending`). The lemma `Entries` says once what any step can do to one entry
  of the process table, and the others rest on it. With recycling the statements are
  false of the code: the pid in a file may belong to anybody.
* **What files say** (`FinishedRunsAreQuiet`, `NormalExitsArePublished`,
  `EmptyFilesHaveWriters`, `LastIsLaunched`), again for `~Recycle`. `RunsInv` adds to
  `ScopeInv`: a runner past its last record has no shell and has nothing open
  (`ExitIsClean`, `ShellsAreAwaited`), and a file agrees with the step of the runner it
  names (`RecordsAreTrue`). A file is a promise about a process that others change, so
  two lemmas say once and for all what a step can do to a runner (`RunnerFate`: it keeps
  its step, is killed, or makes a step of its own) and to a file (`FileFate`: which
  records can be new, and who writes them); then each conjunct is a matter of the few
  steps in which runner and file move.
* **The environment's size** (`SizeStaysBounded`). The size alone is not inductive:
  a thread that has passed the test will add a name. `RoomForPending` counts the
  names together with the threads about to add one. A DELETE may make every other
  thread pending again, but not its own, which is where the bound of
  one less than the number of threads comes from.
* **Nothing is shadowed** (`NothingIsEverShadowed`). Past its tests a thread holds a
  name that may be set (`RequestsAreSound`).
* **Calls are single steps** (`EnvironmentIsImplemented`). Beside `RoomForPending`, which
  gives the room that a new name finds at `Write`, the mapping needs that only a thread
  inside set_env_var has pairs left and that it starts with none accepted
  (`SoundRequest`). `StepSeen` says once what `Environment` sees of a step of one request;
  then there is a lemma for each kind of step: `ArrivalIsAsking`, `TestIsRefusal`,
  `WriteIsSetting`, `ClearIsClearing`, `ReadsAreUnseen`, `ResponseIsSeen`. Since YAML requests
  implement `VirtualEnv`, they implement `Environment` too (`YamlCallsAreSteps`): there it
  is shared with DELETE /env, and with other YAML requests.
* **The history of the environment** (`OverridesAreAccepted`, `LoneRendersAreTheirOwn`,
  of `HistorySpec`). `HistoryInv` tells the story of a request: the pairs still to be set
  are the last of those that came (`Told`); of those done, the names that were there all
  along were accepted (`Kept`); and if nobody disturbs, each accepted name has the value
  of the last pair so far that sets it (`Undisturbed`). That pair is carried along from
  step to step, so that no induction over the list is needed at the end.
* **The dictionary of commands** (`AloneIsExactAlways`, `QuietIsConsistentAlways`). A
  request that is alone has the keys to itself: what it has opened is on its own, and
  what has no task left is complete (`TasksAreSound`). For requests that overlap,
  `RecordIsOwed` turns the question round: whatever is still amiss with the record,
  a common value, a status, a missing result, a flag, some thread owes the step that will
  mend it; when all are idle nobody owes anything. That fails as soon as one request
  fails, hence the hypothesis. `ResultAssumption` tells a result from none.
* **Requests come to an end** (`RequestsComeCloser`). What a request has ahead of it is a
  finite set (`Ahead`), and each of its steps leaves a proper subset: a step of the handler
  takes an element that is its own (`FewerSteps`), a step of a task one of that task's
  (`FewerTaskSteps`), and leaving the tasks behind takes all of theirs. Others cannot add to
  it, since a command whose entry is gone ends its request. That some step is always
  possible is `NeverStuck`, and model-checked.
* **A run and its report** (`StreamsNeverMixAlways`, `AnswerIsOfItsRunAlways`,
  `RunnerImplementsReport`). In `RunInv` the dictionary, edited entry by entry, is what
  `RunReport` says of the list at the number `DictRecord` (`DictIsSound`), and nobody
  but the runner's own command has the stream open that it reads next
  (`StreamsAreSound`). The lemmas `FirstRecord`, `ProgressRecord` and `FinishedRecord` say
  how the abstract record changes from one number to the next, equal commands included;
  with them every action is a step of `RunReport` or a stutter, a lemma for each kind.
* **Files and archives** (`UploadsLast`, `LoneArchivesAreWhole`, `AgentIsHome`).
  `FilesInv` has a part for each thing that requests share: who meets another one knows
  it (`MeetingIsSeen`), a request that zips alone has saved the agent's own directory
  (`ReturnIsHome`), it finds the directory, the archive and the response as it left them
  (`ArchiveIsSound`), and a file that one request has open is as that one opened it
  (`UploadIsSound`).
* **The shared headers** (`DumpsAreUndisturbed`, `LoneRequestsKeepTheirId`). In
  `PipelineInv` a request that is past its own writes (`Tagged`) has both headers in the
  dictionary, where nothing takes them out again; and while a request is alone, all
  others are idle and the id in the dictionary is its own (`Alone`). A request that
  arrives ends that for every other. The handlers leave the pipeline alone or move one
  request on (`StepsOfThePipeline`), so nothing about files is needed.

* **The composition** (`PartsAreImplemented`, `YamlTypes`, `NumbersAlwaysReplaceable`,
  `VariablesAreSeen`). `YamlRequestsProofs` has an instance of the proofs of `VirtualEnv` and
  of `CommandExec`: each of its steps is one of theirs or leaves them alone (`EnvStepOf`,
  `ExecStepOf`), so their invariants and the lemmas they rest on hold as they stand. What
  `YamlInv` adds is where the two meet. `JobIsSound` says how far a request is in both at
  once. `Story` is the story of a request as the environment's history tells it, whose pairs
  are here the handler's own and those of the text. Of a request that is alone,
  `RefusedForRoom` says that a variable that is not there had no room or may not be set,
  and `NumbersAreOwed` that a number which is still there is one it is yet to replace.
  When its commands are handed over no pair is left to be set, so no number is owed and
  none is there (`LoneLeavesNoNumber`). Whether its commands can then be launched is not
  claimed: Popen fails for other reasons. That a text names each variable once makes the
  last pair of a name the only one.

* **The lines of a text** (`LinesAreInOrder`). The text is flattened twice, and what
  `FlattenSeq` does, which is defined by recursion, is shown by induction over the number
  of sequences that are joined. The induction theorem of the library takes an operator as
  its parameter; `InductionUpTo` is one for sets, from the fact that every set of natural
  numbers has a least element. An element of a sequence of sequences has a cell `<<i, j>>`
  and a position, the number of cells that are not after its own (`Position`). Row by row,
  the joined sequence holds each cell at its position (`HoldsRows`, `FlattenCells`), and
  positions increase with the cells (`PositionsIncrease`). The places of the lines in a text
  correspond to the cells of its items, in the same order (`PlacesAreOrdered`,
  `CellsOfPlaces`), so that the rank of a place is the number of its line.
* **They run in this order** (`LinesRunInOrder`). `OrderInv` adds to `YamlInv` that the lines
  that were handed over are those of the text and are the commands of the sequential request
  (`RunsItsLines`), and that such a request begins a command when all before it are done,
  which is proved of `CommandExec` (`InTurn`, `TurnsAreKept`).

Only model-checked: `EveryRequestAnswered`, `EveryRunEnds`, `RunIsReported` and
`NeverStuck`, which are liveness or use ENABLED; the installed provers handle neither.

## 7. Where the code does not do what its tests and documentation say

* `StopByIdStaysInId`: after `GET /commanddetached` has written its initial record
  for an id, the record holds the agent's pid, and a DELETE of that id kills the runs
  of all ids. (`StopScope` proves this is the only way out of the id.)
* `EndedRunIsReported`: the initial record of `GET /commanddetached`, written after
  the test for the file, may land on the records of a run that has just started and
  ended; that run is never reported as finished.
* `ResultsAreOfTheirCommands`: with two overlapping `/command` requests, one writes
  its result to the value that all commands of the other share, and answers with it
  at each of their keys.

* `ArchiveIsOfItsFolder`: of two overlapping GET /folder one answers 200 with the folder
  of the other, or with an archive that is not whole.

Others have no run of their own. A shell that is forked between the snapshot of
`kill_proc_tree` and the signal to its runner survives a DELETE that answers success
(`KilledRunIsDead` is about the runner only). `GET /commanddetached` that reads the file
between truncation and write fails, and since its handler passes the enum member
instead of its value (`routes.py:222`), the error handler fails too and the client gets a
bare 500, where `test_gettestinfo_repeated_should_return_always_200_p` expects a 200. The
initial record that it writes is the dictionary of /command at that moment, commands
included. A YAML text whose script is one empty line has its own lines run as commands
(`routes.py:444`). Two more: `SizeIsBounded` is tight, so two threads may store one
variable more than `VIRTUAL_ENV_MAX_SIZE` (`tests/unit/env_test.py:73`); and
DELETE /env clears TEMPLATES_DIR with the custom variables, so `Clear` followed by
`ReadDir` gives a render no directory until the agent is restarted.

Some of what overlapping requests do to each other is in the modules, and no property
speaks of it, because the code does it and neither test nor document says otherwise: of
two starts either may be left as the last one (`routes.py:285`); two starts of one id may
leave two runs, of which a later stop finds one (`:274`), and a start that fails leaves
none (`:275`); renders use the templates of each other (`:158`), concurrent requests
answer with the request id of each other (`message_dumper.py:12`), a GET may read part of an
upload, and uploads to one file mix or destroy it (`:388`); right after the 202 of a start
a GET shows the run before (`:284`), and the streams under an older record may be those of
a newer run (`:213`). The properties about requests that are alone, or undisturbed, say
what is left to rely on; `PROJECT.json` tells for each hazard which part of it a property
covers.

## 8. Not modelled, and why

Jinja2 and YAML parsing (libraries, pure functions of their input), Fluentd and
Eureka (remote services to which the agent only sends), Swagger text, the framework.
Windows branches: the same control with another spelling of the command. Startup is
sequential; what it leaves behind are the initial states. Two runs of one id that overlap
write to the same streams as well as to the same file; `DetachedCommands` has the file,
and the streams of overlapping runs are not modelled. Requests whose ids are equal, and
folders given by a relative path, are not modelled either.

## 9. Plan

The modules of the plan are written: `DetachedCommands`, `VirtualEnv` with `Environment`,
`CommandExec`, `CommandRunner` with `RunReport`, `RequestPipeline`, `FileTransfer`,
`YamlCommands` and `YamlRequests`. Every safety property that a run checks is proved, but for `NeverStuck`
(section 6). What is left:

1. `DetachedCommands` as an implementation of something smaller, a table of runs by id that
   are started and stopped, for `~Recycle`: `RunsInv` has what the mapping needs.
