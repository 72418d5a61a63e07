------------------------- MODULE CommandRunnerProofs -------------------------
(* Proofs about CommandRunner, for any number of commands and runs, and    *)
(* that it implements RunReport.                                           *)
EXTENDS CommandRunner, TLAPS

(* The runners of a list of commands.                                      *)
Runners(l) ==
  [run : 0..MaxRuns, list : {l}, at : Steps, i : 1..MaxCmds, opened : BOOLEAN,
   dict : [R!Asked(l) -> R!Entry], shell : BOOLEAN, alive : BOOLEAN]

---------------------------------------------------------------------------
(* The invariant.                                                          *)

RunnerIsSound ==
  /\ runner.run = 0 => ~runner.alive /\ runner.at = "schedule"
  /\ runner.run > 0 => runner.list \in R!Lists /\ runner.i <= Len(runner.list)
  /\ runner.at = "schedule" => runner.i = 1
  /\ runner.at \in {"final", "exit"} => runner.i = Len(runner.list)
  /\ runner.opened => runner.at \in Writes /\ file = R!EmptyFile
  /\ runner.shell => runner.alive /\ runner.at = "wait"

(* The number of the record that the dictionary of the runner stands for.  *)
DictRecord ==
  LET i == runner.i IN
  CASE runner.at = "schedule" -> 0
    [] runner.at = "progress" /\ ~runner.opened -> 2 * i - 2
    [] runner.at = "progress" /\ runner.opened -> 2 * i - 1
    [] runner.at \in {"delete", "create", "launch", "wait"} -> 2 * i - 1
    [] OTHER -> 2 * i

(* The runner edits its dictionary entry by entry, and it always is what   *)
(* RunReport says of the list.                                             *)
DictIsSound ==
  \A c \in R!Asked(runner.list) :
     runner.dict[c] = R!EntryOf(runner.run, runner.list, DictRecord, c)

(* Nobody but the runner's own command has the stream open that it makes   *)
(* for it, and a stream changes no more once it has been reported.         *)
StreamsAreSound ==
  /\ \A c \in Cmds : \A d, e \in stream[c].text \cup stream[c].writers : d = e
  /\ runner.at \in {"create", "launch"} => stream[Command].writers = {}
  /\ runner.alive /\ runner.at = "wait" /\ ~runner.shell => Exec \in stream[Command].text
  /\ \A c \in R!Asked(runner.list) :
       runner.dict[c].status = "finished" =>
         runner.dict[c].by = stream[c].text /\ runner.dict[c].by # {}

FileIsSound ==
  file.st = "record" /\ file.run = runner.run /\ file.finished =>
    runner.at = "exit" /\ file.entries = runner.dict

GetIsSound ==
  /\ DOMAIN get = {"at", "record", "todo", "alone"} /\ get.alone \in BOOLEAN
  /\ get.at = "streams" => DOMAIN get.record = {"st", "run", "finished", "entries"}
  /\ get.at = "streams" /\ get.alone /\ get.record.finished =>
       /\ runner.at = "exit" /\ get.record.entries = runner.dict
       /\ get.todo \subseteq R!Asked(runner.list)

RunInv ==
  TypeOK /\ RunnerIsSound /\ DictIsSound /\ StreamsAreSound /\ FileIsSound /\ GetIsSound

---------------------------------------------------------------------------
(* What RunReport says of a list, from one record to the next.             *)

LEMMA ListFacts ==
  ASSUME NEW l \in R!Lists
  PROVE  /\ Len(l) \in 1..MaxCmds /\ DOMAIN l = 1..Len(l)
         /\ \A i \in DOMAIN l : i \in Nat \ {0} /\ i <= MaxCmds /\ l[i] \in Cmds
         /\ \A i \in DOMAIN l : l[i] \in R!Asked(l)
         /\ R!Asked(l) \subseteq Cmds
<1>1. PICK n \in 1..MaxCmds : l \in [1..n -> Cmds]
  BY DEF R!Lists
<1>2. n \in Nat \ {0} /\ n <= MaxCmds /\ MaxCmds \in Nat
  BY RunBounds
<1>3. Len(l) = n /\ DOMAIN l = 1..n
  BY <1>1, <1>2
<1> QED BY <1>1, <1>2, <1>3 DEF R!Asked

(* At first all commands are scheduled.                                    *)
LEMMA FirstRecord ==
  ASSUME NEW r, NEW l \in R!Lists, NEW c \in R!Asked(l)
  PROVE  R!EntryOf(r, l, 0, c) = R!Scheduled
<1>1. \A i \in R!Places(l, c) : i \in Nat \ {0}
  BY ListFacts DEF R!Places
<1>2. R!Over(l, 0, c) = {}
  BY <1>1 DEF R!Over
<1>3. ~ \E i \in R!Places(l, c) : 0 = 2 * i - 1
  BY <1>1
<1> QED BY <1>2, <1>3 DEF R!EntryOf

(* Record 2i - 1 differs from the one before in the entry of command i.    *)
LEMMA ProgressRecord ==
  ASSUME NEW r, NEW l \in R!Lists, NEW i \in DOMAIN l, NEW c \in R!Asked(l)
  PROVE  R!EntryOf(r, l, 2 * i - 1, c) =
           IF c = l[i] THEN R!InProgress ELSE R!EntryOf(r, l, 2 * i - 2, c)
<1>1. \A j \in R!Places(l, c) : j \in Nat \ {0} /\ l[j] = c
  BY ListFacts DEF R!Places
<1>2. i \in Nat \ {0}
  BY ListFacts
<1>3. CASE c = l[i]
  <2>1. i \in R!Places(l, c)
    BY <1>3 DEF R!Places
  <2>2. \E j \in R!Places(l, c) : 2 * i - 1 = 2 * j - 1
    BY <2>1
  <2> QED BY <1>3, <2>2 DEF R!EntryOf
<1>4. CASE c # l[i]
  <2>1. R!Over(l, 2 * i - 1, c) = R!Over(l, 2 * i - 2, c)
    BY <1>1, <1>2 DEF R!Over
  <2>2. \A j \in R!Places(l, c) : 2 * i - 1 # 2 * j - 1 /\ 2 * i - 2 # 2 * j - 1
    BY <1>1, <1>2, <1>4
  <2> QED BY <1>4, <2>1, <2>2 DEF R!EntryOf
<1> QED BY <1>3, <1>4

(* Record 2i shows the i-th execution at the entry of command i.           *)
LEMMA FinishedRecord ==
  ASSUME NEW r, NEW l \in R!Lists, NEW i \in DOMAIN l, NEW c \in R!Asked(l)
  PROVE  R!EntryOf(r, l, 2 * i, c) =
           IF c = l[i] THEN R!Finished({<<r, i>>}) ELSE R!EntryOf(r, l, 2 * i - 1, c)
<1>1. \A j \in R!Places(l, c) : j \in Nat \ {0} /\ l[j] = c
  BY ListFacts DEF R!Places
<1>2. i \in Nat \ {0}
  BY ListFacts
<1>3. \A j \in R!Places(l, c) : 2 * i # 2 * j - 1
  BY <1>1, <1>2
<1>4. CASE c = l[i]
  <2>1. i \in R!Over(l, 2 * i, c) /\ \A h \in R!Over(l, 2 * i, c) : h \in Nat /\ h <= i
    BY <1>1, <1>2, <1>4 DEF R!Over, R!Places
  <2>2. {j \in R!Over(l, 2 * i, c) : \A h \in R!Over(l, 2 * i, c) : h <= j} = {i}
    BY <1>2, <2>1
  <2>3. {<<r, k>> : k \in {j \in R!Over(l, 2 * i, c) : \A h \in R!Over(l, 2 * i, c) : h <= j}}
          = {<<r, i>>}
    BY <2>2
  <2> QED BY <1>3, <1>4, <2>1, <2>3 DEF R!EntryOf
<1>5. CASE c # l[i]
  <2>1. R!Over(l, 2 * i, c) = R!Over(l, 2 * i - 1, c)
    BY <1>1, <1>2, <1>5 DEF R!Over
  <2>2. \A j \in R!Places(l, c) : 2 * i - 1 # 2 * j - 1
    BY <1>1, <1>2, <1>5
  <2> QED BY <1>3, <1>5, <2>1, <2>2 DEF R!EntryOf
<1> QED BY <1>4, <1>5

(* The last record says what the one before says of the commands: of each  *)
(* one its last execution.                                                 *)
LEMMA LastRecordsAgree ==
  ASSUME NEW r, NEW l \in R!Lists, NEW c \in R!Asked(l)
  PROVE  /\ R!EntryOf(r, l, R!LastRecord(l), c) = R!EntryOf(r, l, 2 * Len(l), c)
         /\ R!EntryOf(r, l, 2 * Len(l), c) =
              R!Finished({<<r, i>> : i \in
                {j \in R!Places(l, c) : \A h \in R!Places(l, c) : h <= j}})
<1>1. \A j \in R!Places(l, c) : j \in Nat \ {0} /\ j <= Len(l)
  BY ListFacts DEF R!Places
<1>2. Len(l) \in Nat /\ R!Places(l, c) # {}
  BY ListFacts DEF R!Places, R!Asked
<1>3. R!Over(l, 2 * Len(l), c) = R!Places(l, c) /\ R!Over(l, 2 * Len(l) + 1, c) = R!Places(l, c)
  BY <1>1, <1>2 DEF R!Over
<1>4. \A j \in R!Places(l, c) : 2 * Len(l) # 2 * j - 1 /\ 2 * Len(l) + 1 # 2 * j - 1
  BY <1>1, <1>2
<1> QED BY <1>2, <1>3, <1>4 DEF R!EntryOf, R!LastRecord

LEMMA AllAreFinished ==
  ASSUME NEW r, NEW l \in R!Lists, NEW c \in R!Asked(l)
  PROVE  R!EntryOf(r, l, 2 * Len(l), c).status = "finished"
<1>1. \A execs : R!Finished(execs).status = "finished"
  BY DEF R!Finished
<1> QED BY <1>1, LastRecordsAgree

---------------------------------------------------------------------------
(* The runners that the steps make, field by field.                        *)

(* r is q with these values for what a run changes.                        *)
RunnerWith(r, q, at, i, opened, dict, shell, alive) ==
  /\ r \in Runners(q.list)
  /\ r.run = q.run /\ r.list = q.list /\ r.at = at /\ r.i = i /\ r.opened = opened
  /\ r.dict = dict /\ r.shell = shell /\ r.alive = alive

LEMMA RunnerStopped ==
  ASSUME NEW l, NEW q \in Runners(l)
  PROVE  /\ RunnerWith([q EXCEPT !.alive = FALSE], q,
                       q.at, q.i, q.opened, q.dict, q.shell, FALSE)
         /\ RunnerWith([q EXCEPT !.alive = FALSE, !.shell = FALSE], q,
                       q.at, q.i, q.opened, q.dict, FALSE, FALSE)
         /\ RunnerWith([q EXCEPT !.shell = FALSE], q,
                       q.at, q.i, q.opened, q.dict, FALSE, q.alive)
BY DEF RunnerWith, Runners

LEMMA RunnerMoved ==
  ASSUME NEW l, NEW q \in Runners(l), NEW at \in Steps
  PROVE  /\ RunnerWith([q EXCEPT !.at = at], q,
                       at, q.i, q.opened, q.dict, q.shell, q.alive)
         /\ RunnerWith([q EXCEPT !.at = at, !.shell = TRUE], q,
                       at, q.i, q.opened, q.dict, TRUE, q.alive)
BY DEF RunnerWith, Runners

LEMMA DictReplaced ==
  ASSUME NEW l, NEW q \in Runners(l), NEW dict \in [R!Asked(l) -> R!Entry]
  PROVE  /\ RunnerWith([q EXCEPT !.at = "complete", !.dict = dict], q,
                       "complete", q.i, q.opened, dict, q.shell, q.alive)
         /\ RunnerWith([q EXCEPT !.opened = TRUE, !.dict = dict], q,
                       q.at, q.i, TRUE, dict, q.shell, q.alive)
BY DEF RunnerWith, Runners, Steps, Writes

LEMMA WriteDone ==
  ASSUME NEW l, NEW q \in Runners(l), NEW at \in Steps, NEW i \in 1..MaxCmds
  PROVE  RunnerWith([q EXCEPT !.opened = FALSE, !.at = at, !.i = i], q,
                    at, i, FALSE, q.dict, q.shell, q.alive)
BY DEF RunnerWith, Runners

FileIsTyped ==
  \/ file \in {R!NoFile, R!EmptyFile}
  \/ /\ file = R!RecordOf(file.run, file.finished, file.entries)
     /\ file.run \in 1..runner.run /\ file.finished \in BOOLEAN
     /\ DOMAIN file.entries \subseteq Cmds
     /\ file.entries \in [DOMAIN file.entries -> R!Entry]

LEMMA TypeFacts ==
  ASSUME TypeOK
  PROVE  /\ runner \in Runners(runner.list) /\ runner.list \in R!Lists \cup {<<>>}
         /\ FileIsTyped /\ stream \in [Cmds -> Stream] /\ get.at \in {"idle", "streams"}
BY DEF TypeOK, FileIsTyped, Runner, Runners

LEMMA TypesKept ==
  ASSUME NEW l \in R!Lists \cup {<<>>}, runner' \in Runners(l), FileIsTyped',
         stream' \in [Cmds -> Stream], get'.at \in {"idle", "streams"}
  PROVE  TypeOK'
<1>1. runner'.list = l
  BY DEF Runners
<1>2. runner' \in Runner'
  BY <1>1 DEF Runner, Runners
<1> QED BY <1>2 DEF TypeOK, FileIsTyped

(* A runner that is or was at work has a list and a command of it.         *)
LEMMA AtWork ==
  ASSUME TypeOK, RunnerIsSound, runner.alive \/ runner.at # "schedule"
  PROVE  /\ runner.list \in R!Lists /\ runner.i \in DOMAIN runner.list
         /\ Command \in R!Asked(runner.list) /\ Command \in Cmds
         /\ runner.i \in 1..MaxCmds /\ runner.run \in 1..MaxRuns
         /\ Exec \in R!Execs
<1>1. runner.run \in 0..MaxRuns /\ runner.i \in 1..MaxCmds
  BY TypeFacts DEF Runners
<1>2. runner.run # 0 /\ runner.run \in 1..MaxRuns
  BY <1>1, RunBounds DEF RunnerIsSound
<1>3. runner.list \in R!Lists /\ runner.i <= Len(runner.list)
  BY <1>2, RunBounds DEF RunnerIsSound
<1>4. runner.i \in DOMAIN runner.list
  BY <1>1, <1>3, ListFacts, RunBounds
<1> QED BY <1>1, <1>2, <1>3, <1>4, ListFacts DEF Command, Exec, R!Execs

---------------------------------------------------------------------------
(* Steps that leave the report alone.                                      *)

LEMMA TextReplaced ==
  ASSUME stream \in [Cmds -> Stream], NEW c \in Cmds, NEW text \in SUBSET R!Execs
  PROVE  LET s == [stream EXCEPT ![c].text = text]
         IN  /\ s \in [Cmds -> Stream] /\ s[c].text = text /\ s[c].writers = stream[c].writers
             /\ \A d \in Cmds \ {c} : s[d] = stream[d]
BY DEF Stream

LEMMA WritersReplaced ==
  ASSUME stream \in [Cmds -> Stream], NEW c \in Cmds, NEW writers \in SUBSET R!Execs
  PROVE  LET s == [stream EXCEPT ![c].writers = writers]
         IN  /\ s \in [Cmds -> Stream] /\ s[c].text = stream[c].text /\ s[c].writers = writers
             /\ \A d \in Cmds \ {c} : s[d] = stream[d]
BY DEF Stream

(* The list, the dictionary and the step of the runner stay as they are.   *)
RestOfRunner == <<runner.run, runner.list, runner.at, runner.i, runner.opened, runner.dict>>

LEMMA QuietStepPreserves ==
  ASSUME RunInv, NEW alive \in BOOLEAN, NEW shell \in BOOLEAN,
         RunnerWith(runner', runner, runner.at, runner.i, runner.opened, runner.dict, shell, alive),
         shell => alive /\ runner.at = "wait", alive => runner.alive,
         UNCHANGED <<file, get>>, stream' \in [Cmds -> Stream],
         \A c \in Cmds : /\ stream'[c].text = stream[c].text
                         /\ stream'[c].writers \subseteq stream[c].writers,
         alive /\ runner.at = "wait" /\ ~shell => Exec \in stream[Command].text
  PROVE  RunInv' /\ UNCHANGED R!vars
<1>1. UNCHANGED RestOfRunner /\ runner'.shell = shell /\ runner'.alive = alive
  BY DEF RunnerWith, RestOfRunner
<1>2. /\ runner'.run = runner.run /\ runner'.list = runner.list /\ runner'.at = runner.at
      /\ runner'.i = runner.i /\ runner'.opened = runner.opened /\ runner'.dict = runner.dict
  BY DEF RunnerWith
<1>3. /\ runner' \in Runners(runner.list) /\ runner.list \in R!Lists \cup {<<>>}
      /\ FileIsTyped /\ get.at \in {"idle", "streams"}
  BY TypeFacts DEF RunnerWith, RunInv
<1>4. TypeOK'
  <2>1. FileIsTyped'
    BY <1>2, <1>3 DEF FileIsTyped
  <2> QED BY <1>3, <2>1, TypesKept
<1>5. RunnerIsSound'
  BY <1>1, <1>2 DEF RunInv, RunnerIsSound
<1>6. DictIsSound'
  BY <1>2 DEF RunInv, DictIsSound, DictRecord
<1>7. StreamsAreSound'
  <2>1. Command' = Command /\ Exec' = Exec
    BY <1>2 DEF Command, Exec
  <2>2. R!Asked(runner.list) \subseteq Cmds
    BY <1>3, ListFacts DEF R!Asked
  <2>3. \A c \in Cmds : \A d, e \in stream'[c].text \cup stream'[c].writers : d = e
    BY DEF RunInv, StreamsAreSound
  <2>4. runner.at \in {"create", "launch"} => stream'[Command].writers = {}
    BY AtWork DEF RunInv, StreamsAreSound
  <2>5. runner'.alive /\ runner.at = "wait" /\ ~runner'.shell => Exec \in stream'[Command].text
    BY <1>1, AtWork DEF RunInv
  <2>6. \A c \in R!Asked(runner.list) :
          runner.dict[c].status = "finished" =>
            runner.dict[c].by = stream'[c].text /\ runner.dict[c].by # {}
    BY <2>2 DEF RunInv, StreamsAreSound
  <2> QED BY <1>2, <2>1, <2>3, <2>4, <2>5, <2>6 DEF StreamsAreSound
<1>8. FileIsSound' /\ GetIsSound'
  BY <1>2 DEF RunInv, FileIsSound, GetIsSound
<1>9. UNCHANGED R!vars
  BY <1>2 DEF R!vars, NextRecord
<1> QED BY <1>4, <1>5, <1>6, <1>7, <1>8, <1>9 DEF RunInv

LEMMA QuietStepsPreserve ==
  ASSUME RunInv, Kill \/ Fail \/ Exit \/ ShellEnds
  PROVE  RunInv' /\ UNCHANGED R!vars
<1>1. /\ runner \in Runners(runner.list) /\ stream \in [Cmds -> Stream]
      /\ RunnerIsSound /\ StreamsAreSound /\ runner.alive
  BY TypeFacts DEF RunInv, Kill, Fail, Exit, ShellEnds, At
<1>2. Command \in Cmds
  BY <1>1, AtWork DEF RunInv
<1>3. stream[Command].writers \ {Exec} \in SUBSET R!Execs
  BY <1>1, <1>2 DEF Stream
<1>4. /\ stream' \in [Cmds -> Stream]
      /\ \A c \in Cmds : /\ stream'[c].text = stream[c].text
                         /\ stream'[c].writers \subseteq stream[c].writers
      /\ UNCHANGED <<file, get>>
  <2>1. UNCHANGED stream \/ stream' = [stream EXCEPT ![Command].writers = @ \ {Exec}]
    BY DEF Kill, Fail, Exit, ShellEnds
  <2>2. UNCHANGED <<file, get>>
    BY DEF Kill, Fail, Exit, ShellEnds
  <2>3. CASE UNCHANGED stream
    BY <1>1, <2>2, <2>3
  <2>4. CASE stream' = [stream EXCEPT ![Command].writers = @ \ {Exec}]
    <3> DEFINE writers == stream[Command].writers \ {Exec}
    <3>1. stream' = [stream EXCEPT ![Command].writers = writers]
      BY <2>4
    <3>2. /\ stream' \in [Cmds -> Stream] /\ stream'[Command].text = stream[Command].text
          /\ stream'[Command].writers = writers
          /\ \A d \in Cmds \ {Command} : stream'[d] = stream[d]
      <4> HIDE DEF writers
      <4> QED BY <1>1, <1>2, <1>3, <3>1, WritersReplaced DEF writers
    <3> QED BY <2>2, <3>2
  <2> QED BY <2>1, <2>3, <2>4
<1>5. CASE Kill \/ Fail \/ Exit
  <2>1. \/ runner' = [runner EXCEPT !.alive = FALSE, !.shell = FALSE]
        \/ runner' = [runner EXCEPT !.alive = FALSE] /\ ~runner.shell
    BY <1>1, <1>5 DEF Kill, Fail, Exit, At, RunnerIsSound
  <2>2. RunnerWith(runner', runner,
                   runner.at, runner.i, runner.opened, runner.dict, FALSE, FALSE)
    <3>1. CASE runner' = [runner EXCEPT !.alive = FALSE, !.shell = FALSE]
      BY <1>1, <3>1, RunnerStopped
    <3>2. CASE runner' = [runner EXCEPT !.alive = FALSE] /\ ~runner.shell
      <4>1. runner.shell = FALSE
        BY <1>1, <3>2 DEF Runners
      <4>2. RunnerWith(runner', runner,
                       runner.at, runner.i, runner.opened, runner.dict, runner.shell, FALSE)
        BY <1>1, <3>2, RunnerStopped
      <4> QED BY <4>1, <4>2
    <3> QED BY <2>1, <3>1, <3>2
  <2> QED BY <1>4, <2>2, QuietStepPreserves
<1>6. CASE ShellEnds
  <2>1. RunnerWith(runner', runner,
                   runner.at, runner.i, runner.opened, runner.dict, FALSE, TRUE)
    <3>1. runner.alive = TRUE
      BY <1>1 DEF Runners
    <3>2. RunnerWith(runner', runner,
                     runner.at, runner.i, runner.opened, runner.dict, FALSE, runner.alive)
      BY <1>1, <1>6, RunnerStopped DEF ShellEnds
    <3> QED BY <3>1, <3>2
  <2>2. Exec \in stream[Command].text
    BY <1>6 DEF ShellEnds
  <2> QED BY <1>1, <1>4, <2>1, <2>2, QuietStepPreserves
<1> QED BY <1>5, <1>6

(* Output of those who have a stream open: it is in the stream already,    *)
(* unless the stream is still empty.                                       *)
LEMMA OutputPreserves ==
  ASSUME RunInv, Output
  PROVE  RunInv' /\ UNCHANGED R!vars
<1>1. PICK c \in Cmds : \E e \in stream[c].writers \ stream[c].text :
        stream' = [stream EXCEPT ![c].text = @ \cup {e}]
  BY DEF Output
<1>2. PICK e \in stream[c].writers \ stream[c].text :
         stream' = [stream EXCEPT ![c].text = @ \cup {e}]
  BY <1>1
<1>3. UNCHANGED <<runner, file, get>>
  BY DEF Output
<1>4. /\ runner \in Runners(runner.list) /\ runner.list \in R!Lists \cup {<<>>}
      /\ FileIsTyped /\ stream \in [Cmds -> Stream] /\ get.at \in {"idle", "streams"}
      /\ RunnerIsSound /\ StreamsAreSound
  BY TypeFacts DEF RunInv
<1>5. stream[c].text \cup {e} \in SUBSET R!Execs
  BY <1>2, <1>4 DEF Stream
<1>6. /\ stream' \in [Cmds -> Stream]
      /\ stream'[c].text = stream[c].text \cup {e} /\ stream'[c].writers = stream[c].writers
      /\ \A d \in Cmds \ {c} : stream'[d] = stream[d]
  BY <1>2, <1>4, <1>5, TextReplaced
<1>7. stream[c].text = {}
  BY <1>2, <1>4 DEF StreamsAreSound
<1>8. TypeOK'
  <2>1. FileIsTyped' /\ runner' \in Runners(runner.list) /\ get'.at \in {"idle", "streams"}
    BY <1>3, <1>4 DEF FileIsTyped
  <2> QED BY <1>4, <1>6, <2>1, TypesKept
<1>9. StreamsAreSound'
  <2>1. R!Asked(runner.list) \subseteq Cmds
    BY <1>4, ListFacts DEF R!Asked
  <2>2. \A d \in Cmds : \A f, g \in stream'[d].text \cup stream'[d].writers : f = g
    BY <1>2, <1>4, <1>6, <1>7 DEF StreamsAreSound
  <2>3. runner.at \in {"create", "launch", "wait"} => Command \in Cmds
    BY AtWork DEF RunInv
  <2>4. runner.at \in {"create", "launch"} => stream'[Command].writers = {}
    BY <1>4, <1>6, <2>3 DEF StreamsAreSound
  <2>5. runner.alive /\ runner.at = "wait" /\ ~runner.shell => Exec \in stream'[Command].text
    BY <1>4, <1>6, <2>3 DEF StreamsAreSound
  <2>6. \A d \in R!Asked(runner.list) :
          runner.dict[d].status = "finished" =>
            runner.dict[d].by = stream'[d].text /\ runner.dict[d].by # {}
    BY <1>4, <1>6, <1>7, <2>1 DEF StreamsAreSound
  <2> QED BY <1>3, <2>2, <2>4, <2>5, <2>6 DEF StreamsAreSound, Command, Exec
<1>10. RunnerIsSound' /\ DictIsSound' /\ FileIsSound' /\ GetIsSound'
  BY <1>3 DEF RunInv, RunnerIsSound, DictIsSound, DictRecord, FileIsSound, GetIsSound
<1>11. UNCHANGED R!vars
  BY <1>3 DEF R!vars, NextRecord
<1> QED BY <1>8, <1>9, <1>10, <1>11 DEF RunInv

---------------------------------------------------------------------------
(* The steps of the runner that work on the stream of its command: while   *)
(* it goes from "delete" to "wait", the report stays the same.             *)

LEMMA StreamStepPreserves ==
  ASSUME RunInv, runner.alive, NEW at \in {"create", "launch", "wait"}, NEW shell \in BOOLEAN,
         runner.at \in {"delete", "create", "launch"},
         RunnerWith(runner', runner, at, runner.i, runner.opened, runner.dict, shell, runner.alive),
         shell <=> at = "wait",
         UNCHANGED <<file, get>>, stream' \in [Cmds -> Stream],
         \A c \in Cmds \ {Command} : stream'[c] = stream[c],
         \A d, e \in stream'[Command].text \cup stream'[Command].writers : d = e,
         at # "wait" => stream'[Command].writers = {}
  PROVE  RunInv' /\ UNCHANGED R!vars
<1>1. /\ runner'.run = runner.run /\ runner'.list = runner.list /\ runner'.at = at
      /\ runner'.i = runner.i /\ runner'.opened = runner.opened /\ runner'.dict = runner.dict
      /\ runner'.shell = shell /\ runner'.alive
  BY DEF RunnerWith
<1>2. /\ runner' \in Runners(runner.list) /\ runner.list \in R!Lists \cup {<<>>}
      /\ FileIsTyped /\ get.at \in {"idle", "streams"}
      /\ RunnerIsSound /\ StreamsAreSound /\ DictIsSound
  BY TypeFacts DEF RunnerWith, RunInv
<1>3. /\ runner.list \in R!Lists /\ runner.i \in DOMAIN runner.list
      /\ Command \in R!Asked(runner.list)
  BY <1>2, AtWork DEF RunInv
<1>4. ~runner.opened
  BY <1>2 DEF RunnerIsSound, Writes
<1>5. TypeOK'
  <2>1. FileIsTyped'
    BY <1>1, <1>2 DEF FileIsTyped
  <2> QED BY <1>2, <2>1, TypesKept
<1>6. RunnerIsSound'
  BY <1>1, <1>2, <1>4 DEF RunnerIsSound
<1>7. DictIsSound'
  BY <1>1, <1>2 DEF DictIsSound, DictRecord
<1>8. StreamsAreSound'
  <2>1. R!Asked(runner.list) \subseteq Cmds
    BY <1>3, ListFacts
  <2>2. \A c \in Cmds : \A d, e \in stream'[c].text \cup stream'[c].writers : d = e
    BY <1>2 DEF StreamsAreSound
  <2>3. runner.dict[Command].status # "finished"
    <3>1. runner.dict[Command] = R!EntryOf(runner.run, runner.list, 2 * runner.i - 1, Command)
      BY <1>2, <1>3 DEF DictIsSound, DictRecord
    <3>2. runner.dict[Command] = R!InProgress
      BY <1>3, <3>1, ProgressRecord DEF Command
    <3>3. R!InProgress.status # "finished"
      BY DEF R!InProgress
    <3> QED BY <3>2, <3>3
  <2>4. \A c \in R!Asked(runner.list) :
          runner.dict[c].status = "finished" =>
            runner.dict[c].by = stream'[c].text /\ runner.dict[c].by # {}
    BY <1>2, <2>1, <2>3 DEF StreamsAreSound
  <2> QED BY <1>1, <2>2, <2>4 DEF StreamsAreSound, Command
<1>9. FileIsSound' /\ GetIsSound'
  BY <1>1 DEF RunInv, FileIsSound, GetIsSound
<1>10. UNCHANGED R!vars
  BY <1>1 DEF R!vars, NextRecord
<1> QED BY <1>5, <1>6, <1>7, <1>8, <1>9, <1>10 DEF RunInv

LEMMA StreamStepsPreserve ==
  ASSUME RunInv, Delete \/ Create \/ Launch
  PROVE  RunInv' /\ UNCHANGED R!vars
<1>1. /\ runner \in Runners(runner.list) /\ stream \in [Cmds -> Stream]
      /\ RunnerIsSound /\ StreamsAreSound /\ runner.alive = TRUE
      /\ runner.at \in {"delete", "create", "launch"} /\ runner.shell = FALSE
      /\ UNCHANGED <<file, get>>
  BY TypeFacts DEF RunInv, Delete, Create, Launch, At, Runners, RunnerIsSound
<1>2. Command \in Cmds /\ Exec \in R!Execs
  BY <1>1, AtWork DEF RunInv
<1>3. NoStream \in Stream /\ NewStream \in Stream
      /\ NoStream.text = {} /\ NoStream.writers = {}
      /\ NewStream.text = {} /\ NewStream.writers = {}
  BY DEF NoStream, NewStream, Stream
<1>4. {"create", "launch", "wait"} \subseteq Steps
  BY DEF Steps
<1>5. CASE Delete
  <2>1. RunnerWith(runner', runner,
                   "create", runner.i, runner.opened, runner.dict, FALSE, runner.alive)
    BY <1>1, <1>4, <1>5, RunnerMoved DEF Delete
  <2>2. /\ stream' \in [Cmds -> Stream] /\ stream'[Command] = NoStream
        /\ \A c \in Cmds \ {Command} : stream'[c] = stream[c]
    <3> HIDE DEF Command, NoStream
    <3> QED BY <1>1, <1>2, <1>3, <1>5 DEF Delete
  <2> QED BY <1>1, <1>3, <2>1, <2>2, StreamStepPreserves
<1>6. CASE Create
  <2>1. RunnerWith(runner', runner,
                   "launch", runner.i, runner.opened, runner.dict, FALSE, runner.alive)
    BY <1>1, <1>4, <1>6, RunnerMoved DEF Create
  <2>2. /\ stream' \in [Cmds -> Stream] /\ stream'[Command] \in {stream[Command], NewStream}
        /\ \A c \in Cmds \ {Command} : stream'[c] = stream[c]
    <3> HIDE DEF Command, NewStream
    <3> QED BY <1>1, <1>2, <1>3, <1>6 DEF Create
  <2>3. stream[Command].writers = {}
    BY <1>1, <1>6 DEF Create, At, StreamsAreSound
  <2>4. \A d, e \in stream[Command].text \cup stream[Command].writers : d = e
    BY <1>1, <1>2 DEF StreamsAreSound
  <2>5. /\ stream'[Command].writers = {}
        /\ \A d, e \in stream'[Command].text \cup stream'[Command].writers : d = e
    BY <1>3, <2>2, <2>3, <2>4
  <2> QED BY <1>1, <2>1, <2>2, <2>5, StreamStepPreserves
<1>7. CASE Launch
  <2>1. RunnerWith(runner', runner,
                   "wait", runner.i, runner.opened, runner.dict, TRUE, runner.alive)
    BY <1>1, <1>4, <1>7, RunnerMoved DEF Launch
  <2>2. stream[Command].writers = {}
    BY <1>1, <1>7 DEF Launch, At, StreamsAreSound
  <2> DEFINE writers == stream[Command].writers \cup {Exec}
             emptied == [stream EXCEPT ![Command].text = {}]
  <2>3. /\ emptied \in [Cmds -> Stream] /\ emptied[Command].text = {}
        /\ \A c \in Cmds \ {Command} : emptied[c] = stream[c]
    BY <1>1, <1>2, TextReplaced
  <2>4. stream' = [stream EXCEPT ![Command] = [@ EXCEPT !.text = {}, !.writers = writers]]
    BY <1>7 DEF Launch
  <2>5. /\ writers = {Exec} /\ writers \in SUBSET R!Execs
    BY <1>2, <2>2
  <2>6. LET s == [stream[Command] EXCEPT !.text = {}, !.writers = writers]
        IN  s \in Stream /\ s.text = {} /\ s.writers = writers
    <3>1. stream[Command] \in Stream
      BY <1>1, <1>2
    <3> HIDE DEF writers
    <3> QED BY <2>5, <3>1 DEF Stream
  <2>7. /\ stream' \in [Cmds -> Stream]
        /\ stream'[Command].text = {} /\ stream'[Command].writers = {Exec}
        /\ \A c \in Cmds \ {Command} : stream'[c] = stream[c]
    <3> HIDE DEF writers, Command, Exec
    <3> QED BY <1>1, <1>2, <2>4, <2>5, <2>6
  <2> QED BY <1>1, <2>1, <2>7, StreamStepPreserves
<1> QED BY <1>5, <1>6, <1>7

---------------------------------------------------------------------------
(* The output of a command is read into the dictionary.                    *)

LEMMA ResumePreserves ==
  ASSUME RunInv, Resume
  PROVE  RunInv' /\ UNCHANGED R!vars
<1> DEFINE entry == R!Finished({Exec})
           dict == [runner.dict EXCEPT ![Command] = entry]
<1>1. /\ runner \in Runners(runner.list) /\ runner.list \in R!Lists \cup {<<>>}
      /\ FileIsTyped /\ stream \in [Cmds -> Stream] /\ get.at \in {"idle", "streams"}
      /\ RunnerIsSound /\ StreamsAreSound /\ DictIsSound
      /\ runner.alive = TRUE /\ runner.at = "wait" /\ runner.shell = FALSE
      /\ runner.opened = FALSE
      /\ UNCHANGED <<file, stream, get>>
  BY TypeFacts DEF RunInv, Resume, At, Runners, RunnerIsSound, Writes
<1>2. /\ runner.list \in R!Lists /\ runner.i \in DOMAIN runner.list
      /\ Command \in R!Asked(runner.list) /\ Command \in Cmds /\ Exec \in R!Execs
      /\ R!Asked(runner.list) \subseteq Cmds
  BY <1>1, AtWork, ListFacts DEF RunInv
<1>3. stream[Command].text = {Exec}
  BY <1>1, <1>2 DEF StreamsAreSound
<1>4. entry \in R!Entry /\ entry.status = "finished" /\ entry.by = {Exec}
  BY <1>2 DEF R!Finished, R!Entry
<1>5. /\ dict \in [R!Asked(runner.list) -> R!Entry] /\ dict[Command] = entry
      /\ \A c \in R!Asked(runner.list) \ {Command} : dict[c] = runner.dict[c]
  <2> HIDE DEF entry
  <2> QED BY <1>1, <1>2, <1>4 DEF Runners
<1>6. runner' = [runner EXCEPT !.at = "complete", !.dict = dict]
  BY <1>3 DEF Resume
<1> HIDE DEF dict, entry
<1>7. RunnerWith(runner', runner, "complete", runner.i, runner.opened, dict, runner.shell,
                 runner.alive)
  BY <1>1, <1>5, <1>6, DictReplaced
<1>8. /\ runner'.run = runner.run /\ runner'.list = runner.list /\ runner'.at = "complete"
      /\ runner'.i = runner.i /\ runner'.opened = FALSE /\ runner'.dict = dict
      /\ runner'.shell = FALSE /\ runner'.alive = TRUE
      /\ runner' \in Runners(runner.list)
  BY <1>1, <1>7 DEF RunnerWith
<1>9. TypeOK'
  <2>1. FileIsTyped'
    BY <1>1, <1>8 DEF FileIsTyped
  <2> QED BY <1>1, <1>8, <2>1, TypesKept
<1>10. RunnerIsSound'
  BY <1>1, <1>8 DEF RunnerIsSound
<1>11. DictIsSound'
  <2>1. \A c \in R!Asked(runner.list) :
          runner.dict[c] = R!EntryOf(runner.run, runner.list, 2 * runner.i - 1, c)
    BY <1>1 DEF DictIsSound, DictRecord
  <2>2. \A c \in R!Asked(runner.list) :
          dict[c] = R!EntryOf(runner.run, runner.list, 2 * runner.i, c)
    <3> SUFFICES ASSUME NEW c \in R!Asked(runner.list)
                 PROVE  dict[c] = R!EntryOf(runner.run, runner.list, 2 * runner.i, c)
      OBVIOUS
    <3>1. R!EntryOf(runner.run, runner.list, 2 * runner.i, c) =
            IF c = Command THEN entry
            ELSE R!EntryOf(runner.run, runner.list, 2 * runner.i - 1, c)
      BY <1>2, FinishedRecord DEF Command, Exec, entry
    <3> QED BY <1>5, <2>1, <3>1
  <2> QED BY <1>8, <2>2 DEF DictIsSound, DictRecord
<1>12. StreamsAreSound'
  <2>1. \A c \in R!Asked(runner.list) :
          dict[c].status = "finished" => dict[c].by = stream[c].text /\ dict[c].by # {}
    BY <1>1, <1>3, <1>4, <1>5 DEF StreamsAreSound
  <2>2. \A c \in Cmds : \A d, e \in stream[c].text \cup stream[c].writers : d = e
    BY <1>1 DEF StreamsAreSound
  <2> QED BY <1>1, <1>8, <2>1, <2>2 DEF StreamsAreSound
<1>13. FileIsSound' /\ GetIsSound'
  BY <1>1, <1>8 DEF RunInv, FileIsSound, GetIsSound
<1>14. UNCHANGED R!vars
  BY <1>1, <1>8 DEF R!vars, NextRecord
<1> QED BY <1>9, <1>10, <1>11, <1>12, <1>13, <1>14 DEF RunInv

---------------------------------------------------------------------------
(* Writing the file: it is emptied, and then holds what the dictionary is. *)

LEMMA OpenPreserves ==
  ASSUME RunInv, Open
  PROVE  RunInv' /\ R!Truncate
<1> DEFINE dict == IF runner.at # "progress" THEN runner.dict
                   ELSE [runner.dict EXCEPT ![Command] = R!InProgress]
<1>1. /\ runner \in Runners(runner.list) /\ runner.list \in R!Lists \cup {<<>>}
      /\ FileIsTyped /\ stream \in [Cmds -> Stream] /\ get.at \in {"idle", "streams"}
      /\ RunnerIsSound /\ StreamsAreSound /\ DictIsSound
      /\ runner.alive = TRUE /\ runner.at \in Writes /\ runner.opened = FALSE
      /\ runner.shell = FALSE
      /\ file' = R!EmptyFile /\ UNCHANGED <<stream, get>>
  BY TypeFacts DEF RunInv, Open, Runners, RunnerIsSound, Writes
<1>2. /\ runner.list \in R!Lists /\ runner.i \in DOMAIN runner.list
      /\ Command \in R!Asked(runner.list) /\ Command \in Cmds
      /\ runner.run \in 1..MaxRuns /\ R!Asked(runner.list) \subseteq Cmds
      /\ runner.i \in Nat \ {0} /\ Len(runner.list) \in Nat /\ runner.i <= Len(runner.list)
  BY <1>1, AtWork, ListFacts DEF RunInv
<1>3. R!InProgress \in R!Entry /\ R!InProgress.status # "finished"
  BY DEF R!InProgress, R!Entry
<1>4. /\ dict \in [R!Asked(runner.list) -> R!Entry]
      /\ runner.at # "progress" => dict = runner.dict
      /\ runner.at = "progress" =>
           /\ dict[Command] = R!InProgress
           /\ \A c \in R!Asked(runner.list) \ {Command} : dict[c] = runner.dict[c]
  <2> HIDE DEF Command
  <2> QED BY <1>1, <1>2, <1>3 DEF Runners
<1>5. runner' = [runner EXCEPT !.opened = TRUE, !.dict = dict]
  BY DEF Open
<1> HIDE DEF dict
<1>6. RunnerWith(runner', runner, runner.at, runner.i, TRUE, dict, runner.shell, runner.alive)
  BY <1>1, <1>4, <1>5, DictReplaced
<1>7. /\ runner'.run = runner.run /\ runner'.list = runner.list /\ runner'.at = runner.at
      /\ runner'.i = runner.i /\ runner'.opened = TRUE /\ runner'.dict = dict
      /\ runner'.shell = FALSE /\ runner'.alive = TRUE
      /\ runner' \in Runners(runner.list)
  BY <1>1, <1>6 DEF RunnerWith
<1>8. TypeOK'
  <2>1. FileIsTyped'
    BY <1>1 DEF FileIsTyped
  <2> QED BY <1>1, <1>7, <2>1, TypesKept
<1>9. RunnerIsSound'
  BY <1>1, <1>7 DEF RunnerIsSound
<1>10. DictIsSound'
  <2>1. CASE runner.at = "progress"
    <3>1. \A c \in R!Asked(runner.list) :
            runner.dict[c] = R!EntryOf(runner.run, runner.list, 2 * runner.i - 2, c)
      BY <1>1, <2>1 DEF DictIsSound, DictRecord
    <3>2. ASSUME NEW c \in R!Asked(runner.list)
          PROVE  dict[c] = R!EntryOf(runner.run, runner.list, 2 * runner.i - 1, c)
      <4>1. R!EntryOf(runner.run, runner.list, 2 * runner.i - 1, c) =
              IF c = Command THEN R!InProgress
              ELSE R!EntryOf(runner.run, runner.list, 2 * runner.i - 2, c)
        BY <1>2, ProgressRecord DEF Command
      <4> QED BY <1>4, <2>1, <3>1, <4>1
    <3> QED BY <1>7, <2>1, <3>2 DEF DictIsSound, DictRecord
  <2>2. CASE runner.at # "progress"
    <3>1. dict = runner.dict /\ DictRecord' = DictRecord
      BY <1>4, <1>7, <2>2 DEF DictRecord
    <3> QED BY <1>1, <1>7, <3>1 DEF DictIsSound
  <2> QED BY <2>1, <2>2
<1>11. StreamsAreSound'
  <2>1. ASSUME NEW c \in R!Asked(runner.list), dict[c].status = "finished"
        PROVE  dict[c].by = stream[c].text /\ dict[c].by # {}
    <3>1. dict[c] = runner.dict[c]
      BY <1>3, <1>4, <2>1
    <3> QED BY <1>1, <2>1, <3>1 DEF StreamsAreSound
  <2>2. \A c \in Cmds : \A d, e \in stream[c].text \cup stream[c].writers : d = e
    BY <1>1 DEF StreamsAreSound
  <2>3. runner.at \notin {"create", "launch", "wait"}
    BY <1>1 DEF Writes
  <2> QED BY <1>1, <1>7, <2>1, <2>2, <2>3 DEF StreamsAreSound
<1>12. FileIsSound'
  BY <1>1 DEF FileIsSound, R!EmptyFile
<1>13. GetIsSound'
  BY <1>1, <1>7 DEF RunInv, GetIsSound, Writes
<1>14. R!Truncate
  <2>1. runner.run > 0 /\ NextRecord <= R!LastRecord(runner.list)
    BY <1>1, <1>2 DEF NextRecord, R!LastRecord, Writes
  <2> QED BY <1>1, <1>7, <2>1 DEF R!Truncate, NextRecord
<1> QED BY <1>8, <1>9, <1>10, <1>11, <1>12, <1>13, <1>14 DEF RunInv

LEMMA WritePreserves ==
  ASSUME RunInv, Write
  PROVE  RunInv' /\ R!Publish
<1>1. /\ runner \in Runners(runner.list) /\ runner.list \in R!Lists \cup {<<>>}
      /\ FileIsTyped /\ stream \in [Cmds -> Stream] /\ get.at \in {"idle", "streams"}
      /\ RunnerIsSound /\ StreamsAreSound /\ DictIsSound
      /\ runner.alive = TRUE /\ runner.at \in Writes /\ runner.opened = TRUE
      /\ runner.shell = FALSE /\ file = R!EmptyFile
      /\ file' = R!RecordOf(runner.run, runner.at = "final", runner.dict)
      /\ UNCHANGED <<stream, get>>
  BY TypeFacts DEF RunInv, Write, Runners, RunnerIsSound, Writes
<1>2. /\ runner.list \in R!Lists /\ runner.i \in DOMAIN runner.list
      /\ runner.run \in 1..MaxRuns /\ R!Asked(runner.list) \subseteq Cmds
      /\ runner.i \in Nat \ {0} /\ Len(runner.list) \in 1..MaxCmds
      /\ runner.i <= Len(runner.list)
  BY <1>1, AtWork, ListFacts DEF RunInv
<1>3. PICK at \in {"progress", "delete", "final", "exit"}, i \in 1..MaxCmds :
        /\ runner' = [runner EXCEPT !.opened = FALSE, !.at = at, !.i = i]
        /\ i <= Len(runner.list)
        /\ \/ runner.at = "schedule" /\ at = "progress" /\ i = runner.i
           \/ runner.at = "progress" /\ at = "delete" /\ i = runner.i
           \/ runner.at = "complete" /\ at = "progress" /\ i = runner.i + 1
           \/ /\ runner.at = "complete" /\ at = "final" /\ i = runner.i
              /\ i = Len(runner.list)
           \/ runner.at = "final" /\ at = "exit" /\ i = runner.i
  <2> DEFINE i == IF AfterWrite(runner.at) = "progress" /\ runner.at = "complete"
                  THEN runner.i + 1 ELSE runner.i
             at == AfterWrite(runner.at)
  <2>1. runner' = [runner EXCEPT !.opened = FALSE, !.at = at, !.i = i]
    BY DEF Write
  <2>2. at \in {"progress", "delete", "final", "exit"} /\ i \in 1..MaxCmds
    BY <1>1, <1>2, RunBounds DEF AfterWrite, Writes
  <2>3. /\ i <= Len(runner.list)
        /\ \/ runner.at = "schedule" /\ at = "progress" /\ i = runner.i
           \/ runner.at = "progress" /\ at = "delete" /\ i = runner.i
           \/ runner.at = "complete" /\ at = "progress" /\ i = runner.i + 1
           \/ /\ runner.at = "complete" /\ at = "final" /\ i = runner.i
              /\ i = Len(runner.list)
           \/ runner.at = "final" /\ at = "exit" /\ i = runner.i
    BY <1>1, <1>2 DEF AfterWrite, Writes
  <2> HIDE DEF at, i
  <2> QED BY <2>1, <2>2, <2>3
<1>4. RunnerWith(runner', runner, at, i, FALSE, runner.dict, runner.shell, runner.alive)
  BY <1>1, <1>3, WriteDone DEF Steps, Writes
<1>5. /\ runner'.run = runner.run /\ runner'.list = runner.list /\ runner'.at = at
      /\ runner'.i = i /\ runner'.opened = FALSE /\ runner'.dict = runner.dict
      /\ runner'.shell = FALSE /\ runner'.alive = TRUE
      /\ runner' \in Runners(runner.list)
  BY <1>1, <1>4 DEF RunnerWith
<1>6. /\ runner.dict \in [R!Asked(runner.list) -> R!Entry]
      /\ (runner.at = "final") \in BOOLEAN
  BY <1>1 DEF Runners
<1>7. /\ file'.st = "record" /\ file'.run = runner.run /\ file'.entries = runner.dict
      /\ file'.finished = (runner.at = "final")
      /\ file' = R!RecordOf(file'.run, file'.finished, file'.entries)
  BY <1>1 DEF R!RecordOf
<1>8. TypeOK'
  <2>1. FileIsTyped'
    BY <1>2, <1>5, <1>6, <1>7 DEF FileIsTyped
  <2>2. at \in Steps
    BY DEF Steps, Writes
  <2> QED BY <1>1, <1>5, <2>1, TypesKept
<1>9. RunnerIsSound'
  BY <1>1, <1>2, <1>3, <1>5 DEF RunnerIsSound
<1>10. DictIsSound'
  <2>1. DictRecord' = DictRecord
    BY <1>1, <1>2, <1>3, <1>5 DEF DictRecord, RunnerIsSound
  <2> QED BY <1>1, <1>5, <2>1 DEF DictIsSound
<1>11. StreamsAreSound'
  BY <1>1, <1>5 DEF StreamsAreSound
<1>12. FileIsSound'
  BY <1>3, <1>5, <1>7 DEF FileIsSound
<1>13. GetIsSound'
  BY <1>1, <1>5 DEF RunInv, GetIsSound, Writes
<1>14. R!Publish
  <2>1. NextRecord <= R!LastRecord(runner.list)
    BY <1>1, <1>2 DEF NextRecord, R!LastRecord, Writes
  <2>2. NextRecord' = NextRecord + 1
    <3>1. CASE at = "progress"
      <4>1. CASE runner.at = "schedule"
        <5>1. runner.i = 1 /\ i = 1
          BY <1>1, <1>3, <3>1, <4>1 DEF RunnerIsSound
        <5>2. NextRecord = 0 /\ NextRecord' = 2 * i - 1
          BY <1>5, <3>1, <4>1 DEF NextRecord
        <5> QED BY <5>1, <5>2
      <4>2. CASE runner.at = "complete"
        <5>1. NextRecord = 2 * runner.i /\ NextRecord' = 2 * i - 1 /\ i = runner.i + 1
          BY <1>3, <1>5, <3>1, <4>2 DEF NextRecord
        <5> QED BY <1>2, <5>1
      <4> QED BY <1>3, <3>1, <4>1, <4>2
    <3>2. CASE at = "delete"
      BY <1>1, <1>2, <1>3, <1>5, <3>2 DEF NextRecord
    <3>3. CASE at = "final"
      <4>1. NextRecord = 2 * runner.i /\ NextRecord' = 2 * Len(runner.list) + 1
        BY <1>3, <1>5, <3>3 DEF NextRecord
      <4> QED BY <1>2, <1>3, <3>3, <4>1
    <3>4. CASE at = "exit"
      <4>1. NextRecord = 2 * Len(runner.list) + 1 /\ NextRecord' = 2 * Len(runner.list) + 2
        BY <1>3, <1>5, <3>4 DEF NextRecord
      <4> QED BY <1>2, <4>1
    <3> QED BY <3>1, <3>2, <3>3, <3>4
  <2>3. (runner.at = "final") = (NextRecord = R!LastRecord(runner.list))
    BY <1>1, <1>2 DEF NextRecord, R!LastRecord, Writes
  <2>4. ASSUME NEW c \in R!Asked(runner.list)
        PROVE  runner.dict[c] = R!EntryOf(runner.run, runner.list, NextRecord, c)
    <3>1. runner.dict[c] = R!EntryOf(runner.run, runner.list, DictRecord, c)
      BY <1>1 DEF DictIsSound
    <3>2. CASE runner.at = "final"
      <4>1. DictRecord = 2 * Len(runner.list) /\ NextRecord = R!LastRecord(runner.list)
        <5>1. runner.i = Len(runner.list)
          BY <1>1, <3>2 DEF RunnerIsSound
        <5> QED BY <3>2, <5>1 DEF DictRecord, NextRecord, R!LastRecord
      <4>2. R!EntryOf(runner.run, runner.list, R!LastRecord(runner.list), c) =
              R!EntryOf(runner.run, runner.list, 2 * Len(runner.list), c)
        BY <1>2, LastRecordsAgree
      <4> QED BY <3>1, <4>1, <4>2
    <3>3. CASE runner.at # "final"
      <4>1. DictRecord = NextRecord
        BY <1>1, <3>3 DEF DictRecord, NextRecord, Writes
      <4> QED BY <3>1, <4>1
    <3> QED BY <3>2, <3>3
  <2>5. runner.dict =
          [c \in R!Asked(runner.list) |-> R!EntryOf(runner.run, runner.list, NextRecord, c)]
    BY <1>6, <2>4
  <2>6. file' = R!Report(runner.run, runner.list, NextRecord)
    BY <1>1, <2>3, <2>5 DEF R!Report
  <2> QED BY <1>1, <1>5, <2>1, <2>2, <2>6 DEF R!Publish
<1> QED BY <1>8, <1>9, <1>10, <1>11, <1>12, <1>13, <1>14 DEF RunInv

---------------------------------------------------------------------------
(* A new run takes over.                                                   *)

LEMMA StartPreserves ==
  ASSUME RunInv, Start
  PROVE  RunInv' /\ R!Launch
<1>1. /\ runner \in Runners(runner.list) /\ FileIsTyped
      /\ stream \in [Cmds -> Stream] /\ get.at \in {"idle", "streams"}
      /\ StreamsAreSound /\ GetIsSound
      /\ UNCHANGED <<file, stream>> /\ get' = [get EXCEPT !.alone = FALSE]
  BY TypeFacts DEF RunInv, Start
<1>2. PICK l \in R!Lists :
        runner' = [run |-> runner.run + 1, list |-> l, at |-> "schedule", i |-> 1,
                   opened |-> FALSE, dict |-> [c \in R!Asked(l) |-> R!Scheduled],
                   shell |-> FALSE, alive |-> TRUE]
  BY DEF Start
<1> DEFINE dict == [c \in R!Asked(l) |-> R!Scheduled]
<1>3. /\ runner'.run = runner.run + 1 /\ runner'.list = l /\ runner'.at = "schedule"
      /\ runner'.i = 1 /\ runner'.opened = FALSE /\ runner'.dict = dict
      /\ runner'.shell = FALSE /\ runner'.alive = TRUE
  BY <1>2
<1>4. R!Scheduled \in R!Entry /\ R!Scheduled.status # "finished"
  BY DEF R!Scheduled, R!Entry
<1>5. dict \in [R!Asked(l) -> R!Entry] /\ \A c \in R!Asked(l) : dict[c] = R!Scheduled
  BY <1>4
<1> HIDE DEF dict
<1>6. runner.run \in Nat /\ runner.run + 1 \in 1..MaxRuns /\ 1 \in 1..MaxCmds
      /\ runner.run < MaxRuns
  BY <1>1, RunBounds DEF Runners, Start
<1>7. runner' \in Runners(l)
  <2>1. runner' = [run |-> runner.run + 1, list |-> l, at |-> "schedule", i |-> 1,
                   opened |-> FALSE, dict |-> dict, shell |-> FALSE, alive |-> TRUE]
    BY <1>2 DEF dict
  <2> QED BY <1>5, <1>6, <2>1, RunBounds DEF Runners, Steps, Writes
<1>8. /\ get'.at = get.at /\ get'.alone = FALSE /\ get'.record = get.record
      /\ DOMAIN get' = DOMAIN get
  BY <1>1 DEF GetIsSound
<1>9. TypeOK'
  <2>1. FileIsTyped'
    BY <1>1, <1>3, <1>6 DEF FileIsTyped
  <2> QED BY <1>1, <1>7, <1>8, <2>1, TypesKept
<1>10. RunnerIsSound'
  <2>1. Len(l) \in Nat /\ 1 <= Len(l)
    BY ListFacts, RunBounds
  <2> QED BY <1>3, <1>6, <2>1 DEF RunnerIsSound
<1>11. DictIsSound'
  <2>1. DictRecord' = 0
    BY <1>3 DEF DictRecord
  <2> QED BY <1>3, <1>5, <2>1, FirstRecord DEF DictIsSound
<1>12. StreamsAreSound'
  BY <1>1, <1>3, <1>4, <1>5 DEF StreamsAreSound
<1>13. FileIsSound'
  <2>1. file.st = "record" => file.run # runner.run + 1
    BY <1>1, <1>6 DEF FileIsTyped, R!NoFile, R!EmptyFile
  <2> QED BY <1>1, <1>3, <2>1 DEF FileIsSound
<1>14. GetIsSound'
  BY <1>1, <1>8 DEF GetIsSound
<1>15. R!Launch
  <2>1. NextRecord' = 0
    BY <1>3 DEF NextRecord
  <2> QED BY <1>1, <1>3, <1>6, <2>1 DEF R!Launch
<1> QED BY <1>9, <1>10, <1>11, <1>12, <1>13, <1>14, <1>15 DEF RunInv

---------------------------------------------------------------------------
(* A GET changes nothing but what it has read.                             *)

LEMMA GetPreserves ==
  ASSUME RunInv, Get
  PROVE  RunInv' /\ UNCHANGED R!vars
<1>1. /\ runner \in Runners(runner.list) /\ runner.list \in R!Lists \cup {<<>>}
      /\ FileIsTyped /\ stream \in [Cmds -> Stream] /\ get.at \in {"idle", "streams"}
      /\ RunnerIsSound /\ StreamsAreSound /\ DictIsSound /\ FileIsSound /\ GetIsSound
  BY TypeFacts DEF RunInv
<1>2. UNCHANGED <<runner, file, stream>>
  BY DEF Get, GetFile, GetStream, GetReturns
<1>3. get'.at \in {"idle", "streams"} /\ GetIsSound'
  <2>1. CASE GetFile
    <3>1. /\ get'.at = "streams" /\ get'.record = file /\ get'.todo = DOMAIN file.entries
          /\ get'.alone = (file.run = runner.run) /\ get'.alone \in BOOLEAN
          /\ DOMAIN get' = {"at", "record", "todo", "alone"} /\ file.st = "record"
      BY <2>1 DEF GetFile
    <3>2. DOMAIN file = {"st", "run", "finished", "entries"}
      BY <1>1, <3>1 DEF FileIsTyped, R!NoFile, R!EmptyFile, R!RecordOf
    <3>3. DOMAIN runner.dict = R!Asked(runner.list)
      BY <1>1 DEF Runners
    <3> QED BY <1>1, <1>2, <3>1, <3>2, <3>3 DEF GetIsSound, FileIsSound
  <2>2. CASE GetStream
    <3>1. PICK c \in get.todo :
            get' = [get EXCEPT !.todo = @ \ {c},
                               !.record.entries[c].by = IF stream[c].there THEN stream[c].text
                                                        ELSE @]
      BY <2>2 DEF GetStream
    <3>2. get.at = "streams"
      BY <2>2 DEF GetStream
    <3> DEFINE by == IF stream[c].there THEN stream[c].text ELSE get.record.entries[c].by
               entries == [get.record.entries EXCEPT ![c] = [@ EXCEPT !.by = by]]
    <3>3. /\ get'.at = get.at /\ get'.todo = get.todo \ {c} /\ get'.alone = get.alone
          /\ DOMAIN get' = DOMAIN get /\ DOMAIN get'.record = DOMAIN get.record
          /\ get'.record.finished = get.record.finished
          /\ get'.record.entries = entries
      BY <1>1, <3>1, <3>2 DEF GetIsSound
    <3>4. ASSUME get.alone, get.record.finished
          PROVE  entries = get.record.entries
      <4>1. /\ runner.at = "exit" /\ get.record.entries = runner.dict
            /\ c \in R!Asked(runner.list)
        BY <1>1, <3>2, <3>4 DEF GetIsSound
      <4>2. runner.dict \in [R!Asked(runner.list) -> R!Entry]
        BY <1>1 DEF Runners
      <4>3. runner.dict[c].status = "finished"
        <5>1. runner.list \in R!Lists /\ runner.i = Len(runner.list)
          BY <1>1, <4>1, AtWork DEF RunInv, RunnerIsSound
        <5>2. runner.dict[c] = R!EntryOf(runner.run, runner.list, 2 * Len(runner.list), c)
          BY <1>1, <4>1, <5>1 DEF DictIsSound, DictRecord
        <5> QED BY <4>1, <5>1, <5>2, AllAreFinished
      <4>4. runner.dict[c].by = stream[c].text
        BY <1>1, <4>1, <4>3 DEF StreamsAreSound
      <4>5. by = runner.dict[c].by
        BY <4>1, <4>4
      <4>6. [runner.dict[c] EXCEPT !.by = runner.dict[c].by] = runner.dict[c]
        BY <4>1, <4>2 DEF R!Entry
      <4> HIDE DEF by
      <4> QED BY <4>1, <4>2, <4>5, <4>6
    <3> HIDE DEF entries
    <3> QED BY <1>1, <1>2, <3>2, <3>3, <3>4 DEF GetIsSound
  <2>3. CASE GetReturns
    <3>1. get'.at = "idle" /\ DOMAIN get' = {"at", "record", "todo", "alone"} /\ get'.alone = FALSE
      BY <2>3 DEF GetReturns, NoGet
    <3> QED BY <3>1 DEF GetIsSound
  <2> QED BY <2>1, <2>2, <2>3 DEF Get
<1>4. TypeOK'
  <2>1. FileIsTyped'
    BY <1>1, <1>2 DEF FileIsTyped
  <2> QED BY <1>1, <1>2, <1>3, <2>1, TypesKept
<1>5. RunnerIsSound' /\ DictIsSound' /\ StreamsAreSound' /\ FileIsSound'
  <2>1. Command' = Command /\ Exec' = Exec /\ DictRecord' = DictRecord
    BY <1>2 DEF Command, Exec, DictRecord
  <2> QED BY <1>1, <1>2, <2>1 DEF RunnerIsSound, DictIsSound, StreamsAreSound, FileIsSound
<1>6. UNCHANGED R!vars
  BY <1>2 DEF R!vars, NextRecord
<1> QED BY <1>3, <1>4, <1>5, <1>6 DEF RunInv

---------------------------------------------------------------------------
(* The invariant, and the step simulation.                                 *)

LEMMA RunInit == Init => RunInv /\ R!Init
<1> SUFFICES ASSUME Init
             PROVE  RunInv /\ R!Init
  OBVIOUS
<1> DEFINE dict == [c \in {} |-> R!Scheduled]
<1>1. /\ runner.run = 0 /\ runner.list = <<>> /\ runner.at = "schedule" /\ runner.i = 1
      /\ runner.opened = FALSE /\ runner.dict = dict
      /\ runner.shell = FALSE /\ runner.alive = FALSE
      /\ file = R!NoFile /\ get = NoGet /\ stream = [c \in Cmds |-> NoStream]
  BY DEF Init
<1>2. R!Asked(<<>>) = {}
  BY DEF R!Asked
<1>3. dict \in [{} -> R!Entry]
  OBVIOUS
<1>4. runner = [run |-> 0, list |-> <<>>, at |-> "schedule", i |-> 1, opened |-> FALSE,
                dict |-> dict, shell |-> FALSE, alive |-> FALSE]
  BY DEF Init
<1> HIDE DEF dict
<1>5. runner \in Runners(<<>>)
  BY <1>2, <1>3, <1>4, RunBounds DEF Runners, Steps, Writes
<1>6. NoStream \in Stream /\ NoStream.text = {} /\ NoStream.writers = {}
  BY DEF NoStream, Stream
<1>7. get.at = "idle" /\ DOMAIN get = {"at", "record", "todo", "alone"} /\ get.alone = FALSE
  BY <1>1 DEF NoGet
<1>8. TypeOK
  <2>1. runner \in Runner
    BY <1>1, <1>5 DEF Runner, Runners
  <2> QED BY <1>1, <1>6, <1>7, <2>1 DEF TypeOK
<1>9. RunnerIsSound
  BY <1>1 DEF RunnerIsSound
<1>10. DictIsSound /\ StreamsAreSound
  BY <1>1, <1>2, <1>6 DEF DictIsSound, StreamsAreSound
<1>11. FileIsSound /\ GetIsSound
  BY <1>1, <1>7 DEF FileIsSound, GetIsSound, R!NoFile
<1>12. R!Init
  BY <1>1 DEF R!Init, NextRecord
<1> QED BY <1>8, <1>9, <1>10, <1>11, <1>12 DEF RunInv

LEMMA RunStep == RunInv /\ [Next]_vars => RunInv' /\ [R!Next]_(R!vars)
<1> SUFFICES ASSUME RunInv, [Next]_vars
             PROVE  RunInv' /\ [R!Next]_(R!vars)
  OBVIOUS
<1>1. CASE Next
  BY <1>1, StartPreserves, OpenPreserves, WritePreserves, QuietStepsPreserve, OutputPreserves,
     StreamStepsPreserve, ResumePreserves, GetPreserves DEF Next, RunnerStep, R!Next
<1>2. CASE UNCHANGED vars
  <2>1. UNCHANGED <<runner, file, stream, get>>
    BY <1>2 DEF vars
  <2>2. TypeOK' /\ RunnerIsSound' /\ FileIsSound' /\ GetIsSound'
    BY <2>1 DEF RunInv, TypeOK, Runner, RunnerIsSound, FileIsSound, GetIsSound
  <2>3. Command' = Command /\ Exec' = Exec /\ DictRecord' = DictRecord
    BY <2>1 DEF Command, Exec, DictRecord
  <2>4. DictIsSound' /\ StreamsAreSound'
    BY <2>1, <2>3 DEF RunInv, DictIsSound, StreamsAreSound
  <2>5. UNCHANGED R!vars
    BY <2>1 DEF R!vars, NextRecord
  <2> QED BY <2>2, <2>4, <2>5 DEF RunInv
<1> QED BY <1>1, <1>2

(* The runner, the file of the id, the streams and a GET have the types    *)
(* that TypeOK gives them (src/rest/api/command/command.py).               *)
THEOREM RunTypes == Spec => []TypeOK
<1>1. RunInv => TypeOK
  BY DEF RunInv
<1> QED BY <1>1, RunInit, RunStep, PTL DEF Spec

(* No stream ever holds the output of two executions, whatever the ones    *)
(* before have left behind (recreate_files of src/rest/utils/cmd_utils.py).*)
THEOREM StreamsNeverMixAlways == Spec => []StreamsNeverMix
<1>1. RunInv => StreamsNeverMix
  BY DEF RunInv, StreamsAreSound, StreamsNeverMix
<1> QED BY <1>1, RunInit, RunStep, PTL DEF Spec

LEMMA RunInvImpliesAnswer == RunInv => AnswerIsOfItsRun
<1> SUFFICES ASSUME RunInv, Answered, get.alone, get.record.finished,
                    NEW c \in R!Asked(runner.list)
             PROVE  get.record.entries[c] =
                      R!Finished({<<runner.run, i>> : i \in
                        {j \in R!Places(runner.list, c) :
                           \A h \in R!Places(runner.list, c) : h <= j}})
  BY DEF AnswerIsOfItsRun
<1>1. runner.at = "exit" /\ get.record.entries = runner.dict
  BY DEF RunInv, GetIsSound, Answered
<1>2. runner.list \in R!Lists /\ runner.i = Len(runner.list)
  BY <1>1, AtWork DEF RunInv, RunnerIsSound
<1>3. runner.dict[c] = R!EntryOf(runner.run, runner.list, 2 * Len(runner.list), c)
  BY <1>1, <1>2 DEF RunInv, DictIsSound, DictRecord
<1> QED BY <1>1, <1>2, <1>3, LastRecordsAgree

(* A GET that answers with a finished run, no newer one having been        *)
(* started meanwhile, shows the output of the last execution of every      *)
(* command in that run (get_cmd_detached_info_id of routes.py).            *)
THEOREM AnswerIsOfItsRunAlways == Spec => []AnswerIsOfItsRun
BY RunInvImpliesAnswer, RunInit, RunStep, PTL DEF Spec

(* The runner implements RunReport: whatever it does to the file of its id *)
(* is the next record of its list, the file being empty before.            *)
THEOREM RunnerImplementsReport == Spec => ImplementsRunReport
BY RunInit, RunStep, PTL DEF Spec, ImplementsRunReport, R!Spec

=============================================================================
