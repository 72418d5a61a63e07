---------------------------- MODULE VirtualEnv ----------------------------
(***************************************************************************)
(* The agent's environment: EnvironmentSingleton of                        *)
(* src/rest/environment/environment.py, which keeps a bounded dictionary   *)
(* of virtual variables beside a copy of the system's, and the handlers of *)
(* src/rest/api/routes.py that set, clear and render with it.              *)
(*                                                                         *)
(* The dictionary has no lock. A request thread may lose the interpreter   *)
(* between any two of its operations on it, so the membership test, the    *)
(* size test and the assignment of set_env_var are separate steps.         *)
(***************************************************************************)
EXTENDS Naturals, Sequences, FiniteSets

CONSTANTS
  Keys,         \* names of variables, the empty name among them
  NoKey,        \* the empty name ""
  Template,     \* the name "TEMPLATE"
  Variables,    \* the name "VARIABLES"
  TemplatesDir, \* the name "TEMPLATES_DIR"
  SystemNames,  \* the names in os.environ when the agent started
  FileNames,    \* the names in environment.properties
  Requested,    \* values that clients send
  Own,          \* what /commandyaml and /commandparallel set themselves
  Default,      \* any value that was there before the first request
  None,         \* no value: the variable is not set
  MaxSize,      \* VIRTUAL_ENV_MAX_SIZE
  MaxPairs,     \* bound: variables in the body of one request
  Threads       \* request threads of the agent

ASSUME KeysAssumption ==
  /\ {NoKey, Template, Variables, TemplatesDir} \subseteq Keys
  /\ NoKey \notin {Template, Variables, TemplatesDir}
  /\ SystemNames \subseteq Keys \ {NoKey}
  /\ FileNames \subseteq Keys \ {NoKey}
ASSUME ValuesAssumption == None \notin Requested \cup {Own, Default}
ASSUME SizeAssumption ==
  /\ MaxSize \in Nat \ {0}
  /\ MaxPairs \in Nat
  /\ IsFiniteSet(FileNames)
  /\ Cardinality(FileNames \cup {TemplatesDir}) <= MaxSize
ASSUME ThreadsAssumption == IsFiniteSet(Threads) /\ Threads # {}

VARIABLES
  venv,   \* the virtual variables: a function on a finite set of names
  req     \* what each request thread is doing

vars == <<venv, req>>

Values == Requested \cup {Own, Default}
Names == DOMAIN venv

(* get_env_and_virtual_env().get(k): the merged dictionary is a copy that  *)
(* is made in one step, and venv never has a name of the system.           *)
Lookup(k) ==
  CASE k \in Names -> venv[k]
    [] k \notin Names /\ k \in SystemNames -> Default
    [] OTHER -> None

Assign(k, v) == venv' = [n \in Names \cup {k} |-> IF n = k THEN v ELSE venv[n]]

---------------------------------------------------------------------------
(* Requests. Each calls set_env_var for the pairs of todo, in their order; *)
(* accepted are the names for which it returned True. A render then reads  *)
(* its template, its variables and the directory of the templates.         *)

Pair == [key : Keys, value : Values]

(* The body of a request is a JSON object: its names are distinct.         *)
Bodies ==
  {body \in UNION {[1..n -> [key : Keys, value : Requested]] : n \in 0..MaxPairs} :
     \A i, j \in DOMAIN body : body[i].key = body[j].key => i = j}

Ops == {"none", "set", "clear", "command", "render"}
Pcs == {"idle", "member", "size", "write", "clear", "template", "variables", "dir", "reply"}

Request ==
  [op : Ops, pc : Pcs, todo : Seq(Pair), accepted : SUBSET Keys,
   template : Values \cup {None}, variables : Values \cup {None},
   dir : Values \cup {None}]

(* Where a handler goes when it has the pairs of todo still to set.        *)
NextPc(op, todo) ==
  CASE todo # <<>> -> "member"
    [] todo = <<>> /\ op = "render" -> "template"
    [] OTHER -> "reply"

Asking(op, pc, todo) ==
  [op |-> op, pc |-> pc, todo |-> todo, accepted |-> {},
   template |-> None, variables |-> None, dir |-> None]

Idle == Asking("none", "idle", <<>>)

At(t, pc) == req[t].pc = pc
Goto(t, pc) == req' = [req EXCEPT ![t].pc = pc]
Current(t) == Head(req[t].todo)

(* set_env_var has returned; the handler goes on with the other pairs.     *)
Return(t, accepted) ==
  LET rest == Tail(req[t].todo) IN
  req' = [req EXCEPT ![t].pc = NextPc(req[t].op, rest),
                     ![t].todo = rest,
                     ![t].accepted = @ \cup accepted]

---------------------------------------------------------------------------
(* The variables of environment.properties are loaded when the singleton   *)
(* is made; EnvInit then sets TEMPLATES_DIR unless it has a value (and, in *)
(* the same way, VARS_DIR, which may be taken for one of FileNames).       *)
Init ==
  /\ venv = [k \in (FileNames \cup {TemplatesDir}) \ SystemNames |-> Default]
  /\ req = [t \in Threads |-> Idle]

Receive(t, request) ==
  /\ At(t, "idle")
  /\ req' = [req EXCEPT ![t] = request]
  /\ UNCHANGED venv

(* POST /env, and the env section of /commanddetachedyaml.                 *)
ReceiveSet(t) ==
  \E body \in Bodies : Receive(t, Asking("set", NextPc("set", body), body))

(* /commandyaml and /commandparallel first name their own template.        *)
ReceiveCommand(t) ==
  \E body \in Bodies :
     Receive(t, Asking("command", "member",
                       <<[key |-> Template, value |-> Own],
                         [key |-> Variables, value |-> Own]>> \o body))

(* /render/<template>/<variables> sets both, and then the body's.          *)
ReceiveRender(t) ==
  \E template, variables \in Requested, body \in Bodies :
     Receive(t, Asking("render", "member",
                       <<[key |-> Template, value |-> template],
                         [key |-> Variables, value |-> variables]>> \o body))

(* DELETE /env.                                                            *)
ReceiveClear(t) == Receive(t, Asking("clear", "clear", <<>>))

(* Mutants of TestMember: names of the system pass, or a name that is set  *)
(* needs room like a new one.                                              *)
TestMemberOfAny(t) ==
  /\ At(t, "member")
  /\ IF Current(t).key \in Names THEN Goto(t, "write") ELSE Goto(t, "size")
  /\ UNCHANGED venv

TestMemberLater(t) ==
  /\ At(t, "member")
  /\ IF Current(t).key \in SystemNames THEN Return(t, {}) ELSE Goto(t, "size")
  /\ UNCHANGED venv

(* set_env_var refuses a name of the system, and looks for the name among  *)
(* the virtual ones.                                                       *)
TestMember(t) ==
  /\ At(t, "member")
  /\ LET k == Current(t).key IN
     CASE k \in SystemNames -> Return(t, {})
       [] k \notin SystemNames /\ k \in Names /\ k # NoKey -> Goto(t, "write")
       [] OTHER -> Goto(t, "size")
  /\ UNCHANGED venv

(* Mutants of TestSize: off by one, or without the test of the name.       *)
TestSizeOffByOne(t) ==
  /\ At(t, "size")
  /\ IF Cardinality(Names) <= MaxSize /\ Current(t).key # NoKey
     THEN Goto(t, "write")
     ELSE Return(t, {})
  /\ UNCHANGED venv

TestSizeOnly(t) ==
  /\ At(t, "size")
  /\ IF Cardinality(Names) < MaxSize THEN Goto(t, "write") ELSE Return(t, {})
  /\ UNCHANGED venv

(* A new name needs room, and must not be empty.                           *)
TestSize(t) ==
  /\ At(t, "size")
  /\ IF Cardinality(Names) < MaxSize /\ Current(t).key # NoKey
     THEN Goto(t, "write")
     ELSE Return(t, {})
  /\ UNCHANGED venv

(* Mutant of Write: a name that is set keeps its value.                    *)
WriteOnce(t) ==
  /\ At(t, "write")
  /\ IF Current(t).key \in Names THEN UNCHANGED venv
     ELSE Assign(Current(t).key, Current(t).value)
  /\ Return(t, {Current(t).key})

(* Mutant of Write: what has no room any more is dropped, and answered True*)
(* all the same.                                                           *)
WriteWhileRoom(t) ==
  LET p == Current(t) IN
  /\ At(t, "write")
  /\ IF p.key \in Names \/ Cardinality(Names) < MaxSize THEN Assign(p.key, p.value)
                                                      ELSE UNCHANGED venv
  /\ Return(t, {p.key})

Write(t) ==
  /\ At(t, "write")
  /\ Assign(Current(t).key, Current(t).value)
  /\ Return(t, {Current(t).key})

(* Mutant of Clear: the names stay, without a value.                       *)
ClearValues(t) ==
  /\ At(t, "clear")
  /\ venv' = [k \in Names |-> None]
  /\ Goto(t, "reply")

Clear(t) ==
  /\ At(t, "clear")
  /\ venv' = [k \in {} |-> None]
  /\ Goto(t, "reply")

ReadTemplate(t) ==
  /\ At(t, "template")
  /\ req' = [req EXCEPT ![t].pc = "variables", ![t].template = Lookup(Template)]
  /\ UNCHANGED venv

ReadVariables(t) ==
  /\ At(t, "variables")
  /\ req' = [req EXCEPT ![t].pc = "dir", ![t].variables = Lookup(Variables)]
  /\ UNCHANGED venv

(* Render's constructor looks TEMPLATES_DIR up.                            *)
ReadDir(t) ==
  /\ At(t, "dir")
  /\ req' = [req EXCEPT ![t].pc = "reply", ![t].dir = Lookup(TemplatesDir)]
  /\ UNCHANGED venv

Respond(t) ==
  /\ At(t, "reply")
  /\ req' = [req EXCEPT ![t] = Idle]
  /\ UNCHANGED venv

Next ==
  \E t \in Threads :
     \/ ReceiveSet(t) \/ ReceiveCommand(t) \/ ReceiveRender(t) \/ ReceiveClear(t)
     \/ TestMember(t) \/ TestSize(t) \/ Write(t) \/ Clear(t)
     \/ ReadTemplate(t) \/ ReadVariables(t) \/ ReadDir(t)
     \/ Respond(t)

Spec == Init /\ [][Next]_vars

---------------------------------------------------------------------------
(* Properties.                                                             *)

TypeOK ==
  /\ Names \subseteq Keys
  /\ IsFiniteSet(Names)
  /\ venv \in [Names -> Values]
  /\ req \in [Threads -> Request]

(* A virtual variable never hides one of the system's, and never has the   *)
(* empty name, however the tests and the assignments of requests interleave*)
(* (set_env_var): what commands get is the system's environment, extended. *)
NothingShadowed == Names \cap (SystemNames \cup {NoKey}) = {}

(* The virtual environment outgrows VIRTUAL_ENV_MAX_SIZE by less than one  *)
(* variable per thread, whatever the requests are and however often it is  *)
(* cleared in between.                                                     *)
SizeIsBounded == Cardinality(Names) < MaxSize + Cardinality(Threads)

(* To those who call set_env_var and clear_virtual_env, each call is one   *)
(* step of Environment, however the tests and the assignments of threads   *)
(* interleave: an answer is given by what is set at one moment of the call.*)
Atomic == INSTANCE Environment WITH
            Forbidden <- SystemNames \cup {NoKey},
            Initial <- [k \in (FileNames \cup {TemplatesDir}) \ SystemNames |-> Default],
            todo <- [t \in Threads |-> req[t].todo],
            accepted <- [t \in Threads |-> req[t].accepted]

ImplementsEnvironment == Atomic!Spec

---------------------------------------------------------------------------
(* The inductive invariant behind the theorems of VirtualEnvProofs.        *)

(* A thread in set_env_var has a pair, and no other has; past the tests,   *)
(* its name may be set. Before its first pair it has set nothing.          *)
SoundRequest(r) ==
  /\ r.pc \in {"member", "size", "write"} <=> r.todo # <<>>
  /\ r.pc \in {"idle", "clear"} => r.accepted = {}
  /\ r.pc \in {"size", "write"} => Head(r.todo).key \notin SystemNames
  /\ r.pc = "write" => Head(r.todo).key # NoKey

RequestsAreSound == \A t \in Threads : SoundRequest(req[t])

(* The threads whose next step makes the environment larger.               *)
Pending == {t \in Threads : At(t, "write") /\ Current(t).key \notin Names}

RoomForPending == Cardinality(Names) + Cardinality(Pending) < MaxSize + Cardinality(Threads)

EnvInv ==
  /\ TypeOK
  /\ RequestsAreSound
  /\ NothingShadowed
  /\ RoomForPending

=============================================================================
