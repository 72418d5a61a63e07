-------------------------- MODULE VirtualEnvProofs --------------------------
(* Proofs about VirtualEnv and its history, for any number of request      *)
(* threads, names and variables in a request.                              *)
EXTENDS VirtualEnvHistory, FiniteSetTheorems, TLAPS

(* A body, alone or after two other pairs, is a sequence of pairs.         *)
LEMMA BodiesAreSequences ==
  ASSUME NEW body \in Bodies
  PROVE  body \in Seq(Pair)
<1>1. PICK n \in 0..MaxPairs : body \in [1..n -> [key : Keys, value : Requested]]
  BY DEF Bodies
<1>2. n \in Nat
  BY SizeAssumption
<1>3. [key : Keys, value : Requested] \subseteq Pair
  BY DEF Pair, Values
<1> QED BY <1>1, <1>2, <1>3

(* Two pairs and a body are a sequence of pairs that is not empty.         *)
LEMMA Preceded ==
  ASSUME NEW body \in Bodies, NEW k \in Keys, NEW l \in Keys, NEW v \in Values, NEW w \in Values
  PROVE  LET pairs == <<[key |-> k, value |-> v], [key |-> l, value |-> w]>> \o body
         IN  pairs \in Seq(Pair) /\ pairs # <<>>
<1> DEFINE two == <<[key |-> k, value |-> v], [key |-> l, value |-> w]>>
<1>1. two \in Seq(Pair) /\ Len(two) = 2
  BY DEF Pair
<1>2. body \in Seq(Pair)
  BY BodiesAreSequences
<1>3. two \o body \in Seq(Pair) /\ Len(two \o body) = 2 + Len(body) /\ Len(body) \in Nat
  BY <1>1, <1>2
<1> HIDE DEF two
<1>4. two \o body # <<>>
  BY <1>3
<1> QED BY <1>3, <1>4 DEF two

(* The pending threads are fewer than the threads when one is not pending. *)
LEMMA PendingIsFinite ==
  /\ IsFiniteSet(Pending)
  /\ Cardinality(Pending) \in Nat /\ Cardinality(Threads) \in Nat
  /\ Cardinality(Pending) <= Cardinality(Threads)
BY ThreadsAssumption, FS_Subset, FS_CardinalityType DEF Pending

(* A step of one request that leaves the environment alone: a thread that  *)
(* comes to its assignment has found the name, or has found room.          *)
LEMMA RequestStep ==
  ASSUME EnvInv, NEW t \in Threads, NEW r \in Request, SoundRequest(r),
         req' = [req EXCEPT ![t] = r], venv' = venv,
         r.pc = "write" => Head(r.todo).key \in Names \/ Cardinality(Names) < MaxSize
  PROVE  EnvInv'
<1>1. TypeOK' /\ NothingShadowed'
  BY DEF EnvInv, TypeOK, NothingShadowed, Names
<1>2. \A g \in Threads : req'[g] = IF g = t THEN r ELSE req[g]
  BY DEF EnvInv, TypeOK
<1>3. RequestsAreSound'
  BY <1>2 DEF EnvInv, RequestsAreSound, SoundRequest
<1>4. RoomForPending'
  <2>1. Cardinality(Names) \in Nat /\ Names' = Names
    BY FS_CardinalityType DEF EnvInv, TypeOK, Names
  <2>2. CASE r.pc = "write" /\ Cardinality(Names) < MaxSize
    <3> Pending' \in SUBSET Threads
      BY DEF Pending
    <3>1. /\ Cardinality(Pending') \in Nat /\ Cardinality(Threads) \in Nat
          /\ Cardinality(Pending') <= Cardinality(Threads)
      BY ThreadsAssumption, FS_Subset, FS_CardinalityType
    <3> QED BY <2>1, <2>2, <3>1, SizeAssumption DEF RoomForPending
  <2>3. CASE r.pc # "write" \/ Head(r.todo).key \in Names
    <3>1. Pending' \in SUBSET Pending
      BY <1>2, <2>1, <2>3 DEF Pending, At, Current
    <3>2. /\ Cardinality(Pending') <= Cardinality(Pending)
          /\ Cardinality(Pending') \in Nat
      BY <3>1, PendingIsFinite, FS_Subset, FS_CardinalityType
    <3> QED BY <2>1, <3>2, PendingIsFinite, SizeAssumption DEF EnvInv, RoomForPending
  <2> QED BY <2>2, <2>3
<1> QED BY <1>1, <1>3, <1>4 DEF EnvInv

(* set_env_var returns: the rest of the pairs is still to be set.          *)
LEMMA ReturnType ==
  ASSUME EnvInv, NEW t \in Threads, req[t].todo # <<>>, NEW names \in SUBSET Keys
  PROVE  \E r \in Request :
            /\ Return(t, names) => req' = [req EXCEPT ![t] = r]
            /\ SoundRequest(r)
            /\ r.pc \notin {"size", "write"}
<1> DEFINE rest == Tail(req[t].todo)
           r == [req[t] EXCEPT !.pc = NextPc(req[t].op, rest), !.todo = rest,
                               !.accepted = @ \cup names]
<1>1. req[t] \in Request /\ req \in [Threads -> Request]
  BY DEF EnvInv, TypeOK
<1>2. rest \in Seq(Pair)
  BY <1>1 DEF Request
<1>3. NextPc(req[t].op, rest) \in {"member", "template", "reply"}
  BY DEF NextPc
<1>4. NextPc(req[t].op, rest) = "member" <=> rest # <<>>
  BY DEF NextPc
<1> HIDE DEF rest
<1>5. r \in Request
  BY <1>1, <1>2, <1>3 DEF Request, Pcs
<1>6. r.pc = NextPc(req[t].op, rest) /\ r.todo = rest
  BY <1>1 DEF Request
<1>7. SoundRequest(r) /\ r.pc \notin {"size", "write"}
  BY <1>3, <1>4, <1>6 DEF SoundRequest
<1>8. Return(t, names) => req' = [req EXCEPT ![t] = r]
  BY <1>1 DEF Return, rest
<1> QED BY <1>5, <1>7, <1>8

(* A request that arrives.                                                 *)
LEMMA ReceiveNext ==
  ASSUME EnvInv, NEW t \in Threads,
         ReceiveSet(t) \/ ReceiveCommand(t) \/ ReceiveRender(t) \/ ReceiveClear(t)
  PROVE  EnvInv'
<1>1. ASSUME NEW op \in Ops, NEW pc \in {"member", "reply", "clear"}, NEW todo \in Seq(Pair),
             pc = "member" <=> todo # <<>>,
             Receive(t, Asking(op, pc, todo))
      PROVE  EnvInv'
  <2>1. Asking(op, pc, todo) \in Request
    BY <1>1 DEF Asking, Request, Pcs
  <2>2. SoundRequest(Asking(op, pc, todo)) /\ Asking(op, pc, todo).pc # "write"
    BY <1>1 DEF Asking, SoundRequest
  <2>3. venv' = venv /\ req' = [req EXCEPT ![t] = Asking(op, pc, todo)]
    BY <1>1 DEF Receive
  <2> QED BY <2>1, <2>2, <2>3, RequestStep
<1>2. CASE ReceiveSet(t)
  <2>1. PICK body \in Bodies : Receive(t, Asking("set", NextPc("set", body), body))
    BY <1>2 DEF ReceiveSet
  <2>2. body \in Seq(Pair) /\ NextPc("set", body) \in {"member", "reply"}
    BY BodiesAreSequences DEF NextPc
  <2>3. NextPc("set", body) = "member" <=> body # <<>>
    BY DEF NextPc
  <2> QED BY <1>1, <2>1, <2>2, <2>3 DEF Ops
<1>3. CASE ReceiveCommand(t)
  <2>1. PICK body \in Bodies :
          Receive(t, Asking("command", "member",
                            <<[key |-> Template, value |-> Own],
                              [key |-> Variables, value |-> Own]>> \o body))
    BY <1>3 DEF ReceiveCommand
  <2> QED BY <1>1, <2>1, Preceded, KeysAssumption DEF Ops, Values
<1>4. CASE ReceiveRender(t)
  <2>1. PICK template \in Requested, variables \in Requested, body \in Bodies :
          Receive(t, Asking("render", "member",
                            <<[key |-> Template, value |-> template],
                              [key |-> Variables, value |-> variables]>> \o body))
    BY <1>4 DEF ReceiveRender
  <2> QED BY <1>1, <2>1, Preceded, KeysAssumption DEF Ops, Values
<1>5. CASE ReceiveClear(t)
  <2>1. <<>> \in Seq(Pair)
    OBVIOUS
  <2> QED BY <1>1, <1>5, <2>1 DEF ReceiveClear, Ops
<1> QED BY <1>2, <1>3, <1>4, <1>5

(* The tests of set_env_var.                                               *)
LEMMA TestsNext ==
  ASSUME EnvInv, NEW t \in Threads, TestMember(t) \/ TestSize(t)
  PROVE  EnvInv'
<1> USE DEF At
<1>1. /\ req[t] \in Request /\ SoundRequest(req[t]) /\ req[t].todo # <<>> /\ venv' = venv
      /\ req[t].pc \in {"member", "size"}
  BY DEF EnvInv, TypeOK, RequestsAreSound, SoundRequest, TestMember, TestSize
<1>2. ASSUME NEW names \in SUBSET Keys, Return(t, names) PROVE EnvInv'
  BY <1>1, <1>2, ReturnType, RequestStep
<1>3. ASSUME NEW pc \in {"size", "write"}, Goto(t, pc), Current(t).key \notin SystemNames,
             pc = "write" => /\ Current(t).key # NoKey
                             /\ Current(t).key \in Names \/ Cardinality(Names) < MaxSize
      PROVE  EnvInv'
  <2> DEFINE r == [req[t] EXCEPT !.pc = pc]
  <2>1. r \in Request /\ r.pc = pc /\ r.todo = req[t].todo
    BY <1>1, <1>3 DEF Request, Pcs
  <2>2. SoundRequest(r)
    BY <1>1, <1>3, <2>1 DEF SoundRequest, Current
  <2>3. req' = [req EXCEPT ![t] = r]
    BY <1>3 DEF Goto
  <2> QED BY <1>1, <1>3, <2>1, <2>2, <2>3, RequestStep DEF Current
<1>4. CASE TestMember(t)
  BY <1>2, <1>3, <1>4 DEF TestMember
<1>5. CASE TestSize(t)
  <2>1. Current(t).key \notin SystemNames
    BY <1>1, <1>5 DEF TestSize, SoundRequest, Current
  <2> QED BY <1>2, <1>3, <1>5, <2>1 DEF TestSize
<1> QED BY <1>4, <1>5

(* The assignment: what it adds was pending, and is not any more.          *)
LEMMA WriteNext ==
  ASSUME EnvInv, NEW t \in Threads, Write(t)
  PROVE  EnvInv'
<1> DEFINE k == Current(t).key
<1>1. /\ TypeOK /\ req[t] \in Request /\ req[t].todo # <<>> /\ req[t].pc = "write"
      /\ k \notin SystemNames /\ k # NoKey
  BY DEF EnvInv, TypeOK, RequestsAreSound, SoundRequest, Write, At, Current
<1>2. Current(t) \in Pair
  BY <1>1 DEF Current, Request
<1>3. k \in Keys /\ Current(t).value \in Values
  BY <1>2 DEF Pair
<1>4. PICK r \in Request : /\ req' = [req EXCEPT ![t] = r]
                           /\ SoundRequest(r)
                           /\ r.pc \notin {"size", "write"}
  BY <1>1, <1>3, ReturnType DEF Write
<1>5. \A g \in Threads : req'[g] = IF g = t THEN r ELSE req[g]
  BY <1>1, <1>4 DEF TypeOK
<1>6. venv' = [n \in Names \cup {k} |-> IF n = k THEN Current(t).value ELSE venv[n]]
  BY DEF Write, Assign
<1>7. Names' = Names \cup {k}
  BY <1>6 DEF Names
<1>8. /\ Cardinality(Names) \in Nat /\ IsFiniteSet(Names)
      /\ IsFiniteSet(Names')
      /\ Cardinality(Names') = IF k \in Names THEN Cardinality(Names) ELSE Cardinality(Names) + 1
  BY <1>1, <1>7, FS_AddElement, FS_CardinalityType DEF TypeOK
<1>9. TypeOK'
  <2>1. Names' \subseteq Keys /\ venv' \in [Names' -> Values]
    BY <1>1, <1>3, <1>6, <1>7 DEF TypeOK
  <2>2. req' \in [Threads -> Request]
    BY <1>1, <1>4 DEF TypeOK
  <2> QED BY <1>8, <2>1, <2>2 DEF TypeOK
<1>10. RequestsAreSound'
  BY <1>4, <1>5 DEF EnvInv, RequestsAreSound, SoundRequest
<1>11. NothingShadowed'
  BY <1>1, <1>7 DEF EnvInv, NothingShadowed
<1>12. RoomForPending'
  <2>1. Pending' \in SUBSET (Pending \ {t})
    BY <1>4, <1>5, <1>7 DEF Pending, At, Current
  <2>2. /\ IsFiniteSet(Pending \ {t})
        /\ Cardinality(Pending \ {t}) =
             IF t \in Pending THEN Cardinality(Pending) - 1 ELSE Cardinality(Pending)
    BY PendingIsFinite, FS_RemoveElement
  <2>3. /\ Cardinality(Pending') <= Cardinality(Pending \ {t})
        /\ Cardinality(Pending') \in Nat
    BY <2>1, <2>2, FS_Subset, FS_CardinalityType
  <2>4. k \notin Names => t \in Pending
    BY <1>1 DEF Pending, At
  <2> QED
    BY <1>8, <2>2, <2>3, <2>4, PendingIsFinite, SizeAssumption DEF EnvInv, RoomForPending
<1> QED BY <1>9, <1>10, <1>11, <1>12 DEF EnvInv

(* Clearing may make every other thread pending, but not its own.          *)
LEMMA ClearNext ==
  ASSUME EnvInv, NEW t \in Threads, Clear(t)
  PROVE  EnvInv'
<1> DEFINE r == [req[t] EXCEPT !.pc = "reply"]
<1>1. TypeOK /\ req[t] \in Request
  BY DEF EnvInv, TypeOK
<1>2. r \in Request /\ r.pc = "reply"
  BY <1>1 DEF Request, Pcs
<1>3. req' = [req EXCEPT ![t] = r]
  BY DEF Clear, Goto
<1>4. \A g \in Threads : req'[g] = IF g = t THEN r ELSE req[g]
  BY <1>1, <1>3 DEF TypeOK
<1>5. Names' = {} /\ venv' = [k \in {} |-> None]
  BY DEF Clear, Names
<1>6. TypeOK'
  <2>1. IsFiniteSet(Names') /\ venv' \in [Names' -> Values]
    BY <1>5, FS_EmptySet
  <2>2. req' \in [Threads -> Request]
    BY <1>1, <1>2, <1>3 DEF TypeOK
  <2> QED BY <1>5, <2>1, <2>2 DEF TypeOK
<1>7. RequestsAreSound'
  <2>1. r.todo = <<>>
    BY <1>1 DEF EnvInv, RequestsAreSound, SoundRequest, Clear, At, Request
  <2> QED BY <1>2, <1>4, <2>1 DEF EnvInv, RequestsAreSound, SoundRequest
<1>8. NothingShadowed'
  BY <1>5 DEF NothingShadowed
<1>9. RoomForPending'
  <2>1. Pending' \in SUBSET (Threads \ {t})
    BY <1>2, <1>4 DEF Pending, At
  <2>2. /\ IsFiniteSet(Threads \ {t})
        /\ Cardinality(Threads \ {t}) = Cardinality(Threads) - 1
        /\ Cardinality(Threads) \in Nat
    BY ThreadsAssumption, FS_RemoveElement, FS_CardinalityType
  <2>3. Cardinality(Pending') <= Cardinality(Threads) - 1 /\ Cardinality(Pending') \in Nat
    BY <2>1, <2>2, FS_Subset, FS_CardinalityType
  <2>4. Cardinality(Names') = 0
    BY <1>5, FS_EmptySet
  <2> QED BY <2>2, <2>3, <2>4, SizeAssumption DEF RoomForPending
<1> QED BY <1>6, <1>7, <1>8, <1>9 DEF EnvInv

(* Reading for a render, and the end of a request.                         *)
LEMMA ReadsNext ==
  ASSUME EnvInv, NEW t \in Threads,
         ReadTemplate(t) \/ ReadVariables(t) \/ ReadDir(t) \/ Respond(t)
  PROVE  EnvInv'
<1>1. /\ req[t] \in Request /\ SoundRequest(req[t])
      /\ \A k : Lookup(k) \in Values \cup {None}
  BY DEF EnvInv, TypeOK, RequestsAreSound, Lookup, Names, Values
<1>2. CASE ReadTemplate(t)
  <2> DEFINE r == [req[t] EXCEPT !.pc = "variables", !.template = Lookup(Template)]
  <2>1. r \in Request /\ SoundRequest(r) /\ r.pc # "write"
    BY <1>1, <1>2 DEF Request, Pcs, SoundRequest, ReadTemplate, At
  <2> QED BY <1>2, <2>1, RequestStep DEF ReadTemplate
<1>3. CASE ReadVariables(t)
  <2> DEFINE r == [req[t] EXCEPT !.pc = "dir", !.variables = Lookup(Variables)]
  <2>1. r \in Request /\ SoundRequest(r) /\ r.pc # "write"
    BY <1>1, <1>3 DEF Request, Pcs, SoundRequest, ReadVariables, At
  <2> QED BY <1>3, <2>1, RequestStep DEF ReadVariables
<1>4. CASE ReadDir(t)
  <2> DEFINE r == [req[t] EXCEPT !.pc = "reply", !.dir = Lookup(TemplatesDir)]
  <2>1. r \in Request /\ SoundRequest(r) /\ r.pc # "write"
    BY <1>1, <1>4 DEF Request, Pcs, SoundRequest, ReadDir, At
  <2> QED BY <1>4, <2>1, RequestStep DEF ReadDir
<1>5. CASE Respond(t)
  <2>1. Idle \in Request /\ SoundRequest(Idle) /\ Idle.pc # "write"
    BY DEF Idle, Asking, Request, Ops, Pcs, SoundRequest
  <2> QED BY <1>5, <2>1, RequestStep DEF Respond
<1> QED BY <1>2, <1>3, <1>4, <1>5

(* The invariant holds when the agent has started.                         *)
LEMMA EnvInit ==
  ASSUME Init
  PROVE  EnvInv
<1>1. Names = (FileNames \cup {TemplatesDir}) \ SystemNames
  BY DEF Init, Names
<1>2. IsFiniteSet(FileNames \cup {TemplatesDir})
  BY SizeAssumption, FS_AddElement
<1>3. /\ IsFiniteSet(Names) /\ Cardinality(Names) \in Nat
      /\ Cardinality(Names) <= MaxSize
  <2>1. Names \in SUBSET (FileNames \cup {TemplatesDir})
    BY <1>1
  <2>2. /\ IsFiniteSet(Names)
        /\ Cardinality(Names) <= Cardinality(FileNames \cup {TemplatesDir})
    BY <1>2, <2>1, FS_Subset
  <2>3. Cardinality(FileNames \cup {TemplatesDir}) \in Nat /\ Cardinality(Names) \in Nat
    BY <1>2, <2>2, FS_CardinalityType
  <2> QED BY <2>2, <2>3, SizeAssumption
<1>4. Idle \in Request /\ SoundRequest(Idle)
  BY DEF Idle, Asking, Request, Ops, Pcs, SoundRequest
<1>5. TypeOK
  <2>1. Names \subseteq Keys /\ venv \in [Names -> Values]
    BY <1>1, KeysAssumption DEF Init, Values
  <2>2. req \in [Threads -> Request]
    BY <1>4 DEF Init
  <2> QED BY <1>3, <2>1, <2>2 DEF TypeOK
<1>6. RequestsAreSound
  BY <1>4 DEF Init, RequestsAreSound
<1>7. NothingShadowed
  BY <1>1, KeysAssumption DEF NothingShadowed
<1>8. RoomForPending
  <2>1. Pending = {}
    BY DEF Init, Pending, At, Idle, Asking
  <2>2. Cardinality(Pending) = 0 /\ Cardinality(Threads) \in Nat /\ Cardinality(Threads) # 0
    BY <2>1, ThreadsAssumption, FS_EmptySet, FS_CardinalityType
  <2> QED BY <1>3, <2>2, SizeAssumption DEF RoomForPending
<1> QED BY <1>5, <1>6, <1>7, <1>8 DEF EnvInv

LEMMA EnvStep == EnvInv /\ [Next]_vars => EnvInv'
<1> SUFFICES ASSUME EnvInv, [Next]_vars PROVE EnvInv'
  OBVIOUS
<1>1. CASE UNCHANGED vars
  BY <1>1 DEF vars, EnvInv, TypeOK, RequestsAreSound, SoundRequest, NothingShadowed,
              RoomForPending, Pending, At, Current, Names
<1>2. CASE Next
  BY <1>2, ReceiveNext, TestsNext, WriteNext, ClearNext, ReadsNext DEF Next
<1> QED BY <1>1, <1>2

(* The invariant that counts the threads about to add a name together with *)
(* the names that are there holds for ever (set_env_var).                  *)
THEOREM EnvInvariance == Spec => []EnvInv
BY EnvStep, EnvInit, PTL DEF Spec

(* Type correctness of the environment and its requests.                   *)
THEOREM EnvTypeCorrectness == Spec => []TypeOK
<1>1. EnvInv => TypeOK
  BY DEF EnvInv
<1> QED BY <1>1, EnvInvariance, PTL

(* Whatever the number of request threads and however they interleave, the *)
(* virtual environment outgrows its maximal size by less than that number: *)
(* the test and the assignment of set_env_var are not atomic.              *)
THEOREM SizeStaysBounded == Spec => []SizeIsBounded
<1>1. EnvInv => SizeIsBounded
  <2> SUFFICES ASSUME EnvInv PROVE SizeIsBounded
    OBVIOUS
  <2>1. Cardinality(Names) \in Nat
    BY FS_CardinalityType DEF EnvInv, TypeOK
  <2> QED BY <2>1, PendingIsFinite, SizeAssumption DEF EnvInv, RoomForPending, SizeIsBounded
<1> QED BY <1>1, EnvInvariance, PTL

(* No virtual variable ever hides a variable of the system, and none has   *)
(* the empty name (set_env_var).                                           *)
THEOREM NothingIsEverShadowed == Spec => []NothingShadowed
<1>1. EnvInv => NothingShadowed
  BY DEF EnvInv
<1> QED BY <1>1, EnvInvariance, PTL

---------------------------------------------------------------------------
(* VirtualEnv implements Environment.                                      *)

Todo == [g \in Threads |-> req[g].todo]
Accepted == [g \in Threads |-> req[g].accepted]

LEMMA SameSize == \A S : Atomic!Cardinality(S) = Cardinality(S)
BY Zenon DEF Atomic!Cardinality, Cardinality

(* What Environment sees of a step of one request.                         *)
LEMMA StepSeen ==
  ASSUME EnvInv, NEW t \in Threads, \E r : req' = [req EXCEPT ![t] = r]
  PROVE  /\ Todo' = [Todo EXCEPT ![t] = req'[t].todo]
         /\ Accepted' = [Accepted EXCEPT ![t] = req'[t].accepted]
         /\ Todo[t] = req[t].todo /\ Accepted[t] = req[t].accepted
<1>1. \A g \in Threads : g # t => req'[g] = req[g]
  BY DEF EnvInv, TypeOK
<1>2. /\ Todo' = [g \in Threads |-> req'[g].todo]
      /\ Accepted' = [g \in Threads |-> req'[g].accepted]
  BY DEF Todo, Accepted
<1>3. /\ [Todo EXCEPT ![t] = req'[t].todo] =
           [g \in Threads |-> IF g = t THEN req'[t].todo ELSE req[g].todo]
      /\ [Accepted EXCEPT ![t] = req'[t].accepted] =
           [g \in Threads |-> IF g = t THEN req'[t].accepted ELSE req[g].accepted]
  BY DEF Todo, Accepted
<1> QED BY <1>1, <1>2, <1>3 DEF Todo, Accepted

(* A step that neither ends nor begins a call is not seen at all.          *)
LEMMA Unseen ==
  ASSUME EnvInv, NEW t \in Threads, \E r : req' = [req EXCEPT ![t] = r], venv' = venv,
         req'[t].todo = req[t].todo, req'[t].accepted = req[t].accepted
  PROVE  UNCHANGED Atomic!vars
<1>1. Todo' = Todo /\ Accepted' = Accepted
  BY StepSeen DEF Todo, Accepted
<1> QED BY <1>1 DEF Atomic!vars, Todo, Accepted

(* A request that arrives is asked for as a whole.                         *)
LEMMA ArrivalIsAsking ==
  ASSUME EnvInv, NEW t \in Threads,
         ReceiveSet(t) \/ ReceiveCommand(t) \/ ReceiveRender(t) \/ ReceiveClear(t)
  PROVE  Atomic!Ask(t)
<1>1. PICK op, pc, todo : Receive(t, Asking(op, pc, todo))
  BY DEF ReceiveSet, ReceiveCommand, ReceiveRender, ReceiveClear
<1>2. req' = [req EXCEPT ![t] = Asking(op, pc, todo)] /\ venv' = venv /\ At(t, "idle")
  BY <1>1 DEF Receive
<1>3. req[t].todo = <<>> /\ req[t].accepted = {}
  BY <1>2 DEF EnvInv, TypeOK, RequestsAreSound, SoundRequest, At
<1>4. req' \in [Threads -> Request]
  BY ReceiveNext DEF EnvInv, TypeOK
<1>5. req'[t].todo \in Seq(Pair) /\ req'[t].accepted = {}
  <2>1. req'[t] = Asking(op, pc, todo)
    BY <1>2 DEF EnvInv, TypeOK
  <2> QED BY <1>4, <2>1 DEF Request, Asking
<1>6. /\ Todo' = [Todo EXCEPT ![t] = req'[t].todo]
      /\ Accepted' = [Accepted EXCEPT ![t] = req'[t].accepted]
      /\ Todo[t] = <<>> /\ Accepted[t] = {}
  BY <1>2, <1>3, StepSeen
<1>7. Accepted' = Accepted /\ Todo'[t] = req'[t].todo
  BY <1>5, <1>6 DEF Accepted, Todo
<1> QED BY <1>2, <1>5, <1>6, <1>7 DEF Atomic!Ask, Atomic!Pair, Pair, Todo, Accepted

(* The fields that a call leaves behind when it returns.                   *)
LEMMA ReturnSeen ==
  ASSUME EnvInv, NEW t \in Threads, NEW names, Return(t, names)
  PROVE  /\ Todo' = [Todo EXCEPT ![t] = Tail(Todo[t])]
         /\ Accepted' = [Accepted EXCEPT ![t] = Accepted[t] \cup names]
         /\ Todo[t] = req[t].todo
<1> DEFINE rest == Tail(req[t].todo)
           r == [req[t] EXCEPT !.pc = NextPc(req[t].op, rest), !.todo = rest,
                               !.accepted = @ \cup names]
<1>1. req \in [Threads -> Request] /\ req[t] \in Request
  BY DEF EnvInv, TypeOK
<1>2. req' = [req EXCEPT ![t] = r]
  BY <1>1 DEF Return
<1>3. r.todo = rest /\ r.accepted = req[t].accepted \cup names
  BY <1>1 DEF Request
<1> HIDE DEF r
<1>4. req'[t] = r
  BY <1>1, <1>2
<1>5. /\ Todo' = [Todo EXCEPT ![t] = r.todo]
      /\ Accepted' = [Accepted EXCEPT ![t] = r.accepted]
      /\ Todo[t] = req[t].todo /\ Accepted[t] = req[t].accepted
  BY <1>2, <1>4, StepSeen
<1> QED BY <1>3, <1>5

(* The tests go on, unseen, or refuse the pair: because the name may not be*)
(* set, or because the environment is full when the size is tested.        *)
LEMMA TestIsRefusal ==
  ASSUME EnvInv, NEW t \in Threads, TestMember(t) \/ TestSize(t)
  PROVE  Atomic!Refuse(t) \/ UNCHANGED Atomic!vars
<1>1. /\ req[t] \in Request /\ req[t].todo # <<>> /\ venv' = venv
      /\ Cardinality(Names) \in Nat /\ req \in [Threads -> Request]
  BY FS_CardinalityType
     DEF EnvInv, TypeOK, RequestsAreSound, SoundRequest, TestMember, TestSize, At
<1>2. ASSUME NEW pc, Goto(t, pc)
      PROVE  UNCHANGED Atomic!vars
  <2> DEFINE r == [req[t] EXCEPT !.pc = pc]
  <2>1. req' = [req EXCEPT ![t] = r] /\ r.todo = req[t].todo /\ r.accepted = req[t].accepted
    BY <1>1, <1>2 DEF Goto, Request
  <2> HIDE DEF r
  <2>2. req'[t] = r
    BY <1>1, <2>1
  <2> QED BY <1>1, <2>1, <2>2, Unseen
<1>3. ASSUME Return(t, {}),
             Current(t).key \in SystemNames \cup {NoKey} \/ Cardinality(Names) >= MaxSize
      PROVE  Atomic!Refuse(t)
  <2>1. /\ Todo' = [Todo EXCEPT ![t] = Tail(Todo[t])]
        /\ Accepted' = [Accepted EXCEPT ![t] = Accepted[t] \cup {}]
        /\ Todo[t] = req[t].todo
    BY <1>3, ReturnSeen
  <2>2. Accepted' = Accepted
    BY <2>1 DEF Accepted
  <2> QED BY <1>1, <1>3, <2>1, <2>2, SameSize
          DEF Atomic!Refuse, Atomic!Full, Atomic!Names, Names, Current, Todo, Accepted
<1>4. CASE TestMember(t)
  BY <1>2, <1>3, <1>4 DEF TestMember
<1>5. CASE TestSize(t)
  BY <1>1, <1>2, <1>3, <1>5, SizeAssumption DEF TestSize
<1> QED BY <1>4, <1>5

(* The assignment is the whole call; a new name finds less than the limit  *)
(* and the other threads together, of which its own is not one.            *)
LEMMA WriteIsSetting ==
  ASSUME EnvInv, NEW t \in Threads, Write(t)
  PROVE  Atomic!Set(t)
<1> DEFINE k == Current(t).key
<1>1. /\ req[t].todo # <<>> /\ req[t].pc = "write" /\ k \notin SystemNames \cup {NoKey}
      /\ Return(t, {k}) /\ Cardinality(Names) \in Nat
  BY FS_CardinalityType
     DEF EnvInv, TypeOK, RequestsAreSound, SoundRequest, Write, At, Current
<1>2. /\ Todo' = [Todo EXCEPT ![t] = Tail(Todo[t])]
      /\ Accepted' = [Accepted EXCEPT ![t] = Accepted[t] \cup {k}]
      /\ Todo[t] = req[t].todo
  BY <1>1, ReturnSeen
<1>3. k \in Names \/ ~(Cardinality(Names) >= MaxSize + Cardinality(Threads) - 1)
  <2> SUFFICES ASSUME k \notin Names
               PROVE  Cardinality(Names) < MaxSize + Cardinality(Threads) - 1
    BY <1>1, PendingIsFinite, SizeAssumption
  <2>1. t \in Pending
    BY <1>1 DEF Pending, At
  <2>2. Cardinality(Pending) # 0
    BY <2>1, PendingIsFinite, FS_EmptySet
  <2> QED BY <1>1, <2>2, PendingIsFinite, SizeAssumption DEF EnvInv, RoomForPending
<1>4. venv' = [n \in Names \cup {k} |-> IF n = k THEN Current(t).value ELSE venv[n]]
  BY DEF Write, Assign
<1>5. k \in Atomic!Names \/ ~Atomic!Overfull
  BY <1>3, SameSize DEF Atomic!Overfull, Atomic!Names, Names
<1> QED BY <1>1, <1>2, <1>4, <1>5 DEF Atomic!Set, Atomic!Names, Names, Current, Todo, Accepted

(* The other steps: a clear, the reads of a render, and a response.        *)
LEMMA ClearIsClearing ==
  ASSUME EnvInv, NEW t \in Threads, Clear(t)
  PROVE  Atomic!Clear(t)
<1> DEFINE r == [req[t] EXCEPT !.pc = "reply"]
<1>1. /\ req \in [Threads -> Request] /\ req[t] \in Request
      /\ req[t].todo = <<>> /\ req[t].accepted = {}
  BY DEF EnvInv, TypeOK, RequestsAreSound, SoundRequest, Clear, At
<1>2. req' = [req EXCEPT ![t] = r] /\ r.todo = <<>> /\ r.accepted = {}
  BY <1>1 DEF Clear, Goto, Request
<1> HIDE DEF r
<1>3. req'[t] = r
  BY <1>1, <1>2
<1>4. Todo[t] = <<>> /\ Accepted[t] = {} /\ Todo' = Todo /\ Accepted' = Accepted
  BY <1>1, <1>2, <1>3, StepSeen DEF Todo, Accepted
<1>5. venv' = [k \in {} |-> k]
  BY DEF Clear
<1> QED BY <1>4, <1>5 DEF Atomic!Clear, Todo, Accepted

LEMMA ReadsAreUnseen ==
  ASSUME EnvInv, NEW t \in Threads, ReadTemplate(t) \/ ReadVariables(t) \/ ReadDir(t)
  PROVE  UNCHANGED Atomic!vars
<1> DEFINE r1 == [req[t] EXCEPT !.pc = "variables", !.template = Lookup(Template)]
           r2 == [req[t] EXCEPT !.pc = "dir", !.variables = Lookup(Variables)]
           r3 == [req[t] EXCEPT !.pc = "reply", !.dir = Lookup(TemplatesDir)]
<1>1. req[t] \in Request /\ req \in [Threads -> Request] /\ venv' = venv
  BY DEF EnvInv, TypeOK, ReadTemplate, ReadVariables, ReadDir
<1>2. \E r \in {r1, r2, r3} : req' = [req EXCEPT ![t] = r]
  BY <1>1 DEF ReadTemplate, ReadVariables, ReadDir
<1>3. \A r \in {r1, r2, r3} : r.todo = req[t].todo /\ r.accepted = req[t].accepted
  BY <1>1 DEF Request
<1> HIDE DEF r1, r2, r3
<1>4. PICK r \in {r1, r2, r3} : req' = [req EXCEPT ![t] = r] /\ req'[t] = r
  BY <1>1, <1>2
<1> QED BY <1>1, <1>3, <1>4, Unseen

LEMMA ResponseIsSeen ==
  ASSUME EnvInv, NEW t \in Threads, Respond(t)
  PROVE  Atomic!Respond(t)
<1>1. /\ req \in [Threads -> Request] /\ req[t].todo = <<>> /\ venv' = venv
      /\ req' = [req EXCEPT ![t] = Idle]
  BY DEF EnvInv, TypeOK, RequestsAreSound, SoundRequest, Respond, At
<1>2. req'[t].todo = <<>> /\ req'[t].accepted = {}
  BY <1>1 DEF Idle, Asking
<1>3. Todo[t] = <<>> /\ Todo' = Todo /\ Accepted' = [Accepted EXCEPT ![t] = {}]
  BY <1>1, <1>2, StepSeen DEF Todo
<1> QED BY <1>1, <1>3 DEF Atomic!Respond, Todo, Accepted

LEMMA EnvironmentStarts == Init => Atomic!Init
BY DEF Init, Atomic!Init, Idle, Asking

LEMMA EnvironmentSteps == EnvInv /\ [Next]_vars => [Atomic!Next]_(Atomic!vars)
<1> SUFFICES ASSUME EnvInv, [Next]_vars
             PROVE  Atomic!Next \/ UNCHANGED Atomic!vars
  OBVIOUS
<1>1. CASE UNCHANGED vars
  BY <1>1 DEF vars, Atomic!vars
<1>2. CASE Next
  <2>1. PICK t \in Threads :
          \/ ReceiveSet(t) \/ ReceiveCommand(t) \/ ReceiveRender(t) \/ ReceiveClear(t)
          \/ TestMember(t) \/ TestSize(t) \/ Write(t) \/ Clear(t)
          \/ ReadTemplate(t) \/ ReadVariables(t) \/ ReadDir(t)
          \/ Respond(t)
    BY <1>2 DEF Next
  <2>2. \/ Atomic!Ask(t) \/ Atomic!Refuse(t) \/ Atomic!Set(t) \/ Atomic!Clear(t)
        \/ Atomic!Respond(t) \/ UNCHANGED Atomic!vars
    BY <2>1, ArrivalIsAsking, TestIsRefusal, WriteIsSetting, ClearIsClearing, ReadsAreUnseen,
       ResponseIsSeen
  <2> QED BY <2>2 DEF Atomic!Next
<1> QED BY <1>1, <1>2

(* To the threads that share it the environment is one in which each call  *)
(* of set_env_var and of clear_virtual_env is a single step, whatever they *)
(* do between the two tests and the assignment (set_env_var).              *)
THEOREM EnvironmentIsImplemented == Spec => ImplementsEnvironment
BY EnvironmentStarts, EnvironmentSteps, EnvInit, EnvStep, PTL
   DEF Spec, ImplementsEnvironment, Atomic!Spec

---------------------------------------------------------------------------
(* The history: what a request has set of the pairs that it came with. The *)
(* definitions are of a request r that came with pairs, in an environment  *)
(* env, since when the names known were all the time there.                *)

Done(r, pairs) == Len(pairs) - Len(r.todo)

Found(env, k) ==
  CASE k \in DOMAIN env -> env[k]
    [] k \notin DOMAIN env /\ k \in SystemNames -> Default
    [] OTHER -> None

(* The pairs still to be set are the last ones of those that came.         *)
Told(r, pairs) ==
  /\ pairs \in Seq(Pair)
  /\ Len(r.todo) <= Len(pairs)
  /\ \A j \in 1..Len(r.todo) : r.todo[j] = pairs[Done(r, pairs) + j]
  /\ r.pc \notin {"member", "size", "write"} => r.todo = <<>>
  /\ r.pc \in {"idle", "clear"} => pairs = <<>> /\ r.accepted = {} /\ r.op # "render"
  /\ r.op = "render" =>
        Len(pairs) >= 2 /\ pairs[1].key = Template /\ pairs[2].key = Variables

(* A name that was there all along is accepted.                            *)
Kept(r, pairs, names, env) ==
  /\ names \subseteq DOMAIN env
  /\ \A i \in 1..Done(r, pairs) : pairs[i].key \in names => pairs[i].key \in r.accepted
  /\ r.pc = "size" => Head(r.todo).key \notin names

(* The i-th pair is the last so far that sets k.                           *)
LastOf(n, pairs, k, i) ==
  /\ pairs[i].key = k
  /\ \A j \in 1..n : pairs[j].key = k => j <= i

(* With nobody else at work, what was accepted has the value it was given, *)
(* what was not accepted has none, and a render has read accordingly.      *)
Undisturbed(r, pairs, env) ==
  /\ r.pc = "size" => Head(r.todo).key \notin DOMAIN env
  /\ \A k \in r.accepted :
        /\ k \in DOMAIN env /\ k \notin SystemNames
        /\ \E i \in 1..Done(r, pairs) :
             LastOf(Done(r, pairs), pairs, k, i) /\ env[k] = pairs[i].value
  /\ \A i \in 1..Done(r, pairs) :
        pairs[i].key \notin r.accepted \cup SystemNames => pairs[i].key \notin DOMAIN env
  /\ r.op = "render" /\ r.pc \in {"variables", "dir", "reply"} =>
        r.template = Found(env, Template)
  /\ r.op = "render" /\ r.pc \in {"dir", "reply"} => r.variables = Found(env, Variables)

StoryOf(r, pairs, names, undisturbed, env) ==
  /\ Told(r, pairs)
  /\ Kept(r, pairs, names, env)
  /\ undisturbed => Undisturbed(r, pairs, env)

HistoryInv ==
  /\ EnvInv
  /\ \A t \in Threads : StoryOf(req[t], asked[t], known[t], alone[t], venv)

(* A request that is left alone: others may take names away, and the names *)
(* that they give or take end its solitude.                                *)
LEMMA StoryOfOthers ==
  ASSUME NEW r, NEW pairs, NEW names, NEW solitude, NEW env, NEW names2, NEW solitude2,
         NEW env2, StoryOf(r, pairs, names, solitude, env),
         names2 \subseteq names \cap DOMAIN env2, solitude2 => solitude /\ env2 = env
  PROVE  StoryOf(r, pairs, names2, solitude2, env2)
BY DEF StoryOf, Kept

(* A request that arrives, and a thread without one.                       *)
LEMMA StoryBegins ==
  ASSUME NEW op \in Ops, NEW pc \in {"member", "reply", "clear"}, NEW todo \in Seq(Pair), NEW env,
         NEW solitude, pc # "member" => todo = <<>>, pc = "clear" => op # "render",
         op = "render" =>
           Len(todo) >= 2 /\ todo[1].key = Template /\ todo[2].key = Variables
  PROVE  StoryOf(Asking(op, pc, todo), todo, DOMAIN env, solitude, env)
<1> DEFINE r == Asking(op, pc, todo)
<1>1. r.todo = todo /\ r.accepted = {} /\ r.pc = pc /\ r.op = op
  BY DEF Asking
<1>2. Len(todo) \in Nat /\ Done(r, todo) = 0
  BY <1>1 DEF Done
<1>3. op = "render" => pc = "member"
  OBVIOUS
<1> HIDE DEF r
<1>4. Told(r, todo)
  BY <1>1, <1>2 DEF Told
<1>5. Kept(r, todo, DOMAIN env, env)
  BY <1>1, <1>2 DEF Kept
<1>6. Undisturbed(r, todo, env)
  BY <1>1, <1>2, <1>3 DEF Undisturbed
<1> QED BY <1>4, <1>5, <1>6 DEF StoryOf, r

LEMMA StoryOfIdle ==
  ASSUME NEW r, NEW pairs, NEW env, NEW solitude, r.pc = "idle",
         r.todo = <<>>, r.accepted = {}, r.op # "render"
  PROVE  StoryOf(r, <<>>, {}, solitude, env)
<1>1. Done(r, <<>>) = 0 /\ <<>> \in Seq(Pair) /\ Len(<<>>) = 0
  BY DEF Done
<1>2. Told(r, <<>>)
  BY <1>1 DEF Told
<1>3. Kept(r, <<>>, {}, env)
  BY <1>1 DEF Kept
<1>4. Undisturbed(r, <<>>, env)
  BY <1>1 DEF Undisturbed
<1> QED BY <1>2, <1>3, <1>4 DEF StoryOf

(* The tests of set_env_var, when it goes on: a name that needs room was   *)
(* not there.                                                              *)
LEMMA StoryOfTest ==
  ASSUME NEW r \in Request, NEW pairs, NEW names, NEW solitude, NEW env,
         StoryOf(r, pairs, names, solitude, env), r.pc \in {"member", "size"},
         NEW pc \in {"size", "write"},
         pc = "size" => Head(r.todo).key \notin DOMAIN env
  PROVE  StoryOf([r EXCEPT !.pc = pc], pairs, names, solitude, env)
<1> DEFINE s == [r EXCEPT !.pc = pc]
<1>1. s.pc = pc /\ s.todo = r.todo /\ s.accepted = r.accepted /\ s.op = r.op
  BY DEF Request
<1>2. Done(s, pairs) = Done(r, pairs)
  BY <1>1 DEF Done
<1> HIDE DEF s
<1>3. Told(s, pairs)
  BY <1>1, <1>2 DEF Told, StoryOf
<1>4. Kept(s, pairs, names, env)
  BY <1>1, <1>2 DEF Kept, StoryOf
<1>5. solitude => Undisturbed(s, pairs, env)
  BY <1>1, <1>2 DEF Undisturbed, StoryOf
<1> QED BY <1>3, <1>4, <1>5 DEF StoryOf, s

(* set_env_var returns: the pair counts as done.                           *)
Returned(r, accepted) ==
  [r EXCEPT !.pc = NextPc(r.op, Tail(r.todo)), !.todo = Tail(r.todo),
            !.accepted = @ \cup accepted]

LEMMA ReturnedFields ==
  ASSUME NEW r \in Request, NEW pairs, NEW accepted, Told(r, pairs), r.todo # <<>>
  PROVE  LET s == Returned(r, accepted) IN
         /\ Done(r, pairs) \in Nat
         /\ Done(s, pairs) = Done(r, pairs) + 1
         /\ pairs[Done(r, pairs) + 1] = Head(r.todo)
         /\ s.accepted = r.accepted \cup accepted
         /\ s.op = r.op
         /\ s.pc \in {"member", "template", "reply"}
         /\ Told(s, pairs)
<1> DEFINE s == Returned(r, accepted)
           rest == Tail(r.todo)
<1>1. s.todo = rest /\ s.accepted = r.accepted \cup accepted /\ s.op = r.op
      /\ s.pc = NextPc(r.op, rest)
  BY DEF Request, Returned
<1>2. r.todo \in Seq(Pair) /\ pairs \in Seq(Pair)
  BY DEF Request, Told
<1>3. /\ Len(r.todo) \in Nat /\ Len(r.todo) > 0 /\ Len(pairs) \in Nat
      /\ Len(rest) = Len(r.todo) - 1 /\ rest \in Seq(Pair)
      /\ \A j \in 1..Len(rest) : rest[j] = r.todo[j + 1]
      /\ Head(r.todo) = r.todo[1]
  BY <1>2
<1>4. /\ s.pc \in {"member", "template", "reply"}
      /\ s.pc # "member" => rest = <<>>
  BY <1>1 DEF NextPc
<1> HIDE DEF s, rest
<1>5. Done(r, pairs) \in Nat /\ Done(s, pairs) = Done(r, pairs) + 1
  BY <1>1, <1>3 DEF Done, Told
<1>6. pairs[Done(r, pairs) + 1] = Head(r.todo)
  BY <1>3 DEF Told
<1>7. Told(s, pairs)
  <2>1. Len(s.todo) <= Len(pairs)
    BY <1>1, <1>3 DEF Told
  <2>2. ASSUME NEW j \in 1..Len(s.todo) PROVE s.todo[j] = pairs[Done(s, pairs) + j]
    <3>1. j + 1 \in 1..Len(r.todo) /\ s.todo[j] = r.todo[j + 1]
      BY <1>1, <1>3, <2>2
    <3>2. r.todo[j + 1] = pairs[Done(r, pairs) + (j + 1)]
      BY <3>1 DEF Told
    <3> QED BY <1>5, <3>1, <3>2
  <2> QED BY <1>1, <1>2, <1>4, <2>1, <2>2 DEF Told
<1> QED BY <1>1, <1>4, <1>5, <1>6, <1>7 DEF s

(* It refuses a name, which is not there.                                  *)
LEMMA StoryOfRefusal ==
  ASSUME NEW r \in Request, NEW pairs, NEW names, NEW solitude, NEW env,
         StoryOf(r, pairs, names, solitude, env), r.todo # <<>>,
         Head(r.todo).key \notin names,
         solitude => Head(r.todo).key \notin DOMAIN env
  PROVE  StoryOf(Returned(r, {}), pairs, names, solitude, env)
<1> DEFINE s == Returned(r, {})
           n == Done(r, pairs)
<1>0. /\ n \in Nat /\ Done(s, pairs) = n + 1 /\ pairs[n + 1] = Head(r.todo)
      /\ s.accepted = r.accepted \cup {} /\ s.pc \in {"member", "template", "reply"}
      /\ s.op = r.op /\ Told(s, pairs)
  BY ReturnedFields DEF StoryOf
<1> HIDE DEF s, n
<1>1. /\ n \in Nat /\ Done(s, pairs) = n + 1 /\ pairs[n + 1] = Head(r.todo)
      /\ s.accepted = r.accepted /\ s.pc \in {"member", "template", "reply"}
      /\ s.op = r.op /\ Told(s, pairs)
  BY <1>0
<1>2. ASSUME NEW i \in 1..(n + 1) PROVE i \in 1..n \/ i = n + 1
  BY <1>1
<1>3. Kept(s, pairs, names, env)
  <2>1. ASSUME NEW i \in 1..(n + 1), pairs[i].key \in names PROVE pairs[i].key \in r.accepted
    BY <1>1, <1>2, <2>1 DEF Kept, StoryOf, n
  <2> QED BY <1>1, <2>1 DEF Kept, StoryOf
<1>4. ASSUME solitude PROVE Undisturbed(s, pairs, env)
  <2>1. Undisturbed(r, pairs, env) /\ Head(r.todo).key \notin DOMAIN env
    BY <1>4 DEF StoryOf
  <2>2. ASSUME NEW k \in r.accepted
        PROVE  /\ k \in DOMAIN env /\ k \notin SystemNames
               /\ \E i \in 1..(n + 1) : LastOf(n + 1, pairs, k, i) /\ env[k] = pairs[i].value
    <3>1. k \in DOMAIN env /\ k \notin SystemNames
      BY <2>1 DEF Undisturbed
    <3>2. PICK i \in 1..n : LastOf(n, pairs, k, i) /\ env[k] = pairs[i].value
      BY <2>1 DEF Undisturbed, n
    <3>3. LastOf(n + 1, pairs, k, i)
      BY <1>1, <1>2, <2>1, <3>1, <3>2 DEF LastOf
    <3> QED BY <1>1, <3>1, <3>2, <3>3
  <2>3. ASSUME NEW i \in 1..(n + 1), pairs[i].key \notin r.accepted \cup SystemNames
        PROVE  pairs[i].key \notin DOMAIN env
    BY <1>1, <1>2, <2>1, <2>3 DEF Undisturbed, n
  <2>4. s.op = "render" => s.pc \notin {"variables", "dir", "reply"}
    BY <1>1 DEF s, Returned, NextPc, Request
  <2> QED BY <1>1, <2>2, <2>3, <2>4 DEF Undisturbed
<1> QED BY <1>1, <1>3, <1>4 DEF StoryOf, s

(* It accepts a name, which gets its value.                                *)
LEMMA StoryOfWrite ==
  ASSUME NEW r \in Request, NEW pairs, NEW names, NEW solitude, NEW env,
         StoryOf(r, pairs, names, solitude, env), r.todo # <<>>,
         Head(r.todo).key \notin SystemNames,
         NEW env2, env2 = [k \in DOMAIN env \cup {Head(r.todo).key} |->
                             IF k = Head(r.todo).key THEN Head(r.todo).value ELSE env[k]]
  PROVE  StoryOf(Returned(r, {Head(r.todo).key}), pairs, names, solitude, env2)
<1> DEFINE key == Head(r.todo).key
           s == Returned(r, {key})
           n == Done(r, pairs)
<1>1. /\ n \in Nat /\ Done(s, pairs) = n + 1 /\ pairs[n + 1] = Head(r.todo)
      /\ s.accepted = r.accepted \cup {key} /\ s.pc \in {"member", "template", "reply"}
      /\ s.op = r.op /\ Told(s, pairs)
  BY ReturnedFields DEF StoryOf
<1>2. /\ DOMAIN env2 = DOMAIN env \cup {key}
      /\ env2[key] = Head(r.todo).value
      /\ \A k \in DOMAIN env : k # key => env2[k] = env[k]
  OBVIOUS
<1>3. s.op = "render" => s.pc \notin {"variables", "dir", "reply"}
  BY <1>1 DEF Returned, NextPc, Request
<1>4. pairs[n + 1].key = key /\ pairs[n + 1].value = Head(r.todo).value
  BY <1>1
<1>5. key \notin SystemNames
  OBVIOUS
<1> HIDE DEF s, n, key
<1>6. ASSUME NEW i \in 1..(n + 1) PROVE i \in 1..n \/ i = n + 1
  BY <1>1
<1>7. Kept(s, pairs, names, env2)
  <2>1. ASSUME NEW i \in 1..(n + 1), pairs[i].key \in names
        PROVE  pairs[i].key \in r.accepted \cup {key}
    BY <1>4, <1>6, <2>1 DEF Kept, StoryOf, n
  <2> QED BY <1>1, <1>2, <2>1 DEF Kept, StoryOf
<1>8. ASSUME solitude PROVE Undisturbed(s, pairs, env2)
  <2>1. Undisturbed(r, pairs, env)
    BY <1>8 DEF StoryOf
  <2>2. ASSUME NEW k \in s.accepted
        PROVE  /\ k \in DOMAIN env2 /\ k \notin SystemNames
               /\ \E i \in 1..(n + 1) : LastOf(n + 1, pairs, k, i) /\ env2[k] = pairs[i].value
    <3>1. CASE k = key
      <4>1. LastOf(n + 1, pairs, k, n + 1)
        BY <1>1, <1>4, <3>1 DEF LastOf
      <4> QED BY <1>1, <1>2, <1>4, <1>5, <3>1, <4>1
    <3>2. CASE k # key /\ k \in r.accepted
      <4>1. k \in DOMAIN env /\ k \notin SystemNames
        BY <2>1, <3>2 DEF Undisturbed
      <4>2. PICK i \in 1..n : LastOf(n, pairs, k, i) /\ env[k] = pairs[i].value
        BY <2>1, <3>2 DEF Undisturbed, n
      <4>3. LastOf(n + 1, pairs, k, i)
        BY <1>4, <1>6, <3>2, <4>2 DEF LastOf
      <4> QED BY <1>1, <1>2, <3>2, <4>1, <4>2, <4>3
    <3> QED BY <1>1, <3>1, <3>2
  <2>3. ASSUME NEW i \in 1..(n + 1), pairs[i].key \notin s.accepted \cup SystemNames
        PROVE  pairs[i].key \notin DOMAIN env2
    <3>1. pairs[i].key # key /\ pairs[i].key \notin r.accepted \cup SystemNames
      BY <1>1, <2>3
    <3>2. i \in 1..n
      BY <1>4, <1>6, <2>3, <3>1
    <3>3. pairs[i].key \notin DOMAIN env
      BY <2>1, <3>1, <3>2 DEF Undisturbed, n
    <3> QED BY <1>2, <3>1, <3>3
  <2>4. \A k \in s.accepted :
           /\ k \in DOMAIN env2 /\ k \notin SystemNames
           /\ \E i \in 1..Done(s, pairs) :
                LastOf(Done(s, pairs), pairs, k, i) /\ env2[k] = pairs[i].value
    BY <1>1, <2>2
  <2>5. \A i \in 1..Done(s, pairs) :
           pairs[i].key \notin s.accepted \cup SystemNames => pairs[i].key \notin DOMAIN env2
    BY <1>1, <2>3
  <2>6. s.pc # "size"
    BY <1>1
  <2> QED BY <1>1, <1>3, <2>4, <2>5, <2>6 DEF Undisturbed
<1> QED BY <1>1, <1>7, <1>8 DEF StoryOf, s, key

(* A render reads its template, its variables and the directory.           *)
LEMMA StoryOfReads ==
  ASSUME NEW r \in Request, NEW pairs, NEW names, NEW solitude, NEW env,
         StoryOf(r, pairs, names, solitude, env), NEW s \in Request,
         s.todo = r.todo, s.accepted = r.accepted, s.op = r.op,
         \/ r.pc = "template" /\ s.pc = "variables" /\ s.template = Found(env, Template)
         \/ /\ r.pc = "variables" /\ s.pc = "dir" /\ s.template = r.template
            /\ s.variables = Found(env, Variables)
         \/ /\ r.pc = "dir" /\ s.pc = "reply"
            /\ s.template = r.template /\ s.variables = r.variables
  PROVE  StoryOf(s, pairs, names, solitude, env)
<1>1. Done(s, pairs) = Done(r, pairs)
  BY DEF Done
<1>2. Told(s, pairs)
  BY <1>1 DEF Told, StoryOf
<1>3. Kept(s, pairs, names, env)
  BY <1>1 DEF Kept, StoryOf
<1>4. solitude => Undisturbed(s, pairs, env)
  BY <1>1 DEF Undisturbed, StoryOf
<1> QED BY <1>2, <1>3, <1>4 DEF StoryOf

(* DELETE /env leaves no name.                                             *)
LEMMA StoryOfClear ==
  ASSUME NEW r \in Request, NEW pairs, NEW names, NEW solitude, NEW env,
         StoryOf(r, pairs, names, solitude, env), r.pc = "clear", NEW env2
  PROVE  StoryOf([r EXCEPT !.pc = "reply"], pairs, {}, solitude, env2)
<1> DEFINE s == [r EXCEPT !.pc = "reply"]
<1>1. /\ s.pc = "reply" /\ s.todo = <<>> /\ s.accepted = {} /\ s.op # "render"
      /\ pairs = <<>>
  BY DEF StoryOf, Told, Request
<1>2. Done(s, pairs) = 0 /\ <<>> \in Seq(Pair) /\ Len(<<>>) = 0
  BY <1>1 DEF Done
<1> HIDE DEF s
<1>3. Told(s, pairs) /\ Kept(s, pairs, {}, env2) /\ Undisturbed(s, pairs, env2)
  BY <1>1, <1>2 DEF Told, Kept, Undisturbed
<1> QED BY <1>3 DEF StoryOf, s

---------------------------------------------------------------------------
(* The steps of the history.                                               *)

(* What HistoryNext keeps for a thread, in one of the three cases.         *)
LEMMA DuringIdle ==
  ASSUME HistoryNext, NEW t \in Threads, req'[t].pc = "idle"
  PROVE  asked'[t] = <<>> /\ known'[t] = {}
BY DEF HistoryNext, During

LEMMA DuringArrival ==
  ASSUME HistoryNext, NEW t \in Threads, req'[t].pc # "idle", At(t, "idle")
  PROVE  asked'[t] = req'[t].todo /\ known'[t] = Names
BY DEF HistoryNext, During

LEMMA DuringRequest ==
  ASSUME HistoryNext, NEW t \in Threads, req'[t].pc # "idle", ~At(t, "idle")
  PROVE  /\ asked'[t] = asked[t] /\ known'[t] = known[t] \cap Names'
         /\ alone'[t] = (alone[t] /\ (venv' = venv \/ req'[t] # req[t]))
BY DEF HistoryNext, During

(* A step of another thread.                                               *)
LEMMA OtherHistory ==
  ASSUME HistoryInv, HistoryNext, NEW t \in Threads, req'[t] = req[t]
  PROVE  StoryOf(req'[t], asked'[t], known'[t], alone'[t], venv')
<1>1. StoryOf(req[t], asked[t], known[t], alone[t], venv)
  BY DEF HistoryInv
<1>2. CASE At(t, "idle")
  <2>1. req[t].todo = <<>> /\ req[t].accepted = {} /\ req[t].op # "render"
    BY <1>1, <1>2 DEF StoryOf, Told, At
  <2>2. asked'[t] = <<>> /\ known'[t] = {}
    BY <1>2, DuringIdle DEF At
  <2> QED BY <1>2, <2>1, <2>2, StoryOfIdle DEF At
<1>3. CASE ~At(t, "idle")
  <2>1. /\ asked'[t] = asked[t] /\ known'[t] = known[t] \cap Names'
        /\ alone'[t] = (alone[t] /\ (venv' = venv \/ req'[t] # req[t]))
    BY <1>3, DuringRequest DEF At
  <2>2. known'[t] \subseteq known[t] \cap DOMAIN venv'
    BY <2>1 DEF Names
  <2>3. alone'[t] => alone[t] /\ venv' = venv
    BY <2>1
  <2> QED BY <1>1, <2>1, <2>2, <2>3, StoryOfOthers
<1> QED BY <1>2, <1>3

(* A step of its own, in a request.                                        *)
LEMMA OwnHistory ==
  ASSUME HistoryInv, HistoryNext, NEW t \in Threads, ~At(t, "idle"), req'[t].pc # "idle",
         NEW names, names \cap DOMAIN venv' = known[t] \cap DOMAIN venv',
         StoryOf(req'[t], asked[t], names, alone[t], venv')
  PROVE  StoryOf(req'[t], asked'[t], known'[t], alone'[t], venv')
<1>1. /\ asked'[t] = asked[t] /\ known'[t] = known[t] \cap Names'
      /\ alone'[t] => alone[t]
  BY DuringRequest
<1>2. known'[t] \subseteq names \cap DOMAIN venv'
  BY <1>1 DEF Names
<1> QED BY <1>1, <1>2, StoryOfOthers

(* A request that arrives.                                                 *)
LEMMA ArrivalHistory ==
  ASSUME HistoryInv, HistoryNext, NEW t \in Threads,
         ReceiveSet(t) \/ ReceiveCommand(t) \/ ReceiveRender(t) \/ ReceiveClear(t)
  PROVE  StoryOf(req'[t], asked'[t], known'[t], alone'[t], venv')
<1>1. ASSUME NEW op \in Ops, NEW pc \in {"member", "reply", "clear"}, NEW todo \in Seq(Pair),
             pc # "member" => todo = <<>>, pc = "clear" => op # "render",
             op = "render" =>
               Len(todo) >= 2 /\ todo[1].key = Template /\ todo[2].key = Variables,
             Receive(t, Asking(op, pc, todo))
      PROVE  StoryOf(req'[t], asked'[t], known'[t], alone'[t], venv')
  <2>1. At(t, "idle") /\ venv' = venv /\ req'[t] = Asking(op, pc, todo)
    BY <1>1 DEF Receive, HistoryInv, EnvInv, TypeOK
  <2>2. req'[t].pc # "idle" /\ req'[t].todo = todo
    BY <2>1 DEF Asking
  <2>3. asked'[t] = todo /\ known'[t] = DOMAIN venv'
    BY <2>1, <2>2, DuringArrival DEF Names
  <2> QED BY <1>1, <2>1, <2>3, StoryBegins
<1>2. CASE ReceiveSet(t)
  <2>1. PICK body \in Bodies : Receive(t, Asking("set", NextPc("set", body), body))
    BY <1>2 DEF ReceiveSet
  <2>2. /\ body \in Seq(Pair) /\ NextPc("set", body) \in {"member", "reply"}
        /\ NextPc("set", body) # "member" => body = <<>>
    BY BodiesAreSequences DEF NextPc
  <2> QED BY <1>1, <2>1, <2>2 DEF Ops
<1>3. CASE ReceiveCommand(t)
  <2>1. PICK body \in Bodies :
          Receive(t, Asking("command", "member",
                            <<[key |-> Template, value |-> Own],
                              [key |-> Variables, value |-> Own]>> \o body))
    BY <1>3 DEF ReceiveCommand
  <2> QED BY <1>1, <2>1, Preceded, KeysAssumption DEF Ops, Values
<1>4. CASE ReceiveRender(t)
  <2>1. PICK template \in Requested, variables \in Requested, body \in Bodies :
          Receive(t, Asking("render", "member",
                            <<[key |-> Template, value |-> template],
                              [key |-> Variables, value |-> variables]>> \o body))
    BY <1>4 DEF ReceiveRender
  <2> DEFINE pairs == <<[key |-> Template, value |-> template],
                        [key |-> Variables, value |-> variables]>> \o body
  <2>2. pairs \in Seq(Pair)
    BY Preceded, KeysAssumption DEF Values
  <2>3. Len(pairs) >= 2 /\ pairs[1].key = Template /\ pairs[2].key = Variables
    BY BodiesAreSequences
  <2> HIDE DEF pairs
  <2>4. Receive(t, Asking("render", "member", pairs))
    BY <2>1 DEF pairs
  <2> QED BY <1>1, <2>2, <2>3, <2>4 DEF Ops
<1>5. CASE ReceiveClear(t)
  <2>1. <<>> \in Seq(Pair)
    OBVIOUS
  <2> QED BY <1>1, <1>5, <2>1 DEF ReceiveClear, Ops
<1> QED BY <1>2, <1>3, <1>4, <1>5

(* The tests of set_env_var.                                               *)
LEMMA TestHistory ==
  ASSUME HistoryInv, HistoryNext, NEW t \in Threads, TestMember(t) \/ TestSize(t)
  PROVE  StoryOf(req'[t], asked'[t], known'[t], alone'[t], venv')
<1> USE DEF At
<1>1. /\ req \in [Threads -> Request] /\ req[t] \in Request /\ SoundRequest(req[t])
      /\ venv' = venv /\ req[t].pc \in {"member", "size"} /\ req[t].todo # <<>>
      /\ StoryOf(req[t], asked[t], known[t], alone[t], venv)
      /\ DOMAIN venv \cap (SystemNames \cup {NoKey}) = {}
  BY DEF HistoryInv, EnvInv, TypeOK, RequestsAreSound, SoundRequest, TestMember, TestSize,
         NothingShadowed, Names
<1>2. known[t] \subseteq DOMAIN venv
  BY <1>1 DEF StoryOf, Kept
<1>3. ASSUME NEW pc \in {"size", "write"}, Goto(t, pc),
             pc = "size" => Current(t).key \notin Names
      PROVE  StoryOf(req'[t], asked'[t], known'[t], alone'[t], venv')
  <2>1. req'[t] = [req[t] EXCEPT !.pc = pc]
    BY <1>1, <1>3 DEF Goto
  <2>2. StoryOf(req'[t], asked[t], known[t], alone[t], venv')
    <3>1. pc = "size" => Head(req[t].todo).key \notin DOMAIN venv
      BY <1>3 DEF Current, Names
    <3>2. StoryOf([req[t] EXCEPT !.pc = pc], asked[t], known[t], alone[t], venv)
      BY <1>1, <3>1, StoryOfTest
    <3> QED BY <1>1, <2>1, <3>2
  <2>3. req'[t].pc = pc
    BY <1>1, <2>1 DEF Request
  <2> QED BY <1>1, <2>2, <2>3, OwnHistory
<1>4. ASSUME Return(t, {}), Current(t).key \notin known[t],
             alone[t] => Current(t).key \notin DOMAIN venv
      PROVE  StoryOf(req'[t], asked'[t], known'[t], alone'[t], venv')
  <2>1. req'[t] = Returned(req[t], {})
    BY <1>1, <1>4 DEF Return, Returned
  <2>2. StoryOf(req'[t], asked[t], known[t], alone[t], venv')
    <3>1. /\ Head(req[t].todo).key \notin known[t]
          /\ alone[t] => Head(req[t].todo).key \notin DOMAIN venv
      BY <1>4 DEF Current
    <3>2. StoryOf(Returned(req[t], {}), asked[t], known[t], alone[t], venv)
      BY <1>1, <3>1, StoryOfRefusal
    <3> QED BY <1>1, <2>1, <3>2
  <2>3. req'[t].pc \in {"member", "template", "reply"}
    <3>1. Told(req[t], asked[t])
      BY <1>1 DEF StoryOf
    <3>2. Returned(req[t], {}).pc \in {"member", "template", "reply"}
      BY <1>1, <3>1, ReturnedFields
    <3> QED BY <2>1, <3>2
  <2> QED BY <1>1, <2>2, <2>3, OwnHistory
<1>5. CASE TestMember(t)
  <2>1. CASE Current(t).key \in SystemNames
    BY <1>1, <1>2, <1>4, <1>5, <2>1 DEF TestMember
  <2>2. CASE Current(t).key \notin SystemNames /\ Current(t).key \in Names
    BY <1>1, <1>3, <1>5, <2>2 DEF TestMember, Names
  <2>3. CASE Current(t).key \notin SystemNames /\ Current(t).key \notin Names
    BY <1>1, <1>3, <1>5, <2>3 DEF TestMember
  <2> QED BY <2>1, <2>2, <2>3
<1>6. CASE TestSize(t)
  <2>1. /\ Current(t).key \notin known[t]
        /\ alone[t] => Current(t).key \notin DOMAIN venv
    BY <1>1, <1>6 DEF TestSize, StoryOf, Kept, Undisturbed, Current
  <2> QED BY <1>3, <1>4, <1>6, <2>1 DEF TestSize
<1> QED BY <1>5, <1>6

(* The assignment.                                                         *)
LEMMA WriteHistory ==
  ASSUME HistoryInv, HistoryNext, NEW t \in Threads, Write(t)
  PROVE  StoryOf(req'[t], asked'[t], known'[t], alone'[t], venv')
<1>1. /\ req \in [Threads -> Request] /\ req[t] \in Request /\ req[t].pc = "write"
      /\ req[t].todo # <<>> /\ Current(t).key \notin SystemNames
      /\ StoryOf(req[t], asked[t], known[t], alone[t], venv)
  BY DEF HistoryInv, EnvInv, TypeOK, RequestsAreSound, SoundRequest, Write, At, Current
<1>2. req'[t] = Returned(req[t], {Current(t).key})
  BY <1>1 DEF Write, Return, Returned
<1>3. venv' = [k \in DOMAIN venv \cup {Current(t).key} |->
                 IF k = Current(t).key THEN Current(t).value ELSE venv[k]]
  BY DEF Write, Assign, Names
<1>4. StoryOf(req'[t], asked[t], known[t], alone[t], venv')
  <2>1. Head(req[t].todo).key \notin SystemNames
    BY <1>1 DEF Current
  <2>2. StoryOf(Returned(req[t], {Head(req[t].todo).key}), asked[t], known[t], alone[t], venv')
    BY <1>1, <1>3, <2>1, StoryOfWrite DEF Current
  <2> QED BY <1>2, <2>2 DEF Current
<1>5. req'[t].pc # "idle"
  <2>1. Told(req[t], asked[t])
    BY <1>1 DEF StoryOf
  <2>2. Returned(req[t], {Current(t).key}).pc \in {"member", "template", "reply"}
    BY <1>1, <2>1, ReturnedFields
  <2> QED BY <1>2, <2>2
<1> QED BY <1>1, <1>4, <1>5, OwnHistory DEF At

(* The rest of a request.                                                  *)
LEMMA EndHistory ==
  ASSUME HistoryInv, HistoryNext, NEW t \in Threads,
         \/ Clear(t) \/ Respond(t)
         \/ ReadTemplate(t) \/ ReadVariables(t) \/ ReadDir(t)
  PROVE  StoryOf(req'[t], asked'[t], known'[t], alone'[t], venv')
<1>1. /\ req \in [Threads -> Request] /\ req[t] \in Request
      /\ StoryOf(req[t], asked[t], known[t], alone[t], venv)
      /\ \A k : Lookup(k) = Found(venv, k)
      /\ \A k : Lookup(k) \in Values \cup {None}
  BY DEF HistoryInv, EnvInv, TypeOK, Lookup, Found, Names, Values
<1>2. CASE Clear(t)
  <2>1. req[t].pc = "clear" /\ req'[t] = [req[t] EXCEPT !.pc = "reply"] /\ DOMAIN venv' = {}
    BY <1>1, <1>2 DEF Clear, Goto, At
  <2>2. req'[t].pc = "reply"
    BY <1>1, <2>1 DEF Request
  <2>3. StoryOf(req'[t], asked[t], {}, alone[t], venv')
    BY <1>1, <2>1, StoryOfClear
  <2> QED BY <2>1, <2>2, <2>3, OwnHistory DEF At
<1>3. CASE Respond(t)
  <2>1. req'[t] = Idle
    BY <1>1, <1>3 DEF Respond
  <2>2. asked'[t] = <<>> /\ known'[t] = {}
    BY <2>1, DuringIdle DEF Idle, Asking
  <2> QED BY <2>1, <2>2, StoryOfIdle DEF Idle, Asking
<1>4. ASSUME NEW s \in Request, req'[t] = s, venv' = venv,
             s.todo = req[t].todo, s.accepted = req[t].accepted, s.op = req[t].op,
             \/ /\ req[t].pc = "template" /\ s.pc = "variables"
                /\ s.template = Found(venv, Template)
             \/ /\ req[t].pc = "variables" /\ s.pc = "dir" /\ s.template = req[t].template
                /\ s.variables = Found(venv, Variables)
             \/ /\ req[t].pc = "dir" /\ s.pc = "reply"
                /\ s.template = req[t].template /\ s.variables = req[t].variables
      PROVE  StoryOf(req'[t], asked'[t], known'[t], alone'[t], venv')
  <2>1. StoryOf(req'[t], asked[t], known[t], alone[t], venv')
    BY <1>1, <1>4, StoryOfReads
  <2> QED BY <1>4, <2>1, OwnHistory DEF At
<1>5. CASE ReadTemplate(t)
  <2> DEFINE s == [req[t] EXCEPT !.pc = "variables", !.template = Lookup(Template)]
  <2>1. /\ s \in Request /\ s.todo = req[t].todo /\ s.accepted = req[t].accepted
        /\ s.op = req[t].op /\ s.pc = "variables" /\ s.template = Found(venv, Template)
    BY <1>1 DEF Request, Pcs
  <2>2. req'[t] = s /\ venv' = venv /\ req[t].pc = "template"
    BY <1>1, <1>5 DEF ReadTemplate, At
  <2> QED BY <1>4, <2>1, <2>2
<1>6. CASE ReadVariables(t)
  <2> DEFINE s == [req[t] EXCEPT !.pc = "dir", !.variables = Lookup(Variables)]
  <2>1. /\ s \in Request /\ s.todo = req[t].todo /\ s.accepted = req[t].accepted
        /\ s.op = req[t].op /\ s.pc = "dir" /\ s.template = req[t].template
        /\ s.variables = Found(venv, Variables)
    BY <1>1 DEF Request, Pcs
  <2>2. req'[t] = s /\ venv' = venv /\ req[t].pc = "variables"
    BY <1>1, <1>6 DEF ReadVariables, At
  <2> QED BY <1>4, <2>1, <2>2
<1>7. CASE ReadDir(t)
  <2> DEFINE s == [req[t] EXCEPT !.pc = "reply", !.dir = Lookup(TemplatesDir)]
  <2>1. /\ s \in Request /\ s.todo = req[t].todo /\ s.accepted = req[t].accepted
        /\ s.op = req[t].op /\ s.pc = "reply" /\ s.template = req[t].template
        /\ s.variables = req[t].variables
    BY <1>1 DEF Request, Pcs
  <2>2. req'[t] = s /\ venv' = venv /\ req[t].pc = "dir"
    BY <1>1, <1>7 DEF ReadDir, At
  <2> QED BY <1>4, <2>1, <2>2
<1> QED BY <1>2, <1>3, <1>5, <1>6, <1>7

(* Every step keeps the invariant of the history.                          *)
LEMMA HistoryStep ==
  ASSUME HistoryInv, [HistoryNext]_historyVars
  PROVE  HistoryInv'
<1>1. CASE UNCHANGED historyVars
  <2>1. EnvInv'
    BY <1>1, EnvStep DEF historyVars, HistoryInv
  <2> QED BY <1>1, <2>1 DEF historyVars, vars, HistoryInv
<1>2. CASE HistoryNext
  <2>1. EnvInv'
    BY <1>2, EnvStep DEF HistoryNext, HistoryInv
  <2>2. ASSUME NEW t \in Threads
        PROVE  StoryOf(req'[t], asked'[t], known'[t], alone'[t], venv')
    <3>1. PICK u \in Threads :
            \/ ReceiveSet(u) \/ ReceiveCommand(u) \/ ReceiveRender(u) \/ ReceiveClear(u)
            \/ TestMember(u) \/ TestSize(u) \/ Write(u) \/ Clear(u)
            \/ ReadTemplate(u) \/ ReadVariables(u) \/ ReadDir(u)
            \/ Respond(u)
      BY <1>2 DEF HistoryNext, Next
    <3>2. CASE u = t
      BY <1>2, <3>1, <3>2, ArrivalHistory, TestHistory, WriteHistory, EndHistory
    <3>3. CASE u # t
      <4>1. req'[t] = req[t]
        <5>1. req \in [Threads -> Request]
          BY DEF HistoryInv, EnvInv, TypeOK
        <5> QED
          BY <3>1, <3>3, <5>1
             DEF ReceiveSet, ReceiveCommand, ReceiveRender, ReceiveClear, Receive, TestMember,
                 TestSize, Write, Clear, ReadTemplate, ReadVariables, ReadDir, Respond,
                 Return, Goto
      <4> QED BY <1>2, <4>1, OtherHistory
    <3> QED BY <3>2, <3>3
  <2>3. (\A t \in Threads : StoryOf(req[t], asked[t], known[t], alone[t], venv))'
    BY <2>2
  <2> QED BY <2>1, <2>3 DEF HistoryInv
<1> QED BY <1>1, <1>2

(* The invariant of the history holds when the agent has started.          *)
LEMMA HistoryStart ==
  ASSUME HistoryInit
  PROVE  HistoryInv
<1>1. EnvInv
  BY EnvInit DEF HistoryInit
<1>2. ASSUME NEW t \in Threads PROVE StoryOf(req[t], asked[t], known[t], alone[t], venv)
  <2>1. req[t] = Idle /\ asked[t] = <<>> /\ known[t] = {}
    BY DEF HistoryInit, Init
  <2>2. StoryOf(req[t], <<>>, {}, alone[t], venv)
    BY <2>1, StoryOfIdle DEF Idle, Asking
  <2> QED BY <2>1, <2>2
<1> QED BY <1>1, <1>2 DEF HistoryInv

(* The history of every request is that of set_env_var, for any number of  *)
(* threads and pairs: what is known all along is accepted, and a request   *)
(* that is alone finds what it has set.                                    *)
THEOREM HistoryInvariance == HistorySpec => []HistoryInv
<1>1. HistoryInv /\ [HistoryNext]_historyVars => HistoryInv'
  BY HistoryStep
<1> QED BY <1>1, HistoryStart, PTL DEF HistorySpec

(* An override is accepted, whatever the size of the environment: a pair   *)
(* whose name was set all the time is among the accepted ones of the       *)
(* answer to POST /env (set_env_var tests for the name before the size).   *)
THEOREM OverridesAreAccepted == HistorySpec => []OverridesAccepted
<1>1. ASSUME HistoryInv PROVE OverridesAccepted
  <2> SUFFICES ASSUME NEW t \in Threads, At(t, "reply"), NEW i \in DOMAIN asked[t],
                      asked[t][i].key \in known[t]
               PROVE  asked[t][i].key \in req[t].accepted
    BY DEF OverridesAccepted
  <2>1. Told(req[t], asked[t]) /\ Kept(req[t], asked[t], known[t], venv)
    BY <1>1 DEF HistoryInv, StoryOf
  <2>2. asked[t] \in Seq(Pair) /\ req[t].todo = <<>>
    BY <2>1 DEF Told, At
  <2>3. Done(req[t], asked[t]) = Len(asked[t]) /\ i \in 1..Len(asked[t])
    BY <2>2 DEF Done
  <2> QED BY <2>1, <2>3 DEF Kept
<1> QED BY <1>1, HistoryInvariance, PTL

(* The value that the pairs give to a name is that of its last pair.       *)
LEMMA ValueOfLast ==
  ASSUME NEW pairs \in Seq(Pair), NEW k, NEW i \in 1..Len(pairs), LastOf(Len(pairs), pairs, k, i)
  PROVE  ValueIn(pairs, k) = pairs[i].value
<1> DEFINE Last(j) == /\ pairs[j].key = k
                      /\ \A l \in DOMAIN pairs : pairs[l].key = k => l <= j
<1>1. DOMAIN pairs = 1..Len(pairs)
  OBVIOUS
<1>2. i \in DOMAIN pairs /\ Last(i)
  BY <1>1 DEF LastOf
<1>3. \A j \in DOMAIN pairs : Last(j) => j = i
  BY <1>1, <1>2
<1>4. (CHOOSE j \in DOMAIN pairs : Last(j)) = i
  BY <1>2, <1>3
<1> QED BY <1>4 DEF ValueIn

(* A render that no other request disturbs uses the template and the       *)
(* variables of its own URL and body, or none when there is no room.       *)
THEOREM LoneRendersAreTheirOwn == HistorySpec => []RenderIsItsOwn
<1>1. ASSUME HistoryInv PROVE RenderIsItsOwn
  <2> SUFFICES ASSUME NEW t \in Threads, req[t].op = "render", At(t, "reply"), alone[t]
               PROVE  /\ req[t].template = Rightful(t, Template)
                      /\ req[t].variables = Rightful(t, Variables)
    BY DEF RenderIsItsOwn
  <2>1. Told(req[t], asked[t]) /\ Undisturbed(req[t], asked[t], venv)
    BY <1>1 DEF HistoryInv, StoryOf
  <2>2. asked[t] \in Seq(Pair) /\ req[t].todo = <<>> /\ Len(asked[t]) >= 2
    BY <2>1 DEF Told, At
  <2>3. Done(req[t], asked[t]) = Len(asked[t]) /\ Len(asked[t]) \in Nat
    BY <2>2 DEF Done
  <2>4. ASSUME NEW k, NEW i \in {1, 2}, asked[t][i].key = k PROVE Found(venv, k) = Rightful(t, k)
    <3>1. CASE k \in SystemNames
      <4>1. k \notin DOMAIN venv
        BY <1>1, <3>1 DEF HistoryInv, EnvInv, NothingShadowed, Names
      <4> QED BY <3>1, <4>1 DEF Found, Rightful
    <3>2. CASE k \notin SystemNames /\ k \in req[t].accepted
      <4>1. PICK j \in 1..Len(asked[t]) :
              LastOf(Len(asked[t]), asked[t], k, j) /\ venv[k] = asked[t][j].value
        BY <2>1, <2>3, <3>2 DEF Undisturbed
      <4>2. k \in DOMAIN venv
        BY <2>1, <3>2 DEF Undisturbed
      <4>3. ValueIn(asked[t], k) = asked[t][j].value
        BY <2>2, <4>1, ValueOfLast
      <4> QED BY <3>2, <4>1, <4>2, <4>3 DEF Found, Rightful
    <3>3. CASE k \notin SystemNames /\ k \notin req[t].accepted
      <4>1. i \in 1..Len(asked[t])
        BY <2>2, <2>3
      <4>2. k \notin DOMAIN venv
        BY <2>1, <2>3, <2>4, <3>3, <4>1 DEF Undisturbed
      <4> QED BY <3>3, <4>2 DEF Found, Rightful
    <3> QED BY <3>1, <3>2, <3>3
  <2>5. /\ req[t].template = Found(venv, Template)
        /\ req[t].variables = Found(venv, Variables)
    BY <2>1 DEF Undisturbed, At
  <2>6. asked[t][1].key = Template /\ asked[t][2].key = Variables
    BY <2>1 DEF Told
  <2> QED BY <2>4, <2>5, <2>6
<1> QED BY <1>1, HistoryInvariance, PTL

=============================================================================
