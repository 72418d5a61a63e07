------------------------- MODULE FileTransferProofs -------------------------
(* Proofs about FileTransfer and the pipeline around its handlers, for any *)
(* number of request threads, folders, contents and ids.                   *)
EXTENDS FileTransfer, TLAPS

(* Where a request is once it has written its id, and both of its headers. *)
Tagged == {"check", "handle", "stamp", "log", "sent"}
Named == {"uri"} \cup Tagged

(* A header stays in the dictionary once a request has set it; while a     *)
(* request is alone, the dictionary and its response have its id.          *)
Alone(t) ==
  /\ \A u \in Threads \ {t} : http[u].at = "idle"
  /\ http[t].at \in Named => dumper["X-Request-ID"] = http[t].own
  /\ http[t].id \in {NoId, http[t].own}

PipelineInv ==
  /\ P!TypeOK
  /\ \A t \in Threads :
       /\ http[t].at # "idle" => http[t].own \in RequestIds
       /\ http[t].at \in Named => "X-Request-ID" \in DOMAIN dumper
       /\ http[t].at \in Tagged => DOMAIN dumper = P!Headers
       /\ http[t].alone => Alone(t)

(* What a step of FileTransfer does to the pipeline.                       *)
PipelineStep(t) ==
  \/ \E token \in Tokens \cup {NoToken}, docs \in BOOLEAN : P!Receive(t, token, docs)
  \/ P!SetRequestId(t) \/ P!SetRequestUri(t) \/ P!Admit(t) \/ P!Refuse(t)
  \/ P!Handled(t, 200) \/ P!Handled(t, 500)
  \/ P!Stamp(t) \/ P!LogResponse(t) \/ P!Respond(t)

LEMMA StepsOfThePipeline ==
  ASSUME [Next]_vars
  PROVE  (\E t \in Threads : PipelineStep(t)) \/ UNCHANGED <<dumper, http>>
<1>1. CASE UNCHANGED vars
  BY <1>1 DEF vars
<1>2. CASE Next
  <2>1. PICK t \in Threads : Receive(t) \/ Handle(t)
    BY <1>2 DEF Next
  <2>2. CASE Receive(t)
    BY <2>2 DEF Receive, PipelineStep
  <2>3. CASE P!Around(t)
    BY <2>3 DEF P!Around, PipelineStep
  <2>4. CASE UploadRefused(t) \/ UploadWrites(t) \/ UploadFails(t) \/ Download(t) \/ HandleOther(t)
    BY <2>4 DEF UploadRefused, UploadWrites, UploadFails, Download, HandleOther,
                Return, Raise, PipelineStep
  <2>5. CASE UploadOpens(t)
    BY <2>5 DEF UploadOpens, Share
  <2>6. CASE ZipFolder(t)
    <3>1. CASE FolderRefused(t) \/ EnterFails(t) \/ LeaveAfterFailure(t) \/ SendArchive(t)
      BY <3>1 DEF FolderRefused, EnterFails, LeaveAfterFailure, SendArchive, Raise, PipelineStep
    <3>2. CASE FolderBegins(t)
      BY <3>2 DEF FolderBegins, Share
    <3>3. CASE OpenArchive(t)
      BY <3>3 DEF OpenArchive
    <3>4. CASE EnterFolder(t) \/ AddFiles(t) \/ AddFails(t) \/ CloseArchive(t) \/ LeaveFolder(t)
      BY <3>4 DEF EnterFolder, AddFiles, AddFails, CloseArchive, LeaveFolder, Continue
    <3> QED BY <2>6, <3>1, <3>2, <3>3, <3>4 DEF ZipFolder
  <2>7. CASE ReadBody(t) \/ Respond(t)
    BY <2>7 DEF ReadBody, Respond, PipelineStep
  <2> QED BY <2>1, <2>2, <2>3, <2>4, <2>5, <2>6, <2>7 DEF Handle
<1> QED BY <1>1, <1>2

(* The pipeline's invariant is inductive.                                  *)
LEMMA PipelineInit ==
  ASSUME Init
  PROVE  PipelineInv
BY IdAssumption DEF Init, P!Init, PipelineInv, P!TypeOK, P!Request, P!Idle, P!Steps, P!Statuses,
   P!Headers, Named, Tagged

(* A request that another one joins keeps the rest of its record.          *)
LEMMA NotAlone ==
  ASSUME NEW r \in P!Request
  PROVE  /\ [r EXCEPT !.alone = FALSE] \in P!Request
         /\ [r EXCEPT !.alone = FALSE].at = r.at
         /\ [r EXCEPT !.alone = FALSE].own = r.own
         /\ [r EXCEPT !.alone = FALSE].id = r.id
         /\ [r EXCEPT !.alone = FALSE].alone = FALSE
BY DEF P!Request

(* What becomes of a request when it arrives, once its token has been      *)
(* read, once its handler is done, and once its response has an id.        *)
Arrived(id, token, docs, first) ==
  [P!Idle EXCEPT !.at = "tag", !.own = id, !.token = token, !.docs = docs, !.alone = first]
Read(q, step, status) == [q EXCEPT !.at = step, !.status = status, !.token = NoToken,
                                     !.docs = FALSE]
Done(q, status) == [q EXCEPT !.at = "stamp", !.status = status]
Stamped(q, id) == [q EXCEPT !.at = "log", !.id = id]

LEMMA ArrivedRequest ==
  ASSUME NEW id \in RequestIds, NEW token \in Tokens \cup {NoToken},
         NEW docs \in BOOLEAN, NEW first \in BOOLEAN
  PROVE  /\ Arrived(id, token, docs, first) \in P!Request
         /\ Arrived(id, token, docs, first).at = "tag"
         /\ Arrived(id, token, docs, first).own = id
         /\ Arrived(id, token, docs, first).id = NoId
         /\ Arrived(id, token, docs, first).alone = first
BY DEF Arrived, P!Request, P!Idle, P!Steps, P!Statuses

LEMMA ReadRequest ==
  ASSUME NEW q \in P!Request, NEW step \in P!Steps, NEW status \in P!Statuses
  PROVE  /\ Read(q, step, status) \in P!Request /\ Read(q, step, status).at = step
         /\ Read(q, step, status).own = q.own /\ Read(q, step, status).id = q.id
         /\ Read(q, step, status).alone = q.alone
BY DEF Read, P!Request

LEMMA DoneRequest ==
  ASSUME NEW q \in P!Request, NEW status \in P!Statuses
  PROVE  /\ Done(q, status) \in P!Request /\ Done(q, status).at = "stamp"
         /\ Done(q, status).own = q.own /\ Done(q, status).id = q.id
         /\ Done(q, status).alone = q.alone
BY DEF Done, P!Request, P!Steps

LEMMA StampedRequest ==
  ASSUME NEW q \in P!Request, NEW id \in RequestIds
  PROVE  /\ Stamped(q, id) \in P!Request /\ Stamped(q, id).at = "log"
         /\ Stamped(q, id).own = q.own /\ Stamped(q, id).id = id
         /\ Stamped(q, id).alone = q.alone
BY DEF Stamped, P!Request, P!Steps

(* A tagged request that moves on to another step keeps its id, or takes   *)
(* that of the dictionary.                                                 *)
LEMMA MovesOn ==
  ASSUME PipelineInv, NEW t \in Threads, NEW r \in P!Request,
         http[t].at \in Tagged, r.at \in Tagged,
         r.own = http[t].own, r.alone = http[t].alone,
         r.id \in {http[t].id, dumper["X-Request-ID"]},
         http' = [http EXCEPT ![t] = r], dumper' = dumper
  PROVE  PipelineInv'
<1>1. http \in [Threads -> P!Request]
  BY DEF PipelineInv, P!TypeOK
<1>2. P!TypeOK'
  BY <1>1 DEF PipelineInv, P!TypeOK
<1>3. http'[t] = r /\ \A u \in Threads \ {t} : http'[u] = http[u]
  BY <1>1
<1>4. ASSUME NEW u \in Threads
      PROVE  (/\ http[u].at # "idle" => http[u].own \in RequestIds
              /\ http[u].at \in Named => "X-Request-ID" \in DOMAIN dumper
              /\ http[u].at \in Tagged => DOMAIN dumper = P!Headers
              /\ http[u].alone => Alone(u))'
  <2>1. CASE u = t
    BY <1>3, <2>1 DEF PipelineInv, Alone, Named, Tagged
  <2>2. CASE u # t
    BY <1>3, <2>2 DEF PipelineInv, Alone, Named, Tagged
  <2> QED BY <2>1, <2>2
<1> QED BY <1>2, <1>4 DEF PipelineInv

LEMMA PipelinePreserved ==
  ASSUME PipelineInv, [Next]_vars
  PROVE  PipelineInv'
<1> USE DEF P!At, P!Goto, P!Headers, P!Steps, P!Statuses, P!Request
<1>1. CASE UNCHANGED <<dumper, http>>
  BY <1>1 DEF PipelineInv, P!TypeOK, Alone
<1>2. CASE \E t \in Threads : PipelineStep(t)
  <2>1. PICK t \in Threads : PipelineStep(t)
    BY <1>2
  <2>2. ASSUME NEW token \in Tokens \cup {NoToken}, NEW docs \in BOOLEAN, P!Receive(t, token, docs)
        PROVE  PipelineInv'
    <3> HIDE DEF P!Request, P!Steps, P!Statuses, P!Headers
    <3>1. PICK id \in RequestIds :
            http' = [u \in Threads |->
                       IF u = t THEN [P!Idle EXCEPT !.at = "tag", !.own = id, !.token = token,
                                        !.docs = docs, !.alone = \A v \in Threads : ~P!Busy(v)]
                       ELSE [http[u] EXCEPT !.alone = FALSE]]
      BY <2>2 DEF P!Receive, P!FreshIds
    <3>2. dumper' = dumper
      BY <2>2 DEF P!Receive
    <3>3. /\ http'[t] \in P!Request
          /\ http'[t].at = "tag" /\ http'[t].own = id /\ http'[t].id = NoId
          /\ http'[t].alone => \A u \in Threads : http[u].at = "idle"
      <4> DEFINE first == \A v \in Threads : ~P!Busy(v)
      <4>1. /\ first \in BOOLEAN
            /\ first => \A u \in Threads : http[u].at = "idle"
        BY DEF P!Busy
      <4> HIDE DEF first
      <4>2. http'[t] = Arrived(id, token, docs, first)
        BY <3>1 DEF first, Arrived
      <4> QED BY <4>1, <4>2, ArrivedRequest
    <3>4. ASSUME NEW u \in Threads \ {t}
          PROVE  /\ http'[u] \in P!Request
                 /\ http'[u].at = http[u].at /\ http'[u].own = http[u].own
                 /\ http'[u].alone = FALSE
      <4>1. http'[u] = [http[u] EXCEPT !.alone = FALSE]
        BY <3>1
      <4>2. http[u] \in P!Request
        BY DEF PipelineInv, P!TypeOK
      <4> QED BY <4>1, <4>2, NotAlone
    <3>5. http' \in [Threads -> P!Request]
      <4>1. DOMAIN http' = Threads /\ http' = [u \in Threads |-> http'[u]]
        BY <3>1
      <4>2. \A u \in Threads : http'[u] \in P!Request
        <5>1. TAKE u \in Threads
        <5>2. CASE u = t
          BY <3>3, <5>2
        <5>3. CASE u # t
          BY <3>4, <5>3
        <5> QED BY <5>2, <5>3
      <4> QED BY <4>1, <4>2
    <3>6. P!TypeOK'
      BY <3>2, <3>5 DEF PipelineInv, P!TypeOK
    <3>7. ASSUME NEW u \in Threads
          PROVE  (/\ http[u].at # "idle" => http[u].own \in RequestIds
                  /\ http[u].at \in Named => "X-Request-ID" \in DOMAIN dumper
                  /\ http[u].at \in Tagged => DOMAIN dumper = P!Headers
                  /\ http[u].alone => Alone(u))'
      <4>1. CASE u = t
        <5>1. \A v \in Threads \ {t} : http'[v].alone = FALSE /\ http'[v].at = http[v].at
          BY <3>4
        <5> QED BY <3>3, <5>1, <4>1 DEF Alone, Named, Tagged
      <4>2. CASE u # t
        BY <3>2, <3>4, <4>2 DEF PipelineInv, Named, Tagged
      <4> QED BY <4>1, <4>2
    <3> QED BY <3>6, <3>7 DEF PipelineInv
  <2>3. CASE P!SetRequestId(t)
    <3>1. P!TypeOK'
      BY <2>3 DEF P!SetRequestId, P!SetHeader, PipelineInv, P!TypeOK
    <3>2. /\ DOMAIN dumper' = DOMAIN dumper \cup {"X-Request-ID"}
          /\ dumper'["X-Request-ID"] = http[t].own
          /\ http' = [http EXCEPT ![t].at = "uri"]
          /\ http[t].at = "tag"
      BY <2>3 DEF P!SetRequestId, P!SetHeader
    <3> QED BY <3>1, <3>2 DEF PipelineInv, P!TypeOK, Alone, Named, Tagged
  <2>4. CASE P!SetRequestUri(t)
    <3>1. P!TypeOK'
      BY <2>4 DEF P!SetRequestUri, P!SetHeader, PipelineInv, P!TypeOK
    <3>2. /\ DOMAIN dumper' = DOMAIN dumper \cup {"Request-Uri"}
          /\ "X-Request-ID" \in DOMAIN dumper =>
                dumper'["X-Request-ID"] = dumper["X-Request-ID"]
          /\ http' = [http EXCEPT ![t].at = "check"]
          /\ http[t].at = "uri"
      BY <2>4 DEF P!SetRequestUri, P!SetHeader
    <3> QED BY <3>1, <3>2 DEF PipelineInv, P!TypeOK, Alone, Named, Tagged
  <2>5. CASE P!Admit(t) \/ P!Refuse(t)
    <3>1. PICK step \in {"handle", "stamp"}, status \in P!Statuses :
            /\ http[t].at = "check"
            /\ http' = [http EXCEPT ![t] = Read(http[t], step, status)]
            /\ dumper' = dumper
      BY <2>5 DEF P!Admit, P!Refuse, P!Checked, Read
    <3>2. http[t] \in P!Request /\ step \in P!Steps
      BY DEF PipelineInv, P!TypeOK
    <3> HIDE DEF P!Request, P!Steps, P!Statuses
    <3> QED BY <3>1, <3>2, ReadRequest, MovesOn DEF Tagged
  <2>6. CASE P!Handled(t, 200) \/ P!Handled(t, 500)
    <3>1. PICK status \in P!Statuses :
            /\ http[t].at = "handle"
            /\ http' = [http EXCEPT ![t] = Done(http[t], status)]
            /\ dumper' = dumper
      BY <2>6 DEF P!Handled, Done
    <3>2. http[t] \in P!Request
      BY DEF PipelineInv, P!TypeOK
    <3> HIDE DEF P!Request, P!Steps, P!Statuses
    <3> QED BY <3>1, <3>2, DoneRequest, MovesOn DEF Tagged
  <2>7. CASE P!Stamp(t)
    <3>1. /\ http[t].at = "stamp"
          /\ http' = [http EXCEPT ![t] = Stamped(http[t], dumper["X-Request-ID"])]
          /\ dumper' = dumper
      BY <2>7 DEF P!Stamp, Stamped
    <3>2. http[t] \in P!Request /\ dumper["X-Request-ID"] \in RequestIds
      BY <3>1 DEF PipelineInv, P!TypeOK, Named, Tagged
    <3> HIDE DEF P!Request, P!Steps, P!Statuses
    <3> QED BY <3>1, <3>2, StampedRequest, MovesOn DEF Tagged
  <2>8. CASE P!LogResponse(t)
    BY <2>8 DEF P!LogResponse, PipelineInv, P!TypeOK, Alone, Named, Tagged
  <2>9. CASE P!Respond(t)
    BY <2>9, IdAssumption DEF P!Respond, P!Idle, PipelineInv, P!TypeOK, Alone, Named, Tagged
  <2>10. CASE \E token \in Tokens \cup {NoToken}, docs \in BOOLEAN : P!Receive(t, token, docs)
    <3>1. PICK token \in Tokens \cup {NoToken}, docs \in BOOLEAN : P!Receive(t, token, docs)
      BY <2>10, Zenon
    <3> QED BY <3>1, <2>2, Zenon
  <2> QED BY <2>1, <2>3, <2>4, <2>5, <2>6, <2>7, <2>8, <2>9, <2>10, Zenon DEF PipelineStep
<1> QED BY <1>1, <1>2, StepsOfThePipeline

(* The dictionary of headers does not grow while a request logs            *)
(* (message_dumper.py, dump), however many requests are in the pipeline.   *)
THEOREM DumpsAreUndisturbed == Spec => []DumpIsNeverDisturbed
<1>1. PipelineInv => DumpIsNeverDisturbed
  BY DEF PipelineInv, DumpIsNeverDisturbed, P!DumpIsNeverDisturbed, P!At, Tagged
<1> QED BY <1>1, PipelineInit, PipelinePreserved, PTL DEF Spec

(* A request that has the agent to itself gets its own id back             *)
(* (before_request, after_request).                                        *)
THEOREM LoneRequestsKeepTheirId == Spec => []LoneResponseHasItsId
<1>1. PipelineInv => LoneResponseHasItsId
  BY DEF PipelineInv, Alone, LoneResponseHasItsId, P!LoneResponseHasItsId
<1> QED BY <1>1, PipelineInit, PipelinePreserved, PTL DEF Spec

---------------------------------------------------------------------------
(* The handlers of files: their invariant has one conjunct for each of the *)
(* things that requests share.                                             *)

Entered == {"open", "add", "close", "leave", "failed", "send", "sent"}

(* A handler works while its request is at "handle", and leaves a record   *)
(* of its archive behind until the response is gone.                       *)
HandlerIsSound(t) ==
  LET w == work[t] IN
  /\ w.pc = "start" => w = NoWork
  /\ w.pc \notin {"start", "sent"} => http[t].at = "handle"
  /\ w.pc = "sent" => http[t].at \in {"stamp", "log", "sent"}
  /\ w.pc = "write" => w.asked \in Values /\ w.target \in Dirs
  /\ w.pc = "enter" => w.asked \in Dirs \cup {NotFolder}
  /\ w.pc \in Entered => w.asked \in Dirs
  /\ w.pc \notin {"start", "write", "sent"} => w.saved \in Dirs
  /\ w.pc = "close" => w.target \in Dirs

(* Who meets another one knows it.                                         *)
MeetingIsSeen(t, u) ==
  /\ {t, u} \subseteq Zipping => work[t].shared /\ tangled
  /\ work[t].pc = "write" /\ work[u].pc = "write" /\ work[t].target = work[u].target =>
       work[t].shared

(* Who zips alone returns to where the agent was started.                  *)
ReturnIsHome ==
  ~tangled => \A t \in Zipping : work[t].pc # "sent" => work[t].saved = Home

(* What a request that zips alone finds in the working directory, in the   *)
(* archive and in its response.                                            *)
ArchiveIsSound(t) ==
  LET w == work[t] IN
  t \in Zipping /\ ~w.shared =>
    /\ w.pc \in {"open", "add"} => cwd = w.asked
    /\ w.pc \in {"add", "close"} => ~w.crossed
    /\ w.pc = "close" => w.target = w.asked
    /\ w.pc \in {"leave", "send"} => zip = Whole(w.asked)
    /\ w.pc = "sent" /\ http[t].at # "sent" => zip = Whole(w.asked)
    /\ w.pc = "sent" /\ http[t].at = "sent" => w.body = Whole(w.asked)

(* A file that one request alone has open is as that one has opened it.    *)
UploadIsSound(t) ==
  work[t].pc = "write" /\ ~work[t].shared => disk[work[t].target] = Partial

FilesInv ==
  /\ TypeOK
  /\ \A t \in Threads : HandlerIsSound(t) /\ ArchiveIsSound(t) /\ UploadIsSound(t)
  /\ \A t, u \in Threads : t # u => MeetingIsSeen(t, u)
  /\ ReturnIsHome
  /\ AgentReturnsHome
  /\ LastUploadIsThere

(* Where the step of a request in the pipeline leads from and to.          *)
Moves(t, from, to) ==
  /\ http[t].at \in from /\ http'[t].at \in to
  /\ \A u \in Threads \ {t} : http'[u].at = http[u].at

LEMMA PipelineMoves ==
  ASSUME PipelineInv, NEW t \in Threads
  PROVE  /\ \A token, docs : P!Receive(t, token, docs) => Moves(t, {"idle"}, {"tag"})
         /\ P!Around(t) => \/ Moves(t, {"tag", "uri", "check"}, P!Steps)
                           \/ Moves(t, {"stamp"}, {"log"})
         /\ \A status : P!Handled(t, status) => Moves(t, {"handle"}, {"stamp"})
         /\ P!LogResponse(t) => Moves(t, {"log"}, {"sent"})
         /\ P!Respond(t) => Moves(t, {"sent"}, {"idle"})
<1> USE DEF P!At, P!Goto, Moves
<1>1. http \in [Threads -> P!Request]
  BY DEF PipelineInv, P!TypeOK
<1>2. ASSUME NEW token, NEW docs, P!Receive(t, token, docs)
      PROVE  Moves(t, {"idle"}, {"tag"})
  <2>1. PICK id \in RequestIds :
          http' = [u \in Threads |->
                     IF u = t THEN [P!Idle EXCEPT !.at = "tag", !.own = id, !.token = token,
                                      !.docs = docs, !.alone = \A v \in Threads : ~P!Busy(v)]
                     ELSE [http[u] EXCEPT !.alone = FALSE]]
    BY <1>2 DEF P!Receive, P!FreshIds
  <2>2. http'[t].at = "tag"
    BY <2>1 DEF P!Idle
  <2>3. ASSUME NEW u \in Threads \ {t}
        PROVE  http'[u].at = http[u].at
    <3>1. http'[u] = [http[u] EXCEPT !.alone = FALSE]
      BY <2>1
    <3>2. http[u] \in P!Request
      BY <1>1
    <3> QED BY <3>1, <3>2, NotAlone
  <2> QED BY <1>2, <2>2, <2>3 DEF P!Receive
<1>3. ASSUME P!SetRequestId(t) \/ P!SetRequestUri(t) \/ P!LogResponse(t)
      PROVE  /\ P!SetRequestId(t) \/ P!SetRequestUri(t) =>
                  Moves(t, {"tag", "uri", "check"}, P!Steps)
             /\ P!LogResponse(t) => Moves(t, {"log"}, {"sent"})
  BY <1>1, <1>3 DEF P!SetRequestId, P!SetRequestUri, P!LogResponse, P!Request, P!Steps
<1>4. ASSUME P!Admit(t) \/ P!Refuse(t)
      PROVE  Moves(t, {"tag", "uri", "check"}, P!Steps)
  <2>1. PICK step \in {"handle", "stamp"}, status \in P!Statuses :
          /\ http[t].at = "check"
          /\ http' = [http EXCEPT ![t] = Read(http[t], step, status)]
    BY <1>4 DEF P!Admit, P!Refuse, P!Checked, Read, P!Statuses
  <2>2. http[t] \in P!Request
    BY <1>1
  <2>3. Read(http[t], step, status).at = step
    BY <2>2 DEF Read, P!Request
  <2> QED BY <1>1, <2>1, <2>3 DEF P!Steps
<1>5. ASSUME NEW status, P!Handled(t, status)
      PROVE  Moves(t, {"handle"}, {"stamp"})
  <2>1. /\ http[t].at = "handle"
        /\ http' = [http EXCEPT ![t] = Done(http[t], status)]
    BY <1>5 DEF P!Handled, Done
  <2>2. Done(http[t], status).at = "stamp"
    BY <1>1 DEF Done, P!Request
  <2> QED BY <1>1, <2>1, <2>2
<1>6. ASSUME P!Stamp(t)
      PROVE  Moves(t, {"stamp"}, {"log"})
  <2>1. /\ http[t].at = "stamp"
        /\ http' = [http EXCEPT ![t] = Stamped(http[t], dumper["X-Request-ID"])]
    BY <1>6 DEF P!Stamp, Stamped
  <2>2. Stamped(http[t], dumper["X-Request-ID"]).at = "log"
    BY <1>1 DEF Stamped, P!Request
  <2> QED BY <1>1, <2>1, <2>2
<1>7. ASSUME P!Respond(t)
      PROVE  Moves(t, {"sent"}, {"idle"})
  BY <1>1, <1>7 DEF P!Respond, P!Idle
<1> HIDE DEF Moves
<1> QED BY <1>2, <1>3, <1>4, <1>5, <1>6, <1>7 DEF P!Around

(* What becomes of the record of a handler: it is replaced, or it is       *)
(* replaced and those it meets are told.                                   *)
LEMMA WorkReplaced ==
  ASSUME work \in [Threads -> Work], NEW t \in Threads, NEW w \in Work,
         work' = [work EXCEPT ![t] = w]
  PROVE  /\ work' \in [Threads -> Work]
         /\ work'[t] = w
         /\ \A u \in Threads \ {t} : work'[u] = work[u]
BY DEF Work

Marked(v, w) ==
  /\ v.pc = w.pc /\ v.asked = w.asked /\ v.target = w.target /\ v.saved = w.saved
  /\ v.body = w.body /\ v.crossed = w.crossed

LEMMA SharedMarked ==
  ASSUME NEW w \in Work, NEW b \in BOOLEAN
  PROVE  /\ [w EXCEPT !.shared = b] \in Work
         /\ Marked([w EXCEPT !.shared = b], w)
         /\ [w EXCEPT !.shared = b].shared = b
BY DEF Work, Marked

LEMMA WorkShared ==
  ASSUME work \in [Threads -> Work], NEW t \in Threads, NEW w \in Work,
         NEW others \in SUBSET Threads, t \notin others, Share(t, w, others)
  PROVE  /\ work' \in [Threads -> Work]
         /\ Marked(work'[t], w) /\ work'[t].shared = (others # {})
         /\ \A u \in others : Marked(work'[u], work[u]) /\ work'[u].shared
         /\ \A u \in Threads \ {t} : u \notin others => work'[u] = work[u]
<1> DEFINE met == others # {}
<1>1. met \in BOOLEAN
  OBVIOUS
<1> HIDE DEF met
<1>2. work' = [u \in Threads |->
                 CASE u = t -> [w EXCEPT !.shared = met]
                   [] u \in others -> [work[u] EXCEPT !.shared = TRUE]
                   [] OTHER -> work[u]]
  BY DEF Share, met
<1>3. work'[t] = [w EXCEPT !.shared = met]
  BY <1>2
<1>4. ASSUME NEW u \in others
      PROVE  Marked(work'[u], work[u]) /\ work'[u].shared /\ work'[u] \in Work
  <2>1. work'[u] = [work[u] EXCEPT !.shared = TRUE]
    BY <1>2
  <2>2. work[u] \in Work
    OBVIOUS
  <2> QED BY <2>1, <2>2, SharedMarked
<1>5. ASSUME NEW u \in Threads \ {t}, u \notin others
      PROVE  work'[u] = work[u] /\ work[u] \in Work
  BY <1>2, <1>5
<1>6. Marked(work'[t], w) /\ work'[t].shared = met /\ work'[t] \in Work
  BY <1>1, <1>3, SharedMarked
<1>7. work' \in [Threads -> Work]
  <2>1. \A u \in Threads : work'[u] \in Work
    BY <1>4, <1>5, <1>6
  <2>2. work' = [u \in Threads |-> work'[u]]
    BY <1>2
  <2> QED BY <2>1, <2>2
<1> QED BY <1>4, <1>5, <1>6, <1>7 DEF met

LEMMA NoWorkIsWork == NoWork \in Work
BY DEF NoWork, Work, Pcs, Archive

---------------------------------------------------------------------------
(* What a handler leaves of the rest: everything but the files.            *)
LEMMA QuietSteps ==
  ASSUME FilesInv, PipelineInv', NEW t \in Threads, UNCHANGED <<work, files>>,
         \/ work[t].pc = "start" /\ Moves(t, P!Steps, P!Steps)
         \/ Moves(t, {"stamp"}, {"log"})
  PROVE  FilesInv'
<1>1. TypeOK'
  BY DEF FilesInv, TypeOK, PipelineInv, files
<1>2. \A u \in Threads : HandlerIsSound(u)' /\ ArchiveIsSound(u)' /\ UploadIsSound(u)'
  <2> SUFFICES ASSUME NEW u \in Threads
               PROVE  HandlerIsSound(u)' /\ ArchiveIsSound(u)' /\ UploadIsSound(u)'
    OBVIOUS
  <2>1. HandlerIsSound(u)'
    BY DEF FilesInv, HandlerIsSound, Moves
  <2>2. ArchiveIsSound(u)'
    BY DEF FilesInv, ArchiveIsSound, HandlerIsSound, Moves, Zipping, files, NoWork
  <2>3. UploadIsSound(u)'
    BY DEF FilesInv, UploadIsSound, files
  <2> QED BY <2>1, <2>2, <2>3
<1>3. \A u, v \in Threads : u # v => MeetingIsSeen(u, v)'
  BY DEF FilesInv, MeetingIsSeen, Zipping, files
<1>4. ReturnIsHome' /\ AgentReturnsHome'
  BY DEF FilesInv, ReturnIsHome, AgentReturnsHome, Zipping, files
<1>5. LastUploadIsThere'
  BY DEF FilesInv, LastUploadIsThere, Writing, files
<1> QED BY <1>1, <1>2, <1>3, <1>4, <1>5 DEF FilesInv

(* Uploads.                                                                *)
LEMMA UploadOpensPreserves ==
  ASSUME FilesInv, PipelineInv', NEW t \in Threads, UploadOpens(t)
  PROVE  FilesInv'
<1>1. work \in [Threads -> Work] /\ disk \in [Dirs -> File]
  BY DEF FilesInv, TypeOK
<1>2. PICK d \in Dirs, value \in Values :
        /\ disk' = [disk EXCEPT ![d] = Partial]
        /\ Share(t, [NoWork EXCEPT !.pc = "write", !.asked = value, !.target = d], Writing(d))
  BY PathAssumption DEF UploadOpens, FilesInv, TypeOK, Resolve, Dirs
<1> DEFINE w == [NoWork EXCEPT !.pc = "write", !.asked = value, !.target = d]
<1>3. w \in Work /\ w.pc = "write" /\ w.asked = value /\ w.target = d
  BY DEF NoWork, Work, Pcs, Archive
<1>4. work[t] = NoWork /\ work[t].pc = "start" /\ http[t].at = "handle" /\ t \notin Writing(d)
  BY DEF UploadOpens, Doing, P!At, FilesInv, HandlerIsSound, Writing
<1>5. /\ work' \in [Threads -> Work]
      /\ Marked(work'[t], w) /\ work'[t].shared = (Writing(d) # {})
      /\ \A u \in Writing(d) : Marked(work'[u], work[u]) /\ work'[u].shared
      /\ \A u \in Threads \ {t} : u \notin Writing(d) => work'[u] = work[u]
  <2>1. Writing(d) \in SUBSET Threads
    BY DEF Writing
  <2>2. Share(t, w, Writing(d))
    BY <1>2
  <2> HIDE DEF w
  <2> QED BY <1>1, <1>3, <1>4, <2>1, <2>2, WorkShared
<1>6. UNCHANGED <<dumper, http, cwd, zip, landed, tangled>>
  BY <1>2 DEF UploadOpens, Share
<1> HIDE DEF w
<1>7. TypeOK'
  BY <1>1, <1>2, <1>5, <1>6 DEF FilesInv, TypeOK, PipelineInv, File
<1>8. ASSUME NEW u \in Threads
      PROVE  HandlerIsSound(u)' /\ ArchiveIsSound(u)' /\ UploadIsSound(u)'
  <2>1. CASE u = t
    BY <1>1, <1>2, <1>3, <1>4, <1>5, <1>6, <2>1
       DEF HandlerIsSound, ArchiveIsSound, UploadIsSound, Marked, Zipping, Entered
  <2>2. CASE u # t
    BY <1>1, <1>2, <1>5, <1>6, <2>2
       DEF FilesInv, HandlerIsSound, ArchiveIsSound, UploadIsSound, Marked, Zipping, Writing, NoWork
  <2> QED BY <2>1, <2>2
<1>9. ASSUME NEW u \in Threads, NEW v \in Threads, u # v
      PROVE  MeetingIsSeen(u, v)'
  <2>1. CASE u = t
    <3>1. work'[t].pc = "write" /\ work'[t].target = d
      BY <1>3, <1>5 DEF Marked
    <3>2. work'[v].pc = "write" /\ work'[v].target = d => v \in Writing(d)
      BY <1>5, <1>9, <2>1 DEF Marked, Writing
    <3> QED BY <1>5, <2>1, <3>1, <3>2 DEF MeetingIsSeen, Zipping
  <2>2. CASE v = t
    <3>1. work'[t].pc = "write" /\ work'[t].target = d
      BY <1>3, <1>5 DEF Marked
    <3>2. work'[u].pc = "write" /\ work'[u].target = d => u \in Writing(d)
      BY <1>5, <1>9, <2>2 DEF Marked, Writing
    <3> QED BY <1>5, <2>2, <3>1, <3>2 DEF MeetingIsSeen, Zipping
  <2>3. CASE u # t /\ v # t
    <3>1. /\ work'[u].pc = work[u].pc /\ work'[u].target = work[u].target
          /\ work'[v].pc = work[v].pc /\ work'[v].target = work[v].target
          /\ work[u].shared => work'[u].shared
      BY <1>5, <2>3 DEF Marked
    <3> QED BY <1>6, <1>9, <3>1 DEF FilesInv, MeetingIsSeen, Zipping
  <2> QED BY <2>1, <2>2, <2>3
<1>10. ReturnIsHome' /\ AgentReturnsHome'
  BY <1>3, <1>4, <1>5, <1>6
     DEF FilesInv, ReturnIsHome, AgentReturnsHome, Marked, Zipping, Writing
<1>11. LastUploadIsThere'
  <2> SUFFICES ASSUME NEW e \in Dirs, Writing(e)' = {}, (landed[e] # Nothing)'
               PROVE  (disk[e] = Whole(landed[e]))'
    BY DEF LastUploadIsThere
  <2>1. e # d
    BY <1>3, <1>5 DEF Marked, Writing
  <2>2. Writing(e) = {}
    BY <1>4, <1>5 DEF Marked, Writing
  <2> QED BY <1>1, <1>2, <1>6, <2>1, <2>2 DEF FilesInv, LastUploadIsThere
<1> QED BY <1>7, <1>8, <1>9, <1>10, <1>11 DEF FilesInv

LEMMA UploadEndsPreserves ==
  ASSUME FilesInv, PipelineInv, PipelineInv', NEW t \in Threads, UploadWrites(t) \/ UploadFails(t)
  PROVE  FilesInv'
<1>1. work \in [Threads -> Work] /\ disk \in [Dirs -> File]
  BY DEF FilesInv, TypeOK
<1>2. work[t].pc = "write" /\ work[t].target \in Dirs /\ work[t].asked \in Values
  BY DEF UploadWrites, UploadFails, Doing, FilesInv, HandlerIsSound
<1>3. Moves(t, {"handle"}, {"stamp"}) /\ work' = [work EXCEPT ![t] = NoWork]
  BY PipelineMoves DEF UploadWrites, UploadFails, Return, Raise
<1>4. /\ work' \in [Threads -> Work] /\ work'[t] = NoWork
      /\ \A u \in Threads \ {t} : work'[u] = work[u]
  BY <1>1, <1>3, NoWorkIsWork, WorkReplaced
<1>5. UNCHANGED <<cwd, zip, tangled>>
  BY DEF UploadWrites, UploadFails
<1>6. /\ disk' \in [Dirs -> File] /\ landed' \in [Dirs -> Values \cup {Nothing}]
      /\ \A d \in Dirs \ {work[t].target} : disk'[d] = disk[d] /\ landed'[d] = landed[d]
      /\ ~work[t].shared /\ landed'[work[t].target] # Nothing =>
           disk'[work[t].target] = Whole(landed'[work[t].target])
      /\ work[t].shared => landed'[work[t].target] = Nothing
  <2>1. CASE UploadWrites(t)
    BY <1>1, <1>2, <2>1 DEF UploadWrites, Filled, FilesInv, TypeOK, File, UploadIsSound
  <2>2. CASE UploadFails(t)
    BY <1>1, <1>2, <2>2 DEF UploadFails, FilesInv, TypeOK
  <2> QED BY <2>1, <2>2
<1>7. TypeOK'
  BY <1>4, <1>5, <1>6 DEF FilesInv, TypeOK, PipelineInv
<1>8. ASSUME NEW u \in Threads
      PROVE  HandlerIsSound(u)' /\ ArchiveIsSound(u)' /\ UploadIsSound(u)'
  <2>1. CASE u = t
    BY <1>4, <2>1
       DEF HandlerIsSound, ArchiveIsSound, UploadIsSound, Zipping, Entered, NoWork
  <2>2. CASE u # t
    <3>1. HandlerIsSound(u)' /\ ArchiveIsSound(u)'
      BY <1>3, <1>4, <1>5, <2>2
         DEF FilesInv, HandlerIsSound, ArchiveIsSound, Zipping, Moves
    <3>2. UploadIsSound(u)'
      BY <1>2, <1>4, <1>6, <2>2 DEF FilesInv, HandlerIsSound, UploadIsSound, MeetingIsSeen
    <3> QED BY <3>1, <3>2
  <2> QED BY <2>1, <2>2
<1>9. \A u, v \in Threads : u # v => MeetingIsSeen(u, v)'
  BY <1>4, <1>5 DEF FilesInv, MeetingIsSeen, Zipping, NoWork
<1>10. ReturnIsHome' /\ AgentReturnsHome'
  BY <1>2, <1>4, <1>5 DEF FilesInv, ReturnIsHome, AgentReturnsHome, Zipping, NoWork
<1>11. LastUploadIsThere'
  BY <1>2, <1>4, <1>6 DEF FilesInv, LastUploadIsThere, Writing, NoWork
<1> QED BY <1>7, <1>8, <1>9, <1>10, <1>11 DEF FilesInv

---------------------------------------------------------------------------
(* Folders. A request begins to zip one, goes on, and is gone.             *)
LEMMA FolderBeginsPreserves ==
  ASSUME FilesInv, PipelineInv', NEW t \in Threads, FolderBegins(t)
  PROVE  FilesInv'
<1>1. work \in [Threads -> Work] /\ cwd \in Dirs
  BY DEF FilesInv, TypeOK
<1>2. PICK folder \in Dirs \cup {NotFolder} :
        Share(t, [NoWork EXCEPT !.pc = "enter", !.asked = folder, !.saved = cwd], Zipping)
  BY DEF FolderBegins
<1> DEFINE w == [NoWork EXCEPT !.pc = "enter", !.asked = folder, !.saved = cwd]
<1>3. w \in Work /\ w.pc = "enter" /\ w.asked = folder /\ w.saved = cwd
  BY <1>1 DEF NoWork, Work, Pcs, Archive
<1>4. work[t] = NoWork /\ work[t].pc = "start" /\ http[t].at = "handle" /\ t \notin Zipping
  BY DEF FolderBegins, Doing, P!At, FilesInv, HandlerIsSound, Zipping
<1>5. /\ work' \in [Threads -> Work]
      /\ Marked(work'[t], w) /\ work'[t].shared = (Zipping # {})
      /\ \A u \in Zipping : Marked(work'[u], work[u]) /\ work'[u].shared
      /\ \A u \in Threads \ {t} : u \notin Zipping => work'[u] = work[u]
  <2>1. Zipping \in SUBSET Threads
    BY DEF Zipping
  <2>2. Share(t, w, Zipping)
    BY <1>2
  <2> HIDE DEF w
  <2> QED BY <1>1, <1>3, <1>4, <2>1, <2>2, WorkShared
<1>6. /\ UNCHANGED <<dumper, http, disk, cwd, zip, landed>>
      /\ tangled' = (tangled \/ Zipping # {})
  BY <1>2 DEF FolderBegins, Share
<1> HIDE DEF w
<1>7. TypeOK'
  BY <1>5, <1>6 DEF FilesInv, TypeOK, PipelineInv
<1>8. ASSUME NEW u \in Threads
      PROVE  HandlerIsSound(u)' /\ ArchiveIsSound(u)' /\ UploadIsSound(u)'
  <2>1. CASE u = t
    BY <1>1, <1>3, <1>4, <1>5, <1>6, <2>1
       DEF HandlerIsSound, ArchiveIsSound, UploadIsSound, Marked, Entered
  <2>2. CASE u # t /\ u \in Zipping
    BY <1>5, <1>6, <2>2
       DEF FilesInv, HandlerIsSound, ArchiveIsSound, UploadIsSound, Marked, Zipping
  <2>3. CASE u # t /\ u \notin Zipping
    BY <1>5, <1>6, <2>3
       DEF FilesInv, HandlerIsSound, ArchiveIsSound, UploadIsSound, Zipping
  <2> QED BY <2>1, <2>2, <2>3
<1>9. ASSUME NEW u \in Threads, NEW v \in Threads, u # v
      PROVE  MeetingIsSeen(u, v)'
  <2>1. work'[t].pc = "enter"
    BY <1>3, <1>5 DEF Marked
  <2>2. \A x \in Threads \ {t} : /\ work'[x].pc = work[x].pc /\ work'[x].target = work[x].target
                                 /\ work[x].shared => work'[x].shared
    BY <1>5 DEF Marked
  <2>3. Zipping' = Zipping \cup {t}
    BY <2>1, <2>2 DEF Zipping
  <2>4. CASE {u, v} \subseteq Zipping'
    BY <1>4, <1>5, <1>6, <1>9, <2>3, <2>4 DEF FilesInv, MeetingIsSeen, Zipping
  <2>5. CASE ~ {u, v} \subseteq Zipping'
    BY <1>9, <2>1, <2>2, <2>5 DEF FilesInv, MeetingIsSeen
  <2> QED BY <2>4, <2>5
<1>10. ReturnIsHome' /\ AgentReturnsHome'
  <2> SUFFICES ASSUME ~tangled'
               PROVE  ReturnIsHome' /\ AgentReturnsHome'
    BY DEF ReturnIsHome, AgentReturnsHome
  <2>1. Zipping = {} /\ ~tangled
    BY <1>6
  <2>2. cwd = Home
    BY <2>1 DEF FilesInv, AgentReturnsHome
  <2>3. Zipping' = {t} /\ work'[t].saved = Home
    BY <1>3, <1>5, <2>1, <2>2 DEF Zipping, Marked
  <2> QED BY <1>6, <2>2, <2>3 DEF ReturnIsHome, AgentReturnsHome
<1>11. LastUploadIsThere'
  <2> SUFFICES ASSUME NEW e \in Dirs, Writing(e)' = {}, landed[e] # Nothing
               PROVE  disk[e] = Whole(landed[e])
    BY <1>6 DEF LastUploadIsThere
  <2>1. Writing(e) = {}
    BY <1>4, <1>5 DEF Marked, Writing
  <2> QED BY <2>1 DEF FilesInv, LastUploadIsThere
<1> QED BY <1>7, <1>8, <1>9, <1>10, <1>11 DEF FilesInv

(* What all steps of a request on its archive have in common.              *)
Keeps(v, w) ==
  /\ v.pc = w.pc /\ v.asked = w.asked /\ v.target = w.target /\ v.saved = w.saved
  /\ v.body = w.body /\ v.shared = w.shared

ZipStep(t) ==
  /\ t \in Zipping /\ t \in Zipping'
  /\ work'[t].asked = work[t].asked /\ work'[t].shared = work[t].shared
  /\ work'[t].pc # "sent" => work[t].pc # "sent" /\ work'[t].saved = work[t].saved
  /\ \A u \in Threads \ {t} : /\ Keeps(work'[u], work[u]) /\ http'[u].at = http[u].at
                              /\ work[u].pc = "start" => work'[u] = work[u]
  /\ UNCHANGED <<disk, landed, tangled>>

LEMMA ZipStepKeeps ==
  ASSUME FilesInv, NEW t \in Threads, ZipStep(t)
  PROVE  /\ \A u \in Threads : UploadIsSound(u)'
         /\ \A u \in Threads \ {t} : HandlerIsSound(u)'
         /\ \A u, v \in Threads : u # v => MeetingIsSeen(u, v)'
         /\ ReturnIsHome' /\ LastUploadIsThere' /\ Zipping' = Zipping
<1>1. work'[t].pc \notin {"start", "write"} /\ work[t].pc \notin {"start", "write"}
  BY DEF ZipStep, Zipping
<1>2. \A u \in Threads \ {t} : Keeps(work'[u], work[u]) /\ http'[u].at = http[u].at
  BY DEF ZipStep
<1>3. Zipping' = Zipping
  BY <1>1, <1>2 DEF Zipping, Keeps
<1>4. \A u \in Threads : UploadIsSound(u)'
  BY <1>1, <1>2 DEF FilesInv, UploadIsSound, Keeps, ZipStep
<1>5. \A u \in Threads \ {t} : HandlerIsSound(u)'
  <2> SUFFICES ASSUME NEW u \in Threads \ {t}
               PROVE  HandlerIsSound(u)'
    OBVIOUS
  <2>1. CASE work[u].pc = "start"
    BY <2>1 DEF FilesInv, HandlerIsSound, ZipStep
  <2>2. CASE work[u].pc # "start"
    BY <1>2, <2>2 DEF FilesInv, HandlerIsSound, Keeps
  <2> QED BY <2>1, <2>2
<1>6. ASSUME NEW u \in Threads, NEW v \in Threads, u # v
      PROVE  MeetingIsSeen(u, v)'
  BY <1>1, <1>2, <1>3, <1>6 DEF FilesInv, MeetingIsSeen, Keeps, ZipStep
<1>7. ReturnIsHome'
  BY <1>2, <1>3 DEF FilesInv, ReturnIsHome, Keeps, ZipStep, Zipping
<1>8. LastUploadIsThere'
  BY <1>1, <1>2 DEF FilesInv, LastUploadIsThere, Writing, Keeps, ZipStep
<1> QED BY <1>3, <1>4, <1>5, <1>6, <1>7, <1>8

(* The records that the steps of a request on its archive make.            *)
LEMMA NextPc ==
  ASSUME NEW w \in Work, NEW pc \in Pcs
  PROVE  LET v == [w EXCEPT !.pc = pc]
         IN  /\ v \in Work /\ v.pc = pc
             /\ v.asked = w.asked /\ v.target = w.target /\ v.saved = w.saved
             /\ v.body = w.body /\ v.crossed = w.crossed /\ v.shared = w.shared
BY DEF Work

LEMMA NextClose ==
  ASSUME NEW w \in Work, NEW d \in Dirs
  PROVE  LET v == [w EXCEPT !.pc = "close", !.target = d]
         IN  /\ v \in Work /\ v.pc = "close" /\ v.target = d
             /\ v.asked = w.asked /\ v.saved = w.saved
             /\ v.crossed = w.crossed /\ v.shared = w.shared
BY DEF Work, Pcs

LEMMA NextSent ==
  ASSUME NEW w \in Work
  PROVE  LET v == [w EXCEPT !.pc = "sent", !.target = Nothing, !.saved = Nothing,
                            !.crossed = FALSE]
         IN  v \in Work /\ v.pc = "sent" /\ v.asked = w.asked /\ v.shared = w.shared
BY DEF Work, Pcs

LEMMA NextBody ==
  ASSUME NEW w \in Work, NEW a \in Archive
  PROVE  LET v == [w EXCEPT !.body = a]
         IN  /\ v \in Work /\ v.pc = w.pc /\ v.body = a
             /\ v.asked = w.asked /\ v.saved = w.saved /\ v.shared = w.shared
BY DEF Work

(* To change the working directory and to return to it.                    *)
LEMMA EnterFolderPreserves ==
  ASSUME FilesInv, PipelineInv', NEW t \in Threads, EnterFolder(t)
  PROVE  FilesInv'
<1> DEFINE w == [work[t] EXCEPT !.pc = "open"]
<1>1. work \in [Threads -> Work] /\ "open" \in Pcs
  BY DEF FilesInv, TypeOK, Pcs
<1>2. /\ w \in Work /\ w.pc = "open" /\ w.asked = work[t].asked /\ w.saved = work[t].saved
      /\ w.shared = work[t].shared
  BY <1>1, NextPc
<1>3. /\ work[t].pc = "enter" /\ work[t].asked # NotFolder /\ work[t].asked \in Dirs
      /\ http[t].at = "handle" /\ work[t].saved \in Dirs
  BY DEF EnterFolder, Doing, P!At, FilesInv, HandlerIsSound
<1>4. work' = [work EXCEPT ![t] = w]
  BY DEF EnterFolder, Continue
<1> HIDE DEF w
<1>5. /\ work' \in [Threads -> Work] /\ work'[t] = w
      /\ \A u \in Threads \ {t} : work'[u] = work[u]
  BY <1>1, <1>2, <1>4, WorkReplaced
<1>6. /\ cwd' = work[t].asked
      /\ UNCHANGED <<dumper, http, disk, zip, landed, tangled>>
  BY DEF EnterFolder, Continue
<1>7. ZipStep(t)
  BY <1>2, <1>3, <1>5, <1>6 DEF ZipStep, Keeps, Zipping
<1>8. TypeOK'
  BY <1>3, <1>5, <1>6 DEF FilesInv, TypeOK, PipelineInv
<1>9. HandlerIsSound(t)'
  BY <1>2, <1>3, <1>5, <1>6 DEF HandlerIsSound, Entered
<1>10. \A u \in Threads : ArchiveIsSound(u)'
  BY <1>2, <1>3, <1>5, <1>6, <1>7, ZipStepKeeps
     DEF FilesInv, ArchiveIsSound, MeetingIsSeen, Zipping
<1>11. AgentReturnsHome'
  BY <1>2, <1>3, <1>5 DEF AgentReturnsHome, Zipping
<1> QED BY <1>7, <1>8, <1>9, <1>10, <1>11, ZipStepKeeps DEF FilesInv

LEMMA LeaveFolderPreserves ==
  ASSUME FilesInv, PipelineInv', NEW t \in Threads, LeaveFolder(t)
  PROVE  FilesInv'
<1> DEFINE w == [work[t] EXCEPT !.pc = "send"]
<1>1. work \in [Threads -> Work] /\ "send" \in Pcs
  BY DEF FilesInv, TypeOK, Pcs
<1>2. /\ w \in Work /\ w.pc = "send" /\ w.asked = work[t].asked /\ w.saved = work[t].saved
      /\ w.shared = work[t].shared
  BY <1>1, NextPc
<1>3. /\ work[t].pc = "leave" /\ work[t].asked \in Dirs /\ http[t].at = "handle"
      /\ work[t].saved \in Dirs
  BY DEF LeaveFolder, Doing, P!At, FilesInv, HandlerIsSound, Entered
<1>4. work' = [work EXCEPT ![t] = w]
  BY DEF LeaveFolder, Continue
<1> HIDE DEF w
<1>5. /\ work' \in [Threads -> Work] /\ work'[t] = w
      /\ \A u \in Threads \ {t} : work'[u] = work[u]
  BY <1>1, <1>2, <1>4, WorkReplaced
<1>6. /\ cwd' = work[t].saved
      /\ UNCHANGED <<dumper, http, disk, zip, landed, tangled>>
  BY DEF LeaveFolder, Continue
<1>7. ZipStep(t)
  BY <1>2, <1>3, <1>5, <1>6 DEF ZipStep, Keeps, Zipping
<1>8. TypeOK'
  BY <1>3, <1>5, <1>6 DEF FilesInv, TypeOK, PipelineInv
<1>9. HandlerIsSound(t)'
  BY <1>2, <1>3, <1>5, <1>6 DEF HandlerIsSound, Entered
<1>10. \A u \in Threads : ArchiveIsSound(u)'
  BY <1>2, <1>3, <1>5, <1>6, <1>7, ZipStepKeeps
     DEF FilesInv, ArchiveIsSound, MeetingIsSeen, Zipping
<1>11. AgentReturnsHome'
  BY <1>3, <1>6 DEF FilesInv, ReturnIsHome, AgentReturnsHome, Zipping
<1> QED BY <1>7, <1>8, <1>9, <1>10, <1>11, ZipStepKeeps DEF FilesInv

(* To write the archive.                                                   *)
LEMMA OpenArchivePreserves ==
  ASSUME FilesInv, PipelineInv', NEW t \in Threads, OpenArchive(t)
  PROVE  FilesInv'
<1> DEFINE others == {u \in Threads : work[u].pc \in {"add", "close"}}
           crosses == others # {}
           w == [work[t] EXCEPT !.pc = "add", !.crossed = crosses]
<1>1. work \in [Threads -> Work]
  BY DEF FilesInv, TypeOK
<1>2. /\ work[t].pc = "open" /\ work[t].asked \in Dirs /\ http[t].at = "handle"
      /\ work[t].saved \in Dirs
  BY DEF OpenArchive, Doing, P!At, FilesInv, HandlerIsSound, Entered
<1>3. work' = [u \in Threads |-> CASE u = t -> w
                                   [] u \in others -> [work[u] EXCEPT !.crossed = TRUE]
                                   [] OTHER -> work[u]]
  BY DEF OpenArchive
<1>4. crosses \in BOOLEAN /\ t \notin others
  BY <1>2
<1>5. work[t] \in Work
  BY <1>1
<1>6. /\ w \in Work /\ w.pc = "add" /\ w.asked = work[t].asked /\ w.saved = work[t].saved
      /\ w.crossed = crosses /\ w.shared = work[t].shared
  <2> HIDE DEF crosses
  <2> QED BY <1>4, <1>5 DEF Work, Pcs
<1>7. work'[t] = w
  <2> HIDE DEF w, others
  <2> QED BY <1>3, <1>4
<1>8. ASSUME NEW u \in others
      PROVE  Keeps(work'[u], work[u]) /\ work'[u] \in Work
  <2>1. work'[u] = [work[u] EXCEPT !.crossed = TRUE] /\ work[u] \in Work
    BY <1>1, <1>3, <1>4
  <2> QED BY <2>1 DEF Work, Keeps
<1>9. ASSUME NEW u \in Threads \ {t}, u \notin others
      PROVE  work'[u] = work[u]
  BY <1>3, <1>9
<1>10. work' \in [Threads -> Work]
  <2>1. \A u \in Threads : work'[u] \in Work
    BY <1>1, <1>6, <1>7, <1>8, <1>9
  <2>2. work' = [u \in Threads |-> work'[u]]
    <3> HIDE DEF w, others
    <3> QED BY <1>3
  <2> QED BY <2>1, <2>2
<1>11. zip' = Partial /\ UNCHANGED <<dumper, http, disk, cwd, landed, tangled>>
  BY DEF OpenArchive
<1>12. others \subseteq Zipping /\ t \in Zipping
  BY <1>2 DEF Zipping
<1>13. \A u \in Threads \ {t} : work[u].pc = "start" => u \notin others
  OBVIOUS
<1> HIDE DEF w, others
<1>14. ZipStep(t)
  <2>1. \A u \in Threads \ {t} : /\ Keeps(work'[u], work[u])
                                 /\ work[u].pc = "start" => work'[u] = work[u]
    BY <1>8, <1>9, <1>13 DEF Keeps
  <2> QED BY <1>2, <1>6, <1>7, <1>11, <2>1 DEF ZipStep, Zipping
<1>15. TypeOK'
  BY <1>10, <1>11 DEF FilesInv, TypeOK, PipelineInv, Archive
<1>16. HandlerIsSound(t)'
  BY <1>2, <1>6, <1>7, <1>11 DEF HandlerIsSound, Entered
<1>17. ASSUME NEW u \in Threads
       PROVE  ArchiveIsSound(u)'
  <2>1. CASE u = t
    <3> SUFFICES ASSUME ~work[t].shared
                 PROVE  ~crosses /\ cwd = work[t].asked
      BY <1>6, <1>7, <1>11, <2>1 DEF ArchiveIsSound
    <3>1. others = {}
      BY <1>4, <1>12 DEF FilesInv, MeetingIsSeen, Zipping
    <3> QED BY <1>2, <1>12, <3>1 DEF FilesInv, ArchiveIsSound
  <2>2. CASE u # t
    BY <1>12, <1>14, <2>2, ZipStepKeeps DEF FilesInv, ArchiveIsSound, MeetingIsSeen, ZipStep, Keeps
  <2> QED BY <2>1, <2>2
<1>18. AgentReturnsHome'
  BY <1>6, <1>7, <1>12, <1>14, ZipStepKeeps DEF AgentReturnsHome
<1> QED BY <1>14, <1>15, <1>16, <1>17, <1>18, ZipStepKeeps DEF FilesInv

LEMMA AddFilesPreserves ==
  ASSUME FilesInv, PipelineInv', NEW t \in Threads, AddFiles(t)
  PROVE  FilesInv'
<1> DEFINE w == [work[t] EXCEPT !.pc = "close", !.target = cwd]
<1>1. work \in [Threads -> Work] /\ cwd \in Dirs
  BY DEF FilesInv, TypeOK
<1>2. /\ w \in Work /\ w.pc = "close" /\ w.target = cwd /\ w.asked = work[t].asked
      /\ w.saved = work[t].saved /\ w.crossed = work[t].crossed /\ w.shared = work[t].shared
  BY <1>1, NextClose
<1>3. /\ work[t].pc = "add" /\ work[t].asked \in Dirs /\ http[t].at = "handle"
      /\ work[t].saved \in Dirs
  BY DEF AddFiles, Doing, P!At, FilesInv, HandlerIsSound, Entered
<1>4. work' = [work EXCEPT ![t] = w]
  BY DEF AddFiles, Continue
<1> HIDE DEF w
<1>5. /\ work' \in [Threads -> Work] /\ work'[t] = w
      /\ \A u \in Threads \ {t} : work'[u] = work[u]
  BY <1>1, <1>2, <1>4, WorkReplaced
<1>6. UNCHANGED <<dumper, http, disk, cwd, zip, landed, tangled>>
  BY DEF AddFiles, Continue, files
<1>7. ZipStep(t)
  BY <1>2, <1>3, <1>5, <1>6 DEF ZipStep, Keeps, Zipping
<1>8. TypeOK'
  BY <1>5, <1>6 DEF FilesInv, TypeOK, PipelineInv
<1>9. HandlerIsSound(t)'
  BY <1>1, <1>2, <1>3, <1>5, <1>6 DEF HandlerIsSound, Entered
<1>10. \A u \in Threads : ArchiveIsSound(u)'
  BY <1>2, <1>3, <1>5, <1>6 DEF FilesInv, ArchiveIsSound, Zipping
<1>11. AgentReturnsHome'
  BY <1>2, <1>5 DEF AgentReturnsHome, Zipping
<1> QED BY <1>7, <1>8, <1>9, <1>10, <1>11, ZipStepKeeps DEF FilesInv

LEMMA AddFailsPreserves ==
  ASSUME FilesInv, PipelineInv', NEW t \in Threads, AddFails(t)
  PROVE  FilesInv'
<1> DEFINE w == [work[t] EXCEPT !.pc = "failed"]
<1>1. work \in [Threads -> Work] /\ zip \in Archive /\ "failed" \in Pcs
  BY DEF FilesInv, TypeOK, Pcs
<1>2. /\ w \in Work /\ w.pc = "failed" /\ w.asked = work[t].asked
      /\ w.saved = work[t].saved /\ w.shared = work[t].shared
  BY <1>1, NextPc
<1>3. /\ work[t].pc = "add" /\ work[t].asked \in Dirs /\ http[t].at = "handle"
      /\ work[t].saved \in Dirs
  BY DEF AddFails, Doing, P!At, FilesInv, HandlerIsSound, Entered
<1>4. work' = [work EXCEPT ![t] = w]
  BY DEF AddFails, Continue
<1> HIDE DEF w
<1>5. /\ work' \in [Threads -> Work] /\ work'[t] = w
      /\ \A u \in Threads \ {t} : work'[u] = work[u]
  BY <1>1, <1>2, <1>4, WorkReplaced
<1>6. /\ zip' \in Archive
      /\ UNCHANGED <<dumper, http, disk, cwd, landed, tangled>>
  BY <1>1 DEF AddFails, Continue, Written, Archive
<1>7. ZipStep(t)
  BY <1>2, <1>3, <1>5, <1>6 DEF ZipStep, Keeps, Zipping
<1>8. TypeOK'
  BY <1>5, <1>6 DEF FilesInv, TypeOK, PipelineInv
<1>9. HandlerIsSound(t)'
  BY <1>2, <1>3, <1>5, <1>6 DEF HandlerIsSound, Entered
<1>10. \A u \in Threads : ArchiveIsSound(u)'
  BY <1>2, <1>3, <1>5, <1>6 DEF FilesInv, ArchiveIsSound, MeetingIsSeen, Zipping
<1>11. AgentReturnsHome'
  BY <1>2, <1>5 DEF AgentReturnsHome, Zipping
<1> QED BY <1>7, <1>8, <1>9, <1>10, <1>11, ZipStepKeeps DEF FilesInv

LEMMA CloseArchivePreserves ==
  ASSUME FilesInv, PipelineInv', NEW t \in Threads, CloseArchive(t)
  PROVE  FilesInv'
<1> DEFINE w == [work[t] EXCEPT !.pc = "leave"]
<1>1. work \in [Threads -> Work] /\ "leave" \in Pcs
  BY DEF FilesInv, TypeOK, Pcs
<1>2. /\ w \in Work /\ w.pc = "leave" /\ w.asked = work[t].asked
      /\ w.saved = work[t].saved /\ w.shared = work[t].shared
  BY <1>1, NextPc
<1>3. /\ work[t].pc = "close" /\ work[t].asked \in Dirs /\ http[t].at = "handle"
      /\ work[t].saved \in Dirs /\ work[t].target \in Dirs
  BY DEF CloseArchive, Doing, P!At, FilesInv, HandlerIsSound, Entered
<1>4. work' = [work EXCEPT ![t] = w]
  BY DEF CloseArchive, Continue
<1> HIDE DEF w
<1>5. /\ work' \in [Threads -> Work] /\ work'[t] = w
      /\ \A u \in Threads \ {t} : work'[u] = work[u]
  BY <1>1, <1>2, <1>4, WorkReplaced
<1>6. /\ zip' \in Archive
      /\ ~work[t].crossed => zip' = Whole(work[t].target)
      /\ UNCHANGED <<dumper, http, disk, cwd, landed, tangled>>
  BY <1>3 DEF CloseArchive, Continue, Written, Archive
<1>7. ZipStep(t)
  BY <1>2, <1>3, <1>5, <1>6 DEF ZipStep, Keeps, Zipping
<1>8. TypeOK'
  BY <1>5, <1>6 DEF FilesInv, TypeOK, PipelineInv
<1>9. HandlerIsSound(t)'
  BY <1>2, <1>3, <1>5, <1>6 DEF HandlerIsSound, Entered
<1>10. ASSUME NEW u \in Threads
       PROVE  ArchiveIsSound(u)'
  <2>1. CASE u = t
    BY <1>2, <1>3, <1>5, <1>6, <2>1 DEF FilesInv, ArchiveIsSound, Zipping
  <2>2. CASE u # t
    BY <1>3, <1>5, <1>6, <1>7, <2>2, ZipStepKeeps
       DEF FilesInv, ArchiveIsSound, MeetingIsSeen, ZipStep
  <2> QED BY <2>1, <2>2
<1>11. AgentReturnsHome'
  BY <1>2, <1>5 DEF AgentReturnsHome, Zipping
<1> QED BY <1>7, <1>8, <1>9, <1>10, <1>11, ZipStepKeeps DEF FilesInv

(* To send the archive, to read it and to be done.                         *)
LEMMA SendArchivePreserves ==
  ASSUME FilesInv, PipelineInv, PipelineInv', NEW t \in Threads, SendArchive(t)
  PROVE  FilesInv'
<1> DEFINE w == [work[t] EXCEPT !.pc = "sent", !.target = Nothing, !.saved = Nothing,
                                !.crossed = FALSE]
<1>1. work \in [Threads -> Work]
  BY DEF FilesInv, TypeOK
<1>2. w \in Work /\ w.pc = "sent" /\ w.asked = work[t].asked /\ w.shared = work[t].shared
  BY <1>1, NextSent
<1>3. work[t].pc = "send" /\ work[t].asked \in Dirs /\ Moves(t, {"handle"}, {"stamp"})
  BY PipelineMoves DEF SendArchive, Doing, FilesInv, HandlerIsSound, Entered
<1>4. work' = [work EXCEPT ![t] = w]
  BY DEF SendArchive
<1> HIDE DEF w
<1>5. /\ work' \in [Threads -> Work] /\ work'[t] = w
      /\ \A u \in Threads \ {t} : work'[u] = work[u]
  BY <1>1, <1>2, <1>4, WorkReplaced
<1>6. UNCHANGED <<disk, cwd, zip, landed, tangled>>
  BY DEF SendArchive, files
<1>7. ZipStep(t)
  BY <1>2, <1>3, <1>5, <1>6 DEF ZipStep, Keeps, Zipping, Moves
<1>8. TypeOK'
  BY <1>5, <1>6 DEF FilesInv, TypeOK, PipelineInv
<1>9. HandlerIsSound(t)'
  BY <1>2, <1>3, <1>5 DEF HandlerIsSound, Entered, Moves
<1>10. \A u \in Threads : ArchiveIsSound(u)'
  BY <1>2, <1>3, <1>5, <1>6 DEF FilesInv, ArchiveIsSound, Zipping, Moves
<1>11. AgentReturnsHome'
  BY <1>2, <1>3, <1>5, <1>6 DEF FilesInv, AgentReturnsHome, Zipping
<1> QED BY <1>7, <1>8, <1>9, <1>10, <1>11, ZipStepKeeps DEF FilesInv

LEMMA ReadBodyPreserves ==
  ASSUME FilesInv, PipelineInv, PipelineInv', NEW t \in Threads, ReadBody(t)
  PROVE  FilesInv'
<1>1. work \in [Threads -> Work] /\ zip \in Archive
  BY DEF FilesInv, TypeOK
<1>2. Moves(t, {"log"}, {"sent"})
  BY PipelineMoves DEF ReadBody
<1>3. UNCHANGED files
  BY DEF ReadBody
<1>4. CASE t \in Zipping
  <2> DEFINE w == [work[t] EXCEPT !.body = zip]
  <2>1. /\ w \in Work /\ w.pc = work[t].pc /\ w.body = zip
        /\ w.asked = work[t].asked /\ w.saved = work[t].saved /\ w.shared = work[t].shared
    BY <1>1, NextBody
  <2>2. work' = [work EXCEPT ![t] = w]
    BY <1>1, <1>4 DEF ReadBody
  <2> HIDE DEF w
  <2>3. /\ work' \in [Threads -> Work] /\ work'[t] = w
        /\ \A u \in Threads \ {t} : work'[u] = work[u]
    BY <1>1, <2>1, <2>2, WorkReplaced
  <2>4. work[t].pc = "sent" /\ work[t].asked \in Dirs
    BY <1>2, <1>4 DEF FilesInv, HandlerIsSound, Moves, Zipping, Entered
  <2>5. ZipStep(t)
    BY <1>2, <1>3, <1>4, <2>1, <2>3, <2>4 DEF ZipStep, Keeps, Zipping, Moves, files
  <2>6. TypeOK'
    BY <1>3, <2>3 DEF FilesInv, TypeOK, PipelineInv, files
  <2>7. HandlerIsSound(t)'
    BY <1>2, <2>1, <2>3, <2>4 DEF HandlerIsSound, Entered, Moves
  <2>8. \A u \in Threads : ArchiveIsSound(u)'
    BY <1>2, <1>3, <2>1, <2>3, <2>4 DEF FilesInv, ArchiveIsSound, Zipping, Moves, files
  <2>9. AgentReturnsHome'
    BY <1>3, <2>1, <2>3 DEF FilesInv, AgentReturnsHome, Zipping, files
  <2> QED BY <2>5, <2>6, <2>7, <2>8, <2>9, ZipStepKeeps DEF FilesInv
<1>5. CASE t \notin Zipping
  <2>1. work' = work
    BY <1>1, <1>5 DEF ReadBody, Work
  <2>2. work[t].pc = "start"
    BY <1>2, <1>5 DEF FilesInv, HandlerIsSound, Moves, Zipping
  <2> QED BY <1>2, <1>3, <2>1, <2>2, QuietSteps DEF Moves, P!Steps
<1> QED BY <1>4, <1>5

LEMMA ZipEndsPreserves ==
  ASSUME FilesInv, PipelineInv, PipelineInv', NEW t \in Threads,
         EnterFails(t) \/ LeaveAfterFailure(t) \/ Respond(t)
  PROVE  FilesInv'
<1>1. work \in [Threads -> Work]
  BY DEF FilesInv, TypeOK
<1>2. work' = [work EXCEPT ![t] = NoWork]
  BY DEF EnterFails, LeaveAfterFailure, Respond, Raise
<1>3. /\ work' \in [Threads -> Work] /\ work'[t] = NoWork
      /\ \A u \in Threads \ {t} : work'[u] = work[u]
  BY <1>1, <1>2, NoWorkIsWork, WorkReplaced
<1>4. \A u \in Threads \ {t} : http'[u].at = http[u].at
  BY PipelineMoves DEF EnterFails, LeaveAfterFailure, Respond, Raise, Moves
<1>5. /\ work[t].pc \in {"start", "enter", "failed", "sent"}
      /\ IF work[t].pc = "failed" THEN cwd' = work[t].saved /\ work[t].saved \in Dirs
         ELSE cwd' = cwd
      /\ UNCHANGED <<disk, zip, landed, tangled>>
  <2>1. CASE EnterFails(t)
    BY <2>1 DEF EnterFails, Doing, files
  <2>2. CASE LeaveAfterFailure(t)
    BY <2>2 DEF LeaveAfterFailure, Doing, FilesInv, HandlerIsSound
  <2>3. CASE Respond(t)
    BY <2>3, PipelineMoves DEF Respond, Moves, FilesInv, HandlerIsSound, files
  <2> QED BY <2>1, <2>2, <2>3
<1>6. TypeOK'
  BY <1>3, <1>5 DEF FilesInv, TypeOK, PipelineInv
<1>7. ASSUME NEW u \in Threads
      PROVE  HandlerIsSound(u)' /\ ArchiveIsSound(u)' /\ UploadIsSound(u)'
  <2>1. CASE u = t
    BY <1>3, <2>1
       DEF HandlerIsSound, ArchiveIsSound, UploadIsSound, Zipping, Entered, NoWork
  <2>2. CASE u # t
    <3>1. HandlerIsSound(u)' /\ UploadIsSound(u)'
      BY <1>3, <1>4, <1>5, <2>2 DEF FilesInv, HandlerIsSound, UploadIsSound
    <3>2. ArchiveIsSound(u)'
      BY <1>3, <1>4, <1>5, <2>2 DEF FilesInv, ArchiveIsSound, MeetingIsSeen, Zipping
    <3> QED BY <3>1, <3>2
  <2> QED BY <2>1, <2>2
<1>8. \A u, v \in Threads : u # v => MeetingIsSeen(u, v)'
  BY <1>3, <1>5 DEF FilesInv, MeetingIsSeen, Zipping, NoWork
<1>9. ReturnIsHome'
  BY <1>3, <1>5 DEF FilesInv, ReturnIsHome, Zipping, NoWork
<1>10. AgentReturnsHome'
  BY <1>3, <1>5 DEF FilesInv, ReturnIsHome, AgentReturnsHome, Zipping, NoWork
<1>11. LastUploadIsThere'
  BY <1>3, <1>5 DEF FilesInv, LastUploadIsThere, Writing, NoWork
<1> QED BY <1>6, <1>7, <1>8, <1>9, <1>10, <1>11 DEF FilesInv

---------------------------------------------------------------------------
LEMMA FilesInit ==
  ASSUME Init
  PROVE  FilesInv
<1>1. TypeOK
  BY PipelineInit, NoWorkIsWork, ContentAssumption
     DEF PipelineInv, Init, TypeOK, Dirs, File, Archive
<1>2. \A t \in Threads : work[t] = NoWork
  BY DEF Init
<1> QED BY <1>1, <1>2
        DEF FilesInv, HandlerIsSound, ArchiveIsSound, UploadIsSound, MeetingIsSeen,
            ReturnIsHome, AgentReturnsHome, LastUploadIsThere, Zipping, Entered, NoWork, Init

LEMMA FilesPreserved ==
  ASSUME FilesInv, PipelineInv, [Next]_vars
  PROVE  FilesInv'
<1>1. PipelineInv'
  BY PipelinePreserved
<1>2. CASE UNCHANGED vars
  BY <1>2 DEF vars, FilesInv, TypeOK, P!TypeOK, HandlerIsSound, ArchiveIsSound, UploadIsSound,
              MeetingIsSeen, ReturnIsHome, AgentReturnsHome, LastUploadIsThere, Zipping, Writing
<1>3. CASE Next
  <2>1. PICK t \in Threads : Receive(t) \/ Handle(t)
    BY <1>3 DEF Next
  <2>2. ASSUME UNCHANGED <<work, files>>, work[t].pc = "start", NEW from, NEW to,
               Moves(t, from, to)
        PROVE  FilesInv'
    <3>1. Moves(t, P!Steps, P!Steps)
      BY <1>1, <2>2 DEF Moves, PipelineInv, P!TypeOK, P!Request
    <3> QED BY <1>1, <2>2, <3>1, QuietSteps
  <2>3. CASE Receive(t)
    <3>1. Moves(t, {"idle"}, {"tag"}) /\ UNCHANGED <<work, files>>
      BY <2>3, PipelineMoves DEF Receive
    <3>2. work[t].pc = "start"
      BY <3>1 DEF FilesInv, HandlerIsSound, Moves
    <3> QED BY <2>2, <3>1, <3>2
  <2>4. CASE P!Around(t) /\ UNCHANGED <<work, files>>
    <3>1. CASE Moves(t, {"tag", "uri", "check"}, P!Steps)
      <4>1. work[t].pc = "start"
        BY <3>1 DEF FilesInv, HandlerIsSound, Moves
      <4> QED BY <2>2, <2>4, <3>1, <4>1
    <3>2. CASE Moves(t, {"stamp"}, {"log"})
      BY <1>1, <2>4, <3>2, QuietSteps
    <3> QED BY <2>4, <3>1, <3>2, PipelineMoves
  <2>5. CASE UploadRefused(t) \/ Download(t) \/ FolderRefused(t) \/ HandleOther(t)
    <3>1. Moves(t, {"handle"}, {"stamp"}) /\ work[t].pc = "start" /\ UNCHANGED files
      BY <2>5, PipelineMoves
         DEF UploadRefused, Download, FolderRefused, HandleOther, Doing, Return, Raise, NoWork
    <3>2. work' = [work EXCEPT ![t] = NoWork]
      BY <2>5 DEF UploadRefused, Download, FolderRefused, HandleOther, Return, Raise
    <3>3. work' = work
      BY <3>1, <3>2 DEF FilesInv, TypeOK, HandlerIsSound
    <3> QED BY <2>2, <3>1, <3>3
  <2>6. CASE UploadOpens(t) \/ UploadWrites(t) \/ UploadFails(t)
    BY <1>1, <2>6, UploadOpensPreserves, UploadEndsPreserves
  <2>7. CASE ZipFolder(t)
    <3>1. CASE FolderRefused(t)
      BY <2>5, <3>1
    <3>2. CASE FolderBegins(t) \/ EnterFolder(t) \/ OpenArchive(t) \/ AddFiles(t) \/ AddFails(t)
      BY <1>1, <3>2, FolderBeginsPreserves, EnterFolderPreserves, OpenArchivePreserves,
         AddFilesPreserves, AddFailsPreserves
    <3>3. CASE CloseArchive(t) \/ LeaveFolder(t) \/ SendArchive(t)
      BY <1>1, <3>3, CloseArchivePreserves, LeaveFolderPreserves, SendArchivePreserves
    <3>4. CASE EnterFails(t) \/ LeaveAfterFailure(t)
      BY <1>1, <3>4, ZipEndsPreserves
    <3> QED BY <2>7, <3>1, <3>2, <3>3, <3>4 DEF ZipFolder
  <2>8. CASE ReadBody(t) \/ Respond(t)
    BY <1>1, <2>8, ReadBodyPreserves, ZipEndsPreserves
  <2> QED BY <2>1, <2>3, <2>4, <2>5, <2>6, <2>7, <2>8 DEF Handle
<1> QED BY <1>2, <1>3

(* The files, the archive and the working directory keep their types: a    *)
(* relative path, above all, always leads to a directory (get_file and     *)
(* upload_file of routes.py, while zip_file of io_utils.py moves the agent).*)
THEOREM TransferTypes == Spec => []TypeOK
<1>1. FilesInv => TypeOK
  BY DEF FilesInv
<1> QED BY <1>1, PipelineInit, PipelinePreserved, FilesInit, FilesPreserved, PTL DEF Spec

(* After an upload that nobody disturbed, the file is what was uploaded    *)
(* (upload_file), with any number of uploads and downloads going on.       *)
THEOREM UploadsLast == Spec => []LastUploadIsThere
<1>1. FilesInv => LastUploadIsThere
  BY DEF FilesInv
<1> QED BY <1>1, PipelineInit, PipelinePreserved, FilesInit, FilesPreserved, PTL DEF Spec

(* A folder that is zipped with no other one at the same time is answered  *)
(* whole (get_results_folder), whatever requests for others have failed.   *)
THEOREM LoneArchivesAreWhole == Spec => []LoneArchiveIsOfItsFolder
<1>1. FilesInv => LoneArchiveIsOfItsFolder
  BY DEF FilesInv, LoneArchiveIsOfItsFolder, ArchiveIsSound, HandlerIsSound, Zipping, P!At
<1> QED BY <1>1, PipelineInit, PipelinePreserved, FilesInit, FilesPreserved, PTL DEF Spec

(* The agent returns to its own directory from every folder, as long as    *)
(* they are asked for one after the other (zip_file of io_utils.py).       *)
THEOREM AgentIsHome == Spec => []AgentReturnsHome
<1>1. FilesInv => AgentReturnsHome
  BY DEF FilesInv
<1> QED BY <1>1, PipelineInit, PipelinePreserved, FilesInit, FilesPreserved, PTL DEF Spec

=============================================================================
