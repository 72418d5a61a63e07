-------------------------- MODULE RequestPipeline --------------------------
(***************************************************************************)
(* What Flask runs around every handler: before_request and after_request  *)
(* of src/rest/api/routes.py. They authenticate the request, log it, and   *)
(* tag it and its response with an id that they keep in a dictionary which *)
(* all request threads share (src/rest/api/loghelpers/message_dumper.py).  *)
(* The handlers themselves are left to the modules that use this one.      *)
(***************************************************************************)
EXTENDS Naturals

CONSTANTS
  Threads,    \* request threads of the agent
  RequestIds, \* values of X-Request-ID: sent by clients, or drawn by the agent
  NoId,       \* no id
  Tokens,     \* values of the Token header, the text of None among them
  NoToken,    \* no such header, or no HTTP_AUTH_TOKEN in the agent's environment
  NoneText,   \* what str(None) is
  AuthToken   \* HTTP_AUTH_TOKEN of the agent's environment

VARIABLES
  dumper,  \* response_headers of the one MessageDumper
  http     \* where each request is in the pipeline

vars == <<dumper, http>>

Headers == {"X-Request-ID", "Request-Uri"}
Steps == {"idle", "tag", "uri", "check", "handle", "stamp", "log", "sent"}
Statuses == {0, 200, 401, 500}

(* own is the id of the request, id that of its response; docs tells that  *)
(* the path of the documentation is somewhere in its path or its query;    *)
(* alone is history: no other request was in the agent since this one has  *)
(* arrived.                                                                *)
Request ==
  [at : Steps, own : RequestIds \cup {NoId}, token : Tokens \cup {NoToken},
   docs : BOOLEAN, status : Statuses, id : RequestIds \cup {NoId}, alone : BOOLEAN]

Idle == [at |-> "idle", own |-> NoId, token |-> NoToken, docs |-> FALSE,
         status |-> 0, id |-> NoId, alone |-> FALSE]

At(t, step) == http[t].at = step
Busy(t) == ~At(t, "idle")
Goto(t, step) == http' = [http EXCEPT ![t].at = step]

(* The configuration has the text "None" for a token that is not set, and  *)
(* the header of a request is compared as text.                            *)
ExpectedToken == IF AuthToken = NoToken THEN NoneText ELSE AuthToken
Sent(token) == IF token = NoToken THEN NoneText ELSE token

Init ==
  /\ dumper = [h \in {} |-> NoId]
  /\ http = [t \in Threads |-> Idle]

(* Ids are told apart: none is that of another request, or of a response.  *)
FreshIds ==
  RequestIds \ ({http[t].own : t \in Threads} \cup {http[t].id : t \in Threads}
                  \cup {dumper[h] : h \in DOMAIN dumper})

Receive(t, token, docs) ==
  /\ At(t, "idle")
  /\ \E id \in FreshIds :
       http' = [u \in Threads |->
                  IF u = t THEN [Idle EXCEPT !.at = "tag", !.own = id, !.token = token,
                                             !.docs = docs,
                                             !.alone = \A v \in Threads : ~Busy(v)]
                  ELSE [http[u] EXCEPT !.alone = FALSE]]
  /\ UNCHANGED dumper

SetHeader(h, value) ==
  dumper' = [g \in DOMAIN dumper \cup {h} |-> IF g = h THEN value ELSE dumper[g]]

(* Mutant of SetRequestId: no id is drawn for a request without one.       *)
SetRequestIdAsSent(t) ==
  /\ At(t, "tag")
  /\ \E id \in {http[t].own, NoId} : SetHeader("X-Request-ID", id)
  /\ Goto(t, "uri")

(* Mutant of SetRequestId: the id of the first request stays.              *)
SetRequestIdOnce(t) ==
  /\ At(t, "tag")
  /\ IF "X-Request-ID" \in DOMAIN dumper THEN UNCHANGED dumper
     ELSE SetHeader("X-Request-ID", http[t].own)
  /\ Goto(t, "uri")

SetRequestId(t) ==
  /\ At(t, "tag")
  /\ SetHeader("X-Request-ID", http[t].own)
  /\ Goto(t, "uri")

(* Mutant of SetRequestUri: after the request has been logged.             *)
SetRequestUriLater(t) ==
  /\ At(t, "uri")
  /\ Goto(t, "check")
  /\ UNCHANGED dumper

SetRequestUri(t) ==
  /\ At(t, "uri")
  /\ SetHeader("Request-Uri", http[t].own)
  /\ Goto(t, "check")

(* The request is logged, with the headers that are in the dictionary; a   *)
(* wrong token is answered at once, except for the API's documentation, or *)
(* what is taken for it: any request, of whatever handler, that names its  *)
(* path in its query passes, too.                                          *)
Passes(t) == Sent(http[t].token) = ExpectedToken \/ http[t].docs

Checked(t, step, status) ==
  /\ At(t, "check")
  /\ http' = [http EXCEPT ![t] = [@ EXCEPT !.at = step, !.status = status,
                                           !.token = NoToken, !.docs = FALSE]]
  /\ UNCHANGED dumper

Admit(t) == Passes(t) /\ Checked(t, "handle", 0)
Refuse(t) == ~Passes(t) /\ Checked(t, "stamp", 401)

(* The handler returns, or raises an ApiException, which handle_api_error  *)
(* turns into a 500.                                                       *)
Handled(t, status) ==
  /\ At(t, "handle")
  /\ http' = [http EXCEPT ![t] = [@ EXCEPT !.at = "stamp", !.status = status]]
  /\ UNCHANGED dumper

(* after_request, for a 401 as well: the id comes from the dictionary.     *)
Stamp(t) ==
  /\ At(t, "stamp")
  /\ http' = [http EXCEPT ![t] = [@ EXCEPT !.at = "log", !.id = dumper["X-Request-ID"]]]
  /\ UNCHANGED dumper

(* The response is logged with its body, which is read for it.             *)
LogResponse(t) ==
  /\ At(t, "log")
  /\ Goto(t, "sent")
  /\ UNCHANGED dumper

Respond(t) ==
  /\ At(t, "sent")
  /\ http' = [http EXCEPT ![t] = Idle]
  /\ UNCHANGED dumper

Around(t) ==
  SetRequestId(t) \/ SetRequestUri(t) \/ Admit(t) \/ Refuse(t) \/ Stamp(t)

---------------------------------------------------------------------------
TypeOK ==
  /\ DOMAIN dumper \subseteq Headers
  /\ dumper \in [DOMAIN dumper -> RequestIds]
  /\ http \in [Threads -> Request]

(* A response carries the id of its request when no other request was in   *)
(* the agent, whatever ids earlier ones have left in the dictionary        *)
(* (before_request, after_request).                                        *)
LoneResponseHasItsId ==
  \A t \in Threads : http[t].alone /\ http[t].id # NoId => http[t].id = http[t].own

(* dump() iterates over the dictionary without a lock: while any thread    *)
(* does, no other can make it grow, which would raise in the middle of     *)
(* before_request. The first requests of an agent may come together.       *)
DumpIsNeverDisturbed ==
  \A t \in Threads : At(t, "check") \/ At(t, "log") => DOMAIN dumper = Headers

=============================================================================
