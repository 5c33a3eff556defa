---------------------------- MODULE ApiLogCapture ----------------------------
(***************************************************************************)
(* How a request becomes a row of t_api_log: Nest's order of body parser,  *)
(* routing, guards, interceptor, upload, pipe and handler, the             *)
(* ApiLogInterceptor's patched res.send and its finish and close           *)
(* listeners, the error filter, and a client that may disconnect at any    *)
(* moment.                                                                 *)
(*                                                                         *)
(* What the handler or a step before it comes to is a Fate; a response is  *)
(* a fate and the form of its body.  A request is the form of its body,    *)
(* what its token says and whether its route has guards.                   *)
(***************************************************************************)
EXTENDS Integers, FiniteSets

CONSTANTS
    Requests,
    Forms,      \* forms of request bodies looked at
    Replies,    \* forms of response bodies looked at
    NULL

\* Errors of the body parser that Nest gives no response of its own.
Unparsed == {"too_large", "unreadable"}
Fates == Unparsed \cup {"malformed", "no_route", "unauthorized", "forbidden",
                        "invalid", "rejected", "broken", "fine"}

\* The files in each form of multipart body, and what multer leaves of them on
\* the request: a file, a list of files, or a list for each field's name.
Attached == [one |-> {"f1"}, array |-> {"f1", "f2"}, fields |-> {"f1", "f2"}]
NoFiles == [file |-> {}, list |-> {}, byField |-> {}]
Uploaded ==
    [one |-> [NoFiles EXCEPT !.file = {"f1"}],
     array |-> [NoFiles EXCEPT !.list = {"f1", "f2"}],
     fields |-> [NoFiles EXCEPT !.byField = {{"f1"}, {"f2"}}]]
Multipart == DOMAIN Attached

\* What res.send is given in the end: express makes an object its JSON, and a
\* stream passes it by.
Wire ==
    [object |-> "json", json |-> "json", text |-> "text", buffer |-> "buffer",
     stream |-> NULL, nothing |-> NULL]

HttpCode == 200   \* of the handlers that answer with a body
Status(fate) ==
    CASE fate = "too_large" -> 413
      [] fate = "no_route" -> 404
      [] fate = "unauthorized" -> 401
      [] fate = "forbidden" -> 403
      [] fate \in {"malformed", "invalid", "rejected"} -> 400
      [] fate \in {"unreadable", "broken"} -> 500
      [] fate = "fine" -> HttpCode

Statuses == {Status(fate) : fate \in Fates}

LogEntity ==
    [status_code : Statuses, request_body : SUBSET {"json", "f1", "f2"},
     response_body : {NULL, "object", "text", "size"},
     error_stack : BOOLEAN, user_id : BOOLEAN]

ASSUME NullAssumption ==
    /\ NULL \notin Requests \cup Fates \cup DOMAIN Wire
    /\ NULL \notin [fate : Fates, body : DOMAIN Wire] \cup LogEntity
ASSUME FormAssumption == Forms \subseteq Multipart \cup {"json", "empty"}
ASSUME ReplyAssumption == Replies \subseteq DOMAIN Wire

VARIABLES
    pc,            \* stage of each request
    call,          \* what it is: [form, guarded, token]
    files,         \* req.file and req.files
    user,          \* req.user is set
    statusCode,    \* res.statusCode
    listening,     \* the interceptor patched send and listens to res
    capturedBody,
    errorStack,    \* req.__apiLogErrorStack
    sent,          \* the response that was sent, or NULL
    socket,        \* open, finished (response handed over) or closed
    saved,
    saving,        \* inserts begun; a failed one is only reported
    row            \* the entity built for the request, NULL before

request == <<call, files, user>>
response == <<statusCode, capturedBody, errorStack, sent>>
log == <<saved, saving, row>>
vars == <<pc, request, response, listening, socket, log>>

-----------------------------------------------------------------------------
Go(r, stage) == pc' = [pc EXCEPT ![r] = stage]

\* The response goes out: captured if the interceptor has patched send.
Send(r, fate, body) ==
    /\ sent' = [sent EXCEPT ![r] = [fate |-> fate, body |-> body]]
    /\ statusCode' = [statusCode EXCEPT ![r] = Status(fate)]
    /\ capturedBody' = [capturedBody EXCEPT ![r] = IF listening[r] THEN Wire[body] ELSE NULL]
    /\ Go(r, "responded")
    /\ UNCHANGED <<listening, socket, log>>

NoStack(r, fate) ==   \* slip: the filter attaches no stack
    /\ Send(r, fate, "object")
    /\ UNCHANGED <<errorStack, request>>

\* CustomErrorFilter: an error without a response leaves its stack.
Catch(r, fate) ==
    /\ Send(r, fate, "object")
    /\ errorStack' = [errorStack EXCEPT ![r] = fate \in Unparsed \cup {"broken"}]
    /\ UNCHANGED request

\* The body parser, which reads JSON and forms only, and the router come before
\* everything else of Nest's.  Text that is no JSON is a 400 of Nest's own; of a
\* charset, a count of parameters or an abort the filter knows nothing.
Route(r) ==
    /\ pc[r] = "arrived"
    /\ \/ /\ call[r].form = "json"
          /\ \E fate \in Unparsed \cup {"malformed"} : Catch(r, fate)
       \/ Catch(r, "no_route")
       \/ Go(r, "guards") /\ UNCHANGED <<request, response, listening, socket, log>>

\* PassportJwtAuthGuard, which sets the user, and RolesGuard, where the route
\* has them; then Nest sets the handler's status.
Guard(r) ==
    /\ pc[r] = "guards"
    /\ \/ call[r].guarded /\ ~call[r].token /\ Catch(r, "unauthorized")
       \/ call[r].guarded /\ call[r].token /\ Catch(r, "forbidden")
       \/ /\ call[r].guarded => call[r].token
          /\ user' = [user EXCEPT ![r] = call[r].guarded]
          /\ Go(r, "interceptor")
          /\ statusCode' = [statusCode EXCEPT ![r] = HttpCode]
          /\ UNCHANGED <<call, files, capturedBody, errorStack, sent, listening, socket, log>>

\* ApiLogInterceptor.intercept.
Intercept(r) ==
    /\ pc[r] = "interceptor"
    /\ listening' = [listening EXCEPT ![r] = TRUE]
    /\ Go(r, "upload")
    /\ UNCHANGED <<request, response, socket, log>>

\* A route's own interceptor reads a multipart body, or refuses it.
Upload(r) ==
    /\ pc[r] = "upload"
    /\ \/ call[r].form \in Multipart /\ Catch(r, "rejected")
       \/ /\ files' = [files EXCEPT ![r] =
                IF call[r].form \in Multipart THEN Uploaded[call[r].form] ELSE @]
          /\ Go(r, "handler")
          /\ UNCHANGED <<call, user, response, listening, socket, log>>

\* The pipe and the handler, which may take long.
Handle(r) ==
    /\ pc[r] = "handler"
    /\ \/ \E fate \in {"invalid", "rejected", "broken"} : Catch(r, fate)
       \/ /\ \E body \in Replies : Send(r, "fine", body)
          /\ UNCHANGED <<errorStack, request>>

-----------------------------------------------------------------------------
ListedFiles(f) == f.file \cup f.list   \* slip: files by field forgotten
FileMeta(f) == f.file \cup f.list \cup UNION f.byField

\* The parts that are kept: of a multipart body the data on its files, of an
\* empty one nothing.
ExtractBody(r) ==
    IF call[r].form \in Multipart THEN FileMeta(files[r]) ELSE {call[r].form} \ {"empty"}

\* A text that is JSON becomes what it says; of a buffer the size is kept.
ParseResponseBody(body) ==
    CASE body = NULL -> NULL
      [] body = "json" -> "object"
      [] body = "buffer" -> "size"
      [] OTHER -> body

BuildLogEntity(r) ==
    [status_code |-> statusCode[r], request_body |-> ExtractBody(r),
     response_body |-> ParseResponseBody(capturedBody[r]),
     error_stack |-> errorStack[r], user_id |-> user[r]]

SaveLogTwice(r) ==   \* slip: both events save
    IF ~listening[r] THEN UNCHANGED log
    ELSE /\ saved' = [saved EXCEPT ![r] = TRUE]
         /\ saving' = [saving EXCEPT ![r] = @ + 1]
         /\ row' = [row EXCEPT ![r] = BuildLogEntity(r)]

\* saveLog, if the interceptor has registered it.
SaveLog(r) ==
    IF ~listening[r] \/ saved[r] THEN UNCHANGED log
    ELSE /\ saved' = [saved EXCEPT ![r] = TRUE]
         /\ saving' = [saving EXCEPT ![r] = @ + 1]
         /\ row' = [row EXCEPT ![r] = BuildLogEntity(r)]

\* The finish event: the response is handed to the operating system.
Finish(r) ==
    /\ sent[r] # NULL
    /\ socket[r] = "open"
    /\ socket' = [socket EXCEPT ![r] = "finished"]
    /\ SaveLog(r)
    /\ UNCHANGED <<pc, request, response, listening>>

CloseUnheard(r) ==   \* slip: finish is the only listener
    /\ socket[r] \in {"open", "finished"}
    /\ socket[r] = "open" => pc[r] # "idle"
    /\ socket' = [socket EXCEPT ![r] = "closed"]
    /\ UNCHANGED <<pc, request, response, listening, log>>

\* The close event: after finish, or at any time when the client disconnects.
Close(r) ==
    /\ socket[r] \in {"open", "finished"}
    /\ socket[r] = "open" => pc[r] # "idle"
    /\ socket' = [socket EXCEPT ![r] = "closed"]
    /\ SaveLog(r)
    /\ UNCHANGED <<pc, request, response, listening>>

Calls == [form : Forms, guarded : BOOLEAN, token : BOOLEAN]

Arrive(r) ==
    /\ pc[r] = "idle"
    /\ \E c \in Calls : call' = [call EXCEPT ![r] = c]
    /\ Go(r, "arrived")
    /\ UNCHANGED <<files, user, response, listening, socket, log>>

-----------------------------------------------------------------------------
Init ==
    /\ pc = [r \in Requests |-> "idle"]
    /\ call = [r \in Requests |-> NULL]
    /\ files = [r \in Requests |-> NoFiles]
    /\ user = [r \in Requests |-> FALSE]
    /\ statusCode = [r \in Requests |-> 200]
    /\ listening = [r \in Requests |-> FALSE]
    /\ capturedBody = [r \in Requests |-> NULL]
    /\ errorStack = [r \in Requests |-> FALSE]
    /\ sent = [r \in Requests |-> NULL]
    /\ socket = [r \in Requests |-> "open"]
    /\ saved = [r \in Requests |-> FALSE]
    /\ saving = [r \in Requests |-> 0]
    /\ row = [r \in Requests |-> NULL]

Stage(r) == Route(r) \/ Guard(r) \/ Intercept(r) \/ Upload(r) \/ Handle(r)

Next == \E r \in Requests : Arrive(r) \/ Stage(r) \/ Finish(r) \/ Close(r)

Spec == Init /\ [][Next]_vars

\* The event loop runs every stage; a response is handed over or its socket
\* closes.  Clients need not send anything, nor disconnect.
Fairness == \A r \in Requests : WF_vars(Stage(r)) /\ WF_vars(Finish(r))

FairSpec == Spec /\ Fairness

-----------------------------------------------------------------------------
\* The type of every variable.
TypeOK ==
    /\ pc \in [Requests -> {"idle", "arrived", "guards", "interceptor", "upload",
                            "handler", "responded"}]
    /\ call \in [Requests -> Calls \cup {NULL}]
    /\ files \in [Requests -> {NoFiles} \cup {Uploaded[f] : f \in Multipart}]
    /\ user \in [Requests -> BOOLEAN]
    /\ statusCode \in [Requests -> Statuses]
    /\ listening \in [Requests -> BOOLEAN]
    /\ capturedBody \in [Requests -> {NULL, "json", "text", "buffer"}]
    /\ errorStack \in [Requests -> BOOLEAN]
    /\ sent \in [Requests -> [fate : Fates, body : DOMAIN Wire] \cup {NULL}]
    /\ socket \in [Requests -> {"open", "finished", "closed"}]
    /\ saved \in [Requests -> BOOLEAN]
    /\ saving \in [Requests -> 0 .. 1]
    /\ row \in [Requests -> LogEntity \cup {NULL}]

\* api-log.interceptor.ts:14: a row of a response that was handed over whole
\* tells its status, and the stack exactly when the error was nobody's
\* intention, whichever of the two events comes when; its body too, as the
\* object that a JSON text says, the size of a buffer, and nothing of a stream.
RowTellsResponse ==
    \A r \in Requests : socket[r] = "finished" /\ row[r] # NULL =>
        /\ row[r].status_code = Status(sent[r].fate)
        /\ row[r].response_body =
              CASE sent[r].body \in {"object", "json"} -> "object"
                [] sent[r].body = "buffer" -> "size"
                [] sent[r].body = "text" -> "text"
                [] sent[r].body \in {"stream", "nothing"} -> NULL
        /\ row[r].error_stack <=> sent[r].fate = "broken"

\* api-log.interceptor.ts:105, 121: a row names a user exactly if the route asks
\* for one, and lists every file of an upload that was accepted and answered; a
\* client that leaves before is logged with no file that it did not send.  A body
\* without files is there as it came, whenever the row is made.
RowTellsRequest ==
    \A r \in Requests : row[r] # NULL =>
        /\ row[r].user_id <=> call[r].guarded
        /\ call[r].form \in Multipart =>
              /\ row[r].request_body \subseteq Attached[call[r].form]
              /\ socket[r] = "finished" /\ sent[r].fate = "fine" =>
                    row[r].request_body = Attached[call[r].form]
        /\ call[r].form \notin Multipart =>
              row[r].request_body = {call[r].form} \ {"empty"}

\* api-log.interceptor.ts:62: every request whose client is still there when
\* the interceptor runs is logged in the end, be the client gone before the
\* handler is done.
InterceptedIsLogged ==
    \A r \in Requests : pc[r] = "upload" /\ socket[r] = "open" ~> row[r] # NULL

\* api-log.interceptor.ts:10: every HTTP request that was answered is logged.
EveryResponseLogged ==
    \A r \in Requests : socket[r] = "finished" => row[r] # NULL
=============================================================================
