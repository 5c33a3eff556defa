------------------------ MODULE ApiLogCaptureProofs ------------------------
(***************************************************************************)
(* A row of the API log tells its request and its response truly, for any  *)
(* number of requests at once, whenever their clients leave; and what is   *)
(* listened to ends in a row.                                              *)
(***************************************************************************)
EXTENDS ApiLogCapture, TLAPS

\* Nothing of a response is there before it is sent, and all of it once it is.
Answered(r) ==
    /\ pc[r] # "responded" => sent[r] = NULL /\ ~errorStack[r] /\ capturedBody[r] = NULL
    /\ pc[r] = "responded" =>
          /\ sent[r] \in [fate : Fates, body : DOMAIN Wire]
          /\ statusCode[r] = Status(sent[r].fate)
          /\ errorStack[r] <=> sent[r].fate \in Unparsed \cup {"broken"}
          /\ listening[r] => /\ capturedBody[r] = Wire[sent[r].body]
                             /\ sent[r].fate \notin Unparsed

\* The guards are behind whoever listens, and the user is known.
Heard(r) ==
    /\ pc[r] \in {"idle", "arrived", "guards", "interceptor"} => ~listening[r]
    /\ pc[r] # "idle" => call[r] \in Calls
    /\ pc[r] = "interceptor" \/ listening[r] => (user[r] <=> call[r].guarded)

\* The files are those of the request's form, all of them behind the upload.
Attaches(r) ==
    /\ pc[r] = "idle" => files[r] = NoFiles
    /\ \/ files[r] = NoFiles
       \/ call[r].form \in Multipart /\ files[r] = Uploaded[call[r].form]
    /\ pc[r] = "handler" \/ (pc[r] = "responded" /\ sent[r].fate = "fine") =>
          (call[r].form \in Multipart => files[r] = Uploaded[call[r].form])

\* A row is saved by whoever listens, once, and what its response was does not
\* change under it.
Logged(r) ==
    /\ socket[r] = "open" => ~saved[r]
    /\ socket[r] = "finished" => pc[r] = "responded"
    /\ saving[r] = IF saved[r] THEN 1 ELSE 0
    /\ row[r] # NULL =>
          /\ saved[r] /\ listening[r]
          /\ row[r].user_id = user[r]
          /\ call[r].form \in Multipart => row[r].request_body \subseteq Attached[call[r].form]
          /\ call[r].form \notin Multipart => row[r].request_body = {call[r].form} \ {"empty"}
          /\ socket[r] = "finished" => row[r] = BuildLogEntity(r)

CInv ==
    /\ TypeOK
    /\ \A r \in Requests : Answered(r) /\ Heard(r) /\ Attaches(r) /\ Logged(r)

-----------------------------------------------------------------------------
(* Lemmas about the forms of bodies.                                       *)

LEMMA StatusTypes ==
    /\ \A fate \in Fates : Status(fate) \in Statuses
    /\ 200 \in Statuses
    /\ HttpCode \in Statuses
<1>1. Status("fine") = 200 /\ "fine" \in Fates
  BY DEF Status, Fates, HttpCode
<1> QED
  BY <1>1 DEF Statuses, HttpCode

LEMMA WireForms ==
    /\ DOMAIN Wire = {"object", "json", "text", "buffer", "stream", "nothing"}
    /\ Wire["object"] = "json" /\ Wire["json"] = "json"
    /\ Wire["text"] = "text" /\ Wire["buffer"] = "buffer"
    /\ Wire["stream"] = NULL /\ Wire["nothing"] = NULL
BY DEF Wire

LEMMA NullIsNoForm == NULL \notin {"json", "text", "buffer"}
BY NullAssumption, WireForms

\* What a row keeps of a response of each form.
LEMMA Kept ==
    /\ ParseResponseBody(Wire["object"]) = "object"
    /\ ParseResponseBody(Wire["json"]) = "object"
    /\ ParseResponseBody(Wire["text"]) = "text"
    /\ ParseResponseBody(Wire["buffer"]) = "size"
    /\ ParseResponseBody(Wire["stream"]) = NULL
    /\ ParseResponseBody(Wire["nothing"]) = NULL
BY WireForms, NullIsNoForm DEF ParseResponseBody

LEMMA ParsedTypes ==
    \A body \in {NULL, "json", "text", "buffer"} :
        ParseResponseBody(body) \in {NULL, "object", "text", "size"}
BY NullIsNoForm DEF ParseResponseBody

\* The data on files is complete, whatever multer left them under.
LEMMA FilesOfForm ==
    \A f \in Multipart : FileMeta(Uploaded[f]) = Attached[f] /\ Attached[f] \subseteq {"f1", "f2"}
<1>1. Multipart = {"one", "array", "fields"}
  BY DEF Multipart, Attached
<1>2. FileMeta(Uploaded["one"]) = {"f1"} /\ Attached["one"] = {"f1"}
  BY DEF FileMeta, Uploaded, NoFiles, Attached
<1>3. FileMeta(Uploaded["array"]) = {"f1", "f2"} /\ Attached["array"] = {"f1", "f2"}
  BY DEF FileMeta, Uploaded, NoFiles, Attached
<1>4. FileMeta(Uploaded["fields"]) = {"f1", "f2"} /\ Attached["fields"] = {"f1", "f2"}
  BY DEF FileMeta, Uploaded, NoFiles, Attached
<1> QED
  BY <1>1, <1>2, <1>3, <1>4

LEMMA NoFilesNoMeta == FileMeta(NoFiles) = {}
BY DEF FileMeta, NoFiles

-----------------------------------------------------------------------------
(* A step of one request.                                                  *)

Mine(r) == Answered(r) /\ Heard(r) /\ Attaches(r) /\ Logged(r)

\* Requests share nothing.
Same(s) ==
    /\ pc'[s] = pc[s] /\ call'[s] = call[s] /\ files'[s] = files[s] /\ user'[s] = user[s]
    /\ statusCode'[s] = statusCode[s] /\ listening'[s] = listening[s]
    /\ capturedBody'[s] = capturedBody[s] /\ errorStack'[s] = errorStack[s]
    /\ sent'[s] = sent[s] /\ socket'[s] = socket[s]
    /\ saved'[s] = saved[s] /\ saving'[s] = saving[s] /\ row'[s] = row[s]

LEMMA Undisturbed == \A s \in Requests : Mine(s) /\ Same(s) => Mine(s)'
<1> SUFFICES ASSUME NEW s \in Requests, Mine(s), Same(s) PROVE Mine(s)'
  OBVIOUS
<1>1. BuildLogEntity(s)' = BuildLogEntity(s)
  BY DEF Same, BuildLogEntity, ExtractBody
<1>2. Answered(s)' /\ Heard(s)' /\ Attaches(s)'
  BY DEF Mine, Same, Answered, Heard, Attaches
<1>3. Logged(s)'
  BY <1>1 DEF Mine, Same, Logged
<1> QED
  BY <1>2, <1>3 DEF Mine

LEMMA RowTypes ==
    ASSUME TypeOK, NEW r \in Requests, call[r] \in Calls
    PROVE  BuildLogEntity(r) \in LogEntity
<1>1. ExtractBody(r) \subseteq {"json", "f1", "f2"}
  <2>1. FileMeta(files[r]) \subseteq {"f1", "f2"}
    BY FilesOfForm, NoFilesNoMeta DEF TypeOK
  <2>2. call[r].form \in Multipart \cup {"json", "empty"}
    BY FormAssumption DEF Calls
  <2> QED
    BY <2>1, <2>2 DEF ExtractBody
<1>2. statusCode[r] \in Statuses
  BY DEF TypeOK
<1>3. ParseResponseBody(capturedBody[r]) \in {NULL, "object", "text", "size"}
  BY ParsedTypes DEF TypeOK
<1>4. errorStack[r] \in BOOLEAN /\ user[r] \in BOOLEAN
  BY DEF TypeOK
<1> QED
  BY <1>1, <1>2, <1>3, <1>4 DEF BuildLogEntity, LogEntity

\* The response of a request that is still at work.
LEMMA CatchKeeps ==
    ASSUME CInv, NEW r \in Requests, NEW fate \in Fates \ {"fine"}, Catch(r, fate),
           pc[r] \in {"arrived", "guards", "upload", "handler"},
           fate \in Unparsed => pc[r] = "arrived"
    PROVE  CInv'
<1>0. TypeOK /\ \A s \in Requests : Mine(s)
  BY DEF CInv, Mine
<1>1. /\ sent' = [sent EXCEPT ![r] = [fate |-> fate, body |-> "object"]]
      /\ statusCode' = [statusCode EXCEPT ![r] = Status(fate)]
      /\ capturedBody' = [capturedBody EXCEPT ![r] = IF listening[r] THEN "json" ELSE NULL]
      /\ pc' = [pc EXCEPT ![r] = "responded"]
      /\ errorStack' = [errorStack EXCEPT ![r] = fate \in Unparsed \cup {"broken"}]
      /\ UNCHANGED <<listening, socket, saved, saving, row, call, files, user>>
  BY WireForms DEF Catch, Send, Go, log, request
<1>2. TypeOK'
  <2>1. sent' \in [Requests -> [fate : Fates, body : DOMAIN Wire] \cup {NULL}]
    BY <1>0, <1>1, WireForms DEF TypeOK
  <2>2. statusCode' \in [Requests -> Statuses]
    BY <1>0, <1>1, StatusTypes DEF TypeOK
  <2>3. capturedBody' \in [Requests -> {NULL, "json", "text", "buffer"}]
    BY <1>0, <1>1 DEF TypeOK
  <2>4. pc' \in [Requests -> {"idle", "arrived", "guards", "interceptor", "upload",
                              "handler", "responded"}]
    BY <1>0, <1>1 DEF TypeOK
  <2>5. errorStack' \in [Requests -> BOOLEAN]
    BY <1>0, <1>1 DEF TypeOK
  <2> QED
    BY <1>0, <1>1, <2>1, <2>2, <2>3, <2>4, <2>5 DEF TypeOK
<1>3. \A s \in Requests \ {r} : Same(s)
  BY <1>0, <1>1 DEF TypeOK, Same
<1>4. Mine(r)'
  <2>1. /\ pc'[r] = "responded"
        /\ sent'[r] = [fate |-> fate, body |-> "object"]
        /\ statusCode'[r] = Status(fate)
        /\ capturedBody'[r] = IF listening[r] THEN Wire["object"] ELSE NULL
        /\ errorStack'[r] = (fate \in Unparsed \cup {"broken"})
    BY <1>0, <1>1, WireForms DEF TypeOK
  <2>2. socket[r] # "finished"
    BY <1>0 DEF Mine, Logged
  <2>3. Answered(r)'
    <3>1. fate \in Unparsed => ~listening[r]
      BY <1>0 DEF Mine, Heard
    <3>2. sent'[r].fate = fate /\ sent'[r].body = "object"
      BY <2>1
    <3>3. sent'[r] \in [fate : Fates, body : DOMAIN Wire]
      BY <2>1, WireForms
    <3>4. errorStack'[r] <=> sent'[r].fate \in Unparsed \cup {"broken"}
      BY <2>1, <3>2
    <3>5. listening'[r] => /\ capturedBody'[r] = Wire[sent'[r].body]
                           /\ sent'[r].fate \notin Unparsed
      BY <1>1, <2>1, <3>1, <3>2
    <3> QED
      BY <2>1, <3>2, <3>3, <3>4, <3>5 DEF Answered
  <2>4. Heard(r)'
    BY <1>0, <1>1, <2>1 DEF Mine, Heard
  <2>5. Attaches(r)'
    BY <1>0, <1>1, <2>1 DEF Mine, Attaches
  <2>6. Logged(r)'
    BY <1>0, <1>1, <2>2 DEF Mine, Logged
  <2> QED
    BY <2>3, <2>4, <2>5, <2>6 DEF Mine
<1> QED
  BY <1>0, <1>2, <1>3, <1>4, Undisturbed DEF CInv, Mine

LEMMA AnswerKeeps ==
    ASSUME CInv, NEW r \in Requests, NEW body \in Replies, Send(r, "fine", body),
           pc[r] = "handler", UNCHANGED <<errorStack, request>>
    PROVE  CInv'
<1>0. TypeOK /\ \A s \in Requests : Mine(s)
  BY DEF CInv, Mine
<1>1. /\ sent' = [sent EXCEPT ![r] = [fate |-> "fine", body |-> body]]
      /\ statusCode' = [statusCode EXCEPT ![r] = Status("fine")]
      /\ capturedBody' = [capturedBody EXCEPT ![r] = IF listening[r] THEN Wire[body] ELSE NULL]
      /\ pc' = [pc EXCEPT ![r] = "responded"]
      /\ UNCHANGED <<listening, socket, saved, saving, row, call, files, user, errorStack>>
  BY DEF Send, Go, log, request
<1>2. "fine" \in Fates /\ body \in DOMAIN Wire
  BY ReplyAssumption DEF Fates
<1>3. TypeOK'
  <2>1. sent' \in [Requests -> [fate : Fates, body : DOMAIN Wire] \cup {NULL}]
    BY <1>0, <1>1, <1>2 DEF TypeOK
  <2>2. statusCode' \in [Requests -> Statuses]
    BY <1>0, <1>1, <1>2, StatusTypes DEF TypeOK
  <2>3. capturedBody' \in [Requests -> {NULL, "json", "text", "buffer"}]
    BY <1>0, <1>1, <1>2, WireForms DEF TypeOK
  <2>4. pc' \in [Requests -> {"idle", "arrived", "guards", "interceptor", "upload",
                              "handler", "responded"}]
    BY <1>0, <1>1 DEF TypeOK
  <2> QED
    BY <1>0, <1>1, <2>1, <2>2, <2>3, <2>4 DEF TypeOK
<1>4. \A s \in Requests \ {r} : Same(s)
  BY <1>0, <1>1 DEF TypeOK, Same
<1>5. Mine(r)'
  <2>1. /\ pc'[r] = "responded"
        /\ sent'[r] = [fate |-> "fine", body |-> body]
        /\ statusCode'[r] = Status("fine")
        /\ capturedBody'[r] = IF listening[r] THEN Wire[body] ELSE NULL
    BY <1>0, <1>1 DEF TypeOK
  <2>2. socket[r] # "finished"
    BY <1>0 DEF Mine, Logged
  <2>3. Answered(r)'
    BY <1>0, <1>1, <1>2, <2>1 DEF Mine, Answered, Unparsed
  <2>4. Heard(r)'
    BY <1>0, <1>1, <2>1 DEF Mine, Heard
  <2>5. Attaches(r)'
    BY <1>0, <1>1, <2>1 DEF Mine, Attaches
  <2>6. Logged(r)'
    BY <1>0, <1>1, <2>2 DEF Mine, Logged
  <2> QED
    BY <2>3, <2>4, <2>5, <2>6 DEF Mine
<1> QED
  BY <1>0, <1>3, <1>4, <1>5, Undisturbed DEF CInv, Mine

\* The steps of a request up to its response, without their errors.
LEMMA ForwardKeeps ==
    ASSUME CInv, NEW r \in Requests,
           \/ pc[r] = "idle" /\ Arrive(r)
           \/ pc[r] = "arrived" /\ Go(r, "guards") /\ UNCHANGED <<request, listening, statusCode>>
           \/ /\ pc[r] = "guards"
              /\ call[r].guarded => call[r].token
              /\ user' = [user EXCEPT ![r] = call[r].guarded]
              /\ Go(r, "interceptor")
              /\ statusCode' = [statusCode EXCEPT ![r] = HttpCode]
              /\ UNCHANGED <<call, files, listening>>
           \/ Intercept(r)
           \/ /\ pc[r] = "upload"
              /\ files' = [files EXCEPT ![r] =
                    IF call[r].form \in Multipart THEN Uploaded[call[r].form] ELSE @]
              /\ Go(r, "handler")
              /\ UNCHANGED <<call, user, listening, statusCode>>,
           UNCHANGED <<capturedBody, errorStack, sent, socket, log>>
    PROVE  CInv'
<1>0. TypeOK /\ \A s \in Requests : Mine(s)
  BY DEF CInv, Mine
<1>1. /\ UNCHANGED <<capturedBody, errorStack, sent, socket, saved, saving, row>>
      /\ pc[r] # "responded" /\ socket[r] # "finished"
  BY <1>0 DEF log, Mine, Logged, Arrive, Intercept
<1>2. CASE pc[r] = "idle" /\ Arrive(r)
  <2>1. PICK c \in Calls : call' = [call EXCEPT ![r] = c]
    BY <1>2 DEF Arrive
  <2>2. /\ pc' = [pc EXCEPT ![r] = "arrived"]
        /\ UNCHANGED <<files, user, statusCode, listening>>
    BY <1>2 DEF Arrive, Go, response
  <2>3. TypeOK'
    BY <1>0, <1>1, <2>1, <2>2 DEF TypeOK
  <2>4. \A s \in Requests \ {r} : Same(s)
    BY <1>0, <1>1, <2>1, <2>2 DEF TypeOK, Same
  <2>5. pc'[r] = "arrived" /\ call'[r] = c
    BY <1>0, <2>1, <2>2 DEF TypeOK
  <2>6. ~listening[r] /\ files[r] = NoFiles
    BY <1>0, <1>2 DEF Mine, Heard, Attaches
  <2>7. Answered(r)' /\ Heard(r)' /\ Attaches(r)'
    BY <1>0, <1>1, <1>2, <2>2, <2>5, <2>6 DEF Mine, Answered, Heard, Attaches
  <2>8. Logged(r)'
    BY <1>0, <1>1, <2>2, <2>6 DEF Mine, Logged
  <2> QED
    BY <1>0, <2>3, <2>4, <2>7, <2>8, Undisturbed DEF CInv, Mine
<1>3. CASE /\ pc[r] = "arrived" /\ Go(r, "guards")
           /\ UNCHANGED <<request, listening, statusCode>>
  <2>1. /\ pc' = [pc EXCEPT ![r] = "guards"]
        /\ UNCHANGED <<call, files, user, listening, statusCode>>
    BY <1>3 DEF Go, request
  <2>2. TypeOK'
    BY <1>0, <1>1, <2>1 DEF TypeOK
  <2>3. \A s \in Requests \ {r} : Same(s)
    BY <1>0, <1>1, <2>1 DEF TypeOK, Same
  <2>4. pc'[r] = "guards"
    BY <1>0, <2>1 DEF TypeOK
  <2>5. Answered(r)' /\ Heard(r)' /\ Attaches(r)'
    BY <1>0, <1>1, <1>3, <2>1, <2>4 DEF Mine, Answered, Heard, Attaches
  <2>6. Logged(r)'
    BY <1>0, <1>1, <2>1 DEF Mine, Logged
  <2> QED
    BY <1>0, <2>2, <2>3, <2>5, <2>6, Undisturbed DEF CInv, Mine
<1>4. CASE /\ pc[r] = "guards"
           /\ call[r].guarded => call[r].token
           /\ user' = [user EXCEPT ![r] = call[r].guarded]
           /\ Go(r, "interceptor")
           /\ statusCode' = [statusCode EXCEPT ![r] = HttpCode]
           /\ UNCHANGED <<call, files, listening>>
  <2>1. /\ pc' = [pc EXCEPT ![r] = "interceptor"]
        /\ call[r] \in Calls /\ ~listening[r]
    BY <1>0, <1>4 DEF Go, Mine, Heard
  <2>2. TypeOK'
    <3>1. user' \in [Requests -> BOOLEAN]
      BY <1>0, <1>4, <2>1 DEF TypeOK, Calls
    <3>2. statusCode' \in [Requests -> Statuses]
      BY <1>0, <1>4, StatusTypes DEF TypeOK
    <3>3. pc' \in [Requests -> {"idle", "arrived", "guards", "interceptor", "upload",
                                "handler", "responded"}]
      BY <1>0, <2>1 DEF TypeOK
    <3> QED
      BY <1>0, <1>1, <1>4, <3>1, <3>2, <3>3 DEF TypeOK
  <2>3. \A s \in Requests \ {r} : Same(s)
    BY <1>0, <1>1, <1>4, <2>1 DEF TypeOK, Same
  <2>4. pc'[r] = "interceptor" /\ user'[r] = call[r].guarded
    BY <1>0, <1>4, <2>1 DEF TypeOK
  <2>5. Answered(r)' /\ Attaches(r)'
    BY <1>0, <1>1, <1>4, <2>4 DEF Mine, Answered, Attaches
  <2>6. Heard(r)'
    BY <1>0, <1>1, <1>4, <2>1, <2>4 DEF Mine, Heard
  <2>7. Logged(r)'
    BY <1>0, <1>1, <1>4, <2>1 DEF Mine, Logged
  <2> QED
    BY <1>0, <2>2, <2>3, <2>5, <2>6, <2>7, Undisturbed DEF CInv, Mine
<1>5. CASE Intercept(r)
  <2>1. /\ pc[r] = "interceptor" /\ pc' = [pc EXCEPT ![r] = "upload"]
        /\ listening' = [listening EXCEPT ![r] = TRUE]
        /\ UNCHANGED <<call, files, user, statusCode>>
    BY <1>5 DEF Intercept, Go, request, response
  <2>2. TypeOK'
    BY <1>0, <1>1, <2>1 DEF TypeOK
  <2>3. \A s \in Requests \ {r} : Same(s)
    BY <1>0, <1>1, <2>1 DEF TypeOK, Same
  <2>4. pc'[r] = "upload" /\ listening'[r] /\ ~listening[r]
    BY <1>0, <2>1 DEF TypeOK, Mine, Heard
  <2>5. Answered(r)' /\ Attaches(r)' /\ Heard(r)'
    BY <1>0, <1>1, <2>1, <2>4 DEF Mine, Answered, Attaches, Heard
  <2>6. Logged(r)'
    BY <1>0, <1>1, <2>1, <2>4 DEF Mine, Logged
  <2> QED
    BY <1>0, <2>2, <2>3, <2>5, <2>6, Undisturbed DEF CInv, Mine
<1>6. CASE /\ pc[r] = "upload"
           /\ files' = [files EXCEPT ![r] =
                 IF call[r].form \in Multipart THEN Uploaded[call[r].form] ELSE @]
           /\ Go(r, "handler")
           /\ UNCHANGED <<call, user, listening, statusCode>>
  <2>1. pc' = [pc EXCEPT ![r] = "handler"]
    BY <1>6 DEF Go
  <2>2. pc'[r] = "handler"
    BY <1>0, <2>1 DEF TypeOK
  <2>3. /\ call[r].form \in Multipart => files'[r] = Uploaded[call[r].form]
        /\ call[r].form \notin Multipart => files'[r] = files[r]
    BY <1>0, <1>6 DEF TypeOK
  <2>4. TypeOK'
    <3>1. files' \in [Requests -> {NoFiles} \cup {Uploaded[f] : f \in Multipart}]
      BY <1>0, <1>6 DEF TypeOK
    <3> QED
      BY <1>0, <1>1, <1>6, <2>1, <3>1 DEF TypeOK
  <2>5. \A s \in Requests \ {r} : Same(s)
    BY <1>0, <1>1, <1>6, <2>1 DEF TypeOK, Same
  <2>6. Answered(r)' /\ Heard(r)'
    BY <1>0, <1>1, <1>6, <2>2 DEF Mine, Answered, Heard
  <2>7. Attaches(r)'
    BY <1>0, <1>6, <2>2, <2>3 DEF Mine, Attaches
  <2>8. Logged(r)'
    BY <1>0, <1>1, <1>6 DEF Mine, Logged
  <2> QED
    BY <1>0, <2>4, <2>5, <2>6, <2>7, <2>8, Undisturbed DEF CInv, Mine
<1> QED
  BY <1>2, <1>3, <1>4, <1>5, <1>6

\* Finish and close.
LEMMA EventKeeps ==
    ASSUME CInv, NEW r \in Requests, NEW to \in {"finished", "closed"},
           socket[r] \in {"open", "finished"},
           to = "finished" => sent[r] # NULL /\ socket[r] = "open",
           socket[r] = "open" => pc[r] # "idle",
           socket' = [socket EXCEPT ![r] = to], SaveLog(r),
           UNCHANGED <<pc, request, response, listening>>
    PROVE  CInv'
<1>0. TypeOK /\ \A s \in Requests : Mine(s)
  BY DEF CInv, Mine
<1>1. /\ UNCHANGED <<pc, call, files, user, statusCode, capturedBody, errorStack, sent, listening>>
      /\ socket'[r] = to
  BY <1>0 DEF request, response, TypeOK
<1>2. \/ UNCHANGED <<saved, saving, row>> /\ (~listening[r] \/ saved[r])
      \/ /\ listening[r] /\ ~saved[r]
         /\ saved' = [saved EXCEPT ![r] = TRUE]
         /\ saving' = [saving EXCEPT ![r] = @ + 1]
         /\ row' = [row EXCEPT ![r] = BuildLogEntity(r)]
  BY DEF SaveLog, log
<1>3. call[r] \in Calls \/ pc[r] = "idle"
  BY <1>0 DEF Mine, Heard
<1>4. listening[r] => pc[r] # "idle"
  BY <1>0 DEF Mine, Heard
<1>5. saving[r] = IF saved[r] THEN 1 ELSE 0
  BY <1>0 DEF Mine, Logged
<1>6. TypeOK'
  <2>1. socket' \in [Requests -> {"open", "finished", "closed"}]
    BY <1>0 DEF TypeOK
  <2>2. saved' \in [Requests -> BOOLEAN]
    BY <1>0, <1>2 DEF TypeOK
  <2>3. saving' \in [Requests -> 0 .. 1]
    BY <1>0, <1>2, <1>5 DEF TypeOK
  <2>4. row' \in [Requests -> LogEntity \cup {NULL}]
    <3>1. listening[r] => BuildLogEntity(r) \in LogEntity
      BY <1>0, <1>3, <1>4, RowTypes
    <3> QED
      BY <1>0, <1>2, <3>1 DEF TypeOK
  <2> QED
    BY <1>0, <1>1, <2>1, <2>2, <2>3, <2>4 DEF TypeOK
<1>7. \A s \in Requests \ {r} : Same(s)
  BY <1>0, <1>1, <1>2 DEF TypeOK, Same
<1>8. Answered(r)' /\ Heard(r)' /\ Attaches(r)'
  BY <1>0, <1>1 DEF Mine, Answered, Heard, Attaches
<1>9. Logged(r)'
  <2>1. BuildLogEntity(r)' = BuildLogEntity(r)
    BY <1>1 DEF BuildLogEntity, ExtractBody
  <2>2. to = "finished" => pc[r] = "responded"
    BY <1>0 DEF Mine, Answered
  <2>3. CASE UNCHANGED <<saved, saving, row>> /\ (~listening[r] \/ saved[r])
    <3>1. to = "finished" => row[r] = NULL
      BY <1>0 DEF Mine, Logged
    <3> QED
      BY <1>0, <1>1, <2>2, <2>3, <3>1 DEF Mine, Logged
  <2>4. CASE /\ listening[r] /\ ~saved[r]
             /\ saved' = [saved EXCEPT ![r] = TRUE]
             /\ saving' = [saving EXCEPT ![r] = @ + 1]
             /\ row' = [row EXCEPT ![r] = BuildLogEntity(r)]
    <3>1. saved'[r] /\ row'[r] = BuildLogEntity(r)
      BY <1>0, <2>4 DEF TypeOK
    <3>2. saving'[r] = 1
      BY <1>0, <1>5, <2>4 DEF TypeOK
    <3>3. call[r].form \in Multipart =>
              BuildLogEntity(r).request_body \subseteq Attached[call[r].form]
      BY <1>0, FilesOfForm, NoFilesNoMeta DEF Mine, Attaches, BuildLogEntity, ExtractBody
    <3>4. BuildLogEntity(r).user_id = user[r]
      BY DEF BuildLogEntity
    <3>5. call[r].form \notin Multipart =>
              BuildLogEntity(r).request_body = {call[r].form} \ {"empty"}
      BY DEF BuildLogEntity, ExtractBody
    <3> QED
      BY <1>1, <2>1, <2>2, <2>4, <3>1, <3>2, <3>3, <3>4, <3>5 DEF Logged
  <2> QED
    BY <1>2, <2>3, <2>4
<1> QED
  BY <1>0, <1>6, <1>7, <1>8, <1>9, Undisturbed DEF CInv, Mine

-----------------------------------------------------------------------------
(* The theorems.                                                           *)

LEMMA InitCInv == Init => CInv
<1> SUFFICES ASSUME Init PROVE CInv
  OBVIOUS
<1>1. TypeOK
  BY StatusTypes DEF Init, TypeOK
<1>2. \A r \in Requests : Answered(r) /\ Heard(r) /\ Attaches(r) /\ Logged(r)
  BY DEF Init, Answered, Heard, Attaches, Logged
<1> QED
  BY <1>1, <1>2 DEF CInv

\* Every step preserves the invariant.
LEMMA NextCInv == CInv /\ [Next]_vars => CInv'
<1> SUFFICES ASSUME CInv, [Next]_vars PROVE CInv'
  OBVIOUS
<1>1. ASSUME NEW r \in Requests, Arrive(r) PROVE CInv'
  <2>1. pc[r] = "idle" /\ UNCHANGED <<capturedBody, errorStack, sent, socket, log>>
    BY <1>1 DEF Arrive, response
  <2> QED
    BY <1>1, <2>1, ForwardKeeps
<1>2. ASSUME NEW r \in Requests, Route(r) PROVE CInv'
  <2>1. ASSUME NEW fate \in Unparsed \cup {"malformed", "no_route"}, Catch(r, fate) PROVE CInv'
    <3>1. fate \in Fates \ {"fine"} /\ pc[r] = "arrived"
      BY <1>2 DEF Route, Fates, Unparsed
    <3> QED
      BY <2>1, <3>1, CatchKeeps
  <2>2. CASE Go(r, "guards") /\ UNCHANGED <<request, response, listening, socket, log>>
    BY <1>2, <2>2, ForwardKeeps DEF Route, response
  <2> QED
    BY <1>2, <2>1, <2>2 DEF Route
<1>3. ASSUME NEW r \in Requests, Guard(r) PROVE CInv'
  <2>1. ASSUME NEW fate \in {"unauthorized", "forbidden"}, Catch(r, fate) PROVE CInv'
    BY <1>3, <2>1, CatchKeeps DEF Guard, Fates, Unparsed
  <2>2. CASE /\ call[r].guarded => call[r].token
             /\ user' = [user EXCEPT ![r] = call[r].guarded]
             /\ Go(r, "interceptor")
             /\ statusCode' = [statusCode EXCEPT ![r] = HttpCode]
             /\ UNCHANGED <<call, files, capturedBody, errorStack, sent, listening, socket, log>>
    BY <1>3, <2>2, ForwardKeeps DEF Guard
  <2> QED
    BY <1>3, <2>1, <2>2 DEF Guard
<1>4. ASSUME NEW r \in Requests, Intercept(r) PROVE CInv'
  <2>1. UNCHANGED <<capturedBody, errorStack, sent, socket, log>>
    BY <1>4 DEF Intercept, response
  <2> QED
    BY <1>4, <2>1, ForwardKeeps
<1>5. ASSUME NEW r \in Requests, Upload(r) PROVE CInv'
  <2>1. CASE Catch(r, "rejected")
    BY <1>5, <2>1, CatchKeeps DEF Upload, Fates, Unparsed
  <2>2. CASE /\ files' = [files EXCEPT ![r] =
                   IF call[r].form \in Multipart THEN Uploaded[call[r].form] ELSE @]
             /\ Go(r, "handler")
             /\ UNCHANGED <<call, user, response, listening, socket, log>>
    BY <1>5, <2>2, ForwardKeeps DEF Upload, response
  <2> QED
    BY <1>5, <2>1, <2>2 DEF Upload
<1>6. ASSUME NEW r \in Requests, Handle(r) PROVE CInv'
  <2>1. ASSUME NEW fate \in {"invalid", "rejected", "broken"}, Catch(r, fate) PROVE CInv'
    BY <1>6, <2>1, CatchKeeps DEF Handle, Fates, Unparsed
  <2>2. ASSUME NEW body \in Replies, Send(r, "fine", body), UNCHANGED <<errorStack, request>>
        PROVE  CInv'
    BY <1>6, <2>2, AnswerKeeps DEF Handle
  <2> QED
    BY <1>6, <2>1, <2>2 DEF Handle
<1>7. ASSUME NEW r \in Requests, Finish(r) PROVE CInv'
  <2>1. sent[r] # NULL /\ socket[r] = "open"
    BY <1>7 DEF Finish
  <2>2. pc[r] # "idle"
    BY <2>1 DEF CInv, Answered
  <2> QED
    BY <1>7, <2>1, <2>2, EventKeeps DEF Finish
<1>8. ASSUME NEW r \in Requests, Close(r) PROVE CInv'
  BY <1>8, EventKeeps DEF Close
<1>9. CASE UNCHANGED vars
  <2>1. TypeOK'
    BY <1>9 DEF CInv, TypeOK, vars, request, response, log
  <2>2. \A s \in Requests : Same(s)
    BY <1>9 DEF Same, vars, request, response, log
  <2> QED
    BY <2>1, <2>2, Undisturbed DEF CInv, Mine
<1> QED
  BY <1>1, <1>2, <1>3, <1>4, <1>5, <1>6, <1>7, <1>8, <1>9 DEF Next, Stage

LEMMA CInvHolds == Spec => []CInv
BY InitCInv, NextCInv, PTL DEF Spec

\* Every variable keeps its type, and a request is saved at most once
\* (ApiLogInterceptor, api-log.interceptor.ts:20).
THEOREM CaptureTypes == Spec => []TypeOK
<1>1. CInv => TypeOK
  BY DEF CInv
<1> QED
  BY <1>1, CInvHolds, PTL

\* api-log.interceptor.ts:14: a row of a response handed over whole tells its
\* status, its body and whether its error was unforeseen, for any requests at
\* once: what a row was built from does not change before the socket closes.
THEOREM CaptureTellsResponse == Spec => []RowTellsResponse
<1>1. CInv => RowTellsResponse
  <2> SUFFICES ASSUME CInv, NEW r \in Requests, socket[r] = "finished", row[r] # NULL
               PROVE  /\ row[r].status_code = Status(sent[r].fate)
                      /\ row[r].response_body =
                            CASE sent[r].body \in {"object", "json"} -> "object"
                              [] sent[r].body = "buffer" -> "size"
                              [] sent[r].body = "text" -> "text"
                              [] sent[r].body \in {"stream", "nothing"} -> NULL
                      /\ row[r].error_stack <=> sent[r].fate = "broken"
    BY DEF RowTellsResponse
  <2>1. row[r] = BuildLogEntity(r) /\ listening[r] /\ pc[r] = "responded"
    BY DEF CInv, Logged
  <2>2. /\ sent[r].fate \in Fates /\ sent[r].body \in DOMAIN Wire
        /\ statusCode[r] = Status(sent[r].fate)
        /\ errorStack[r] <=> sent[r].fate \in Unparsed \cup {"broken"}
        /\ capturedBody[r] = Wire[sent[r].body]
        /\ sent[r].fate \notin Unparsed
    BY <2>1 DEF CInv, Answered
  <2>3. /\ row[r].status_code = statusCode[r]
        /\ row[r].response_body = ParseResponseBody(capturedBody[r])
        /\ row[r].error_stack = errorStack[r]
    BY <2>1 DEF BuildLogEntity
  <2>4. ParseResponseBody(Wire[sent[r].body]) =
            CASE sent[r].body \in {"object", "json"} -> "object"
              [] sent[r].body = "buffer" -> "size"
              [] sent[r].body = "text" -> "text"
              [] sent[r].body \in {"stream", "nothing"} -> NULL
    BY <2>2, WireForms, Kept
  <2> QED
    BY <2>2, <2>3, <2>4
<1> QED
  BY <1>1, CInvHolds, PTL

\* api-log.interceptor.ts:105, 121: a row names its user exactly if the route
\* has guards, and no file but those of the request's form, all of them when the
\* upload was accepted and answered; a body without files as it came.
THEOREM CaptureTellsRequest == Spec => []RowTellsRequest
<1>1. CInv => RowTellsRequest
  <2> SUFFICES ASSUME CInv, NEW r \in Requests, row[r] # NULL
               PROVE  /\ row[r].user_id <=> call[r].guarded
                      /\ call[r].form \in Multipart =>
                            /\ row[r].request_body \subseteq Attached[call[r].form]
                            /\ socket[r] = "finished" /\ sent[r].fate = "fine" =>
                                  row[r].request_body = Attached[call[r].form]
                      /\ call[r].form \notin Multipart =>
                            row[r].request_body = {call[r].form} \ {"empty"}
    BY DEF RowTellsRequest
  <2>1. row[r].user_id <=> call[r].guarded
    <3>1. row[r].user_id = user[r] /\ listening[r]
      BY DEF CInv, Logged
    <3>2. user[r] <=> call[r].guarded
      BY <3>1 DEF CInv, Heard
    <3> QED
      BY <3>1, <3>2
  <2>2. call[r].form \in Multipart => row[r].request_body \subseteq Attached[call[r].form]
    BY DEF CInv, Logged
  <2>3. ASSUME call[r].form \in Multipart, socket[r] = "finished", sent[r].fate = "fine"
        PROVE  row[r].request_body = Attached[call[r].form]
    <3>1. row[r] = BuildLogEntity(r) /\ pc[r] = "responded"
      BY <2>3 DEF CInv, Logged
    <3>2. files[r] = Uploaded[call[r].form]
      BY <2>3, <3>1 DEF CInv, Attaches
    <3>3. row[r].request_body = FileMeta(files[r])
      BY <2>3, <3>1 DEF BuildLogEntity, ExtractBody
    <3> QED
      BY <2>3, <3>2, <3>3, FilesOfForm
  <2>4. call[r].form \notin Multipart => row[r].request_body = {call[r].form} \ {"empty"}
    BY DEF CInv, Logged
  <2> QED
    BY <2>1, <2>2, <2>3, <2>4
<1> QED
  BY <1>1, CInvHolds, PTL

-----------------------------------------------------------------------------
(* That a request ends in its row: what InterceptedIsLogged needs besides  *)
(* fairness.                                                               *)

\* How many stages a request still has to pass at most.
StagesLeft(r) ==
    CASE pc[r] = "arrived" -> 5
      [] pc[r] = "guards" -> 4
      [] pc[r] = "interceptor" -> 3
      [] pc[r] = "upload" -> 2
      [] pc[r] = "handler" -> 1
      [] OTHER -> 0

\* A request that is listened to stays so, and its socket is not left without a
\* row; a row is written once; each stage is passed once, and after the last
\* one there is a response to be handed over.
EndsInRow(r) ==
    /\ listening[r] /\ socket[r] = "open" =>
          listening'[r] /\ (socket'[r] = "open" \/ row'[r] # NULL)
    /\ row[r] # NULL => row'[r] = row[r]
    /\ Stage(r) => StagesLeft(r)' < StagesLeft(r)
    /\ pc[r] # "idle" => StagesLeft(r)' <= StagesLeft(r)
    /\ pc[r] # "idle" /\ StagesLeft(r) = 0 => sent[r] # NULL

LEMMA StagesLeftIs ==
    \A r \in Requests :
        /\ StagesLeft(r) \in 0 .. 5
        /\ pc[r] = "arrived" => StagesLeft(r) = 5
        /\ pc[r] = "guards" => StagesLeft(r) = 4
        /\ pc[r] = "interceptor" => StagesLeft(r) = 3
        /\ pc[r] = "upload" => StagesLeft(r) = 2
        /\ pc[r] = "handler" => StagesLeft(r) = 1
        /\ pc[r] \in {"idle", "responded"} => StagesLeft(r) = 0
BY DEF StagesLeft

LEMMA StagePasses ==
    ASSUME CInv, NEW r \in Requests, Stage(r)
    PROVE  /\ StagesLeft(r)' < StagesLeft(r)
           /\ UNCHANGED <<socket, row>>
           /\ listening[r] => listening'[r]
           /\ \A s \in Requests : s # r => pc'[s] = pc[s] /\ listening'[s] = listening[s]
<1>1. /\ pc \in [Requests -> {"idle", "arrived", "guards", "interceptor", "upload",
                              "handler", "responded"}]
      /\ listening \in [Requests -> BOOLEAN]
  BY DEF CInv, TypeOK
<1>2. /\ pc'[r] = "guards" => StagesLeft(r)' = 4
      /\ pc'[r] = "interceptor" => StagesLeft(r)' = 3
      /\ pc'[r] = "upload" => StagesLeft(r)' = 2
      /\ pc'[r] = "handler" => StagesLeft(r)' = 1
      /\ pc'[r] = "responded" => StagesLeft(r)' = 0
  BY DEF StagesLeft
<1>3. ASSUME NEW fate, NEW body, Send(r, fate, body)
      PROVE  /\ pc'[r] = "responded" /\ UNCHANGED <<socket, row, listening>>
             /\ \A s \in Requests : s # r => pc'[s] = pc[s]
  BY <1>1, <1>3 DEF Send, Go, log
<1>4. ASSUME NEW fate, Catch(r, fate)
      PROVE  /\ pc'[r] = "responded" /\ UNCHANGED <<socket, row, listening>>
             /\ \A s \in Requests : s # r => pc'[s] = pc[s]
  BY <1>3, <1>4 DEF Catch
<1>5. CASE Route(r)
  BY <1>1, <1>2, <1>4, <1>5, StagesLeftIs DEF Route, Go, log
<1>6. CASE Guard(r)
  BY <1>1, <1>2, <1>4, <1>6, StagesLeftIs DEF Guard, Go, log
<1>7. CASE Intercept(r)
  BY <1>1, <1>2, <1>7, StagesLeftIs DEF Intercept, Go, log
<1>8. CASE Upload(r)
  BY <1>1, <1>2, <1>4, <1>8, StagesLeftIs DEF Upload, Go, log
<1>9. CASE Handle(r)
  BY <1>1, <1>2, <1>3, <1>4, <1>9, StagesLeftIs DEF Handle
<1> QED
  BY <1>5, <1>6, <1>7, <1>8, <1>9 DEF Stage

LEMMA SaveKeepsRow ==
    ASSUME CInv, NEW r \in Requests, SaveLog(r)
    PROVE  /\ listening[r] /\ socket[r] = "open" => row'[r] # NULL
           /\ \A s \in Requests : row[s] # NULL => row'[s] = row[s]
<1>1. CASE ~listening[r] \/ saved[r]
  BY <1>1 DEF SaveLog, log, CInv, Logged
<1>2. CASE listening[r] /\ ~saved[r]
  <2>1. row' = [row EXCEPT ![r] = BuildLogEntity(r)] /\ row[r] = NULL
    BY <1>2 DEF SaveLog, CInv, Logged
  <2>2. row \in [Requests -> LogEntity \cup {NULL}]
    BY DEF CInv, TypeOK
  <2>3. BuildLogEntity(r) # NULL
    <3>1. call[r] \in Calls
      BY <1>2 DEF CInv, Heard
    <3> QED
      BY <3>1, RowTypes, NullAssumption DEF CInv
  <2> QED
    BY <2>1, <2>2, <2>3
<1> QED
  BY <1>1, <1>2

\* api-log.interceptor.ts:62: a request whose client is there when the interceptor
\* runs keeps its listeners, passes each stage once and loses its socket only
\* with a row, whatever fails; the second event does not replace the row of the
\* first.
THEOREM CaptureEndsInRow == Spec => [][\A r \in Requests : EndsInRow(r)]_vars
<1>1. CInv /\ [Next]_vars => [\A r \in Requests : EndsInRow(r)]_vars
  <2> SUFFICES ASSUME CInv, NEW q \in Requests,
                      Arrive(q) \/ Stage(q) \/ Finish(q) \/ Close(q),
                      NEW r \in Requests
               PROVE  EndsInRow(r)
    BY DEF Next
  <2>1. pc[r] # "idle" /\ StagesLeft(r) = 0 => sent[r] # NULL
    <3>1. StagesLeft(r) = 0 => pc[r] \in {"idle", "responded"}
      <4>1. pc[r] \in {"idle", "arrived", "guards", "interceptor", "upload", "handler",
                       "responded"}
        BY DEF CInv, TypeOK
      <4>2. PICK n : n = StagesLeft(r)
        OBVIOUS
      <4>3. /\ pc[r] = "arrived" => n = 5
            /\ pc[r] = "guards" => n = 4
            /\ pc[r] = "interceptor" => n = 3
            /\ pc[r] = "upload" => n = 2
            /\ pc[r] = "handler" => n = 1
        BY <4>2, StagesLeftIs
      <4> QED
        BY <4>1, <4>2, <4>3
    <3> QED
      BY <3>1, NullAssumption DEF CInv, Answered
  <2>2. StagesLeft(r) \in 0 .. 5
    BY StagesLeftIs
  <2>3. pc'[r] = pc[r] => StagesLeft(r)' = StagesLeft(r)
    BY DEF StagesLeft
  <2>4. CASE Stage(q)
    <3>1. row' = row /\ socket' = socket
      BY <2>4, StagePasses
    <3>2. CASE q = r
      <4>1. Stage(r)
        BY <2>4, <3>2
      <4>2. StagesLeft(r)' < StagesLeft(r) /\ (listening[r] => listening'[r])
        BY <4>1, StagePasses
      <4>3. StagesLeft(r)' <= StagesLeft(r)
        <5>1. StagesLeft(r)' \in Int
          BY <2>2 DEF StagesLeft
        <5> QED
          BY <2>2, <4>2, <5>1
      <4> QED
        BY <2>1, <3>1, <4>2, <4>3 DEF EndsInRow
    <3>3. CASE q # r
      <4>1. pc'[r] = pc[r] /\ listening'[r] = listening[r]
        BY <2>4, <3>3, StagePasses
      <4>2. ~Stage(r)
        BY <2>2, <2>3, <4>1, StagePasses
      <4> QED
        BY <2>1, <2>2, <2>3, <3>1, <4>1, <4>2 DEF EndsInRow
    <3> QED
      BY <3>2, <3>3
  <2>5. CASE Arrive(q)
    <3>1. row' = row /\ socket' = socket /\ listening' = listening
      BY <2>5 DEF Arrive, log
    <3>2. q # r => pc'[r] = pc[r]
      BY <2>5 DEF Arrive, Go, CInv, TypeOK
    <3>3. q = r => pc[r] = "idle"
      BY <2>5 DEF Arrive
    <3>4. ~Stage(r)
      <4>1. pc[r] = "idle" => ~Stage(r)
        BY DEF Stage, Route, Guard, Intercept, Upload, Handle
      <4> QED
        BY <2>2, <2>3, <3>2, <3>3, <4>1, StagePasses
    <3> QED
      BY <2>1, <2>2, <2>3, <3>1, <3>2, <3>3, <3>4 DEF EndsInRow
  <2>6. CASE Finish(q) \/ Close(q)
    <3>1. /\ SaveLog(q) /\ socket[q] \in {"open", "finished"}
          /\ \A s \in Requests : s # q => socket'[s] = socket[s]
          /\ pc' = pc /\ listening' = listening
      BY <2>6 DEF Finish, Close, CInv, TypeOK
    <3>2. ~Stage(r)
      BY <2>2, <2>3, <3>1, StagePasses
    <3>3. row[r] # NULL => row'[r] = row[r]
      BY <3>1, SaveKeepsRow
    <3>4. listening[r] /\ socket[r] = "open" => socket'[r] = "open" \/ row'[r] # NULL
      BY <3>1, SaveKeepsRow
    <3> QED
      BY <2>1, <2>2, <2>3, <3>1, <3>2, <3>3, <3>4 DEF EndsInRow
  <2> QED
    BY <2>4, <2>5, <2>6
<1> QED
  BY <1>1, CInvHolds, PTL DEF Spec

\* Where a request ends that does not reach the interceptor.
Early == Unparsed \cup {"malformed", "no_route", "unauthorized", "forbidden"}

\* Exactly the responses sent behind the interceptor have been logged when they
\* are handed over.
LoggedBehindInterceptor ==
    \A r \in Requests : socket[r] = "finished" =>
        (row[r] # NULL <=> sent[r].fate \notin Early)

\* Who is listening, and what that has led to.
Reached(r) ==
    /\ pc[r] \in {"upload", "handler"} => listening[r]
    /\ pc[r] = "responded" => (listening[r] <=> sent[r].fate \notin Early)
    /\ socket[r] = "finished" /\ listening[r] => row[r] # NULL

AllReached == \A r \in Requests : Reached(r)

LEMMA NextReached == CInv /\ AllReached /\ [Next]_vars => AllReached'
<1> SUFFICES ASSUME CInv, AllReached, [Next]_vars, NEW r \in Requests
             PROVE  Reached(r)'
  BY DEF AllReached
<1> USE DEF AllReached
<1>1. /\ pc \in [Requests -> {"idle", "arrived", "guards", "interceptor", "upload",
                              "handler", "responded"}]
      /\ listening \in [Requests -> BOOLEAN]
      /\ sent \in [Requests -> [fate : Fates, body : DOMAIN Wire] \cup {NULL}]
      /\ socket \in [Requests -> {"open", "finished", "closed"}]
      /\ row \in [Requests -> LogEntity \cup {NULL}]
  BY DEF CInv, TypeOK
<1>2. ASSUME pc'[r] = pc[r], listening'[r] = listening[r], sent'[r] = sent[r],
             socket'[r] = socket[r], row'[r] = row[r]
      PROVE  Reached(r)'
  BY <1>2 DEF Reached
<1>3. ASSUME NEW fate, NEW body, Send(r, fate, body), listening[r] <=> fate \notin Early
      PROVE  Reached(r)'
  <2>1. /\ pc'[r] = "responded" /\ sent'[r].fate = fate
        /\ UNCHANGED <<listening, socket, row>>
    BY <1>1, <1>3 DEF Send, Go, log
  <2> QED
    BY <1>3, <2>1 DEF Reached
<1>4. ASSUME NEW fate, Catch(r, fate), listening[r] <=> fate \notin Early
      PROVE  Reached(r)'
  BY <1>3, <1>4 DEF Catch
<1>5. pc[r] \in {"idle", "arrived", "guards", "interceptor"} => ~listening[r]
  BY DEF CInv, Heard
<1>6. socket[r] = "finished" => pc[r] = "responded"
  BY DEF CInv, Logged
<1>7. ASSUME NEW q \in Requests, q # r, Arrive(q) \/ Stage(q) PROVE Reached(r)'
  BY <1>1, <1>2, <1>7
     DEF Arrive, Stage, Route, Guard, Intercept, Upload, Handle, Catch, Send, Go, response, log
<1>8. CASE Route(r)
  BY <1>1, <1>4, <1>5, <1>6, <1>8 DEF Route, Go, response, log, Reached, Early, Unparsed
<1>9. CASE Guard(r)
  BY <1>1, <1>4, <1>5, <1>6, <1>9 DEF Guard, Go, log, Reached, Early, Unparsed
<1>10. CASE Intercept(r)
  BY <1>1, <1>6, <1>10 DEF Intercept, Go, response, log, Reached
<1>11. CASE Upload(r)
  BY <1>1, <1>4, <1>11 DEF Upload, Go, response, log, Reached, Early, Unparsed
<1>12. CASE Handle(r)
  BY <1>3, <1>4, <1>12 DEF Handle, Reached, Early, Unparsed
<1>13. CASE Arrive(r)
  BY <1>1, <1>5, <1>6, <1>13 DEF Arrive, Go, response, log, Reached
<1>14. ASSUME NEW q \in Requests, Finish(q) \/ Close(q) PROVE Reached(r)'
  <2>1. /\ SaveLog(q) /\ socket[q] \in {"open", "finished"}
        /\ \A s \in Requests : s # q => socket'[s] = socket[s]
        /\ UNCHANGED <<pc, listening, sent>>
    BY <1>1, <1>14 DEF Finish, Close, response
  <2>2. \A s \in Requests : row[s] # NULL => row'[s] = row[s]
    BY <2>1, SaveKeepsRow
  <2>3. listening[q] /\ socket[q] = "open" => row'[q] # NULL
    BY <2>1, SaveKeepsRow
  <2> QED
    BY <2>1, <2>2, <2>3 DEF Reached
<1>15. CASE UNCHANGED vars
  BY <1>2, <1>15 DEF vars, response, log
<1> QED
  BY <1>7, <1>8, <1>9, <1>10, <1>11, <1>12, <1>13, <1>14, <1>15 DEF Next, Stage

\* api-log.interceptor.ts:10: of the responses handed over, those of the guards,
\* the router and the parser are not logged and all others are: the claim that
\* every response is logged fails there only.
THEOREM CaptureLogsBehind == Spec => []LoggedBehindInterceptor
<1>1. Init => AllReached
  BY DEF Init, AllReached, Reached
<1>2. CInv /\ AllReached => LoggedBehindInterceptor
  <2> SUFFICES ASSUME CInv, NEW r \in Requests, Reached(r), socket[r] = "finished"
               PROVE  row[r] # NULL <=> sent[r].fate \notin Early
    BY DEF LoggedBehindInterceptor, AllReached
  <2>1. pc[r] = "responded" /\ (row[r] # NULL => listening[r])
    BY DEF CInv, Logged
  <2> QED
    BY <2>1 DEF Reached
<1> QED
  BY <1>1, <1>2, InitCInv, NextCInv, NextReached, PTL DEF Spec
=============================================================================
