--------------------------- MODULE HttpConnection ---------------------------
(***************************************************************************)
(* One connection of src/evhttpx/evhttpx.c, from accept to free: the       *)
(* callbacks of its bufferevent, the hooks it gives to the parser, replies *)
(* and the application's callbacks.  The network cuts what the client      *)
(* sends anywhere.  One event loop runs a callback of the bufferevent to   *)
(* its end; a step here is one symbol of the parser or one of its hooks,   *)
(* and "at" says that readcb is under way.                                 *)
(***************************************************************************)
EXTENDS HttpParser, SequencesExt

CONSTANTS Questions,     \* the messages the client may send
          MaxQuestions,  \* bound on their number
          Callbacks,     \* per host, what the callback of a path does
          HookResults,   \* per user hook, what it may return
          MaxKeepalive,  \* max_keepalive_requests, 0 for none
          MaxBody        \* max_body_size, 0 for none

ASSUME HttpAssumption ==
    /\ \A q \in Questions : q.text \in Seq(Symbols)
    /\ MaxQuestions \in Nat
    /\ MaxKeepalive \in Nat
    /\ MaxBody \in Nat
    /\ "main" \in DOMAIN Callbacks

VARIABLES life,          \* new, open, closed, taken (by the application) or crashed
          wire,          \* what the client sent and no symbol of which is parsed yet
          at,            \* loop, run (http_parser_run), back (it has returned)
          left,          \* what this read has left; when paused, what waits in the buffer
          todo,          \* hooks the last symbol has to run
          parser, request, out, httpx, owner, reading, body_bytes_read, num_requests,
          begun,         \* number of requests begun
          late,          \* requests the application has yet to answer
          sent, got,     \* history: messages sent, parts of replies received
          why,           \* history: who closed the connection
          waived         \* history: has the client, or a user hook, given up the promise?

input   == <<wire, at, left, todo, parser>>
counts  == <<body_bytes_read, num_requests, begun>>
history == <<sent, got, why, waived>>
vars    == <<life, input, request, out, httpx, owner, reading, counts, late, history>>

NoRequest == [id |-> 0, status |-> "OK"]
NoPath    == <<"no path">>

NewRequest(id) ==
    [id |-> id, status |-> "OK", path |-> NoPath, args |-> <<>>, body |-> <<>>, headers |-> <<>>,
     cb |-> "none", keepalive |-> FALSE, proto |-> "INVALID", finished |-> FALSE]

Init ==
    /\ life = "new" /\ wire = <<>> /\ at = "loop" /\ left = 0 /\ todo = <<>>
    /\ parser = NewParser /\ request = NoRequest /\ out = <<>> /\ httpx = "main"
    /\ owner = TRUE /\ reading = TRUE
    /\ body_bytes_read = 0 /\ num_requests = 0 /\ begun = 0
    /\ late = {} /\ sent = <<>> /\ got = <<>> /\ why = "none" /\ waived = FALSE

InLoop == life = "open" /\ at = "loop"
Served == request # NoRequest

Free(state) == /\ life' = state
               /\ request' = NoRequest
               /\ out' = <<>>
               /\ late' = {}
               /\ at' = "loop"
               /\ todo' = <<>>

\* evhttpx_connection_free: what is not written yet is lost.
Close(who) == Free("closed") /\ why' = who

Crash == Free("crashed") /\ why' = "crash"
-----------------------------------------------------------------------------
(* The client and the network *)

IsLast(part) == part.part \in {"full", "end"}

\* The last parts among some parts of replies: one for every answer.
LastOf(parts) ==
    LET upTo[n \in 0..Len(parts)] ==
            IF n = 0 THEN <<>>
            ELSE IF IsLast(parts[n]) THEN Append(upTo[n - 1], parts[n]) ELSE upTo[n - 1]
    IN upTo[Len(parts)]

Answers == LastOf(got)

Send(q) ==
    /\ Len(sent) < MaxQuestions
    /\ life \in {"new", "open"}
    /\ sent' = Append(sent, q)
    /\ wire' = wire \o q.text
    /\ waived' = (waived \/ ~q.good \/ Len(Answers) < Len(sent))
    /\ at = "loop"
    /\ UNCHANGED <<life, at, left, todo, parser, request, out, httpx, owner, reading, counts, late,
                   got, why>>

\* pre_accept and post_accept are the application's.
Accept ==
    /\ life = "new"
    /\ \/ life' = "open" /\ UNCHANGED why
       \/ HookResults["accept"] # {"OK"} /\ life' = "closed" /\ why' = "server"
    /\ UNCHANGED <<input, request, out, httpx, owner, reading, counts, late, sent, got, waived>>

\* End of the stream, an error or a timeout: _evhttpx_connection_eventcb.
PeerGone ==
    /\ InLoop
    /\ reading \/ out # <<>>
    /\ Close("peer")
    /\ UNCHANGED <<wire, left, parser, httpx, owner, reading, counts, sent, got, waived>>
-----------------------------------------------------------------------------
(* _evhttpx_connection_readcb *)

StartRead(n) ==
    /\ at' = "run"
    /\ left' = n
    /\ request' = [request EXCEPT !.status = "OK"]

Read ==
    /\ InLoop
    /\ reading
    /\ \E n \in 1..Len(wire) : StartRead(n)
    /\ UNCHANGED <<life, wire, todo, parser, out, httpx, owner, reading, counts, late, history>>

Run ==
    LET o == Step(parser, SubSeq(wire, 1, left))
    IN  /\ at = "run" /\ todo = <<>> /\ left > 0
        /\ parser' = o.p
        /\ todo' = o.run
        /\ wire' = SubSeq(wire, o.used + 1, Len(wire))
        /\ left' = left - o.used
        /\ at' = IF o.error \/ EndsRead(parser, wire[1]) THEN "back" ELSE "run"
        /\ UNCHANGED <<life, request, out, httpx, owner, reading, counts, late, history>>

Returned == todo = <<>> /\ (at = "back" \/ (at = "run" /\ left = 0))

\* The application has taken the connection: only its structure is freed.
Leave == /\ Returned
         /\ ~owner
         /\ Free("taken")
         /\ UNCHANGED <<wire, left, parser, httpx, owner, reading, counts, history>>

TooLong == Served /\ request.status = "DATA_TOO_LONG"

\* Mutant: a read that was not parsed to its end always ends the connection.
Pauses_Never == FALSE

Pauses == Served /\ request.status = "PAUSE"

Fail == /\ Returned
        /\ owner
        /\ TooLong \/ (left > 0 /\ ~Pauses)
        /\ Close("server")
        /\ UNCHANGED <<wire, left, parser, httpx, owner, reading, counts, sent, got, waived>>

\* A pause on the last symbol of a read is not noticed.
Back == /\ Returned
        /\ owner
        /\ ~TooLong
        /\ left > 0 => Pauses
        /\ at' = "loop"
        /\ reading' = (reading /\ left = 0)
        /\ UNCHANGED <<life, wire, left, todo, parser, request, out, httpx, owner, counts, late, history>>

\* evhttpx_request_resume of the application, and _evhttpx_connection_resumecb.
Resume ==
    /\ InLoop
    /\ ~reading
    /\ reading' = TRUE
    /\ \E n \in left..Len(wire) : StartRead(n)
    /\ UNCHANGED <<life, wire, todo, parser, out, httpx, owner, counts, late, history>>
-----------------------------------------------------------------------------
(* Replies: _evhttpx_create_reply, evhttpx_send_reply* *)

\* A reply to a multipart request has no Content-Length.
Reply(part) ==
    [id |-> request.id, part |-> part, framed |-> ~parser.multipart,
     keep |-> request.keepalive /\ request.proto # "INVALID",
     path |-> request.path, args |-> request.args, body |-> request.body, cb |-> request.cb]

\* What _evhttpx_connection_writecb does to a finished request when all of
\* its reply is written.
LimitReached == MaxKeepalive # 0 /\ num_requests + 1 >= MaxKeepalive

\* Mutant: the parser keeps what it knows of the request before.
NextParser_Kept == [NewParser EXCEPT !.multipart = parser.multipart, !.args_offset = parser.args_offset]

NextParser == NewParser

\* Mutant: the connection stays with the virtual host of the request before.
Recycle_Host == /\ request' = NoRequest
                /\ body_bytes_read' = 0
                /\ parser' = NextParser
                /\ UNCHANGED <<life, at, todo, httpx, late, why>>

Recycle == /\ request' = NoRequest
           /\ body_bytes_read' = 0
           /\ httpx' = "main"
           /\ parser' = NextParser
           /\ UNCHANGED <<life, at, todo, late, why>>

Stays == request.keepalive /\ ~LimitReached

Drain ==
    /\ InLoop
    /\ out # <<>>
    /\ got' = Append(got, Head(out))
    /\ out' = Tail(out)
    /\ IF Served /\ request.finished /\ Tail(out) = <<>>
       THEN /\ num_requests' = IF MaxKeepalive # 0 THEN num_requests + 1 ELSE num_requests
            /\ \/ Stays /\ Recycle
               \/ ~Stays /\ Close("server") /\ UNCHANGED <<parser, httpx, body_bytes_read>>
       ELSE UNCHANGED <<life, at, todo, parser, request, httpx, body_bytes_read, num_requests, late, why>>
    /\ UNCHANGED <<wire, left, owner, reading, begun, sent, waived>>

\* The application answers later: evhttpx_send_reply, or the end of the
\* chunks it began in its callback.
Answer ==
    /\ InLoop
    /\ Served /\ request.id \in late
    /\ late' = late \ {request.id}
    /\ request' = [request EXCEPT !.finished = TRUE]
    /\ out' = Append(out, Reply(IF request.cb = "chunks" THEN "end" ELSE "full"))
    /\ UNCHANGED <<life, input, httpx, owner, reading, counts, history>>
-----------------------------------------------------------------------------
(* The hooks of the parser: request_psets *)

Runs(name) == at = "run" /\ todo # <<>> /\ todo[1].name = name
Arg        == todo[1].arg

\* The next hook, or the end of the run when this one fails; the completion
\* of a message hides a failure on its body.
Continue(ok) ==
    /\ todo' = IF ok \/ (Len(todo) = 2 /\ todo[1].name = "body") THEN Tail(todo) ELSE <<>>
    /\ at' = IF ok \/ (Len(todo) = 2 /\ todo[1].name = "body") THEN at ELSE "back"

\* Status is what the user's hook returns, OK where there is none.
UserHook(hook, req) ==
    \E res \in HookResults[hook] :
        /\ request' = [req EXCEPT !.status = res]
        /\ Continue(res = "OK")
        /\ waived' = (waived \/ res \notin {"OK", "PAUSE"} \/ (hook = "on_header" /\ res # "OK"))
        /\ IF hook = "on_header" /\ res # "OK" THEN parser' = ValueFailed(parser, Arg) ELSE UNCHANGED parser

\* A request that is answered makes room for the next before its reply is out.
request_parser_start ==
    /\ Runs("on_msg_begin")
    /\ IF ~Served \/ request.finished
       THEN /\ request' = NewRequest(begun + 1)
            /\ begun' = begun + 1
            /\ Continue(TRUE)
       ELSE /\ Continue(FALSE)
            /\ UNCHANGED <<request, begun>>
    /\ UNCHANGED <<life, wire, left, parser, out, httpx, owner, reading, body_bytes_read, num_requests,
                   late, history>>

\* The directory of a path: up to its last slash.
Dir(path) == IF path = <<>> \/ path[1] # "/" THEN <<"/">>
             ELSE SubSeq(path, 1, CHOOSE i \in 1..Len(path) :
                                     path[i] = "/" /\ \A j \in i + 1..Len(path) : path[j] # "/")

CallbackOf(host, path) ==
    LET cbs == Callbacks[host]
    IN  IF path \in DOMAIN cbs THEN cbs[path] ELSE IF Dir(path) \in DOMAIN cbs THEN cbs[Dir(path)] ELSE "default"

request_parser_path ==
    /\ Runs("path")
    /\ UserHook("on_path", [request EXCEPT !.path = Arg, !.args = <<>>, !.cb = CallbackOf(httpx, Arg)])
    /\ UNCHANGED <<life, wire, left, out, httpx, owner, reading, counts, late, sent, got, why>>

\* Arguments without a path before them are added to a NULL uri; arguments
\* that evhttpx_parse_query refuses end the run.
request_parser_args ==
    /\ Runs("args")
    /\ request.path # NoPath
    /\ LET ok == "%bad" \notin ToSet(Arg)
       IN  /\ request' = [request EXCEPT !.args = IF ok THEN Arg ELSE <<>>,
                                         !.status = IF ok THEN @ ELSE "ERROR"]
           /\ Continue(ok)
    /\ UNCHANGED <<life, wire, left, parser, out, httpx, owner, reading, counts, late, history>>

\* No user hook can stop a run here.
request_parser_headers_start ==
    /\ Runs("on_hdrs_begin")
    /\ request' = [request EXCEPT !.status = "OK"]
    /\ Continue(TRUE)
    /\ UNCHANGED <<life, wire, left, parser, out, httpx, owner, reading, counts, late, history>>

request_parser_header_key ==
    /\ Runs("hdr_key")
    /\ request' = [request EXCEPT !.headers = Append(@, <<Arg, <<>>>>)]
    /\ Continue(TRUE)
    /\ UNCHANGED <<life, wire, left, parser, out, httpx, owner, reading, counts, late, history>>

\* A value belongs to the last key; without one the run ends.
request_parser_header_val ==
    /\ Runs("hdr_val")
    /\ IF request.headers = <<>>
       THEN /\ request' = [request EXCEPT !.status = "FATAL"]
            /\ parser' = ValueFailed(parser, Arg)
            /\ Continue(FALSE)
            /\ UNCHANGED waived
       ELSE UserHook("on_header", [request EXCEPT !.headers[Len(request.headers)][2] = Arg])
    /\ UNCHANGED <<life, wire, left, out, httpx, owner, reading, counts, late, sent, got, why>>

Hosts == DOMAIN Callbacks

\* The virtual hosts are those of the host the connection is at.
request_parser_hostname ==
    LET found == httpx = "main" /\ Arg # <<>> /\ Arg[1] \in Hosts \ {"main"}
    IN  /\ Runs("hostname")
        /\ httpx' = IF found THEN Arg[1] ELSE httpx
        /\ UserHook("on_hostname",
                    IF found /\ request.path # NoPath
                    THEN [request EXCEPT !.cb = CallbackOf(Arg[1], request.path)] ELSE request)
        /\ UNCHANGED <<life, wire, left, out, owner, reading, counts, late, sent, got, why>>

Proto(version) == IF version[1] = 0 THEN "INVALID" ELSE IF version[2] = 0 THEN "HTTP/1.0" ELSE "HTTP/1.1"

Expects(req) == \E i \in 1..Len(req.headers) : req.headers[i][1] = <<"Expect">>

request_parser_headers ==
    /\ Runs("on_hdrs_complete")
    /\ UserHook("on_headers", [request EXCEPT !.keepalive = http_parser_should_keep_alive(parser),
                                              !.proto = Proto(parser.version)])
    /\ out' = IF request'.status = "OK" /\ Expects(request) THEN Append(out, Reply("100")) ELSE out
    /\ UNCHANGED <<life, wire, left, httpx, owner, reading, counts, late, sent, got, why>>

TooMuch(n) == MaxBody > 0 /\ body_bytes_read + n >= MaxBody

request_parser_body ==
    /\ Runs("body")
    /\ IF TooMuch(Len(Arg))
       THEN /\ request' = [request EXCEPT !.status = "DATA_TOO_LONG"]
            /\ Continue(FALSE)
            /\ waived' = TRUE
            /\ UNCHANGED <<body_bytes_read, parser>>
       ELSE /\ body_bytes_read' = body_bytes_read + Len(Arg)
            /\ UserHook("on_read", [request EXCEPT !.body = @ \o Arg])
    /\ UNCHANGED <<life, wire, left, out, httpx, owner, reading, num_requests, begun, late, sent, got, why>>

\* The hooks at the ends of chunks only reset the status here.
request_parser_chunks ==
    /\ Runs("on_new_chunk") \/ Runs("on_chunk_complete") \/ Runs("on_chunks_complete")
    /\ request' = [request EXCEPT !.status = "OK"]
    /\ Continue(TRUE)
    /\ UNCHANGED <<life, wire, left, parser, out, httpx, owner, reading, counts, late, history>>

\* The length is what the parser still waits for, which is nothing here.
should_parse_query_body ==
    /\ parser.content_len # 0
    /\ parser.content_len = Len(request.body)
    /\ <<<<"Content-Type">>, <<"form">>>> \in ToSet(request.headers)

\* What the callback of the request does.
RunCallback(req) ==
    CASE req.cb \in {"now", "default"} ->
             /\ request' = [req EXCEPT !.finished = TRUE]
             /\ out' = Append(out, [Reply("full") EXCEPT !.args = req.args])
             /\ UNCHANGED <<late, owner>>
      [] req.cb = "later" ->
             /\ request' = req /\ late' = late \cup {req.id}
             /\ UNCHANGED <<out, owner>>
      [] req.cb = "chunks" ->
             /\ request' = req /\ late' = late \cup {req.id}
             /\ out' = Append(out, [Reply("head") EXCEPT !.args = req.args])
             /\ UNCHANGED owner
      [] req.cb = "take" ->
             /\ request' = req /\ owner' = FALSE
             /\ UNCHANGED <<out, late>>
      [] OTHER ->
             /\ request' = req
             /\ UNCHANGED <<out, late, owner>>

request_parser_fini ==
    /\ Runs("on_msg_complete")
    /\ request.path # NoPath
    /\ RunCallback([request EXCEPT !.args = IF should_parse_query_body THEN request.body ELSE @])
    /\ Continue(TRUE)
    /\ UNCHANGED <<life, wire, left, parser, httpx, reading, counts, history>>

\* The uri of a request whose line has no path is NULL, and is used.
UriIsNull == /\ Runs("args") \/ Runs("on_msg_complete")
             /\ request.path = NoPath
             /\ Crash
             /\ UNCHANGED <<wire, left, parser, httpx, owner, reading, counts, sent, got, waived>>

RunHook ==
    \/ request_parser_start \/ request_parser_path \/ request_parser_args
    \/ request_parser_headers_start \/ request_parser_header_key \/ request_parser_header_val
    \/ request_parser_hostname \/ request_parser_headers \/ request_parser_body
    \/ request_parser_chunks \/ request_parser_fini \/ UriIsNull
-----------------------------------------------------------------------------
Finished == life \in {"closed", "taken", "crashed"} /\ UNCHANGED vars

\* The client has asked all it wanted and is waiting.
Waiting == /\ InLoop /\ Len(sent) = MaxQuestions /\ wire = <<>> /\ out = <<>> /\ reading
           /\ UNCHANGED vars

Loop == Accept \/ Read \/ Run \/ RunHook \/ Leave \/ Fail \/ Back \/ Resume \/ Drain \/ Answer

Next == Loop \/ (\E q \in Questions : Send(q)) \/ PeerGone \/ Finished \/ Waiting

Spec == Init /\ [][Next]_vars

\* The loop runs, the network delivers, and the application resumes what it
\* paused and answers what it promised to answer.
Fairness == WF_vars(Loop) /\ WF_vars(Drain) /\ WF_vars(Answer) /\ WF_vars(Resume) /\ WF_vars(Read)

FairSpec == Spec /\ Fairness
-----------------------------------------------------------------------------
(* Properties *)

Numbered == DOMAIN sent

HttpTypeOK ==
    /\ life \in {"new", "open", "closed", "taken", "crashed"}
    /\ at \in {"loop", "run", "back"}
    /\ left \in 0..Len(wire)
    /\ Len(todo) <= 2
    /\ Len(parser.buf) <= BufMax
    /\ httpx \in Hosts
    /\ {owner, reading, waived} \subseteq BOOLEAN
    /\ request.id \in 0..begun
    /\ late \subseteq 1..begun
    /\ {body_bytes_read, num_requests} \subseteq Nat
    /\ Len(sent) <= MaxQuestions

\* A client that waits for each answer gets them one by one, each with the
\* path, the arguments, the body and the callback of its own request, however the network
\* cuts what it sends and whatever a user hook pauses: the parser carries
\* nothing from one request to the next.
Meant(q) == [path |-> q.path, args |-> q.args, body |-> q.body, cb |-> q.cb]

Said == [i \in DOMAIN Answers |-> Meant(Answers[i])]

HS == INSTANCE HttpService WITH asked <- sent, answered <- Said, promised <- ~waived, Answer <- Meant

HttpImplemented == HS!HttpSpec

\* On its own account the server closes such a client's connection only when
\* all was answered and written, and the client or the limit wanted it.
ClosesWhenAsked ==
    [][why' = "server" /\ life = "open" /\ ~waived =>
          /\ Len(LastOf(got')) = Len(sent)
          /\ sent[Len(sent)].close \/ (MaxKeepalive # 0 /\ Len(sent) >= MaxKeepalive)]_vars

\* The end of every reply that promises to keep the connection can be told,
\* unless its own request was multipart.
RepliesDelimited ==
    ~waived => \A i \in DOMAIN got : got[i].keep /\ ~sent[got[i].id].multipart => got[i].framed

\* The process dies only on a request line without a path, or when a client
\* sends a request with arguments and does not wait for its answer.
CrashesAreKnown ==
    life = "crashed" =>
        \/ \E i \in Numbered : sent[i].path = NoPath
        \/ waived /\ \E i \in Numbered : i < Len(sent) /\ sent[i].args # <<>>

\* A client that waits and asks for what the application answers gets an
\* answer, or sees its connection end.
Unanswered == /\ life = "open" /\ ~waived
              /\ Len(Answers) < Len(sent)
              /\ ~sent[Len(sent)].silent

AnswersCome == Unanswered ~> ~Unanswered
=============================================================================
