------------------------ MODULE HttpConnectionProofs ------------------------
(***************************************************************************)
(* What holds of a connection for any messages, callbacks, hooks and       *)
(* limits: first whatever the client sends, then of the conversation with  *)
(* a client that waits for each answer.                                    *)
(***************************************************************************)
EXTENDS HttpMessages, WellFoundedInduction, TLAPS

States == {"start", "method", "spaces_before_uri", "schema", "schema_slash",
           "schema_slash_slash", "host", "port", "after_slash_in_uri", "check_uri",
           "uri", "http_09", "minor_digit", "spaces_after_digit", "almost_done",
           "done", "hdrline_start", "hdrline_hdr_key", "hdrline_hdr_space_before_val",
           "hdrline_hdr_val", "hdrline_hdr_almost_done", "hdrline_hdr_done",
           "hdrline_almost_done", "chunk_size_start", "chunk_size",
           "chunk_size_almost_done", "chunk_data", "chunk_data_almost_done",
           "chunk_data_done", "body_read"}

\* What the steps of the parser keep of it.
Parsers == [state : States, flags : SUBSET {"keep_alive", "close", "chunked", "trailing"},
            heval : Evaluated \cup {"none"}, method : {"GET", "POST", "PUT"}, multipart : BOOLEAN, version : Nat \X Nat, content_len : Nat,
            buf : Seq(Symbols), path_offset : Nat, args_offset : Nat]
ParserOK(p) == p \in Parsers /\ Len(p.buf) <= BufMax

\* The hook of a value is given no more than the buffer of the parser holds.
HookOK(h) ==
  /\ h.name \in {"body", "hdr_val"} => h.arg \in Seq(Symbols)
  /\ h.name = "hdr_val" => Len(h.arg) <= BufMax

TodoOK(run) ==
  \/ run = <<>>
  \/ run = <<run[1]>> /\ HookOK(run[1])
  \/ run = <<run[1], run[2]>> /\ HookOK(run[1]) /\ HookOK(run[2])

RequestFields == {"id", "status", "path", "args", "body", "headers", "cb",
                  "keepalive", "proto", "finished"}

\* The n-th request, with no more of a body than the b symbols counted.
IsRequest(r, n, b) ==
  /\ DOMAIN r = RequestFields
  /\ r.id = n /\ n > 0
  /\ r.body \in Seq(Symbols) /\ Len(r.body) <= b

IsList(s) == s \in Seq({s[i] : i \in DOMAIN s})

\* Parts of replies to the first n requests, in the order of these.
Ordered(s, n) ==
  /\ \A i \in DOMAIN s : s[i].id \in 1 .. n
  /\ \A i, j \in DOMAIN s : i <= j => s[i].id <= s[j].id

-----------------------------------------------------------------------------
\* A hook is never run without a request: _evhttpx_request_parser_* use
\* c->request without looking.
HooksHaveRequests ==
  todo # <<>> /\ todo[1].name # "on_msg_begin" => Served

\* Replies do not overtake one another: what the client has read, and then what
\* is still to be written, comes in the order of the requests, and answers only
\* requests that were begun.
RepliesInOrder == Ordered(got \o out, begun)

\* No request has a body as long as max_body_size, and a connection whose writer
\* has come to the end of max_keepalive_requests replies is not open.  A request
\* that a pipelined one replaced before its reply was out is not among them.
LimitsHold ==
  /\ MaxBody > 0 /\ Served => Len(request.body) < MaxBody
  /\ MaxKeepalive > 0 /\ life = "open" => num_requests < MaxKeepalive

-----------------------------------------------------------------------------
(* The inductive invariant.                                                *)

InputInv ==
  /\ life \in {"new", "open", "closed", "taken", "crashed"}
  /\ at \in {"loop", "run", "back"}
  /\ wire \in Seq(Symbols) /\ left \in 0 .. Len(wire)
  /\ ParserOK(parser) /\ TodoOK(todo)
  /\ sent \in Seq(Questions) /\ Len(sent) <= MaxQuestions

\* Outside a read no hook is waiting, and the parser is between two requests or
\* in one that has begun.
ReadInv ==
  /\ life # "open" => at = "loop"
  /\ at = "loop" => todo = <<>>
  /\ life \in {"new", "open"} /\ parser.state # "start" =>
        Served \/ (todo # <<>> /\ todo[1].name = "on_msg_begin")
  /\ HooksHaveRequests

\* The request of the connection is the last one begun.
RequestInv ==
  /\ httpx \in Hosts /\ {owner, reading, waived} \subseteq BOOLEAN
  /\ begun \in Nat /\ body_bytes_read \in Nat /\ num_requests \in Nat
  /\ late \subseteq 1 .. begun
  /\ request = NoRequest \/ IsRequest(request, begun, body_bytes_read)

ReplyInv == IsList(got) /\ IsList(out) /\ RepliesInOrder

LimitInv ==
  /\ MaxBody > 0 => body_bytes_read < MaxBody
  /\ MaxKeepalive > 0 /\ life \in {"new", "open"} => num_requests < MaxKeepalive

HttpInv == InputInv /\ ReadInv /\ RequestInv /\ ReplyInv /\ LimitInv

-----------------------------------------------------------------------------
(* The tables of the parser.                                               *)

LEMMA NumbersType == \A ch \in DOMAIN Numbers : Numbers[ch] \in Nat
BY DEF Numbers

LEMMA VersionsType == \A ch \in DOMAIN Versions : Versions[ch] \in Nat \X Nat
BY DEF Versions

LEMMA MethodsType == \A b \in DOMAIN Methods : Methods[b] \in {"GET", "POST", "PUT"}
BY DEF Methods


-----------------------------------------------------------------------------
(* One step of the parser.                                                 *)

\* What a step on the symbols d may come to.
OutcomeOK(o, d) ==
  /\ ParserOK(o.p)
  /\ o.used \in 0 .. Len(d)
  /\ TodoOK(o.run)

LEMMA NewParserOK == ParserOK(NewParser)
BY ParserAssumption DEF NewParser, ParserOK, Parsers, States

LEMMA TodoOfNone == TodoOK(<<>>)
BY DEF TodoOK

LEMMA PairOfHooks ==
  ASSUME NEW a, NEW b
  PROVE  <<a>> \o <<b>> = <<a, b>>
<1> DEFINE S == {a, b}
<1>1. <<a>> \in Seq(S) /\ <<b>> \in Seq(S) /\ <<a, b>> \in Seq(S)
  OBVIOUS
<1>2. Len(<<a>>) = 1 /\ Len(<<b>>) = 1 /\ Len(<<a, b>>) = 2
  OBVIOUS
<1>3. <<a>> \o <<b>> \in Seq(S) /\ Len(<<a>> \o <<b>>) = 2
  BY <1>1, <1>2
<1>4. \A i \in 1 .. 2 : (<<a>> \o <<b>>)[i] = <<a, b>>[i]
  BY <1>1, <1>2
<1> HIDE DEF S
<1>5. \A s, t \in Seq(S) :
        Len(s) = 2 /\ Len(t) = 2 /\ (\A i \in 1 .. 2 : s[i] = t[i]) => s = t
  OBVIOUS
<1> QED
  BY <1>1, <1>2, <1>3, <1>4, <1>5

LEMMA TodoOfOne ==
  ASSUME NEW name, NEW arg, name \notin {"body", "hdr_val"}
  PROVE  TodoOK(Hook(name, arg))
BY DEF TodoOK, Hook, HookOK

LEMMA GoesOn ==
  ASSUME NEW q, ParserOK(q), NEW d \in Seq(Symbols), d # <<>>
  PROVE  OutcomeOK(Go(q), d) /\ OutcomeOK(Error(q), d) /\ OutcomeOK(Again(q), d)
BY TodoOfNone DEF OutcomeOK, Go, Error, Again, Outcome

LEMMA GoesOnWith ==
  ASSUME NEW q, ParserOK(q), NEW run, TodoOK(run), NEW d \in Seq(Symbols), d # <<>>
  PROVE  OutcomeOK(Outcome(q, run), d)
BY DEF OutcomeOK, Outcome

LEMMA ToOK ==
  ASSUME NEW p, ParserOK(p), NEW s \in States
  PROVE  ParserOK(To(p, s)) /\ To(p, s).buf = p.buf
BY DEF ParserOK, Parsers, To

LEMMA BufOK ==
  ASSUME NEW p, ParserOK(p), NEW e \in Seq(Symbols), Len(e) <= BufMax
  PROVE  ParserOK([p EXCEPT !.buf = e]) /\ [p EXCEPT !.buf = e].buf = e
<1> DEFINE q == [p EXCEPT !.buf = e]
<1>1. q \in Parsers /\ q.buf = e
  BY DEF ParserOK, Parsers
<1> QED
  BY <1>1 DEF ParserOK

LEMMA ClearOK ==
  ASSUME NEW p, ParserOK(p)
  PROVE  ParserOK(Clear(p)) /\ Clear(p).buf = <<>> /\ Len(Clear(p).buf) = 0
<1>1. <<>> \in Seq(Symbols) /\ Len(<<>>) = 0 /\ Len(<<>>) <= BufMax
  BY ParserAssumption
<1>2. ParserOK([p EXCEPT !.buf = <<>>]) /\ [p EXCEPT !.buf = <<>>].buf = <<>>
  BY <1>1, BufOK, Zenon
<1> QED
  BY <1>1, <1>2, Zenon DEF Clear

LEMMA PutOK ==
  ASSUME NEW p, ParserOK(p), Len(p.buf) < BufMax, NEW ch \in Symbols
  PROVE  ParserOK(Put(p, ch))
<1> DEFINE e == Append(p.buf, ch)
<1>1. p.buf \in Seq(Symbols)
  BY DEF ParserOK, Parsers
<1>2. e \in Seq(Symbols) /\ Len(e) <= BufMax
  BY <1>1, ParserAssumption
<1>3. ParserOK([p EXCEPT !.buf = e])
  BY <1>2, BufOK, Zenon
<1> QED
  BY <1>3, Zenon DEF Put

LEMMA RestartOK ==
  ASSUME NEW p, ParserOK(p), NEW ch \in Symbols
  PROVE  ParserOK(Put(Clear(p), ch))
BY ClearOK, PutOK, ParserAssumption

LEMMA AddFlagOK ==
  ASSUME NEW p, ParserOK(p), NEW f \in {"keep_alive", "close", "chunked", "trailing"}
  PROVE  ParserOK(AddFlag(p, f)) /\ AddFlag(p, f).buf = p.buf
BY DEF ParserOK, Parsers, AddFlag

-----------------------------------------------------------------------------
LEMMA schema_OK ==
  ASSUME NEW p, ParserOK(p), Len(p.buf) < BufMax, NEW ch \in Symbols,
         NEW d \in Seq(Symbols), d # <<>>
  PROVE  OutcomeOK(s_schema(p, ch), d)
BY GoesOn, ToOK, PutOK
DEF s_schema, States

LEMMA schema_slash_OK ==
  ASSUME NEW p, ParserOK(p), Len(p.buf) < BufMax, NEW ch \in Symbols,
         NEW d \in Seq(Symbols), d # <<>>
  PROVE  OutcomeOK(s_schema_slash(p, ch), d)
BY GoesOn, ToOK, PutOK
DEF s_schema_slash, States

LEMMA minor_digit_OK ==
  ASSUME NEW p, ParserOK(p), Len(p.buf) < BufMax, NEW ch \in Symbols,
         NEW d \in Seq(Symbols), d # <<>>
  PROVE  OutcomeOK(s_minor_digit(p, ch), d)
BY GoesOn, ToOK
DEF s_minor_digit, States

LEMMA spaces_after_digit_OK ==
  ASSUME NEW p, ParserOK(p), Len(p.buf) < BufMax, NEW ch \in Symbols,
         NEW d \in Seq(Symbols), d # <<>>
  PROVE  OutcomeOK(s_spaces_after_digit(p, ch), d)
BY GoesOn, ToOK
DEF s_spaces_after_digit, States

LEMMA almost_done_OK ==
  ASSUME NEW p, ParserOK(p), Len(p.buf) < BufMax, NEW ch \in Symbols,
         NEW d \in Seq(Symbols), d # <<>>
  PROVE  OutcomeOK(s_almost_done(p, ch), d)
BY GoesOn, ToOK, GoesOnWith, TodoOfOne
DEF s_almost_done, States

LEMMA hdrline_start_OK ==
  ASSUME NEW p, ParserOK(p), Len(p.buf) < BufMax, NEW ch \in Symbols,
         NEW d \in Seq(Symbols), d # <<>>
  PROVE  OutcomeOK(s_hdrline_start(p, ch), d)
BY GoesOn, ToOK, ClearOK, RestartOK
DEF s_hdrline_start, States

LEMMA done_OK ==
  ASSUME NEW p, ParserOK(p), Len(p.buf) < BufMax, NEW ch \in Symbols,
         NEW d \in Seq(Symbols), d # <<>>
  PROVE  OutcomeOK(s_done(p, ch), d)
BY GoesOn, ToOK, hdrline_start_OK
DEF s_done, States

LEMMA hdrline_hdr_space_before_val_OK ==
  ASSUME NEW p, ParserOK(p), Len(p.buf) < BufMax, NEW ch \in Symbols,
         NEW d \in Seq(Symbols), d # <<>>
  PROVE  OutcomeOK(s_hdrline_hdr_space_before_val(p, ch), d)
BY GoesOn, ToOK, PutOK, ParserAssumption
DEF s_hdrline_hdr_space_before_val, States, SP

LEMMA chunk_data_almost_done_OK ==
  ASSUME NEW p, ParserOK(p), Len(p.buf) < BufMax, NEW ch \in Symbols,
         NEW d \in Seq(Symbols), d # <<>>
  PROVE  OutcomeOK(s_chunk_data_almost_done(p, ch), d)
BY GoesOn, ToOK
DEF s_chunk_data_almost_done, States

LEMMA chunk_data_done_OK ==
  ASSUME NEW p, ParserOK(p), Len(p.buf) < BufMax, NEW ch \in Symbols,
         NEW d \in Seq(Symbols), d # <<>>
  PROVE  OutcomeOK(s_chunk_data_done(p, ch), d)
BY GoesOn, ToOK, GoesOnWith, TodoOfOne
DEF s_chunk_data_done, States

LEMMA chunk_size_almost_done_OK ==
  ASSUME NEW p, ParserOK(p), Len(p.buf) < BufMax, NEW ch \in Symbols,
         NEW d \in Seq(Symbols), d # <<>>
  PROVE  OutcomeOK(s_chunk_size_almost_done(p, ch), d)
BY GoesOn, ToOK, GoesOnWith, TodoOfOne, AddFlagOK
DEF s_chunk_size_almost_done, States

\* Every other field a step may change.
LEMMA FieldOK ==
  ASSUME NEW p, ParserOK(p)
  PROVE  /\ \A f \in SUBSET {"keep_alive", "close", "chunked", "trailing"} :
                ParserOK([p EXCEPT !.flags = f]) /\ [p EXCEPT !.flags = f].buf = p.buf
         /\ \A h \in Evaluated \cup {"none"} :
                ParserOK([p EXCEPT !.heval = h]) /\ [p EXCEPT !.heval = h].buf = p.buf
         /\ \A m \in {"GET", "POST", "PUT"} :
                ParserOK([p EXCEPT !.method = m]) /\ [p EXCEPT !.method = m].buf = p.buf
         /\ \A v \in Nat \X Nat : ParserOK([p EXCEPT !.version = v])
         /\ \A n \in Nat :
                /\ ParserOK([p EXCEPT !.content_len = n]) /\ [p EXCEPT !.content_len = n].buf = p.buf
                /\ ParserOK([p EXCEPT !.path_offset = n]) /\ [p EXCEPT !.path_offset = n].buf = p.buf
                /\ ParserOK([p EXCEPT !.args_offset = n]) /\ [p EXCEPT !.args_offset = n].buf = p.buf
         /\ ParserOK([p EXCEPT !.multipart = TRUE])
         /\ ParserOK([p EXCEPT !.version[2] = 9])
<1>1. ASSUME NEW f \in SUBSET {"keep_alive", "close", "chunked", "trailing"}
      PROVE  ParserOK([p EXCEPT !.flags = f]) /\ [p EXCEPT !.flags = f].buf = p.buf
  BY DEF ParserOK, Parsers
<1>2. ASSUME NEW h \in Evaluated \cup {"none"}
      PROVE  ParserOK([p EXCEPT !.heval = h]) /\ [p EXCEPT !.heval = h].buf = p.buf
  BY DEF ParserOK, Parsers
<1>3. ASSUME NEW m \in {"GET", "POST", "PUT"}
      PROVE  ParserOK([p EXCEPT !.method = m]) /\ [p EXCEPT !.method = m].buf = p.buf
  BY DEF ParserOK, Parsers
<1>4. ASSUME NEW v \in Nat \X Nat
      PROVE  ParserOK([p EXCEPT !.version = v])
  BY DEF ParserOK, Parsers
<1>5. ASSUME NEW n \in Nat
      PROVE  /\ ParserOK([p EXCEPT !.content_len = n]) /\ [p EXCEPT !.content_len = n].buf = p.buf
             /\ ParserOK([p EXCEPT !.path_offset = n]) /\ [p EXCEPT !.path_offset = n].buf = p.buf
             /\ ParserOK([p EXCEPT !.args_offset = n]) /\ [p EXCEPT !.args_offset = n].buf = p.buf
  BY DEF ParserOK, Parsers
<1>6. ParserOK([p EXCEPT !.multipart = TRUE])
  BY DEF ParserOK, Parsers
<1>7. ParserOK([p EXCEPT !.version[2] = 9])
  <2>1. [p.version EXCEPT ![2] = 9] \in Nat \X Nat
    BY DEF ParserOK, Parsers
  <2>2. ParserOK([p EXCEPT !.version = [p.version EXCEPT ![2] = 9]])
    BY <1>4, <2>1
  <2> QED
    BY <2>2
<1> QED
  BY <1>1, <1>2, <1>3, <1>4, <1>5, <1>6, <1>7, Zenon

LEMMA StartPathOK ==
  ASSUME NEW p, ParserOK(p), Len(p.buf) < BufMax, NEW ch \in Symbols
  PROVE  ParserOK(StartPath(p, ch))
<1> DEFINE q == [p EXCEPT !.path_offset = Len(p.buf) + 1]
<1>1. Len(p.buf) + 1 \in Nat
  BY DEF ParserOK, Parsers
<1>2. ParserOK(q) /\ q.buf = p.buf
  BY <1>1, FieldOK, Zenon
<1>3. ParserOK(Put(q, ch))
  BY <1>2, PutOK
<1>4. ParserOK(To(Put(q, ch), "after_slash_in_uri"))
  BY <1>3, ToOK DEF States
<1> QED
  BY <1>4 DEF StartPath

LEMMA StartArgsOK ==
  ASSUME NEW p, ParserOK(p), Len(p.buf) < BufMax, NEW ch \in Symbols
  PROVE  ParserOK(StartArgs(p, ch))
<1> DEFINE n == Len(p.buf) + 2
<1>1. n \in Nat
  BY DEF ParserOK, Parsers
<1>2. ParserOK(Put(p, ch))
  BY PutOK
<1>3. ParserOK([Put(p, ch) EXCEPT !.args_offset = n])
  BY <1>1, <1>2, FieldOK, Zenon
<1>4. ParserOK(To([Put(p, ch) EXCEPT !.args_offset = n], "uri"))
  BY <1>3, ToOK DEF States
<1> QED
  BY <1>4 DEF StartArgs

LEMMA EndOfLineOK ==
  ASSUME NEW p, ParserOK(p), NEW ch, NEW d \in Seq(Symbols), d # <<>>
  PROVE  OutcomeOK(EndOfLine(p, ch), d)
<1>1. ParserOK([p EXCEPT !.version[2] = 9])
  BY FieldOK, Zenon
<1> QED
  BY <1>1, ToOK, GoesOn DEF EndOfLine, States

LEMMA EndUriOK ==
  ASSUME NEW p, ParserOK(p), NEW run, TodoOK(run), NEW d \in Seq(Symbols), d # <<>>
  PROVE  OutcomeOK(EndUri(p, run), d)
BY ClearOK, ToOK, GoesOnWith DEF EndUri, States

LEMMA spaces_before_uri_OK ==
  ASSUME NEW p, ParserOK(p), Len(p.buf) < BufMax, NEW ch \in Symbols,
         NEW d \in Seq(Symbols), d # <<>>
  PROVE  OutcomeOK(s_spaces_before_uri(p, ch), d)
BY GoesOn, ToOK, PutOK, StartPathOK
DEF s_spaces_before_uri, States

LEMMA host_OK ==
  ASSUME NEW p, ParserOK(p), Len(p.buf) < BufMax, NEW ch \in Symbols,
         NEW d \in Seq(Symbols), d # <<>>
  PROVE  OutcomeOK(s_host(p, ch), d)
BY GoesOn, ToOK, PutOK, StartPathOK
DEF s_host, States

LEMMA port_OK ==
  ASSUME NEW p, ParserOK(p), Len(p.buf) < BufMax, NEW ch \in Symbols,
         NEW d \in Seq(Symbols), d # <<>>
  PROVE  OutcomeOK(s_port(p, ch), d)
BY GoesOn, ToOK, PutOK, StartPathOK, ClearOK
DEF s_port, States

LEMMA after_slash_in_uri_OK ==
  ASSUME NEW p, ParserOK(p), Len(p.buf) < BufMax, NEW ch \in Symbols,
         NEW d \in Seq(Symbols), d # <<>>
  PROVE  OutcomeOK(s_after_slash_in_uri(p, ch), d)
BY GoesOn, ToOK, PutOK, StartArgsOK, EndUriOK, EndOfLineOK, TodoOfOne, GoesOnWith
DEF s_after_slash_in_uri, States

LEMMA check_uri_OK ==
  ASSUME NEW p, ParserOK(p), Len(p.buf) < BufMax, NEW ch \in Symbols,
         NEW d \in Seq(Symbols), d # <<>>
  PROVE  OutcomeOK(s_check_uri(p, ch), d)
BY GoesOn, ToOK, PutOK, StartArgsOK, EndUriOK, EndOfLineOK, ClearOK, TodoOfOne, GoesOnWith
DEF s_check_uri, States

LEMMA uri_OK ==
  ASSUME NEW p, ParserOK(p), Len(p.buf) < BufMax, NEW ch \in Symbols,
         NEW d \in Seq(Symbols), d # <<>>
  PROVE  OutcomeOK(s_uri(p, ch), d)
BY GoesOn, ToOK, PutOK, StartArgsOK, EndUriOK, EndOfLineOK, ClearOK, TodoOfOne, GoesOnWith
DEF s_uri, States

LEMMA method_OK ==
  ASSUME NEW p, ParserOK(p), Len(p.buf) < BufMax, NEW ch \in Symbols,
         NEW d \in Seq(Symbols), d # <<>>
  PROVE  OutcomeOK(s_method(p, ch), d)
<1> DEFINE q == [p EXCEPT !.method = IF p.buf \in DOMAIN Methods THEN Methods[p.buf] ELSE @]
<1>1. p.method \in {"GET", "POST", "PUT"}
  BY DEF ParserOK, Parsers
<1>2. ParserOK(q)
  <2>1. CASE p.buf \in DOMAIN Methods
    BY <2>1, MethodsType, FieldOK, Zenon
  <2>2. CASE p.buf \notin DOMAIN Methods
    BY <2>2, <1>1, FieldOK, Zenon
  <2> QED
    BY <2>1, <2>2
<1> HIDE DEF q
<1>3. ParserOK(To(Clear(q), "spaces_before_uri"))
  BY <1>2, ClearOK, ToOK DEF States
<1>4. ch = SP => s_method(p, ch) = Go(To(Clear(q), "spaces_before_uri"))
  BY DEF s_method, q
<1>5. ch # SP => s_method(p, ch) \in {Go(Put(p, ch)), Error(p)}
  BY DEF s_method
<1> QED
  BY <1>3, <1>4, <1>5, PutOK, GoesOn

LEMMA http_09_OK ==
  ASSUME NEW p, ParserOK(p), Len(p.buf) < BufMax, NEW ch \in Symbols,
         NEW d \in Seq(Symbols), d # <<>>
  PROVE  OutcomeOK(s_http_09(p, ch), d)
<1>1. ASSUME ch \in DOMAIN Versions
      PROVE  ParserOK(To([Clear(p) EXCEPT !.version = Versions[ch]], "minor_digit"))
  <2>1. ParserOK([Clear(p) EXCEPT !.version = Versions[ch]])
    BY <1>1, VersionsType, ClearOK, FieldOK, Zenon
  <2> QED
    BY <2>1, ToOK DEF States
<1> QED
  BY <1>1, ClearOK, EndOfLineOK, GoesOn DEF s_http_09

LEMMA hdrline_hdr_key_OK ==
  ASSUME NEW p, ParserOK(p), Len(p.buf) < BufMax, NEW ch \in Symbols,
         NEW d \in Seq(Symbols), d # <<>>
  PROVE  OutcomeOK(s_hdrline_hdr_key(p, ch), d)
<1> DEFINE h == IF Head(p.buf) \in Evaluated THEN Head(p.buf) ELSE "none"
           q == [p EXCEPT !.heval = h]
<1>1. ParserOK(q)
  BY FieldOK, Zenon
<1>2. ParserOK(To(Clear(q), "hdrline_hdr_space_before_val"))
  BY <1>1, ClearOK, ToOK DEF States
<1>3. CASE ch = ":"
  <2>0. TodoOK(Hook("hdr_key", p.buf))
    BY TodoOfOne
  <2>1. OutcomeOK(Outcome(To(Clear(q), "hdrline_hdr_space_before_val"), Hook("hdr_key", p.buf)), d)
    BY <1>2, <2>0, GoesOnWith, Zenon
  <2>2. ":" # CR /\ ":" # LF
    BY DEF CR, LF
  <2>3. s_hdrline_hdr_key(p, ":")
           = Outcome(To(Clear(q), "hdrline_hdr_space_before_val"), Hook("hdr_key", p.buf))
    BY <2>2 DEF s_hdrline_hdr_key
  <2> QED
    BY <1>3, <2>1, <2>3
<1>4. CASE ch # ":"
  BY <1>4, GoesOn, ToOK, PutOK DEF s_hdrline_hdr_key, States
<1> QED
  BY <1>3, <1>4

\* The parser takes from a value no more than it has fields for.
LEMMA EvaluateOK ==
  ASSUME NEW p, ParserOK(p), p.heval = "Content-Length" => Number(p.buf) # {}
  PROVE  ParserOK(Evaluate(p))
<1>1. \A n \in Number(p.buf) : n \in Nat
  BY NumbersType DEF Number
<1>2. p.heval = "Content-Length" => (CHOOSE n \in Number(p.buf) : TRUE) \in Nat
  BY <1>1
<1>3. p.heval = "Content-Length" =>
         ParserOK([p EXCEPT !.content_len = CHOOSE n \in Number(p.buf) : TRUE])
  BY <1>2, FieldOK, Zenon
<1>4. ParserOK([p EXCEPT !.multipart = TRUE])
  BY FieldOK, Zenon
<1> QED
  BY <1>3, <1>4, AddFlagOK DEF Evaluate

LEMMA hdrline_hdr_val_OK ==
  ASSUME NEW p, ParserOK(p), Len(p.buf) < BufMax, NEW ch \in Symbols,
         NEW d \in Seq(Symbols), d # <<>>
  PROVE  OutcomeOK(s_hdrline_hdr_val(p, ch), d)
<1>1. ParserOK([p EXCEPT !.content_len = 0])
  BY FieldOK, Zenon
<1>2. CASE ch = CR /\ ~(p.heval = "Content-Length" /\ Number(p.buf) = {})
  <2>1. ParserOK(To(Evaluate(p), "hdrline_hdr_almost_done"))
    BY <1>2, EvaluateOK, ToOK DEF States
  <2>2. OutcomeOK(Outcome(To(Evaluate(p), "hdrline_hdr_almost_done"),
                          IF p.heval = "Host" THEN Hook("hostname", p.buf) ELSE <<>>), d)
    BY <2>1, GoesOnWith, TodoOfOne, TodoOfNone
  <2>3. CR # LF
    BY DEF CR, LF
  <2> QED
    BY <1>2, <2>2, <2>3 DEF s_hdrline_hdr_val
<1>3. CASE ~(ch = CR /\ ~(p.heval = "Content-Length" /\ Number(p.buf) = {}))
  <2>1. s_hdrline_hdr_val(p, ch) \in {Error(p), Go(Put(p, ch)), Error([p EXCEPT !.content_len = 0])}
    BY <1>3 DEF s_hdrline_hdr_val
  <2> QED
    BY <2>1, <1>1, GoesOn, PutOK
<1> QED
  BY <1>2, <1>3

LEMMA CompleteOK ==
  ASSUME NEW p, ParserOK(p), NEW d \in Seq(Symbols), d # <<>>
  PROVE  OutcomeOK(Complete(p), d)
BY ToOK, GoesOnWith, TodoOfOne DEF Complete, States

LEMMA hdrline_hdr_almost_done_OK ==
  ASSUME NEW p, ParserOK(p), Len(p.buf) < BufMax, NEW ch \in Symbols,
         NEW d \in Seq(Symbols), d # <<>>
  PROVE  OutcomeOK(s_hdrline_hdr_almost_done(p, ch), d)
BY GoesOn, ToOK, CompleteOK
DEF s_hdrline_hdr_almost_done, States

LEMMA hdrline_almost_done_OK ==
  ASSUME NEW p, ParserOK(p), Len(p.buf) < BufMax, NEW ch \in Symbols,
         NEW d \in Seq(Symbols), d # <<>>
  PROVE  OutcomeOK(s_hdrline_almost_done(p, ch), d)
BY GoesOn, ToOK, CompleteOK, ClearOK
DEF s_hdrline_almost_done, States

LEMMA hdrline_hdr_done_OK ==
  ASSUME NEW p, ParserOK(p), Len(p.buf) < BufMax, NEW ch \in Symbols,
         NEW d \in Seq(Symbols), d # <<>>
  PROVE  OutcomeOK(s_hdrline_hdr_done(p, ch), d)
<1>1. HookOK([name |-> "hdr_val", arg |-> p.buf])
  BY DEF HookOK, ParserOK, Parsers
<1>2. HookOK([name |-> "on_hdrs_complete", arg |-> <<>>])
  BY DEF HookOK
<1>3. TodoOK(Hook("hdr_val", p.buf))
  BY <1>1 DEF TodoOK, Hook
<1>4. TodoOK(Hook("hdr_val", p.buf) \o Hook("on_hdrs_complete", <<>>))
  <2> DEFINE a == [name |-> "hdr_val", arg |-> p.buf]
             b == [name |-> "on_hdrs_complete", arg |-> <<>>]
  <2> HIDE DEF a, b
  <2>1. <<a>> \o <<b>> = <<a, b>>
    BY PairOfHooks
  <2>2. TodoOK(<<a, b>>)
    BY <1>1, <1>2 DEF TodoOK, a, b
  <2> QED
    BY <2>1, <2>2 DEF Hook, a, b
<1> QED
  BY <1>3, <1>4, GoesOn, GoesOnWith, ToOK, RestartOK DEF s_hdrline_hdr_done, States

LEMMA chunk_size_start_OK ==
  ASSUME NEW p, ParserOK(p), Len(p.buf) < BufMax, NEW ch \in Symbols,
         NEW d \in Seq(Symbols), d # <<>>
  PROVE  OutcomeOK(s_chunk_size_start(p, ch), d)
<1>1. ASSUME ch \in DOMAIN Numbers
      PROVE  ParserOK(To([p EXCEPT !.content_len = Numbers[ch]], "chunk_size"))
  <2>1. ParserOK([p EXCEPT !.content_len = Numbers[ch]])
    BY <1>1, NumbersType, FieldOK, Zenon
  <2> QED
    BY <2>1, ToOK DEF States
<1> QED
  BY <1>1, GoesOn DEF s_chunk_size_start

LEMMA chunk_size_OK ==
  ASSUME NEW p, ParserOK(p), Len(p.buf) < BufMax, NEW ch \in Symbols,
         NEW d \in Seq(Symbols), d # <<>>
  PROVE  OutcomeOK(s_chunk_size(p, ch), d)
<1>1. ASSUME ch \in DOMAIN Numbers
      PROVE  ParserOK([p EXCEPT !.content_len = @ * 16 + Numbers[ch]])
  <2>1. p.content_len * 16 + Numbers[ch] \in Nat
    BY <1>1, NumbersType DEF ParserOK, Parsers
  <2> QED
    BY <2>1, FieldOK, Zenon
<1> QED
  BY <1>1, GoesOn, ToOK DEF s_chunk_size, States

LEMMA start_OK ==
  ASSUME NEW p, ParserOK(p), Len(p.buf) < BufMax, NEW ch \in Symbols,
         NEW d \in Seq(Symbols), d # <<>>
  PROVE  OutcomeOK(s_start(p, ch), d)
<1> DEFINE q == [p EXCEPT !.flags = {}]
<1>1. ParserOK(q) /\ q.buf = p.buf
  BY FieldOK, Zenon
<1> HIDE DEF q
<1>2. s_start(p, ch) \in {Go(q), Error(q), Outcome(To(Put(q, ch), "method"), Hook("on_msg_begin", ch))}
  BY DEF s_start, q
<1>3. ParserOK(Put(q, ch))
  BY <1>1, PutOK
<1>4. ParserOK(To(Put(q, ch), "method"))
  BY <1>3, ToOK DEF States
<1>5. OutcomeOK(Outcome(To(Put(q, ch), "method"), Hook("on_msg_begin", ch)), d)
  BY <1>4, GoesOnWith, TodoOfOne
<1> QED
  BY <1>1, <1>2, <1>5, GoesOn

LEMMA BodyOK ==
  ASSUME NEW p, ParserOK(p), NEW d \in Seq(Symbols), d # <<>>, NEW next \in States,
         NEW name, NEW run, run \in {<<>>, Hook(name, <<>>)}, name \notin {"body", "hdr_val"}
  PROVE  OutcomeOK(Body(p, d, next, run), d)
<1> DEFINE n == Taken(p, d)
           rest == Rest(p, d)
           more == Hook("body", SubSeq(d, 1, n)) \o (IF rest = 0 THEN run ELSE <<>>)
           q == [p EXCEPT !.content_len = rest, !.state = IF rest = 0 THEN next ELSE @]
<1>1. p.content_len \in Nat /\ Len(d) \in Nat
  BY DEF ParserOK, Parsers
<1>2. n \in 0 .. Len(d) /\ rest \in Nat
  BY <1>1 DEF Taken, Rest
<1>3. SubSeq(d, 1, n) \in Seq(Symbols)
  BY <1>2
<1>6. Body(p, d, next, run) = [Outcome(q, more) EXCEPT !.used = n]
  BY DEF Body
<1> HIDE DEF n, rest
<1>4. ParserOK(q)
  BY <1>2 DEF ParserOK, Parsers
<1>5. TodoOK(more)
  <2> DEFINE a == [name |-> "body", arg |-> SubSeq(d, 1, n)]
             b == [name |-> name, arg |-> <<>>]
  <2>1. HookOK(a)
    BY <1>3 DEF HookOK
  <2>2. HookOK(b)
    BY DEF HookOK
  <2>3. more = <<a>> \o (IF rest = 0 THEN run ELSE <<>>)
    BY DEF Hook
  <2>4. run \in {<<>>, <<b>>}
    BY DEF Hook
  <2> HIDE DEF a, b, more
  <2>5. <<a>> \o <<b>> = <<a, b>> /\ <<a>> \o <<>> = <<a>>
    BY PairOfHooks
  <2>6. TodoOK(<<a>>) /\ TodoOK(<<a, b>>)
    BY <2>1, <2>2 DEF TodoOK
  <2>7. more \in {<<a>>, <<a, b>>}
    BY <2>3, <2>4, <2>5
  <2> QED
    BY <2>6, <2>7
<1> HIDE DEF q, more
<1>7. /\ [Outcome(q, more) EXCEPT !.used = n].p = q
      /\ [Outcome(q, more) EXCEPT !.used = n].used = n
      /\ [Outcome(q, more) EXCEPT !.used = n].run = more
  BY DEF Outcome
<1> QED
  BY <1>2, <1>4, <1>5, <1>6, <1>7 DEF OutcomeOK

LEMMA BodiesOK ==
  ASSUME NEW p, ParserOK(p), NEW d \in Seq(Symbols), d # <<>>
  PROVE  OutcomeOK(s_chunk_data(p, d), d) /\ OutcomeOK(s_body_read(p, d), d)
<1>1. OutcomeOK(Body(p, d, "chunk_data_almost_done", <<>>), d)
  BY BodyOK, "on_msg_complete" \notin {"body", "hdr_val"} DEF States
<1>2. OutcomeOK(Body(p, d, "start", Hook("on_msg_complete", <<>>)), d)
  BY BodyOK, "on_msg_complete" \notin {"body", "hdr_val"} DEF States
<1> QED
  BY <1>1, <1>2 DEF s_chunk_data, s_body_read

\* Whatever the input, the buffer of the parser stays within its bound, no more
\* is read than there is, and at most two hooks are to run.
LEMMA StepOK ==
  ASSUME NEW p, ParserOK(p), NEW d \in Seq(Symbols), d # <<>>
  PROVE  OutcomeOK(Step(p, d), d)
<1> DEFINE ch == Head(d)
<1>1. ch \in Symbols
  OBVIOUS
<1>2. CASE Full(p)
  BY <1>2, GoesOn DEF Step
<1>3. CASE ~Full(p)
  <2>1. Len(p.buf) < BufMax
    BY <1>3, ParserAssumption DEF Full, ParserOK, Parsers
  <2>2. p.state \in States
    BY DEF ParserOK, Parsers
  <2> HIDE DEF ch
  <2>3. CASE p.state \in {"start", "method", "spaces_before_uri", "schema", "host", "port", "after_slash_in_uri"}
    <3>1. CASE p.state = "start"
      BY <1>1, <1>3, <2>1, <3>1, start_OK DEF Step, ch
    <3>2. CASE p.state = "method"
      BY <1>1, <1>3, <2>1, <3>2, method_OK DEF Step, ch
    <3>3. CASE p.state = "spaces_before_uri"
      BY <1>1, <1>3, <2>1, <3>3, spaces_before_uri_OK DEF Step, ch
    <3>4. CASE p.state = "schema"
      BY <1>1, <1>3, <2>1, <3>4, schema_OK DEF Step, ch
    <3>5. CASE p.state = "host"
      BY <1>1, <1>3, <2>1, <3>5, host_OK DEF Step, ch
    <3>6. CASE p.state = "port"
      BY <1>1, <1>3, <2>1, <3>6, port_OK DEF Step, ch
    <3>7. CASE p.state = "after_slash_in_uri"
      BY <1>1, <1>3, <2>1, <3>7, after_slash_in_uri_OK DEF Step, ch
    <3> QED
      BY <2>3, <3>1, <3>2, <3>3, <3>4, <3>5, <3>6, <3>7
  <2>4. CASE p.state \in {"check_uri", "uri", "http_09", "minor_digit", "spaces_after_digit", "almost_done", "done"}
    <3>1. CASE p.state = "check_uri"
      BY <1>1, <1>3, <2>1, <3>1, check_uri_OK DEF Step, ch
    <3>2. CASE p.state = "uri"
      BY <1>1, <1>3, <2>1, <3>2, uri_OK DEF Step, ch
    <3>3. CASE p.state = "http_09"
      BY <1>1, <1>3, <2>1, <3>3, http_09_OK DEF Step, ch
    <3>4. CASE p.state = "minor_digit"
      BY <1>1, <1>3, <2>1, <3>4, minor_digit_OK DEF Step, ch
    <3>5. CASE p.state = "spaces_after_digit"
      BY <1>1, <1>3, <2>1, <3>5, spaces_after_digit_OK DEF Step, ch
    <3>6. CASE p.state = "almost_done"
      BY <1>1, <1>3, <2>1, <3>6, almost_done_OK DEF Step, ch
    <3>7. CASE p.state = "done"
      BY <1>1, <1>3, <2>1, <3>7, done_OK DEF Step, ch
    <3> QED
      BY <2>4, <3>1, <3>2, <3>3, <3>4, <3>5, <3>6, <3>7
  <2>5. CASE p.state \in {"hdrline_start", "hdrline_hdr_key", "hdrline_hdr_space_before_val", "hdrline_hdr_val", "hdrline_hdr_almost_done", "hdrline_hdr_done", "hdrline_almost_done"}
    <3>1. CASE p.state = "hdrline_start"
      BY <1>1, <1>3, <2>1, <3>1, hdrline_start_OK DEF Step, ch
    <3>2. CASE p.state = "hdrline_hdr_key"
      BY <1>1, <1>3, <2>1, <3>2, hdrline_hdr_key_OK DEF Step, ch
    <3>3. CASE p.state = "hdrline_hdr_space_before_val"
      BY <1>1, <1>3, <2>1, <3>3, hdrline_hdr_space_before_val_OK DEF Step, ch
    <3>4. CASE p.state = "hdrline_hdr_val"
      BY <1>1, <1>3, <2>1, <3>4, hdrline_hdr_val_OK DEF Step, ch
    <3>5. CASE p.state = "hdrline_hdr_almost_done"
      BY <1>1, <1>3, <2>1, <3>5, hdrline_hdr_almost_done_OK DEF Step, ch
    <3>6. CASE p.state = "hdrline_hdr_done"
      BY <1>1, <1>3, <2>1, <3>6, hdrline_hdr_done_OK DEF Step, ch
    <3>7. CASE p.state = "hdrline_almost_done"
      BY <1>1, <1>3, <2>1, <3>7, hdrline_almost_done_OK DEF Step, ch
    <3> QED
      BY <2>5, <3>1, <3>2, <3>3, <3>4, <3>5, <3>6, <3>7
  <2>6. CASE p.state \in {"chunk_size_start", "chunk_size", "chunk_size_almost_done", "chunk_data_almost_done", "chunk_data_done"}
    <3>1. CASE p.state = "chunk_size_start"
      BY <1>1, <1>3, <2>1, <3>1, chunk_size_start_OK DEF Step, ch
    <3>2. CASE p.state = "chunk_size"
      BY <1>1, <1>3, <2>1, <3>2, chunk_size_OK DEF Step, ch
    <3>3. CASE p.state = "chunk_size_almost_done"
      BY <1>1, <1>3, <2>1, <3>3, chunk_size_almost_done_OK DEF Step, ch
    <3>4. CASE p.state = "chunk_data_almost_done"
      BY <1>1, <1>3, <2>1, <3>4, chunk_data_almost_done_OK DEF Step, ch
    <3>5. CASE p.state = "chunk_data_done"
      BY <1>1, <1>3, <2>1, <3>5, chunk_data_done_OK DEF Step, ch
    <3> QED
      BY <2>6, <3>1, <3>2, <3>3, <3>4, <3>5
  <2>7. CASE p.state \in {"schema_slash", "schema_slash_slash"}
    BY <1>1, <1>3, <2>1, <2>7, schema_slash_OK DEF Step, ch
  <2>8. CASE p.state \in {"chunk_data", "body_read"}
    BY <1>3, <2>8, BodiesOK DEF Step
  <2> QED
    BY <2>2, <2>3, <2>4, <2>5, <2>6, <2>7, <2>8 DEF States
<1> QED
  BY <1>2, <1>3

\* A request begins with the first symbol of its line, and nowhere else.
LEMMA Begins ==
  ASSUME NEW p, ParserOK(p), p.state = "start", NEW d \in Seq(Symbols), d # <<>>
  PROVE  \/ Step(p, d).p.state = "start" /\ Step(p, d).run = <<>>
         \/ Step(p, d).run = <<[name |-> "on_msg_begin", arg |-> Head(d)]>>
<1>1. CASE Full(p)
  BY <1>1 DEF Step, Error, Go, Outcome
<1>2. CASE ~Full(p)
  <2> DEFINE ch == Head(d)
             q == [p EXCEPT !.flags = {}]
  <2>1. Step(p, d) = s_start(p, ch)
    BY <1>2 DEF Step
  <2>2. q.state = "start"
    BY DEF ParserOK, Parsers
  <2>3. s_start(p, ch) \in {Go(q), Error(q), Outcome(To(Put(q, ch), "method"), Hook("on_msg_begin", ch))}
    BY DEF s_start
  <2> HIDE DEF q, ch
  <2>4. Go(q).p = q /\ Go(q).run = <<>> /\ Error(q).p = q /\ Error(q).run = <<>>
    BY DEF Go, Error, Outcome
  <2>5. Outcome(To(Put(q, ch), "method"), Hook("on_msg_begin", ch)).run
          = <<[name |-> "on_msg_begin", arg |-> ch]>>
    BY DEF Outcome, Hook
  <2> QED
    BY <2>1, <2>2, <2>3, <2>4, <2>5 DEF ch
<1> QED
  BY <1>1, <1>2

-----------------------------------------------------------------------------
(* Lists of replies.                                                       *)

LEMMA ListsAreSeqs ==
  ASSUME NEW s, IsList(s), NEW S, \A i \in DOMAIN s : s[i] \in S
  PROVE  s \in Seq(S)
<1>1. s \in Seq({s[i] : i \in DOMAIN s})
  BY DEF IsList
<1>2. {s[i] : i \in DOMAIN s} \subseteq S
  OBVIOUS
<1> QED
  BY <1>1, <1>2

LEMMA SeqsAreLists ==
  ASSUME NEW S, NEW s \in Seq(S)
  PROVE  IsList(s)
<1>1. s = [i \in 1 .. Len(s) |-> s[i]] /\ Len(s) \in Nat
  OBVIOUS
<1> DEFINE T == {s[i] : i \in DOMAIN s}
<1>2. \A i \in 1 .. Len(s) : s[i] \in T
  OBVIOUS
<1> HIDE DEF T
<1>3. [i \in 1 .. Len(s) |-> s[i]] \in Seq(T)
  BY <1>1, <1>2
<1>4. s \in Seq(T)
  BY <1>1, <1>3
<1> QED
  BY <1>4 DEF IsList, T

LEMMA OrderedGrows ==
  ASSUME NEW s, NEW n \in Nat, NEW m \in Nat, n <= m, Ordered(s, n)
  PROVE  Ordered(s, m)
BY DEF Ordered

\* A reply to the last request goes to the end.
LEMMA ReplyAppended ==
  ASSUME NEW a, IsList(a), NEW b, IsList(b), NEW n \in Nat, n > 0, Ordered(a \o b, n),
         NEW x, x.id = n
  PROVE  IsList(Append(b, x)) /\ Ordered(a \o Append(b, x), n)
<1> DEFINE S == {a[i] : i \in DOMAIN a} \cup {b[i] : i \in DOMAIN b} \cup {x}
<1>1. (\A i \in DOMAIN a : a[i] \in S) /\ (\A i \in DOMAIN b : b[i] \in S) /\ x \in S
  OBVIOUS
<1> HIDE DEF S
<1>2. a \in Seq(S) /\ b \in Seq(S)
  BY <1>1, ListsAreSeqs
<1>0. Append(b, x) \in Seq(S)
  BY <1>1, <1>2
<1>3. IsList(Append(b, x))
  BY <1>0, SeqsAreLists
<1> DEFINE t == a \o b
           u == a \o Append(b, x)
<1>4. t \in Seq(S) /\ u \in Seq(S) /\ Len(u) = Len(t) + 1
  BY <1>1, <1>2
<1>5. (\A i \in 1 .. Len(t) : u[i] = t[i]) /\ u[Len(u)] = x
  BY <1>1, <1>2
<1> HIDE DEF t, u
<1>6. Ordered(t, n)
  BY DEF t
<1>8. DOMAIN t = 1 .. Len(t) /\ DOMAIN u = 1 .. Len(u) /\ Len(t) \in Nat
  BY <1>4
<1>12. Len(t) \in Nat /\ Len(u) = Len(t) + 1
  BY <1>4
<1>9. ASSUME NEW i \in DOMAIN u
      PROVE  (i \in DOMAIN t /\ u[i] = t[i]) \/ (i = Len(u) /\ u[i].id = n)
  <2>0. i \in 1 .. Len(u)
    BY <1>8
  <2>1. i \in 1 .. Len(t) \/ i = Len(u)
    BY <1>12, <2>0
  <2>2. CASE i \in 1 .. Len(t)
    BY <1>5, <1>8, <2>2
  <2>3. CASE i = Len(u)
    <3>1. u[i] = x
      BY <1>5, <2>3
    <3> QED
      BY <2>3, <3>1
  <2> QED
    BY <2>1, <2>2, <2>3
<1>10. \A i \in DOMAIN u : u[i].id \in 1 .. n
  BY <1>6, <1>9 DEF Ordered
<1>11. ASSUME NEW i \in DOMAIN u, NEW j \in DOMAIN u, i <= j
       PROVE  u[i].id <= u[j].id
  <2>1. CASE j = Len(u) /\ u[j].id = n
    BY <1>10, <2>1
  <2>2. CASE j \in DOMAIN t /\ u[j] = t[j]
    <3>1. i \in DOMAIN t /\ u[i] = t[i]
      BY <1>4, <1>5, <1>8, <1>11, <2>2
    <3> QED
      BY <1>6, <1>11, <2>2, <3>1 DEF Ordered
  <2> QED
    BY <1>9, <2>1, <2>2
<1>7. Ordered(u, n)
  BY <1>10, <1>11 DEF Ordered
<1> QED
  BY <1>3, <1>7 DEF u

LEMMA ReplyWritten ==
  ASSUME NEW a, IsList(a), NEW b, IsList(b), b # <<>>
  PROVE  /\ IsList(Append(a, Head(b))) /\ IsList(Tail(b))
         /\ Append(a, Head(b)) \o Tail(b) = a \o b
<1> DEFINE S == {a[i] : i \in DOMAIN a} \cup {b[i] : i \in DOMAIN b}
<1>1. (\A i \in DOMAIN a : a[i] \in S) /\ (\A i \in DOMAIN b : b[i] \in S)
  OBVIOUS
<1> HIDE DEF S
<1>2. a \in Seq(S) /\ b \in Seq(S)
  BY <1>1, ListsAreSeqs
<1>3. Append(a, Head(b)) \in Seq(S) /\ Tail(b) \in Seq(S)
  BY <1>2
<1> DEFINE t == a \o b
           u == Append(a, Head(b)) \o Tail(b)
<1>4. t \in Seq(S) /\ u \in Seq(S) /\ Len(t) = Len(u)
  BY <1>2, <1>3
<1>5. \A i \in 1 .. Len(t) : t[i] = u[i]
  BY <1>2, <1>3
<1> HIDE DEF t, u
<1>6. t = u
  BY <1>4, <1>5
<1> QED
  BY <1>3, <1>6, SeqsAreLists DEF t, u

LEMMA RepliesLost ==
  ASSUME NEW a, IsList(a), NEW b, IsList(b), NEW n \in Nat, Ordered(a \o b, n)
  PROVE  IsList(<<>>) /\ Ordered(a \o <<>>, n)
<1> DEFINE S == {a[i] : i \in DOMAIN a} \cup {b[i] : i \in DOMAIN b}
<1>1. (\A i \in DOMAIN a : a[i] \in S) /\ (\A i \in DOMAIN b : b[i] \in S)
  OBVIOUS
<1> HIDE DEF S
<1>2. a \in Seq(S) /\ b \in Seq(S)
  BY <1>1, ListsAreSeqs
<1> DEFINE t == a \o b
<1>3. a \o <<>> = a /\ t \in Seq(S) /\ Len(a) <= Len(t)
  BY <1>2
<1>4. \A i \in 1 .. Len(a) : t[i] = a[i]
  BY <1>2
<1> HIDE DEF t
<1>7. Ordered(t, n)
  BY DEF t
<1>8. \A i \in DOMAIN a : i \in DOMAIN t /\ t[i] = a[i]
  BY <1>2, <1>3, <1>4
<1>5. Ordered(a, n)
  BY <1>7, <1>8, Zenon DEF Ordered
<1>6. <<>> \in Seq(S)
  OBVIOUS
<1> QED
  BY <1>3, <1>5, <1>6, SeqsAreLists

-----------------------------------------------------------------------------
(* The steps of the connection.                                            *)

LEMMA RequestsAre ==
  ASSUME NEW r, NEW n \in Nat, NEW b \in Nat, IsRequest(r, n, b)
  PROVE  /\ r # NoRequest
         /\ \A v : /\ IsRequest([r EXCEPT !.status = v], n, b)
                   /\ IsRequest([r EXCEPT !.finished = v], n, b)
                   /\ IsRequest([r EXCEPT !.args = v], n, b)
<1>1. r # NoRequest
  BY DEF IsRequest, NoRequest
<1>2. ASSUME NEW v
      PROVE  /\ IsRequest([r EXCEPT !.status = v], n, b)
             /\ IsRequest([r EXCEPT !.finished = v], n, b)
             /\ IsRequest([r EXCEPT !.args = v], n, b)
  BY DEF IsRequest, RequestFields
<1> QED
  BY <1>1, <1>2

LEMMA NewRequestIs ==
  ASSUME NEW n \in Nat, n > 0, NEW b \in Nat
  PROVE  IsRequest(NewRequest(n), n, b)
<1>1. <<>> \in Seq(Symbols) /\ Len(<<>>) = 0
  OBVIOUS
<1> QED
  BY <1>1 DEF IsRequest, NewRequest, RequestFields

\* The runs of hooks: how long, and what is left after the first.
LEMMA TodoShort ==
  ASSUME NEW run, TodoOK(run)
  PROVE  /\ Len(run) <= 2
         /\ run # <<>> => HookOK(run[1]) /\ TodoOK(Tail(run))
<1> DEFINE Goal == Len(run) <= 2 /\ (run # <<>> => HookOK(run[1]) /\ TodoOK(Tail(run)))
<1>1. run = <<>> => Goal
  OBVIOUS
<1>2. ASSUME NEW a, HookOK(a), run = <<a>>
      PROVE  Goal
  <2>1. Len(<<a>>) = 1 /\ Tail(<<a>>) = <<>> /\ <<a>>[1] = a
    OBVIOUS
  <2>2. Len(run) = 1 /\ Tail(run) = <<>> /\ run[1] = a
    BY <1>2, <2>1
  <2> QED
    BY <1>2, <2>2, TodoOfNone
<1>3. ASSUME NEW a, NEW b, HookOK(a), HookOK(b), run = <<a, b>>
      PROVE  Goal
  <2>1. Len(<<a, b>>) = 2 /\ Tail(<<a, b>>) = <<b>> /\ <<a, b>>[1] = a
    OBVIOUS
  <2>2. Len(run) = 2 /\ Tail(run) = <<b>> /\ run[1] = a
    BY <1>3, <2>1
  <2>3. TodoOK(<<b>>)
    BY <1>3 DEF TodoOK
  <2> QED
    BY <1>3, <2>2, <2>3
<1> HIDE DEF Goal
<1>4. Goal
  BY <1>1, <1>2, <1>3, Zenon DEF TodoOK
<1> QED
  BY <1>4 DEF Goal

\* What the invariant says, in the words of the properties.
LEMMA InvHolds ==
  ASSUME HttpInv
  PROVE  HttpTypeOK /\ HooksHaveRequests /\ RepliesInOrder /\ LimitsHold
<1> USE DEF HttpInv
<1>1. Len(todo) <= 2
  BY TodoShort DEF InputInv
<1>2. Len(parser.buf) <= BufMax
  BY DEF InputInv, ParserOK
<1>3. request.id \in 0 .. begun
  BY DEF RequestInv, IsRequest, NoRequest
<1>4. HttpTypeOK
  BY <1>1, <1>2, <1>3 DEF HttpTypeOK, InputInv, RequestInv
<1>5. MaxBody > 0 /\ Served => Len(request.body) < MaxBody
  BY HttpAssumption DEF RequestInv, IsRequest, LimitInv, Served
<1>6. LimitsHold
  BY <1>5 DEF LimitsHold, LimitInv
<1> QED
  BY <1>4, <1>6 DEF ReadInv, ReplyInv

LEMMA InvInit == Init => HttpInv
<1> SUFFICES ASSUME Init
             PROVE  HttpInv
  OBVIOUS
<1> USE DEF Init
<1>1. <<>> \in Seq(Symbols) /\ <<>> \in Seq(Questions) /\ Len(<<>>) = 0 /\ <<>> \in Seq({1})
  OBVIOUS
<1>2. InputInv
  BY <1>1, NewParserOK, TodoOfNone, HttpAssumption DEF InputInv
<1>3. parser.state = "start"
  BY DEF NewParser
<1>4. ReadInv
  BY <1>3 DEF ReadInv, HooksHaveRequests
<1>5. RequestInv
  BY HttpAssumption DEF RequestInv, Hosts
<1>6. ReplyInv
  <2>1. IsList(<<>>)
    BY <1>1, SeqsAreLists
  <2>2. <<>> \o <<>> = <<>> /\ DOMAIN <<>> = {}
    OBVIOUS
  <2>3. Ordered(<<>>, 0)
    BY <2>2 DEF Ordered
  <2> QED
    BY <2>1, <2>2, <2>3 DEF ReplyInv, RepliesInOrder
<1>7. LimitInv
  BY HttpAssumption DEF LimitInv
<1> QED
  BY <1>2, <1>4, <1>5, <1>6, <1>7 DEF HttpInv

LEMMA SameReplies ==
  ASSUME ReplyInv, UNCHANGED <<got, out, begun>>
  PROVE  ReplyInv'
BY DEF ReplyInv, RepliesInOrder

LEMMA NoMoreReplies ==
  ASSUME HttpInv, out' = <<>>, UNCHANGED <<got, begun>>
  PROVE  ReplyInv'
BY RepliesLost DEF HttpInv, RequestInv, ReplyInv, RepliesInOrder

\* A part of the reply to the last request is queued.
LEMMA OneMoreReply ==
  ASSUME HttpInv, Served, NEW x, x.id = request.id, out' = Append(out, x), UNCHANGED <<got, begun>>
  PROVE  ReplyInv'
<1>1. begun \in Nat /\ begun > 0 /\ x.id = begun
  BY DEF HttpInv, RequestInv, Served, IsRequest
<1>2. IsList(got) /\ IsList(out) /\ Ordered(got \o out, begun)
  BY DEF HttpInv, ReplyInv, RepliesInOrder
<1>3. IsList(Append(out, x)) /\ Ordered(got \o Append(out, x), begun)
  BY <1>1, <1>2, ReplyAppended
<1> QED
  BY <1>2, <1>3 DEF ReplyInv, RepliesInOrder

\* evhttpx_connection_free, whoever calls it.
LEMMA FreeKeeps ==
  ASSUME HttpInv, NEW state \in {"closed", "taken", "crashed"}, Free(state),
         UNCHANGED <<wire, left, parser, httpx, owner, reading, counts, sent, got>>,
         waived' = waived
  PROVE  HttpInv'
<1> USE DEF HttpInv
<1>1. InputInv'
  BY TodoOfNone DEF InputInv, Free
<1>2. ReadInv'
  BY DEF ReadInv, HooksHaveRequests, Free
<1>3. RequestInv'
  BY DEF RequestInv, Free, counts
<1>4. ReplyInv'
  BY NoMoreReplies DEF Free, counts
<1>5. LimitInv'
  BY DEF LimitInv, Free, counts
<1> QED
  BY <1>1, <1>2, <1>3, <1>4, <1>5

LEMMA SendKeeps ==
  ASSUME HttpInv, NEW q \in Questions, Send(q)
  PROVE  HttpInv'
<1> USE DEF HttpInv
<1>1. q.text \in Seq(Symbols) /\ MaxQuestions \in Nat
  BY HttpAssumption
<1>2. InputInv'
  <2>1. wire' \in Seq(Symbols) /\ Len(wire') = Len(wire) + Len(q.text)
    BY <1>1 DEF InputInv, Send
  <2>2. left' \in 0 .. Len(wire')
    BY <1>1, <2>1 DEF InputInv, Send
  <2>3. sent' \in Seq(Questions) /\ Len(sent') <= MaxQuestions
    BY <1>1 DEF InputInv, Send
  <2> QED
    BY <2>1, <2>2, <2>3 DEF InputInv, Send
<1>3. ReadInv'
  BY DEF ReadInv, HooksHaveRequests, Served, Send
<1>4. RequestInv'
  BY DEF RequestInv, Send, counts
<1>5. ReplyInv'
  BY SameReplies DEF Send, counts
<1>6. LimitInv'
  BY DEF LimitInv, Send, counts
<1> QED
  BY <1>2, <1>3, <1>4, <1>5, <1>6

LEMMA AcceptKeeps ==
  ASSUME HttpInv, Accept
  PROVE  HttpInv'
<1> USE DEF HttpInv
<1>1. InputInv'
  BY DEF InputInv, Accept, input
<1>2. ReadInv'
  BY NewParserOK DEF ReadInv, HooksHaveRequests, Served, Accept, input, NewParser
<1>3. RequestInv'
  BY DEF RequestInv, Accept, counts
<1>4. ReplyInv'
  BY SameReplies DEF Accept, counts
<1>5. LimitInv'
  BY DEF LimitInv, Accept, counts
<1> QED
  BY <1>1, <1>2, <1>3, <1>4, <1>5

\* A read begins: the status of the request, if there is one, is reset.
LEMMA StartReadKeeps ==
  ASSUME HttpInv, life = "open", at = "loop", NEW n \in 0 .. Len(wire), StartRead(n),
         reading' \in BOOLEAN,
         UNCHANGED <<life, wire, todo, parser, out, httpx, owner, counts, late, history>>
  PROVE  HttpInv'
<1> USE DEF HttpInv
<1>1. \/ request = NoRequest /\ request' = NoRequest
      \/ /\ IsRequest(request, begun, body_bytes_read) /\ IsRequest(request', begun, body_bytes_read)
         /\ Served /\ Served'
  <2>1. CASE request = NoRequest
    <3>1. [NoRequest EXCEPT !.status = "OK"] = NoRequest
      BY DEF NoRequest
    <3> QED
      BY <2>1, <3>1 DEF StartRead
  <2>2. CASE IsRequest(request, begun, body_bytes_read)
    BY <2>2, RequestsAre DEF StartRead, RequestInv, Served
  <2> QED
    BY <2>1, <2>2 DEF RequestInv
<1>2. InputInv'
  BY DEF InputInv, StartRead, history
<1>3. ReadInv'
  BY <1>1 DEF ReadInv, HooksHaveRequests, Served, StartRead
<1>4. RequestInv'
  BY <1>1 DEF RequestInv, counts, history
<1>5. ReplyInv'
  BY SameReplies DEF counts, history
<1>6. LimitInv'
  BY DEF LimitInv, counts
<1> QED
  BY <1>2, <1>3, <1>4, <1>5, <1>6

LEMMA RunKeeps ==
  ASSUME HttpInv, Run
  PROVE  HttpInv'
<1> USE DEF HttpInv
<1> DEFINE d == SubSeq(wire, 1, left)
           o == Step(parser, d)
<1>1. d \in Seq(Symbols) /\ Len(d) = left /\ d # <<>>
  BY DEF InputInv, Run
<1>2. OutcomeOK(o, d)
  BY <1>1, StepOK DEF InputInv
<1>3. parser.state = "start" =>
         \/ o.p.state = "start" /\ o.run = <<>>
         \/ o.run = <<[name |-> "on_msg_begin", arg |-> Head(d)]>>
  BY <1>1, Begins DEF InputInv
<1> HIDE DEF o, d
<1>4. /\ parser' = o.p /\ todo' = o.run /\ left' = left - o.used
      /\ wire' = SubSeq(wire, o.used + 1, Len(wire))
      /\ at = "run" /\ todo = <<>> /\ at' \in {"back", "run"}
      /\ at' = IF o.error \/ EndsRead(parser, wire[1]) THEN "back" ELSE "run"
      /\ UNCHANGED <<life, request, out, httpx, owner, reading, counts, late, history>>
  BY DEF Run, o, d
<1>5. InputInv'
  <2>5. o.used \in 0 .. Len(d)
    BY <1>2, Zenon DEF OutcomeOK
  <2>7. Len(d) = left
    BY <1>1
  <2>6. left \in Nat /\ Len(wire) \in Nat
    BY DEF InputInv
  <2>8. o.used \in 0 .. left
    BY <2>5, <2>7, Zenon
  <2>1. o.used \in 0 .. left /\ left \in Nat /\ Len(wire) \in Nat
    BY <2>6, <2>8, Zenon
  <2> DEFINE k == o.used
             w == wire
  <2>9. w \in Seq(Symbols) /\ k \in Nat /\ k <= Len(w)
    BY <2>1 DEF InputInv
  <2>10. wire' = SubSeq(w, k + 1, Len(w))
    BY <1>4
  <2> HIDE DEF k, w
  <2>11. wire' \in Seq(Symbols) /\ Len(wire') = Len(w) - k
    BY <2>9, <2>10
  <2>2. wire' \in Seq(Symbols) /\ Len(wire') = Len(wire) - o.used
    BY <2>11 DEF k, w
  <2>4. left \in 0 .. Len(wire)
    BY DEF InputInv
  <2>3. left' \in 0 .. Len(wire')
    BY <1>4, <2>1, <2>2, <2>4
  <2> QED
    BY <1>2, <1>4, <2>2, <2>3 DEF InputInv, OutcomeOK, history
<1>6. life = "open" /\ life' = "open"
  BY <1>4 DEF ReadInv
<1>7. ReadInv'
  BY <1>3, <1>4, <1>6 DEF ReadInv, HooksHaveRequests, Served
<1>8. RequestInv'
  BY <1>4 DEF RequestInv, counts, history
<1>9. ReplyInv'
  BY <1>4, SameReplies DEF counts, history
<1>10. LimitInv'
  BY <1>4 DEF LimitInv, counts
<1> QED
  BY <1>5, <1>7, <1>8, <1>9, <1>10

LEMMA BackKeeps ==
  ASSUME HttpInv, Back
  PROVE  HttpInv'
<1> USE DEF HttpInv
<1>1. InputInv'
  BY DEF InputInv, Back, history
<1>2. ReadInv'
  BY DEF ReadInv, HooksHaveRequests, Served, Back, Returned
<1>3. RequestInv'
  BY DEF RequestInv, Back, counts, history
<1>4. ReplyInv'
  BY SameReplies DEF Back, counts, history
<1>5. LimitInv'
  BY DEF LimitInv, Back, counts
<1> QED
  BY <1>1, <1>2, <1>3, <1>4, <1>5

LEMMA AnswerKeeps ==
  ASSUME HttpInv, Answer
  PROVE  HttpInv'
<1> USE DEF HttpInv
<1> DEFINE x == Reply(IF request.cb = "chunks" THEN "end" ELSE "full")
<1>1. IsRequest(request, begun, body_bytes_read)
  BY DEF RequestInv, Answer, Served
<1>2. IsRequest(request', begun, body_bytes_read) /\ Served'
  BY <1>1, RequestsAre DEF RequestInv, Answer, Served
<1>3. InputInv'
  BY DEF InputInv, Answer, input, history
<1>4. ReadInv'
  BY <1>2 DEF ReadInv, HooksHaveRequests, Answer, input
<1>5. RequestInv'
  BY <1>2 DEF RequestInv, Answer, counts, history
<1>6. ReplyInv'
  <2>1. x.id = request.id
    BY DEF Reply
  <2>2. Served /\ out' = Append(out, x) /\ UNCHANGED <<got, begun>>
    BY DEF Answer, counts, history
  <2> HIDE DEF x
  <2> QED
    BY <2>1, <2>2, OneMoreReply
<1>7. LimitInv'
  BY DEF LimitInv, Answer, counts
<1> QED
  BY <1>3, <1>4, <1>5, <1>6, <1>7

LEMMA DrainKeeps ==
  ASSUME HttpInv, Drain
  PROVE  HttpInv'
<1> USE DEF HttpInv
<1>1. /\ life = "open" /\ at = "loop" /\ out # <<>>
      /\ got' = Append(got, Head(out))
      /\ UNCHANGED <<wire, left, owner, reading, begun, sent, waived>>
  BY DEF Drain, InLoop
<1>2. IsList(got) /\ IsList(out) /\ Ordered(got \o out, begun)
  BY DEF ReplyInv, RepliesInOrder
<1>3. IsList(got') /\ IsList(Tail(out)) /\ Ordered(got' \o Tail(out), begun)
  BY <1>1, <1>2, ReplyWritten
<1>4. MaxKeepalive \in Nat /\ MaxBody \in Nat /\ num_requests \in Nat
  BY HttpAssumption DEF RequestInv
<1>5. CASE ~(Served /\ request.finished /\ Tail(out) = <<>>)
  <2>1. /\ out' = Tail(out)
        /\ UNCHANGED <<life, at, todo, parser, request, httpx, body_bytes_read, num_requests, late, why>>
    BY <1>5 DEF Drain
  <2>2. InputInv'
    BY <1>1, <2>1 DEF InputInv
  <2>3. ReadInv'
    BY <1>1, <2>1 DEF ReadInv, HooksHaveRequests, Served
  <2>4. RequestInv'
    BY <1>1, <2>1 DEF RequestInv
  <2>5. ReplyInv'
    BY <1>1, <1>3, <2>1 DEF ReplyInv, RepliesInOrder
  <2>6. LimitInv'
    BY <2>1 DEF LimitInv
  <2> QED
    BY <2>2, <2>3, <2>4, <2>5, <2>6
<1>6. CASE Served /\ request.finished /\ Tail(out) = <<>>
  <2>1. num_requests' = (IF MaxKeepalive # 0 THEN num_requests + 1 ELSE num_requests) /\ num_requests' \in Nat
    BY <1>4, <1>6 DEF Drain
  <2>2. out' = <<>>
    BY <1>6 DEF Drain
  <2>3. ReplyInv'
    BY <1>1, <1>3, <1>6, <2>2 DEF ReplyInv, RepliesInOrder
  <2>4. CASE Stays /\ Recycle
    <3>1. InputInv'
      BY <1>1, <2>4, NewParserOK DEF InputInv, Recycle, NextParser
    <3>2. ReadInv'
      BY <1>1, <2>4 DEF ReadInv, HooksHaveRequests, Recycle, NextParser, NewParser
    <3>3. RequestInv'
      BY <1>1, <2>1, <2>4, HttpAssumption DEF RequestInv, Recycle, Hosts
    <3>4. LimitInv'
      BY <1>4, <2>1, <2>4 DEF LimitInv, Recycle, Stays, LimitReached
    <3> QED
      BY <2>3, <3>1, <3>2, <3>3, <3>4
  <2>5. CASE ~Stays /\ Close("server") /\ UNCHANGED <<parser, httpx, body_bytes_read>>
    <3>1. InputInv'
      BY <1>1, <2>5, TodoOfNone DEF InputInv, Close, Free
    <3>2. ReadInv'
      BY <2>5 DEF ReadInv, HooksHaveRequests, Close, Free
    <3>3. RequestInv'
      BY <1>1, <2>1, <2>5 DEF RequestInv, Close, Free
    <3>4. LimitInv'
      BY <2>5 DEF LimitInv, Close, Free
    <3> QED
      BY <2>3, <3>1, <3>2, <3>3, <3>4
  <2> QED
    BY <1>6, <2>4, <2>5 DEF Drain
<1> QED
  BY <1>5, <1>6

-----------------------------------------------------------------------------
(* The hooks.                                                              *)

\* What any hook leaves, if the request it leaves is one.
LEMMA HookKeeps ==
  ASSUME HttpInv, at = "run", todo # <<>>, NEW ok \in BOOLEAN, Continue(ok),
         UNCHANGED <<life, wire, left, reading, num_requests, sent>>,
         \/ parser' = parser
         \/ todo[1].name = "hdr_val" /\ parser' = ValueFailed(parser, Arg),
         httpx' \in Hosts, owner' \in BOOLEAN, waived' \in BOOLEAN,
         begun' \in Nat, body_bytes_read' \in Nat, late' \subseteq 1 .. begun',
         MaxBody > 0 => body_bytes_read' < MaxBody,
         IsRequest(request', begun', body_bytes_read'),
         ReplyInv'
  PROVE  HttpInv'
<1> USE DEF HttpInv
<1>1. Served'
  BY RequestsAre DEF Served
<1>2. TodoOK(Tail(todo)) /\ HookOK(todo[1])
  BY TodoShort DEF InputInv
<1>3. TodoOK(todo') /\ at' \in {"run", "back"}
  BY <1>2, TodoOfNone DEF Continue
<1>4. ParserOK(parser')
  <2>1. CASE parser' = parser
    BY <2>1 DEF InputInv
  <2>2. CASE todo[1].name = "hdr_val" /\ parser' = ValueFailed(parser, Arg)
    <3>1. Arg \in Seq(Symbols) /\ Len(Arg) <= BufMax
      BY <1>2, <2>2 DEF HookOK, Arg
    <3>2. ParserOK([parser EXCEPT !.buf = Arg])
      BY <3>1, BufOK DEF InputInv
    <3> QED
      BY <2>2, <3>2, ToOK DEF ValueFailed, States
  <2> QED
    BY <2>1, <2>2
<1>5. InputInv'
  BY <1>3, <1>4 DEF InputInv
<1>6. life = "open"
  BY DEF ReadInv
<1>7. ReadInv'
  BY <1>1, <1>3, <1>6 DEF ReadInv, HooksHaveRequests
<1>8. RequestInv'
  BY DEF RequestInv
<1>9. LimitInv'
  BY <1>6 DEF LimitInv, RequestInv
<1> QED
  BY <1>5, <1>7, <1>8, <1>9

LEMMA HookHas ==
  ASSUME HttpInv, NEW name, Runs(name)
  PROVE  /\ at = "run" /\ todo # <<>> /\ todo[1].name = name
         /\ name # "on_msg_begin" => Served /\ IsRequest(request, begun, body_bytes_read)
         /\ begun \in Nat /\ body_bytes_read \in Nat /\ late \subseteq 1 .. begun
         /\ httpx \in Hosts /\ owner \in BOOLEAN /\ waived \in BOOLEAN
         /\ MaxBody > 0 => body_bytes_read < MaxBody
         /\ ReplyInv
BY DEF Runs, HttpInv, ReadInv, HooksHaveRequests, RequestInv, LimitInv, Served

\* A hook that works on the request and leaves the rest to a hook of the user.
LEMMA UserHookKeeps ==
  ASSUME HttpInv, NEW name, Runs(name), name # "on_msg_begin",
         NEW hook, hook = "on_header" => name = "hdr_val",
         NEW req, UserHook(hook, req),
         body_bytes_read' \in Nat, MaxBody > 0 => body_bytes_read' < MaxBody,
         IsRequest(req, begun, body_bytes_read'),
         UNCHANGED <<life, wire, left, reading, num_requests, sent, owner, begun, late>>,
         httpx' \in Hosts, ReplyInv'
  PROVE  HttpInv'
<1>1. PICK res \in HookResults[hook] :
        /\ request' = [req EXCEPT !.status = res]
        /\ Continue(res = "OK")
        /\ waived' = (waived \/ res \notin {"OK", "PAUSE"} \/ (hook = "on_header" /\ res # "OK"))
        /\ IF hook = "on_header" /\ res # "OK" THEN parser' = ValueFailed(parser, Arg) ELSE UNCHANGED parser
  BY DEF UserHook
<1>2. IsRequest(request', begun', body_bytes_read')
  BY <1>1, HookHas, RequestsAre
<1>3. waived' \in BOOLEAN /\ (res = "OK") \in BOOLEAN
  BY <1>1
<1>4. \/ parser' = parser
      \/ todo[1].name = "hdr_val" /\ parser' = ValueFailed(parser, Arg)
  BY <1>1, HookHas
<1> QED
  BY <1>1, <1>2, <1>3, <1>4, HookHas, HookKeeps

\* A hook of the library alone.
LEMMA OwnHookKeeps ==
  ASSUME HttpInv, NEW name, Runs(name), name # "on_msg_begin",
         NEW ok \in BOOLEAN, Continue(ok),
         IsRequest(request', begun, body_bytes_read),
         UNCHANGED <<life, wire, left, out, httpx, owner, reading, counts, late, sent, got>>,
         waived' \in BOOLEAN,
         \/ parser' = parser
         \/ name = "hdr_val" /\ parser' = ValueFailed(parser, Arg)
  PROVE  HttpInv'
<1>1. ReplyInv'
  BY HookHas, SameReplies DEF counts
<1>2. UNCHANGED <<life, wire, left, reading, num_requests, sent, begun, body_bytes_read, late, httpx, owner>>
  BY DEF counts
<1> QED
  BY <1>1, <1>2, HookHas, HookKeeps

LEMMA StartKeeps ==
  ASSUME HttpInv, request_parser_start
  PROVE  HttpInv'
<1>1. Runs("on_msg_begin")
  BY DEF request_parser_start
<1>2. UNCHANGED <<life, wire, left, parser, out, httpx, owner, reading, body_bytes_read,
                  num_requests, late, sent, got, waived>>
  BY DEF request_parser_start, history
<1>3. begun \in Nat /\ late \subseteq 1 .. begun
  BY <1>1, HookHas
<1>4. CASE ~Served \/ request.finished
  <2>1. request' = NewRequest(begun + 1) /\ begun' = begun + 1 /\ Continue(TRUE)
    BY <1>4 DEF request_parser_start
  <2>2. IsRequest(request', begun', body_bytes_read')
    BY <1>1, <1>2, <2>1, HookHas, NewRequestIs
  <2>3. begun' \in Nat /\ begun <= begun' /\ late' \subseteq 1 .. begun'
    BY <1>2, <1>3, <2>1
  <2>4. ReplyInv'
    BY <1>1, <1>2, <1>3, <2>3, HookHas, OrderedGrows DEF ReplyInv, RepliesInOrder
  <2> QED
    BY <1>1, <1>2, <2>1, <2>2, <2>3, <2>4, HookHas, HookKeeps
<1>5. CASE ~(~Served \/ request.finished)
  <2>1. UNCHANGED <<request, begun>> /\ Continue(FALSE)
    BY <1>5 DEF request_parser_start
  <2>2. IsRequest(request, begun, body_bytes_read)
    BY <1>5 DEF HttpInv, RequestInv, Served
  <2>3. ReplyInv'
    BY <1>1, <1>2, <2>1, HookHas, SameReplies
  <2> QED
    BY <1>1, <1>2, <2>1, <2>2, <2>3, HookHas, HookKeeps
<1> QED
  BY <1>4, <1>5

LEMMA PathKeeps ==
  ASSUME HttpInv, request_parser_path
  PROVE  HttpInv'
<1> DEFINE req == [request EXCEPT !.path = Arg, !.args = <<>>, !.cb = CallbackOf(httpx, Arg)]
<1>1. Runs("path") /\ UserHook("on_path", req)
  BY DEF request_parser_path
<1>2. UNCHANGED <<life, wire, left, reading, num_requests, sent, owner, begun, late, httpx,
                  body_bytes_read, got, out>>
  BY DEF request_parser_path, counts
<1>3. IsRequest(req, begun, body_bytes_read')
  BY <1>1, <1>2, HookHas DEF IsRequest, RequestFields
<1>4. ReplyInv'
  BY <1>1, <1>2, HookHas, SameReplies
<1> HIDE DEF req
<1> QED
  BY <1>1, <1>2, <1>3, <1>4, HookHas, UserHookKeeps

LEMMA ArgsKeeps ==
  ASSUME HttpInv, request_parser_args
  PROVE  HttpInv'
<1> DEFINE ok == "%bad" \notin ToSet(Arg)
<1>1. Runs("args") /\ Continue(ok) /\ ok \in BOOLEAN
  BY DEF request_parser_args
<1>2. IsRequest(request', begun, body_bytes_read)
  BY <1>1, HookHas DEF IsRequest, RequestFields, request_parser_args
<1>3. UNCHANGED <<life, wire, left, parser, out, httpx, owner, reading, counts, late, history>>
  BY DEF request_parser_args
<1>4. UNCHANGED <<sent, got>> /\ waived' \in BOOLEAN
  BY <1>1, <1>3, HookHas DEF history
<1> HIDE DEF ok
<1> QED
  BY <1>1, <1>2, <1>3, <1>4, OwnHookKeeps

LEMMA HeadersStartKeeps ==
  ASSUME HttpInv, request_parser_headers_start
  PROVE  HttpInv'
<1>1. Runs("on_hdrs_begin") /\ Continue(TRUE)
  BY DEF request_parser_headers_start
<1>2. IsRequest(request', begun, body_bytes_read)
  BY <1>1, HookHas DEF request_parser_headers_start, IsRequest, RequestFields
<1>3. UNCHANGED <<life, wire, left, parser, out, httpx, owner, reading, counts, late, history>>
  BY DEF request_parser_headers_start
<1>4. UNCHANGED <<sent, got>> /\ waived' \in BOOLEAN
  BY <1>1, <1>3, HookHas DEF history
<1> QED
  BY <1>1, <1>2, <1>3, <1>4, OwnHookKeeps

LEMMA HeaderKeyKeeps ==
  ASSUME HttpInv, request_parser_header_key
  PROVE  HttpInv'
<1>1. Runs("hdr_key") /\ Continue(TRUE)
  BY DEF request_parser_header_key
<1>2. IsRequest(request', begun, body_bytes_read)
  BY <1>1, HookHas DEF request_parser_header_key, IsRequest, RequestFields
<1>3. UNCHANGED <<life, wire, left, parser, out, httpx, owner, reading, counts, late, history>>
  BY DEF request_parser_header_key
<1>4. UNCHANGED <<sent, got>> /\ waived' \in BOOLEAN
  BY <1>1, <1>3, HookHas DEF history
<1> QED
  BY <1>1, <1>2, <1>3, <1>4, OwnHookKeeps

LEMMA HeaderValKeeps ==
  ASSUME HttpInv, request_parser_header_val
  PROVE  HttpInv'
<1>1. Runs("hdr_val")
  BY DEF request_parser_header_val
<1>2. UNCHANGED <<life, wire, left, out, httpx, owner, reading, counts, late, sent, got>>
  BY DEF request_parser_header_val
<1>3. CASE request.headers = <<>>
  <2>1. /\ request' = [request EXCEPT !.status = "FATAL"]
        /\ parser' = ValueFailed(parser, Arg) /\ Continue(FALSE) /\ waived' = waived
    BY <1>3 DEF request_parser_header_val
  <2>2. IsRequest(request', begun, body_bytes_read) /\ waived' \in BOOLEAN
    BY <1>1, <2>1, HookHas DEF IsRequest, RequestFields
  <2> QED
    BY <1>1, <1>2, <2>1, <2>2, OwnHookKeeps
<1>4. CASE request.headers # <<>>
  <2> DEFINE req == [request EXCEPT !.headers[Len(request.headers)][2] = Arg]
  <2>1. UserHook("on_header", req)
    BY <1>4 DEF request_parser_header_val
  <2>2. IsRequest(req, begun, body_bytes_read)
    BY <1>1, HookHas DEF IsRequest, RequestFields
  <2>3. ReplyInv'
    BY <1>1, <1>2, HookHas, SameReplies DEF counts
  <2> HIDE DEF req
  <2>4. UNCHANGED <<life, wire, left, reading, num_requests, sent, owner, begun, late, httpx, body_bytes_read>>
    BY <1>2 DEF counts
  <2> QED
    BY <1>1, <2>1, <2>2, <2>3, <2>4, HookHas, UserHookKeeps
<1> QED
  BY <1>3, <1>4

LEMMA HostnameKeeps ==
  ASSUME HttpInv, request_parser_hostname
  PROVE  HttpInv'
<1> DEFINE found == httpx = "main" /\ Arg # <<>> /\ Arg[1] \in Hosts \ {"main"}
           req == IF found /\ request.path # NoPath
                  THEN [request EXCEPT !.cb = CallbackOf(Arg[1], request.path)] ELSE request
<1>1. /\ Runs("hostname") /\ UserHook("on_hostname", req)
      /\ httpx' = IF found THEN Arg[1] ELSE httpx
  BY DEF request_parser_hostname
<1>2. UNCHANGED <<life, wire, left, reading, num_requests, sent, owner, begun, late,
                  body_bytes_read, got, out>>
  BY DEF request_parser_hostname, counts
<1>3. IsRequest(req, begun, body_bytes_read')
  BY <1>1, <1>2, HookHas DEF IsRequest, RequestFields
<1>4. httpx' \in Hosts
  BY <1>1, HookHas
<1>5. ReplyInv'
  BY <1>1, <1>2, HookHas, SameReplies
<1> HIDE DEF req, found
<1> QED
  BY <1>1, <1>2, <1>3, <1>4, <1>5, HookHas, UserHookKeeps

LEMMA HeadersKeeps ==
  ASSUME HttpInv, request_parser_headers
  PROVE  HttpInv'
<1> DEFINE req == [request EXCEPT !.keepalive = http_parser_should_keep_alive(parser),
                                  !.proto = Proto(parser.version)]
           x == Reply("100")
<1>1. Runs("on_hdrs_complete") /\ UserHook("on_headers", req)
  BY DEF request_parser_headers
<1>2. UNCHANGED <<life, wire, left, reading, num_requests, sent, owner, begun, late,
                  body_bytes_read, got, httpx>>
  BY DEF request_parser_headers, counts
<1>3. IsRequest(req, begun, body_bytes_read')
  BY <1>1, <1>2, HookHas DEF IsRequest, RequestFields
<1>4. out' = out \/ out' = Append(out, x)
  BY DEF request_parser_headers
<1>5. x.id = request.id
  BY DEF Reply
<1> HIDE DEF req, x
<1>6. ReplyInv'
  <2>1. CASE out' = out
    BY <1>1, <1>2, <2>1, HookHas, SameReplies
  <2>2. CASE out' = Append(out, x)
    BY <1>1, <1>2, <1>5, <2>2, HookHas, OneMoreReply
  <2> QED
    BY <1>4, <2>1, <2>2
<1> QED
  BY <1>1, <1>2, <1>3, <1>6, HookHas, UserHookKeeps

LEMMA BodyHookKeeps ==
  ASSUME HttpInv, request_parser_body
  PROVE  HttpInv'
<1>1. Runs("body")
  BY DEF request_parser_body
<1>2. UNCHANGED <<life, wire, left, out, httpx, owner, reading, num_requests, begun, late, sent, got>>
  BY DEF request_parser_body
<1>3. ReplyInv'
  BY <1>1, <1>2, HookHas, SameReplies
<1>4. Arg \in Seq(Symbols)
  BY <1>1, HookHas, TodoShort DEF HttpInv, InputInv, HookOK, Arg
<1>5. CASE TooMuch(Len(Arg))
  <2>1. /\ request' = [request EXCEPT !.status = "DATA_TOO_LONG"]
        /\ Continue(FALSE) /\ waived' = TRUE /\ UNCHANGED <<body_bytes_read, parser>>
    BY <1>5 DEF request_parser_body
  <2>2. IsRequest(request', begun, body_bytes_read) /\ waived' \in BOOLEAN
    BY <1>1, <2>1, HookHas DEF IsRequest, RequestFields
  <2> QED
    BY <1>1, <1>2, <1>3, <2>1, <2>2, HookHas, OwnHookKeeps DEF counts
<1>6. CASE ~TooMuch(Len(Arg))
  <2> DEFINE req == [request EXCEPT !.body = @ \o Arg]
  <2>1. body_bytes_read' = body_bytes_read + Len(Arg) /\ UserHook("on_read", req)
    BY <1>6 DEF request_parser_body
  <2>2. body_bytes_read' \in Nat /\ (MaxBody > 0 => body_bytes_read' < MaxBody)
    BY <1>1, <1>4, <1>6, <2>1, HookHas, HttpAssumption DEF TooMuch
  <2>3. IsRequest(req, begun, body_bytes_read')
    <3>1. IsRequest(request, begun, body_bytes_read) /\ body_bytes_read \in Nat
      BY <1>1, HookHas
    <3> DEFINE b == request.body \o Arg
    <3>2. b \in Seq(Symbols) /\ Len(b) <= body_bytes_read'
      BY <1>4, <2>1, <3>1 DEF IsRequest
    <3> HIDE DEF b
    <3>3. IsRequest([request EXCEPT !.body = b], begun, body_bytes_read')
      BY <3>1, <3>2 DEF IsRequest, RequestFields
    <3> QED
      BY <3>3 DEF b
  <2> HIDE DEF req
  <2> QED
    BY <1>1, <1>2, <1>3, <2>1, <2>2, <2>3, HookHas, UserHookKeeps
<1> QED
  BY <1>5, <1>6

LEMMA ChunksKeeps ==
  ASSUME HttpInv, request_parser_chunks
  PROVE  HttpInv'
<1>1. /\ Runs("on_new_chunk") \/ Runs("on_chunk_complete") \/ Runs("on_chunks_complete")
      /\ Continue(TRUE)
  BY DEF request_parser_chunks
<1>2. PICK name \in {"on_new_chunk", "on_chunk_complete", "on_chunks_complete"} : Runs(name)
  BY <1>1
<1>3. IsRequest(request', begun, body_bytes_read)
  BY <1>2, HookHas DEF request_parser_chunks, IsRequest, RequestFields
<1>4. UNCHANGED <<life, wire, left, parser, out, httpx, owner, reading, counts, late, history>>
  BY DEF request_parser_chunks
<1>5. UNCHANGED <<sent, got>> /\ waived' \in BOOLEAN
  BY <1>2, <1>4, HookHas DEF history
<1> QED
  BY <1>1, <1>2, <1>3, <1>4, <1>5, OwnHookKeeps

LEMMA FiniKeeps ==
  ASSUME HttpInv, request_parser_fini
  PROVE  HttpInv'
<1> DEFINE req == [request EXCEPT !.args = IF should_parse_query_body THEN request.body ELSE @]
           x == [Reply("full") EXCEPT !.args = req.args]
           y == [Reply("head") EXCEPT !.args = req.args]
<1>1. Runs("on_msg_complete") /\ Continue(TRUE) /\ RunCallback(req)
  BY DEF request_parser_fini
<1>2. UNCHANGED <<life, wire, left, parser, httpx, reading, counts, sent, got, waived>>
  BY DEF request_parser_fini, history
<1>3. IsRequest(req, begun, body_bytes_read) /\ req.id = begun
  BY <1>1, HookHas DEF IsRequest, RequestFields
<1>4. x.id = request.id /\ y.id = request.id
  BY DEF Reply
<1> HIDE DEF req, x, y
<1>5. /\ request' \in {req, [req EXCEPT !.finished = TRUE]}
      /\ late' \in {late, late \cup {req.id}}
      /\ out' \in {out, Append(out, x), Append(out, y)}
      /\ owner' \in {owner, FALSE}
  BY <1>1 DEF RunCallback, x, y
<1>6. IsRequest(request', begun, body_bytes_read)
  BY <1>3, <1>5 DEF IsRequest, RequestFields
<1>7. late' \subseteq 1 .. begun
  BY <1>1, <1>3, <1>5, HookHas DEF IsRequest
<1>8. ReplyInv'
  <2>1. CASE out' = out
    BY <1>1, <1>2, <2>1, HookHas, SameReplies DEF counts
  <2>2. CASE out' = Append(out, x)
    BY <1>1, <1>2, <1>4, <2>2, HookHas, OneMoreReply DEF counts
  <2>3. CASE out' = Append(out, y)
    BY <1>1, <1>2, <1>4, <2>3, HookHas, OneMoreReply DEF counts
  <2> QED
    BY <1>5, <2>1, <2>2, <2>3
<1>9. UNCHANGED <<num_requests, begun, body_bytes_read>>
  BY <1>2 DEF counts
<1>10. owner' \in BOOLEAN /\ waived' \in BOOLEAN
  BY <1>1, <1>2, <1>5, HookHas
<1> QED
  BY <1>1, <1>2, <1>6, <1>7, <1>8, <1>9, <1>10, HookHas, HookKeeps

-----------------------------------------------------------------------------
(* Every step, and what follows.                                           *)

LEMMA HooksKeep ==
  ASSUME HttpInv, RunHook
  PROVE  HttpInv'
<1>1. CASE UriIsNull
  BY <1>1, FreeKeeps DEF UriIsNull, Crash
<1> QED
  BY <1>1, StartKeeps, PathKeeps, ArgsKeeps, HeadersStartKeeps, HeaderKeyKeeps, HeaderValKeeps,
     HostnameKeeps, HeadersKeeps, BodyHookKeeps, ChunksKeeps, FiniKeeps DEF RunHook

LEMMA StepKeeps ==
  ASSUME HttpInv, [Next]_vars
  PROVE  HttpInv'
<1>1. CASE Accept
  BY <1>1, AcceptKeeps
<1>2. CASE Read
  <2>1. PICK n \in 1 .. Len(wire) : StartRead(n)
    BY <1>2 DEF Read
  <2>2. n \in 0 .. Len(wire) /\ reading' \in BOOLEAN
    BY <1>2 DEF HttpInv, InputInv, RequestInv, Read
  <2> QED
    BY <1>2, <2>1, <2>2, StartReadKeeps DEF Read, InLoop
<1>3. CASE Run
  BY <1>3, RunKeeps
<1>4. CASE RunHook
  BY <1>4, HooksKeep
<1>5. CASE Leave
  <2>1. UNCHANGED <<sent, got>> /\ waived' = waived
    BY <1>5 DEF Leave, history
  <2> QED
    BY <1>5, <2>1, FreeKeeps DEF Leave
<1>6. CASE Fail
  BY <1>6, FreeKeeps DEF Fail, Close
<1>7. CASE Back
  BY <1>7, BackKeeps
<1>8. CASE Resume
  <2>1. PICK n \in left .. Len(wire) : StartRead(n)
    BY <1>8 DEF Resume
  <2>2. n \in 0 .. Len(wire) /\ reading' \in BOOLEAN
    BY <1>8 DEF HttpInv, InputInv, Resume
  <2> QED
    BY <1>8, <2>1, <2>2, StartReadKeeps DEF Resume, InLoop
<1>9. CASE Drain
  BY <1>9, DrainKeeps
<1>10. CASE Answer
  BY <1>10, AnswerKeeps
<1>11. CASE \E q \in Questions : Send(q)
  BY <1>11, SendKeeps
<1>12. CASE PeerGone
  BY <1>12, FreeKeeps DEF PeerGone, Close
<1>13. CASE UNCHANGED vars
  BY <1>13 DEF vars, input, counts, history, HttpInv, InputInv, ReadInv, HooksHaveRequests, Served,
               RequestInv, ReplyInv, RepliesInOrder, LimitInv
<1> QED
  BY <1>1, <1>2, <1>3, <1>4, <1>5, <1>6, <1>7, <1>8, <1>9, <1>10, <1>11, <1>12, <1>13
  DEF Next, Loop, Finished, Waiting

THEOREM InvAlways == Spec => []HttpInv
BY InvInit, StepKeeps, PTL DEF Spec

\* HttpTypeOK for any messages, callbacks, hooks and limits: no input makes
\* the buffer of http_parser_run longer than its stack, and a read is never
\* taken to be longer than what has arrived.
THEOREM ConnectionHasType == Spec => []HttpTypeOK
BY InvAlways, InvHolds, PTL

\* No hook of the parser runs without a request, however the input is cut and
\* whatever hooks before it refused: c->request is not NULL in request_psets.
THEOREM RequestsAreThere == Spec => []HooksHaveRequests
BY InvAlways, InvHolds, PTL

\* The parts of replies leave in the order of their requests, pipelined or not,
\* whenever the application answers: evhttpx_send_reply and
\* _evhttpx_connection_writecb.
THEOREM RepliesDoNotOvertake == Spec => []RepliesInOrder
BY InvAlways, InvHolds, PTL

\* Whatever is sent, max_body_size is kept, and so is max_keepalive_requests by the
\* counter num_requests, which counts the replies that were drained while their
\* request was the connection's, not the requests that were answered: the checks of
\* _evhttpx_request_parser_body and _evhttpx_connection_writecb.
THEOREM LimitsAreKept == Spec => []LimitsHold
BY InvAlways, InvHolds, PTL

-----------------------------------------------------------------------------
(* The conversation with a client that waits: an inductive invariant, in   *)
(* terms of the reader that goes through the message alone.                *)

Outstanding == Len(Answers) + 1 = Len(sent)
Asked       == sent[Len(sent)]

\* What is known of the request that is read, but for the hooks still to run.
Known(r, p, host) ==
  [p |-> p, host |-> host, on |-> TRUE, path |-> r.path, args |-> r.args, body |-> r.body,
   headers |-> r.headers, cb |-> r.cb, keep |-> r.keepalive, over |-> FALSE, ok |-> TRUE]

Now == IF Served THEN Known(request, parser, httpx) ELSE [Unread EXCEPT !.p = parser, !.host = httpx]

\* i symbols of the text are used, or the next one had the first of two rounds.
AtSymbol(text, i) ==
  /\ wire = SubSeq(text, i + 1, Len(text))
  /\ \/ After(todo, Now) = Reading(text)[i]
     \/ /\ i < Len(text) /\ at = "run" /\ left > 0 /\ todo = <<>>
        /\ Stays_Put(Reading(text)[i], text[i + 1])
        /\ Now = Round(Reading(text)[i], text[i + 1])

\* No part among these ends a reply.
NoneLast(parts) == \A j \in DOMAIN parts : ~IsLast(parts[j])

\* All is answered, and nothing is left of it.
Idle ==
  /\ Len(Answers) = Len(sent) /\ begun = Len(sent)
  /\ request = NoRequest /\ parser = NewParser /\ httpx = "main"
  /\ wire = <<>> /\ todo = <<>> /\ out = <<>> /\ late = {}

\* With the hooks still to run, the connection knows of the question what the
\* reader of its text knows; at most a 100-continue is to be written.
BeingRead ==
  /\ Outstanding
  /\ \E i \in 0 .. Len(Asked.text) : AtSymbol(Asked.text, i)
  /\ begun = IF Served THEN Len(sent) ELSE Len(sent) - 1
  /\ Served => ~request.finished
  /\ NoneLast(out) /\ late = {}

\* All of the reply is queued, and it is the one that is meant.
Replied ==
  /\ request.cb \in Answering /\ late = {}
  /\ out # <<>> /\ IsLast(out[Len(out)]) /\ Meant(out[Len(out)]) = Meant(Asked)
  /\ \A j \in 1 .. Len(out) - 1 : ~IsLast(out[j])

\* The application may still answer.
Unreplied ==
  /\ late \subseteq {request.id} /\ (late # {} => request.cb \in {"later", "chunks"})
  /\ NoneLast(out)

\* The question is read and its callback has run.
WasRead ==
  /\ Outstanding
  /\ Served /\ begun = Len(sent)
  /\ wire = <<>> /\ todo = <<>>
  /\ Meant(request) = Meant(Asked)
  /\ parser.multipart => Asked.multipart
  /\ request.cb \in Answering => Asked.close \/ request.keepalive
  /\ IF request.finished THEN Replied ELSE Unreplied

\* Nothing has failed, and a read stops early only for a pause.
Talking ==
  /\ why = "none"
  /\ sent # <<>> => Asked.good
  /\ num_requests = IF MaxKeepalive = 0 THEN 0 ELSE Len(Answers)
  /\ Served => request.status \in {"OK", "PAUSE"}
  /\ at = "back" /\ left > 0 => Served /\ request.status = "PAUSE"
  /\ Idle \/ BeingRead \/ WasRead

\* Where a symbol has two hooks to run, the first has what the client sent.
HooksInPairs == Len(todo) = 2 => todo[1].name \in {"hdr_val", "body"}

TalkInv == ~waived /\ life \in {"new", "open"} => Talking

\* The end of a reply that keeps the connection can be told.
Delimited(part) ==
  /\ part.id \in 1 .. Len(sent)
  /\ part.keep /\ ~sent[part.id].multipart => part.framed

DelimInv ==
  ~waived => /\ \A i \in DOMAIN got : Delimited(got[i])
             /\ \A i \in DOMAIN out : Delimited(out[i])

-----------------------------------------------------------------------------
(* Induction over the naturals, with a set for what holds.                 *)

LEMMA LeastExists ==
  ASSUME NEW T \in SUBSET Nat, T # {}
  PROVE  \E x \in T : \A y \in T : x <= y
<1> DEFINE R == OpToRel(<, Nat)
<1>1. IsWellFoundedOn(R, Nat)
  BY NatLessThanWellFounded
<1>2. \A x, y \in Nat : x < y => <<x, y>> \in R
  BY DEF OpToRel
<1> HIDE DEF R
<1>3. PICK x \in T : \A y \in T : ~(<<y, x>> \in R)
  BY <1>1, WFMin
<1>4. \A y \in T : ~(y < x) /\ y \in Nat /\ x \in Nat
  BY <1>2, <1>3
<1>5. \A y \in T : x <= y
  BY <1>4
<1> QED
  BY <1>5

LEMMA StepByStep ==
  ASSUME NEW S, 0 \in S, \A n \in Nat : n \in S => n + 1 \in S
  PROVE  Nat \subseteq S
<1> SUFFICES ASSUME Nat \ S # {} PROVE FALSE
  OBVIOUS
<1>1. PICK x \in Nat \ S : \A y \in Nat \ S : x <= y
  BY LeastExists
<1>2. x - 1 \in Nat /\ x - 1 \notin S
  BY <1>1
<1> QED
  BY <1>1, <1>2

-----------------------------------------------------------------------------
(* The last parts of replies.                                              *)

LEMMA ListAppended ==
  ASSUME NEW parts, IsList(parts), NEW x
  PROVE  IsList(Append(parts, x))
<1> DEFINE S == {parts[i] : i \in DOMAIN parts} \cup {x}
<1>1. (\A i \in DOMAIN parts : parts[i] \in S) /\ x \in S
  OBVIOUS
<1> HIDE DEF S
<1>2. Append(parts, x) \in Seq(S)
  BY <1>1, ListsAreSeqs
<1> QED
  BY <1>2, SeqsAreLists

LastNext(parts, f, n) ==
  IF n = 0 THEN <<>>
  ELSE IF IsLast(parts[n]) THEN Append(f[n - 1], parts[n]) ELSE f[n - 1]

LEMMA LastsExist ==
  ASSUME NEW parts, NEW m \in Nat
  PROVE  \E f : f = [n \in 0 .. m |-> LastNext(parts, f, n)]
<1> DEFINE S == {k \in Nat : \E f : f = [n \in 0 .. k |-> LastNext(parts, f, n)]}
<1>1. 0 \in S
  <2> DEFINE g == [n \in 0 .. 0 |-> <<>>]
  <2>1. \A n \in 0 .. 0 : LastNext(parts, g, n) = <<>>
    BY DEF LastNext
  <2>2. g = [n \in 0 .. 0 |-> LastNext(parts, g, n)]
    BY <2>1
  <2> HIDE DEF g
  <2> QED
    BY <2>2
<1>2. ASSUME NEW k \in Nat, k \in S PROVE k + 1 \in S
  <2>1. PICK f : f = [n \in 0 .. k |-> LastNext(parts, f, n)]
    BY <1>2
  <2> DEFINE a == k + 1
             g == [n \in 0 .. a |-> IF n = a THEN LastNext(parts, f, a) ELSE f[n]]
  <2>2. a \in Nat \ {0} /\ a - 1 = k
    OBVIOUS
  <2> HIDE DEF a
  <2>3. \A n \in 0 .. k : g[n] = f[n]
    BY <2>2
  <2>4. \A n \in 0 .. a : n = 0 \/ n - 1 \in 0 .. k
    BY <2>2
  <2>5. \A n \in 0 .. a : LastNext(parts, g, n) = LastNext(parts, f, n)
    BY <2>3, <2>4 DEF LastNext
  <2>6. \A n \in 0 .. k : f[n] = LastNext(parts, f, n)
    BY <2>1
  <2>7. \A n \in 0 .. a : n = a \/ n \in 0 .. k
    BY <2>2
  <2>8. \A n \in 0 .. a : g[n] = LastNext(parts, g, n)
    BY <2>3, <2>5, <2>6, <2>7
  <2>9. g = [n \in 0 .. a |-> g[n]]
    OBVIOUS
  <2> HIDE DEF g
  <2>10. g = [n \in 0 .. a |-> LastNext(parts, g, n)]
    BY <2>8, <2>9
  <2> QED
    BY <2>10 DEF a
<1>3. Nat \subseteq S
  <2> HIDE DEF S
  <2> QED
    BY <1>1, <1>2, StepByStep
<1> QED
  BY <1>3

LEMMA LastUpTo ==
  ASSUME NEW parts, IsList(parts)
  PROVE  \E f : /\ LastOf(parts) = f[Len(parts)]
                /\ \A n \in 0 .. Len(parts) : f[n] = LastNext(parts, f, n)
<1> DEFINE f == CHOOSE g : g = [n \in 0 .. Len(parts) |->
                  IF n = 0 THEN <<>>
                  ELSE IF IsLast(parts[n]) THEN Append(g[n - 1], parts[n]) ELSE g[n - 1]]
<1>1. Len(parts) \in Nat
  BY DEF IsList
<1>2. \E g : g = [n \in 0 .. Len(parts) |->
                  IF n = 0 THEN <<>>
                  ELSE IF IsLast(parts[n]) THEN Append(g[n - 1], parts[n]) ELSE g[n - 1]]
  <2>1. \E g : g = [n \in 0 .. Len(parts) |-> LastNext(parts, g, n)]
    BY <1>1, LastsExist
  <2> QED
    BY <2>1, Zenon DEF LastNext
<1>3. f = [n \in 0 .. Len(parts) |->
                  IF n = 0 THEN <<>>
                  ELSE IF IsLast(parts[n]) THEN Append(f[n - 1], parts[n]) ELSE f[n - 1]]
  BY <1>2, Zenon
<1>4. LastOf(parts) = f[Len(parts)]
  BY DEF LastOf
<1> HIDE DEF f
<1>5. \A n \in 0 .. Len(parts) : f[n] = LastNext(parts, f, n)
  BY <1>3 DEF LastNext
<1> QED
  BY <1>4, <1>5

LEMMA LastOfNone == LastOf(<<>>) = <<>>
<1>1. IsList(<<>>) /\ Len(<<>>) = 0
  BY DEF IsList
<1>2. PICK f : LastOf(<<>>) = f[0] /\ f[0] = LastNext(<<>>, f, 0)
  BY <1>1, LastUpTo
<1> QED
  BY <1>2 DEF LastNext

LEMMA LastOfList ==
  ASSUME NEW parts, IsList(parts)
  PROVE  LastOf(parts) \in Seq({parts[i] : i \in DOMAIN parts})
<1> DEFINE P == {parts[i] : i \in DOMAIN parts}
<1>1. PICK f : /\ LastOf(parts) = f[Len(parts)]
               /\ \A n \in 0 .. Len(parts) : f[n] = LastNext(parts, f, n)
  BY LastUpTo
<1>2. parts \in Seq(P) /\ Len(parts) \in Nat
  BY DEF IsList
<1> DEFINE S == {k \in Nat : k <= Len(parts) => f[k] \in Seq(P)}
<1>3. 0 \in S
  <2>1. f[0] = <<>>
    BY <1>1, <1>2 DEF LastNext
  <2>2. <<>> \in Seq(P)
    OBVIOUS
  <2> QED
    BY <2>1, <2>2
<1>4. ASSUME NEW k \in Nat, k \in S PROVE k + 1 \in S
  <2> SUFFICES ASSUME k + 1 <= Len(parts) PROVE f[k + 1] \in Seq(P)
    OBVIOUS
  <2>1. f[k] \in Seq(P) /\ (k + 1) - 1 = k /\ k + 1 \in 0 .. Len(parts) /\ k + 1 # 0
    BY <1>2, <1>4
  <2>2. parts[k + 1] \in P
    BY <1>2, <2>1
  <2>3. f[k + 1] = IF IsLast(parts[k + 1]) THEN Append(f[k], parts[k + 1]) ELSE f[k]
    BY <1>1, <2>1 DEF LastNext
  <2> HIDE DEF P
  <2> QED
    BY <2>1, <2>2, <2>3
<1>5. Len(parts) \in S
  <2> HIDE DEF S
  <2> QED
    BY <1>2, <1>3, <1>4, StepByStep
<1> QED
  BY <1>1, <1>5

\* One part more.
LEMMA LastOfAppend ==
  ASSUME NEW parts, IsList(parts), NEW x
  PROVE  LastOf(Append(parts, x)) = IF IsLast(x) THEN Append(LastOf(parts), x) ELSE LastOf(parts)
<1> DEFINE more == Append(parts, x)
           m == Len(parts)
<1>1. /\ m \in Nat /\ Len(more) = m + 1 /\ (m + 1) - 1 = m /\ m + 1 # 0 /\ m + 1 \in 0 .. (m + 1)
      /\ more[m + 1] = x /\ \A i \in 1 .. m : more[i] = parts[i]
  BY DEF IsList
<1>2. IsList(more)
  BY ListAppended
<1>3. PICK f : /\ LastOf(parts) = f[m]
               /\ \A n \in 0 .. m : f[n] = LastNext(parts, f, n)
  BY LastUpTo
<1>4. PICK g : /\ LastOf(more) = g[m + 1]
               /\ \A n \in 0 .. (m + 1) : g[n] = LastNext(more, g, n)
  <2> HIDE DEF more, m
  <2> QED
    BY <1>1, <1>2, LastUpTo
<1> HIDE DEF more, m
<1> DEFINE S == {k \in Nat : k <= m => g[k] = f[k]}
<1>5. 0 \in S
  BY <1>1, <1>3, <1>4 DEF LastNext
<1>6. ASSUME NEW k \in Nat, k \in S PROVE k + 1 \in S
  <2> SUFFICES ASSUME k + 1 <= m PROVE g[k + 1] = f[k + 1]
    OBVIOUS
  <2>1. /\ g[k] = f[k] /\ (k + 1) - 1 = k /\ k + 1 # 0
        /\ k + 1 \in 0 .. m /\ k + 1 \in 0 .. (m + 1) /\ k + 1 \in 1 .. m
    BY <1>1, <1>6
  <2>2. more[k + 1] = parts[k + 1]
    BY <1>1, <2>1
  <2>3. g[k + 1] = LastNext(more, g, k + 1) /\ f[k + 1] = LastNext(parts, f, k + 1)
    BY <1>3, <1>4, <2>1
  <2> QED
    BY <2>1, <2>2, <2>3 DEF LastNext
<1>7. m \in S
  <2> HIDE DEF S
  <2> QED
    BY <1>1, <1>5, <1>6, StepByStep
<1>8. g[m] = f[m]
  BY <1>1, <1>7
<1>9. g[m + 1] = IF IsLast(x) THEN Append(g[m], x) ELSE g[m]
  BY <1>1, <1>4 DEF LastNext
<1> QED
  BY <1>3, <1>4, <1>8, <1>9 DEF more, m

-----------------------------------------------------------------------------
(* Readers.                                                                *)

ReadNext(text, f, n) == IF n = 0 THEN Unread ELSE TakeIn(f[n - 1], text[n])

LEMMA ReadersExist ==
  ASSUME NEW text, NEW m \in Nat
  PROVE  \E f : f = [n \in 0 .. m |-> ReadNext(text, f, n)]
<1> DEFINE S == {k \in Nat : \E f : f = [n \in 0 .. k |-> ReadNext(text, f, n)]}
<1>1. 0 \in S
  <2> DEFINE g == [n \in 0 .. 0 |-> Unread]
  <2>1. \A n \in 0 .. 0 : ReadNext(text, g, n) = Unread
    BY DEF ReadNext
  <2>2. g = [n \in 0 .. 0 |-> ReadNext(text, g, n)]
    BY <2>1
  <2> HIDE DEF g
  <2> QED
    BY <2>2
<1>2. ASSUME NEW k \in Nat, k \in S PROVE k + 1 \in S
  <2>1. PICK f : f = [n \in 0 .. k |-> ReadNext(text, f, n)]
    BY <1>2
  <2> DEFINE a == k + 1
             g == [n \in 0 .. a |-> IF n = a THEN ReadNext(text, f, a) ELSE f[n]]
  <2>2. a \in Nat \ {0} /\ a - 1 = k
    OBVIOUS
  <2> HIDE DEF a
  <2>3. \A n \in 0 .. k : g[n] = f[n]
    BY <2>2
  <2>4. \A n \in 0 .. a : n = 0 \/ n - 1 \in 0 .. k
    BY <2>2
  <2>5. \A n \in 0 .. a : ReadNext(text, g, n) = ReadNext(text, f, n)
    BY <2>3, <2>4 DEF ReadNext
  <2>6. \A n \in 0 .. k : f[n] = ReadNext(text, f, n)
    BY <2>1
  <2>7. \A n \in 0 .. a : n = a \/ n \in 0 .. k
    BY <2>2
  <2>8. \A n \in 0 .. a : g[n] = ReadNext(text, g, n)
    BY <2>3, <2>5, <2>6, <2>7
  <2>9. g = [n \in 0 .. a |-> g[n]]
    OBVIOUS
  <2> HIDE DEF g
  <2>10. g = [n \in 0 .. a |-> ReadNext(text, g, n)]
    BY <2>8, <2>9
  <2> QED
    BY <2>10 DEF a
<1>3. Nat \subseteq S
  <2> HIDE DEF S
  <2> QED
    BY <1>1, <1>2, StepByStep
<1> QED
  BY <1>3

LEMMA ReadingFacts ==
  ASSUME NEW text, Len(text) \in Nat
  PROVE  /\ Reading(text)[0] = Unread
         /\ \A n \in 1 .. Len(text) : Reading(text)[n] = TakeIn(Reading(text)[n - 1], text[n])
<1> DEFINE f == CHOOSE g : g = [n \in 0 .. Len(text) |->
                  IF n = 0 THEN Unread ELSE TakeIn(g[n - 1], text[n])]
<1>1. \E g : g = [n \in 0 .. Len(text) |-> IF n = 0 THEN Unread ELSE TakeIn(g[n - 1], text[n])]
  BY ReadersExist DEF ReadNext
<1>2. f = [n \in 0 .. Len(text) |-> IF n = 0 THEN Unread ELSE TakeIn(f[n - 1], text[n])]
  BY <1>1, Zenon
<1>3. Reading(text) = f
  BY DEF Reading
<1> HIDE DEF f
<1>4. f[0] = Unread /\ \A n \in 1 .. Len(text) : f[n] = TakeIn(f[n - 1], text[n])
  BY <1>2
<1> QED
  BY <1>3, <1>4

\* What is known at any time.
ViewFields == {"p", "host", "on", "path", "args", "body", "headers", "cb", "keep", "over", "ok"}

IsView(s) == s = [f \in ViewFields |-> s[f]] /\ s.ok \in BOOLEAN

LEMMA SameViews ==
  ASSUME NEW s, IsView(s), NEW t, IsView(t),
         s.p = t.p, s.host = t.host, s.on = t.on, s.path = t.path, s.args = t.args, s.body = t.body,
         s.headers = t.headers, s.cb = t.cb, s.keep = t.keep, s.over = t.over, s.ok = t.ok
  PROVE  s = t
BY DEF IsView, ViewFields

LEMMA SeenView ==
  ASSUME NEW s, IsView(s), NEW h
  PROVE  /\ IsView(Seen(s, h)) /\ Seen(s, h).p = s.p
         /\ Seen(s, h).ok => s.ok
<1> DEFINE Goal(t) == IsView(t) /\ t.p = s.p /\ (t.ok => s.ok)
<1>2. Goal(s)
  OBVIOUS
<1>3. CASE h.name = "on_msg_begin"
  BY <1>3 DEF Seen, IsView, ViewFields
<1>4. CASE h.name = "path"
  BY <1>4 DEF Seen, IsView, ViewFields
<1>5. CASE h.name = "args"
  BY <1>5 DEF Seen, IsView, ViewFields
<1>6. CASE h.name = "hdr_key"
  BY <1>6 DEF Seen, IsView, ViewFields
<1>7. CASE h.name = "hdr_val"
  BY <1>7 DEF Seen, IsView, ViewFields
<1>8. CASE h.name = "hostname"
  BY <1>8 DEF Seen, IsView, ViewFields
<1>9. CASE h.name = "on_hdrs_complete"
  BY <1>9 DEF Seen, IsView, ViewFields
<1>10. CASE h.name = "body"
  BY <1>10 DEF Seen, IsView, ViewFields
<1>11. CASE h.name = "on_msg_complete"
  BY <1>11 DEF Seen, IsView, ViewFields
<1>12. CASE h.name \notin {"on_msg_begin", "path", "args", "hdr_key", "hdr_val", "hostname",
                           "on_hdrs_complete", "body", "on_msg_complete"}
  BY <1>12 DEF Seen
<1> QED
  BY <1>3, <1>4, <1>5, <1>6, <1>7, <1>8, <1>9, <1>10, <1>11, <1>12

LEMMA AfterView ==
  ASSUME NEW s, IsView(s), NEW hooks
  PROVE  /\ IsView(After(hooks, s)) /\ After(hooks, s).p = s.p
         /\ After(hooks, s).ok => s.ok
BY SeenView DEF After

LEMMA RoundView ==
  ASSUME NEW s, IsView(s), NEW ch
  PROVE  /\ IsView(Round(s, ch)) /\ Round(s, ch).p = Step(s.p, <<ch>>).p
         /\ Round(s, ch).ok => s.ok /\ ~Step(s.p, <<ch>>).error /\ ~EndsRead(s.p, ch)
<1> DEFINE o == Step(s.p, <<ch>>)
           b == ~o.error /\ ~EndsRead(s.p, ch)
           c == s.ok /\ b
           t == [s EXCEPT !.p = o.p, !.ok = c]
<1>1. Round(s, ch) = After(o.run, [s EXCEPT !.p = o.p, !.ok = @ /\ ~o.error /\ ~EndsRead(s.p, ch)])
  BY DEF Round
<1>2. Round(s, ch) = After(o.run, t)
  BY <1>1
<1>3. c \in BOOLEAN /\ (c => s.ok /\ ~o.error /\ ~EndsRead(s.p, ch))
  OBVIOUS
<1> DEFINE pp == o.p
<1> HIDE DEF o, b, c, pp
<1>4. IsView(t) /\ t.p = o.p /\ t.ok = c
  <2>1. t = [s EXCEPT !.p = pp, !.ok = c]
    BY DEF pp
  <2> HIDE DEF t
  <2>2. IsView(t) /\ t.p = pp /\ t.ok = c
    <3>1. c \in BOOLEAN
      BY <1>3
    <3> QED
      BY <3>1, <2>1 DEF IsView, ViewFields
  <2> QED
    BY <2>2 DEF pp
<1> HIDE DEF t
<1> QED
  BY <1>2, <1>3, <1>4, AfterView DEF o

LEMMA TakeInView ==
  ASSUME NEW s, IsView(s), NEW ch
  PROVE  IsView(TakeIn(s, ch)) /\ (TakeIn(s, ch).ok => s.ok)
<1>1. IsView(Round(s, ch)) /\ IsView(Round(Round(s, ch), ch))
  BY RoundView
<1>2. (Round(s, ch).ok => s.ok) /\ (Round(Round(s, ch), ch).ok => Round(s, ch).ok)
  BY <1>1, RoundView
<1>3. CASE ~Stays_Put(s, ch)
  BY <1>1, <1>2, <1>3 DEF TakeIn
<1>4. CASE Stays_Put(s, ch)
  <2> DEFINE t == Round(Round(s, ch), ch)
             b == Step(s.p, <<ch>>).run = <<>> /\ ~Stays_Put(Round(s, ch), ch)
  <2>1. TakeIn(s, ch) = [t EXCEPT !.ok = @ /\ b]
    BY <1>4 DEF TakeIn
  <2> HIDE DEF t, b
  <2>2. IsView(t) /\ (t.ok => s.ok)
    BY <1>1, <1>2 DEF t
  <2> QED
    BY <2>1, <2>2 DEF IsView, ViewFields
<1> QED
  BY <1>3, <1>4

LEMMA UnreadView == IsView(Unread) /\ Unread.ok
BY DEF IsView, ViewFields, Unread

LEMMA ReadingViews ==
  ASSUME NEW text, Len(text) \in Nat
  PROVE  \A n \in 0 .. Len(text) : IsView(Reading(text)[n])
<1> DEFINE S == {n \in Nat : n <= Len(text) => IsView(Reading(text)[n])}
<1>1. 0 \in S
  BY ReadingFacts, UnreadView
<1>2. ASSUME NEW n \in Nat, n \in S PROVE n + 1 \in S
  <2> SUFFICES ASSUME n + 1 <= Len(text) PROVE IsView(Reading(text)[n + 1])
    OBVIOUS
  <2>1. n + 1 \in 1 .. Len(text) /\ (n + 1) - 1 = n /\ IsView(Reading(text)[n])
    BY <1>2
  <2>2. Reading(text)[n + 1] = TakeIn(Reading(text)[n], text[n + 1])
    BY <2>1, ReadingFacts
  <2> QED
    BY <2>1, <2>2, TakeInView
<1>3. Nat \subseteq S
  <2> HIDE DEF S
  <2> QED
    BY <1>1, <1>2, StepByStep
<1> QED
  BY <1>3

-----------------------------------------------------------------------------
(* What the hooks make known.                                              *)

LEMMA KnownView ==
  ASSUME NEW r, NEW p, NEW host
  PROVE  IsView(Known(r, p, host))
BY DEF IsView, ViewFields, Known

LEMMA StatusKnown ==
  ASSUME NEW r, DOMAIN r = RequestFields, NEW v, NEW p, NEW host
  PROVE  Known([r EXCEPT !.status = v], p, host) = Known(r, p, host)
BY DEF Known, RequestFields

LEMMA PathSeen ==
  ASSUME NEW r, NEW q, NEW p, NEW host, NEW h, h.name = "path",
         q.path = h.arg, q.args = <<>>, q.cb = CallbackOf(host, h.arg),
         q.body = r.body, q.headers = r.headers, q.keepalive = r.keepalive
  PROVE  Seen(Known(r, p, host), h) = Known(q, p, host)
BY DEF Known, Seen

LEMMA ArgsSeen ==
  ASSUME NEW r, DOMAIN r = RequestFields, NEW p, NEW host, NEW h, h.name = "args",
         Seen(Known(r, p, host), h).ok
  PROVE  /\ r.path # NoPath /\ "%bad" \notin ToSet(h.arg)
         /\ Seen(Known(r, p, host), h) = Known([r EXCEPT !.args = h.arg], p, host)
BY DEF Known, RequestFields, Seen

LEMMA KeySeen ==
  ASSUME NEW r, DOMAIN r = RequestFields, NEW p, NEW host, NEW h, h.name = "hdr_key"
  PROVE  Seen(Known(r, p, host), h) = Known([r EXCEPT !.headers = Append(@, <<h.arg, <<>>>>)], p, host)
BY DEF Known, RequestFields, Seen

LEMMA ValSeen ==
  ASSUME NEW r, DOMAIN r = RequestFields, NEW p, NEW host, NEW h, h.name = "hdr_val",
         Seen(Known(r, p, host), h).ok
  PROVE  /\ r.headers # <<>>
         /\ Seen(Known(r, p, host), h) = Known([r EXCEPT !.headers[Len(r.headers)][2] = h.arg], p, host)
BY DEF Known, RequestFields, Seen

LEMMA HostSeen ==
  ASSUME NEW r, DOMAIN r = RequestFields, NEW p, NEW host, NEW h, h.name = "hostname"
  PROVE  LET found == host = "main" /\ h.arg # <<>> /\ h.arg[1] \in Hosts \ {"main"}
         IN  Seen(Known(r, p, host), h) =
               Known(IF found /\ r.path # NoPath THEN [r EXCEPT !.cb = CallbackOf(h.arg[1], r.path)] ELSE r,
                     p, IF found THEN h.arg[1] ELSE host)
BY DEF Known, RequestFields, Seen, IsVirtual

LEMMA HeadersSeen ==
  ASSUME NEW r, NEW q, NEW p, NEW host, NEW h, h.name = "on_hdrs_complete",
         q.keepalive = http_parser_should_keep_alive(p),
         q.path = r.path, q.args = r.args, q.cb = r.cb, q.body = r.body, q.headers = r.headers
  PROVE  Seen(Known(r, p, host), h) = Known(q, p, host)
BY DEF Known, Seen

LEMMA BodySeen ==
  ASSUME NEW r, DOMAIN r = RequestFields, NEW p, NEW host, NEW h, h.name = "body"
  PROVE  Seen(Known(r, p, host), h) = Known([r EXCEPT !.body = @ \o h.arg], p, host)
BY DEF Known, RequestFields, Seen

Unseen == {"on_hdrs_begin", "on_new_chunk", "on_chunk_complete", "on_chunks_complete"}

LEMMA OtherSeen ==
  ASSUME NEW s, NEW h, h.name \in Unseen
  PROVE  Seen(s, h) = s
BY DEF Seen, Unseen

LEMMA AfterTail ==
  ASSUME NEW run, TodoOK(run), run # <<>>, NEW s
  PROVE  /\ After(run, s) = After(Tail(run), Seen(s, run[1]))
         /\ Tail(run) = <<>> \/ Len(run) = 2
<1>1. CASE run = <<run[1]>>
  <2> DEFINE a == run[1]
  <2>1. run = <<a>>
    BY <1>1
  <2> HIDE DEF a
  <2>2. Tail(<<a>>) = <<>> /\ Len(<<a>>) = 1 /\ <<a>>[1] = a /\ <<a>> # <<>>
    OBVIOUS
  <2>3. After(<<a>>, s) = Seen(s, a)
    BY <2>2 DEF After
  <2>4. After(<<>>, Seen(s, a)) = Seen(s, a)
    BY DEF After
  <2> QED
    BY <2>1, <2>2, <2>3, <2>4
<1>2. CASE run = <<run[1], run[2]>>
  <2> DEFINE a == run[1]
             b == run[2]
  <2>1. run = <<a, b>>
    BY <1>2
  <2> HIDE DEF a, b
  <2>2. Tail(<<a, b>>) = <<b>> /\ Len(<<a, b>>) = 2 /\ <<a, b>>[1] = a /\ <<a, b>>[2] = b /\ <<a, b>> # <<>>
    OBVIOUS
  <2>3. After(<<a, b>>, s) = Seen(Seen(s, a), b)
    BY <2>2 DEF After
  <2>4. After(<<b>>, Seen(s, a)) = Seen(Seen(s, a), b)
    <3>1. <<b>> # <<>> /\ Len(<<b>>) = 1 /\ <<b>>[1] = b
      OBVIOUS
    <3> QED
      BY <3>1 DEF After
  <2> QED
    BY <2>1, <2>2, <2>3, <2>4
<1> QED
  BY <1>1, <1>2 DEF TodoOK

-----------------------------------------------------------------------------
(* What a good message is.                                                 *)

LEMMA AskedIs ==
  ASSUME HttpInv, Talking, sent # <<>>
  PROVE  /\ Asked \in Questions /\ Asked.text \in Seq(Symbols) /\ Len(sent) \in Nat \ {0}
         /\ Understood(Asked)
<1>1. sent \in Seq(Questions)
  BY DEF HttpInv, InputInv
<1>2. Len(sent) \in Nat \ {0} /\ Asked \in Questions
  BY <1>1 DEF Asked
<1>3. Asked.good
  BY DEF Talking
<1> QED
  BY <1>2, <1>3, GoodMessages, HttpAssumption

LEMMA NowView ==
  ASSUME HttpInv
  PROVE  /\ IsView(Now) /\ Now.p = parser /\ Now.host = httpx
         /\ Now.ok /\ ~Now.over /\ (Now.on <=> Served)
<1>1. CASE Served
  BY <1>1, KnownView DEF Now, Known
<1>2. CASE ~Served
  <2>1. Now = [Unread EXCEPT !.p = parser, !.host = httpx]
    BY <1>2 DEF Now
  <2>2. IsView(Now)
    BY <2>1 DEF IsView, ViewFields, Unread
  <2>3. Now.p = parser /\ Now.host = httpx /\ Now.ok /\ ~Now.over /\ ~Now.on
    BY <2>1 DEF Unread
  <2> QED
    BY <1>2, <2>2, <2>3
<1> QED
  BY <1>1, <1>2

\* While hooks are to run, a request is being read.
LEMMA HookReads ==
  ASSUME HttpInv, Talking, todo # <<>>
  PROVE  /\ BeingRead /\ sent # <<>> /\ Understood(Asked)
         /\ \E i \in 0 .. Len(Asked.text) : wire = SubSeq(Asked.text, i + 1, Len(Asked.text))
                                             /\ After(todo, Now) = Reading(Asked.text)[i]
         /\ After(todo, Now).ok /\ Seen(Now, todo[1]).ok
         /\ After(todo, Now) = After(Tail(todo), Seen(Now, todo[1]))
<1>1. BeingRead
  BY DEF Talking, Idle, WasRead
<1>2. sent # <<>>
  <2>1. IsList(got) /\ sent \in Seq(Questions)
    BY DEF HttpInv, InputInv, ReplyInv
  <2>2. Len(Answers) \in Nat
    BY <2>1, LastOfList DEF Answers
  <2>3. Len(sent) # 0
    BY <1>1, <2>1, <2>2 DEF BeingRead, Outstanding
  <2> QED
    BY <2>1, <2>3
<1>3. Understood(Asked)
  BY <1>2, AskedIs
<1>4. PICK i \in 0 .. Len(Asked.text) : /\ wire = SubSeq(Asked.text, i + 1, Len(Asked.text))
                                        /\ After(todo, Now) = Reading(Asked.text)[i]
  BY <1>1 DEF BeingRead, AtSymbol
<1>5. Reading(Asked.text)[i].ok
  BY <1>3 DEF Understood
<1>6. After(todo, Now) = After(Tail(todo), Seen(Now, todo[1]))
  BY AfterTail DEF HttpInv, InputInv
<1>7. IsView(Seen(Now, todo[1]))
  BY NowView, SeenView
<1>8. Seen(Now, todo[1]).ok
  BY <1>4, <1>5, <1>6, <1>7, AfterView
<1> QED
  BY <1>1, <1>2, <1>3, <1>4, <1>5, <1>6, <1>8

-----------------------------------------------------------------------------
(* Hooks that let a message pass.                                          *)

LEMMA HookPasses ==
  ASSUME HttpInv, Talking, todo # <<>>,
         Served', begun' = Len(sent), ~request'.finished, request'.status \in {"OK", "PAUSE"},
         Known(request', parser', httpx') = Seen(Now, todo[1]),
         todo' = Tail(todo), at' = "back" => request'.status = "PAUSE",
         UNCHANGED <<wire, sent, got, num_requests, late, why>>, NoneLast(out')
  PROVE  Talking'
<1>1. BeingRead /\ After(todo, Now) = After(Tail(todo), Seen(Now, todo[1]))
  BY HookReads
<1>2. Now' = Seen(Now, todo[1])
  BY DEF Now
<1>3. PICK i \in 0 .. Len(Asked.text) : wire = SubSeq(Asked.text, i + 1, Len(Asked.text))
                                         /\ After(todo, Now) = Reading(Asked.text)[i]
  BY HookReads
<1>4. Asked' = Asked /\ Answers' = Answers
  BY DEF Asked, Answers
<1>5. AtSymbol(Asked.text, i)'
  BY <1>1, <1>2, <1>3, <1>4 DEF AtSymbol
<1>6. BeingRead'
  BY <1>1, <1>4, <1>5 DEF BeingRead, Outstanding
<1> QED
  BY <1>4, <1>6 DEF Talking

\* A user hook may pause: it is then the last of its symbol, or a completion
\* hides it.
LEMMA UserHookPasses ==
  ASSUME HttpInv, Talking, HooksInPairs, NEW name, Runs(name), name # "on_msg_begin",
         NEW hook, name = "hdr_val" => hook = "on_header",
         NEW req, UserHook(hook, req), ~waived', ~request.finished => ~req.finished,
         DOMAIN req = RequestFields, Known(req, parser, httpx') = Seen(Now, todo[1]),
         Served', UNCHANGED <<wire, sent, got, num_requests, begun, late, why>>, NoneLast(out')
  PROVE  Talking'
<1>1. at = "run" /\ todo # <<>> /\ todo[1].name = name /\ Served
  BY HookHas
<1>2. PICK res \in HookResults[hook] :
        /\ request' = [req EXCEPT !.status = res]
        /\ Continue(res = "OK")
        /\ waived' = (waived \/ res \notin {"OK", "PAUSE"} \/ (hook = "on_header" /\ res # "OK"))
        /\ IF hook = "on_header" /\ res # "OK" THEN parser' = ValueFailed(parser, Arg) ELSE UNCHANGED parser
  BY DEF UserHook
<1>3. res \in {"OK", "PAUSE"} /\ (hook = "on_header" => res = "OK") /\ parser' = parser
  BY <1>2
<1>4. BeingRead
  BY <1>1, HookReads
<1>5. ~request.finished /\ begun = Len(sent)
  BY <1>1, <1>4 DEF BeingRead
<1>6. request'.status = res /\ ~request'.finished
  BY <1>2, <1>5 DEF RequestFields
<1>7. Known(request', parser', httpx') = Seen(Now, todo[1])
  BY <1>2, <1>3, StatusKnown
<1>8. Tail(todo) = <<>> \/ Len(todo) = 2
  BY <1>1, AfterTail DEF HttpInv, InputInv
<1>9. todo' = Tail(todo) /\ (at' = "back" => res = "PAUSE")
  BY <1>1, <1>2, <1>3, <1>8 DEF Continue, HooksInPairs
<1> QED
  BY <1>1, <1>3, <1>5, <1>6, <1>7, <1>9, HookPasses

LEMMA OwnHookPasses ==
  ASSUME HttpInv, Talking, NEW name, Runs(name), name # "on_msg_begin", Continue(TRUE),
         NEW req, request' = req, ~request.finished => ~req.finished,
         req.status \in {"OK", "PAUSE"},
         Known(req, parser, httpx) = Seen(Now, todo[1]), Served',
         UNCHANGED <<wire, parser, httpx, sent, got, num_requests, begun, late, why, out>>
  PROVE  Talking'
<1>1. at = "run" /\ todo # <<>> /\ todo[1].name = name /\ Served
  BY HookHas
<1>2. BeingRead
  BY <1>1, HookReads
<1>3. ~request.finished /\ begun = Len(sent) /\ NoneLast(out)
  BY <1>1, <1>2 DEF BeingRead
<1>4. todo' = Tail(todo) /\ at' = "run"
  BY <1>1 DEF Continue
<1>5. NoneLast(out')
  BY <1>3
<1> QED
  BY <1>1, <1>3, <1>4, <1>5, HookPasses

LEMMA FirstKnown ==
  ASSUME NEW p, NEW host,
         NEW s, s = [p |-> p, host |-> host, on |-> FALSE, path |-> NoPath, args |-> <<>>, body |-> <<>>,
                     headers |-> <<>>, cb |-> "none", keep |-> FALSE, over |-> FALSE, ok |-> TRUE]
  PROVE  [s EXCEPT !.on = TRUE, !.ok = TRUE]
           = [p |-> p, host |-> host, on |-> TRUE, path |-> NoPath, args |-> <<>>, body |-> <<>>,
              headers |-> <<>>, cb |-> "none", keep |-> FALSE, over |-> FALSE, ok |-> TRUE]
<1> DEFINE t == [s EXCEPT !.on = TRUE, !.ok = TRUE]
           u == [p |-> p, host |-> host, on |-> TRUE, path |-> NoPath, args |-> <<>>, body |-> <<>>,
                 headers |-> <<>>, cb |-> "none", keep |-> FALSE, over |-> FALSE, ok |-> TRUE]
<1>1. IsView(u)
  BY DEF IsView, ViewFields
<1>2. IsView(s)
  BY DEF IsView, ViewFields
<1>3. IsView(t)
  BY <1>2 DEF IsView, ViewFields
<1>4. /\ t.p = s.p /\ t.host = s.host /\ t.on = TRUE /\ t.path = s.path /\ t.args = s.args
      /\ t.body = s.body /\ t.headers = s.headers /\ t.cb = s.cb /\ t.keep = s.keep
      /\ t.over = s.over /\ t.ok = TRUE
  BY <1>2 DEF IsView, ViewFields
<1>5. /\ u.p = s.p /\ u.host = s.host /\ u.on = TRUE /\ u.path = s.path /\ u.args = s.args
      /\ u.body = s.body /\ u.headers = s.headers /\ u.cb = s.cb /\ u.keep = s.keep
      /\ u.over = s.over /\ u.ok = TRUE
  OBVIOUS
<1>7. /\ t.p = u.p /\ t.host = u.host /\ t.on = u.on /\ t.path = u.path /\ t.args = u.args
      /\ t.body = u.body /\ t.headers = u.headers /\ t.cb = u.cb /\ t.keep = u.keep
      /\ t.over = u.over /\ t.ok = u.ok
  BY <1>4, <1>5
<1> HIDE DEF t, u
<1>6. t = u
  BY <1>1, <1>3, <1>7, SameViews, Zenon
<1> QED
  BY <1>6 DEF t, u

LEMMA StartPasses ==
  ASSUME HttpInv, Talking, request_parser_start
  PROVE  Talking'
<1>1. Runs("on_msg_begin") /\ at = "run" /\ todo # <<>> /\ todo[1].name = "on_msg_begin"
  BY DEF request_parser_start, Runs
<1>2. BeingRead /\ Seen(Now, todo[1]).ok
  BY <1>1, HookReads
<1>3. ~Now.on
  <2> DEFINE s == Now
             c == s.ok /\ ~s.on
  <2>1. IsView(s)
    BY NowView
  <2>2. Seen(s, todo[1]) = [s EXCEPT !.on = TRUE, !.ok = c]
    BY <1>1 DEF Seen
  <2>3. c => ~s.on
    OBVIOUS
  <2> HIDE DEF s, c
  <2>4. Seen(s, todo[1]).ok = c
    BY <2>1, <2>2 DEF IsView, ViewFields
  <2> QED
    BY <1>2, <2>3, <2>4 DEF s
<1>4. ~Served
  BY <1>3, NowView
<1>5. /\ request' = NewRequest(begun + 1) /\ begun' = begun + 1 /\ Continue(TRUE)
      /\ UNCHANGED <<wire, parser, out, httpx, num_requests, late, sent, got, why>>
  BY <1>4 DEF request_parser_start, history
<1>6. Served' /\ ~request'.finished /\ request'.status = "OK"
  BY <1>5 DEF Served, NewRequest, NoRequest
<1>7. begun' = Len(sent)
  <2>1. sent \in Seq(Questions) /\ Len(sent) \in Nat
    BY DEF HttpInv, InputInv
  <2> QED
    BY <1>2, <1>4, <1>5, <2>1 DEF BeingRead
<1>8. Known(request', parser', httpx') = Seen(Now, todo[1])
  <2>1. Now = [Unread EXCEPT !.p = parser, !.host = httpx]
    BY <1>4 DEF Now
  <2>2. Now = [p |-> parser, host |-> httpx, on |-> FALSE, path |-> NoPath, args |-> <<>>, body |-> <<>>,
               headers |-> <<>>, cb |-> "none", keep |-> FALSE, over |-> FALSE, ok |-> TRUE]
    BY <2>1 DEF Unread
  <2>3. (Now.ok /\ ~Now.on) = TRUE
    BY <1>3, NowView
  <2>4. Seen(Now, todo[1]) = [Now EXCEPT !.on = TRUE, !.ok = TRUE]
    BY <1>1, <2>3 DEF Seen
  <2>5. Known(request', parser', httpx')
          = [p |-> parser, host |-> httpx, on |-> TRUE, path |-> NoPath, args |-> <<>>, body |-> <<>>,
             headers |-> <<>>, cb |-> "none", keep |-> FALSE, over |-> FALSE, ok |-> TRUE]
    BY <1>5 DEF Known, NewRequest
  <2> QED
    BY <2>2, <2>4, <2>5, FirstKnown
<1>9. todo' = Tail(todo) /\ at' = "run" /\ NoneLast(out')
  BY <1>1, <1>2, <1>5 DEF Continue, BeingRead
<1> QED
  BY <1>1, <1>5, <1>6, <1>7, <1>8, <1>9, HookPasses

\* What a hook after the first works on.
LEMMA HookKnows ==
  ASSUME HttpInv, Talking, NEW name, Runs(name), name # "on_msg_begin"
  PROVE  /\ Served /\ todo # <<>> /\ todo[1].name = name /\ Arg = todo[1].arg
         /\ Now = Known(request, parser, httpx) /\ DOMAIN request = RequestFields
         /\ Seen(Now, todo[1]).ok /\ begun = Len(sent) /\ NoneLast(out) /\ ~request.finished
         /\ request.status \in {"OK", "PAUSE"}
<1>1. Served /\ todo # <<>> /\ todo[1].name = name /\ DOMAIN request = RequestFields
  BY HookHas DEF IsRequest
<1>2. BeingRead /\ Seen(Now, todo[1]).ok
  BY <1>1, HookReads
<1> QED
  BY <1>1, <1>2 DEF BeingRead, Now, Arg, Talking

LEMMA PathPasses ==
  ASSUME HttpInv, Talking, HooksInPairs, request_parser_path, ~waived', Served'
  PROVE  Talking'
<1> DEFINE req == [request EXCEPT !.path = Arg, !.args = <<>>, !.cb = CallbackOf(httpx, Arg)]
<1>1. Runs("path") /\ UserHook("on_path", req)
  BY DEF request_parser_path
<1>2. UNCHANGED <<wire, httpx, sent, got, num_requests, begun, late, why, out>>
  BY DEF request_parser_path, counts
<1>3. Known(req, parser, httpx') = Seen(Now, todo[1])
  <2> DEFINE h == todo[1]
  <2>1. /\ Now = Known(request, parser, httpx) /\ DOMAIN request = RequestFields
        /\ h.name = "path" /\ Arg = h.arg
    BY <1>1, HookKnows
  <2> HIDE DEF h
  <2>2. /\ req.path = h.arg /\ req.args = <<>> /\ req.cb = CallbackOf(httpx, h.arg)
        /\ req.body = request.body /\ req.headers = request.headers /\ req.keepalive = request.keepalive
    BY <2>1 DEF RequestFields
  <2> HIDE DEF req
  <2>3. Seen(Known(request, parser, httpx), h) = Known(req, parser, httpx)
    BY <2>1, <2>2, PathSeen
  <2> QED
    BY <1>2, <2>1, <2>3 DEF h
<1>4. DOMAIN req = RequestFields /\ req.finished = request.finished
  BY <1>1, HookKnows DEF RequestFields
<1>5. NoneLast(out')
  BY <1>1, <1>2, HookKnows
<1> HIDE DEF req
<1> QED
  BY <1>1, <1>2, <1>3, <1>4, <1>5, UserHookPasses

LEMMA ArgsPasses ==
  ASSUME HttpInv, Talking, request_parser_args, Served'
  PROVE  Talking'
<1>1. Runs("args")
  BY DEF request_parser_args
<1>2. "%bad" \notin ToSet(Arg) /\ Seen(Now, todo[1]) = Known([request EXCEPT !.args = Arg], parser, httpx)
  BY <1>1, HookKnows, ArgsSeen
<1> DEFINE req == [request EXCEPT !.args = Arg, !.status = request.status]
<1>3. request' = req /\ Continue(TRUE)
  BY <1>2 DEF request_parser_args
<1>4. UNCHANGED <<wire, parser, httpx, sent, got, num_requests, begun, late, why, out>>
  BY DEF request_parser_args, counts, history
<1>5. Known(req, parser, httpx) = Seen(Now, todo[1])
  <2>1. req = [[request EXCEPT !.args = Arg] EXCEPT !.status = request.status]
    BY <1>1, HookKnows DEF RequestFields
  <2>2. DOMAIN [request EXCEPT !.args = Arg] = RequestFields
    BY <1>1, HookKnows
  <2> QED
    BY <1>2, <2>1, <2>2, StatusKnown
<1>6. req.finished = request.finished /\ req.status = request.status
  BY <1>1, HookKnows DEF RequestFields
<1> HIDE DEF req
<1> QED
  BY <1>1, <1>3, <1>4, <1>5, <1>6, HookKnows, OwnHookPasses

LEMMA HeadersStartPasses ==
  ASSUME HttpInv, Talking, request_parser_headers_start, Served'
  PROVE  Talking'
<1>1. Runs("on_hdrs_begin") /\ Continue(TRUE) /\ request' = [request EXCEPT !.status = "OK"]
  BY DEF request_parser_headers_start
<1>2. UNCHANGED <<wire, parser, httpx, sent, got, num_requests, begun, late, why, out>>
  BY DEF request_parser_headers_start, counts, history
<1>3. Known([request EXCEPT !.status = "OK"], parser, httpx) = Seen(Now, todo[1])
  BY <1>1, HookKnows, StatusKnown, OtherSeen DEF Unseen
<1>4. [request EXCEPT !.status = "OK"].finished = request.finished
      /\ [request EXCEPT !.status = "OK"].status = "OK"
  BY <1>1, HookKnows DEF RequestFields
<1> QED
  BY <1>1, <1>2, <1>3, <1>4, OwnHookPasses

LEMMA ChunksPass ==
  ASSUME HttpInv, Talking, request_parser_chunks, Served'
  PROVE  Talking'
<1>1. Continue(TRUE) /\ request' = [request EXCEPT !.status = "OK"]
  BY DEF request_parser_chunks
<1>2. UNCHANGED <<wire, parser, httpx, sent, got, num_requests, begun, late, why, out>>
  BY DEF request_parser_chunks, counts, history
<1>0. PICK name \in {"on_new_chunk", "on_chunk_complete", "on_chunks_complete"} : Runs(name)
  BY DEF request_parser_chunks
<1>3. Known([request EXCEPT !.status = "OK"], parser, httpx) = Seen(Now, todo[1])
  BY <1>0, <1>1, HookKnows, StatusKnown, OtherSeen DEF Unseen
<1>4. [request EXCEPT !.status = "OK"].finished = request.finished
      /\ [request EXCEPT !.status = "OK"].status = "OK"
  BY <1>0, <1>1, HookKnows DEF RequestFields
<1> QED
  BY <1>0, <1>1, <1>2, <1>3, <1>4, OwnHookPasses

LEMMA HeaderKeyPasses ==
  ASSUME HttpInv, Talking, request_parser_header_key, Served'
  PROVE  Talking'
<1> DEFINE req == [request EXCEPT !.headers = Append(@, <<Arg, <<>>>>)]
<1>1. Runs("hdr_key") /\ Continue(TRUE) /\ request' = req
  BY DEF request_parser_header_key
<1>2. UNCHANGED <<wire, parser, httpx, sent, got, num_requests, begun, late, why, out>>
  BY DEF request_parser_header_key, counts, history
<1>3. Known(req, parser, httpx) = Seen(Now, todo[1])
  BY <1>1, HookKnows, KeySeen
<1>4. req.finished = request.finished /\ req.status = request.status
  BY <1>1, HookKnows DEF RequestFields
<1> HIDE DEF req
<1> QED
  BY <1>1, <1>2, <1>3, <1>4, HookKnows, OwnHookPasses

LEMMA HeaderValPasses ==
  ASSUME HttpInv, Talking, HooksInPairs, request_parser_header_val, ~waived', Served'
  PROVE  Talking'
<1> DEFINE req == [request EXCEPT !.headers[Len(request.headers)][2] = Arg]
<1>1. Runs("hdr_val")
  BY DEF request_parser_header_val
<1>2. request.headers # <<>> /\ Seen(Now, todo[1]) = Known(req, parser, httpx)
  BY <1>1, HookKnows, ValSeen
<1>3. UserHook("on_header", req)
  BY <1>2 DEF request_parser_header_val
<1>4. UNCHANGED <<wire, httpx, sent, got, num_requests, begun, late, why, out>>
  BY DEF request_parser_header_val, counts
<1>5. DOMAIN req = RequestFields /\ req.finished = request.finished
  BY <1>1, HookKnows DEF RequestFields
<1>6. NoneLast(out')
  BY <1>1, <1>4, HookKnows
<1> HIDE DEF req
<1> QED
  BY <1>1, <1>2, <1>3, <1>4, <1>5, <1>6, UserHookPasses

LEMMA HostnamePasses ==
  ASSUME HttpInv, Talking, HooksInPairs, request_parser_hostname, ~waived', Served'
  PROVE  Talking'
<1> DEFINE found == httpx = "main" /\ Arg # <<>> /\ Arg[1] \in Hosts \ {"main"}
           req == IF found /\ request.path # NoPath
                  THEN [request EXCEPT !.cb = CallbackOf(Arg[1], request.path)] ELSE request
<1>1. /\ Runs("hostname") /\ UserHook("on_hostname", req)
      /\ httpx' = IF found THEN Arg[1] ELSE httpx
  BY DEF request_parser_hostname
<1>2. UNCHANGED <<wire, sent, got, num_requests, begun, late, why, out>>
  BY DEF request_parser_hostname, counts
<1>3. Known(req, parser, httpx') = Seen(Now, todo[1])
  <2> DEFINE h == todo[1]
  <2>1. /\ Now = Known(request, parser, httpx) /\ DOMAIN request = RequestFields
        /\ h.name = "hostname" /\ Arg = h.arg
    BY <1>1, HookKnows
  <2> HIDE DEF h
  <2>2. Seen(Known(request, parser, httpx), h) = Known(req, parser, IF found THEN Arg[1] ELSE httpx)
    BY <2>1, HostSeen
  <2> QED
    BY <1>1, <2>1, <2>2 DEF h
<1>4. DOMAIN req = RequestFields /\ req.finished = request.finished
  BY <1>1, HookKnows DEF RequestFields
<1>5. NoneLast(out')
  BY <1>1, <1>2, HookKnows
<1> HIDE DEF req, found
<1> QED
  BY <1>1, <1>2, <1>3, <1>4, <1>5, UserHookPasses

\* A part of a reply that is not its last.
LEMMA NoneLastAppended ==
  ASSUME NEW parts, IsList(parts), NoneLast(parts), NEW x, ~IsLast(x)
  PROVE  NoneLast(Append(parts, x))
<1>1. /\ Len(parts) \in Nat /\ DOMAIN parts = 1 .. Len(parts)
      /\ DOMAIN Append(parts, x) = 1 .. (Len(parts) + 1)
      /\ Append(parts, x)[Len(parts) + 1] = x
      /\ \A i \in 1 .. Len(parts) : Append(parts, x)[i] = parts[i]
  BY DEF IsList
<1> QED
  BY <1>1 DEF NoneLast

LEMMA HeadersPass ==
  ASSUME HttpInv, Talking, HooksInPairs, request_parser_headers, ~waived', Served'
  PROVE  Talking'
<1> DEFINE req == [request EXCEPT !.keepalive = http_parser_should_keep_alive(parser),
                                  !.proto = Proto(parser.version)]
           x == Reply("100")
<1>1. Runs("on_hdrs_complete") /\ UserHook("on_headers", req)
  BY DEF request_parser_headers
<1>2. UNCHANGED <<wire, httpx, sent, got, num_requests, begun, late, why>>
  BY DEF request_parser_headers, counts
<1>3. Known(req, parser, httpx') = Seen(Now, todo[1])
  <2> DEFINE h == todo[1]
  <2>1. /\ Now = Known(request, parser, httpx) /\ DOMAIN request = RequestFields
        /\ h.name = "on_hdrs_complete"
    BY <1>1, HookKnows
  <2> HIDE DEF h
  <2>2. /\ req.keepalive = http_parser_should_keep_alive(parser)
        /\ req.path = request.path /\ req.args = request.args /\ req.cb = request.cb
        /\ req.body = request.body /\ req.headers = request.headers
    BY <2>1 DEF RequestFields
  <2> HIDE DEF req
  <2>3. Seen(Known(request, parser, httpx), h) = Known(req, parser, httpx)
    BY <2>1, <2>2, HeadersSeen
  <2> QED
    BY <1>2, <2>1, <2>3 DEF h
<1>4. DOMAIN req = RequestFields /\ req.finished = request.finished
  BY <1>1, HookKnows DEF RequestFields
<1>5. NoneLast(out')
  <2>1. ~IsLast(x)
    BY DEF IsLast, Reply
  <2>2. out' = out \/ out' = Append(out, x)
    BY DEF request_parser_headers
  <2>3. NoneLast(out) /\ IsList(out)
    BY <1>1, HookKnows DEF HttpInv, ReplyInv
  <2> HIDE DEF x
  <2> QED
    BY <2>1, <2>2, <2>3, NoneLastAppended
<1> HIDE DEF req, x
<1> QED
  BY <1>1, <1>2, <1>3, <1>4, <1>5, UserHookPasses

LEMMA BodyPasses ==
  ASSUME HttpInv, Talking, HooksInPairs, request_parser_body, ~waived', Served'
  PROVE  Talking'
<1> DEFINE req == [request EXCEPT !.body = @ \o Arg]
<1>1. Runs("body") /\ UserHook("on_read", req)
  BY DEF request_parser_body
<1>2. UNCHANGED <<wire, httpx, sent, got, num_requests, begun, late, why, out>>
  BY DEF request_parser_body
<1>3. Known(req, parser, httpx') = Seen(Now, todo[1])
  <2> DEFINE h == todo[1]
  <2>1. /\ Now = Known(request, parser, httpx) /\ DOMAIN request = RequestFields
        /\ h.name = "body" /\ Arg = h.arg
    BY <1>1, HookKnows
  <2> HIDE DEF h
  <2>2. Seen(Known(request, parser, httpx), h) = Known([request EXCEPT !.body = @ \o h.arg], parser, httpx)
    BY <2>1, BodySeen, Zenon
  <2>3. Seen(Now, h) = Known(req, parser, httpx)
    BY <2>1, <2>2
  <2> QED
    BY <1>2, <2>3 DEF h
<1>4. DOMAIN req = RequestFields /\ req.finished = request.finished
  BY <1>1, HookKnows DEF RequestFields
<1>5. NoneLast(out')
  BY <1>1, <1>2, HookKnows
<1> HIDE DEF req
<1> QED
  BY <1>1, <1>2, <1>3, <1>4, <1>5, UserHookPasses

-----------------------------------------------------------------------------
(* One symbol of the parser.                                               *)

BodyStates == {"chunk_data", "body_read"}

\* Outside a body a step uses at most one symbol, and runs at most one hook,
\* or the hook of a value and another.
Little(o) ==
  /\ o.used \in {0, 1}
  /\ Len(o.run) <= 1 \/ o.run[1].name = "hdr_val"

LEMMA GoLittle ==
  ASSUME NEW q
  PROVE  Little(Go(q)) /\ Little(Error(q)) /\ Little(Again(q)) /\ Little(Outcome(q, <<>>))
BY DEF Little, Go, Error, Again, Outcome

LEMMA OutLittle ==
  ASSUME NEW q, NEW name, NEW arg
  PROVE  Little(Outcome(q, Hook(name, arg)))
BY DEF Little, Outcome, Hook

LEMMA ValueLittle ==
  ASSUME NEW q, NEW arg, NEW name, NEW other
  PROVE  Little(Outcome(q, Hook("hdr_val", arg) \o Hook(name, other)))
<1> DEFINE a == [name |-> "hdr_val", arg |-> arg]
           b == [name |-> name, arg |-> other]
<1>1. Hook("hdr_val", arg) \o Hook(name, other) = <<a, b>>
  BY PairOfHooks DEF Hook
<1>2. <<a, b>>[1].name = "hdr_val"
  OBVIOUS
<1> HIDE DEF a, b
<1>3. Outcome(q, <<a, b>>).used = 1 /\ Outcome(q, <<a, b>>).run = <<a, b>>
  BY DEF Outcome
<1> QED
  BY <1>1, <1>2, <1>3 DEF Little

LEMMA StepLittle ==
  ASSUME NEW p, ParserOK(p), NEW d \in Seq(Symbols), d # <<>>, p.state \notin BodyStates
  PROVE  Little(Step(p, d)) /\ Step(p, d) = Step(p, <<Head(d)>>)
<1> DEFINE ch == Head(d)
<1>0. Head(<<ch>>) = ch
  OBVIOUS
<1> HIDE DEF ch
<1>1. CASE Full(p)
  BY <1>1, GoLittle DEF Step
<1>2. CASE ~Full(p)
  <2>1. p.state \in States
    BY DEF ParserOK, Parsers
  <2>2. CASE p.state \in {"start", "method", "spaces_before_uri", "schema", "host", "port", "after_slash_in_uri"}
    <3>1. CASE p.state = "start"
      <4>1. Step(p, d) = s_start(p, ch) /\ Step(p, <<ch>>) = s_start(p, ch)
        BY <1>0, <1>2, <3>1 DEF Step, ch
      <4>2. Little(s_start(p, ch))
        BY GoLittle, OutLittle, ValueLittle DEF s_start
      <4> QED
        BY <4>1, <4>2 DEF ch
    <3>2. CASE p.state = "method"
      <4>1. Step(p, d) = s_method(p, ch) /\ Step(p, <<ch>>) = s_method(p, ch)
        BY <1>0, <1>2, <3>2 DEF Step, ch
      <4>2. Little(s_method(p, ch))
        BY GoLittle, OutLittle, ValueLittle DEF s_method
      <4> QED
        BY <4>1, <4>2 DEF ch
    <3>3. CASE p.state = "spaces_before_uri"
      <4>1. Step(p, d) = s_spaces_before_uri(p, ch) /\ Step(p, <<ch>>) = s_spaces_before_uri(p, ch)
        BY <1>0, <1>2, <3>3 DEF Step, ch
      <4>2. Little(s_spaces_before_uri(p, ch))
        BY GoLittle, OutLittle, ValueLittle DEF s_spaces_before_uri
      <4> QED
        BY <4>1, <4>2 DEF ch
    <3>4. CASE p.state = "schema"
      <4>1. Step(p, d) = s_schema(p, ch) /\ Step(p, <<ch>>) = s_schema(p, ch)
        BY <1>0, <1>2, <3>4 DEF Step, ch
      <4>2. Little(s_schema(p, ch))
        BY GoLittle, OutLittle, ValueLittle DEF s_schema
      <4> QED
        BY <4>1, <4>2 DEF ch
    <3>5. CASE p.state = "host"
      <4>1. Step(p, d) = s_host(p, ch) /\ Step(p, <<ch>>) = s_host(p, ch)
        BY <1>0, <1>2, <3>5 DEF Step, ch
      <4>2. Little(s_host(p, ch))
        BY GoLittle, OutLittle, ValueLittle DEF s_host
      <4> QED
        BY <4>1, <4>2 DEF ch
    <3>6. CASE p.state = "port"
      <4>1. Step(p, d) = s_port(p, ch) /\ Step(p, <<ch>>) = s_port(p, ch)
        BY <1>0, <1>2, <3>6 DEF Step, ch
      <4>2. Little(s_port(p, ch))
        BY GoLittle, OutLittle, ValueLittle DEF s_port
      <4> QED
        BY <4>1, <4>2 DEF ch
    <3>7. CASE p.state = "after_slash_in_uri"
      <4>1. Step(p, d) = s_after_slash_in_uri(p, ch) /\ Step(p, <<ch>>) = s_after_slash_in_uri(p, ch)
        BY <1>0, <1>2, <3>7 DEF Step, ch
      <4>2. Little(s_after_slash_in_uri(p, ch))
        BY GoLittle, OutLittle, ValueLittle DEF s_after_slash_in_uri, EndUri, EndOfLine
      <4> QED
        BY <4>1, <4>2 DEF ch
    <3> QED
      BY <2>2, <3>1, <3>2, <3>3, <3>4, <3>5, <3>6, <3>7
  <2>3. CASE p.state \in {"check_uri", "uri", "http_09", "minor_digit", "spaces_after_digit", "almost_done", "done"}
    <3>1. CASE p.state = "check_uri"
      <4>1. Step(p, d) = s_check_uri(p, ch) /\ Step(p, <<ch>>) = s_check_uri(p, ch)
        BY <1>0, <1>2, <3>1 DEF Step, ch
      <4>2. Little(s_check_uri(p, ch))
        BY GoLittle, OutLittle, ValueLittle DEF s_check_uri, EndUri, EndOfLine
      <4> QED
        BY <4>1, <4>2 DEF ch
    <3>2. CASE p.state = "uri"
      <4>1. Step(p, d) = s_uri(p, ch) /\ Step(p, <<ch>>) = s_uri(p, ch)
        BY <1>0, <1>2, <3>2 DEF Step, ch
      <4>2. Little(s_uri(p, ch))
        BY GoLittle, OutLittle, ValueLittle DEF s_uri, EndUri, EndOfLine
      <4> QED
        BY <4>1, <4>2 DEF ch
    <3>3. CASE p.state = "http_09"
      <4>1. Step(p, d) = s_http_09(p, ch) /\ Step(p, <<ch>>) = s_http_09(p, ch)
        BY <1>0, <1>2, <3>3 DEF Step, ch
      <4>2. Little(s_http_09(p, ch))
        BY GoLittle, OutLittle, ValueLittle DEF s_http_09, EndOfLine
      <4> QED
        BY <4>1, <4>2 DEF ch
    <3>4. CASE p.state = "minor_digit"
      <4>1. Step(p, d) = s_minor_digit(p, ch) /\ Step(p, <<ch>>) = s_minor_digit(p, ch)
        BY <1>0, <1>2, <3>4 DEF Step, ch
      <4>2. Little(s_minor_digit(p, ch))
        BY GoLittle, OutLittle, ValueLittle DEF s_minor_digit
      <4> QED
        BY <4>1, <4>2 DEF ch
    <3>5. CASE p.state = "spaces_after_digit"
      <4>1. Step(p, d) = s_spaces_after_digit(p, ch) /\ Step(p, <<ch>>) = s_spaces_after_digit(p, ch)
        BY <1>0, <1>2, <3>5 DEF Step, ch
      <4>2. Little(s_spaces_after_digit(p, ch))
        BY GoLittle, OutLittle, ValueLittle DEF s_spaces_after_digit
      <4> QED
        BY <4>1, <4>2 DEF ch
    <3>6. CASE p.state = "almost_done"
      <4>1. Step(p, d) = s_almost_done(p, ch) /\ Step(p, <<ch>>) = s_almost_done(p, ch)
        BY <1>0, <1>2, <3>6 DEF Step, ch
      <4>2. Little(s_almost_done(p, ch))
        BY GoLittle, OutLittle, ValueLittle DEF s_almost_done
      <4> QED
        BY <4>1, <4>2 DEF ch
    <3>7. CASE p.state = "done"
      <4>1. Step(p, d) = s_done(p, ch) /\ Step(p, <<ch>>) = s_done(p, ch)
        BY <1>0, <1>2, <3>7 DEF Step, ch
      <4>2. Little(s_done(p, ch))
        BY GoLittle, OutLittle, ValueLittle DEF s_done, s_hdrline_start
      <4> QED
        BY <4>1, <4>2 DEF ch
    <3> QED
      BY <2>3, <3>1, <3>2, <3>3, <3>4, <3>5, <3>6, <3>7
  <2>4. CASE p.state \in {"hdrline_start", "hdrline_hdr_key", "hdrline_hdr_space_before_val", "hdrline_hdr_val", "hdrline_hdr_almost_done", "hdrline_hdr_done", "hdrline_almost_done"}
    <3>1. CASE p.state = "hdrline_start"
      <4>1. Step(p, d) = s_hdrline_start(p, ch) /\ Step(p, <<ch>>) = s_hdrline_start(p, ch)
        BY <1>0, <1>2, <3>1 DEF Step, ch
      <4>2. Little(s_hdrline_start(p, ch))
        BY GoLittle, OutLittle, ValueLittle DEF s_hdrline_start
      <4> QED
        BY <4>1, <4>2 DEF ch
    <3>2. CASE p.state = "hdrline_hdr_key"
      <4>1. Step(p, d) = s_hdrline_hdr_key(p, ch) /\ Step(p, <<ch>>) = s_hdrline_hdr_key(p, ch)
        BY <1>0, <1>2, <3>2 DEF Step, ch
      <4>2. Little(s_hdrline_hdr_key(p, ch))
        BY GoLittle, OutLittle, ValueLittle DEF s_hdrline_hdr_key
      <4> QED
        BY <4>1, <4>2 DEF ch
    <3>3. CASE p.state = "hdrline_hdr_space_before_val"
      <4>1. Step(p, d) = s_hdrline_hdr_space_before_val(p, ch) /\ Step(p, <<ch>>) = s_hdrline_hdr_space_before_val(p, ch)
        BY <1>0, <1>2, <3>3 DEF Step, ch
      <4>2. Little(s_hdrline_hdr_space_before_val(p, ch))
        BY GoLittle, OutLittle, ValueLittle DEF s_hdrline_hdr_space_before_val
      <4> QED
        BY <4>1, <4>2 DEF ch
    <3>4. CASE p.state = "hdrline_hdr_val"
      <4>1. Step(p, d) = s_hdrline_hdr_val(p, ch) /\ Step(p, <<ch>>) = s_hdrline_hdr_val(p, ch)
        BY <1>0, <1>2, <3>4 DEF Step, ch
      <4>2. Little(s_hdrline_hdr_val(p, ch))
        BY GoLittle, OutLittle, ValueLittle DEF s_hdrline_hdr_val
      <4> QED
        BY <4>1, <4>2 DEF ch
    <3>5. CASE p.state = "hdrline_hdr_almost_done"
      <4>1. Step(p, d) = s_hdrline_hdr_almost_done(p, ch) /\ Step(p, <<ch>>) = s_hdrline_hdr_almost_done(p, ch)
        BY <1>0, <1>2, <3>5 DEF Step, ch
      <4>2. Little(s_hdrline_hdr_almost_done(p, ch))
        BY GoLittle, OutLittle, ValueLittle DEF s_hdrline_hdr_almost_done, Complete
      <4> QED
        BY <4>1, <4>2 DEF ch
    <3>6. CASE p.state = "hdrline_hdr_done"
      <4>1. Step(p, d) = s_hdrline_hdr_done(p, ch) /\ Step(p, <<ch>>) = s_hdrline_hdr_done(p, ch)
        BY <1>0, <1>2, <3>6 DEF Step, ch
      <4>2. Little(s_hdrline_hdr_done(p, ch))
        BY GoLittle, OutLittle, ValueLittle DEF s_hdrline_hdr_done
      <4> QED
        BY <4>1, <4>2 DEF ch
    <3>7. CASE p.state = "hdrline_almost_done"
      <4>1. Step(p, d) = s_hdrline_almost_done(p, ch) /\ Step(p, <<ch>>) = s_hdrline_almost_done(p, ch)
        BY <1>0, <1>2, <3>7 DEF Step, ch
      <4>2. Little(s_hdrline_almost_done(p, ch))
        BY GoLittle, OutLittle, ValueLittle DEF s_hdrline_almost_done, Complete
      <4> QED
        BY <4>1, <4>2 DEF ch
    <3> QED
      BY <2>4, <3>1, <3>2, <3>3, <3>4, <3>5, <3>6, <3>7
  <2>5. CASE p.state \in {"chunk_size_start", "chunk_size", "chunk_size_almost_done", "chunk_data_almost_done", "chunk_data_done"}
    <3>1. CASE p.state = "chunk_size_start"
      <4>1. Step(p, d) = s_chunk_size_start(p, ch) /\ Step(p, <<ch>>) = s_chunk_size_start(p, ch)
        BY <1>0, <1>2, <3>1 DEF Step, ch
      <4>2. Little(s_chunk_size_start(p, ch))
        BY GoLittle, OutLittle, ValueLittle DEF s_chunk_size_start
      <4> QED
        BY <4>1, <4>2 DEF ch
    <3>2. CASE p.state = "chunk_size"
      <4>1. Step(p, d) = s_chunk_size(p, ch) /\ Step(p, <<ch>>) = s_chunk_size(p, ch)
        BY <1>0, <1>2, <3>2 DEF Step, ch
      <4>2. Little(s_chunk_size(p, ch))
        BY GoLittle, OutLittle, ValueLittle DEF s_chunk_size
      <4> QED
        BY <4>1, <4>2 DEF ch
    <3>3. CASE p.state = "chunk_size_almost_done"
      <4>1. Step(p, d) = s_chunk_size_almost_done(p, ch) /\ Step(p, <<ch>>) = s_chunk_size_almost_done(p, ch)
        BY <1>0, <1>2, <3>3 DEF Step, ch
      <4>2. Little(s_chunk_size_almost_done(p, ch))
        BY GoLittle, OutLittle, ValueLittle DEF s_chunk_size_almost_done
      <4> QED
        BY <4>1, <4>2 DEF ch
    <3>4. CASE p.state = "chunk_data_almost_done"
      <4>1. Step(p, d) = s_chunk_data_almost_done(p, ch) /\ Step(p, <<ch>>) = s_chunk_data_almost_done(p, ch)
        BY <1>0, <1>2, <3>4 DEF Step, ch
      <4>2. Little(s_chunk_data_almost_done(p, ch))
        BY GoLittle, OutLittle, ValueLittle DEF s_chunk_data_almost_done
      <4> QED
        BY <4>1, <4>2 DEF ch
    <3>5. CASE p.state = "chunk_data_done"
      <4>1. Step(p, d) = s_chunk_data_done(p, ch) /\ Step(p, <<ch>>) = s_chunk_data_done(p, ch)
        BY <1>0, <1>2, <3>5 DEF Step, ch
      <4>2. Little(s_chunk_data_done(p, ch))
        BY GoLittle, OutLittle, ValueLittle DEF s_chunk_data_done
      <4> QED
        BY <4>1, <4>2 DEF ch
    <3> QED
      BY <2>5, <3>1, <3>2, <3>3, <3>4, <3>5
  <2>6. CASE p.state \in {"schema_slash", "schema_slash_slash"}
    <3>1. Step(p, d) = s_schema_slash(p, ch) /\ Step(p, <<ch>>) = s_schema_slash(p, ch)
      BY <1>0, <1>2, <2>6 DEF Step, ch
    <3>2. Little(s_schema_slash(p, ch))
      BY GoLittle, OutLittle DEF s_schema_slash
    <3> QED
      BY <3>1, <3>2 DEF ch
  <2> QED
    BY <2>1, <2>2, <2>3, <2>4, <2>5, <2>6 DEF States, BodyStates
<1> QED
  BY <1>1, <1>2

-----------------------------------------------------------------------------
(* Symbols of a body: many at once, or one by one.                         *)

NextOf(p) == IF p.state = "body_read" THEN "start" ELSE "chunk_data_almost_done"
EndOf(p)  == IF p.state = "body_read" THEN Hook("on_msg_complete", <<>>) ELSE <<>>

\* The parser after n symbols of a body, and the hook after these.
BodyParser(p, n) == [p EXCEPT !.content_len = p.content_len - n,
                              !.state = IF p.content_len = n THEN NextOf(p) ELSE @]
BodyEnd(p, n) == IF p.content_len = n THEN EndOf(p) ELSE <<>>

BodyHooks(p, xs) == Hook("body", xs) \o BodyEnd(p, Len(xs))

GotBody(s, xs) == After(BodyEnd(s.p, Len(xs)),
                        [s EXCEPT !.p = BodyParser(s.p, Len(xs)), !.body = @ \o xs])

LEMMA BodyStep ==
  ASSUME NEW p, ParserOK(p), p.state \in BodyStates, ~Full(p),
         NEW d \in Seq(Symbols), d # <<>>
  PROVE  LET n == Taken(p, d)
             o == Step(p, d)
         IN  /\ n \in 0 .. Len(d) /\ n <= p.content_len /\ (p.content_len > 0 => n > 0)
             /\ o.p = BodyParser(p, n) /\ o.used = n /\ ~o.error
             /\ o.run = BodyHooks(p, SubSeq(d, 1, n))
<1> DEFINE n == Taken(p, d)
           c == p.content_len
           next == NextOf(p)
           last == EndOf(p)
           hooks == Hook("body", SubSeq(d, 1, n)) \o (IF Rest(p, d) = 0 THEN last ELSE <<>>)
           q == [p EXCEPT !.content_len = Rest(p, d), !.state = IF Rest(p, d) = 0 THEN next ELSE @]
<1>1. c \in Nat /\ Len(d) \in Nat \ {0}
  BY DEF ParserOK, Parsers
<1>2. /\ n \in 0 .. Len(d) /\ n <= c /\ (c > 0 => n > 0)
      /\ Rest(p, d) = c - n /\ (Rest(p, d) = 0 <=> c = n)
  BY <1>1 DEF Taken, Rest
<1>3. Step(p, d) = Body(p, d, next, last)
  <2>1. CASE p.state = "body_read"
    BY <2>1 DEF Step, s_body_read, NextOf, EndOf
  <2>2. CASE p.state = "chunk_data"
    BY <2>2 DEF Step, s_chunk_data, NextOf, EndOf
  <2> QED
    BY <2>1, <2>2 DEF BodyStates
<1>4. Body(p, d, next, last) = [Outcome(q, hooks) EXCEPT !.used = n]
  BY DEF Body
<1>5. q = BodyParser(p, n)
  BY <1>2 DEF BodyParser
<1>6. Len(SubSeq(d, 1, n)) = n
  BY <1>1, <1>2
<1>7. hooks = BodyHooks(p, SubSeq(d, 1, n))
  BY <1>2, <1>6 DEF BodyHooks, BodyEnd
<1> HIDE DEF q, hooks, n, next, last
<1>8. LET o == [Outcome(q, hooks) EXCEPT !.used = n]
      IN  o.p = q /\ o.used = n /\ ~o.error /\ o.run = hooks
  BY DEF Outcome
<1>9. /\ Step(p, d).p = q /\ Step(p, d).used = n /\ ~Step(p, d).error /\ Step(p, d).run = hooks
  BY <1>3, <1>4, <1>8
<1> QED
  BY <1>2, <1>5, <1>7, <1>9 DEF n

LEMMA BodyAfter ==
  ASSUME NEW s, IsView(s), NEW xs \in Seq(Symbols)
  PROVE  /\ After(BodyHooks(s.p, xs), [s EXCEPT !.p = BodyParser(s.p, Len(xs))]) = GotBody(s, xs)
         /\ BodyHooks(s.p, xs) # <<>> /\ BodyHooks(s.p, xs)[1].name = "body"
<1> DEFINE q == BodyParser(s.p, Len(xs))
           a == [name |-> "body", arg |-> xs]
           b == [name |-> "on_msg_complete", arg |-> <<>>]
           t == [s EXCEPT !.p = q]
           end == BodyEnd(s.p, Len(xs))
<1>1. end = <<>> \/ end = <<b>>
  BY DEF BodyEnd, EndOf, Hook
<1>2. BodyHooks(s.p, xs) = <<a>> \o end
  BY DEF BodyHooks, Hook
<1> HIDE DEF q
<1>3. Seen(t, a) = [s EXCEPT !.p = q, !.body = @ \o xs]
  <2>1. Seen(t, a) = [t EXCEPT !.body = @ \o xs]
    BY DEF Seen
  <2> QED
    BY <2>1 DEF IsView, ViewFields
<1>4. GotBody(s, xs) = After(end, Seen(t, a))
  BY <1>3 DEF GotBody, q
<1>5. a.name = "body"
  OBVIOUS
<1> HIDE DEF a, b, t, end
<1>6. <<a>> \o <<>> = <<a>> /\ <<a>> \o <<b>> = <<a, b>>
  BY PairOfHooks
<1>7. After(<<a>>, t) = After(<<>>, Seen(t, a)) /\ <<a>> # <<>> /\ <<a>>[1] = a
  <2>1. <<a>> # <<>> /\ Len(<<a>>) = 1 /\ <<a>>[1] = a
    OBVIOUS
  <2> QED
    BY <2>1 DEF After
<1>8. After(<<a, b>>, t) = After(<<b>>, Seen(t, a)) /\ <<a, b>> # <<>> /\ <<a, b>>[1] = a
  <2>1. <<a, b>> # <<>> /\ Len(<<a, b>>) = 2 /\ <<a, b>>[1] = a /\ <<a, b>>[2] = b
        /\ <<b>> # <<>> /\ Len(<<b>>) = 1 /\ <<b>>[1] = b
    OBVIOUS
  <2> QED
    BY <2>1 DEF After
<1> QED
  BY <1>1, <1>2, <1>4, <1>5, <1>6, <1>7, <1>8 DEF q, t

LEMMA PartIs ==
  ASSUME NEW S, NEW s \in Seq(S), NEW a \in Nat, a > 0, NEW b \in Nat, b <= Len(s), a <= b + 1
  PROVE  /\ SubSeq(s, a, b) \in Seq(S) /\ Len(SubSeq(s, a, b)) = b - a + 1
         /\ \A k \in 1 .. b - a + 1 : SubSeq(s, a, b)[k] = s[a + k - 1]
OBVIOUS

LEMMA SameSeqs ==
  ASSUME NEW S, NEW s \in Seq(S), NEW t \in Seq(S), Len(s) = Len(t),
         \A k \in 1 .. Len(s) : s[k] = t[k]
  PROVE  s = t
OBVIOUS

LEMMA PartOfOne ==
  ASSUME NEW S, NEW s \in Seq(S), NEW a \in 1 .. Len(s)
  PROVE  SubSeq(s, a, a) = <<s[a]>>
<1> DEFINE t == SubSeq(s, a, a)
           u == <<s[a]>>
<1>1. t \in Seq(S) /\ Len(t) = 1 /\ t[1] = s[a]
  BY PartIs
<1>2. u \in Seq(S) /\ Len(u) = 1 /\ u[1] = s[a]
  OBVIOUS
<1> HIDE DEF t, u
<1>3. Len(t) = Len(u) /\ \A k \in 1 .. Len(t) : t[k] = u[k]
  BY <1>1, <1>2
<1>4. t = u
  BY <1>1, <1>2, <1>3, SameSeqs
<1> QED
  BY <1>4 DEF t, u

LEMMA PartOfMore ==
  ASSUME NEW S, NEW s \in Seq(S), NEW a \in Nat, a > 0, NEW b \in Nat, b < Len(s), a <= b + 1
  PROVE  Append(SubSeq(s, a, b), s[b + 1]) = SubSeq(s, a, b + 1)
<1> DEFINE t == SubSeq(s, a, b)
           u == SubSeq(s, a, b + 1)
           n == b - a + 1
<1>1. n \in Nat /\ s[b + 1] \in S
  OBVIOUS
<1>2. t \in Seq(S) /\ Len(t) = n /\ \A k \in 1 .. n : t[k] = s[a + k - 1]
  BY PartIs
<1>3. u \in Seq(S) /\ Len(u) = n + 1 /\ \A k \in 1 .. n + 1 : u[k] = s[a + k - 1]
  BY PartIs
<1>8. n + 1 = b + 1 - a + 1 /\ a + (n + 1) - 1 = b + 1
  OBVIOUS
<1> HIDE DEF t, u, n
<1>4. /\ Append(t, s[b + 1]) \in Seq(S) /\ Len(Append(t, s[b + 1])) = n + 1
      /\ \A k \in 1 .. n : Append(t, s[b + 1])[k] = s[a + k - 1]
      /\ Append(t, s[b + 1])[n + 1] = s[b + 1]
  BY <1>1, <1>2
<1>6. ASSUME NEW k \in 1 .. n + 1 PROVE Append(t, s[b + 1])[k] = u[k]
  <2>1. k \in 1 .. n \/ k = n + 1
    BY <1>1
  <2>2. u[k] = s[a + k - 1]
    BY <1>3
  <2>3. CASE k \in 1 .. n
    BY <1>4, <2>2, <2>3
  <2>4. CASE k = n + 1
    BY <1>4, <1>8, <2>2, <2>4
  <2> QED
    BY <2>1, <2>3, <2>4
<1>7. Append(t, s[b + 1]) = u
  BY <1>3, <1>4, <1>6, SameSeqs
<1> QED
  BY <1>7 DEF t, u

LEMMA PairsOfStep ==
  ASSUME NEW p, ParserOK(p), NEW d \in Seq(Symbols), d # <<>>
  PROVE  LET run == Step(p, d).run IN Len(run) = 2 => run[1].name \in {"hdr_val", "body"}
<1>1. CASE p.state \notin BodyStates
  <2> DEFINE run == Step(p, d).run
  <2>1. Len(run) <= 1 \/ run[1].name = "hdr_val"
    BY <1>1, StepLittle DEF Little
  <2> HIDE DEF run
  <2>2. Len(run) = 2 => run[1].name = "hdr_val"
    BY <2>1
  <2> QED
    BY <2>2 DEF run
<1>2. CASE p.state \in BodyStates /\ ~Full(p)
  <2> DEFINE n == Taken(p, d)
             xs == SubSeq(d, 1, n)
             s == [Unread EXCEPT !.p = p]
  <2>1. n \in 0 .. Len(d) /\ Step(p, d).run = BodyHooks(p, xs)
    BY <1>2, BodyStep
  <2>2. xs \in Seq(Symbols)
    BY <2>1
  <2>3. IsView(s) /\ s.p = p
    BY DEF IsView, ViewFields, Unread
  <2> HIDE DEF xs, s
  <2>4. BodyHooks(p, xs)[1].name = "body"
    BY <2>2, <2>3, BodyAfter
  <2> QED
    BY <2>1, <2>4
<1>3. CASE Full(p)
  BY <1>3 DEF Step, Error, Go, Outcome
<1> QED
  BY <1>1, <1>2, <1>3

\* A round of the parser that went well.
LEMMA RoundWell ==
  ASSUME NEW s, IsView(s), s.ok, NEW ch, ~Step(s.p, <<ch>>).error, ~EndsRead(s.p, ch)
  PROVE  Round(s, ch) = After(Step(s.p, <<ch>>).run, [s EXCEPT !.p = Step(s.p, <<ch>>).p])
<1> DEFINE o == Step(s.p, <<ch>>)
           pp == o.p
           c == s.ok /\ ~o.error /\ ~EndsRead(s.p, ch)
<1>1. Round(s, ch) = After(o.run, [s EXCEPT !.p = pp, !.ok = c])
  BY DEF Round
<1>2. c = TRUE
  OBVIOUS
<1> HIDE DEF c, pp, o
<1>3. [s EXCEPT !.p = pp, !.ok = TRUE] = [s EXCEPT !.p = pp]
  <2>1. s.ok = TRUE
    BY DEF IsView
  <2> QED
    BY <2>1 DEF IsView, ViewFields
<1>4. Round(s, ch) = After(o.run, [s EXCEPT !.p = pp])
  BY <1>1, <1>2, <1>3
<1> QED
  BY <1>4 DEF pp, o

LEMMA BodyRound ==
  ASSUME NEW s, IsView(s), s.ok, ParserOK(s.p), s.p.state \in BodyStates, ~Full(s.p),
         s.p.content_len > 0, NEW ch \in Symbols
  PROVE  ~Stays_Put(s, ch) /\ Round(s, ch) = GotBody(s, <<ch>>) /\ TakeIn(s, ch) = GotBody(s, <<ch>>)
<1> DEFINE d == <<ch>>
           n == Taken(s.p, d)
           o == Step(s.p, d)
<1>1. d \in Seq(Symbols) /\ d # <<>> /\ Len(d) = 1
  OBVIOUS
<1>2. /\ n \in 0 .. 1 /\ n > 0
      /\ o.p = BodyParser(s.p, n) /\ o.used = n /\ ~o.error
      /\ o.run = BodyHooks(s.p, SubSeq(d, 1, n))
  BY <1>1, BodyStep
<1>3. n = 1 /\ SubSeq(d, 1, n) = d
  <2>1. n = 1
    BY <1>2
  <2>2. 1 \in 1 .. Len(d) /\ d[1] = ch
    BY <1>1
  <2>3. SubSeq(d, 1, 1) = <<d[1]>>
    <3> HIDE DEF d
    <3> QED
      BY <1>1, <2>2, PartOfOne
  <2> QED
    BY <2>1, <2>2, <2>3
<1>4. ~EndsRead(s.p, ch)
  BY DEF EndsRead, BodyStates
<1> HIDE DEF n, d
<1>5. o.p = BodyParser(s.p, Len(d)) /\ o.run = BodyHooks(s.p, d) /\ o.used = 1
  BY <1>1, <1>2, <1>3
<1>6. Round(s, ch) = After(o.run, [s EXCEPT !.p = o.p])
  BY <1>2, <1>4, RoundWell DEF d
<1>7. Round(s, ch) = GotBody(s, d)
  BY <1>1, <1>5, <1>6, BodyAfter
<1>8. ~Stays_Put(s, ch)
  BY <1>5 DEF Stays_Put, d
<1> QED
  BY <1>7, <1>8 DEF TakeIn, d

LEMMA AppendLater ==
  ASSUME NEW S, NEW s \in Seq(S), NEW t \in Seq(S), NEW x \in S
  PROVE  (s \o t) \o <<x>> = s \o Append(t, x)
<1> DEFINE a == s \o t
           u == a \o <<x>>
           v == s \o Append(t, x)
           m == Len(s)
           n == Len(t)
<1>1. <<x>> \in Seq(S) /\ Len(<<x>>) = 1 /\ <<x>>[1] = x
  OBVIOUS
<1>2. m \in Nat /\ n \in Nat
  OBVIOUS
<1>3. a \in Seq(S) /\ Len(a) = m + n
      /\ \A k \in 1 .. m + n : a[k] = IF k <= m THEN s[k] ELSE t[k - m]
  OBVIOUS
<1>4. u \in Seq(S) /\ Len(u) = m + n + 1
      /\ \A k \in 1 .. m + n + 1 : u[k] = IF k <= m + n THEN a[k] ELSE x
  <2> HIDE DEF a, m, n
  <2> QED
    BY <1>1, <1>2, <1>3
<1>5. v \in Seq(S) /\ Len(v) = m + n + 1
      /\ \A k \in 1 .. m + n + 1 : v[k] = IF k <= m THEN s[k] ELSE Append(t, x)[k - m]
  OBVIOUS
<1>6. \A k \in 1 .. n + 1 : Append(t, x)[k] = IF k <= n THEN t[k] ELSE x
  OBVIOUS
<1> HIDE DEF a, u, v, m, n
<1>7. ASSUME NEW k \in 1 .. m + n + 1
      PROVE  u[k] = v[k]
  <2>1. CASE k <= m
    BY <1>2, <1>3, <1>4, <1>5, <2>1
  <2>2. CASE k > m /\ k <= m + n
    <3>1. k - m \in 1 .. n + 1 /\ k - m <= n /\ ~(k <= m) /\ k \in 1 .. m + n
      BY <1>2, <2>2
    <3>2. u[k] = a[k] /\ a[k] = t[k - m]
      BY <1>3, <1>4, <2>2, <3>1
    <3>3. v[k] = Append(t, x)[k - m] /\ Append(t, x)[k - m] = t[k - m]
      BY <1>5, <1>6, <3>1
    <3> QED
      BY <3>2, <3>3
  <2>3. CASE k = m + n + 1
    <3>1. k - m \in 1 .. n + 1 /\ ~(k - m <= n) /\ ~(k <= m) /\ ~(k <= m + n)
      BY <1>2, <2>3
    <3>2. u[k] = x
      BY <1>4, <3>1
    <3>3. v[k] = Append(t, x)[k - m] /\ Append(t, x)[k - m] = x
      BY <1>5, <1>6, <3>1
    <3> QED
      BY <3>2, <3>3
  <2> QED
    BY <1>2, <2>1, <2>2, <2>3
<1>8. u = v
  BY <1>4, <1>5, <1>7, SameSeqs
<1> QED
  BY <1>8 DEF a, u, v

LEMMA FewerLeft ==
  ASSUME NEW p, ParserOK(p), NEW a \in Nat
  PROVE  LET q == [p EXCEPT !.content_len = a]
         IN  ParserOK(q) /\ q.buf = p.buf /\ q.state = p.state /\ q.content_len = a
<1> DEFINE q == [p EXCEPT !.content_len = a]
<1>1. ParserOK(q) /\ q.buf = p.buf
  BY FieldOK, Zenon
<1>2. q.state = p.state /\ q.content_len = a
  BY DEF ParserOK, Parsers
<1> QED
  BY <1>1, <1>2

LEMMA MoreToCome ==
  ASSUME NEW p, ParserOK(p), NEW n \in Nat, n < p.content_len
  PROVE  BodyParser(p, n) = [p EXCEPT !.content_len = p.content_len - n]
<1> DEFINE a == p.content_len - n
<1>1. p.content_len # n /\ p \in Parsers
  BY DEF ParserOK, Parsers
<1>2. BodyParser(p, n) = [p EXCEPT !.content_len = a, !.state = p.state]
  BY <1>1 DEF BodyParser
<1> HIDE DEF a
<1>3. [p EXCEPT !.content_len = a, !.state = p.state] = [p EXCEPT !.content_len = a]
  BY <1>1 DEF Parsers
<1> QED
  BY <1>2, <1>3 DEF a

LEMMA NotFuller ==
  ASSUME NEW p, ~Full(p), NEW q, q.buf = p.buf
  PROVE  ~Full(q)
BY DEF Full

LEMMA GotBodyMore ==
  ASSUME NEW s, IsView(s), s.ok, ParserOK(s.p), s.p.state \in BodyStates, ~Full(s.p),
         s.body \in Seq(Symbols), NEW xs \in Seq(Symbols), Len(xs) < s.p.content_len, NEW ch \in Symbols
  PROVE  TakeIn(GotBody(s, xs), ch) = GotBody(s, Append(xs, ch))
<1> DEFINE c == s.p.content_len
           m == Len(xs)
           q == BodyParser(s.p, m)
           b == s.body \o xs
           t == [s EXCEPT !.p = q, !.body = b]
           more == Append(xs, ch)
<1>1. c \in Nat /\ m \in Nat /\ m < c
  BY DEF ParserOK, Parsers
<1>2. BodyEnd(s.p, m) = <<>>
  BY <1>1 DEF BodyEnd
<1>3. GotBody(s, xs) = t
  <2>1. GotBody(s, xs) = After(<<>>, t)
    BY <1>2 DEF GotBody
  <2> HIDE DEF t
  <2> QED
    BY <2>1 DEF After
<1>4. q = [s.p EXCEPT !.content_len = c - m]
  BY <1>1, MoreToCome, Zenon
<1>5. ParserOK(q) /\ q.buf = s.p.buf /\ q.state = s.p.state /\ q.content_len = c - m
  <2>1. c - m \in Nat
    BY <1>1
  <2> DEFINE a == c - m
  <2>2. a \in Nat /\ q = [s.p EXCEPT !.content_len = a]
    BY <1>4, <2>1
  <2> HIDE DEF a, q
  <2>3. ParserOK(q) /\ q.buf = s.p.buf /\ q.state = s.p.state /\ q.content_len = a
    BY <2>2, FewerLeft, Zenon
  <2> QED
    BY <2>3 DEF a
<1>6. more \in Seq(Symbols) /\ Len(more) = m + 1 /\ b \o <<ch>> = s.body \o more
  <2>1. more \in Seq(Symbols) /\ Len(more) = m + 1
    OBVIOUS
  <2>2. b \o <<ch>> = s.body \o more
    <3> DEFINE body == s.body
    <3>1. body \in Seq(Symbols)
      OBVIOUS
    <3> HIDE DEF body
    <3>2. (body \o xs) \o <<ch>> = body \o Append(xs, ch)
      BY <3>1, AppendLater
    <3> QED
      BY <3>2 DEF body
  <2> QED
    BY <2>1, <2>2
<1>7. IsView(t) /\ t.ok /\ t.p = q /\ t.body = b
  BY DEF IsView, ViewFields
<1>8. ~Full(q)
  BY <1>5, NotFuller, Zenon
<1>9. TakeIn(t, ch) = GotBody(t, <<ch>>)
  <2>1. /\ IsView(t) /\ t.ok /\ ParserOK(t.p) /\ t.p.state \in BodyStates
        /\ ~Full(t.p) /\ t.p.content_len = c - m
    BY <1>5, <1>7, <1>8
  <2>2. c - m > 0
    BY <1>1
  <2>3. t.p.content_len > 0
    BY <2>1, <2>2
  <2> HIDE DEF t
  <2> QED
    BY <2>1, <2>3, BodyRound
<1>10. BodyParser(q, 1) = BodyParser(s.p, m + 1)
  <2>1. NextOf(q) = NextOf(s.p)
    BY <1>5 DEF NextOf
  <2>2. q.content_len - 1 = c - (m + 1) /\ (q.content_len = 1 <=> c = m + 1)
    BY <1>1, <1>5
  <2> DEFINE p == s.p
             a == c - (m + 1)
             state == IF c = m + 1 THEN NextOf(p) ELSE p.state
  <2>3. BodyParser(p, m + 1) = [p EXCEPT !.content_len = a, !.state = state]
    BY DEF BodyParser
  <2>4. BodyParser(q, 1) = [q EXCEPT !.content_len = a, !.state = state]
    <3> HIDE DEF q
    <3> QED
      BY <1>5, <2>1, <2>2 DEF BodyParser
  <2>5. q = [p EXCEPT !.content_len = c - m] /\ p \in Parsers
    BY <1>4 DEF ParserOK
  <2> HIDE DEF p, a, state, q
  <2>6. [q EXCEPT !.content_len = a, !.state = state] = [p EXCEPT !.content_len = a, !.state = state]
    BY <2>5 DEF Parsers
  <2> QED
    BY <2>3, <2>4, <2>6 DEF p
<1>11. BodyEnd(q, 1) = BodyEnd(s.p, m + 1)
  BY <1>1, <1>5 DEF BodyEnd, EndOf
<1>12. GotBody(t, <<ch>>) = After(BodyEnd(q, 1), [t EXCEPT !.p = BodyParser(q, 1), !.body = b \o <<ch>>])
  BY <1>7 DEF GotBody
<1>13. GotBody(s, more) = After(BodyEnd(s.p, m + 1), [s EXCEPT !.p = BodyParser(s.p, m + 1), !.body = s.body \o more])
  BY <1>6 DEF GotBody
<1> DEFINE q2 == BodyParser(s.p, m + 1)
           b2 == s.body \o more
<1> HIDE DEF q, b, more, q2, b2
<1>14. [t EXCEPT !.p = q2, !.body = b2] = [s EXCEPT !.p = q2, !.body = b2]
  BY DEF IsView, ViewFields
<1> QED
  BY <1>3, <1>6, <1>9, <1>10, <1>11, <1>12, <1>13, <1>14 DEF q2, b2, more

LEMMA BodyReading ==
  ASSUME NEW text \in Seq(Symbols), NEW i \in Nat, i < Len(text),
         NEW s, IsView(s), s.ok, ParserOK(s.p), s.p.state \in BodyStates, ~Full(s.p),
         s.body \in Seq(Symbols), Reading(text)[i + 1] = GotBody(s, <<text[i + 1]>>),
         NEW m \in Nat, m > 0, m <= s.p.content_len, i + m <= Len(text)
  PROVE  Reading(text)[i + m] = GotBody(s, SubSeq(text, i + 1, i + m))
<1> DEFINE Part(k) == SubSeq(text, i + 1, i + k)
           S == {k \in Nat : k + 1 <= m => Reading(text)[i + k + 1] = GotBody(s, Part(k + 1))}
<1>1. 0 \in S
  <2> DEFINE a == i + 1
  <2>2. a \in 1 .. Len(text)
    OBVIOUS
  <2> HIDE DEF a
  <2>3. SubSeq(text, a, a) = <<text[a]>>
    BY <2>2, PartOfOne
  <2>1. Part(1) = <<text[i + 1]>>
    BY <2>3 DEF a
  <2> HIDE DEF Part
  <2> QED
    BY <2>1
<1>2. ASSUME NEW k \in Nat, k \in S PROVE k + 1 \in S
  <2> HIDE DEF S
  <2>8. (k + 1) + 1 = k + 2 /\ i + (k + 1) + 1 = i + k + 2 /\ k + 1 \in Nat
    OBVIOUS
  <2> SUFFICES ASSUME k + 2 <= m
               PROVE  Reading(text)[i + k + 2] = GotBody(s, Part(k + 2))
    <3> HIDE DEF Part
    <3> QED
      BY <2>8 DEF S
  <2> DEFINE xs == Part(k + 1)
             j == i + k + 2
             ch == text[j]
  <2>1. s.p.content_len \in Nat
    BY DEF ParserOK, Parsers
  <2>2. xs \in Seq(Symbols) /\ Len(xs) = k + 1 /\ k + 1 < s.p.content_len
    BY <2>1, PartIs
  <2>3. j \in 1 .. Len(text) /\ j - 1 = i + k + 1 /\ ch \in Symbols
    OBVIOUS
  <2>4. Reading(text)[j - 1] = GotBody(s, xs)
    <3>1. k + 1 <= m
      OBVIOUS
    <3> QED
      BY <1>2, <2>3, <3>1 DEF S
  <2>5. Reading(text)[j] = TakeIn(GotBody(s, xs), ch)
    BY <2>3, <2>4, ReadingFacts
  <2>6. Append(xs, ch) = Part(k + 2)
    <3> DEFINE a == i + 1
               b == i + k + 1
    <3>1. a \in Nat /\ a > 0 /\ b \in Nat /\ b < Len(text) /\ a <= b + 1
      OBVIOUS
    <3>2. b + 1 = j /\ i + (k + 1) = b /\ i + (k + 2) = j
      OBVIOUS
    <3> HIDE DEF a, b
    <3>3. Append(SubSeq(text, a, b), text[b + 1]) = SubSeq(text, a, b + 1)
      BY <3>1, PartOfMore
    <3> QED
      BY <3>2, <3>3 DEF a
  <2> HIDE DEF Part, xs, ch
  <2>7. TakeIn(GotBody(s, xs), ch) = GotBody(s, Append(xs, ch))
    BY <2>2, <2>3, GotBodyMore
  <2> QED
    BY <2>5, <2>6, <2>7
<1>3. m - 1 \in S
  <2> HIDE DEF S
  <2>1. m - 1 \in Nat
    OBVIOUS
  <2> QED
    BY <1>1, <1>2, <2>1, StepByStep
<1>4. (m - 1) + 1 = m /\ i + (m - 1) + 1 = i + m
  OBVIOUS
<1> QED
  BY <1>3, <1>4

-----------------------------------------------------------------------------
(* A read goes on with the message, wherever it was cut.                   *)

LEMMA PartOfPart ==
  ASSUME NEW S, NEW s \in Seq(S), NEW i \in Nat, NEW j \in Nat, i + j <= Len(s)
  PROVE  /\ SubSeq(SubSeq(s, i + 1, Len(s)), 1, j) = SubSeq(s, i + 1, i + j)
         /\ SubSeq(SubSeq(s, i + 1, Len(s)), j + 1, Len(s) - i) = SubSeq(s, i + j + 1, Len(s))
         /\ Len(SubSeq(s, i + 1, Len(s))) = Len(s) - i
<1> DEFINE t == SubSeq(s, i + 1, Len(s))
           m == Len(s) - i
           a == SubSeq(t, 1, j)
           b == SubSeq(s, i + 1, i + j)
           e == SubSeq(t, j + 1, m)
           f == SubSeq(s, i + j + 1, Len(s))
<1>1. m \in Nat /\ j <= m /\ Len(s) = m + i
  OBVIOUS
<1>2. t \in Seq(S) /\ Len(t) = m /\ \A k \in 1 .. m : t[k] = s[i + k]
  OBVIOUS
<1>4. b \in Seq(S) /\ Len(b) = j /\ \A k \in 1 .. j : b[k] = s[i + k]
  OBVIOUS
<1>6. f \in Seq(S) /\ Len(f) = m - j /\ \A k \in 1 .. m - j : f[k] = s[i + j + k]
  OBVIOUS
<1> HIDE DEF t, m
<1>3. a \in Seq(S) /\ Len(a) = j /\ \A k \in 1 .. j : a[k] = t[k]
  BY <1>1, <1>2
<1>5. e \in Seq(S) /\ Len(e) = m - j /\ \A k \in 1 .. m - j : e[k] = t[j + k]
  BY <1>1, <1>2
<1> HIDE DEF a, b, e, f
<1>7. \A k \in 1 .. j : a[k] = b[k]
  BY <1>1, <1>2, <1>3, <1>4
<1>8. a = b
  BY <1>3, <1>4, <1>7, SameSeqs
<1>9. \A k \in 1 .. m - j : j + k \in 1 .. m /\ i + (j + k) = i + j + k
  BY <1>1
<1>10. \A k \in 1 .. m - j : e[k] = f[k]
  BY <1>2, <1>5, <1>6, <1>9
<1>11. e = f
  BY <1>5, <1>6, <1>10, SameSeqs
<1> QED
  BY <1>2, <1>8, <1>11 DEF a, b, e, f, t, m

LEMMA FullStops ==
  ASSUME NEW p, Full(p), NEW d
  PROVE  Step(p, d).error /\ Step(p, d).used = 1
BY DEF Step, Error, Go, Outcome

LEMMA ReaderStep ==
  ASSUME NEW text \in Seq(Symbols), NEW i \in Nat, i < Len(text),
         NEW s, IsView(s), s.ok, ParserOK(s.p), s.body \in Seq(Symbols),
         ~Stays_Put(s, text[i + 1]), Round(s, text[i + 1]) = Reading(text)[i + 1],
         Reading(text)[i + 1].ok,
         NEW n \in Nat, n > 0, i + n <= Len(text)
  PROVE  LET o == Step(s.p, SubSeq(text, i + 1, i + n))
         IN  /\ ~o.error /\ ~EndsRead(s.p, text[i + 1]) /\ o.used \in 1 .. n
             /\ After(o.run, [s EXCEPT !.p = o.p]) = Reading(text)[i + o.used]
<1> DEFINE ch == text[i + 1]
           d == SubSeq(text, i + 1, i + n)
           o == Step(s.p, d)
           one == Step(s.p, <<ch>>)
<1>1. d \in Seq(Symbols) /\ Len(d) = n /\ d # <<>> /\ Head(d) = ch /\ ch \in Symbols
  OBVIOUS
<1>2. <<ch>> \in Seq(Symbols) /\ <<ch>> # <<>> /\ Len(<<ch>>) = 1
  BY <1>1
<1>3. ~one.error /\ ~EndsRead(s.p, ch)
  BY RoundView
<1>4. Reading(text)[i + 1] = After(one.run, [s EXCEPT !.p = one.p])
  BY <1>3, RoundWell
<1> HIDE DEF d, ch
<1>5. CASE s.p.state \notin BodyStates
  <2>1. o = one /\ Little(o)
    BY <1>1, <1>5, StepLittle
  <2>2. o.used = 1
    BY <2>1 DEF Little, Stays_Put, ch
  <2>3. o.used \in 1 .. n /\ i + o.used = i + 1
    BY <2>2
  <2> HIDE DEF o, one
  <2>4. ~o.error /\ After(o.run, [s EXCEPT !.p = o.p]) = Reading(text)[i + o.used]
    BY <1>3, <1>4, <2>1, <2>3
  <2> QED
    BY <1>3, <2>3, <2>4 DEF o, d, ch
<1>6. CASE s.p.state \in BodyStates
  <2>1. ~Full(s.p)
    BY <1>3, FullStops
  <2> DEFINE c == s.p.content_len
  <2>2. c \in Nat
    BY DEF ParserOK, Parsers
  <2>3. c > 0
    <3>1. one.used = Taken(s.p, <<ch>>)
      BY <1>2, <1>6, <2>1, BodyStep
    <3>2. one.used # 0
      BY DEF Stays_Put, ch
    <3> QED
      BY <1>2, <2>2, <3>1, <3>2 DEF Taken
  <2>4. Reading(text)[i + 1] = GotBody(s, <<ch>>)
    BY <1>1, <1>6, <2>1, <2>3, BodyRound DEF ch
  <2> DEFINE m == Taken(s.p, d)
  <2>5. /\ m \in 0 .. n /\ m <= c /\ m > 0
        /\ o.p = BodyParser(s.p, m) /\ o.used = m /\ ~o.error
        /\ o.run = BodyHooks(s.p, SubSeq(d, 1, m))
    BY <1>1, <1>6, <2>1, <2>3, BodyStep
  <2> HIDE DEF m, c, o
  <2>6. m \in Nat /\ i + m <= Len(text) /\ m \in 1 .. n
    BY <2>5
  <2> DEFINE xs == SubSeq(text, i + 1, i + m)
  <2>7. xs \in Seq(Symbols) /\ Len(xs) = m
    BY <2>6, PartIs
  <2>8. SubSeq(d, 1, m) = xs
    <3>1. \A k \in 1 .. m : SubSeq(d, 1, m)[k] = text[i + k] /\ xs[k] = text[i + k]
      BY <2>6 DEF d
    <3>2. SubSeq(d, 1, m) \in Seq(Symbols) /\ Len(SubSeq(d, 1, m)) = m
      BY <1>1, <2>6
    <3> QED
      BY <2>7, <3>1, <3>2, SameSeqs
  <2>9. Reading(text)[i + m] = GotBody(s, xs)
    BY <1>6, <2>1, <2>4, <2>5, <2>6, BodyReading DEF c, ch
  <2> HIDE DEF xs
  <2>10. After(o.run, [s EXCEPT !.p = o.p]) = GotBody(s, xs)
    BY <2>5, <2>7, <2>8, BodyAfter
  <2> QED
    BY <1>3, <2>5, <2>6, <2>9, <2>10 DEF o, d, ch
<1> QED
  BY <1>5, <1>6

\* A symbol that stays put is used by a second round.
LEMMA TwoRounds ==
  ASSUME NEW s, IsView(s), NEW ch, Stays_Put(s, ch), TakeIn(s, ch).ok
  PROVE  /\ Step(s.p, <<ch>>).run = <<>> /\ ~Stays_Put(Round(s, ch), ch)
         /\ Round(s, ch).ok /\ IsView(Round(s, ch))
         /\ TakeIn(s, ch) = Round(Round(s, ch), ch)
<1> DEFINE t == Round(s, ch)
           u == Round(t, ch)
           b == Step(s.p, <<ch>>).run = <<>> /\ ~Stays_Put(t, ch)
           c == u.ok /\ b
<1>1. IsView(t) /\ IsView(u) /\ (u.ok => t.ok)
  BY RoundView
<1>2. TakeIn(s, ch) = [u EXCEPT !.ok = c]
  BY DEF TakeIn
<1>3. (c => u.ok /\ b) /\ (b => Step(s.p, <<ch>>).run = <<>> /\ ~Stays_Put(t, ch))
  OBVIOUS
<1>4. u.ok \in BOOLEAN
  BY <1>1 DEF IsView
<1>5. c => c = TRUE
  OBVIOUS
<1> HIDE DEF b, c, u, t
<1>6. TakeIn(s, ch).ok = c
  BY <1>1, <1>2 DEF IsView, ViewFields
<1>7. u.ok = TRUE /\ c = TRUE /\ b
  BY <1>3, <1>4, <1>5, <1>6
<1>8. [u EXCEPT !.ok = TRUE] = u
  BY <1>1, <1>7 DEF IsView, ViewFields
<1>9. TakeIn(s, ch) = u
  BY <1>2, <1>7, <1>8
<1> QED
  BY <1>1, <1>3, <1>7, <1>9 DEF u, t

\* The first of these rounds.
LEMMA StayingStep ==
  ASSUME NEW s, IsView(s), s.ok, ParserOK(s.p), NEW ch \in Symbols,
         Stays_Put(s, ch), TakeIn(s, ch).ok,
         NEW d \in Seq(Symbols), d # <<>>, Head(d) = ch
  PROVE  LET o == Step(s.p, d)
         IN  /\ ~o.error /\ ~EndsRead(s.p, ch) /\ o.used = 0 /\ o.run = <<>>
             /\ [s EXCEPT !.p = o.p] = Round(s, ch)
<1> DEFINE one == Step(s.p, <<ch>>)
           o == Step(s.p, d)
           t == Round(s, ch)
<1>1. <<ch>> \in Seq(Symbols) /\ <<ch>> # <<>>
  OBVIOUS
<1>2. one.run = <<>> /\ t.ok
  BY TwoRounds
<1>3. ~one.error /\ ~EndsRead(s.p, ch)
  BY <1>2, RoundView
<1>4. one.used = 0
  BY DEF Stays_Put
<1>5. s.p.state \notin BodyStates
  <2> SUFFICES ASSUME s.p.state \in BodyStates PROVE FALSE
    OBVIOUS
  <2>1. ~Full(s.p)
    BY <1>4, FullStops
  <2>2. one.run = BodyHooks(s.p, SubSeq(<<ch>>, 1, Taken(s.p, <<ch>>))) /\ Taken(s.p, <<ch>>) \in 0 .. Len(<<ch>>)
    BY <1>1, <2>1, BodyStep
  <2> DEFINE xs == SubSeq(<<ch>>, 1, Taken(s.p, <<ch>>))
  <2>3. xs \in Seq(Symbols)
    BY <1>1, <2>2
  <2> HIDE DEF xs
  <2>4. BodyHooks(s.p, xs) # <<>>
    BY <2>3, BodyAfter
  <2> QED
    BY <1>2, <2>2, <2>4 DEF xs
<1>6. o = one
  BY <1>5, StepLittle
<1>7. t = [s EXCEPT !.p = one.p]
  <2>1. t = After(one.run, [s EXCEPT !.p = one.p])
    BY <1>3, RoundWell
  <2> QED
    BY <1>2, <2>1 DEF After
<1> QED
  BY <1>2, <1>3, <1>4, <1>6, <1>7

LEMMA Counts ==
  ASSUME HttpInv
  PROVE  /\ Len(sent) \in Nat /\ Len(Answers) \in Nat
         /\ Outstanding => sent # <<>> /\ Len(sent) \in Nat \ {0}
<1>1. IsList(got) /\ sent \in Seq(Questions)
  BY DEF HttpInv, InputInv, ReplyInv
<1>2. Len(Answers) \in Nat /\ Len(sent) \in Nat
  BY <1>1, LastOfList DEF Answers
<1>3. Outstanding => Len(sent) # 0
  BY <1>2 DEF Outstanding
<1>4. Outstanding => sent # <<>>
  BY <1>3
<1> QED
  BY <1>2, <1>3, <1>4

\* A good message, symbol by symbol.
LEMMA ReadingWell ==
  ASSUME HttpInv, Talking, sent # <<>>
  PROVE  /\ Asked.text \in Seq(Symbols) /\ Len(Asked.text) \in Nat
         /\ \A i \in 0 .. Len(Asked.text) :
               /\ IsView(Reading(Asked.text)[i]) /\ Reading(Asked.text)[i].ok
               /\ Reading(Asked.text)[i].over <=> i = Len(Asked.text)
               /\ Reading(Asked.text)[i].p.multipart => Asked.multipart
         /\ \A i \in 0 .. Len(Asked.text) - 1 :
               Reading(Asked.text)[i + 1] = TakeIn(Reading(Asked.text)[i], Asked.text[i + 1])
<1>1. Asked.text \in Seq(Symbols) /\ Understood(Asked)
  BY AskedIs
<1>2. Len(Asked.text) \in Nat
  BY <1>1
<1>3. \A i \in 0 .. Len(Asked.text) - 1 :
               Reading(Asked.text)[i + 1] = TakeIn(Reading(Asked.text)[i], Asked.text[i + 1])
  <2> TAKE i \in 0 .. Len(Asked.text) - 1
  <2>1. i + 1 \in 1 .. Len(Asked.text) /\ (i + 1) - 1 = i
    BY <1>2
  <2> QED
    BY <1>2, <2>1, ReadingFacts
<1>4. \A i \in 0 .. Len(Asked.text) : IsView(Reading(Asked.text)[i])
  BY <1>2, ReadingViews
<1>5. \A i \in 0 .. Len(Asked.text) :
               /\ Reading(Asked.text)[i].ok
               /\ Reading(Asked.text)[i].over <=> i = Len(Asked.text)
               /\ Reading(Asked.text)[i].p.multipart => Asked.multipart
  BY <1>1 DEF Understood
<1> QED
  BY <1>1, <1>2, <1>3, <1>4, <1>5

LEMMA NowBody ==
  ASSUME HttpInv
  PROVE  ParserOK(Now.p) /\ Now.body \in Seq(Symbols)
<1>1. ParserOK(Now.p)
  BY NowView DEF HttpInv, InputInv
<1>2. CASE Served
  <2>1. request.body \in Seq(Symbols)
    BY <1>2 DEF HttpInv, RequestInv, Served, IsRequest
  <2>2. Known(request, parser, httpx).body = request.body
    BY DEF Known
  <2> QED
    BY <1>1, <1>2, <2>1, <2>2 DEF Now
<1>3. CASE ~Served
  <2>1. [Unread EXCEPT !.p = parser, !.host = httpx].body = <<>>
    BY DEF Unread
  <2>2. <<>> \in Seq(Symbols)
    OBVIOUS
  <2> QED
    BY <1>1, <1>3, <2>1, <2>2 DEF Now
<1> QED
  BY <1>1, <1>2, <1>3

\* What a round o of the parser makes of a reader s that read i symbols, and
\* may have been r before a first round.
GoesOnReading(text, i, r, s, n, o) ==
  /\ ~o.error /\ ~EndsRead(s.p, text[i + 1]) /\ o.used \in 0 .. n
  /\ \/ o.used > 0 /\ After(o.run, [s EXCEPT !.p = o.p]) = Reading(text)[i + o.used]
     \/ /\ o.used = 0 /\ o.run = <<>> /\ Stays_Put(r, text[i + 1])
        /\ [s EXCEPT !.p = o.p] = Round(r, text[i + 1])

LEMMA Rounds ==
  ASSUME NEW text \in Seq(Symbols), NEW i \in Nat, i < Len(text),
         NEW s, IsView(s), s.ok, ParserOK(s.p), s.body \in Seq(Symbols),
         NEW r, IsView(r), r.ok,
         TakeIn(r, text[i + 1]) = Reading(text)[i + 1], Reading(text)[i + 1].ok,
         s = r \/ (Stays_Put(r, text[i + 1]) /\ s = Round(r, text[i + 1])),
         NEW n \in Nat, n > 0, i + n <= Len(text)
  PROVE  GoesOnReading(text, i, r, s, n, Step(s.p, SubSeq(text, i + 1, i + n)))
<1> DEFINE d == SubSeq(text, i + 1, i + n)
           o == Step(s.p, d)
           ch == text[i + 1]
<1>1. d \in Seq(Symbols) /\ d # <<>> /\ Head(d) = ch /\ ch \in Symbols
  OBVIOUS
<1> HIDE DEF ch
<1>2. CASE s = r /\ Stays_Put(r, ch)
  <2>1. TakeIn(s, ch).ok /\ Stays_Put(s, ch)
    BY <1>2 DEF ch
  <2>2. /\ ~o.error /\ ~EndsRead(s.p, ch) /\ o.used = 0 /\ o.run = <<>>
        /\ [s EXCEPT !.p = o.p] = Round(s, ch)
    <3> HIDE DEF d
    <3> QED
      BY <1>1, <2>1, StayingStep
  <2>3. o.used \in 0 .. n
    BY <2>2
  <2> HIDE DEF o
  <2>4. GoesOnReading(text, i, r, s, n, o)
    BY <1>2, <2>2, <2>3 DEF GoesOnReading, ch
  <2> QED
    BY <2>4 DEF o
<1>3. CASE ~Stays_Put(s, ch) /\ Round(s, ch) = Reading(text)[i + 1]
  <2>1. ~Stays_Put(s, text[i + 1]) /\ Round(s, text[i + 1]) = Reading(text)[i + 1]
    BY <1>3 DEF ch
  <2>2. /\ ~o.error /\ ~EndsRead(s.p, text[i + 1]) /\ o.used \in 1 .. n
        /\ After(o.run, [s EXCEPT !.p = o.p]) = Reading(text)[i + o.used]
    BY <2>1, ReaderStep
  <2> HIDE DEF o
  <2>3. o.used \in 0 .. n /\ o.used > 0
    BY <2>2
  <2>4. GoesOnReading(text, i, r, s, n, o)
    BY <2>2, <2>3 DEF GoesOnReading
  <2> QED
    BY <2>4 DEF o
<1>4. CASE s = r /\ ~Stays_Put(r, ch)
  BY <1>3, <1>4 DEF TakeIn, ch
<1>5. CASE Stays_Put(r, ch) /\ s = Round(r, ch)
  <2>0. TakeIn(r, ch).ok
    BY DEF ch
  <2>1. ~Stays_Put(s, ch) /\ TakeIn(r, ch) = Round(s, ch)
    BY <1>5, <2>0, TwoRounds
  <2> QED
    BY <1>3, <2>1 DEF ch
<1> QED
  BY <1>2, <1>4, <1>5 DEF ch

LEMMA KnownMoves ==
  ASSUME NEW r, NEW p, NEW host, NEW q
  PROVE  Known(r, q, host) = [Known(r, p, host) EXCEPT !.p = q]
<1> DEFINE s == Known(r, q, host)
           k == Known(r, p, host)
           t == [k EXCEPT !.p = q]
<1>1. IsView(s) /\ IsView(k)
  BY KnownView
<1>2. IsView(t)
  <2> HIDE DEF k
  <2> QED
    BY <1>1 DEF IsView, ViewFields
<1>3. /\ s.p = t.p /\ s.host = t.host /\ s.on = t.on /\ s.path = t.path /\ s.args = t.args
      /\ s.body = t.body /\ s.headers = t.headers /\ s.cb = t.cb /\ s.keep = t.keep
      /\ s.over = t.over /\ s.ok = t.ok
  BY DEF Known
<1> HIDE DEF s, t
<1>4. s = t
  BY <1>1, <1>2, <1>3, SameViews
<1> QED
  BY <1>4 DEF s, t

LEMMA NowMoves ==
  ASSUME NEW q, parser' = q, UNCHANGED <<request, httpx>>
  PROVE  Now' = [Now EXCEPT !.p = q]
<1>1. Served' <=> Served
  BY DEF Served
<1>2. CASE Served
  <2>1. Now' = Known(request, q, httpx) /\ Now = Known(request, parser, httpx)
    BY <1>1, <1>2 DEF Now
  <2>2. Known(request, q, httpx) = [Known(request, parser, httpx) EXCEPT !.p = q]
    BY KnownMoves
  <2> QED
    BY <2>1, <2>2
<1>3. CASE ~Served
  <2>1. Now' = [Unread EXCEPT !.p = q, !.host = httpx] /\ Now = [Unread EXCEPT !.p = parser, !.host = httpx]
    BY <1>1, <1>3 DEF Now
  <2>2. [Unread EXCEPT !.p = q, !.host = httpx] = [[Unread EXCEPT !.p = parser, !.host = httpx] EXCEPT !.p = q]
    BY DEF Unread
  <2> QED
    BY <2>1, <2>2
<1> QED
  BY <1>2, <1>3

\* The round of a read, wherever the read ends.
LEMMA RunTalks ==
  ASSUME HttpInv, Talking, Run
  PROVE  Talking'
<1> DEFINE d == SubSeq(wire, 1, left)
           o == Step(parser, d)
           text == Asked.text
           R == Reading(text)
           n == Len(text)
<1>1. /\ at = "run" /\ todo = <<>> /\ left > 0
      /\ parser' = o.p /\ todo' = o.run /\ left' = left - o.used
      /\ wire' = SubSeq(wire, o.used + 1, Len(wire))
      /\ at' = IF o.error \/ EndsRead(parser, wire[1]) THEN "back" ELSE "run"
      /\ UNCHANGED <<request, out, httpx, begun, num_requests, late, sent, got, why>>
  BY DEF Run, counts, history
<1>2. wire \in Seq(Symbols) /\ left \in 1 .. Len(wire) /\ Len(wire) \in Nat
  BY <1>1 DEF HttpInv, InputInv
<1>3. BeingRead /\ sent # <<>>
  <2>1. wire # <<>>
    BY <1>2
  <2> QED
    BY <2>1, Counts DEF Talking, Idle, WasRead, BeingRead
<1>4. /\ text \in Seq(Symbols) /\ n \in Nat
      /\ \A i \in 0 .. n : IsView(R[i]) /\ R[i].ok
      /\ \A i \in 0 .. n - 1 : R[i + 1] = TakeIn(R[i], text[i + 1])
  BY <1>3, ReadingWell
<1>5. PICK i \in 0 .. n : AtSymbol(text, i)
  BY <1>3 DEF BeingRead
<1> DEFINE ch == text[i + 1]
<1>6. /\ Len(wire) = n - i /\ i < n /\ i + left <= n /\ wire[1] = ch /\ ch \in Symbols
      /\ d = SubSeq(text, i + 1, i + left)
      /\ \A u \in 0 .. left : SubSeq(wire, u + 1, Len(wire)) = SubSeq(text, i + u + 1, n)
  <2> HIDE DEF text
  <2>1. wire = SubSeq(text, i + 1, n)
    BY <1>5 DEF AtSymbol
  <2>2. Len(wire) = n - i
    BY <1>4, <2>1, PartIs
  <2>3. i < n /\ i + left <= n /\ left \in Nat
    BY <1>2, <1>4, <2>2
  <2>4. d = SubSeq(text, i + 1, i + left)
    BY <1>4, <2>1, <2>3, PartOfPart
  <2>5. \A u \in 0 .. left : SubSeq(wire, u + 1, Len(wire)) = SubSeq(text, i + u + 1, n)
    <3> TAKE u \in 0 .. left
    <3>1. u \in Nat /\ i + u <= n
      BY <1>4, <2>3
    <3> QED
      BY <1>4, <2>1, <2>2, <3>1, PartOfPart
  <2>6. wire[1] = ch /\ ch \in Symbols
    BY <1>4, <2>1, <2>3
  <2> QED
    BY <2>2, <2>3, <2>4, <2>5, <2>6
<1>7. After(todo, Now) = Now
  BY <1>1 DEF After
<1>8. /\ IsView(R[i]) /\ IsView(R[i + 1]) /\ R[i].ok /\ R[i + 1].ok /\ R[i + 1] = TakeIn(R[i], ch)
  BY <1>4, <1>6
<1>9. /\ IsView(Now) /\ Now.ok /\ Now.p = parser /\ ParserOK(Now.p) /\ Now.body \in Seq(Symbols)
  BY NowView, NowBody
<1>10. Now' = [Now EXCEPT !.p = o.p]
  <2> DEFINE q == o.p
  <2>1. parser' = q /\ UNCHANGED <<request, httpx>>
    BY <1>1
  <2> HIDE DEF q
  <2>2. Now' = [Now EXCEPT !.p = q]
    BY <2>1, NowMoves
  <2> QED
    BY <2>2 DEF q
<1>12. Asked' = Asked /\ Answers' = Answers
  BY <1>1 DEF Asked, Answers
<1>13. Now = R[i] \/ (Stays_Put(R[i], ch) /\ Now = Round(R[i], ch))
  BY <1>5, <1>7 DEF AtSymbol
<1>14. /\ ~o.error /\ ~EndsRead(parser, ch) /\ o.used \in 0 .. left
       /\ \/ o.used > 0 /\ After(o.run, [Now EXCEPT !.p = o.p]) = R[i + o.used]
          \/ /\ o.used = 0 /\ o.run = <<>> /\ Stays_Put(R[i], ch)
             /\ [Now EXCEPT !.p = o.p] = Round(R[i], ch)
  <2> DEFINE s == Now
             r == R[i]
  <2>1. /\ text \in Seq(Symbols) /\ i \in Nat /\ i < Len(text)
        /\ left \in Nat /\ left > 0 /\ i + left <= Len(text)
    BY <1>1, <1>2, <1>4, <1>6
  <2>2. /\ IsView(s) /\ s.ok /\ ParserOK(s.p) /\ s.body \in Seq(Symbols) /\ s.p = parser
        /\ IsView(r) /\ r.ok /\ R[i + 1].ok /\ TakeIn(r, text[i + 1]) = R[i + 1]
        /\ s = r \/ (Stays_Put(r, text[i + 1]) /\ s = Round(r, text[i + 1]))
    BY <1>8, <1>9, <1>13
  <2> HIDE DEF text, s, r
  <2>4. GoesOnReading(text, i, r, s, left, Step(s.p, SubSeq(text, i + 1, i + left)))
    BY <2>1, <2>2, Rounds
  <2>5. o = Step(s.p, SubSeq(text, i + 1, i + left))
    BY <1>6, <2>2 DEF text
  <2> HIDE DEF o
  <2>6. GoesOnReading(text, i, r, s, left, o)
    BY <2>4, <2>5
  <2> QED
    BY <2>2, <2>6 DEF s, r, GoesOnReading
<1>15. \E j \in 0 .. n :
         /\ wire' = SubSeq(text, j + 1, n)
         /\ \/ After(todo', Now') = R[j]
            \/ /\ j < n /\ left' > 0 /\ todo' = <<>>
               /\ Stays_Put(R[j], text[j + 1])
               /\ Now' = Round(R[j], text[j + 1])
  <2> DEFINE u == o.used
             run == o.run
             after == [Now EXCEPT !.p = o.p]
             next == Now'
  <2>1. /\ u \in 0 .. left /\ left' = left - u /\ todo' = run /\ next = after
        /\ wire' = SubSeq(wire, u + 1, Len(wire))
        /\ \/ u > 0 /\ After(run, after) = R[i + u]
           \/ u = 0 /\ run = <<>> /\ Stays_Put(R[i], ch) /\ after = Round(R[i], ch)
    BY <1>1, <1>10, <1>14
  <2> HIDE DEF o, R, d, text, ch, u, run, after, next
  <2>5. SubSeq(wire, u + 1, Len(wire)) = SubSeq(text, i + u + 1, n)
    BY <1>6, <2>1
  <2>6. i + u \in 0 .. n /\ i < n
    BY <1>2, <1>4, <1>6, <2>1
  <2>2. wire' = SubSeq(text, i + u + 1, n) /\ i + u \in 0 .. n /\ i < n
    BY <2>1, <2>5, <2>6
  <2>3. CASE u > 0 /\ After(run, after) = R[i + u]
    <3> DEFINE j == i + u
    <3>1. j \in 0 .. n /\ wire' = SubSeq(text, j + 1, n) /\ After(todo', next) = R[j]
      BY <2>1, <2>2, <2>3
    <3> HIDE DEF j
    <3> QED
      BY <3>1 DEF next
  <2>4. CASE u = 0 /\ run = <<>> /\ Stays_Put(R[i], ch) /\ after = Round(R[i], ch)
    <3>1. wire' = SubSeq(text, i + 1, n) /\ left' > 0 /\ todo' = <<>>
      BY <1>2, <2>1, <2>2, <2>4
    <3>2. next = Round(R[i], text[i + 1]) /\ Stays_Put(R[i], text[i + 1])
      BY <2>1, <2>4 DEF ch
    <3> QED
      BY <2>2, <3>1, <3>2 DEF next
  <2> QED
    BY <2>1, <2>3, <2>4
<1>16. at' = "run"
  BY <1>1, <1>6, <1>14
<1>17. BeingRead'
  <2>1. (\E j \in 0 .. Len(Asked.text) : AtSymbol(Asked.text, j))'
    BY <1>12, <1>15, <1>16 DEF AtSymbol
  <2> HIDE DEF text, o, d, R
  <2> QED
    BY <1>1, <1>3, <1>12, <2>1 DEF BeingRead, Outstanding, Served
<1> QED
  BY <1>1, <1>12, <1>16, <1>17 DEF Talking, Served

-----------------------------------------------------------------------------
(* Hooks run in pairs only after a value or a body.                        *)

LEMMA PairsPass ==
  ASSUME HttpInv, NEW ok, Continue(ok)
  PROVE  HooksInPairs'
<1>1. TodoOK(todo)
  BY DEF HttpInv, InputInv
<1>2. todo' = <<>> \/ todo' = Tail(todo)
  BY DEF Continue
<1>3. Len(<<>>) = 0
  OBVIOUS
<1>4. CASE todo = <<>>
  <2>1. Tail(<<>>) = <<>> \/ Len(Tail(<<>>)) # 2
    OBVIOUS
  <2> QED
    BY <1>2, <1>3, <1>4, <2>1 DEF HooksInPairs
<1>5. ASSUME NEW a, todo = <<a>> PROVE HooksInPairs'
  <2>1. Len(Tail(<<a>>)) = 0
    OBVIOUS
  <2> QED
    BY <1>2, <1>3, <1>5, <2>1 DEF HooksInPairs
<1>6. ASSUME NEW a, NEW b, todo = <<a, b>> PROVE HooksInPairs'
  <2>1. Len(Tail(<<a, b>>)) = 1
    OBVIOUS
  <2> QED
    BY <1>2, <1>3, <1>6, <2>1 DEF HooksInPairs
<1> QED
  BY <1>1, <1>4, <1>5, <1>6 DEF TodoOK

\* A run that is over leaves no hook behind.
LEMMA PairsOfNone == todo' = <<>> => HooksInPairs'
<1>1. Len(<<>>) = 0
  OBVIOUS
<1> QED
  BY <1>1 DEF HooksInPairs

LEMMA HooksPair ==
  ASSUME HttpInv, RunHook
  PROVE  HooksInPairs'
<1>1. ASSUME NEW hook, NEW req, UserHook(hook, req) PROVE HooksInPairs'
  BY <1>1, PairsPass DEF UserHook
<1>2. CASE UriIsNull
  BY <1>2, PairsOfNone DEF UriIsNull, Crash, Free
<1>3. CASE \/ request_parser_start \/ request_parser_args \/ request_parser_headers_start
           \/ request_parser_header_key \/ request_parser_chunks \/ request_parser_fini
  BY <1>3, PairsPass
  DEF request_parser_start, request_parser_args, request_parser_headers_start,
      request_parser_header_key, request_parser_chunks, request_parser_fini
<1>4. CASE \/ request_parser_path \/ request_parser_header_val \/ request_parser_hostname
           \/ request_parser_headers \/ request_parser_body
  BY <1>1, <1>4, PairsPass
  DEF request_parser_path, request_parser_header_val, request_parser_hostname,
      request_parser_headers, request_parser_body
<1> QED
  BY <1>2, <1>3, <1>4 DEF RunHook

LEMMA PairsKept ==
  ASSUME HttpInv, HooksInPairs, [Next]_vars
  PROVE  HooksInPairs'
<1>1. CASE Run
  <2> DEFINE d == SubSeq(wire, 1, left)
             run == Step(parser, d).run
  <2>1. todo' = run
    BY <1>1 DEF Run
  <2>2. ParserOK(parser) /\ d \in Seq(Symbols) /\ d # <<>>
    BY <1>1 DEF Run, HttpInv, InputInv
  <2> HIDE DEF d
  <2>3. Len(run) = 2 => run[1].name \in {"hdr_val", "body"}
    BY <2>2, PairsOfStep
  <2> HIDE DEF run
  <2> QED
    BY <2>1, <2>3 DEF HooksInPairs
<1>2. CASE RunHook
  BY <1>2, HooksPair
<1>3. CASE Leave \/ Fail \/ PeerGone
  BY <1>3, PairsOfNone DEF Leave, Fail, PeerGone, Close, Free
<1>4. CASE Drain
  <2>1. todo' = todo \/ todo' = <<>>
    BY <1>4 DEF Drain, Recycle, Close, Free
  <2> QED
    BY <2>1, PairsOfNone DEF HooksInPairs
<1>5. CASE Accept \/ Read \/ Back \/ Resume \/ Answer \/ (\E q \in Questions : Send(q)) \/ UNCHANGED vars
  <2>1. todo' = todo
    BY <1>5 DEF Accept, Read, Back, Resume, Answer, Send, vars, input
  <2> QED
    BY <2>1 DEF HooksInPairs
<1> QED
  BY <1>1, <1>2, <1>3, <1>4, <1>5 DEF Next, Loop, Finished, Waiting

-----------------------------------------------------------------------------
(* The end of a message.                                                   *)

LEMMA FiniSeen ==
  ASSUME NEW r, DOMAIN r = RequestFields, NEW p, NEW host, NEW h, h.name = "on_msg_complete",
         Seen(Known(r, p, host), h).ok
  PROVE  LET s == Seen(Known(r, p, host), h)
         IN  /\ r.path # NoPath
             /\ s.p = p /\ s.over /\ s.keep = r.keepalive
             /\ s.path = r.path /\ s.body = r.body /\ s.cb = r.cb
             /\ s.args = IF OfForm(Known(r, p, host)) THEN r.body ELSE r.args
<1> DEFINE k == Known(r, p, host)
           s == Seen(k, h)
           a == IF OfForm(k) THEN k.body ELSE k.args
           c == k.ok /\ k.path # NoPath
<1>1. s = [k EXCEPT !.args = a, !.over = TRUE, !.ok = c]
  BY DEF Seen
<1>2. /\ k.p = p /\ k.keep = r.keepalive /\ k.path = r.path /\ k.body = r.body
      /\ k.cb = r.cb /\ k.args = r.args
  BY DEF Known
<1>3. IsView(k) /\ (c => k.path # NoPath)
  BY KnownView
<1> HIDE DEF k, a, c
<1>4. /\ s.p = k.p /\ s.over = TRUE /\ s.keep = k.keep /\ s.path = k.path /\ s.body = k.body
      /\ s.cb = k.cb /\ s.args = a /\ s.ok = c
  BY <1>1, <1>3 DEF IsView, ViewFields
<1>5. c
  BY <1>4 DEF k
<1> HIDE DEF s
<1>6. /\ r.path # NoPath
      /\ s.p = p /\ s.over /\ s.keep = r.keepalive
      /\ s.path = r.path /\ s.body = r.body /\ s.cb = r.cb
      /\ s.args = IF OfForm(k) THEN r.body ELSE r.args
  BY <1>2, <1>3, <1>4, <1>5 DEF a
<1> QED
  BY <1>6 DEF s, k

\* The uri of a good message is never NULL where it is used.
LEMMA UriIsThere ==
  ASSUME HttpInv, Talking, UriIsNull
  PROVE  FALSE
<1>1. CASE Runs("args")
  <2> DEFINE h == todo[1]
  <2>1. /\ DOMAIN request = RequestFields /\ h.name = "args"
        /\ Seen(Known(request, parser, httpx), h).ok
    BY <1>1, HookKnows
  <2> HIDE DEF h
  <2>2. request.path # NoPath
    BY <2>1, ArgsSeen
  <2> QED
    BY <2>2 DEF UriIsNull
<1>2. CASE Runs("on_msg_complete")
  <2>1. request.path # NoPath
    BY <1>2, HookKnows, FiniSeen
  <2> QED
    BY <2>1 DEF UriIsNull
<1> QED
  BY <1>1, <1>2 DEF UriIsNull

\* What is known when a message is over is what was asked.
LEMMA FiniKnows ==
  ASSUME HttpInv, Talking, HooksInPairs, Runs("on_msg_complete"),
         NEW args, args = IF should_parse_query_body THEN request.body ELSE request.args
  PROVE  /\ todo' = Tail(todo) => todo' = <<>>
         /\ wire = <<>> /\ Outstanding
         /\ Meant([request EXCEPT !.args = args]) = Meant(Asked)
         /\ request.cb \in Answering => Asked.close \/ request.keepalive
         /\ parser.multipart => Asked.multipart
<1> DEFINE h == todo[1]
           text == Asked.text
           n == Len(text)
           s == Seen(Now, h)
<1>1. /\ Served /\ todo # <<>> /\ h.name = "on_msg_complete"
      /\ Now = Known(request, parser, httpx) /\ DOMAIN request = RequestFields /\ s.ok
  BY HookKnows
<1>2. BeingRead /\ sent # <<>> /\ Understood(Asked)
  BY <1>1, HookReads
<1>3. Tail(todo) = <<>>
  <2>1. Tail(todo) = <<>> \/ Len(todo) = 2
    BY <1>1, AfterTail DEF HttpInv, InputInv
  <2> QED
    BY <1>1, <2>1 DEF HooksInPairs
<1>4. After(todo, Now) = s
  BY <1>1, <1>3, HookReads DEF After
<1>5. PICK i \in 0 .. n : wire = SubSeq(text, i + 1, n) /\ Reading(text)[i] = s
  BY <1>1, <1>4, HookReads
<1>6. /\ text \in Seq(Symbols) /\ n \in Nat
      /\ Reading(text)[i].over <=> i = n
      /\ Reading(text)[i].p.multipart => Asked.multipart
  BY <1>2, ReadingWell
<1>7. /\ s.p = parser /\ s.over /\ s.keep = request.keepalive
      /\ s.path = request.path /\ s.body = request.body /\ s.cb = request.cb
      /\ s.args = IF OfForm(Now) THEN request.body ELSE request.args
  BY <1>1, FiniSeen
<1>8. i = n
  BY <1>5, <1>6, <1>7
<1>9. wire = <<>>
  <2> HIDE DEF text
  <2>1. SubSeq(text, n + 1, n) = <<>>
    BY <1>6
  <2> QED
    BY <1>5, <1>8, <2>1
<1>10. s.args = args
  <2>1. /\ Now.p = parser /\ Now.body = request.body /\ Now.headers = request.headers
    BY <1>1 DEF Known
  <2>2. OfForm(Now) <=> should_parse_query_body
    BY <2>1 DEF OfForm, should_parse_query_body
  <2> QED
    BY <1>7, <2>2
<1>11. Meant(s) = Meant(Asked) /\ (Asked.cb \in Answering => Asked.close \/ s.keep)
  BY <1>2, <1>5, <1>8 DEF Understood
<1> HIDE DEF s
<1>12. Meant([request EXCEPT !.args = args]) = Meant(s)
  BY <1>1, <1>7, <1>10 DEF Meant, RequestFields
<1>13. Asked.cb = request.cb
  BY <1>7, <1>11 DEF Meant
<1> QED
  BY <1>2, <1>3, <1>5, <1>6, <1>7, <1>8, <1>9, <1>11, <1>12, <1>13 DEF BeingRead

\* The last part of a reply, after others.
LEMMA LastAppended ==
  ASSUME NEW parts, IsList(parts), NoneLast(parts), NEW x, IsLast(x)
  PROVE  LET more == Append(parts, x)
         IN  /\ more # <<>> /\ more[Len(more)] = x
             /\ \A j \in 1 .. Len(more) - 1 : ~IsLast(more[j])
<1>1. /\ Len(parts) \in Nat /\ DOMAIN parts = 1 .. Len(parts)
      /\ Len(Append(parts, x)) = Len(parts) + 1
      /\ Append(parts, x)[Len(parts) + 1] = x
      /\ \A i \in 1 .. Len(parts) : Append(parts, x)[i] = parts[i]
      /\ Append(parts, x) # <<>>
  BY DEF IsList
<1> QED
  BY <1>1 DEF NoneLast

LEMMA FiniTalks ==
  ASSUME HttpInv, Talking, HooksInPairs, request_parser_fini
  PROVE  Talking'
<1> DEFINE args == IF should_parse_query_body THEN request.body ELSE request.args
           req == [request EXCEPT !.args = args]
           x == [Reply("full") EXCEPT !.args = args]
           y == [Reply("head") EXCEPT !.args = args]
<1>1. Runs("on_msg_complete") /\ Continue(TRUE)
      /\ UNCHANGED <<wire, parser, httpx, num_requests, begun, sent, got, why>>
  BY DEF request_parser_fini, counts, history
<1>2. /\ Served /\ todo # <<>> /\ DOMAIN request = RequestFields /\ begun = Len(sent) /\ NoneLast(out)
      /\ ~request.finished /\ request.status \in {"OK", "PAUSE"} /\ at = "run"
  BY <1>1, HookKnows DEF Runs
<1>3. todo' = Tail(todo) /\ at' = "run"
  BY <1>1, <1>2 DEF Continue
<1>4. /\ todo' = <<>> /\ wire = <<>> /\ Outstanding
      /\ Meant(req) = Meant(Asked)
      /\ request.cb \in Answering => Asked.close \/ request.keepalive
      /\ parser.multipart => Asked.multipart
  <2> HIDE DEF args
  <2>1. args = IF should_parse_query_body THEN request.body ELSE request.args
    BY DEF args
  <2> QED
    BY <1>1, <1>3, <2>1, FiniKnows
<1>5. late = {} /\ IsList(out)
  <2>1. BeingRead
    BY <1>2, HookReads
  <2> QED
    BY <2>1 DEF BeingRead, HttpInv, ReplyInv
<1>6. RunCallback(req)
  <2>1. RunCallback([request EXCEPT !.args = IF should_parse_query_body THEN request.body ELSE @])
    BY DEF request_parser_fini
  <2> QED
    BY <2>1
<1>7. /\ DOMAIN req = RequestFields /\ req.cb = request.cb /\ req.id = request.id /\ req.args = args
      /\ req.keepalive = request.keepalive /\ req.status = request.status /\ req.finished = request.finished
      /\ req.path = request.path /\ req.body = request.body
  BY <1>2 DEF RequestFields
<1>8. /\ IsLast(x) /\ Meant(x) = Meant(req)
      /\ ~IsLast(y)
  <2> HIDE DEF args
  <2>1. /\ x.part = "full" /\ x.path = request.path /\ x.args = args /\ x.body = request.body /\ x.cb = request.cb
        /\ y.part = "head"
    BY DEF Reply
  <2> HIDE DEF x, y, req
  <2> QED
    BY <1>7, <2>1 DEF IsLast, Meant
<1>9. Asked' = Asked /\ Answers' = Answers
  BY <1>1 DEF Asked, Answers
<1>10. \/ req.cb \in {"now", "default"} /\ request' = [req EXCEPT !.finished = TRUE]
          /\ out' = Append(out, x) /\ late' = late
       \/ req.cb \in {"later", "chunks"} /\ request' = req /\ late' = late \cup {req.id}
          /\ out' \in {out, Append(out, y)}
       \/ request' = req /\ late' = late /\ out' = out /\ req.cb \notin {"now", "default"}
  <2> HIDE DEF args
  <2>1. x = [Reply("full") EXCEPT !.args = req.args] /\ y = [Reply("head") EXCEPT !.args = req.args]
    BY <1>7
  <2> HIDE DEF x, y, req
  <2> QED
    BY <1>6, <2>1 DEF RunCallback
<1>11. /\ Meant(request') = Meant(req) /\ request'.status = req.status /\ request'.cb = req.cb
       /\ request'.id = req.id /\ request'.keepalive = req.keepalive /\ Served'
       /\ request'.finished <=> req.cb \in {"now", "default"} /\ request' = [req EXCEPT !.finished = TRUE]
  <2> HIDE DEF args, req
  <2>1. CASE request' = req
    <3>1. req # [req EXCEPT !.finished = TRUE]
      BY <1>2, <1>7 DEF RequestFields
    <3>2. req # NoRequest
      BY <1>7 DEF RequestFields, NoRequest
    <3> QED
      BY <1>2, <1>7, <2>1, <3>1, <3>2 DEF Served
  <2>2. CASE request' = [req EXCEPT !.finished = TRUE] /\ req.cb \in {"now", "default"}
    <3> DEFINE q == [req EXCEPT !.finished = TRUE]
    <3>1. /\ q.path = req.path /\ q.args = req.args /\ q.body = req.body /\ q.cb = req.cb
          /\ q.status = req.status /\ q.id = req.id /\ q.keepalive = req.keepalive
          /\ q.finished = TRUE /\ q # NoRequest
      BY <1>7 DEF RequestFields, NoRequest
    <3> HIDE DEF q
    <3> QED
      BY <2>2, <3>1 DEF Meant, Served, q
  <2> QED
    BY <1>10, <2>1, <2>2
<1> HIDE DEF args, req, x, y
<1>12. IF request'.finished THEN Replied' ELSE Unreplied'
  <2>1. CASE request'.finished
    <3>1. req.cb \in {"now", "default"} /\ out' = Append(out, x) /\ late' = {}
      BY <1>5, <1>10, <1>11, <2>1
    <3>2. out' # <<>> /\ out'[Len(out')] = x /\ \A j \in 1 .. Len(out') - 1 : ~IsLast(out'[j])
      BY <1>2, <1>5, <1>8, <3>1, LastAppended
    <3>3. (Meant(out[Len(out)]) = Meant(Asked))'
      BY <1>4, <1>8, <1>9, <3>2 DEF Meant
    <3>4. request'.cb \in Answering
      BY <1>11, <3>1 DEF Answering
    <3>5. (IsLast(out[Len(out)]) /\ \A j \in 1 .. Len(out) - 1 : ~IsLast(out[j]))'
      BY <1>8, <3>2 DEF IsLast
    <3>6. (out # <<>>)' /\ (late = {})' /\ (request.cb \in Answering)'
      BY <3>1, <3>2, <3>4 DEF Answering
    <3>7. Replied'
      BY <3>3, <3>5, <3>6 DEF Replied, Answering, Meant, IsLast
    <3> QED
      BY <2>1, <3>7
  <2>2. CASE ~request'.finished
    <3>0. out' = out \/ out' = Append(out, y)
      BY <1>10, <1>11, <2>2
    <3>4. NoneLast(Append(out, y))
      BY <1>2, <1>5, <1>8, NoneLastAppended
    <3>1. NoneLast(out')
      BY <1>2, <3>0, <3>4
    <3>2. late' \subseteq {request'.id} /\ (late' # {} => request'.cb \in {"later", "chunks"})
      BY <1>5, <1>10, <1>11, <2>2
    <3> QED
      BY <2>2, <3>1, <3>2 DEF Unreplied
  <2> QED
    BY <2>1, <2>2
<1>13. WasRead'
  BY <1>1, <1>2, <1>4, <1>7, <1>9, <1>11, <1>12 DEF WasRead, Outstanding
<1> QED
  BY <1>1, <1>2, <1>3, <1>7, <1>9, <1>11, <1>13 DEF Talking

LEMMA HookServes ==
  ASSUME HttpInv, NEW name, Runs(name), name # "on_msg_begin", RunHook, ~UriIsNull, ~request_parser_start,
         ~request_parser_fini
  PROVE  Served'
<1>1. DOMAIN request = RequestFields /\ RequestFields # DOMAIN NoRequest
  BY HookHas DEF IsRequest, RequestFields, NoRequest
<1>2. ASSUME NEW hook, NEW req, DOMAIN req = RequestFields, UserHook(hook, req) PROVE Served'
  <2>1. PICK res : request' = [req EXCEPT !.status = res]
    BY <1>2 DEF UserHook
  <2>2. DOMAIN request' = RequestFields
    BY <1>2, <2>1
  <2> QED
    BY <1>1, <2>2 DEF Served
<1>3. ASSUME DOMAIN request' = RequestFields PROVE Served'
  BY <1>1, <1>3 DEF Served
<1>4. CASE request_parser_path
  <2> DEFINE req == [request EXCEPT !.path = Arg, !.args = <<>>, !.cb = CallbackOf(httpx, Arg)]
  <2>1. DOMAIN req = RequestFields /\ UserHook("on_path", req)
    BY <1>1, <1>4 DEF request_parser_path
  <2> HIDE DEF req
  <2> QED
    BY <1>2, <2>1
<1>5. CASE request_parser_header_val
  <2> DEFINE req == [request EXCEPT !.headers[Len(request.headers)][2] = Arg]
  <2>1. DOMAIN req = RequestFields
    BY <1>1
  <2>2. UserHook("on_header", req) \/ request' = [request EXCEPT !.status = "FATAL"]
    BY <1>5 DEF request_parser_header_val
  <2>3. DOMAIN [request EXCEPT !.status = "FATAL"] = RequestFields
    BY <1>1
  <2> HIDE DEF req
  <2> QED
    BY <1>2, <1>3, <2>1, <2>2, <2>3
<1>6. CASE request_parser_hostname
  <2> DEFINE found == httpx = "main" /\ Arg # <<>> /\ Arg[1] \in Hosts \ {"main"}
             req == IF found /\ request.path # NoPath
                    THEN [request EXCEPT !.cb = CallbackOf(Arg[1], request.path)] ELSE request
  <2>1. DOMAIN req = RequestFields /\ UserHook("on_hostname", req)
    BY <1>1, <1>6 DEF request_parser_hostname
  <2> HIDE DEF req
  <2> QED
    BY <1>2, <2>1
<1>7. CASE request_parser_headers
  <2> DEFINE req == [request EXCEPT !.keepalive = http_parser_should_keep_alive(parser),
                                    !.proto = Proto(parser.version)]
  <2>1. DOMAIN req = RequestFields /\ UserHook("on_headers", req)
    BY <1>1, <1>7 DEF request_parser_headers
  <2> HIDE DEF req
  <2> QED
    BY <1>2, <2>1
<1>8. CASE request_parser_body
  <2> DEFINE req == [request EXCEPT !.body = @ \o Arg]
  <2>1. DOMAIN req = RequestFields
    BY <1>1
  <2>2. UserHook("on_read", req) \/ request' = [request EXCEPT !.status = "DATA_TOO_LONG"]
    BY <1>8 DEF request_parser_body
  <2>3. DOMAIN [request EXCEPT !.status = "DATA_TOO_LONG"] = RequestFields
    BY <1>1
  <2> HIDE DEF req
  <2> QED
    BY <1>2, <1>3, <2>1, <2>2, <2>3
<1>9. CASE request_parser_args \/ request_parser_headers_start \/ request_parser_header_key
           \/ request_parser_chunks
  <2>1. DOMAIN request' = DOMAIN request
    BY <1>9 DEF request_parser_args, request_parser_headers_start, request_parser_header_key,
                request_parser_chunks
  <2> QED
    BY <1>1, <1>3, <2>1
<1> QED
  BY <1>4, <1>5, <1>6, <1>7, <1>8, <1>9 DEF RunHook

LEMMA HookTalks ==
  ASSUME HttpInv, Talking, HooksInPairs, RunHook, ~waived'
  PROVE  Talking'
<1>1. CASE UriIsNull
  BY <1>1, UriIsThere
<1>2. CASE request_parser_start
  BY <1>2, StartPasses
<1>3. CASE request_parser_fini
  BY <1>3, FiniTalks
<1>4. CASE ~UriIsNull /\ ~request_parser_start /\ ~request_parser_fini
  <2>1. \E name : name # "on_msg_begin" /\ Runs(name)
    BY <1>4 DEF RunHook, request_parser_path, request_parser_args, request_parser_headers_start,
                request_parser_header_key, request_parser_header_val, request_parser_hostname,
                request_parser_headers, request_parser_body, request_parser_chunks
  <2>2. Served'
    BY <1>4, <2>1, HookServes
  <2> QED
    BY <1>4, <2>2, PathPasses, ArgsPasses, HeadersStartPasses, HeaderKeyPasses, HeaderValPasses,
       HostnamePasses, HeadersPass, BodyPasses, ChunksPass DEF RunHook
<1> QED
  BY <1>1, <1>2, <1>3, <1>4

\* A request with another status is the same to the client.
LEMMA StatusOnly ==
  ASSUME HttpInv, request' = [request EXCEPT !.status = "OK"]
  PROVE  /\ Served' <=> Served
         /\ Served => /\ request'.status = "OK" /\ request'.finished = request.finished
                      /\ request'.id = request.id /\ request'.cb = request.cb
                      /\ request'.keepalive = request.keepalive
                      /\ Meant(request') = Meant(request)
         /\ ~Served => request' = request
         /\ UNCHANGED <<parser, httpx>> => Now' = Now
<1>1. CASE Served
  <2>1. DOMAIN request = RequestFields
    BY <1>1 DEF HttpInv, RequestInv, Served, IsRequest
  <2>3. Known([request EXCEPT !.status = "OK"], parser, httpx) = Known(request, parser, httpx)
    BY <2>1 DEF Known, RequestFields
  <2> DEFINE q == [request EXCEPT !.status = "OK"]
  <2>2. /\ q.status = "OK" /\ q.finished = request.finished /\ q.id = request.id /\ q.cb = request.cb
        /\ q.keepalive = request.keepalive /\ Meant(q) = Meant(request) /\ q # NoRequest
    <3>1. /\ q.status = "OK" /\ q.finished = request.finished /\ q.id = request.id /\ q.cb = request.cb
          /\ q.keepalive = request.keepalive
          /\ q.path = request.path /\ q.args = request.args /\ q.body = request.body
      BY <2>1 DEF RequestFields
    <3>2. DOMAIN q = RequestFields
      BY <2>1
    <3> HIDE DEF q
    <3>3. q # NoRequest
      BY <3>2 DEF RequestFields, NoRequest
    <3>4. Meant(q) = Meant(request)
      BY <3>1 DEF Meant
    <3> QED
      BY <3>1, <3>3, <3>4
  <2>6. Known(q, parser, httpx) = Known(request, parser, httpx)
    BY <2>3
  <2> HIDE DEF q
  <2>4. request' = q /\ Served'
    BY <2>2 DEF q, Served
  <2>5. UNCHANGED <<parser, httpx>> => Now' = Now
    BY <1>1, <2>6, <2>4 DEF Now
  <2> QED
    BY <1>1, <2>2, <2>4, <2>5
<1>2. CASE ~Served
  <2>1. request' = request
    BY <1>2 DEF Served, NoRequest
  <2> QED
    BY <1>2, <2>1 DEF Now, Served
<1> QED
  BY <1>1, <1>2

LEMMA ReadTalks ==
  ASSUME HttpInv, Talking, at = "loop", NEW n, StartRead(n),
         UNCHANGED <<life, wire, todo, parser, out, httpx, owner, counts, late, history>>
  PROVE  Talking'
<1>1. /\ at' = "run" /\ request' = [request EXCEPT !.status = "OK"]
      /\ UNCHANGED <<wire, todo, parser, out, httpx, num_requests, begun, late, sent, got, why>>
  BY DEF StartRead, counts, history
<1>2. Now' = Now /\ (Served' <=> Served)
  BY <1>1, StatusOnly
<1>3. Asked' = Asked /\ Answers' = Answers
  BY <1>1 DEF Asked, Answers
<1>4. CASE Idle
  <2>1. request' = request
    BY <1>1, <1>4, StatusOnly DEF Idle, Served
  <2>2. Idle'
    BY <1>1, <1>3, <1>4, <2>1 DEF Idle
  <2> QED
    BY <1>1, <1>2, <1>3, <2>1, <2>2 DEF Talking
<1>5. CASE BeingRead
  <2>1. PICK i \in 0 .. Len(Asked.text) : AtSymbol(Asked.text, i)
    BY <1>5 DEF BeingRead
  <2>2. AtSymbol(Asked.text, i)'
    BY <1>1, <1>2, <1>3, <2>1 DEF AtSymbol
  <2>3. (\E j \in 0 .. Len(Asked.text) : AtSymbol(Asked.text, j))'
    BY <1>3, <2>2
  <2>4. Served => request'.finished = request.finished /\ request'.status = "OK"
    BY <1>1, StatusOnly
  <2>5. NoneLast(out')
    BY <1>1, <1>5 DEF BeingRead
  <2>6. BeingRead'
    BY <1>1, <1>2, <1>3, <1>5, <2>3, <2>4, <2>5 DEF BeingRead, Outstanding
  <2> QED
    BY <1>1, <1>2, <1>3, <2>4, <2>6 DEF Talking
<1>6. CASE WasRead
  <2>1. /\ request'.status = "OK" /\ request'.finished = request.finished
        /\ request'.id = request.id /\ request'.cb = request.cb
        /\ request'.keepalive = request.keepalive
        /\ Meant(request') = Meant(request)
    BY <1>1, <1>6, StatusOnly DEF WasRead
  <2>2. (Meant(request) = Meant(Asked))'
    BY <1>3, <1>6, <2>1 DEF WasRead, Meant
  <2>3. Unreplied => Unreplied'
    BY <1>1, <2>1 DEF Unreplied, NoneLast, IsLast
  <2>4. Replied => Replied'
    BY <1>1, <1>3, <2>1 DEF Replied, Meant, IsLast, Answering
  <2>5. WasRead'
    BY <1>1, <1>2, <1>3, <1>6, <2>1, <2>2, <2>3, <2>4 DEF WasRead, Outstanding, Answering
  <2> QED
    BY <1>1, <1>2, <1>3, <2>1, <2>5 DEF Talking
<1> QED
  BY <1>4, <1>5, <1>6 DEF Talking

LEMMA BackTalks ==
  ASSUME HttpInv, Talking, Back
  PROVE  Talking'
<1>1. /\ at' = "loop" /\ todo = <<>> /\ (at = "back" \/ left = 0)
      /\ UNCHANGED <<wire, todo, parser, request, out, httpx, num_requests, begun, late, sent, got, why>>
  BY DEF Back, Returned, counts, history
<1>2. Now' = Now /\ Served' = Served
  BY <1>1 DEF Now, Served
<1>3. Asked' = Asked /\ Answers' = Answers
  BY <1>1 DEF Asked, Answers
<1>4. Idle => Idle'
  BY <1>1, <1>3 DEF Idle
<1>5. WasRead => WasRead'
  BY <1>1, <1>2, <1>3 DEF WasRead, Outstanding, Meant, Replied, Unreplied, NoneLast, IsLast, Answering
<1>6. CASE BeingRead
  <2>1. PICK i \in 0 .. Len(Asked.text) : AtSymbol(Asked.text, i)
    BY <1>6 DEF BeingRead
  <2>4. left \in Nat
    BY DEF HttpInv, InputInv
  <2>2. AtSymbol(Asked.text, i)'
    BY <1>1, <1>2, <1>3, <2>1, <2>4 DEF AtSymbol
  <2>3. (\E j \in 0 .. Len(Asked.text) : AtSymbol(Asked.text, j))'
    BY <1>3, <2>2
  <2>6. BeingRead'
    BY <1>1, <1>2, <1>3, <1>6, <2>3 DEF BeingRead, Outstanding, NoneLast, IsLast
  <2> QED
    BY <1>1, <1>2, <1>3, <2>6 DEF Talking
<1> QED
  BY <1>1, <1>2, <1>3, <1>4, <1>5, <1>6 DEF Talking

\* A step that leaves all of it alone.
LEMMA StillTalks ==
  ASSUME Talking,
         UNCHANGED <<wire, at, left, todo, parser, request, out, httpx, num_requests, begun, late,
                     sent, got, why>>
  PROVE  Talking'
<1>2. Now' = Now /\ Served' = Served
  BY DEF Now, Served
<1>3. Asked' = Asked /\ Answers' = Answers
  BY DEF Asked, Answers
<1>4. Idle => Idle'
  BY <1>3 DEF Idle
<1>5. WasRead => WasRead'
  BY <1>2, <1>3 DEF WasRead, Outstanding, Meant, Replied, Unreplied, NoneLast, IsLast, Answering
<1>6. CASE BeingRead
  <2>1. PICK i \in 0 .. Len(Asked.text) : AtSymbol(Asked.text, i)
    BY <1>6 DEF BeingRead
  <2>2. AtSymbol(Asked.text, i)'
    BY <1>2, <1>3, <2>1 DEF AtSymbol
  <2>3. (\E j \in 0 .. Len(Asked.text) : AtSymbol(Asked.text, j))'
    BY <1>3, <2>2
  <2>6. BeingRead'
    BY <1>2, <1>3, <1>6, <2>3 DEF BeingRead, Outstanding, NoneLast, IsLast
  <2> QED
    BY <1>2, <1>3, <2>6 DEF Talking
<1> QED
  BY <1>2, <1>3, <1>4, <1>5, <1>6 DEF Talking

LEMMA AnswerTalks ==
  ASSUME HttpInv, Talking, Answer
  PROVE  Talking'
<1> DEFINE x == Reply(IF request.cb = "chunks" THEN "end" ELSE "full")
           q == [request EXCEPT !.finished = TRUE]
<1>1. /\ Served /\ request.id \in late /\ late' = late \ {request.id}
      /\ request' = q /\ out' = Append(out, x) /\ at = "loop"
      /\ UNCHANGED <<wire, at, left, todo, parser, httpx, num_requests, begun, sent, got, why>>
  BY DEF Answer, InLoop, input, counts, history
<1>2. DOMAIN request = RequestFields
  BY <1>1 DEF HttpInv, RequestInv, Served, IsRequest
<1>3. /\ q.finished = TRUE /\ q.status = request.status /\ q.cb = request.cb
      /\ q.keepalive = request.keepalive /\ Meant(q) = Meant(request) /\ q # NoRequest
  <2>1. /\ q.finished = TRUE /\ q.status = request.status /\ q.cb = request.cb
        /\ q.keepalive = request.keepalive
        /\ q.path = request.path /\ q.args = request.args /\ q.body = request.body
    BY <1>2 DEF RequestFields
  <2>2. DOMAIN q = RequestFields
    BY <1>2
  <2> HIDE DEF q
  <2>3. q # NoRequest
    BY <2>2 DEF RequestFields, NoRequest
  <2> QED
    BY <2>1, <2>3 DEF Meant
<1>4. WasRead /\ ~request.finished
  BY <1>1 DEF Talking, Idle, BeingRead, WasRead, Replied
<1>5. late = {request.id} /\ request.cb \in {"later", "chunks"} /\ NoneLast(out) /\ IsList(out)
  BY <1>1, <1>4 DEF WasRead, Unreplied, HttpInv, ReplyInv
<1>6. Asked' = Asked /\ Answers' = Answers
  BY <1>1 DEF Asked, Answers
<1>7. IsLast(x) /\ Meant(x) = Meant(request)
  BY DEF Reply, IsLast, Meant
<1> HIDE DEF x, q
<1>8. out' # <<>> /\ out'[Len(out')] = x /\ \A j \in 1 .. Len(out') - 1 : ~IsLast(out'[j])
  BY <1>1, <1>5, <1>7, LastAppended
<1>9. Meant(request) = Meant(Asked)
  BY <1>4 DEF WasRead
<1>10. Replied'
  <2>1. (Meant(out[Len(out)]) = Meant(Asked))'
    BY <1>6, <1>7, <1>8, <1>9 DEF Meant
  <2>2. (IsLast(out[Len(out)]) /\ \A j \in 1 .. Len(out) - 1 : ~IsLast(out[j]))'
    BY <1>7, <1>8 DEF IsLast
  <2>3. (out # <<>>)' /\ (late = {})' /\ (request.cb \in Answering)'
    BY <1>1, <1>3, <1>5, <1>8 DEF Answering
  <2> QED
    BY <2>1, <2>2, <2>3 DEF Replied, Answering, Meant, IsLast
<1>11. (Meant(request) = Meant(Asked))'
  BY <1>1, <1>3, <1>6, <1>9 DEF Meant
<1>12. Served' /\ request'.finished /\ request'.status = request.status /\ request'.cb = request.cb
       /\ request'.keepalive = request.keepalive
  BY <1>1, <1>3 DEF Served
<1>13. WasRead'
  BY <1>1, <1>4, <1>6, <1>10, <1>11, <1>12 DEF WasRead, Outstanding, Answering
<1> QED
  BY <1>1, <1>4, <1>6, <1>12, <1>13 DEF Talking

\* A question of a client that has its answers.
LEMMA SendTalks ==
  ASSUME HttpInv, Talking, NEW q \in Questions, Send(q), ~waived'
  PROVE  Talking'
<1>1. /\ sent' = Append(sent, q) /\ wire' = wire \o q.text /\ at = "loop"
      /\ q.good /\ ~(Len(Answers) < Len(sent))
      /\ UNCHANGED <<at, left, todo, parser, request, out, httpx, num_requests, begun, late, got, why>>
  BY DEF Send, counts
<1>2. Idle
  BY <1>1, Counts DEF Talking, BeingRead, WasRead, Outstanding
<1>3. sent \in Seq(Questions) /\ Len(sent) \in Nat /\ q.text \in Seq(Symbols)
  BY HttpAssumption DEF HttpInv, InputInv
<1>4. Len(sent') = Len(sent) + 1 /\ Asked' = q /\ Answers' = Answers /\ sent' # <<>>
  BY <1>1, <1>3 DEF Asked, Answers
<1> DEFINE text == q.text
<1> HIDE DEF text
<1>5. wire' = SubSeq(text, 1, Len(text)) /\ Len(text) \in Nat
  <2>1. wire' = <<>> \o text /\ text \in Seq(Symbols)
    BY <1>1, <1>2, <1>3 DEF Idle, text
  <2> QED
    BY <2>1
<1>6. Now' = Unread /\ ~Served'
  <2>1. ~Served'
    BY <1>1, <1>2 DEF Idle, Served
  <2>2. Now' = [Unread EXCEPT !.p = NewParser, !.host = "main"]
    BY <1>1, <1>2, <2>1 DEF Idle, Now
  <2>3. [Unread EXCEPT !.p = NewParser, !.host = "main"] = Unread
    <3> DEFINE s == Unread
    <3>1. IsView(s) /\ s.p = NewParser /\ s.host = "main"
      BY UnreadView DEF Unread
    <3> HIDE DEF s
    <3>2. [s EXCEPT !.p = NewParser, !.host = "main"] = s
      BY <3>1 DEF IsView, ViewFields
    <3> QED
      BY <3>2 DEF s
  <2> QED
    BY <2>1, <2>2, <2>3
<1>7. todo' = <<>>
  BY <1>1, <1>2 DEF Idle
<1>8. After(todo', Now') = Reading(text)[0]
  BY <1>5, <1>6, <1>7, ReadingFacts DEF After
<1>9. AtSymbol(Asked.text, 0)'
  BY <1>4, <1>5, <1>8 DEF AtSymbol, text
<1>10. (\E i \in 0 .. Len(Asked.text) : AtSymbol(Asked.text, i))'
  BY <1>4, <1>5, <1>9 DEF text
<1>11. NoneLast(out')
  BY <1>1, <1>2 DEF Idle, NoneLast
<1>12. BeingRead'
  BY <1>1, <1>2, <1>3, <1>4, <1>6, <1>10, <1>11 DEF BeingRead, Outstanding, Idle
<1> QED
  BY <1>1, <1>4, <1>6, <1>12 DEF Talking

LEMMA NoneInEmpty ==
  ASSUME NEW S, NEW z \in Seq(S), Len(z) = 0
  PROVE  z = <<>>
OBVIOUS

\* The parts behind the first.
LEMMA PartsBehind ==
  ASSUME NEW parts, IsList(parts), parts # <<>>
  PROVE  /\ Head(parts) = parts[1] /\ IsList(Tail(parts))
         /\ Len(parts) \in Nat \ {0} /\ Len(Tail(parts)) = Len(parts) - 1
         /\ Tail(parts) # <<>> => Len(parts) > 1
         /\ Tail(parts) = <<>> => Len(parts) = 1
         /\ \A j \in 1 .. Len(parts) - 1 : Tail(parts)[j] = parts[j + 1]
         /\ DOMAIN parts = 1 .. Len(parts) /\ DOMAIN Tail(parts) = 1 .. Len(parts) - 1
<1> DEFINE P == {parts[i] : i \in DOMAIN parts}
           t == Tail(parts)
<1>1. parts \in Seq(P)
  BY DEF IsList
<1> HIDE DEF P
<1>2. t \in Seq(P) /\ Len(parts) \in Nat \ {0} /\ Len(t) = Len(parts) - 1 /\ Head(parts) = parts[1]
  BY <1>1
<1>3. DOMAIN parts = 1 .. Len(parts)
  BY <1>1
<1>4. ASSUME NEW j \in 1 .. Len(parts) - 1 PROVE t[j] = parts[j + 1]
  BY <1>1, <1>2
<1> HIDE DEF t
<1>5. t # <<>> => Len(t) # 0
  BY <1>2, NoneInEmpty
<1>6. t = <<>> => Len(t) = 0
  OBVIOUS
<1>7. DOMAIN t = 1 .. Len(t)
  BY <1>2
<1>8. IsList(t)
  BY <1>2, SeqsAreLists
<1>9. /\ t # <<>> => Len(parts) > 1
      /\ t = <<>> => Len(parts) = 1
      /\ DOMAIN t = 1 .. Len(parts) - 1
  BY <1>2, <1>5, <1>6, <1>7
<1> QED
  BY <1>2, <1>3, <1>4, <1>8, <1>9 DEF t

\* A part of a reply is written, and it is not the last.
LEMMA DrainOnTalks ==
  ASSUME HttpInv, Talking, ~IsLast(Head(out)), out # <<>>,
         got' = Append(got, Head(out)), out' = Tail(out),
         BeingRead \/ (WasRead /\ (request.finished => Tail(out) # <<>>)),
         UNCHANGED <<wire, at, left, todo, parser, request, httpx, num_requests, begun, late, sent, why>>
  PROVE  Talking'
<1>1. IsList(got) /\ IsList(out)
  BY DEF HttpInv, ReplyInv
<1>2. Answers' = Answers /\ Asked' = Asked
  BY <1>1, LastOfAppend DEF Answers, Asked
<1>3. Now' = Now /\ Served' = Served
  BY DEF Now, Served
<1>4. NoneLast(out) => NoneLast(out')
  BY <1>1, PartsBehind DEF NoneLast
<1>5. CASE BeingRead
  <2>1. PICK i \in 0 .. Len(Asked.text) : AtSymbol(Asked.text, i)
    BY <1>5 DEF BeingRead
  <2>2. AtSymbol(Asked.text, i)'
    BY <1>2, <1>3, <2>1 DEF AtSymbol
  <2>3. (\E j \in 0 .. Len(Asked.text) : AtSymbol(Asked.text, j))'
    BY <1>2, <2>2
  <2>4. BeingRead'
    BY <1>2, <1>3, <1>4, <1>5, <2>3 DEF BeingRead, Outstanding
  <2> QED
    BY <1>2, <1>3, <2>4 DEF Talking
<1>6. CASE WasRead /\ (request.finished => Tail(out) # <<>>)
  <2>1. Unreplied => Unreplied'
    BY <1>4 DEF Unreplied
  <2>2. CASE request.finished
    <3>1. Replied /\ Tail(out) # <<>>
      BY <1>6, <2>2 DEF WasRead
    <3>2. /\ Len(out) \in Nat /\ Len(out) > 1 /\ Len(out') = Len(out) - 1
          /\ \A j \in 1 .. Len(out) - 1 : out'[j] = out[j + 1]
      BY <1>1, <3>1, PartsBehind
    <3>3. out'[Len(out')] = out[Len(out)] /\ \A j \in 1 .. Len(out') - 1 : out'[j] = out[j + 1]
      <4> DEFINE m == Len(out)
      <4>1. m - 1 \in 1 .. m - 1 /\ (m - 1) + 1 = m
        BY <3>2
      <4>2. out'[m - 1] = out[m]
        BY <3>2, <4>1
      <4> QED
        BY <3>2, <4>2
    <3>4. \A j \in 1 .. Len(out') - 1 : ~IsLast(out'[j])
      BY <3>1, <3>2, <3>3 DEF Replied
    <3>5. (Meant(out[Len(out)]) = Meant(Asked))' /\ IsLast(out'[Len(out')])
      BY <1>2, <3>1, <3>3 DEF Replied, Meant
    <3>6. Replied'
      BY <1>2, <3>1, <3>4, <3>5 DEF Replied, Meant, IsLast, Answering
    <3>7. WasRead'
      BY <1>2, <1>3, <1>6, <2>2, <3>6 DEF WasRead, Outstanding, Meant, Answering
    <3> QED
      BY <1>2, <1>3, <3>7 DEF Talking
  <2>3. CASE ~request.finished
    <3>1. Unreplied'
      BY <1>6, <2>1, <2>3 DEF WasRead
    <3>2. WasRead'
      BY <1>2, <1>3, <1>6, <2>3, <3>1 DEF WasRead, Outstanding, Meant, Answering
    <3> QED
      BY <1>2, <1>3, <3>2 DEF Talking
  <2> QED
    BY <2>2, <2>3
<1> QED
  BY <1>5, <1>6

\* What is next to be written, and whether it ends a reply.
LEMMA NextPart ==
  ASSUME HttpInv, Talking, out # <<>>
  PROVE  \/ ~IsLast(Head(out)) /\ ~(Served /\ request.finished) /\ (BeingRead \/ WasRead)
         \/ ~IsLast(Head(out)) /\ Tail(out) # <<>> /\ WasRead /\ request.finished
         \/ /\ IsLast(Head(out)) /\ Tail(out) = <<>> /\ WasRead /\ Served /\ request.finished
            /\ Meant(Head(out)) = Meant(Asked) /\ late = {} /\ request.cb \in Answering
<1>1. IsList(out)
  BY DEF HttpInv, ReplyInv
<1>2. /\ Head(out) = out[1] /\ Len(out) \in Nat \ {0} /\ DOMAIN out = 1 .. Len(out)
      /\ Tail(out) # <<>> => Len(out) > 1
      /\ Tail(out) = <<>> => Len(out) = 1
  BY <1>1, PartsBehind
<1>3. NoneLast(out) => ~IsLast(Head(out))
  BY <1>2 DEF NoneLast
<1>4. CASE BeingRead
  BY <1>3, <1>4 DEF BeingRead
<1>5. CASE WasRead /\ ~request.finished
  BY <1>3, <1>5 DEF WasRead, Unreplied
<1>6. CASE WasRead /\ request.finished
  <2>1. Replied /\ Served
    BY <1>6 DEF WasRead
  <2>2. Tail(out) # <<>> => ~IsLast(Head(out))
    BY <1>2, <2>1 DEF Replied
  <2>3. Tail(out) = <<>> => IsLast(Head(out)) /\ Meant(Head(out)) = Meant(Asked)
    BY <1>2, <2>1 DEF Replied
  <2> QED
    BY <1>6, <2>1, <2>2, <2>3 DEF Replied
<1> QED
  BY <1>4, <1>5, <1>6 DEF Talking, Idle

\* The end of a reply is written.
LEMMA DrainEnds ==
  ASSUME HttpInv, Talking, Drain, IsLast(Head(out))
  PROVE  /\ Outstanding /\ LastOf(got') = Append(Answers, Head(out))
         /\ Len(LastOf(got')) = Len(sent) /\ sent' = sent /\ sent # <<>>
         /\ Meant(Head(out)) = Meant(Asked)
         /\ request.cb \in Answering /\ (Asked.close \/ request.keepalive)
         /\ num_requests' = IF MaxKeepalive = 0 THEN 0 ELSE Len(sent)
         /\ (Stays /\ Recycle) \/ (~Stays /\ Close("server"))
         /\ LimitReached => MaxKeepalive # 0 /\ Len(sent) >= MaxKeepalive
         /\ out' = <<>> /\ wire' = <<>> /\ todo = <<>> /\ begun' = Len(sent) /\ late = {}
<1>1. out # <<>> /\ got' = Append(got, Head(out)) /\ out' = Tail(out)
      /\ UNCHANGED <<wire, begun, sent>>
  BY DEF Drain
<1>2. /\ Tail(out) = <<>> /\ WasRead /\ Served /\ request.finished
      /\ Meant(Head(out)) = Meant(Asked) /\ late = {} /\ request.cb \in Answering
  BY <1>1, NextPart
<1>3. /\ num_requests' = IF MaxKeepalive # 0 THEN num_requests + 1 ELSE num_requests
      /\ (Stays /\ Recycle) \/ (~Stays /\ Close("server"))
  BY <1>2 DEF Drain
<1>4. IsList(got) /\ Len(Answers) \in Nat /\ Len(sent) \in Nat
  BY Counts DEF HttpInv, ReplyInv
<1>5. LastOf(got') = Append(Answers, Head(out))
  BY <1>1, <1>2, <1>4, NextPart, LastOfAppend DEF Answers
<1>6. Outstanding /\ begun = Len(sent) /\ wire = <<>> /\ todo = <<>>
      /\ (Asked.close \/ request.keepalive)
  BY <1>2 DEF WasRead
<1>7. Len(LastOf(got')) = Len(Answers) + 1
  <2>1. Answers \in Seq({got[i] : i \in DOMAIN got})
    BY <1>4, LastOfList DEF Answers
  <2>2. IsList(Answers)
    BY <2>1, SeqsAreLists
  <2> QED
    BY <1>5, <2>1, <2>2
<1>8. num_requests = IF MaxKeepalive = 0 THEN 0 ELSE Len(Answers)
  BY DEF Talking
<1>9. LimitReached => MaxKeepalive # 0 /\ Len(sent) >= MaxKeepalive
  BY <1>6, <1>8 DEF LimitReached, Outstanding
<1> QED
  BY <1>1, <1>2, <1>3, <1>4, <1>5, <1>6, <1>7, <1>8, <1>9, Counts DEF Outstanding

LEMMA DrainTalks ==
  ASSUME HttpInv, Talking, Drain, life' = "open"
  PROVE  Talking'
<1>1. /\ out # <<>> /\ got' = Append(got, Head(out)) /\ out' = Tail(out)
      /\ UNCHANGED <<wire, left, begun, sent>>
  BY DEF Drain
<1>2. CASE ~IsLast(Head(out))
  <2>1. ~(Served /\ request.finished /\ Tail(out) = <<>>)
        /\ (BeingRead \/ (WasRead /\ (request.finished => Tail(out) # <<>>)))
    BY <1>1, <1>2, NextPart DEF WasRead
  <2>2. UNCHANGED <<at, todo, parser, request, httpx, num_requests, late, why>>
    BY <2>1 DEF Drain
  <2> QED
    BY <1>1, <1>2, <2>1, <2>2, DrainOnTalks
<1>3. CASE IsLast(Head(out))
  <2>1. /\ Len(LastOf(got')) = Len(sent) /\ sent' = sent
        /\ num_requests' = IF MaxKeepalive = 0 THEN 0 ELSE Len(sent)
        /\ (Stays /\ Recycle) \/ (~Stays /\ Close("server"))
        /\ out' = <<>> /\ wire' = <<>> /\ todo = <<>> /\ begun' = Len(sent) /\ late = {}
    BY <1>3, DrainEnds
  <2>2. Recycle
    BY <2>1 DEF Close, Free
  <2>3. Answers' = LastOf(got') /\ Asked' = Asked
    BY <1>1 DEF Answers, Asked
  <2>4. /\ request' = NoRequest /\ parser' = NewParser /\ httpx' = "main" /\ todo' = <<>> /\ late' = {}
        /\ why' = why /\ at' = at
    BY <2>1, <2>2 DEF Recycle, NextParser
  <2>5. Idle'
    BY <2>1, <2>3, <2>4 DEF Idle
  <2>6. at = "loop"
    BY DEF Drain, InLoop
  <2>7. ~Served'
    BY <2>4 DEF Served
  <2>8. (sent # <<>> => Asked.good)'
    BY <2>1, <2>3 DEF Talking
  <2> QED
    BY <2>1, <2>3, <2>4, <2>5, <2>6, <2>7, <2>8 DEF Talking
<1> QED
  BY <1>2, <1>3

\* A promise that was given up stays so, and a connection that has ended does
\* not open again.
LEMMA NoWayBack ==
  ASSUME HttpInv, [Next]_vars
  PROVE  /\ ~waived' => ~waived
         /\ life' \in {"new", "open"} => life \in {"new", "open"}
<1>1. life # "open" => at = "loop" /\ todo = <<>>
  BY DEF HttpInv, ReadInv
<1>2. CASE Accept \/ Read \/ Run \/ Leave \/ Fail \/ Back \/ Resume \/ PeerGone \/ UNCHANGED vars
  BY <1>1, <1>2 DEF Accept, Read, Run, Leave, Fail, Back, Resume, PeerGone, vars, history, Close, Free,
                    InLoop, Returned
<1>3. CASE Drain
  BY <1>3 DEF Drain, Recycle, Close, Free, InLoop
<1>4. CASE Answer
  BY <1>4 DEF Answer, InLoop, history
<1>6. CASE \E q \in Questions : Send(q)
  <2>1. PICK q \in Questions : Send(q)
    BY <1>6
  <2>2. life' = life /\ waived' = (waived \/ ~q.good \/ Len(Answers) < Len(sent))
    BY <2>1 DEF Send
  <2> QED
    BY <2>2
<1>5. CASE RunHook
  <2>1. life = "open"
    BY <1>1, <1>5 DEF RunHook, Runs, UriIsNull, request_parser_start, request_parser_path, request_parser_args,
       request_parser_headers_start, request_parser_header_key, request_parser_header_val,
       request_parser_hostname, request_parser_headers, request_parser_body, request_parser_chunks,
       request_parser_fini
  <2>2. ~waived' => ~waived
    BY <1>5 DEF RunHook, UriIsNull, request_parser_start, request_parser_path, request_parser_args,
       request_parser_headers_start, request_parser_header_key, request_parser_header_val,
       request_parser_hostname, request_parser_headers, request_parser_body, request_parser_chunks,
       request_parser_fini, UserHook, history
  <2> QED
    BY <2>1, <2>2
<1> QED
  BY <1>2, <1>3, <1>4, <1>5, <1>6 DEF Next, Loop, Finished, Waiting

LEMMA TalkInit == Init => TalkInv /\ HooksInPairs
<1> SUFFICES ASSUME Init PROVE TalkInv /\ HooksInPairs
  OBVIOUS
<1>1. Len(Answers) = 0 /\ Len(sent) = 0
  BY LastOfNone DEF Init, Answers
<1>2. ~Served
  BY DEF Init, Served
<1>3. Idle
  BY <1>1 DEF Init, Idle
<1>4. Talking
  BY <1>1, <1>2, <1>3 DEF Init, Talking
<1>5. HooksInPairs
  BY DEF Init, HooksInPairs
<1> QED
  BY <1>4, <1>5 DEF TalkInv

\* The client waits for each answer, and the connection is there.
LEMMA TalkGoesOn ==
  ASSUME HttpInv, Talking, HooksInPairs, [Next]_vars, ~waived', life' \in {"new", "open"}
  PROVE  Talking'
<1>1. CASE Accept
  BY <1>1, StillTalks DEF Accept, input, counts
<1>2. CASE Read
  <2>1. PICK n \in 1 .. Len(wire) : StartRead(n)
    BY <1>2 DEF Read
  <2> QED
    BY <1>2, <2>1, ReadTalks DEF Read, InLoop
<1>3. CASE Run
  BY <1>3, RunTalks
<1>4. CASE RunHook
  BY <1>4, HookTalks
<1>5. CASE Leave \/ Fail \/ PeerGone
  BY <1>5 DEF Leave, Fail, PeerGone, Close, Free
<1>7. CASE Back
  BY <1>7, BackTalks
<1>8. CASE Resume
  <2>1. PICK n \in left .. Len(wire) : StartRead(n)
    BY <1>8 DEF Resume
  <2> QED
    BY <1>8, <2>1, ReadTalks DEF Resume, InLoop
<1>9. CASE Drain
  <2>1. life' = "open"
    BY <1>9 DEF Drain, InLoop, Recycle, Close, Free
  <2> QED
    BY <1>9, <2>1, DrainTalks
<1>10. CASE Answer
  BY <1>10, AnswerTalks
<1>11. CASE \E q \in Questions : Send(q)
  BY <1>11, SendTalks
<1>13. CASE UNCHANGED vars
  BY <1>13, StillTalks DEF vars, input, counts, history
<1> QED
  BY <1>1, <1>2, <1>3, <1>4, <1>5, <1>7, <1>8, <1>9, <1>10, <1>11, <1>13 DEF Next, Loop, Finished, Waiting

LEMMA TalkKept ==
  ASSUME HttpInv, TalkInv, HooksInPairs, [Next]_vars
  PROVE  TalkInv' /\ HooksInPairs'
BY NoWayBack, TalkGoesOn, PairsKept DEF TalkInv

\* Whatever the network cuts, the hooks pause and the application delays, a client
\* that waits is answered, is being read or has its answer on the way: readcb, the
\* hooks of request_psets, the callbacks and writecb.
THEOREM TalkAlways == Spec => [](TalkInv /\ HooksInPairs)
BY TalkInit, TalkKept, InvAlways, PTL DEF Spec

\* The process of a client that waits does not die.
WaitersDoNotCrash == life = "crashed" => waived

\* What may change the history of a conversation.
LEMMA WhoSpeaks ==
  ASSUME [Next]_vars
  PROVE  Drain \/ (\E q \in Questions : Send(q)) \/ UNCHANGED <<sent, got>>
<1>1. CASE Accept \/ Read \/ Run \/ Leave \/ Fail \/ Back \/ Resume \/ Answer \/ PeerGone \/ UNCHANGED vars
  BY <1>1 DEF Accept, Read, Run, Leave, Fail, Back, Resume, Answer, PeerGone, vars, history
<1>2. CASE RunHook
  BY <1>2 DEF RunHook, UriIsNull, request_parser_start, request_parser_path, request_parser_args,
     request_parser_headers_start, request_parser_header_key, request_parser_header_val,
     request_parser_hostname, request_parser_headers, request_parser_body, request_parser_chunks,
     request_parser_fini, history
<1> QED
  BY <1>1, <1>2 DEF Next, Loop, Finished, Waiting

\* What may end a connection.
LEMMA WhoEnds ==
  ASSUME [Next]_vars
  PROVE  Accept \/ Fail \/ Leave \/ PeerGone \/ Drain \/ UriIsNull \/ UNCHANGED <<life, why>>
<1>1. CASE Read \/ Run \/ Back \/ Resume \/ Answer \/ UNCHANGED vars \/ \E q \in Questions : Send(q)
  BY <1>1 DEF Read, Run, Back, Resume, Answer, Send, vars, history
<1>2. CASE RunHook
  BY <1>2 DEF RunHook, request_parser_start, request_parser_path, request_parser_args,
     request_parser_headers_start, request_parser_header_key, request_parser_header_val,
     request_parser_hostname, request_parser_headers, request_parser_body, request_parser_chunks,
     request_parser_fini, history
<1> QED
  BY <1>1, <1>2 DEF Next, Loop, Finished, Waiting

LEMMA ServerCloses ==
  ASSUME HttpInv, Talking, life = "open", [Next]_vars, why' = "server"
  PROVE  /\ Len(LastOf(got')) = Len(sent)
         /\ sent[Len(sent)].close \/ (MaxKeepalive # 0 /\ Len(sent) >= MaxKeepalive)
<1>1. why = "none"
  BY DEF Talking
<1>2. CASE Accept
  BY <1>2 DEF Accept
<1>3. CASE Leave \/ PeerGone \/ UriIsNull
  BY <1>1, <1>3 DEF Leave, PeerGone, UriIsNull, Close, Crash, history
<1>4. CASE Fail
  <2>1. Returned /\ (TooLong \/ (left > 0 /\ ~Pauses))
    BY <1>4 DEF Fail
  <2>2. ~TooLong
    BY DEF TooLong, Talking
  <2>3. left \in Nat
    BY DEF HttpInv, InputInv
  <2>4. at = "back" /\ left > 0 /\ ~Pauses
    BY <2>1, <2>2, <2>3 DEF Returned
  <2> QED
    BY <2>4 DEF Pauses, Talking
<1>5. CASE Drain
  <2>1. CASE ~IsLast(Head(out))
    <3>1. out # <<>>
      BY <1>5 DEF Drain
    <3>2. ~(Served /\ request.finished /\ Tail(out) = <<>>)
      BY <2>1, <3>1, NextPart
    <3> QED
      BY <1>1, <1>5, <3>2 DEF Drain
  <2>2. CASE IsLast(Head(out))
    <3>1. /\ Len(LastOf(got')) = Len(sent)
          /\ Asked.close \/ request.keepalive
          /\ (Stays /\ Recycle) \/ (~Stays /\ Close("server"))
          /\ LimitReached => MaxKeepalive # 0 /\ Len(sent) >= MaxKeepalive
      BY <1>5, <2>2, DrainEnds
    <3>2. ~Stays
      BY <1>1, <3>1 DEF Recycle
    <3> QED
      BY <3>1, <3>2 DEF Stays, Asked
  <2> QED
    BY <2>1, <2>2
<1> QED
  BY <1>1, <1>2, <1>3, <1>4, <1>5, WhoEnds

LEMMA WhoCrashes ==
  ASSUME HttpInv, TalkInv, WaitersDoNotCrash, [Next]_vars
  PROVE  WaitersDoNotCrash'
<1> SUFFICES ASSUME life' = "crashed", ~waived'
             PROVE  FALSE
  BY DEF WaitersDoNotCrash
<1>1. ~waived
  BY NoWayBack
<1>2. life # "crashed"
  BY <1>1 DEF WaitersDoNotCrash
<1>3. UriIsNull
  BY <1>2, WhoEnds DEF Accept, Fail, Leave, PeerGone, Drain, Recycle, Close, Free
<1>4. life = "open"
  BY <1>3 DEF UriIsNull, Runs, HttpInv, ReadInv
<1> QED
  BY <1>1, <1>3, <1>4, UriIsThere DEF TalkInv

\* ClosesWhenAsked for any messages that are understood alone, any callbacks
\* and limits: the server closes the connection of a client that waits only when all is
\* answered and written, in _evhttpx_connection_writecb.
THEOREM ServerClosesWhenAsked == Spec => ClosesWhenAsked
<1>1. ASSUME HttpInv, TalkInv, [Next]_vars
      PROVE  [why' = "server" /\ life = "open" /\ ~waived =>
                /\ Len(LastOf(got')) = Len(sent)
                /\ sent[Len(sent)].close \/ (MaxKeepalive # 0 /\ Len(sent) >= MaxKeepalive)]_vars
  BY <1>1, ServerCloses DEF TalkInv
<1> QED
  BY <1>1, InvAlways, TalkAlways, PTL DEF Spec, ClosesWhenAsked

\* While a client waits for each answer no request of its is without a path
\* where its uri is used: _evhttpx_request_parser_args and _fini.
THEOREM NoWaiterCrashes == Spec => []WaitersDoNotCrash
<1>1. Init => WaitersDoNotCrash
  BY DEF Init, WaitersDoNotCrash
<1> QED
  BY <1>1, WhoCrashes, InvAlways, TalkAlways, PTL DEF Spec
-----------------------------------------------------------------------------
(* The connection implements the service.                                  *)

LEMMA SaidIs ==
  ASSUME HttpInv
  PROVE  Said \in Seq({Meant(Answers[i]) : i \in DOMAIN Answers}) /\ Len(Said) = Len(Answers)
<1>1. IsList(got)
  BY DEF HttpInv, ReplyInv
<1>2. Answers \in Seq({got[i] : i \in DOMAIN got})
  BY <1>1, LastOfList DEF Answers
<1> DEFINE T == {Meant(Answers[i]) : i \in DOMAIN Answers}
<1>3. DOMAIN Answers = 1 .. Len(Answers) /\ Len(Answers) \in Nat
  BY <1>2
<1>4. \A i \in DOMAIN Answers : Meant(Answers[i]) \in T
  OBVIOUS
<1> HIDE DEF T
<1>5. [i \in 1 .. Len(Answers) |-> Meant(Answers[i])] \in Seq(T)
  BY <1>3, <1>4
<1>6. Said = [i \in 1 .. Len(Answers) |-> Meant(Answers[i])]
  BY <1>3 DEF Said
<1>7. Said \in Seq(T)
  BY <1>5, <1>6
<1> DEFINE m == Len(Said)
           n == Len(Answers)
<1>8. 1 .. m = 1 .. n /\ m \in Nat /\ n \in Nat
  BY <1>3, <1>6, <1>7
<1> HIDE DEF m, n
<1>9. m = n
  <2>1. \A i \in Nat : 1 <= i /\ i <= m <=> 1 <= i /\ i <= n
    BY <1>8
  <2>2. m # 0 => m <= n
    BY <1>8, <2>1
  <2>3. n # 0 => n <= m
    BY <1>8, <2>1
  <2> QED
    BY <1>8, <2>2, <2>3
<1> QED
  BY <1>7, <1>9 DEF T, m, n

\* An answer more.
LEMMA SaysMore ==
  ASSUME HttpInv, NEW x, Answers' = Append(Answers, x)
  PROVE  Said' = Append(Said, Meant(x))
<1>1. IsList(got)
  BY DEF HttpInv, ReplyInv
<1>2. Answers \in Seq({got[i] : i \in DOMAIN got})
  BY <1>1, LastOfList DEF Answers
<1> DEFINE n == Len(Answers)
           g == [i \in 1 .. n + 1 |-> Meant(Append(Answers, x)[i])]
           T == {Meant(Answers[i]) : i \in DOMAIN Answers} \cup {Meant(x)}
<1>3. n \in Nat /\ DOMAIN Append(Answers, x) = 1 .. n + 1
      /\ (\A i \in 1 .. n : Append(Answers, x)[i] = Answers[i]) /\ Append(Answers, x)[n + 1] = x
      /\ DOMAIN Answers = 1 .. n
  BY <1>2
<1>4. Said' = g
  BY <1>3 DEF Said, Meant
<1>5. Said \in Seq(T) /\ Len(Said) = n /\ Meant(x) \in T
  BY SaidIs
<1>6. \A i \in 1 .. n : Said[i] = Meant(Answers[i])
  BY <1>3 DEF Said
<1> HIDE DEF n, T
<1> DEFINE y == Meant(x)
           z == Said
<1>9. z \in Seq(T) /\ Len(z) = n /\ y \in T
  BY <1>5
<1> HIDE DEF y, z
<1> DEFINE w == Append(z, y)
<1>10. w \in Seq(T) /\ Len(w) = n + 1
  BY <1>9
<1>11. w[n + 1] = y /\ \A i \in 1 .. n : w[i] = z[i]
  BY <1>3, <1>9
<1> HIDE DEF w
<1>7. w = [i \in 1 .. n + 1 |-> w[i]]
  BY <1>10
<1>8. \A i \in 1 .. n + 1 : w[i] = Meant(Append(Answers, x)[i])
  BY <1>3, <1>6, <1>11 DEF y, z
<1> QED
  BY <1>4, <1>7, <1>8 DEF w, y, z

LEMMA ServiceInit ==
  ASSUME Init
  PROVE  HS!HttpInit
<1>1. Answers = <<>>
  BY LastOfNone DEF Init, Answers
<1>2. Said = <<>>
  BY <1>1 DEF Said
<1> QED
  BY <1>2 DEF HS!HttpInit, Init

LEMMA ServiceStep ==
  ASSUME HttpInv, TalkInv, [Next]_vars, ~waived
  PROVE  HS!HttpNext \/ UNCHANGED HS!httpVars
<1>1. waived \in BOOLEAN /\ waived' \in BOOLEAN
  BY StepKeeps DEF HttpInv, RequestInv
<1>2. CASE waived'
  BY <1>1, <1>2 DEF HS!HttpNext, HS!Forfeit
<1>3. CASE ~waived' /\ UNCHANGED <<sent, got>>
  <2>1. UNCHANGED Answers
    BY <1>3 DEF Answers
  <2>2. UNCHANGED Said
    BY <2>1 DEF Said, Meant
  <2> QED
    BY <1>1, <1>3, <2>2 DEF HS!httpVars
<1>4. ASSUME ~waived', NEW q \in Questions, Send(q) PROVE HS!HttpNext
  <2>1. sent' = Append(sent, q) /\ got' = got /\ life \in {"new", "open"}
        /\ waived' = (waived \/ ~q.good \/ Len(Answers) < Len(sent))
    BY <1>4 DEF Send
  <2>2. Talking
    BY <2>1 DEF TalkInv
  <2>7. ~(Len(Answers) < Len(sent))
    BY <1>4, <2>1
  <2>8. ~Outstanding
    BY <2>7, Counts DEF Outstanding
  <2>3. Len(Answers) = Len(sent)
    BY <2>2, <2>8 DEF Talking, Idle, BeingRead, WasRead
  <2>4. UNCHANGED Answers
    BY <2>1 DEF Answers
  <2>5. UNCHANGED Said
    BY <2>4 DEF Said, Meant
  <2>6. Len(Said) = Len(sent)
    BY <2>3, SaidIs
  <2> QED
    BY <1>1, <1>4, <2>1, <2>5, <2>6 DEF HS!HttpNext, HS!Ask
<1>5. ASSUME ~waived', Drain PROVE HS!HttpNext \/ UNCHANGED HS!httpVars
  <2>1. got' = Append(got, Head(out)) /\ out # <<>> /\ life = "open" /\ sent' = sent
    BY <1>5 DEF Drain, InLoop
  <2>2. Talking
    BY <2>1 DEF TalkInv
  <2>3. CASE IsLast(Head(out))
    <3>1. Outstanding /\ LastOf(got') = Append(Answers, Head(out)) /\ Meant(Head(out)) = Meant(Asked)
      BY <1>5, <2>2, <2>3, DrainEnds
    <3>2. Answers' = Append(Answers, Head(out))
      BY <3>1 DEF Answers
    <3>3. Said' = Append(Said, Meant(Asked))
      BY <3>1, <3>2, SaysMore
    <3>4. Len(Said) + 1 = Len(sent) /\ Len(Said) \in Nat /\ Len(sent) \in Nat
      BY <3>1, SaidIs, Counts DEF Outstanding
    <3>5. Asked = sent[Len(Said) + 1]
      BY <3>4 DEF Asked
    <3> QED
      BY <1>1, <1>5, <2>1, <3>3, <3>4, <3>5 DEF HS!HttpNext, HS!Reply
  <2>4. CASE ~IsLast(Head(out))
    <3>1. IsList(got)
      BY DEF HttpInv, ReplyInv
    <3>2. UNCHANGED Answers
      BY <2>1, <2>4, <3>1, LastOfAppend DEF Answers
    <3>3. UNCHANGED Said
      BY <3>2 DEF Said, Meant
    <3> QED
      BY <1>1, <1>5, <2>1, <3>3 DEF HS!httpVars
  <2> QED
    BY <2>3, <2>4
<1> QED
  BY <1>2, <1>3, <1>4, <1>5, WhoSpeaks

\* HttpImplemented for any messages that are understood alone: to a client that
\* waits for each answer, readcb, the parser, its hooks, the callbacks and writecb are a
\* service that answers each question with what was asked in it, however the network
\* cuts the questions, whatever a hook pauses and whenever the application answers.
THEOREM ConnectionServes == Spec => HttpImplemented
<1>1. Init => HS!HttpInit
  BY ServiceInit
<1>2. ASSUME HttpInv, TalkInv, [Next]_vars
      PROVE  [~waived => HS!HttpNext]_(HS!httpVars)
  BY <1>2, ServiceStep
<1> QED
  BY <1>1, <1>2, InvAlways, TalkAlways, PTL DEF Spec, HttpImplemented, HS!HttpSpec

\* What was delimited stays so, and what is lost need not be.
LEMMA DelimitedStays ==
  ASSUME HttpInv, NEW part, Delimited(part),
         sent' = sent \/ \E q \in Questions : sent' = Append(sent, q)
  PROVE  part.id \in 1 .. Len(sent') /\ (part.keep /\ ~sent'[part.id].multipart => part.framed)
<1>1. sent \in Seq(Questions)
  BY DEF HttpInv, InputInv
<1>2. Len(sent') >= Len(sent) /\ (\A i \in 1 .. Len(sent) : sent'[i] = sent[i]) /\ Len(sent) \in Nat /\ Len(sent') \in Nat
  BY <1>1
<1> QED
  BY <1>2 DEF Delimited

\* A reply to the request that is there.
LEMMA DelimitedReply ==
  ASSUME HttpInv, Talking, Served, begun = Len(sent), parser.multipart => Asked.multipart,
         NEW x, x.id = request.id, x.framed = ~parser.multipart
  PROVE  Delimited(x)
<1>1. request.id = begun /\ begun > 0 /\ begun \in Nat
  BY DEF HttpInv, RequestInv, Served, IsRequest
<1>2. x.id \in 1 .. Len(sent) /\ sent[x.id] = Asked
  BY <1>1 DEF Asked
<1>3. ~Asked.multipart => x.framed
  BY Zenon
<1> QED
  BY <1>2, <1>3 DEF Delimited

LEMMA MultipartKnown ==
  ASSUME HttpInv, Talking, Served, todo # <<>>
  PROVE  begun = Len(sent) /\ (parser.multipart => Asked.multipart)
<1>1. BeingRead /\ sent # <<>>
  BY HookReads
<1>2. PICK i \in 0 .. Len(Asked.text) : After(todo, Now) = Reading(Asked.text)[i]
  BY HookReads
<1>3. After(todo, Now).p = parser
  BY NowView, AfterView
<1>4. Reading(Asked.text)[i].p.multipart => Asked.multipart
  BY <1>1, ReadingWell
<1> QED
  BY <1>1, <1>2, <1>3, <1>4 DEF BeingRead

\* A part more is queued.
LEMMA DelimitedMore ==
  ASSUME HttpInv, DelimInv, ~waived, NEW x, Delimited(x), out' \in {out, Append(out, x)},
         UNCHANGED <<got, sent>>
  PROVE  DelimInv'
<1>1. IsList(out)
  BY DEF HttpInv, ReplyInv
<1>2. \A i \in DOMAIN got' : Delimited(got'[i])
  BY DEF DelimInv
<1>3. \A i \in DOMAIN out' : Delimited(out'[i])
  <2> DEFINE P == {out[i] : i \in DOMAIN out} \cup {x}
  <2>1. \A y \in P : Delimited(y)
    BY DEF DelimInv
  <2>2. x \in P /\ \A i \in DOMAIN out : out[i] \in P
    OBVIOUS
  <2> HIDE DEF P
  <2>3. out' \in Seq(P)
    BY <1>1, <2>2, ListsAreSeqs
  <2>4. \A i \in DOMAIN out' : out'[i] \in P
    BY <2>3
  <2> QED
    BY <2>1, <2>4
<1> QED
  BY <1>2, <1>3 DEF DelimInv, Delimited

\* Nothing more is queued.
LEMMA DelimitedStill ==
  ASSUME HttpInv, DelimInv, ~waived, out' \in {out, <<>>}, got' = got,
         sent' = sent \/ \E q \in Questions : sent' = Append(sent, q)
  PROVE  DelimInv'
<1> DEFINE Holds(part) == part.id \in 1 .. Len(sent') /\ (part.keep /\ ~sent'[part.id].multipart => part.framed)
<1>0. \A part : Delimited(part) => Holds(part)
  BY DelimitedStays
<1> HIDE DEF Holds
<1>1. \A i \in DOMAIN got' : Holds(got'[i])
  BY <1>0 DEF DelimInv
<1>2. \A i \in DOMAIN out' : Holds(out'[i])
  <2>1. CASE out' = out
    BY <1>0, <2>1 DEF DelimInv
  <2>2. CASE out' = <<>>
    BY <2>2
  <2> QED
    BY <2>1, <2>2
<1> QED
  BY <1>1, <1>2 DEF DelimInv, Delimited, Holds

LEMMA DelimitedDrain ==
  ASSUME HttpInv, DelimInv, ~waived, Drain
  PROVE  DelimInv'
<1>1. /\ out # <<>> /\ got' = Append(got, Head(out)) /\ out' \in {Tail(out), <<>>} /\ sent' = sent
  BY DEF Drain, Recycle, Close, Free
<1>2. IsList(got) /\ IsList(out)
  BY DEF HttpInv, ReplyInv
<1> DEFINE P == {got[i] : i \in DOMAIN got} \cup {out[i] : i \in DOMAIN out}
<1>3. \A y \in P : Delimited(y)
  BY DEF DelimInv
<1>4. (\A i \in DOMAIN got : got[i] \in P) /\ \A i \in DOMAIN out : out[i] \in P
  OBVIOUS
<1> HIDE DEF P
<1>5. got \in Seq(P) /\ out \in Seq(P)
  BY <1>2, <1>4, ListsAreSeqs
<1>6. got' \in Seq(P) /\ out' \in Seq(P)
  <2>1. Append(got, Head(out)) \in Seq(P) /\ Tail(out) \in Seq(P) /\ <<>> \in Seq(P)
    BY <1>1, <1>5
  <2> QED
    BY <1>1, <2>1
<1>7. (\A i \in DOMAIN got' : got'[i] \in P) /\ (\A i \in DOMAIN out' : out'[i] \in P)
  BY <1>6
<1>8. (\A i \in DOMAIN got' : Delimited(got'[i])) /\ (\A i \in DOMAIN out' : Delimited(out'[i]))
  BY <1>3, <1>7
<1> QED
  BY <1>1, <1>8 DEF DelimInv, Delimited

LEMMA DelimitedHook ==
  ASSUME HttpInv, TalkInv, DelimInv, ~waived, RunHook
  PROVE  DelimInv'
<1>1. (life = "open" /\ at = "run" /\ todo # <<>>) \/ UriIsNull
  BY DEF RunHook, Runs, HttpInv, ReadInv, request_parser_start, request_parser_path, request_parser_args,
     request_parser_headers_start, request_parser_header_key, request_parser_header_val,
     request_parser_hostname, request_parser_headers, request_parser_body, request_parser_chunks,
     request_parser_fini
<1>2. CASE UriIsNull
  BY <1>2, DelimitedStill DEF UriIsNull, Crash, Free
<1>3. CASE request_parser_headers
  <2> DEFINE x == Reply("100")
  <2>1. /\ Runs("on_hdrs_complete") /\ out' \in {out, Append(out, x)} /\ UNCHANGED <<got, sent>>
    BY <1>3 DEF request_parser_headers
  <2>2. Talking /\ Served
    BY <2>1, HookHas DEF TalkInv, Runs, HttpInv, ReadInv
  <2>3. Delimited(x)
    <3>1. x.id = request.id /\ x.framed = ~parser.multipart
      BY DEF Reply
    <3> HIDE DEF x
    <3> QED
      BY <2>1, <2>2, <3>1, MultipartKnown, DelimitedReply DEF Runs
  <2> HIDE DEF x
  <2> QED
    BY <2>1, <2>3, DelimitedMore
<1>4. CASE request_parser_fini
  <2> DEFINE req == [request EXCEPT !.args = IF should_parse_query_body THEN request.body ELSE @]
             x == [Reply("full") EXCEPT !.args = req.args]
             y == [Reply("head") EXCEPT !.args = req.args]
  <2>1. /\ Runs("on_msg_complete") /\ RunCallback(req) /\ UNCHANGED <<got, sent>>
    BY <1>4 DEF request_parser_fini, history
  <2>2. Talking /\ Served
    BY <2>1, HookHas DEF TalkInv, Runs, HttpInv, ReadInv
  <2>3. x.id = request.id /\ x.framed = ~parser.multipart /\ y.id = request.id /\ y.framed = ~parser.multipart
    BY DEF Reply
  <2> HIDE DEF req, x, y
  <2>4. out' \in {out, Append(out, x)} \/ out' \in {out, Append(out, y)}
    BY <2>1 DEF RunCallback, x, y
  <2>5. Delimited(x) /\ Delimited(y)
    BY <2>1, <2>2, <2>3, MultipartKnown, DelimitedReply DEF Runs
  <2> QED
    BY <2>1, <2>4, <2>5, DelimitedMore
<1>5. ASSUME UNCHANGED <<out, got, sent>> PROVE DelimInv'
  BY <1>5, DelimitedStill
<1>6. CASE request_parser_start \/ request_parser_path \/ request_parser_args
          \/ request_parser_headers_start \/ request_parser_header_key \/ request_parser_header_val
          \/ request_parser_hostname \/ request_parser_body \/ request_parser_chunks
  BY <1>5, <1>6 DEF request_parser_start, request_parser_path, request_parser_args,
     request_parser_headers_start, request_parser_header_key, request_parser_header_val,
     request_parser_hostname, request_parser_body, request_parser_chunks, history
<1> QED
  BY <1>2, <1>3, <1>4, <1>6 DEF RunHook

LEMMA DelimitedAnswer ==
  ASSUME HttpInv, TalkInv, DelimInv, ~waived, Answer
  PROVE  DelimInv'
<1> DEFINE x == Reply(IF request.cb = "chunks" THEN "end" ELSE "full")
<1>1. /\ Served /\ request.id \in late /\ life = "open"
      /\ out' = Append(out, x) /\ UNCHANGED <<got, sent>>
  BY DEF Answer, InLoop, history
<1>2. Talking
  BY <1>1 DEF TalkInv
<1>3. WasRead
  BY <1>1, <1>2 DEF Talking, Idle, BeingRead
<1>4. x.id = request.id /\ x.framed = ~parser.multipart
  BY DEF Reply
<1> HIDE DEF x
<1>5. Delimited(x)
  BY <1>1, <1>2, <1>3, <1>4, DelimitedReply DEF WasRead
<1> QED
  BY <1>1, <1>5, DelimitedMore

LEMMA DelimKept ==
  ASSUME HttpInv, TalkInv, DelimInv, [Next]_vars
  PROVE  DelimInv'
<1> SUFFICES ASSUME ~waived' PROVE DelimInv'
  BY DEF DelimInv
<1>1. ~waived
  BY NoWayBack
<1>2. CASE Accept \/ Read \/ Run \/ Back \/ Resume \/ UNCHANGED vars
  BY <1>1, <1>2, DelimitedStill DEF Accept, Read, Run, Back, Resume, vars, history
<1>3. CASE Leave \/ Fail \/ PeerGone
  BY <1>1, <1>3, DelimitedStill DEF Leave, Fail, PeerGone, Close, Free, history
<1>4. CASE \E q \in Questions : Send(q)
  BY <1>1, <1>4, DelimitedStill DEF Send
<1>5. CASE RunHook
  BY <1>1, <1>5, DelimitedHook
<1>6. CASE Drain
  BY <1>1, <1>6, DelimitedDrain
<1>7. CASE Answer
  BY <1>1, <1>7, DelimitedAnswer
<1> QED
  BY <1>2, <1>3, <1>4, <1>5, <1>6, <1>7 DEF Next, Loop, Finished, Waiting

\* RepliesDelimited for any messages that are understood alone: what the parser
\* found of a multipart request before, or of a part of its own, does not leave a reply without a
\* length: _evhttpx_create_reply.
THEOREM RepliesAreDelimited == Spec => []RepliesDelimited
<1>1. Init => DelimInv
  BY DEF Init, DelimInv
<1>2. DelimInv => RepliesDelimited
  BY DEF DelimInv, Delimited, RepliesDelimited
<1> QED
  BY <1>1, <1>2, DelimKept, InvAlways, TalkAlways, PTL DEF Spec
=============================================================================
