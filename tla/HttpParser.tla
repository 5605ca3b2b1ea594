----------------------------- MODULE HttpParser -----------------------------
(***************************************************************************)
(* The request parser of src/evhttpx/httpparser/http-parser.c: one step of *)
(* http_parser_run.  The input is a sequence of symbols: a mark (space,    *)
(* slash, line end, ...) or a word, which stands for a run of characters   *)
(* that no state tells apart.  A method is two symbols, because its first  *)
(* character is what starts a request.                                     *)
(***************************************************************************)
EXTENDS Naturals, Sequences

CONSTANTS Symbols,         \* what the input is made of
          BufMax           \* PARSER_STACK_MAX, in symbols

ASSUME ParserAssumption == "SP" \in Symbols /\ BufMax \in Nat \ {0}

CR == "CR"
LF == "LF"
SP == "SP"
TAB == "TAB"

Versions == [v \in {"HTTP/1.0", "HTTP/1.1"} |-> IF v = "HTTP/1.0" THEN <<1, 0>> ELSE <<1, 1>>]
Methods  == [m \in {<<"G", "ET">>, <<"P", "OST">>, <<"P", "UT">>} |->
               IF m[1] = "G" THEN "GET" ELSE IF m[2] = "OST" THEN "POST" ELSE "PUT"]
Numbers  == [ch \in {"0", "1", "2", "3"} |->
               CASE ch = "0" -> 0 [] ch = "1" -> 1 [] ch = "2" -> 2 [] ch = "3" -> 3]
Upper    == {"G", "P", "ET", "OST", "UT", "OLL"}
Letters  == {"http", "h", "v", "a", "b"}

NewParser == [state |-> "start", flags |-> {}, heval |-> "none", method |-> "GET",
              multipart |-> FALSE, version |-> <<0, 0>>, content_len |-> 0,
              buf |-> <<>>, path_offset |-> 0, args_offset |-> 0]

\* What a symbol does: the parser after it, how many symbols it used, the
\* hooks to run, in order, and whether the parser has set an error.
Outcome(p, run) == [p |-> p, used |-> 1, run |-> run, error |-> FALSE]
Go(p)           == Outcome(p, <<>>)
Error(p)        == [Go(p) EXCEPT !.error = TRUE]
Again(p)        == [Go(p) EXCEPT !.used = 0]
Hook(name, arg) == <<[name |-> name, arg |-> arg]>>

To(p, state)    == [p EXCEPT !.state = state]
Put(p, ch)      == [p EXCEPT !.buf = Append(@, ch)]
Clear(p)        == [p EXCEPT !.buf = <<>>]
From(p, offset) == SubSeq(p.buf, offset, Len(p.buf))

HasFlag(p, flag) == flag \in p.flags

http_parser_should_keep_alive(p) ==
    IF p.version[1] > 0 /\ p.version[2] > 0 THEN ~HasFlag(p, "close") ELSE HasFlag(p, "keep_alive")
-----------------------------------------------------------------------------
(* The request line *)

s_start(p, ch) ==
    LET fresh == [p EXCEPT !.flags = {}]
    IN  IF ch \in {CR, LF} THEN Go(fresh)
        ELSE IF ch \notin Upper THEN Error(fresh)
        ELSE Outcome(To(Put(fresh, ch), "method"), Hook("on_msg_begin", ch))

\* A method that is not known leaves the one of the request before.
s_method(p, ch) ==
    IF ch = SP
    THEN Go(To(Clear([p EXCEPT !.method = IF p.buf \in DOMAIN Methods THEN Methods[p.buf] ELSE @]),
               "spaces_before_uri"))
    ELSE IF ch \in Upper THEN Go(Put(p, ch)) ELSE Error(p)

StartPath(p, ch) == To(Put([p EXCEPT !.path_offset = Len(p.buf) + 1], ch), "after_slash_in_uri")

s_spaces_before_uri(p, ch) ==
    IF ch = SP THEN Go(p)
    ELSE IF ch = "/" THEN Go(StartPath(p, ch))
    ELSE IF ch \in Letters THEN Go(To(Put(p, ch), "schema"))
    ELSE Error(p)

s_schema(p, ch) ==
    IF ch \in Letters THEN Go(Put(p, ch))
    ELSE IF ch = ":" THEN Go(To(Put(p, ch), "schema_slash"))
    ELSE Error(p)

s_schema_slash(p, ch) ==
    IF ch # "/" THEN Error(p)
    ELSE Go(To(Put(p, ch), IF p.state = "schema_slash" THEN "schema_slash_slash" ELSE "host"))

\* A space stands for the path, and is then read once more as what ends it.
s_host(p, ch) ==
    IF ch \in Letters THEN Go(Put(p, ch))
    ELSE IF ch = ":" THEN Go(To(Put(p, ch), "port"))
    ELSE IF ch = "/" THEN Go(StartPath(p, ch))
    ELSE IF ch = SP THEN Again(StartPath(p, ch))
    ELSE Error(p)

s_port(p, ch) ==
    IF ch \in DOMAIN Numbers THEN Go(Put(p, ch))
    ELSE IF ch = "/" THEN Go(StartPath(p, ch))
    ELSE IF ch = SP THEN Go(To(Clear(p), "http_09"))
    ELSE Error(p)

\* The line ends after the URI: HTTP 0.9.  No hook has seen the path then.
EndOfLine(p, ch) ==
    Go(To([p EXCEPT !.version[2] = 9], IF ch = CR THEN "almost_done" ELSE "hdrline_start"))

StartArgs(p, ch) == To([Put(p, ch) EXCEPT !.args_offset = Len(p.buf) + 2], "uri")

EndUri(p, run) == Outcome(To(Clear(p), "http_09"), run)

s_after_slash_in_uri(p, ch) ==
    CASE ch = SP               -> EndUri(p, Hook("path", From(p, p.path_offset)))
      [] ch \in {CR, LF}       -> EndOfLine(p, ch)
      [] ch \in {".", "/"}     -> Go(To(Put(p, ch), "uri"))
      [] ch = "?"              -> Outcome(StartArgs(p, ch), Hook("path", p.buf))
      [] OTHER                 -> Go(To(Put(p, ch), "check_uri"))

\* The offset of arguments is not reset between requests of one read.
s_check_uri(p, ch) ==
    CASE ch = SP               -> EndUri(p, IF p.args_offset # 0 THEN Hook("args", From(p, p.args_offset))
                                            ELSE Hook("path", p.buf))
      [] ch = "/"              -> Go(To(Put(p, ch), "after_slash_in_uri"))
      [] ch \in {CR, LF}       -> EndOfLine(Clear(p), ch)
      [] ch = "?"              -> Outcome(StartArgs(p, ch), Hook("path", From(p, p.path_offset)))
      [] ch = "."              -> Go(To(Put(p, ch), "uri"))
      [] OTHER                 -> Go(Put(p, ch))

\* Every question mark runs the path hook and starts the arguments anew.
s_uri(p, ch) ==
    CASE ch = SP               -> EndUri(p, IF p.args_offset # 0 THEN Hook("args", From(p, p.args_offset))
                                            ELSE Hook("path", From(p, p.path_offset)))
      [] ch = "?"              -> Outcome(StartArgs(p, ch), Hook("path", From(p, p.path_offset)))
      [] ch \in {CR, LF}       -> EndOfLine(Clear(p), ch)
      [] OTHER                 -> Go(Put(p, ch))

s_http_09(p, ch) ==
    IF ch = SP THEN Go(p)
    ELSE IF ch \in {CR, LF} THEN EndOfLine(Clear(p), ch)
    ELSE IF ch \in DOMAIN Versions THEN Go(To([Clear(p) EXCEPT !.version = Versions[ch]], "minor_digit"))
    ELSE Error(p)

s_minor_digit(p, ch) ==
    IF ch = SP THEN Go(To(p, "spaces_after_digit"))
    ELSE IF ch = CR THEN Go(To(p, "almost_done"))
    ELSE Error(p)

s_spaces_after_digit(p, ch) ==
    IF ch = SP THEN Go(p)
    ELSE IF ch = CR THEN Go(To(p, "almost_done"))
    ELSE IF ch = LF THEN Go(To(p, "hdrline_start"))
    ELSE Error(p)

s_almost_done(p, ch) ==
    IF ch = LF THEN Outcome(To(p, "done"), Hook("on_hdrs_begin", ch)) ELSE Error(p)
-----------------------------------------------------------------------------
(* Headers *)

s_hdrline_start(p, ch) ==
    IF ch = CR THEN Go(To(Clear(p), "hdrline_hdr_almost_done"))
    ELSE IF ch = LF THEN Go(To(Clear(p), "hdrline_hdr_done"))
    ELSE Go(To(Put(Clear(p), ch), "hdrline_hdr_key"))

\* A request without headers skips on_hdrs_complete.  An LF is dropped and ends
\* the read (EndsRead).
s_done(p, ch) ==
    IF ch = CR THEN Go(To(p, "hdrline_almost_done"))
    ELSE IF ch = LF THEN Go(p)
    ELSE s_hdrline_start(p, ch)

Evaluated == {"Host", "Connection", "Content-Type", "Content-Length", "Transfer-Encoding"}

s_hdrline_hdr_key(p, ch) ==
    CASE ch = ":"  -> Outcome(To(Clear([p EXCEPT !.heval = IF Head(p.buf) \in Evaluated THEN Head(p.buf)
                                                           ELSE "none"]),
                                 "hdrline_hdr_space_before_val"),
                              Hook("hdr_key", p.buf))
      [] ch = CR   -> Go(To(p, "hdrline_hdr_almost_done"))
      [] ch = LF   -> Go(To(p, "hdrline_hdr_done"))
      [] OTHER     -> Go(Put(p, ch))

\* The line end after an empty value is read once more.
s_hdrline_hdr_space_before_val(p, ch) ==
    CASE ch = SP   -> Go(p)
      [] ch = CR   -> Again(To(Put(p, SP), "hdrline_hdr_val"))
      [] ch = LF   -> Error(p)
      [] OTHER     -> Go(To(Put(p, ch), "hdrline_hdr_val"))

Number(buf) == IF Len(buf) = 1 /\ buf[1] \in DOMAIN Numbers THEN {Numbers[buf[1]]} ELSE {}

AddFlag(p, flag) == [p EXCEPT !.flags = @ \cup {flag}]

\* What the parser itself takes from a value.
Evaluate(p) ==
    CASE p.heval = "Connection" /\ p.buf = <<"Keep-Alive">>      -> AddFlag(p, "keep_alive")
      [] p.heval = "Connection" /\ p.buf = <<"close">>           -> AddFlag(p, "close")
      [] p.heval = "Transfer-Encoding" /\ p.buf = <<"chunked">>  -> AddFlag(p, "chunked")
      [] p.heval = "Content-Type" /\ p.buf = <<"multipart">>     -> [p EXCEPT !.multipart = TRUE]
      [] p.heval = "Content-Length"                              ->
             [p EXCEPT !.content_len = CHOOSE n \in Number(p.buf) : TRUE]
      [] OTHER                                                   -> p

s_hdrline_hdr_val(p, ch) ==
    IF ch = LF THEN Error(p)
    ELSE IF ch # CR THEN Go(Put(p, ch))
    ELSE IF p.heval = "Content-Length" /\ Number(p.buf) = {} THEN Error([p EXCEPT !.content_len = 0])
    ELSE Outcome(To(Evaluate(p), "hdrline_hdr_almost_done"),
                 IF p.heval = "Host" THEN Hook("hostname", p.buf) ELSE <<>>)

Complete(p) == Outcome(To(p, "start"), Hook("on_msg_complete", <<>>))

s_hdrline_hdr_almost_done(p, ch) ==
    IF ch # LF THEN Error(p)
    ELSE IF HasFlag(p, "trailing") THEN Complete(p)
    ELSE Go(To(p, "hdrline_hdr_done"))

\* A value ends where the next line begins with anything but a tab.
s_hdrline_hdr_done(p, ch) ==
    CASE ch = LF   -> Error(p)
      [] ch = TAB  -> Go(To(p, "hdrline_hdr_val"))
      [] ch = CR   -> Outcome(To(p, "hdrline_almost_done"),
                              Hook("hdr_val", p.buf) \o Hook("on_hdrs_complete", <<>>))
      [] OTHER     -> Outcome(To(Put(Clear(p), ch), "hdrline_hdr_key"), Hook("hdr_val", p.buf))

\* When the hook for a value fails, the line stays to be begun, but the
\* character that began it is gone.
ValueFailed(p, value) == To([p EXCEPT !.buf = value], "hdrline_hdr_done")

s_hdrline_almost_done(p, ch) ==
    IF ch # LF THEN Error(p)
    ELSE IF HasFlag(p, "trailing") THEN Complete(Clear(p))
    ELSE IF HasFlag(p, "chunked") THEN Go(To(Clear(p), "chunk_size_start"))
    ELSE IF p.content_len > 0 THEN Go(To(Clear(p), "body_read"))
    ELSE Complete(Clear(p))
-----------------------------------------------------------------------------
(* The body *)

s_chunk_size_start(p, ch) ==
    IF ch \in DOMAIN Numbers THEN Go(To([p EXCEPT !.content_len = Numbers[ch]], "chunk_size"))
    ELSE Error(p)

s_chunk_size(p, ch) ==
    IF ch = CR THEN Go(To(p, "chunk_size_almost_done"))
    ELSE IF ch \in DOMAIN Numbers THEN Go([p EXCEPT !.content_len = @ * 16 + Numbers[ch]])
    ELSE Error(p)

s_chunk_size_almost_done(p, ch) ==
    IF ch # LF THEN Error(p)
    ELSE IF p.content_len = 0
    THEN Outcome(To(AddFlag(p, "trailing"), "hdrline_start"), Hook("on_chunks_complete", <<>>))
    ELSE Outcome(To(p, "chunk_data"), Hook("on_new_chunk", <<>>))

\* As many symbols of a body as this read has.
Taken(p, data) == IF Len(data) < p.content_len THEN Len(data) ELSE p.content_len

Rest(p, data) == p.content_len - Taken(p, data)

Body(p, data, next, run) ==
    LET n == Taken(p, data)
        q == [p EXCEPT !.content_len = Rest(p, data), !.state = IF Rest(p, data) = 0 THEN next ELSE @]
    IN  [Outcome(q, Hook("body", SubSeq(data, 1, n)) \o (IF Rest(p, data) = 0 THEN run ELSE <<>>))
         EXCEPT !.used = n]

s_chunk_data(p, data) == Body(p, data, "chunk_data_almost_done", <<>>)

s_chunk_data_almost_done(p, ch) == IF ch = CR THEN Go(To(p, "chunk_data_done")) ELSE Error(p)

s_chunk_data_done(p, ch) ==
    IF ch = LF THEN Outcome(To(p, "chunk_size_start"), Hook("on_chunk_complete", <<>>)) ELSE Error(p)

s_body_read(p, data) == Body(p, data, "start", Hook("on_msg_complete", <<>>))
-----------------------------------------------------------------------------
\* Mutant: the bound is not looked at.
Full_Never(p) == FALSE

Full(p) == Len(p.buf) >= BufMax

\* One round of http_parser_run, with the symbols that are left of the read.
Step(p, data) ==
    LET ch == Head(data)
    IN  IF Full(p) THEN Error(p)
        ELSE
        CASE p.state = "start"                        -> s_start(p, ch)
          [] p.state = "method"                       -> s_method(p, ch)
          [] p.state = "spaces_before_uri"            -> s_spaces_before_uri(p, ch)
          [] p.state = "schema"                       -> s_schema(p, ch)
          [] p.state \in {"schema_slash", "schema_slash_slash"} -> s_schema_slash(p, ch)
          [] p.state = "host"                         -> s_host(p, ch)
          [] p.state = "port"                         -> s_port(p, ch)
          [] p.state = "after_slash_in_uri"           -> s_after_slash_in_uri(p, ch)
          [] p.state = "check_uri"                    -> s_check_uri(p, ch)
          [] p.state = "uri"                          -> s_uri(p, ch)
          [] p.state = "http_09"                      -> s_http_09(p, ch)
          [] p.state = "minor_digit"                  -> s_minor_digit(p, ch)
          [] p.state = "spaces_after_digit"           -> s_spaces_after_digit(p, ch)
          [] p.state = "almost_done"                  -> s_almost_done(p, ch)
          [] p.state = "done"                         -> s_done(p, ch)
          [] p.state = "hdrline_start"                -> s_hdrline_start(p, ch)
          [] p.state = "hdrline_hdr_key"              -> s_hdrline_hdr_key(p, ch)
          [] p.state = "hdrline_hdr_space_before_val" -> s_hdrline_hdr_space_before_val(p, ch)
          [] p.state = "hdrline_hdr_val"              -> s_hdrline_hdr_val(p, ch)
          [] p.state = "hdrline_hdr_almost_done"      -> s_hdrline_hdr_almost_done(p, ch)
          [] p.state = "hdrline_hdr_done"             -> s_hdrline_hdr_done(p, ch)
          [] p.state = "hdrline_almost_done"          -> s_hdrline_almost_done(p, ch)
          [] p.state = "chunk_size_start"             -> s_chunk_size_start(p, ch)
          [] p.state = "chunk_size"                   -> s_chunk_size(p, ch)
          [] p.state = "chunk_size_almost_done"       -> s_chunk_size_almost_done(p, ch)
          [] p.state = "chunk_data"                   -> s_chunk_data(p, data)
          [] p.state = "chunk_data_almost_done"       -> s_chunk_data_almost_done(p, ch)
          [] p.state = "chunk_data_done"              -> s_chunk_data_done(p, ch)
          [] p.state = "body_read"                    -> s_body_read(p, data)

\* An LF where a header or an empty line must follow ends the read early,
\* without an error.
EndsRead(p, ch) == p.state = "done" /\ ch = LF
=============================================================================
