-------------------------- MODULE MCHttpConnection --------------------------
(* Messages, callbacks and hooks of the runs of HttpConnection. *)
EXTENDS HttpMessages

Line(method, uri) == method \o <<SP>> \o uri \o <<SP, "HTTP/1.1", CR, LF>>
Header(key, value) == <<key, ":", SP, value, CR, LF>>
End == <<CR, LF>>

Message(text, path, args, body, cb) ==
    [text |-> text, path |-> path, args |-> args, body |-> body, cb |-> cb, good |-> TRUE,
     close |-> FALSE, multipart |-> FALSE, form |-> FALSE, silent |-> FALSE]

Get  == <<"G", "ET">>
Post == <<"P", "OST">>
Host == Header("Host", "h")

Query == Message(Line(Get, <<"/", "a", "?", "b">>) \o Host \o End, <<"/", "a">>, <<"b">>, <<>>, "now")

\* A form of two symbols, for a virtual host.
Form == [Message(Line(Post, <<"/", "a", "/", "b">>) \o Header("Host", "v")
                 \o Header("Content-Type", "form") \o Header("Content-Length", "2") \o End \o <<"x", "y">>,
                 <<"/", "a", "/", "b">>, <<>>, <<"x", "y">>, "later") EXCEPT !.form = TRUE]

\* A body in one chunk, with a request for 100-continue.
Chunked == Message(Line(Post, <<"/", "a", "/", "h">>) \o Header("Expect", "c")
                   \o Header("Transfer-Encoding", "chunked") \o End
                   \o <<"1", CR, LF, "x", CR, LF, "0", CR, LF, CR, LF>>,
                   <<"/", "a", "/", "h">>, <<>>, <<"x">>, "chunks")

Parts == [Message(Line(Post, <<"/">>) \o Header("Content-Type", "multipart") \o End,
                  <<"/">>, <<>>, <<>>, "default") EXCEPT !.multipart = TRUE]

\* A version with a line of its own, and no header.
Old == [Message(Get \o <<SP, "/", ".", SP, "HTTP/1.0", CR, LF>> \o End, <<"/", ".">>, <<>>, <<>>, "default")
        EXCEPT !.close = TRUE]

Closing == [Message(Line(Get, <<"/", "a", "/", "a">>) \o Header("Connection", "close") \o End,
                    <<"/", "a", "/", "a">>, <<>>, <<>>, "chunks") EXCEPT !.close = TRUE]

\* No callback answers.
Silent == [Message(Line(Get, <<"/", "b">>) \o Host \o End, <<"/", "b">>, <<>>, <<>>, "never")
           EXCEPT !.silent = TRUE]

\* The application takes the connection.
Upgrade == [Message(Line(Get, <<"/", "v">>) \o End, <<"/", "v">>, <<>>, <<>>, "take") EXCEPT !.silent = TRUE]

Absolute == Message(Line(Get, <<"http", ":", "/", "/", "h", ":", "0", "/", "a", "?", "b">>) \o Host \o End,
                    <<"/", "a">>, <<"b">>, <<>>, "now")

Bad(text, path, args) == [Message(text, path, args, <<>>, "none") EXCEPT !.good = FALSE]

\* A path taken for all of the URI, no path, no version, no header, no query.
Whole    == Bad(Line(Get, <<"h", ":", "/", "/", "h", "/", "a">>) \o End, <<"/", "a">>, <<>>)
NoPaths  == Bad(Line(Get, <<"http", ":", "/", "/", "h", ":", "0">>) \o End, NoPath, <<>>)
Http09   == Bad(Get \o <<SP, "/", "a", CR, LF, CR, LF>>, NoPath, <<>>)
Garbled  == Bad(Line(Get, <<"/", "a">>) \o <<"Host", CR, LF>> \o End, <<"/", "a">>, <<>>)
BadQuery == Bad(Line(Get, <<"/", "a", "?", "%bad">>) \o End, <<"/", "a">>, <<"%bad">>)
TwoMarks == Bad(Line(Get, <<"/", "a", "?", "b", "?", "b">>) \o End, <<"/", "a">>, <<"b", "?", "b">>)

\* A body and a URI that are too long.
Big      == Bad(Line(Post, <<"/", "a">>) \o Header("Content-Length", "3") \o End \o <<"x", "y", "z">>,
                <<"/", "a">>, <<>>)
TooLarge == Bad(Line(Get, <<"/", "a", "?">> \o [i \in 1..BufMax |-> "b"]) \o End, <<"/", "a">>, <<"b">>)

MCQuestions == {Query, Form, Chunked, Parts, Old, Closing, Silent, Upgrade, Absolute,
                Whole, NoPaths, Http09, Garbled, BadQuery, TwoMarks, Big, TooLarge}

MCSymbols == UNION {ToSet(q.text) : q \in MCQuestions}

MCCallbacks ==
    "main" :> (<<"/", "a">> :> "now" @@ <<"/", "a", "/">> :> "chunks" @@ <<"/", "b">> :> "never"
               @@ <<"/", "v">> :> "take")
 @@ "v"    :> (<<"/", "a", "/", "b">> :> "later" @@ <<"/", "a", "/">> :> "never")

MCHookResults ==
    "accept" :> {"OK", "FATAL"} @@ "on_path" :> {"OK"} @@ "on_header" :> {"OK"}
 @@ "on_hostname" :> {"OK", "PAUSE"} @@ "on_headers" :> {"OK", "FATAL"} @@ "on_read" :> {"OK", "PAUSE"}
=============================================================================
