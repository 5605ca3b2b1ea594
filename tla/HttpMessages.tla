---------------------------- MODULE HttpMessages ----------------------------
(***************************************************************************)
(* What a message says: a good one, parsed symbol by symbol by a new       *)
(* parser, with hooks that let it pass, is a single request, and the one   *)
(* it is meant to be.  Nothing is said of messages after one another, of   *)
(* reads that cut them elsewhere, of hooks that pause or of answers.       *)
(***************************************************************************)
EXTENDS HttpConnection

\* A reader of a message: the parser, and what is known of the request.
Unread ==
    [p |-> NewParser, host |-> "main", on |-> FALSE, path |-> NoPath, args |-> <<>>, body |-> <<>>,
     headers |-> <<>>, cb |-> "none", keep |-> FALSE, over |-> FALSE, ok |-> TRUE]

OfForm(s) ==
    /\ s.p.content_len # 0
    /\ s.p.content_len = Len(s.body)
    /\ <<<<"Content-Type">>, <<"form">>>> \in ToSet(s.headers)

IsVirtual(host, arg) == host = "main" /\ arg # <<>> /\ arg[1] \in Hosts \ {"main"}

\* What a reader knows after a hook that lets the message pass.
Seen(s, h) ==
    CASE h.name = "on_msg_begin"     -> [s EXCEPT !.on = TRUE, !.ok = @ /\ ~s.on]
      [] h.name = "path"             -> [s EXCEPT !.path = h.arg, !.args = <<>>,
                                                  !.cb = CallbackOf(s.host, h.arg)]
      [] h.name = "args"             -> [s EXCEPT !.args = h.arg,
                                                  !.ok = @ /\ s.path # NoPath /\ "%bad" \notin ToSet(h.arg)]
      [] h.name = "hdr_key"          -> [s EXCEPT !.headers = Append(@, <<h.arg, <<>>>>)]
      [] h.name = "hdr_val"          -> [s EXCEPT !.headers[Len(s.headers)][2] = h.arg,
                                                  !.ok = @ /\ s.headers # <<>>]
      [] h.name = "hostname"         -> [s EXCEPT !.host = IF IsVirtual(s.host, h.arg) THEN h.arg[1] ELSE @,
                                                  !.cb = IF IsVirtual(s.host, h.arg) /\ s.path # NoPath
                                                         THEN CallbackOf(h.arg[1], s.path) ELSE @]
      [] h.name = "on_hdrs_complete" -> [s EXCEPT !.keep = http_parser_should_keep_alive(s.p)]
      [] h.name = "body"             -> [s EXCEPT !.body = @ \o h.arg]
      [] h.name = "on_msg_complete"  -> [s EXCEPT !.args = IF OfForm(s) THEN s.body ELSE @, !.over = TRUE,
                                                  !.ok = @ /\ s.path # NoPath]
      [] OTHER                       -> s

After(hooks, s) ==
    IF hooks = <<>> THEN s
    ELSE IF Len(hooks) = 1 THEN Seen(s, hooks[1]) ELSE Seen(Seen(s, hooks[1]), hooks[2])

\* One round of the parser on one symbol.
Round(s, ch) ==
    LET o == Step(s.p, <<ch>>)
    IN  After(o.run, [s EXCEPT !.p = o.p, !.ok = @ /\ ~o.error /\ ~EndsRead(s.p, ch)])

\* A symbol that the first round does not use is used by the second.
Stays_Put(s, ch) == Step(s.p, <<ch>>).used = 0

TakeIn(s, ch) ==
    IF ~Stays_Put(s, ch) THEN Round(s, ch)
    ELSE [Round(Round(s, ch), ch) EXCEPT !.ok = @ /\ Step(s.p, <<ch>>).run = <<>>
                                                  /\ ~Stays_Put(Round(s, ch), ch)]

\* The reader behind every symbol of a text.
Reading(text) ==
    LET behind[n \in 0..Len(text)] ==
            IF n = 0 THEN Unread ELSE TakeIn(behind[n - 1], text[n])
    IN behind

Answering == {"now", "default", "later", "chunks"}

Understood(q) ==
    LET n == Len(q.text)
        behind == Reading(q.text)
    IN  /\ \A i \in 0..n : /\ behind[i].ok
                           /\ behind[i].over <=> i = n
                           /\ behind[i].p.multipart => q.multipart
        /\ Meant(behind[n]) = Meant(q)
        /\ q.cb \in Answering => q.close \/ behind[n].keep

\* A good message is understood when it comes alone.
ASSUME GoodMessages == \A q \in Questions : q.good => Understood(q)
=============================================================================
