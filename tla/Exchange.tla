------------------------------ MODULE Exchange ------------------------------
(***************************************************************************)
(* The texts of one request and its reply: a client writes a query or a    *)
(* body, the server parses it, answers with the pairs it has read, and the *)
(* client reads the answer.                                                *)
(***************************************************************************)
EXTENDS Replies

CONSTANT Wishes   \* the lists of pairs a client sends

VARIABLES
  leg,     \* where the request is
  wish,    \* what the client meant
  line,    \* the text on its way
  args,    \* the pairs the server has read
  kind     \* "query" or "body", and the kind of the reply

exchangeVars == <<leg, wish, line, args, kind>>

ExchangeInit ==
  /\ leg = "idle" /\ wish = <<>> /\ line = <<>> /\ args = <<>>
  /\ kind = <<"none", "none">>

keysWord == <<107, 101, 121, 115>>
valuesWord == <<118, 97, 108, 117, 101, 115>>

\* The client: a query, or the body of an mset, on one line.
Ask == \E w \in Wishes :
  /\ leg = "idle" /\ wish' = w
  /\ \/ leg' = "query" /\ line' = QueryOf(w)
     \/ /\ leg' = "body"
        /\ line' = cJSON_PrintUnformatted(Object(<<
             Member(keysWord, Array([i \in DOMAIN w |-> Str(w[i].key)])),
             Member(valuesWord, Array([i \in DOMAIN w |-> Str(w[i].val)]))>>)) \o <<Newline>>
  /\ kind' = <<leg', "none">> /\ UNCHANGED args

ParseQuery ==
  /\ leg = "query" /\ leg' = "args"
  /\ args' = evhttpx_parse_query(line)
  /\ UNCHANGED <<wish, line, kind>>

FirstLine(s) == SubSeq(s, 1, SelectInSeq(s, LAMBDA c : c = Newline) - 1)

Zipped(keys, values) ==
  IF keys = NULL \/ values = NULL \/ Len(keys.kids) # Len(values.kids) THEN NoPairs
  ELSE [i \in DOMAIN keys.kids |-> Pair2(cJSON_GetArrayItem(keys, i - 1).text,
                                         cJSON_GetArrayItem(values, i - 1).text)]
PairsIn(root) ==
  Zipped(cJSON_GetObjectItem(root, keysWord), cJSON_GetObjectItem(root, valuesWord))

\* The body is its first line.
ParseBody ==
  /\ leg = "body" /\ leg' = "args"
  /\ args' = PairsIn(cJSON_Parse(FirstLine(line)))
  /\ UNCHANGED <<wish, line, kind>>

\* The echo in an error is of the query alone, not of the body.
Answer ==
  /\ leg = "args" /\ args # NoPairs /\ leg' = "reply"
  /\ LET key == args[1].key
         value == evhttpx_kv_find(args, key).text
         says(what, texts) == line' \in texts /\ kind' = <<kind[1], what>>
     IN \/ says("kv", {jsonfy_response_on_kv(key, value), rest_response_on_kv(key, value),
                       jsonfy_msgalt_response_on_kv_with_len(key, Len(key), value, Len(value)),
                       rest_msgalt_response_on_kv_with_len(key, Len(key), value, Len(value)),
                       rest_response_on_kv_with_len(key, Len(key), value, Len(value))})
        \/ says("quiet", {jsonfy_quiet_response_on_kv(key, value),
                          rest_quiet_response_on_kv(key, value),
                          jsonfy_quiet_response_on_kv_with_len(key, Len(key), value, Len(value)),
                          rest_quiet_response_on_kv_with_len(key, Len(key), value, Len(value))})
        \/ says("kvs", {jsonfy_response_on_kvs(args), jsonfy_quiet_response_on_kvs(args),
                        rest_response_on_kvs(args), rest_quiet_response_on_kvs(args)})
        \/ LET query == IF kind[1] = "query" THEN args ELSE NoPairs
           IN says("error", {jsonfy_response_on_error(404, <<>>, query),
                             rest_response_on_error(404, <<>>, query)})
  /\ UNCHANGED <<wish, args>>

\* The answers that are made of no pair of the request.
AnswerOther ==
  /\ leg = "args" /\ leg' = "reply" /\ UNCHANGED <<wish, args>>
  /\ kind' = <<kind[1], "other">>
  /\ line' \in
       {jsonfy_general_response(Ok), rest_general_response(Ok),
        jsonfy_response_on_sanity_check(400), rest_response_on_sanity_check(400),
        jsonfy_quiet_response(400), rest_quiet_response(400),
        jsonfy_quiet_response_on_iter(Some), jsonfy_response_on_iter(Some)}
       \cup UNION {{jsonfy_size_response(Some, Some, 120, q), jsonfy_version_response(1, 7, q),
                    rest_version_response(1, 7, q)} : q \in BOOLEAN}

\* The request is freed, answered or not.
Close ==
  /\ leg \in {"args", "reply"} /\ leg' = "idle"
  /\ wish' = <<>> /\ line' = <<>> /\ args' = <<>> /\ kind' = <<"none", "none">>

ExchangeNext ==
  \/ Ask \/ ParseQuery \/ ParseBody \/ Answer \/ AnswerOther \/ Close
ExchangeSpec == ExchangeInit /\ [][ExchangeNext]_exchangeVars

-----------------------------------------------------------------------------
(* Properties.                                                             *)

\* An error echoes a word as it was.  It may echo digits as a number, which is
\* then what they spell, up to the width of an unsigned int.
Echoes(item, v) ==
  LET spelled == DigitsRead(Unsigned(v), 0) IN
  CASE item.type = "string" -> item.text = v
    [] item.type = "true" -> v = trueText
    [] item.type = "false" -> v = falseText
    [] item.type = "number" ->
         /\ Unsigned(v) # <<>> /\ spelled.rest = <<>>
         /\ item.num \in 0 .. MaxUInt
         /\ (item.num - (IF Starts(v, Minus) THEN -spelled.n ELSE spelled.n)) % (MaxUInt + 1) = 0

\* What the server keeps of a value: of a query's, its escapes too.
Kept(v) == IF kind[1] = "query" THEN UrlEncoded(v) ELSE v
NeedsNoEscape(s) == \A i \in DOMAIN s : Escaped(s[i]) = <<s[i]>>

\* What is read from a reply is what the client meant, where this kind of reply
\* has it.
SaysTheWish(read) ==
  LET Under(o, i) == cJSON_GetObjectItem(o, wish[i].key)
      listed == cJSON_GetObjectItem(read, kvsWord)
      echoed == cJSON_GetObjectItem(cJSON_GetObjectItem(read, requestWord), argumentsWord)
      plain == NeedsNoEscape(wish[1].key \o Kept(wish[1].val))
  IN /\ kind[2] # "quiet" \/ plain => read # NULL
     /\ kind[2] = "kv" => Under(cJSON_GetObjectItem(read, kvWord), 1) = Str(Kept(wish[1].val))
     /\ kind[2] = "quiet" /\ plain => Under(read, 1) = Str(Kept(wish[1].val))
     /\ kind[2] = "kvs" =>
          /\ cJSON_GetArraySize(listed) = Len(wish)
          /\ \A i \in DOMAIN wish :
               Under(cJSON_GetArrayItem(listed, i - 1), i) = Str(Kept(wish[i].val))
     /\ kind[2] = "error" =>
          IF kind[1] = "query" THEN \A i \in DOMAIN wish : Echoes(Under(echoed, i), Kept(wish[i].val))
          ELSE echoed = Object(<<>>)

EscapesUndone ==
  kind[1] = "query" =>
    \A i \in DOMAIN wish : /\ safe_urldecode(Kept(wish[i].val)) = wish[i].val
                           /\ evhttpx_unescape_string(Kept(wish[i].val)) = wish[i].val

\* What a client sends under a key to be kept, a client reads under that key in
\* every reply that gives values; and what a query kept escaped, both decoders
\* give back.  A quiet reply to one key quotes nothing.  An error gives back the
\* words of the query, but not the leading zeros of its numbers, nor what an
\* unsigned int cannot hold.
ReplyReadsBack == leg = "reply" => SaysTheWish(cJSON_Parse(line)) /\ EscapesUndone
=============================================================================
