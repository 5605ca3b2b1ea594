------------------------------ MODULE QueryText ------------------------------
(***************************************************************************)
(* The query of a request: how its text becomes a list of pairs, and how   *)
(* the escapes that the pairs keep are undone.                             *)
(***************************************************************************)
EXTENDS JsonText

Percent == 37
Plus == 43
Ampersand == 38
Semicolon == 59
Equals == 61
Question == 63

IsHex(c) == c \in DigitBytes \/ tolower(c) \in 97 .. 102

Pair2(key, val) == [key |-> key, val |-> val]
Blank == [w \in {"key", "val"} |-> <<>>]
QueryStart == [at |-> "start", on |-> "key", hex |-> 0, buf |-> Blank, pairs |-> <<>>]
QueryError(q) == [q EXCEPT !.at = "error"]

\* A byte of a key or a value; hex counts the bytes of an escape.
InText(q, c, len) ==
  CASE q.hex = 0 /\ q.on = "key" /\ c = Equals -> [q EXCEPT !.on = "val"]
    [] q.hex = 0 /\ q.on = "val" /\ c \in {Ampersand, Semicolon} ->
         [q EXCEPT !.pairs = Append(@, Pair2(q.buf["key"], q.buf["val"])),
                   !.buf = Blank, !.on = "key"]
    [] q.hex > 0 /\ ~IsHex(c) /\ (q.hex = 2 \/ Len(q.buf[q.on]) + 2 >= len) -> QueryError(q)
    [] OTHER -> [q EXCEPT !.buf[q.on] = Append(@, c),
                          !.hex = CASE q.hex = 0 /\ c = Percent -> 1
                                    [] q.hex = 1 /\ IsHex(c) -> 2
                                    [] OTHER -> 0]

QueryStep(q, c, len) ==
  CASE q.at = "error" \/ \E w \in DOMAIN q.buf : Len(q.buf[w]) >= len -> QueryError(q)
    [] q.at # "text" /\ c = Slash -> [q EXCEPT !.at = "mark"]
    [] q.at # "text" /\ c = Question -> [q EXCEPT !.at = "text"]
    [] q.at = "mark" -> QueryError(q)
    [] OTHER -> InText([q EXCEPT !.at = "text"], c, len)

NoPairs == <<Pair2("NULL", "NULL")>>

\* A last pair whose value is empty is dropped.
evhttpx_parse_query(query) ==
  LET end == FoldLeft(LAMBDA q, c : QueryStep(q, c, Len(query)), QueryStart, query)
  IN IF end.at = "error" THEN NoPairs
     ELSE IF <<>> \in {end.buf[w] : w \in DOMAIN end.buf} THEN end.pairs
     ELSE Append(end.pairs, Pair2(end.buf["key"], end.buf["val"]))

evhttpx_kvs_add_kv(kvs, kv) == Append(kvs, kv)
evhttpx_kvs_find_kv(kvs, key) == SelectInSeq(kvs, LAMBDA kv : SameName(kv.key, key))
evhttpx_kv_find(kvs, key) ==
  IF kvs = NoPairs \/ evhttpx_kvs_find_kv(kvs, key) = 0 THEN NULL
  ELSE Str(kvs[evhttpx_kvs_find_kv(kvs, key)].val)
evhttpx_kvs_for_each(kvs, cb(_, _), arg) ==
  IF kvs = NoPairs THEN arg ELSE FoldLeft(LAMBDA a, kv : cb(kv, a), arg, kvs)

\* A percent sign before no digit is dropped; before one digit, both and the
\* byte behind them.
evhttpx_unescape_string(s) ==
  FoldLeft(LAMBDA u, c :
             CASE u.hex = 0 /\ c = Percent -> [u EXCEPT !.hex = 1]
               [] u.hex = 0 -> [u EXCEPT !.out = Append(@, c)]
               [] u.hex = 1 /\ IsHex(c) -> [u EXCEPT !.hex = 2, !.d = HexValue(c)]
               [] u.hex = 1 -> [u EXCEPT !.hex = 0, !.out = Append(@, c)]
               [] IsHex(c) -> [u EXCEPT !.hex = 0, !.out = Append(@, 16 * u.d + HexValue(c))]
               [] OTHER -> [u EXCEPT !.hex = 0],
           [hex |-> 0, d |-> 0, out |-> <<>>], s).out

\* A percent sign that starts no escape stays, with the two bytes behind it.
RECURSIVE safe_urldecode(_)
safe_urldecode(s) ==
  CASE s = <<>> -> s
    [] Head(s) = Percent /\ Len(s) >= 3 ->
         (IF IsHex(s[2]) /\ IsHex(s[3]) THEN <<16 * HexValue(s[2]) + HexValue(s[3])>>
          ELSE SubSeq(s, 1, 3)) \o safe_urldecode(Rest(s, 3))
    [] OTHER -> <<IF Head(s) = Plus THEN Space ELSE Head(s)>> \o safe_urldecode(Tail(s))

-----------------------------------------------------------------------------
(* How a client writes a query: what is no letter, digit or hyphen is      *)
(* escaped.                                                                *)

Plain(c) == c \in DigitBytes \/ tolower(c) \in 97 .. 122 \/ c = Minus
UrlEncoded(s) ==
  FlattenSeq([i \in DOMAIN s |->
    IF Plain(s[i]) THEN <<s[i]>>
    ELSE <<Percent, HexDigit(s[i] \div 16), HexDigit(s[i] % 16)>>])
QueryOf(pairs) ==
  Joined([i \in DOMAIN pairs |-> pairs[i].key \o <<Equals>> \o UrlEncoded(pairs[i].val)],
         <<Ampersand>>)
=============================================================================
