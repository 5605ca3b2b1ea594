------------------------------ MODULE JsonText ------------------------------
(***************************************************************************)
(* cJSON: documents, the text they are printed as, and what a text is      *)
(* parsed to.  A text is a sequence of bytes.  A document is a record with *)
(* its type, and its text, number, kids (of an array) or members (of an    *)
(* object).                                                                *)
(*                                                                         *)
(* Left out: fractions and exponents, which nothing in the program prints  *)
(* or reads; texts that end behind a backslash or inside the digits of \u, *)
(* which are read past their end; failures of malloc.                      *)
(***************************************************************************)
EXTENDS Integers, SequencesExt

Tab == 9
Newline == 10
Space == 32
Quote == 34
Comma == 44
Minus == 45
Slash == 47
Colon == 58
OpenArray == 91
Backslash == 92
CloseArray == 93
OpenObject == 123
CloseObject == 125
Zero == 48
DigitBytes == 48 .. 57
LetterE == 101

nullText == <<110, 117, 108, 108>>
falseText == <<102, 97, 108, 115, 101>>
trueText == <<116, 114, 117, 101>>

Null == [type |-> "null"]
Bool(b) == [type |-> IF b THEN "true" ELSE "false"]
Number(n) == [type |-> "number", num |-> n]
Str(s) == [type |-> "string", text |-> s]
Array(kids) == [type |-> "array", kids |-> kids]
Object(members) == [type |-> "object", members |-> members]
Member(name, item) == [name |-> name, item |-> item]

tolower(c) == IF c \in 65 .. 90 THEN c + 32 ELSE c
SameName(s, t) ==
  Len(s) = Len(t) /\ \A i \in DOMAIN s : tolower(s[i]) = tolower(t[i])

-----------------------------------------------------------------------------
(* Printing.                                                               *)

RECURSIVE Decimal(_)
Decimal(n) == IF n < 10 THEN <<Zero + n>> ELSE Append(Decimal(n \div 10), Zero + (n % 10))
print_number(n) == IF n < 0 THEN <<Minus>> \o Decimal(-n) ELSE Decimal(n)

HexDigit(n) == IF n < 10 THEN Zero + n ELSE 97 + n - 10

\* The letters of the short escapes, by the byte they stand for.
Letters == 8 :> 98 @@ 12 :> 102 @@ 10 :> 110 @@ 13 :> 114 @@ 9 :> 116
Shorts == Letters @@ 34 :> 34 @@ 92 :> 92

\* mutant: a backslash is printed as it is
Escaped_NoBackslash(c) ==
  CASE c \in DOMAIN Shorts \ {Backslash} -> <<Backslash, Shorts[c]>>
    [] c < 32 -> <<Backslash, 117, Zero, Zero, HexDigit(c \div 16), HexDigit(c % 16)>>
    [] OTHER -> <<c>>

Escaped(c) ==
  CASE c \in DOMAIN Shorts -> <<Backslash, Shorts[c]>>
    [] c < 32 -> <<Backslash, 117, Zero, Zero, HexDigit(c \div 16), HexDigit(c % 16)>>
    [] OTHER -> <<c>>

print_string(s) == <<Quote>> \o FlattenSeq([i \in DOMAIN s |-> Escaped(s[i])]) \o <<Quote>>

Tabs(n) == [i \in 1 .. n |-> Tab]
Joined(texts, comma) ==
  FlattenSeq([i \in DOMAIN texts |-> IF i = Len(texts) THEN texts[i] ELSE texts[i] \o comma])

RECURSIVE print_value(_, _, _)

print_array(kids, depth, fmt) ==
  <<OpenArray>>
  \o Joined([i \in DOMAIN kids |-> print_value(kids[i], depth + 1, fmt)],
            IF fmt THEN <<Comma, Space>> ELSE <<Comma>>)
  \o <<CloseArray>>

print_object(members, depth, fmt) ==
  LET line == IF fmt THEN <<Newline>> ELSE <<>>
      print(m) == (IF fmt THEN Tabs(depth + 1) ELSE <<>>) \o print_string(m.name) \o <<Colon>>
                  \o (IF fmt THEN <<Tab>> ELSE <<>>) \o print_value(m.item, depth + 1, fmt)
  IN <<OpenObject>> \o line
     \o Joined([i \in DOMAIN members |-> print(members[i])], <<Comma>> \o line)
     \o (IF fmt THEN (IF members = <<>> THEN <<>> ELSE line) \o Tabs(depth) ELSE <<>>)
     \o <<CloseObject>>

print_value(item, depth, fmt) ==
  CASE item.type = "null" -> nullText
    [] item.type = "false" -> falseText
    [] item.type = "true" -> trueText
    [] item.type = "number" -> print_number(item.num)
    [] item.type = "string" -> print_string(item.text)
    [] item.type = "array" -> print_array(item.kids, depth, fmt)
    [] item.type = "object" -> print_object(item.members, depth, fmt)

cJSON_Print(item) == print_value(item, 0, TRUE)
cJSON_PrintUnformatted(item) == print_value(item, 0, FALSE)

-----------------------------------------------------------------------------
(* Parsing.  What a parser returns: the document, and the text behind it.  *)

Failed == [ok |-> FALSE]
Parsed(item, rest) == [ok |-> TRUE, item |-> item, rest |-> rest]
Starts(s, c) == s # <<>> /\ Head(s) = c

RECURSIVE skip(_)
skip(s) == IF s # <<>> /\ Head(s) <= 32 THEN skip(Tail(s)) ELSE s

HexValue(c) == IF c \in DigitBytes THEN c - Zero ELSE tolower(c) - 97 + 10
Hex4(s) == FoldLeft(LAMBDA n, c : 16 * n + HexValue(c), 0, SubSeq(s, 1, 4))
Rest(s, n) == SubSeq(s, n + 1, Len(s))

UtfOf(uc) ==
  CASE uc < 128 -> <<uc>>
    [] uc < 2048 -> <<192 + uc \div 64, 128 + (uc % 64)>>
    [] uc < 65536 -> <<224 + uc \div 4096, 128 + ((uc \div 64) % 64), 128 + (uc % 64)>>
    [] OTHER -> <<240 + uc \div 262144, 128 + ((uc \div 4096) % 64),
                  128 + ((uc \div 64) % 64), 128 + (uc % 64)>>

\* 0x10000 is or-ed to twenty bits of which the fifth may be set.
Pair(high, low) ==
  LET bits == (high % 1024) * 1024 + (low % 1024)
  IN IF (bits \div 65536) % 2 = 1 THEN bits ELSE bits + 65536

\* The digits of \u, and the second half of a surrogate pair: the bytes and how
\* much of s they took.
Transcoded(s) ==
  LET uc == Hex4(s)
      low == Hex4(Rest(s, 6))
  IN IF uc = 0 \/ uc \in 56320 .. 57343 THEN [out |-> <<>>, took |-> 4]
     ELSE IF uc \notin 55296 .. 56319 THEN [out |-> UtfOf(uc), took |-> 4]
     ELSE IF SubSeq(s, 5, 6) # <<Backslash, 117>> THEN [out |-> <<>>, took |-> 4]
     ELSE IF low \notin 56320 .. 57343 THEN [out |-> <<>>, took |-> 10]
     ELSE [out |-> UtfOf(Pair(uc, low)), took |-> 10]

\* What stands behind a backslash.
Unescaped(s) ==
  IF \E c \in DOMAIN Letters : Letters[c] = s[1]
  THEN [out |-> <<CHOOSE c \in DOMAIN Letters : Letters[c] = s[1]>>, took |-> 1]
  ELSE IF s[1] # 117 THEN [out |-> <<s[1]>>, took |-> 1]
  ELSE LET t == Transcoded(Tail(s)) IN [t EXCEPT !.took = @ + 1]

\* A text that is not ended is taken as it is.
RECURSIVE Unquoted(_, _)
Unquoted(s, out) ==
  IF s = <<>> THEN Parsed(out, s)
  ELSE IF Head(s) = Quote THEN Parsed(out, Tail(s))
  ELSE IF Head(s) # Backslash \/ Len(s) = 1 THEN Unquoted(Tail(s), Append(out, Head(s)))
  ELSE LET u == Unescaped(Tail(s)) IN Unquoted(Rest(s, 1 + u.took), out \o u.out)

parse_string(s) == IF Starts(s, Quote) THEN Unquoted(Tail(s), <<>>) ELSE Failed

RECURSIVE DigitsRead(_, _)
DigitsRead(s, n) ==
  IF s # <<>> /\ Head(s) \in DigitBytes THEN DigitsRead(Tail(s), 10 * n + Head(s) - Zero)
  ELSE [n |-> n, rest |-> s]

\* One zero may lead; the number ends before a second.
Unsigned(s) == IF Starts(s, Minus) THEN Tail(s) ELSE s
Unzeroed(s) == IF Starts(s, Zero) THEN Tail(s) ELSE s
parse_number(s) ==
  LET digits == Unzeroed(Unsigned(s))
      d == IF Starts(digits, Zero) THEN [n |-> 0, rest |-> digits] ELSE DigitsRead(digits, 0)
  IN Parsed(Number(IF Starts(s, Minus) THEN -d.n ELSE d.n), d.rest)

RECURSIVE parse_value(_)

\* A name, a colon and a value.
ValueRead(name, value) ==
  IF value.ok THEN Parsed(Member(name, value.item), value.rest) ELSE Failed
NameRead(name, colon) ==
  IF Starts(colon, Colon) THEN ValueRead(name, parse_value(skip(Tail(colon)))) ELSE Failed
MemberFrom(name) == IF name.ok THEN NameRead(name.item, skip(name.rest)) ELSE Failed
parse_member(s) == MemberFrom(parse_string(s))

\* An element of an array, or a member of an object.
Element(s, close) == IF close = CloseArray THEN parse_value(s) ELSE parse_member(s)

\* What is left of the elements, up to close.
RECURSIVE Listed(_, _, _)
ElementRead(all, next, close) ==
  IF Starts(next, Comma) THEN Listed(Tail(next), close, all)
  ELSE IF Starts(next, close) THEN Parsed(all, Tail(next)) ELSE Failed
ListFrom(one, close, found) ==
  IF one.ok THEN ElementRead(Append(found, one.item), skip(one.rest), close) ELSE Failed
Listed(s, close, found) == ListFrom(Element(skip(s), close), close, found)

ListIn(t, close) == IF Starts(t, close) THEN Parsed(<<>>, Tail(t)) ELSE Listed(t, close, <<>>)
AsItem(l, close) ==
  IF l.ok THEN Parsed(IF close = CloseArray THEN Array(l.item) ELSE Object(l.item), l.rest)
  ELSE Failed
parse_array(s) == AsItem(ListIn(skip(Tail(s)), CloseArray), CloseArray)
parse_object(s) == AsItem(ListIn(skip(Tail(s)), CloseObject), CloseObject)

parse_value(s) ==
  CASE s = <<>> -> Failed
    [] IsPrefix(nullText, s) -> Parsed(Null, Rest(s, 4))
    [] IsPrefix(falseText, s) -> Parsed(Bool(FALSE), Rest(s, 5))
    [] IsPrefix(trueText, s) -> Parsed(Bool(TRUE), Rest(s, 4))
    [] Head(s) = Quote -> [parse_string(s) EXCEPT !.item = Str(@)]
    [] Head(s) = Minus \/ Head(s) \in DigitBytes -> parse_number(s)
    [] Head(s) = OpenArray -> parse_array(s)
    [] Head(s) = OpenObject -> parse_object(s)
    [] OTHER -> Failed

NULL == [type |-> "NULL"]

\* What stands behind the document does not matter.
Document(p) == IF p.ok THEN p.item ELSE NULL
cJSON_Parse(s) == Document(parse_value(skip(s)))

-----------------------------------------------------------------------------
(* The elements of documents.                                              *)

cJSON_GetArraySize(a) == Len(a.kids)
cJSON_GetArrayItem(a, i) == IF i < Len(a.kids) THEN a.kids[i + 1] ELSE NULL

FirstNamed(o, name) == SelectInSeq(o.members, LAMBDA m : SameName(m.name, name))
cJSON_GetObjectItem(o, name) ==
  IF o = NULL \/ FirstNamed(o, name) = 0 THEN NULL ELSE o.members[FirstNamed(o, name)].item

cJSON_AddItemToArray(a, item) == [a EXCEPT !.kids = Append(@, item)]
cJSON_AddItemToObject(o, name, item) == [o EXCEPT !.members = Append(@, Member(name, item))]
cJSON_DeleteItemFromArray(a, i) ==
  IF i < Len(a.kids) THEN [a EXCEPT !.kids = RemoveAt(@, i + 1)] ELSE a
cJSON_DeleteItemFromObject(o, name) ==
  IF FirstNamed(o, name) = 0 THEN o ELSE [o EXCEPT !.members = RemoveAt(@, FirstNamed(o, name))]
cJSON_ReplaceItemInArray(a, i, item) ==
  IF i < Len(a.kids) THEN [a EXCEPT !.kids[i + 1] = item] ELSE a
cJSON_ReplaceItemInObject(o, name, item) ==
  IF FirstNamed(o, name) = 0 THEN o
  ELSE [o EXCEPT !.members[FirstNamed(o, name)] = Member(name, item)]
=============================================================================
