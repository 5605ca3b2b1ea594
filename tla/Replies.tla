------------------------------- MODULE Replies -------------------------------
(***************************************************************************)
(* The texts of the server's replies.  The REST interface has a copy of    *)
(* most of them.  The words that are the same in every reply are given by  *)
(* their bytes; the date and the messages are a letter each.               *)
(***************************************************************************)
EXTENDS QueryText

CONSTANTS
  MaxLong,  \* bound: the largest long, LONG_MAX in the code
  MaxUInt   \* bound: the largest unsigned int, UINT_MAX in the code

\* safe_strtoul, which keeps 32 bits of an unsigned long.
Numeral == INSTANCE Numerals WITH
  Digits <- [i \in 1 .. 10 |-> Zero + i - 1], MaxLL <- MaxLong

codeWord == <<99, 111, 100, 101>>
statusWord == <<115, 116, 97, 116, 117, 115>>
messageWord == <<109, 101, 115, 115, 97, 103, 101>>
dateWord == <<100, 97, 116, 101>>
requestWord == <<114, 101, 113, 117, 101, 115, 116>>
headersWord == <<104, 101, 97, 100, 101, 114, 115>>
argumentsWord == <<97, 114, 103, 117, 109, 101, 110, 116, 115>>
kvWord == <<107, 118>>
kvsWord == <<107, 118, 115>>
iterWord == <<105, 116, 101, 114>>
idWord == <<105, 100>>
sizeWord == <<115, 105, 122, 101>>
majorWord == <<109, 97, 106, 111, 114>>
minorWord == <<109, 105, 110, 111, 114>>
startWord == <<115, 116, 97, 114, 116>>
limitWord == <<108, 105, 109, 105, 116>>
Some == <<120>>   \* a date, a message
Ok == 200

AddString(o, name, s) == cJSON_AddItemToObject(o, name, Str(s))
AddNumber(o, name, n) == cJSON_AddItemToObject(o, name, Number(n))

General(n) ==
  AddString(AddString(AddString(AddNumber(Object(<<>>), codeWord, n), statusWord, Some),
                      messageWord, Some), dateWord, Some)
With(o, name, item) == cJSON_PrintUnformatted(cJSON_AddItemToObject(o, name, item))
One(name, item) == Object(<<Member(name, item)>>)

\* {"name": "text"}, as it is.
Quiet(name, text) ==
  <<OpenObject, Quote>> \o name \o <<Quote, Colon, Space, Quote>> \o text
  \o <<Quote, CloseObject>>

jsonfy_general_response(n) == cJSON_PrintUnformatted(General(n))
jsonfy_response_on_sanity_check(n) == cJSON_PrintUnformatted(General(n))
jsonfy_quiet_response(n) ==
  <<OpenObject, Quote>> \o codeWord \o <<Quote, Colon, Space>> \o print_number(n) \o <<CloseObject>>

jsonfy_quiet_response_on_kv(key, value) == Quiet(key, value)
jsonfy_quiet_response_on_kv_with_len(key, klen, value, vlen) ==
  Quiet(SubSeq(key, 1, klen), SubSeq(value, 1, vlen))
jsonfy_response_on_kv(key, value) == With(General(Ok), kvWord, One(key, Str(value)))
jsonfy_response_on_kv_with_len(key, klen, value, vlen) ==
  With(General(Ok), kvWord, One(SubSeq(key, 1, klen), Str(SubSeq(value, 1, vlen))))
jsonfy_msgalt_response_on_kv_with_len(key, klen, value, vlen) ==
  jsonfy_response_on_kv_with_len(key, klen, value, vlen)

jsonfy_quiet_response_on_iter(id) == Quiet(idWord, id)
jsonfy_response_on_iter(id) == With(General(Ok), iterWord, One(idWord, Str(id)))

jsonfy_kv_pair(kv, root) == cJSON_AddItemToArray(root, One(kv.key, Str(kv.val)))
jsonfy_kv_pairs2nd(kvs) == evhttpx_kvs_for_each(kvs, jsonfy_kv_pair, Array(<<>>))
jsonfy_quiet_response_on_kvs(kvs) == With(Object(<<>>), kvsWord, jsonfy_kv_pairs2nd(kvs))
jsonfy_response_on_kvs(kvs) == With(General(Ok), kvsWord, jsonfy_kv_pairs2nd(kvs))

\* What reads as a number is echoed as one, cut to an unsigned int.
parse_kv_pair(kv, root) ==
  cJSON_AddItemToObject(root, kv.key,
    CASE kv.val = trueText -> Bool(TRUE)
      [] kv.val = falseText -> Bool(FALSE)
      [] Numeral!safe_strtoul(kv.val) -> Number(Numeral!ToUnsigned(kv.val))
      [] OTHER -> Str(kv.val))
jsonfy_kv_pairs(kvs) == evhttpx_kvs_for_each(kvs, parse_kv_pair, Object(<<>>))
jsonfy_response_on_error(n, headers, query) ==
  With(General(n), requestWord,
       Object(<<Member(headersWord, jsonfy_kv_pairs(headers)),
                Member(argumentsWord, jsonfy_kv_pairs(query))>>))

QuietNumber(name, n) == <<Quote>> \o name \o <<Quote, Colon, Space>> \o print_number(n)
jsonfy_size_response(start, limit, size, quiet) ==
  IF quiet THEN <<OpenObject>> \o QuietNumber(sizeWord, size) \o <<CloseObject>>
  ELSE With(AddString(AddString(General(Ok), startWord, start), limitWord, limit),
            sizeWord, Number(size))
jsonfy_version_response(major, minor, quiet) ==
  IF quiet THEN <<OpenObject>> \o QuietNumber(majorWord, major) \o <<Comma, Space>>
                \o QuietNumber(minorWord, minor) \o <<CloseObject>>
  ELSE With(AddNumber(General(Ok), majorWord, major), minorWord, Number(minor))

-----------------------------------------------------------------------------
(* The copies of the REST interface.                                       *)

rest_general_response(n) == jsonfy_general_response(n)
rest_response_on_sanity_check(n) == jsonfy_response_on_sanity_check(n)
rest_quiet_response(n) == jsonfy_quiet_response(n)
rest_quiet_response_on_kv(key, value) == jsonfy_quiet_response_on_kv(key, value)
rest_quiet_response_on_kv_with_len(key, klen, value, vlen) ==
  jsonfy_quiet_response_on_kv_with_len(key, klen, value, vlen)
rest_response_on_kv(key, value) == jsonfy_response_on_kv(key, value)
rest_response_on_kv_with_len(key, klen, value, vlen) ==
  jsonfy_response_on_kv_with_len(key, klen, value, vlen)
rest_msgalt_response_on_kv_with_len(key, klen, value, vlen) ==
  jsonfy_msgalt_response_on_kv_with_len(key, klen, value, vlen)
rest_kv_pairs2nd(kvs) == jsonfy_kv_pairs2nd(kvs)
rest_quiet_response_on_kvs(kvs) == jsonfy_quiet_response_on_kvs(kvs)
rest_response_on_kvs(kvs) == jsonfy_response_on_kvs(kvs)
rest_kv_pairs(kvs) == jsonfy_kv_pairs(kvs)
rest_response_on_error(n, headers, query) == jsonfy_response_on_error(n, headers, query)
rest_version_response(major, minor, quiet) == jsonfy_version_response(major, minor, quiet)
=============================================================================
