------------------------------- MODULE Config -------------------------------
(***************************************************************************)
(* The start of the server: the configuration file is read, stripped of    *)
(* comments, parsed and taken apart, and main opens a listener for each    *)
(* port it names.                                                          *)
(***************************************************************************)
EXTENDS JsonText

CONSTANTS
  ConfigFiles,      \* the files: a text, and the document it is meant to say
  TextMembers,      \* the members read as texts: their section and their name
  NumberMembers,    \* the members read as numbers
  RpcPorts,         \* the text member that lists the ports of the rpc server
  MaxPorts          \* the length of the array of ports

VARIABLES
  at,       \* what main is doing
  file,     \* the file there is
  config,   \* the text, then the members by section and name; <<>>: NULL
  ports,    \* rpc->ports
  tried,    \* how many of them have been bound, or not
  open,     \* the ports that are listened on
  server    \* httpx->server: the listener of the last port tried; {}: NULL

netVars == <<ports, tried, open, server>>
configVars == <<at, file, config, netVars>>

Star == 42
Apostrophe == 39

\* src[i], counted from zero; the byte behind the text ends it.
Byte(src, i) == IF i < Len(src) THEN src[i + 1] ELSE 0

\* quote is a bool: it keeps that there was a quote, not which.
AsBool(c) == IF c = 0 THEN 0 ELSE 1

\* Behind a quote a slash is kept, and a star is kept twice.
Verbatim(c, quote) == c \in {Slash, Star} /\ quote # 0
Copied(c) == IF c = Star THEN <<c, c>> ELSE <<c>>

\* The next newline, or none.
NewlineFrom(src, i) == SelectInSubSeq(src, i + 1, Len(src), LAMBDA c : c = Newline)

RECURSIVE Stripped(_, _, _, _, _)
Stripped(src, i, quote, comment, out) ==
  LET c == Byte(src, i)
      next == Byte(src, i + 1)
      go(n, q, com, more) == Stripped(src, i + n, q, com, out \o more)
      some == IF comment THEN <<>> ELSE <<c>>
  IN CASE i >= Len(src) -> [ok |-> TRUE, text |-> out]
       [] c = Backslash /\ ~comment -> go(2, quote, comment, <<c, next>>)
       [] c \in {Quote, Apostrophe} /\ ~comment ->
            go(1, IF quote = 0 THEN AsBool(c) ELSE IF quote = c THEN 0 ELSE quote, comment, <<c>>)
       [] Verbatim(c, quote) -> go(1, quote, comment, Copied(c))
       [] c = Slash /\ next = Slash ->
            IF NewlineFrom(src, i) = 0 THEN Failed
            ELSE Stripped(src, NewlineFrom(src, i), quote, comment, out)
       [] c = Slash /\ next = Star -> go(2, quote, TRUE, <<>>)
       [] c = Star /\ comment /\ next = Slash -> go(2, quote, FALSE, <<>>)
       [] OTHER -> go(1, quote, comment, some)

_xconfig_strip_comment(src) == Stripped(src, 0, 0, FALSE, <<>>)

valueint(item) == CASE item.type = "number" -> item.num [] item.type = "true" -> 1 [] OTHER -> 0

MemberOf(root, m) == cJSON_GetObjectItem(cJSON_GetObjectItem(root, m[1]), m[2])

\* strtok drops empty fields.
RECURSIVE Fields(_, _)
Fields(s, field) ==
  LET done == IF field = <<>> THEN <<>> ELSE <<field>> IN
  IF s = <<>> THEN done
  ELSE IF Head(s) = Comma THEN done \o Fields(Tail(s), <<>>)
  ELSE Fields(Tail(s), Append(field, Head(s)))

\* A field is a number, alone or before a blank; what is none is passed over.
fill_ports(text) ==
  LET number(f) == DigitsRead(skip(f), 0)
      numeric == SelectSeq(Fields(text, <<>>),
                   LAMBDA f : /\ skip(f) # <<>> /\ Head(skip(f)) \in DigitBytes
                              /\ number(f).rest = <<>> \/ Head(number(f).rest) <= Space)
  IN [i \in DOMAIN numeric |-> number(numeric[i]).n]

-----------------------------------------------------------------------------
ConfigInit ==
  /\ at = "start" /\ file \in ConfigFiles /\ config = <<>>
  /\ ports = <<>> /\ tried = 0 /\ open = {} /\ server = {}

\* _xconfig_load_config_body.
LoadBody ==
  /\ at = "start"
  /\ LET s == _xconfig_strip_comment(file.text) IN
     IF s.ok THEN at' = "parse" /\ config' = s.text ELSE at' = "dead" /\ UNCHANGED config
  /\ UNCHANGED <<file, netVars>>

\* Every member is dereferenced, there or not.
HasMembers(root) ==
  \A m \in TextMembers \cup NumberMembers :
    LET item == MemberOf(root, m) IN
    item # NULL /\ (m \in TextMembers => item.type = "string")

TakeApart(root) ==
  IF root = NULL THEN at' = "main" /\ config' = <<>>
  ELSE IF ~HasMembers(root) THEN at' = "dead" /\ config' = <<>>
  ELSE /\ at' = "main"
       /\ config' = [m \in TextMembers \cup NumberMembers |->
                       IF m \in TextMembers THEN MemberOf(root, m).text
                       ELSE valueint(MemberOf(root, m))]

InitInternal ==
  /\ at = "parse"
  /\ TakeApart(cJSON_Parse(config))
  /\ UNCHANGED <<file, netVars>>

\* main does not look whether there is a configuration, nor reveldb_rpc_init
\* how many ports fit.
RpcInit ==
  /\ at = "main"
  /\ IF config = <<>> \/ Len(fill_ports(config[RpcPorts])) > MaxPorts
     THEN at' = "dead" /\ UNCHANGED ports
     ELSE at' = "bind" /\ ports' = fill_ports(config[RpcPorts])
  /\ UNCHANGED <<file, config, tried, open, server>>

\* evhttpx_bind_socket: a port may be taken; nobody looks at the result.
Bind ==
  /\ at = "bind" /\ tried < Len(ports)
  /\ LET port == ports[tried + 1] IN
     \/ port \notin open /\ open' = open \cup {port} /\ server' = {port}
     \/ server' = {} /\ UNCHANGED open
  /\ tried' = tried + 1
  /\ UNCHANGED <<at, file, config, ports>>

\* event_base_loop runs as long as there is a listener.
Loop ==
  /\ at = "bind" /\ tried = Len(ports)
  /\ at' = IF open = {} THEN "stop" ELSE "serving"
  /\ UNCHANGED <<file, config, netVars>>

\* reveldb_rpc_stop frees httpx->server, which is NULL whenever the loop ended.
RpcStop ==
  /\ at = "stop"
  /\ at' = IF server = {} THEN "dead" ELSE "ended"
  /\ open' = open \ server
  /\ UNCHANGED <<file, config, ports, tried, server>>

ConfigNext == LoadBody \/ InitInternal \/ RpcInit \/ Bind \/ Loop \/ RpcStop
ConfigSpec == ConfigInit /\ [][ConfigNext]_configVars

-----------------------------------------------------------------------------
StarsTwice(s) == FlattenSeq([i \in DOMAIN s |-> IF s[i] = Star THEN <<Star, Star>> ELSE <<s[i]>>])

\* A file without comments is read as the document it says, but with every star
\* of its texts twice: the members have its values, the ports bound are those it
\* lists, in their order, and the server dies only when none of them could be
\* bound.
PlainConfigIsRead ==
  file.text = cJSON_Print(file.doc) =>
    /\ at \in {"bind", "serving", "stop"} =>
         /\ \A m \in TextMembers : config[m] = StarsTwice(MemberOf(file.doc, m).text)
         /\ \A m \in NumberMembers : config[m] = valueint(MemberOf(file.doc, m))
         /\ ports = file.ports
    /\ at = "serving" => open # {} /\ open \subseteq Range(file.ports)
    /\ at = "dead" => tried = Len(file.ports) /\ open = {}

\* The sample file carries a comment behind every line: a server starts from a
\* file with comments, unless it gets none of its ports.
CommentedConfigIsRead == at = "dead" => tried > 0
=============================================================================
