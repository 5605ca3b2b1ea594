------------------------------ MODULE Routing ------------------------------
(***************************************************************************)
(* The tables a server is given before it listens: callbacks for paths and *)
(* patterns of paths, virtual hosts with their names and aliases; and what *)
(* a request finds in them.                                                *)
(***************************************************************************)
EXTENDS Integers, SequencesExt

CONSTANTS
  Servers,    \* the evhttpx_t there are
  Symbols,   \* the characters of paths and hosts
  Wildcard,        \* the character *
  HostNames,  \* the names and aliases of virtual hosts
  MaxText,    \* bound: the length of paths and patterns
  MaxTable    \* bound: the callbacks and the virtual hosts of a server

VARIABLES
  callbacks,   \* of the one server requests come to, in the order they were set
  vhosts,      \* the virtual hosts of every server
  names,       \* server_name and the aliases of every server
  found        \* the last lookup: kind, text and result

routingVars == <<callbacks, vhosts, names, found>>

ASSUME RoutingAssumption == MaxTable \in Nat /\ MaxText \in Nat /\ Wildcard \notin Symbols

Texts(letters) == UNION {[1 .. n -> letters] : n \in 0 .. MaxText}

-----------------------------------------------------------------------------
\* mutant: a star stands for one character at least
RECURSIVE glob_match_Some(_, _)
glob_match_Some(p, s) ==
  IF p = <<>> THEN s = <<>>
  ELSE IF Head(p) = Wildcard
       THEN \E i \in 1 .. Len(s) : glob_match_Some(Tail(p), SubSeq(s, i + 1, Len(s)))
  ELSE s # <<>> /\ Head(p) = Head(s) /\ glob_match_Some(Tail(p), Tail(s))

\* Stars in front of the next character.
Unstarred(p) == SubSeq(p, SelectInSeq(Append(p, "end"), LAMBDA c : c # Wildcard), Len(p))

\* A star tries what is left of the string from each of its characters, but not
\* from its end; when the string is used up, stars that follow are passed over.
RECURSIVE glob_match(_, _)
glob_match(p, s) ==
  IF p = <<>> THEN s = <<>>
  ELSE IF Head(p) = Wildcard
       THEN LET rest == Unstarred(p) IN
            \/ rest = <<>>
            \/ \E i \in 1 .. Len(s) : glob_match(rest, SubSeq(s, i, Len(s)))
  ELSE /\ s # <<>> /\ Head(p) = Head(s)
       /\ IF Tail(s) = <<>> THEN Unstarred(Tail(p)) = <<>> ELSE glob_match(Tail(p), Tail(s))

Fits(callback, path) ==
  IF callback.type = "hash" THEN callback.path = path ELSE glob_match(callback.path, path)

\* The first that fits; 0: the default callback.
callback_find(path) == SelectInSeq(callbacks, LAMBDA callback : Fits(callback, path))

\* The first virtual host one of whose names fits; 0: the server itself.
find_vhost(e, host) ==
  SelectInSeq(vhosts[e], LAMBDA v : glob_match(names[v].server_name, host)
                                    \/ \E a \in ToSet(names[v].aliases) : glob_match(a, host))

-----------------------------------------------------------------------------
RoutingInit ==
  /\ callbacks = <<>>
  /\ vhosts = [e \in Servers |-> <<>>]
  /\ names = [e \in Servers |-> [server_name |-> <<>>, aliases |-> <<>>]]
  /\ found = <<"none">>

NoHosts == \A e \in Servers : vhosts[e] = <<>> /\ names[e].aliases = <<>>
Called(type, path) == callbacks' = Append(callbacks, [type |-> type, path |-> path])

\* bound: callbacks and hosts are set in different behaviours
evhttpx_set_cb ==
  /\ Len(callbacks) < MaxTable /\ NoHosts
  /\ \E path \in Texts(Symbols) : Called("hash", path)
  /\ UNCHANGED <<vhosts, names, found>>

evhttpx_set_glob_cb ==
  /\ Len(callbacks) < MaxTable /\ NoHosts
  /\ \E pattern \in Texts(Symbols \cup {Wildcard}) : Called("glob", pattern)
  /\ UNCHANGED <<vhosts, names, found>>

\* bound: one alias
evhttpx_add_alias ==
  /\ callbacks = <<>>
  /\ \E e \in Servers, name \in HostNames :
       /\ \A u \in Servers : names[u].aliases = <<>>
       /\ names' = [names EXCEPT ![e].aliases = Append(@, name)]
  /\ UNCHANGED <<callbacks, vhosts, found>>

\* A server is added once; it is refused when it has virtual hosts itself, not
\* when it is one and is given some later.
evhttpx_add_vhost ==
  /\ callbacks = <<>>
  /\ \E e, v \in Servers, name \in HostNames :
       /\ e # v /\ Len(vhosts[e]) < MaxTable
       /\ \A u \in Servers : v \notin ToSet(vhosts[u])
       /\ IF vhosts[v] # <<>> THEN UNCHANGED <<vhosts, names>> /\ found' = <<"refused">>
          ELSE /\ names' = [names EXCEPT ![v].server_name = name]
               /\ vhosts' = [vhosts EXCEPT ![e] = Append(@, v)]
               /\ found' = <<"added">>
  /\ UNCHANGED callbacks

FindCallback == \E path \in Texts(Symbols) :
  /\ callbacks # <<>>
  /\ found' = <<"callback", path, callback_find(path)>>
  /\ UNCHANGED <<callbacks, vhosts, names>>

FindVhost == \E e \in Servers, host \in Texts(Symbols) :
  /\ vhosts[e] # <<>>
  /\ found' = <<"vhost", host, find_vhost(e, host), e>>
  /\ UNCHANGED <<callbacks, vhosts, names>>

RoutingNext ==
  \/ evhttpx_set_cb \/ evhttpx_set_glob_cb \/ evhttpx_add_alias \/ evhttpx_add_vhost
  \/ FindCallback \/ FindVhost
RoutingSpec == RoutingInit /\ [][RoutingNext]_routingVars

-----------------------------------------------------------------------------
(* Properties.                                                             *)

\* Where in the pattern a reader can be: behind a star it stays, and stars can
\* be passed without reading.
Passed(p, at) == {j \in 1 .. Len(p) + 1 : \E i \in at : i <= j /\ \A k \in i .. j - 1 : p[k] = Wildcard}
Read(p, at, c) == Passed(p, {i \in at : i <= Len(p) /\ p[i] = Wildcard} \cup
                            {i + 1 : i \in {j \in at : j <= Len(p) /\ p[j] = c}})
Matches(p, s) == Len(p) + 1 \in FoldLeft(LAMBDA at, c : Read(p, at, c), Passed(p, {1}), s)

IsFirst(i, seq, Test(_)) ==
  IF i = 0 THEN \A j \in DOMAIN seq : ~Test(seq[j])
  ELSE Test(seq[i]) /\ \A j \in 1 .. i - 1 : ~Test(seq[j])

\* A request is routed to the callback set first among those whose path is its
\* path or whose pattern, a star for any text, is one of it, and to the virtual
\* host added first among those one of whose names is so.
RoutesAreRight ==
  [][/\ found'[1] = "callback" =>
          IsFirst(found'[3], callbacks, LAMBDA c : IF c.type = "hash" THEN c.path = found'[2]
                                                   ELSE Matches(c.path, found'[2]))
     /\ found'[1] = "vhost" =>
          IsFirst(found'[3], vhosts[found'[4]],
                  LAMBDA v : \E n \in {names[v].server_name} \cup ToSet(names[v].aliases) :
                               Matches(n, found'[2]))]_routingVars
=============================================================================
