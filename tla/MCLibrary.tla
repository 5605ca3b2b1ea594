----------------------------- MODULE MCLibrary -----------------------------
(* Small instances of the parts of the library for TLC: one of them moves  *)
(* in a behaviour.                                                         *)
EXTENDS RbTree, SplayTree, TString, Exchange, Documents, Config, Routing

CONSTANTS la, lb   \* two letters

VARIABLE part   \* the part that moves

LibraryInit ==
  /\ part \in {"rbtree", "splaytree", "tstring", "exchange", "document", "config", "routing"}
  /\ RbInit /\ SplayInit /\ TStringInit /\ ExchangeInit /\ DocInit /\ ConfigInit /\ RoutingInit
  /\ part # "config" => file = CHOOSE f \in ConfigFiles : TRUE

LibraryNext ==
  /\ UNCHANGED part
  /\ \/ /\ part = "rbtree" /\ RbNext
        /\ UNCHANGED <<splayVars, tstringVars, exchangeVars, doc, configVars, routingVars>>
     \/ /\ part = "splaytree" /\ SplayNext
        /\ UNCHANGED <<rbVars, tstringVars, exchangeVars, doc, configVars, routingVars>>
     \/ /\ part = "tstring" /\ TStringNext
        /\ UNCHANGED <<rbVars, splayVars, exchangeVars, doc, configVars, routingVars>>
     \/ /\ part = "exchange" /\ ExchangeNext
        /\ UNCHANGED <<rbVars, splayVars, tstringVars, doc, configVars, routingVars>>
     \/ /\ part = "document" /\ DocNext
        /\ UNCHANGED <<rbVars, splayVars, tstringVars, exchangeVars, configVars, routingVars>>
     \/ /\ part = "config" /\ ConfigNext
        /\ UNCHANGED <<rbVars, splayVars, tstringVars, exchangeVars, doc, routingVars>>
     \/ /\ part = "routing" /\ RoutingNext
        /\ UNCHANGED <<rbVars, splayVars, tstringVars, exchangeVars, doc, configVars>>

LibrarySpec ==
  /\ LibraryInit
  /\ [][LibraryNext]_<<part, rbVars, splayVars, tstringVars, exchangeVars, doc, configVars, routingVars>>

\* The bytes of texts: a control character, the characters that the formats
\* give a meaning, a digit, a letter, a byte of no ASCII character.
SomeBytes == {7, 34, 37, 38, 55, 92, 97, 195}
ByteTexts == {<<b>> : b \in SomeBytes}
NumberTexts ==   \* zeros, leading zeros, too wide for an int and for a long, signs
  {<<48>>, <<48, 48>>, <<48, 55>>, <<55, 48>>, <<55, 55, 55>>,
   <<45>>, <<45, 55>>, <<45, 55, 55>>, <<55, 45>>}
SomeTexts == ByteTexts \cup {<<a, b>> : a, b \in SomeBytes} \cup {trueText} \cup NumberTexts
SomeWishes ==
  {<<Pair2(k, v)>> : k \in {<<97>>, <<75>>}, v \in SomeTexts} \cup
  {<<Pair2(<<97>>, v), Pair2(<<98>>, w)>> : v \in SomeTexts, w \in ByteTexts}
SomeLeaves == {Null, Bool(TRUE), Number(-120), Str(<<>>), Str(<<97, 34, 92>>),
               Str(<<10, 7, 200>>), Array(<<>>), Object(<<>>)}
SomeNames == {<<97>>, <<65>>, <<34>>}

SomeValues == {<<>>, <<97>>, <<66, 97>>}
SomeWides == {65, 233, 8364, 65536, 2097152, 67108864}

\* Configurations: what lists the ports, a name, a number and a truth value.
Section == <<115>>
SomeTextMembers == {<<Section, <<112>>>>, <<Section, <<110>>>>}
SomeNumberMembers == {<<Section, <<98>>>>, <<Section, <<116>>>>}
ThePorts == <<Section, <<112>>>>
Configured(text, name, some) ==
  Object(<<Member(Section, Object(<<Member(<<112>>, Str(text)), Member(<<110>>, Str(name)),
                                    Member(<<98>>, Number(1024)), Member(<<116>>, Bool(some))>>))>>)
PortTexts ==   \* with the ports they list
  {<<<<56>>, <<8>>>>, <<<<56, 44, 32, 57>>, <<8, 9>>>>, <<<<56, 44, 44, 56, 32, 97>>, <<8, 8>>>>,
   <<<<97, 44, 49, 48, 97, 44, 55>>, <<7>>>>, <<<<>>, <<>>>>}
\* bound: at most one star in a file, twice in the block of one byte more than it
PlainFiles ==
  {[doc |-> Configured(p[1], n, b), text |-> cJSON_Print(Configured(p[1], n, b)), ports |-> p[2]] :
     p \in PortTexts, n \in {<<47, 47, 97>>, <<34, 47, 42>>, <<92, 39>>}, b \in BOOLEAN}

SomeHostNames == {<<la>>, <<Wildcard>>, <<Wildcard, la>>}

\* bound: a string that holds a part of a wide character is not edited further
NarrowText ==
  str # NoString => \A i \in 1 .. str.len : str.cells[i] < 128 \/ str.cells[i] = Junk

\* What the next step depends on: not the last answers, not what erased nodes
\* point at, not the bytes behind a string's end.
WithoutAnswers ==
  <<part, rb.root, {<<n, rb.kid[n], rb.parent[n], rb.red[n]>> : n \in Linked}, tree,
    IF str = NoString THEN <<>>
    ELSE <<Len(str.cells), SubSeq(str.cells, 1, Smaller(Len(str.cells), str.len + 1))>>,
    exchangeVars, doc, configVars, callbacks, vhosts, names>>

\* After any sequence of insertions and removals both trees are ordered, the red
\* nodes and the black heights of the one and the sizes of the other right.
TreesAreSound == Balanced /\ Sized(tree)

\* Whatever shape it takes, a tree answers as a set of keys does, and the tables
\* of callbacks and virtual hosts answer with what was set first and fits.
LookupsAreRight == RbImplemented /\ SplayImplemented /\ RoutesAreRight

\* A document is read back from its text, what a client sends to be kept from
\* the texts of the server's replies, and a configuration without comments from
\* its file.
TextsReadBack == DocumentReadsBack /\ ReplyReadsBack /\ PlainConfigIsRead
=============================================================================
