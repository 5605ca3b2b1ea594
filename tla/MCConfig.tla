------------------------------ MODULE MCConfig ------------------------------
(* A configuration file with comments, for TLC.                            *)
EXTENDS Config

Section == <<115>>
SomeTextMembers == {<<Section, <<112>>>>}
SomeNumberMembers == {<<Section, <<98>>>>}
ThePorts == <<Section, <<112>>>>

\* {"s":{"p":"8,9", //c
\* "b":1}}, and the same with the comment in front of the first text.
SomeDoc == Object(<<Member(Section, Object(<<Member(<<112>>, Str(<<56, 44, 57>>)),
                                              Member(<<98>>, Number(1))>>))>>)
Comment == <<Slash, Slash, 99, Newline>>
CommentedText ==
  <<123, 34, 115, 34, 58, 123, 34, 112, 34, 58, 34, 56, 44, 57, 34, 44, 32>> \o Comment \o
  <<34, 98, 34, 58, 49, 125, 125>>
CommentedFiles ==
  {[doc |-> SomeDoc, text |-> t, ports |-> <<8, 9>>] :
     t \in {CommentedText, Comment \o cJSON_Print(SomeDoc)}}
=============================================================================
