---------------------------- MODULE MCRevelScans ----------------------------
(* A small instance of RevelScans for TLC.                                 *)
EXTENDS RevelScans

CONSTANTS d1, s1

NoLists == {}
TwoDigits == <<"0", "1">>
KeyTexts == [k \in Keys |-> IF k = 1 THEN <<"0">> ELSE <<"1", "1">>]
SomePatterns == {{<<"0">>}, {<<"0">>, <<"1">>}, {}}
SomeTexts == {<<"1">>, <<"1", "0">>}

\* bound: a distance, one that is no number, one that is cut to zero
SomeDistances == {<<"0">>, <<"-">>, <<"1", "0", "0">>}

\* What the next step depends on: no action and no invariant reads the answers.
WithoutAnswers == <<proc, handle, err, leaked, disk, past, snaps, iters>>
=============================================================================
