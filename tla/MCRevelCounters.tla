-------------------------- MODULE MCRevelCounters --------------------------
(* A small instance of RevelCounters for TLC: three digits and long longs   *)
(* from -4 to 3.                                                           *)
EXTENDS RevelCounters

CONSTANTS d1

NoLists == {}
ThreeDigits == <<"0", "1", "2">>

\* bound: a number, one at the limit, one with text after it, one out of
\* range, one that is too long, and texts that are no numbers
SomeInputs ==
  {<<"1">>, <<" ", "1", "0">>, <<"1", " ", "x">>, <<"1", "1">>,
   <<"-", "0", "0", "0", "1">>, <<"-">>, <<"1", "x">>}
SomeSteps == {<<"1">>, <<"1", "0">>, <<"-", "1">>, <<"1", "-">>}
=============================================================================
