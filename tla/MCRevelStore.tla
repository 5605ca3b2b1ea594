---------------------------- MODULE MCRevelStore ----------------------------
(* Small instances of RevelStore for TLC, with and without REST.           *)
EXTENDS RevelRest

CONSTANTS d1, d2, a, b

\* bound: the key arrays of multi-key requests
ListsOfTwo == {<<>>, <<1>>, <<2, 1>>, <<1, 1>>}
ListsUpToOne == {<<>>, <<1>>}
=============================================================================
