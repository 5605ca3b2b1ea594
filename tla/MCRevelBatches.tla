--------------------------- MODULE MCRevelBatches ---------------------------
(* Small instances of RevelBatches for TLC.                                *)
EXTENDS RevelBatches

CONSTANTS d1, d2, a, b1

\* bound: batches of at most two operations on one key
OneKeyTwice == {<<>>, <<1>>, <<1, 1>>}
=============================================================================
