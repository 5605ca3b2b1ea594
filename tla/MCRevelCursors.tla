--------------------------- MODULE MCRevelCursors ---------------------------
(* Small instances of RevelCursors for TLC.                                *)
EXTENDS RevelCursors

CONSTANTS d1, d2, a, i1, s1

NoLists == {}

\* What the next step depends on: no action and no invariant reads the answers.
WithoutAnswers == <<proc, handle, err, leaked, disk, past, snaps, iters>>
=============================================================================
