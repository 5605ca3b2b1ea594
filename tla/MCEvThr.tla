------------------------------ MODULE MCEvThr -------------------------------
(* Constants of the run of EvThr. *)
EXTENDS EvThr

CONSTANTS c1, c2
=============================================================================
