----------------------------- MODULE MCSimulator ----------------------------
(***************************************************************************)
(* The loop, on the programs of Programs.                                  *)
(***************************************************************************)
EXTENDS Contexts, Programs
=============================================================================
