------------------------------ MODULE MCShell -------------------------------
(***************************************************************************)
(* The shell with a buffer of a few characters.                            *)
(***************************************************************************)
EXTENDS Shell
=============================================================================
