------------------------------- MODULE MCTftp -------------------------------
(***************************************************************************)
(* The client with a server over a network: the instances that differ only *)
(* in the values their configurations give to the constants.               *)
(***************************************************************************)
EXTENDS Tftp
=============================================================================
