---------------------------- MODULE MCTftpClient ----------------------------
(***************************************************************************)
(* The client alone, in its open environment: every packet of an honest    *)
(* session at any time, however late and however often.                    *)
(***************************************************************************)
EXTENDS TftpClient
=============================================================================
