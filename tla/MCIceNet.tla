------------------------------ MODULE MCIceNet ------------------------------
(***************************************************************************)
(* The IceNet driver with rings of four buffers.                           *)
(***************************************************************************)
EXTENDS IceNet
=============================================================================
