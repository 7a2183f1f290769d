------------------------------- MODULE MCIic --------------------------------
(***************************************************************************)
(* The IIC driver: the instances that differ only in the values their      *)
(* configurations give to the constants.                                   *)
(***************************************************************************)
EXTENDS IicDriver
=============================================================================
