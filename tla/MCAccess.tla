------------------------------ MODULE MCAccess ------------------------------
(***************************************************************************)
(* Access with its parameters for TLC.                                     *)
(***************************************************************************)
EXTENDS Access
=============================================================================
