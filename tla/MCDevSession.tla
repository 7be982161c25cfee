---------------------------- MODULE MCDevSession ----------------------------
(***************************************************************************)
(* Small instances of DevSession for TLC.                                   *)
(***************************************************************************)
EXTENDS DevSession
=============================================================================
