------------------------------- MODULE MCQuota -------------------------------
(***************************************************************************)
(* Small instances of Quota for TLC.                                        *)
(***************************************************************************)
EXTENDS Quota

WithUnparsable == {1, 2, 3}
JustThree == {3}
=============================================================================
