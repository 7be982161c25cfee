---------------------------- MODULE MCAcornDNS ----------------------------
(***************************************************************************)
(* A small instance of AcornDNS for TLC.                                    *)
(***************************************************************************)
EXTENDS AcornDNS
=============================================================================
