----------------------------- MODULE MCVolumes -----------------------------
(***************************************************************************)
(* A small instance of Volumes for TLC: app b asks for the volume of a.     *)
(***************************************************************************)
EXTENDS Volumes

CONSTANTS a, b

BtoA == [x \in Apps |-> IF x = b THEN a ELSE None]
TwiceOnce == [x \in Apps |-> IF x = a THEN 2 ELSE 1]
=============================================================================
