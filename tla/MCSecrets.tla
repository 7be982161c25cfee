----------------------------- MODULE MCSecrets -----------------------------
(***************************************************************************)
(* A small instance of Secrets for TLC.                                     *)
(***************************************************************************)
EXTENDS Secrets

CONSTANTS tok, gnd, tpl, bnd

\* Those that are not generated come first, each group sorted by name.
\* The template comes before the generated secret it refers to.
Four == <<bnd, tok, tpl, gnd>>
Kinds == [s \in Secrets |->
            CASE s = tok -> "token" [] s = gnd -> "generated"
              [] s = tpl -> "template" [] OTHER -> "bound"]
Everything == [s \in Secrets |-> IF s = tpl THEN {bnd, gnd} ELSE {}]
=============================================================================
