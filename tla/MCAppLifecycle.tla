--------------------------- MODULE MCAppLifecycle ---------------------------
(***************************************************************************)
(* Small instances of AppLifecycle for TLC.                                 *)
(***************************************************************************)
EXTENDS AppLifecycle, TLC

CONSTANTS init, web, db

InitJob == {init}
WebOnly == {web}
WebDb == {web, db}

\* web waits for the job init.
WebAfterInit == (init :> {} @@ web :> {init})
\* init needs the database, the web server needs both.
InitAfterDb == (init :> {db} @@ web :> {init, db} @@ db :> {})

CreateUpdateDelete == (init :> {"create", "update", "delete"})
CreateStop == (init :> {"create", "stop"})
Every == (init :> EventNames)
=============================================================================
