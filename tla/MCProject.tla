------------------------------ MODULE MCProject ------------------------------
(***************************************************************************)
(* Small instances of Project for TLC.                                      *)
(***************************************************************************)
EXTENDS Project, TLC

CONSTANTS web, db, cache

\* db is nested in web, cache in db.
ThreeApps == {web, db, cache}
Nested == web :> NoParent @@ db :> web @@ cache :> db
WebDb == {web, db}
=============================================================================
