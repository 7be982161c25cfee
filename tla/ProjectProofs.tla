---------------------------- MODULE ProjectProofs ----------------------------
(***************************************************************************)
(* Proofs about Project, for every nesting of apps and every bound, and      *)
(* about Quota and DevSession, for all demands, clients and bounds.  These   *)
(* two are instances, with variables of their own and with what they assume  *)
(* of their constants as hypotheses of the theorems.                         *)
(***************************************************************************)
EXTENDS Project, TLAPS

-----------------------------------------------------------------------------
(* The type invariant.                                                      *)

\* Deleting an app leaves every app in one of the three states.
LEMMA DeleteType ==
    ASSUME TypeOK, NEW a \in Apps, DeleteAnApp(a) \/ Goes(a)
    PROVE  apps' \in [Apps -> AppStates] /\ known' \subseteq Apps
BY DEF TypeOK, DeleteAnApp, Goes, AppStates

\* Deleting a project that has its finalizer leaves it deleting, with it.
LEMMA ProjectDeletedType ==
    ASSUME TypeOK, ProjectDeleted, UNCHANGED finalizer
    PROVE  /\ project' \in {"live", "deleting", "gone"}
           /\ known' \subseteq Apps
           /\ (project' = "deleting") => finalizer'
<1>1. CASE finalizer = TRUE
  BY <1>1 DEF ProjectDeleted
<1>2. CASE finalizer = FALSE
  BY <1>2 DEF ProjectDeleted
<1> QED
  BY <1>1, <1>2 DEF TypeOK

\* Every step keeps the type invariant.
LEMMA TypeStep ==
    ASSUME TypeOK, [Next]_vars
    PROVE  TypeOK'
<1> USE ProjectAssumption
<1>1. CASE AddFinalizer
  BY <1>1 DEF AddFinalizer, TypeOK, finalizing, counters, history
<1>2. CASE CreateNamespace
  BY <1>2 DEF CreateNamespace, TypeOK, finalizing, counters, history
<1>3. CASE ListParents
  <2>1. phase' \in {"delete", "second"} /\ todo' \subseteq Apps
    BY <1>3 DEF ListParents, ListApps, FirstList, TopLevel
  <2> QED
    BY <1>3, <2>1 DEF ListParents, ListApps, TypeOK, counters, history
<1>4. CASE ListEverything
  <2>1. phase' \in {"delete", "remove"} /\ todo' \subseteq Apps
    BY <1>4 DEF ListEverything, ListApps, SecondList
  <2> QED
    BY <1>4, <2>1 DEF ListEverything, ListApps, TypeOK, counters, history
<1>5. ASSUME NEW a \in Apps, DeleteListed(a) PROVE TypeOK'
  <2>1. apps' \in [Apps -> AppStates] /\ known' \subseteq Apps
    BY <1>5, DeleteType DEF DeleteListed
  <2> QED
    BY <1>5, <2>1 DEF DeleteListed, TypeOK, counters
<1>6. CASE RetryAfter
  BY <1>6 DEF RetryAfter, TypeOK, counters, history
<1>7. CASE RemoveFinalizer
  BY <1>7 DEF RemoveFinalizer, TypeOK, counters, history
<1>8. CASE Restart
  <2>1. faults' \in 0..MaxFaults
    BY <1>8 DEF Restart, TypeOK
  <2> QED
    BY <1>8, <2>1, Zenon DEF Restart, TypeOK, history
<1>9. CASE SyncApps
  BY <1>9 DEF SyncApps, TypeOK, finalizing, counters, history
<1>10. CASE DeleteProjectOnNamespaceDelete
  <2>1. CASE namespace = "none" /\ project = "live"
    <3>1. ProjectDeleted /\ UNCHANGED finalizer
      BY <1>10, <2>1 DEF DeleteProjectOnNamespaceDelete
    <3>2. phase = "idle"
      BY <2>1 DEF TypeOK
    <3> QED
      BY <1>10, <3>1, <3>2, ProjectDeletedType
      DEF DeleteProjectOnNamespaceDelete, TypeOK, finalizing, counters
  <2>2. CASE ~(namespace = "none" /\ project = "live")
    BY <1>10, <2>2
    DEF DeleteProjectOnNamespaceDelete, TypeOK, finalizing, counters
  <2> QED
    BY <2>1, <2>2
<1>11. ASSUME NEW a \in Apps, RunApp(a) PROVE TypeOK'
  <2>1. runs' \in 0..MaxRuns
    BY <1>11 DEF RunApp, TypeOK
  <2>2. late' \in 0..MaxLate
    BY <1>11 DEF RunApp, TypeOK
  <2>3. apps' \in [Apps -> AppStates]
    BY <1>11 DEF RunApp, Arrives, TypeOK, AppStates
  <2> QED
    BY <1>11, <2>1, <2>2, <2>3, Zenon DEF RunApp, TypeOK, finalizing, history
<1>12. ASSUME NEW a \in Apps, StartPass(a) PROVE TypeOK'
  BY <1>12 DEF StartPass, TypeOK, counters, history
<1>13. ASSUME NEW a \in Apps, DeployAcorn(a) PROVE TypeOK'
  <2>1. apps' \in [Apps -> AppStates]
    BY <1>13 DEF DeployAcorn, Arrives, TypeOK, AppStates
  <2> QED
    BY <1>13, <2>1 DEF DeployAcorn, TypeOK, finalizing, counters, history
<1>14. ASSUME NEW a \in Apps, EndPass(a) PROVE TypeOK'
  BY <1>14 DEF EndPass, TypeOK, counters, history
<1>15. ASSUME NEW a \in Apps, DeleteApp(a) PROVE TypeOK'
  <2>1. apps' \in [Apps -> AppStates] /\ known' \subseteq Apps
    BY <1>15, DeleteType DEF DeleteApp
  <2> QED
    BY <1>15, <2>1 DEF DeleteApp, TypeOK, finalizing, counters
<1>16. ASSUME NEW a \in Apps, AppGone(a) PROVE TypeOK'
  <2>1. apps' \in [Apps -> AppStates] /\ known' \subseteq Apps
    BY <1>16, DeleteType DEF AppGone
  <2> QED
    BY <1>16, <2>1 DEF AppGone, TypeOK, counters
<1>17. CASE DeleteProject
  <2>1. ProjectDeleted /\ UNCHANGED finalizer /\ phase = "idle"
    BY <1>17 DEF DeleteProject, TypeOK
  <2> QED
    BY <1>17, <2>1, ProjectDeletedType
    DEF DeleteProject, TypeOK, finalizing, counters
<1>18. CASE DeleteOwnedNamespace
  BY <1>18 DEF DeleteOwnedNamespace, TypeOK, finalizing, counters, history
<1>19. CASE DeleteNamespaceByHand
  BY <1>19 DEF DeleteNamespaceByHand, TypeOK, finalizing, counters
<1>20. ASSUME NEW a \in Apps, TerminateApp(a) PROVE TypeOK'
  <2>1. apps' \in [Apps -> AppStates] /\ known' \subseteq Apps
    BY <1>20, DeleteType DEF TerminateApp
  <2> QED
    BY <1>20, <2>1 DEF TerminateApp, TypeOK, finalizing, counters
<1>21. CASE NamespaceGone
  BY <1>21 DEF NamespaceGone, TypeOK, finalizing, counters, history
<1>22. CASE UNCHANGED vars
  BY <1>22 DEF vars, TypeOK
<1> QED
  BY <1>1, <1>2, <1>3, <1>4, <1>5, <1>6, <1>7, <1>8, <1>9, <1>10, <1>11, <1>12,
     <1>13, <1>14, <1>15, <1>16, <1>17, <1>18, <1>19, <1>20, <1>21, <1>22
  DEF Next, Controller, Finalizer, Cluster, Users

\* Every variable has its type; a project that is being deleted has its
\* finalizer, and the finalizer only works on such a project.
THEOREM TypeCorrect == Spec => []TypeOK
<1>1. ASSUME Init PROVE TypeOK
  <2>1. runs \in 0..MaxRuns /\ late \in 0..MaxLate /\ faults \in 0..MaxFaults
    BY <1>1, ProjectAssumption DEF Init
  <2> QED
    BY <1>1, <2>1 DEF Init, TypeOK, AppStates
<1>2. TypeOK /\ [Next]_vars => TypeOK'
  BY TypeStep
<1> QED
  BY <1>1, <1>2, PTL DEF Spec

-----------------------------------------------------------------------------
(* The apps the controller knew of go before the project.                   *)

\* The apps it knew of are still there, and the cache still shows them.
KnownSeen == \A a \in known : apps[a] # "none" /\ seen[a] # "none"

\* Without the finalizer a live project has no namespace yet, and no app.
NotYetUsed ==
    (project = "live" /\ ~finalizer) =>
        namespace = "none" /\ \A a \in Apps : apps[a] = "none"

\* The inductive invariant: with an empty list nothing known is left, and the
\* namespace goes before its project only by hand.
KnownInv ==
    /\ KnownSeen
    /\ NotYetUsed
    /\ (phase = "remove") => known = {}
    /\ (project = "gone") => known = {}
    /\ (namespace = "terminating" /\ ~forced) => project = "gone"

\* An app that is deleted, or is gone, is still known only if it is there.
LEMMA DeleteKeepsKnown ==
    ASSUME TypeOK, KnownInv, NEW a \in Apps, DeleteAnApp(a) \/ Goes(a),
           UNCHANGED <<seen, project, finalizer, namespace, forced>>,
           phase' = phase
    PROVE  KnownInv'
<1>1. known' \subseteq known
  BY DEF DeleteAnApp, Goes
<1>2. KnownSeen'
  BY DEF KnownInv, KnownSeen, DeleteAnApp, Goes, TypeOK
<1>3. NotYetUsed'
  <2>1. CASE project = "live" /\ ~finalizer
    BY <2>1 DEF KnownInv, NotYetUsed, DeleteAnApp, Goes, TypeOK
  <2>2. CASE ~(project = "live" /\ ~finalizer)
    BY <2>2, Zenon DEF NotYetUsed
  <2> QED
    BY <2>1, <2>2
<1> QED
  BY <1>1, <1>2, <1>3 DEF KnownInv

\* An app that arrives is no app the controller knew of, and needs a namespace.
LEMMA ArrivalKeepsKnown ==
    ASSUME TypeOK, KnownInv, NEW a \in Apps, Arrives(a),
           UNCHANGED <<seen, project, finalizer, namespace, known, forced>>,
           phase' = phase
    PROVE  KnownInv'
<1>1. KnownSeen'
  BY DEF KnownInv, KnownSeen, Arrives, TypeOK
<1>2. NotYetUsed'
  BY DEF KnownInv, NotYetUsed, Arrives
<1> QED
  BY <1>1, <1>2 DEF KnownInv

\* Deleting a project without a finalizer deletes one that was never used.
LEMMA ProjectDeletedKeepsKnown ==
    ASSUME TypeOK, KnownInv, ProjectDeleted, project = "live", phase = "idle",
           phase' = phase,
           UNCHANGED <<seen, apps, finalizer, namespace, forced>>
    PROVE  KnownInv'
<1>1. KnownSeen'
  BY DEF KnownSeen, ProjectDeleted
<1>2. CASE finalizer = TRUE
  BY <1>1, <1>2 DEF KnownInv, NotYetUsed, ProjectDeleted
<1>3. CASE finalizer = FALSE
  <2>1. known' = {} /\ project' = "gone"
    BY <1>3 DEF KnownInv, NotYetUsed, ProjectDeleted
  <2> QED
    BY <1>1, <2>1 DEF KnownInv, NotYetUsed
<1> QED
  BY <1>2, <1>3 DEF TypeOK

\* Every step keeps the inductive invariant.
LEMMA KnownStep ==
    ASSUME TypeOK, KnownInv, [Next]_vars
    PROVE  KnownInv'
<1>1. CASE AddFinalizer
  BY <1>1 DEF AddFinalizer, KnownInv, KnownSeen, NotYetUsed, finalizing, history
<1>2. CASE CreateNamespace
  BY <1>2
  DEF CreateNamespace, KnownInv, KnownSeen, NotYetUsed, finalizing, history
<1>3. CASE ListParents
  <2>1. phase' # "remove"
    BY <1>3 DEF ListParents, ListApps
  <2> QED
    BY <1>3, <2>1
    DEF ListParents, ListApps, KnownInv, KnownSeen, NotYetUsed, history
<1>4. CASE ListEverything
  <2>1. (phase' = "remove") => \A a \in Apps : seen[a] = "none"
    BY <1>4 DEF ListEverything, ListApps
  <2>2. (phase' = "remove") => known = {}
    BY <2>1 DEF KnownInv, KnownSeen, TypeOK
  <2> QED
    BY <1>4, <2>2
    DEF ListEverything, ListApps, KnownInv, KnownSeen, NotYetUsed, history
<1>5. ASSUME NEW a \in Apps, DeleteListed(a) PROVE KnownInv'
  BY <1>5, DeleteKeepsKnown DEF DeleteListed
<1>6. CASE RetryAfter
  BY <1>6 DEF RetryAfter, KnownInv, KnownSeen, NotYetUsed, history
<1>7. CASE RemoveFinalizer
  BY <1>7 DEF RemoveFinalizer, KnownInv, KnownSeen, NotYetUsed, history
<1>8. CASE Restart
  BY <1>8 DEF Restart, KnownInv, KnownSeen, NotYetUsed, history
<1>9. CASE SyncApps
  BY <1>9 DEF SyncApps, KnownInv, KnownSeen, NotYetUsed, finalizing, history
<1>10. CASE DeleteProjectOnNamespaceDelete
  <2>1. CASE namespace = "none" /\ project = "live"
    <3>1. /\ ProjectDeleted /\ phase = "idle" /\ phase' = phase
          /\ UNCHANGED <<seen, apps, finalizer, namespace, forced>>
      BY <1>10, <2>1 DEF DeleteProjectOnNamespaceDelete, TypeOK, finalizing
    <3> QED
      BY <2>1, <3>1, ProjectDeletedKeepsKnown
  <2>2. CASE ~(namespace = "none" /\ project = "live")
    BY <1>10, <2>2
    DEF DeleteProjectOnNamespaceDelete, KnownInv, KnownSeen, NotYetUsed,
        finalizing
  <2> QED
    BY <2>1, <2>2
<1>11. ASSUME NEW a \in Apps, RunApp(a) PROVE KnownInv'
  BY <1>11, ArrivalKeepsKnown DEF RunApp, finalizing, history
<1>12. ASSUME NEW a \in Apps, StartPass(a) PROVE KnownInv'
  BY <1>12 DEF StartPass, KnownInv, KnownSeen, NotYetUsed, history
<1>13. ASSUME NEW a \in Apps, DeployAcorn(a) PROVE KnownInv'
  BY <1>13, ArrivalKeepsKnown DEF DeployAcorn, finalizing, history
<1>14. ASSUME NEW a \in Apps, EndPass(a) PROVE KnownInv'
  BY <1>14 DEF EndPass, KnownInv, KnownSeen, NotYetUsed, history
<1>15. ASSUME NEW a \in Apps, DeleteApp(a) PROVE KnownInv'
  BY <1>15, DeleteKeepsKnown DEF DeleteApp, finalizing
<1>16. ASSUME NEW a \in Apps, AppGone(a) PROVE KnownInv'
  BY <1>16, DeleteKeepsKnown DEF AppGone
<1>17. CASE DeleteProject
  <2>1. /\ ProjectDeleted /\ phase = "idle" /\ phase' = phase
        /\ project = "live"
        /\ UNCHANGED <<seen, apps, finalizer, namespace, forced>>
    BY <1>17 DEF DeleteProject, TypeOK, finalizing
  <2> QED
    BY <2>1, ProjectDeletedKeepsKnown
<1>18. CASE DeleteOwnedNamespace
  BY <1>18
  DEF DeleteOwnedNamespace, KnownInv, KnownSeen, NotYetUsed, finalizing, history
<1>19. CASE DeleteNamespaceByHand
  BY <1>19
  DEF DeleteNamespaceByHand, KnownInv, KnownSeen, NotYetUsed, finalizing
<1>20. ASSUME NEW a \in Apps, TerminateApp(a) PROVE KnownInv'
  BY <1>20, DeleteKeepsKnown DEF TerminateApp, finalizing
<1>21. CASE NamespaceGone
  BY <1>21
  DEF NamespaceGone, KnownInv, KnownSeen, NotYetUsed, finalizing, history
<1>22. CASE UNCHANGED vars
  BY <1>22 DEF vars, KnownInv, KnownSeen, NotYetUsed
<1> QED
  BY <1>1, <1>2, <1>3, <1>4, <1>5, <1>6, <1>7, <1>8, <1>9, <1>10, <1>11, <1>12,
     <1>13, <1>14, <1>15, <1>16, <1>17, <1>18, <1>19, <1>20, <1>21, <1>22
  DEF Next, Controller, Finalizer, Cluster, Users

\* Every app the controller knew of when the project was deleted is gone before
\* the project, and before the namespace unless that is deleted by hand, however
\* apps are nested, come, go and are cached.
THEOREM KnownAppsGoFirst == Spec => []KnownAppsFirst
<1>1. Init => KnownInv
  BY DEF Init, KnownInv, KnownSeen, NotYetUsed
<1>2. TypeOK /\ KnownInv /\ [Next]_vars => KnownInv'
  BY KnownStep
<1>3. KnownInv => KnownAppsFirst
  BY DEF KnownInv, KnownAppsFirst
<1> QED
  BY <1>1, <1>2, <1>3, TypeCorrect, PTL DEF Spec

-----------------------------------------------------------------------------
(* Nested apps are deleted after the top-level ones.                        *)

\* The finalizer gets to nested apps only when no top-level app it knew of is
\* left; of those apps none comes back as one it knew of.
ParentsInv ==
    /\ (phase = "second") => known \cap TopLevel = {}
    /\ (phase = "delete" /\ ~(todo \subseteq TopLevel)) =>
           known \cap TopLevel = {}

\* A step that gives the finalizer nothing more to delete keeps the invariant.
LEMMA ParentsKept ==
    ASSUME ParentsInv, known' \subseteq known,
           phase' = phase \/ phase' \in {"idle", "remove"}, todo' \subseteq todo
    PROVE  ParentsInv'
BY DEF ParentsInv

\* Every step keeps ParentsInv.
LEMMA ParentsStep ==
    ASSUME TypeOK, KnownInv, ParentsInv, [Next]_vars
    PROVE  ParentsInv'
<1>1. CASE ListParents
  <2>1. CASE \E a \in TopLevel : seen[a] # "none"
    BY <1>1, <2>1 DEF ListParents, ListApps, FirstList, ParentsInv
  <2>2. CASE ~\E a \in TopLevel : seen[a] # "none"
    <3>1. known \cap TopLevel = {}
      BY <2>2 DEF KnownInv, KnownSeen
    <3> QED
      BY <1>1, <2>2, <3>1 DEF ListParents, ListApps, FirstList, ParentsInv, history
  <2> QED
    BY <2>1, <2>2
<1>2. CASE ListEverything
  BY <1>2 DEF ListEverything, ListApps, ParentsInv, history
<1>3. ASSUME NEW a \in Apps, DeleteListed(a) \/ DeleteApp(a) \/ AppGone(a) \/ TerminateApp(a)
      PROVE  ParentsInv'
  <2>1. known' \subseteq known
    BY <1>3 DEF DeleteListed, DeleteApp, AppGone, TerminateApp, DeleteAnApp, Goes
  <2> QED
    BY <1>3, <2>1, ParentsKept DEF DeleteListed, DeleteApp, AppGone, TerminateApp, finalizing
<1>4. CASE DeleteProjectOnNamespaceDelete \/ DeleteProject
  <2>1. phase' = phase /\ todo' = todo /\ (known' = known \/ project = "live")
    BY <1>4 DEF DeleteProjectOnNamespaceDelete, DeleteProject, finalizing
  <2>2. project = "live" => phase = "idle"
    BY DEF TypeOK
  <2> QED
    BY <2>1, <2>2 DEF ParentsInv
<1>5. CASE RetryAfter \/ RemoveFinalizer \/ Restart
  BY <1>5, ParentsKept DEF RetryAfter, RemoveFinalizer, Restart, history
<1>6. CASE UNCHANGED <<known, phase, todo>>
  BY <1>6, ParentsKept
<1> QED
  BY <1>1, <1>2, <1>3, <1>4, <1>5, <1>6
  DEF Next, Controller, Finalizer, Cluster, Users, vars, finalizing, history,
      AddFinalizer, CreateNamespace, SyncApps, DeleteOwnedNamespace, NamespaceGone,
      DeleteNamespaceByHand, RunApp, StartPass, DeployAcorn, EndPass

\* The finalizer deletes a nested app only when every top-level app that the
\* controller knew of when the project was deleted is gone, whatever restarts,
\* late apps and cache lag there are.
THEOREM TopLevelFirst == Spec => ParentsFirst
<1>1. Init => ParentsInv
  BY DEF Init, ParentsInv
<1>2. TypeOK /\ KnownInv /\ ParentsInv /\ [Next]_vars => ParentsInv'
  BY ParentsStep
<1>3. Init => KnownInv
  BY DEF Init, KnownInv, KnownSeen, NotYetUsed
<1>4. TypeOK /\ KnownInv /\ [Next]_vars => KnownInv'
  BY KnownStep
<1>5. ParentsInv => [\A a \in Apps \ TopLevel :
         (phase = "delete" /\ a \in todo \ todo' /\ phase' = "delete")
         => known \cap TopLevel = {}]_vars
  BY DEF ParentsInv
<1> QED
  BY <1>1, <1>2, <1>3, <1>4, <1>5, TypeCorrect, PTL DEF Spec, ParentsFirst

-----------------------------------------------------------------------------
(* Instances of Quota and DevSession.                                        *)

CONSTANTS Demands, Unparsable, None, MaxEdits, Clients, MaxGen, MaxBuilds, MaxApps, MaxTroubles

VARIABLES app, view, fresh, troubles,
          appSeen, current, request, reqSeen, enforced, applying, deployed, edits, grants, lifted,
          session, mode, expiring, handler, plan, job, web, builds, creations

Q == INSTANCE Quota WITH todo <- applying, faults <- troubles, MaxFaults <- MaxTroubles
D == INSTANCE DevSession WITH phase <- handler, apps <- creations, faults <- troubles,
                              MaxFaults <- MaxTroubles

-----------------------------------------------------------------------------
(* Quota: the type invariant.                                               *)

\* The condition WaitForAllocation writes is one of the four.
LEMMA ConditionType ==
    ASSUME NEW a \in Q!AppRecords, NEW r \in Q!RequestRecords \cup {None}
    PROVE  Q!WaitForAllocation(a, r) \in {"none", "waiting", "error", "success"}
<1>1. Q!WaitForAllocation(a, r) \in {"waiting", "error", "success", a.cond}
  BY Zenon DEF Q!WaitForAllocation
<1>2. a.cond \in {"none", "waiting", "error", "success"}
  BY DEF Q!AppRecords
<1> QED
  BY <1>1, <1>2

\* An apply of the QuotaRequest changes its spec only.
LEMMA RequestType ==
    ASSUME Q!QuotaAssumption, Q!NoneAssumption, NEW d \in Demands, request \in Q!RequestRecords \cup {None}
    PROVE  Q!EnsureQuotaRequest(d) \in Q!RequestRecords
BY DEF Q!NoneAssumption, Q!EnsureQuotaRequest, Q!RequestRecords

\* Every step keeps the type invariant.
LEMMA QuotaTypeStep ==
    ASSUME Q!QuotaAssumption, Q!NoneAssumption, Q!TypeOK, [Q!Next]_Q!vars
    PROVE  Q!TypeOK'
<1> USE DEF Q!QuotaAssumption, Q!NoneAssumption
<1>1. CASE Q!HandleApp
  <2> DEFINE c == Q!WaitForAllocation(appSeen, reqSeen)
  <2>1. c \in {"none", "waiting", "error", "success"}
    BY ConditionType DEF Q!TypeOK
  <2>2. /\ view' = [appSeen EXCEPT !.cond = c]
        /\ applying' = (IF enforced THEN {"request"} ELSE {"prune"})
                   \cup (IF c = "success" THEN {"workloads"} ELSE {})
    BY <1>1 DEF Q!HandleApp
  <2> HIDE DEF c
  <2>3. view' \in Q!AppRecords
    BY <2>1, <2>2 DEF Q!TypeOK, Q!AppRecords
  <2>4. applying' \subseteq {"request", "prune", "workloads"}
    BY <2>2
  <2> QED
    BY <1>1, <2>3, <2>4
    DEF Q!TypeOK, Q!HandleApp, Q!stored, Q!copies, Q!history
<1>2. CASE Q!HandleUnparsable
  <2>1. view' \in Q!AppRecords
    BY <1>2 DEF Q!HandleUnparsable, Q!TypeOK, Q!AppRecords
  <2> QED
    BY <1>2, <2>1 DEF Q!HandleUnparsable, Q!TypeOK, Q!stored, Q!copies, Q!history
<1>3. CASE Q!ApplyRequest
  <2>1. view \in Q!AppRecords
    BY <1>3 DEF Q!ApplyRequest, Q!TypeOK
  <2>2. request' \in Q!RequestRecords
    BY <1>3, <2>1, RequestType DEF Q!ApplyRequest, Q!TypeOK, Q!AppRecords
  <2> QED
    BY <1>3, <2>1, <2>2 DEF Q!ApplyRequest, Q!TypeOK, Q!copies, Q!history
<1>4. CASE Q!PruneRequest
  BY <1>4 DEF Q!PruneRequest, Q!TypeOK, Q!copies, Q!history
<1>5. CASE Q!DeploySpec
  <2>1. view \in Q!AppRecords
    BY <1>5 DEF Q!DeploySpec, Q!TypeOK
  <2>2. deployed' \in Demands
    BY <1>5, <2>1 DEF Q!DeploySpec, Q!AppRecords
  <2> QED
    BY <1>5, <2>1, <2>2 DEF Q!DeploySpec, Q!TypeOK, Q!stored, Q!copies, Q!history
<1>6. CASE Q!SaveStatus
  BY <1>6 DEF Q!SaveStatus, Q!EndPass, Q!TypeOK, Q!history
<1>7. CASE Q!Conflict
  BY <1>7 DEF Q!Conflict, Q!EndPass, Q!TypeOK, Q!stored, Q!copies, Q!history
<1>8. CASE Q!LosePass
  <2>1. troubles' \in 0..MaxTroubles
    BY <1>8 DEF Q!LosePass, Q!TypeOK
  <2> QED
    BY <1>8, <2>1, Zenon DEF Q!LosePass, Q!EndPass, Q!TypeOK, Q!stored, Q!copies, Q!history
<1>9. CASE Q!SyncApp
  BY <1>9 DEF Q!SyncApp, Q!TypeOK, Q!stored, Q!pass, Q!history
<1>10. CASE Q!SyncRequest
  BY <1>10 DEF Q!SyncRequest, Q!TypeOK, Q!stored, Q!pass, Q!history
<1>11. CASE Q!EditApp
  <2>1. app' \in Q!AppRecords
    BY <1>11 DEF Q!EditApp, Q!TypeOK, Q!AppRecords
  <2>2. edits' \in 0..MaxEdits
    BY <1>11 DEF Q!EditApp, Q!TypeOK
  <2> QED
    BY <1>11, <2>1, <2>2, Zenon DEF Q!EditApp, Q!TypeOK, Q!pass, Q!history
<1>12. CASE Q!SetEnforced
  <2>1. troubles' \in 0..MaxTroubles
    BY <1>12 DEF Q!SetEnforced, Q!TypeOK
  <2> QED
    BY <1>12, <2>1, Zenon DEF Q!SetEnforced, Q!TypeOK, Q!stored, Q!copies, Q!pass
<1>13. CASE Q!Grant
  <2>1. request' \in Q!RequestRecords /\ request.spec \in Demands
    BY <1>13 DEF Q!Grant, Q!TypeOK, Q!RequestRecords
  <2> QED
    BY <1>13, <2>1 DEF Q!Grant, Q!TypeOK, Q!copies, Q!pass
<1>14. CASE Q!RefuseRequest
  <2>1. request' \in Q!RequestRecords
    BY <1>14 DEF Q!RefuseRequest, Q!TypeOK, Q!RequestRecords
  <2>2. troubles' \in 0..MaxTroubles
    BY <1>14 DEF Q!RefuseRequest, Q!TypeOK
  <2> QED
    BY <1>14, <2>1, <2>2, Zenon DEF Q!RefuseRequest, Q!TypeOK, Q!copies, Q!pass, Q!history
<1>15. CASE UNCHANGED Q!vars
  BY <1>15 DEF Q!vars, Q!TypeOK
<1> QED
  BY <1>1, <1>2, <1>3, <1>4, <1>5, <1>6, <1>7, <1>8, <1>9, <1>10, <1>11,
     <1>12, <1>13, <1>14, <1>15
  DEF Q!Next, Q!Controller, Q!World

\* Every variable has its type, and nothing is left to apply between passes.
THEOREM QuotaTypeCorrect ==
    ASSUME Q!QuotaAssumption, Q!NoneAssumption PROVE Q!Spec => []Q!TypeOK
<1>1. ASSUME Q!Init PROVE Q!TypeOK
  <2>1. app \in Q!AppRecords
    BY <1>1 DEF Q!QuotaAssumption, Q!Init, Q!AppRecords
  <2>2. edits \in 0..MaxEdits /\ troubles \in 0..MaxTroubles
    BY <1>1 DEF Q!QuotaAssumption, Q!Init
  <2>3. lifted \in BOOLEAN
    BY <1>1, Zenon DEF Q!Init
  <2> QED
    BY <1>1, <2>1, <2>2, <2>3 DEF Q!Init, Q!TypeOK
<1>2. Q!TypeOK /\ [Q!Next]_Q!vars => Q!TypeOK'
  BY QuotaTypeStep
<1> QED
  BY <1>1, <1>2, PTL DEF Q!Spec

-----------------------------------------------------------------------------
(* Quota: nothing is deployed before a grant.                               *)

\* A success, wherever it is kept, has a grant behind it.
Backed(c) == c = "success" => grants # {}

\* The strengthening: while quota was never lifted, the success of a request, of
\* the app's condition and of every copy of them has a grant behind it, and so
\* has a pass that is about to deploy.
GrantBehind ==
    ~lifted =>
      /\ enforced = TRUE
      /\ request # None => Backed(request.cond)
      /\ reqSeen # None => Backed(reqSeen.cond)
      /\ Backed(app.cond)
      /\ Backed(appSeen.cond)
      /\ view # None => Backed(view.cond)
      /\ "workloads" \in applying => grants # {}
      /\ deployed # None => grants # {}

\* WaitForAllocation finds success only in the request or in the app itself.
LEMMA SuccessFrom ==
    ASSUME NEW a, NEW r, enforced = TRUE,
           Q!WaitForAllocation(a, r) = "success"
    PROVE  (r # None /\ r.cond = "success") \/ a.cond = "success"
BY Zenon DEF Q!WaitForAllocation

\* Every step keeps the strengthened invariant.
LEMMA GrantStep ==
    ASSUME Q!QuotaAssumption, Q!NoneAssumption, Q!TypeOK, GrantBehind, [Q!Next]_Q!vars
    PROVE  GrantBehind'
<1> SUFFICES ASSUME ~lifted'
             PROVE  /\ enforced' = TRUE
                    /\ (request # None => Backed(request.cond))'
                    /\ (reqSeen # None => Backed(reqSeen.cond))'
                    /\ Backed(app.cond)'
                    /\ Backed(appSeen.cond)'
                    /\ (view # None => Backed(view.cond))'
                    /\ ("workloads" \in applying => grants # {})'
                    /\ (deployed # None => grants # {})'
  BY Zenon DEF GrantBehind
<1> USE DEF Q!QuotaAssumption, Q!NoneAssumption
<1>1. CASE Q!HandleApp
  <2> DEFINE c == Q!WaitForAllocation(appSeen, reqSeen)
  <2>1. /\ view' = [appSeen EXCEPT !.cond = c]
        /\ applying' = (IF enforced THEN {"request"} ELSE {"prune"})
                   \cup (IF c = "success" THEN {"workloads"} ELSE {})
    BY <1>1 DEF Q!HandleApp
  <2>2. c = "success" => grants # {}
    BY <1>1, SuccessFrom, Zenon
    DEF GrantBehind, Backed, Q!HandleApp, Q!history
  <2> HIDE DEF c
  <2>3. view'.cond = c
    BY <2>1 DEF Q!TypeOK, Q!AppRecords
  <2>4. "workloads" \in applying' => c = "success"
    BY <2>1
  <2> QED
    BY <1>1, <2>2, <2>3, <2>4
    DEF Q!HandleApp, GrantBehind, Backed, Q!stored, Q!copies, Q!history
<1>2. CASE Q!HandleUnparsable
  <2>1. view'.cond = "error"
    BY <1>2 DEF Q!HandleUnparsable, Q!TypeOK, Q!AppRecords
  <2> QED
    BY <1>2, <2>1 DEF Q!HandleUnparsable, GrantBehind, Backed, Q!stored, Q!copies, Q!history
<1>3. CASE Q!ApplyRequest
  <2>1. request'.cond \in IF request = None THEN {"none"} ELSE {request.cond}
    BY <1>3 DEF Q!ApplyRequest, Q!EnsureQuotaRequest, Q!TypeOK, Q!RequestRecords
  <2>2. Backed(request'.cond)
    BY <1>3, <2>1 DEF Q!ApplyRequest, GrantBehind, Backed, Q!history
  <2> QED
    BY <1>3, <2>2 DEF Q!ApplyRequest, GrantBehind, Backed, Q!copies, Q!history
<1>4. CASE Q!PruneRequest
  BY <1>4 DEF Q!PruneRequest, GrantBehind, Backed, Q!copies, Q!history
<1>5. CASE Q!DeploySpec
  BY <1>5 DEF Q!DeploySpec, GrantBehind, Backed, Q!stored, Q!copies, Q!history
<1>6. CASE Q!SaveStatus
  BY <1>6 DEF Q!SaveStatus, Q!EndPass, GrantBehind, Backed, Q!history
<1>7. CASE Q!Conflict
  BY <1>7 DEF Q!Conflict, Q!EndPass, GrantBehind, Backed, Q!stored, Q!copies, Q!history
<1>8. CASE Q!LosePass
  BY <1>8 DEF Q!LosePass, Q!EndPass, GrantBehind, Backed, Q!stored, Q!copies, Q!history
<1>9. CASE Q!SyncApp
  BY <1>9 DEF Q!SyncApp, GrantBehind, Backed, Q!stored, Q!pass, Q!history
<1>10. CASE Q!SyncRequest
  BY <1>10 DEF Q!SyncRequest, GrantBehind, Backed, Q!stored, Q!pass, Q!history
<1>11. CASE Q!EditApp
  <2>1. app'.cond = app.cond
    BY <1>11 DEF Q!EditApp, Q!TypeOK, Q!AppRecords
  <2> QED
    BY <1>11, <2>1 DEF Q!EditApp, GrantBehind, Backed, Q!pass, Q!history
<1>12. CASE Q!SetEnforced
  BY <1>12 DEF Q!SetEnforced
<1>13. CASE Q!Grant
  <2>1. grants' # {}
    BY <1>13 DEF Q!Grant
  <2> QED
    BY <1>13, <2>1 DEF Q!Grant, GrantBehind, Backed, Q!copies, Q!pass
<1>14. CASE Q!RefuseRequest
  <2>1. request'.cond \in {"error", "none"}
    BY <1>14 DEF Q!RefuseRequest, Q!TypeOK, Q!RequestRecords
  <2> QED
    BY <1>14, <2>1 DEF Q!RefuseRequest, GrantBehind, Backed, Q!copies, Q!pass, Q!history
<1>15. CASE UNCHANGED Q!vars
  BY <1>15 DEF Q!vars, GrantBehind, Backed
<1> QED
  BY <1>1, <1>2, <1>3, <1>4, <1>5, <1>6, <1>7, <1>8, <1>9, <1>10, <1>11,
     <1>12, <1>13, <1>14, <1>15
  DEF Q!Next, Q!Controller, Q!World

\* In a project that always enforced quota no app has a workload before a
\* request of it was granted, however passes, caches, edits and refusals
\* interleave.
THEOREM GrantedFirst ==
    ASSUME Q!QuotaAssumption, Q!NoneAssumption PROVE Q!Spec => []Q!NothingBeforeGrant
<1>1. Q!Init => GrantBehind
  BY DEF Q!Init, GrantBehind, Backed
<1>2. Q!TypeOK /\ GrantBehind /\ [Q!Next]_Q!vars => GrantBehind'
  BY GrantStep
<1>3. GrantBehind => Q!NothingBeforeGrant
  BY DEF GrantBehind, Q!NothingBeforeGrant
<1> QED
  BY <1>1, <1>2, <1>3, QuotaTypeCorrect, PTL DEF Q!Spec

-----------------------------------------------------------------------------
(* Dev sessions: the type invariant.                                        *)

\* What a pass has worked out when it is past a handler: the spec to deploy after
\* Prepare, the objects after Deploy.  A view that can be saved is one of an app.
Plans == [gen : D!Specs, spec : D!Specs, update : BOOLEAN]
PassInv ==
    /\ handler \notin {"idle", "prepare"} => view.parsed \in D!Specs
    /\ handler \in {"status", "observe", "apply", "save"} => plan \in Plans
    /\ fresh => app \in D!AppRecords /\ app.spec = app.gen /\ handler # "idle"

SessionInv == D!TypeOK /\ PassInv

\* Generations and hashes are numbers of specs.
LEMMA SpecNumbers ==
    ASSUME D!DevSessionAssumption
    PROVE  /\ D!Generations \subseteq Nat /\ D!Hashes \subseteq Nat /\ D!Specs \subseteq Nat
           /\ 1 \in D!Generations /\ D!Generations \subseteq D!Specs /\ D!Hashes \subseteq D!Specs
  BY DEF D!DevSessionAssumption, D!Generations, D!Hashes, D!Specs

\* Under the overlay the app in memory may have the generation of the override.
OverlaidRecords == [gen : D!Specs, spec : D!Specs, observed : D!Specs \cup {0},
                    ready : BOOLEAN, parsed : D!Specs \cup {0}, deleting : BOOLEAN]

\* What updateAppForDevSession puts into the app in memory.
LEMMA Overlaid ==
    ASSUME D!DevSessionAssumption, SessionInv, NEW a \in D!AppRecords
    PROVE  /\ D!updateAppForDevSession(a) \in OverlaidRecords
           /\ D!updateAppForDevSession(a).parsed = a.parsed
           /\ ~D!Overridden => D!updateAppForDevSession(a) \in D!AppRecords
<1>1. CASE ~D!Overridden
  <2>1. D!updateAppForDevSession(a) = a BY <1>1 DEF D!updateAppForDevSession
  <2>2. a \in OverlaidRecords BY SpecNumbers DEF D!AppRecords, OverlaidRecords
  <2> QED BY <2>1, <2>2
<1>2. CASE D!Overridden
  <2>1. session.override \in D!Specs BY <1>2, SpecNumbers DEF SessionInv, D!TypeOK, D!Overridden
  <2> DEFINE o == IF a.observed = a.gen THEN session.override ELSE a.observed
  <2>2. o \in D!Specs \cup {0} BY <2>1 DEF D!AppRecords
  <2>3. D!updateAppForDevSession(a) = [a EXCEPT !.gen = session.override, !.spec = session.override,
                                                !.observed = o]
    BY <1>2 DEF D!updateAppForDevSession
  <2> HIDE DEF o
  <2> QED BY <1>2, <2>1, <2>2, <2>3 DEF D!AppRecords, OverlaidRecords
<1> QED BY <1>1, <1>2

\* The restoring half of OverlayDevSession gives the app its own generation back.
LEMMA Restored ==
    ASSUME D!DevSessionAssumption, NEW a \in OverlaidRecords, NEW g \in D!Generations,
           ~D!Overridden => a \in D!AppRecords
    PROVE  D!Restore(a, g) \in D!AppRecords /\ D!Restore(a, g).parsed = a.parsed
<1>1. CASE ~D!Overridden BY <1>1 DEF D!Restore
<1>2. CASE D!Overridden
  <2> DEFINE o == IF a.gen = a.observed THEN g ELSE a.observed
  <2>1. o \in D!Specs \cup {0} BY SpecNumbers DEF OverlaidRecords
  <2>2. D!Restore(a, g) = [a EXCEPT !.gen = g, !.observed = o] BY <1>2 DEF D!Restore
  <2> HIDE DEF o
  <2> QED BY <2>1, <2>2 DEF D!AppRecords, OverlaidRecords
<1> QED BY <1>1, <1>2

\* What each handler makes of the app under the overlay.
LEMMA Handled ==
    ASSUME D!DevSessionAssumption, NEW a \in OverlaidRecords
    PROVE  /\ D!PrepareStatus(a) \in OverlaidRecords /\ D!ParseAppImage(a) \in OverlaidRecords
           /\ D!SetStatus(a) \in OverlaidRecords /\ D!UpdateObservedFields(a) \in OverlaidRecords
           /\ D!ParseAppImage(a).parsed \in D!Specs
           /\ D!SetStatus(a).parsed = a.parsed /\ D!UpdateObservedFields(a).parsed = a.parsed
           /\ a \in D!AppRecords => {D!PrepareStatus(a), D!ParseAppImage(a), D!SetStatus(a),
                                     D!UpdateObservedFields(a)} \subseteq D!AppRecords
<1> DEFINE r == a.ready /\ a.gen = a.observed
           s == job # None /\ job.done /\ job.gen = a.gen
<1>2. r \in BOOLEAN OBVIOUS
<1>3. s \in BOOLEAN OBVIOUS
<1>4. D!PrepareStatus(a) = [a EXCEPT !.ready = r] /\ D!SetStatus(a) = [a EXCEPT !.ready = s]
  BY DEF D!PrepareStatus, D!SetStatus
<1> HIDE DEF r, s
<1>5. D!PrepareStatus(a) \in OverlaidRecords /\ (a \in D!AppRecords => D!PrepareStatus(a) \in D!AppRecords)
  BY <1>2, <1>4 DEF OverlaidRecords, D!AppRecords
<1>6. /\ D!SetStatus(a) \in OverlaidRecords /\ D!SetStatus(a).parsed = a.parsed
      /\ a \in D!AppRecords => D!SetStatus(a) \in D!AppRecords
  BY <1>3, <1>4 DEF OverlaidRecords, D!AppRecords
<1>7. /\ D!ParseAppImage(a) \in OverlaidRecords /\ D!ParseAppImage(a).parsed \in D!Specs
      /\ a \in D!AppRecords => D!ParseAppImage(a) \in D!AppRecords
  BY DEF D!ParseAppImage, OverlaidRecords, D!AppRecords
<1>8. /\ D!UpdateObservedFields(a) \in OverlaidRecords /\ D!UpdateObservedFields(a).parsed = a.parsed
      /\ a \in D!AppRecords => D!UpdateObservedFields(a) \in D!AppRecords
  BY SpecNumbers DEF D!UpdateObservedFields, OverlaidRecords, D!AppRecords
<1> QED BY <1>5, <1>6, <1>7, <1>8

\* A handler leaves a view that is the app's own again.
LEMMA HandlerKeeps ==
    ASSUME D!DevSessionAssumption, SessionInv, NEW name, NEW next \in {"deploy", "status", "observe",
           "apply"},
           name # "idle", NEW changed \in OverlaidRecords,
           ~D!Overridden => changed \in D!AppRecords, changed.parsed \in D!Specs,
           D!Handler(name, next, changed), plan' \in Plans \cup {None},
           next # "deploy" => plan' \in Plans
    PROVE  SessionInv'
<1>1. view \in D!AppRecords /\ handler # "idle" BY DEF SessionInv, D!TypeOK, D!Handler
<1>2. view.gen \in D!Generations BY <1>1 DEF D!AppRecords
<1>3. view' \in D!AppRecords /\ view'.parsed \in D!Specs BY <1>2, Restored DEF D!Handler
<1>4. D!TypeOK' BY <1>3 DEF SessionInv, D!TypeOK, D!Handler, D!world, D!objects, Plans
<1>5. PassInv' BY <1>1, <1>3 DEF SessionInv, PassInv, D!Handler, D!world, D!objects
<1> QED BY <1>4, <1>5 DEF SessionInv

\* Prepare parses the spec that is in force.
LEMMA PrepareKeeps == ASSUME D!DevSessionAssumption, SessionInv, D!Prepare PROVE SessionInv'
<1> DEFINE a == D!updateAppForDevSession(view)
           b == D!PrepareStatus(a)
           c == D!ParseAppImage(b)
<1>1. handler = "prepare" /\ D!Handler("prepare", "deploy", c) /\ plan' = plan BY DEF D!Prepare, D!Handler
<1>2. view \in D!AppRecords /\ plan \in Plans \cup {None} BY <1>1 DEF SessionInv, D!TypeOK, Plans
<1>3. a \in OverlaidRecords /\ (~D!Overridden => a \in D!AppRecords) BY <1>2, Overlaid
<1> HIDE DEF a
<1>4. b \in OverlaidRecords /\ (~D!Overridden => b \in D!AppRecords) BY <1>3, Handled
<1> HIDE DEF b
<1>5. c \in OverlaidRecords /\ c.parsed \in D!Specs /\ (~D!Overridden => c \in D!AppRecords) BY <1>4, Handled
<1> HIDE DEF c
<1> QED BY <1>1, <1>2, <1>5, HandlerKeeps

\* Deploy works out the objects from the spec that Prepare parsed.
LEMMA DeployKeeps ==
    ASSUME D!DevSessionAssumption, SessionInv, D!Deploy PROVE SessionInv'
<1> DEFINE a == D!updateAppForDevSession(view)
<1>1. handler = "deploy" /\ D!Handler("deploy", "status", a) /\ plan' = D!DeploySpec(a)
  BY DEF D!Deploy, D!Handler
<1>2. view \in D!AppRecords /\ view.parsed \in D!Specs BY <1>1 DEF SessionInv, D!TypeOK, PassInv
<1>3. a \in OverlaidRecords /\ a.parsed = view.parsed /\ (~D!Overridden => a \in D!AppRecords)
  BY <1>2, Overlaid
<1> HIDE DEF a
<1>4. a.ready \in BOOLEAN /\ a.gen \in D!Specs /\ a.parsed \in D!Specs BY <1>2, <1>3 DEF OverlaidRecords
<1>5. plan' \in Plans BY <1>1, <1>4 DEF D!DeploySpec, Plans
<1> QED BY <1>1, <1>2, <1>3, <1>5, HandlerKeeps

\* SetStatus looks at the job under the overlay.
LEMMA StatusKeeps == ASSUME D!DevSessionAssumption, SessionInv, D!Status PROVE SessionInv'
<1> DEFINE a == D!updateAppForDevSession(view)
           b == D!SetStatus(a)
<1>1. handler = "status" /\ D!Handler("status", "observe", b) /\ plan' = plan BY DEF D!Status, D!Handler
<1>2. view \in D!AppRecords /\ plan \in Plans /\ view.parsed \in D!Specs
  BY <1>1 DEF SessionInv, D!TypeOK, PassInv
<1>3. a \in OverlaidRecords /\ a.parsed = view.parsed /\ (~D!Overridden => a \in D!AppRecords)
  BY <1>2, Overlaid
<1> HIDE DEF a
<1>4. b \in OverlaidRecords /\ b.parsed = a.parsed /\ (~D!Overridden => b \in D!AppRecords) BY <1>3, Handled
<1> HIDE DEF b
<1> QED BY <1>1, <1>2, <1>3, <1>4, HandlerKeeps

\* UpdateObservedFields observes the generation under the overlay.
LEMMA ObserveKeeps == ASSUME D!DevSessionAssumption, SessionInv, D!Observe PROVE SessionInv'
<1> DEFINE a == D!updateAppForDevSession(view)
           b == D!UpdateObservedFields(a)
<1>1. handler = "observe" /\ D!Handler("observe", "apply", b) /\ plan' = plan BY DEF D!Observe, D!Handler
<1>2. view \in D!AppRecords /\ plan \in Plans /\ view.parsed \in D!Specs
  BY <1>1 DEF SessionInv, D!TypeOK, PassInv
<1>3. a \in OverlaidRecords /\ a.parsed = view.parsed /\ (~D!Overridden => a \in D!AppRecords)
  BY <1>2, Overlaid
<1> HIDE DEF a
<1>4. b \in OverlaidRecords /\ b.parsed = a.parsed /\ (~D!Overridden => b \in D!AppRecords) BY <1>3, Handled
<1> HIDE DEF b
<1> QED BY <1>1, <1>2, <1>3, <1>4, HandlerKeeps

\* OnError writes the observed generation of the overlay, the rest of the view as it is.
LEMMA HandlerFailsKeeps == ASSUME D!DevSessionAssumption, SessionInv, D!HandlerFails PROVE SessionInv'
<1>1. handler # "idle" /\ view \in D!AppRecords BY DEF D!HandlerFails, SessionInv, D!TypeOK
<1> DEFINE o == D!updateAppForDevSession(view).observed
           new == [app EXCEPT !.observed = o, !.ready = view.ready, !.parsed = view.parsed]
<1>2. o \in D!Specs \cup {0} BY <1>1, Overlaid DEF OverlaidRecords
<1>3. app' = IF fresh THEN new ELSE app BY DEF D!HandlerFails
<1> HIDE DEF o
<1>4. fresh => new \in D!AppRecords /\ new.spec = new.gen BY <1>1, <1>2 DEF SessionInv, PassInv, D!AppRecords
<1> HIDE DEF new
<1>5. app' \in D!AppRecords \cup {None} /\ ((app' # None) => app'.spec = app'.gen)
  BY <1>3, <1>4 DEF SessionInv, D!TypeOK
<1>6. troubles' \in 0..MaxTroubles BY DEF D!DevSessionAssumption, D!HandlerFails, SessionInv, D!TypeOK
<1>7. D!TypeOK' BY <1>5, <1>6 DEF D!HandlerFails, SessionInv, D!TypeOK, D!EndPass, D!world, D!objects
<1>8. PassInv' BY DEF D!HandlerFails, PassInv, D!EndPass
<1> QED BY <1>7, <1>8 DEF SessionInv

\* The status is saved, the spec of the app is not.
LEMMA SaveStatusKeeps == ASSUME SessionInv, D!SaveStatus PROVE SessionInv'
<1>1. handler # "idle" /\ view \in D!AppRecords BY DEF D!SaveStatus, SessionInv, D!TypeOK
<1> DEFINE new == [app EXCEPT !.observed = view.observed, !.ready = view.ready, !.parsed = view.parsed]
<1>2. app' = IF fresh THEN new ELSE app BY DEF D!SaveStatus
<1>3. fresh => new \in D!AppRecords /\ new.spec = new.gen BY <1>1 DEF SessionInv, PassInv, D!AppRecords
<1> HIDE DEF new
<1>4. app' \in D!AppRecords \cup {None} /\ ((app' # None) => app'.spec = app'.gen)
  BY <1>2, <1>3 DEF SessionInv, D!TypeOK
<1>5. D!TypeOK' BY <1>4 DEF D!SaveStatus, SessionInv, D!TypeOK, D!EndPass, D!world, D!objects
<1>6. PassInv' BY DEF D!SaveStatus, PassInv, D!EndPass
<1> QED BY <1>5, <1>6 DEF SessionInv

\* What is applied is what Deploy worked out.
LEMMA ApplyKeeps == ASSUME SessionInv, D!Apply PROVE SessionInv'
<1>1. plan \in Plans BY DEF D!Apply, SessionInv, PassInv
<1>2. plan.gen \in D!Specs /\ plan.spec \in D!Specs BY <1>1 DEF Plans
<1>3. job' \in [gen : D!Specs, spec : D!Specs, done : BOOLEAN] \cup {None}
  BY <1>2 DEF D!Apply, SessionInv, D!TypeOK
<1>4. web' \in [gen : D!Specs, spec : D!Specs] \cup {None} BY <1>2 DEF D!Apply, SessionInv, D!TypeOK
<1>5. D!TypeOK' BY <1>3, <1>4 DEF D!Apply, SessionInv, D!TypeOK, D!world
<1>6. PassInv' BY <1>1 DEF D!Apply, SessionInv, PassInv, D!world
<1> QED BY <1>5, <1>6 DEF SessionInv

\* Steps of clients and of the session's controller leave the app and the pass alone.
LEMMA ClientKeeps ==
    ASSUME D!DevSessionAssumption, SessionInv, NEW c \in Clients,
           D!Develop(c) \/ D!Releases(c) \/ D!Leave(c) \/ D!Crash(c)
    PROVE  SessionInv'
<1>1. PassInv' BY DEF SessionInv, PassInv, D!Develop, D!Releases, D!DevSessionRenew, D!DevSessionRelease,
                      D!DeleteReleased, D!Leave, D!Crash, D!pass
<1>2. CASE D!Develop(c)
  <2>1. MaxGen + builds + 1 \in D!Hashes /\ builds' \in 0..MaxBuilds
    BY <1>2 DEF D!DevSessionAssumption, SessionInv, D!TypeOK, D!Develop, D!Hashes
  <2> QED BY <1>1, <1>2, <2>1 DEF SessionInv, D!TypeOK, D!Develop, D!pass, D!objects
<1>3. CASE D!Releases(c)
  BY <1>1, <1>3 DEF SessionInv, D!TypeOK, D!Releases, D!DevSessionRenew, D!DevSessionRelease,
                    D!DeleteReleased, D!pass, D!objects
<1>4. CASE D!Leave(c) BY <1>1, <1>4 DEF SessionInv, D!TypeOK, D!Leave, D!pass, D!objects
<1>5. CASE D!Crash(c)
  <2>1. troubles' \in 0..MaxTroubles BY <1>5 DEF D!DevSessionAssumption, SessionInv, D!TypeOK, D!Crash
  <2> QED BY <1>1, <1>5, <2>1 DEF SessionInv, D!TypeOK, D!Crash, D!pass, D!objects
<1> QED BY <1>2, <1>3, <1>4, <1>5

\* So do the expiry of a session and a late renewal.
LEMMA SessionKeeps ==
    ASSUME D!DevSessionAssumption, SessionInv, D!Expiry \/ D!LateRenewal PROVE SessionInv'
<1>1. PassInv'
  BY DEF SessionInv, PassInv, D!Expiry, D!ExpireDevSession, D!DeleteExpired, D!Lapse, D!LateRenewal, D!pass
<1>2. troubles' \in 0..MaxTroubles
  BY DEF D!DevSessionAssumption, SessionInv, D!TypeOK, D!Expiry, D!ExpireDevSession, D!DeleteExpired,
         D!Lapse, D!LateRenewal
<1> QED
  BY <1>1, <1>2 DEF SessionInv, D!TypeOK, D!Expiry, D!ExpireDevSession, D!DeleteExpired, D!Lapse,
                    D!LateRenewal, D!pass, D!objects

\* Users edit, delete and create the app again; a deleted app goes when no pass runs.
LEMMA AppKeeps ==
    ASSUME D!DevSessionAssumption, SessionInv,
           D!EditApp \/ D!DeleteApp \/ D!AppGone \/ (\E c \in Clients : D!CreateApp(c))
    PROVE  SessionInv'
<1>1. CASE D!EditApp
  <2>1. app \in D!AppRecords /\ app.spec = app.gen /\ app.gen < MaxGen
    BY <1>1 DEF SessionInv, D!TypeOK, D!EditApp, D!Live
  <2>2. app.gen + 1 \in D!Generations /\ app.gen + 1 \in D!Specs
    BY <2>1 DEF D!DevSessionAssumption, D!AppRecords, D!Generations, D!Specs
  <2>3. app' = [app EXCEPT !.gen = app.gen + 1, !.spec = app.gen + 1] BY <1>1, <2>1 DEF D!EditApp
  <2>4. app' \in D!AppRecords /\ app'.spec = app'.gen BY <2>1, <2>2, <2>3 DEF D!AppRecords
  <2> QED BY <1>1, <2>4 DEF D!EditApp, SessionInv, D!TypeOK, PassInv, D!world, D!pass, D!objects
<1>2. CASE D!DeleteApp
  <2>1. app \in D!AppRecords /\ app.spec = app.gen BY <1>2 DEF SessionInv, D!TypeOK, D!DeleteApp, D!Live
  <2>2. app' \in D!AppRecords /\ app'.spec = app'.gen BY <1>2, <2>1 DEF D!DeleteApp, D!AppRecords
  <2> QED BY <1>2, <2>2 DEF D!DeleteApp, SessionInv, D!TypeOK, PassInv, D!world, D!pass, D!objects
<1>3. CASE D!AppGone BY <1>3 DEF D!AppGone, SessionInv, D!TypeOK, PassInv, D!world, D!pass
<1>4. ASSUME NEW c \in Clients, D!CreateApp(c) PROVE SessionInv'
  <2>1. D!NewApp \in D!AppRecords /\ D!NewApp.spec = D!NewApp.gen BY SpecNumbers DEF D!NewApp, D!AppRecords
  <2>2. creations' \in 0..MaxApps BY <1>4 DEF D!DevSessionAssumption, SessionInv, D!TypeOK, D!CreateApp
  <2> QED BY <1>4, <2>1, <2>2 DEF D!CreateApp, SessionInv, D!TypeOK, PassInv, D!pass, D!objects
<1> QED BY <1>1, <1>2, <1>3, <1>4

\* Every step keeps the invariant.
LEMMA SessionStep ==
    ASSUME D!DevSessionAssumption PROVE SessionInv /\ [D!Next]_D!vars => SessionInv'
<1> SUFFICES ASSUME SessionInv, [D!Next]_D!vars PROVE SessionInv' OBVIOUS
<1>1. CASE D!Start BY <1>1 DEF D!Start, SessionInv, D!TypeOK, PassInv, D!world, D!objects
<1>2. CASE D!JobSucceeds BY <1>2 DEF D!JobSucceeds, SessionInv, D!TypeOK, PassInv, D!world, D!pass
<1>3. CASE UNCHANGED D!vars BY <1>3 DEF D!vars, SessionInv, D!TypeOK, PassInv
<1> QED BY <1>1, <1>2, <1>3, PrepareKeeps, DeployKeeps, StatusKeeps, ObserveKeeps, ApplyKeeps,
           SaveStatusKeeps, HandlerFailsKeeps, ClientKeeps, SessionKeeps, AppKeeps
        DEF D!Next, D!Controller, D!Outside

\* Sessions that come, change and go between the handlers of a pass, handlers that
\* fail half way, and edits leave no override behind as the app's own spec.
THEOREM OverrideIsNotStored ==
    ASSUME D!DevSessionAssumption PROVE D!Spec => []D!TypeOK
<1>1. D!Init => SessionInv
  <2>1. D!NewApp \in D!AppRecords /\ D!NewApp.spec = D!NewApp.gen BY SpecNumbers DEF D!NewApp, D!AppRecords
  <2>2. ASSUME D!Init PROVE D!TypeOK
    <3>1. app \in D!AppRecords \cup {None} /\ (app # None => app.spec = app.gen) BY <2>1, <2>2 DEF D!Init
    <3>2. mode \in [Clients -> {"off", "on", "leaving", "releasing"}] BY <2>2 DEF D!Init
    <3>3. 0 \in 0..MaxBuilds /\ 0 \in 0..MaxApps /\ 0 \in 0..MaxTroubles BY DEF D!DevSessionAssumption
    <3>4. expiring \in BOOLEAN /\ fresh \in BOOLEAN BY <2>2 DEF D!Init
    <3> QED BY <2>2, <3>1, <3>2, <3>3, <3>4 DEF D!Init, D!TypeOK
  <2>3. D!Init => PassInv BY DEF D!Init, PassInv
  <2> QED BY <2>2, <2>3 DEF SessionInv
<1>2. SessionInv => D!TypeOK BY DEF SessionInv
<1> QED BY <1>1, <1>2, SessionStep, PTL DEF D!Spec
=============================================================================
