------------------------------- MODULE Project -------------------------------
(***************************************************************************)
(* The end of a project.  A ProjectInstance owns a namespace with apps, some *)
(* nested in others.  Its finalizer project-app-delete deletes the apps,     *)
(* top-level ones first, and lets the project go when none is left; the      *)
(* namespace goes with the project.  Apps are listed from the controller's   *)
(* cache, nested apps are created again as long as their parent is there,    *)
(* and the namespace can also be deleted under the project's feet.           *)
(***************************************************************************)
EXTENDS Naturals, FiniteSets

CONSTANTS
    Apps,       \* names of apps
    Parent,     \* Parent[a]: the app a is nested in, or NoParent
    NoParent,
    Finalized,  \* the apps with delete jobs, so with a finalizer of their own
    MaxRuns,    \* bound: apps that users run
    MaxLate,    \* bound: those of them that come when the project is deleted
    MaxFaults   \* bound: restarts of the controller

ASSUME ProjectAssumption ==
    /\ NoParent \notin Apps
    /\ Parent \in [Apps -> Apps \cup {NoParent}]
    /\ Finalized \subseteq Apps
    /\ MaxRuns \in Nat /\ MaxLate \in Nat /\ MaxFaults \in Nat

VARIABLES
    project,    \* the ProjectInstance
    finalizer,  \* whether it has the finalizer project-app-delete
    namespace,  \* the project's namespace
    removed,    \* whether the removal of a namespace is still to be handled
    apps,       \* the AppInstances
    seen,       \* the controller's copy of them
    phase,      \* where the finalizer is
    todo,       \* the apps it still has to delete
    passes,     \* the apps over which a pass is running, with the namespace
                \* active and the app in the cache when it began
    runs, late, faults,  \* how often each of these happened
    forced,     \* history: whether the namespace was deleted by hand
    known       \* history: the apps, not gone since, that the controller knew
                \* of when the project was deleted

finalizing == <<phase, todo, passes>>
counters == <<runs, late, faults>>
history == <<forced, known>>
vars == <<project, finalizer, namespace, removed, apps, seen, phase, todo,
          passes, runs, late, faults, forced, known>>

TopLevel == {a \in Apps : Parent[a] = NoParent}

Init ==
    /\ project = "live" /\ finalizer = FALSE
    /\ namespace = "none" /\ removed = FALSE
    /\ apps = [a \in Apps |-> "none"] /\ seen = apps
    /\ phase = "idle" /\ todo = {} /\ passes = {}
    /\ runs = 0 /\ late = 0 /\ faults = 0
    /\ forced = FALSE /\ known = {}

Goes(a) == apps' = [apps EXCEPT ![a] = "none"] /\ known' = known \ {a}

\* An app without delete jobs goes at once, the others when they are done.
DeleteAnApp(a) ==
    IF apps[a] = "deleting" \/ (apps[a] = "live" /\ a \in Finalized)
    THEN apps' = [apps EXCEPT ![a] = "deleting"] /\ known' = known
    ELSE Goes(a)

-----------------------------------------------------------------------------
(* The project controller.                                                  *)

AddFinalizer ==
    /\ project = "live" /\ ~finalizer
    /\ finalizer' = TRUE
    /\ UNCHANGED <<project, namespace, removed, apps, seen, finalizing,
                   counters, history>>

\* Runs for a project that is being deleted too.
CreateNamespace ==
    /\ project # "gone" /\ finalizer /\ namespace = "none"
    /\ namespace' = "active"
    /\ UNCHANGED <<project, finalizer, removed, apps, seen, finalizing,
                   counters, history>>

\* Mutant: nested apps are not told from top-level ones.
FirstListEverything == Apps

\* Mutant: the second list asks for apps without a parent again.
SecondListTopLevel == TopLevel

FirstList == TopLevel

SecondList == Apps

\* Delete what is live in the list; with an empty list go on to the next phase.
ListApps(list, deletable, next) ==
    /\ todo' = {a \in deletable : seen[a] = "live"}
    /\ phase' = IF \E a \in list : seen[a] # "none" THEN "delete" ELSE next
    /\ UNCHANGED <<project, finalizer, namespace, removed, apps, seen, passes,
                   counters, history>>

ListParents ==
    /\ project = "deleting" /\ phase = "idle"
    /\ ListApps(FirstList, FirstList, "second")

ListEverything == phase = "second" /\ ListApps(Apps, SecondList, "remove")

DeleteListed(a) ==
    /\ phase = "delete" /\ a \in todo
    /\ todo' = todo \ {a}
    /\ DeleteAnApp(a)
    /\ UNCHANGED <<project, finalizer, namespace, removed, seen, phase,
                   passes, counters, forced>>

\* Mutant: the project does not wait for the apps it has deleted.
RetryAfterNothing ==
    /\ phase = "delete" /\ todo = {}
    /\ phase' = "remove"
    /\ UNCHANGED <<project, finalizer, namespace, removed, apps, seen, todo,
                   passes, counters, history>>

RetryAfter ==
    /\ phase = "delete" /\ todo = {}
    /\ phase' = "idle"
    /\ UNCHANGED <<project, finalizer, namespace, removed, apps, seen, todo,
                   passes, counters, history>>

RemoveFinalizer ==
    /\ phase = "remove"
    /\ project' = "gone" /\ finalizer' = FALSE /\ phase' = "idle"
    /\ UNCHANGED <<namespace, removed, apps, seen, todo, passes, counters,
                   history>>

Restart ==
    /\ phase # "idle" \/ passes # {}
    /\ faults < MaxFaults /\ faults' = faults + 1
    /\ phase' = "idle" /\ todo' = {} /\ passes' = {} /\ seen' = apps
    /\ UNCHANGED <<project, finalizer, namespace, removed, apps, runs, late,
                   history>>

SyncApps ==
    /\ seen # apps
    /\ seen' = apps
    /\ UNCHANGED <<project, finalizer, namespace, removed, apps, finalizing,
                   counters, history>>

ProjectDeleted ==
    /\ project' = IF finalizer THEN "deleting" ELSE "gone"
    /\ known' = {a \in Apps : seen[a] # "none" /\ apps[a] # "none"}

\* A namespace that was created again in the meantime is not a removed one.
DeleteProjectOnNamespaceDelete ==
    /\ removed /\ removed' = FALSE
    /\ IF namespace = "none" /\ project = "live"
       THEN ProjectDeleted ELSE UNCHANGED <<project, known>>
    /\ UNCHANGED <<finalizer, namespace, apps, seen, finalizing, counters,
                   forced>>

-----------------------------------------------------------------------------
(* The namespace, the apps and the users.                                   *)

Arrives(a) ==
    /\ namespace = "active" /\ apps[a] = "none"
    /\ apps' = [apps EXCEPT ![a] = "live"]

\* The validator asks whether the project exists, not whether it is deleted.
RunApp(a) ==
    /\ a \in TopLevel /\ project # "gone"
    /\ runs < MaxRuns /\ runs' = runs + 1
    /\ project = "live" \/ late < MaxLate
    /\ late' = IF project = "live" THEN late ELSE late + 1
    /\ Arrives(a)
    /\ UNCHANGED <<project, finalizer, namespace, removed, seen, finalizing,
                   faults, history>>

StartPass(p) ==
    /\ \E a \in Apps : Parent[a] = p
    /\ seen[p] # "none" /\ namespace = "active" /\ p \notin passes
    /\ passes' = passes \cup {p}
    /\ UNCHANGED <<project, finalizer, namespace, removed, apps, seen, phase,
                   todo, counters, history>>

\* A pass over an app, live or being deleted, applies the apps nested in it.
DeployAcorn(a) ==
    /\ Parent[a] \in passes
    /\ Arrives(a)
    /\ UNCHANGED <<project, finalizer, namespace, removed, seen, finalizing,
                   counters, history>>

EndPass(p) ==
    /\ p \in passes
    /\ passes' = passes \ {p}
    /\ UNCHANGED <<project, finalizer, namespace, removed, apps, seen, phase,
                   todo, counters, history>>

DeleteApp(a) ==
    /\ apps[a] = "live"
    /\ DeleteAnApp(a)
    /\ UNCHANGED <<project, finalizer, namespace, removed, seen, finalizing,
                   counters, forced>>

\* The delete jobs of an app have succeeded: a pass over the app ends it.
AppGone(a) ==
    /\ apps[a] = "deleting" /\ namespace = "active"
    /\ Goes(a) /\ passes' = passes \ {a}
    /\ UNCHANGED <<project, finalizer, namespace, removed, seen, phase, todo,
                   counters, forced>>

DeleteProject ==
    /\ project = "live"
    /\ ProjectDeleted
    /\ UNCHANGED <<finalizer, namespace, removed, apps, seen, finalizing,
                   counters, forced>>

\* A namespace goes with the project that owns it.
DeleteOwnedNamespace ==
    /\ project = "gone" /\ namespace = "active"
    /\ namespace' = "terminating"
    /\ UNCHANGED <<project, finalizer, removed, apps, seen, finalizing,
                   counters, history>>

DeleteNamespaceByHand ==
    /\ namespace = "active" /\ ~forced
    /\ namespace' = "terminating" /\ forced' = TRUE
    /\ UNCHANGED <<project, finalizer, removed, apps, seen, finalizing,
                   counters, known>>

\* In a terminating namespace the apps' finalizers wait for no job.
TerminateApp(a) ==
    /\ namespace = "terminating" /\ apps[a] # "none"
    /\ Goes(a)
    /\ UNCHANGED <<project, finalizer, namespace, removed, seen, finalizing,
                   counters, forced>>

NamespaceGone ==
    /\ namespace = "terminating" /\ \A a \in Apps : apps[a] = "none"
    /\ namespace' = "none" /\ removed' = TRUE
    /\ UNCHANGED <<project, finalizer, apps, seen, finalizing, counters,
                   history>>

-----------------------------------------------------------------------------
Finalizer == ListParents \/ ListEverything \/ RetryAfter \/ RemoveFinalizer
             \/ \E a \in Apps : DeleteListed(a)

Controller == AddFinalizer \/ CreateNamespace \/ Finalizer \/ SyncApps
              \/ DeleteProjectOnNamespaceDelete

Cluster == DeleteOwnedNamespace \/ NamespaceGone
           \/ \E a \in Apps : AppGone(a) \/ TerminateApp(a)

Users == DeleteProject \/ DeleteNamespaceByHand
         \/ \E a \in Apps : RunApp(a) \/ DeleteApp(a)

Next == Controller \/ Cluster \/ Users \/ Restart
        \/ \E a \in Apps : StartPass(a) \/ DeployAcorn(a) \/ EndPass(a)

Spec == Init /\ [][Next]_vars

\* The work queue retries, watches deliver, namespaces and delete jobs finish.
\* A nested app may or may not be created again before its parent is gone.
FairSpec ==
    /\ Spec
    /\ WF_vars(Finalizer) /\ WF_vars(SyncApps)
    /\ WF_vars(DeleteOwnedNamespace) /\ WF_vars(NamespaceGone)
    /\ \A a \in Apps : /\ WF_vars(AppGone(a)) /\ WF_vars(TerminateApp(a))
                       /\ WF_vars(EndPass(a))

-----------------------------------------------------------------------------
(* Properties.                                                              *)

AppStates == {"none", "live", "deleting"}

\* Every variable holds a value of its type; a project that is being deleted has
\* its finalizer, and the finalizer works on no other project.
TypeOK ==
    /\ project \in {"live", "deleting", "gone"} /\ finalizer \in BOOLEAN
    /\ namespace \in {"none", "active", "terminating"} /\ removed \in BOOLEAN
    /\ apps \in [Apps -> AppStates] /\ seen \in [Apps -> AppStates]
    /\ phase \in {"idle", "second", "delete", "remove"} /\ todo \subseteq Apps
    /\ passes \subseteq Apps
    /\ runs \in 0..MaxRuns /\ late \in 0..MaxLate /\ faults \in 0..MaxFaults
    /\ forced \in BOOLEAN /\ known \subseteq Apps
    /\ (project = "deleting") => finalizer
    /\ (phase # "idle") => (project = "deleting")

\* Every app the controller knew of when the project was deleted is gone before
\* the project goes, and, unless somebody deletes the namespace by hand, before
\* the namespace goes, so that its delete jobs are done (EnsureAllAppsRemoved).
KnownAppsFirst ==
    (project = "gone" \/ (namespace = "terminating" /\ ~forced)) => known = {}

\* "EnsureAllAppsRemoved ensures that all apps are removed from the project
\* before the namespace is deleted", whenever they came.
NamespaceLast ==
    (namespace = "terminating" /\ ~forced) => \A a \in Apps : apps[a] = "none"

\* "First delete all parent apps": the finalizer deletes a nested app only when
\* the top-level apps it knew of, which could create it again, are gone.
ParentsFirst ==
    [][\A a \in Apps \ TopLevel :
         (phase = "delete" /\ a \in todo \ todo' /\ phase' = "delete")
         => known \cap TopLevel = {}]_vars

\* A project that is deleted goes, with its namespace and all its apps, whatever
\* nested apps come back and however the namespace is deleted meanwhile.
ProjectGoes ==
    (project = "deleting") ~>
        (/\ project = "gone" /\ namespace = "none"
         /\ \A a \in Apps : apps[a] = "none")
=============================================================================
