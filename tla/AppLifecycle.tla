---------------------------- MODULE AppLifecycle ----------------------------
(***************************************************************************)
(* One AppInstance and the workloads the app controller runs for it: the    *)
(* jobs with their create, update, stop and delete events, the containers   *)
(* with their dependencies, the status the controller derives from the      *)
(* cluster, and the finalizer that holds a deleted app until its delete     *)
(* jobs have succeeded.                                                     *)
(*                                                                          *)
(* One pass of the controller takes several steps: it reads the app from    *)
(* its cache, settles the finalizer, runs the handlers, applies the objects *)
(* one by one, and writes the status.  Users, job pods, Deployments and     *)
(* restarts interleave with every one of them.                              *)
(***************************************************************************)
EXTENDS Naturals, FiniteSets

CONSTANTS
    Jobs,        \* names of the app's jobs
    Containers,  \* names of its containers
    Events,      \* Events[j]: the job's events, {} when it lists none
    DependsOn,   \* DependsOn[x]: the jobs and containers x depends on
    NoApp,       \* the app is not in the API server
    NoObject,    \* the Job or Deployment does not exist
    MaxGen,      \* bound: generations made by updates, stops and starts
    MaxFaults    \* bound: restarts, refused passes, failing containers

Workloads == Jobs \cup Containers
EventNames == {"create", "update", "stop", "delete"}

ASSUME AppLifecycleAssumption ==
    /\ Jobs \cap Containers = {}
    /\ Events \in [Jobs -> SUBSET EventNames]
    /\ DependsOn \in [Workloads -> SUBSET Workloads]
    /\ MaxGen \in Nat /\ MaxGen >= 1
    /\ MaxFaults \in Nat

VARIABLES
    app,       \* the AppInstance in the API server, or NoApp
    cache,     \* the controller's copy of it
    current,   \* whether the cache has the latest version
    phase,     \* where the controller is in its pass over the app
    view,      \* the app as this pass sees and changes it
    fresh,     \* whether the view has the latest resourceVersion
    plan,      \* the objects this pass still has to apply
    objects,   \* the Job or Deployment of every workload
    leaving,   \* whether the project's namespace is being deleted
    faults,    \* faults so far
    runs,      \* history: the job runs that succeeded
    deployed,  \* history: whether a workload was ever created
    excused    \* history: whether the user asked to skip the delete jobs

cluster == <<objects, runs, deployed>>
pass == <<phase, view, plan>>
vars == <<app, cache, current, phase, view, fresh, plan, objects, leaving,
          faults, runs, deployed, excused>>

JobStatus == [ready : BOOLEAN, created : BOOLEAN]
AppRecords == [gen : 1..(MaxGen + 1), stop : BOOLEAN, deleting : BOOLEAN,
               finalizer : BOOLEAN, observed : 0..(MaxGen + 1),
               ready : BOOLEAN, jobs : [Jobs -> JobStatus],
               containers : [Containers -> BOOLEAN]]
\* mode is the ACORN_EVENT of a Job, and whether a Deployment has replicas; ok
\* that the Job has succeeded or the Deployment has what it asked for.
ObjectRecords == [gen : 1..(MaxGen + 1),
                  mode : EventNames \cup {"scaled", "zero"}, ok : BOOLEAN]
PlanRecords ==
    [name : Jobs, mode : EventNames, create : BOOLEAN, update : BOOLEAN]
    \cup [name : Containers, mode : {"scaled", "zero"},
          create : BOOLEAN, update : BOOLEAN]
RunRecords == [job : Jobs, gen : 1..(MaxGen + 1), event : EventNames]

ASSUME NoAppAssumption == NoApp \notin AppRecords
ASSUME NoObjectAssumption == NoObject \notin ObjectRecords

Init ==
    /\ app = [gen |-> 1, stop |-> FALSE, deleting |-> FALSE,
              finalizer |-> FALSE, observed |-> 0, ready |-> FALSE,
              jobs |-> [j \in Jobs |-> [ready |-> FALSE, created |-> FALSE]],
              containers |-> [c \in Containers |-> FALSE]]
    /\ cache = app /\ current = TRUE
    /\ phase = "idle" /\ view = NoApp /\ fresh = FALSE /\ plan = {}
    /\ objects = [x \in Workloads |-> NoObject]
    /\ leaving = FALSE /\ faults = 0
    /\ runs = {} /\ deployed = FALSE /\ excused = FALSE

-----------------------------------------------------------------------------
(* The events of a job.                                                     *)

ShouldRunForEvent(event, j) ==
    IF Events[j] = {} THEN event \in {"create", "update"}
                      ELSE event \in Events[j]

\* Mutant: the create event is forgotten after the first generation.
GetEventByGeneration(a, j) ==
    CASE a.deleting -> "delete"
      [] ~a.deleting /\ a.stop -> "stop"
      [] ~a.deleting /\ ~a.stop /\ a.gen <= 1 -> "create"
      [] OTHER -> "update"

\* Mutant: a stopped app that is deleted still has the stop event.
GetEventStopFirst(a, j) ==
    CASE a.stop -> "stop"
      [] ~a.stop /\ a.deleting -> "delete"
      [] /\ ~a.deleting /\ ~a.stop
         /\ a.gen <= 1 \/ ("create" \in Events[j] /\ ~a.jobs[j].created)
         -> "create"
      [] OTHER -> "update"

GetEvent(a, j) ==
    CASE a.deleting -> "delete"
      [] ~a.deleting /\ a.stop -> "stop"
      [] /\ ~a.deleting /\ ~a.stop
         /\ a.gen <= 1 \/ ("create" \in Events[j] /\ ~a.jobs[j].created)
         -> "create"
      [] OTHER -> "update"

ShouldRun(a, j) == ShouldRunForEvent(GetEvent(a, j), j)

GetStopped(a) == a.stop /\ ~a.deleting

-----------------------------------------------------------------------------
(* The handlers of one pass, as functions of the app the pass works on.     *)

\* Mutant: what was ready before an update still counts as ready.
PrepareStatusKeepsReady(a) == a

\* What was ready before the app changed does not count for the dependencies.
PrepareStatus(a) ==
    [a EXCEPT
       !.containers = [c \in Containers |->
                         a.containers[c] /\ a.gen = a.observed],
       !.jobs = [j \in Jobs |->
                   [ready |-> /\ a.jobs[j].ready
                              /\ a.gen = a.observed \/ ~ShouldRun(a, j),
                    created |-> a.jobs[j].created]]]

DependenciesReady(a, x) ==
    /\ \A j \in Jobs \cap DependsOn[x] : a.jobs[j].ready
    /\ \A c \in Containers \cap DependsOn[x] : a.containers[c]

\* Mutant: a stopped app waits for its dependencies like any other.
ToApplyWhenReady(a, x, mode) ==
    [name |-> x, mode |-> mode,
     create |-> DependenciesReady(a, x), update |-> DependenciesReady(a, x)]

\* The apply.acorn.io/create and update annotations say whether an object may
\* be created or replaced while its dependencies are not ready.
ToApply(a, x, mode) ==
    [name |-> x, mode |-> mode,
     create |-> DependenciesReady(a, x),
     update |-> DependenciesReady(a, x) \/ GetStopped(a)]

DeploySpec(a) ==
    {ToApply(a, j, GetEvent(a, j)) : j \in {i \in Jobs : ShouldRun(a, i)}}
    \cup {ToApply(a, c, IF a.stop THEN "zero" ELSE "scaled") : c \in Containers}

\* Mutant: the generation annotation of the object is not looked at.
UpToDateAnyGeneration(a, x) == objects[x] # NoObject

UpToDate(a, x) == objects[x] # NoObject /\ objects[x].gen = a.gen

Succeeded(x) == objects[x] # NoObject /\ objects[x].ok

\* Mutant: a job is ready as soon as its Job is up to date.
ReadJobUnfinished(a, j) ==
    [ready |-> ShouldRun(a, j) => UpToDate(a, j) /\ DependenciesReady(a, j),
     created |-> a.jobs[j].created \/ (ShouldRun(a, j) /\ Succeeded(j))]

\* Mutant: that the create event succeeded is not carried over.
ReadJobForgetsCreate(a, j) ==
    [ready |-> ShouldRun(a, j) =>
                 Succeeded(j) /\ UpToDate(a, j) /\ DependenciesReady(a, j),
     created |-> Succeeded(j)]

ReadJob(a, j) ==
    IF ShouldRun(a, j)
    THEN [ready |-> Succeeded(j) /\ UpToDate(a, j) /\ DependenciesReady(a, j),
          created |-> a.jobs[j].created \/ Succeeded(j)]
    ELSE [ready |-> TRUE, created |-> a.jobs[j].created]

ReadContainer(a, c) ==
    UpToDate(a, c) /\ Succeeded(c) /\ DependenciesReady(a, c)

\* A workload without a message leaves its condition a success; the conditions
\* of an app that is being deleted do not ask for more than that.
Quiet(a, x) ==
    \/ x \in Jobs /\ ~ShouldRun(a, x)
    \/ DependenciesReady(a, x) /\ (objects[x] = NoObject \/ objects[x].ok)

SetStatus(a) ==
    [a EXCEPT !.jobs = [j \in Jobs |-> ReadJob(a, j)],
              !.containers = [c \in Containers |-> ReadContainer(a, c)]]

ReadyStatus(a) ==
    /\ a.gen = a.observed
    /\ \/ a.deleting /\ \A x \in Workloads : Quiet(a, x)
       \/ /\ \A j \in Jobs : ReadJob(a, j).ready
          /\ \A c \in Containers : ReadContainer(a, c)

UpdateObservedFields(a, ready) == [a EXCEPT !.ready = ready, !.observed = a.gen]

-----------------------------------------------------------------------------
(* The finalizer jobs.acorn.io/destroy.                                     *)

shouldFinalize == \E j \in Jobs : "delete" \in Events[j]

\* Mutant: any successful run of the job lets the app go.
doneAnyEvent(j) == Succeeded(j)

done(j) == Succeeded(j) /\ objects[j].mode = "delete"

FinalizeDestroyJob ==
    leaving \/ \A j \in Jobs : "delete" \in Events[j] => done(j)

-----------------------------------------------------------------------------
(* One pass of the controller.                                              *)

EndPass == phase' = "idle" /\ view' = NoApp /\ plan' = {} /\ fresh' = FALSE

\* Every write of the app but the controller's own makes its copies old.
Stored(a) == app' = a /\ fresh' = FALSE /\ current' = FALSE

Start ==
    /\ phase = "idle" /\ cache # NoApp
    /\ phase' = "finalize" /\ view' = cache /\ fresh' = current
    /\ UNCHANGED <<app, cache, current, plan, leaving, faults, excused, cluster>>

\* A conflict (or the app being gone) ends the pass; it will be tried again.
Conflict ==
    /\ ~fresh
    /\ EndPass
    /\ UNCHANGED <<app, cache, current, leaving, faults, excused, cluster>>

\* A live app gets the finalizer before any of its workloads is created.
AddFinalizer ==
    /\ phase = "finalize" /\ ~view.deleting
    /\ shouldFinalize /\ ~view.finalizer
    /\ \/ /\ fresh
          /\ app' = [app EXCEPT !.finalizer = TRUE] /\ current' = FALSE
          /\ view' = [view EXCEPT !.finalizer = TRUE] /\ phase' = "handle"
          /\ UNCHANGED <<cache, fresh, plan, leaving, faults, excused, cluster>>
       \/ Conflict

\* A deleted app loses it, and disappears, when its delete jobs are done.
RemoveFinalizer ==
    /\ phase = "finalize" /\ view.deleting /\ view.finalizer
    /\ FinalizeDestroyJob
    /\ \/ /\ fresh
          /\ app' = NoApp /\ current' = FALSE
          /\ EndPass
          /\ UNCHANGED <<cache, leaving, faults, excused, cluster>>
       \/ Conflict

KeepFinalizer ==
    /\ phase = "finalize"
    /\ \/ ~view.deleting /\ (view.finalizer \/ ~shouldFinalize)
       \/ view.deleting /\ ~(view.finalizer /\ FinalizeDestroyJob)
    /\ phase' = "handle"
    /\ UNCHANGED <<app, cache, current, view, fresh, plan, leaving, faults,
                   excused, cluster>>

\* All handlers run: the objects to apply, and the status from what is there.
Handle ==
    /\ phase = "handle" /\ ~leaving
    /\ LET a == PrepareStatus(view) IN
         /\ plan' = DeploySpec(a)
         /\ view' = UpdateObservedFields(SetStatus(a), ReadyStatus(a))
    /\ phase' = "apply"
    /\ UNCHANGED <<app, cache, current, fresh, leaving, faults, excused, cluster>>

\* Defaults, scheduling or quota are not there yet, or a handler fails: only
\* the prepared status remains of the pass, and nothing is pruned.
Refuse ==
    /\ phase = "handle" /\ ~leaving /\ faults < MaxFaults
    /\ faults' = faults + 1
    /\ view' = PrepareStatus(view) /\ phase' = "apply"
    /\ UNCHANGED <<app, cache, current, fresh, plan, leaving, excused, cluster>>

\* In a namespace that is being deleted no handler asks for a workload, so the
\* Deployments are pruned; Jobs are never pruned.
IgnoreTerminatingNamespace ==
    /\ phase = "handle" /\ leaving
    /\ view' = PrepareStatus(view) /\ phase' = "apply"
    /\ objects' = [x \in Workloads |->
                     IF x \in Containers THEN NoObject ELSE objects[x]]
    /\ UNCHANGED <<app, cache, current, fresh, plan, leaving, faults, excused,
                   runs, deployed>>

Desired(p) == [gen |-> view.gen, mode |-> p.mode, ok |-> FALSE]

\* A Job whose template changed is deleted and created again, and runs again.
ApplyObject(p) ==
    LET old == objects[p.name] IN
    IF old = NoObject THEN IF p.create THEN Desired(p) ELSE NoObject
    ELSE IF p.update /\ <<old.gen, old.mode>> # <<view.gen, p.mode>>
         THEN Desired(p) ELSE old

Apply ==
    /\ phase = "apply"
    /\ \E p \in plan :
         /\ plan' = plan \ {p}
         /\ objects' = [objects EXCEPT ![p.name] = ApplyObject(p)]
         /\ deployed' = (deployed \/ ApplyObject(p) # NoObject)
    /\ UNCHANGED <<app, cache, current, phase, view, fresh, leaving, faults,
                   runs, excused>>

SaveStatus ==
    /\ phase = "apply" /\ plan = {}
    /\ \/ /\ fresh
          /\ app' = view /\ current' = (current /\ app = view)
          /\ EndPass
          /\ UNCHANGED <<cache, leaving, faults, excused, cluster>>
       \/ Conflict

-----------------------------------------------------------------------------
(* The rest of the world.                                                   *)

SyncCache ==
    /\ ~current
    /\ cache' = app /\ current' = TRUE
    /\ UNCHANGED <<app, pass, fresh, leaving, faults, excused, cluster>>

Restart ==
    /\ phase # "idle" /\ faults < MaxFaults
    /\ faults' = faults + 1
    /\ EndPass
    /\ cache' = app /\ current' = TRUE
    /\ UNCHANGED <<app, leaving, excused, cluster>>

Live == app # NoApp /\ ~app.deleting

UpdateApp ==
    /\ Live /\ app.gen < MaxGen
    /\ \E stop \in BOOLEAN :
         Stored([app EXCEPT !.gen = @ + 1, !.stop = stop])
    /\ UNCHANGED <<cache, pass, leaving, faults, excused, cluster>>

\* Without a finalizer the app is gone at once.
DeleteApp ==
    /\ Live
    /\ Stored(IF app.finalizer
              THEN [app EXCEPT !.gen = @ + 1, !.deleting = TRUE] ELSE NoApp)
    /\ UNCHANGED <<cache, pass, leaving, faults, excused, cluster>>

IgnoreCleanup ==
    /\ app # NoApp /\ app.deleting /\ app.finalizer
    /\ Stored(NoApp)
    /\ excused' = TRUE
    /\ UNCHANGED <<cache, pass, leaving, faults, cluster>>

DeleteProjectNamespace ==
    /\ ~leaving /\ leaving' = TRUE
    /\ UNCHANGED <<app, cache, current, pass, fresh, faults, excused, cluster>>

\* The namespace of an app that is gone is deleted with all there is in it.
DeleteOrphaned ==
    /\ app = NoApp /\ \E x \in Workloads : objects[x] # NoObject
    /\ objects' = [x \in Workloads |-> NoObject]
    /\ UNCHANGED <<app, cache, current, pass, fresh, leaving, faults, excused,
                   runs, deployed>>

JobSucceeds(j) ==
    /\ objects[j] # NoObject /\ ~objects[j].ok
    /\ objects' = [objects EXCEPT ![j].ok = TRUE]
    /\ runs' = runs \cup {[job |-> j, gen |-> objects[j].gen,
                           event |-> objects[j].mode]}
    /\ UNCHANGED <<app, cache, current, pass, fresh, leaving, faults, deployed,
                   excused>>

ContainerReady(c) ==
    /\ objects[c] # NoObject /\ ~objects[c].ok
    /\ objects' = [objects EXCEPT ![c].ok = TRUE]
    /\ UNCHANGED <<app, cache, current, pass, fresh, leaving, faults, runs,
                   deployed, excused>>

ContainerFails(c) ==
    /\ objects[c] # NoObject /\ objects[c].ok /\ faults < MaxFaults
    /\ faults' = faults + 1
    /\ objects' = [objects EXCEPT ![c].ok = FALSE]
    /\ UNCHANGED <<app, cache, current, pass, fresh, leaving, runs, deployed,
                   excused>>

-----------------------------------------------------------------------------
Controller == Start \/ AddFinalizer \/ RemoveFinalizer \/ KeepFinalizer
              \/ Handle \/ IgnoreTerminatingNamespace \/ Apply \/ SaveStatus

User == UpdateApp \/ DeleteApp \/ IgnoreCleanup \/ DeleteProjectNamespace

World == \/ SyncCache \/ Restart \/ Refuse \/ DeleteOrphaned
         \/ \E j \in Jobs : JobSucceeds(j)
         \/ \E c \in Containers : ContainerReady(c) \/ ContainerFails(c)

Next == Controller \/ User \/ World

Spec == Init /\ [][Next]_vars

\* What the cluster and the controller do of themselves: watches deliver, a
\* queued pass is run to its end, the kubelets make Deployments available.
Scheduling ==
    /\ WF_vars(Controller) /\ WF_vars(SyncCache)
    /\ \A c \in Containers : WF_vars(ContainerReady(c))

\* A job is retried (a thousand times) and in the end succeeds.  Properties that
\* need it say so.
JobsSucceed == \A j \in Jobs : WF_vars(JobSucceeds(j))

FairSpec == Spec /\ Scheduling

-----------------------------------------------------------------------------
(* Properties.                                                              *)

\* Every variable holds a value of its type: a pass works on a record that some
\* version of the app could be, and a Job carries one of the four events.
TypeOK ==
    /\ app \in AppRecords \cup {NoApp}
    /\ cache \in AppRecords \cup {NoApp}
    /\ current \in BOOLEAN
    /\ phase \in {"idle", "finalize", "handle", "apply"}
    /\ view \in IF phase = "idle" THEN {NoApp} ELSE AppRecords
    /\ fresh \in BOOLEAN
    /\ plan \subseteq PlanRecords
    /\ objects \in [Workloads -> ObjectRecords \cup {NoObject}]
    /\ \A j \in Jobs : objects[j] # NoObject => objects[j].mode \in EventNames
    /\ leaving \in BOOLEAN
    /\ faults \in 0..MaxFaults
    /\ runs \subseteq RunRecords
    /\ deployed \in BOOLEAN
    /\ excused \in BOOLEAN

RanFor(j, event) == \E r \in runs : r.job = j /\ r.event = event
RanAt(j, gen) == \E r \in runs : r.job = j /\ r.gen = gen

\* An app that had a workload is not gone before each of its delete jobs has
\* succeeded for the delete event, unless its project went or the user skipped
\* them (FinalizeDestroyJob, and AddFinalizer before the first DeploySpec).
DestroyJobsRan ==
    (app = NoApp /\ deployed /\ ~excused /\ ~leaving) =>
        \A j \in Jobs : "delete" \in Events[j] => RanFor(j, "delete")

\* Job j has nothing left to do at generation gen of a live, running app: it
\* succeeded at it, or does not run for it and has had its create run.
JobSettled(j, gen) ==
    \/ RanAt(j, gen)
    \/ gen = 1 /\ ~ShouldRunForEvent("create", j)
    \/ /\ gen > 1 /\ ~ShouldRunForEvent("update", j)
       /\ "create" \in Events[j] => RanFor(j, "create")

\* A container of a live app gets the Deployment of a new generation only after
\* every job it depends on is settled at that generation and every container it
\* depends on has been deployed at it (the annotations of
\* getDependencyAnnotations, and the readiness PrepareStatus takes back).
GatedByDependencies ==
    [][\A c \in Containers :
         (/\ objects'[c] # NoObject /\ objects'[c].mode = "scaled"
          /\ objects[c] = NoObject \/ objects[c].gen # objects'[c].gen
          /\ ~view.deleting /\ app # NoApp) =>
         /\ \A j \in Jobs \cap DependsOn[c] : JobSettled(j, objects'[c].gen)
         /\ \A d \in Containers \cap DependsOn[c] :
              objects[d] # NoObject /\ objects[d].gen = objects'[c].gen]_objects

\* When the status says ready for the current generation of a live app, every
\* container runs that generation (or, stopped, has no replicas) and every job
\* is settled: ready is never left over from before an update (ReadyStatus,
\* UpdateObservedFields).
ReadyIsCurrent ==
    (Live /\ app.ready /\ app.observed = app.gen /\ ~leaving) =>
        /\ \A c \in Containers :
             /\ objects[c] # NoObject /\ objects[c].gen = app.gen
             /\ objects[c].mode = IF app.stop THEN "zero" ELSE "scaled"
        /\ \A j \in Jobs :
             IF app.stop THEN ShouldRunForEvent("stop", j) => RanAt(j, app.gen)
                         ELSE JobSettled(j, app.gen)

\* A job that lists the create event has succeeded for it once the app, running,
\* is ready (GetEvent goes on returning create until it has).
CreateRanOnce ==
    (Live /\ ~app.stop /\ app.ready /\ app.observed = app.gen /\ ~leaving) =>
        \A j \in Jobs : "create" \in Events[j] => RanFor(j, "create")

\* Once the user, the faults and the project are quiet, and if jobs succeed in
\* the end, a live app becomes ready and stays so.
Settles ==
    JobsSucceed => <>[](Live /\ ~leaving => app.ready /\ app.observed = app.gen)

\* If jobs succeed in the end a deleted app goes away: the finalizer is removed.
DeletionCompletes ==
    JobsSucceed => ((app # NoApp /\ app.deleting) ~> (app = NoApp))

\* A stop does not wait for jobs that never succeed: the Deployments of a
\* stopped app end without replicas (getDependencyAnnotations and GetStopped).
StopsAnyway ==
    <>[](Live /\ app.stop =>
           \A c \in Containers :
             objects[c] = NoObject \/ objects[c].mode = "zero")
=============================================================================
