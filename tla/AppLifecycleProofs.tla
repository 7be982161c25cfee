------------------------- MODULE AppLifecycleProofs -------------------------
(***************************************************************************)
(* Proofs about AppLifecycle: type correctness, that an app is not gone     *)
(* before its delete jobs have run, that its status tells the truth about a *)
(* live app, and that containers wait for what they depend on.              *)
(***************************************************************************)
EXTENDS AppLifecycle, TLAPS

\* A deleted app is there only because of its finalizer, and only deleting it
\* takes its generation past the bound on updates.
Sound(a) ==
    a # NoApp => /\ a.deleting => a.finalizer
                 /\ ~a.deleting => a.gen <= MaxGen

Copies ==
    /\ Sound(app) /\ Sound(cache) /\ Sound(view)
    /\ current => cache = app
    /\ fresh => app # NoApp /\ phase # "idle" /\ view.finalizer = app.finalizer

-----------------------------------------------------------------------------
(* What the handlers do to the app they work on.                            *)

LEMMA EventType ==
    ASSUME NEW a, NEW j PROVE GetEvent(a, j) \in EventNames
BY DEF GetEvent, EventNames

LEMMA PrepareType ==
    ASSUME NEW a \in AppRecords
    PROVE  /\ PrepareStatus(a) \in AppRecords
           /\ PrepareStatus(a).gen = a.gen
           /\ PrepareStatus(a).deleting = a.deleting
           /\ PrepareStatus(a).finalizer = a.finalizer
<1> DEFINE cs == [c \in Containers |-> a.containers[c] /\ a.gen = a.observed]
           js == [j \in Jobs |->
                   [ready |-> /\ a.jobs[j].ready
                              /\ a.gen = a.observed \/ ~ShouldRun(a, j),
                    created |-> a.jobs[j].created]]
<1>1. cs \in [Containers -> BOOLEAN]
  OBVIOUS
<1>2. js \in [Jobs -> JobStatus]
  <2>1. ASSUME NEW j \in Jobs
        PROVE  /\ a.jobs[j].created \in BOOLEAN
               /\ (/\ a.jobs[j].ready
                   /\ a.gen = a.observed \/ ~ShouldRun(a, j)) \in BOOLEAN
    BY DEF AppRecords, JobStatus
  <2>2. QED
    BY <2>1 DEF JobStatus
<1>3. PrepareStatus(a) = [a EXCEPT !.containers = cs, !.jobs = js]
  BY DEF PrepareStatus
<1> HIDE DEF cs, js
<1>4. QED
  BY <1>1, <1>2, <1>3 DEF AppRecords

LEMMA HandleType ==
    ASSUME NEW a \in AppRecords
    PROVE  LET b == UpdateObservedFields(SetStatus(a), ReadyStatus(a)) IN
           /\ b \in AppRecords
           /\ b.gen = a.gen
           /\ b.deleting = a.deleting
           /\ b.finalizer = a.finalizer
<1> DEFINE cs == [c \in Containers |-> ReadContainer(a, c)]
           js == [j \in Jobs |-> ReadJob(a, j)]
           r == ReadyStatus(a)
<1>1. cs \in [Containers -> BOOLEAN]
  BY DEF ReadContainer
<1>2. js \in [Jobs -> JobStatus]
  <2>1. ASSUME NEW j \in Jobs PROVE ReadJob(a, j) \in JobStatus
    <3>1. a.jobs[j].created \in BOOLEAN
      BY DEF AppRecords, JobStatus
    <3>2. /\ (Succeeded(j) /\ UpToDate(a, j) /\ DependenciesReady(a, j)) \in BOOLEAN
          /\ (a.jobs[j].created \/ Succeeded(j)) \in BOOLEAN
      OBVIOUS
    <3>3. QED
      BY <3>1, <3>2 DEF ReadJob, JobStatus
  <2>2. QED
    BY <2>1
<1>3. r \in BOOLEAN
  BY DEF ReadyStatus
<1>4. SetStatus(a) = [a EXCEPT !.jobs = js, !.containers = cs]
  BY DEF SetStatus
<1> HIDE DEF cs, js, r
<1>5. SetStatus(a) \in AppRecords
  BY <1>1, <1>2, <1>4 DEF AppRecords
<1>6. SetStatus(a).gen = a.gen /\ SetStatus(a).deleting = a.deleting
      /\ SetStatus(a).finalizer = a.finalizer
  BY <1>4 DEF AppRecords
<1>7. QED
  <2>0. SetStatus(a).gen \in 0..(MaxGen + 1)
    BY <1>5, AppLifecycleAssumption DEF AppRecords
  <2>1. UpdateObservedFields(SetStatus(a), r) \in AppRecords
    BY <1>3, <1>5, <2>0 DEF UpdateObservedFields, AppRecords
  <2>2. /\ UpdateObservedFields(SetStatus(a), r).gen = a.gen
        /\ UpdateObservedFields(SetStatus(a), r).deleting = a.deleting
        /\ UpdateObservedFields(SetStatus(a), r).finalizer = a.finalizer
    BY <1>5, <1>6 DEF UpdateObservedFields, AppRecords
  <2>3. QED
    BY <2>1, <2>2 DEF r

LEMMA PlanType ==
    ASSUME NEW a PROVE DeploySpec(a) \subseteq PlanRecords
<1>1. ASSUME NEW x, NEW mode
      PROVE  /\ x \in Jobs /\ mode \in EventNames => ToApply(a, x, mode) \in PlanRecords
             /\ x \in Containers /\ mode \in {"scaled", "zero"} =>
                  ToApply(a, x, mode) \in PlanRecords
  <2>1. /\ DependenciesReady(a, x) \in BOOLEAN
        /\ (DependenciesReady(a, x) \/ GetStopped(a)) \in BOOLEAN
    BY DEF DependenciesReady
  <2>2. QED
    BY <2>1 DEF ToApply, PlanRecords
<1>2. QED
  BY <1>1, EventType DEF DeploySpec

-----------------------------------------------------------------------------
(* Type correctness, together with what the copies of the app agree on.     *)

LEMMA InitCopies == Init => TypeOK /\ Copies
<1> SUFFICES ASSUME Init PROVE TypeOK /\ Copies
  OBVIOUS
<1>1. 1 \in 1..(MaxGen + 1) /\ 0 \in 0..(MaxGen + 1) /\ 1 <= MaxGen
      /\ 0 \in 0..MaxFaults
  BY AppLifecycleAssumption
<1>2. app \in AppRecords
  BY <1>1 DEF Init, AppRecords, JobStatus
<1>3. app.deleting = FALSE /\ app.gen = 1
  BY DEF Init
<1>4. QED
  BY <1>1, <1>2, <1>3 DEF Init, TypeOK, Copies, Sound, Workloads

LEMMA EndPassType ==
    ASSUME EndPass PROVE /\ phase' = "idle" /\ view' = NoApp
                         /\ plan' \subseteq PlanRecords
                         /\ fresh' \in BOOLEAN /\ ~fresh'
BY DEF EndPass

LEMMA UserKeepsCopies ==
    ASSUME TypeOK, Copies, User PROVE TypeOK' /\ Copies'
<1>1. CASE UpdateApp
  <2>1. PICK stop \in BOOLEAN : Stored([app EXCEPT !.gen = @ + 1, !.stop = stop])
    BY <1>1 DEF UpdateApp
  <2>2. app \in AppRecords /\ app.gen < MaxGen /\ ~app.deleting
    BY <1>1 DEF UpdateApp, Live, TypeOK
  <2>3. app.gen + 1 \in 1..(MaxGen + 1) /\ app.gen + 1 <= MaxGen
    BY <2>2, AppLifecycleAssumption DEF AppRecords
  <2>4. app' \in AppRecords /\ app'.gen <= MaxGen /\ ~app'.deleting
    BY <2>1, <2>2, <2>3 DEF Stored, AppRecords
  <2>5. QED
    BY <1>1, <2>1, <2>4
    DEF UpdateApp, Stored, TypeOK, Copies, Sound, pass, cluster
<1>2. CASE DeleteApp
  <2>1. app \in AppRecords /\ app.gen <= MaxGen
    BY <1>2 DEF DeleteApp, Live, TypeOK, Copies, Sound
  <2>2. app.gen + 1 \in 1..(MaxGen + 1)
    BY <2>1, AppLifecycleAssumption DEF AppRecords
  <2>3. CASE app.finalizer
    <3>1. app' = [app EXCEPT !.gen = @ + 1, !.deleting = TRUE]
      BY <1>2, <2>3 DEF DeleteApp, Stored
    <3>2. app' \in AppRecords /\ app'.deleting /\ app'.finalizer
      BY <2>1, <2>2, <2>3, <3>1 DEF AppRecords
    <3>3. QED
      BY <1>2, <3>2 DEF DeleteApp, Stored, TypeOK, Copies, Sound, pass, cluster
  <2>4. CASE ~app.finalizer
    <3>1. app' = NoApp
      BY <1>2, <2>4 DEF DeleteApp, Stored
    <3>2. QED
      BY <1>2, <3>1 DEF DeleteApp, Stored, TypeOK, Copies, Sound, pass, cluster
  <2>5. QED
    BY <2>3, <2>4
<1>3. CASE IgnoreCleanup
  BY <1>3 DEF IgnoreCleanup, Stored, TypeOK, Copies, Sound, pass, cluster
<1>4. CASE DeleteProjectNamespace
  BY <1>4 DEF DeleteProjectNamespace, TypeOK, Copies, Sound, pass, cluster
<1>5. QED
  BY <1>1, <1>2, <1>3, <1>4 DEF User

LEMMA ConflictKeepsCopies ==
    ASSUME TypeOK, Copies, Conflict PROVE TypeOK' /\ Copies'
BY EndPassType DEF Conflict, TypeOK, Copies, Sound, cluster

LEMMA ControllerKeepsCopies ==
    ASSUME TypeOK, Copies, Controller PROVE TypeOK' /\ Copies'
<1>1. CASE Start
  BY <1>1 DEF Start, TypeOK, Copies, Sound, cluster
<1>2. CASE AddFinalizer /\ fresh
  <2>1. app \in AppRecords /\ view \in AppRecords
    BY <1>2 DEF AddFinalizer, Copies, TypeOK
  <2>2. /\ app' = [app EXCEPT !.finalizer = TRUE]
        /\ view' = [view EXCEPT !.finalizer = TRUE]
        /\ current' = FALSE /\ phase' = "handle"
        /\ UNCHANGED <<cache, fresh, plan, leaving, faults, excused, cluster>>
    BY <1>2 DEF AddFinalizer, Conflict
  <2>3. /\ app' \in AppRecords /\ app'.finalizer = TRUE
        /\ app'.deleting = app.deleting /\ app'.gen = app.gen
        /\ view' \in AppRecords /\ view'.finalizer = TRUE
        /\ view'.deleting = view.deleting /\ view'.gen = view.gen
    BY <2>1, <2>2 DEF AppRecords
  <2>4. app # NoApp /\ view # NoApp
    BY <2>1, NoAppAssumption
  <2>5. QED
    BY <2>2, <2>3, <2>4, NoAppAssumption DEF TypeOK, Copies, Sound, cluster
<1>3. CASE RemoveFinalizer /\ fresh
  BY <1>3, EndPassType
  DEF RemoveFinalizer, Conflict, TypeOK, Copies, Sound, cluster
<1>4. CASE KeepFinalizer
  BY <1>4 DEF KeepFinalizer, TypeOK, Copies, Sound, cluster
<1>5. CASE Handle
  <2> DEFINE a == PrepareStatus(view)
  <2>1. view \in AppRecords
    BY <1>5 DEF Handle, TypeOK
  <2>2. a \in AppRecords /\ a.gen = view.gen /\ a.deleting = view.deleting
        /\ a.finalizer = view.finalizer
    BY <2>1, PrepareType
  <2>3. /\ view' = UpdateObservedFields(SetStatus(a), ReadyStatus(a))
        /\ plan' = DeploySpec(a)
    BY <1>5 DEF Handle
  <2> HIDE DEF a
  <2>4. view' \in AppRecords /\ view'.gen = view.gen
        /\ view'.deleting = view.deleting /\ view'.finalizer = view.finalizer
    BY <2>2, <2>3, HandleType
  <2>5. plan' \subseteq PlanRecords
    BY <2>3, PlanType
  <2>6. QED
    BY <1>5, <2>1, <2>4, <2>5, NoAppAssumption
    DEF Handle, TypeOK, Copies, Sound, cluster
<1>6. CASE IgnoreTerminatingNamespace
  <2>1. view \in AppRecords
    BY <1>6 DEF IgnoreTerminatingNamespace, TypeOK
  <2>2. view' \in AppRecords /\ view'.gen = view.gen
        /\ view'.deleting = view.deleting /\ view'.finalizer = view.finalizer
    BY <1>6, <2>1, PrepareType DEF IgnoreTerminatingNamespace
  <2>3. objects' \in [Workloads -> ObjectRecords \cup {NoObject}]
        /\ \A j \in Jobs : objects'[j] # NoObject => objects'[j].mode \in EventNames
    BY <1>6 DEF IgnoreTerminatingNamespace, TypeOK, Workloads
  <2>4. QED
    BY <1>6, <2>1, <2>2, <2>3, NoAppAssumption
    DEF IgnoreTerminatingNamespace, TypeOK, Copies, Sound
<1>7. CASE Apply
  <2>1. PICK p \in plan :
          /\ plan' = plan \ {p}
          /\ objects' = [objects EXCEPT ![p.name] = ApplyObject(p)]
          /\ deployed' = (deployed \/ ApplyObject(p) # NoObject)
    BY <1>7 DEF Apply
  <2>2. p \in PlanRecords /\ view \in AppRecords
    BY <1>7 DEF Apply, TypeOK
  <2>3. /\ Desired(p) \in ObjectRecords /\ Desired(p).mode = p.mode
        /\ p.name \in Workloads
        /\ p.name \in Jobs => p.mode \in EventNames
    BY <2>2, AppLifecycleAssumption
    DEF Desired, ObjectRecords, PlanRecords, AppRecords, Workloads
  <2>4. /\ ApplyObject(p) \in ObjectRecords \cup {NoObject}
        /\ p.name \in Jobs /\ ApplyObject(p) # NoObject =>
             ApplyObject(p).mode \in EventNames
    <3>1. ApplyObject(p) \in {Desired(p), NoObject, objects[p.name]}
      BY Zenon DEF ApplyObject
    <3>2. objects[p.name] \in ObjectRecords \cup {NoObject}
      BY <2>3 DEF TypeOK
    <3>3. p.name \in Jobs /\ objects[p.name] # NoObject =>
            objects[p.name].mode \in EventNames
      BY DEF TypeOK
    <3>4. QED
      BY <2>3, <3>1, <3>2, <3>3
  <2>5. objects' \in [Workloads -> ObjectRecords \cup {NoObject}]
        /\ \A j \in Jobs : objects'[j] # NoObject => objects'[j].mode \in EventNames
    BY <2>1, <2>4 DEF TypeOK, Workloads
  <2>6. deployed' \in BOOLEAN
    BY <2>1, Zenon
  <2>7. plan' \subseteq PlanRecords
    BY <2>1 DEF TypeOK
  <2>8. QED
    BY <1>7, <2>5, <2>6, <2>7 DEF Apply, TypeOK, Copies, Sound
<1>8. CASE SaveStatus /\ fresh
  <2>1. app' = view /\ EndPass /\ view \in AppRecords
        /\ current' = (current /\ app = view)
        /\ UNCHANGED <<cache, leaving, faults, excused, cluster>>
    BY <1>8 DEF SaveStatus, Conflict, TypeOK
  <2>2. current' \in BOOLEAN /\ (current' => cache = view)
    BY <2>1, Zenon DEF Copies
  <2>3. QED
    BY <2>1, <2>2, EndPassType DEF TypeOK, Copies, Sound, cluster
<1>9. QED
  BY <1>1, <1>2, <1>3, <1>4, <1>5, <1>6, <1>7, <1>8, ConflictKeepsCopies
  DEF Controller, AddFinalizer, RemoveFinalizer, SaveStatus

LEMMA WorldKeepsCopies ==
    ASSUME TypeOK, Copies, World PROVE TypeOK' /\ Copies'
<1>1. CASE SyncCache
  BY <1>1 DEF SyncCache, TypeOK, Copies, Sound, pass, cluster
<1>2. CASE Restart
  <2>1. faults' \in 0..MaxFaults
    BY <1>2, AppLifecycleAssumption DEF Restart, TypeOK
  <2>2. QED
    BY <1>2, <2>1, EndPassType DEF Restart, TypeOK, Copies, Sound, cluster
<1>3. CASE Refuse
  <2>1. faults' \in 0..MaxFaults
    BY <1>3, AppLifecycleAssumption DEF Refuse, TypeOK
  <2>2. view \in AppRecords
    BY <1>3 DEF Refuse, TypeOK
  <2>3. view' \in AppRecords /\ view'.gen = view.gen
        /\ view'.deleting = view.deleting /\ view'.finalizer = view.finalizer
    BY <1>3, <2>2, PrepareType DEF Refuse
  <2>4. QED
    BY <1>3, <2>1, <2>2, <2>3, NoAppAssumption
    DEF Refuse, TypeOK, Copies, Sound, cluster
<1>4. CASE DeleteOrphaned
  BY <1>4 DEF DeleteOrphaned, TypeOK, Copies, Sound, pass, Workloads
<1>5. ASSUME NEW j \in Jobs, JobSucceeds(j) PROVE TypeOK' /\ Copies'
  <2>1. objects[j] \in ObjectRecords
    BY <1>5 DEF JobSucceeds, TypeOK, Workloads
  <2>2. [objects[j] EXCEPT !.ok = TRUE] \in ObjectRecords
        /\ [objects[j] EXCEPT !.ok = TRUE].mode = objects[j].mode
    BY <2>1 DEF ObjectRecords
  <2>3. objects' \in [Workloads -> ObjectRecords \cup {NoObject}]
        /\ \A i \in Jobs : objects'[i] # NoObject => objects'[i].mode \in EventNames
    BY <1>5, <2>2 DEF JobSucceeds, TypeOK, Workloads
  <2>4. runs' \subseteq RunRecords
    BY <1>5, <2>1 DEF JobSucceeds, TypeOK, RunRecords, ObjectRecords
  <2>5. QED
    BY <1>5, <2>3, <2>4 DEF JobSucceeds, TypeOK, Copies, Sound, pass
<1>6. ASSUME NEW c \in Containers, ContainerReady(c) \/ ContainerFails(c)
      PROVE  TypeOK' /\ Copies'
  <2>1. objects[c] \in ObjectRecords
    BY <1>6 DEF ContainerReady, ContainerFails, TypeOK, Workloads
  <2>2. \A b \in BOOLEAN : [objects[c] EXCEPT !.ok = b] \in ObjectRecords
    BY <2>1 DEF ObjectRecords
  <2>3. objects' \in [Workloads -> ObjectRecords \cup {NoObject}]
        /\ \A i \in Jobs : objects'[i] # NoObject => objects'[i].mode \in EventNames
    BY <1>6, <2>2, AppLifecycleAssumption
    DEF ContainerReady, ContainerFails, TypeOK, Workloads
  <2>4. faults' \in 0..MaxFaults
    BY <1>6, AppLifecycleAssumption DEF ContainerReady, ContainerFails, TypeOK
  <2>5. QED
    BY <1>6, <2>3, <2>4
    DEF ContainerReady, ContainerFails, TypeOK, Copies, Sound, pass
<1>7. QED
  BY <1>1, <1>2, <1>3, <1>4, <1>5, <1>6 DEF World

\* Every value of the model keeps its type, and the controller's copies of the
\* app are versions the API server really had.
THEOREM TypeCorrect == Spec => [](TypeOK /\ Copies)
<1>1. TypeOK /\ Copies /\ [Next]_vars => TypeOK' /\ Copies'
  <2> SUFFICES ASSUME TypeOK, Copies, [Next]_vars PROVE TypeOK' /\ Copies'
    OBVIOUS
  <2>1. CASE UNCHANGED vars
    BY <2>1 DEF TypeOK, Copies, Sound, vars
  <2>2. QED
    BY <2>1, UserKeepsCopies, ControllerKeepsCopies, WorldKeepsCopies DEF Next
<1>2. QED
  BY <1>1, InitCopies, PTL DEF Spec

-----------------------------------------------------------------------------
(* The delete jobs run before the app is gone.  The invariant follows the   *)
(* finalizer: once any copy of the app has it, or a workload exists, the    *)
(* app keeps it until it is gone, and it goes for a reason.                 *)

AllDestroyed == \A j \in Jobs : "delete" \in Events[j] => RanFor(j, "delete")

Finalized ==
    \/ deployed
    \/ view # NoApp /\ view.finalizer
    \/ cache # NoApp /\ cache.finalizer

HeldBack ==
    shouldFinalize =>
        /\ phase \in {"handle", "apply"} => view.finalizer
        /\ Finalized /\ app # NoApp => app.finalizer
        /\ (Finalized /\ app = NoApp /\ ~excused /\ ~leaving) => AllDestroyed

\* A Job that has succeeded did so in a run for its event.
RunsRecorded ==
    \A j \in Jobs :
        (objects[j] # NoObject /\ objects[j].ok) =>
            \E r \in runs : /\ r.job = j
                            /\ r.gen = objects[j].gen
                            /\ r.event = objects[j].mode

LEMMA RunsAreRecorded ==
    ASSUME TypeOK, RunsRecorded, [Next]_vars PROVE RunsRecorded'
<1>1. CASE Apply
  <2>1. PICK p \in plan : objects' = [objects EXCEPT ![p.name] = ApplyObject(p)]
    BY <1>1 DEF Apply
  <2>2. ApplyObject(p) \in {Desired(p), NoObject, objects[p.name]}
    BY Zenon DEF ApplyObject
  <2>3. Desired(p).ok = FALSE
    BY DEF Desired
  <2>4. ASSUME NEW j \in Jobs, objects'[j] # NoObject, objects'[j].ok
        PROVE  objects'[j] = objects[j]
    BY <2>1, <2>2, <2>3, <2>4 DEF TypeOK, Workloads
  <2>5. QED
    BY <1>1, <2>4 DEF Apply, RunsRecorded
<1>2. ASSUME NEW j \in Jobs, JobSucceeds(j) PROVE RunsRecorded'
  <2> DEFINE run == [job |-> j, gen |-> objects[j].gen, event |-> objects[j].mode]
  <2>1. objects[j] \in ObjectRecords
    BY <1>2 DEF JobSucceeds, TypeOK, Workloads
  <2>2. /\ objects'[j].gen = objects[j].gen
        /\ objects'[j].mode = objects[j].mode
        /\ \A i \in Jobs : i # j => objects'[i] = objects[i]
    BY <1>2, <2>1 DEF JobSucceeds, TypeOK, Workloads, ObjectRecords
  <2>3. /\ runs' = runs \cup {run}
        /\ run.job = j /\ run.gen = objects[j].gen /\ run.event = objects[j].mode
    BY <1>2 DEF JobSucceeds
  <2> HIDE DEF run
  <2>4. QED
    BY <2>2, <2>3 DEF RunsRecorded
<1>3. ASSUME NEW c \in Containers, ContainerReady(c) \/ ContainerFails(c)
      PROVE  RunsRecorded'
  <2>1. \A j \in Jobs : objects'[j] = objects[j]
    BY <1>3, AppLifecycleAssumption
    DEF ContainerReady, ContainerFails, TypeOK, Workloads
  <2>2. QED
    BY <1>3, <2>1 DEF ContainerReady, ContainerFails, RunsRecorded
<1>4. CASE IgnoreTerminatingNamespace
  <2>1. \A j \in Jobs : objects'[j] = objects[j]
    BY <1>4, AppLifecycleAssumption DEF IgnoreTerminatingNamespace, Workloads
  <2>2. runs' = runs
    BY <1>4 DEF IgnoreTerminatingNamespace
  <2>3. QED
    BY <2>1, <2>2 DEF RunsRecorded
<1>5. CASE DeleteOrphaned
  BY <1>5 DEF DeleteOrphaned, RunsRecorded, Workloads
<1>6. CASE User \/ SyncCache \/ Restart \/ Refuse \/ UNCHANGED vars
  <2>1. runs' = runs /\ objects' = objects
    BY <1>6 DEF User, UpdateApp, DeleteApp, IgnoreCleanup, DeleteProjectNamespace,
                SyncCache, Restart, Refuse, vars, cluster
  <2>2. QED
    BY <2>1 DEF RunsRecorded
<1>7. CASE Start \/ AddFinalizer \/ RemoveFinalizer \/ KeepFinalizer \/ Handle
           \/ SaveStatus
  BY <1>7 DEF Start, AddFinalizer, RemoveFinalizer, KeepFinalizer, Handle,
              SaveStatus, Conflict, cluster, RunsRecorded
<1>8. QED
  BY <1>1, <1>2, <1>3, <1>4, <1>5, <1>6, <1>7 DEF Next, Controller, World

LEMMA RunsAccumulate == ASSUME [Next]_vars PROVE AllDestroyed => AllDestroyed'
<1>1. runs \subseteq runs'
  BY DEF Next, Controller, User, World, Start, AddFinalizer, RemoveFinalizer,
         KeepFinalizer, Handle, IgnoreTerminatingNamespace, Apply, SaveStatus,
         Conflict, UpdateApp, DeleteApp, IgnoreCleanup, DeleteProjectNamespace,
         SyncCache, Restart, Refuse, DeleteOrphaned, JobSucceeds, ContainerReady,
         ContainerFails, cluster, vars
<1>2. QED
  BY <1>1 DEF AllDestroyed, RanFor

LEMMA DoneMeansRan ==
    ASSUME RunsRecorded, FinalizeDestroyJob, ~leaving PROVE AllDestroyed
BY DEF RunsRecorded, FinalizeDestroyJob, done, Succeeded, AllDestroyed, RanFor

\* A step after which the finalizer is where it was, in every copy there is.
LEMMA UnfinalizedStep ==
    ASSUME [Next]_vars, HeldBack, app' = app,
           shouldFinalize /\ Finalized' => Finalized,
           shouldFinalize /\ phase' \in {"handle", "apply"} => view'.finalizer,
           excused' = excused, leaving => leaving'
    PROVE  HeldBack'
BY RunsAccumulate DEF HeldBack

LEMMA ControllerHoldsBack ==
    ASSUME TypeOK, Copies, RunsRecorded, HeldBack, Controller PROVE HeldBack'
<1>0. [Next]_vars
  BY DEF Next
<1>a. ASSUME Conflict PROVE HeldBack'
  BY <1>0, <1>a, UnfinalizedStep DEF Conflict, EndPass, Finalized, cluster
<1>1. CASE Start
  BY <1>0, <1>1, UnfinalizedStep DEF Start, Finalized, cluster
<1>2. CASE AddFinalizer /\ fresh
  <2>1. app # NoApp /\ app \in AppRecords /\ view \in AppRecords
    BY <1>2 DEF AddFinalizer, Copies, TypeOK
  <2>2. /\ app' = [app EXCEPT !.finalizer = TRUE]
        /\ view' = [view EXCEPT !.finalizer = TRUE]
    BY <1>2 DEF AddFinalizer, Conflict
  <2>3. app'.finalizer /\ view'.finalizer /\ app' \in AppRecords
    BY <2>1, <2>2 DEF AppRecords
  <2>4. QED
    BY <2>3, NoAppAssumption DEF HeldBack
<1>3. CASE RemoveFinalizer /\ fresh
  <2>1. EndPass /\ app' = NoApp /\ FinalizeDestroyJob
        /\ UNCHANGED <<cache, leaving, faults, excused, cluster>>
    BY <1>3 DEF RemoveFinalizer, Conflict
  <2>2. ~leaving => AllDestroyed'
    BY <1>0, <2>1, DoneMeansRan, RunsAccumulate
  <2>3. QED
    BY <2>1, <2>2 DEF HeldBack, EndPass
<1>4. CASE KeepFinalizer
  <2>1. view \in AppRecords /\ view # NoApp
    BY <1>4, NoAppAssumption DEF KeepFinalizer, TypeOK
  <2>2. shouldFinalize => view.finalizer
    BY <1>4, <2>1 DEF KeepFinalizer, Copies, Sound
  <2>3. QED
    BY <1>0, <1>4, <2>2, UnfinalizedStep DEF KeepFinalizer, Finalized, cluster
<1>5. CASE Handle
  <2> DEFINE a == PrepareStatus(view)
  <2>1. view \in AppRecords /\ view # NoApp
    BY <1>5, NoAppAssumption DEF Handle, TypeOK
  <2>2. a \in AppRecords /\ a.finalizer = view.finalizer
    BY <2>1, PrepareType
  <2>3. view' = UpdateObservedFields(SetStatus(a), ReadyStatus(a))
    BY <1>5 DEF Handle
  <2> HIDE DEF a
  <2>4. view'.finalizer = view.finalizer
    BY <2>2, <2>3, HandleType
  <2>5. QED
    BY <1>0, <1>5, <2>1, <2>4, UnfinalizedStep
    DEF Handle, Finalized, cluster, HeldBack
<1>6. CASE IgnoreTerminatingNamespace
  <2>1. view \in AppRecords /\ view # NoApp
    BY <1>6, NoAppAssumption DEF IgnoreTerminatingNamespace, TypeOK
  <2>2. view'.finalizer = view.finalizer
    BY <1>6, <2>1, PrepareType DEF IgnoreTerminatingNamespace
  <2>3. QED
    BY <1>0, <1>6, <2>1, <2>2, UnfinalizedStep
    DEF IgnoreTerminatingNamespace, Finalized, HeldBack
<1>7. CASE Apply
  <2>1. view \in AppRecords /\ view # NoApp
    BY <1>7, NoAppAssumption DEF Apply, TypeOK
  <2>2. shouldFinalize => view.finalizer
    BY <1>7 DEF Apply, HeldBack
  <2>3. QED
    BY <1>0, <1>7, <2>1, <2>2, UnfinalizedStep DEF Apply, Finalized
<1>8. CASE SaveStatus /\ fresh
  <2>1. app' = view /\ EndPass /\ view \in AppRecords
        /\ UNCHANGED <<cache, leaving, faults, excused, cluster>>
    BY <1>8 DEF SaveStatus, Conflict, TypeOK
  <2>2. app # NoApp /\ view # NoApp /\ view.finalizer = app.finalizer
    BY <1>8, <2>1, NoAppAssumption DEF Copies
  <2>3. QED
    BY <2>1, <2>2 DEF HeldBack, Finalized, EndPass, cluster
<1>9. QED
  BY <1>a, <1>1, <1>2, <1>3, <1>4, <1>5, <1>6, <1>7, <1>8
  DEF Controller, AddFinalizer, RemoveFinalizer, SaveStatus

LEMMA OthersHoldBack ==
    ASSUME TypeOK, Copies, HeldBack, User \/ World \/ UNCHANGED vars
    PROVE  HeldBack'
<1>0. [Next]_vars
  BY DEF Next
<1>1. CASE UpdateApp
  <2>1. PICK stop \in BOOLEAN : app' = [app EXCEPT !.gen = @ + 1, !.stop = stop]
    BY <1>1 DEF UpdateApp, Stored
  <2>2. app # NoApp /\ app \in AppRecords
    BY <1>1 DEF UpdateApp, Live, TypeOK
  <2>3. app'.finalizer = app.finalizer
    BY <2>1, <2>2 DEF AppRecords
  <2>4. app' # NoApp
    <3>1. app.gen + 1 \in 1..(MaxGen + 1)
      BY <1>1, <2>2, AppLifecycleAssumption DEF UpdateApp, AppRecords
    <3>2. app' \in AppRecords
      BY <2>1, <2>2, <3>1 DEF AppRecords
    <3>3. QED
      BY <3>2, NoAppAssumption
  <2>5. QED
    BY <1>1, <2>2, <2>3, <2>4
    DEF UpdateApp, HeldBack, Finalized, pass, cluster
<1>2. CASE DeleteApp
  <2>1. app # NoApp /\ app \in AppRecords
    BY <1>2 DEF DeleteApp, Live, TypeOK
  <2>2. CASE app.finalizer
    <3>1. app' = [app EXCEPT !.gen = @ + 1, !.deleting = TRUE]
      BY <1>2, <2>2 DEF DeleteApp, Stored
    <3>2. app'.finalizer
      BY <2>1, <2>2, <3>1 DEF AppRecords
    <3>3. app' # NoApp
      <4>1. app.gen + 1 \in 1..(MaxGen + 1)
        BY <1>2, <2>1, AppLifecycleAssumption
        DEF DeleteApp, Live, Copies, Sound, AppRecords
      <4>2. app' \in AppRecords
        BY <2>1, <3>1, <4>1 DEF AppRecords
      <4>3. QED
        BY <4>2, NoAppAssumption
    <3>4. QED
      BY <1>2, <3>2, <3>3 DEF DeleteApp, HeldBack, Finalized, pass, cluster
  <2>3. CASE ~app.finalizer
    BY <1>2, <2>1, <2>3
    DEF DeleteApp, Stored, HeldBack, Finalized, pass, cluster
  <2>4. QED
    BY <2>2, <2>3
<1>3. CASE IgnoreCleanup
  BY <1>3 DEF IgnoreCleanup, Stored, HeldBack, Finalized, pass, cluster
<1>4. CASE DeleteProjectNamespace
  BY <1>0, <1>4, UnfinalizedStep
  DEF DeleteProjectNamespace, HeldBack, Finalized, pass, cluster
<1>5. CASE SyncCache
  BY <1>5 DEF SyncCache, HeldBack, Finalized, AllDestroyed, RanFor, pass, cluster
<1>6. CASE Restart
  BY <1>6 DEF Restart, EndPass, HeldBack, Finalized, AllDestroyed, RanFor, cluster
<1>7. CASE Refuse
  <2>1. view \in AppRecords /\ view # NoApp
    BY <1>7, NoAppAssumption DEF Refuse, TypeOK
  <2>2. view'.finalizer = view.finalizer
    BY <1>7, <2>1, PrepareType DEF Refuse
  <2>3. QED
    BY <1>0, <1>7, <2>1, <2>2, UnfinalizedStep DEF Refuse, Finalized, HeldBack, cluster
<1>8. CASE \/ DeleteOrphaned
           \/ \E j \in Jobs : JobSucceeds(j)
           \/ \E c \in Containers : ContainerReady(c) \/ ContainerFails(c)
           \/ UNCHANGED vars
  BY <1>0, <1>8, UnfinalizedStep
  DEF DeleteOrphaned, JobSucceeds, ContainerReady, ContainerFails, vars, pass,
      Finalized, HeldBack
<1>9. QED
  BY <1>1, <1>2, <1>3, <1>4, <1>5, <1>6, <1>7, <1>8 DEF User, World

\* No app that had a workload disappears before its delete jobs have succeeded,
\* whatever the order of updates, deletes, conflicts, restarts and cache lag;
\* skipping the cleanup and deleting the project are the only ways around it.
THEOREM DestroyedInOrder == Spec => []DestroyJobsRan
<1>1. Init => HeldBack /\ RunsRecorded
  BY DEF Init, HeldBack, Finalized, RunsRecorded, Workloads
<1>2. TypeOK /\ Copies /\ HeldBack /\ RunsRecorded /\ [Next]_vars
        => HeldBack' /\ RunsRecorded'
  BY RunsAreRecorded, ControllerHoldsBack, OthersHoldBack DEF Next
<1>3. HeldBack => DestroyJobsRan
  BY DEF HeldBack, Finalized, DestroyJobsRan, AllDestroyed, shouldFinalize
<1>4. QED
  BY <1>1, <1>2, <1>3, TypeCorrect, PTL DEF Spec

-----------------------------------------------------------------------------
(* What the status says of a live app is so, and a Deployment waits for what *)
(* it depends on.  The invariant speaks of every copy of the app, of the     *)
(* objects that were made from them, and of what the pass has still to apply.*)

\* A job that lists both events may have stop where it should have create: any
\* success counts as the create run.
NoCreateAndStop == \A j \in Jobs : ~({"create", "stop"} \subseteq Events[j])

Ran(R, j, event) == \E r \in R : r.job = j /\ r.event = event
RanGen(R, j, gen) == \E r \in R : r.job = j /\ r.gen = gen
Settled(R, j, gen) ==
    \/ RanGen(R, j, gen)
    \/ gen = 1 /\ ~ShouldRunForEvent("create", j)
    \/ /\ gen > 1 /\ ~ShouldRunForEvent("update", j)
       /\ "create" \in Events[j] => Ran(R, j, "create")

LEMMA HistoryDefs ==
    /\ \A j, event : RanFor(j, event) <=> Ran(runs, j, event)
    /\ \A j, gen : RanAt(j, gen) <=> RanGen(runs, j, gen)
    /\ \A j, gen : JobSettled(j, gen) <=> Settled(runs, j, gen)
BY DEF RanFor, RanAt, JobSettled, Ran, RanGen, Settled

LEMMA HistoryGrows ==
    ASSUME NEW R, NEW R2, R \subseteq R2
    PROVE  /\ \A j, event : Ran(R, j, event) => Ran(R2, j, event)
           /\ \A j, gen : RanGen(R, j, gen) => RanGen(R2, j, gen)
           /\ \A j, gen : Settled(R, j, gen) => Settled(R2, j, gen)
BY DEF Ran, RanGen, Settled

\* Of two copies of the app the older one: versions with one generation agree on what
\* the user asked for, and a deleted app stays deleted.
Precedes(r, s) ==
    r # NoApp /\ s # NoApp =>
        /\ r.gen <= s.gen
        /\ r.gen = s.gen => r.stop = s.stop /\ r.deleting = s.deleting
        /\ r.deleting => s.deleting

\* The pass works on an older copy than the cache, and the cache is older than the app.
Versions ==
    /\ Precedes(view, cache) /\ Precedes(cache, app) /\ Precedes(view, app)
    /\ cache = NoApp => app = NoApp
    /\ fresh => view.gen = app.gen
    /\ phase # "apply" => plan = {}
    /\ app # NoApp => app.observed <= app.gen
    /\ cache # NoApp => cache.observed <= cache.gen
    /\ view # NoApp => view.observed <= view.gen

\* An update run is asked for only after the create run of the job.
CreateBehind(R, j, event) ==
    event = "update" /\ "create" \in Events[j] => Ran(R, j, "create")

\* An object was made from a copy no newer than r.
NoNewer(o, r) ==
    o # NoObject /\ r # NoApp => /\ o.gen <= r.gen
                                 /\ o.mode = "delete" => r.deleting

Scale(r) == IF r.stop THEN "zero" ELSE "scaled"

JobObject(o, j, R) ==
    o # NoObject => ShouldRunForEvent(o.mode, j) /\ CreateBehind(R, j, o.mode)
ScaledFor(o, r) ==
    o # NoObject /\ r # NoApp /\ o.gen = r.gen => o.mode = Scale(r)

ObjectsOK ==
    /\ \A x \in Workloads : /\ NoNewer(objects[x], cache)
                            /\ NoNewer(objects[x], view)
                            /\ NoNewer(objects[x], app)
    /\ \A j \in Jobs : JobObject(objects[j], j, runs)
    /\ \A c \in Containers : ScaledFor(objects[c], app)

Deployed(O, c, gen) == O[c] # NoObject /\ O[c].gen = gen

\* Nothing takes the Deployments away.
Staying == app # NoApp /\ ~leaving

\* The create run of every job that is said to have had it.
CreatedOK(r, R) ==
    \A j \in Jobs : r.jobs[j].created /\ "create" \in Events[j] => Ran(R, j, "create")

\* What a ready job of copy r has behind it.
JobReadyOK(r, R, j) ==
    IF r.stop THEN ShouldRunForEvent("stop", j) => RanGen(R, j, r.gen)
    ELSE Settled(R, j, r.gen) /\ ("create" \in Events[j] => Ran(R, j, "create"))

ObservedOK(r, R, O, staying) ==
    /\ \A j \in Jobs : r.jobs[j].ready => JobReadyOK(r, R, j)
    /\ \A c \in Containers : r.containers[c] /\ staying => Deployed(O, c, r.gen)
    /\ r.ready => /\ \A j \in Jobs : r.jobs[j].ready
                  /\ \A c \in Containers : r.containers[c]

\* What the status of a live app says is so at the generation it was observed at.
StatusOK(r, R, O, staying) ==
    r # NoApp /\ ~r.deleting =>
        /\ CreatedOK(r, R)
        /\ r.observed = r.gen => ObservedOK(r, R, O, staying)

\* A Deployment is to be made or changed only behind its dependencies.
Gated(p, v, R, O, there) ==
    /\ \A j \in Jobs \cap DependsOn[p.name] : Settled(R, j, v.gen)
    /\ \A d \in Containers \cap DependsOn[p.name] : there => Deployed(O, d, v.gen)

\* What the pass has still to apply is for its copy of the app.
PlannedOK(p, v, R, O, there) ==
    /\ p.name \in Jobs =>
         /\ ShouldRunForEvent(p.mode, p.name) /\ CreateBehind(R, p.name, p.mode)
         /\ p.mode = "delete" => v.deleting
    /\ p.name \in Containers =>
         /\ p.mode = Scale(v)
         /\ p.mode = "scaled" /\ (p.create \/ p.update) /\ ~v.deleting
              => Gated(p, v, R, O, there)

PlanOK == \A p \in plan : PlannedOK(p, view, runs, objects, app # NoApp)

CopiesOK ==
    /\ StatusOK(app, runs, objects, Staying)
    /\ StatusOK(cache, runs, objects, Staying)
    /\ StatusOK(view, runs, objects, Staying)

LifeInv == Versions /\ ObjectsOK /\ PlanOK /\ CopiesOK

-----------------------------------------------------------------------------
(* Steps that make no object and change none but for its success.           *)

\* Job runs are added, and as long as Deployments are of interest none goes.
ObjectsKept ==
    /\ runs \subseteq runs'
    /\ \A x \in Workloads : objects'[x] # NoObject =>
         /\ objects[x] # NoObject
         /\ objects'[x].gen = objects[x].gen /\ objects'[x].mode = objects[x].mode
    /\ Staying' => Staying
    /\ app' # NoApp => app # NoApp
    /\ Staying' \/ (app' # NoApp /\ plan' # {}) =>
         \A c \in Containers : objects[c] # NoObject => /\ objects'[c] # NoObject
                                                        /\ objects'[c].gen = objects[c].gen

LEMMA StatusKept ==
    ASSUME ObjectsKept, NEW r, StatusOK(r, runs, objects, Staying)
    PROVE  StatusOK(r, runs', objects', Staying')
<1> SUFFICES ASSUME r # NoApp, ~r.deleting
             PROVE  /\ CreatedOK(r, runs')
                    /\ r.observed = r.gen => ObservedOK(r, runs', objects', Staying')
  BY DEF StatusOK
<1>0. runs \subseteq runs'
  BY DEF ObjectsKept
<1>1. CreatedOK(r, runs')
  BY <1>0, HistoryGrows DEF StatusOK, CreatedOK
<1>2. ASSUME r.observed = r.gen PROVE ObservedOK(r, runs', objects', Staying')
  <2>1. ObservedOK(r, runs, objects, Staying)
    BY <1>2 DEF StatusOK
  <2>2. \A j \in Jobs : r.jobs[j].ready => JobReadyOK(r, runs', j)
    BY <1>0, <2>1, HistoryGrows DEF ObservedOK, JobReadyOK
  <2>3. \A c \in Containers : r.containers[c] /\ Staying' => Deployed(objects', c, r.gen)
    BY <2>1 DEF ObjectsKept, ObservedOK, Deployed
  <2>4. QED
    BY <2>1, <2>2, <2>3 DEF ObservedOK
<1>3. QED
  BY <1>1, <1>2

LEMMA PlannedKept ==
    ASSUME ObjectsKept, NEW p \in plan', NEW v,
           PlannedOK(p, v, runs, objects, app # NoApp)
    PROVE  PlannedOK(p, v, runs', objects', app' # NoApp)
<1>0. runs \subseteq runs'
  BY DEF ObjectsKept
<1>1. Gated(p, v, runs, objects, app # NoApp) => Gated(p, v, runs', objects', app' # NoApp)
  BY <1>0, HistoryGrows DEF Gated, ObjectsKept, Deployed
<1>2. CreateBehind(runs, p.name, p.mode) => CreateBehind(runs', p.name, p.mode)
  BY <1>0, HistoryGrows DEF CreateBehind
<1>3. QED
  BY <1>1, <1>2 DEF PlannedOK

\* Whatever copy the objects were no newer than.
LEMMA NoNewerKept ==
    ASSUME ObjectsKept, NEW r, NEW x \in Workloads, NoNewer(objects[x], r)
    PROVE  NoNewer(objects'[x], r)
BY DEF ObjectsKept, NoNewer

LEMMA ObjectsKeepKinds ==
    ASSUME ObjectsKept, ObjectsOK
    PROVE  /\ \A j \in Jobs : JobObject(objects'[j], j, runs')
           /\ \A c \in Containers : ScaledFor(objects'[c], app)
<1>0. runs \subseteq runs'
  BY DEF ObjectsKept
<1>1. ASSUME NEW j \in Jobs PROVE JobObject(objects'[j], j, runs')
  BY <1>0, HistoryGrows DEF ObjectsKept, ObjectsOK, JobObject, CreateBehind, Workloads
<1>2. QED
  BY <1>1 DEF ObjectsKept, ObjectsOK, ScaledFor, Workloads

\* A step that leaves the app as it is, and takes each copy from an older one.
LEMMA CopiesMove ==
    ASSUME TypeOK, LifeInv, ObjectsKept, app' = app,
           cache' \in {cache, app},
           view' \in {view, NoApp} \/ (view' = cache /\ cache' = cache),
           phase' # "apply" => plan' = {}, plan' \subseteq plan,
           plan' # {} => view' = view,
           fresh' => view'.gen = app.gen
    PROVE  LifeInv'
<1>1. Versions'
  <2>1. Precedes(app, app) /\ Precedes(cache, cache)
    BY DEF TypeOK, AppRecords, Precedes
  <2>2. Precedes(view', cache') /\ Precedes(cache', app') /\ Precedes(view', app')
    <3>1. CASE cache' = cache
      BY <2>1, <3>1 DEF LifeInv, Versions, Precedes
    <3>3. CASE cache' = app /\ view' \in {view, NoApp}
      BY <2>1, <3>3 DEF LifeInv, Versions, Precedes
    <3>4. QED
      BY <3>1, <3>3
  <2>3. QED
    BY <2>2 DEF LifeInv, Versions
<1>2. ObjectsOK'
  <2>1. ASSUME NEW x \in Workloads
        PROVE  NoNewer(objects'[x], cache') /\ NoNewer(objects'[x], view')
               /\ NoNewer(objects'[x], app')
    <3>1. NoNewer(objects[x], NoApp)
      BY DEF NoNewer
    <3>2. NoNewer(objects[x], cache') /\ NoNewer(objects[x], view') /\ NoNewer(objects[x], app')
      BY <3>1 DEF LifeInv, ObjectsOK
    <3>3. QED
      BY <3>2, NoNewerKept
  <2>2. QED
    BY <2>1, ObjectsKeepKinds DEF LifeInv, ObjectsOK
<1>3. PlanOK'
  <2>1. ASSUME NEW p \in plan' PROVE PlannedOK(p, view', runs', objects', app' # NoApp)
    <3>1. view' = view /\ p \in plan
      BY <2>1
    <3>2. QED
      BY <3>1, PlannedKept DEF LifeInv, PlanOK
  <2>2. QED
    BY <2>1 DEF PlanOK
<1>4. CopiesOK'
  <2>1. StatusOK(NoApp, runs, objects, Staying)
    BY DEF StatusOK
  <2>2. QED
    BY <2>1, StatusKept DEF LifeInv, CopiesOK
<1>5. QED
  BY <1>1, <1>2, <1>3, <1>4 DEF LifeInv

LEMMA OneObjectKept ==
    ASSUME TypeOK, NEW x \in Workloads, objects[x] # NoObject, NEW b \in BOOLEAN,
           objects' = [objects EXCEPT ![x].ok = b],
           runs \subseteq runs', app' = app, leaving' = leaving
    PROVE  ObjectsKept
<1>1. objects[x] \in ObjectRecords
  BY DEF TypeOK
<1>2. [objects[x] EXCEPT !.ok = b] \in ObjectRecords
      /\ [objects[x] EXCEPT !.ok = b].gen = objects[x].gen
      /\ [objects[x] EXCEPT !.ok = b].mode = objects[x].mode
  BY <1>1 DEF ObjectRecords
<1>3. objects' = [objects EXCEPT ![x] = [objects[x] EXCEPT !.ok = b]]
  OBVIOUS
<1>4. /\ objects'[x] = [objects[x] EXCEPT !.ok = b]
      /\ \A y \in Workloads \ {x} : objects'[y] = objects[y]
  BY <1>3 DEF TypeOK
<1>5. \A y \in Workloads : /\ objects'[y].gen = objects[y].gen
                           /\ objects'[y].mode = objects[y].mode
                           /\ objects'[y] # NoObject => objects[y] # NoObject
  BY <1>2, <1>4
<1>6. \A y \in Workloads : objects[y] # NoObject => objects'[y] # NoObject
  <2>1. CASE NoObject \notin ObjectRecords
    BY <1>2, <1>4, <2>1
  <2>2. QED
    BY <2>1, NoObjectAssumption
<1>7. QED
  BY <1>5, <1>6 DEF ObjectsKept, Staying, Workloads

\* Nothing happens to objects and runs.
LEMMA NothingKept ==
    ASSUME UNCHANGED <<objects, runs>>, Staying' => Staying, app' # NoApp => app # NoApp
    PROVE  ObjectsKept
BY DEF ObjectsKept

\* The steps that read, wait, give up, or change only the cluster.
LEMMA SmallSteps ==
    ASSUME TypeOK, Copies, LifeInv,
           \/ Start \/ Conflict \/ KeepFinalizer \/ SyncCache \/ Restart
           \/ DeleteProjectNamespace \/ DeleteOrphaned
           \/ \E j \in Jobs : JobSucceeds(j)
           \/ \E c \in Containers : ContainerReady(c) \/ ContainerFails(c)
           \/ UNCHANGED vars
    PROVE  LifeInv'
<1>0. fresh => view.gen = app.gen
  BY DEF LifeInv, Versions
<1>1. CASE Start
  <2>1. ObjectsKept
    BY <1>1, NothingKept DEF Start, cluster, Staying
  <2>2. plan = {}
    BY <1>1 DEF Start, LifeInv, Versions
  <2>3. QED
    BY <1>1, <2>1, <2>2, CopiesMove DEF Start, Copies
<1>2. CASE Conflict
  <2>1. ObjectsKept
    BY <1>2, NothingKept DEF Conflict, cluster, Staying
  <2>2. QED
    BY <1>2, <2>1, CopiesMove DEF Conflict, EndPass
<1>3. CASE KeepFinalizer
  <2>1. ObjectsKept
    BY <1>3, NothingKept DEF KeepFinalizer, cluster, Staying
  <2>2. plan = {}
    BY <1>3 DEF KeepFinalizer, LifeInv, Versions
  <2>3. QED
    BY <1>0, <1>3, <2>1, <2>2, CopiesMove DEF KeepFinalizer
<1>4. CASE SyncCache
  <2>1. ObjectsKept
    BY <1>4, NothingKept DEF SyncCache, cluster, Staying
  <2>2. QED
    BY <1>0, <1>4, <2>1, CopiesMove DEF SyncCache, pass, LifeInv, Versions
<1>5. CASE Restart
  <2>1. ObjectsKept
    BY <1>5, NothingKept DEF Restart, cluster, Staying
  <2>2. QED
    BY <1>5, <2>1, CopiesMove DEF Restart, EndPass
<1>6. CASE DeleteProjectNamespace
  <2>1. ObjectsKept
    BY <1>6, NothingKept DEF DeleteProjectNamespace, cluster, Staying
  <2>2. QED
    BY <1>0, <1>6, <2>1, CopiesMove DEF DeleteProjectNamespace, pass, LifeInv, Versions
<1>7. CASE DeleteOrphaned
  <2>1. ObjectsKept
    BY <1>7 DEF DeleteOrphaned, ObjectsKept, Staying
  <2>2. QED
    BY <1>0, <1>7, <2>1, CopiesMove DEF DeleteOrphaned, pass, LifeInv, Versions
<1>8. ASSUME NEW j \in Jobs, JobSucceeds(j) PROVE LifeInv'
  <2>1. ObjectsKept
    BY <1>8, OneObjectKept DEF JobSucceeds, Workloads
  <2>2. QED
    BY <1>0, <1>8, <2>1, CopiesMove DEF JobSucceeds, pass, LifeInv, Versions
<1>9. ASSUME NEW c \in Containers, ContainerReady(c) \/ ContainerFails(c) PROVE LifeInv'
  <2>1. ObjectsKept
    BY <1>9, OneObjectKept DEF ContainerReady, ContainerFails, Workloads
  <2>2. QED
    BY <1>0, <1>9, <2>1, CopiesMove
    DEF ContainerReady, ContainerFails, pass, LifeInv, Versions
<1>10. CASE UNCHANGED vars
  <2>1. ObjectsKept
    BY <1>10, NothingKept DEF vars, Staying
  <2>2. QED
    BY <1>0, <1>10, <2>1, CopiesMove DEF vars, LifeInv, Versions
<1>11. QED
  BY <1>1, <1>2, <1>3, <1>4, <1>5, <1>6, <1>7, <1>8, <1>9, <1>10

-----------------------------------------------------------------------------
(* Steps that write the app.                                                *)

\* The finalizer says nothing about the status.
LEMMA SameStatus ==
    ASSUME NEW r, NEW s, NEW R, NEW O, NEW staying, r # NoApp,
           s.gen = r.gen, s.stop = r.stop, s.deleting = r.deleting,
           s.observed = r.observed, s.ready = r.ready,
           s.jobs = r.jobs, s.containers = r.containers,
           StatusOK(r, R, O, staying)
    PROVE  StatusOK(s, R, O, staying)
BY DEF StatusOK, CreatedOK, ObservedOK, JobReadyOK

\* The new version of the app follows the old one, the cache and the objects do not
\* change, and the pass, if it goes on, has an old copy now.
LEMMA AppMoves ==
    ASSUME TypeOK, LifeInv, UNCHANGED <<objects, runs, cache, leaving>>,
           app # NoApp, app' \in AppRecords \cup {NoApp},
           Precedes(app, app'), StatusOK(app', runs, objects, Staying),
           app' # NoApp => app'.observed <= app'.gen,
           ~fresh',
           \/ view' = view /\ plan' = plan /\ phase' = phase
           \/ view' = NoApp /\ plan' = {}
    PROVE  LifeInv'
<1>0. ObjectsKept
  BY NothingKept DEF Staying
<1>1. Versions'
  <2>1. Precedes(cache, app') /\ Precedes(view, app')
    BY DEF TypeOK, AppRecords, LifeInv, Versions, Precedes
  <2>2. Precedes(NoApp, app') /\ Precedes(NoApp, cache)
    BY DEF Precedes
  <2>3. cache # NoApp
    BY DEF LifeInv, Versions
  <2>4. QED
    BY <2>1, <2>2, <2>3 DEF LifeInv, Versions
<1>2. ObjectsOK'
  <2>1. ASSUME NEW x \in Workloads
        PROVE  /\ NoNewer(objects[x], app')
               /\ ScaledFor(objects[x], app) => ScaledFor(objects[x], app')
    <3>1. NoNewer(objects[x], app)
      BY DEF LifeInv, ObjectsOK
    <3>2. objects[x] # NoObject => objects[x].gen \in Nat
      BY AppLifecycleAssumption DEF TypeOK, ObjectRecords
    <3>3. app.gen \in Nat /\ (app' # NoApp => app'.gen \in Nat)
      BY AppLifecycleAssumption DEF TypeOK, AppRecords
    <3>4. NoNewer(objects[x], app')
      BY <3>1, <3>2, <3>3 DEF NoNewer, Precedes
    <3>5. ScaledFor(objects[x], app) => ScaledFor(objects[x], app')
      BY <3>1, <3>2, <3>3 DEF NoNewer, ScaledFor, Scale, Precedes
    <3>6. QED
      BY <3>4, <3>5
  <2>2. \A x \in Workloads : NoNewer(objects[x], app')
    BY <2>1
  <2>3. \A c \in Containers : ScaledFor(objects[c], app')
    BY <2>1 DEF LifeInv, ObjectsOK, Workloads
  <2>4. \A x \in Workloads : NoNewer(objects[x], NoApp)
    BY DEF NoNewer
  <2>5. QED
    BY <2>2, <2>3, <2>4 DEF LifeInv, ObjectsOK
<1>3. PlanOK'
  BY <1>0, PlannedKept DEF LifeInv, PlanOK
<1>4. CopiesOK'
  <2>1. StatusOK(NoApp, runs, objects, Staying)
    BY DEF StatusOK
  <2>2. QED
    BY <1>0, <2>1, StatusKept DEF LifeInv, CopiesOK
<1>5. QED
  BY <1>1, <1>2, <1>3, <1>4 DEF LifeInv

LEMMA AppSteps ==
    ASSUME TypeOK, TypeOK', Copies, LifeInv,
           \/ RemoveFinalizer /\ fresh
           \/ SaveStatus /\ fresh
           \/ UpdateApp \/ DeleteApp \/ IgnoreCleanup
    PROVE  LifeInv'
<1>0. Precedes(app, NoApp) /\ StatusOK(NoApp, runs, objects, Staying)
  BY DEF Precedes, StatusOK
<1>t. app' \in AppRecords \cup {NoApp}
  BY DEF TypeOK
<1>1. CASE RemoveFinalizer /\ fresh
  <2>1. app' = NoApp /\ app # NoApp /\ EndPass /\ UNCHANGED <<objects, runs, cache, leaving>>
    BY <1>1 DEF RemoveFinalizer, Conflict, Copies, cluster
  <2>2. QED
    BY <1>0, <1>t, <2>1, AppMoves DEF EndPass
<1>2. CASE SaveStatus /\ fresh
  <2>1. app' = view /\ app # NoApp /\ view # NoApp /\ EndPass
        /\ UNCHANGED <<objects, runs, cache, leaving>>
    BY <1>2, NoAppAssumption DEF SaveStatus, Conflict, Copies, cluster, TypeOK
  <2>2. view.gen = app.gen /\ view.observed <= view.gen /\ Precedes(view, app)
        /\ StatusOK(view, runs, objects, Staying)
    BY <1>2, <2>1 DEF LifeInv, Versions, CopiesOK
  <2>3. Precedes(app, view)
    BY <2>1, <2>2 DEF Precedes, TypeOK, AppRecords
  <2>4. QED
    BY <1>t, <2>1, <2>2, <2>3, AppMoves DEF EndPass
<1>3. CASE UpdateApp
  <2>1. PICK stop \in BOOLEAN : app' = [app EXCEPT !.gen = @ + 1, !.stop = stop]
    BY <1>3 DEF UpdateApp, Stored
  <2>2. app # NoApp /\ app \in AppRecords /\ ~app.deleting /\ ~fresh'
        /\ UNCHANGED <<objects, runs, cache, leaving, view, plan, phase>>
    BY <1>3 DEF UpdateApp, Live, TypeOK, Stored, pass, cluster
  <2>3. /\ app'.gen = app.gen + 1 /\ app'.deleting = app.deleting
        /\ app'.observed = app.observed /\ app'.jobs = app.jobs
    BY <2>1, <2>2 DEF AppRecords
  <2>4. app.gen \in Nat /\ app.observed \in Nat /\ app.observed <= app.gen
    BY <2>2, AppLifecycleAssumption DEF AppRecords, LifeInv, Versions
  <2>5. Precedes(app, app') /\ app'.observed <= app'.gen /\ app'.observed # app'.gen
    BY <2>2, <2>3, <2>4 DEF Precedes
  <2>6. StatusOK(app, runs, objects, Staying)
    BY DEF LifeInv, CopiesOK
  <2>7. StatusOK(app', runs, objects, Staying)
    BY <2>2, <2>3, <2>5, <2>6 DEF StatusOK, CreatedOK
  <2>8. QED
    BY <1>t, <2>2, <2>5, <2>7, AppMoves
<1>4. CASE DeleteApp
  <2>1. app # NoApp /\ app \in AppRecords /\ ~app.deleting /\ ~fresh'
        /\ UNCHANGED <<objects, runs, cache, leaving, view, plan, phase>>
    BY <1>4 DEF DeleteApp, Live, TypeOK, Stored, pass, cluster
  <2>2. CASE app.finalizer
    <3>1. app' = [app EXCEPT !.gen = @ + 1, !.deleting = TRUE]
      BY <1>4, <2>2 DEF DeleteApp, Stored
    <3>2. app'.gen = app.gen + 1 /\ app'.deleting /\ app'.observed = app.observed
      BY <2>1, <3>1 DEF AppRecords
    <3>3. app.gen \in Nat /\ app.observed \in Nat /\ app.observed <= app.gen
      BY <2>1, AppLifecycleAssumption DEF AppRecords, LifeInv, Versions
    <3>4. Precedes(app, app') /\ app'.observed <= app'.gen
      <4>1. app.gen <= app'.gen /\ app.gen # app'.gen /\ app'.observed <= app'.gen
        BY <3>2, <3>3
      <4>2. QED
        BY <2>1, <4>1 DEF Precedes
    <3>5. StatusOK(app', runs, objects, Staying)
      BY <3>2 DEF StatusOK
    <3>6. QED
      BY <1>t, <2>1, <3>4, <3>5, AppMoves
  <2>3. CASE ~app.finalizer
    <3>1. app' = NoApp
      BY <1>4, <2>3 DEF DeleteApp, Stored
    <3>2. QED
      BY <1>0, <1>t, <2>1, <3>1, AppMoves
  <2>4. QED
    BY <2>2, <2>3
<1>5. CASE IgnoreCleanup
  <2>1. app' = NoApp /\ app # NoApp /\ ~fresh'
        /\ UNCHANGED <<objects, runs, cache, leaving, view, plan, phase>>
    BY <1>5 DEF IgnoreCleanup, Stored, pass, cluster
  <2>2. QED
    BY <1>0, <1>t, <2>1, AppMoves
<1>6. QED
  BY <1>1, <1>2, <1>3, <1>4, <1>5

\* The finalizer is added to the app and to the copy of the pass alike.
LEMMA AddFinalizerStep ==
    ASSUME TypeOK, TypeOK', Copies, LifeInv, AddFinalizer, fresh PROVE LifeInv'
<1>1. /\ app' = [app EXCEPT !.finalizer = TRUE]
      /\ view' = [view EXCEPT !.finalizer = TRUE]
      /\ phase = "finalize" /\ phase' = "handle"
      /\ UNCHANGED <<cache, fresh, plan, leaving, objects, runs>>
  BY DEF AddFinalizer, Conflict, cluster
<1>2. app \in AppRecords /\ view \in AppRecords /\ app # NoApp /\ view # NoApp
      /\ app' \in AppRecords /\ view' \in AppRecords /\ app' # NoApp /\ view' # NoApp
  <2>1. app # NoApp /\ view \in AppRecords
    BY <1>1 DEF Copies, TypeOK
  <2>2. app \in AppRecords
    BY <2>1 DEF TypeOK
  <2>3. app' \in AppRecords /\ view' \in AppRecords
    BY <1>1, <2>1, <2>2 DEF AppRecords
  <2>4. QED
    BY <2>1, <2>2, <2>3, NoAppAssumption
<1>3. /\ app'.gen = app.gen /\ app'.stop = app.stop /\ app'.deleting = app.deleting
      /\ app'.observed = app.observed /\ app'.ready = app.ready
      /\ app'.jobs = app.jobs /\ app'.containers = app.containers
  BY <1>1, <1>2 DEF AppRecords
<1>4. /\ view'.gen = view.gen /\ view'.stop = view.stop
      /\ view'.deleting = view.deleting
      /\ view'.observed = view.observed /\ view'.ready = view.ready
      /\ view'.jobs = view.jobs /\ view'.containers = view.containers
  BY <1>1, <1>2 DEF AppRecords
<1>5. Versions'
  BY <1>1, <1>2, <1>3, <1>4 DEF LifeInv, Versions, Precedes
<1>6. ObjectsOK'
  BY <1>1, <1>2, <1>3, <1>4 DEF LifeInv, ObjectsOK, NoNewer, ScaledFor, Scale
<1>7. PlanOK'
  BY <1>1 DEF LifeInv, Versions, PlanOK
<1>8. CopiesOK'
  <2>1. Staying' = Staying
    BY <1>1, <1>2 DEF Staying
  <2>2. QED
    BY <1>1, <1>2, <1>3, <1>4, <2>1, SameStatus DEF LifeInv, CopiesOK
<1>9. QED
  BY <1>5, <1>6, <1>7, <1>8 DEF LifeInv

-----------------------------------------------------------------------------
(* Steps that run the handlers.                                             *)

LEMMA PrepareFacts ==
    ASSUME NEW a \in AppRecords
    PROVE  LET b == PrepareStatus(a) IN
           /\ b.gen = a.gen /\ b.stop = a.stop /\ b.deleting = a.deleting
           /\ b.observed = a.observed /\ b.ready = a.ready
           /\ \A j \in Jobs :
                /\ b.jobs[j].created = a.jobs[j].created
                /\ b.jobs[j].ready <=> /\ a.jobs[j].ready
                                       /\ a.gen = a.observed \/ ~ShouldRun(a, j)
           /\ \A c \in Containers :
                b.containers[c] <=> a.containers[c] /\ a.gen = a.observed
<1> DEFINE cs == [c \in Containers |-> a.containers[c] /\ a.gen = a.observed]
           js == [j \in Jobs |->
                   [ready |-> /\ a.jobs[j].ready
                              /\ a.gen = a.observed \/ ~ShouldRun(a, j),
                    created |-> a.jobs[j].created]]
<1>1. PrepareStatus(a) = [a EXCEPT !.containers = cs, !.jobs = js]
  BY DEF PrepareStatus
<1>2. \A j \in Jobs :
        /\ js[j].created = a.jobs[j].created
        /\ js[j].ready <=> /\ a.jobs[j].ready
                           /\ a.gen = a.observed \/ ~ShouldRun(a, j)
  OBVIOUS
<1>3. \A c \in Containers : cs[c] <=> a.containers[c] /\ a.gen = a.observed
  OBVIOUS
<1> HIDE DEF cs, js
<1>4. LET b == PrepareStatus(a) IN
      /\ b.gen = a.gen /\ b.stop = a.stop /\ b.deleting = a.deleting
      /\ b.observed = a.observed /\ b.ready = a.ready
      /\ b.jobs = js /\ b.containers = cs
  BY <1>1 DEF AppRecords
<1>5. QED
  BY <1>2, <1>3, <1>4

LEMMA PrepareKeepsStatus ==
    ASSUME NEW a \in AppRecords, NEW R, NEW O, NEW staying, StatusOK(a, R, O, staying)
    PROVE  StatusOK(PrepareStatus(a), R, O, staying)
<1> DEFINE b == PrepareStatus(a)
<1>1. /\ b.gen = a.gen /\ b.stop = a.stop /\ b.deleting = a.deleting
      /\ b.observed = a.observed /\ b.ready = a.ready
      /\ \A j \in Jobs :
           /\ b.jobs[j].created = a.jobs[j].created
           /\ b.jobs[j].ready <=> /\ a.jobs[j].ready
                                  /\ a.gen = a.observed \/ ~ShouldRun(a, j)
      /\ \A c \in Containers :
           b.containers[c] <=> a.containers[c] /\ a.gen = a.observed
  BY PrepareFacts
<1> HIDE DEF b
<1>2. SUFFICES ASSUME ~b.deleting
               PROVE  CreatedOK(b, R) /\ (b.observed = b.gen => ObservedOK(b, R, O, staying))
  BY DEF StatusOK, b
<1>3. a # NoApp /\ ~a.deleting
  BY <1>1, <1>2, NoAppAssumption
<1>4. CreatedOK(b, R)
  BY <1>1, <1>3 DEF StatusOK, CreatedOK
<1>5. ASSUME b.observed = b.gen PROVE ObservedOK(b, R, O, staying)
  <2>1. ObservedOK(a, R, O, staying) /\ a.gen = a.observed
    BY <1>1, <1>3, <1>5 DEF StatusOK
  <2>2. /\ \A j \in Jobs : b.jobs[j].ready <=> a.jobs[j].ready
        /\ \A c \in Containers : b.containers[c] <=> a.containers[c]
    BY <1>1, <2>1
  <2>3. \A j \in Jobs : JobReadyOK(a, R, j) <=> JobReadyOK(b, R, j)
    BY <1>1 DEF JobReadyOK
  <2>4. QED
    BY <1>1, <2>1, <2>2, <2>3 DEF ObservedOK
<1>6. QED
  BY <1>4, <1>5

LEMMA PreparedStep ==
    ASSUME TypeOK, LifeInv, ObjectsKept,
           phase = "handle", view' = PrepareStatus(view), phase' = "apply",
           UNCHANGED <<app, cache, fresh, plan>>
    PROVE  LifeInv'
<1>1. view \in AppRecords /\ view # NoApp /\ plan = {}
  BY NoAppAssumption DEF TypeOK, LifeInv, Versions
<1>2. /\ view' # NoApp
      /\ view'.gen = view.gen /\ view'.stop = view.stop
      /\ view'.deleting = view.deleting /\ view'.observed = view.observed
  BY <1>1, PrepareType, PrepareFacts, NoAppAssumption
<1>3. Versions'
  BY <1>1, <1>2 DEF LifeInv, Versions, Precedes
<1>4. ObjectsOK'
  <2>1. ASSUME NEW x \in Workloads
        PROVE  NoNewer(objects'[x], cache) /\ NoNewer(objects'[x], view')
               /\ NoNewer(objects'[x], app)
    <3>1. NoNewer(objects[x], cache) /\ NoNewer(objects[x], view) /\ NoNewer(objects[x], app)
      BY DEF LifeInv, ObjectsOK
    <3>2. NoNewer(objects[x], view')
      BY <1>1, <1>2, <3>1 DEF NoNewer
    <3>3. QED
      BY <3>1, <3>2, NoNewerKept
  <2>2. QED
    BY <2>1, ObjectsKeepKinds DEF LifeInv, ObjectsOK
<1>5. PlanOK'
  BY <1>1 DEF PlanOK
<1>6. CopiesOK'
  <2>1. StatusOK(view', runs, objects, Staying)
    BY <1>1, PrepareKeepsStatus DEF LifeInv, CopiesOK
  <2>2. QED
    BY <2>1, StatusKept DEF LifeInv, CopiesOK
<1>7. QED
  BY <1>3, <1>4, <1>5, <1>6 DEF LifeInv

LEMMA RefusedSteps ==
    ASSUME TypeOK, LifeInv, Refuse \/ IgnoreTerminatingNamespace PROVE LifeInv'
<1>1. CASE Refuse
  <2>1. ObjectsKept
    BY <1>1, NothingKept DEF Refuse, cluster, Staying
  <2>2. QED
    BY <1>1, <2>1, PreparedStep DEF Refuse
<1>2. CASE IgnoreTerminatingNamespace
  <2>1. plan = {}
    BY <1>2 DEF IgnoreTerminatingNamespace, LifeInv, Versions
  <2>2. ObjectsKept
    BY <1>2, <2>1 DEF IgnoreTerminatingNamespace, ObjectsKept, Staying
  <2>3. QED
    BY <1>2, <2>2, PreparedStep DEF IgnoreTerminatingNamespace
<1>3. QED
  BY <1>1, <1>2

\* A job that has no run to do at a generation of a running app is settled.
LEMMA NotRunSettled ==
    ASSUME NEW r \in AppRecords, NEW R, NEW j \in Jobs, CreatedOK(r, R),
           ~r.deleting, ~r.stop, ~ShouldRun(r, j)
    PROVE  Settled(R, j, r.gen) /\ ("create" \in Events[j] => Ran(R, j, "create"))
<1>1. r.gen \in 1..(MaxGen + 1)
  BY DEF AppRecords
<1>2. CASE r.gen <= 1
  <2>1. GetEvent(r, j) = "create" /\ r.gen = 1
    BY <1>1, <1>2, AppLifecycleAssumption DEF GetEvent
  <2>2. QED
    BY <2>1 DEF ShouldRun, ShouldRunForEvent, Settled
<1>3. CASE ~(r.gen <= 1)
  <2>1. r.gen > 1
    BY <1>1, <1>3, AppLifecycleAssumption
  <2>2. CASE "create" \in Events[j] /\ ~r.jobs[j].created
    <3>1. GetEvent(r, j) = "create"
      BY <2>2 DEF GetEvent
    <3>2. QED
      BY <2>2, <3>1 DEF ShouldRun, ShouldRunForEvent
  <2>3. CASE ~("create" \in Events[j] /\ ~r.jobs[j].created)
    <3>1. GetEvent(r, j) = "update"
      BY <1>3, <2>3 DEF GetEvent
    <3>2. "create" \in Events[j] => Ran(R, j, "create")
      BY <2>3 DEF CreatedOK
    <3>3. QED
      BY <2>1, <3>1, <3>2 DEF ShouldRun, Settled
  <2>4. QED
    BY <2>2, <2>3
<1>4. QED
  BY <1>2, <1>3

\* Any success of a job of a live app stands for its create run.
LEMMA SucceededCreate ==
    ASSUME NoCreateAndStop, TypeOK, RunsRecorded, ObjectsOK,
           view # NoApp, ~view.deleting,
           NEW j \in Jobs, Succeeded(j), "create" \in Events[j]
    PROVE  Ran(runs, j, "create")
<1>1. objects[j] # NoObject /\ objects[j].ok /\ objects[j].mode \in EventNames
  BY DEF Succeeded, TypeOK
<1>2. Ran(runs, j, objects[j].mode)
  BY <1>1 DEF RunsRecorded, Ran
<1>3. ShouldRunForEvent(objects[j].mode, j) /\ CreateBehind(runs, j, objects[j].mode)
  BY <1>1 DEF ObjectsOK, JobObject
<1>4. objects[j].mode # "delete"
  BY <1>1 DEF ObjectsOK, NoNewer, Workloads
<1>5. objects[j].mode # "stop"
  BY <1>3 DEF NoCreateAndStop, ShouldRunForEvent
<1>6. QED
  BY <1>1, <1>2, <1>3, <1>4, <1>5 DEF EventNames, CreateBehind

LEMMA SucceededRan ==
    ASSUME RunsRecorded, NEW j \in Jobs, NEW a, Succeeded(j), UpToDate(a, j)
    PROVE  RanGen(runs, j, a.gen)
BY DEF RunsRecorded, RanGen, Succeeded, UpToDate

\* What the prepared status of the pass says of a dependency of a running app.
LEMMA DependencyOK ==
    ASSUME TypeOK, LifeInv, view # NoApp, ~view.deleting, ~view.stop, ~leaving,
           NEW x \in Workloads, DependenciesReady(PrepareStatus(view), x)
    PROVE  /\ \A j \in Jobs \cap DependsOn[x] : Settled(runs, j, view.gen)
           /\ \A d \in Containers \cap DependsOn[x] :
                app # NoApp => Deployed(objects, d, view.gen)
<1>0. view \in AppRecords
  BY DEF TypeOK
<1>1. CreatedOK(view, runs)
      /\ (view.observed = view.gen => ObservedOK(view, runs, objects, Staying))
  BY DEF LifeInv, CopiesOK, StatusOK
<1>2. ASSUME NEW j \in Jobs \cap DependsOn[x] PROVE Settled(runs, j, view.gen)
  <2>1. view.jobs[j].ready /\ (view.gen = view.observed \/ ~ShouldRun(view, j))
    BY <1>0, PrepareFacts DEF DependenciesReady
  <2>2. CASE view.gen = view.observed
    BY <1>1, <2>1, <2>2 DEF ObservedOK, JobReadyOK
  <2>3. CASE ~ShouldRun(view, j)
    BY <1>0, <1>1, <2>3, NotRunSettled
  <2>4. QED
    BY <2>1, <2>2, <2>3
<1>3. ASSUME NEW d \in Containers \cap DependsOn[x], app # NoApp
      PROVE  Deployed(objects, d, view.gen)
  <2>1. view.containers[d] /\ view.gen = view.observed
    BY <1>0, PrepareFacts DEF DependenciesReady
  <2>2. QED
    BY <1>1, <1>3, <2>1 DEF ObservedOK, Staying
<1>4. QED
  BY <1>2, <1>3

LEMMA HandleFacts ==
    ASSUME NEW a \in AppRecords
    PROVE  LET b == UpdateObservedFields(SetStatus(a), ReadyStatus(a)) IN
           /\ b.gen = a.gen /\ b.stop = a.stop /\ b.deleting = a.deleting
           /\ b.observed = a.gen /\ b.ready = ReadyStatus(a)
           /\ \A j \in Jobs : b.jobs[j] = ReadJob(a, j)
           /\ \A c \in Containers : b.containers[c] = ReadContainer(a, c)
<1> DEFINE cs == [c \in Containers |-> ReadContainer(a, c)]
           js == [j \in Jobs |-> ReadJob(a, j)]
           r == ReadyStatus(a)
<1>1. SetStatus(a) = [a EXCEPT !.jobs = js, !.containers = cs]
  BY DEF SetStatus
<1>2. /\ \A j \in Jobs : js[j] = ReadJob(a, j)
      /\ \A c \in Containers : cs[c] = ReadContainer(a, c)
  OBVIOUS
<1> HIDE DEF cs, js, r
<1>3. LET b == UpdateObservedFields([a EXCEPT !.jobs = js, !.containers = cs], r) IN
      /\ b.gen = a.gen /\ b.stop = a.stop /\ b.deleting = a.deleting
      /\ b.observed = a.gen /\ b.ready = r /\ b.jobs = js /\ b.containers = cs
  BY DEF AppRecords, UpdateObservedFields
<1>4. QED
  BY <1>1, <1>2, <1>3 DEF r

\* What the handlers read from the cluster is so.
LEMMA ReadJobOK ==
    ASSUME NoCreateAndStop, TypeOK, RunsRecorded, LifeInv,
           view # NoApp, ~view.deleting, NEW j \in Jobs,
           NEW a \in AppRecords, a.gen = view.gen, a.stop = view.stop,
           ~a.deleting, CreatedOK(a, runs)
    PROVE  /\ ReadJob(a, j).created /\ "create" \in Events[j] => Ran(runs, j, "create")
           /\ ReadJob(a, j).ready => JobReadyOK(a, runs, j)
<1>1. CASE ShouldRun(a, j)
  <2>1. ReadJob(a, j).created <=> a.jobs[j].created \/ Succeeded(j)
    BY <1>1 DEF ReadJob
  <2>2. ReadJob(a, j).ready => Succeeded(j) /\ UpToDate(a, j)
    BY <1>1 DEF ReadJob
  <2>3. Succeeded(j) /\ "create" \in Events[j] => Ran(runs, j, "create")
    BY SucceededCreate DEF LifeInv
  <2>4. Succeeded(j) /\ UpToDate(a, j) => RanGen(runs, j, a.gen)
    BY SucceededRan
  <2>5. QED
    BY <2>1, <2>2, <2>3, <2>4 DEF CreatedOK, JobReadyOK, Settled
<1>2. CASE ~ShouldRun(a, j)
  <2>1. ReadJob(a, j).created <=> a.jobs[j].created
    BY <1>2 DEF ReadJob
  <2>2. CASE a.stop
    <3>1. GetEvent(a, j) = "stop"
      BY <2>2 DEF GetEvent
    <3>2. QED
      BY <1>2, <2>1, <2>2, <3>1 DEF CreatedOK, JobReadyOK, ShouldRun
  <2>3. CASE ~a.stop
    BY <1>2, <2>1, <2>3, NotRunSettled DEF CreatedOK, JobReadyOK
  <2>4. QED
    BY <2>2, <2>3
<1>3. QED
  BY <1>1, <1>2

LEMMA HandleStatus ==
    ASSUME NoCreateAndStop, TypeOK, RunsRecorded, LifeInv, view # NoApp,
           NEW a \in AppRecords, a = PrepareStatus(view)
    PROVE  StatusOK(UpdateObservedFields(SetStatus(a), ReadyStatus(a)), runs, objects, Staying)
<1> DEFINE b == UpdateObservedFields(SetStatus(a), ReadyStatus(a))
<1>0. view \in AppRecords
  BY DEF TypeOK
<1>1. a.gen = view.gen /\ a.stop = view.stop /\ a.deleting = view.deleting
  BY <1>0, PrepareFacts
<1>2. /\ b.gen = a.gen /\ b.stop = a.stop /\ b.deleting = a.deleting
      /\ b.observed = a.gen /\ b.ready = ReadyStatus(a)
      /\ \A j \in Jobs : b.jobs[j] = ReadJob(a, j)
      /\ \A c \in Containers : b.containers[c] = ReadContainer(a, c)
  BY HandleFacts
<1> HIDE DEF b
<1>3. SUFFICES ASSUME ~b.deleting
               PROVE  CreatedOK(b, runs) /\ ObservedOK(b, runs, objects, Staying)
  BY DEF StatusOK, b
<1>4. CreatedOK(a, runs)
  <2>1. StatusOK(a, runs, objects, Staying)
    BY <1>0, PrepareKeepsStatus DEF LifeInv, CopiesOK
  <2>2. QED
    BY <1>2, <1>3, <2>1, NoAppAssumption DEF StatusOK
<1>5. \A j \in Jobs :
        /\ ReadJob(a, j).created /\ "create" \in Events[j] => Ran(runs, j, "create")
        /\ ReadJob(a, j).ready => JobReadyOK(a, runs, j)
  BY <1>1, <1>2, <1>3, <1>4, ReadJobOK
<1>6. CreatedOK(b, runs)
  BY <1>2, <1>5 DEF CreatedOK
<1>7. \A j \in Jobs : b.jobs[j].ready => JobReadyOK(b, runs, j)
  BY <1>2, <1>5 DEF JobReadyOK
<1>8. \A c \in Containers : b.containers[c] => Deployed(objects, c, b.gen)
  BY <1>2 DEF ReadContainer, UpToDate, Deployed
<1>9. b.ready => /\ \A j \in Jobs : b.jobs[j].ready
                 /\ \A c \in Containers : b.containers[c]
  BY <1>2, <1>3 DEF ReadyStatus
<1>10. QED
  BY <1>6, <1>7, <1>8, <1>9 DEF ObservedOK

LEMMA HandlePlan ==
    ASSUME TypeOK, LifeInv, view # NoApp, ~leaving,
           NEW a \in AppRecords, a = PrepareStatus(view),
           NEW b, b.gen = a.gen, b.stop = a.stop, b.deleting = a.deleting,
           NEW p \in DeploySpec(a)
    PROVE  PlannedOK(p, b, runs, objects, app # NoApp)
<1>0. view \in AppRecords
  BY DEF TypeOK
<1>1. a.gen = view.gen /\ a.stop = view.stop /\ a.deleting = view.deleting
  BY <1>0, PrepareFacts
<1>2. CASE \E j \in Jobs : ShouldRun(a, j) /\ p = ToApply(a, j, GetEvent(a, j))
  <2>1. PICK j \in Jobs : ShouldRun(a, j) /\ p = ToApply(a, j, GetEvent(a, j))
    BY <1>2
  <2>2. p.name = j /\ p.mode = GetEvent(a, j) /\ p.name \notin Containers
    BY <2>1, AppLifecycleAssumption DEF ToApply
  <2>3. ShouldRunForEvent(p.mode, p.name)
    BY <2>1, <2>2 DEF ShouldRun
  <2>4. p.mode = "delete" => a.deleting
    BY <2>2 DEF GetEvent
  <2>5. CreateBehind(runs, j, p.mode)
    <3>1. SUFFICES ASSUME p.mode = "update", "create" \in Events[j]
                   PROVE  Ran(runs, j, "create")
      BY DEF CreateBehind
    <3>2. ~a.deleting /\ a.jobs[j].created
      BY <2>2, <3>1 DEF GetEvent
    <3>3. StatusOK(a, runs, objects, Staying)
      BY <1>0, PrepareKeepsStatus DEF LifeInv, CopiesOK
    <3>4. QED
      BY <3>1, <3>2, <3>3, NoAppAssumption DEF StatusOK, CreatedOK
  <2>6. QED
    BY <2>2, <2>3, <2>4, <2>5 DEF PlannedOK
<1>3. CASE \E c \in Containers : p = ToApply(a, c, IF a.stop THEN "zero" ELSE "scaled")
  <2>1. PICK c \in Containers : p = ToApply(a, c, IF a.stop THEN "zero" ELSE "scaled")
    BY <1>3
  <2>2. p.name = c /\ p.mode = Scale(b) /\ p.name \notin Jobs /\ c \in Workloads
    BY <2>1, AppLifecycleAssumption DEF ToApply, Scale, Workloads
  <2>3. ASSUME p.mode = "scaled", p.create \/ p.update, ~b.deleting
        PROVE  Gated(p, b, runs, objects, app # NoApp)
    <3>1. ~a.stop /\ ~a.deleting
      BY <2>2, <2>3 DEF Scale
    <3>2. DependenciesReady(a, c)
      BY <2>1, <2>3, <3>1 DEF ToApply, GetStopped
    <3>3. QED
      BY <1>1, <2>2, <3>1, <3>2, DependencyOK DEF Gated
  <2>4. QED
    BY <2>2, <2>3 DEF PlannedOK
<1>4. QED
  BY <1>2, <1>3 DEF DeploySpec

LEMMA HandleStep ==
    ASSUME NoCreateAndStop, TypeOK, RunsRecorded, LifeInv, Handle PROVE LifeInv'
<1> DEFINE a == PrepareStatus(view)
<1>1. /\ view \in AppRecords /\ view # NoApp /\ ~leaving
      /\ phase' = "apply" /\ plan' = DeploySpec(a)
      /\ view' = UpdateObservedFields(SetStatus(a), ReadyStatus(a))
      /\ UNCHANGED <<app, cache, fresh, leaving, objects, runs>>
  BY NoAppAssumption DEF Handle, TypeOK, cluster
<1>2. a \in AppRecords
      /\ a.gen = view.gen /\ a.stop = view.stop /\ a.deleting = view.deleting
  BY <1>1, PrepareType, PrepareFacts
<1>3. StatusOK(view', runs, objects, Staying)
  BY <1>1, <1>2, HandleStatus
<1>4. /\ view'.gen = a.gen /\ view'.stop = a.stop /\ view'.deleting = a.deleting
      /\ view'.observed = a.gen
  BY <1>1, <1>2, HandleFacts
<1>5. PlanOK'
  BY <1>1, <1>2, <1>4, HandlePlan DEF PlanOK
<1> HIDE DEF a
<1>6. Versions'
  <2>1. view'.observed <= view'.gen
    BY <1>2, <1>4, AppLifecycleAssumption DEF AppRecords
  <2>2. QED
    BY <1>1, <1>2, <1>4, <2>1 DEF LifeInv, Versions, Precedes
<1>7. ObjectsOK'
  BY <1>1, <1>2, <1>4 DEF LifeInv, ObjectsOK, NoNewer
<1>8. CopiesOK'
  BY <1>1, <1>3 DEF LifeInv, CopiesOK, Staying
<1>9. QED
  BY <1>5, <1>6, <1>7, <1>8 DEF LifeInv

-----------------------------------------------------------------------------
(* Steps that make the objects.                                             *)

\* What is replaced was made for no newer a copy of the app.
LEMMA Replaced ==
    ASSUME TypeOK, LifeInv, view # NoApp, NEW p \in plan,
           p.name \in Workloads, objects[p.name] # NoObject
    PROVE  /\ ApplyObject(p) # NoObject
           /\ ApplyObject(p).gen = view.gen \/ ApplyObject(p) = objects[p.name]
           /\ \A r \in {app, cache, view} :
                r # NoApp /\ objects[p.name].gen = r.gen => ApplyObject(p).gen = r.gen
<1>1. /\ view \in AppRecords /\ objects[p.name] \in ObjectRecords
      /\ objects[p.name].gen <= view.gen
  BY DEF TypeOK, LifeInv, ObjectsOK, NoNewer
<1>2. \A r \in {app, cache, view} : r # NoApp => view.gen <= r.gen /\ r.gen \in Nat
  BY AppLifecycleAssumption DEF LifeInv, Versions, Precedes, TypeOK, AppRecords
<1>3. view.gen \in Nat /\ objects[p.name].gen \in Nat
  BY <1>1, AppLifecycleAssumption DEF AppRecords, ObjectRecords
<1>4. Desired(p) # NoObject /\ Desired(p).gen = view.gen
  <2>1. p.mode \in EventNames \cup {"scaled", "zero"}
    BY DEF TypeOK, PlanRecords
  <2>2. Desired(p) \in ObjectRecords
    BY <1>1, <2>1 DEF Desired, ObjectRecords, AppRecords
  <2>3. QED
    BY <2>2, NoObjectAssumption DEF Desired
<1>5. ApplyObject(p) \in {Desired(p), objects[p.name]}
  BY DEF ApplyObject
<1>6. QED
  BY <1>1, <1>2, <1>3, <1>4, <1>5

LEMMA ApplyStep ==
    ASSUME TypeOK, LifeInv, Apply PROVE LifeInv'
<1>1. PICK p \in plan : /\ plan' = plan \ {p}
                        /\ objects' = [objects EXCEPT ![p.name] = ApplyObject(p)]
  BY DEF Apply
<1>2. /\ view \in AppRecords /\ view # NoApp /\ p \in PlanRecords
      /\ phase = "apply"
      /\ UNCHANGED <<app, cache, phase, view, fresh, leaving, runs>>
  BY NoAppAssumption DEF Apply, TypeOK
<1>3. p.name \in Workloads
  BY <1>2 DEF PlanRecords, Workloads
<1>4. /\ objects'[p.name] = ApplyObject(p)
      /\ \A x \in Workloads \ {p.name} : objects'[x] = objects[x]
  BY <1>1, <1>3 DEF TypeOK
<1>5. /\ ApplyObject(p) \in {Desired(p), NoObject, objects[p.name]}
      /\ Desired(p).gen = view.gen /\ Desired(p).mode = p.mode
  BY Zenon DEF ApplyObject, Desired
<1>6. PlannedOK(p, view, runs, objects, app # NoApp)
  BY DEF LifeInv, PlanOK
<1>7. p.mode = "delete" => view.deleting
  BY <1>2, <1>6 DEF PlannedOK, PlanRecords
<1>8. Versions'
  BY <1>1, <1>2 DEF LifeInv, Versions
<1>9. ObjectsOK'
  <2>1. ASSUME NEW r \in {app, cache, view} PROVE NoNewer(Desired(p), r)
    BY <1>2, <1>5, <1>7 DEF NoNewer, LifeInv, Versions, Precedes, TypeOK, AppRecords
  <2>2. ASSUME NEW x \in Workloads, NEW r \in {app, cache, view}
        PROVE  NoNewer(objects'[x], r)
    <3>1. NoNewer(objects[x], r) /\ NoNewer(NoObject, r)
      BY DEF LifeInv, ObjectsOK, NoNewer
    <3>2. QED
      BY <1>4, <1>5, <2>1, <3>1
  <2>3. ASSUME NEW j \in Jobs PROVE JobObject(objects'[j], j, runs)
    <3>1. JobObject(objects[j], j, runs) /\ JobObject(NoObject, j, runs)
      BY DEF LifeInv, ObjectsOK, JobObject
    <3>2. p.name = j => JobObject(Desired(p), j, runs)
      BY <1>5, <1>6 DEF PlannedOK, JobObject
    <3>3. QED
      BY <1>4, <1>5, <3>1, <3>2 DEF Workloads
  <2>4. ASSUME NEW c \in Containers PROVE ScaledFor(objects'[c], app)
    <3>1. ScaledFor(objects[c], app) /\ ScaledFor(NoObject, app)
      BY DEF LifeInv, ObjectsOK, ScaledFor
    <3>2. p.name = c => ScaledFor(Desired(p), app)
      BY <1>2, <1>5, <1>6 DEF PlannedOK, ScaledFor, Scale, LifeInv, Versions, Precedes
    <3>3. QED
      BY <1>4, <1>5, <3>1, <3>2 DEF Workloads
  <2>5. QED
    BY <1>2, <2>2, <2>3, <2>4 DEF ObjectsOK
<1>10. \A d \in Containers, r \in {app, cache, view} :
         r # NoApp /\ Deployed(objects, d, r.gen) => Deployed(objects', d, r.gen)
  BY <1>2, <1>3, <1>4, Replaced DEF Deployed, Workloads
<1>11. PlanOK'
  <2>1. ASSUME NEW q \in plan' PROVE PlannedOK(q, view, runs, objects', app # NoApp)
    <3>1. PlannedOK(q, view, runs, objects, app # NoApp)
      BY <1>1, <2>1 DEF LifeInv, PlanOK
    <3>2. Gated(q, view, runs, objects, app # NoApp)
            => Gated(q, view, runs, objects', app # NoApp)
      BY <1>2, <1>10 DEF Gated
    <3>3. QED
      BY <3>1, <3>2 DEF PlannedOK
  <2>2. QED
    BY <1>2, <2>1 DEF PlanOK
<1>12. CopiesOK'
  <2>1. ASSUME NEW r \in {app, cache, view}, StatusOK(r, runs, objects, Staying)
        PROVE  StatusOK(r, runs, objects', Staying)
    BY <1>10, <2>1 DEF StatusOK, ObservedOK
  <2>2. Staying' = Staying
    BY <1>2 DEF Staying
  <2>3. QED
    BY <1>2, <2>1, <2>2 DEF LifeInv, CopiesOK
<1>13. QED
  BY <1>8, <1>9, <1>11, <1>12 DEF LifeInv

-----------------------------------------------------------------------------
(* The theorems.                                                            *)

LEMMA InitLife == ASSUME Init PROVE LifeInv
<1>1. TypeOK /\ app \in AppRecords /\ app # NoApp
  <2>1. TypeOK
    BY InitCopies
  <2>2. 1 \in 1..(MaxGen + 1) /\ 0 \in 0..(MaxGen + 1)
    BY AppLifecycleAssumption
  <2>3. app \in AppRecords
    BY <2>2 DEF Init, AppRecords, JobStatus
  <2>4. QED
    BY <2>1, <2>3, NoAppAssumption
<1>2. /\ app.gen = 1 /\ app.observed = 0 /\ cache = app /\ view = NoApp
      /\ phase = "idle" /\ plan = {} /\ ~fresh
      /\ \A x \in Workloads : objects[x] = NoObject
      /\ \A j \in Jobs : ~app.jobs[j].created
  BY DEF Init
<1>3. Versions
  BY <1>1, <1>2 DEF Versions, Precedes
<1>4. ObjectsOK
  BY <1>2 DEF ObjectsOK, NoNewer, JobObject, ScaledFor, Workloads
<1>5. PlanOK
  BY <1>2 DEF PlanOK
<1>6. CopiesOK
  BY <1>2 DEF CopiesOK, StatusOK, CreatedOK
<1>7. QED
  BY <1>3, <1>4, <1>5, <1>6 DEF LifeInv

LEMMA LifeStep ==
    ASSUME NoCreateAndStop, TypeOK, TypeOK', Copies, RunsRecorded, LifeInv, [Next]_vars
    PROVE  LifeInv'
<1>1. CASE Controller
  <2>1. CASE AddFinalizer
    BY <2>1, AddFinalizerStep, SmallSteps DEF AddFinalizer
  <2>2. CASE RemoveFinalizer \/ SaveStatus
    BY <2>2, AppSteps, SmallSteps DEF RemoveFinalizer, SaveStatus
  <2>3. QED
    BY <1>1, <2>1, <2>2, SmallSteps, HandleStep, RefusedSteps, ApplyStep DEF Controller
<1>2. CASE User
  BY <1>2, AppSteps, SmallSteps DEF User
<1>3. CASE World
  BY <1>3, RefusedSteps, SmallSteps DEF World
<1>4. QED
  BY <1>1, <1>2, <1>3, SmallSteps DEF Next

LEMMA LifeCorrect ==
    ASSUME NoCreateAndStop
    PROVE  Spec => [](TypeOK /\ RunsRecorded /\ LifeInv)
<1>1. Init => RunsRecorded /\ LifeInv
  BY InitLife DEF Init, RunsRecorded, Workloads
<1>2. TypeOK /\ TypeOK' /\ Copies /\ RunsRecorded /\ LifeInv /\ [Next]_vars
        => RunsRecorded' /\ LifeInv'
  BY RunsAreRecorded, LifeStep
<1>3. QED
  BY <1>1, <1>2, TypeCorrect, PTL DEF Spec

\* Whatever updates, stops, stale caches, conflicts and restarts come between, an
\* app that says it is ready at its current generation has every container at that
\* generation and every job settled for it.
THEOREM ReadyTellsTheTruth ==
    ASSUME NoCreateAndStop PROVE Spec => []ReadyIsCurrent
<1>1. TypeOK /\ LifeInv => ReadyIsCurrent
  <2>1. SUFFICES ASSUME TypeOK, LifeInv, Live, app.ready, app.observed = app.gen, ~leaving
                 PROVE  /\ \A c \in Containers :
                             /\ objects[c] # NoObject /\ objects[c].gen = app.gen
                             /\ objects[c].mode = IF app.stop THEN "zero" ELSE "scaled"
                        /\ \A j \in Jobs :
                             IF app.stop THEN ShouldRunForEvent("stop", j) => RanAt(j, app.gen)
                                         ELSE JobSettled(j, app.gen)
    BY DEF ReadyIsCurrent
  <2>2. app # NoApp /\ ObservedOK(app, runs, objects, Staying) /\ Staying
    BY <2>1 DEF LifeInv, CopiesOK, StatusOK, Live, Staying
  <2>3. /\ \A c \in Containers : Deployed(objects, c, app.gen)
        /\ \A j \in Jobs : JobReadyOK(app, runs, j)
    BY <2>1, <2>2 DEF ObservedOK
  <2>4. \A c \in Containers : ScaledFor(objects[c], app)
    BY <2>1 DEF LifeInv, ObjectsOK
  <2>5. ASSUME NEW c \in Containers
        PROVE  /\ objects[c] # NoObject /\ objects[c].gen = app.gen
               /\ objects[c].mode = IF app.stop THEN "zero" ELSE "scaled"
    BY <2>2, <2>3, <2>4 DEF Deployed, ScaledFor, Scale
  <2>6. ASSUME NEW j \in Jobs
        PROVE  IF app.stop THEN ShouldRunForEvent("stop", j) => RanAt(j, app.gen)
                           ELSE JobSettled(j, app.gen)
    BY <2>3, HistoryDefs DEF JobReadyOK
  <2>7. QED
    BY <2>5, <2>6
<1>2. QED
  BY <1>1, LifeCorrect, PTL

\* An app that is ready and running has behind it a successful create run of every
\* job that asks for one, even if the app was updated or stopped while it ran.
THEOREM CreateRunsOnce ==
    ASSUME NoCreateAndStop PROVE Spec => []CreateRanOnce
<1>1. LifeInv => CreateRanOnce
  BY HistoryDefs
  DEF LifeInv, CopiesOK, StatusOK, ObservedOK, JobReadyOK, CreateRanOnce, Live
<1>2. QED
  BY <1>1, LifeCorrect, PTL

\* No step but Apply gives a workload an object or another generation.
LEMMA OnlyApplyMakes ==
    ASSUME TypeOK, [Next]_vars, ~Apply, NEW x \in Workloads, objects'[x] # NoObject
    PROVE  objects[x] # NoObject /\ objects'[x].gen = objects[x].gen
<1>1. CASE \/ DeleteOrphaned
           \/ \E j \in Jobs : JobSucceeds(j)
           \/ \E c \in Containers : ContainerReady(c) \/ ContainerFails(c)
  <2>1. CASE DeleteOrphaned
    BY <2>1 DEF DeleteOrphaned
  <2>2. ASSUME NEW y \in Workloads, NEW b \in BOOLEAN, objects[y] # NoObject,
               objects' = [objects EXCEPT ![y].ok = b]
        PROVE  objects[x] # NoObject /\ objects'[x].gen = objects[x].gen
    <3>1. objects[y] \in ObjectRecords
      BY <2>2 DEF TypeOK
    <3>2. objects'[y].gen = objects[y].gen
      BY <2>2, <3>1 DEF TypeOK, ObjectRecords
    <3>3. QED
      BY <2>2, <3>2 DEF TypeOK
  <2>3. QED
    BY <1>1, <2>1, <2>2 DEF JobSucceeds, ContainerReady, ContainerFails, Workloads
<1>2. CASE IgnoreTerminatingNamespace
  BY <1>2 DEF IgnoreTerminatingNamespace
<1>3. CASE UNCHANGED objects
  BY <1>3
<1>4. QED
  BY <1>1, <1>2, <1>3
  DEF Next, Controller, User, World, vars, cluster, Start, AddFinalizer,
      RemoveFinalizer, KeepFinalizer, Handle, SaveStatus, Conflict, UpdateApp,
      DeleteApp, IgnoreCleanup, DeleteProjectNamespace, SyncCache, Restart, Refuse

\* No interleaving lets a Deployment of a live app change generation before what
\* its container depends on is there at that generation.
THEOREM DependenciesGate ==
    ASSUME NoCreateAndStop PROVE Spec => GatedByDependencies
<1>1. ASSUME TypeOK, LifeInv, [Next]_vars, NEW c \in Containers,
             objects'[c] # NoObject, objects'[c].mode = "scaled",
             objects[c] = NoObject \/ objects[c].gen # objects'[c].gen,
             ~view.deleting, app # NoApp
      PROVE  /\ \A j \in Jobs \cap DependsOn[c] : JobSettled(j, objects'[c].gen)
             /\ \A d \in Containers \cap DependsOn[c] :
                  objects[d] # NoObject /\ objects[d].gen = objects'[c].gen
  <2>1. Apply
    BY <1>1, OnlyApplyMakes DEF Workloads
  <2>2. PICK p \in plan : objects' = [objects EXCEPT ![p.name] = ApplyObject(p)]
    BY <2>1 DEF Apply
  <2>3. p.name = c /\ objects'[c] = ApplyObject(p) /\ ApplyObject(p) # objects[c]
    BY <1>1, <2>2 DEF TypeOK, Workloads
  <2>4. /\ ApplyObject(p) = Desired(p) /\ (p.create \/ p.update)
        /\ ApplyObject(p).gen = view.gen /\ ApplyObject(p).mode = p.mode
    <3>1. ApplyObject(p) = Desired(p) /\ (p.create \/ p.update)
      BY <1>1, <2>3 DEF ApplyObject
    <3>2. QED
      BY <3>1 DEF Desired
  <2>5. Gated(p, view, runs, objects, app # NoApp)
    BY <1>1, <2>3, <2>4 DEF LifeInv, PlanOK, PlannedOK
  <2>6. QED
    BY <1>1, <2>3, <2>4, <2>5, HistoryDefs DEF Gated, Deployed
<1>2. TypeOK /\ LifeInv /\ [Next]_vars =>
        [\A c \in Containers :
         (/\ objects'[c] # NoObject /\ objects'[c].mode = "scaled"
          /\ objects[c] = NoObject \/ objects[c].gen # objects'[c].gen
          /\ ~view.deleting /\ app # NoApp) =>
         /\ \A j \in Jobs \cap DependsOn[c] : JobSettled(j, objects'[c].gen)
         /\ \A d \in Containers \cap DependsOn[c] :
              objects[d] # NoObject /\ objects[d].gen = objects'[c].gen]_objects
  BY <1>1
<1>3. QED
  BY <1>2, LifeCorrect, PTL DEF Spec, GatedByDependencies
=============================================================================
