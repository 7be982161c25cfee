----------------------------- MODULE DevSession -----------------------------
(***************************************************************************)
(* Dev sessions.  acorn dev keeps a DevSession next to an app: its spec      *)
(* overrides the app's for as long as the developer's client renews it.      *)
(* Every handler of the app controller runs under OverlayDevSession, which   *)
(* reads the session anew, puts its spec and a hash of it as generation into *)
(* the app in memory, and takes the generation back after the handler.       *)
(*                                                                          *)
(* The app has one job and one container that depends on it.  The caches are *)
(* taken to be up to date (AppLifecycle has them lag).                       *)
(***************************************************************************)
EXTENDS Naturals, FiniteSets

CONSTANTS
    Clients,    \* developers' clients
    None,       \* no app, no session, no object, no spec
    MaxGen,     \* bound: generations of the app's own spec
    MaxBuilds,  \* bound: builds that clients deploy to the app
    MaxApps,    \* bound: times the app is created again
    MaxFaults   \* bound: failing handlers, crashed clients, late renewals

ASSUME DevSessionAssumption ==
    /\ None \notin Nat /\ None \notin Clients
    /\ MaxGen \in Nat /\ MaxGen >= 1 /\ MaxBuilds \in Nat
    /\ MaxApps \in Nat /\ MaxFaults \in Nat

\* Generation and spec of an app are numbered alike.  The hash of an override
\* is taken to differ from every generation and every other hash.
Generations == 1..MaxGen
Hashes == (MaxGen + 1)..(MaxGen + MaxBuilds)
Specs == Generations \cup Hashes

VARIABLES
    app,       \* the AppInstance, or None
    session,   \* the DevSessionInstance, or None
    mode,      \* what each client is doing
    expiring,  \* whether ExpireDevSession is about to delete the session
    phase,     \* the handler the pass over the app has come to
    view,      \* the app as the pass sees and changes it
    fresh,     \* whether the view has the latest resourceVersion
    plan,      \* what the pass applies: spec, generation, container allowed
    job, web,  \* the Job and the Deployment, or None
    builds, apps, faults  \* how often each of these happened

world == <<session, mode, expiring, builds, apps>>
pass == <<phase, view, plan>>
objects == <<job, web>>
vars == <<app, session, mode, expiring, phase, view, fresh, plan, job, web,
          builds, apps, faults>>

\* ready is the job's status; parsed is the AppSpec in the app's status.
NewApp == [gen |-> 1, spec |-> 1, observed |-> 0, ready |-> FALSE,
           parsed |-> 0, deleting |-> FALSE]

Init ==
    /\ app = NewApp
    /\ session = None /\ expiring = FALSE
    /\ mode = [c \in Clients |-> "off"]
    /\ phase = "idle" /\ view = None /\ fresh = FALSE /\ plan = None
    /\ job = None /\ web = None
    /\ builds = 0 /\ apps = 0 /\ faults = 0

-----------------------------------------------------------------------------
(* The overlay, and the handlers it wraps.                                  *)

Overridden == session # None

\* If already in sync, keep in sync.
updateAppForDevSession(a) ==
    IF Overridden
    THEN [a EXCEPT !.gen = session.override, !.spec = session.override,
                   !.observed = IF a.observed = a.gen THEN session.override
                                ELSE a.observed]
    ELSE a

\* Mutant: the generation of the override stays in the app.
RestoreNothing(a, gen) == a

\* Mutant: the generation is put back, the observed generation is not.
RestoreGeneration(a, gen) == [a EXCEPT !.gen = gen]

\* The spec of the override stays in the app for the handlers that follow.
Restore(a, gen) ==
    IF Overridden
    THEN [a EXCEPT !.gen = gen,
                   !.observed = IF a.gen = a.observed THEN gen ELSE a.observed]
    ELSE a

PrepareStatus(a) == [a EXCEPT !.ready = a.ready /\ a.gen = a.observed]

\* Status.AppSpec, which the handlers after it deploy.
ParseAppImage(a) == [a EXCEPT !.parsed = a.spec]

DeploySpec(a) == [gen |-> a.gen, spec |-> a.parsed, update |-> a.ready]

SetStatus(a) == [a EXCEPT !.ready = job # None /\ job.done /\ job.gen = a.gen]

UpdateObservedFields(a) == [a EXCEPT !.observed = a.gen]

-----------------------------------------------------------------------------
(* One pass of the app controller.                                          *)

EndPass == phase' = "idle" /\ view' = None /\ plan' = None /\ fresh' = FALSE

Start ==
    /\ phase = "idle" /\ app # None
    /\ phase' = "prepare" /\ view' = app /\ fresh' = TRUE
    /\ UNCHANGED <<app, world, plan, objects, faults>>

Handler(name, next, changed) ==
    /\ phase = name /\ phase' = next
    /\ view' = Restore(changed, view.gen)
    /\ UNCHANGED <<app, world, fresh, objects, faults>>

Prepare == Handler("prepare", "deploy",
                   ParseAppImage(PrepareStatus(updateAppForDevSession(view))))
           /\ plan' = plan

Deploy == Handler("deploy", "status", updateAppForDevSession(view))
          /\ plan' = DeploySpec(updateAppForDevSession(view))

Status == Handler("status", "observe", SetStatus(updateAppForDevSession(view)))
          /\ plan' = plan

Observe == Handler("observe", "apply",
                   UpdateObservedFields(updateAppForDevSession(view)))
           /\ plan' = plan

\* A failing handler skips the restoring half; OnError writes the status.
HandlerFails ==
    /\ phase \in {"deploy", "status"} /\ faults < MaxFaults
    /\ faults' = faults + 1
    /\ app' = IF fresh
              THEN [app EXCEPT !.observed = updateAppForDevSession(view).observed,
                               !.ready = view.ready, !.parsed = view.parsed]
              ELSE app
    /\ EndPass
    /\ UNCHANGED <<world, objects>>

\* A Job that changed is created again; the container waits for its dependency.
Apply ==
    /\ phase = "apply" /\ phase' = "save"
    /\ job' = IF job # None /\ <<job.gen, job.spec>> = <<plan.gen, plan.spec>>
              THEN job
              ELSE [gen |-> plan.gen, spec |-> plan.spec, done |-> FALSE]
    /\ web' = IF plan.update THEN [gen |-> plan.gen, spec |-> plan.spec] ELSE web
    /\ UNCHANGED <<app, world, view, fresh, plan, faults>>

SaveStatus ==
    /\ phase = "save"
    /\ app' = IF fresh
              THEN [app EXCEPT !.observed = view.observed, !.ready = view.ready,
                               !.parsed = view.parsed]
              ELSE app
    /\ EndPass
    /\ UNCHANGED <<world, objects, faults>>

-----------------------------------------------------------------------------
(* The clients and the session.                                             *)

Live == app # None /\ ~app.deleting

\* A build is done and runOrUpdate finds no app.
CreateApp(c) ==
    /\ app = None /\ mode[c] \in {"off", "on"} /\ apps < MaxApps
    /\ apps' = apps + 1 /\ app' = NewApp
    /\ UNCHANGED <<session, mode, expiring, builds, pass, fresh, objects, faults>>

\* It finds one, be it about to go, and ensures a session with the new spec.
Develop(c) ==
    /\ app # None /\ mode[c] \in {"off", "on"} /\ builds < MaxBuilds
    /\ builds' = builds + 1
    /\ session' = [override |-> MaxGen + builds + 1, client |-> c,
                   expired |-> FALSE]
    /\ mode' = [mode EXCEPT ![c] = "on"]
    /\ UNCHANGED <<app, expiring, apps, pass, fresh, objects, faults>>

\* Whoever renews is the session's client from then on; who finds no session,
\* or is refused because there is no app, gives up.
DevSessionRenew(c) ==
    /\ mode[c] = "on"
    /\ IF session = None \/ app = None
       THEN mode' = [mode EXCEPT ![c] = "leaving"] /\ session' = session
       ELSE /\ session.client # c \/ session.expired
            /\ session' = [session EXCEPT !.client = c, !.expired = FALSE]
            /\ mode' = mode
    /\ UNCHANGED <<app, expiring, builds, apps, pass, fresh, objects, faults>>

\* The client ends: the developer stops it, or the app is deleted.
Leave(c) ==
    /\ mode[c] = "on"
    /\ mode' = [mode EXCEPT ![c] = "leaving"]
    /\ UNCHANGED <<app, session, expiring, builds, apps, pass, fresh, objects,
                   faults>>

\* First it asks for the app, then it deletes the session.
DevSessionRelease(c) ==
    /\ mode[c] = "leaving"
    /\ mode' = [mode EXCEPT ![c] = IF app # None /\ app.deleting THEN "off"
                                   ELSE "releasing"]
    /\ UNCHANGED <<app, session, expiring, builds, apps, pass, fresh, objects,
                   faults>>

DeleteReleased(c) ==
    /\ mode[c] = "releasing"
    /\ mode' = [mode EXCEPT ![c] = "off"]
    /\ session' = None
    /\ UNCHANGED <<app, expiring, builds, apps, pass, fresh, objects, faults>>

Crash(c) ==
    /\ mode[c] # "off" /\ faults < MaxFaults /\ faults' = faults + 1
    /\ mode' = [mode EXCEPT ![c] = "off"]
    /\ UNCHANGED <<app, session, expiring, builds, apps, pass, fresh, objects>>

\* A minute without a renewal; a client that runs renews three times in one.
Lapse ==
    /\ session # None /\ ~session.expired
    /\ \A c \in Clients : mode[c] # "on"
    /\ session' = [session EXCEPT !.expired = TRUE]
    /\ UNCHANGED <<app, mode, expiring, builds, apps, pass, fresh, objects, faults>>

\* A client that runs is cut off for that minute.
LateRenewal ==
    /\ session # None /\ ~session.expired
    /\ faults < MaxFaults /\ faults' = faults + 1
    /\ session' = [session EXCEPT !.expired = TRUE]
    /\ UNCHANGED <<app, mode, expiring, builds, apps, pass, fresh, objects>>

\* Mutant: an expired session stays as long as there is an app.
ExpireDevSessionOfNoApp ==
    /\ session # None /\ session.expired /\ ~expiring
    /\ app = None
    /\ expiring' = TRUE
    /\ UNCHANGED <<app, session, mode, builds, apps, pass, fresh, objects, faults>>

ExpireDevSession ==
    /\ session # None /\ session.expired /\ ~expiring
    /\ (app # None) => ~app.deleting
    /\ expiring' = TRUE
    /\ UNCHANGED <<app, session, mode, builds, apps, pass, fresh, objects, faults>>

DeleteExpired ==
    /\ expiring /\ expiring' = FALSE
    /\ session' = None
    /\ UNCHANGED <<app, mode, builds, apps, pass, fresh, objects, faults>>

-----------------------------------------------------------------------------
(* The app and its workloads.                                               *)

EditApp ==
    /\ Live /\ app.gen < MaxGen
    /\ app' = [app EXCEPT !.gen = @ + 1, !.spec = @ + 1]
    /\ fresh' = FALSE
    /\ UNCHANGED <<world, pass, objects, faults>>

DeleteApp ==
    /\ Live
    /\ app' = [app EXCEPT !.deleting = TRUE] /\ fresh' = FALSE
    /\ UNCHANGED <<world, pass, objects, faults>>

\* Its finalizer done, the app is gone with its namespace.
AppGone ==
    /\ app # None /\ app.deleting /\ phase = "idle"
    /\ app' = None /\ job' = None /\ web' = None
    /\ UNCHANGED <<world, pass, fresh, faults>>

JobSucceeds ==
    /\ job # None /\ ~job.done
    /\ job' = [job EXCEPT !.done = TRUE]
    /\ UNCHANGED <<app, world, pass, fresh, web, faults>>

-----------------------------------------------------------------------------
Controller == Start \/ Prepare \/ Deploy \/ Status \/ Observe \/ Apply
              \/ SaveStatus

Expiry == ExpireDevSession \/ DeleteExpired \/ Lapse

Releases(c) == DevSessionRenew(c) \/ DevSessionRelease(c) \/ DeleteReleased(c)

\* What clients, users and the session's own controller do.
Outside ==
    \/ Expiry \/ LateRenewal \/ EditApp \/ DeleteApp \/ AppGone
    \/ \E c \in Clients : \/ CreateApp(c) \/ Develop(c) \/ Releases(c)
                         \/ Leave(c) \/ Crash(c)

Next == Controller \/ HandlerFails \/ JobSucceeds \/ Outside

Spec == Init /\ [][Next]_vars

\* The controller's queue and timers run, clients renew on time, and the end of
\* a client that was asked to stop, of a job and of a deleted app comes.
FairSpec ==
    /\ Spec
    /\ WF_vars(Controller) /\ WF_vars(Expiry)
    /\ SF_vars(AppGone) /\ WF_vars(JobSucceeds)
    /\ \A c \in Clients : WF_vars(Releases(c))

-----------------------------------------------------------------------------
(* Properties.                                                              *)

AppRecords == [gen : Generations, spec : Specs, observed : Specs \cup {0},
               ready : BOOLEAN, parsed : Specs \cup {0}, deleting : BOOLEAN]

\* Every variable holds a value of its type; the override of a session is never
\* stored as the spec of the app (OverlayDevSession takes it back).
TypeOK ==
    /\ app \in AppRecords \cup {None}
    /\ app # None => app.spec = app.gen
    /\ session \in [override : Hashes, client : Clients, expired : BOOLEAN]
                   \cup {None}
    /\ mode \in [Clients -> {"off", "on", "leaving", "releasing"}]
    /\ expiring \in BOOLEAN
    /\ phase \in {"idle", "prepare", "deploy", "status", "observe", "apply",
                  "save"}
    /\ view \in IF phase = "idle" THEN {None} ELSE AppRecords
    /\ fresh \in BOOLEAN
    /\ plan \in [gen : Specs, spec : Specs, update : BOOLEAN] \cup {None}
    /\ job \in [gen : Specs, spec : Specs, done : BOOLEAN] \cup {None}
    /\ web \in [gen : Specs, spec : Specs] \cup {None}
    /\ builds \in 0..MaxBuilds /\ apps \in 0..MaxApps /\ faults \in 0..MaxFaults

Wanted == IF session = None THEN app.spec ELSE session.override

\* When nobody edits or builds any more, a live app runs the override of the
\* session there is, or its own spec when there is none, and its status has
\* observed its own generation: overlays that come, change and go between the
\* handlers of a pass, and failing handlers, leave nothing behind.
RunsWhatIsWanted ==
    <>[](Live => /\ web # None /\ web.spec = Wanted
                 /\ app.ready /\ app.observed = app.gen)

\* With no client running no session stays: neither a client that crashed, nor
\* one that releases while another takes over, nor an app that was deleted and
\* created again leaves an override in force.
SessionsEnd == <>[]((\A c \in Clients : mode[c] # "on") => session = None)

\* "dependsOn will prevent a container from being created and/or updated until
\* all of its dependencies are considered ready": the container is given a spec
\* only after its job has succeeded with that spec.
UpdatedAfterJob ==
    [][web' # web /\ web' # None =>
       job # None /\ job.done /\ job.spec = web'.spec]_web

\* "Don't delete devsession when the app is removing".
SessionOutlivesRemoval ==
    [][session # None /\ session' = None =>
       (app # None => ~app.deleting)]_session
=============================================================================
