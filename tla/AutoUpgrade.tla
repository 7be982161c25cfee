----------------------------- MODULE AutoUpgrade -----------------------------
(***************************************************************************)
(* The life of an app's image: the auto-upgrade daemon (pkg/autoupgrade),   *)
(* the PullAppImage handler of the app controller, the apps/confirmupgrade  *)
(* and apps/pullimage subresources, and the user's edits of the app, all of *)
(* them read-modify-writing one AppInstance under the API server's          *)
(* optimistic concurrency (resourceVersion).                                *)
(*                                                                          *)
(* An image reference is a record [repo, tag].  Tags are numbers ordered    *)
(* the way the pattern of an auto-upgrade app orders them; a tag outside    *)
(* Matching does not match the pattern.  A digest is a number, 0 the empty  *)
(* string.                                                                  *)
(***************************************************************************)
EXTENDS Naturals, FiniteSets, FiniteSetsExt

CONSTANTS
    Apps,         \* keys (namespace/name) of the apps
    Repos,        \* image repositories
    Registered,   \* the repositories whose name carries a registry host
    Tags,         \* concrete tags
    Published,    \* references that can be in their registry
    Built,        \* references that can be built in the cluster
    StartRemote,  \* what the registries can hold at the start
    StartLocal,   \* what can have been built in the cluster at the start
    Matching,     \* the tags that match the pattern
    Denied,       \* the references the ImageAllowRules reject
    MaxDigest,    \* contents a tag can have: digests 1..MaxDigest
    Pattern,      \* a tag that is a pattern ("v#.#") instead of a tag
    NoTag,        \* "": the reference left when the pattern is cut off
    NoRef,        \* "": no reference
    NoView,       \* the controller is not handling the app
    Specs,        \* the AppInstanceSpecs the user writes
    MaxEdits,     \* bound: creates, updates, deletes, pulls, confirmations
    MaxPushes,    \* bound: changes of what the registries hold
    MaxFaults,    \* bound: registry outages, API errors, controller restarts
    MayUntag      \* whether a tag can disappear from a registry

Refs == [repo : Repos, tag : Tags]
Digests == 0..MaxDigest
Upgrades == {"off", "auto", "notify"}

ASSUME AutoUpgradeAssumption ==
    /\ Registered \subseteq Repos
    /\ Tags \subseteq Nat
    /\ Matching \subseteq Tags
    /\ Published \cup Built \cup Denied \subseteq Refs
    /\ StartRemote \cup StartLocal \subseteq [Refs -> Digests]
    /\ Specs \subseteq [image : [repo : Repos, tag : Tags \cup {Pattern}],
                        upgrade : Upgrades]
    /\ Pattern \notin Tags
    /\ NoTag \notin Tags
    /\ NoRef \notin Refs
    /\ \A S \in SUBSET Tags : S # {} => \E t \in S : \A u \in S : t >= u
    /\ {MaxDigest, MaxEdits, MaxPushes, MaxFaults} \subseteq Nat
    /\ MayUntag \in BOOLEAN

VARIABLES
    app,      \* the AppInstances in the API server
    remote,   \* digest each reference has in its remote registry
    local,    \* digest of the image built in the cluster under a reference
    up,       \* whether the remote registries answer
    fresh,    \* who holds a copy of the app with the current resourceVersion
    view,     \* the copy of the app the controller is handling
    phase,    \* where the daemon's loop is: select, sync, refresh, write
    snap,     \* the apps as the daemon listed them
    todo,     \* the apps of this sync still to be refreshed
    pending,  \* the write the daemon is about to send
    checked,  \* appKeysPrevCheck: absent, due for a check, or not yet due
    born,     \* apps created since the current sync began
    queue,    \* number of events in syncQueue
    timer,    \* the daemon's timer: armed, fired (value in C) or stopped
    asked,    \* history: images the user asked for and that were not yet pulled
    edits, pushes, faults

apiVars == <<app, fresh, asked>>
registryVars == <<remote, local, up>>
daemonVars == <<phase, snap, todo, pending, checked, born, timer>>
budgets == <<edits, pushes, faults>>
vars == <<apiVars, registryVars, view, daemonVars, queue, budgets>>

-----------------------------------------------------------------------------
(* Image references and upgrade modes *)

IsPattern(spec) == spec.image.tag = Pattern

\* Mode: a pattern turns auto-upgrade on, notify wins over auto.
Mode(spec) ==
    CASE spec.upgrade = "notify" -> "notify"
      [] spec.upgrade # "notify" /\ (spec.upgrade = "auto" \/ IsPattern(spec)) -> "enabled"
      [] OTHER -> "off"

On(spec) == Mode(spec) # "off"

RemoteDigest(ref) == IF up /\ ref \in Refs THEN remote[ref] ELSE 0
LocalDigest(ref) == IF ref \in Refs THEN local[ref] ELSE 0

Ref(repo, tag) == [repo |-> repo, tag |-> tag]

\* images.IsImageRemote: a registry is named in the reference, and answers.
IsImageRemote(ref) == ref.repo \in Registered /\ RemoteDigest(ref) # 0

\* imageDigest falls back on the image built locally under that name.
LatestDigest(ref) ==
    IF IsImageRemote(ref) THEN RemoteDigest(ref) ELSE LocalDigest(ref)

\* getTagsForImagePattern: the remote tags, if any, and the local ones.
KnownTags(repo) ==
    {t \in Tags : IsImageRemote(Ref(repo, t)) \/ LocalDigest(Ref(repo, t)) # 0}

\* Mutant: any other tag that matches counts as newer.
NewerTagsUnordered(repo, current) ==
    {t \in KnownTags(repo) \cap Matching : Ref(repo, t) \notin Denied /\ t # current}

\* Mutant: the ImageAllowRules are not consulted.
NewerTagsUnchecked(repo, current) ==
    {t \in KnownTags(repo) \cap Matching : current \in Matching => t > current}

\* FindLatest, iterated over the tags the ImageAllowRules let through: the
\* tags that would replace current, of which the greatest is taken.
NewerTags(repo, current) ==
    {t \in KnownTags(repo) \cap Matching :
        /\ Ref(repo, t) \notin Denied
        /\ current \in Matching => t > current}

\* findLatestTagForImageWithPattern ends in an error: there is no current tag
\* and every tag that matches is denied.
AllDenied(repo, current) ==
    /\ current = NoTag
    /\ NewerTags(repo, current) = {}
    /\ KnownTags(repo) \cap Matching # {}

-----------------------------------------------------------------------------
(* The API server *)

\* An AppInstance without a status: name and digest are Status.AppImage,
\* available and confirm the image announced, pulled the Pulled condition.
Instance(live, spec) ==
    [live |-> live, spec |-> spec, name |-> NoRef, digest |-> 0,
     available |-> NoRef, confirm |-> NoRef, pulled |-> "unset"]

NoApp == Instance(FALSE, [image |-> Ref(NoTag, NoTag), upgrade |-> "off"])
NewApp(spec) == Instance(TRUE, spec)

NoPending == [app |-> NoRef, status |-> NoApp]

LiveApps ==
    [live : {TRUE}, spec : Specs, name : Refs \cup {NoRef}, digest : Digests,
     available : Refs \cup {NoRef}, confirm : Refs \cup {NoRef},
     pulled : {"unset", "unknown", "success", "error"}]
AppInstances == LiveApps \cup {NoApp}

\* An accepted write: every copy taken before it is out of date.
Write(a, new) ==
    /\ app' = [app EXCEPT ![a] = new]
    /\ fresh' = [fresh EXCEPT ![a] = IF new = app[a] THEN @ ELSE {}]

\* Mutant: a patch that carries no resourceVersion.
StatusUpdateForced(who, a, new) == Write(a, new)

\* Status().Update with the resourceVersion of who's copy.
StatusUpdate(who, a, new) ==
    IF who \in fresh[a] THEN Write(a, new) ELSE UNCHANGED <<app, fresh>>

\* autoupgrade.Sync: one event fits in the channel, the others are dropped.
Sync == queue' = IF queue = 0 THEN 1 ELSE queue

-----------------------------------------------------------------------------
(* The user, through the Acorn API server *)

\* Validator.Validate, as far as the image is concerned.
Pullable(spec, ref) ==
    \/ LocalDigest(ref) # 0
    \/ RemoteDigest(ref) # 0 /\ (On(spec) => ref.repo \in Registered)

Admissible(spec) ==
    LET repo  == spec.image.repo
        newer == NewerTags(repo, NoTag)
    IN  IF IsPattern(spec)
        THEN /\ ~AllDenied(repo, NoTag)
             /\ newer # {} => Pullable(spec, Ref(repo, Max(newer)))
        ELSE spec.image \notin Denied /\ Pullable(spec, spec.image)

Edit == edits < MaxEdits /\ edits' = edits + 1
UserFrame == UNCHANGED <<registryVars, view, phase, snap, todo, pending, timer, queue, pushes, faults>>

\* Images on their way for a that the user left there when editing the app.
Wanted(a) == asked[a] \cup ({app[a].available} \ {NoRef})

\* calcNextCheck: a key seen before belongs to an app newer than its last
\* check, unless both fall into the same second (creation times have no more).
CreateApp(a, spec) ==
    /\ Edit
    /\ ~app[a].live
    /\ Admissible(spec)
    /\ Write(a, NewApp(spec))
    /\ \/ /\ born' = born \cup {a}
          /\ checked' = [checked EXCEPT ![a] = IF @ = "fresh" THEN "due" ELSE @]
       \/ UNCHANGED <<born, checked>>
    /\ asked' = [asked EXCEPT ![a] = Wanted(a)]
    /\ UserFrame

UpdateApp(a, spec) ==
    /\ Edit
    /\ app[a].live
    /\ spec # app[a].spec
    /\ Admissible(spec)
    /\ Write(a, [app[a] EXCEPT !.spec = spec])
    /\ asked' = [asked EXCEPT ![a] = Wanted(a)]
    /\ UNCHANGED <<checked, born>>
    /\ UserFrame

DeleteApp(a) ==
    /\ Edit
    /\ app[a].live
    /\ Write(a, NoApp)
    /\ asked' = [asked EXCEPT ![a] = {}]
    /\ UNCHANGED <<checked, born>>
    /\ UserFrame

\* ConfirmUpgradeStrategy.Create
ConfirmUpgrade(a) ==
    /\ Edit
    /\ app[a].live
    /\ Write(a, [app[a] EXCEPT !.available = app[a].confirm])
    /\ asked' = [asked EXCEPT ![a] = @ \cup ({app[a].confirm} \ {NoRef})]
    /\ UNCHANGED <<checked, born>>
    /\ UserFrame

\* PullAppImageStrategy.Create
PullImage(a) ==
    LET image == IF ~IsPattern(app[a].spec) THEN app[a].spec.image
                 ELSE IF app[a].name # NoRef THEN app[a].name
                 ELSE app[a].available
    IN  /\ Edit
        /\ app[a].live
        /\ Write(a, [app[a] EXCEPT !.available = image])
        /\ asked' = [asked EXCEPT ![a] = @ \cup ({image} \ {NoRef})]
        /\ UNCHANGED <<checked, born>>
        /\ UserFrame

-----------------------------------------------------------------------------
(* The registries *)

Push(ref) ==
    /\ pushes < MaxPushes /\ pushes' = pushes + 1
    /\ \/ \E d \in Digests \ {remote[ref]} :
             /\ ref \in Published
             /\ d = 0 => MayUntag
             /\ remote' = [remote EXCEPT ![ref] = d]
             /\ UNCHANGED local
       \/ \E d \in Digests \ {local[ref]} :
             /\ ref \in Built
             /\ d = 0 => MayUntag
             /\ local' = [local EXCEPT ![ref] = d]
             /\ UNCHANGED remote
    /\ UNCHANGED <<apiVars, up, view, daemonVars, queue, edits, faults>>

Fault == faults < MaxFaults /\ faults' = faults + 1

Outage ==
    /\ Fault
    /\ up
    /\ up' = FALSE
    /\ UNCHANGED <<apiVars, remote, local, view, daemonVars, queue, edits, pushes>>

Recover ==
    /\ ~up
    /\ up' = TRUE
    /\ UNCHANGED <<apiVars, remote, local, view, daemonVars, queue, budgets>>

-----------------------------------------------------------------------------
(* The app controller: PullAppImage *)

\* Mutant: an upgrade that awaits confirmation is pulled as well.
TargetUnconfirmed(s) ==
    IF On(s.spec)
    THEN CASE s.available # NoRef -> s.available
           [] s.available = NoRef /\ s.confirm # NoRef -> s.confirm
           [] OTHER ->
                IF IsPattern(s.spec) \/ s.spec.image = s.name THEN NoRef ELSE s.spec.image
    ELSE IF s.spec.image # s.name \/ s.available = s.spec.image THEN s.spec.image ELSE NoRef

\* determineTargetImage: the image to pull, or none and a condition.
Target(s) ==
    IF On(s.spec)
    THEN CASE s.available # NoRef -> s.available
           [] s.available = NoRef /\ s.confirm # NoRef ->
                IF s.name = NoRef THEN s.confirm ELSE NoRef
           [] OTHER ->
                IF IsPattern(s.spec) \/ s.spec.image = s.name THEN NoRef ELSE s.spec.image
    ELSE IF s.spec.image # s.name \/ s.available = s.spec.image THEN s.spec.image ELSE NoRef

\* A pattern app that never had a concrete image asks the daemon for one.
AsksForSync(s) ==
    /\ On(s.spec) /\ IsPattern(s.spec)
    /\ s.available = NoRef /\ s.confirm = NoRef /\ s.name = NoRef

\* The condition when there is nothing to pull.
IdleCondition(s) ==
    IF On(s.spec) /\ s.available = NoRef
         /\ (s.confirm # NoRef \/ (IsPattern(s.spec) /\ s.name = NoRef))
    THEN "unknown" ELSE "success"

\* With auto-upgrade on, a reference without a registry is never looked up
\* on Docker Hub: the handler fails instead.
RefusesDefaultRegistry(s, target) ==
    On(s.spec) /\ ~IsImageRemote(target) /\ LocalDigest(target) = 0 /\ target.repo \notin Registered

\* What pulling target brings: remote first when auto-upgrade is on, the
\* image built locally first when it is off.
PulledDigest(s, target) ==
    IF On(s.spec) /\ IsImageRemote(target) THEN RemoteDigest(target)
    ELSE IF LocalDigest(target) # 0 THEN LocalDigest(target)
    ELSE RemoteDigest(target)

\* There is an image to pull, and it is found.
Pulls(s) ==
    /\ Target(s) # NoRef
    /\ ~RefusesDefaultRegistry(s, Target(s))
    /\ PulledDigest(s, Target(s)) # 0

\* The status the handler leaves, the registries being what they are now.
AfterPull(s) ==
    CASE Target(s) = NoRef -> [s EXCEPT !.pulled = IdleCondition(s)]
      [] Target(s) # NoRef /\ RefusesDefaultRegistry(s, Target(s)) -> s
      [] Pulls(s) -> [s EXCEPT !.available = NoRef, !.confirm = NoRef, !.name = Target(s),
                               !.digest = PulledDigest(s, Target(s)), !.pulled = "success"]
      [] OTHER -> [s EXCEPT !.pulled = "error"]

ReconcileBegin(a) ==
    /\ view[a] = NoView
    /\ app[a].live
    /\ view' = [view EXCEPT ![a] = app[a]]
    /\ fresh' = [fresh EXCEPT ![a] = @ \cup {"controller"}]
    /\ UNCHANGED <<app, asked, registryVars, daemonVars, queue, budgets>>

ReconcileEnd(a) ==
    LET s == view[a] IN
    /\ s # NoView
    /\ StatusUpdate("controller", a, AfterPull(s))
    /\ IF AsksForSync(s) THEN Sync ELSE UNCHANGED queue
    /\ view' = [view EXCEPT ![a] = NoView]
    /\ asked' = [asked EXCEPT ![a] = IF "controller" \in fresh[a] /\ Pulls(s)
                                     THEN @ \ {Target(s)} ELSE @]
    /\ UNCHANGED <<registryVars, daemonVars, budgets>>

-----------------------------------------------------------------------------
(* The daemon *)

\* case <-timer.C
TimerFires ==
    /\ timer = "armed"
    /\ timer' = "fired"
    /\ UNCHANGED <<apiVars, registryVars, view, phase, snap, todo, pending, checked, born, queue, budgets>>

\* Mutant: the timer starts no sync.
OnTimerLost ==
    /\ phase = "select"
    /\ timer = "fired"
    /\ timer' = "stopped"
    /\ UNCHANGED <<apiVars, registryVars, view, phase, snap, todo, pending, checked, born, queue, budgets>>

OnTimer ==
    /\ phase = "select"
    /\ timer = "fired"
    /\ timer' = "stopped"
    /\ Sync
    /\ UNCHANGED <<apiVars, registryVars, view, phase, snap, todo, pending, checked, born, budgets>>

\* case <-syncQueue: the timer is stopped and drained, then sync runs.
OnSyncEvent ==
    /\ phase = "select"
    /\ queue = 1
    /\ queue' = 0
    /\ timer' = "stopped"
    /\ phase' = "sync"
    /\ UNCHANGED <<apiVars, registryVars, view, snap, todo, pending, checked, born, budgets>>

\* HandleAutoUpgradeInterval: the acorn config changed.
ConfigChanged ==
    /\ Edit
    /\ Sync
    /\ UNCHANGED <<apiVars, registryVars, view, daemonVars, pushes, faults>>

\* The next check of an app falls due.
Elapse(a) ==
    /\ checked[a] = "fresh"
    /\ checked' = [checked EXCEPT ![a] = "due"]
    /\ UNCHANGED <<apiVars, registryVars, view, phase, snap, todo, pending, born, timer, queue, budgets>>

\* Mutant: the timer is not reset after an error.
SyncFailsNoReset ==
    /\ Fault
    /\ phase = "sync"
    /\ phase' = "select"
    /\ UNCHANGED <<apiVars, registryVars, view, snap, todo, pending, checked, born, timer, queue, edits, pushes>>

\* sync fails to read the config or to list the apps.
SyncFails ==
    /\ Fault
    /\ phase = "sync"
    /\ phase' = "select"
    /\ timer' = "armed"
    /\ UNCHANGED <<apiVars, registryVars, view, snap, todo, pending, checked, born, queue, edits, pushes>>

\* sync up to refreshImages: list the apps, add the new keys to the map, and
\* determineAppsToRefresh.
Tracked(a) == app[a].live /\ On(app[a].spec)

SyncBegin ==
    /\ phase = "sync"
    /\ phase' = "refresh"
    /\ snap' = app
    /\ fresh' = [a \in Apps |-> fresh[a] \cup {"daemon"}]
    /\ checked' = [a \in Apps |-> IF ~Tracked(a) THEN "absent"
                                  ELSE IF checked[a] = "absent" THEN "due" ELSE checked[a]]
    /\ todo' = {a \in Apps : checked'[a] = "due"}
    /\ born' = {}
    /\ UNCHANGED <<app, asked, registryVars, view, pending, timer, queue, budgets>>

\* The app was checked on this run; one created since is checked again.
MarkChecked(a) ==
    checked' = [checked EXCEPT ![a] = IF a \in born THEN "due" ELSE "fresh"]

\* The reference whose registry is asked about app s.
Current(s) ==
    IF s.name # NoRef THEN s.name
    ELSE IF IsPattern(s.spec) THEN Ref(s.spec.image.repo, NoTag) ELSE s.spec.image

Newer(s) ==
    IF IsPattern(s.spec) THEN NewerTags(Current(s).repo, Current(s).tag) ELSE {}

\* Without a newer tag, the digest of the current one is compared.
ComparesDigest(s) == ~IsPattern(s.spec) \/ Current(s).tag # NoTag

NextImage(s) ==
    IF Newer(s) # {} THEN Ref(Current(s).repo, Max(Newer(s)))
    ELSE IF ComparesDigest(s) THEN Current(s) ELSE NoRef

FoundDigest(s) == IF ComparesDigest(s) THEN LatestDigest(Current(s)) ELSE 0

LookupFails(s) == IsPattern(s.spec) /\ AllDenied(Current(s).repo, Current(s).tag)

Offered(s) ==
    \/ Newer(s) # {}
    \/ /\ s.digest # FoundDigest(s)
       /\ FoundDigest(s) # 0 => Current(s) \notin Denied

\* The status that announces NextImage, as the mode wants it.
Announce(s) ==
    IF Mode(s.spec) = "enabled"
    THEN IF s.available = NextImage(s) THEN s
         ELSE [s EXCEPT !.available = NextImage(s), !.confirm = NoRef]
    ELSE IF s.confirm = NextImage(s) THEN s
         ELSE [s EXCEPT !.confirm = NextImage(s), !.available = NoRef]

\* One iteration of refreshImages, up to the update of the app.
RefreshLookup(a) ==
    LET s == snap[a] IN
    /\ phase = "refresh"
    /\ a \in todo
    /\ IF ~LookupFails(s) /\ Offered(s) /\ Announce(s) # s
       THEN /\ phase' = "write"
            /\ pending' = [app |-> a, status |-> Announce(s)]
            /\ UNCHANGED <<todo, checked>>
       ELSE /\ todo' = todo \ {a}
            /\ IF LookupFails(s) THEN UNCHANGED checked ELSE MarkChecked(a)
            /\ UNCHANGED <<phase, pending>>
    /\ UNCHANGED <<apiVars, registryVars, view, snap, born, timer, queue, budgets>>

\* updateAppStatus: on a conflict the app stays due.
RefreshWrite ==
    LET a == pending.app IN
    /\ phase = "write"
    /\ StatusUpdate("daemon", a, pending.status)
    /\ IF "daemon" \in fresh[a] THEN MarkChecked(a) ELSE UNCHANGED checked
    /\ phase' = "refresh"
    /\ todo' = todo \ {a}
    /\ pending' = NoPending
    /\ UNCHANGED <<asked, registryVars, view, snap, born, timer, queue, budgets>>

SyncEnd ==
    /\ phase = "refresh"
    /\ todo = {}
    /\ phase' = "select"
    /\ timer' = "armed"
    /\ snap' = [a \in Apps |-> NoApp]
    /\ UNCHANGED <<apiVars, registryVars, view, todo, pending, checked, born, queue, budgets>>

\* The controller process restarts: the daemon's map, the queue and every copy
\* it held are gone, and StartSync begins with a sync.
Restart ==
    /\ Fault
    /\ phase' = "sync"
    /\ timer' = "stopped"
    /\ queue' = 0
    /\ checked' = [a \in Apps |-> "absent"]
    /\ todo' = {}
    /\ view' = [a \in Apps |-> NoView]
    /\ snap' = [a \in Apps |-> NoApp]
    /\ pending' = NoPending
    /\ UNCHANGED <<apiVars, registryVars, born, edits, pushes>>

-----------------------------------------------------------------------------
Init ==
    /\ app = [a \in Apps |-> NoApp]
    /\ remote \in StartRemote
    /\ local \in StartLocal
    /\ up = TRUE
    /\ fresh = [a \in Apps |-> {}]
    /\ view = [a \in Apps |-> NoView]
    /\ phase = "sync"
    /\ snap = app
    /\ todo = {}
    /\ pending = NoPending
    /\ checked = [a \in Apps |-> "absent"]
    /\ born = {}
    /\ queue = 0
    /\ timer = "stopped"
    /\ asked = [a \in Apps |-> {}]
    /\ edits = 0 /\ pushes = 0 /\ faults = 0

User == \E a \in Apps :
    \/ \E spec \in Specs : CreateApp(a, spec) \/ UpdateApp(a, spec)
    \/ DeleteApp(a)
    \/ ConfirmUpgrade(a)
    \/ PullImage(a)

Environment ==
    \/ User
    \/ \E r \in Refs : Push(r)
    \/ Outage
    \/ Recover
    \/ ConfigChanged
    \/ Restart
    \/ SyncFails

Controller == \E a \in Apps : ReconcileBegin(a) \/ ReconcileEnd(a)

Daemon ==
    \/ TimerFires \/ OnTimer \/ OnSyncEvent \/ SyncBegin \/ SyncEnd \/ RefreshWrite
    \/ \E a \in Apps : Elapse(a) \/ RefreshLookup(a)

Next == Environment \/ Controller \/ Daemon

Spec == Init /\ [][Next]_vars

(***************************************************************************)
(* Fairness: the controller handles every app again and again (informer     *)
(* events and resyncs), time passes, the daemon's goroutine goes on, and an *)
(* outage ends.  Nothing is assumed of the user, of those who push, or of   *)
(* the choice a select makes between its timer and an event.                *)
(***************************************************************************)
DaemonGoesOn ==
    \/ OnTimer \/ OnSyncEvent \/ SyncBegin \/ SyncEnd \/ RefreshWrite
    \/ \E a \in Apps : RefreshLookup(a)

Fairness ==
    /\ WF_vars(Recover) /\ WF_vars(TimerFires) /\ WF_vars(DaemonGoesOn)
    /\ \A a \in Apps : /\ WF_vars(ReconcileBegin(a) \/ ReconcileEnd(a))
                       /\ WF_vars(Elapse(a))

FairSpec == Spec /\ Fairness

-----------------------------------------------------------------------------
(* Properties *)

\* Every variable holds a value of its type, the copies of an app that the
\* controller and the daemon work on included.
TypeOK ==
    /\ app \in [Apps -> AppInstances]
    /\ remote \in [Refs -> Digests]
    /\ local \in [Refs -> Digests]
    /\ up \in BOOLEAN
    /\ fresh \in [Apps -> SUBSET {"daemon", "controller"}]
    /\ view \in [Apps -> LiveApps \cup {NoView}]
    /\ phase \in {"select", "sync", "refresh", "write"}
    /\ snap \in [Apps -> AppInstances]
    /\ todo \in SUBSET Apps
    /\ \A a \in todo : snap[a] \in LiveApps
    /\ pending \in [app : Apps \cup {NoRef}, status : AppInstances]
    /\ phase = "write" => pending.app \in Apps /\ pending.status \in LiveApps
    /\ checked \in [Apps -> {"absent", "due", "fresh"}]
    /\ born \in SUBSET Apps
    /\ queue \in {0, 1}
    /\ timer \in {"armed", "fired", "stopped"}
    /\ asked \in [Apps -> SUBSET Refs]
    /\ {edits, pushes, faults} \subseteq Nat

\* The daemon never sleeps for good: whenever its loop waits in select, the
\* timer will fire or has fired, or an event waits in syncQueue.  The timer is
\* re-armed only after a sync, and firing it only posts an event that Sync may
\* drop when the queue is full.
DaemonAwake == phase = "select" => timer # "stopped" \/ queue = 1

\* The image of an app is only replaced by the one determineTargetImage gives
\* for the app as it is stored at that moment: a pull decided on an older copy
\* (the user edited the app, or the daemon withdrew or changed what it
\* announced, while the image was being pulled) is never committed.
PullsWhatIsStored ==
    [][\A a \in Apps :
          app'[a].name \notin {app[a].name, NoRef} => app'[a].name = Target(app[a])]_vars

Unannounced(s) == [s EXCEPT !.available = NoRef, !.confirm = NoRef]

\* What the daemon announces was looked up for the app that is stored: an
\* update that is accepted changes nothing but the announcement, so it cannot
\* undo a pull, an edit or a confirmation made during the lookup.
AnnouncesForStored ==
    [][phase = "write" /\ phase' = "refresh" /\ app' # app
       => Unannounced(pending.status) = Unannounced(app[pending.app])]_vars

\* In notify mode the image of an app that has one changes only to an image
\* the user asked for: by confirming it, by pulling, by editing the spec, or
\* by switching to notify while it was already on its way.
NotifyNeedsConsent ==
    [][\A a \in Apps :
          /\ app[a].live /\ app'[a].live
          /\ Mode(app[a].spec) = "notify"
          /\ app[a].name # NoRef
          /\ <<app'[a].name, app'[a].digest>> # <<app[a].name, app[a].digest>>
          => \/ app'[a].name \in asked[a]
             \/ app'[a].name = app[a].spec.image /\ app[a].name # app[a].spec.image]_vars

\* An upgrade nobody asked for never goes back to an older tag: FindLatest
\* only yields a tag that sorts after the one the app has.
NoDowngrade ==
    [][\A a \in Apps :
          /\ app[a].live /\ app'[a].live
          /\ app[a].name # NoRef /\ app'[a].name \notin asked[a] \cup {NoRef, app[a].spec.image}
          /\ app'[a].name.repo = app[a].name.repo
          /\ {app[a].name.tag, app'[a].name.tag} \subseteq Matching
          => app'[a].name.tag >= app[a].name.tag]_vars

\* No image the ImageAllowRules reject is run, or announced as an upgrade,
\* although the reference an app ends up with is chosen by the daemon long
\* after the app was admitted.
OnlyAllowedImages ==
    \A a \in Apps : {app[a].name, app[a].available, app[a].confirm} \cap Denied = {}

Resolvable(a) ==
    /\ app[a].live
    /\ IsPattern(app[a].spec) => NewerTags(app[a].spec.image.repo, NoTag) # {}

UpToDate(a) ==
    /\ app[a].name # NoRef
    /\ IsPattern(app[a].spec) => NewerTags(app[a].spec.image.repo, app[a].name.tag) = {}
    /\ ~IsPattern(app[a].spec) => app[a].name = app[a].spec.image
    /\ app[a].digest = LatestDigest(app[a].name)

\* Once the user, the registries and the faults come to rest, every app with
\* automatic upgrades runs the newest tag its pattern allows with the content
\* that tag has now, in spite of dropped sync events, write conflicts, outages
\* and restarts on the way.
Converges ==
    <>[](\A a \in Apps : Mode(app[a].spec) = "enabled" /\ Resolvable(a) => UpToDate(a))

\* Likewise an app in notify mode ends up with the newest image, or with a
\* notification of the image it would be upgraded to.
Informs ==
    <>[](\A a \in Apps :
            Mode(app[a].spec) = "notify" /\ Resolvable(a) /\ ~UpToDate(a)
            => app[a].confirm # NoRef /\ (IsPattern(app[a].spec) => app[a].confirm = NextImage(app[a])))

\* Content a reference really has, whether or not its registry answers.
Content(ref) ==
    IF ref.repo \in Registered /\ remote[ref] # 0 THEN remote[ref] ELSE local[ref]

\* "If it determines a newer version of an image is available for an app, it
\* will update the app with that information": the daemon announces an image
\* only when it is a newer tag, or when the tag has other content than the app
\* runs.  (Fails: a registry that does not answer yields the empty digest.)
AnnouncesOnlyUpgrades ==
    [][phase = "refresh" /\ phase' = "write" =>
          LET s == snap[pending'.app] IN Newer(s) # {} \/ Content(NextImage(s)) # s.digest]_vars

\* "acorn update --image [NEW-IMAGE] [APP-NAME] will replace the Acorn": an app
\* ends up with an image of the repository its spec names.  (Fails for a
\* pattern of another repository: the image the app has decides where the
\* daemon looks.)
ImageUpdateReplaces ==
    <>[](\A a \in Apps : Resolvable(a) /\ On(app[a].spec) => app[a].name # NoRef /\ app[a].name.repo = app[a].spec.image.repo)
=============================================================================
