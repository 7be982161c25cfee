------------------------- MODULE AutoUpgradeProofs -------------------------
(***************************************************************************)
(* Theorems about AutoUpgrade, for every value of its constants.            *)
(***************************************************************************)
EXTENDS AutoUpgrade, TLAPS

-----------------------------------------------------------------------------
(* Types *)

LEMMA NewestType ==
    ASSUME NEW S \in SUBSET Tags, S # {}
    PROVE  Max(S) \in S
  BY AutoUpgradeAssumption DEF Max

LEMMA NewerIsRef ==
    ASSUME NEW repo, NEW current, NEW t \in NewerTags(repo, current)
    PROVE  Ref(repo, t) \in Refs
  BY DEF NewerTags, KnownTags, IsImageRemote, RemoteDigest, LocalDigest

\* The image the daemon would announce for an app is a concrete reference.
LEMMA NextImageType ==
    ASSUME NEW s \in LiveApps
    PROVE  NextImage(s) \in Refs \cup {NoRef}
<1>1. CASE Newer(s) # {}
  <2>1. Newer(s) = NewerTags(Current(s).repo, Current(s).tag)
    BY <1>1 DEF Newer
  <2>2. Newer(s) \in SUBSET Tags
    BY <2>1 DEF NewerTags, KnownTags
  <2>3. Max(Newer(s)) \in Newer(s)
    BY <1>1, <2>2, NewestType
  <2>4. QED
    BY <1>1, <2>1, <2>3, NewerIsRef DEF NextImage
<1>2. CASE Newer(s) = {} /\ ComparesDigest(s)
  <2>1. CASE s.name # NoRef
    BY <1>2, <2>1 DEF NextImage, Current, LiveApps
  <2>2. CASE s.name = NoRef /\ ~IsPattern(s.spec)
    BY <1>2, <2>2, AutoUpgradeAssumption DEF NextImage, Current, LiveApps, IsPattern, Refs
  <2>3. CASE s.name = NoRef /\ IsPattern(s.spec)
    BY <1>2, <2>3 DEF ComparesDigest, Current, Ref
  <2>4. QED
    BY <2>1, <2>2, <2>3
<1>3. CASE Newer(s) = {} /\ ~ComparesDigest(s)
  BY <1>3 DEF NextImage
<1>4. QED
  BY <1>1, <1>2, <1>3

LEMMA AnnounceType ==
    ASSUME NEW s \in LiveApps
    PROVE  Announce(s) \in LiveApps
  BY NextImageType DEF Announce, LiveApps

LEMMA TargetType ==
    ASSUME NEW s \in LiveApps
    PROVE  Target(s) \in Refs \cup {NoRef}
<1>1. IsPattern(s.spec) => On(s.spec)
  BY DEF IsPattern, On, Mode
<1>2. ~IsPattern(s.spec) => s.spec.image \in Refs
  BY AutoUpgradeAssumption DEF LiveApps, IsPattern, Refs
<1>3. {s.available, s.confirm} \subseteq Refs \cup {NoRef}
  BY DEF LiveApps
<1>4. CASE On(s.spec)
  BY <1>2, <1>3, <1>4 DEF Target
<1>5. CASE ~On(s.spec)
  BY <1>1, <1>2, <1>5 DEF Target
<1>6. QED
  BY <1>4, <1>5

\* What a reconcile stores is an app.
LEMMA AfterPullType ==
    ASSUME TypeOK, NEW s \in LiveApps
    PROVE  AfterPull(s) \in LiveApps
<1>1. PulledDigest(s, Target(s)) \in Digests
  <2>1. 0 \in Digests
    BY AutoUpgradeAssumption DEF Digests
  <2>2. QED
    BY <2>1 DEF TypeOK, PulledDigest, RemoteDigest, LocalDigest
<1>2. IdleCondition(s) \in {"unknown", "success"}
  BY DEF IdleCondition
<1> QED
  BY <1>1, <1>2, TargetType DEF AfterPull, LiveApps

LEMMA WriteType ==
    ASSUME TypeOK, NEW a \in Apps, NEW new \in AppInstances, Write(a, new)
    PROVE  /\ app' \in [Apps -> AppInstances]
           /\ fresh' \in [Apps -> SUBSET {"daemon", "controller"}]
  BY DEF TypeOK, Write

LEMMA StatusUpdateType ==
    ASSUME TypeOK, NEW a \in Apps, NEW new \in AppInstances, NEW who, StatusUpdate(who, a, new)
    PROVE  /\ app' \in [Apps -> AppInstances]
           /\ fresh' \in [Apps -> SUBSET {"daemon", "controller"}]
  BY WriteType DEF StatusUpdate, TypeOK

LEMMA NoAppFields == NoApp.available = NoRef /\ NoApp.live = FALSE
  BY DEF NoApp, Instance

\* An app that is stored and live has a spec the user wrote.
LEMMA LiveIsTyped ==
    ASSUME TypeOK, NEW a \in Apps, app[a].live
    PROVE  app[a] \in LiveApps
  BY NoAppFields DEF TypeOK, AppInstances

LEMMA UserKeepsTypes ==
    ASSUME TypeOK, NEW a \in Apps, NEW new \in AppInstances,
           Edit, Write(a, new), UserFrame,
           asked' \in [Apps -> SUBSET Refs],
           checked' \in [Apps -> {"absent", "due", "fresh"}], born' \in SUBSET Apps
    PROVE  TypeOK'
<1>1. /\ app' \in [Apps -> AppInstances]
      /\ fresh' \in [Apps -> SUBSET {"daemon", "controller"}]
  BY WriteType
<1>2. {edits', pushes', faults'} \subseteq Nat
  BY DEF TypeOK, Edit, UserFrame
<1>3. QED
  BY <1>1, <1>2 DEF TypeOK, UserFrame, registryVars

LEMMA UserType ==
    ASSUME TypeOK, User
    PROVE  TypeOK'
<1>1. PICK a \in Apps : \/ \E spec \in Specs : CreateApp(a, spec) \/ UpdateApp(a, spec)
                        \/ DeleteApp(a) \/ ConfirmUpgrade(a) \/ PullImage(a)
  BY DEF User
<1>2. /\ asked \in [Apps -> SUBSET Refs]
      /\ checked \in [Apps -> {"absent", "due", "fresh"}]
      /\ born \in SUBSET Apps
      /\ app[a].available \in Refs \cup {NoRef}
  <2>1. app[a] \in LiveApps \/ app[a] = NoApp
    BY DEF TypeOK, AppInstances
  <2>2. app[a].available \in Refs \cup {NoRef}
    <3>1. CASE app[a] \in LiveApps
      BY <3>1 DEF LiveApps
    <3>2. CASE app[a] = NoApp
      BY <3>2, NoAppFields
    <3>3. QED
      BY <2>1, <3>1, <3>2
  <2>3. QED
    BY <2>2 DEF TypeOK
<1>3. ASSUME NEW spec \in Specs, CreateApp(a, spec) PROVE TypeOK'
  <2>1. NewApp(spec) \in AppInstances
    <3>1. 0 \in Digests
      BY AutoUpgradeAssumption DEF Digests
    <3>2. NewApp(spec) \in LiveApps
      BY <3>1 DEF NewApp, Instance, LiveApps
    <3>3. QED
      BY <3>2 DEF AppInstances
  <2>2. /\ asked' \in [Apps -> SUBSET Refs]
        /\ checked' \in [Apps -> {"absent", "due", "fresh"}]
        /\ born' \in SUBSET Apps
    BY <1>2, <1>3 DEF CreateApp, Wanted
  <2>3. QED
    BY <1>3, <2>1, <2>2, UserKeepsTypes DEF CreateApp
<1>4. ASSUME NEW spec \in Specs, UpdateApp(a, spec) PROVE TypeOK'
  <2>1. [app[a] EXCEPT !.spec = spec] \in AppInstances
    BY <1>4, LiveIsTyped DEF UpdateApp, AppInstances, LiveApps
  <2>2. asked' \in [Apps -> SUBSET Refs]
    BY <1>2, <1>4 DEF UpdateApp, Wanted
  <2>3. QED
    BY <1>2, <1>4, <2>1, <2>2, UserKeepsTypes DEF UpdateApp
<1>5. CASE DeleteApp(a)
  <2>1. asked' \in [Apps -> SUBSET Refs]
    BY <1>2, <1>5 DEF DeleteApp
  <2>2. QED
    BY <1>2, <1>5, <2>1, UserKeepsTypes DEF DeleteApp, AppInstances
<1>6. CASE ConfirmUpgrade(a)
  <2>1. app[a] \in LiveApps
    BY <1>6, LiveIsTyped DEF ConfirmUpgrade
  <2>2. [app[a] EXCEPT !.available = app[a].confirm] \in AppInstances
    BY <2>1 DEF AppInstances, LiveApps
  <2>3. asked' \in [Apps -> SUBSET Refs]
    BY <1>2, <1>6, <2>1 DEF ConfirmUpgrade, LiveApps
  <2>4. QED
    BY <1>2, <1>6, <2>2, <2>3, UserKeepsTypes DEF ConfirmUpgrade
<1>7. CASE PullImage(a)
  <2> DEFINE image == IF ~IsPattern(app[a].spec) THEN app[a].spec.image
                      ELSE IF app[a].name # NoRef THEN app[a].name
                      ELSE app[a].available
  <2>1. app[a] \in LiveApps
    BY <1>7, LiveIsTyped DEF PullImage
  <2>2. image \in Refs \cup {NoRef}
    BY <2>1, AutoUpgradeAssumption DEF LiveApps, IsPattern, Refs
  <2>3. [app[a] EXCEPT !.available = image] \in AppInstances
    BY <2>1, <2>2 DEF AppInstances, LiveApps
  <2>4. asked' \in [Apps -> SUBSET Refs]
    BY <1>2, <1>7, <2>2 DEF PullImage
  <2>5. Edit /\ Write(a, [app[a] EXCEPT !.available = image]) /\ UserFrame
    BY <1>7 DEF PullImage
  <2> HIDE DEF image
  <2>6. QED
    BY <1>2, <1>7, <2>3, <2>4, <2>5, UserKeepsTypes DEF PullImage
<1>8. QED
  BY <1>1, <1>3, <1>4, <1>5, <1>6, <1>7

LEMMA ReconcileType ==
    ASSUME TypeOK, Controller
    PROVE  TypeOK'
<1>1. PICK a \in Apps : ReconcileBegin(a) \/ ReconcileEnd(a)
  BY DEF Controller
<1>2. CASE ReconcileBegin(a)
  <2>1. app[a] \in LiveApps
    BY <1>2, LiveIsTyped DEF ReconcileBegin
  <2>2. /\ view' \in [Apps -> LiveApps \cup {NoView}]
        /\ fresh' \in [Apps -> SUBSET {"daemon", "controller"}]
    BY <1>2, <2>1 DEF ReconcileBegin, TypeOK
  <2>3. QED
    BY <1>2, <2>2 DEF ReconcileBegin, TypeOK, registryVars, daemonVars, budgets
<1>3. CASE ReconcileEnd(a)
  <2>1. view[a] \in LiveApps
    BY <1>3 DEF ReconcileEnd, TypeOK
  <2>2. AfterPull(view[a]) \in AppInstances
    BY <2>1, AfterPullType DEF AppInstances
  <2>3. /\ app' \in [Apps -> AppInstances]
        /\ fresh' \in [Apps -> SUBSET {"daemon", "controller"}]
    BY <1>3, <2>2, StatusUpdateType DEF ReconcileEnd
  <2>4. /\ view' \in [Apps -> LiveApps \cup {NoView}]
        /\ asked' \in [Apps -> SUBSET Refs]
        /\ queue' \in {0, 1}
    BY <1>3 DEF ReconcileEnd, TypeOK, Sync
  <2>5. QED
    BY <1>3, <2>3, <2>4 DEF ReconcileEnd, TypeOK, registryVars, daemonVars, budgets
<1>4. QED
  BY <1>1, <1>2, <1>3

LEMMA EnvironmentType ==
    ASSUME TypeOK, Environment
    PROVE  TypeOK'
<1>1. CASE User
  BY <1>1, UserType
<1>2. ASSUME NEW r \in Refs, Push(r) PROVE TypeOK'
  <2>1. remote' \in [Refs -> Digests] /\ local' \in [Refs -> Digests] /\ pushes' \in Nat
    BY <1>2 DEF Push, TypeOK
  <2>2. QED
    BY <1>2, <2>1 DEF Push, TypeOK, apiVars, daemonVars
<1>3. CASE Outage \/ Recover
  <2>1. up' \in BOOLEAN /\ faults' \in Nat
    <3>1. up' \in BOOLEAN
      BY <1>3, Zenon DEF Outage, Recover
    <3>2. faults' \in Nat
      BY <1>3 DEF Outage, Recover, Fault, TypeOK, budgets
    <3>3. QED
      BY <3>1, <3>2
  <2>2. QED
    BY <1>3, <2>1 DEF Outage, Recover, TypeOK, apiVars, daemonVars, budgets
<1>4. CASE ConfigChanged
  BY <1>4 DEF ConfigChanged, Edit, Sync, TypeOK, apiVars, registryVars, daemonVars
<1>5. CASE Restart
  BY <1>5 DEF Restart, Fault, TypeOK, NoPending, AppInstances, apiVars, registryVars
<1>6. CASE SyncFails
  BY <1>6 DEF SyncFails, Fault, TypeOK, apiVars, registryVars
<1>7. QED
  BY <1>1, <1>2, <1>3, <1>4, <1>5, <1>6 DEF Environment

LEMMA DaemonType ==
    ASSUME TypeOK, Daemon
    PROVE  TypeOK'
<1>1. CASE TimerFires \/ OnTimer \/ OnSyncEvent
  BY <1>1 DEF TimerFires, OnTimer, OnSyncEvent, Sync, TypeOK, apiVars, registryVars, budgets
<1>2. CASE SyncBegin
  <2>1. /\ snap' \in [Apps -> AppInstances]
        /\ fresh' \in [Apps -> SUBSET {"daemon", "controller"}]
        /\ checked' \in [Apps -> {"absent", "due", "fresh"}]
        /\ todo' \in SUBSET Apps
    BY <1>2 DEF SyncBegin, TypeOK
  <2>2. ASSUME NEW a \in todo' PROVE snap'[a] \in LiveApps
    <3>1. a \in Apps /\ checked'[a] = "due"
      BY <1>2, <2>2 DEF SyncBegin
    <3>2. app[a].live
      BY <1>2, <3>1 DEF SyncBegin, Tracked
    <3>3. QED
      BY <1>2, <3>1, <3>2, LiveIsTyped DEF SyncBegin
  <2>3. QED
    BY <1>2, <2>1, <2>2 DEF SyncBegin, TypeOK, registryVars, budgets
<1>3. CASE SyncEnd
  BY <1>3 DEF SyncEnd, TypeOK, AppInstances, apiVars, registryVars, budgets
<1>4. CASE RefreshWrite
  <2>1. /\ pending.app \in Apps /\ pending.status \in AppInstances
        /\ StatusUpdate("daemon", pending.app, pending.status)
    BY <1>4 DEF RefreshWrite, TypeOK
  <2>2. /\ app' \in [Apps -> AppInstances]
        /\ fresh' \in [Apps -> SUBSET {"daemon", "controller"}]
    BY <2>1, StatusUpdateType
  <2>3. checked' \in [Apps -> {"absent", "due", "fresh"}]
    BY <1>4, <2>1 DEF RefreshWrite, MarkChecked, TypeOK
  <2>4. QED
    BY <1>4, <2>2, <2>3 DEF RefreshWrite, NoPending, AppInstances, TypeOK, registryVars, budgets
<1>5. ASSUME NEW a \in Apps, Elapse(a) PROVE TypeOK'
  BY <1>5 DEF Elapse, TypeOK, apiVars, registryVars, budgets
<1>6. ASSUME NEW a \in Apps, RefreshLookup(a) PROVE TypeOK'
  <2>1. snap[a] \in LiveApps /\ Announce(snap[a]) \in LiveApps
    BY <1>6, AnnounceType DEF RefreshLookup, TypeOK
  <2>2. checked' \in [Apps -> {"absent", "due", "fresh"}] /\ todo' \in SUBSET todo
    BY <1>6 DEF RefreshLookup, MarkChecked, TypeOK
  <2>3. /\ pending' \in [app : Apps \cup {NoRef}, status : AppInstances]
        /\ phase' \in {"refresh", "write"}
        /\ phase' = "write" => pending'.app \in Apps /\ pending'.status \in LiveApps
    BY <1>6, <2>1 DEF RefreshLookup, AppInstances, TypeOK
  <2>4. QED
    BY <1>6, <2>2, <2>3 DEF RefreshLookup, TypeOK, apiVars, registryVars, budgets
<1>7. QED
  BY <1>1, <1>2, <1>3, <1>4, <1>5, <1>6 DEF Daemon

\* Every reachable state is typed: in particular what the daemon and the
\* controller store are apps whose image, available and confirm fields are
\* concrete references, never the pattern of the spec or a reference without
\* its tag (refreshImages, pullAppImage).
THEOREM TypeCorrect == Spec => []TypeOK
<1>1. Init => TypeOK
  <2>1. StartRemote \cup StartLocal \subseteq [Refs -> Digests]
    BY AutoUpgradeAssumption
  <2>2. Init => remote \in [Refs -> Digests] /\ local \in [Refs -> Digests]
    BY <2>1 DEF Init
  <2>3. QED
    BY <2>2 DEF Init, TypeOK, AppInstances, NoPending
<1>2. TypeOK /\ [Next]_vars => TypeOK'
  <2>1. TypeOK /\ UNCHANGED vars => TypeOK'
    BY DEF TypeOK, vars, apiVars, registryVars, daemonVars, budgets
  <2>2. QED
    BY <2>1, EnvironmentType, ReconcileType, DaemonType DEF Next
<1>3. QED
  BY <1>1, <1>2, PTL DEF Spec

-----------------------------------------------------------------------------
(* The daemon's loop *)

\* The daemon never waits in its select without a timer that will fire or an
\* event to receive (StartSync, Sync).
THEOREM Awake == Spec => []DaemonAwake
<1>1. Init => DaemonAwake
  BY DEF Init, DaemonAwake
<1>2. TypeOK /\ DaemonAwake /\ [Next]_vars => DaemonAwake'
  <2> SUFFICES ASSUME queue \in {0, 1}, DaemonAwake, [Next]_vars PROVE DaemonAwake'
    BY DEF TypeOK
  <2> USE DEF DaemonAwake
  <2>1. CASE Environment
    BY <2>1 DEF Environment, User, CreateApp, UpdateApp, DeleteApp, ConfirmUpgrade, PullImage,
         UserFrame, Push, Outage, Recover, ConfigChanged, Restart, SyncFails, daemonVars, Sync
  <2>2. CASE Controller
    BY <2>2 DEF Controller, ReconcileBegin, ReconcileEnd, daemonVars, Sync
  <2>3. CASE Daemon
    BY <2>3 DEF Daemon, TimerFires, OnTimer, OnSyncEvent, SyncBegin, SyncEnd, RefreshWrite,
         Elapse, RefreshLookup, Sync
  <2>4. CASE UNCHANGED vars
    BY <2>4 DEF vars, daemonVars
  <2>5. QED
    BY <2>1, <2>2, <2>3, <2>4 DEF Next
<1>3. QED
  BY <1>1, <1>2, TypeCorrect, PTL DEF Spec

-----------------------------------------------------------------------------
(* Optimistic concurrency *)

\* A copy with the current resourceVersion equals what is stored, and what the
\* daemon is about to write differs from its copy in the announcement only.
CopiesAreCurrent ==
    /\ \A a \in Apps : "controller" \in fresh[a] /\ view[a] # NoView => view[a] = app[a]
    /\ \A a \in Apps : "daemon" \in fresh[a] /\ phase \in {"refresh", "write"} => snap[a] = app[a]
    /\ phase = "write" => Unannounced(pending.status) = Unannounced(snap[pending.app])

LEMMA WriteKeepsOthers ==
    ASSUME TypeOK, NEW a \in Apps, NEW new, Write(a, new), NEW b \in Apps, fresh'[b] # {}
    PROVE  app'[b] = app[b] /\ fresh'[b] = fresh[b]
<1>1. CASE b = a /\ new = app[a]
  BY <1>1 DEF Write, TypeOK
<1>2. CASE b = a /\ new # app[a]
  BY <1>2 DEF Write, TypeOK
<1>3. CASE b # a
  BY <1>3 DEF Write, TypeOK
<1>4. QED
  BY <1>1, <1>2, <1>3

LEMMA AnnounceOnlyAnnounces ==
    ASSUME NEW s \in LiveApps
    PROVE  Unannounced(Announce(s)) = Unannounced(s)
  BY DEF Announce, Unannounced, LiveApps

\* A step that neither moves the daemon nor starts a reconcile keeps the
\* copies current when it stores apps through Write.
LEMMA UserKeepsCopies ==
    ASSUME TypeOK, CopiesAreCurrent, User
    PROVE  CopiesAreCurrent'
<1>1. PICK a \in Apps : \E new : Write(a, new)
  BY DEF User, CreateApp, UpdateApp, DeleteApp, ConfirmUpgrade, PullImage
<1>2. UNCHANGED <<view, phase, snap, pending>>
  BY DEF User, CreateApp, UpdateApp, DeleteApp, ConfirmUpgrade, PullImage, UserFrame
<1>3. \A b \in Apps : fresh'[b] # {} => app'[b] = app[b] /\ fresh'[b] = fresh[b]
  BY <1>1, WriteKeepsOthers
<1>4. QED
  BY <1>2, <1>3 DEF CopiesAreCurrent

LEMMA ControllerKeepsCopies ==
    ASSUME TypeOK, CopiesAreCurrent, Controller
    PROVE  CopiesAreCurrent'
<1>1. PICK a \in Apps : ReconcileBegin(a) \/ ReconcileEnd(a)
  BY DEF Controller
<1>2. CASE ReconcileBegin(a)
  BY <1>2 DEF ReconcileBegin, CopiesAreCurrent, TypeOK, daemonVars
<1>3. CASE ReconcileEnd(a)
  <2>1. UNCHANGED <<phase, snap, pending>> /\ view' = [view EXCEPT ![a] = NoView]
    BY <1>3 DEF ReconcileEnd, daemonVars
  <2>2. \A b \in Apps : fresh'[b] # {} => app'[b] = app[b] /\ fresh'[b] = fresh[b]
    <3>1. CASE Write(a, AfterPull(view[a]))
      BY <3>1, WriteKeepsOthers
    <3>2. CASE UNCHANGED <<app, fresh>>
      BY <3>2
    <3>3. QED
      BY <1>3, <3>1, <3>2 DEF ReconcileEnd, StatusUpdate
  <2>3. QED
    BY <2>1, <2>2 DEF CopiesAreCurrent, TypeOK
<1>4. QED
  BY <1>1, <1>2, <1>3

LEMMA DaemonKeepsCopies ==
    ASSUME TypeOK, CopiesAreCurrent, Daemon
    PROVE  CopiesAreCurrent'
<1>1. CASE TimerFires \/ OnTimer \/ OnSyncEvent \/ SyncEnd \/ (\E a \in Apps : Elapse(a))
  BY <1>1 DEF TimerFires, OnTimer, OnSyncEvent, SyncEnd, Elapse, CopiesAreCurrent, apiVars
<1>2. CASE SyncBegin
  BY <1>2 DEF SyncBegin, CopiesAreCurrent, TypeOK
<1>3. CASE RefreshWrite
  <2>1. UNCHANGED <<view, snap>> /\ phase' = "refresh" /\ phase = "write" /\ pending.app \in Apps
    BY <1>3 DEF RefreshWrite, TypeOK
  <2>2. \A b \in Apps : fresh'[b] # {} => app'[b] = app[b] /\ fresh'[b] = fresh[b]
    <3>1. CASE Write(pending.app, pending.status)
      BY <2>1, <3>1, WriteKeepsOthers
    <3>2. CASE UNCHANGED <<app, fresh>>
      BY <3>2
    <3>3. QED
      BY <1>3, <3>1, <3>2 DEF RefreshWrite, StatusUpdate
  <2>3. QED
    BY <2>1, <2>2 DEF CopiesAreCurrent
<1>4. ASSUME NEW a \in Apps, RefreshLookup(a) PROVE CopiesAreCurrent'
  <2>1. UNCHANGED <<app, fresh, view, snap>> /\ phase = "refresh"
    BY <1>4 DEF RefreshLookup, apiVars
  <2>2. snap[a] \in LiveApps
    BY <1>4 DEF RefreshLookup, TypeOK
  <2>3. phase' = "write" => pending' = [app |-> a, status |-> Announce(snap[a])]
    BY <1>4 DEF RefreshLookup
  <2>4. phase' \in {"refresh", "write"}
    BY <1>4 DEF RefreshLookup
  <2>5. QED
    BY <2>1, <2>2, <2>3, <2>4, AnnounceOnlyAnnounces DEF CopiesAreCurrent
<1>5. QED
  BY <1>1, <1>2, <1>3, <1>4 DEF Daemon

THEOREM CopiesCorrect == Spec => []CopiesAreCurrent
<1>1. Init => CopiesAreCurrent
  BY DEF Init, CopiesAreCurrent
<1>2. TypeOK /\ CopiesAreCurrent /\ [Next]_vars => CopiesAreCurrent'
  <2> SUFFICES ASSUME TypeOK, CopiesAreCurrent, [Next]_vars PROVE CopiesAreCurrent'
    OBVIOUS
  <2>1. CASE UNCHANGED vars
    BY <2>1 DEF CopiesAreCurrent, vars, apiVars, daemonVars
  <2>2. CASE (\E r \in Refs : Push(r)) \/ Outage \/ Recover \/ ConfigChanged
    BY <2>2 DEF Push, Outage, Recover, ConfigChanged, CopiesAreCurrent, apiVars, daemonVars
  <2>3. CASE Restart \/ SyncFails
    BY <2>3 DEF Restart, SyncFails, CopiesAreCurrent, apiVars, TypeOK
  <2>4. QED
    BY <2>1, <2>2, <2>3, UserKeepsCopies, ControllerKeepsCopies, DaemonKeepsCopies
       DEF Next, Environment
<1>3. QED
  BY <1>1, <1>2, TypeCorrect, PTL DEF Spec

LEMMA OnlyPullsChangeImages ==
    ASSUME TypeOK, CopiesAreCurrent, [Next]_vars, NEW a \in Apps,
           app'[a].name \notin {app[a].name, NoRef}
    PROVE  ReconcileEnd(a) /\ "controller" \in fresh[a]
<1>1. NoApp.name = NoRef /\ \A spec \in Specs : NewApp(spec).name = NoRef
  BY DEF NoApp, NewApp, Instance
<1>2. app' # app
  OBVIOUS
<1>3. ~User
  <2>1. ASSUME NEW b \in Apps, NEW new, Write(b, new), new.name \in {app[b].name, NoRef} PROVE FALSE
    BY <2>1 DEF Write, TypeOK
  <2>2. ASSUME NEW b \in Apps, app[b].live
        PROVE  /\ \A spec : [app[b] EXCEPT !.spec = spec].name = app[b].name
               /\ \A i : [app[b] EXCEPT !.available = i].name = app[b].name
    BY <2>2, LiveIsTyped DEF LiveApps
  <2>3. QED
    BY <1>1, <2>1, <2>2 DEF User, CreateApp, UpdateApp, DeleteApp, ConfirmUpgrade, PullImage
<1>4. ~RefreshWrite
  <2> SUFFICES ASSUME RefreshWrite PROVE FALSE
    OBVIOUS
  <2>1. pending.app \in Apps /\ phase = "write" /\ pending.status \in LiveApps
    BY DEF RefreshWrite, TypeOK
  <2>2. "daemon" \in fresh[pending.app] /\ app' = [app EXCEPT ![pending.app] = pending.status]
    BY <1>2 DEF RefreshWrite, StatusUpdate, Write
  <2>3. Unannounced(pending.status) = Unannounced(app[pending.app])
    BY <2>1, <2>2 DEF CopiesAreCurrent
  <2>4. \A s \in AppInstances : Unannounced(s).name = s.name
    BY DEF Unannounced, AppInstances, LiveApps, NoApp, Instance
  <2>5. pending.status.name = app[pending.app].name
    BY <2>1, <2>3, <2>4 DEF TypeOK, AppInstances
  <2>6. QED
    BY <2>1, <2>2, <2>5 DEF TypeOK
<1>5. PICK b \in Apps : ReconcileEnd(b)
  BY <1>2, <1>3, <1>4 DEF Next, Environment, Controller, Daemon, vars, apiVars, Push, Outage, Recover,
     ConfigChanged, Restart, SyncFails, ReconcileBegin, TimerFires, OnTimer, OnSyncEvent, SyncBegin,
     SyncEnd, Elapse, RefreshLookup
<1>6. "controller" \in fresh[b] /\ a = b
  BY <1>2, <1>5 DEF ReconcileEnd, StatusUpdate, Write, TypeOK
<1>7. QED
  BY <1>5, <1>6

\* A pull that is committed is the one the stored app calls for.
THEOREM PullsStored == Spec => PullsWhatIsStored
<1>1. TypeOK /\ CopiesAreCurrent /\ [Next]_vars
      => [\A a \in Apps : app'[a].name \notin {app[a].name, NoRef} => app'[a].name = Target(app[a])]_vars
  <2> SUFFICES ASSUME TypeOK, CopiesAreCurrent, [Next]_vars, NEW a \in Apps,
                      app'[a].name \notin {app[a].name, NoRef}
               PROVE  app'[a].name = Target(app[a])
    OBVIOUS
  <2>1. ReconcileEnd(a) /\ "controller" \in fresh[a]
    BY OnlyPullsChangeImages
  <2>2. view[a] = app[a] /\ view[a] \in LiveApps
    BY <2>1 DEF ReconcileEnd, CopiesAreCurrent, TypeOK
  <2>3. app'[a] = AfterPull(app[a])
    BY <2>1, <2>2 DEF ReconcileEnd, StatusUpdate, Write, TypeOK
  <2>4. AfterPull(app[a]).name \in {app[a].name, Target(app[a])}
    BY <2>2 DEF AfterPull, LiveApps
  <2>5. QED
    BY <2>3, <2>4
<1>2. QED
  BY <1>1, TypeCorrect, CopiesCorrect, PTL DEF Spec, PullsWhatIsStored

\* An announcement that is accepted leaves the rest of the stored app as it is.
THEOREM AnnouncesStored == Spec => AnnouncesForStored
<1>1. TypeOK /\ CopiesAreCurrent /\ [Next]_vars
      => [phase = "write" /\ phase' = "refresh" /\ app' # app
          => Unannounced(pending.status) = Unannounced(app[pending.app])]_vars
  <2> SUFFICES ASSUME TypeOK, CopiesAreCurrent, [Next]_vars,
                      phase = "write", phase' = "refresh", app' # app
               PROVE  Unannounced(pending.status) = Unannounced(app[pending.app])
    OBVIOUS
  <2>1. RefreshWrite
    BY DEF Next, Environment, Controller, Daemon, vars, User, CreateApp, UpdateApp, DeleteApp,
       ConfirmUpgrade, PullImage, UserFrame, daemonVars, Push, Outage, Recover, ConfigChanged, Restart,
       SyncFails, ReconcileBegin, ReconcileEnd, TimerFires, OnTimer, OnSyncEvent, SyncBegin, SyncEnd,
       Elapse, RefreshLookup
  <2>2. pending.app \in Apps /\ "daemon" \in fresh[pending.app]
    BY <2>1 DEF RefreshWrite, StatusUpdate, TypeOK
  <2>3. QED
    BY <2>2 DEF CopiesAreCurrent
<1>2. QED
  BY <1>1, TypeCorrect, CopiesCorrect, PTL DEF Spec, AnnouncesForStored

-----------------------------------------------------------------------------
(* Image allow rules *)

\* An app, or a copy of one, that names no image the rules reject, nor a fixed
\* spec image they reject.
Allowed(s) ==
    /\ s.name \notin Denied /\ s.available \notin Denied /\ s.confirm \notin Denied
    /\ s.live /\ ~IsPattern(s.spec) => s.spec.image \notin Denied

AllCopiesAllowed ==
    /\ \A a \in Apps : Allowed(app[a]) /\ Allowed(snap[a])
    /\ \A a \in Apps : view[a] # NoView => Allowed(view[a])
    /\ phase = "write" => Allowed(pending.status)

LEMMA NoRefAllowed == NoRef \notin Denied
  BY AutoUpgradeAssumption

LEMMA NewInstanceAllowed ==
    /\ Allowed(NoApp)
    /\ \A spec \in Specs : Admissible(spec) => Allowed(NewApp(spec))
  BY NoRefAllowed DEF Allowed, NoApp, NewApp, Instance, Admissible

LEMMA NextImageAllowed ==
    ASSUME NEW s \in LiveApps, Allowed(s)
    PROVE  NextImage(s) \notin Denied
<1>1. CASE Newer(s) # {}
  <2>1. Newer(s) = NewerTags(Current(s).repo, Current(s).tag)
    BY <1>1 DEF Newer
  <2>2. Newer(s) \in SUBSET Tags
    BY <2>1 DEF NewerTags, KnownTags
  <2>3. Max(Newer(s)) \in Newer(s)
    BY <1>1, <2>2, NewestType
  <2>4. QED
    BY <1>1, <2>1, <2>3 DEF NextImage, NewerTags
<1>2. CASE Newer(s) = {} /\ ComparesDigest(s)
  <2>1. CASE s.name # NoRef
    BY <1>2, <2>1 DEF NextImage, Current, Allowed
  <2>2. CASE s.name = NoRef /\ ~IsPattern(s.spec)
    BY <1>2, <2>2 DEF NextImage, Current, Allowed, LiveApps
  <2>3. CASE s.name = NoRef /\ IsPattern(s.spec)
    BY <1>2, <2>3 DEF ComparesDigest, Current, Ref
  <2>4. QED
    BY <2>1, <2>2, <2>3
<1>3. CASE Newer(s) = {} /\ ~ComparesDigest(s)
  BY <1>3, NoRefAllowed DEF NextImage
<1>4. QED
  BY <1>1, <1>2, <1>3

LEMMA AnnounceAllowed ==
    ASSUME NEW s \in LiveApps, Allowed(s)
    PROVE  Allowed(Announce(s))
  BY NextImageAllowed, NoRefAllowed DEF Announce, Allowed, LiveApps

LEMMA AfterPullAllowed ==
    ASSUME NEW s \in LiveApps, Allowed(s)
    PROVE  Allowed(AfterPull(s))
<1>1. IsPattern(s.spec) => On(s.spec)
  BY DEF IsPattern, On, Mode
<1>2. Target(s) \notin Denied
  <2>1. CASE On(s.spec)
    BY <2>1, NoRefAllowed DEF Target, Allowed, LiveApps
  <2>2. CASE ~On(s.spec)
    BY <1>1, <2>2, NoRefAllowed DEF Target, Allowed, LiveApps
  <2>3. QED
    BY <2>1, <2>2
<1>3. QED
  BY <1>2, NoRefAllowed DEF AfterPull, Allowed, LiveApps

LEMMA WriteAllowed ==
    ASSUME TypeOK, AllCopiesAllowed, NEW a \in Apps, NEW new, Allowed(new), Write(a, new)
    PROVE  \A b \in Apps : Allowed(app'[b])
  BY DEF Write, AllCopiesAllowed, TypeOK

LEMMA UserKeepsAllowed ==
    ASSUME TypeOK, AllCopiesAllowed, User
    PROVE  AllCopiesAllowed'
<1>1. UNCHANGED <<view, phase, snap, pending>>
  BY DEF User, CreateApp, UpdateApp, DeleteApp, ConfirmUpgrade, PullImage, UserFrame
<1>2. \A b \in Apps : Allowed(app'[b])
  <2>1. PICK a \in Apps : \/ \E spec \in Specs : CreateApp(a, spec) \/ UpdateApp(a, spec)
                          \/ DeleteApp(a) \/ ConfirmUpgrade(a) \/ PullImage(a)
    BY DEF User
  <2>2. Allowed(app[a]) /\ (app[a].live => app[a] \in LiveApps)
    BY LiveIsTyped DEF AllCopiesAllowed
  <2>3. ASSUME NEW spec \in Specs, CreateApp(a, spec) PROVE \A b \in Apps : Allowed(app'[b])
    BY <2>3, NewInstanceAllowed, WriteAllowed DEF CreateApp
  <2>4. ASSUME NEW spec \in Specs, UpdateApp(a, spec) PROVE \A b \in Apps : Allowed(app'[b])
    <3>1. Allowed([app[a] EXCEPT !.spec = spec])
      <4>1. app[a] \in LiveApps /\ Admissible(spec)
        BY <2>2, <2>4 DEF UpdateApp
      <4>2. ~IsPattern(spec) => spec.image \notin Denied
        BY <4>1 DEF Admissible
      <4>3. QED
        BY <2>2, <4>1, <4>2 DEF Allowed, LiveApps
    <3>2. QED
      BY <2>4, <3>1, WriteAllowed DEF UpdateApp
  <2>5. CASE DeleteApp(a)
    BY <2>5, NewInstanceAllowed, WriteAllowed DEF DeleteApp
  <2>6. CASE ConfirmUpgrade(a)
    <3>1. Allowed([app[a] EXCEPT !.available = app[a].confirm])
      BY <2>2, <2>6 DEF ConfirmUpgrade, Allowed, LiveApps
    <3>2. QED
      BY <2>6, <3>1, WriteAllowed DEF ConfirmUpgrade
  <2>7. CASE PullImage(a)
    <3> DEFINE image == IF ~IsPattern(app[a].spec) THEN app[a].spec.image
                        ELSE IF app[a].name # NoRef THEN app[a].name
                        ELSE app[a].available
    <3>1. Write(a, [app[a] EXCEPT !.available = image]) /\ app[a] \in LiveApps
      BY <2>2, <2>7 DEF PullImage
    <3>2. image \notin Denied
      BY <2>2, <3>1 DEF Allowed, LiveApps
    <3> HIDE DEF image
    <3>3. Allowed([app[a] EXCEPT !.available = image])
      BY <2>2, <3>1, <3>2 DEF Allowed, LiveApps
    <3>4. QED
      BY <3>1, <3>3, WriteAllowed
  <2>8. QED
    BY <2>1, <2>3, <2>4, <2>5, <2>6, <2>7
<1>3. QED
  BY <1>1, <1>2 DEF AllCopiesAllowed

LEMMA StepKeepsAllowed ==
    ASSUME TypeOK, AllCopiesAllowed, Controller \/ Daemon
    PROVE  AllCopiesAllowed'
<1>1. ASSUME NEW a \in Apps, ReconcileBegin(a) PROVE AllCopiesAllowed'
  BY <1>1 DEF ReconcileBegin, AllCopiesAllowed, TypeOK, daemonVars
<1>2. ASSUME NEW a \in Apps, ReconcileEnd(a) PROVE AllCopiesAllowed'
  <2>1. Allowed(AfterPull(view[a]))
    BY <1>2, AfterPullAllowed DEF ReconcileEnd, TypeOK, AllCopiesAllowed
  <2>2. \A b \in Apps : Allowed(app'[b])
    BY <1>2, <2>1, WriteAllowed DEF ReconcileEnd, StatusUpdate, AllCopiesAllowed
  <2>3. QED
    BY <1>2, <2>2 DEF ReconcileEnd, AllCopiesAllowed, TypeOK, daemonVars
<1>3. CASE TimerFires \/ OnTimer \/ OnSyncEvent \/ (\E a \in Apps : Elapse(a))
  BY <1>3 DEF TimerFires, OnTimer, OnSyncEvent, Elapse, AllCopiesAllowed, apiVars
<1>4. CASE SyncBegin \/ SyncEnd
  BY <1>4, NewInstanceAllowed DEF SyncBegin, SyncEnd, AllCopiesAllowed, apiVars
<1>5. CASE RefreshWrite
  <2>1. Allowed(pending.status) /\ pending.app \in Apps
    BY <1>5 DEF RefreshWrite, TypeOK, AllCopiesAllowed
  <2>2. \A b \in Apps : Allowed(app'[b])
    BY <1>5, <2>1, WriteAllowed DEF RefreshWrite, StatusUpdate, AllCopiesAllowed
  <2>3. QED
    BY <1>5, <2>2 DEF RefreshWrite, AllCopiesAllowed
<1>6. ASSUME NEW a \in Apps, RefreshLookup(a) PROVE AllCopiesAllowed'
  <2>1. Allowed(Announce(snap[a]))
    BY <1>6, AnnounceAllowed DEF RefreshLookup, TypeOK, AllCopiesAllowed
  <2>2. QED
    BY <1>6, <2>1 DEF RefreshLookup, AllCopiesAllowed, apiVars
<1>7. QED
  BY <1>1, <1>2, <1>3, <1>4, <1>5, <1>6 DEF Controller, Daemon

\* No app ever runs or is offered an image that the ImageAllowRules reject,
\* whichever of the user, the daemon and the controller chose it.
THEOREM ImagesAllowed == Spec => []OnlyAllowedImages
<1>1. Init => AllCopiesAllowed
  BY NewInstanceAllowed DEF Init, AllCopiesAllowed
<1>2. TypeOK /\ AllCopiesAllowed /\ [Next]_vars => AllCopiesAllowed'
  <2> SUFFICES ASSUME TypeOK, AllCopiesAllowed, [Next]_vars PROVE AllCopiesAllowed'
    OBVIOUS
  <2>1. CASE UNCHANGED vars
    BY <2>1 DEF AllCopiesAllowed, vars, apiVars, daemonVars
  <2>2. CASE (\E r \in Refs : Push(r)) \/ Outage \/ Recover \/ ConfigChanged
    BY <2>2 DEF Push, Outage, Recover, ConfigChanged, AllCopiesAllowed, apiVars, daemonVars
  <2>3. CASE Restart \/ SyncFails
    BY <2>3, NewInstanceAllowed DEF Restart, SyncFails, AllCopiesAllowed, apiVars
  <2>4. QED
    BY <2>1, <2>2, <2>3, UserKeepsAllowed, StepKeepsAllowed DEF Next, Environment
<1>3. AllCopiesAllowed => OnlyAllowedImages
  BY DEF AllCopiesAllowed, Allowed, OnlyAllowedImages
<1>4. QED
  BY <1>1, <1>2, <1>3, TypeCorrect, PTL DEF Spec

-----------------------------------------------------------------------------
(* Upgrades that nobody asked for.  The invariant follows an image from the *)
(* daemon's lookup, through the announcement, to the pull: it was asked for,*)
(* or it follows the image the app has.                                     *)

Later(n, i) ==
    i.repo = n.repo /\ {n.tag, i.tag} \subseteq Matching => i.tag >= n.tag

\* In notify mode nothing is announced as available that is not among A.
Consented(s, A) ==
    Mode(s.spec) = "notify" /\ s.available # NoRef => s.available \in A

\* An image on its way to an app that has one is among A or a later one.
Forward(s, A) ==
    s.name # NoRef =>
        \A i \in {s.available, s.confirm} \ {NoRef} : i \in A \/ Later(s.name, i)

AnnouncedInOrder ==
    /\ \A a \in Apps : Consented(app[a], asked[a]) /\ Forward(app[a], asked[a])
    /\ phase = "write" => /\ Consented(pending.status, {})
                          /\ Forward(pending.status, {})

LEMMA TagsAreOrdered ==
    Matching \subseteq Tags /\ \A t, u \in Tags : t >= t /\ (t > u => t >= u)
<1>1. Tags \subseteq Nat /\ Matching \subseteq Tags
  BY AutoUpgradeAssumption
<1>2. QED
  BY <1>1

LEMMA NewestIsLater ==
    ASSUME NEW s \in LiveApps, s.name # NoRef
    PROVE  Later(s.name, NextImage(s))
<1>1. Current(s) = s.name /\ s.name \in Refs
  BY DEF Current, LiveApps
<1>2. CASE Newer(s) # {}
  <2>1. Newer(s) = NewerTags(s.name.repo, s.name.tag)
    BY <1>1, <1>2 DEF Newer
  <2>2. Newer(s) \in SUBSET Tags
    BY <2>1 DEF NewerTags, KnownTags
  <2>3. Max(Newer(s)) \in NewerTags(s.name.repo, s.name.tag)
    BY <1>2, <2>1, <2>2, NewestType
  <2>4. /\ NextImage(s).repo = s.name.repo
        /\ NextImage(s).tag \in Tags
        /\ s.name.tag \in Matching => NextImage(s).tag > s.name.tag
    BY <1>1, <1>2, <2>3 DEF NextImage, Ref, NewerTags, KnownTags
  <2>5. QED
    BY <1>1, <2>4, TagsAreOrdered DEF Later, Refs
<1>3. CASE Newer(s) = {}
  <2>1. ComparesDigest(s)
    BY <1>1, AutoUpgradeAssumption DEF ComparesDigest, Refs
  <2>2. NextImage(s) = s.name
    BY <1>1, <1>3, <2>1 DEF NextImage
  <2>3. QED
    BY <1>1, <2>2, TagsAreOrdered DEF Later, Refs
<1>4. QED
  BY <1>2, <1>3

\* What the daemon changes of an app it announces.
LEMMA AnnounceInOrder ==
    ASSUME NEW s \in LiveApps, Announce(s) # s
    PROVE  Consented(Announce(s), {}) /\ Forward(Announce(s), {})
<1>1. Announce(s).spec = s.spec /\ Announce(s).name = s.name
  BY DEF Announce, LiveApps
<1>2. CASE Mode(s.spec) = "enabled"
  <2>1. Announce(s).available = NextImage(s) /\ Announce(s).confirm = NoRef
    BY <1>2 DEF Announce, LiveApps
  <2>2. QED
    BY <1>1, <1>2, <2>1, NewestIsLater DEF Consented, Forward
<1>3. CASE Mode(s.spec) # "enabled"
  <2>1. Announce(s).confirm = NextImage(s) /\ Announce(s).available = NoRef
    BY <1>3 DEF Announce, LiveApps
  <2>2. QED
    BY <1>1, <2>1, NewestIsLater DEF Consented, Forward
<1>4. QED
  BY <1>2, <1>3

LEMMA InstanceInOrder ==
    /\ \A A : Consented(NoApp, A) /\ Forward(NoApp, A)
    /\ \A A, spec : Consented(NewApp(spec), A) /\ Forward(NewApp(spec), A)
  BY DEF Consented, Forward, NoApp, NewApp, Instance

\* One app is stored, and what the others were asked for stays.
LEMMA WriteInOrder ==
    ASSUME TypeOK, AnnouncedInOrder, NEW a \in Apps, NEW new, Write(a, new),
           NEW A, asked' = [asked EXCEPT ![a] = A], Consented(new, A), Forward(new, A),
           phase' # "write" \/ UNCHANGED <<phase, pending>>
    PROVE  AnnouncedInOrder'
  BY DEF AnnouncedInOrder, Write, TypeOK

LEMMA UserInOrder ==
    ASSUME TypeOK, AnnouncedInOrder, User
    PROVE  AnnouncedInOrder'
<1>1. PICK a \in Apps : \/ \E spec \in Specs : CreateApp(a, spec) \/ UpdateApp(a, spec)
                        \/ DeleteApp(a) \/ ConfirmUpgrade(a) \/ PullImage(a)
  BY DEF User
<1>2. /\ Consented(app[a], asked[a]) /\ Forward(app[a], asked[a])
      /\ app[a].live => app[a] \in LiveApps
  BY LiveIsTyped DEF AnnouncedInOrder
<1>3. ASSUME NEW spec \in Specs, CreateApp(a, spec) PROVE AnnouncedInOrder'
  BY <1>3, InstanceInOrder, WriteInOrder DEF CreateApp, UserFrame
<1>4. ASSUME NEW spec \in Specs, UpdateApp(a, spec) PROVE AnnouncedInOrder'
  <2> DEFINE new == [app[a] EXCEPT !.spec = spec]
  <2>1. new.available = app[a].available /\ new.confirm = app[a].confirm
        /\ new.name = app[a].name
    BY <1>2, <1>4 DEF UpdateApp, LiveApps
  <2>2. Write(a, new) /\ asked' = [asked EXCEPT ![a] = Wanted(a)]
        /\ UNCHANGED <<phase, pending>>
    BY <1>4 DEF UpdateApp, UserFrame
  <2> HIDE DEF new
  <2>3. Consented(new, Wanted(a)) /\ Forward(new, Wanted(a))
    BY <1>2, <2>1 DEF Consented, Forward, Wanted
  <2>4. QED
    BY <2>2, <2>3, WriteInOrder
<1>5. CASE DeleteApp(a)
  BY <1>5, InstanceInOrder, WriteInOrder DEF DeleteApp, UserFrame
<1>6. ASSUME NEW image, app[a].live, Write(a, [app[a] EXCEPT !.available = image]),
             asked' = [asked EXCEPT ![a] = @ \cup ({image} \ {NoRef})], UserFrame
      PROVE  AnnouncedInOrder'
  <2> DEFINE new == [app[a] EXCEPT !.available = image]
             A == asked[a] \cup ({image} \ {NoRef})
  <2>1. new.available = image /\ new.confirm = app[a].confirm
        /\ new.name = app[a].name /\ new.spec = app[a].spec
    BY <1>2, <1>6 DEF LiveApps
  <2>2. Write(a, new) /\ asked' = [asked EXCEPT ![a] = A] /\ UNCHANGED <<phase, pending>>
    BY <1>6 DEF UserFrame
  <2> HIDE DEF new
  <2>3. Consented(new, A) /\ Forward(new, A)
    BY <1>2, <2>1 DEF Consented, Forward
  <2>4. QED
    BY <2>2, <2>3, WriteInOrder
<1>7. CASE ConfirmUpgrade(a)
  BY <1>6, <1>7 DEF ConfirmUpgrade
<1>8. CASE PullImage(a)
  BY <1>6, <1>8 DEF PullImage
<1>9. QED
  BY <1>1, <1>3, <1>4, <1>5, <1>7, <1>8

LEMMA AfterPullFields ==
    ASSUME NEW s \in LiveApps
    PROVE  /\ AfterPull(s).spec = s.spec
           /\ IF Pulls(s)
              THEN /\ AfterPull(s).available = NoRef /\ AfterPull(s).confirm = NoRef
                   /\ AfterPull(s).name = Target(s)
              ELSE /\ AfterPull(s).available = s.available /\ AfterPull(s).confirm = s.confirm
                   /\ AfterPull(s).name = s.name /\ AfterPull(s).digest = s.digest
  BY DEF AfterPull, Pulls, LiveApps

LEMMA StepInOrder ==
    ASSUME TypeOK, CopiesAreCurrent, AnnouncedInOrder, Controller \/ Daemon
    PROVE  AnnouncedInOrder'
<1>1. ASSUME NEW a \in Apps, ReconcileEnd(a) PROVE AnnouncedInOrder'
  <2>1. view[a] \in LiveApps /\ UNCHANGED <<phase, pending>>
    BY <1>1 DEF ReconcileEnd, TypeOK, daemonVars
  <2>2. CASE "controller" \notin fresh[a]
    <3>1. app' = app /\ asked' = asked
      BY <1>1, <2>2 DEF ReconcileEnd, StatusUpdate, TypeOK
    <3>2. QED
      BY <2>1, <3>1 DEF AnnouncedInOrder
  <2>3. CASE "controller" \in fresh[a]
    <3>1. Write(a, AfterPull(view[a])) /\ view[a] = app[a]
      BY <1>1, <2>1, <2>3 DEF ReconcileEnd, StatusUpdate, CopiesAreCurrent
    <3> DEFINE A == IF Pulls(view[a]) THEN asked[a] \ {Target(view[a])} ELSE asked[a]
    <3>2. asked' = [asked EXCEPT ![a] = A]
      BY <1>1, <2>3 DEF ReconcileEnd
    <3>3. Consented(AfterPull(view[a]), A) /\ Forward(AfterPull(view[a]), A)
      BY <2>1, <3>1, AfterPullFields DEF AnnouncedInOrder, Consented, Forward
    <3> HIDE DEF A
    <3>4. QED
      BY <2>1, <3>1, <3>2, <3>3, WriteInOrder
  <2>4. QED
    BY <2>2, <2>3
<1>2. CASE RefreshWrite
  <2>1. /\ phase = "write" /\ pending.app \in Apps /\ phase' = "refresh" /\ asked' = asked
        /\ StatusUpdate("daemon", pending.app, pending.status)
    BY <1>2 DEF RefreshWrite, TypeOK
  <2>2. CASE Write(pending.app, pending.status)
    <3>1. /\ Consented(pending.status, asked[pending.app])
          /\ Forward(pending.status, asked[pending.app])
      BY <2>1 DEF AnnouncedInOrder, Consented, Forward
    <3>2. asked' = [asked EXCEPT ![pending.app] = asked[pending.app]]
      BY <2>1 DEF TypeOK
    <3>3. QED
      BY <2>1, <2>2, <3>1, <3>2, WriteInOrder
  <2>3. CASE UNCHANGED app
    BY <2>1, <2>3 DEF AnnouncedInOrder
  <2>4. QED
    BY <2>1, <2>2, <2>3 DEF StatusUpdate
<1>3. ASSUME NEW a \in Apps, RefreshLookup(a) PROVE AnnouncedInOrder'
  <2>1. snap[a] \in LiveApps /\ UNCHANGED <<app, asked>>
    BY <1>3 DEF RefreshLookup, TypeOK, apiVars
  <2>2. phase' = "write" => Announce(snap[a]) # snap[a]
                            /\ pending'.status = Announce(snap[a])
    BY <1>3 DEF RefreshLookup
  <2>3. QED
    BY <2>1, <2>2, AnnounceInOrder DEF AnnouncedInOrder
<1>4. CASE \/ TimerFires \/ OnTimer \/ OnSyncEvent \/ SyncBegin \/ SyncEnd
           \/ \E a \in Apps : Elapse(a) \/ ReconcileBegin(a)
  BY <1>4 DEF TimerFires, OnTimer, OnSyncEvent, SyncBegin, SyncEnd, Elapse, ReconcileBegin,
     AnnouncedInOrder, apiVars, daemonVars
<1>5. QED
  BY <1>1, <1>2, <1>3, <1>4 DEF Controller, Daemon

LEMMA InOrder == Spec => []AnnouncedInOrder
<1>1. Init => AnnouncedInOrder
  BY InstanceInOrder DEF Init, AnnouncedInOrder
<1>2. TypeOK /\ CopiesAreCurrent /\ AnnouncedInOrder /\ [Next]_vars => AnnouncedInOrder'
  <2> SUFFICES ASSUME TypeOK, CopiesAreCurrent, AnnouncedInOrder, [Next]_vars
               PROVE  AnnouncedInOrder'
    OBVIOUS
  <2>1. CASE \/ UNCHANGED vars \/ (\E r \in Refs : Push(r))
             \/ Outage \/ Recover \/ ConfigChanged \/ Restart \/ SyncFails
    BY <2>1 DEF Push, Outage, Recover, ConfigChanged, Restart, SyncFails, AnnouncedInOrder,
       vars, apiVars, daemonVars
  <2>2. QED
    BY <2>1, UserInOrder, StepInOrder DEF Next, Environment
<1>3. QED
  BY <1>1, <1>2, TypeCorrect, CopiesCorrect, PTL DEF Spec

\* A live app changes what it runs only when a pull is committed.
LEMMA OnlyPullsChangeContent ==
    ASSUME TypeOK, CopiesAreCurrent, [Next]_vars, NEW a \in Apps,
           app[a].live, app'[a].live,
           <<app'[a].name, app'[a].digest>> # <<app[a].name, app[a].digest>>
    PROVE  /\ app[a] \in LiveApps
           /\ Pulls(app[a]) /\ app'[a].name = Target(app[a])
<1>1. ~NoApp.live
  BY NoAppFields
<1>2. app' # app
  OBVIOUS
<1>3. ~User
  <2>1. ASSUME NEW b \in Apps, NEW new, Write(b, new),
               \/ ~new.live \/ ~app[b].live
               \/ new.name = app[b].name /\ new.digest = app[b].digest
        PROVE  FALSE
    BY <2>1 DEF Write, TypeOK
  <2>2. ASSUME NEW b \in Apps, app[b].live
        PROVE  /\ \A spec : LET s == [app[b] EXCEPT !.spec = spec] IN
                              s.name = app[b].name /\ s.digest = app[b].digest
               /\ \A i : LET s == [app[b] EXCEPT !.available = i] IN
                              s.name = app[b].name /\ s.digest = app[b].digest
    BY <2>2, LiveIsTyped DEF LiveApps
  <2>3. QED
    BY <1>1, <2>1, <2>2 DEF User, CreateApp, UpdateApp, DeleteApp, ConfirmUpgrade, PullImage
<1>4. ~RefreshWrite
  <2> SUFFICES ASSUME RefreshWrite PROVE FALSE
    OBVIOUS
  <2>1. pending.app \in Apps /\ phase = "write" /\ pending.status \in LiveApps
    BY DEF RefreshWrite, TypeOK
  <2>2. "daemon" \in fresh[pending.app] /\ app' = [app EXCEPT ![pending.app] = pending.status]
    BY <1>2 DEF RefreshWrite, StatusUpdate, Write
  <2>3. Unannounced(pending.status) = Unannounced(app[pending.app])
    BY <2>1, <2>2 DEF CopiesAreCurrent
  <2>4. \A s \in AppInstances : /\ Unannounced(s).name = s.name
                                /\ Unannounced(s).digest = s.digest
    BY DEF Unannounced, AppInstances, LiveApps, NoApp, Instance
  <2>5. pending.status.name = app[pending.app].name
        /\ pending.status.digest = app[pending.app].digest
    BY <2>1, <2>3, <2>4 DEF TypeOK, AppInstances
  <2>6. QED
    BY <2>1, <2>2, <2>5 DEF TypeOK
<1>5. PICK b \in Apps : ReconcileEnd(b)
  BY <1>2, <1>3, <1>4 DEF Next, Environment, Controller, Daemon, vars, apiVars, Push, Outage,
     Recover, ConfigChanged, Restart, SyncFails, ReconcileBegin, TimerFires, OnTimer,
     OnSyncEvent, SyncBegin, SyncEnd, Elapse, RefreshLookup
<1>6. "controller" \in fresh[b] /\ a = b
  BY <1>2, <1>5 DEF ReconcileEnd, StatusUpdate, Write, TypeOK
<1>7. view[a] = app[a] /\ view[a] \in LiveApps
  BY <1>5, <1>6 DEF ReconcileEnd, CopiesAreCurrent, TypeOK
<1>8. app'[a] = AfterPull(app[a])
  BY <1>5, <1>6, <1>7 DEF ReconcileEnd, StatusUpdate, Write, TypeOK
<1>9. QED
  BY <1>7, <1>8, AfterPullFields

\* In notify mode no interleaving of daemon, controller and edits gives an app
\* an image that the user did not ask for.
THEOREM ConsentIsNeeded == Spec => NotifyNeedsConsent
<1>1. ASSUME TypeOK, CopiesAreCurrent, AnnouncedInOrder, [Next]_vars, NEW a \in Apps,
             app[a].live, app'[a].live, Mode(app[a].spec) = "notify", app[a].name # NoRef,
             <<app'[a].name, app'[a].digest>> # <<app[a].name, app[a].digest>>
      PROVE  \/ app'[a].name \in asked[a]
             \/ app'[a].name = app[a].spec.image /\ app[a].name # app[a].spec.image
  <2>1. Pulls(app[a]) /\ app'[a].name = Target(app[a])
    BY <1>1, OnlyPullsChangeContent
  <2>2. On(app[a].spec) /\ Target(app[a]) # NoRef
    BY <1>1, <2>1 DEF On, Pulls
  <2>3. CASE app[a].available # NoRef
    BY <1>1, <2>1, <2>2, <2>3 DEF Target, AnnouncedInOrder, Consented
  <2>4. CASE app[a].available = NoRef
    BY <1>1, <2>1, <2>2, <2>4 DEF Target
  <2>5. QED
    BY <2>3, <2>4
<1>2. TypeOK /\ CopiesAreCurrent /\ AnnouncedInOrder /\ [Next]_vars =>
      [\A a \in Apps :
          /\ app[a].live /\ app'[a].live
          /\ Mode(app[a].spec) = "notify"
          /\ app[a].name # NoRef
          /\ <<app'[a].name, app'[a].digest>> # <<app[a].name, app[a].digest>>
          => \/ app'[a].name \in asked[a]
             \/ app'[a].name = app[a].spec.image /\ app[a].name # app[a].spec.image]_vars
  BY <1>1
<1>3. QED
  BY <1>2, TypeCorrect, CopiesCorrect, InOrder, PTL DEF Spec, NotifyNeedsConsent

\* No image older than the one an app has is pulled, unless the user named it:
\* whatever the registries add or lose while the daemon looks, announces and
\* the controller pulls.
THEOREM OnlyForward == Spec => NoDowngrade
<1>1. ASSUME TypeOK, CopiesAreCurrent, AnnouncedInOrder, [Next]_vars, NEW a \in Apps,
             app[a].live, app'[a].live, app[a].name # NoRef,
             app'[a].name \notin asked[a] \cup {NoRef, app[a].spec.image},
             app'[a].name.repo = app[a].name.repo,
             {app[a].name.tag, app'[a].name.tag} \subseteq Matching
      PROVE  app'[a].name.tag >= app[a].name.tag
  <2>1. CASE app'[a].name = app[a].name
    BY <1>1, <2>1, TagsAreOrdered
  <2>2. CASE app'[a].name # app[a].name
    <3>1. app'[a].name = Target(app[a])
      BY <1>1, <2>2, OnlyPullsChangeContent
    <3>2. On(app[a].spec) /\ app'[a].name = app[a].available
      BY <1>1, <3>1 DEF Target
    <3>3. QED
      BY <1>1, <3>2 DEF AnnouncedInOrder, Forward, Later
  <2>3. QED
    BY <2>1, <2>2
<1>2. TypeOK /\ CopiesAreCurrent /\ AnnouncedInOrder /\ [Next]_vars =>
      [\A a \in Apps :
          /\ app[a].live /\ app'[a].live
          /\ app[a].name # NoRef /\ app'[a].name \notin asked[a] \cup {NoRef, app[a].spec.image}
          /\ app'[a].name.repo = app[a].name.repo
          /\ {app[a].name.tag, app'[a].name.tag} \subseteq Matching
          => app'[a].name.tag >= app[a].name.tag]_vars
  BY <1>1
<1>3. QED
  BY <1>2, TypeCorrect, CopiesCorrect, InOrder, PTL DEF Spec, NoDowngrade
=============================================================================
