# Verification of the Acorn runtime

Acorn runs applications described by an Acornfile on Kubernetes.  This directory
models the parts of the runtime where several actors work on the same state, checks
them with TLC, and proves what matters most with TLAPS.

The program is a set of Kubernetes controllers (`pkg/controller`, on the *baaah*
router), an aggregated API server (`pkg/server`), background daemons
(`pkg/autoupgrade`, `pkg/dns`), and a client with its CLI (`pkg/client`, `pkg/cli`,
`pkg/dev`).  Nearly all of its state is in the Kubernetes API server.  What makes it
hard is always the same: a *pass* of a controller reads an object from a cache that
may lag, runs a chain of handlers on a copy, applies objects one by one, and writes
the status under optimistic concurrency; users, other controllers, daemons, pods and
restarts come in between any two of those steps.

## 1. Inventory

| Component | State | Operations | Meets | What makes it correct |
|---|---|---|---|---|
| **Auto-upgrade, image pull** `pkg/autoupgrade`, `appdefinition/pullappimage.go`, `apps/confirmupgrade.go`, `apps/pull.go` | `Status.AppImage`, `AvailableAppImage`, `ConfirmUpgradeAppImage`; the daemon's map of check times, timer and event channel | sync, lookup of tags and digests, announce, pull, confirm, pull now | daemon, controller and user write one AppInstance; registries | upgrades arrive; never for an outdated app, never backwards, never a rejected image, never without consent in notify mode |
| **App lifecycle** `pkg/jobs`, `controller/jobs`, `controller/appstatus`, `appdefinition/{jobs,depends,generation}.go` | spec generation, observed generation, status of jobs and containers, ready, finalizer; Jobs and Deployments | pass over an app, events of jobs, dependency gating, destroy finalizer, ignorecleanup | job pods, Deployments, cache, users | order of dependencies at every generation; delete jobs before the app goes; ready is about the present; stops and deletions end |
| **Quota** `controller/quota`, `admin/v1/resources.go` | QuotaRequest, its allocation, the app's condition | ensure request, wait for allocation | an allocator outside of this program, the app's pass | nothing runs without a grant; a grant, or a refusal, takes effect |
| **Projects** `pkg/project`, `controller/namespace/gc.go` | ProjectInstance, its finalizer, its namespace, apps and nested apps | create namespace, remove all apps, follow a deleted namespace | app passes that create nested apps, cache, users | apps go first, parents before nested ones; a deleted project goes |
| **Dev sessions** `controller/devsession`, `pkg/dev`, `client/app.go` | DevSession with an override and an expiry | create, renew, take over, release, expire; overlay around each handler | every handler of the app's pass, several clients | the app runs the override while there is one and its own spec afterwards; sessions end |
| **Stream connections** `pkg/k8schannel` | buffer and condition of each stream, the error of the connection | push, read, close | one goroutine per websocket, one reader per stream | no byte lost, mixed or repeated; every byte and the end reach the reader |
| **Images and tags** `controller/images`, `apigroups/acorn/images`, `client/image.go` | ImageInstances and their names | record, tag, pull, untag, delete | app passes, requests of clients | one change at a time and none undone by a writer that read before it; a name is on one image; an image in use stays |
| **Secrets** `pkg/secrets`, `controller/secrets` | sources in the project, copies in the app's namespace | generate, bind, fill in templates, hand out | job output, cache, users | a random value never changes; what the app has agrees with the sources |
| **Job output** `controller/jobs/output.go` | the output secret of a job | read from the helper, store, shut the helper down | Jobs that are replaced, orphaned pods | output belongs to the run it came from |
| **AcornDNS** `pkg/dns`, `controller/config/dns.go`, `controller/ingress/dns.go`, `controller/secrets/dns.go` | domain and token, DNS ingress, hash of its records | lease, purge, create records, renew | remote service, three handlers and a daemon | the domain stays; its record follows the address |
| **TLS** `controller/tls` | account, certificates, locks per domain | order, renew, store | goroutines that outlive their handler | a certificate for the domain comes in the end |
| **Volumes** `appdefinition/volume.go`, `controller/pvc` | claims, labels and reclaim policy of volumes | render, bind, mark, release | the volume controller, two apps on one volume | data is retained; no volume is taken from who has it; nobody is stuck |
| **Events** `pkg/event`, `controller/eventinstance` | EventInstances | record, expire | recorder and controller | a fresh event is not deleted |
| **Builds** `pkg/buildserver`, `pkg/buildclient`, `controller/builder` | builders, sessions, messages | build, message pump | websocket, context | no pump blocks for ever |
| **Logs** `pkg/log` | watched pods | merge | watches, context | ends |
| Services, ports, ingress, network policy; rendering; defaults, compute classes, scheduling; image allow rules, permissions; API translation; CLI; Acornfile; credentials; install; proxy | none of their own | pure functions, one-shot scripts, input and output | | the value they return |

`PROJECT.json` lists every component with its sources and what is left out of it, and
under `hazards` the lines where the behaviours above are hard to test.

## 2. Plan

Ordered by what would hurt most if it were wrong.

1. `AutoUpgrade`, `AppLifecycle`, `Quota`, `Project`, `DevSession`, `Channel`, each with
   its checks and proofs.  *Done.*
2. `Images`, and the abstract `Catalog` it implements.  *Done.*
3. `Secrets` (with the output of jobs), `AcornDNS` (with the certificates), `Volumes`.
   *Done.*
4. `Events`: recorder and expiry with preconditions on uid and resourceVersion; the message
   pump of `pkg/buildclient` and the merge of `pkg/log`.
5. Pure algorithms against a reference definition: `FindLatest` (patterns and the order
   of tags), matching of ports, defaults and validation of compute classes,
   `Add`/`Remove`/`Fits` of resources.
6. Further abstract specifications: an *upgrade register* that `AutoUpgrade` implements,
   and the destroy protocol of `AppLifecycle`, shared with `Project`.
7. Proofs of the invariants and action properties of every module, and of the refinement
   of `Catalog`.  *Done.*

## 3. What every model assumes of its surroundings

* *API server.*  A write with an outdated resourceVersion is refused.  Copies carry a flag
  (`fresh`) that every accepted write clears, so that no version numbers have to be
  counted.
* *Router (baaah, external).*  One pass at a time per object; handlers run in the order of
  `pkg/controller/routes.go` on one copy; then the collected objects are applied, in any
  order, each in its own step; then the status is written if it changed.  An error ends the
  pass and it is retried.
* *Caches.*  A copy is replaced by the current version some time later; versions can be
  skipped and never go back.  The cache is a variable of `AppLifecycle`, `Quota`, `Project`,
  `Secrets` and, for the DNS secret, `AcornDNS`: a handler may not even see what it wrote
  itself.  In `AutoUpgrade`, `Images` and `Volumes` reading and writing are separate steps with
  anything in between, so a lagging copy is one that was read earlier; two reads of one step,
  the look at claims in `ReleaseVolume` for one, are current.  `DevSession` takes its caches to
  be up to date.  So does `AcornDNS` for two objects.  A handler that saw an old DNS ingress
  would ask for a record once more, and its hash would be refused (`SaveHash` compares); one
  that saw an old TLS secret would order a certificate that is not stored (`Stores`) or that
  takes the place of one just like it.
* *Restarts.*  A restart drops what is in memory, at any point.
* *Budgets.*  Edits, pushes, faults and generations are counted and bounded by a constant
  (`MaxEdits`, `MaxFaults`, `MaxGen`, ...).  The bounds only bound: no guard of the program
  is expressed by one, and the proofs hold for all of them.

## 4. Modules

### AutoUpgrade
State: `app` (the AppInstances: spec, `name`/`digest` = `Status.AppImage`, `available`,
`confirm`, the Pulled condition), `remote`/`local`/`up` (what registries and the cluster
hold), `view` (the controller's copy during a pull), and the daemon: `phase` (its loop),
`snap` (apps as listed), `todo`, `pending` (the write on its way), `checked`
(`appKeysPrevCheck`), `queue` (the channel of length one), `timer`.
Actions: `TimerFires`, `OnTimer`, `OnSyncEvent`, `SyncBegin`, `RefreshLookup`,
`RefreshWrite`, `SyncEnd`, `SyncFails` are the daemon's loop; `ReconcileBegin`,
`ReconcileEnd` enclose the pull of `PullAppImage`; `CreateApp`, `UpdateApp`, `DeleteApp`,
`ConfirmUpgrade`, `PullImage`, `ConfigChanged` are the user's; `Push`, `Outage`, `Recover`,
`Restart` the environment.  Tags are numbers in the order of the pattern; a digest is a
number with 0 for the empty string; a check interval is a step (`Elapse`) that may come at
any time.

### AppLifecycle
One app with jobs and containers.  `Start` reads the cache; `AddFinalizer`,
`RemoveFinalizer`, `KeepFinalizer` are `FinalizeDestroyJob` and its route; `Handle` is the
chain from `PrepareStatus` to `UpdateObservedFields` (`Refuse`: `CheckStatus` stops it
half-way; `IgnoreTerminatingNamespace`: it is not run); `Apply` creates, replaces, scales
or removes one object; `SaveStatus`/`Conflict` end the pass.  `GetEvent`, `ShouldRun`,
`ReadJob`, `ToApply` keep the names and the case distinctions of the code.  History
variables record which runs succeeded for which event and generation (`runs`), whether
anything was deployed, and whether the user excused the cleanup.

### Quota
One app, its QuotaRequest, the caches of both.  `HandleApp` is `EnsureQuotaRequest` and
`WaitForAllocation`, judged by the *cached* request; `ApplyRequest`, `PruneRequest`,
`DeploySpec`, `SaveStatus` follow in any order.  `Grant` and `RefuseRequest` are the
allocator, which is not in this repository.  Demands are numbers; those in `Unparsable`
have a volume size that cannot be parsed.

### Project
One project, its namespace, apps with `Parent`.  `ListParents`, `ListEverything`,
`DeleteListed`, `RetryAfter`, `RemoveFinalizer` are the steps of `EnsureAllAppsRemoved`;
`StartPass`, `DeployAcorn`, `EndPass` are passes over apps that create nested ones;
`DeleteProjectOnNamespaceDelete` follows a namespace deleted by hand.  `Finalized` apps
have delete jobs and take their time; the others go with their deletion.

### DevSession
The session, its clients and the app's pass, one action per handler (`Prepare`, `Deploy`,
`Status`, `Observe`), each under `Handler` = `OverlayDevSession`: put the override and its
hash into the copy, run, `Restore`.  `Develop`, `DevSessionRenew`, `Leave`,
`DevSessionRelease`, `DeleteReleased`, `Crash` are clients; `Lapse`, `ExpireDevSession`,
`DeleteExpired` the expiry, whose check and deletion are two requests.  Hashes are taken to
be distinct.

### Channel
The goroutine of the websocket (`ReadMessage`, `pushStreamData`, `ReadError`,
`CloseAfterError`), the readers (`Read`, `Lock`, `CopyOut`, `ReturnCopied`, `BufferEmpty`,
`CheckErr`, `Wait`), and `Close`.  Taking the lock, the look at the unguarded `c.err`, and
entering `Wait` are steps of their own.  A stale read of `c.err` equals the same read at an
earlier moment, which is one of the interleavings; a torn read of the interface value is
left out.

### Images, Catalog
A writer (`Clients`, `Apps`) reads the images and then works through a list of writes
(`todo`), one per step; `stale` is the set of images that changed since it read them, and
stands for the resourceVersions.  `StartTag`/`ReadForTag`, `StartPull`/`RecordImage`,
`StartDelete`/`ValidateDelete`/`RemoveImage` are the requests of clients; `StartPass`,
`NestedReferences`, `SavePass` are `CreateImages` in a pass; `WriteAccepted`, `WriteRefused`,
`Finish`, `Interrupt` are steps of all of them.  `ImageTag`, `TakeAway`, `DeleteHits`,
`RemoveTag`, `CreateImageForSelf` compute the writes as the code does, the deletion by an
index of the copy included.  `Select` takes the elements of a sequence at a set of positions;
the loops of the code are selections by it, so that they can be reasoned about without
induction over sequences.  For the loop that deletes by the index of a copy that takes a
thought (`DeleteHits`: after *n* hits what goes is *n* further than the hit), and `MCImages`
keeps the loop as it is written next to it and has TLC compare the two on all lists of up to
four names.  A name is a record of a repository and a tag; `RepoOnly` is
the name of a repository alone.  It is assumed that names carry a registry and that no
repository is a prefix of another, so that the prefix tests of the code compare repositories.
`Catalog` is what the images promise: one entry changes at a time, by one name added, names
removed, the fetch into the cluster, or as a whole.  `Images` implements it under the
mapping `Book`.

### Secrets
One pass over the app is a loop over the secrets in the order of `secretsOrdered`
(`Ordered`), one request per step: `Remembered`, `LookupBound`, `OutputMissing`, `NeedPart`
(a template asks for its parts first), `Generate` (`generateSecret` and `updateOrCreate`,
judged by the cache), then `ApplyCopies` and `ApplyJob`.  `PodEnds`, `GetOutput`,
`EnsureSecret`, `SaveFails`, `JobPodOrphanCleanup` are the pods of each generation of the
job and `SaveJobOutput` on them.  A random value is the uid of the secret it was made for,
an output the generation of its pod, a template the values it was filled in with.

### AcornDNS
The configuration handler (`StartConfig`, `PurgeRecords`, `ReserveDomain`,
`WriteDNSSecret`, `Provision`), the handler of the DNS secret (`HandleDNSSecret`), of the
ingress (`StartIngress`, `CreateRecords`, `SaveHash`), of the TLS secret (`RenewCert`), the
daemon (`StartRenew`, `Renew`, `RemoveHash`) and the goroutines with an order
(`ObtainCert`, `StoreCert`): each keeps what it has read (`ch`, `ih`, `dm`, `order`) over
its request to the service.  They read the DNS secret as the cache shows it (`seen`, which
`SyncSecret` brings up to date); `WriteDNSSecret` reads it again past the cache, and the
challenge of an order reads it with a client of its own (`CanObtain`).  A domain is the number
of its reservation; a token is good for the domain it came with.

### Volumes
Apps with one volume each, which may be the volume of another app (`BoundTo`).
`RenderPVC` is `toPVCs` with `lookupExistingPV` and `getPVForVolumeBinding`, `ApplyPVC`
applies the claim; `StartMark`/`SaveMark` are `MarkAndSave`, `ReleaseVolume` is the handler of
that name.  `Provision`, `Bind`, `ClaimGoes`, `VolumeGoes` are Kubernetes, `NamespaceGoes`
the end of the namespace of a deleted app.  Claims of different incarnations of an app are
different claims, since each has its own namespace.

The `MC*` modules give constants their values; the `*Proofs` modules hold the theorems.
Definitions marked *Mutant* are wrong versions of the definition after them, each the way a
plausible mistake would make it; every property is violated when its mutant is put in.

## 5. Runs

| Run | Bounds | Checks |
|---|---|---|
| `au_safety` | one app: a registry repository and one built in the cluster whose second tag is rejected, 2 tags, 2 contents, patterns (auto, notify) and a fixed tag (off); 2 edits, 1 push or removed tag, 1 fault | `DaemonAwake`: the loop never waits with neither timer nor event; `OnlyAllowedImages`; `PullsWhatIsStored`, `AnnouncesForStored`: no commit from an outdated copy; `NotifyNeedsConsent`; `NoDowngrade` |
| `au_live` | one repository, 2 tags, 2 contents, a pattern with auto and notify; 2 edits, 1 push, 1 fault | `Converges`, `Informs`: in the end the newest image, or its notification |
| `al_safety` | `init` (create, update, delete) after `db`, `web` after both; 2 generations, 1 fault | `DestroyJobsRan`, `ReadyIsCurrent`, `CreateRanOnce`, `GatedByDependencies` |
| `al_live` | `web` after a job for all four events; 2 generations, 1 fault | `Settles`, `DeletionCompletes` (if jobs succeed in the end), `StopsAnyway` (even if they hang) |
| `qu_run` | demands 1, 2 and an unparsable 3; 2 edits, 2 faults | `NothingBeforeGrant`, `SettlesGranted` (if the allocator grants in the end), `RefusalIsShown` |
| `pr_run` | three levels of nesting, two with delete jobs; 2 runs, 1 of them late, 1 restart | `KnownAppsFirst`, `ParentsFirst`, `ProjectGoes` |
| `dv_run` | one client, 2 generations, 1 build, 1 app created again, 1 fault | `TypeOK`, `RunsWhatIsWanted`, `SessionsEnd` |
| `ch_run` | two streams with init frames, 3 frames of up to 2 bytes, 1 close | `NothingLost`, `EndsWithEverything`, `BytesAreRead` |
| `im_run` | two images, three names, one client, one app whose image has a nested one, 2 attempts | `TypeOK`, `RepoOnlyIsAlone`, `ImplementsCatalog` (refinement) |
| `se_run` | a bound, a random and a generated secret and a template over two of them, 2 generations, 1 trouble | `TypeOK`, `RandomValueKept`, `SecretsSettle` |
| `dn_run` | 3 domains, 2 troubles: switches, losses, failures, changes, races, outdated passes | `TypeOK`, `DomainKept`, `RecordSettles`, `CertificateSettles` |
| `vo_run` | an app with two incarnations and one that asks for its volume, 1 volume removed | `NamedVolumesStay`, `NotTakenAway`, `VolumesSettle` |

The type invariants of `AutoUpgrade`, `AppLifecycle`, `Quota`, `Project`, `Channel` and
`Volumes` are theorems (section 7); the runs do not repeat them.  The `TypeOK`s that runs
check say more than types: that no override is stored as the app's own spec, that an image
lists a name once, that nothing empty is handed out, that a lost domain is without a token.

*Why the bounds are enough.*  The hazards are races of two writers over one object, or of
one writer with one change of its input.  Each needs one object, one change while a step is
under way, one more change that must not be lost, and one fault; the budgets allow that at
every point.  Of the three in `al_safety` the middle one both waits and is waited
for, and the last one waits for a job and for a container; three levels in `pr_run` are the least in which a nested app is itself a
parent.  Two tags distinguish newer from older; two streams distinguish mixed from kept
apart; three frames are an init frame, a first and a second one on a stream, or the like on
two.  In the `au_*` runs what is in a
registry at the start (`StartRemote`, `StartLocal`) has digest 1, since digests are only
compared with those of the same reference; `au_live` starts with no tag or with the first,
`au_safety` with the first or both; the push then changes a content, or adds or removes a
tag.  `au_live` removes none: a tag that disappears takes the newest image with it, and
nothing is left to converge to.  Deadlock is not checked where the budgets run out and the
system comes to rest, which is what it should do; `qu_run`, whose controller never rests,
checks it.

In `im_run` one client is enough: a pass is the second writer, and every pair of operations
that can overlap has one of each, but for two requests of clients, which write in the same
way; three names are a repository with and without a tag and another one.  In `se_run` the
template refers to a secret that comes before it and to one that comes after it, and two
generations give two pods of which the older one may be saved last.  In `dn_run` a second
domain is what a lost one is replaced by, and a third what a pass with an old secret puts over
that; the two troubles are any two: acorn-dns off and on again, a domain lost and its cleared
token written back, a domain lost and a pass that has not seen the new one yet.  In `dv_run`
a second client, which would take the session over, adds nothing to what these three
properties can tell: a renewal by it is a renewal, and its release a release.

What the bounds leave out, since the run would take too long: in `au_live` an app that is
deleted and created again between two syncs needs a third edit (after the one that created
it); in `dv_run` the one build leaves out an override that changes while the session lasts.
Both are in the modules, and `OverrideIsNotStored` and the theorems of `AutoUpgradeProofs` hold
for any number of edits and builds; the properties of these two runs are not checked there.

## 6. Fairness

* `AutoUpgrade`: the controller comes back to every app (informer events and resyncs), time
  passes (`Elapse`, `TimerFires`), the daemon's goroutine goes on, an outage ends.  Which
  branch a `select` takes is left open, and so is everything users and registries do.
* `AppLifecycle`: the controller's queue, the caches, Deployments.  That jobs succeed is a
  hypothesis of the two properties that need it.
* `Quota`: the controller and its caches.  That the allocator grants is a hypothesis of
  `SettlesGranted` only; `RefusalIsShown` has none.
* `Project`: the finalizer is retried (`RetryAfter`), caches sync, passes end, the garbage
  collector and the namespace controller work, apps' delete jobs finish.
* `DevSession`: the queue and the timers, clients that renew on time or end.  `AppGone` is
  strongly fair: passes over the app, which keep coming, disable it again and again and do
  not prevent it in the cluster.
* `Secrets`: the queue comes back to the app, the cache catches up, pods end and are saved.
* `AcornDNS`: handlers come back on changes and resyncs, the daemon every day, an order ends.
  `CreateRecords` and `Renew` are strongly fair only because the budget in `ClearDNSToken`
  holds them back for a while: the configuration handler can write a cleared token back as
  often as it happens to have read it before, and the budget bounds that coincidence.  It
  bounds in the same way how often a pass of that handler begins before the cache has caught
  up (`SyncSecret`, which is fair): each such pass may reserve another domain.
* `Volumes`: Kubernetes and the handlers go on.  `MarkSome` is strongly fair: while two claims
  of different apps name one volume their marks overwrite each other, so the need to mark
  comes and goes, and the queue serves both.
* `Channel`: a goroutine that can go on does.  Whether anything arrives is open.

## 7. Proofs

For every value of the constants that satisfies the modules' `ASSUME`s.

* **AutoUpgradeProofs.**  `TypeCorrect`; `Awake`, inductive as it stands together with the
  types.  `CopiesCorrect`: a copy marked `fresh` equals the stored app.  This is the
  invariant behind the optimistic concurrency: `PullsStored` and `AnnouncesStored` follow
  from it, since a write is accepted only from a fresh copy, so what was decided on the copy
  was decided on the stored app.  `ImagesAllowed` needs `AllCopiesAllowed`: no copy anybody
  holds, and no write on its way, has a rejected image, because they are stored later.
  `ConsentIsNeeded` and `OnlyForward` rest on `AnnouncedInOrder`, for the stored app and for
  the daemon's write on its way: an image that is to be pulled (`available`) or waits
  for the user (`confirm`) is one the user asked for or is no older tag of the pattern, and in
  notify mode only one that was asked for is to be pulled.  A pull
  is the only step that changes the image of an app that stays (`OnlyPullsChangeContent`).
* **AppLifecycleProofs.**  `TypeCorrect` with `Copies` (a cache that is current equals the
  stored app, a copy that may be written back agrees with it about the finalizer, and a
  deleted app is there only because of its finalizer).  `DestroyedInOrder`: `HeldBack` says
  that once a workload exists, or any copy shows the finalizer, the stored app has it until
  it is gone, and is gone only with its delete jobs done or excused; it is needed because a
  pass decides on a copy.  `RunsRecorded` says that a Job that has succeeded did so in a run
  for its event and generation, so what the finalizer reads off the Job is about the delete
  run.  `ReadyTellsTheTruth`, `CreateRunsOnce` and `DependenciesGate` share the invariant
  `LifeInv`, which speaks of every copy of the app at once.  `Versions`: the pass works on a
  copy no newer than the cache, and the cache on one no newer than the app; copies of one
  generation agree on what the user wants.  `ObjectsOK`: no object is newer than the copies,
  and an update run was asked for only after the create run.  `CopiesOK`: what the status of
  a copy says of jobs and containers is so at the generation it was observed at, in the
  stored app, in the cache and in the pass, because they become one another.  `PlanOK`: what
  the pass has still to apply is gated by what it depends on *now*, though it was decided on
  when the pass began.  These three theorems assume `NoCreateAndStop`, that no job lists both
  the create and the stop event: for such a job the code takes the success of a stop run for
  that of the create run (section 8), and `CreateRanOnce` is false.
* **ProjectProofs.**  `TypeCorrect`; `KnownAppsGoFirst` by `KnownInv`: a known app is in the
  cluster and in the cache (`KnownSeen`), so the two lists find it, and the finalizer reaches
  `remove` only with no known app left.  `NotYetUsed` says that a live project without
  its finalizer has neither namespace nor apps.
  `TopLevelFirst` adds `ParentsInv`: when the finalizer is at its second list, or has a nested
  app to delete, no top-level app it knew of is left; known apps do not come back.

  The module also holds the proofs about `Quota` (`Q`) and `DevSession` (`D`), as instances
  over variables of their own; the `ASSUME`s of those modules are the hypotheses of their
  theorems.  `QuotaTypeCorrect`; `GrantedFirst` by `GrantBehind`: behind every success, in
  the request, in the app's condition and in the copies the caches and the pass have of them,
  and behind every pass that is about to deploy, is a grant, as long as quota was never
  lifted.  `OverrideIsNotStored` is `D!TypeOK`, with `PassInv`: past a handler the pass has
  what that handler works out, and a view that may be saved is one of an app that is there.
  `Overlaid` and `Restored` say what the two halves of `OverlayDevSession` do to the copy:
  between them its generation may be the override's, after them it is the app's again.
* **ChannelProofs.**  `Invariant`, with `TypeCorrect`, `NoByteLost` and
  `ReadersGetEverything` as its consequences: `ChannelInv` adds to `NothingLost` that a
  stream is initialized exactly when it needs no init frame or one has arrived and been
  handled (`InitFrames`), and that a reader looks at the error, and ends, only with an empty
  buffer, and ends only on a connection with an error, to which nothing is pushed any more
  (`Drained`).
* **ImagesProofs.**  `ImagesInv`, with `TypeCorrect`, `OwnNameIsAlone` and
  `WritersImplementCatalog` as its consequences, for any images, names, clients and apps.  An
  image by itself satisfies `ImageOK`; that is not inductive, since what is written to it was
  computed from what a writer read some requests ago.  `TodoOK` says what ties the two: a
  write in a list is *sound*, that is, as long as its image is not among the `stale` ones of
  the writer it removes names, marks the image as fetched, or adds one name in place of the
  repository's own (`Updates`), and a create has at most one name (`Creates`).  A change of an
  image makes it stale for whoever is about to write it, so every other list stays sound
  (`ChangeOK`); an accepted write therefore fits the image as it *is* (`AcceptedFits`), and is
  a step of `Catalog` (`UpdateRefines`, `CreateRefines`).  The lists that the requests
  compute are sound when they are made (`ImageTagOK`, `CreateImageForSelfOK`, ...), for which
  `SelectFacts` says what a selection of a sequence contains.  The loop that deletes the wrong
  names (section 8) still only deletes (`DeleteHitsFacts`), so it does not break the
  refinement.
* **VolumesProofs.**  `TypeCorrect`, inductive as it stands, holds more than types: a volume
  with a public name is one that is retained (`MarkAndSave` writes the two together, on the
  version it read), and only a bound volume has a claim.  `NamedStay` and `NoneTakenAway`
  follow from it step by step (`StepsKeep`), whatever the claims of the apps do meanwhile.
* **AcornDNSProofs.**  `Invariant`, with `TypeCorrect` and `DomainIsKept`.  `DomainInv` says
  that a domain without a token is one the service has lost, in the secret, in the cache and
  in the hands of the config handler; that the handler keeps the domain it has read as long as
  the service knows that; and that it reserves only without a token.  It is needed because the
  handler writes the secret it read some requests ago, after others may have cleared the
  token.  `DomainIsKept` therefore excuses only a pass that read the secret from before the
  domain was in it.  `DomainStays` says that a known domain is never replaced, under a named
  assumption, `OwnWritesShown`: whenever a pass begins, the cache shows the domain the handler
  wrote last.  Whether it does is up to the client the router hands to its handlers; nothing in
  this repository establishes it, and without it the statement is false (section 8).  With
  it, `CurrentInv` says that the handler works with the domain that is in the secret, as long
  as the service knows that.
* **SecretsProofs.**  `SourcesCorrect`: the sources of a secret have different uids, also when
  a lagging cache has made several.  `RandomValuesKept` follows: an update goes to the one
  source that was read, with the value it had.  `NothingEmptyIsHandedOut` needs `SecretsInv`:
  not only the sources and the copies but what the cache shows of them, and what the pass
  remembers, is of the secret's kind; a template is filled in from what the pass remembers,
  and a source that was read is found (`GetSecretFinds`) because uids have a least one.

Only model-checked:

* everything under fairness (`Converges`, `Settles`, `ProjectGoes` and the like): liveness is
  out of the prover's reach;
* that `DeleteHits` is the loop of `tag.go` (`DeleteHitsIsTheLoop` in `MCImages`): what a loop
  computes for every sequence is an induction over data.

## 8. Where the code differs from what it says

The modules state these properties, which a comment, a document or the evident intent of
the code asserts and the code does not have.  To see the counterexample, put the property
into the configuration named here, changed as the brackets say.

* `AppLifecycle!CreateRanOnce` (`al_live` with `Events <- CreateStop`, `MaxGen = 3`,
  `MaxFaults = 0`).  `readJobs` sets `CreateEventSucceeded` when the Job of that name has
  succeeded, whatever event it ran for (`appstatus/jobs.go:79`).  A job with create and stop
  events whose app is stopped before the create run succeeds never gets one: "Create event
  jobs run at least once" (`pkg/jobs/jobs.go:145`) does not hold.  For the events of
  `al_safety` it does.
* `Quota!DeployedIsGranted` (`qu_run`).  "WaitForAllocation blocks the appInstance from
  being deployed until quota has been allocated" (`quota/quota.go:19`): the pass that first
  sees a larger demand judges by the QuotaRequest granted for the smaller one and deploys
  (`quota/quota.go:41`).  What does hold is `NothingBeforeGrant` and, in the end,
  `SettlesGranted`.
* `Channel!ReadersEnd` (`ch_run`).  "ensure all readers are broadcasted"
  (`k8schannel/websocket.go:112`): the error is set and broadcast without the lock of the
  condition; a reader between its look and `Wait` sleeps on a dead connection.
* `Images!MovedNameIsUnique` (`im_run` with `SortedNames <- FourNames`, `Apps = {}`,
  `AppImages = {}`, `Nested <- NoNested`, `Retries = 1`).  "remove the tag from any other
  image" (`images/tag.go:108`): the loop ranges over a copy of the other image's tags and
  deletes by the index in the copy (`tag.go:119`); with two tags to take away the second
  deletion hits the tag behind, or is out of range.
* `Images!SettledImageIsRecorded` (`im_run`).  The error of `createImageForSelf` is dropped
  and the digest recorded as observed all the same (`images.go:24`), so the image is never
  recorded; and an image is deleted in a request after the look for apps that use it
  (`strategy.go:44`).
* `Secrets!DeliveredValueKept` (`se_run`).  A pass whose cache does not show the source made
  by the one before makes a second one; the one with the least uid counts from then on, so
  the random value the app already had may be replaced (`secrets/secret.go:319`).
* `Secrets!OutputIsNewest` (`se_run`).  The output of an older pod that is saved late
  overwrites that of the newer one (`jobs/output.go:164`).
* `AcornDNS!KnownDomainStays` (`dn_run`).  "this will ensure a domain and token have been
  reserved and store in a secret" (`config/dns.go:34`), and the second read of the secret goes
  past the cache (`dns.go:86`); but whether to reserve is decided on the first, which does not
  (`dns.go:44`).  A pass that does not see the domain and token that the one before it wrote
  reserves another and writes it over a domain the service knows (`dns.go:94`).  A client that
  shows a handler its own writes rules that out (`OwnWritesShown`, section 7); what holds in
  any case is `DomainKept`.
* `AcornDNS!PurgedWhenDisabled` (`dn_run`).  A request to create records that is under way
  when acorn-dns is disabled is carried out after the purge, and nothing removes its record
  (`config/dns.go:36`).
* `Volumes!NamesAreUnique` (`vo_run`).  Whether a public name is free is looked at before the
  claim is created and the volume named later, so two volumes can get one name
  (`volume.go:209`); an app then has to be told apart by hand.
* `AutoUpgrade!AnnouncesOnlyUpgrades` (`au_live`, `Specs <- StaticNotify`): while a registry
  does not answer, the empty digest differs from the app's, and the image the app already
  runs is announced (`daemon.go:230`).
* `AutoUpgrade!ImageUpdateReplaces` (`au_live` with `Repos = {hub, lcl}`,
  `Built <- LclRefs`, `StartRemote <- FirstOrBoth`, `StartLocal <- LclFirst` and
  `Specs <- TwoPatterns`): an app updated to a pattern of another repository stays where it
  is; the daemon looks in the repository of the image the app has (`daemon.go:163`).
* `Project!NamespaceLast` (`pr_run`): an app run after the finalizer's lists, or not yet in
  the cache, is there when the namespace goes.
* `DevSession!UpdatedAfterJob` (`dv_run`): an app in sync is kept in sync when an override
  arrives, so a container gets it before the job it depends on has run with it.
* `DevSession!SessionOutlivesRemoval` (`dv_run`): a session is deleted in a request after
  the check that its app is not being removed.

Outside of the models: the daemon of AcornDNS "Retries on an exponential backoff until
successful" (`dns/daemon.go:38`) but gives up until the next day when the token is missing
(`daemon.go:74`); and `Resources.Fits` compares with `<=` (`admin/v1/resources.go:80`), so
what fits exactly is refused.

## 9. Not modelled

The rest of the inventory (sections 1 and 2), and inside the modelled parts: scheduled jobs,
expressions, outputs that declare services, linked services, updates that change the set of
jobs (`AppLifecycle`); more than one incarnation of an app's own namespace; regions and copied
labels (`Project`); the arithmetic of resources (`Quota`); file sync, port forwarding and
`Status.DevSession` (`DevSession`); writing, pings and the dialer (`Channel`); changes of the
image allow rules, and stopped apps, for which validation skips them (`AutoUpgrade`); the
search for images by parts of their names, push and copy (`Images`); credentials, secrets of
other acorns and encryption (`Secrets`); records and certificates for the hosts of apps, the
copies of certificates in their namespaces, rate limits, caches of the DNS ingress and the TLS
secret (`AcornDNS`); sizes, classes, access
modes and ephemeral volumes (`Volumes`).

How much of the repository that is: a good third of its lines is generated (the OpenAPI
definitions, deep copies, conversions, mocks).  Most of the rest is the translation between API types,
the rendering of apps into Kubernetes objects, the command line and its tables, the parsing
of Acornfiles and one-shot scripts for installing.  These have no state in which steps of
several actors could meet; what they are wrong about, a unit test with an expected value
shows, and the repository has those.  The lines with the behaviour of section 1 are what the
models are for, and they are a small part of the whole.
