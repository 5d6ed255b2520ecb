# TLA+ models of glance-operator

glance-operator deploys the OpenStack image service on Kubernetes. It is a pair
of controllers (reconcilers) and a set of admission webhooks. This directory
holds TLA+ models of the controllers and of the webhooks, TLC configurations that check them on
small instances, and TLAPS proofs of the results that matter most.

## 1. The system

### Components, their state and their operations

| Component | State it keeps | Operations |
|---|---|---|
| Glance controller (`internal/controller/glance_controller.go`) | `Glance` object (spec, finalizer, conditions, APIEndpoints, GlanceAPIReadyCounts, ObservedGeneration), the GlanceAPI objects it owns, finalizers on MariaDBDatabase and KeystoneService, registered limits in keystone, transport URLs, config secrets, DB purge cron job | `Reconcile`, `reconcileNormal`, `reconcileInit`, `apiDeployment`, `glanceAPICleanup`, `reconcileDelete`, watches |
| GlanceAPI controller (`glanceapi_controller.go`) | `GlanceAPI` object (finalizer, conditions, hashes, LastAppliedTopology, ApplicationCredentialSecret), StatefulSet, Services, KeystoneEndpoint, config-data secret, image cache cron jobs, consumer finalizers on application credential secrets and Topologies | `Reconcile`, `reconcileNormal`, `reconcileInit`, `generateServiceConfig`, `glanceAPIRefresh`, `ensureKeystoneEndpoints`, `reconcileDelete`, watches |
| Shared helpers (`glance_common.go`) | none | `verifyServiceSecret`, `ensureNAD`, `GetPvcListWithLabel` |
| Webhooks (`api/v1beta1/*_webhook.go`) | none | `Default`, `ValidateCreate`, `ValidateUpdate` |
| Builders (`internal/glance`, `internal/glanceapi`) | none | StatefulSet, volumes, PVCs, Jobs, CronJobs |
| Templates, `cmd/main.go`, generated code | none | text, start-up, deep copies |

### How they interact

All components share objects in the API server and nothing else. The Glance
controller writes GlanceAPI objects and mirrors their status; the GlanceAPI
controller reacts to them. keystone-operator, infra-operator (Topology,
Memcached), mariadb-operator, the StatefulSet controller and the garbage
collector act on the objects that the two controllers write. Reads go through
informer caches, which lag; every watch event puts a request in a work queue;
controller-runtime runs at most one pass per object at a time; a pass that
returns an error or a requeue is repeated. Each pass ends in a deferred patch
which sends the fields that differ from the version that was read.

### What is hard

* A pass makes a dozen separate writes. A crash, a failing call or a panic may
  come between any two of them, and what was written is then known only from
  what the status has recorded, which is saved last.
* A pass works for the version of the object that the cache held when it began.
* Finalizers on objects of others (credential secrets, Topologies,
  KeystoneEndpoint, KeystoneService, database) have to be given back exactly
  once their use is over.
* A change of annotations does not change an object's generation, and a
  StatefulSet's status counts pods of older revisions.
* Some inputs are watched, others are waited for with a requeue.

`PROJECT.json` lists the hazards at their lines.

### What makes each part correct

* GlanceAPI: the deployed credential is protected until it is no longer
  deployed; finalizers are always on record and none is left after deletion;
  what settles as Ready is what the spec asks for; the object converges, and
  its deletion completes.
* Glance: what settles as Ready is deployed and Ready in all its parts; no
  GlanceAPI that the spec does not ask for survives; the status speaks of the
  APIs of the spec; nothing is created for a Glance that is gone, and nothing is
  left of it; the object converges.
* Between the two: reports never go back, nobody overwrites what the other has
  written, an object that is held goes only after its deletion was asked for.
* Webhooks: what was let in can be deployed, whatever sequence of edits led to
  it, and is let through again unchanged, since the controller's own patches
  pass the same rules.
* Image cache jobs: every pod with a cache keeps its two cron jobs, those that
  are not needed go, and local claims carry the backup labels.

## 2. The modules

| Module | Models |
|---|---|
| `GlanceAPI` | one GlanceAPI object, its reconciler, its cache and queue, and what the reconciler writes |
| `GlanceAPIProofs` | theorems about `GlanceAPI`: types, protected credential, what settles as Ready |
| `GlanceAPIContractProofs` | theorems about `GlanceAPI`: life cycle, refinement of the contract, and what holds for a user who waits for Ready (consumer finalizers, Topology, volumes) |
| `MCGlanceAPI` | `GlanceAPI` with its symmetry for TLC |
| `Glance` | one Glance object, its reconciler, two caches and queue, the GlanceAPI objects as that reconciler sees them, the webhook rules that restrict the user |
| `GlanceProofs`, `GlanceContractProofs`, `GlanceSettledProofs` | theorems about `Glance`: types, life cycle and deletion; refinement of the contract; what a settled Glance is |
| `MCGlance` | `Glance` for TLC |
| `GlanceAPIContract` | abstract specification of GlanceAPI objects between the two controllers; `GlanceAPI` and `Glance` implement it |
| `ContractRecords` | lemmas on the records of the contract, shared by the two refinement proofs |
| `GlanceWebhook`, `MCGlanceWebhook`, `GlanceWebhookProofs` | the webhooks of the Glance resource over sequences of requests, Route annotations, probe defaults |
| `ImageCacheJobs`, `MCImageCacheJobs`, `ImageCacheJobsProofs` | the end of a pass over a GlanceAPI: backup labels and image cache cron jobs over claims, pods and caches |

### GlanceAPI

`cr` is the object in the API server, `cache` the informer's version, `queued`
the work queue. During a pass `pc` says where the worker is, `before` is the
version read and `inst` the copy that is modified. A pass is:

| Action | Code |
|---|---|
| `Reconcile`, `ReconcileNotFound` | head of `Reconcile`: conditions, generation, finalizer, early returns |
| `VerifyInputs` | OpenStack secret, memcached |
| `BackendHash`, `GlanceAPIRefreshFails` | `createHashOfBackendConfig`, `glanceAPIRefresh` |
| `VerifyBackends` | Cinder, TLS secrets, network attachments |
| `ReconcileInit` | Services, `ensureKeystoneEndpoints` |
| `GenerateServiceConfig` | config-data secret |
| `AddACFinalizer` | `ManageACSecretFinalizer` |
| `EnsureServiceTopology` | the Topology and its finalizers |
| `CreateOrPatchStatefulSet` | StatefulSet and the DeploymentReady condition |
| `ReconcileJobs` | PVC labels, image cache cron jobs |
| `ReleaseACSecret` | rotation, Ready |
| `EnsureDeletedEndpoints`, `RemoveACFinalizers`, `EnsureDeletedTopologyRef` | `reconcileDelete` |
| `PatchInstance` | the deferred patch |

Failures are `CallFails` (a call returns an error and has had no effect),
`PassLost` (the patch fails, or the pass panics), `Crash` (the operator is
replaced; its successor lists the object anew) and `InputLost`. The rest of the
cluster is external: the StatefulSet controller with its rolling update, pods
that read config-data when they start (`SubPath` mounts do not follow the
secret), keystone-operator, which revokes a credential that nobody holds.

### Glance

The loop over `spec.glanceAPIs` is one `APIDeployment` step per GlanceAPI
object, in sorted order, the internal half of a split API second. A GlanceAPI is
created or updated from the version in the cache `seen`; `WriteFails` is the
conflict when that version is old. `GlanceAPICleanup` deletes what is not in the
spec and forgets its status entries; `GlanceAPICleanupFails` stops half-way.
What the GlanceAPI controller does appears as `APIObserves`, `APIBecomesReady`,
`APIReports` and `APIFinalized`. The user's edits are those that `ValidateUpdate`
accepts. `Failures` names the kinds of fault a run has: a failing call, a failing
patch, a cleanup that stops half-way, a GlanceAPI that reports False.

### GlanceAPIContract

An object is reduced to what both controllers read: it exists, is being deleted,
has never been reported on (`new`, then it has no finalizer either), its
generation, ObservedGeneration and Ready. The left side (create, edit, delete)
belongs to the Glance controller, the right side (report, finalize) to the
GlanceAPI controller. `GlanceAPI!KeepsContract` maps the one object `cr`,
`Glance!KeepsContract` maps the function `api`. The first shows that the
reconciler, over stale reads, crashes and lost patches, does what `Glance`
assumes of it; the second, that what `Glance` assumes is no more than the
contract allows, and that the Glance controller's writes never undo a report.
Steps of several objects at once are allowed because the garbage collector and
`glanceAPICleanup` act on many.

### GlanceWebhook

`glance` is the stored object; `Create` and `Update` apply `Default` and then
`ValidateCreate` or `ValidateUpdate` to a request; `PatchFinalizer` is the
controller's patch, which is an update for the API server. A configuration is a
sequence of settings, so that a configuration with settings and without
`enabled_backends` is told apart from an empty one; `DeployedBackends` is what
the pods of an API run on, from `apiDeploymentCreateOrUpdate` and the default in
`00-config.conf`. A `defect` stands for a value that one of the delegated rules
(overrides, probes, Topology) rejects. `FillRoute`, `HumanSets` and `HumanClears`
act on the two annotations of a Route; `GetDefaultProbesAPI` is integer
arithmetic over the timeouts that occur.

### ImageCacheJobs

| Action | Code |
|---|---|
| `Reconcile`, `Deploy` | the pass up to the StatefulSet, in two steps (`GlanceAPI` has them in full) |
| `reconcilePVCLabels`, `LabelsFail` | backup labels, stopping at a failure |
| `ensureImageCacheJob`, `EnsureFails` | `CreateOrPatch` of a cron job per claim; a job that exists and is not in the cache is a conflict |
| `cleanupImageCacheJob`, `CleanupFails` | `deleteJob` for claims whose pod is not found, or all if there is no cache |
| `GetPvcListFails` | the list of claims is nil, the pass panics and is repeated |
| `PodStarts`, `PodStops` | StatefulSet controller; claims stay |
| `PodCacheSync`, `JobCacheSync`, `Resync` | informers: caches follow without queueing a request; the periodic resync queues one |

### Abstractions

Hashes are the values they are hashes of, specs are reduced to the fields that
are compared, and of the conditions only those that can be other than True at
the end of a pass are kept. Reads from an informer cache do not fail, and an
update of a cache (`CacheSync`) brings the current version, so that versions in
between may be skipped. The two
removals of `RemoveACFinalizers` are one step: each is idempotent and a pass that
fails between them repeats both. A requeue after a delay is a request in the
queue. A mutated form (a definition called "Mutated X" in its comment) changes
X the way a plausible bug would; no specification uses one, and each property is
known to fail when the definition it guards is replaced by its mutated form.

## 3. The runs

The configurations of `GlanceAPI` and `Glance` say `CHECK_DEADLOCK FALSE`: once
the bounds on edits, crashes and faults are used up a settled controller has
nothing left to do, which is what it should do. The others check deadlock.

| Run | Checks | Shows |
|---|---|---|
| `api_rotation` | `TypeOK`, `TemplateCredentialProtected`, `ProtectionInv`, `LifeCycleInv`, `TrackingInv`, `FinalizersTracked`, `DeletionReleasesSecrets`, `DeletionReleasesEndpoint`, `KeepsContract` | two credentials, a user who waits for Ready before an edit, deletion at any time, a crash and a failing call anywhere |
| `api_storage` | `ReadyHasVolumes`, `TopologyTracked` | two storage values, two Topologies and the endpoint annotation, changed twice by a user who waits for Ready; a Topology that comes late, a crash anywhere, deletion at any time |
| `api_live` | `SettledReadyIsDeployed`, `Converges`, `DeletionCompletes` | an edit or a deletion that overtakes the passes, late inputs, one fault, fair scheduling |
| `glance_one` | `TypeOK`, `SettledReadyIsDeployed`, `ReadyIsWhole`, `DeletionReleasesClaims`, `DeletionRemovesLimits`, `LifeCycleInv`, `APIsInContract`, `KeepsContract` | one split API, an edit or a deletion at any time, late inputs, a crash, one fault |
| `glance_two` | `SettledReadyIsDeployed`, `NoForeignAPI`, `PassInv`, `NoAPIAfterDeletion`, `Converges` | two APIs, one added, removed or given the keystone endpoint, or deletion, at any time, late inputs, a cleanup that fails half-way, fair scheduling |
| `webhook` | `TypeOK`, `SplitNotOnFile`, `StoredIsAdmissible`, `RevisionLabelFits`, `ProbesBeforeTimeout`, `ManualTimeoutKept` | three edits of APIs, configurations, timeouts and Route; configurations that name their backends; a wrong Topology reference; names at the limit and beyond |
| `imagecache` | `TypeOK`, `QuietIsLabelled`, `PodsKeepJobs`, `UnneededJobsGo`, `LocalClaimsLabelled` | up to two replicas, scaling or a change of the cache at any time, one fault, an upgrade from an operator without labels, fair scheduling |

Five runs show a disagreement between the code and what a comment, a message or
a test says of it; the shortest behaviours TLC finds are these.

| Run | Behaviour |
|---|---|
| `v_revoked` | The credential is rotated; the StatefulSet controller has observed the new generation and still counts the old pod as ready; the pass concludes that all is ready and releases the old secret, which is revoked while the old pod runs on it. |
| `v_refresh` | Deleting the StatefulSet fails; the deferred patch saves the new hash; the next pass sees no change and only patches the template: the old volume claims stay. |
| `v_whole` | Two APIs: the condition of the second replaces the one of the first, and the Glance is Ready while the first API is not. |
| `v_split` | A split API with a configuration that sets an option and names no backend: the rule looks at the backends at the top, the deployment takes the API's configuration alone, and the pods run on the file backend. |
| `v_stuck` | An API is added whose service override is wrong; only APIs that were there before are checked for it. Every later update is rejected, the controller's finalizer patches among them. |

`glance_one` passes where `v_whole` fails because it has one API; `webhook` passes
where `v_split` and `v_stuck` fail because its configurations name their backends
and its only defects are in Topology references, which are checked for new APIs
too. The pairs delimit when each property holds. `api_storage` has no failing
calls because of `v_refresh`: after a failed deletion of the StatefulSet a Ready
GlanceAPI may run on old volumes. Its user, and the one of `api_rotation`, waits
for Ready before an edit; what happens otherwise is among the known gaps.

### Known gaps

Behaviours that the models have and that a property above excludes by its
bounds. Each can be seen by changing the configuration as said.

* A pass puts the finalizer on a secret, the user withdraws the secret and
  deletes the object, the operator crashes before the patch: neither status nor
  spec names the secret and its finalizer stays (`DeletionReleasesSecrets`,
  `api_rotation` with one credential, `PatientUser = FALSE`, two edits, a crash).
* Two edits overtake a pass and a stale read: the finalizer of a Topology that
  only the first edit has named is put on it, and no later pass knows of it
  (`TopologyTracked`, `api_storage` with `PatientUser = FALSE`).
* The storage configuration goes, comes back and goes again while passes end
  early or read old versions: the hash on record is that of the spec, and the
  StatefulSet keeps the volumes of an earlier value (`ReadyHasVolumes`,
  `api_storage` with `PatientUser = FALSE`, three edits and
  `MayMiss = {"config"}`).
* An API removed and added with another type before a pass changes its layout,
  and the GlanceAPI of the old layout stays (`NoForeignAPI`, `glance_two` with
  `Layouts = {"single", "edge"}`, two edits).
* Quotas disabled before the deletion: the registered limits stay
  (`DeletionRemovesLimits`, `glance_one` with `Quotas = {TRUE, FALSE}`,
  `PatientUser = TRUE`, two edits).
* For layouts other than single the revision label may be longer than 63
  characters: GlanceAPIs of a split API end in `external` or `internal`, and the
  StatefulSet adds `-api`, none of which the rule counts.
* While the claim of a removed pod exists, every pass creates its cron jobs and
  deletes them again; with a lagging cache one of the two may be there at any
  given time. `UnneededJobsGo` therefore speaks of each job on its own. The
  jobs of a claim that is deleted by hand are not cleaned up at all; in the model
  claims stay.
* Stored defaults do not follow later changes: storage stays external when a
  storage request is added, and an API keeps its timeout when the global one
  changes.
* Below a timeout of 20 seconds the default probes may overlap, below 4 their
  period is 0.

### Bounds

Two values of each thing that can change are enough to tell "current" from
"old", and each run gives a second value only to what its question is about.
Two edits are a change and its successor (a rotation during a rotation, a change
and a deletion, a storage value that goes and comes back). One crash and one
fault put each interruption between any two steps. One
replica is enough for the properties here, which speak of a pod, not of how many
are ready; the proofs hold for any number. Two names are an API and one that
comes after it in the sorted loop. In `webhook` three edits are enough to add an
API without replicas, change what it inherits and scale it up; the lengths are
chosen so that one name has exactly the longest allowed length for layout single
and one is longer. In `imagecache` two replicas tell a claim that lost its pod
from one that keeps it, and one edit overtakes the passes at every step.

### Fairness

Weak fairness of the worker (controller-runtime keeps calling `Reconcile` while
the queue holds a request), of the watches, of the other controllers, and of the
inputs that somebody has to provide. `ImageCacheJobs` also has fairness of the
periodic resync: controller-runtime's informers have a resync period (ten hours
unless set, and `cmd/main.go` does not set it), and the controllers register
their kinds without predicates. Without it a pod that appears in the cache after
the last pass would wait for its jobs until something else happens. Nothing is assumed of failures, which the
bounds end, and of the user.

## 4. The proofs

All theorems hold for every value of the constants that satisfies the
`ConstantsAssumption` of its module: any set of credentials, storage values,
Topologies, names, layouts and configurations, any number of replicas, edits,
crashes and faults. A further hypothesis, where there is one, is written in the
theorem; each is one that a known gap or a violation run shows to be needed.
Every inductive invariant was checked by TLC before it was proved; those that a
reader of the code would want to see hold are properties of the runs, the others
are defined where they are used, in the proof modules.

### GlanceAPI

| Theorem | States | Hypothesis |
|---|---|---|
| `TypeCorrect` | `TypeOK` | |
| `ProtectionInvariant`, `CredentialProtected` | `ProtectionInv`, `TemplateCredentialProtected` | |
| `SettledDeployed` | `SettledReadyIsDeployed` | |
| `LifeCycleInvariant`, `EndpointReleased` | `LifeCycleInv`, `DeletionReleasesEndpoint` | |
| `ContractKept` | `KeepsContract`: `GlanceAPI` implements `GlanceAPIContract` | |
| `TrackingInvariant`, `FinalizersStayTracked`, `SecretsReleased` | `TrackingInv`, `FinalizersTracked`, `DeletionReleasesSecrets` | `PatientUser` |
| `TopologyStaysTracked` | `TopologyTracked` | `PatientUser` |
| `ReadyVolumes` | `ReadyHasVolumes` | `PatientUser`, and no step is `GlanceAPIRefreshFails` (`v_refresh`) |

`ProtectionInv`. `TemplateCredentialProtected` alone is not inductive: nothing in
it says that `CreateOrPatchStatefulSet` runs after the finalizer has been put on
the secret, or that the secret that `ReleaseACSecret` gives up is not the deployed
one. `SpecCredentialProtected`: from `AddACFinalizer` to the end of the pass, the
secret of the spec the pass works for is protected. `TemplateFollowsSpec`: after
`CreateOrPatchStatefulSet` the template names that secret. `DeletionSeen`:
`reconcileDelete`, which releases without regard to the template, runs only for
an object that is being deleted, and a deletion is never taken back
(`DoomedStable`).

`DeployedInv` (in `GlanceAPIProofs`). A pass that nothing has overtaken has the
version that is still in the cache, since every change of the cache queues a
request; what it has behind it is deployed, and a change of the KeystoneEndpoint
after it was looked at queues a request as well. `QuietIsDeployed` is stated of
the version in the cache, not of the object: the annotation does not count in the
generation, and may go and come back without anybody noticing.

`LifeCycleInv`. The finalizer and the first status arrive with the same patch; the
generations in the status, in the version a pass has read, in the cache and in the
object follow each other; what a stale version says of the finalizer still holds;
the finalizer is given up last, by a pass that has read the deletion. From this
each step of the reconciler is a step of the contract under `View`: the patch is a
report or the end of a held object, everything else stutters or is the user's.

`TrackingInv`. A user who waits for Ready cannot be more than one edit ahead of any
version that the cache or a pass holds (`VersionsClose`); Ready means that the
secret of the spec is the recorded one and no other is held. A pass that is one
edit behind works for the secret that is on record. Hence at any time, in the
middle of a pass too, finalizers are on secrets that the object names.
`TopologyInv` and `VolumeInv` (in `GlanceAPIContractProofs`) say the same of the
Topology and of the storage, with what is particular to them: the Topology is
recorded as soon as it is held, by passes that fail later too; a pass that has
recreated the StatefulSet does not report Ready, so that once the object is Ready
every version of its spec has the hash on record and no pass over one of them
deletes the StatefulSet again.

### Glance

| Theorem | States | Hypothesis |
|---|---|---|
| `TypeCorrect` | `TypeOK`, and that the sorted loop works on a GlanceAPI of the spec | |
| `LifeCycleInvariant`, `ClaimsReleased` | `LifeCycleInv`, `DeletionReleasesClaims` | |
| `NoneCreatedAfterDeletion` | `NoAPIAfterDeletion` (an action property) | |
| `APIsStayInContract`, `ContractKept` | `APIsInContract`, `KeepsContract`: `Glance` implements `GlanceAPIContract` | |
| `PassInvariant`, `SettledDeployed` | `PassInv`, `SettledReadyIsDeployed` | |
| `NoneForeign` | `NoForeignAPI` | one layout (known gaps) |
| `LimitsRemoved` | `DeletionRemovesLimits` | quotas do not change (known gaps) |
| `SingleAPIWhole` | `ReadyIsWhole` | one name (`v_whole`) |

`LifeCycleInv`: the worker deploys only for a Glance whose finalizer was saved, and
database and KeystoneService are claimed only while it is held. `PassInv`: whatever
overtakes a pass (an edit, a change of a GlanceAPI, a newer version in a cache)
leaves a request in the queue, and a pass that nothing has overtaken has dealt with
every GlanceAPI of the version it has read; it is stated of the versions in the
caches, with `Ahead` for GlanceAPIs that have changed since. The refinement is in
two parts: what a step does to one GlanceAPI (`ObjectStep`), and that this is a
step of the contract; a write from an old version fails on the conflict, so that no
report is taken back. The remaining three results add an invariant each
(`LayoutsAskedFor`, `LimitsHeld`, `MirrorInv`).

### GlanceWebhook and ImageCacheJobs

| Theorem | States | Hypothesis |
|---|---|---|
| `WebhookInvariant`, `TypeCorrect` | what is stored was defaulted and admitted; `TypeOK` | |
| `LabelsFit`, `ProbesFit`, `ManualTimeoutStays` | `RevisionLabelFits`, `ProbesBeforeTimeout`, `ManualTimeoutKept` | |
| `StoredStaysAdmissible` | `StoredIsAdmissible` | only Topology references are wrong (`v_stuck`) |
| `SplitStaysOffFile` | `SplitNotOnFile` | configurations name their backends (`v_split`) |
| `ImageCacheJobsProofs!TypeCorrect` | `TypeOK`: no cron job is without its claim | |
| `ClaimsLabelled` | `QuietIsLabelled` | |

`WebhookInv` says of the stored object that `Default` has nothing left to fill and
that the rules an update may skip for a new API hold of it as far as they matter;
that a human's timeout is never the one the operator has filled in is part of it.

### Only model-checked

* Liveness (`Converges` of both controllers, `DeletionCompletes`, `PodsKeepJobs`,
  `UnneededJobsGo`, `LocalClaimsLabelled`): fairness and `ENABLED` are outside the
  reach of the proof system.
* The violation runs, whose point is a behaviour.

## 5. What is not modelled

* Configuration templates, `cmd/main.go`, generated code, and the builders of
  db-sync and purge jobs: they keep no state and decide nothing that a property
  is about. Of the templates only the default backend and the credential are kept.
* RBAC, transport URL, purge job and database accounts are calls that may fail or
  inputs that are waited for; the objects they write have no state.
* Pods, mounts and affinity beyond what is said above; the content of cron jobs.
* Warnings and deprecated fields of the webhooks, and the webhooks of the
  GlanceAPI resource, which accept everything and default an image that is always
  set.
* The two controllers are not composed into one specification: it would have the
  product of their state spaces, each of which has several hundred thousand states
  at its smallest useful bounds. `GlanceAPIContract` takes its place.

External services are modelled from how the code uses them.

## 6. Plan

1. `GlanceAPI`: a hypothesis weaker than `PatientUser` for the consumer finalizers
   and the Topology, namely that no two edits overtake one pass.
2. `ImageCacheJobs`: a safety counterpart of `PodsKeepJobs`, as `QuietIsLabelled`
   is of `LocalClaimsLabelled`, for caches that are current.
3. `Glance`: that the status speaks of the APIs of the spec, under the hypothesis
   that no crash comes between a deletion and the patch.
