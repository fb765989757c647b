# A TLA+ model of the Kong Gateway Operator

The operator turns `Gateway`, `ControlPlane` and `DataPlane` resources into
Deployments, Services, Secrets and roles. It has no state of its own: everything it
knows is in the API server, and it learns of it through informer caches that lag
behind. What can go wrong is therefore rarely visible in one reconciliation; it is
in the order of several, with users, failures and deletions between them. That is
what these modules model. Line numbers refer to the repository's source under `src/`.

## The system

| part | state | operations | interacts with |
|---|---|---|---|
| Gateway controller (`controllers/gateway_controller*.go`) | the Gateway's conditions and addresses | `Reconcile`, `provisionDataPlane`, `provisionControlPlane`, NetworkPolicy, the predicates and map functions of its watches | reads the GatewayClass, the GatewayConfiguration and the DataPlane's Service; creates and updates a DataPlane, a ControlPlane and a NetworkPolicy |
| ControlPlane controller (`controllers/controlplane_controller*.go`) | none between passes; the ControlPlane's finalizers, `Spec.Env` and conditions | `Reconcile`, the watches of `SetupWithManager` | owns ServiceAccount, ClusterRole, ClusterRoleBinding, certificate Secret, Deployment; reads the DataPlane's Service |
| DataPlane controller (`controllers/dataplane_controller*.go`) | none between passes; conditions, `Status.Service`, defaults in `Spec.Env` | `Reconcile` | owns Service, certificate Secret, Deployment; reads ConfigMaps and Secrets through validation |
| DataPlane validation (`internal/validation/dataplane`) | none | `Validate` | called by the DataPlane controller and the admission webhook |
| admission webhook (`internal/admission`) | none | `handleValidation` | sees every DataPlane that users or the Gateway controller write, where it is installed |
| conditions, metadata, lists (`internal/utils/kubernetes`) | none | `SetCondition`, `InitReady`, `NeedsUpdate`, `EnsureObjectMetaIsUpdated`, `List...ForOwner` | used by all controllers |
| certificates (`controllers/utils.go`) and CA manager (`internal/manager/run.go`) | the CA Secret | `maybeCreateCertificateSecret`, `maybeCreateCACertificate` | the CA is created once, when the manager starts, concurrently with the controllers |
| manager (`internal/manager`) | caches, workqueues | which kinds are cached, restart, leader election | all |
| ClusterRole selection (`zz_generated_clusterrole_helpers.go`) | none | by image version | ControlPlane controller |
| telemetry, generated clientset, role generator | - | - | nothing depends on them |

What makes them correct: an owned kind is never duplicated (a duplicate stops all
further reconciliation); cluster-scoped objects do not outlive their ControlPlane;
the status says what is the case; whatever users and failures do, the controllers
settle in the state the specs ask for. What is hard: reads from a stale cache, an
update that conflicts, a crash between two writes, passes that return early and
count on an event to bring them back, errors that become conditions and are not
retried, and deletions that overlap with creation. `PROJECT.json` lists the hazards at
their lines.

## Modules

`Conditions` - the helpers of `status.go` on a set of conditions, one of each type.
Order and transition times are dropped: no caller looks at them.

`ControlPlane` - the ControlPlane controller. State: the stored resource (`cp`) and
owned objects (`owned`), their images in the caches (`cpSeen`, `cache`), undelivered
events (`pending`), the workqueue (`queued`, `timer`), the worker (`w`: its place in
`Reconcile`, its copy of the resource, whether the copy's resource version is still
current, and the objects found so far), and the world (`svc`, `ca`, `graceOver`).
One action is one call to the API server with the code around it:
`StartCleanup`/`DeleteBindings`/`DeleteRoles` (lines 100-139), `AddFinalizers` (141),
`MarkScheduled` (154), `ReadDataPlane`/`UpdateAndReturn`/`ensureDataPlaneConfiguration`
(164-219), `CreateOwned`/`RepairOwned`/`HaveOwned` for each kind (221-255),
`CreateDeployment`/`UpdateDeployment`/`CheckReadiness` (257-296), `updateStatus` (299).

`RoleLifecycle` - what `ControlPlane` promises about cluster-scoped objects, without
queues, caches, copies or retries: the life of a ControlPlane is a path
*new, guarded, deleting, unbound, gone* (or straight from *new* to *gone*); objects
appear only in the second and third phase, and a phase ends only when what it
protects is gone. `ControlPlaneLifecycle` instantiates it with the phase read off the
stored ControlPlane's deletion timestamp and finalizers.

`DataPlane` - the DataPlane controller in the same style: `MarkScheduled` (71),
`CreateOwned`/`UpdateOwned`/`HaveService` and `ReportStatus` (80-94),
`SetDataPlaneDefaults` (97), `ValidationFails`/`ValidationSucceeds` (111),
`HaveCertificate` (121), `HaveDeployment` and `updateStatus` (130-176). Users' edits pass
through `handleValidation` of the webhook where it is installed (`hook`).

`Gateway` - the Gateway controller. State as in `ControlPlane`: the Gateway (`gw`), its
`class` and `config`, the owned planes and policy (`owned`), the DataPlanes' Services
(`svcs`), the caches (`seen`, `cache`), events, queue and worker (`w`: its place, its copy
of the Gateway, the configuration it works with, the planes it found). Actions, by the
lines of `gateway_controller.go`: `GetNotFound`, `UnsupportedGateway`, `ClassNotFound`,
`ConfigurationNotFound`, `StartProvisioning` (70-107); `FoundSeveral`, `CreatePlane`,
`UpdatePlane`, `HavePlane` for either plane and `NotOneService` (109-147, 181-295);
`TooManyPolicies`, `CreatePolicy`, `RepairPolicy`, `HavePolicy` (149-159);
`ServiceNotReady`, `MarkReady`, `MarkRefused` (161-172); `updateStatus` (305-317). The
predicates and map functions of `gateway_controller_watch.go` decide which deliveries
queue the key. The DataPlane and ControlPlane controllers take part by what they do to
the objects this controller reads and writes (`DataPlaneController`,
`ControlPlaneController`): the Service, the readiness, and the variables that both the
Gateway and the ControlPlane controller set.

`DBModeValidation` - the lookup of `KONG_DATABASE` as loops over `Env` and `EnvFrom`,
next to the value that Kubernetes gives the container. Base64 is modelled by what the
two decoders used make of the values in question.

`ControlPlaneProofs`, `ControlPlaneFinalizerProofs`, `ControlPlaneStatusProofs`,
`ControlPlaneLifecycleProofs`, `DataPlaneProofs`, `GatewayProofs`,
`DBModeValidationProofs` - the theorems. `MC*` - instances.

### Abstractions

- A list and the write it decides on are one step. The worker is the only creator of
  these objects, and controller-runtime runs one worker per controller; an edit that
  falls between shows as a failed call (`APIError`). Cached reads belong to the step of
  the next API call.
- `Client.Get` and lists of cached kinds read the cache at the time of the step. Events
  of a kind are delivered together: a cache is either current or as old as its last
  delivery. Different kinds are delivered in any order.
- Optimistic concurrency is exact: an update with an outdated copy is refused. In
  `Gateway`, planes and policies are updated from a listed copy; `Outdated` says when its
  resource version may be an old one, also if what changed does not show in the model. The
  reply of an update is decoded into the worker's copy where the code goes on using it.
- The delay of a requeue (200 ms, or the rate limiter's) is dropped; only the grace
  period of a deletion is a timer.
- Environments are reduced to what the reconcilers tell apart. In `ControlPlane`: the pod
  variables and the Service name; in `DataPlane`: empty, defaults, another supported
  one, an unsupported one, one taken from a ConfigMap or Secret; in `Gateway`: the options
  that a configuration gives (defaults, custom, invalid), a user's edit, and the
  Service that a ControlPlane's variables name.
- `drift` stands for any difference in metadata (and, for Deployments, a missing
  container or changed `EnvFrom`) that the code repairs. What it does not compare
  (`uses`, `of`, and in `Gateway` the `dp` and `cp` of a policy: names of other objects in a
  spec) is kept apart.
- `LoseOwned` is a deletion or the removal of the label or owner reference by which
  objects are listed.
- The default value of the status conditions in the CRD is not modelled: the status
  subresource drops it when a resource is created.
- An image version without a ClusterRole is one of the errors of `APIError`.
- Foreground deletion of a DataPlane is not modelled; without `blockOwnerDeletion` in the
  owner references it differs from background deletion only in timing.
- `Gateway`: one class and one configuration; a Gateway that is deleted is gone at once
  (the operator puts no finalizer on it); the planes of a removed Gateway are left to
  the garbage collector; a Service has a ClusterIP, a load balancer's address as well,
  or nothing to use. `ensureGatewayMarkedReady` writes the status in every pass, and a
  write that changes only the conditions' times may or may not produce an event.
- The webhook is installed, or is not, for a whole behaviour. In `DataPlane` it only stands in
  the way of users: what can happen with it can happen without it. A request that it cannot
  decode is refused like an invalid one.

## Runs

Bounds: one resource, as reconciliations of different ones share nothing but the
worker; three names (two in `dp_liveness`; in `Gateway` two per kind, re-used once nothing refers to them), so that an
object can be replaced or duplicated; `MaxEdits` changes by users and pods;
`MaxFaults` failed calls or crashes. Every hazard found needs at most one edit and one
fault at the right moment, and these can fall between any two steps of every pass,
restarts and late deliveries included.

| run | bounds | shows |
|---|---|---|
| `cp_safety` | 2 edits, 1 fault, `TimelySpec` | `TypeOK`; `AtMostOneLive`: no second Secret or Deployment; `DuplicatesOnlyFromStaleCache`: a second object of another kind only while the first has not reached the cache; `FinalizersHold`, `CreatedUnderFinalizers`: no role or binding is created once a finalizer is gone, however stale the worker's copy; `BindingsFirst`: the order of the cleanup; `AwaitedPodsNotReady`: Ready is never stored beside pods still awaited; `RolesGuarded`, `CleanupComplete`: no role or binding is left behind; `RolesFollowLifecycle`: `ControlPlane` implements `RoleLifecycle` |
| `cp_liveness` | 1 edit, 1 fault, 2 Services | without resync: `DeletionCompletes` through grace period, failed and half-done deletions, `NothingComesBack`, `ScalesDown`, `BecomesReady`; with resync: `EnvFollowsService` |
| `dp_safety` | with and without webhook, 1 edit, 1 fault | `TypeOK`, `AtMostOneLive`, `ReadyMeansAllReady`; `ValidatedBeforeDeployed`, `ReadyForStoredSpec`: an unsupported environment is never deployed nor reported ready, though the spec may change after validation; `RejectedBeforeStored`: with the webhook `Reconcile` never gets to report one in the spec itself |
| `dp_liveness` | no webhook, 1 edit, 1 fault | without resync: `BecomesReady`, `InvalidReported`, `EnvFollowsSpec`; with resync: `RecoversFromConfig` and `BadReferenceReported`, after a ConfigMap appears or goes, or could not be read |
| `db_mode` | 2 entries, 2 sources | `LastEnvVarDecides`, `LastSourceDecides`: where the last definition is a literal or from a ConfigMap, the verdict agrees with Kubernetes |
| `gw_safety` | all kinds cached, webhook, 1 edit, 1 fault | `TypeOK`; `ReadyHasAddress`; `ContradictionInFlight`: a stored Ready that another condition contradicts is being replaced, or an event that will replace it is on its way; `DuplicatesOnlyFromStaleCache` |
| `gw_liveness` | DataPlanes and Services cached, no webhook, 1 edit or 2 faults | without resync: `BecomesReady`, `PlanesFollow`, `InvalidNotReady` (options that the DataPlane controller finds out about), `DuplicatesReported`, `NothingComesBack`; with resync: `RecoversFromFailures`, `AddressesFollow` |

`gw_liveness`, and `gw_policy` below, list ControlPlanes and NetworkPolicies live
(`DataPlanesCached`), which is smaller than what the manager does; `gw_safety` and
`gw_overrides` have the manager's caches.

Deadlock is not checked: a controller with an empty queue and users without wishes
stand still, and should.

### Where the code and its documentation disagree

| run | property | what TLC shows |
|---|---|---|
| `cp_orphans` | `RolesGuarded` | a role created just before the deletion is not in the cache the cleanup lists, and stays |
| `cp_ready` | `ReadyMeansAllReady` | unsetting the DataPlane of a ready ControlPlane stores Ready=True beside Provisioned=False |
| `db_mode_only_dbless` | `OnlyDBless` | a database set by one source is accepted when a later source does not mention it (`validation.go` line 54: "only support dbless mode.") |
| `gw_policy` | `PolicyFollows` | a NetworkPolicy keeps selecting a DataPlane or ControlPlane that was replaced, for ever |
| `gw_overrides` | `OverridesHold` | when a GatewayConfiguration sets the variables that name the DataPlane's Service, the Gateway and the ControlPlane controller undo each other's value without end |

Further behaviour of the code that the models contain and the properties have to step
around, without a run of its own:

- the race that `run.go` describes (lines 135-141) and avoids for Deployments and Secrets
  happens to ServiceAccounts, ClusterRoles, bindings, the DataPlane's Service, planes and
  policies; `DuplicatesOnlyFromStaleCache` says when, and `Wedged` names the outcome;
- the report that a DataPlane is missing is lost if its one status write conflicts: later
  passes return at the readiness check;
- in `Env`, a reference whose object lacks the key overwrites what an earlier entry set;
- `Status.Service` of a DataPlane stays empty after a crash or conflict between two writes;
- a Gateway whose first status write fails is reported ready beside
  GatewayService=False for a while;
- a ClusterRoleBinding keeps naming a role or account that was replaced;
- values from Secrets are decoded twice, so that `off` from a Secret in `EnvFrom` is
  rejected.

The liveness properties except states that these lead to: `Wedged` (a duplicate),
`Dangling` (a replaced Secret or account in a pod template, which the code does not
compare), `Unaddressed` (a user took away the Service's ClusterIP) and, for a Gateway,
`GivenUp` (a call that failed twice in the same way leaves the conditions as they were, so
nothing brings the key back before the resync).

### Fairness

`Reconcile`, each delivery of events, the timers, the CA manager, the Deployment
controller and the garbage collector are weakly fair: the worker and the informers run
as long as the operator does, a failing call is retried by the workqueue, and the CA
manager runs once at every start. In `Gateway` so are the two controllers of the planes,
of which `cp_liveness` and `dp_liveness` show that they settle. Users and faults are not
fair. `Resync` (the cache's ten-hour period) is assumed fair only in the properties about
changes that no watch reports (a Service of a DataPlane, ConfigMaps, failures given up),
which name the assumption, and in `FairResyncSpec` of `Gateway`, for the runs that show that not even
a resync helps.

`TimelySpec` is no fairness but a restriction: when a cleanup starts (`KeepsUp`), no creation of a
ClusterRole or ClusterRoleBinding is on its way to a cache that the cleanup lists; events of
changes and deletions may be. The code does not wait for that; informers are usually faster
than the grace period of a deletion, and for kinds listed live it always holds. `cp_orphans`
shows what happens when they are not, `cp_safety` and three theorems that nothing else leads
there: everything else in the system may be late, lost or restarted. The properties of
`cp_safety` that have nothing to do with orphans are proved for `Spec`, without the restriction.

## Proofs

For all sets of names and Services, every choice of cached kinds and any bounds,
under `ConstantsAssumption` only, unless a further assumption is named. Together the
theorems cover every invariant and every action property that a passing run checks.

In the three reconcilers' modules the proofs have the same shape. Lemmas sort the steps of
`Next` into a few kinds by what they do to the stored resource, its cached image and the
worker's copy (`Quiet`, `Sees`, `GoesOn`, `Stores`, ...: `StepKinds` in
`ControlPlaneFinalizerProofs`, `Moves` in `DataPlaneProofs`, `StepMoves` in
`GatewayProofs`), so that an invariant is shown once per kind and not once per action.
What steps do to the owned objects is sorted once more (`OwnedStep`).

### `ControlPlane`

- `TypeCorrect` (`Spec => []TypeOK`). Not inductive alone: a Deployment or binding is
  created from names the worker holds, so the invariant is `TypeOK /\ HeldInOrder`, the
  latter saying that at each step the worker has found the objects of the steps before.
- `NoDuplicateLive` (`Spec => []AtMostOneLive`): inductive with `TypeOK`, as a kind outside
  `CachedKinds` is created only when the stored set is empty.
- `DuplicatesFromStaleCache` (`Spec => DuplicatesOnlyFromStaleCache`), from the invariant
  `CacheCurrent` (lemma `CacheInvariant`): without an event on its way the cache is what is stored. It names the
  one way to the duplicates that `Reconcile` cannot get past.
- `FinalizersInvariant` (`Spec => []FinalizersHold`). It relates three views of the
  ControlPlane, stored, cached and the worker's: each learns of a deletion only after
  the one before it; a finalizer is removed only by a worker whose copy is deleted and
  current; therefore a view with both finalizers and no deletion implies that the stored
  one has them. `FinalizersProtect` (`Spec => CreatedUnderFinalizers`) follows from it.
- `NoOrphanedRoles` (`TimelySpec => []RolesGuarded`) and `CleanupIsComplete`
  (`TimelySpec => []CleanupComplete`), for any `CachedKinds`; they are proved as one
  invariant, `Guarded`: the cleanup's copy has every finalizer that is stored, and what it
  drops has nothing left. That its lists can be relied on is the invariant `ListsAll`: from
  the start of a cleanup until its worker returns, each cached view of the two kinds has at
  least what is stored. `KeepsUp` and `CacheCurrent` give it when the cleanup starts, and it
  lasts, because nothing is created while the worker cleans up and what is deleted only
  makes the stored set smaller. For kinds listed live it needs no assumption.
- `BindingsGoFirst` (`Spec => BindingsFirst`), for cached and live lists alike, from
  `CopyHasFinalizers`: the worker's copy and the cached image never lack a finalizer that
  is stored once a deletion has begun, so a copy without the bindings' finalizer proves
  that its removal was stored.
- `AwaitedNotReady` (`Spec => []AwaitedPodsNotReady`), from `StatusInv`. The reply
  of the `Update` in `ensureDataPlaneConfiguration` is decoded into the worker's copy and
  brings back a Ready that `InitReady` had withdrawn, so the copy is *not* free of
  contradictions in the middle of a pass; the invariant says instead that a pass with a
  DataPlane stores nothing before `CheckReadiness` has made the conditions true, and a
  pass without one has the report that it is unset: the contradiction that `cp_ready` shows is
  the only one.
- `ImplementsRoleLifecycle` (`TimelySpec => RolesFollowLifecycle`): `ControlPlane` implements
  `RoleLifecycle`. `InPhase` adds to the
  invariants above that the stored finalizers are always none, both, or the roles' alone
  after a deletion, and that a current copy which the cleanup is about to store takes
  exactly one away. Then each write of the ControlPlane is *Guard, Abandon, Delete,
  Unbind* or *Finish*; every other step changes at most one kind (`OneKind`) and is
  *Create, Remove* or a stutter.

### `DataPlane`

- `TypeCorrect` (`Spec => []TypeOK`), with `HeldInOrder` as above, and `NoDuplicateLive`
  (`Spec => []AtMostOneLive`) from it.
- `ReadyTruthful` (`Spec => []ReadyMeansAllReady`), from `ReadyInv`: stored, cached and
  worker's conditions are all truthful, and between the start of a pass and its last
  write the copy is not Ready, which is why the early writes (`ReportStatus`,
  `ValidationFails`) cannot store Ready beside what they report.
- `ReadyForStored` (`Spec => ReadyForStoredSpec`), from `SpecInv`: a copy that is not stale
  has the stored spec, and what is past the validation has passed it. An edit in between
  makes the copy stale, and the write is refused.
- `DeployedIsValidated` (`Spec => ValidatedBeforeDeployed`), from the same invariant; here the
  copy may be stale.
- `WebhookSuffices` (`Spec => []RejectedBeforeStored`), from `AdmittedInv`: with the webhook
  no stored, cached or copied spec is ever a literal database, so no copy of the
  conditions ever reports one.

### `Gateway`

- `TypeCorrect` (`Spec => []TypeOK`). The invariant, `TypeInv`, says in addition that the
  worker and the cached views are records with just these fields.
- `DuplicatesFromStaleCache` (`Spec => DuplicatesOnlyFromStaleCache`), as in `ControlPlane`,
  for planes and policies that two more controllers and users write too.
- `ReadyAddress` (`Spec => []ReadyHasAddress`), from `AddressInv`: what the worker is about to
  store has addresses if it is ready, and before `MarkReady` its copy is not ready.
- `ContradictionTakenUp` (`Spec => []ContradictionInFlight`), from `FlightInv`: only a Service
  found wanting contradicts a stored Ready; either an event (or the queue) announces
  another pass, or one is under way whose copy has the contradiction too and can no
  longer become ready. This holds for any number of faults, though the run has one.

### `DBModeValidation`

`EnvDecides` (`Spec => []LastEnvVarDecides`) and `SourceDecides`
(`Spec => []LastSourceDecides`), for lists of any length: the runs have two entries and two
sources. The loops are recursive functions, and what they leave is proved by induction on
their rounds. The library's induction theorems are out of the provers' reach, but its
`WFMin` is about sets and is not: `LeastElement` takes from it that a set of natural
numbers has a least element, and `RoundsInduction` is the least round after which a
statement fails. `LoopResults` shows that a loop has results at all, `EnvLoop` and
`SourceLoop` that the lookups return the last of them, and `LastNamedIsFound`,
`NoneNamedNotFound` and `LastPrefixedIsFound` which that is.

### Only model-checked

All liveness properties, which are outside the prover's reach: `DeletionCompletes`,
`NothingComesBack`, `ScalesDown`, `BecomesReady`, `EnvFollowsService`, `InvalidReported`,
`EnvFollowsSpec`, `RecoversFromConfig`, `BadReferenceReported`, and those of `gw_liveness`. The
five runs that expect a violation are counterexamples and need no proof.

## Plan

1. Done: `Conditions`, `ControlPlane` and its proofs, `DataPlane` with the admission
   webhook, `DBModeValidation`, `Gateway` composed with the other two controllers by
   their effect, and the refinement of `RoleLifecycle`.
2. Done: a theorem for every invariant and action property of the passing runs.
3. An abstract specification of what `DataPlane` promises about its status (a spec is
   stored, accepted or refused, deployed, reported), and the proof that `DataPlane`
   implements it as `ControlPlane` does `RoleLifecycle`.
4. The safety half of the liveness properties (`DeletionCompletes`, `NothingComesBack`), as far as
   it can be stated without fairness.

## Not modelled

- An environment that the API server stores differently from how it was written, which
  the `DeepEqual` comparisons of Deployments would see as a change in every pass: what the
  API server defaults is not in this repository.
- ClusterRole selection by version: a chain of four version intervals without state. That
  an existing role is kept when the image changes is listed among the hazards.
- A GatewayConfiguration that names the ControlPlane's DataPlane itself
  (`gateway_controller_watch.go` lines 193-196): in `Gateway` a ControlPlane's DataPlane is always
  the Gateway's own.
- Keys, signatures and expiry of certificates; the code renews nothing. Two managers
  that start at once and both create the CA Secret.
- Telemetry, generated clients, deep copies and rules, flags, probes, scheme
  registration, the role generator: no state that a controller depends on.
