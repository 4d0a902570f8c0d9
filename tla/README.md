# Verification of the cloud-credential-operator

The operator serves `CredentialsRequest` objects of a Kubernetes cluster. For
each request it creates a user with an access key and a policy in AWS IAM and
stores the key in the secret the request names, or copies the administrator's
key into that secret. These modules model the controller, its AWS actuator, its
watches and work queue, the status it reports and the annotator of the admin
secret, together with what they work on: the API server, the informer caches,
IAM, the people who edit all of these, and the faults.

## The system and its parts

| Part | Source | Modelled by |
|---|---|---|
| CredentialsRequest controller: `Reconcile`, finalizer, hourly skip, status | `pkg/controller/credentialsrequest/credentialsrequest_controller.go` | `Reconciler` |
| Watches, predicates and event mapping | same file, `add` | `Operator` |
| Work queue and worker | `pkg/controller/internalcontroller` | `WorkQueue`, `Operator` |
| AWS actuator: `Exists`, `Create`/`Update` (`sync`), `Delete` | `pkg/aws/actuator/actuator.go` | `AWSActuator` |
| ClusterOperator status | `pkg/controller/credentialsrequest/status.go`, `pkg/util/clusteroperator` | `ClusterOperatorStatus`, `Operator` |
| Secret annotator and permission checks | `pkg/controller/secretannotator`, `pkg/controller/utils/utils.go` | `SecretAnnotator` |
| Conditions of a request | `pkg/controller/utils/condition_utils.go`, the setters of the controller | `Conditions` |
| API types of a request, its secret and its status | `pkg/apis/cloudcredential/v1` | `Cluster` |
| AWS client, process start | `pkg/aws/client.go`, `cmd/manager` | partly, inside the modules above |

How they interact. A watch puts the name of a request in the work queue: a
change of the request itself, of a secret annotated with its name, or a new
namespace it targets. The one worker takes it and calls `Reconcile`, which
reads the request from the informer cache. A new request gets the deprovision
finalizer; a deleted one goes to `Actuator.Delete`, then its secret and its
finalizer are removed; any other one goes to `Actuator.Create` or `Update`
unless its namespace is missing or it was synced less than an hour ago. The
actuator reads the admin secret, whose annotation (written by the secret
annotator) selects mint or passthrough, and, for reads, the operator's own
read-only credentials, which are themselves minted through a request. The
status is written back under the API server's conflict check. Whatever the
outcome, `syncOperatorStatus` then sums up the requests in the ClusterOperator,
and an error puts the request back in the queue after a back-off.

## The modules

- **`Conditions`**: `SetCredentialsRequestCondition` and
  `updateActuatorConditions`.
- **`Cluster`**: constants, variables, types, `Init`, and the vocabulary of
  steps. `crs`, `secrets`, `namespaces` and `root` are the API server's objects,
  `iam` the IAM users, `crCache` and `secretCache` what each process has cached,
  `wk` the local variables of each process's Reconcile call, `now` the clock.
  `Call` is one request to a server: served, refused, failed before its effect,
  or with its answer lost after it.
- **`AWSActuator`**: one action per request to AWS or to the API server, in the
  order of the code.
- **`Reconciler`**: the actions of `Reconcile`; `Restart` after a crash or a
  panic; the informers; the users and administrators; the specification and the
  properties. Which event woke a call is left open here: any cached request may
  be reconciled whenever the worker is idle, so safety is shown for every order
  of the work queue.
- **`CredentialLifecycle`**: the abstract specification of the promise about
  IAM users: a name is recorded under the finalizer, a user exists only under a
  recorded name, is removed only after the deletion, and the request is released
  only when its user is gone. **`ReconcilerRefinement`** maps the stored objects
  and the IAM users onto it.
- **`WorkQueue`**: the queue as a record and its operations; **`Operator`**: the
  controller of `Reconciler` behind its watches (`WatchCR`, `WatchSecret`,
  `WatchNamespace`), the resync, the back-off, `processNextWorkItem`, and the
  deferred `syncOperatorStatus` with its create and update of the
  ClusterOperator. **`ClusterOperatorStatus`** computes the conditions.
- **`SecretAnnotator`**: the annotator's `Reconcile` with one action per request
  to AWS, its watch, queue and resync, and edits of the secret and of what AWS
  allows. It has its own state: `Reconciler` lets the admin secret change at any
  time (`EditRoot`), to any annotation, which covers whatever the annotator does.
- **`MCReconciler`**, **`MCOperator`**: the small instances.
- **`Steps`**: what each kind of step does, as predicates on objects, calls and
  pairs of states; **`Invariants`**: the invariants several proofs share. Neither
  states a theorem.
- **`ReconcilerProofs`**, **`CallProofs`**, **`LifecycleProofs`**,
  **`SyncProofs`**, **`SecretProofs`**, **`OperatorProofs`**,
  **`SystemProofs`**, **`SecretAnnotatorProofs`**: the proofs, described below.

The `pc` of a Reconcile call names the request it makes next, so every place
where the process can be interrupted, where an answer can be lost, or where
another actor can step in, is a state. Two further places, `panicNilUser` and
`panicNilData`, are the nil dereferences the code can run into; the process is
then started again.

Definitions whose comment starts with "Mutant:" are wrong variants of a later
definition. Substituting one must break the property it is listed for; nothing
else uses them.

### What is abstracted

- A `resourceVersion` is the content of the object: an update is refused when
  the stored object differs from the one the writer last read or wrote. An
  object changed and changed back is accepted where the API server would refuse;
  the model allows more behaviours than the code. For the ClusterOperator and
  the admin secret, whether a copy is the latest is kept instead.
- `status.user` stands for the user name and the policy name, which the code
  records together; the branch for an old status with only a user name is folded
  into it.
- A policy document is the policy of the spec it was made from; a secret is the
  key ID it holds and its two annotations; conditions of requests are without
  messages and timestamps. A condition of the ClusterOperator is its status and
  the numbers in its message.
- The admin secret is its annotation (one of the three values the code knows,
  another one, or none) and whether both keys are in its data. Without them
  `LoadCredsFromSecret` fails, and passthrough has no key data to store. The
  annotator would soon replace an annotation it did not write; until then the
  actuator acts on it.
- Names and key IDs drawn at random are fresh.
- The AWS SDK retries a request whose answer was lost: `NewClient` leaves its
  default retries on. For `CreateUser` and `CreateAccessKey` the retry is an
  outcome of its own (`sdkRetry`): the user "already exists", or has two keys of
  which one is known to nobody. For the other requests it is one of the outcomes
  that are there anyway: putting or deleting a policy, tagging and deleting a
  user may be done twice, and a `DeleteAccessKey` that finds its key gone fails,
  as it does when its answer is lost.
- The caches of requests lag, those of secrets may (`SecretLag`), and that of
  the ClusterOperator (`COLag`); namespaces, the Infrastructure object and the
  admin secret are read as stored by the controller.
- A client that was built works to the end of the call. The permissions of the
  read-only user are not modelled: a live key suffices. The read of a policy and
  the request that replaces it are one step.
- What AWS allows the admin keys is one of six cases, those the two permission
  checks can tell apart.
- Deleted objects have no finalizers but the operator's. Time of back-offs and
  resyncs is left out: each ends at some time.

## The runs

`w1` is the process, `c1` an ordinary request with the secret `r1` (or `r2` in
the namespace `n2`), `cro` the request for the operator's read-only credentials
in the secret `ro`.

| Run | Shows |
|---|---|
| `Lifecycle` | Stale caches and one failed call, lost answer, SDK retry, crash or deletion of the namespace anywhere, through creation, an edit of the policy and deletion: `NoOrphanUser`, `KeysAreReplaced`, `UserNameStable`, `UserDeletedOnlyWithRequest`, `TypeOK`, and the refinement `ImplementsLifecycle` |
| `OutsideChanges` | Two requests, one of them the operator's own, and one edit of IAM, of a target secret or of the admin secret (removed, emptied, with any annotation or none) at any point: `NoOrphanUser`, `MintedSurvivesAdminRemoval` |
| `SkippedSync` | A lagging secret cache that has caught up whenever a call looks up the target secret (`FreshReads`), edits of policy and target, one fault or SDK retry: `SkippedSyncIsSound`, `AbandonedSecretIsDead`, `DeletedRequestLeavesNoSecret` |
| `Liveness` | With fairness and two faults, SDK retries or edits that remove and restore the admin secret: `DeletionCompletes`, `RequestsGetProvisioned` |
| `Operator` | Watches, queue and lagging caches with one failed call, crash, edited secret or deleted namespace: `NoLostWakeup`, `QueueConsistent`, `OperatorTypeOK` |
| `OperatorLiveness` | Two requests that fail for ever, one fault around the ClusterOperator: `NobodyStarves`, `StatusConverges` |
| `SecretAnnotator` | One edit of the secret, one of the permissions, one fault: `NeverClaimsTooMuch`, `AnnotatedAtRest`, `AnnotationConverges`, `TypeOK` |

Five runs show that the code does not do what a comment or the repository's
README says; each has one property and a counterexample:

| Run | What happens |
|---|---|
| `RolloutOrphan` | No leader is elected, so two processes of a rollout overlap. One deletes the request and finds no user; the other then creates the user it was about to create, and the finalizer is removed: the user is orphaned. |
| `StaleSecret` | The request and the secret are stale in the caches: a second call revokes the key just issued, cannot create the secret and loses its status update to a conflict. The request is then skipped for an hour with a dead key in its secret. |
| `MissingUser` | A user deleted in AWS while its secret exists is never created again: `needsUpdate` fails before `syncMint` is reached. |
| `NamespaceWakeup` | A provisioned request is pointed at a namespace that does not exist yet. It stays marked as provisioned, so `namespaceMapFn` leaves it out when the namespace is created; only the resync helps. `NoLostWakeup` is stated with this exception. |
| `AdminRemoval` | The admin secret is removed after every request is fulfilled. The request for the read-only credentials may only use the admin ones to check its user, so its hourly sync fails. `MintedSurvivesAdminRemoval` is stated with this exception, and for passthrough. |

Further observations, not runs of their own:

- `needsUpdate` has a branch that checks the permissions of passed through keys
  (`actuator.go:228-237`). It is for requests without a user, and `Exists`
  answers no for those (`actuator.go:126`), so the branch is unreachable: every
  sync in passthrough mode goes on to the admin secret, and fails once that is
  removed. The model has no action for it.
- `createUser` answers "already exists" with nil and no error, and `syncMint`
  dereferences it. The SDK's retry of a lost answer gets there. `Liveness`
  includes this panic: the restarted process finds the user and finishes.
- After an SDK retry of `CreateAccessKey` a user has two live keys, and the
  unknown one stays until the next rotation. `KeysAreReplaced` states what the
  code does ensure: no key is issued while an old one is left, so unknown keys
  do not pile up and the limit of two is not met.
- The lookup of the target secret in a deletion
  (`credentialsrequest_controller.go:312`) is served from the cache as well. When
  a request is deleted soon after its secret was written, the lookup may find
  nothing, the finalizer goes, and the secret stays: TLC finds this in the
  instance of `StaleSecret` when asked for `DeletedRequestLeavesNoSecret`.
- A target secret without any data has a nil map; `syncAccessKeySecret` writes
  the key into it (`actuator.go:853`) and panics, at every retry, where the
  comment at `actuator.go:673` promises "generation of a new key and updating the
  secret". The model has the panic and the restart.
- An annotation on the admin secret that the code does not know makes `sync` fall
  through its branches and return nil (`actuator.go:312`), so the request is
  marked as provisioned, and skipped for the hour, without a user or a secret.
  The annotator replaces such an annotation, but no sync waits for that.
- The annotator notices changed permissions only at the resync, and keeps
  retrying while the admin secret is missing.

### Bounds, and why they are enough

`MaxFaults` is 1 in the runs of safety properties: these are about what one
interruption leaves behind, and the next calls start from the stored state;
several faults are covered by the proofs, which have no bound. It is 2 in
`Liveness`, so that the admin secret can be removed and restored: without that
the premise of its properties, that in the end there is an admin secret, would
leave out every behaviour in which it was ever missing. `MaxGen` 2 allows one
edit after the first spec, `MaxHours` 2 lets the hour of the skip run out once.
A request deleted and created again is included. `Deletable` bounds which
requests users delete. `FreshUser` and `FreshKey` need a value nothing holds;
with few keys a behaviour may stop issuing keys, which the deadlock check and
the liveness properties would show as a stuck call. Requests share no state but
the read-only credentials, which `OutsideChanges` has, and the queue and the
ClusterOperator, which `OperatorLiveness` has. The instances of `Operator` use
passthrough or insufficient admin credentials, which keeps IAM out of the
state: minting is checked with `Reconciler`, which `Operator` is proved to
implement. In `Operator` no request is in the operator's namespace, since the
content of the status is the subject of `OperatorLiveness`. There the
ClusterOperator is read as stored; two requests with a lagging cache of it are
a large instance for a liveness property, so only `Operator` has `COLag`. Keys,
users and policies are interchangeable, hence the symmetry; runs with liveness
properties use none. `FreshReads` is a `CONSTRAINT` of `SkippedSync`:
behaviours are followed only as long as it holds. All runs but `RolloutOrphan`
have one process, the one replica the Deployment asks for. What is known of two
that overlap is the counterexample of that run and the theorems for any number
of processes. `EditedRoots` bounds what an edit makes of the admin secret.
`SecretAnnotator` may stop for good when there is no secret, so deadlock is not
checked there.

### Fairness

In `Reconciler`: `WF` of a process's next step (the worker goroutine goes on and
every remote call returns or fails), of the restart after a panic (the kubelet
starts the container again) and of the informers (the watches deliver); `SF` of
`Reconcile` for each request. `NobodyStarves` shows where that `SF` comes from:
with weak fairness only, of the worker, the watches, the back-off and the
resync, `Operator` reconciles each request again and again, unless users change
the cluster without end. `SecretAnnotator` assumes `WF` of its worker, watch,
back-off and resync. Nothing is assumed of users, of the clock or of faults.

## What is proved

The theorems are checked by TLAPS. They hold for every value of the constants
that satisfies the assumptions named in the modules, hence without the bounds of
the runs: any number of requests, secrets, users, keys, edits and faults.

| Assumption | Says |
|---|---|
| `SetsAssumption` (`Cluster`) | the constants have the types they are declared for |
| `DistinctAssumption` (`Cluster`) | `None`, the admin key and the marks for missing data are no request, user, key or object |
| `FiniteAssumption`, `StatusAssumption` (`Operator`) | there are finitely many requests, those in the operator's namespace are among them, and the bound on faults is a number |
| `BoundsAssumption`, `NoneAssumption` (`SecretAnnotator`) | the bounds are numbers, and `None` is no secret, mode or credentials |

### How the proofs are organised

The argument has two halves that meet in `Steps`. `CallProofs` goes through every
action of `Reconciler` and `AWSActuator` once and shows that its steps are as
`Steps` states them (`StepsAreAsStated`): which copies of the request a call
keeps, what it may write to IAM, to a secret or to the request, and what it must
have seen before. The invariants about users, syncs and secrets are then proved
from `StepFacts` and from nothing else about the actions; the wake-ups need
`MindFacts` besides, what a call still knows of its request. A change of the
code that keeps these facts leaves the proofs as they are.

- `ReconcilerProofs`: types and the locals of a call, straight from the actions.
- `CallProofs`: `StepFacts`; what a call knows of its request (`CallsKnow`); the
  copies of a request never claim a sync that failed (`CopiesAreHonest`).
- `LifecycleProofs`, `SyncProofs`, `SecretProofs`: the steps of the invariants
  about users, about skipped syncs and about secrets left behind.
- `OperatorProofs`: the steps of the invariants of the queues, the types and the
  wake-ups.
- `SystemProofs`: the theorems about `Reconciler` and `Operator`, each a few
  lines that put the parts together.
- `SecretAnnotatorProofs`: the annotator, on its own.

### The controller

For any number of processes:

- `TypeCorrect`: `Spec => []TypeOK`. `CallsAreGood`: `Spec => []TypeInv`.
  `TypeOK` alone is not inductive: that a step may look up `iam[UserName(w)]`
  depends on the call having a user name there. `GoodWorkers` adds what every
  running call knows about its copies: where the user is used there is a name,
  the base names the same user or none, only a request with the finalizer is
  synced, and only a deleted one is deprovisioned.
- `NamesAreStable`: `Spec => UserNameStable`. Every write passes the conflict
  check with a base that names the same user or none.
- `NamesAreUnique`: no two requests share a user name in any copy. `LifeInv` adds
  that a request without the finalizer has no user yet, and that a call past the
  finalizer holds a request that has it.

For a single process (`SingleProcess`: `replicas` is 1 and no rollout overlaps;
with two processes `NoOrphanUser` is false, see `RolloutOrphan`):

- `NoOrphans`: `Spec => []NoOrphanUser`. `OrphanInv` says in addition that a
  cached copy with the finalizer and a user, and not deleted, names a user the
  stored request still owns; once the cache shows a deletion, no live stored
  request of that name has a user yet; a call that syncs owns the user it works
  on; a call that deletes has nothing left in its cache or in the store that a
  sync could use, and once `Actuator.Delete` has returned the user is gone. The
  steps split into the regular ones, which keep every owner (`Regular`), and
  four others: removing the finalizer, starting a call, a cache that catches up,
  and a restart.
- `ReconcilerImplementsLifecycle`: `Spec => ImplementsLifecycle`, the refinement
  of `CredentialLifecycle` under the mapping of `ReconcilerRefinement`, from
  `LifeInv` and `OrphanInv`. The abstract specification is one of safety.
- `UsersOutliveRequests`: `Spec => UserDeletedOnlyWithRequest`, when nobody else
  deletes users in AWS (no `iamEdits`), which the property would count too.
- `KeysAreReplacedWhole`: `Spec => KeysAreReplaced`. `KeyInv` says that a call
  that rotates keys has listed every key that is left, and that none is left when
  it creates one. Others may delete keys meanwhile. How many keys a user has does
  not enter: an SDK retry gives it two.
- `DeletionsLeaveNoSecret`: `Spec /\ []FreshReads => DeletedRequestLeavesNoSecret`,
  when nobody else creates target secrets (no `secretEdits`). `FreshReads` says
  that when a call stands at a lookup of its target secret, the cache shows it
  as stored; at all other times the cache may lag. Without it the property is
  false, as noted above. `GoneInv`: a call that removes the finalizer has
  seen the secret of its copy gone; the conflict check does the rest.
- `SkippedSyncsAreSound`: `Spec /\ []FreshReads /\ []ProperAdmin =>
  []SkippedSyncIsSound`, under `Undisturbed`: only the operator changes target
  secrets and IAM users, namespaces stay, and no two requests name the same
  secret. Each of these, broken, changes what was synced behind the operator's
  back, and the code notices at the next hourly sync. `FreshReads` is needed
  because of `StaleSecret`. `ProperAdmin` says that the admin secret has no
  unknown annotation (with one, a sync does nothing and succeeds) and, when
  annotated for passthrough, has its keys: without them a sync updates the
  annotations of an existing secret, leaves its key as it is and reports
  success. The admin secret may otherwise be removed, restored and annotated anew at any time. Three
  invariants carry the proof: `LineageInv`, every copy of a request in a cache or
  a call is an older one of the stored request, and has its spec if it has its
  generation; `TargetInv`, every copy names a secret that is its request's to
  name; `SyncInv`, a running sync has made or seen what it relies on by the time
  it records its success.
- `AbandonedSecretsAreDead`: `Spec /\ []FreshReads /\ []ProperAdmin =>
  []AbandonedSecretIsDead`, under `Undisturbed` and with an unchanged admin secret
  (no `rootEdits`): if it turned from mint to passthrough, the sync for the new
  spec would pass the admin key on and leave the minted one alive. `DeadInv` says
  that a key belongs to one user, that a live key in a secret is one of its
  request's user and that no two secrets hold live keys of one user
  (`SecretKeys`), that a call holds a new key only while no secret has a live one
  of its user, and keys come from where the admin secret says (`SourceInv`), and
  that a call about to record a sync for the current spec has left the other
  secrets of its request dead (`AbandonedInv`). A user may have two keys, but at
  most one of them is in a secret: `KeyInv` says that the old ones were gone
  before.

### The running operator

- `OperatorImplementsReconciler`: `OperatorSpec => Spec`. Every step of
  `Operator` is a step of `Reconciler` or leaves its variables alone, so all of
  the above holds for the operator as it is woken. `OperatorLeavesNoOrphans`
  states this for `NoOrphanUser`.
- `QueuesAreConsistent`: `OperatorSpec => []QueueConsistent`, for any number of
  processes. `QueueInv` adds the type of the queues. Each watch, back-off, resync
  and restart is reduced to lemmas about `AddAll`, `Get`, `Done` and `Retry`.
- `OperatorTypeCorrect`: `OperatorSpec => []OperatorTypeOK`.
- `NoWakeupIsLost`: `OperatorSpec => []NoLostWakeup` for a single process.
  `WakeInv` says of every request that it is in the queue, or being reconciled,
  or about to come back after an error, or `Quiet`: its cached copy needs nothing,
  or the stored request has moved on and the watch will report it. A running call
  whose request is not queued again knows it as `CallKnows` says, so that it ends
  with an error, which brings the request back, or leaves it quiet. `HonestInv`
  is needed for the hourly skip: a recent sync that is recorded for the current
  spec succeeded.

### The secret annotator

`AnnotatorTypeCorrect`, `RestsOnlyWhenAnnotated` and
`AnnotatorNeverClaimsTooMuch`: `Spec => []TypeOK`, `Spec => []AnnotatedAtRest`
and `Spec => NeverClaimsTooMuch`. `AnnotatorInv` adds to the types that a current
copy is the stored secret (`CopiesOK`), that what a call has learnt from AWS so
far is right (`VerdictOK`), and that a wrong annotation the cache shows is
queued, delayed or being worked on (`Remembered`).

### Only model-checked

- The liveness properties `DeletionCompletes`, `RequestsGetProvisioned`,
  `NobodyStarves`, `StatusConverges` and `AnnotationConverges`: they rest on
  fairness, which the prover does not handle.
- `MintedSurvivesAdminRemoval`: it is about the removal of the admin secret as
  the only disturbance, which the run states with `MaxFaults` 1. It is not true
  for every value of the constants: when a call fails besides, the request is
  marked as failed until the next sync. A theorem would have to count the
  faults, and no invariant here does.

## Not modelled

- **Azure actuator** (`pkg/azure`): it has no reachable states.
  `AddToManager` calls `azure.NewActuator`, which reads the annotation of
  `openshift-config/azure-creds` through the manager's cache before the manager
  is started. The vendored cache is empty until then, the read answers NotFound,
  and the process ends.
- **User names**: the truncations at 20 and 37 characters, two hyphens and five
  random characters add up to 64 by a constant sum. Whether a random name is
  taken is a matter of probability.
- **`getOperatorState` without the operator's namespace**: the namespace exists
  while the operator runs in it.
- **The length of back-offs**, and error messages that change with every
  failure and so wake a request early.
- **Codec, generated deep copies, mocks, registration, metrics and logging**:
  serialisation and wiring without protocol state.
