# Verification of the operator-certification-operator

The operator watches `OperatorPipeline` resources (CRs). For each one it clones the
`operator-pipelines` repository, applies the pipelines and tasks it finds there, creates
cluster-scoped access rules, imports two image streams and reports on all of this in the CR's
status. This directory holds TLA+ models of that program, the TLC runs that check them on small
instances, and TLAPS proofs of the most important invariants for every instance.

Paths are relative to `src/`; `controller.go` stands for
`internal/controller/operatorpipeline_controller.go` and the files of `internal/reconcilers/` are
named without their directory.

## 1. Inventory

| Component | State | Operations |
|---|---|---|
| OperatorPipelineReconciler (`controller.go`) | the CR's finalizer; the work queue and the one worker of controller-runtime; informer caches | `Reconcile`: apply path (five reconcilers, then the finalizer), delete path (two Lists, three deletions, release); `SetupWithManager`: the watches |
| PipelineGitRepoReconciler (`pipeline_git_repo.go`) | one clone on disk for all CRs: references, worktree, HEAD | clone or open, fetch, pick a reference by the suffix of its name, check it out |
| PipelineDependenciesReconciler (`pipeline_dependencies.go`) | pipelines and tasks in the CR's namespace; SCC, ClusterRole, one ClusterRoleBinding per namespace | read a manifest from the worktree, label it, set its owner, Get, then Update or Create |
| CertifiedImageStreamReconciler, MarketplaceImageStreamReconciler (`certified_image_stream.go`, `marketplace_image_stream.go`, `internal/objects/objects.go`) | two ImageStreams per namespace and their owners | ask Pyxis for versions, look the stream up, import it or set its owner |
| StatusReconciler (`status.go`) | twelve conditions and `observedGeneration` of a CR | twelve checks in a fixed order, deferred write of the status |
| API types (`api/v1alpha1/`) | spec and status of a CR | none |
| Pyxis client (`internal/pyxis/`) | none | one read-only HTTP query |
| Manager, deployment (`cmd/main.go`, `config/`) | one replica, leader election, an `emptyDir` for the clone | start-up |

How they interact:

- `Reconcile` calls the reconcilers one after the other in one goroutine
  (`controller.go:123-142`). None of them stops the others: a failure only asks for a requeue.
- Reads go through the manager's client to informer caches, writes go to the API server. A write
  with an old `resourceVersion` is rejected; whether it *is* old depends on an informer that may
  lag and on what the same pass has written before.
- CRs share the worker, the clone, the SCC and the ClusterRole; the CRs of one namespace also
  share its ClusterRoleBinding, pipelines, tasks and image streams.
- The controller is woken by events of CRs, by events of objects that the CR owns, by its own
  requeues and by the periodic resync. The watches on the cluster-scoped kinds
  (`controller.go:214-222`) do not wake it: the owner they name is looked for in the object's own
  namespace, which is empty. User secrets are not watched.

What is hard here: counts taken from a cache decide whether shared objects are deleted; users act
between any two API calls of a pass; calls fail, or succeed with the answer lost; the manager
restarts in the middle; the status write makes the finalizer update of the same pass conflict;
errors of the status write are only logged; a pass that stops early leaves part of the status
behind. `PROJECT.json` lists these as hazards, each at its line.

What makes each component correct:

- **OperatorPipelineReconciler**: no live CR loses its cluster-scoped objects, no object outlives
  its CRs, deletions complete, no CR is left waiting with nothing to wake the controller.
- **StatusReconciler**: stored conditions form a consistent picture although passes stop early and
  writes get lost; reported failures are retried; the status becomes accurate.
- **PipelineGitRepoReconciler**: the worktree that a pass applies is the release its CR names.
- **PipelineDependenciesReconciler**: what the worktree says is what the cluster gets; the label
  that teardown lists by is on every object; objects live while some CR needs them.
- **ImageStreams**: streams exist, with an owner, while some CR of the namespace needs them.

## 2. Plan

| # | Module | What |
|---|---|---|
| 1 | `OperatorPipelineController`, `MCController`, `OperatorPipelineControllerProofs` | the finalizer protocol and the cluster-scoped objects |
| 2 | `StatusReconciler`, `StatusReconcilerProofs` | the conditions of one CR |
| 3 | `PipelineGitRepo`, `MCGitRepo`, `PipelineGitRepoProofs` | the shared clone: references, fetch, reset, checkout, CRs of different releases |
| 4 | `NamespaceObjects`, `MCNamespace`, `NamespaceObjectsProofs` | the objects that the CRs of a namespace share: pipelines, tasks, image streams; owners, garbage collection, Get/Update/Create/Delete, import |
| 5 | `ProvisioningProofs` | live CRs have their cluster-scoped objects, also with deletions at any time and in the foreground |
| 6 | `LifeCycle`, `PromptControllerProofs` | what module 1 promises of the shared objects, and the proof that it implements this |
| 7 | `StatusReports`, `StatusReportsProofs` | what module 2 promises to readers of a status, and the proof that it implements this |

Module 1 comes first because everything destructive happens there, module 2 because it is what
users see, module 3 because what it leaves on disk is what module 4 applies. Module 4 holds the
composition with the worktree in a small form: `tree` has the releases whose files the git step of the pass, or
of earlier ones of other CRs, has left, and manifests are created from them.

Each safety invariant and action property of a passing run is proved, and so are the two refinements.
What is model-checked only are the liveness properties: `ObjectsAreProvided`, `DeletionCompletes`,
`FinalizerIsAdded`, `StatusConverges`, `ReleaseConverges`, `ObjectsReturn`, `StreamsGetOwners` and
`NothingIsLeft`. They rest on fairness, whose proofs need ENABLED, which the prover does not handle.

What could still be added: an abstract specification of the worktree for module 3, `LifeCycle` for
deletions at any time, the composition of modules 1 and 2 in one pass, and several versions of
the manifests in module 4 with tasks that one release has and another one lacks.

## 3. OperatorPipelineController

### State and actions

| Variable | Stands for |
|---|---|
| `api`, `status` | the CRs in the API server: phase and finalizers; what the status reports of the present generation |
| `objs` | the cluster-scoped objects that exist: `SCC`, `ClusterRole`, and each namespace `n` for its ClusterRoleBinding |
| `cached`, `current`, `objCache` | the informers' caches; `current` has the CRs whose cached copy is the stored version |
| `queue`, `pc`, `req`, `currentPipeline` | work queue, and the worker's place, request and copy of the CR |
| `fresh` | the worker's copy has the stored `resourceVersion`, so that an update with it will not conflict |
| `failed` | the `requeueResult` of the pass |
| `health` | whether the checks of the status reconciler would fail now |

Versions are not numbers: `current` and `fresh` say of each copy whether it is the stored one,
which is all that a comparison of versions ever tells. Every write clears both.

| Action | Code |
|---|---|
| `GetPipeline`, `GetFails` | `r.Get`, the not-found return, the branch on `DeletionTimestamp`; the return on any other error (`controller.go:61-80`) |
| `ApplyNamespacedManifests` | the git and dependencies reconcilers up to the cluster-scoped objects |
| `ApplySCC`, `ApplyClusterRole`, `ApplyBinding` | `applyManifests` for each of the three (`pipeline_dependencies.go:101-179`) |
| `ApplyImageStreams` | the two image stream reconcilers, as success or failure |
| `CommitStatus`, `CommitStatusFails` | `commitStatus` (`status.go:160-172`) |
| `AddFinalizer` | `controller.go:144-153` |
| `ListNamespace`, `DeleteBinding`, `ListCluster`, `DeleteClusterRole`, `DeleteSCC`, `RemoveFinalizer` | the delete path (`controller.go:80-121, 156-208`) |
| `ListFails` | the error returns of the two Lists (`controller.go:86-88, 101-103`) |
| `Crash` | restart: caches are listed anew, every CR is queued |
| `UserCreates`, `UserEdits`, `UserDeletes`, `ForegroundDone`, `PipelineInformerSyncs`, `ObjectInformerSyncs`, `Resync`, `HealthChanges` | the surroundings |

A teardown step that fails ends the pass with an error; a call may fail with or without having
taken effect. An update of a cluster-scoped object changes nothing, because `Get` has overwritten
the manifest by the live object (`pipeline_dependencies.go:158-165`). `CommitStatus` writes
through a copy: after it, `fresh` is false, and `AddFinalizer` in the same pass conflicts. A CR
therefore gets its finalizer on a later pass, once its status no longer changes.

Three constants choose the surroundings. `LaggingCache` lets the worker act on old caches;
`EarlyDeletion` lets users delete CRs that have no finalizer yet; `ForegroundDeletion` lets them
delete with foreground propagation. The invariants that hold in every setting are proved for
every setting; the other properties name the settings they need, and what happens without them is
in section 8.

### Runs

| Run | Instance | Shows |
|---|---|---|
| `controller_safety` | 2 CRs, 1 namespace, 3 disturbances, lagging caches, early deletion | `TypeOK`; `NoStuckPipeline`: no lost wake-up; `TeardownSparesFinalizedPeers` |
| `controller_prompt` | 3 CRs, two of them in one namespace, 4 disturbances, caches up to date, no early or foreground deletion | `SettledIsProvisioned`: live CRs keep their objects; `NoOrphans`: deleted ones leave none; `ImplementsLifeCycle`: every step is one of `LifeCycle` or changes nothing there |
| `controller_liveness` | 2 CRs, 1 namespace, 3 disturbances, caches up to date, all deletions, fair | `ObjectsAreProvided`, `DeletionCompletes`, `FinalizerIsAdded`; `SettledIsProvisioned` also with these deletions |
| `controller_stale_count` | 2 CRs, 1 namespace, 3 disturbances, lagging caches | violation of `OneItemMeansLast` |
| `controller_early_deletion` | 1 CR, 2 disturbances, early deletion | violation of `NoOrphans` |

Bounds. Two CRs are the least for which the count matters: one torn down and one peer. One
namespace makes them share the binding. Three CRs in two namespaces tell the two counts apart: a CR can
be the last one of its namespace and not of the cluster.
`MaxDisturbances` bounds creations, edits, failed calls, crashes and health changes together:
three allow two creations and one fault at any place, four allow three creations and a fault, or a
deleted CR to be created again next to a fault. User deletions, informer steps, resyncs and passes are not bounded. The safety
properties are proved for any number of CRs, namespaces and disturbances.

Fairness. `WF(Step)`: a pass that has begun goes on, since its calls return or time out.
`SF(Start(p))` for every CR: client-go's queue hands out what is in it and does not starve an
item; strong, because with `LaggingCache = FALSE` the start of a pass is disabled again and again
while events arrive. `WF` of the informers, of the resync and of foreground deletion: the watch
protocol, the informers' timer and the garbage collector. Users and faults have no fairness and
are bounded: a user who creates and deletes peers without end can fail another CR's teardown
every time, so without the bound deletions need not complete. Crashes and health
changes repeated without end keep the finalizer off in the same way. The liveness run keeps
caches up to date, to keep the state space small enough for liveness checking; the safety run
covers the lost wake-ups of lagging caches.

### Proofs

`OperatorPipelineControllerProofs` proves, for arbitrary constants that satisfy the three `ASSUME`s of
the module (finitely many CRs, distinct names of objects), without restriction on the settings:

- `TypeCorrect`: `Spec => []TypeOK`.
- `CacheInvariant`: `Spec => []CacheInv`. A lagging cache may show a CR that is gone, or lack one
  that is there, but it never lacks a CR that *holds the finalizer*. A finalizer is only added by
  an update that is not rejected, so by a worker whose copy was the stored version, so the CR had
  been in the cache when it was read, and a cache only moves forward (`FinalizedIsCached`).
  `CacheInv` says this together with what the induction needs: a cached copy that is `current` is
  what is stored (`CacheAgrees`), a pass that is `fresh` works on what is stored and cached
  (`FreshPass`), and each branch of `Reconcile` runs on the kind of CR its guard asked for.
- `TeardownSafe`: `Spec => []TeardownSparesFinalizedPeers`. The property is inductive relative to
  `CacheInv`. The List counts every guarded peer, by `FinalizedIsCached`, and the CR of the pass
  itself, so a count of one leaves no guarded peer (`OnlyOneIsReq`); and no peer can get a
  finalizer later in the pass, because only the one worker adds finalizers and it is busy with the
  teardown (`NotGuardedStays`).
- `NothingStuck`: `Spec => []NoStuckPipeline`. `OwedWork` says that every CR that waits for its
  finalizer, or for its release, is queued, has a watch event on its way, or is being worked
  on. A pass may only end with its request put back or with its CR rewritten (`FinishKeepsOwed`);
  the case that needs the strengthening is the conflict, which ends a pass without any write.

Facts about `Cardinality` come from `FiniteSetTheorems`.

### The abstract life cycle

`LifeCycle` has two variables: the life of each CR (`absent`, `new`, `guarded`, `leaving`) and the set
of objects. An object comes when some CR needs it; it is removed for a CR that leaves, and only if
every other CR that needs it is `new`, without the finalizer and with its pass still to come; a CR that leaves
goes when its objects are gone or needed by others. `EveryObjectHasAUser` follows.
`OperatorPipelineController!ImplementsLifeCycle` is `LC!Spec`, where `LC` maps `api` to lives by
`Life`, and `objs` to itself.

The refinement needs `Prompt`, the negation of the three settings, and each of them is needed: with
`EarlyDeletion` a CR goes without a teardown (finding 2); with `LaggingCache` a pass over a CR that is gone
deletes the binding of a live one (finding 1); with `ForegroundDeletion` a CR that the operator has released is
still counted by others (section 8).

### Live CRs have their objects

`ProvisioningProofs` proves `ProvisionedWhenCachesKeepUp`: if `LaggingCache` is `FALSE`,
`Spec => []SettledIsProvisioned`, with deletions at any time and in the foreground. The inductive
invariant has two parts. `OwedObjects` says that a live CR has its objects, or is queued, or has a watch event on
its way, or is being worked on, and that a pass without a failure has applied what it has come past
(`Applied`). `TeardownHolds` says that the CR of a teardown is being deleted and holds its
finalizer to the end of the teardown, so that a count of one
in the List is its own: a teardown removes an object only when no other CR that needs it was there, and one
created since then is still to be handled. No user can take that away (`OutsideWrites`): a CR that is being
deleted only goes when its finalizers do.

Caches have to keep up. With lag, a pass may work on a stale copy of a CR that is already gone and leaves
the cache in the middle of the pass; the List then counts one, a live peer, and the teardown deletes that
peer's binding (finding 1).

### Proofs under `Prompt`

`PromptControllerProofs` assumes `Prompt` in each theorem and builds on `CacheInvariant`.

- `PromptInv`: a CR that is being deleted holds the operator's finalizer and no other
  (`DeletionIsOurs`); the CR of a pass exists at least as long as its teardown lasts
  (`PassHoldsCR`); at each place of a teardown the objects passed are gone or needed by another CR
  (`TornDown`). The last one is stable because no CR but the one torn down can go, and because a pass that
  could create objects is not under way.
- `ImplementsLifeCycleWhenPrompt`: `Spec => ImplementsLifeCycle`. One lemma per action says which step of
  `LifeCycle` it is; `RemoveFinalizer` is `Release` by `TornDown`, `DeleteObject` is `Remove` because the
  count was one and every guarded CR is counted.
- `NoOrphansWhenPrompt`: `EveryObjectHasAUser` is an invariant of `LifeCycle`, so it holds of the controller.

Model-checked only: liveness, which is out of reach of the prover.

## 4. StatusReconciler

One CR, one pass at a time. `stored` is the CR with its conditions (a reason and an observed
generation each; True iff the reason is `AsExpected`), `cached` the informer's copy, `pipeline`
the deep copy a pass works on, `position` the next check. `resources` says for each check what it
would find: `ok`, `missing` or `invalid`, and may change between any two checks.

| Action | Code |
|---|---|
| `BeginPass` | the copy and `observedGeneration` (`status.go:60-71`) |
| `CheckGitRepo`, `CheckSecret`, `SkipSecret`, `CheckPipeline`, `CheckTasks`, `CheckImageStream` | the checks in the order of `status.go:73-151`, each with its reasons (`status.go:188-479`) |
| `ReadFails` | the error returns of the checks: with a condition or without, as in the code |
| `CommitStatus`, `CommitFails` | the deferred `commitStatus`; conflicts and errors are logged only |
| `UserEdits`, `MetadataChanges`, `ResourceChanges`, `InformerSyncs`, `Resync`, `Crash` | the surroundings |

A condition that a pass does not reach keeps its old value and generation. A missing secret is
reported with the reason of a missing key, because the key is looked up before the secret's
absence is (`status.go:237`), which leaves the `NotFound` branch at `status.go:258` without effect;
`SecretReason` has what the code does.

| Run | Instance | Shows |
|---|---|---|
| `status_safety` | 3 generations, 2 volatile resources, an editable pipeline, 2 disturbances | `TypeOK`; `FailureIsRetried`; `GenerationsDescend`: the observed generations of required conditions never increase along the order of checks, so the last one vouches for all; `GenerationsAdvance`: no write takes the status back; `ImplementsReports`: each write of the status is a report that `StatusReports` allows |
| `status_liveness` | 2 generations, 2 volatile resources, failing commits, 2 disturbances, fair | `StatusConverges`: accurate down to the first failing check, and it stays so |
| `status_tasks` | 1 generation, tasks that may be missing | violation of `TasksReadyMeansPresent` |

Bounds. The checks are independent apart from the order, so two volatile ones (an earlier and a
later) give every interference between two; all twelve run in each pass. Three generations let
the stored, the cached and the edited spec all differ. `MaxDisturbances` bounds resource changes,
failed reads, crashes and metadata writes together; two are a change and a fault, or two changes
within a pass.

`FailureIsRetried` is checked without failing commits (`CommitsFail = FALSE`): a pass that found
nothing wrong and lost its commit is not repeated, so a stale failure stays until the resync.
Conflicts are included. `StatusConverges` is checked with failing commits, since the resync, which it
assumes fair (the informers' timer), repairs them. `WF(Pass)`: the worker takes what is queued and
a pass goes on.

Left out: `PipelinesRepoHash`, the texts of messages, `LastTransitionTime`.

### Proofs

`StatusReconcilerProofs`, for any constants that satisfy `StatusAssumption`:

- `StatusTypeCorrect`: `Spec => []TypeOK`.
- `GenerationsSound`: `Spec => []GenerationInv`. Every copy of the CR, stored, cached or worked on,
  is `Sound`: its required conditions descend, and none observes a generation beyond the spec's.
  For a pass to keep this, the required checks before its place must be of the copy's own
  generation (`DoneBefore`), which the early returns guarantee: a check that failed is not passed
  over (`CheckFacts`). Optional checks are passed over, so nothing is claimed of them. A copy that
  is still `fresh` is not behind the store.
- `StoredGenerationsDescend` and `StoredGenerationsAdvance` follow from it; the second is an action
  property, for which the commit is the case that matters: only a fresh copy is stored.

- `FailuresAreRetried`: if `CommitsFail` is `FALSE`, `Spec => []FailureIsRetried`. `RetryInv` adds
  to the property that a pass that asks for no requeue has found nothing wrong so far, so that its commit
  reports no failure, and that a pass with an old copy, whose commit will conflict, has another one
  queued or a watch event on its way.

### The abstract reports

`StatusReports` has one variable, the CR as it is stored, and no pass, cache or queue: a step is an edit, or
one whole report on the CR as it is at that moment. A report says of the checks, in their order, that they hold, down
to the first that does not, which it names with a reason, or leaves out if its read failed
without a word (`Silent`); everything after that keeps what it said. `ImplementsReports` is `Reports!Spec`
with `cr` mapped to `stored`.

`StatusReportsProofs` proves `StatusImplementsReports`: `Spec => ImplementsReports`, for any constants that
satisfy `StatusAssumption`. A pass takes many steps, between which the spec may be edited and the cache may change, and its
write comes last. `ReportInv` says what a pass whose copy is still `fresh` has built up so far: at
place `position`, the stored CR with every check before it reported as holding (`GoodUntil`), and at the
commit a complete report (`IsReport`). A pass with an old copy may have built something else, but its
write is rejected. One lemma for each kind of check shows that it extends the report by
one place or closes it; `CommitStatus` is then the step of `StatusReports`, all others stutter or are edits.

Model-checked only, as liveness: `StatusConverges`.

## 5. PipelineGitRepo

One clone on a volume serves all CRs, one worker makes the passes of all of them in turn.

| Variable | Stands for |
|---|---|
| `remote` | upstream's branches and tags; a commit is a pair of the name it was pushed to and a number |
| `wanted` | the `operatorPipelinesRelease` of each CR |
| `cloned`, `refs`, `head`, `tree` | the directory exists; its references in the order of an iteration; HEAD; whose files the worktree has, or `Mixed` |
| `pc`, `req`, `release`, `hash`, `failed` | the pass: its place, CR and release, the commit found, whether `cloneOrPullRepo` has failed |

| Action | Code |
|---|---|
| `Clone`, `Open` | `PlainClone`, or `ErrRepositoryAlreadyExists` and `PlainOpen` (`pipeline_git_repo.go:58-77`) |
| `Fetch` | `r.Fetch` with all tags (`:79-82`) |
| `FindReference` | the iteration and the suffix (`:84-104`) |
| `Reset`, `Checkout` | the hard reset to HEAD and the checkout of a hash (`:106-123`) |
| `StepFails`, `Fails` | the error returns; `Reconcile` returns the error and the loop of `controller.go:134-142` goes on |
| `Apply` | the reconcilers that read the worktree, and the end of the pass |
| `ContainerRestarts`, `PodIsReplaced` | the process stops, with the volume kept or lost (`config/manager/manager.yaml:69-71` is an `emptyDir`) |
| `Push`, `UpstreamDeletes`, `UserEdits` | upstream and the users |

go-git (v5.19.1 in `go.mod`) is modelled by what these calls do. A clone makes a local branch for upstream's HEAD
beside the remote references, and a fetch moves the remote references and the tags by force,
prunes nothing and does not touch the local branch. References are visited in the order
`refs/heads`, `refs/remotes`, `refs/tags`. A hard reset needs a HEAD that names a commit. A checkout moves HEAD
first and fails if files differ from what HEAD was.
It writes HEAD twice: first the hash that it was given, then, after a look at the files, the commit
that this is or names. For an annotated tag (`Annotated`) the two differ, since `ref.Hash()` is the tag's own
object (`pipeline_git_repo.go:119`): `FirstHead` is then `TagObject`, and a checkout that fails or is stopped between
the writes leaves it in HEAD (`HalfCheckout`), where no reset can use it. Elsewhere the object
of an annotated tag goes by the commit that it names. A failed clone removes its directory, an
interrupted one does not. `EndsWith` is a parameter: the relation between names that `HasSuffix`
decides. An empty release ends every name and is not among the releases.

| Run | Instance | Shows |
|---|---|---|
| `git_release` | 2 CRs, branches `main` and `pre-v1`, tags `v1` (annotated) and `wip-pre-v1`, 2 commits each, 3 disturbances, fair | `TypeOK`; `SuccessInstallsAMatch`: what a successful pass works from is one commit, of its own release; `SuccessInstallsTheRelease`: it is the commit of the very branch or tag asked for, when all is fetched and nothing shadows it; `LeftoversAreHarmless`: no worktree makes a pass fail; `OnlyAPodRepairsAClone`: a clone whose HEAD names no commit stays; `ReleaseConverges`: releases that are not shadowed are followed |
| `git_latest` | 1 CR of `main`, 1 push | violation of `LatestIsInstalled` |

Bounds. Two CRs are enough for one to find what the other left. The names have the three kinds of
references and both ways of being shadowed: by the local branch, and by a branch whose name ends
like a tag's. The tag `wip-pre-v1` ends with both other releases and comes after them, so that the
first match and the last one differ. Two commits tell old from new. Three disturbances are a push, a failure and a
restart, in any order and at any step. Fairness: a pass goes on, and each CR gets passes again and
again, by the requeue after a failure or by the informers' resync; `SF` because the worker is
busy with other CRs in between.

`ReleaseConverges` excepts two states. `Shadowed` releases are finding 4. `Wedged` is a clone
whose HEAD names no commit: the first clone was interrupted before it had a HEAD, or the checkout of an annotated tag
between its two writes of HEAD. The directory exists, so it is never cloned again, and
each reset fails, for every CR, until the pod is replaced.

`PipelineGitRepoProofs` proves for any constants that satisfy `GitAssumption`:

- `GitTypeCorrect`: `Spec => []TypeOK`.
- `PassInvariant`: `Spec => []PassInv`. From the search on, the commit found is that of the *first*
  reference that matches (`First`), because only `Clone` and `Fetch` move references and both come earlier
  in the pass; after the reset the worktree is what HEAD names; a pass that succeeded has the commit of the first match in both.
- `PassInstallsAMatch` and `PassInstallsTheRelease`: `Spec => []SuccessInstallsAMatch` and
  `Spec => []SuccessInstallsTheRelease`. The second needs that each branch and tag has a place among the
  references besides the local branch (`EveryNameHasAPlace`), and that the release, which ends with itself, is
  then the first match unless it is shadowed.
- `LeftoversDoNoHarm`: `Spec => LeftoversAreHarmless`. A checkout can only fail on local changes if files differ from HEAD, and
  `PassInv` says that after the reset they do not.
- `WedgedStays`: `Spec => OnlyAPodRepairsAClone`. HEAD is only written by the first clone and by a checkout, and
  a checkout is behind a reset that needs a HEAD that names a commit.

`ReleaseConverges` is liveness and model-checked only.

## 6. NamespaceObjects

The CRs of one namespace share the pipelines and tasks that the worktree has, and two image
streams. Whichever pass comes first creates an object and becomes its owner.

| Variable | Stands for |
|---|---|
| `phase`, `spec` | each CR: `new`, `guarded` (it has the finalizer) or `gone`; its release and the pipelines it switches on |
| `objs` | each object's owner and content: the release of the manifest it was made from, or the number of versions listed at its import |
| `published` | how many versions Pyxis lists |
| `cache`, `synced` | the informers' copies, and which of them are the stored version |
| `req`, `wish`, `stage` | the pass: its CR, the copy of the spec it works on, its place in `Order` |
| `tree` | the releases that the files of the worktree are of: none without a clone, more than one after a checkout that failed half-way |

| Action | Code |
|---|---|
| `Start` | the Get of the CR and the git step: the worktree becomes its release, or, when the step fails, stays another's or gets some of its files (`controller.go:65-80, 134-142`) |
| `ApplyManifest` | `applyManifests` (`pipeline_dependencies.go:130-179`): what is found is updated with itself, what is not is created with an owner |
| `DeleteManifest` | `deleteManifests` (`:181-207`) for a pipeline that the spec switches off |
| `OwnImageStream`, `ImportImageStream`, `ImageStreamFails` | the two image stream reconcilers (`certified_image_stream.go:46-104`), with `FindOperatorIndices` and `IsObjectFound` |
| `Finish` | the finalizer (`controller.go:144-153`) |
| `PipelineGoes`, `GarbageCollects`, `UserEdits`, `UserDeletesObject`, `Publish`, `InformerSyncs`, `Crash` | the surroundings |

Any error of a manifest ends the dependencies reconciler (`LeaveManifests`) and the pass goes on with
the streams, whose errors end only their own step. Each Get reads the cache, so a Create may find the object there
(`AlreadyExists`), an Update may conflict and a Delete may find nothing. A call that fails may have taken
effect. An import makes a stream without an owner; only a later pass that finds the stream gives it
one, and the failure of that update is ignored, as the code says, "since this should self correct on
subsequent reconciles". `StreamsGetOwners` checks that it does.

| Run | Instance | Shows |
|---|---|---|
| `namespace_objects` | 2 CRs of which one switches the pipeline on at first, one pipeline, one task, one stream, 2 versions, 1 disturbance, fair | `TypeOK`; `ManifestsAreOwned`: every pipeline and task can be collected; `OwnersAreKept`: a pass takes no object from another CR; `ObjectsReturn`: what is needed comes back and stays; `StreamsGetOwners`: streams come to belong to a CR that lives; `NothingIsLeft`: no pipeline or task outlives the last CR |
| `namespace_stale` | 1 CR, two releases, 2 versions, 1 disturbance, fair | violation of `ObjectsAreUpToDate` |

Bounds. Two CRs are an owner and another one that needs the object. There is one object of each kind, since
kinds differ in how they are handled and objects of a kind only in the order of `Order`. The CRs disagree on the
pipeline, so that both branches of `applyOrDeletePipeline` are taken, until one of them goes or is edited. One disturbance is an
edit, a new version, an object deleted by users, a failed call or a crash at any place, next to deletions of CRs, garbage collection,
old caches and passes in any order, which are not bounded. All properties but `TypeOK`,
`ManifestsAreOwned` and `OwnersAreKept` are liveness, and with two disturbances the run is too long; the three are proved for all bounds.

Fairness. `WF(Step)`: a pass goes on. `SF(Start(p))`: the informers' resync queues each CR again and
again, and the one worker is busy with others in between. `WF` of each informer and of the garbage collector.
There is no work queue here: a pass over any CR may come at any time, which includes every order in which
requeues and events bring them.

`ObjectsReturn` is about the objects that are `Due`: a pipeline that one CR switches on and another
one of the namespace switches off is created and deleted in turn, by the resync, for ever. `NothingIsLeft` leaves
streams out: a stream imported by the last pass of the last CR has no owner and stays.

Proofs. `NamespaceObjectsProofs`, for any constants that satisfy `NamespaceAssumption`:
`NamespaceInvariant` is `Spec => [](TypeOK /\ CacheAgrees)`, where `CacheAgrees` says that a copy in
`synced` is what is stored; `NamespaceTypeCorrect` follows. `OwnersKept` is `Spec => OwnersAreKept`. The
case that needs the invariant is `OwnImageStream`: it decides on the cache and writes to the store, and only a
copy that agrees with the store passes the version check of the API server. `ManifestsOwned` is
`Spec => []ManifestsAreOwned`: what a pass stores of a manifest has the CR of the pass as its owner, and only streams are
stored without. It is the safety part of `NothingIsLeft`, which also needs that the garbage collector works.
`OneFirstStream` says that `LeaveManifests` always leads to exactly one stage, so a pass whose manifests failed
does go on.

Left out: a CR that is created again under its old name; the label of the cluster-scoped objects;
a release that lacks a manifest which another one has; the order of requeues.

## 7. Not modelled

- `cmd/main.go`, `config/`, `internal/errors/`, `internal/reconcilers/types.go`: start-up wiring, flags,
  manifests, declarations. Their effects are assumptions here: one replica, one worker, caches in front of reads,
  an `emptyDir` for the clone.
- The text of the GraphQL query in `internal/pyxis/`; what it may answer is in `NamespaceObjects`.
- Generated deep copies, scheme registration, the test scaffold: no behaviour of their own.
- The temporary file of the ClusterRoleBinding (`pipeline_dependencies.go:243`): it is never closed, and is left
  behind when its write fails. It has no effect on what is applied.

## 8. Findings

1. `controller.go:92`: one item in the list is taken for the CR being deleted, whichever CR the item
   is. `controller_stale_count`: a CR that is already gone is read from an old cache, the cache catches
   up, the List has one item, a live peer, and the peer's binding is deleted. It is created
   again on the peer's next pass, which nothing but the resync brings about.
2. `controller.go:145`: the objects are created before the finalizer is added, and the finalizer
   comes a pass later at the earliest. `controller_early_deletion`: a CR deleted in between leaves its objects.
3. `status.go:463`: the missing tasks are collected in `getErrors`, but `unmarshalErrors` is tested a
   second time; missing tasks are reported ready (`status_tasks`).
4. `pipeline_git_repo.go:93`: the first reference whose name ends with the release is taken. The
   local branch of the first clone is such a reference for `main`, so CRs of `main` stay at the
   commit of the first clone (`git_latest`).
5. `pipeline_dependencies.go:158`: the Get overwrites the manifest by the live object, so the Update
   changes nothing and the objects keep the release they were created from; a stream that exists is
   never imported again (`namespace_stale`).

These have no run of their own:

- With `ForegroundDeletion = TRUE` in `Controller_prompt.cfg`, `NoOrphans` fails as well: a CR that has given up
  the operator's finalizer but waits for foreground deletion is still counted, so two CRs deleted together can
  each take the other for a reason to keep the objects.
- `status.go:93`: when the spec stops naming an optional secret its condition is neither removed nor
  updated, so a False one stays, though `docs/INSTALLATION.md:44` has the user validate that all are True.
- `controller.go:134`: the reconcilers after a failed git step work from whatever the shared worktree
  holds, which may be the release of another CR (`Start` in `NamespaceObjects`, `Apply` in `PipelineGitRepo`).
- The `NotFound` branch of `reconcileSecretStatus` cannot be reached (section 4).
- A first clone interrupted by a restart, and a clone in which the checkout of an annotated tag failed or was
  interrupted between its two writes of HEAD, is never repaired (`Wedged`, section 5).
- `internal/objects/objects.go:18` says that `IsObjectFound` returns false on an error; it returns true for every
  error but NotFound, so a stream whose lookup failed counts as found.
- `pyxis.go:40`: the errors in the answer's body are not looked at, and the stream is then imported with no
  versions, and never again.
- CRs of one namespace that disagree on a pipeline create and delete it in turn (section 6).
