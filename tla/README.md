# Verification of the OPM operator

TLA+ models of the OPM operator (`src/`), the TLC runs that check them on small
instances, and TLAPS proofs of what holds for every instance. Paths and line
numbers refer to `src/`; `PROJECT.json` maps each definition to the lines it
models and lists the runs, the mutants, the hazards and the findings.

## The system

The operator is a Kubernetes controller (controller-runtime, Flux server-side
apply). Its parts, and how far they are modelled:

| Part | Code | Module | State |
| --- | --- | --- | --- |
| ModuleRelease reconciler | `internal/reconcile/modulerelease.go`, `internal/controller/modulerelease_controller.go` | `ModuleRelease` | modelled |
| Release reconciler, source watch, dependsOn | `internal/reconcile/release.go`, `internal/controller/release_controller.go` | `Release` | modelled, without cache lag |
| Status helpers: conditions, counters, history, digests | `internal/status` | `Status` | modelled |
| Inventory, stale set, ownership rules of prune | `internal/inventory`, `internal/apply/prune.go` | `Inventory` | modelled |
| Retry delays | `internal/reconcile/backoff.go` | `Backoff` | modelled |
| Flux patch helper (a library) | used by the reconcilers | `Patch` | external |
| Apply, drift, impersonation | `internal/apply` | actions of `ModuleRelease` and `Release` | partly |
| Source resolution | `internal/source/resolve.go` | action of `Release` | modelled |
| Fetch and extraction of an artifact | `internal/source/fetch.go`, `extract.go` | `Fetch` | modelled, except zip archives and the validation of a root CUE module, which no caller reaches |
| Render pipeline | `internal/render`, `internal/synthesis`, `pkg/render`, `pkg/module`, `pkg/loader` | `Pipeline` | modelled; what CUE evaluates is given |
| Matching of components and transformers, their outputs | `pkg/render/match.go`, `pkg/render/execute.go` | `Matching` | modelled |
| Values validation | `pkg/validate/config.go` | `Values` | modelled |
| Catalog | `internal/catalog` | constants of `ModuleRelease` and `Pipeline` | partly |
| BundleRelease controller | `internal/controller/bundlerelease_controller.go` | | a stub that returns |
| Metrics, manager, error types, resource weights, generated code | `internal/metrics`, `cmd`, `pkg/errors`, `pkg/resourceorder` | | not modelled: nothing a reconcile reads back |

A ModuleRelease names a CUE module and values. Its reconcile reads the release
from the controller's cache, registers a finalizer, renders the module, compares
the render with what was last applied, applies it, prunes the objects of the
previous inventory that the render no longer has, and commits the outcome to the
status in a deferred function. A deleted release prunes its whole inventory
before its finalizer is removed. The reconcile acts on objects that users, other
clients and restarts change at any time; that is what the model is about.

A Release names a Flux source and a path. Its reconcile waits for the releases it
depends on, resolves the source's artifact, downloads and renders it, and goes on
like the other one; it always asks to be run again, after an interval, a backoff
or a recheck. A new artifact wakes the releases of the source's namespace.

## The modules

`ModuleRelease` models one release, and every API call of a reconcile is a step
of its own.

| Variable | What it is |
| --- | --- |
| `api` | the ModuleRelease in the API server: generation, spec, deletion, finalizers, orphan annotation, status, conditions |
| `cache` | the copy `Client.Get` returns; with `CacheLag` it is brought up to date by `CacheSyncs` only |
| `live`, `accounts`, `catalog` | the cluster objects, the service accounts that exist, and the catalog the running operator ships |
| `queued`, `timer` | the release's key is in the work queue; a delayed or rate-limited requeue is pending |
| `pc` | the API call the one worker is at |
| `mr`, `old` | the object in the worker's memory, and the copy the patch helper took of it |
| `todo`, `target`, `firstErr`, `driftFailed`, `cont` | what is left to apply or prune, the entry Prune has read, its first error, the drift phase, and what follows the status patch |
| `disturbed`, `completed` | number of faults so far; the entry sets of the reconciles that succeeded (a history variable) |

The actions follow `ReconcileModuleRelease` from top to bottom:

- **Phase 0**: `ReconcileGone`, `ReconcileNoFinalizer`, `addFinalizer`,
  `handleDeletion`, `ReconcileSuspended`, `ReconcileStarts`. The finalizer is
  added before the deletion check, as in the code.
- **Render and plan**: `RenderModule`, `RenderFails` (resolution, rendering,
  digest or conversion), `RenderPanics`, `detectDrift` with `Plan`. A panic
  unwinds through the deferred commit, which finds the zero value of `outcome`,
  `NoOp`.
- **Apply and prune**: `NewImpersonatedClient`, `ImpersonationFails`,
  `ApplyResource`, `ApplyFails`, `ApplySucceeds`, `PruneGet`, `PruneGetFails`,
  `PruneDelete`, `PruneDeleteFails`, `pruneStaleResources`. Prune goes on after
  an error, and the first error decides what `isForbidden` says. GET and DELETE
  are separate steps, and the DELETE has no precondition.
- **Deletion**: `pruneForDeletion`, `StallDeletion`, `handleDeletionSAMissing`,
  `removeFinalizer`.
- **Commit**: `Commit` computes the status (`CommitStatus`), `patchConditions`
  and `patchStatus` are the two requests of the patch helper, and `AfterPatch` is
  the return.
- **Around the worker**: `UserEdits`, `UserDeletes`, `UserAnnotates`,
  `CacheSyncs`, `TimerFires`, `Crash` (the memory is lost, the cache filled,
  the release enqueued, perhaps another catalog), `ServiceAccountChanges`,
  `ForeignWrite`, `OtherAddsFinalizer`, `OtherRemovesFinalizer`.

`Release` models several releases, their sources and the one worker they share.
`api`, `queued` and `timers` are indexed by release, `sources` holds what each
source has published and whether it exists and is ready, `cur` and `rel` are the
release in the worker's hands, `artifact` is the reference it resolved and
`package` what it downloaded. `succeeded` is a history variable: the releases
that have been applied in full. The actions have the names of the Go functions:

- **Before the phases**: `ReconcileGone`, `ReconcileNoFinalizer`,
  `addReleaseFinalizer`, `handleReleaseDeletion`, `ReconcileSuspended`,
  `ReconcileWaits`, `ReconcileStarts`.
- **Phases**: `resolveReleaseSource`, `fetchReleaseArtifact`,
  `renderReleasePackage`, `RenderFails`, `RenderPanics`, `buildReleaseApplyClient`,
  `ImpersonationFails`, `ApplyResource`, `ApplyFails`, `ApplySucceeds`,
  `PruneEntry`, `PruneReturns`, `pruneForDeletion`, `removeReleaseFinalizer`,
  `patchReleaseStatus`.
- **Around the worker**: `SourcePublishes`, `SourceFails`, `SourceRecovers`,
  `UserCreates`, `UserEdits`, `UserDeletes`, `UserAnnotates`, `TimerFires`,
  `Crash`, `ServiceAccountChanges`.

`Pipeline` is the render that the two modules above take for one step that yields
the resources of an artifact, fails or panics. It follows one worker through one
render after the other, of a Release from an artifact or of a ModuleRelease from
the registry. `stage` is the step it is at, `ref` the artifact that was resolved,
`body` what was downloaded, `count` the archive entries read, `temp` the temporary
file and directory that exist, `pkg` and `values` what is rendered, `todo`, `made`,
`warned` and `failed` the state of the loop over the pairs of component and
transformer, `result` what the render returns, and `faulted` whether a request, a
write or the evaluator has failed.

- **Fetch** (`Fetch`): `Download`, `Verify`, `ExtractEntry` and `ExtractEnds`; the
  source may serve another artifact under the URL than the one that was resolved,
  or break off. `FetchFails` is what the caller does with an error.
- **Render**: `BeginRelease`, `BeginModuleRelease`, `navigateReleasePath`, `Load`,
  `ParseModuleRelease` (values by `Values`), `ProcessModuleRelease` (plan by
  `Matching`), `executePair` for each pair, `RenderEnds`, and `Cancelled` and `Panic`
  in between. Every exit goes through `Return`, with the deferred removal of the
  directory. `Reconciled` ends the reconcile.

`Lifecycle` is the abstract specification of a reconciler. A release is fresh,
active (it has the finalizer), terminating or gone; the reconcile at hand is
applying, sweeping, recording or cleaning. Objects are put only while the
finalizer is held, removed only after everything was put or in a cleanup, the
inventory changes only at the end of an apply or when a deletion orphans it, and
the release goes only at the end of a cleanup. `ModuleRelease` implements it
under the mapping `Stage`, `Work`, `Owned` (from the API server's copy, and from
`pc` and the copy in memory), and `Release` under one mapping per release, in which
the work of the other releases is that of others. Both state it as the property
`FinalizerBrackets`.

`Status`, `Inventory` and `Backoff` hold the operators of the packages of those
names, with the names of the Go functions. `Patch` says what the API server holds
after the Flux helper has sent the fields that differ between the copy it took
and the object in memory: conditions first, then the rest of the status as a merge
patch without an optimistic lock. `MCModuleRelease`, `MCRelease` and `MCPipeline`
give the constants their values for TLC.

Definitions whose names end in `Mutant` are plausible bugs of the definition that
follows them. No specification uses them. Each property of a passing run is
violated when the mutant listed for it in `PROJECT.json` takes the place of the
original, which shows that the property depends on that code.

### Abstractions

- A digest is the value it is computed from (SHA-256 is taken to have no
  collisions); the inventory digest is the set of entries.
- An object is an id (group, kind, namespace, name) with a component label and a
  content; an entry leaves out the API version, which no comparison uses.
- In the two reconcilers' modules rendering is a constant function of catalog,
  module and values, or of the artifact. The release
  UUID is a function of the module, because the catalog derives it from the
  module's UUID and the release's name and namespace
  (`pkg/module/release.go:45`).
- Apply is one step per object, in any order, and may fail after any of them.
  Flux's stages and readiness waits, and the recreation of objects by a forced
  apply, are left out.
- Times are delays in seconds; a timer may fire at any moment.
- Panics happen in the render only.
- In `Pipeline` artifacts, packages and archive entries are named, with what the
  code can tell of them: a package has the components, the schema, the values and
  the outputs of transformers that CUE makes of it. A map of the match plan is
  iterated in any order.
- In `Release`, reads of Releases are up to date and do not fail. The worker is
  then the only writer of a status and what the patch helper sends is the status in
  memory, so `Patch` is not needed; and GET and DELETE of a prune are one step.
- A download yields the resolved artifact or the one its source has published
  since. A dependency in another namespace, which the code refuses for good, is one
  that never becomes Ready.
- Events, metrics, log messages and condition messages are left out.

## The runs

`MCModuleRelease` has two objects and a Namespace, versions `m1` and `m2` of one
module and another module `m3`. From `m1` to `m2` one object moves to another
component, one appears and the Namespace is dropped. `MaxHistoryEntries` is 2, so
that trimming happens. `MCRelease` has a database release and an application
release that depends on it, a source in their namespace and one in another; from
one artifact to the next the database replaces its object and the application
changes its own. `MCPipeline` has archives of sizes and entry counts up to, at and
beyond limits of two, seventeen packages that differ from a good one in one
respect each, five providers and six values. `MaxDisturbances` bounds the faults and foreign writes,
`MaxGeneration` the edits, `MaxFailures` the retries of a release that keeps
failing; a deletion always retries, and so does a Release that has what it needs to
succeed. `Pipeline` needs no bound: its renders start afresh. Deadlock is checked in
`pipeline` and not in the other runs: a settled ModuleRelease has nothing left to do,
and neither has the controller once every Release is deleted.

| Run | Checks | Setting |
| --- | --- | --- |
| `core` | `TypeOK`, `RetryMatchesCounter`, `RetriesSlowDown`, `RetryIsScheduled`, `ReadyIsRecorded`, `ProtectedSurvive`, `DesiredSurvive`, `FinalizerGuardsInventory`, `FinalizerBrackets` | fresh cache, two catalogs, a service account for one of two specs, two faults including crashes, denied prunes and a missing account, two generations, seven failures in a row |
| `storm` | `HistoryNewestFirst`, `InventoryProven`, `DeletionNotAbandoned` | lagging cache, service account, any one fault or foreign write |
| `account` | `FailuresRecorded`, `ReadyIsApplied`, `ReadyIsPruned`, `FinalizerGuardsInventory`, `GoneIsClean`, `DeletionUnblocks` | service account that comes and goes, two faults that touch no cluster object, three generations, fairness |
| `live` | `FailuresRecorded`, `NoEditForgotten`, `ObservedGenerationAdvances`, `DeletionCompletes`, `Converges` | lagging cache, suspend and prune toggles, one fault other than a lost status patch, fairness |
| `release` | `TypeOK`, `AppliedAfterDependencies`, `InventoryMatchesArtifact`, `Attended`, `ReadyIsApplied`, `FinalizerGuardsInventory` | two releases of one source with two artifacts, service account, one fault of the source, a phase, a request or the status patch, or one crash |
| `release_live` | `Attended`, `FinalizerBrackets`, `DeletionCompletes`, `Converges` | a source in another namespace whose first artifact does not render, dependencies that may become circular, suspension, one panic or failed finalizer write, fairness |
| `pipeline` | `TypeOK`, `FetchVerdict`, `NoTempLeft`, `LoadedIsResolved`, `RenderVerdict`, `RendersAgree`, `IgnoredReported` | every archive, package, path, provider and values of `MCPipeline`, a fault or a panic at any step |

What they show, in short. `core` and `storm`: whatever fails, the status of a
release stays a true record of some reconcile, retries are scheduled as recorded
and slow down as the backoff says,
only objects the release may delete are deleted, and everything happens under the
finalizer. `account`: without the faults listed below, Ready and gone mean what a
user takes them to mean. `account`, `live`: deletions complete or unblock, edits are never forgotten, and a release
ends up Ready or suspended. `release`: a release is applied after its
dependencies, records the artifact it has applied, and is never left without a
requeue. `release_live`: the interval makes up for every event that does not come.
`pipeline`: a render succeeds exactly when it should, of exactly the artifact whose
digest is recorded, with a digest that does not depend on the order of a map, and
leaves nothing on disk; the reference definitions (`Acceptable`, `Renderable`,
`Expected`) say so without the steps.

Why these bounds: each hazard found so far takes at most two generations, one
fault and one deletion to bite. The runs allow one more of each where the state
space permits, and the mutants show that every property can fail within them.
`core` counts seven failures in a row, because the seventh is the first that the cap
of the backoff cuts: an account that stays away stalls the release six times, and an
edit to the spec without an account then lets an apply fail.

**Fairness** (`FairSpec`): the worker runs while it has a step to take, watch
events arrive, timers fire, and another controller eventually removes its own
finalizer from a deleted release. controller-runtime's workers, informers and
queue give the first three. In `Release` each release's turn in the queue is
strongly fair, because the queue is first in, first out and a reconcile of another
release ends; sources need not recover. That it ends takes a source that answers or
closes the connection: the HTTP client has no timeout (`internal/source/fetch.go:76`).
`Pipeline` assumes no fairness. Users, faults and crashes are not fair, and their
number is bounded, so each liveness property says what happens once they stop.

### Disagreements between code and documentation

Each of these runs violates the one property it checks; `findings` in
`PROJECT.json` quotes the sentence it contradicts.

| Run | Property | What TLC shows |
| --- | --- | --- |
| `revert_after_failed_apply` | `ReadyIsApplied` | edit, half-failed apply, revert: a no-op reports Ready over half-applied objects |
| `crash_before_inventory` | `GoneIsClean` | a crash between apply and inventory, then an edit or a deletion: applied objects are in no inventory |
| `stale_cache_deletion` | `FinalizerGuardsInventory` | deletion from a cached copy prunes an older inventory |
| `module_change` | `ReadyIsPruned` | another module means another release UUID: the guard skips the old module's objects |
| `release_handover` | `ReadyIsApplied` | an artifact moves an object between releases: the old owner's prune deletes it, and the new owner's reconciles are no-ops that report Ready |

Each of these properties holds where the cause is absent, and a passing run shows
it: `ReadyIsApplied`, `ReadyIsPruned` and `GoneIsClean` in `account`,
`FinalizerGuardsInventory` in `core` and `account`, and `ReadyIsApplied` of
`Release` in `release`.

Four more limits show up when a fault is added to a passing run. With a lost
status patch `NoEditForgotten` fails, because the error is only logged and a
successful reconcile of a ModuleRelease asks for no requeue. With a stale cache
`ReadyIsPruned` fails, because the stale set comes from an older inventory. With a
panic `AppliedAfterDependencies` fails, because the deferred commit reports Ready
for what was never applied. With a prune that is denied to a service account
`FailuresRecorded` fails, because that failure has no error message to record.

## The proofs

The theorems hold for all values of the constants that satisfy the assumptions of
the modules: `Assumptions` in `ModuleRelease` and in `Release`, `RenderAssumption`
(the digest of a render is not the empty string), `FetchAssumptions`,
`PipelineAssumptions` (the types of the constants; `None`, `Absent`, `Cut`, `NoPath`
and the like are not among the values they stand beside), `MatchingAssumptions` (a
provider and a package have finitely many names, which are ordered, and a transformer
makes a list), `ValuesAssumptions` (given values and defaults are structs, and the
values of a package from the registry are open) and `HistoryBound` in `Status` (a
positive bound). They need no bound on faults, generations, failures,
releases or archive entries.

| Module | Theorem | Statement |
| --- | --- | --- |
| `ModuleReleaseProofs` | `Invariance` | `Spec => []IInv` |
| | `TypeCorrect` | `Spec => []TypeOK` |
| | `HistoryIsNewestFirst` | `Spec => []HistoryNewestFirst` |
| | `InventoryIsProven` | `Spec => []InventoryProven` |
| | `ProtectedObjectsSurvive` | `Spec => ProtectedSurvive` |
| | `DesiredObjectsSurvive` | `Spec => DesiredSurvive` |
| | `FinalizerBracketsWork` | `Spec => FinalizerBrackets`, that is `L!Spec` |
| `ModuleReleaseSteps` | `FinalizerGoesAfterCleanup` | `Spec => FinalizerGuardsInventory` if reads are current and nobody else writes to the objects |
| | `ObservedGenerationNeverMovesBack` | `Spec => ObservedGenerationAdvances` |
| `ModuleReleaseSettled` | `DeletionIsNotAbandoned` | `Spec => []DeletionNotAbandoned` |
| | `NoEditIsForgotten` | `Spec => []NoEditForgotten` if no status patch fails |
| | `RetryTimeMatchesCounter` | `Spec => []RetryMatchesCounter` if reads are current (and the backoff is never 0) |
| | `FailuresAreRecorded` | `Spec => FailuresRecorded` if reads are current and no prune fails under a service account |
| | `RetryIsAlwaysScheduled` | `Spec => []RetryIsScheduled` if reads are current and no status patch fails |
| | `ReadyIsAlwaysRecorded` | `Spec => []ReadyIsRecorded` under the same two |
| `ModuleReleaseReady` | `ReadyIsAlwaysApplied` | `Spec => []ReadyIsApplied` if reads are current, a render has an object once, and nothing of `Disturbing` happens |
| | `ReadyIsAlwaysPruned` | `Spec => []ReadyIsPruned` if reads are current, specs prune under one identity, and nothing of `Disturbing` happens |
| | `GoneIsAlwaysClean` | `Spec => GoneIsClean` under the same three |
| `ReleaseProofs` | `ReleaseTypes` | `Spec => []TypeOK` |
| | `RecordedIsApplied` | `Spec => []InventoryMatchesArtifact` |
| | `NobodyForgotten` | `Spec => []Attended` |
| | `FinalizerGoesLast` | `Spec => FinalizerGuardsInventory` |
| | `DependenciesFirst` | `Spec => []AppliedAfterDependencies` if renders do not panic |
| `ReleaseRefinement` | `FinalizerBracketsRelease` | `Spec => FinalizerBrackets` for every release |
| | `ReadyIsAlwaysApplied` | `Spec => []ReadyIsApplied` if releases share no object, a render has an object once, and nothing of `Halving` happens |
| `PipelineProofs` | `RendersTheResolvedArtifact` | `Spec => []LoadedIsResolved` |
| | `NothingLeftBehind` | `Spec => []NoTempLeft` |
| | `FetchIsRight` | `Spec => []FetchVerdict` |
| | `PipelineTypes` | `Spec => []TypeOK` |
| | `RendersWhatItCan` | `Spec => []RenderVerdict` |
| | `RendersAreReproducible` | `Spec => []RendersAgree` |
| | `WarningsAreComplete` | `Spec => []IgnoredReported` |
| `StatusProofs` | `RecordHistoryGood` | a good history stays good |

Each has one lemma per action, and each rests on an invariant that TLC confirmed
before it was proved. A hypothesis of a theorem is a fault or a setting without which
the property fails: with any one of them dropped TLC finds a counterexample (except for
the backoff that is never 0, which is arithmetic).

**`ModuleRelease`, `IInv`.** The properties speak of `api` and of single steps, and
none is inductive. A reconcile writes what it has computed from `cache`, `old` and
`mr`, so `IInv` asks of all four copies that they be well formed (`WellFormed`:
typed, history good, inventory empty or in `completed`). A merge patch picks each
field from the API server's copy or from the worker's, never a mixture of two
histories or two entry sets, so it keeps both facts; that is why they survive a
stale cache and lost updates. The rest of `IInv` is `WorkerShape`: what Prune still
has to look at, or is about to delete, is in the stale set and not protected. The
two action properties follow from it.

**`ModuleRelease` implements `Lifecycle`, `LInv`** (`ModuleReleaseProofs`). The finalizer is in the API
server's copy while the worker acts on a cached one. `LInv` says how far the two can
be apart: what the cache shows has happened, a deletion it shows cannot be taken
back, and while the reconcile at hand is not a deletion nobody removes the
finalizer. A stale copy can make a cleanup run for a release that is gone already;
`BeginCleanup` of `Lifecycle` allows that.

**The finalizer waits for the cleanup, `CleanupInv`** (`ModuleReleaseSteps`). With
current reads a deletion works on the inventory that the API server holds. As long as
Prune has met no error, each entry is still in `todo`, is the `target`, or is one
that Prune skips; what it skips stays skipped because only Prune and the apply write
to the objects. The orphan exit is the one way around it. The theorem assumes
`~CacheLag` and no `"foreignWrite"`: `stale_cache_deletion` shows the first is needed,
and another client that puts an object back after Prune has looked breaks the second.

**The observed generation, `ObservedInv`** (`ModuleReleaseSteps`). It orders the
copies: observed <= reconcile at hand <= cache <= API server. The status patch sends
the reconcile's own generation or leaves the field alone, so a stale copy can make
the observed generation late and never take it back. No assumption on the cache.

**The forms of the steps** (`ModuleReleaseSteps`). The theorems that
follow go through the same actions again and again. `NextForms` proves once that
every step has one of a few forms: the worker takes the release, moves on, commits a
no-op, a failure or a success, stalls or gives up a deletion, sends finalizers,
conditions or the status; others act; the operator restarts. Each later invariant has
one case per form.

**Nothing is forgotten, `QueueInv`, `DeletionKept`, `EditKept`**
(`ModuleReleaseSettled`). The two properties speak of a settled system, which is where
a queue, a timer, a cache and a worker have each let go of a release. `QueueInv` is the
dirty key: while a reconcile runs and nothing is queued, the copy it works on is the
release the cache shows. Hence what it commits or schedules is for the release of now,
or an event has queued the next reconcile. Deletion needs no assumption. Edits need
that no status patch is lost, for the observed generation is lost with it.

**The records agree, `CopyInv`, `RetryInv`, `FailInv`, `OutcomeInv`**
(`ModuleReleaseSettled`). With current reads the copy that the patch helper took is what the API server holds (`CopyInv`), so a merge patch of the status stores the status
in memory. With a stale copy it stores a mixture of two, which is why these theorems
assume `~CacheLag`: three reconciles from one copy, a failure, a no-op and a failure,
count the second failure without a new history entry. `RetryInv` ties the retry time to the counter, `FailInv` a counter
that has grown to a new history entry, and `OutcomeInv` what is committed to what is
scheduled. `IsNoOp` compares digests, so `OutcomeInv` carries the facts about the
recorded digests that make a no-op as good as an apply, whichever catalog rendered
them. Two hypotheses mark what the code leaves open: a lost status patch is only
logged, and a prune that is denied to a service account is counted but gets no history
entry. `RetryTimeMatchesCounter` also has the hypothesis that `ComputeBackoff` is not
0; the provers know nothing of `2 ^ n`.

**Ready and gone mean what they say, `AppliedInv`, `IdentityInv`, `TrackInv`**
(`ModuleReleaseReady`). `AppliedInv`: before and after the work on the cluster the
objects of the render that is recorded as applied are there as rendered; in between,
those of the render at hand are that are not in `todo` any more. `TrackInv`: every
object in the cluster that may be deleted is in the recorded inventory or in the
render at hand, so the stale set misses none, and `IdentityInv` says that the ownership
guard lets Prune delete it. The hypotheses are the causes of the violations above:
`Disturbing` is an apply, prune or status patch that ends half-way, a crash and another
writer (`revert_after_failed_apply`, `crash_before_inventory`), and each of them alone
breaks each of the three properties; one identity excludes `module_change`; `~CacheLag`
excludes `stale_cache_deletion`. Failing renders, panics, drift checks, finalizer
writes, service accounts that come and go, and edits and deletions at any moment are
allowed.

**`Release`, `RInv`** (`ReleaseProofs`). It relates the API server's copy to the
worker's: nothing is left of a release that is gone, a release that is worked on
keeps its finalizer, the artifact resolved is the one downloaded from the fetch
phase on (so the render is the one whose digest is recorded), a deletion works off
the inventory of the API server unless it orphans it, and what is not in `todo` any
more has been dealt with. For `Attended` it adds when a reconcile may end without a
requeue: only when the release is suspended, or an edit that resumed it has
enqueued it.

**Dependencies, `DependsOK`** (`ReleaseProofs`). A release that shows Ready, or that
records what was applied, has succeeded; hence so has what `checkDependsOn` lets
through. The delicate step is the no-op, which reports Ready without an apply: it
needs recorded digests. A panic reaches the same commit without them, so the theorem
excludes panics, and TLC shows that it must.

**`Release` implements `Lifecycle`** (`ReleaseRefinement`), once per release. The
worker has one release in hand; the others see one object change at a time, which
`Lifecycle` allows between two reconciles. `RInv` suffices.

**Ready means applied in `Release`, `TerritoryInv`, `LiveInv`** (`ReleaseRefinement`).
What a release records, and what the worker applies or prunes for it, are objects that
some spec of this release can render (`TerritoryInv`). If no object belongs to two
releases, the work for one leaves the objects of the others alone, and what each
records as applied is in the cluster (`LiveInv`), except for the release at hand while
its objects are applied and pruned. A no-op, which looks at digests only, is then
right. `release_handover` shows that `NoSharing` is needed. `Halving` adds panics to the
half-way ends, because the deferred commit after a panic reports Ready; each of its
faults alone breaks the property once a source publishes an earlier artifact again.
Sources that publish, fail and come back, service accounts and circular dependencies
are allowed.

**`Pipeline`, `PInv`.** It says which temporary file and directory exist at each
stage, that what was verified is the artifact that was resolved, and how many entries
have been read and found acceptable.

**A render is right, `RenderInv`** (`PipelineProofs`). The three properties compare
what the stages have computed, one pair after the other, with `Renderable`, `Expected`
and `Ignored`, which know of no stages. `GateShape` says what each stage has found in
order, so that an error means that the package cannot be rendered: `ParsesWhatFits`
that the layers of `Values` accept exactly the values that fit, `MatchServes` that the
plan of `Match` has the pairs in which the transformer serves the component, and leaves
out exactly the traits that are ignored. `ExecShape` is the loop: after `k` pairs of a
list of the plan, `todo` is the rest of the list, `failed` the pairs that failed, and,
if there is none, `made` and `warned` are those of the first `k` pairs. The delicate
step is that two lists of the plan, which come from maps iterated in any order, are the
same (`SortedOnce`): the names of two pairs are never both equal, so a finite set has
one sorted list. It is proved from the least index at which two lists differ.
`AppendsOnce` shows in the same way that appending the same lists one after the other
has one result, so that what the loop has appended, pair by pair, is what the recursive
function of `Expected` gives. Faults, cancellation and panics are allowed everywhere; the
verdict is about the renders that met none, the other two about every render that
succeeds.

**Induction over data.** The induction theorems of the library take an operator as a
parameter, which the provers cannot instantiate. Where the proofs need induction over
the naturals they take the least element of a set of counterexamples (`LeastNatural`,
from the well-founded order of the library).

**Only model-checked**: the liveness properties, because fairness is out of the
prover's reach: `DeletionUnblocks`, `DeletionCompletes`, `Converges`; and
`RetriesSlowDown`, because the provers know nothing of powers. Every
other property of a passing run is a theorem, under the hypotheses in the table.

## Not modelled

- BundleRelease is a stub: its Reconcile logs and returns.
- What CUE evaluates (schemas, comprehensions, the transformers themselves) is given
  with a package, as what the code can tell of the result.
- Zip archives, `ValidateCUEModule` and `NonMatchedPairs` are not reached by the
  operator: every Flux artifact is a tar.gz, the reconciler skips the validation of
  the root module, and the pairs that do not match have no caller.
- Two workers that evaluate in one `cue.Context` (`cmd/main.go:246`): the outcome is
  up to CUE and has no set of values to choose from. A source that never answers: the
  HTTP client has no timeout, so the worker stays at the download.
- Flux's staged apply with its readiness waits, and the API server's admission. A
  forced apply (`ApplyOptions.Force`, `internal/apply/apply.go:28-30`) may delete an
  object and create it anew; `ProtectedSurvive` is about Prune and says nothing of it.
- Metrics, the manager's flags and wiring, error formatting, the weights of the
  display order, generated code and test helpers: nothing a reconcile reads back.

Remarks from the reading.

- The comment at `internal/render/release.go:67` says that without values
  `ParseModuleRelease` "falls back to the module #config defaults". `validate.Config`
  leaves the package's own values as they are in that case, which is what `Pipeline`
  models.
- `pkg/render/match.go:39-41` says that ignored traits "should be surfaced as warnings
  to the user". They reach the result of the render, which is as far as
  `IgnoredReported` goes; no reconciler reads `RenderResult.Warnings`.
- `openspec/specs/serviceaccount-impersonation/spec.md` contradicts itself about a
  deletion whose service account is missing: lines 127-144 ask for a fallback to the
  controller's own client, lines 146 and after for a stall that keeps the finalizer.
  The code does the latter, and so does the model; `FinalizerGuardsInventory` and
  `DeletionUnblocks` are about that behaviour.
- `pkg/render/match.go` takes optional fields of a transformer's requirements for
  required (`missingKeys`) and not for handled (`fieldKeys`). In `Matching` they are
  regular fields; a `#transformers` that is not a struct is not modelled either.

## Plan

In this order:

1. `Release` with cache lag: a dependency and a source that are read from an older
   copy, and the patch helper over them.
2. `Ownership`: two ModuleReleases that hand an object over, each with its own
   inventory over one cluster; what the UUID guard prevents.
3. Proofs: what `ReadyIsPruned` and `GoneIsClean` say of a ModuleRelease, stated for
   `Release`, checked in the `release` run and proved from `TerritoryInv`.
