---------------------------- MODULE ModuleRelease ----------------------------
(***************************************************************************)
(* The ModuleRelease controller: one ModuleRelease in the API server, the  *)
(* controller's cached copy of it, the work queue key, the one worker that *)
(* runs internal/reconcile.ReconcileModuleRelease, and the cluster objects *)
(* it applies and prunes.  Every API call of a reconcile is a step of its  *)
(* own, so users, other clients, crashes and the cache interleave with it. *)
(***************************************************************************)
EXTENDS Integers, Patch, Backoff

CONSTANTS
    Objects,          \* ids of cluster objects: group, kind, namespace, name
    Components,       \* values of the component label
    Contents,         \* the rest of a manifest
    Modules,          \* spec.module: path and version
    Values,           \* spec.values
    Catalogs,         \* the catalogs an operator binary may ship
    Render,           \* <<catalog, module, values>> -> set of resources
    UUIDs,            \* release UUIDs
    UUIDOf,           \* module -> the release UUID the catalog stamps
    ServiceAccounts,  \* service accounts of the release's namespace
    DefaultSA,        \* --default-service-account, or None
    Specs,            \* the specs users may write
    CacheLag,         \* whether cached reads may be stale
    Disturbances,     \* the kinds of faults and foreign writes that may occur
    MaxDisturbances,  \* ... and how many of them
    MaxGeneration,    \* bound on metadata.generation
    MaxFailures       \* bound on consecutive failures that are retried

FinalizerName == "cleanup"
OtherFinalizer == "other"

Resources == [id : Objects, component : Components, content : Contents]
EntrySet == [id : Objects, component : Components]
LiveObjects == [managed : BOOLEAN, uuid : {None} \cup UUIDs,
                component : Components, content : Contents]
SpecSet == [module : Modules, values : Values, prune : BOOLEAN,
            suspend : BOOLEAN, serviceAccountName : {None} \cup ServiceAccounts]
DisturbanceKinds ==
    {"render", "panic", "driftCheck", "impersonate", "apply", "prune", "patch",
     "finalizer", "crash", "serviceAccount", "foreignWrite", "foreignFinalizer"}

ASSUME Assumptions ==
    /\ Render \in [Catalogs \X Modules \X Values -> SUBSET Resources]
    /\ UUIDOf \in [Modules -> UUIDs]
    /\ Specs \subseteq SpecSet
    /\ DefaultSA \in {None} \cup ServiceAccounts
    /\ CacheLag \in BOOLEAN
    /\ Disturbances \subseteq DisturbanceKinds
    /\ {MaxDisturbances, MaxGeneration, MaxFailures} \subseteq Nat
    /\ None \notin UUIDs \cup ServiceAccounts \cup EntrySet
    /\ Absent \notin LiveObjects

\* The digest of a render is never the empty string.
ASSUME RenderAssumption == \A x \in DOMAIN Render : Render[x] # None

VARIABLES
    api,          \* the ModuleRelease in the API server
    cache,        \* the copy that Client.Get returns
    live,         \* the cluster objects
    accounts,     \* the service accounts that exist
    catalog,      \* the catalog of the running operator
    queued,       \* the release's key is in the work queue
    timer,        \* a delayed or rate-limited requeue of the key is pending
    pc,           \* the step the worker is at
    mr,           \* the ModuleRelease in the worker's memory
    old,          \* the copy of it the patch helper took
    todo,         \* resources still to apply, or entries still to prune
    target,       \* the entry Prune has read and is about to delete
    firstErr,     \* the first error Prune collected
    driftFailed,  \* drift detection failed in this reconcile
    cont,         \* what follows the status patch
    disturbed,    \* disturbances so far
    completed     \* history: the entry sets of the reconciles that succeeded

cluster == <<live, accounts, catalog>>
queue == <<queued, timer>>
locals == <<mr, old, todo, target, firstErr, driftFailed, cont>>
vars == <<api, cache, cluster, queue, pc, locals, disturbed, completed>>

-----------------------------------------------------------------------------
(* The ModuleRelease object. *)

NoInventory == [revision |-> 0, digest |-> None, entries |-> {}]

NoStatus ==
    [observedGeneration |-> 0, releaseUUID |-> None, lastAttempted |-> NoDigests,
     lastApplied |-> NoDigests, failureCounters |-> ZeroCounters,
     inventory |-> NoInventory, history |-> <<>>, nextRetryAt |-> 0]

Created(spec) ==
    [exists |-> TRUE, generation |-> 1, spec |-> spec, deleting |-> FALSE,
     finalizers |-> {}, orphan |-> FALSE, status |-> NoStatus,
     conditions |-> NoConditions]

\* No object: also the content of the worker's variables between reconciles.
Gone ==
    [exists |-> FALSE, generation |-> 0, spec |-> None, deleting |-> FALSE,
     finalizers |-> {}, orphan |-> FALSE, status |-> NoStatus,
     conditions |-> NoConditions]

DigestSets ==
    [source : {None} \cup Modules, config : {None} \cup Values,
     render : {None} \cup SUBSET Resources]

Statuses ==
    [observedGeneration : Nat, releaseUUID : {None} \cup UUIDs,
     lastAttempted : DigestSets, lastApplied : DigestSets,
     failureCounters : Counters,
     inventory : [revision : Nat, digest : {None} \cup SUBSET EntrySet,
                  entries : SUBSET EntrySet],
     history : Seq(HistoryEntry), nextRetryAt : Int]

ModuleReleases ==
    [exists : BOOLEAN, generation : Nat, spec : {None} \cup SpecSet,
     deleting : BOOLEAN, finalizers : SUBSET {FinalizerName, OtherFinalizer},
     orphan : BOOLEAN, status : Statuses, conditions : Conditions]

-----------------------------------------------------------------------------
(* The API server, the cache and the work queue. *)

\* Mutated: updates are filtered out whatever they change.
EventPassesMutant(previous, new) == previous.exists # new.exists

\* GenerationChangedPredicate on the events of the primary watch.
EventPasses(previous, new) ==
    previous.exists # new.exists \/ previous.generation # new.generation

\* A write of the ModuleRelease.  Without lag the watch event is seen at once.
Write(new) ==
    /\ api' = new
    /\ IF CacheLag
       THEN UNCHANGED <<cache, queued>>
       ELSE /\ cache' = new
            /\ queued' = (queued \/ EventPasses(cache, new))

NoWrite == UNCHANGED <<api, cache, queued>>

\* A write of finalizers fails when the object is gone, and when it would add
\* a finalizer to an object that is being deleted.
FinalizersAccepted(finalizers) ==
    api.exists /\ (api.deleting => finalizers \subseteq api.finalizers)

\* An object that is being deleted goes away with its last finalizer.
WithFinalizers(finalizers) ==
    IF api.deleting /\ finalizers = {}
    THEN Gone
    ELSE [api EXCEPT !.finalizers = finalizers]

\* A fault or a foreign write, within the bound.
Disturb(kind) ==
    /\ kind \in Disturbances
    /\ disturbed < MaxDisturbances
    /\ disturbed' = disturbed + 1

\* The worker takes the key.  Whether a pending delayed requeue of the same
\* key survives depends on the queue implementation.
Dequeue ==
    /\ pc = "idle" /\ queued
    /\ queued' = FALSE
    /\ \E kept \in BOOLEAN : timer' = (timer /\ kept)
    /\ UNCHANGED <<api, cache, cluster, disturbed, completed>>

\* The reconcile returns; again when it asks for a requeue or returns an error.
Return(again) ==
    /\ pc' = "idle"
    /\ timer' = (timer \/ again)
    /\ mr' = Gone /\ old' = Gone
    /\ todo' = {} /\ target' = None
    /\ firstErr' = "none" /\ driftFailed' = FALSE
    /\ cont' = "done"

-----------------------------------------------------------------------------
(* What the worker computes from the ModuleRelease in its memory. *)

\* spec.serviceAccountName, else the manager's default, else none.
resolveEffectiveSA(m) ==
    IF m.spec.serviceAccountName # None THEN m.spec.serviceAccountName ELSE DefaultSA

Desired == Render[<<catalog, mr.spec.module, mr.spec.values>>]

DigestSet(render) ==
    [source |-> mr.spec.module, config |-> mr.spec.values, render |-> render]

\* The live object that server-side apply of a rendered resource leaves.
Applied(r) ==
    [managed |-> TRUE, uuid |-> UUIDOf[mr.spec.module],
     component |-> r.component, content |-> r.content]

\* Mutated: the new inventory is in place before the old one is compared with it.
StaleSetMutant == ComputeStaleSet(Entries(Desired), Entries(Desired))

StaleSet == ComputeStaleSet(mr.status.inventory.entries, Entries(Desired))

\* Mutated: the reconcile counter is left alone by a success.
updateFailureCountersMutant(c, result) ==
    [reconcile |-> IF result.outcome \in {"FailedTransient", "FailedStalled"}
                   THEN c.reconcile + 1 ELSE c.reconcile,
     apply |-> Count(c.apply, result.apply),
     prune |-> Count(c.prune, result.prune),
     drift |-> Count(c.drift, result.drift)]

updateFailureCounters(c, result) ==
    [reconcile |-> IF result.outcome \in {"FailedTransient", "FailedStalled"}
                   THEN c.reconcile + 1 ELSE 0,
     apply |-> Count(c.apply, result.apply),
     prune |-> Count(c.prune, result.prune),
     drift |-> Count(c.drift, result.drift)]

\* What a reconcile knows when it returns: the local variables that the
\* deferred status commit reads.
NoOpResult(drift) ==
    [outcome |-> "NoOp", reconciled |-> FALSE, failed |-> FALSE, retryAfter |-> 0,
     drift |-> drift, apply |-> "skipped", prune |-> "skipped",
     digests |-> NoDigests]

DriftPhase == IF driftFailed THEN "failed" ELSE "ok"

\* Mutated: errMsg is not set.
StalledMutant(digests, drift, apply) ==
    [outcome |-> "FailedStalled", reconciled |-> FALSE, failed |-> FALSE,
     retryAfter |-> StalledRecheckInterval, drift |-> drift, apply |-> apply,
     prune |-> "skipped", digests |-> digests]

Stalled(digests, drift, apply) ==
    [outcome |-> "FailedStalled", reconciled |-> FALSE, failed |-> TRUE,
     retryAfter |-> StalledRecheckInterval, drift |-> drift, apply |-> apply,
     prune |-> "skipped", digests |-> digests]

\* Mutated: errMsg is not set.
TransientMutant(apply, prune) ==
    [outcome |-> "FailedTransient", reconciled |-> FALSE, failed |-> FALSE,
     retryAfter |-> ComputeBackoff(mr.status.failureCounters.reconcile + 1),
     drift |-> DriftPhase, apply |-> apply, prune |-> prune,
     digests |-> DigestSet(Desired)]

Transient(apply, prune) ==
    [outcome |-> "FailedTransient", reconciled |-> FALSE, failed |-> TRUE,
     retryAfter |-> ComputeBackoff(mr.status.failureCounters.reconcile + 1),
     drift |-> DriftPhase, apply |-> apply, prune |-> prune,
     digests |-> DigestSet(Desired)]

Succeeded(outcome) ==
    [outcome |-> outcome, reconciled |-> TRUE, failed |-> FALSE, retryAfter |-> 0,
     drift |-> DriftPhase, apply |-> "ok", prune |-> "ok",
     digests |-> DigestSet(Desired)]

\* Mutated: the inventory is replaced whether or not the reconcile succeeded.
CommitInventoryMutant(inventory, reconciled) ==
    [revision |-> inventory.revision + 1,
     digest |-> Entries(Desired), entries |-> Entries(Desired)]

CommitInventory(inventory, reconciled) ==
    IF reconciled
    THEN [revision |-> inventory.revision + 1,
          digest |-> Entries(Desired), entries |-> Entries(Desired)]
    ELSE inventory

\* The status the deferred function commits.
CommitStatus(s, result) ==
    IF result.outcome = "NoOp"
    THEN [s EXCEPT !.observedGeneration = mr.generation,
                   !.failureCounters = updateFailureCounters(@, result),
                   !.nextRetryAt = 0]
    ELSE [observedGeneration |-> mr.generation,
          releaseUUID     |-> s.releaseUUID,
          lastAttempted   |-> result.digests,
          lastApplied     |-> IF result.reconciled THEN result.digests
                              ELSE s.lastApplied,
          failureCounters |-> updateFailureCounters(s.failureCounters, result),
          inventory       |-> CommitInventory(s.inventory, result.reconciled),
          history         |-> IF result.reconciled \/ result.failed
                              THEN recordHistoryEntry(s.history, result.reconciled)
                              ELSE s.history,
          nextRetryAt     |-> result.retryAfter]

\* The reconcile returns and its deferred function runs up to the patch.
Commit(conditions, result, again) ==
    /\ mr' = [mr EXCEPT !.conditions = IF result.outcome = "NoOp"
                                       THEN MarkReady(conditions) ELSE conditions,
                        !.status = CommitStatus(@, result)]
    /\ pc' = "patchConditions"
    /\ cont' = (IF again THEN "retry" ELSE "done")
    /\ todo' = {} /\ target' = None
    /\ firstErr' = "none" /\ driftFailed' = FALSE
    /\ UNCHANGED old

\* The steps of a reconcile that only read the cluster, or only compute.
NoEffect == UNCHANGED <<api, cache, cluster, queue, completed>>

-----------------------------------------------------------------------------
(* Phase 0: load the release, finalizer, deletion, suspend. *)

\* Client.Get answers NotFound.
ReconcileGone ==
    /\ Dequeue
    /\ ~cache.exists
    /\ UNCHANGED <<pc, locals>>

\* The finalizer is registered before anything else, deletion included.
ReconcileNoFinalizer ==
    /\ Dequeue
    /\ cache.exists /\ FinalizerName \notin cache.finalizers
    /\ mr' = cache
    /\ pc' = "addFinalizer"
    /\ UNCHANGED <<old, todo, target, firstErr, driftFailed, cont>>

addFinalizer ==
    /\ pc = "addFinalizer"
    /\ LET finalizers == mr.finalizers \cup {FinalizerName}
       IN  \/ /\ FinalizersAccepted(finalizers)
              /\ Write(WithFinalizers(finalizers))
              /\ UNCHANGED disturbed
           \/ /\ ~FinalizersAccepted(finalizers)
              /\ NoWrite
              /\ UNCHANGED disturbed
           \/ NoWrite /\ Disturb("finalizer")
    /\ Return(TRUE)
    /\ UNCHANGED <<cluster, completed>>

\* handleDeletion, up to its first API call.
handleDeletion ==
    /\ Dequeue
    /\ cache.exists /\ FinalizerName \in cache.finalizers /\ cache.deleting
    /\ mr' = cache /\ old' = cache
    /\ \/ /\ ~cache.spec.prune \/ cache.status.inventory.entries = {}
          /\ pc' = "removeFinalizer"
          /\ UNCHANGED todo
       \/ /\ cache.spec.prune /\ cache.status.inventory.entries # {}
          /\ IF resolveEffectiveSA(cache) = None
             THEN pc' = "prune" /\ todo' = cache.status.inventory.entries
             ELSE pc' = "impersonate" /\ UNCHANGED todo
    /\ UNCHANGED <<target, firstErr, driftFailed, cont>>

\* Mutated: the observed generation is cleared.
ReconcileSuspendedMutant ==
    /\ Dequeue
    /\ cache.exists /\ FinalizerName \in cache.finalizers /\ ~cache.deleting
    /\ cache.spec.suspend
    /\ old' = cache
    /\ mr' = [cache EXCEPT !.conditions = MarkSuspended(@),
                           !.status.observedGeneration = 0]
    /\ pc' = "patchConditions"
    /\ cont' = "suspend"
    /\ UNCHANGED <<todo, target, firstErr, driftFailed>>

ReconcileSuspended ==
    /\ Dequeue
    /\ cache.exists /\ FinalizerName \in cache.finalizers /\ ~cache.deleting
    /\ cache.spec.suspend
    /\ old' = cache
    /\ mr' = [cache EXCEPT !.conditions = MarkSuspended(@),
                           !.status.observedGeneration = cache.generation]
    /\ pc' = "patchConditions"
    /\ cont' = "suspend"
    /\ UNCHANGED <<todo, target, firstErr, driftFailed>>

\* Mutated: the reconcile starts on a release whose finalizer is not registered yet.
ReconcileStartsMutant ==
    /\ Dequeue
    /\ cache.exists /\ ~cache.deleting /\ ~cache.spec.suspend
    /\ old' = cache
    /\ mr' = [cache EXCEPT !.conditions = MarkReconciling(@)]
    /\ pc' = "render"
    /\ UNCHANGED <<todo, target, firstErr, driftFailed, cont>>

ReconcileStarts ==
    /\ Dequeue
    /\ cache.exists /\ FinalizerName \in cache.finalizers /\ ~cache.deleting
    /\ ~cache.spec.suspend
    /\ old' = cache
    /\ mr' = [cache EXCEPT !.conditions = MarkReconciling(@)]
    /\ pc' = "render"
    /\ UNCHANGED <<todo, target, firstErr, driftFailed, cont>>

-----------------------------------------------------------------------------
(* Phase 1: render.  Phase 4: drift detection and planning. *)

\* The module renders; its release UUID is recorded when it has resources.
RenderModule ==
    /\ pc = "render"
    /\ mr' = [mr EXCEPT !.conditions = MarkModuleResolved(@),
                        !.status.releaseUUID = IF Desired = {} THEN mr.status.releaseUUID
                                               ELSE UUIDOf[mr.spec.module]]
    /\ pc' = "drift"
    /\ NoEffect
    /\ UNCHANGED <<old, todo, target, firstErr, driftFailed, cont, disturbed>>

\* Resolution, rendering, the render digest or the conversion fails.
RenderFails ==
    /\ pc = "render"
    /\ Disturb("render")
    /\ NoEffect
    /\ \/ \E reason \in {"ResolutionFailed", "RenderFailed"} :
             Commit(MarkStalled(mr.conditions, reason),
                    Stalled(DigestSet(None), "skipped", "skipped"), TRUE)
       \/ Commit(MarkStalled(MarkModuleResolved(mr.conditions), "RenderFailed"),
                 Stalled(DigestSet(None), "skipped", "skipped"), TRUE)
       \/ Commit(MarkStalled(MarkModuleResolved(mr.conditions), "ApplyFailed"),
                 Stalled(DigestSet(Desired), "skipped", "skipped"), TRUE)

\* A panic unwinds through the deferred commit, which then finds the zero
\* value of outcome, NoOp; controller-runtime turns the panic into an error.
RenderPanics ==
    /\ pc = "render"
    /\ Disturb("panic")
    /\ NoEffect
    /\ Commit(mr.conditions, NoOpResult("skipped"), TRUE)

\* Resources that do not exist yet are not drift.
Drifted == \E r \in Desired : live[r.id] \notin {Absent, Applied(r)}

IsNoOpNow ==
    IsNoOp(DigestSet(Desired), Entries(Desired),
           mr.status.lastApplied, mr.status.inventory.digest)

\* What follows drift detection: nothing, or the apply phase.
Plan(conditions, failed) ==
    \/ /\ IsNoOpNow
       /\ Commit(conditions, NoOpResult(IF failed THEN "failed" ELSE "ok"), FALSE)
    \/ /\ ~IsNoOpNow
       /\ mr' = [mr EXCEPT !.conditions = conditions]
       /\ driftFailed' = failed
       /\ IF resolveEffectiveSA(mr) = None
          THEN pc' = "apply" /\ todo' = Desired
          ELSE pc' = "impersonate" /\ UNCHANGED todo
       /\ UNCHANGED <<old, target, firstErr, cont>>

detectDrift ==
    /\ pc = "drift"
    /\ NoEffect
    /\ \/ /\ Plan(IF Drifted THEN MarkDrifted(mr.conditions)
                             ELSE ClearDrifted(mr.conditions), FALSE)
          /\ UNCHANGED disturbed
       \/ /\ Disturb("driftCheck")
          /\ Plan(mr.conditions, TRUE)

-----------------------------------------------------------------------------
(* The impersonated client, for the apply phase and for deletion. *)

NewImpersonatedClient ==
    /\ pc = "impersonate"
    /\ resolveEffectiveSA(mr) \in accounts
    /\ IF mr.deleting
       THEN pc' = "prune" /\ todo' = mr.status.inventory.entries
       ELSE pc' = "apply" /\ todo' = Desired
    /\ NoEffect
    /\ UNCHANGED <<mr, old, target, firstErr, driftFailed, cont, disturbed>>

\* A stalled deletion: patchDeletionStatus, then a recheck.
StallDeletion(reason) ==
    /\ mr' = [mr EXCEPT !.conditions = MarkStalled(@, reason)]
    /\ pc' = "patchConditions"
    /\ cont' = "retry"
    /\ todo' = {} /\ target' = None /\ firstErr' = "none"
    /\ UNCHANGED <<old, driftFailed>>

\* Mutated: the orphan annotation is not looked at.
handleDeletionSAMissingStallMutant == StallDeletion("DeletionSAMissing")

\* Mutated: without an account there is taken to be nothing to clean up.
handleDeletionSAMissingSkipMutant ==
    /\ pc' = "removeFinalizer"
    /\ UNCHANGED locals

\* The account is missing: orphan the inventory when asked to, else stall.
handleDeletionSAMissing ==
    \/ /\ mr.orphan
       /\ mr' = [mr EXCEPT !.status.inventory = NoInventory]
       /\ pc' = "patchConditions"
       /\ cont' = "orphan"
       /\ UNCHANGED <<old, todo, target, firstErr, driftFailed>>
    \/ ~mr.orphan /\ StallDeletion("DeletionSAMissing")

ImpersonationFails ==
    /\ pc = "impersonate"
    /\ NoEffect
    /\ \/ /\ resolveEffectiveSA(mr) \notin accounts
          /\ mr.deleting /\ handleDeletionSAMissing
          /\ UNCHANGED disturbed
       \/ /\ Disturb("impersonate")
          /\ mr.deleting /\ StallDeletion("ImpersonationFailed")
       \/ /\ \/ resolveEffectiveSA(mr) \notin accounts /\ UNCHANGED disturbed
             \/ Disturb("impersonate")
          /\ ~mr.deleting
          /\ Commit(MarkStalled(mr.conditions, "ImpersonationFailed"),
                    Stalled(DigestSet(Desired), DriftPhase, "skipped"), TRUE)

-----------------------------------------------------------------------------
(* Phase 5: apply. *)

ApplyResource(r) ==
    /\ pc = "apply"
    /\ r \in todo
    /\ todo' = todo \ {r}
    /\ live' = [live EXCEPT ![r.id] = Applied(r)]
    /\ UNCHANGED <<api, cache, accounts, catalog, queue, pc, mr, old, target,
                   firstErr, driftFailed, cont, disturbed, completed>>

\* Some API call of the apply fails; what was applied before it stays.
ApplyFails ==
    /\ pc = "apply"
    /\ Disturb("apply")
    /\ NoEffect
    /\ \/ /\ resolveEffectiveSA(mr) # None   \* and the error is a 403
          /\ Commit(MarkStalled(mr.conditions, "ImpersonationFailed"),
                    Stalled(DigestSet(Desired), DriftPhase, "failed"), TRUE)
       \/ Commit(MarkNotReady(mr.conditions, "ApplyFailed"),
                 Transient("failed", "skipped"), TRUE)

\* The reconcile succeeded: its entries become the inventory.
CommitSuccess(conditions, outcome) ==
    /\ Commit(MarkReady(conditions), Succeeded(outcome), FALSE)
    /\ completed' = completed \cup {Entries(Desired)}
    /\ UNCHANGED <<api, cache, cluster, queue, disturbed>>

\* Everything is applied: prune what is stale, if there is anything to prune.
ApplySucceeds ==
    /\ pc = "apply" /\ todo = {}
    /\ \/ /\ mr.spec.prune /\ StaleSet # {}
          /\ mr' = [mr EXCEPT !.conditions = ClearDrifted(@)]
          /\ pc' = "prune" /\ todo' = StaleSet
          /\ NoEffect
          /\ UNCHANGED <<old, target, firstErr, driftFailed, cont, disturbed>>
       \/ /\ ~mr.spec.prune \/ StaleSet = {}
          /\ CommitSuccess(ClearDrifted(mr.conditions), "Applied")

-----------------------------------------------------------------------------
(* Phase 6, and the cleanup of a deletion: apply.Prune. *)

pruneUnchanged == <<api, cache, accounts, catalog, queue, pc, mr, old,
                    driftFailed, cont, completed>>

PruneSkips(e) ==
    \/ ~isSafeToDelete(e)
    \/ live[e.id] = Absent
    \/ ~OwnerMatches(live[e.id], mr.status.releaseUUID)

\* Prune looks at the next entry, with a GET unless it is safety-excluded.
PruneGet(e) ==
    /\ pc = "prune" /\ target = None
    /\ e \in todo
    /\ todo' = todo \ {e}
    /\ target' = (IF PruneSkips(e) THEN None ELSE e)
    /\ UNCHANGED <<pruneUnchanged, live, firstErr, disturbed>>

\* The first error decides what isForbidden says of the joined errors.
PruneError ==
    \E kind \in {"forbidden", "other"} :
        firstErr' = (IF firstErr = "none" THEN kind ELSE firstErr)

PruneGetFails(e) ==
    /\ pc = "prune" /\ target = None
    /\ e \in todo /\ isSafeToDelete(e)
    /\ Disturb("prune")
    /\ PruneError
    /\ todo' = todo \ {e}
    /\ UNCHANGED <<pruneUnchanged, live, target>>

\* The DELETE carries no precondition: it removes what is there by now.
PruneDelete ==
    /\ pc = "prune" /\ target # None
    /\ live' = [live EXCEPT ![target.id] = Absent]
    /\ target' = None
    /\ UNCHANGED <<pruneUnchanged, todo, firstErr, disturbed>>

PruneDeleteFails ==
    /\ pc = "prune" /\ target # None
    /\ Disturb("prune")
    /\ PruneError
    /\ target' = None
    /\ UNCHANGED <<pruneUnchanged, live, todo>>

Forbidden == firstErr = "forbidden" /\ resolveEffectiveSA(mr) # None

\* A denied prune stalls the release and leaves errMsg empty.
Denied ==
    [outcome |-> "FailedStalled", reconciled |-> FALSE, failed |-> FALSE,
     retryAfter |-> StalledRecheckInterval, drift |-> DriftPhase, apply |-> "ok",
     prune |-> "failed", digests |-> DigestSet(Desired)]

\* pruneStaleResources returns.
pruneStaleResources ==
    /\ pc = "prune" /\ todo = {} /\ target = None
    /\ ~mr.deleting
    /\ \/ firstErr = "none" /\ CommitSuccess(mr.conditions, "AppliedAndPruned")
       \/ /\ firstErr # "none" /\ Forbidden
          /\ Commit(MarkStalled(mr.conditions, "ImpersonationFailed"), Denied, TRUE)
          /\ NoEffect /\ UNCHANGED disturbed
       \/ /\ firstErr # "none" /\ ~Forbidden
          /\ Commit(MarkNotReady(mr.conditions, "PruneFailed"),
                    Transient("ok", "failed"), TRUE)
          /\ NoEffect /\ UNCHANGED disturbed

\* Mutated: errors of the cleanup do not hold the finalizer back.
pruneForDeletionMutant ==
    /\ pc = "prune" /\ todo = {} /\ target = None
    /\ mr.deleting
    /\ pc' = "removeFinalizer"
    /\ UNCHANGED <<queue, locals>>
    /\ UNCHANGED <<api, cache, cluster, disturbed, completed>>

\* Mutated: an error of the cleanup is logged and not returned.
pruneForDeletionQuietMutant ==
    /\ pc = "prune" /\ todo = {} /\ target = None
    /\ mr.deleting
    /\ \/ firstErr = "none" /\ pc' = "removeFinalizer" /\ UNCHANGED <<queue, locals>>
       \/ firstErr # "none" /\ Return(FALSE) /\ UNCHANGED queued
    /\ UNCHANGED <<api, cache, cluster, disturbed, completed>>

\* handleDeletion after Prune: any error keeps the finalizer.
pruneForDeletion ==
    /\ pc = "prune" /\ todo = {} /\ target = None
    /\ mr.deleting
    /\ \/ firstErr = "none" /\ pc' = "removeFinalizer" /\ UNCHANGED <<queue, locals>>
       \/ firstErr # "none" /\ Forbidden /\ StallDeletion("ImpersonationFailed")
          /\ UNCHANGED queue
       \/ firstErr # "none" /\ ~Forbidden /\ Return(TRUE) /\ UNCHANGED queued
    /\ UNCHANGED <<api, cache, cluster, disturbed, completed>>

removeFinalizer ==
    /\ pc = "removeFinalizer"
    /\ LET finalizers == mr.finalizers \ {FinalizerName}
       IN  \/ /\ FinalizersAccepted(finalizers)
              /\ Write(WithFinalizers(finalizers))
              /\ Return(FALSE)
              /\ UNCHANGED disturbed
           \/ /\ ~FinalizersAccepted(finalizers)
              /\ NoWrite /\ Return(TRUE)
              /\ UNCHANGED disturbed
           \/ NoWrite /\ Return(TRUE) /\ Disturb("finalizer")
    /\ UNCHANGED <<cluster, completed>>

-----------------------------------------------------------------------------
(* Phase 7: the status patch, two requests that fail independently. *)

\* An error of the patch is returned on the suspend path and logged elsewhere.
PatchFailure ==
    /\ \/ ~api.exists /\ UNCHANGED disturbed
       \/ api.exists /\ Disturb("patch")
    /\ NoWrite

patchConditions ==
    /\ pc = "patchConditions"
    /\ \/ /\ api.exists
          /\ Write([api EXCEPT !.conditions =
                 PatchConditions(@, old.conditions, mr.conditions,
                                 ~mr.deleting /\ ~mr.spec.suspend)])
          /\ UNCHANGED <<cont, disturbed>>
       \/ PatchFailure /\ cont' = (IF cont = "suspend" THEN "retry" ELSE cont)
    /\ pc' = "patchStatus"
    /\ UNCHANGED <<cluster, timer, mr, old, todo, target, firstErr, driftFailed,
                   completed>>

\* Mutated: the requeue of a failed reconcile is dropped.
AfterPatchMutant(failed) ==
    \/ /\ cont = "orphan"
       /\ pc' = "removeFinalizer"
       /\ UNCHANGED <<timer, locals>>
    \/ /\ cont # "orphan"
       /\ Return(failed /\ cont = "suspend")

\* What follows the patch: the finalizer on the orphan exit, else the return.
AfterPatch(failed) ==
    \/ /\ cont = "orphan"
       /\ pc' = "removeFinalizer"
       /\ UNCHANGED <<timer, locals>>
    \/ /\ cont # "orphan"
       /\ Return(cont = "retry" \/ (failed /\ cont = "suspend"))

patchStatus ==
    /\ pc = "patchStatus"
    /\ \/ /\ api.exists
          /\ Write([api EXCEPT !.status = PatchStatus(@, old.status, mr.status)])
          /\ AfterPatch(FALSE)
          /\ UNCHANGED disturbed
       \/ PatchFailure /\ AfterPatch(TRUE)
    /\ UNCHANGED <<cluster, completed>>

-----------------------------------------------------------------------------
(* Users, the cache, the clock, and the rest of the world. *)

noWorker == <<pc, locals, completed>>

UserEdits(spec) ==
    /\ api.exists /\ api.generation < MaxGeneration
    /\ spec # api.spec
    /\ Write([api EXCEPT !.spec = spec, !.generation = @ + 1])
    /\ UNCHANGED <<cluster, timer, noWorker, disturbed>>

UserDeletes ==
    /\ api.exists /\ ~api.deleting
    /\ Write(IF api.finalizers = {} THEN Gone
             ELSE [api EXCEPT !.deleting = TRUE, !.generation = @ + 1])
    /\ UNCHANGED <<cluster, timer, noWorker, disturbed>>

\* The force-delete-orphan annotation: no generation change, no event.
UserAnnotates ==
    /\ api.exists /\ ~api.orphan
    /\ ServiceAccounts # {}
    /\ Write([api EXCEPT !.orphan = TRUE])
    /\ UNCHANGED <<cluster, timer, noWorker, disturbed>>

CacheSyncs ==
    /\ CacheLag /\ cache # api
    /\ cache' = api
    /\ queued' = (queued \/ EventPasses(cache, api))
    /\ UNCHANGED <<api, cluster, timer, noWorker, disturbed>>

\* The bound on retries stops the clock of a release that fails for good.
TimerFires ==
    /\ timer
    /\ api.deleting \/ api.status.failureCounters.reconcile < MaxFailures
    /\ timer' = FALSE /\ queued' = TRUE
    /\ UNCHANGED <<api, cache, cluster, noWorker, disturbed>>

\* The operator restarts, perhaps as another version: its memory is lost, the
\* cache is filled and every release is enqueued.
Crash ==
    /\ Disturb("crash")
    /\ pc' = "idle"
    /\ mr' = Gone /\ old' = Gone /\ todo' = {} /\ target' = None
    /\ firstErr' = "none" /\ driftFailed' = FALSE /\ cont' = "done"
    /\ cache' = api
    /\ queued' = api.exists /\ timer' = FALSE
    /\ catalog' \in Catalogs
    /\ UNCHANGED <<api, live, accounts, completed>>

ServiceAccountChanges ==
    /\ Disturb("serviceAccount")
    /\ accounts' \in SUBSET ServiceAccounts /\ accounts' # accounts
    /\ UNCHANGED <<api, cache, live, catalog, queue, noWorker>>

\* Another client creates, changes, relabels or deletes an object.
ForeignWrite(o) ==
    /\ Disturb("foreignWrite")
    /\ \E v \in {Absent} \cup LiveObjects :
          v # live[o] /\ live' = [live EXCEPT ![o] = v]
    /\ UNCHANGED <<api, cache, accounts, catalog, queue, noWorker>>

OtherAddsFinalizer ==
    /\ Disturb("foreignFinalizer")
    /\ api.exists /\ ~api.deleting /\ OtherFinalizer \notin api.finalizers
    /\ Write(WithFinalizers(api.finalizers \cup {OtherFinalizer}))
    /\ UNCHANGED <<cluster, timer, noWorker>>

\* The other controller finishes its own cleanup of a deleted release.
OtherRemovesFinalizer ==
    /\ api.deleting /\ OtherFinalizer \in api.finalizers
    /\ Write(WithFinalizers(api.finalizers \ {OtherFinalizer}))
    /\ UNCHANGED <<cluster, timer, noWorker, disturbed>>

-----------------------------------------------------------------------------

Init ==
    /\ \E spec \in Specs : api = Created(spec)
    /\ cache = api
    /\ live = [o \in Objects |-> Absent]
    /\ accounts = ServiceAccounts
    /\ catalog \in Catalogs
    /\ queued = TRUE /\ timer = FALSE
    /\ pc = "idle"
    /\ mr = Gone /\ old = Gone
    /\ todo = {} /\ target = None
    /\ firstErr = "none" /\ driftFailed = FALSE /\ cont = "done"
    /\ disturbed = 0
    /\ completed = {}

Worker ==
    \/ ReconcileGone \/ ReconcileNoFinalizer \/ handleDeletion
    \/ ReconcileSuspended \/ ReconcileStarts
    \/ addFinalizer \/ removeFinalizer
    \/ RenderModule \/ RenderFails \/ RenderPanics \/ detectDrift
    \/ NewImpersonatedClient \/ ImpersonationFails
    \/ (\E r \in todo : ApplyResource(r)) \/ ApplyFails \/ ApplySucceeds
    \/ (\E e \in todo : PruneGet(e) \/ PruneGetFails(e))
    \/ PruneDelete \/ PruneDeleteFails
    \/ pruneStaleResources \/ pruneForDeletion
    \/ patchConditions \/ patchStatus

Users == UserDeletes \/ UserAnnotates \/ \E spec \in Specs : UserEdits(spec)

World ==
    \/ Crash \/ ServiceAccountChanges \/ (\E o \in Objects : ForeignWrite(o))
    \/ OtherAddsFinalizer \/ OtherRemovesFinalizer

Next == Worker \/ CacheSyncs \/ TimerFires \/ Users \/ World

Spec == Init /\ [][Next]_vars

\* The worker runs while there is work, watch events arrive, timers fire, and
\* the other controller finishes its cleanup.  Users and faults are not fair.
FairSpec ==
    /\ Spec
    /\ WF_vars(Worker) /\ WF_vars(CacheSyncs) /\ WF_vars(TimerFires)
    /\ WF_vars(OtherRemovesFinalizer)

-----------------------------------------------------------------------------
(* Properties.                                                             *)

\* Every variable stays within its type.
TypeOK ==
    /\ api \in ModuleReleases /\ cache \in ModuleReleases
    /\ mr \in ModuleReleases /\ old \in ModuleReleases
    /\ live \in [Objects -> {Absent} \cup LiveObjects]
    /\ accounts \in SUBSET ServiceAccounts /\ catalog \in Catalogs
    /\ queued \in BOOLEAN /\ timer \in BOOLEAN
    /\ pc \in {"idle", "addFinalizer", "removeFinalizer", "render", "drift",
               "impersonate", "apply", "prune", "patchConditions", "patchStatus"}
    /\ todo \in (SUBSET Resources) \cup (SUBSET EntrySet)
    /\ target \in {None} \cup EntrySet
    /\ firstErr \in {"none", "forbidden", "other"}
    /\ driftFailed \in BOOLEAN
    /\ cont \in {"done", "retry", "suspend", "orphan"}
    /\ disturbed \in Nat
    /\ completed \in SUBSET SUBSET EntrySet

\* Nothing is running, queued, scheduled or on its way to the cache.
Settled == pc = "idle" /\ ~queued /\ ~timer /\ cache = api

DesiredBy(m) == Render[<<catalog, m.spec.module, m.spec.values>>]

\* What the status claims of the current spec: Ready at its generation.
ReportsReady ==
    /\ api.exists /\ ~api.deleting
    /\ api.conditions.ready = "True"
    /\ api.status.observedGeneration = api.generation

\* nextSequence and recordHistoryEntry: the history is newest first with
\* strictly decreasing sequence numbers and never exceeds its bound, although
\* a reconcile may extend a stale copy of it.
HistoryNewestFirst ==
    LET h == api.status.history
    IN  /\ Len(h) <= MaxHistoryEntries
        /\ \A i, j \in 1..Len(h) : i < j => h[i].sequence > h[j].sequence

\* The deferred commit replaces the inventory only on success: the inventory
\* in the API server is always that of a reconcile that applied and pruned
\* everything, whatever failed, crashed or was read stale since.
InventoryProven ==
    api.status.inventory.entries = {} \/ api.status.inventory.entries \in completed

\* apply.Prune and isSafeToDelete: no stale set and no deletion of a release makes
\* the controller delete a Namespace or a CustomResourceDefinition.  (What Flux
\* does to an object that it is told to apply by force is not modelled.)
ProtectedSurvive ==
    [][disturbed' = disturbed =>
          \A o \in Protected \cap Objects : live[o] # Absent => live'[o] # Absent]_vars

\* ComputeStaleSet: pruning a reconcile's stale set never deletes an object
\* that the same reconcile has just applied, not even when it moved to
\* another component.
DesiredSurvive ==
    [][pc = "prune" /\ ~mr.deleting /\ disturbed' = disturbed =>
          \A r \in Desired : live[r.id] # Absent => live'[r.id] # Absent]_vars

\* status.observedGeneration follows metadata.generation and never moves
\* back, although it is written from a copy that may be stale.
ObservedGenerationAdvances ==
    [][api'.exists =>
          /\ api'.status.observedGeneration >= api.status.observedGeneration
          /\ api'.status.observedGeneration <= api'.generation]_vars

\* handleDeletion: when the finalizer of a pruning release is removed, every
\* inventory entry is gone, protected or no longer this release's, or the
\* operator asked to orphan it.
FinalizerGuardsInventory ==
    [][/\ FinalizerName \in api.finalizers /\ FinalizerName \notin api'.finalizers
       /\ mr.spec.prune /\ ~mr.orphan
       => \A e \in api.status.inventory.entries : PruneSkips(e)]_vars

\* handleDeletion returns an error or a recheck whenever it keeps the
\* finalizer: a release that is being deleted is never left behind with the
\* finalizer and nothing scheduled.
DeletionNotAbandoned ==
    Settled /\ api.exists /\ api.deleting => FinalizerName \notin api.finalizers

\* GenerationChangedPredicate and the dirty key: once nothing is left to do,
\* the last generation has been observed.
NoEditForgotten ==
    Settled /\ api.exists /\ ~api.deleting =>
        api.status.observedGeneration = api.generation

\* ComputeBackoff is fed with the counter the same commit writes: a retry time
\* is recorded exactly while there are failures in a row, and is the backoff
\* of that count or the stalled recheck.
RetryMatchesCounter ==
    LET n == api.status.failureCounters.reconcile
        r == api.status.nextRetryAt
    IN  /\ n = 0 <=> r = 0
        /\ r \in {0, StalledRecheckInterval, ComputeBackoff(n)}

\* The delay that the retries arrive at, one failure after the other: the base
\* delay first, then twice the one before, never more than the cap.
Slowed[n \in Nat \ {0}] ==
    IF n = 1 THEN BackoffBaseDelay
    ELSE LET twice == 2 * Slowed[n - 1]
         IN  IF twice > BackoffMaxDelay THEN BackoffMaxDelay ELSE twice

\* ComputeBackoff: however transient and stalled failures follow on one another,
\* a transient one is retried after a delay that every failure since the last
\* success has doubled, five seconds at first and five minutes at most.
RetriesSlowDown ==
    LET s == api.status
    IN  s.nextRetryAt \notin {0, StalledRecheckInterval} =>
            s.nextRetryAt = Slowed[s.failureCounters.reconcile]

\* status.nextRetryAt promises a retry: while it is set on an active release, a
\* requeue is pending.
RetryIsScheduled ==
    /\ pc = "idle" /\ api.exists /\ ~api.deleting
    /\ api.status.nextRetryAt > 0 /\ ~api.spec.suspend
    => timer \/ queued

\* Every failed attempt is recorded: when the counter of consecutive failures
\* grows, the same commit adds to the history.
FailuresRecorded ==
    [][api'.status.failureCounters.reconcile > api.status.failureCounters.reconcile
          => api'.status.history # api.status.history]_vars

\* IsNoOp and the commit: once nothing is left to do, a Ready release has
\* recorded exactly the render of its current spec as applied.
ReadyIsRecorded ==
    Settled /\ ReportsReady =>
        /\ api.status.lastApplied =
              [source |-> api.spec.module, config |-> api.spec.values,
               render |-> DesiredBy(api)]
        /\ api.status.inventory.entries = Entries(DesiredBy(api))
        /\ api.status.inventory.digest = Entries(DesiredBy(api))

\* The point of the controller: once nothing is left to do, the objects of a
\* Ready release are in the cluster as rendered.
ReadyIsApplied ==
    Settled /\ ReportsReady =>
        \A r \in DesiredBy(api) :
            /\ live[r.id] # Absent
            /\ live[r.id].component = r.component
            /\ live[r.id].content = r.content

\* Prune, the other half: no object of an earlier spec is left behind.
ReadyIsPruned ==
    Settled /\ ReportsReady =>
        \A o \in Objects \ Protected :
            live[o] # Absent => \E r \in DesiredBy(api) : r.id = o

\* FinalizerName, "to ensure owned resources are cleaned up before deletion
\* completes": when the release goes, everything it applied is gone, unless
\* its user has asked for the objects to be orphaned.
GoneIsClean ==
    [][api.exists /\ ~api'.exists /\ ~api.orphan =>
        \A o \in Objects \ Protected : live[o] = Absent]_vars

\* The stage of the release, which goes with the finalizer even if others keep
\* the object, the work of the reconcile at hand, and the inventory.
Stage ==
    CASE FinalizerName \in api.finalizers /\ ~api.deleting -> "active"
      [] FinalizerName \in api.finalizers /\ api.deleting -> "terminating"
      [] FinalizerName \notin api.finalizers /\ api.exists /\ ~api.deleting -> "fresh"
      [] OTHER -> "gone"

Work ==
    CASE pc \in {"idle", "addFinalizer"} -> "none"
      [] pc \notin {"idle", "addFinalizer"} /\ mr.deleting -> "cleaning"
      [] pc \in {"render", "drift", "impersonate", "apply"} /\ ~mr.deleting -> "applying"
      [] pc = "prune" /\ ~mr.deleting -> "sweeping"
      [] pc \in {"patchConditions", "patchStatus"} /\ ~mr.deleting ->
            (IF mr.spec.suspend THEN "none" ELSE "recording")

Owned == IF Stage = "gone" THEN {} ELSE api.status.inventory.entries

L == INSTANCE Lifecycle WITH
        stage <- Stage, work <- Work, owned <- Owned,
        Others <- IF "foreignWrite" \in Disturbances THEN "always" ELSE "never"

\* The finalizer brackets the work: objects are applied only while it is held,
\* pruned only after everything was applied or in a deletion, and a suspended
\* release changes nothing.
FinalizerBrackets == L!Spec

\* A deleted release goes away.
DeletionCompletes == api.deleting ~> ~api.exists

\* A deletion that waits for its service account goes on once the account is
\* back or the orphan annotation is set.
DeletionUnblocks ==
    <>[](accounts = ServiceAccounts \/ api.orphan) =>
        (api.deleting ~> ~api.exists)

\* Once users stop editing, the release is gone, suspended, or Ready at its
\* last generation, for good.
Converges ==
    <>[](~api.exists \/ api.spec.suspend \/ ReportsReady)

=============================================================================
