------------------------------- MODULE Release -------------------------------
(***************************************************************************)
(* The Release controller: several Releases in the API server, the Flux    *)
(* sources they are rendered from, the work queue, the one worker that     *)
(* runs internal/reconcile.ReconcileRelease for one of them at a time, and *)
(* the cluster objects they share.  Reads of Releases come from a cache    *)
(* that is up to date here, and do not fail.                               *)
(***************************************************************************)
EXTENDS Integers, Status, Backoff

CONSTANTS
    Releases,         \* names of Releases
    Sources,          \* Flux sources: kind, namespace and name
    Local,            \* <<release, source>> pairs in the same namespace
    Artifacts,        \* artifacts, by their digests
    Publications,     \* source -> the artifacts it publishes, in order
    Paths,            \* spec.path
    Objects,          \* ids of cluster objects: group, kind, namespace, name
    Components,       \* values of the component label
    Contents,         \* the rest of a manifest
    Render,           \* <<artifact, path>> -> set of resources, None if it fails
    ServiceAccounts,  \* service accounts of the releases' namespace
    DefaultSA,        \* --default-service-account, or None
    Specs,            \* release -> the specs users may write
    Disturbances,     \* the kinds of faults and other rare events that may occur
    MaxDisturbances,  \* ... and how many of them
    MaxGeneration,    \* bound on metadata.generation
    MaxFailures       \* bound on consecutive failures that are retried

Resources == [id : Objects, component : Components, content : Contents]
EntrySet == [id : Objects, component : Components]
LiveObjects == [managed : BOOLEAN, uuid : {None} \cup Releases,
                component : Components, content : Contents]
SpecSet == [source : Sources, path : Paths, dependsOn : SUBSET Releases,
            prune : BOOLEAN, suspend : BOOLEAN,
            serviceAccountName : {None} \cup ServiceAccounts]
DisturbanceKinds ==
    {"source", "fetch", "render", "panic", "impersonate", "apply", "prune",
     "patch", "finalizer", "crash", "serviceAccount", "create"}

ASSUME Assumptions ==
    /\ Local \subseteq Releases \X Sources
    /\ Publications \in [Sources -> Seq(Artifacts)]
    /\ Render \in [Artifacts \X Paths -> {None} \cup SUBSET Resources]
    /\ Specs \in [Releases -> SUBSET SpecSet]
    /\ DefaultSA \in {None} \cup ServiceAccounts
    /\ Disturbances \subseteq DisturbanceKinds
    /\ {MaxDisturbances, MaxGeneration, MaxFailures} \subseteq Nat
    /\ None \notin Releases \cup Artifacts \cup ServiceAccounts
    /\ Absent \notin LiveObjects

VARIABLES
    api,        \* the Releases in the API server
    sources,    \* the Flux sources: exists, ready, number of publications
    live,       \* the cluster objects
    accounts,   \* the service accounts that exist
    queued,     \* the releases whose keys are in the work queue
    timers,     \* the releases with a delayed or rate-limited requeue
    pc,         \* the step the worker is at
    cur,        \* the release it reconciles
    rel,        \* ... as it is in the worker's memory
    artifact,   \* the artifact reference it resolved
    package,    \* the artifact it downloaded
    todo,       \* resources still to apply, or entries still to prune
    firstErr,   \* the first error Prune collected
    cont,       \* what follows the status patch
    disturbed,  \* disturbances so far
    succeeded   \* history: the releases that have been applied in full once

world == <<sources, live, accounts>>
queue == <<queued, timers>>
locals == <<cur, rel, artifact, package, todo, firstErr, cont>>
vars == <<api, world, queue, pc, locals, disturbed, succeeded>>

-----------------------------------------------------------------------------
(* The Release object. *)

DefaultReleaseInterval == 300

NoInventory == [revision |-> 0, digest |-> None, entries |-> {}]

NoStatus ==
    [observedGeneration |-> 0, source |-> None, lastAttempted |-> NoDigests,
     lastApplied |-> NoDigests, failureCounters |-> ZeroCounters,
     inventory |-> NoInventory, history |-> <<>>, nextRetryAt |-> 0]

Created(spec) ==
    [exists |-> TRUE, generation |-> 1, spec |-> spec, deleting |-> FALSE,
     finalizer |-> FALSE, orphan |-> FALSE, status |-> NoStatus,
     conditions |-> NoConditions]

\* No object: also the content of the worker's memory between reconciles.
Gone ==
    [exists |-> FALSE, generation |-> 0, spec |-> None, deleting |-> FALSE,
     finalizer |-> FALSE, orphan |-> FALSE, status |-> NoStatus,
     conditions |-> NoConditions]

DigestSets ==
    [source : {None} \cup Artifacts, config : {None, "empty"},
     render : {None} \cup SUBSET Resources]

Statuses ==
    [observedGeneration : Nat, source : {None} \cup Artifacts,
     lastAttempted : DigestSets, lastApplied : DigestSets,
     failureCounters : Counters,
     inventory : [revision : Nat, digest : {None} \cup SUBSET EntrySet,
                  entries : SUBSET EntrySet],
     history : Seq(HistoryEntry), nextRetryAt : Int]

ReleaseObjects ==
    [exists : BOOLEAN, generation : Nat, spec : {None} \cup SpecSet,
     deleting : BOOLEAN, finalizer : BOOLEAN, orphan : BOOLEAN,
     status : Statuses, conditions : Conditions]

-----------------------------------------------------------------------------
(* The API server and the work queue. *)

\* A write of a Release; GenerationChangedPredicate filters its event.
Write(r, new) ==
    /\ api' = [api EXCEPT ![r] = new]
    /\ queued' = (IF api[r].exists # new.exists \/ api[r].generation # new.generation
                  THEN queued \cup {r} ELSE queued)

NoWrite == UNCHANGED <<api, queued>>

\* A fault or another rare event, within the bound.
Disturb(kind) ==
    /\ kind \in Disturbances
    /\ disturbed < MaxDisturbances
    /\ disturbed' = disturbed + 1

\* The worker takes a key.  Whether a pending delayed requeue of the same key
\* survives depends on the queue implementation.
Dequeue(r) ==
    /\ pc = "idle" /\ r \in queued
    /\ queued' = queued \ {r}
    /\ \E dropped \in SUBSET {r} : timers' = timers \ dropped
    /\ UNCHANGED <<api, world, disturbed, succeeded>>

\* The reconcile begins with the copy Client.Get returned.
Load(r, copy, next) ==
    /\ cur' = r /\ rel' = copy
    /\ pc' = next
    /\ UNCHANGED <<artifact, package, todo, firstErr>>

Forget ==
    /\ pc' = "idle"
    /\ cur' = None /\ rel' = Gone
    /\ artifact' = None /\ package' = None
    /\ todo' = {} /\ firstErr' = "none" /\ cont' = "done"

\* The reconcile returns; again when it asks for a requeue or returns an error.
Return(again) ==
    /\ Forget
    /\ timers' = (IF again THEN timers \cup {cur} ELSE timers)

NoEffect == UNCHANGED <<api, world, queue, succeeded>>

-----------------------------------------------------------------------------
(* The commit: the deferred function of ReconcileRelease. *)

resolveEffectiveSA(m) ==
    IF m.spec.serviceAccountName # None THEN m.spec.serviceAccountName ELSE DefaultSA

\* The render of what was downloaded, recorded under the digest that was resolved.
Desired == Render[<<package, rel.spec.path>>]

SourceDigest == [NoDigests EXCEPT !.source = artifact]

DigestSet == [source |-> artifact, config |-> "empty", render |-> Desired]

\* Mutated: a success takes one failure back.
updateReleaseFailureCountersMutant(c, result) ==
    [reconcile |-> IF result.outcome \in {"FailedTransient", "FailedStalled"}
                   THEN c.reconcile + 1 ELSE c.reconcile - 1,
     apply |-> Count(c.apply, result.apply),
     prune |-> Count(c.prune, result.prune),
     drift |-> c.drift]

updateReleaseFailureCounters(c, result) ==
    [reconcile |-> IF result.outcome \in {"FailedTransient", "FailedStalled"}
                   THEN c.reconcile + 1 ELSE 0,
     apply |-> Count(c.apply, result.apply),
     prune |-> Count(c.prune, result.prune),
     drift |-> c.drift]

NoOpResult ==
    [outcome |-> "NoOp", retryAfter |-> 0, apply |-> "skipped",
     prune |-> "skipped", digests |-> NoDigests]

\* phaseFail before the apply phase.
Fails(outcome, retryAfter, digests) ==
    [outcome |-> outcome, retryAfter |-> retryAfter, apply |-> "skipped",
     prune |-> "skipped", digests |-> digests]

Stalls(digests) == Fails("FailedStalled", StalledRecheckInterval, digests)

releaseBackoff == ComputeBackoff(rel.status.failureCounters.reconcile + 1)

\* phaseFail of the apply and prune phases.
BacksOff(apply, prune) ==
    [outcome |-> "FailedTransient", retryAfter |-> releaseBackoff,
     apply |-> apply, prune |-> prune, digests |-> DigestSet]

Succeeds(outcome) ==
    [outcome |-> outcome, retryAfter |-> 0, apply |-> "ok", prune |-> "ok",
     digests |-> DigestSet]

CommitStatus(s, result) ==
    LET reconciled == result.outcome \in {"Applied", "AppliedAndPruned"}
        counted == [s EXCEPT
            !.observedGeneration = rel.generation,
            !.failureCounters = updateReleaseFailureCounters(@, result),
            !.nextRetryAt = result.retryAfter]
        attempted == [counted EXCEPT
            !.lastAttempted = result.digests,
            !.history = recordHistoryEntry(@, reconciled)]
    IN  IF result.outcome = "NoOp" THEN counted
        ELSE IF ~reconciled THEN attempted
        ELSE [attempted EXCEPT
            !.lastApplied = result.digests,
            !.inventory = [revision |-> @.revision + 1,
                           digest |-> Entries(Desired), entries |-> Entries(Desired)]]

\* The reconcile returns and its deferred function runs up to the patch.
Commit(conditions, result) ==
    /\ rel' = [rel EXCEPT !.conditions = IF result.outcome = "NoOp"
                                         THEN MarkReady(conditions) ELSE conditions,
                          !.status = CommitStatus(@, result)]
    /\ pc' = "patch" /\ cont' = "retry"
    /\ artifact' = None /\ package' = None
    /\ todo' = {} /\ firstErr' = "none"
    /\ UNCHANGED cur

-----------------------------------------------------------------------------
(* ReconcileRelease up to its first phase. *)

ReconcileGone(r) ==
    /\ Dequeue(r)
    /\ ~api[r].exists
    /\ UNCHANGED <<pc, locals>>

ReconcileNoFinalizer(r) ==
    /\ Dequeue(r)
    /\ api[r].exists /\ ~api[r].finalizer
    /\ Load(r, api[r], "addFinalizer")
    /\ UNCHANGED cont

addReleaseFinalizer ==
    /\ pc = "addFinalizer"
    /\ \/ /\ api[cur].exists
          /\ Write(cur, [api[cur] EXCEPT !.finalizer = TRUE])
          /\ UNCHANGED disturbed
       \/ ~api[cur].exists /\ NoWrite /\ UNCHANGED disturbed
       \/ NoWrite /\ Disturb("finalizer")
    /\ Return(TRUE)
    /\ UNCHANGED <<world, succeeded>>

\* Mutated: the work starts whether or not the finalizer is there.
ActiveMutant(r) == api[r].exists /\ ~api[r].deleting

Active(r) == api[r].exists /\ api[r].finalizer /\ ~api[r].deleting

ReconcileSuspended(r) ==
    /\ Dequeue(r)
    /\ Active(r) /\ api[r].spec.suspend
    /\ Load(r, [api[r] EXCEPT !.conditions = MarkSuspended(@),
                              !.status.observedGeneration = api[r].generation],
            "patch")
    /\ cont' = "suspend"

\* Mutated: a dependency that does not exist holds nothing back.
checkDependsOnMutant(r) ==
    \A d \in api[r].spec.dependsOn : api[d].exists => api[d].conditions.ready = "True"

\* Every dependency is Ready.  (A dependency in another namespace is refused for
\* good, like one that never becomes Ready.)
checkDependsOn(r) ==
    \A d \in api[r].spec.dependsOn : api[d].exists /\ api[d].conditions.ready = "True"

\* Mutated: a waiting release relies on an event of its dependency.
ReconcileWaitsMutant(r) ==
    /\ Dequeue(r)
    /\ Active(r) /\ ~api[r].spec.suspend /\ ~checkDependsOn(r)
    /\ Load(r, [api[r] EXCEPT
                   !.conditions = MarkNotReady(@, "DependenciesNotReady"),
                   !.status.observedGeneration = api[r].generation],
            "patch")
    /\ cont' = "done"

\* A release that has to wait asks again after its interval.
ReconcileWaits(r) ==
    /\ Dequeue(r)
    /\ Active(r) /\ ~api[r].spec.suspend /\ ~checkDependsOn(r)
    /\ Load(r, [api[r] EXCEPT
                   !.conditions = MarkNotReady(@, "DependenciesNotReady"),
                   !.status.observedGeneration = api[r].generation],
            "patch")
    /\ cont' = "retry"

ReconcileStarts(r) ==
    /\ Dequeue(r)
    /\ Active(r) /\ ~api[r].spec.suspend /\ checkDependsOn(r)
    /\ Load(r, [api[r] EXCEPT !.conditions = MarkReconciling(@)], "resolve")
    /\ UNCHANGED cont

-----------------------------------------------------------------------------
(* Phases 1 to 5: resolve, fetch, navigate, render. *)

\* status.artifact of a source.
ArtifactOf(s) ==
    IF sources[s].published = 0 THEN None ELSE Publications[s][sources[s].published]

\* The state of the source lets Resolve return its artifact.
Resolvable(s) == sources[s].exists /\ sources[s].ready /\ ArtifactOf(s) # None

resolveReleaseSource ==
    /\ pc = "resolve"
    /\ LET s == rel.spec.source
       IN  \/ /\ Resolvable(s)
              /\ artifact' = ArtifactOf(s)
              /\ rel' = [rel EXCEPT !.status.source = ArtifactOf(s)]
              /\ pc' = "fetch"
              /\ UNCHANGED <<cur, package, todo, firstErr, cont, disturbed>>
           \/ /\ ~sources[s].exists
              /\ Commit(MarkStalled(rel.conditions, "SourceNotReady"), Stalls(NoDigests))
              /\ UNCHANGED disturbed
           \/ /\ \/ sources[s].exists /\ ~Resolvable(s) /\ UNCHANGED disturbed
                 \/ Disturb("source")   \* the read itself fails
              /\ Commit(MarkNotReady(rel.conditions, "SourceNotReady"),
                        Fails("FailedTransient", DefaultReleaseInterval, NoDigests))
    /\ NoEffect

\* What the artifact URL may serve: what was resolved, or a later artifact.
Served == {artifact} \cup ({ArtifactOf(rel.spec.source)} \ {None})

\* Mutated: the digest of the download is not verified.
FetchMutant(downloaded) == TRUE

\* Fetch: the digest of the download must be the resolved one.
Fetch(downloaded) == downloaded = artifact

fetchReleaseArtifact ==
    /\ pc = "fetch"
    /\ \/ \E downloaded \in Served :
             /\ Fetch(downloaded)
             /\ package' = downloaded
             /\ pc' = "render"
             /\ UNCHANGED <<cur, rel, artifact, todo, firstErr, cont, disturbed>>
       \/ /\ \/ (\E downloaded \in Served : ~Fetch(downloaded)) /\ UNCHANGED disturbed
             \/ Disturb("fetch")
          /\ Commit(MarkNotReady(rel.conditions, "FetchFailed"),
                    Fails("FailedTransient", DefaultReleaseInterval, SourceDigest))
    /\ NoEffect

IsNoOpNow ==
    IsNoOp(DigestSet, Entries(Desired), rel.status.lastApplied,
           rel.status.inventory.digest)

\* The package renders: nothing to do, or on to the apply phase.
renderReleasePackage ==
    /\ pc = "render" /\ Desired # None
    /\ \/ IsNoOpNow /\ Commit(rel.conditions, NoOpResult)
       \/ /\ ~IsNoOpNow
          /\ IF resolveEffectiveSA(rel) = None
             THEN pc' = "apply" /\ todo' = Desired
             ELSE pc' = "impersonate" /\ UNCHANGED todo
          /\ UNCHANGED <<cur, rel, artifact, package, firstErr, cont>>
    /\ NoEffect /\ UNCHANGED disturbed

\* The path, release.cue or the kind is wrong in this artifact, or loading,
\* rendering or digesting fails (the reason says which, and nothing reads it);
\* or the conversion for the apply fails.
RenderFails ==
    /\ pc = "render"
    /\ \/ Desired = None /\ UNCHANGED disturbed
       \/ Desired # None /\ Disturb("render")
    /\ \/ Commit(MarkStalled(rel.conditions, "RenderFailed"), Stalls(SourceDigest))
       \/ /\ Desired # None /\ ~IsNoOpNow
          /\ Commit(MarkStalled(rel.conditions, "ApplyFailed"), Stalls(DigestSet))
    /\ NoEffect

\* A panic unwinds through the deferred commit, which finds the zero value of
\* outcome, NoOp.
RenderPanics ==
    /\ pc = "render"
    /\ Disturb("panic")
    /\ Commit(rel.conditions, NoOpResult)
    /\ NoEffect

-----------------------------------------------------------------------------
(* The impersonated client, for the apply phase and for deletion. *)

buildReleaseApplyClient ==
    /\ pc = "impersonate"
    /\ resolveEffectiveSA(rel) \in accounts
    /\ IF rel.deleting
       THEN pc' = "prune" /\ todo' = rel.status.inventory.entries
       ELSE pc' = "apply" /\ todo' = Desired
    /\ NoEffect
    /\ UNCHANGED <<cur, rel, artifact, package, firstErr, cont, disturbed>>

\* A stalled deletion: patchReleaseDeletionStatus, then a recheck.
StallDeletion(reason) ==
    /\ rel' = [rel EXCEPT !.conditions = MarkStalled(@, reason)]
    /\ pc' = "patch" /\ cont' = "retry"
    /\ todo' = {} /\ firstErr' = "none"
    /\ UNCHANGED <<cur, artifact, package>>

\* The account is missing: orphan the inventory when asked to, else stall.
handleReleaseDeletionSAMissing ==
    \/ /\ rel.orphan
       /\ rel' = [rel EXCEPT !.status.inventory = NoInventory]
       /\ pc' = "patch" /\ cont' = "orphan"
       /\ UNCHANGED <<cur, artifact, package, todo, firstErr>>
    \/ ~rel.orphan /\ StallDeletion("DeletionSAMissing")

ImpersonationFails ==
    /\ pc = "impersonate"
    /\ \/ /\ resolveEffectiveSA(rel) \notin accounts /\ rel.deleting
          /\ handleReleaseDeletionSAMissing
          /\ UNCHANGED disturbed
       \/ /\ Disturb("impersonate") /\ rel.deleting
          /\ StallDeletion("ImpersonationFailed")
       \/ /\ \/ resolveEffectiveSA(rel) \notin accounts /\ UNCHANGED disturbed
             \/ Disturb("impersonate")
          /\ ~rel.deleting
          /\ Commit(MarkStalled(rel.conditions, "ImpersonationFailed"), Stalls(DigestSet))
    /\ NoEffect

-----------------------------------------------------------------------------
(* Phases 6 and 7: applyAndPruneRelease. *)

Applied(r) ==
    [managed |-> TRUE, uuid |-> cur, component |-> r.component, content |-> r.content]

\* Mutated: every entry of the previous inventory is stale.
StaleSetMutant == rel.status.inventory.entries

StaleSet == ComputeStaleSet(rel.status.inventory.entries, Entries(Desired))

ApplyResource(r) ==
    /\ pc = "apply" /\ r \in todo
    /\ todo' = todo \ {r}
    /\ live' = [live EXCEPT ![r.id] = Applied(r)]
    /\ UNCHANGED <<api, sources, accounts, queue, pc, cur, rel, artifact, package,
                   firstErr, cont, disturbed, succeeded>>

ApplyFails ==
    /\ pc = "apply"
    /\ Disturb("apply")
    /\ Commit(MarkNotReady(rel.conditions, "ApplyFailed"), BacksOff("failed", "skipped"))
    /\ NoEffect

\* The reconcile succeeded: its entries become the inventory.
CommitSuccess(outcome) ==
    /\ Commit(MarkReady(ClearDrifted(rel.conditions)), Succeeds(outcome))
    /\ succeeded' = succeeded \cup {cur}
    /\ UNCHANGED <<api, world, queue, disturbed>>

ApplySucceeds ==
    /\ pc = "apply" /\ todo = {}
    /\ \/ /\ rel.spec.prune /\ StaleSet # {}
          /\ pc' = "prune" /\ todo' = StaleSet
          /\ NoEffect
          /\ UNCHANGED <<cur, rel, artifact, package, firstErr, cont, disturbed>>
       \/ /\ ~rel.spec.prune \/ StaleSet = {}
          /\ CommitSuccess("Applied")

\* The guard is given an empty owner UUID: only the managed-by label counts.
PruneSkips(e) ==
    \/ ~isSafeToDelete(e)
    \/ live[e.id] = Absent
    \/ ~OwnerMatches(live[e.id], None)

\* GET and DELETE of the next entry in one step: the one worker is the only
\* one here that writes these objects.
PruneEntry(e) ==
    /\ pc = "prune" /\ e \in todo
    /\ todo' = todo \ {e}
    /\ \/ /\ live' = (IF PruneSkips(e) THEN live ELSE [live EXCEPT ![e.id] = Absent])
          /\ UNCHANGED <<firstErr, disturbed>>
       \/ /\ isSafeToDelete(e) /\ Disturb("prune")
          /\ \E kind \in {"forbidden", "other"} :
                firstErr' = (IF firstErr = "none" THEN kind ELSE firstErr)
          /\ UNCHANGED live
    /\ UNCHANGED <<api, sources, accounts, queue, pc, cur, rel, artifact, package,
                   cont, succeeded>>

PruneReturns ==
    /\ pc = "prune" /\ todo = {} /\ ~rel.deleting
    /\ \/ firstErr = "none" /\ CommitSuccess("AppliedAndPruned")
       \/ /\ firstErr # "none"
          /\ Commit(MarkNotReady(ClearDrifted(rel.conditions), "PruneFailed"),
                    BacksOff("ok", "failed"))
          /\ NoEffect /\ UNCHANGED disturbed

-----------------------------------------------------------------------------
(* Deletion. *)

handleReleaseDeletion(r) ==
    /\ Dequeue(r)
    /\ api[r].exists /\ api[r].finalizer /\ api[r].deleting
    /\ cur' = r /\ rel' = api[r]
    /\ \/ /\ ~api[r].spec.prune \/ api[r].status.inventory.entries = {}
          /\ pc' = "removeFinalizer"
          /\ UNCHANGED todo
       \/ /\ api[r].spec.prune /\ api[r].status.inventory.entries # {}
          /\ IF resolveEffectiveSA(api[r]) = None
             THEN pc' = "prune" /\ todo' = api[r].status.inventory.entries
             ELSE pc' = "impersonate" /\ UNCHANGED todo
    /\ UNCHANGED <<artifact, package, firstErr, cont>>

\* Mutated: prune errors are logged only.
pruneForDeletionMutant ==
    /\ pc = "prune" /\ todo = {} /\ rel.deleting
    /\ pc' = "removeFinalizer" /\ UNCHANGED <<queue, locals>>
    /\ UNCHANGED <<api, world, disturbed, succeeded>>

pruneForDeletion ==
    /\ pc = "prune" /\ todo = {} /\ rel.deleting
    /\ \/ firstErr = "none" /\ pc' = "removeFinalizer" /\ UNCHANGED <<queue, locals>>
       \/ /\ firstErr = "forbidden" /\ resolveEffectiveSA(rel) # None
          /\ StallDeletion("ImpersonationFailed")
          /\ UNCHANGED queue
       \/ /\ firstErr # "none"
          /\ ~(firstErr = "forbidden" /\ resolveEffectiveSA(rel) # None)
          /\ Return(TRUE) /\ UNCHANGED queued
    /\ UNCHANGED <<api, world, disturbed, succeeded>>

\* Mutated: an error of the patch is not returned.
removeReleaseFinalizerMutant ==
    /\ pc = "removeFinalizer"
    /\ \/ /\ Write(cur, Gone) /\ Return(FALSE)
          /\ succeeded' = succeeded \ {cur}
          /\ UNCHANGED disturbed
       \/ /\ NoWrite /\ Return(FALSE)
          /\ Disturb("finalizer")
          /\ UNCHANGED succeeded
    /\ UNCHANGED world

removeReleaseFinalizer ==
    /\ pc = "removeFinalizer"
    /\ \/ /\ Write(cur, Gone) /\ Return(FALSE)
          /\ succeeded' = succeeded \ {cur}
          /\ UNCHANGED disturbed
       \/ /\ NoWrite /\ Return(TRUE)
          /\ Disturb("finalizer")
          /\ UNCHANGED succeeded
    /\ UNCHANGED world

-----------------------------------------------------------------------------
(* The status patch: conditions and the rest, each of which may fail. *)

\* No other client writes the status and the copy in memory was current, so
\* what the patch helper sends is the status in memory.
Patched(sent) ==
    [api[cur] EXCEPT
        !.conditions = IF "conditions" \in sent THEN rel.conditions ELSE @,
        !.status = IF "status" \in sent THEN rel.status ELSE @]

\* Mutated: a release relies on the events of its source and not on the interval.
AfterPatchMutant(failed) ==
    \/ cont = "orphan" /\ pc' = "removeFinalizer" /\ UNCHANGED <<timers, locals>>
    \/ cont # "orphan" /\ Return(failed)

\* The error is returned on the suspend path and ignored or logged elsewhere.
AfterPatch(failed) ==
    \/ cont = "orphan" /\ pc' = "removeFinalizer" /\ UNCHANGED <<timers, locals>>
    \/ cont # "orphan" /\ Return(cont = "retry" \/ (failed /\ cont = "suspend"))

patchReleaseStatus ==
    /\ pc = "patch"
    /\ \/ /\ Write(cur, Patched({"conditions", "status"}))
          /\ AfterPatch(FALSE)
          /\ UNCHANGED disturbed
       \/ /\ Disturb("patch")
          /\ \E sent \in {{}, {"conditions"}, {"status"}} : Write(cur, Patched(sent))
          /\ AfterPatch(TRUE)
    /\ UNCHANGED <<world, succeeded>>

-----------------------------------------------------------------------------
(* The Flux sources. *)

\* The releases a source event enqueues: those in the source's namespace.
mapSourceToReleases(s) ==
    {r \in Releases : api[r].exists /\ <<r, s>> \in Local /\ api[r].spec.source = s}

noWorker == <<pc, locals, succeeded>>

\* A new artifact passes the sourceArtifactChanged predicate.  Its event is lost
\* when the releases cannot be listed.
SourcePublishes(s) ==
    /\ sources[s].exists /\ sources[s].published < Len(Publications[s])
    /\ sources' = [sources EXCEPT ![s].published = @ + 1, ![s].ready = TRUE]
    /\ \/ queued' = queued \cup mapSourceToReleases(s) /\ UNCHANGED disturbed
       \/ UNCHANGED queued /\ Disturb("source")
    /\ UNCHANGED <<api, live, accounts, timers, noWorker>>

\* A change of readiness and a deletion do not.
SourceFails(s) ==
    /\ Disturb("source")
    /\ sources[s].ready
    /\ \/ sources' = [sources EXCEPT ![s].ready = FALSE]
       \/ sources' = [sources EXCEPT ![s].ready = FALSE, ![s].exists = FALSE]
    /\ UNCHANGED <<api, live, accounts, queue, noWorker>>

\* The creation of a source passes the predicate, its recovery does not.
SourceRecovers(s) ==
    /\ sources[s].published > 0 /\ ~sources[s].ready
    /\ sources' = [sources EXCEPT ![s].ready = TRUE, ![s].exists = TRUE]
    /\ queued' = (IF sources[s].exists THEN queued
                  ELSE queued \cup mapSourceToReleases(s))
    /\ UNCHANGED <<api, live, accounts, timers, noWorker, disturbed>>

-----------------------------------------------------------------------------
(* Users, the clock, and the rest of the world. *)

UserCreates(r, spec) ==
    /\ ~api[r].exists /\ Disturb("create")
    /\ Write(r, Created(spec))
    /\ UNCHANGED <<world, timers, noWorker>>

UserEdits(r, spec) ==
    /\ api[r].exists /\ api[r].generation < MaxGeneration
    /\ spec # api[r].spec
    /\ Write(r, [api[r] EXCEPT !.spec = spec, !.generation = @ + 1])
    /\ UNCHANGED <<world, timers, noWorker, disturbed>>

UserDeletes(r) ==
    /\ api[r].exists /\ ~api[r].deleting
    /\ Write(r, IF api[r].finalizer
                THEN [api[r] EXCEPT !.deleting = TRUE, !.generation = @ + 1]
                ELSE Gone)
    /\ UNCHANGED <<world, timers, noWorker, disturbed>>

\* An operator unblocks a deletion.
UserAnnotates(r) ==
    /\ api[r].deleting /\ ~api[r].orphan
    /\ resolveEffectiveSA(api[r]) # None
    /\ Write(r, [api[r] EXCEPT !.orphan = TRUE])
    /\ UNCHANGED <<world, timers, noWorker, disturbed>>

\* The next attempt has what it needs to succeed.
CanSucceed(r) ==
    /\ api[r].exists /\ Resolvable(api[r].spec.source)
    /\ Render[<<ArtifactOf(api[r].spec.source), api[r].spec.path>>] # None
    /\ resolveEffectiveSA(api[r]) \in accounts \cup {None}

\* The bound on retries stops the clock of a release while it must fail.
TimerFires(r) ==
    /\ r \in timers
    /\ \/ ~api[r].exists \/ api[r].deleting
       \/ api[r].status.failureCounters.reconcile < MaxFailures \/ CanSucceed(r)
    /\ timers' = timers \ {r} /\ queued' = queued \cup {r}
    /\ UNCHANGED <<api, world, noWorker, disturbed>>

\* The operator restarts: its memory is lost and every release is enqueued.
Crash ==
    /\ Disturb("crash")
    /\ Forget
    /\ queued' = {r \in Releases : api[r].exists} /\ timers' = {}
    /\ UNCHANGED <<api, world, succeeded>>

ServiceAccountChanges ==
    /\ Disturb("serviceAccount")
    /\ accounts' \in SUBSET ServiceAccounts /\ accounts' # accounts
    /\ UNCHANGED <<api, sources, live, queue, noWorker>>

-----------------------------------------------------------------------------

Init ==
    /\ api \in [Releases -> {Gone} \cup {Created(spec) : spec \in SpecSet}]
    /\ \A r \in Releases : api[r].exists => api[r].spec \in Specs[r]
    /\ sources = [s \in Sources |-> [exists |-> TRUE, ready |-> FALSE, published |-> 0]]
    /\ live = [o \in Objects |-> Absent]
    /\ accounts = ServiceAccounts
    /\ queued = {r \in Releases : api[r].exists} /\ timers = {}
    /\ pc = "idle" /\ cur = None /\ rel = Gone
    /\ artifact = None /\ package = None
    /\ todo = {} /\ firstErr = "none" /\ cont = "done"
    /\ disturbed = 0
    /\ succeeded = {}

\* The worker takes the key of a release from the queue.
Take(r) ==
    \/ ReconcileGone(r) \/ ReconcileNoFinalizer(r) \/ handleReleaseDeletion(r)
    \/ ReconcileSuspended(r) \/ ReconcileWaits(r) \/ ReconcileStarts(r)

Step ==
    \/ addReleaseFinalizer \/ removeReleaseFinalizer
    \/ resolveReleaseSource \/ fetchReleaseArtifact
    \/ renderReleasePackage \/ RenderFails \/ RenderPanics
    \/ buildReleaseApplyClient \/ ImpersonationFails
    \/ (\E r \in todo : ApplyResource(r)) \/ ApplyFails \/ ApplySucceeds
    \/ (\E e \in todo : PruneEntry(e)) \/ PruneReturns \/ pruneForDeletion
    \/ patchReleaseStatus

Users ==
    \E r \in Releases :
        \/ UserDeletes(r) \/ UserAnnotates(r)
        \/ \E spec \in Specs[r] : UserCreates(r, spec) \/ UserEdits(r, spec)

World ==
    \/ Crash \/ ServiceAccountChanges
    \/ \E s \in Sources : SourcePublishes(s) \/ SourceFails(s) \/ SourceRecovers(s)

Next ==
    \/ (\E r \in Releases : Take(r) \/ TimerFires(r))
    \/ Step \/ Users \/ World

Spec == Init /\ [][Next]_vars

\* The worker never rests, its queue is first in, first out, and timers fire.
FairSpec ==
    /\ Spec
    /\ WF_vars(Step)
    /\ \A r \in Releases : SF_vars(Take(r)) /\ WF_vars(TimerFires(r))

-----------------------------------------------------------------------------
(* Properties. *)

\* Every variable stays within its type.
TypeOK ==
    /\ api \in [Releases -> ReleaseObjects] /\ rel \in ReleaseObjects
    /\ sources \in [Sources -> [exists : BOOLEAN, ready : BOOLEAN, published : Nat]]
    /\ live \in [Objects -> {Absent} \cup LiveObjects]
    /\ accounts \in SUBSET ServiceAccounts
    /\ queued \in SUBSET Releases /\ timers \in SUBSET Releases
    /\ pc \in {"idle", "addFinalizer", "removeFinalizer", "resolve", "fetch",
               "render", "impersonate", "apply", "prune", "patch"}
    /\ cur \in {None} \cup Releases
    /\ {artifact, package} \subseteq {None} \cup Artifacts
    /\ todo \in (SUBSET Resources) \cup (SUBSET EntrySet)
    /\ firstErr \in {"none", "forbidden", "other"}
    /\ cont \in {"done", "retry", "suspend", "orphan"}
    /\ disturbed \in Nat
    /\ succeeded \in SUBSET Releases

Ready(r) == api[r].exists /\ api[r].conditions.ready = "True"

\* checkDependsOn: a release touches the cluster only when every release it
\* depends on has been applied in full, whatever failed or crashed before.
AppliedAfterDependencies ==
    pc \in {"apply", "prune"} /\ ~rel.deleting => rel.spec.dependsOn \subseteq succeeded

\* Fetch and the deferred commit: what the status records as applied is the
\* render of the very artifact whose digest it names, and the inventory lists
\* the objects of that render.
InventoryMatchesArtifact ==
    \A r \in Releases :
        LET applied == api[r].status.lastApplied
        IN  applied.source # None /\ ~api[r].deleting =>
                /\ \E p \in Paths : applied.render = Render[<<applied.source, p>>]
                /\ api[r].status.inventory.entries = Entries(applied.render)

\* The interval: a release that is not suspended is always queued, scheduled
\* or being reconciled, so a lost status patch or a missed event is made good.
Attended ==
    \A r \in Releases :
        api[r].exists /\ ~api[r].spec.suspend => r \in queued \cup timers \cup {cur}

\* handleReleaseDeletion: when the finalizer of a pruning release is removed,
\* every inventory entry is gone, protected or not OPM's, or the operator asked
\* to orphan it.
FinalizerGuardsInventory ==
    [][\A r \in Releases :
          /\ api[r].finalizer /\ ~api'[r].finalizer
          /\ rel.spec.prune /\ ~rel.orphan
          => \A e \in api[r].status.inventory.entries : PruneSkips(e)]_vars

\* The interval, "to detect drift and re-apply if needed": whenever a reconcile
\* reports Ready, the objects of its artifact are in the cluster.
ReadyIsApplied ==
    pc = "patch" /\ ~rel.deleting /\ rel.conditions.ready = "True" =>
        \A x \in Render[<<rel.status.source, rel.spec.path>>] :
            /\ live[x.id] # Absent
            /\ live[x.id].component = x.component
            /\ live[x.id].content = x.content

\* A release as Lifecycle sees it.  A reconcile that ends without a change of
\* the inventory has nothing to record; the other releases are served between
\* two reconciles of this one.
Stage(r) ==
    CASE ~api[r].exists -> "gone"
      [] api[r].exists /\ ~api[r].finalizer -> "fresh"
      [] api[r].finalizer /\ ~api[r].deleting -> "active"
      [] api[r].finalizer /\ api[r].deleting -> "terminating"

Work(r) ==
    CASE cur # r \/ pc = "addFinalizer" -> "none"
      [] cur = r /\ pc # "addFinalizer" /\ rel.deleting -> "cleaning"
      [] cur = r /\ pc \in {"resolve", "fetch", "render", "impersonate", "apply"}
         /\ ~rel.deleting -> "applying"
      [] cur = r /\ pc = "prune" /\ ~rel.deleting -> "sweeping"
      [] cur = r /\ pc = "patch" /\ ~rel.deleting ->
            (IF rel.status.inventory = api[r].status.inventory THEN "none" ELSE "recording")

L(r) == INSTANCE Lifecycle WITH
            stage <- Stage(r), work <- Work(r),
            owned <- api[r].status.inventory.entries, Others <- "between"

\* The finalizer brackets the work of every release, also where releases share
\* objects: what happens to an object while a release works is its own doing,
\* only under its finalizer, and what is removed is removed after everything was
\* applied or in a deletion (ReconcileRelease, handleReleaseDeletion).
\* This is L(r)!Spec for every r, with one box for all of them.
FinalizerBrackets ==
    /\ \A r \in Releases : L(r)!Init
    /\ [][\A r \in Releases : [L(r)!Next]_(L(r)!lifecycle)]_vars

\* A deleted release goes away, whatever it depends on and whatever its source
\* does.
DeletionCompletes == \A r \in Releases : api[r].deleting ~> ~api[r].exists

\* The triggers: in the end a release is gone, suspended, without a package to
\* render, waiting for a dependency, or Ready with the latest artifact of its
\* source, in whichever namespace that is.
Converges ==
    <>[](\A r \in Releases :
            \/ ~api[r].exists
            \/ api[r].spec.suspend
            \/ ~CanSucceed(r)
            \/ \E d \in api[r].spec.dependsOn : ~Ready(d)
            \/ /\ Ready(r)
               /\ api[r].status.observedGeneration = api[r].generation
               /\ api[r].status.lastApplied.source = ArtifactOf(api[r].spec.source))

=============================================================================
