------------------------ MODULE ModuleReleaseProofs -------------------------
(****************************************************************************)
(* Theorems about ModuleRelease for every value of its constants: any       *)
(* objects, modules, catalogs and users' specs, any faults in any number,   *)
(* with the cache in step or lagging behind.  One inductive invariant,      *)
(* IInv, carries the first of them; with LInv it shows that ModuleRelease   *)
(* implements Lifecycle.                                                    *)
(****************************************************************************)
EXTENDS ModuleRelease, StatusProofs

-----------------------------------------------------------------------------
(* Types of what the operators return. *)

\* ComputeBackoff returns a number of seconds.
LEMMA BackoffType ==
    ASSUME NEW n \in Nat
    PROVE  ComputeBackoff(n) \in Int
BY DEF ComputeBackoff, BackoffBaseDelay, BackoffMaxDelay

\* Replacing a part of a ModuleRelease by one of the right type.
LEMMA ObjectUpdates ==
    ASSUME NEW m \in ModuleReleases, NEW s \in Statuses, NEW c \in Conditions,
           NEW f \in SUBSET {FinalizerName, OtherFinalizer}
    PROVE  /\ [m EXCEPT !.status = s] \in ModuleReleases
           /\ [m EXCEPT !.conditions = c] \in ModuleReleases
           /\ [m EXCEPT !.finalizers = f] \in ModuleReleases
           /\ [m EXCEPT !.conditions = c, !.status = s] \in ModuleReleases
BY Zenon DEF ModuleReleases

\* A merge patch of digests holds digests, whichever of the three copies each
\* field comes from.
LEMMA PatchDigestsType ==
    ASSUME NEW l \in DigestSets, NEW b \in DigestSets, NEW a \in DigestSets
    PROVE PatchDigests(l, b, a) \in DigestSets
BY DEF DigestSets, PatchDigests, Pick

\* The status the API server holds after the merge patch is a status.
LEMMA PatchStatusType ==
    ASSUME NEW l \in Statuses, NEW b \in Statuses, NEW a \in Statuses
    PROVE PatchStatus(l, b, a) \in Statuses
BY PatchDigestsType, Zenon DEF Statuses, PatchStatus, PatchCounters, PatchInventory, Pick, Counters

\* A merged field comes from the API server or from the worker.
LEMMA PickType ==
    ASSUME NEW S, NEW l \in S, NEW b, NEW a \in S
    PROVE  Pick(l, b, a) \in S
BY DEF Pick

\* The conditions the API server holds after the first patch request are
\* conditions.
LEMMA PatchConditionsType ==
    ASSUME NEW l \in Conditions, NEW b \in Conditions, NEW a \in Conditions,
           NEW renewed \in BOOLEAN
    PROVE  PatchConditions(l, b, a, renewed) \in Conditions
<1>1. /\ l.ready \in {"Unset", "Unknown", "True", "False"} /\ l.reason \in Reasons
      /\ a.ready \in {"Unset", "Unknown", "True", "False"} /\ a.reason \in Reasons
  BY DEF Conditions
<1>2. /\ l.reconciling \in BOOLEAN /\ l.stalled \in BOOLEAN
      /\ l.drifted \in BOOLEAN /\ l.resolved \in BOOLEAN
      /\ a.reconciling \in BOOLEAN /\ a.stalled \in BOOLEAN
      /\ a.drifted \in BOOLEAN /\ a.resolved \in BOOLEAN
  BY DEF Conditions
<1>3. /\ Pick(l.reconciling, b.reconciling, a.reconciling) \in BOOLEAN
      /\ Pick(l.stalled, b.stalled, a.stalled) \in BOOLEAN
      /\ Pick(l.drifted, b.drifted, a.drifted) \in BOOLEAN
      /\ Pick(l.resolved, b.resolved, a.resolved) \in BOOLEAN
      /\ Pick(l.ready, b.ready, a.ready) \in {"Unset", "Unknown", "True", "False"}
      /\ Pick(l.reason, b.reason, a.reason) \in Reasons
  BY <1>1, <1>2 DEF Pick
<1>4. (IF renewed /\ a.stalled THEN TRUE ELSE Pick(l.stalled, b.stalled, a.stalled)) \in BOOLEAN
  BY <1>3, Zenon
<1>5. /\ (IF renewed THEN a.ready ELSE Pick(l.ready, b.ready, a.ready))
            \in {"Unset", "Unknown", "True", "False"}
      /\ (IF renewed THEN a.reason ELSE Pick(l.reason, b.reason, a.reason)) \in Reasons
  BY <1>1, <1>3, Zenon
<1> QED BY <1>3, <1>4, <1>5, Zenon DEF PatchConditions, Conditions

\* What holds of a copy of the release wherever it is kept, given the entry
\* sets of the reconciles that have succeeded.
WellFormed(m, done) ==
    /\ m \in ModuleReleases
    /\ GoodHistory(m.status.history)
    /\ m.status.inventory.entries = {} \/ m.status.inventory.entries \in done
    /\ m.exists => m.spec \in SpecSet

\* The worker's variables fit the step it is at; what Prune still has to look
\* at, or is about to delete, is stale and may be deleted.
WorkerShape ==
    /\ pc # "idle" => mr.exists
    /\ pc = "apply" => todo \subseteq Desired
    /\ pc = "prune" => todo \subseteq EntrySet
    /\ target # None => pc = "prune" /\ isSafeToDelete(target)
    /\ pc = "prune" /\ ~mr.deleting =>
          todo \subseteq StaleSet /\ (target = None \/ target \in StaleSet)

\* The inductive invariant.  The properties speak of api alone, but a reconcile
\* writes what it computed from cache, old and mr: all four must be well formed.
IInv ==
    /\ TypeOK
    /\ WellFormed(api, completed) /\ WellFormed(cache, completed)
    /\ WellFormed(mr, completed) /\ WellFormed(old, completed)
    /\ WorkerShape

\* The status and the conditions of a new ModuleRelease.
LEMMA NoStatusType ==
    /\ NoStatus \in Statuses /\ NoConditions \in Conditions
    /\ GoodHistory(NoStatus.history) /\ NoStatus.inventory.entries = {}
<1>1. /\ NoDigests \in DigestSets /\ ZeroCounters \in Counters
      /\ NoInventory \in [revision : Nat, digest : {None} \cup SUBSET EntrySet,
                          entries : SUBSET EntrySet]
      /\ <<>> \in Seq(HistoryEntry)
  BY DEF NoDigests, DigestSets, ZeroCounters, Counters, NoInventory
<1>2. NoStatus \in Statuses
  BY <1>1 DEF NoStatus, Statuses
<1>3. NoConditions \in Conditions
  BY DEF NoConditions, Conditions, Reasons
<1> QED BY <1>2, <1>3, EmptyHistoryGood DEF NoStatus, NoInventory

\* The absent object, which is also what the worker holds between reconciles.
LEMMA GoneWellFormed ==
    ASSUME NEW done
    PROVE  WellFormed(Gone, done)
<1>1. Gone \in ModuleReleases
  BY NoStatusType DEF Gone, ModuleReleases
<1> QED BY <1>1, NoStatusType DEF WellFormed, Gone

\* A ModuleRelease as users create it.
LEMMA CreatedWellFormed ==
    ASSUME NEW done, NEW spec \in Specs
    PROVE  WellFormed(Created(spec), done)
<1>1. spec \in SpecSet
  BY Assumptions
<1>2. Created(spec) \in ModuleReleases
  BY <1>1, NoStatusType DEF Created, ModuleReleases
<1> QED BY <1>1, <1>2, NoStatusType DEF WellFormed, Created

\* A further successful reconcile takes nothing away from a stored copy.
LEMMA WellFormedGrows ==
    ASSUME NEW m, NEW done, NEW more, done \subseteq more, WellFormed(m, done)
    PROVE  WellFormed(m, more)
BY DEF WellFormed

\* The condition setters touch nothing else.
LEMMA WithConditionsWellFormed ==
    ASSUME NEW m, NEW done, WellFormed(m, done), NEW c \in Conditions
    PROVE  WellFormed([m EXCEPT !.conditions = c], done)
BY DEF WellFormed, ModuleReleases

\* A copy with a new status is well formed when the status is.
LEMMA WithStatusWellFormed ==
    ASSUME NEW m, NEW done, WellFormed(m, done), NEW s \in Statuses,
           GoodHistory(s.history), s.inventory.entries = {} \/ s.inventory.entries \in done
    PROVE  WellFormed([m EXCEPT !.status = s], done)
BY DEF WellFormed, ModuleReleases

\* The merge patch mixes up to three copies of the status, and still takes
\* history and entries from one of them each.
LEMMA PatchedWellFormed ==
    ASSUME NEW m, NEW before, NEW after, NEW done,
           WellFormed(m, done), WellFormed(before, done), WellFormed(after, done)
    PROVE  WellFormed([m EXCEPT !.status = PatchStatus(@, before.status, after.status)], done)
<1>1. m.status \in Statuses /\ before.status \in Statuses /\ after.status \in Statuses
  BY DEF WellFormed, ModuleReleases
<1>2. PatchStatus(m.status, before.status, after.status) \in Statuses
  BY <1>1, PatchStatusType
<1>3. GoodHistory(PatchStatus(m.status, before.status, after.status).history)
  BY DEF PatchStatus, Pick, WellFormed
<1>4. LET e == PatchStatus(m.status, before.status, after.status).inventory.entries
      IN  e = {} \/ e \in done
  BY DEF PatchStatus, PatchInventory, Pick, WellFormed
<1>5. [m EXCEPT !.status = PatchStatus(@, before.status, after.status)]
        = [m EXCEPT !.status = PatchStatus(m.status, before.status, after.status)]
  BY DEF WellFormed, ModuleReleases
<1> QED BY <1>2, <1>3, <1>4, <1>5, WithStatusWellFormed

-----------------------------------------------------------------------------
(* What a reconcile computes. *)

Results ==
    [outcome : {"NoOp", "Applied", "AppliedAndPruned", "FailedTransient", "FailedStalled"},
     reconciled : BOOLEAN, failed : BOOLEAN, retryAfter : Int, drift : Phases,
     apply : Phases, prune : Phases, digests : DigestSets]

\* What RenderModule returns, and the digests computed from it.
LEMMA DesiredType ==
    ASSUME mr.spec \in SpecSet, catalog \in Catalogs
    PROVE  /\ Desired \in SUBSET Resources
           /\ Entries(Desired) \in SUBSET EntrySet
           /\ DigestSet(Desired) \in DigestSets /\ DigestSet(None) \in DigestSets
           /\ UUIDOf[mr.spec.module] \in UUIDs
<1>1. mr.spec.module \in Modules /\ mr.spec.values \in Values
  BY DEF SpecSet
<1>2. Desired \in SUBSET Resources
  BY <1>1, Assumptions DEF Desired
<1>3. Entries(Desired) \in SUBSET EntrySet
  BY <1>2 DEF Entries, NewEntryFromResource, Resources, EntrySet
<1>4. DigestSet(Desired) \in DigestSets /\ DigestSet(None) \in DigestSets
  BY <1>1, <1>2 DEF DigestSet, DigestSets
<1>5. UUIDOf[mr.spec.module] \in UUIDs
  BY <1>1, Assumptions
<1> QED BY <1>2, <1>3, <1>4, <1>5

\* What server-side apply leaves in the cluster is an object.
LEMMA AppliedType ==
    ASSUME mr.spec \in SpecSet, catalog \in Catalogs, NEW r \in Desired
    PROVE  r.id \in Objects /\ Applied(r) \in LiveObjects /\ Applied(r) # Absent
<1>1. r.id \in Objects /\ r.component \in Components /\ r.content \in Contents
  BY DesiredType DEF Resources
<1>2. Applied(r) \in LiveObjects
  BY <1>1, DesiredType DEF Applied, LiveObjects
<1> QED BY <1>1, <1>2, Assumptions

\* updateFailureCounters returns counters that are never negative.
LEMMA CountersType ==
    ASSUME NEW c \in Counters, NEW result \in Results
    PROVE  updateFailureCounters(c, result) \in Counters
<1>1. \A n \in Nat, phase \in Phases : Count(n, phase) \in Nat
  BY DEF Count, Phases
<1>2. /\ result.apply \in Phases /\ result.prune \in Phases /\ result.drift \in Phases
      /\ c.reconcile \in Nat /\ c.apply \in Nat /\ c.prune \in Nat /\ c.drift \in Nat
  BY DEF Results, Counters
<1> QED BY <1>1, <1>2 DEF updateFailureCounters, Counters

\* Replacing one field of a status.
LEMMA StatusUpdates ==
    ASSUME NEW s \in Statuses
    PROVE  /\ \A g \in Nat : [s EXCEPT !.observedGeneration = g] \in Statuses
           /\ \A c \in Counters : [s EXCEPT !.failureCounters = c] \in Statuses
           /\ \A u \in {None} \cup UUIDs : [s EXCEPT !.releaseUUID = u] \in Statuses
           /\ [s EXCEPT !.nextRetryAt = 0] \in Statuses
           /\ [s EXCEPT !.inventory = NoInventory] \in Statuses
<1>1. \A g \in Nat : [s EXCEPT !.observedGeneration = g] \in Statuses
  BY DEF Statuses
<1>2. \A c \in Counters : [s EXCEPT !.failureCounters = c] \in Statuses
  BY DEF Statuses
<1>3. \A u \in {None} \cup UUIDs : [s EXCEPT !.releaseUUID = u] \in Statuses
  BY DEF Statuses
<1>4. [s EXCEPT !.nextRetryAt = 0] \in Statuses
  BY DEF Statuses
<1>5. [s EXCEPT !.inventory = NoInventory] \in Statuses
  BY Zenon DEF Statuses, NoInventory
<1> QED BY <1>1, <1>2, <1>3, <1>4, <1>5

\* The status a no-op commits, by generation and counters.
NoOpStatus(s, g, c) ==
    [s EXCEPT !.observedGeneration = g, !.failureCounters = c, !.nextRetryAt = 0]

\* The NoOp branch of the deferred commit keeps the history and the inventory.
LEMMA NoOpStatusType ==
    ASSUME NEW s \in Statuses, NEW g \in Nat, NEW c \in Counters
    PROVE  /\ NoOpStatus(s, g, c) \in Statuses
           /\ NoOpStatus(s, g, c).history = s.history
           /\ NoOpStatus(s, g, c).inventory = s.inventory
<1> DEFINE t1 == [s EXCEPT !.observedGeneration = g]
           t2 == [t1 EXCEPT !.failureCounters = c]
           t3 == [t2 EXCEPT !.nextRetryAt = 0]
<1>1. t1 \in Statuses /\ t1.history = s.history /\ t1.inventory = s.inventory
  BY StatusUpdates, Zenon DEF Statuses
<1> HIDE DEF t1
<1>2. t2 \in Statuses /\ t2.history = t1.history /\ t2.inventory = t1.inventory
  BY <1>1, StatusUpdates, Zenon DEF Statuses
<1> HIDE DEF t2
<1>3. t3 \in Statuses /\ t3.history = t2.history /\ t3.inventory = t2.inventory
  BY <1>2, StatusUpdates, Zenon DEF Statuses
<1>4. NoOpStatus(s, g, c) = t3
  BY Zenon DEF NoOpStatus, t1, t2, t3
<1> HIDE DEF t3
<1> QED BY <1>1, <1>2, <1>3, <1>4, Zenon

\* The status that the deferred commit computes: its history is good, and its
\* inventory is the old one or that of the reconcile that just succeeded.
LEMMA CommitStatusGood ==
    ASSUME NEW done, NEW more, done \subseteq more, WellFormed(mr, done), mr.exists,
           catalog \in Catalogs, NEW result \in Results,
           result.reconciled => Entries(Desired) \in more
    PROVE  LET s == CommitStatus(mr.status, result)
           IN  /\ s \in Statuses /\ GoodHistory(s.history)
               /\ s.inventory.entries = {} \/ s.inventory.entries \in more
<1>1. /\ mr.spec \in SpecSet /\ mr.status \in Statuses /\ mr.generation \in Nat
      /\ GoodHistory(mr.status.history)
      /\ mr.status.inventory.entries = {} \/ mr.status.inventory.entries \in more
  BY DEF WellFormed, ModuleReleases
<1>2. /\ mr.status.failureCounters \in Counters
      /\ mr.status.inventory \in [revision : Nat, digest : {None} \cup SUBSET EntrySet,
                                  entries : SUBSET EntrySet]
  BY <1>1 DEF Statuses
<1>3. updateFailureCounters(mr.status.failureCounters, result) \in Counters
  BY <1>2, CountersType
<1>4. CASE result.outcome = "NoOp"
  <2> DEFINE c == updateFailureCounters(mr.status.failureCounters, result)
  <2>1. CommitStatus(mr.status, result) = NoOpStatus(mr.status, mr.generation, c)
    BY <1>1, <1>4 DEF CommitStatus, Statuses, NoOpStatus
  <2>2. c \in Counters
    BY <1>3
  <2> HIDE DEF c
  <2>3. /\ CommitStatus(mr.status, result) \in Statuses
        /\ CommitStatus(mr.status, result).history = mr.status.history
        /\ CommitStatus(mr.status, result).inventory = mr.status.inventory
    BY <1>1, <2>1, <2>2, NoOpStatusType
  <2> QED BY <1>1, <2>3, Zenon
<1>5. CASE result.outcome # "NoOp"
  <2> DEFINE inv == CommitInventory(mr.status.inventory, result.reconciled)
             hist == IF result.reconciled \/ result.failed
                     THEN recordHistoryEntry(mr.status.history, result.reconciled)
                     ELSE mr.status.history
  <2>1. /\ inv \in [revision : Nat, digest : {None} \cup SUBSET EntrySet,
                    entries : SUBSET EntrySet]
        /\ inv.entries = {} \/ inv.entries \in more
    BY <1>1, <1>2, DesiredType DEF CommitInventory
  <2>2. result.reconciled \in BOOLEAN /\ result.digests \in DigestSets
        /\ result.retryAfter \in Int
    BY DEF Results
  <2>3. GoodHistory(hist)
    BY <1>1, <2>2, RecordHistoryGood
  <2>4. hist \in Seq(HistoryEntry)
    BY <2>3 DEF GoodHistory
  <2> HIDE DEF inv, hist
  <2>5. CommitStatus(mr.status, result) =
          [observedGeneration |-> mr.generation, releaseUUID |-> mr.status.releaseUUID,
           lastAttempted |-> result.digests,
           lastApplied |-> IF result.reconciled THEN result.digests
                           ELSE mr.status.lastApplied,
           failureCounters |-> updateFailureCounters(mr.status.failureCounters, result),
           inventory |-> inv, history |-> hist, nextRetryAt |-> result.retryAfter]
    BY <1>5 DEF CommitStatus, inv, hist
  <2> QED BY <1>1, <1>3, <2>1, <2>2, <2>3, <2>4, <2>5 DEF Statuses
<1> QED BY <1>4, <1>5

-----------------------------------------------------------------------------
(* The shapes that the steps have in common. *)

\* A write of a well-formed object leaves the API server and the cache well
\* formed.
LEMMA WriteWellFormed ==
    ASSUME NEW new, NEW done, WellFormed(new, done), WellFormed(cache, done),
           queued \in BOOLEAN, Write(new)
    PROVE  WellFormed(api', done) /\ WellFormed(cache', done) /\ queued' \in BOOLEAN
BY Zenon DEF Write, EventPasses

\* Steps at which the reconcile returns.
LEMMA ReturnStep ==
    ASSUME IInv, NEW again \in BOOLEAN, Return(again),
           WellFormed(api', completed), WellFormed(cache', completed),
           queued' \in BOOLEAN, disturbed' \in Nat, UNCHANGED <<cluster, completed>>
    PROVE  IInv'
<1>1. TypeOK'
  BY GoneWellFormed, Zenon DEF IInv, TypeOK, Return, cluster, WellFormed
<1>2. WellFormed(mr', completed') /\ WellFormed(old', completed')
  BY GoneWellFormed DEF Return
<1>3. WorkerShape'
  BY DEF Return, WorkerShape
<1> QED BY <1>1, <1>2, <1>3 DEF IInv

\* Steps that leave the worker alone.
LEMMA WorldStep ==
    ASSUME IInv, UNCHANGED noWorker, UNCHANGED catalog,
           live' \in [Objects -> {Absent} \cup LiveObjects],
           accounts' \in SUBSET ServiceAccounts,
           WellFormed(api', completed), WellFormed(cache', completed),
           queued' \in BOOLEAN, timer' \in BOOLEAN, disturbed' \in Nat
    PROVE  IInv'
<1>1. TypeOK'
  BY DEF IInv, TypeOK, noWorker, locals, WellFormed
<1>2. WellFormed(mr', completed') /\ WellFormed(old', completed')
  BY DEF IInv, noWorker, locals
<1>3. WorkerShape'
  BY DEF IInv, WorkerShape, noWorker, locals, Desired, StaleSet
<1> QED BY <1>1, <1>2, <1>3 DEF IInv, noWorker

\* A copy with new conditions and a new status.
LEMMA ConditionsAndStatusWellFormed ==
    ASSUME NEW m, NEW done, NEW c \in Conditions, NEW s \in Statuses,
           m \in ModuleReleases, m.exists => m.spec \in SpecSet, GoodHistory(s.history),
           s.inventory.entries = {} \/ s.inventory.entries \in done
    PROVE  WellFormed([m EXCEPT !.conditions = c, !.status = s], done)
<1> DEFINE n == [m EXCEPT !.conditions = c, !.status = s]
<1>1. n \in ModuleReleases
  BY ObjectUpdates, Zenon
<1>2. n.status = s /\ n.exists = m.exists /\ n.spec = m.spec
  BY DEF ModuleReleases
<1> HIDE DEF n
<1>3. WellFormed(n, done)
  BY <1>1, <1>2 DEF WellFormed
<1> QED BY <1>3 DEF n

\* Steps that end in the deferred commit.
LEMMA CommitStep ==
    ASSUME IInv, pc # "idle", NEW c \in Conditions, NEW result \in Results,
           NEW again \in BOOLEAN, Commit(c, result, again),
           UNCHANGED <<api, cache, cluster, queue>>, disturbed' \in Nat,
           completed \subseteq completed', completed' \in SUBSET SUBSET EntrySet,
           result.reconciled => Entries(Desired) \in completed'
    PROVE  IInv'
<1> DEFINE d == IF result.outcome = "NoOp" THEN MarkReady(c) ELSE c
           s == CommitStatus(mr.status, result)
<1>1. d \in Conditions
  <2>1. "Unset" \in Reasons
    BY DEF Reasons
  <2> QED BY <2>1, MarkTypes
<1>2. /\ WellFormed(mr, completed) /\ mr.exists /\ catalog \in Catalogs
      /\ mr \in ModuleReleases /\ mr.spec \in SpecSet
  BY DEF IInv, TypeOK, WorkerShape, WellFormed
<1>3. /\ s \in Statuses /\ GoodHistory(s.history)
      /\ s.inventory.entries = {} \/ s.inventory.entries \in completed'
  BY <1>2, CommitStatusGood, Zenon
<1>4. mr' = [mr EXCEPT !.conditions = d, !.status = s]
  BY <1>2 DEF Commit, ModuleReleases
<1> HIDE DEF d, s
<1>5. WellFormed(mr', completed')
  BY <1>1, <1>2, <1>3, <1>4, ConditionsAndStatusWellFormed, Zenon
<1>6. mr' \in ModuleReleases /\ mr'.exists
  BY <1>2, <1>4, <1>5 DEF WellFormed, ModuleReleases
<1>7. /\ WellFormed(api', completed') /\ WellFormed(cache', completed')
      /\ WellFormed(old', completed')
  BY WellFormedGrows DEF IInv, Commit
<1>8. TypeOK'
  BY <1>6, Zenon DEF IInv, TypeOK, Commit, cluster, queue
<1>9. WorkerShape'
  BY <1>6 DEF WorkerShape, Commit
<1> QED BY <1>5, <1>7, <1>8, <1>9 DEF IInv

-----------------------------------------------------------------------------
(* One lemma per group of actions. *)

\* The invariant holds of a new release.
LEMMA InitIInv == Init => IInv
<1> SUFFICES ASSUME Init PROVE IInv
  OBVIOUS
<1>1. WellFormed(api, completed) /\ WellFormed(cache, completed)
  BY CreatedWellFormed DEF Init
<1>2. WellFormed(mr, completed) /\ WellFormed(old, completed)
  BY GoneWellFormed DEF Init
<1>3. TypeOK
  BY <1>1, <1>2, Zenon DEF Init, TypeOK, WellFormed
<1>4. WorkerShape
  BY DEF Init, WorkerShape
<1> QED BY <1>1, <1>2, <1>3, <1>4 DEF IInv

\* The first step of a reconcile: Client.Get and what follows from the
\* finalizer, the deletion timestamp and spec.suspend.
LEMMA StartStep ==
    ASSUME IInv,
           \/ ReconcileGone \/ ReconcileNoFinalizer \/ handleDeletion
           \/ ReconcileSuspended \/ ReconcileStarts
    PROVE  IInv'
<1> USE DEF Dequeue
<1>1. /\ cache \in ModuleReleases /\ cache.conditions \in Conditions
      /\ cache.status \in Statuses /\ cache.generation \in Nat
      /\ cache.status.inventory.entries \in SUBSET EntrySet
      /\ cache.exists => cache.spec \in SpecSet
      /\ target = None
  <2>1. cache \in ModuleReleases /\ (cache.exists => cache.spec \in SpecSet)
    BY DEF IInv, WellFormed
  <2>2. cache.conditions \in Conditions /\ cache.status \in Statuses /\ cache.generation \in Nat
    BY <2>1 DEF ModuleReleases
  <2>3. cache.status.inventory.entries \in SUBSET EntrySet
    BY <2>2 DEF Statuses
  <2>4. pc = "idle"
    BY DEF ReconcileGone, ReconcileNoFinalizer, handleDeletion, ReconcileSuspended,
           ReconcileStarts
  <2> QED BY <2>1, <2>2, <2>3, <2>4 DEF IInv, WorkerShape
<1>2. /\ api' = api /\ cache' = cache /\ completed' = completed
      /\ UNCHANGED <<live, accounts, catalog, disturbed>>
      /\ queued' \in BOOLEAN /\ timer' \in BOOLEAN /\ pc = "idle"
  BY Zenon DEF ReconcileGone, ReconcileNoFinalizer, handleDeletion, ReconcileSuspended,
         ReconcileStarts, cluster, IInv, TypeOK
<1>3. /\ WellFormed(api', completed') /\ WellFormed(cache', completed')
      /\ WellFormed(cache, completed')
  BY <1>2 DEF IInv
<1>4. CASE ReconcileGone
  <2>1. UNCHANGED noWorker
    BY <1>2, <1>4 DEF ReconcileGone, noWorker
  <2> QED BY <1>2, <1>3, <2>1, WorldStep DEF IInv, TypeOK
<1>5. CASE ReconcileNoFinalizer
  <2>1. mr' = cache /\ old' = old
    BY <1>5 DEF ReconcileNoFinalizer
  <2>2. WellFormed(mr', completed') /\ WellFormed(old', completed')
    BY <1>2, <1>3, <2>1 DEF IInv
  <2>3. TypeOK'
    BY <1>1, <1>2, <1>5 DEF ReconcileNoFinalizer, IInv, TypeOK
  <2>4. WorkerShape'
    BY <1>1, <1>5 DEF ReconcileNoFinalizer, WorkerShape
  <2> QED BY <1>3, <2>2, <2>3, <2>4 DEF IInv
<1>6. CASE handleDeletion
  <2>1. mr' = cache /\ old' = cache
    BY <1>6 DEF handleDeletion
  <2>2. WellFormed(mr', completed') /\ WellFormed(old', completed')
    BY <1>3, <2>1
  <2>3. TypeOK'
    BY <1>1, <1>2, <1>6 DEF handleDeletion, IInv, TypeOK
  <2>4. WorkerShape'
    BY <1>1, <1>6, Zenon DEF handleDeletion, WorkerShape
  <2> QED BY <1>3, <2>2, <2>3, <2>4 DEF IInv
<1>7. CASE ReconcileSuspended
  <2> DEFINE c == MarkSuspended(cache.conditions)
             s == [cache.status EXCEPT !.observedGeneration = cache.generation]
  <2>1. c \in Conditions /\ s \in Statuses
    <3>1. "Unset" \in Reasons
      BY DEF Reasons
    <3> QED BY <1>1, <3>1, MarkTypes, StatusUpdates, Zenon
  <2>2. s.history = cache.status.history /\ s.inventory = cache.status.inventory
    BY <1>1 DEF Statuses
  <2>3. mr' = [cache EXCEPT !.conditions = c, !.status = s]
    BY <1>1, <1>7 DEF ReconcileSuspended, ModuleReleases
  <2> HIDE DEF c, s
  <2>4. WellFormed(mr', completed')
    BY <1>1, <1>3, <2>1, <2>2, <2>3, ConditionsAndStatusWellFormed, Zenon DEF WellFormed
  <2>5. mr' \in ModuleReleases /\ mr'.exists
    BY <1>1, <1>7, <2>3, <2>4 DEF WellFormed, ReconcileSuspended, ModuleReleases
  <2>6. TypeOK'
    BY <1>1, <1>2, <1>7, <2>5 DEF ReconcileSuspended, IInv, TypeOK
  <2>7. WorkerShape'
    BY <1>1, <1>7, <2>5 DEF ReconcileSuspended, WorkerShape
  <2>8. WellFormed(old', completed')
    BY <1>3, <1>7 DEF ReconcileSuspended
  <2> QED BY <1>3, <2>4, <2>6, <2>7, <2>8 DEF IInv
<1>8. CASE ReconcileStarts
  <2>1. MarkReconciling(cache.conditions) \in Conditions
    <3>1. "Unset" \in Reasons
      BY DEF Reasons
    <3> QED BY <1>1, <3>1, MarkTypes
  <2>2. mr' = [cache EXCEPT !.conditions = MarkReconciling(cache.conditions)]
    BY <1>1, <1>8 DEF ReconcileStarts, ModuleReleases
  <2>3. WellFormed(mr', completed')
    BY <1>3, <2>1, <2>2, WithConditionsWellFormed
  <2>4. mr' \in ModuleReleases /\ mr'.exists
    BY <1>1, <1>8, <2>2, <2>3 DEF WellFormed, ReconcileStarts, ModuleReleases
  <2>5. TypeOK'
    BY <1>1, <1>2, <1>8, <2>4 DEF ReconcileStarts, IInv, TypeOK
  <2>6. WorkerShape'
    BY <1>1, <1>8, <2>4 DEF ReconcileStarts, WorkerShape
  <2>7. WellFormed(old', completed')
    BY <1>3, <1>8 DEF ReconcileStarts
  <2> QED BY <1>3, <2>3, <2>5, <2>6, <2>7 DEF IInv
<1> QED BY <1>4, <1>5, <1>6, <1>7, <1>8

\* A write of finalizers, which may remove the object.
LEMMA WithFinalizersWellFormed ==
    ASSUME IInv, NEW f \in SUBSET {FinalizerName, OtherFinalizer}
    PROVE  WellFormed(WithFinalizers(f), completed)
<1>1. WellFormed([api EXCEPT !.finalizers = f], completed)
  BY DEF IInv, WellFormed, ModuleReleases
<1> QED BY <1>1, GoneWellFormed DEF WithFinalizers

\* addFinalizer and removeFinalizer.
LEMMA FinalizerStep ==
    ASSUME IInv, addFinalizer \/ removeFinalizer
    PROVE  IInv'
<1>1. /\ mr.finalizers \cup {FinalizerName} \in SUBSET {FinalizerName, OtherFinalizer}
      /\ mr.finalizers \ {FinalizerName} \in SUBSET {FinalizerName, OtherFinalizer}
  BY DEF IInv, WellFormed, ModuleReleases
<1>2. queued \in BOOLEAN /\ disturbed \in Nat /\ WellFormed(cache, completed)
      /\ WellFormed(api, completed)
  BY DEF IInv, TypeOK
<1>3. /\ WellFormed(api', completed) /\ WellFormed(cache', completed)
      /\ queued' \in BOOLEAN
  <2>1. CASE NoWrite
    BY <1>2, <2>1 DEF NoWrite
  <2>2. CASE \E f \in SUBSET {FinalizerName, OtherFinalizer} : Write(WithFinalizers(f))
    BY <1>2, <2>2, WithFinalizersWellFormed, WriteWellFormed
  <2> QED BY <1>1, <2>1, <2>2, Zenon DEF addFinalizer, removeFinalizer
<1>4. disturbed' \in Nat /\ UNCHANGED <<cluster, completed>>
  <2>1. disturbed' = disturbed \/ disturbed' = disturbed + 1
    BY Zenon DEF addFinalizer, removeFinalizer, Disturb
  <2>2. UNCHANGED <<cluster, completed>>
    BY Zenon DEF addFinalizer, removeFinalizer
  <2> QED BY <1>2, <2>1, <2>2
<1>5. \E again \in BOOLEAN : Return(again)
  BY Zenon DEF addFinalizer, removeFinalizer
<1> QED BY <1>3, <1>4, <1>5, ReturnStep

\* What a step that reads mr may rely on.
LEMMA AtWork ==
    ASSUME IInv, pc # "idle"
    PROVE  /\ WellFormed(mr, completed) /\ mr \in ModuleReleases /\ mr.exists
           /\ mr.spec \in SpecSet /\ mr.conditions \in Conditions
           /\ mr.status \in Statuses /\ catalog \in Catalogs /\ disturbed \in Nat
           /\ mr.status.failureCounters.reconcile \in Nat
           /\ mr.status.inventory.entries \in SUBSET EntrySet
           /\ completed \in SUBSET SUBSET EntrySet
           /\ driftFailed \in BOOLEAN
<1>1. /\ WellFormed(mr, completed) /\ mr \in ModuleReleases /\ mr.exists
      /\ catalog \in Catalogs /\ disturbed \in Nat
      /\ completed \in SUBSET SUBSET EntrySet /\ driftFailed \in BOOLEAN
  BY DEF IInv, TypeOK, WorkerShape
<1>2. mr.spec \in SpecSet
  BY <1>1 DEF WellFormed
<1>3. mr.conditions \in Conditions /\ mr.status \in Statuses
  BY <1>1 DEF ModuleReleases
<1>4. mr.status.failureCounters \in Counters /\ mr.status.inventory.entries \in SUBSET EntrySet
  BY <1>3 DEF Statuses
<1>5. mr.status.failureCounters.reconcile \in Nat
  BY <1>4 DEF Counters
<1> QED BY <1>1, <1>2, <1>3, <1>4, <1>5

\* The results of reconciles that did not get to the apply phase, or stalled.
LEMMA ResultTypes ==
    ASSUME NEW digests \in DigestSets, NEW drift \in Phases, NEW apply \in Phases
    PROVE  /\ NoOpResult(drift) \in Results /\ ~NoOpResult(drift).reconciled
           /\ Stalled(digests, drift, apply) \in Results
           /\ ~Stalled(digests, drift, apply).reconciled
<1>1. NoDigests \in DigestSets
  BY DEF NoDigests, DigestSets
<1>2. NoOpResult(drift) \in Results /\ ~NoOpResult(drift).reconciled
  BY <1>1 DEF NoOpResult, Results, Phases
<1>3. Stalled(digests, drift, apply) \in Results /\ ~Stalled(digests, drift, apply).reconciled
  BY DEF Stalled, Results, Phases, StalledRecheckInterval
<1> QED BY <1>2, <1>3

\* The results of reconciles that got to the apply phase.
LEMMA WorkResultTypes ==
    ASSUME IInv, pc # "idle", NEW apply \in Phases, NEW prune \in Phases,
           NEW outcome \in {"Applied", "AppliedAndPruned"}
    PROVE  /\ Transient(apply, prune) \in Results /\ ~Transient(apply, prune).reconciled
           /\ Succeeded(outcome) \in Results
           /\ Denied \in Results /\ ~Denied.reconciled
           /\ DriftPhase \in Phases
<1>1. DigestSet(Desired) \in DigestSets
  BY AtWork, DesiredType
<1>2. ComputeBackoff(mr.status.failureCounters.reconcile + 1) \in Int
  BY AtWork, BackoffType
<1>3. DriftPhase \in Phases
  BY DEF DriftPhase, Phases
<1>4. Transient(apply, prune) \in Results /\ ~Transient(apply, prune).reconciled
  BY <1>1, <1>2, <1>3 DEF Transient, Results
<1>5. Succeeded(outcome) \in Results
  BY <1>1, <1>3 DEF Succeeded, Results, Phases
<1>6. Denied \in Results /\ ~Denied.reconciled
  BY <1>1, <1>3 DEF Denied, Results, Phases, StalledRecheckInterval
<1> QED BY <1>3, <1>4, <1>5, <1>6

\* A reconcile that ends without success.
LEMMA EndStep ==
    ASSUME IInv, pc # "idle", NEW c \in Conditions, NEW result \in Results,
           ~result.reconciled, NEW again \in BOOLEAN, Commit(c, result, again),
           NoEffect, disturbed' \in Nat
    PROVE  IInv'
BY CommitStep, AtWork DEF NoEffect

\* A step within a reconcile to a point where nothing is being applied or
\* pruned.
LEMMA BetweenStep ==
    ASSUME IInv, NoEffect, disturbed' \in Nat, WellFormed(mr', completed), mr'.exists,
           UNCHANGED old, target' = None,
           pc' \in {"addFinalizer", "removeFinalizer", "render", "drift",
                    "impersonate", "patchConditions", "patchStatus"},
           todo' \in SUBSET Resources \/ todo' \in SUBSET EntrySet,
           firstErr' \in {"none", "forbidden", "other"}, driftFailed' \in BOOLEAN,
           cont' \in {"done", "retry", "suspend", "orphan"}
    PROVE  IInv'
<1>1. TypeOK'
  BY DEF IInv, TypeOK, NoEffect, cluster, queue, WellFormed
<1>2. WorkerShape'
  BY DEF WorkerShape
<1> QED BY <1>1, <1>2 DEF IInv, NoEffect

\* Counting a disturbance.
LEMMA DisturbType ==
    ASSUME IInv, NEW kind, Disturb(kind)
    PROVE  disturbed' \in Nat
BY DEF Disturb, IInv, TypeOK

\* Only Prune has a target.
LEMMA NotPruning ==
    ASSUME IInv, pc # "prune"
    PROVE  target = None
BY DEF IInv, WorkerShape

\* The render phase, its failures and a panic in it.
LEMMA RenderStep ==
    ASSUME IInv, RenderModule \/ RenderFails \/ RenderPanics
    PROVE  IInv'
<1>1. pc = "render"
  BY Zenon DEF RenderModule, RenderFails, RenderPanics
<1>2. /\ \A reason \in Reasons : MarkStalled(mr.conditions, reason) \in Conditions
      /\ MarkModuleResolved(mr.conditions) \in Conditions
      /\ \A reason \in Reasons :
            MarkStalled(MarkModuleResolved(mr.conditions), reason) \in Conditions
  <2>1. mr.conditions \in Conditions /\ "Unset" \in Reasons
    BY <1>1, AtWork DEF Reasons
  <2>2. MarkModuleResolved(mr.conditions) \in Conditions
    BY <2>1, MarkTypes
  <2> QED BY <2>1, <2>2, MarkTypes, Zenon
<1>3. DigestSet(Desired) \in DigestSets /\ DigestSet(None) \in DigestSets
  BY <1>1, AtWork, DesiredType
<1>4. /\ {"ResolutionFailed", "RenderFailed", "ApplyFailed"} \subseteq Reasons
      /\ "skipped" \in Phases
  BY DEF Reasons, Phases
<1>5. CASE RenderModule
  <2> DEFINE c == MarkModuleResolved(mr.conditions)
             u == IF Desired = {} THEN mr.status.releaseUUID ELSE UUIDOf[mr.spec.module]
             s == [mr.status EXCEPT !.releaseUUID = u]
  <2>1. /\ WellFormed(mr, completed) /\ mr \in ModuleReleases /\ mr.status \in Statuses
        /\ mr.exists /\ mr.spec \in SpecSet
    BY <1>1, AtWork
  <2>2. mr.status.releaseUUID \in {None} \cup UUIDs /\ UUIDOf[mr.spec.module] \in UUIDs
    BY <1>1, <2>1, AtWork, DesiredType DEF Statuses
  <2>3. s \in Statuses
    BY <2>1, <2>2, StatusUpdates, Zenon
  <2>4. s.history = mr.status.history /\ s.inventory = mr.status.inventory
    BY <2>1 DEF Statuses
  <2>5. mr' = [mr EXCEPT !.conditions = c, !.status = s]
    <3>1. mr' = [mr EXCEPT !.conditions = c, !.status.releaseUUID = u]
      BY <1>5 DEF RenderModule
    <3>2. [mr EXCEPT !.conditions = c].status = mr.status
      BY <2>1 DEF ModuleReleases
    <3> HIDE DEF c, u
    <3> QED BY <3>1, <3>2, Zenon
  <2>6. WellFormed(mr', completed)
    <3>1. c \in Conditions
      BY <1>2
    <3>2. /\ GoodHistory(s.history)
          /\ s.inventory.entries = {} \/ s.inventory.entries \in completed
      BY <2>1, <2>4 DEF WellFormed
    <3> HIDE DEF c, s
    <3> QED BY <2>1, <2>3, <2>5, <3>1, <3>2, ConditionsAndStatusWellFormed, Zenon
  <2>7. mr'.exists
    BY <2>1, <2>5 DEF ModuleReleases
  <2>8. target' = None /\ UNCHANGED <<old, todo, firstErr, driftFailed, cont, disturbed>>
        /\ pc' = "drift" /\ NoEffect
    BY <1>1, <1>5, NotPruning DEF RenderModule
  <2> QED BY <2>6, <2>7, <2>8, BetweenStep DEF IInv, TypeOK
<1>6. CASE RenderFails
  <2>1. disturbed' \in Nat /\ NoEffect
    BY <1>6, DisturbType DEF RenderFails
  <2>2. \E c \in Conditions, d \in DigestSets :
          Commit(c, Stalled(d, "skipped", "skipped"), TRUE)
    BY <1>2, <1>3, <1>4, <1>6, Zenon DEF RenderFails
  <2> QED BY <1>1, <1>4, <2>1, <2>2, ResultTypes, EndStep, Zenon
<1>7. CASE RenderPanics
  <2>1. disturbed' \in Nat /\ NoEffect
    BY <1>7, DisturbType DEF RenderPanics
  <2>2. NoOpResult("skipped") \in Results /\ ~NoOpResult("skipped").reconciled
    BY <1>3, <1>4, ResultTypes
  <2>3. mr.conditions \in Conditions
    BY <1>1, AtWork
  <2> QED BY <1>1, <1>7, <2>1, <2>2, <2>3, EndStep, Zenon DEF RenderPanics
<1> QED BY <1>5, <1>6, <1>7

\* Changing the conditions alone changes nothing that is computed from mr.
LEMMA NewConditions ==
    ASSUME IInv, pc # "idle", NEW c \in Conditions, mr' = [mr EXCEPT !.conditions = c],
           UNCHANGED <<catalog, completed>>
    PROVE  /\ WellFormed(mr', completed) /\ mr' \in ModuleReleases /\ mr'.exists
           /\ mr'.deleting = mr.deleting /\ mr'.spec = mr.spec
           /\ Desired' = Desired /\ StaleSet' = StaleSet
<1>1. WellFormed(mr', completed)
  BY AtWork, WithConditionsWellFormed
<1>2. /\ mr'.exists = mr.exists /\ mr'.deleting = mr.deleting /\ mr'.spec = mr.spec
      /\ mr'.status = mr.status
  BY AtWork DEF ModuleReleases
<1> QED BY <1>1, <1>2, AtWork DEF WellFormed, Desired, StaleSet

\* Drift detection and the decision for NoOp or apply.
LEMMA DriftStep ==
    ASSUME IInv, detectDrift
    PROVE  IInv'
<1>1. pc = "drift" /\ NoEffect
  BY DEF detectDrift
<1>2. PICK c \in Conditions, failed \in BOOLEAN : Plan(c, failed)
  <2>1. mr.conditions \in Conditions /\ "Unset" \in Reasons
    BY <1>1, AtWork DEF Reasons
  <2>2. MarkDrifted(mr.conditions) \in Conditions /\ ClearDrifted(mr.conditions) \in Conditions
    BY <2>1, MarkTypes
  <2> QED BY <2>1, <2>2, Zenon DEF detectDrift
<1>3. disturbed' \in Nat
  BY DisturbType, Zenon DEF detectDrift, IInv, TypeOK
<1>4. CASE IsNoOpNow
  <2> DEFINE drift == IF failed THEN "failed" ELSE "ok"
  <2>1. Commit(c, NoOpResult(drift), FALSE)
    BY <1>2, <1>4, Zenon DEF Plan
  <2>2. drift \in Phases /\ "skipped" \in Phases
    BY DEF Phases
  <2> HIDE DEF drift
  <2>3. DigestSet(None) \in DigestSets
    BY <1>1, AtWork, DesiredType
  <2>4. NoOpResult(drift) \in Results /\ ~NoOpResult(drift).reconciled
    BY <2>2, <2>3, ResultTypes
  <2> QED BY <1>1, <1>3, <2>1, <2>4, EndStep, Zenon
<1>5. CASE ~IsNoOpNow
  <2>1. /\ mr' = [mr EXCEPT !.conditions = c] /\ driftFailed' = failed
        /\ UNCHANGED <<old, target, firstErr, cont>>
        /\ \/ pc' = "apply" /\ todo' = Desired
           \/ pc' = "impersonate" /\ todo' = todo
    BY <1>2, <1>5, Zenon DEF Plan
  <2>2. /\ WellFormed(mr', completed) /\ mr' \in ModuleReleases /\ mr'.exists
        /\ Desired' = Desired /\ Desired \in SUBSET Resources /\ target' = None
    BY <1>1, <2>1, NewConditions, NotPruning, AtWork, DesiredType DEF NoEffect, cluster
  <2>3. TypeOK'
    BY <1>1, <1>3, <2>1, <2>2 DEF IInv, TypeOK, NoEffect, cluster, queue
  <2>4. WorkerShape'
    BY <2>1, <2>2 DEF WorkerShape
  <2> QED BY <1>1, <2>1, <2>2, <2>3, <2>4 DEF IInv, NoEffect
<1> QED BY <1>4, <1>5

\* A deletion that stalls.
LEMMA StallStep ==
    ASSUME IInv, pc # "idle", NEW reason \in Reasons, StallDeletion(reason), NoEffect,
           disturbed' \in Nat
    PROVE  IInv'
<1>1. MarkStalled(mr.conditions, reason) \in Conditions
  BY AtWork, MarkTypes
<1>2. mr' = [mr EXCEPT !.conditions = MarkStalled(mr.conditions, reason)]
  BY DEF StallDeletion
<1>3. WellFormed(mr', completed) /\ mr'.exists
  BY <1>1, <1>2, NewConditions DEF NoEffect, cluster
<1>4. driftFailed' \in BOOLEAN
  BY DEF StallDeletion, IInv, TypeOK
<1> QED BY <1>3, <1>4, BetweenStep DEF StallDeletion

\* buildApplyClient, for the apply phase and for deletion.
LEMMA ImpersonateStep ==
    ASSUME IInv, NewImpersonatedClient \/ ImpersonationFails
    PROVE  IInv'
<1>1. pc = "impersonate" /\ NoEffect
  BY Zenon DEF NewImpersonatedClient, ImpersonationFails
<1>2. target = None /\ mr.exists /\ mr.conditions \in Conditions
  BY <1>1, NotPruning, AtWork
<1>3. CASE NewImpersonatedClient
  <2>1. UNCHANGED <<mr, old, target, firstErr, driftFailed, cont, disturbed>>
    BY <1>3 DEF NewImpersonatedClient
  <2>2. \/ mr.deleting /\ pc' = "prune" /\ todo' = mr.status.inventory.entries
        \/ pc' = "apply" /\ todo' = Desired
    BY <1>3 DEF NewImpersonatedClient
  <2>3. mr.status.inventory.entries \in SUBSET EntrySet /\ Desired \in SUBSET Resources
    BY <1>1, AtWork, DesiredType
  <2>4. Desired' = Desired
    BY <1>1, <2>1 DEF Desired, NoEffect, cluster
  <2>5. TypeOK'
    BY <1>1, <2>1, <2>2, <2>3 DEF IInv, TypeOK, NoEffect, cluster, queue
  <2>6. WorkerShape'
    BY <1>2, <2>1, <2>2, <2>3, <2>4 DEF WorkerShape
  <2> QED BY <1>1, <2>1, <2>5, <2>6 DEF IInv, NoEffect
<1>4. CASE ImpersonationFails
  <2>1. disturbed' \in Nat
    BY <1>4, DisturbType, Zenon DEF ImpersonationFails, IInv, TypeOK
  <2>2. "ImpersonationFailed" \in Reasons /\ "DeletionSAMissing" \in Reasons
    BY DEF Reasons
  <2>3. CASE handleDeletionSAMissing
    <3>1. CASE StallDeletion("DeletionSAMissing")
      BY <1>1, <2>1, <2>2, <3>1, StallStep
    <3>2. CASE ~StallDeletion("DeletionSAMissing")
      <4>1. /\ mr' = [mr EXCEPT !.status.inventory = NoInventory]
            /\ pc' = "patchConditions" /\ cont' = "orphan"
            /\ UNCHANGED <<old, todo, target, firstErr, driftFailed>>
        BY <2>3, <3>2 DEF handleDeletionSAMissing
      <4> DEFINE s == [mr.status EXCEPT !.inventory = NoInventory]
      <4>2. mr' = [mr EXCEPT !.status = s]
        BY <4>1
      <4>3. /\ s \in Statuses /\ s.history = mr.status.history
            /\ s.inventory.entries = {}
        <5>1. mr.status \in Statuses
          BY <1>1, AtWork
        <5>2. s \in Statuses
          BY <5>1, StatusUpdates, Zenon
        <5> QED BY <5>1, <5>2 DEF Statuses, NoInventory
      <4> HIDE DEF s
      <4>4. GoodHistory(s.history) /\ WellFormed(mr, completed)
        BY <4>3, Zenon DEF IInv, WellFormed
      <4>5. WellFormed(mr', completed)
        BY <4>2, <4>3, <4>4, WithStatusWellFormed
      <4>6. mr'.exists
        BY <1>1, <4>2, AtWork DEF ModuleReleases
      <4> QED BY <1>1, <1>2, <2>1, <4>1, <4>5, <4>6, BetweenStep DEF IInv, TypeOK
    <3> QED BY <3>1, <3>2
  <2>4. CASE StallDeletion("ImpersonationFailed")
    BY <1>1, <2>1, <2>2, <2>4, StallStep
  <2>5. CASE Commit(MarkStalled(mr.conditions, "ImpersonationFailed"),
                    Stalled(DigestSet(Desired), DriftPhase, "skipped"), TRUE)
    <3>1. MarkStalled(mr.conditions, "ImpersonationFailed") \in Conditions
      BY <1>2, <2>2, MarkTypes, Zenon
    <3>2. DigestSet(Desired) \in DigestSets /\ DriftPhase \in Phases /\ "skipped" \in Phases
      BY <1>1, AtWork, DesiredType DEF DriftPhase, Phases
    <3> QED BY <1>1, <2>1, <2>5, <3>1, <3>2, ResultTypes, EndStep, Zenon
  <2> QED BY <1>4, <2>3, <2>4, <2>5, Zenon DEF ImpersonationFails
<1> QED BY <1>3, <1>4

\* The commit of a reconcile that succeeded: the inventory it writes is added
\* to the proven ones in the same step.
LEMMA SuccessStep ==
    ASSUME IInv, pc # "idle", NEW c \in Conditions,
           NEW outcome \in {"Applied", "AppliedAndPruned"}, CommitSuccess(c, outcome)
    PROVE  IInv'
<1>1. MarkReady(c) \in Conditions
  <2>1. "Unset" \in Reasons
    BY DEF Reasons
  <2> QED BY <2>1, MarkTypes
<1>2. "ok" \in Phases
  BY DEF Phases
<1>3. Succeeded(outcome) \in Results
  BY <1>2, WorkResultTypes
<1>4. /\ Commit(MarkReady(c), Succeeded(outcome), FALSE)
      /\ completed' = completed \cup {Entries(Desired)}
      /\ UNCHANGED <<api, cache, cluster, queue, disturbed>>
  BY Zenon DEF CommitSuccess
<1>5. /\ completed \subseteq completed' /\ completed' \in SUBSET SUBSET EntrySet
      /\ Entries(Desired) \in completed'
  BY <1>4, AtWork, DesiredType, Zenon
<1>6. disturbed' \in Nat
  BY <1>4, AtWork
<1> QED BY <1>1, <1>3, <1>4, <1>5, <1>6, CommitStep, Zenon

\* The apply of one resource.
LEMMA ApplyResourceStep ==
    ASSUME IInv, NEW r \in todo, ApplyResource(r)
    PROVE  IInv'
<1>1. pc = "apply"
  BY DEF ApplyResource
<1>2. r \in Desired
  BY <1>1 DEF IInv, WorkerShape
<1>3. r.id \in Objects /\ Applied(r) \in LiveObjects /\ Desired \in SUBSET Resources
  BY <1>1, <1>2, AtWork, AppliedType, DesiredType
<1>4. live' \in [Objects -> {Absent} \cup LiveObjects]
  BY <1>3 DEF ApplyResource, IInv, TypeOK
<1>5. todo' \subseteq Desired /\ Desired' = Desired
  BY <1>1, Zenon DEF ApplyResource, IInv, WorkerShape, Desired
<1>6. /\ UNCHANGED <<api, cache, accounts, catalog, queued, timer, pc, mr, old, target,
                     firstErr, driftFailed, cont, disturbed, completed>>
  BY DEF ApplyResource, queue
<1>7. TypeOK'
  BY <1>3, <1>4, <1>5, <1>6 DEF IInv, TypeOK
<1>8. WorkerShape'
  BY <1>1, <1>5, <1>6 DEF IInv, WorkerShape
<1> QED BY <1>6, <1>7, <1>8 DEF IInv

\* The end of the apply phase: what is to be pruned is the stale set.
LEMMA ApplyEndStep ==
    ASSUME IInv, ApplyFails \/ ApplySucceeds
    PROVE  IInv'
<1>1. pc = "apply"
  BY Zenon DEF ApplyFails, ApplySucceeds
<1>2. mr.conditions \in Conditions
  BY <1>1, AtWork
<1>3. {"ImpersonationFailed", "ApplyFailed"} \subseteq Reasons /\ "Unset" \in Reasons
      /\ "failed" \in Phases /\ "skipped" \in Phases
  BY DEF Reasons, Phases
<1>4. CASE ApplyFails
  <2>1. disturbed' \in Nat /\ NoEffect
    BY <1>4, DisturbType DEF ApplyFails
  <2>2. /\ MarkStalled(mr.conditions, "ImpersonationFailed") \in Conditions
        /\ MarkNotReady(mr.conditions, "ApplyFailed") \in Conditions
    BY <1>2, <1>3, MarkTypes, Zenon
  <2>3. DigestSet(Desired) \in DigestSets /\ DriftPhase \in Phases
    BY <1>1, AtWork, DesiredType DEF DriftPhase, Phases
  <2>4. CASE Commit(MarkStalled(mr.conditions, "ImpersonationFailed"),
                    Stalled(DigestSet(Desired), DriftPhase, "failed"), TRUE)
    BY <1>1, <1>3, <2>1, <2>2, <2>3, <2>4, ResultTypes, EndStep, Zenon
  <2>5. CASE Commit(MarkNotReady(mr.conditions, "ApplyFailed"),
                    Transient("failed", "skipped"), TRUE)
    <3>1. /\ Transient("failed", "skipped") \in Results
          /\ ~Transient("failed", "skipped").reconciled
      BY <1>1, <1>3, WorkResultTypes
    <3> QED BY <1>1, <2>1, <2>2, <2>5, <3>1, EndStep, Zenon
  <2> QED BY <1>4, <2>4, <2>5, Zenon DEF ApplyFails
<1>5. CASE ApplySucceeds
  <2>1. ClearDrifted(mr.conditions) \in Conditions
    BY <1>2, <1>3, MarkTypes
  <2>2. CASE CommitSuccess(ClearDrifted(mr.conditions), "Applied")
    BY <1>1, <2>1, <2>2, SuccessStep
  <2>3. CASE /\ mr' = [mr EXCEPT !.conditions = ClearDrifted(@)]
             /\ pc' = "prune" /\ todo' = StaleSet /\ NoEffect
             /\ UNCHANGED <<old, target, firstErr, driftFailed, cont, disturbed>>
    <3>1. mr' = [mr EXCEPT !.conditions = ClearDrifted(mr.conditions)]
      BY <2>3
    <3>2. /\ WellFormed(mr', completed) /\ mr' \in ModuleReleases /\ mr'.exists
          /\ StaleSet' = StaleSet
      BY <1>1, <2>1, <2>3, <3>1, NewConditions DEF NoEffect, cluster
    <3>3. StaleSet \in SUBSET EntrySet /\ target = None
      BY <1>1, AtWork, NotPruning, StaleSetDisjoint DEF StaleSet
    <3>4. TypeOK'
      BY <2>3, <3>2, <3>3 DEF IInv, TypeOK, NoEffect, cluster, queue
    <3>5. WorkerShape'
      BY <2>3, <3>2, <3>3 DEF WorkerShape
    <3> QED BY <2>3, <3>2, <3>4, <3>5 DEF IInv, NoEffect
  <2> QED BY <1>5, <2>2, <2>3 DEF ApplySucceeds
<1> QED BY <1>4, <1>5

\* Prune's GETs and DELETEs: every target comes from the stale set, or from the
\* inventory of a deleted release, and is safe to delete.
LEMMA PruneStep ==
    ASSUME IInv,
           \/ \E e \in todo : PruneGet(e) \/ PruneGetFails(e)
           \/ PruneDelete \/ PruneDeleteFails
    PROVE  IInv'
<1>1. pc = "prune" /\ UNCHANGED pruneUnchanged
  BY DEF PruneGet, PruneGetFails, PruneDelete, PruneDeleteFails
<1>2. /\ UNCHANGED <<api, cache, accounts, catalog, queued, timer, pc, mr, old, driftFailed,
                     cont, completed>>
      /\ StaleSet' = StaleSet
  BY <1>1 DEF pruneUnchanged, queue, StaleSet, Desired
<1>3. /\ todo \in SUBSET EntrySet /\ target \in {None} \cup EntrySet
      /\ live \in [Objects -> {Absent} \cup LiveObjects]
      /\ firstErr \in {"none", "forbidden", "other"} /\ disturbed \in Nat
      /\ target # None => isSafeToDelete(target)
      /\ ~mr.deleting => todo \subseteq StaleSet /\ (target = None \/ target \in StaleSet)
      /\ mr.exists
  BY <1>1 DEF IInv, TypeOK, WorkerShape
<1>4. /\ live' \in [Objects -> {Absent} \cup LiveObjects]
      /\ firstErr' \in {"none", "forbidden", "other"} /\ disturbed' \in Nat
  <2>1. CASE \E e \in todo : PruneGet(e)
    BY <1>3, <2>1 DEF PruneGet
  <2>2. CASE PruneDelete
    BY <1>3, <2>2, Zenon DEF PruneDelete
  <2>3. CASE \/ \E e \in todo : PruneGetFails(e)
             \/ PruneDeleteFails
    <3>1. live' = live /\ PruneError /\ Disturb("prune")
      BY <2>3 DEF PruneGetFails, PruneDeleteFails
    <3> QED BY <1>3, <3>1, DisturbType DEF PruneError
  <2> QED BY <2>1, <2>2, <2>3
<1>5. /\ todo' \subseteq todo
      /\ target' \in {None, target} \/ (target' \in todo /\ isSafeToDelete(target'))
  BY DEF PruneGet, PruneGetFails, PruneDelete, PruneDeleteFails, PruneSkips
<1>6. TypeOK'
  BY <1>2, <1>3, <1>4, <1>5 DEF IInv, TypeOK
<1>7. WorkerShape'
  BY <1>1, <1>2, <1>3, <1>5 DEF WorkerShape
<1> QED BY <1>2, <1>6, <1>7 DEF IInv

\* The end of a prune and of the cleanup of a deletion.
LEMMA PruneEndStep ==
    ASSUME IInv, pruneStaleResources \/ pruneForDeletion
    PROVE  IInv'
<1>1. pc = "prune" /\ target = None /\ todo = {}
  BY Zenon DEF pruneStaleResources, pruneForDeletion
<1>2. mr.conditions \in Conditions /\ disturbed \in Nat /\ WellFormed(mr, completed)
      /\ mr.exists
  BY <1>1, AtWork
<1>3. {"ImpersonationFailed", "PruneFailed"} \subseteq Reasons
      /\ "failed" \in Phases /\ "ok" \in Phases
  BY DEF Reasons, Phases
<1>4. CASE pruneStaleResources
  <2>1. /\ MarkStalled(mr.conditions, "ImpersonationFailed") \in Conditions
        /\ MarkNotReady(mr.conditions, "PruneFailed") \in Conditions
    BY <1>2, <1>3, MarkTypes
  <2>2. CASE CommitSuccess(mr.conditions, "AppliedAndPruned")
    BY <1>1, <1>2, <2>2, SuccessStep
  <2>3. CASE /\ Commit(MarkStalled(mr.conditions, "ImpersonationFailed"), Denied, TRUE)
             /\ NoEffect /\ UNCHANGED disturbed
    <3>1. Denied \in Results /\ ~Denied.reconciled
      BY <1>1, <1>3, WorkResultTypes
    <3> QED BY <1>1, <1>2, <2>1, <2>3, <3>1, EndStep, Zenon
  <2>4. CASE /\ Commit(MarkNotReady(mr.conditions, "PruneFailed"),
                       Transient("ok", "failed"), TRUE)
             /\ NoEffect /\ UNCHANGED disturbed
    <3>1. Transient("ok", "failed") \in Results /\ ~Transient("ok", "failed").reconciled
      BY <1>1, <1>3, WorkResultTypes
    <3> QED BY <1>1, <1>2, <2>1, <2>4, <3>1, EndStep, Zenon
  <2> QED BY <1>4, <2>2, <2>3, <2>4, Zenon DEF pruneStaleResources
<1>5. CASE pruneForDeletion
  <2>1. UNCHANGED <<api, cache, cluster, disturbed, completed>>
    BY <1>5 DEF pruneForDeletion
  <2>2. CASE pc' = "removeFinalizer" /\ UNCHANGED <<queue, locals>>
    <3>1. NoEffect /\ UNCHANGED <<mr, old, todo, target, firstErr, driftFailed, cont>>
      BY <2>1, <2>2 DEF NoEffect, locals
    <3> QED BY <1>1, <1>2, <2>1, <2>2, <3>1, BetweenStep DEF IInv, TypeOK
  <2>3. CASE StallDeletion("ImpersonationFailed") /\ UNCHANGED queue
    BY <1>1, <1>2, <1>3, <2>1, <2>3, StallStep DEF NoEffect
  <2>4. CASE Return(TRUE) /\ UNCHANGED queued
    BY <1>2, <2>1, <2>4, ReturnStep, Zenon DEF IInv, TypeOK
  <2> QED BY <1>5, <2>2, <2>3, <2>4, Zenon DEF pruneForDeletion
<1> QED BY <1>4, <1>5

\* The first request of the status patch.
LEMMA PatchConditionsStep ==
    ASSUME IInv, patchConditions
    PROVE  IInv'
<1>1. /\ pc = "patchConditions" /\ pc' = "patchStatus"
      /\ UNCHANGED <<cluster, timer, mr, old, todo, target, firstErr, driftFailed, completed>>
  BY DEF patchConditions
<1>2. /\ api.conditions \in Conditions /\ old.conditions \in Conditions
      /\ mr.conditions \in Conditions /\ WellFormed(api, completed)
      /\ WellFormed(cache, completed) /\ queued \in BOOLEAN /\ disturbed \in Nat
      /\ mr.exists /\ target = None
  BY <1>1, NotPruning, AtWork, Zenon DEF IInv, TypeOK, ModuleReleases
<1>3. /\ WellFormed(api', completed) /\ WellFormed(cache', completed)
      /\ queued' \in BOOLEAN /\ disturbed' \in Nat
      /\ cont' \in {"done", "retry", "suspend", "orphan"}
  <2>0. cont \in {"done", "retry", "suspend", "orphan"}
    BY DEF IInv, TypeOK
  <2>1. CASE PatchFailure /\ cont' = (IF cont = "suspend" THEN "retry" ELSE cont)
    <3>1. /\ UNCHANGED <<api, cache, queued>> /\ disturbed' \in Nat
      BY <1>2, <2>1, DisturbType DEF PatchFailure, NoWrite
    <3> QED BY <1>2, <2>0, <2>1, <3>1
  <2>2. CASE ~(PatchFailure /\ cont' = (IF cont = "suspend" THEN "retry" ELSE cont))
    <3> DEFINE renewed == ~mr.deleting /\ ~mr.spec.suspend
               c == PatchConditions(api.conditions, old.conditions, mr.conditions, renewed)
    <3>1. Write([api EXCEPT !.conditions = c]) /\ UNCHANGED <<cont, disturbed>>
      BY <2>2 DEF patchConditions
    <3>2. c \in Conditions
      BY <1>2, PatchConditionsType, Zenon
    <3> HIDE DEF c
    <3>3. WellFormed([api EXCEPT !.conditions = c], completed)
      BY <1>2, <3>2, WithConditionsWellFormed
    <3>4. /\ WellFormed(api', completed) /\ WellFormed(cache', completed)
          /\ queued' \in BOOLEAN
      BY <1>2, <3>1, <3>3, WriteWellFormed
    <3> QED BY <1>2, <2>0, <3>1, <3>4
  <2> QED BY <2>1, <2>2
<1>4. TypeOK'
  BY <1>1, <1>3, Zenon DEF IInv, TypeOK, cluster, WellFormed
<1>5. WorkerShape'
  BY <1>1, <1>2, Zenon DEF WorkerShape
<1> QED BY <1>1, <1>3, <1>4, <1>5 DEF IInv

\* The second request of the status patch, and what follows it.
LEMMA PatchStatusStep ==
    ASSUME IInv, patchStatus
    PROVE  IInv'
<1>1. pc = "patchStatus" /\ UNCHANGED <<cluster, completed>>
  BY DEF patchStatus
<1>2. /\ WellFormed(api, completed) /\ WellFormed(cache, completed)
      /\ WellFormed(mr, completed) /\ WellFormed(old, completed)
      /\ queued \in BOOLEAN /\ disturbed \in Nat /\ mr.exists /\ target = None
  BY <1>1, NotPruning, AtWork, Zenon DEF IInv, TypeOK
<1>3. /\ WellFormed(api', completed) /\ WellFormed(cache', completed)
      /\ queued' \in BOOLEAN /\ disturbed' \in Nat
  <2>1. CASE PatchFailure
    <3>1. UNCHANGED <<api, cache, queued>> /\ disturbed' \in Nat
      BY <1>2, <2>1, DisturbType DEF PatchFailure, NoWrite
    <3> QED BY <1>2, <3>1
  <2>2. CASE ~PatchFailure
    <3> DEFINE new == [api EXCEPT !.status = PatchStatus(@, old.status, mr.status)]
    <3>1. Write(new) /\ UNCHANGED disturbed
      BY <2>2, Zenon DEF patchStatus
    <3>2. WellFormed(new, completed)
      BY <1>2, PatchedWellFormed
    <3> HIDE DEF new
    <3> QED BY <1>2, <3>1, <3>2, WriteWellFormed
  <2> QED BY <2>1, <2>2
<1>4. CASE cont = "orphan"
  <2>1. /\ pc' = "removeFinalizer"
        /\ UNCHANGED <<timer, mr, old, todo, target, firstErr, driftFailed, cont>>
    BY <1>4 DEF patchStatus, AfterPatch, locals
  <2>2. TypeOK'
    BY <1>1, <1>3, <2>1, Zenon DEF IInv, TypeOK, cluster, WellFormed
  <2>3. WorkerShape'
    BY <1>2, <2>1 DEF WorkerShape
  <2> QED BY <1>1, <1>2, <1>3, <2>1, <2>2, <2>3 DEF IInv
<1>5. CASE cont # "orphan"
  <2>1. \E again \in BOOLEAN : Return(again)
    BY <1>5, Zenon DEF patchStatus, AfterPatch
  <2> QED BY <1>1, <1>3, <2>1, ReturnStep
<1> QED BY <1>4, <1>5

\* Users' edits and deletions, which bump the generation.
LEMMA EditedWellFormed ==
    ASSUME NEW m, NEW done, WellFormed(m, done), NEW spec \in SpecSet
    PROVE  /\ WellFormed([m EXCEPT !.deleting = TRUE, !.generation = @ + 1], done)
           /\ WellFormed([m EXCEPT !.spec = spec, !.generation = @ + 1], done)
<1>1. /\ WellFormed([m EXCEPT !.deleting = TRUE], done)
      /\ WellFormed([m EXCEPT !.spec = spec], done)
  BY Zenon DEF WellFormed, ModuleReleases
<1>2. \A n : WellFormed(n, done) => WellFormed([n EXCEPT !.generation = @ + 1], done)
  BY DEF WellFormed, ModuleReleases
<1> QED BY <1>1, <1>2, Zenon

\* Steps of the cache, the clock, users, crashes and other clients.
LEMMA EnvironmentStep ==
    ASSUME IInv, CacheSyncs \/ TimerFires \/ Users \/ World
    PROVE  IInv'
<1>1. /\ WellFormed(api, completed) /\ WellFormed(cache, completed)
      /\ api \in ModuleReleases /\ api.finalizers \in SUBSET {FinalizerName, OtherFinalizer}
      /\ queued \in BOOLEAN /\ timer \in BOOLEAN /\ disturbed \in Nat
      /\ live \in [Objects -> {Absent} \cup LiveObjects]
      /\ accounts \in SUBSET ServiceAccounts
  BY DEF IInv, TypeOK, ModuleReleases
<1>2. ASSUME NEW new, WellFormed(new, completed), Write(new), disturbed' \in Nat,
             UNCHANGED <<cluster, timer, noWorker>>
      PROVE  IInv'
  <2>1. /\ WellFormed(api', completed) /\ WellFormed(cache', completed)
        /\ queued' \in BOOLEAN
    BY <1>1, <1>2, WriteWellFormed, Zenon
  <2>2. UNCHANGED <<live, accounts, catalog, timer, noWorker>>
    BY <1>2 DEF cluster
  <2> QED BY <1>1, <1>2, <2>1, <2>2, WorldStep, Zenon
<1>3. CASE CacheSyncs
  <2>1. /\ api' = api /\ cache' = api /\ queued' \in BOOLEAN
        /\ UNCHANGED <<live, accounts, catalog, timer, noWorker, disturbed>>
    BY <1>1, <1>3 DEF CacheSyncs, EventPasses, cluster
  <2> QED BY <1>1, <2>1, WorldStep
<1>4. CASE TimerFires
  <2>1. /\ api' = api /\ cache' = cache /\ queued' \in BOOLEAN /\ timer' \in BOOLEAN
        /\ UNCHANGED <<live, accounts, catalog, noWorker, disturbed>>
    BY <1>4, Zenon DEF TimerFires, cluster
  <2> QED BY <1>1, <2>1, WorldStep
<1>5. CASE Users
  <2>1. CASE UserDeletes
    <3> DEFINE new == IF api.finalizers = {} THEN Gone
                      ELSE [api EXCEPT !.deleting = TRUE, !.generation = @ + 1]
    <3>1. ASSUME api.exists PROVE WellFormed(new, completed)
      <4>1. api.spec \in SpecSet
        BY <1>1, <3>1 DEF WellFormed
      <4>2. WellFormed([api EXCEPT !.deleting = TRUE, !.generation = @ + 1], completed)
        BY <1>1, <4>1, EditedWellFormed, Zenon
      <4> QED BY <4>2, GoneWellFormed, Zenon
    <3>2. WellFormed(new, completed)
      BY <2>1, <3>1 DEF UserDeletes
    <3>3. Write(new) /\ UNCHANGED <<cluster, timer, noWorker, disturbed>>
      BY <2>1 DEF UserDeletes
    <3> HIDE DEF new
    <3> QED BY <1>1, <1>2, <3>2, <3>3
  <2>2. CASE UserAnnotates
    <3>1. WellFormed([api EXCEPT !.orphan = TRUE], completed)
      BY <1>1, Zenon DEF WellFormed, ModuleReleases
    <3> QED BY <1>1, <1>2, <2>2, <3>1 DEF UserAnnotates
  <2>3. ASSUME NEW spec \in Specs, UserEdits(spec)
        PROVE  IInv'
    <3>1. spec \in SpecSet
      BY Assumptions
    <3>2. WellFormed([api EXCEPT !.spec = spec, !.generation = @ + 1], completed)
      BY <1>1, <3>1, EditedWellFormed, Zenon
    <3> QED BY <1>1, <1>2, <2>3, <3>2 DEF UserEdits
  <2> QED BY <1>5, <2>1, <2>2, <2>3 DEF Users
<1>6. CASE World
  <2>1. CASE Crash
    <3>1. disturbed' \in Nat
      BY <2>1, DisturbType DEF Crash
    <3>2. /\ WellFormed(api', completed') /\ WellFormed(cache', completed')
          /\ WellFormed(mr', completed') /\ WellFormed(old', completed')
      BY <1>1, <2>1, GoneWellFormed DEF Crash
    <3>3. queued' \in BOOLEAN
      BY <1>1, <2>1, Zenon DEF Crash, ModuleReleases
    <3>4. TypeOK'
      BY <1>1, <2>1, <3>1, <3>2, <3>3, Zenon DEF Crash, IInv, TypeOK, WellFormed
    <3>5. WorkerShape'
      BY <2>1 DEF Crash, WorkerShape
    <3> QED BY <3>2, <3>4, <3>5 DEF IInv
  <2>2. CASE ServiceAccountChanges
    <3>1. /\ UNCHANGED <<api, cache, live, catalog, queued, timer, noWorker>>
          /\ accounts' \in SUBSET ServiceAccounts /\ disturbed' \in Nat
      BY <2>2, DisturbType DEF ServiceAccountChanges, queue
    <3> QED BY <1>1, <3>1, WorldStep, Zenon
  <2>3. ASSUME NEW o \in Objects, ForeignWrite(o)
        PROVE  IInv'
    <3>1. /\ UNCHANGED <<api, cache, accounts, catalog, queued, timer, noWorker>>
          /\ disturbed' \in Nat
      BY <2>3, DisturbType DEF ForeignWrite, queue
    <3>2. live' \in [Objects -> {Absent} \cup LiveObjects]
      BY <1>1, <2>3 DEF ForeignWrite
    <3> QED BY <1>1, <3>1, <3>2, WorldStep
  <2>4. CASE OtherAddsFinalizer \/ OtherRemovesFinalizer
    <3>1. PICK f \in SUBSET {FinalizerName, OtherFinalizer} : Write(WithFinalizers(f))
      BY <1>1, <2>4 DEF OtherAddsFinalizer, OtherRemovesFinalizer
    <3>2. disturbed' \in Nat /\ UNCHANGED <<cluster, timer, noWorker>>
      BY <1>1, <2>4, DisturbType DEF OtherAddsFinalizer, OtherRemovesFinalizer
    <3> QED BY <1>2, <3>1, <3>2, WithFinalizersWellFormed
  <2> QED BY <1>6, <2>1, <2>2, <2>3, <2>4 DEF World
<1> QED BY <1>3, <1>4, <1>5, <1>6

\* Every step of the specification keeps the invariant.
LEMMA NextIInv == IInv /\ [Next]_vars => IInv'
<1> SUFFICES ASSUME IInv, [Next]_vars PROVE IInv'
  OBVIOUS
<1>1. CASE UNCHANGED vars
  BY <1>1, WorldStep, Zenon DEF vars, IInv, TypeOK, cluster, queue, noWorker
<1>2. CASE Worker
  BY <1>2, StartStep, FinalizerStep, RenderStep, DriftStep, ImpersonateStep,
     ApplyResourceStep, ApplyEndStep, PruneStep, PruneEndStep, PatchConditionsStep,
     PatchStatusStep DEF Worker
<1>3. CASE CacheSyncs \/ TimerFires \/ Users \/ World
  BY <1>3, EnvironmentStep
<1> QED BY <1>1, <1>2, <1>3 DEF Next

\* The inductive invariant holds in every reachable state.
THEOREM Invariance == Spec => []IInv
BY InitIInv, NextIInv, PTL DEF Spec

-----------------------------------------------------------------------------
(* The theorems. *)

\* TypeOK holds throughout: no step of the reconciler, of users or of the
\* environment takes a variable out of its type.
THEOREM TypeCorrect == Spec => []TypeOK
<1>1. IInv => TypeOK
  BY DEF IInv
<1> QED BY <1>1, Invariance, PTL

\* recordHistoryEntry and nextSequence: the history in the API server is newest
\* first and bounded for every bound, although reconciles extend copies of it
\* that may be stale and patches fail or are merged.
THEOREM HistoryIsNewestFirst == Spec => []HistoryNewestFirst
<1>1. IInv => HistoryNewestFirst
  BY Zenon DEF IInv, WellFormed, GoodHistory, HistoryNewestFirst
<1> QED BY <1>1, Invariance, PTL

\* The inventory in the API server is always that of a reconcile that applied
\* and pruned everything, whatever fails, crashes or is read stale.
THEOREM InventoryIsProven == Spec => []InventoryProven
<1>1. IInv => InventoryProven
  BY Zenon DEF IInv, WellFormed, InventoryProven
<1> QED BY <1>1, Invariance, PTL

\* Of the steps that are no disturbance, only the apply of a resource and the
\* DELETE of Prune change the cluster.
LEMMA LiveChanges ==
    ASSUME IInv, [Next]_vars, disturbed' = disturbed, live' # live
    PROVE  (\E r \in todo : ApplyResource(r)) \/ PruneDelete
<1> USE DEF cluster, NoEffect, Dequeue
<1>1. disturbed \in Nat
  BY DEF IInv, TypeOK
<1>2. \A kind : ~Disturb(kind)
  BY <1>1 DEF Disturb
<1>3. CASE UNCHANGED vars
  BY <1>3 DEF vars
<1>4. CASE ReconcileGone \/ ReconcileNoFinalizer \/ handleDeletion \/ ReconcileSuspended
           \/ ReconcileStarts \/ addFinalizer \/ removeFinalizer
  BY <1>4, Zenon DEF ReconcileGone, ReconcileNoFinalizer, handleDeletion, ReconcileSuspended,
              ReconcileStarts, addFinalizer, removeFinalizer
<1>5. CASE RenderModule \/ RenderFails \/ RenderPanics \/ detectDrift
           \/ NewImpersonatedClient \/ ImpersonationFails
  BY <1>5, Zenon DEF RenderModule, RenderFails, RenderPanics, detectDrift, NewImpersonatedClient,
              ImpersonationFails
<1>6. CASE ApplyFails \/ ApplySucceeds \/ pruneStaleResources \/ pruneForDeletion
  BY <1>6, Zenon DEF ApplyFails, ApplySucceeds, pruneStaleResources, pruneForDeletion, CommitSuccess
<1>7. CASE (\E e \in todo : PruneGet(e) \/ PruneGetFails(e)) \/ PruneDeleteFails
  BY <1>7 DEF PruneGet, PruneGetFails, PruneDeleteFails
<1>8. CASE patchConditions \/ patchStatus
  BY <1>8, Zenon DEF patchConditions, patchStatus
<1>9. CASE CacheSyncs \/ TimerFires \/ Users
  BY <1>9, Zenon DEF CacheSyncs, TimerFires, Users, UserDeletes, UserAnnotates, UserEdits
<1>10. CASE World
  BY <1>2, <1>10 DEF World, Crash, ServiceAccountChanges, ForeignWrite, OtherAddsFinalizer,
                     OtherRemovesFinalizer
<1> QED BY <1>3, <1>4, <1>5, <1>6, <1>7, <1>8, <1>9, <1>10 DEF Next, Worker

\* Server-side apply never removes an object.
LEMMA ApplyKeeps ==
    ASSUME IInv, NEW r \in todo, ApplyResource(r), NEW o \in Objects, live[o] # Absent
    PROVE  live'[o] # Absent
<1>1. pc = "apply" /\ r \in Desired
  BY DEF ApplyResource, IInv, WorkerShape
<1>2. r.id \in Objects /\ Applied(r) # Absent
  BY <1>1, AtWork, AppliedType, Zenon
<1> QED BY <1>2 DEF ApplyResource, IInv, TypeOK

\* No step of the controller removes a Namespace or a CustomResourceDefinition,
\* whatever module change or deletion makes it stale (isSafeToDelete).
THEOREM ProtectedObjectsSurvive == Spec => ProtectedSurvive
<1> DEFINE Keeps == disturbed' = disturbed =>
               \A o \in Protected \cap Objects : live[o] # Absent => live'[o] # Absent
<1>1. IInv /\ [Next]_vars => Keeps
  <2> SUFFICES ASSUME IInv, [Next]_vars, disturbed' = disturbed,
                      NEW o \in Protected \cap Objects, live[o] # Absent
               PROVE  live'[o] # Absent
    OBVIOUS
  <2>1. CASE live' = live
    BY <2>1
  <2>2. CASE \E r \in todo : ApplyResource(r)
    BY <2>2, ApplyKeeps
  <2>3. CASE PruneDelete
    <3>1. target.id # o
      BY <2>3 DEF PruneDelete, IInv, WorkerShape, isSafeToDelete
    <3> QED BY <2>3, <3>1 DEF PruneDelete, IInv, TypeOK
  <2> QED BY <2>1, <2>2, <2>3, LiveChanges
<1>2. IInv /\ [Next]_vars => [Keeps]_vars
  BY <1>1
<1> QED BY <1>2, Invariance, PTL DEF Spec, ProtectedSurvive

\* The prune of a reconcile never removes an object that the same reconcile
\* renders, whatever component the inventory records for it (ComputeStaleSet).
THEOREM DesiredObjectsSurvive == Spec => DesiredSurvive
<1> DEFINE Keeps == pc = "prune" /\ ~mr.deleting /\ disturbed' = disturbed =>
               \A r \in Desired : live[r.id] # Absent => live'[r.id] # Absent
<1>1. IInv /\ [Next]_vars => Keeps
  <2> SUFFICES ASSUME IInv, [Next]_vars, disturbed' = disturbed, pc = "prune", ~mr.deleting,
                      NEW r \in Desired, live[r.id] # Absent
               PROVE  live'[r.id] # Absent
    OBVIOUS
  <2>1. CASE live' = live
    BY <2>1
  <2>2. CASE \E x \in todo : ApplyResource(x)
    BY <2>2, Zenon DEF ApplyResource
  <2>3. CASE PruneDelete
    <3>1. target \in StaleSet
      BY <2>3 DEF PruneDelete, IInv, WorkerShape
    <3>2. NewEntryFromResource(r) \in Entries(Desired) /\ NewEntryFromResource(r).id = r.id
      BY DEF Entries, NewEntryFromResource
    <3>3. target.id # r.id
      BY <3>1, <3>2, StaleSetDisjoint DEF StaleSet
    <3>4. r.id \in Objects
      BY AtWork, AppliedType, Zenon
    <3> QED BY <2>3, <3>3, <3>4 DEF PruneDelete, IInv, TypeOK
  <2> QED BY <2>1, <2>2, <2>3, LiveChanges
<1>2. IInv /\ [Next]_vars => [Keeps]_vars
  BY <1>1
<1> QED BY <1>2, Invariance, PTL DEF Spec, DesiredSurvive

-----------------------------------------------------------------------------
(* ModuleRelease implements Lifecycle. *)

\* The API server: an object that is gone has nothing, and a release without
\* the finalizer has recorded nothing.
ServerShape ==
    /\ ~api.exists => api.finalizers = {} /\ ~api.deleting
    /\ api.exists /\ ~api.deleting /\ FinalizerName \notin api.finalizers =>
          api.status.inventory.entries = {}

\* The cache may lag, but what it shows has happened, and a deletion it shows
\* cannot be taken back.
CacheTrails ==
    /\ cache.deleting => api.deleting \/ ~api.exists
    /\ ~cache.exists => ~api.exists
    /\ cache.exists /\ ~cache.deleting /\ FinalizerName \in cache.finalizers =>
          FinalizerName \in api.finalizers

\* The reconcile at hand: the copy it works on is no newer than the cache, and
\* while it is not a deletion nobody else can remove the finalizer.
ReconcileShape ==
    /\ pc # "idle" /\ mr.deleting => cache.deleting \/ ~cache.exists
    /\ pc \notin {"idle", "addFinalizer"} /\ ~mr.deleting =>
          FinalizerName \in api.finalizers
    /\ pc \in {"render", "drift", "apply"} => ~mr.deleting
    /\ pc = "removeFinalizer" => mr.deleting
    /\ pc \in {"render", "drift", "impersonate", "apply", "prune"} /\ ~mr.deleting =>
          ~mr.spec.suspend

\* What the status patch of a deletion or of a suspended release sends.
PatchShape ==
    /\ pc \notin {"idle", "addFinalizer"} /\ mr.deleting /\ cont # "orphan" =>
          mr.status.inventory = old.status.inventory
    /\ pc = "impersonate" /\ mr.deleting => old.status.inventory.entries # {}
    /\ pc \in {"patchConditions", "patchStatus"} /\ ~mr.deleting /\ mr.spec.suspend =>
          mr.status.inventory = old.status.inventory
    /\ cont = "orphan" =>
          /\ pc \in {"patchConditions", "patchStatus", "removeFinalizer"} /\ mr.deleting
          /\ mr.status.inventory.entries = {} /\ old.status.inventory.entries # {}

LInv == ServerShape /\ CacheTrails /\ ReconcileShape /\ PatchShape

-----------------------------------------------------------------------------
(* The steps, by the part of the state they touch. *)

AbstractStep == [L!Next]_(L!lifecycle)

WorkPcs == {"render", "drift", "impersonate", "apply", "prune"}
PatchPcs == {"patchConditions", "patchStatus"}

\* The first state: nothing is recorded, nothing is running.
LEMMA InitLInv == Init => LInv /\ L!Init
<1> SUFFICES ASSUME Init PROVE LInv /\ L!Init
  OBVIOUS
<1>1. PICK spec \in Specs : api = Created(spec)
  BY DEF Init
<1>2. /\ api.exists /\ ~api.deleting /\ api.finalizers = {}
      /\ api.status.inventory.entries = {}
  BY <1>1 DEF Created, NoStatus, NoInventory
<1>3. LInv
  BY <1>2 DEF Init, LInv, ServerShape, CacheTrails, ReconcileShape, PatchShape
<1>4. Stage = "fresh" /\ Work = "none" /\ Owned = {}
  BY <1>2 DEF Init, Stage, Work, Owned
<1> QED BY <1>3, <1>4 DEF Init, L!Init

\* A step within a reconcile of a release that is not being deleted: on from
\* the apply phase, or out of the prune phase into the status patch.
LEMMA WorkingStep ==
    ASSUME LInv, ~mr.deleting, pc \in WorkPcs, UNCHANGED <<api, cache, old, live>>,
           ~mr'.deleting, mr'.spec = mr.spec, cont' # "orphan",
           \/ pc # "prune" /\ pc' \in WorkPcs
           \/ pc' = pc
           \/ pc' = "patchConditions"
    PROVE  LInv' /\ AbstractStep
<1> USE DEF WorkPcs
<1>1. ~mr.spec.suspend /\ FinalizerName \in api.finalizers
  BY DEF LInv, ReconcileShape
<1>2. LInv'
  BY <1>1 DEF LInv, ServerShape, CacheTrails, ReconcileShape, PatchShape
<1>3. Stage' = Stage /\ Owned' = Owned
  BY DEF Stage, Owned
<1>4. /\ pc # "prune" => Work = "applying"
      /\ pc = "prune" => Work = "sweeping"
      /\ pc' \notin {"prune", "patchConditions"} => Work' = "applying"
      /\ pc' = "prune" => Work' = "sweeping"
      /\ pc' = "patchConditions" => Work' = "recording"
  BY <1>1 DEF Work
<1>5. \/ Work' = Work
      \/ Work = "applying" /\ Work' = "sweeping"
      \/ Work \in {"applying", "sweeping"} /\ Work' = "recording"
  BY <1>4
<1> QED BY <1>2, <1>3, <1>5
        DEF AbstractStep, L!Next, L!lifecycle, L!BeginSweep, L!EndWork

\* A step within a deletion that leaves the API server and the cluster alone.
LEMMA CleaningStep ==
    ASSUME LInv, mr.deleting, pc \in WorkPcs, UNCHANGED <<api, cache, old, live>>,
           mr'.deleting, mr'.status.inventory = mr.status.inventory, cont' # "orphan",
           pc' \in {"prune", "removeFinalizer", "patchConditions"}
    PROVE  LInv' /\ AbstractStep
<1> USE DEF WorkPcs
<1>1. cont # "orphan"
  BY DEF LInv, PatchShape
<1>2. LInv'
  BY <1>1 DEF LInv, ServerShape, CacheTrails, ReconcileShape, PatchShape
<1>3. Stage' = Stage /\ Owned' = Owned
  BY DEF Stage, Owned
<1>4. Work = "cleaning" /\ Work' = "cleaning"
  BY DEF Work
<1> QED BY <1>2, <1>3, <1>4 DEF AbstractStep, L!lifecycle

\* The reconcile returns, or is lost, without a write.
LEMMA ReturningStep ==
    ASSUME LInv, UNCHANGED <<api, live>>, cache' \in {cache, api}, pc' = "idle",
           cont' = "done"
    PROVE  LInv' /\ AbstractStep
<1>1. LInv'
  BY DEF LInv, ServerShape, CacheTrails, ReconcileShape, PatchShape
<1>2. Stage' = Stage /\ Owned' = Owned /\ Work' = "none"
  BY DEF Stage, Owned, Work
<1> QED BY <1>1, <1>2 DEF AbstractStep, L!Next, L!lifecycle, L!Abort

\* A step of others that leaves the worker alone: it may delete the release,
\* but not take the finalizer away.
LEMMA OthersStep ==
    ASSUME LInv, UNCHANGED noWorker, live' = live, cache' \in {cache, api, api'},
           ServerShape',
           api.deleting => api'.deleting \/ ~api'.exists,
           ~api.exists => ~api'.exists,
           FinalizerName \in api'.finalizers <=> FinalizerName \in api.finalizers,
           api'.status.inventory = api.status.inventory \/ ~api'.exists
    PROVE  LInv' /\ AbstractStep
<1> USE DEF noWorker, locals
<1>1. CacheTrails'
  BY DEF LInv, CacheTrails, ServerShape
<1>2. ReconcileShape' /\ PatchShape'
  BY DEF LInv, CacheTrails, ReconcileShape, PatchShape
<1>3. Work' = Work
  BY DEF Work
<1>4. Stage' = Stage => Owned' = Owned
  BY DEF Stage, Owned, LInv, ServerShape
<1>5. \/ Stage' = Stage
      \/ Stage = "fresh" /\ Stage' = "gone" /\ Owned' = Owned
      \/ Stage = "active" /\ Stage' = "terminating" /\ Owned' = Owned
  BY Zenon DEF Stage, Owned, LInv, ServerShape
<1> QED BY <1>1, <1>2, <1>3, <1>4, <1>5
        DEF LInv, AbstractStep, L!Next, L!lifecycle, L!Terminate

-----------------------------------------------------------------------------
(* The actions. *)

\* The worker takes the release: it begins to apply only what the API server
\* holds with the finalizer, and to clean up only what is being deleted.
LEMMA StartRefines ==
    ASSUME IInv, LInv,
           \/ ReconcileGone \/ ReconcileNoFinalizer \/ handleDeletion
           \/ ReconcileSuspended \/ ReconcileStarts
    PROVE  LInv' /\ AbstractStep
<1>1. pc = "idle" /\ UNCHANGED <<api, cache, live>> /\ cache \in ModuleReleases
  BY DEF ReconcileGone, ReconcileNoFinalizer, handleDeletion, ReconcileSuspended,
         ReconcileStarts, Dequeue, cluster, IInv, TypeOK
<1>2. Work = "none" /\ Stage' = Stage /\ Owned' = Owned
  BY <1>1 DEF Work, Stage, Owned
<1>3. cont # "orphan"
  BY <1>1 DEF LInv, PatchShape
<1>4. CASE ReconcileGone
  BY <1>1, <1>2, <1>4 DEF ReconcileGone, locals, LInv, ServerShape, CacheTrails,
     ReconcileShape, PatchShape, Work, AbstractStep, L!lifecycle
<1>5. CASE ReconcileNoFinalizer
  <2>1. /\ mr' = cache /\ pc' = "addFinalizer" /\ cont' = cont
    BY <1>5, Zenon DEF ReconcileNoFinalizer
  <2>2. LInv'
    BY <1>1, <1>3, <2>1 DEF LInv, ServerShape, CacheTrails, ReconcileShape, PatchShape
  <2>3. Work' = "none"
    BY <2>1 DEF Work
  <2> QED BY <1>1, <1>2, <2>2, <2>3 DEF AbstractStep, L!lifecycle
<1>6. CASE handleDeletion
  <2>1. /\ mr' = cache /\ old' = cache /\ cont' = cont /\ cache.deleting
        /\ \/ pc' = "removeFinalizer"
           \/ pc' \in {"prune", "impersonate"} /\ cache.status.inventory.entries # {}
    BY <1>6, Zenon DEF handleDeletion
  <2>2. LInv'
    BY <1>1, <1>3, <2>1 DEF LInv, ServerShape, CacheTrails, ReconcileShape, PatchShape
  <2>3. Work' = "cleaning" /\ Stage \in {"terminating", "gone"}
    BY <2>1 DEF Work, Stage, LInv, CacheTrails, ServerShape
  <2> QED BY <1>1, <1>2, <2>2, <2>3, Zenon
          DEF AbstractStep, L!Next, L!lifecycle, L!BeginCleanup
<1>7. CASE ReconcileSuspended
  <2>1. /\ ~mr'.deleting /\ mr'.spec.suspend /\ mr'.status.inventory = old'.status.inventory
        /\ pc' = "patchConditions" /\ cont' = "suspend"
        /\ cache.exists /\ ~cache.deleting /\ FinalizerName \in cache.finalizers
    BY <1>1, <1>7, Zenon DEF ReconcileSuspended, ModuleReleases, Statuses
  <2>2. LInv'
    BY <1>1, <2>1 DEF LInv, ServerShape, CacheTrails, ReconcileShape, PatchShape
  <2>3. Work' = "none"
    BY <2>1 DEF Work
  <2> QED BY <1>1, <1>2, <2>2, <2>3 DEF AbstractStep, L!lifecycle
<1>8. CASE ReconcileStarts
  <2>1. /\ ~mr'.deleting /\ ~mr'.spec.suspend /\ pc' = "render" /\ cont' = cont
        /\ cache.exists /\ ~cache.deleting /\ FinalizerName \in cache.finalizers
    BY <1>1, <1>8, Zenon DEF ReconcileStarts, ModuleReleases
  <2>2. LInv'
    BY <1>1, <1>3, <2>1 DEF LInv, ServerShape, CacheTrails, ReconcileShape, PatchShape
  <2>3. Work' = "applying" /\ Stage \in {"active", "terminating"}
    BY <2>1 DEF Work, Stage, LInv, CacheTrails
  <2> QED BY <1>1, <1>2, <2>2, <2>3
          DEF AbstractStep, L!Next, L!lifecycle, L!BeginApply
<1> QED BY <1>4, <1>5, <1>6, <1>7, <1>8, Zenon

\* A commit keeps what the mapping looks at.
LEMMA CommitRefines ==
    ASSUME IInv, LInv, ~mr.deleting, pc \in WorkPcs, NEW c, NEW result, NEW again,
           Commit(c, result, again), UNCHANGED <<api, cache, live>>
    PROVE  LInv' /\ AbstractStep
<1>1. mr \in ModuleReleases
  BY DEF IInv, TypeOK
<1>2. mr'.deleting = mr.deleting /\ mr'.spec = mr.spec
  BY <1>1 DEF Commit, ModuleReleases
<1>3. pc' = "patchConditions" /\ cont' # "orphan" /\ old' = old
  BY DEF Commit
<1> QED BY <1>2, <1>3, WorkingStep

\* The render and drift phases.
LEMMA RenderRefines ==
    ASSUME IInv, LInv, RenderModule \/ RenderFails \/ RenderPanics \/ detectDrift
    PROVE  LInv' /\ AbstractStep
<1>1. pc \in {"render", "drift"} /\ UNCHANGED <<api, cache, live>>
  BY Zenon DEF RenderModule, RenderFails, RenderPanics, detectDrift, NoEffect, cluster
<1>2. pc \in WorkPcs /\ ~mr.deleting /\ cont # "orphan" /\ mr \in ModuleReleases
  BY <1>1 DEF WorkPcs, LInv, ReconcileShape, PatchShape, IInv, TypeOK
<1>3. CASE \E c, result, again : Commit(c, result, again)
  BY <1>1, <1>2, <1>3, CommitRefines
<1>4. CASE RenderModule
  <2>1. mr'.deleting = mr.deleting /\ mr'.spec = mr.spec
    BY <1>2, <1>4 DEF RenderModule, ModuleReleases
  <2>2. pc = "render" /\ pc' = "drift" /\ old' = old /\ cont' = cont
    BY <1>4 DEF RenderModule
  <2> QED BY <1>1, <1>2, <2>1, <2>2, WorkingStep DEF WorkPcs
<1>5. CASE detectDrift /\ ~\E c, result, again : Commit(c, result, again)
  <2>1. PICK c, failed : Plan(c, failed)
    BY <1>5, Zenon DEF detectDrift
  <2>2. /\ mr' = [mr EXCEPT !.conditions = c] /\ UNCHANGED <<old, cont>>
        /\ pc' \in {"apply", "impersonate"}
    BY <1>5, <2>1, Zenon DEF Plan
  <2>3. mr'.deleting = mr.deleting /\ mr'.spec = mr.spec
    BY <1>2, <2>2 DEF ModuleReleases
  <2> QED BY <1>1, <1>2, <2>2, <2>3, WorkingStep DEF WorkPcs
<1> QED BY <1>3, <1>4, <1>5, Zenon DEF RenderFails, RenderPanics

\* A deletion that stalls.
LEMMA StallRefines ==
    ASSUME IInv, LInv, mr.deleting, pc \in WorkPcs, NEW reason, StallDeletion(reason),
           UNCHANGED <<api, cache, live>>
    PROVE  LInv' /\ AbstractStep
<1>1. mr \in ModuleReleases
  BY DEF IInv, TypeOK
<1>2. mr'.deleting = mr.deleting /\ mr'.status = mr.status
  BY <1>1, Zenon DEF StallDeletion, ModuleReleases
<1>3. pc' = "patchConditions" /\ cont' = "retry" /\ old' = old
  BY DEF StallDeletion
<1> QED BY <1>2, <1>3, CleaningStep

\* The impersonated client, and what happens without one.
LEMMA ImpersonateRefines ==
    ASSUME IInv, LInv, NewImpersonatedClient \/ ImpersonationFails
    PROVE  LInv' /\ AbstractStep
<1>1. pc = "impersonate" /\ UNCHANGED <<api, cache, live>>
  BY Zenon DEF NewImpersonatedClient, ImpersonationFails, NoEffect, cluster
<1>2. /\ pc \in WorkPcs /\ cont # "orphan" /\ mr \in ModuleReleases
      /\ mr.deleting => old.status.inventory.entries # {}
  BY <1>1 DEF WorkPcs, LInv, PatchShape, IInv, TypeOK
<1>3. CASE NewImpersonatedClient
  <2>1. UNCHANGED <<mr, old, cont>>
    BY <1>3 DEF NewImpersonatedClient
  <2>2. CASE mr.deleting
    <3>1. pc' = "prune"
      BY <1>3, <2>2 DEF NewImpersonatedClient
    <3> QED BY <1>1, <1>2, <2>1, <2>2, <3>1, CleaningStep
  <2>3. CASE ~mr.deleting
    <3>1. pc' = "apply"
      BY <1>3, <2>3 DEF NewImpersonatedClient
    <3> QED BY <1>1, <1>2, <2>1, <2>3, <3>1, WorkingStep DEF WorkPcs
  <2> QED BY <2>2, <2>3
<1>4. CASE ImpersonationFails
  <2>1. CASE ~mr.deleting
    <3>1. \E c, result, again : Commit(c, result, again)
      BY <1>4, <2>1, Zenon DEF ImpersonationFails
    <3> QED BY <1>1, <1>2, <2>1, <3>1, CommitRefines
  <2>2. CASE mr.deleting /\ \E reason : StallDeletion(reason)
    BY <1>1, <1>2, <2>2, StallRefines
  <2>3. CASE mr.deleting /\ ~\E reason : StallDeletion(reason)
    <3>1. /\ mr' = [mr EXCEPT !.status.inventory = NoInventory]
          /\ pc' = "patchConditions" /\ cont' = "orphan" /\ old' = old
      BY <1>4, <2>3, Zenon DEF ImpersonationFails, handleDeletionSAMissing
    <3>2. mr'.deleting /\ mr'.status.inventory.entries = {}
      BY <1>2, <2>3, <3>1 DEF ModuleReleases, Statuses, NoInventory
    <3>3. LInv'
      BY <1>1, <1>2, <2>3, <3>1, <3>2
         DEF LInv, ServerShape, CacheTrails, ReconcileShape, PatchShape
    <3>4. Stage' = Stage /\ Owned' = Owned /\ Work = "cleaning" /\ Work' = "cleaning"
      BY <1>1, <2>3, <3>1, <3>2 DEF Stage, Owned, Work
    <3> QED BY <1>1, <3>3, <3>4 DEF AbstractStep, L!lifecycle
  <2> QED BY <2>1, <2>2, <2>3
<1> QED BY <1>3, <1>4

\* The apply phase puts objects and ends in a sweep or in the status patch.
LEMMA ApplyRefines ==
    ASSUME IInv, LInv, (\E r \in todo : ApplyResource(r)) \/ ApplyFails \/ ApplySucceeds
    PROVE  LInv' /\ AbstractStep
<1>1. pc = "apply" /\ UNCHANGED <<api, cache>>
  BY Zenon DEF ApplyResource, ApplyFails, ApplySucceeds, CommitSuccess, NoEffect
<1>2. /\ pc \in WorkPcs /\ ~mr.deleting /\ cont # "orphan" /\ mr \in ModuleReleases
      /\ FinalizerName \in api.finalizers
  BY <1>1 DEF WorkPcs, LInv, ReconcileShape, PatchShape, IInv, TypeOK
<1>3. CASE live' = live /\ \E c, result, again : Commit(c, result, again)
  BY <1>1, <1>2, <1>3, CommitRefines
<1>4. ASSUME NEW r \in todo, ApplyResource(r)
      PROVE  LInv' /\ AbstractStep
  <2>1. r \in Desired
    BY <1>1 DEF IInv, WorkerShape
  <2>2. r.id \in Objects /\ Applied(r) # Absent
    BY <1>1, <2>1, AtWork, AppliedType
  <2>3. UNCHANGED <<api, cache, pc, mr, old, cont>>
    BY <1>4, Zenon DEF ApplyResource
  <2>4. LInv'
    BY <2>3 DEF LInv, ServerShape, CacheTrails, ReconcileShape, PatchShape
  <2>5. Stage' = Stage /\ Owned' = Owned /\ Work' = Work /\ Work = "applying"
        /\ Stage \in {"active", "terminating"}
    BY <1>1, <1>2, <2>3 DEF Stage, Owned, Work
  <2>6. live' = [live EXCEPT ![r.id] = live'[r.id]] /\ live'[r.id] # Absent
    BY <1>4, <2>2, Zenon DEF ApplyResource, IInv, TypeOK
  <2>7. L!Put(r.id)
    BY <2>5, <2>6 DEF L!Put
  <2> QED BY <2>2, <2>4, <2>7 DEF AbstractStep, L!Next
<1>5. CASE ApplySucceeds /\ ~\E c, result, again : Commit(c, result, again)
  <2>1. /\ mr' = [mr EXCEPT !.conditions = ClearDrifted(@)] /\ pc' = "prune"
        /\ UNCHANGED <<old, cont, live>>
    BY <1>5, Zenon DEF ApplySucceeds, CommitSuccess, NoEffect, cluster
  <2>2. mr'.deleting = mr.deleting /\ mr'.spec = mr.spec
    BY <1>2, <2>1 DEF ModuleReleases
  <2> QED BY <1>1, <1>2, <2>1, <2>2, WorkingStep DEF WorkPcs
<1>6. ASSUME ApplyFails \/ ApplySucceeds PROVE live' = live
  BY <1>6, Zenon DEF ApplyFails, ApplySucceeds, CommitSuccess, NoEffect, cluster
<1>7. ApplyFails => \E c, result, again : Commit(c, result, again)
  BY Zenon DEF ApplyFails
<1> QED BY <1>3, <1>4, <1>5, <1>6, <1>7

\* Prune removes objects within a sweep or a cleanup only.
LEMMA PruneRefines ==
    ASSUME IInv, LInv,
           \/ \E e \in todo : PruneGet(e) \/ PruneGetFails(e)
           \/ PruneDelete \/ PruneDeleteFails
    PROVE  LInv' /\ AbstractStep
<1>1. pc = "prune" /\ UNCHANGED <<api, cache, pc, mr, old, cont>>
  BY Zenon DEF PruneGet, PruneGetFails, PruneDelete, PruneDeleteFails, pruneUnchanged
<1>2. LInv'
  BY <1>1 DEF LInv, ServerShape, CacheTrails, ReconcileShape, PatchShape
<1>3. /\ Stage' = Stage /\ Owned' = Owned /\ Work' = Work
      /\ Work \in {"sweeping", "cleaning"}
  BY <1>1 DEF Stage, Owned, Work
<1>4. CASE PruneDelete
  <2>1. target.id \in Objects
    BY <1>4 DEF PruneDelete, IInv, TypeOK, EntrySet
  <2>2. L!Remove(target.id)
    BY <1>3, <1>4 DEF PruneDelete, L!Remove
  <2> QED BY <1>2, <2>1, <2>2 DEF AbstractStep, L!Next
<1>5. CASE live' = live
  BY <1>2, <1>3, <1>5 DEF AbstractStep, L!lifecycle
<1> QED BY <1>4, <1>5 DEF PruneGet, PruneGetFails, PruneDeleteFails

\* The end of a sweep, and of the cleanup of a deletion.
LEMMA PruneEndRefines ==
    ASSUME IInv, LInv, pruneStaleResources \/ pruneForDeletion
    PROVE  LInv' /\ AbstractStep
<1>1. pc = "prune" /\ pc \in WorkPcs /\ UNCHANGED <<api, cache, live>>
  BY Zenon DEF pruneStaleResources, pruneForDeletion, CommitSuccess, NoEffect, cluster,
               WorkPcs
<1>2. CASE pruneStaleResources
  <2>1. ~mr.deleting /\ \E c, result, again : Commit(c, result, again)
    BY <1>2, Zenon DEF pruneStaleResources, CommitSuccess
  <2> QED BY <1>1, <2>1, CommitRefines
<1>3. CASE pruneForDeletion
  <2>1. mr.deleting /\ cont # "orphan"
    BY <1>1, <1>3 DEF pruneForDeletion, LInv, PatchShape
  <2>2. CASE pc' = "removeFinalizer" /\ UNCHANGED locals
    BY <1>1, <2>1, <2>2, CleaningStep DEF locals
  <2>3. CASE \E reason : StallDeletion(reason)
    BY <1>1, <2>1, <2>3, StallRefines
  <2>4. CASE Return(TRUE)
    BY <1>1, <2>4, ReturningStep DEF Return
  <2> QED BY <1>3, <2>2, <2>3, <2>4, Zenon DEF pruneForDeletion
<1> QED BY <1>2, <1>3

\* Writes of the API server that the cache may see at once.
LEMMA WriteShows ==
    ASSUME NEW new, Write(new)
    PROVE  api' = new /\ cache' \in {cache, api'}
BY DEF Write

\* The finalizer is added while nothing runs, and removed at the end of a
\* cleanup.
LEMMA FinalizerRefines ==
    ASSUME IInv, LInv, addFinalizer \/ removeFinalizer
    PROVE  LInv' /\ AbstractStep
<1>1. /\ api \in ModuleReleases /\ mr \in ModuleReleases /\ live' = live
      /\ pc' = "idle" /\ cont' = "done"
  BY Zenon DEF IInv, TypeOK, addFinalizer, removeFinalizer, Return, cluster
<1>2. CASE NoWrite
  BY <1>1, <1>2, ReturningStep DEF NoWrite
<1>3. ASSUME NEW f, FinalizersAccepted(f), Write(WithFinalizers(f)),
             \/ pc = "addFinalizer" /\ f = mr.finalizers \cup {FinalizerName}
             \/ pc = "removeFinalizer" /\ f = mr.finalizers \ {FinalizerName}
      PROVE  LInv' /\ AbstractStep
  <2>1. /\ api.exists /\ cache' \in {cache, api'}
        /\ \/ api' = Gone /\ api.deleting /\ f = {}
           \/ api' = [api EXCEPT !.finalizers = f] /\ ~(api.deleting /\ f = {})
    BY <1>3, WriteShows DEF FinalizersAccepted, WithFinalizers
  <2>2. \/ ~api'.exists /\ api'.finalizers = {} /\ ~api'.deleting /\ api.deleting /\ f = {}
        \/ /\ api'.exists /\ api'.finalizers = f /\ api'.deleting = api.deleting
           /\ api'.status = api.status
    BY <1>1, <2>1 DEF Gone, ModuleReleases
  <2>3. pc = "removeFinalizer" =>
           api.deleting /\ FinalizerName \notin f /\ (cache.deleting \/ ~cache.exists)
    BY <1>3, <2>1 DEF LInv, ReconcileShape, CacheTrails
  <2>4. pc = "addFinalizer" => FinalizerName \in f /\ api'.exists
    BY <1>3, <2>2
  <2>5. pc = "addFinalizer" /\ api.deleting => FinalizerName \in api.finalizers
    BY <1>3, <2>4, Zenon DEF FinalizersAccepted
  <2>6. ServerShape'
    BY <1>3, <2>2, <2>3, <2>4 DEF ServerShape
  <2>7. CacheTrails'
    BY <1>3, <2>1, <2>2, <2>3, <2>4, <2>6 DEF LInv, CacheTrails, ServerShape
  <2>8. ReconcileShape' /\ PatchShape'
    BY <1>1 DEF ReconcileShape, PatchShape
  <2>9. CASE pc = "addFinalizer"
    <3>1. Work = "none" /\ Work' = "none" /\ Owned' = Owned
      BY <1>1, <2>1, <2>2, <2>4, <2>5, <2>9 DEF Work, Owned, Stage, LInv, ServerShape
    <3>2. Stage' = Stage \/ (Stage = "fresh" /\ Stage' = "active")
      BY <2>1, <2>2, <2>4, <2>5, <2>9 DEF Stage
    <3> QED BY <1>1, <2>6, <2>7, <2>8, <3>1, <3>2
            DEF LInv, AbstractStep, L!Next, L!lifecycle, L!Register
  <2>10. CASE pc = "removeFinalizer"
    <3>1. Work = "cleaning" /\ Work' = "none" /\ Stage' = "gone" /\ Owned' = {}
      BY <1>1, <2>2, <2>3, <2>10 DEF Work, Owned, Stage, LInv, ReconcileShape
    <3>2. Stage = "terminating" \/ (Stage = "gone" /\ Owned = {})
      BY <2>1, <2>3, <2>10, Zenon DEF Stage, Owned
    <3> QED BY <1>1, <2>6, <2>7, <2>8, <3>1, <3>2
            DEF LInv, AbstractStep, L!Next, L!lifecycle, L!Finish, L!Abort
  <2> QED BY <1>3, <2>9, <2>10
<1> QED BY <1>2, <1>3, Zenon DEF addFinalizer, removeFinalizer, Disturb

\* The entries that a merge patch of the status leaves in the API server: its
\* own ones if the reconcile left the inventory alone, and those of the reconcile
\* if it changed them.
EntriesMerged(entries, latest, before, after) ==
    /\ after.inventory = before.inventory => entries = latest.inventory.entries
    /\ after.inventory.entries # before.inventory.entries => entries = after.inventory.entries

\* The merge patch sends the entries only when the reconcile changed them.
LEMMA PatchedEntries ==
    ASSUME NEW latest, NEW before, NEW after
    PROVE  EntriesMerged(PatchStatus(latest, before, after).inventory.entries,
                         latest, before, after)
BY DEF PatchStatus, PatchInventory, Pick, EntriesMerged

\* The first request of the status patch writes conditions only.
LEMMA PatchConditionsRefines ==
    ASSUME IInv, LInv, patchConditions
    PROVE  LInv' /\ AbstractStep
<1>1. /\ pc = "patchConditions" /\ pc' = "patchStatus" /\ UNCHANGED <<live, mr, old>>
      /\ cont' = cont \/ (cont = "suspend" /\ cont' = "retry")
  BY DEF patchConditions, cluster
<1>2. api \in ModuleReleases
  BY DEF IInv, TypeOK
<1>3. /\ api'.exists = api.exists /\ api'.deleting = api.deleting
      /\ api'.finalizers = api.finalizers /\ api'.status = api.status
      /\ cache' \in {cache, api'}
  <2>1. CASE NoWrite
    BY <2>1 DEF NoWrite
  <2>2. CASE \E c : Write([api EXCEPT !.conditions = c])
    BY <1>2, <2>2, WriteShows DEF ModuleReleases
  <2> QED BY <2>1, <2>2, Zenon DEF patchConditions, PatchFailure
<1>4. LInv'
  BY <1>1, <1>3, Zenon DEF LInv, ServerShape, CacheTrails, ReconcileShape, PatchShape
<1>5. Stage' = Stage /\ Owned' = Owned /\ Work' = Work
  BY <1>1, <1>3 DEF Stage, Owned, Work
<1> QED BY <1>1, <1>4, <1>5 DEF AbstractStep, L!lifecycle

\* The second request: a record of the inventory, the orphaning of a deletion,
\* or nothing that the mapping sees.
LEMMA PatchStatusRefines ==
    ASSUME IInv, LInv, patchStatus
    PROVE  LInv' /\ AbstractStep
<1>1. /\ pc = "patchStatus" /\ live' = live /\ api \in ModuleReleases
      /\ api.status \in Statuses
  BY DEF patchStatus, cluster, IInv, TypeOK, ModuleReleases
<1>2. \/ cont = "orphan" /\ pc' = "removeFinalizer" /\ UNCHANGED <<mr, old, cont>>
      \/ cont # "orphan" /\ pc' = "idle" /\ cont' = "done"
  BY Zenon DEF patchStatus, AfterPatch, Return, locals
<1>3. CASE NoWrite
  <2>1. UNCHANGED <<api, cache>>
    BY <1>3 DEF NoWrite
  <2>2. CASE cont = "orphan"
    <3>1. LInv'
      BY <1>1, <1>2, <2>1, <2>2, Zenon
         DEF LInv, ServerShape, CacheTrails, ReconcileShape, PatchShape
    <3>2. Stage' = Stage /\ Owned' = Owned /\ Work' = Work
      BY <1>1, <1>2, <2>1, <2>2 DEF Stage, Owned, Work, LInv, PatchShape
    <3> QED BY <1>1, <3>1, <3>2, Zenon DEF AbstractStep, L!lifecycle
  <2>3. CASE cont # "orphan"
    BY <1>1, <1>2, <2>1, <2>3, ReturningStep
  <2> QED BY <2>2, <2>3
<1>4. CASE ~NoWrite
  <2> DEFINE s == PatchStatus(api.status, old.status, mr.status)
  <2>1. api.exists /\ Write([api EXCEPT !.status = s])
    BY <1>4, Zenon DEF patchStatus, PatchFailure
  <2>2. /\ api'.exists /\ api'.deleting = api.deleting
        /\ api'.finalizers = api.finalizers /\ api'.status = s
        /\ cache' \in {cache, api'}
    BY <1>1, <2>1, WriteShows DEF ModuleReleases
  <2>3. EntriesMerged(s.inventory.entries, api.status, old.status, mr.status)
    BY PatchedEntries, Zenon
  <2> HIDE DEF s
  <2>4. mr.deleting => api.deleting
    BY <1>1, <2>1 DEF LInv, ReconcileShape, CacheTrails
  <2>5. ~mr.deleting => FinalizerName \in api.finalizers
    BY <1>1 DEF LInv, ReconcileShape
  <2>6. LInv'
    BY <1>1, <1>2, <2>1, <2>2, <2>4, <2>5
       DEF LInv, ServerShape, CacheTrails, ReconcileShape, PatchShape
  <2>7. Stage' = Stage
    BY <2>1, <2>2 DEF Stage
  <2>8. CASE cont = "orphan"
    <3>1. mr.deleting /\ s.inventory.entries = {}
      BY <2>3, <2>8 DEF LInv, PatchShape, EntriesMerged
    <3>2. Work = "cleaning" /\ Work' = "cleaning" /\ Owned' = {}
      BY <1>1, <1>2, <2>2, <2>8, <3>1 DEF Work, Owned
    <3> QED BY <1>1, <2>6, <2>7, <3>2, Zenon DEF AbstractStep, L!Next, L!lifecycle, L!Orphan
  <2>9. CASE cont # "orphan" /\ (mr.deleting \/ mr.spec.suspend)
    <3>1. s.inventory.entries = api.status.inventory.entries
      BY <1>1, <2>3, <2>9 DEF LInv, PatchShape, EntriesMerged
    <3>2. Owned' = Owned /\ Work' = "none"
      BY <1>2, <2>2, <2>7, <2>9, <3>1 DEF Work, Owned
    <3> QED BY <1>1, <2>6, <2>7, <3>2, Zenon DEF AbstractStep, L!Next, L!lifecycle, L!Abort
  <2>10. CASE cont # "orphan" /\ ~mr.deleting /\ ~mr.spec.suspend
    <3>1. Work = "recording" /\ Work' = "none" /\ Stage \in {"active", "terminating"}
      BY <1>1, <1>2, <2>5, <2>10 DEF Work, Stage
    <3> QED BY <1>1, <2>6, <2>7, <3>1 DEF AbstractStep, L!Next, L!lifecycle, L!Record
  <2> QED BY <2>8, <2>9, <2>10
<1> QED BY <1>3, <1>4

\* Users, the cache, timers and the rest of the world.
LEMMA EnvironmentRefines ==
    ASSUME IInv, LInv, CacheSyncs \/ TimerFires \/ Users \/ World
    PROVE  LInv' /\ AbstractStep
<1>1. api \in ModuleReleases /\ ServerShape /\ FinalizerName # OtherFinalizer
  BY Zenon DEF IInv, TypeOK, LInv, FinalizerName, OtherFinalizer
<1>2. CASE CacheSyncs \/ TimerFires \/ ServiceAccountChanges
  <2>1. api' = api /\ cache' \in {cache, api} /\ live' = live /\ UNCHANGED noWorker
    BY <1>2, Zenon DEF CacheSyncs, TimerFires, ServiceAccountChanges, cluster
  <2> QED BY <1>1, <2>1, OthersStep, Zenon DEF ServerShape
<1>3. ASSUME NEW spec, UserEdits(spec)
      PROVE  LInv' /\ AbstractStep
  <2>1. /\ api'.exists = api.exists /\ api'.deleting = api.deleting
        /\ api'.finalizers = api.finalizers /\ api'.status = api.status
    <3>1. api' = [api EXCEPT !.spec = spec, !.generation = @ + 1]
      BY <1>3, WriteShows, Zenon DEF UserEdits
    <3> QED BY <1>1, <3>1, Zenon DEF ModuleReleases
  <2>2. cache' \in {cache, api'} /\ live' = live /\ UNCHANGED noWorker
    BY <1>3, WriteShows DEF UserEdits, cluster
  <2> QED BY <1>1, <2>1, <2>2, OthersStep DEF ServerShape
<1>4. CASE UserAnnotates
  <2>1. /\ api'.exists = api.exists /\ api'.deleting = api.deleting
        /\ api'.finalizers = api.finalizers /\ api'.status = api.status
    <3>1. api' = [api EXCEPT !.orphan = TRUE]
      BY <1>4, WriteShows, Zenon DEF UserAnnotates
    <3> QED BY <1>1, <3>1, Zenon DEF ModuleReleases
  <2>2. cache' \in {cache, api'} /\ live' = live /\ UNCHANGED noWorker
    BY <1>4, WriteShows DEF UserAnnotates, cluster
  <2> QED BY <1>1, <2>1, <2>2, OthersStep DEF ServerShape
<1>5. CASE UserDeletes
  <2>1. /\ cache' \in {cache, api'} /\ live' = live /\ UNCHANGED noWorker
        /\ \/ api.finalizers = {} /\ api' = Gone
           \/ api' = [api EXCEPT !.deleting = TRUE, !.generation = @ + 1]
        /\ api.exists
    BY <1>5, WriteShows DEF UserDeletes, cluster
  <2>2. \/ /\ api.finalizers = {} /\ ~api'.exists
           /\ api'.finalizers = {} /\ ~api'.deleting
        \/ /\ api'.exists /\ api'.deleting
           /\ api'.finalizers = api.finalizers /\ api'.status = api.status
    <3>1. CASE api.finalizers = {} /\ api' = Gone
      BY <3>1 DEF Gone
    <3>2. CASE api' = [api EXCEPT !.deleting = TRUE, !.generation = @ + 1]
      BY <1>1, <2>1, <3>2, Zenon DEF ModuleReleases
    <3> QED BY <2>1, <3>1, <3>2, Zenon
  <2> QED BY <1>1, <2>1, <2>2, OthersStep DEF ServerShape
<1>6. CASE OtherAddsFinalizer \/ OtherRemovesFinalizer
  <2>1. PICK f : /\ f \in {api.finalizers \cup {OtherFinalizer},
                           api.finalizers \ {OtherFinalizer}}
                 /\ Write(WithFinalizers(f))
    BY <1>6 DEF OtherAddsFinalizer, OtherRemovesFinalizer
  <2>2. cache' \in {cache, api'} /\ live' = live /\ UNCHANGED noWorker
    BY <1>6, WriteShows DEF OtherAddsFinalizer, OtherRemovesFinalizer, cluster
  <2>3. \/ f = {} /\ api.deleting /\ api' = Gone
        \/ api' = [api EXCEPT !.finalizers = f]
    BY <2>1, WriteShows DEF WithFinalizers
  <2>4. \/ /\ f = {} /\ ~api'.exists /\ api'.finalizers = {} /\ ~api'.deleting
        \/ /\ api'.exists = api.exists /\ api'.deleting = api.deleting
           /\ api'.finalizers = f /\ api'.status = api.status
    BY <1>1, <2>3 DEF Gone, ModuleReleases
  <2>5. FinalizerName \in f <=> FinalizerName \in api.finalizers
    BY <1>1, <2>1, Zenon
  <2>6. api.exists
    BY <1>1, <1>6 DEF OtherAddsFinalizer, OtherRemovesFinalizer, ServerShape
  <2> QED BY <1>1, <2>2, <2>4, <2>5, <2>6, OthersStep, Zenon DEF ServerShape
<1>7. CASE Crash
  BY <1>7, ReturningStep DEF Crash
<1>8. ASSUME NEW o \in Objects, ForeignWrite(o)
      PROVE  LInv' /\ AbstractStep
  <2>1. /\ UNCHANGED <<api, cache, noWorker>> /\ "foreignWrite" \in Disturbances
        /\ live' = [live EXCEPT ![o] = live'[o]]
    BY <1>8 DEF ForeignWrite, Disturb, IInv, TypeOK
  <2>2. LInv'
    BY <2>1, Zenon DEF noWorker, locals, LInv, ServerShape, CacheTrails, ReconcileShape, PatchShape
  <2>3. Stage' = Stage /\ Owned' = Owned /\ Work' = Work
    BY <2>1 DEF noWorker, locals, Stage, Owned, Work
  <2>4. L!Outside(o)
    BY <2>1, <2>3 DEF L!Outside
  <2> QED BY <2>2, <2>4, Zenon DEF AbstractStep, L!Next
<1> QED BY <1>2, <1>3, <1>4, <1>5, <1>6, <1>7, <1>8 DEF Users, World

-----------------------------------------------------------------------------

\* Every step of the specification is a step of Lifecycle or a stutter.
LEMMA NextRefines == IInv /\ LInv /\ [Next]_vars => LInv' /\ AbstractStep
<1> SUFFICES ASSUME IInv, LInv, [Next]_vars PROVE LInv' /\ AbstractStep
  OBVIOUS
<1>1. CASE UNCHANGED vars
  <2>1. UNCHANGED <<api, cache, live, noWorker>>
    BY <1>1 DEF vars, cluster, noWorker
  <2> QED BY <2>1, OthersStep, Zenon DEF LInv, ServerShape
<1>2. CASE Worker
  BY <1>2, StartRefines, FinalizerRefines, RenderRefines, ImpersonateRefines,
     ApplyRefines, PruneRefines, PruneEndRefines, PatchConditionsRefines,
     PatchStatusRefines DEF Worker
<1>3. CASE CacheSyncs \/ TimerFires \/ Users \/ World
  BY <1>3, EnvironmentRefines
<1> QED BY <1>1, <1>2, <1>3 DEF Next

\* ReconcileModuleRelease implements Lifecycle: objects are applied only while
\* the finalizer is held, pruned only after everything was applied or in a
\* deletion, the inventory changes only then, and the release goes only at the
\* end of a cleanup, whatever fails, crashes or is read stale.
THEOREM FinalizerBracketsWork == Spec => FinalizerBrackets
<1>1. Init => LInv /\ L!Init
  BY InitLInv
<1>2. IInv /\ LInv /\ [Next]_vars => LInv' /\ [L!Next]_(L!lifecycle)
  BY NextRefines DEF AbstractStep
<1> QED BY <1>1, <1>2, Invariance, PTL DEF Spec, FinalizerBrackets, L!Spec

=============================================================================
