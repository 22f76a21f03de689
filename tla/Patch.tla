-------------------------------- MODULE Patch --------------------------------
(***************************************************************************)
(* What the API server holds after one call of the Flux patch helper       *)
(* (github.com/fluxcd/pkg/runtime/patch), which lives outside this         *)
(* repository.  The helper remembers the object as it was read (before)    *)
(* and, on Patch, sends only the fields that differ between before and the *)
(* object in memory (after): the conditions first, then, in a second       *)
(* request, the rest of the status as a JSON merge patch without an        *)
(* optimistic lock.  A field that did not change in memory keeps whatever  *)
(* value the API server holds (latest), which is not before's when the     *)
(* read was served from a cache that lags.                                 *)
(***************************************************************************)
EXTENDS Status

Pick(latest, before, after) == IF after = before THEN latest ELSE after

\* A reconcile passes Ready through Unknown and re-adds Stalled, so their
\* transition times differ from before's even when their values do not:
\* renewed says that these two are sent in any case.
PatchConditions(latest, before, after, renewed) ==
    [ready       |-> IF renewed THEN after.ready
                     ELSE Pick(latest.ready, before.ready, after.ready),
     reason      |-> IF renewed THEN after.reason
                     ELSE Pick(latest.reason, before.reason, after.reason),
     reconciling |-> Pick(latest.reconciling, before.reconciling, after.reconciling),
     stalled     |-> IF renewed /\ after.stalled THEN TRUE
                     ELSE Pick(latest.stalled, before.stalled, after.stalled),
     drifted     |-> Pick(latest.drifted, before.drifted, after.drifted),
     resolved    |-> Pick(latest.resolved, before.resolved, after.resolved)]

PatchDigests(latest, before, after) ==
    [source |-> Pick(latest.source, before.source, after.source),
     config |-> Pick(latest.config, before.config, after.config),
     render |-> Pick(latest.render, before.render, after.render)]

PatchCounters(latest, before, after) ==
    [reconcile |-> Pick(latest.reconcile, before.reconcile, after.reconcile),
     apply     |-> Pick(latest.apply, before.apply, after.apply),
     prune     |-> Pick(latest.prune, before.prune, after.prune),
     drift     |-> Pick(latest.drift, before.drift, after.drift)]

PatchInventory(latest, before, after) ==
    [revision |-> Pick(latest.revision, before.revision, after.revision),
     digest   |-> Pick(latest.digest, before.digest, after.digest),
     entries  |-> Pick(latest.entries, before.entries, after.entries)]

PatchStatus(latest, before, after) ==
    [observedGeneration |-> Pick(latest.observedGeneration,
                                 before.observedGeneration, after.observedGeneration),
     releaseUUID     |-> Pick(latest.releaseUUID, before.releaseUUID, after.releaseUUID),
     lastAttempted   |-> PatchDigests(latest.lastAttempted,
                                      before.lastAttempted, after.lastAttempted),
     lastApplied     |-> PatchDigests(latest.lastApplied,
                                      before.lastApplied, after.lastApplied),
     failureCounters |-> PatchCounters(latest.failureCounters,
                                       before.failureCounters, after.failureCounters),
     inventory       |-> PatchInventory(latest.inventory, before.inventory, after.inventory),
     history         |-> Pick(latest.history, before.history, after.history),
     nextRetryAt     |-> Pick(latest.nextRetryAt, before.nextRetryAt, after.nextRetryAt)]

=============================================================================
