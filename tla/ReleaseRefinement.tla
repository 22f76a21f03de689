------------------------- MODULE ReleaseRefinement --------------------------
(***************************************************************************)
(* Every release of Release implements Lifecycle, for every value of the   *)
(* constants, also where releases share objects; and where they share none *)
(* and nothing ends half-way, Ready means applied.                         *)
(***************************************************************************)
EXTENDS ReleaseProofs

AbstractStep(r) == [L(r)!Next]_(L(r)!lifecycle)

Owned(r) == api[r].status.inventory.entries

-----------------------------------------------------------------------------
(* The shapes of the steps. *)

\* The stage of a release is a matter of four of its fields.
LEMMA StageDepends ==
    ASSUME NEW r, api'[r].exists = api[r].exists, api'[r].finalizer = api[r].finalizer,
           api'[r].deleting = api[r].deleting
    PROVE  Stage(r)' = Stage(r)
BY DEF Stage

\* The stage of the release in the worker's hands.
LEMMA StageAtWork ==
    ASSUME RInv, Working
    PROVE  /\ cur \in Releases /\ api[cur].exists /\ api[cur].finalizer
           /\ Stage(cur) \in {"active", "terminating"}
           /\ rel.deleting => Stage(cur) = "terminating"
<1>1. /\ cur \in Releases /\ api[cur].finalizer /\ (rel.deleting => api[cur].deleting)
      /\ api[cur].deleting \in BOOLEAN /\ rel.deleting \in BOOLEAN
  BY DEF RInv, WorkerOK, TypeOK, Working, ReleaseObjects
<1>2. api[cur].exists
  BY <1>1, GoneGood DEF RInv, ServerOK
<1> QED BY <1>1, <1>2 DEF Stage

\* What the worker does with the release at hand.
LEMMA WorkIs ==
    ASSUME RInv, pc # "idle"
    PROVE  /\ pc = "addFinalizer" => Work(cur) = "none"
           /\ Working /\ rel.deleting => Work(cur) = "cleaning"
           /\ pc \in {"resolve", "fetch", "render", "impersonate", "apply"} /\ ~rel.deleting =>
                 Work(cur) = "applying"
           /\ pc = "prune" /\ ~rel.deleting => Work(cur) = "sweeping"
           /\ pc = "patch" /\ ~rel.deleting =>
                 Work(cur) = (IF rel.status.inventory = api[cur].status.inventory
                              THEN "none" ELSE "recording")
<1>1. rel.deleting \in BOOLEAN
  BY DEF RInv, TypeOK, ReleaseObjects
<1> QED BY <1>1 DEF Work, Working

\* A step that changes at most the work on a release.
LEMMA WorkMoves ==
    ASSUME NEW r, Stage(r)' = Stage(r), Owned(r)' = Owned(r), live' = live,
           \/ Work(r)' \in {Work(r), "none"}
           \/ /\ Work(r) = "none" /\ Work(r)' = "applying"
              /\ Stage(r) \in {"active", "terminating"}
           \/ Work(r) = "none" /\ Work(r)' = "cleaning" /\ Stage(r) = "terminating"
           \/ Work(r) = "applying" /\ Work(r)' = "sweeping"
           \/ Work(r) \in {"applying", "sweeping"} /\ Work(r)' = "recording"
    PROVE  AbstractStep(r)
BY DEF AbstractStep, Owned, L!Next, L!lifecycle, L!BeginApply, L!BeginSweep, L!EndWork,
       L!BeginCleanup, L!Abort

\* A release that the worker has not in hand sees at most one object change.
LEMMA OtherRelease ==
    ASSUME NEW r, cur # r, cur' # r, api'[r] = api[r],
           live' = live \/ \E o \in Objects : live' = [live EXCEPT ![o] = live'[o]]
    PROVE  AbstractStep(r)
<1>1. Work(r) = "none" /\ Work(r)' = "none" /\ Owned(r)' = Owned(r)
  BY DEF Work, Owned
<1>2. Stage(r)' = Stage(r)
  BY StageDepends
<1>3. CASE live' = live
  BY <1>1, <1>2, <1>3, WorkMoves
<1>4. CASE \E o \in Objects : live' = [live EXCEPT ![o] = live'[o]]
  BY <1>1, <1>2, <1>4 DEF AbstractStep, Owned, L!Next, L!lifecycle, L!Outside
<1> QED BY <1>3, <1>4

\* A step of the worker that writes no release but the one at hand: what
\* remains to be shown is about that one.
LEMMA WorkerStep ==
    ASSUME RInv, pc # "idle", cur' \in {cur, None}, NEW r \in Releases,
           r # cur => api'[r] = api[r],
           live' = live \/ \E o \in Objects : live' = [live EXCEPT ![o] = live'[o]],
           r = cur => AbstractStep(r)
    PROVE  AbstractStep(r)
<1>1. None \notin Releases
  BY Assumptions
<1>2. CASE r = cur
  BY <1>2
<1>3. CASE r # cur
  BY <1>1, <1>3, OtherRelease
<1> QED BY <1>2, <1>3

\* The reconcile returns, or is lost, without a write.
LEMMA ReturnStep ==
    ASSUME RInv, UNCHANGED <<api, live>>, cur' = None, NEW r \in Releases
    PROVE  AbstractStep(r)
<1>1. None \notin Releases
  BY Assumptions
<1>2. Work(r)' = "none"
  BY <1>1 DEF Work
<1>3. Stage(r)' = Stage(r) /\ Owned(r)' = Owned(r)
  BY StageDepends DEF Owned
<1> QED BY <1>2, <1>3, WorkMoves

\* Nothing changes that Lifecycle knows of.
LEMMA QuietStep ==
    ASSUME UNCHANGED <<api, live, pc, cur, rel>>, NEW r
    PROVE  AbstractStep(r)
<1>1. Work(r)' = Work(r)
  BY DEF Work
<1>2. Stage(r)' = Stage(r) /\ Owned(r)' = Owned(r)
  BY StageDepends DEF Owned
<1> QED BY <1>1, <1>2, WorkMoves

\* The worker goes on, or ends its work, with the release at hand.
LEMMA GoesOnStep ==
    ASSUME RInv, RInv', pc \notin {"idle", "addFinalizer", "patch"}, UNCHANGED <<api, live, cur>>,
           rel'.deleting = rel.deleting,
           \/ pc' = pc
           \/ pc' = "patch"
           \/ rel.deleting /\ pc' \in {"impersonate", "prune", "removeFinalizer"}
           \/ pc # "prune" /\ pc' \in {"fetch", "render", "impersonate", "apply", "prune"},
           NEW r \in Releases
    PROVE  AbstractStep(r)
<1> SUFFICES ASSUME r = cur PROVE AbstractStep(r)
  BY WorkerStep
<1>1. Stage(r)' = Stage(r) /\ Owned(r)' = Owned(r)
  BY StageDepends, Zenon DEF Owned
<1>2. rel.deleting \in BOOLEAN
  BY Zenon DEF RInv, TypeOK, ReleaseObjects
<1>3. pc # "removeFinalizer" \/ rel.deleting
  BY DEF RInv, WorkerOK
<1>4. CASE rel.deleting
  <2>1. Work(r) = "cleaning" /\ Work(r)' = "cleaning"
    BY <1>4 DEF Work
  <2> QED BY <1>1, <2>1, WorkMoves
<1>5. CASE ~rel.deleting
  <2>1. /\ pc # "prune" => Work(r) = "applying"
        /\ pc = "prune" => Work(r) = "sweeping"
    BY <1>3, <1>5, WorkIs DEF RInv, TypeOK
  <2>2. /\ pc' = "prune" => Work(r)' = "sweeping"
        /\ pc' \in {"resolve", "fetch", "render", "impersonate", "apply"} =>
              Work(r)' = "applying"
        /\ pc' = "patch" => Work(r)' \in {"none", "recording"}
    BY <1>5, Zenon DEF Work
  <2>3. \/ pc' = "prune" \/ pc' = "patch"
        \/ pc # "prune" /\ pc' \in {"resolve", "fetch", "render", "impersonate", "apply"}
    BY <1>3, <1>5 DEF RInv, TypeOK
  <2> QED BY <1>1, <2>1, <2>2, <2>3, WorkMoves, Zenon
<1> QED BY <1>2, <1>4, <1>5

\* A commit ends the work of the release at hand.
LEMMA CommitStep ==
    ASSUME RInv, RInv', NEW c, NEW result, Commit(c, result), ~rel.deleting,
           pc \in {"resolve", "fetch", "render", "impersonate", "apply", "prune"},
           UNCHANGED <<api, live>>, NEW r \in Releases
    PROVE  AbstractStep(r)
<1> DEFINE ready == IF result.outcome = "NoOp" THEN MarkReady(c) ELSE c
           s == CommitStatus(rel.status, result)
<1>1. rel' = [rel EXCEPT !.conditions = ready, !.status = s] /\ pc' = "patch" /\ cur' = cur
  BY DEF Commit
<1> HIDE DEF ready, s
<1>2. rel'.deleting = rel.deleting
  BY <1>1, Zenon DEF RInv, TypeOK, ReleaseObjects
<1> QED BY <1>1, <1>2, GoesOnStep

-----------------------------------------------------------------------------
(* The steps. *)

\* Nothing is there at first, and nothing is being done.
LEMMA InitBrackets == Init => \A r \in Releases : L(r)!Init
<1> SUFFICES ASSUME Init, NEW r \in Releases PROVE L(r)!Init
  OBVIOUS
<1>1. api[r] = Gone \/ \E spec \in SpecSet : api[r] = Created(spec)
  BY DEF Init
<1>2. ~api[r].finalizer /\ api[r].status = NoStatus
  BY <1>1, GoneGood, CreatedGood
<1>3. Stage(r) \in {"fresh", "gone"}
  BY <1>2 DEF Stage
<1>4. api[r].status.inventory.entries = {}
  BY <1>2, NewStatusType
<1>5. Work(r) = "none"
  BY Assumptions DEF Init, Work
<1> QED BY <1>3, <1>4, <1>5 DEF Init, L!Init

\* The worker takes a release: an apply begins under its finalizer, a cleanup
\* when it is being deleted.
LEMMA TakeStep ==
    ASSUME RInv, NEW x \in Releases, Take(x), NEW r \in Releases
    PROVE  AbstractStep(r)
<1>1. Dequeue(x)
  BY Zenon DEF Take, ReconcileGone, ReconcileNoFinalizer, handleReleaseDeletion,
         ReconcileSuspended, ReconcileWaits, ReconcileStarts
<1>2. /\ UNCHANGED <<api, live>> /\ Good(api[x]) /\ Recorded(api[x])
      /\ api[x].conditions \in Conditions /\ pc = "idle" /\ cur = None
  BY <1>1, Found
<1>3. None \notin Releases
  BY Assumptions
<1>4. CASE ReconcileGone(x)
  BY <1>2, <1>4, QuietStep DEF ReconcileGone, locals
<1>5. CASE ~ReconcileGone(x)
  <2>1. cur' = x
    BY <1>5 DEF Take, ReconcileNoFinalizer, handleReleaseDeletion, ReconcileSuspended,
                ReconcileWaits, ReconcileStarts, Load
  <2>2. CASE r # x
    BY <1>2, <1>3, <2>1, <2>2, OtherRelease
  <2>3. CASE r = x
    <3>1. Work(r) = "none" /\ Stage(r)' = Stage(r) /\ Owned(r)' = Owned(r)
      BY <1>2, <1>3, StageDepends DEF Work, Owned
    <3>2. CASE ReconcileNoFinalizer(r)
      <4>1. Work(r)' = "none"
        BY <3>2 DEF ReconcileNoFinalizer, Load, Work
      <4> QED BY <1>2, <3>1, <4>1, WorkMoves
    <3>3. CASE handleReleaseDeletion(r)
      <4>1. /\ pc' # "addFinalizer" /\ rel' = api[r] /\ api[r].deleting
            /\ api[r].exists /\ api[r].finalizer
        BY <3>3 DEF handleReleaseDeletion
      <4>2. Work(r)' = "cleaning"
        BY <2>1, <2>3, <4>1 DEF Work
      <4>3. Stage(r) = "terminating"
        BY <4>1 DEF Stage
      <4> QED BY <1>2, <3>1, <4>2, <4>3, WorkMoves, Zenon
    <3>4. CASE ReconcileSuspended(r)
      <4> DEFINE c == MarkSuspended(api[r].conditions)
      <4>1. c \in Conditions
        BY <1>2, <2>3, MarkTypes DEF Reasons
      <4>2. /\ rel' = [api[r] EXCEPT !.conditions = c,
                                     !.status.observedGeneration = api[r].generation]
            /\ pc' = "patch" /\ ~api[r].deleting
        BY <1>2, <2>3, <3>4, Zenon DEF ReconcileSuspended, Active, Load, Good, ReleaseObjects
      <4> HIDE DEF c
      <4>3. Copies(api[r], c, [api[r] EXCEPT !.conditions = c,
                                     !.status.observedGeneration = api[r].generation])
        BY <1>2, <2>3, <4>1, MarkedGood, Zenon
      <4>4. rel'.deleting = api[r].deleting /\ rel'.status.inventory = api[r].status.inventory
        BY <4>2, <4>3 DEF Copies
      <4>5. Work(r)' = "none"
        BY <1>2, <2>1, <2>3, <4>2, <4>4 DEF Work
      <4> QED BY <1>2, <3>1, <4>5, WorkMoves
    <3>5. CASE ReconcileWaits(r)
      <4> DEFINE c == MarkNotReady(api[r].conditions, "DependenciesNotReady")
      <4>1. c \in Conditions
        BY <1>2, <2>3, MarkTypes DEF Reasons
      <4>2. /\ rel' = [api[r] EXCEPT !.conditions = c,
                                     !.status.observedGeneration = api[r].generation]
            /\ pc' = "patch" /\ ~api[r].deleting
        BY <1>2, <2>3, <3>5, Zenon DEF ReconcileWaits, Active, Load, Good, ReleaseObjects
      <4> HIDE DEF c
      <4>3. Copies(api[r], c, [api[r] EXCEPT !.conditions = c,
                                     !.status.observedGeneration = api[r].generation])
        BY <1>2, <2>3, <4>1, MarkedGood, Zenon
      <4>4. rel'.deleting = api[r].deleting /\ rel'.status.inventory = api[r].status.inventory
        BY <4>2, <4>3 DEF Copies
      <4>5. Work(r)' = "none"
        BY <1>2, <2>1, <2>3, <4>2, <4>4 DEF Work
      <4> QED BY <1>2, <3>1, <4>5, WorkMoves
    <3>6. CASE ReconcileStarts(r)
      <4> DEFINE c == MarkReconciling(api[r].conditions)
      <4>1. c \in Conditions
        BY <1>2, <2>3, MarkTypes DEF Reasons
      <4>2. rel' = [api[r] EXCEPT !.conditions = c] /\ pc' = "resolve" /\ Active(r)
        BY <1>2, <2>3, <3>6, Zenon DEF ReconcileStarts, Load, Good, ReleaseObjects
      <4> HIDE DEF c
      <4>3. Copies(api[r], c, [api[r] EXCEPT !.conditions = c])
        BY <1>2, <2>3, <4>1, MarkedGood, Zenon
      <4>4. rel'.deleting = api[r].deleting
        BY <4>2, <4>3 DEF Copies
      <4>5. Work(r)' = "applying" /\ Stage(r) = "active"
        BY <2>1, <2>3, <4>2, <4>4 DEF Work, Stage, Active
      <4> QED BY <1>2, <3>1, <4>5, WorkMoves
    <3> QED BY <1>5, <2>3, <3>2, <3>3, <3>4, <3>5, <3>6 DEF Take
  <2> QED BY <2>2, <2>3, Zenon
<1> QED BY <1>4, <1>5, Zenon

\* Resolving, fetching, rendering, and the client.
LEMMA PhaseStep ==
    ASSUME RInv, RInv', NEW r \in Releases,
           \/ resolveReleaseSource \/ fetchReleaseArtifact
           \/ renderReleasePackage \/ RenderFails \/ RenderPanics
           \/ buildReleaseApplyClient
    PROVE  AbstractStep(r)
<1>1. UNCHANGED <<api, live>> /\ pc \in {"resolve", "fetch", "render", "impersonate"}
  BY Zenon DEF resolveReleaseSource, fetchReleaseArtifact, renderReleasePackage, RenderFails,
               RenderPanics, buildReleaseApplyClient, NoEffect, world
<1>2. pc \in {"resolve", "fetch", "render"} => ~rel.deleting
  BY DEF RInv, WorkerOK
<1>3. \A c, result : Commit(c, result) /\ ~rel.deleting => AbstractStep(r)
  BY <1>1, CommitStep
<1>4. CASE resolveReleaseSource
  <2>1. CASE /\ rel' = [rel EXCEPT !.status.source = ArtifactOf(rel.spec.source)]
             /\ pc' = "fetch" /\ cur' = cur
    <3>1. rel'.deleting = rel.deleting
      BY <2>1, Zenon DEF RInv, TypeOK, ReleaseObjects
    <3> QED BY <1>1, <1>4, <2>1, <3>1, GoesOnStep DEF resolveReleaseSource
  <2> QED BY <1>2, <1>3, <1>4, <2>1, Zenon DEF resolveReleaseSource
<1>5. CASE fetchReleaseArtifact
  <2>1. CASE pc' = "render" /\ UNCHANGED <<cur, rel>>
    BY <1>1, <1>5, <2>1, GoesOnStep DEF fetchReleaseArtifact
  <2> QED BY <1>2, <1>3, <1>5, <2>1, Zenon DEF fetchReleaseArtifact
<1>6. CASE renderReleasePackage
  <2>1. CASE pc' \in {"apply", "impersonate"} /\ UNCHANGED <<cur, rel>>
    BY <1>1, <1>6, <2>1, GoesOnStep DEF renderReleasePackage
  <2> QED BY <1>2, <1>3, <1>6, <2>1, Zenon DEF renderReleasePackage
<1>7. CASE RenderFails \/ RenderPanics
  BY <1>2, <1>3, <1>7, Zenon DEF RenderFails, RenderPanics
<1>8. CASE buildReleaseApplyClient
  BY <1>1, <1>8, GoesOnStep DEF buildReleaseApplyClient
<1> QED BY <1>4, <1>5, <1>6, <1>7, <1>8

\* The apply and the prune: an object is put only while applying, removed only
\* while sweeping or cleaning.
LEMMA ObjectStep ==
    ASSUME RInv, NEW r \in Releases,
           (\E x \in todo : ApplyResource(x)) \/ (\E e \in todo : PruneEntry(e))
    PROVE  AbstractStep(r)
<1>1. /\ UNCHANGED <<api, pc, cur, rel>> /\ pc \in {"apply", "prune"} /\ pc # "idle"
      /\ Working
  BY Zenon DEF ApplyResource, PruneEntry, Working
<1>2. r = cur => /\ Work(r)' = Work(r) /\ Stage(r)' = Stage(r) /\ Owned(r)' = Owned(r)
                 /\ Stage(r) \in {"active", "terminating"}
  BY <1>1, StageDepends, StageAtWork DEF Work, Owned
<1>3. ASSUME NEW x \in todo, ApplyResource(x) PROVE AbstractStep(r)
  <2>1. pc = "apply" /\ ~rel.deleting
    BY <1>3 DEF ApplyResource, RInv, WorkerOK
  <2>2. x \in Resources
    <3>1. todo \subseteq Desired /\ Desired # None
      BY <2>1 DEF RInv, PhasesOK
    <3>2. Desired \in SUBSET Resources
      BY <2>1, <3>1, DigestTypes
    <3> QED BY <3>1, <3>2
  <2>3. Applied(x) \in LiveObjects /\ x.id \in Objects
    <3>1. cur \in Releases
      BY <1>1, StageAtWork, Zenon
    <3> QED BY <2>2, <3>1 DEF Applied, LiveObjects, Resources
  <2>4. live' = [live EXCEPT ![x.id] = Applied(x)] /\ live \in [Objects -> {Absent} \cup LiveObjects]
    BY <1>3 DEF ApplyResource, RInv, TypeOK
  <2>5. live'[x.id] = Applied(x) /\ Applied(x) # Absent
    BY <2>3, <2>4, Assumptions
  <2>6. live' = [live EXCEPT ![x.id] = live'[x.id]]
    BY <2>4, <2>5, Zenon
  <2>7. ASSUME r = cur PROVE AbstractStep(r)
    <3>1. Work(r) = "applying"
      BY <1>1, <2>1, <2>7, WorkIs
    <3> QED BY <1>2, <2>3, <2>5, <2>6, <2>7, <3>1 DEF AbstractStep, Owned, L!Next, L!Put
  <2> QED BY <1>1, <2>3, <2>6, <2>7, WorkerStep, Zenon
<1>4. ASSUME NEW e \in todo, PruneEntry(e) PROVE AbstractStep(r)
  <2>1. pc = "prune" /\ e \in EntrySet
    BY <1>4 DEF PruneEntry, RInv, PhasesOK
  <2>2. e.id \in Objects
    BY <2>1, Zenon DEF EntrySet
  <2>3. live' = live \/ live' = [live EXCEPT ![e.id] = Absent]
    BY <1>4, Zenon DEF PruneEntry
  <2>4. live' = live \/ live' = [live EXCEPT ![e.id] = live'[e.id]]
    BY <2>2, <2>3 DEF RInv, TypeOK
  <2>5. ASSUME r = cur PROVE AbstractStep(r)
    <3>1. Work(r) \in {"sweeping", "cleaning"}
      BY <1>1, <2>1, <2>5, WorkIs DEF RInv, TypeOK, ReleaseObjects
    <3>2. CASE live' = live
      BY <1>2, <2>5, <3>2, WorkMoves
    <3>3. CASE live' = [live EXCEPT ![e.id] = Absent]
      BY <1>2, <2>2, <2>5, <3>1, <3>3, Zenon DEF AbstractStep, Owned, L!Next, L!Remove
    <3> QED BY <2>3, <3>2, <3>3, Zenon
  <2> QED BY <1>1, <2>2, <2>4, <2>5, WorkerStep, Zenon
<1> QED BY <1>3, <1>4

\* The ends of the phases, and of a deletion's prune.
LEMMA EndStep ==
    ASSUME RInv, RInv', NEW r \in Releases,
           \/ ImpersonationFails \/ ApplyFails \/ ApplySucceeds
           \/ PruneReturns \/ pruneForDeletion
    PROVE  AbstractStep(r)
<1>1. /\ UNCHANGED <<api, live>> /\ pc \in {"impersonate", "apply", "prune"}
      /\ rel \in ReleaseObjects
  BY Zenon DEF ImpersonationFails, ApplyFails, ApplySucceeds, CommitSuccess, PruneReturns,
               pruneForDeletion, NoEffect, world, RInv, TypeOK
<1>2. pc = "apply" => ~rel.deleting
  BY DEF RInv, WorkerOK
<1>3. \A c, result : Commit(c, result) /\ ~rel.deleting => AbstractStep(r)
  BY <1>1, CommitStep
<1>4. \A o : CommitSuccess(o) /\ ~rel.deleting => AbstractStep(r)
  BY <1>3 DEF CommitSuccess
<1>5. ASSUME NEW reason, StallDeletion(reason) PROVE AbstractStep(r)
  <2> DEFINE c == MarkStalled(rel.conditions, reason)
  <2>1. rel' = [rel EXCEPT !.conditions = c] /\ pc' = "patch" /\ cur' = cur
    BY <1>5 DEF StallDeletion
  <2> HIDE DEF c
  <2>2. rel'.deleting = rel.deleting
    BY <1>1, <2>1, Zenon DEF ReleaseObjects
  <2> QED BY <1>1, <2>1, <2>2, GoesOnStep
<1>6. CASE ImpersonationFails
  <2>1. CASE rel' = [rel EXCEPT !.status.inventory = NoInventory] /\ pc' = "patch" /\ cur' = cur
    <3>1. rel'.deleting = rel.deleting
      BY <1>1, <2>1, Zenon DEF ReleaseObjects
    <3> QED BY <1>1, <2>1, <3>1, GoesOnStep
  <2> QED BY <1>3, <1>5, <1>6, <2>1, Zenon
          DEF ImpersonationFails, handleReleaseDeletionSAMissing
<1>7. CASE ApplyFails
  BY <1>2, <1>3, <1>7, Zenon DEF ApplyFails
<1>8. CASE ApplySucceeds
  <2>1. CASE pc' = "prune" /\ UNCHANGED <<cur, rel>>
    BY <1>1, <1>8, <2>1, GoesOnStep DEF ApplySucceeds
  <2> QED BY <1>2, <1>4, <1>8, <2>1, Zenon DEF ApplySucceeds
<1>9. CASE PruneReturns
  BY <1>3, <1>4, <1>9, Zenon DEF PruneReturns
<1>10. CASE pruneForDeletion
  <2>1. CASE pc' = "removeFinalizer" /\ UNCHANGED <<cur, rel>>
    BY <1>1, <1>10, <2>1, GoesOnStep, Zenon DEF pruneForDeletion
  <2>2. CASE Return(TRUE)
    BY <1>1, <2>2, ReturnStep DEF Return, Forget
  <2> QED BY <1>5, <1>10, <2>1, <2>2, Zenon DEF pruneForDeletion, locals
<1> QED BY <1>6, <1>7, <1>8, <1>9, <1>10

\* The finalizer is registered while no work is done, and removed at the end of
\* a cleanup.
LEMMA FinalizerStep ==
    ASSUME RInv, NEW r \in Releases, addReleaseFinalizer \/ removeReleaseFinalizer
    PROVE  AbstractStep(r)
<1>1. /\ pc # "idle" /\ cur' = None /\ live' = live
      /\ cur \in Releases /\ api \in [Releases -> ReleaseObjects] /\ api[cur] \in ReleaseObjects
  BY DEF addReleaseFinalizer, removeReleaseFinalizer, Return, Forget, world, RInv, WorkerOK,
         TypeOK
<1>2. None \notin Releases
  BY Assumptions
<1>3. Work(r)' = "none"
  BY <1>1, <1>2 DEF Work
<1>4. CASE api' = api
  BY <1>1, <1>4, ReturnStep
<1>5. CASE addReleaseFinalizer /\ api[cur].exists
           /\ api' = [api EXCEPT ![cur] = [api[cur] EXCEPT !.finalizer = TRUE]]
  <2>1. r # cur => api'[r] = api[r]
    BY <1>1, <1>5
  <2>2. ASSUME r = cur PROVE AbstractStep(r)
    <3>1. /\ api'[r].exists = api[r].exists /\ api'[r].deleting = api[r].deleting
          /\ api'[r].status = api[r].status /\ api'[r].finalizer
      BY <1>1, <1>5, <2>2, Zenon DEF ReleaseObjects
    <3>2. Owned(r)' = Owned(r)
      BY <3>1 DEF Owned
    <3>3. Work(r) = "none"
      BY <1>1, <1>5, <2>2, WorkIs, Zenon DEF addReleaseFinalizer
    <3>4. CASE ~api[r].finalizer
      <4>1. ~api[r].deleting
        BY <3>4 DEF RInv, ServerOK
      <4>2. Stage(r) = "fresh" /\ Stage(r)' = "active"
        BY <1>5, <2>2, <3>1, <3>4, <4>1 DEF Stage
      <4> QED BY <1>1, <1>3, <3>2, <3>3, <4>2, Zenon DEF AbstractStep, Owned, L!Next, L!Register
    <3>5. CASE api[r].finalizer
      <4>1. api'[r].finalizer = api[r].finalizer
        BY <1>1, <2>2, <3>1, <3>5, Zenon DEF ReleaseObjects
      <4>2. Stage(r)' = Stage(r)
        BY <3>1, <4>1, StageDepends
      <4> QED BY <1>1, <1>3, <3>2, <4>2, WorkMoves
    <3> QED BY <3>4, <3>5
  <2> QED BY <1>1, <2>1, <2>2, WorkerStep
<1>6. CASE removeReleaseFinalizer /\ api' = [api EXCEPT ![cur] = Gone]
  <2>1. r # cur => api'[r] = api[r]
    BY <1>1, <1>6
  <2>2. ASSUME r = cur PROVE AbstractStep(r)
    <3>1. Working /\ rel.deleting
      BY <1>6 DEF removeReleaseFinalizer, Working, RInv, WorkerOK
    <3>2. Work(r) = "cleaning" /\ Stage(r) = "terminating"
      BY <1>1, <2>2, <3>1, WorkIs, StageAtWork
    <3>3. api'[r] = Gone
      BY <1>1, <1>6, <2>2
    <3>4. Stage(r)' = "gone"
      BY <3>3, GoneGood, Zenon DEF Stage
    <3>5. api'[r].status.inventory.entries = {}
      BY <3>3, GoneGood, NewStatusType
    <3> QED BY <1>1, <1>3, <3>2, <3>4, <3>5, Zenon DEF AbstractStep, L!Next, L!Finish
  <2> QED BY <1>1, <2>1, <2>2, WorkerStep
<1> QED BY <1>4, <1>5, <1>6, Zenon
        DEF addReleaseFinalizer, removeReleaseFinalizer, Write, NoWrite

\* The status patch records the inventory of an apply, or orphans it.
LEMMA PatchStep ==
    ASSUME RInv, NEW r \in Releases, patchReleaseStatus
    PROVE  AbstractStep(r)
<1>1. PICK sent, failed : pc = "patch" /\ Write(cur, Patched(sent)) /\ AfterPatch(failed)
  BY Zenon DEF patchReleaseStatus
<1>2. api' = [api EXCEPT ![cur] = Patched(sent)] /\ live' = live
  BY <1>1, Zenon DEF patchReleaseStatus, Write, world
<1>3. /\ Working /\ cur \in Releases /\ Stage(cur) \in {"active", "terminating"}
      /\ api \in [Releases -> ReleaseObjects] /\ api[cur] \in ReleaseObjects
      /\ rel.deleting \in BOOLEAN /\ api[cur].finalizer
  BY <1>1, StageAtWork DEF Working, RInv, TypeOK, ReleaseObjects
<1>4. \/ pc' = "idle" /\ cur' = None /\ cont # "orphan"
      \/ pc' = "removeFinalizer" /\ UNCHANGED <<cur, rel>> /\ cont = "orphan"
  BY <1>1, Zenon DEF AfterPatch, Return, Forget, locals
<1>5. r # cur => api'[r] = api[r]
  BY <1>2, <1>3, Zenon
<1>6. ASSUME r = cur PROVE AbstractStep(r)
  <2>1. api'[r] = Patched(sent)
    BY <1>2, <1>3, <1>6
  <2>2. /\ Patched(sent).exists = api[r].exists /\ Patched(sent).deleting = api[r].deleting
        /\ Patched(sent).finalizer = api[r].finalizer
    BY <1>3, <1>6, Zenon DEF Patched, ReleaseObjects
  <2>3. Stage(r)' = Stage(r)
    BY <2>1, <2>2, StageDepends, Zenon
  <2>4. Patched(sent).status \in {rel.status, api[r].status}
    BY <1>1, <1>6, PatchedIs, Zenon
  <2>5. Owned(r)' \in {rel.status.inventory.entries, Owned(r)}
    BY <2>1, <2>4 DEF Owned
  <2>6. None \notin Releases
    BY Assumptions
  <2>7. cur' = None => Work(r)' = "none"
    BY <2>6, Zenon DEF Work
  <2>8. CASE rel.status.inventory = api[r].status.inventory /\ cur' = None
    <3>1. Owned(r)' = Owned(r)
      BY <2>5, <2>8 DEF Owned
    <3> QED BY <1>2, <2>3, <2>7, <2>8, <3>1, WorkMoves, Zenon
  <2>9. CASE rel.status.inventory # api[r].status.inventory /\ cur' = None
    <3>1. ~rel.deleting
      BY <1>1, <1>3, <1>4, <1>6, <2>6, <2>9, Zenon DEF RInv, DeletionOK
    <3>2. Work(r) = "recording"
      BY <1>1, <1>6, <2>9, <3>1, WorkIs
    <3> QED BY <1>2, <1>3, <1>6, <2>3, <2>7, <2>9, <3>2, Zenon
            DEF AbstractStep, L!Next, L!Record
  <2>10. CASE pc' = "removeFinalizer" /\ UNCHANGED <<cur, rel>> /\ cont = "orphan"
    <3>1. rel.deleting /\ rel.status.inventory = NoInventory
      BY <1>1, <1>3, <2>10 DEF RInv, RequeueOK, DeletionOK
    <3>2. Work(r) = "cleaning" /\ Work(r)' = "cleaning"
      BY <1>1, <1>6, <2>10, <3>1, Zenon DEF Work
    <3>3. Owned(r)' = {} \/ Owned(r)' = Owned(r)
      BY <2>5, <3>1, NewStatusType, Zenon
    <3>4. CASE Owned(r)' = Owned(r)
      BY <1>2, <2>3, <3>2, <3>4, WorkMoves
    <3>5. CASE Owned(r)' = {}
      BY <1>2, <2>3, <3>2, <3>5, Zenon DEF AbstractStep, Owned, L!Next, L!Orphan
    <3> QED BY <3>3, <3>4, <3>5, Zenon
  <2> QED BY <1>4, <2>8, <2>9, <2>10
<1> QED BY <1>1, <1>2, <1>3, <1>4, <1>5, <1>6, WorkerStep

\* Users create and delete releases, and change neither their finalizers nor
\* what they record.
LEMMA UserStep ==
    ASSUME RInv, NEW r \in Releases, Users
    PROVE  AbstractStep(r)
<1>1. PICK x \in Releases :
        \/ UserDeletes(x) \/ UserAnnotates(x)
        \/ \E spec \in Specs[x] : UserCreates(x, spec) \/ UserEdits(x, spec)
  BY DEF Users
<1>2. /\ UNCHANGED <<pc, cur, rel, live>> /\ api \in [Releases -> ReleaseObjects]
      /\ api[r] \in ReleaseObjects
  BY <1>1, Zenon DEF UserDeletes, UserAnnotates, UserCreates, UserEdits, noWorker, locals, world,
              RInv, TypeOK
<1>3. CASE x # r
  <2>1. api'[r] = api[r]
    BY <1>1, <1>2, <1>3, Zenon DEF UserDeletes, UserAnnotates, UserCreates, UserEdits, Write
  <2>2. Work(r)' = Work(r) /\ Owned(r)' = Owned(r)
    BY <1>2, <2>1, Zenon DEF Work, Owned
  <2> QED BY <1>2, <2>1, <2>2, StageDepends, WorkMoves
<1>4. ASSUME NEW new, api' = [api EXCEPT ![r] = new], new.status = api[r].status,
             new.exists = api[r].exists, new.finalizer = api[r].finalizer,
             \/ new.deleting = api[r].deleting
             \/ api[r].finalizer /\ api[r].exists /\ ~api[r].deleting /\ new.deleting
      PROVE  AbstractStep(r)
  <2>1. api'[r] = new
    BY <1>2, <1>4
  <2>2. Work(r)' = Work(r) /\ Owned(r)' = Owned(r)
    BY <1>2, <1>4, <2>1, Zenon DEF Work, Owned
  <2>3. CASE new.deleting = api[r].deleting
    BY <1>2, <1>4, <2>1, <2>2, <2>3, StageDepends, WorkMoves
  <2>4. CASE api[r].finalizer /\ api[r].exists /\ ~api[r].deleting /\ new.deleting
    <3>1. Stage(r) = "active" /\ Stage(r)' = "terminating"
      BY <1>4, <2>1, <2>4, Zenon DEF Stage
    <3> QED BY <1>2, <2>2, <3>1, Zenon DEF AbstractStep, Owned, L!Next, L!Terminate
  <2> QED BY <1>4, <2>3, <2>4, Zenon
<1>5. ASSUME NEW new, api' = [api EXCEPT ![r] = new], ~api[r].finalizer, ~new.finalizer,
             new.status = NoStatus,
             \/ api[r].exists /\ ~new.exists
             \/ ~api[r].exists /\ new.exists
      PROVE  AbstractStep(r)
  <2>1. api'[r] = new
    BY <1>2, <1>5, Zenon
  <2>2. api[r].status = NoStatus
    BY <1>5 DEF RInv, ServerOK
  <2>3. Owned(r)' = Owned(r)
    BY <1>5, <2>1, <2>2 DEF Owned
  <2>4. Work(r) = "none" /\ Work(r)' = "none"
    <3>1. r = cur => pc = "addFinalizer"
      BY <1>5, Assumptions, Zenon DEF RInv, WorkerOK, Working
    <3> QED BY <1>2, <3>1, Zenon DEF Work
  <2>5. \/ Stage(r) = "fresh" /\ Stage(r)' = "gone"
        \/ Stage(r) = "gone" /\ Stage(r)' = "fresh"
    BY <1>5, <2>1 DEF Stage
  <2> QED BY <1>2, <2>3, <2>4, <2>5, Zenon DEF AbstractStep, Owned, L!Next, L!Terminate, L!Create
<1>6. CASE UserDeletes(r)
  <2> DEFINE new == [api[r] EXCEPT !.deleting = TRUE, !.generation = @ + 1]
  <2>1. /\ new.status = api[r].status /\ new.exists = api[r].exists
        /\ new.finalizer = api[r].finalizer /\ new.deleting
    BY <1>2, Zenon DEF ReleaseObjects
  <2>2. /\ api[r].exists /\ ~api[r].deleting
        /\ api[r].finalizer => api' = [api EXCEPT ![r] = new]
        /\ ~api[r].finalizer => api' = [api EXCEPT ![r] = Gone]
    BY <1>6, Zenon DEF UserDeletes, Write
  <2> HIDE DEF new
  <2>3. CASE api[r].finalizer
    BY <1>4, <2>1, <2>2, <2>3, Zenon
  <2>4. CASE ~api[r].finalizer
    BY <1>5, <2>2, <2>4, GoneGood
  <2> QED BY <2>3, <2>4
<1>7. CASE UserAnnotates(r)
  <2> DEFINE new == [api[r] EXCEPT !.orphan = TRUE]
  <2>1. /\ new.status = api[r].status /\ new.exists = api[r].exists
        /\ new.finalizer = api[r].finalizer /\ new.deleting = api[r].deleting
    BY <1>2, Zenon DEF ReleaseObjects
  <2>2. api' = [api EXCEPT ![r] = new]
    BY <1>7 DEF UserAnnotates, Write
  <2> HIDE DEF new
  <2> QED BY <1>4, <2>1, <2>2, Zenon
<1>8. ASSUME NEW spec \in Specs[r], UserCreates(r, spec) PROVE AbstractStep(r)
  <2>1. spec \in SpecSet
    BY Assumptions, Zenon
  <2>2. /\ Created(spec).exists /\ ~Created(spec).finalizer
        /\ Created(spec).status = NoStatus
    BY <2>1, CreatedGood, Zenon
  <2>3. ~api[r].exists /\ api' = [api EXCEPT ![r] = Created(spec)]
    BY <1>8, Zenon DEF UserCreates, Write
  <2>4. ~api[r].finalizer
    BY <2>3, GoneGood DEF RInv, ServerOK
  <2> QED BY <1>5, <2>2, <2>3, <2>4, Zenon
<1>9. ASSUME NEW spec \in Specs[r], UserEdits(r, spec) PROVE AbstractStep(r)
  <2> DEFINE new == [api[r] EXCEPT !.spec = spec, !.generation = @ + 1]
  <2>1. /\ new.status = api[r].status /\ new.exists = api[r].exists
        /\ new.finalizer = api[r].finalizer /\ new.deleting = api[r].deleting
    BY <1>2, Zenon DEF ReleaseObjects
  <2>2. api' = [api EXCEPT ![r] = new]
    BY <1>9 DEF UserEdits, Write
  <2> HIDE DEF new
  <2> QED BY <1>4, <2>1, <2>2, Zenon
<1> QED BY <1>1, <1>3, <1>6, <1>7, <1>8, <1>9, Zenon

\* The sources, the accounts, the clock and a restart.
LEMMA WorldStep ==
    ASSUME RInv, NEW r \in Releases,
           World \/ \E x \in Releases : TimerFires(x)
    PROVE  AbstractStep(r)
<1>1. CASE Crash
  BY <1>1, ReturnStep DEF Crash, Forget, world
<1>2. CASE UNCHANGED <<api, live, noWorker>>
  BY <1>2, QuietStep DEF noWorker, locals
<1> QED BY <1>1, <1>2, Zenon DEF World, ServiceAccountChanges, SourcePublishes, SourceFails,
           SourceRecovers, TimerFires, world

\* Every step is a step of Lifecycle, or none, for every release.
LEMMA NextBrackets ==
    ASSUME RInv, RInv', Next, NEW r \in Releases
    PROVE  AbstractStep(r)
<1>1. CASE Step
  BY <1>1, PhaseStep, ObjectStep, EndStep, FinalizerStep, PatchStep, Zenon DEF Step
<1>2. CASE \E x \in Releases : Take(x)
  BY <1>2, TakeStep
<1> QED BY <1>1, <1>2, UserStep, WorldStep, Zenon DEF Next

\* ReconcileRelease and handleReleaseDeletion: the finalizer brackets the work of
\* every release.  Objects are put only under it, removed only after everything
\* was put or in a deletion, and the release goes only at the end of a cleanup,
\* for any number of releases that share objects, through faults and restarts.
THEOREM FinalizerBracketsRelease == Spec => FinalizerBrackets
<1>1. RInv /\ RInv' /\ [Next]_vars =>
        [\A r \in Releases : [L(r)!Next]_(L(r)!lifecycle)]_vars
  BY NextBrackets DEF AbstractStep
<1>2. RInv /\ [Next]_vars => RInv'
  BY NextRInv
<1> QED BY <1>1, <1>2, InitBrackets, RInvInvariant, PTL DEF Spec, FinalizerBrackets

-----------------------------------------------------------------------------
(* The steps of the worker, by what they do to the cluster and to the        *)
(* records of what has been applied, when no apply, prune, status patch or   *)
(* render ends half-way and the operator is not restarted.                   *)

\* The faults after which the records and the cluster may disagree.
Halving == {"panic", "apply", "prune", "patch", "crash"}

\* Two copies of a release that record the same.
SameRecord(m, n) ==
    /\ n.spec = m.spec /\ n.deleting = m.deleting
    /\ n.status.lastApplied = m.status.lastApplied
    /\ n.status.inventory = m.status.inventory

\* The worker takes a release, and reports no success yet.
Takes(r) ==
    /\ pc = "idle" /\ cur' = r /\ api[r].exists /\ SameRecord(api[r], rel')
    /\ UNCHANGED <<api, live>>
    /\ \/ pc' = "addFinalizer"
       \/ pc' = "resolve" /\ ~api[r].deleting
       \/ pc' = "patch" /\ ~api[r].deleting /\ rel'.conditions.ready # "True"
       \/ pc' \in {"impersonate", "removeFinalizer"} /\ api[r].deleting
       \/ pc' = "prune" /\ api[r].deleting /\ todo' = api[r].status.inventory.entries

\* A reconcile gets an artifact, downloads it and renders it.
Prepares ==
    /\ UNCHANGED <<api, live, cur>> /\ SameRecord(rel, rel') /\ ~rel.deleting
    /\ \/ /\ pc = "resolve" /\ pc' = "fetch" /\ Resolvable(rel.spec.source)
          /\ artifact' = ArtifactOf(rel.spec.source) /\ rel'.status.source = artifact'
       \/ /\ UNCHANGED <<rel, artifact>>
          /\ \/ pc = "fetch" /\ pc' = "render"
             \/ /\ pc \in {"render", "impersonate"} /\ package' = package
                /\ pc' = "impersonate" \/ (pc' = "apply" /\ todo' = Desired)

\* Everything is applied, and there is something to prune.
Sweeps ==
    /\ pc = "apply" /\ todo = {} /\ pc' = "prune" /\ todo' = StaleSet
    /\ UNCHANGED <<api, live, cur, rel, artifact, package>>

\* A deletion goes on.
Cleans ==
    /\ UNCHANGED <<api, live, cur>> /\ rel.deleting
    /\ pc \in {"impersonate", "prune"}
    /\ rel'.spec = rel.spec /\ rel'.deleting
    /\ rel'.status.lastApplied = rel.status.lastApplied
    /\ rel'.status.inventory \in {rel.status.inventory, NoInventory}
    /\ \/ pc' \in {"patch", "removeFinalizer"}
       \/ pc' = "prune" /\ todo' = rel.status.inventory.entries

\* A reconcile commits a failure or a no-op.
Ends ==
    /\ UNCHANGED <<api, live, cur>> /\ SameRecord(rel, rel')
    /\ pc \in {"resolve", "fetch", "render", "impersonate"} /\ ~rel.deleting /\ pc' = "patch"
    /\ rel'.status.source = rel.status.source
    /\ rel'.conditions.ready = "True" => pc = "render" /\ Desired # None /\ IsNoOpNow

\* A reconcile commits a success.
Records ==
    /\ UNCHANGED <<api, live, cur>> /\ pc \in {"apply", "prune"} /\ ~rel.deleting
    /\ todo = {} /\ pc' = "patch"
    /\ rel'.spec = rel.spec /\ rel'.deleting = rel.deleting
    /\ rel'.status.source = rel.status.source
    /\ rel'.status.lastApplied = DigestSet
    /\ rel'.status.inventory.entries = Entries(Desired)

\* The worker is done with a release: it registers the finalizer, removes it,
\* stores what it has recorded, or gives up.
LetsGo(new) ==
    /\ pc # "idle" /\ UNCHANGED live
    /\ \/ /\ pc' = "idle" /\ cur' = None
          /\ \/ api' = api /\ (pc = "addFinalizer" \/ rel.deleting)
             \/ /\ pc = "addFinalizer" /\ api' = [api EXCEPT ![cur] = new]
                /\ api[cur].exists /\ SameRecord(api[cur], new)
             \/ pc = "removeFinalizer" /\ api' = [api EXCEPT ![cur] = new] /\ new = Gone
       \/ /\ pc = "patch" /\ api' = [api EXCEPT ![cur] = new]
          /\ new.exists = api[cur].exists /\ new.spec = api[cur].spec
          /\ new.deleting = api[cur].deleting /\ new.status = rel.status
          /\ \/ pc' = "idle" /\ cur' = None
             \/ pc' = "removeFinalizer" /\ UNCHANGED <<cur, rel>>

\* A user writes a release.
Edits(r, new) ==
    /\ UNCHANGED <<live, noWorker>> /\ api' = [api EXCEPT ![r] = new]
    /\ \/ new = Gone
       \/ \E spec \in Specs[r] : new = Created(spec)
       \/ /\ api[r].exists /\ new.status = api[r].status
          /\ new.spec \in {api[r].spec} \cup Specs[r]
          /\ api[r].deleting => new.deleting

\* No error of a prune is remembered.
NoErrors == firstErr = "none"

\* Only an error of Prune is remembered.
LEMMA NoPruneErrors ==
    ASSUME "prune" \notin Disturbances
    PROVE  Spec => []NoErrors
<1>1. Init => NoErrors
  BY DEF Init, NoErrors
<1>2. NoErrors /\ [Next]_vars => NoErrors'
  <2> SUFFICES ASSUME firstErr = "none", [Next]_vars PROVE firstErr' = "none"
    BY DEF NoErrors
  <2>1. CASE UNCHANGED vars \/ Users \/ World \/ \E r \in Releases : TimerFires(r)
    BY <2>1, Zenon DEF vars, locals, Users, UserDeletes, UserAnnotates, UserCreates, UserEdits,
       noWorker, World, Crash, Forget, ServiceAccountChanges, SourcePublishes, SourceFails,
       SourceRecovers, TimerFires
  <2>2. CASE \E r \in Releases : Take(r)
    BY <2>2, Zenon DEF Take, ReconcileGone, ReconcileNoFinalizer, handleReleaseDeletion,
       ReconcileSuspended, ReconcileWaits, ReconcileStarts, Load, locals
  <2>3. CASE Step
    <3>1. CASE \E e \in todo : PruneEntry(e)
      BY <3>1, Zenon DEF PruneEntry, Disturb
    <3>2. CASE Step /\ ~\E e \in todo : PruneEntry(e)
      BY <3>2, Zenon DEF Step, addReleaseFinalizer, removeReleaseFinalizer, resolveReleaseSource,
         fetchReleaseArtifact, renderReleasePackage, RenderFails, RenderPanics,
         buildReleaseApplyClient, ImpersonationFails, handleReleaseDeletionSAMissing,
         StallDeletion, ApplyResource, ApplyFails, ApplySucceeds, CommitSuccess, PruneReturns,
         pruneForDeletion, patchReleaseStatus, AfterPatch, Return, Forget, Commit, locals
    <3> QED BY <2>3, <3>1, <3>2
  <2> QED BY <2>1, <2>2, <2>3, Zenon DEF Next
<1> QED BY <1>1, <1>2, PTL DEF Spec

\* What the worker takes from the queue.
LEMMA TakeForm ==
    ASSUME RInv, NEW r \in Releases, Take(r), ~ReconcileGone(r)
    PROVE  Takes(r)
<1>1. Dequeue(r)
  BY Zenon DEF Take, ReconcileGone, ReconcileNoFinalizer, handleReleaseDeletion,
         ReconcileSuspended, ReconcileWaits, ReconcileStarts
<1>2. /\ UNCHANGED <<api, live>> /\ Good(api[r]) /\ Recorded(api[r])
      /\ api[r].conditions \in Conditions /\ pc = "idle"
  BY <1>1, Found
<1>3. CASE ReconcileNoFinalizer(r)
  BY <1>2, <1>3, Zenon DEF ReconcileNoFinalizer, Load, Takes, SameRecord
<1>4. CASE handleReleaseDeletion(r)
  BY <1>2, <1>4, Zenon DEF handleReleaseDeletion, Takes, SameRecord
<1>5. ASSUME NEW c \in Conditions, c.ready # "True", Active(r), pc' \in {"patch", "resolve"},
             cur' = r,
             rel' \in {[api[r] EXCEPT !.conditions = c],
                       [api[r] EXCEPT !.conditions = c,
                                      !.status.observedGeneration = api[r].generation]}
      PROVE  Takes(r)
  <2>1. /\ Copies(api[r], c, [api[r] EXCEPT !.conditions = c])
        /\ Copies(api[r], c, [api[r] EXCEPT !.conditions = c,
                                            !.status.observedGeneration = api[r].generation])
    BY <1>2, MarkedGood, Zenon
  <2>2. Copies(api[r], c, rel')
    BY <1>5, <2>1, Zenon
  <2>3. SameRecord(api[r], rel') /\ rel'.conditions = c
    BY <2>2 DEF Copies, SameRecord
  <2> QED BY <1>2, <1>5, <2>3 DEF Takes, Active
<1>6. CASE ReconcileSuspended(r)
  <2> DEFINE c == MarkSuspended(api[r].conditions)
  <2>1. c \in Conditions /\ c.ready # "True"
    BY <1>2, MarkedNotReady, MarkTypes DEF Reasons
  <2>2. /\ rel' = [api[r] EXCEPT !.conditions = c,
                                 !.status.observedGeneration = api[r].generation]
        /\ cur' = r /\ pc' = "patch" /\ Active(r)
    BY <1>2, <1>6, Zenon DEF ReconcileSuspended, Load, Good, ReleaseObjects
  <2> HIDE DEF c
  <2> QED BY <1>5, <2>1, <2>2, Zenon
<1>7. CASE ReconcileWaits(r)
  <2> DEFINE c == MarkNotReady(api[r].conditions, "DependenciesNotReady")
  <2>1. c \in Conditions /\ c.ready # "True"
    BY <1>2, MarkedNotReady, MarkTypes DEF Reasons
  <2>2. /\ rel' = [api[r] EXCEPT !.conditions = c,
                                 !.status.observedGeneration = api[r].generation]
        /\ cur' = r /\ pc' = "patch" /\ Active(r)
    BY <1>2, <1>7, Zenon DEF ReconcileWaits, Load, Good, ReleaseObjects
  <2> HIDE DEF c
  <2> QED BY <1>5, <2>1, <2>2, Zenon
<1>8. CASE ReconcileStarts(r)
  <2> DEFINE c == MarkReconciling(api[r].conditions)
  <2>1. c \in Conditions /\ c.ready # "True"
    BY <1>2, MarkedNotReady, MarkTypes DEF Reasons
  <2>2. /\ rel' = [api[r] EXCEPT !.conditions = c] /\ cur' = r /\ pc' = "resolve"
        /\ Active(r)
    BY <1>2, <1>8, Zenon DEF ReconcileStarts, Load, Good, ReleaseObjects
  <2> HIDE DEF c
  <2> QED BY <1>5, <2>1, <2>2, Zenon
<1> QED BY <1>3, <1>4, <1>6, <1>7, <1>8, Zenon DEF Take

\* A commit that records no new apply.
LEMMA CommitForm ==
    ASSUME RInv, NEW c, NEW result, Commit(c, result), UNCHANGED <<api, live>>,
           pc \in {"resolve", "fetch", "render", "impersonate"}, ~rel.deleting,
           \/ c.ready # "True" /\ result.outcome \in {"FailedTransient", "FailedStalled"}
           \/ result.outcome = "NoOp" /\ pc = "render" /\ Desired # None /\ IsNoOpNow
    PROVE  Ends
<1> DEFINE ready == IF result.outcome = "NoOp" THEN MarkReady(c) ELSE c
           s == CommitStatus(rel.status, result)
<1>1. rel \in ReleaseObjects /\ rel.status \in Statuses
  BY DEF RInv, TypeOK, ReleaseObjects
<1>2. /\ rel' = [rel EXCEPT !.conditions = ready, !.status = s]
      /\ pc' = "patch" /\ cur' = cur
  BY DEF Commit
<1>3. /\ s.lastApplied = rel.status.lastApplied /\ s.inventory = rel.status.inventory
      /\ s.source = rel.status.source
  BY <1>1 DEF CommitStatus, Statuses
<1>4. ready.ready # "True" \/ (pc = "render" /\ Desired # None /\ IsNoOpNow)
  OBVIOUS
<1> HIDE DEF s, ready
<1>5. /\ rel'.conditions = ready /\ rel'.status = s
      /\ rel'.spec = rel.spec /\ rel'.deleting = rel.deleting
  BY <1>1, <1>2, Zenon DEF ReleaseObjects
<1> QED BY <1>2, <1>3, <1>4, <1>5, Zenon DEF Ends, SameRecord

\* Resolving, fetching and rendering.
LEMMA PhaseForms ==
    ASSUME RInv, "panic" \notin Disturbances,
           \/ resolveReleaseSource \/ fetchReleaseArtifact
           \/ renderReleasePackage \/ RenderFails \/ RenderPanics
    PROVE  Prepares \/ Ends
<1>1. /\ pc \in {"resolve", "fetch", "render"} /\ UNCHANGED <<api, live>>
      /\ rel \in ReleaseObjects /\ rel.conditions \in Conditions /\ rel.status \in Statuses
      /\ ~rel.deleting
  BY Zenon DEF resolveReleaseSource, fetchReleaseArtifact, renderReleasePackage, RenderFails,
         RenderPanics, NoEffect, world, RInv, TypeOK, WorkerOK, ReleaseObjects
<1>2. /\ \A reason, d : Commit(MarkStalled(rel.conditions, reason), Stalls(d)) => Ends
      /\ \A reason, d, t : Commit(MarkNotReady(rel.conditions, reason),
                                  Fails("FailedTransient", t, d)) => Ends
  <2>1. ASSUME NEW c, c.ready # "True", NEW result, Commit(c, result),
               result.outcome \in {"FailedTransient", "FailedStalled"}
        PROVE  Ends
    BY <1>1, <2>1, CommitForm
  <2> QED BY <1>1, <2>1, MarkedNotReady, FailureOutcomes, Zenon
<1>3. CASE resolveReleaseSource
  <2>1. CASE /\ Resolvable(rel.spec.source) /\ artifact' = ArtifactOf(rel.spec.source)
             /\ rel' = [rel EXCEPT !.status.source = ArtifactOf(rel.spec.source)]
             /\ pc' = "fetch" /\ UNCHANGED cur
    <3> DEFINE s == [rel.status EXCEPT !.source = ArtifactOf(rel.spec.source)]
    <3>1. /\ s.lastApplied = rel.status.lastApplied /\ s.inventory = rel.status.inventory
          /\ s.source = ArtifactOf(rel.spec.source)
      BY <1>1 DEF Statuses
    <3>2. rel' = [rel EXCEPT !.status = s]
      BY <1>1, <2>1, Zenon DEF ReleaseObjects
    <3> HIDE DEF s
    <3>3. rel'.spec = rel.spec /\ rel'.deleting = rel.deleting /\ rel'.status = s
      BY <1>1, <3>2, Zenon DEF ReleaseObjects
    <3>4. pc = "resolve"
      BY <1>3 DEF resolveReleaseSource
    <3> QED BY <1>1, <2>1, <3>1, <3>3, <3>4 DEF Prepares, SameRecord
  <2> QED BY <1>2, <1>3, <2>1, Zenon DEF resolveReleaseSource
<1>4. CASE fetchReleaseArtifact
  <2>1. CASE pc' = "render" /\ UNCHANGED <<cur, rel, artifact>>
    <3>1. pc = "fetch"
      BY <1>4 DEF fetchReleaseArtifact
    <3> QED BY <1>1, <2>1, <3>1, Zenon DEF Prepares, SameRecord
  <2> QED BY <1>2, <1>4, <2>1, Zenon DEF fetchReleaseArtifact
<1>5. CASE renderReleasePackage
  <2>1. CASE IsNoOpNow /\ Commit(rel.conditions, NoOpResult)
    <3>1. pc = "render" /\ Desired # None /\ NoOpResult.outcome = "NoOp"
      BY <1>5, Zenon DEF renderReleasePackage, NoOpResult
    <3> QED BY <1>1, <2>1, <3>1, CommitForm, Zenon
  <2>2. CASE ~IsNoOpNow
    BY <1>1, <1>5, <2>2 DEF renderReleasePackage, Prepares, SameRecord
  <2> QED BY <1>5, <2>1, <2>2, Zenon DEF renderReleasePackage
<1>6. CASE RenderFails
  BY <1>2, <1>6, Zenon DEF RenderFails
<1>7. CASE RenderPanics
  BY <1>7 DEF RenderPanics, Disturb
<1> QED BY <1>3, <1>4, <1>5, <1>6, <1>7, Zenon

\* A success.
LEMMA RecordForm ==
    ASSUME RInv, pc \in {"apply", "prune"}, ~rel.deleting, todo = {},
           NEW o \in {"Applied", "AppliedAndPruned"}, CommitSuccess(o)
    PROVE  Records
<1> DEFINE c == MarkReady(ClearDrifted(rel.conditions))
           result == Succeeds(o)
           s == CommitStatus(rel.status, result)
<1>1. rel \in ReleaseObjects /\ rel.status \in Statuses
  BY Zenon DEF RInv, TypeOK, ReleaseObjects
<1>2. result.outcome = o /\ result.digests = DigestSet
  BY DEF Succeeds
<1>3. /\ rel' = [rel EXCEPT !.conditions = c, !.status = s]
      /\ pc' = "patch" /\ cur' = cur /\ UNCHANGED <<api, live>>
  BY <1>2, Zenon DEF CommitSuccess, Commit, world
<1> HIDE DEF result
<1>4. /\ s.lastApplied = DigestSet /\ s.source = rel.status.source
      /\ s.inventory.entries = Entries(Desired)
  BY <1>1, <1>2 DEF CommitStatus, Statuses
<1> HIDE DEF s, c
<1>5. rel'.status = s /\ rel'.spec = rel.spec /\ rel'.deleting = rel.deleting
  BY <1>1, <1>3, Zenon DEF ReleaseObjects
<1> QED BY <1>3, <1>4, <1>5, Zenon DEF Records

\* The client, the apply and the prune.
LEMMA WorkForms ==
    ASSUME RInv, NoErrors, {"apply", "prune"} \cap Disturbances = {},
           \/ buildReleaseApplyClient \/ ImpersonationFails
           \/ ApplyFails \/ ApplySucceeds \/ PruneReturns \/ pruneForDeletion
    PROVE  Prepares \/ Sweeps \/ Cleans \/ Ends \/ Records
<1>1. /\ pc \in {"impersonate", "apply", "prune"} /\ UNCHANGED <<api, live>>
      /\ rel \in ReleaseObjects /\ rel.conditions \in Conditions /\ rel.status \in Statuses
      /\ pc = "apply" => ~rel.deleting
      /\ rel.deleting \in BOOLEAN
  BY Zenon DEF buildReleaseApplyClient, ImpersonationFails, ApplyFails,
         ApplySucceeds, CommitSuccess, PruneReturns, pruneForDeletion, NoEffect, world,
         RInv, TypeOK, WorkerOK, ReleaseObjects
<1>2. ASSUME NEW reason, StallDeletion(reason), rel.deleting, pc # "apply" PROVE Cleans
  <2> DEFINE c == MarkStalled(rel.conditions, reason)
  <2>1. rel' = [rel EXCEPT !.conditions = c] /\ pc' = "patch" /\ cur' = cur
    BY <1>2 DEF StallDeletion
  <2> HIDE DEF c
  <2>2. rel'.spec = rel.spec /\ rel'.deleting = rel.deleting /\ rel'.status = rel.status
    BY <1>1, <2>1, Zenon DEF ReleaseObjects
  <2> QED BY <1>1, <1>2, <2>1, <2>2 DEF Cleans
<1>3. CASE buildReleaseApplyClient
  BY <1>1, <1>3 DEF buildReleaseApplyClient, Prepares, Cleans, SameRecord
<1>4. CASE ImpersonationFails
  <2>1. pc = "impersonate"
    BY <1>4 DEF ImpersonationFails
  <2>2. CASE /\ rel' = [rel EXCEPT !.status.inventory = NoInventory] /\ pc' = "patch"
             /\ UNCHANGED cur /\ rel.deleting
    <3> DEFINE s == [rel.status EXCEPT !.inventory = NoInventory]
    <3>1. s.lastApplied = rel.status.lastApplied /\ s.inventory = NoInventory
      BY <1>1 DEF Statuses
    <3>2. rel' = [rel EXCEPT !.status = s]
      BY <1>1, <2>2, Zenon DEF ReleaseObjects
    <3> HIDE DEF s
    <3>3. rel'.spec = rel.spec /\ rel'.deleting = rel.deleting /\ rel'.status = s
      BY <1>1, <3>2, Zenon DEF ReleaseObjects
    <3> QED BY <1>1, <2>1, <2>2, <3>1, <3>3 DEF Cleans
  <2>3. CASE /\ ~rel.deleting
             /\ Commit(MarkStalled(rel.conditions, "ImpersonationFailed"), Stalls(DigestSet))
    <3>1. /\ MarkStalled(rel.conditions, "ImpersonationFailed").ready # "True"
          /\ Stalls(DigestSet).outcome = "FailedStalled"
      BY <1>1, MarkedNotReady, FailureOutcomes, Zenon
    <3> QED BY <1>1, <2>1, <2>3, <3>1, CommitForm, Zenon
  <2> QED BY <1>2, <1>4, <2>1, <2>2, <2>3, Zenon
          DEF ImpersonationFails, handleReleaseDeletionSAMissing
<1>5. CASE ApplyFails
  BY <1>5 DEF ApplyFails, Disturb
<1>6. CASE ApplySucceeds
  <2>1. pc = "apply" /\ todo = {}
    BY <1>6, Zenon DEF ApplySucceeds
  <2>2. CASE CommitSuccess("Applied")
    BY <1>1, <2>1, <2>2, RecordForm, Zenon
  <2>3. CASE ~CommitSuccess("Applied")
    BY <1>1, <1>6, <2>1, <2>3 DEF ApplySucceeds, Sweeps
  <2> QED BY <2>2, <2>3, Zenon
<1>7. CASE PruneReturns
  <2>1. pc = "prune" /\ todo = {} /\ ~rel.deleting /\ CommitSuccess("AppliedAndPruned")
    BY <1>7, Zenon DEF PruneReturns, NoErrors
  <2> QED BY <2>1, RecordForm, Zenon
<1>8. CASE pruneForDeletion
  <2>1. pc = "prune" /\ rel.deleting
    BY <1>8 DEF pruneForDeletion
  <2>2. pc' = "removeFinalizer" /\ UNCHANGED locals
    BY <1>8, Zenon DEF pruneForDeletion, NoErrors
  <2> QED BY <1>1, <2>1, <2>2, Zenon DEF Cleans, locals
<1> QED BY <1>3, <1>4, <1>5, <1>6, <1>7, <1>8

\* The worker's writes.
LEMMA WriteForms ==
    ASSUME RInv, NoErrors, "patch" \notin Disturbances,
           addReleaseFinalizer \/ removeReleaseFinalizer \/ patchReleaseStatus
    PROVE  \E new : LetsGo(new)
<1>1. /\ pc # "idle" /\ cur \in Releases /\ api[cur] \in ReleaseObjects
  BY Zenon DEF addReleaseFinalizer, removeReleaseFinalizer, patchReleaseStatus, RInv, WorkerOK, TypeOK
<1>2. CASE addReleaseFinalizer
  <2>1. /\ pc = "addFinalizer" /\ pc' = "idle" /\ cur' = None /\ live' = live
    BY <1>2, Zenon DEF addReleaseFinalizer, Return, Forget, world
  <2>2. CASE api' = api
    BY <2>1, <2>2 DEF LetsGo
  <2>3. CASE /\ api[cur].exists
             /\ api' = [api EXCEPT ![cur] = [api[cur] EXCEPT !.finalizer = TRUE]]
    <3> DEFINE new == [api[cur] EXCEPT !.finalizer = TRUE]
    <3>1. SameRecord(api[cur], new)
      BY <1>1, Zenon DEF ReleaseObjects, SameRecord
    <3> HIDE DEF new
    <3>2. api' = [api EXCEPT ![cur] = new]
      BY <2>3 DEF new
    <3>3. LetsGo(new)
      BY <2>1, <2>3, <3>1, <3>2, Zenon DEF LetsGo
    <3> QED BY <3>3
  <2> QED BY <1>2, <2>2, <2>3, Zenon DEF addReleaseFinalizer, Write, NoWrite
<1>3. CASE removeReleaseFinalizer
  <2>1. /\ pc = "removeFinalizer" /\ pc' = "idle" /\ cur' = None /\ live' = live
        /\ rel.deleting
    BY <1>3 DEF removeReleaseFinalizer, Return, Forget, world, RInv, WorkerOK
  <2>2. api' = api \/ api' = [api EXCEPT ![cur] = Gone]
    BY <1>3, Zenon DEF removeReleaseFinalizer, Write, NoWrite
  <2>3. LetsGo(Gone)
    BY <2>1, <2>2 DEF LetsGo
  <2> QED BY <2>3, Zenon
<1>4. CASE patchReleaseStatus
  <2> DEFINE sent == {"conditions", "status"}
             new == Patched(sent)
  <2>1. pc = "patch" /\ Write(cur, Patched(sent)) /\ AfterPatch(FALSE) /\ live' = live
    BY <1>4, Zenon DEF patchReleaseStatus, Disturb, world
  <2>2. /\ new.exists = api[cur].exists /\ new.spec = api[cur].spec
        /\ new.deleting = api[cur].deleting /\ new.status = rel.status
    BY <2>1, PatchedIs
  <2>3. api' = [api EXCEPT ![cur] = new]
    BY <2>1 DEF Write
  <2>4. \/ pc' = "idle" /\ cur' = None
        \/ pc' = "removeFinalizer" /\ UNCHANGED <<cur, rel>>
    BY <2>1, Zenon DEF AfterPatch, Return, Forget, locals
  <2> HIDE DEF new
  <2>5. LetsGo(new)
    BY <2>1, <2>2, <2>3, <2>4 DEF LetsGo
  <2> QED BY <2>5
<1> QED BY <1>2, <1>3, <1>4, Zenon

\* What users write.
LEMMA EditForms ==
    ASSUME RInv, Users
    PROVE  \E r \in Releases : \E new : Edits(r, new)
<1>1. PICK r \in Releases :
        \/ UserDeletes(r) \/ UserAnnotates(r)
        \/ \E spec \in Specs[r] : UserCreates(r, spec) \/ UserEdits(r, spec)
  BY Zenon DEF Users
<1>2. api[r] \in ReleaseObjects
  BY DEF RInv, TypeOK
<1>3. UNCHANGED <<live, noWorker>>
  BY <1>1, Zenon DEF UserDeletes, UserAnnotates, UserCreates, UserEdits, world
<1>4. CASE UserDeletes(r)
  <2> DEFINE new == [api[r] EXCEPT !.deleting = TRUE, !.generation = @ + 1]
  <2>1. new.deleting /\ new.spec = api[r].spec /\ new.status = api[r].status
    BY <1>2, Zenon DEF ReleaseObjects
  <2>2. /\ api[r].exists
        /\ api' = [api EXCEPT ![r] = new] \/ api' = [api EXCEPT ![r] = Gone]
    BY <1>4, Zenon DEF UserDeletes, Write
  <2> HIDE DEF new
  <2>3. Edits(r, new) \/ Edits(r, Gone)
    BY <1>3, <2>1, <2>2 DEF Edits
  <2> QED BY <2>3
<1>5. CASE UserAnnotates(r)
  <2> DEFINE new == [api[r] EXCEPT !.orphan = TRUE]
  <2>1. /\ new.deleting = api[r].deleting /\ new.spec = api[r].spec
        /\ new.status = api[r].status
    BY <1>2, Zenon DEF ReleaseObjects
  <2>2. api' = [api EXCEPT ![r] = new] /\ api[r].deleting
    BY <1>5, Zenon DEF UserAnnotates, Write
  <2> HIDE DEF new
  <2>3. api[r].exists
    BY <2>2, GoneGood, Zenon DEF RInv, ServerOK
  <2>4. Edits(r, new)
    BY <1>3, <2>1, <2>2, <2>3, Zenon DEF Edits
  <2> QED BY <2>4
<1>6. ASSUME NEW spec \in Specs[r], UserCreates(r, spec) PROVE Edits(r, Created(spec))
  BY <1>3, <1>6, Zenon DEF UserCreates, Write, Edits
<1>7. ASSUME NEW spec \in Specs[r], UserEdits(r, spec)
      PROVE  \E new : Edits(r, new)
  <2> DEFINE new == [api[r] EXCEPT !.spec = spec, !.generation = @ + 1]
  <2>1. new.deleting = api[r].deleting /\ new.spec = spec /\ new.status = api[r].status
    BY <1>2, Zenon DEF ReleaseObjects
  <2>2. api' = [api EXCEPT ![r] = new] /\ api[r].exists
    BY <1>7, Zenon DEF UserEdits, Write
  <2> HIDE DEF new
  <2>3. Edits(r, new)
    BY <1>3, <2>1, <2>2 DEF Edits
  <2> QED BY <2>3
<1> QED BY <1>1, <1>4, <1>5, <1>6, <1>7, Zenon

\* Every step has one of these forms, or does not matter here.
LEMMA ReleaseForms ==
    ASSUME RInv, NoErrors, Disturbances \cap Halving = {}, [Next]_vars
    PROVE  \/ UNCHANGED <<api, live, noWorker>>
           \/ \E r \in Releases : Takes(r)
           \/ Prepares \/ Sweeps \/ Cleans \/ Ends \/ Records
           \/ (\E x \in todo : ApplyResource(x))
           \/ (\E e \in todo : PruneEntry(e))
           \/ (\E new : LetsGo(new))
           \/ (\E r \in Releases : \E new : Edits(r, new))
<1>1. /\ {"apply", "prune"} \cap Disturbances = {}
      /\ "panic" \notin Disturbances /\ "patch" \notin Disturbances /\ "crash" \notin Disturbances
  BY DEF Halving
<1>2. CASE Step
  BY <1>1, <1>2, PhaseForms, WorkForms, WriteForms, Zenon DEF Step
<1>3. CASE \E r \in Releases : Take(r)
  <2>1. PICK r \in Releases : Take(r)
    BY <1>3
  <2>2. CASE ReconcileGone(r)
    BY <2>1, <2>2, Zenon DEF ReconcileGone, Dequeue, noWorker, world
  <2> QED BY <2>1, <2>2, TakeForm
<1>4. CASE UNCHANGED vars \/ World \/ \E r \in Releases : TimerFires(r)
  BY <1>1, <1>4, Zenon DEF World, Crash, Disturb, ServiceAccountChanges, SourcePublishes,
     SourceFails, SourceRecovers, TimerFires, vars, noWorker, world
<1> QED BY <1>2, <1>3, <1>4, EditForms, Zenon DEF Next

-----------------------------------------------------------------------------
(* Whose objects are whose. *)

\* What a spec may ever be rendered to.
Shipped(spec) ==
    {Render[<<Publications[spec.source][i], spec.path>>] : i \in DOMAIN Publications[spec.source]}
    \ {None}

Owns(r, o) == \E spec \in Specs[r] : \E d \in Shipped(spec) : \E x \in d : x.id = o

\* No object is in the renders of two releases.
NoSharing == \A r, s \in Releases : \A o \in Objects : Owns(r, o) /\ Owns(s, o) => r = s

\* No object is twice in one render.
UniqueIds ==
    \A k \in DOMAIN Render :
        Render[k] # None => \A x, y \in Render[k] : x.id = y.id => x = y

\* A status records objects of r only.
RecordsOwn(status, r) ==
    /\ \A e \in status.inventory.entries : Owns(r, e.id)
    /\ status.lastApplied.source # None =>
          \A x \in status.lastApplied.render : Owns(r, x.id)

\* Every release records, and the worker applies and prunes, objects of its own.
TerritoryInv ==
    /\ \A r \in Releases :
          (api[r].exists => api[r].spec \in Specs[r]) /\ RecordsOwn(api[r].status, r)
    /\ pc # "idle" => rel.spec \in Specs[cur] /\ RecordsOwn(rel.status, cur)
    /\ pc \in {"fetch", "render", "impersonate", "apply", "prune"} /\ ~rel.deleting =>
          /\ rel.status.source = artifact
          /\ \E i \in DOMAIN Publications[rel.spec.source] :
                artifact = Publications[rel.spec.source][i]
    /\ pc = "prune" =>
          \A e \in todo :
             /\ Owns(cur, e.id)
             /\ ~rel.deleting => \A x \in Desired : e.id # x.id

\* The render at hand is one of the release at hand.
LEMMA DesiredOwned ==
    ASSUME RInv, TerritoryInv, pc \in {"apply", "prune"}, ~rel.deleting
    PROVE  /\ \A x \in Desired : Owns(cur, x.id) /\ x.id \in Objects /\ x \in Resources
           /\ cur \in Releases /\ package = artifact /\ artifact \in Artifacts
           /\ rel.status.source = artifact /\ Desired # None
           /\ \A e \in Entries(Desired) : Owns(cur, e.id)
<1>1. /\ package = artifact /\ artifact \in Artifacts /\ Desired # None
      /\ cur \in Releases /\ rel.exists
  BY Zenon DEF RInv, PhasesOK, WorkerOK, TypeOK
<1>2. /\ rel.status.source = artifact /\ rel.spec \in Specs[cur]
      /\ \E i \in DOMAIN Publications[rel.spec.source] :
            artifact = Publications[rel.spec.source][i]
  BY Zenon DEF TerritoryInv
<1>3. Desired \in Shipped(rel.spec)
  BY <1>1, <1>2, Zenon DEF Desired, Shipped
<1>4. \A x \in Desired : Owns(cur, x.id)
  BY <1>2, <1>3, Zenon DEF Owns
<1>5. rel.spec \in SpecSet
  BY <1>1, Zenon DEF RInv, WorkerOK, Good
<1>6. Desired \in SUBSET Resources
  BY <1>1, <1>5, DesiredType
<1>7. \A x \in Desired : x \in Resources /\ x.id \in Objects
  BY <1>6, Zenon DEF Resources
<1>8. \A e \in Entries(Desired) : Owns(cur, e.id)
  BY <1>4 DEF Entries, NewEntryFromResource
<1> QED BY <1>1, <1>2, <1>4, <1>7, <1>8, Zenon

\* At first nothing is recorded.
LEMMA InitTerritory == Init => TerritoryInv
<1> SUFFICES ASSUME Init PROVE TerritoryInv
  OBVIOUS
<1>1. ASSUME NEW r \in Releases
      PROVE  (api[r].exists => api[r].spec \in Specs[r]) /\ RecordsOwn(api[r].status, r)
  <2>1. api[r] = Gone \/ \E spec \in SpecSet : api[r] = Created(spec)
    BY DEF Init
  <2>2. api[r].status = NoStatus
    BY <2>1, GoneGood, CreatedGood, Zenon
  <2> QED BY <2>2, NewStatusType, Zenon DEF Init, RecordsOwn
<1> QED BY <1>1, Zenon DEF Init, TerritoryInv

\* What is recorded is a matter of two fields of the status.
LEMMA OwnDepends ==
    ASSUME NEW s, NEW t, NEW r, RecordsOwn(s, r), t.lastApplied = s.lastApplied,
           t.inventory.entries \subseteq s.inventory.entries
    PROVE  RecordsOwn(t, r)
BY Zenon DEF RecordsOwn

\* TerritoryInv is inductive.
LEMMA NextTerritory ==
    ASSUME RInv, NoErrors, TerritoryInv, Disturbances \cap Halving = {}, [Next]_vars
    PROVE  TerritoryInv'
<1> DEFINE Server ==
             \A r \in Releases :
                (api[r].exists => api[r].spec \in Specs[r]) /\ RecordsOwn(api[r].status, r)
           Worker == rel.spec \in Specs[cur] /\ RecordsOwn(rel.status, cur)
<1>1. /\ Server /\ (pc # "idle" => Worker)
      /\ api \in [Releases -> ReleaseObjects] /\ rel.deleting \in BOOLEAN
      /\ pc # "idle" => cur \in Releases /\ rel.spec \in SpecSet
  BY Zenon DEF TerritoryInv, RInv, TypeOK, WorkerOK, Good, ReleaseObjects
<1>2. CASE UNCHANGED <<api, live, noWorker>>
  BY <1>2, Zenon DEF TerritoryInv, noWorker, locals, Desired
<1>3. ASSUME UNCHANGED api, pc # "idle", cur' = cur, rel'.spec = rel.spec,
             RecordsOwn(rel'.status, cur),
             pc' \notin {"fetch", "render", "impersonate", "apply", "prune"}
      PROVE  TerritoryInv'
  BY <1>1, <1>3, Zenon DEF TerritoryInv
<1>4. CASE \E r \in Releases : Takes(r)
  <2>1. PICK r \in Releases : Takes(r)
    BY <1>4
  <2>2. /\ UNCHANGED api /\ cur' = r /\ SameRecord(api[r], rel')
        /\ api[r].spec \in Specs[r] /\ RecordsOwn(api[r].status, r)
        /\ api[r].deleting \in BOOLEAN
    BY <1>1, <2>1, Zenon DEF Takes, ReleaseObjects
  <2>3. rel'.spec \in Specs[cur'] /\ RecordsOwn(rel'.status, cur')
    BY <2>2, OwnDepends DEF SameRecord
  <2>4. pc' \in {"fetch", "render", "impersonate", "apply", "prune"} => rel'.deleting
    BY <2>1, <2>2, Zenon DEF Takes, SameRecord
  <2>5. pc' = "prune" => \A e \in todo' : Owns(cur', e.id)
    BY <2>1, <2>2 DEF Takes, RecordsOwn
  <2> QED BY <1>1, <2>2, <2>3, <2>4, <2>5, Zenon DEF TerritoryInv
<1>5. CASE Prepares
  <2>1. /\ UNCHANGED <<api, cur>> /\ pc # "idle" /\ rel'.spec = rel.spec
        /\ rel'.deleting = rel.deleting /\ SameRecord(rel, rel')
        /\ pc' # "idle" /\ pc' # "prune"
    BY <1>5, Zenon DEF Prepares, SameRecord
  <2>2. RecordsOwn(rel'.status, cur)
    BY <1>1, <2>1, OwnDepends, Zenon DEF SameRecord
  <2>3. /\ rel'.status.source = artifact'
        /\ \E i \in DOMAIN Publications[rel.spec.source] :
              artifact' = Publications[rel.spec.source][i]
    <3>1. CASE UNCHANGED <<rel, artifact>> /\ pc \in {"fetch", "render", "impersonate"}
      BY <1>5, <3>1 DEF TerritoryInv, Prepares
    <3>2. CASE /\ Resolvable(rel.spec.source) /\ artifact' = ArtifactOf(rel.spec.source)
               /\ rel'.status.source = artifact'
      <4> DEFINE s == rel.spec.source
      <4>1. s \in Sources /\ Publications[s] \in Seq(Artifacts)
        BY <1>1, <2>1, Assumptions, Zenon DEF SpecSet
      <4>2. sources[s].published \in Nat /\ sources[s].published <= Len(Publications[s])
        BY <4>1, Zenon DEF RInv, TypeOK, ServerOK
      <4>3. sources[s].published # 0 /\ artifact' = Publications[s][sources[s].published]
        BY <3>2, Zenon DEF Resolvable, ArtifactOf
      <4>4. sources[s].published \in DOMAIN Publications[s]
        BY <4>1, <4>2, <4>3
      <4> QED BY <3>2, <4>3, <4>4, Zenon
    <3> QED BY <1>5, <3>1, <3>2, Zenon DEF Prepares
  <2> QED BY <1>1, <2>1, <2>2, <2>3, Zenon DEF TerritoryInv
<1>6. CASE Sweeps
  <2>1. /\ UNCHANGED <<api, cur, rel, artifact, package>> /\ pc = "apply" /\ pc' = "prune"
        /\ todo' = StaleSet
    BY <1>6 DEF Sweeps
  <2>2. Desired' = Desired
    BY <2>1, Zenon DEF Desired
  <2>3. \A e \in StaleSet : Owns(cur, e.id)
    BY <1>1, <2>1, Zenon DEF StaleSet, ComputeStaleSet, RecordsOwn
  <2>4. \A e \in StaleSet : \A x \in Desired : e.id # x.id
    <3> SUFFICES ASSUME NEW e \in StaleSet, NEW x \in Desired PROVE e.id # x.id
      OBVIOUS
    <3>1. NewEntryFromResource(x) \in Entries(Desired) /\ NewEntryFromResource(x).id = x.id
      BY DEF Entries, NewEntryFromResource
    <3> QED BY <3>1, Zenon DEF StaleSet, ComputeStaleSet, K8sIdentityEqual
  <2> QED BY <1>1, <2>1, <2>2, <2>3, <2>4, Zenon DEF TerritoryInv
<1>7. CASE Cleans
  <2>1. /\ UNCHANGED <<api, cur>> /\ pc # "idle" /\ rel'.spec = rel.spec /\ rel'.deleting
        /\ rel'.status.lastApplied = rel.status.lastApplied
        /\ rel'.status.inventory \in {rel.status.inventory, NoInventory}
        /\ \/ pc' \in {"patch", "removeFinalizer"}
           \/ pc' = "prune" /\ todo' = rel.status.inventory.entries
    BY <1>7, Zenon DEF Cleans
  <2>2. RecordsOwn(rel'.status, cur)
    BY <1>1, <2>1, OwnDepends, SMTT(30) DEF NoInventory
  <2>3. \A e \in rel.status.inventory.entries : Owns(cur, e.id)
    BY <1>1, <2>1, Zenon DEF RecordsOwn
  <2> QED BY <1>1, <2>1, <2>2, <2>3, Zenon DEF TerritoryInv
<1>8. CASE Ends
  <2>1. /\ UNCHANGED <<api, cur>> /\ pc # "idle" /\ SameRecord(rel, rel') /\ pc' = "patch"
    BY <1>8, Zenon DEF Ends
  <2>2. rel'.spec = rel.spec /\ RecordsOwn(rel'.status, cur)
    BY <1>1, <2>1, OwnDepends, Zenon DEF SameRecord
  <2> QED BY <1>3, <2>1, <2>2, Zenon
<1>9. CASE Records
  <2>1. /\ UNCHANGED <<api, cur>> /\ pc \in {"apply", "prune"} /\ ~rel.deleting /\ pc' = "patch"
        /\ rel'.spec = rel.spec /\ rel'.status.lastApplied = DigestSet
        /\ rel'.status.inventory.entries = Entries(Desired)
    BY <1>9, Zenon DEF Records
  <2>2. DigestSet.render = Desired
    BY DEF DigestSet
  <2>3. /\ \A x \in Desired : Owns(cur, x.id)
        /\ \A e \in Entries(Desired) : Owns(cur, e.id)
    BY <2>1, DesiredOwned, Zenon
  <2>4. RecordsOwn(rel'.status, cur)
    BY <2>1, <2>2, <2>3, Zenon DEF RecordsOwn
  <2>5. pc # "idle" /\ pc' \notin {"fetch", "render", "impersonate", "apply", "prune"}
    BY <2>1, Zenon
  <2> QED BY <1>3, <2>1, <2>4, <2>5, Zenon
<1>10. CASE \/ \E x \in todo : ApplyResource(x)
            \/ \E e \in todo : PruneEntry(e)
  <2>1. /\ UNCHANGED <<api, cur, rel, artifact, package, pc>> /\ todo' \subseteq todo
    BY <1>10, Zenon DEF ApplyResource, PruneEntry
  <2>2. Desired' = Desired
    BY <2>1 DEF Desired
  <2> QED BY <2>1, <2>2, Zenon DEF TerritoryInv
<1>11. CASE \E new : LetsGo(new)
  <2>1. PICK new : LetsGo(new)
    BY <1>11
  <2>2. /\ pc # "idle"
        /\ \/ api' = api
           \/ /\ api' = [api EXCEPT ![cur] = new]
              /\ new.exists => api[cur].exists /\ new.spec = api[cur].spec
              /\ new = Gone \/ SameRecord(api[cur], new) \/ new.status = rel.status
        /\ \/ pc' = "idle"
           \/ pc' = "removeFinalizer" /\ UNCHANGED <<cur, rel>>
    BY <2>1, GoneGood, Zenon DEF LetsGo, SameRecord, RInv, WorkerOK
  <2>3. RecordsOwn(NoStatus, cur)
    BY NewStatusType DEF RecordsOwn
  <2>4. new = Gone \/ SameRecord(api[cur], new) \/ new.status = rel.status =>
          RecordsOwn(new.status, cur)
    BY <1>1, <2>2, <2>3, GoneGood, OwnDepends, Zenon DEF SameRecord
  <2>5. Server'
    BY <1>1, <2>2, <2>4, Zenon
  <2> QED BY <1>1, <2>2, <2>5, Zenon DEF TerritoryInv
<1>12. CASE \E r \in Releases : \E new : Edits(r, new)
  <2>1. PICK r \in Releases : \E new : Edits(r, new)
    BY <1>12
  <2>2. PICK new : Edits(r, new)
    BY <2>1
  <2>3. /\ UNCHANGED noWorker /\ api' = [api EXCEPT ![r] = new]
        /\ \/ new = Gone
           \/ \E spec \in Specs[r] : new = Created(spec)
           \/ /\ api[r].exists /\ new.status = api[r].status
              /\ new.spec \in {api[r].spec} \cup Specs[r]
    BY <2>2, Zenon DEF Edits
  <2>4. RecordsOwn(NoStatus, r)
    BY NewStatusType, Zenon DEF RecordsOwn
  <2>5. (new.exists => new.spec \in Specs[r]) /\ RecordsOwn(new.status, r)
    <3>1. \A spec \in Specs[r] : spec \in SpecSet
      BY Assumptions, Zenon
    <3>2. CASE new = Gone
      BY <2>4, <3>2, GoneGood, Zenon
    <3>3. CASE \E spec \in Specs[r] : new = Created(spec)
      BY <2>4, <3>1, <3>3, CreatedGood, Zenon
    <3>4. CASE /\ api[r].exists /\ new.status = api[r].status
               /\ new.spec \in {api[r].spec} \cup Specs[r]
      BY <1>1, <3>4, Zenon
    <3> QED BY <2>3, <3>2, <3>3, <3>4, Zenon
  <2>6. Server'
    BY <1>1, <2>3, <2>5, Zenon
  <2> QED BY <2>3, <2>6, Zenon DEF TerritoryInv, noWorker, locals, Desired
<1> QED BY <1>2, <1>4, <1>5, <1>6, <1>7, <1>8, <1>9, <1>10, <1>11, <1>12, ReleaseForms

-----------------------------------------------------------------------------
(* What the records say about the cluster. *)

\* The resource x is in the cluster l as rendered.
ShownIn(l, x) ==
    /\ l[x.id] # Absent
    /\ l[x.id].component = x.component
    /\ l[x.id].content = x.content

HoldsIn(l, d) == \A x \in d : ShownIn(l, x)

MatchesIn(l, status) ==
    status.lastApplied.source # None => HoldsIn(l, status.lastApplied.render)

\* The worker has not touched the cluster yet in this reconcile, or is done.
StillPcs == {"resolve", "fetch", "render", "impersonate", "patch"}

\* What a release that is not being deleted records is there, unless the worker
\* is applying it; what the worker has applied and not pruned is there.
LiveInv ==
    /\ \A r \in Releases :
          ~api[r].deleting /\ (r = cur => pc = "addFinalizer") =>
             MatchesIn(live, api[r].status)
    /\ pc \in StillPcs /\ ~rel.deleting => MatchesIn(live, rel.status)
    /\ pc = "apply" => HoldsIn(live, Desired \ todo)
    /\ pc = "prune" /\ ~rel.deleting => HoldsIn(live, Desired)
    /\ pc = "patch" /\ ~rel.deleting /\ rel.conditions.ready = "True" =>
          /\ rel.status.lastApplied.source # None
          /\ rel.status.lastApplied.render = Render[<<rel.status.source, rel.spec.path>>]

\* What is recorded is a matter of one field of the status.
LEMMA MatchDepends ==
    ASSUME NEW l, NEW s, NEW t, MatchesIn(l, s), t.lastApplied = s.lastApplied
    PROVE  MatchesIn(l, t)
BY DEF MatchesIn

\* Nothing is recorded at first.
LEMMA InitLive == Init => LiveInv
<1> SUFFICES ASSUME Init PROVE LiveInv
  OBVIOUS
<1>1. ASSUME NEW r \in Releases PROVE MatchesIn(live, api[r].status)
  <2>1. api[r] = Gone \/ \E spec \in SpecSet : api[r] = Created(spec)
    BY DEF Init
  <2>2. api[r].status = NoStatus
    BY <2>1, GoneGood, CreatedGood, Zenon
  <2> QED BY <2>2, NewStatusType DEF MatchesIn
<1> QED BY <1>1, Zenon DEF Init, LiveInv, StillPcs

\* Steps that leave the cluster and the API server alone.
LEMMA QuietLive ==
    ASSUME RInv, NoErrors, TerritoryInv, LiveInv,
           UNCHANGED <<api, live, noWorker>> \/ Prepares \/ Sweeps \/ Cleans \/ Ends \/ Records
    PROVE  LiveInv'
<1>1. UNCHANGED <<api, live, cur>>
  BY Zenon DEF noWorker, locals, Prepares, Sweeps, Cleans, Ends, Records
<1>2. CASE UNCHANGED <<api, live, noWorker>>
  BY <1>2, Zenon DEF LiveInv, noWorker, locals, Desired
<1>3. CASE Prepares
  <2>1. /\ pc \in StillPcs /\ pc # "patch" /\ SameRecord(rel, rel') /\ ~rel.deleting
        /\ \/ pc' \in {"fetch", "render", "impersonate"}
           \/ pc' = "apply" /\ todo' = Desired /\ UNCHANGED <<rel, package>>
    BY <1>3 DEF Prepares, StillPcs
  <2>2. MatchesIn(live, rel'.status)
    BY <2>1, MatchDepends, Zenon DEF LiveInv, SameRecord
  <2>3. pc' = "apply" => HoldsIn(live, Desired' \ todo')
    BY <2>1, Zenon DEF Desired, HoldsIn
  <2>4. pc # "addFinalizer" /\ pc' # "addFinalizer" /\ pc' # "patch" /\ pc' # "prune"
    BY <2>1 DEF StillPcs
  <2> QED BY <1>1, <2>2, <2>3, <2>4, Zenon DEF LiveInv
<1>4. CASE Sweeps
  <2>1. /\ pc = "apply" /\ todo = {} /\ pc' = "prune" /\ UNCHANGED <<rel, package>>
    BY <1>4, Zenon DEF Sweeps
  <2>2. Desired' = Desired
    BY <2>1 DEF Desired
  <2>3. HoldsIn(live, Desired)
    BY <2>1, Zenon DEF LiveInv, HoldsIn
  <2> QED BY <1>1, <2>1, <2>2, <2>3, Zenon DEF LiveInv, StillPcs
<1>5. CASE Cleans
  <2>1. rel'.deleting /\ pc # "addFinalizer" /\ pc' \in {"patch", "prune", "removeFinalizer"}
    BY <1>5 DEF Cleans
  <2> QED BY <1>1, <2>1, Zenon DEF LiveInv
<1>6. CASE Ends
  <2>1. /\ pc \in StillPcs /\ SameRecord(rel, rel') /\ ~rel.deleting /\ pc' = "patch"
        /\ rel'.status.source = rel.status.source
        /\ rel'.conditions.ready = "True" => pc = "render" /\ Desired # None /\ IsNoOpNow
    BY <1>6, Zenon DEF Ends, StillPcs
  <2>2. MatchesIn(live, rel'.status)
    BY <2>1, MatchDepends, Zenon DEF LiveInv, SameRecord
  <2>3. ASSUME rel'.conditions.ready = "True"
        PROVE  /\ rel'.status.lastApplied.source # None
               /\ rel'.status.lastApplied.render = Render[<<rel'.status.source, rel'.spec.path>>]
    <3>1. pc = "render" /\ IsNoOpNow /\ rel.status.lastApplied = DigestSet
      BY <2>1, <2>3, Zenon DEF IsNoOpNow, IsNoOp
    <3>2. package = artifact /\ rel.status.source = artifact
      BY <2>1, <3>1, Zenon DEF RInv, PhasesOK, TerritoryInv
    <3>3. rel.status.lastApplied.source # None
      BY <3>1, Zenon DEF IsNoOpNow, IsNoOp
    <3>4. rel.status.lastApplied.render = Render[<<rel.status.source, rel.spec.path>>]
      BY <3>1, <3>2, SMTT(30) DEF DigestSet, Desired
    <3> QED BY <2>1, <3>3, <3>4, Zenon DEF SameRecord
  <2>4. pc # "addFinalizer"
    BY <2>1 DEF StillPcs
  <2> QED BY <1>1, <2>1, <2>2, <2>3, <2>4, Zenon DEF LiveInv
<1>7. CASE Records
  <2>1. /\ pc \in {"apply", "prune"} /\ ~rel.deleting /\ todo = {} /\ pc' = "patch"
        /\ rel'.spec = rel.spec /\ rel'.status.source = rel.status.source
        /\ rel'.status.lastApplied = DigestSet
    BY <1>7, Zenon DEF Records
  <2>2. package = artifact /\ artifact \in Artifacts /\ rel.status.source = artifact
    BY <2>1, DesiredOwned
  <2>3. /\ DigestSet.source # None /\ DigestSet.render = Desired
        /\ Desired = Render[<<rel.status.source, rel.spec.path>>]
    BY <2>2, Assumptions, Zenon DEF DigestSet, Desired
  <2>4. HoldsIn(live, Desired)
    BY <2>1, Zenon DEF LiveInv, HoldsIn
  <2>5. MatchesIn(live, rel'.status)
    BY <2>1, <2>3, <2>4, Zenon DEF MatchesIn
  <2> QED BY <1>1, <2>1, <2>3, <2>5, Zenon DEF LiveInv
<1> QED BY <1>2, <1>3, <1>4, <1>5, <1>6, <1>7

\* Steps that leave the cluster alone, and take or write a release.
LEMMA WriteLive ==
    ASSUME RInv, LiveInv,
           \/ \E r \in Releases : Takes(r)
           \/ \E new : LetsGo(new)
           \/ \E r \in Releases : \E new : Edits(r, new)
    PROVE  LiveInv'
<1>1. /\ api \in [Releases -> ReleaseObjects] /\ rel.deleting \in BOOLEAN
      /\ \A r \in Releases : api[r].deleting \in BOOLEAN
      /\ pc = "idle" => cur = None /\ \A r \in Releases : r # cur
      /\ pc # "idle" => cur \in Releases
  BY Assumptions, Zenon DEF RInv, TypeOK, WorkerOK, ReleaseObjects
<1>2. MatchesIn(live, NoStatus)
  BY NewStatusType, Zenon DEF MatchesIn
<1>3. CASE \E r \in Releases : Takes(r)
  <2>1. PICK r \in Releases : Takes(r)
    BY <1>3
  <2>2. /\ UNCHANGED <<api, live>> /\ cur' = r /\ SameRecord(api[r], rel') /\ pc = "idle"
        /\ pc' = "patch" => rel'.conditions.ready # "True" \/ rel'.deleting
        /\ pc' # "apply" /\ (pc' = "prune" => rel'.deleting)
    BY <2>1, Zenon DEF Takes, SameRecord
  <2>3. \A x \in Releases : ~api[x].deleting => MatchesIn(live, api[x].status)
    BY <1>1, <2>2, Zenon DEF LiveInv
  <2>4. ~rel'.deleting => MatchesIn(live, rel'.status)
    BY <2>2, <2>3, MatchDepends, Zenon DEF SameRecord
  <2> QED BY <2>2, <2>3, <2>4, Zenon DEF LiveInv
<1>4. CASE \E new : LetsGo(new)
  <2>1. PICK new : LetsGo(new)
    BY <1>4
  <2>2. pc # "idle" /\ cur \in Releases /\ live' = live
    BY <1>1, <2>1, Zenon DEF LetsGo, RInv, WorkerOK
  <2>3. /\ pc # "addFinalizer" /\ rel.deleting => api[cur].deleting
        /\ pc = "patch" /\ ~rel.deleting => MatchesIn(live, rel.status)
    BY <2>2, Zenon DEF RInv, WorkerOK, Working, LiveInv, StillPcs
  <2>4. \A x \in Releases : x # cur => api'[x] = api[x]
    BY <1>1, <2>1, Zenon DEF LetsGo
  <2>5. \A x \in Releases : x # cur /\ ~api[x].deleting => MatchesIn(live, api[x].status)
    BY Zenon DEF LiveInv
  <2>6. ~api'[cur].deleting => MatchesIn(live, api'[cur].status)
    <3>1. CASE api' = api /\ (pc = "addFinalizer" \/ rel.deleting)
      BY <2>2, <2>3, <3>1, Zenon DEF LiveInv
    <3>2. CASE /\ pc = "addFinalizer" /\ api' = [api EXCEPT ![cur] = new]
               /\ SameRecord(api[cur], new)
      <4>1. api'[cur] = new
        BY <1>1, <2>2, <3>2
      <4>2. ~api[cur].deleting => MatchesIn(live, api[cur].status)
        BY <2>2, <3>2, Zenon DEF LiveInv
      <4> QED BY <3>2, <4>1, <4>2, MatchDepends DEF SameRecord
    <3>3. CASE api' = [api EXCEPT ![cur] = new] /\ new = Gone
      BY <1>1, <1>2, <2>2, <3>3, GoneGood, Zenon
    <3>4. CASE /\ pc = "patch" /\ api' = [api EXCEPT ![cur] = new]
               /\ new.deleting = api[cur].deleting /\ new.status = rel.status
      BY <1>1, <2>2, <2>3, <3>4, Zenon
    <3> QED BY <2>1, <3>1, <3>2, <3>3, <3>4, Zenon DEF LetsGo
  <2>7. \A x \in Releases : ~api'[x].deleting => MatchesIn(live, api'[x].status)
    BY <2>4, <2>5, <2>6, Zenon
  <2>8. pc' \in {"idle", "removeFinalizer"}
    BY <2>1, Zenon DEF LetsGo
  <2> QED BY <2>2, <2>7, <2>8, Zenon DEF LiveInv, StillPcs
<1>5. CASE \E r \in Releases : \E new : Edits(r, new)
  <2>1. PICK r \in Releases : \E new : Edits(r, new)
    BY <1>5
  <2>2. PICK new : Edits(r, new)
    BY <2>1
  <2>3. /\ UNCHANGED <<live, noWorker>> /\ api' = [api EXCEPT ![r] = new]
        /\ \/ new = Gone
           \/ \E spec \in Specs[r] : new = Created(spec)
           \/ new.status = api[r].status /\ (api[r].deleting => new.deleting)
    BY <2>2, Zenon DEF Edits
  <2>4. \A spec \in Specs[r] : spec \in SpecSet
    BY Assumptions, Zenon
  <2>5. api'[r] = new /\ \A x \in Releases : x # r => api'[x] = api[x]
    BY <1>1, <2>3, Zenon
  <2>6. new.status = NoStatus \/ (new.status = api[r].status /\ (api[r].deleting => new.deleting))
    <3>1. Gone.status = NoStatus /\ \A spec \in Specs[r] : Created(spec).status = NoStatus
      BY <2>4, GoneGood, CreatedGood
    <3>2. CASE new = Gone
      BY <3>1, <3>2, Zenon
    <3>3. CASE \E spec \in Specs[r] : new = Created(spec)
      <4>1. PICK spec \in Specs[r] : new = Created(spec)
        BY <3>3, Zenon
      <4>2. Created(spec).status = NoStatus
        BY <3>1, <4>1, Zenon
      <4> QED BY <4>1, <4>2
    <3>4. CASE new.status = api[r].status /\ (api[r].deleting => new.deleting)
      BY <3>4, Zenon
    <3> QED BY <2>3, <3>2, <3>3, <3>4, Zenon
  <2>7. ASSUME NEW x \in Releases, ~api'[x].deleting, x = cur => pc = "addFinalizer"
        PROVE  MatchesIn(live, api'[x].status)
    BY <1>1, <1>2, <2>5, <2>6, <2>7, Zenon DEF LiveInv
  <2> QED BY <2>3, <2>7, Zenon DEF LiveInv, noWorker, locals, Desired
<1> QED BY <1>3, <1>4, <1>5

\* A change of an object of one release shows in no other.
LEMMA ElsewhereHolds ==
    ASSUME RInv, TerritoryInv, LiveInv, NoSharing, cur \in Releases, pc # "addFinalizer",
           NEW o \in Objects, Owns(cur, o), NEW v, live' = [live EXCEPT ![o] = v],
           NEW r \in Releases, r # cur, ~api[r].deleting
    PROVE  MatchesIn(live', api[r].status)
<1> SUFFICES ASSUME api[r].status.lastApplied.source # None,
                    NEW x \in api[r].status.lastApplied.render
             PROVE  ShownIn(live', x)
  BY Zenon DEF MatchesIn, HoldsIn
<1>1. Owns(r, x.id)
  BY Zenon DEF TerritoryInv, RecordsOwn
<1>2. x.id # o
  BY <1>1 DEF NoSharing
<1>3. ShownIn(live, x)
  BY Zenon DEF LiveInv, MatchesIn, HoldsIn
<1>4. live'[x.id] = live[x.id]
  BY <1>2
<1> QED BY <1>3, <1>4, Zenon DEF ShownIn

\* The apply of a resource.
LEMMA ApplyLive ==
    ASSUME RInv, TerritoryInv, LiveInv, NoSharing, UniqueIds, NEW x \in todo, ApplyResource(x)
    PROVE  LiveInv'
<1>1. /\ pc = "apply" /\ todo' = todo \ {x} /\ live' = [live EXCEPT ![x.id] = Applied(x)]
      /\ UNCHANGED <<api, pc, cur, rel, artifact, package>> /\ ~rel.deleting
  BY DEF ApplyResource, RInv, WorkerOK
<1>2. /\ \A y \in Desired : Owns(cur, y.id) /\ y.id \in Objects /\ y \in Resources
      /\ cur \in Releases /\ Desired # None /\ todo \subseteq Desired
      /\ package = artifact /\ artifact \in Artifacts
  BY <1>1, DesiredOwned, Zenon DEF RInv, PhasesOK
<1>3. Desired' = Desired
  BY <1>1, Zenon DEF Desired
<1>4. x \in Desired /\ x.id \in Objects /\ x \in Resources /\ Owns(cur, x.id)
  BY <1>2
<1>5. \A r \in Releases : ~api[r].deleting /\ (r = cur => pc = "addFinalizer") =>
         MatchesIn(live', api[r].status)
  BY <1>1, <1>2, <1>4, ElsewhereHolds, Zenon
<1>6. live'[x.id] = Applied(x) /\ \A o \in Objects : o # x.id => live'[o] = live[o]
  BY <1>1, <1>4, Zenon DEF RInv, TypeOK
<1>7. ShownIn(live', x)
  <2>1. Applied(x) \in LiveObjects
    BY <1>2, <1>4, Zenon DEF Applied, LiveObjects, Resources
  <2>2. Applied(x) # Absent
    BY <2>1, Assumptions, Zenon
  <2> QED BY <1>6, <2>2, SMTT(30) DEF ShownIn, Applied
<1>8. ASSUME NEW y \in Desired \ todo', y # x PROVE ShownIn(live', y)
  <2>1. y \in Desired \ todo /\ y.id \in Objects
    BY <1>1, <1>2, <1>8
  <2>2. ShownIn(live, y)
    BY <1>1, <2>1, Zenon DEF LiveInv, HoldsIn
  <2>3. <<package, rel.spec.path>> \in DOMAIN Render
    <3>1. rel.spec \in SpecSet
      BY <1>1, Zenon DEF RInv, WorkerOK, Good
    <3>2. rel.spec.path \in Paths
      BY <3>1 DEF SpecSet
    <3> QED BY <1>2, <3>2, Assumptions, Zenon
  <2>4. y.id # x.id
    BY <1>2, <1>4, <1>8, <2>1, <2>3, Zenon DEF UniqueIds, Desired
  <2>5. live'[y.id] = live[y.id]
    BY <1>6, <2>1, <2>4, Zenon
  <2> QED BY <2>2, <2>5, Zenon DEF ShownIn
<1>9. HoldsIn(live', Desired' \ todo')
  BY <1>3, <1>7, <1>8, Zenon DEF HoldsIn
<1> QED BY <1>1, <1>5, <1>9, Zenon DEF LiveInv, StillPcs

\* The prune of an entry.
LEMMA PruneLive ==
    ASSUME RInv, TerritoryInv, LiveInv, NoSharing, "prune" \notin Disturbances,
           NEW e \in todo, PruneEntry(e)
    PROVE  LiveInv'
<1>1. /\ pc = "prune" /\ UNCHANGED <<api, pc, cur, rel, package>>
      /\ live' = live \/ live' = [live EXCEPT ![e.id] = Absent]
  BY DEF PruneEntry
<1>2. Desired' = Desired
  BY <1>1, Zenon DEF Desired
<1>3. CASE live' = live
  BY <1>1, <1>2, <1>3, Zenon DEF LiveInv, StillPcs
<1>4. CASE live' = [live EXCEPT ![e.id] = Absent]
  <2>1. /\ cur \in Releases /\ Owns(cur, e.id)
        /\ ~rel.deleting => \A x \in Desired : e.id # x.id
    BY <1>1, Zenon DEF RInv, WorkerOK, TypeOK, TerritoryInv
  <2>2. e.id \in Objects
    BY <1>1 DEF RInv, PhasesOK, EntrySet
  <2>3. \A r \in Releases : ~api[r].deleting /\ (r = cur => pc = "addFinalizer") =>
           MatchesIn(live', api[r].status)
    BY <1>1, <1>4, <2>1, <2>2, ElsewhereHolds, Zenon
  <2>4. ASSUME ~rel.deleting, NEW x \in Desired PROVE ShownIn(live', x)
    <3>1. ShownIn(live, x)
      BY <1>1, <2>4, Zenon DEF LiveInv, HoldsIn
    <3>2. live'[x.id] = live[x.id]
      <4>1. e.id # x.id
        BY <2>1, <2>4, Zenon
      <4> QED BY <1>4, <4>1, SMTT(30)
    <3> QED BY <3>1, <3>2 DEF ShownIn
  <2>5. ~rel'.deleting => HoldsIn(live', Desired')
    BY <1>1, <1>2, <2>4 DEF HoldsIn
  <2> QED BY <1>1, <2>3, <2>5, Zenon DEF LiveInv, StillPcs
<1> QED BY <1>1, <1>3, <1>4, Zenon

\* The digests of a Release and the cluster agree: whenever a reconcile reports
\* Ready, every object of the render it names is in the cluster as rendered, if
\* no release's renders contain an object of another's and no apply, prune,
\* patch or render ends half-way.  A no-op relies on this, since it looks at
\* digests and at nothing in the cluster.
THEOREM ReadyIsAlwaysApplied ==
    ASSUME NoSharing, UniqueIds, Disturbances \cap Halving = {}
    PROVE  Spec => []ReadyIsApplied
<1>1. "prune" \notin Disturbances
  BY Zenon DEF Halving
<1>2. RInv /\ NoErrors /\ TerritoryInv /\ [Next]_vars => TerritoryInv'
  BY NextTerritory
<1>3. RInv /\ NoErrors /\ TerritoryInv /\ LiveInv /\ [Next]_vars => LiveInv'
  BY <1>1, ReleaseForms, QuietLive, WriteLive, ApplyLive, PruneLive, Zenon
<1>4. LiveInv => ReadyIsApplied
  <2> SUFFICES ASSUME LiveInv, pc = "patch", ~rel.deleting, rel.conditions.ready = "True",
                      NEW x \in Render[<<rel.status.source, rel.spec.path>>]
               PROVE  ShownIn(live, x)
    BY Zenon DEF ReadyIsApplied, ShownIn
  <2>1. MatchesIn(live, rel.status)
    BY Zenon DEF LiveInv, StillPcs
  <2>2. /\ rel.status.lastApplied.source # None
        /\ rel.status.lastApplied.render = Render[<<rel.status.source, rel.spec.path>>]
    BY DEF LiveInv
  <2> QED BY <2>1, <2>2 DEF MatchesIn, HoldsIn
<1> QED BY <1>1, <1>2, <1>3, <1>4, InitTerritory, InitLive, NoPruneErrors, RInvInvariant, PTL
        DEF Spec

=============================================================================
