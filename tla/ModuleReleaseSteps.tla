------------------------- MODULE ModuleReleaseSteps -------------------------
(****************************************************************************)
(* What the steps of a ModuleRelease may do, for every value of its         *)
(* constants: what they write to the API server, what the finalizer waits   *)
(* for, how the observed generation moves, and then the forms that a step   *)
(* can take, for the release, its records and the cluster.                  *)
(****************************************************************************)
EXTENDS ModuleReleaseProofs

-----------------------------------------------------------------------------
(* What the steps may do to the object in the API server. *)

\* A release between two reconciles, or in one, always satisfies LInv.
LEMMA LInvInvariant == Spec => []LInv
<1>1. Init => LInv
  BY InitLInv
<1>2. IInv /\ LInv /\ [Next]_vars => LInv'
  BY NextRefines
<1> QED BY <1>1, <1>2, Invariance, PTL DEF Spec

\* Steps of a reconcile that write nothing to the API server.
LocalSteps ==
    \/ ReconcileGone \/ ReconcileNoFinalizer \/ handleDeletion
    \/ ReconcileSuspended \/ ReconcileStarts
    \/ RenderModule \/ RenderFails \/ RenderPanics \/ detectDrift
    \/ NewImpersonatedClient \/ ImpersonationFails
    \/ (\E r \in todo : ApplyResource(r)) \/ ApplyFails \/ ApplySucceeds
    \/ (\E e \in todo : PruneGet(e) \/ PruneGetFails(e))
    \/ PruneDelete \/ PruneDeleteFails
    \/ pruneStaleResources \/ pruneForDeletion

\* They leave the API server's copy and the cached one as they are.
LEMMA LocalStepsWriteNothing ==
    ASSUME LocalSteps
    PROVE  UNCHANGED <<api, cache>>
<1>1. CASE ReconcileGone \/ ReconcileNoFinalizer \/ handleDeletion
           \/ ReconcileSuspended \/ ReconcileStarts
  BY <1>1, Zenon DEF ReconcileGone, ReconcileNoFinalizer, handleDeletion,
     ReconcileSuspended, ReconcileStarts, Dequeue
<1>2. CASE RenderModule \/ RenderFails \/ RenderPanics \/ detectDrift
           \/ NewImpersonatedClient \/ ImpersonationFails
  BY <1>2, Zenon DEF RenderModule, RenderFails, RenderPanics, detectDrift,
     NewImpersonatedClient, ImpersonationFails, NoEffect
<1>3. CASE (\E r \in todo : ApplyResource(r)) \/ ApplyFails \/ ApplySucceeds
  BY <1>3, Zenon DEF ApplyResource, ApplyFails, ApplySucceeds, CommitSuccess, NoEffect
<1>4. CASE \/ \E e \in todo : PruneGet(e) \/ PruneGetFails(e)
           \/ PruneDelete \/ PruneDeleteFails
  BY <1>4, Zenon DEF PruneGet, PruneGetFails, PruneDelete, PruneDeleteFails, pruneUnchanged
<1>5. CASE pruneStaleResources \/ pruneForDeletion
  BY <1>5, Zenon DEF pruneStaleResources, pruneForDeletion, CommitSuccess, NoEffect
<1> QED BY <1>1, <1>2, <1>3, <1>4, <1>5 DEF LocalSteps

\* Users and other controllers leave the status and this finalizer alone, and
\* only ever move the generation up.
LEMMA OthersWrite ==
    ASSUME IInv, LInv, CacheSyncs \/ TimerFires \/ Users \/ World
    PROVE  /\ FinalizerName \in api.finalizers => FinalizerName \in api'.finalizers
           /\ api'.exists =>
                 /\ api.exists /\ api'.status = api.status
                 /\ api'.generation >= api.generation
           /\ ~api'.exists => api' \in {api, Gone}
<1>1. /\ api \in ModuleReleases /\ FinalizerName # OtherFinalizer
      /\ api.generation \in Nat
      /\ api.deleting => api.exists
  BY DEF IInv, TypeOK, LInv, ServerShape, FinalizerName, OtherFinalizer, ModuleReleases
<1> DEFINE g == api.generation + 1
<1>2. g \in Nat /\ g >= api.generation
  BY <1>1
<1>3. CASE CacheSyncs \/ TimerFires \/ ServiceAccountChanges \/ Crash
           \/ \E o \in Objects : ForeignWrite(o)
  <2>1. api' = api
    BY <1>3, Zenon DEF CacheSyncs, TimerFires, ServiceAccountChanges, Crash, ForeignWrite
  <2> QED BY <1>1, <2>1
<1>4. ASSUME NEW spec, UserEdits(spec)
      PROVE  /\ api'.exists = api.exists /\ api'.finalizers = api.finalizers
             /\ api'.status = api.status /\ api'.generation = g
             /\ api.exists
  <2>1. api' = [api EXCEPT !.spec = spec, !.generation = g] /\ api.exists
    BY <1>4, WriteShows, Zenon DEF UserEdits
  <2> HIDE DEF g
  <2> QED BY <1>1, <2>1, Zenon DEF ModuleReleases
<1>5. ASSUME UserDeletes
      PROVE  /\ api.exists
             /\ \/ api.finalizers = {} /\ api' = Gone
                \/ /\ api'.exists = api.exists /\ api'.finalizers = api.finalizers
                   /\ api'.status = api.status /\ api'.generation = g
  <2>1. /\ api.exists
        /\ \/ api.finalizers = {} /\ api' = Gone
           \/ api' = [api EXCEPT !.deleting = TRUE, !.generation = g]
    BY <1>5, WriteShows, Zenon DEF UserDeletes
  <2> HIDE DEF g
  <2> QED BY <1>1, <2>1, Zenon DEF ModuleReleases
<1>6. ASSUME UserAnnotates
      PROVE  /\ api'.exists = api.exists /\ api'.finalizers = api.finalizers
             /\ api'.status = api.status /\ api'.generation = api.generation
             /\ api.exists
  <2>1. api' = [api EXCEPT !.orphan = TRUE] /\ api.exists
    BY <1>6, WriteShows, Zenon DEF UserAnnotates
  <2> QED BY <1>1, <2>1, Zenon DEF ModuleReleases
<1>7. CASE OtherAddsFinalizer \/ OtherRemovesFinalizer
  <2>1. PICK f : /\ f \in {api.finalizers \cup {OtherFinalizer},
                           api.finalizers \ {OtherFinalizer}}
                 /\ Write(WithFinalizers(f))
    BY <1>7 DEF OtherAddsFinalizer, OtherRemovesFinalizer
  <2>2. FinalizerName \in api.finalizers => FinalizerName \in f
    BY <1>1, <2>1
  <2>3. api.exists
    BY <1>1, <1>7, Zenon DEF OtherAddsFinalizer, OtherRemovesFinalizer
  <2>4. \/ f = {} /\ api' = Gone
        \/ api' = [api EXCEPT !.finalizers = f]
    BY <2>1, WriteShows, Zenon DEF WithFinalizers
  <2>5. CASE f = {} /\ api' = Gone
    BY <2>1, <2>2, <2>5, WriteShows, Zenon DEF Gone
  <2>6. CASE api' = [api EXCEPT !.finalizers = f]
    <3>1. /\ api'.exists = api.exists /\ api'.finalizers = f
          /\ api'.status = api.status /\ api'.generation = api.generation
      BY <1>1, <2>6, Zenon DEF ModuleReleases
    <3> QED BY <1>1, <2>1, <2>2, <2>3, <3>1, WriteShows
  <2> QED BY <2>4, <2>5, <2>6, Zenon
<1> HIDE DEF g
<1>8. CASE \E spec \in Specs : UserEdits(spec)
  BY <1>2, <1>4, <1>8, Zenon
<1>9. CASE UserDeletes
  BY <1>2, <1>5, <1>9 DEF Gone
<1>10. CASE UserAnnotates
  BY <1>1, <1>6, <1>10
<1> QED BY <1>3, <1>7, <1>8, <1>9, <1>10, Zenon DEF Users, World

\* The cache moves to what the API server holds, at once when it does not lag.
LEMMA CacheFollows ==
    ASSUME [Next]_vars
    PROVE  /\ cache' \in {cache, api, api'}
           /\ ~CacheLag /\ cache = api => cache' = api'
<1>1. CASE \E new : Write(new)
  BY <1>1 DEF Write
<1>2. CASE UNCHANGED <<api, cache>>
  BY <1>2
<1>3. CASE LocalSteps
  BY <1>3, LocalStepsWriteNothing
<1>4. CASE addFinalizer \/ removeFinalizer
  BY <1>1, <1>2, <1>4, Zenon DEF addFinalizer, removeFinalizer, NoWrite
<1>5. CASE patchConditions \/ patchStatus
  BY <1>1, <1>2, <1>5, Zenon DEF patchConditions, patchStatus, PatchFailure, NoWrite
<1>6. CASE CacheSyncs \/ TimerFires \/ ServiceAccountChanges \/ Crash
           \/ \E o \in Objects : ForeignWrite(o)
  BY <1>6 DEF CacheSyncs, TimerFires, ServiceAccountChanges, Crash, ForeignWrite
<1>7. CASE Users \/ OtherAddsFinalizer \/ OtherRemovesFinalizer
  BY <1>1, <1>7, Zenon DEF Users, UserEdits, UserDeletes, UserAnnotates,
     OtherAddsFinalizer, OtherRemovesFinalizer
<1>8. CASE UNCHANGED vars
  BY <1>2, <1>8, Zenon DEF vars
<1> QED BY <1>3, <1>4, <1>5, <1>6, <1>7, <1>8, Zenon DEF Next, Worker, World, LocalSteps

-----------------------------------------------------------------------------
(* The cleanup of a deletion, when reads are current and nobody else writes  *)
(* to the release's objects.                                               *)

\* A deletion prunes the inventory that the API server holds: an entry is
\* still to be looked at, about to be deleted, or settled, as long as Prune has
\* seen no error; and it gets to the finalizer with every entry settled, unless
\* there is nothing to prune or the entries are orphaned.
CleanupInv ==
    /\ cache = api
    /\ pc \in {"impersonate", "prune"} /\ mr.deleting =>
          api.status.inventory.entries \subseteq mr.status.inventory.entries
    /\ pc = "prune" /\ mr.deleting /\ firstErr = "none" =>
          \A e \in mr.status.inventory.entries :
              e \in todo \/ e = target \/ PruneSkips(e)
    /\ pc = "removeFinalizer" /\ mr.spec.prune /\ ~mr.orphan =>
          \A e \in api.status.inventory.entries : PruneSkips(e)
    /\ cont = "orphan" => mr.orphan

\* What FinalizerGuardsInventory says of one step.
FinalizerGuard ==
    /\ FinalizerName \in api.finalizers /\ FinalizerName \notin api'.finalizers
    /\ mr.spec.prune /\ ~mr.orphan
    => \A e \in api.status.inventory.entries : PruneSkips(e)

\* Steps that end outside of a cleanup.
LEMMA OutsideCleanup ==
    ASSUME cache' = api', cont' = "orphan" => mr'.orphan, pc' # "removeFinalizer",
           pc' \in {"impersonate", "prune"} => ~mr'.deleting
    PROVE  CleanupInv'
BY DEF CleanupInv

\* The worker takes the release.
LEMMA StartCleanup ==
    ASSUME IInv, LInv, CleanupInv, cache' = api',
           \/ ReconcileGone \/ ReconcileNoFinalizer \/ handleDeletion
           \/ ReconcileSuspended \/ ReconcileStarts
    PROVE  CleanupInv'
<1>1. pc = "idle" /\ UNCHANGED <<api, cache, live>>
  BY Zenon DEF ReconcileGone, ReconcileNoFinalizer, handleDeletion, ReconcileSuspended,
         ReconcileStarts, Dequeue, cluster
<1>2. cont # "orphan" /\ cache = api
  BY <1>1 DEF LInv, PatchShape, CleanupInv
<1>3. CASE ReconcileGone \/ ReconcileNoFinalizer \/ ReconcileSuspended \/ ReconcileStarts
  <2>1. cont' # "orphan" /\ pc' \notin {"removeFinalizer", "impersonate", "prune"}
    BY <1>1, <1>2, <1>3, Zenon DEF ReconcileGone, ReconcileNoFinalizer, ReconcileSuspended,
       ReconcileStarts, locals
  <2> QED BY <2>1, OutsideCleanup
<1>4. CASE handleDeletion
  <2>1. /\ mr' = api /\ cont' # "orphan"
        /\ \/ pc' = "removeFinalizer" /\ (~mr'.spec.prune \/ api.status.inventory.entries = {})
           \/ pc' = "prune" /\ todo' = api.status.inventory.entries
           \/ pc' = "impersonate"
    BY <1>2, <1>4 DEF handleDeletion
  <2> QED BY <1>1, <1>2, <2>1, Zenon DEF CleanupInv
<1> QED BY <1>3, <1>4

\* Up to the end of the apply phase, and where a client is created.
LEMMA ReconcileCleanup ==
    ASSUME IInv, LInv, CleanupInv, cache' = api',
           \/ RenderModule \/ RenderFails \/ RenderPanics \/ detectDrift
           \/ (\E r \in todo : ApplyResource(r)) \/ ApplyFails \/ ApplySucceeds
    PROVE  CleanupInv'
<1>1. pc \in {"render", "drift", "apply"}
  BY Zenon DEF RenderModule, RenderFails, RenderPanics, detectDrift, ApplyResource,
     ApplyFails, ApplySucceeds
<1>2. ~mr.deleting /\ cont # "orphan" /\ mr \in ModuleReleases
  BY <1>1, Zenon DEF LInv, ReconcileShape, PatchShape, IInv, TypeOK
<1>3. CASE \E c, result, again : Commit(c, result, again)
  <2>1. pc' = "patchConditions" /\ cont' # "orphan"
    BY <1>3 DEF Commit
  <2> QED BY <2>1, OutsideCleanup
<1>4. CASE RenderModule \/ \E r \in todo : ApplyResource(r)
  <2>1. pc' \in {"drift", "apply"} /\ cont' # "orphan"
    BY <1>2, <1>4 DEF RenderModule, ApplyResource
  <2> QED BY <2>1, OutsideCleanup
<1>5. CASE \E c : mr' = [mr EXCEPT !.conditions = c] /\ cont' = cont
                  /\ pc' \in {"apply", "impersonate", "prune"}
  <2>1. ~mr'.deleting
    BY <1>2, <1>5 DEF ModuleReleases
  <2> QED BY <1>2, <1>5, <2>1, OutsideCleanup
<1>6. ASSUME NEW c, NEW failed, Plan(c, failed)
      PROVE  \/ \E d, result, again : Commit(d, result, again)
             \/ /\ mr' = [mr EXCEPT !.conditions = c] /\ cont' = cont
                /\ pc' \in {"apply", "impersonate", "prune"}
  BY <1>6, Zenon DEF Plan
<1>7. CASE detectDrift
  <2>1. PICK c, failed : Plan(c, failed)
    BY <1>7, Zenon DEF detectDrift
  <2> QED BY <1>3, <1>5, <1>6, <2>1, Zenon
<1>8. CASE ApplySucceeds
  <2>1. \/ \E d, result, again : Commit(d, result, again)
        \/ /\ mr' = [mr EXCEPT !.conditions = ClearDrifted(@)] /\ cont' = cont
           /\ pc' = "prune"
    BY <1>8, Zenon DEF ApplySucceeds, CommitSuccess
  <2>2. [mr EXCEPT !.conditions = ClearDrifted(@)]
           = [mr EXCEPT !.conditions = ClearDrifted(mr.conditions)]
    BY <1>2 DEF ModuleReleases
  <2> QED BY <1>3, <1>5, <2>1, <2>2, Zenon
<1> QED BY <1>3, <1>4, <1>7, <1>8, Zenon DEF RenderFails, RenderPanics, ApplyFails

\* The impersonated client: with it the cleanup starts on the whole inventory,
\* without it the deletion stalls or orphans.
LEMMA ImpersonateCleanup ==
    ASSUME IInv, LInv, CleanupInv, cache' = api',
           NewImpersonatedClient \/ ImpersonationFails
    PROVE  CleanupInv'
<1>1. /\ pc = "impersonate" /\ UNCHANGED <<api, live>> /\ cont # "orphan"
      /\ mr \in ModuleReleases
  BY Zenon DEF NewImpersonatedClient, ImpersonationFails, NoEffect, cluster, LInv,
     PatchShape, IInv, TypeOK
<1>2. CASE NewImpersonatedClient
  <2>1. /\ UNCHANGED <<mr, cont>>
        /\ \/ mr.deleting /\ pc' = "prune" /\ todo' = mr.status.inventory.entries
           \/ ~mr.deleting /\ pc' = "apply"
    BY <1>2 DEF NewImpersonatedClient
  <2> QED BY <1>1, <2>1, Zenon DEF CleanupInv
<1>3. CASE ImpersonationFails
  <2>1. CASE \E c, result, again : Commit(c, result, again)
    BY <2>1, OutsideCleanup DEF Commit
  <2>2. CASE \E reason : StallDeletion(reason)
    BY <2>2, OutsideCleanup DEF StallDeletion
  <2>3. CASE mr.orphan /\ mr' = [mr EXCEPT !.status.inventory = NoInventory]
             /\ pc' = "patchConditions"
    <3>1. mr'.orphan
      BY <1>1, <2>3, Zenon DEF ModuleReleases
    <3> QED BY <2>3, <3>1, OutsideCleanup
  <2> QED BY <1>3, <2>1, <2>2, <2>3, Zenon DEF ImpersonationFails, handleDeletionSAMissing
<1> QED BY <1>2, <1>3

\* Prune settles one entry after the other: what it skips stays skipped, and
\* what it deletes is absent.
LEMMA PruneCleanup ==
    ASSUME IInv, LInv, CleanupInv, cache' = api',
           \/ \E e \in todo : PruneGet(e) \/ PruneGetFails(e)
           \/ PruneDelete \/ PruneDeleteFails
    PROVE  CleanupInv'
<1>1. pc = "prune" /\ UNCHANGED <<api, pc, mr, cont>>
  BY Zenon DEF PruneGet, PruneGetFails, PruneDelete, PruneDeleteFails, pruneUnchanged
<1>2. cont # "orphan"
  BY <1>1 DEF LInv, PatchShape
<1>3. SUFFICES ASSUME mr.deleting, firstErr' = "none", NEW e \in mr.status.inventory.entries
               PROVE  e \in todo' \/ e = target' \/ PruneSkips(e)'
  BY <1>1, <1>2, Zenon DEF CleanupInv
<1>4. firstErr = "none" => e \in todo \/ e = target \/ PruneSkips(e)
  BY <1>1, <1>3 DEF CleanupInv
<1>5. PruneError => firstErr' # "none"
  BY Zenon DEF PruneError
<1>6. CASE \E x \in todo : PruneGet(x)
  <2>1. PICK x \in todo : PruneGet(x)
    BY <1>6, Zenon
  <2>2. /\ live' = live /\ todo' = todo \ {x} /\ target = None
        /\ target' = (IF PruneSkips(x) THEN None ELSE x) /\ firstErr' = firstErr
    BY <2>1, Zenon DEF PruneGet
  <2>3. PruneSkips(e)' <=> PruneSkips(e)
    BY <1>1, <2>2, Zenon DEF PruneSkips
  <2>4. e # None
    <3>1. mr.status.inventory.entries \subseteq EntrySet
      BY Zenon DEF IInv, TypeOK, ModuleReleases, Statuses
    <3> QED BY <3>1, Assumptions
  <2> QED BY <1>3, <1>4, <2>2, <2>3, <2>4, Zenon
<1>7. CASE PruneDelete
  <2>1. /\ live' = [live EXCEPT ![target.id] = Absent] /\ UNCHANGED <<todo, firstErr>>
        /\ live \in [Objects -> {Absent} \cup LiveObjects] /\ target \in EntrySet
    BY <1>7 DEF PruneDelete, IInv, TypeOK
  <2>2. target.id \in Objects
    BY <2>1, Zenon DEF EntrySet
  <2>3. live'[e.id] = live[e.id] \/ live'[e.id] = Absent
    <3>1. CASE e.id = target.id
      BY <2>1, <2>2, <3>1, Zenon
    <3>2. CASE e.id # target.id
      <4>1. e \in EntrySet
        BY <1>3, Zenon DEF IInv, TypeOK, ModuleReleases, Statuses
      <4>2. e.id \in Objects
        BY <4>1, Zenon DEF EntrySet
      <4> QED BY <2>1, <3>2, <4>2, Zenon
    <3> QED BY <3>1, <3>2
  <2>4. e = target => live'[e.id] = Absent
    BY <2>1, <2>2, Zenon
  <2> QED BY <1>1, <1>3, <1>4, <2>1, <2>3, <2>4, Zenon DEF PruneSkips
<1>8. CASE PruneDeleteFails \/ \E x \in todo : PruneGetFails(x)
  BY <1>3, <1>5, <1>8 DEF PruneDeleteFails, PruneGetFails
<1> QED BY <1>6, <1>7, <1>8

\* The end of Prune: only a cleanup without an error gets to the finalizer.
LEMMA PruneEndCleanup ==
    ASSUME IInv, LInv, CleanupInv, cache' = api', pruneStaleResources \/ pruneForDeletion
    PROVE  CleanupInv'
<1>1. CASE \E c, result, again : Commit(c, result, again)
  BY <1>1, OutsideCleanup DEF Commit
<1>2. CASE \E reason : StallDeletion(reason)
  BY <1>2, OutsideCleanup DEF StallDeletion
<1>3. CASE Return(TRUE)
  BY <1>3, OutsideCleanup, Zenon DEF Return
<1>4. CASE /\ pc = "prune" /\ todo = {} /\ target = None /\ mr.deleting /\ firstErr = "none"
           /\ pc' = "removeFinalizer" /\ UNCHANGED <<locals, api, live>>
  <2>1. UNCHANGED <<mr, cont>>
    BY <1>4, Zenon DEF locals
  <2>2. cont # "orphan"
    BY <1>4 DEF LInv, PatchShape
  <2>3. mr.status.inventory.entries \subseteq EntrySet
    BY Zenon DEF IInv, TypeOK, ModuleReleases, Statuses
  <2>4. \A e \in api.status.inventory.entries : PruneSkips(e)
    BY <1>4, <2>3, Assumptions, Zenon DEF CleanupInv
  <2>5. (\A e \in api.status.inventory.entries : PruneSkips(e))'
    BY <1>4, <2>1, <2>4 DEF PruneSkips
  <2> QED BY <1>4, <2>1, <2>2, <2>5 DEF CleanupInv
<1> QED BY <1>1, <1>2, <1>3, <1>4, Zenon DEF pruneStaleResources, pruneForDeletion,
        CommitSuccess, cluster

\* The finalizer steps return; only removeFinalizer takes the finalizer away.
LEMMA FinalizerCleanup ==
    ASSUME IInv, CleanupInv, cache' = api', addFinalizer \/ removeFinalizer
    PROVE  CleanupInv' /\ FinalizerGuard
<1>1. CleanupInv'
  BY OutsideCleanup, Zenon DEF addFinalizer, removeFinalizer, Return
<1>2. CASE removeFinalizer
  BY <1>1, <1>2, Zenon DEF removeFinalizer, CleanupInv, FinalizerGuard
<1>3. CASE addFinalizer
  <2> DEFINE f == mr.finalizers \cup {FinalizerName}
  <2>1. api' = api \/ api' = WithFinalizers(f)
    BY <1>3, Zenon DEF addFinalizer, NoWrite, Write
  <2>2. WithFinalizers(f) = [api EXCEPT !.finalizers = f]
    BY Zenon DEF WithFinalizers
  <2>3. api \in ModuleReleases
    BY DEF IInv, TypeOK
  <2>4. api' = api \/ api'.finalizers = f
    BY <2>1, <2>2, <2>3 DEF ModuleReleases
  <2> QED BY <1>1, <2>4 DEF FinalizerGuard
<1> QED BY <1>2, <1>3

\* The status patch leaves the finalizers alone, and goes on to remove this
\* one on the orphan exit only.
LEMMA PatchCleanup ==
    ASSUME IInv, LInv, CleanupInv, cache' = api', patchConditions \/ patchStatus
    PROVE  CleanupInv' /\ FinalizerGuard
<1>1. api \in ModuleReleases
  BY DEF IInv, TypeOK
<1>2. api'.finalizers = api.finalizers
  <2>1. CASE NoWrite
    BY <2>1 DEF NoWrite
  <2>2. CASE \E c : Write([api EXCEPT !.conditions = c])
    BY <1>1, <2>2, WriteShows DEF ModuleReleases
  <2>3. CASE \E s : Write([api EXCEPT !.status = s])
    BY <1>1, <2>3, WriteShows DEF ModuleReleases
  <2> QED BY <2>1, <2>2, <2>3, Zenon DEF patchConditions, patchStatus, PatchFailure
<1>3. CASE patchConditions
  <2>1. /\ pc' = "patchStatus" /\ mr' = mr
        /\ cont' = "orphan" => cont = "orphan"
    BY <1>3 DEF patchConditions
  <2> QED BY <1>2, <2>1, OutsideCleanup, Zenon DEF CleanupInv, FinalizerGuard
<1>4. CASE patchStatus
  <2>1. \/ cont = "orphan" /\ pc' = "removeFinalizer" /\ UNCHANGED <<mr, cont>>
        \/ pc' = "idle" /\ cont' = "done"
    BY <1>4, Zenon DEF patchStatus, AfterPatch, Return, locals
  <2> QED BY <1>2, <2>1, Zenon DEF CleanupInv, FinalizerGuard
<1> QED BY <1>3, <1>4, Zenon

\* Users, other controllers and faults disturb a cleanup only by ending it.
LEMMA EnvironmentCleanup ==
    ASSUME IInv, LInv, CleanupInv, cache' = api', "foreignWrite" \notin Disturbances,
           CacheSyncs \/ TimerFires \/ Users \/ World
    PROVE  CleanupInv' /\ FinalizerGuard
<1>1. FinalizerGuard
  BY OthersWrite, Zenon DEF FinalizerGuard
<1>2. api'.status.inventory.entries \subseteq api.status.inventory.entries
  <2>1. Gone.status.inventory.entries = {}
    BY Zenon DEF Gone, NoStatus, NoInventory
  <2>2. api'.exists => api'.status = api.status
    BY OthersWrite, Zenon
  <2>3. ~api'.exists => api' \in {api, Gone}
    BY OthersWrite, Zenon
  <2> QED BY <2>1, <2>2, <2>3
<1>3. CASE Crash
  BY <1>1, <1>3, OutsideCleanup, Zenon DEF Crash
<1>4. CASE ~Crash
  <2>1. UNCHANGED <<live, pc, mr, todo, target, firstErr, cont>>
    BY <1>4, Zenon DEF CacheSyncs, TimerFires, Users, World, UserEdits, UserDeletes,
       UserAnnotates, ServiceAccountChanges, ForeignWrite, OtherAddsFinalizer,
       OtherRemovesFinalizer, Disturb, noWorker, locals, cluster
  <2>2. \A e : PruneSkips(e)' <=> PruneSkips(e)
    BY <2>1 DEF PruneSkips
  <2> QED BY <1>1, <1>2, <2>1, <2>2 DEF CleanupInv
<1> QED BY <1>3, <1>4, Zenon

\* Every step keeps the cleanup invariant and the finalizer's promise.
LEMMA NextCleanup ==
    ASSUME ~CacheLag, "foreignWrite" \notin Disturbances,
           IInv, LInv, CleanupInv, [Next]_vars
    PROVE  CleanupInv' /\ FinalizerGuard
<1>1. cache' = api'
  BY CacheFollows DEF CleanupInv
<1>2. CASE LocalSteps
  <2>1. FinalizerGuard
    BY <1>2, LocalStepsWriteNothing DEF FinalizerGuard
  <2>2. CleanupInv'
    BY <1>1, <1>2, StartCleanup, ReconcileCleanup, ImpersonateCleanup, PruneCleanup,
       PruneEndCleanup, Zenon DEF LocalSteps
  <2> QED BY <2>1, <2>2, Zenon
<1>3. CASE addFinalizer \/ removeFinalizer
  BY <1>1, <1>3, FinalizerCleanup
<1>4. CASE patchConditions \/ patchStatus
  BY <1>1, <1>4, PatchCleanup
<1>5. CASE CacheSyncs \/ TimerFires \/ Users \/ World
  BY <1>1, <1>5, EnvironmentCleanup, Zenon
<1>6. CASE UNCHANGED vars
  <2>1. UNCHANGED <<api, cache, live, pc, mr, todo, target, firstErr, cont>>
    BY <1>6, Zenon DEF vars, locals, cluster
  <2>2. \A e : PruneSkips(e)' <=> PruneSkips(e)
    BY <2>1 DEF PruneSkips
  <2> QED BY <2>1, <2>2, Zenon DEF CleanupInv, FinalizerGuard
<1> QED BY <1>2, <1>3, <1>4, <1>5, <1>6, Zenon DEF Next, Worker, LocalSteps

\* handleDeletion keeps its promise for every inventory, every fault of the API
\* server, every restart and every edit of the users: when reads are current
\* and nobody else writes to the objects, the finalizer of a pruning release
\* goes only when each entry of the inventory is gone, protected or no longer
\* this release's.  A stale read breaks it (stale_cache_deletion), and so does
\* another client that puts an object back after Prune has looked at it.
THEOREM FinalizerGoesAfterCleanup ==
    ASSUME ~CacheLag, "foreignWrite" \notin Disturbances
    PROVE  Spec => FinalizerGuardsInventory
<1>1. Init => CleanupInv
  BY DEF Init, CleanupInv
<1>2. IInv /\ LInv /\ CleanupInv /\ [Next]_vars => CleanupInv' /\ FinalizerGuard
  BY NextCleanup
<1>3. Spec => [][FinalizerGuard]_vars
  BY <1>1, <1>2, Invariance, LInvInvariant, PTL DEF Spec
<1> QED BY <1>3, Zenon DEF FinalizerGuard, FinalizerGuardsInventory

-----------------------------------------------------------------------------
(* The observed generation, with the cache in step or lagging behind. *)

\* The generations in the order in which they are copied: what is observed
\* comes from a reconcile, the reconcile from the cache, the cache from the API
\* server; the status patch sends the reconcile's generation or nothing.
ObservedInv ==
    /\ api.exists =>
          /\ api.status.observedGeneration <= cache.generation
          /\ cache.generation <= api.generation
    /\ pc \notin {"idle", "addFinalizer"} =>
          mr.status.observedGeneration \in {old.status.observedGeneration, mr.generation}
    /\ pc \notin {"idle", "addFinalizer"} /\ api.exists =>
          /\ api.status.observedGeneration <= mr.generation
          /\ mr.generation <= cache.generation

\* What ObservedGenerationAdvances says of one step.
ObservedAdvance ==
    api'.exists =>
        /\ api'.status.observedGeneration >= api.status.observedGeneration
        /\ api'.status.observedGeneration <= api'.generation

\* The generations are numbers.
LEMMA GenerationTypes ==
    ASSUME IInv
    PROVE  /\ api.generation \in Nat /\ cache.generation \in Nat /\ mr.generation \in Nat
           /\ api.status.observedGeneration \in Nat /\ mr.status.observedGeneration \in Nat
           /\ old.status.observedGeneration \in Nat
BY Zenon DEF IInv, TypeOK, ModuleReleases, Statuses

\* A step of a reconcile that writes nothing keeps the generation it works on,
\* and leaves the observed generation alone or sets it to that.
LEMMA WorkerObserves ==
    ASSUME IInv, ObservedInv, UNCHANGED <<api, cache>>,
           \/ pc' \in {"idle", "addFinalizer"}
           \/ /\ pc \notin {"idle", "addFinalizer"} /\ old' = old
              /\ mr'.generation = mr.generation
              /\ mr'.status.observedGeneration
                    \in {mr.status.observedGeneration, mr.generation}
           \/ /\ old' = cache /\ mr'.generation = cache.generation
              /\ mr'.status.observedGeneration
                    \in {cache.status.observedGeneration, cache.generation}
    PROVE  ObservedInv' /\ ObservedAdvance
<1>1. ObservedInv'
  BY GenerationTypes, SMTT(30) DEF ObservedInv
<1>2. ObservedAdvance
  BY GenerationTypes DEF ObservedInv, ObservedAdvance
<1> QED BY <1>1, <1>2, Zenon

\* The deferred commit observes the generation that the reconcile worked on.
LEMMA CommitObserves ==
    ASSUME IInv, NEW c, NEW result, NEW again, Commit(c, result, again)
    PROVE  /\ old' = old /\ mr'.generation = mr.generation
           /\ mr'.status.observedGeneration = mr.generation
<1> DEFINE s == CommitStatus(mr.status, result)
<1>1. mr \in ModuleReleases /\ mr.status \in Statuses
  BY Zenon DEF IInv, TypeOK, ModuleReleases
<1>2. s.observedGeneration = mr.generation
  <2>1. CASE result.outcome # "NoOp"
    BY <2>1 DEF CommitStatus
  <2>2. CASE result.outcome = "NoOp"
    BY <1>1, <2>2, Zenon DEF CommitStatus, Statuses
  <2> QED BY <2>1, <2>2
<1> HIDE DEF s
<1>3. \E d : mr' = [mr EXCEPT !.conditions = d, !.status = s]
  <2> DEFINE d == IF result.outcome = "NoOp" THEN MarkReady(c) ELSE c
  <2>1. mr' = [mr EXCEPT !.conditions = d, !.status = CommitStatus(mr.status, result)]
    BY <1>1 DEF Commit, ModuleReleases
  <2> QED BY <2>1, Zenon DEF s
<1>4. mr'.generation = mr.generation /\ mr'.status = s
  BY <1>1, <1>3 DEF ModuleReleases
<1> QED BY <1>2, <1>4, Zenon DEF Commit

\* The steps of a reconcile that write nothing.
LEMMA LocalObserves ==
    ASSUME IInv, ObservedInv, LocalSteps
    PROVE  ObservedInv' /\ ObservedAdvance
<1>1. UNCHANGED <<api, cache>>
  BY LocalStepsWriteNothing, Zenon
<1>2. /\ mr \in ModuleReleases /\ mr.status \in Statuses
      /\ cache \in ModuleReleases /\ cache.status \in Statuses
  BY Zenon DEF IInv, TypeOK, ModuleReleases
<1>3. CASE pc' \in {"idle", "addFinalizer"}
  BY <1>1, <1>3, WorkerObserves, Zenon
<1>4. CASE pc \notin {"idle", "addFinalizer"} /\ \E c, result, again : Commit(c, result, again)
  BY <1>1, <1>4, CommitObserves, WorkerObserves, Zenon
<1>5. CASE pc \notin {"idle", "addFinalizer"} /\ UNCHANGED <<mr, old>>
  BY <1>1, <1>5, WorkerObserves
<1>6. CASE pc \notin {"idle", "addFinalizer"} /\ old' = old
           /\ \E c : mr' = [mr EXCEPT !.conditions = c]
  <2>1. mr'.generation = mr.generation /\ mr'.status = mr.status
    BY <1>2, <1>6, Zenon DEF ModuleReleases
  <2> QED BY <1>1, <1>6, <2>1, WorkerObserves
<1>7. CASE handleDeletion
  BY <1>1, <1>7, WorkerObserves DEF handleDeletion
<1>8. CASE ReconcileSuspended \/ ReconcileStarts
  <2>1. CASE ReconcileStarts
    <3>1. mr'.generation = cache.generation /\ mr'.status = cache.status
      BY <1>2, <2>1 DEF ReconcileStarts, ModuleReleases
    <3> QED BY <1>1, <2>1, <3>1, WorkerObserves DEF ReconcileStarts
  <2>2. CASE ReconcileSuspended
    <3>1. /\ mr'.generation = cache.generation
          /\ mr'.status.observedGeneration = cache.generation
      BY <1>2, <2>2 DEF ReconcileSuspended, ModuleReleases, Statuses
    <3> QED BY <1>1, <2>2, <3>1, WorkerObserves DEF ReconcileSuspended
  <2> QED BY <1>8, <2>1, <2>2
<1>9. CASE RenderModule
  <2>1. PICK c, u : mr' = [mr EXCEPT !.conditions = c, !.status.releaseUUID = u]
    BY <1>2, <1>9, Zenon DEF RenderModule, ModuleReleases
  <2>2. /\ mr'.generation = mr.generation
        /\ mr'.status.observedGeneration = mr.status.observedGeneration
    BY <1>2, <2>1 DEF ModuleReleases, Statuses
  <2> QED BY <1>1, <1>9, <2>2, WorkerObserves DEF RenderModule
<1>10. CASE pc = "impersonate" /\ mr' = [mr EXCEPT !.status.inventory = NoInventory]
            /\ old' = old
  <2>1. /\ mr'.generation = mr.generation
        /\ mr'.status.observedGeneration = mr.status.observedGeneration
    BY <1>2, <1>10 DEF ModuleReleases, Statuses
  <2> QED BY <1>1, <1>10, <2>1, WorkerObserves
<1>11. ASSUME NEW reason, StallDeletion(reason)
       PROVE  old' = old /\ \E c : mr' = [mr EXCEPT !.conditions = c]
  BY <1>2, <1>11, Zenon DEF StallDeletion, ModuleReleases
<1>12. CASE detectDrift
  <2>1. pc = "drift" /\ \E c, failed : Plan(c, failed)
    BY <1>12, Zenon DEF detectDrift
  <2> QED BY <1>4, <1>6, <2>1, Zenon DEF Plan
<1>13. CASE NewImpersonatedClient \/ ImpersonationFails
  <2>1. pc = "impersonate"
    BY <1>13, Zenon DEF NewImpersonatedClient, ImpersonationFails
  <2> QED BY <1>4, <1>5, <1>6, <1>10, <1>11, <1>13, <2>1, Zenon
          DEF NewImpersonatedClient, ImpersonationFails, handleDeletionSAMissing
<1>14. CASE ApplySucceeds
  <2>1. [mr EXCEPT !.conditions = ClearDrifted(@)]
           = [mr EXCEPT !.conditions = ClearDrifted(mr.conditions)]
    BY <1>2 DEF ModuleReleases
  <2>2. pc = "apply"
    BY <1>14 DEF ApplySucceeds
  <2> QED BY <1>4, <1>6, <1>14, <2>1, <2>2, Zenon DEF ApplySucceeds, CommitSuccess
<1>15. CASE RenderFails \/ RenderPanics \/ ApplyFails \/ pruneStaleResources
  <2>1. pc \notin {"idle", "addFinalizer"}
    BY <1>15, Zenon DEF RenderFails, RenderPanics, ApplyFails, pruneStaleResources
  <2> QED BY <1>4, <1>15, <2>1, Zenon
          DEF RenderFails, RenderPanics, ApplyFails, pruneStaleResources, CommitSuccess
<1>16. CASE \/ \E r \in todo : ApplyResource(r)
            \/ \E e \in todo : PruneGet(e) \/ PruneGetFails(e)
            \/ PruneDelete \/ PruneDeleteFails
  BY <1>5, <1>16 DEF ApplyResource, PruneGet, PruneGetFails, PruneDelete,
     PruneDeleteFails, pruneUnchanged
<1>17. CASE pruneForDeletion
  <2>1. pc = "prune"
    BY <1>17 DEF pruneForDeletion
  <2> QED BY <1>3, <1>5, <1>6, <1>11, <1>17, <2>1 DEF pruneForDeletion, locals, Return
<1>18. CASE ReconcileGone \/ ReconcileNoFinalizer
  BY <1>3, <1>18, Zenon DEF ReconcileGone, ReconcileNoFinalizer, Dequeue
<1> QED BY <1>7, <1>8, <1>9, <1>12, <1>13, <1>14, <1>15, <1>16, <1>17, <1>18
        DEF LocalSteps

\* The requests of a reconcile: the status patch writes the generation that
\* the reconcile worked on, or leaves the field alone.
LEMMA RequestObserves ==
    ASSUME IInv, ObservedInv, cache' \in {cache, api, api'},
           addFinalizer \/ removeFinalizer \/ patchConditions \/ patchStatus
    PROVE  ObservedInv' /\ ObservedAdvance
<1>1. api \in ModuleReleases /\ api.status \in Statuses
  BY DEF IInv, TypeOK, ModuleReleases
<1>2. \/ pc' = "idle"
      \/ pc \in PatchPcs /\ UNCHANGED <<mr, old>>
  BY Zenon DEF addFinalizer, removeFinalizer, patchConditions, patchStatus, AfterPatch,
     Return, locals, PatchPcs
<1>3. \/ api' \in {api, Gone}
      \/ /\ api'.exists = api.exists /\ api'.generation = api.generation
         /\ api'.status = api.status
      \/ /\ pc = "patchStatus" /\ api'.exists = api.exists
         /\ api'.generation = api.generation
         /\ api'.status = PatchStatus(api.status, old.status, mr.status)
  <2>1. CASE NoWrite
    BY <2>1 DEF NoWrite
  <2>2. CASE \E f : Write(WithFinalizers(f))
    BY <1>1, <2>2, WriteShows DEF WithFinalizers, ModuleReleases
  <2>3. CASE \E c : Write([api EXCEPT !.conditions = c])
    BY <1>1, <2>3, WriteShows DEF ModuleReleases
  <2>4. CASE pc = "patchStatus"
             /\ Write([api EXCEPT !.status = PatchStatus(@, old.status, mr.status)])
    BY <1>1, <2>4, WriteShows DEF ModuleReleases
  <2> QED BY <2>1, <2>2, <2>3, <2>4, Zenon
          DEF addFinalizer, removeFinalizer, patchConditions, patchStatus, PatchFailure
<1>4. pc = "patchStatus" =>
         PatchStatus(api.status, old.status, mr.status).observedGeneration
            \in {api.status.observedGeneration, mr.generation}
  BY Zenon DEF PatchStatus, Pick, ObservedInv
<1>5. api'.exists =>
         /\ api.exists /\ api'.generation = api.generation
         /\ \/ api'.status.observedGeneration = api.status.observedGeneration
            \/ pc = "patchStatus" /\ api'.status.observedGeneration = mr.generation
  <2>1. CASE api' = Gone
    BY <2>1, Zenon DEF Gone
  <2>2. CASE api'.exists = api.exists /\ api'.generation = api.generation
             /\ api'.status = api.status
    BY <2>2, Zenon
  <2>3. CASE pc = "patchStatus" /\ api'.exists = api.exists
             /\ api'.generation = api.generation
             /\ api'.status = PatchStatus(api.status, old.status, mr.status)
    BY <1>4, <2>3, Zenon
  <2>4. CASE api' = api
    BY <2>4, Zenon
  <2> QED BY <1>3, <2>1, <2>2, <2>3, <2>4, Zenon
<1>6. cache'.generation = cache.generation \/ cache'.generation = api.generation
      \/ cache' = api'
  OBVIOUS
<1>7. ObservedAdvance
  <2> SUFFICES ASSUME api'.exists
               PROVE  /\ api'.status.observedGeneration >= api.status.observedGeneration
                      /\ api'.status.observedGeneration <= api'.generation
    BY Zenon DEF ObservedAdvance
  <2> DEFINE before == api.status.observedGeneration
             after == api'.status.observedGeneration
             at == mr.generation
             seen == cache.generation
             now == api.generation
  <2>1. before <= seen /\ seen <= now
    BY <1>5, Zenon DEF ObservedInv
  <2>2. pc = "patchStatus" => before <= at /\ at <= seen
    BY <1>5, Zenon DEF ObservedInv
  <2>3. after = before \/ (pc = "patchStatus" /\ after = at)
    BY <1>5, Zenon
  <2>4. api'.generation = now
    BY <1>5, Zenon
  <2>5. before \in Nat /\ at \in Nat /\ seen \in Nat /\ now \in Nat
    BY GenerationTypes, Zenon
  <2> HIDE DEF before, after, at, seen, now
  <2>6. after >= before /\ after <= now
    BY <2>1, <2>2, <2>3, <2>5
  <2> QED BY <2>4, <2>6, Zenon DEF before, after
<1>8. api'.exists =>
         /\ api'.status.observedGeneration <= cache'.generation
         /\ cache'.generation <= api'.generation
         /\ pc \in PatchPcs => /\ api'.status.observedGeneration <= mr.generation
                               /\ mr.generation <= cache'.generation
  <2> SUFFICES ASSUME api'.exists
               PROVE  /\ api'.status.observedGeneration <= cache'.generation
                      /\ cache'.generation <= api'.generation
                      /\ pc \in PatchPcs =>
                            /\ api'.status.observedGeneration <= mr.generation
                            /\ mr.generation <= cache'.generation
    OBVIOUS
  <2>1. /\ api.status.observedGeneration <= cache.generation
        /\ cache.generation <= api.generation
        /\ pc \in PatchPcs => /\ api.status.observedGeneration <= mr.generation
                              /\ mr.generation <= cache.generation
    BY <1>5, Zenon DEF ObservedInv, PatchPcs
  <2>2. cache'.generation \in {cache.generation, api.generation}
    BY <1>5, <1>6, Zenon
  <2> DEFINE before == api.status.observedGeneration
             after == api'.status.observedGeneration
             at == mr.generation
             seen == cache.generation
             sees == cache'.generation
             now == api.generation
             patching == pc \in PatchPcs
  <2>3. before <= seen /\ seen <= now /\ (patching => before <= at /\ at <= seen)
    BY <2>1, Zenon
  <2>4. after = before \/ (patching /\ after = at)
    BY <1>5, Zenon DEF PatchPcs
  <2>5. sees \in {seen, now} /\ api'.generation = now
    BY <1>5, <2>2, Zenon
  <2>6. before \in Nat /\ at \in Nat /\ seen \in Nat /\ now \in Nat
    BY GenerationTypes, Zenon
  <2> HIDE DEF before, after, at, seen, sees, now, patching
  <2>7. after <= sees /\ sees <= now /\ (patching => after <= at /\ at <= sees)
    BY <2>3, <2>4, <2>5, <2>6
  <2> QED BY <2>5, <2>7, Zenon DEF after, at, sees, now, patching
<1>9. pc \in PatchPcs =>
         mr.status.observedGeneration \in {old.status.observedGeneration, mr.generation}
  BY Zenon DEF ObservedInv, PatchPcs
<1>10. ObservedInv'
  BY <1>2, <1>8, <1>9 DEF ObservedInv
<1> QED BY <1>7, <1>10, Zenon

\* Users, other controllers, the cache and restarts.
LEMMA EnvironmentObserves ==
    ASSUME IInv, LInv, ObservedInv, cache' \in {cache, api, api'},
           CacheSyncs \/ TimerFires \/ Users \/ World
    PROVE  ObservedInv' /\ ObservedAdvance
<1>1. pc' = "idle" \/ UNCHANGED <<pc, mr, old>>
  BY Zenon DEF CacheSyncs, TimerFires, Users, World, UserEdits, UserDeletes, UserAnnotates,
     Crash, ServiceAccountChanges, ForeignWrite, OtherAddsFinalizer,
     OtherRemovesFinalizer, noWorker, locals
<1>2. api'.exists =>
         /\ api.exists /\ api'.status = api.status /\ api'.generation >= api.generation
  BY OthersWrite
<1>3. api'.generation \in Nat
  <2>1. IInv'
    BY NextIInv, Zenon DEF Next
  <2> QED BY <2>1, GenerationTypes, Zenon DEF IInv, TypeOK, ModuleReleases
<1>4. ObservedAdvance
  BY <1>2, <1>3, GenerationTypes DEF ObservedInv, ObservedAdvance
<1>5. cache'.generation = cache.generation \/ cache'.generation = api.generation
      \/ cache'.generation = api'.generation
  OBVIOUS
<1>6. ObservedInv'
  <2>1. api'.exists => /\ api'.status.observedGeneration <= cache'.generation
                       /\ cache'.generation <= api'.generation
    BY <1>1, <1>2, <1>3, <1>5, GenerationTypes, SMTT(30) DEF ObservedInv
  <2>2. pc' \notin {"idle", "addFinalizer"} =>
           mr'.status.observedGeneration \in {old'.status.observedGeneration, mr'.generation}
    BY <1>1, <1>2, Zenon DEF ObservedInv
  <2>3. pc' \notin {"idle", "addFinalizer"} /\ api'.exists =>
           /\ api'.status.observedGeneration <= mr'.generation
           /\ mr'.generation <= cache'.generation
    BY <1>1, <1>2, <1>3, <1>5, GenerationTypes DEF ObservedInv
  <2> QED BY <2>1, <2>2, <2>3, Zenon DEF ObservedInv
<1> QED BY <1>4, <1>6

\* Every step keeps the order of the generations.
LEMMA NextObserves ==
    ASSUME IInv, LInv, ObservedInv, [Next]_vars
    PROVE  ObservedInv' /\ ObservedAdvance
<1>1. cache' \in {cache, api, api'}
  BY CacheFollows
<1>2. CASE LocalSteps
  BY <1>2, LocalObserves
<1>3. CASE addFinalizer \/ removeFinalizer \/ patchConditions \/ patchStatus
  BY <1>1, <1>3, RequestObserves
<1>4. CASE CacheSyncs \/ TimerFires \/ Users \/ World
  BY <1>1, <1>4, EnvironmentObserves, Zenon
<1>5. CASE UNCHANGED vars
  <2>1. UNCHANGED <<api, cache, pc, mr, old>>
    BY <1>5 DEF vars, locals
  <2> QED BY <2>1, GenerationTypes DEF ObservedInv, ObservedAdvance
<1> QED BY <1>2, <1>3, <1>4, <1>5, Zenon DEF Next, Worker, LocalSteps

\* status.observedGeneration never moves back and never runs ahead of
\* metadata.generation, although every reconcile writes it from a copy that may
\* be stale and the patch carries no resource version.
THEOREM ObservedGenerationNeverMovesBack == Spec => ObservedGenerationAdvances
<1>1. Init => ObservedInv
  <2> SUFFICES ASSUME Init PROVE ObservedInv
    OBVIOUS
  <2>1. PICK spec \in Specs : api = Created(spec)
    BY DEF Init
  <2>2. api.generation = 1 /\ api.status.observedGeneration = 0
    BY <2>1 DEF Created, NoStatus
  <2>3. cache = api /\ pc = "idle"
    BY DEF Init
  <2> QED BY <2>2, <2>3 DEF ObservedInv
<1>2. IInv /\ LInv /\ ObservedInv /\ [Next]_vars => ObservedInv' /\ ObservedAdvance
  BY NextObserves
<1>3. Spec => [][ObservedAdvance]_vars
  BY <1>1, <1>2, Invariance, LInvInvariant, PTL DEF Spec
<1> QED BY <1>3, Zenon DEF ObservedAdvance, ObservedGenerationAdvances

-----------------------------------------------------------------------------
(* The forms a step can take.  Every action of ModuleRelease is one of these, *)
(* so that the arguments below look at a dozen cases, not at every action.    *)

\* The release in the worker's memory is still the one it has read: only the
\* status and the conditions of it have changed.
SameRelease(m, n) ==
    /\ n.exists = m.exists /\ n.generation = m.generation /\ n.spec = m.spec
    /\ n.deleting = m.deleting

\* The recorded outcome of earlier reconciles.
SameRecord(s, t) ==
    /\ t.failureCounters = s.failureCounters /\ t.nextRetryAt = s.nextRetryAt
    /\ t.lastApplied = s.lastApplied /\ t.inventory = s.inventory
    /\ t.history = s.history

\* The worker takes the key: the release is gone, lacks the finalizer, is being
\* deleted, is suspended, or is worked on.
Takes ==
    /\ pc = "idle" /\ queued' = FALSE /\ UNCHANGED <<api, cache, catalog>>
    /\ \/ pc' = "idle" /\ ~cache.exists /\ UNCHANGED <<mr, old, cont>>
       \/ pc' = "addFinalizer" /\ mr' = cache /\ cont' = cont
       \/ /\ pc' \in {"removeFinalizer", "prune", "impersonate"} /\ cont' = cont
          /\ mr' = cache /\ old' = cache /\ cache.deleting
       \/ /\ pc' = "patchConditions" /\ cont' = "suspend"
          /\ old' = cache /\ SameRelease(cache, mr') /\ mr'.orphan = cache.orphan
          /\ ~cache.deleting /\ SameRecord(cache.status, mr'.status)
          /\ mr'.status.releaseUUID = cache.status.releaseUUID
          /\ mr'.status.observedGeneration = cache.generation
          /\ cache.spec.suspend /\ mr'.conditions.ready = "False"
       \/ /\ pc' = "render" /\ cont' = cont
          /\ old' = cache /\ SameRelease(cache, mr') /\ mr'.orphan = cache.orphan
          /\ ~cache.deleting /\ SameRecord(cache.status, mr'.status)
          /\ mr'.status.releaseUUID = cache.status.releaseUUID
          /\ mr'.status.observedGeneration = cache.status.observedGeneration

\* A reconcile goes on within its work, or from its cleanup to the finalizer.
Moves ==
    /\ pc \in WorkPcs
    /\ pc' \in WorkPcs \/ (pc' = "removeFinalizer" /\ mr.deleting)
    /\ UNCHANGED <<api, cache, catalog, queue, old, cont>>
    /\ SameRelease(mr, mr') /\ mr'.orphan = mr.orphan
    /\ SameRecord(mr.status, mr'.status)
    /\ mr'.status.releaseUUID \in {mr.status.releaseUUID, UUIDOf[mr.spec.module]}
    /\ mr'.status.observedGeneration = mr.status.observedGeneration

\* The deferred commit of a no-op, after a panic or because nothing changed.
CommitsNoOp ==
    /\ mr'.status.failureCounters.reconcile = 0 /\ mr'.status.nextRetryAt = 0
    /\ mr'.status.lastApplied = mr.status.lastApplied
    /\ mr'.status.inventory = mr.status.inventory
    /\ mr'.status.history = mr.status.history
    /\ \/ cont' = "retry"
       \/ cont' = "done" /\ IsNoOpNow

\* ... of a failure; only a prune denied to a service account is not recorded.
CommitsFailure ==
    LET n == mr.status.failureCounters.reconcile + 1
    IN  /\ mr'.status.failureCounters.reconcile = n
        /\ mr'.status.nextRetryAt \in {StalledRecheckInterval, ComputeBackoff(n)}
        /\ mr'.status.lastApplied = mr.status.lastApplied
        /\ mr'.status.inventory = mr.status.inventory
        /\ \/ mr'.status.history = recordHistoryEntry(mr.status.history, FALSE)
           \/ firstErr = "forbidden" /\ resolveEffectiveSA(mr) # None
        /\ cont' = "retry"

\* ... of a success.
CommitsSuccess ==
    /\ mr'.status.failureCounters.reconcile = 0 /\ mr'.status.nextRetryAt = 0
    /\ mr'.status.lastApplied = DigestSet(Desired)
    /\ mr'.status.inventory.entries = Entries(Desired)
    /\ mr'.status.inventory.digest = Entries(Desired)
    /\ cont' = "done"

\* The deferred commit, up to the status patch.
Commits ==
    /\ pc \in WorkPcs /\ ~mr.deleting /\ pc' = "patchConditions"
    /\ UNCHANGED <<api, cache, catalog, queue, old>>
    /\ SameRelease(mr, mr') /\ mr'.orphan = mr.orphan
    /\ mr'.status.observedGeneration = mr.generation
    /\ mr'.status.releaseUUID = mr.status.releaseUUID
    /\ CommitsNoOp \/ CommitsFailure \/ CommitsSuccess

\* A deletion that cannot go on: it stalls, or orphans its inventory.
Stalls ==
    /\ pc \in WorkPcs /\ mr.deleting /\ pc' = "patchConditions"
    /\ UNCHANGED <<api, cache, catalog, queue, old>>
    /\ SameRelease(mr, mr') /\ mr'.orphan = mr.orphan
    /\ mr'.status.failureCounters = mr.status.failureCounters
    /\ mr'.status.nextRetryAt = mr.status.nextRetryAt
    /\ mr'.status.history = mr.status.history
    /\ mr'.status.releaseUUID = mr.status.releaseUUID
    /\ \/ cont' = "retry" /\ mr'.status.inventory = mr.status.inventory
       \/ cont' = "orphan" /\ mr'.status.inventory = NoInventory

\* A cleanup that returns its error.
GivesUp ==
    /\ pc \in WorkPcs /\ mr.deleting
    /\ pc' = "idle" /\ timer' = TRUE /\ mr' = Gone /\ old' = Gone /\ cont' = "done"
    /\ UNCHANGED <<api, cache, catalog, queued>>

\* The deferred commit leaves the release itself alone.
LEMMA CommitSameRelease ==
    ASSUME IInv, pc # "idle", NEW c, NEW result, NEW again, Commit(c, result, again)
    PROVE  /\ SameRelease(mr, mr') /\ mr'.orphan = mr.orphan
           /\ mr'.status = CommitStatus(mr.status, result)
           /\ old' = old /\ pc' = "patchConditions"
<1> DEFINE s == CommitStatus(mr.status, result)
           d == IF result.outcome = "NoOp" THEN MarkReady(c) ELSE c
<1>1. mr \in ModuleReleases
  BY DEF IInv, TypeOK
<1>2. mr' = [mr EXCEPT !.conditions = d, !.status = s]
  BY <1>1 DEF Commit, ModuleReleases
<1> HIDE DEF s, d
<1>3. SameRelease(mr, mr') /\ mr'.orphan = mr.orphan /\ mr'.status = s
  BY <1>1, <1>2, Zenon DEF ModuleReleases, SameRelease
<1> QED BY <1>3, Zenon DEF Commit, s

\* A no-op commits zeros and keeps what was recorded.
LEMMA NoOpForm ==
    ASSUME IInv, pc # "idle", NEW c, NEW drift, NEW again,
           Commit(c, NoOpResult(drift), again), again \/ IsNoOpNow
    PROVE  CommitsNoOp
<1> DEFINE u == updateFailureCounters(mr.status.failureCounters, NoOpResult(drift))
<1>1. mr.status \in Statuses
  BY AtWork, Zenon
<1>2. mr'.status = CommitStatus(mr.status, NoOpResult(drift))
  BY CommitSameRelease, Zenon
<1>3. CommitStatus(mr.status, NoOpResult(drift)) = NoOpStatus(mr.status, mr.generation, u)
  BY <1>1 DEF CommitStatus, Statuses, NoOpStatus, NoOpResult
<1>4. u.reconcile = 0
  BY Zenon DEF updateFailureCounters, NoOpResult
<1> HIDE DEF u
<1>5. LET s == NoOpStatus(mr.status, mr.generation, u)
      IN  /\ s.failureCounters = u /\ s.nextRetryAt = 0
          /\ s.lastApplied = mr.status.lastApplied /\ s.inventory = mr.status.inventory
          /\ s.history = mr.status.history
  BY <1>1, Zenon DEF NoOpStatus, Statuses
<1>6. cont' = "retry" \/ (cont' = "done" /\ IsNoOpNow)
  BY DEF Commit
<1> QED BY <1>2, <1>3, <1>4, <1>5, <1>6, Zenon DEF CommitsNoOp

\* A failure counts one more, and asks for a retry.
LEMMA FailureForm ==
    ASSUME IInv, pc # "idle", NEW c, NEW result, Commit(c, result, TRUE),
           result.outcome \in {"FailedTransient", "FailedStalled"}, ~result.reconciled,
           result.retryAfter \in {StalledRecheckInterval,
                                  ComputeBackoff(mr.status.failureCounters.reconcile + 1)},
           result.failed \/ (firstErr = "forbidden" /\ resolveEffectiveSA(mr) # None),
           result.reconciled = FALSE
    PROVE  CommitsFailure
<1>1. mr'.status = CommitStatus(mr.status, result)
  BY CommitSameRelease, Zenon
<1>2. result.outcome # "NoOp"
  OBVIOUS
<1>3. LET s == CommitStatus(mr.status, result)
      IN  /\ s.failureCounters.reconcile = mr.status.failureCounters.reconcile + 1
          /\ s.nextRetryAt = result.retryAfter
          /\ s.lastApplied = mr.status.lastApplied /\ s.inventory = mr.status.inventory
  BY <1>2 DEF CommitStatus, updateFailureCounters, CommitInventory
<1>4. result.failed => CommitStatus(mr.status, result).history
                          = recordHistoryEntry(mr.status.history, FALSE)
  BY <1>2, Zenon DEF CommitStatus
<1>5. cont' = "retry"
  BY DEF Commit
<1> QED BY <1>1, <1>3, <1>4, <1>5, Zenon DEF CommitsFailure

\* A success records what it has applied.
LEMMA SuccessForm ==
    ASSUME IInv, pc # "idle", NEW c, NEW outcome \in {"Applied", "AppliedAndPruned"},
           Commit(c, Succeeded(outcome), FALSE)
    PROVE  CommitsSuccess
<1> DEFINE result == Succeeded(outcome)
<1>1. mr'.status = CommitStatus(mr.status, result)
  BY CommitSameRelease, Zenon
<1>2. /\ result.outcome \notin {"NoOp", "FailedTransient", "FailedStalled"}
      /\ result.reconciled /\ result.digests = DigestSet(Desired) /\ result.retryAfter = 0
  BY DEF Succeeded
<1> HIDE DEF result
<1>3. LET s == CommitStatus(mr.status, result)
      IN  /\ s.failureCounters.reconcile = 0 /\ s.nextRetryAt = 0
          /\ s.lastApplied = DigestSet(Desired)
          /\ s.inventory.entries = Entries(Desired)
          /\ s.inventory.digest = Entries(Desired)
  BY <1>2 DEF CommitStatus, updateFailureCounters, CommitInventory
<1>4. cont' = "done"
  BY DEF Commit
<1> QED BY <1>1, <1>3, <1>4, Zenon DEF CommitsSuccess

\* The worker takes the key.
LEMMA TakesForm ==
    ASSUME IInv, \/ ReconcileGone \/ ReconcileNoFinalizer \/ handleDeletion
                 \/ ReconcileSuspended \/ ReconcileStarts
    PROVE  Takes
<1>1. /\ pc = "idle" /\ queued' = FALSE /\ UNCHANGED <<api, cache, catalog>>
  BY Zenon DEF ReconcileGone, ReconcileNoFinalizer, handleDeletion, ReconcileSuspended,
         ReconcileStarts, Dequeue, cluster
<1>2. cache \in ModuleReleases /\ cache.status \in Statuses /\ cache.conditions \in Conditions
  BY DEF IInv, TypeOK, ModuleReleases
<1>3. CASE ReconcileGone
  BY <1>1, <1>3, Zenon DEF ReconcileGone, Takes, locals
<1>4. CASE ReconcileNoFinalizer
  BY <1>1, <1>4, Zenon DEF ReconcileNoFinalizer, Takes
<1>5. CASE handleDeletion
  <2>1. /\ pc' \in {"removeFinalizer", "prune", "impersonate"} /\ cont' = cont
        /\ mr' = cache /\ old' = cache /\ cache.deleting
    BY <1>5, Zenon DEF handleDeletion
  <2> QED BY <1>1, <2>1, Zenon DEF Takes
<1>6. CASE ReconcileSuspended
  <2> DEFINE d == MarkSuspended(cache.conditions)
             s == [cache.status EXCEPT !.observedGeneration = cache.generation]
  <2>1. /\ pc' = "patchConditions" /\ cont' = "suspend" /\ old' = cache
        /\ ~cache.deleting /\ cache.spec.suspend
    BY <1>6 DEF ReconcileSuspended
  <2>2. mr' = [cache EXCEPT !.conditions = d, !.status = s]
    BY <1>2, <1>6 DEF ReconcileSuspended, ModuleReleases
  <2>3. /\ d.ready = "False"
    BY <1>2 DEF MarkSuspended, Conditions
  <2>4. /\ SameRecord(cache.status, s) /\ s.observedGeneration = cache.generation
        /\ s.releaseUUID = cache.status.releaseUUID
    BY <1>2, Zenon DEF Statuses, SameRecord
  <2> HIDE DEF d, s
  <2>5. /\ SameRelease(cache, mr') /\ mr'.orphan = cache.orphan
        /\ mr'.conditions = d /\ mr'.status = s
    BY <1>2, <2>2, Zenon DEF ModuleReleases, SameRelease
  <2> QED BY <1>1, <2>1, <2>3, <2>4, <2>5, Zenon DEF Takes
<1>7. CASE ReconcileStarts
  <2> DEFINE d == MarkReconciling(cache.conditions)
  <2>1. /\ pc' = "render" /\ cont' = cont /\ old' = cache /\ ~cache.deleting
    BY <1>7 DEF ReconcileStarts
  <2>2. mr' = [cache EXCEPT !.conditions = d]
    BY <1>2, <1>7 DEF ReconcileStarts, ModuleReleases
  <2> HIDE DEF d
  <2>3. SameRelease(cache, mr') /\ mr'.orphan = cache.orphan /\ mr'.status = cache.status
    BY <1>2, <2>2, Zenon DEF ModuleReleases, SameRelease
  <2>4. SameRecord(cache.status, mr'.status)
    BY <2>3 DEF SameRecord
  <2> QED BY <1>1, <2>1, <2>3, <2>4, Zenon DEF Takes
<1> QED BY <1>3, <1>4, <1>5, <1>6, <1>7

\* A step of the work that leaves the release in memory alone, or changes its
\* conditions only.
LEMMA MovesForm ==
    ASSUME IInv, pc \in WorkPcs,
           pc' \in WorkPcs \/ (pc' = "removeFinalizer" /\ mr.deleting),
           UNCHANGED <<api, cache, catalog, queue, old, cont>>,
           mr' = mr \/ \E c : mr' = [mr EXCEPT !.conditions = c]
    PROVE  Moves
<1>1. mr \in ModuleReleases
  BY DEF IInv, TypeOK
<1>2. SameRelease(mr, mr') /\ mr'.orphan = mr.orphan /\ mr'.status = mr.status
  BY <1>1, Zenon DEF ModuleReleases, SameRelease
<1> QED BY <1>2, Zenon DEF Moves, SameRecord

\* The commits of failures, by where they happen.
LEMMA StalledForm ==
    ASSUME IInv, pc # "idle", NEW c, NEW digests, NEW drift, NEW apply,
           Commit(c, Stalled(digests, drift, apply), TRUE)
    PROVE  CommitsFailure
<1> DEFINE result == Stalled(digests, drift, apply)
<1>1. /\ result.outcome = "FailedStalled" /\ ~result.reconciled /\ result.failed
      /\ result.retryAfter = StalledRecheckInterval /\ result.reconciled = FALSE
  BY DEF Stalled
<1> HIDE DEF result
<1>2. Commit(c, result, TRUE)
  BY Zenon DEF result
<1> QED BY <1>1, <1>2, FailureForm, Zenon

\* A transient failure: the retry waits for the backoff of the failures so far.
LEMMA TransientForm ==
    ASSUME IInv, pc # "idle", NEW c, NEW apply, NEW prune,
           Commit(c, Transient(apply, prune), TRUE)
    PROVE  CommitsFailure
<1> DEFINE result == Transient(apply, prune)
<1>1. /\ result.outcome = "FailedTransient" /\ ~result.reconciled /\ result.failed
      /\ result.retryAfter = ComputeBackoff(mr.status.failureCounters.reconcile + 1)
      /\ result.reconciled = FALSE
  BY Zenon DEF Transient
<1> HIDE DEF result
<1>2. Commit(c, result, TRUE)
  BY Zenon DEF result
<1> QED BY <1>1, <1>2, FailureForm, Zenon

\* A prune that the service account may not do: stalled, rechecked later.
LEMMA DeniedForm ==
    ASSUME IInv, pc # "idle", NEW c, Commit(c, Denied, TRUE), Forbidden
    PROVE  CommitsFailure
<1>1. /\ Denied.outcome = "FailedStalled" /\ ~Denied.reconciled
      /\ Denied.retryAfter = StalledRecheckInterval /\ Denied.reconciled = FALSE
  BY DEF Denied
<1>2. firstErr = "forbidden" /\ resolveEffectiveSA(mr) # None
  BY Zenon DEF Forbidden
<1> QED BY <1>1, <1>2, FailureForm, Zenon

\* Whatever a reconcile commits, it is a no-op, a failure or a success.
LEMMA CommitsForm ==
    ASSUME IInv, pc \in WorkPcs, ~mr.deleting, UNCHANGED <<api, cache, catalog, queue>>,
           NEW c, NEW result, NEW again, Commit(c, result, again),
           CommitsNoOp \/ CommitsFailure \/ CommitsSuccess
    PROVE  Commits
<1>1. pc # "idle"
  BY DEF WorkPcs
<1>2. /\ SameRelease(mr, mr') /\ mr'.orphan = mr.orphan
      /\ old' = old /\ pc' = "patchConditions"
  BY <1>1, CommitSameRelease, Zenon
<1>3. mr'.status.observedGeneration = mr.generation
  BY CommitObserves
<1>4. mr'.status.releaseUUID = mr.status.releaseUUID
  <2>1. mr.status \in Statuses /\ mr'.status = CommitStatus(mr.status, result)
    BY <1>1, AtWork, CommitSameRelease, Zenon
  <2> QED BY <2>1 DEF CommitStatus, Statuses
<1> QED BY <1>2, <1>3, <1>4 DEF Commits

\* A deletion stalls.
LEMMA StallForm ==
    ASSUME IInv, pc \in WorkPcs, mr.deleting, UNCHANGED <<api, cache, catalog, queue>>,
           NEW reason, StallDeletion(reason)
    PROVE  Stalls
<1>1. mr \in ModuleReleases
  BY DEF IInv, TypeOK
<1> DEFINE d == MarkStalled(mr.conditions, reason)
<1>2. mr' = [mr EXCEPT !.conditions = d]
  BY <1>1 DEF StallDeletion, ModuleReleases
<1> HIDE DEF d
<1>3. SameRelease(mr, mr') /\ mr'.orphan = mr.orphan /\ mr'.status = mr.status
  BY <1>1, <1>2, Zenon DEF ModuleReleases, SameRelease
<1>4. pc' = "patchConditions" /\ cont' = "retry" /\ old' = old
  BY DEF StallDeletion
<1> QED BY <1>3, <1>4, Zenon DEF Stalls

\* The render phase.
LEMMA RenderForm ==
    ASSUME IInv, LInv, RenderModule \/ RenderFails \/ RenderPanics
    PROVE  Moves \/ Commits
<1>1. pc = "render" /\ UNCHANGED <<api, cache, catalog, queue>>
  BY Zenon DEF RenderModule, RenderFails, RenderPanics, NoEffect, cluster
<1>2. ~mr.deleting /\ pc \in WorkPcs /\ pc # "idle"
  BY <1>1 DEF LInv, ReconcileShape, WorkPcs
<1>3. CASE RenderModule
  <2>1. mr \in ModuleReleases /\ mr.status \in Statuses
    BY <1>2, AtWork
  <2>2. PICK d, u : /\ mr' = [mr EXCEPT !.conditions = d, !.status.releaseUUID = u]
                    /\ u \in {mr.status.releaseUUID, UUIDOf[mr.spec.module]}
    BY <1>3, <2>1, Zenon DEF RenderModule, ModuleReleases
  <2>3. mr' = [mr EXCEPT !.conditions = d, !.status = [mr.status EXCEPT !.releaseUUID = u]]
    BY <2>1, <2>2 DEF ModuleReleases
  <2> DEFINE s == [mr.status EXCEPT !.releaseUUID = u]
  <2>4. /\ SameRecord(mr.status, s) /\ s.observedGeneration = mr.status.observedGeneration
        /\ s.releaseUUID = u
    BY <2>1, Zenon DEF Statuses, SameRecord
  <2> HIDE DEF s
  <2>5. SameRelease(mr, mr') /\ mr'.orphan = mr.orphan /\ mr'.status = s
    BY <2>1, <2>3, Zenon DEF ModuleReleases, SameRelease, s
  <2>6. pc' = "drift" /\ UNCHANGED <<old, cont>>
    BY <1>3 DEF RenderModule
  <2> QED BY <1>1, <1>2, <2>2, <2>4, <2>5, <2>6, Zenon DEF Moves, WorkPcs
<1>4. CASE RenderFails
  <2>1. PICK c, digests : Commit(c, Stalled(digests, "skipped", "skipped"), TRUE)
    BY <1>4, Zenon DEF RenderFails
  <2>2. CommitsFailure
    BY <1>2, <2>1, StalledForm, Zenon
  <2> QED BY <1>1, <1>2, <2>1, <2>2, CommitsForm, Zenon
<1>5. CASE RenderPanics
  <2>1. Commit(mr.conditions, NoOpResult("skipped"), TRUE)
    BY <1>5, Zenon DEF RenderPanics
  <2>2. CommitsNoOp
    BY <1>2, <2>1, NoOpForm, Zenon
  <2> QED BY <1>1, <1>2, <2>1, <2>2, CommitsForm, Zenon
<1> QED BY <1>3, <1>4, <1>5

\* Drift detection and the plan.
LEMMA DriftForm ==
    ASSUME IInv, LInv, detectDrift
    PROVE  Moves \/ Commits
<1>1. pc = "drift" /\ UNCHANGED <<api, cache, catalog, queue>>
  BY Zenon DEF detectDrift, NoEffect, cluster
<1>2. ~mr.deleting /\ pc \in WorkPcs /\ pc # "idle"
  BY <1>1 DEF LInv, ReconcileShape, WorkPcs
<1>3. PICK c, failed : Plan(c, failed)
  BY Zenon DEF detectDrift
<1>4. CASE IsNoOpNow /\ \E drift : Commit(c, NoOpResult(drift), FALSE)
  <2>1. PICK drift : Commit(c, NoOpResult(drift), FALSE)
    BY <1>4, Zenon
  <2>2. CommitsNoOp
    BY <1>2, <1>4, <2>1, NoOpForm, Zenon
  <2> QED BY <1>1, <1>2, <2>1, <2>2, CommitsForm, Zenon
<1>5. CASE /\ mr' = [mr EXCEPT !.conditions = c] /\ UNCHANGED <<old, cont>>
           /\ pc' \in {"apply", "impersonate"}
  BY <1>1, <1>2, <1>5, MovesForm DEF WorkPcs
<1> QED BY <1>3, <1>4, <1>5, Zenon DEF Plan

\* The impersonated client.
LEMMA ImpersonateForm ==
    ASSUME IInv, LInv, NewImpersonatedClient \/ ImpersonationFails
    PROVE  Moves \/ Commits \/ Stalls
<1>1. pc = "impersonate" /\ UNCHANGED <<api, cache, catalog, queue>>
  BY Zenon DEF NewImpersonatedClient, ImpersonationFails, NoEffect, cluster
<1>2. pc \in WorkPcs /\ pc # "idle"
  BY <1>1 DEF WorkPcs
<1>3. CASE NewImpersonatedClient
  <2>1. pc' \in {"prune", "apply"} /\ UNCHANGED <<mr, old, cont>>
    BY <1>3 DEF NewImpersonatedClient
  <2> QED BY <1>1, <1>2, <2>1, MovesForm, Zenon DEF WorkPcs
<1>4. CASE mr.deleting /\ \E reason : StallDeletion(reason)
  BY <1>1, <1>2, <1>4, StallForm
<1>5. CASE /\ mr.deleting /\ mr' = [mr EXCEPT !.status.inventory = NoInventory]
           /\ pc' = "patchConditions" /\ cont' = "orphan" /\ old' = old
  <2> DEFINE s == [mr.status EXCEPT !.inventory = NoInventory]
  <2>1. mr \in ModuleReleases /\ mr.status \in Statuses
    BY <1>2, AtWork
  <2>2. mr' = [mr EXCEPT !.status = s]
    BY <1>5, <2>1 DEF ModuleReleases
  <2>3. /\ s.failureCounters = mr.status.failureCounters
        /\ s.nextRetryAt = mr.status.nextRetryAt
        /\ s.history = mr.status.history /\ s.inventory = NoInventory
        /\ s.releaseUUID = mr.status.releaseUUID
    BY <2>1, Zenon DEF Statuses
  <2> HIDE DEF s
  <2>4. SameRelease(mr, mr') /\ mr'.orphan = mr.orphan /\ mr'.status = s
    BY <2>1, <2>2, Zenon DEF ModuleReleases, SameRelease
  <2> QED BY <1>1, <1>2, <1>5, <2>3, <2>4, Zenon DEF Stalls
<1>6. CASE ~mr.deleting /\ \E c, digests, drift : Commit(c, Stalled(digests, drift, "skipped"), TRUE)
  <2>1. PICK c, digests, drift : Commit(c, Stalled(digests, drift, "skipped"), TRUE)
    BY <1>6, Zenon
  <2>2. CommitsFailure
    BY <1>2, <2>1, StalledForm, Zenon
  <2> QED BY <1>1, <1>2, <1>6, <2>1, <2>2, CommitsForm, Zenon
<1> QED BY <1>3, <1>4, <1>5, <1>6, Zenon DEF ImpersonationFails, handleDeletionSAMissing

\* The apply phase.
LEMMA ApplyForm ==
    ASSUME IInv, LInv, (\E r \in todo : ApplyResource(r)) \/ ApplyFails \/ ApplySucceeds
    PROVE  Moves \/ Commits
<1>1. pc = "apply" /\ UNCHANGED <<api, cache, catalog, queue>>
  BY Zenon DEF ApplyResource, ApplyFails, ApplySucceeds, CommitSuccess, NoEffect, cluster
<1>2. ~mr.deleting /\ pc \in WorkPcs /\ pc # "idle" /\ mr \in ModuleReleases
  BY <1>1, Zenon DEF LInv, ReconcileShape, WorkPcs, IInv, TypeOK
<1>3. CASE \E r \in todo : ApplyResource(r)
  <2>1. UNCHANGED <<pc, mr, old, cont>>
    BY <1>3 DEF ApplyResource
  <2> QED BY <1>1, <1>2, <2>1, MovesForm, Zenon
<1>4. CASE \E c, digests, drift : Commit(c, Stalled(digests, drift, "failed"), TRUE)
  <2>1. PICK c, digests, drift : Commit(c, Stalled(digests, drift, "failed"), TRUE)
    BY <1>4, Zenon
  <2>2. CommitsFailure
    BY <1>2, <2>1, StalledForm, Zenon
  <2> QED BY <1>1, <1>2, <2>1, <2>2, CommitsForm, Zenon
<1>5. CASE \E c : Commit(c, Transient("failed", "skipped"), TRUE)
  <2>1. PICK c : Commit(c, Transient("failed", "skipped"), TRUE)
    BY <1>5, Zenon
  <2>2. CommitsFailure
    BY <1>2, <2>1, TransientForm, Zenon
  <2> QED BY <1>1, <1>2, <2>1, <2>2, CommitsForm, Zenon
<1>6. CASE \E c : Commit(c, Succeeded("Applied"), FALSE)
  <2>1. PICK c : Commit(c, Succeeded("Applied"), FALSE)
    BY <1>6, Zenon
  <2>2. CommitsSuccess
    BY <1>2, <2>1, SuccessForm, Zenon
  <2> QED BY <1>1, <1>2, <2>1, <2>2, CommitsForm, Zenon
<1>7. CASE /\ mr' = [mr EXCEPT !.conditions = ClearDrifted(@)] /\ pc' = "prune"
           /\ UNCHANGED <<old, cont>>
  <2>1. mr' = [mr EXCEPT !.conditions = ClearDrifted(mr.conditions)]
    BY <1>2, <1>7 DEF ModuleReleases
  <2> QED BY <1>1, <1>2, <1>7, <2>1, MovesForm, Zenon DEF WorkPcs
<1> QED BY <1>3, <1>4, <1>5, <1>6, <1>7, Zenon DEF ApplyFails, ApplySucceeds, CommitSuccess

\* Prune, of stale entries or in a deletion.
LEMMA PruneForm ==
    ASSUME IInv, LInv,
           \/ \E e \in todo : PruneGet(e) \/ PruneGetFails(e)
           \/ PruneDelete \/ PruneDeleteFails
           \/ pruneStaleResources \/ pruneForDeletion
    PROVE  Moves \/ Commits \/ Stalls \/ GivesUp
<1>1. pc = "prune" /\ UNCHANGED <<api, cache, catalog>>
  BY Zenon DEF PruneGet, PruneGetFails, PruneDelete, PruneDeleteFails, pruneUnchanged,
     pruneStaleResources, pruneForDeletion, CommitSuccess, NoEffect, cluster
<1>2. pc \in WorkPcs /\ pc # "idle"
  BY <1>1 DEF WorkPcs
<1>3. CASE \/ \E e \in todo : PruneGet(e) \/ PruneGetFails(e)
           \/ PruneDelete \/ PruneDeleteFails
  <2>1. UNCHANGED <<pc, mr, old, cont, queue>>
    BY <1>3, Zenon DEF PruneGet, PruneGetFails, PruneDelete, PruneDeleteFails, pruneUnchanged
  <2> QED BY <1>1, <1>2, <2>1, MovesForm
<1>4. CASE pruneStaleResources
  <2>1. ~mr.deleting /\ UNCHANGED queue
    BY <1>4, Zenon DEF pruneStaleResources, CommitSuccess, NoEffect
  <2>2. CASE \E c : Commit(c, Succeeded("AppliedAndPruned"), FALSE)
    <3>1. PICK c : Commit(c, Succeeded("AppliedAndPruned"), FALSE)
      BY <2>2, Zenon
    <3>2. CommitsSuccess
      BY <1>2, <3>1, SuccessForm, Zenon
    <3> QED BY <1>1, <1>2, <2>1, <3>1, <3>2, CommitsForm, Zenon
  <2>3. CASE Forbidden /\ \E c : Commit(c, Denied, TRUE)
    <3>1. PICK c : Commit(c, Denied, TRUE)
      BY <2>3, Zenon
    <3>2. CommitsFailure
      BY <1>2, <2>3, <3>1, DeniedForm, Zenon
    <3> QED BY <1>1, <1>2, <2>1, <3>1, <3>2, CommitsForm, Zenon
  <2>4. CASE \E c : Commit(c, Transient("ok", "failed"), TRUE)
    <3>1. PICK c : Commit(c, Transient("ok", "failed"), TRUE)
      BY <2>4, Zenon
    <3>2. CommitsFailure
      BY <1>2, <3>1, TransientForm, Zenon
    <3> QED BY <1>1, <1>2, <2>1, <3>1, <3>2, CommitsForm, Zenon
  <2> QED BY <1>4, <2>2, <2>3, <2>4, Zenon DEF pruneStaleResources, CommitSuccess
<1>5. CASE pruneForDeletion
  <2>1. mr.deleting
    BY <1>5 DEF pruneForDeletion
  <2>2. CASE pc' = "removeFinalizer" /\ UNCHANGED <<queue, locals>>
    <3>1. UNCHANGED <<mr, old, cont>>
      BY <2>2 DEF locals
    <3> QED BY <1>1, <1>2, <2>1, <2>2, <3>1, MovesForm
  <2>3. CASE UNCHANGED queue /\ StallDeletion("ImpersonationFailed")
    BY <1>1, <1>2, <2>1, <2>3, StallForm
  <2>4. CASE Return(TRUE) /\ UNCHANGED queued
    BY <1>1, <1>2, <2>1, <2>4, Zenon DEF Return, GivesUp
  <2> QED BY <1>5, <2>2, <2>3, <2>4, Zenon DEF pruneForDeletion
<1> QED BY <1>3, <1>4, <1>5

\* Every step of a reconcile that writes nothing to the API server.
LEMMA LocalForms ==
    ASSUME IInv, LInv, LocalSteps
    PROVE  Takes \/ Moves \/ Commits \/ Stalls \/ GivesUp
BY TakesForm, RenderForm, DriftForm, ImpersonateForm, ApplyForm, PruneForm, Zenon
   DEF LocalSteps

-----------------------------------------------------------------------------
(* The requests of a reconcile, and everybody else. *)

\* Everything in the API server's copy but the finalizers stays.
SameServer(a, b) ==
    /\ SameRelease(a, b) /\ b.orphan = a.orphan
    /\ b.status = a.status /\ b.conditions = a.conditions

\* A request for the finalizers ends the reconcile: with a requeue, or with the
\* finalizer removed.
SendsFinalizers ==
    /\ pc \in {"addFinalizer", "removeFinalizer"}
    /\ pc' = "idle" /\ mr' = Gone /\ old' = Gone /\ cont' = "done"
    /\ UNCHANGED catalog
    /\ \/ NoWrite /\ timer' = TRUE
       \/ /\ Write(api') /\ api.exists
          /\ api' = Gone \/ SameServer(api, api')
          /\ \/ /\ pc = "addFinalizer" /\ timer' = TRUE
                /\ FinalizerName \in api'.finalizers
             \/ /\ pc = "removeFinalizer" /\ timer' = timer
                /\ FinalizerName \notin api'.finalizers

\* The two requests of the status patch; only an object that is gone or a fault
\* makes one fail.
SendsConditions ==
    /\ pc = "patchConditions" /\ pc' = "patchStatus"
    /\ UNCHANGED <<catalog, timer, mr, old>>
    /\ \/ /\ api.exists /\ Write(api') /\ SameRelease(api, api')
          /\ api'.status = api.status /\ api'.finalizers = api.finalizers
          /\ api'.orphan = api.orphan
          /\ api'.conditions = PatchConditions(api.conditions, old.conditions, mr.conditions,
                                               ~mr.deleting /\ ~mr.spec.suspend)
          /\ cont' = cont
       \/ /\ ~api.exists \/ "patch" \in Disturbances
          /\ NoWrite /\ cont' = (IF cont = "suspend" THEN "retry" ELSE cont)

SendsStatus ==
    /\ pc = "patchStatus" /\ UNCHANGED catalog
    /\ \/ /\ api.exists /\ Write(api') /\ SameRelease(api, api')
          /\ api'.conditions = api.conditions /\ api'.finalizers = api.finalizers
          /\ api'.orphan = api.orphan
          /\ api'.status = PatchStatus(api.status, old.status, mr.status)
          /\ AfterPatch(FALSE)
       \/ /\ ~api.exists \/ "patch" \in Disturbances
          /\ NoWrite /\ AfterPatch(TRUE)

\* Users, other controllers, the cache and the clock: they leave the worker
\* alone; a change of the spec or a deletion moves the generation.
OthersAct ==
    /\ UNCHANGED <<pc, mr, old, cont, todo, target, catalog>>
    /\ \/ /\ UNCHANGED <<api, timer>> /\ cache' = api
          /\ queued' = (queued \/ EventPasses(cache, api))
       \/ /\ UNCHANGED <<api, cache>>
          /\ queued' = TRUE \/ UNCHANGED <<queued, timer>>
       \/ /\ api.exists /\ Write(api') /\ UNCHANGED timer
          /\ \/ api' = Gone /\ FinalizerName \notin api.finalizers
             \/ /\ api'.exists /\ api'.status = api.status
                /\ api'.conditions = api.conditions
                /\ FinalizerName \in api'.finalizers <=> FinalizerName \in api.finalizers
                /\ api'.spec \in {api.spec} \cup Specs
                /\ api.deleting => api'.deleting
                /\ api.orphan => api'.orphan
                /\ SameRelease(api, api') \/ api'.generation = api.generation + 1

\* The operator restarts.
Restarts ==
    /\ "crash" \in Disturbances
    /\ UNCHANGED api /\ cache' = api /\ queued' = api.exists
    /\ pc' = "idle" /\ mr' = Gone /\ old' = Gone /\ cont' = "done"

\* The requests for the finalizers.
LEMMA FinalizersForm ==
    ASSUME IInv, LInv, addFinalizer \/ removeFinalizer
    PROVE  SendsFinalizers
<1>1. /\ pc \in {"addFinalizer", "removeFinalizer"}
      /\ pc' = "idle" /\ mr' = Gone /\ old' = Gone /\ cont' = "done" /\ UNCHANGED catalog
  BY Zenon DEF addFinalizer, removeFinalizer, Return, cluster
<1>2. api \in ModuleReleases
  BY DEF IInv, TypeOK
<1>3. ASSUME NEW f, Write(WithFinalizers(f))
      PROVE  /\ Write(api')
             /\ api' = Gone \/ (SameServer(api, api') /\ api'.finalizers = f)
  <2>1. api' = WithFinalizers(f) /\ Write(api')
    BY <1>3, WriteShows, Zenon
  <2>2. CASE api' = [api EXCEPT !.finalizers = f]
    BY <1>2, <2>1, <2>2, Zenon DEF SameServer, SameRelease, ModuleReleases
  <2> QED BY <2>1, <2>2, Zenon DEF WithFinalizers
<1>4. FinalizerName \notin Gone.finalizers
  BY DEF Gone
<1>5. CASE addFinalizer
  <2>1. timer' = TRUE
    BY <1>5, Zenon DEF addFinalizer, Return
  <2>2. CASE NoWrite
    BY <1>1, <2>1, <2>2, Zenon DEF SendsFinalizers
  <2>3. CASE ~NoWrite
    <3> DEFINE f == mr.finalizers \cup {FinalizerName}
    <3>1. FinalizersAccepted(f) /\ Write(WithFinalizers(f)) /\ FinalizerName \in f
      BY <1>5, <2>3, Zenon DEF addFinalizer
    <3> HIDE DEF f
    <3>2. api.exists /\ pc = "addFinalizer"
      BY <1>5, <3>1, Zenon DEF FinalizersAccepted, addFinalizer
    <3>3. api' = [api EXCEPT !.finalizers = f]
      <4>1. api' = WithFinalizers(f) /\ f # {}
        BY <3>1, WriteShows, Zenon
      <4> QED BY <4>1 DEF WithFinalizers
    <3>4. FinalizerName \in api'.finalizers
      BY <1>2, <3>1, <3>3, Zenon DEF ModuleReleases
    <3> QED BY <1>1, <1>3, <2>1, <3>1, <3>2, <3>4, Zenon DEF SendsFinalizers
  <2> QED BY <2>2, <2>3
<1>6. CASE removeFinalizer
  <2>1. CASE NoWrite /\ Return(TRUE)
    <3>1. timer' = TRUE
      BY <2>1, Zenon DEF Return
    <3> QED BY <1>1, <2>1, <3>1, Zenon DEF SendsFinalizers
  <2>2. CASE /\ FinalizersAccepted(mr.finalizers \ {FinalizerName})
             /\ Write(WithFinalizers(mr.finalizers \ {FinalizerName})) /\ Return(FALSE)
    <3>1. api.exists /\ pc = "removeFinalizer"
      BY <1>6, <2>2, Zenon DEF FinalizersAccepted, removeFinalizer
    <3>2. timer' = timer
      <4>1. timer \in BOOLEAN
        BY Zenon DEF IInv, TypeOK
      <4> QED BY <2>2, <4>1, Zenon DEF Return
    <3>3. FinalizerName \notin api'.finalizers
      BY <1>3, <1>4, <2>2
    <3> QED BY <1>1, <1>3, <2>2, <3>1, <3>2, <3>3, Zenon DEF SendsFinalizers
  <2> QED BY <1>6, <2>1, <2>2, Zenon DEF removeFinalizer
<1> QED BY <1>5, <1>6

\* The requests of the status patch.
LEMMA PatchForm ==
    ASSUME IInv, patchConditions \/ patchStatus
    PROVE  SendsConditions \/ SendsStatus
<1>1. api \in ModuleReleases
  BY DEF IInv, TypeOK
<1>2. PatchFailure => NoWrite /\ (~api.exists \/ "patch" \in Disturbances)
  BY Zenon DEF PatchFailure, Disturb
<1>3. CASE patchConditions
  <2> DEFINE c == PatchConditions(api.conditions, old.conditions, mr.conditions,
                                  ~mr.deleting /\ ~mr.spec.suspend)
  <2>1. /\ pc = "patchConditions" /\ pc' = "patchStatus"
        /\ UNCHANGED <<catalog, timer, mr, old>>
    BY <1>3, Zenon DEF patchConditions, cluster
  <2>2. CASE PatchFailure /\ cont' = (IF cont = "suspend" THEN "retry" ELSE cont)
    BY <1>2, <2>1, <2>2, Zenon DEF SendsConditions
  <2>3. CASE /\ api.exists /\ cont' = cont
             /\ Write([api EXCEPT !.conditions = PatchConditions(@, old.conditions,
                          mr.conditions, ~mr.deleting /\ ~mr.spec.suspend)])
    <3> DEFINE new == [api EXCEPT !.conditions = PatchConditions(@, old.conditions,
                           mr.conditions, ~mr.deleting /\ ~mr.spec.suspend)]
    <3>1. new = [api EXCEPT !.conditions = c]
      BY <1>1, Zenon DEF ModuleReleases
    <3>2. Write(new)
      BY <2>3
    <3> HIDE DEF new
    <3>3. api' = new /\ Write(api')
      BY <3>2, WriteShows
    <3> HIDE DEF c
    <3>4. /\ SameRelease(api, api') /\ api'.status = api.status
          /\ api'.finalizers = api.finalizers /\ api'.conditions = c
          /\ api'.orphan = api.orphan
      BY <1>1, <3>3, <3>1, Zenon DEF SameRelease, ModuleReleases
    <3> QED BY <2>1, <2>3, <3>3, <3>4, Zenon DEF SendsConditions, c
  <2> QED BY <1>3, <2>2, <2>3, Zenon DEF patchConditions
<1>4. CASE patchStatus
  <2> DEFINE s == PatchStatus(api.status, old.status, mr.status)
  <2>1. pc = "patchStatus" /\ UNCHANGED catalog
    BY <1>4, Zenon DEF patchStatus, cluster
  <2>2. CASE PatchFailure /\ AfterPatch(TRUE)
    BY <1>2, <2>1, <2>2, Zenon DEF SendsStatus
  <2>3. CASE /\ api.exists /\ AfterPatch(FALSE)
             /\ Write([api EXCEPT !.status = PatchStatus(@, old.status, mr.status)])
    <3>1. /\ api' = [api EXCEPT !.status = PatchStatus(@, old.status, mr.status)]
          /\ Write(api')
      BY <2>3, WriteShows, Zenon
    <3>2. api' = [api EXCEPT !.status = s]
      BY <1>1, <3>1, Zenon DEF ModuleReleases
    <3> HIDE DEF s
    <3>3. /\ SameRelease(api, api') /\ api'.conditions = api.conditions
          /\ api'.finalizers = api.finalizers /\ api'.status = s
          /\ api'.orphan = api.orphan
      BY <1>1, <3>2, Zenon DEF SameRelease, ModuleReleases
    <3> QED BY <2>1, <2>3, <3>1, <3>3, Zenon DEF SendsStatus, s
  <2> QED BY <1>4, <2>2, <2>3, Zenon DEF patchStatus
<1> QED BY <1>3, <1>4, Zenon

\* Users, other controllers, the cache, the clock and restarts.
LEMMA OthersForm ==
    ASSUME IInv, LInv, CacheSyncs \/ TimerFires \/ Users \/ World
    PROVE  OthersAct \/ Restarts
<1>1. CASE Crash
  BY <1>1, Zenon DEF Crash, Restarts, Disturb
<1>2. CASE CacheSyncs \/ TimerFires \/ ServiceAccountChanges \/ \E o \in Objects : ForeignWrite(o)
  BY <1>2, Zenon DEF CacheSyncs, TimerFires, ServiceAccountChanges, ForeignWrite, OthersAct,
     noWorker, locals, cluster, queue
<1>3. CASE Users \/ OtherAddsFinalizer \/ OtherRemovesFinalizer
  <2>1. /\ UNCHANGED <<pc, mr, old, cont, todo, target, catalog, timer>>
        /\ \E new : Write(new)
    BY <1>3, Zenon DEF Users, UserEdits, UserDeletes, UserAnnotates, OtherAddsFinalizer,
       OtherRemovesFinalizer, noWorker, locals, cluster
  <2>2. Write(api')
    BY <2>1, WriteShows, Zenon
  <2>3. /\ api \in ModuleReleases /\ FinalizerName # OtherFinalizer
        /\ api.deleting => api.exists
    BY Zenon DEF IInv, TypeOK, LInv, ServerShape, FinalizerName, OtherFinalizer
  <2> DEFINE g == api.generation + 1
             Removed == api' = Gone /\ FinalizerName \notin api.finalizers
             Changed == /\ api'.exists /\ api'.status = api.status
                        /\ api'.conditions = api.conditions
                        /\ FinalizerName \in api'.finalizers <=> FinalizerName \in api.finalizers
                        /\ api'.spec \in {api.spec} \cup Specs
                        /\ api.deleting => api'.deleting
                        /\ api.orphan => api'.orphan
                        /\ SameRelease(api, api') \/ api'.generation = g
  <2>4. ASSUME NEW spec \in Specs, UserEdits(spec)
        PROVE  api.exists /\ Changed
    <3>1. api' = [api EXCEPT !.spec = spec, !.generation = g] /\ api.exists
      BY <2>4, WriteShows, Zenon DEF UserEdits
    <3> HIDE DEF g
    <3> QED BY <2>3, <3>1, Zenon DEF ModuleReleases
  <2>5. ASSUME UserDeletes
        PROVE  api.exists /\ (Removed \/ Changed)
    <3>1. /\ api.exists
          /\ \/ api' = Gone /\ api.finalizers = {}
             \/ api' = [api EXCEPT !.deleting = TRUE, !.generation = g]
      BY <2>5, WriteShows, Zenon DEF UserDeletes
    <3> HIDE DEF g
    <3> QED BY <2>3, <3>1, Zenon DEF ModuleReleases
  <2>6. ASSUME UserAnnotates
        PROVE  api.exists /\ Changed
    <3>1. api' = [api EXCEPT !.orphan = TRUE] /\ api.exists
      BY <2>6, WriteShows, Zenon DEF UserAnnotates
    <3> HIDE DEF g
    <3> QED BY <2>3, <3>1, Zenon DEF ModuleReleases, SameRelease
  <2>7. ASSUME OtherAddsFinalizer \/ OtherRemovesFinalizer
        PROVE  api.exists /\ (Removed \/ Changed)
    <3>1. PICK f : /\ f \in {api.finalizers \cup {OtherFinalizer},
                             api.finalizers \ {OtherFinalizer}}
                   /\ Write(WithFinalizers(f))
      BY <2>7, Zenon DEF OtherAddsFinalizer, OtherRemovesFinalizer
    <3>2. FinalizerName \in f <=> FinalizerName \in api.finalizers
      BY <2>3, <3>1
    <3>3. api.exists
      BY <2>3, <2>7, Zenon DEF OtherAddsFinalizer, OtherRemovesFinalizer
    <3>4. (api' = Gone /\ f = {}) \/ api' = [api EXCEPT !.finalizers = f]
      BY <3>1, WriteShows, Zenon DEF WithFinalizers
    <3> HIDE DEF g
    <3> QED BY <2>3, <3>2, <3>3, <3>4, Zenon DEF ModuleReleases, SameRelease
  <2>8. api.exists /\ (Removed \/ Changed)
    BY <1>3, <2>4, <2>5, <2>6, <2>7, Zenon DEF Users
  <2> QED BY <2>1, <2>2, <2>8, Zenon DEF OthersAct
<1> QED BY <1>1, <1>2, <1>3, Zenon DEF World

\* Every step has one of the forms.
LEMMA NextForms ==
    ASSUME IInv, LInv, [Next]_vars
    PROVE  \/ Takes \/ Moves \/ Commits \/ Stalls \/ GivesUp
           \/ SendsFinalizers \/ SendsConditions \/ SendsStatus \/ OthersAct \/ Restarts
<1>1. CASE UNCHANGED vars
  BY <1>1, Zenon DEF vars, locals, cluster, queue, OthersAct
<1>2. CASE LocalSteps
  BY <1>2, LocalForms
<1>3. CASE addFinalizer \/ removeFinalizer \/ patchConditions \/ patchStatus
  BY <1>3, FinalizersForm, PatchForm
<1>4. CASE CacheSyncs \/ TimerFires \/ Users \/ World
  BY <1>4, OthersForm
<1> QED BY <1>1, <1>2, <1>3, <1>4, Zenon DEF Next, Worker, LocalSteps

-----------------------------------------------------------------------------
(* The cluster.  What a reconcile does to it, phase by phase. *)

EarlyPcs == {"render", "drift", "impersonate"}

\* Only the apply of a resource, the DELETE of Prune and other clients change
\* the cluster.
LEMMA LiveSteps ==
    ASSUME [Next]_vars, live' # live
    PROVE  (\E r \in todo : ApplyResource(r)) \/ PruneDelete \/ "foreignWrite" \in Disturbances
<1> USE DEF cluster, NoEffect, Dequeue
<1>1. CASE UNCHANGED vars
  BY <1>1 DEF vars
<1>2. CASE ReconcileGone \/ ReconcileNoFinalizer \/ handleDeletion \/ ReconcileSuspended
           \/ ReconcileStarts \/ addFinalizer \/ removeFinalizer
  BY <1>2, Zenon DEF ReconcileGone, ReconcileNoFinalizer, handleDeletion, ReconcileSuspended,
              ReconcileStarts, addFinalizer, removeFinalizer
<1>3. CASE RenderModule \/ RenderFails \/ RenderPanics \/ detectDrift
           \/ NewImpersonatedClient \/ ImpersonationFails
  BY <1>3, Zenon DEF RenderModule, RenderFails, RenderPanics, detectDrift, NewImpersonatedClient,
              ImpersonationFails
<1>4. CASE ApplyFails \/ ApplySucceeds \/ pruneStaleResources \/ pruneForDeletion
  BY <1>4, Zenon DEF ApplyFails, ApplySucceeds, pruneStaleResources, pruneForDeletion, CommitSuccess
<1>5. CASE (\E e \in todo : PruneGet(e) \/ PruneGetFails(e)) \/ PruneDeleteFails
  BY <1>5, Zenon DEF PruneGet, PruneGetFails, PruneDeleteFails
<1>6. CASE patchConditions \/ patchStatus
  BY <1>6, Zenon DEF patchConditions, patchStatus
<1>7. CASE CacheSyncs \/ TimerFires \/ Users
  BY <1>7, Zenon DEF CacheSyncs, TimerFires, Users, UserDeletes, UserAnnotates, UserEdits
<1>8. CASE World
  BY <1>8, Zenon DEF World, Crash, ServiceAccountChanges, ForeignWrite, OtherAddsFinalizer,
                     OtherRemovesFinalizer, Disturb
<1> QED BY <1>1, <1>2, <1>3, <1>4, <1>5, <1>6, <1>7, <1>8, Zenon DEF Next, Worker

\* Before the apply phase nothing is applied and nothing is recorded as applied;
\* the apply phase starts with everything to apply.
EarlyPhase ==
    /\ pc \in EarlyPcs
    /\ UNCHANGED live
    /\ mr'.status.lastApplied = mr.status.lastApplied
    /\ mr'.status.inventory = mr.status.inventory
    /\ \/ pc' \in EarlyPcs \cup {"patchConditions"}
       \/ pc' = "apply" /\ todo' = Desired

\* The apply phase ends with everything applied, and with a prune of what is
\* stale if there is something to prune.
ApplyPhase ==
    \/ \E r \in todo : ApplyResource(r)
    \/ /\ pc = "apply" /\ todo = {} /\ UNCHANGED live
       /\ \/ /\ pc' = "prune" /\ todo' = StaleSet /\ target' = target
             /\ mr'.status = mr.status
          \/ /\ pc' = "patchConditions" /\ CommitsSuccess
             /\ ~mr.spec.prune \/ StaleSet = {}

\* The prune phase ends with every stale entry looked at.
PrunePhase ==
    \/ \E e \in todo : PruneGet(e)
    \/ PruneDelete
    \/ /\ pc = "prune" /\ todo = {} /\ target = None /\ UNCHANGED live
       /\ pc' = "patchConditions" /\ CommitsSuccess

\* Render, drift detection and impersonation.
LEMMA EarlyPhases ==
    ASSUME IInv, LInv, ~mr.deleting, LocalSteps, pc \in EarlyPcs
    PROVE  EarlyPhase
<1> USE DEF EarlyPcs
<1>1. pc # "idle" /\ pc \notin {"apply", "prune"}
  OBVIOUS
<1>2. \/ RenderModule \/ RenderFails \/ RenderPanics \/ detectDrift
      \/ NewImpersonatedClient \/ ImpersonationFails
  BY <1>1, Zenon DEF LocalSteps, ReconcileGone, ReconcileNoFinalizer, handleDeletion,
     ReconcileSuspended, ReconcileStarts, Dequeue, ApplyResource, ApplyFails, ApplySucceeds,
     PruneGet, PruneGetFails, PruneDelete, PruneDeleteFails, pruneStaleResources,
     pruneForDeletion
<1>3. UNCHANGED live
  BY <1>2, Zenon DEF RenderModule, RenderFails, RenderPanics, detectDrift,
     NewImpersonatedClient, ImpersonationFails, NoEffect, cluster
<1>4. CASE (CommitsNoOp \/ CommitsFailure) /\ pc' = "patchConditions"
  BY <1>3, <1>4, Zenon DEF CommitsNoOp, CommitsFailure, EarlyPhase
<1>5. CASE Moves /\ (pc' \in EarlyPcs \/ (pc' = "apply" /\ todo' = Desired))
  BY <1>3, <1>5, Zenon DEF Moves, SameRecord, EarlyPhase
<1>6. CASE RenderModule
  <2>1. pc' = "drift"
    BY <1>6, Zenon DEF RenderModule
  <2>2. Moves
    BY <1>6, <2>1, RenderForm DEF Commits
  <2> QED BY <1>5, <2>1, <2>2
<1>7. CASE RenderFails
  <2>1. PICK c, digests : Commit(c, Stalled(digests, "skipped", "skipped"), TRUE)
    BY <1>7, Zenon DEF RenderFails
  <2>2. CommitsFailure
    BY <1>1, <2>1, StalledForm, Zenon
  <2> QED BY <1>4, <2>1, <2>2, Zenon DEF Commit
<1>8. CASE RenderPanics
  <2>1. Commit(mr.conditions, NoOpResult("skipped"), TRUE)
    BY <1>8, Zenon DEF RenderPanics
  <2>2. CommitsNoOp
    BY <1>1, <2>1, NoOpForm, Zenon
  <2> QED BY <1>4, <2>1, <2>2, Zenon DEF Commit
<1>9. CASE detectDrift
  <2>1. PICK c, failed : Plan(c, failed)
    BY <1>9, Zenon DEF detectDrift
  <2>2. CASE IsNoOpNow /\ \E drift : Commit(c, NoOpResult(drift), FALSE)
    <3>1. PICK drift : Commit(c, NoOpResult(drift), FALSE)
      BY <2>2, Zenon
    <3>2. CommitsNoOp
      BY <1>1, <2>2, <3>1, NoOpForm, Zenon
    <3> QED BY <1>4, <3>1, <3>2, Zenon DEF Commit
  <2>3. CASE pc' = "impersonate" \/ (pc' = "apply" /\ todo' = Desired)
    <3>1. Moves
      BY <1>9, <2>3, DriftForm DEF Commits
    <3> QED BY <1>5, <2>3, <3>1, Zenon
  <2> QED BY <2>1, <2>2, <2>3, Zenon DEF Plan
<1>10. CASE NewImpersonatedClient
  <2>1. pc' = "apply" /\ todo' = Desired
    BY <1>10 DEF NewImpersonatedClient
  <2>2. Moves
    BY <1>10, <2>1, ImpersonateForm, Zenon DEF Commits, Stalls
  <2> QED BY <1>5, <2>1, <2>2, Zenon
<1>11. CASE ImpersonationFails
  <2>1. PICK c, digests, drift : Commit(c, Stalled(digests, drift, "skipped"), TRUE)
    BY <1>11, Zenon DEF ImpersonationFails
  <2>2. CommitsFailure
    BY <1>1, <2>1, StalledForm, Zenon
  <2> QED BY <1>4, <2>1, <2>2, Zenon DEF Commit
<1> QED BY <1>2, <1>6, <1>7, <1>8, <1>9, <1>10, <1>11

\* The apply phase, when no request of it fails.
LEMMA ApplyPhases ==
    ASSUME "apply" \notin Disturbances, IInv, LInv, ~mr.deleting, LocalSteps, pc = "apply"
    PROVE  ApplyPhase
<1>1. (\E r \in todo : ApplyResource(r)) \/ ApplySucceeds
  BY Zenon DEF LocalSteps, ReconcileGone, ReconcileNoFinalizer, handleDeletion,
     ReconcileSuspended, ReconcileStarts, Dequeue, RenderModule, RenderFails, RenderPanics,
     detectDrift, NewImpersonatedClient, ImpersonationFails, ApplyFails, Disturb,
     PruneGet, PruneGetFails, PruneDelete, PruneDeleteFails, pruneStaleResources,
     pruneForDeletion
<1>2. CASE ApplySucceeds
  <2>1. todo = {} /\ UNCHANGED live
    BY <1>2, Zenon DEF ApplySucceeds, CommitSuccess, NoEffect, cluster
  <2>2. CASE /\ mr' = [mr EXCEPT !.conditions = ClearDrifted(@)]
             /\ pc' = "prune" /\ todo' = StaleSet /\ target' = target
    <3>1. mr \in ModuleReleases
      BY DEF IInv, TypeOK
    <3>2. mr'.status = mr.status
      BY <2>2, <3>1, Zenon DEF ModuleReleases
    <3> QED BY <2>1, <2>2, <3>2, Zenon DEF ApplyPhase
  <2>3. CASE /\ ~mr.spec.prune \/ StaleSet = {}
             /\ \E c : Commit(c, Succeeded("Applied"), FALSE)
    <3>1. PICK c : Commit(c, Succeeded("Applied"), FALSE)
      BY <2>3, Zenon
    <3>2. CommitsSuccess
      BY <3>1, SuccessForm, Zenon
    <3>3. pc' = "patchConditions"
      BY <3>1, Zenon DEF Commit
    <3> QED BY <2>1, <2>3, <3>2, <3>3, Zenon DEF ApplyPhase
  <2> QED BY <1>2, <2>2, <2>3, Zenon DEF ApplySucceeds, CommitSuccess
<1> QED BY <1>1, <1>2 DEF ApplyPhase

\* The prune of stale entries, when no request of it fails.
LEMMA PrunePhases ==
    ASSUME "prune" \notin Disturbances, IInv, LInv, ~mr.deleting, LocalSteps, pc = "prune",
           firstErr = "none"
    PROVE  PrunePhase
<1>1. (\E e \in todo : PruneGet(e)) \/ PruneDelete \/ pruneStaleResources
  BY Zenon DEF LocalSteps, ReconcileGone, ReconcileNoFinalizer, handleDeletion,
     ReconcileSuspended, ReconcileStarts, Dequeue, RenderModule, RenderFails, RenderPanics,
     detectDrift, NewImpersonatedClient, ImpersonationFails, ApplyResource, ApplyFails,
     ApplySucceeds, Disturb, PruneGetFails, PruneDeleteFails, pruneForDeletion
<1>2. CASE pruneStaleResources
  <2>1. CommitSuccess(mr.conditions, "AppliedAndPruned") /\ todo = {} /\ target = None
    BY <1>2, Zenon DEF pruneStaleResources
  <2>2. PICK c : Commit(c, Succeeded("AppliedAndPruned"), FALSE)
    BY <2>1, Zenon DEF CommitSuccess
  <2>3. CommitsSuccess
    BY <2>2, SuccessForm, Zenon
  <2>4. pc' = "patchConditions" /\ UNCHANGED live
    BY <2>1, <2>2, Zenon DEF Commit, CommitSuccess, cluster
  <2> QED BY <2>1, <2>3, <2>4, Zenon DEF PrunePhase
<1> QED BY <1>1, <1>2, Zenon DEF PrunePhase

\* Every step is one of the work of a reconcile, one that takes the key, a
\* request, or one of somebody else; of these only the work changes the cluster.
LEMMA StepKinds ==
    ASSUME IInv, LInv, "foreignWrite" \notin Disturbances, "crash" \notin Disturbances,
           [Next]_vars
    PROVE  \/ LocalSteps /\ pc \in WorkPcs /\ (Moves \/ Commits \/ Stalls \/ GivesUp)
           \/ Takes /\ live' = live
           \/ (SendsFinalizers \/ SendsConditions \/ SendsStatus) /\ live' = live
           \/ OthersAct /\ live' = live
<1>1. CASE LocalSteps
  <2>1. Takes => live' = live
    <3>1. Takes => pc = "idle"
      BY Zenon DEF Takes
    <3>2. (\E r \in todo : ApplyResource(r)) \/ PruneDelete => pc # "idle"
      BY Zenon DEF ApplyResource, PruneDelete
    <3> QED BY <3>1, <3>2, LiveSteps
  <2>2. Moves \/ Commits \/ Stalls \/ GivesUp => pc \in WorkPcs
    BY Zenon DEF Moves, Commits, Stalls, GivesUp
  <2> QED BY <1>1, <2>1, <2>2, LocalForms
<1>2. CASE addFinalizer \/ removeFinalizer \/ patchConditions \/ patchStatus
  <2>1. live' = live
    BY <1>2, Zenon DEF addFinalizer, removeFinalizer, patchConditions, patchStatus, cluster
  <2> QED BY <1>2, <2>1, FinalizersForm, PatchForm
<1>3. CASE CacheSyncs \/ TimerFires \/ Users \/ World
  <2>1. live' = live
    BY <1>3, Zenon DEF CacheSyncs, TimerFires, Users, UserDeletes, UserAnnotates, UserEdits,
       World, Crash, ServiceAccountChanges, ForeignWrite, OtherAddsFinalizer,
       OtherRemovesFinalizer, Disturb, cluster
  <2>2. OthersAct
    BY <1>3, OthersForm, Zenon DEF Restarts
  <2> QED BY <2>1, <2>2
<1>4. CASE UNCHANGED vars
  BY <1>4, Zenon DEF vars, locals, cluster, queue, OthersAct
<1> QED BY <1>1, <1>2, <1>3, <1>4, Zenon DEF Next, Worker, LocalSteps

=============================================================================
