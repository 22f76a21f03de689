------------------------ MODULE ModuleReleaseSettled ------------------------
(****************************************************************************)
(* The bookkeeping of a ModuleRelease, for every value of its constants:    *)
(* no deletion and no edit is forgotten, the retry time matches the         *)
(* failures counted, failures are recorded, a retry that is recorded is     *)
(* scheduled, and the render of the spec of a Ready release is recorded.    *)
(****************************************************************************)
EXTENDS ModuleReleaseSteps

-----------------------------------------------------------------------------
(* Nothing is forgotten. *)

\* The key and the generation: a cached copy of the current generation has its
\* spec and its deletion; a reconcile whose key is not queued again works on
\* what the cache holds; and cont is set only for the status patch.
QueueInv ==
    /\ ~CacheLag => cache = api
    /\ api.exists /\ cache.generation = api.generation =>
          cache.spec = api.spec /\ cache.deleting = api.deleting
    /\ pc # "idle" /\ api.exists /\ ~queued => SameRelease(cache, mr)
    /\ pc \in WorkPcs \cup {"idle", "addFinalizer"} => cont = "done"

\* A write to the API server, by anyone: the generation tells whether the spec
\* or the deletion has changed, and then the key is queued.
LEMMA WriteQueues ==
    ASSUME IInv, ObservedInv, QueueInv, api.exists, Write(api'),
           api'.exists => SameRelease(api, api') \/ api'.generation = api.generation + 1
    PROVE  /\ ~CacheLag => cache' = api'
           /\ queued => queued'
           /\ api'.exists /\ cache'.generation = api'.generation =>
                 cache'.spec = api'.spec /\ cache'.deleting = api'.deleting
           /\ api'.exists /\ ~queued' => SameRelease(cache, cache')
<1>1. CASE CacheLag
  <2>1. UNCHANGED <<cache, queued>>
    BY <1>1 DEF Write
  <2>2. api'.generation = api.generation + 1 => cache.generation # api'.generation
    BY GenerationTypes DEF ObservedInv
  <2>3. api.generation = cache.generation =>
           cache.spec = api.spec /\ cache.deleting = api.deleting
    BY DEF QueueInv
  <2> QED BY <1>1, <2>1, <2>2, <2>3, Zenon DEF SameRelease
<1>2. CASE ~CacheLag
  <2>1. cache' = api' /\ queued' = (queued \/ EventPasses(cache, api')) /\ cache = api
    BY <1>2 DEF Write, QueueInv
  <2>2. api'.generation = api.generation + 1 => api'.generation # api.generation
    BY GenerationTypes
  <2>3. api'.exists /\ ~queued' => SameRelease(cache, cache')
    BY <2>1, <2>2, Zenon DEF EventPasses
  <2> QED BY <1>2, <2>1, <2>3, Zenon
<1> QED BY <1>1, <1>2

\* The copy in memory is still the cached one after a step that keeps one of
\* them and changes the other as little.
LEMMA SameReleaseShared ==
    ASSUME NEW a, NEW b, NEW c, SameRelease(a, b)
    PROVE  /\ SameRelease(a, c) => SameRelease(b, c)
           /\ SameRelease(b, c) => SameRelease(a, c)
BY Zenon DEF SameRelease

\* The steps of a reconcile that write nothing.
LEMMA LocalQueue ==
    ASSUME QueueInv, Takes \/ Moves \/ Commits \/ Stalls \/ GivesUp
    PROVE  QueueInv'
<1> USE DEF WorkPcs
<1>1. CASE Takes
  <2>1. UNCHANGED <<api, cache>> /\ cont = "done"
    BY <1>1 DEF Takes, QueueInv
  <2>2. pc' = "idle" \/ SameRelease(cache, mr')
    BY <1>1, Zenon DEF Takes, SameRelease
  <2>3. pc' = "patchConditions" \/ cont' = "done"
    BY <1>1, <2>1, Zenon DEF Takes
  <2> QED BY <2>1, <2>2, <2>3, Zenon DEF QueueInv, WorkPcs
<1>2. CASE Moves \/ Commits \/ Stalls
  <2>1. /\ UNCHANGED <<api, cache, queued>> /\ SameRelease(mr, mr') /\ pc # "idle"
        /\ cont' = "done" \/ pc' = "patchConditions"
    BY <1>2, Zenon DEF Moves, Commits, Stalls, queue, QueueInv, WorkPcs
  <2>2. SameRelease(cache, mr) => SameRelease(cache, mr')
    BY <2>1, SameReleaseShared
  <2> QED BY <2>1, <2>2, Zenon DEF QueueInv, WorkPcs
<1>3. CASE GivesUp
  BY <1>3, Zenon DEF GivesUp, QueueInv, WorkPcs
<1> QED BY <1>1, <1>2, <1>3

\* The requests of a reconcile.
LEMMA RequestQueue ==
    ASSUME IInv, ObservedInv, QueueInv, SendsFinalizers \/ SendsConditions \/ SendsStatus
    PROVE  QueueInv' /\ (queued => queued')
<1>1. \/ /\ pc' = "idle" /\ cont' = "done"
      \/ /\ pc \in PatchPcs /\ pc' \in {"patchStatus", "removeFinalizer"} /\ mr' = mr
  BY Zenon DEF SendsFinalizers, SendsConditions, SendsStatus, AfterPatch, Return, PatchPcs,
     locals
<1>2. CASE NoWrite
  <2>1. UNCHANGED <<api, cache, queued>>
    BY <1>2 DEF NoWrite
  <2> QED BY <1>1, <2>1, Zenon DEF QueueInv, WorkPcs, PatchPcs
<1>3. CASE ~NoWrite
  <2>1. /\ api.exists /\ Write(api')
        /\ api' = Gone \/ SameRelease(api, api')
    BY <1>3, Zenon DEF SendsFinalizers, SendsConditions, SendsStatus, SameServer
  <2>2. ~Gone.exists
    BY DEF Gone
  <2>3. /\ ~CacheLag => cache' = api'
        /\ queued => queued'
        /\ api'.exists /\ cache'.generation = api'.generation =>
              cache'.spec = api'.spec /\ cache'.deleting = api'.deleting
        /\ api'.exists /\ ~queued' => SameRelease(cache, cache')
    BY <2>1, <2>2, WriteQueues
  <2>4. SameRelease(cache, cache') /\ SameRelease(cache, mr) => SameRelease(cache', mr)
    BY SameReleaseShared
  <2>5. api'.exists /\ ~queued' /\ pc # "idle" => SameRelease(cache', mr)
    BY <2>1, <2>3, <2>4, Zenon DEF QueueInv
  <2> QED BY <1>1, <2>3, <2>5, Zenon DEF QueueInv, WorkPcs, PatchPcs
<1> QED BY <1>2, <1>3

\* Everybody else.
LEMMA OthersQueue ==
    ASSUME IInv, LInv, ObservedInv, QueueInv, OthersAct \/ Restarts
    PROVE  QueueInv'
<1>1. CASE Restarts
  BY <1>1, Zenon DEF Restarts, QueueInv
<1>2. CASE OthersAct
  <2>1. UNCHANGED <<pc, mr, cont>>
    BY <1>2 DEF OthersAct
  <2>2. CASE UNCHANGED <<api, cache>> /\ (queued => queued')
    BY <2>1, <2>2, Zenon DEF QueueInv
  <2>3. CASE /\ UNCHANGED api /\ cache' = api
             /\ queued' = (queued \/ EventPasses(cache, api))
    <3>1. api.exists /\ ~queued' => ~queued /\ SameRelease(cache, api)
      BY <2>3, Zenon DEF EventPasses, QueueInv, SameRelease
    <3>2. SameRelease(cache, api) /\ SameRelease(cache, mr) => SameRelease(api, mr)
      BY SameReleaseShared
    <3>3. api.exists /\ ~queued' /\ pc # "idle" => SameRelease(api, mr)
      BY <3>1, <3>2, Zenon DEF QueueInv
    <3> QED BY <2>1, <2>3, <3>3, Zenon DEF QueueInv
  <2>4. CASE /\ api.exists /\ Write(api')
             /\ api'.exists => SameRelease(api, api') \/ api'.generation = api.generation + 1
    <3>1. /\ ~CacheLag => cache' = api'
          /\ queued => queued'
          /\ api'.exists /\ cache'.generation = api'.generation =>
                cache'.spec = api'.spec /\ cache'.deleting = api'.deleting
          /\ api'.exists /\ ~queued' => SameRelease(cache, cache')
      BY <2>4, WriteQueues
    <3>2. SameRelease(cache, cache') /\ SameRelease(cache, mr) => SameRelease(cache', mr)
      BY SameReleaseShared
    <3>3. api'.exists /\ ~queued' /\ pc # "idle" => SameRelease(cache', mr)
      BY <2>4, <3>1, <3>2, Zenon DEF QueueInv
    <3> QED BY <2>1, <3>1, <3>3, Zenon DEF QueueInv
  <2>5. api' = Gone => ~api'.exists
    BY DEF Gone
  <2>6. \/ UNCHANGED <<api, cache>> /\ (queued' = TRUE \/ queued' = queued)
        \/ UNCHANGED api /\ cache' = api /\ queued' = (queued \/ EventPasses(cache, api))
        \/ /\ api.exists /\ Write(api')
           /\ api' = Gone \/ SameRelease(api, api') \/ api'.generation = api.generation + 1
    BY <1>2, Zenon DEF OthersAct
  <2> QED BY <2>2, <2>3, <2>4, <2>5, <2>6, Zenon
<1> QED BY <1>1, <1>2

\* While the key is not queued, writes and watch events leave the generation,
\* the spec and the deletion in the cache as they are.
LEMMA QuietCache ==
    ASSUME IInv, ObservedInv, QueueInv, api'.exists, ~queued',
           SendsFinalizers \/ SendsConditions \/ SendsStatus \/ OthersAct
    PROVE  ~queued /\ api.exists /\ SameRelease(cache, cache')
<1>1. api' = Gone => ~api'.exists
  BY DEF Gone
<1>2. CASE NoWrite
  BY <1>2, Zenon DEF NoWrite, SameRelease
<1>3. CASE /\ api.exists /\ Write(api')
           /\ SameRelease(api, api') \/ api'.generation = api.generation + 1
  BY <1>3, WriteQueues
<1>4. CASE UNCHANGED api /\ cache' = api /\ queued' = (queued \/ EventPasses(cache, api))
  BY <1>4, Zenon DEF EventPasses, QueueInv, SameRelease
<1>5. CASE UNCHANGED <<api, cache>> /\ (queued' = TRUE \/ queued' = queued)
  <2>1. UNCHANGED <<api, cache>> /\ ~queued
    BY <1>5
  <2> QED BY <2>1, Zenon DEF SameRelease
<1> QED BY <1>1, <1>2, <1>3, <1>4, <1>5, Zenon
        DEF SendsFinalizers, SendsConditions, SendsStatus, OthersAct, SameServer

\* A deletion that keeps the finalizer asks for another attempt; so a release
\* that the cache shows as being deleted and that nobody will look at again has
\* lost the finalizer.
DeletionKept ==
    /\ pc \in PatchPcs /\ mr.deleting => cont \in {"retry", "orphan"}
    /\ pc = "idle" /\ ~queued /\ ~timer /\ api.exists /\ cache.deleting =>
          FinalizerName \notin api.finalizers

\* Every step keeps it.
LEMMA NextDeletionKept ==
    ASSUME IInv, LInv, ObservedInv, QueueInv, DeletionKept, [Next]_vars
    PROVE  DeletionKept'
<1> USE DEF PatchPcs, WorkPcs
<1>1. CASE Takes
  <2>1. CASE pc' = "idle"
    BY <1>1, <2>1 DEF Takes, DeletionKept, LInv, CacheTrails
  <2>2. CASE pc' # "idle"
    <3>1. pc' \notin PatchPcs \/ ~mr'.deleting
      BY <1>1, <2>2, Zenon DEF Takes, SameRelease, PatchPcs
    <3> QED BY <2>2, <3>1 DEF DeletionKept
  <2> QED BY <2>1, <2>2
<1>2. CASE Moves \/ Commits \/ Stalls
  <2>1. /\ pc' # "idle"
        /\ pc' \in PatchPcs => ~mr'.deleting \/ cont' \in {"retry", "orphan"}
    BY <1>2, Zenon DEF Moves, Commits, Stalls, SameRelease, WorkPcs, PatchPcs
  <2> QED BY <2>1 DEF DeletionKept
<1>3. CASE GivesUp \/ Restarts
  BY <1>3 DEF GivesUp, Restarts, DeletionKept
<1>4. CASE SendsFinalizers
  BY <1>4, Zenon DEF SendsFinalizers, DeletionKept, PatchPcs
<1>5. CASE SendsConditions
  <2>1. pc \in PatchPcs /\ pc' = "patchStatus" /\ mr' = mr /\ cont' \in {cont, "retry"}
    BY <1>5 DEF SendsConditions
  <2> QED BY <2>1 DEF DeletionKept
<1>6. CASE SendsStatus
  <2>1. CASE pc' = "removeFinalizer"
    BY <2>1 DEF DeletionKept
  <2>2. CASE pc' # "removeFinalizer"
    <3>1. pc' = "idle" /\ cont # "orphan" /\ pc \in PatchPcs
      BY <1>6, <2>2, Zenon DEF SendsStatus, AfterPatch, Return, PatchPcs
    <3>2. ~timer' => cont # "retry"
      BY <1>6, <3>1, Zenon DEF SendsStatus, AfterPatch, Return
    <3>3. ~timer' => ~mr.deleting
      BY <3>1, <3>2 DEF DeletionKept
    <3>4. api'.exists /\ ~queued' => SameRelease(cache, mr) /\ SameRelease(cache, cache')
      BY <1>6, <3>1, QuietCache DEF QueueInv
    <3>5. api'.exists /\ ~queued' /\ ~timer' => ~cache'.deleting
      BY <3>3, <3>4, Zenon DEF SameRelease
    <3> QED BY <3>1, <3>5 DEF DeletionKept
  <2> QED BY <2>1, <2>2
<1>7. CASE OthersAct
  <2>1. UNCHANGED <<pc, mr, cont>>
    BY <1>7 DEF OthersAct
  <2>2. SUFFICES ASSUME pc = "idle", ~queued', ~timer', api'.exists, cache'.deleting
                 PROVE  FinalizerName \notin api'.finalizers
    BY <2>1 DEF DeletionKept
  <2>3. ~queued /\ api.exists /\ SameRelease(cache, cache')
    BY <1>7, <2>2, QuietCache, Zenon
  <2>4. ~timer
    BY <1>7, <2>2 DEF OthersAct
  <2>5. cache.deleting
    BY <2>2, <2>3, Zenon DEF SameRelease
  <2>6. FinalizerName \notin api.finalizers
    BY <2>2, <2>3, <2>4, <2>5 DEF DeletionKept
  <2>7. api' = Gone => ~api'.exists
    BY SMTT(30) DEF Gone
  <2> QED BY <1>7, <2>2, <2>6, <2>7, Zenon DEF OthersAct
<1> QED BY <1>1, <1>2, <1>3, <1>4, <1>5, <1>6, <1>7, NextForms

\* The first state: the key is queued.
LEMMA InitQueue == Init => ObservedInv /\ QueueInv /\ DeletionKept
<1> SUFFICES ASSUME Init PROVE ObservedInv /\ QueueInv /\ DeletionKept
  OBVIOUS
<1>1. PICK spec \in Specs : api = Created(spec)
  BY DEF Init
<1>2. api.generation = 1 /\ api.status.observedGeneration = 0
  BY <1>1 DEF Created, NoStatus
<1> QED BY <1>2 DEF Init, ObservedInv, QueueInv, DeletionKept, PatchPcs

\* Every step keeps the queue invariant.
LEMMA NextQueue ==
    ASSUME IInv, LInv, ObservedInv, QueueInv, [Next]_vars
    PROVE  QueueInv'
BY NextForms, LocalQueue, RequestQueue, OthersQueue

\* The invariants about generations and the key hold of every state.
LEMMA QueueInvariant == Spec => [](ObservedInv /\ QueueInv)
<1>1. Init => ObservedInv /\ QueueInv
  BY InitQueue
<1>2. IInv /\ LInv /\ (ObservedInv /\ QueueInv) /\ [Next]_vars => (ObservedInv /\ QueueInv)'
  BY NextObserves, NextQueue
<1> QED BY <1>1, <1>2, Invariance, LInvInvariant, PTL DEF Spec

\* handleDeletion never leaves a release behind: whatever fails, crashes or is
\* read stale, a release that is being deleted and still has the finalizer has
\* a reconcile running, queued or scheduled, or a watch event on its way.
THEOREM DeletionIsNotAbandoned == Spec => []DeletionNotAbandoned
<1>1. Init => DeletionKept
  BY InitQueue
<1>2. IInv /\ LInv /\ (ObservedInv /\ QueueInv) /\ DeletionKept /\ [Next]_vars => DeletionKept'
  BY NextDeletionKept
<1>3. DeletionKept => DeletionNotAbandoned
  BY DEF DeletionKept, DeletionNotAbandoned, Settled
<1> QED BY <1>1, <1>2, <1>3, Invariance, LInvInvariant, QueueInvariant, PTL DEF Spec

\* A release that is gone stays gone.
LEMMA StaysGone ==
    ASSUME IInv, LInv, [Next]_vars, api'.exists
    PROVE  api.exists
<1>1. CASE UNCHANGED api
  BY <1>1
<1>2. CASE api.exists
  BY <1>2, Zenon
<1> QED BY <1>1, <1>2, NextForms, Zenon DEF Takes, Moves, Commits, Stalls, GivesUp,
        SendsFinalizers, SendsConditions, SendsStatus, OthersAct, Restarts, NoWrite

\* A reconcile of a release that is not being deleted ends with the status
\* patch, which observes the generation it worked on; so the generation in the
\* cache is observed when nobody will look at the release again.  The copies
\* that a merge patch compares have observed no more than the API server.
EditKept ==
    /\ api.exists => cache.status.observedGeneration <= api.status.observedGeneration
    /\ api.exists /\ pc \notin {"idle", "addFinalizer"} =>
          old.status.observedGeneration <= api.status.observedGeneration
    /\ pc \in PatchPcs /\ ~mr.deleting => mr.status.observedGeneration = mr.generation
    /\ pc = "idle" /\ ~queued /\ ~timer /\ api.exists /\ ~cache.deleting =>
          api.status.observedGeneration = cache.generation

\* The copies the patch helper compares.
LEMMA CopiesObserved ==
    ASSUME IInv, LInv, ObservedInv, EditKept, [Next]_vars
    PROVE  /\ api'.exists =>
                 cache'.status.observedGeneration <= api'.status.observedGeneration
           /\ api'.exists /\ pc' \notin {"idle", "addFinalizer"} =>
                 old'.status.observedGeneration <= api'.status.observedGeneration
<1> SUFFICES ASSUME api'.exists
             PROVE  /\ cache'.status.observedGeneration <= api'.status.observedGeneration
                    /\ pc' \notin {"idle", "addFinalizer"} =>
                          old'.status.observedGeneration <= api'.status.observedGeneration
  OBVIOUS
<1>1. api.exists /\ api'.status.observedGeneration >= api.status.observedGeneration
  BY StaysGone, NextObserves DEF ObservedAdvance
<1>2. cache' \in {cache, api, api'}
  BY CacheFollows, Zenon
<1>3. /\ api'.status.observedGeneration \in Nat /\ api.status.observedGeneration \in Nat
      /\ cache.status.observedGeneration \in Nat /\ old.status.observedGeneration \in Nat
  <2>1. IInv'
    BY NextIInv
  <2> QED BY <2>1, Zenon DEF IInv, TypeOK, ModuleReleases, Statuses
<1>4. cache'.status.observedGeneration <= api'.status.observedGeneration
  BY <1>1, <1>2, <1>3 DEF EditKept
<1>5. \/ pc' \in {"idle", "addFinalizer"}
      \/ old' = old /\ pc \notin {"idle", "addFinalizer"}
      \/ old' = cache
  BY NextForms, Zenon DEF Takes, Moves, Commits, Stalls, GivesUp, SendsFinalizers,
     SendsConditions, SendsStatus, OthersAct, Restarts, AfterPatch, Return, locals, WorkPcs
<1> QED BY <1>1, <1>3, <1>4, <1>5 DEF EditKept

\* The status patch decides on the observed generation by itself.
LEMMA ObservedPatched ==
    ASSUME NEW a, NEW o, NEW m
    PROVE  PatchStatus(a, o, m).observedGeneration =
              Pick(a.observedGeneration, o.observedGeneration, m.observedGeneration)
BY DEF PatchStatus

\* The status patch observes the generation that the reconcile worked on.
LEMMA PatchObserves ==
    ASSUME IInv, ObservedInv, EditKept, pc = "patchStatus", api.exists, ~mr.deleting,
           api'.status = PatchStatus(api.status, old.status, mr.status)
    PROVE  api'.status.observedGeneration = mr.generation
<1>1. api'.status.observedGeneration =
         Pick(api.status.observedGeneration, old.status.observedGeneration,
              mr.status.observedGeneration)
  BY ObservedPatched
<1>2. /\ mr.status.observedGeneration = mr.generation
      /\ old.status.observedGeneration <= api.status.observedGeneration
      /\ api.status.observedGeneration <= mr.generation
  BY Zenon DEF EditKept, ObservedInv, PatchPcs
<1> QED BY <1>1, <1>2, GenerationTypes DEF Pick

\* Every step keeps it, as long as no request of the status patch fails.
LEMMA NextEditKept ==
    ASSUME "patch" \notin Disturbances,
           IInv, LInv, ObservedInv, QueueInv, EditKept, [Next]_vars
    PROVE  EditKept'
<1> DEFINE Patching == pc \in PatchPcs /\ ~mr.deleting =>
                          mr.status.observedGeneration = mr.generation
           Quiet == pc = "idle" /\ ~queued /\ ~timer /\ api.exists /\ ~cache.deleting =>
                       api.status.observedGeneration = cache.generation
<1>1. SUFFICES Patching' /\ Quiet'
  BY CopiesObserved DEF EditKept
<1> USE DEF PatchPcs, WorkPcs
<1>2. CASE Takes
  <2>1. CASE pc' = "idle"
    BY <1>2, <2>1 DEF Takes, LInv, CacheTrails
  <2>2. CASE pc' # "idle"
    <3>1. \/ pc' \notin PatchPcs
          \/ /\ mr'.generation = cache.generation
             /\ mr'.status.observedGeneration = cache.generation
      BY <1>2, <2>2, Zenon DEF Takes, SameRelease, PatchPcs
    <3> QED BY <2>2, <3>1
  <2> QED BY <2>1, <2>2, Zenon
<1>3. CASE Moves \/ Commits \/ Stalls
  <2>1. /\ pc' # "idle"
        /\ pc' \in PatchPcs /\ ~mr'.deleting =>
              mr'.status.observedGeneration = mr'.generation
    BY <1>3, Zenon DEF Moves, Commits, Stalls, SameRelease, WorkPcs, PatchPcs
  <2> QED BY <2>1
<1>4. CASE GivesUp \/ Restarts
  BY <1>4 DEF GivesUp, Restarts
<1>5. CASE SendsFinalizers
  <2>1. CASE timer' = TRUE
    BY <1>5, <2>1 DEF SendsFinalizers
  <2>2. CASE timer' # TRUE
    <3>1. pc = "removeFinalizer" /\ pc' = "idle" /\ api.exists
      BY <1>5, <2>2, Zenon DEF SendsFinalizers
    <3>2. cache.deleting
      BY <3>1 DEF LInv, ReconcileShape, CacheTrails
    <3>3. api'.exists /\ ~queued' => cache'.deleting
      <4>1. api'.exists /\ ~queued' => SameRelease(cache, cache')
        BY <1>5, QuietCache
      <4> QED BY <3>2, <4>1, Zenon DEF SameRelease
    <3> QED BY <3>1, <3>3
  <2> QED BY <2>1, <2>2, Zenon
<1>6. CASE SendsConditions
  <2>1. pc \in PatchPcs /\ pc' = "patchStatus" /\ mr' = mr
    BY <1>6 DEF SendsConditions
  <2> QED BY <2>1, Zenon DEF EditKept
<1>7. CASE SendsStatus
  <2>1. CASE pc' = "removeFinalizer"
    BY <2>1, Zenon
  <2>2. CASE pc' # "removeFinalizer"
    <3>1. pc' = "idle" /\ pc = "patchStatus"
      BY <1>7, <2>2, Zenon DEF SendsStatus, AfterPatch, Return
    <3>2. SUFFICES ASSUME ~queued', api'.exists, ~cache'.deleting
                   PROVE  api'.status.observedGeneration = cache'.generation
      BY <3>1, Zenon
    <3>3. ~queued /\ api.exists /\ SameRelease(cache, cache') /\ SameRelease(cache, mr)
      BY <1>7, <3>1, <3>2, QuietCache DEF QueueInv
    <3>4. ~mr.deleting /\ mr.generation = cache'.generation
      BY <3>2, <3>3, Zenon DEF SameRelease
    <3>5. api'.status = PatchStatus(api.status, old.status, mr.status)
      BY <1>7, <3>3, Zenon DEF SendsStatus
    <3> QED BY <3>1, <3>3, <3>4, <3>5, PatchObserves
  <2> QED BY <2>1, <2>2
<1>8. CASE OthersAct
  <2>1. UNCHANGED <<pc, mr>>
    BY <1>8, Zenon DEF OthersAct
  <2>2. Patching'
    BY <2>1, Zenon DEF EditKept
  <2>3. SUFFICES ASSUME pc = "idle", ~queued', ~timer', api'.exists, ~cache'.deleting
                 PROVE  api'.status.observedGeneration = cache'.generation
    BY <2>1, <2>2, Zenon
  <2>4. ~queued /\ api.exists /\ SameRelease(cache, cache')
    BY <1>8, <2>3, QuietCache, Zenon
  <2>5. ~timer
    BY <1>8, <2>3 DEF OthersAct
  <2>6. ~cache.deleting /\ cache'.generation = cache.generation
    BY <2>3, <2>4, Zenon DEF SameRelease
  <2>7. api' = Gone => ~api'.exists
    BY DEF Gone
  <2>8. api'.status = api.status
    BY <1>8, <2>3, <2>7, Zenon DEF OthersAct
  <2> QED BY <2>3, <2>4, <2>5, <2>6, <2>8 DEF EditKept
<1> QED BY <1>2, <1>3, <1>4, <1>5, <1>6, <1>7, <1>8, NextForms

\* GenerationChangedPredicate and the dirty key forget no edit: when nothing is
\* running, queued or scheduled and the cache is in step, the last generation
\* has been observed, although a reconcile may have worked on a stale copy and
\* the deferred commit only logs an error of its patch.  That error is the one
\* thing that breaks it: the generation of a lost patch is observed by nobody.
THEOREM NoEditIsForgotten ==
    ASSUME "patch" \notin Disturbances
    PROVE  Spec => []NoEditForgotten
<1>1. Init => EditKept
  <2> SUFFICES ASSUME Init PROVE EditKept
    OBVIOUS
  <2>1. PICK spec \in Specs : api = Created(spec)
    BY Zenon DEF Init
  <2>2. api.status.observedGeneration = 0
    BY <2>1 DEF Created, NoStatus
  <2> QED BY <2>2 DEF Init, EditKept, PatchPcs
<1>2. IInv /\ LInv /\ (ObservedInv /\ QueueInv) /\ EditKept /\ [Next]_vars => EditKept'
  BY NextEditKept
<1>3. EditKept => NoEditForgotten
  BY DEF EditKept, NoEditForgotten, Settled
<1> QED BY <1>1, <1>2, <1>3, Invariance, LInvInvariant, QueueInvariant, PTL DEF Spec

-----------------------------------------------------------------------------
(* What the status records, when reads are current. *)

\* The merge patch of a status that nobody else has changed writes all of it.
LEMMA MergeCurrent ==
    ASSUME NEW s \in Statuses, NEW t \in Statuses
    PROVE  PatchStatus(s, s, t) = t
<1>1. \A a, b : Pick(a, a, b) = b
  BY Zenon DEF Pick
<1>2. PatchDigests(s.lastAttempted, s.lastAttempted, t.lastAttempted) = t.lastAttempted
  BY <1>1, Zenon DEF PatchDigests, DigestSets, Statuses
<1>3. PatchDigests(s.lastApplied, s.lastApplied, t.lastApplied) = t.lastApplied
  BY <1>1, Zenon DEF PatchDigests, DigestSets, Statuses
<1>4. PatchCounters(s.failureCounters, s.failureCounters, t.failureCounters)
         = t.failureCounters
  BY <1>1 DEF PatchCounters, Counters, Statuses
<1>5. PatchInventory(s.inventory, s.inventory, t.inventory) = t.inventory
  BY <1>1 DEF PatchInventory, Statuses
<1> QED BY <1>1, <1>2, <1>3, <1>4, <1>5, Zenon DEF PatchStatus, Statuses

\* The copy that the patch helper took is what the API server holds, up to the
\* request that changes it.
CopyInv ==
    /\ pc \in WorkPcs \cup PatchPcs /\ api.exists => old.status = api.status
    /\ pc \in WorkPcs \cup {"patchConditions"} /\ api.exists =>
          old.conditions = api.conditions

\* Every step keeps it.
LEMMA NextCopy ==
    ASSUME ~CacheLag, IInv, LInv, QueueInv, CopyInv, [Next]_vars
    PROVE  CopyInv'
<1> USE DEF WorkPcs, PatchPcs
<1>1. cache = api
  BY Zenon DEF QueueInv
<1>2. CASE Takes
  <2>1. UNCHANGED api /\ (pc' \in {"idle", "addFinalizer", "removeFinalizer"} \/ old' = cache)
    BY <1>2, Zenon DEF Takes
  <2> QED BY <1>1, <2>1 DEF CopyInv
<1>3. CASE Moves \/ Commits \/ Stalls
  <2>1. UNCHANGED <<api, old>> /\ pc \in WorkPcs
    BY <1>3, Zenon DEF Moves, Commits, Stalls
  <2> QED BY <2>1 DEF CopyInv
<1>4. CASE GivesUp \/ SendsFinalizers \/ Restarts
  BY <1>4, Zenon DEF GivesUp, SendsFinalizers, Restarts, CopyInv
<1>5. CASE SendsConditions
  <2>1. /\ pc = "patchConditions" /\ pc' = "patchStatus" /\ UNCHANGED old
        /\ UNCHANGED api \/ (api.exists /\ api'.status = api.status)
    BY <1>5, Zenon DEF SendsConditions, NoWrite
  <2> QED BY <2>1 DEF CopyInv
<1>6. CASE SendsStatus
  <2>1. pc' \in {"idle", "removeFinalizer"}
    BY <1>6, Zenon DEF SendsStatus, AfterPatch, Return
  <2> QED BY <2>1 DEF CopyInv
<1>7. CASE OthersAct
  <2>1. UNCHANGED <<pc, old>>
    BY <1>7, Zenon DEF OthersAct
  <2>2. api' = Gone => ~api'.exists
    BY DEF Gone
  <2>3. api'.exists =>
           api.exists /\ api'.status = api.status /\ api'.conditions = api.conditions
    BY <1>7, <2>2, Zenon DEF OthersAct
  <2> QED BY <2>1, <2>3, Zenon DEF CopyInv
<1> QED BY <1>2, <1>3, <1>4, <1>5, <1>6, <1>7, NextForms

\* The invariants behind the theorems of this section.
BaseInv == IInv /\ LInv /\ ObservedInv /\ QueueInv /\ CopyInv

\* They hold as long as reads of the cache return what the API server stores.
LEMMA BaseInvariant ==
    ASSUME ~CacheLag
    PROVE  Spec => []BaseInv
<1>1. Init => CopyInv
  BY Zenon DEF Init, CopyInv, WorkPcs, PatchPcs
<1>2. IInv /\ LInv /\ (ObservedInv /\ QueueInv) /\ CopyInv /\ [Next]_vars => CopyInv'
  BY NextCopy
<1> QED BY <1>1, <1>2, Invariance, LInvInvariant, QueueInvariant, PTL DEF Spec, BaseInv

\* Then the status patch stores exactly what the reconcile has computed.
LEMMA StatusStored ==
    ASSUME BaseInv, SendsStatus
    PROVE  \/ ~api.exists /\ UNCHANGED api
           \/ "patch" \in Disturbances /\ UNCHANGED api
           \/ /\ api.exists /\ SameRelease(api, api') /\ api'.conditions = api.conditions
              /\ api'.status = mr.status
<1>1. api.exists => old.status = api.status
  BY Zenon DEF BaseInv, CopyInv, SendsStatus, PatchPcs
<1>2. api.status \in Statuses /\ mr.status \in Statuses
  BY DEF BaseInv, IInv, TypeOK, ModuleReleases
<1>3. PatchStatus(api.status, api.status, mr.status) = mr.status
  BY <1>2, MergeCurrent, Zenon
<1> QED BY <1>1, <1>3, Zenon DEF SendsStatus, NoWrite

\* What a step does to the status in the API server.
LEMMA StatusChanges ==
    ASSUME BaseInv, [Next]_vars
    PROVE  \/ api'.status = api.status \/ api' = Gone
           \/ pc = "patchStatus" /\ api.exists /\ api'.status = mr.status
<1>1. CASE UNCHANGED api
  BY <1>1
<1>2. CASE SendsStatus
  BY <1>2, StatusStored, Zenon DEF SendsStatus
<1>3. CASE SendsFinalizers \/ SendsConditions \/ OthersAct
  BY <1>1, <1>3, Zenon DEF SendsFinalizers, SendsConditions, OthersAct, SameServer, NoWrite
<1>4. CASE Takes \/ Moves \/ Commits \/ Stalls \/ GivesUp \/ Restarts
  BY <1>1, <1>4, Zenon DEF Takes, Moves, Commits, Stalls, GivesUp, Restarts
<1> QED BY <1>2, <1>3, <1>4, NextForms DEF BaseInv

\* What RetryMatchesCounter says of one status.
RetryOf(s) ==
    /\ s.failureCounters.reconcile = 0 <=> s.nextRetryAt = 0
    /\ s.nextRetryAt \in {0, StalledRecheckInterval,
                          ComputeBackoff(s.failureCounters.reconcile)}

\* It holds of the status in the API server, and of the one in memory.
RetryInv ==
    /\ RetryOf(api.status)
    /\ pc \in WorkPcs \cup PatchPcs => RetryOf(mr.status)

\* A status without failures waits for nothing.
LEMMA RetryOfNone ==
    ASSUME NEW s, s.failureCounters.reconcile = 0, s.nextRetryAt = 0
    PROVE  RetryOf(s)
BY Zenon DEF RetryOf

\* The counter and the retry time are copied together.
LEMMA RetryOfCopy ==
    ASSUME NEW s, NEW t, RetryOf(s), t.failureCounters = s.failureCounters,
           t.nextRetryAt = s.nextRetryAt
    PROVE  RetryOf(t)
BY Zenon DEF RetryOf

\* A commit writes the counter and the wait for it.
LEMMA CommitRetry ==
    ASSUME \A n \in Nat : ComputeBackoff(n) # 0, IInv, Commits
    PROVE  RetryOf(mr'.status)
<1>1. CASE CommitsNoOp \/ CommitsSuccess
  BY <1>1, RetryOfNone, Zenon DEF CommitsNoOp, CommitsSuccess
<1>2. CASE CommitsFailure
  <2> DEFINE n == mr.status.failureCounters.reconcile + 1
  <2>1. n \in Nat /\ n # 0
    BY AtWork, SMTT(30) DEF Commits, WorkPcs
  <2>2. /\ mr'.status.failureCounters.reconcile = n
        /\ mr'.status.nextRetryAt \in {StalledRecheckInterval, ComputeBackoff(n)}
    BY <1>2 DEF CommitsFailure
  <2> HIDE DEF n
  <2>3. ComputeBackoff(n) # 0 /\ StalledRecheckInterval # 0
    BY <2>1 DEF StalledRecheckInterval
  <2> QED BY <2>1, <2>2, <2>3, Zenon DEF RetryOf
<1> QED BY <1>1, <1>2, Zenon DEF Commits

\* Every step keeps it.
LEMMA NextRetry ==
    ASSUME \A n \in Nat : ComputeBackoff(n) # 0, ~CacheLag, BaseInv, RetryInv, [Next]_vars
    PROVE  RetryInv'
<1>1. cache = api
  BY Zenon DEF BaseInv, QueueInv
<1>2. RetryOf(api'.status)
  <2>1. RetryOf(Gone.status)
    BY Zenon DEF Gone, NoStatus, ZeroCounters, RetryOf
  <2> QED BY <2>1, StatusChanges DEF RetryInv, PatchPcs
<1>3. CASE Takes
  <2>1. pc' \in WorkPcs \cup PatchPcs => mr' = cache \/ SameRecord(cache.status, mr'.status)
    BY <1>3, Zenon DEF Takes, WorkPcs, PatchPcs
  <2>2. SameRecord(cache.status, mr'.status) => RetryOf(mr'.status)
    BY <1>1, RetryOfCopy, Zenon DEF SameRecord, RetryInv
  <2> QED BY <1>1, <1>2, <2>1, <2>2 DEF RetryInv
<1>4. CASE Moves \/ Stalls
  <2>1. /\ pc \in WorkPcs
        /\ mr'.status.failureCounters = mr.status.failureCounters
        /\ mr'.status.nextRetryAt = mr.status.nextRetryAt
    BY <1>4, Zenon DEF Moves, Stalls, SameRecord
  <2>2. RetryOf(mr.status)
    BY <2>1, Zenon DEF RetryInv
  <2> QED BY <1>2, <2>1, <2>2, RetryOfCopy DEF RetryInv
<1>5. CASE Commits
  BY <1>2, <1>5, CommitRetry DEF RetryInv, BaseInv
<1>6. CASE GivesUp \/ SendsFinalizers \/ SendsStatus \/ Restarts
  <2>1. pc' \in {"idle", "removeFinalizer"}
    BY <1>6, Zenon DEF GivesUp, SendsFinalizers, SendsStatus, Restarts, AfterPatch, Return
  <2> QED BY <1>2, <2>1 DEF RetryInv, WorkPcs, PatchPcs
<1>7. CASE SendsConditions \/ OthersAct
  <2>1. UNCHANGED mr /\ (pc' \in WorkPcs \cup PatchPcs => pc \in WorkPcs \cup PatchPcs)
    BY <1>7, Zenon DEF SendsConditions, OthersAct, PatchPcs
  <2> QED BY <1>2, <2>1 DEF RetryInv
<1> QED BY <1>3, <1>4, <1>5, <1>6, <1>7, NextForms DEF BaseInv

\* ComputeBackoff is fed with the counter that the same commit writes: when
\* reads are current, a retry time is recorded exactly while there are failures
\* in a row, and it is the backoff of that count or the stalled recheck,
\* whatever fails and however often the operator restarts.  That the backoff is
\* never zero is arithmetic of powers of two, which the provers do not have.
THEOREM RetryTimeMatchesCounter ==
    ASSUME \A n \in Nat : ComputeBackoff(n) # 0, ~CacheLag
    PROVE  Spec => []RetryMatchesCounter
<1>1. Init => RetryInv
  <2> SUFFICES ASSUME Init PROVE RetryInv
    OBVIOUS
  <2>1. PICK spec \in Specs : api = Created(spec)
    BY DEF Init
  <2>2. RetryOf(api.status)
    BY <2>1, Zenon DEF Created, NoStatus, ZeroCounters, RetryOf
  <2> QED BY <2>2, Zenon DEF Init, RetryInv, WorkPcs, PatchPcs
<1>2. BaseInv /\ RetryInv /\ [Next]_vars => RetryInv'
  BY NextRetry, Zenon
<1>3. RetryInv => RetryMatchesCounter
  BY DEF RetryInv, RetryOf, RetryMatchesCounter
<1> QED BY <1>1, <1>2, <1>3, BaseInvariant, PTL DEF Spec

-----------------------------------------------------------------------------
(* Failures and the history. *)

\* A recorded attempt changes the history, also when the oldest entry goes.
LEMMA RecordChangesHistory ==
    ASSUME NEW h, GoodHistory(h), NEW ok
    PROVE  recordHistoryEntry(h, ok) # h
<1> DEFINE entry == [sequence |-> nextSequence(h), ok |-> ok]
           longer == <<entry>> \o h
<1>1. h \in Seq(HistoryEntry) /\ Len(h) \in Nat
  BY DEF GoodHistory
<1>2. entry.sequence = nextSequence(h)
  OBVIOUS
<1>3. longer \in Seq(HistoryEntry \cup {entry}) /\ Len(longer) = Len(h) + 1 /\ longer[1] = entry
  BY <1>1
<1> HIDE DEF entry, longer
<1>4. MaxHistoryEntries \in Nat /\ MaxHistoryEntries >= 1
  BY HistoryBound
<1>5. CASE Len(longer) > MaxHistoryEntries
  <2> DEFINE short == SubSeq(longer, 1, MaxHistoryEntries)
  <2>1. short[1] = entry /\ Len(short) = MaxHistoryEntries
    BY <1>1, <1>3, <1>4, <1>5
  <2>2. recordHistoryEntry(h, ok) = short
    BY <1>5, Zenon DEF recordHistoryEntry, longer, entry
  <2> HIDE DEF short
  <2>3. CASE Len(h) = 0
    BY <1>4, <2>1, <2>2, <2>3
  <2>4. CASE Len(h) # 0
    <3>1. 1 \in 1..Len(h)
      BY <1>1, <2>4
    <3>2. nextSequence(h) \in Nat /\ nextSequence(h) > h[1].sequence
      BY <3>1, NextSequenceAbove
    <3>3. h[1].sequence \in Nat
      <4>1. h[1] \in HistoryEntry
        BY <1>1, <3>1
      <4> QED BY <4>1 DEF HistoryEntry
    <3> QED BY <1>2, <2>1, <2>2, <3>2, <3>3
  <2> QED BY <2>3, <2>4
<1>6. CASE ~(Len(longer) > MaxHistoryEntries)
  <2>1. recordHistoryEntry(h, ok) = longer
    BY <1>6 DEF recordHistoryEntry, longer, entry
  <2> QED BY <1>1, <1>3, <2>1
<1> QED BY <1>5, <1>6

\* A prune is denied only when a request of Prune fails.
LEMMA PruneErrors ==
    ASSUME "prune" \notin Disturbances, firstErr = "none", [Next]_vars
    PROVE  firstErr' = "none"
<1>1. CASE firstErr' = firstErr \/ firstErr' = "none"
  BY <1>1
<1>2. ASSUME NEW c, NEW result, NEW again, Commit(c, result, again)
      PROVE  firstErr' = "none"
  BY <1>2 DEF Commit
<1>3. ASSUME NEW again, Return(again)
      PROVE  firstErr' = "none"
  BY <1>3 DEF Return
<1>4. ASSUME NEW reason, StallDeletion(reason)
      PROVE  firstErr' = "none"
  BY <1>4 DEF StallDeletion
<1>5. CASE ReconcileGone \/ ReconcileNoFinalizer \/ handleDeletion
           \/ ReconcileSuspended \/ ReconcileStarts
  BY <1>1, <1>5, Zenon DEF ReconcileGone, ReconcileNoFinalizer, handleDeletion,
     ReconcileSuspended, ReconcileStarts, locals
<1>6. CASE addFinalizer \/ removeFinalizer
  BY <1>3, <1>6, Zenon DEF addFinalizer, removeFinalizer
<1>7. CASE RenderModule \/ RenderFails \/ RenderPanics \/ detectDrift
  BY <1>1, <1>2, <1>7, Zenon DEF RenderModule, RenderFails, RenderPanics, detectDrift, Plan
<1>8. CASE NewImpersonatedClient \/ ImpersonationFails
  BY <1>1, <1>2, <1>4, <1>8, Zenon DEF NewImpersonatedClient, ImpersonationFails,
     handleDeletionSAMissing
<1>9. CASE (\E r \in todo : ApplyResource(r)) \/ ApplyFails \/ ApplySucceeds
  BY <1>1, <1>2, <1>9, Zenon DEF ApplyResource, ApplyFails, ApplySucceeds, CommitSuccess
<1>10. CASE \/ \E e \in todo : PruneGet(e) \/ PruneGetFails(e)
            \/ PruneDelete \/ PruneDeleteFails
  BY <1>1, <1>10, Zenon DEF PruneGet, PruneGetFails, PruneDelete, PruneDeleteFails, Disturb
<1>11. CASE pruneStaleResources
  BY <1>1, <1>2, <1>11, Zenon DEF pruneStaleResources, CommitSuccess
<1>12. CASE pruneForDeletion
  BY <1>1, <1>3, <1>4, <1>12, Zenon DEF pruneForDeletion, locals
<1>13. CASE patchConditions \/ patchStatus
  BY <1>1, <1>3, <1>13, Zenon DEF patchConditions, patchStatus, AfterPatch, locals
<1>14. CASE CacheSyncs \/ TimerFires \/ Users \/ World
  BY <1>1, <1>14, Zenon DEF CacheSyncs, TimerFires, Users, World, UserEdits, UserDeletes,
     UserAnnotates, Crash, ServiceAccountChanges, ForeignWrite, OtherAddsFinalizer,
     OtherRemovesFinalizer, noWorker, locals
<1>15. CASE UNCHANGED vars
  BY <1>1, <1>15, Zenon DEF vars, locals
<1> QED BY <1>5, <1>6, <1>7, <1>8, <1>9, <1>10, <1>11, <1>12, <1>13, <1>14, <1>15, Zenon
        DEF Next, Worker

\* Up to the commit a reconcile counts and records nothing; then it counts at
\* most as many failures as before, or has recorded the new one.
FailInv ==
    /\ "prune" \notin Disturbances => firstErr = "none"
    /\ pc \in WorkPcs =>
          /\ mr.status.failureCounters = old.status.failureCounters
          /\ mr.status.history = old.status.history
    /\ pc \in PatchPcs =>
          \/ mr.status.failureCounters.reconcile <= old.status.failureCounters.reconcile
          \/ mr.status.history # old.status.history

\* The counters are numbers.
LEMMA CounterTypes ==
    ASSUME IInv
    PROVE  /\ mr.status.failureCounters.reconcile \in Nat
           /\ old.status.failureCounters.reconcile \in Nat
           /\ api.status.failureCounters.reconcile \in Nat
           /\ cache.status.failureCounters.reconcile \in Nat
BY Zenon DEF IInv, TypeOK, ModuleReleases, Statuses, Counters

\* Every step keeps it, when no prune is denied to a service account.
LEMMA NextFail ==
    ASSUME "prune" \notin Disturbances \/ ServiceAccounts = {},
           BaseInv, FailInv, [Next]_vars
    PROVE  FailInv'
<1> USE DEF WorkPcs, PatchPcs
<1>1. "prune" \notin Disturbances => firstErr' = "none"
  BY PruneErrors, Zenon DEF FailInv
<1>2. CASE Takes
  <2>1. \/ pc' \notin WorkPcs \cup PatchPcs
        \/ mr' = old'
        \/ old' = cache /\ SameRecord(cache.status, mr'.status)
    BY <1>2, Zenon DEF Takes
  <2>2. pc' \in WorkPcs \cup PatchPcs =>
           /\ mr'.status.failureCounters = old'.status.failureCounters
           /\ mr'.status.history = old'.status.history
    BY <2>1, Zenon DEF SameRecord
  <2>3. old'.status.failureCounters.reconcile \in Nat
    <3>1. IInv'
      BY NextIInv, Zenon DEF BaseInv
    <3> QED BY <3>1, Zenon DEF IInv, TypeOK, ModuleReleases, Statuses, Counters
  <2> QED BY <1>1, <2>2, <2>3 DEF FailInv
<1>3. CASE Moves \/ Stalls
  <2>1. /\ pc \in WorkPcs /\ UNCHANGED old
        /\ mr'.status.failureCounters = mr.status.failureCounters
        /\ mr'.status.history = mr.status.history
    BY <1>3, Zenon DEF Moves, Stalls, SameRecord
  <2>2. old.status.failureCounters.reconcile \in Nat
    BY CounterTypes, Zenon DEF BaseInv
  <2> QED BY <1>1, <2>1, <2>2 DEF FailInv
<1>4. CASE Commits
  <2>1. pc \in WorkPcs /\ pc' = "patchConditions" /\ UNCHANGED old
    BY <1>4, Zenon DEF Commits
  <2>2. CASE CommitsNoOp \/ CommitsSuccess
    <3>1. mr'.status.failureCounters.reconcile = 0
      BY <2>2, Zenon DEF CommitsNoOp, CommitsSuccess
    <3>2. old.status.failureCounters.reconcile \in Nat
      BY CounterTypes DEF BaseInv
    <3> QED BY <1>1, <2>1, <3>1, <3>2 DEF FailInv
  <2>3. CASE CommitsFailure
    <3>1. ~(firstErr = "forbidden" /\ resolveEffectiveSA(mr) # None)
      <4>1. CASE "prune" \notin Disturbances
        BY <4>1 DEF FailInv
      <4>2. CASE ServiceAccounts = {}
        <5>1. mr.spec \in SpecSet
          BY <2>1, AtWork, Zenon DEF BaseInv
        <5>2. mr.spec.serviceAccountName = None /\ DefaultSA = None
          BY <4>2, <5>1, Assumptions DEF SpecSet
        <5> QED BY <5>2, Zenon DEF resolveEffectiveSA
      <4> QED BY <4>1, <4>2, Zenon
    <3>2. mr'.status.history = recordHistoryEntry(mr.status.history, FALSE)
      BY <2>3, <3>1, Zenon DEF CommitsFailure
    <3>3. GoodHistory(mr.status.history)
      BY <2>1, AtWork DEF BaseInv, WellFormed
    <3>4. mr'.status.history # mr.status.history
      BY <3>2, <3>3, RecordChangesHistory, Zenon
    <3> QED BY <1>1, <2>1, <3>4 DEF FailInv
  <2> QED BY <1>4, <2>2, <2>3 DEF Commits
<1>5. CASE GivesUp \/ SendsFinalizers \/ SendsStatus \/ Restarts
  <2>1. pc' \in {"idle", "removeFinalizer"}
    BY <1>5, Zenon DEF GivesUp, SendsFinalizers, SendsStatus, Restarts, AfterPatch, Return
  <2> QED BY <1>1, <2>1 DEF FailInv
<1>6. CASE SendsConditions
  <2>1. UNCHANGED <<mr, old>> /\ pc \in PatchPcs /\ pc' \in PatchPcs
    BY <1>6, Zenon DEF SendsConditions
  <2> QED BY <1>1, <2>1 DEF FailInv
<1>7. CASE OthersAct
  <2>1. UNCHANGED <<mr, old, pc>>
    BY <1>7, Zenon DEF OthersAct
  <2> QED BY <1>1, <2>1 DEF FailInv
<1> QED BY <1>2, <1>3, <1>4, <1>5, <1>6, <1>7, NextForms DEF BaseInv

\* What FailuresRecorded says of one step.
FailureRecorded ==
    api'.status.failureCounters.reconcile > api.status.failureCounters.reconcile
       => api'.status.history # api.status.history

\* And every step obeys it: only the patch of the status writes the counter.
LEMMA StepRecordsFailure ==
    ASSUME BaseInv, FailInv, [Next]_vars
    PROVE  FailureRecorded
<1>1. /\ api.status.failureCounters.reconcile \in Nat
      /\ mr.status.failureCounters.reconcile \in Nat
  BY CounterTypes DEF BaseInv
<1>2. CASE api'.status = api.status
  BY <1>1, <1>2 DEF FailureRecorded
<1>3. CASE api' = Gone
  <2>1. Gone.status.failureCounters.reconcile = 0
    BY Zenon DEF Gone, NoStatus, ZeroCounters
  <2> QED BY <1>1, <1>3, <2>1, SMTT(30) DEF FailureRecorded
<1>4. CASE pc = "patchStatus" /\ api.exists /\ api'.status = mr.status
  <2>1. old.status = api.status
    BY <1>4 DEF BaseInv, CopyInv, PatchPcs
  <2> QED BY <1>1, <1>4, <2>1, SMTT(30) DEF FailInv, FailureRecorded, PatchPcs
<1> QED BY <1>2, <1>3, <1>4, StatusChanges, Zenon

\* No failed attempt goes unrecorded: when reads are current, the counter of
\* consecutive failures grows only together with the history, for every fault
\* but one.  A prune that is denied to a service account leaves errMsg empty,
\* and with it the history; that needs a failing request of Prune and a service
\* account, so one of the two is excluded.
THEOREM FailuresAreRecorded ==
    ASSUME ~CacheLag, "prune" \notin Disturbances \/ ServiceAccounts = {}
    PROVE  Spec => FailuresRecorded
<1>1. Init => FailInv
  BY DEF Init, FailInv, WorkPcs, PatchPcs
<1>2. BaseInv /\ FailInv /\ [Next]_vars => FailInv' /\ FailureRecorded
  BY NextFail, StepRecordsFailure
<1>3. Spec => [][FailureRecorded]_vars
  BY <1>1, <1>2, BaseInvariant, PTL DEF Spec
<1> QED BY <1>3, Zenon DEF FailureRecorded, FailuresRecorded

-----------------------------------------------------------------------------
(* How a reconcile ends: done, waiting for a retry, or suspended. *)

\* The status records the render of a spec as applied, and its inventory.
RecordsRender(s, spec) ==
    LET render == Render[<<catalog, spec.module, spec.values>>]
    IN  /\ s.lastApplied = [source |-> spec.module, config |-> spec.values,
                            render |-> render]
        /\ s.inventory.entries = Entries(render)
        /\ s.inventory.digest = Entries(render)

\* The inventory digest is that of the entries, or none.
DigestFits(s) == s.inventory.digest \in {None, s.inventory.entries}

\* A reconcile that asks for no retry has recorded the render of its spec, or
\* found the release suspended and reports it as not Ready; so this is what the
\* API server shows of a release that nobody will look at again.
OutcomeInv ==
    /\ DigestFits(api.status)
    /\ pc \in WorkPcs \cup PatchPcs => DigestFits(mr.status)
    /\ pc \in PatchPcs /\ cont = "done" =>
          mr.status.nextRetryAt = 0 /\ RecordsRender(mr.status, mr.spec)
    /\ pc \in PatchPcs /\ cont = "suspend" =>
          mr.spec.suspend /\ mr.conditions.ready = "False"
    /\ pc = "patchStatus" /\ cont = "suspend" /\ api.exists => api.conditions.ready = "False"
    /\ pc = "idle" /\ ~queued /\ ~timer /\ api.exists /\ ~api.deleting =>
          /\ api.spec.suspend \/ api.status.nextRetryAt = 0
          /\ api.conditions.ready = "True" => RecordsRender(api.status, api.spec)

\* The part of it about a release that nobody will look at again.
QuietOutcome ==
    pc = "idle" /\ ~queued /\ ~timer /\ api.exists /\ ~api.deleting =>
       /\ api.spec.suspend \/ api.status.nextRetryAt = 0
       /\ api.conditions.ready = "True" => RecordsRender(api.status, api.spec)

\* The inventory and its digest change together.
LEMMA DigestKept ==
    ASSUME ~CacheLag, BaseInv, OutcomeInv, [Next]_vars
    PROVE  /\ DigestFits(api'.status)
           /\ pc' \in WorkPcs \cup PatchPcs => DigestFits(mr'.status)
<1> USE DEF WorkPcs, PatchPcs
<1>1. cache = api
  BY Zenon DEF BaseInv, QueueInv
<1>2. DigestFits(Gone.status)
  BY Zenon DEF Gone, NoStatus, NoInventory, DigestFits
<1>3. DigestFits(api'.status)
  BY <1>2, StatusChanges, Zenon DEF OutcomeInv
<1>4. CASE Takes
  <2>1. pc' \in WorkPcs \cup PatchPcs =>
           mr' = cache \/ mr'.status.inventory = cache.status.inventory
    BY <1>4, Zenon DEF Takes, WorkPcs, PatchPcs, SameRecord
  <2> QED BY <1>1, <1>3, <2>1 DEF DigestFits, OutcomeInv
<1>5. CASE Moves \/ Commits \/ Stalls
  <2>1. /\ pc \in WorkPcs
        /\ \/ mr'.status.inventory = mr.status.inventory
           \/ mr'.status.inventory = NoInventory
           \/ mr'.status.inventory.digest = mr'.status.inventory.entries
    BY <1>5, Zenon DEF Moves, Commits, Stalls, SameRecord, CommitsNoOp, CommitsFailure,
       CommitsSuccess
  <2> QED BY <1>3, <2>1 DEF DigestFits, OutcomeInv, NoInventory
<1>6. CASE GivesUp \/ SendsFinalizers \/ SendsStatus \/ Restarts
  <2>1. pc' \in {"idle", "removeFinalizer"}
    BY <1>6, Zenon DEF GivesUp, SendsFinalizers, SendsStatus, Restarts, AfterPatch, Return
  <2> QED BY <1>3, <2>1
<1>7. CASE SendsConditions \/ OthersAct
  <2>1. UNCHANGED mr /\ (pc' \in WorkPcs \cup PatchPcs => pc \in WorkPcs \cup PatchPcs)
    BY <1>7, Zenon DEF SendsConditions, OthersAct
  <2> QED BY <1>3, <2>1 DEF OutcomeInv
<1> QED BY <1>4, <1>5, <1>6, <1>7, NextForms DEF BaseInv

\* A commit that asks for no retry has found or written the record.
LEMMA CommitRecords ==
    ASSUME OutcomeInv, Commits, cont' = "done"
    PROVE  mr'.status.nextRetryAt = 0 /\ RecordsRender(mr.status, mr.spec)'
<1>1. mr'.spec = mr.spec /\ catalog' = catalog /\ pc \in WorkPcs
  BY Zenon DEF Commits, SameRelease
<1>2. DigestFits(mr.status)
  BY <1>1 DEF OutcomeInv
<1>3. CASE CommitsNoOp
  <2>1. IsNoOpNow
    BY <1>3, Zenon DEF CommitsNoOp
  <2>2. /\ mr.status.lastApplied = DigestSet(Desired)
        /\ mr.status.inventory.digest = Entries(Desired)
        /\ mr.status.inventory.digest # None
    BY <2>1, Zenon DEF IsNoOpNow, IsNoOp
  <2>3. mr.status.inventory.entries = Entries(Desired)
    BY <1>2, <2>2 DEF DigestFits
  <2> QED BY <1>1, <1>3, <2>2, <2>3, Zenon DEF CommitsNoOp, RecordsRender, DigestSet, Desired
<1>4. CASE CommitsSuccess
  BY <1>1, <1>4, Zenon DEF CommitsSuccess, RecordsRender, DigestSet, Desired
<1>5. CASE CommitsFailure
  BY <1>5, Zenon DEF CommitsFailure
<1> QED BY <1>3, <1>4, <1>5, Zenon DEF Commits

\* A merge patch of conditions that nobody else has changed writes Ready.
LEMMA ReadyStored ==
    ASSUME NEW l, NEW b, NEW a, NEW renewed, b = l
    PROVE  PatchConditions(l, b, a, renewed).ready = a.ready
BY DEF PatchConditions, Pick

\* The worker, up to the end of the patch.
LEMMA PatchingOutcome ==
    ASSUME "patch" \notin Disturbances, BaseInv, OutcomeInv, [Next]_vars
    PROVE  /\ pc' \in PatchPcs /\ cont' = "done" =>
                 mr'.status.nextRetryAt = 0 /\ RecordsRender(mr.status, mr.spec)'
           /\ pc' \in PatchPcs /\ cont' = "suspend" =>
                 mr'.spec.suspend /\ mr'.conditions.ready = "False"
           /\ pc' = "patchStatus" /\ cont' = "suspend" /\ api'.exists =>
                 api'.conditions.ready = "False"
<1> USE DEF WorkPcs, PatchPcs
<1>1. CASE Takes
  <2>1. \/ pc' \notin PatchPcs
        \/ /\ pc' = "patchConditions" /\ cont' = "suspend"
           /\ mr'.spec.suspend /\ mr'.conditions.ready = "False"
    BY <1>1, Zenon DEF Takes, SameRelease, PatchPcs
  <2> QED BY <2>1
<1>2. CASE Moves \/ Stalls \/ GivesUp \/ SendsFinalizers \/ Restarts
  <2>1. pc' \notin PatchPcs \/ (pc' = "patchConditions" /\ cont' \in {"retry", "orphan"})
    BY <1>2, Zenon DEF Moves, Stalls, GivesUp, SendsFinalizers, Restarts, WorkPcs, PatchPcs
  <2> QED BY <2>1
<1>3. CASE Commits
  <2>1. pc' = "patchConditions" /\ cont' \in {"retry", "done"}
    BY <1>3, Zenon DEF Commits, CommitsNoOp, CommitsFailure, CommitsSuccess
  <2> QED BY <1>3, <2>1, CommitRecords
<1>4. CASE SendsConditions
  <2>1. /\ pc = "patchConditions" /\ UNCHANGED <<mr, catalog>>
        /\ cont' \in {cont, "retry"}
    BY <1>4, Zenon DEF SendsConditions
  <2>2. cont' = "suspend" /\ api'.exists => api'.conditions.ready = "False"
    <3>1. SUFFICES ASSUME cont' = "suspend", api'.exists
                   PROVE  api'.conditions.ready = "False"
      OBVIOUS
    <3>2. cont = "suspend" /\ api.exists
      BY <1>4, <3>1 DEF SendsConditions, NoWrite
    <3>3. api'.conditions = PatchConditions(api.conditions, old.conditions, mr.conditions,
                                            ~mr.deleting /\ ~mr.spec.suspend)
      BY <1>4, <3>2, Zenon DEF SendsConditions
    <3>4. old.conditions = api.conditions
      BY <2>1, <3>2, Zenon DEF BaseInv, CopyInv
    <3> HIDE DEF PatchPcs
    <3>5. api'.conditions.ready = mr.conditions.ready
      BY <3>3, <3>4, ReadyStored
    <3> QED BY <2>1, <3>2, <3>5, Zenon DEF OutcomeInv, PatchPcs
  <2> QED BY <2>1, <2>2, Zenon DEF OutcomeInv, RecordsRender
<1>5. CASE SendsStatus
  <2>1. pc' \in {"idle", "removeFinalizer"}
    BY <1>5, Zenon DEF SendsStatus, AfterPatch, Return
  <2> QED BY <2>1
<1>6. CASE OthersAct
  <2>1. UNCHANGED <<pc, mr, cont, catalog>>
    BY <1>6, Zenon DEF OthersAct
  <2>2. api' = Gone => ~api'.exists
    BY DEF Gone
  <2>3. api'.exists => api.exists /\ api'.conditions = api.conditions
    BY <1>6, <2>2, Zenon DEF OthersAct
  <2> QED BY <2>1, <2>3, Zenon DEF OutcomeInv, RecordsRender
<1> QED BY <1>1, <1>2, <1>3, <1>4, <1>5, <1>6, NextForms, Zenon DEF BaseInv

\* The end of a reconcile, and what others do afterwards.
LEMMA NextQuietOutcome ==
    ASSUME ~CacheLag, "patch" \notin Disturbances, BaseInv, OutcomeInv, [Next]_vars
    PROVE  QuietOutcome'
<1> USE DEF WorkPcs, PatchPcs
<1>1. SUFFICES ASSUME pc' = "idle", ~queued', ~timer', api'.exists, ~api'.deleting
               PROVE  /\ api'.spec.suspend \/ api'.status.nextRetryAt = 0
                      /\ api'.conditions.ready = "True" =>
                            RecordsRender(api.status, api.spec)'
  BY Zenon DEF QuietOutcome
<1>2. cache = api
  BY Zenon DEF BaseInv, QueueInv
<1>3. api' # Gone
  BY <1>1, SMTT(30) DEF Gone
<1>4. CASE Takes
  <2>1. ~cache.exists /\ UNCHANGED api
    BY <1>1, <1>4, Zenon DEF Takes
  <2> QED BY <1>1, <1>2, <2>1
<1>5. CASE Moves \/ Commits \/ Stalls \/ GivesUp
  BY <1>1, <1>5, Zenon DEF Moves, Commits, Stalls, GivesUp, WorkPcs
<1>6. CASE SendsConditions \/ Restarts
  BY <1>1, <1>6, Zenon DEF SendsConditions, Restarts
<1>7. CASE SendsFinalizers
  <2>1. pc = "removeFinalizer" /\ api.exists /\ SameRelease(api, api')
    BY <1>1, <1>3, <1>7, Zenon DEF SendsFinalizers, SameServer
  <2>2. api.deleting
    BY <1>2, <2>1, Zenon DEF BaseInv, LInv, ReconcileShape
  <2> QED BY <1>1, <2>1, <2>2, Zenon DEF SameRelease
<1>8. CASE SendsStatus
  <2>1. /\ api.exists /\ SameRelease(api, api') /\ api'.conditions = api.conditions
        /\ api'.status = mr.status
    BY <1>1, <1>8, StatusStored, Zenon
  <2>2. cont \in {"done", "suspend"} /\ pc = "patchStatus" /\ catalog' = catalog
    <3>1. AfterPatch(TRUE) \/ AfterPatch(FALSE)
      BY <1>8, Zenon DEF SendsStatus
    <3>2. cont \notin {"orphan", "retry"}
      BY <1>1, <3>1, Zenon DEF AfterPatch, Return
    <3>3. cont \in {"done", "retry", "suspend", "orphan"}
      BY Zenon DEF BaseInv, IInv, TypeOK
    <3> QED BY <1>8, <3>2, <3>3 DEF SendsStatus
  <2>3. ~queued /\ SameRelease(cache, mr)
    <3>1. ~queued
      BY <1>1, <1>8, QuietCache DEF BaseInv
    <3> QED BY <2>1, <2>2, <3>1, Zenon DEF BaseInv, QueueInv
  <2>4. api'.spec = mr.spec
    BY <1>2, <2>1, <2>3, Zenon DEF SameRelease
  <2>5. CASE cont = "done"
    <3>1. mr.status.nextRetryAt = 0 /\ RecordsRender(mr.status, mr.spec)
      BY <2>2, <2>5, Zenon DEF OutcomeInv
    <3> QED BY <2>1, <2>2, <2>4, <3>1, Zenon DEF RecordsRender
  <2>6. CASE cont = "suspend"
    <3>1. mr.spec.suspend /\ api.conditions.ready = "False"
      BY <2>1, <2>2, <2>6, Zenon DEF OutcomeInv
    <3> QED BY <2>1, <2>4, <3>1
  <2> QED BY <2>2, <2>5, <2>6, Zenon
<1>9. CASE OthersAct
  <2>1. ~queued /\ api.exists /\ SameRelease(api, api')
    <3>1. ~queued /\ api.exists /\ SameRelease(cache, cache')
      BY <1>1, <1>9, QuietCache, Zenon DEF BaseInv
    <3>2. cache' = api'
      BY NextQueue DEF BaseInv, QueueInv
    <3> QED BY <1>2, <3>1, <3>2
  <2>2. /\ UNCHANGED <<pc, catalog>> /\ ~timer
    <3>1. UNCHANGED <<pc, catalog>>
      BY <1>9, Zenon DEF OthersAct
    <3>2. timer => timer' \/ queued'
      BY <1>9, Zenon DEF OthersAct
    <3> QED BY <1>1, <3>1, <3>2
  <2>3. api'.status = api.status /\ api'.conditions = api.conditions
    BY <1>3, <1>9, Zenon DEF OthersAct
  <2>4. ~api.deleting /\ api'.spec = api.spec
    BY <1>1, <2>1, Zenon DEF SameRelease
  <2> QED BY <1>1, <2>1, <2>2, <2>3, <2>4, Zenon DEF OutcomeInv, RecordsRender
<1> QED BY <1>4, <1>5, <1>6, <1>7, <1>8, <1>9, NextForms, Zenon DEF BaseInv

\* The invariant holds of every state.
LEMMA OutcomeInvariant ==
    ASSUME ~CacheLag, "patch" \notin Disturbances
    PROVE  Spec => []OutcomeInv
<1>1. Init => OutcomeInv
  <2> SUFFICES ASSUME Init PROVE OutcomeInv
    OBVIOUS
  <2>1. PICK spec \in Specs : api = Created(spec)
    BY DEF Init
  <2>2. DigestFits(api.status)
    BY <2>1, Zenon DEF Created, NoStatus, NoInventory, DigestFits
  <2> QED BY <2>2, Zenon DEF Init, OutcomeInv, WorkPcs, PatchPcs
<1>2. BaseInv /\ OutcomeInv /\ [Next]_vars => OutcomeInv'
  BY DigestKept, PatchingOutcome, NextQuietOutcome, Zenon DEF OutcomeInv, QuietOutcome
<1> QED BY <1>1, <1>2, BaseInvariant, PTL DEF Spec

\* status.nextRetryAt keeps its promise: when reads are current, a release that
\* is neither suspended nor being deleted and has a retry time has its retry
\* queued or scheduled whenever the worker is idle, for every fault but an error
\* of the status patch, which the deferred commit only logs.
THEOREM RetryIsAlwaysScheduled ==
    ASSUME ~CacheLag, "patch" \notin Disturbances
    PROVE  Spec => []RetryIsScheduled
<1>1. OutcomeInv => RetryIsScheduled
  BY DEF OutcomeInv, RetryIsScheduled
<1> QED BY <1>1, OutcomeInvariant, PTL

\* IsNoOp and the commit: when reads are current and no status patch is lost, a
\* Ready release that is left alone has recorded exactly the render of its
\* current spec as applied and its inventory, whatever else fails, and also when
\* the operator was restarted with another catalog.
THEOREM ReadyIsAlwaysRecorded ==
    ASSUME ~CacheLag, "patch" \notin Disturbances
    PROVE  Spec => []ReadyIsRecorded
<1>1. OutcomeInv => ReadyIsRecorded
  BY Zenon DEF OutcomeInv, ReadyIsRecorded, Settled, ReportsReady, RecordsRender, DesiredBy
<1> QED BY <1>1, OutcomeInvariant, PTL

=============================================================================
