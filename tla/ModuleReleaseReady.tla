------------------------- MODULE ModuleReleaseReady -------------------------
(****************************************************************************)
(* What Ready and gone mean for a ModuleRelease, for every value of its     *)
(* constants: the objects of a Ready release are in the cluster as          *)
(* rendered, nothing of an earlier spec is left, and nothing at all when    *)
(* the release goes.                                                        *)
(****************************************************************************)
EXTENDS ModuleReleaseSettled

-----------------------------------------------------------------------------
(* Ready means applied. *)

\* The faults and foreign writes that can make the cluster differ from what is
\* recorded: each of them is possible in the code, and breaks what follows.
Disturbing == {"apply", "prune", "patch", "crash", "foreignWrite"}

\* No render names an object twice.
UniqueIds == \A x \in DOMAIN Render : \A r, s \in Render[x] : r.id = s.id => r = s

\* The cluster has the object as rendered.
Shows(r) ==
    live[r.id] # Absent /\ live[r.id].component = r.component /\ live[r.id].content = r.content

\* ... and so every object of the render that was last recorded as applied.
Matches(s) == s.lastApplied.render # None => \A r \in s.lastApplied.render : Shows(r)

\* Between two applies the cluster shows what is recorded; an apply replaces it
\* resource by resource, and a prune of stale entries leaves it alone.
AppliedInv ==
    /\ pc \in {"idle", "addFinalizer"} /\ api.exists /\ ~api.deleting => Matches(api.status)
    /\ pc \in EarlyPcs \cup PatchPcs /\ ~mr.deleting => Matches(mr.status)
    /\ pc = "apply" => \A r \in Desired \ todo : Shows(r)
    /\ pc = "prune" /\ ~mr.deleting => \A r \in Desired : Shows(r)


\* The apply phase: a resource is applied, or all of them have been.
LEMMA ApplyPhaseApplied ==
    ASSUME UniqueIds, IInv, AppliedInv, ApplyPhase, pc = "apply", ~mr.deleting,
           mr'.spec = mr.spec, catalog' = catalog
    PROVE  AppliedInv'
<1>1. /\ mr.spec \in SpecSet /\ catalog \in Catalogs /\ Desired' = Desired
      /\ live \in [Objects -> {Absent} \cup LiveObjects]
  BY AtWork DEF Desired, IInv, TypeOK
<1>2. CASE \E r \in todo : ApplyResource(r)
  <2>1. PICK r \in todo : ApplyResource(r)
    BY <1>2
  <2>2. /\ pc' = "apply" /\ todo' = todo \ {r} /\ live' = [live EXCEPT ![r.id] = Applied(r)]
    BY <2>1 DEF ApplyResource
  <2>3. r \in Desired
    BY DEF IInv, WorkerShape
  <2>4. r.id \in Objects /\ Applied(r) # Absent
    BY <1>1, <2>3, AppliedType, Zenon
  <2>5. ASSUME NEW s \in Desired \ todo'
        PROVE  Shows(s)'
    <3>1. CASE s = r
      <4>1. live'[s.id] = Applied(r)
        BY <1>1, <2>2, <2>4, <3>1
      <4> QED BY <2>4, <3>1, <4>1 DEF Shows, Applied
    <3>2. CASE s # r
      <4>1. s \notin todo /\ Shows(s)
        BY <2>2, <2>5, <3>2 DEF AppliedInv
      <4>2. <<catalog, mr.spec.module, mr.spec.values>> \in DOMAIN Render
        <5>1. mr.spec.module \in Modules /\ mr.spec.values \in Values
          BY <1>1, Zenon DEF SpecSet
        <5> QED BY <1>1, <5>1, Assumptions
      <4>3. s.id # r.id
        BY <2>3, <2>5, <3>2, <4>2 DEF UniqueIds, Desired
      <4>4. s.id \in Objects
        BY <1>1, <2>5, AppliedType, Zenon
      <4>5. live'[s.id] = live[s.id]
        BY <1>1, <2>2, <4>3, <4>4
      <4> QED BY <4>1, <4>5, Zenon DEF Shows
    <3> QED BY <3>1, <3>2
  <2> QED BY <1>1, <2>2, <2>5 DEF AppliedInv, EarlyPcs, PatchPcs
<1>3. CASE todo = {} /\ UNCHANGED live /\ (pc' = "prune" \/ (pc' = "patchConditions" /\ CommitsSuccess))
  <2>1. \A r \in Desired : Shows(r)
    BY <1>3, Zenon DEF AppliedInv
  <2>2. \A r \in Desired : Shows(r)'
    BY <1>3, <2>1, Zenon DEF Shows
  <2>3. CASE pc' = "prune"
    BY <1>1, <2>2, <2>3 DEF AppliedInv, EarlyPcs, PatchPcs
  <2>4. CASE pc' = "patchConditions" /\ CommitsSuccess
    <3>1. mr'.status.lastApplied.render = Desired
      BY <2>4 DEF CommitsSuccess, DigestSet
    <3>2. Matches(mr.status)'
      BY <2>2, <3>1 DEF Matches
    <3> QED BY <2>4, <3>2, Zenon DEF AppliedInv, EarlyPcs, PatchPcs
  <2> QED BY <1>3, <2>3, <2>4, Zenon
<1> QED BY <1>2, <1>3, Zenon DEF ApplyPhase

\* The prune phase deletes nothing of the render.
LEMMA PrunePhaseApplied ==
    ASSUME IInv, AppliedInv, PrunePhase, pc = "prune", ~mr.deleting,
           mr'.spec = mr.spec, mr'.deleting = mr.deleting, catalog' = catalog
    PROVE  AppliedInv'
<1>1. /\ mr.spec \in SpecSet /\ catalog \in Catalogs /\ Desired' = Desired
      /\ live \in [Objects -> {Absent} \cup LiveObjects]
  BY AtWork DEF Desired, IInv, TypeOK
<1>2. \A r \in Desired : Shows(r)
  BY DEF AppliedInv
<1>3. CASE pc' = "prune" /\ UNCHANGED live
  <2>1. \A r \in Desired : Shows(r)'
    BY <1>2, <1>3, Zenon DEF Shows
  <2> QED BY <1>1, <1>3, <2>1 DEF AppliedInv, EarlyPcs, PatchPcs
<1>4. CASE PruneDelete
  <2>1. /\ pc' = "prune" /\ live' = [live EXCEPT ![target.id] = Absent] /\ target # None
    BY <1>4, Zenon DEF PruneDelete, pruneUnchanged
  <2>2. target \in StaleSet
    BY <2>1 DEF IInv, WorkerShape
  <2>3. ASSUME NEW r \in Desired
        PROVE  Shows(r)'
    <3>1. NewEntryFromResource(r) \in Entries(Desired) /\ NewEntryFromResource(r).id = r.id
      BY DEF Entries, NewEntryFromResource
    <3>2. target.id # r.id
      BY <2>2, <3>1, StaleSetDisjoint DEF StaleSet
    <3>3. r.id \in Objects
      BY <1>1, AppliedType, Zenon
    <3>4. live'[r.id] = live[r.id]
      BY <1>1, <2>1, <3>2, <3>3
    <3> QED BY <1>2, <3>4 DEF Shows
  <2> QED BY <1>1, <2>1, <2>3, Zenon DEF AppliedInv, EarlyPcs, PatchPcs
<1>5. CASE pc' = "patchConditions" /\ CommitsSuccess /\ UNCHANGED live
  <2>1. mr'.status.lastApplied.render = Desired
    BY <1>5 DEF CommitsSuccess, DigestSet
  <2>2. Matches(mr.status)'
    BY <1>2, <1>5, <2>1 DEF Matches, Shows
  <2> QED BY <1>5, <2>2 DEF AppliedInv, EarlyPcs, PatchPcs
<1>6. CASE \E e \in todo : PruneGet(e)
  <2>1. pc' = "prune" /\ UNCHANGED live
    BY <1>6, Zenon DEF PruneGet, pruneUnchanged
  <2> QED BY <1>3, <2>1
<1> QED BY <1>4, <1>5, <1>6, Zenon DEF PrunePhase

\* The work of a reconcile.
LEMMA WorkApplied ==
    ASSUME UniqueIds, Disturbances \cap Disturbing = {}, BaseInv, firstErr = "none",
           AppliedInv, LocalSteps, Moves \/ Commits \/ Stalls \/ GivesUp, pc \in WorkPcs,
           [Next]_vars, cache = api
    PROVE  AppliedInv'
<1>1. IInv /\ LInv /\ LInv' /\ api' = api
  BY NextRefines, LocalStepsWriteNothing, Zenon DEF BaseInv
<1>2. CASE mr.deleting
  <2>1. api.deleting \/ ~api.exists
    BY <1>2 DEF BaseInv, LInv, ReconcileShape, WorkPcs
  <2>2. pc' = "idle" \/ (mr'.deleting /\ pc' \notin {"idle", "addFinalizer"})
    BY <1>2, Zenon DEF Moves, Commits, Stalls, GivesUp, SameRelease, WorkPcs
  <2>3. pc' # "apply" \/ ~mr'.deleting
    BY <1>1, Zenon DEF LInv, ReconcileShape
  <2> QED BY <1>1, <2>1, <2>2, <2>3 DEF AppliedInv, EarlyPcs, PatchPcs
<1>3. CASE ~mr.deleting
  <2>1. Moves \/ Commits
    BY <1>3 DEF Stalls, GivesUp
  <2>2. mr'.spec = mr.spec /\ mr'.deleting = mr.deleting /\ catalog' = catalog
    BY <2>1, Zenon DEF Moves, Commits, SameRelease
  <2>3. "apply" \notin Disturbances /\ "prune" \notin Disturbances
    BY Zenon DEF Disturbing
  <2>4. CASE pc \in EarlyPcs
    <3>1. EarlyPhase
      BY <1>1, <1>3, <2>4, EarlyPhases
    <3>2. Desired' = Desired
      BY <2>2, Zenon DEF Desired
    <3>3. Matches(mr.status)
      BY <1>3, <2>4 DEF AppliedInv
    <3>4. Matches(mr.status)'
      BY <3>1, <3>3 DEF EarlyPhase, Matches, Shows
    <3>5. \/ pc' \in EarlyPcs \cup {"patchConditions"}
          \/ pc' = "apply" /\ todo' = Desired
      BY <3>1, Zenon DEF EarlyPhase
    <3> QED BY <3>2, <3>4, <3>5 DEF AppliedInv, EarlyPcs, PatchPcs
  <2>5. CASE pc = "apply"
    BY <1>1, <1>3, <2>2, <2>3, <2>5, ApplyPhases, ApplyPhaseApplied
  <2>6. CASE pc = "prune"
    BY <1>1, <1>3, <2>2, <2>3, <2>6, PrunePhases, PrunePhaseApplied
  <2> QED BY <2>4, <2>5, <2>6 DEF WorkPcs, EarlyPcs
<1> QED BY <1>2, <1>3, Zenon

\* Every other step leaves the cluster alone.
LEMMA NextApplied ==
    ASSUME ~CacheLag, UniqueIds, Disturbances \cap Disturbing = {}, BaseInv,
           firstErr = "none", AppliedInv, [Next]_vars
    PROVE  AppliedInv'
<1> USE DEF EarlyPcs, PatchPcs
<1>1. cache = api /\ IInv /\ LInv
  BY Zenon DEF BaseInv, QueueInv
<1>2. /\ "foreignWrite" \notin Disturbances /\ "crash" \notin Disturbances
      /\ "patch" \notin Disturbances
  BY DEF Disturbing
<1>3. CASE LocalSteps /\ pc \in WorkPcs /\ (Moves \/ Commits \/ Stalls \/ GivesUp)
  BY <1>1, <1>3, WorkApplied
<1>4. CASE Takes /\ live' = live
  <2>1. UNCHANGED api /\ pc = "idle"
    BY <1>4 DEF Takes
  <2>2. IInv'
    BY <1>1, NextIInv, Zenon
  <2>3. CASE pc' = "idle"
    BY <1>1, <1>4, <2>1, <2>3 DEF Takes, AppliedInv
  <2>4. CASE pc' = "addFinalizer"
    BY <1>4, <2>1, <2>4, Zenon DEF AppliedInv, Matches, Shows
  <2>5. CASE mr'.deleting /\ pc' \in {"removeFinalizer", "prune", "impersonate"}
    BY <2>5, Zenon DEF AppliedInv
  <2>6. CASE /\ pc' \in {"patchConditions", "render"} /\ SameRelease(cache, mr')
             /\ ~cache.deleting /\ SameRecord(cache.status, mr'.status)
    <3>1. cache.exists
      BY <2>2, <2>6, Zenon DEF IInv, WorkerShape, SameRelease
    <3>2. Matches(api.status)
      BY <1>1, <2>1, <2>6, <3>1 DEF AppliedInv
    <3>3. mr'.status.lastApplied = api.status.lastApplied
      BY <1>1, <2>6, Zenon DEF SameRecord
    <3>4. Matches(mr.status)'
      BY <1>4, <3>2, <3>3, Zenon DEF Matches, Shows
    <3> QED BY <2>6, <3>4, Zenon DEF AppliedInv
  <2> QED BY <1>4, <2>3, <2>4, <2>5, <2>6, Zenon DEF Takes
<1>5. CASE SendsFinalizers /\ live' = live
  <2>1. SUFFICES ASSUME api'.exists, ~api'.deleting
                 PROVE  Matches(api.status)'
    BY <1>5 DEF SendsFinalizers, AppliedInv
  <2>2. api.exists /\ api'.deleting = api.deleting /\ api'.status = api.status
    <3>1. api' # Gone
      BY <2>1, SMTT(30) DEF Gone
    <3> QED BY <1>5, <2>1, <3>1, Zenon DEF SendsFinalizers, NoWrite, SameServer, SameRelease
  <2>3. pc = "addFinalizer"
    <3>1. pc = "removeFinalizer" => api.deleting \/ ~api.exists
      BY <1>1 DEF LInv, ReconcileShape
    <3> QED BY <1>5, <2>1, <2>2, <3>1 DEF SendsFinalizers
  <2>4. Matches(api.status)
    BY <2>1, <2>2, <2>3, Zenon DEF AppliedInv
  <2> QED BY <1>5, <2>2, <2>4, Zenon DEF Matches, Shows
<1>6. CASE SendsConditions /\ live' = live
  <2>1. pc \in PatchPcs /\ pc' = "patchStatus" /\ mr' = mr
    BY <1>6, Zenon DEF SendsConditions
  <2> QED BY <1>6, <2>1, Zenon DEF AppliedInv, Matches, Shows
<1>7. CASE SendsStatus /\ live' = live
  <2>1. pc = "patchStatus" /\ pc' \in {"idle", "removeFinalizer"}
    BY <1>7, Zenon DEF SendsStatus, AfterPatch, Return
  <2>2. SUFFICES ASSUME api'.exists, ~api'.deleting, pc' = "idle"
                 PROVE  Matches(api.status)'
    <3>1. pc' = "removeFinalizer" => AppliedInv'
      BY Zenon DEF AppliedInv
    <3> QED BY <2>1, <3>1, Zenon DEF AppliedInv
  <2>3. api.exists /\ SameRelease(api, api') /\ api'.status = mr.status
    BY <1>2, <1>7, <2>2, StatusStored
  <2>4. ~api.deleting
    BY <2>2, <2>3, Zenon DEF SameRelease
  <2>5. ~mr.deleting
    BY <1>1, <2>1, <2>3, <2>4 DEF LInv, ReconcileShape
  <2>6. Matches(mr.status)
    BY <2>1, <2>5, Zenon DEF AppliedInv
  <2> QED BY <1>7, <2>3, <2>6 DEF Matches, Shows
<1>8. CASE OthersAct /\ live' = live
  <2>1. UNCHANGED <<pc, mr, todo, catalog>>
    BY <1>8 DEF OthersAct
  <2>2. api'.exists /\ ~api'.deleting =>
           api.exists /\ ~api.deleting /\ api'.status = api.status
    <3>1. api' = Gone => ~api'.exists
      BY DEF Gone
    <3> QED BY <1>8, <3>1, Zenon DEF OthersAct
  <2>3. Desired' = Desired
    BY <2>1 DEF Desired
  <2> QED BY <1>8, <2>1, <2>2, <2>3 DEF AppliedInv, Matches, Shows
<1> QED BY <1>1, <1>2, <1>3, <1>4, <1>5, <1>6, <1>7, <1>8, StepKinds

\* The point of the controller: when reads are current, no render names an
\* object twice, nobody else writes to the objects and no apply, prune or status
\* patch is cut short, a Ready release that is left alone has its objects in the
\* cluster as rendered: for every sequence of edits, also those that come while
\* an apply is under way, and whatever else fails.
THEOREM ReadyIsAlwaysApplied ==
    ASSUME ~CacheLag, UniqueIds, Disturbances \cap Disturbing = {}
    PROVE  Spec => []ReadyIsApplied
<1>1. /\ "patch" \notin Disturbances /\ "prune" \notin Disturbances
  BY Zenon DEF Disturbing
<1> DEFINE Inv == firstErr = "none" /\ AppliedInv
<1>2. Init => Inv
  <2> SUFFICES ASSUME Init PROVE Inv
    OBVIOUS
  <2>1. PICK spec \in Specs : api = Created(spec)
    BY Zenon DEF Init
  <2>2. api.status.lastApplied.render = None
    BY <2>1 DEF Created, NoStatus, NoDigests
  <2> QED BY <2>2 DEF Init, AppliedInv, Matches, EarlyPcs, PatchPcs
<1>3. BaseInv /\ Inv /\ [Next]_vars => Inv'
  BY <1>1, PruneErrors, NextApplied, Zenon
<1>4. IInv /\ OutcomeInv /\ Inv => ReadyIsApplied
  <2> SUFFICES ASSUME IInv, OutcomeInv, AppliedInv, Settled, ReportsReady
               PROVE  \A r \in DesiredBy(api) : Shows(r)
    BY Zenon DEF ReadyIsApplied, Shows
  <2>1. /\ pc = "idle" /\ ~queued /\ ~timer /\ api.exists /\ ~api.deleting
        /\ api.conditions.ready = "True"
    BY Zenon DEF Settled, ReportsReady
  <2>2. api.status.lastApplied.render = DesiredBy(api)
    <3>1. RecordsRender(api.status, api.spec)
      BY <2>1, Zenon DEF OutcomeInv
    <3> QED BY <3>1, SMTT(30) DEF RecordsRender, DesiredBy
  <2>3. DesiredBy(api) # None
    <3>1. api.spec \in SpecSet /\ catalog \in Catalogs
      BY <2>1, Zenon DEF IInv, WellFormed, TypeOK
    <3>2. api.spec.module \in Modules /\ api.spec.values \in Values
      BY <3>1, Zenon DEF SpecSet
    <3> QED BY <3>1, <3>2, Assumptions, RenderAssumption DEF DesiredBy
  <2>4. Matches(api.status)
    BY <2>1 DEF AppliedInv
  <2> QED BY <2>2, <2>3, <2>4 DEF Matches
<1> HIDE DEF Inv
<1>5. BaseInv => IInv
  BY Zenon DEF BaseInv
<1> QED BY <1>1, <1>2, <1>3, <1>4, <1>5, BaseInvariant, OutcomeInvariant, PTL DEF Spec

-----------------------------------------------------------------------------
(* The inventory keeps track of the cluster. *)

\* Every spec that users write has the same release identity, and prunes.  A
\* change of the identity strands the objects of the earlier one, and a release
\* that does not prune drops entries from its inventory.
OneIdentity == \A s, t \in Specs : UUIDOf[s.module] = UUIDOf[t.module]
AlwaysPrunes == \A s \in Specs : s.prune

Identities == {UUIDOf[s.module] : s \in Specs}

\* Whatever is in the cluster carries that identity, and the status has it or none.
IdentityInv ==
    /\ \A o \in Objects : live[o] # Absent => live[o].managed /\ live[o].uuid \in Identities
    /\ {api.status.releaseUUID, mr.status.releaseUUID} \subseteq {None} \cup Identities
    /\ api.exists => api.spec \in Specs
    /\ pc # "idle" => mr.spec \in Specs
    /\ pc # "idle" /\ mr.orphan /\ api.exists => api.orphan

\* So the ownership guard of Prune lets every object of the release pass.
LEMMA GuardPasses ==
    ASSUME OneIdentity, IdentityInv, NEW e, e.id \in Objects \ Protected, live[e.id] # Absent
    PROVE  ~PruneSkips(e)
<1>1. live[e.id].managed /\ live[e.id].uuid \in Identities
  BY Zenon DEF IdentityInv
<1>2. mr.status.releaseUUID # None => mr.status.releaseUUID = live[e.id].uuid
  <2>1. mr.status.releaseUUID # None => mr.status.releaseUUID \in Identities
    BY Zenon DEF IdentityInv
  <2>2. \A u, v \in Identities : u = v
    BY Zenon DEF Identities, OneIdentity
  <2> QED BY <1>1, <2>1, <2>2
<1> QED BY <1>1, <1>2, Zenon DEF PruneSkips, OwnerMatches, isSafeToDelete

\* The objects in the cluster carry the identity of the spec they come from.
LEMMA LiveIdentity ==
    ASSUME "foreignWrite" \notin Disturbances, IInv, IdentityInv, [Next]_vars
    PROVE  \A o \in Objects : live'[o] # Absent => live'[o].managed /\ live'[o].uuid \in Identities
<1>1. live \in [Objects -> {Absent} \cup LiveObjects]
  BY Zenon DEF IInv, TypeOK
<1>2. CASE live' = live
  BY <1>2, Zenon DEF IdentityInv
<1>3. CASE \E r \in todo : ApplyResource(r)
  <2>1. PICK r \in todo : ApplyResource(r)
    BY <1>3, Zenon
  <2>2. pc # "idle" /\ live' = [live EXCEPT ![r.id] = Applied(r)]
    BY <2>1 DEF ApplyResource
  <2>3. Applied(r).managed /\ Applied(r).uuid \in Identities
    BY <2>2, Zenon DEF Applied, Identities, IdentityInv
  <2> HIDE DEF Identities
  <2> QED BY <1>1, <2>2, <2>3 DEF IdentityInv
<1>4. CASE PruneDelete
  <2>1. live' = [live EXCEPT ![target.id] = Absent]
    BY <1>4, Zenon DEF PruneDelete
  <2> QED BY <1>1, <2>1 DEF IdentityInv
<1> QED BY <1>2, <1>3, <1>4, LiveSteps

\* A reconcile works on a spec that a user wrote, and sees the orphan
\* annotation only when it has been set.
LEMMA NextIdentity ==
    ASSUME ~CacheLag, "foreignWrite" \notin Disturbances, "crash" \notin Disturbances,
           BaseInv, IdentityInv, [Next]_vars
    PROVE  IdentityInv'
<1>1. cache = api /\ IInv /\ LInv /\ IInv'
  BY NextIInv, Zenon DEF BaseInv, QueueInv
<1>2. Gone.status.releaseUUID = None /\ ~Gone.orphan /\ ~Gone.exists
  BY Zenon DEF Gone, NoStatus
<1>3. api'.status.releaseUUID \in {None} \cup Identities
  <2>1. \/ api'.status = api.status \/ api' = Gone
        \/ pc = "patchStatus" /\ api.exists /\ api'.status = mr.status
    BY StatusChanges, Zenon
  <2> QED BY <1>2, <2>1, Zenon DEF IdentityInv
<1>4. pc # "idle" => UUIDOf[mr.spec.module] \in Identities
  BY Zenon DEF Identities, IdentityInv
<1> DEFINE Kept == /\ mr'.status.releaseUUID \in {None} \cup Identities
                   /\ api'.exists => api'.spec \in Specs
                   /\ pc' # "idle" => mr'.spec \in Specs
                   /\ pc' # "idle" /\ mr'.orphan /\ api'.exists => api'.orphan
<1> HIDE DEF Identities
<1>5. SUFFICES Kept
  <2>1. \A o \in Objects : live'[o] # Absent => live'[o].managed /\ live'[o].uuid \in Identities
    BY <1>1, LiveIdentity, Zenon
  <2> QED BY <1>3, <2>1 DEF IdentityInv, Identities
<1>6. CASE Takes
  <2>1. /\ pc = "idle" /\ UNCHANGED api
        /\ \/ pc' = "idle" /\ UNCHANGED mr
           \/ /\ mr'.spec = cache.spec /\ mr'.orphan = cache.orphan
              /\ mr'.status.releaseUUID = cache.status.releaseUUID
    BY <1>6, Zenon DEF Takes, SameRelease
  <2>2. pc' # "idle" => api.exists
    <3>1. pc' # "idle" => mr'.exists
      BY <1>1 DEF IInv, WorkerShape
    <3>2. pc' # "idle" => mr'.exists = cache.exists
      BY <1>6, Zenon DEF Takes, SameRelease
    <3> QED BY <1>1, <3>1, <3>2, Zenon
  <2> QED BY <1>1, <2>1, <2>2 DEF IdentityInv
<1>7. CASE Moves \/ Commits \/ Stalls
  <2>1. /\ pc # "idle" /\ UNCHANGED api /\ mr'.spec = mr.spec /\ mr'.orphan = mr.orphan
        /\ mr'.status.releaseUUID \in {mr.status.releaseUUID, UUIDOf[mr.spec.module]}
    BY <1>7, Zenon DEF Moves, Commits, Stalls, SameRelease, WorkPcs
  <2> QED BY <1>4, <2>1 DEF IdentityInv
<1>8. CASE GivesUp
  BY <1>2, <1>8, Zenon DEF GivesUp, IdentityInv
<1>9. CASE SendsFinalizers
  <2>1. /\ pc' = "idle" /\ mr' = Gone
        /\ UNCHANGED api \/ api' = Gone \/ (api.exists /\ api'.spec = api.spec)
    BY <1>9, Zenon DEF SendsFinalizers, NoWrite, SameServer, SameRelease
  <2> QED BY <1>2, <2>1 DEF IdentityInv
<1>10. CASE SendsConditions \/ SendsStatus
  <2>1. /\ pc # "idle"
        /\ mr' = mr \/ (pc' = "idle" /\ mr' = Gone)
        /\ UNCHANGED api \/ (api.exists /\ api'.spec = api.spec /\ api'.orphan = api.orphan)
    BY <1>10, Zenon DEF SendsConditions, SendsStatus, NoWrite, SameRelease, AfterPatch, Return,
       locals
  <2> QED BY <1>2, <2>1 DEF IdentityInv
<1>11. CASE OthersAct
  <2>1. /\ UNCHANGED <<pc, mr>>
        /\ \/ UNCHANGED api \/ api' = Gone
           \/ /\ api.exists /\ api'.spec \in {api.spec} \cup Specs
              /\ api.orphan => api'.orphan
    BY <1>11, Zenon DEF OthersAct
  <2> QED BY <1>2, <2>1 DEF IdentityInv
<1>12. ~Restarts
  BY Zenon DEF Restarts
<1> QED BY <1>1, <1>6, <1>7, <1>8, <1>9, <1>10, <1>11, <1>12, NextForms

\* The ids of resources or of entries, and the objects in the cluster that may
\* be deleted.
Ids(S) == {x.id : x \in S}
Present == {o \in Objects \ Protected : live[o] # Absent}
Tracks(s) == Present \subseteq Ids(s.inventory.entries)

\* Between two applies every object in the cluster has its entry in the
\* inventory; an apply may add those of the render, and the prune that follows
\* has still to look at the others.  When a deletion has given up the finalizer
\* nothing is left, unless it was told to orphan the objects.
TrackInv ==
    /\ pc \in {"idle", "addFinalizer"} \/ mr.deleting =>
          (api.exists /\ ~(api.deleting /\ api.orphan) => Tracks(api.status))
    /\ pc \in EarlyPcs \cup PatchPcs /\ ~mr.deleting => Tracks(mr.status)
    /\ pc = "apply" => Present \subseteq Ids(mr.status.inventory.entries) \cup Ids(Desired)
    /\ pc = "prune" /\ ~mr.deleting =>
          \A o \in Present :
              o \in Ids(Desired) \cup Ids(todo) \/ (target # None /\ o = target.id)
    /\ api.deleting /\ FinalizerName \notin api.finalizers /\ ~api.orphan => Present = {}

\* An entry names the object of its resource.
LEMMA EntriesIds ==
    ASSUME NEW S
    PROVE  Ids(Entries(S)) = Ids(S)
<1>1. \A r : NewEntryFromResource(r).id = r.id
  BY Zenon DEF NewEntryFromResource
<1>2. Ids(S) \subseteq Ids(Entries(S))
  BY <1>1, Zenon DEF Ids, Entries
<1>3. Ids(Entries(S)) \subseteq Ids(S)
  BY <1>1, Zenon DEF Ids, Entries
<1> QED BY <1>2, <1>3, Zenon

\* What is neither in the render nor stale has no entry.
LEMMA StaleRest ==
    ASSUME NEW o \in Ids(mr.status.inventory.entries)
    PROVE  o \in Ids(Desired) \cup Ids(StaleSet)
<1>1. PICK e \in mr.status.inventory.entries : e.id = o
  BY Zenon DEF Ids
<1>2. CASE e \in StaleSet
  BY <1>1, <1>2, Zenon DEF Ids
<1>3. CASE e \notin StaleSet
  <2>1. PICK c \in Entries(Desired) : e.id = c.id
    BY <1>3, Zenon DEF StaleSet, ComputeStaleSet, K8sIdentityEqual
  <2>2. o \in Ids(Entries(Desired))
    BY <1>1, <2>1 DEF Ids
  <2> QED BY <2>2, EntriesIds, Zenon
<1> QED BY <1>2, <1>3, Zenon

\* A reconcile that is not a deletion has only its own phase to answer for: it
\* holds the finalizer.
LEMMA WorkingTracks ==
    ASSUME LInv', pc' \notin {"idle", "addFinalizer"}, ~mr'.deleting,
           pc' \in EarlyPcs \cup PatchPcs => Tracks(mr.status)',
           pc' = "apply" =>
              Present' \subseteq Ids(mr'.status.inventory.entries) \cup Ids(Desired'),
           pc' = "prune" =>
              \A o \in Present' :
                 o \in Ids(Desired') \cup Ids(todo') \/ (target' # None /\ o = target'.id)
    PROVE  TrackInv'
<1>1. FinalizerName \in api'.finalizers
  BY Zenon DEF LInv, ReconcileShape
<1> QED BY <1>1, Zenon DEF TrackInv

\* The apply phase adds objects of the render only.
LEMMA ApplyPhaseTracks ==
    ASSUME AlwaysPrunes, IInv, LInv', IdentityInv, TrackInv, ApplyPhase, pc = "apply",
           ~mr.deleting, mr'.spec = mr.spec, ~mr'.deleting, catalog' = catalog
    PROVE  TrackInv'
<1>1. /\ Desired' = Desired /\ mr.spec.prune
      /\ live \in [Objects -> {Absent} \cup LiveObjects]
  BY Zenon DEF Desired, IInv, TypeOK, IdentityInv, AlwaysPrunes
<1>2. Present \subseteq Ids(mr.status.inventory.entries) \cup Ids(Desired)
  BY Zenon DEF TrackInv
<1>3. CASE \E r \in todo : ApplyResource(r)
  <2>1. PICK r \in todo : ApplyResource(r)
    BY <1>3, Zenon
  <2>2. pc' = "apply" /\ mr' = mr /\ live' = [live EXCEPT ![r.id] = Applied(r)]
    BY <2>1, Zenon DEF ApplyResource
  <2>3. r.id \in Ids(Desired)
    BY Zenon DEF IInv, WorkerShape, Ids
  <2>4. Present' \subseteq Present \cup {r.id}
    BY <1>1, <2>2, Zenon DEF Present
  <2>5. Present' \subseteq Ids(mr'.status.inventory.entries) \cup Ids(Desired')
    BY <1>1, <1>2, <2>2, <2>3, <2>4
  <2> QED BY <2>2, <2>5, WorkingTracks DEF EarlyPcs, PatchPcs
<1>4. CASE UNCHANGED live /\ pc' = "prune" /\ todo' = StaleSet
  <2>1. Present' = Present
    BY <1>4, Zenon DEF Present
  <2>2. Present' \subseteq Ids(Desired') \cup Ids(todo')
    BY <1>1, <1>2, <1>4, <2>1, StaleRest
  <2> QED BY <1>4, <2>2, WorkingTracks, Zenon DEF EarlyPcs, PatchPcs
<1>5. CASE UNCHANGED live /\ pc' = "patchConditions" /\ CommitsSuccess /\ StaleSet = {}
  <2>1. Present' = Present /\ Ids(StaleSet) = {}
    BY <1>5, Zenon DEF Present, Ids
  <2>2. Present' \subseteq Ids(Entries(Desired))
    BY <1>2, <2>1, StaleRest, EntriesIds
  <2>3. mr'.status.inventory.entries = Entries(Desired)
    BY <1>5, Zenon DEF CommitsSuccess
  <2>4. Tracks(mr.status)'
    BY <2>2, <2>3, Zenon DEF Tracks
  <2> QED BY <1>5, <2>4, WorkingTracks
<1> QED BY <1>1, <1>3, <1>4, <1>5, Zenon DEF ApplyPhase

\* The prune phase looks at every object that is not of the render, and the
\* ownership guard lets none of them escape.
LEMMA PrunePhaseTracks ==
    ASSUME OneIdentity, IInv, LInv', IdentityInv, TrackInv, PrunePhase, pc = "prune",
           ~mr.deleting, mr'.spec = mr.spec, ~mr'.deleting, catalog' = catalog
    PROVE  TrackInv'
<1>1. Desired' = Desired /\ live \in [Objects -> {Absent} \cup LiveObjects]
  BY DEF Desired, IInv, TypeOK
<1>2. \A o \in Present : o \in Ids(Desired) \cup Ids(todo) \/ (target # None /\ o = target.id)
  BY Zenon DEF TrackInv
<1>3. CASE \E e \in todo : PruneGet(e)
  <2>1. PICK e \in todo : PruneGet(e)
    BY <1>3, Zenon
  <2>2. /\ pc' = "prune" /\ target = None /\ todo' = todo \ {e} /\ UNCHANGED live
        /\ target' = (IF PruneSkips(e) THEN None ELSE e)
    BY <2>1, Zenon DEF PruneGet, pruneUnchanged
  <2>3. Present' = Present /\ e # None
    BY <2>2, Assumptions, Zenon DEF Present, IInv, WorkerShape
  <2>4. e.id \in Present => target' = e
    BY <2>2, GuardPasses, Zenon DEF Present
  <2>5. ASSUME NEW o \in Present'
        PROVE  o \in Ids(Desired') \cup Ids(todo') \/ (target' # None /\ o = target'.id)
    <3>1. CASE o = e.id
      BY <2>3, <2>4, <3>1, Zenon
    <3>2. CASE o # e.id
      BY <1>1, <1>2, <2>2, <2>3, <3>2 DEF Ids
    <3> QED BY <3>1, <3>2, Zenon
  <2> QED BY <2>2, <2>5, WorkingTracks, Zenon DEF EarlyPcs, PatchPcs
<1>4. CASE PruneDelete
  <2>1. /\ pc' = "prune" /\ live' = [live EXCEPT ![target.id] = Absent] /\ todo' = todo
    BY <1>4, Zenon DEF PruneDelete, pruneUnchanged
  <2>2. Present' \subseteq Present \ {target.id}
    BY <1>1, <2>1, Zenon DEF Present
  <2>3. \A o \in Present' : o \in Ids(Desired') \cup Ids(todo')
    BY <1>1, <1>2, <2>1, <2>2
  <2> QED BY <2>1, <2>3, WorkingTracks, Zenon DEF EarlyPcs, PatchPcs
<1>5. CASE /\ todo = {} /\ target = None /\ UNCHANGED live
           /\ pc' = "patchConditions" /\ CommitsSuccess
  <2>1. Present' = Present /\ Ids(todo) = {}
    BY <1>5, Zenon DEF Present, Ids
  <2>2. Present' \subseteq Ids(Entries(Desired))
    BY <1>2, <1>5, <2>1, EntriesIds
  <2>3. mr'.status.inventory.entries = Entries(Desired)
    BY <1>5, Zenon DEF CommitsSuccess
  <2>4. Tracks(mr.status)'
    BY <2>2, <2>3, Zenon DEF Tracks
  <2> QED BY <1>5, <2>4, WorkingTracks, Zenon
<1> QED BY <1>3, <1>4, <1>5, Zenon DEF PrunePhase


\* The work of a reconcile.
LEMMA WorkTracks ==
    ASSUME OneIdentity, AlwaysPrunes, Disturbances \cap Disturbing = {}, BaseInv,
           firstErr = "none", IdentityInv, TrackInv, LocalSteps,
           Moves \/ Commits \/ Stalls \/ GivesUp, pc \in WorkPcs, [Next]_vars
    PROVE  TrackInv'
<1>1. IInv /\ LInv /\ LInv' /\ api' = api
  BY NextRefines, LocalStepsWriteNothing DEF BaseInv
<1>2. CASE mr.deleting
  <2>1. pc' = "idle" \/ (mr'.deleting /\ pc' \notin {"idle", "addFinalizer"})
    BY <1>2, Zenon DEF Moves, Commits, Stalls, GivesUp, SameRelease, WorkPcs
  <2>2. pc' # "apply" \/ ~mr'.deleting
    BY <1>1, Zenon DEF LInv, ReconcileShape
  <2>3. Present' \subseteq Present
    <3>1. live \in [Objects -> {Absent} \cup LiveObjects]
      BY <1>1 DEF IInv, TypeOK
    <3>2. ~\E r \in todo : ApplyResource(r)
      BY <1>1, <1>2, Zenon DEF ApplyResource, LInv, ReconcileShape
    <3>3. CASE PruneDelete
      <4>1. live' = [live EXCEPT ![target.id] = Absent]
        BY <3>3, Zenon DEF PruneDelete
      <4> QED BY <3>1, <4>1, Zenon DEF Present
    <3>4. CASE live' = live
      BY <3>4 DEF Present
    <3> QED BY <3>2, <3>3, <3>4, LiveSteps DEF Disturbing
  <2>4. api'.exists /\ ~(api'.deleting /\ api'.orphan) => Tracks(api.status)'
    BY <1>1, <1>2, <2>3, Zenon DEF TrackInv, Tracks
  <2>5. api'.deleting /\ FinalizerName \notin api'.finalizers /\ ~api'.orphan => Present' = {}
    BY <1>1, <2>3 DEF TrackInv
  <2> QED BY <2>1, <2>2, <2>4, <2>5, Zenon DEF TrackInv, EarlyPcs, PatchPcs
<1>3. CASE ~mr.deleting
  <2>1. Moves \/ Commits
    BY <1>3 DEF Stalls, GivesUp
  <2>2. mr'.spec = mr.spec /\ ~mr'.deleting /\ catalog' = catalog
    BY <1>3, <2>1, Zenon DEF Moves, Commits, SameRelease
  <2>3. "apply" \notin Disturbances /\ "prune" \notin Disturbances
    BY DEF Disturbing
  <2>4. CASE pc \in EarlyPcs
    <3>1. /\ live' = live /\ mr'.status.inventory = mr.status.inventory
          /\ \/ pc' \in EarlyPcs \cup {"patchConditions"}
             \/ pc' = "apply" /\ todo' = Desired
      BY <1>1, <1>3, <2>4, EarlyPhases, Zenon DEF EarlyPhase
    <3>2. Tracks(mr.status)
      BY <1>3, <2>4, Zenon DEF TrackInv
    <3>3. Tracks(mr.status)'
      BY <3>1, <3>2, Zenon DEF Tracks, Present
    <3>4. Present' \subseteq Ids(mr'.status.inventory.entries) \cup Ids(Desired')
      BY <3>3, Zenon DEF Tracks
    <3> QED BY <1>1, <2>2, <3>1, <3>3, <3>4, WorkingTracks, Zenon DEF EarlyPcs
  <2>5. CASE pc = "apply"
    BY <1>1, <1>3, <2>2, <2>3, <2>5, ApplyPhases, ApplyPhaseTracks
  <2>6. CASE pc = "prune"
    BY <1>1, <1>3, <2>2, <2>3, <2>6, PrunePhases, PrunePhaseTracks
  <2> QED BY <2>4, <2>5, <2>6, Zenon DEF WorkPcs, EarlyPcs
<1> QED BY <1>2, <1>3, Zenon

\* A release without the finalizer that is not being deleted has nothing in the
\* cluster.
LEMMA FreshIsClean ==
    ASSUME LInv, TrackInv, api.exists, ~api.deleting, FinalizerName \notin api.finalizers
    PROVE  Present = {}
<1>1. pc \in {"idle", "addFinalizer"} \/ mr.deleting
  BY Zenon DEF LInv, ReconcileShape
<1>2. Tracks(api.status) /\ api.status.inventory.entries = {}
  BY <1>1, Zenon DEF TrackInv, LInv, ServerShape
<1> QED BY <1>2, Zenon DEF Tracks, Ids

\* The finalizer is removed from a release that has nothing in the cluster.
LEMMA RemovedIsClean ==
    ASSUME OneIdentity, AlwaysPrunes, LInv, CleanupInv, IdentityInv, TrackInv,
           pc = "removeFinalizer", api.exists, ~api.orphan
    PROVE  Present = {}
<1>1. mr.deleting /\ mr.spec.prune /\ ~mr.orphan
  BY Zenon DEF LInv, ReconcileShape, IdentityInv, AlwaysPrunes
<1>2. \A e \in api.status.inventory.entries : PruneSkips(e)
  BY <1>1, Zenon DEF CleanupInv
<1>3. Tracks(api.status)
  BY <1>1 DEF TrackInv
<1>4. SUFFICES ASSUME NEW o \in Present
               PROVE  FALSE
  OBVIOUS
<1>5. PICK e \in api.status.inventory.entries : e.id = o
  BY <1>3, Zenon DEF Tracks, Ids
<1>6. ~PruneSkips(e)
  BY <1>5, GuardPasses, Zenon DEF Present
<1> QED BY <1>2, <1>6, Zenon


\* Every other step leaves the cluster alone.
LEMMA NextTracks ==
    ASSUME ~CacheLag, OneIdentity, AlwaysPrunes, Disturbances \cap Disturbing = {}, BaseInv,
           CleanupInv, firstErr = "none", IdentityInv, TrackInv, [Next]_vars
    PROVE  TrackInv'
<1> USE DEF EarlyPcs, PatchPcs
<1>1. cache = api /\ IInv /\ LInv /\ IInv' /\ LInv'
  BY NextIInv, NextRefines DEF BaseInv, QueueInv
<1>2. /\ "foreignWrite" \notin Disturbances /\ "crash" \notin Disturbances
      /\ "patch" \notin Disturbances
  BY Zenon DEF Disturbing
<1>3. live' = live => Present' = Present
  BY Zenon DEF Present
<1>4. CASE LocalSteps /\ pc \in WorkPcs /\ (Moves \/ Commits \/ Stalls \/ GivesUp)
  BY <1>4, WorkTracks
<1>5. CASE Takes /\ live' = live
  <2>1. UNCHANGED api /\ pc = "idle"
    BY <1>5, Zenon DEF Takes
  <2>2. api.exists /\ ~(api.deleting /\ api.orphan) => Tracks(api.status)'
    BY <1>3, <1>5, <2>1 DEF TrackInv, Tracks
  <2>3. api.deleting /\ FinalizerName \notin api.finalizers /\ ~api.orphan => Present' = {}
    BY <1>3, <1>5, Zenon DEF TrackInv
  <2>4. CASE \/ pc' \in {"idle", "addFinalizer"}
             \/ mr'.deleting /\ pc' \in {"removeFinalizer", "prune", "impersonate"}
    BY <2>1, <2>2, <2>3, <2>4, Zenon DEF TrackInv
  <2>5. CASE /\ pc' \in {"patchConditions", "render"} /\ SameRelease(cache, mr')
             /\ ~cache.deleting /\ SameRecord(cache.status, mr'.status)
    <3>1. cache.exists /\ ~mr'.deleting
      BY <1>1, <2>5, Zenon DEF IInv, WorkerShape, SameRelease
    <3>2. mr'.status.inventory = api.status.inventory
      BY <1>1, <2>5, Zenon DEF SameRecord
    <3>3. Tracks(mr.status)'
      BY <1>1, <2>1, <2>2, <2>5, <3>1, <3>2 DEF Tracks
    <3> QED BY <1>1, <2>5, <3>1, <3>3, WorkingTracks
  <2> QED BY <1>5, <2>4, <2>5, Zenon DEF Takes
<1>6. CASE SendsFinalizers /\ live' = live
  <2>1. pc' = "idle" /\ (pc = "addFinalizer" \/ (pc = "removeFinalizer" /\ mr.deleting))
    BY <1>1, <1>6, Zenon DEF SendsFinalizers, LInv, ReconcileShape
  <2>2. CASE UNCHANGED api
    BY <1>3, <1>6, <2>1, <2>2, Zenon DEF TrackInv, Tracks
  <2>3. CASE api' = Gone
    BY <2>1, <2>3, Zenon DEF Gone, TrackInv
  <2>4. CASE /\ api.exists /\ SameServer(api, api')
             /\ \/ pc = "addFinalizer" /\ FinalizerName \in api'.finalizers
                \/ pc = "removeFinalizer"
    <3>1. api'.deleting = api.deleting /\ api'.orphan = api.orphan /\ api'.status = api.status
      BY <2>4, Zenon DEF SameServer, SameRelease
    <3>2. pc = "removeFinalizer" /\ ~api.orphan => Present' = {}
      BY <1>1, <1>3, <1>6, <2>4, RemovedIsClean
    <3>3. api'.exists /\ ~(api'.deleting /\ api'.orphan) => Tracks(api.status)'
      BY <1>3, <1>6, <2>1, <2>4, <3>1, Zenon DEF TrackInv, Tracks
    <3> QED BY <2>1, <2>4, <3>1, <3>2, <3>3, Zenon DEF TrackInv
  <2> QED BY <1>6, <2>2, <2>3, <2>4, Zenon DEF SendsFinalizers, NoWrite
<1>7. CASE SendsConditions /\ live' = live
  <2>1. /\ pc = "patchConditions" /\ pc' = "patchStatus" /\ mr' = mr
        /\ \/ UNCHANGED api
           \/ /\ SameRelease(api, api') /\ api'.orphan = api.orphan
              /\ api'.status = api.status /\ api'.finalizers = api.finalizers
    BY <1>7, Zenon DEF SendsConditions, NoWrite
  <2>2. /\ api'.exists = api.exists /\ api'.deleting = api.deleting
        /\ api'.orphan = api.orphan /\ api'.status = api.status
        /\ api'.finalizers = api.finalizers
    BY <2>1, Zenon DEF SameRelease
  <2> QED BY <1>3, <1>7, <2>1, <2>2, Zenon DEF TrackInv, Tracks
<1>8. CASE SendsStatus /\ live' = live
  <2>1. /\ pc = "patchStatus"
        /\ \/ pc' = "idle" /\ cont # "orphan"
           \/ pc' = "removeFinalizer" /\ cont = "orphan" /\ mr' = mr
    BY <1>8, Zenon DEF SendsStatus, AfterPatch, Return, locals
  <2>2. /\ api'.exists = api.exists /\ api'.deleting = api.deleting
        /\ api'.orphan = api.orphan /\ api'.finalizers = api.finalizers
    BY <1>8, Zenon DEF SendsStatus, NoWrite, SameRelease
  <2>3. api.deleting /\ FinalizerName \notin api.finalizers /\ ~api.orphan => Present' = {}
    BY <1>3, <1>8 DEF TrackInv
  <2>4. SUFFICES ASSUME api.exists, ~(api.deleting /\ api.orphan)
                 PROVE  pc' = "idle" /\ Tracks(api.status)'
    BY <2>1, <2>2, <2>3, Zenon DEF TrackInv, LInv, ReconcileShape, PatchShape
  <2>5. api'.status = mr.status
    BY <1>2, <1>8, <2>4, StatusStored
  <2>6. CASE ~mr.deleting
    <3>1. Tracks(mr.status)
      BY <2>1, <2>6, Zenon DEF TrackInv
    <3>2. cont # "orphan"
      BY <1>1, <2>6, Zenon DEF LInv, PatchShape
    <3> QED BY <1>3, <1>8, <2>1, <2>5, <3>1, <3>2 DEF Tracks
  <2>7. CASE mr.deleting
    <3>1. api.deleting
      BY <1>1, <2>1, <2>4, <2>7 DEF LInv, ReconcileShape
    <3>2. ~mr.orphan
      BY <2>1, <2>4, <3>1, Zenon DEF IdentityInv
    <3>3. cont # "orphan"
      BY <3>2, Zenon DEF CleanupInv
    <3>4. mr.status.inventory = old.status.inventory
      BY <1>1, <2>1, <2>7, <3>3 DEF LInv, PatchShape
    <3>5. old.status = api.status
      BY <2>1, <2>4, Zenon DEF BaseInv, CopyInv
    <3>6. Tracks(api.status)
      BY <2>4, <2>7 DEF TrackInv
    <3> QED BY <1>3, <1>8, <2>1, <2>5, <3>3, <3>4, <3>5, <3>6 DEF Tracks
  <2> QED BY <2>6, <2>7
<1>9. CASE OthersAct /\ live' = live
  <2>1. UNCHANGED <<pc, mr, todo, target, catalog>>
    BY <1>9 DEF OthersAct
  <2>2. \/ UNCHANGED api
        \/ ~api'.exists /\ ~api'.deleting
        \/ /\ api.exists /\ api'.status = api.status
           /\ api.deleting => api'.deleting
           /\ api.orphan => api'.orphan
           /\ FinalizerName \in api'.finalizers <=> FinalizerName \in api.finalizers
    <3>1. ~Gone.exists /\ ~Gone.deleting
      BY Zenon DEF Gone
    <3> QED BY <1>9, <3>1, Zenon DEF OthersAct
  <2>3. Desired' = Desired
    BY <2>1 DEF Desired
  <2>4. api'.deleting /\ FinalizerName \notin api'.finalizers /\ ~api'.orphan => Present' = {}
    BY <1>1, <1>3, <1>9, <2>2, FreshIsClean, Zenon DEF TrackInv
  <2>5. api'.exists /\ ~(api'.deleting /\ api'.orphan) =>
           api.exists /\ ~(api.deleting /\ api.orphan) /\ api'.status = api.status
    BY <2>2, Zenon
  <2> QED BY <1>3, <1>9, <2>1, <2>3, <2>4, <2>5, Zenon DEF TrackInv, Tracks
<1> QED BY <1>1, <1>2, <1>4, <1>5, <1>6, <1>7, <1>8, <1>9, StepKinds

\* What GoneIsClean says of one step.
CleanStep ==
    api.exists /\ ~api'.exists /\ ~api.orphan => \A o \in Objects \ Protected : live[o] = Absent

\* The release goes with the last finalizer, be it this one or another, or at
\* once when it has none.
LEMMA StepClean ==
    ASSUME OneIdentity, AlwaysPrunes, BaseInv, CleanupInv, IdentityInv, TrackInv, [Next]_vars
    PROVE  CleanStep
<1>1. SUFFICES ASSUME api.exists, ~api'.exists, ~api.orphan
               PROVE  Present = {}
  BY Zenon DEF CleanStep, Present
<1>2. IInv /\ LInv /\ ~UNCHANGED api
  BY <1>1, Zenon DEF BaseInv
<1>3. CASE SendsFinalizers
  <2>1. FinalizerName \notin Gone.finalizers
    BY Zenon DEF Gone
  <2>2. pc = "removeFinalizer"
    BY <1>1, <1>2, <1>3, <2>1, Zenon DEF SendsFinalizers, NoWrite, SameServer, SameRelease
  <2> QED BY <1>1, <1>2, <2>2, RemovedIsClean
<1>4. CASE OthersAct
  <2>1. FinalizerName \notin api.finalizers
    BY <1>1, <1>2, <1>4, Zenon DEF OthersAct
  <2> QED BY <1>1, <1>2, <2>1, FreshIsClean, Zenon DEF TrackInv
<1>5. CASE SendsConditions \/ SendsStatus
  BY <1>1, <1>2, <1>5, Zenon DEF SendsConditions, SendsStatus, SameRelease, NoWrite
<1>6. CASE Takes \/ Moves \/ Commits \/ Stalls \/ GivesUp \/ Restarts
  BY <1>2, <1>6, Zenon DEF Takes, Moves, Commits, Stalls, GivesUp, Restarts
<1> QED BY <1>2, <1>3, <1>4, <1>5, <1>6, NextForms


\* The invariants of this section together.
ClusterInv == firstErr = "none" /\ CleanupInv /\ IdentityInv /\ TrackInv

\* They hold in every reachable state.
LEMMA ClusterInvariant ==
    ASSUME ~CacheLag, OneIdentity, AlwaysPrunes, Disturbances \cap Disturbing = {}
    PROVE  Spec => []ClusterInv
<1>1. "prune" \notin Disturbances /\ "foreignWrite" \notin Disturbances /\ "crash" \notin Disturbances
  BY Zenon DEF Disturbing
<1>2. Init => ClusterInv
  <2> SUFFICES ASSUME Init PROVE ClusterInv
    OBVIOUS
  <2>1. PICK spec \in Specs : api = Created(spec)
    BY DEF Init
  <2>2. /\ api.spec = spec /\ api.status.releaseUUID = None /\ ~api.deleting
        /\ Gone.status.releaseUUID = None
    BY <2>1, Zenon DEF Created, Gone, NoStatus
  <2>3. IdentityInv
    BY <2>1, <2>2, Zenon DEF Init, IdentityInv
  <2>4. Present = {}
    BY Zenon DEF Present, Init
  <2>5. TrackInv
    BY <2>2, <2>4, Zenon DEF Init, TrackInv, Tracks, EarlyPcs, PatchPcs
  <2> QED BY <2>3, <2>5, Zenon DEF Init, ClusterInv, CleanupInv
<1>3. BaseInv /\ ClusterInv /\ [Next]_vars => ClusterInv'
  <2> SUFFICES ASSUME BaseInv, ClusterInv, [Next]_vars
               PROVE  ClusterInv'
    OBVIOUS
  <2>1. IInv /\ LInv /\ firstErr = "none" /\ CleanupInv /\ IdentityInv /\ TrackInv
    BY Zenon DEF BaseInv, ClusterInv
  <2>2. firstErr' = "none"
    BY <1>1, <2>1, PruneErrors
  <2>3. CleanupInv'
    BY <1>1, <2>1, NextCleanup
  <2>4. IdentityInv'
    BY <1>1, <2>1, NextIdentity, Zenon
  <2>5. TrackInv'
    BY <2>1, NextTracks
  <2> QED BY <2>2, <2>3, <2>4, <2>5 DEF ClusterInv
<1> QED BY <1>2, <1>3, BaseInvariant, PTL DEF Spec

\* Prune, the other half of what Ready means: under the same conditions, and when
\* every spec prunes under one identity, a Ready release that is left alone has
\* left no object of an earlier spec behind, whatever the edits were.
THEOREM ReadyIsAlwaysPruned ==
    ASSUME ~CacheLag, OneIdentity, AlwaysPrunes, Disturbances \cap Disturbing = {}
    PROVE  Spec => []ReadyIsPruned
<1>1. "patch" \notin Disturbances
  BY Zenon DEF Disturbing
<1>2. OutcomeInv /\ ClusterInv => ReadyIsPruned
  <2> SUFFICES ASSUME OutcomeInv, TrackInv, Settled, ReportsReady,
                      NEW o \in Objects \ Protected, live[o] # Absent
               PROVE  \E r \in DesiredBy(api) : r.id = o
    BY Zenon DEF ReadyIsPruned, ClusterInv
  <2>1. /\ pc = "idle" /\ ~queued /\ ~timer /\ api.exists /\ ~api.deleting
        /\ api.conditions.ready = "True"
    BY Zenon DEF Settled, ReportsReady
  <2>2. RecordsRender(api.status, api.spec)
    BY <2>1, Zenon DEF OutcomeInv
  <2>3. api.status.inventory.entries = Entries(DesiredBy(api))
    BY <2>2 DEF RecordsRender, DesiredBy
  <2>4. o \in Ids(api.status.inventory.entries)
    BY <2>1, Zenon DEF TrackInv, Tracks, Present
  <2>5. o \in Ids(DesiredBy(api))
    BY <2>3, <2>4, EntriesIds
  <2> QED BY <2>5, Zenon DEF Ids
<1> QED BY <1>1, <1>2, ClusterInvariant, OutcomeInvariant, PTL

\* The finalizer's purpose: under the same conditions a release goes only when
\* none of its objects is left that may be deleted, whoever else holds a
\* finalizer and whenever it is deleted, unless its user asked to orphan them.
THEOREM GoneIsAlwaysClean ==
    ASSUME ~CacheLag, OneIdentity, AlwaysPrunes, Disturbances \cap Disturbing = {}
    PROVE  Spec => GoneIsClean
<1>1. BaseInv /\ ClusterInv /\ [Next]_vars => CleanStep
  BY StepClean DEF ClusterInv
<1>2. Spec => [][CleanStep]_vars
  BY <1>1, BaseInvariant, ClusterInvariant, PTL DEF Spec
<1> QED BY <1>2 DEF CleanStep, GoneIsClean

=============================================================================
