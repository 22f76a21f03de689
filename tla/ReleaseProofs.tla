--------------------------- MODULE ReleaseProofs ----------------------------
(***************************************************************************)
(* Theorems about Release for every value of its constants: any releases,  *)
(* dependencies, sources, artifacts and users' specs, any faults in any    *)
(* number.  One inductive invariant, RInv, carries all of them; the order  *)
(* of dependencies adds DependsOK.                                         *)
(***************************************************************************)
EXTENDS Release, StatusProofs

\* A copy of a Release, in the API server or in the worker's memory.
Good(m) ==
    /\ m \in ReleaseObjects
    /\ GoodHistory(m.status.history)
    /\ m.exists => m.spec \in SpecSet

\* What a copy that is not being deleted records is one render of one artifact.
Recorded(m) ==
    ~m.deleting /\ m.status.lastApplied.source # None =>
        /\ \E p \in Paths :
              m.status.lastApplied.render = Render[<<m.status.lastApplied.source, p>>]
        /\ m.status.inventory.entries = Entries(m.status.lastApplied.render)

\* The API server: nothing is left of a release that is gone, and nothing is
\* recorded in one without the finalizer.
ServerOK ==
    /\ \A r \in Releases :
          /\ Good(api[r]) /\ Recorded(api[r])
          /\ ~api[r].exists => api[r] = Gone
          /\ ~api[r].finalizer => ~api[r].deleting /\ api[r].status = NoStatus
    /\ \A s \in Sources : sources[s].published <= Len(Publications[s])

\* The worker is past the registration of the finalizer.
Working == pc \notin {"idle", "addFinalizer"}

\* The release in the worker's hands: its finalizer stays while it works, and a
\* deletion it has seen cannot be taken back.
WorkerOK ==
    /\ Good(rel) /\ Recorded(rel)
    /\ pc = "idle" <=> cur = None
    /\ pc # "idle" => rel.exists
    /\ Working => api[cur].finalizer /\ (rel.deleting => api[cur].deleting)
    /\ pc \in {"resolve", "fetch", "render", "apply"} => ~rel.deleting
    /\ pc = "removeFinalizer" => rel.deleting

\* What the phases of a reconcile have got hold of.
PhasesOK ==
    /\ ~rel.deleting =>
          /\ pc \in {"fetch", "render", "impersonate", "apply", "prune"} =>
                artifact \in Artifacts
          /\ pc \in {"render", "impersonate", "apply", "prune"} => package = artifact
          /\ pc \in {"impersonate", "apply", "prune"} => Desired # None
    /\ pc = "apply" => todo \subseteq Desired
    /\ pc = "prune" => todo \subseteq EntrySet

\* A deletion works off the inventory of the API server, unless it is orphaned.
DeletionOK ==
    Working /\ rel.deleting =>
        /\ \/ rel.status.inventory = api[cur].status.inventory
           \/ pc = "patch" /\ cont = "orphan"
           \/ pc = "removeFinalizer" /\ rel.orphan
        /\ pc = "patch" /\ cont = "orphan" =>
              rel.orphan /\ rel.status.inventory = NoInventory
        /\ pc = "prune" /\ firstErr = "none" =>
              \A e \in rel.status.inventory.entries \ todo : PruneSkips(e)
        /\ pc = "removeFinalizer" /\ rel.spec.prune /\ ~rel.orphan =>
              \A e \in rel.status.inventory.entries : PruneSkips(e)

\* A reconcile that asks for no requeue leaves a release that is suspended, or
\* that has been enqueued by the edit that resumed it.
RequeueOK ==
    /\ Attended
    /\ pc = "patch" => cont \in {"retry", "suspend", "orphan"}
    /\ pc = "patch" /\ cont = "orphan" => rel.deleting
    /\ pc = "patch" /\ cont = "suspend" => api[cur].spec.suspend \/ cur \in queued

RInv == TypeOK /\ ServerOK /\ WorkerOK /\ PhasesOK /\ DeletionOK /\ RequeueOK

-----------------------------------------------------------------------------
(* Copies of a release. *)

\* ComputeBackoff returns a number of seconds.
LEMMA DelayType ==
    ASSUME NEW n \in Nat
    PROVE  ComputeBackoff(n) \in Int
BY DEF ComputeBackoff, BackoffBaseDelay, BackoffMaxDelay

\* The status and the conditions of a new Release.
LEMMA NewStatusType ==
    /\ NoStatus \in Statuses /\ NoConditions \in Conditions
    /\ GoodHistory(NoStatus.history) /\ NoStatus.lastApplied.source = None
    /\ NoStatus.inventory = NoInventory /\ NoInventory.entries = {}
<1>1. /\ NoDigests \in DigestSets /\ ZeroCounters \in Counters
      /\ NoInventory \in [revision : Nat, digest : {None} \cup SUBSET EntrySet,
                          entries : SUBSET EntrySet]
      /\ <<>> \in Seq(HistoryEntry)
  BY DEF NoDigests, DigestSets, ZeroCounters, Counters, NoInventory
<1>2. NoStatus \in Statuses
  BY <1>1 DEF NoStatus, Statuses
<1>3. NoConditions \in Conditions
  BY DEF NoConditions, Conditions, Reasons
<1> QED BY <1>2, <1>3, EmptyHistoryGood DEF NoStatus, NoInventory, NoDigests

\* The absent Release, which is also what the worker holds between reconciles.
LEMMA GoneGood ==
    /\ Good(Gone) /\ Recorded(Gone)
    /\ ~Gone.exists /\ ~Gone.finalizer /\ ~Gone.deleting
    /\ Gone.status = NoStatus /\ Gone.conditions.ready = "Unset"
<1>1. Gone \in ReleaseObjects
  BY NewStatusType DEF Gone, ReleaseObjects
<1> QED BY <1>1, NewStatusType DEF Good, Recorded, Gone, NoConditions

\* A Release as users create it.
LEMMA CreatedGood ==
    ASSUME NEW spec \in SpecSet
    PROVE  /\ Good(Created(spec)) /\ Recorded(Created(spec))
           /\ Created(spec).exists /\ ~Created(spec).finalizer /\ ~Created(spec).deleting
           /\ Created(spec).status = NoStatus /\ Created(spec).spec = spec
           /\ Created(spec).conditions.ready = "Unset"
<1>1. Created(spec) \in ReleaseObjects
  BY NewStatusType DEF Created, ReleaseObjects
<1> QED BY <1>1, NewStatusType DEF Good, Recorded, Created, NoConditions

\* What is recorded is a matter of the status and the deletion.
LEMMA RecordedDepends ==
    ASSUME NEW m, NEW n, Recorded(m), n.status.lastApplied = m.status.lastApplied,
           n.status.inventory = m.status.inventory, m.deleting => n.deleting,
           m.deleting \in BOOLEAN, n.deleting \in BOOLEAN
    PROVE  Recorded(n)
BY DEF Recorded

-----------------------------------------------------------------------------
(* What a reconcile computes. *)

Results ==
    [outcome : {"NoOp", "Applied", "AppliedAndPruned", "FailedTransient", "FailedStalled"},
     retryAfter : Int, apply : Phases, prune : Phases, digests : DigestSets]

\* The render at hand, and the digests computed from it.
LEMMA DesiredType ==
    ASSUME rel.spec \in SpecSet, package \in Artifacts, Desired # None
    PROVE  /\ Desired \in SUBSET Resources
           /\ Entries(Desired) \in SUBSET EntrySet
           /\ Desired = Render[<<package, rel.spec.path>>] /\ rel.spec.path \in Paths
<1>1. rel.spec.path \in Paths
  BY DEF SpecSet
<1>2. Desired \in {None} \cup SUBSET Resources
  BY <1>1, Assumptions, Zenon DEF Desired
<1>3. Desired \in SUBSET Resources
  BY <1>2
<1>4. Entries(Desired) \in SUBSET EntrySet
  BY <1>3 DEF Entries, NewEntryFromResource, Resources, EntrySet
<1> QED BY <1>1, <1>3, <1>4 DEF Desired

\* updateReleaseFailureCounters returns counters that are never negative.
LEMMA ReleaseCountersType ==
    ASSUME NEW c \in Counters, NEW result \in Results
    PROVE  updateReleaseFailureCounters(c, result) \in Counters
<1>1. \A n \in Nat, phase \in Phases : Count(n, phase) \in Nat
  BY DEF Count, Phases
<1>2. /\ result.apply \in Phases /\ result.prune \in Phases
      /\ c.reconcile \in Nat /\ c.apply \in Nat /\ c.prune \in Nat /\ c.drift \in Nat
  BY DEF Results, Counters
<1> QED BY <1>1, <1>2 DEF updateReleaseFailureCounters, Counters

\* The condition for a result that records a new inventory: it was applied from
\* the artifact whose digest it names.
Proven(result) ==
    result.outcome \in {"Applied", "AppliedAndPruned"} =>
        /\ package = artifact /\ artifact \in Artifacts /\ Desired # None
        /\ result.digests = DigestSet

\* The status that the deferred commit computes is good, and records one render
\* of one artifact.
LEMMA CommitStatusGood ==
    ASSUME Good(rel), Recorded(rel), rel.exists, ~rel.deleting,
           NEW result \in Results, Proven(result)
    PROVE  LET s == CommitStatus(rel.status, result)
           IN  /\ s \in Statuses /\ GoodHistory(s.history)
               /\ s.lastApplied.source # None =>
                    /\ \E p \in Paths :
                          s.lastApplied.render = Render[<<s.lastApplied.source, p>>]
                    /\ s.inventory.entries = Entries(s.lastApplied.render)
               /\ s.lastApplied = (IF result.outcome \in {"Applied", "AppliedAndPruned"}
                                   THEN result.digests ELSE rel.status.lastApplied)
<1> DEFINE reconciled == result.outcome \in {"Applied", "AppliedAndPruned"}
           c == updateReleaseFailureCounters(rel.status.failureCounters, result)
           hist == IF result.outcome = "NoOp" THEN rel.status.history
                   ELSE recordHistoryEntry(rel.status.history, reconciled)
           inv == IF reconciled
                  THEN [revision |-> rel.status.inventory.revision + 1,
                        digest |-> Entries(Desired), entries |-> Entries(Desired)]
                  ELSE rel.status.inventory
           tried == IF result.outcome = "NoOp" THEN rel.status.lastAttempted
                    ELSE result.digests
           applied == IF reconciled THEN result.digests ELSE rel.status.lastApplied
           t == [observedGeneration |-> rel.generation, source |-> rel.status.source,
                 lastAttempted |-> tried, lastApplied |-> applied, failureCounters |-> c,
                 inventory |-> inv, history |-> hist, nextRetryAt |-> result.retryAfter]
<1>1. /\ rel.spec \in SpecSet /\ rel.status \in Statuses /\ rel.generation \in Nat
      /\ GoodHistory(rel.status.history)
  BY DEF Good, ReleaseObjects
<1>2. /\ rel.status.failureCounters \in Counters
      /\ rel.status.inventory \in [revision : Nat, digest : {None} \cup SUBSET EntrySet,
                                   entries : SUBSET EntrySet]
      /\ rel.status.lastAttempted \in DigestSets /\ rel.status.lastApplied \in DigestSets
      /\ rel.status.source \in {None} \cup Artifacts
  BY <1>1 DEF Statuses
<1>3. /\ result.digests \in DigestSets /\ result.retryAfter \in Int
      /\ reconciled \in BOOLEAN
  BY DEF Results
<1>4. c \in Counters
  BY <1>2, ReleaseCountersType
<1>5. GoodHistory(hist) /\ hist \in Seq(HistoryEntry)
  BY <1>1, <1>3, RecordHistoryGood, Zenon DEF GoodHistory
<1>6. inv \in [revision : Nat, digest : {None} \cup SUBSET EntrySet,
               entries : SUBSET EntrySet]
  BY <1>1, <1>2, DesiredType DEF Proven
<1>7. tried \in DigestSets /\ applied \in DigestSets
  BY <1>2, <1>3
<1>8. CommitStatus(rel.status, result) = t
  BY <1>1, Zenon DEF CommitStatus, Statuses
<1>9. applied.source # None =>
        /\ \E p \in Paths : applied.render = Render[<<applied.source, p>>]
        /\ inv.entries = Entries(applied.render)
  <2>1. CASE reconciled
    <3>1. /\ applied = [source |-> artifact, config |-> "empty", render |-> Desired]
          /\ inv.entries = Entries(Desired) /\ package = artifact
      BY <2>1 DEF Proven, DigestSet
    <3>2. Desired = Render[<<artifact, rel.spec.path>>] /\ rel.spec.path \in Paths
      BY <1>1, <2>1, DesiredType DEF Proven
    <3> HIDE DEF applied, inv
    <3> QED BY <3>1, <3>2
  <2>2. CASE ~reconciled
    BY <2>2 DEF Recorded
  <2> QED BY <2>1, <2>2
<1> HIDE DEF c, hist, inv, tried, applied
<1>10. t \in Statuses
  BY <1>1, <1>2, <1>3, <1>4, <1>5, <1>6, <1>7 DEF Statuses
<1>11. t.history = hist /\ t.lastApplied = applied /\ t.inventory = inv
  OBVIOUS
<1> HIDE DEF t
<1>12. applied = (IF result.outcome \in {"Applied", "AppliedAndPruned"}
                  THEN result.digests ELSE rel.status.lastApplied)
  BY DEF applied
<1> QED BY <1>5, <1>8, <1>9, <1>10, <1>11, <1>12

-----------------------------------------------------------------------------
(* The shapes that the steps have in common. *)

\* The reconcile is over: what remains to be shown is about the API server and
\* the queue.
LEMMA ForgetKeeps ==
    ASSUME Forget, ServerOK', Attended',
           api' \in [Releases -> ReleaseObjects],
           sources' \in [Sources -> [exists : BOOLEAN, ready : BOOLEAN, published : Nat]],
           live' \in [Objects -> {Absent} \cup LiveObjects],
           accounts' \in SUBSET ServiceAccounts,
           queued' \in SUBSET Releases, timers' \in SUBSET Releases,
           disturbed' \in Nat, succeeded' \in SUBSET Releases
    PROVE  RInv'
<1>1. /\ pc' = "idle" /\ cur' = None /\ rel' = Gone /\ artifact' = None
      /\ package' = None /\ todo' = {} /\ firstErr' = "none" /\ cont' = "done"
  BY DEF Forget
<1>2. Good(Gone) /\ Recorded(Gone) /\ ~Gone.deleting /\ Gone \in ReleaseObjects
  BY GoneGood DEF Good
<1>3. TypeOK'
  BY <1>1, <1>2 DEF TypeOK
<1>4. WorkerOK'
  BY <1>1, <1>2 DEF WorkerOK, Good, Recorded, Working
<1> QED BY <1>1, <1>3, <1>4 DEF RInv, PhasesOK, DeletionOK, RequeueOK, Working

\* A commit: the status in memory is the one CommitStatus computed.
LEMMA CommitKeeps ==
    ASSUME RInv, NEW c \in Conditions, NEW result \in Results, Commit(c, result),
           Working, ~rel.deleting, Proven(result),
           UNCHANGED <<api, world, queue>>,
           disturbed' \in Nat, succeeded' \in SUBSET Releases
    PROVE  RInv'
<1> DEFINE ready == IF result.outcome = "NoOp" THEN MarkReady(c) ELSE c
           s == CommitStatus(rel.status, result)
<1>1. /\ Good(rel) /\ Recorded(rel) /\ rel.exists /\ cur \in Releases
      /\ api[cur].finalizer
  BY DEF RInv, WorkerOK, TypeOK, Working
<1>2. ready \in Conditions
  BY MarkTypes, Zenon DEF Reasons
<1>3. /\ s \in Statuses /\ GoodHistory(s.history)
      /\ s.lastApplied.source # None =>
           /\ \E p \in Paths : s.lastApplied.render = Render[<<s.lastApplied.source, p>>]
           /\ s.inventory.entries = Entries(s.lastApplied.render)
  BY <1>1, CommitStatusGood
<1>4. /\ rel' = [rel EXCEPT !.conditions = ready, !.status = s]
      /\ pc' = "patch" /\ cont' = "retry" /\ artifact' = None /\ package' = None
      /\ todo' = {} /\ firstErr' = "none" /\ cur' = cur
      /\ UNCHANGED <<api, sources, live, accounts, queued, timers>>
  BY DEF Commit, world, queue
<1> HIDE DEF ready, s
<1>5. /\ Good(rel') /\ rel'.status = s /\ rel'.exists = rel.exists
      /\ rel'.deleting = rel.deleting
  <2>1. Good(rel) /\ s \in Statuses /\ GoodHistory(s.history)
    BY <1>1, <1>3
  <2>2. rel' = [rel EXCEPT !.conditions = ready, !.status = s]
    BY <1>4
  <2> QED BY <1>2, <2>1, <2>2, Zenon DEF Good, ReleaseObjects
<1>6. Recorded(rel')
  BY <1>3, <1>5 DEF Recorded
<1>7. TypeOK'
  BY <1>4, <1>5 DEF RInv, TypeOK, Good
<1>8. ServerOK'
  BY <1>4 DEF RInv, ServerOK
<1>9. WorkerOK'
  BY <1>1, <1>4, <1>5, <1>6 DEF RInv, WorkerOK, Working
<1>10. RequeueOK'
  BY <1>4 DEF RInv, RequeueOK, Attended
<1> QED BY <1>4, <1>5, <1>7, <1>8, <1>9, <1>10 DEF RInv, PhasesOK, DeletionOK

\* What others may do to a release: its status stays, and so does a finalizer or
\* a deletion; whoever resumes it enqueues it.
Respected(r) ==
    /\ Good(api'[r]) /\ Recorded(api'[r])
    /\ ~api'[r].exists => api'[r] = Gone
    /\ ~api'[r].finalizer => ~api'[r].deleting /\ api'[r].status = NoStatus
    /\ api[r].finalizer =>
          /\ api'[r].finalizer /\ api'[r].status = api[r].status
          /\ api[r].deleting => api'[r].deleting
          /\ api[r].spec.suspend => api'[r].spec.suspend \/ r \in queued'
    /\ api'[r].exists /\ ~api'[r].spec.suspend =>
          r \in queued' \/ (api[r].exists /\ ~api[r].spec.suspend)

\* A step of users, sources or the clock.
LEMMA OutsideKeeps ==
    ASSUME RInv, UNCHANGED noWorker, UNCHANGED live,
           \A r \in Releases : Respected(r),
           api' \in [Releases -> ReleaseObjects],
           sources' \in [Sources -> [exists : BOOLEAN, ready : BOOLEAN, published : Nat]],
           \A s \in Sources : sources'[s].published <= Len(Publications[s]),
           accounts' \in SUBSET ServiceAccounts,
           queued' \in SUBSET Releases, timers' \in SUBSET Releases,
           queued \subseteq queued', timers \subseteq queued' \cup timers',
           disturbed' \in Nat
    PROVE  RInv'
<1>1. UNCHANGED <<pc, cur, rel, artifact, package, todo, firstErr, cont, succeeded, live>>
  BY DEF noWorker, locals
<1>2. TypeOK'
  BY <1>1 DEF RInv, TypeOK
<1>3. ServerOK'
  BY DEF ServerOK, Respected
<1>4. Working => cur \in Releases /\ api[cur].finalizer
  BY DEF RInv, WorkerOK, TypeOK, Working
<1>5. Working => /\ api'[cur].finalizer /\ api'[cur].status = api[cur].status
                 /\ api[cur].deleting => api'[cur].deleting
                 /\ api[cur].spec.suspend => api'[cur].spec.suspend \/ cur \in queued'
  BY <1>4, Zenon DEF Respected
<1>6. WorkerOK'
  BY <1>1, <1>5, Zenon DEF RInv, WorkerOK, Working, Good, Recorded
<1>7. PhasesOK'
  BY <1>1, Zenon DEF RInv, PhasesOK, Desired
<1>8. DeletionOK'
  BY <1>1, <1>5, Zenon DEF RInv, DeletionOK, Working, PruneSkips
<1>9. Attended'
  BY <1>1, Zenon DEF RInv, RequeueOK, Attended, Respected
<1>10. RequeueOK'
  BY <1>1, <1>5, <1>9 DEF RInv, RequeueOK, Working
<1> QED BY <1>2, <1>3, <1>6, <1>7, <1>8, <1>10 DEF RInv

\* A release that nobody touches is respected.
LEMMA UntouchedRespected ==
    ASSUME RInv, NEW r \in Releases, api'[r] = api[r]
    PROVE  Respected(r)
BY Zenon DEF RInv, ServerOK, Respected, Good, Recorded

\* A step of the worker that leaves the API server alone and goes on.
LEMMA WorkKeeps ==
    ASSUME RInv, Working, Working', TypeOK', UNCHANGED <<api, sources, queue, cur>>,
           Good(rel'), Recorded(rel'), rel'.exists, rel'.deleting = rel.deleting,
           pc' \in {"resolve", "fetch", "render", "apply"} => ~rel.deleting,
           pc' = "removeFinalizer" => rel.deleting,
           PhasesOK', DeletionOK',
           pc' = "patch" => cont' = "retry" \/ (cont' = "orphan" /\ rel.deleting)
    PROVE  RInv'
<1>1. ServerOK'
  BY DEF RInv, ServerOK
<1>2. WorkerOK'
  BY DEF RInv, WorkerOK, Working
<1>3. Attended'
  BY DEF RInv, RequeueOK, Attended, queue
<1>4. RequeueOK'
  BY <1>3 DEF RequeueOK
<1> QED BY <1>1, <1>2, <1>4 DEF RInv

\* The worker takes a release and keeps a copy of it.
LEMMA TakeKeeps ==
    ASSUME RInv, NEW r \in Releases, Dequeue(r), cur' = r, TypeOK',
           Good(rel'), Recorded(rel'), rel'.exists, pc' # "idle",
           Working' => api[r].finalizer /\ rel'.deleting = api[r].deleting,
           pc' \in {"resolve", "fetch", "render", "apply"} => ~rel'.deleting,
           pc' = "removeFinalizer" => rel'.deleting,
           PhasesOK', DeletionOK',
           pc' = "patch" => cont' = "retry" \/ (cont' = "suspend" /\ api[r].spec.suspend)
    PROVE  RInv'
<1>1. /\ pc = "idle" /\ cur = None /\ api' = api /\ sources' = sources
      /\ queued' = queued \ {r} /\ timers \subseteq timers' \cup {r}
      /\ None \notin Releases
  BY Assumptions, Zenon DEF Dequeue, world, RInv, WorkerOK
<1>2. ServerOK'
  BY <1>1, Zenon DEF RInv, ServerOK
<1>3. WorkerOK'
  BY <1>1 DEF WorkerOK, Working
<1>4. Attended'
  BY <1>1, Zenon DEF RInv, RequeueOK, Attended
<1>5. RequeueOK'
  BY <1>1, <1>4 DEF RequeueOK
<1> QED BY <1>2, <1>3, <1>5, Zenon DEF RInv

-----------------------------------------------------------------------------
(* The first state, and the worker taking a release. *)

\* RInv holds at first.
LEMMA InitRInv == Init => RInv
<1> SUFFICES ASSUME Init PROVE RInv
  OBVIOUS
<1>1. \A r \in Releases :
        \/ api[r] = Gone
        \/ \E spec \in SpecSet : api[r] = Created(spec)
  BY DEF Init
<1>2. \A r \in Releases :
        /\ Good(api[r]) /\ Recorded(api[r]) /\ (~api[r].exists => api[r] = Gone)
        /\ ~api[r].deleting /\ api[r].status = NoStatus
  BY <1>1, GoneGood, CreatedGood
<1>3. Good(Gone) /\ Recorded(Gone) /\ ~Gone.deleting
  BY GoneGood, Zenon
<1>4. ServerOK
  <2>1. \A s \in Sources : sources[s].published = 0 /\ Len(Publications[s]) \in Nat
    BY Assumptions DEF Init
  <2> QED BY <1>2, <2>1 DEF ServerOK
<1>5. api \in [Releases -> ReleaseObjects]
  <2>1. \A r \in Releases : api[r] \in ReleaseObjects
    BY <1>2, Zenon DEF Good
  <2> QED BY <2>1 DEF Init
<1>6. TypeOK
  BY <1>3, <1>5, Zenon DEF Init, TypeOK, Good
<1>7. WorkerOK /\ PhasesOK /\ DeletionOK
  BY <1>3, Zenon DEF Init, WorkerOK, PhasesOK, DeletionOK, Working
<1>8. RequeueOK
  BY Zenon DEF Init, RequeueOK, Attended
<1> QED BY <1>4, <1>6, <1>7, <1>8 DEF RInv

\* What the worker finds in the API server.
LEMMA Found ==
    ASSUME RInv, NEW r \in Releases, Dequeue(r)
    PROVE  /\ Good(api[r]) /\ Recorded(api[r]) /\ api[r] \in ReleaseObjects
           /\ api[r].status \in Statuses /\ api[r].conditions \in Conditions
           /\ api[r].deleting \in BOOLEAN
           /\ pc = "idle" /\ cur = None /\ api' = api
           /\ queued' \in SUBSET Releases /\ timers' \in SUBSET Releases
           /\ UNCHANGED <<sources, live, accounts, disturbed, succeeded>>
<1>1. Good(api[r]) /\ Recorded(api[r])
  BY Zenon DEF RInv, ServerOK
<1>2. /\ api[r] \in ReleaseObjects /\ api[r].status \in Statuses
      /\ api[r].conditions \in Conditions /\ api[r].deleting \in BOOLEAN
  BY <1>1 DEF Good, ReleaseObjects
<1>3. pc = "idle" /\ cur = None
  BY DEF Dequeue, RInv, WorkerOK
<1>4. queued' \in SUBSET Releases /\ timers' \in SUBSET Releases
  BY DEF Dequeue, RInv, TypeOK
<1> QED BY <1>1, <1>2, <1>3, <1>4, Zenon DEF Dequeue, world

\* A key whose release is gone.
LEMMA GoneKeeps ==
    ASSUME RInv, NEW r \in Releases, ReconcileGone(r)
    PROVE  RInv'
<1>1. /\ Dequeue(r) /\ ~api[r].exists
      /\ UNCHANGED <<pc, cur, rel, artifact, package, todo, firstErr, cont>>
  BY Zenon DEF ReconcileGone, locals
<1>2. /\ pc = "idle" /\ api' = api
      /\ queued' \in SUBSET Releases /\ timers' \in SUBSET Releases
      /\ UNCHANGED <<sources, live, accounts, disturbed, succeeded>>
  BY <1>1, Found
<1>3. queued' = queued \ {r} /\ timers \subseteq timers' \cup {r}
  BY <1>1 DEF Dequeue
<1>4. TypeOK'
  BY <1>1, <1>2 DEF RInv, TypeOK
<1>5. ServerOK' /\ WorkerOK'
  BY <1>1, <1>2, Zenon DEF RInv, ServerOK, WorkerOK, Working, Good, Recorded
<1>6. PhasesOK' /\ DeletionOK'
  BY <1>1, <1>2 DEF RInv, PhasesOK, DeletionOK, Working
<1>7. RequeueOK'
  BY <1>1, <1>2, <1>3 DEF RInv, RequeueOK, Attended
<1> QED BY <1>4, <1>5, <1>6, <1>7 DEF RInv

\* A copy n of m with conditions c that differs in no other way that matters.
Copies(m, c, n) ==
    /\ Good(n) /\ Recorded(n) /\ n.exists = m.exists /\ n.deleting = m.deleting
    /\ n.spec = m.spec /\ n.orphan = m.orphan /\ n.conditions = c
    /\ n.status.inventory = m.status.inventory
    /\ n.status.lastApplied = m.status.lastApplied

\* A copy with other conditions, and with the generation it was marked for.
LEMMA MarkedGood ==
    ASSUME NEW m, Good(m), Recorded(m), NEW c \in Conditions
    PROVE  /\ Copies(m, c, [m EXCEPT !.conditions = c])
           /\ Copies(m, c, [m EXCEPT !.conditions = c,
                                     !.status.observedGeneration = m.generation])
<1> DEFINE s == [m.status EXCEPT !.observedGeneration = m.generation]
<1>1. /\ m.status \in Statuses /\ m.generation \in Nat /\ GoodHistory(m.status.history)
      /\ m.deleting \in BOOLEAN /\ m \in ReleaseObjects
  BY DEF Good, ReleaseObjects
<1>2. /\ s \in Statuses /\ s.history = m.status.history
      /\ s.inventory = m.status.inventory /\ s.lastApplied = m.status.lastApplied
  BY <1>1 DEF Statuses
<1>3. ASSUME NEW n, NEW t \in Statuses, t.history = m.status.history,
             t.inventory = m.status.inventory, t.lastApplied = m.status.lastApplied,
             n = [m EXCEPT !.conditions = c, !.status = t]
      PROVE  Copies(m, c, n)
  <2>1. GoodHistory(t.history)
    BY <1>1, <1>3
  <2>2. /\ Good(n) /\ n.exists = m.exists /\ n.deleting = m.deleting
        /\ n.spec = m.spec /\ n.orphan = m.orphan /\ n.conditions = c
        /\ n.status = t
    BY <1>3, <2>1, Zenon DEF Good, ReleaseObjects
  <2>3. Recorded(n)
    BY <1>1, <1>3, <2>2, RecordedDepends, Zenon
  <2> QED BY <1>3, <2>2, <2>3 DEF Copies
<1>4. /\ [m EXCEPT !.conditions = c] = [m EXCEPT !.conditions = c, !.status = m.status]
      /\ [m EXCEPT !.conditions = c, !.status.observedGeneration = m.generation]
           = [m EXCEPT !.conditions = c, !.status = s]
  BY <1>1, Zenon DEF ReleaseObjects
<1> HIDE DEF s
<1> QED BY <1>1, <1>2, <1>3, <1>4, Zenon

\* The reconcile that registers the finalizer begins.
LEMMA NoFinalizerKeeps ==
    ASSUME RInv, NEW r \in Releases, ReconcileNoFinalizer(r)
    PROVE  RInv'
<1>1. /\ Dequeue(r) /\ api[r].exists /\ cur' = r /\ rel' = api[r] /\ pc' = "addFinalizer"
      /\ UNCHANGED <<artifact, package, todo, firstErr, cont>>
  BY Zenon DEF ReconcileNoFinalizer, Load
<1>2. /\ Good(rel') /\ Recorded(rel') /\ rel' \in ReleaseObjects /\ api' = api
      /\ queued' \in SUBSET Releases /\ timers' \in SUBSET Releases
      /\ UNCHANGED <<sources, live, accounts, disturbed, succeeded>>
  BY <1>1, Found
<1>3. TypeOK'
  BY <1>1, <1>2, Zenon DEF RInv, TypeOK
<1>4. PhasesOK' /\ DeletionOK' /\ ~Working'
  BY <1>1 DEF PhasesOK, DeletionOK, Working
<1> QED BY <1>1, <1>2, <1>3, <1>4, TakeKeeps

\* A deletion begins: the entries to prune are those of the API server.
LEMMA DeletionKeeps ==
    ASSUME RInv, NEW r \in Releases, handleReleaseDeletion(r)
    PROVE  RInv'
<1>1. /\ Dequeue(r) /\ api[r].exists /\ api[r].finalizer /\ api[r].deleting
      /\ cur' = r /\ rel' = api[r] /\ UNCHANGED <<artifact, package, firstErr, cont>>
      /\ \/ /\ pc' = "removeFinalizer" /\ todo' = todo
            /\ ~api[r].spec.prune \/ api[r].status.inventory.entries = {}
         \/ pc' = "prune" /\ todo' = api[r].status.inventory.entries
         \/ pc' = "impersonate" /\ todo' = todo
  BY Zenon DEF handleReleaseDeletion
<1>2. /\ Good(rel') /\ Recorded(rel') /\ rel' \in ReleaseObjects /\ api' = api
      /\ rel'.status \in Statuses
      /\ queued' \in SUBSET Releases /\ timers' \in SUBSET Releases
      /\ UNCHANGED <<sources, live, accounts, disturbed, succeeded>>
  BY <1>1, Found, Zenon
<1>3. rel'.status.inventory.entries \in SUBSET EntrySet
  BY <1>2, Zenon DEF Statuses
<1>4. TypeOK'
  BY <1>1, <1>2, <1>3 DEF RInv, TypeOK
<1>5. PhasesOK' /\ DeletionOK'
  BY <1>1, <1>2, <1>3, Zenon DEF PhasesOK, DeletionOK, Working
<1> QED BY <1>1, <1>2, <1>4, <1>5, TakeKeeps, Zenon

\* The copies with which a suspended release and one that waits are reported, and
\* with which the phases begin.
LEMMA StartsKeep ==
    ASSUME RInv, NEW r \in Releases,
           ReconcileSuspended(r) \/ ReconcileWaits(r) \/ ReconcileStarts(r)
    PROVE  RInv'
<1>1. /\ Dequeue(r) /\ Active(r) /\ cur' = r
      /\ UNCHANGED <<artifact, package, todo, firstErr>>
      /\ \/ pc' = "patch" /\ cont' = "retry"
         \/ pc' = "patch" /\ cont' = "suspend" /\ api[r].spec.suspend
         \/ pc' = "resolve" /\ cont' = cont
  BY Zenon DEF ReconcileSuspended, ReconcileWaits, ReconcileStarts, Load
<1>2. /\ Good(api[r]) /\ Recorded(api[r]) /\ api[r].conditions \in Conditions
      /\ api' = api /\ api[r] \in ReleaseObjects
      /\ queued' \in SUBSET Releases /\ timers' \in SUBSET Releases
      /\ UNCHANGED <<sources, live, accounts, disturbed, succeeded>>
  BY <1>1, Found, Zenon
<1>3. /\ "DependenciesNotReady" \in Reasons
      /\ MarkSuspended(api[r].conditions) \in Conditions
      /\ MarkNotReady(api[r].conditions, "DependenciesNotReady") \in Conditions
      /\ MarkReconciling(api[r].conditions) \in Conditions
  BY <1>2, MarkTypes DEF Reasons
<1>4. \E c \in Conditions :
        rel' \in {[api[r] EXCEPT !.conditions = c],
                  [api[r] EXCEPT !.conditions = c,
                                 !.status.observedGeneration = api[r].generation]}
  BY <1>2, <1>3, Zenon DEF ReconcileSuspended, ReconcileWaits, ReconcileStarts, Load, ReleaseObjects
<1>5. /\ Good(rel') /\ Recorded(rel') /\ rel'.exists /\ rel'.deleting = api[r].deleting
      /\ rel'.status.inventory = api[r].status.inventory
  <2>1. PICK c \in Conditions :
          rel' \in {[api[r] EXCEPT !.conditions = c],
                    [api[r] EXCEPT !.conditions = c,
                                   !.status.observedGeneration = api[r].generation]}
    BY <1>4, Zenon
  <2>2. /\ Copies(api[r], c, [api[r] EXCEPT !.conditions = c])
        /\ Copies(api[r], c, [api[r] EXCEPT !.conditions = c,
                                            !.status.observedGeneration = api[r].generation])
    BY <1>2, MarkedGood, Zenon
  <2>3. Copies(api[r], c, rel')
    BY <2>1, <2>2, Zenon
  <2> QED BY <1>1, <2>3 DEF Copies, Active
<1>6. ~rel'.deleting /\ api[r].finalizer
  BY <1>1, <1>5, Zenon DEF Active
<1>7. TypeOK'
  BY <1>1, <1>2, <1>5 DEF RInv, TypeOK, Good
<1>8. PhasesOK' /\ DeletionOK'
  BY <1>1, <1>6, Zenon DEF PhasesOK, DeletionOK
<1> QED BY <1>1, <1>2, <1>5, <1>6, <1>7, <1>8, TakeKeeps

\* The worker takes a key.
LEMMA TakesKeep ==
    ASSUME RInv, NEW r \in Releases, Take(r)
    PROVE  RInv'
BY GoneKeeps, NoFinalizerKeeps, DeletionKeeps, StartsKeep, Zenon DEF Take

-----------------------------------------------------------------------------
(* The phases of a reconcile. *)

\* What a failure before the end of the apply phase reports is no new inventory.
LEMMA FailsAre ==
    ASSUME NEW d \in DigestSets
    PROVE  /\ Stalls(d) \in Results /\ Proven(Stalls(d))
           /\ Fails("FailedTransient", DefaultReleaseInterval, d) \in Results
           /\ Proven(Fails("FailedTransient", DefaultReleaseInterval, d))
           /\ NoOpResult \in Results /\ Proven(NoOpResult) /\ NoDigests \in DigestSets
<1>1. NoDigests \in DigestSets
  BY DEF NoDigests, DigestSets
<1> QED BY <1>1 DEF Stalls, Fails, NoOpResult, Results, Proven, Phases,
                    StalledRecheckInterval, DefaultReleaseInterval

\* The digests of a reconcile that has got hold of an artifact.
LEMMA DigestTypes ==
    ASSUME RInv, ~rel.deleting, pc \in {"fetch", "render", "impersonate", "apply", "prune"}
    PROVE  /\ SourceDigest \in DigestSets
           /\ pc # "fetch" => DigestSet \in DigestSets
           /\ pc # "fetch" /\ Desired # None => Desired \in SUBSET Resources
           /\ rel.spec \in SpecSet
<1>1. artifact \in Artifacts /\ (pc # "fetch" => package = artifact)
  BY DEF RInv, PhasesOK
<1>2. rel.spec \in SpecSet
  BY DEF RInv, WorkerOK, Good
<1>3. pc # "fetch" => Desired \in {None} \cup SUBSET Resources
  <2>1. rel.spec.path \in Paths
    BY <1>2 DEF SpecSet
  <2>2. pc # "fetch" => <<package, rel.spec.path>> \in Artifacts \X Paths
    BY <1>1, <2>1
  <2> QED BY <2>2, Assumptions, Zenon DEF Desired
<1>4. SourceDigest \in DigestSets
  BY <1>1 DEF SourceDigest, NoDigests, DigestSets
<1>5. pc # "fetch" => DigestSet \in DigestSets
  <2> HIDE DEF Desired
  <2> QED BY <1>1, <1>3 DEF DigestSet, DigestSets
<1> QED BY <1>2, <1>3, <1>4, <1>5

\* A failure, with whatever condition it sets.
LEMMA FailureKeeps ==
    ASSUME RInv, Working, ~rel.deleting, NEW c \in Conditions, NEW result \in Results,
           Proven(result), Commit(c, result), NoEffect, disturbed' \in Nat
    PROVE  RInv'
<1>1. UNCHANGED <<api, world, queue>> /\ succeeded' \in SUBSET Releases
  BY DEF NoEffect, RInv, TypeOK
<1> QED BY <1>1, CommitKeeps, Zenon

\* The count of disturbances.
LEMMA DisturbType ==
    ASSUME RInv, NEW kind, Disturb(kind) \/ UNCHANGED disturbed
    PROVE  disturbed' \in Nat
BY DEF RInv, TypeOK, Disturb

\* The conditions in memory, and what the phases mark them with.
LEMMA MarkedTypes ==
    ASSUME RInv, NEW reason \in Reasons
    PROVE  /\ rel.conditions \in Conditions
           /\ MarkStalled(rel.conditions, reason) \in Conditions
           /\ MarkNotReady(rel.conditions, reason) \in Conditions
           /\ MarkNotReady(ClearDrifted(rel.conditions), reason) \in Conditions
           /\ MarkReady(ClearDrifted(rel.conditions)) \in Conditions
<1>1. rel.conditions \in Conditions
  BY DEF RInv, TypeOK, ReleaseObjects
<1>2. ClearDrifted(rel.conditions) \in Conditions
  BY <1>1, MarkTypes
<1> QED BY <1>1, <1>2, MarkTypes, Zenon

\* The source is resolved: an artifact it has published, or a failure.
LEMMA ResolveKeeps == ASSUME RInv, resolveReleaseSource PROVE RInv'
<1> DEFINE a == ArtifactOf(rel.spec.source)
<1>1. pc = "resolve" /\ Working /\ ~rel.deleting /\ NoEffect
  BY Zenon DEF resolveReleaseSource, RInv, WorkerOK, Working
<1>2. /\ rel \in ReleaseObjects /\ rel.status \in Statuses /\ rel.spec \in SpecSet
      /\ GoodHistory(rel.status.history) /\ Good(rel) /\ Recorded(rel) /\ rel.exists
      /\ rel.conditions \in Conditions /\ rel.deleting \in BOOLEAN
  BY <1>1, Zenon DEF RInv, WorkerOK, Good, ReleaseObjects
<1>3. /\ MarkStalled(rel.conditions, "SourceNotReady") \in Conditions
      /\ MarkNotReady(rel.conditions, "SourceNotReady") \in Conditions
  BY MarkedTypes DEF Reasons
<1>4. CASE pc' = "fetch"
  <2>1. /\ Resolvable(rel.spec.source) /\ artifact' = a
        /\ rel' = [rel EXCEPT !.status.source = a]
        /\ UNCHANGED <<cur, package, todo, firstErr, cont, disturbed>>
    BY <1>4, Zenon DEF resolveReleaseSource, Commit
  <2>2. a \in Artifacts
    <3>1. /\ rel.spec.source \in Sources
          /\ sources[rel.spec.source].published \in Nat
          /\ sources[rel.spec.source].published <= Len(Publications[rel.spec.source])
          /\ Publications[rel.spec.source] \in Seq(Artifacts)
      BY <1>2, Assumptions, Zenon DEF SpecSet, RInv, TypeOK, ServerOK
    <3> QED BY <2>1, <3>1 DEF Resolvable, ArtifactOf
  <2> HIDE DEF a
  <2> DEFINE s == [rel.status EXCEPT !.source = a]
  <2>3. /\ s \in Statuses /\ s.history = rel.status.history
        /\ s.inventory = rel.status.inventory /\ s.lastApplied = rel.status.lastApplied
    BY <1>2, <2>2 DEF Statuses
  <2>4. rel' = [rel EXCEPT !.conditions = rel.conditions, !.status = s]
    BY <1>2, <2>1, Zenon DEF ReleaseObjects
  <2> HIDE DEF s
  <2>5. GoodHistory(s.history)
    BY <1>2, <2>3
  <2>6. /\ Good(rel') /\ rel'.status = s /\ rel'.exists = rel.exists
        /\ rel'.deleting = rel.deleting
    BY <1>2, <2>3, <2>4, <2>5, Zenon DEF Good, ReleaseObjects
  <2>7. Recorded(rel')
    BY <1>2, <2>3, <2>6, RecordedDepends
  <2>8. TypeOK'
    BY <1>1, <1>4, <2>1, <2>2, <2>6 DEF RInv, TypeOK, Good, NoEffect, world, queue
  <2>9. PhasesOK' /\ DeletionOK' /\ Working'
    BY <1>1, <1>4, <2>1, <2>2, <2>6 DEF PhasesOK, DeletionOK, Working
  <2> QED BY <1>1, <1>2, <1>4, <2>1, <2>6, <2>7, <2>8, <2>9, WorkKeeps
          DEF NoEffect, world
<1>5. CASE pc' # "fetch"
  <2>1. \/ Commit(MarkStalled(rel.conditions, "SourceNotReady"), Stalls(NoDigests))
        \/ Commit(MarkNotReady(rel.conditions, "SourceNotReady"),
                  Fails("FailedTransient", DefaultReleaseInterval, NoDigests))
    BY <1>5 DEF resolveReleaseSource
  <2>2. disturbed' \in Nat
    BY <1>5, DisturbType, Zenon DEF resolveReleaseSource
  <2>3. NoDigests \in DigestSets
    BY DEF NoDigests, DigestSets
  <2> QED BY <1>1, <1>3, <2>1, <2>2, <2>3, FailsAre, FailureKeeps
<1> QED BY <1>4, <1>5

\* The download has the digest that was resolved, or is refused.
LEMMA FetchKeeps == ASSUME RInv, fetchReleaseArtifact PROVE RInv'
<1>1. pc = "fetch" /\ Working /\ ~rel.deleting /\ NoEffect
  BY DEF fetchReleaseArtifact, RInv, WorkerOK, Working
<1>2. artifact \in Artifacts /\ SourceDigest \in DigestSets
  BY <1>1, DigestTypes, Zenon DEF RInv, PhasesOK
<1>3. CASE pc' = "render"
  <2>1. /\ package' = artifact
        /\ UNCHANGED <<cur, rel, artifact, todo, firstErr, cont, disturbed>>
    BY <1>3, Zenon DEF fetchReleaseArtifact, Commit, Fetch
  <2>2. TypeOK'
    BY <1>1, <1>2, <1>3, <2>1, Zenon DEF RInv, TypeOK, NoEffect, world, queue
  <2>3. PhasesOK' /\ DeletionOK' /\ Working'
    BY <1>1, <1>2, <1>3, <2>1 DEF PhasesOK, DeletionOK, Working
  <2>4. Good(rel') /\ Recorded(rel') /\ rel'.exists
    BY <1>1, <2>1 DEF RInv, WorkerOK
  <2> QED BY <1>1, <1>3, <2>1, <2>2, <2>3, <2>4, WorkKeeps DEF NoEffect, world
<1>4. CASE pc' # "render"
  <2>1. Commit(MarkNotReady(rel.conditions, "FetchFailed"),
               Fails("FailedTransient", DefaultReleaseInterval, SourceDigest))
    BY <1>4 DEF fetchReleaseArtifact
  <2>2. disturbed' \in Nat
    BY <1>4, DisturbType DEF fetchReleaseArtifact
  <2>3. MarkNotReady(rel.conditions, "FetchFailed") \in Conditions
    BY MarkedTypes DEF Reasons
  <2> QED BY <1>1, <1>2, <2>1, <2>2, <2>3, FailsAre, FailureKeeps
<1> QED BY <1>3, <1>4, Zenon

\* The render phase: a no-op, a failure, a panic, or on to the apply.
LEMMA RenderKeeps ==
    ASSUME RInv, renderReleasePackage \/ RenderFails \/ RenderPanics
    PROVE  RInv'
<1>1. pc = "render" /\ Working /\ ~rel.deleting /\ NoEffect /\ disturbed' \in Nat
  <2>1. pc = "render" /\ NoEffect
    BY DEF renderReleasePackage, RenderFails, RenderPanics
  <2>2. disturbed' \in Nat
    BY DisturbType DEF renderReleasePackage, RenderFails, RenderPanics
  <2> QED BY <2>1, <2>2 DEF RInv, WorkerOK, Working
<1>2. /\ artifact \in Artifacts /\ package = artifact /\ SourceDigest \in DigestSets
      /\ DigestSet \in DigestSets
      /\ Desired # None => Desired \in SUBSET Resources
  BY <1>1, DigestTypes DEF RInv, PhasesOK
<1>3. CASE pc' = "patch"
  <2>1. \/ Commit(rel.conditions, NoOpResult)
        \/ Commit(MarkStalled(rel.conditions, "RenderFailed"), Stalls(SourceDigest))
        \/ Commit(MarkStalled(rel.conditions, "ApplyFailed"), Stalls(DigestSet))
    BY <1>3 DEF renderReleasePackage, RenderFails, RenderPanics
  <2>2. /\ rel.conditions \in Conditions
        /\ MarkStalled(rel.conditions, "RenderFailed") \in Conditions
        /\ MarkStalled(rel.conditions, "ApplyFailed") \in Conditions
    BY MarkedTypes, Zenon DEF Reasons
  <2> QED BY <1>1, <1>2, <2>1, <2>2, FailsAre, FailureKeeps
<1>4. CASE pc' # "patch"
  <2>1. /\ Desired # None /\ pc' \in {"apply", "impersonate"}
        /\ pc' = "apply" => todo' = Desired
        /\ pc' = "impersonate" => todo' = todo
        /\ UNCHANGED <<cur, rel, artifact, package, firstErr, cont, disturbed>>
    BY <1>4, Zenon DEF renderReleasePackage, RenderFails, RenderPanics, Commit
  <2>2. TypeOK'
    BY <1>1, <1>2, <2>1 DEF RInv, TypeOK, NoEffect, world, queue
  <2>3. Desired' = Desired
    BY <2>1 DEF Desired
  <2>4. PhasesOK' /\ DeletionOK' /\ Working'
    BY <1>1, <1>2, <2>1, <2>3, Zenon DEF PhasesOK, DeletionOK, Working
  <2>5. Good(rel') /\ Recorded(rel') /\ rel'.exists
    BY <1>1, <2>1 DEF RInv, WorkerOK
  <2> QED BY <1>1, <2>1, <2>2, <2>4, <2>5, WorkKeeps DEF NoEffect, world
<1> QED BY <1>3, <1>4

\* A stalled deletion keeps the inventory.
LEMMA StallKeeps ==
    ASSUME RInv, pc \in {"impersonate", "prune"}, rel.deleting, NEW reason \in Reasons,
           StallDeletion(reason), UNCHANGED <<api, world, queue, succeeded>>,
           disturbed' \in Nat
    PROVE  RInv'
<1> DEFINE c == MarkStalled(rel.conditions, reason)
<1>1. /\ rel' = [rel EXCEPT !.conditions = c] /\ pc' = "patch" /\ cont' = "retry"
      /\ todo' = {} /\ firstErr' = "none" /\ UNCHANGED <<cur, artifact, package>>
  BY Zenon DEF StallDeletion, RInv, TypeOK, ReleaseObjects
<1>2. Working /\ Good(rel) /\ Recorded(rel) /\ rel.exists /\ c \in Conditions
  BY MarkedTypes DEF RInv, WorkerOK, Working
<1> HIDE DEF c
<1>3. Copies(rel, c, [rel EXCEPT !.conditions = c])
  BY <1>2, MarkedGood, Zenon
<1>4. Copies(rel, c, rel')
  BY <1>1, <1>3
<1>5. TypeOK'
  BY <1>1, <1>4 DEF RInv, TypeOK, Copies, Good, world, queue
<1>6. PhasesOK' /\ Working'
  BY <1>1 DEF PhasesOK, Working
<1>7. DeletionOK'
  BY <1>1, <1>2, <1>4 DEF RInv, DeletionOK, Copies, Working
<1> QED BY <1>1, <1>2, <1>4, <1>5, <1>6, <1>7, WorkKeeps DEF Copies, world

\* The impersonated client is built, for the apply or for a deletion.
LEMMA ClientKeeps == ASSUME RInv, buildReleaseApplyClient PROVE RInv'
<1>1. /\ pc = "impersonate" /\ Working /\ NoEffect
      /\ rel.deleting => pc' = "prune" /\ todo' = rel.status.inventory.entries
      /\ ~rel.deleting => pc' = "apply" /\ todo' = Desired
      /\ UNCHANGED <<cur, rel, artifact, package, firstErr, cont, disturbed>>
  BY Zenon DEF buildReleaseApplyClient, Working
<1>2. rel.status.inventory.entries \in SUBSET EntrySet
  BY DEF RInv, TypeOK, ReleaseObjects, Statuses
<1>3. ~rel.deleting => /\ Desired # None /\ Desired \in SUBSET Resources
                       /\ package = artifact /\ artifact \in Artifacts
  BY <1>1, DigestTypes, Zenon DEF RInv, PhasesOK
<1>4. Desired' = Desired
  BY <1>1 DEF Desired
<1>5. TypeOK'
  BY <1>1, <1>2, <1>3, Zenon DEF RInv, TypeOK, NoEffect, world, queue
<1>6. PhasesOK' /\ Working'
  BY <1>1, <1>2, <1>3, <1>4, Zenon DEF PhasesOK, Working
<1>7. DeletionOK'
  BY <1>1, Zenon DEF RInv, DeletionOK, NoEffect, Working
<1>8. Good(rel') /\ Recorded(rel') /\ rel'.exists
  BY <1>1 DEF RInv, WorkerOK
<1> QED BY <1>1, <1>5, <1>6, <1>7, <1>8, WorkKeeps DEF NoEffect, world

\* It cannot be built: the reconcile fails, the deletion stalls or orphans.
LEMMA ImpersonationKeeps == ASSUME RInv, ImpersonationFails PROVE RInv'
<1>1. pc = "impersonate" /\ Working /\ NoEffect /\ disturbed' \in Nat
  <2>1. disturbed' \in Nat
    BY DisturbType, Zenon DEF ImpersonationFails
  <2> QED BY <2>1 DEF ImpersonationFails, Working
<1>2. CASE ~rel.deleting
  <2>1. Commit(MarkStalled(rel.conditions, "ImpersonationFailed"), Stalls(DigestSet))
    BY <1>2 DEF ImpersonationFails
  <2>2. DigestSet \in DigestSets
    BY <1>1, <1>2, DigestTypes, Zenon
  <2>3. MarkStalled(rel.conditions, "ImpersonationFailed") \in Conditions
    BY MarkedTypes DEF Reasons
  <2> QED BY <1>1, <1>2, <2>1, <2>2, <2>3, FailsAre, FailureKeeps, Zenon
<1>3. CASE rel.deleting /\ \E reason \in Reasons : StallDeletion(reason)
  BY <1>1, <1>3, StallKeeps DEF NoEffect
<1>4. CASE rel.deleting /\ ~\E reason \in Reasons : StallDeletion(reason)
  <2>1. "DeletionSAMissing" \in Reasons /\ "ImpersonationFailed" \in Reasons
    BY DEF Reasons
  <2>2. /\ rel.orphan /\ rel' = [rel EXCEPT !.status.inventory = NoInventory]
        /\ pc' = "patch" /\ cont' = "orphan"
        /\ UNCHANGED <<cur, artifact, package, todo, firstErr>>
    BY <1>4, <2>1, Zenon DEF ImpersonationFails, handleReleaseDeletionSAMissing
  <2> DEFINE s == [rel.status EXCEPT !.inventory = NoInventory]
  <2>3. /\ Good(rel) /\ rel.exists /\ rel.status \in Statuses /\ rel \in ReleaseObjects
        /\ GoodHistory(rel.status.history) /\ rel.conditions \in Conditions
    BY <1>1 DEF RInv, WorkerOK, Good, ReleaseObjects, Working
  <2>4. s \in Statuses /\ s.history = rel.status.history /\ s.inventory = NoInventory
    BY <2>3, Zenon DEF Statuses, NoInventory
  <2>5. rel' = [rel EXCEPT !.conditions = rel.conditions, !.status = s]
    BY <2>2, <2>3, Zenon DEF ReleaseObjects
  <2> HIDE DEF s
  <2>6. GoodHistory(s.history)
    BY <2>3, <2>4
  <2>7. /\ Good(rel') /\ rel'.status = s /\ rel'.exists = rel.exists
        /\ rel'.deleting = rel.deleting /\ rel'.orphan = rel.orphan
    BY <2>3, <2>4, <2>5, <2>6, Zenon DEF Good, ReleaseObjects
  <2>8. Recorded(rel')
    BY <1>4, <2>7 DEF Recorded
  <2>9. TypeOK'
    BY <1>1, <2>2, <2>7 DEF RInv, TypeOK, Good, NoEffect, world, queue
  <2>10. PhasesOK' /\ DeletionOK' /\ Working'
    BY <1>4, <2>2, <2>4, <2>7, Zenon DEF PhasesOK, DeletionOK, Working
  <2> QED BY <1>1, <1>4, <2>2, <2>3, <2>7, <2>8, <2>9, <2>10, WorkKeeps DEF NoEffect, world
<1> QED BY <1>2, <1>3, <1>4

\* Objects of the render are put.
LEMMA ApplyKeeps ==
    ASSUME RInv, NEW r \in todo, ApplyResource(r)
    PROVE  RInv'
<1>1. /\ pc = "apply" /\ Working /\ todo' = todo \ {r}
      /\ live' = [live EXCEPT ![r.id] = Applied(r)]
      /\ UNCHANGED <<api, sources, accounts, queue, pc, cur, rel, artifact, package,
                     firstErr, cont, disturbed, succeeded>>
  BY Zenon DEF ApplyResource, Working
<1>2. ~rel.deleting /\ cur \in Releases /\ Good(rel) /\ Recorded(rel) /\ rel.exists
  BY <1>1, Zenon DEF RInv, WorkerOK, TypeOK
<1>3. todo \subseteq Desired /\ Desired \in SUBSET Resources
  BY <1>1, <1>2, DigestTypes, Zenon DEF RInv, PhasesOK
<1>4. r.id \in Objects /\ Applied(r) \in LiveObjects
  BY <1>2, <1>3, Zenon DEF Resources, Applied, LiveObjects
<1>5. live' \in [Objects -> {Absent} \cup LiveObjects]
  BY <1>1, <1>4, Zenon DEF RInv, TypeOK
<1>6. TypeOK'
  <2>1. todo' \in SUBSET Resources
    BY <1>1, <1>3
  <2> QED BY <1>1, <1>5, <2>1 DEF RInv, TypeOK, queue
<1>7. Desired' = Desired
  BY <1>1, Zenon DEF Desired
<1>8. PhasesOK' /\ DeletionOK' /\ Working'
  BY <1>1, <1>2, <1>7, Zenon DEF RInv, PhasesOK, DeletionOK, Working
<1> QED BY <1>1, <1>2, <1>6, <1>8, WorkKeeps, Zenon

\* What the ends of the apply and prune phases report.
LEMMA EndsAre ==
    ASSUME RInv, pc \in {"apply", "prune"}, ~rel.deleting
    PROVE  /\ \A a \in Phases, p \in Phases :
                 BacksOff(a, p) \in Results /\ Proven(BacksOff(a, p))
           /\ \A o \in {"Applied", "AppliedAndPruned"} :
                 Succeeds(o) \in Results /\ Proven(Succeeds(o))
<1>1. DigestSet \in DigestSets
  BY DigestTypes
<1>2. releaseBackoff \in Int
  <2>1. rel.status.failureCounters.reconcile + 1 \in Nat
    BY DEF RInv, TypeOK, ReleaseObjects, Statuses, Counters
  <2> QED BY <2>1, DelayType, Zenon DEF releaseBackoff
<1>3. package = artifact /\ artifact \in Artifacts /\ Desired # None
  BY Zenon DEF RInv, PhasesOK
<1> QED BY <1>1, <1>2, <1>3 DEF BacksOff, Succeeds, Results, Proven, Phases

\* A success records the render at hand, which is of the artifact at hand.
LEMMA SuccessKeeps ==
    ASSUME RInv, pc \in {"apply", "prune"}, ~rel.deleting,
           NEW o \in {"Applied", "AppliedAndPruned"}, CommitSuccess(o)
    PROVE  RInv'
<1>1. /\ Commit(MarkReady(ClearDrifted(rel.conditions)), Succeeds(o))
      /\ UNCHANGED <<api, world, queue>> /\ succeeded' = succeeded \cup {cur}
      /\ disturbed' = disturbed
  BY Zenon DEF CommitSuccess
<1>2. MarkReady(ClearDrifted(rel.conditions)) \in Conditions
  BY MarkedTypes, Zenon DEF Reasons
<1>3. cur \in Releases /\ Working /\ disturbed' \in Nat /\ succeeded' \in SUBSET Releases
  BY <1>1 DEF RInv, WorkerOK, TypeOK, Working
<1>4. Succeeds(o) \in Results /\ Proven(Succeeds(o))
  BY EndsAre
<1> QED BY <1>1, <1>2, <1>3, <1>4, CommitKeeps

\* The apply fails.
LEMMA ApplyFailsKeeps == ASSUME RInv, ApplyFails PROVE RInv'
<1>1. /\ pc = "apply" /\ Working /\ ~rel.deleting /\ NoEffect
      /\ Commit(MarkNotReady(rel.conditions, "ApplyFailed"), BacksOff("failed", "skipped"))
  BY DEF ApplyFails, RInv, WorkerOK, Working
<1>2. disturbed' \in Nat
  BY DisturbType DEF ApplyFails
<1>3. MarkNotReady(rel.conditions, "ApplyFailed") \in Conditions
  BY MarkedTypes DEF Reasons
<1>4. /\ BacksOff("failed", "skipped") \in Results
      /\ Proven(BacksOff("failed", "skipped"))
  BY <1>1, EndsAre DEF Phases
<1> QED BY <1>1, <1>2, <1>3, <1>4, FailureKeeps, Zenon

\* The apply succeeds: on to the stale entries, or to the commit.
LEMMA ApplySucceedsKeeps == ASSUME RInv, ApplySucceeds PROVE RInv'
<1>1. pc = "apply" /\ Working /\ ~rel.deleting
  BY DEF ApplySucceeds, RInv, WorkerOK, Working
<1>2. CASE CommitSuccess("Applied")
  BY <1>1, <1>2, SuccessKeeps, Zenon
<1>3. CASE ~CommitSuccess("Applied")
  <2>1. /\ pc' = "prune" /\ todo' = StaleSet /\ NoEffect
        /\ UNCHANGED <<cur, rel, artifact, package, firstErr, cont, disturbed>>
    BY <1>3, Zenon DEF ApplySucceeds
  <2>2. StaleSet \in SUBSET EntrySet
    <3>1. rel.status.inventory.entries \in SUBSET EntrySet
      BY DEF RInv, TypeOK, ReleaseObjects, Statuses
    <3> QED BY <3>1, StaleSetDisjoint, Zenon DEF StaleSet
  <2>3. TypeOK'
    BY <2>1, <2>2, Zenon DEF RInv, TypeOK, NoEffect, world, queue
  <2>4. Desired' = Desired
    BY <2>1 DEF Desired
  <2>5. PhasesOK' /\ DeletionOK' /\ Working'
    BY <1>1, <2>1, <2>2, <2>4, Zenon DEF RInv, PhasesOK, DeletionOK, Working
  <2>6. Good(rel') /\ Recorded(rel') /\ rel'.exists
    BY <1>1, <2>1, Zenon DEF RInv, WorkerOK
  <2> QED BY <1>1, <2>1, <2>3, <2>5, <2>6, WorkKeeps DEF NoEffect, world
<1> QED BY <1>2, <1>3, Zenon

\* Prune: an entry that has been dealt with is gone or one that Prune skips.
LEMMA PruneKeeps ==
    ASSUME RInv, NEW e \in todo, PruneEntry(e)
    PROVE  RInv'
<1>1. /\ pc = "prune" /\ Working /\ todo' = todo \ {e}
      /\ UNCHANGED <<api, sources, accounts, queue, pc, cur, rel, artifact, package,
                     cont, succeeded>>
      /\ \/ /\ live' = (IF PruneSkips(e) THEN live ELSE [live EXCEPT ![e.id] = Absent])
            /\ UNCHANGED <<firstErr, disturbed>>
         \/ /\ live' = live /\ Disturb("prune")
            /\ firstErr' \in {"forbidden", "other"}
  <2>1. firstErr \in {"none", "forbidden", "other"}
    BY DEF RInv, TypeOK
  <2> QED BY <2>1, Zenon DEF PruneEntry, Working
<1>2. todo \subseteq EntrySet /\ e.id \in Objects
  BY <1>1, Zenon DEF RInv, PhasesOK, EntrySet
<1>3. /\ live \in [Objects -> {Absent} \cup LiveObjects]
      /\ \/ live' = live
         \/ live' = [live EXCEPT ![e.id] = Absent]
  BY <1>1, Zenon DEF RInv, TypeOK
<1>4. TypeOK'
  <2>1. live' \in [Objects -> {Absent} \cup LiveObjects]
    BY <1>3, Zenon
  <2>2. todo' \in SUBSET EntrySet
    BY <1>1, <1>2, Zenon
  <2>3. disturbed' \in Nat /\ firstErr' \in {"none", "forbidden", "other"}
    BY <1>1, DisturbType DEF RInv, TypeOK
  <2> QED BY <1>1, <2>1, <2>2, <2>3 DEF RInv, TypeOK, queue
<1>5. PhasesOK' /\ Working'
  BY <1>1, <1>2, Zenon DEF RInv, PhasesOK, Working, Desired
<1>6. DeletionOK'
  <2> SUFFICES ASSUME rel.deleting, firstErr' = "none",
                      NEW x \in rel.status.inventory.entries \ todo'
               PROVE  PruneSkips(x)'
    BY <1>1, Zenon DEF RInv, DeletionOK, Working
  <2>1. firstErr = "none" /\ live' = (IF PruneSkips(e) THEN live ELSE [live EXCEPT ![e.id] = Absent])
    BY <1>1, Zenon
  <2>2. x.id \in Objects
    BY DEF RInv, TypeOK, ReleaseObjects, Statuses, EntrySet
  <2>3. x = e \/ PruneSkips(x)
    BY <1>1, <2>1, Zenon DEF RInv, DeletionOK, Working
  <2> QED BY <1>3, <2>1, <2>2, <2>3, Zenon DEF PruneSkips
<1>7. Good(rel') /\ Recorded(rel') /\ rel'.exists
  BY <1>1 DEF RInv, WorkerOK
<1> QED BY <1>1, <1>4, <1>5, <1>6, <1>7, WorkKeeps, Zenon

\* The prune of an apply ends.
LEMMA PruneReturnsKeeps == ASSUME RInv, PruneReturns PROVE RInv'
<1>1. pc = "prune" /\ Working /\ ~rel.deleting
  BY DEF PruneReturns, Working
<1>2. CASE CommitSuccess("AppliedAndPruned")
  BY <1>1, <1>2, SuccessKeeps, Zenon
<1>3. CASE ~CommitSuccess("AppliedAndPruned")
  <2>1. /\ Commit(MarkNotReady(ClearDrifted(rel.conditions), "PruneFailed"),
                  BacksOff("ok", "failed"))
        /\ NoEffect /\ disturbed' = disturbed
    BY <1>3, Zenon DEF PruneReturns
  <2>2. disturbed' \in Nat
    BY <2>1 DEF RInv, TypeOK
  <2>3. MarkNotReady(ClearDrifted(rel.conditions), "PruneFailed") \in Conditions
    BY MarkedTypes DEF Reasons
  <2>4. BacksOff("ok", "failed") \in Results /\ Proven(BacksOff("ok", "failed"))
    BY <1>1, EndsAre, Zenon DEF Phases
  <2> QED BY <1>1, <2>1, <2>2, <2>3, <2>4, FailureKeeps
<1> QED BY <1>2, <1>3

-----------------------------------------------------------------------------
(* The writes of the worker. *)

\* The reconcile returns without a write and is scheduled again.
LEMMA RetryKeeps ==
    ASSUME RInv, pc # "idle", Return(TRUE), UNCHANGED <<api, world, queued>>,
           disturbed' \in Nat, succeeded' \in SUBSET Releases
    PROVE  RInv'
<1>1. cur \in Releases /\ timers' = timers \cup {cur} /\ Forget
  BY DEF RInv, WorkerOK, TypeOK, Return
<1>2. ServerOK'
  BY Zenon DEF RInv, ServerOK, world
<1>3. Attended'
  BY <1>1, Zenon DEF RInv, RequeueOK, Attended
<1>4. /\ api' \in [Releases -> ReleaseObjects]
      /\ sources' \in [Sources -> [exists : BOOLEAN, ready : BOOLEAN, published : Nat]]
      /\ live' \in [Objects -> {Absent} \cup LiveObjects]
      /\ accounts' \in SUBSET ServiceAccounts
      /\ queued' \in SUBSET Releases /\ timers' \in SUBSET Releases
  BY <1>1 DEF RInv, TypeOK, world
<1> QED BY <1>1, <1>2, <1>3, <1>4, ForgetKeeps, Zenon

\* The prune of a deletion ends: without an error every entry was dealt with.
LEMMA PruneForDeletionKeeps == ASSUME RInv, pruneForDeletion PROVE RInv'
<1>1. /\ pc = "prune" /\ todo = {} /\ rel.deleting /\ Working
      /\ UNCHANGED <<api, world, disturbed, succeeded>>
      /\ disturbed' \in Nat /\ succeeded' \in SUBSET Releases
  BY DEF pruneForDeletion, RInv, TypeOK, Working
<1>2. CASE StallDeletion("ImpersonationFailed") /\ UNCHANGED queue
  <2>1. "ImpersonationFailed" \in Reasons
    BY DEF Reasons
  <2> QED BY <1>1, <1>2, <2>1, StallKeeps
<1>3. CASE Return(TRUE) /\ UNCHANGED queued
  BY <1>1, <1>3, RetryKeeps
<1>4. CASE firstErr = "none" /\ pc' = "removeFinalizer" /\ UNCHANGED <<queue, locals>>
  <2>1. UNCHANGED <<cur, rel, artifact, package, todo, firstErr, cont, queued, timers>>
    BY <1>4, Zenon DEF locals, queue
  <2>2. TypeOK'
    BY <1>1, <1>4, <2>1, Zenon DEF RInv, TypeOK, world
  <2>3. PhasesOK' /\ Working'
    BY <1>1, <1>4, <2>1 DEF PhasesOK, Working
  <2>4. live' = live /\ sources' = sources
    BY <1>1 DEF world
  <2>5. DeletionOK'
    BY <1>1, <1>4, <2>1, <2>4, Zenon DEF RInv, DeletionOK, Working, PruneSkips
  <2>6. Good(rel') /\ Recorded(rel') /\ rel'.exists
    BY <1>1, <2>1, Zenon DEF RInv, WorkerOK
  <2> QED BY <1>1, <1>4, <2>1, <2>2, <2>3, <2>4, <2>5, <2>6, WorkKeeps, Zenon
<1> QED BY <1>2, <1>3, <1>4, Zenon DEF pruneForDeletion

\* A write that ends the reconcile.
LEMMA EndKeeps ==
    ASSUME RInv, pc # "idle", Forget, NEW new, Write(cur, new), UNCHANGED world,
           Good(new), Recorded(new), ~new.exists => new = Gone,
           ~new.finalizer => ~new.deleting /\ new.status = NoStatus,
           timers \subseteq timers', timers' \in SUBSET Releases,
           new.exists /\ ~new.spec.suspend => cur \in queued \cup timers',
           disturbed' \in Nat, succeeded' \in SUBSET Releases
    PROVE  RInv'
<1>1. /\ cur \in Releases /\ api' = [api EXCEPT ![cur] = new]
      /\ queued \subseteq queued' /\ queued' \in SUBSET Releases
      /\ api \in [Releases -> ReleaseObjects]
  BY Zenon DEF RInv, WorkerOK, TypeOK, Write
<1>2. /\ api' \in [Releases -> ReleaseObjects] /\ api'[cur] = new
      /\ \A r \in Releases : r # cur => api'[r] = api[r]
  BY <1>1 DEF Good
<1>3. ServerOK'
  <2>1. \A r \in Releases :
          /\ Good(api'[r]) /\ Recorded(api'[r]) /\ (~api'[r].exists => api'[r] = Gone)
          /\ ~api'[r].finalizer => ~api'[r].deleting /\ api'[r].status = NoStatus
    <3> SUFFICES ASSUME NEW r \in Releases
                 PROVE  /\ Good(api'[r]) /\ Recorded(api'[r])
                        /\ (~api'[r].exists => api'[r] = Gone)
                        /\ ~api'[r].finalizer => ~api'[r].deleting /\ api'[r].status = NoStatus
      OBVIOUS
    <3>1. CASE r = cur
      BY <1>2, <3>1
    <3>2. CASE r # cur
      BY <1>2, <3>2, Zenon DEF RInv, ServerOK
    <3> QED BY <3>1, <3>2, Zenon
  <2> QED BY <2>1, Zenon DEF RInv, ServerOK, world
<1>4. Attended'
  BY <1>1, <1>2, Zenon DEF RInv, RequeueOK, Attended
<1>5. /\ sources' \in [Sources -> [exists : BOOLEAN, ready : BOOLEAN, published : Nat]]
      /\ live' \in [Objects -> {Absent} \cup LiveObjects]
      /\ accounts' \in SUBSET ServiceAccounts
  BY DEF RInv, TypeOK, world
<1> QED BY <1>1, <1>2, <1>3, <1>4, <1>5, ForgetKeeps, Zenon

\* The finalizer is registered.
LEMMA AddFinalizerKeeps == ASSUME RInv, addReleaseFinalizer PROVE RInv'
<1>1. /\ pc # "idle" /\ Return(TRUE) /\ UNCHANGED <<world, succeeded>>
      /\ cur \in Releases /\ succeeded' \in SUBSET Releases
  BY Zenon DEF addReleaseFinalizer, RInv, WorkerOK, TypeOK
<1>2. disturbed' \in Nat
  BY DisturbType DEF addReleaseFinalizer
<1>3. CASE NoWrite
  BY <1>1, <1>2, <1>3, RetryKeeps DEF NoWrite
<1>4. CASE ~NoWrite
  <2> DEFINE new == [api[cur] EXCEPT !.finalizer = TRUE]
  <2>1. api[cur].exists /\ Write(cur, new)
    BY <1>4 DEF addReleaseFinalizer
  <2>2. Good(api[cur]) /\ Recorded(api[cur])
    BY <1>1, Zenon DEF RInv, ServerOK
  <2>3. /\ new \in ReleaseObjects /\ new.status = api[cur].status /\ new.exists
        /\ new.deleting = api[cur].deleting /\ new.finalizer /\ new.spec = api[cur].spec
    BY <2>1, <2>2, Zenon DEF Good, ReleaseObjects
  <2> HIDE DEF new
  <2>4. Good(new) /\ Recorded(new)
    BY <2>1, <2>2, <2>3, Zenon DEF Good, Recorded
  <2>5. timers' = timers \cup {cur} /\ timers \in SUBSET Releases /\ Forget
    BY <1>1 DEF Return, RInv, TypeOK
  <2> QED BY <1>1, <1>2, <2>1, <2>3, <2>4, <2>5, EndKeeps, Zenon
<1> QED BY <1>3, <1>4

\* The finalizer is removed, and the release with it.
LEMMA RemoveFinalizerKeeps == ASSUME RInv, removeReleaseFinalizer PROVE RInv'
<1>1. pc # "idle" /\ UNCHANGED world /\ succeeded' \in SUBSET Releases
  BY Zenon DEF removeReleaseFinalizer, RInv, TypeOK
<1>2. disturbed' \in Nat
  BY DisturbType, Zenon DEF removeReleaseFinalizer
<1>3. CASE NoWrite /\ Return(TRUE)
  BY <1>1, <1>2, <1>3, RetryKeeps DEF NoWrite
<1>4. CASE Write(cur, Gone) /\ Return(FALSE)
  <2>1. timers' = timers /\ timers \in SUBSET Releases /\ Forget
    BY <1>4 DEF Return, RInv, TypeOK
  <2> QED BY <1>1, <1>2, <1>4, <2>1, GoneGood, EndKeeps, Zenon
<1> QED BY <1>3, <1>4, Zenon DEF removeReleaseFinalizer

\* What the status patch leaves in the API server, however much of it arrives.
LEMMA PatchedIs ==
    ASSUME RInv, pc = "patch", NEW sent
    PROVE  /\ Good(Patched(sent)) /\ Recorded(Patched(sent))
           /\ Patched(sent).exists = api[cur].exists
           /\ Patched(sent).generation = api[cur].generation
           /\ Patched(sent).spec = api[cur].spec
           /\ Patched(sent).finalizer /\ Patched(sent).deleting = api[cur].deleting
           /\ Patched(sent).status = (IF "status" \in sent THEN rel.status
                                      ELSE api[cur].status)
           /\ Patched(sent).conditions = (IF "conditions" \in sent THEN rel.conditions
                                          ELSE api[cur].conditions)
<1> DEFINE c == IF "conditions" \in sent THEN rel.conditions ELSE api[cur].conditions
           s == IF "status" \in sent THEN rel.status ELSE api[cur].status
           new == [api[cur] EXCEPT !.conditions = c, !.status = s]
<1>1. /\ cur \in Releases /\ Good(rel) /\ Recorded(rel) /\ api[cur].finalizer
      /\ rel.deleting => api[cur].deleting
      /\ Good(api[cur]) /\ Recorded(api[cur])
  BY DEF RInv, WorkerOK, ServerOK, TypeOK, Working
<1>2. /\ rel.conditions \in Conditions /\ rel.status \in Statuses
      /\ api[cur].conditions \in Conditions /\ api[cur].status \in Statuses
      /\ GoodHistory(rel.status.history) /\ GoodHistory(api[cur].status.history)
      /\ api[cur] \in ReleaseObjects
      /\ rel.deleting \in BOOLEAN /\ api[cur].deleting \in BOOLEAN
  BY <1>1, Zenon DEF Good, ReleaseObjects
<1>3. c \in Conditions /\ s \in Statuses /\ GoodHistory(s.history)
  BY <1>2
<1>4. Patched(sent) = new
  BY <1>2 DEF Patched, ReleaseObjects
<1>5. ~api[cur].deleting /\ s.lastApplied.source # None =>
        /\ \E p \in Paths : s.lastApplied.render = Render[<<s.lastApplied.source, p>>]
        /\ s.inventory.entries = Entries(s.lastApplied.render)
  BY <1>1, <1>2, Zenon DEF Recorded
<1> HIDE DEF c, s
<1>6. /\ Good(new) /\ new.conditions = c /\ new.status = s
      /\ new.exists = api[cur].exists /\ new.spec = api[cur].spec
      /\ new.deleting = api[cur].deleting /\ new.finalizer = api[cur].finalizer
      /\ new.generation = api[cur].generation
  BY <1>1, <1>2, <1>3, Zenon DEF Good, ReleaseObjects
<1> HIDE DEF new
<1>7. Recorded(new)
  BY <1>5, <1>6, Zenon DEF Recorded
<1> QED BY <1>1, <1>4, <1>6, <1>7, Zenon DEF c, s

\* The status patch, which may send the conditions, the rest, both or nothing.
LEMMA PatchKeeps == ASSUME RInv, patchReleaseStatus PROVE RInv'
<1>1. /\ pc = "patch" /\ Working /\ cur \in Releases /\ UNCHANGED <<world, succeeded>>
      /\ succeeded' \in SUBSET Releases
  BY DEF patchReleaseStatus, RInv, WorkerOK, TypeOK, Working
<1>2. disturbed' \in Nat
  BY DisturbType, Zenon DEF patchReleaseStatus
<1>3. PICK sent \in SUBSET {"conditions", "status"}, failed \in BOOLEAN :
          Write(cur, Patched(sent)) /\ AfterPatch(failed)
  BY Zenon DEF patchReleaseStatus
<1> DEFINE new == Patched(sent)
<1>4. /\ Good(new) /\ Recorded(new) /\ new.exists = api[cur].exists
      /\ new.generation = api[cur].generation /\ new.spec = api[cur].spec
      /\ new.finalizer /\ new.deleting = api[cur].deleting
  BY <1>1, PatchedIs, Zenon
<1> HIDE DEF new
<1>5. Write(cur, new)
  BY <1>3, Zenon DEF new
<1>6. /\ api' = [api EXCEPT ![cur] = new] /\ queued' = queued
      /\ api \in [Releases -> ReleaseObjects] /\ new \in ReleaseObjects
  BY <1>4, <1>5, Zenon DEF Write, RInv, TypeOK, Good
<1>7. /\ api'[cur] = new /\ api' \in [Releases -> ReleaseObjects]
      /\ \A r \in Releases : r # cur => api'[r] = api[r]
  BY <1>1, <1>6
<1>8. ~new.exists => new = Gone
  <2>1. api[cur].exists
    BY <1>1, GoneGood, Zenon DEF RInv, ServerOK, WorkerOK
  <2> QED BY <1>4, <2>1, Zenon
<1>9. CASE cont = "orphan"
  <2>1. /\ pc' = "removeFinalizer" /\ timers' = timers
        /\ UNCHANGED <<cur, rel, artifact, package, todo, firstErr, cont>>
    BY <1>3, <1>9 DEF AfterPatch, locals
  <2>2. rel.deleting /\ rel.orphan /\ Good(rel) /\ Recorded(rel) /\ rel.exists
    BY <1>1, <1>9, Zenon DEF RInv, RequeueOK, DeletionOK, WorkerOK
  <2>3. TypeOK'
    BY <1>1, <1>2, <1>6, <1>7, <2>1, Zenon DEF RInv, TypeOK, world
  <2>4. ServerOK'
    BY <1>1, <1>4, <1>7, <1>8, Zenon DEF RInv, ServerOK, world
  <2>5. WorkerOK'
    BY <1>1, <1>4, <1>7, <2>1, <2>2, Zenon DEF RInv, WorkerOK, Working, Good, Recorded
  <2>6. PhasesOK' /\ DeletionOK'
    BY <2>1, <2>2, Zenon DEF PhasesOK, DeletionOK
  <2>7. RequeueOK'
    BY <1>4, <1>6, <1>7, <2>1 DEF RInv, RequeueOK, Attended
  <2> QED BY <2>3, <2>4, <2>5, <2>6, <2>7, Zenon DEF RInv
<1>10. CASE cont # "orphan"
  <2>1. Return(cont = "retry" \/ (failed /\ cont = "suspend")) /\ Forget
    BY <1>3, <1>10, Zenon DEF AfterPatch, Return
  <2>2. /\ timers \subseteq timers' /\ timers' \in SUBSET Releases
        /\ cont = "retry" => cur \in timers'
    BY <1>1, <2>1 DEF Return, RInv, TypeOK
  <2>3. new.exists /\ ~new.spec.suspend => cur \in queued \cup timers'
    BY <1>1, <1>4, <1>10, <2>2, Zenon DEF RInv, RequeueOK
  <2> QED BY <1>1, <1>2, <1>4, <1>5, <1>8, <2>1, <2>2, <2>3, EndKeeps, Zenon
<1> QED BY <1>9, <1>10, Zenon

-----------------------------------------------------------------------------
(* Users, sources, the clock and the operator's restart. *)

\* A write of a user that respects the release.
LEMMA UserKeeps ==
    ASSUME RInv, NEW r \in Releases, NEW new, Write(r, new),
           UNCHANGED <<world, timers, noWorker>>, disturbed' \in Nat,
           Good(new), Recorded(new), ~new.exists => new = Gone,
           ~new.finalizer => ~new.deleting /\ new.status = NoStatus,
           api[r].finalizer =>
              new.finalizer /\ new.status = api[r].status /\ (api[r].deleting => new.deleting),
           \/ new.spec = api[r].spec /\ api[r].exists = new.exists
           \/ api[r].exists # new.exists
           \/ api[r].generation # new.generation
    PROVE  RInv'
<1>1. /\ api' = [api EXCEPT ![r] = new] /\ api \in [Releases -> ReleaseObjects]
      /\ queued \subseteq queued' /\ queued' \in SUBSET Releases
      /\ r \in queued' \/ (new.spec = api[r].spec /\ api[r].exists = new.exists)
  BY Zenon DEF Write, RInv, TypeOK
<1>2. /\ api'[r] = new /\ api' \in [Releases -> ReleaseObjects]
      /\ \A x \in Releases : x # r => api'[x] = api[x]
  BY <1>1 DEF Good
<1>3. Respected(r)
  BY <1>1, <1>2, Zenon DEF Respected
<1>4. \A x \in Releases : Respected(x)
  BY <1>2, <1>3, UntouchedRespected
<1>5. /\ sources' \in [Sources -> [exists : BOOLEAN, ready : BOOLEAN, published : Nat]]
      /\ \A s \in Sources : sources'[s].published <= Len(Publications[s])
      /\ accounts' \in SUBSET ServiceAccounts /\ live' = live
      /\ timers' \in SUBSET Releases /\ timers \subseteq queued' \cup timers'
      /\ UNCHANGED noWorker
  BY Zenon DEF RInv, TypeOK, ServerOK, world
<1> QED BY <1>1, <1>2, <1>4, <1>5, OutsideKeeps, Zenon

\* Users create, edit, delete and annotate releases at any time.
LEMMA UsersKeep == ASSUME RInv, Users PROVE RInv'
<1>1. PICK r \in Releases :
        \/ UserDeletes(r) \/ UserAnnotates(r)
        \/ \E spec \in Specs[r] : UserCreates(r, spec) \/ UserEdits(r, spec)
  BY Zenon DEF Users
<1>2. /\ Good(api[r]) /\ Recorded(api[r]) /\ api[r] \in ReleaseObjects
      /\ ~api[r].exists => api[r] = Gone
      /\ ~api[r].finalizer => ~api[r].deleting /\ api[r].status = NoStatus
      /\ \A spec \in Specs[r] : spec \in SpecSet
  BY Assumptions, Zenon DEF RInv, ServerOK, Good
<1>3. disturbed' \in Nat
  BY <1>1, DisturbType, Zenon DEF UserDeletes, UserAnnotates, UserCreates, UserEdits
<1>4. UNCHANGED <<world, timers, noWorker>>
  BY <1>1, Zenon DEF UserDeletes, UserAnnotates, UserCreates, UserEdits
<1>5. CASE UserAnnotates(r)
  <2> DEFINE new == [api[r] EXCEPT !.orphan = TRUE]
  <2>1. Write(r, new) /\ api[r].deleting
    BY <1>5 DEF UserAnnotates
  <2>2. /\ new \in ReleaseObjects /\ new.exists = api[r].exists /\ new.spec = api[r].spec
        /\ new.deleting = api[r].deleting /\ new.finalizer = api[r].finalizer
        /\ new.status = api[r].status
    BY <1>2, Zenon DEF ReleaseObjects
  <2> HIDE DEF new
  <2>3. Good(new) /\ Recorded(new)
    BY <1>2, <2>2, Zenon DEF Good, Recorded
  <2>4. api[r].exists
    BY <1>2, <2>1, GoneGood, Zenon
  <2> QED BY <1>2, <1>3, <1>4, <2>1, <2>2, <2>3, <2>4, UserKeeps, Zenon
<1>6. ASSUME NEW spec \in Specs[r], UserCreates(r, spec)
      PROVE  RInv'
  <2> DEFINE new == Created(spec)
  <2>1. Write(r, new) /\ ~api[r].exists
    BY <1>6 DEF UserCreates
  <2>2. /\ Good(new) /\ Recorded(new) /\ new.exists /\ ~new.finalizer /\ ~new.deleting
        /\ new.status = NoStatus
    BY <1>2, CreatedGood, Zenon
  <2> HIDE DEF new
  <2>3. ~api[r].finalizer
    BY <1>2, <2>1, GoneGood, Zenon
  <2> QED BY <1>3, <1>4, <2>1, <2>2, <2>3, UserKeeps, Zenon
<1>7. ASSUME NEW spec \in Specs[r], UserEdits(r, spec)
      PROVE  RInv'
  <2> DEFINE new == [api[r] EXCEPT !.spec = spec, !.generation = @ + 1]
  <2>1. Write(r, new) /\ api[r].exists
    BY <1>7 DEF UserEdits
  <2>2. /\ new \in ReleaseObjects /\ new.exists = api[r].exists /\ new.spec = spec
        /\ new.deleting = api[r].deleting /\ new.finalizer = api[r].finalizer
        /\ new.status = api[r].status /\ new.generation # api[r].generation
        /\ spec \in SpecSet
    <3>1. spec \in SpecSet /\ api[r].generation \in Nat
      BY <1>2, Zenon DEF ReleaseObjects
    <3> DEFINE g == api[r].generation + 1
    <3>2. new = [api[r] EXCEPT !.spec = spec, !.generation = g]
      OBVIOUS
    <3>3. g \in Nat /\ g # api[r].generation
      BY <3>1
    <3> HIDE DEF g, new
    <3> QED BY <1>2, <3>1, <3>2, <3>3, Zenon DEF ReleaseObjects
  <2> HIDE DEF new
  <2>3. Good(new) /\ Recorded(new)
    BY <1>2, <2>2, Zenon DEF Good, Recorded
  <2> QED BY <1>2, <1>3, <1>4, <2>1, <2>2, <2>3, UserKeeps, Zenon
<1>8. CASE UserDeletes(r)
  <2>1. api[r].exists
    BY <1>8 DEF UserDeletes
  <2>2. CASE ~api[r].finalizer
    <3>1. Write(r, Gone)
      BY <1>8, <2>2 DEF UserDeletes
    <3> QED BY <1>3, <1>4, <2>1, <2>2, <3>1, GoneGood, UserKeeps, Zenon
  <2>3. CASE api[r].finalizer
    <3> DEFINE new == [api[r] EXCEPT !.deleting = TRUE, !.generation = @ + 1]
    <3>1. Write(r, new)
      BY <1>8, <2>3 DEF UserDeletes
    <3>2. /\ new \in ReleaseObjects /\ new.exists = api[r].exists
          /\ new.spec = api[r].spec /\ new.deleting /\ new.finalizer = api[r].finalizer
          /\ new.status = api[r].status
      <4> DEFINE g == api[r].generation + 1
      <4>0. api[r].generation \in Nat
        BY <1>2, Zenon DEF ReleaseObjects
      <4>1. g \in Nat
        BY <4>0
      <4>2. new = [api[r] EXCEPT !.deleting = TRUE, !.generation = g]
        OBVIOUS
      <4> HIDE DEF g, new
      <4> QED BY <1>2, <4>1, <4>2, Zenon DEF ReleaseObjects
    <3> HIDE DEF new
    <3>3. Good(new) /\ Recorded(new)
      BY <1>2, <3>2, Zenon DEF Good, Recorded
    <3> QED BY <1>3, <1>4, <2>1, <2>3, <3>1, <3>2, <3>3, UserKeeps, Zenon
  <2> QED BY <2>2, <2>3
<1> QED BY <1>1, <1>5, <1>6, <1>7, <1>8, Zenon

\* A delayed requeue becomes due.
LEMMA TimerKeeps == ASSUME RInv, NEW r \in Releases, TimerFires(r) PROVE RInv'
<1>1. /\ UNCHANGED noWorker /\ UNCHANGED <<api, sources, live, accounts, disturbed>>
      /\ timers' = timers \ {r} /\ queued' = queued \cup {r}
  BY Zenon DEF TimerFires, world
<1>2. \A x \in Releases : Respected(x)
  BY <1>1, UntouchedRespected, Zenon
<1>3. /\ api' \in [Releases -> ReleaseObjects]
      /\ sources' \in [Sources -> [exists : BOOLEAN, ready : BOOLEAN, published : Nat]]
      /\ \A s \in Sources : sources'[s].published <= Len(Publications[s])
      /\ accounts' \in SUBSET ServiceAccounts
      /\ queued' \in SUBSET Releases /\ timers' \in SUBSET Releases
      /\ queued \subseteq queued' /\ timers \subseteq queued' \cup timers'
      /\ disturbed' \in Nat
  BY <1>1, Zenon DEF RInv, TypeOK, ServerOK
<1> QED BY <1>1, <1>2, <1>3, OutsideKeeps

\* The sources publish, fail and recover at any time.
LEMMA SourcesKeep ==
    ASSUME RInv, NEW s \in Sources, SourcePublishes(s) \/ SourceFails(s) \/ SourceRecovers(s)
    PROVE  RInv'
<1>1. UNCHANGED noWorker /\ UNCHANGED <<api, live, accounts, timers>>
  BY DEF SourcePublishes, SourceFails, SourceRecovers, queue
<1>2. queued \subseteq queued' /\ queued' \in SUBSET Releases
  <2>1. mapSourceToReleases(s) \subseteq Releases /\ queued \in SUBSET Releases
    BY DEF mapSourceToReleases, RInv, TypeOK
  <2> QED BY <2>1, Zenon DEF SourcePublishes, SourceFails, SourceRecovers, queue
<1>3. disturbed' \in Nat
  BY DisturbType DEF SourcePublishes, SourceFails, SourceRecovers
<1>4. /\ sources' \in [Sources -> [exists : BOOLEAN, ready : BOOLEAN, published : Nat]]
      /\ \A x \in Sources : sources'[x].published <= Len(Publications[x])
  <2>1. /\ sources \in [Sources -> [exists : BOOLEAN, ready : BOOLEAN, published : Nat]]
        /\ \A x \in Sources : sources[x].published <= Len(Publications[x])
        /\ \A x \in Sources : Len(Publications[x]) \in Nat
    <3>1. \A x \in Sources : Len(Publications[x]) \in Nat
      BY Assumptions
    <3> QED BY <3>1, Zenon DEF RInv, TypeOK, ServerOK
  <2>2. CASE SourcePublishes(s)
    <3> DEFINE n == sources[s].published + 1
               v == [sources[s] EXCEPT !.published = n, !.ready = TRUE]
    <3>1. n \in Nat /\ n <= Len(Publications[s])
      BY <2>1, <2>2 DEF SourcePublishes
    <3>2. sources' = [sources EXCEPT ![s] = v]
      BY <2>1, <2>2, Zenon DEF SourcePublishes
    <3> HIDE DEF n
    <3>3. v \in [exists : BOOLEAN, ready : BOOLEAN, published : Nat] /\ v.published = n
      BY <2>1, <3>1, Zenon
    <3> HIDE DEF v
    <3> QED BY <2>1, <3>1, <3>2, <3>3, Zenon
  <2>3. CASE sources' = [sources EXCEPT ![s].ready = FALSE]
    BY <2>1, <2>3, Zenon
  <2>4. CASE sources' = [sources EXCEPT ![s].ready = FALSE, ![s].exists = FALSE]
    BY <2>1, <2>4, Zenon
  <2>5. CASE sources' = [sources EXCEPT ![s].ready = TRUE, ![s].exists = TRUE]
    BY <2>1, <2>5, Zenon
  <2> QED BY <2>2, <2>3, <2>4, <2>5, Zenon DEF SourceFails, SourceRecovers
<1>5. \A x \in Releases : Respected(x)
  BY <1>1, UntouchedRespected, Zenon
<1>6. /\ api' \in [Releases -> ReleaseObjects] /\ accounts' \in SUBSET ServiceAccounts
      /\ timers' \in SUBSET Releases /\ timers \subseteq queued' \cup timers'
  BY <1>1, Zenon DEF RInv, TypeOK
<1> QED BY <1>1, <1>2, <1>3, <1>4, <1>5, <1>6, OutsideKeeps

\* Service accounts come and go.
LEMMA AccountsKeep == ASSUME RInv, ServiceAccountChanges PROVE RInv'
<1>1. /\ UNCHANGED noWorker /\ UNCHANGED <<api, sources, live, queued, timers>>
      /\ accounts' \in SUBSET ServiceAccounts
  BY DEF ServiceAccountChanges, queue
<1>2. disturbed' \in Nat
  BY DisturbType DEF ServiceAccountChanges
<1>3. \A x \in Releases : Respected(x)
  BY <1>1, UntouchedRespected, Zenon
<1>4. /\ api' \in [Releases -> ReleaseObjects]
      /\ sources' \in [Sources -> [exists : BOOLEAN, ready : BOOLEAN, published : Nat]]
      /\ \A s \in Sources : sources'[s].published <= Len(Publications[s])
      /\ queued' \in SUBSET Releases /\ timers' \in SUBSET Releases
      /\ queued \subseteq queued' /\ timers \subseteq queued' \cup timers'
  BY <1>1, Zenon DEF RInv, TypeOK, ServerOK
<1> QED BY <1>1, <1>2, <1>3, <1>4, OutsideKeeps, Zenon

\* The operator restarts.
LEMMA CrashKeeps == ASSUME RInv, Crash PROVE RInv'
<1>1. /\ Forget /\ UNCHANGED <<api, sources, live, accounts, succeeded>>
      /\ queued' = {r \in Releases : api[r].exists} /\ timers' = {}
  BY DEF Crash, world
<1>2. disturbed' \in Nat
  BY DisturbType DEF Crash
<1>3. ServerOK' /\ Attended'
  BY <1>1, Zenon DEF RInv, ServerOK, Attended, Good, Recorded
<1>4. /\ api' \in [Releases -> ReleaseObjects]
      /\ sources' \in [Sources -> [exists : BOOLEAN, ready : BOOLEAN, published : Nat]]
      /\ live' \in [Objects -> {Absent} \cup LiveObjects]
      /\ accounts' \in SUBSET ServiceAccounts
      /\ queued' \in SUBSET Releases /\ timers' \in SUBSET Releases
      /\ succeeded' \in SUBSET Releases
  BY <1>1, Zenon DEF RInv, TypeOK
<1> QED BY <1>1, <1>2, <1>3, <1>4, ForgetKeeps, Zenon

-----------------------------------------------------------------------------
(* The invariant. *)

\* Every step of the worker.
LEMMA StepKeeps == ASSUME RInv, Step PROVE RInv'
BY AddFinalizerKeeps, RemoveFinalizerKeeps, ResolveKeeps, FetchKeeps, RenderKeeps,
   ClientKeeps, ImpersonationKeeps, ApplyKeeps, ApplyFailsKeeps, ApplySucceedsKeeps,
   PruneKeeps, PruneReturnsKeeps, PruneForDeletionKeeps, PatchKeeps
   DEF Step

\* A step that changes nothing.
LEMMA StutterKeeps == ASSUME RInv, UNCHANGED vars PROVE RInv'
<1>1. UNCHANGED <<api, sources, live, accounts, queued, timers, pc, cur, rel, artifact,
                  package, todo, firstErr, cont, disturbed, succeeded>>
  BY Zenon DEF vars, world, queue, locals
<1>2. TypeOK'
  BY <1>1, Zenon DEF RInv, TypeOK
<1>3. ServerOK'
  BY <1>1, Zenon DEF RInv, ServerOK
<1>4. WorkerOK'
  BY <1>1, Zenon DEF RInv, WorkerOK, Working
<1>5. PhasesOK'
  BY <1>1 DEF RInv, PhasesOK, Desired
<1>6. DeletionOK'
  BY <1>1, Zenon DEF RInv, DeletionOK, Working, PruneSkips
<1>7. RequeueOK'
  BY <1>1 DEF RInv, RequeueOK, Attended
<1> QED BY <1>2, <1>3, <1>4, <1>5, <1>6, <1>7, Zenon DEF RInv

\* RInv is inductive.
LEMMA NextRInv == ASSUME RInv, [Next]_vars PROVE RInv'
<1>1. CASE \E r \in Releases : Take(r) \/ TimerFires(r)
  BY <1>1, TakesKeep, TimerKeeps
<1>2. CASE Step
  BY <1>2, StepKeeps
<1>3. CASE Users
  BY <1>3, UsersKeep, Zenon
<1>4. CASE World
  BY <1>4, CrashKeeps, AccountsKeep, SourcesKeep DEF World
<1>5. CASE UNCHANGED vars
  BY <1>5, StutterKeeps
<1> QED BY <1>1, <1>2, <1>3, <1>4, <1>5 DEF Next

\* RInv holds in every state of the Release controller.
LEMMA RInvInvariant == Spec => []RInv
BY InitRInv, NextRInv, PTL DEF Spec

\* Every variable of the Release controller stays within its type, whatever
\* fails (ReconcileRelease and everything it calls).
THEOREM ReleaseTypes == Spec => []TypeOK
<1>1. RInv => TypeOK
  BY DEF RInv
<1> QED BY <1>1, RInvInvariant, PTL

\* What a release records as applied is one render of the artifact whose digest
\* it names, and its inventory is that render: for every source, artifact and
\* path, also when the source publishes between the phases (fetchReleaseArtifact
\* and the deferred commit).
THEOREM RecordedIsApplied == Spec => []InventoryMatchesArtifact
<1>1. RInv => InventoryMatchesArtifact
  BY Zenon DEF RInv, ServerOK, Recorded, InventoryMatchesArtifact
<1> QED BY <1>1, RInvInvariant, PTL

\* No release that is not suspended is ever forgotten: it is queued, scheduled
\* or being reconciled, under lost events, failed status patches, edits in the
\* middle of a reconcile, and restarts (the results of ReconcileRelease).
THEOREM NobodyForgotten == Spec => []Attended
<1>1. RInv => Attended
  BY DEF RInv, RequeueOK
<1> QED BY <1>1, RInvInvariant, PTL

\* The finalizer of a pruning release goes only when every entry of its inventory
\* is gone, protected or not OPM's, or when the operator asked to orphan it
\* (handleReleaseDeletion).
THEOREM FinalizerGoesLast == Spec => FinalizerGuardsInventory
<1> DEFINE Guarded == \A r \in Releases :
                         /\ api[r].finalizer /\ ~api'[r].finalizer
                         /\ rel.spec.prune /\ ~rel.orphan
                         => \A e \in api[r].status.inventory.entries : PruneSkips(e)
<1>1. ASSUME RInv, [Next]_vars PROVE [Guarded]_vars
  <2> SUFFICES ASSUME Next, NEW r \in Releases, api[r].finalizer, ~api'[r].finalizer,
                      rel.spec.prune, ~rel.orphan
               PROVE  \A e \in api[r].status.inventory.entries : PruneSkips(e)
    BY <1>1, Zenon
  <2>1. api' # api
    OBVIOUS
  <2>2. /\ api \in [Releases -> ReleaseObjects] /\ cur \in {None} \cup Releases
        /\ pc # "idle" => cur \in Releases
    BY <1>1, Zenon DEF RInv, TypeOK, WorkerOK
  <2>3. CASE removeReleaseFinalizer
    <3>1. pc = "removeFinalizer" /\ rel.deleting /\ api' = [api EXCEPT ![cur] = Gone]
      BY <1>1, <2>1, <2>3, Zenon DEF removeReleaseFinalizer, NoWrite, Write, RInv, WorkerOK
    <3>2. r = cur
      BY <2>2, <3>1, Zenon
    <3> QED BY <1>1, <3>1, <3>2, Zenon DEF RInv, DeletionOK, Working
  <2>4. CASE patchReleaseStatus
    <3>1. PICK sent : pc = "patch" /\ api' = [api EXCEPT ![cur] = Patched(sent)]
      BY <2>4, Zenon DEF patchReleaseStatus, Write
    <3>2. api[cur] \in ReleaseObjects /\ cur \in Releases
      BY <2>2, <3>1
    <3>3. Patched(sent).finalizer = api[cur].finalizer
      BY <3>2, Zenon DEF Patched, ReleaseObjects
    <3>4. api'[r].finalizer
      BY <2>2, <3>1, <3>2, <3>3
    <3> QED BY <3>4
  <2>5. CASE addReleaseFinalizer
    <3>1. api' = [api EXCEPT ![cur] = [api[cur] EXCEPT !.finalizer = TRUE]]
      BY <2>1, <2>5 DEF addReleaseFinalizer, NoWrite, Write
    <3>2. api'[r].finalizer
      BY <2>2, <3>1, Zenon DEF ReleaseObjects
    <3> QED BY <3>2
  <2>6. CASE Users
    <3>1. PICK x \in Releases :
            \/ UserDeletes(x) \/ UserAnnotates(x)
            \/ \E spec \in Specs[x] : UserCreates(x, spec) \/ UserEdits(x, spec)
      BY <2>6, Zenon DEF Users
    <3>2. x # r => api'[r] = api[r]
      BY <2>2, <3>1, Zenon DEF UserDeletes, UserAnnotates, UserCreates, UserEdits, Write
    <3>3. api[r].exists
      BY <1>1, GoneGood, Zenon DEF RInv, ServerOK
    <3>4. ASSUME x = r PROVE api'[r].finalizer
      <4>1. api[r] \in ReleaseObjects
        BY <2>2
      <4>2. CASE UserDeletes(r)
        BY <2>2, <4>1, <4>2 DEF UserDeletes, Write, ReleaseObjects
      <4>3. CASE UserAnnotates(r)
        BY <2>2, <4>1, <4>3 DEF UserAnnotates, Write, ReleaseObjects
      <4>4. CASE \E spec \in Specs[r] : UserEdits(r, spec)
        BY <2>2, <4>1, <4>4 DEF UserEdits, Write, ReleaseObjects
      <4> QED BY <3>1, <3>3, <3>4, <4>2, <4>3, <4>4, Zenon DEF UserCreates
    <3> QED BY <3>2, <3>4
  <2>7. CASE World \/ \E x \in Releases : Take(x) \/ TimerFires(x)
    BY <2>1, <2>7, Zenon DEF World, Crash, ServiceAccountChanges, SourcePublishes, SourceFails,
       SourceRecovers, TimerFires, Take, ReconcileGone, ReconcileNoFinalizer,
       handleReleaseDeletion, ReconcileSuspended, ReconcileWaits, ReconcileStarts, Dequeue
  <2>8. CASE Step /\ ~addReleaseFinalizer /\ ~removeReleaseFinalizer /\ ~patchReleaseStatus
    BY <2>1, <2>8, Zenon DEF Step, resolveReleaseSource, fetchReleaseArtifact, renderReleasePackage,
       RenderFails, RenderPanics, buildReleaseApplyClient, ImpersonationFails, ApplyResource,
       ApplyFails, ApplySucceeds, CommitSuccess, PruneEntry, PruneReturns, pruneForDeletion,
       NoEffect
  <2> QED BY <2>3, <2>4, <2>5, <2>6, <2>7, <2>8, Zenon DEF Next
<1> QED BY <1>1, RInvInvariant, PTL DEF Spec, FinalizerGuardsInventory

-----------------------------------------------------------------------------
(* checkDependsOn: a release touches the cluster only after the releases it *)
(* depends on have been applied in full (unless a render panics: the        *)
(* deferred commit then reports Ready).                                     *)

\* A copy reports Ready, or records what was applied.
Shows(m) == m.conditions.ready = "True" \/ m.status.lastApplied.source # None

\* The phases in front of and within the apply and the prune.
PhasePcs == {"resolve", "fetch", "render", "impersonate", "apply", "prune"}

\* A release that reports Ready, or that records what it has applied, has
\* succeeded, and so has whatever the release at hand depends on.
DependsOK ==
    /\ \A r \in Releases : Shows(api[r]) => r \in succeeded
    /\ Working /\ Shows(rel) => cur \in succeeded
    /\ pc \in PhasePcs /\ ~rel.deleting => rel.spec.dependsOn \subseteq succeeded

-----------------------------------------------------------------------------
(* The shapes of the steps. *)

\* A step that takes no success back.
LEMMA OrderStep ==
    ASSUME DependsOK, succeeded \subseteq succeeded',
           \A r \in Releases : Shows(api'[r]) => Shows(api[r]) \/ r \in succeeded',
           Working' /\ Shows(rel') => cur' \in succeeded',
           pc' \in PhasePcs /\ ~rel'.deleting => rel'.spec.dependsOn \subseteq succeeded'
    PROVE  DependsOK'
BY Zenon DEF DependsOK, Shows

\* What the phases mark the conditions with is not Ready.
LEMMA MarkedNotReady ==
    ASSUME NEW c \in Conditions, NEW reason
    PROVE  /\ MarkStalled(c, reason).ready = "False"
           /\ MarkNotReady(c, reason).ready = "False"
           /\ MarkNotReady(ClearDrifted(c), reason).ready = "False"
           /\ MarkReconciling(c).ready = "Unknown"
           /\ MarkSuspended(c).ready = "False"
BY DEF MarkStalled, MarkNotReady, ClearDrifted, MarkReconciling, MarkSuspended, Conditions

\* A commit that is not a success records no new apply.
LEMMA CommitShows ==
    ASSUME RInv, NEW c, NEW result, Commit(c, result)
    PROVE  /\ pc' = "patch" /\ cur' = cur
           /\ rel'.conditions = (IF result.outcome = "NoOp" THEN MarkReady(c) ELSE c)
           /\ result.outcome \notin {"Applied", "AppliedAndPruned"} =>
                rel'.status.lastApplied = rel.status.lastApplied
<1> DEFINE ready == IF result.outcome = "NoOp" THEN MarkReady(c) ELSE c
           s == CommitStatus(rel.status, result)
<1>1. rel \in ReleaseObjects /\ rel.status \in Statuses
  BY DEF RInv, TypeOK, ReleaseObjects
<1>2. /\ rel' = [rel EXCEPT !.conditions = ready, !.status = s]
      /\ pc' = "patch" /\ cur' = cur
  BY DEF Commit
<1>3. result.outcome \notin {"Applied", "AppliedAndPruned"} =>
        s.lastApplied = rel.status.lastApplied
  BY <1>1 DEF CommitStatus, Statuses
<1> HIDE DEF s, ready
<1>4. rel'.conditions = ready /\ rel'.status = s
  BY <1>1, <1>2, Zenon DEF ReleaseObjects
<1> QED BY <1>2, <1>3, <1>4, Zenon DEF ready

\* A reconcile that fails.
LEMMA FailureOrder ==
    ASSUME RInv, DependsOK, Working, NEW c, c.ready # "True", NEW result,
           result.outcome \in {"FailedTransient", "FailedStalled"},
           Commit(c, result), UNCHANGED <<api, succeeded>>
    PROVE  DependsOK'
<1>1. /\ pc' = "patch" /\ cur' = cur /\ rel'.conditions = c
      /\ rel'.status.lastApplied = rel.status.lastApplied
  BY CommitShows, Zenon
<1> QED BY <1>1, Zenon DEF DependsOK, Shows, PhasePcs, Working

\* The worker goes on with the same release, of which it has learnt nothing that
\* matters here.
LEMMA GoesOnOrder ==
    ASSUME DependsOK, UNCHANGED <<api, cur, succeeded>>, pc \in PhasePcs,
           Shows(rel') => Shows(rel), rel'.spec = rel.spec, rel'.deleting = rel.deleting
    PROVE  DependsOK'
BY Zenon DEF DependsOK, PhasePcs, Working, Shows

\* The reconcile is over.
LEMMA EndOrder ==
    ASSUME DependsOK, pc' = "idle", succeeded' = succeeded,
           \A r \in Releases : Shows(api'[r]) => r \in succeeded
    PROVE  DependsOK'
BY Zenon DEF DependsOK, PhasePcs, Working, Shows

\* What a failing phase commits.
LEMMA FailureOutcomes ==
    /\ \A d : Stalls(d).outcome = "FailedStalled"
    /\ \A t, d : Fails("FailedTransient", t, d).outcome = "FailedTransient"
    /\ \A a, p : BacksOff(a, p).outcome = "FailedTransient"
BY DEF Stalls, Fails, BacksOff

-----------------------------------------------------------------------------
(* The steps. *)

\* Nothing has succeeded and nothing is Ready at first.
LEMMA InitOrder == Init => DependsOK
<1> SUFFICES ASSUME Init PROVE DependsOK
  OBVIOUS
<1>1. ASSUME NEW r \in Releases PROVE ~Shows(api[r])
  <2>1. \/ api[r] = Gone
        \/ \E spec \in SpecSet : api[r] = Created(spec)
    BY DEF Init
  <2>2. api[r].conditions.ready = "Unset" /\ api[r].status = NoStatus
    BY <2>1, GoneGood, CreatedGood, Zenon
  <2> QED BY <2>2, NewStatusType, Zenon DEF Shows
<1> QED BY <1>1, Zenon DEF Init, DependsOK, Working, PhasePcs

\* The worker takes a release: it starts only when checkDependsOn lets it.
LEMMA TakeOrder ==
    ASSUME RInv, DependsOK, NEW r \in Releases, Take(r)
    PROVE  DependsOK'
<1>1. Dequeue(r)
  BY Zenon DEF Take, ReconcileGone, ReconcileNoFinalizer, handleReleaseDeletion,
         ReconcileSuspended, ReconcileWaits, ReconcileStarts
<1>2. /\ UNCHANGED <<api, succeeded>> /\ Good(api[r]) /\ Recorded(api[r])
      /\ api[r].conditions \in Conditions /\ pc = "idle"
  BY <1>1, Found, Zenon
<1>3. Shows(api[r]) => r \in succeeded
  BY DEF DependsOK
<1>4. CASE ReconcileGone(r)
  BY <1>2, <1>4, Zenon DEF ReconcileGone, locals, DependsOK, Working, PhasePcs, Shows
<1>5. CASE ReconcileNoFinalizer(r)
  BY <1>2, <1>5, Zenon DEF ReconcileNoFinalizer, Load, DependsOK, Working, PhasePcs, Shows
<1>6. CASE handleReleaseDeletion(r)
  BY <1>2, <1>3, <1>6, Zenon DEF handleReleaseDeletion, DependsOK, Working, PhasePcs, Shows
<1>7. CASE ReconcileSuspended(r)
  <2> DEFINE c == MarkSuspended(api[r].conditions)
  <2>1. c \in Conditions /\ c.ready # "True"
    BY <1>2, MarkedNotReady, MarkTypes, Zenon DEF Reasons
  <2>2. /\ rel' = [api[r] EXCEPT !.conditions = c,
                                 !.status.observedGeneration = api[r].generation]
        /\ cur' = r /\ pc' = "patch"
    BY <1>2, <1>7, Zenon DEF ReconcileSuspended, Load, Good, ReleaseObjects
  <2> HIDE DEF c
  <2>3. Copies(api[r], c, [api[r] EXCEPT !.conditions = c,
                                 !.status.observedGeneration = api[r].generation])
    BY <1>2, <2>1, MarkedGood, Zenon
  <2>4. rel'.conditions = c /\ rel'.status.lastApplied = api[r].status.lastApplied
    BY <2>2, <2>3 DEF Copies
  <2> QED BY <1>2, <1>3, <2>1, <2>2, <2>4 DEF DependsOK, Working, PhasePcs, Shows
<1>8. CASE ReconcileWaits(r)
  <2> DEFINE c == MarkNotReady(api[r].conditions, "DependenciesNotReady")
  <2>1. c \in Conditions /\ c.ready # "True"
    BY <1>2, MarkedNotReady, MarkTypes, Zenon DEF Reasons
  <2>2. /\ rel' = [api[r] EXCEPT !.conditions = c,
                                 !.status.observedGeneration = api[r].generation]
        /\ cur' = r /\ pc' = "patch"
    BY <1>2, <1>8, Zenon DEF ReconcileWaits, Load, Good, ReleaseObjects
  <2> HIDE DEF c
  <2>3. Copies(api[r], c, [api[r] EXCEPT !.conditions = c,
                                 !.status.observedGeneration = api[r].generation])
    BY <1>2, <2>1, MarkedGood, Zenon
  <2>4. rel'.conditions = c /\ rel'.status.lastApplied = api[r].status.lastApplied
    BY <2>2, <2>3 DEF Copies
  <2> QED BY <1>2, <1>3, <2>1, <2>2, <2>4 DEF DependsOK, Working, PhasePcs, Shows
<1>9. CASE ReconcileStarts(r)
  <2> DEFINE c == MarkReconciling(api[r].conditions)
  <2>1. c \in Conditions /\ c.ready # "True"
    BY <1>2, MarkedNotReady, MarkTypes, Zenon DEF Reasons
  <2>2. rel' = [api[r] EXCEPT !.conditions = c] /\ cur' = r /\ pc' = "resolve"
    BY <1>2, <1>9, Zenon DEF ReconcileStarts, Load, Good, ReleaseObjects
  <2> HIDE DEF c
  <2>3. Copies(api[r], c, [api[r] EXCEPT !.conditions = c])
    BY <1>2, <2>1, MarkedGood, Zenon
  <2>4. /\ rel'.conditions = c /\ rel'.status.lastApplied = api[r].status.lastApplied
        /\ rel'.spec = api[r].spec
    BY <2>2, <2>3 DEF Copies
  <2>5. api[r].spec \in SpecSet
    BY <1>2, <1>9, Zenon DEF Good, ReconcileStarts, Active
  <2>6. api[r].spec.dependsOn \subseteq Releases
    BY <2>5, Zenon DEF SpecSet
  <2>7. api[r].spec.dependsOn \subseteq succeeded
    BY <1>9, <2>6 DEF ReconcileStarts, checkDependsOn, DependsOK, Shows
  <2> QED BY <1>2, <1>3, <2>1, <2>2, <2>4, <2>7 DEF DependsOK, Working, Shows
<1> QED BY <1>4, <1>5, <1>6, <1>7, <1>8, <1>9 DEF Take

\* Resolving, fetching and rendering.
LEMMA PhasesOrder ==
    ASSUME RInv, DependsOK, "panic" \notin Disturbances,
           \/ resolveReleaseSource \/ fetchReleaseArtifact
           \/ renderReleasePackage \/ RenderFails \/ RenderPanics
    PROVE  DependsOK'
<1>1. /\ pc \in PhasePcs /\ Working /\ UNCHANGED <<api, succeeded>>
      /\ rel \in ReleaseObjects /\ rel.conditions \in Conditions /\ rel.status \in Statuses
  BY Zenon DEF resolveReleaseSource, fetchReleaseArtifact, renderReleasePackage, RenderFails,
         RenderPanics, NoEffect, PhasePcs, Working, RInv, TypeOK, ReleaseObjects
<1>2. ASSUME NEW c, c.ready # "True", NEW result, Commit(c, result),
             result.outcome \in {"FailedTransient", "FailedStalled"}
      PROVE  DependsOK'
  BY <1>1, <1>2, FailureOrder
<1>3. /\ \A reason, d : Commit(MarkStalled(rel.conditions, reason), Stalls(d)) => DependsOK'
      /\ \A reason, d, t : Commit(MarkNotReady(rel.conditions, reason),
                                  Fails("FailedTransient", t, d)) => DependsOK'
  BY <1>1, <1>2, MarkedNotReady, FailureOutcomes, Zenon
<1>4. CASE resolveReleaseSource
  <2>1. CASE rel' = [rel EXCEPT !.status.source = ArtifactOf(rel.spec.source)] /\ cur' = cur
    <3> DEFINE s == [rel.status EXCEPT !.source = ArtifactOf(rel.spec.source)]
    <3>1. s.lastApplied = rel.status.lastApplied
      BY <1>1 DEF Statuses
    <3>2. rel' = [rel EXCEPT !.status = s]
      BY <1>1, <2>1, Zenon DEF ReleaseObjects
    <3> HIDE DEF s
    <3>3. /\ rel'.spec = rel.spec /\ rel'.deleting = rel.deleting
          /\ rel'.conditions = rel.conditions /\ rel'.status = s
      BY <1>1, <3>2, Zenon DEF ReleaseObjects
    <3> QED BY <1>1, <2>1, <3>1, <3>3, GoesOnOrder DEF Shows
  <2> QED BY <1>3, <1>4, <2>1, Zenon DEF resolveReleaseSource
<1>5. CASE fetchReleaseArtifact
  <2>1. CASE UNCHANGED <<cur, rel>>
    BY <1>1, <2>1, GoesOnOrder
  <2> QED BY <1>3, <1>5, <2>1, Zenon DEF fetchReleaseArtifact
<1>6. CASE renderReleasePackage
  <2>1. CASE UNCHANGED <<cur, rel>>
    BY <1>1, <2>1, GoesOnOrder
  <2>2. CASE IsNoOpNow /\ Commit(rel.conditions, NoOpResult)
    <3>1. rel.status.lastApplied.source # None
      BY <2>2, Zenon DEF IsNoOpNow, IsNoOp
    <3>2. cur \in succeeded
      BY <1>1, <3>1, Zenon DEF DependsOK, Shows
    <3>3. pc' = "patch" /\ cur' = cur
      BY <2>2, CommitShows
    <3> QED BY <1>1, <3>2, <3>3, Zenon DEF DependsOK, PhasePcs, Shows
  <2> QED BY <1>6, <2>1, <2>2, Zenon DEF renderReleasePackage
<1>7. CASE RenderFails
  BY <1>3, <1>7, Zenon DEF RenderFails
<1>8. CASE RenderPanics
  BY <1>8 DEF RenderPanics, Disturb
<1> QED BY <1>4, <1>5, <1>6, <1>7, <1>8

\* The client, the apply and the prune.
LEMMA WorkOrder ==
    ASSUME RInv, DependsOK,
           \/ buildReleaseApplyClient \/ ImpersonationFails
           \/ (\E r \in todo : ApplyResource(r)) \/ ApplyFails \/ ApplySucceeds
           \/ (\E e \in todo : PruneEntry(e)) \/ PruneReturns
    PROVE  DependsOK'
<1>1. /\ pc \in PhasePcs /\ Working /\ UNCHANGED api
      /\ rel \in ReleaseObjects /\ rel.conditions \in Conditions /\ rel.status \in Statuses
  BY Zenon DEF buildReleaseApplyClient, ImpersonationFails, ApplyResource, ApplyFails,
         ApplySucceeds, CommitSuccess, PruneEntry, PruneReturns, NoEffect, PhasePcs,
         Working, RInv, TypeOK, ReleaseObjects
<1>2. /\ \A reason, d : Commit(MarkStalled(rel.conditions, reason), Stalls(d))
                        /\ succeeded' = succeeded => DependsOK'
      /\ \A reason, a, p : Commit(MarkNotReady(rel.conditions, reason), BacksOff(a, p))
                           /\ succeeded' = succeeded => DependsOK'
      /\ \A reason, a, p : Commit(MarkNotReady(ClearDrifted(rel.conditions), reason),
                                  BacksOff(a, p))
                           /\ succeeded' = succeeded => DependsOK'
  <2>1. ASSUME NEW c, c.ready # "True", NEW result, Commit(c, result), succeeded' = succeeded,
               result.outcome \in {"FailedTransient", "FailedStalled"}
        PROVE  DependsOK'
    BY <1>1, <2>1, FailureOrder, SMTT(30)
  <2> QED BY <1>1, <2>1, MarkedNotReady, FailureOutcomes, Zenon
<1>3. ASSUME UNCHANGED <<cur, rel, succeeded>> PROVE DependsOK'
  BY <1>1, <1>3, GoesOnOrder
<1>4. ASSUME NEW o, CommitSuccess(o) PROVE DependsOK'
  <2>1. /\ Commit(MarkReady(ClearDrifted(rel.conditions)), Succeeds(o))
        /\ succeeded' = succeeded \cup {cur}
    BY <1>4 DEF CommitSuccess
  <2>2. pc' = "patch" /\ cur' = cur
    BY <2>1, CommitShows, Zenon
  <2> QED BY <1>1, <2>1, <2>2, Zenon DEF DependsOK, PhasePcs, Shows
<1>5. ASSUME NEW reason, StallDeletion(reason), succeeded' = succeeded
      PROVE  DependsOK'
  <2> DEFINE c == MarkStalled(rel.conditions, reason)
  <2>1. c.ready # "True"
    BY <1>1, MarkedNotReady
  <2>2. rel' = [rel EXCEPT !.conditions = c] /\ pc' = "patch" /\ cur' = cur
    BY <1>5 DEF StallDeletion
  <2> HIDE DEF c
  <2>3. rel'.conditions = c /\ rel'.status = rel.status
    BY <1>1, <2>2, Zenon DEF ReleaseObjects
  <2> QED BY <1>1, <1>5, <2>1, <2>2, <2>3, Zenon DEF DependsOK, PhasePcs, Shows
<1>6. CASE ImpersonationFails
  <2>1. succeeded' = succeeded
    BY <1>6 DEF ImpersonationFails, NoEffect
  <2>2. CASE rel' = [rel EXCEPT !.status.inventory = NoInventory] /\ pc' = "patch" /\ cur' = cur
    <3> DEFINE s == [rel.status EXCEPT !.inventory = NoInventory]
    <3>1. s.lastApplied = rel.status.lastApplied
      BY <1>1 DEF Statuses
    <3>2. rel' = [rel EXCEPT !.status = s]
      BY <1>1, <2>2, Zenon DEF ReleaseObjects
    <3> HIDE DEF s
    <3>3. rel'.conditions = rel.conditions /\ rel'.status = s
      BY <1>1, <3>2, Zenon DEF ReleaseObjects
    <3> QED BY <1>1, <2>1, <2>2, <3>1, <3>3 DEF DependsOK, PhasePcs, Shows
  <2> QED BY <1>2, <1>5, <1>6, <2>1, <2>2, Zenon
          DEF ImpersonationFails, handleReleaseDeletionSAMissing
<1>7. CASE ~ImpersonationFails
  <2>1. \/ UNCHANGED <<cur, rel, succeeded>>
        \/ \E o : CommitSuccess(o)
        \/ ApplyFails
        \/ PruneReturns /\ NoEffect
           /\ Commit(MarkNotReady(ClearDrifted(rel.conditions), "PruneFailed"),
                     BacksOff("ok", "failed"))
    BY <1>7, Zenon DEF buildReleaseApplyClient, ApplyResource, ApplySucceeds, PruneEntry,
                PruneReturns, NoEffect
  <2>2. CASE ApplyFails
    BY <1>2, <2>2, Zenon DEF ApplyFails, NoEffect
  <2> QED BY <1>2, <1>3, <1>4, <2>1, <2>2, Zenon DEF NoEffect
<1> QED BY <1>6, <1>7

\* The end of a deletion's prune.
LEMMA DeletionOrder ==
    ASSUME RInv, DependsOK, pruneForDeletion
    PROVE  DependsOK'
<1>1. /\ pc = "prune" /\ UNCHANGED <<api, succeeded>>
      /\ rel \in ReleaseObjects /\ rel.conditions \in Conditions
  BY Zenon DEF pruneForDeletion, RInv, TypeOK, ReleaseObjects
<1>2. CASE pc' = "removeFinalizer" /\ UNCHANGED <<cur, rel>>
  BY <1>1, <1>2 DEF DependsOK, PhasePcs, Working, Shows
<1>3. CASE Return(TRUE)
  BY <1>1, <1>3, EndOrder, Zenon DEF Return, Forget, DependsOK
<1>4. CASE StallDeletion("ImpersonationFailed")
  <2> DEFINE c == MarkStalled(rel.conditions, "ImpersonationFailed")
  <2>1. c.ready # "True"
    BY <1>1, MarkedNotReady
  <2>2. rel' = [rel EXCEPT !.conditions = c] /\ pc' = "patch" /\ cur' = cur
    BY <1>4 DEF StallDeletion
  <2> HIDE DEF c
  <2>3. rel'.conditions = c /\ rel'.status = rel.status
    BY <1>1, <2>2, Zenon DEF ReleaseObjects
  <2> QED BY <1>1, <2>1, <2>2, <2>3, Zenon DEF DependsOK, PhasePcs, Shows, Working
<1> QED BY <1>2, <1>3, <1>4, Zenon DEF pruneForDeletion, locals

\* The worker's writes: a success is forgotten only with the release itself.
LEMMA WritesOrder ==
    ASSUME RInv, DependsOK,
           addReleaseFinalizer \/ removeReleaseFinalizer \/ patchReleaseStatus
    PROVE  DependsOK'
<1>1. /\ pc # "idle" /\ cur \in Releases /\ api \in [Releases -> ReleaseObjects]
      /\ api[cur] \in ReleaseObjects
  BY Zenon DEF addReleaseFinalizer, removeReleaseFinalizer, patchReleaseStatus, RInv, WorkerOK, TypeOK
<1>2. \A r \in Releases : Shows(api[r]) => r \in succeeded
  BY DEF DependsOK
<1>3. CASE addReleaseFinalizer
  <2>1. pc' = "idle" /\ succeeded' = succeeded
    BY <1>3 DEF addReleaseFinalizer, Return, Forget
  <2>2. CASE api' = api
    BY <1>2, <2>1, <2>2, EndOrder, Zenon
  <2>3. CASE api' = [api EXCEPT ![cur] = [api[cur] EXCEPT !.finalizer = TRUE]]
    <3>1. /\ api'[cur].conditions = api[cur].conditions
          /\ api'[cur].status = api[cur].status
      BY <1>1, <2>3, Zenon DEF ReleaseObjects
    <3>2. \A r \in Releases : r # cur => api'[r] = api[r]
      BY <1>1, <2>3, Zenon
    <3>3. \A r \in Releases : Shows(api'[r]) => Shows(api[r])
      BY <3>1, <3>2 DEF Shows
    <3> QED BY <1>2, <2>1, <3>3, EndOrder
  <2> QED BY <1>3, <2>2, <2>3, Zenon DEF addReleaseFinalizer, Write, NoWrite
<1>4. CASE removeReleaseFinalizer
  <2>1. pc' = "idle"
    BY <1>4 DEF removeReleaseFinalizer, Return, Forget
  <2>2. CASE api' = api /\ succeeded' = succeeded
    BY <1>2, <2>1, <2>2, EndOrder, Zenon
  <2>3. CASE api' = [api EXCEPT ![cur] = Gone] /\ succeeded' = succeeded \ {cur}
    <3>1. ~Shows(Gone)
      BY GoneGood, NewStatusType, Zenon DEF Shows
    <3>2. \A r \in Releases : Shows(api'[r]) => r # cur /\ Shows(api[r])
      BY <1>1, <2>3, <3>1
    <3> QED BY <1>2, <2>1, <2>3, <3>2, Zenon DEF DependsOK, Working, PhasePcs, Shows
  <2> QED BY <1>4, <2>2, <2>3, Zenon DEF removeReleaseFinalizer, Write, NoWrite
<1>5. CASE patchReleaseStatus
  <2>1. PICK sent, failed :
          pc = "patch" /\ Write(cur, Patched(sent)) /\ AfterPatch(failed)
    BY <1>5, Zenon DEF patchReleaseStatus
  <2>2. succeeded' = succeeded /\ api' = [api EXCEPT ![cur] = Patched(sent)]
    BY <1>5, <2>1, Zenon DEF patchReleaseStatus, Write
  <2>3. Shows(rel) => cur \in succeeded
    BY <2>1 DEF DependsOK, Working
  <2>4. /\ Patched(sent).status \in {rel.status, api[cur].status}
        /\ Patched(sent).conditions \in {rel.conditions, api[cur].conditions}
    BY <2>1, PatchedIs, Zenon
  <2>5. Shows(Patched(sent)) => cur \in succeeded
    BY <1>1, <1>2, <2>3, <2>4, Zenon DEF Shows
  <2>6. \A r \in Releases : Shows(api'[r]) => r \in succeeded
    BY <1>1, <1>2, <2>2, <2>5, Zenon
  <2>7. CASE pc' = "idle"
    BY <2>2, <2>6, <2>7, EndOrder, Zenon
  <2>8. CASE pc' = "removeFinalizer" /\ UNCHANGED <<cur, rel>>
    BY <2>2, <2>3, <2>6, <2>8, Zenon DEF DependsOK, PhasePcs, Shows
  <2> QED BY <2>1, <2>7, <2>8, Zenon DEF AfterPatch, Return, Forget, locals
<1> QED BY <1>3, <1>4, <1>5

\* Users change neither the status nor the conditions of a release.
LEMMA UsersOrder == ASSUME RInv, DependsOK, Users PROVE DependsOK'
<1>1. PICK r \in Releases :
        \/ UserDeletes(r) \/ UserAnnotates(r)
        \/ \E spec \in Specs[r] : UserCreates(r, spec) \/ UserEdits(r, spec)
  BY Zenon DEF Users
<1>2. api \in [Releases -> ReleaseObjects] /\ api[r] \in ReleaseObjects
  BY DEF RInv, TypeOK
<1>3. UNCHANGED noWorker
  BY <1>1, Zenon DEF UserDeletes, UserAnnotates, UserCreates, UserEdits
<1>4. ASSUME NEW new, api' = [api EXCEPT ![r] = new], Shows(new) => Shows(api[r])
      PROVE  DependsOK'
  <2>1. \A x \in Releases : Shows(api'[x]) => Shows(api[x])
    BY <1>2, <1>4, Zenon
  <2> QED BY <1>3, <2>1, Zenon DEF noWorker, locals, DependsOK, Working, Shows
<1>5. ~Shows(Gone)
  BY GoneGood, NewStatusType, Zenon DEF Shows
<1>6. CASE UserDeletes(r)
  <2> DEFINE new == [api[r] EXCEPT !.deleting = TRUE, !.generation = @ + 1]
  <2>1. new.conditions = api[r].conditions /\ new.status = api[r].status
    BY <1>2, Zenon DEF ReleaseObjects
  <2>2. api' = [api EXCEPT ![r] = new] \/ api' = [api EXCEPT ![r] = Gone]
    BY <1>6, Zenon DEF UserDeletes, Write
  <2> HIDE DEF new
  <2>3. Shows(new) => Shows(api[r])
    BY <2>1 DEF Shows
  <2> QED BY <1>4, <1>5, <2>2, <2>3, Zenon
<1>7. CASE UserAnnotates(r)
  <2> DEFINE new == [api[r] EXCEPT !.orphan = TRUE]
  <2>1. new.conditions = api[r].conditions /\ new.status = api[r].status
    BY <1>2, Zenon DEF ReleaseObjects
  <2>2. api' = [api EXCEPT ![r] = new]
    BY <1>7 DEF UserAnnotates, Write
  <2> HIDE DEF new
  <2>3. Shows(new) => Shows(api[r])
    BY <2>1 DEF Shows
  <2> QED BY <1>4, <2>2, <2>3, Zenon
<1>8. ASSUME NEW spec \in Specs[r], UserCreates(r, spec) PROVE DependsOK'
  <2>1. spec \in SpecSet
    BY Assumptions
  <2>2. ~Shows(Created(spec))
    BY <2>1, CreatedGood, NewStatusType, Zenon DEF Shows
  <2> QED BY <1>4, <1>8, <2>2, Zenon DEF UserCreates, Write
<1>9. ASSUME NEW spec \in Specs[r], UserEdits(r, spec) PROVE DependsOK'
  <2> DEFINE new == [api[r] EXCEPT !.spec = spec, !.generation = @ + 1]
  <2>1. new.conditions = api[r].conditions /\ new.status = api[r].status
    BY <1>2, Zenon DEF ReleaseObjects
  <2>2. api' = [api EXCEPT ![r] = new]
    BY <1>9, Zenon DEF UserEdits, Write
  <2> HIDE DEF new
  <2>3. Shows(new) => Shows(api[r])
    BY <2>1 DEF Shows
  <2> QED BY <1>4, <2>2, <2>3, Zenon
<1> QED BY <1>1, <1>6, <1>7, <1>8, <1>9, Zenon

\* The sources, the accounts, the clock and a restart leave the releases alone.
LEMMA WorldOrder ==
    ASSUME RInv, DependsOK, World \/ UNCHANGED vars \/ \E r \in Releases : TimerFires(r)
    PROVE  DependsOK'
<1>1. CASE Crash
  BY <1>1, EndOrder, Zenon DEF Crash, Forget, DependsOK
<1>2. CASE UNCHANGED <<api, noWorker>>
  BY <1>2, Zenon DEF noWorker, locals, DependsOK, Working, Shows
<1> QED BY <1>1, <1>2, Zenon DEF World, ServiceAccountChanges, SourcePublishes, SourceFails,
           SourceRecovers, TimerFires, vars, noWorker

\* DependsOK is inductive, given RInv.
LEMMA NextOrder ==
    ASSUME "panic" \notin Disturbances, RInv, DependsOK, [Next]_vars
    PROVE  DependsOK'
<1>1. CASE Step
  BY <1>1, PhasesOrder, WorkOrder, DeletionOrder, WritesOrder, Zenon DEF Step
<1>2. CASE \E r \in Releases : Take(r)
  BY <1>2, TakeOrder
<1> QED BY <1>1, <1>2, UsersOrder, WorldOrder, Zenon DEF Next

\* checkDependsOn: whatever users write and whatever fails or crashes, short of
\* a panic, a release works on the cluster only after every release it depends
\* on has been applied in full and has not gone since.
THEOREM DependenciesFirst ==
    ASSUME "panic" \notin Disturbances
    PROVE  Spec => []AppliedAfterDependencies
<1>1. RInv /\ DependsOK /\ [Next]_vars => DependsOK'
  BY NextOrder, Zenon
<1>2. DependsOK => AppliedAfterDependencies
  BY DEF DependsOK, PhasePcs, AppliedAfterDependencies
<1> QED BY <1>1, <1>2, InitOrder, RInvInvariant, PTL DEF Spec

=============================================================================
