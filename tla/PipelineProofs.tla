--------------------------- MODULE PipelineProofs ---------------------------
(***************************************************************************)
(* Pipeline for every set of artifacts, packages and providers and for all *)
(* limits: what Fetch accepts, what is rendered, and what is left behind.  *)
(***************************************************************************)
EXTENDS Pipeline, TLAPS, FiniteSetTheorems, SequenceTheorems

\* The temporary files of each stage.
TempShape ==
    /\ stage \in {"idle", "returned"} => temp = {}
    /\ stage \in {"verify", "extract"} => temp = {"dir", "file"}
    /\ stage \notin {"idle", "returned", "verify", "extract"} => temp = {"dir"}

\* The download that is extracted is the artifact that was resolved, and the
\* entries up to count are fine.
Sound ==
    /\ body = [of |-> ref, whole |-> TRUE]
    /\ Archive[ref].gzip
    /\ Archive[ref].size <= MaxArtifactSize
    /\ count <= MaxTarFiles
    /\ count <= Len(Archive[ref].entries)
    /\ \A i \in 1..count : Archive[ref].entries[i] # "refused"

\* The whole of it is in the directory.
Unpacked == Sound /\ count = Len(Archive[ref].entries)

FetchShape ==
    /\ stage \in {"fetch", "verify"} => count = 0
    /\ stage \in {"fetch", "verify", "extract", "refused", "fetched"} =>
         job.kind = "Release" /\ job.path \in Paths /\ ref \in Artifacts
    /\ stage = "extract" => Sound
    /\ stage = "fetched" => Unpacked
    /\ stage = "refused" /\ ~faulted => ~Acceptable(ref, body)

RenderShape ==
    /\ stage \in {"idle", "fetch", "verify", "extract", "refused", "fetched", "load"} =>
         pkg = NoPackage
    /\ stage = "idle" => count = 0
    /\ stage = "load" =>
         \/ job.kind = "ModuleRelease" /\ job.module \in Packages
         \/ /\ job.kind = "Release" /\ job.path \in Paths /\ ref \in Artifacts
            /\ Unpacked
            /\ Archive[ref].tree[job.path] \in Packages
    /\ pkg # NoPackage => pkg = Wanted

PInv == TypeOK /\ TempShape /\ FetchShape /\ RenderShape

-----------------------------------------------------------------------------

\* Nothing is fetched or rendered at first.
LEMMA InitPInv == Init => PInv
<1> SUFFICES ASSUME Init PROVE PInv
  OBVIOUS
<1>1. count \in 0..MaxTarFiles + 1
  BY FetchAssumptions DEF Init
<1>2. job \in Jobs
  BY DEF Init, Jobs
<1>3. TypeOK
  BY <1>1, <1>2, Zenon DEF Init, TypeOK, Stages, NoResult
<1> QED BY <1>3 DEF Init, PInv, TempShape, FetchShape, RenderShape

\* Whatever is returned, the directory goes and the package stays what it was.
LEMMA ReturnKeeps ==
    ASSUME PInv, NEW r, r.state \in {"rendered", "failed"}, Return(r), faulted' \in BOOLEAN,
           stage \in {"fetched", "load", "parse", "match", "execute"}
    PROVE  PInv'
<1>1. temp = {"dir"} /\ temp' = {}
  BY DEF PInv, TempShape, Return
<1>2. UNCHANGED <<ref, body, count, provider, job, pkg>> /\ stage' = "returned"
  BY DEF Return, renderVars
<1>3. TypeOK'
  BY <1>1, <1>2 DEF PInv, TypeOK, Return, Stages
<1>4. RenderShape'
  BY <1>2 DEF PInv, RenderShape, Wanted
<1> QED BY <1>1, <1>2, <1>3, <1>4 DEF PInv, TempShape, FetchShape

\* A failure is not a success.
LEMMA FailedState == \A reason : Failed(reason).state = "failed"
  BY DEF Failed, NoResult

\* A step of the render that returns nothing yet.
LEMMA RenderingKeeps ==
    ASSUME PInv, Rendering, UNCHANGED pkg,
           stage \in {"parse", "match", "execute"}, stage' \in {"match", "execute"}
    PROVE  PInv'
<1>1. UNCHANGED <<ref, body, count, temp, faulted, provider, job, result, pkg>>
  BY DEF Rendering
<1>2. TypeOK'
  BY <1>1 DEF PInv, TypeOK, Stages
<1>3. TempShape' /\ FetchShape'
  BY <1>1 DEF PInv, TempShape, FetchShape
<1>4. RenderShape'
  BY <1>1 DEF PInv, RenderShape, Wanted
<1> QED BY <1>2, <1>3, <1>4 DEF PInv

\* A render begins, of an artifact or of a module.
LEMMA BeginKeeps ==
    ASSUME PInv,
           \/ \E a \in Artifacts, path \in Paths : BeginRelease(a, path)
           \/ \E m \in Modules, given \in GivenValues : BeginModuleRelease(m, given)
    PROVE  PInv'
<1>1. stage = "idle" /\ temp = {} /\ pkg = NoPackage /\ count = 0
  BY DEF PInv, TempShape, RenderShape, BeginRelease, BeginModuleRelease
<1>2. CASE \E a \in Artifacts, path \in Paths : BeginRelease(a, path)
  <2> PICK a \in Artifacts, path \in Paths : BeginRelease(a, path)
    BY <1>2
  <2>1. /\ job' = [kind |-> "Release", path |-> path] /\ ref' = a
        /\ MakeDir("fetch", "FetchFailed")
    BY DEF BeginRelease
  <2>2. /\ UNCHANGED <<body, count, provider, pkg>>
        /\ \/ stage' = "fetch" /\ temp' = {"dir"} /\ UNCHANGED <<faulted, result>>
           \/ /\ stage' = "returned" /\ temp' = {} /\ faulted' = TRUE
              /\ result' = Failed("FetchFailed")
    BY <1>1, <2>1 DEF MakeDir, renderVars
  <2>3. job' \in Jobs /\ job'.kind = "Release" /\ job'.path \in Paths
    BY <2>1 DEF Jobs
  <2>4. TypeOK'
    BY <1>1, <2>1, <2>2, <2>3, FailedState, Zenon DEF PInv, TypeOK, Stages
  <2> QED BY <1>1, <2>1, <2>2, <2>3, <2>4 DEF PInv, TempShape, FetchShape, RenderShape
<1>3. CASE \E m \in Modules, given \in GivenValues : BeginModuleRelease(m, given)
  <2> PICK m \in Modules, given \in GivenValues : BeginModuleRelease(m, given)
    BY <1>3
  <2>1. /\ job' = [kind |-> "ModuleRelease", module |-> m, values |-> given]
        /\ MakeDir("load", "RenderFailed") /\ UNCHANGED ref
    BY DEF BeginModuleRelease
  <2>2. /\ UNCHANGED <<body, count, provider, pkg>>
        /\ \/ stage' = "load" /\ temp' = {"dir"} /\ UNCHANGED <<faulted, result>>
           \/ /\ stage' = "returned" /\ temp' = {} /\ faulted' = TRUE
              /\ result' = Failed("RenderFailed")
    BY <1>1, <2>1 DEF MakeDir, renderVars
  <2>3. /\ job' \in Jobs /\ job'.kind = "ModuleRelease" /\ job'.module = m
        /\ m \in Packages
    BY <2>1, PipelineAssumptions DEF Jobs
  <2>4. TypeOK'
    BY <1>1, <2>1, <2>2, <2>3, FailedState, Zenon DEF PInv, TypeOK, Stages
  <2> QED BY <1>1, <2>1, <2>2, <2>3, <2>4 DEF PInv, TempShape, FetchShape, RenderShape
<1> QED BY <1>2, <1>3

\* Fetch keeps the invariant: nothing is extracted but the resolved artifact,
\* and it refuses only what it should.
LEMMA FetchKeeps == ASSUME PInv, FetchStep PROVE PInv'
<1>0. UNCHANGED <<provider, job, pkg, result>> /\ pkg = NoPackage
  BY DEF FetchStep, renderVars, FetchNext, Download, Verify, ExtractEntry, ExtractEnds,
         PInv, RenderShape
<1> DEFINE entries == Archive[ref].entries
<1>1. CASE Download
  <2>1. /\ stage = "fetch" /\ UNCHANGED <<ref, count>> /\ temp = {"dir"} /\ count = 0
        /\ job.kind = "Release" /\ job.path \in Paths /\ ref \in Artifacts
    BY <1>1 DEF Download, PInv, TempShape, FetchShape
  <2>2. \/ /\ stage' = "verify" /\ temp' = {"dir", "file"} /\ UNCHANGED faulted
           /\ body' \in Bodies
        \/ stage' = "refused" /\ temp' = {"dir"} /\ faulted' = TRUE /\ UNCHANGED body
    BY <1>1, <2>1 DEF Download, Refuse, Bodies
  <2>3. TypeOK'
    BY <1>0, <2>1, <2>2, Zenon DEF PInv, TypeOK, Stages
  <2> QED BY <1>0, <2>1, <2>2, <2>3 DEF PInv, TempShape, FetchShape, RenderShape
<1>2. CASE Verify
  <2>1. /\ stage = "verify" /\ temp = {"dir", "file"} /\ count = 0 /\ body \in Bodies
        /\ job.kind = "Release" /\ job.path \in Paths /\ ref \in Artifacts
        /\ UNCHANGED <<ref, body, count, faulted>>
    BY <1>2 DEF Verify, PInv, TempShape, FetchShape, TypeOK
  <2>2. entries \in Seq(EntryKinds) /\ Archive[ref].size \in Nat /\ MaxTarFiles \in Nat
        /\ MaxArtifactSize \in Nat /\ ref # Cut
    BY <2>1, FetchAssumptions
  <2>3. CASE Written(body) > MaxArtifactSize \/ Digest(body) # ref \/ ~Archive[body.of].gzip
    <3>1. stage' = "refused" /\ temp' = {"dir"}
      BY <1>2, <2>1, <2>3 DEF Verify, Refuse
    <3>2. ~Acceptable(ref, body)
      <4> SUFFICES ASSUME Acceptable(ref, body) PROVE FALSE
        OBVIOUS
      <4>1. body.of = ref /\ body.whole = TRUE
        BY DEF Acceptable
      <4>2. Digest(body) = ref /\ Written(body) = Archive[ref].size
        BY <4>1, <2>2 DEF Digest, Written, Acceptable
      <4> QED BY <2>2, <2>3, <4>1, <4>2 DEF Acceptable
    <3>3. TypeOK'
      BY <1>0, <2>1, <3>1 DEF PInv, TypeOK, Stages
    <3> QED BY <1>0, <2>1, <3>1, <3>2, <3>3
            DEF PInv, TempShape, FetchShape, RenderShape, Acceptable
  <2>4. CASE ~(Written(body) > MaxArtifactSize \/ Digest(body) # ref
               \/ ~Archive[body.of].gzip)
    <3>1. stage' = "extract" /\ UNCHANGED temp
      BY <1>2, <2>4 DEF Verify
    <3>2. body = [of |-> ref, whole |-> TRUE]
      BY <2>1, <2>2, <2>4 DEF Digest, Bodies
    <3>3. body.of = ref
      BY <3>2
    <3>4. Archive[ref].size <= MaxArtifactSize /\ Archive[ref].gzip
      BY <2>2, <2>4, <3>3 DEF Written
    <3>5. Sound'
      BY <2>1, <2>2, <3>2, <3>4 DEF Sound
    <3>6. TypeOK'
      BY <1>0, <2>1, <3>1 DEF PInv, TypeOK, Stages
    <3> QED BY <1>0, <2>1, <3>1, <3>5, <3>6 DEF PInv, TempShape, FetchShape, RenderShape
  <2> QED BY <2>3, <2>4
<1>3. CASE ExtractEntry
  <2>1. /\ stage = "extract" /\ temp = {"dir", "file"} /\ Sound
        /\ job.kind = "Release" /\ job.path \in Paths /\ ref \in Artifacts
        /\ UNCHANGED <<ref, body>> /\ count' = count + 1
        /\ count \in Nat /\ body.of = ref
    BY <1>3 DEF ExtractEntry, PInv, TempShape, FetchShape, TypeOK, Sound
  <2>2. /\ entries \in Seq(EntryKinds) /\ Len(entries) \in Nat /\ MaxTarFiles \in Nat
        /\ DOMAIN entries = 1..Len(entries)
    BY <2>1, FetchAssumptions
  <2>3. count < Len(entries) /\ Entries = entries
    BY <1>3, <2>1 DEF ExtractEntry, Entries
  <2>4. \/ /\ TooMany(count + 1) \/ entries[count + 1] = "refused"
           /\ stage' = "refused" /\ temp' = {"dir"} /\ UNCHANGED faulted
        \/ stage' = "refused" /\ temp' = {"dir"} /\ faulted' = TRUE
        \/ /\ ~(TooMany(count + 1) \/ entries[count + 1] = "refused")
           /\ stage' = "extract" /\ temp' = {"dir", "file"} /\ UNCHANGED faulted
    BY <1>3, <2>1, <2>3 DEF ExtractEntry, Refuse
  <2>5. count' \in 0..MaxTarFiles + 1
    BY <2>1, <2>2 DEF Sound
  <2>6. TypeOK'
    BY <1>0, <2>1, <2>4, <2>5, Zenon DEF PInv, TypeOK, Stages
  <2>7. TooMany(count + 1) \/ entries[count + 1] = "refused" => ~Acceptable(ref, body)
    BY <2>1, <2>2, <2>3 DEF TooMany, Acceptable
  <2>8. ~(TooMany(count + 1) \/ entries[count + 1] = "refused") => Sound'
    BY <2>1, <2>2, <2>3 DEF TooMany, Sound
  <2> QED BY <1>0, <2>1, <2>4, <2>6, <2>7, <2>8
          DEF PInv, TempShape, FetchShape, RenderShape, Acceptable
<1>4. CASE ExtractEnds
  <2>1. /\ stage = "extract" /\ temp = {"dir", "file"} /\ Sound
        /\ job.kind = "Release" /\ job.path \in Paths /\ ref \in Artifacts
        /\ body.of = ref
    BY <1>4 DEF ExtractEnds, PInv, TempShape, FetchShape, Sound
  <2>2. /\ UNCHANGED <<ref, body, count, faulted>> /\ count = Len(entries)
        /\ stage' = "fetched" /\ temp' = {"dir"}
    BY <1>4, <2>1 DEF ExtractEnds, Entries
  <2>3. Unpacked'
    BY <2>1, <2>2 DEF Unpacked, Sound
  <2>4. TypeOK'
    BY <1>0, <1>4, <2>2 DEF ExtractEnds, PInv, TypeOK, Stages
  <2> QED BY <1>0, <2>1, <2>2, <2>3, <2>4 DEF PInv, TempShape, FetchShape, RenderShape
<1> QED BY <1>1, <1>2, <1>3, <1>4 DEF FetchStep, FetchNext

\* The caller of a failed fetch returns.
LEMMA FetchFailsKeeps == ASSUME PInv, FetchFails PROVE PInv'
<1>1. stage = "refused" /\ temp = {"dir"} /\ pkg = NoPackage
  BY DEF FetchFails, PInv, TempShape, RenderShape
<1>2. /\ UNCHANGED <<ref, body, count, faulted, provider, job, pkg>>
      /\ stage' = "returned" /\ temp' = {} /\ result' = Failed("FetchFailed")
  BY <1>1 DEF FetchFails, renderVars
<1>3. TypeOK'
  BY <1>2, FailedState DEF PInv, TypeOK, Stages
<1> QED BY <1>1, <1>2, <1>3 DEF PInv, TempShape, FetchShape, RenderShape

\* The path is looked up in the extracted tree.
LEMMA NavigateKeeps == ASSUME PInv, navigateReleasePath PROVE PInv'
<1>1. stage = "fetched" /\ UNCHANGED faulted /\ faulted \in BOOLEAN
  BY DEF navigateReleasePath, PInv, TypeOK
<1>2. CASE Extracted(job.path) \in {NoPath, NoFile}
  <2>1. \E reason : Return(Failed(reason))
    BY <1>2 DEF navigateReleasePath
  <2> QED BY <1>1, <2>1, ReturnKeeps, FailedState
<1>3. CASE Extracted(job.path) \notin {NoPath, NoFile}
  <2>1. /\ stage' = "load"
        /\ UNCHANGED <<ref, body, count, temp, faulted, provider, job, pkg, result>>
    BY <1>3 DEF navigateReleasePath, renderVars
  <2>2. /\ Unpacked /\ temp = {"dir"} /\ pkg = NoPackage
        /\ job.kind = "Release" /\ job.path \in Paths /\ ref \in Artifacts
    BY <1>1 DEF PInv, FetchShape, TempShape, RenderShape
  <2>3. Extracted(job.path) = Archive[ref].tree[job.path]
    BY <2>2 DEF Extracted, Entries, Unpacked, Sound
  <2>4. Archive[ref].tree[job.path] \in Packages
    BY <1>3, <2>2, <2>3, PipelineAssumptions
  <2>5. TypeOK'
    BY <2>1 DEF PInv, TypeOK, Stages
  <2>6. RenderShape'
    BY <2>1, <2>2, <2>4 DEF RenderShape, Unpacked, Sound
  <2> QED BY <2>1, <2>2, <2>5, <2>6 DEF PInv, TempShape, FetchShape
<1> QED BY <1>2, <1>3

\* What is loaded is what the directory holds, which is what was wanted.
LEMMA LoadKeeps == ASSUME PInv, Load PROVE PInv'
<1>1. stage = "load" /\ faulted \in BOOLEAN /\ temp = {"dir"}
  BY DEF Load, PInv, TypeOK, TempShape
<1>2. CASE \E reason : Return(Failed(reason)) /\ faulted' \in BOOLEAN
  BY <1>1, <1>2, ReturnKeeps, FailedState
<1>3. CASE /\ stage' = "parse" /\ pkg' = InDir
           /\ UNCHANGED <<ref, body, count, temp, faulted, provider, job, result>>
  <2>1. InDir = Wanted /\ InDir \in Packages
    <3>1. CASE job.kind = "ModuleRelease" /\ job.module \in Packages
      BY <3>1 DEF InDir, Wanted
    <3>2. CASE /\ job.kind = "Release" /\ job.path \in Paths /\ ref \in Artifacts
               /\ Unpacked
               /\ Archive[ref].tree[job.path] \in Packages
      BY <3>2 DEF InDir, Wanted, Extracted, Entries, Unpacked, Sound
    <3> QED BY <1>1, <3>1, <3>2 DEF PInv, RenderShape
  <2>2. Wanted' = Wanted
    BY <1>3 DEF Wanted
  <2>3. TypeOK'
    BY <1>3, <2>1 DEF PInv, TypeOK, Stages
  <2> QED BY <1>1, <1>3, <2>1, <2>2, <2>3 DEF PInv, TempShape, FetchShape, RenderShape
<1> QED BY <1>1, <1>2, <1>3, Zenon DEF Load

\* The reconcile is over.
LEMMA ReconciledKeeps == ASSUME PInv, Reconciled PROVE PInv'
<1>1. temp' = {} /\ UNCHANGED provider
  BY DEF Reconciled, PInv, TempShape
<1>2. /\ stage' = "idle" /\ ref' = Cut /\ body' = NoBody /\ count' = 0
      /\ faulted' = FALSE /\ job' = [kind |-> "none"] /\ pkg' = NoPackage
      /\ result' = NoResult
  BY DEF Reconciled
<1>3. job' \in Jobs /\ count' \in 0..MaxTarFiles + 1
  BY <1>2, FetchAssumptions DEF Jobs
<1>4. TypeOK'
  BY <1>1, <1>2, <1>3, Zenon DEF PInv, TypeOK, Stages, NoResult
<1> QED BY <1>1, <1>2, <1>4 DEF PInv, TempShape, FetchShape, RenderShape

\* PInv is inductive.
LEMMA NextPInv == ASSUME PInv, [Next]_vars PROVE PInv'
<1>0. faulted \in BOOLEAN
  BY DEF PInv, TypeOK
<1>1. CASE \/ \E a \in Artifacts, path \in Paths : BeginRelease(a, path)
           \/ \E m \in Modules, given \in GivenValues : BeginModuleRelease(m, given)
  BY <1>1, BeginKeeps
<1>2. CASE FetchStep
  BY <1>2, FetchKeeps
<1>3. CASE FetchFails
  BY <1>3, FetchFailsKeeps
<1>4. CASE navigateReleasePath
  BY <1>4, NavigateKeeps
<1>5. CASE Load
  BY <1>5, LoadKeeps
<1>6. CASE ParseModuleRelease
  <2>1. CASE Return(Failed("RenderFailed")) /\ UNCHANGED faulted
    BY <1>0, <1>6, <2>1, ReturnKeeps, FailedState DEF ParseModuleRelease
  <2>2. CASE stage' = "match" /\ Rendering /\ UNCHANGED pkg
    BY <1>6, <2>2, RenderingKeeps DEF ParseModuleRelease
  <2> QED BY <1>6, <2>1, <2>2 DEF ParseModuleRelease
<1>7. CASE ProcessModuleRelease
  <2>1. CASE Return(Failed("RenderFailed")) /\ UNCHANGED faulted
    BY <1>0, <1>7, <2>1, ReturnKeeps, FailedState DEF ProcessModuleRelease
  <2>2. CASE stage' = "execute" /\ Rendering /\ UNCHANGED pkg
    BY <1>7, <2>2, RenderingKeeps DEF ProcessModuleRelease
  <2> QED BY <1>7, <2>1, <2>2 DEF ProcessModuleRelease
<1>8. CASE executePair
  BY <1>8, RenderingKeeps DEF executePair
<1>9. CASE Cancelled
  BY <1>9, ReturnKeeps, FailedState DEF Cancelled
<1>10. CASE RenderEnds
  <2>1. stage = "execute" /\ faulted' \in BOOLEAN
    BY <1>0, <1>10, Zenon DEF RenderEnds
  <2>2. \E r : r.state \in {"rendered", "failed"} /\ Return(r)
    <3> DEFINE success == [state |-> "rendered", reason |-> "", resources |-> made,
                           warnings |-> warned]
    <3>1. Return(Failed("RenderFailed")) \/ Return(success)
      BY <1>10, Zenon DEF RenderEnds
    <3>2. success.state = "rendered"
      OBVIOUS
    <3> HIDE DEF success
    <3> QED BY <3>1, <3>2, FailedState
  <2> QED BY <2>1, <2>2, ReturnKeeps
<1>11. CASE Panic
  BY <1>11, ReturnKeeps, FailedState DEF Panic
<1>12. CASE Reconciled
  BY <1>12, ReconciledKeeps
<1>13. CASE UNCHANGED vars
  <2>1. UNCHANGED <<stage, ref, body, count, temp, faulted, provider, job, pkg, result>>
    BY <1>13 DEF vars, fetchVars, renderVars
  <2>2. TypeOK'
    BY <2>1 DEF PInv, TypeOK
  <2>3. TempShape'
    BY <2>1 DEF PInv, TempShape
  <2>4. FetchShape'
    BY <2>1 DEF PInv, FetchShape, Sound, Unpacked, Acceptable
  <2>5. RenderShape'
    BY <2>1 DEF PInv, RenderShape, Sound, Unpacked, Wanted
  <2> QED BY <2>2, <2>3, <2>4, <2>5 DEF PInv
<1> QED BY <1>1, <1>2, <1>3, <1>4, <1>5, <1>6, <1>7, <1>8, <1>9, <1>10, <1>11, <1>12,
           <1>13 DEF Next

\* PInv holds in every state.
LEMMA PInvInvariant == Spec => []PInv
  BY InitPInv, NextPInv, PTL DEF Spec

\* A render is always of the package of the artifact that was resolved, whatever
\* the source serves at the time of the download and however much of it arrives
\* (the digest check of Fetch, extractTarGz, navigateReleasePath).
THEOREM RendersTheResolvedArtifact == Spec => []LoadedIsResolved
<1>1. PInv => LoadedIsResolved
  BY DEF PInv, RenderShape, LoadedIsResolved
<1> QED BY <1>1, PInvInvariant, PTL

\* No path through a reconcile leaves a temporary file or directory (os.Remove
\* in Fetch, os.RemoveAll in fetchReleaseArtifact and in the deferred calls).
THEOREM NothingLeftBehind == Spec => []NoTempLeft
<1>1. PInv => NoTempLeft
  BY DEF PInv, TempShape, NoTempLeft
<1> QED BY <1>1, PInvInvariant, PTL

\* Fetch accepts what it should and, without an I/O error, refuses nothing else,
\* for all limits and archives (the comparisons of Fetch and extractTarGz).
THEOREM FetchIsRight == Spec => []FetchVerdict
<1>1. PInv => FetchVerdict
  <2> SUFFICES ASSUME PInv PROVE FetchVerdict
    OBVIOUS
  <2>1. ASSUME stage = "fetched" PROVE Acceptable(ref, body)
    <3>1. Unpacked /\ ref \in Artifacts
      BY <2>1 DEF PInv, FetchShape
    <3>2. DOMAIN Archive[ref].entries = 1..Len(Archive[ref].entries)
      BY <3>1, FetchAssumptions
    <3> QED BY <3>1, <3>2 DEF Unpacked, Sound, Acceptable
  <2> QED BY <2>1 DEF PInv, FetchShape, FetchVerdict
<1> QED BY <1>1, PInvInvariant, PTL

\* The variables keep their types.
THEOREM PipelineTypes == Spec => []TypeOK
<1>1. PInv => TypeOK
  BY DEF PInv
<1> QED BY <1>1, PInvInvariant, PTL

-----------------------------------------------------------------------------
\* What a render should be, and what stays of it in a step.

\* Before its first pair the loop over the pairs has taken none.
LEMMA NoneYet == 1..0 = {}
OBVIOUS

\* What is wanted, and what can be rendered.
LEMMA VerdictSteady ==
    ASSUME UNCHANGED <<ref, job, provider>>
    PROVE  Wanted' = Wanted /\ \A p : Renderable(p)' <=> Renderable(p)
<1>1. Wanted' = Wanted
  BY DEF Wanted
<1>2. ASSUME NEW p PROVE Renderable(p)' <=> Renderable(p)
  <2>1. Served(p)' = Served(p)
    BY DEF Served
  <2>2. Fit(p)' <=> Fit(p)
    BY DEF Fit
  <2>3. job' = job
    OBVIOUS
  <2> QED BY <2>1, <2>2, <2>3, Zenon DEF Renderable
<1> QED BY <1>1, <1>2

\* What a render should return.
LEMMA ReferenceSteady ==
    ASSUME UNCHANGED <<pkg, values, provider>>
    PROVE  Expected' = Expected /\ Ignored' = Ignored /\ Undecoded' = Undecoded
<1>1. Raw' = Raw
  BY DEF Raw
<1>2. Served(Raw)' = Served(Raw)
  BY <1>1 DEF Served
<1>3. Expected' = Expected
  BY <1>1, <1>2 DEF Expected, Resources
<1>4. Ignored' = Ignored
  BY <1>1, <1>2 DEF Ignored
<1>5. Undecoded' = Undecoded
  BY <1>1 DEF Undecoded
<1> QED BY <1>3, <1>4, <1>5

\* What has been extracted is what is wanted.
LEMMA FetchedIsWanted == ASSUME PInv, stage = "fetched" PROVE Extracted(job.path) = Wanted
BY DEF PInv, FetchShape, Extracted, Entries, Unpacked, Sound, Wanted

\* A function on the first n naturals is a list of n elements.
LEMMA FunctionsAreLists ==
    ASSUME NEW n \in Nat, NEW B, NEW f \in [1..n -> B]
    PROVE  f \in Seq(B) /\ (f = <<>> <=> n = 0)
OBVIOUS

-----------------------------------------------------------------------------
\* The values: what ParseModuleRelease accepts is what fits.

\* The merged value of one layer of values is that layer.
LEMMA MergeOfOne ==
    ASSUME NEW v, v = [f \in DOMAIN v |-> v[f]]
    PROVE  Merge(<<v>>) = v /\ Conflicts(<<v>>) = {}
<1>1. DOMAIN <<v>> = {1} /\ <<v>>[1] = v
  OBVIOUS
<1>2. UNION {DOMAIN <<v>>[i] : i \in DOMAIN <<v>>} = DOMAIN v
  BY <1>1, Zenon
<1>3. \A f \in DOMAIN v : (CHOOSE i \in DOMAIN <<v>> : f \in DOMAIN <<v>>[i]) = 1
  BY <1>1
<1>4. Merge(<<v>>) = [f \in DOMAIN v |-> v[f]]
  BY <1>1, <1>2, <1>3 DEF Merge
<1>5. Conflicts(<<v>>) = {}
  BY <1>1 DEF Conflicts
<1> QED BY <1>4, <1>5

\* One layer of values passes validation when it has every field that is needed,
\* none that is not allowed and no wrong content.
LEMMA ValidatesOne ==
    ASSUME NEW schema, NEW v, v = [f \in DOMAIN v |-> v[f]]
    PROVE  ConfigErrors(schema, <<v>>) = {} <=>
              /\ schema.needs \subseteq DOMAIN v
              /\ DOMAIN v \subseteq schema.allows
              /\ \A f \in DOMAIN v : v[f] # Wrong
<1>1. Merge(<<v>>) = v /\ Conflicts(<<v>>) = {}
  BY MergeOfOne
<1>2. UNION {SchemaErrors(schema, <<v>>[i], FALSE) : i \in DOMAIN <<v>>}
        = SchemaErrors(schema, v, FALSE)
  <2>1. DOMAIN <<v>> = {1} /\ <<v>>[1] = v
    OBVIOUS
  <2> QED BY <2>1, Zenon
<1>3. ConfigErrors(schema, <<v>>) =
        IF SchemaErrors(schema, v, FALSE) # {} THEN SchemaErrors(schema, v, FALSE)
        ELSE SchemaErrors(schema, v, TRUE)
  BY <1>1, <1>2, Zenon DEF ConfigErrors
<1>4. SchemaErrors(schema, v, FALSE) = {} <=>
         DOMAIN v \subseteq schema.allows /\ \A f \in DOMAIN v : v[f] # Wrong
  BY DEF SchemaErrors, walkDisallowed
<1>5. SchemaErrors(schema, v, TRUE)
        = SchemaErrors(schema, v, FALSE) \cup (schema.needs \ DOMAIN v)
  BY DEF SchemaErrors
<1> QED BY <1>3, <1>4, <1>5, Zenon

\* The release parses, as far as values go, exactly when they fit.
LEMMA ParsesWhatFits ==
    ASSUME job \in Jobs, pkg \in Packages, job.kind # "none",
           job.kind = "ModuleRelease" => pkg = job.module
    PROVE  Fit(Raw) <=> ~ \/ job.kind = "ModuleRelease" /\ job.values = Malformed
                          \/ ConfigFails(Raw.schema, Layers)
                          \/ ~Concrete(Filled)
<1>1. CASE job.kind = "Release"
  <2>1. Layers = <<>>
    BY <1>1 DEF Layers
  <2>2. Filled = Raw.values /\ ~ConfigFails(Raw.schema, Layers)
    BY <2>1 DEF Filled, Config, ConfigFails, Unchecked
  <2> QED BY <1>1, <2>2 DEF Fit, Concrete
<1>2. CASE job.kind = "ModuleRelease"
  <2>1. job.module \in Modules /\ job.values \in GivenValues
    BY <1>2 DEF Jobs
  <2>2. Raw.values = Nothing
    BY <1>2, <2>1, ValuesAssumptions DEF Raw
  <2>3. CASE Raw.schema = NoSchema
    <3>1. Filled = Nothing
      BY <2>2, <2>3 DEF Filled, Config, Unchecked
    <3> QED BY <1>2, <2>3, <3>1 DEF Fit, Concrete
  <2>4. CASE Raw.schema # NoSchema /\ job.values = NoValues
    <3> DEFINE d == Defaults(Raw.schema)
    <3>1. Layers = <<d>>
      BY <1>2, <2>4 DEF Layers
    <3>2. /\ DOMAIN d = Raw.schema.allows \ Raw.schema.needs
          /\ d = [f \in DOMAIN d |-> d[f]]
          /\ \A f \in DOMAIN d : d[f] = "default"
      BY DEF Defaults
    <3>3. d # Nothing
      BY <2>4, ValuesAssumptions DEF Raw
    <3> HIDE DEF d
    <3>4. ConfigErrors(Raw.schema, <<d>>) = {} <=> Raw.schema.needs = {}
      BY <3>2, ValidatesOne, ValuesAssumptions
    <3>5. Filled = d
      BY <2>4, <3>1, <3>2, <3>3, MergeOfOne DEF Filled, Config, Unchecked
    <3>6. ConfigFails(Raw.schema, Layers) <=> Raw.schema.needs # {}
      BY <2>4, <3>1, <3>4 DEF ConfigFails, Unchecked
    <3>7. Raw.schema.needs = {} => Concrete(Filled)
      BY <3>3, <3>5 DEF Concrete
    <3>8. job.values # Malformed
      BY <2>4, ValuesAssumptions
    <3> QED BY <1>2, <2>4, <3>6, <3>7, <3>8 DEF Fit
  <2>5. CASE Raw.schema # NoSchema /\ job.values = Malformed
    BY <1>2, <2>5, ValuesAssumptions DEF Fit
  <2>6. CASE Raw.schema # NoSchema /\ job.values \notin {NoValues, Malformed}
    <3> DEFINE v == job.values
    <3>1. v # Nothing /\ v = [f \in DOMAIN v |-> v[f]]
      BY <2>1, <2>6, ValuesAssumptions
    <3>2. Layers = <<v>>
      BY <1>2, <2>6 DEF Layers
    <3>3. Filled = v
      BY <2>6, <3>1, <3>2, MergeOfOne DEF Filled, Config, Unchecked
    <3>4. ConfigFails(Raw.schema, Layers) <=> ConfigErrors(Raw.schema, <<v>>) # {}
      BY <2>6, <3>2 DEF ConfigFails, Unchecked
    <3>5. Concrete(Filled) <=> Raw.schema.needs \subseteq DOMAIN v
      BY <2>6, <3>1, <3>3 DEF Concrete
    <3> QED BY <1>2, <2>6, <3>1, <3>4, <3>5, ValidatesOne DEF Fit
  <2> QED BY <2>3, <2>4, <2>5, <2>6
<1> QED BY <1>1, <1>2 DEF Jobs

-----------------------------------------------------------------------------
\* Lists: a finite set has one sorted list.

\* A set of naturals has a least element.
LEMMA LeastNatural ==
    ASSUME NEW T \in SUBSET Nat, T # {}
    PROVE  \E m \in T : \A k \in T : m <= k
<1>1. PICK x \in T : \A y \in T : ~(<<y, x>> \in OpToRel(<, Nat))
  BY NatLessThanWellFounded, WFMin, Zenon
<1>2. \A y \in T : ~(y < x)
  BY <1>1, Zenon DEF OpToRel
<1> QED BY <1>2

\* A list of a finite set.
LEMMA ListsAll ==
    ASSUME NEW S, IsFiniteSet(S), NEW s \in Arrangements(S)
    PROVE  \E n \in Nat :
              /\ n = Cardinality(S) /\ s \in [1..n -> S]
              /\ \A i, j \in 1..n : i # j => s[i] # s[j]
              /\ \A x \in S : \E i \in 1..n : s[i] = x
<1>1. Cardinality(S) \in Nat
  BY FS_CardinalityType
<1>2. /\ s \in [1..Cardinality(S) -> S]
      /\ \A i, j \in 1..Cardinality(S) : i # j => s[i] # s[j]
      /\ \A x \in S : \E i \in 1..Cardinality(S) : s[i] = x
  BY DEF Arrangements, Bijection, Injection, IsInjective, Surjection
<1> QED BY <1>1, <1>2

\* The pairs of names, in the order of the render.
Before(x, y) == x[1] < y[1] \/ (x[1] = y[1] /\ x[2] < y[2])
Sorted(s) == \A i, j \in DOMAIN s : i < j => Before(s[i], s[j])

\* A finite set of pairs of numbers has one sorted list.
LEMMA SortedOnce ==
    ASSUME NEW S \in SUBSET (Int \X Int), IsFiniteSet(S),
           NEW s \in Arrangements(S), NEW t \in Arrangements(S), Sorted(s), Sorted(t)
    PROVE  s = t
<1>1. PICK n \in Nat : /\ n = Cardinality(S) /\ s \in [1..n -> S]
                       /\ \A x \in S : \E i \in 1..n : s[i] = x
  BY ListsAll
<1>2. /\ t \in [1..n -> S]
      /\ \A x \in S : \E i \in 1..n : t[i] = x
  BY <1>1, ListsAll
<1> DEFINE D == {i \in 1..n : s[i] # t[i]}
<1>3. ASSUME D # {} PROVE FALSE
  <2>0. D \in SUBSET Nat
    OBVIOUS
  <2>1. PICK m \in D : \A k \in D : m <= k
    <3> HIDE DEF D
    <3> QED BY <1>3, <2>0, LeastNatural, Zenon
  <2>2. m \in 1..n /\ s[m] # t[m] /\ \A k \in 1..n : k < m => s[k] = t[k]
    BY <2>1
  <2> HIDE DEF D
  <2>3. s[m] \in S /\ t[m] \in S
    BY <1>1, <1>2, <2>2
  <2>4. PICK j \in 1..n : t[j] = s[m]
    BY <1>2, <2>3
  <2>5. PICK k \in 1..n : s[k] = t[m]
    BY <1>1, <2>3
  <2>6. \A i \in 1..n : i < m => Before(s[i], s[m]) /\ Before(t[i], t[m])
    BY <1>1, <1>2, <2>2 DEF Sorted
  <2>7. \A x \in Int \X Int : ~Before(x, x)
    BY DEF Before
  <2>8. m < j
    <3>1. j # m
      BY <2>2, <2>4
    <3>2. ~(j < m)
      BY <2>2, <2>3, <2>4, <2>6, <2>7
    <3> QED BY <2>2, <3>1, <3>2
  <2>9. m < k
    <3>1. k # m
      BY <2>2, <2>5
    <3>2. ~(k < m)
      BY <2>2, <2>3, <2>5, <2>6, <2>7
    <3> QED BY <2>2, <3>1, <3>2
  <2>10. Before(t[m], s[m])
    BY <1>2, <2>2, <2>4, <2>8 DEF Sorted
  <2>11. Before(s[m], t[m])
    BY <1>1, <2>2, <2>5, <2>9 DEF Sorted
  <2> QED BY <2>3, <2>10, <2>11 DEF Before
<1>4. \A i \in 1..n : s[i] = t[i]
  BY <1>3
<1> QED BY <1>1, <1>2, <1>4

\* There is one result of appending n lists, one after the other.
LEMMA AppendsOnce ==
    ASSUME NEW n \in Nat, NEW r,
           NEW f, f = [i \in 0..n |-> IF i = 0 THEN <<>> ELSE f[i - 1] \o r[i]],
           NEW g, g = [i \in 0..n |-> IF i = 0 THEN <<>> ELSE g[i - 1] \o r[i]]
    PROVE  f[n] = g[n]
<1> DEFINE D == {i \in 0..n : f[i] # g[i]}
<1>1. ASSUME D # {} PROVE FALSE
  <2>1. D \in SUBSET Nat
    OBVIOUS
  <2>2. PICK m \in D : \A k \in D : m <= k
    <3> HIDE DEF D
    <3> QED BY <1>1, <2>1, LeastNatural, Zenon
  <2>3. m \in 0..n /\ f[m] # g[m] /\ \A k \in 0..n : k < m => f[k] = g[k]
    BY <2>2
  <2>4. m # 0
    <3>1. f[0] = <<>> /\ g[0] = <<>>
      OBVIOUS
    <3>2. ASSUME m = 0 PROVE FALSE
      <4>1. f[m] = <<>> /\ g[m] = <<>>
        BY <3>1, <3>2
      <4>2. f[m] # g[m]
        BY <2>3
      <4> QED BY <4>1, <4>2, Zenon
    <3> QED BY <3>2
  <2>5. m - 1 \in 0..n /\ m - 1 < m
    <3>1. m \in 0..n
      BY <2>3, Zenon
    <3> QED BY <2>4, <3>1
  <2>6. f[m - 1] = g[m - 1]
    BY <2>3, <2>5
  <2>7. f[m] = f[m - 1] \o r[m] /\ g[m] = g[m - 1] \o r[m]
    BY <2>3, <2>4, Zenon
  <2> QED BY <2>3, <2>6, <2>7, Zenon
<1> QED BY <1>1

-----------------------------------------------------------------------------
\* The match plan, and the list of its pairs.

\* The match plan of the package that is rendered.
Plan == Match(Raw.components, provider)

\* Match pairs a component with the transformers that serve it, and finds the
\* components without one and the traits that nobody takes.
LEMMA MatchServes ==
    /\ Plan.pairs = Served(Raw)
    /\ provider # NoTransformers =>
         /\ Plan.unmatched = {} <=>
              \A c \in DOMAIN Raw.components : \E x \in Served(Raw) : x[1] = c
         /\ Plan.unhandled = Ignored
<1> DEFINE comps == Raw.components
<1>0. \A c, t : Matched(MatchResult(c, t)) <=> Serves(t, c)
  BY DEF Matched, MatchResult, Missing, Serves
<1>1. CASE provider = NoTransformers
  BY <1>1, Zenon DEF Plan, Match, Served
<1>2. CASE provider # NoTransformers
  <2>1. /\ Plan.pairs = {p \in (DOMAIN comps) \X (DOMAIN provider) :
                           p[2] \in matchedTFs(comps[p[1]], provider)}
        /\ Plan.unmatched = {c \in DOMAIN comps : matchedTFs(comps[c], provider) = {}}
        /\ Plan.unhandled = UNION {{c} \X (comps[c].traits \ Handled(comps[c], provider)) :
                                   c \in DOMAIN comps}
    BY <1>2, Zenon DEF Plan, Match
  <2>2. Served(Raw) = {x \in (DOMAIN comps) \X (DOMAIN provider) :
                         Serves(provider[x[2]], comps[x[1]])}
    BY <1>2 DEF Served
  <2>3. \A c, t : t \in matchedTFs(comps[c], provider) <=>
                     t \in DOMAIN provider /\ Serves(provider[t], comps[c])
    BY <1>0 DEF matchedTFs
  <2> HIDE DEF comps
  <2>4. Plan.pairs = Served(Raw)
    BY <2>1, <2>2, <2>3
  <2>5. \A c \in DOMAIN comps : \A t : t \in matchedTFs(comps[c], provider) <=>
                                         <<c, t>> \in Served(Raw)
    BY <2>2, <2>3
  <2>6. \A x \in Served(Raw) : x[1] \in DOMAIN comps /\ x[2] \in matchedTFs(comps[x[1]], provider)
    BY <2>2, <2>3
  <2>7. Plan.unmatched = {} <=> \A c \in DOMAIN comps : \E x \in Served(Raw) : x[1] = c
    <3>1. \A c \in DOMAIN comps : matchedTFs(comps[c], provider) # {} <=>
                                     \E x \in Served(Raw) : x[1] = c
      <4> TAKE c \in DOMAIN comps
      <4>1. ASSUME NEW t \in matchedTFs(comps[c], provider)
            PROVE  \E x \in Served(Raw) : x[1] = c
        <5>1. <<c, t>> \in Served(Raw) /\ <<c, t>>[1] = c
          BY <2>5
        <5> QED BY <5>1, Zenon
      <4> QED BY <2>6, <4>1, Zenon
    <3> QED BY <2>1, <3>1
  <2>8. ASSUME NEW c \in DOMAIN comps
        PROVE  comps[c].traits \ Handled(comps[c], provider) =
                 {t \in comps[c].traits :
                    \A x \in Served(Raw) : x[1] = c =>
                       t \notin provider[x[2]].requiredTraits
                                \cup provider[x[2]].optionalTraits}
    <3>1. \A t : t \in Handled(comps[c], provider) <=>
                 \E f \in matchedTFs(comps[c], provider) :
                    t \in provider[f].requiredTraits \cup provider[f].optionalTraits
      BY DEF Handled
    <3>2. \A t : t \in Handled(comps[c], provider) <=>
                 \E x \in Served(Raw) : x[1] = c /\
                    t \in provider[x[2]].requiredTraits \cup provider[x[2]].optionalTraits
      <4> TAKE t
      <4>1. ASSUME NEW f \in matchedTFs(comps[c], provider),
                   t \in provider[f].requiredTraits \cup provider[f].optionalTraits
            PROVE  \E x \in Served(Raw) : x[1] = c /\
                      t \in provider[x[2]].requiredTraits \cup provider[x[2]].optionalTraits
        <5>1. <<c, f>> \in Served(Raw) /\ <<c, f>>[1] = c /\ <<c, f>>[2] = f
          BY <2>5
        <5> QED BY <4>1, <5>1, Zenon
      <4> QED BY <2>6, <3>1, <4>1, Zenon
    <3> DEFINE H == Handled(comps[c], provider)
               U(x) == provider[x[2]].requiredTraits \cup provider[x[2]].optionalTraits
    <3>3. \A t : t \in H <=> \E x \in Served(Raw) : x[1] = c /\ t \in U(x)
      BY <3>2, Zenon
    <3> HIDE DEF H, U
    <3>4. comps[c].traits \ H = {t \in comps[c].traits :
                                 \A x \in Served(Raw) : x[1] = c => t \notin U(x)}
      BY <3>3, Zenon
    <3> QED BY <3>4, Zenon DEF H, U
  <2> DEFINE ignored(c) ==
               {t \in comps[c].traits :
                  \A x \in Served(Raw) : x[1] = c =>
                     t \notin provider[x[2]].requiredTraits \cup provider[x[2]].optionalTraits}
             unhandled(c) == comps[c].traits \ Handled(comps[c], provider)
  <2>9. \A c \in DOMAIN comps : unhandled(c) = ignored(c)
    BY <2>8, Zenon
  <2> HIDE DEF ignored, unhandled
  <2>10. UNION {{c} \X unhandled(c) : c \in DOMAIN comps}
           = UNION {{c} \X ignored(c) : c \in DOMAIN comps}
    BY <2>9, Zenon
  <2>11. Plan.unhandled = UNION {{c} \X ignored(c) : c \in DOMAIN comps}
    BY <2>1, <2>10, Zenon DEF unhandled
  <2>12. Ignored = UNION {{c} \X ignored(c) : c \in DOMAIN comps}
    BY DEF Ignored, ignored, comps
  <2> QED BY <1>2, <2>4, <2>7, <2>11, <2>12, Zenon DEF comps
<1> QED BY <1>1, <1>2

\* The served pairs are finitely many pairs of integers, each with a list of
\* outputs.
LEMMA ServedFinite ==
    ASSUME provider \in Providers, pkg \in Packages, Raw.components # NoComponents
    PROVE  /\ Served(Raw) \in SUBSET (Int \X Int) /\ IsFiniteSet(Served(Raw))
           /\ \A x \in Served(Raw) :
                Raw.outputs[x].items \in Seq(Range(Raw.outputs[x].items))
<1>1. CASE provider = NoTransformers
  BY <1>1, FS_EmptySet DEF Served
<1>2. CASE provider # NoTransformers
  <2> DEFINE names == DOMAIN Raw.components
             all == names \X (DOMAIN provider)
  <2>1. /\ DOMAIN provider \subseteq Int /\ IsFiniteSet(DOMAIN provider)
        /\ names \subseteq Int /\ IsFiniteSet(names)
        /\ \A x \in all : Raw.outputs[x].items \in Seq(Range(Raw.outputs[x].items))
    BY <1>2, MatchingAssumptions DEF Raw
  <2>2. Served(Raw) \subseteq all
    BY <1>2 DEF Served
  <2> HIDE DEF names
  <2>3. IsFiniteSet(all)
    BY <2>1, FS_Product
  <2>4. all \subseteq Int \X Int
    BY <2>1, Zenon
  <2> HIDE DEF all
  <2>5. IsFiniteSet(Served(Raw))
    BY <2>2, <2>3, FS_Subset
  <2> QED BY <2>1, <2>2, <2>4, <2>5
<1> QED BY <1>1, <1>2

\* MatchedPairs is the one sorted list of the pairs.
LEMMA MatchedPairsSorted ==
    ASSUME provider \in Providers, pkg \in Packages, Raw.components # NoComponents,
           NEW s \in MatchedPairs(Plan)
    PROVE  s \in Arrangements(Served(Raw)) /\ Sorted(s)
<1>1. Plan.pairs = Served(Raw)
  BY MatchServes, Zenon
<1>2. /\ s \in Arrangements(Served(Raw))
      /\ \A i, j \in DOMAIN s : i < j => ~PairLess(s[j], s[i])
  BY <1>1 DEF MatchedPairs
<1>3. Served(Raw) \in SUBSET (Int \X Int) /\ IsFiniteSet(Served(Raw))
  BY ServedFinite, Zenon
<1>4. PICK n \in Nat : /\ n = Cardinality(Served(Raw)) /\ s \in [1..n -> Served(Raw)]
                       /\ \A i, j \in 1..n : i # j => s[i] # s[j]
  <2>1. IsFiniteSet(Served(Raw)) /\ s \in Arrangements(Served(Raw))
    BY <1>2, <1>3
  <2> QED BY <2>1, ListsAll
<1>5. ASSUME NEW i \in 1..n, NEW j \in 1..n, i < j PROVE Before(s[i], s[j])
  <2>1. s[i] \in Int \X Int /\ s[j] \in Int \X Int /\ s[i] # s[j]
    BY <1>3, <1>4, <1>5
  <2>2. ~PairLess(s[j], s[i])
    BY <1>2, <1>4, <1>5
  <2> QED BY <2>1, <2>2 DEF PairLess, Before
<1> QED BY <1>2, <1>4, <1>5 DEF Sorted

-----------------------------------------------------------------------------

\* A list of resources has none; every resource of it has an inventory entry.
Blank(s) == s = <<>>
Converting(s) == \A i \in DOMAIN s : s[i].converts

\* What a list after a list has.
LEMMA AfterList ==
    ASSUME NEW A, NEW s \in Seq(A), NEW B, NEW t \in Seq(B)
    PROVE  /\ s \o t \in Seq(A \cup B)
           /\ Blank(s \o t) <=> Blank(s) /\ Blank(t)
           /\ Converting(s \o t) <=> Converting(s) /\ Converting(t)
<1>1. s \in Seq(A \cup B) /\ t \in Seq(A \cup B)
  OBVIOUS
<1>2. /\ s \o t \in Seq(A \cup B) /\ Len(s \o t) = Len(s) + Len(t)
      /\ \A i \in 1..Len(s) + Len(t) :
           (s \o t)[i] = IF i <= Len(s) THEN s[i] ELSE t[i - Len(s)]
  BY <1>1
<1>3. Len(s) \in Nat /\ Len(t) \in Nat /\ DOMAIN s = 1..Len(s) /\ DOMAIN t = 1..Len(t)
      /\ DOMAIN (s \o t) = 1..Len(s) + Len(t)
  BY <1>1, <1>2
<1> DEFINE u == s \o t
<1> HIDE DEF u
<1>4. Blank(u) <=> Blank(s) /\ Blank(t)
  BY <1>2, <1>3 DEF u, Blank
<1>5. ASSUME Converting(s), Converting(t) PROVE Converting(u)
  BY <1>2, <1>3, <1>5 DEF u, Converting
<1>6. ASSUME Converting(u) PROVE Converting(s)
  BY <1>2, <1>3, <1>6 DEF u, Converting
<1>7. ASSUME Converting(u) PROVE Converting(t)
  <2> SUFFICES ASSUME NEW i \in 1..Len(t) PROVE t[i].converts
    BY <1>3 DEF Converting
  <2>1. i + Len(s) \in 1..Len(s) + Len(t) /\ ~(i + Len(s) <= Len(s))
        /\ i + Len(s) - Len(s) = i
    BY <1>3
  <2>2. u[i + Len(s)] = t[i]
    BY <1>2, <2>1 DEF u
  <2> QED BY <1>3, <1>7, <2>1, <2>2 DEF u, Converting
<1> QED BY <1>2, <1>4, <1>5, <1>6, <1>7, Zenon DEF u

\* The resources of a pair are a list, as long as the outputs, of the same ids.
LEMMA ResourcesListed ==
    ASSUME NEW x, Raw.outputs[x].items \in Seq(Range(Raw.outputs[x].items))
    PROVE  /\ \E A : Resources(x) \in Seq(A)
           /\ Blank(Resources(x)) <=> ~(Len(Collect(Raw.outputs[x])) > 0)
           /\ Converting(Resources(x)) <=>
                LET items == Collect(Raw.outputs[x])
                IN  \A i \in DOMAIN items : items[i].converts
<1> DEFINE items == Collect(Raw.outputs[x])
           made1(i) == [id |-> items[i].id, converts |-> items[i].converts,
                        content |-> <<items[i].content, values>>]
           A == {made1(i) : i \in DOMAIN items}
<1>1. \E B : items \in Seq(B)
  <2>1. items = <<>> \/ items = <<Raw.outputs[x].self>> \/ items = Raw.outputs[x].items
    BY DEF Collect
  <2>2. <<>> \in Seq({})
    OBVIOUS
  <2>3. <<Raw.outputs[x].self>> \in Seq({Raw.outputs[x].self})
    OBVIOUS
  <2> QED BY <2>1, <2>2, <2>3, Zenon
<1>2. Len(items) \in Nat /\ DOMAIN items = 1..Len(items)
  BY <1>1
<1>3. Resources(x) = [i \in DOMAIN items |-> made1(i)]
  BY DEF Resources
<1> HIDE DEF items
<1>4. Resources(x) \in [1..Len(items) -> A]
  BY <1>2, <1>3, Zenon
<1> HIDE DEF A
<1>5. Resources(x) \in Seq(A)
  BY <1>2, <1>4, FunctionsAreLists, Zenon
<1>6. Blank(Resources(x)) <=> Len(items) = 0
  BY <1>2, <1>4, FunctionsAreLists, Zenon DEF Blank
<1>7. Converting(Resources(x)) <=> \A i \in DOMAIN items : items[i].converts
  BY <1>3 DEF Converting
<1>8. Len(items) = 0 <=> ~(Len(items) > 0)
  BY <1>2
<1> QED BY <1>5, <1>6, <1>7, <1>8, Zenon DEF items

-----------------------------------------------------------------------------
\* The stages of a render.

\* The resources of the first k pairs of the list s, in g.
Grown(s, k, g) ==
    g = [i \in 0..k |-> IF i = 0 THEN <<>> ELSE g[i - 1] \o Resources(s[i])]

\* The list m has the resources of the first k pairs of the list s.
Carries(s, k, m) ==
    /\ \E A : m \in Seq(A)
    /\ Blank(m) <=> \A i \in 1..k : Blank(Resources(s[i]))
    /\ Converting(m) <=> \A i \in 1..k : Converting(Resources(s[i]))
    /\ \E g : Grown(s, k, g) /\ m = g[k]

\* After the first k pairs of the list s, none of which may have failed.
Smooth(s, k) ==
    /\ warned = Warnings(Plan) \cup UNION {PairWarnings(s[i]) : i \in 1..k}
    /\ Carries(s, k, made)

Executed(s, k) ==
    /\ todo = SubSeq(s, k + 1, Len(s))
    /\ failed = {s[i] : i \in {j \in 1..k : OutputFails(Raw.outputs[s[j]])}}
    /\ failed = {} => Smooth(s, k)

ExecShape ==
    stage = "execute" => \E s \in MatchedPairs(Plan) : \E k \in 0..Len(s) : Executed(s, k)

\* What is to be rendered has arrived.
Delivered ==
    /\ job.kind = "Release" => Acceptable(ref, body)
    /\ Wanted \notin {NoPath, NoFile}

\* What the stages so far have found in order.
GateShape ==
    /\ stage \in {"parse", "match", "execute"} =>
         /\ Delivered /\ job.kind # "none" /\ Raw.loads
         /\ job.kind = "Release" => Raw.kind = "ModuleRelease"
    /\ stage \in {"match", "execute"} => Raw.metadata /\ Fit(Raw)
    /\ stage = "execute" =>
         Raw.components # NoComponents /\ Raw.finalizes /\ Executable(Plan)
    /\ stage # "returned" => result = NoResult
    /\ stage \notin {"execute", "returned"} => made = <<>> /\ failed = {}

RenderInv == GateShape /\ ExecShape /\ RenderVerdict /\ RendersAgree /\ IgnoredReported

-----------------------------------------------------------------------------

\* The pairs of the plan, as a list.
LEMMA PlanListed ==
    ASSUME provider \in Providers, pkg \in Packages, Raw.components # NoComponents,
           NEW s \in MatchedPairs(Plan)
    PROVE  /\ Len(s) \in Nat /\ s \in [1..Len(s) -> Served(Raw)]
           /\ s \in Seq(Served(Raw))
           /\ \A x \in Served(Raw) : \E i \in 1..Len(s) : s[i] = x
<1>1. s \in Arrangements(Served(Raw)) /\ IsFiniteSet(Served(Raw))
  BY MatchedPairsSorted, ServedFinite, Zenon
<1>2. PICK n \in Nat : /\ n = Cardinality(Served(Raw)) /\ s \in [1..n -> Served(Raw)]
                       /\ \A x \in Served(Raw) : \E i \in 1..n : s[i] = x
  BY <1>1, ListsAll
<1>3. Len(s) = n /\ s \in Seq(Served(Raw))
  BY <1>2
<1> QED BY <1>2, <1>3

\* One more pair, without an error.
LEMMA GrowsByOne ==
    ASSUME NEW s, NEW k \in Nat, Carries(s, k, made),
           NEW B, Resources(s[k + 1]) \in Seq(B),
           NEW more, more = made \o Resources(s[k + 1])
    PROVE  Carries(s, k + 1, more)
<1> DEFINE r(i) == Resources(s[i])
<1>0. \A i : i \in 1..k + 1 <=> i \in 1..k \/ i = k + 1
  OBVIOUS
<1>1. PICK A : made \in Seq(A)
  BY Zenon DEF Carries
<1>2. /\ more \in Seq(A \cup B)
      /\ Blank(more) <=> Blank(made) /\ Blank(r(k + 1))
      /\ Converting(more) <=> Converting(made) /\ Converting(r(k + 1))
  <2> DEFINE t == r(k + 1)
  <2>1. t \in Seq(B) /\ more = made \o t
    OBVIOUS
  <2> HIDE DEF t
  <2>2. /\ made \o t \in Seq(A \cup B)
        /\ Blank(made \o t) <=> Blank(made) /\ Blank(t)
        /\ Converting(made \o t) <=> Converting(made) /\ Converting(t)
    BY <1>1, <2>1, AfterList, Zenon
  <2> QED BY <2>1, <2>2, Zenon DEF t
<1>3. /\ Blank(made) <=> \A i \in 1..k : Blank(r(i))
      /\ Converting(made) <=> \A i \in 1..k : Converting(r(i))
  BY Zenon DEF Carries
<1>4. Blank(more) <=> \A i \in 1..k + 1 : Blank(r(i))
  BY <1>0, <1>2, <1>3, Zenon
<1>5. Converting(more) <=> \A i \in 1..k + 1 : Converting(r(i))
  BY <1>0, <1>2, <1>3, Zenon
<1>6. \E g : Grown(s, k + 1, g) /\ more = g[k + 1]
  <2>1. PICK h : Grown(s, k, h) /\ made = h[k]
    BY Zenon DEF Carries
  <2> DEFINE g == [i \in 0..k + 1 |-> IF i = k + 1 THEN more ELSE h[i]]
  <2>2. h = [i \in 0..k |-> IF i = 0 THEN <<>> ELSE h[i - 1] \o r(i)]
    BY <2>1, Zenon DEF Grown
  <2>3. ASSUME NEW i \in 0..k + 1
        PROVE  g[i] = IF i = 0 THEN <<>> ELSE g[i - 1] \o r(i)
    <3> HIDE DEF r
    <3>1. CASE i = k + 1
      <4>1. g[i] = more /\ i # 0 /\ g[i - 1] = h[k]
        BY <3>1
      <4>2. more = made \o r(i)
        BY <3>1 DEF r
      <4> QED BY <2>1, <4>1, <4>2, Zenon
    <3>2. CASE i \in 1..k
      <4>1. g[i] = h[i] /\ g[i - 1] = h[i - 1]
        BY <3>2
      <4>2. i \in 0..k /\ i # 0
        BY <3>2
      <4>3. h[i] = h[i - 1] \o r(i)
        BY <2>2, <4>2, Zenon
      <4> QED BY <4>1, <4>2, <4>3, Zenon
    <3>3. CASE i = 0
      BY <2>2, <3>3
    <3> QED BY <3>1, <3>2, <3>3
  <2>4. g = [i \in 0..k + 1 |-> g[i]] /\ g[k + 1] = more
    OBVIOUS
  <2> HIDE DEF g
  <2>5. Grown(s, k + 1, g)
    BY <2>3, <2>4, Zenon DEF Grown
  <2> QED BY <2>4, <2>5, Zenon
<1>7. \E C : more \in Seq(C)
  BY <1>2, Zenon
<1> QED BY <1>4, <1>5, <1>6, <1>7, Zenon DEF Carries

\* The list that is executed is the one that Expected chooses.
LEMMA ExpectedIsExecuted ==
    ASSUME provider \in Providers, pkg \in Packages, Raw.components # NoComponents,
           NEW s \in MatchedPairs(Plan), Smooth(s, Len(s))
    PROVE  made = Expected
<1> DEFINE n == Len(s)
           InOrder(t) == \A i, j \in DOMAIN t : i < j =>
                            t[i][1] < t[j][1] \/ (t[i][1] = t[j][1] /\ t[i][2] < t[j][2])
           pairs == CHOOSE t \in Arrangements(Served(Raw)) : InOrder(t)
           Appends(f) ==
             f = [i \in 0..Len(pairs) |-> IF i = 0 THEN <<>> ELSE f[i - 1] \o Resources(pairs[i])]
           upTo == CHOOSE f : Appends(f)
<1>1. \A t : InOrder(t) <=> Sorted(t)
  BY DEF Sorted, Before
<1>2. Expected = upTo[Len(pairs)]
  BY DEF Expected
<1>3. s \in Arrangements(Served(Raw)) /\ Sorted(s)
  BY MatchedPairsSorted, Zenon
<1>4. Served(Raw) \in SUBSET (Int \X Int) /\ IsFiniteSet(Served(Raw))
  BY ServedFinite, Zenon
<1>5. pairs \in Arrangements(Served(Raw)) /\ Sorted(pairs)
  <2> HIDE DEF InOrder
  <2> QED BY <1>1, <1>3, Zenon
<1> HIDE DEF pairs
<1>6. pairs = s
  BY <1>3, <1>4, <1>5, SortedOnce
<1>7. n \in Nat /\ DOMAIN s = 1..n
  BY PlanListed
<1>8. PICK g : Grown(s, n, g) /\ made = g[n]
  BY Zenon DEF Smooth, Carries
<1>9. Appends(g)
  BY <1>6, <1>8 DEF Grown
<1>10. Appends(upTo)
  <2> HIDE DEF Appends
  <2> QED BY <1>9, Zenon
<1> DEFINE r == [i \in 1..n |-> Resources(s[i])]
<1> HIDE DEF upTo
<1>11. /\ g = [i \in 0..n |-> IF i = 0 THEN <<>> ELSE g[i - 1] \o r[i]]
       /\ upTo = [i \in 0..n |-> IF i = 0 THEN <<>> ELSE upTo[i - 1] \o r[i]]
  <2>1. \A i \in 0..n : i # 0 => r[i] = Resources(s[i])
    BY <1>7
  <2> HIDE DEF r
  <2> QED BY <1>6, <1>9, <1>10, <2>1, Zenon
<1> HIDE DEF r
<1>12. upTo[n] = g[n]
  <2>1. n \in Nat
    BY <1>7
  <2> HIDE DEF n
  <2> QED BY <1>11, <2>1, AppendsOnce
<1> QED BY <1>2, <1>6, <1>8, <1>12

\* After the last pair: the render succeeds exactly when the package can be
\* rendered, and then it has all the resources, in order, and all the warnings.
LEMMA ExecutionComplete ==
    ASSUME PInv, GateShape, ExecShape, stage = "execute", todo = <<>>
    PROVE  /\ Execute /\ made # <<>> /\ buildInventoryEntries <=> Renderable(Raw)
           /\ Execute /\ made # <<>> => made = Expected /\ warned = Ignored \cup Undecoded
<1>1. /\ provider \in Providers /\ pkg \in Packages /\ Raw.components # NoComponents
      /\ Raw.loads /\ Raw.metadata /\ Raw.finalizes /\ Fit(Raw) /\ Plan.unmatched = {}
      /\ job.kind = "Release" => Raw.kind = "ModuleRelease"
  BY DEF PInv, TypeOK, GateShape, Executable
<1>2. PICK s \in MatchedPairs(Plan) : \E k \in 0..Len(s) : Executed(s, k)
  BY DEF ExecShape
<1>3. PICK k \in 0..Len(s) : Executed(s, k)
  BY <1>2
<1>4. /\ Len(s) \in Nat /\ s \in [1..Len(s) -> Served(Raw)] /\ s \in Seq(Served(Raw))
      /\ \A x \in Served(Raw) : \E i \in 1..Len(s) : s[i] = x
  BY <1>1, PlanListed, Zenon
<1>5. k = Len(s)
  <2> DEFINE rest == SubSeq(s, k + 1, Len(s))
  <2>1. rest = <<>>
    BY <1>3 DEF Executed
  <2>2. k < Len(s) => Len(rest) = Len(s) - k
    BY <1>3, <1>4, SubSeqProperties
  <2> HIDE DEF rest
  <2>3. Len(rest) = 0
    BY <2>1
  <2> QED BY <1>3, <1>4, <2>2, <2>3
<1> DEFINE n == Len(s)
<1>6. /\ failed = {s[i] : i \in {j \in 1..n : OutputFails(Raw.outputs[s[j]])}}
      /\ failed = {} => Smooth(s, n)
  BY <1>3, <1>5, Zenon DEF Executed
<1>7. Execute <=> \A x \in Served(Raw) : Raw.outputs[x].form \notin {"error", "scalar"}
  <2>1. \A i \in 1..n : s[i] \in Served(Raw)
    BY <1>4
  <2>2. failed = {} <=> \A i \in 1..n : ~OutputFails(Raw.outputs[s[i]])
    BY <1>6, Zenon
  <2>3. failed = {} <=> \A x \in Served(Raw) : ~OutputFails(Raw.outputs[x])
    BY <1>4, <2>1, <2>2, Zenon
  <2> QED BY <2>3, Zenon DEF Execute, OutputFails
<1>8. \A x \in Served(Raw) :
        /\ Blank(Resources(x)) <=> ~(Len(Collect(Raw.outputs[x])) > 0)
        /\ Converting(Resources(x)) <=>
             LET items == Collect(Raw.outputs[x])
             IN  \A i \in DOMAIN items : items[i].converts
  BY <1>1, ServedFinite, ResourcesListed, Zenon
<1>9. ASSUME Execute
      PROVE  made # <<>> <=> \E x \in Served(Raw) : Len(Collect(Raw.outputs[x])) > 0
  <2>1. Blank(made) <=> \A i \in 1..n : Blank(Resources(s[i]))
    BY <1>6, <1>9, Zenon DEF Execute, Smooth, Carries
  <2>2. \A i \in 1..n : s[i] \in Served(Raw)
    BY <1>4
  <2>3. Blank(made) <=> \A x \in Served(Raw) : ~(Len(Collect(Raw.outputs[x])) > 0)
    BY <1>4, <1>8, <2>1, <2>2, Zenon
  <2> QED BY <2>3, Zenon DEF Blank
<1>10. ASSUME Execute
       PROVE  buildInventoryEntries <=>
                \A x \in Served(Raw) :
                   LET items == Collect(Raw.outputs[x])
                   IN  \A i \in DOMAIN items : items[i].converts
  <2>1. Converting(made) <=> \A i \in 1..n : Converting(Resources(s[i]))
    BY <1>6, <1>10, Zenon DEF Execute, Smooth, Carries
  <2>2. \A i \in 1..n : s[i] \in Served(Raw)
    BY <1>4
  <2>3. Converting(made) <=> \A x \in Served(Raw) : Converting(Resources(x))
    BY <1>4, <2>1, <2>2, Zenon
  <2> QED BY <1>8, <2>3, Zenon DEF Converting, buildInventoryEntries
<1>11. ASSUME NEW x \in Served(Raw)
       PROVE  /\ provider # NoTransformers /\ x[1] \in DOMAIN Raw.components
              /\ \A c \in DOMAIN Raw.components : \E y \in Served(Raw) : y[1] = c
  <2>1. provider # NoTransformers /\ x[1] \in DOMAIN Raw.components
    BY DEF Served
  <2> QED BY <1>1, <2>1, MatchServes, Zenon
<1>12. Execute /\ made # <<>> /\ buildInventoryEntries <=> Renderable(Raw)
  <2>1. ASSUME Execute, made # <<>>, buildInventoryEntries PROVE Renderable(Raw)
    BY <1>1, <1>7, <1>9, <1>10, <1>11, <2>1, Zenon DEF Renderable
  <2>2. ASSUME Renderable(Raw) PROVE Execute
    BY <1>7, <2>2, Zenon DEF Renderable
  <2>3. ASSUME Renderable(Raw) PROVE made # <<>> /\ buildInventoryEntries
    BY <1>9, <1>10, <2>2, <2>3, Zenon DEF Renderable
  <2> QED BY <2>1, <2>2, <2>3
<1>13. ASSUME Execute, made # <<>> PROVE made = Expected
  BY <1>1, <1>6, <1>13, ExpectedIsExecuted, Zenon DEF Execute
<1>14. ASSUME Execute, made # <<>> PROVE warned = Ignored \cup Undecoded
  <2> DEFINE undecoded == {d \in DOMAIN Raw.components : ~Raw.components[d].decodes}
  <2>1. \E x \in Served(Raw) : TRUE
    BY <1>9, <1>14
  <2>2. provider # NoTransformers
    BY <1>11, <2>1
  <2>3. warned = Plan.unhandled \cup UNION {PairWarnings(s[i]) : i \in 1..n}
    BY <1>6, <1>14, Zenon DEF Execute, Smooth, Warnings
  <2>4. UNION {PairWarnings(s[i]) : i \in 1..n} = {<<c, "metadata">> : c \in undecoded}
    <3>1. ASSUME NEW w \in UNION {PairWarnings(s[i]) : i \in 1..n}
          PROVE  w \in {<<c, "metadata">> : c \in undecoded}
      <4>1. PICK i \in 1..n : w \in PairWarnings(s[i])
        BY <3>1
      <4>2. s[i] \in Served(Raw)
        BY <1>4
      <4> QED BY <1>11, <4>1, <4>2 DEF PairWarnings
    <3>2. ASSUME NEW c \in undecoded
          PROVE  <<c, "metadata">> \in UNION {PairWarnings(s[i]) : i \in 1..n}
      <4>1. PICK x \in Served(Raw) : x[1] = c
        BY <1>11, <2>1
      <4>2. PICK i \in 1..n : s[i] = x
        BY <1>4
      <4>3. <<c, "metadata">> \in PairWarnings(s[i])
        BY <4>1, <4>2 DEF PairWarnings
      <4> QED BY <4>3
    <3> QED BY <3>1, <3>2, Zenon
  <2>5. Plan.unhandled = Ignored
    BY <2>2, MatchServes, Zenon
  <2>6. Undecoded = {<<c, "metadata">> : c \in undecoded}
    BY DEF Undecoded
  <2> HIDE DEF undecoded
  <2> QED BY <2>3, <2>4, <2>5, <2>6, Zenon
<1> QED BY <1>12, <1>13, <1>14

-----------------------------------------------------------------------------
\* Every step keeps what the stages have found.

\* What is in the directory at the load is what is wanted, and it has arrived.
LEMMA AtLoad ==
    ASSUME PInv, stage = "load"
    PROVE  Delivered /\ job.kind # "none" /\ InDir = Wanted /\ InDir \in Packages
<1>1. CASE job.kind = "ModuleRelease" /\ job.module \in Packages
  BY <1>1, PipelineAssumptions DEF Delivered, InDir, Wanted
<1>2. CASE /\ job.kind = "Release" /\ job.path \in Paths /\ ref \in Artifacts
           /\ Unpacked
           /\ Archive[ref].tree[job.path] \in Packages
  <2>1. InDir = Wanted /\ Wanted \in Packages
    BY <1>2 DEF InDir, Wanted, Extracted, Entries, Unpacked, Sound
  <2>2. DOMAIN Archive[ref].entries = 1..Len(Archive[ref].entries)
    BY <1>2, FetchAssumptions
  <2>3. Acceptable(ref, body)
    BY <1>2, <2>2 DEF Unpacked, Sound, Acceptable
  <2> QED BY <1>2, <2>1, <2>3, PipelineAssumptions DEF Delivered
<1> QED BY <1>1, <1>2 DEF PInv, RenderShape

\* A render that fails, because of a fault or because it cannot succeed.
LEMMA FailsRightly ==
    ASSUME stage' = "returned", NEW reason, result' = Failed(reason),
           UNCHANGED <<ref, body, job, provider>>,
           faulted' \/ ~(Delivered /\ Renderable(Content[Wanted]))
    PROVE  RenderInv'
<1>1. result'.state = "failed"
  BY FailedState
<1>2. GateShape' /\ ExecShape' /\ RendersAgree' /\ IgnoredReported'
  BY <1>1, Zenon DEF GateShape, ExecShape, RendersAgree, IgnoredReported
<1>3. (Delivered /\ Renderable(Content[Wanted]))' <=> Delivered /\ Renderable(Content[Wanted])
  <2>1. Wanted' = Wanted /\ (Renderable(Content[Wanted])' <=> Renderable(Content[Wanted]))
    BY VerdictSteady
  <2>2. Delivered' <=> Delivered
    BY <2>1, Zenon DEF Delivered, Acceptable
  <2> QED BY <2>1, <2>2
<1>4. RenderVerdict'
  BY <1>1, <1>3, Zenon DEF RenderVerdict, Delivered
<1> QED BY <1>2, <1>4 DEF RenderInv

\* A step before the package is loaded, or after everything.
LEMMA StaysQuiet ==
    ASSUME stage' \notin {"parse", "match", "execute", "returned"},
           result' = NoResult, made' = <<>>, failed' = {}
    PROVE  RenderInv'
<1>1. result'.state = "none"
  BY Zenon DEF NoResult
<1> QED BY <1>1 DEF RenderInv, GateShape, ExecShape, RenderVerdict, RendersAgree,
                    IgnoredReported

\* A step from one stage of the render to the next one.
LEMMA GoesOn ==
    ASSUME RenderInv, Rendering, stage # "returned", stage' \notin {"returned"},
           GateShape', ExecShape'
    PROVE  RenderInv'
<1>1. result' = NoResult
  BY DEF RenderInv, GateShape, Rendering
<1>2. result'.state = "none"
  BY <1>1, Zenon DEF NoResult
<1> QED BY <1>2, Zenon DEF RenderInv, RenderVerdict, RendersAgree, IgnoredReported

\* A render begins: no fault, and nothing is known yet.
LEMMA BeginIsRight ==
    ASSUME PInv, RenderInv,
           \/ \E a \in Artifacts, path \in Paths : BeginRelease(a, path)
           \/ \E m \in Modules, given \in GivenValues : BeginModuleRelease(m, given)
    PROVE  RenderInv'
<1>1. stage = "idle" /\ \E next \in {"fetch", "load"} : \E reason : MakeDir(next, reason)
  BY DEF BeginRelease, BeginModuleRelease
<1>2. PICK next \in {"fetch", "load"} : \E reason : MakeDir(next, reason)
  BY <1>1, Zenon
<1>3. PICK reason : MakeDir(next, reason)
  BY <1>2
<1>4. made' = <<>> /\ failed' = {} /\ result = NoResult
  BY <1>1, <1>3 DEF RenderInv, GateShape, MakeDir, renderVars
<1>5. CASE stage' = next /\ UNCHANGED result
  BY <1>4, <1>5, StaysQuiet
<1>6. CASE stage' = "returned" /\ faulted' = TRUE /\ result' = Failed(reason)
  <2>1. result'.state = "failed"
    BY <1>6, FailedState
  <2> QED BY <1>6, <2>1, Zenon DEF RenderInv, GateShape, ExecShape, RenderVerdict, RendersAgree,
                            IgnoredReported
<1> QED BY <1>3, <1>5, <1>6, Zenon DEF MakeDir

\* Fetching, and the return of its caller.
LEMMA FetchingIsRight ==
    ASSUME PInv, RenderInv, FetchStep \/ FetchFails \/ navigateReleasePath
    PROVE  RenderInv'
<1>1. CASE FetchStep
  <2>1. /\ stage \in {"fetch", "verify", "extract"} /\ UNCHANGED <<made, failed, result>>
        /\ stage' \in {"verify", "extract", "refused", "fetched"}
    BY <1>1, Zenon DEF FetchStep, FetchNext, Download, Verify, ExtractEntry, ExtractEnds, Refuse,
                renderVars
  <2> QED BY <2>1, StaysQuiet, Zenon DEF RenderInv, GateShape
<1>2. CASE FetchFails
  <2>1. /\ stage = "refused" /\ stage' = "returned" /\ result' = Failed("FetchFailed")
        /\ UNCHANGED <<ref, body, job, provider, faulted>>
    BY <1>2 DEF FetchFails
  <2>2. faulted \/ ~Delivered
    BY <2>1 DEF PInv, FetchShape, Delivered
  <2> QED BY <2>1, <2>2, FailsRightly
<1>3. CASE navigateReleasePath
  <2>1. stage = "fetched" /\ UNCHANGED faulted
    BY <1>3 DEF navigateReleasePath
  <2>2. Extracted(job.path) = Wanted
    BY <2>1, FetchedIsWanted
  <2>3. CASE Extracted(job.path) \in {NoPath, NoFile}
    <3>1. \E reason : Return(Failed(reason))
      BY <1>3, <2>3 DEF navigateReleasePath
    <3>2. ~Delivered
      BY <2>2, <2>3 DEF Delivered
    <3> QED BY <3>1, <3>2, FailsRightly DEF Return
  <2>4. CASE Extracted(job.path) \notin {NoPath, NoFile}
    <3>1. stage' = "load" /\ UNCHANGED <<made, failed, result>>
      BY <1>3, <2>4 DEF navigateReleasePath, renderVars
    <3> QED BY <2>1, <3>1, StaysQuiet, Zenon DEF RenderInv, GateShape
  <2> QED BY <2>3, <2>4
<1> QED BY <1>1, <1>2, <1>3

\* The package is loaded, or does not load, or has another kind.
LEMMA LoadIsRight == ASSUME PInv, RenderInv, Load PROVE RenderInv'
<1>1. stage = "load"
  BY DEF Load
<1>2. Delivered /\ job.kind # "none" /\ InDir = Wanted /\ InDir \in Packages
  BY <1>1, AtLoad
<1>3. CASE LoadError = "none" /\ stage' = "parse"
  <2>1. /\ UNCHANGED <<ref, body, count, temp, provider, job, made, failed, result>>
        /\ pkg' = InDir /\ faulted' = faulted
    BY <1>1, <1>3 DEF Load, Return
  <2>2. Found.loads /\ (job.kind = "Release" => Found.kind = "ModuleRelease")
    BY <1>3 DEF LoadError
  <2>3. Raw' = Found
    BY <2>1 DEF Raw, Found
  <2>4. Delivered'
    BY <1>2, <2>1, Zenon DEF Delivered, Acceptable, Wanted
  <2>5. GateShape'
    BY <1>1, <1>2, <1>3, <2>1, <2>2, <2>3, <2>4, Zenon DEF RenderInv, GateShape
  <2>6. Rendering
    BY <2>1 DEF Rendering
  <2> QED BY <1>1, <1>3, <2>5, <2>6, GoesOn DEF ExecShape
<1>4. CASE LoadError # "none" /\ Return(Failed(LoadError)) /\ UNCHANGED faulted
  <2>1. ~Renderable(Content[Wanted])
    BY <1>2, <1>4, Zenon DEF LoadError, Found, Renderable
  <2> QED BY <1>4, <2>1, FailsRightly DEF Return
<1>5. CASE Return(Failed("ResolutionFailed")) /\ faulted' = TRUE
  BY <1>5, FailsRightly DEF Return
<1> QED BY <1>3, <1>4, <1>5, Zenon DEF Load

\* The release is parsed, if its values fit.
LEMMA ParseIsRight == ASSUME PInv, RenderInv, ParseModuleRelease PROVE RenderInv'
<1>1. /\ stage = "parse" /\ pkg \in Packages /\ pkg = Wanted /\ job \in Jobs
      /\ Delivered /\ job.kind # "none" /\ Raw = Content[Wanted]
  BY PipelineAssumptions, Zenon DEF ParseModuleRelease, PInv, TypeOK, RenderShape, RenderInv,
                             GateShape, Raw
<1>2. job.kind = "ModuleRelease" => pkg = job.module
  BY <1>1 DEF Wanted
<1> DEFINE bad == \/ job.kind = "ModuleRelease" /\ job.values = Malformed
                  \/ ConfigFails(Raw.schema, Layers)
                  \/ ~Concrete(Filled)
<1>3. Fit(Raw) <=> ~bad
  BY <1>1, <1>2, ParsesWhatFits, Zenon
<1>4. CASE ~Raw.metadata \/ bad
  <2>1. Return(Failed("RenderFailed")) /\ UNCHANGED faulted
    BY <1>4, Zenon DEF ParseModuleRelease, extractModuleFromRelease
  <2>2. ~Renderable(Content[Wanted])
    BY <1>1, <1>3, <1>4, Zenon DEF Renderable
  <2> QED BY <2>1, <2>2, FailsRightly DEF Return
<1>5. CASE Raw.metadata /\ ~bad
  <2>1. stage' = "match" /\ Rendering /\ UNCHANGED <<pkg, made, failed>>
    BY <1>5, Zenon DEF ParseModuleRelease, extractModuleFromRelease
  <2>2. UNCHANGED <<ref, body, job, provider, result>>
    BY <2>1 DEF Rendering
  <2>3. Delivered' /\ Raw' = Raw /\ Fit(Raw)' = Fit(Raw)
    BY <1>1, <2>1, <2>2, Zenon DEF Delivered, Acceptable, Wanted, Raw, Fit
  <2>4. GateShape'
    BY <1>1, <1>3, <1>5, <2>1, <2>2, <2>3, Zenon DEF RenderInv, GateShape
  <2> QED BY <1>1, <2>1, <2>4, GoesOn DEF ExecShape
<1> QED BY <1>4, <1>5

\* What a step of the rendering leaves alone.
LEMMA RenderingSteady ==
    ASSUME GateShape, Rendering, UNCHANGED pkg, stage \in {"match", "execute"},
           stage' = "execute",
           Raw.components # NoComponents, Raw.finalizes, Executable(Plan)
    PROVE  GateShape' /\ Plan' = Plan /\ Raw' = Raw /\ MatchedPairs(Plan)' = MatchedPairs(Plan)
<1>1. UNCHANGED <<ref, body, job, provider, result>>
  BY DEF Rendering
<1>2. Raw' = Raw
  BY DEF Raw
<1>3. Plan' = Plan
  BY <1>1, <1>2 DEF Plan
<1>4. Delivered' <=> Delivered
  BY <1>1, VerdictSteady, Zenon DEF Delivered, Acceptable, Wanted
<1>5. Fit(Raw)' <=> Fit(Raw)
  BY <1>1, <1>2, Zenon DEF Fit
<1>6. GateShape'
  BY <1>1, <1>2, <1>3, <1>4, <1>5, Zenon DEF GateShape, Executable
<1>7. MatchedPairs(Plan)' = MatchedPairs(Plan)
  BY <1>3 DEF MatchedPairs
<1> QED BY <1>2, <1>3, <1>6, <1>7

\* Components are matched, if each of them is served.
LEMMA ProcessIsRight == ASSUME PInv, RenderInv, ProcessModuleRelease PROVE RenderInv'
<1>1. /\ stage = "match" /\ pkg \in Packages /\ pkg = Wanted /\ Raw = Content[Wanted]
      /\ provider \in Providers /\ GateShape /\ made = <<>> /\ failed = {}
  BY PipelineAssumptions, Zenon DEF ProcessModuleRelease, PInv, TypeOK, RenderShape, RenderInv,
                             GateShape, Raw
<1> DEFINE bad == \/ Raw.components = NoComponents
                  \/ ~Raw.finalizes
                  \/ ~Executable(Plan)
<1>2. CASE bad
  <2>1. Return(Failed("RenderFailed")) /\ UNCHANGED faulted
    BY <1>2, Zenon DEF ProcessModuleRelease, FinalizeValue, Plan
  <2>2. ~Executable(Plan) => ~Renderable(Raw)
    <3>1. provider = NoTransformers => Executable(Plan)
      BY Zenon DEF Executable, Plan, Match
    <3> QED BY <3>1, MatchServes, Zenon DEF Executable, Renderable
  <2>3. ~Renderable(Content[Wanted])
    BY <1>1, <1>2, <2>2, Zenon DEF Renderable
  <2> QED BY <2>1, <2>3, FailsRightly DEF Return
<1>3. CASE ~bad
  <2>1. /\ stage' = "execute" /\ todo' \in MatchedPairs(Plan) /\ warned' = Warnings(Plan)
        /\ Rendering /\ UNCHANGED <<pkg, values, made, failed>>
    BY <1>3, Zenon DEF ProcessModuleRelease, FinalizeValue, Plan
  <2>2. GateShape' /\ Plan' = Plan /\ Raw' = Raw /\ MatchedPairs(Plan)' = MatchedPairs(Plan)
    BY <1>1, <1>3, <2>1, RenderingSteady
  <2>3. PICK s \in MatchedPairs(Plan) : todo' = s
    BY <2>1
  <2>4. Len(s) \in Nat /\ s \in Seq(Served(Raw))
    BY <1>1, <1>3, PlanListed
  <2>5. s = SubSeq(s, 0 + 1, Len(s))
    BY <2>4, SubSeqFull
  <2>6. 1..0 = {}
    BY NoneYet, Zenon
  <2>7. Smooth(s, 0)'
    <3>1. warned' = Warnings(Plan)' /\ made' = <<>> /\ <<>> \in Seq({})
      BY <1>1, <2>1, <2>2 DEF Warnings
    <3>2. Converting(<<>>)
      BY DEF Converting
    <3>3. UNION {PairWarnings(s[i])' : i \in {}} = {}
      OBVIOUS
    <3>4. Converting(made)'
      BY <3>1, <3>2 DEF Converting
    <3> DEFINE g == [i \in 0..0 |-> <<>>]
    <3>5. g = [i \in 0..0 |-> IF i = 0 THEN <<>> ELSE g[i - 1] \o Resources(s[i])'] /\ g[0] = <<>>
      OBVIOUS
    <3> HIDE DEF g
    <3>6. (\E h : Grown(s, 0, h) /\ made = h[0])'
      BY <3>1, <3>5 DEF Grown
    <3>7. Blank(made)'
      BY <3>1 DEF Blank
    <3> QED BY <2>6, <3>1, <3>3, <3>4, <3>6, <3>7 DEF Smooth, Carries
  <2>8. Executed(s, 0)'
    BY <1>1, <2>1, <2>3, <2>5, <2>6, <2>7 DEF Executed
  <2>9. 0 \in 0..Len(s)
    BY <2>4
  <2>10. ExecShape'
    BY <2>2, <2>3, <2>8, <2>9, Zenon DEF ExecShape
  <2> QED BY <1>1, <2>1, <2>2, <2>10, GoesOn
<1> QED BY <1>2, <1>3

\* A pair is executed.
LEMMA PairIsRight == ASSUME PInv, RenderInv, executePair PROVE RenderInv'
<1>1. /\ stage = "execute" /\ todo # <<>> /\ pkg \in Packages /\ provider \in Providers
      /\ GateShape /\ Raw.components # NoComponents /\ Raw.finalizes /\ Executable(Plan)
      /\ ExecShape
  BY DEF executePair, PInv, TypeOK, RenderInv, GateShape
<1>2. stage' = "execute" /\ todo' = Tail(todo) /\ Rendering /\ UNCHANGED <<pkg, values>>
  BY <1>1 DEF executePair
<1>3. GateShape' /\ Plan' = Plan /\ Raw' = Raw /\ MatchedPairs(Plan)' = MatchedPairs(Plan)
  BY <1>1, <1>2, RenderingSteady
<1>4. PICK s \in MatchedPairs(Plan) : \E k \in 0..Len(s) : Executed(s, k)
  BY <1>1 DEF ExecShape
<1>5. PICK k \in 0..Len(s) : Executed(s, k)
  BY <1>4
<1>6. Len(s) \in Nat /\ s \in [1..Len(s) -> Served(Raw)] /\ s \in Seq(Served(Raw))
  BY <1>1, PlanListed
<1>7. k \in Nat /\ k + 1 \in 1..Len(s) /\ k + 1 \in 0..Len(s) /\ Len(s) \in k + 1..Len(s)
  <2>1. k = Len(s) => SubSeq(s, k + 1, Len(s)) = <<>>
    BY <1>6, SubSeqEmpty
  <2>2. k # Len(s)
    BY <1>1, <1>5, <2>1, Zenon DEF Executed
  <2>3. Len(s) \in Nat /\ k \in 0..Len(s)
    BY <1>5, <1>6
  <2> QED BY <2>2, <2>3
<1> DEFINE x == s[k + 1]
<1>8. Head(todo) = x /\ todo' = SubSeq(s, k + 1 + 1, Len(s))
  <2>1. todo = SubSeq(s, k + 1, Len(s))
    BY <1>5 DEF Executed
  <2>2. /\ Head(SubSeq(s, k + 1, Len(s))) = x
        /\ Tail(SubSeq(s, k + 1, Len(s))) = SubSeq(s, k + 1 + 1, Len(s))
    BY <1>6, <1>7, HeadTailOfSubSeq
  <2> QED BY <1>2, <2>1, <2>2, Zenon
<1>9. x \in Served(Raw)
  BY <1>6, <1>7
<1>10. \A i : i \in 1..k + 1 <=> i \in 1..k \/ i = k + 1
  BY <1>7
<1> HIDE DEF x
<1> DEFINE fails(i) == OutputFails(Raw.outputs[s[i]])
           failing(m) == {s[i] : i \in {j \in 1..m : fails(j)}}
<1>11. failed = failing(k) /\ (failed = {} => Smooth(s, k))
  BY <1>5, Zenon DEF Executed
<1>12. failing(k + 1) = IF fails(k + 1) THEN failing(k) \cup {x} ELSE failing(k)
  <2> HIDE DEF fails
  <2> QED BY <1>10 DEF x
<1>13. failing(k + 1)' = failing(k + 1)
  BY <1>3
<1>14. failed' = failing(k + 1)'
  BY <1>1, <1>8, <1>11, <1>12, <1>13, Zenon DEF executePair, x
<1>15. ASSUME failed' = {} PROVE Smooth(s, k + 1)'
  <2>1. ~fails(k + 1) /\ failed = {}
    BY <1>11, <1>12, <1>13, <1>14, <1>15, Zenon
  <2>2. made' = made \o Resources(x) /\ warned' = warned \cup PairWarnings(x)
    BY <1>1, <1>8, <2>1, Zenon DEF executePair, x
  <2>3. /\ \A y : Resources(y)' = Resources(y)
        /\ \A y : PairWarnings(y)' = PairWarnings(y)
    BY <1>2, <1>3, Zenon DEF Resources, PairWarnings
  <2>4. Smooth(s, k)
    BY <1>11, <2>1, Zenon
  <2>5. PICK B : Resources(s[k + 1]) \in Seq(B)
    BY <1>1, <1>9, ServedFinite, ResourcesListed, Zenon DEF x
  <2>6. Carries(s, k + 1, made')
    <3>1. k \in Nat /\ made' = made \o Resources(s[k + 1])
      BY <1>7, <2>2 DEF x
    <3>2. Carries(s, k, made)
      BY <2>4, Zenon DEF Smooth
    <3> QED BY <2>5, <3>1, <3>2, GrowsByOne, Zenon
  <2>7. warned' = Warnings(Plan)' \cup UNION {PairWarnings(s[i]) : i \in 1..k + 1}
    <3>1. warned = Warnings(Plan) \cup UNION {PairWarnings(s[i]) : i \in 1..k}
      BY <2>4, Zenon DEF Smooth
    <3>2. Warnings(Plan)' = Warnings(Plan)
      BY <1>3 DEF Warnings
    <3> DEFINE P(i) == PairWarnings(s[i])
               W == Warnings(Plan)
    <3>3. warned' = (W \cup (UNION {P(i) : i \in 1..k})) \cup P(k + 1)
      BY <2>2, <3>1, Zenon DEF x
    <3> HIDE DEF P, W
    <3>4. UNION {P(i) : i \in 1..k + 1} = (UNION {P(i) : i \in 1..k}) \cup P(k + 1)
      <4>1. \A w : w \in UNION {P(i) : i \in 1..k + 1} <=> \E i \in 1..k + 1 : w \in P(i)
        BY Zenon
      <4>2. \A w : w \in UNION {P(i) : i \in 1..k} <=> \E i \in 1..k : w \in P(i)
        BY Zenon
      <4>3. \A w : w \in UNION {P(i) : i \in 1..k + 1} <=>
                   w \in (UNION {P(i) : i \in 1..k}) \cup P(k + 1)
        <5> TAKE w
        <5>1. (\E i \in 1..k + 1 : w \in P(i)) <=> (\E i \in 1..k : w \in P(i)) \/ w \in P(k + 1)
          BY <1>10
        <5> QED BY <4>1, <4>2, <5>1
      <4> QED BY <4>3, Zenon
    <3>5. warned' = W \cup UNION {P(i) : i \in 1..k + 1}
      BY <3>3, <3>4
    <3> QED BY <3>2, <3>5, Zenon DEF P, W
  <2>8. Carries(s, k + 1, made)' <=> Carries(s, k + 1, made')
    <3>1. \A g : Grown(s, k + 1, g)' <=> Grown(s, k + 1, g)
      BY <2>3, Zenon DEF Grown
    <3>2. /\ Converting(made)' <=> Converting(made')
          /\ \A y : Converting(Resources(y))' <=> Converting(Resources(y))
          /\ Blank(made)' <=> Blank(made')
          /\ \A y : Blank(Resources(y))' <=> Blank(Resources(y))
      BY <2>3 DEF Converting, Blank
    <3> QED BY <3>1, <3>2 DEF Carries
  <2> QED BY <2>3, <2>6, <2>7, <2>8 DEF Smooth
<1>16. Executed(s, k + 1)'
  BY <1>8, <1>14, <1>15, Zenon DEF Executed
<1>17. ExecShape'
  BY <1>3, <1>4, <1>7, <1>16, Zenon DEF ExecShape
<1> QED BY <1>1, <1>2, <1>3, <1>17, GoesOn

\* The render returns what it made, or finds that there is nothing to return.
LEMMA EndIsRight == ASSUME PInv, RenderInv, RenderEnds PROVE RenderInv'
<1>1. /\ stage = "execute" /\ todo = <<>> /\ pkg \in Packages /\ pkg = Wanted
      /\ GateShape /\ ExecShape /\ Delivered /\ Raw = Content[Wanted] /\ UNCHANGED faulted
  BY PipelineAssumptions, Zenon DEF RenderEnds, PInv, TypeOK, RenderShape, RenderInv, GateShape, Raw
<1>2. /\ Execute /\ made # <<>> /\ buildInventoryEntries <=> Renderable(Raw)
      /\ Execute /\ made # <<>> => made = Expected /\ warned = Ignored \cup Undecoded
  BY <1>1, ExecutionComplete, Zenon
<1>3. CASE ~Execute \/ made = <<>> \/ ~buildInventoryEntries
  <2>1. Return(Failed("RenderFailed"))
    BY <1>3, Zenon DEF RenderEnds
  <2>2. ~Renderable(Content[Wanted])
    BY <1>1, <1>2, <1>3, Zenon
  <2> QED BY <2>1, <2>2, FailsRightly DEF Return
<1>4. CASE Execute /\ made # <<>> /\ buildInventoryEntries
  <2> DEFINE done == [state |-> "rendered", reason |-> "", resources |-> made,
                      warnings |-> warned]
  <2>1. Return(done)
    BY <1>4, Zenon DEF RenderEnds
  <2>2. stage' = "returned" /\ result' = done
    BY <2>1, Zenon DEF Return
  <2>3. result'.state = "rendered" /\ result'.resources = made /\ result'.warnings = warned
    BY <2>2, Zenon
  <2>4. UNCHANGED <<ref, body, provider, job, pkg, values>>
    BY <2>1, Zenon DEF Return, renderVars
  <2>5. Wanted' = Wanted /\ (Renderable(Content[Wanted])' <=> Renderable(Content[Wanted]))
    BY <2>4, VerdictSteady
  <2>6. Expected' = Expected /\ Ignored' = Ignored /\ Undecoded' = Undecoded
    BY <2>4, ReferenceSteady
  <2>7. RendersAgree'
    BY <1>2, <1>4, <2>3, <2>6, Zenon DEF RendersAgree
  <2>8. IgnoredReported'
    BY <1>2, <1>4, <2>3, <2>6, Zenon DEF IgnoredReported
  <2>9. Renderable(Content[Wanted])
    BY <1>1, <1>2, <1>4, Zenon
  <2>10. Renderable(Content[Wanted])' /\ Delivered'
    <3>1. Delivered' <=> Delivered
      BY <2>4, <2>5, Zenon DEF Delivered, Acceptable
    <3> QED BY <1>1, <2>5, <2>9, <3>1
  <2>11. RenderVerdict'
    BY <2>3, <2>10 DEF RenderVerdict, Delivered
  <2>12. GateShape' /\ ExecShape'
    BY <2>2, Zenon DEF GateShape, ExecShape
  <2> QED BY <2>7, <2>8, <2>11, <2>12 DEF RenderInv
<1> QED BY <1>3, <1>4

\* A cancelled context, a panic of the evaluator: faults that end the render.
LEMMA FaultIsRight == ASSUME Cancelled \/ Panic PROVE RenderInv'
<1>1. faulted' = TRUE /\ \E reason : Return(Failed(reason))
  BY Zenon DEF Cancelled, Panic
<1> QED BY <1>1, FailsRightly DEF Return

\* Nothing of a render is kept.
LEMMA ReconciledIsRight == ASSUME Reconciled PROVE RenderInv'
BY StaysQuiet DEF Reconciled

\* A step that changes nothing keeps the verdict.
LEMMA IdleIsRight == ASSUME RenderInv, UNCHANGED vars PROVE RenderInv'
<1>1. /\ UNCHANGED <<stage, ref, body, faulted, provider, job, pkg, values>>
      /\ UNCHANGED <<todo, made, warned, failed, result>>
  BY DEF vars, fetchVars, renderVars
<1>2. /\ Raw' = Raw /\ Wanted' = Wanted /\ Plan' = Plan
      /\ \A p : Served(p)' = Served(p) /\ (Fit(p)' <=> Fit(p))
      /\ \A y : Resources(y)' = Resources(y) /\ PairWarnings(y)' = PairWarnings(y)
  BY <1>1, Zenon DEF Raw, Wanted, Plan, Served, Fit, Resources, PairWarnings
<1>3. (Delivered' <=> Delivered) /\ \A p : Renderable(p)' <=> Renderable(p)
  BY <1>1, <1>2, VerdictSteady, Zenon DEF Delivered, Acceptable
<1>4. Expected' = Expected /\ Ignored' = Ignored /\ Undecoded' = Undecoded
  BY <1>1, ReferenceSteady
<1>5. GateShape'
  BY <1>1, <1>2, <1>3, Zenon DEF RenderInv, GateShape, Executable
<1>6. ExecShape'
  <2>1. MatchedPairs(Plan)' = MatchedPairs(Plan) /\ Warnings(Plan)' = Warnings(Plan)
    BY <1>2 DEF MatchedPairs, Warnings
  <2>2. \A s, k, g : Grown(s, k, g)' <=> Grown(s, k, g)
    BY <1>2, Zenon DEF Grown
  <2>3. \A s, k : Smooth(s, k)' <=> Smooth(s, k)
    BY <1>1, <1>2, <2>1, <2>2, Zenon DEF Smooth, Carries, Converting, Blank
  <2>4. \A s, k : Executed(s, k)' <=> Executed(s, k)
    BY <1>1, <1>2, <2>3, Zenon DEF Executed
  <2> QED BY <1>1, <2>1, <2>4 DEF RenderInv, ExecShape
<1>7. RenderVerdict' /\ RendersAgree' /\ IgnoredReported'
  BY <1>1, <1>2, <1>3, <1>4, Zenon
      DEF RenderInv, RenderVerdict, RendersAgree, IgnoredReported, Acceptable
<1> QED BY <1>5, <1>6, <1>7 DEF RenderInv

\* The stages keep the verdict, one step at a time.
LEMMA RenderInvKept == PInv /\ RenderInv /\ [Next]_vars => RenderInv'
<1>1. SUFFICES ASSUME PInv, RenderInv, Next PROVE RenderInv'
  BY IdleIsRight, Zenon
<1>2. CASE \/ \E a \in Artifacts, path \in Paths : BeginRelease(a, path)
           \/ \E m \in Modules, given \in GivenValues : BeginModuleRelease(m, given)
  BY <1>1, <1>2, BeginIsRight, Zenon
<1>3. CASE FetchStep \/ FetchFails \/ navigateReleasePath
  BY <1>1, <1>3, FetchingIsRight, Zenon
<1>4. CASE Load \/ ParseModuleRelease \/ ProcessModuleRelease
  BY <1>1, <1>4, LoadIsRight, ParseIsRight, ProcessIsRight, Zenon
<1>5. CASE executePair \/ RenderEnds
  BY <1>1, <1>5, PairIsRight, EndIsRight, Zenon
<1>6. CASE Cancelled \/ Panic \/ Reconciled
  BY <1>6, FaultIsRight, ReconciledIsRight, Zenon
<1> QED BY <1>1, <1>2, <1>3, <1>4, <1>5, <1>6, Zenon DEF Next

\* A render knows nothing at first.
LEMMA RenderInvInit == Init => RenderInv
<1>1. NoResult.state = "none"
  BY DEF NoResult
<1> QED BY <1>1, Zenon DEF Init, RenderInv, GateShape, ExecShape, RenderVerdict, RendersAgree,
                    IgnoredReported

\* RenderInv holds in every state.
LEMMA RenderInvInvariant == Spec => []RenderInv
BY PInvInvariant, RenderInvInit, RenderInvKept, PTL DEF Spec

\* A render that no fault disturbs succeeds exactly when the package can be
\* rendered, for all packages, values and providers: no error of a stage, of a
\* pair among several or of a resource is lost, and none is made up
\* (ParseModuleRelease, Match, executeTransforms, the checks of the renderers).
THEOREM RendersWhatItCan == Spec => []RenderVerdict
<1>1. RenderInv => RenderVerdict
  BY DEF RenderInv
<1> QED BY <1>1, RenderInvInvariant, PTL

\* The digest of a render does not depend on the order in which the maps of the
\* match plan are iterated (the sort of MatchedPairs, RenderDigest).
THEOREM RendersAreReproducible == Spec => []RendersAgree
<1>1. RenderInv => RendersAgree
  BY DEF RenderInv
<1> QED BY <1>1, RenderInvInvariant, PTL

\* Every ignored trait and every metadata that was dropped is warned of, and
\* nothing else (Match, MatchPlan.Warnings, injectContext).
THEOREM WarningsAreComplete == Spec => []IgnoredReported
<1>1. RenderInv => IgnoredReported
  BY DEF RenderInv
<1> QED BY <1>1, RenderInvInvariant, PTL

=============================================================================
