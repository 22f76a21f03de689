------------------------------ MODULE Pipeline ------------------------------
(***************************************************************************)
(* From a release to its resources: the render of a ModuleRelease from the *)
(* registry (internal/render/module.go) and that of a Release from the     *)
(* artifact of its source (internal/reconcile/release.go, phases 2 to 5,   *)
(* and internal/render/release.go), through ParseModuleRelease,            *)
(* ProcessModuleRelease and the transformers of the provider.  One worker  *)
(* is followed.  What CUE makes of a package is given with the package.    *)
(***************************************************************************)
EXTENDS Fetch, Matching, Values

CONSTANTS
    Paths,         \* spec.path of a Release
    Packages,      \* CUE packages
    Content,       \* package -> what CUE makes of it
    Modules,       \* the packages that the registry makes of a spec.module
    GivenValues,   \* spec.values of a ModuleRelease
    NoValues,      \* ... none
    Malformed,     \* ... that CUE does not compile
    Providers,     \* the #transformers of providers
    NoPath,        \* no directory at a path of an artifact
    NoFile,        \* a directory without release.cue
    NoComponents,  \* a package without components
    NoPackage      \* none is loaded

ASSUME PipelineAssumptions ==
    /\ \A a \in Artifacts : Archive[a].tree \in [Paths -> Packages \cup {NoPath, NoFile}]
    /\ Modules \subseteq Packages
    /\ NoPackage \notin Packages
    /\ NoPath \notin Packages /\ NoFile \notin Packages

\* The names of components and of transformers are finite in number, and integers
\* in the order of the strings; a transformer makes a list of resources.
ASSUME MatchingAssumptions ==
    /\ \A t \in Providers \ {NoTransformers} :
         DOMAIN t \subseteq Int /\ IsFiniteSet(DOMAIN t)
    /\ \A p \in Packages : Content[p].components # NoComponents =>
         LET names == DOMAIN Content[p].components
         IN  /\ names \subseteq Int /\ IsFiniteSet(names)
             /\ \A t \in Providers \ {NoTransformers} : \A x \in names \X (DOMAIN t) :
                  Content[p].outputs[x].items \in Seq(Range(Content[p].outputs[x].items))

\* Given values and defaults are structs, which is not the same as no values.
\* The values of a package from the registry are open.
ASSUME ValuesAssumptions ==
    /\ \A v \in GivenValues \ {NoValues, Malformed} :
         v # Nothing /\ v = [f \in DOMAIN v |-> v[f]]
    /\ NoValues # Malformed /\ Wrong # "default"
    /\ \A p \in Packages : Content[p].schema # NoSchema =>
         Defaults(Content[p].schema) # Nothing
    /\ \A m \in Modules : Content[m].values = Nothing

VARIABLES
    provider,  \* loaded at startup
    job,       \* what is rendered
    pkg,       \* the loaded package
    values,    \* the values filled into it
    todo,      \* the pairs that are still to be executed
    made,      \* the resources so far
    warned,    \* the warnings so far
    failed,    \* the pairs that failed
    result     \* what the render returned

renderVars == <<pkg, values, todo, made, warned, failed>>
vars == <<fetchVars, provider, job, renderVars, result>>

NoResult == [state |-> "none", reason |-> "", resources |-> <<>>, warnings |-> {}]
Failed(reason) == [NoResult EXCEPT !.state = "failed", !.reason = reason]

Init ==
    /\ stage = "idle" /\ ref = Cut /\ body = NoBody /\ count = 0
    /\ temp = {} /\ faulted = FALSE
    /\ provider \in Providers
    /\ job = [kind |-> "none"]
    /\ pkg = NoPackage /\ values = Nothing /\ todo = <<>> /\ made = <<>>
    /\ warned = {} /\ failed = {}
    /\ result = NoResult

\* The temporary directory is made, or cannot be made or filled.
MakeDir(next, reason) ==
    /\ \/ /\ stage' = next /\ temp' = {"dir"}
          /\ UNCHANGED <<faulted, result>>
       \/ /\ stage' = "returned" /\ faulted' = TRUE /\ result' = Failed(reason)
          /\ UNCHANGED temp
    /\ UNCHANGED <<body, count, provider, renderVars>>

\* A Release whose source has resolved to an artifact.
BeginRelease(a, path) ==
    /\ stage = "idle"
    /\ job' = [kind |-> "Release", path |-> path]
    /\ ref' = a
    /\ MakeDir("fetch", "FetchFailed")

\* A ModuleRelease: SynthesizeRelease, whose four required fields the API
\* server has validated.
BeginModuleRelease(m, given) ==
    /\ stage = "idle"
    /\ job' = [kind |-> "ModuleRelease", module |-> m, values |-> given]
    /\ MakeDir("load", "RenderFailed")
    /\ UNCHANGED ref

FetchStep ==
    /\ FetchNext
    /\ UNCHANGED <<provider, job, renderVars, result>>

\* Mutated: the extracted part of a refused artifact stays.
FetchFailsMutant ==
    /\ stage = "refused"
    /\ stage' = "returned" /\ result' = Failed("FetchFailed")
    /\ UNCHANGED <<temp, ref, body, count, faulted, provider, job, renderVars>>

\* fetchReleaseArtifact removes the directory and returns the error.
FetchFails ==
    /\ stage = "refused"
    /\ stage' = "returned" /\ result' = Failed("FetchFailed")
    /\ temp' = temp \ {"dir"}
    /\ UNCHANGED <<ref, body, count, faulted, provider, job, renderVars>>

\* The render returns, and the deferred removal of the directory runs.
Return(r) ==
    /\ stage' = "returned" /\ result' = r
    /\ temp' = temp \ {"dir"}
    /\ UNCHANGED <<ref, body, count, provider, job, renderVars>>

\* What is in the directory at a path: all of it only after the last entry.
Extracted(path) == IF count = Len(Entries) THEN Archive[body.of].tree[path] ELSE NoPath

navigateReleasePath ==
    /\ stage = "fetched"
    /\ IF Extracted(job.path) \in {NoPath, NoFile}
       THEN Return(Failed(IF Extracted(job.path) = NoPath THEN "PathNotFound"
                          ELSE "ReleaseFileNotFound"))
       ELSE /\ stage' = "load"
            /\ UNCHANGED <<ref, body, count, temp, provider, job, renderVars, result>>
    /\ UNCHANGED faulted

\* The package in the directory, and what CUE makes of it.
InDir == IF job.kind = "Release" THEN Extracted(job.path) ELSE job.module
Found == Content[InDir]

\* The error of LoadModulePackage, or of PackageReleaseRenderer on the kind.
LoadError ==
    IF ~Found.loads THEN "ResolutionFailed"
    ELSE IF job.kind # "Release" \/ Found.kind = "ModuleRelease" THEN "none"
    ELSE IF Found.kind = "none" THEN "RenderFailed"
    ELSE "UnsupportedKind"

\* The package is loaded, unless the registry fails on its dependencies.
Load ==
    /\ stage = "load"
    /\ \/ /\ IF LoadError = "none"
             THEN /\ stage' = "parse" /\ pkg' = InDir
                  /\ UNCHANGED <<ref, body, count, temp, provider, job, values,
                                 todo, made, warned, failed, result>>
             ELSE Return(Failed(LoadError))
          /\ UNCHANGED faulted
       \/ Return(Failed("ResolutionFailed")) /\ faulted' = TRUE

Raw == Content[pkg]

\* What the steps between the load and the return leave alone.
Rendering == UNCHANGED <<ref, body, count, temp, faulted, provider, job, result>>

\* The values handed to ParseModuleRelease: those of the ModuleRelease, or the
\* defaults of #config; none for a Release, whose package has its own.
Layers ==
    CASE job.kind = "Release" -> <<>>
      [] job.kind # "Release" /\ job.values # NoValues -> <<job.values>>
      [] job.kind # "Release" /\ job.values = NoValues /\ Raw.schema # NoSchema ->
           <<Defaults(Raw.schema)>>
      [] OTHER -> <<>>

Filled == IF Config(Raw.schema, Layers) # Nothing
          THEN Config(Raw.schema, Layers) ELSE Raw.values

\* The values of a #ModuleRelease are open until something is filled in.
Concrete(filled) ==
    /\ filled # Nothing
    /\ Raw.schema # NoSchema => Raw.schema.needs \subseteq DOMAIN filled

\* The metadata of the release is there and decodes.
extractModuleFromRelease == Raw.metadata

\* The module is extracted, spec.values compiled, and the release parsed.
ParseModuleRelease ==
    /\ stage = "parse"
    /\ IF \/ ~extractModuleFromRelease
          \/ job.kind = "ModuleRelease" /\ job.values = Malformed
          \/ ConfigFails(Raw.schema, Layers)
          \/ ~Concrete(Filled)
       THEN Return(Failed("RenderFailed")) /\ UNCHANGED faulted
       ELSE /\ stage' = "match" /\ values' = Filled
            /\ Rendering /\ UNCHANGED <<pkg, todo, made, warned, failed>>

\* Every component has become concrete data.
FinalizeValue == Raw.finalizes

\* The check of Execute on the plan.
Executable(plan) == plan.unmatched = {}

\* ProcessModuleRelease up to the execution: components without a transformer
\* are an error.
ProcessModuleRelease ==
    /\ stage = "match"
    /\ IF \/ Raw.components = NoComponents
          \/ ~FinalizeValue
          \/ ~Executable(Match(Raw.components, provider))
       THEN Return(Failed("RenderFailed")) /\ UNCHANGED faulted
       ELSE LET plan == Match(Raw.components, provider)
            IN  /\ stage' = "execute"
                /\ todo' \in MatchedPairs(plan)
                /\ warned' = Warnings(plan)
                /\ Rendering /\ UNCHANGED <<pkg, values, made, failed>>

\* The resources of a pair, as the values have made them.
Resources(pair) ==
    LET items == Collect(Raw.outputs[pair])
    IN  [i \in DOMAIN items |->
            [id |-> items[i].id, converts |-> items[i].converts,
             content |-> <<items[i].content, values>>]]

\* injectContext warns of metadata that does not decode.
PairWarnings(pair) ==
    IF Raw.components[pair[1]].decodes THEN {} ELSE {<<pair[1], "metadata">>}

\* Mutated: the error of a pair is not collected.
executePairMutant ==
    /\ stage = "execute" /\ todo # <<>>
    /\ IF OutputFails(Raw.outputs[Head(todo)])
       THEN UNCHANGED <<failed, made, warned>>
       ELSE /\ made' = made \o Resources(Head(todo))
            /\ warned' = warned \cup PairWarnings(Head(todo))
            /\ UNCHANGED failed
    /\ todo' = Tail(todo)
    /\ Rendering /\ UNCHANGED <<stage, pkg, values>>

\* One turn of the loop of executeTransforms: an error does not end it.
executePair ==
    /\ stage = "execute" /\ todo # <<>>
    /\ IF OutputFails(Raw.outputs[Head(todo)])
       THEN /\ failed' = failed \cup {Head(todo)}
            /\ UNCHANGED <<made, warned>>
       ELSE /\ made' = made \o Resources(Head(todo))
            /\ warned' = warned \cup PairWarnings(Head(todo))
            /\ UNCHANGED failed
    /\ todo' = Tail(todo)
    /\ Rendering /\ UNCHANGED <<stage, pkg, values>>

\* The context is done before the next pair.
Cancelled ==
    /\ stage = "execute" /\ todo # <<>>
    /\ Return(Failed("RenderFailed")) /\ faulted' = TRUE

\* Execute joins the errors of the pairs.
Execute == failed = {}

\* A resource becomes an inventory entry.
buildInventoryEntries == \A i \in DOMAIN made : made[i].converts

\* Nothing is returned if a pair failed, if there is no resource, or if one has
\* no inventory entry.
RenderEnds ==
    /\ stage = "execute" /\ todo = <<>>
    /\ IF ~Execute \/ made = <<>> \/ ~buildInventoryEntries
       THEN Return(Failed("RenderFailed"))
       ELSE Return([state |-> "rendered", reason |-> "", resources |-> made,
                    warnings |-> warned])
    /\ UNCHANGED faulted

\* The CUE evaluator panics; the controller recovers.
Panic ==
    /\ stage \in {"load", "parse", "match", "execute"}
    /\ Return(Failed("panic")) /\ faulted' = TRUE

\* The worker is done with the release; nothing of the render is kept.
Reconciled ==
    /\ stage = "returned"
    /\ stage' = "idle" /\ ref' = Cut /\ body' = NoBody /\ count' = 0
    /\ faulted' = FALSE /\ job' = [kind |-> "none"]
    /\ pkg' = NoPackage /\ values' = Nothing /\ todo' = <<>> /\ made' = <<>>
    /\ warned' = {} /\ failed' = {} /\ result' = NoResult
    /\ UNCHANGED <<temp, provider>>

Next ==
    \/ \E a \in Artifacts, path \in Paths : BeginRelease(a, path)
    \/ \E m \in Modules, given \in GivenValues : BeginModuleRelease(m, given)
    \/ FetchStep \/ FetchFails \/ navigateReleasePath
    \/ Load \/ ParseModuleRelease \/ ProcessModuleRelease
    \/ executePair \/ Cancelled \/ RenderEnds \/ Panic \/ Reconciled

Spec == Init /\ [][Next]_vars

-----------------------------------------------------------------------------

Stages == {"idle", "fetch", "verify", "extract", "refused", "fetched",
           "load", "parse", "match", "execute", "returned"}

Jobs == [kind : {"none"}] \cup [kind : {"Release"}, path : Paths]
        \cup [kind : {"ModuleRelease"}, module : Modules, values : GivenValues]

\* Every variable has its type: a download is there while it is checked and
\* extracted, a package while it is rendered, and no more archive entries are
\* read than the limit and the one that exceeds it (extractTarGz).
TypeOK ==
    /\ stage \in Stages /\ provider \in Providers /\ job \in Jobs
    /\ ref \in Artifacts \cup {Cut}
    /\ body \in Bodies \cup {NoBody}
    /\ stage \in {"verify", "extract", "fetched"} => body \in Bodies
    /\ count \in 0..MaxTarFiles + 1
    /\ temp \subseteq {"dir", "file"} /\ faulted \in BOOLEAN
    /\ pkg \in Packages \cup {NoPackage}
    /\ stage \in {"parse", "match", "execute"} => pkg \in Packages
    /\ result.state \in {"none", "rendered", "failed"}

\* No reconcile leaves a temporary file or directory behind, on whichever of
\* its paths it ends: a refused download, a part of an archive, a path that is
\* not there, any failure of the render, a cancellation, a panic (os.Remove in
\* Fetch, os.RemoveAll in fetchReleaseArtifact, and the deferred removals).
NoTempLeft == stage \in {"idle", "returned"} => temp = {}

\* The package that is to be rendered.
Wanted == IF job.kind = "Release" THEN Archive[ref].tree[job.path] ELSE job.module

\* Whatever the source serves by the time of the download, and however much of
\* it arrives, the package that is rendered is that of the artifact whose digest
\* the status records (the digest check of Fetch, and extraction to the end).
LoadedIsResolved == pkg # NoPackage => pkg = Wanted

\* A transformer serves a component that has all that it requires.
Serves(t, c) ==
    /\ t.requiredLabels \subseteq c.labels
    /\ t.requiredResources \subseteq c.resources
    /\ t.requiredTraits \subseteq c.traits

Served(p) ==
    IF provider = NoTransformers THEN {}
    ELSE {x \in (DOMAIN p.components) \X (DOMAIN provider) :
            Serves(provider[x[2]], p.components[x[1]])}

\* The values of a package under a job: given, default, or its own.
Fit(p) ==
    IF job.kind = "Release"
    THEN p.values # Nothing /\ (p.schema # NoSchema => p.schema.needs \subseteq DOMAIN p.values)
    ELSE /\ p.schema # NoSchema
         /\ job.values = NoValues => p.schema.needs = {}
         /\ job.values # NoValues =>
              /\ job.values # Malformed
              /\ p.schema.needs \subseteq DOMAIN job.values
              /\ DOMAIN job.values \subseteq p.schema.allows
              /\ \A f \in DOMAIN job.values : job.values[f] # Wrong

\* What can be rendered: a package that loads, whose values fit, each of whose
\* components is served, with outputs that are resources, at least one of them.
Renderable(p) ==
    /\ p.loads /\ p.metadata /\ p.finalizes /\ p.components # NoComponents
    /\ job.kind = "Release" => p.kind = "ModuleRelease"
    /\ Fit(p)
    /\ \A c \in DOMAIN p.components : \E x \in Served(p) : x[1] = c
    /\ \A x \in Served(p) : p.outputs[x].form \notin {"error", "scalar"}
    /\ \E x \in Served(p) : Len(Collect(p.outputs[x])) > 0
    /\ \A x \in Served(p) :
         LET items == Collect(p.outputs[x]) IN \A i \in DOMAIN items : items[i].converts

\* A reconcile that no fault disturbs renders exactly what can be rendered: no
\* error of a stage, of one pair among several or of one resource is lost, and
\* no component goes unrendered, also when the provider has no #transformers at
\* all (Match, executeTransforms, Execute, and the check for no resources).
RenderVerdict ==
    stage = "returned" /\ ~faulted =>
        (result.state = "rendered" <=>
            /\ job.kind = "Release" => Acceptable(ref, body)
            /\ Wanted \notin {NoPath, NoFile} /\ Renderable(Content[Wanted]))

\* The resources in the order of components and then of transformers.
Expected ==
    LET pairs == CHOOSE s \in Arrangements(Served(Raw)) :
                   \A i, j \in DOMAIN s : i < j =>
                      s[i][1] < s[j][1] \/ (s[i][1] = s[j][1] /\ s[i][2] < s[j][2])
        upTo[n \in 0..Len(pairs)] == IF n = 0 THEN <<>> ELSE upTo[n - 1] \o Resources(pairs[n])
    IN  upTo[Len(pairs)]

\* Two renders of the same package with the same values and provider have the
\* same digest, whatever order the maps of the match plan are iterated in: else
\* a reconcile with nothing to do would apply again (MatchedPairs, RenderDigest,
\* which leaves resources of the same id in the order of the render).
RendersAgree ==
    result.state = "rendered" => RenderDigest(result.resources) = RenderDigest(Expected)

\* The traits of a component that no transformer of it takes.
Ignored ==
    UNION {{c} \X {t \in Raw.components[c].traits :
                     \A x \in Served(Raw) : x[1] = c =>
                        t \notin provider[x[2]].requiredTraits
                                 \cup provider[x[2]].optionalTraits} :
           c \in DOMAIN Raw.components}

\* Metadata of a component that does not decode.
Undecoded ==
    {<<c, "metadata">> : c \in {d \in DOMAIN Raw.components : ~Raw.components[d].decodes}}

\* The result of a render carries a warning for exactly the traits that are
\* ignored, those that no transformer of the component takes, and for metadata
\* that was dropped (Match, MatchPlan.Warnings, injectContext).
IgnoredReported ==
    result.state = "rendered" => result.warnings = Ignored \cup Undecoded

=============================================================================
