------------------------------ MODULE Matching ------------------------------
(***************************************************************************)
(* pkg/render/match.go and the values of pkg/render/execute.go: which      *)
(* transformers of the provider apply to which components of a release, in *)
(* which order they are executed, and what their outputs amount to.        *)
(* Component names, transformer FQNs and resource ids are integers, for    *)
(* their order; labels are key and value pairs, of which labelPairs and    *)
(* missingMapLabels keep those with a string value.  What a transformer    *)
(* requires is written as regular fields, and #transformers is a struct:   *)
(* the code would also require a field marked optional (missingKeys) but   *)
(* not count it as handled (fieldKeys).                                    *)
(***************************************************************************)
EXTENDS Integers, Sequences, FiniteSets, Functions

CONSTANT NoTransformers   \* a provider without #transformers

Missing(required, have) == required \ have

MatchResult(component, transformer) ==
    [labels |-> Missing(transformer.requiredLabels, component.labels),
     resources |-> Missing(transformer.requiredResources, component.resources),
     traits |-> Missing(transformer.requiredTraits, component.traits)]

Matched(result) ==
    result.labels = {} /\ result.resources = {} /\ result.traits = {}

matchedTFs(component, transformers) ==
    {t \in DOMAIN transformers : Matched(MatchResult(component, transformers[t]))}

\* Mutated: optional traits are taken for unhandled.
HandledMutant(component, transformers) ==
    UNION {transformers[t].requiredTraits : t \in matchedTFs(component, transformers)}

Handled(component, transformers) ==
    UNION {transformers[t].requiredTraits \cup transformers[t].optionalTraits :
           t \in matchedTFs(component, transformers)}

\* Without #transformers the plan is empty: no component is even unmatched.
Match(components, transformers) ==
    IF transformers = NoTransformers
    THEN [pairs |-> {}, unmatched |-> {}, unhandled |-> {}]
    ELSE [pairs |-> {p \in (DOMAIN components) \X (DOMAIN transformers) :
                     p[2] \in matchedTFs(components[p[1]], transformers)},
          unmatched |-> {c \in DOMAIN components :
                         matchedTFs(components[c], transformers) = {}},
          unhandled |-> UNION {{c} \X (components[c].traits
                                       \ Handled(components[c], transformers)) :
                               c \in DOMAIN components}]

\* One warning for each component and trait.
Warnings(plan) == plan.unhandled

\* Mutated: pairs of the same component are not ordered.
PairLessMutant(p, q) == p[1] < q[1]

PairLess(p, q) == p[1] < q[1] \/ (p[1] = q[1] /\ p[2] < q[2])

\* The lists of a set, with each of its elements once.
Arrangements(S) == Bijection(1..Cardinality(S), S)

\* sort.Slice over the entries of two maps, iterated in any order: any
\* arrangement that the comparison does not contradict.
MatchedPairs(plan) ==
    {s \in Arrangements(plan.pairs) :
        \A i, j \in DOMAIN s : i < j => ~PairLess(s[j], s[i])}

\* The output of a #transform is a list, one resource, a struct of resources
\* or absent; anything else, and any error before it, fails the pair.
OutputFails(output) == output.form \in {"error", "scalar"}

isSingleResource(output) == {"apiVersion", "kind"} \subseteq output.keys

Collect(output) ==
    CASE output.form = "none" -> <<>>
      [] output.form = "struct" /\ isSingleResource(output) -> <<output.self>>
      [] OTHER -> output.items

\* The hash of the resources in a stable order by id: the same for two lists
\* exactly when the lists agree on the resources of each id, in their order.
RenderDigest(resources) ==
    [i \in {resources[k].id : k \in DOMAIN resources} |->
        SelectSeq(resources, LAMBDA r : r.id = i)]

=============================================================================
