----------------------------- MODULE MCPipeline -----------------------------
(***************************************************************************)
(* Small instances of Pipeline for TLC: two component names, transformers  *)
(* 1 and 2, and packages and artifacts that differ from a good one in one  *)
(* respect each.                                                           *)
(***************************************************************************)
EXTENDS Pipeline

Component(labels, resources, traits, decodes) ==
    [labels |-> labels, resources |-> resources, traits |-> traits, decodes |-> decodes]

Plain == Component({"web"}, {"container"}, {}, TRUE)
Scaled == Component({"web"}, {"container"}, {"scaling"}, TRUE)
Exposed == Component({"web"}, {"container"}, {"scaling", "expose"}, FALSE)
Alien == Component({}, {"volume"}, {"scaling"}, TRUE)

\* Transformer 1 takes containers, transformer 2 more of them or fewer.
Transformer(labels, resources, required, optional) ==
    [requiredLabels |-> labels, requiredResources |-> resources,
     requiredTraits |-> required, optionalTraits |-> optional]

Provide(second) == <<Transformer({}, {"container"}, {}, {"scaling"}), second>>

MCProviders ==
    {NoTransformers,
     Provide(Transformer({"web"}, {"container"}, {}, {})),
     Provide(Transformer({}, {"container"}, {"scaling"}, {})),
     Provide(Transformer({"web"}, {}, {"expose"}, {"scaling"})),
     Provide(Transformer({}, {"volume"}, {}, {}))}

Item(id, content) == [id |-> id, content |-> content, converts |-> TRUE]
Output(form, keys, self, items) ==
    [form |-> form, keys |-> keys, self |-> self, items |-> items]

\* Both transformers of component 1 make a resource with id 1.
One(content) == Output("struct", {"apiVersion", "kind"}, Item(1, content), <<>>)
None == Output("none", {}, Item(1, 1), <<>>)
Two == Output("list", {}, Item(1, 1), <<Item(2, 1), Item(1, 3)>>)
Named == Output("struct", {"apiVersion"}, [Item(3, 1) EXCEPT !.converts = FALSE], <<Item(3, 1)>>)
Broken == Output("struct", {}, Item(1, 1), <<Item(1, 1), [Item(4, 1) EXCEPT !.converts = FALSE]>>)

Outputs(o11, o12, other) ==
    [x \in {1, 2} \X {1, 2} |->
        CASE x = <<1, 1>> -> o11 [] x = <<1, 2>> -> o12 [] OTHER -> other]

Schema(needs) == [allows |-> {"size", "mode"}, needs |-> needs]

Package(components, outputs, schema, own) ==
    [loads |-> TRUE, kind |-> "ModuleRelease", metadata |-> TRUE, schema |-> schema,
     values |-> own, components |-> components, finalizes |-> TRUE, outputs |-> outputs]

Usual == Outputs(One(1), One(2), Two)
Good == Package(<<Plain, Scaled>>, Usual, Schema({"size"}), Nothing)
Failing(form) == Output(form, {}, Item(1, 1), <<>>)

\* Packages that differ from the good one in one respect.
Variants ==
    [good |-> Good,
     unloadable |-> [Good EXCEPT !.loads = FALSE],
     nameless |-> [Good EXCEPT !.metadata = FALSE],
     open |-> [Good EXCEPT !.finalizes = FALSE],
     hollow |-> [Good EXCEPT !.components = NoComponents],
     empty |-> [Good EXCEPT !.components = <<>>],
     exposed |-> [Good EXCEPT !.components = <<Scaled, Exposed>>],
     alien |-> [Good EXCEPT !.components = <<Exposed, Alien>>],
     schemaless |-> [Good EXCEPT !.schema = NoSchema],
     lenient |-> [Good EXCEPT !.schema = Schema({})],
     named |-> [Good EXCEPT !.outputs = Outputs(Two, Named, None)],
     silent |-> [Good EXCEPT !.outputs = Outputs(None, None, None)],
     broken |-> [Good EXCEPT !.outputs = Outputs(One(1), Broken, Two)],
     erring |-> [Good EXCEPT !.outputs = Outputs(One(1), Failing("error"), Two)],
     scalar |-> [Good EXCEPT !.outputs = Outputs(Failing("scalar"), One(1), Two)],
     kindless |-> [Good EXCEPT !.kind = "none"],
     bundle |-> [Good EXCEPT !.kind = "BundleRelease"]]

\* Each of them from the registry, where values are open, and in an artifact,
\* which has its own.
Names == DOMAIN Variants
MCModules == {"registry"} \X Names
MCPackages == {"registry", "artifact"} \X Names
Sized == [f \in {"size"} |-> "large"]
MCContent ==
    [p \in MCPackages |-> IF p[1] = "registry" THEN Variants[p[2]]
                          ELSE [Variants[p[2]] EXCEPT !.values = Sized]]

MCGivenValues ==
    {NoValues, Malformed, Sized, [f \in {"size"} |-> Wrong], [f \in {"mode"} |-> "fast"],
     [f \in {"size", "colour"} |-> "large"]}

MCPaths == {"app", "none", "bare"}

At(package) == [p \in MCPaths |-> CASE p = "app" -> package
                                   [] p = "none" -> NoPath
                                   [] p = "bare" -> NoFile]

\* Archives around the limits of two bytes and two entries.
Bundle(size, gzip, entries, package) ==
    [size |-> size, gzip |-> gzip, entries |-> entries, tree |-> At(package)]
Usually == <<"artifact", "good">>
Bundles ==
    [small |-> Bundle(1, TRUE, <<"written">>, Usually),
     full |-> Bundle(2, TRUE, <<"written">>, Usually),
     over |-> Bundle(3, TRUE, <<"written">>, Usually),
     void |-> Bundle(1, TRUE, <<>>, Usually),
     two |-> Bundle(1, TRUE, <<"skipped", "written">>, Usually),
     three |-> Bundle(1, TRUE, <<"written", "written", "skipped">>, Usually),
     four |-> Bundle(1, TRUE, <<"written", "skipped", "written", "written">>, Usually),
     outside |-> Bundle(1, TRUE, <<"written", "refused">>, Usually),
     plain |-> Bundle(1, FALSE, <<>>, Usually)]

\* ... and one of each package, and of a package without values.
MCArtifacts == DOMAIN Bundles \cup Names \cup {"valueless"}
MCArchive ==
    [a \in MCArtifacts |->
        CASE a \in DOMAIN Bundles -> Bundles[a]
          [] a \in Names -> Bundle(1, TRUE, <<"written">>, <<"artifact", a>>)
          [] OTHER -> Bundle(1, TRUE, <<"written">>, <<"registry", "good">>)]

=============================================================================
