-------------------------- MODULE MCModuleRelease --------------------------
(***************************************************************************)
(* Small instances of ModuleRelease for TLC.  Three objects, one of them a *)
(* Namespace; three modules: m1 and its next version m2 share a release    *)
(* UUID, m3 is another module and has its own.                             *)
(***************************************************************************)
EXTENDS ModuleRelease

CONSTANTS web, cfg, ns, robot

MCObjects == {web, cfg, ns}
MCProtected == {ns}
MCComponents == {"a", "b"}
MCContents == {1, 2}
MCModules == {"m1", "m2", "m3"}
MCValues == {"v"}
MCUUIDs == {"u1", "u3"}

Resource(id, component, content) ==
    [id |-> id, component |-> component, content |-> content]

\* From m1 to m2, web moves to another component, cfg appears and the
\* Namespace is dropped; m3 keeps web only.  The second catalog renders the
\* same modules differently.
MCRender ==
    [x \in Catalogs \X Modules \X Values |->
        CASE x[2] = "m1" -> {Resource(web, "a", x[1]), Resource(ns, "a", 1)}
          [] x[2] = "m2" -> {Resource(web, "b", 1), Resource(cfg, "b", x[1])}
          [] x[2] = "m3" -> {Resource(web, "b", 2)}]

MCUUIDOf ==
    [m \in Modules |-> CASE m = "m1" -> "u1" [] m = "m2" -> "u1" [] m = "m3" -> "u3"]

SpecOf(module, prune, suspend, account) ==
    [module |-> module, values |-> "v", prune |-> prune, suspend |-> suspend,
     serviceAccountName |-> account]

\* Two versions of one module, pruned.
TwoVersions == {SpecOf(m, TRUE, FALSE, None) : m \in {"m1", "m2"}}

\* ... one of which may be suspended, the other not pruned.
VersionsAndFlags ==
    TwoVersions \cup {SpecOf("m1", TRUE, TRUE, None), SpecOf("m2", FALSE, FALSE, None)}

\* ... under a service account.
TwoVersionsAccount == {SpecOf(m, TRUE, FALSE, robot) : m \in {"m1", "m2"}}

\* ... one of them only.
TwoVersionsMixed == {SpecOf("m1", TRUE, FALSE, robot), SpecOf("m2", TRUE, FALSE, None)}

\* A change of module.
TwoModules == {SpecOf(m, TRUE, FALSE, None) : m \in {"m2", "m3"}}

=============================================================================
