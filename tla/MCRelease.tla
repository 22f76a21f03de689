------------------------------ MODULE MCRelease ------------------------------
(***************************************************************************)
(* Small instances of Release for TLC: a database release, and an          *)
(* application release that depends on it.  The source near is in the      *)
(* namespace of the releases, the source far in another one.               *)
(***************************************************************************)
EXTENDS Release

CONSTANTS app, db, web, pg, cm, near, far, robot

MCReleases == {app, db}
OneSource == {near}
TwoSources == {near, far}
MCLocal == {app, db} \X {near}
MCArtifacts == {"a1", "a2", "a3", "b2"}
MCPaths == {"app", "db"}
MCObjects == {web, pg, cm}
MCComponents == {"c"}
MCContents == {1, 2}

Resource(id, content) == [id |-> id, component |-> "c", content |-> content]

\* From a1 to a2 the database replaces cm by pg and the application changes web;
\* in b2 the application takes cm over; a3 has no application.
MCRender ==
    [x \in Artifacts \X Paths |->
        CASE x = <<"a1", "db">>  -> {Resource(cm, 1)}
          [] x = <<"a1", "app">> -> {Resource(web, 1)}
          [] x = <<"a2", "db">>  -> {Resource(pg, 1)}
          [] x = <<"a2", "app">> -> {Resource(web, 2)}
          [] x = <<"b2", "db">>  -> {Resource(pg, 1)}
          [] x = <<"b2", "app">> -> {Resource(web, 1), Resource(cm, 1)}
          [] x = <<"a3", "db">>  -> {Resource(pg, 1)}
          [] x = <<"a3", "app">> -> None]

MCPublications == [s \in Sources |-> <<"a1", "a2">>]
Repaired == [s \in Sources |-> IF s = far THEN <<"a3", "a1">> ELSE <<"a1">>]
HandOver == [s \in Sources |-> <<"a1", "b2">>]

SpecOf(source, path, deps, suspend, account) ==
    [source |-> source, path |-> path, dependsOn |-> deps, prune |-> TRUE,
     suspend |-> suspend, serviceAccountName |-> account]

\* The application depends on the database; one source for both.
AppOnDb ==
    [r \in Releases |-> IF r = db THEN {SpecOf(near, "db", {}, FALSE, None)}
                        ELSE {SpecOf(near, "app", {db}, FALSE, None)}]

\* ... the application's source is in another namespace, and the database may
\* be suspended or be made to depend on the application in turn.
AppFar ==
    [r \in Releases |-> IF r = db THEN {SpecOf(near, "db", {}, b, None) : b \in BOOLEAN}
                                      \cup {SpecOf(near, "db", {app}, FALSE, None)}
                        ELSE {SpecOf(far, "app", {db}, FALSE, None)}]

\* ... the database is applied under a service account.
AppAccount ==
    [r \in Releases |-> IF r = db THEN {SpecOf(near, "db", {}, FALSE, robot)}
                        ELSE {SpecOf(near, "app", {db}, FALSE, None)}]

=============================================================================
