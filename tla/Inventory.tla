------------------------------ MODULE Inventory ------------------------------
(***************************************************************************)
(* Package internal/inventory and the ownership rules of internal/apply:   *)
(* the entries a release records for the resources it owns, which of them  *)
(* are stale, and what Prune may do with a stale one.                      *)
(*                                                                         *)
(* A rendered resource is [id, component, content]: id stands for the      *)
(* group, kind, namespace and name, content for the rest of the manifest.  *)
(* A live object is Absent, or [managed, uuid, component, content]:        *)
(* whether its app.kubernetes.io/managed-by label is one of OPM's, its     *)
(* module-release.opmodel.dev/uuid label (None when it has none), and the  *)
(* parts a resource has.                                                   *)
(***************************************************************************)
EXTENDS Naturals

CONSTANTS
    None,       \* an absent value: a nil pointer or an empty string
    Absent,     \* the API server has no such object
    Protected   \* ids of kind Namespace or CustomResourceDefinition

NewEntryFromResource(r) == [id |-> r.id, component |-> r.component]

Entries(resources) == {NewEntryFromResource(r) : r \in resources}

IdentityEqual(a, b) == a.id = b.id /\ a.component = b.component

K8sIdentityEqual(a, b) == a.id = b.id

\* Mutated: a stale set compared with the component-aware identity.
ComputeStaleSetMutant(previous, current) ==
    {p \in previous : \A c \in current : ~IdentityEqual(p, c)}

\* The entries of the previous inventory that the current render lacks.
ComputeStaleSet(previous, current) ==
    {p \in previous : \A c \in current : ~K8sIdentityEqual(p, c)}

\* Mutated: kinds are not looked at.
isSafeToDeleteMutant(entry) == TRUE

\* Mutated: the answer is inverted.
isSafeToDeleteInvertedMutant(entry) == entry.id \in Protected

isSafeToDelete(entry) == entry.id \notin Protected

\* The live-state ownership guard that precedes every delete.
OwnerMatches(live, ownerUUID) ==
    /\ live.managed
    /\ ~(ownerUUID # None /\ live.uuid # None /\ live.uuid # ownerUUID)

=============================================================================
