------------------------------ MODULE Lifecycle ------------------------------
(***************************************************************************)
(* What a reconciler of this operator promises of one release: its         *)
(* finalizer brackets everything it does to the cluster.  Objects are put  *)
(* only while the finalizer is held, removed only after everything was put *)
(* or because the release is being deleted, the inventory changes only at  *)
(* the end of an apply or when a deletion orphans it, and the release goes *)
(* only at the end of a cleanup.  ModuleRelease and Release implement it.  *)
(***************************************************************************)

CONSTANTS
    Objects,   \* ids of cluster objects
    Absent,    \* no object
    Others     \* when others write the objects: "never", "between", "always"

VARIABLES
    stage,     \* of the release: "fresh", "active", "terminating", "gone"
    work,      \* of the reconcile at hand, or "none"
    owned,     \* the inventory
    live       \* the cluster objects

lifecycle == <<stage, work, owned, live>>

Init ==
    /\ stage \in {"fresh", "gone"}
    /\ work = "none"
    /\ owned = {}
    /\ live = [o \in Objects |-> Absent]

\* A user creates the release again under the same name.
Create ==
    /\ stage = "gone" /\ stage' = "fresh"
    /\ UNCHANGED <<work, owned, live>>

\* The finalizer is registered.
Register ==
    /\ stage = "fresh" /\ work = "none"
    /\ stage' = "active"
    /\ UNCHANGED <<work, owned, live>>

\* A user deletes the release, which goes at once without the finalizer.
Terminate ==
    /\ \/ stage = "fresh" /\ stage' = "gone"
       \/ stage = "active" /\ stage' = "terminating"
    /\ UNCHANGED <<work, owned, live>>

BeginApply ==
    /\ work = "none" /\ stage \in {"active", "terminating"}
    /\ work' = "applying"
    /\ UNCHANGED <<stage, owned, live>>

Put(o) ==
    /\ work = "applying" /\ stage \in {"active", "terminating"}
    /\ live' = [live EXCEPT ![o] = live'[o]] /\ live'[o] # Absent
    /\ UNCHANGED <<stage, work, owned>>

BeginSweep ==
    /\ work = "applying" /\ work' = "sweeping"
    /\ UNCHANGED <<stage, owned, live>>

Remove(o) ==
    /\ work \in {"sweeping", "cleaning"}
    /\ live' = [live EXCEPT ![o] = Absent]
    /\ UNCHANGED <<stage, work, owned>>

EndWork ==
    /\ work \in {"applying", "sweeping"} /\ work' = "recording"
    /\ UNCHANGED <<stage, owned, live>>

\* The status is written: the only change of the inventory of a release that
\* is not being cleaned up.
Record ==
    /\ work = "recording" /\ stage \in {"active", "terminating"}
    /\ work' = "none"
    /\ UNCHANGED <<stage, live>>

\* A cached copy may still show the deletion of a release that is gone.
BeginCleanup ==
    /\ work = "none" /\ stage \in {"terminating", "gone"}
    /\ work' = "cleaning"
    /\ UNCHANGED <<stage, owned, live>>

Orphan ==
    /\ work = "cleaning" /\ owned' = {}
    /\ UNCHANGED <<stage, work, live>>

\* The finalizer is removed.
Finish ==
    /\ work = "cleaning" /\ stage = "terminating"
    /\ stage' = "gone" /\ work' = "none" /\ owned' = {}
    /\ UNCHANGED live

\* The reconcile returns early, or the operator restarts.
Abort ==
    /\ work' = "none"
    /\ UNCHANGED <<stage, owned, live>>

Outside(o) ==
    /\ \/ Others = "always"
       \/ Others = "between" /\ work = "none"
    /\ live' = [live EXCEPT ![o] = live'[o]]
    /\ UNCHANGED <<stage, work, owned>>

Next ==
    \/ Create \/ Register \/ Terminate
    \/ BeginApply \/ BeginSweep \/ EndWork \/ Record
    \/ BeginCleanup \/ Orphan \/ Finish \/ Abort
    \/ \E o \in Objects : Put(o) \/ Remove(o) \/ Outside(o)

Spec == Init /\ [][Next]_lifecycle

=============================================================================
