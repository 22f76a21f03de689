------------------------------- MODULE Status -------------------------------
(***************************************************************************)
(* Package internal/status, shared by the reconcilers: the conditions, the *)
(* failure counters, the bounded history and the digests that decide       *)
(* whether a reconcile is a no-op.  A digest is modelled by the value it   *)
(* is computed from (SHA-256 is taken to be collision free); the empty     *)
(* string is None.                                                         *)
(***************************************************************************)
EXTENDS Integers, Sequences, FiniteSetsExt, Inventory

CONSTANT MaxHistoryEntries  \* the bound on status.history (10 in the code)

ASSUME HistoryBound == MaxHistoryEntries \in Nat \ {0}

-----------------------------------------------------------------------------
(* Conditions.  "Unset" is an absent Ready condition; the other conditions  *)
(* are only ever True or absent.                                            *)

Reasons ==
    {"Unset", "Progressing", "Suspended", "ReconciliationSucceeded",
     "ResolutionFailed", "RenderFailed", "ApplyFailed", "PruneFailed",
     "ImpersonationFailed", "DeletionSAMissing", "SourceNotReady", "FetchFailed",
     "DependenciesNotReady"}

Conditions ==
    [ready : {"Unset", "Unknown", "True", "False"}, reason : Reasons,
     reconciling : BOOLEAN, stalled : BOOLEAN, drifted : BOOLEAN,
     resolved : BOOLEAN]

NoConditions ==
    [ready |-> "Unset", reason |-> "Unset", reconciling |-> FALSE,
     stalled |-> FALSE, drifted |-> FALSE, resolved |-> FALSE]

MarkReconciling(c) ==
    [c EXCEPT !.reconciling = TRUE, !.stalled = FALSE,
              !.ready = "Unknown", !.reason = "Progressing"]

MarkStalled(c, reason) ==
    [c EXCEPT !.reconciling = FALSE, !.stalled = TRUE,
              !.ready = "False", !.reason = reason]

MarkReady(c) ==
    [c EXCEPT !.reconciling = FALSE, !.stalled = FALSE,
              !.ready = "True", !.reason = "ReconciliationSucceeded"]

MarkSuspended(c) ==
    [c EXCEPT !.reconciling = FALSE, !.stalled = FALSE,
              !.ready = "False", !.reason = "Suspended"]

MarkNotReady(c, reason) == [c EXCEPT !.ready = "False", !.reason = reason]

MarkDrifted(c) == [c EXCEPT !.drifted = TRUE]

ClearDrifted(c) == [c EXCEPT !.drifted = FALSE]

MarkModuleResolved(c) == [c EXCEPT !.resolved = TRUE]

-----------------------------------------------------------------------------
(* Failure counters. *)

Counters == [reconcile : Nat, apply : Nat, prune : Nat, drift : Nat]

ZeroCounters == [reconcile |-> 0, apply |-> 0, prune |-> 0, drift |-> 0]

\* What a phase does to its counter: nothing when it did not run, one more
\* when it failed, zero when it succeeded.
Phases == {"skipped", "ok", "failed"}

\* Mutated: a success takes one failure back.
CountMutant(n, phase) ==
    CASE phase = "skipped" -> n
      [] phase = "failed"  -> n + 1
      [] phase = "ok"      -> n - 1

Count(n, phase) ==
    CASE phase = "skipped" -> n
      [] phase = "failed"  -> n + 1
      [] phase = "ok"      -> 0

-----------------------------------------------------------------------------
(* History: newest entry first, at most MaxHistoryEntries of them. *)

HistoryEntry == [sequence : Nat, ok : BOOLEAN]

nextSequence(history) ==
    Max({0} \cup {history[i].sequence : i \in 1..Len(history)}) + 1

\* Mutated: the sequence number is taken from the number of entries kept.
recordHistoryEntryMutant(history, ok) ==
    LET entry == [sequence |-> Len(history) + 1, ok |-> ok]
        longer == <<entry>> \o history
    IN  IF Len(longer) > MaxHistoryEntries
        THEN SubSeq(longer, 1, MaxHistoryEntries)
        ELSE longer

recordHistoryEntry(history, ok) ==
    LET entry == [sequence |-> nextSequence(history), ok |-> ok]
        longer == <<entry>> \o history
    IN  IF Len(longer) > MaxHistoryEntries
        THEN SubSeq(longer, 1, MaxHistoryEntries)
        ELSE longer

-----------------------------------------------------------------------------
(* Digests. *)

NoDigests == [source |-> None, config |-> None, render |-> None]

\* Mutated: the rendered output is not compared.
IsNoOpMutant(current, currentInventory, applied, appliedInventory) ==
    /\ applied.source # None
    /\ current.source = applied.source
    /\ current.config = applied.config

\* All four digests are recorded and agree with those of the last apply.
IsNoOp(current, currentInventory, applied, appliedInventory) ==
    /\ applied.source # None /\ applied.config # None
    /\ applied.render # None /\ appliedInventory # None
    /\ current = applied
    /\ currentInventory = appliedInventory

=============================================================================
