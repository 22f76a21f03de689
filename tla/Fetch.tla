------------------------------- MODULE Fetch --------------------------------
(***************************************************************************)
(* internal/source: ArtifactFetcher.Fetch of a tar.gz artifact into a      *)
(* directory of the caller, without validation of the root CUE module, as  *)
(* the Release reconciler calls it.  The source may serve another artifact *)
(* under the URL than the one that was resolved, or only a part of it.     *)
(***************************************************************************)
EXTENDS Integers, Sequences

CONSTANTS
    Artifacts,         \* artifacts, by their digests
    Archive,           \* artifact -> its size, gzip, entries and tree
    Cut,               \* the digest of a part of an artifact
    MaxArtifactSize,   \* the limits of fetch.go and extract.go
    MaxTarFiles,
    NoBody             \* nothing is downloaded

\* What an archive entry is to extractTarGz: written to the directory (a
\* directory, a file, a link that stays inside), of a type that is skipped, or
\* refused (a name or link that leads outside, an unreadable entry).
EntryKinds == {"written", "skipped", "refused"}

ASSUME FetchAssumptions ==
    /\ MaxArtifactSize \in Nat /\ MaxTarFiles \in Nat
    /\ \A a \in Artifacts : /\ Archive[a].size \in Nat
                            /\ Archive[a].entries \in Seq(EntryKinds)
    /\ Cut \notin Artifacts

VARIABLES
    stage,     \* the step the worker is at
    ref,       \* the artifact that was resolved
    body,      \* the downloaded file: of which artifact, and whether all of it
    count,     \* the archive entries read so far
    temp,      \* the temporary files: the directory, the downloaded file
    faulted    \* a request or a write has failed in this reconcile

fetchVars == <<stage, ref, body, count, temp, faulted>>

Bodies == [of : Artifacts, whole : BOOLEAN]

\* The body is read up to one byte beyond the limit.
Written(b) ==
    IF Archive[b.of].size > MaxArtifactSize THEN MaxArtifactSize + 1
    ELSE Archive[b.of].size

\* sha256 of what was written.
Digest(b) == IF b.whole THEN b.of ELSE Cut

\* Fetch returns an error; its own temporary file is removed.
Refuse ==
    /\ stage' = "refused"
    /\ temp' = temp \ {"file"}

Download ==
    /\ stage = "fetch"
    /\ \/ \E a \in Artifacts, whole \in BOOLEAN :
             /\ body' = [of |-> a, whole |-> whole]
             /\ temp' = temp \cup {"file"}
             /\ stage' = "verify"
             /\ UNCHANGED faulted
       \/ /\ Refuse
          /\ faulted' = TRUE
          /\ UNCHANGED body
    /\ UNCHANGED <<ref, count>>

\* Mutated: the digest is not compared.
VerifyMutant ==
    /\ stage = "verify"
    /\ IF Written(body) > MaxArtifactSize \/ ~Archive[body.of].gzip
       THEN Refuse
       ELSE stage' = "extract" /\ UNCHANGED temp
    /\ UNCHANGED <<ref, body, count, faulted>>

\* The size and digest of the download, and the gzip header of the archive.
Verify ==
    /\ stage = "verify"
    /\ IF \/ Written(body) > MaxArtifactSize
          \/ Digest(body) # ref
          \/ ~Archive[body.of].gzip
       THEN Refuse
       ELSE stage' = "extract" /\ UNCHANGED temp
    /\ UNCHANGED <<ref, body, count, faulted>>

Entries == Archive[body.of].entries

\* Mutated: as many entries as the limit are too many.
TooManyMutant(n) == n >= MaxTarFiles

\* Mutated: there is no limit.
TooManyNeverMutant(n) == FALSE

TooMany(n) == n > MaxTarFiles

\* One turn of the loop over the entries.
ExtractEntry ==
    /\ stage = "extract" /\ count < Len(Entries)
    /\ \/ /\ IF TooMany(count + 1) \/ Entries[count + 1] = "refused"
             THEN Refuse
             ELSE UNCHANGED <<stage, temp>>
          /\ UNCHANGED faulted
       \/ /\ Refuse
          /\ faulted' = TRUE
    /\ count' = count + 1
    /\ UNCHANGED <<ref, body>>

\* The end of the archive: Fetch returns without an error.
ExtractEnds ==
    /\ stage = "extract" /\ count = Len(Entries)
    /\ stage' = "fetched"
    /\ temp' = temp \ {"file"}
    /\ UNCHANGED <<ref, body, count, faulted>>

FetchNext == Download \/ Verify \/ ExtractEntry \/ ExtractEnds

-----------------------------------------------------------------------------

\* What Fetch accepts: the artifact it was asked for, all of it, within both
\* limits, with no entry that has to be refused.
Acceptable(artifact, b) ==
    /\ b = [of |-> artifact, whole |-> TRUE]
    /\ Archive[artifact].gzip
    /\ Archive[artifact].size <= MaxArtifactSize
    /\ Len(Archive[artifact].entries) <= MaxTarFiles
    /\ \A i \in DOMAIN Archive[artifact].entries : Archive[artifact].entries[i] # "refused"

\* The verdict of Fetch is right in both directions: unless a request or a write
\* failed, a download is refused only if it is not acceptable, and what is
\* extracted is acceptable, to the byte and to the entry (the checks of Fetch on
\* the size and the digest, and of extractTarGz on every entry).
FetchVerdict ==
    /\ stage = "fetched" => Acceptable(ref, body)
    /\ stage = "refused" /\ ~faulted => ~Acceptable(ref, body)

=============================================================================
