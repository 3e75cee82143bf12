---------------------------- MODULE RuntimeCache ----------------------------
(***************************************************************************)
(* download_obstudio of the plugin's hook: the runtime of one release, as  *)
(* an archive and the directory it is extracted to, below the plugin's     *)
(* data.  A call runs under the hook's lock, may be killed at any step and *)
(* finds what earlier calls, or somebody with a full disk, have left.      *)
(***************************************************************************)
EXTENDS Integers

CONSTANTS
  Attempts,   \* DOWNLOAD_ATTEMPTS
  MaxFaults   \* bound: kills and alterations of the files in a behaviour

ASSUME CacheAssumption == Attempts \in Nat \ {0} /\ MaxFaults \in Nat

VARIABLES
  archive,    \* the downloaded file: none, the pinned bytes, or other bytes
  extracted,  \* the directory: none, or what its binary is
  cpc,        \* where the call is
  attempt,    \* attempts of this call so far
  faults,     \* kills and alterations so far
  result      \* what the last call returned as the binary to run

cacheVars == <<archive, extracted, cpc, attempt, faults, result>>

CacheInit ==
  /\ archive \in {"none", "pinned", "other"}
  /\ extracted \in {"none", "empty", "pinned", "other"}
  /\ cpc = "idle" /\ attempt = 0 /\ faults = 0 /\ result = "none"

Call ==
  /\ cpc = "idle"
  /\ cpc' = "cached" /\ attempt' = 0 /\ result' = "none"
  /\ UNCHANGED <<archive, extracted, faults>>

Leave(r) == cpc' = "idle" /\ result' = r

ArchiveIsValid == archive = "pinned"

\* find_extracted_binary_matching_archive: the binary has the bytes of the
\* archive's own member.
Cached ==
  /\ cpc = "cached"
  /\ IF ArchiveIsValid /\ extracted = archive
     THEN Leave(extracted)
     ELSE cpc' = "clean" /\ UNCHANGED result
  /\ UNCHANGED <<archive, extracted, attempt, faults>>

Clean ==
  /\ cpc = "clean"
  /\ archive' = IF ArchiveIsValid THEN archive ELSE "none"
  /\ extracted' = "none"
  /\ cpc' = "fetch"
  /\ UNCHANGED <<attempt, faults, result>>

\* One attempt: opening the file for writing empties it.
Open ==
  /\ cpc = "fetch"
  /\ archive' = "other" /\ attempt' = attempt + 1 /\ cpc' = "copy"
  /\ UNCHANGED <<extracted, faults, result>>

\* The whole answer arrives, right or wrong...
Arrived(bytes) ==
  /\ cpc = "copy"
  /\ archive' = bytes /\ cpc' = "verify"
  /\ UNCHANGED <<extracted, attempt, faults, result>>

\* ... or there is no such release, or the attempt fails.
Refused(notFound) ==
  /\ cpc = "copy"
  /\ archive' = "none"
  /\ IF notFound \/ attempt = Attempts THEN Leave("none")
     ELSE cpc' = "fetch" /\ UNCHANGED result
  /\ UNCHANGED <<extracted, attempt, faults>>

\* Mutation: what was downloaded is extracted without a look at its checksum.
VerifyNoArchive ==
  /\ cpc = "verify"
  /\ extracted' = "empty" /\ cpc' = "extract"
  /\ UNCHANGED <<archive, attempt, faults, result>>

\* A fresh directory; then the checksum decides.
VerifyArchive ==
  /\ cpc = "verify"
  /\ IF ArchiveIsValid
     THEN /\ extracted' = "empty" /\ cpc' = "extract" /\ UNCHANGED <<archive, result>>
     ELSE /\ archive' = "none" /\ extracted' = "none" /\ Leave("none")
  /\ UNCHANGED <<attempt, faults>>

\* extractall writes the entries; an error of the file system leaves what it
\* has written and ends the call.
Extract ==
  /\ cpc = "extract"
  /\ \/ extracted' = archive /\ Leave(archive)
     \/ extracted' = "other" /\ Leave("none")
  /\ UNCHANGED <<archive, attempt, faults>>

Kill ==
  /\ cpc /= "idle" /\ faults < MaxFaults
  /\ faults' = faults + 1
  /\ cpc' = "idle"
  /\ extracted' \in IF cpc \in {"clean", "extract"} THEN {extracted, "other"} ELSE {extracted}
  /\ UNCHANGED <<archive, attempt, result>>

\* The files change between two calls.
Alter ==
  /\ cpc = "idle" /\ faults < MaxFaults
  /\ faults' = faults + 1 /\ result' = "none"
  /\ \/ archive' = "other" /\ UNCHANGED extracted
     \/ extracted' = "other" /\ UNCHANGED archive
  /\ UNCHANGED <<cpc, attempt>>

CacheStep ==
  \/ Cached \/ Clean \/ Open \/ VerifyArchive \/ Extract
  \/ \E b \in {"pinned", "other"} : Arrived(b)
  \/ \E nf \in BOOLEAN : Refused(nf)

CacheNext == Call \/ CacheStep \/ Kill \/ Alter
CacheSpec == CacheInit /\ [][CacheNext]_cacheVars

----------------------------------------------------------------------------
\* The runtime the hook is given to start has the bytes the plugin's manifest
\* pins (download_obstudio), whatever a killed call, a wrong download or a full
\* disk left in the cache, and the archive beside it is the pinned one too, so
\* that the next call needs no download.
OnlyPinnedRuns ==
  result /= "none" => result = "pinned" /\ archive = "pinned" /\ extracted = "pinned"
=============================================================================
