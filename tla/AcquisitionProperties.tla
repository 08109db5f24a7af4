----------------------- MODULE AcquisitionProperties -----------------------
(***************************************************************************)
(* What acquisition promises, whatever the server, the mirror and the      *)
(* other processes on the same cache directory do.                         *)
(***************************************************************************)
EXTENDS Acquisition

\* Every variable stays in its set, and the attempts stay in their budget.
TypeOK ==
    /\ pc \in [Processes -> Steps]
    /\ todo \in [Processes -> Seq(Items)]
    /\ source \in [Processes -> {"https", "local"}]
    /\ cancelled \in [Processes -> BOOLEAN]
    /\ attempt \in [Processes -> 0..Attempts - 1]
    /\ mismatches \in [Processes -> Nat]
    /\ outcome \in [Processes -> Outcomes]
    /\ temp \in [Processes -> Contents]
    /\ handles \in [Processes -> SUBSET Digests]
    /\ opened \in [Processes -> SUBSET Contents]
    /\ entry \in [Digests -> Contents]
    /\ strays \in Nat
    /\ faults \in 0..MaxFaults
    /\ kills \in 0..MaxKills
    /\ losses \in 0..MaxLosses
    /\ evictions \in 0..MaxEvictions

\* While a process runs, the name behind each of its handles holds exactly the
\* verified bytes or nothing, whatever the other processes admit meanwhile.
HandlesHold ==
    \A p \in Processes : Running(p) =>
        \A d \in handles[p] : entry[d] \in {"good", "absent"}

\* cachedAsset.Open does not verify again, and yet no reader of a handle ever
\* sees other bytes than the declared ones.
OnlyVerifiedBytesRead == \A p \in Processes : opened[p] \subseteq {"good"}

\* Nothing a process does damages or removes a verified entry: a mirror with
\* other bytes, a broken download and a lost race leave it alone.
GoodEntriesStay ==
    [][\A d \in Digests :
          entry[d] = "good" /\ entry'[d] # "good"
             => losses' # losses \/ evictions' # evictions]_vars

\* Whatever fails in an attempt - the stream, the check, a write, the close, the
\* chmod or the rename - its .fetch-* temp is gone before the next attempt makes
\* another and before the request ends: only a killed process leaves its temp,
\* and a remove that fails leaves one (admit, the deferred Remove).
NoTempLeftBehind ==
    /\ \A p \in Processes :
          temp[p] # "absent" => pc[p] \in {"copy", "commit", "discard", "killed"}
    /\ strays <= faults

\* A request that admission refused twice is not fetched a third time, however
\* the other failures of its budget fall.
AtMostOneRedownload == \A p \in Processes : mismatches[p] <= 2

\* "A checksum or size mismatch gets exactly one clean re-download, then fails
\* with the admission wording" (docs/docs/reference/cache.md:122, client.go:112).
MismatchIsRedownloaded ==
    \A p \in Processes :
        /\ At(p, "failed") /\ source[p] = "https" /\ ~cancelled[p]
        /\ outcome[p] = "mismatch"
        => mismatches[p] = 2

\* Every process that was started comes to an end, or waits for ever for a
\* server that does not answer, which only cancellation ends: the attempts of
\* a server that keeps failing are used up.
RequestsEnd ==
    \A p \in Processes :
        <>[](pc[p] \in Exited \cup {"new"}) \/ <>[]AwaitsServer(p)

\* The cache directory as a store of blobs: verified entries are present, and a
\* process holds what it has handles for until it exits.
Present == {d \in Digests : entry[d] = "good"}
Damaged == {d \in Digests : entry[d] \in {"cut", "bad"}}
Held == [p \in Processes |-> IF Running(p) THEN handles[p] ELSE {}]

Store == INSTANCE BlobStore
    WITH Holders <- Processes, Blobs <- Digests,
         present <- Present, damaged <- Damaged, held <- Held

\* The shared cache directory implements the store of verified blobs.
CacheIsBlobStore == Store!Spec

\* Why handles hold: only a verified temp is ever renamed onto a name.
VerifiedBeforeCommit(p) == At(p, "commit") => temp[p] = "good"

\* The items of a plan are asked for in turn, and an asset's steps are made for
\* an asset.
RequestInProgress(p) ==
    /\ pc[p] \in {"stat", "hash", "get", "read", "temp", "copy", "commit",
                  "discard", "sleep"} => todo[p] # <<>>
    /\ pc[p] \in {"stat", "hash", "temp", "copy", "commit", "discard"}
         => Current(p) \in Digests

\* At most one mismatch is behind an attempt that is made again.
MismatchesCounted(p) ==
    /\ mismatches[p] <= 2
    /\ pc[p] \notin {"failed", "killed"} => mismatches[p] <= 1

CacheInv ==
    /\ HandlesHold /\ OnlyVerifiedBytesRead
    /\ \A p \in Processes :
          VerifiedBeforeCommit(p) /\ RequestInProgress(p) /\ MismatchesCounted(p)
=============================================================================
