---------------------------- MODULE Acquisition ----------------------------
(***************************************************************************)
(* How a build acquires documents and assets: internal/update/client.go    *)
(* (HTTPSSource), local.go (LocalSource) and cache.go (assetCache).        *)
(*                                                                         *)
(* Several incusos-builder processes share one cache directory.  Each asks *)
(* its source, one after the other, for the items of its plan: documents   *)
(* (index.json, update.json, update.sjson), which are read into memory,    *)
(* and assets, which must pass through the cache.                          *)
(*                                                                         *)
(*   asset       stat, hash, [ get, temp, copy, commit | discard ]         *)
(*   document    get, read                                                 *)
(*                                                                         *)
(* The HTTPS source repeats get .. discard with a sleep in between; the    *)
(* local source tries once.  An asset stands for its sha256.               *)
(***************************************************************************)
EXTENDS Naturals, Sequences

CONSTANTS
    Processes,     \* incusos-builder processes, those of later runs included
    Digests,       \* the sha256 of every asset
    Malformed,     \* assets that validateAsset rejects: no name in the cache
    Plans,         \* sequences of items a build may ask for
    Sources,       \* the sources in use, of {"https", "local"}
    Attempts,      \* HTTPSSource.attempts, at least 1
    MaxFaults,     \* bound: failing local system calls
    MaxKills,      \* bound: SIGKILL of one process
    MaxLosses,     \* bound: power losses
    MaxEvictions   \* bound: cache entries deleted by hand

\* What is read into memory.  Those in ReleaseFiles make ReleaseMetadata.
ReleaseFiles == {"update.json", "update.sjson"}
Documents == {"index.json"} \cup ReleaseFiles

Items == Digests \cup Malformed \cup Documents

ASSUME AcquisitionAssumption ==
    /\ Digests \cap Documents = {} /\ Malformed \cap (Digests \cup Documents) = {}
    /\ Plans \subseteq Seq(Items)
    /\ Sources \subseteq {"https", "local"}
    /\ Attempts \in Nat \ {0}
    /\ MaxFaults \in Nat /\ MaxKills \in Nat
    /\ MaxLosses \in Nat /\ MaxEvictions \in Nat

\* What a file of the cache holds: nothing, bytes of another length than the
\* declared size, other bytes of that length, or the declared bytes.
Contents == {"absent", "cut", "bad", "good"}

\* How an attempt ended: 5xx or transport error, a body that broke off, a size
\* or digest that does not match, or an error that is never retried.
Outcomes == {"ok", "transient", "stream", "mismatch", "fatal"}

Exited == {"done", "failed", "killed"}

Steps == {"new", "next", "stat", "hash", "get", "read", "temp", "copy",
          "commit", "discard", "sleep"} \cup Exited

VARIABLES
    pc,          \* pc[p]: the next call of p
    todo,        \* todo[p]: items still to acquire, the current one first
    source,      \* source[p]: the adapter selectImageSource chose
    cancelled,   \* cancelled[p]: ctx is done (SIGINT, SIGTERM)
    attempt,     \* attempt[p]: fetchAndAdmit and doGET, attempt
    mismatches,  \* mismatches[p]: fetchAndAdmit, mismatchTries
    outcome,     \* outcome[p]: the error of the last attempt
    temp,        \* temp[p]: the .fetch-* file that admit is filling for p
    handles,     \* handles[p]: assets p has a VerifiedAsset for
    opened,      \* opened[p]: what cachedAsset.Open found so far
    entry,       \* entry[d]: the file <cache>/sha256/<d>
    strays,      \* .fetch-* files whose Remove failed: nothing looks for them again
    faults, kills, losses, evictions  \* spent of the bounds

progress == <<attempt, mismatches, outcome>>
held == <<handles, opened>>
budgets == <<strays, faults, kills, losses, evictions>>
vars == <<pc, todo, source, cancelled, progress, temp, held, entry, budgets>>

-----------------------------------------------------------------------------
At(p, step) == pc[p] = step
Go(p, step) == pc' = [pc EXCEPT ![p] = step]

Running(p) == pc[p] \notin Exited \cup {"new"}

Current(p) == Head(todo[p])

\* A local system call that fails.
Fault ==
    /\ faults < MaxFaults
    /\ faults' = faults + 1
    /\ UNCHANGED <<strays, kills, losses, evictions>>

\* Mutant: the request for the same item is made again.
AcquiredAgain(p) == Go(p, "next") /\ UNCHANGED <<todo, progress>>

\* The current item was acquired; the counters of its call are gone.
Acquired(p) ==
    /\ Go(p, "next")
    /\ todo' = [todo EXCEPT ![p] = Tail(@)]
    /\ attempt' = [attempt EXCEPT ![p] = 0]
    /\ mismatches' = [mismatches EXCEPT ![p] = 0]
    /\ outcome' = [outcome EXCEPT ![p] = "ok"]

Issue(p) == handles' = [handles EXCEPT ![p] = @ \cup {Current(p)}]

\* A context that is done fails every call but the reads of a local mirror's
\* release files and, in Asset, those of the cache.
Stopped(p) ==
    cancelled[p] /\ (source[p] = "https" \/ Current(p) \notin ReleaseFiles)

\* Mutant: mismatches are retried like any other failure.
MismatchAlways(p, result, tries) == result \in {"transient", "stream", "mismatch"}

\* shouldRetryDownload for assets, isTransient for documents: only the status
\* and the transport of a document are retried, not its body.
ShouldRetry(p, result, tries) ==
    \/ result = "transient"
    \/ result = "stream" /\ Current(p) \in Digests
    \/ result = "mismatch" /\ tries <= 1

\* The loops of fetchAndAdmit and doGET try again; LocalSource has no loop.
TryAgain(p, result, tries) ==
    /\ source[p] = "https"
    /\ attempt[p] + 1 < Attempts
    /\ ShouldRetry(p, result, tries)

\* An attempt failed and left nothing to clean up.
Settle(p, result) ==
    LET tries == mismatches[p] + (IF result = "mismatch" THEN 1 ELSE 0)
        again == TryAgain(p, result, tries)
    IN
    /\ mismatches' = [mismatches EXCEPT ![p] = tries]
    /\ outcome' = [outcome EXCEPT ![p] = result]
    /\ attempt' = [attempt EXCEPT ![p] = IF again THEN @ + 1 ELSE @]
    /\ Go(p, IF again THEN "sleep" ELSE "failed")

-----------------------------------------------------------------------------
Init ==
    /\ pc = [p \in Processes |-> "new"]
    /\ todo \in [Processes -> Plans]
    /\ source \in [Processes -> Sources]
    /\ cancelled = [p \in Processes |-> FALSE]
    /\ attempt = [p \in Processes |-> 0]
    /\ mismatches = [p \in Processes |-> 0]
    /\ outcome = [p \in Processes |-> "ok"]
    /\ temp = [p \in Processes |-> "absent"]
    /\ handles = [p \in Processes |-> {}]
    /\ opened = [p \in Processes |-> {}]
    /\ entry \in [Digests -> Contents]
    /\ strays = 0 /\ faults = 0 /\ kills = 0 /\ losses = 0 /\ evictions = 0

\* A build begins to acquire.
Start(p) ==
    /\ At(p, "new")
    /\ Go(p, "next")
    /\ UNCHANGED <<todo, source, cancelled, progress, temp, held, entry, budgets>>

\* Index, Asset or ReleaseMetadata is called for the next item.  Metadata
\* that is not well-formed is refused before the cache or the source is used.
Request(p) ==
    /\ At(p, "next") /\ todo[p] # <<>>
    /\ \/ Current(p) \in Malformed /\ Go(p, "failed")
       \/ Current(p) \in Digests /\ Go(p, "stat")
       \/ Current(p) \in Documents /\ Go(p, "get")
    /\ UNCHANGED <<todo, source, cancelled, progress, temp, held, entry, budgets>>

\* reuse, the stat: a missing entry or one of another size is a miss.
StatEntry(p) ==
    /\ At(p, "stat")
    /\ \/ /\ entry[Current(p)] \in {"absent", "cut"}
          /\ Go(p, "get")
          /\ UNCHANGED budgets
       \/ /\ entry[Current(p)] \in {"bad", "good"}
          /\ Go(p, "hash")
          /\ UNCHANGED budgets
       \/ Fault /\ Go(p, "failed")
    /\ UNCHANGED <<todo, source, cancelled, progress, temp, held, entry>>

\* Mutant: an entry of the declared size is taken without hashing it.
SizeMatches(content) == content \in {"bad", "good"}

\* Size and SHA-256 are the declared ones.
Verified(content) == content = "good"

\* reuse, the re-hash of what is at the name by now.  An entry that vanished
\* since the stat is an error, not a miss.
HashEntry(p) ==
    LET found == entry[Current(p)] IN
    /\ At(p, "hash")
    /\ \/ /\ Verified(found)
          /\ Issue(p)
          /\ Acquired(p)
          /\ UNCHANGED budgets
       \/ /\ found # "absent" /\ ~Verified(found)
          /\ Go(p, "get")
          /\ UNCHANGED <<todo, progress, handles, budgets>>
       \/ /\ found = "absent"
          /\ Go(p, "failed")
          /\ UNCHANGED <<todo, progress, handles, budgets>>
       \/ /\ Fault
          /\ Go(p, "failed")
          /\ UNCHANGED <<todo, progress, handles>>
    /\ UNCHANGED <<source, cancelled, temp, opened, entry>>

\* getOnce, or the open of the mirror file.  A cancelled context fails it.
Get(p) ==
    /\ At(p, "get")
    /\ \/ /\ ~Stopped(p)
          /\ Go(p, IF Current(p) \in Digests THEN "temp" ELSE "read")
          /\ UNCHANGED progress
       \/ source[p] = "https" /\ ~Stopped(p) /\ Settle(p, "transient")
       \/ Settle(p, "fatal")
    /\ UNCHANGED <<todo, source, cancelled, temp, held, entry, budgets>>

\* readCapped and decodeJSON: a body that breaks off, is too long or does not
\* decode ends the request.
Read(p) ==
    /\ At(p, "read")
    /\ \/ /\ source[p] = "https" => ~Stopped(p)
          /\ Acquired(p)
       \/ \E result \in {"stream", "fatal"} : Settle(p, result) /\ UNCHANGED todo
    /\ UNCHANGED <<source, cancelled, temp, held, entry, budgets>>

\* admit, MkdirAll and CreateTemp.
MakeTemp(p) ==
    /\ At(p, "temp")
    /\ \/ /\ temp' = [temp EXCEPT ![p] = "cut"]
          /\ Go(p, "copy")
          /\ UNCHANGED <<progress, budgets>>
       \/ /\ Fault
          /\ Settle(p, "fatal")
          /\ UNCHANGED temp
    /\ UNCHANGED <<todo, source, cancelled, held, entry>>

\* Mutant: the copy is not checked.
AnyBytes(content) == TRUE

\* The size and the digest of the copy match the metadata.
Admissible(content) == content = "good"

\* The deferred remove runs with the error of the attempt.
Abandon(p, result) ==
    /\ outcome' = [outcome EXCEPT ![p] = result]
    /\ Go(p, "discard")

\* admit, copyHashed and the admission check: whatever the source sends, cut
\* one byte above the declared size.  Cancellation is seen before every read.
Copy(p) ==
    /\ At(p, "copy")
    /\ \/ /\ ~cancelled[p]
          /\ \E body \in Contents \ {"absent"} :
                /\ temp' = [temp EXCEPT ![p] = body]
                /\ IF Admissible(body)
                     THEN Go(p, "commit") /\ UNCHANGED outcome
                     ELSE Abandon(p, "mismatch")
          /\ UNCHANGED budgets
       \/ /\ ~cancelled[p]
          /\ Abandon(p, "stream")
          /\ UNCHANGED <<temp, budgets>>
       \/ /\ cancelled[p]
          /\ Abandon(p, "fatal")
          /\ UNCHANGED <<temp, budgets>>
       \/ /\ Fault
          /\ Abandon(p, "fatal")
          /\ UNCHANGED temp
    /\ UNCHANGED <<todo, source, cancelled, attempt, mismatches, held, entry>>

\* admit, Close, Chmod and the Rename onto sha256/<digest>.
Commit(p) ==
    /\ At(p, "commit")
    /\ \/ /\ entry' = [entry EXCEPT ![Current(p)] = temp[p]]
          /\ temp' = [temp EXCEPT ![p] = "absent"]
          /\ Issue(p)
          /\ Acquired(p)
          /\ UNCHANGED budgets
       \/ /\ Fault
          /\ Abandon(p, "fatal")
          /\ UNCHANGED <<todo, attempt, mismatches, temp, handles, entry>>
    /\ UNCHANGED <<source, cancelled, opened>>

\* Mutant: the temp is removed only after a fatal error.
RemovedIfFatal(p) == outcome[p] = "fatal"

\* Mutant: the temp is not removed after a failing local call.
RemovedIfRefused(p) == outcome[p] # "fatal"

\* The temp was not committed.
Uncommitted(p) == temp[p] # "absent"

\* The Remove fails: the next attempt makes a temp of another name.
RemoveFails(p) ==
    /\ faults < MaxFaults
    /\ faults' = faults + 1 /\ strays' = strays + 1
    /\ temp' = [temp EXCEPT ![p] = "absent"]
    /\ UNCHANGED <<kills, losses, evictions>>

\* admit, the deferred Remove; its error is ignored.
Discard(p) ==
    /\ At(p, "discard")
    /\ \/ /\ temp' = [temp EXCEPT ![p] = IF Uncommitted(p) THEN "absent" ELSE @]
          /\ UNCHANGED budgets
       \/ RemoveFails(p)
    /\ Settle(p, outcome[p])
    /\ UNCHANGED <<todo, source, cancelled, held, entry>>

\* sleep: when the timer and the cancellation are both there, select takes
\* either.
Sleep(p) ==
    /\ At(p, "sleep")
    /\ \/ Go(p, "get")
       \/ cancelled[p] /\ Go(p, "failed")
    /\ UNCHANGED <<todo, source, cancelled, progress, temp, held, entry, budgets>>

\* cachedAsset.Open: the probe, the splice and the rescue writer open a handle
\* by path again, between the requests and after them.
Open(p) ==
    /\ At(p, "next")
    /\ \E d \in handles[p] :
          \/ /\ ~cancelled[p] /\ entry[d] # "absent"
             /\ opened' = [opened EXCEPT ![p] = @ \cup {entry[d]}]
             /\ UNCHANGED <<pc, budgets>>
          \/ /\ cancelled[p] \/ entry[d] = "absent"
             /\ Go(p, "failed")
             /\ UNCHANGED <<opened, budgets>>
          \/ /\ Fault
             /\ Go(p, "failed")
             /\ UNCHANGED opened
    /\ UNCHANGED <<todo, source, cancelled, progress, temp, handles, entry>>

\* Everything was acquired and used.
Done(p) ==
    /\ At(p, "next") /\ todo[p] = <<>>
    /\ Go(p, "done")
    /\ UNCHANGED <<todo, source, cancelled, progress, temp, held, entry, budgets>>

-----------------------------------------------------------------------------
(* The environment.                                                         *)

\* SIGINT or SIGTERM.
Cancel(p) ==
    /\ Running(p) /\ ~cancelled[p]
    /\ cancelled' = [cancelled EXCEPT ![p] = TRUE]
    /\ UNCHANGED <<pc, todo, source, progress, temp, held, entry, budgets>>

\* SIGKILL: the temp stays.
Kill(p) ==
    /\ Running(p)
    /\ kills < MaxKills
    /\ kills' = kills + 1
    /\ Go(p, "killed")
    /\ UNCHANGED <<todo, source, cancelled, progress, temp, held, entry, strays,
                   faults, losses, evictions>>

\* Power loss ends every process.  Neither the entries nor the directory are
\* synced, so an entry may come back with other bytes or not at all.
PowerLoss ==
    /\ losses < MaxLosses
    /\ losses' = losses + 1
    /\ pc' = [p \in Processes |-> IF Running(p) THEN "killed" ELSE pc[p]]
    /\ entry' \in [Digests -> Contents]
    /\ \A d \in Digests : /\ entry'[d] = "good" => entry[d] = "good"
                          /\ entry[d] = "absent" => entry'[d] = "absent"
    /\ UNCHANGED <<todo, source, cancelled, progress, temp, held, strays, faults,
                   kills, evictions>>

\* The user deletes a cache entry; there is no cache subcommand.
Evict(d) ==
    /\ entry[d] # "absent"
    /\ evictions < MaxEvictions
    /\ evictions' = evictions + 1
    /\ entry' = [entry EXCEPT ![d] = "absent"]
    /\ UNCHANGED <<pc, todo, source, cancelled, progress, temp, held, strays,
                   faults, kills, losses>>

Run(p) ==
    \/ Request(p) \/ StatEntry(p) \/ HashEntry(p) \/ Get(p) \/ Read(p)
    \/ MakeTemp(p) \/ Copy(p) \/ Commit(p) \/ Discard(p) \/ Sleep(p) \/ Done(p)

\* The client has no timeout: a server that does not answer, or stops in the
\* middle of a body, is waited for until the context is cancelled.
AwaitsServer(p) ==
    /\ source[p] = "https" /\ ~cancelled[p]
    /\ pc[p] \in {"get", "read", "copy"}

Finished ==
    /\ \A p \in Processes : pc[p] \in Exited
    /\ UNCHANGED vars

Next ==
    \/ \E p \in Processes : Start(p) \/ Run(p) \/ Open(p) \/ Cancel(p) \/ Kill(p)
    \/ PowerLoss
    \/ \E d \in Digests : Evict(d)
    \/ Finished

Spec == Init /\ [][Next]_vars

\* A process that was started is scheduled until it exits.
FairSpec ==
    Spec /\ \A p \in Processes : WF_vars(Run(p) /\ ~AwaitsServer(p))
=============================================================================
