----------------------------- MODULE Publisher -----------------------------
(***************************************************************************)
(* Publication of build artifacts: internal/cli/publish.go, driven as      *)
(* publishBuild in internal/cli/build.go drives it.                        *)
(*                                                                         *)
(* Every session is one incusos-builder process that targets the same pair *)
(* of destination names.  One action is one system call, so processes      *)
(* interleave between any two calls.  A session that is not killed follows *)
(*                                                                         *)
(*   Begin    stat, authorize (confirm), temp                              *)
(*   Build    build                                                        *)
(*   Publish  finish, [bakStat, bakRename], claim, rename, [dropBak]       *)
(*   cleanup  unpublish, restore, dropTemp        (Abort and fail)         *)
(*                                                                         *)
(* fail puts what cleanup leaves into the error, Abort says nothing of it.  *)
(*                                                                         *)
(* pc names the call the session makes next and art the artifact that the  *)
(* call is about.                                                          *)
(***************************************************************************)
EXTENDS Naturals, FiniteSets

CONSTANTS
    Sessions,       \* incusos-builder processes
    Nobody,         \* the author of a file that no session wrote
    Requests,       \* what the command lines may ask for
    InitialFinals,  \* kinds of file the final names may hold at the start
    InitialBaks,    \* kinds of file the .bak names may hold at the start
    MaxFaults,      \* bound: failing system calls and builds
    MaxKills,       \* bound: SIGKILL, crash, power loss
    MaxForeign      \* bound: files created by other programs

Artifacts == {"image", "resources"}

RequestType == [offline : BOOLEAN, force : BOOLEAN, confirm : {"nil", "ask"}]

ASSUME PublisherAssumption ==
    /\ Nobody \notin Sessions
    /\ Requests \subseteq RequestType
    /\ InitialFinals \subseteq {"none", "old"}
    /\ InitialBaks \subseteq {"none", "stale"}
    /\ MaxFaults \in Nat /\ MaxKills \in Nat /\ MaxForeign \in Nat

-----------------------------------------------------------------------------
(* What a name in the destination directory can hold.  "old" is the complete*)
(* file of the previous generation, "stale" a .bak of an earlier crashed    *)
(* run, "foreign" a file of another program, "claim" the 0-byte file made   *)
(* with O_CREAT|O_EXCL, "part" a temp that is not complete, "new" the       *)
(* complete artifact of a session.                                          *)

FileKinds == {"none", "old", "stale", "foreign", "claim", "part", "new"}

File == [kind : FileKinds, by : Sessions \cup {Nobody}]

Unowned(kind) == [kind |-> kind, by |-> Nobody]
Owned(kind, s) == [kind |-> kind, by |-> s]

Absent == Unowned("none")
Old == Unowned("old")
Foreign == Unowned("foreign")
Claim(s) == Owned("claim", s)
Part(s) == Owned("part", s)
New(s) == Owned("new", s)

Names == {"final", "bak", "temp"}

Terminal == {"published", "refused", "failed", "killed"}

\* "open" until the session ends, and for an error before there is one.
Outcomes == {"open", "published", "failed", "aborted"}

Steps == {"idle", "stat", "authorize", "confirm", "temp", "build", "finish",
          "bakStat", "bakRename", "claim", "rename", "dropBak",
          "unpublish", "restore", "dropTemp"} \cup Terminal

VARIABLES
    request,    \* request[s]: Request.Offline, Force and Confirm
    pc,         \* pc[s]: the next call of s
    art,        \* art[s]: the artifact pc[s] is about
    existing,   \* existing[s]: finals that the existence check saw
    replace,    \* replace[s]: Session.replace
    temp,       \* temp[s][a]: the file at artifact.temp, Absent when temp = ""
    claimed,    \* claimed[s]: artifacts with artifact.claimed set
    published,  \* published[s]: artifacts with artifact.published set
    backedUp,   \* backedUp[s]: artifacts with artifact.backedUp set
    leftovers,  \* leftovers[s]: Session.leftovers and Publication.Leftovers
    cleaned,    \* sessions with Session.complete or Session.cleaned set
    outcome,    \* history: how publishBuild returns from the session
    told,       \* told[s]: history, the leftovers in the error that s returns
    final,      \* final[a]: the file at artifact.final
    bak,        \* bak[a]: the file at artifact.final + bakSuffix
    prior,      \* history: final before any session ran
    faults,     \* faults spent of MaxFaults
    kills,      \* kills spent of MaxKills
    foreigns    \* foreign files created of MaxForeign

control == <<pc, art>>
decided == <<request, existing, replace>>
flags == <<claimed, published, backedUp>>
ending == <<cleaned, outcome, told>>
names == <<final, bak>>
budgets == <<faults, kills, foreigns>>
vars == <<control, decided, temp, flags, leftovers, ending, names, prior, budgets>>

-----------------------------------------------------------------------------
(* Control.                                                                 *)

Offline(s) == request[s].offline

\* An artifact that has no final name is skipped by every step.
ArtifactsOf(s) == IF Offline(s) THEN Artifacts ELSE {"image"}

At(s, step) == pc[s] = step

Go(s, step, a) ==
    /\ pc' = [pc EXCEPT ![s] = step]
    /\ art' = [art EXCEPT ![s] = a]

\* Setting and clearing the flag of an artifact, filling its temp, and noting a
\* path that could not be removed or restored.
Mark(flag, s, a) == [flag EXCEPT ![s] = @ \cup {a}]
Unmark(flag, s, a) == [flag EXCEPT ![s] = @ \ {a}]
FillTemp(s, a, file) == temp' = [temp EXCEPT ![s] = [@ EXCEPT ![a] = file]]
Report(s, name, a) == leftovers' = [leftovers EXCEPT ![s] = @ \cup {<<name, a>>}]

\* The resources are still to come.
More(s) == art[s] = "image" /\ Offline(s)

\* Mutant: the loop over the artifacts does not advance.
ImageForever(s, next, a) ==
    IF Offline(s) THEN Go(s, pc[s], "resources") ELSE Go(s, next, a)

\* The loops over both artifacts: image first, or resources first.
ImageFirst(s, next, a) ==
    IF More(s)
      THEN Go(s, pc[s], "resources") ELSE Go(s, next, a)

ResourcesFirst(s, next, a) ==
    IF art[s] = "resources" THEN Go(s, pc[s], "image") ELSE Go(s, next, a)

\* Mutants: the image goes first; the resources of an online session, which
\* have no path, go first.
ImagePublishedFirst(s) == "image"
PathlessFirst(s) == IF Offline(s) THEN "resources" ELSE ""

\* The rescue media is published before the image, and restored before it.
FirstPublished(s) == IF Offline(s) THEN "resources" ELSE "image"

\* Mutants: the error is returned without cleanup; cleanup only restores.
FailDirectly(s) == Go(s, "failed", "image") /\ UNCHANGED ending
FailKeepingFinals(s) ==
    /\ Go(s, "restore", FirstPublished(s))
    /\ cleaned' = cleaned \cup {s}
    /\ UNCHANGED <<outcome, told>>

\* cleanup of a session that is neither complete nor cleaned.
Cleanup(s) == Go(s, "unpublish", "image") /\ cleaned' = cleaned \cup {s}

\* Session.fail: cleanup, and the error is returned with what it left.
Fail(s) == Cleanup(s) /\ UNCHANGED <<outcome, told>>

\* Session.Abort before publication: the error is returned as it was.
Abort(s) ==
    /\ Cleanup(s)
    /\ outcome' = [outcome EXCEPT ![s] = "aborted"]
    /\ UNCHANGED told

\* The deferred Abort when publishBuild returns: cleanup, unless done says that
\* there is nothing to do.
DeferredAbort(s, done, step) ==
    IF s \in done THEN Go(s, step, "image") /\ cleaned' = done ELSE Cleanup(s)

\* Mutant: a successful Publish leaves complete and cleaned unset.
NotCompleted(s) == cleaned

\* Publish sets complete and cleaned.
Completed(s) == cleaned \cup {s}

\* Publish returns without an error.
Succeed(s) ==
    /\ outcome' = [outcome EXCEPT ![s] = "published"]
    /\ DeferredAbort(s, Completed(s), "published")
    /\ UNCHANGED told

\* Mutant: an error of Publish comes without the leftovers.
ReturnSilently(s, left) ==
    /\ outcome' = [outcome EXCEPT ![s] = IF @ = "open" THEN "failed" ELSE @]
    /\ DeferredAbort(s, cleaned, "failed")
    /\ UNCHANGED told

\* The cleanup is over: of fail, whose error lists what is left, or of Abort.
ReturnError(s, left) ==
    \/ /\ outcome[s] = "open"
       /\ told' = [told EXCEPT ![s] = left]
       /\ outcome' = [outcome EXCEPT ![s] = "failed"]
       /\ DeferredAbort(s, cleaned, "failed")
    \/ /\ outcome[s] # "open"
       /\ Go(s, "failed", "image")
       /\ UNCHANGED ending

\* A system call that fails.
Fault ==
    /\ faults < MaxFaults
    /\ faults' = faults + 1
    /\ UNCHANGED <<kills, foreigns>>

-----------------------------------------------------------------------------
Init ==
    /\ request \in [Sessions -> Requests]
    /\ pc = [s \in Sessions |-> "idle"]
    /\ art = [s \in Sessions |-> "image"]
    /\ existing = [s \in Sessions |-> {}]
    /\ replace = [s \in Sessions |-> FALSE]
    /\ temp = [s \in Sessions |-> [a \in Artifacts |-> Absent]]
    /\ claimed = [s \in Sessions |-> {}]
    /\ published = [s \in Sessions |-> {}]
    /\ backedUp = [s \in Sessions |-> {}]
    /\ leftovers = [s \in Sessions |-> {}]
    /\ cleaned = {}
    /\ outcome = [s \in Sessions |-> "open"]
    /\ told = [s \in Sessions |-> {}]
    /\ final \in [Artifacts -> {Unowned(k) : k \in InitialFinals}]
    /\ bak \in [Artifacts -> {Unowned(k) : k \in InitialBaks}]
    /\ prior = final
    /\ faults = 0 /\ kills = 0 /\ foreigns = 0

-----------------------------------------------------------------------------
(* Begin: existingFinals, authorize, createTemps.                           *)

\* The command reaches Begin with a valid request.
Start(s) ==
    /\ At(s, "idle")
    /\ Go(s, "stat", "image")
    /\ UNCHANGED <<decided, temp, flags, leftovers, ending, names, prior, budgets>>

\* existingFinals stats one final.  Any error but ErrNotExist ends Begin
\* before there is a session to clean up.
StatFinal(s) ==
    /\ At(s, "stat")
    /\ \/ /\ existing' = IF final[art[s]] = Absent THEN existing
                         ELSE Mark(existing, s, art[s])
          /\ ImageFirst(s, "authorize", "image")
          /\ UNCHANGED budgets
       \/ /\ Fault
          /\ Go(s, "failed", "image")
          /\ UNCHANGED existing
    /\ UNCHANGED <<request, replace, temp, flags, leftovers, ending, names, prior>>

\* The overwrite policy: --force replaces, free names need no authority, and
\* without a confirm callback existing finals are refused.
Authorize(s) ==
    /\ At(s, "authorize")
    /\ \/ /\ request[s].force
          /\ replace' = [replace EXCEPT ![s] = TRUE]
          /\ Go(s, "temp", "image")
       \/ /\ ~request[s].force /\ existing[s] = {}
          /\ Go(s, "temp", "image")
          /\ UNCHANGED replace
       \/ /\ ~request[s].force /\ existing[s] # {}
          /\ Go(s, IF request[s].confirm = "nil" THEN "refused" ELSE "confirm",
                "image")
          /\ UNCHANGED replace
    /\ UNCHANGED <<request, existing, temp, flags, leftovers, ending, names, prior,
                   budgets>>

\* The answer to the overwrite prompt: yes, no or end of input, read error.
Answer(s) ==
    /\ At(s, "confirm")
    /\ \/ /\ replace' = [replace EXCEPT ![s] = TRUE]
          /\ Go(s, "temp", "image")
          /\ UNCHANGED budgets
       \/ /\ Go(s, "refused", "image")
          /\ UNCHANGED <<replace, budgets>>
       \/ /\ Fault
          /\ Go(s, "failed", "image")
          /\ UNCHANGED replace
    /\ UNCHANGED <<request, existing, temp, flags, leftovers, ending, names, prior>>

\* createTemp makes an exclusive temp.  On failure Begin calls Abort; the
\* resources temp may exist already when closing it is what failed.
CreateTemp(s) ==
    /\ At(s, "temp")
    /\ \/ /\ FillTemp(s, art[s], Part(s))
          /\ ImageFirst(s, "build", "image")
          /\ UNCHANGED <<ending, budgets>>
       \/ /\ Fault
          /\ \/ UNCHANGED temp
             \/ /\ art[s] = "resources"
                /\ FillTemp(s, art[s], Part(s))
          /\ Abort(s)
    /\ UNCHANGED <<decided, flags, leftovers, names, prior>>

-----------------------------------------------------------------------------
(* build.Build, seen from the publisher: the splice fills the image temp,   *)
(* then the rescue writer replaces the resources temp.  Any error or SIGINT *)
(* makes publishBuild return, and the deferred Abort runs.                  *)

Build(s) ==
    /\ At(s, "build")
    /\ \/ /\ FillTemp(s, art[s], New(s))
          /\ ImageFirst(s, "finish", "image")
          /\ UNCHANGED <<ending, budgets>>
       \/ /\ Fault
          /\ Abort(s)
          /\ UNCHANGED temp
    /\ UNCHANGED <<decided, flags, leftovers, names, prior>>

-----------------------------------------------------------------------------
(* Publish.                                                                 *)

\* finishImageTemp and finishResourcesTemp: fsync and digest.
Finish(s) ==
    /\ At(s, "finish")
    /\ \/ /\ IF replace[s] THEN ImageFirst(s, "bakStat", "image")
             ELSE ImageFirst(s, "claim", FirstPublished(s))
          /\ UNCHANGED <<ending, budgets>>
       \/ Fault /\ Fail(s)
    /\ UNCHANGED <<decided, temp, flags, leftovers, names, prior>>

\* Mutant: the backups are deleted before the new artifacts are published.
DropBakEarly(s) ==
    IF art[s] = "image" /\ Offline(s)
      THEN Go(s, "bakStat", "resources") ELSE Go(s, "dropBak", "image")

\* The image is moved aside before the rescue media; then both are published.
AfterBak(s) ==
    IF art[s] = "image" /\ Offline(s)
      THEN Go(s, "bakStat", "resources") ELSE Go(s, "claim", FirstPublished(s))

\* bak, the existence check: a missing final is skipped.
BakStat(s) ==
    /\ At(s, "bakStat")
    /\ \/ /\ final[art[s]] # Absent
          /\ Go(s, "bakRename", art[s])
          /\ UNCHANGED <<ending, budgets>>
       \/ /\ final[art[s]] = Absent
          /\ AfterBak(s)
          /\ UNCHANGED <<ending, budgets>>
       \/ Fault /\ Fail(s)
    /\ UNCHANGED <<decided, temp, flags, leftovers, names, prior>>

\* bak, the rename: it takes whatever is at the final name by now and
\* replaces whatever is at the .bak name.  ENOENT is an error.
BakRename(s) ==
    LET a == art[s] IN
    /\ At(s, "bakRename")
    /\ \/ /\ final[a] # Absent
          /\ bak' = [bak EXCEPT ![a] = final[a]]
          /\ final' = [final EXCEPT ![a] = Absent]
          /\ backedUp' = Mark(backedUp, s, a)
          /\ AfterBak(s)
          /\ UNCHANGED <<ending, budgets>>
       \/ /\ final[a] = Absent
          /\ Fail(s)
          /\ UNCHANGED <<names, backedUp, budgets>>
       \/ /\ Fault
          /\ Fail(s)
          /\ UNCHANGED <<names, backedUp>>
    /\ UNCHANGED <<decided, temp, claimed, published, leftovers, prior>>

\* Mutant: the claim is made with O_CREAT alone.
AnyName(a) == TRUE

\* The O_EXCL open succeeds.
NameFree(a) == final[a] = Absent

\* claimThenRename, the O_CREAT|O_EXCL open.  EEXIST is the no-clobber miss.
\* The name is claimed even when closing the claim fails.
ClaimFinal(s) ==
    LET a == art[s]
        Take == /\ NameFree(a)
                /\ final' = [final EXCEPT ![a] = Claim(s)]
                /\ claimed' = Mark(claimed, s, a)
    IN
    /\ At(s, "claim")
    /\ \/ /\ Take
          /\ Go(s, "rename", a)
          /\ UNCHANGED <<ending, budgets>>
       \/ /\ ~NameFree(a)
          /\ Fail(s)
          /\ UNCHANGED <<final, claimed, budgets>>
       \/ /\ Fault
          /\ Take \/ UNCHANGED <<final, claimed>>
          /\ Fail(s)
    /\ UNCHANGED <<decided, temp, published, backedUp, leftovers, bak, prior>>

\* claimThenRename, the rename: the complete temp replaces whatever the final
\* name holds by now.
RenameTemp(s) ==
    LET a == art[s] IN
    /\ At(s, "rename")
    /\ \/ /\ final' = [final EXCEPT ![a] = temp[s][a]]
          /\ FillTemp(s, a, Absent)
          /\ claimed' = Unmark(claimed, s, a)
          /\ published' = Mark(published, s, a)
          /\ IF a = "resources" THEN Go(s, "claim", "image")
             ELSE Go(s, "dropBak", "image")
          /\ UNCHANGED <<ending, budgets>>
       \/ /\ Fault
          /\ Fail(s)
          /\ UNCHANGED <<final, temp, claimed, published>>
    /\ UNCHANGED <<decided, backedUp, leftovers, bak, prior>>

\* removeBaks deletes the .bak files of this run; a failure is only noted.  After
\* the last one Publish returns.
DropBak(s) ==
    LET a == art[s] IN
    /\ At(s, "dropBak")
    /\ IF More(s) THEN Go(s, pc[s], "resources") /\ UNCHANGED ending
       ELSE Succeed(s)
    /\ \/ /\ a \in backedUp[s]
          /\ bak' = [bak EXCEPT ![a] = Absent]
          /\ backedUp' = Unmark(backedUp, s, a)
          /\ UNCHANGED <<leftovers, budgets>>
       \/ /\ a \in backedUp[s] /\ bak[a] # Absent
          /\ Fault
          /\ Report(s, "bak", a)
          /\ UNCHANGED <<bak, backedUp>>
       \/ /\ a \notin backedUp[s]
          /\ UNCHANGED <<bak, backedUp, leftovers, budgets>>
    /\ UNCHANGED <<decided, temp, claimed, published, final, prior>>

-----------------------------------------------------------------------------
(* cleanup: rollbackPublication, then the temps.                            *)

\* Mutants: cleanup removes the finals whoever made them; it overlooks claims.
OwnsAll(s, a) == TRUE
OwnsPublished(s, a) == a \in published[s]

\* The flags by which unpublish decides that a final is the session's own.
Owns(s, a) == a \in claimed[s] \cup published[s]

\* unpublish removes a final this session claimed or published, whoever's
\* file is there by now.  A missing file counts as removed.
Unpublish(s) ==
    LET a == art[s] IN
    /\ At(s, "unpublish")
    /\ ImageFirst(s, "restore", FirstPublished(s))
    /\ \/ /\ Owns(s, a)
          /\ final' = [final EXCEPT ![a] = Absent]
          /\ claimed' = Unmark(claimed, s, a)
          /\ published' = Unmark(published, s, a)
          /\ UNCHANGED <<leftovers, budgets>>
       \/ /\ Owns(s, a) /\ final[a] # Absent
          /\ Fault
          /\ Report(s, "final", a)
          /\ UNCHANGED <<final, claimed, published>>
       \/ /\ ~Owns(s, a)
          /\ UNCHANGED <<final, claimed, published, leftovers, budgets>>
    /\ UNCHANGED <<decided, temp, backedUp, ending, bak, prior>>

\* restore renames the .bak back over whatever the final name holds.
Restore(s) ==
    LET a == art[s]
        Leave == /\ Report(s, "bak", a)
                 /\ UNCHANGED <<names, backedUp>>
    IN
    /\ At(s, "restore")
    /\ ResourcesFirst(s, "dropTemp", "image")
    /\ \/ /\ a \in backedUp[s] /\ bak[a] # Absent
          /\ final' = [final EXCEPT ![a] = bak[a]]
          /\ bak' = [bak EXCEPT ![a] = Absent]
          /\ backedUp' = Unmark(backedUp, s, a)
          /\ UNCHANGED <<leftovers, budgets>>
       \/ /\ a \in backedUp[s] /\ bak[a] = Absent
          /\ Leave
          /\ UNCHANGED budgets
       \/ /\ a \in backedUp[s]
          /\ Fault
          /\ Leave
       \/ /\ a \notin backedUp[s]
          /\ UNCHANGED <<names, backedUp, leftovers, budgets>>
    /\ UNCHANGED <<decided, temp, claimed, published, ending, prior>>

\* removeTemp deletes what is left of the temps.
DropTemp(s) ==
    LET a == art[s] IN
    /\ At(s, "dropTemp")
    /\ \/ /\ FillTemp(s, a, Absent)
          /\ UNCHANGED <<leftovers, budgets>>
       \/ /\ temp[s][a] # Absent
          /\ Fault
          /\ Report(s, "temp", a)
          /\ UNCHANGED temp
    /\ IF More(s) THEN Go(s, pc[s], "resources") /\ UNCHANGED ending
       ELSE ReturnError(s, leftovers'[s])
    /\ UNCHANGED <<decided, flags, names, prior>>

-----------------------------------------------------------------------------
(* The environment.                                                         *)

\* SIGKILL, a crash or power loss: no cleanup runs.
Kill(s) ==
    /\ pc[s] \notin Terminal \cup {"idle"}
    /\ kills < MaxKills
    /\ kills' = kills + 1
    /\ Go(s, "killed", "image")
    /\ UNCHANGED <<decided, temp, flags, leftovers, ending, names, prior, faults,
                   foreigns>>

\* Another program creates a file at a free final name.
ForeignCreate(a) ==
    /\ final[a] = Absent
    /\ foreigns < MaxForeign
    /\ foreigns' = foreigns + 1
    /\ final' = [final EXCEPT ![a] = Foreign]
    /\ UNCHANGED <<control, decided, temp, flags, leftovers, ending, bak, prior,
                   faults, kills>>

\* What a process does by itself.  Starting one and answering its prompt is up
\* to the user.
Run(s) ==
    \/ StatFinal(s) \/ Authorize(s) \/ CreateTemp(s) \/ Build(s) \/ Finish(s)
    \/ BakStat(s) \/ BakRename(s) \/ ClaimFinal(s) \/ RenameTemp(s)
    \/ DropBak(s) \/ Unpublish(s) \/ Restore(s) \/ DropTemp(s)

\* Every process has exited.
Finished ==
    /\ \A s \in Sessions : pc[s] \in Terminal
    /\ UNCHANGED vars

Next ==
    \/ \E s \in Sessions : Start(s) \/ Answer(s) \/ Run(s) \/ Kill(s)
    \/ \E a \in Artifacts : ForeignCreate(a)
    \/ Finished

Spec == Init /\ [][Next]_vars

\* A process that was started is scheduled until it exits, but the build may
\* wait for a server for ever: the client has no timeout.
FairSpec ==
    Spec /\ \A s \in Sessions : WF_vars(Run(s) /\ ~At(s, "build"))
=============================================================================
