------------------------ MODULE PublisherProperties ------------------------
(***************************************************************************)
(* What publication promises: the properties that the runs check and that  *)
(* PublisherProofs proves, and the two abstract specifications it refines. *)
(***************************************************************************)
EXTENDS Publisher

\* Every variable stays in its set.
TypeOK ==
    /\ request \in [Sessions -> Requests]
    /\ pc \in [Sessions -> Steps]
    /\ art \in [Sessions -> Artifacts]
    /\ existing \in [Sessions -> SUBSET Artifacts]
    /\ replace \in [Sessions -> BOOLEAN]
    /\ temp \in [Sessions -> [Artifacts -> File]]
    /\ claimed \in [Sessions -> SUBSET Artifacts]
    /\ published \in [Sessions -> SUBSET Artifacts]
    /\ backedUp \in [Sessions -> SUBSET Artifacts]
    /\ leftovers \in [Sessions -> SUBSET (Names \X Artifacts)]
    /\ cleaned \subseteq Sessions
    /\ outcome \in [Sessions -> Outcomes]
    /\ told \in [Sessions -> SUBSET (Names \X Artifacts)]
    /\ final \in [Artifacts -> File]
    /\ bak \in [Artifacts -> File]
    /\ prior \in [Artifacts -> File]
    /\ faults \in 0..MaxFaults
    /\ kills \in 0..MaxKills
    /\ foreigns \in 0..MaxForeign

\* The rename that publishes the image is the commit point.
Committed(s) == "image" \in published[s]

\* The session is taking this step.
Moves(s) == <<pc[s], art[s]>>' # <<pc[s], art[s]>>

\* The process returned: it was not killed and is not running.
Returned(s) == pc[s] \in {"published", "refused", "failed"}

\* What Publish returned of the session: Publication.Leftovers, which
\* publishBuild does not look at, or the list in the error.
Returns(s) == IF outcome[s] = "published" THEN leftovers[s] ELSE told[s]

\* Why cleanup runs once and Abort after Publish does nothing: what the stages of a
\* session say of its flags, of complete and cleaned, and of what it has told.
EndingOf(s) ==
    /\ pc[s] \in {"idle", "stat", "authorize", "confirm", "temp", "build", "finish",
                  "refused"}
         => claimed[s] = {} /\ published[s] = {} /\ backedUp[s] = {}
    /\ pc[s] \in {"unpublish", "restore", "dropTemp"}
         => s \in cleaned /\ outcome[s] \in {"open", "aborted"}
    /\ pc[s] = "published" <=> outcome[s] = "published"
    /\ outcome[s] = "aborted"
         => pc[s] \in {"unpublish", "restore", "dropTemp", "failed", "killed"}
    /\ outcome[s] = "failed" => pc[s] = "failed" /\ told[s] = leftovers[s]
    /\ outcome[s] # "failed" => told[s] = {}
    /\ \/ outcome[s] = "aborted"
       \/ outcome[s] = "open" /\ pc[s] = "failed"
       => claimed[s] = {} /\ published[s] = {} /\ backedUp[s] = {}
    /\ outcome[s] = "open" /\ pc[s] \in {"idle", "stat", "authorize", "confirm", "failed"}
         => \A a \in Artifacts : temp[s][a] = Absent

EndingInv == \A s \in Sessions : EndingOf(s)

-----------------------------------------------------------------------------
(* Publication without --force.                                             *)

\* A session that was not authorized to replace never changes a final name
\* that holds anything but its own claim or artifact, at any interleaving:
\* the O_EXCL claim and the rollback touch no one else's file.
NoClobberKeepsOthers ==
    [][\A s \in Sessions, a \in Artifacts :
          Moves(s) /\ ~replace[s] /\ final'[a] # final[a]
             => final[a] \in {Absent, Claim(s), New(s)}]_vars

\* From the moment Publish returns without an error, the session's own complete
\* bytes are at every final name it owns, and stay there whatever the losing
\* processes undo and although Abort runs after Publish.
PublishedPairIntact ==
    \A s \in Sessions : outcome[s] = "published" =>
        \A a \in ArtifactsOf(s) : final[a] = New(s)

\* The image is published last: the image of an offline session is never at
\* its final name unless its own rescue media is at the other, even when
\* processes race, fail or are killed.
ImageLast ==
    \A s \in Sessions : final["image"] = New(s) /\ Offline(s)
        => final["resources"] = New(s)

\* A handled failure leaves neither a claim nor an artifact of the failed
\* session at a final or .bak name, unless the error of Publish lists a leftover.
FailureLeavesNothing ==
    \A s \in Sessions : At(s, "failed") /\ told[s] = {} =>
        \A a \in Artifacts : /\ final[a] \notin {Claim(s), New(s)}
                             /\ bak[a] \notin {Claim(s), New(s)}

\* When all processes that were started have returned and told of no leftover,
\* no final name holds a 0-byte claim.
NoClaimLeftBehind ==
    (\A s \in Sessions : At(s, "idle") \/ (Returned(s) /\ told[s] = {}))
        => \A a \in Artifacts : final[a].kind # "claim"

\* A process that returned leaves no temp, unless the error of Publish lists it, or
\* the session was aborted: what Abort cannot remove is told nowhere.
TempsGone ==
    \A s \in Sessions : Returned(s) =>
        \A a \in Artifacts : temp[s][a] # Absent =>
            outcome[s] = "aborted" \/ <<"temp", a>> \in told[s]

\* Racing for free names with nothing going wrong, exactly one process wins:
\* they never all undo each other.
ExactlyOneWins ==
    /\ \A s \in Sessions : pc[s] \in Terminal
    /\ \A a \in Artifacts : prior[a] = Absent
    /\ faults = 0 /\ kills = 0 /\ foreigns = 0
    => Cardinality({s \in Sessions : At(s, "published")}) = 1

\* Every process that was started exits, or waits for the user's answer or,
\* in the build, for a server: publication and cleanup always come to an end.
SessionsEnd ==
    \A s \in Sessions :
        <>[](pc[s] \in Terminal \cup {"idle", "confirm", "build"})

\* The image name is a write-once register for the racing sessions.  A 0-byte
\* claim counts as a free name: nobody published anything there.
Verdict(s) ==
    CASE At(s, "published") -> "won"
      [] pc[s] \in {"refused", "failed"} -> "lost"
      [] At(s, "killed") -> "died"
      [] OTHER -> "pending"

ImageName ==
    IF final["image"].kind = "claim" THEN Absent ELSE final["image"]

WriteOnce == INSTANCE WriteOnceName
    WITH Writers <- Sessions, Free <- Absent, Outside <- {Old, Foreign},
         Artifact <- New, name <- ImageName,
         verdict <- [s \in Sessions |-> Verdict(s)]

\* Racing no-clobber sessions implement the write-once register.
ImageIsWriteOnce == WriteOnce!Spec

\* Why the properties above hold: the flags of every session say exactly which
\* finals are its own, so nobody else's file is ever renamed over or removed.
FlagsTellOwner ==
    \A s \in Sessions, a \in Artifacts :
        /\ a \in claimed[s] <=> final[a] = Claim(s)
        /\ a \in published[s] <=> final[a] = New(s)

NothingReplaced(s) ==
    /\ ~replace[s] /\ backedUp[s] = {}
    /\ pc[s] \notin {"confirm", "bakStat", "bakRename"}

StaleBaks == \A a \in Artifacts : bak[a] \in {Absent, Unowned("stale")}

\* What a session has published when it is about to claim art[s].
PublishedBefore(s) ==
    IF Offline(s) /\ art[s] = "image" THEN {"resources"} ELSE {}

PublicationOrder(s) ==
    /\ art[s] = "resources" => Offline(s)
    /\ claimed[s] \cup published[s] \subseteq ArtifactsOf(s)
    /\ pc[s] \in {"idle", "stat", "authorize", "temp", "build", "finish", "refused"}
         => claimed[s] = {} /\ published[s] = {}
    /\ At(s, "build") /\ art[s] = "resources" => temp[s]["image"] = New(s)
    /\ At(s, "finish") => \A a \in ArtifactsOf(s) : temp[s][a] = New(s)
    /\ pc[s] \in {"claim", "rename"} =>
         /\ published[s] = PublishedBefore(s)
         /\ \A a \in ArtifactsOf(s) \ published[s] : temp[s][a] = New(s)
         /\ claimed[s] = IF At(s, "claim") THEN {} ELSE {art[s]}
    /\ pc[s] \in {"dropBak", "published"} => Committed(s)
    /\ Committed(s) => /\ pc[s] \in {"dropBak", "published", "killed"}
                       /\ published[s] = ArtifactsOf(s)

\* What unpublish could not remove is a leftover.
RolledBack(s) ==
    \A a \in claimed[s] \cup published[s] :
        \/ pc[s] \in {"restore", "dropTemp", "failed"}
        \/ At(s, "unpublish") /\ art[s] = "resources" /\ a = "image"
        => <<"final", a>> \in leftovers[s]

NoClobberInv ==
    /\ FlagsTellOwner
    /\ StaleBaks
    /\ \A s \in Sessions :
          NothingReplaced(s) /\ PublicationOrder(s) /\ RolledBack(s)

\* Nothing went wrong, and the names were free at the start.
Quiet ==
    /\ \A a \in Artifacts : prior[a] = Absent
    /\ faults = 0 /\ kills = 0 /\ foreigns = 0

\* The session holds a final that only another holder can make it give up.
Leads(s) ==
    \/ pc[s] \in {"rename", "dropBak", "published"}
    \/ At(s, "claim") /\ published[s] # {}

\* The session met another one's file.
GaveWay(s) ==
    \/ existing[s] # {}
    \/ pc[s] \in {"refused", "unpublish", "restore", "dropTemp", "failed"}

\* Why a quiet race has a winner: whoever gives way does so to a session that
\* leads, and a leader is stopped only by the one that claimed the image.
QuietRace ==
    /\ \A a \in Artifacts :
          final[a] = Absent \/ \E s \in Sessions : final[a] \in {Claim(s), New(s)}
    /\ \A s \in Sessions : /\ pc[s] # "killed"
                           /\ claimed[s] # {} => At(s, "rename")
    /\ (\E s \in Sessions : GaveWay(s)) => \E s \in Sessions : Leads(s)

RaceInv == Quiet => QuietRace

-----------------------------------------------------------------------------
(* Replacement by one --force (or confirmed) run.                           *)

\* Until the new image is at its final name, a complete file of the previous
\* generation is never lost: it is at the final or at the .bak name, whether
\* the run goes on, fails, is rolled back or is killed between two calls.
OldAtHand ==
    (\A s \in Sessions : ~Committed(s)) =>
        \A a \in Artifacts : prior[a] = Old => Old \in {final[a], bak[a]}

\* What the recovery page's script leaves at the final name: a .bak goes back
\* when the final is missing or is a 0-byte claim.
Recovered(a) ==
    IF bak[a] # Absent /\ (final[a] = Absent \/ final[a].kind = "claim")
      THEN bak[a] ELSE final[a]

\* After a kill at any call, the script brings back the previous image or
\* keeps the new one, and never leaves a claim in place of a previous file,
\* provided that no other program took the name meanwhile.
RecoveryScriptSafe ==
    \A s \in Sessions : At(s, "killed") /\ foreigns = 0 =>
        \A a \in Artifacts : prior[a] = Old =>
            \/ Recovered(a) = Old
            \/ Recovered(a) = New(s) /\ (Committed(s) \/ bak[a] = Old)

\* The previous generation survives until the new pair is in place: at one of its
\* two names at every step, and through the recovery script after a kill.
OldNeverLost == OldAtHand /\ RecoveryScriptSafe

\* A handled failure that tells of no leftover puts both finals back exactly as they
\* were, and its .bak names are not left behind: both artifacts or neither.
FailureRestoresPrior ==
    \A s \in Sessions :
        At(s, "failed") /\ told[s] = {} /\ foreigns = 0
            => final = prior /\ \A a \in Artifacts : bak[a] # Old

\* A backup of this run that is still there when the process returns is listed
\* in what Publish returned, and every backup listed is there.
BackupsReported ==
    \A s \in Sessions : Returned(s) =>
        \A a \in Artifacts :
            bak[a] \in {Old, Foreign} <=> <<"bak", a>> \in Returns(s)

\* What a publication that returned leaves behind is what its result says (fail,
\* cleanup, removeBaks), however many calls failed on the way and in the cleanup: its
\* backups are gone or listed, and a failure that lists nothing has put everything
\* back.  Its temps are gone or listed too, but for those of an aborted session.
CleanupIsTold == FailureRestoresPrior /\ BackupsReported /\ TempsGone

\* Why the properties above hold for one run: what each stage has marked, filled
\* and reported, and where the file that was at each name before the run is.
StageOf(s) ==
    /\ art[s] = "resources" => Offline(s)
    /\ claimed[s] \cup published[s] \cup backedUp[s] \subseteq ArtifactsOf(s)
    /\ pc[s] \in {"idle", "stat", "authorize", "confirm", "temp", "build", "finish",
                  "bakStat", "bakRename", "refused"}
         => claimed[s] = {} /\ published[s] = {}
    /\ pc[s] \in {"idle", "stat", "authorize", "confirm", "temp", "build", "finish",
                  "refused"} => backedUp[s] = {}
    /\ pc[s] \in {"bakStat", "bakRename"} => art[s] \notin backedUp[s]
    /\ pc[s] \in {"bakStat", "bakRename"} /\ art[s] = "image" => backedUp[s] = {}
    /\ pc[s] \in {"claim", "rename"} =>
         /\ published[s] = PublishedBefore(s)
         /\ claimed[s] = IF At(s, "claim") THEN {} ELSE {art[s]}
    /\ pc[s] \in {"dropBak", "published"} => Committed(s)
    /\ Committed(s) => /\ pc[s] \in {"dropBak", "published", "killed"}
                       /\ published[s] = ArtifactsOf(s) /\ claimed[s] = {}

TempsOf(s) ==
    /\ \A a \in Artifacts \ ArtifactsOf(s) : temp[s][a] = Absent
    /\ pc[s] \in {"idle", "stat", "authorize", "confirm", "refused"}
         => \A a \in Artifacts : temp[s][a] = Absent
    /\ At(s, "build") /\ art[s] = "resources" => temp[s]["image"] = New(s)
    /\ pc[s] \in {"finish", "bakStat", "bakRename", "claim", "rename"} =>
         \A a \in ArtifactsOf(s) \ published[s] : temp[s][a] = New(s)
    /\ \A a \in published[s] : temp[s][a] = Absent

\* What a cleanup step could not remove is a leftover.
BakTried(s, a) ==
    \/ pc[s] \in {"published", "dropTemp", "failed"}
    \/ At(s, "dropBak") /\ art[s] = "resources" /\ a = "image"
    \/ At(s, "restore") /\ art[s] = "image" /\ a = "resources"

ToldOf(s) ==
    /\ \A a \in Artifacts : ~At(s, "killed") =>
         (<<"bak", a>> \in leftovers[s] <=> a \in backedUp[s] /\ BakTried(s, a))
    /\ pc[s] \notin {"dropBak", "published", "unpublish", "restore", "dropTemp",
                     "failed", "killed"} => leftovers[s] = {}
    /\ \A a \in Artifacts :
         \/ pc[s] \in {"published", "failed"}
         \/ At(s, "dropTemp") /\ art[s] = "resources" /\ a = "image"
         => temp[s][a] = Absent \/ <<"temp", a>> \in leftovers[s]

\* The flags tell which finals and backups are the run's own.
FlagsOf(s) ==
    \A a \in Artifacts :
        /\ final[a] \in {Absent, Old, Foreign, Claim(s), New(s)}
        /\ bak[a] \in {Absent, Unowned("stale"), Old, Foreign}
        /\ a \in backedUp[s] <=> bak[a] \in {Old, Foreign}
        /\ final[a] = Claim(s) => a \in claimed[s]
        /\ final[a] = New(s) => a \in published[s]
        /\ pc[s] \notin {"restore", "dropTemp", "failed", "killed"} =>
             /\ a \in claimed[s] => final[a] = Claim(s)
             /\ a \in published[s] => final[a] = New(s)

\* The prior file is at the final name or is the backup; what is there instead
\* came from another program.
PriorKept(s) ==
    \A a \in Artifacts :
        /\ prior[a] \in {Absent, Old}
        /\ foreigns = 0 => final[a] # Foreign /\ bak[a] # Foreign
        /\ Committed(s) /\ a \in ArtifactsOf(s) => final[a] = New(s)
        /\ ~Committed(s) \/ a \notin ArtifactsOf(s) =>
             IF a \in backedUp[s] THEN \/ bak[a] = prior[a]
                                       \/ bak[a] = Foreign /\ prior[a] = Absent
             ELSE \/ final[a] = prior[a]
                  \/ final[a] \in {Foreign, Claim(s), New(s)} /\ prior[a] = Absent

RunInv(s) ==
    /\ StageOf(s) /\ TempsOf(s) /\ RolledBack(s) /\ ToldOf(s)
    /\ FlagsOf(s) /\ PriorKept(s)

\* The file a user has at a name, or gets back by renaming the backup that the
\* run s made.  Before the commit a claim or a new file of s is nothing yet.
Held(s, a) ==
    IF Committed(s) THEN final[a]
    ELSE IF a \in backedUp[s] THEN bak[a]
    ELSE IF final[a] \in {Claim(s), New(s)} THEN Absent
    ELSE final[a]

RunStatus(s) ==
    IF pc[s] \in {"refused", "failed"} THEN "failed"
    ELSE IF At(s, "killed") THEN "died"
    ELSE IF At(s, "published") THEN "published"
    ELSE IF Committed(s) THEN "committed" ELSE "open"

Sole == CHOOSE s \in Sessions : TRUE

Pair == INSTANCE AtomicPair
    WITH NewFile <- New(Sole), scope <- ArtifactsOf(Sole),
         pair <- [a \in Artifacts |-> Held(Sole, a)],
         status <- RunStatus(Sole)

\* A single replacing run swaps both files in one step, the rename that
\* publishes the image.
ReplaceIsAtomic == Pair!Spec
=============================================================================
