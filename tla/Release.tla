------------------------------ MODULE Release ------------------------------
(***************************************************************************)
(* Which release is built and of which files: internal/build/resolve.go    *)
(* (Resolve), internal/cli/versions.go (the listing of releases),          *)
(* internal/update/validate.go (names that come from a server) and         *)
(* internal/update/metadata.go (the documents copied onto rescue media).   *)
(*                                                                         *)
(*   index, image, [ apps, json, sjson, bind ]                             *)
(*                                                                         *)
(* A server may publish other documents at any time, between two requests  *)
(* of the same build too.  A file stands for its name and its digest; the  *)
(* base of an application is written without its .raw.gz.                  *)
(***************************************************************************)
EXTENDS Integers, Sequences, FiniteSets, Loops

CONSTANTS
    Cases,       \* pairs of a build.Spec and an index, as they may be read
    Documents,   \* the documents that a server may publish
    Idents,      \* segments of names that pass validIdent
    Legal,       \* versions that pass ValidateVersion
    Digests,     \* well-formed sha256 digests
    MaxSize      \* maxAssetSize

DefaultChannel == "stable"

Types == {"iso", "raw"}

AssetFile ==
    [type : STRING, arch : STRING, dir : Seq(STRING), base : STRING, sha : STRING, size : Int]

Update == [version : Nat, channels : SUBSET STRING, files : Seq(AssetFile)]

BuildSpec ==
    [type : Types, arch : STRING, channel : STRING, release : Nat, offline : BOOLEAN,
     apps : Seq(STRING)]

ASSUME ReleaseAssumption ==
    /\ \A c \in Cases : c \in BuildSpec \X Seq(Update)
    /\ MaxSize \in Nat

\* A file type of the update server, and the image type of the command line.
TypeOf == [iso |-> "image-iso", raw |-> "image-raw"]

VARIABLES
    pc,      \* the next request, "bind", "done" or "failed"
    case,    \* the pair of spec and index
    plan,    \* build.Plan: the update's place in the index, image, apps
    todo,    \* applications still to acquire
    asked,   \* history: the names requested, as version and segments
    got      \* update.json and update.sjson as they were fetched

vars == <<pc, case, plan, todo, asked, got>>

Spec0 == case[1]
Updates == case[2]

-----------------------------------------------------------------------------
(* resolve.go                                                               *)

InChannel(updates, i, channel) == channel \in updates[i].channels

\* Mutant: the loop goes on behind the pin.
scanOn(updates, channel, pin) ==
    LET best[n \in 0..Len(updates)] ==
            IF n = 0 THEN [version |-> 0, idx |-> 0]
            ELSE IF InChannel(updates, n, channel) /\ updates[n].version > best[n - 1].version
            THEN [version |-> updates[n].version, idx |-> n]
            ELSE best[n - 1]
    IN best[Len(updates)].idx

\* The loop of selectUpdate over versions as numbers, 0 for the empty string:
\* the place it ends with, or 0.  The pin breaks the loop.
scan(updates, channel, pin) ==
    LET best[n \in 0..Len(updates)] ==
            IF n = 0 THEN [version |-> 0, idx |-> 0, pinned |-> FALSE]
            ELSE LET b == best[n - 1]
                     v == updates[n].version IN
                 IF b.pinned \/ ~InChannel(updates, n, channel) THEN b
                 ELSE IF pin # 0 /\ v = pin THEN [idx |-> n, version |-> b.version, pinned |-> TRUE]
                 ELSE IF v > b.version THEN [idx |-> n, version |-> v, pinned |-> FALSE]
                 ELSE b
    IN best[Len(updates)].idx

\* 0 stands for ErrVersionNotFound.
selectUpdate(updates, channel, pin) ==
    LET i == scan(updates, channel, pin) IN
    IF i # 0 /\ pin # 0 /\ updates[i].version # pin THEN 0 ELSE i

\* Mutant: files of every architecture.
matchingAny(files, arch, type) ==
    Kept(files, {k \in DOMAIN files : files[k].type = type})

matchingFiles(files, arch, type) ==
    Kept(files, {k \in DOMAIN files : files[k].arch = arch /\ files[k].type = type})

\* Positions of the files that have the application's name.
Carriers(files, name) == {k \in DOMAIN files : files[k].base = name}

findAppFile(files, name) == files[Least(Carriers(files, name))]

NoPlan == [idx |-> 0, image |-> <<>>, apps |-> <<>>]

\* matchApplications: <<>> without an applications seed.
matchApplications(spec, files) ==
    LET apps == matchingFiles(files, spec.arch, "application") IN
    [k \in DOMAIN spec.apps |-> findAppFile(apps, spec.apps[k])]

AllCarried(spec, files) ==
    \A k \in DOMAIN spec.apps :
        Carriers(matchingFiles(files, spec.arch, "application"), spec.apps[k]) # {}

ChannelOf(channel) == IF channel = "" THEN DefaultChannel ELSE channel

Unique(images) == Len(images) = 1

\* NoPlan stands for ErrVersionNotFound.
Resolve(spec, updates) ==
    LET i == selectUpdate(updates, ChannelOf(spec.channel), spec.release)
        images == matchingFiles(updates[i].files, spec.arch, TypeOf[spec.type])
    IN
    IF i = 0 THEN NoPlan
    ELSE IF ~Unique(images) THEN NoPlan
    ELSE IF ~spec.offline THEN [idx |-> i, image |-> images, apps |-> <<>>]
    ELSE IF ~AllCarried(spec, updates[i].files) THEN NoPlan
    ELSE [idx |-> i, image |-> images, apps |-> matchApplications(spec, updates[i].files)]

-----------------------------------------------------------------------------
(* versions.go                                                              *)

\* Mutant: raw images are forgotten.
matchingIso(files, want) ==
    {p \in {<<files[k].arch, "iso">> : k \in DOMAIN files} :
        \E k \in DOMAIN files : files[k].arch = p[1] /\ files[k].type = "image-iso"}

\* imageTypeName, matchingImages: iso and raw files, each pair once.
matchingImages(files, want) ==
    {p \in {<<files[k].arch, t>> : k \in DOMAIN files, t \in Types} :
        /\ want = "" \/ p[1] = want
        /\ \E k \in DOMAIN files : files[k].arch = p[1] /\ files[k].type = TypeOf[p[2]]}

uniqueArchitectures(images) == {p[1] : p \in images}

\* Mutant: the channel is not asked for.
ListedAnywhere(updates, i, channel, arch) == matchingImages(updates[i].files, arch) # {}

Listed(updates, i, channel, arch) ==
    InChannel(updates, i, channel) /\ matchingImages(updates[i].files, arch) # {}

\* The places of the updates that are listed, in order, each with its images.
filterVersions(updates, channel, arch) ==
    LET listed == Kept([i \in DOMAIN updates |-> i],
            {i \in DOMAIN updates : Listed(updates, i, channel, arch)})
    IN [n \in DOMAIN listed |->
           LET images == matchingImages(updates[listed[n]].files, arch) IN
           [idx |-> listed[n], version |-> updates[listed[n]].version,
            images |-> images, archs |-> uniqueArchitectures(images)]]

\* tableRows: a row is a version, an architecture and a type.
tableRows(entries) ==
    UNION {{<<entries[n].version, p[1], p[2]>> : p \in entries[n].images} : n \in DOMAIN entries}

-----------------------------------------------------------------------------
(* validate.go                                                              *)

ValidateVersion(version) == version \in Legal

validIdent(segment) == segment \in Idents

ValidateFilename(file) ==
    LET segments == Append(file.dir, file.base) IN
    \A k \in DOMAIN segments : validIdent(segments[k])

ValidateSHA256(file) == file.sha \in Digests

validateSize(file) == file.size \in 1..MaxSize

\* Mutant: the version is not looked at.
validateFile(version, file) ==
    ValidateFilename(file) /\ ValidateSHA256(file) /\ validateSize(file)

validateAsset(version, file) ==
    /\ ValidateVersion(version)
    /\ ValidateFilename(file) /\ ValidateSHA256(file) /\ validateSize(file)

-----------------------------------------------------------------------------
(* A build.                                                                 *)

Init ==
    /\ pc = "index" /\ case \in Cases
    /\ plan = NoPlan /\ todo = <<>> /\ asked = {}
    /\ got = [json |-> {}, sjson |-> {}]

Version == Updates[plan.idx].version

Fail == pc' = "failed" /\ UNCHANGED <<plan, todo, asked, got>>

\* Index and Resolve.
ResolveRelease ==
    LET p == Resolve(Spec0, Updates) IN
    /\ pc = "index"
    /\ \/ Fail
       \/ /\ p # NoPlan /\ plan' = p /\ todo' = p.apps
          /\ pc' = "image" /\ UNCHANGED <<asked, got>>
    /\ UNCHANGED case

\* One asset: its names are looked at before a URL or a path is made of them.
Acquire(file, next) ==
    /\ validateAsset(Version, file)
    /\ asked' = asked \cup {<<Version, Append(file.dir, file.base)>>}
    /\ pc' = next /\ UNCHANGED <<plan, got>>

AcquireImage ==
    /\ pc = "image"
    /\ \/ Acquire(plan.image[1], IF Spec0.offline THEN "apps" ELSE "done") /\ UNCHANGED todo
       \/ Fail
    /\ UNCHANGED case

AcquireApp ==
    /\ pc = "apps" /\ todo # <<>>
    /\ \/ Acquire(Head(todo), "apps") /\ todo' = Tail(todo)
       \/ Fail
    /\ UNCHANGED case

\* ReleaseMetadata: the version, and then the two documents as they are
\* published at the time of each request.
GetUpdateJSON ==
    /\ pc = "apps" /\ todo = <<>>
    /\ \/ /\ ValidateVersion(Version)
          /\ \E d \in Documents : got' = [got EXCEPT !.json = {d}]
          /\ asked' = asked \cup {<<Version, <<"update.json">>>>}
          /\ pc' = "sjson" /\ UNCHANGED <<plan, todo>>
       \/ Fail
    /\ UNCHANGED case

GetUpdateSJSON ==
    /\ pc = "sjson"
    /\ \/ /\ \E d \in Documents : got' = [got EXCEPT !.sjson = {d}]
          /\ asked' = asked \cup {<<Version, <<"update.sjson">>>>}
          /\ pc' = "bind" /\ UNCHANGED <<plan, todo>>
       \/ Fail
    /\ UNCHANGED case

\* Mutant: the names are bound, the digests are not.
bindNames(files, selected) ==
    \A k \in DOMAIN selected : \E f \in files :
        f.name = Append(selected[k].dir, selected[k].base)

bindSelected(files, selected) ==
    \A k \in DOMAIN selected :
        [name |-> Append(selected[k].dir, selected[k].base), sha |-> selected[k].sha] \in files

validateUpdateJSON(d) == d.decodes /\ d.version = Version

\* A signed message of MIME with a first part that is not empty.
signedCleartext(d) == d.signed

validateUpdateSJSON(d) ==
    signedCleartext(d) /\ d.decodes /\ d.version = Version /\ bindSelected(d.files, plan.apps)

loadReleaseMetadata ==
    /\ pc = "bind"
    /\ \A d \in got.json : validateUpdateJSON(d)
    /\ \A d \in got.sjson : validateUpdateSJSON(d)
    /\ pc' = "done"
    /\ UNCHANGED <<plan, todo, asked, got, case>>

Refuse ==
    /\ pc = "bind"
    /\ \/ \E d \in got.json : ~validateUpdateJSON(d)
       \/ \E d \in got.sjson : ~validateUpdateSJSON(d)
    /\ Fail /\ UNCHANGED case

Ended == pc \in {"done", "failed"} /\ UNCHANGED vars

Next ==
    \/ ResolveRelease \/ AcquireImage \/ AcquireApp
    \/ GetUpdateJSON \/ GetUpdateSJSON \/ loadReleaseMetadata \/ Refuse
    \/ Ended

Spec == Init /\ [][Next]_vars
=============================================================================
