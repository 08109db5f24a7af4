------------------------- MODULE ReleaseProperties -------------------------
(* What is selected, against what the index says; what is listed, against  *)
(* what can be built; what is put onto the media, against what was asked.  *)
EXTENDS Release

TypeOK ==
    /\ pc \in {"index", "image", "apps", "sjson", "bind", "done", "failed"}
    /\ case \in Cases
    /\ plan.idx \in 0..Len(Updates) /\ Len(plan.image) <= 1
    /\ Len(todo) <= Len(plan.apps) /\ Len(plan.apps) <= Len(Spec0.apps)
    /\ got.json \subseteq Documents /\ got.sjson \subseteq Documents

\* The updates of the channel, and those among them that the spec allows.
Candidates ==
    {i \in DOMAIN Updates :
        /\ ChannelOf(Spec0.channel) \in Updates[i].channels
        /\ Spec0.release # 0 => Updates[i].version = Spec0.release}

\* The release is the highest of its channel, or the pinned one; of equals it is
\* the first of the index; and there is none only if the channel has none with a
\* version (selectUpdate).
SelectsHighest ==
    LET i == selectUpdate(Updates, ChannelOf(Spec0.channel), Spec0.release)
        named == {j \in Candidates : Updates[j].version > 0} IN
    /\ i = 0 <=> named = {}
    /\ i # 0 =>
          /\ i \in named
          /\ \A j \in named :
                Updates[j].version < Updates[i].version
                \/ (Updates[j].version = Updates[i].version /\ i <= j)

\* Whatever a build selects, incusos-builder versions lists for the same channel
\* and architecture, with the type that is built (Resolve, filterVersions).
SelectedIsListed ==
    plan.idx # 0 =>
        <<Version, Spec0.arch, Spec0.type>>
            \in tableRows(filterVersions(Updates, ChannelOf(Spec0.channel), Spec0.arch))

\* Whatever is listed can be built with its version as the pin, unless the index
\* has that version or that image more than once (filterVersions, Resolve).
ListedCanBeBuilt ==
    LET channel == ChannelOf(Spec0.channel) IN
    \A row \in tableRows(filterVersions(Updates, channel, "")) :
        LET same == {i \in DOMAIN Updates : channel \in Updates[i].channels
                                             /\ Updates[i].version = row[1]}
            pinned == [type |-> row[3], arch |-> row[2], channel |-> Spec0.channel,
                       release |-> row[1], offline |-> FALSE, apps |-> Spec0.apps]
        IN \/ Resolve(pinned, Updates).idx \in same
           \/ Cardinality(same) > 1
           \/ row[1] = 0
           \/ \E i \in same : Len(matchingFiles(Updates[i].files, row[2], TypeOf[row[3]])) > 1

\* build and versions, which walk the index by different code, agree with each other
\* and with what the index says: the release built is the highest or the pinned one, it
\* is listed, and what is listed can be built (Resolve, filterVersions).
CommandsAgree == TypeOK /\ SelectsHighest /\ SelectedIsListed /\ ListedCanBeBuilt

\* An offline build that is done holds one application of its architecture for
\* each name, of the release it selected, in the order of the configuration
\* (matchApplications, writeRescue).
AppsAsRequested ==
    pc = "done" /\ Spec0.offline =>
        /\ Len(plan.apps) = Len(Spec0.apps) /\ todo = <<>>
        /\ \A k \in DOMAIN plan.apps :
              /\ plan.apps[k].base = Spec0.apps[k]
              /\ plan.apps[k].arch = Spec0.arch /\ plan.apps[k].type = "application"
              /\ \E n \in DOMAIN Updates[plan.idx].files : Updates[plan.idx].files[n] = plan.apps[k]

\* However often the server publishes in between, the signed document on the media
\* is about the files on the media, and both documents about the version that was
\* resolved from the index (loadReleaseMetadata, bindSelected).
DocumentsBindFiles ==
    pc = "done" /\ Spec0.offline =>
        /\ \E d \in got.json : d.version = Version
        /\ \E d \in got.sjson :
              /\ d.signed /\ d.version = Version
              /\ \A k \in DOMAIN plan.apps : \E f \in d.files :
                    f.sha = plan.apps[k].sha
                    /\ f.name = Append(plan.apps[k].dir, plan.apps[k].base)

\* No URL and no path is made of a version or a name that was not looked at
\* (ValidateVersion, ValidateFilename).
OnlyLegalNames ==
    \A a \in asked :
        /\ a[1] \in Legal
        /\ \A k \in DOMAIN a[2] : a[2][k] \in Idents \cup {"update.json", "update.sjson"}

\* The documents and files an offline build ends with are of one release and belong
\* together, whatever the server says and when (runBuild, writeRescue).
FilesOfOneRelease == AppsAsRequested /\ DocumentsBindFiles /\ OnlyLegalNames

-----------------------------------------------------------------------------
(* Behind the properties: what each step relies on.                         *)

Acquired == pc \in {"sjson", "bind"} \/ (pc = "done" /\ Spec0.offline)

\* The plan is the one that the index gives; requests follow it.
PlanIsResolved ==
    /\ plan = NoPlan \/ plan = Resolve(Spec0, Updates)
    /\ pc \in {"image", "apps", "sjson", "bind", "done"} => plan # NoPlan
    /\ pc \in {"apps", "sjson", "bind"} => Spec0.offline
    /\ todo \in Seq(AssetFile) /\ (Acquired => todo = <<>>)

\* The documents are there when they are looked at, and were when it is done.
DocumentsAreThere ==
    /\ got \in [json : SUBSET Documents, sjson : SUBSET Documents]
    /\ Acquired => got.json # {} /\ Version \in Legal
    /\ Acquired /\ pc # "sjson" => got.sjson # {}
    /\ pc = "done" /\ Spec0.offline =>
          /\ \A d \in got.json : validateUpdateJSON(d)
          /\ \A d \in got.sjson : validateUpdateSJSON(d)

ReleaseInv == TypeOK /\ PlanIsResolved /\ DocumentsAreThere /\ OnlyLegalNames
=============================================================================
