----------------------- MODULE RescueTreeProperties -----------------------
(* What the publisher and recovery rely on.                                *)
EXTENDS RescueTree

TypeOK ==
    /\ typ \in {"iso", "raw"} /\ input \in Input
    /\ temp \in {"placeholder", "none", "foreign", "media"}
    /\ DOMAIN written = DOMAIN files /\ DOMAIN opens = DOMAIN files
    /\ cur \in 1..Len(files) + 1
    /\ dirs \subseteq AllDirs
    /\ held \subseteq {"disk", "workspace", "asset", "file"}
    /\ ctxDone \in BOOLEAN /\ result \in {"none", "ok", "output"}

\* Media that is reported written holds every asset and both documents, each
\* with all of its bytes under a name of its own (prepareTree, writeFile).
MediaIsComplete ==
    result = "ok" =>
        /\ temp = "media" /\ files = Tree(input)
        /\ \A i \in DOMAIN files : written[i] = files[i].size
        /\ Cardinality({files[i].rel : i \in DOMAIN files}) = Len(input.assets) + 2
        /\ files[2].size > 0

\* A directory and a file are made after the directory they are in: the FAT
\* writer makes one level at a time (mkdirParents, stage).
ParentsFirst ==
    /\ \A d \in dirs : Ancestors(d) \subseteq dirs
    /\ \A i \in DOMAIN written : written[i] >= 0 => Ancestors(files[i].rel) \subseteq dirs

\* Input that is refused costs nothing: the placeholder that the session made is
\* still there, whoever else is waiting for its name (WriteRescue).
RefusalKeepsPlaceholder == files = <<>> => temp = "placeholder"

\* At the end nothing is open and no workspace is left, whichever step failed;
\* an asset is opened once (writeISO, stageFile).
NothingHeld ==
    /\ pc = "end" => held = {}
    /\ \A i \in DOMAIN opens : opens[i] <= 1

\* Whichever step fails: the media is whole when it is reported, was made in an order
\* that FAT accepts, cost nothing if it was refused, and nothing is held at the end.
MediaIsSound ==
    TypeOK /\ MediaIsComplete /\ ParentsFirst /\ RefusalKeepsPlaceholder /\ NothingHeld

-----------------------------------------------------------------------------
\* A FAT32 file system of the library with clusters of eight sectors, as it has
\* from 260 MiB to 8 GiB: 32 reserved sectors and two tables of 128 entries per sector.
Tables(part) == 32 + 2 * ((part \div 8 + 128) \div 128)

\* Content, with a cluster lost for each of a hundred files and directories, fits
\* beside the tables of the partition, and the partition into the image; an ISO
\* is whole blocks and holds its content (rawSizesFor, isoBackingSize).
RoomForContent ==
    \A l \in layout :
        /\ l.content + 100 * 8 + Tables(l.raw.part) <= l.raw.part
        /\ l.raw.part >= FatFloor /\ l.raw.part + 2 * Margin <= l.raw.disk
        /\ l.iso % IsoBlock = 0 /\ l.iso >= l.content + IsoSlack

-----------------------------------------------------------------------------
(* Behind the properties: what each step relies on.                         *)

Building == pc \in {"filesystem", "mkdir", "file", "copy", "finalize", "truncate"}

Staging == pc \in {"file", "copy", "finalize", "truncate"}

\* What is staged is the tree of input that was looked at; nothing else is done to
\* the name before, and the image is under it from Create on.
TreeIsPrepared ==
    /\ files = <<>> => written = <<>> /\ opens = <<>> /\ temp = "placeholder"
    /\ files # <<>> => files = Tree(input) /\ prepareTree(input)
    /\ pc = "check" => files = <<>>
    /\ pc \in {"replace", "create"} \/ Building \/ result = "ok" => files # <<>>
    /\ Building \/ result = "ok" => temp = "media"

\* The files before cur are whole, and those after it are not begun.
OneAtATime ==
    /\ written \in [DOMAIN files -> Int] /\ opens \in [DOMAIN files -> {0, 1}]
    /\ \A i \in DOMAIN files :
          /\ i < cur => written[i] = files[i].size
          /\ i > cur => written[i] = -1 /\ opens[i] = 0
          /\ i = cur /\ pc = "file" => written[i] = -1 /\ opens[i] = 0
          /\ i = cur /\ pc = "copy" => written[i] >= 0
          /\ ~Staging /\ pc \notin {"unwind", "end"} => written[i] = -1 /\ opens[i] = 0
    /\ ~Staging /\ pc \notin {"unwind", "end"} => cur = 1
    /\ pc = "copy" => cur <= Len(files)
    /\ pc \in {"finalize", "truncate"} \/ result = "ok" => cur = Len(files) + 1
    /\ result = "ok" => pc \in {"unwind", "end"}

\* Directories are made before files, each after its parent.
DirsBeforeFiles ==
    /\ \A d \in dirs : Ancestors(d) \subseteq dirs
    /\ Staging => dirs = AllDirs
    /\ \A i \in DOMAIN files : written[i] >= 0 => dirs = AllDirs

LayoutIsComputed ==
    \A l \in layout :
        \E content \in Sizes : l = [content |-> content, raw |-> rawSizesFor(content),
                                  iso |-> isoBackingSize(content)]

RescueInv ==
    /\ TypeOK /\ TreeIsPrepared /\ OneAtATime /\ DirsBeforeFiles /\ LayoutIsComputed
    /\ pc = "end" => held = {}
=============================================================================
