----------------------------- MODULE ProbedBuild -----------------------------
(***************************************************************************)
(* A build over the image it has acquired.  ImageBuild takes the seed-data *)
(* partition as an input; here the table parser of GptProbe finds it in    *)
(* the head of the same image, between two steps of the build.             *)
(***************************************************************************)
EXTENDS ImageBuildProperties

CONSTANTS Bits, Sectors, HeaderLen, MinEntry, MaxParts, Heads, Entries, SeedName
CONSTANT HeadLimit   \* gptHeadLimit

VARIABLES pc, head, secsz, off, seen, result, part   \* of the parser

VARIABLES
    table,   \* what the table says of the partition, or Unread
    met      \* the inputs that the build meets after parsing are chosen

G == INSTANCE GptProbeProperties

ASSUME ProbedBuildAssumption == G!GptAssumption /\ HeadLimit \in Nat

parser == <<pc, head, secsz, off, seen, result, part>>
allVars == <<vars, parser, table, met>>

\* The bytes of the image from first up to, and without, end.
Unread == [first |-> 0, end |-> 0]

\* What the build has not met yet is 0.
InitBoth ==
    /\ image = 0 /\ start = 0 /\ length = 0 /\ tar = 0 /\ reported = 0 /\ offline = FALSE
    /\ Init /\ G!Init /\ table = Unread /\ met = FALSE

\* probe opens the handle and parses.  Cancelled before it does or after, it ends
\* in the same way, see Probe.
Parsing ==
    /\ At("probe") /\ table = Unread /\ ~cancelled
    /\ G!ReadFails \/ G!findGPTHeader \/ G!parseHeader \/ G!parseEntry \/ G!NoSeed
    /\ UNCHANGED <<vars, table, met>>

\* The parser's variables end with its call.
Return ==
    /\ pc' = "find" /\ head' = CHOOSE h \in Heads : TRUE
    /\ secsz' = 0 /\ off' = 0 /\ seen' = <<>> /\ result' = "none"
    /\ part' = [start |-> 0, length |-> 0]

PartitionFound ==
    /\ At("probe") /\ G!Found
    /\ start' = part.start /\ length' = part.length /\ image' = head.len
    /\ table' = [first |-> G!Last.first * secsz, end |-> (G!Last.last + 1) * secsz]
    /\ Return
    /\ UNCHANGED <<stage, err, cancelled, offline, tar, reported, src, out, streams, met>>

\* The head is that of an image, however long the rest.
Meet ==
    /\ At("probe") /\ table # Unread /\ ~met
    /\ met' = TRUE
    /\ image' \in {n \in ImageSizes : Lesser(n, HeadLimit) = image}
    /\ offline' \in BOOLEAN
    /\ tar' \in TarSizes /\ reported' \in TarSizes
    /\ UNCHANGED <<stage, err, cancelled, start, length, src, out, streams, parser, table>>

\* probe returns.
Probed ==
    /\ met \/ cancelled \/ result \in G!Errors
    /\ Probe
    /\ ~met => stage' = "failed"
    /\ UNCHANGED <<parser, table, met>>

Building ==
    /\ \/ ResolveRelease \/ AcquireImage \/ Render \/ Splice
       \/ AcquireApps \/ ReleaseMetadata \/ WriteRescue \/ Returned
       \/ (At("probe") => met \/ (table = Unread /\ pc = "find")) /\ Cancel
    /\ UNCHANGED <<parser, table, met>>

NextBoth == Parsing \/ PartitionFound \/ Meet \/ Probed \/ Building

SpecBoth == InitBoth /\ [][NextBoth]_allVars

-----------------------------------------------------------------------------
(* The parser, see GptProbeProperties.                                      *)

\* The parser gives what the table means (parseGPT).
TableIsRead == G!TableIsRead

-----------------------------------------------------------------------------
(* What parser and build promise together.                                  *)

\* The stream differs from the image only where the image's own table, read with
\* numbers that do not wrap, has its seed-data partition: no arithmetic of the parser
\* and no cut of the copy loops moves the tar elsewhere (parseGPT, probe, splice).
SeedInItsPartition ==
    \A i \in 1..Len(out) :
        out[i] # ImageByte(i) => table.first < i /\ i <= table.end

-----------------------------------------------------------------------------
(* Behind the properties.                                                   *)

\* The build works with the partition that the table has.
PartitionIsOfTable == table.first = start /\ table.end = start + length

ProbedInv == TypeOK /\ SpliceInv /\ G!ParserInv /\ PartitionIsOfTable
=============================================================================
