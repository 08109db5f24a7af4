------------------------ MODULE GptProbeProperties ------------------------
(* The table as the image means it: with numbers that do not wrap.         *)
EXTENDS GptProbe

Partition == [start : 0..MaxInt, length : 0..MaxInt]

TypeOK ==
    /\ pc \in {"find", "header", "entry", "done"}
    /\ head \in ImageHead
    /\ secsz \in {0} \cup {Sectors[k] : k \in DOMAIN Sectors}
    /\ off \in 0..MaxInt
    /\ seen \in Seq(Entry)
    /\ result \in {"none", "found"} \cup Errors
    /\ part \in Partition

Found == result = "found"

\* The last entry read: the one that the result is about.
Last == seen[Len(seen)]

\* An entry that is read lies inside the head, at the place the header gives
\* (parseGPT): no slice of it is out of range.
EntriesInHead ==
    seen # <<>> =>
        /\ off = head.partLBA * secsz
        /\ off + Len(seen) * head.esize <= head.len
        /\ Len(seen) <= head.nparts

\* The partition found is the one the image means: no product, difference or sum
\* has wrapped around, and both numbers are positions of a stream
\* (partitionRange, gptBytes).
PartitionIsExact ==
    Found =>
        /\ Last.first <= Last.last
        /\ part.start = Last.first * secsz
        /\ part.start + part.length = (Last.last + 1) * secsz
        /\ part.length > 0

\* A table is refused for its numbers only if one of them cannot be represented
\* (gptBytes, gptEntriesLen, partitionRange).
OverflowIsReal ==
    result = "overflow" =>
        \/ head.partLBA * secsz > MaxInt
        \/ seen # <<>> /\ (Last.last + 1) * secsz > MaxInt

\* The first entry that is in use and has the name decides, and the table has
\* none when it is reported missing (parseGPT).
FirstSeedDecides ==
    /\ \A i \in DOMAIN seen :
          seen[i].used /\ gptName(seen[i].name) = SeedName
              => i = Len(seen) /\ result \in {"found", "order", "overflow"}
    /\ Found => Last.used /\ gptName(Last.name) = SeedName
    /\ result = "absent" => Len(seen) = head.nparts

\* The parser gives what a reader of the table would find who never runs out of bits
\* and never looks past the head, and refuses only what cannot be given (parseGPT).
TableIsRead ==
    TypeOK /\ EntriesInHead /\ PartitionIsExact /\ OverflowIsReal /\ FirstSeedDecides

-----------------------------------------------------------------------------
(* Behind the property: what each turn of the parser relies on.             *)

\* Nothing is read before the table is found and measured, and it is measured once.
TableIsMeasured ==
    /\ pc \in {"find", "header"} => seen = <<>>
    /\ pc \in {"header", "entry"} => secsz \in 1..MaxInt
    /\ pc = "entry" =>
          /\ off = head.partLBA * secsz
          /\ off + head.nparts * head.esize <= head.len
          /\ Len(seen) <= head.nparts

ParserInv ==
    /\ TableIsRead /\ TableIsMeasured
    /\ head \in Heads
    /\ result = "none" <=> pc # "done"
=============================================================================
