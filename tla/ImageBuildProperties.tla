------------------------ MODULE ImageBuildProperties ------------------------
(***************************************************************************)
(* What one build promises about the image stream it writes.               *)
(***************************************************************************)
EXTENDS ImageBuild

\* Every variable stays in its set.
TypeOK ==
    /\ stage \in Stages
    /\ err \in Errors
    /\ cancelled \in BOOLEAN /\ offline \in BOOLEAN
    /\ image \in Nat /\ start \in Nat /\ length \in Nat
    /\ tar \in Nat /\ reported \in Nat
    /\ src \in Nat
    /\ out \in Seq(Byte)
    /\ streams \in 0..1

\* The image with the tar laid over the first bytes of the partition.
Spliced(i) ==
    IF start < i /\ i <= start + tar THEN TarByte(i - start) ELSE ImageByte(i)

\* At no time is a byte of the stream wrong, however the reads and writes are
\* cut into pieces: the discard keeps the suffix aligned.
NoWrongByte == \A i \in 1..Len(out) : out[i] = Spliced(i)

\* A build that succeeds has written the whole image, neither shorter nor
\* longer, and only if the image did not end before the tar does.
WholeImage == At("done") => Len(out) = image /\ start + tar <= image

\* Outside the seed-data partition, which starts where the layout has it, every
\* byte of the stream is that byte of the image.
OnlySeedDataChanges ==
    \A i \in 1..Len(out) : out[i] # ImageByte(i) =>
        /\ start = ExpectedStart
        /\ start < i /\ i <= start + length

\* Why the suffix stays aligned: how far source and stream are in each step,
\* what has been compared by then, and that no asset stream outlives splice.
Alignment ==
    /\ stage \in {"resolve", "acquire", "probe", "render"} => src = 0 /\ out = <<>>
    /\ stage \in {"render"} \cup Copying \cup {"apps", "metadata", "media", "done"} =>
          start = ExpectedStart
    /\ stage \in Copying \cup {"apps", "metadata", "media", "done"} =>
          tar = reported /\ tar <= length
    /\ At("prefix") => Len(out) = src /\ src <= start
    /\ At("tar") => src = start /\ Len(out) \in start .. start + tar
    /\ At("skip") => Len(out) = start + tar /\ src \in start .. start + tar
    /\ stage \in {"rest", "apps", "metadata", "media", "done"} =>
          Len(out) = src /\ src >= start + tar /\ src <= image
    /\ stage \in {"apps", "metadata", "media", "done"} => src = image
    /\ out # <<>> => start = ExpectedStart /\ tar <= length
    /\ src <= image
    /\ streams = IF stage \in Copying THEN 1 ELSE 0

SpliceInv == NoWrongByte /\ Alignment
=============================================================================
