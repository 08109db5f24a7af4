----------------------------- MODULE ImageBuild -----------------------------
(***************************************************************************)
(* One build: runBuild, splice and writeRescue of internal/build/build.go, *)
(* with the ports it calls reduced to what they may return.                *)
(*                                                                         *)
(*   resolve, acquire, probe, render,                                      *)
(*   prefix, tar, skip, rest           (splice)                            *)
(*   apps, metadata, media             (writeRescue, offline only)         *)
(*                                                                         *)
(* A byte is known by where it comes from: byte i of the decompressed      *)
(* image or byte i of the seed tar.  Positions count from 1.               *)
(***************************************************************************)
EXTENDS Naturals, Sequences

CONSTANTS
    ImageSizes,   \* how long the decompressed image may be
    Starts,       \* where its seed-data partition may start
    Lengths,      \* how long that partition may be
    TarSizes,     \* how long the rendered seed tar may be
    ExpectedStart,\* productionSeedStart
    BufSize       \* copyBufSize

ASSUME ImageBuildAssumption ==
    /\ ImageSizes \subseteq Nat /\ Starts \subseteq Nat /\ Lengths \subseteq Nat
    /\ TarSizes \subseteq Nat
    /\ ExpectedStart \in Nat
    /\ BufSize \in Nat \ {0}

\* The sentinel that an error wraps; an internal error wraps none of them.
Errors == {"none", "fetch", "version", "config", "output", "internal"}

Copying == {"prefix", "tar", "skip", "rest"}

Stages == {"resolve", "acquire", "probe", "render"} \cup Copying
            \cup {"apps", "metadata", "media", "done", "failed"}

Byte == [from : {"image", "tar"}, at : Nat]

ImageByte(i) == [from |-> "image", at |-> i]
TarByte(i) == [from |-> "tar", at |-> i]

VARIABLES
    stage,      \* the step runBuild is at
    err,        \* the error it returns
    cancelled,  \* ctx is done
    offline,    \* Spec.Offline
    image,      \* length of the decompressed image
    start,      \* seedPartition.StartByte that the GPT states
    length,     \* seedPartition.Length that the GPT states
    tar,        \* len(tarBytes)
    reported,   \* the size the renderer reports, seedSize
    src,        \* bytes read from the decompressed stream of splice
    out,        \* bytes written to the image stream
    streams     \* asset streams that are open

input == <<offline, image, start, length, tar, reported>>
vars == <<stage, err, cancelled, input, src, out, streams>>

-----------------------------------------------------------------------------
At(s) == stage = s

Go(s) == stage' = s /\ UNCHANGED err

Fail(e) ==
    /\ stage' = "failed"
    /\ err' = e
    /\ streams' = 0     \* the deferred Close calls

Lesser(a, b) == IF a < b THEN a ELSE b

Init ==
    /\ stage = "resolve" /\ err = "none" /\ cancelled = FALSE
    /\ offline \in BOOLEAN
    /\ image \in ImageSizes
    /\ start \in Starts /\ length \in Lengths
    /\ tar \in TarSizes /\ reported \in TarSizes
    /\ src = 0 /\ out = <<>> /\ streams = 0

\* Index, then Resolve: a cancelled or failing fetch, or no such release.
ResolveRelease ==
    /\ At("resolve")
    /\ \/ ~cancelled /\ Go("acquire") /\ UNCHANGED streams
       \/ Fail("fetch")
       \/ Fail("version")
    /\ UNCHANGED <<cancelled, input, src, out>>

\* Asset for the image.  A cache hit does not look at the context.
AcquireImage ==
    /\ At("acquire")
    /\ \/ Go("probe") /\ UNCHANGED streams
       \/ Fail("fetch")
    /\ UNCHANGED <<cancelled, input, src, out>>

\* The partition starts where the layout has it.
NoDrift == start = ExpectedStart

\* Mutant: the handle that read the head stays open.
ProbeLeaks ==
    /\ At("probe")
    /\ \/ ~cancelled /\ NoDrift /\ Go("render") /\ streams' = streams + 1
       \/ Fail("fetch")
    /\ UNCHANGED <<cancelled, input, src, out>>

\* probe opens the handle, reads the head and closes it again.
Probe ==
    /\ At("probe")
    /\ \/ ~cancelled /\ NoDrift /\ Go("render") /\ UNCHANGED streams
       \/ Fail("fetch")
    /\ UNCHANGED <<cancelled, input, src, out>>

\* Mutant: a tar one byte longer than the partition is accepted.
FitsAlmost == reported <= length + 1

\* The tar fits into the partition.
Fits == reported <= length

\* The stated size is that of the tar.
SizeAgrees == reported = tar

\* render, checkRenderedSeedSize, the comparison with the partition, and then
\* the second Open of the handle.
Render ==
    /\ At("render")
    /\ \/ /\ SizeAgrees /\ Fits /\ ~cancelled
          /\ Go("prefix")
          /\ streams' = streams + 1
       \/ Fail("internal")
       \/ SizeAgrees /\ ~Fits /\ Fail("config")
       \/ SizeAgrees /\ Fits /\ Fail("fetch")
    /\ UNCHANGED <<cancelled, input, src, out>>

-----------------------------------------------------------------------------
(* splice.                                                                  *)

ImageBytes(n) == [i \in 1..n |-> ImageByte(src + i)]

\* One turn of a copy loop that wants no more than limit bytes: the source
\* gives some, and all of them or only some are written.
CopySome(limit) ==
    \E n \in 1..Lesser(BufSize, Lesser(limit, image - src)) :
       /\ src' = src + n
       /\ \/ /\ out' = out \o ImageBytes(n)
             /\ UNCHANGED <<stage, err, streams>>
          \/ \E w \in 0..n :
                /\ out' = out \o ImageBytes(w)
                /\ Fail("output")

\* copyN up to the partition.
CopyPrefix ==
    /\ At("prefix") /\ src < start
    /\ \/ ~cancelled /\ CopySome(start - src)
       \/ \* end of the stream, a stream that is damaged, or cancellation
          Fail("fetch") /\ UNCHANGED <<src, out>>
    /\ UNCHANGED <<cancelled, input>>

PrefixCopied ==
    /\ At("prefix") /\ src = start
    /\ Go("tar")
    /\ UNCHANGED <<cancelled, input, src, out, streams>>

TarBytes(sent, n) == [i \in 1..n |-> TarByte(sent + i)]

\* writeAll: the context is not looked at, the source is not read.
WriteTar ==
    LET sent == Len(out) - start IN
    /\ At("tar") /\ sent < tar
    /\ \E n \in 0 .. tar - sent :
          /\ out' = out \o TarBytes(sent, n)
          /\ \/ n > 0 /\ UNCHANGED <<stage, err, streams>>
             \/ Fail("output")
    /\ UNCHANGED <<cancelled, input, src>>

TarWritten ==
    /\ At("tar") /\ Len(out) = start + tar
    /\ Go("skip")
    /\ UNCHANGED <<cancelled, input, src, out, streams>>

\* Mutants: one byte less, or the whole partition, is skipped.
SkipOneLess == start + tar - (IF tar > 0 THEN 1 ELSE 0)
SkipPartition == start + length

\* Where the source is after as many bytes as the tar has were discarded.
SkipTo == start + tar

\* discardN.
Skip ==
    /\ At("skip") /\ src < SkipTo
    /\ \/ /\ ~cancelled
          /\ \E n \in 1..Lesser(BufSize, Lesser(SkipTo - src, image - src)) :
                src' = src + n
          /\ UNCHANGED <<stage, err, streams>>
       \/ Fail("fetch") /\ UNCHANGED src
    /\ UNCHANGED <<cancelled, input, out>>

Skipped ==
    /\ At("skip") /\ src = SkipTo
    /\ Go("rest")
    /\ UNCHANGED <<cancelled, input, src, out, streams>>

Finish ==
    /\ Go(IF offline THEN "apps" ELSE "done")
    /\ streams' = streams - 1

\* copyAll: the end of the stream is success, whether it comes with the last
\* bytes or after them.
CopyRest ==
    /\ At("rest")
    /\ \/ ~cancelled /\ CopySome(image - src)
       \/ /\ ~cancelled /\ image - src \in 1..BufSize
          /\ src' = image
          /\ out' = out \o ImageBytes(image - src)
          /\ Finish
       \/ Fail("fetch") /\ UNCHANGED <<src, out>>
    /\ UNCHANGED <<cancelled, input>>

RestCopied ==
    /\ At("rest") /\ src = image /\ ~cancelled
    /\ Finish
    /\ UNCHANGED <<cancelled, input, src, out>>

-----------------------------------------------------------------------------
(* writeRescue.                                                             *)

\* Asset for every application of the plan.
AcquireApps ==
    /\ At("apps")
    /\ \/ Go("metadata") /\ UNCHANGED streams
       \/ Fail("fetch")
    /\ UNCHANGED <<cancelled, input, src, out>>

\* ReleaseMetadata; a local mirror does not look at the context.
ReleaseMetadata ==
    /\ At("metadata")
    /\ \/ Go("media") /\ UNCHANGED streams
       \/ Fail("fetch")
    /\ UNCHANGED <<cancelled, input, src, out>>

\* WriteRescue: every failure, cancellation included, wraps ErrOutput.
WriteRescue ==
    /\ At("media")
    /\ \/ ~cancelled /\ Go("done") /\ UNCHANGED streams
       \/ Fail("output")
    /\ UNCHANGED <<cancelled, input, src, out>>

-----------------------------------------------------------------------------
Splice ==
    \/ CopyPrefix \/ PrefixCopied \/ WriteTar \/ TarWritten
    \/ Skip \/ Skipped \/ CopyRest \/ RestCopied

RunBuild ==
    \/ ResolveRelease \/ AcquireImage \/ Probe \/ Render
    \/ Splice
    \/ AcquireApps \/ ReleaseMetadata \/ WriteRescue

Cancel ==
    /\ ~cancelled
    /\ stage \notin {"done", "failed"}
    /\ cancelled' = TRUE
    /\ UNCHANGED <<stage, err, input, src, out, streams>>

Returned == stage \in {"done", "failed"} /\ UNCHANGED vars

Next == RunBuild \/ Cancel \/ Returned

Spec == Init /\ [][Next]_vars
=============================================================================
