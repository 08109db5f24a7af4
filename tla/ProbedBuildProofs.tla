------------------------- MODULE ProbedBuildProofs -------------------------
(***************************************************************************)
(* Proofs about ImageBuild, for every size of the image, the partition,    *)
(* the tar and the copy buffer, and about ProbedBuild: a build writes its  *)
(* tar into the partition that the image's own table has, whatever numbers *)
(* the table holds.                                                        *)
(***************************************************************************)
EXTENDS ProbedBuild, LoopProofs

IndInv == TypeOK /\ SpliceInv

-----------------------------------------------------------------------------
(* What the copy loops append.                                              *)

(* A run of image bytes, read where the source stands. *)
LEMMA ImageBytesAre ==
    ASSUME src \in Nat, NEW n \in Nat
    PROVE  /\ ImageBytes(n) \in Seq(Byte)
           /\ Len(ImageBytes(n)) = n
           /\ \A i \in 1..n : ImageBytes(n)[i] = ImageByte(src + i)
BY DEF ImageBytes, ImageByte, Byte

(* A run of tar bytes. *)
LEMMA TarBytesAre ==
    ASSUME NEW k \in Nat, NEW n \in Nat
    PROVE  /\ TarBytes(k, n) \in Seq(Byte)
           /\ Len(TarBytes(k, n)) = n
           /\ \A i \in 1..n : TarBytes(k, n)[i] = TarByte(k + i)
BY DEF TarBytes, TarByte, Byte

(* Appending the right bytes leaves no wrong byte. *)
LEMMA Appending ==
    ASSUME out \in Seq(Byte), NoWrongByte, NEW piece \in Seq(Byte),
           \A i \in 1..Len(piece) : piece[i] = Spliced(Len(out) + i),
           out' = out \o piece, UNCHANGED input
    PROVE  /\ out' \in Seq(Byte)
           /\ Len(out') = Len(out) + Len(piece)
           /\ NoWrongByte'
<1>1. out' \in Seq(Byte) /\ Len(out') = Len(out) + Len(piece)
    OBVIOUS
<1>2. ASSUME NEW i \in 1..Len(out') PROVE out'[i] = Spliced(i)'
    <2>1. Spliced(i)' = Spliced(i)
        BY DEF Spliced, input, TarByte, ImageByte
    <2>2. CASE i <= Len(out)
        BY <1>1, <2>1, <2>2 DEF NoWrongByte
    <2>3. CASE i > Len(out)
        <3>1. i - Len(out) \in 1..Len(piece)
            BY <1>1, <2>3
        <3>2. out'[i] = piece[i - Len(out)]
            BY <1>1, <2>3, <3>1
        <3>3. QED BY <2>1, <3>1, <3>2
    <2>4. QED BY <1>1, <2>2, <2>3
<1>3. QED BY <1>1, <1>2 DEF NoWrongByte

(* Nothing appended. *)
LEMMA NothingWritten ==
    ASSUME NoWrongByte, UNCHANGED <<out, input>>
    PROVE  NoWrongByte'
BY DEF NoWrongByte, Spliced, input, TarByte, ImageByte

(* Image bytes are right where source and stream are level, outside the tar. *)
LEMMA AppendImage ==
    ASSUME TypeOK, NoWrongByte, UNCHANGED input,
           NEW w \in Nat, out' = out \o ImageBytes(w),
           Len(out) = src, src + w <= start \/ src >= start + tar
    PROVE  out' \in Seq(Byte) /\ Len(out') = src + w /\ NoWrongByte'
<1>1. PICK piece \in Seq(Byte) :
          /\ piece = ImageBytes(w)
          /\ Len(piece) = w
          /\ \A i \in 1..w : piece[i] = ImageByte(src + i)
    BY ImageBytesAre DEF TypeOK
<1>2. ASSUME NEW i \in 1..w PROVE piece[i] = Spliced(Len(out) + i)
    BY <1>1, <1>2 DEF TypeOK, Spliced
<1>3. QED BY <1>1, <1>2, Appending DEF TypeOK

(* The tar continues where the stream is inside it. *)
LEMMA AppendTar ==
    ASSUME TypeOK, NoWrongByte, UNCHANGED input,
           NEW k \in Nat, NEW n \in Nat, Len(out) = start + k, k + n <= tar,
           out' = out \o TarBytes(k, n)
    PROVE  out' \in Seq(Byte) /\ Len(out') = start + k + n /\ NoWrongByte'
<1>1. PICK piece \in Seq(Byte) :
          /\ piece = TarBytes(k, n)
          /\ Len(piece) = n
          /\ \A i \in 1..n : piece[i] = TarByte(k + i)
    BY TarBytesAre
<1>2. ASSUME NEW i \in 1..n PROVE piece[i] = Spliced(Len(out) + i)
    <2>1. Len(out) + i - start = k + i
        BY DEF TypeOK
    <2>2. start < Len(out) + i /\ Len(out) + i <= start + tar
        BY DEF TypeOK
    <2>3. Spliced(Len(out) + i) = TarByte(k + i)
        <3>1. ASSUME NEW j \in Nat, j = Len(out) + i
              PROVE  Spliced(j) = TarByte(k + i)
            <4>1. j - start = k + i /\ start < j /\ j <= start + tar
                BY <2>1, <2>2, <3>1 DEF TypeOK
            <4>2. QED BY <4>1 DEF Spliced
        <3>2. QED BY <3>1 DEF TypeOK
    <2>4. QED BY <1>1, <2>3
<1>3. QED BY <1>1, <1>2, Appending DEF TypeOK

(* One turn of a copy loop keeps source and stream level, or fails. *)
LEMMA CopySomeAppends ==
    ASSUME TypeOK, NoWrongByte, UNCHANGED input, src <= image,
           NEW limit \in Nat, CopySome(limit), Len(out) = src,
           src + limit <= start \/ src >= start + tar
    PROVE  /\ src' \in src .. src + limit /\ src' <= image
           /\ out' \in Seq(Byte) /\ NoWrongByte'
           /\ \/ Len(out') = src' /\ UNCHANGED <<stage, err, streams>>
              \/ Fail("output")
<1>1. PICK n \in 1..Lesser(BufSize, Lesser(limit, image - src)) :
           /\ src' = src + n
           /\ \/ out' = out \o ImageBytes(n) /\ UNCHANGED <<stage, err, streams>>
              \/ \E w \in 0..n : out' = out \o ImageBytes(w) /\ Fail("output")
    BY DEF CopySome
<1>2. n \in Nat /\ n <= limit /\ n <= image - src
    BY ImageBuildAssumption DEF TypeOK, Lesser
<1>3. CASE out' = out \o ImageBytes(n) /\ UNCHANGED <<stage, err, streams>>
    BY <1>1, <1>2, <1>3, AppendImage DEF TypeOK
<1>4. ASSUME NEW w \in 0..n, out' = out \o ImageBytes(w), Fail("output")
      PROVE  out' \in Seq(Byte) /\ NoWrongByte'
    <2>1. w \in Nat /\ (src + w <= start \/ src >= start + tar)
        BY <1>2 DEF TypeOK
    <2>2. QED BY <1>4, <2>1, AppendImage
<1>5. src' \in src .. src + limit /\ src' <= image
    BY <1>1, <1>2 DEF TypeOK
<1>6. CASE \E w \in 0..n : out' = out \o ImageBytes(w) /\ Fail("output")
    BY <1>4, <1>5, <1>6
<1>7. QED BY <1>1, <1>3, <1>5, <1>6

-----------------------------------------------------------------------------
(* The inductive invariant.                                                 *)

(* It holds initially. *)
LEMMA InitInv == Init => IndInv
<1> SUFFICES ASSUME Init PROVE IndInv
    OBVIOUS
<1>1. TypeOK
    <2>1. out \in Seq(Byte)
        BY DEF Init
    <2>2. stage \in Stages /\ err \in Errors
        BY DEF Init, Stages, Errors
    <2>3. /\ image \in Nat /\ start \in Nat /\ length \in Nat
          /\ tar \in Nat /\ reported \in Nat
        BY ImageBuildAssumption DEF Init
    <2>4. cancelled \in BOOLEAN /\ offline \in BOOLEAN
        BY DEF Init
    <2>5. src \in Nat /\ streams \in 0..1
        BY DEF Init
    <2>6. QED BY <2>1, <2>2, <2>3, <2>4, <2>5 DEF TypeOK
<1>2. NoWrongByte
    BY DEF Init, NoWrongByte
<1>3. Alignment
    BY <1>1 DEF Init, TypeOK, Alignment, At, Copying
<1>4. QED BY <1>1, <1>2, <1>3 DEF IndInv, SpliceInv

(* The steps of runBuild that write nothing. *)
LEMMA QuietSteps ==
    ASSUME IndInv,
           \/ ResolveRelease \/ AcquireImage \/ Probe \/ Render
           \/ PrefixCopied \/ TarWritten \/ Skip \/ Skipped \/ RestCopied
           \/ AcquireApps \/ ReleaseMetadata \/ WriteRescue
           \/ Cancel \/ UNCHANGED vars
    PROVE  IndInv'
<1>1. UNCHANGED <<out, input>>
    BY DEF ResolveRelease, AcquireImage, Probe, Render, PrefixCopied, TarWritten, Skip,
           Skipped, RestCopied, AcquireApps, ReleaseMetadata, WriteRescue, Cancel, vars
<1>2. NoWrongByte'
    BY <1>1, NothingWritten DEF IndInv, SpliceInv
<1> USE DEF IndInv, SpliceInv, TypeOK, Alignment, At, Go, Fail, Stages, Errors, Copying,
            input
<1>3. CASE ResolveRelease
    BY <1>2, <1>3 DEF ResolveRelease
<1>4. CASE AcquireImage
    BY <1>2, <1>4 DEF AcquireImage
<1>5. CASE Probe
    BY <1>2, <1>5 DEF Probe, NoDrift
<1>6. CASE Render
    <2>1. CASE Go("prefix") /\ streams' = streams + 1 /\ SizeAgrees /\ Fits
        BY <1>2, <1>6, <2>1 DEF Render, SizeAgrees, Fits
    <2>2. CASE \E e \in Errors : Fail(e)
        BY <1>2, <1>6, <2>2 DEF Render
    <2>3. QED BY <1>6, <2>1, <2>2 DEF Render
<1>7. CASE PrefixCopied
    BY <1>2, <1>7 DEF PrefixCopied
<1>8. CASE TarWritten
    BY <1>2, <1>8 DEF TarWritten
<1>9. CASE Skip
    BY <1>2, <1>9, ImageBuildAssumption DEF Skip, SkipTo, Lesser
<1>10. CASE Skipped
    BY <1>2, <1>10 DEF Skipped, SkipTo
<1>11. CASE RestCopied
    BY <1>2, <1>11 DEF RestCopied, Finish
<1>12. CASE AcquireApps
    BY <1>2, <1>12 DEF AcquireApps
<1>13. CASE ReleaseMetadata
    BY <1>2, <1>13 DEF ReleaseMetadata
<1>14. CASE WriteRescue
    BY <1>2, <1>14 DEF WriteRescue
<1>15. CASE Cancel
    BY <1>2, <1>15 DEF Cancel
<1>16. CASE UNCHANGED vars
    BY <1>2, <1>16 DEF vars
<1>17. QED
    BY <1>3, <1>4, <1>5, <1>6, <1>7, <1>8, <1>9, <1>10, <1>11, <1>12, <1>13, <1>14,
       <1>15, <1>16

(* copyN up to the partition. *)
LEMMA CopyPrefixStep ==
    ASSUME IndInv, CopyPrefix
    PROVE  IndInv'
<1> USE DEF IndInv, SpliceInv, Alignment, At
<1>1. CASE CopySome(start - src)
    <2>1. /\ src' \in src .. start /\ src' <= image
          /\ out' \in Seq(Byte) /\ NoWrongByte'
          /\ \/ Len(out') = src' /\ UNCHANGED <<stage, err, streams>>
             \/ Fail("output")
        BY <1>1, CopySomeAppends DEF CopyPrefix, TypeOK
    <2>2. QED
        BY <2>1 DEF CopyPrefix, TypeOK, Fail, Stages, Errors, Copying, input
<1>2. CASE Fail("fetch") /\ UNCHANGED <<src, out>>
    BY <1>2, NothingWritten DEF CopyPrefix, TypeOK, Fail, Stages, Errors, Copying, input
<1>3. QED BY <1>1, <1>2 DEF CopyPrefix

(* writeAll. *)
LEMMA WriteTarStep ==
    ASSUME IndInv, WriteTar
    PROVE  IndInv'
<1> USE DEF IndInv, SpliceInv, Alignment, At
<1>1. PICK k \in Nat : k = Len(out) - start /\ k <= tar
    <2>1. Len(out) \in start .. start + tar
        BY DEF WriteTar
    <2>2. Len(out) - start \in Nat /\ Len(out) - start <= tar
        BY <2>1 DEF TypeOK
    <2>3. QED BY <2>2
<1>2. PICK n \in 0 .. tar - k :
          /\ out' = out \o TarBytes(k, n)
          /\ \/ n > 0 /\ UNCHANGED <<stage, err, streams>>
             \/ Fail("output")
    BY <1>1 DEF WriteTar
<1>3. n \in Nat /\ k + n <= tar /\ Len(out) = start + k
    BY <1>1 DEF WriteTar, TypeOK
<1>4. out' \in Seq(Byte) /\ Len(out') = start + k + n /\ NoWrongByte'
    BY <1>2, <1>3, AppendTar DEF WriteTar
<1>5. Len(out') \in start .. start + tar
    BY <1>3, <1>4 DEF TypeOK
<1>6. start = ExpectedStart /\ tar <= length
    BY DEF WriteTar, Copying
<1>7. QED
    BY <1>2, <1>4, <1>5, <1>6
    DEF WriteTar, TypeOK, Fail, Stages, Errors, Copying, input

(* copyAll. *)
LEMMA CopyRestStep ==
    ASSUME IndInv, CopyRest
    PROVE  IndInv'
<1> USE DEF IndInv, SpliceInv, Alignment, At
<1>1. CASE CopySome(image - src)
    <2>1. /\ src' \in src .. image
          /\ out' \in Seq(Byte) /\ NoWrongByte'
          /\ \/ Len(out') = src' /\ UNCHANGED <<stage, err, streams>>
             \/ Fail("output")
        BY <1>1, CopySomeAppends DEF CopyRest, TypeOK
    <2>2. QED
        BY <2>1 DEF CopyRest, TypeOK, Fail, Stages, Errors, Copying, input
<1>2. CASE /\ image - src \in 1..BufSize /\ src' = image
           /\ out' = out \o ImageBytes(image - src) /\ Finish
    <2>1. /\ TypeOK /\ NoWrongByte /\ UNCHANGED input
          /\ Len(out) = src /\ src >= start + tar
        BY DEF CopyRest, TypeOK
    <2>2. PICK w \in Nat : w = image - src /\ out' = out \o ImageBytes(w)
      <3>1. image - src \in Nat
          BY <1>2
      <3>2. out' = out \o ImageBytes(image - src)
          BY <1>2
      <3>3. QED BY <3>1, <3>2
    <2>3. out' \in Seq(Byte) /\ Len(out') = src + (image - src) /\ NoWrongByte'
        BY <2>1, <2>2, AppendImage
    <2>4. QED
        BY <1>2, <2>3 DEF CopyRest, TypeOK, Finish, Go, Stages, Errors, Copying, input
<1>3. CASE Fail("fetch") /\ UNCHANGED <<src, out>>
    BY <1>3, NothingWritten DEF CopyRest, TypeOK, Fail, Stages, Errors, Copying, input
<1>4. QED BY <1>1, <1>2, <1>3 DEF CopyRest

(* Every step keeps it. *)
LEMMA Inductive == IndInv /\ [Next]_vars => IndInv'
<1> SUFFICES ASSUME IndInv, [Next]_vars PROVE IndInv'
    OBVIOUS
<1>1. CASE Splice
    BY <1>1, QuietSteps, CopyPrefixStep, WriteTarStep, CopyRestStep DEF Splice
<1>2. CASE RunBuild /\ ~Splice
    BY <1>2, QuietSteps DEF RunBuild
<1>3. CASE Cancel \/ Returned \/ UNCHANGED vars
    BY <1>3, QuietSteps DEF Returned
<1>4. QED BY <1>1, <1>2, <1>3 DEF Next

(* The invariant behind every theorem of this module. *)
THEOREM Invariant == Spec => []IndInv
BY InitInv, Inductive, PTL DEF Spec

-----------------------------------------------------------------------------
(* What follows.                                                            *)

(* Types. *)
THEOREM TypeCorrect == Spec => []TypeOK
BY Invariant, PTL DEF IndInv

(* However the reads and writes of splice are cut, the stream is a prefix of  *)
(* the image with the tar laid over the partition.                           *)
THEOREM StreamIsSpliced == Spec => []NoWrongByte
BY Invariant, PTL DEF IndInv, SpliceInv

(* Where source and stream are in every step of splice, and what runBuild has *)
(* compared by then.                                                         *)
THEOREM StreamIsAligned == Spec => []Alignment
BY Invariant, PTL DEF IndInv, SpliceInv

(* runBuild returns without an error only when the image is whole. *)
THEOREM SuccessIsWhole == Spec => []WholeImage
<1>1. IndInv => WholeImage
    BY DEF IndInv, TypeOK, SpliceInv, Alignment, WholeImage, At
<1>2. QED BY <1>1, Invariant, PTL

(* The drift check of probe and the size check of runBuild keep splice inside *)
(* the seed-data partition.                                                  *)
THEOREM OutsideIsUntouched == Spec => []OnlySeedDataChanges
<1>1. ASSUME IndInv PROVE OnlySeedDataChanges
    <2> SUFFICES ASSUME NEW i \in 1..Len(out), out[i] # ImageByte(i)
                 PROVE  start = ExpectedStart /\ start < i /\ i <= start + length
        BY DEF OnlySeedDataChanges
    <2>1. start < i /\ i <= start + tar
        BY <1>1 DEF IndInv, SpliceInv, NoWrongByte, Spliced
    <2>2. out # <<>>
        OBVIOUS
    <2>3. start = ExpectedStart /\ tar <= length
        BY <1>1, <2>2 DEF IndInv, SpliceInv, Alignment
    <2>4. QED BY <1>1, <2>1, <2>3 DEF IndInv, TypeOK
<1>2. QED BY <1>1, Invariant, PTL

-----------------------------------------------------------------------------
(* Arithmetic.                                                              *)

(* More of the same size are not less. *)
LEMMA TimesMonotonic ==
    ASSUME NEW a \in Nat, NEW b \in Nat, NEW c \in Nat, a <= b
    PROVE  a * c <= b * c
<1>1. PICK d \in Nat : b = a + d
    <2>1. b - a \in Nat /\ b = a + (b - a)
        OBVIOUS
    <2>2. QED BY <2>1
<1>2. b * c = a * c + d * c
    BY <1>1
<1>3. a * c \in Nat /\ d * c \in Nat
    OBVIOUS
<1>4. QED BY <1>2, <1>3

(* Products are positions. *)
LEMMA ProductsAre ==
    ASSUME NEW a \in Nat, NEW b \in Nat
    PROVE  a * b \in Nat
OBVIOUS

(* One word, and nothing in the word above. *)
LEMMA LowWord ==
    ASSUME NEW p \in Nat, NEW w \in Nat \ {0}
    PROVE  /\ p \div w = 0 <=> p < w
           /\ p < w => p % w = p
OBVIOUS

(* What the parser assumes of its constants. *)
LEMMA WordsAre ==
    /\ G!Word \in Nat \ {0} /\ G!MaxInt \in Nat /\ G!MaxInt < G!Word
    /\ G!MaxUint = G!Word - 1
<1>1. G!Word \in Nat /\ G!MaxInt \in Nat /\ G!MaxInt < G!Word
    BY ProbedBuildAssumption DEF G!GptAssumption
<1>2. QED BY <1>1 DEF G!MaxUint

(* A product is given exactly or refused (gptBytes). *)
LEMMA BytesAre ==
    ASSUME NEW lba \in Nat, NEW size \in Nat
    PROVE  /\ G!gptBytes(lba, size) = -1 <=> lba * size > G!MaxInt
           /\ G!gptBytes(lba, size) # -1 => G!gptBytes(lba, size) = lba * size
<1>1. PICK p \in Nat : p = lba * size
    BY ProductsAre
<1>2. PICK w, m : w = G!Word /\ m = G!MaxInt /\ w \in Nat \ {0} /\ m \in Nat /\ m < w
    BY WordsAre
<1>3. G!gptBytes(lba, size) = IF p \div w # 0 \/ p % w > m THEN -1 ELSE p % w
    BY <1>1, <1>2 DEF G!gptBytes
<1>4. (p \div w = 0 <=> p < w) /\ (p < w => p % w = p)
    BY <1>2, LowWord
<1>5. CASE p < w
  <2>1. G!gptBytes(lba, size) = IF p > m THEN -1 ELSE p
      BY <1>3, <1>4, <1>5
  <2>2. QED BY <1>1, <1>2, <2>1
<1>6. CASE ~ (p < w)
  <2>1. G!gptBytes(lba, size) = -1 /\ p > m
      BY <1>2, <1>3, <1>4, <1>6
  <2>2. QED BY <1>1, <1>2, <2>1
<1>7. QED BY <1>5, <1>6

(* A range of whole sectors. *)
LEMMA RangeOfSectors ==
    ASSUME NEW first \in Nat, NEW last \in Nat, NEW size \in Nat \ {0}, first <= last
    PROVE  /\ first * size + (last - first + 1) * size = (last + 1) * size
           /\ (last - first + 1) * size > 0
           /\ first * size <= (last + 1) * size
           /\ (last - first + 1) * size <= (last + 1) * size
<1>1. PICK n : n = last - first + 1 /\ n \in Nat \ {0} /\ first + n = last + 1
    OBVIOUS
<1>2. first * size \in Nat /\ n * size \in Nat
    BY <1>1, ProductsAre
<1>3. first * size + n * size = (last + 1) * size
  <2>1. (first + n) * size = first * size + n * size
      BY <1>1
  <2>2. QED BY <1>1, <2>1
<1>4. n * size > 0
  <2>1. 1 * size <= n * size
      BY <1>1, TimesMonotonic
  <2>2. QED BY <1>2, <2>1
<1>5. QED BY <1>1, <1>2, <1>3, <1>4

-----------------------------------------------------------------------------
(* The parser.                                                              *)

(* The numbers of a head. *)
LEMMA HeadIs ==
    ASSUME NEW h \in Heads
    PROVE  /\ h \in G!ImageHead
           /\ h.len \in Nat /\ h.len <= G!MaxInt
           /\ h.partLBA \in Nat /\ h.nparts \in Nat /\ h.esize \in Nat
           /\ MaxParts \in Nat /\ MaxParts * h.esize <= G!MaxInt
<1>1. h \in G!ImageHead /\ MaxParts \in Nat /\ MaxParts * h.esize <= G!MaxInt
    BY ProbedBuildAssumption DEF G!GptAssumption
<1>2. /\ h.len \in 0..G!MaxInt /\ h.partLBA \in 0..G!MaxUint
      /\ h.nparts \in Nat /\ h.esize \in Nat
    BY <1>1 DEF G!ImageHead
<1>3. QED BY <1>1, <1>2, WordsAre

(* The numbers of an entry. *)
LEMMA EntryIs ==
    ASSUME NEW e \in Entries
    PROVE  /\ e \in G!Entry
           /\ e.first \in Nat /\ e.first <= G!MaxUint
           /\ e.last \in Nat /\ e.last <= G!MaxUint
<1>1. e \in G!Entry
    BY ProbedBuildAssumption DEF G!GptAssumption
<1>2. e.first \in 0..G!MaxUint /\ e.last \in 0..G!MaxUint
    BY <1>1 DEF G!Entry
<1>3. QED BY <1>1, <1>2, WordsAre

(* Sector sizes. *)
LEMMA SectorIs ==
    ASSUME NEW k \in DOMAIN Sectors
    PROVE  Sectors[k] \in 1..G!MaxInt /\ k \in Nat
<1>1. Sectors \in Seq(1..G!MaxInt)
    BY ProbedBuildAssumption DEF G!GptAssumption
<1>2. PICK n : n \in Nat /\ Sectors \in [1..n -> 1..G!MaxInt]
    BY <1>1, LenProperties
<1>3. k \in 1..n
    BY <1>2
<1>4. QED BY <1>2, <1>3

(* A parser that has not begun. *)
LEMMA FreshParser == G!Init => G!ParserInv
<1> SUFFICES ASSUME G!Init PROVE G!ParserInv
    OBVIOUS
<1> USE DEF G!Init
<1>1. G!TypeOK
  <2>1. head \in G!ImageHead
      BY HeadIs
  <2>2. 0 \in 0..G!MaxInt
      BY WordsAre
  <2>3. part \in G!Partition
      BY <2>2 DEF G!Partition
  <2>4. seen \in Seq(G!Entry)
      BY EmptySeq
  <2>5. QED BY <2>1, <2>2, <2>3, <2>4 DEF G!TypeOK
<1>2. G!EntriesInHead /\ G!PartitionIsExact /\ G!OverflowIsReal
    BY DEF G!EntriesInHead, G!PartitionIsExact, G!OverflowIsReal, G!Found
<1>3. DOMAIN seen = {}
    OBVIOUS
<1>4. G!FirstSeedDecides
    BY <1>3 DEF G!FirstSeedDecides, G!Found
<1>5. G!TableIsMeasured
    BY DEF G!TableIsMeasured
<1>6. QED BY <1>1, <1>2, <1>4, <1>5 DEF G!ParserInv, G!TableIsRead

(* The parser stops with an error before or after the table: what it has read stays. *)
LEMMA StopKeeps ==
    ASSUME G!ParserInv, NEW e \in G!Errors, pc # "done",
           pc' = "done", result' = e, part' = [start |-> 0, length |-> 0],
           UNCHANGED <<head, secsz, off, seen>>,
           e = "overflow" => head.partLBA * secsz > G!MaxInt,
           e = "absent" => Len(seen) = head.nparts
    PROVE  G!ParserInv'
<1>1. result = "none" /\ e # "found" /\ e # "none"
    BY DEF G!ParserInv, G!Errors
<1>2. G!TypeOK'
  <2>1. part' \in G!Partition
      BY WordsAre DEF G!Partition
  <2>2. QED BY <2>1 DEF G!ParserInv, G!TableIsRead, G!TypeOK
<1>3. G!EntriesInHead'
    BY DEF G!ParserInv, G!TableIsRead, G!EntriesInHead
<1>4. G!PartitionIsExact' /\ G!OverflowIsReal'
    BY <1>1 DEF G!PartitionIsExact, G!OverflowIsReal, G!Found
<1>5. G!FirstSeedDecides'
  <2>1. \A i \in DOMAIN seen : ~ (seen[i].used /\ G!gptName(seen[i].name) = SeedName)
      BY <1>1 DEF G!ParserInv, G!TableIsRead, G!FirstSeedDecides
  <2>2. QED BY <1>1, <2>1 DEF G!FirstSeedDecides, G!Found
<1>6. G!TableIsMeasured'
    BY DEF G!TableIsMeasured
<1>7. QED BY <1>1, <1>2, <1>3, <1>4, <1>5, <1>6 DEF G!ParserInv, G!TableIsRead

(* The head cannot be read. *)
LEMMA ReadFailsKeeps ==
    ASSUME G!ParserInv, G!ReadFails
    PROVE  G!ParserInv'
<1>1. /\ pc = "find" /\ pc' = "done" /\ result' = "read"
      /\ part' = [start |-> 0, length |-> 0] /\ UNCHANGED <<head, secsz, off, seen>>
    BY DEF G!ReadFails, G!Stop, G!Refuse
<1>2. "read" \in G!Errors
    BY DEF G!Errors
<1>3. QED BY <1>1, <1>2, StopKeeps

(* The table has no seed-data partition. *)
LEMMA NoSeedKeeps ==
    ASSUME G!ParserInv, G!NoSeed
    PROVE  G!ParserInv'
<1>1. /\ pc = "entry" /\ pc' = "done" /\ result' = "absent" /\ Len(seen) = head.nparts
      /\ part' = [start |-> 0, length |-> 0] /\ UNCHANGED <<head, secsz, off, seen>>
    BY DEF G!NoSeed, G!Stop, G!Refuse
<1>2. "absent" \in G!Errors
    BY DEF G!Errors
<1>3. QED BY <1>1, <1>2, StopKeeps

(* The sector size is that of the first header that is signed. *)
LEMMA FindKeeps ==
    ASSUME G!ParserInv, G!findGPTHeader
    PROVE  G!ParserInv'
<1>1. pc = "find" /\ UNCHANGED <<head, off, seen>>
    BY DEF G!findGPTHeader
<1>2. CASE G!Signed = {}
  <2>1. /\ pc' = "done" /\ result' = "signature" /\ part' = [start |-> 0, length |-> 0]
        /\ secsz' = secsz
      BY <1>2 DEF G!findGPTHeader, G!Stop, G!Refuse
  <2>2. "signature" \in G!Errors
      BY DEF G!Errors
  <2>3. QED BY <1>1, <2>1, <2>2, StopKeeps
<1>3. CASE G!Signed # {}
  <2>1. PICK k \in DOMAIN Sectors :
           /\ secsz' = Sectors[k] /\ pc' = "header" /\ result' = result /\ part' = part
    <3>1. G!Signed \subseteq DOMAIN Sectors /\ DOMAIN Sectors \subseteq Nat
        BY SectorIs DEF G!Signed
    <3>2. \E n \in G!Signed : \A j \in G!Signed : n <= j
        BY <1>3, <3>1, LeastNumber
    <3>3. (CHOOSE n \in G!Signed : \A j \in G!Signed : n <= j) \in G!Signed
        BY <3>2
    <3>4. QED BY <1>3, <3>1, <3>3 DEF G!findGPTHeader
  <2>2. secsz' \in 1..G!MaxInt
      BY <2>1, SectorIs
  <2>3. seen = <<>> /\ result = "none"
      BY <1>1 DEF G!ParserInv, G!TableIsMeasured
  <2>4. G!TypeOK'
      BY <1>1, <2>1 DEF G!ParserInv, G!TableIsRead, G!TypeOK
  <2>5. (G!EntriesInHead /\ G!PartitionIsExact /\ G!OverflowIsReal)'
      BY <1>1, <2>1, <2>3 DEF G!EntriesInHead, G!PartitionIsExact, G!OverflowIsReal, G!Found
  <2>6. G!FirstSeedDecides'
      BY <1>1, <2>1 DEF G!ParserInv, G!TableIsRead, G!FirstSeedDecides, G!Found
  <2>7. G!TableIsMeasured'
      BY <1>1, <2>1, <2>2, <2>3 DEF G!TableIsMeasured
  <2>8. QED BY <1>1, <2>1, <2>3, <2>4, <2>5, <2>6, <2>7 DEF G!ParserInv, G!TableIsRead
<1>4. QED BY <1>2, <1>3

(* The table is measured against what is left of the head. *)
LEMMA HeaderKeeps ==
    ASSUME G!ParserInv, G!parseHeader
    PROVE  G!ParserInv'
<1>1. pc = "header" /\ UNCHANGED <<head, secsz, seen>>
    BY DEF G!parseHeader
<1>2. /\ head \in Heads /\ seen = <<>> /\ result = "none" /\ secsz \in 1..G!MaxInt
    BY <1>1 DEF G!ParserInv, G!TableIsMeasured
<1>3. PICK start0, length0 : /\ start0 = G!gptBytes(head.partLBA, secsz)
                             /\ length0 = G!gptEntriesLen(head.nparts, head.esize)
    OBVIOUS
<1>4. PICK at, all : /\ at = head.partLBA * secsz /\ all = head.nparts * head.esize
                     /\ at \in Nat /\ all \in Nat
    BY <1>2, HeadIs, ProductsAre, WordsAre
<1>5. /\ start0 = -1 <=> at > G!MaxInt
      /\ start0 # -1 => start0 = at
      /\ length0 = -1 <=> all > G!MaxInt
      /\ length0 # -1 => length0 = all
  <2>1. /\ secsz \in Nat /\ head.partLBA \in Nat /\ head.nparts \in Nat /\ head.esize \in Nat
      BY <1>2, HeadIs, WordsAre
  <2>2. /\ G!gptBytes(head.partLBA, secsz) = -1 <=> head.partLBA * secsz > G!MaxInt
        /\ G!gptBytes(head.partLBA, secsz) # -1
              => G!gptBytes(head.partLBA, secsz) = head.partLBA * secsz
      BY <2>1, BytesAre
  <2>3. /\ G!gptBytes(head.nparts, head.esize) = -1 <=> head.nparts * head.esize > G!MaxInt
        /\ G!gptBytes(head.nparts, head.esize) # -1
              => G!gptBytes(head.nparts, head.esize) = head.nparts * head.esize
      BY <2>1, BytesAre
  <2>4. QED BY <1>3, <1>4, <2>2, <2>3 DEF G!gptEntriesLen
<1>6. CASE G!Implausible
  <2>1. /\ pc' = "done" /\ result' = "implausible" /\ off' = off
        /\ part' = [start |-> 0, length |-> 0]
      BY <1>6 DEF G!parseHeader, G!Stop, G!Refuse
  <2>2. "implausible" \in G!Errors
      BY DEF G!Errors
  <2>3. QED BY <1>1, <2>1, <2>2, StopKeeps
<1>7. CASE ~ G!Implausible /\ (start0 = -1 \/ length0 = -1)
  <2>1. /\ pc' = "done" /\ result' = "overflow" /\ off' = off
        /\ part' = [start |-> 0, length |-> 0]
      BY <1>3, <1>7 DEF G!parseHeader, G!Stop, G!Refuse
  <2>2. "overflow" \in G!Errors
      BY DEF G!Errors
  <2>3. ~ (all > G!MaxInt)
    <3>1. head.nparts \in Nat /\ MaxParts \in Nat /\ head.nparts <= MaxParts
      <4>1. head.nparts \in 1..MaxParts
          BY <1>7 DEF G!Implausible
      <4>2. QED BY <1>2, <4>1, HeadIs
    <3>2. head.nparts * head.esize <= MaxParts * head.esize
        BY <1>2, <3>1, HeadIs, TimesMonotonic
    <3>3. MaxParts * head.esize <= G!MaxInt /\ MaxParts * head.esize \in Nat
        BY <1>2, HeadIs, ProductsAre
    <3>4. QED BY <1>4, <3>2, <3>3, WordsAre
  <2>4. head.partLBA * secsz > G!MaxInt
      BY <1>4, <1>5, <1>7, <2>3
  <2>5. QED BY <1>1, <2>1, <2>2, <2>4, StopKeeps
<1>8. CASE /\ ~ G!Implausible /\ start0 # -1 /\ length0 # -1
           /\ G!TooLong(start0, length0)
  <2>1. /\ pc' = "done" /\ result' = "short" /\ off' = off
        /\ part' = [start |-> 0, length |-> 0]
      BY <1>3, <1>8 DEF G!parseHeader, G!Stop, G!Refuse
  <2>2. "short" \in G!Errors
      BY DEF G!Errors
  <2>3. QED BY <1>1, <2>1, <2>2, StopKeeps
<1>9. CASE /\ ~ G!Implausible /\ start0 # -1 /\ length0 # -1
           /\ ~ G!TooLong(start0, length0)
  <2>1. pc' = "entry" /\ off' = start0 /\ result' = result /\ part' = part
      BY <1>3, <1>9 DEF G!parseHeader
  <2>2. PICK len \in Nat : len = head.len
      BY <1>2, HeadIs
  <2>3. start0 = at /\ length0 = all
      BY <1>5, <1>9
  <2>4. ~ (at > len) /\ ~ (all > len - at)
      BY <1>9, <2>2, <2>3 DEF G!TooLong
  <2>5. off' = head.partLBA * secsz /\ off' + head.nparts * head.esize <= head.len
    <3>1. at + all <= len
        BY <1>4, <2>2, <2>4
    <3>2. QED BY <1>4, <2>1, <2>2, <2>3, <3>1
  <2>6. off' \in 0..G!MaxInt
    <3>1. at <= G!MaxInt
        BY <1>4, <1>5, <1>9, WordsAre
    <3>2. QED BY <1>4, <2>1, <2>3, <3>1, WordsAre
  <2>7. G!TypeOK'
      BY <1>1, <2>1, <2>6 DEF G!ParserInv, G!TableIsRead, G!TypeOK
  <2>8. (G!EntriesInHead /\ G!PartitionIsExact /\ G!OverflowIsReal)'
      BY <1>1, <1>2, <2>1 DEF G!EntriesInHead, G!PartitionIsExact, G!OverflowIsReal, G!Found
  <2>9. G!FirstSeedDecides'
      BY <1>1, <2>1 DEF G!ParserInv, G!TableIsRead, G!FirstSeedDecides, G!Found
  <2>10. G!TableIsMeasured'
    <3>1. Len(seen') <= head'.nparts
      <4>1. Len(seen') = 0 /\ head'.nparts \in Nat
          BY <1>1, <1>2, HeadIs
      <4>2. QED BY <4>1
    <3>2. QED BY <1>1, <1>2, <2>1, <2>5, <3>1 DEF G!TableIsMeasured
  <2>11. QED BY <1>1, <1>2, <2>1, <2>7, <2>8, <2>9, <2>10 DEF G!ParserInv, G!TableIsRead
<1>10. QED BY <1>6, <1>7, <1>8, <1>9

-----------------------------------------------------------------------------
(* An entry of the table.                                                   *)

\* What the range of a partition may come to.
IsRange(r, first, last, size) ==
    \/ r.kind = "order" /\ r.start = 0 /\ r.length = 0
    \/ r.kind = "overflow" /\ r.start = 0 /\ r.length = 0 /\ (last + 1) * size > G!MaxInt
    \/ /\ r.kind = "found" /\ first <= last
       /\ r.start \in 0..G!MaxInt /\ r.length \in 0..G!MaxInt
       /\ r.start = first * size /\ r.start + r.length = (last + 1) * size /\ r.length > 0

(* No number of a range wraps, and only numbers that would are refused (partitionRange). *)
LEMMA RangeIs ==
    ASSUME NEW first \in Nat, NEW last \in Nat, first <= G!MaxUint, last <= G!MaxUint,
           secsz \in 1..G!MaxInt
    PROVE  IsRange(G!partitionRange(first, last), first, last, secsz)
<1>1. PICK size : size = secsz /\ size \in Nat \ {0}
    BY WordsAre
<1>2. PICK start0, length0 : /\ start0 = G!gptBytes(first, size)
                             /\ length0 = G!gptBytes((last - first + 1) % G!Word, size)
    OBVIOUS
<1>3. G!partitionRange(first, last) =
        IF last < first THEN G!Refuse("order")
        ELSE IF last - first = G!MaxUint \/ start0 = -1 \/ length0 = -1 THEN G!Refuse("overflow")
        ELSE [kind |-> "found", start |-> start0, length |-> length0]
    BY <1>1, <1>2 DEF G!partitionRange
<1>4. PICK r : r = G!partitionRange(first, last)
    OBVIOUS
<1>5. CASE last < first
  <2>1. r = [kind |-> "order", start |-> 0, length |-> 0]
      BY <1>3, <1>4, <1>5 DEF G!Refuse
  <2>2. QED BY <1>4, <2>1 DEF IsRange
<1>6. CASE ~ (last < first)
  <2>1. PICK from, n, to : /\ from = first * size /\ n = (last - first + 1) * size
                           /\ to = (last + 1) * size
                           /\ from \in Nat /\ n \in Nat /\ to \in Nat
    <3>1. last - first + 1 \in Nat /\ last + 1 \in Nat
        BY <1>6
    <3>2. QED BY <1>1, <3>1, ProductsAre
  <2>2. from + n = to /\ n > 0 /\ from <= to /\ n <= to
      BY <1>1, <1>6, <2>1, RangeOfSectors
  <2>3. (start0 = -1 <=> from > G!MaxInt) /\ (start0 # -1 => start0 = from)
      BY <1>1, <1>2, <2>1, BytesAre
  <2>4. CASE last - first = G!MaxUint
    <3>1. last + 1 = G!Word
        BY <2>4, <1>6, WordsAre
    <3>2. G!Word * 1 <= G!Word * size
        BY <1>1, WordsAre, TimesMonotonic
    <3>3. to > G!MaxInt
      <4>1. PICK w, t : w = G!Word /\ t = G!Word * size
          OBVIOUS
      <4>2. t = to /\ w \in Nat /\ w <= t /\ G!MaxInt < w
          BY <2>1, <3>1, <3>2, <4>1, WordsAre
      <4>3. QED BY <2>1, <4>2, WordsAre
    <3>4. r = [kind |-> "overflow", start |-> 0, length |-> 0]
        BY <1>3, <1>4, <1>6, <2>4 DEF G!Refuse
    <3>5. QED BY <1>1, <1>4, <2>1, <3>3, <3>4 DEF IsRange
  <2>5. CASE last - first # G!MaxUint
    <3>1. (last - first + 1) % G!Word = last - first + 1 /\ last - first + 1 \in Nat
      <4>1. PICK d \in Nat : d = last - first + 1
          BY <1>6
      <4>2. d < G!Word
          BY <1>6, <2>5, <4>1, WordsAre
      <4>3. d % G!Word = d
          BY <4>2, WordsAre, LowWord
      <4>4. QED BY <4>1, <4>3
    <3>2. (length0 = -1 <=> n > G!MaxInt) /\ (length0 # -1 => length0 = n)
        BY <1>1, <1>2, <2>1, <3>1, BytesAre
    <3>3. CASE start0 = -1 \/ length0 = -1
      <4>1. to > G!MaxInt
          BY <2>1, <2>2, <2>3, <3>2, <3>3, WordsAre
      <4>2. r = [kind |-> "overflow", start |-> 0, length |-> 0]
          BY <1>3, <1>4, <1>6, <3>3 DEF G!Refuse
      <4>3. QED BY <1>1, <1>4, <2>1, <4>1, <4>2 DEF IsRange
    <3>4. CASE start0 # -1 /\ length0 # -1
      <4>1. r = [kind |-> "found", start |-> from, length |-> n]
          BY <1>3, <1>4, <1>6, <2>3, <2>5, <3>2, <3>4
      <4>2. from \in 0..G!MaxInt /\ n \in 0..G!MaxInt
          BY <2>1, <2>3, <3>2, <3>4, WordsAre
      <4>3. first <= last
          BY <1>6
      <4>4. QED BY <1>1, <1>4, <2>1, <2>2, <4>1, <4>2, <4>3 DEF IsRange
    <3>5. QED BY <3>3, <3>4
  <2>6. QED BY <2>4, <2>5
<1>7. QED BY <1>5, <1>6

(* The entry read is one more, inside the head, and none before it is a seed. *)
LEMMA EntryKeeps ==
    ASSUME G!ParserInv, G!parseEntry
    PROVE  G!ParserInv'
<1>1. PICK e \in Entries :
          /\ seen' = Append(seen, e)
          /\ IF G!IsSeed(e) THEN G!Stop(G!partitionRange(e.first, e.last))
             ELSE UNCHANGED <<pc, result, part>>
    BY DEF G!parseEntry
<1>2. pc = "entry" /\ Len(seen) < head.nparts /\ UNCHANGED <<head, secsz, off>>
    BY DEF G!parseEntry
<1>3. /\ result = "none" /\ head \in Heads /\ secsz \in 1..G!MaxInt
      /\ off = head.partLBA * secsz /\ off + head.nparts * head.esize <= head.len
    BY <1>2 DEF G!ParserInv, G!TableIsMeasured
<1>4. /\ e \in G!Entry /\ e.first \in Nat /\ e.first <= G!MaxUint
      /\ e.last \in Nat /\ e.last <= G!MaxUint
    BY EntryIs
<1>5. PICK n \in Nat :
          /\ n = Len(seen) /\ Len(seen') = n + 1
          /\ seen' \in Seq(G!Entry) /\ seen' # <<>> /\ seen'[n + 1] = e
          /\ DOMAIN seen = 1..n /\ DOMAIN seen' = 1..n + 1
          /\ \A i \in 1..n : seen'[i] = seen[i]
  <2>1. seen \in Seq(G!Entry)
      BY DEF G!ParserInv, G!TableIsRead, G!TypeOK
  <2>2. PICK s : s = Append(seen, e)
      OBVIOUS
  <2>3. /\ Len(seen) \in Nat /\ DOMAIN seen = 1..Len(seen)
        /\ s \in Seq(G!Entry) /\ s # <<>> /\ Len(s) = Len(seen) + 1
        /\ \A i \in 1..Len(seen) : s[i] = seen[i]
        /\ s[Len(seen) + 1] = e
      BY <1>4, <2>1, <2>2, AppendProperties, LenProperties
  <2>4. DOMAIN s = 1..Len(s)
      BY <2>3, LenProperties
  <2>5. QED BY <1>1, <2>2, <2>3, <2>4
<1>6. G!Last' = e
    BY <1>5 DEF G!Last
<1>7. \A i \in 1..n : ~ (seen'[i].used /\ G!gptName(seen'[i].name) = SeedName)
    BY <1>3, <1>5 DEF G!ParserInv, G!TableIsRead, G!FirstSeedDecides
<1>8. n + 1 <= head.nparts
    BY <1>2, <1>3, <1>5, HeadIs
<1>9. G!EntriesInHead'
  <2>1. PICK used, all : /\ used = (n + 1) * head.esize /\ all = head.nparts * head.esize
                         /\ used \in Nat /\ all \in Nat /\ used <= all
      BY <1>3, <1>8, HeadIs, ProductsAre, TimesMonotonic
  <2>2. off \in Nat /\ head.len \in Nat
      BY <1>3, HeadIs, WordsAre DEF G!ParserInv, G!TableIsRead, G!TypeOK
  <2>3. off + used <= head.len
      BY <1>3, <2>1, <2>2
  <2>4. QED BY <1>2, <1>3, <1>5, <1>8, <2>1, <2>3 DEF G!EntriesInHead
<1>10. CASE ~ G!IsSeed(e)
  <2>1. pc' = pc /\ result' = result /\ part' = part
      BY <1>1, <1>10
  <2>2. G!TypeOK'
      BY <1>2, <1>5, <2>1 DEF G!ParserInv, G!TableIsRead, G!TypeOK
  <2>3. (G!PartitionIsExact /\ G!OverflowIsReal)'
      BY <1>3, <2>1 DEF G!PartitionIsExact, G!OverflowIsReal, G!Found
  <2>4. \A i \in 1..n + 1 : ~ (seen'[i].used /\ G!gptName(seen'[i].name) = SeedName)
    <3>1. ~ (e.used /\ G!gptName(e.name) = SeedName)
        BY <1>10 DEF G!IsSeed
    <3>2. \A i \in 1..n + 1 : i \in 1..n \/ i = n + 1
        OBVIOUS
    <3>3. QED BY <1>5, <1>7, <3>1, <3>2
  <2>5. G!FirstSeedDecides'
      BY <1>3, <1>5, <2>1, <2>4 DEF G!FirstSeedDecides, G!Found
  <2>6. G!TableIsMeasured'
      BY <1>2, <1>3, <1>5, <1>8, <2>1 DEF G!TableIsMeasured
  <2>7. QED BY <1>2, <1>3, <1>9, <2>1, <2>2, <2>3, <2>5, <2>6
            DEF G!ParserInv, G!TableIsRead
<1>11. CASE G!IsSeed(e)
  <2>1. PICK r : r = G!partitionRange(e.first, e.last)
      OBVIOUS
  <2>2. IsRange(r, e.first, e.last, secsz)
      BY <1>3, <1>4, <2>1, RangeIs
  <2>3. /\ pc' = "done" /\ result' = r.kind
        /\ part' = [start |-> r.start, length |-> r.length]
      BY <1>1, <1>11, <2>1 DEF G!Stop
  <2>4. r.kind \in {"order", "overflow", "found"}
      BY <2>2 DEF IsRange
  <2>5. r.start \in 0..G!MaxInt /\ r.length \in 0..G!MaxInt
    <3>1. 0 \in 0..G!MaxInt
        BY WordsAre
    <3>2. QED BY <2>2, <3>1 DEF IsRange
  <2>6. G!TypeOK'
    <3>1. part' \in G!Partition
        BY <2>3, <2>5 DEF G!Partition
    <3>2. result' \in {"none", "found"} \cup G!Errors
        BY <2>3, <2>4 DEF G!Errors
    <3>3. QED BY <1>2, <1>5, <2>3, <3>1, <3>2 DEF G!ParserInv, G!TableIsRead, G!TypeOK
  <2>7. G!PartitionIsExact'
    <3>1. SUFFICES ASSUME result' = "found"
                   PROVE  /\ e.first <= e.last /\ r.start = e.first * secsz
                          /\ r.start + r.length = (e.last + 1) * secsz /\ r.length > 0
        BY <1>2, <1>6, <2>3 DEF G!PartitionIsExact, G!Found
    <3>2. QED BY <2>2, <2>3, <3>1 DEF IsRange
  <2>8. G!OverflowIsReal'
    <3>1. SUFFICES ASSUME result' = "overflow"
                   PROVE  (e.last + 1) * secsz > G!MaxInt
        BY <1>2, <1>5, <1>6 DEF G!OverflowIsReal
    <3>2. QED BY <2>2, <2>3, <3>1 DEF IsRange
  <2>9. G!FirstSeedDecides'
    <3>1. e.used /\ G!gptName(e.name) = SeedName
        BY <1>11 DEF G!IsSeed
    <3>2. \A i \in 1..n + 1 : i \in 1..n \/ i = n + 1
        OBVIOUS
    <3>3. QED BY <1>5, <1>6, <1>7, <2>3, <2>4, <3>1, <3>2 DEF G!FirstSeedDecides, G!Found
  <2>10. G!TableIsMeasured'
      BY <2>3 DEF G!TableIsMeasured
  <2>11. QED BY <1>2, <1>3, <1>9, <2>3, <2>4, <2>6, <2>7, <2>8, <2>9, <2>10
             DEF G!ParserInv, G!TableIsRead
<1>12. QED BY <1>10, <1>11

-----------------------------------------------------------------------------
(* Parser and build.                                                        *)

(* The variables of the parser are in each other's way only during its call. *)
LEMMA ParserAtRest ==
    ASSUME G!ParserInv, UNCHANGED parser
    PROVE  G!ParserInv'
BY DEF parser, G!ParserInv, G!TableIsRead, G!TypeOK, G!EntriesInHead, G!PartitionIsExact,
       G!OverflowIsReal, G!FirstSeedDecides, G!TableIsMeasured, G!Found, G!Last

(* The build's partition changes only with the table. *)
LEMMA PartitionAtRest ==
    ASSUME PartitionIsOfTable, start' = start, length' = length, table' = table
    PROVE  PartitionIsOfTable'
BY DEF PartitionIsOfTable

(* Neither has begun. *)
LEMMA InitKeeps ==
    ASSUME InitBoth
    PROVE  ProbedInv
<1>1. TypeOK /\ SpliceInv
    BY InitInv DEF InitBoth, IndInv
<1>2. G!ParserInv
    BY FreshParser DEF InitBoth
<1>3. PartitionIsOfTable
    BY DEF InitBoth, Unread, PartitionIsOfTable
<1>4. QED BY <1>1, <1>2, <1>3 DEF ProbedInv

(* The parser is at work. *)
LEMMA ParsingKeeps ==
    ASSUME ProbedInv, Parsing
    PROVE  ProbedInv'
<1>1. (TypeOK /\ SpliceInv)'
  <2>1. [Next]_vars
      BY DEF Parsing
  <2>2. QED BY <2>1, Inductive DEF ProbedInv, IndInv
<1>2. G!ParserInv'
    BY ReadFailsKeeps, FindKeeps, HeaderKeeps, EntryKeeps, NoSeedKeeps DEF Parsing, ProbedInv
<1>3. PartitionIsOfTable'
    BY PartitionAtRest DEF Parsing, vars, input, ProbedInv
<1>4. QED BY <1>1, <1>2, <1>3 DEF ProbedInv

(* The partition is the one the build goes on with, exactly. *)
LEMMA FoundKeeps ==
    ASSUME ProbedInv, PartitionFound
    PROVE  ProbedInv'
<1>1. /\ At("probe") /\ start' = part.start /\ length' = part.length /\ image' = head.len
      /\ table' = [first |-> G!Last.first * secsz, end |-> (G!Last.last + 1) * secsz]
      /\ UNCHANGED <<stage, err, cancelled, offline, tar, reported, src, out, streams>>
    BY DEF PartitionFound
<1>2. /\ part.start = G!Last.first * secsz
      /\ part.start + part.length = (G!Last.last + 1) * secsz
    BY DEF PartitionFound, ProbedInv, G!ParserInv, G!TableIsRead, G!PartitionIsExact
<1>3. /\ start' \in Nat /\ length' \in Nat /\ image' \in Nat
  <2>1. head \in Heads /\ part \in G!Partition
      BY DEF ProbedInv, G!ParserInv, G!TableIsRead, G!TypeOK
  <2>2. part.start \in Nat /\ part.length \in Nat
      BY <2>1, WordsAre DEF G!Partition
  <2>3. QED BY <1>1, <2>1, <2>2, HeadIs
<1>4. src = 0 /\ out = <<>> /\ streams = 0
    BY <1>1 DEF ProbedInv, SpliceInv, Alignment, At, Copying
<1>5. TypeOK'
    BY <1>1, <1>3 DEF ProbedInv, TypeOK
<1>6. SpliceInv'
  <2>1. NoWrongByte'
      BY <1>1, <1>4 DEF NoWrongByte
  <2>2. Alignment'
      BY <1>1, <1>3, <1>4 DEF Alignment, At, Copying
  <2>3. QED BY <2>1, <2>2 DEF SpliceInv
<1>7. PartitionIsOfTable'
    BY <1>1, <1>2 DEF PartitionIsOfTable
<1>8. G!ParserInv'
  <2>1. head \in Heads
      BY DEF ProbedInv, G!ParserInv
  <2>2. (CHOOSE h \in Heads : TRUE) \in Heads
      BY <2>1, Zenon
  <2>3. /\ pc' = "find" /\ head' \in Heads /\ secsz' = 0 /\ off' = 0 /\ seen' = <<>>
        /\ result' = "none" /\ part' = [start |-> 0, length |-> 0]
      BY <2>2 DEF PartitionFound, Return
  <2>4. G!Init'
      BY <2>3 DEF G!Init
  <2>5. QED BY <2>4, FreshParser, PTL
<1>9. QED BY <1>5, <1>6, <1>7, <1>8 DEF ProbedInv

(* The build meets the rest of its inputs. *)
LEMMA MeetKeeps ==
    ASSUME ProbedInv, Meet
    PROVE  ProbedInv'
<1>1. /\ At("probe") /\ image' \in ImageSizes /\ offline' \in BOOLEAN
      /\ tar' \in TarSizes /\ reported' \in TarSizes
      /\ UNCHANGED <<stage, err, cancelled, start, length, src, out, streams, table>>
      /\ UNCHANGED parser
    BY DEF Meet
<1>2. src = 0 /\ out = <<>> /\ streams = 0
    BY <1>1 DEF ProbedInv, SpliceInv, Alignment, At, Copying
<1>3. image' \in Nat /\ tar' \in Nat /\ reported' \in Nat
    BY <1>1, ImageBuildAssumption
<1>4. TypeOK'
    BY <1>1, <1>3 DEF ProbedInv, TypeOK
<1>5. SpliceInv'
  <2>1. NoWrongByte'
      BY <1>1, <1>2 DEF NoWrongByte
  <2>2. Alignment'
      BY <1>1, <1>2, <1>3 DEF Alignment, At, Copying
  <2>3. QED BY <2>1, <2>2 DEF SpliceInv
<1>6. G!ParserInv' /\ PartitionIsOfTable'
    BY <1>1, ParserAtRest, PartitionAtRest DEF ProbedInv
<1>7. QED BY <1>4, <1>5, <1>6 DEF ProbedInv

(* probe returns, or the build goes on. *)
LEMMA BuildingKeeps ==
    ASSUME ProbedInv, Probed \/ Building
    PROVE  ProbedInv'
<1>1. Next /\ UNCHANGED parser /\ table' = table
    BY DEF Probed, Building, Next, RunBuild
<1>2. UNCHANGED input
    BY DEF Probed, Building, Probe, ResolveRelease, AcquireImage, Render, Splice, CopyPrefix,
           PrefixCopied, WriteTar, TarWritten, Skip, Skipped, CopyRest, RestCopied, AcquireApps,
           ReleaseMetadata, WriteRescue, Returned, Cancel, vars
<1>3. (TypeOK /\ SpliceInv)'
    BY <1>1, Inductive DEF ProbedInv, IndInv
<1>4. G!ParserInv' /\ PartitionIsOfTable'
    BY <1>1, <1>2, ParserAtRest, PartitionAtRest DEF ProbedInv, input
<1>5. QED BY <1>3, <1>4 DEF ProbedInv

(* Every step of both. *)
LEMMA BothKeep ==
    ASSUME ProbedInv, [NextBoth]_allVars
    PROVE  ProbedInv'
<1>1. CASE UNCHANGED allVars
  <2>1. UNCHANGED vars /\ UNCHANGED parser /\ table' = table
      BY <1>1 DEF allVars
  <2>2. (TypeOK /\ SpliceInv)'
      BY <2>1, Inductive DEF ProbedInv, IndInv
  <2>3. G!ParserInv' /\ PartitionIsOfTable'
      BY <2>1, ParserAtRest, PartitionAtRest DEF ProbedInv, vars, input
  <2>4. QED BY <2>2, <2>3 DEF ProbedInv
<1>2. QED BY <1>1, ParsingKeeps, FoundKeeps, MeetKeeps, BuildingKeeps DEF NextBoth

-----------------------------------------------------------------------------

\* The parser's state says what the bytes read mean, and the build's partition is the
\* table's (parseGPT, probe, runBuild).
THEOREM ProbedBuildInvariant == SpecBoth => []ProbedInv
<1>1. InitBoth => ProbedInv
    BY InitKeeps
<1>2. ProbedInv /\ [NextBoth]_allVars => ProbedInv'
    BY BothKeep
<1>3. QED BY <1>1, <1>2, PTL DEF SpecBoth

\* The parser finds what a reader of the table would find whose numbers do not wrap, and
\* refuses only what cannot be given, for every width of a word, every head and every
\* table (parseGPT, partitionRange, gptBytes).
THEOREM TableIsReadExactly == SpecBoth => []TableIsRead
<1>1. ProbedInv => TableIsRead
    BY DEF ProbedInv, G!ParserInv, TableIsRead
<1>2. QED BY <1>1, ProbedBuildInvariant, PTL

\* A byte of the stream that is not the image's lies in the seed-data partition of the
\* image's own table, whatever the table holds and however the copy loops are cut.
THEOREM SeedStaysInPartition == SpecBoth => []SeedInItsPartition
<1>1. ASSUME ProbedInv
      PROVE  SeedInItsPartition
  <2>1. SUFFICES ASSUME NEW i \in 1..Len(out), out[i] # ImageByte(i)
                 PROVE  table.first < i /\ i <= table.end
      BY DEF SeedInItsPartition
  <2>2. start < i /\ i <= start + tar
      BY <1>1, <2>1 DEF ProbedInv, SpliceInv, NoWrongByte, Spliced
  <2>3. out # <<>>
      BY <2>1
  <2>4. tar <= length
      BY <1>1, <2>3 DEF ProbedInv, SpliceInv, Alignment
  <2>5. i <= start + length
      BY <1>1, <2>2, <2>4 DEF ProbedInv, TypeOK
  <2>6. QED BY <1>1, <2>2, <2>5 DEF ProbedInv, PartitionIsOfTable
<1>2. QED BY <1>1, ProbedBuildInvariant, PTL
=============================================================================
