----------------------------- MODULE GptProbe -----------------------------
(***************************************************************************)
(* The partition table parser (internal/build/probe.go): parseGPT over the *)
(* first bytes of a decompressed image.  All numbers come from the image,  *)
(* LBAs as unsigned words that are multiplied by the sector size.          *)
(***************************************************************************)
EXTENDS Integers, Sequences

CONSTANTS
    Bits,       \* the width of a word and of an int: 64
    Sectors,    \* the sector sizes in the order they are tried: 512, 2048, 4096
    HeaderLen,  \* gptHeaderLen
    MinEntry,   \* gptMinEntrySize
    MaxParts,   \* gptMaxParts
    Heads,      \* the heads to parse
    Entries,    \* what an entry of the table may hold
    SeedName    \* seedPartName

Word == 2^Bits
MaxUint == Word - 1
MaxInt == 2^(Bits - 1) - 1

\* The head: its bytes, the sector sizes at which it holds the signature, and
\* the fields of its header.
ImageHead == [len : 0..MaxInt, signed : SUBSET {Sectors[k] : k \in DOMAIN Sectors},
         partLBA : 0..MaxUint, nparts : Nat, esize : Nat]

\* An entry: whether its type is set, its name as units with 0 at the end, and
\* its first and last LBA.
Entry == [used : BOOLEAN, name : Seq(Nat), first : 0..MaxUint, last : 0..MaxUint]

\* Powers of two are spelled out for the provers, which do not compute them.  The
\* length of a table fits: an entry's size is a word of half as many bits (uint32).
GptAssumption ==
    /\ Bits \in Nat \ {0}
    /\ Word \in Nat /\ MaxInt \in Nat /\ MaxInt < Word
    /\ Sectors \in Seq(1..MaxInt)
    /\ HeaderLen \in Nat /\ MinEntry \in Nat \ {0} /\ MaxParts \in Nat
    /\ Heads \subseteq ImageHead /\ Entries \subseteq Entry
    /\ \A h \in Heads : MaxParts * h.esize <= MaxInt

Errors == {"read", "signature", "implausible", "overflow", "short", "order", "absent"}

VARIABLES
    pc,       \* "find", "header", "entry", "done"
    head,
    secsz,    \* the sector size found, 0 before
    off,      \* where the table starts in the head
    seen,     \* the entries read so far
    result,   \* "none", an error, or "found"
    part      \* the seedPartition found

vars == <<pc, head, secsz, off, seen, result, part>>

-----------------------------------------------------------------------------
\* Mutant: the largest int is refused.
gptBytesStrict(lba, size) ==
    IF lba * size >= MaxInt THEN -1 ELSE lba * size

\* Mutant: the high word of the product is not looked at.
gptBytesLow(lba, size) ==
    IF (lba * size) % Word > MaxInt THEN -1 ELSE (lba * size) % Word

\* bits.Mul64, as a high and a low word; -1 stands for the error.  gptIndex is
\* the same for an int of 64 bits.
gptBytes(lba, size) ==
    LET hi == (lba * size) \div Word
        lo == (lba * size) % Word
    IN IF hi # 0 \/ lo > MaxInt THEN -1 ELSE lo

gptEntriesLen(nparts, esize) == gptBytes(nparts, esize)

Refuse(e) == [kind |-> e, start |-> 0, length |-> 0]

\* Mutant: one more LBA than a word can count is not refused.
partitionRangeWraps(first, last) ==
    LET start == gptBytes(first, secsz)
        length == gptBytes((last - first + 1) % Word, secsz) IN
    IF last < first THEN Refuse("order")
    ELSE IF start = -1 \/ length = -1 THEN Refuse("overflow")
    ELSE [kind |-> "found", start |-> start, length |-> length]

partitionRange(first, last) ==
    LET start == gptBytes(first, secsz)
        length == gptBytes((last - first + 1) % Word, secsz) IN
    IF last < first THEN Refuse("order")
    ELSE IF last - first = MaxUint \/ start = -1 \/ length = -1 THEN Refuse("overflow")
    ELSE [kind |-> "found", start |-> start, length |-> length]

\* The units before the first zero.
gptName(units) ==
    LET zeros == {k \in DOMAIN units : units[k] = 0}
        end == IF zeros = {} THEN Len(units) + 1
               ELSE CHOOSE k \in zeros : \A j \in zeros : k <= j
    IN SubSeq(units, 1, end - 1)

\* Mutant: an entry without a type is looked at.
IsSeedUnused(e) == gptName(e.name) = SeedName

\* partitionTypeZero, and the name.
IsSeed(e) == e.used /\ gptName(e.name) = SeedName

Stop(r) == pc' = "done" /\ result' = r.kind /\ part' = [start |-> r.start, length |-> r.length]

-----------------------------------------------------------------------------
\* io.ReadAll over the LimitReader.
Init ==
    /\ pc = "find" /\ head \in Heads
    /\ secsz = 0 /\ off = 0 /\ seen = <<>> /\ result = "none"
    /\ part = [start |-> 0, length |-> 0]

ReadFails == pc = "find" /\ Stop(Refuse("read")) /\ UNCHANGED <<head, secsz, off, seen>>

\* The sector sizes at which a header fits into the head and is signed.
Signed == {k \in DOMAIN Sectors :
              Sectors[k] + HeaderLen <= head.len /\ Sectors[k] \in head.signed}

findGPTHeader ==
    /\ pc = "find"
    /\ IF Signed = {}
       THEN Stop(Refuse("signature")) /\ UNCHANGED secsz
       ELSE /\ secsz' = Sectors[CHOOSE k \in Signed : \A j \in Signed : k <= j]
            /\ pc' = "header" /\ UNCHANGED <<result, part>>
    /\ UNCHANGED <<head, off, seen>>

Implausible == head.esize < MinEntry \/ head.nparts \notin 1..MaxParts

\* Mutant: the table is measured against the head and not against what is left.
TooLongWhole(start, length) == start > head.len \/ length > head.len

TooLong(start, length) == start > head.len \/ length > head.len - start

parseHeader ==
    LET start == gptBytes(head.partLBA, secsz)
        length == gptEntriesLen(head.nparts, head.esize) IN
    /\ pc = "header"
    /\ IF Implausible THEN Stop(Refuse("implausible")) /\ UNCHANGED off
       ELSE IF start = -1 \/ length = -1 THEN Stop(Refuse("overflow")) /\ UNCHANGED off
       ELSE IF TooLong(start, length) THEN Stop(Refuse("short")) /\ UNCHANGED off
       ELSE pc' = "entry" /\ off' = start /\ UNCHANGED <<result, part>>
    /\ UNCHANGED <<head, secsz, seen>>

\* One turn of the loop.
parseEntry ==
    /\ pc = "entry" /\ Len(seen) < head.nparts
    /\ \E e \in Entries :
          /\ seen' = Append(seen, e)
          /\ IF IsSeed(e) THEN Stop(partitionRange(e.first, e.last))
             ELSE UNCHANGED <<pc, result, part>>
    /\ UNCHANGED <<head, secsz, off>>

NoSeed ==
    /\ pc = "entry" /\ Len(seen) = head.nparts
    /\ Stop(Refuse("absent"))
    /\ UNCHANGED <<head, secsz, off, seen>>

Parsed == pc = "done" /\ UNCHANGED vars

Next == ReadFails \/ findGPTHeader \/ parseHeader \/ parseEntry \/ NoSeed \/ Parsed

Spec == Init /\ [][Next]_vars
=============================================================================
