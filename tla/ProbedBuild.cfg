\* Headers and ranges over the whole width of a word; the tar may be shorter than, as
\* long as and longer than the partition.
SPECIFICATION SpecBoth
CONSTANTS
    Bits = 4
    Sectors <- SectorSizes
    HeaderLen = 1
    MinEntry = 1
    MaxParts = 2
    Heads <- AllHeads
    Entries <- AllEntries
    SeedName <- Seed
    HeadLimit = 7
    ImageSizes <- Images
    Starts <- Positions
    Lengths <- Positions
    TarSizes <- Tars
    ExpectedStart = 2
    BufSize = 2
INVARIANTS
    TypeOK NoWrongByte WholeImage OnlySeedDataChanges TableIsRead SeedInItsPartition
