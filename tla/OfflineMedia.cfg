\* Indexes of up to three updates, or one update of three files; trees cut into every
\* sequence of reads of up to two bytes.
SPECIFICATION SpecBoth
CONSTANTS
    Cases <- AllCases
    Documents <- Published
    Idents = {"img", "raw", "incus", "ceph", "x86", "arm", "old", "update", "update.json", "other"}
    Legal = {1, 2}
    Digests = {"d1", "d2", "d3"}
    MaxSize = 1
    Inputs <- AllInputs
    Buffer = 2
    Sizes <- Contents
    FatSlack = 2048
    FatFloor = 524288
    FatDivisor = 50
    Margin = 2048
    IsoSlack = 16384
    IsoBlock = 4
INVARIANTS
    CommandsAgree FilesOfOneRelease MediaIsSound RoomForContent MediaHoldsApplications
