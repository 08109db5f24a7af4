\* Two processes, and three when nothing fails, race for names without --force.
SPECIFICATION RaceSpec
CONSTANTS
    s1 = s1
    s2 = s2
    s3 = s3
    Nobody = Nobody
    Sessions = {s1, s2, s3}
    Requests <- NoClobberRequests
    InitialFinals = {"none", "old"}
    InitialBaks = {"none"}
    MaxFaults = 2
    MaxKills = 1
    MaxForeign = 1
INVARIANTS
    TypeOK
    PublishedPairIntact
    ImageLast
    FailureLeavesNothing
    ExactlyOneWins
PROPERTIES
    NoClobberKeepsOthers
    ImageIsWriteOnce
    SessionsEnd
