\* One process, any request, over an existing or missing generation.
SPECIFICATION FairSpec
CONSTANTS
    s1 = s1
    s2 = s2
    s3 = s3
    Nobody = Nobody
    Sessions = {s1}
    Requests <- AnyRequests
    InitialFinals = {"none", "old"}
    InitialBaks = {"none", "stale"}
    MaxFaults = 3
    MaxKills = 1
    MaxForeign = 1
INVARIANTS
    OldNeverLost
    CleanupIsTold
PROPERTIES
    ReplaceIsAtomic
