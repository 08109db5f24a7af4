\* Two processes acquire the same digest into one cache directory.
SPECIFICATION FairSpec
CONSTANTS
    p1 = p1 p2 = p2 p3 = p3 image = image app = app odd = odd
    Processes = {p1, p2}
    Digests = {image}
    Malformed = {}
    Plans <- OneAsset
    Sources = {"https", "local"}
    Attempts = 2
    MaxFaults = 0 MaxKills = 1 MaxLosses = 1 MaxEvictions = 1
INVARIANTS HandlesHold OnlyVerifiedBytesRead
PROPERTIES GoodEntriesStay CacheIsBlobStore
