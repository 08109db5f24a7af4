\* One process acquires what an offline build needs, with three attempts.
SPECIFICATION FairSpec
CONSTANTS
    p1 = p1 p2 = p2 p3 = p3 image = image app = app odd = odd
    Processes = {p1}
    Digests = {image, app}
    Malformed = {odd}
    Plans <- OfflinePlans
    Sources = {"https", "local"}
    Attempts = 3
    MaxFaults = 2 MaxKills = 1 MaxLosses = 1 MaxEvictions = 1
INVARIANTS NoTempLeftBehind AtMostOneRedownload
PROPERTIES RequestsEnd
