\* One HTTPS request for one asset, with three attempts.
SPECIFICATION Spec
CONSTANTS
    p1 = p1 p2 = p2 p3 = p3 image = image app = app odd = odd
    Processes = {p1}
    Digests = {image}
    Malformed = {}
    Plans <- OneAsset
    Sources = {"https"}
    Attempts = 3
    MaxFaults = 0 MaxKills = 0 MaxLosses = 0 MaxEvictions = 0
INVARIANTS MismatchIsRedownloaded
