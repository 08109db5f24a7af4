\* A --force process and one without it race for the image name.
SPECIFICATION Spec
CONSTANTS
    s1 = s1
    s2 = s2
    s3 = s3
    Nobody = Nobody
    Sessions = {s1, s2}
    Requests <- MixedOnline
    InitialFinals = {"none", "old"}
    InitialBaks = {"none"}
    MaxFaults = 0
    MaxKills = 0
    MaxForeign = 0
PROPERTY
    NoClobberKeepsOthers
