\* Two --force processes over the same names; nothing fails, nobody is killed.
SPECIFICATION Spec
CONSTANTS
    s1 = s1
    s2 = s2
    s3 = s3
    Nobody = Nobody
    Sessions = {s1, s2}
    Requests <- ForceOffline
    InitialFinals = {"none", "old"}
    InitialBaks = {"none"}
    MaxFaults = 0
    MaxKills = 0
    MaxForeign = 0
INVARIANT
    NoClaimLeftBehind
