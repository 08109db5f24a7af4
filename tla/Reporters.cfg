\* Every combination of flags, terminals and environment with two calls, and both
\* reporters with five calls.
SPECIFICATION Spec
CONSTANTS
    Settings <- AllSettings
    Names <- TwoNames
    Updates <- SomeUpdates
    Width <- Widths
    Interval = 2
    MaxCalls <- Calls
    MaxTime <- Ticks
CHECK_DEADLOCK FALSE
INVARIANT ProgressIsReadable
