\* Every command line, with streams that fail and a signal at every step.
SPECIFICATION Spec
CONSTANT CommandLines <- Lines
INVARIANTS  StatusTellsArtifact EarlierFilesStay WrappingKeepsOneCode
PROPERTY Ends
