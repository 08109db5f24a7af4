\* A file of every kind of section with every fault that is looked for, or the one
\* that six lines at the prompts of init give.
SPECIFICATION SpecBoth
CONSTANTS
    MaxLines = 6
    Documents <- AllDocuments
    Messages <- AllMessages
    Diagnostics <- Complaints
INVARIANTS
    ImageIsAsConfigured  LinesBecomeAnswers InitConfigIsAccepted
PROPERTY Ends
