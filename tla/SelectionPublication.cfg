CONSTANTS
    p1 = p1
    p2 = p2
    p3 = p3
    a = a
    b = b
    Publishers = {p1, p2, p3}
    Inputs = {a, b}
    InputOf <- MCInputOf
    None = none
    InvalidCommit = invalid
    MaxFaults = 1
    MaxTampers = 1
SPECIFICATION FairSpec
INVARIANTS
    TypeOK
    CommittedIsReadable
    SnapshotNamesPublication
    CompletedIsSummarised
    OnlyOthersBlock
PROPERTIES
    ImplementsRegister
    Converges
