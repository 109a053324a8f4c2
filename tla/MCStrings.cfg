SPECIFICATION FairSpec
CONSTANTS
    Thread = {t1, t2, t3}
    Name = {a, b}
    Width = 3
    MaxFailures = 1
    MaxDeaths = 1
INVARIANTS
    GetFindsName
    ExposedOnlyByFailure
PROPERTIES
    ImplementsNameTable
    CallsEnd
