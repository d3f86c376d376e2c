SPECIFICATION FairSpec
CONSTANTS
    Total = 4
    P = 3
    Ports <- MCPorts
    NoSample = NoSample
INVARIANTS
    TypeOK
    SlotInBounds
    NoSampleOverwritten
    BackpressureNeverEngages
    ValidRowIsComplete
    DrainedTrialReports
PROPERTIES
    QuietOnceDrained
    KeepsLedger
    TrialEnds
