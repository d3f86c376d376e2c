SPECIFICATION Spec
CONSTANTS
    P = 2
    Pool = 3
    Cap = 1
    PerTick = 2
    Burst = 2
    Tick = 2
    Slack = 1
    Deadline = 4
    Ports <- MCUnthrottled
    Paces <- MCBothPaces
INVARIANTS
    TypeOK
    PacedRate
    CalibrationNeverThrottled
    StopsEarlyOnlyWhenExhausted
    NonEmptyDrainedWindowReports
    DrainedRowGap
    DrainedRowSampled
    SlotsSuffice
    TimeoutsBounded
