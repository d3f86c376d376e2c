SPECIFICATION Spec
CONSTANTS
    P = 2
    Pool = 3
    Cap = 1
    PerTick = 1
    Burst = 2
    Tick = 2
    Slack = 1
    Deadline = 3
    Ports <- MCCpp
    Paces <- MCUnpaced
INVARIANT CalibrationNeverThrottled
