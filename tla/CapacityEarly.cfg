SPECIFICATION Spec
CONSTANTS
    P = 2
    Pool = 3
    Cap = 1
    PerTick = 1
    Burst = 2
    Tick = 3
    Slack = 1
    Deadline = 5
    Ports <- MCShortSleeps
    Paces <- MCPaced
INVARIANT TargetRateKept
