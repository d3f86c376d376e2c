SPECIFICATION Spec
CONSTANTS
    P = 2
    Pool = 2
    Cap = 1
    PerTick = 1
    Burst = 1
    Tick = 2
    Slack = 1
    Deadline = 3
    Ports <- MCCountingAttempts
    Paces <- MCBothPaces
INVARIANT DrainedRowAccounts
