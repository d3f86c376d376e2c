SPECIFICATION Spec
CONSTANTS
    Ports <- MCPorts
    Pars <- MCPars
    Rates <- MCRates
    Trials = 3
    CalibrationTrials = 2
    SweepTrials = 2
INVARIANTS
    TypeOK
    TargetsFromBestCalibration
    SweepPoolWithinBudget
    PoolNeverEmpty
    PoolOutlastsPacing
    HeldBackRowsAreOfThisCurve
PROPERTIES
    KeepsRun
