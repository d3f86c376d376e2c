SPECIFICATION Spec
CONSTANTS
    Total = 3
    P = 2
    Ports <- MCCopyingPorts
    NoSample = NoSample
INVARIANT NonEmptyUndrainedRunReported
