SPECIFICATION Spec
CONSTANTS
    Total = 3
    P = 2
    Ports <- MCPythonShared
    NoSample = NoSample
INVARIANT UndrainedRunReported
