SPECIFICATION PipelineSpec
CONSTANTS
    Files <- MCFiles
    Order <- MCOrder
    Rows <- MCRows
    Total <- MCTotal
    MaxRuns <- MCMaxRuns
    Outputs <- MCOutputs
    Labels <- MCLabels
INVARIANTS
    PipelineTypeOK
    ScriptOkMeansFresh
    OlderFilesFollow
    TrialsOfOneRun
    ChainedOutputsFresh
    CsvsAgree
    ChartsComplete
