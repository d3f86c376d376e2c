SPECIFICATION Spec
CONSTANTS
    Files <- MCFiles
    Rows <- MCRows
    Raws <- MCRaws
    Csvs <- MCCsvs
INVARIANTS
    TypeOK
    AveragedWithItsOwnTrials
    WarningCoversCsvs
PROPERTIES
    FailureLeavesCsvs
