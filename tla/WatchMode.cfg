SPECIFICATION FairSpec
CONSTANTS
    StepLists <- MCStepLists
    MaxIterations = 2
    MaxRecords = 2
    MaxTicks = 1
    MaxReads = 1
INVARIANTS
    TypeOK
    PassedStepsLeftEvidence
    PreviousIsLatestAnswer
    NoStepAfterReturn
    FinalSnapshotComplete
PROPERTIES
    CancelReturns
CHECK_DEADLOCK FALSE
