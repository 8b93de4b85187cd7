SPECIFICATION Spec
CONSTANTS
    StepLists <- MCConsumeOnly
    MaxIterations = 2
    MaxRecords = 2
    MaxTicks = 1
    MaxReads = 1
INVARIANT
    SwallowedErrorsAreVisible
CHECK_DEADLOCK FALSE
