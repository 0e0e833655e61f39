SPECIFICATION Spec
CONSTANTS
    Kinds = 2
    ResettingKind = 2
    ErrorLimit = 1
    MaxRetries = 2
    MaxFailures = 2
CHECK_DEADLOCK FALSE
INVARIANT TypeOK
INVARIANT DuplicatesNeedFailedConnect
PROPERTY DeadKindIsReopened
PROPERTY ShutdownClosesStreams
