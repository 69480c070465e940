SPECIFICATION InstallSpec
CONSTANTS
    MaxIssued = 7
    MaxFaults = 4
INVARIANTS
    FileIsWhole
PROPERTIES
    TokenNotWasted
    CredentialSurvives
    SuccessFitsFile
    Recovers
