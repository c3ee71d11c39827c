CONSTANTS
    Dirs <- MCDirs
    ApiUser = "custom"
    Secrets <- MCSecrets
    Images = 2
    NewAgents <- MCAgents
    Fault <- MCFaults
    MaxFaults = 2
SPECIFICATION Spec
CHECK_DEADLOCK FALSE
INVARIANTS
    TypeOK
    CredentialsCurrent
    DamageIsLocal
    BootIsFresh
    EnrolledKept
PROPERTIES
    EventuallyRunning
