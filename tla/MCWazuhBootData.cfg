CONSTANTS
    Dirs <- MCDirs
    ApiUser = "custom"
    Secrets <- MCSecrets
    Images = 2
    NewAgents <- MCAgents
    Fault <- OnlyCrash
    MaxFaults = 1
SPECIFICATION Spec
CHECK_DEADLOCK FALSE
INVARIANTS
    DataIsInstalled
