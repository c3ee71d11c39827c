CONSTANTS
    c1 = c1
    c2 = c2
    c3 = c3
    k1 = k1
    k2 = k2
    k3 = k3
    Client <- MCClient
    Malformed = malformed
    PoolSize = 2
    ServerKey <- MCServerKey
    NoKey = nokey
    Garbled = garbled
    Fault <- AllFaults
SYMMETRY Symmetry
SPECIFICATION Spec
INVARIANTS
    TypeOK
    RevokedStaysOut
    AddedIsInstalled
PROPERTIES
    LossIsDeliberate
    RegistrySpec
