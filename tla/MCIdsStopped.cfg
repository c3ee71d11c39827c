CONSTANTS
    short = short
    long = long
    Engines <- SnortOnly
    Rules <- MCRules
    Height <- MCHeight
    ShippedSize = 1
    MaxLines = 4
    MaxNets = 2
    MaxDaemons = 2
    Fault <- NoFault
SPECIFICATION Spec
INVARIANTS
    StoppedMeansStopped
