CONSTANTS
    short = short
    long = long
    Engines <- BothCharms
    Rules <- MCRules
    Height <- MCHeight
    ShippedSize = 1
    MaxLines = 3
    MaxNets = 3
    MaxDaemons = 2
    Fault <- AllFaults
SPECIFICATION Spec
INVARIANTS
    TypeOK
    OneSensor
    StartedIsCurrent
    StoppedStaysDown
    RulesAreStack
PROPERTIES
    StackSpec
