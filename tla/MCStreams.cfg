\* Every rule, on streams of up to nine packets.
CONSTANTS
    Rules <- MCRules
    Packets <- MCPackets
    MaxPackets <- MCMaxPackets
    Limit <- MCLimit
    Records = 2
    MaxOid = 2
    TableLen = 2
    Window = 2
    MaxClock = 5
SPECIFICATION Spec
INVARIANTS
    TypeOK
    RepeatsAreCounted
    GroupsArePaired
    SrpFollowsHandshake
    ComparedAsSaid
    FragmentsAgree
