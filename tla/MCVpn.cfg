CONSTANTS
    vpn1 = vpn1
    vpn2 = vpn2
    alice = alice
    bob = bob
    none = none
    Domains <- TwoDomains
    Names <- TwoNames
    NoName <- none
    MaxCAs = 2
    MaxSerial = 2
    KeepsFiles <- Either
    Fault <- AllFaults
SPECIFICATION Spec
SYMMETRY Swaps
INVARIANTS
    TypeOK
    RevokedStaysOut
    ListMatchesServer
    CreatedIsAdmitted
    GeneratedIsUsable
    OneServerKey
PROPERTIES
    AuthoritySpec
