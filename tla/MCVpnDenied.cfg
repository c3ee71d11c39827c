CONSTANTS
    vpn1 = vpn1
    vpn2 = vpn2
    alice = alice
    bob = bob
    none = none
    Domains <- OneDomain
    Names <- TwoNames
    NoName <- none
    MaxCAs = 2
    MaxSerial = 1
    KeepsFiles <- Either
    Fault <- NoFault
SPECIFICATION Spec
INVARIANTS
    RevokedIsDenied
