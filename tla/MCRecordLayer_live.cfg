CONSTANTS
    Kcs = kcs
    Kcfs = kcfs
    Line = {a, b}
    Nonce = {r1, r2}
    Flip = Flip
    BadTag = BadTag
    Undecodable = Undecodable
    MaxLines = 3
    MaxFaults = 1
    MaxCrashes = 1

SPECIFICATION FairSpec

PROPERTY SentIsDelivered
PROPERTY ClientEndEndsAll
PROPERTY ImplementsChannel
