CONSTANTS
    Kcs = kcs
    Kcfs = kcfs
    Line = {a, b}
    Nonce = {r1, r2}
    Flip = Flip
    BadTag = BadTag
    Undecodable = Undecodable
    MaxLines = 3
    MaxFaults = 2
    MaxCrashes = 1

SPECIFICATION Spec

SYMMETRY Symmetry

INVARIANT TypeOK
INVARIANT DeliveredInOrder
INVARIANT GapEndsDelivery
INVARIANT UndisturbedAccepted
INVARIANT QuietMeansDelivered
