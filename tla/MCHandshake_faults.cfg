CONSTANTS
    Prime = 2
    Scalar <- ScalarsModPrime
    Mul <- TimesModPrime
    SigningKey = {k1, k2}
    Null = Null
    Undecodable = Undecodable
    Unfinished = Unfinished
    BadSignature = BadSignature
    MaxFaults = 2
    MaxCrashes = 1

SPECIFICATION Spec

INVARIANT TypeOK
INVARIANT KeyAgreement
INVARIANT StaleServerKeyBlocks
INVARIANT ServerKeyedAfterCheck
