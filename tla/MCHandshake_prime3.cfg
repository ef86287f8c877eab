CONSTANTS
    Prime = 3
    Scalar <- ScalarsModPrime
    Mul <- TimesModPrime
    SigningKey = {k1}
    Null = Null
    Undecodable = Undecodable
    Unfinished = Unfinished
    BadSignature = BadSignature
    MaxFaults = 1
    MaxCrashes = 0

SPECIFICATION Spec

INVARIANT KeyAgreement
INVARIANT HonestNeverRejected
