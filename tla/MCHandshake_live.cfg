CONSTANTS
    Prime = 2
    Scalar <- ScalarsModPrime
    Mul <- TimesModPrime
    SigningKey = {k1}
    Null = Null
    Undecodable = Undecodable
    Unfinished = Unfinished
    BadSignature = BadSignature
    MaxFaults = 1
    MaxCrashes = 1

SPECIFICATION FairSpec

INVARIANT QuietMeansSettled
INVARIANT QuietMeansEstablished

PROPERTY HandshakeSettles
PROPERTY HonestHandshakeCompletes
PROPERTY ImplementsKeyExchange
