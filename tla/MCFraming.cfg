CONSTANTS
    small = small
    empty = empty
    long = long
    Message <- MCMessage
    SizeOf <- MCSizeOf
    Prefix = 2
    Modulus = 5
    Capacity = 3
    MaxSent = 4

SPECIFICATION FairSpec

CHECK_DEADLOCK FALSE

INVARIANT TypeOK
INVARIANT FailureHasCause
INVARIANT QuietMeansReceived
PROPERTY ImplementsFrameChannel
PROPERTY EverySendSettles
