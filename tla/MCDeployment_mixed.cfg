CONSTANTS
    MaxGen = 2
    ByHand = {"client"}
    Absent = Absent
    Torn = Torn

SPECIFICATION Spec

CHECK_DEADLOCK FALSE

INVARIANT KeysFromCertificates
