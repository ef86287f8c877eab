CONSTANTS
    MaxGen = 2
    ByHand = {"server", "firewall"}
    Absent = Absent
    Torn = Torn

SPECIFICATION Spec

CHECK_DEADLOCK FALSE

INVARIANT TypeOK
INVARIANT DirectoryOfOneGeneration
INVARIANT UndisturbedLoad
INVARIANT ReadyMeansMatched
