CONSTANTS
    Server = {s1}
    Firewall = {f1, f2}
    Client = {c1, c2}
    None = None
    MaxFailures = 1
    ListenAddr <- SharedListen
    TargetAddr <- Target

SPECIFICATION FairSpec

CHECK_DEADLOCK FALSE

PROPERTY NobodyLeftWaiting
PROPERTY EndTravels
PROPERTY ServedIsEstablished
