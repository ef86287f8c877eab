CONSTANTS
    Server = {s1}
    Firewall = {f1, f2}
    Client = {c1, c2}
    None = None
    MaxFailures = 1
    ListenAddr <- OwnListen
    TargetAddr <- OwnTarget

SPECIFICATION FairSpec

CHECK_DEADLOCK FALSE

INVARIANT SessionChain
INVARIANT QuietMeansEndsNoticed
PROPERTY EndTravels
