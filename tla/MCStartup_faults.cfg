CONSTANTS
    Server = {s1, s2}
    Firewall = {f1, f2}
    Client = {c1, c2}
    None = None
    MaxFailures = 2
    ListenAddr <- SharedListen
    TargetAddr <- Target

SPECIFICATION Spec

SYMMETRY Symmetry

CHECK_DEADLOCK FALSE

INVARIANT TypeOK
INVARIANT SessionChain
INVARIANT QuietMeansServed
INVARIANT QuietMeansEndsNoticed
INVARIANT QuietMeansSession
