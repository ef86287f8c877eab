CONSTANTS
    Server = {s1}
    Firewall = {f1}
    Client = {c1}
    None = None
    MaxFailures = 0
    ListenAddr <- SharedListen
    TargetAddr <- Target

SPECIFICATION DemoSpec

CHECK_DEADLOCK FALSE

INVARIANT FirewallAwaitsServer
