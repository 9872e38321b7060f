SPECIFICATION FairSpec
CONSTANTS
    Session = {s1}
    Worker = {w1}
    Reaper = reaper
    Port = {p1, p2}
    NTargets = 2
    NetTries = 2
    Faults = {"remove", "network", "create", "start", "crash"}
    MaxFaults = 1
    Expiry = "any"
    QuickSweep = FALSE
    Overlap = TRUE
    None = None
PROPERTIES  OrphanSwept
