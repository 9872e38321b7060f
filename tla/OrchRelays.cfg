SPECIFICATION Spec
CONSTANTS
    Session = {s1}
    Worker = {w1, w2}
    Reaper = reaper
    Port = {p1, p2}
    NTargets = 1
    NetTries = 1
    Faults = {"list", "remove", "network", "create", "start", "crash"}
    MaxFaults = 1
    Expiry = "idle"
    QuickSweep = FALSE
    Overlap = TRUE
    None = None
SYMMETRY Symmetry
INVARIANTS TypeOK RelayOwnership RelaysBacked
PROPERTIES KeepsPool
