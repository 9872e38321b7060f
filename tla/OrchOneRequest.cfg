SPECIFICATION Spec
CONSTANTS
    Session = {s1, s2}
    Worker = {w1, w2}
    Reaper = reaper
    Port = {p1, p2}
    NTargets = 1
    NetTries = 2
    Faults = {"remove", "start", "crash"}
    MaxFaults = 1
    Expiry = "never"
    QuickSweep = TRUE
    Overlap = FALSE
    None = None
SYMMETRY Symmetry
INVARIANTS LeaseCoversBuild LeaseWhole
