SPECIFICATION Spec
CONSTANTS
    Session = {s1, s2}
    User = {u1}
    Worker = {w1, w2}
    Key = {k1}
    Seed = {f1, f2, f3}
    PerUser = 1
    PerGlobal = 1
    MaxExtend = 1
    Faults = {"refuse"}
    MaxFaults = 1
    Overlap = FALSE
    None = None
SYMMETRY Symmetry
INVARIANTS TypeOK  
