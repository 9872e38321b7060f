SPECIFICATION Spec
CONSTANTS
    Session = {s1, s2}
    User = {u1}
    Worker = {w1}
    Key = {k1}
    Seed = {f1, f2, f3, f4}
    PerUser = 1
    PerGlobal = 2
    MaxExtend = 1
    Faults = {"timeout", "unreachable", "refuse"}
    MaxFaults = 1
    Overlap = TRUE
    None = None
SYMMETRY Symmetry
INVARIANTS  OneSessionPerKey
 
