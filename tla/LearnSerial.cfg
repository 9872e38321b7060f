SPECIFICATION Spec
CONSTANTS
    Session = {s1, s2}
    Objective = {o1}
    Worker = {w1, w2}
    Modes = {"guided", "assessment"}
    HintCosts <- TwoHints
    Limit = 2
    MaxSubmissions = 2
    MaxMinutes = 1
    Overlap = FALSE
    None = None
SYMMETRY Symmetry
INVARIANTS TypeOK FinalScoreStands HintsInOrder 
PROPERTIES SolvesCharged
CHECK_DEADLOCK FALSE
