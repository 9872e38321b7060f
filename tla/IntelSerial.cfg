SPECIFICATION Spec
CONSTANTS
    Cve = {c1, c2}
    Thread = {t1, t2}
    Relevant = {c1}
    Cvss = {0, 9}
    MaxSyncs = 2
    Overlap = FALSE
    None = None
SYMMETRY Symmetry
INVARIANTS TypeOK HistoryCurrent PriorityCurrent OneOpenReview
PROPERTIES KevReviewed
CHECK_DEADLOCK FALSE
