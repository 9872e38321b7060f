SPECIFICATION Spec
CONSTANTS
    Cve = {c1}
    Thread = {t1}
    Relevant = {c1}
    Cvss = {0, 9}
    MaxSyncs = 2
    Overlap = FALSE
    None = None

PROPERTIES KevRaises
CHECK_DEADLOCK FALSE
