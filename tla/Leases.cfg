SPECIFICATION Spec
CONSTANTS
    first = first
    second = second
    http = http
    xss = xss
    csrf = csrf
    c1 = c1
    c2 = c2
    Files <- MCFiles
    Lab = {http, xss, csrf}
    Content = {c1, c2}
    Drafts <- MCDrafts
    MaxTtl = 2
    AllowUnsigned = FALSE
    AllowDevDigests = FALSE
    MaxEdits = 1
    MaxCrashes = 1
    Session = {s1}
    Port = {p1, p2}
    Cap = 1
    MaxExtend = 2
    MaxLate = 1
    None = None
INVARIANTS TypeOK CatalogueCurrent  
PROPERTIES AllOrNothing ComesUp
CHECK_DEADLOCK FALSE
