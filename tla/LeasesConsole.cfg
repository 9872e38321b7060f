SPECIFICATION Spec
CONSTANTS
    first = first
    second = second
    http = http
    xss = xss
    csrf = csrf
    c1 = c1
    c2 = c2
    Files <- MCFiles
    Lab = {http, xss, csrf}
    Content = {c1, c2}
    Drafts <- MCDrafts
    MaxTtl = 2
    AllowUnsigned = FALSE
    AllowDevDigests = FALSE
    MaxEdits = 0
    MaxCrashes = 0
    Session = {s1, s2}
    Port = {p1}
    Cap = 1
    MaxExtend = 0
    MaxLate = 1
    None = None
INVARIANTS ConsoleStaysHome
CHECK_DEADLOCK FALSE
