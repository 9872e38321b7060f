SPECIFICATION Spec
CONSTANTS
    teacher = teacher
    learner = learner
    User = {teacher, learner}
    Worker = {w1, w2}
    Team = {t1}
    Assignment = {a1}
    Contest = {c1}
    Code = {k1}
    Session = {s1, s2}
    Lab = {l1}
    Body = {b1, b2}
    RoleOf <- MCRoleOf
    OwnerOf <- MCOwnerOf
    LabOf <- MCLabOf
    Worth = {1}
    MaxEarned = 1
    MaxFindings = 1
    Overlap = FALSE
    None = None
SYMMETRY Symmetries
INVARIANTS
    TypeOK OwnSubmissions CertificatesBacked TotalsEarned OneRowEach NotesReadBack
CHECK_DEADLOCK FALSE
