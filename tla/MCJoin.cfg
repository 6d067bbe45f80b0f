SPECIFICATION Spec
CONSTANTS
    m1 = m1
    m2 = m2
    j1 = j1
    j2 = j2
    Member = {m1, m2}
    Newcomer = {j1, j2}
    Malformed = {j2}
    MaxRetryJoin = 1
    MaxStarts = 1
    MaxStrays = 1
INVARIANTS
    TypeOK
    AdmittedOnce
    ChallengeIsCurrent
SYMMETRY MCSymmetry
CHECK_DEADLOCK FALSE
