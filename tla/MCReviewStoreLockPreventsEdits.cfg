\* Two variances, one of them a summary, two users and one typed text; the lock
\* lives two ticks of a clock that runs three.
SPECIFICATION Spec
CONSTANTS
    v1 = v1
    v2 = v2
    u1 = u1
    u2 = u2
    Variances = {v1, v2}
    Parents = {v1}
    Users = {u1, u2}
    NoUser = NoUser
    Analyst = Analyst
    Director = Director
    Texts = {typed}
    NoText = NoText
    RegenText = RegenText
    LockTicks = 2
    MaxClock = 3
    MaxVersion <- FewVersions
SYMMETRY UserSymmetry
PROPERTY LockPreventsEdits
