\* The instance of MCAsyncReviewStore.cfg, for what the bulk approval persists.
SPECIFICATION Spec
CONSTANTS
    v1 = v1
    v2 = v2
    c1 = c1
    c2 = c2
    Variances = {v1, v2}
    Parents = {v1}
    Users = {u1}
    NoUser = NoUser
    Analyst = Analyst
    Director = Director
    Texts = {typed}
    NoText = NoText
    RegenText = RegenText
    MaxVersion <- FewVersions
    Calls = {c1, c2}
    BulkLists <- MCBulkLists
    AwareTimesStored = TRUE
    Absent = Absent
SYMMETRY CallSymmetry
INVARIANT DbApprovalEarned
