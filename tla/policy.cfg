SPECIFICATION MCSpec
CONSTANTS
    a1 = a1
    k1 = k1
    r1 = r1
    r2 = r2
    k2 = k2
    c1 = c1
    c2 = c2
    o1 = o1
    o2 = o2
    s1 = s1
    Agents = {a1}
    Tokens = {k1, k2}
    TokenAgent <- OneAgent
    Surfaces = {s1}
    Calls <- MixedCalls
    Approvals <- MixedApprovals
    Reqs = {r1, r2}
    Callers = {c1, c2}
    Operators = {o1, o2}
    MaxRestarts = 1
    None = None
SYMMETRY Symmetry
INVARIANTS TypeOK OnceGrantUsedOnce OnePendingPerKey ResolutionAnnouncedOnce AuditMatchesHistory
PROPERTIES RevokedOnceGrantUnused DecisionIsFinal
