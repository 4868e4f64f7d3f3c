SPECIFICATION MCSpec
CONSTANTS
    r1 = r1
    r2 = r2
    r3 = r3
    r4 = r4
    p1 = p1
    p2 = p2
    p3 = p3
    u1 = u1
    u2 = u2
    u3 = u3
    a1 = a1
    a2 = a2
    x1 = x1
    x2 = x2
    e1 = e1
    c1 = c1
    c2 = c2
    c3 = c3
    c4 = c4
    t1 = t1
    t2 = t2
    NoEmail = NoEmail
    Nobody = Nobody
    Request = {r1, r2, r3, r4}
    Project = {p1, p2, p3}
    Uid = {u1, u2, u3}
    Admin = {a1, a2}
    Person = {x1, x2}
    Email = {e1}
    Plan <- MCPlan
    Call = {c1, c2, c3, c4}
    Token = {t1, t2}
    CallPlan <- MCCallPlan
    Chunk = 1
INVARIANTS
    TypesOK
    AnsweredForAReason
    RefusedLeavesNoTrace
    TotalFits
    RegisteredStays
    PushedOnlyToRegistered
    InvalidSilenced
CHECK_DEADLOCK FALSE
