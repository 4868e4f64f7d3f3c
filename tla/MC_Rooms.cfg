SPECIFICATION MCSpec
CONSTANTS
    w = w
    m = m
    a = a
    u = u
    v = v
    c1 = c1
    c2 = c2
    p = p
    r1 = r1
    r2 = r2
    r3 = r3
    r4 = r4
    Client = {w, m}
    User = {a, u, v}
    Chat = {c1, c2}
    Project = {p}
    Request = {r1, r2, r3, r4}
    PageSize = 1
    Mortal = {c1}
    Drops = {w}
    UserOf <- MCUserOf
    ProjectOf <- MCProjectOf
    Admin <- MCAdmin
    Participant <- MCParticipant
    Owner <- MCOwner
    Plan <- MCPlan
INVARIANTS
    TypeOK
    RoomForAReason
    NothingMissed
    MissedOnlyBeyondList
    ClosedRoomHearsOnly
    SkippedOnlyIfMoved
CHECK_DEADLOCK FALSE
