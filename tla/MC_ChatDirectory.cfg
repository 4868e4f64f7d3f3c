CONSTANTS
    Project = {p1, p2}
    Admin = {"owner", "other"}
    Person = {"u1"}
    Owner <- OneOwner
    Request = {r1, r2}
    Nobody = Nobody
SPECIFICATION Spec
SYMMETRY Symmetry
INVARIANTS TypeOK SameChat NewMeansRecent ChatsFollowParents MobileChatHasMember
PROPERTY KeepsPromise
CHECK_DEADLOCK FALSE
