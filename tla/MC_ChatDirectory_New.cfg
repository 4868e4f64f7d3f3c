CONSTANTS
    Project = {p1, p2}
    Admin = {"owner", "other"}
    Person = {"u1"}
    Owner <- OneOwner
    Request = {r1, r2}
    Nobody = Nobody
SPECIFICATION Spec
SYMMETRY Symmetry
INVARIANT NewMeansCreated
CHECK_DEADLOCK FALSE
