CONSTANTS
    User = {"u1", "u2"}
    Socket = {"tab1", "tab2", "phone2"}
    Mobile = {"phone2"}
    Owner <- MC_Owner
SPECIFICATION Spec
INVARIANT NoClosedSocketRegistered
