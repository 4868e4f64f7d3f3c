CONSTANTS
    User = {"admin", "member"}
    Chat = {"c1"}
    Request = {r1, r2, r3}
    Ask <- MC_Send
    Admin <- MC_Admin
    Participant <- MC_Participant
    SpamLimit = 1
SPECIFICATION Spec
SYMMETRY Symmetry
PROPERTY TimedOutSendsNothing
