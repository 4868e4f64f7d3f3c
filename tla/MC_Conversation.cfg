CONSTANTS
    User = {"admin", "member", "outsider"}
    Chat = {"c1"}
    Request = {r1, r2}
    Ask <- MC_Any
    Admin <- MC_Admin
    Participant <- MC_Participant
    SpamLimit = 1
SPECIFICATION Spec
SYMMETRY Symmetry
INVARIANTS TypeOK SpamExcessOverlaps ClosedStaysQuiet ReceiptsHold PushFollowsPresence BroadcastFollowsLog
PROPERTY KeepsPromise
