------------------------------ MODULE MC_Rooms ------------------------------
(* An administrator's browser w and a participant's phone m; the participant *)
(* has the chat c1, another one has or may get the chat c2.                 *)
EXTENDS Rooms, TLC

CONSTANTS w, m, a, u, v, c1, c2, p, r1, r2, r3, r4

MCUserOf == w :> a @@ m :> u
MCProjectOf == [c \in Chat |-> p]
MCAdmin == [c \in Chat |-> a]
MCParticipant == c1 :> u @@ c2 :> v
MCOwner == p :> a

Web(op)   == [op |-> op, client |-> w, chat |-> c1]
Other(op) == [op |-> op, client |-> w, chat |-> c2]
Phone(op) == [op |-> op, client |-> m, chat |-> c1]
None      == [op |-> "none", client |-> w, chat |-> c1]
MCPlan == {r1 :> t[1] @@ r2 :> t[2] @@ r3 :> t[3] @@ r4 :> t[4] : t \in {
    \* joining, leaving and typing
    <<Web("joinChat"), Web("leaveChat"), Web("typing"), Web("joinChat")>>,
    <<Web("joinAllChats"), Web("leaveChat"), Other("sendMessage"), None>>,
    <<Phone("mobileJoinChat"), Phone("mobileLeaveChat"), Web("participantStatusTo"), None>>,
    <<Web("joinChat"), Web("chatUpdate"), Web("messageUpdate"), None>>,
    <<Phone("mobileJoinChat"), Web("joinProjectChats"), Web("participantStatusUpdate"), None>>,
    \* hearing of and reading messages
    <<Web("joinChat"), Web("sendMessage"), Web("getMessages"), None>>,
    <<Phone("mobileJoinChat"), Phone("mobileSendMessage"), Phone("createMessage"), Phone("getMessages")>>,
    <<Web("joinAllChats"), Web("sendBroadcast"), None, None>>,
    <<Web("joinAllChats"), Phone("mobileSendMessage"), Web("createMessage"), None>>,
    \* the list of chats
    <<Web("getChats"), Web("markAsRead"), Other("sendMessage"), None>>,
    <<Web("getChats"), Web("sendBroadcast"), None, None>>}}

\* c1 has been there for longer than c2, or c2 is not there yet where a
\* request may need it.
MCInit ==
    /\ Init
    /\ row[c1] = "active" /\ place[c1] = 1
    /\ \A r \in Request : Op(r) \in {"getMessages", "chatUpdate", "leaveChat"} => row[c2] = "active"

MCSpec == MCInit /\ [][Next]_vars
=============================================================================
