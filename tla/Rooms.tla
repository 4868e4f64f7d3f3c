------------------------------- MODULE Rooms -------------------------------
(***************************************************************************)
(* How clients follow their chats: the socket.io rooms chat_<id> that the  *)
(* handlers of ChatGateway join and leave, what is broadcast into them,    *)
(* the lists of chats and the pages of messages a client reads to catch    *)
(* up, and the broadcast of one message to all participants of a project.  *)
(*                                                                         *)
(* A request is made by a client, which has one socket and whose user may  *)
(* also call the HTTP endpoints; pc[r] names what request r waits for.  A  *)
(* request may stop there for ever, as when the process dies.  A message   *)
(* is <<r, c>>: request r stores at most one in chat c.                    *)
(***************************************************************************)
EXTENDS Naturals, FiniteSets, Sequences, Functions

CONSTANTS
    Client,
    User,
    UserOf,       \* the user each client's token or handshake names
    Chat,         \* one per project, administrator and participant
    Project,
    ProjectOf, Admin, Participant,  \* columns of each chat
    Owner,        \* Project.userId
    Request,
    Plan,         \* bound: what the requests ask of which chat, by which client
    Mortal,       \* bound: the chats that may be deactivated and deleted
    Drops,        \* bound: the clients whose socket may close
    PageSize      \* default limit of the lists: 20 in the code

SocketSends == {"sendMessage", "mobileSendMessage"}
Sends == SocketSends \cup {"createMessage", "sendBroadcast"}
\* Handlers that act as soon as their client is identified.
Immediate == {"leaveChat", "typing", "participantStatusTo", "mobileJoinChat", "mobileLeaveChat"}
Leaves    == {"leaveChat", "mobileLeaveChat"}
Listing   == {"joinAllChats", "joinProjectChats", "participantStatusUpdate", "getChats"}
Looking   == {"joinChat", "chatUpdate", "messageUpdate", "markAsRead", "getMessages"}
Http      == {"createMessage", "sendBroadcast", "getMessages", "getChats"}
\* "none" is a request nobody makes.
Operation == Sends \cup Immediate \cup Listing \cup Looking \cup {"none"}

ASSUME RoomsAssumption ==
    /\ UserOf \in [Client -> User]
    /\ ProjectOf \in [Chat -> Project]
    /\ Admin \in [Chat -> User] /\ Participant \in [Chat -> User]
    /\ Owner \in [Project -> User]
    /\ Plan \subseteq [Request -> [op : Operation, client : Client, chat : Chat]]
    /\ IsFiniteSet(Chat) /\ Chat # {} /\ Mortal \subseteq Chat /\ Drops \subseteq Client
    /\ PageSize \in Nat \ {0}

VARIABLES
    up,       \* clients whose socket is open
    room,     \* the chats whose room each client's socket is in
    row,      \* Chat row: "absent", isActive, or "gone" once deleted
    place,    \* how many rows have a later updatedAt
    log,      \* Message rows in order of insertion (createdAt)
    heard,    \* <<r, c>>: the client received what request r emitted about c
    req,      \* what each request asks, an element of Plan
    pc,
    chat,     \* the chat a request works on
    list,     \* chats a request has found, or whose message it has created
    todo,     \* broadcast: the participants, as their chats, still to be served
    page,     \* getMessages: the messages found
    offset,   \* getChats: how many chats the client skips next
    began,    \* history: the requests that had been answered when r began
    past,     \* history: row when r began
    steady,   \* history: requests whose client has left no room since
    bumped,   \* history: chats whose updatedAt moved while r read the list
    shrunk    \* history: requests during which a chat left the lists

sockets == <<up, room, heard>>
rows    == <<row, place, log>>
ask     == <<req, began, past>>
work    == <<chat, list, todo, page, offset>>
notes   == <<steady, bumped, shrunk>>
vars    == <<sockets, rows, ask, work, notes, pc>>

Awaiting == {"auth", "find", "list", "count", "page", "participants", "next",
             "insert", "touch", "push"}

TypeOK ==
    /\ up \subseteq Client
    /\ room \in [Client -> SUBSET Chat]
    /\ row \in [Chat -> {"absent", "active", "inactive", "gone"}]
    /\ place \in [Chat -> Nat]
    /\ \A c, d \in Chat : place[c] = place[d] => c = d
    /\ log \in Seq(Request \X Chat)
    /\ heard \in [Client -> SUBSET (Request \X Chat)]
    /\ req \in Plan
    /\ pc \in [Request -> {"idle", "done", "failed"} \cup Awaiting]
    /\ chat \in [Request -> Chat]
    /\ list \in [Request -> SUBSET Chat]
    /\ todo \in [Request -> SUBSET Chat]
    /\ page \in [Request -> SUBSET (Request \X Chat)]
    /\ offset \in [Request -> Nat]
    /\ began \in [Request -> SUBSET Request]
    /\ past \in [Request -> [Chat -> {"absent", "active", "inactive", "gone"}]]
    /\ steady \subseteq Request /\ shrunk \subseteq Request
    /\ bumped \in [Request -> SUBSET Chat]

-----------------------------------------------------------------------------
Op(r)   == req[r].op
By(r)   == req[r].client
Who(r)  == UserOf[req[r].client]
Members(c) == {Admin[c], Participant[c]}
Exists(c)  == row[c] \in {"active", "inactive"}
Served(r)  == pc[r] \in {"done", "failed"}

Goes(r, from, to) == pc[r] = from /\ pc' = [pc EXCEPT ![r] = to]

ChatsOf(u) == {c \in Chat : row[c] = "active" /\ u \in Members(c)}

ProjectChatsOf(p, u) == {c \in Chat : row[c] = "active" /\ ProjectOf[c] = p /\ Admin[c] = u}

\* Mutation: pages are counted from 1.
MutSlice(S, skip) ==
    {c \in S : Cardinality({d \in S : place[d] < place[c]}) \in skip + 1 .. skip + PageSize}

\* orderBy updatedAt desc, skip, take.
Slice(S, skip) ==
    {c \in S : Cardinality({d \in S : place[d] < place[c]}) \in skip .. skip + PageSize - 1}

Stored == {m \in Range(log) : Exists(m[2])}

Newer(m) == {n \in Stored : n[2] = m[2] /\
                \E i, j \in DOMAIN log : i < j /\ log[i] = m /\ log[j] = n}

LatestOf(c) == {m \in Stored : m[2] = c /\ Cardinality(Newer(m)) < PageSize}

\* Mutation: the row does not move to the front, the others move back.
MutLater(c) == [d \in Chat |-> IF d = c THEN place[c] ELSE place[d] + 1]

\* Row c gets the latest updatedAt.
Later(c) == [d \in Chat |-> IF d = c THEN 0
                            ELSE IF place[d] < place[c] THEN place[d] + 1 ELSE place[d]]

Bump(c) ==
    /\ place' = Later(c)
    /\ bumped' = [r \in Request |->
          IF Op(r) = "getChats" /\ pc[r] \in {"auth", "list"} THEN bumped[r] \cup {c}
          ELSE bumped[r]]

\* What request r emits about the chats C reaches the clients S that are in
\* the rooms of those chats.
Emit(r, C, S) ==
    heard' = [k \in Client |->
        IF k \in S THEN heard[k] \cup ({r} \X (C \cap room[k])) ELSE heard[k]]

\* join on a socket that has closed does nothing.
Enter(k, C) == room' = IF k \in up THEN [room EXCEPT ![k] = @ \cup C] ELSE room

\* Client k is no longer in the rooms C.
Quit(k, C) ==
    /\ room' = [room EXCEPT ![k] = @ \ C]
    /\ steady' = {r \in steady : By(r) # k}

Init ==
    /\ up = Client
    /\ room = [k \in Client |-> {}]
    /\ row \in [Chat -> {"absent", "active"}]
    /\ place \in [Chat -> 0 .. Cardinality(Chat) - 1]
    /\ \A c, d \in Chat : place[c] = place[d] => c = d
    /\ log = <<>>
    /\ heard = [k \in Client |-> {}]
    /\ req \in Plan
    /\ pc = [r \in Request |-> "idle"]
    /\ chat = [r \in Request |-> req[r].chat]
    /\ list = [r \in Request |-> {}]
    /\ todo = [r \in Request |-> {}]
    /\ page = [r \in Request |-> {}]
    /\ offset = [r \in Request |-> 0]
    /\ began = [r \in Request |-> {}]
    /\ past = [r \in Request |-> row]
    /\ steady = {} /\ shrunk = {}
    /\ bumped = [r \in Request |-> {}]

-----------------------------------------------------------------------------
(* Any request.  The handlers of the back office verify the token, those   *)
(* of the phones look the participant up and compare.                      *)

Begin(r) ==
    /\ Goes(r, "idle", "auth")
    /\ Op(r) # "none"
    /\ Op(r) \in Http \/ By(r) \in up
    /\ steady' = IF Op(r) = "getMessages" /\ chat[r] \in room[By(r)]
                 THEN steady \cup {r} ELSE steady
    /\ began' = IF Op(r) \in Sends \cup Leaves
                THEN [began EXCEPT ![r] = {q \in Request : Served(q)}] ELSE began
    /\ past' = IF Op(r) \in Immediate \cup {"getMessages"} THEN past ELSE [past EXCEPT ![r] = row]
    /\ UNCHANGED <<sockets, rows, req, work, bumped, shrunk>>

Identified(r) ==
    /\ Op(r) \notin Immediate
    /\ Goes(r, "auth", CASE Op(r) \in Looking -> "find"
                         [] Op(r) \in Listing -> "list"
                         [] Op(r) = "sendBroadcast" -> "participants"
                         [] OTHER -> "find")
    /\ UNCHANGED <<sockets, rows, ask, work, notes>>

\* Refused, or a statement, or the push service, throws.  In the loop of a
\* broadcast that costs one participant only (Skip).
Fail(r) ==
    /\ pc[r] \in Awaiting
    /\ Op(r) = "sendBroadcast" => pc[r] \in {"auth", "participants"}
    /\ pc' = [pc EXCEPT ![r] = "failed"]
    /\ UNCHANGED <<sockets, rows, ask, work, notes>>

-----------------------------------------------------------------------------
(* Joining and leaving                                                     *)

\* getChatById: the chat exists and the user is one of its members.
ChatAllowed(r) ==
    /\ Op(r) \in Looking
    /\ Exists(chat[r]) /\ Who(r) \in Members(chat[r])
    /\ Goes(r, "find", IF Op(r) = "getMessages" THEN "page" ELSE "count")
    /\ UNCHANGED <<sockets, rows, ask, work, notes>>

\* Mutation: the chat is not looked up.
MutJoinUnchecked(r) ==
    /\ Op(r) = "joinChat"
    /\ pc[r] \in {"find", "count"}
    /\ pc' = [pc EXCEPT ![r] = "done"]
    /\ Enter(By(r), {chat[r]})
    /\ Emit(r, {chat[r]}, Client \ {By(r)})
    /\ UNCHANGED <<up, rows, ask, work, notes>>

JoinChat(r) ==
    /\ Op(r) = "joinChat"
    /\ Goes(r, "count", "done")
    /\ Enter(By(r), {chat[r]})
    /\ Emit(r, {chat[r]}, Client \ {By(r)})
    /\ UNCHANGED <<up, rows, ask, work, notes>>

\* No look at the chat here.
MobileJoinChat(r) ==
    /\ Op(r) = "mobileJoinChat"
    /\ Goes(r, "auth", "done")
    /\ Enter(By(r), {chat[r]})
    /\ Emit(r, {chat[r]}, Client \ {By(r)})
    /\ UNCHANGED <<up, rows, ask, work, notes>>

ListChats(r) ==
    /\ Op(r) \in {"joinAllChats", "participantStatusUpdate"}
    /\ Goes(r, "list", "count")
    /\ list' = [list EXCEPT ![r] = Slice(ChatsOf(Who(r)), 0)]
    /\ UNCHANGED <<sockets, rows, ask, chat, todo, page, offset, notes>>

ListProjectChats(r) ==
    /\ Op(r) = "joinProjectChats"
    /\ Goes(r, "list", "count")
    /\ list' = [list EXCEPT ![r] = Slice(ProjectChatsOf(ProjectOf[chat[r]], Who(r)), 0)]
    /\ UNCHANGED <<sockets, rows, ask, chat, todo, page, offset, notes>>

\* The answer tells the client which rooms it is in.
JoinAllChats(r) ==
    /\ Op(r) = "joinAllChats"
    /\ Goes(r, "count", "done")
    /\ Enter(By(r), list[r])
    /\ steady' = IF By(r) \in up THEN steady \cup {r} ELSE steady
    /\ UNCHANGED <<up, heard, rows, ask, work, bumped, shrunk>>

JoinProjectChats(r) ==
    /\ Op(r) = "joinProjectChats"
    /\ Goes(r, "count", "done")
    /\ Enter(By(r), list[r])
    /\ UNCHANGED <<up, heard, rows, ask, work, notes>>

\* Mutation: the others are told, the socket stays in the room.
MutLeaveChat(r) ==
    /\ Op(r) = "leaveChat"
    /\ Goes(r, "auth", "done")
    /\ Emit(r, {chat[r]}, Client \ {By(r)})
    /\ UNCHANGED <<up, room, rows, ask, work, notes>>

LeaveChat(r) ==
    /\ Op(r) = "leaveChat"
    /\ Goes(r, "auth", "done")
    /\ Quit(By(r), {chat[r]})
    /\ Emit(r, {chat[r]}, Client \ {By(r)})
    /\ UNCHANGED <<up, rows, ask, work, bumped, shrunk>>

MobileLeaveChat(r) ==
    /\ Op(r) = "mobileLeaveChat"
    /\ Goes(r, "auth", "done")
    /\ Quit(By(r), {chat[r]})
    /\ Emit(r, {chat[r]}, Client \ {By(r)})
    /\ UNCHANGED <<up, rows, ask, work, bumped, shrunk>>

-----------------------------------------------------------------------------
(* What clients tell the rooms                                             *)

Tells(r, from, C) ==
    /\ Goes(r, from, "done")
    /\ Emit(r, C, Client)
    /\ UNCHANGED <<up, room, rows, ask, work, notes>>

Typing(r) == Op(r) = "typing" /\ Tells(r, "auth", {chat[r]})

ChatUpdate(r) == Op(r) = "chatUpdate" /\ Tells(r, "count", {chat[r]})

MessageUpdate(r) == Op(r) = "messageUpdate" /\ Tells(r, "count", {chat[r]})

\* With chatIds, and without.
ParticipantStatusTo(r) == Op(r) = "participantStatusTo" /\ Tells(r, "auth", {chat[r]})

\* markChatAsRead: clearing unreadCount moves updatedAt.  Then the room is told.
ReadChat(r) ==
    /\ Op(r) = "markAsRead"
    /\ Exists(chat[r])
    /\ Goes(r, "count", "push")
    /\ Bump(chat[r])
    /\ UNCHANGED <<sockets, row, log, ask, work, steady, shrunk>>

MarkAsRead(r) == Op(r) = "markAsRead" /\ Tells(r, "push", {chat[r]})

ParticipantStatusUpdate(r) ==
    Op(r) = "participantStatusUpdate" /\ Tells(r, "count", list[r])

-----------------------------------------------------------------------------
(* Sending: createMessage once, or for each participant of a broadcast.    *)
(* The spam check is Conversation's; here it is one of the ways to fail.   *)

\* verifyProjectOwnership and findParticipantsByProjectId.
FindParticipants(r) ==
    /\ Op(r) = "sendBroadcast"
    /\ Owner[ProjectOf[chat[r]]] = Who(r)
    /\ Goes(r, "participants", "next")
    /\ todo' = [todo EXCEPT ![r] = {c \in Chat :
          row[c] # "gone" /\ ProjectOf[c] = ProjectOf[chat[r]] /\ Admin[c] = Who(r)
          /\ Participant[c] # Who(r)}]
    /\ UNCHANGED <<sockets, rows, ask, chat, list, page, offset, notes>>

\* getOrCreateChat for the next participant; a deleted project or user
\* brings no chat back.
OpenChat(r) ==
    /\ Goes(r, "next", "find")
    /\ \E c \in todo[r] :
          /\ row[c] # "gone"
          /\ chat' = [chat EXCEPT ![r] = c]
          /\ todo' = [todo EXCEPT ![r] = @ \ {c}]
          /\ IF row[c] = "absent"
             THEN row' = [row EXCEPT ![c] = "active"] /\ Bump(c)
             ELSE UNCHANGED <<row, place, bumped>>
    /\ UNCHANGED <<sockets, log, ask, list, page, offset, steady, shrunk>>

\* Mutation: isActive is not looked at.
MutAdmit(r) ==
    /\ Op(r) \in Sends
    /\ Exists(chat[r]) /\ Who(r) \in Members(chat[r])
    /\ Goes(r, "find", "insert")
    /\ UNCHANGED <<sockets, rows, ask, work, notes>>

Admit(r) ==
    /\ Op(r) \in Sends
    /\ row[chat[r]] = "active" /\ Who(r) \in Members(chat[r])
    /\ Goes(r, "find", "insert")
    /\ UNCHANGED <<sockets, rows, ask, work, notes>>

StoreMessage(r) ==
    /\ Exists(chat[r])
    /\ Goes(r, "insert", "touch")
    /\ log' = Append(log, <<r, chat[r]>>)
    /\ UNCHANGED <<sockets, row, place, ask, work, notes>>

TouchChat(r) ==
    /\ Exists(chat[r])
    /\ Goes(r, "touch", "push")
    /\ Bump(chat[r])
    /\ UNCHANGED <<sockets, row, log, ask, work, steady, shrunk>>

\* Mutation: the room but for the sender.
MutToOthers(r) ==
    /\ Op(r) = "sendMessage"
    /\ Goes(r, "push", "done")
    /\ Emit(r, {chat[r]}, Client \ {By(r)})
    /\ UNCHANGED <<up, room, rows, ask, work, notes>>

\* createMessage has returned: the room hears of the message.
SendMessage(r) == Op(r) = "sendMessage" /\ Tells(r, "push", {chat[r]})

MobileSendMessage(r) == Op(r) = "mobileSendMessage" /\ Tells(r, "push", {chat[r]})

\* Over HTTP the room hears of it, and once more everybody does.
TellAll(r, C) == heard' = [k \in Client |-> IF k \in up THEN heard[k] \cup ({r} \X C) ELSE heard[k]]

CreateMessage(r) ==
    /\ Op(r) = "createMessage"
    /\ Goes(r, "push", "done")
    /\ TellAll(r, {chat[r]})
    /\ UNCHANGED <<up, room, rows, ask, work, notes>>

\* A participant's message is created, or its failure is logged and forgotten.
BroadcastOne(r) ==
    /\ Op(r) = "sendBroadcast"
    /\ Goes(r, "push", "next")
    /\ list' = [list EXCEPT ![r] = @ \cup {chat[r]}]
    /\ UNCHANGED <<sockets, rows, ask, chat, todo, page, offset, notes>>

Skip(r) ==
    /\ Op(r) = "sendBroadcast"
    /\ \/ /\ pc[r] \in {"find", "insert", "touch", "push"}
          /\ pc' = [pc EXCEPT ![r] = "next"]
          /\ UNCHANGED todo
       \/ /\ pc[r] = "next"
          /\ \E c \in todo[r] : todo' = [todo EXCEPT ![r] = @ \ {c}]
          /\ UNCHANGED pc
    /\ UNCHANGED <<sockets, rows, ask, chat, list, page, offset, notes>>

SendBroadcast(r) ==
    /\ todo[r] = {}
    /\ Goes(r, "next", "done")
    /\ TellAll(r, list[r])
    /\ UNCHANGED <<up, room, rows, ask, work, notes>>

-----------------------------------------------------------------------------
(* Catching up                                                             *)

FindMessages(r) ==
    /\ Goes(r, "page", "count")
    /\ page' = [page EXCEPT ![r] = LatestOf(chat[r])]
    /\ UNCHANGED <<sockets, rows, ask, chat, list, todo, offset, notes>>

GetMessages(r) ==
    /\ Op(r) = "getMessages"
    /\ Goes(r, "count", "done")
    /\ UNCHANGED <<sockets, rows, ask, work, notes>>

\* Mutation: the next page skips one chat too many.
MutGetChats(r) ==
    /\ Op(r) = "getChats"
    /\ LET found == Slice(ChatsOf(Who(r)), offset[r]) IN
          /\ Goes(r, "list", IF found = {} THEN "done" ELSE "list")
          /\ list' = [list EXCEPT ![r] = @ \cup found]
    /\ offset' = [offset EXCEPT ![r] = @ + PageSize + 1]
    /\ UNCHANGED <<sockets, rows, ask, chat, todo, page, notes>>

\* A client reads the list of chats page by page until one is empty.
GetChats(r) ==
    /\ Op(r) = "getChats"
    /\ LET found == Slice(ChatsOf(Who(r)), offset[r]) IN
          /\ Goes(r, "list", IF found = {} THEN "done" ELSE "list")
          /\ list' = [list EXCEPT ![r] = @ \cup found]
    /\ offset' = [offset EXCEPT ![r] = @ + PageSize]
    /\ UNCHANGED <<sockets, rows, ask, chat, todo, page, notes>>

-----------------------------------------------------------------------------
(* The rest of the system                                                  *)

\* The socket closes and leaves all its rooms.
Disconnect(k) ==
    /\ k \in up
    /\ up' = up \ {k}
    /\ Quit(k, Chat)
    /\ UNCHANGED <<heard, rows, ask, work, pc, bumped, shrunk>>

Shrink == shrunk' = shrunk \cup {r \in Request : Op(r) = "getChats" /\ pc[r] \in {"auth", "list"}}

\* deactivateChat
ChatClosed(c) ==
    /\ row[c] = "active"
    /\ row' = [row EXCEPT ![c] = "inactive"]
    /\ Bump(c)
    /\ Shrink
    /\ UNCHANGED <<sockets, log, ask, work, pc, steady>>

\* deleteProject or deleteUser.  Nobody is taken out of the room.
ChatDeleted(c) ==
    /\ Exists(c)
    /\ row' = [row EXCEPT ![c] = "gone"]
    /\ Shrink
    /\ UNCHANGED <<sockets, place, log, ask, work, pc, steady, bumped>>

Step(r) ==
    \/ Identified(r) \/ Fail(r) \/ ChatAllowed(r)
    \/ JoinChat(r) \/ MobileJoinChat(r) \/ LeaveChat(r) \/ MobileLeaveChat(r)
    \/ ListChats(r) \/ ListProjectChats(r) \/ JoinAllChats(r) \/ JoinProjectChats(r)
    \/ Typing(r) \/ ChatUpdate(r) \/ MessageUpdate(r) \/ ReadChat(r) \/ MarkAsRead(r)
    \/ ParticipantStatusTo(r) \/ ParticipantStatusUpdate(r)
    \/ FindParticipants(r) \/ OpenChat(r) \/ Admit(r) \/ StoreMessage(r) \/ TouchChat(r)
    \/ SendMessage(r) \/ MobileSendMessage(r) \/ CreateMessage(r)
    \/ BroadcastOne(r) \/ Skip(r) \/ SendBroadcast(r)
    \/ FindMessages(r) \/ GetMessages(r) \/ GetChats(r)

Next ==
    \/ \E r \in Request : Begin(r) \/ Step(r)
    \/ \E k \in Drops : Disconnect(k)
    \/ \E c \in Mortal : ChatClosed(c) \/ ChatDeleted(c)

Spec == Init /\ [][Next]_vars

-----------------------------------------------------------------------------
(* Properties                                                              *)

\* Request r, when it was answered, had put its client in the room of c.
PutIn(r, c) ==
    /\ pc[r] = "done"
    /\ \/ Op(r) = "mobileJoinChat" /\ c = chat[r]
       \/ /\ Op(r) = "joinChat" /\ c = chat[r]
          /\ past[r][c] # "gone" /\ Who(r) \in Members(c)
       \/ /\ Op(r) = "joinAllChats" /\ c \in list[r]
          /\ past[r][c] \notin {"inactive", "gone"} /\ Who(r) \in Members(c)
       \/ /\ Op(r) = "joinProjectChats" /\ c \in list[r]
          /\ past[r][c] \notin {"inactive", "gone"} /\ Who(r) = Admin[c]

TakenOut(q, c) ==
    pc[q] = "done" /\ Op(q) \in {"leaveChat", "mobileLeaveChat"} /\ c = chat[q]

(* An open socket is in the room of a chat for a reason: one of its join   *)
(* requests, the user being a member of a chat that was not yet deleted    *)
(* (nor, for the joins by list, deactivated) when it began, and no leave   *)
(* the client made after that join was answered.  A join a leave overtakes *)
(* puts the socket back (chat.gateway.ts, handleJoinChat awaits what       *)
(* handleLeaveChat does not).                                              *)
RoomForAReason ==
    \A k \in Client : \A c \in room[k] :
        /\ k \in up
        /\ \E r \in Request :
              /\ By(r) = k /\ PutIn(r, c)
              /\ \A q \in Request : By(q) = k /\ TakenOut(q, c) => r \notin began[q]

\* Message m was created and its sender's request has been answered.
Told(m) == pc[m[1]] = "done" /\ (Op(m[1]) = "sendBroadcast" => m[2] \in list[m[1]])

(* A client that reads the messages of a chat while it stays in the room   *)
(* of the chat has every message whose sending succeeded: it was on the    *)
(* page, has been received, or is older than a full page (getMessages and  *)
(* the broadcasts of newMessage).                                          *)
NothingMissed ==
    \A r \in steady : Op(r) = "getMessages" /\ pc[r] = "done" =>
        \A m \in Stored : m[2] = chat[r] /\ Told(m) =>
            \/ m \in page[r] \cup heard[By(r)]
            \/ Cardinality(page[r]) = PageSize /\ page[r] \subseteq Newer(m)

(* A client told allChatsJoined that has left no room since receives every *)
(* later message of its user's chats, unless the chat was not in the list: *)
(* it was new, or the list was full (the limit of 20 that handleJoinAllChats *)
(* does not raise), and then misses only what is sent over a socket.       *)
MissedOnlyBeyondList ==
    \A r \in steady : Op(r) = "joinAllChats" /\ pc[r] = "done" =>
        \A m \in Range(log) :
            Told(m) /\ r \in began[m[1]] /\ Who(r) \in Members(m[2]) =>
                \/ m \in heard[By(r)]
                \/ /\ Op(m[1]) \in SocketSends /\ m[2] \notin list[r]
                   /\ past[r][m[2]] = "absent" \/ Cardinality(list[r]) = PageSize

(* The room of a chat deleted before a request began hears of that request *)
(* only if it is one that looks at no chat; of a deactivated one, also if  *)
(* it looks but changes and lists nothing (rooms outlive their chats:      *)
(* nobody is ever taken out of one).                                       *)
ClosedRoomHearsOnly ==
    \A k \in Client : \A e \in heard[k] :
        /\ past[e[1]][e[2]] = "gone" => Op(e[1]) \in Immediate
        /\ past[e[1]][e[2]] = "inactive" => Op(e[1]) \in Immediate \cup Looking

(* A client that reads its list of chats page by page misses an active     *)
(* chat only if that one has moved to the front meanwhile or some chat has *)
(* left the list (findChatsForUser: skip and take over updatedAt).         *)
SkippedOnlyIfMoved ==
    \A r \in Request \ shrunk : Op(r) = "getChats" /\ pc[r] = "done" =>
        \A c \in Chat :
            past[r][c] = "active" /\ Who(r) \in Members(c) /\ c \notin bumped[r] => c \in list[r]

=============================================================================
