--------------------------- MODULE ChatDirectory ---------------------------
(***************************************************************************)
(* How a project and a participant get their chat: ChatService's           *)
(* getOrCreateChat, from the back office (createOrGetChat) and from a      *)
(* mobile client (createOrGetChatMobile), which first looks up the project *)
(* by the unique id it was configured with, and then the participant.      *)
(* Around it the administrators rename and delete projects, enrol and      *)
(* remove participants, and users are deleted.                             *)
(*                                                                         *)
(* pc[r] names the statement request r waits for.  A chat is identified    *)
(* with the request that inserted its row: the ids of the database are     *)
(* never used twice.  The table's unique key is the triple <<project,      *)
(* administrator, participant>>.  A mobile client writes to the owner of   *)
(* the project, the back office for whoever is logged in.                  *)
(***************************************************************************)
EXTENDS Naturals, FiniteSets

CONSTANTS
    Project,
    Admin,    \* users that log in to the back office
    Person,   \* users that are participants
    Owner,    \* the administrator who created each project
    Request,
    Nobody    \* no project, no administrator, no chat

ASSUME DirectoryAssumption ==
    /\ Nobody \notin Project \cup Admin \cup Request
    /\ Owner \in [Project -> Admin]
    /\ Person # {}

User == Admin \cup Person
Key == Project \X Admin \X Person
Membership == Project \X Person

VARIABLES
    projects,  \* rows of Project
    users,     \* rows of User
    members,   \* rows of ProjectParticipant
    holder,    \* the project whose uniqueId is the one the mobile clients use
    chat,      \* Chat row of each key
    route,     \* the endpoint of each request
    key,       \* projectId, adminId and participant, as far as a request knows
    other,     \* the project that the second lookup by unique id has found
    pc,
    found,     \* the chat a request answers with
    isNewChat,
    began,     \* history: the chats that had been created when r began
    enrolled,  \* history: what has been in members while r looked it up
    moved      \* history: requests during whose lookups holder changed

rows    == <<projects, users, members, holder>>
request == <<route, key, other, found, isNewChat>>
notes   == <<began, enrolled, moved>>
vars    == <<rows, chat, request, pc, notes>>

Waiting == {"project", "again", "person", "find", "recheck", "insert", "map"}

TypeOK ==
    /\ projects \subseteq Project /\ users \subseteq User
    /\ members \subseteq Membership
    /\ holder \in Project \cup {Nobody}
    /\ chat \in [Key -> Request \cup {Nobody}]
    /\ route \in [Request -> {"office", "mobile"}]
    /\ key \in [Request -> (Project \cup {Nobody}) \X (Admin \cup {Nobody}) \X Person]
    /\ other \in [Request -> Project \cup {Nobody}]
    /\ pc \in [Request -> {"idle", "done", "failed"} \cup Waiting]
    /\ found \in [Request -> Request \cup {Nobody}]
    /\ isNewChat \in [Request -> BOOLEAN]
    /\ began \in [Request -> SUBSET Request]
    /\ enrolled \in [Request -> SUBSET Membership]
    /\ moved \subseteq Request

Init ==
    /\ projects = Project /\ users = User
    /\ members = {}
    /\ holder \in Project \cup {Nobody}
    /\ chat = [k \in Key |-> Nobody]
    /\ route = [r \in Request |-> "office"]
    /\ key = [r \in Request |-> <<Nobody, Nobody, CHOOSE u \in Person : TRUE>>]
    /\ other = [r \in Request |-> Nobody]
    /\ pc = [r \in Request |-> "idle"]
    /\ found = [r \in Request |-> Nobody]
    /\ isNewChat = [r \in Request |-> FALSE]
    /\ began = [r \in Request |-> {}]
    /\ enrolled = [r \in Request |-> {}]
    /\ moved = {}

Goes(r, from, to) == pc[r] = from /\ pc' = [pc EXCEPT ![r] = to]

\* The chats ever inserted are the requests past their insert that made one.
Created == {q \in Request : found[q] = q}

-----------------------------------------------------------------------------
(* getOrCreateChat and its callers                                         *)

\* createOrGetChat: the request and its token name the key.
BeginOffice(r) ==
    /\ Goes(r, "idle", "find")
    /\ \E k \in Key : key' = [key EXCEPT ![r] = k]
    /\ began' = [began EXCEPT ![r] = Created]
    /\ UNCHANGED <<rows, chat, route, other, found, isNewChat, enrolled, moved>>

\* createOrGetChatMobile: the project is yet to be found by its unique id.
BeginMobile(r) ==
    /\ Goes(r, "idle", "project")
    /\ route' = [route EXCEPT ![r] = "mobile"]
    /\ \E u \in Person : key' = [key EXCEPT ![r] = <<Nobody, Nobody, u>>]
    /\ began' = [began EXCEPT ![r] = Created]
    /\ enrolled' = [enrolled EXCEPT ![r] = members]
    /\ UNCHANGED <<rows, chat, other, found, isNewChat, moved>>

ProjectFound(r) ==
    /\ Goes(r, "project", "again")
    /\ holder # Nobody
    /\ key' = [key EXCEPT ![r] = <<holder, Owner[holder], key[r][3]>>]
    /\ UNCHANGED <<rows, chat, route, other, found, isNewChat, notes>>

\* getParticipantUserIdByProjectUniqueId looks the project up once more,
ProjectFoundAgain(r) ==
    /\ Goes(r, "again", "person")
    /\ holder # Nobody
    /\ other' = [other EXCEPT ![r] = holder]
    /\ UNCHANGED <<rows, chat, route, key, found, isNewChat, notes>>

\* Mutation: the participant is not looked for in the project alone.
MutPersonAnywhere(r) ==
    /\ Goes(r, "person", "find")
    /\ \E p \in Project : <<p, key[r][3]>> \in members
    /\ UNCHANGED <<rows, chat, request, notes>>

\* and the participant in that one.
PersonFound(r) ==
    /\ Goes(r, "person", "find")
    /\ <<other[r], key[r][3]>> \in members
    /\ UNCHANGED <<rows, chat, request, notes>>

\* Mutation: every answer is called new.
MutFoundIsNew(r) ==
    /\ Goes(r, "find", "map")
    /\ chat[key[r]] # Nobody
    /\ found' = [found EXCEPT ![r] = chat[key[r]]]
    /\ isNewChat' = [isNewChat EXCEPT ![r] = TRUE]
    /\ UNCHANGED <<rows, chat, route, key, other, notes>>

ChatFound(r) ==
    /\ Goes(r, "find", "map")
    /\ chat[key[r]] # Nobody
    /\ found' = [found EXCEPT ![r] = chat[key[r]]]
    /\ UNCHANGED <<rows, chat, route, key, other, isNewChat, notes>>

NoChatFound(r) ==
    /\ Goes(r, "find", "recheck")
    /\ chat[key[r]] = Nobody
    /\ UNCHANGED <<rows, chat, request, notes>>

\* The repository's createChat asks again; what it finds, getOrCreateChat
\* cannot tell from what it creates.
RecheckFound(r) ==
    /\ Goes(r, "recheck", "map")
    /\ chat[key[r]] # Nobody
    /\ found' = [found EXCEPT ![r] = chat[key[r]]]
    /\ isNewChat' = [isNewChat EXCEPT ![r] = TRUE]
    /\ UNCHANGED <<rows, chat, route, key, other, notes>>

RecheckNone(r) ==
    /\ Goes(r, "recheck", "insert")
    /\ chat[key[r]] = Nobody
    /\ UNCHANGED <<rows, chat, request, notes>>

\* The rows the foreign keys of a chat refer to.
Parents(k) == k[1] \in projects /\ {k[2], k[3]} \subseteq users

\* Mutation: the answer names the row's unique key instead of its id.
MutAnswerKey(r) ==
    /\ Parents(key[r])
    /\ Goes(r, "insert", "map")
    /\ chat[key[r]] = Nobody
    /\ chat' = [chat EXCEPT ![key[r]] = r]
    /\ found' = [found EXCEPT ![r] = key[r]]
    /\ isNewChat' = [isNewChat EXCEPT ![r] = TRUE]
    /\ UNCHANGED <<rows, route, key, other, notes>>

\* Mutation: no unique index on the table.
MutNoUniqueIndex(r) ==
    /\ Parents(key[r])
    /\ Goes(r, "insert", "map")
    /\ chat' = [chat EXCEPT ![key[r]] = r]
    /\ found' = [found EXCEPT ![r] = r]
    /\ isNewChat' = [isNewChat EXCEPT ![r] = TRUE]
    /\ UNCHANGED <<rows, route, key, other, notes>>

\* The foreign keys and the unique index decide; otherwise it throws (Fail).
InsertChat(r) ==
    /\ Parents(key[r])
    /\ Goes(r, "insert", "map")
    /\ chat[key[r]] = Nobody
    /\ chat' = [chat EXCEPT ![key[r]] = r]
    /\ found' = [found EXCEPT ![r] = r]
    /\ isNewChat' = [isNewChat EXCEPT ![r] = TRUE]
    /\ UNCHANGED <<rows, route, key, other, notes>>

\* mapChatToResponseDto has counted the unread messages.
Answer(r) ==
    /\ Goes(r, "map", "done")
    /\ UNCHANGED <<rows, chat, request, notes>>

\* A lookup that finds nothing, a statement that throws.
Fail(r) ==
    /\ pc[r] \in Waiting
    /\ pc' = [pc EXCEPT ![r] = "failed"]
    /\ UNCHANGED <<rows, chat, request, notes>>

-----------------------------------------------------------------------------
(* The administrators                                                      *)

\* The mobile requests that are looking up their project and participant.
LookingUp == {r \in Request : pc[r] \in {"project", "again", "person"}}

\* createParticipant has inserted the membership.
Enrol(k) ==
    /\ k[1] \in projects /\ k[2] \in users
    /\ members' = members \cup {k}
    /\ enrolled' = [r \in Request |-> IF r \in LookingUp THEN enrolled[r] \cup {k} ELSE enrolled[r]]
    /\ UNCHANGED <<projects, users, holder, chat, request, pc, began, moved>>

\* deleteParticipant: the chat stays.
Remove(k) ==
    /\ k \in members
    /\ members' = members \ {k}
    /\ UNCHANGED <<projects, users, holder, chat, request, pc, notes>>

\* updateProject gives the unique id up, or takes it when it is free.
Release ==
    /\ holder # Nobody
    /\ holder' = Nobody
    /\ moved' = moved \cup LookingUp
    /\ UNCHANGED <<projects, users, members, chat, request, pc, began, enrolled>>

Claim(p) ==
    /\ p \in projects /\ holder = Nobody
    /\ holder' = p
    /\ moved' = moved \cup LookingUp
    /\ UNCHANGED <<projects, users, members, chat, request, pc, began, enrolled>>

\* Mutation: no cascade from the project to its chats.
MutNoCascade(p) ==
    /\ p \in projects
    /\ projects' = projects \ {p}
    /\ members' = {k \in members : k[1] # p}
    /\ holder' = IF holder = p THEN Nobody ELSE holder
    /\ moved' = IF holder = p THEN moved \cup LookingUp ELSE moved
    /\ UNCHANGED <<users, chat, request, pc, began, enrolled>>

DeleteProject(p) ==
    /\ p \in projects
    /\ projects' = projects \ {p}
    /\ members' = {k \in members : k[1] # p}
    /\ holder' = IF holder = p THEN Nobody ELSE holder
    /\ moved' = IF holder = p THEN moved \cup LookingUp ELSE moved
    /\ chat' = [k \in Key |-> IF k[1] = p THEN Nobody ELSE chat[k]]
    /\ UNCHANGED <<users, request, pc, began, enrolled>>

\* deleteUser: the owner of a project cannot be deleted.
DeleteUser(u) ==
    /\ u \in users /\ \A p \in projects : Owner[p] # u
    /\ users' = users \ {u}
    /\ members' = {k \in members : k[2] # u}
    /\ chat' = [k \in Key |-> IF u \in {k[2], k[3]} THEN Nobody ELSE chat[k]]
    /\ UNCHANGED <<projects, holder, request, pc, notes>>

Step(r) ==
    \/ BeginOffice(r) \/ BeginMobile(r)
    \/ ProjectFound(r) \/ ProjectFoundAgain(r) \/ PersonFound(r)
    \/ ChatFound(r) \/ NoChatFound(r) \/ RecheckFound(r) \/ RecheckNone(r)
    \/ InsertChat(r) \/ Answer(r) \/ Fail(r)

Next ==
    \/ \E r \in Request : Step(r)
    \/ \E k \in Membership : Enrol(k) \/ Remove(k)
    \/ \E p \in Project : Claim(p) \/ DeleteProject(p)
    \/ \E u \in User : DeleteUser(u)
    \/ Release

Spec == Init /\ [][Next]_vars

-----------------------------------------------------------------------------
(* Properties                                                              *)

(* Whoever is answered for a project, an administrator and a participant   *)
(* is given the same chat, which was created for them (getOrCreateChat;    *)
(* the unique index of the table and the re-check in createChat decide     *)
(* between racing requests).                                               *)
SameChat ==
    \A r \in Request : pc[r] = "done" =>
        /\ found[r] \in Created /\ key[found[r]] = key[r]
        /\ \A q \in Request : pc[q] = "done" /\ key[q] = key[r] => found[q] = found[r]

(* What isNewChat is worth to a client: a chat called new did not exist    *)
(* when the request began, and one not called new was created by another   *)
(* request.  That is less than is documented, see NewMeansCreated.         *)
NewMeansRecent ==
    \A r \in Request : pc[r] = "done" =>
        IF isNewChat[r] THEN found[r] \notin began[r] ELSE found[r] # r

(* "Whether the chat was created in this request"                          *)
(* (chat-response.dto.ts:191): a chat called new is the request's own.     *)
(* getOrCreateChat calls new whatever its createChat returns, which may be *)
(* a chat that the re-check has found.                                     *)
NewMeansCreated ==
    \A r \in Request : pc[r] = "done" /\ isNewChat[r] => found[r] = r

(* A chat exists only while its project and its users do, and then is the  *)
(* one that was created for them: chats go with their parents and never    *)
(* otherwise.                                                              *)
ChatsFollowParents ==
    /\ \A k \in Key : chat[k] # Nobody => Parents(k)
    /\ \A q \in Created : Parents(key[q]) => chat[key[q]] = q

(* A mobile client is given a chat only with a participant who was in that *)
(* project while it was looked up, unless the unique id passed from one    *)
(* project to another meanwhile: the project is looked up twice by it.     *)
MobileChatHasMember ==
    \A r \in Request : route[r] = "mobile" /\ pc[r] = "done" /\ r \notin moved =>
        <<key[r][1], key[r][3]>> \in enrolled[r]

-----------------------------------------------------------------------------
(* The abstract specification                                              *)

Promise == INSTANCE ChatPromise WITH
    None <- Nobody,
    row <- chat,
    gone <- {k \in Key : ~Parents(k)},
    given <- {<<r, key[r], found[r]>> : r \in {q \in Request : found[q] # Nobody}}

(* The look, the second look and the insert of getOrCreateChat, each a     *)
(* statement of its own and raced by other requests and by deletions, do   *)
(* together what the one step of ChatPromise does.                         *)
KeepsPromise == Promise!Spec

=============================================================================
