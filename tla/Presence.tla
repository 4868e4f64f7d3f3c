------------------------------ MODULE Presence ------------------------------
(***************************************************************************)
(* Who is online.  ChatGateway (chat.gateway.ts) keeps an in-memory map    *)
(* connectedUsers of the sockets it has registered, and OnlineStatusService *)
(* keeps User.isOnline in the database.  handleConnection and              *)
(* handleDisconnect are asynchronous: each issues a database statement and *)
(* resumes when it completes, and statements of different handlers (even   *)
(* of one socket) complete in any order, since Prisma runs them on a pool. *)
(*                                                                         *)
(* The JWT of a back-office client is verified without I/O, so nothing     *)
(* interleaves between the arrival of its connection and the first         *)
(* database statement; the participant id of a mobile client is looked up  *)
(* in the database first.                                                  *)
(***************************************************************************)
EXTENDS Naturals

CONSTANTS
    User,
    Socket,   \* one element per connection ever made: socket ids are not reused
    Mobile,   \* the sockets that connect with participantId and projectId
    Owner     \* the user behind each socket

ASSUME SocketAssumption ==
    /\ Mobile \subseteq Socket
    /\ Owner \in [Socket -> User]

VARIABLES
    link,          \* transport of each socket
    connectedUsers, \* keys of the gateway's map (the value is Owner)
    room,          \* sockets that are in the room `user_<Owner>`
    conn,          \* how far handleConnection has got for each socket
    disc,          \* how far handleDisconnect has got
    isOnline,      \* User.isOnline
    boot,          \* markAllUsersOffline, issued by afterInit and not awaited
    overtook,      \* history: sockets whose "online" landed after their "offline"
    resetLate      \* history: users already marked online when boot's reset landed

vars == <<link, connectedUsers, room, conn, disc, isOnline, boot, overtook, resetLate>>

TypeOK ==
    /\ link \in [Socket -> {"none", "up", "down"}]
    /\ connectedUsers \subseteq Socket
    /\ room \subseteq Socket
    /\ conn \in [Socket -> {"none", "lookup", "online", "resume", "done", "failed", "dead"}]
    /\ disc \in [Socket -> {"none", "ignored", "offline", "done", "failed", "dead"}]
    /\ isOnline \in [User -> BOOLEAN]
    /\ boot \in {"pending", "done", "failed"}
    /\ overtook \subseteq Socket
    /\ resetLate \subseteq User

\* A process that has just started: the rows are whatever the previous one left.
Init ==
    /\ link = [s \in Socket |-> "none"]
    /\ connectedUsers = {}
    /\ room = {}
    /\ conn = [s \in Socket |-> "none"]
    /\ disc = [s \in Socket |-> "none"]
    /\ isOnline \in [User -> BOOLEAN]
    /\ boot = "pending"
    /\ overtook = {}
    /\ resetLate = {}

-----------------------------------------------------------------------------
(* The effect of a socket going down, whoever closes it: socket.io takes   *)
(* it out of its rooms and calls handleDisconnect, which up to its first   *)
(* await runs at once.                                                     *)

\* Mutation: the socket is never taken out of connectedUsers.
MutKeepEntry(s) ==
    /\ link' = [link EXCEPT ![s] = "down"]
    /\ room' = room \ {s}
    /\ disc' = [disc EXCEPT ![s] = IF s \in connectedUsers THEN "offline" ELSE "ignored"]
    /\ UNCHANGED connectedUsers

\* Mutation: only a socket that has joined its room counts as having been online.
MutOfflineIfJoined(s) ==
    /\ link' = [link EXCEPT ![s] = "down"]
    /\ room' = room \ {s}
    /\ connectedUsers' = connectedUsers \ {s}
    /\ disc' = [disc EXCEPT ![s] = IF s \in room THEN "offline" ELSE "ignored"]

Disconnected(s) ==
    /\ link' = [link EXCEPT ![s] = "down"]
    /\ room' = room \ {s}
    /\ connectedUsers' = connectedUsers \ {s}
    /\ disc' = [disc EXCEPT ![s] = IF s \in connectedUsers THEN "offline" ELSE "ignored"]

\* client.disconnect() in an error branch: no effect on a socket that is down.
Kick(s) ==
    IF link[s] = "up"
    THEN Disconnected(s)
    ELSE UNCHANGED <<link, room, connectedUsers, disc>>

-----------------------------------------------------------------------------
(* handleConnection and handleMobileConnection                             *)

Connect(s) ==
    /\ link[s] = "none"
    /\ link' = [link EXCEPT ![s] = "up"]
    /\ IF s \in Mobile
       THEN /\ conn' = [conn EXCEPT ![s] = "lookup"]
            /\ UNCHANGED connectedUsers
       ELSE /\ conn' = [conn EXCEPT ![s] = "online"]
            /\ connectedUsers' = connectedUsers \cup {s}
    /\ UNCHANGED <<room, disc, isOnline, boot, overtook, resetLate>>

\* No valid token and no mobile handshake: refused before it is registered.
Refuse(s) ==
    /\ link[s] = "none"
    /\ s \notin Mobile
    /\ link' = [link EXCEPT ![s] = "down"]
    /\ conn' = [conn EXCEPT ![s] = "failed"]
    /\ disc' = [disc EXCEPT ![s] = "ignored"]
    /\ UNCHANGED <<connectedUsers, room, isOnline, boot, overtook, resetLate>>

\* getParticipantUserId answers: the socket is registered, up or not.
ParticipantFound(s) ==
    /\ conn[s] = "lookup"
    /\ conn' = [conn EXCEPT ![s] = "online"]
    /\ connectedUsers' = connectedUsers \cup {s}
    /\ UNCHANGED <<link, room, disc, isOnline, boot, overtook, resetLate>>

\* getParticipantUserId throws: unknown participant, or the query failed.
ParticipantMissing(s) ==
    /\ conn[s] = "lookup"
    /\ conn' = [conn EXCEPT ![s] = "failed"]
    /\ Kick(s)
    /\ UNCHANGED <<isOnline, boot, overtook, resetLate>>

\* updateUserOnlineStatus(userId, true) takes effect.
SetOnline(s) ==
    /\ conn[s] = "online"
    /\ conn' = [conn EXCEPT ![s] = "resume"]
    /\ isOnline' = [isOnline EXCEPT ![Owner[s]] = TRUE]
    /\ overtook' = IF disc[s] = "done" THEN overtook \cup {s} ELSE overtook
    /\ UNCHANGED <<link, connectedUsers, room, disc, boot, resetLate>>

\* Mutation: updateUserOnlineStatus swallows the error it logs.
MutSwallowOnlineError(s) ==
    /\ conn[s] = "online"
    /\ conn' = [conn EXCEPT ![s] = "resume"]
    /\ UNCHANGED <<link, connectedUsers, room, disc, isOnline, boot, overtook, resetLate>>

\* updateUserOnlineStatus(userId, true) throws; the catch closes the socket.
SetOnlineFails(s) ==
    /\ conn[s] = "online"
    /\ conn' = [conn EXCEPT ![s] = "failed"]
    /\ Kick(s)
    /\ UNCHANGED <<isOnline, boot, overtook, resetLate>>

\* The handler resumes and joins the user's own room; client.join does nothing
\* on a socket that is already closed.
FinishConnect(s) ==
    /\ conn[s] = "resume"
    /\ conn' = [conn EXCEPT ![s] = "done"]
    /\ room' = IF link[s] = "up" THEN room \cup {s} ELSE room
    /\ UNCHANGED <<link, connectedUsers, disc, isOnline, boot, overtook, resetLate>>

-----------------------------------------------------------------------------
(* handleDisconnect                                                        *)

Disconnect(s) ==
    /\ link[s] = "up"
    /\ Disconnected(s)
    /\ UNCHANGED <<conn, isOnline, boot, overtook, resetLate>>

SetOffline(s) ==
    /\ disc[s] = "offline"
    /\ disc' = [disc EXCEPT ![s] = "done"]
    /\ isOnline' = [isOnline EXCEPT ![Owner[s]] = FALSE]
    /\ UNCHANGED <<link, connectedUsers, room, conn, boot, overtook, resetLate>>

\* Mutation: a state of its own for an "offline" that is to be tried again.
MutRetryOffline(s) ==
    /\ disc[s] = "offline"
    /\ disc' = [disc EXCEPT ![s] = "retry"]
    /\ UNCHANGED <<link, connectedUsers, room, conn, isOnline, boot, overtook, resetLate>>

\* The statement fails; handleDisconnect logs the error and gives up.
SetOfflineFails(s) ==
    /\ disc[s] = "offline"
    /\ disc' = [disc EXCEPT ![s] = "failed"]
    /\ UNCHANGED <<link, connectedUsers, room, conn, isOnline, boot, overtook, resetLate>>

-----------------------------------------------------------------------------
(* afterInit and process restart                                           *)

\* Mutation: boot's reset spares the users who have already connected.
MutSpareConnected ==
    /\ boot = "pending"
    /\ boot' = "done"
    /\ isOnline' = [u \in User |-> isOnline[u] /\ \E s \in connectedUsers : Owner[s] = u]
    /\ UNCHANGED <<link, connectedUsers, room, conn, disc, overtook, resetLate>>

MarkAllUsersOffline ==
    /\ boot = "pending"
    /\ boot' = "done"
    /\ isOnline' = [u \in User |-> FALSE]
    /\ resetLate' = resetLate \cup {Owner[s] : s \in {t \in Socket : conn[t] \in {"resume", "done"}}}
    /\ UNCHANGED <<link, connectedUsers, room, conn, disc, overtook>>

MarkAllUsersOfflineFails ==
    /\ boot = "pending"
    /\ boot' = "failed"
    /\ UNCHANGED <<link, connectedUsers, room, conn, disc, isOnline, overtook, resetLate>>

\* The process dies with every socket and every handler in flight; the rows
\* stay, and the new process issues markAllUsersOffline.
Restart ==
    /\ link' = [s \in Socket |-> IF link[s] = "none" THEN "none" ELSE "down"]
    /\ conn' = [s \in Socket |-> IF link[s] = "none" THEN "none" ELSE "dead"]
    /\ disc' = [s \in Socket |-> IF link[s] = "none" THEN "none" ELSE "dead"]
    /\ connectedUsers' = {}
    /\ room' = {}
    /\ boot' = "pending"
    /\ overtook' = {}
    /\ resetLate' = {}
    /\ UNCHANGED isOnline

Next ==
    \/ \E s \in Socket :
          \/ Connect(s) \/ Refuse(s)
          \/ ParticipantFound(s) \/ ParticipantMissing(s)
          \/ SetOnline(s) \/ SetOnlineFails(s) \/ FinishConnect(s)
          \/ Disconnect(s) \/ SetOffline(s) \/ SetOfflineFails(s)
    \/ MarkAllUsersOffline \/ MarkAllUsersOfflineFails
    \/ Restart

(* The database answers every statement and the event loop resumes every   *)
(* handler; clients and crashes are under no obligation.                   *)
Fairness ==
    /\ \A s \in Socket :
          /\ WF_vars(ParticipantFound(s) \/ ParticipantMissing(s))
          /\ WF_vars(SetOnline(s) \/ SetOnlineFails(s))
          /\ WF_vars(FinishConnect(s))
          /\ WF_vars(SetOffline(s) \/ SetOfflineFails(s))
    /\ WF_vars(MarkAllUsersOffline \/ MarkAllUsersOfflineFails)

Spec == Init /\ [][Next]_vars

FairSpec == Spec /\ Fairness

-----------------------------------------------------------------------------
(* What holds of the two records of who is online                          *)

SocketsOf(u) == {s \in Socket : Owner[s] = u}

Connected == {"resume", "done"}    \* values of conn after "online" has landed

(* A back-office socket is in connectedUsers exactly while its transport   *)
(* is up, a mobile one while it is up once its participant is known, and   *)
(* events for a user's own room reach registered sockets only              *)
(* (chat.gateway.ts, connectedUsers.set / delete around each await).       *)
RegistryTracksSockets ==
    /\ \A s \in Socket \ Mobile : s \in connectedUsers <=> link[s] = "up"
    /\ \A s \in Mobile : link[s] = "up" /\ conn[s] # "lookup" => s \in connectedUsers
    /\ room \subseteq connectedUsers

\* How link, conn and disc go together: what makes the three properties below
\* inductive.
Lifecycle ==
    \A s \in Socket :
        /\ link[s] = "none" => conn[s] = "none" /\ disc[s] = "none" /\ s \notin connectedUsers
        /\ link[s] = "up" => disc[s] = "none"
        /\ conn[s] = "lookup" => s \in Mobile

(* A user whose row says online, once boot's reset has run, has a socket   *)
(* of this process whose "online" landed and which has not been taken      *)
(* offline since: it is still up, its "offline" is on its way, that        *)
(* statement failed, it was overtaken by the "online" it should have       *)
(* undone, or it closed while its participant was still being looked up.   *)
(* Nothing else leaves a user shown online.                                *)
OnlineForAReason ==
    boot = "done" =>
        \A u \in User : isOnline[u] =>
            \E s \in SocketsOf(u) :
                /\ conn[s] \in Connected
                /\ disc[s] = "done" => s \in overtook

(* A socket that is up and has finished connecting shows its user online,  *)
(* unless another socket of the user has gone away or boot's reset landed  *)
(* after it: the only two ways a connected user is shown offline.          *)
OfflineForAReason ==
    \A s \in Socket :
        /\ link[s] = "up" /\ conn[s] \in Connected
        /\ Owner[s] \notin resetLate
        /\ \A t \in SocketsOf(Owner[s]) : disc[t] # "done"
        => isOnline[Owner[s]]

\* The user has left: every socket is closed and unregistered, and none of
\* the failures OnlineForAReason names has happened to them.
HasLeft(u) ==
    /\ boot # "failed"
    /\ \A s \in SocketsOf(u) :
          link[s] # "up" /\ s \notin connectedUsers \cup overtook /\ disc[s] # "failed"

(* A user who has left, and stays away, does not stay online forever.      *)
AbsentUserSettlesOffline ==
    \A u \in User : HasLeft(u) ~> ~HasLeft(u) \/ ~isOnline[u]

-----------------------------------------------------------------------------
(* What the code says and does not do                                      *)

\* No statement about user u is in flight.
Quiet(u) ==
    /\ boot = "done"
    /\ \A s \in SocketsOf(u) : conn[s] \notin {"lookup", "online"} /\ disc[s] # "offline"

\* Two open sockets of one user have finished connecting and the user is
\* shown online, with no statement about them in flight; boot's reset has
\* overtaken none of theirs.
BothOpen(s, t) ==
    /\ s # t /\ Owner[s] = Owner[t]
    /\ \A x \in {s, t} : link[x] = "up" /\ conn[x] = "done"
    /\ Quiet(Owner[s]) /\ Owner[s] \notin resetLate /\ isOnline[Owner[s]]

(* "Whether the user is online" (chat-response.dto.ts:39): a user who has  *)
(* two tabs open and is shown online stays so while one of them is open,   *)
(* whatever becomes of the other.  handleDisconnect clears isOnline        *)
(* without asking whether the user has another registered socket.          *)
ConnectedUserShownOnline ==
    \A s, t \in Socket : [](BothOpen(s, t) => [](link[s] = "up" => isOnline[Owner[s]]))

(* "Removes user from connected users" (chat.gateway.ts, handleDisconnect): *)
(* no closed socket stays registered.                                      *)
NoClosedSocketRegistered ==
    \A s \in connectedUsers : link[s] = "up"

=============================================================================
