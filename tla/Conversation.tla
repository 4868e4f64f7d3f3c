---------------------------- MODULE Conversation ----------------------------
(***************************************************************************)
(* What ChatService does to the chats and messages that exist: sending a   *)
(* message (createMessage and the handlers that broadcast it), marking a   *)
(* chat as read and deactivating it.  Each request is a handler of the one *)
(* Node process: it runs until it awaits a database statement or the push  *)
(* service, and any other handler may run before it resumes.  pc[r] names  *)
(* what request r is waiting for.  A request stores at most one message,   *)
(* so a message is identified with the request that sent it.               *)
(***************************************************************************)
EXTENDS Naturals, FiniteSets, Sequences, Functions

CONSTANTS
    User,
    Chat,
    Request,      \* one element per request ever made
    Ask,          \* what a request may ask: an operation, by a user, on a chat
    Admin,        \* Chat.adminId
    Participant,  \* Chat.participantId
    SpamLimit     \* messages per user in the last 60 seconds: 30 in the code

ASSUME ConversationAssumption ==
    /\ Ask \subseteq [op : {"send", "read", "close"}, user : User, chat : Chat]
    /\ Ask # {}
    /\ Admin \in [Chat -> User]
    /\ Participant \in [Chat -> User]
    /\ SpamLimit \in Nat \ {0}

VARIABLES
    status,      \* row of each chat: isActive, or "gone" once deleted
    log,         \* Message rows in order of insertion (createdAt)
    aged,        \* how many of the oldest rows are more than 60 seconds old
    read,        \* messages whose row has read = true
    online,      \* User.isOnline, kept by Presence
    timedOut,    \* users in MessageSpamStrategy.spamTimeouts
    req,         \* what each request asks
    pc,          \* what each request waits for
    peerOnline,  \* recipientOnline, as read with the chat
    pushed,      \* messages for which a push was attempted
    emitted,     \* order in which handlers broadcast newMessage
    began,       \* history: the requests that had been answered when r began
    counted,     \* history: the messages r's spam check counted
    peerSeen     \* history: the recipient's isOnline values since r began

ask   == <<req, began>>
rows  == <<status, log, aged, read, online>>
sides == <<timedOut, pushed, emitted>>
notes == <<peerOnline, counted, peerSeen>>
vars  == <<ask, rows, sides, notes, pc>>

Answered == {"done", "failed"}
Ended    == Answered \cup {"lost"}
Awaiting == {"find", "spam", "insert", "touch", "push", "mark", "zero", "close"}

TypeOK ==
    /\ status \in [Chat -> {"active", "inactive", "gone"}]
    /\ log \in Seq(Request)
    /\ aged \in 0..Len(log)
    /\ read \subseteq Request
    /\ online \in [User -> BOOLEAN]
    /\ timedOut \subseteq User
    /\ req \in [Request -> Ask]
    /\ pc \in [Request -> {"idle", "reply"} \cup Awaiting \cup Ended]
    /\ peerOnline \in [Request -> BOOLEAN]
    /\ pushed \subseteq Request
    /\ emitted \in Seq(Request)
    /\ began \in [Request -> SUBSET Request]
    /\ counted \in [Request -> SUBSET Request]
    /\ peerSeen \in [Request -> SUBSET BOOLEAN]

-----------------------------------------------------------------------------
Members(c) == {Admin[c], Participant[c]}

\* The recipient of a message u sends in c.
Peer(c, u) == IF Admin[c] = u THEN Participant[c] ELSE Admin[c]

\* Deleting a chat deletes its messages.
Stored == {m \in Range(log) : status[req[m].chat] # "gone"}

Recent(u) == {m \in Stored : req[m].user = u /\ \E i \in aged + 1 .. Len(log) : log[i] = m}

\* Mutation: the sender is not excluded.
MutUnreadByAnyone(c, u) == {m \in Stored : req[m].chat = c} \ read

UnreadBy(c, u) == {m \in Stored : req[m].chat = c /\ req[m].user # u} \ read

Goes(r, from, to) == pc[r] = from /\ pc' = [pc EXCEPT ![r] = to]

Init ==
    /\ status \in [Chat -> {"active", "inactive"}]
    /\ log = <<>> /\ aged = 0 /\ read = {}
    /\ online \in [User -> BOOLEAN]
    /\ timedOut = {}
    /\ req = [r \in Request |-> CHOOSE a \in Ask : TRUE]
    /\ pc = [r \in Request |-> "idle"]
    /\ peerOnline = [r \in Request |-> FALSE]
    /\ pushed = {} /\ emitted = <<>>
    /\ began = [r \in Request |-> {}]
    /\ counted = [r \in Request |-> {}]
    /\ peerSeen = [r \in Request |-> {}]

-----------------------------------------------------------------------------
(* Any request: it arrives, reads the chat with findChatById and checks    *)
(* that its user is one of the two members, or fails.                      *)

Begin(r) ==
    /\ Goes(r, "idle", "find")
    /\ \E a \in Ask :
          /\ req' = [req EXCEPT ![r] = a]
          /\ peerSeen' = [peerSeen EXCEPT ![r] = {online[Peer(a.chat, a.user)]}]
    /\ began' = [began EXCEPT ![r] = {q \in Request : pc[q] \in Answered}]
    /\ UNCHANGED <<rows, sides, peerOnline, counted>>

\* The chat exists and the user of r is one of its members.
Admitted(r) ==
    /\ status[req[r].chat] # "gone"
    /\ req[r].user \in Members(req[r].chat)

\* Any failure: no such chat, access denied, invalid content or metadata, a
\* statement or the push service that throws.  The spam check's own query
\* does not count: its failure is caught (SendCheckSkipped).
Fail(r) ==
    /\ pc[r] \in Awaiting
    /\ pc' = [pc EXCEPT ![r] = "failed"]
    /\ UNCHANGED <<ask, rows, sides, notes>>

-----------------------------------------------------------------------------
(* ChatService.createMessage, and the broadcast that follows it            *)

\* Mutation: no isActive check.
MutSendToInactive(r) ==
    /\ req[r].op = "send"
    /\ Admitted(r)
    /\ Goes(r, "find", "spam")
    /\ peerOnline' = [peerOnline EXCEPT ![r] = online[Peer(req[r].chat, req[r].user)]]
    /\ UNCHANGED <<ask, rows, sides, counted, peerSeen>>

\* Mutation: recipientOnline read from the sender's side of the chat.
MutSenderOnline(r) ==
    /\ req[r].op = "send"
    /\ Admitted(r)
    /\ status[req[r].chat] = "active"
    /\ Goes(r, "find", "spam")
    /\ peerOnline' = [peerOnline EXCEPT ![r] = online[req[r].user]]
    /\ UNCHANGED <<ask, rows, sides, counted, peerSeen>>

SendAdmit(r) ==
    /\ req[r].op = "send"
    /\ Admitted(r)
    /\ status[req[r].chat] = "active"
    /\ Goes(r, "find", "spam")
    /\ peerOnline' = [peerOnline EXCEPT ![r] = online[Peer(req[r].chat, req[r].user)]]
    /\ UNCHANGED <<ask, rows, sides, counted, peerSeen>>

\* Mutation: > for >= in the comparison with the limit.
MutSendOneMore(r) ==
    /\ Cardinality(Recent(req[r].user)) <= SpamLimit
    /\ Goes(r, "spam", "insert")
    /\ counted' = [counted EXCEPT ![r] = Recent(req[r].user)]
    /\ UNCHANGED <<ask, rows, sides, peerOnline, peerSeen>>

SendCheck(r) ==
    /\ Cardinality(Recent(req[r].user)) < SpamLimit
    /\ Goes(r, "spam", "insert")
    /\ counted' = [counted EXCEPT ![r] = Recent(req[r].user)]
    /\ UNCHANGED <<ask, rows, sides, peerOnline, peerSeen>>

SendCheckSkipped(r) ==
    /\ Goes(r, "spam", "insert")
    /\ UNCHANGED <<ask, rows, sides, notes>>

SendSpam(r) ==
    /\ Cardinality(Recent(req[r].user)) >= SpamLimit
    /\ Goes(r, "spam", "failed")
    /\ timedOut' = timedOut \cup {req[r].user}
    /\ UNCHANGED <<ask, rows, pushed, emitted, notes>>

\* The foreign key refuses a message of a deleted chat.
SendInsert(r) ==
    /\ status[req[r].chat] # "gone"
    /\ Goes(r, "insert", "touch")
    /\ log' = Append(log, r)
    /\ UNCHANGED <<ask, status, aged, read, online, sides, notes>>

\* updateChatLastMessage (its timestamp orders the list of chats, which no
\* property is about); then the branch on the recipient read at the start.
SendTouch(r) ==
    /\ status[req[r].chat] # "gone"
    /\ Goes(r, "touch", IF peerOnline[r] THEN "reply" ELSE "push")
    /\ pushed' = IF peerOnline[r] THEN pushed ELSE pushed \cup {r}
    /\ UNCHANGED <<ask, rows, timedOut, emitted, notes>>

\* Mutation: createMessage's caller is not reached after a push.
MutPushEnds(r) ==
    /\ Goes(r, "push", "done")
    /\ UNCHANGED <<ask, rows, sides, notes>>

SendPush(r) ==
    /\ Goes(r, "push", "reply")
    /\ UNCHANGED <<ask, rows, sides, notes>>

SendReply(r) ==
    /\ req[r].op = "send"
    /\ Goes(r, "reply", "done")
    /\ emitted' = Append(emitted, r)
    /\ UNCHANGED <<ask, rows, timedOut, pushed, notes>>

-----------------------------------------------------------------------------
(* ChatService.markChatAsRead and deactivateChat                           *)

\* Mutation: the update of the rows is not awaited before the answer.
MutReadUnawaited(r) ==
    /\ req[r].op = "read"
    /\ Admitted(r)
    /\ Goes(r, "find", "reply")
    /\ UNCHANGED <<ask, rows, sides, notes>>

ReadAdmit(r) ==
    /\ req[r].op = "read"
    /\ Admitted(r)
    /\ Goes(r, "find", "mark")
    /\ UNCHANGED <<ask, rows, sides, notes>>

ReadMark(r) ==
    /\ Goes(r, "mark", "zero")
    /\ read' = read \cup UnreadBy(req[r].chat, req[r].user)
    /\ UNCHANGED <<ask, status, log, aged, online, sides, notes>>

\* Chat.unreadCount := 0.  No statement ever sets it to anything else, so the
\* column is no variable; the row must be there.
ReadZero(r) ==
    /\ status[req[r].chat] # "gone"
    /\ Goes(r, "zero", "reply")
    /\ UNCHANGED <<ask, rows, sides, notes>>

\* Mutation: any user may close any chat.
MutCloseAnyone(r) ==
    /\ req[r].op = "close"
    /\ status[req[r].chat] # "gone"
    /\ Goes(r, "find", "close")
    /\ UNCHANGED <<ask, rows, sides, notes>>

CloseAdmit(r) ==
    /\ req[r].op = "close"
    /\ Admitted(r)
    /\ Goes(r, "find", "close")
    /\ UNCHANGED <<ask, rows, sides, notes>>

CloseUpdate(r) ==
    /\ status[req[r].chat] # "gone"
    /\ Goes(r, "close", "reply")
    /\ status' = [status EXCEPT ![req[r].chat] = "inactive"]
    /\ UNCHANGED <<ask, log, aged, read, online, sides, notes>>

Reply(r) ==
    /\ req[r].op # "send"
    /\ Goes(r, "reply", "done")
    /\ UNCHANGED <<ask, rows, sides, notes>>

-----------------------------------------------------------------------------
(* The rest of the system                                                  *)

\* deleteProject or deleteUser, which cascade to the chat and its messages.
Delete(c) ==
    /\ status[c] # "gone"
    /\ status' = [status EXCEPT ![c] = "gone"]
    /\ UNCHANGED <<ask, log, aged, read, online, sides, notes, pc>>

\* Presence writes User.isOnline.
PresenceFlips(u) ==
    /\ online' = [online EXCEPT ![u] = ~online[u]]
    /\ peerSeen' = [r \in Request |->
          IF pc[r] \in Awaiting /\ Peer(req[r].chat, req[r].user) = u
          THEN peerSeen[r] \cup {online'[u]}
          ELSE peerSeen[r]]
    /\ UNCHANGED <<ask, status, log, aged, read, sides, peerOnline, counted, pc>>

\* Mutation: the window slides past the newest message.
MutAgeOut ==
    /\ aged' = aged + 1
    /\ UNCHANGED <<ask, status, log, read, online, sides, notes, pc>>

\* The clock: the oldest message leaves the 60-second window, and 20 seconds
\* have passed since u's spam was detected.
AgeOut ==
    /\ aged < Len(log)
    /\ aged' = aged + 1
    /\ UNCHANGED <<ask, status, log, read, online, sides, notes, pc>>

TimeoutExpires(u) ==
    /\ u \in timedOut
    /\ timedOut' = timedOut \ {u}
    /\ UNCHANGED <<ask, rows, pushed, emitted, notes, pc>>

\* The process dies: handlers in flight never answer, the rows stay.
Crash ==
    /\ \E r \in Request : pc[r] \notin {"idle"} \cup Ended
    /\ pc' = [r \in Request |-> IF pc[r] \in {"idle"} \cup Ended THEN pc[r] ELSE "lost"]
    /\ timedOut' = {}
    /\ UNCHANGED <<ask, rows, pushed, emitted, notes>>

Step(r) ==
    \/ SendAdmit(r) \/ SendCheck(r) \/ SendCheckSkipped(r) \/ SendSpam(r)
    \/ SendInsert(r) \/ SendTouch(r) \/ SendPush(r) \/ SendReply(r)
    \/ ReadAdmit(r) \/ ReadMark(r) \/ ReadZero(r)
    \/ CloseAdmit(r) \/ CloseUpdate(r)
    \/ Reply(r) \/ Fail(r)

Next ==
    \/ \E r \in Request : Begin(r) \/ Step(r)
    \/ \E c \in Chat : Delete(c)
    \/ \E u \in User : PresenceFlips(u) \/ TimeoutExpires(u)
    \/ AgeOut
    \/ Crash

Spec == Init /\ [][Next]_vars

-----------------------------------------------------------------------------
(* Properties                                                              *)

(* More than SpamLimit messages of one user within 60 seconds happen only  *)
(* if two of them were checked without either check counting the other:    *)
(* sent concurrently, or let through because the query failed.  A user who *)
(* waits for each answer never exceeds the limit (chat.service.ts,         *)
(* checkSpamProtection is separated from the insert by an await).          *)
SpamExcessOverlaps ==
    \A u \in User :
        Cardinality(Recent(u)) > SpamLimit =>
            \E m1, m2 \in Recent(u) :
                m1 # m2 /\ m1 \notin counted[m2] /\ m2 \notin counted[m1]

(* A message whose request began after a deactivation of its chat was      *)
(* confirmed is not stored (createMessage, the isActive check).            *)
ClosedStaysQuiet ==
    \A m \in Stored : \A q \in began[m] :
        ~ (req[q].op = "close" /\ req[q].chat = req[m].chat /\ pc[q] = "done")

(* When markChatAsRead is confirmed, every message the other member had    *)
(* been told was sent before the request began is read.                    *)
ReadReceiptHonest ==
    \A r \in Request : req[r].op = "read" /\ pc[r] = "done" =>
        \A m \in began[r] \cap Stored :
            pc[m] = "done" /\ req[m].chat = req[r].chat /\ req[m].user # req[r].user
            => m \in read

(* A message becomes read only by a request of the other member of its     *)
(* chat (markChatAsRead, the access check and senderId: { not: userId }).  *)
ReadOnlyByPeer ==
    \A m \in read : \E r \in Request :
        /\ req[r].op = "read" /\ req[r].chat = req[m].chat
        /\ req[r].user \in Members(req[m].chat) \ {req[m].user}

(* A message is pushed if its recipient was offline all the time the       *)
(* request ran, and is not if they were online all the time ("Push         *)
(* notification to offline recipient", chat.service.ts:351).               *)
PushFollowsPresence ==
    \A m \in Request : req[m].op = "send" /\ pc[m] = "done" =>
        /\ peerSeen[m] = {FALSE} => m \in pushed
        /\ peerSeen[m] = {TRUE} => m \notin pushed

(* Messages are broadcast once each, only when stored, and a message whose *)
(* sending was confirmed before another was begun is stored and broadcast  *)
(* before it; concurrent ones may be broadcast out of order.               *)
BroadcastFollowsLog ==
    /\ \A i, j \in DOMAIN emitted : i < j =>
          emitted[i] # emitted[j] /\ emitted[j] \notin began[emitted[i]]
    /\ \A i, j \in DOMAIN log : i < j => log[i] # log[j] /\ log[j] \notin began[log[i]]
    /\ Range(emitted) = {m \in Range(log) : pc[m] = "done"}

(* What is told of messages is true of both sides: confirmed reading of    *)
(* what was sent, and reading by nobody but the one it was sent to.        *)
ReceiptsHold == ReadReceiptHonest /\ ReadOnlyByPeer

-----------------------------------------------------------------------------
(* The abstract specification                                              *)

\* Where a request is between its arrival and its end, by what it waits for.
PhaseAt(at) ==
    CASE at = "idle"                                 -> "new"
      [] at = "find"                                 -> "asked"
      [] at \in {"spam", "insert", "mark", "close"}  -> "let"
      [] at \in {"touch", "push", "zero", "reply"}   -> "did"
      [] at = "done"                                 -> "told"
      [] OTHER                                       -> "over"

Phase == [r \in Request |-> PhaseAt(pc[r])]

Promise == INSTANCE ConversationPromise WITH
    state <- status, box <- log, seen <- read, asked <- req, phase <- Phase, told <- emitted

(* The statements of createMessage, markChatAsRead and deactivateChat, in  *)
(* whatever order requests and deletions get theirs in, do together what   *)
(* the two steps of ConversationPromise do: who is not let through has no  *)
(* effect, an effect happens once and before it is told, and a chat that   *)
(* was closed is never open again.                                         *)
KeepsPromise == Promise!Spec

-----------------------------------------------------------------------------
(* What the code says and does not do                                      *)

(* "User ... timed out for 20 seconds" (chat-error.strategies.ts:76): no   *)
(* message to an existing chat passes the spam check while its sender is   *)
(* timed out.                                                              *)
TimedOutSendsNothing ==
    [][\A r \in Request : SendCheck(r) /\ Admitted(r) => req[r].user \notin timedOut]_vars

=============================================================================
