----------------------------- MODULE RoomsProofs -----------------------------
(* Proofs about Rooms for every set of clients, chats and requests, and     *)
(* whatever the requests ask.                                               *)
EXTENDS Rooms, FiniteSetTheorems, TLAPS

-----------------------------------------------------------------------------
(* The inductive invariant                                                 *)

\* What a request that waits for a statement is asking.
ControlOf(r) ==
    /\ pc[r] = "auth" => Op(r) # "none"
    /\ pc[r] = "find" => Op(r) \in Looking \cup Sends
    /\ pc[r] = "list" => Op(r) \in Listing
    /\ pc[r] = "page" => Op(r) = "getMessages"
    /\ pc[r] = "count" => Op(r) \in Looking \cup (Listing \ {"getChats"})
    /\ pc[r] \in {"participants", "next"} => Op(r) = "sendBroadcast"
    /\ pc[r] \in {"insert", "touch"} => Op(r) \in Sends
    /\ pc[r] = "push" => Op(r) \in Sends \cup {"markAsRead"}

Control == \A r \in Request : ControlOf(r)

\* A chat that is closed stays closed, and a request was begun since.
Closed ==
    \A r \in Request, c \in Chat :
        /\ past[r][c] = "gone" => row[c] = "gone"
        /\ past[r][c] = "inactive" => row[c] \in {"inactive", "gone"}

\* What a request has checked of the chat it works on, and of those it has listed.
CheckedOf(r) ==
    /\ Op(r) \in Looking /\ pc[r] \in {"page", "count", "push"} =>
          past[r][chat[r]] # "gone" /\ Who(r) \in Members(chat[r])
    /\ Op(r) \in Sends /\ pc[r] \in {"insert", "touch", "push"} =>
          past[r][chat[r]] \notin {"inactive", "gone"}
    /\ pc[r] = "idle" => list[r] = {}
    /\ \A c \in list[r] :
          /\ past[r][c] \notin {"inactive", "gone"} \/ Op(r) = "getChats"
          /\ Op(r) = "joinAllChats" => Who(r) \in Members(c)
          /\ Op(r) = "joinProjectChats" => Who(r) = Admin[c]

Checked == \A r \in Request : CheckedOf(r)

\* Only requests that have begun are heard of, and those answered were begun.
Begun ==
    /\ \A q \in Request : \A r \in began[q] : Served(r)
    /\ \A k \in Client : \A e \in heard[k] : pc[e[1]] # "idle"

IInv == TypeOK /\ Control /\ Closed /\ Checked /\ Begun /\ RoomForAReason /\ ClosedRoomHearsOnly

-----------------------------------------------------------------------------
(* Types                                                                   *)

LEMMA RequestTypes ==
    ASSUME req \in Plan, NEW r \in Request
    PROVE  /\ By(r) \in Client /\ Who(r) \in User /\ req[r].chat \in Chat
           /\ Op(r) \in Operation
BY RoomsAssumption DEF Op, By, Who

\* Moving a row to the front keeps all places apart.
LEMMA LaterTypes ==
    ASSUME TypeOK, NEW c \in Chat
    PROVE  /\ Later(c) \in [Chat -> Nat]
           /\ \A d, e \in Chat : Later(c)[d] = Later(c)[e] => d = e
<1>1. /\ place \in [Chat -> Nat] /\ \A d, e \in Chat : place[d] = place[e] => d = e
  BY DEF TypeOK
<1>2. \A d \in Chat : Later(c)[d] = IF d = c THEN 0 ELSE IF place[d] < place[c] THEN place[d] + 1 ELSE place[d]
  BY DEF Later
<1>3. Later(c) \in [Chat -> Nat]
  BY <1>1 DEF Later
<1>4. ASSUME NEW d \in Chat, NEW e \in Chat, d # e PROVE Later(c)[d] # Later(c)[e]
  <2>1. place[c] \in Nat /\ place[d] \in Nat /\ place[e] \in Nat /\ place[d] # place[e]
        /\ (d # c => place[d] # place[c]) /\ (e # c => place[e] # place[c])
    BY <1>1, <1>4
  <2> QED
    BY <1>2, <1>4, <2>1
<1> QED
  BY <1>3, <1>4

LEMMA BumpTypes ==
    ASSUME TypeOK, NEW c \in Chat, Bump(c)
    PROVE  /\ place' \in [Chat -> Nat] /\ \A d, e \in Chat : place'[d] = place'[e] => d = e
           /\ bumped' \in [Request -> SUBSET Chat]
<1>1. place' = Later(c)
  BY DEF Bump
<1>2. bumped' \in [Request -> SUBSET Chat]
  BY DEF Bump, TypeOK
<1> QED
  BY <1>1, <1>2, LaterTypes

LEMMA SliceSubset ==
    ASSUME NEW S, NEW n
    PROVE  Slice(S, n) \subseteq S
BY DEF Slice

LEMMA StoredTypes ==
    ASSUME TypeOK
    PROVE  Stored \subseteq Request \X Chat
BY DEF TypeOK, Stored, Range

LEMMA StepTypeOK ==
    ASSUME TypeOK, Control, NEW r \in Request, Step(r)
    PROVE  TypeOK'
<1>0. /\ By(r) \in Client /\ chat[r] \in Chat /\ Op(r) \in Operation
      /\ req[r].chat \in Chat
  BY RequestTypes DEF TypeOK
<1> USE <1>0 DEF TypeOK, sockets, rows, ask, work, notes, Goes, Awaiting
<1>1. CASE Identified(r)
  BY <1>1 DEF Identified
<1>2. CASE Fail(r)
  BY <1>2 DEF Fail
<1>3. CASE ChatAllowed(r)
  BY <1>3 DEF ChatAllowed
<1>4. CASE JoinChat(r)
  BY <1>4 DEF JoinChat, Enter, Emit
<1>5. CASE MobileJoinChat(r)
  BY <1>5 DEF MobileJoinChat, Enter, Emit
<1>6. CASE LeaveChat(r)
  BY <1>6 DEF LeaveChat, Quit, Emit
<1>7. CASE MobileLeaveChat(r)
  BY <1>7 DEF MobileLeaveChat, Quit, Emit
<1>8. CASE ListChats(r)
  <2>1. Slice(ChatsOf(Who(r)), 0) \subseteq Chat
    BY SliceSubset DEF ChatsOf
  <2> QED
    BY <1>8, <2>1 DEF ListChats
<1>9. CASE ListProjectChats(r)
  <2>1. Slice(ProjectChatsOf(ProjectOf[chat[r]], Who(r)), 0) \subseteq Chat
    BY SliceSubset DEF ProjectChatsOf
  <2> QED
    BY <1>9, <2>1 DEF ListProjectChats
<1>10. CASE JoinAllChats(r)
  BY <1>10 DEF JoinAllChats, Enter, Emit
<1>11. CASE JoinProjectChats(r)
  BY <1>11 DEF JoinProjectChats, Enter, Emit
<1>12. CASE Typing(r)
  BY <1>12 DEF Typing, Tells, Emit
<1>13. CASE ChatUpdate(r)
  BY <1>13 DEF ChatUpdate, Tells, Emit
<1>14. CASE MessageUpdate(r)
  BY <1>14 DEF MessageUpdate, Tells, Emit
<1>15. CASE ReadChat(r)
  BY <1>15, BumpTypes DEF ReadChat
<1>16. CASE MarkAsRead(r)
  BY <1>16 DEF MarkAsRead, Tells, Emit
<1>17. CASE ParticipantStatusTo(r)
  BY <1>17 DEF ParticipantStatusTo, Tells, Emit
<1>18. CASE ParticipantStatusUpdate(r)
  BY <1>18 DEF ParticipantStatusUpdate, Tells, Emit
<1>19. CASE FindParticipants(r)
  BY <1>19 DEF FindParticipants
<1>20. CASE OpenChat(r)
  <2>1. PICK c \in todo[r] :
           /\ chat' = [chat EXCEPT ![r] = c]
           /\ todo' = [todo EXCEPT ![r] = @ \ {c}]
           /\ IF row[c] = "absent" THEN row' = [row EXCEPT ![c] = "active"] /\ Bump(c)
              ELSE UNCHANGED <<row, place, bumped>>
    BY <1>20 DEF OpenChat
  <2>2. c \in Chat
    BY <2>1
  <2>3. /\ row' \in [Chat -> {"absent", "active", "inactive", "gone"}]
        /\ place' \in [Chat -> Nat] /\ \A d, e \in Chat : place'[d] = place'[e] => d = e
        /\ bumped' \in [Request -> SUBSET Chat]
    BY <2>1, <2>2, BumpTypes
  <2> QED
    BY <1>20, <2>1, <2>2, <2>3 DEF OpenChat
<1>21. CASE Admit(r)
  BY <1>21 DEF Admit
<1>22. CASE StoreMessage(r)
  BY <1>22 DEF StoreMessage
<1>23. CASE TouchChat(r)
  BY <1>23, BumpTypes DEF TouchChat
<1>24. CASE SendMessage(r)
  BY <1>24 DEF SendMessage, Tells, Emit
<1>25. CASE MobileSendMessage(r)
  BY <1>25 DEF MobileSendMessage, Tells, Emit
<1>26. CASE CreateMessage(r)
  BY <1>26 DEF CreateMessage, TellAll
<1>27. CASE BroadcastOne(r)
  BY <1>27 DEF BroadcastOne
<1>28. CASE Skip(r)
  <2>1. pc' \in [Request -> {"idle", "done", "failed"} \cup Awaiting]
    BY <1>28 DEF Skip
  <2>2. todo' \in [Request -> SUBSET Chat]
    <3>1. UNCHANGED todo \/ \E c \in todo[r] : todo' = [todo EXCEPT ![r] = @ \ {c}]
      BY <1>28 DEF Skip
    <3>2. CASE UNCHANGED todo
      BY <3>2
    <3>3. ASSUME NEW c \in todo[r], todo' = [todo EXCEPT ![r] = @ \ {c}]
          PROVE  todo' \in [Request -> SUBSET Chat]
      BY <3>3
    <3> QED
      BY <3>1, <3>2, <3>3
  <2> QED
    BY <1>28, <2>1, <2>2 DEF Skip
<1>29. CASE SendBroadcast(r)
  BY <1>29 DEF SendBroadcast, TellAll
<1>30. CASE FindMessages(r)
  <2>1. LatestOf(chat[r]) \subseteq Request \X Chat
    BY StoredTypes DEF LatestOf
  <2> QED
    BY <1>30, <2>1 DEF FindMessages
<1>31. CASE GetMessages(r)
  BY <1>31 DEF GetMessages
<1>32. CASE GetChats(r)
  <2>1. Slice(ChatsOf(Who(r)), offset[r]) \subseteq Chat
    BY SliceSubset DEF ChatsOf
  <2>2. /\ offset' \in [Request -> Nat] /\ pc' \in [Request -> {"idle", "done", "failed"} \cup Awaiting]
    BY <1>32, RoomsAssumption DEF GetChats
  <2>3. list' \in [Request -> SUBSET Chat]
    BY <1>32, <2>1 DEF GetChats
  <2> QED
    BY <1>32, <2>2, <2>3 DEF GetChats
<1> HIDE DEF TypeOK, sockets, rows, ask, work, notes, Goes, Awaiting
<1> QED
  BY <1>1, <1>2, <1>3, <1>4, <1>5, <1>6, <1>7, <1>8, <1>9, <1>10, <1>11, <1>12, <1>13, <1>14,
     <1>15, <1>16, <1>17, <1>18, <1>19, <1>20, <1>21, <1>22, <1>23, <1>24, <1>25, <1>26, <1>27,
     <1>28, <1>29, <1>30, <1>31, <1>32 DEF Step

LEMMA NextTypeOK == TypeOK /\ Control /\ [Next]_vars => TypeOK'
<1> SUFFICES ASSUME TypeOK, Control, [Next]_vars PROVE TypeOK'
  OBVIOUS
<1>1. ASSUME NEW r \in Request, Begin(r) PROVE TypeOK'
  <2> USE <1>1 DEF Begin, TypeOK, Goes, Awaiting
  <2>1. steady' \subseteq Request /\ began' \in [Request -> SUBSET Request]
    OBVIOUS
  <2>2. past' \in [Request -> [Chat -> {"absent", "active", "inactive", "gone"}]]
    OBVIOUS
  <2> QED
    BY <2>1, <2>2 DEF sockets, rows, work
<1>2. ASSUME NEW r \in Request, Step(r) PROVE TypeOK'
  BY <1>2, StepTypeOK
<1>3. ASSUME NEW k \in Drops, Disconnect(k) PROVE TypeOK'
  BY <1>3 DEF Disconnect, Quit, TypeOK, rows, ask, work
<1>4. ASSUME NEW c \in Mortal, ChatClosed(c) PROVE TypeOK'
  <2>1. /\ place' \in [Chat -> Nat] /\ \A d, e \in Chat : place'[d] = place'[e] => d = e
        /\ bumped' \in [Request -> SUBSET Chat]
    BY <1>4, BumpTypes, RoomsAssumption DEF ChatClosed
  <2> QED
    BY <1>4, <2>1 DEF ChatClosed, Shrink, TypeOK, sockets, ask, work
<1>5. ASSUME NEW c \in Mortal, ChatDeleted(c) PROVE TypeOK'
  BY <1>5 DEF ChatDeleted, Shrink, TypeOK, sockets, ask, work
<1>6. CASE UNCHANGED vars
  BY <1>6 DEF vars, sockets, rows, ask, work, notes, TypeOK
<1> QED
  BY <1>1, <1>2, <1>3, <1>4, <1>5, <1>6 DEF Next

-----------------------------------------------------------------------------
(* What a step of a request leaves alone                                   *)

LEMMA StepKeeps ==
    ASSUME TypeOK, NEW r \in Request, Step(r)
    PROVE  /\ UNCHANGED <<up, ask>>
           /\ pc[r] \in Awaiting /\ pc'[r] \in Awaiting \cup {"done", "failed"}
           /\ \A q \in Request \ {r} : pc'[q] = pc[q] /\ chat'[q] = chat[q] /\ list'[q] = list[q]
           /\ pc'[r] = "done" => chat'[r] = chat[r]
           /\ row' = row \/ \E c \in Chat : row[c] = "absent" /\ row' = [row EXCEPT ![c] = "active"]
<1> USE DEF TypeOK, sockets, rows, ask, work, notes, Goes, Awaiting
<1>1. CASE Identified(r)
  BY <1>1 DEF Identified
<1>2. CASE Fail(r)
  BY <1>2 DEF Fail
<1>3. CASE ChatAllowed(r)
  BY <1>3 DEF ChatAllowed
<1>4. CASE JoinChat(r)
  BY <1>4 DEF JoinChat, Enter, Emit
<1>5. CASE MobileJoinChat(r)
  BY <1>5 DEF MobileJoinChat, Enter, Emit
<1>6. CASE LeaveChat(r)
  BY <1>6 DEF LeaveChat, Quit, Emit
<1>7. CASE MobileLeaveChat(r)
  BY <1>7 DEF MobileLeaveChat, Quit, Emit
<1>8. CASE ListChats(r)
  BY <1>8 DEF ListChats
<1>9. CASE ListProjectChats(r)
  BY <1>9 DEF ListProjectChats
<1>10. CASE JoinAllChats(r)
  BY <1>10 DEF JoinAllChats, Enter, Emit
<1>11. CASE JoinProjectChats(r)
  BY <1>11 DEF JoinProjectChats, Enter, Emit
<1>12. CASE Typing(r)
  BY <1>12 DEF Typing, Tells, Emit
<1>13. CASE ChatUpdate(r)
  BY <1>13 DEF ChatUpdate, Tells, Emit
<1>14. CASE MessageUpdate(r)
  BY <1>14 DEF MessageUpdate, Tells, Emit
<1>15. CASE ReadChat(r)
  BY <1>15 DEF ReadChat
<1>16. CASE MarkAsRead(r)
  BY <1>16 DEF MarkAsRead, Tells, Emit
<1>17. CASE ParticipantStatusTo(r)
  BY <1>17 DEF ParticipantStatusTo, Tells, Emit
<1>18. CASE ParticipantStatusUpdate(r)
  BY <1>18 DEF ParticipantStatusUpdate, Tells, Emit
<1>19. CASE FindParticipants(r)
  BY <1>19 DEF FindParticipants
<1>20. CASE OpenChat(r)
  BY <1>20 DEF OpenChat
<1>21. CASE Admit(r)
  BY <1>21 DEF Admit
<1>22. CASE StoreMessage(r)
  BY <1>22 DEF StoreMessage
<1>23. CASE TouchChat(r)
  BY <1>23 DEF TouchChat
<1>24. CASE SendMessage(r)
  BY <1>24 DEF SendMessage, Tells, Emit
<1>25. CASE MobileSendMessage(r)
  BY <1>25 DEF MobileSendMessage, Tells, Emit
<1>26. CASE CreateMessage(r)
  BY <1>26 DEF CreateMessage, TellAll
<1>27. CASE BroadcastOne(r)
  BY <1>27 DEF BroadcastOne
<1>28. CASE Skip(r)
  <2>1. \A q \in Request \ {r} : pc'[q] = pc[q] /\ pc[r] \in Awaiting /\ pc'[r] \in Awaiting
    BY <1>28 DEF Skip
  <2>2. UNCHANGED <<up, row, ask, chat, list>>
    BY <1>28 DEF Skip
  <2>3. pc[r] \in Awaiting /\ pc'[r] \in Awaiting
    BY <1>28 DEF Skip
  <2> QED
    BY <2>1, <2>2, <2>3
<1>29. CASE SendBroadcast(r)
  BY <1>29 DEF SendBroadcast, TellAll
<1>30. CASE FindMessages(r)
  BY <1>30 DEF FindMessages
<1>31. CASE GetMessages(r)
  BY <1>31 DEF GetMessages
<1>32. CASE GetChats(r)
  BY <1>32 DEF GetChats
<1> HIDE DEF TypeOK, sockets, rows, ask, work, notes, Goes, Awaiting
<1> QED
  BY <1>1, <1>2, <1>3, <1>4, <1>5, <1>6, <1>7, <1>8, <1>9, <1>10, <1>11, <1>12, <1>13, <1>14,
     <1>15, <1>16, <1>17, <1>18, <1>19, <1>20, <1>21, <1>22, <1>23, <1>24, <1>25, <1>26, <1>27,
     <1>28, <1>29, <1>30, <1>31, <1>32 DEF Step

LEMMA StepControl ==
    ASSUME TypeOK, Control, NEW r \in Request, Step(r)
    PROVE  Control'
<1>0. /\ req' = req /\ Op(r)' = Op(r) /\ Op(r) \in Operation
  BY StepKeeps, RequestTypes DEF Op, ask, TypeOK
<1>a. ControlOf(r)
  BY DEF Control
<1>b. ControlOf(r)'
  <2> USE <1>0, <1>a DEF ControlOf, TypeOK, Goes, Sends, SocketSends, Immediate, Leaves, Listing,
          Looking,
          Http, Operation
  <2>1. CASE Identified(r)
    BY <2>1 DEF Identified
  <2>2. CASE Fail(r)
    BY <2>2 DEF Fail
  <2>3. CASE ChatAllowed(r)
    BY <2>3 DEF ChatAllowed
  <2>4. CASE JoinChat(r)
    BY <2>4 DEF JoinChat
  <2>5. CASE MobileJoinChat(r)
    BY <2>5 DEF MobileJoinChat
  <2>6. CASE LeaveChat(r)
    BY <2>6 DEF LeaveChat
  <2>7. CASE MobileLeaveChat(r)
    BY <2>7 DEF MobileLeaveChat
  <2>8. CASE ListChats(r)
    BY <2>8 DEF ListChats
  <2>9. CASE ListProjectChats(r)
    BY <2>9 DEF ListProjectChats
  <2>10. CASE JoinAllChats(r)
    BY <2>10 DEF JoinAllChats
  <2>11. CASE JoinProjectChats(r)
    BY <2>11 DEF JoinProjectChats
  <2>12. CASE Typing(r)
    BY <2>12 DEF Typing, Tells
  <2>13. CASE ChatUpdate(r)
    BY <2>13 DEF ChatUpdate, Tells
  <2>14. CASE MessageUpdate(r)
    BY <2>14 DEF MessageUpdate, Tells
  <2>15. CASE ReadChat(r)
    BY <2>15 DEF ReadChat
  <2>16. CASE MarkAsRead(r)
    BY <2>16 DEF MarkAsRead, Tells
  <2>17. CASE ParticipantStatusTo(r)
    BY <2>17 DEF ParticipantStatusTo, Tells
  <2>18. CASE ParticipantStatusUpdate(r)
    BY <2>18 DEF ParticipantStatusUpdate, Tells
  <2>19. CASE FindParticipants(r)
    BY <2>19 DEF FindParticipants
  <2>20. CASE OpenChat(r)
    BY <2>20 DEF OpenChat
  <2>21. CASE Admit(r)
    BY <2>21 DEF Admit
  <2>22. CASE StoreMessage(r)
    BY <2>22 DEF StoreMessage
  <2>23. CASE TouchChat(r)
    BY <2>23 DEF TouchChat
  <2>24. CASE SendMessage(r)
    BY <2>24 DEF SendMessage, Tells
  <2>25. CASE MobileSendMessage(r)
    BY <2>25 DEF MobileSendMessage, Tells
  <2>26. CASE CreateMessage(r)
    BY <2>26 DEF CreateMessage
  <2>27. CASE BroadcastOne(r)
    BY <2>27 DEF BroadcastOne
  <2>28. CASE Skip(r)
    BY <2>28 DEF Skip
  <2>29. CASE SendBroadcast(r)
    BY <2>29 DEF SendBroadcast
  <2>30. CASE FindMessages(r)
    BY <2>30 DEF FindMessages
  <2>31. CASE GetMessages(r)
    BY <2>31 DEF GetMessages
  <2>32. CASE GetChats(r)
    BY <2>32 DEF GetChats
  <2> HIDE DEF ControlOf, TypeOK
  <2> QED
    BY <2>1, <2>2, <2>3, <2>4, <2>5, <2>6, <2>7, <2>8, <2>9, <2>10, <2>11, <2>12, <2>13, <2>14,
       <2>15, <2>16, <2>17, <2>18, <2>19, <2>20, <2>21, <2>22, <2>23, <2>24, <2>25, <2>26, <2>27,
       <2>28, <2>29, <2>30, <2>31, <2>32 DEF Step
<1>c. ASSUME NEW q \in Request \ {r} PROVE ControlOf(q)'
  BY <1>0, <1>c, StepKeeps DEF Control, ControlOf, Op
<1> QED
  BY <1>b, <1>c DEF Control

-----------------------------------------------------------------------------
(* What requests have checked                                              *)

LEMMA StepClosed ==
    ASSUME TypeOK, Closed, NEW r \in Request, Step(r)
    PROVE  Closed'
<1>1. past' = past
  BY StepKeeps DEF ask
<1>2. \A c \in Chat : /\ row[c] = "gone" => row'[c] = "gone"
                      /\ row[c] \in {"inactive", "gone"} => row'[c] \in {"inactive", "gone"}
  BY StepKeeps DEF TypeOK
<1> QED
  BY <1>1, <1>2 DEF Closed

\* What is now active, or exists, was so when the request began, or came since.
LEMMA Open ==
    ASSUME TypeOK, Closed, NEW r \in Request, NEW c \in Chat
    PROVE  /\ Exists(c) => past[r][c] # "gone"
           /\ row[c] = "active" => past[r][c] \notin {"inactive", "gone"}
BY DEF Closed, Exists

LEMMA StepCheckedOne ==
    ASSUME TypeOK, Control, Closed, Checked, NEW r \in Request, Step(r)
    PROVE  CheckedOf(r)'
<1>0. /\ UNCHANGED ask /\ Op(r)' = Op(r) /\ Who(r)' = Who(r) /\ past' = past /\ pc'[r] # "idle"
      /\ \A c : Members(c)' = Members(c)
  BY StepKeeps DEF Op, Who, ask, Members, Awaiting
<1>a. ControlOf(r) /\ CheckedOf(r) /\ TypeOK
  BY DEF Control, Checked
<1>o. \A c \in Chat : /\ Exists(c) => past[r][c] # "gone"
                      /\ row[c] = "active" => past[r][c] \notin {"inactive", "gone"}
  BY Open
<1>l. list[r] \subseteq Chat /\ chat[r] \in Chat /\ pc[r] \in Awaiting
  BY StepKeeps DEF TypeOK
<1>s. ASSUME UNCHANGED work,
             Op(r) \in Looking /\ pc'[r] \in {"page", "count", "push"} =>
                past[r][chat[r]] # "gone" /\ Who(r) \in Members(chat[r]),
             Op(r) \in Sends /\ pc'[r] \in {"insert", "touch", "push"} =>
                past[r][chat[r]] \notin {"inactive", "gone"}
      PROVE  CheckedOf(r)'
  BY <1>0, <1>a, <1>s DEF CheckedOf, work
<1>1. CASE Identified(r)
  <2>1. UNCHANGED work /\ pc'[r] \in {"find", "list", "participants"}
    BY <1>0, <1>l, <1>1 DEF Identified, Goes, TypeOK
  <2> QED
    BY <1>s, <2>1
<1>2. CASE Fail(r)
  BY <1>0, <1>a, <1>l, <1>o, <1>s, <1>2 DEF Fail, TypeOK, ControlOf, CheckedOf
<1>3. CASE ChatAllowed(r)
  <2>1. UNCHANGED work /\ Op(r) \in Looking /\ Exists(chat[r]) /\ Who(r) \in Members(chat[r])
        /\ pc'[r] \in {"page", "count"}
    BY <1>a, <1>l, <1>3 DEF ChatAllowed, Goes, TypeOK
  <2> QED
    BY <1>o, <1>l, <1>s, <2>1
<1>4. CASE JoinChat(r)
  BY <1>0, <1>a, <1>l, <1>o, <1>s, <1>4 DEF JoinChat, Goes, TypeOK, ControlOf, CheckedOf
<1>5. CASE MobileJoinChat(r)
  BY <1>0, <1>a, <1>l, <1>o, <1>s, <1>5 DEF MobileJoinChat, Goes, TypeOK, ControlOf, CheckedOf
<1>6. CASE LeaveChat(r)
  BY <1>0, <1>a, <1>l, <1>o, <1>s, <1>6 DEF LeaveChat, Goes, TypeOK, ControlOf, CheckedOf
<1>7. CASE MobileLeaveChat(r)
  BY <1>0, <1>a, <1>l, <1>o, <1>s, <1>7 DEF MobileLeaveChat, Goes, TypeOK, ControlOf, CheckedOf
<1>8. CASE ListChats(r)
  <2>1. /\ list'[r] = Slice(ChatsOf(Who(r)), 0) /\ pc'[r] = "count" /\ chat' = chat
        /\ Op(r) \in {"joinAllChats", "participantStatusUpdate"}
    BY <1>a, <1>l, <1>8 DEF ListChats, Goes, TypeOK
  <2>2. \A c \in list'[r] : c \in Chat /\ row[c] = "active" /\ Who(r) \in Members(c)
    BY <2>1, SliceSubset DEF ChatsOf
  <2> QED
    BY <1>0, <1>o, <2>1, <2>2 DEF CheckedOf, Looking, Sends, SocketSends
<1>9. CASE ListProjectChats(r)
  <2>1. /\ list'[r] = Slice(ProjectChatsOf(ProjectOf[chat[r]], Who(r)), 0) /\ pc'[r] = "count" /\ chat' = chat
        /\ Op(r) \in {"joinProjectChats"}
    BY <1>a, <1>l, <1>9 DEF ListProjectChats, Goes, TypeOK
  <2>2. \A c \in list'[r] : c \in Chat /\ row[c] = "active" /\ Who(r) = Admin[c]
    BY <2>1, SliceSubset DEF ProjectChatsOf
  <2> QED
    BY <1>0, <1>o, <2>1, <2>2 DEF CheckedOf, Looking, Sends, SocketSends
<1>10. CASE JoinAllChats(r)
  BY <1>0, <1>a, <1>l, <1>o, <1>s, <1>10 DEF JoinAllChats, Goes, TypeOK, ControlOf, CheckedOf
<1>11. CASE JoinProjectChats(r)
  BY <1>0, <1>a, <1>l, <1>o, <1>s, <1>11 DEF JoinProjectChats, Goes, TypeOK, ControlOf, CheckedOf
<1>12. CASE Typing(r)
  BY <1>0, <1>a, <1>l, <1>o, <1>s, <1>12 DEF Typing, Tells, Goes, TypeOK, ControlOf, CheckedOf
<1>13. CASE ChatUpdate(r)
  BY <1>0, <1>a, <1>l, <1>o, <1>s, <1>13 DEF ChatUpdate, Tells, Goes, TypeOK, ControlOf, CheckedOf
<1>14. CASE MessageUpdate(r)
  BY <1>0, <1>a, <1>l, <1>o, <1>s, <1>14 DEF MessageUpdate, Tells, Goes, TypeOK, ControlOf,
     CheckedOf
<1>15. CASE ReadChat(r)
  <2>1. UNCHANGED work /\ pc'[r] = "push" /\ Exists(chat[r])
        /\ Op(r) = "markAsRead" /\ pc[r] = "count"
    BY <1>a, <1>l, <1>15 DEF ReadChat, Goes, TypeOK
  <2> QED
    BY <1>0, <1>a, <1>l, <1>s, <2>1 DEF ControlOf, CheckedOf, Sends, SocketSends, Looking, Listing,
       Immediate
<1>16. CASE MarkAsRead(r)
  BY <1>0, <1>a, <1>l, <1>o, <1>s, <1>16 DEF MarkAsRead, Tells, Goes, TypeOK, ControlOf, CheckedOf
<1>17. CASE ParticipantStatusTo(r)
  BY <1>0, <1>a, <1>l, <1>o, <1>s, <1>17 DEF ParticipantStatusTo, Tells, Goes, TypeOK, ControlOf,
     CheckedOf
<1>18. CASE ParticipantStatusUpdate(r)
  BY <1>0, <1>a, <1>l, <1>o, <1>s, <1>18 DEF ParticipantStatusUpdate, Tells, Goes, TypeOK,
     ControlOf, CheckedOf
<1>19. CASE FindParticipants(r)
  <2>1. pc'[r] = "next" /\ list' = list
    BY <1>a, <1>l, <1>19 DEF FindParticipants, Goes, TypeOK
  <2> QED
    BY <1>0, <1>a, <2>1 DEF CheckedOf
<1>20. CASE OpenChat(r)
  <2>1. pc'[r] = "find" /\ list' = list
    BY <1>a, <1>l, <1>20 DEF OpenChat, Goes, TypeOK
  <2> QED
    BY <1>0, <1>a, <2>1 DEF CheckedOf
<1>21. CASE Admit(r)
  <2>1. UNCHANGED work /\ pc'[r] = "insert" /\ row[chat[r]] = "active"
    BY <1>a, <1>l, <1>21 DEF Admit, Goes, TypeOK
  <2> QED
    BY <1>o, <1>l, <1>s, <2>1
<1>22. CASE StoreMessage(r)
  <2>1. UNCHANGED work /\ pc[r] = "insert" /\ pc'[r] = "touch"
    BY <1>a, <1>l, <1>22 DEF StoreMessage, Goes, TypeOK
  <2> QED
    BY <1>a, <1>s, <2>1 DEF CheckedOf
<1>23. CASE TouchChat(r)
  <2>1. UNCHANGED work /\ pc'[r] = "push" /\ Exists(chat[r])
        /\ pc[r] = "touch"
    BY <1>a, <1>l, <1>23 DEF TouchChat, Goes, TypeOK
  <2> QED
    BY <1>0, <1>a, <1>l, <1>s, <2>1 DEF ControlOf, CheckedOf, Sends, SocketSends, Looking, Listing,
       Immediate
<1>24. CASE SendMessage(r)
  BY <1>0, <1>a, <1>l, <1>o, <1>s, <1>24 DEF SendMessage, Tells, Goes, TypeOK, ControlOf, CheckedOf
<1>25. CASE MobileSendMessage(r)
  BY <1>0, <1>a, <1>l, <1>o, <1>s, <1>25 DEF MobileSendMessage, Tells, Goes, TypeOK, ControlOf,
     CheckedOf
<1>26. CASE CreateMessage(r)
  BY <1>0, <1>a, <1>l, <1>o, <1>s, <1>26 DEF CreateMessage, Goes, TypeOK, ControlOf, CheckedOf
<1>27. CASE BroadcastOne(r)
  <2>1. /\ pc'[r] = "next" /\ list'[r] = list[r] \cup {chat[r]} /\ Op(r) = "sendBroadcast"
        /\ pc[r] = "push" /\ chat' = chat
    BY <1>a, <1>l, <1>27 DEF BroadcastOne, Goes, TypeOK
  <2>2. past[r][chat[r]] \notin {"inactive", "gone"}
    BY <1>a, <2>1 DEF CheckedOf, Sends
  <2> QED
    BY <1>0, <1>a, <2>1, <2>2 DEF CheckedOf
<1>28. CASE Skip(r)
  <2>1. pc'[r] = "next" /\ list' = list
    BY <1>a, <1>l, <1>28 DEF Skip, TypeOK
  <2> QED
    BY <1>0, <1>a, <2>1 DEF CheckedOf
<1>29. CASE SendBroadcast(r)
  BY <1>0, <1>a, <1>l, <1>o, <1>s, <1>29 DEF SendBroadcast, Goes, TypeOK, ControlOf, CheckedOf
<1>30. CASE FindMessages(r)
  <2>1. pc[r] = "page" /\ pc'[r] = "count" /\ list' = list /\ chat' = chat
    BY <1>a, <1>l, <1>30 DEF FindMessages, Goes, TypeOK
  <2> QED
    BY <1>0, <1>a, <2>1 DEF CheckedOf
<1>31. CASE GetMessages(r)
  BY <1>0, <1>a, <1>l, <1>o, <1>s, <1>31 DEF GetMessages, Goes, TypeOK, ControlOf, CheckedOf
<1>32. CASE GetChats(r)
  <2>1. Op(r) = "getChats" /\ pc'[r] \in {"list", "done"}
    BY <1>a, <1>l, <1>32 DEF GetChats, Goes, TypeOK
  <2> QED
    BY <1>0, <2>1 DEF CheckedOf, Looking, Sends, SocketSends
<1> QED
  BY <1>1, <1>2, <1>3, <1>4, <1>5, <1>6, <1>7, <1>8, <1>9, <1>10, <1>11, <1>12, <1>13, <1>14,
     <1>15, <1>16, <1>17, <1>18, <1>19, <1>20, <1>21, <1>22, <1>23, <1>24, <1>25, <1>26, <1>27,
     <1>28, <1>29, <1>30, <1>31, <1>32 DEF Step

LEMMA StepChecked ==
    ASSUME TypeOK, Control, Closed, Checked, NEW r \in Request, Step(r)
    PROVE  Checked'
<1>1. ASSUME NEW q \in Request \ {r} PROVE CheckedOf(q)'
  BY <1>1, StepKeeps DEF Checked, CheckedOf, Op, Who, Members, ask
<1> QED
  BY <1>1, StepCheckedOne DEF Checked

-----------------------------------------------------------------------------
(* What the rooms hear                                                     *)

\* Request r may be heard of in the room of c.
Audible(r, c) ==
    /\ past[r][c] = "gone" => Op(r) \in Immediate
    /\ past[r][c] = "inactive" => Op(r) \in Immediate \cup Looking

Hears(r, C) ==
    /\ \A c \in C : Audible(r, c)
    /\ \A k \in Client : \A e \in heard'[k] : e \in heard[k] \/ (e[1] = r /\ e[2] \in C)

LEMMA EmitHears ==
    ASSUME TypeOK, NEW r \in Request, NEW C, NEW S, Emit(r, C, S), \A c \in C : Audible(r, c)
    PROVE  Hears(r, C)
<1>1. ASSUME NEW k \in Client, NEW e \in heard'[k], e \notin heard[k] PROVE e[1] = r /\ e[2] \in C
  <2>1. e \in {r} \X (C \cap room[k])
    BY <1>1 DEF Emit
  <2> QED
    BY <2>1
<1> QED
  BY <1>1 DEF Hears

LEMMA TellAllHears ==
    ASSUME TypeOK, NEW r \in Request, NEW C, TellAll(r, C), \A c \in C : Audible(r, c)
    PROVE  Hears(r, C)
<1>1. ASSUME NEW k \in Client, NEW e \in heard'[k], e \notin heard[k] PROVE e[1] = r /\ e[2] \in C
  <2>1. e \in {r} \X C
    BY <1>1 DEF TellAll
  <2> QED
    BY <2>1
<1> QED
  BY <1>1 DEF Hears

LEMMA StepHears ==
    ASSUME TypeOK, Control, Checked, NEW r \in Request, Step(r)
    PROVE  heard' = heard \/ \E C : Hears(r, C)
<1>a. ControlOf(r) /\ CheckedOf(r)
  BY DEF Control, Checked
<1>l. ASSUME \/ Op(r) \in Immediate
             \/ Op(r) \in Looking /\ pc[r] \in {"count", "push"}
             \/ Op(r) \in Sends /\ pc[r] = "push"
      PROVE  Audible(r, chat[r])
  BY <1>a, <1>l DEF CheckedOf, Audible
<1> DEFINE C == {chat[r]}
<1>e. ASSUME Audible(r, chat[r]), NEW S, Emit(r, C, S) PROVE Hears(r, C)
  BY <1>e, EmitHears
<1>1. CASE Identified(r)
  BY <1>1 DEF Identified, sockets
<1>2. CASE Fail(r)
  BY <1>2 DEF Fail, sockets
<1>3. CASE ChatAllowed(r)
  BY <1>3 DEF ChatAllowed, sockets
<1>4. CASE JoinChat(r)
  <2>1. Op(r) \in Looking /\ pc[r] = "count" /\ \E S : Emit(r, C, S)
    BY <1>4 DEF JoinChat, Goes, Looking
  <2> QED
    BY <1>l, <1>e, <2>1
<1>5. CASE MobileJoinChat(r)
  <2>1. Op(r) \in Immediate /\ pc[r] = "auth" /\ \E S : Emit(r, C, S)
    BY <1>5 DEF MobileJoinChat, Goes, Immediate
  <2> QED
    BY <1>l, <1>e, <2>1
<1>6. CASE LeaveChat(r)
  <2>1. Op(r) \in Immediate /\ pc[r] = "auth" /\ \E S : Emit(r, C, S)
    BY <1>6 DEF LeaveChat, Goes, Immediate
  <2> QED
    BY <1>l, <1>e, <2>1
<1>7. CASE MobileLeaveChat(r)
  <2>1. Op(r) \in Immediate /\ pc[r] = "auth" /\ \E S : Emit(r, C, S)
    BY <1>7 DEF MobileLeaveChat, Goes, Immediate
  <2> QED
    BY <1>l, <1>e, <2>1
<1>8. CASE ListChats(r)
  BY <1>8 DEF ListChats, sockets
<1>9. CASE ListProjectChats(r)
  BY <1>9 DEF ListProjectChats, sockets
<1>10. CASE JoinAllChats(r)
  BY <1>10 DEF JoinAllChats, sockets
<1>11. CASE JoinProjectChats(r)
  BY <1>11 DEF JoinProjectChats, sockets
<1>12. CASE Typing(r)
  <2>1. Op(r) \in Immediate /\ pc[r] = "auth" /\ \E S : Emit(r, C, S)
    BY <1>12 DEF Typing, Tells, Goes, Immediate
  <2> QED
    BY <1>l, <1>e, <2>1
<1>13. CASE ChatUpdate(r)
  <2>1. Op(r) \in Looking /\ pc[r] = "count" /\ \E S : Emit(r, C, S)
    BY <1>13 DEF ChatUpdate, Tells, Goes, Looking
  <2> QED
    BY <1>l, <1>e, <2>1
<1>14. CASE MessageUpdate(r)
  <2>1. Op(r) \in Looking /\ pc[r] = "count" /\ \E S : Emit(r, C, S)
    BY <1>14 DEF MessageUpdate, Tells, Goes, Looking
  <2> QED
    BY <1>l, <1>e, <2>1
<1>15. CASE ReadChat(r)
  BY <1>15 DEF ReadChat, sockets
<1>16. CASE MarkAsRead(r)
  <2>1. Op(r) \in Looking /\ pc[r] = "push" /\ \E S : Emit(r, C, S)
    BY <1>16 DEF MarkAsRead, Tells, Goes, Looking
  <2> QED
    BY <1>l, <1>e, <2>1
<1>17. CASE ParticipantStatusTo(r)
  <2>1. Op(r) \in Immediate /\ pc[r] = "auth" /\ \E S : Emit(r, C, S)
    BY <1>17 DEF ParticipantStatusTo, Tells, Goes, Immediate
  <2> QED
    BY <1>l, <1>e, <2>1
<1>18. CASE ParticipantStatusUpdate(r)
  <2>1. Op(r) = "participantStatusUpdate" /\ Emit(r, list[r], Client)
    BY <1>18 DEF ParticipantStatusUpdate, Tells
  <2>2. \A c \in list[r] : Audible(r, c)
    BY <1>a, <2>1 DEF CheckedOf, Audible
  <2> QED
    BY <2>1, <2>2, EmitHears
<1>19. CASE FindParticipants(r)
  BY <1>19 DEF FindParticipants, sockets
<1>20. CASE OpenChat(r)
  BY <1>20 DEF OpenChat, sockets
<1>21. CASE Admit(r)
  BY <1>21 DEF Admit, sockets
<1>22. CASE StoreMessage(r)
  BY <1>22 DEF StoreMessage, sockets
<1>23. CASE TouchChat(r)
  BY <1>23 DEF TouchChat, sockets
<1>24. CASE SendMessage(r)
  <2>1. Op(r) \in Sends /\ pc[r] = "push" /\ \E S : Emit(r, C, S)
    BY <1>24 DEF SendMessage, Tells, Goes, Sends, SocketSends
  <2> QED
    BY <1>l, <1>e, <2>1
<1>25. CASE MobileSendMessage(r)
  <2>1. Op(r) \in Sends /\ pc[r] = "push" /\ \E S : Emit(r, C, S)
    BY <1>25 DEF MobileSendMessage, Tells, Goes, Sends, SocketSends
  <2> QED
    BY <1>l, <1>e, <2>1
<1>26. CASE CreateMessage(r)
  <2>1. Op(r) \in Sends /\ pc[r] = "push" /\ TellAll(r, C)
    BY <1>26 DEF CreateMessage, Goes, Sends
  <2> QED
    BY <1>l, <2>1, TellAllHears
<1>27. CASE BroadcastOne(r)
  BY <1>27 DEF BroadcastOne, sockets
<1>28. CASE Skip(r)
  BY <1>28 DEF Skip, sockets
<1>29. CASE SendBroadcast(r)
  <2>1. pc[r] = "next" /\ TellAll(r, list[r])
    BY <1>29 DEF SendBroadcast, Goes
  <2>2. \A c \in list[r] : Audible(r, c)
    BY <1>a, <2>1 DEF ControlOf, CheckedOf, Audible
  <2> QED
    BY <2>1, <2>2, TellAllHears
<1>30. CASE FindMessages(r)
  BY <1>30 DEF FindMessages, sockets
<1>31. CASE GetMessages(r)
  BY <1>31 DEF GetMessages, sockets
<1>32. CASE GetChats(r)
  BY <1>32 DEF GetChats, sockets
<1> QED
  BY <1>1, <1>2, <1>3, <1>4, <1>5, <1>6, <1>7, <1>8, <1>9, <1>10, <1>11, <1>12, <1>13, <1>14,
     <1>15, <1>16, <1>17, <1>18, <1>19, <1>20, <1>21, <1>22, <1>23, <1>24, <1>25, <1>26, <1>27,
     <1>28, <1>29, <1>30, <1>31, <1>32 DEF Step

LEMMA StepBegun ==
    ASSUME TypeOK, Control, Checked, Begun, NEW r \in Request, Step(r)
    PROVE  Begun'
<1>1. /\ UNCHANGED ask /\ pc[r] \in Awaiting /\ pc'[r] # "idle"
      /\ \A q \in Request \ {r} : pc'[q] = pc[q]
  BY StepKeeps DEF Awaiting
<1>2. ASSUME NEW q \in Request, NEW p \in began'[q] PROVE Served(p)'
  <2>1. p \in Request /\ Served(p)
    BY <1>1 DEF Begun, TypeOK, ask
  <2> QED
    BY <1>1, <2>1 DEF Served, Awaiting
<1>3. ASSUME NEW k \in Client, NEW e \in heard'[k] PROVE pc'[e[1]] # "idle"
  <2>1. e[1] = r \/ e \in heard[k]
    BY <1>3, StepHears DEF Hears
  <2>2. e \in heard[k] => e[1] \in Request
    BY DEF TypeOK
  <2> QED
    BY <1>1, <2>1, <2>2 DEF Begun
<1> QED
  BY <1>2, <1>3 DEF Begun

LEMMA StepClosedRooms ==
    ASSUME TypeOK, Control, Checked, ClosedRoomHearsOnly, NEW r \in Request, Step(r)
    PROVE  ClosedRoomHearsOnly'
<1>1. past' = past /\ \A q \in Request : Op(q)' = Op(q)
  BY StepKeeps DEF ask, Op
<1>2. ASSUME NEW k \in Client, NEW e \in heard'[k] PROVE e[1] \in Request /\ Audible(e[1], e[2])
  <2>1. CASE e \in heard[k]
    BY <2>1 DEF ClosedRoomHearsOnly, Audible, TypeOK
  <2>2. CASE e \notin heard[k]
    BY <1>2, <2>2, StepHears DEF Hears
  <2> QED
    BY <2>1, <2>2
<1> QED
  BY <1>1, <1>2 DEF ClosedRoomHearsOnly, Audible

-----------------------------------------------------------------------------
(* Who is in the rooms                                                     *)

\* A room that is entered is entered by r, whose answer says so.
Kept(r) ==
    \A k \in Client : \A c \in room'[k] :
        c \in room[k] \/ (k = By(r) /\ k \in up /\ PutIn(r, c)')

\* A room that r says its client has left is left.
Out(r) == \A c \in Chat : TakenOut(r, c)' => c \notin room'[By(r)]

LEMMA EnterKeeps ==
    ASSUME TypeOK, NEW r \in Request, NEW C, Enter(By(r), C), \A c \in C : PutIn(r, c)'
    PROVE  Kept(r)
BY DEF Kept, Enter, TypeOK

LEMMA StepKept ==
    ASSUME TypeOK, Control, Checked, NEW r \in Request, Step(r)
    PROVE  Kept(r)
<1>0. /\ UNCHANGED ask /\ Op(r)' = Op(r) /\ Who(r)' = Who(r) /\ past' = past
      /\ chat[r] \in Chat /\ list[r] \subseteq Chat /\ CheckedOf(r)
      /\ pc \in [Request -> {"idle", "done", "failed"} \cup Awaiting]
  BY StepKeeps DEF Op, Who, ask, TypeOK, Checked
<1>u. ASSUME room' = room PROVE Kept(r)
  BY <1>u DEF Kept
<1>1. CASE Identified(r)
  BY <1>u, <1>1 DEF Identified, sockets
<1>2. CASE Fail(r)
  BY <1>u, <1>2 DEF Fail, sockets
<1>3. CASE ChatAllowed(r)
  BY <1>u, <1>3 DEF ChatAllowed, sockets
<1>4. CASE JoinChat(r)
  <2>1. /\ Op(r) = "joinChat" /\ Enter(By(r), {chat[r]}) /\ pc'[r] = "done" /\ chat' = chat
        /\ pc[r] = "count"
    BY <1>0, <1>4 DEF JoinChat, Goes, work
  <2>2. PutIn(r, chat[r])'
    BY <1>0, <2>1 DEF PutIn, CheckedOf, Looking, Members
  <2> QED
    BY <2>1, <2>2, EnterKeeps
<1>5. CASE MobileJoinChat(r)
  <2>1. Op(r) = "mobileJoinChat" /\ Enter(By(r), {chat[r]}) /\ pc'[r] = "done" /\ chat' = chat
    BY <1>0, <1>5 DEF MobileJoinChat, Goes, work
  <2>2. PutIn(r, chat[r])'
    BY <1>0, <2>1 DEF PutIn
  <2> QED
    BY <2>1, <2>2, EnterKeeps
<1>6. CASE LeaveChat(r)
  BY <1>6 DEF LeaveChat, Quit, Kept, TypeOK
<1>7. CASE MobileLeaveChat(r)
  BY <1>7 DEF MobileLeaveChat, Quit, Kept, TypeOK
<1>8. CASE ListChats(r)
  BY <1>u, <1>8 DEF ListChats, sockets
<1>9. CASE ListProjectChats(r)
  BY <1>u, <1>9 DEF ListProjectChats, sockets
<1>10. CASE JoinAllChats(r)
  <2>1. Op(r) = "joinAllChats" /\ Enter(By(r), list[r]) /\ pc'[r] = "done" /\ list' = list
    BY <1>0, <1>10 DEF JoinAllChats, Goes, work
  <2>2. \A c \in list[r] : PutIn(r, c)'
    BY <1>0, <2>1 DEF PutIn, CheckedOf, Members
  <2> QED
    BY <2>1, <2>2, EnterKeeps
<1>11. CASE JoinProjectChats(r)
  <2>1. Op(r) = "joinProjectChats" /\ Enter(By(r), list[r]) /\ pc'[r] = "done" /\ list' = list
    BY <1>0, <1>11 DEF JoinProjectChats, Goes, work
  <2>2. \A c \in list[r] : PutIn(r, c)'
    BY <1>0, <2>1 DEF PutIn, CheckedOf, Members
  <2> QED
    BY <2>1, <2>2, EnterKeeps
<1>12. CASE Typing(r)
  BY <1>u, <1>12 DEF Typing, Tells
<1>13. CASE ChatUpdate(r)
  BY <1>u, <1>13 DEF ChatUpdate, Tells
<1>14. CASE MessageUpdate(r)
  BY <1>u, <1>14 DEF MessageUpdate, Tells
<1>15. CASE ReadChat(r)
  BY <1>u, <1>15 DEF ReadChat, sockets
<1>16. CASE MarkAsRead(r)
  BY <1>u, <1>16 DEF MarkAsRead, Tells
<1>17. CASE ParticipantStatusTo(r)
  BY <1>u, <1>17 DEF ParticipantStatusTo, Tells
<1>18. CASE ParticipantStatusUpdate(r)
  BY <1>u, <1>18 DEF ParticipantStatusUpdate, Tells
<1>19. CASE FindParticipants(r)
  BY <1>u, <1>19 DEF FindParticipants, sockets
<1>20. CASE OpenChat(r)
  BY <1>u, <1>20 DEF OpenChat, sockets
<1>21. CASE Admit(r)
  BY <1>u, <1>21 DEF Admit, sockets
<1>22. CASE StoreMessage(r)
  BY <1>u, <1>22 DEF StoreMessage, sockets
<1>23. CASE TouchChat(r)
  BY <1>u, <1>23 DEF TouchChat, sockets
<1>24. CASE SendMessage(r)
  BY <1>u, <1>24 DEF SendMessage, Tells
<1>25. CASE MobileSendMessage(r)
  BY <1>u, <1>25 DEF MobileSendMessage, Tells
<1>26. CASE CreateMessage(r)
  BY <1>u, <1>26 DEF CreateMessage, sockets
<1>27. CASE BroadcastOne(r)
  BY <1>u, <1>27 DEF BroadcastOne, sockets
<1>28. CASE Skip(r)
  BY <1>u, <1>28 DEF Skip, sockets
<1>29. CASE SendBroadcast(r)
  BY <1>u, <1>29 DEF SendBroadcast, sockets
<1>30. CASE FindMessages(r)
  BY <1>u, <1>30 DEF FindMessages, sockets
<1>31. CASE GetMessages(r)
  BY <1>u, <1>31 DEF GetMessages, sockets
<1>32. CASE GetChats(r)
  BY <1>u, <1>32 DEF GetChats, sockets
<1> QED
  BY <1>1, <1>2, <1>3, <1>4, <1>5, <1>6, <1>7, <1>8, <1>9, <1>10, <1>11, <1>12, <1>13, <1>14,
     <1>15, <1>16, <1>17, <1>18, <1>19, <1>20, <1>21, <1>22, <1>23, <1>24, <1>25, <1>26, <1>27,
     <1>28, <1>29, <1>30, <1>31, <1>32 DEF Step

LEMMA StepOut ==
    ASSUME TypeOK, Control, NEW r \in Request, Step(r)
    PROVE  Out(r)
<1>1. CASE LeaveChat(r) \/ MobileLeaveChat(r)
  <2>1. room'[By(r)] = room[By(r)] \ {chat[r]} /\ chat' = chat
    BY <1>1, RequestTypes DEF LeaveChat, MobileLeaveChat, Quit, TypeOK, work
  <2> QED
    BY <2>1 DEF Out, TakenOut
<1>2. CASE ~(LeaveChat(r) \/ MobileLeaveChat(r))
  <2>1. ControlOf(r) /\ Op(r)' = Op(r) /\ pc \in [Request -> {"idle", "done", "failed"} \cup Awaiting]
    BY StepKeeps DEF Control, Op, ask, TypeOK
  <2>2. pc'[r] # "done" \/ Op(r) \notin Leaves
    BY <1>2, <2>1 DEF Step, ControlOf, Goes, Tells, Identified, Fail, ChatAllowed, JoinChat,
       MobileJoinChat,
       ListChats, ListProjectChats, JoinAllChats, JoinProjectChats, Typing, ChatUpdate, MessageUpdate,
       ReadChat, MarkAsRead, ParticipantStatusTo, ParticipantStatusUpdate, FindParticipants, OpenChat,
       Admit, StoreMessage, TouchChat, SendMessage, MobileSendMessage, CreateMessage, BroadcastOne, Skip,
       SendBroadcast, FindMessages, GetMessages, GetChats, Leaves, Immediate
  <2> QED
    BY <2>1, <2>2 DEF Out, TakenOut, Leaves
<1> QED
  BY <1>1, <1>2

LEMMA StepRooms ==
    ASSUME TypeOK, Control, Checked, Begun, RoomForAReason, NEW r \in Request, Step(r)
    PROVE  RoomForAReason'
<1>0. /\ UNCHANGED <<up, ask>> /\ By(r) \in Client
      /\ \A q \in Request : Op(q)' = Op(q) /\ By(q)' = By(q) /\ Who(q)' = Who(q)
      /\ \A c : Members(c)' = Members(c)
      /\ \A q \in Request \ {r} : pc'[q] = pc[q] /\ chat'[q] = chat[q] /\ list'[q] = list[q]
      /\ pc[r] # "done" /\ ~Served(r) /\ Kept(r) /\ Out(r)
  BY StepKeeps, StepKept, StepOut, RequestTypes
     DEF Op, By, Who, Members, ask, Served, Awaiting, TypeOK
<1>1. SUFFICES ASSUME NEW k \in Client, NEW c \in room'[k]
               PROVE  /\ k \in up
                      /\ \E p \in Request :
                            /\ By(p) = k /\ PutIn(p, c)'
                            /\ \A q \in Request : By(q) = k /\ TakenOut(q, c)' => p \notin began[q]
  BY <1>0 DEF RoomForAReason, ask
<1>2. \A q \in Request \ {r} : TakenOut(q, c)' <=> TakenOut(q, c)
  BY <1>0 DEF TakenOut
<1>3. c \in Chat
  <2>1. TypeOK'
    BY StepTypeOK
  <2> QED
    BY <2>1 DEF TypeOK
<1>4. CASE c \in room[k]
  <2>1. k \in up
    BY <1>4 DEF RoomForAReason
  <2>2. PICK p \in Request :
           /\ By(p) = k /\ PutIn(p, c)
           /\ \A q \in Request : By(q) = k /\ TakenOut(q, c) => p \notin began[q]
    BY <1>4 DEF RoomForAReason
  <2>3. p # r /\ PutIn(p, c)'
    BY <1>0, <2>2 DEF PutIn, ask
  <2>4. ASSUME NEW q \in Request, By(q) = k, TakenOut(q, c)' PROVE p \notin began[q]
    <3>1. q # r
      BY <1>0, <1>1, <1>3, <2>4 DEF Out
    <3> QED
      BY <1>2, <2>2, <2>4, <3>1
  <2> QED
    BY <2>1, <2>2, <2>3, <2>4
<1>5. CASE c \notin room[k]
  <2>1. k = By(r) /\ k \in up /\ PutIn(r, c)'
    BY <1>0, <1>1, <1>5 DEF Kept
  <2>2. ASSUME NEW q \in Request, By(q) = k, TakenOut(q, c)' PROVE r \notin began[q]
    BY <1>0 DEF Begun
  <2> QED
    BY <2>1, <2>2
<1> QED
  BY <1>4, <1>5

-----------------------------------------------------------------------------
(* All steps                                                               *)

LEMMA InitIInv == Init => IInv
<1> SUFFICES ASSUME Init PROVE IInv
  OBVIOUS
<1>1. TypeOK
  <2>1. chat \in [Request -> Chat]
    BY RequestTypes DEF Init
  <2>2. place \in [Chat -> Nat]
    BY DEF Init
  <2>3. row \in [Chat -> {"absent", "active", "inactive", "gone"}]
    BY DEF Init
  <2> QED
    BY <2>1, <2>2, <2>3 DEF Init, TypeOK, Awaiting
<1>2. Control /\ Closed
  BY DEF Init, Control, ControlOf, Closed
<1>3. Checked /\ Begun
  BY DEF Init, Checked, CheckedOf, Begun
<1>4. RoomForAReason /\ ClosedRoomHearsOnly
  BY DEF Init, RoomForAReason, ClosedRoomHearsOnly
<1> QED
  BY <1>1, <1>2, <1>3, <1>4 DEF IInv

LEMMA BeginIInv ==
    ASSUME IInv, NEW r \in Request, Begin(r), TypeOK'
    PROVE  IInv'
<1> USE DEF IInv
<1>0. /\ UNCHANGED <<sockets, rows, req, work>> /\ pc[r] = "idle" /\ pc' = [pc EXCEPT ![r] = "auth"]
      /\ Op(r) # "none"
      /\ \A q \in Request \ {r} : past'[q] = past[q] /\ began'[q] = began[q] /\ pc'[q] = pc[q]
      /\ past'[r] \in {past[r], row} /\ began'[r] \subseteq {q \in Request : Served(q)} \cup began[r]
      /\ pc'[r] = "auth"
  BY DEF Begin, Goes, TypeOK
<1>1. /\ \A q \in Request : Op(q)' = Op(q) /\ By(q)' = By(q) /\ Who(q)' = Who(q)
      /\ \A c : Members(c)' = Members(c)
  BY <1>0 DEF Op, By, Who, Members
<1>2. Control'
  BY <1>0, <1>1 DEF Control, ControlOf
<1>3. Closed'
  BY <1>0 DEF Closed, rows
<1>4. Checked'
  <2>1. CheckedOf(r)'
    BY <1>0, <1>1 DEF Checked, CheckedOf, work
  <2>2. ASSUME NEW q \in Request \ {r} PROVE CheckedOf(q)'
    BY <1>0, <1>1 DEF Checked, CheckedOf, work
  <2> QED
    BY <2>1, <2>2 DEF Checked
<1>5. Begun'
  <2>1. ASSUME NEW q \in Request, NEW p \in began'[q] PROVE Served(p)'
    <3>1. p \in Request /\ Served(p)
      BY <1>0 DEF Begun, TypeOK
    <3> QED
      BY <1>0, <3>1 DEF Served
  <2>2. ASSUME NEW k \in Client, NEW e \in heard'[k] PROVE pc'[e[1]] # "idle"
    <3>1. e \in heard[k] /\ e[1] \in Request
      BY <1>0 DEF sockets, TypeOK
    <3> QED
      BY <1>0, <3>1 DEF Begun
  <2> QED
    BY <2>1, <2>2 DEF Begun
<1>6. RoomForAReason'
  <2>1. ASSUME NEW q \in Request, NEW c PROVE TakenOut(q, c)' => TakenOut(q, c) /\ q # r
    BY <1>0, <1>1 DEF TakenOut, work
  <2>2. ASSUME NEW q \in Request, NEW c, PutIn(q, c) PROVE PutIn(q, c)'
    BY <1>0, <1>1, <2>2 DEF PutIn, work
  <2> QED
    BY <1>0, <1>1, <2>1, <2>2 DEF RoomForAReason, sockets
<1>7. ClosedRoomHearsOnly'
  <2>1. ASSUME NEW k \in Client, NEW e \in heard'[k] PROVE e \in heard[k] /\ e[1] \in Request /\ e[1] # r
    BY <1>0 DEF sockets, TypeOK, Begun
  <2> QED
    BY <1>0, <1>1, <2>1 DEF ClosedRoomHearsOnly
<1> QED
  BY <1>2, <1>3, <1>4, <1>5, <1>6, <1>7

\* What concerns neither the requests nor, but for closing chats, the rows.
LEMMA RestIInv ==
    ASSUME IInv, UNCHANGED <<ask, work, pc, heard>>, TypeOK',
           \A c \in Chat : /\ row[c] = "gone" => row'[c] = "gone"
                           /\ row[c] \in {"inactive", "gone"} => row'[c] \in {"inactive", "gone"},
           \A k \in Client : room'[k] \subseteq room[k] /\ (k \in up => k \in up' \/ room'[k] = {})
    PROVE  IInv'
<1> USE DEF IInv
<1>1. /\ \A q \in Request : Op(q)' = Op(q) /\ By(q)' = By(q) /\ Who(q)' = Who(q) /\ Served(q)' = Served(q)
      /\ \A c : Members(c)' = Members(c)
  BY DEF Op, By, Who, Members, ask, Served
<1>2. Control' /\ Checked'
  BY <1>1 DEF Control, ControlOf, Checked, CheckedOf, ask, work
<1>3. Closed'
  BY DEF Closed, ask
<1>4. Begun' /\ ClosedRoomHearsOnly'
  BY <1>1 DEF Begun, ClosedRoomHearsOnly, ask, TypeOK
<1>5. RoomForAReason'
  <2>1. ASSUME NEW q \in Request, NEW c
        PROVE  (TakenOut(q, c)' <=> TakenOut(q, c)) /\ (PutIn(q, c)' <=> PutIn(q, c))
    BY <1>1 DEF TakenOut, PutIn, ask, work
  <2>2. ASSUME NEW k \in Client, NEW c \in room'[k]
        PROVE  /\ k \in up'
               /\ \E r \in Request :
                     /\ By(r) = k /\ PutIn(r, c)'
                     /\ \A q \in Request : By(q) = k /\ TakenOut(q, c)' => r \notin began[q]
    <3>1. c \in room[k] /\ k \in up'
      BY <2>2 DEF RoomForAReason
    <3>2. PICK r \in Request :
             /\ By(r) = k /\ PutIn(r, c)
             /\ \A q \in Request : By(q) = k /\ TakenOut(q, c) => r \notin began[q]
      BY <3>1 DEF RoomForAReason
    <3> QED
      BY <2>1, <3>1, <3>2
  <2> QED
    BY <1>1, <2>2 DEF RoomForAReason, ask
<1> QED
  BY <1>2, <1>3, <1>4, <1>5

LEMMA NextIInv == IInv /\ [Next]_vars => IInv'
<1> SUFFICES ASSUME IInv, [Next]_vars PROVE IInv'
  OBVIOUS
<1> USE DEF IInv
<1>0. TypeOK'
  BY NextTypeOK
<1>1. ASSUME NEW r \in Request, Begin(r) PROVE IInv'
  BY <1>0, <1>1, BeginIInv
<1>2. ASSUME NEW r \in Request, Step(r) PROVE IInv'
  BY <1>0, <1>2, StepControl, StepClosed, StepChecked, StepBegun, StepRooms, StepClosedRooms
<1>3. ASSUME NEW k \in Drops, Disconnect(k) PROVE IInv'
  <2>1. /\ UNCHANGED <<ask, work, pc, heard, row>> /\ up' = up \ {k} /\ k \in Client
        /\ room' = [room EXCEPT ![k] = @ \ Chat]
    BY <1>3, RoomsAssumption DEF Disconnect, Quit, rows
  <2> QED
    BY <1>0, <2>1, RestIInv DEF TypeOK
<1>4. ASSUME NEW c \in Mortal, ChatClosed(c) \/ ChatDeleted(c) PROVE IInv'
  <2>1. /\ UNCHANGED <<ask, work, pc, heard, up, room>> /\ c \in Chat
        /\ \/ row[c] = "active" /\ row' = [row EXCEPT ![c] = "inactive"]
           \/ row' = [row EXCEPT ![c] = "gone"]
    BY <1>4, RoomsAssumption DEF ChatClosed, ChatDeleted, sockets
  <2> QED
    BY <1>0, <2>1, RestIInv DEF TypeOK
<1>5. CASE UNCHANGED vars
  <2>1. UNCHANGED <<ask, work, pc, heard, up, room, row>>
    BY <1>5 DEF vars, sockets, rows
  <2> QED
    BY <1>0, <2>1, RestIInv
<1> QED
  BY <1>1, <1>2, <1>3, <1>4, <1>5 DEF Next

-----------------------------------------------------------------------------
(* Positions in an order                                                   *)

Below(S, f, x) == {y \in S : f[y] < f[x]}

LEMMA FirstNumbers ==
    ASSUME NEW n \in Nat
    PROVE  IsFiniteSet(0 .. n - 1) /\ Cardinality(0 .. n - 1) = n
<1>1. 0 \in Int /\ n - 1 \in Int /\ (0 > n - 1 => n = 0) /\ (n - 1) - 0 + 1 = n
  OBVIOUS
<1>2. IsFiniteSet(0 .. n - 1) /\ Cardinality(0 .. n - 1) = IF 0 > n - 1 THEN 0 ELSE (n - 1) - 0 + 1
  BY <1>1, FS_Interval
<1> QED
  BY <1>1, <1>2

\* Each member of a finite set in an order has its own position, and none of
\* the positions up to the size of the set is free.
LEMMA Positions ==
    ASSUME NEW S, IsFiniteSet(S), NEW f, \A x \in S : f[x] \in Nat,
           \A x, y \in S : f[x] = f[y] => x = y
    PROVE  /\ Cardinality(S) \in Nat
           /\ \A x \in S : Cardinality(Below(S, f, x)) \in 0 .. Cardinality(S) - 1
           /\ \A x, y \in S : f[x] < f[y] =>
                 Cardinality(Below(S, f, x)) < Cardinality(Below(S, f, y))
           /\ [x \in S |-> Cardinality(Below(S, f, x))] \in Bijection(S, 0 .. Cardinality(S) - 1)
<1> DEFINE n == Cardinality(S)
           B(x) == Below(S, f, x)
           P == [x \in S |-> Cardinality(B(x))]
           T == 0 .. n - 1
<1>1. n \in Nat
  BY FS_CardinalityType
<1>2. ASSUME NEW x \in S PROVE IsFiniteSet(B(x)) /\ Cardinality(B(x)) \in T
  <2>1. B(x) \in SUBSET S /\ x \notin B(x)
    BY DEF Below
  <2>2. IsFiniteSet(B(x)) /\ Cardinality(B(x)) <= n /\ (n = Cardinality(B(x)) => S = B(x))
    BY <2>1, FS_Subset
  <2>3. Cardinality(B(x)) \in Nat
    BY <2>2, FS_CardinalityType
  <2> HIDE DEF n, B
  <2> QED
    BY <1>1, <2>1, <2>2, <2>3
<1>3. ASSUME NEW x \in S, NEW y \in S, f[x] < f[y] PROVE Cardinality(B(x)) < Cardinality(B(y))
  <2>1. B(x) \in SUBSET B(y) /\ x \in B(y) /\ x \notin B(x)
    BY <1>3 DEF Below
  <2>2. /\ Cardinality(B(x)) <= Cardinality(B(y))
        /\ Cardinality(B(y)) = Cardinality(B(x)) => B(y) = B(x)
    BY <1>2, <2>1, FS_Subset
  <2>3. Cardinality(B(x)) \in Nat /\ Cardinality(B(y)) \in Nat
    BY <1>2
  <2> HIDE DEF B
  <2> QED
    BY <2>1, <2>2, <2>3
<1>4. P \in Injection(S, T)
  <2>1. P \in [S -> T]
    BY <1>2
  <2>2. ASSUME NEW x \in S, NEW y \in S, P[x] = P[y] PROVE x = y
    <3>1. ~(f[x] < f[y]) /\ ~(f[y] < f[x])
      BY <1>2, <1>3, <2>2
    <3> QED
      BY <3>1
  <2> QED
    BY <2>1, <2>2 DEF Injection, IsInjective
<1>5. IsFiniteSet(T) /\ Cardinality(T) = n
  BY <1>1, FirstNumbers
<1>6. P \in Surjection(S, T)
  BY <1>4, <1>5, FS_Injection
<1> QED
  BY <1>1, <1>2, <1>3, <1>4, <1>6 DEF Bijection

LEMMA PositionsOrdered ==
    ASSUME NEW S, IsFiniteSet(S), NEW f, \A x \in S : f[x] \in Nat,
           \A x, y \in S : f[x] = f[y] => x = y
    PROVE  /\ \A x \in S : Cardinality(Below(S, f, x)) \in Nat
           /\ \A x, y \in S : f[x] < f[y] =>
                 Cardinality(Below(S, f, x)) < Cardinality(Below(S, f, y))
<1>1. Cardinality(S) \in Nat /\ \A x \in S : Cardinality(Below(S, f, x)) \in 0 .. Cardinality(S) - 1
  BY Positions
<1>2. \A x, y \in S : f[x] < f[y] => Cardinality(Below(S, f, x)) < Cardinality(Below(S, f, y))
  BY Positions
<1> QED
  BY <1>1, <1>2

\* A position that is not beyond the last one is taken.
LEMMA PositionTaken ==
    ASSUME NEW S, IsFiniteSet(S), NEW f, \A x \in S : f[x] \in Nat,
           \A x, y \in S : f[x] = f[y] => x = y,
           NEW n \in Nat, NEW z \in S, n <= Cardinality(Below(S, f, z))
    PROVE  \E x \in S : Cardinality(Below(S, f, x)) = n
<1> DEFINE P == [x \in S |-> Cardinality(Below(S, f, x))]
           T == 0 .. Cardinality(S) - 1
<1>1. Cardinality(S) \in Nat /\ Cardinality(Below(S, f, z)) \in T /\ P \in Bijection(S, T)
  BY Positions
<1>2. n \in T
  BY <1>1
<1>3. P \in Surjection(S, T)
  BY <1>1 DEF Bijection
<1>4. \E x \in S : P[x] = n
  BY <1>2, <1>3 DEF Surjection
<1> QED
  BY <1>4

\* As many members come first as there are positions before a taken one.
LEMMA FirstOnes ==
    ASSUME NEW S, IsFiniteSet(S), NEW f, \A x \in S : f[x] \in Nat,
           \A x, y \in S : f[x] = f[y] => x = y,
           NEW n \in Nat, NEW z \in S, n <= Cardinality(Below(S, f, z))
    PROVE  Cardinality({x \in S : Cardinality(Below(S, f, x)) < n}) = n
<1> DEFINE P == [x \in S |-> Cardinality(Below(S, f, x))]
           T == 0 .. Cardinality(S) - 1
           F == {x \in S : P[x] < n}
           Q == [x \in F |-> P[x]]
           U == 0 .. n - 1
<1>1. Cardinality(S) \in Nat /\ Cardinality(Below(S, f, z)) \in T /\ P \in Bijection(S, T)
  BY Positions
<1>2. P \in [S -> T] /\ (\A x, y \in S : P[x] = P[y] => x = y) /\ \A t \in T : \E x \in S : P[x] = t
  BY <1>1 DEF Bijection, Injection, IsInjective, Surjection
<1>3. U \subseteq T
  BY <1>1
<1> HIDE DEF P
<1>4. Q \in [F -> U]
  BY <1>1, <1>2
<1>5. Q \in Injection(F, U)
  BY <1>2, <1>4 DEF Injection, IsInjective
<1>6. ASSUME NEW t \in U PROVE \E x \in F : Q[x] = t
  BY <1>2, <1>3
<1>7. Q \in Surjection(F, U)
  BY <1>4, <1>6 DEF Surjection
<1>8. IsFiniteSet(U) /\ Cardinality(U) = n
  BY FirstNumbers
<1>9. Cardinality(F) = n
  BY <1>5, <1>7, <1>8, FS_Injection
<1> QED
  BY <1>9 DEF P

-----------------------------------------------------------------------------
(* Pages                                                                   *)

LEMMA SliceBelow ==
    ASSUME TypeOK, NEW S, S \subseteq Chat, NEW n \in Nat, NEW c \in S
    PROVE  /\ IsFiniteSet(S) /\ Cardinality(Below(S, place, c)) \in Nat
           /\ \A x \in S : place[x] \in Nat
           /\ \A x, y \in S : place[x] = place[y] => x = y
           /\ c \in Slice(S, n) <=>
                 n <= Cardinality(Below(S, place, c)) /\ Cardinality(Below(S, place, c)) < n + PageSize
<1>1. IsFiniteSet(S)
  BY FS_Subset, RoomsAssumption
<1>2. /\ \A x \in S : place[x] \in Nat
      /\ \A x, y \in S : place[x] = place[y] => x = y
  BY DEF TypeOK
<1>3. Cardinality(Below(S, place, c)) \in Nat
  <2>1. Below(S, place, c) \in SUBSET S
    BY DEF Below
  <2> QED
    BY <1>1, <2>1, FS_Subset, FS_CardinalityType
<1>4. c \in Slice(S, n) <=> Cardinality(Below(S, place, c)) \in n .. n + PageSize - 1
  BY DEF Slice, Below
<1> QED
  BY <1>1, <1>2, <1>3, <1>4, RoomsAssumption

\* The first page that leaves a chat out is full.
LEMMA SliceFull ==
    ASSUME TypeOK, NEW S, S \subseteq Chat, NEW c \in S, c \notin Slice(S, 0)
    PROVE  Cardinality(Slice(S, 0)) = PageSize
<1>1. PageSize \in Nat /\ 0 \in Nat
  BY RoomsAssumption
<1>2. ASSUME NEW x \in S
      PROVE  x \in Slice(S, 0) <=> Cardinality(Below(S, place, x)) < PageSize
  <2>1. Cardinality(Below(S, place, x)) \in Nat
        /\ (x \in Slice(S, 0) <=>
              0 <= Cardinality(Below(S, place, x)) /\ Cardinality(Below(S, place, x)) < 0 + PageSize)
    BY <1>1, SliceBelow
  <2> QED
    BY <1>1, <2>1
<1>3. PageSize <= Cardinality(Below(S, place, c)) /\ IsFiniteSet(S)
      /\ (\A x \in S : place[x] \in Nat) /\ (\A x, y \in S : place[x] = place[y] => x = y)
  BY <1>1, <1>2, SliceBelow
<1>4. Slice(S, 0) = {x \in S : Cardinality(Below(S, place, x)) < PageSize}
  BY <1>2, SliceSubset
<1> QED
  BY <1>1, <1>3, <1>4, FirstOnes

\* A page with chats behind its start is not empty, and those it leaves out
\* are behind the start of the next one.
LEMMA SliceNext ==
    ASSUME TypeOK, NEW S, S \subseteq Chat, NEW n \in Nat, NEW c \in S,
           n <= Cardinality(Below(S, place, c))
    PROVE  /\ Slice(S, n) # {}
           /\ c \notin Slice(S, n) => n + PageSize <= Cardinality(Below(S, place, c))
<1>1. /\ IsFiniteSet(S) /\ \A x \in S : place[x] \in Nat
      /\ \A x, y \in S : place[x] = place[y] => x = y
  BY SliceBelow
<1>2. PICK x \in S : Cardinality(Below(S, place, x)) = n
  BY <1>1, PositionTaken
<1>3. x \in Slice(S, n)
  <2>1. x \in Slice(S, n) <=>
           n <= Cardinality(Below(S, place, x)) /\ Cardinality(Below(S, place, x)) < n + PageSize
    BY SliceBelow
  <2> QED
    BY <1>2, <2>1, RoomsAssumption
<1>4. c \notin Slice(S, n) => n + PageSize <= Cardinality(Below(S, place, c))
  <2>1. Cardinality(Below(S, place, c)) \in Nat
        /\ (c \in Slice(S, n) <=>
              n <= Cardinality(Below(S, place, c)) /\ Cardinality(Below(S, place, c)) < n + PageSize)
    BY SliceBelow
  <2> QED
    BY <2>1, RoomsAssumption
<1> QED
  BY <1>3, <1>4

\* Every message is in the log once.
Once == \A i, j \in DOMAIN log : log[i] = log[j] => i = j

\* A page of messages is full of newer ones than one of the chat it leaves out.
LEMMA LatestFull ==
    ASSUME TypeOK, Once, NEW c, NEW m \in Stored, m[2] = c, m \notin LatestOf(c)
    PROVE  Cardinality(LatestOf(c)) = PageSize /\ LatestOf(c) \subseteq Newer(m)
<1> DEFINE S == {x \in Stored : x[2] = c}
           At == [x \in S |-> CHOOSE i \in DOMAIN log : log[i] = x]
           f == [x \in S |-> Len(log) - At[x]]
<1>1. log \in Seq(Request \X Chat) /\ Len(log) \in Nat /\ DOMAIN log = 1 .. Len(log)
  BY DEF TypeOK
<1>2. ASSUME NEW x \in S PROVE At[x] \in DOMAIN log /\ log[At[x]] = x
  <2>1. \E i \in DOMAIN log : log[i] = x
    BY DEF Stored, Range
  <2> QED
    BY <2>1
<1>3. \A x \in S : f[x] \in Nat
  <2> SUFFICES ASSUME NEW x \in S PROVE f[x] \in Nat
    OBVIOUS
  <2>1. f[x] = Len(log) - At[x]
    OBVIOUS
  <2>2. At[x] \in 1 .. Len(log)
    BY <1>1, <1>2
  <2> HIDE DEF At, f
  <2> QED
    BY <1>1, <2>1, <2>2
<1>4. \A x, y \in S : f[x] = f[y] => x = y
  <2> SUFFICES ASSUME NEW x \in S, NEW y \in S, f[x] = f[y] PROVE x = y
    OBVIOUS
  <2>1. Len(log) - At[x] = Len(log) - At[y]
    OBVIOUS
  <2> HIDE DEF At, f
  <2>2. At[x] \in Nat /\ At[y] \in Nat /\ Len(log) \in Nat
    BY <1>1, <1>2
  <2>3. At[x] = At[y]
    BY <2>1, <2>2
  <2> QED
    BY <1>2, <2>3
<1>5. IsFiniteSet(S)
  <2>1. IsFiniteSet(DOMAIN log)
    BY <1>1, FS_Interval
  <2>2. log \in Surjection(DOMAIN log, Range(log))
    BY <1>1 DEF Surjection, Range
  <2>3. IsFiniteSet(Range(log)) /\ S \in SUBSET Range(log)
    BY <2>1, <2>2, FS_Surjection DEF Stored
  <2> QED
    BY <2>3, FS_Subset
<1>6. ASSUME NEW x \in S PROVE Newer(x) = Below(S, f, x)
  <2>1. ASSUME NEW y \in S
        PROVE  (\E i, j \in DOMAIN log : i < j /\ log[i] = x /\ log[j] = y) <=> f[y] < f[x]
    <3>1. At[x] \in DOMAIN log /\ log[At[x]] = x /\ At[y] \in DOMAIN log /\ log[At[y]] = y
      BY <1>2
    <3>2. f[x] = Len(log) - At[x] /\ f[y] = Len(log) - At[y]
      OBVIOUS
    <3>3. \A i \in DOMAIN log : (log[i] = x => i = At[x]) /\ (log[i] = y => i = At[y])
      BY <3>1 DEF Once
    <3> HIDE DEF At, f
    <3>4. f[y] < f[x] <=> At[x] < At[y]
      BY <1>1, <3>1, <3>2
    <3> QED
      BY <3>1, <3>3, <3>4
  <2>2. x[2] = c
    OBVIOUS
  <2> HIDE DEF f
  <2> QED
    BY <2>1, <2>2 DEF Newer, Below
<1>7. m \in S
  OBVIOUS
<1> HIDE DEF f
<1>8. LatestOf(c) = {x \in S : Cardinality(Below(S, f, x)) < PageSize}
  <2> HIDE DEF S
  <2>1. LatestOf(c) = {x \in S : Cardinality(Newer(x)) < PageSize}
    BY DEF LatestOf, S
  <2> QED
    BY <1>6, <2>1
<1> HIDE DEF S
<1>9. PageSize \in Nat /\ PageSize <= Cardinality(Below(S, f, m))
  <2>1. Cardinality(Below(S, f, m)) \in Nat
    BY <1>3, <1>4, <1>5, <1>7, PositionsOrdered
  <2> QED
    BY <1>7, <1>8, <2>1, RoomsAssumption
<1>10. Cardinality(LatestOf(c)) = PageSize
  BY <1>3, <1>4, <1>5, <1>7, <1>8, <1>9, FirstOnes
<1>11. ASSUME NEW x \in LatestOf(c) PROVE x \in Newer(m)
  <2>1. x \in S /\ Cardinality(Below(S, f, x)) < PageSize /\ x # m
    BY <1>8, <1>11
  <2>2. /\ Cardinality(Below(S, f, x)) \in Nat /\ Cardinality(Below(S, f, m)) \in Nat
        /\ f[m] < f[x] => Cardinality(Below(S, f, m)) < Cardinality(Below(S, f, x))
    BY <1>3, <1>4, <1>5, <1>7, <2>1, PositionsOrdered
  <2>3. ~(f[m] < f[x]) /\ f[m] # f[x] /\ f[m] \in Nat /\ f[x] \in Nat
    BY <1>3, <1>4, <1>7, <1>9, <2>1, <2>2
  <2>4. f[x] < f[m]
    BY <2>3
  <2> QED
    BY <1>6, <1>7, <2>1, <2>4 DEF Below
<1> QED
  BY <1>10, <1>11

-----------------------------------------------------------------------------
(* What a step of a request does                                           *)

\* Where the handlers of r go, and with which chat.
LEMMA StepMoves ==
    ASSUME TypeOK, Control, NEW r \in Request, Step(r)
    PROVE  /\ \A q \in Request \ {r} :
                 todo'[q] = todo[q] /\ page'[q] = page[q] /\ offset'[q] = offset[q]
           /\ pc'[r] \notin {"idle", "auth"}
           /\ pc'[r] = "participants" => pc[r] = "auth"
           /\ pc[r] # "participants" => todo'[r] \subseteq todo[r]
           /\ pc'[r] \in {"find", "insert"} /\ (pc[r] = "auth" => Op(r) = "sendBroadcast") =>
                 \/ pc[r] = "find" /\ chat'[r] = chat[r]
                 \/ pc[r] = "next" /\ chat'[r] \in todo[r] /\ chat'[r] \notin todo'[r]
           /\ Op(r) # "sendBroadcast" => chat'[r] = chat[r]
<1>a. ControlOf(r)
  BY DEF Control
<1> USE <1>a DEF ControlOf, TypeOK, work, Goes, Awaiting, Sends, SocketSends, Immediate, Listing, Looking, Leaves
<1>1. CASE Identified(r)
  BY <1>1 DEF Identified
<1>2. CASE Fail(r)
  BY <1>2 DEF Fail
<1>3. CASE ChatAllowed(r)
  BY <1>3 DEF ChatAllowed
<1>4. CASE JoinChat(r)
  BY <1>4 DEF JoinChat
<1>5. CASE MobileJoinChat(r)
  BY <1>5 DEF MobileJoinChat
<1>6. CASE LeaveChat(r)
  BY <1>6 DEF LeaveChat
<1>7. CASE MobileLeaveChat(r)
  BY <1>7 DEF MobileLeaveChat
<1>8. CASE ListChats(r)
  BY <1>8 DEF ListChats
<1>9. CASE ListProjectChats(r)
  BY <1>9 DEF ListProjectChats
<1>10. CASE JoinAllChats(r)
  BY <1>10 DEF JoinAllChats
<1>11. CASE JoinProjectChats(r)
  BY <1>11 DEF JoinProjectChats
<1>12. CASE Typing(r)
  BY <1>12 DEF Typing, Tells
<1>13. CASE ChatUpdate(r)
  BY <1>13 DEF ChatUpdate, Tells
<1>14. CASE MessageUpdate(r)
  BY <1>14 DEF MessageUpdate, Tells
<1>15. CASE ReadChat(r)
  BY <1>15 DEF ReadChat
<1>16. CASE MarkAsRead(r)
  BY <1>16 DEF MarkAsRead, Tells
<1>17. CASE ParticipantStatusTo(r)
  BY <1>17 DEF ParticipantStatusTo, Tells
<1>18. CASE ParticipantStatusUpdate(r)
  BY <1>18 DEF ParticipantStatusUpdate, Tells
<1>19. CASE FindParticipants(r)
  BY <1>19 DEF FindParticipants
<1>20. CASE OpenChat(r)
  <2>1. PICK c \in todo[r] : chat' = [chat EXCEPT ![r] = c] /\ todo' = [todo EXCEPT ![r] = @ \ {c}]
    BY <1>20 DEF OpenChat
  <2>2. /\ UNCHANGED <<page, offset>> /\ pc[r] = "next" /\ pc' = [pc EXCEPT ![r] = "find"]
    BY <1>20 DEF OpenChat
  <2> QED
    BY <2>1, <2>2
<1>21. CASE Admit(r)
  BY <1>21 DEF Admit
<1>22. CASE StoreMessage(r)
  BY <1>22 DEF StoreMessage
<1>23. CASE TouchChat(r)
  BY <1>23 DEF TouchChat
<1>24. CASE SendMessage(r)
  BY <1>24 DEF SendMessage, Tells
<1>25. CASE MobileSendMessage(r)
  BY <1>25 DEF MobileSendMessage, Tells
<1>26. CASE CreateMessage(r)
  BY <1>26 DEF CreateMessage
<1>27. CASE BroadcastOne(r)
  BY <1>27 DEF BroadcastOne
<1>28. CASE Skip(r)
  <2>1. /\ Op(r) = "sendBroadcast" /\ UNCHANGED <<chat, page, offset>>
        /\ pc[r] \in {"find", "insert", "touch", "push", "next"} /\ pc'[r] = "next"
    BY <1>28 DEF Skip
  <2>2. UNCHANGED todo \/ \E c \in todo[r] : todo' = [todo EXCEPT ![r] = @ \ {c}]
    BY <1>28 DEF Skip
  <2>3. todo'[r] \subseteq todo[r] /\ \A q \in Request \ {r} : todo'[q] = todo[q]
    BY <2>2
  <2> QED
    BY <2>1, <2>3
<1>29. CASE SendBroadcast(r)
  BY <1>29 DEF SendBroadcast
<1>30. CASE FindMessages(r)
  BY <1>30 DEF FindMessages
<1>31. CASE GetMessages(r)
  BY <1>31 DEF GetMessages
<1>32. CASE GetChats(r)
  BY <1>32 DEF GetChats
<1> HIDE DEF ControlOf, TypeOK, work, Goes, Awaiting, Sends, SocketSends, Immediate, Listing, Looking, Leaves
<1> QED
  BY <1>1, <1>2, <1>3, <1>4, <1>5, <1>6, <1>7, <1>8, <1>9, <1>10, <1>11, <1>12, <1>13, <1>14,
     <1>15, <1>16, <1>17, <1>18, <1>19, <1>20, <1>21, <1>22, <1>23, <1>24, <1>25, <1>26, <1>27,
     <1>28, <1>29, <1>30, <1>31, <1>32 DEF Step

\* Only StoreMessage writes the log.
LEMMA StepLogs ==
    ASSUME TypeOK, NEW r \in Request, Step(r)
    PROVE  log' = log \/ StoreMessage(r)
BY DEF Step, Tells, Identified, Fail, ChatAllowed, JoinChat, MobileJoinChat, LeaveChat, MobileLeaveChat,
   ListChats, ListProjectChats, JoinAllChats, JoinProjectChats, Typing, ChatUpdate, MessageUpdate,
   ReadChat, MarkAsRead, ParticipantStatusTo, ParticipantStatusUpdate, FindParticipants, OpenChat,
   Admit, StoreMessage, TouchChat, SendMessage, MobileSendMessage, CreateMessage, BroadcastOne, Skip,
   SendBroadcast, FindMessages, GetMessages, GetChats, rows

\* What goes to the front of the lists, and which chats there are.
LEMMA StepPlaces ==
    ASSUME TypeOK, NEW r \in Request, Step(r)
    PROVE  /\ shrunk' = shrunk
           /\ \/ UNCHANGED <<row, place, bumped>>
              \/ \E c \in Chat :
                    /\ Bump(c)
                    /\ \/ row' = row
                       \/ row[c] = "absent" /\ row' = [row EXCEPT ![c] = "active"]
<1>1. CASE OpenChat(r)
  <2>1. PICK c \in todo[r] :
           IF row[c] = "absent" THEN row' = [row EXCEPT ![c] = "active"] /\ Bump(c)
           ELSE UNCHANGED <<row, place, bumped>>
    BY <1>1 DEF OpenChat
  <2>2. todo[r] \subseteq Chat /\ shrunk' = shrunk
    BY <1>1 DEF TypeOK, OpenChat
  <2> QED
    BY <2>1, <2>2
<1>2. CASE ReadChat(r) \/ TouchChat(r)
  <2>1. Bump(chat[r]) /\ row' = row /\ shrunk' = shrunk
    BY <1>2 DEF ReadChat, TouchChat
  <2>2. chat[r] \in Chat
    BY DEF TypeOK
  <2> QED
    BY <2>1, <2>2
<1>3. CASE ~(OpenChat(r) \/ ReadChat(r) \/ TouchChat(r))
  BY <1>3 DEF Step, Tells, Identified, Fail, ChatAllowed, JoinChat, MobileJoinChat, LeaveChat,
     MobileLeaveChat, ListChats, ListProjectChats, JoinAllChats, JoinProjectChats, Typing, ChatUpdate,
     MessageUpdate, MarkAsRead, ParticipantStatusTo, ParticipantStatusUpdate, FindParticipants,
     Admit, StoreMessage, SendMessage, MobileSendMessage, CreateMessage, BroadcastOne, Skip,
     SendBroadcast, FindMessages, GetMessages, GetChats, Quit, rows, notes
<1> QED
  BY <1>1, <1>2, <1>3

\* Whose client stays in its rooms.
LEMMA StepStays ==
    ASSUME TypeOK, NEW r \in Request, Step(r)
    PROVE  /\ \A q \in steady' : q \in steady => room[By(q)] \subseteq room'[By(q)]
           /\ \A q \in steady' : q \in steady \/ (q = r /\ By(r) \in up /\ JoinAllChats(r))
<1>0. \A q \in Request : By(q) \in Client
  BY RequestTypes DEF TypeOK
<1>1. CASE LeaveChat(r) \/ MobileLeaveChat(r)
  <2>1. Quit(By(r), {chat[r]})
    BY <1>1 DEF LeaveChat, MobileLeaveChat
  <2> QED
    BY <1>0, <2>1 DEF Quit, TypeOK
<1>2. CASE JoinAllChats(r)
  BY <1>0, <1>2 DEF JoinAllChats, Enter, TypeOK
<1>3. CASE JoinChat(r) \/ MobileJoinChat(r) \/ JoinProjectChats(r)
  <2>1. \E C : Enter(By(r), C)
    BY <1>3 DEF JoinChat, MobileJoinChat, JoinProjectChats
  <2>2. steady' = steady
    BY <1>3 DEF JoinChat, MobileJoinChat, JoinProjectChats, notes
  <2> QED
    BY <1>0, <2>1, <2>2 DEF Enter, TypeOK
<1>4. CASE ~(LeaveChat(r) \/ MobileLeaveChat(r) \/ JoinAllChats(r) \/ JoinChat(r)
             \/ MobileJoinChat(r) \/ JoinProjectChats(r))
  <2>1. UNCHANGED <<room, steady>>
    BY <1>4 DEF Step, Tells, Identified, Fail, ChatAllowed, ListChats, ListProjectChats, Typing,
       ChatUpdate, MessageUpdate, ReadChat, MarkAsRead, ParticipantStatusTo, ParticipantStatusUpdate,
       FindParticipants, OpenChat, Admit, StoreMessage, TouchChat, SendMessage, MobileSendMessage,
       CreateMessage, BroadcastOne, Skip, SendBroadcast, FindMessages, GetMessages, GetChats,
       sockets, notes
  <2> QED
    BY <2>1
<1> QED
  BY <1>1, <1>2, <1>3, <1>4

\* What a client has heard it has heard.
LEMMA StepHeard ==
    ASSUME TypeOK, NEW r \in Request, Step(r)
    PROVE  \A k \in Client : heard[k] \subseteq heard'[k]
<1>1. heard' = heard \/ (\E C, S : Emit(r, C, S)) \/ \E C : TellAll(r, C)
  BY DEF Step, Tells, Identified, Fail, ChatAllowed, JoinChat, MobileJoinChat, LeaveChat,
     MobileLeaveChat, ListChats, ListProjectChats, JoinAllChats, JoinProjectChats, Typing, ChatUpdate,
     MessageUpdate, ReadChat, MarkAsRead, ParticipantStatusTo, ParticipantStatusUpdate,
     FindParticipants, OpenChat, Admit, StoreMessage, TouchChat, SendMessage, MobileSendMessage,
     CreateMessage, BroadcastOne, Skip, SendBroadcast, FindMessages, GetMessages, GetChats, sockets
<1>2. ASSUME NEW C, NEW S, Emit(r, C, S) PROVE \A k \in Client : heard[k] \subseteq heard'[k]
  BY <1>2 DEF Emit
<1>3. ASSUME NEW C, TellAll(r, C) PROVE \A k \in Client : heard[k] \subseteq heard'[k]
  BY <1>3 DEF TellAll
<1> QED
  BY <1>1, <1>2, <1>3

\* A request that has sent messages tells those it should.
LEMMA StepTells ==
    ASSUME TypeOK, Control, NEW r \in Request, Step(r), Op(r) \in Sends, pc'[r] = "done",
           NEW k \in up, NEW c, Op(r) \in SocketSends => c \in room[k],
           IF Op(r) = "sendBroadcast" THEN c \in list'[r] ELSE c = chat[r]
    PROVE  <<r, c>> \in heard'[k]
<1>0. k \in Client /\ ControlOf(r) /\ pc[r] \in Awaiting
  BY StepKeeps DEF TypeOK, Control
<1>1. \/ SendMessage(r) \/ MobileSendMessage(r) \/ CreateMessage(r) \/ SendBroadcast(r)
  BY <1>0 DEF Step, ControlOf, Goes, Tells, Identified, Fail, ChatAllowed, JoinChat, MobileJoinChat,
     LeaveChat, MobileLeaveChat,
     ListChats, ListProjectChats, JoinAllChats, JoinProjectChats, Typing, ChatUpdate, MessageUpdate,
     ReadChat, MarkAsRead, ParticipantStatusTo, ParticipantStatusUpdate, FindParticipants, OpenChat,
     Admit, StoreMessage, TouchChat, BroadcastOne, Skip, FindMessages, GetMessages, GetChats,
     Sends, SocketSends, TypeOK
<1>2. CASE SendMessage(r) \/ MobileSendMessage(r)
  <2>1. Emit(r, {chat[r]}, Client) /\ Op(r) \in SocketSends /\ Op(r) # "sendBroadcast"
    BY <1>2 DEF SendMessage, MobileSendMessage, Tells, SocketSends
  <2> QED
    BY <1>0, <2>1 DEF Emit
<1>3. CASE CreateMessage(r)
  <2>1. TellAll(r, {chat[r]}) /\ Op(r) # "sendBroadcast"
    BY <1>3 DEF CreateMessage
  <2> QED
    BY <1>0, <2>1 DEF TellAll
<1>4. CASE SendBroadcast(r)
  <2>1. TellAll(r, list[r]) /\ list' = list
    BY <1>4 DEF SendBroadcast, work
  <2>2. pc[r] = "next"
    BY <1>4 DEF SendBroadcast, Goes
  <2>3. Op(r) = "sendBroadcast"
    BY <1>0, <2>2 DEF ControlOf
  <2> QED
    BY <1>0, <2>1, <2>3 DEF TellAll
<1> QED
  BY <1>1, <1>2, <1>3, <1>4

-----------------------------------------------------------------------------
(* The invariant behind what clients miss                                  *)

\* What is known of a message in the log.
LoggedOf(m) ==
    /\ Op(m[1]) \in Sends /\ pc[m[1]] \notin {"idle", "auth", "participants"}
    /\ row[m[2]] # "absent" /\ past[m[1]][m[2]] \notin {"inactive", "gone"}
    /\ pc[m[1]] \in {"find", "insert"} => chat[m[1]] # m[2]
    /\ IF Op(m[1]) = "sendBroadcast" THEN m[2] \notin todo[m[1]] ELSE m[2] = chat[m[1]]

\* A broadcast serves each participant once.
ServingOf(r) == Op(r) = "sendBroadcast" /\ pc[r] \in {"find", "insert"} => chat[r] \notin todo[r]

Logged ==
    /\ Once
    /\ \A m \in Range(log) : LoggedOf(m)
    /\ \A r \in Request : ServingOf(r)

Fresh == \A r \in Request, c \in Chat : row[c] = "absent" => past[r][c] = "absent"

\* A client that has left no room is in those it was told of, or asked from.
StayingOf(r) ==
    /\ Op(r) \in {"getMessages", "joinAllChats"}
    /\ Op(r) = "getMessages" => pc[r] # "idle" /\ chat[r] \in room[By(r)]
    /\ Op(r) = "joinAllChats" => pc[r] = "done" /\ By(r) \in up /\ list[r] \subseteq room[By(r)]

Staying == \A r \in steady : StayingOf(r)

\* Why a chat of the user that is not closed is not in the list of r.
Beyond(r, c) == past[r][c] = "absent" \/ Cardinality(list[r]) = PageSize

ListedOf(r) ==
    Op(r) = "joinAllChats" /\ pc[r] \in {"count", "done"} =>
        \A c \in Chat \ list[r] :
            Who(r) \in Members(c) => Beyond(r, c) \/ row[c] \in {"inactive", "gone"}

Listed == \A r \in Request : ListedOf(r)

\* What r did not list is closed to those who send later, if it was closed.
SentLater ==
    \A q \in Request : \A r \in began[q] :
        Op(q) \in Sends /\ Op(r) = "joinAllChats" /\ pc[r] = "done" =>
            \A c \in Chat \ list[r] :
                Who(r) \in Members(c) => Beyond(r, c) \/ past[q][c] \in {"inactive", "gone"}

\* NothingMissed, from the moment the page is read.
CaughtUpOf(r) ==
    Op(r) = "getMessages" /\ pc[r] \in {"count", "done"} =>
        \A m \in Stored : m[2] = chat[r] /\ Told(m) =>
            \/ m \in page[r] \cup heard[By(r)]
            \/ Cardinality(page[r]) = PageSize /\ page[r] \subseteq Newer(m)

CaughtUp == \A r \in steady : CaughtUpOf(r)

\* A chat not yet found is not before the next page.
PagingOf(r) ==
    /\ pc[r] \in {"idle", "auth"} => offset[r] = 0
    /\ Op(r) = "getChats" /\ r \notin shrunk /\ pc[r] \in {"auth", "list", "done"} =>
          \A c \in Chat : past[r][c] = "active" /\ Who(r) \in Members(c) /\ c \notin bumped[r] =>
              \/ c \in list[r]
              \/ /\ pc[r] # "done" /\ row[c] = "active"
                 /\ offset[r] <= Cardinality(Below(ChatsOf(Who(r)), place, c))

Paging == \A r \in Request : PagingOf(r)

MInv == Logged /\ Fresh /\ Staying /\ Listed /\ SentLater /\ MissedOnlyBeyondList /\ CaughtUp /\ Paging

-----------------------------------------------------------------------------
(* The log and the rooms                                                   *)

LEMMA LogTypes ==
    ASSUME TypeOK, NEW m \in Range(log)
    PROVE  m[1] \in Request /\ m[2] \in Chat /\ m = <<m[1], m[2]>>
<1>1. m \in Request \X Chat
  BY DEF TypeOK, Range
<1> QED
  BY <1>1

\* One more message is in the log, and what was there is where it was.
LEMMA Stores ==
    ASSUME TypeOK, NEW r \in Request, StoreMessage(r)
    PROVE  /\ Range(log') = Range(log) \cup {<<r, chat[r]>>}
           /\ \A i \in DOMAIN log : i \in DOMAIN log' /\ log'[i] = log[i]
           /\ \A i \in DOMAIN log' : i \in DOMAIN log \/ log'[i] = <<r, chat[r]>>
           /\ \A i, j \in DOMAIN log' : i \notin DOMAIN log /\ j \notin DOMAIN log => i = j
<1>1. log \in Seq(Request \X Chat) /\ log' = Append(log, <<r, chat[r]>>) /\ Len(log) \in Nat
  BY DEF StoreMessage, TypeOK
<1>2. /\ DOMAIN log = 1 .. Len(log) /\ DOMAIN log' = 1 .. Len(log) + 1
      /\ \A i \in 1 .. Len(log) : log'[i] = log[i]
      /\ log'[Len(log) + 1] = <<r, chat[r]>>
  BY <1>1, chat[r] \in Chat DEF TypeOK
<1>3. \A i \in DOMAIN log : i \in DOMAIN log' /\ log'[i] = log[i]
  BY <1>1, <1>2
<1>4. \A i \in DOMAIN log' : i \in DOMAIN log \/ i = Len(log) + 1
  BY <1>1, <1>2
<1>5. Len(log) + 1 \in DOMAIN log'
  BY <1>1, <1>2
<1>6. Range(log') = Range(log) \cup {<<r, chat[r]>>}
  BY <1>2, <1>3, <1>4, <1>5 DEF Range
<1> QED
  BY <1>2, <1>3, <1>4, <1>6

\* What is logged stays as it is known.
LEMMA StepLoggedOf ==
    ASSUME TypeOK, Control, NEW r \in Request, Step(r), NEW m, m[1] \in Request, m[2] \in Chat, LoggedOf(m)
    PROVE  LoggedOf(m)'
<1>1. /\ UNCHANGED <<req, past>> /\ Op(m[1])' = Op(m[1])
      /\ row[m[2]] # "absent" => row'[m[2]] # "absent"
  BY StepKeeps DEF ask, Op, TypeOK
<1>2. CASE m[1] # r
  BY <1>1, <1>2, StepKeeps, StepMoves DEF LoggedOf
<1>3. CASE m[1] = r
  <2>1. pc'[r] \notin {"idle", "auth", "participants"}
    BY <1>3, StepMoves DEF LoggedOf
  <2>2. /\ todo'[r] \subseteq todo[r]
        /\ Op(r) # "sendBroadcast" => chat'[r] = chat[r]
        /\ pc'[r] \in {"find", "insert"} =>
              \/ pc[r] = "find" /\ chat'[r] = chat[r]
              \/ pc[r] = "next" /\ chat'[r] \in todo[r] /\ chat'[r] \notin todo'[r]
    BY <1>3, StepMoves DEF LoggedOf
  <2>3. pc[r] = "next" => Op(r) = "sendBroadcast"
    BY DEF Control, ControlOf
  <2> QED
    BY <1>1, <1>3, <2>1, <2>2, <2>3 DEF LoggedOf
<1> QED
  BY <1>2, <1>3

LEMMA StepLogged ==
    ASSUME TypeOK, Control, Checked, Logged, NEW r \in Request, Step(r)
    PROVE  Logged'
<1>1. ASSUME NEW m \in Range(log) PROVE LoggedOf(m)'
  BY LogTypes, StepLoggedOf DEF Logged
<1>s. ASSUME NEW q \in Request PROVE ServingOf(q)'
  <2>1. Op(q)' = Op(q)
    BY StepKeeps DEF ask, Op
  <2>2. CASE q # r
    <3>1. pc'[q] = pc[q] /\ chat'[q] = chat[q] /\ todo'[q] = todo[q]
      BY <2>2, StepKeeps, StepMoves
    <3>2. ServingOf(q)
      BY DEF Logged
    <3> QED
      BY <2>1, <3>1, <3>2 DEF ServingOf
  <2>3. CASE q = r
    <3>1. ASSUME Op(r) = "sendBroadcast", pc'[r] \in {"find", "insert"} PROVE chat'[r] \notin todo'[r]
      <4>1. \/ pc[r] = "find" /\ chat'[r] = chat[r]
            \/ pc[r] = "next" /\ chat'[r] \in todo[r] /\ chat'[r] \notin todo'[r]
        BY <3>1, StepMoves
      <4>2. pc[r] = "find" => todo'[r] \subseteq todo[r] /\ chat[r] \notin todo[r]
        BY <3>1, StepMoves DEF Logged, ServingOf
      <4> QED
        BY <4>1, <4>2
    <3> QED
      BY <2>1, <2>3, <3>1 DEF ServingOf
  <2> QED
    BY <2>2, <2>3
<1>2. CASE log' = log
  BY <1>1, <1>s, <1>2 DEF Logged, Once
<1>3. CASE StoreMessage(r)
  <2>0. PICK n : n = <<r, chat[r]>>
    OBVIOUS
  <2>1. /\ pc[r] = "insert" /\ pc'[r] = "touch" /\ Exists(chat[r]) /\ UNCHANGED <<row, work, ask>>
        /\ chat[r] \in Chat
    BY <1>3 DEF StoreMessage, Goes, TypeOK
  <2>2. n \notin Range(log)
    BY <2>0, <2>1 DEF Logged, LoggedOf
  <2>3. Once'
    <3>1. SUFFICES ASSUME NEW i \in DOMAIN log', NEW j \in DOMAIN log', log'[i] = log'[j] PROVE i = j
      BY DEF Once
    <3>2. \A k \in DOMAIN log : log[k] # n
      BY <2>2 DEF Range
    <3>3. CASE i \in DOMAIN log /\ j \in DOMAIN log
      BY <1>3, <3>1, <3>3, Stores DEF Logged, Once
    <3>4. CASE i \notin DOMAIN log /\ j \notin DOMAIN log
      BY <1>3, <3>4, Stores
    <3>5. CASE (i \in DOMAIN log) # (j \in DOMAIN log)
      BY <1>3, <3>1, <3>2, <3>5, <2>0, Stores
    <3> QED
      BY <3>3, <3>4, <3>5
  <2>4. LoggedOf(n)'
    <3>1. /\ Op(r) \in Sends /\ past[r][chat[r]] \notin {"inactive", "gone"}
      BY <2>1 DEF Control, ControlOf, Checked, CheckedOf
    <3>2. n[1] = r /\ n[2] = chat[r]
      BY <2>0
    <3>3. Op(r)' = Op(r) /\ past' = past /\ row' = row /\ chat' = chat /\ todo' = todo
      BY <2>1 DEF Op, ask, work
    <3>4. Op(r) = "sendBroadcast" => chat[r] \notin todo[r]
      BY <2>1 DEF Logged, ServingOf
    <3> QED
      BY <2>1, <3>1, <3>2, <3>3, <3>4 DEF LoggedOf, Exists
  <2> QED
    BY <1>1, <1>s, <1>3, <2>0, <2>3, <2>4, Stores DEF Logged
<1> QED
  BY <1>2, <1>3, StepLogs

LEMMA StepNames ==
    ASSUME TypeOK, NEW r \in Request, Step(r)
    PROVE  /\ UNCHANGED <<up, req, began, past>>
           /\ \A q : Op(q)' = Op(q) /\ By(q)' = By(q) /\ Who(q)' = Who(q)
           /\ \A c : Members(c)' = Members(c)
           /\ \A q \in Request : By(q) \in Client
           /\ ~Served(r)
           /\ \A q \in Request \ {r} : pc'[q] = pc[q] /\ chat'[q] = chat[q] /\ list'[q] = list[q]
           /\ \A c \in Chat : /\ row'[c] = "absent" => row[c] = "absent"
                              /\ row[c] \in {"inactive", "gone"} => row'[c] = row[c]
BY StepKeeps, RequestTypes DEF ask, Op, By, Who, Members, TypeOK, Served, Awaiting

LEMMA StepFresh ==
    ASSUME TypeOK, Fresh, NEW r \in Request, Step(r)
    PROVE  Fresh'
BY StepNames DEF Fresh

LEMMA StepStaying ==
    ASSUME TypeOK, Control, Staying, NEW r \in Request, Step(r)
    PROVE  Staying'
<1>1. ASSUME NEW q \in steady' PROVE StayingOf(q)'
  <2>1. CASE q \in steady
    <3>1. StayingOf(q) /\ q \in Request /\ room[By(q)] \subseteq room'[By(q)]
      BY <1>1, <2>1, StepStays DEF Staying, TypeOK
    <3>2. CASE q # r
      BY <3>1, <3>2, StepNames DEF StayingOf
    <3>3. CASE q = r
      <4>1. Op(r) = "getMessages" /\ chat[r] \in room[By(r)]
        BY <3>1, <3>3, StepNames DEF StayingOf, Served
      <4>2. chat'[r] = chat[r] /\ pc'[r] # "idle"
        BY <4>1, StepMoves
      <4> QED
        BY <3>1, <3>3, <4>1, <4>2, StepNames DEF StayingOf
    <3> QED
      BY <3>2, <3>3
  <2>2. CASE q \notin steady
    <3>1. q = r /\ By(r) \in up /\ JoinAllChats(r)
      BY <1>1, <2>2, StepStays
    <3>2. /\ Op(r) = "joinAllChats" /\ pc'[r] = "done" /\ list' = list
          /\ room' = [room EXCEPT ![By(r)] = @ \cup list[r]]
      BY <3>1 DEF JoinAllChats, Goes, Enter, work, TypeOK
    <3>3. list[r] \subseteq room'[By(r)]
      BY <3>2, StepNames DEF TypeOK
    <3> QED
      BY <3>1, <3>2, <3>3, StepNames DEF StayingOf
  <2> QED
    BY <2>1, <2>2
<1> QED
  BY <1>1 DEF Staying

-----------------------------------------------------------------------------
(* What is beyond a list                                                   *)

\* From where joinAllChats goes on.
LEMMA StepListing ==
    ASSUME TypeOK, Control, NEW r \in Request, Step(r), Op(r) = "joinAllChats", pc'[r] \in {"count", "done"}
    PROVE  ListChats(r) \/ JoinAllChats(r)
<1>1. ControlOf(r) /\ pc[r] \in Awaiting /\ pc \in [Request -> {"idle", "done", "failed"} \cup Awaiting]
  BY StepKeeps DEF TypeOK, Control
<1> QED
  BY <1>1 DEF Step, ControlOf, Goes, Tells, Identified, Fail, ChatAllowed, JoinChat, MobileJoinChat,
     LeaveChat, MobileLeaveChat, ListProjectChats, JoinProjectChats, Typing, ChatUpdate,
     MessageUpdate, ReadChat, MarkAsRead, ParticipantStatusTo, ParticipantStatusUpdate,
     FindParticipants, OpenChat, Admit, StoreMessage, TouchChat, SendMessage, MobileSendMessage,
     CreateMessage, BroadcastOne, Skip, SendBroadcast, FindMessages, GetMessages, GetChats,
     Sends, SocketSends, Looking, Immediate, Listing, Awaiting

LEMMA StepListed ==
    ASSUME TypeOK, Control, Fresh, Listed, NEW r \in Request, Step(r)
    PROVE  Listed'
<1>1. ASSUME NEW q \in Request, q # r PROVE ListedOf(q)'
  <2>1. ListedOf(q) /\ pc'[q] = pc[q] /\ list'[q] = list[q]
    BY <1>1, StepNames DEF Listed
  <2> QED
    BY <2>1, StepNames DEF ListedOf, Beyond
<1>2. ASSUME Op(r) = "joinAllChats", pc'[r] \in {"count", "done"} PROVE ListedOf(r)'
  <2>1. CASE ListChats(r)
    <3>1. list'[r] = Slice(ChatsOf(Who(r)), 0)
      BY <2>1 DEF ListChats, TypeOK
    <3>2. ChatsOf(Who(r)) \subseteq Chat
      BY DEF ChatsOf
    <3>3. ASSUME NEW c \in Chat, c \notin list'[r], Who(r) \in Members(c)
          PROVE  Beyond(r, c)' \/ row'[c] \in {"inactive", "gone"}
      <4>1. CASE c \in ChatsOf(Who(r))
        <5>1. Cardinality(list'[r]) = PageSize
          BY <3>1, <3>2, <3>3, <4>1, SliceFull
        <5> QED
          BY <5>1 DEF Beyond
      <4>2. CASE c \notin ChatsOf(Who(r))
        <5>1. row[c] # "active" /\ row[c] \in {"absent", "active", "inactive", "gone"}
          BY <3>3, <4>2 DEF ChatsOf, TypeOK
        <5> QED
          BY <5>1, StepNames DEF Fresh, Beyond
      <4> QED
        BY <4>1, <4>2
    <3> QED
      BY <3>3, StepNames DEF ListedOf
  <2>2. CASE JoinAllChats(r)
    <3>1. pc[r] = "count" /\ list' = list /\ ListedOf(r)
      BY <2>2 DEF JoinAllChats, Goes, work, Listed
    <3> QED
      BY <1>2, <3>1, StepNames DEF ListedOf, Beyond
  <2> QED
    BY <1>2, <2>1, <2>2, StepListing
<1>3. ListedOf(r)'
  BY <1>2, StepNames DEF ListedOf
<1> QED
  BY <1>1, <1>3 DEF Listed

LEMMA StepSentLater ==
    ASSUME TypeOK, Begun, SentLater, NEW r \in Request, Step(r)
    PROVE  SentLater'
<1>1. ASSUME NEW q \in Request, NEW s \in began'[q] PROVE s \in Request /\ s # r /\ s \in began[q]
  BY <1>1, StepNames DEF Begun, TypeOK
<1>2. \A s \in Request \ {r} : pc'[s] = pc[s] /\ list'[s] = list[s]
  BY StepNames
<1> QED
  BY <1>1, <1>2, StepNames DEF SentLater, Beyond

-----------------------------------------------------------------------------
(* Who hears of messages                                                   *)

\* What is told after a step was in the log before, and if it was not told,
\* the step tells it.
LEMMA StepTold ==
    ASSUME TypeOK, Control, Logged, NEW r \in Request, Step(r), NEW m \in Range(log'), Told(m)'
    PROVE  /\ m \in Range(log) /\ m[1] \in Request /\ m[2] \in Chat
           /\ \/ Told(m)
              \/ /\ m[1] = r /\ pc'[r] = "done" /\ Op(r) \in Sends
                 /\ IF Op(r) = "sendBroadcast" THEN m[2] \in list'[r] ELSE m[2] = chat[r]
<1>1. m \in Range(log)
  <2>1. CASE log' = log
    BY <2>1
  <2>2. CASE StoreMessage(r)
    <3>1. m \in Range(log) \/ m = <<r, chat[r]>>
      BY <2>2, Stores
    <3>2. pc'[r] = "touch"
      BY <2>2 DEF StoreMessage, Goes, TypeOK
    <3> QED
      BY <3>1, <3>2 DEF Told
  <2> QED
    BY <2>1, <2>2, StepLogs
<1>2. m[1] \in Request /\ m[2] \in Chat /\ LoggedOf(m)
  BY <1>1, LogTypes DEF Logged
<1>3. CASE m[1] # r
  BY <1>1, <1>2, <1>3, StepNames DEF Told
<1>4. CASE m[1] = r
  BY <1>1, <1>2, <1>4, StepNames DEF Told, LoggedOf
<1> QED
  BY <1>3, <1>4

LEMMA StepMissed ==
    ASSUME TypeOK, Control, Begun, Logged, Staying, SentLater, MissedOnlyBeyondList,
           NEW r \in Request, Step(r)
    PROVE  MissedOnlyBeyondList'
<1>1. SUFFICES ASSUME NEW s \in steady', Op(s) = "joinAllChats", pc'[s] = "done",
                      NEW m \in Range(log'), Told(m)', s \in began[m[1]], Who(s) \in Members(m[2])
               PROVE  \/ m \in heard'[By(s)]
                      \/ /\ Op(m[1]) \in SocketSends /\ m[2] \notin list'[s]
                         /\ past[s][m[2]] = "absent" \/ Cardinality(list'[s]) = PageSize
  BY StepNames DEF MissedOnlyBeyondList
<1>2. m \in Range(log) /\ m[1] \in Request /\ m[2] \in Chat /\ LoggedOf(m)
  BY <1>1, StepTold DEF Logged
<1>3. s \in Request /\ s # r
  BY <1>1, <1>2, StepNames DEF Begun, TypeOK
<1>4. s \in steady /\ pc[s] = "done" /\ list'[s] = list[s] /\ By(s) \in Client
  BY <1>1, <1>3, StepStays, StepNames
<1>5. CASE Told(m)
  <2>1. \/ m \in heard[By(s)]
        \/ /\ Op(m[1]) \in SocketSends /\ m[2] \notin list[s]
           /\ past[s][m[2]] = "absent" \/ Cardinality(list[s]) = PageSize
    BY <1>1, <1>2, <1>4, <1>5 DEF MissedOnlyBeyondList
  <2> QED
    BY <1>4, <2>1, StepHeard
<1>6. CASE ~Told(m)
  <2>1. /\ m[1] = r /\ pc'[r] = "done" /\ Op(r) \in Sends
        /\ IF Op(r) = "sendBroadcast" THEN m[2] \in list'[r] ELSE m[2] = chat[r]
    BY <1>1, <1>6, StepTold
  <2>2. By(s) \in up /\ list[s] \subseteq room[By(s)]
    BY <1>1, <1>4 DEF Staying, StayingOf
  <2>3. m = <<r, m[2]>>
    BY <1>2, <2>1, LogTypes
  <2>4. CASE Op(r) \in SocketSends => m[2] \in list[s]
    <3>1. <<r, m[2]>> \in heard'[By(s)]
      BY <2>1, <2>2, <2>4, StepTells
    <3> QED
      BY <2>3, <3>1
  <2>5. CASE Op(r) \in SocketSends /\ m[2] \notin list[s]
    <3>1. Beyond(s, m[2]) \/ past[r][m[2]] \in {"inactive", "gone"}
      BY <1>1, <1>2, <1>4, <2>1, <2>5 DEF SentLater
    <3>2. past[r][m[2]] \notin {"inactive", "gone"}
      BY <1>2, <2>1 DEF LoggedOf
    <3> QED
      BY <1>4, <2>1, <2>5, <3>1, <3>2 DEF Beyond
  <2> QED
    BY <2>4, <2>5
<1> QED
  BY <1>5, <1>6

-----------------------------------------------------------------------------
(* Pages of messages                                                       *)

\* Newer messages stay newer while the chat is there.
LEMMA NewerKept ==
    ASSUME NEW m, Exists(m[2])', Range(log) \subseteq Range(log'),
           \A i \in DOMAIN log : i \in DOMAIN log' /\ log'[i] = log[i]
    PROVE  Newer(m) \subseteq Newer(m)'
<1>1. ASSUME NEW n \in Newer(m) PROVE n \in Newer(m)'
  <2>1. n \in Stored /\ n[2] = m[2]
    BY DEF Newer
  <2>2. PICK i \in DOMAIN log, j \in DOMAIN log : i < j /\ log[i] = m /\ log[j] = n
    BY DEF Newer
  <2>3. n \in Stored'
    BY <2>1 DEF Stored
  <2> QED
    BY <2>1, <2>2, <2>3 DEF Newer
<1> QED
  BY <1>1

\* From where getMessages goes on.
LEMMA StepReading ==
    ASSUME TypeOK, Control, NEW r \in Request, Step(r), Op(r) = "getMessages", pc'[r] \in {"count", "done"}
    PROVE  FindMessages(r) \/ GetMessages(r)
<1>1. ControlOf(r) /\ pc[r] \in Awaiting /\ pc \in [Request -> {"idle", "done", "failed"} \cup Awaiting]
  BY StepKeeps DEF TypeOK, Control
<1> QED
  BY <1>1 DEF Step, ControlOf, Goes, Tells, Identified, Fail, ChatAllowed, JoinChat, MobileJoinChat,
     LeaveChat, MobileLeaveChat, ListChats, ListProjectChats, JoinAllChats, JoinProjectChats, Typing,
     ChatUpdate, MessageUpdate, ReadChat, MarkAsRead, ParticipantStatusTo, ParticipantStatusUpdate,
     FindParticipants, OpenChat, Admit, StoreMessage, TouchChat, SendMessage, MobileSendMessage,
     CreateMessage, BroadcastOne, Skip, SendBroadcast, GetChats,
     Sends, SocketSends, Looking, Immediate, Listing, Awaiting

LEMMA StepCaughtUp ==
    ASSUME TypeOK, Control, Logged, Staying, RoomForAReason, CaughtUp, NEW r \in Request, Step(r)
    PROVE  CaughtUp'
<1>1. SUFFICES ASSUME NEW q \in steady', Op(q) = "getMessages", pc'[q] \in {"count", "done"},
                      NEW m \in Stored', m[2] = chat'[q], Told(m)'
               PROVE  \/ m \in page'[q] \cup heard'[By(q)]
                      \/ Cardinality(page'[q]) = PageSize /\ page'[q] \subseteq Newer(m)'
  BY StepNames DEF CaughtUp, CaughtUpOf
<1>2. q \in steady /\ q \in Request /\ chat'[q] = chat[q] /\ By(q) \in Client
  <2>1. q \in steady
    BY <1>1, StepStays DEF JoinAllChats
  <2>2. q \in Request
    BY <2>1 DEF TypeOK
  <2>3. q = r => chat'[r] = chat[r]
    BY <1>1, StepMoves
  <2>4. q # r => chat'[q] = chat[q]
    BY <2>2, StepNames
  <2> QED
    BY <2>1, <2>2, <2>3, <2>4, StepNames
<1>3. m \in Range(log') /\ m \in Range(log) /\ m[2] \in Chat /\ Exists(m[2])' /\ LoggedOf(m)
  <2>1. m \in Range(log') /\ Exists(m[2])'
    BY DEF Stored
  <2>2. m \in Range(log) /\ m[2] \in Chat
    BY <1>1, <2>1, StepTold
  <2> QED
    BY <2>1, <2>2 DEF Logged
<1>4. m \in Stored
  <2>1. Exists(m[2])
    BY <1>3, StepNames DEF Exists, LoggedOf, TypeOK
  <2> QED
    BY <1>3, <2>1 DEF Stored
<1>5. Newer(m) \subseteq Newer(m)'
  <2>1. /\ Range(log) \subseteq Range(log')
        /\ \A i \in DOMAIN log : i \in DOMAIN log' /\ log'[i] = log[i]
    BY StepLogs, Stores
  <2> QED
    BY <1>3, <2>1, NewerKept
<1>6. CASE FindMessages(r) /\ q = r
  <2>1. page'[q] = LatestOf(chat[q])
    BY <1>2, <1>6 DEF FindMessages, TypeOK
  <2>2. CASE m \in LatestOf(chat[q])
    BY <2>1, <2>2
  <2>3. CASE m \notin LatestOf(chat[q])
    <3>1. Cardinality(LatestOf(chat[q])) = PageSize /\ LatestOf(chat[q]) \subseteq Newer(m)
      BY <1>1, <1>2, <1>4, <2>3, LatestFull DEF Logged
    <3> QED
      BY <1>5, <2>1, <3>1
  <2> QED
    BY <2>2, <2>3
<1>7. CASE ~(FindMessages(r) /\ q = r)
  <2>1. page'[q] = page[q] /\ pc[q] \in {"count", "done"}
    <3>1. CASE q = r
      BY <1>1, <1>7, <3>1, StepReading DEF GetMessages, Goes, work
    <3>2. CASE q # r
      BY <1>1, <1>2, <3>2, StepMoves, StepNames
    <3> QED
      BY <3>1, <3>2
  <2>2. CASE Told(m)
    <3>1. \/ m \in page[q] \cup heard[By(q)]
          \/ Cardinality(page[q]) = PageSize /\ page[q] \subseteq Newer(m)
      BY <1>1, <1>2, <1>4, <2>1, <2>2 DEF CaughtUp, CaughtUpOf
    <3> QED
      BY <1>2, <1>5, <2>1, <3>1, StepHeard
  <2>3. CASE ~Told(m)
    <3>1. /\ m[1] = r /\ pc'[r] = "done" /\ Op(r) \in Sends
          /\ IF Op(r) = "sendBroadcast" THEN m[2] \in list'[r] ELSE m[2] = chat[r]
      BY <1>1, <1>3, <2>3, StepTold
    <3>2. m[2] \in room[By(q)]
      BY <1>1, <1>2 DEF Staying, StayingOf
    <3>3. By(q) \in up
      BY <1>2, <3>2 DEF RoomForAReason
    <3>4. <<r, m[2]>> \in heard'[By(q)]
      BY <3>1, <3>2, <3>3, StepTells
    <3>5. m = <<r, m[2]>>
      BY <1>3, <3>1, LogTypes
    <3> QED
      BY <3>4, <3>5
  <2> QED
    BY <2>2, <2>3
<1> QED
  BY <1>6, <1>7

-----------------------------------------------------------------------------
(* Pages of chats                                                          *)

\* Where a chat that has not moved itself is in the list of its user.
LEMMA BelowKept ==
    ASSUME TypeOK, NEW S, NEW T, S \subseteq T, T \subseteq Chat, NEW d \in Chat, NEW c \in Chat, c # d
    PROVE  Cardinality(Below(S, place, c)) <= Cardinality(Below(T, Later(d), c))
<1>1. place \in [Chat -> Nat] /\ place[c] # place[d]
  BY DEF TypeOK
<1>2. \A x \in Chat : Later(d)[x] = IF x = d THEN 0
                                    ELSE IF place[x] < place[d] THEN place[x] + 1 ELSE place[x]
  BY DEF Later
<1>3. ASSUME NEW x \in Below(S, place, c) PROVE x \in Below(T, Later(d), c)
  <2>1. x \in T /\ x \in Chat /\ place[x] < place[c]
    BY DEF Below
  <2>2. place[x] \in Nat /\ place[c] \in Nat /\ place[d] \in Nat
    BY <1>1, <2>1
  <2>3. /\ Later(d)[c] = IF place[c] < place[d] THEN place[c] + 1 ELSE place[c]
        /\ Later(d)[x] = IF x = d THEN 0 ELSE IF place[x] < place[d] THEN place[x] + 1 ELSE place[x]
    BY <1>2, <2>1
  <2>4. PICK a \in Nat, b \in Nat, e \in Nat : a = place[x] /\ b = place[c] /\ e = place[d] /\ a < b /\ b # e
    BY <1>1, <2>1, <2>2
  <2>5. Later(d)[x] < Later(d)[c]
    <3>1. CASE x = d
      <4>1. Later(d)[x] = 0 /\ Later(d)[c] = b /\ 0 < b
        BY <2>3, <2>4, <3>1
      <4> QED
        BY <4>1
    <3>2. CASE x # d
      <4>1. /\ Later(d)[x] = IF a < e THEN a + 1 ELSE a
            /\ Later(d)[c] = IF b < e THEN b + 1 ELSE b
        BY <2>3, <2>4, <3>2
      <4> QED
        BY <2>4, <4>1
    <3> QED
      BY <3>1, <3>2
  <2> QED
    BY <2>1, <2>5 DEF Below
<1>4. Below(T, Later(d), c) \in SUBSET Chat /\ Below(S, place, c) \in SUBSET Below(T, Later(d), c)
  BY <1>3 DEF Below
<1>5. IsFiniteSet(Below(T, Later(d), c))
  BY <1>4, FS_Subset, RoomsAssumption
<1> QED
  BY <1>4, <1>5, FS_Subset

\* From where getChats goes on.
LEMMA StepPaging ==
    ASSUME TypeOK, Control, NEW r \in Request, Step(r), Op(r) = "getChats", pc'[r] \in {"list", "done"}
    PROVE  Identified(r) \/ GetChats(r)
<1>1. ControlOf(r) /\ pc[r] \in Awaiting /\ pc \in [Request -> {"idle", "done", "failed"} \cup Awaiting]
  BY StepKeeps DEF TypeOK, Control
<1> QED
  BY <1>1 DEF Step, ControlOf, Goes, Tells, Fail, ChatAllowed, JoinChat, MobileJoinChat,
     LeaveChat, MobileLeaveChat, ListChats, ListProjectChats, JoinAllChats, JoinProjectChats, Typing,
     ChatUpdate, MessageUpdate, ReadChat, MarkAsRead, ParticipantStatusTo, ParticipantStatusUpdate,
     FindParticipants, OpenChat, Admit, StoreMessage, TouchChat, SendMessage, MobileSendMessage,
     CreateMessage, BroadcastOne, Skip, SendBroadcast, FindMessages, GetMessages,
     Sends, SocketSends, Looking, Immediate, Listing, Awaiting

LEMMA PagingStays ==
    ASSUME TypeOK, Control, Paging, NEW r \in Request, Step(r), NEW q \in Request, q # r
    PROVE  PagingOf(q)'
<1>1. /\ pc'[q] = pc[q] /\ list'[q] = list[q] /\ offset'[q] = offset[q] /\ shrunk' = shrunk
      /\ PagingOf(q) /\ Who(q)' = Who(q) /\ Op(q)' = Op(q) /\ past' = past
      /\ \A c : Members(c)' = Members(c)
  BY StepNames, StepMoves, StepPlaces DEF Paging
<1>2. CASE UNCHANGED <<row, place, bumped>>
  BY <1>1, <1>2 DEF PagingOf, ChatsOf
<1>3. ASSUME NEW d \in Chat, Bump(d),
             row' = row \/ (row[d] = "absent" /\ row' = [row EXCEPT ![d] = "active"])
      PROVE  PagingOf(q)'
  <2>1. SUFFICES ASSUME Op(q) = "getChats", q \notin shrunk, pc[q] \in {"auth", "list", "done"},
                        NEW c \in Chat, past[q][c] = "active", Who(q) \in Members(c), c \notin bumped'[q]
                 PROVE  \/ c \in list[q]
                        \/ /\ pc[q] # "done" /\ row'[c] = "active"
                           /\ offset[q] <= Cardinality(Below(ChatsOf(Who(q))', place', c))
    BY <1>1 DEF PagingOf
  <2>2. c \notin bumped[q] /\ (pc[q] # "done" => c # d) /\ place' = Later(d)
    BY <1>3, <2>1 DEF Bump, TypeOK
  <2>3. CASE c \in list[q]
    BY <2>3
  <2>4. CASE c \notin list[q]
    <3>1. pc[q] # "done" /\ row[c] = "active" /\ offset[q] <= Cardinality(Below(ChatsOf(Who(q)), place, c))
      BY <1>1, <2>1, <2>2, <2>4 DEF PagingOf
    <3>2. ChatsOf(Who(q)) \subseteq ChatsOf(Who(q))' /\ ChatsOf(Who(q))' \subseteq Chat
          /\ ChatsOf(Who(q)) \subseteq Chat
      BY <1>1, <1>3 DEF ChatsOf, TypeOK
    <3>3. row'[c] = "active"
      BY <1>3, <3>1 DEF TypeOK
    <3>4. Cardinality(Below(ChatsOf(Who(q)), place, c)) <= Cardinality(Below(ChatsOf(Who(q))', Later(d), c))
      BY <2>2, <3>1, <3>2, BelowKept
    <3>5. /\ Cardinality(Below(ChatsOf(Who(q)), place, c)) \in Nat /\ offset[q] \in Nat
          /\ Cardinality(Below(ChatsOf(Who(q))', Later(d), c)) \in Nat
      <4>1. /\ Below(ChatsOf(Who(q)), place, c) \in SUBSET Chat
            /\ Below(ChatsOf(Who(q))', Later(d), c) \in SUBSET Chat
        BY <3>2 DEF Below
      <4> QED
        BY <4>1, FS_Subset, FS_CardinalityType, RoomsAssumption DEF TypeOK
    <3>6. offset[q] <= Cardinality(Below(ChatsOf(Who(q))', Later(d), c))
      BY <3>1, <3>4, <3>5
    <3> QED
      BY <2>2, <3>1, <3>3, <3>6
  <2> QED
    BY <2>3, <2>4
<1> QED
  BY <1>2, <1>3, StepPlaces

LEMMA PagingGoesOn ==
    ASSUME TypeOK, Control, Paging, NEW r \in Request, Step(r)
    PROVE  PagingOf(r)'
<1>1. /\ pc'[r] \notin {"idle", "auth"} /\ shrunk' = shrunk /\ PagingOf(r)
      /\ Who(r)' = Who(r) /\ Op(r)' = Op(r) /\ past' = past /\ \A c : Members(c)' = Members(c)
  BY StepNames, StepMoves, StepPlaces DEF Paging
<1>2. SUFFICES ASSUME Op(r) = "getChats", r \notin shrunk, pc'[r] \in {"list", "done"},
                      NEW c \in Chat, past[r][c] = "active", Who(r) \in Members(c), c \notin bumped'[r]
               PROVE  \/ c \in list'[r]
                      \/ /\ pc'[r] # "done" /\ row'[c] = "active"
                         /\ offset'[r] <= Cardinality(Below(ChatsOf(Who(r))', place', c))
  BY <1>1 DEF PagingOf
<1>3. UNCHANGED <<row, place, bumped>> /\ ChatsOf(Who(r))' = ChatsOf(Who(r))
  <2>1. UNCHANGED <<row, place, bumped>>
    BY <1>2, StepPaging DEF Identified, GetChats, rows, notes
  <2> QED
    BY <1>1, <2>1 DEF ChatsOf
<1>4. pc[r] \in {"auth", "list"}
  BY <1>2, StepPaging DEF Identified, GetChats, Goes
<1>5. c \in list[r] \/ (row[c] = "active" /\ offset[r] <= Cardinality(Below(ChatsOf(Who(r)), place, c)))
  BY <1>1, <1>2, <1>3, <1>4 DEF PagingOf
<1>6. CASE Identified(r)
  <2>1. UNCHANGED <<list, offset>> /\ pc'[r] # "done"
    BY <1>2, <1>6 DEF Identified, work, Goes, Listing, Looking, TypeOK
  <2> QED
    BY <1>3, <1>5, <2>1
<1>7. CASE GetChats(r)
  <2> DEFINE S == ChatsOf(Who(r))
  <2>1. /\ list'[r] = list[r] \cup Slice(S, offset[r]) /\ offset'[r] = offset[r] + PageSize
        /\ Slice(S, offset[r]) # {} => pc'[r] # "done"
    BY <1>7 DEF GetChats, Goes, TypeOK
  <2>2. CASE c \in list[r]
    BY <2>1, <2>2
  <2>3. CASE c \notin list[r]
    <3>1. S \subseteq Chat /\ c \in S /\ offset[r] \in Nat
          /\ row[c] = "active" /\ offset[r] <= Cardinality(Below(S, place, c))
      BY <1>2, <1>5, <2>3 DEF ChatsOf, TypeOK
    <3> HIDE DEF S
    <3>2. /\ Slice(S, offset[r]) # {}
          /\ c \notin Slice(S, offset[r]) => offset[r] + PageSize <= Cardinality(Below(S, place, c))
      BY <3>1, SliceNext
    <3>3. pc'[r] # "done"
      BY <2>1, <3>2
    <3>4. CASE c \in Slice(S, offset[r])
      BY <2>1, <3>4
    <3>5. CASE c \notin Slice(S, offset[r])
      <4>1. offset'[r] <= Cardinality(Below(S, place, c))
        BY <2>1, <3>2, <3>5
      <4> QED
        BY <1>3, <3>1, <3>3, <4>1 DEF S
    <3> QED
      BY <3>4, <3>5
  <2> QED
    BY <2>2, <2>3
<1> QED
  BY <1>2, <1>6, <1>7, StepPaging

-----------------------------------------------------------------------------
(* Requests that begin, and the rest of the system                         *)

LEMMA BeginMInv ==
    ASSUME IInv, MInv, NEW r \in Request, Begin(r)
    PROVE  MInv'
<1> USE DEF IInv, MInv
<1>0. /\ UNCHANGED <<sockets, rows, req, work, bumped, shrunk>> /\ pc[r] = "idle" /\ pc'[r] = "auth"
      /\ \A q \in Request \ {r} : pc'[q] = pc[q] /\ past'[q] = past[q] /\ began'[q] = began[q]
      /\ past'[r] \in {past[r], row}
      /\ Op(r) \in Sends \cup {"getChats"} => past'[r] = row
      /\ Op(r) \in Sends => began'[r] = {q \in Request : Served(q)}
      /\ steady' = steady \/ (steady' = steady \cup {r} /\ Op(r) = "getMessages" /\ chat[r] \in room[By(r)])
  BY DEF Begin, Goes, TypeOK, Immediate, Sends, SocketSends
<1>1. /\ \A q : Op(q)' = Op(q) /\ By(q)' = By(q) /\ Who(q)' = Who(q)
      /\ \A c : Members(c)' = Members(c)
  BY <1>0 DEF Op, By, Who, Members
<1>2. UNCHANGED <<up, room, heard, row, place, log, chat, list, todo, page, offset>>
  BY <1>0 DEF sockets, rows, work
<1>3. Stored' = Stored /\ (\A m : Newer(m)' = Newer(m)) /\ \A n : ChatsOf(n)' = ChatsOf(n)
  BY <1>2 DEF Stored, Newer, Exists, ChatsOf, Members
<1>4. Logged'
  <2>1. ASSUME NEW m \in Range(log) PROVE LoggedOf(m)'
    <3>1. m[1] \in Request /\ m[2] \in Chat /\ LoggedOf(m)
      BY LogTypes DEF Logged
    <3>2. m[1] # r
      BY <1>0, <3>1 DEF LoggedOf
    <3> QED
      BY <1>0, <1>1, <1>2, <3>1, <3>2 DEF LoggedOf
  <2>2. ASSUME NEW q \in Request PROVE ServingOf(q)'
    BY <1>0, <1>1, <1>2 DEF Logged, ServingOf
  <2>3. Once'
    BY <1>2 DEF Logged, Once
  <2> QED
    BY <1>2, <2>1, <2>2, <2>3 DEF Logged
<1>5. Fresh'
  BY <1>0, <1>2 DEF Fresh
<1>6. Staying'
  <2>1. ASSUME NEW q \in steady' PROVE StayingOf(q)'
    <3>1. CASE q = r /\ q \notin steady
      BY <1>0, <1>1, <1>2, <2>1, <3>1 DEF StayingOf
    <3>2. CASE q \in steady
      <4>1. StayingOf(q) /\ q \in Request
        BY <3>2 DEF Staying, TypeOK
      <4> QED
        BY <1>0, <1>1, <1>2, <4>1 DEF StayingOf
    <3> QED
      BY <1>0, <2>1, <3>1, <3>2
  <2> QED
    BY <2>1 DEF Staying
<1>7. Listed'
  <2>1. ASSUME NEW q \in Request PROVE ListedOf(q)'
    <3>1. CASE q = r
      BY <1>0, <3>1 DEF ListedOf
    <3>2. CASE q # r
      BY <1>0, <1>1, <1>2, <3>2 DEF Listed, ListedOf, Beyond
    <3> QED
      BY <3>1, <3>2
  <2> QED
    BY <2>1 DEF Listed
<1>8. SentLater'
  <2>1. SUFFICES ASSUME NEW q \in Request, NEW s \in began'[q], Op(q) \in Sends,
                        Op(s) = "joinAllChats", pc'[s] = "done",
                        NEW c \in Chat \ list[s], Who(s) \in Members(c)
                 PROVE  Beyond(s, c)' \/ past'[q][c] \in {"inactive", "gone"}
    BY <1>1, <1>2 DEF SentLater
  <2>2. s \in Request /\ Served(s)
    BY <1>0, <2>1 DEF Begun, TypeOK
  <2>3. s # r /\ past'[s] = past[s] /\ pc[s] = "done" /\ (Beyond(s, c)' <=> Beyond(s, c))
    BY <1>0, <1>2, <2>1, <2>2 DEF Served, Beyond
  <2>4. CASE q = r
    <3>1. Beyond(s, c) \/ row[c] \in {"inactive", "gone"}
      BY <2>1, <2>2, <2>3 DEF Listed, ListedOf
    <3> QED
      BY <1>0, <2>1, <2>3, <2>4, <3>1
  <2>5. CASE q # r
    BY <1>0, <2>1, <2>3, <2>5 DEF SentLater
  <2> QED
    BY <2>4, <2>5
<1>9. ASSUME NEW m \in Range(log), Told(m)' PROVE Told(m) /\ m[1] \in Request /\ m[1] # r
  <2>1. m[1] \in Request
    BY LogTypes
  <2>2. m[1] # r
    BY <1>0, <1>9 DEF Told
  <2> QED
    BY <1>0, <1>1, <1>2, <1>9, <2>1, <2>2 DEF Told
<1>10. MissedOnlyBeyondList'
  <2>1. SUFFICES ASSUME NEW s \in steady', Op(s) = "joinAllChats", pc'[s] = "done",
                        NEW m \in Range(log), Told(m)', s \in began'[m[1]], Who(s) \in Members(m[2])
                 PROVE  \/ m \in heard[By(s)]
                        \/ /\ Op(m[1]) \in SocketSends /\ m[2] \notin list[s]
                           /\ past'[s][m[2]] = "absent" \/ Cardinality(list[s]) = PageSize
    BY <1>1, <1>2 DEF MissedOnlyBeyondList
  <2>2. s \in steady /\ s \in Request /\ s # r
    BY <1>0, <2>1 DEF TypeOK
  <2>3. Told(m) /\ began'[m[1]] = began[m[1]] /\ past'[s] = past[s] /\ pc[s] = "done"
    BY <1>0, <1>9, <2>1, <2>2
  <2> QED
    BY <2>1, <2>2, <2>3 DEF MissedOnlyBeyondList
<1>11. CaughtUp'
  <2>1. SUFFICES ASSUME NEW q \in steady', Op(q) = "getMessages", pc'[q] \in {"count", "done"},
                        NEW m \in Stored, m[2] = chat[q], Told(m)'
                 PROVE  \/ m \in page[q] \cup heard[By(q)]
                        \/ Cardinality(page[q]) = PageSize /\ page[q] \subseteq Newer(m)
    BY <1>1, <1>2, <1>3 DEF CaughtUp, CaughtUpOf
  <2>2. q # r /\ q \in steady /\ q \in Request
    BY <1>0, <2>1 DEF TypeOK
  <2>3. Told(m) /\ pc[q] = pc'[q]
    BY <1>0, <1>9, <2>1, <2>2 DEF Stored
  <2> QED
    BY <2>1, <2>2, <2>3 DEF CaughtUp, CaughtUpOf
<1>12. Paging'
  <2>1. ASSUME NEW q \in Request, q # r PROVE PagingOf(q)'
    BY <1>0, <1>1, <1>2, <1>3, <2>1 DEF Paging, PagingOf
  <2>2. PagingOf(r)'
    <3>1. offset[r] = 0
      BY <1>0 DEF Paging, PagingOf
    <3>2. ASSUME NEW c \in Chat, past'[r][c] = "active", Op(r) = "getChats"
          PROVE  row[c] = "active" /\ 0 <= Cardinality(Below(ChatsOf(Who(r)), place, c))
      <4>1. Below(ChatsOf(Who(r)), place, c) \in SUBSET Chat
        BY DEF Below, ChatsOf
      <4>2. Cardinality(Below(ChatsOf(Who(r)), place, c)) \in Nat
        BY <4>1, FS_Subset, FS_CardinalityType, RoomsAssumption
      <4> QED
        BY <1>0, <3>2, <4>2
    <3> QED
      BY <1>0, <1>1, <1>2, <1>3, <3>1, <3>2 DEF PagingOf
  <2> QED
    BY <2>1, <2>2 DEF Paging
<1> QED
  BY <1>4, <1>5, <1>6, <1>7, <1>8, <1>10, <1>11, <1>12

\* A socket closes, a chat is closed or deleted, or nothing happens.
LEMMA RestMInv ==
    ASSUME IInv, MInv, UNCHANGED <<ask, work, pc, heard, log>>,
           steady' \subseteq steady,
           \A q \in steady' : room'[By(q)] = room[By(q)] /\ (By(q) \in up => By(q) \in up'),
           \A c \in Chat : /\ row'[c] = "absent" <=> row[c] = "absent"
                           /\ row[c] \in {"inactive", "gone"} => row'[c] \in {"inactive", "gone"}
                           /\ Exists(c)' => Exists(c),
           \/ UNCHANGED <<row, place, bumped, shrunk>>
           \/ /\ shrunk \subseteq shrunk'
              /\ \A q \in Request :
                    IF Op(q) = "getChats" /\ pc[q] \in {"auth", "list"} THEN q \in shrunk'
                    ELSE bumped'[q] = bumped[q]
    PROVE  MInv'
<1> USE DEF IInv, MInv
<1>1. /\ \A q : Op(q)' = Op(q) /\ By(q)' = By(q) /\ Who(q)' = Who(q)
      /\ \A c : Members(c)' = Members(c)
  BY DEF Op, By, Who, Members, ask
<1>2. UNCHANGED <<req, began, past, chat, list, todo, page, offset, pc, heard, log>>
  BY DEF ask, work
<1>3. Logged'
  <2>1. ASSUME NEW m \in Range(log) PROVE LoggedOf(m)'
    <3>1. m[1] \in Request /\ m[2] \in Chat /\ LoggedOf(m)
      BY LogTypes DEF Logged
    <3> QED
      BY <1>1, <1>2, <3>1 DEF LoggedOf
  <2>2. ASSUME NEW q \in Request PROVE ServingOf(q)'
    BY <1>1, <1>2 DEF Logged, ServingOf
  <2>3. Once'
    BY <1>2 DEF Logged, Once
  <2> QED
    BY <1>2, <2>1, <2>2, <2>3 DEF Logged
<1>4. Fresh'
  BY <1>2 DEF Fresh
<1>5. Staying'
  <2>1. ASSUME NEW q \in steady' PROVE StayingOf(q)'
    BY <1>1, <1>2, <2>1 DEF Staying, StayingOf
  <2> QED
    BY <2>1 DEF Staying
<1>6. Listed'
  <2>1. ASSUME NEW q \in Request PROVE ListedOf(q)'
    BY <1>1, <1>2 DEF Listed, ListedOf, Beyond
  <2> QED
    BY <2>1 DEF Listed
<1>7. SentLater'
  BY <1>1, <1>2 DEF SentLater, Beyond
<1>8. \A m : Told(m)' <=> Told(m)
  BY <1>1, <1>2 DEF Told
<1>9. MissedOnlyBeyondList'
  BY <1>1, <1>2, <1>8 DEF MissedOnlyBeyondList
<1>10. CaughtUp'
  <2>1. SUFFICES ASSUME NEW q \in steady', Op(q) = "getMessages", pc[q] \in {"count", "done"},
                        NEW m \in Stored', m[2] = chat[q], Told(m)
                 PROVE  \/ m \in page[q] \cup heard[By(q)]
                        \/ Cardinality(page[q]) = PageSize /\ page[q] \subseteq Newer(m)'
    BY <1>1, <1>2, <1>8 DEF CaughtUp, CaughtUpOf
  <2>2. m \in Range(log) /\ m[2] \in Chat /\ Exists(m[2])'
    BY <1>2, LogTypes DEF Stored
  <2>3. m \in Stored
    BY <2>2 DEF Stored
  <2>4. Newer(m) \subseteq Newer(m)'
    BY <1>2, <2>2, NewerKept
  <2>5. \/ m \in page[q] \cup heard[By(q)]
        \/ Cardinality(page[q]) = PageSize /\ page[q] \subseteq Newer(m)
    BY <2>1, <2>3 DEF CaughtUp, CaughtUpOf
  <2> QED
    BY <2>4, <2>5
<1>11. Paging'
  <2>1. ASSUME NEW q \in Request PROVE PagingOf(q)'
    <3>1. CASE UNCHANGED <<row, place, bumped, shrunk>>
      BY <1>1, <1>2, <3>1 DEF Paging, PagingOf, ChatsOf
    <3>2. CASE /\ shrunk \subseteq shrunk'
               /\ IF Op(q) = "getChats" /\ pc[q] \in {"auth", "list"} THEN q \in shrunk'
                  ELSE bumped'[q] = bumped[q]
      <4>1. PagingOf(q)
        BY DEF Paging
      <4> QED
        BY <1>1, <1>2, <3>2, <4>1 DEF PagingOf
    <3> QED
      BY <3>1, <3>2
  <2> QED
    BY <2>1 DEF Paging
<1> QED
  BY <1>3, <1>4, <1>5, <1>6, <1>7, <1>9, <1>10, <1>11

LEMMA InitMInv == Init => MInv
<1> SUFFICES ASSUME Init PROVE MInv
  OBVIOUS
<1>1. log = <<>> /\ DOMAIN log = {} /\ Range(log) = {}
  BY DEF Init, Range
<1>2. Logged
  BY <1>1 DEF Init, Logged, Once, ServingOf
<1>3. Fresh /\ Staying /\ CaughtUp /\ MissedOnlyBeyondList
  BY DEF Init, Fresh, Staying, CaughtUp, MissedOnlyBeyondList
<1>4. Listed /\ SentLater /\ Paging
  BY DEF Init, Listed, ListedOf, SentLater, Paging, PagingOf
<1> QED
  BY <1>2, <1>3, <1>4 DEF MInv

LEMMA NextMInv == IInv /\ MInv /\ [Next]_vars => MInv'
<1> SUFFICES ASSUME IInv, MInv, [Next]_vars PROVE MInv'
  OBVIOUS
<1> USE DEF IInv
<1>1. ASSUME NEW r \in Request, Begin(r) PROVE MInv'
  BY <1>1, BeginMInv
<1>2. ASSUME NEW r \in Request, Step(r) PROVE MInv'
  <2>1. Paging'
    BY <1>2, PagingStays, PagingGoesOn DEF Paging, MInv
  <2> QED
    BY <1>2, <2>1, StepLogged, StepFresh, StepStaying, StepListed, StepSentLater, StepMissed,
       StepCaughtUp DEF MInv
<1>3. ASSUME NEW k \in Drops, Disconnect(k) PROVE MInv'
  <2>1. /\ UNCHANGED <<ask, work, pc, heard, log, row, place, bumped, shrunk>>
        /\ up' = up \ {k} /\ Quit(k, Chat) /\ k \in Client
    BY <1>3, RoomsAssumption DEF Disconnect, rows
  <2>2. /\ steady' \subseteq steady
        /\ \A q \in steady' : room'[By(q)] = room[By(q)] /\ (By(q) \in up => By(q) \in up')
    BY <2>1, RequestTypes DEF Quit, TypeOK
  <2>3. \A c \in Chat : Exists(c)' <=> Exists(c)
    BY <2>1 DEF Exists
  <2> QED
    BY <2>1, <2>2, <2>3, RestMInv
<1>4. ASSUME NEW c \in Mortal, ChatClosed(c) \/ ChatDeleted(c) PROVE MInv'
  <2>1. /\ UNCHANGED <<ask, work, pc, heard, log, up, room, steady>> /\ Shrink /\ c \in Chat
        /\ bumped' = bumped \/ Bump(c)
    BY <1>4, RoomsAssumption DEF ChatClosed, ChatDeleted, sockets
  <2>2. /\ Exists(c)
        /\ \/ row[c] = "active" /\ row' = [row EXCEPT ![c] = "inactive"]
           \/ row' = [row EXCEPT ![c] = "gone"]
    BY <1>4 DEF ChatClosed, ChatDeleted, Exists
  <2>3. \A d \in Chat : /\ row'[d] = "absent" <=> row[d] = "absent"
                        /\ row[d] \in {"inactive", "gone"} => row'[d] \in {"inactive", "gone"}
                        /\ Exists(d)' => Exists(d)
    BY <2>1, <2>2 DEF TypeOK, Exists
  <2>4. /\ shrunk \subseteq shrunk'
        /\ \A q \in Request :
              IF Op(q) = "getChats" /\ pc[q] \in {"auth", "list"} THEN q \in shrunk'
              ELSE bumped'[q] = bumped[q]
    BY <2>1 DEF Shrink, Bump, TypeOK
  <2>5. /\ steady' \subseteq steady
        /\ \A q \in steady' : room'[By(q)] = room[By(q)] /\ (By(q) \in up => By(q) \in up')
    BY <2>1
  <2> QED
    BY <2>1, <2>3, <2>4, <2>5, RestMInv
<1>5. CASE UNCHANGED vars
  <2>1. UNCHANGED <<ask, work, pc, heard, log, row, place, bumped, shrunk, steady, up, room>>
    BY <1>5 DEF vars, sockets, rows, notes
  <2>2. \A c \in Chat : Exists(c)' <=> Exists(c)
    BY <2>1 DEF Exists
  <2> QED
    BY <2>1, <2>2, RestMInv
<1> QED
  BY <1>1, <1>2, <1>3, <1>4, <1>5 DEF Next

-----------------------------------------------------------------------------
(* The theorems                                                            *)

\* The invariant above holds whatever the clients ask and however they race.
THEOREM InductiveInvariant == Spec => []IInv
BY InitIInv, NextIInv, PTL DEF Spec

\* So does what is known of logs, rooms, lists and pages on the way.
THEOREM MissInvariant == Spec => [](IInv /\ MInv)
<1>1. Init => IInv /\ MInv
  BY InitIInv, InitMInv
<1>2. IInv /\ MInv /\ [Next]_vars => IInv' /\ MInv'
  BY NextIInv, NextMInv
<1> QED
  BY <1>1, <1>2, PTL DEF Spec

\* Every variable keeps its type and no two rows have the same updatedAt.
THEOREM TypeCorrect == Spec => []TypeOK
<1>1. IInv => TypeOK
  BY DEF IInv
<1> QED
  BY <1>1, InductiveInvariant, PTL

\* A socket is in the room of a chat because a join put it there that no
\* leave answered later took back, however joins and leaves overtake.
THEOREM RoomsJoined == Spec => []RoomForAReason
<1>1. IInv => RoomForAReason
  BY DEF IInv
<1> QED
  BY <1>1, InductiveInvariant, PTL

\* The room of a chat closed before a request hears of it only from the
\* handlers that do not look.
THEOREM ClosedRoomsHear == Spec => []ClosedRoomHearsOnly
<1>1. IInv => ClosedRoomHearsOnly
  BY DEF IInv
<1> QED
  BY <1>1, InductiveInvariant, PTL

\* A client that reads a chat's messages while in its room has every one
\* that was sent, unless a full page of newer ones is in the way.
THEOREM MessagesCaughtUp == Spec => []NothingMissed
<1>1. IInv /\ MInv => NothingMissed
  BY DEF IInv, MInv, NothingMissed, CaughtUp, CaughtUpOf
<1> QED
  BY <1>1, MissInvariant, PTL

\* A client told allChatsJoined hears of all later messages of its user's
\* chats but for those over sockets in chats that are new or beyond the list.
THEOREM ListedChatsHeard == Spec => []MissedOnlyBeyondList
<1>1. IInv /\ MInv => MissedOnlyBeyondList
  BY DEF MInv
<1> QED
  BY <1>1, MissInvariant, PTL

\* A client that reads the list of chats to its end has every chat that was
\* active, unless that one moved to the front or some chat left the list.
THEOREM PagesFindChats == Spec => []SkippedOnlyIfMoved
<1>1. IInv /\ MInv => SkippedOnlyIfMoved
  BY DEF IInv, TypeOK, MInv, SkippedOnlyIfMoved, Paging, PagingOf
<1> QED
  BY <1>1, MissInvariant, PTL

=============================================================================
